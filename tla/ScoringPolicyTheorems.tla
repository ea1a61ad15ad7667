----------------------- MODULE ScoringPolicyTheorems ------------------------
(***************************************************************************)
(* What the scoring policy gives for every pair of scores.                 *)
(***************************************************************************)
EXTENDS ScoringPolicy, TLAPS

(* Points are a natural number, whatever the rules: awardPoints, which     *)
(* throws on anything else, accepts what compute returns.                  *)
LEMMA ComputeIsNat ==
  ASSUME NEW rules \in ScoringRules, NEW p \in Scores, NEW a \in Scores
  PROVE  compute(rules, p, a) \in Nat
BY DEF compute, goalDifferenceBonus, ScoringRules, Scores

(* compute with the default rules, by goal difference.                     *)
LEMMA ComputeClosedForm ==
  ASSUME NEW p \in Scores, NEW a \in Scores
  PROVE  compute(DEFAULT_SCORING_RULES, p, a) =
           IF p = a THEN 5
           ELSE IF difference(p) = difference(a) THEN 4
           ELSE IF sameWinner(p, a) THEN 3
           ELSE 0
BY DEF compute, goalDifferenceBonus, outcome, DEFAULT_SCORING_RULES,
       difference, sameWinner, Scores

(* Mirroring both scores changes neither equality, difference nor winner.  *)
LEMMA ComputeMirror ==
  ASSUME NEW p \in Scores, NEW a \in Scores
  PROVE  compute(DEFAULT_SCORING_RULES, p, a) =
           compute(DEFAULT_SCORING_RULES, mirror(p), mirror(a))
<1>1. mirror(p) \in Scores /\ mirror(a) \in Scores
  BY DEF mirror, Scores
<1>2. (p = a) <=> (mirror(p) = mirror(a))
  BY DEF mirror, Scores
<1>3. (difference(p) = difference(a)) <=>
      (difference(mirror(p)) = difference(mirror(a)))
  BY DEF difference, mirror, Scores
<1>4. sameWinner(p, a) <=> sameWinner(mirror(p), mirror(a))
  BY DEF sameWinner, difference, mirror, Scores
<1>. QED
  BY <1>1, <1>2, <1>3, <1>4, ComputeClosedForm

(* The state holds two scores and the points for them.                     *)
Evaluation ==
    /\ predicted \in Scores
    /\ actual \in Scores
    /\ points = compute(DEFAULT_SCORING_RULES, predicted, actual)

(* The policy is only asked about pairs of scores.                         *)
LEMMA EvaluationInvariant == Spec => []Evaluation
<1>1. BoundedScores \subseteq Scores
  BY MaxGoalsAssumption DEF BoundedScores, Scores
<1>2. Init => Evaluation
  BY <1>1 DEF Init, Evaluation
<1>3. Evaluation /\ [Next]_policyVars => Evaluation'
  BY <1>1 DEF Evaluation, Next, evaluated, policyVars
<1>. QED
  BY <1>2, <1>3, PTL DEF Spec

(* The policy agrees with its closed form for scores of any size.          *)
THEOREM PolicyClosedForm == Spec => []ClosedForm
<1>1. Evaluation => ClosedForm
  BY ComputeClosedForm DEF Evaluation, ClosedForm
<1>. QED
  BY <1>1, EvaluationInvariant, PTL

(* The policy is blind to which side is listed first.                      *)
THEOREM PolicySideBlind == Spec => []SideBlind
<1>1. Evaluation => SideBlind
  BY ComputeMirror DEF Evaluation, SideBlind
<1>. QED
  BY <1>1, EvaluationInvariant, PTL
=============================================================================
