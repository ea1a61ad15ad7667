--------------------------- MODULE ScoringPolicy ----------------------------
(***************************************************************************)
(* The points ScoringPolicy.compute gives to one prediction, evaluated on  *)
(* every pair of scores with at most MaxGoals goals a side.                *)
(***************************************************************************)
EXTENDS Domain

CONSTANT MaxGoals

ASSUME MaxGoalsAssumption == MaxGoals \in Nat

VARIABLES predicted, actual, points

policyVars == <<predicted, actual, points>>

BoundedScores == [home : 0..MaxGoals, away : 0..MaxGoals]

evaluated(p, a) == predicted' = p /\ actual' = a
                     /\ points' = compute(DEFAULT_SCORING_RULES, p, a)

Init ==
    /\ predicted \in BoundedScores
    /\ actual = predicted
    /\ points = compute(DEFAULT_SCORING_RULES, predicted, actual)

Next == \E p, a \in BoundedScores : evaluated(p, a)

Spec == Init /\ [][Next]_policyVars

-----------------------------------------------------------------------------
difference(s) == s.home - s.away

sameWinner(s, t) == \/ difference(s) > 0 /\ difference(t) > 0
                    \/ difference(s) < 0 /\ difference(t) < 0

mirror(s) == [home |-> s.away, away |-> s.home]

(* The rules in closed form, by goal difference alone.  The bonus is paid  *)
(* for the right difference on top of the right outcome, and the right     *)
(* difference implies the outcome: 4 is the difference, 3 the winner only, *)
(* and a draw that is not exact is always worth 4 (ScoringPolicy.ts:8-11). *)
ClosedForm ==
    points = IF predicted = actual THEN 5
             ELSE IF difference(predicted) = difference(actual) THEN 4
             ELSE IF sameWinner(predicted, actual) THEN 3
             ELSE 0

(* Which team plays at home is a matter of listing: swapping the sides of  *)
(* both scores gives the same points (Score.ts:28-32).                     *)
SideBlind ==
    points = compute(DEFAULT_SCORING_RULES, mirror(predicted), mirror(actual))
=============================================================================
