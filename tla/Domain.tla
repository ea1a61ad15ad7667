------------------------------- MODULE Domain -------------------------------
(***************************************************************************)
(* The domain layer (src/src/domain): value objects, entities and the      *)
(* scoring policy.  Everything here is pure; the modules that EXTEND this  *)
(* one hold the state the entities are loaded from and saved to.           *)
(*                                                                         *)
(* A Match is reduced to the two mutable fields its rules read and write;  *)
(* its kickoff is the constant function KickoffAt of PgRepositories.       *)
(***************************************************************************)
EXTENDS Integers

CONSTANT Null                    \* JavaScript's and SQL's null

ASSUME NullAssumption ==
    /\ Null \notin Int
    /\ Null \notin [home : Nat, away : Nat]

-----------------------------------------------------------------------------
(* value-objects/Score.ts: two non-negative integers, compared by value.   *)
Scores == [home : Nat, away : Nat]

\* mutant: a draw counts as a home win
outcomeDrawIsHome(s) == IF s.home >= s.away THEN "HOME" ELSE "AWAY"

outcome(s) == IF s.home > s.away THEN "HOME"
              ELSE IF s.home < s.away THEN "AWAY" ELSE "DRAW"

(* value-objects/MatchStatus.ts                                            *)
MATCH_STATUSES == {"SCHEDULED", "LIVE", "FINISHED", "CANCELLED"}

-----------------------------------------------------------------------------
(* services/ScoringPolicy.ts.  The rules are a constructor argument; the   *)
(* container builds the policy with the defaults.                          *)
ScoringRules == [exactScorePoints           : Nat,
                 correctOutcomePoints       : Nat,
                 correctGoalDifferenceBonus : Nat]

DEFAULT_SCORING_RULES == [exactScorePoints           |-> 5,
                          correctOutcomePoints       |-> 3,
                          correctGoalDifferenceBonus |-> 1]

\* mutant: the bonus compares the home goals instead of the difference
bonusForHomeGoals(rules, predicted, actual) ==
    IF predicted.home = actual.home THEN rules.correctGoalDifferenceBonus ELSE 0

goalDifferenceBonus(rules, predicted, actual) ==
    IF predicted.home - predicted.away = actual.home - actual.away
      THEN rules.correctGoalDifferenceBonus
      ELSE 0

compute(rules, predicted, actual) ==
    IF predicted = actual THEN rules.exactScorePoints
    ELSE IF outcome(predicted) = outcome(actual)
           THEN rules.correctOutcomePoints
                  + goalDifferenceBonus(rules, predicted, actual)
           ELSE 0

-----------------------------------------------------------------------------
(* entities/Match.ts.  canFinish and canCancel are the conditions under    *)
(* which finish and cancel do not throw.                                   *)
acceptsPredictions(status, kickoffAt, now) ==
    status = "SCHEDULED" /\ now < kickoffAt

\* mutant: the rule that a cancelled match cannot be finished is dropped
canFinishAny(status) == TRUE

canFinish(status) == status # "CANCELLED"

\* mutant: home and away are swapped on the way to the row
finishSwapped(finalScore) ==
    [status     |-> "FINISHED",
     finalScore |-> [home |-> finalScore.away, away |-> finalScore.home]]

finish(finalScore) == [status |-> "FINISHED", finalScore |-> finalScore]

\* mutant: the rule that a finished match cannot be cancelled is dropped
canCancelAny(status) == TRUE

canCancel(status) == status # "FINISHED"

cancel(match) == [match EXCEPT !.status = "CANCELLED"]

(* entities/Prediction.ts.  awardPoints throws on a scored prediction.     *)
isScored(prediction) == prediction.points # Null

awardPoints(prediction, points) == [prediction EXCEPT !.points = points]
=============================================================================
