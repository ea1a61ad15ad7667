-------------------------- MODULE MCPredictionPool --------------------------
(***************************************************************************)
(* Instances of PredictionPool for TLC.                                    *)
(***************************************************************************)
EXTENDS PredictionPoolInvariant, TLC

CONSTANTS u1, u2, ghostUser,    \* ghosts have no row
          m1, ghostMatch,
          notUuid,
          r1, r2, r3, c1, c2

(* Kickoff at time 1: the clock starts before it and reaches it.           *)
MC_KickoffAt == [m \in Matches |-> 1]

goals(h, a) == [home |-> h, away |-> a]

(* Bodies that validate and one that does not; results that give the       *)
(* prediction 2-1 different points: 5, 0 and 4.                            *)
MC_Bodies     == {goals(2, 1), goals(0, 0), goals(-1, 0)}
MC_OneBody    == {goals(2, 1)}
MC_Results    == {goals(2, 1), goals(0, 0)}
MC_OneResult  == {goals(1, 0)}
MC_BadResult  == {goals(2, 1), goals(-1, 0)}

(* A status the enum does not know, and the one matches start with.        *)
MC_Postponed == {"POSTPONED"}
MC_Scheduled == {"SCHEDULED"}

MC_Symmetry == Permutations(PredictionIds) \cup Permutations(ScoreRequests)
=============================================================================
