-------------------------- MODULE PredictionLedger --------------------------
(***************************************************************************)
(* What the prediction pool promises, without processes, statements and    *)
(* snapshots: a ledger with at most one entry per user and match, points   *)
(* that come from a final score announced for the match, and a growing set *)
(* of entries whose points are final.  Points may be revised until then:   *)
(* that is all the code holds of "awarded once" (see AwardIsFinal).        *)
(***************************************************************************)
EXTENDS Domain

CONSTANTS Ids, UserIds, MatchIds, Predicted, FinalScores

VARIABLES entries, announced, final

ledgerVars == <<entries, announced, final>>

Init ==
    /\ entries = [id \in Ids |-> Null]
    /\ announced = [m \in MatchIds |-> {}]
    /\ final = {}

Record(id) ==
    /\ entries[id] = Null
    /\ \E u \in UserIds, m \in MatchIds, p \in Predicted :
         /\ \A other \in Ids : entries[other] # Null =>
              entries[other].userId # u \/ entries[other].matchId # m
         /\ entries' = [entries EXCEPT ![id] =
              [userId |-> u, matchId |-> m, predicted |-> p, points |-> Null]]
    /\ UNCHANGED <<announced, final>>

Announce(m) ==
    /\ \E score \in FinalScores :
         announced' = [announced EXCEPT ![m] = @ \cup {score}]
    /\ UNCHANGED <<entries, final>>

Award(id) ==
    /\ entries[id] # Null
    /\ id \notin final
    /\ \E score \in announced[entries[id].matchId] :
         entries' = [entries EXCEPT ![id].points =
           compute(DEFAULT_SCORING_RULES, entries[id].predicted, score)]
    /\ final' \in {final, final \cup {id}}
    /\ UNCHANGED announced

Finalise ==
    /\ \E S \in SUBSET {id \in Ids : entries[id] # Null /\ isScored(entries[id])} :
         final' = final \cup S
    /\ UNCHANGED <<entries, announced>>

Next ==
    \/ \E id \in Ids : Record(id) \/ Award(id)
    \/ \E m \in MatchIds : Announce(m)
    \/ Finalise

Spec == Init /\ [][Next]_ledgerVars
=============================================================================
