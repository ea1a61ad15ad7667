---------------------- MODULE PredictionPoolRefinement ----------------------
(***************************************************************************)
(* The prediction pool implements the ledger: a behaviour of Spec, seen    *)
(* through the refinement mapping of PredictionPool, is a behaviour of     *)
(* PredictionLedger.                                                       *)
(***************************************************************************)
EXTENDS PredictionPoolTheorems

(* Parameters come from a body that validated.                             *)
DtosFromBodies ==
    /\ \A r \in PredictionIds : submitDto[r] # Null =>
         submitDto[r].predicted \in {body \in Bodies : validGoals(body)}
    /\ \A c \in ScoreRequests : scoreDto[c] # Null =>
         scoreDto[c].finalScore \in {result \in Results : validFinalScore(result)}

(* No step but an arrival sets parameters, and it validates them first.    *)
LEMMA NextKeepsDtos ==
  ASSUME TypeOK, DtosFromBodies, [Next]_vars
  PROVE  DtosFromBodies'
<1>. USE DEF TypeOK, SubmitTypeOK, ScoreTypeOK
<1>1. \A r \in PredictionIds : submitDto'[r] # Null =>
         submitDto'[r].predicted \in {body \in Bodies : validGoals(body)}
  <2>1. CASE \E r \in PredictionIds : SubmitArrives(r)
    BY <2>1 DEF SubmitArrives, DtosFromBodies
  <2>2. CASE UNCHANGED submitDto
    BY <2>2 DEF DtosFromBodies
  <2>. QED
    BY <2>1, <2>2 DEF Next, vars, submitVars, Tick, FixtureFeed, SubmitNext,
       FindUser, FindMatch, CheckWindow, FindExisting, SavePrediction,
       ScoreNext, Fault, SubmitFault, ScoreFault, SubmitQueryFails,
       FrontEndExits
<1>2. \A c \in ScoreRequests : scoreDto'[c] # Null =>
         scoreDto'[c].finalScore \in {result \in Results : validFinalScore(result)}
  <2>1. CASE \E c \in ScoreRequests : ScoreArrives(c)
    BY <2>1 DEF ScoreArrives, DtosFromBodies
  <2>2. CASE UNCHANGED scoreDto
    BY <2>2 DEF DtosFromBodies
  <2>. QED
    BY <2>1, <2>2 DEF Next, vars, scoreVars, Tick, FixtureFeed, ScoreNext,
       FindMatchToScore, SaveMatch, FindPredictions, SavePoints, ScoreReplied,
       SubmitNext, Fault, SubmitFault, ScoreFault, ScoreQueryFails,
       ScoringServiceExits
<1>. QED
  BY <1>1, <1>2 DEF DtosFromBodies

-----------------------------------------------------------------------------
(* The refinement mapping, by name.                                        *)
Entries   == [id \in PredictionIds |-> ledgerEntry(id)]
Announced == [m \in MatchIds |->
                {scoreDto[c].finalScore : c \in {d \in ScoreRequests :
                   closing[d] # Null /\ scoreDto[d].matchId = m}}]
Final     == {id \in PredictionIds : settled(id)}

(* A step that writes no prediction leaves the entries.                    *)
LEMMA EntriesKept ==
  ASSUME UNCHANGED predictions
  PROVE  Entries' = Entries
BY DEF Entries, ledgerEntry, stored

(* A step that saves no match leaves the announced scores.                 *)
LEMMA AnnouncedKept ==
  ASSUME UNCHANGED closing,
         \A c \in ScoreRequests : closing[c] # Null => scoreDto'[c] = scoreDto[c]
  PROVE  Announced' = Announced
BY DEF Announced

(* A step that writes no prediction and no batch leaves what is final.     *)
LEMMA FinalKept ==
  ASSUME UNCHANGED <<predictions, todo>>
  PROVE  Final' = Final
BY DEF Final, settled, awarded, stored, isScored

(* The entry of a row is not null.                                         *)
LEMMA EntryIsNotNull ==
  ASSUME NEW id, stored(id), predictions[id] \in PredictionRows
  PROVE  ledgerEntry(id) # Null
<1>1. ledgerEntry(id) \in LedgerEntries
  BY DEF ledgerEntry, LedgerEntries, PredictionRows
<1>. QED
  BY <1>1, NullIsNoLedgerEntry

(* The two copies of the domain layer are the same.                        *)
LEMMA SameDomain ==
  /\ \A p, s : Ledger!compute(Ledger!DEFAULT_SCORING_RULES, p, s)
                 = compute(DEFAULT_SCORING_RULES, p, s)
  /\ \A entry : Ledger!isScored(entry) <=> entry.points # Null
BY DEF Ledger!compute, Ledger!DEFAULT_SCORING_RULES, Ledger!outcome,
       Ledger!goalDifferenceBonus, Ledger!isScored, compute,
       DEFAULT_SCORING_RULES, outcome, goalDifferenceBonus

-----------------------------------------------------------------------------
(* A pool without predictions and close-outs is an empty ledger.           *)
LEMMA InitRefines == Init => Ledger!Init
<1>. SUFFICES ASSUME Init PROVE Ledger!Init
  OBVIOUS
<1>1. \A id \in PredictionIds : ~stored(id) /\ ledgerEntry(id) = Null
  BY DEF Init, stored, ledgerEntry
<1>2. \A c \in ScoreRequests : closing[c] = Null
  BY DEF Init, ScoreInit
<1>. QED
  BY <1>1, <1>2 DEF Ledger!Init, settled, awarded

(* Storing a prediction records an entry, any other step of a submission   *)
(* leaves the ledger alone.                                                *)
LEMMA SubmitRefines ==
  ASSUME IInv, DtosFromBodies, NEW r \in PredictionIds, SubmitNext(r)
  PROVE  \/ Ledger!Record(r)
         \/ Entries' = Entries /\ Announced' = Announced /\ Final' = Final
<1>. USE DEF IInv, TypeOK, SubmitTypeOK, ScoreTypeOK
<1>1. UNCHANGED <<scoreDto, todo, closing>>
  BY DEF SubmitNext, scoreVars
<1>2. Announced' = Announced
  BY <1>1, AnnouncedKept
<1>3. CASE UNCHANGED predictions
  BY <1>1, <1>2, <1>3, EntriesKept, FinalKept
<1>4. CASE SavePrediction(r) /\ insertSucceeds(newPrediction(r))
  <2>. DEFINE u == submitDto[r].userId
              m == submitDto[r].matchId
              p == submitDto[r].predicted
  <2>1. /\ submitPc[r] \in {"save", "lateSave"}
        /\ predictions' = [predictions EXCEPT ![r] = newPrediction(r)]
    BY <1>4 DEF SavePrediction, insertPrediction
  <2>2. /\ submitDto[r] \in SubmitDtos
        /\ submitDto[r] # Null
        /\ ~stored(r)
    BY <2>1, NullIsNoSubmitDto DEF SubmissionInv, SubmitProgress, OwnRow
  <2>3. /\ u \in UserIds
        /\ m \in MatchIds
        /\ p \in {body \in Bodies : validGoals(body)}
    BY <2>2 DEF DtosFromBodies, SubmitDtos
  <2>4. newPrediction(r) # Null /\ newPrediction(r).points = Null
    BY <2>1, NewPredictionIsRow DEF SubmissionInv, newPrediction
  <2>5. ledgerEntry(r) = Null
    BY <2>2 DEF ledgerEntry
  <2>6. Entries' = [Entries EXCEPT ![r] =
          [userId |-> u, matchId |-> m, predicted |-> p, points |-> Null]]
    BY <2>1, <2>4 DEF Entries, ledgerEntry, stored, newPrediction
  <2>7. \A other \in PredictionIds : Entries[other] # Null =>
          Entries[other].userId # u \/ Entries[other].matchId # m
    BY <1>4 DEF insertSucceeds, findByUserAndMatch, newPrediction, Entries,
                ledgerEntry
  <2>8. Final' = Final
    BY <1>1, <2>1, <2>2, <2>4 DEF Final, settled, awarded, stored, isScored
  <2>9. Entries[r] = Null
    BY <2>5 DEF Entries
  <2>. QED
    BY <1>2, <2>3, <2>6, <2>7, <2>8, <2>9
    DEF Ledger!Record, Entries, Announced, Final
<1>. QED
  BY <1>3, <1>4 DEF SubmitNext, SubmitArrives, FindUser, FindMatch,
     CheckWindow, FindExisting, SavePrediction

(* Recording a final score announces it, writing points awards them, any   *)
(* other step of a close-out leaves the ledger alone.                      *)
LEMMA ScoreRefines ==
  ASSUME IInv, DtosFromBodies, NEW c \in ScoreRequests, ScoreNext(c)
  PROVE  \/ \E m \in MatchIds : Ledger!Announce(m)
         \/ \E id \in PredictionIds : Ledger!Award(id)
         \/ Entries' = Entries /\ Announced' = Announced /\ Final' = Final
<1>. USE DEF IInv, TypeOK, SubmitTypeOK, ScoreTypeOK
<1>1. CASE ScoreArrives(c)
  <2>1. closing[c] = Null
    BY <1>1 DEF ScoreArrives, CloseOutInv, ScoreProgress
  <2>2. \A d \in ScoreRequests : closing[d] # Null => scoreDto'[d] = scoreDto[d]
    BY <1>1, <2>1 DEF ScoreArrives
  <2>. QED
    BY <1>1, <2>2, EntriesKept, AnnouncedKept, FinalKept DEF ScoreArrives
<1>2. CASE UNCHANGED <<predictions, todo, closing, scoreDto>>
  BY <1>2, EntriesKept, AnnouncedKept, FinalKept
<1>3. CASE SaveMatch(c) /\ saveMatchSucceeds
  <2>1. /\ UNCHANGED <<predictions, todo, scoreDto>>
        /\ closing' = [closing EXCEPT ![c] = findByMatch(scoreDto[c].matchId)]
        /\ scorePc[c] \in {"saveMatch", "lateSaveMatch"}
    BY <1>3 DEF SaveMatch
  <2>2. scoreDto[c] \in ScoreDtos /\ scoreDto[c] # Null
    BY <2>1, NullIsNoScoreDto DEF CloseOutInv, ScoreProgress
  <2>3. PICK m \in MatchIds, score \in {result \in Results : validFinalScore(result)} :
          scoreDto[c].matchId = m /\ scoreDto[c].finalScore = score
    BY <2>2 DEF DtosFromBodies, ScoreDtos
  <2>4. closing'[c] # Null
    BY <2>1, NullIsNoScoreDto DEF findByMatch
  <2>5. \A d \in ScoreRequests \ {c} : closing'[d] = closing[d]
    BY <2>1
  <2>6. \A k \in MatchIds \ {m} : Announced'[k] = Announced[k]
    BY <2>1, <2>3, <2>4, <2>5 DEF Announced
  <2>7. Announced'[m] = Announced[m] \cup {score}
    BY <2>1, <2>3, <2>4, <2>5 DEF Announced
  <2>8. Announced' = [Announced EXCEPT ![m] = @ \cup {score}]
    BY <2>6, <2>7 DEF Announced
  <2>9. Ledger!Announce(m)
    BY <2>1, <2>8, EntriesKept, FinalKept
    DEF Ledger!Announce, Entries, Announced, Final
  <2>. QED
    BY <2>9
<1>4. CASE FindPredictions(c)
  <2>1. todo[c] = {}
    BY <1>4 DEF FindPredictions, CloseOutInv, BatchOfMatch
  <2>2. /\ UNCHANGED <<predictions, closing, scoreDto>>
        /\ \A d \in ScoreRequests \ {c} : todo'[d] = todo[d]
        /\ \A id \in todo'[c] : ~awarded(id)
    BY <1>4 DEF FindPredictions, findByMatch, awarded
  <2>3. Final' = Final
    BY <2>1, <2>2 DEF Final, settled, awarded, stored, isScored
  <2>. QED
    BY <2>2, <2>3, EntriesKept, AnnouncedKept
<1>5. CASE SavePoints(c)
  <2>. PICK id \in todo[c] :
         /\ id \in PredictionIds
         /\ stored(id)
         /\ predictions[id] \in PredictionRows
         /\ predictions[id].matchId = scoreDto[c].matchId
         /\ predictions' = [predictions EXCEPT
                              ![id] = awardPoints(predictions[id],
                                                  earnedPoints(c, id))]
         /\ earnedPoints(c, id) \in Nat
         /\ todo' = [todo EXCEPT ![c] = @ \ {id}]
    BY <1>5, SavePointsScoresOne
  <2>. DEFINE m == predictions[id].matchId
              score == scoreDto[c].finalScore
  <2>1. UNCHANGED <<closing, scoreDto>>
    BY <1>5 DEF SavePoints
  <2>2. m \in MatchIds /\ score \in Announced[m]
    BY <1>5 DEF SavePoints, CloseOutInv, ScoreProgress, Announced, PredictionRows
  <2>3. /\ Entries[id] # Null
        /\ Entries[id].matchId = m
        /\ Entries[id].predicted = predictions[id].predicted
    BY EntryIsNotNull DEF Entries, ledgerEntry, PredictionRows
  <2>4. id \notin Final
    BY DEF Final, settled
  <2>5. predictions'[id] # Null /\ isScored(predictions'[id])
    BY AwardKeepsRow
  <2>6. Entries' = [Entries EXCEPT ![id].points =
          compute(DEFAULT_SCORING_RULES, Entries[id].predicted, score)]
    BY <2>3, <2>5 DEF Entries, ledgerEntry, stored, awardPoints, earnedPoints,
                      PredictionRows
  <2>7. Final' \in {Final, Final \cup {id}}
    BY <2>4 DEF Final, settled, awarded, stored
  <2>8. Announced' = Announced
    BY <2>1, AnnouncedKept
  <2>9. Entries' = [Entries EXCEPT ![id].points =
          Ledger!compute(Ledger!DEFAULT_SCORING_RULES, Entries[id].predicted,
                         score)]
    BY <2>6, SameDomain
  <2>10. score \in Announced[Entries[id].matchId]
    BY <2>2, <2>3
  <2>11. Ledger!Award(id)
    BY <2>3, <2>4, <2>7, <2>8, <2>9, <2>10
    DEF Ledger!Award, Entries, Announced, Final
  <2>. QED
    BY <2>11
<1>. QED
  BY <1>1, <1>2, <1>3, <1>4, <1>5 DEF ScoreNext, ScoreArrives,
     FindMatchToScore, SaveMatch, FindPredictions, SavePoints, ScoreReplied

(* A failure or an exit drops what is left of a batch, so it can only make *)
(* points final.                                                           *)
LEMMA FaultRefines ==
  ASSUME IInv, Fault
  PROVE  Ledger!Finalise
<1>. USE DEF IInv, TypeOK, SubmitTypeOK, ScoreTypeOK
<1>1. /\ UNCHANGED <<predictions, scoreDto, closing>>
      /\ \A c \in ScoreRequests : todo'[c] \subseteq todo[c]
  BY DEF Fault, SubmitFault, ScoreFault, SubmitQueryFails, FrontEndExits,
         ScoreQueryFails, ScoringServiceExits, sentUpdates, scoreVars
<1>2. Entries' = Entries /\ Announced' = Announced
  BY <1>1, EntriesKept, AnnouncedKept
<1>3. Final \subseteq Final'
  BY <1>1 DEF Final, settled, awarded, stored, isScored
<1>4. \A id \in Final' : /\ id \in PredictionIds
                         /\ Entries[id] # Null
                         /\ Entries[id].points # Null
  BY <1>1, EntryIsNotNull DEF Final, settled, awarded, stored, isScored, Entries,
                           ledgerEntry
<1>5. Final' \in SUBSET {id \in PredictionIds :
                          Entries[id] # Null /\ Ledger!isScored(Entries[id])}
  BY <1>4, SameDomain
<1>. QED
  BY <1>2, <1>3, <1>5 DEF Ledger!Finalise, Entries, Announced, Final

(* Every step of the pool is a step of the ledger or leaves it alone.      *)
LEMMA NextRefines ==
  ASSUME IInv, DtosFromBodies, [Next]_vars
  PROVE  [Ledger!Next]_Ledger!ledgerVars
<1>1. CASE Entries' = Entries /\ Announced' = Announced /\ Final' = Final
  BY <1>1 DEF Ledger!ledgerVars, Entries, Announced, Final
<1>2. CASE Tick \/ FixtureFeed \/ UNCHANGED vars
  <2>1. UNCHANGED <<predictions, todo, closing, scoreDto>>
    BY <1>2 DEF Tick, FixtureFeed, vars, scoreVars
  <2>. QED
    BY <1>1, <2>1, EntriesKept, AnnouncedKept, FinalKept
<1>3. CASE \E r \in PredictionIds : SubmitNext(r)
  BY <1>1, <1>3, SubmitRefines DEF Ledger!Next
<1>4. CASE \E c \in ScoreRequests : ScoreNext(c)
  BY <1>1, <1>4, ScoreRefines DEF Ledger!Next
<1>5. CASE Fault
  BY <1>5, FaultRefines DEF Ledger!Next
<1>. QED
  BY <1>2, <1>3, <1>4, <1>5 DEF Next

(* Every behaviour of the pool is a behaviour of the ledger.               *)
THEOREM PoolImplementsLedger == Spec => RefinesLedger
<1>1. Init => DtosFromBodies
  BY DEF Init, SubmitInit, ScoreInit, DtosFromBodies
<1>2. IInv /\ DtosFromBodies /\ [Next]_vars => DtosFromBodies'
  BY NextKeepsDtos DEF IInv
<1>3. IInv /\ DtosFromBodies /\ [Next]_vars => [Ledger!Next]_Ledger!ledgerVars
  BY NextRefines
<1>. QED
  BY <1>1, <1>2, <1>3, Invariance, InitRefines, PTL
  DEF Spec, RefinesLedger, Ledger!Spec
=============================================================================
