----------------------- MODULE PredictionPoolTheorems -----------------------
(***************************************************************************)
(* Proofs about PredictionPool for any users, matches, requests, scores    *)
(* and bounds.                                                             *)
(***************************************************************************)
EXTENDS PredictionPoolInvariant, TLAPS

(* Points are a natural number, so that awardPoints accepts them.          *)
LEMMA PointsAreNat ==
  ASSUME NEW p \in Scores, NEW a \in Scores
  PROVE  compute(DEFAULT_SCORING_RULES, p, a) \in Nat
BY DEF compute, goalDifferenceBonus, DEFAULT_SCORING_RULES, Scores

(* toDomain never returns a status outside the enum.                       *)
LEMMA StatusIsMatchStatus ==
  ASSUME NEW m PROVE toDomainStatus(m) \in MATCH_STATUSES
BY DEF toDomainStatus, MATCH_STATUSES

(* A body that validates makes the parameters of the use case.             *)
LEMMA ValidBodyMakesDto ==
  ASSUME NEW u \in UserIds, NEW m \in MatchIds, NEW body \in Bodies,
         validGoals(body)
  PROVE  [userId |-> u, matchId |-> m, predicted |-> body] \in SubmitDtos
<1>1. body \in Scores
  BY BodyAssumption DEF validGoals, Scores
<1>. QED
  BY <1>1 DEF SubmitDtos

(* A final score that validates makes the parameters of the use case.      *)
LEMMA ValidResultMakesDto ==
  ASSUME NEW m \in MatchIds, NEW result \in Results, validFinalScore(result)
  PROVE  [matchId |-> m, finalScore |-> result] \in ScoreDtos
<1>1. result \in Scores
  BY ResultAssumption DEF validFinalScore, Scores
<1>. QED
  BY <1>1 DEF ScoreDtos

(* The row a submission inserts is a row, and not yet scored.              *)
LEMMA NewPredictionIsRow ==
  ASSUME TypeOK, SubmitProgress, NEW r \in PredictionIds,
         submitPc[r] \in {"save", "lateSave"}
  PROVE  /\ newPrediction(r) \in PredictionRows
         /\ newPrediction(r) # Null
         /\ ~isScored(newPrediction(r))
<1>1. submitDto[r] \in SubmitDtos /\ submittedAt[r] \in Nat
  BY DEF SubmitProgress
<1>2. newPrediction(r) \in PredictionRows
  BY <1>1 DEF newPrediction, PredictionRows, SubmitDtos
<1>. QED
  BY <1>2, NullIsNoRow DEF newPrediction, isScored

(* What a close-out writes into a row of its batch.                        *)
LEMMA EarnedPointsAreNat ==
  ASSUME TypeOK, ScoreProgress, BatchOfMatch,
         NEW c \in ScoreRequests, NEW id \in todo[c]
  PROVE  /\ id \in PredictionIds
         /\ predictions[id] \in PredictionRows
         /\ earnedPoints(c, id) \in Nat
<1>1. id \in PredictionIds
  BY DEF TypeOK, ScoreTypeOK
<1>2. predictions[id] \in PredictionRows
  BY <1>1 DEF TypeOK, BatchOfMatch, stored
<1>3. scoreDto[c] \in ScoreDtos
  BY DEF BatchOfMatch, ScoreProgress
<1>4. predictions[id].predicted \in Scores /\ scoreDto[c].finalScore \in Scores
  BY <1>2, <1>3 DEF PredictionRows, ScoreDtos
<1>. QED
  BY <1>1, <1>2, <1>4, PointsAreNat DEF earnedPoints

(* awardPoints sets the points of a row and nothing else.                  *)
LEMMA AwardKeepsRow ==
  ASSUME NEW row \in PredictionRows, NEW points \in Nat
  PROVE  /\ awardPoints(row, points) \in PredictionRows
         /\ awardPoints(row, points) # Null
         /\ isScored(awardPoints(row, points))
         /\ awardPoints(row, points).points = points
         /\ \A f \in {"userId", "matchId", "predicted", "submittedAt"} :
              awardPoints(row, points)[f] = row[f]
<1>1. awardPoints(row, points) \in PredictionRows
  BY DEF awardPoints, PredictionRows
<1>. QED
  BY <1>1, NullIsNoRow, NullAssumption DEF awardPoints, PredictionRows, isScored

-----------------------------------------------------------------------------
(* Types.                                                                  *)

(* The tables and the requests start with the right types.                 *)
LEMMA InitTypeOK == Init => TypeOK
<1>. SUFFICES ASSUME Init PROVE TypeOK
  OBVIOUS
<1>1. matches \in [Matches -> MatchRows]
  BY DEF Init, MatchRows
<1>2. SubmitTypeOK
  BY DEF Init, SubmitInit, SubmitTypeOK, SubmitSteps, SubmitReplies
<1>3. ScoreTypeOK
  BY DEF Init, ScoreInit, ScoreTypeOK, ScoreSteps, ScoreReplies
<1>. QED
  BY <1>1, <1>2, <1>3 DEF Init, TypeOK

(* A handler step of a submission keeps the types.                         *)
LEMMA SubmitStepTypeOK ==
  ASSUME TypeOK, SubmitProgress, NEW r \in PredictionIds, SubmitNext(r)
  PROVE  TypeOK'
<1>. USE DEF SubmitTypeOK, SubmitSteps, SubmitReplies,
             submitAnswers, submitProceeds, submitGoes
<1>1. /\ UNCHANGED <<now, scoreVars, faults>>
      /\ ScoreTypeOK'
  BY DEF SubmitNext, TypeOK, ScoreTypeOK, scoreVars
<1>2. CASE SubmitArrives(r)
  <2>. PICK u \in UserIds, m \in MatchIds \ NonUuids, body \in Bodies :
         IF validGoals(body)
           THEN /\ submitDto' = [submitDto EXCEPT ![r] =
                      [userId |-> u, matchId |-> m, predicted |-> body]]
                /\ submitProceeds(r, "findUser")
           ELSE /\ submitAnswers(r, 400)
                /\ UNCHANGED submitDto
    BY <1>2 DEF SubmitArrives
  <2>2. CASE validGoals(body)
    BY <1>1, <1>2, <2>2, ValidBodyMakesDto DEF SubmitArrives, TypeOK
  <2>3. CASE ~validGoals(body)
    BY <1>1, <1>2, <2>3 DEF SubmitArrives, TypeOK
  <2>. QED
    BY <2>2, <2>3
<1>3. CASE FindUser(r)
  BY <1>1, <1>3 DEF FindUser, TypeOK
<1>4. CASE FindMatch(r)
  BY <1>1, <1>4, StatusIsMatchStatus DEF FindMatch, TypeOK
<1>5. CASE CheckWindow(r)
  BY <1>1, <1>5 DEF CheckWindow, TypeOK
<1>6. CASE FindExisting(r)
  BY <1>1, <1>6 DEF FindExisting, TypeOK
<1>7. CASE SavePrediction(r)
  <2>1. newPrediction(r) \in PredictionRows
    BY <1>7, NewPredictionIsRow DEF SavePrediction
  <2>2. predictions' \in [PredictionIds -> PredictionRows \cup {Null}]
    BY <1>7, <2>1 DEF SavePrediction, insertPrediction, TypeOK
  <2>. QED
    BY <1>1, <1>7, <2>2 DEF SavePrediction, TypeOK
<1>. QED
  BY <1>2, <1>3, <1>4, <1>5, <1>6, <1>7 DEF SubmitNext

(* A handler step of a close-out keeps the types.                          *)
LEMMA ScoreStepTypeOK ==
  ASSUME TypeOK, ScoreProgress, BatchOfMatch,
         NEW c \in ScoreRequests, ScoreNext(c)
  PROVE  TypeOK'
<1>. USE DEF ScoreTypeOK, ScoreSteps, ScoreReplies,
             scoreAnswers, scoreProceeds, scoreGoes
<1>1. /\ UNCHANGED <<now, submitVars, faults>>
      /\ SubmitTypeOK'
  BY DEF ScoreNext, TypeOK, SubmitTypeOK, submitVars
<1>2. CASE ScoreArrives(c)
  <2>. PICK m \in MatchIds, result \in Results :
         IF validFinalScore(result)
           THEN /\ scoreDto' = [scoreDto EXCEPT ![c] =
                                  [matchId |-> m, finalScore |-> result]]
                /\ scoreProceeds(c, "findMatch")
           ELSE /\ scoreAnswers(c, 400)
                /\ UNCHANGED scoreDto
    BY <1>2 DEF ScoreArrives
  <2>2. CASE validFinalScore(result)
    BY <1>1, <1>2, <2>2, ValidResultMakesDto DEF ScoreArrives, TypeOK
  <2>3. CASE ~validFinalScore(result)
    BY <1>1, <1>2, <2>3 DEF ScoreArrives, TypeOK
  <2>. QED
    BY <2>2, <2>3
<1>3. CASE FindMatchToScore(c)
  BY <1>1, <1>3 DEF FindMatchToScore, TypeOK
<1>4. CASE SaveMatch(c)
  <2>1. scoreDto[c] \in ScoreDtos
    BY <1>4 DEF SaveMatch, ScoreProgress
  <2>2. matches' \in [Matches -> MatchRows]
    <3>1. finish(scoreDto[c].finalScore) \in MatchRows
      BY <2>1 DEF finish, MatchRows, MATCH_STATUSES, ScoreDtos
    <3>. QED
      BY <1>4, <3>1 DEF SaveMatch, saveMatch, TypeOK
  <2>3. closing' \in [ScoreRequests -> (SUBSET PredictionIds) \cup {Null}]
    BY <1>4 DEF SaveMatch, findByMatch, TypeOK
  <2>. QED
    BY <1>1, <1>4, <2>2, <2>3 DEF SaveMatch, TypeOK
<1>5. CASE FindPredictions(c)
  <2>1. todo' \in [ScoreRequests -> SUBSET PredictionIds]
    BY <1>5 DEF FindPredictions, findByMatch, TypeOK
  <2>. QED
    BY <1>1, <1>5, <2>1 DEF FindPredictions, TypeOK
<1>6. CASE SavePoints(c)
  <2>. PICK id \in todo[c] :
         /\ updatePoints(id, earnedPoints(c, id))
         /\ todo' = [todo EXCEPT ![c] = @ \ {id}]
    BY <1>6 DEF SavePoints
  <2>1. predictions' \in [PredictionIds -> PredictionRows \cup {Null}]
    BY EarnedPointsAreNat, AwardKeepsRow DEF updatePoints, TypeOK
  <2>2. todo' \in [ScoreRequests -> SUBSET PredictionIds]
    BY DEF TypeOK
  <2>. QED
    BY <1>1, <1>6, <2>1, <2>2 DEF SavePoints, TypeOK
<1>7. CASE ScoreReplied(c)
  BY <1>1, <1>7 DEF ScoreReplied, TypeOK
<1>. QED
  BY <1>2, <1>3, <1>4, <1>5, <1>6, <1>7 DEF ScoreNext

(* So do the clock, the feed and every failure.                            *)
LEMMA EnvironmentTypeOK ==
  ASSUME TypeOK, Tick \/ FixtureFeed \/ Fault \/ UNCHANGED vars
  PROVE  TypeOK'
<1>1. CASE Tick
  BY <1>1 DEF Tick, TypeOK, SubmitTypeOK, ScoreTypeOK, submitVars, scoreVars
<1>2. CASE FixtureFeed
  <2>1. matches' \in [Matches -> MatchRows]
    <3>. PICK m \in Matches : KickOff(m) \/ CallOff(m)
      BY <1>2 DEF FixtureFeed
    <3>1. matches[m] \in MatchRows
      BY DEF TypeOK
    <3>2. [matches[m] EXCEPT !.status = "LIVE"] \in MatchRows
          /\ [matches[m] EXCEPT !.status = "CANCELLED"] \in MatchRows
      BY <3>1 DEF MatchRows, MATCH_STATUSES
    <3>3. matches' = [matches EXCEPT ![m] = [matches[m] EXCEPT !.status = "LIVE"]]
          \/ matches' = [matches EXCEPT ![m] =
                           [matches[m] EXCEPT !.status = "CANCELLED"]]
      BY DEF KickOff, CallOff, cancel
    <3>. QED
      BY <3>2, <3>3 DEF TypeOK
  <2>. QED
    BY <1>2, <2>1 DEF FixtureFeed, TypeOK, SubmitTypeOK, ScoreTypeOK,
                      submitVars, scoreVars
<1>3. CASE Fault /\ SubmitFault
  <2>1. submitPc' \in [PredictionIds -> SubmitSteps]
        /\ submitReply' \in [PredictionIds -> SubmitReplies]
    <3>1. CASE \E r \in PredictionIds : SubmitQueryFails(r)
      BY <3>1 DEF SubmitQueryFails, submitGoes, submitGivenUp, SubmitSteps,
                  SubmitReplies, TypeOK, SubmitTypeOK
    <3>2. CASE \E S \in SUBSET PredictionIds : FrontEndExits(S)
      BY <3>2 DEF FrontEndExits, submitGivenUp, SubmitSteps, TypeOK, SubmitTypeOK
    <3>. QED
      BY <1>3, <3>1, <3>2 DEF SubmitFault
  <2>2. UNCHANGED <<submitDto, statusRead, submittedAt, matches, predictions,
                    now, scoreVars>>
    BY <1>3 DEF SubmitFault, SubmitQueryFails, FrontEndExits
  <2>3. faults' \in Nat
    BY <1>3 DEF Fault, TypeOK
  <2>. QED
    BY <2>1, <2>2, <2>3 DEF TypeOK, SubmitTypeOK, ScoreTypeOK, scoreVars
<1>4. CASE Fault /\ ScoreFault
  <2>1. /\ scorePc' \in [ScoreRequests -> ScoreSteps]
        /\ todo' \in [ScoreRequests -> SUBSET PredictionIds]
        /\ scoreReply' \in [ScoreRequests -> ScoreReplies]
    <3>1. CASE \E c \in ScoreRequests : ScoreQueryFails(c)
      BY <3>1 DEF ScoreQueryFails, scoreGoes, scoreGivenUp, sentUpdates,
                  ScoreSteps, ScoreReplies, TypeOK, ScoreTypeOK
    <3>2. CASE ScoringServiceExits
      BY <3>2 DEF ScoringServiceExits, scoreGivenUp, ScoreSteps, TypeOK,
                  ScoreTypeOK
    <3>. QED
      BY <1>4, <3>1, <3>2 DEF ScoreFault
  <2>2. UNCHANGED <<scoreDto, closing, matches, predictions, now, submitVars>>
    BY <1>4 DEF ScoreFault, ScoreQueryFails, ScoringServiceExits
  <2>3. faults' \in Nat
    BY <1>4 DEF Fault, TypeOK
  <2>. QED
    BY <2>1, <2>2, <2>3 DEF TypeOK, SubmitTypeOK, ScoreTypeOK, submitVars
<1>5. CASE UNCHANGED vars
  BY <1>5 DEF vars, TypeOK, SubmitTypeOK, ScoreTypeOK, submitVars, scoreVars
<1>. QED
  BY <1>1, <1>2, <1>3, <1>4, <1>5 DEF Fault

-----------------------------------------------------------------------------
(* Frames: what one part of the system may do to the tables without        *)
(* disturbing the other.                                                   *)

(* Statuses that deny predictions, once read, are never left.              *)
ClosedKept == \A m \in Matches : toDomainStatus(m) # "SCHEDULED" =>
                                 toDomainStatus(m)' # "SCHEDULED"

(* Rows are neither added nor removed, and keep all but their points.      *)
RowsKept ==
    \A id \in PredictionIds :
      /\ stored(id)' <=> stored(id)
      /\ stored(id) =>
           /\ predictions'[id].userId = predictions[id].userId
           /\ predictions'[id].matchId = predictions[id].matchId
           /\ predictions'[id].predicted = predictions[id].predicted
           /\ predictions'[id].submittedAt = predictions[id].submittedAt

(* A reason for 409 that held once keeps holding.                          *)
LEMMA ConflictKept ==
  ASSUME TypeOK, now' \in Nat, now' >= now, ClosedKept, RowsKept,
         NEW u, NEW m \in Matches, NEW r, conflictStands(u, m, r)
  PROVE  conflictStands(u, m, r)'
<1>1. CASE \E id \in findByUserAndMatch(u, m) : id # r
  BY <1>1 DEF conflictStands, findByUserAndMatch, RowsKept
<1>2. CASE toDomainStatus(m) # "SCHEDULED"
  BY <1>2 DEF ClosedKept, conflictStands, acceptsPredictions
<1>3. CASE ~(now < KickoffAt[m])
  <2>1. now \in Nat /\ KickoffAt[m] \in Nat
    BY RepositoryAssumption DEF TypeOK, SubmitTypeOK
  <2>. QED
    BY <1>3, <2>1 DEF conflictStands, acceptsPredictions
<1>. QED
  BY <1>1, <1>2, <1>3 DEF conflictStands, acceptsPredictions

(* The submissions' part of the invariant survives whatever the clock, the *)
(* feed and the close-outs do.                                             *)
LEMMA SubmissionsUndisturbed ==
  ASSUME TypeOK, SubmissionInv, UNCHANGED submitVars, now' \in Nat,
         now' >= now, ClosedKept, RowsKept
  PROVE  SubmissionInv'
<1>. USE DEF submitVars, RowsKept
<1>1. SubmitProgress'
  BY DEF SubmissionInv, SubmitProgress
<1>2. OwnRow'
  BY DEF SubmissionInv, OwnRow, stored
<1>3. UniquePrediction'
  BY DEF SubmissionInv, UniquePrediction, stored
<1>4. AnsweredLast'
  BY DEF SubmissionInv, AnsweredLast, stored
<1>5. ClosedStaysClosed'
  BY DEF SubmissionInv, ClosedStaysClosed, SubmitProgress, ClosedKept
<1>6. ConflictJustified'
  <2>. SUFFICES ASSUME NEW r \in PredictionIds, submitReply[r] = 409
                PROVE  conflictStands(submitDto[r].userId,
                                      submitDto[r].matchId, r)'
    BY DEF ConflictJustified
  <2>1. conflictStands(submitDto[r].userId, submitDto[r].matchId, r)
    BY DEF SubmissionInv, ConflictJustified
  <2>2. submitDto[r].matchId \in Matches
    BY DEF SubmissionInv, AnsweredLast
  <2>. QED
    BY <2>1, <2>2, ConflictKept
<1>. QED
  BY <1>1, <1>2, <1>3, <1>4, <1>5, <1>6 DEF SubmissionInv

(* Rows on record are not touched, new rows are not scored, and a match    *)
(* that is finished is left alone.                                         *)
AwardsKept ==
    /\ \A id \in PredictionIds :
         /\ stored(id) => predictions'[id] = predictions[id]
         /\ stored(id)' /\ ~stored(id) => ~isScored(predictions[id])'
    /\ \A m \in Matches : matches[m].status = "FINISHED" =>
                             matches'[m] = matches[m]

(* The close-outs' part survives whatever the clock, the feed and the      *)
(* submissions do.                                                         *)
LEMMA CloseOutsUndisturbed ==
  ASSUME TypeOK, CloseOutInv, UNCHANGED scoreVars, AwardsKept
  PROVE  CloseOutInv'
<1>. USE DEF scoreVars
<1>1. \A id \in PredictionIds :
        /\ stored(id) => stored(id)'
        /\ awarded(id) => awarded(id)'
        /\ awarded(id)' => awarded(id)
  BY DEF AwardsKept, stored, awarded, isScored
<1>2. ScoreProgress'
  BY DEF CloseOutInv, ScoreProgress
<1>3. BatchOfMatch'
  <2>. SUFFICES ASSUME NEW c \in ScoreRequests, NEW id \in todo[c]
                PROVE  /\ scorePc[c] \in {"savePoints", "lateSavePoints"}
                       /\ stored(id)'
                       /\ predictions'[id].matchId = scoreDto[c].matchId
    BY DEF BatchOfMatch
  <2>1. id \in PredictionIds
    BY DEF TypeOK, ScoreTypeOK
  <2>. QED
    BY <1>1, <2>1 DEF CloseOutInv, BatchOfMatch, AwardsKept
<1>4. FinishedByCloseOut'
  BY DEF CloseOutInv, FinishedByCloseOut, AwardsKept
<1>5. AwardedByCloseOut'
  BY <1>1 DEF CloseOutInv, AwardedByCloseOut, AwardsKept, awarded
<1>6. NothingDropped'
  <2>. SUFFICES ASSUME NEW c \in ScoreRequests, closing[c] # Null,
                       NEW id \in closing[c]
                PROVE  /\ id \in PredictionIds
                       /\ stored(id)'
                       /\ predictions'[id].matchId = scoreDto[c].matchId
                       /\ awarded(id) => awarded(id)'
    BY DEF CloseOutInv, NothingDropped, ScoreProgress
  <2>1. id \in PredictionIds
    BY DEF TypeOK, ScoreTypeOK
  <2>. QED
    BY <1>1, <2>1 DEF CloseOutInv, NothingDropped, AwardsKept
<1>. QED
  BY <1>2, <1>3, <1>4, <1>5, <1>6 DEF CloseOutInv
-----------------------------------------------------------------------------
(* Steps of a submission.                                                  *)

(* A submission adds a row without points or changes no row at all.        *)
LEMMA SubmitStepAwardsKept ==
  ASSUME TypeOK, SubmissionInv, NEW r \in PredictionIds, SubmitNext(r)
  PROVE  AwardsKept
<1>1. UNCHANGED matches
  BY DEF SubmitNext, SubmitArrives, FindUser, FindMatch, CheckWindow,
         FindExisting, SavePrediction
<1>2. CASE SavePrediction(r)
  <2>1. ~stored(r)
    BY <1>2 DEF SavePrediction, SubmissionInv, OwnRow
  <2>2. ~isScored(newPrediction(r))
    BY <1>2, NewPredictionIsRow DEF SavePrediction, SubmissionInv
  <2>. QED
    BY <1>1, <1>2, <2>1, <2>2
    DEF SavePrediction, insertPrediction, AwardsKept, TypeOK, stored, isScored
<1>3. CASE UNCHANGED predictions
  BY <1>1, <1>3 DEF AwardsKept, stored
<1>. QED
  BY <1>2, <1>3 DEF SubmitNext, SubmitArrives, FindUser, FindMatch,
                    CheckWindow, FindExisting

(* After a step of a submission, what its next step relies on holds.       *)
LEMMA SubmitProgresses ==
  ASSUME TypeOK, TypeOK', SubmissionInv, NEW r \in PredictionIds, SubmitNext(r)
  PROVE  SubmitProgress'
<1>. USE DEF TypeOK, SubmitTypeOK, SubmissionInv, SubmitProgress,
             submitAnswers, submitProceeds, submitGoes
<1>1. CASE SubmitArrives(r)
  <2>1. \/ /\ submitPc' = [submitPc EXCEPT ![r] = "findUser"]
           /\ submitDto'[r] # Null
           /\ \A i \in PredictionIds \ {r} : submitDto'[i] = submitDto[i]
        \/ submitPc' = [submitPc EXCEPT ![r] = "done"] /\ UNCHANGED submitDto
    BY <1>1, ValidBodyMakesDto, NullIsNoSubmitDto DEF SubmitArrives
  <2>. QED
    BY <1>1, <2>1 DEF SubmitArrives
<1>2. CASE FindUser(r)
  BY <1>2 DEF FindUser
<1>3. CASE FindMatch(r)
  BY <1>3 DEF FindMatch, matchFound
<1>4. CASE CheckWindow(r)
  BY <1>4 DEF CheckWindow, acceptsPredictions
<1>5. CASE FindExisting(r)
  BY <1>5 DEF FindExisting
<1>6. CASE SavePrediction(r)
  BY <1>6 DEF SavePrediction
<1>. QED
  BY <1>1, <1>2, <1>3, <1>4, <1>5, <1>6 DEF SubmitNext

(* A submission stores its own row only, and as its last step.             *)
LEMMA SubmitStepOwnRow ==
  ASSUME TypeOK, SubmissionInv, NEW r \in PredictionIds, SubmitNext(r)
  PROVE  OwnRow'
<1>. USE DEF TypeOK, SubmitTypeOK, submitAnswers, submitProceeds, submitGoes
<1>1. CASE SubmitArrives(r)
  BY <1>1 DEF SubmitArrives, SubmissionInv, OwnRow, stored
<1>2. CASE FindUser(r)
  BY <1>2 DEF FindUser, SubmissionInv, OwnRow, stored
<1>3. CASE FindMatch(r)
  BY <1>3 DEF FindMatch, SubmissionInv, OwnRow, stored
<1>4. CASE CheckWindow(r)
  BY <1>4 DEF CheckWindow, SubmissionInv, OwnRow, stored
<1>5. CASE FindExisting(r)
  BY <1>5 DEF FindExisting, SubmissionInv, OwnRow, stored
<1>6. CASE SavePrediction(r)
  <2>1. /\ submitPc[r] \in {"save", "lateSave"}
        /\ submitPc' = [submitPc EXCEPT ![r] = "done"]
        /\ UNCHANGED submitDto
        /\ \/ UNCHANGED predictions
           \/ predictions' = [predictions EXCEPT ![r] = newPrediction(r)]
    BY <1>6 DEF SavePrediction, insertPrediction
  <2>2. /\ submitDto[r] \in SubmitDtos
        /\ submitDto[r].matchId \in Matches
        /\ submittedAt[r] < KickoffAt[submitDto[r].matchId]
    BY <2>1 DEF SubmissionInv, SubmitProgress
  <2>. QED
    BY <2>1, <2>2 DEF SubmissionInv, OwnRow, stored, newPrediction
<1>. QED
  BY <1>1, <1>2, <1>3, <1>4, <1>5, <1>6 DEF SubmitNext

(* The unique index refuses the second of two racing inserts.              *)
LEMMA SubmitStepUnique ==
  ASSUME TypeOK, SubmissionInv, NEW r \in PredictionIds, SubmitNext(r)
  PROVE  UniquePrediction'
<1>1. CASE UNCHANGED predictions
  BY <1>1 DEF SubmissionInv, UniquePrediction, stored
<1>2. CASE SavePrediction(r) /\ insertSucceeds(newPrediction(r))
  <2>1. predictions' = [predictions EXCEPT ![r] = newPrediction(r)]
    BY <1>2 DEF SavePrediction, insertPrediction
  <2>2. \A id \in PredictionIds : stored(id) =>
          \/ predictions[id].userId # newPrediction(r).userId
          \/ predictions[id].matchId # newPrediction(r).matchId
    BY <1>2 DEF insertSucceeds, findByUserAndMatch
  <2>3. \A id \in PredictionIds \ {r} : predictions'[id] = predictions[id]
    BY <2>1 DEF TypeOK
  <2>4. predictions'[r] = newPrediction(r)
    BY <2>1 DEF TypeOK
  <2>. QED
    BY <2>2, <2>3, <2>4 DEF SubmissionInv, UniquePrediction, stored
<1>. QED
  BY <1>1, <1>2 DEF SubmitNext, SubmitArrives, FindUser, FindMatch, CheckWindow,
                    FindExisting, SavePrediction
(* A step that answers 201 has stored the row, one that answers 400, 404   *)
(* or 409 has not.                                                         *)
LEMMA SubmitStepAnswers ==
  ASSUME TypeOK, SubmissionInv, NEW r \in PredictionIds, SubmitNext(r)
  PROVE  AnsweredLast'
<1>. USE DEF TypeOK, SubmitTypeOK, submitAnswers, submitProceeds, submitGoes
<1>1. submitPc[r] # "done" => ~stored(r)
  BY DEF SubmissionInv, OwnRow
<1>2. submitDto[r] # Null => submitDto[r] \in SubmitDtos
  OBVIOUS
<1>3. CASE SubmitArrives(r)
  BY <1>1, <1>3 DEF SubmitArrives, SubmissionInv, AnsweredLast, stored
<1>4. CASE FindUser(r)
  BY <1>1, <1>4 DEF FindUser, SubmissionInv, AnsweredLast, stored
<1>5. CASE FindMatch(r)
  BY <1>1, <1>5 DEF FindMatch, SubmissionInv, AnsweredLast, stored
<1>6. CASE CheckWindow(r)
  BY <1>1, <1>6 DEF CheckWindow, SubmissionInv, AnsweredLast, SubmitProgress, stored
<1>7. CASE FindExisting(r)
  BY <1>1, <1>7 DEF FindExisting, SubmissionInv, AnsweredLast, SubmitProgress, stored
<1>8. CASE SavePrediction(r)
  <2>1. newPrediction(r) # Null
    BY <1>8, NewPredictionIsRow DEF SavePrediction, SubmissionInv
  <2>2. CASE insertSucceeds(newPrediction(r))
    <3>1. predictions' = [predictions EXCEPT ![r] = newPrediction(r)]
      BY <1>8, <2>2 DEF SavePrediction, insertPrediction
    <3>2. \/ submitReply' = [submitReply EXCEPT ![r] = 201]
          \/ UNCHANGED submitReply
      BY <1>8, <2>2 DEF SavePrediction
    <3>3. UNCHANGED submitDto /\ submitPc' = [submitPc EXCEPT ![r] = "done"]
          /\ submitPc[r] # "done"
      BY <1>8 DEF SavePrediction
    <3>. QED
      BY <2>1, <3>1, <3>2, <3>3 DEF SubmissionInv, AnsweredLast, stored
  <2>3. CASE ~insertSucceeds(newPrediction(r))
    BY <1>1, <1>8, <2>3 DEF SavePrediction, SubmissionInv, AnsweredLast, stored
  <2>. QED
    BY <2>2, <2>3
<1>. QED
  BY <1>3, <1>4, <1>5, <1>6, <1>7, <1>8 DEF SubmitNext

(* The status that FindMatch reads is the one in the table.                *)
LEMMA SubmitStepClosed ==
  ASSUME TypeOK, SubmissionInv, NEW r \in PredictionIds, SubmitNext(r)
  PROVE  ClosedStaysClosed'
<1>. USE DEF TypeOK, SubmitTypeOK, submitAnswers, submitProceeds, submitGoes,
             SubmissionInv, ClosedStaysClosed, toDomainStatus
<1>1. CASE SubmitArrives(r)
  BY <1>1 DEF SubmitArrives
<1>2. CASE FindUser(r)
  BY <1>2 DEF FindUser
<1>3. CASE FindMatch(r)
  BY <1>3 DEF FindMatch
<1>4. CASE CheckWindow(r)
  BY <1>4 DEF CheckWindow
<1>5. CASE FindExisting(r)
  BY <1>5 DEF FindExisting
<1>6. CASE SavePrediction(r)
  BY <1>6 DEF SavePrediction
<1>. QED
  BY <1>1, <1>2, <1>3, <1>4, <1>5, <1>6 DEF SubmitNext

(* A 409 is given for a reason that holds, and no step takes one away.     *)
LEMMA SubmitStepConflict ==
  ASSUME TypeOK, SubmissionInv, NEW r \in PredictionIds, SubmitNext(r)
  PROVE  ConflictJustified'
<1>. USE DEF TypeOK, SubmitTypeOK, submitAnswers, submitProceeds, submitGoes
<1>1. UNCHANGED <<now, matches>>
  BY DEF SubmitNext, SubmitArrives, FindUser, FindMatch, CheckWindow,
         FindExisting, SavePrediction
<1>2. AwardsKept
  BY SubmitStepAwardsKept
<1>3. ASSUME NEW u, NEW m, NEW i, conflictStands(u, m, i)
      PROVE  conflictStands(u, m, i)'
  BY <1>1, <1>2, <1>3 DEF conflictStands, findByUserAndMatch, AwardsKept, stored,
                          toDomainStatus
<1>4. ASSUME NEW i \in PredictionIds, submitReply[i] # 409, submitReply'[i] = 409
      PROVE  /\ i = r
             /\ CheckWindow(r) \/ FindExisting(r)
  BY <1>4 DEF SubmitNext, SubmitArrives, FindUser, FindMatch, SavePrediction,
              CheckWindow, FindExisting
<1>5. ASSUME CheckWindow(r), submitReply'[r] = 409, submitReply[r] # 409
      PROVE  conflictStands(submitDto[r].userId, submitDto[r].matchId, r)
  BY <1>5 DEF CheckWindow, conflictStands, acceptsPredictions, SubmissionInv,
              ClosedStaysClosed
<1>6. ASSUME FindExisting(r), submitReply'[r] = 409, submitReply[r] # 409
      PROVE  conflictStands(submitDto[r].userId, submitDto[r].matchId, r)
  BY <1>6 DEF FindExisting, conflictStands, findByUserAndMatch, SubmissionInv,
              OwnRow
<1>7. \A i \in PredictionIds : submitReply[i] = 409 => submitDto'[i] = submitDto[i]
  BY DEF SubmissionInv, AnsweredLast, SubmitNext, SubmitArrives, FindUser,
         FindMatch, CheckWindow, FindExisting, SavePrediction
<1>8. CheckWindow(r) \/ FindExisting(r) => UNCHANGED submitDto
  BY DEF CheckWindow, FindExisting
<1>. SUFFICES ASSUME NEW i \in PredictionIds, submitReply'[i] = 409
              PROVE  conflictStands(submitDto[i].userId, submitDto[i].matchId, i)'
  BY DEF ConflictJustified
<1>9. CASE submitReply[i] = 409
  BY <1>3, <1>7, <1>9 DEF SubmissionInv, ConflictJustified
<1>10. CASE submitReply[i] # 409
  BY <1>3, <1>4, <1>5, <1>6, <1>8, <1>10
<1>. QED
  BY <1>9, <1>10
-----------------------------------------------------------------------------
(* Steps of a close-out.                                                   *)

(* What SavePoints does to the rows.                                       *)
LEMMA SavePointsScoresOne ==
  ASSUME TypeOK, CloseOutInv, NEW c \in ScoreRequests, SavePoints(c)
  PROVE  \E id \in todo[c] :
           /\ id \in PredictionIds
           /\ stored(id)
           /\ predictions[id] \in PredictionRows
           /\ predictions[id].matchId = scoreDto[c].matchId
           /\ predictions' = [predictions EXCEPT
                                ![id] = awardPoints(predictions[id],
                                                    earnedPoints(c, id))]
           /\ earnedPoints(c, id) \in Nat
           /\ todo' = [todo EXCEPT ![c] = @ \ {id}]
<1>. PICK id \in todo[c] :
       /\ updatePoints(id, earnedPoints(c, id))
       /\ todo' = [todo EXCEPT ![c] = @ \ {id}]
  BY DEF SavePoints
<1>1. stored(id) /\ predictions[id].matchId = scoreDto[c].matchId
  BY DEF CloseOutInv, BatchOfMatch
<1>2. /\ id \in PredictionIds
      /\ predictions[id] \in PredictionRows
      /\ earnedPoints(c, id) \in Nat
  BY EarnedPointsAreNat DEF CloseOutInv
<1>. QED
  BY <1>1, <1>2 DEF updatePoints

(* A close-out removes no row and no points.                               *)
LEMMA ScoreStepRowsKept ==
  ASSUME TypeOK, CloseOutInv, NEW c \in ScoreRequests, ScoreNext(c)
  PROVE  RowsKept /\ \A id \in PredictionIds : awarded(id) => awarded(id)'
<1>1. CASE UNCHANGED predictions
  BY <1>1 DEF RowsKept, stored, awarded, isScored
<1>2. CASE SavePoints(c)
  <2>. PICK id \in todo[c] :
         /\ id \in PredictionIds
         /\ stored(id)
         /\ predictions[id] \in PredictionRows
         /\ predictions' = [predictions EXCEPT
                              ![id] = awardPoints(predictions[id],
                                                  earnedPoints(c, id))]
         /\ earnedPoints(c, id) \in Nat
    BY <1>2, SavePointsScoresOne
  <2>1. predictions'[id] = awardPoints(predictions[id], earnedPoints(c, id))
        /\ \A i \in PredictionIds \ {id} : predictions'[i] = predictions[i]
    BY DEF TypeOK
  <2>2. /\ predictions'[id] # Null
        /\ isScored(predictions'[id])
        /\ predictions'[id].userId = predictions[id].userId
        /\ predictions'[id].matchId = predictions[id].matchId
        /\ predictions'[id].predicted = predictions[id].predicted
        /\ predictions'[id].submittedAt = predictions[id].submittedAt
    BY <2>1, AwardKeepsRow
  <2>. QED
    BY <2>1, <2>2 DEF RowsKept, stored, awarded, isScored
<1>. QED
  BY <1>1, <1>2 DEF ScoreNext, ScoreArrives, FindMatchToScore, SaveMatch,
                    FindPredictions, ScoreReplied

(* A close-out never reopens a match.                                      *)
LEMMA ScoreStepClosedKept ==
  ASSUME TypeOK, CloseOutInv, NEW c \in ScoreRequests, ScoreNext(c)
  PROVE  ClosedKept
<1>1. CASE UNCHANGED matches
  BY <1>1 DEF ClosedKept, toDomainStatus
<1>2. CASE SaveMatch(c) /\ saveMatchSucceeds
  BY <1>2 DEF SaveMatch, saveMatch, finish, ClosedKept, toDomainStatus,
              MATCH_STATUSES, TypeOK
<1>. QED
  BY <1>1, <1>2 DEF ScoreNext, ScoreArrives, FindMatchToScore, SaveMatch,
                    FindPredictions, SavePoints, ScoreReplied

(* After a step of a close-out, what its next step relies on holds.        *)
LEMMA ScoreProgresses ==
  ASSUME TypeOK, CloseOutInv, NEW c \in ScoreRequests, ScoreNext(c)
  PROVE  ScoreProgress'
<1>. USE DEF TypeOK, ScoreTypeOK, CloseOutInv, ScoreProgress,
             scoreAnswers, scoreProceeds, scoreGoes
<1>1. CASE ScoreArrives(c)
  <2>1. \/ /\ scorePc' = [scorePc EXCEPT ![c] = "findMatch"]
           /\ scoreDto'[c] \in ScoreDtos
           /\ \A d \in ScoreRequests \ {c} : scoreDto'[d] = scoreDto[d]
        \/ scorePc' = [scorePc EXCEPT ![c] = "done"] /\ UNCHANGED scoreDto
    BY <1>1, ValidResultMakesDto DEF ScoreArrives
  <2>. QED
    BY <1>1, <2>1 DEF ScoreArrives
<1>2. CASE FindMatchToScore(c)
  BY <1>2 DEF FindMatchToScore, matchFound
<1>3. CASE SaveMatch(c)
  BY <1>3, NullIsNoScoreDto DEF SaveMatch, findByMatch
<1>4. CASE FindPredictions(c)
  BY <1>4 DEF FindPredictions
<1>5. CASE SavePoints(c)
  BY <1>5 DEF SavePoints
<1>6. CASE ScoreReplied(c)
  BY <1>6 DEF ScoreReplied
<1>. QED
  BY <1>1, <1>2, <1>3, <1>4, <1>5, <1>6 DEF ScoreNext

(* The batch that FindPredictions reads, and what SavePoints leaves of it, *)
(* are rows of the match.                                                  *)
LEMMA ScoreStepBatch ==
  ASSUME TypeOK, CloseOutInv, NEW c \in ScoreRequests, ScoreNext(c)
  PROVE  BatchOfMatch'
<1>. USE DEF TypeOK, ScoreTypeOK, scoreAnswers, scoreProceeds, scoreGoes
<1>1. RowsKept
  BY ScoreStepRowsKept
<1>2. CASE FindPredictions(c)
  BY <1>2 DEF FindPredictions, findByMatch, CloseOutInv, BatchOfMatch, stored
<1>3. CASE SavePoints(c)
  <2>1. \A d \in ScoreRequests : todo'[d] \subseteq todo[d]
    BY <1>3, SavePointsScoresOne
  <2>2. UNCHANGED <<scorePc, scoreDto>>
    BY <1>3 DEF SavePoints
  <2>. QED
    BY <1>1, <2>1, <2>2 DEF CloseOutInv, BatchOfMatch, RowsKept
<1>4. CASE ScoreArrives(c)
  BY <1>4 DEF ScoreArrives, CloseOutInv, BatchOfMatch, stored
<1>5. CASE FindMatchToScore(c)
  BY <1>5 DEF FindMatchToScore, CloseOutInv, BatchOfMatch, stored
<1>6. CASE SaveMatch(c)
  BY <1>6 DEF SaveMatch, CloseOutInv, BatchOfMatch, stored
<1>7. CASE ScoreReplied(c)
  BY <1>7 DEF ScoreReplied, CloseOutInv, BatchOfMatch, stored
<1>. QED
  BY <1>2, <1>3, <1>4, <1>5, <1>6, <1>7 DEF ScoreNext
(* The score on record is always one that a close-out recorded.            *)
LEMMA ScoreStepFinished ==
  ASSUME TypeOK, CloseOutInv, NEW c \in ScoreRequests, ScoreNext(c)
  PROVE  FinishedByCloseOut'
<1>. USE DEF TypeOK, ScoreTypeOK
<1>1. CASE ScoreArrives(c)
  <2>1. closing[c] = Null
    BY <1>1 DEF ScoreArrives, CloseOutInv, ScoreProgress
  <2>2. \A d \in ScoreRequests \ {c} : scoreDto'[d] = scoreDto[d]
    BY <1>1 DEF ScoreArrives
  <2>. QED
    BY <1>1, <2>1, <2>2 DEF ScoreArrives, CloseOutInv, FinishedByCloseOut
<1>2. CASE SaveMatch(c) /\ saveMatchSucceeds
  <2>. DEFINE m == scoreDto[c].matchId
  <2>1. scoreDto[c] \in ScoreDtos /\ m \in Matches
    BY <1>2 DEF SaveMatch, CloseOutInv, ScoreProgress
  <2>2. /\ matches'[m] = finish(scoreDto[c].finalScore)
        /\ \A i \in Matches \ {m} : matches'[i] = matches[i]
        /\ closing'[c] # Null
        /\ \A d \in ScoreRequests \ {c} : closing'[d] = closing[d]
        /\ UNCHANGED scoreDto
    BY <1>2, <2>1, NullIsNoScoreDto DEF SaveMatch, saveMatch, findByMatch
  <2>3. SUFFICES ASSUME NEW d \in ScoreRequests, closing'[d] # Null
                 PROVE  FinishedByCloseOut!(d)!2'
    BY DEF FinishedByCloseOut
  <2>4. CASE scoreDto[d].matchId = m
    BY <2>1, <2>2, <2>3, <2>4 DEF finish, CloseOutInv, FinishedByCloseOut
  <2>5. CASE scoreDto[d].matchId # m
    <3>1. closing[d] # Null
      BY <2>2, <2>3, <2>5
    <3>. QED
      BY <2>2, <2>5, <3>1 DEF CloseOutInv, FinishedByCloseOut
  <2>. QED
    BY <2>4, <2>5
<1>3. CASE UNCHANGED <<matches, closing, scoreDto>>
  BY <1>3 DEF CloseOutInv, FinishedByCloseOut
<1>. QED
  BY <1>1, <1>2, <1>3 DEF ScoreNext, SaveMatch, FindMatchToScore,
                          FindPredictions, SavePoints, ScoreReplied

(* Points on record are always from a close-out that recorded its score.   *)
LEMMA ScoreStepAwarded ==
  ASSUME TypeOK, CloseOutInv, NEW c \in ScoreRequests, ScoreNext(c)
  PROVE  AwardedByCloseOut'
<1>. USE DEF TypeOK, ScoreTypeOK
<1>1. \A d \in ScoreRequests : closing[d] # Null =>
        closing'[d] # Null /\ scoreDto'[d] = scoreDto[d]
  BY NullIsNoScoreDto
  DEF ScoreNext, ScoreArrives, FindMatchToScore, SaveMatch, FindPredictions,
      SavePoints, ScoreReplied, CloseOutInv, ScoreProgress, findByMatch
<1>2. CASE UNCHANGED predictions
  BY <1>1, <1>2 DEF CloseOutInv, AwardedByCloseOut, awarded, stored, isScored
<1>3. CASE SavePoints(c)
  <2>. PICK id \in todo[c] :
         /\ id \in PredictionIds
         /\ predictions[id] \in PredictionRows
         /\ predictions[id].matchId = scoreDto[c].matchId
         /\ predictions' = [predictions EXCEPT
                              ![id] = awardPoints(predictions[id],
                                                  earnedPoints(c, id))]
         /\ earnedPoints(c, id) \in Nat
    BY <1>3, SavePointsScoresOne
  <2>1. /\ predictions'[id].points = earnedPoints(c, id)
        /\ predictions'[id].matchId = scoreDto[c].matchId
        /\ predictions'[id].predicted = predictions[id].predicted
    BY AwardKeepsRow
  <2>2. closing[c] # Null
    BY <1>3 DEF SavePoints, CloseOutInv, ScoreProgress
  <2>3. \A i \in PredictionIds \ {id} : predictions'[i] = predictions[i]
    OBVIOUS
  <2>4. SUFFICES ASSUME NEW i \in PredictionIds, awarded(i)'
                 PROVE  AwardedByCloseOut!(i)!2'
    BY DEF AwardedByCloseOut
  <2>5. CASE i = id
    BY <1>1, <2>1, <2>2, <2>5 DEF earnedPoints
  <2>6. CASE i # id
    <3>1. awarded(i)
      BY <2>3, <2>4, <2>6 DEF awarded, stored, isScored
    <3>. QED
      BY <1>1, <2>3, <2>6, <3>1 DEF CloseOutInv, AwardedByCloseOut
  <2>. QED
    BY <2>5, <2>6
<1>. QED
  BY <1>2, <1>3 DEF ScoreNext, ScoreArrives, FindMatchToScore, SaveMatch,
                    FindPredictions, ScoreReplied

(* A row leaves a batch only by being scored, or with the whole batch.     *)
LEMMA ScoreStepNothingDropped ==
  ASSUME TypeOK, CloseOutInv, NEW c \in ScoreRequests, ScoreNext(c)
  PROVE  NothingDropped'
<1>. USE DEF TypeOK, ScoreTypeOK, scoreAnswers, scoreProceeds, scoreGoes
<1>1. RowsKept /\ \A id \in PredictionIds : awarded(id) => awarded(id)'
  BY ScoreStepRowsKept
<1>2. CASE \/ ScoreArrives(c)
           \/ FindMatchToScore(c)
           \/ SaveMatch(c) /\ ~saveMatchSucceeds
           \/ ScoreReplied(c)
  <2>1. UNCHANGED <<predictions, closing, todo>>
    BY <1>2 DEF ScoreArrives, FindMatchToScore, SaveMatch, ScoreReplied
  <2>2. \A d \in ScoreRequests : closing[d] # Null => scoreDto'[d] = scoreDto[d]
    BY <1>2 DEF ScoreArrives, FindMatchToScore, SaveMatch, ScoreReplied,
                CloseOutInv, ScoreProgress
  <2>3. scorePc[c] # "done" /\ scoreReply[c] # 200
    BY <1>2 DEF ScoreArrives, FindMatchToScore, SaveMatch, ScoreReplied,
                CloseOutInv, NothingDropped
  <2>4. /\ scorePc'[c] # "savePoints"
        /\ scoreReply'[c] = 200 => ScoreReplied(c) /\ scorePc'[c] = "done"
    BY <1>2, <2>3 DEF ScoreArrives, FindMatchToScore, SaveMatch, ScoreReplied
  <2>5. ScoreReplied(c) => closing[c] # Null /\ \A id \in closing[c] : awarded(id)
    BY DEF ScoreReplied, CloseOutInv, ScoreProgress, NothingDropped
  <2>6. \A d \in ScoreRequests \ {c} :
          scorePc'[d] = scorePc[d] /\ scoreReply'[d] = scoreReply[d]
    BY <1>2 DEF ScoreArrives, FindMatchToScore, SaveMatch, ScoreReplied
  <2>7. \A id \in PredictionIds : (stored(id)' <=> stored(id))
                                  /\ (awarded(id)' <=> awarded(id))
    BY <2>1 DEF awarded, stored, isScored
  <2>8. \A d \in ScoreRequests : closing[d] # Null =>
          closing[d] \subseteq PredictionIds
    OBVIOUS
  <2>9. ASSUME NEW d \in ScoreRequests, closing[d] # Null, NEW id \in closing[d]
        PROVE  stored(id)' /\ predictions'[id].matchId = scoreDto'[d].matchId
    BY <2>1, <2>2, <2>7, <2>8, <2>9 DEF CloseOutInv, NothingDropped
  <2>10. ASSUME NEW d \in ScoreRequests, scorePc'[d] = "savePoints"
         PROVE  \A id \in closing[d] : awarded(id)' \/ id \in todo[d]
    <3>1. d # c /\ scorePc[d] = "savePoints"
      BY <2>4, <2>6, <2>10
    <3>2. closing[d] # Null
      BY <3>1 DEF CloseOutInv, ScoreProgress
    <3>. QED
      BY <2>7, <2>8, <3>1, <3>2 DEF CloseOutInv, NothingDropped
  <2>11. ASSUME NEW d \in ScoreRequests, scoreReply'[d] = 200
         PROVE  /\ scorePc'[d] = "done"
                /\ closing[d] # Null
                /\ \A id \in closing[d] : awarded(id)'
    <3>1. CASE d = c
      BY <2>4, <2>5, <2>7, <2>8, <2>11, <3>1
    <3>2. CASE d # c
      BY <2>6, <2>7, <2>8, <2>11, <3>2 DEF CloseOutInv, NothingDropped
    <3>. QED
      BY <3>1, <3>2
  <2>. QED
    BY <2>1, <2>9, <2>10, <2>11 DEF NothingDropped
<1>3. CASE SaveMatch(c) /\ saveMatchSucceeds
  BY <1>3 DEF SaveMatch, findByMatch, CloseOutInv, NothingDropped, awarded,
              stored, isScored
<1>4. CASE FindPredictions(c)
  BY <1>4, NullIsNoScoreDto DEF FindPredictions, findByMatch, CloseOutInv,
           NothingDropped, ScoreProgress, awarded, stored, isScored
<1>5. CASE SavePoints(c)
  <2>1. \E id \in todo[c] : awarded(id)' /\ todo' = [todo EXCEPT ![c] = @ \ {id}]
    BY <1>5, SavePointsScoresOne, AwardKeepsRow DEF awarded, stored, isScored
  <2>2. UNCHANGED <<scorePc, scoreDto, scoreReply, closing>>
    BY <1>5 DEF SavePoints
  <2>. QED
    BY <1>1, <2>1, <2>2 DEF CloseOutInv, NothingDropped, RowsKept, ScoreProgress
<1>. QED
  BY <1>2, <1>3, <1>4, <1>5
  DEF ScoreNext, ScoreArrives, FindMatchToScore, SaveMatch, ScoreReplied
-----------------------------------------------------------------------------
(* The clock, the feed and the failures.                                   *)

(* The clock touches no table and no request.                              *)
LEMMA TickKeeps ==
  ASSUME TypeOK, Tick
  PROVE  /\ UNCHANGED <<submitVars, scoreVars>>
         /\ now' \in Nat /\ now' >= now
         /\ ClosedKept /\ RowsKept /\ AwardsKept
BY DEF Tick, TypeOK, SubmitTypeOK, ClosedKept, RowsKept, AwardsKept,
       toDomainStatus, stored

(* The fixture feed reopens no match and reverts no finish.                *)
LEMMA FixtureFeedKeeps ==
  ASSUME TypeOK, FixtureFeed
  PROVE  /\ UNCHANGED <<submitVars, scoreVars>>
         /\ now' \in Nat /\ now' >= now
         /\ ClosedKept /\ RowsKept /\ AwardsKept
<1>. USE DEF TypeOK, SubmitTypeOK, FixtureFeed
<1>1. RowsKept /\ UNCHANGED <<predictions, now, submitVars, scoreVars>>
  BY DEF RowsKept, stored
<1>. PICK m \in Matches : KickOff(m) \/ CallOff(m)
  OBVIOUS
<1>2. \A i \in Matches \ {m} : matches'[i] = matches[i]
  BY DEF KickOff, CallOff
<1>3. matches[m].status # "FINISHED" /\ matches'[m].status \in {"LIVE", "CANCELLED"}
  BY DEF KickOff, CallOff, canCancel, cancel, MatchRows
<1>4. ClosedKept
  BY <1>2, <1>3 DEF ClosedKept, toDomainStatus, MATCH_STATUSES
<1>5. AwardsKept
  BY <1>1, <1>2, <1>3 DEF AwardsKept, stored
<1>. QED
  BY <1>1, <1>4, <1>5

(* A submission that is given up keeps at most its INSERT.                 *)
LEMMA SubmitFaultInv ==
  ASSUME TypeOK, SubmissionInv, Fault, SubmitFault
  PROVE  SubmissionInv'
<1>. USE DEF TypeOK, SubmitTypeOK
<1>1. /\ UNCHANGED <<submitDto, statusRead, submittedAt, matches, predictions, now>>
      /\ \A r \in PredictionIds :
           \/ submitPc'[r] = submitPc[r] /\ submitReply'[r] = submitReply[r]
           \/ /\ submitPc[r] \notin {"idle", "done"}
              /\ submitPc'[r] = submitGivenUp(submitPc[r])
              /\ submitReply'[r] \in {500, submitReply[r]}
  BY DEF SubmitFault, SubmitQueryFails, FrontEndExits, submitInFlight, submitGoes
<1>2. SubmitProgress'
  BY <1>1 DEF SubmissionInv, SubmitProgress, submitGivenUp
<1>3. OwnRow'
  BY <1>1 DEF SubmissionInv, OwnRow, submitGivenUp, stored
<1>4. UniquePrediction'
  BY <1>1 DEF SubmissionInv, UniquePrediction, stored
<1>5. AnsweredLast'
  BY <1>1 DEF SubmissionInv, AnsweredLast, submitGivenUp, stored
<1>6. ClosedStaysClosed'
  BY <1>1 DEF SubmissionInv, ClosedStaysClosed, submitGivenUp, toDomainStatus
<1>7. ConflictJustified'
  BY <1>1 DEF SubmissionInv, ConflictJustified, conflictStands,
              findByUserAndMatch, toDomainStatus, stored
<1>. QED
  BY <1>2, <1>3, <1>4, <1>5, <1>6, <1>7 DEF SubmissionInv

(* A close-out that is given up keeps at most one UPDATE.                  *)
LEMMA ScoreFaultInv ==
  ASSUME TypeOK, CloseOutInv, Fault, ScoreFault
  PROVE  CloseOutInv'
<1>. USE DEF TypeOK, ScoreTypeOK
<1>1. UNCHANGED <<scoreDto, closing, matches, predictions>>
  BY DEF ScoreFault, ScoreQueryFails, ScoringServiceExits
<1>2. \A c \in ScoreRequests :
        \/ scorePc'[c] = scorePc[c] /\ scoreReply'[c] = scoreReply[c]
                                     /\ todo'[c] = todo[c]
        \/ /\ scorePc[c] \in {"findMatch", "saveMatch", "findPredictions", "savePoints"}
           /\ scorePc'[c] = scoreGivenUp(scorePc[c])
           /\ scoreReply'[c] \in {500, scoreReply[c]}
           /\ todo'[c] \subseteq todo[c]
  <2>1. CASE \E c \in ScoreRequests : ScoreQueryFails(c)
    BY <2>1 DEF ScoreQueryFails, scoreInFlight, scoreGoes, sentUpdates
  <2>2. CASE ScoringServiceExits
    BY <2>2 DEF ScoringServiceExits, scoreInFlight, sentUpdates
  <2>. QED
    BY <2>1, <2>2 DEF ScoreFault
<1>3. ScoreProgress'
  BY <1>1, <1>2 DEF CloseOutInv, ScoreProgress, scoreGivenUp
<1>4. BatchOfMatch'
  <2>. SUFFICES ASSUME NEW c \in ScoreRequests, NEW id \in todo'[c]
                PROVE  /\ scorePc'[c] \in {"savePoints", "lateSavePoints"}
                       /\ stored(id)
                       /\ predictions[id].matchId = scoreDto[c].matchId
    BY <1>1 DEF BatchOfMatch, stored
  <2>1. id \in todo[c]
    BY <1>2
  <2>. QED
    BY <1>2, <2>1 DEF CloseOutInv, BatchOfMatch, scoreGivenUp
<1>5. FinishedByCloseOut'
  BY <1>1 DEF CloseOutInv, FinishedByCloseOut
<1>6. AwardedByCloseOut'
  BY <1>1 DEF CloseOutInv, AwardedByCloseOut, awarded, stored, isScored
<1>7. NothingDropped'
  <2>1. \A c \in ScoreRequests :
          /\ scorePc'[c] = "savePoints" =>
               scorePc[c] = "savePoints" /\ todo'[c] = todo[c]
          /\ scoreReply'[c] = 200 => scoreReply[c] = 200 /\ scorePc'[c] = scorePc[c]
    BY <1>2 DEF scoreGivenUp, CloseOutInv, NothingDropped
  <2>. QED
    BY <1>1, <2>1 DEF CloseOutInv, NothingDropped, awarded, stored, isScored
<1>. QED
  BY <1>3, <1>4, <1>5, <1>6, <1>7 DEF CloseOutInv

(* Failures and exits touch no table.                                      *)
LEMMA FaultKeeps ==
  ASSUME TypeOK, Fault
  PROVE  /\ now' \in Nat /\ now' >= now
         /\ ClosedKept /\ RowsKept /\ AwardsKept
         /\ \/ SubmitFault /\ UNCHANGED scoreVars
            \/ ScoreFault /\ UNCHANGED submitVars
<1>1. UNCHANGED <<now, matches, predictions>>
  BY DEF Fault, SubmitFault, ScoreFault, SubmitQueryFails, FrontEndExits,
         ScoreQueryFails, ScoringServiceExits
<1>2. ClosedKept /\ RowsKept /\ AwardsKept
  BY <1>1 DEF ClosedKept, RowsKept, AwardsKept, toDomainStatus, stored
<1>. QED
  BY <1>1, <1>2 DEF Fault, SubmitFault, ScoreFault, TypeOK, SubmitTypeOK

-----------------------------------------------------------------------------
(* The induction.                                                          *)

(* The inductive invariant holds at the start.                             *)
LEMMA InitIInv == Init => IInv
<1>. SUFFICES ASSUME Init PROVE IInv
  OBVIOUS
<1>1. TypeOK
  BY InitTypeOK
<1>2. \A r \in PredictionIds : ~stored(r) /\ submitPc[r] = "idle"
                                           /\ submitReply[r] = Null
  BY DEF Init, SubmitInit, stored
<1>3. SubmissionInv
  BY <1>2, NullAssumption
  DEF SubmissionInv, SubmitProgress, OwnRow, UniquePrediction, AnsweredLast,
      ClosedStaysClosed, ConflictJustified
<1>4. \A c \in ScoreRequests : scorePc[c] = "idle" /\ todo[c] = {}
                                 /\ closing[c] = Null /\ scoreReply[c] = Null
  BY DEF Init, ScoreInit
<1>5. CloseOutInv
  BY <1>2, <1>4, NullAssumption
  DEF CloseOutInv, ScoreProgress, BatchOfMatch, FinishedByCloseOut,
      AwardedByCloseOut, NothingDropped, awarded
<1>. QED
  BY <1>1, <1>3, <1>5 DEF IInv

(* Every step of a submission keeps the inductive invariant.               *)
LEMMA SubmitNextKeepsIInv ==
  ASSUME IInv, NEW r \in PredictionIds, SubmitNext(r)
  PROVE  IInv'
<1>. USE DEF IInv
<1>1. TypeOK'
  BY SubmitStepTypeOK DEF SubmissionInv
<1>2. SubmissionInv'
  BY <1>1, SubmitProgresses, SubmitStepOwnRow, SubmitStepUnique,
     SubmitStepAnswers, SubmitStepClosed, SubmitStepConflict
  DEF SubmissionInv
<1>3. UNCHANGED scoreVars
  BY DEF SubmitNext
<1>4. CloseOutInv'
  BY <1>3, SubmitStepAwardsKept, CloseOutsUndisturbed
<1>. QED
  BY <1>1, <1>2, <1>4

(* Every step of a close-out keeps the inductive invariant.                *)
LEMMA ScoreNextKeepsIInv ==
  ASSUME IInv, NEW c \in ScoreRequests, ScoreNext(c)
  PROVE  IInv'
<1>. USE DEF IInv
<1>1. TypeOK'
  BY ScoreStepTypeOK DEF CloseOutInv
<1>2. CloseOutInv'
  BY ScoreProgresses, ScoreStepBatch, ScoreStepFinished, ScoreStepAwarded,
     ScoreStepNothingDropped DEF CloseOutInv
<1>3. UNCHANGED submitVars /\ now' \in Nat /\ now' >= now
  BY DEF ScoreNext, TypeOK, SubmitTypeOK
<1>4. SubmissionInv'
  BY <1>3, ScoreStepClosedKept, ScoreStepRowsKept, SubmissionsUndisturbed
<1>. QED
  BY <1>1, <1>2, <1>4

(* Every step of the pool keeps the inductive invariant.                   *)
LEMMA NextKeepsIInv == IInv /\ [Next]_vars => IInv'
<1>. SUFFICES ASSUME IInv, [Next]_vars PROVE IInv'
  OBVIOUS
<1>1. CASE Tick
  BY <1>1, EnvironmentTypeOK, TickKeeps, SubmissionsUndisturbed,
     CloseOutsUndisturbed DEF IInv
<1>2. CASE FixtureFeed
  BY <1>2, EnvironmentTypeOK, FixtureFeedKeeps, SubmissionsUndisturbed,
     CloseOutsUndisturbed DEF IInv
<1>3. CASE \E r \in PredictionIds : SubmitNext(r)
  BY <1>3, SubmitNextKeepsIInv
<1>4. CASE \E c \in ScoreRequests : ScoreNext(c)
  BY <1>4, ScoreNextKeepsIInv
<1>5. CASE Fault
  BY <1>5, EnvironmentTypeOK, FaultKeeps, SubmitFaultInv, ScoreFaultInv,
     SubmissionsUndisturbed, CloseOutsUndisturbed DEF IInv
<1>6. CASE UNCHANGED vars
  <2>1. /\ UNCHANGED <<submitVars, scoreVars, now>>
        /\ ClosedKept /\ RowsKept /\ AwardsKept
    BY <1>6 DEF vars, ClosedKept, RowsKept, AwardsKept, toDomainStatus, stored
  <2>2. now' \in Nat /\ now' >= now
    BY <2>1 DEF IInv, TypeOK, SubmitTypeOK
  <2>. QED
    BY <1>6, <2>1, <2>2, EnvironmentTypeOK, SubmissionsUndisturbed,
       CloseOutsUndisturbed DEF IInv
<1>. QED
  BY <1>1, <1>2, <1>3, <1>4, <1>5, <1>6 DEF Next
(* Between any two awaits of any requests the invariant holds.             *)
THEOREM Invariance == Spec => []IInv
  BY InitIInv, NextKeepsIInv, PTL DEF Spec

-----------------------------------------------------------------------------
(* The properties of PredictionPool.                                       *)

(* The tables and the local variables keep their types.                    *)
THEOREM TypeCorrect == Spec => []TypeOK
<1>1. IInv => TypeOK
  BY DEF IInv
<1>. QED
  BY <1>1, Invariance, PTL

(* Racing submissions never leave two predictions of a user for a match.   *)
THEOREM OnePredictionPerUserAndMatch == Spec => []UniquePrediction
<1>1. IInv => UniquePrediction
  BY DEF IInv, SubmissionInv
<1>. QED
  BY <1>1, Invariance, PTL

(* Answers 201, 400, 404 and 409 tell what is on record, under failures.   *)
THEOREM RepliesAreTruthful == Spec => []ReplyTruthful
<1>1. IInv => ReplyTruthful
  BY DEF IInv, SubmissionInv, AnsweredLast, OwnRow, ReplyTruthful
<1>. QED
  BY <1>1, Invariance, PTL

(* A 409 stays justified for good.                                         *)
THEOREM ConflictsAreJustified == Spec => []ConflictJustified
<1>1. IInv => ConflictJustified
  BY DEF IInv, SubmissionInv
<1>. QED
  BY <1>1, Invariance, PTL

(* No row carries a time of submission at or after kickoff.                *)
THEOREM AdmissionBeforeKickoff == Spec => []AdmittedInTime
<1>1. IInv => AdmittedInTime
  BY DEF IInv, SubmissionInv, OwnRow, AdmittedInTime
<1>. QED
  BY <1>1, Invariance, PTL

(* A close-out that answered 200 scored all that was on record before it.  *)
THEOREM CloseOutsComplete == Spec => []CompletedCloseOut
<1>1. IInv => CompletedCloseOut
  BY DEF IInv, CloseOutInv, NothingDropped, FinishedByCloseOut, CompletedCloseOut
<1>. QED
  BY <1>1, Invariance, PTL

(* With one final score per match, points on record are the policy's for   *)
(* the score on record.                                                    *)
THEOREM AwardsFollowTheScore == Spec => []AwardsAgree
<1>1. ASSUME IInv PROVE AwardsAgree
  <2>. SUFFICES ASSUME NEW id \in PredictionIds, awarded(id),
                       closeOutsAgree(predictions[id].matchId)
                PROVE  LET m == predictions[id].matchId IN
                         /\ matches[m].status = "FINISHED"
                         /\ predictions[id].points =
                              compute(DEFAULT_SCORING_RULES,
                                      predictions[id].predicted,
                                      matches[m].finalScore)
    BY DEF AwardsAgree
  <2>. DEFINE m == predictions[id].matchId
  <2>1. PICK c \in ScoreRequests :
          /\ closing[c] # Null
          /\ scoreDto[c].matchId = m
          /\ predictions[id].points =
               compute(DEFAULT_SCORING_RULES, predictions[id].predicted,
                       scoreDto[c].finalScore)
    BY <1>1 DEF IInv, CloseOutInv, AwardedByCloseOut
  <2>2. /\ scoreDto[c] \in ScoreDtos
        /\ matches[m].status = "FINISHED"
    BY <1>1, <2>1 DEF IInv, CloseOutInv, FinishedByCloseOut
  <2>3. PICK d \in ScoreRequests :
          /\ closing[d] # Null
          /\ scoreDto[d].matchId = m
          /\ matches[m].finalScore = scoreDto[d].finalScore
    BY <1>1, <2>1 DEF IInv, CloseOutInv, FinishedByCloseOut
  <2>4. scoreDto[d] \in ScoreDtos
    BY <1>1, <2>3 DEF IInv, CloseOutInv, FinishedByCloseOut
  <2>5. scoreDto[c].finalScore = scoreDto[d].finalScore
    BY <2>1, <2>2, <2>3, <2>4, NullIsNoScoreDto DEF closeOutsAgree
  <2>. QED
    BY <2>1, <2>2, <2>3, <2>5
<1>. QED
  BY <1>1, Invariance, PTL

(* What no batch holds, no step writes, and no batch reads again.          *)
LEMMA SettledStays ==
  ASSUME IInv, [Next]_vars, NEW id \in PredictionIds, settled(id)
  PROVE  predictions'[id] = predictions[id] /\ settled(id)'
<1>1. stored(id) /\ awarded(id) /\ \A c \in ScoreRequests : id \notin todo[c]
  BY DEF settled, awarded
<1>2. predictions'[id] = predictions[id]
  <2>1. CASE \E c \in ScoreRequests : ScoreNext(c)
    <3>. PICK c \in ScoreRequests : ScoreNext(c)
      BY <2>1
    <3>1. CASE SavePoints(c)
      <4>. PICK i \in todo[c] :
             predictions' = [predictions EXCEPT
                               ![i] = awardPoints(predictions[i],
                                                  earnedPoints(c, i))]
        BY <3>1, SavePointsScoresOne DEF IInv
      <4>. QED
        BY <1>1 DEF IInv, TypeOK
    <3>2. CASE ~SavePoints(c)
      BY <3>2 DEF ScoreNext, ScoreArrives, FindMatchToScore, SaveMatch,
                  FindPredictions, ScoreReplied
    <3>. QED
      BY <3>1, <3>2
  <2>2. CASE \E r \in PredictionIds : SubmitNext(r)
    BY <1>1, <2>2, SubmitStepAwardsKept DEF IInv, AwardsKept
  <2>3. CASE Tick \/ FixtureFeed \/ Fault
    BY <1>1, <2>3, TickKeeps, FixtureFeedKeeps, FaultKeeps DEF IInv, AwardsKept
  <2>4. CASE UNCHANGED vars
    BY <2>4 DEF vars
  <2>. QED
    BY <2>1, <2>2, <2>3, <2>4 DEF Next
<1>3. \A c \in ScoreRequests : id \notin todo'[c]
  <2>. SUFFICES ASSUME NEW c \in ScoreRequests PROVE id \notin todo'[c]
    OBVIOUS
  <2>1. CASE todo'[c] \subseteq todo[c]
    BY <1>1, <2>1
  <2>2. CASE FindPredictions(c)
    BY <1>1, <2>2 DEF FindPredictions, awarded, IInv, TypeOK, ScoreTypeOK
  <2>3. CASE \E d \in ScoreRequests : ScoreNext(d)
    BY <2>1, <2>2, <2>3
    DEF ScoreNext, ScoreArrives, FindMatchToScore, SaveMatch, FindPredictions,
        SavePoints, ScoreReplied, IInv, TypeOK, ScoreTypeOK
  <2>4. CASE Fault /\ ScoreFault
    BY <2>1, <2>4 DEF ScoreFault, ScoreQueryFails, ScoringServiceExits,
                      sentUpdates, IInv, TypeOK, ScoreTypeOK
  <2>5. CASE UNCHANGED scoreVars
    BY <2>1, <2>5 DEF scoreVars
  <2>. QED
    BY <2>3, <2>4, <2>5 DEF Next, Tick, FixtureFeed, SubmitNext, Fault,
                            SubmitFault, vars
<1>. QED
  BY <1>1, <1>2, <1>3 DEF settled, awarded, stored

(* Points outside of every batch are final.                                *)
THEOREM SettledAwardsAreFinal == Spec => SettledAwardIsFinal
<1>1. IInv /\ [Next]_vars =>
        [\A id \in PredictionIds : settled(id) =>
           predictions'[id] = predictions[id] /\ settled(id)']_vars
  BY SettledStays
<1>. QED
  BY <1>1, Invariance, PTL DEF Spec, SettledAwardIsFinal

(* The only way to lose an award is that two close-outs of the match were   *)
(* given different scores: where all agree, a second close-out writes the   *)
(* points that are there, so that awards are final as Prediction.ts:9 says. *)
(* The run award_overwritten shows that this condition is needed.           *)
THEOREM OverwritesNeedDisagreement ==
  Spec => [][\A id \in PredictionIds :
               awarded(id) /\ closeOutsAgree(predictions[id].matchId) =>
                 predictions'[id] = predictions[id]]_vars
<1>1. ASSUME IInv, [Next]_vars, NEW id \in PredictionIds, awarded(id),
             closeOutsAgree(predictions[id].matchId)
      PROVE  predictions'[id] = predictions[id]
  <2>. USE <1>1
  <2>1. ASSUME NEW c \in ScoreRequests, SavePoints(c)
        PROVE  predictions'[id] = predictions[id]
    <3>1. PICK i \in todo[c] :
            /\ i \in PredictionIds
            /\ predictions[i] \in PredictionRows \ {Null}
            /\ predictions[i].matchId = scoreDto[c].matchId
            /\ predictions' = [predictions EXCEPT
                                 ![i] = awardPoints(predictions[i], earnedPoints(c, i))]
      BY <2>1, SavePointsScoresOne DEF IInv, stored
    <3>2. CASE i # id
      BY <3>1, <3>2 DEF IInv, TypeOK
    <3>3. CASE i = id
      <4>1. PICK d \in ScoreRequests :
              /\ closing[d] # Null
              /\ scoreDto[d].matchId = predictions[id].matchId
              /\ predictions[id].points =
                   compute(DEFAULT_SCORING_RULES, predictions[id].predicted,
                           scoreDto[d].finalScore)
        BY DEF IInv, CloseOutInv, AwardedByCloseOut
      <4>2. scoreDto[c] \in ScoreDtos /\ scoreDto[d] \in ScoreDtos
        BY <2>1, <4>1 DEF SavePoints, IInv, CloseOutInv, ScoreProgress, FinishedByCloseOut
      <4>3. scoreDto[c].finalScore = scoreDto[d].finalScore
        BY <3>1, <3>3, <4>1, <4>2, NullIsNoScoreDto DEF closeOutsAgree
      <4>4. earnedPoints(c, id) = predictions[id].points
        BY <4>1, <4>3 DEF earnedPoints
      <4>5. awardPoints(predictions[id], predictions[id].points) = predictions[id]
        BY <3>1, <3>3 DEF awardPoints, PredictionRows
      <4>. QED
        BY <3>1, <3>3, <4>4, <4>5 DEF IInv, TypeOK
    <3>. QED
      BY <3>2, <3>3
  <2>2. CASE \E c \in ScoreRequests : ScoreNext(c)
    BY <2>1, <2>2 DEF ScoreNext, ScoreArrives, FindMatchToScore, SaveMatch,
                      FindPredictions, ScoreReplied
  <2>3. CASE \E r \in PredictionIds : SubmitNext(r)
    BY <2>3, SubmitStepAwardsKept DEF IInv, AwardsKept, awarded
  <2>4. CASE Tick \/ FixtureFeed \/ Fault \/ UNCHANGED vars
    BY <2>4, TickKeeps, FixtureFeedKeeps, FaultKeeps DEF IInv, AwardsKept, awarded, vars
  <2>. QED
    BY <2>2, <2>3, <2>4 DEF Next
<1>2. IInv /\ [Next]_vars =>
        [\A id \in PredictionIds :
           awarded(id) /\ closeOutsAgree(predictions[id].matchId) =>
             predictions'[id] = predictions[id]]_vars
  BY <1>1
<1>. QED
  BY <1>2, Invariance, PTL DEF Spec

(* A match that is called off is not finished by any step, nor scored.     *)
LEMMA CalledOffStays ==
  ASSUME IInv, [Next]_vars, NEW m \in Matches, calledOff(m)
  PROVE  /\ matches'[m] = matches[m] /\ calledOff(m)'
         /\ \A id \in PredictionIds : awarded(id)' => predictions'[id].matchId # m
<1>1. matches[m].status = "CANCELLED" /\ toDomainStatus(m) = "CANCELLED"
  BY DEF calledOff, toDomainStatus, MATCH_STATUSES
<1>2. matches'[m] = matches[m]
  <2>1. CASE FixtureFeed
    BY <1>1, <2>1 DEF FixtureFeed, KickOff, CallOff, IInv, TypeOK
  <2>2. CASE \E c \in ScoreRequests : ScoreNext(c)
    BY <2>2
    DEF ScoreNext, ScoreArrives, FindMatchToScore, SaveMatch, saveMatch,
        FindPredictions, SavePoints, ScoreReplied, calledOff, IInv, TypeOK
  <2>3. CASE Tick \/ Fault \/ (\E r \in PredictionIds : SubmitNext(r)) \/ UNCHANGED vars
    BY <2>3
    DEF Tick, Fault, SubmitFault, ScoreFault, SubmitQueryFails, FrontEndExits,
        ScoreQueryFails, ScoringServiceExits, SubmitNext, SubmitArrives, FindUser,
        FindMatch, CheckWindow, FindExisting, SavePrediction, vars
  <2>. QED
    BY <2>1, <2>2, <2>3 DEF Next
<1>3. ASSUME NEW c \in ScoreRequests, scorePc'[c] \in {"saveMatch", "lateSaveMatch"}
      PROVE  scoreDto'[c].matchId # m
  <2>. USE <1>3
  <2>1. CASE FindMatchToScore(c)
    BY <1>1, <2>1
    DEF FindMatchToScore, canFinish, scoreProceeds, scoreAnswers, scoreGoes,
        IInv, TypeOK, ScoreTypeOK
  <2>2. CASE scorePc[c] \in {"saveMatch", "lateSaveMatch"} /\ UNCHANGED scoreDto
    BY <2>2 DEF calledOff
  <2>3. CASE \E d \in ScoreRequests : ScoreNext(d)
    BY <2>1, <2>2, <2>3
    DEF ScoreNext, ScoreArrives, FindMatchToScore, SaveMatch, FindPredictions,
        SavePoints, ScoreReplied, scoreProceeds, scoreAnswers, scoreGoes,
        calledOff, IInv, TypeOK, ScoreTypeOK
  <2>4. CASE Fault /\ ScoreFault
    BY <2>2, <2>4
    DEF ScoreFault, ScoreQueryFails, ScoringServiceExits, scoreGoes, scoreGivenUp,
        IInv, TypeOK, ScoreTypeOK
  <2>5. CASE UNCHANGED scoreVars
    BY <2>2, <2>5 DEF scoreVars
  <2>. QED
    BY <2>3, <2>4, <2>5 DEF Next, Tick, FixtureFeed, SubmitNext, Fault,
                            SubmitFault, vars
<1>4. calledOff(m)'
  BY <1>1, <1>2, <1>3 DEF calledOff
<1>5. ASSUME NEW id \in PredictionIds, awarded(id)', predictions'[id].matchId = m
      PROVE  FALSE
  <2>1. IInv'
    BY NextKeepsIInv
  <2>2. PICK c \in ScoreRequests : closing'[c] # Null /\ scoreDto'[c].matchId = m
    BY <1>5, <2>1 DEF IInv, CloseOutInv, AwardedByCloseOut
  <2>3. matches'[m].status = "FINISHED"
    BY <2>1, <2>2 DEF IInv, CloseOutInv, FinishedByCloseOut
  <2>. QED
    BY <1>1, <1>2, <2>3
<1>. QED
  BY <1>2, <1>4, <1>5

(* A match that is called off stays so, without points for its predictions, *)
(* once no close-out holds an earlier copy of it.                           *)
THEOREM CallOffsAreFinal == Spec => CallOffIsFinal
<1>1. IInv /\ [Next]_vars =>
        [\A m \in Matches : calledOff(m) =>
           /\ matches'[m] = matches[m] /\ calledOff(m)'
           /\ \A id \in PredictionIds : awarded(id)' => predictions'[id].matchId # m]_vars
  BY CalledOffStays
<1>. QED
  BY <1>1, Invariance, PTL DEF Spec, CallOffIsFinal

(* What a step may do to a batch that is being written.                     *)
shrinks(c) ==
    /\ todo'[c] \subseteq todo[c]
    /\ scorePc'[c] # "lateSavePoints" => \A id \in todo[c] \ todo'[c] : awarded(id)'
    /\ \/ scorePc'[c] \in {"savePoints", "lateSavePoints"}
       \/ scorePc'[c] = "done" /\ todo[c] = {}

(* A batch that is being written only gets smaller, a row leaves it scored, *)
(* and the loop ends with nothing left or is given up: whatever the other   *)
(* close-outs do, each turn of the loop brings its end nearer, as the       *)
(* liveness property BatchDrains needs (ScoreMatchPredictions.ts:35-41).    *)
THEOREM BatchesOnlyShrink ==
  Spec => [][\A c \in ScoreRequests : scorePc[c] = "savePoints" => shrinks(c)]_vars
<1>1. ASSUME IInv, [Next]_vars, NEW c \in ScoreRequests, scorePc[c] = "savePoints"
      PROVE  shrinks(c)
  <2>. USE <1>1
  <2>1. ASSUME todo'[c] = todo[c], scorePc'[c] = scorePc[c]
        PROVE  shrinks(c)
    BY <2>1 DEF shrinks
  <2>2. CASE SavePoints(c)
    <3>1. PICK i \in todo[c] :
            /\ updatePoints(i, earnedPoints(c, i))
            /\ todo' = [todo EXCEPT ![c] = @ \ {i}]
      BY <2>2 DEF SavePoints
    <3>2. todo'[c] = todo[c] \ {i} /\ UNCHANGED scorePc
      BY <2>2, <3>1 DEF SavePoints, IInv, TypeOK, ScoreTypeOK
    <3>3. awarded(i)'
      <4>1. /\ i \in PredictionIds /\ predictions[i] \in PredictionRows
            /\ earnedPoints(c, i) \in Nat
        BY EarnedPointsAreNat DEF IInv, CloseOutInv
      <4>2. predictions'[i] = awardPoints(predictions[i], earnedPoints(c, i))
        BY <3>1, <4>1 DEF updatePoints, IInv, TypeOK
      <4>. QED
        BY <4>1, <4>2, AwardKeepsRow DEF awarded, stored
    <3>. QED
      BY <3>2, <3>3 DEF shrinks
  <2>3. CASE ScoreReplied(c)
    BY <2>3 DEF shrinks, ScoreReplied, scoreAnswers, scoreGoes, IInv, TypeOK, ScoreTypeOK
  <2>4. CASE \E d \in ScoreRequests : ScoreNext(d)
    <3>. PICK d \in ScoreRequests : ScoreNext(d)
      BY <2>4
    <3>1. CASE d # c
      BY <2>1, <3>1
      DEF ScoreNext, ScoreArrives, FindMatchToScore, SaveMatch, FindPredictions,
          SavePoints, ScoreReplied, scoreProceeds, scoreAnswers, scoreGoes,
          IInv, TypeOK, ScoreTypeOK
    <3>2. CASE d = c
      BY <2>2, <2>3, <3>2
      DEF ScoreNext, ScoreArrives, FindMatchToScore, SaveMatch, FindPredictions
    <3>. QED
      BY <3>1, <3>2
  <2>5. CASE Fault /\ ScoreFault
    <3>1. CASE \E d \in ScoreRequests : ScoreQueryFails(d)
      BY <2>1, <3>1
      DEF shrinks, ScoreQueryFails, sentUpdates, scoreGoes, scoreGivenUp, IInv, TypeOK, ScoreTypeOK
    <3>2. CASE ScoringServiceExits
      BY <3>2
      DEF shrinks, ScoringServiceExits, scoreInFlight, sentUpdates, scoreGivenUp, IInv, TypeOK,
          ScoreTypeOK
    <3>. QED
      BY <2>5, <3>1, <3>2 DEF ScoreFault
  <2>6. CASE UNCHANGED scoreVars
    BY <2>1, <2>6 DEF scoreVars
  <2>. QED
    BY <2>4, <2>5, <2>6 DEF Next, Tick, FixtureFeed, SubmitNext, Fault, SubmitFault, vars
<1>2. IInv /\ [Next]_vars =>
        [\A c \in ScoreRequests : scorePc[c] = "savePoints" => shrinks(c)]_vars
  BY <1>1
<1>. QED
  BY <1>2, Invariance, PTL DEF Spec

-----------------------------------------------------------------------------
(* The column api_football_id: what it decides, in both directions.        *)

(* A match that is cancelled or finished stays one or the other.           *)
over(m) == matches[m].status \in {"CANCELLED", "FINISHED"}

LEMMA OverStaysOver ==
  ASSUME IInv, [Next]_vars, NEW m \in Matches, over(m)
  PROVE  over(m)'
<1>. USE DEF over, IInv, TypeOK
<1>1. CASE FixtureFeed
  <2>. PICK k \in Matches : KickOff(k) \/ CallOff(k)
    BY <1>1 DEF FixtureFeed
  <2>1. CASE k = m
    BY <2>1 DEF KickOff, CallOff, canCancel
  <2>2. CASE k # m
    BY <2>2 DEF KickOff, CallOff
  <2>. QED
    BY <2>1, <2>2
<1>2. CASE \E c \in ScoreRequests : ScoreNext(c)
  <2>. PICK c \in ScoreRequests : ScoreNext(c)
    BY <1>2
  <2>1. CASE SaveMatch(c)
    <3>1. \/ matches' = [matches EXCEPT ![scoreDto[c].matchId] = finish(scoreDto[c].finalScore)]
          \/ UNCHANGED matches
      BY <2>1 DEF SaveMatch, saveMatch
    <3>. QED
      BY <3>1 DEF finish
  <2>2. CASE UNCHANGED matches
    BY <2>2
  <2>. QED
    BY <2>1, <2>2 DEF ScoreNext, ScoreArrives, FindMatchToScore, FindPredictions,
                      SavePoints, ScoreReplied
<1>3. CASE Tick \/ Fault \/ (\E r \in PredictionIds : SubmitNext(r)) \/ UNCHANGED vars
  BY <1>3
  DEF Tick, Fault, SubmitFault, ScoreFault, SubmitQueryFails, FrontEndExits,
      ScoreQueryFails, ScoringServiceExits, SubmitNext, SubmitArrives, FindUser,
      FindMatch, CheckWindow, FindExisting, SavePrediction, vars
<1>. QED
  BY <1>1, <1>2, <1>3 DEF Next

(* A close-out that has not arrived has no answer yet.                     *)
NotYetAnswered == \A c \in ScoreRequests : scorePc[c] = "idle" => scoreReply[c] = Null

LEMMA NextKeepsNotYetAnswered ==
  ASSUME TypeOK, NotYetAnswered, [Next]_vars
  PROVE  NotYetAnswered'
<1>. USE DEF TypeOK, ScoreTypeOK, NotYetAnswered
<1>1. CASE \E d \in ScoreRequests : ScoreNext(d)
  BY <1>1
  DEF ScoreNext, ScoreArrives, FindMatchToScore, SaveMatch, FindPredictions,
      SavePoints, ScoreReplied, scoreProceeds, scoreAnswers, scoreGoes
<1>2. CASE ScoreFault
  BY <1>2 DEF ScoreFault, ScoreQueryFails, ScoringServiceExits, scoreInFlight,
              scoreGoes, scoreGivenUp
<1>3. CASE UNCHANGED scoreVars
  BY <1>3 DEF scoreVars
<1>. QED
  BY <1>1, <1>2, <1>3 DEF Next, Tick, FixtureFeed, SubmitNext, Fault, SubmitFault, vars

(* Without the NOT NULL column, as before migration 0002, a match that     *)
(* exists gets its score as ScoreMatchPredictions.ts:12 says: an internal  *)
(* error without a fault means that the match is cancelled, or finished by *)
(* another close-out since.  The run api_football_id shows that the        *)
(* condition is needed.                                                    *)
THEOREM ScoresRecordedWithoutColumn ==
  ASSUME ~ApiFootballIdRequired
  PROVE  Spec => []FinalScoreIsRecorded
<1>1. Init => FinalScoreIsRecorded /\ NotYetAnswered
  <2>. SUFFICES ASSUME Init PROVE FinalScoreIsRecorded /\ NotYetAnswered
    OBVIOUS
  <2>1. scoreReply = [c \in ScoreRequests |-> Null]
    BY DEF Init, ScoreInit
  <2>2. NotYetAnswered
    BY <2>1 DEF NotYetAnswered
  <2>3. FinalScoreIsRecorded
    BY <2>1, NullAssumption DEF FinalScoreIsRecorded
  <2>. QED
    BY <2>2, <2>3
<1>2. ASSUME IInv, FinalScoreIsRecorded, NotYetAnswered, [Next]_vars
      PROVE  FinalScoreIsRecorded'
  <2>. SUFFICES ASSUME NEW c \in ScoreRequests, NEW m \in Matches, scoreReply'[c] = 500,
                       faults' = 0, scoreDto'[c].matchId = m
                PROVE  over(m)'
    BY DEF FinalScoreIsRecorded, over
  <2>. USE <1>2 DEF IInv, TypeOK, ScoreTypeOK
  <2>1. CASE scoreReply[c] = 500 /\ faults = 0 /\ scoreDto[c] = scoreDto'[c]
    <3>1. over(m)
      BY <2>1 DEF FinalScoreIsRecorded, over
    <3>. QED
      BY <3>1, OverStaysOver
  <2>2. CASE FindMatchToScore(c)
    <3>1. /\ scoreDto' = scoreDto /\ matches' = matches
          /\ ~canFinish(toDomainStatus(m)) \/ scoreReply' = scoreReply
      BY <2>2 DEF FindMatchToScore, scoreProceeds, matchFound
    <3>2. faults = 0
      BY <2>2 DEF FindMatchToScore, Next, ScoreNext, Tick, Fault, FixtureFeed, SubmitNext,
                  vars
    <3>3. CASE ~canFinish(toDomainStatus(m))
      BY <3>1, <3>3 DEF canFinish, toDomainStatus, MATCH_STATUSES, over
    <3>. QED
      BY <2>1, <3>1, <3>2, <3>3
  <2>3. ASSUME NEW d \in ScoreRequests, ScoreNext(d), ~FindMatchToScore(c)
        PROVE  over(m)'
    <3>1. faults = 0
      BY <2>3 DEF ScoreNext
    <3>2. CASE d # c
      BY <2>1, <2>3, <3>1, <3>2
      DEF ScoreNext, ScoreArrives, FindMatchToScore, SaveMatch, FindPredictions,
          SavePoints, ScoreReplied, scoreProceeds, scoreAnswers
    <3>3. CASE d = c /\ ScoreArrives(c)
      BY <2>3, <3>3, <3>1, NullAssumption
      DEF ScoreArrives, scoreProceeds, scoreAnswers, NotYetAnswered
    <3>4. CASE d = c /\ ~ScoreArrives(c)
      BY <2>1, <2>3, <3>1, <3>4
      DEF ScoreNext, SaveMatch, FindPredictions, SavePoints, ScoreReplied,
          scoreProceeds, scoreAnswers, saveMatchSucceeds
    <3>. QED
      BY <3>2, <3>3, <3>4
  <2>4. CASE Fault
    BY <2>4 DEF Fault
  <2>5. CASE Tick \/ FixtureFeed \/ (\E r \in PredictionIds : SubmitNext(r)) \/ UNCHANGED vars
    BY <2>1, <2>5 DEF Tick, FixtureFeed, SubmitNext, vars, scoreVars
  <2>. QED
    BY <2>2, <2>3, <2>4, <2>5 DEF Next
<1>3. IInv /\ FinalScoreIsRecorded /\ NotYetAnswered /\ [Next]_vars =>
        FinalScoreIsRecorded' /\ NotYetAnswered'
  BY <1>2, NextKeepsNotYetAnswered DEF IInv
<1>. QED
  BY <1>1, <1>3, Invariance, PTL DEF Spec

(* No close-out finished a match or answered 200, and nothing has points.  *)
nothingScored ==
    /\ \A c \in ScoreRequests : closing[c] = Null /\ scoreReply[c] # 200
    /\ \A id \in PredictionIds : ~awarded(id)

(* With the NOT NULL column, as in the schema of init.sql, no close-out    *)
(* ever succeeds and no prediction ever has points, whatever is retried.   *)
THEOREM NothingScoredWithColumn ==
  ASSUME ApiFootballIdRequired
  PROVE  Spec => []nothingScored
<1>. DEFINE NoFinish == \A c \in ScoreRequests : closing[c] = Null
<1>1. Init => NoFinish
  BY DEF Init, ScoreInit
<1>2. ASSUME IInv, NoFinish, [Next]_vars
      PROVE  NoFinish'
  <2>. USE <1>2
  <2>1. CASE \E c \in ScoreRequests : ScoreNext(c)
    BY <2>1
    DEF ScoreNext, ScoreArrives, FindMatchToScore, SaveMatch, FindPredictions,
        SavePoints, ScoreReplied, saveMatchSucceeds
  <2>2. CASE Fault
    BY <2>2 DEF Fault, SubmitFault, ScoreFault, SubmitQueryFails, FrontEndExits,
                ScoreQueryFails, ScoringServiceExits, scoreVars
  <2>3. CASE Tick \/ FixtureFeed \/ (\E r \in PredictionIds : SubmitNext(r)) \/ UNCHANGED vars
    BY <2>3 DEF Tick, FixtureFeed, SubmitNext, vars, scoreVars
  <2>. QED
    BY <2>1, <2>2, <2>3 DEF Next
<1>3. IInv /\ NoFinish => nothingScored
  BY DEF IInv, CloseOutInv, NothingDropped, AwardedByCloseOut, nothingScored
<1>4. IInv /\ NoFinish /\ [Next]_vars => NoFinish'
  BY <1>2
<1>. HIDE DEF NoFinish
<1>. QED
  BY <1>1, <1>3, <1>4, Invariance, PTL DEF Spec
=============================================================================
