---------------------- MODULE PredictionPoolInvariant -----------------------
(***************************************************************************)
(* The inductive invariant behind the theorems of PredictionPoolTheorems,  *)
(* in named parts, apart from the proofs so that TLC checks it too.        *)
(***************************************************************************)
EXTENDS PredictionPool

-----------------------------------------------------------------------------
(* Submissions.                                                            *)

(* What each step of the handler relies on has been established by the     *)
(* steps before: the parameters, the match, the admission.                 *)
SubmitProgress ==
    \A r \in PredictionIds :
      /\ submitPc[r] \notin {"idle", "done"} => submitDto[r] \in SubmitDtos
      /\ submitPc[r] \in {"checkWindow", "findExisting", "save", "lateSave"} =>
           submitDto[r].matchId \in Matches
      /\ submitPc[r] \in {"findExisting", "save", "lateSave"} =>
           /\ submittedAt[r] \in Nat
           /\ submittedAt[r] < KickoffAt[submitDto[r].matchId]

(* A row was stored by the request that owns its id, from its parameters,  *)
(* as its last step.                                                       *)
OwnRow ==
    \A r \in PredictionIds : stored(r) =>
      /\ submitPc[r] = "done"
      /\ submitDto[r] \in SubmitDtos
      /\ submitDto[r].matchId \in Matches
      /\ predictions[r].userId = submitDto[r].userId
      /\ predictions[r].matchId = submitDto[r].matchId
      /\ predictions[r].predicted = submitDto[r].predicted
      /\ predictions[r].submittedAt < KickoffAt[submitDto[r].matchId]

(* An answer other than 500 is the last thing a request does.              *)
AnsweredLast ==
    \A r \in PredictionIds :
      /\ submitReply[r] = 201 => stored(r)
      /\ submitReply[r] \in {400, 404, 409} => submitPc[r] = "done" /\ ~stored(r)
      /\ submitReply[r] = 409 => submitDto[r] \in SubmitDtos
                                   /\ submitDto[r].matchId \in Matches

(* A match that a request saw closed is still closed.                      *)
ClosedStaysClosed ==
    \A r \in PredictionIds :
      submitPc[r] = "checkWindow" /\ statusRead[r] # "SCHEDULED" =>
        toDomainStatus(submitDto[r].matchId) # "SCHEDULED"

-----------------------------------------------------------------------------
(* Close-outs.                                                             *)

(* A close-out that reads or writes predictions has finished its match.    *)
ScoreProgress ==
    \A c \in ScoreRequests :
      /\ scorePc[c] \notin {"idle", "done"} => scoreDto[c] \in ScoreDtos
      /\ scorePc[c] \in {"saveMatch", "lateSaveMatch"} =>
           scoreDto[c].matchId \in Matches
      /\ scorePc[c] \in {"findPredictions", "savePoints", "lateSavePoints"} =>
           closing[c] # Null
      /\ scorePc[c] = "idle" => closing[c] = Null

(* A batch holds rows of the match it was read for.                        *)
BatchOfMatch ==
    \A c \in ScoreRequests : \A id \in todo[c] :
      /\ scorePc[c] \in {"savePoints", "lateSavePoints"}
      /\ stored(id)
      /\ predictions[id].matchId = scoreDto[c].matchId

(* The match stays finished, with the score of a close-out that did so.    *)
FinishedByCloseOut ==
    \A c \in ScoreRequests : closing[c] # Null =>
      /\ scoreDto[c] \in ScoreDtos
      /\ scoreDto[c].matchId \in Matches
      /\ matches[scoreDto[c].matchId].status = "FINISHED"
      /\ \E d \in ScoreRequests :
           /\ closing[d] # Null
           /\ scoreDto[d].matchId = scoreDto[c].matchId
           /\ matches[scoreDto[c].matchId].finalScore = scoreDto[d].finalScore

(* Points were computed from the score of some such close-out.             *)
AwardedByCloseOut ==
    \A id \in PredictionIds : awarded(id) =>
      \E c \in ScoreRequests :
        /\ closing[c] # Null
        /\ scoreDto[c].matchId = predictions[id].matchId
        /\ predictions[id].points =
             compute(DEFAULT_SCORING_RULES, predictions[id].predicted,
                     scoreDto[c].finalScore)

(* What was on record at the finish is scored or still in the batch.       *)
NothingDropped ==
    \A c \in ScoreRequests :
      /\ closing[c] # Null => \A id \in closing[c] : stored(id) /\
           predictions[id].matchId = scoreDto[c].matchId
      /\ scorePc[c] = "savePoints" =>
           \A id \in closing[c] : awarded(id) \/ id \in todo[c]
      /\ scoreReply[c] = 200 => scorePc[c] = "done" /\ closing[c] # Null
                                  /\ \A id \in closing[c] : awarded(id)

-----------------------------------------------------------------------------
SubmissionInv ==
    /\ SubmitProgress
    /\ OwnRow
    /\ UniquePrediction
    /\ AnsweredLast
    /\ ClosedStaysClosed
    /\ ConflictJustified

CloseOutInv ==
    /\ ScoreProgress
    /\ BatchOfMatch
    /\ FinishedByCloseOut
    /\ AwardedByCloseOut
    /\ NothingDropped

(* The inductive invariant: what holds of the tables and of every request  *)
(* between any two of its awaits (SubmitPrediction.ts:30-60,               *)
(* ScoreMatchPredictions.ts:24-43).                                        *)
IInv == TypeOK /\ SubmissionInv /\ CloseOutInv
=============================================================================
