--------------------------- MODULE PredictionPool ---------------------------
(***************************************************************************)
(* The prediction pool as it is deployed: requests that submit predictions *)
(* and requests that close out matches, handled by separate processes that *)
(* share nothing but the database, while the clock runs, the fixture feed  *)
(* updates the matches, queries fail and processes are stopped.            *)
(***************************************************************************)
EXTENDS SubmitPrediction, ScoreMatchPredictions

CONSTANTS
    MaxTime,            \* bound: the clock stops here
    MaxFaults           \* bound: failed queries and exits in one behaviour

ASSUME PoolAssumption ==
    /\ MaxTime \in Nat
    /\ MaxFaults \in Nat

VARIABLE faults         \* failed queries and exits so far

vars == <<matches, predictions, now, submitVars, scoreVars, faults>>

Init ==
    /\ matches \in [Matches -> [status : InitialStatuses, finalScore : {Null}]]
    /\ predictions = [id \in PredictionIds |-> Null]
    /\ SubmitInit
    /\ ScoreInit
    /\ faults = 0

-----------------------------------------------------------------------------
Tick ==
    /\ now < MaxTime
    /\ now' = now + 1
    /\ UNCHANGED <<matches, predictions, submitVars, scoreVars, faults>>

(* Nothing under src/ writes a status but the close-out: what tells the    *)
(* database that a match began or was cancelled is outside.  It is assumed *)
(* to follow the entity's rule for cancel, and never to reopen a match.    *)
KickOff(m) ==
    /\ matches[m].status \notin {"LIVE", "FINISHED", "CANCELLED"}
    /\ matches' = [matches EXCEPT ![m].status = "LIVE"]

CallOff(m) ==
    /\ matches[m].status # "CANCELLED"
    /\ canCancel(matches[m].status)
    /\ matches' = [matches EXCEPT ![m] = cancel(matches[m])]

FixtureFeed ==
    /\ \E m \in Matches : KickOff(m) \/ CallOff(m)
    /\ UNCHANGED <<predictions, now, submitVars, scoreVars, faults>>

SubmitNext(r) ==
    /\ \/ SubmitArrives(r)
       \/ FindUser(r)
       \/ FindMatch(r)
       \/ CheckWindow(r)
       \/ FindExisting(r)
       \/ SavePrediction(r)
    /\ UNCHANGED <<now, scoreVars, faults>>

ScoreNext(c) ==
    /\ \/ ScoreArrives(c)
       \/ FindMatchToScore(c)
       \/ SaveMatch(c)
       \/ FindPredictions(c)
       \/ SavePoints(c)
       \/ ScoreReplied(c)
    /\ UNCHANGED <<now, submitVars, faults>>

(* Failed queries and stopped processes share one budget.                  *)
SubmitFault ==
    /\ \/ \E r \in PredictionIds : SubmitQueryFails(r)
       \/ \E S \in SUBSET PredictionIds : FrontEndExits(S)
    /\ UNCHANGED <<now, scoreVars>>

ScoreFault ==
    /\ \/ \E c \in ScoreRequests : ScoreQueryFails(c)
       \/ ScoringServiceExits
    /\ UNCHANGED <<now, submitVars>>

Fault ==
    /\ faults < MaxFaults
    /\ faults' = faults + 1
    /\ SubmitFault \/ ScoreFault

Next ==
    \/ Tick
    \/ FixtureFeed
    \/ \E r \in PredictionIds : SubmitNext(r)
    \/ \E c \in ScoreRequests : ScoreNext(c)
    \/ Fault

Spec == Init /\ [][Next]_vars

(* A handler that was called runs: Node's event loop serves every answer   *)
(* of the driver, and a statement ends or fails.  Nothing makes a request  *)
(* arrive, nor a statement whose request was given up be executed.         *)
Fairness ==
    /\ \A r \in PredictionIds :
         WF_vars(SubmitStep(r) /\ UNCHANGED <<now, scoreVars, faults>>)
    /\ \A c \in ScoreRequests :
         WF_vars(ScoreStep(c) /\ UNCHANGED <<now, submitVars, faults>>)

LiveSpec == Spec /\ Fairness

-----------------------------------------------------------------------------
(* What a step names has been set by the steps before it.                  *)
SubmitTypeOK ==
    /\ now \in Nat
    /\ submitPc \in [PredictionIds -> SubmitSteps]
    /\ submitDto \in [PredictionIds -> SubmitDtos \cup {Null}]
    /\ statusRead \in [PredictionIds -> MATCH_STATUSES \cup {Null}]
    /\ submittedAt \in [PredictionIds -> Nat \cup {Null}]
    /\ submitReply \in [PredictionIds -> SubmitReplies]

ScoreTypeOK ==
    /\ scorePc \in [ScoreRequests -> ScoreSteps]
    /\ scoreDto \in [ScoreRequests -> ScoreDtos \cup {Null}]
    /\ todo \in [ScoreRequests -> SUBSET PredictionIds]
    /\ scoreReply \in [ScoreRequests -> ScoreReplies]
    /\ closing \in [ScoreRequests -> (SUBSET PredictionIds) \cup {Null}]

(* Type invariant: every table and every local variable of a request holds *)
(* what its reader expects, points_awarded a natural number or null.       *)
TypeOK ==
    /\ matches \in [Matches -> MatchRows]
    /\ predictions \in [PredictionIds -> PredictionRows \cup {Null}]
    /\ faults \in Nat
    /\ SubmitTypeOK
    /\ ScoreTypeOK

(* A user has at most one prediction for a match, although the handler     *)
(* looks for an existing one in one statement and inserts in another: two  *)
(* requests may both find nothing (SubmitPrediction.ts:42, init.sql:83).   *)
UniquePrediction ==
    \A i, j \in PredictionIds :
      /\ stored(i)
      /\ stored(j)
      /\ predictions[i].userId = predictions[j].userId
      /\ predictions[i].matchId = predictions[j].matchId
      => i = j

(* What a client may conclude from the answer: 201 means that the          *)
(* prediction it sent is on record, 400, 404 and 409 that it is not and    *)
(* never will be, by this request (predictions-service/server.ts:33-54).   *)
ReplyTruthful ==
    \A r \in PredictionIds :
      /\ submitReply[r] = 201 =>
           /\ stored(r)
           /\ predictions[r].userId = submitDto[r].userId
           /\ predictions[r].matchId = submitDto[r].matchId
           /\ predictions[r].predicted = submitDto[r].predicted
      /\ submitReply[r] \in {400, 404, 409} =>
           ~stored(r) /\ submitPc[r] # "lateSave"

(* The two reasons for a 409 to request r of user u for match m.           *)
conflictStands(u, m, r) ==
    \/ \E id \in findByUserAndMatch(u, m) : id # r
    \/ ~acceptsPredictions(toDomainStatus(m), KickoffAt[m], now)

(* 409 stays justified: the user has another prediction for the match, or  *)
(* the match is closed to predictions and stays closed, whatever happened  *)
(* since (SubmitPrediction.ts:38-47).                                      *)
ConflictJustified ==
    \A r \in PredictionIds : submitReply[r] = 409 =>
      conflictStands(submitDto[r].userId, submitDto[r].matchId, r)

(* Every prediction on record carries a time of submission that is before  *)
(* the kickoff of its match, however late its INSERT was executed          *)
(* (SubmitPrediction.ts:37-38 and 54: one reading decides and is stored).  *)
AdmittedInTime ==
    \A id \in PredictionIds : stored(id) =>
      predictions[id].submittedAt < KickoffAt[predictions[id].matchId]

(* A close-out that answered 200 recorded the match as finished and left   *)
(* no prediction unscored that was on record when it did, whichever other  *)
(* close-outs and failures ran alongside (ScoreMatchPredictions.ts:30-42). *)
CompletedCloseOut ==
    \A c \in ScoreRequests : scoreReply[c] = 200 =>
      /\ matches[scoreDto[c].matchId].status = "FINISHED"
      /\ \A id \in closing[c] : awarded(id)

(* Every close-out of the match was given the same final score.            *)
closeOutsAgree(m) ==
    \A c, d \in ScoreRequests :
      /\ scoreDto[c] # Null
      /\ scoreDto[d] # Null
      /\ scoreDto[c].matchId = m
      /\ scoreDto[d].matchId = m
      => scoreDto[c].finalScore = scoreDto[d].finalScore

(* Where every close-out of a match was given the same final score, points *)
(* on record mean that the match is finished and are what the policy gives *)
(* for the score on record, after any retry, overlap, failure or exit      *)
(* (ScoreMatchPredictions.ts:34-39).                                       *)
AwardsAgree ==
    \A id \in PredictionIds : awarded(id) =>
      LET m == predictions[id].matchId IN
        closeOutsAgree(m) =>
          /\ matches[m].status = "FINISHED"
          /\ predictions[id].points =
               compute(DEFAULT_SCORING_RULES, predictions[id].predicted,
                       matches[m].finalScore)

(* A prediction whose points can still be overwritten is in the unwritten  *)
(* part of some batch; outside of every batch its points are final.        *)
settled(id) == awarded(id) /\ \A c \in ScoreRequests : id \notin todo[c]

(* Points that no batch still holds never change again: what is left of    *)
(* "can only be done once" (Prediction.ts:47) when close-outs overlap.     *)
SettledAwardIsFinal ==
    [][\A id \in PredictionIds : settled(id) =>
         predictions'[id] = predictions[id] /\ settled(id)']_vars

(* A match is called off for good once no close-out holds what it read of  *)
(* the match before: such a one still saves it as finished.                *)
calledOff(m) ==
    /\ matches[m].status = "CANCELLED"
    /\ \A c \in ScoreRequests : scorePc[c] \in {"saveMatch", "lateSaveMatch"} =>
         scoreDto[c].matchId # m

(* From then on no close-out, late, repeated or resumed, changes the match *)
(* again, and no prediction for it ever has points: "Cannot finish a       *)
(* cancelled match" (Match.ts:64), although the entity that checks it is a *)
(* copy of the row.                                                        *)
CallOffIsFinal ==
    [][\A m \in Matches : calledOff(m) =>
         /\ matches'[m] = matches[m] /\ calledOff(m)'
         /\ \A id \in PredictionIds : awarded(id)' => predictions'[id].matchId # m]_vars

(* Once points have been awarded, the prediction is locked (Prediction.ts: *)
(* 9).  The entity enforces it, for one copy of the row at a time.         *)
AwardIsFinal ==
    [][\A id \in PredictionIds : awarded(id) =>
         predictions'[id] = predictions[id]]_vars

(* A close-out scores every prediction for its match (README.md:224,       *)
(* scoring-service/server.ts:4-5).                                         *)
CloseOutScoresAll ==
    \A c \in ScoreRequests : scoreReply[c] = 200 =>
      \A id \in PredictionIds :
        stored(id) /\ predictions[id].matchId = scoreDto[c].matchId =>
          awarded(id) \/ \E r \in PredictionIds : submitInFlight(r)

(* Closing out a match that exists and is not cancelled records its final  *)
(* score (ScoreMatchPredictions.ts:12): without a failure of the database  *)
(* it is not answered with an internal error.                              *)
FinalScoreIsRecorded ==
    \A c \in ScoreRequests :
      scoreReply[c] = 500 /\ faults = 0 /\ scoreDto[c].matchId \in Matches =>
        matches[scoreDto[c].matchId].status \in {"CANCELLED", "FINISHED"}

(* Every prediction on record when a close-out recorded the final score    *)
(* gets its points, unless that close-out was given up.                    *)
BatchDrains ==
    \A c \in ScoreRequests, id \in PredictionIds :
      closing[c] # Null /\ id \in closing[c] ~>
        awarded(id) \/ (scorePc[c] \in {"done", "lateSavePoints"}
                          /\ scoreReply[c] # 200)
-----------------------------------------------------------------------------
(* The ledger that the tables, the batches in progress and the close-outs  *)
(* that recorded a score stand for.                                        *)
ledgerEntry(id) ==
    IF stored(id)
      THEN [userId    |-> predictions[id].userId,
            matchId   |-> predictions[id].matchId,
            predicted |-> predictions[id].predicted,
            points    |-> predictions[id].points]
      ELSE Null

LedgerEntries == [userId : UserIds, matchId : MatchIds, predicted : Scores,
                  points : Nat \cup {Null}]

ASSUME NullIsNoLedgerEntry == Null \notin LedgerEntries

Ledger == INSTANCE PredictionLedger WITH
    Ids         <- PredictionIds,
    Predicted   <- {body \in Bodies : validGoals(body)},
    FinalScores <- {result \in Results : validFinalScore(result)},
    entries     <- [id \in PredictionIds |-> ledgerEntry(id)],
    announced   <- [m \in MatchIds |->
                      {scoreDto[c].finalScore : c \in {d \in ScoreRequests :
                         closing[d] # Null /\ scoreDto[d].matchId = m}}],
    final       <- {id \in PredictionIds : settled(id)}

(* Every behaviour of the pool, with its races, failures and exits, is one *)
(* of the ledger: what SubmitPrediction and ScoreMatchPredictions do to    *)
(* the tables adds up to what a participant is promised.                   *)
RefinesLedger == Ledger!Spec
=============================================================================
