-------------------------- MODULE SubmitPrediction --------------------------
(***************************************************************************)
(* POST /predictions: the use case SubmitPrediction behind the two routes  *)
(* that call it, the predictions-service and the Next.js BFF.  Their       *)
(* handlers are the same code up to the wording of the answers.            *)
(*                                                                         *)
(* A request is a sequential process that gives up the event loop at each  *)
(* await, so one action is what runs from one await to the next.  Requests *)
(* of both front ends interleave at those points.  submitPc names the step *)
(* that is due.  A statement that was already sent when its request was    *)
(* given up (a lost connection, a process that exited) may still be        *)
(* executed: that is "lateSave".                                           *)
(***************************************************************************)
EXTENDS PgRepositories

CONSTANTS Bodies        \* the scores a request body may carry, valid or not

ASSUME BodyAssumption == Bodies \subseteq [home : Int, away : Int]

VARIABLES
    submitPc,           \* the step each request is at
    submitDto,          \* its validated body
    statusRead,         \* the status of the match entity it holds
    submittedAt,        \* its local variable now
    submitReply         \* the HTTP status it was answered with

submitVars == <<submitPc, submitDto, statusRead, submittedAt, submitReply>>

SubmitDtos == [userId : UserIds, matchId : MatchIds, predicted : Scores]

ASSUME NullIsNoSubmitDto == Null \notin SubmitDtos

SubmitSteps == {"idle", "findUser", "findMatch", "checkWindow",
                "findExisting", "save", "lateSave", "done"}

SubmitReplies == {Null, 201, 400, 404, 409, 500}

submitInFlight(r) == submitPc[r] \notin {"idle", "lateSave", "done"}

(* The zod schema of the body: two integers from 0 to 99 (and two uuids,   *)
(* which SubmitArrives leaves to the choice of the ids).                   *)
\* mutant: min(0) is missing from the schema
validUpToMax(score) == score.home \in -1..99 /\ score.away \in -1..99

validGoals(score) == score.home \in 0..99 /\ score.away \in 0..99

SubmitInit ==
    /\ now = 0
    /\ submitPc    = [r \in PredictionIds |-> "idle"]
    /\ submitDto   = [r \in PredictionIds |-> Null]
    /\ statusRead  = [r \in PredictionIds |-> Null]
    /\ submittedAt = [r \in PredictionIds |-> Null]
    /\ submitReply = [r \in PredictionIds |-> Null]

-----------------------------------------------------------------------------
submitGoes(r, step) == submitPc' = [submitPc EXCEPT ![r] = step]

submitAnswers(r, code) ==
    /\ submitGoes(r, "done")
    /\ submitReply' = [submitReply EXCEPT ![r] = code]

submitProceeds(r, step) == submitGoes(r, step) /\ UNCHANGED submitReply

(* The handler validates the body, then calls execute.                     *)
SubmitArrives(r) ==
    /\ submitPc[r] = "idle"
    /\ \E u \in UserIds, m \in MatchIds \ NonUuids, body \in Bodies :
         IF validGoals(body)
           THEN /\ submitDto' = [submitDto EXCEPT ![r] =
                      [userId |-> u, matchId |-> m, predicted |-> body]]
                /\ submitProceeds(r, "findUser")
           ELSE /\ submitAnswers(r, 400)
                /\ UNCHANGED submitDto
    /\ UNCHANGED <<statusRead, submittedAt, matches, predictions>>

FindUser(r) ==
    /\ submitPc[r] = "findUser"
    /\ IF userFound(submitDto[r].userId)
         THEN submitProceeds(r, "findMatch")
         ELSE submitAnswers(r, 404)
    /\ UNCHANGED <<submitDto, statusRead, submittedAt, matches, predictions>>

FindMatch(r) ==
    /\ submitPc[r] = "findMatch"
    /\ IF matchFound(submitDto[r].matchId)
         THEN /\ statusRead' = [statusRead EXCEPT
                                  ![r] = toDomainStatus(submitDto[r].matchId)]
              /\ submitProceeds(r, "checkWindow")
         ELSE /\ submitAnswers(r, 404)
              /\ UNCHANGED statusRead
    /\ UNCHANGED <<submitDto, submittedAt, matches, predictions>>

\* mutant: the window is closed one unit of time early
CheckWindowEarly(r) ==
    /\ submitPc[r] = "checkWindow"
    /\ IF acceptsPredictions(statusRead[r], KickoffAt[submitDto[r].matchId], now + 1)
         THEN /\ submittedAt' = [submittedAt EXCEPT ![r] = now]
              /\ submitProceeds(r, "findExisting")
         ELSE /\ submitAnswers(r, 409)
              /\ UNCHANGED submittedAt
    /\ statusRead' = [statusRead EXCEPT ![r] = Null]
    /\ UNCHANGED <<submitDto, matches, predictions>>

(* The clock is read once; the value decides and is stored with the row.   *)
(* The status it is paired with is the one that was read before.           *)
CheckWindow(r) ==
    /\ submitPc[r] = "checkWindow"
    /\ IF acceptsPredictions(statusRead[r], KickoffAt[submitDto[r].matchId], now)
         THEN /\ submittedAt' = [submittedAt EXCEPT ![r] = now]
              /\ submitProceeds(r, "findExisting")
         ELSE /\ submitAnswers(r, 409)
              /\ UNCHANGED submittedAt
    /\ statusRead' = [statusRead EXCEPT ![r] = Null]
    /\ UNCHANGED <<submitDto, matches, predictions>>

FindExisting(r) ==
    /\ submitPc[r] = "findExisting"
    /\ IF findByUserAndMatch(submitDto[r].userId, submitDto[r].matchId) = {}
         THEN submitProceeds(r, "save")
         ELSE submitAnswers(r, 409)
    /\ UNCHANGED <<submitDto, statusRead, submittedAt, matches, predictions>>

\* mutant: the clock is read again for the row
newPredictionNow(r) ==
    [userId      |-> submitDto[r].userId,
     matchId     |-> submitDto[r].matchId,
     predicted   |-> submitDto[r].predicted,
     points      |-> Null,
     submittedAt |-> now]

newPrediction(r) ==
    [userId      |-> submitDto[r].userId,
     matchId     |-> submitDto[r].matchId,
     predicted   |-> submitDto[r].predicted,
     points      |-> Null,
     submittedAt |-> submittedAt[r]]

\* mutant: ON CONFLICT DO NOTHING, a refused row is answered like a stored one
SaveIgnoringConflict(r) ==
    /\ submitPc[r] \in {"save", "lateSave"}
    /\ IF insertSucceeds(newPrediction(r))
         THEN insertPrediction(r, newPrediction(r))
         ELSE UNCHANGED predictions
    /\ IF submitPc[r] = "save" THEN submitAnswers(r, 201)
                               ELSE submitProceeds(r, "done")
    /\ UNCHANGED <<submitDto, statusRead, submittedAt, matches>>

(* The INSERT.  A unique violation is no BusinessRuleViolationError, so it *)
(* is answered with 500, not 409.                                          *)
SavePrediction(r) ==
    /\ submitPc[r] \in {"save", "lateSave"}
    /\ IF insertSucceeds(newPrediction(r))
         THEN insertPrediction(r, newPrediction(r))
         ELSE UNCHANGED predictions
    /\ IF submitPc[r] = "save"
         THEN submitAnswers(r, IF insertSucceeds(newPrediction(r))
                                 THEN 201 ELSE 500)
         ELSE submitProceeds(r, "done")
    /\ UNCHANGED <<submitDto, statusRead, submittedAt, matches>>

-----------------------------------------------------------------------------
(* A request is given up after it sent its INSERT, or before.              *)
submitGivenUp(step) == IF step = "save" THEN "lateSave" ELSE "done"

(* A query rejects (connection lost, timeout, unreadable row): the handler *)
(* answers 500 whether or not the statement was or will be executed.       *)
SubmitQueryFails(r) ==
    /\ submitInFlight(r)
    /\ submitPc[r] # "checkWindow"
    /\ submitGoes(r, submitGivenUp(submitPc[r]))
    /\ submitReply' = [submitReply EXCEPT ![r] = 500]
    /\ UNCHANGED <<submitDto, statusRead, submittedAt, matches, predictions>>

(* startServer exits the process on SIGTERM at once, so some requests in   *)
(* flight, those of the front end that stops, are never answered.          *)
FrontEndExits(S) ==
    /\ S # {}
    /\ \A r \in S : submitInFlight(r)
    /\ submitPc' = [r \in PredictionIds |->
                      IF r \in S THEN submitGivenUp(submitPc[r]) ELSE submitPc[r]]
    /\ UNCHANGED <<submitDto, statusRead, submittedAt, submitReply,
                   matches, predictions>>

SubmitStep(r) ==
    \/ FindUser(r)
    \/ FindMatch(r)
    \/ CheckWindow(r)
    \/ FindExisting(r)
    \/ submitPc[r] = "save" /\ SavePrediction(r)
=============================================================================
