----------------------- MODULE ScoreMatchPredictions -----------------------
(***************************************************************************)
(* POST /matches/:matchId/score: the use case ScoreMatchPredictions behind *)
(* the scoring-service, the close-out of a match.  As in SubmitPrediction, *)
(* one action runs from one await to the next, and close-outs interleave.  *)
(*                                                                         *)
(* A close-out reads the predictions of its match once and then writes     *)
(* them one statement at a time; todo is the part of that batch that is    *)
(* still to be written.  The batch has no order: the SELECT has no ORDER   *)
(* BY.  There is no transaction around the whole, so a failure or an exit  *)
(* leaves the batch half written.                                          *)
(***************************************************************************)
EXTENDS PgRepositories

CONSTANTS
    ScoreRequests,      \* the requests to close out a match
    Results             \* the final scores their bodies may carry

ASSUME ResultAssumption == Results \subseteq [home : Int, away : Int]

VARIABLES
    scorePc,            \* the step each request is at
    scoreDto,           \* its validated parameters
    todo,               \* ids of the batch it has not yet saved
    scoreReply,         \* the HTTP status it was answered with
    closing             \* history: the rows of its match when it saved it

scoreVars == <<scorePc, scoreDto, todo, scoreReply, closing>>

ScoreDtos == [matchId : MatchIds, finalScore : Scores]

ASSUME NullIsNoScoreDto ==
    Null \notin ScoreDtos /\ \A S \in SUBSET PredictionIds : S # Null

ScoreSteps == {"idle", "findMatch", "saveMatch", "lateSaveMatch",
               "findPredictions", "savePoints", "lateSavePoints", "done"}

ScoreReplies == {Null, 200, 400, 404, 500}

scoreInFlight(c) ==
    scorePc[c] \in {"findMatch", "saveMatch", "findPredictions", "savePoints"}

(* The zod schema of the body; the id in the path is not validated.        *)
validFinalScore(score) == score.home \in 0..99 /\ score.away \in 0..99

ScoreInit ==
    /\ scorePc    = [c \in ScoreRequests |-> "idle"]
    /\ scoreDto   = [c \in ScoreRequests |-> Null]
    /\ todo       = [c \in ScoreRequests |-> {}]
    /\ scoreReply = [c \in ScoreRequests |-> Null]
    /\ closing    = [c \in ScoreRequests |-> Null]

-----------------------------------------------------------------------------
scoreGoes(c, step) == scorePc' = [scorePc EXCEPT ![c] = step]

scoreAnswers(c, code) ==
    /\ scoreGoes(c, "done")
    /\ scoreReply' = [scoreReply EXCEPT ![c] = code]

scoreProceeds(c, step) == scoreGoes(c, step) /\ UNCHANGED scoreReply

ScoreArrives(c) ==
    /\ scorePc[c] = "idle"
    /\ \E m \in MatchIds, result \in Results :
         IF validFinalScore(result)
           THEN /\ scoreDto' = [scoreDto EXCEPT ![c] =
                                  [matchId |-> m, finalScore |-> result]]
                /\ scoreProceeds(c, "findMatch")
           ELSE /\ scoreAnswers(c, 400)
                /\ UNCHANGED scoreDto
    /\ UNCHANGED <<todo, closing, matches, predictions>>

(* findById, then match.finish on the entity: what is saved next is        *)
(* decided by the status read here.  Only EntityNotFoundError has a code   *)
(* of its own, so a cancelled match and an unreadable id are a 500.        *)
FindMatchToScore(c) ==
    /\ scorePc[c] = "findMatch"
    /\ LET m == scoreDto[c].matchId IN
         IF matchFound(m) /\ canFinish(toDomainStatus(m))
           THEN scoreProceeds(c, "saveMatch")
           ELSE scoreAnswers(c, IF matchFound(m) \/ m \in NonUuids THEN 500 ELSE 404)
    /\ UNCHANGED <<scoreDto, todo, closing, matches, predictions>>

(* The UPDATE of the match with status FINISHED and the final score.       *)
SaveMatch(c) ==
    /\ scorePc[c] \in {"saveMatch", "lateSaveMatch"}
    /\ LET m == scoreDto[c].matchId IN
         IF saveMatchSucceeds
           THEN /\ saveMatch(m, finish(scoreDto[c].finalScore))
                /\ closing' = [closing EXCEPT ![c] = findByMatch(m)]
           ELSE UNCHANGED <<matches, closing>>
    /\ IF scorePc[c] = "lateSaveMatch"
         THEN scoreProceeds(c, "done")
         ELSE IF saveMatchSucceeds
                THEN scoreProceeds(c, "findPredictions")
                ELSE scoreAnswers(c, 500)
    /\ UNCHANGED <<scoreDto, todo, predictions>>

\* mutant: scored rows are not skipped
FindAllPredictions(c) ==
    /\ scorePc[c] = "findPredictions"
    /\ todo' = [todo EXCEPT ![c] = findByMatch(scoreDto[c].matchId)]
    /\ scoreProceeds(c, "savePoints")
    /\ UNCHANGED <<scoreDto, closing, matches, predictions>>

(* findByMatch; the loop skips the rows that are scored in this snapshot.  *)
FindPredictions(c) ==
    /\ scorePc[c] = "findPredictions"
    /\ todo' = [todo EXCEPT ![c] = {id \in findByMatch(scoreDto[c].matchId) :
                                      ~isScored(predictions[id])}]
    /\ scoreProceeds(c, "savePoints")
    /\ UNCHANGED <<scoreDto, closing, matches, predictions>>

earnedPoints(c, id) ==
    compute(DEFAULT_SCORING_RULES, predictions[id].predicted,
            scoreDto[c].finalScore)

(* One turn of the loop.  awardPoints checks the entity of the snapshot,   *)
(* which is unscored; the UPDATE checks nothing.                           *)
SavePoints(c) ==
    /\ scorePc[c] \in {"savePoints", "lateSavePoints"}
    /\ \E id \in todo[c] :
         /\ updatePoints(id, earnedPoints(c, id))
         /\ todo' = [todo EXCEPT ![c] = @ \ {id}]
    /\ UNCHANGED <<scorePc, scoreDto, scoreReply, closing, matches>>

\* mutant: the answer does not wait for the loop
ScoreRepliedEarly(c) ==
    /\ scorePc[c] = "savePoints"
    /\ scoreAnswers(c, 200)
    /\ UNCHANGED <<scoreDto, todo, closing, matches, predictions>>

ScoreReplied(c) ==
    /\ scorePc[c] = "savePoints"
    /\ todo[c] = {}
    /\ scoreAnswers(c, 200)
    /\ UNCHANGED <<scoreDto, todo, closing, matches, predictions>>

-----------------------------------------------------------------------------
scoreGivenUp(step) == CASE step = "saveMatch"  -> "lateSaveMatch"
                        [] step = "savePoints" -> "lateSavePoints"
                        [] OTHER               -> "done"

(* When a request is given up, at most the one UPDATE it had sent is       *)
(* still to come; the rest of its batch is never written.                  *)
sentUpdates(c) == {{}} \cup {{id} : id \in todo[c]}

ScoreQueryFails(c) ==
    /\ scoreInFlight(c)
    /\ scorePc[c] = "savePoints" => todo[c] # {}
    /\ scoreGoes(c, scoreGivenUp(scorePc[c]))
    /\ \E sent \in sentUpdates(c) : todo' = [todo EXCEPT ![c] = sent]
    /\ scoreReply' = [scoreReply EXCEPT ![c] = 500]
    /\ UNCHANGED <<scoreDto, closing, matches, predictions>>

(* SIGTERM to the scoring-service: no request in flight is answered.       *)
ScoringServiceExits ==
    /\ \E c \in ScoreRequests : scoreInFlight(c)
    /\ scorePc' = [c \in ScoreRequests |->
                     IF scoreInFlight(c) THEN scoreGivenUp(scorePc[c])
                                         ELSE scorePc[c]]
    /\ todo' \in [ScoreRequests -> SUBSET PredictionIds]
    /\ \A c \in ScoreRequests :
         IF scoreInFlight(c) THEN todo'[c] \in sentUpdates(c)
                             ELSE todo'[c] = todo[c]
    /\ UNCHANGED <<scoreDto, scoreReply, closing, matches, predictions>>

ScoreStep(c) ==
    \/ FindMatchToScore(c)
    \/ scorePc[c] = "saveMatch" /\ SaveMatch(c)
    \/ FindPredictions(c)
    \/ scorePc[c] = "savePoints" /\ SavePoints(c)
    \/ ScoreReplied(c)
=============================================================================
