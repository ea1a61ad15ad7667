--------------------------- MODULE PgRepositories ---------------------------
(***************************************************************************)
(* The shared PostgreSQL database and the repositories that read and write *)
(* it (src/src/infrastructure/repositories).  Every method is one SQL      *)
(* statement in its own implicit transaction, so each operator here is     *)
(* used by one atomic step; nothing holds a lock between two statements.   *)
(*                                                                         *)
(* A prediction's id is generated by the request that submits it, so a     *)
(* request and the prediction it may store share one identifier.           *)
(***************************************************************************)
EXTENDS Domain, FiniteSets

CONSTANTS
    UserIds,                \* user ids a request may carry
    Users,                  \* the ones that have a row in users
    MatchIds,               \* match ids a request may carry
    Matches,                \* the ones that have a row in matches
    NonUuids,               \* ids that PostgreSQL cannot cast to uuid
    KickoffAt,              \* matches.kickoff_at
    InitialStatuses,        \* texts matches.status may hold at the start
    PredictionIds,          \* ids handed out by UuidGenerator, one per request
    ApiFootballIdRequired   \* matches.api_football_id is NOT NULL, no default

ASSUME RepositoryAssumption ==
    /\ Users \subseteq UserIds
    /\ Matches \subseteq MatchIds
    /\ NonUuids \subseteq MatchIds \ Matches
    /\ KickoffAt \in [Matches -> Nat]
    /\ "FINISHED" \notin InitialStatuses
    /\ ApiFootballIdRequired \in BOOLEAN

VARIABLES
    now,            \* the time, for Clock.now(), SQL's now() and Redis alike
    matches,        \* the matches table, by id
    predictions     \* the predictions table, by id; Null where there is no row

(* The status column was a VARCHAR before migration 0002, so a row may hold *)
(* a text that is no MatchStatus.                                          *)
MatchRows == [status     : MATCH_STATUSES \cup InitialStatuses,
              finalScore : Scores \cup {Null}]

PredictionRows == [userId : UserIds, matchId : MatchIds, predicted : Scores,
                   points : Nat \cup {Null}, submittedAt : Nat]

ASSUME NullIsNoRow == Null \notin PredictionRows

stored(id) == predictions[id] # Null

awarded(id) == stored(id) /\ isScored(predictions[id])

-----------------------------------------------------------------------------
(* PgUserRepository.findById and PgMatchRepository.findById return a row.  *)
userFound(u) == u \in Users

matchFound(m) == m \in Matches

(* PgMatchRepository.toDomain: an unknown status is read as SCHEDULED.     *)
toDomainStatus(m) ==
    IF matches[m].status \in MATCH_STATUSES THEN matches[m].status
                                            ELSE "SCHEDULED"

(* PgMatchRepository.save is an upsert that lists no api_football_id.      *)
(* PostgreSQL checks NOT NULL on the proposed row before it looks for the  *)
(* conflict on id, so under that constraint the statement always fails.    *)
saveMatchSucceeds == ~ApiFootballIdRequired

saveMatch(m, match) == matches' = [matches EXCEPT ![m] = match]

(* PgPredictionRepository.findByUserAndMatch and findByMatch.              *)
findByUserAndMatch(u, m) ==
    {id \in PredictionIds : stored(id) /\ predictions[id].userId = u
                                       /\ predictions[id].matchId = m}

findByMatch(m) ==
    {id \in PredictionIds : stored(id) /\ predictions[id].matchId = m}

(* PgPredictionRepository.save on an id that has no row: an INSERT, which  *)
(* UNIQUE (user_id, match_id) rejects when the pair is taken.              *)
\* mutant: the table has no unique index
insertSucceedsAlways(row) == TRUE

insertSucceeds(row) == findByUserAndMatch(row.userId, row.matchId) = {}

insertPrediction(id, row) == predictions' = [predictions EXCEPT ![id] = row]

(* PgPredictionRepository.save on an id that has a row: ON CONFLICT (id)   *)
(* DO UPDATE SET points_awarded, whatever the column holds by now.         *)
updatePoints(id, points) ==
    predictions' = [predictions EXCEPT
                      ![id] = awardPoints(predictions[id], points)]
=============================================================================
