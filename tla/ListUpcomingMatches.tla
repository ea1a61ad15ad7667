------------------------- MODULE ListUpcomingMatches ------------------------
(***************************************************************************)
(* GET /matches/upcoming: the use case ListUpcomingMatches, the Redis      *)
(* cache in front of the table, and the three callers that share both: the *)
(* matches-service, the route of the BFF and its page.                     *)
(*                                                                         *)
(* A request is a sequential process as in SubmitPrediction: one action is *)
(* what runs from one await to the next.  A slot that answered serves the  *)
(* next request.  A listing is a set, its order being that of KickoffAt.   *)
(***************************************************************************)
EXTENDS PgRepositories

CONSTANTS
    ListRequests,       \* slots for requests in flight
    LimitParams,        \* what ?limit= may hold; Null where it is absent
    NaN,                \* what Number() makes of a text that is no number
    CacheTtl            \* CACHE_TTL_SECONDS, in units of the clock

ASSUME ListAssumption ==
    /\ LimitParams \subseteq Int \cup {NaN, Null}
    /\ NaN \notin Int
    /\ CacheTtl \in Nat \ {0}

VARIABLES
    cache,              \* the keys of Redis that are set, with their value
    listPc,             \* the step each request is at
    listLimit,          \* its local variable limit, and the key it stands for
    fetched,            \* the listing it read from the table, and when
    answer,             \* what this step answered, and to which limit
    slowestFill,        \* history: the longest time from a read to its set
    closedAt            \* history: when each match left the upcoming ones

listVars == <<cache, listPc, listLimit, fetched, slowestFill>>

ListSteps == {"idle", "get", "find", "set", "lateSet"}

listInFlight(l) == listPc[l] \in {"get", "find", "set"}

(* The matches-service passes on any number; the route of the BFF clamps,  *)
(* Math.min and Math.max keeping NaN; the page asks for 20.  The use case  *)
(* replaces undefined, and only that, by 10.                               *)
serviceLimit(param) == IF param = Null THEN 10 ELSE param

routeLimit(param) ==
    CASE param = Null -> 10
      [] param = NaN  -> NaN
      [] OTHER        -> IF param < 1 THEN 1 ELSE IF param > 100 THEN 100 ELSE param

limitsAsked == {serviceLimit(param) : param \in LimitParams}
                 \cup {routeLimit(param) : param \in LimitParams} \cup {20}

\* mutant: all listings share one key
sharedKey(limit) == 20

(* Keys carry the limit.                                                   *)
cacheKey(limit) == limit

(* PgMatchRepository.findUpcoming: the first open matches by kickoff, ties *)
(* in any order.  PostgreSQL refuses a LIMIT that is negative or no number.*)
isUpcoming(m) == matches[m].status = "SCHEDULED" /\ KickoffAt[m] > now

upcoming == {m \in Matches : isUpcoming(m)}

validLimit(limit) == limit # NaN /\ limit >= 0

\* mutant: ORDER BY kickoff_at DESC
isTail(S, limit) ==
    /\ Cardinality(S) =
         IF Cardinality(upcoming) < limit THEN Cardinality(upcoming) ELSE limit
    /\ \A m \in S, other \in upcoming \ S : KickoffAt[m] >= KickoffAt[other]

isHead(S, limit) ==
    /\ Cardinality(S) =
         IF Cardinality(upcoming) < limit THEN Cardinality(upcoming) ELSE limit
    /\ \A m \in S, other \in upcoming \ S : KickoffAt[m] <= KickoffAt[other]

ListInit ==
    /\ cache       = [limit \in limitsAsked |-> Null]
    /\ listPc      = [l \in ListRequests |-> "idle"]
    /\ listLimit   = [l \in ListRequests |-> Null]
    /\ fetched     = [l \in ListRequests |-> Null]
    /\ answer      = Null
    /\ slowestFill = 0
    /\ closedAt    = [m \in Matches |-> IF isUpcoming(m) THEN Null ELSE 0]

-----------------------------------------------------------------------------
listGoes(l, step) == listPc' = [listPc EXCEPT ![l] = step]

listEnds(l) ==
    /\ listGoes(l, "idle")
    /\ listLimit' = [listLimit EXCEPT ![l] = Null]
    /\ fetched' = [fetched EXCEPT ![l] = Null]

(* 200 with a listing, or 500.                                             *)
listAnswers(l, reply, listing) ==
    answer' = [reply |-> reply, limit |-> listLimit[l], listing |-> listing]

listProceeds(l, step) == listGoes(l, step) /\ UNCHANGED listLimit /\ answer' = Null

ListArrives(l) ==
    /\ listPc[l] = "idle"
    /\ \E limit \in limitsAsked : listLimit' = [listLimit EXCEPT ![l] = limit]
    /\ listGoes(l, "get")
    /\ answer' = Null
    /\ UNCHANGED <<cache, fetched, slowestFill>>

CacheGet(l) ==
    /\ listPc[l] = "get"
    /\ LET key == cacheKey(listLimit[l]) IN
         IF cache[key] # Null
           THEN listEnds(l) /\ listAnswers(l, 200, cache[key].listing)
           ELSE listProceeds(l, "find") /\ UNCHANGED fetched
    /\ UNCHANGED <<cache, slowestFill>>

FindUpcoming(l) ==
    /\ listPc[l] = "find"
    /\ IF validLimit(listLimit[l])
         THEN /\ \E S \in SUBSET upcoming :
                   /\ isHead(S, listLimit[l])
                   /\ fetched' = [fetched EXCEPT
                                    ![l] = [listing |-> S, at |-> now]]
              /\ listProceeds(l, "set")
         ELSE listEnds(l) /\ listAnswers(l, 500, {})
    /\ UNCHANGED <<cache, slowestFill>>

\* mutant: RedisCacheStore.set without a time to live never expires
entryForever(listing) == [listing |-> listing, expiresAt |-> now + 1000]

entry(listing) == [listing |-> listing, expiresAt |-> now + CacheTtl]

(* SET key value EX 30, whatever the key holds by now.                     *)
CacheSet(l) ==
    /\ listPc[l] \in {"set", "lateSet"}
    /\ cache' = [cache EXCEPT
                   ![cacheKey(listLimit[l])] = entry(fetched[l].listing)]
    /\ IF listPc[l] = "set"
         THEN listAnswers(l, 200, fetched[l].listing)
         ELSE answer' = Null
    /\ listEnds(l)
    /\ slowestFill' = LET fill == now - fetched[l].at IN
                        IF fill > slowestFill THEN fill ELSE slowestFill

-----------------------------------------------------------------------------
\* mutant: the cache is set in a finally clause, read or not
listGivenUpAnyhow(l) ==
    \/ listEnds(l)
    \/ /\ listGoes(l, "lateSet")
       /\ UNCHANGED <<listLimit, fetched>>

(* A request is given up after it sent its SET, or before.                 *)
listGivenUp(l) ==
    \/ listEnds(l)
    \/ /\ listPc[l] = "set"
       /\ listGoes(l, "lateSet")
       /\ UNCHANGED <<listLimit, fetched>>

(* GET, SELECT or SET rejects.  A failing cache is no miss: it fails the   *)
(* request, also where the listing was already read.                       *)
ListQueryFails(l) ==
    /\ listInFlight(l)
    /\ listGivenUp(l)
    /\ listAnswers(l, 500, {})
    /\ UNCHANGED <<cache, slowestFill>>

(* The process that serves the request exits.                              *)
ListServiceExits(l) ==
    /\ listInFlight(l)
    /\ listGivenUp(l)
    /\ answer' = Null
    /\ UNCHANGED <<cache, slowestFill>>

(* Redis drops a key when its time to live has passed.                     *)
keysExpire ==
    cache' = [key \in limitsAsked |->
                IF cache[key] # Null /\ now' >= cache[key].expiresAt
                  THEN Null ELSE cache[key]]

(* Redis may lose a key before: it restarts or evicts.                            *)
CacheLoses(key) ==
    /\ cache[key] # Null
    /\ cache' = [cache EXCEPT ![key] = Null]
    /\ answer' = Null
    /\ UNCHANGED <<listPc, listLimit, fetched, slowestFill>>
=============================================================================
