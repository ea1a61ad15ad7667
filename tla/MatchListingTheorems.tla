------------------------ MODULE MatchListingTheorems ------------------------
(***************************************************************************)
(* Proofs about MatchListing for any matches, requests, limits, times to   *)
(* live and bounds.                                                        *)
(***************************************************************************)
EXTENDS MatchListing, FiniteSetTheorems, TLAPS

(* A limit that is asked for is an integer or NaN.                         *)
LEMMA LimitsAreNumbers == limitsAsked \subseteq Int \cup {NaN}
BY ListAssumption, SMT DEF limitsAsked, serviceLimit, routeLimit

(* What findUpcoming returns serves the limit it was called with.          *)
LEMMA HeadServes ==
  ASSUME NEW limit \in limitsAsked, validLimit(limit),
         NEW S \in SUBSET upcoming, isHead(S, limit)
  PROVE  serves(S, limit)
<1>1. limit \in Nat
  BY LimitsAreNumbers, ListAssumption DEF validLimit
<1>2. IsFiniteSet(upcoming) /\ Cardinality(upcoming) \in Nat
  BY FiniteMatches, FS_Subset, FS_CardinalityType DEF upcoming
<1>3. Cardinality(S) \in Nat /\ Cardinality(S) <= Cardinality(upcoming)
  BY <1>2, FS_Subset, FS_CardinalityType
<1>4. ASSUME NEW m \in upcoming \ S PROVE Cardinality(S) = limit
  <2>1. Cardinality(S) # Cardinality(upcoming)
    BY <1>2, <1>4, FS_Subset
  <2>. QED
    BY <2>1 DEF isHead
<1>5. Cardinality(S) <= limit
  BY <1>1, <1>2, <1>3 DEF isHead
<1>. QED
  BY <1>4, <1>5 DEF serves, isHead

-----------------------------------------------------------------------------
(* No step of the pool takes the clock back or reopens a match.            *)
LEMMA PoolKeepsClosed ==
  ASSUME TablesTypeOK, Next
  PROVE  /\ TablesTypeOK'
         /\ now <= now'
         /\ \A m \in Matches : isUpcoming(m)' => isUpcoming(m)
<1>. USE DEF TablesTypeOK, isUpcoming
<1>1. CASE Tick
  <2>1. now \in Nat /\ now' = now + 1 /\ UNCHANGED <<matches, faults>>
    BY <1>1 DEF Tick
  <2>2. ASSUME NEW m \in Matches, isUpcoming(m)' PROVE isUpcoming(m)
    <3>1. KickoffAt[m] \in Nat
      BY RepositoryAssumption
    <3>. QED
      BY <2>1, <2>2, <3>1
  <2>. QED
    BY <2>1, <2>2
<1>2. CASE FixtureFeed
  <2>. PICK m \in Matches : KickOff(m) \/ CallOff(m)
    BY <1>2 DEF FixtureFeed
  <2>1. now' = now /\ faults' = faults
    BY <1>2 DEF FixtureFeed
  <2>2. CASE KickOff(m)
    BY <2>1, <2>2 DEF KickOff
  <2>3. CASE CallOff(m)
    BY <2>1, <2>3 DEF CallOff, cancel
  <2>. QED
    BY <2>2, <2>3
<1>3. CASE \E r \in PredictionIds : SubmitNext(r)
  BY <1>3 DEF SubmitNext, SubmitArrives, FindUser, FindMatch, CheckWindow,
              FindExisting, SavePrediction
<1>4. CASE \E c \in ScoreRequests : ScoreNext(c)
  <2>. PICK c \in ScoreRequests : ScoreNext(c)
    BY <1>4
  <2>1. CASE SaveMatch(c)
    BY <2>1 DEF ScoreNext, SaveMatch, saveMatch, finish
  <2>2. CASE ~SaveMatch(c)
    BY <2>2 DEF ScoreNext, ScoreArrives, FindMatchToScore, FindPredictions,
                SavePoints, ScoreReplied
  <2>. QED
    BY <2>1, <2>2
<1>5. CASE Fault
  BY <1>5 DEF Fault, SubmitFault, ScoreFault, SubmitQueryFails, FrontEndExits,
              ScoreQueryFails, ScoringServiceExits
<1>. QED
  BY <1>1, <1>2, <1>3, <1>4, <1>5 DEF Next

(* The history notes when a match closes, once and for good.               *)
LEMMA HistoryMoves ==
  ASSUME TablesTypeOK, ListingTypeOK, ClosedForGood, matchCloses,
         TablesTypeOK', now <= now',
         \A m \in Matches : isUpcoming(m)' => isUpcoming(m)
  PROVE  /\ closedAt' \in [Matches -> Nat \cup {Null}]
         /\ ClosedForGood'
         /\ \A m \in Matches : closedAt'[m] # Null =>
              closedAt'[m] = closedAt[m] \/ closedAt'[m] = now'
         /\ \A m \in Matches : closedAt[m] # Null => closedAt'[m] = closedAt[m]
         /\ upcoming' \subseteq upcoming
<1>1. closedAt \in [Matches -> Nat \cup {Null}] /\ now' \in Nat /\ now \in Nat
  BY DEF ListingTypeOK, TablesTypeOK
<1>2. closedAt' = [m \in Matches |->
                     IF closedAt[m] = Null /\ ~isUpcoming(m)' THEN now'
                                                             ELSE closedAt[m]]
  BY DEF matchCloses
<1>3. closedAt' \in [Matches -> Nat \cup {Null}]
  BY <1>1, <1>2
<1>4. now' # Null
  BY <1>1, NullAssumption
<1>5. ASSUME NEW m \in Matches
      PROVE  /\ closedAt'[m] = Null <=> isUpcoming(m)'
             /\ closedAt'[m] # Null => closedAt'[m] <= now'
  BY <1>1, <1>2, <1>4 DEF ClosedForGood
<1>6. ClosedForGood'
  BY <1>5 DEF ClosedForGood
<1>7. upcoming' \subseteq upcoming
  BY DEF upcoming
<1>. QED
  BY <1>1, <1>2, <1>3, <1>6, <1>7

(* Without a step of the pool it notes nothing.                            *)
LEMMA HistoryRests ==
  ASSUME ListingTypeOK, ClosedForGood, matchCloses, UNCHANGED <<matches, now>>
  PROVE  closedAt' = closedAt /\ upcoming' = upcoming
<1>1. ASSUME NEW m \in Matches PROVE isUpcoming(m)' <=> isUpcoming(m)
  BY DEF isUpcoming
<1>2. closedAt' = [m \in Matches |-> closedAt[m]]
  BY <1>1 DEF matchCloses, ClosedForGood
<1>. QED
  BY <1>1, <1>2 DEF ListingTypeOK, upcoming

-----------------------------------------------------------------------------
(* While the pool moves, what is in flight or in the cache stays true.     *)
LEMMA PoolStepKeeps ==
  ASSUME ListingIInv, PoolStep, matchCloses
  PROVE  ListingIInv'
<1>. USE DEF ListingIInv
<1>1. /\ TablesTypeOK' /\ now <= now'
      /\ \A m \in Matches : isUpcoming(m)' => isUpcoming(m)
  BY PoolKeepsClosed DEF PoolStep
<1>2. /\ now \in Nat /\ now' \in Nat /\ slowestFill \in Nat /\ CacheTtl \in Nat
      /\ closedAt \in [Matches -> Nat \cup {Null}]
  BY <1>1, ListAssumption DEF TablesTypeOK, ListingTypeOK
<1>3. /\ closedAt' \in [Matches -> Nat \cup {Null}]
      /\ ClosedForGood'
      /\ \A m \in Matches : closedAt'[m] # Null =>
           closedAt'[m] = closedAt[m] \/ closedAt'[m] = now'
      /\ \A m \in Matches : closedAt[m] # Null => closedAt'[m] = closedAt[m]
      /\ upcoming' \subseteq upcoming
  BY <1>1, HistoryMoves
<1>4. UNCHANGED <<listPc, listLimit, fetched, slowestFill>> /\ answer' = Null
  BY DEF PoolStep
<1>5. ASSUME NEW limit \in limitsAsked, cache'[limit] # Null
      PROVE  /\ cache'[limit] = cache[limit]
             /\ cache[limit] # Null
             /\ now' < cache[limit].expiresAt
  <2>1. cache[limit] \in [listing : SUBSET Matches, expiresAt : Nat] \cup {Null}
    BY DEF ListingTypeOK
  <2>. QED
    BY <1>2, <1>5, <2>1 DEF PoolStep, keysExpire
<1>6. ListingTypeOK'
  <2>1. cache' \in [limitsAsked ->
                      [listing : SUBSET Matches, expiresAt : Nat] \cup {Null}]
    BY DEF ListingTypeOK, PoolStep, keysExpire
  <2>2. \A limit \in limitsAsked : cache'[limit] # Null => validLimit(limit)
    BY <1>5 DEF ListingTypeOK
  <2>. QED
    BY <1>3, <1>4, <2>1, <2>2 DEF ListingTypeOK
<1>7. FetchedWasTrue'
  <2>. SUFFICES ASSUME NEW l \in ListRequests, listPc[l] \in {"set", "lateSet"}
                PROVE  /\ fetched[l].at <= now'
                       /\ serves(fetched[l].listing, listLimit[l])'
                       /\ \A m \in fetched[l].listing : closedAt'[m] # Null =>
                            fetched[l].at <= closedAt'[m]
    BY <1>4 DEF FetchedWasTrue
  <2>1. fetched[l] \in Listings
    BY DEF ListingTypeOK
  <2>2. fetched[l].at \in Nat /\ fetched[l].listing \subseteq Matches
    BY <2>1 DEF Listings
  <2>3. fetched[l].at <= now'
    BY <1>1, <1>2, <2>2 DEF FetchedWasTrue
  <2>4. serves(fetched[l].listing, listLimit[l])'
    BY <1>3, <1>4 DEF FetchedWasTrue, serves
  <2>5. ASSUME NEW m \in fetched[l].listing, closedAt'[m] # Null
        PROVE  fetched[l].at <= closedAt'[m]
    BY <1>3, <2>2, <2>3, <2>5 DEF FetchedWasTrue
  <2>. QED
    BY <2>3, <2>4, <2>5
<1>8. CachedWasTrue'
  <2>. SUFFICES ASSUME NEW limit \in limitsAsked, cache'[limit] # Null
                PROVE  /\ now' < cache'[limit].expiresAt
                       /\ cache'[limit].expiresAt <= now' + CacheTtl
                       /\ serves(cache[limit].listing, limit)'
                       /\ \A m \in cache'[limit].listing : closedAt'[m] # Null =>
                            cache'[limit].expiresAt
                              <= closedAt'[m] + CacheTtl + slowestFill
    BY <1>4 DEF CachedWasTrue
  <2>1. /\ cache[limit].listing \subseteq Matches
        /\ cache[limit].expiresAt \in Nat
    BY <1>5 DEF ListingTypeOK
  <2>2. cache[limit].expiresAt <= now' + CacheTtl
    BY <1>1, <1>2, <1>5, <2>1 DEF CachedWasTrue
  <2>3. serves(cache[limit].listing, limit)
    BY <1>5 DEF CachedWasTrue
  <2>4. serves(cache[limit].listing, limit)'
    BY <1>3, <1>5, <2>3 DEF serves
  <2>5. ASSUME NEW m \in cache[limit].listing, closedAt'[m] # Null
        PROVE  cache[limit].expiresAt <= closedAt'[m] + CacheTtl + slowestFill
    <3>1. CASE closedAt'[m] = now'
      BY <1>2, <2>1, <2>2, <3>1
    <3>2. CASE closedAt[m] # Null /\ closedAt'[m] = closedAt[m]
      BY <1>5, <3>2 DEF CachedWasTrue
    <3>. QED
      BY <1>3, <2>1, <2>5, <3>1, <3>2
  <2>. QED
    BY <1>5, <2>2, <2>4, <2>5
<1>9. AnswerIsComplete' /\ AnswerIsRecent'
  BY <1>4 DEF AnswerIsComplete, AnswerIsRecent, answered
<1>. QED
  BY <1>1, <1>3, <1>6, <1>7, <1>8, <1>9

-----------------------------------------------------------------------------
(* A step of a listing leaves the tables and the history alone.            *)
LEMMA TablesRest ==
  ASSUME ListingIInv, matchCloses, UNCHANGED <<matches, now>>, faults' \in Nat
  PROVE  /\ TablesTypeOK' /\ ClosedForGood'
         /\ UNCHANGED <<closedAt, upcoming>>
         /\ closedAt' \in [Matches -> Nat \cup {Null}]
<1>1. closedAt' = closedAt /\ upcoming' = upcoming
  BY HistoryRests DEF ListingIInv
<1>2. ClosedForGood'
  BY <1>1 DEF ListingIInv, ClosedForGood, isUpcoming
<1>. QED
  BY <1>1, <1>2 DEF ListingIInv, TablesTypeOK, ListingTypeOK

(* What is in flight stays true where a step leaves it alone.              *)
LEMMA FetchedRests ==
  ASSUME FetchedWasTrue, UNCHANGED <<now, closedAt, upcoming>>,
         \A l \in ListRequests : listPc'[l] \in {"set", "lateSet"} =>
           /\ listPc[l] \in {"set", "lateSet"}
           /\ fetched'[l] = fetched[l]
           /\ listLimit'[l] = listLimit[l]
  PROVE  FetchedWasTrue'
BY DEF FetchedWasTrue, serves

(* What is in the cache stays true where a step leaves it alone or drops   *)
(* it.                                                                     *)
LEMMA CachedRests ==
  ASSUME CachedWasTrue, UNCHANGED <<now, closedAt, upcoming, slowestFill>>,
         \A limit \in limitsAsked :
           cache'[limit] # Null => cache'[limit] = cache[limit]
  PROVE  CachedWasTrue'
BY DEF CachedWasTrue, serves

(* A request that ends holds nothing.                                      *)
LEMMA ListEndsKeeps ==
  ASSUME ListingTypeOK, NEW l \in ListRequests, listEnds(l)
  PROVE  /\ listPc' \in [ListRequests -> ListSteps]
         /\ listLimit' \in [ListRequests -> limitsAsked \cup {Null}]
         /\ fetched' \in [ListRequests -> Listings \cup {Null}]
         /\ \A k \in ListRequests :
              /\ listLimit'[k] \in IF listPc'[k] = "idle" THEN {Null} ELSE limitsAsked
              /\ fetched'[k] \in IF listPc'[k] \in {"set", "lateSet"}
                                   THEN Listings ELSE {Null}
              /\ listPc'[k] \in {"set", "lateSet"} =>
                   /\ listPc[k] \in {"set", "lateSet"}
                   /\ fetched'[k] = fetched[k]
                   /\ listLimit'[k] = listLimit[k]
BY DEF ListingTypeOK, listEnds, listGoes, ListSteps

(* A request that is given up holds nothing, or what it has sent.          *)
LEMMA ListGivenUpKeeps ==
  ASSUME ListingTypeOK, NEW l \in ListRequests, listGivenUp(l)
  PROVE  /\ listPc' \in [ListRequests -> ListSteps]
         /\ listLimit' \in [ListRequests -> limitsAsked \cup {Null}]
         /\ fetched' \in [ListRequests -> Listings \cup {Null}]
         /\ \A k \in ListRequests :
              /\ listLimit'[k] \in IF listPc'[k] = "idle" THEN {Null} ELSE limitsAsked
              /\ fetched'[k] \in IF listPc'[k] \in {"set", "lateSet"}
                                   THEN Listings ELSE {Null}
              /\ listPc'[k] \in {"set", "lateSet"} =>
                   /\ listPc[k] \in {"set", "lateSet"}
                   /\ fetched'[k] = fetched[k]
                   /\ listLimit'[k] = listLimit[k]
<1>1. CASE listEnds(l)
  BY <1>1, ListEndsKeeps
<1>2. CASE /\ listPc[l] = "set"
           /\ listGoes(l, "lateSet")
           /\ UNCHANGED <<listLimit, fetched>>
  BY <1>2 DEF ListingTypeOK, listGoes, ListSteps
<1>. QED
  BY <1>1, <1>2 DEF listGivenUp

(* A request arrives, and has nothing to set yet.                          *)
LEMMA ListArrivesKeeps ==
  ASSUME ListingIInv, matchCloses, UNCHANGED <<poolVars, faults>>,
         NEW l \in ListRequests, ListArrives(l)
  PROVE  ListingIInv'
<1>. USE DEF ListingIInv
<1>1. UNCHANGED <<matches, now, cache, fetched, slowestFill>> /\ faults' \in Nat
  BY DEF poolVars, TablesTypeOK, ListArrives
<1>2. /\ TablesTypeOK' /\ ClosedForGood' /\ UNCHANGED <<closedAt, upcoming>>
      /\ closedAt' \in [Matches -> Nat \cup {Null}]
  BY <1>1, TablesRest
<1>3. listPc[l] = "idle" /\ listPc' = [listPc EXCEPT ![l] = "get"] /\ answer' = Null
  BY DEF ListArrives, listGoes
<1>4. PICK limit \in limitsAsked : listLimit' = [listLimit EXCEPT ![l] = limit]
  BY DEF ListArrives
<1>5. \A k \in ListRequests : listPc'[k] \in {"set", "lateSet"} =>
        listPc[k] \in {"set", "lateSet"} /\ fetched'[k] = fetched[k]
          /\ listLimit'[k] = listLimit[k]
  BY <1>1, <1>3, <1>4 DEF ListingTypeOK
<1>6. ListingTypeOK'
  BY <1>1, <1>2, <1>3, <1>4 DEF ListingTypeOK, ListSteps
<1>7. FetchedWasTrue' /\ CachedWasTrue'
  BY <1>1, <1>2, <1>5, FetchedRests, CachedRests
<1>8. AnswerIsComplete' /\ AnswerIsRecent'
  BY <1>3 DEF AnswerIsComplete, AnswerIsRecent, answered
<1>. QED
  BY <1>2, <1>6, <1>7, <1>8

(* A hit answers with an entry whose time to live has not passed.          *)
LEMMA CacheGetKeeps ==
  ASSUME ListingIInv, matchCloses, UNCHANGED <<poolVars, faults>>,
         NEW l \in ListRequests, CacheGet(l)
  PROVE  ListingIInv'
<1>. USE DEF ListingIInv
<1>1. UNCHANGED <<matches, now, cache, slowestFill>> /\ faults' \in Nat
  BY DEF poolVars, TablesTypeOK, CacheGet
<1>2. /\ TablesTypeOK' /\ ClosedForGood' /\ UNCHANGED <<closedAt, upcoming>>
      /\ closedAt' \in [Matches -> Nat \cup {Null}]
  BY <1>1, TablesRest
<1>. DEFINE limit == listLimit[l]
<1>3. listPc[l] = "get" /\ limit \in limitsAsked /\ cacheKey(limit) = limit
  BY DEF CacheGet, ListingTypeOK, cacheKey
<1>4. CASE cache[limit] # Null
  <2>1. /\ listEnds(l)
        /\ answer' = [reply |-> 200, limit |-> limit,
                      listing |-> cache[limit].listing]
    BY <1>3, <1>4 DEF CacheGet, listAnswers
  <2>2. /\ cache[limit].listing \subseteq Matches
        /\ cache[limit].expiresAt \in Nat
    BY <1>3, <1>4 DEF ListingTypeOK
  <2>3. ListingTypeOK'
    BY <1>1, <1>2, <1>3, <2>1, <2>2, ListEndsKeeps DEF ListingTypeOK, Answers
  <2>4. FetchedWasTrue' /\ CachedWasTrue'
    BY <1>1, <1>2, <2>1, ListEndsKeeps, FetchedRests, CachedRests
  <2>5. serves(cache[limit].listing, limit)
    BY <1>3, <1>4 DEF CachedWasTrue
  <2>6. AnswerIsComplete'
    BY <1>2, <2>1, <2>5 DEF AnswerIsComplete, serves
  <2>7. ASSUME NEW m \in cache[limit].listing, closedAt[m] # Null
        PROVE  now - closedAt[m] < CacheTtl + slowestFill
    <3>1. /\ now < cache[limit].expiresAt
          /\ cache[limit].expiresAt <= closedAt[m] + CacheTtl + slowestFill
      BY <1>3, <1>4, <2>7 DEF CachedWasTrue
    <3>2. /\ closedAt[m] \in Nat /\ now \in Nat /\ CacheTtl \in Nat
          /\ slowestFill \in Nat
      BY <2>2, <2>7, ListAssumption DEF ListingTypeOK, TablesTypeOK
    <3>. QED
      BY <2>2, <3>1, <3>2
  <2>8. AnswerIsRecent'
    BY <1>1, <1>2, <2>1, <2>7 DEF AnswerIsRecent
  <2>. QED
    BY <1>2, <2>3, <2>4, <2>6, <2>8
<1>5. CASE cache[limit] = Null
  <2>1. /\ listPc' = [listPc EXCEPT ![l] = "find"] /\ answer' = Null
        /\ UNCHANGED <<listLimit, fetched>>
    BY <1>3, <1>5 DEF CacheGet, listProceeds, listGoes
  <2>2. ListingTypeOK'
    BY <1>1, <1>2, <1>3, <2>1 DEF ListingTypeOK, ListSteps
  <2>3. FetchedWasTrue' /\ CachedWasTrue'
    BY <1>1, <1>2, <2>1, FetchedRests, CachedRests DEF ListingTypeOK
  <2>4. AnswerIsComplete' /\ AnswerIsRecent'
    BY <2>1 DEF AnswerIsComplete, AnswerIsRecent, answered
  <2>. QED
    BY <1>2, <2>2, <2>3, <2>4
<1>. QED
  BY <1>4, <1>5

(* A miss reads the table, and holds a listing that is true now.           *)
LEMMA FindUpcomingKeeps ==
  ASSUME ListingIInv, matchCloses, UNCHANGED <<poolVars, faults>>,
         NEW l \in ListRequests, FindUpcoming(l)
  PROVE  ListingIInv'
<1>. USE DEF ListingIInv
<1>1. UNCHANGED <<matches, now, cache, slowestFill>> /\ faults' \in Nat
  BY DEF poolVars, TablesTypeOK, FindUpcoming
<1>2. /\ TablesTypeOK' /\ ClosedForGood' /\ UNCHANGED <<closedAt, upcoming>>
      /\ closedAt' \in [Matches -> Nat \cup {Null}]
  BY <1>1, TablesRest
<1>. DEFINE limit == listLimit[l]
<1>3. listPc[l] = "find" /\ limit \in limitsAsked
  BY DEF FindUpcoming, ListingTypeOK
<1>4. CachedWasTrue'
  BY <1>1, <1>2, CachedRests
<1>5. CASE validLimit(limit)
  <2>1. PICK S \in SUBSET upcoming :
          /\ isHead(S, limit)
          /\ fetched' = [fetched EXCEPT ![l] = [listing |-> S, at |-> now]]
    BY <1>5 DEF FindUpcoming
  <2>2. /\ listPc' = [listPc EXCEPT ![l] = "set"] /\ answer' = Null
        /\ UNCHANGED listLimit
    BY <1>5 DEF FindUpcoming, listProceeds, listGoes
  <2>3. [listing |-> S, at |-> now] \in Listings
    BY DEF Listings, upcoming, TablesTypeOK
  <2>4. ListingTypeOK'
    BY <1>1, <1>2, <1>3, <2>1, <2>2, <2>3 DEF ListingTypeOK, ListSteps
  <2>5. serves(S, limit)
    BY <1>3, <1>5, <2>1, HeadServes
  <2>6. fetched'[l] = [listing |-> S, at |-> now] /\ listLimit'[l] = limit
    BY <2>1, <2>2 DEF ListingTypeOK
  <2>7. serves(fetched[l].listing, listLimit[l])'
    BY <1>2, <2>5, <2>6 DEF serves
  <2>8. \A m \in S : closedAt'[m] = Null
    BY <1>2 DEF ClosedForGood, upcoming
  <2>9. now \in Nat
    BY DEF TablesTypeOK
  <2>10. ASSUME NEW k \in ListRequests, listPc'[k] \in {"set", "lateSet"}
         PROVE  /\ fetched'[k].at <= now'
                /\ serves(fetched[k].listing, listLimit[k])'
                /\ \A m \in fetched'[k].listing : closedAt'[m] # Null =>
                     fetched'[k].at <= closedAt'[m]
    <3>1. CASE k = l
      BY <1>1, <2>6, <2>7, <2>8, <2>9, <3>1
    <3>2. CASE k # l
      <4>1. /\ listPc[k] \in {"set", "lateSet"} /\ fetched'[k] = fetched[k]
            /\ listLimit'[k] = listLimit[k]
        BY <2>1, <2>2, <2>10, <3>2 DEF ListingTypeOK
      <4>. QED
        BY <1>1, <1>2, <4>1 DEF FetchedWasTrue, serves
    <3>. QED
      BY <3>1, <3>2
  <2>11. FetchedWasTrue'
    BY <2>10 DEF FetchedWasTrue
  <2>12. AnswerIsComplete' /\ AnswerIsRecent'
    BY <2>2 DEF AnswerIsComplete, AnswerIsRecent, answered
  <2>. QED
    BY <1>2, <1>4, <2>4, <2>11, <2>12
<1>6. CASE ~validLimit(limit)
  <2>1. listEnds(l) /\ answer' = [reply |-> 500, limit |-> limit, listing |-> {}]
    BY <1>6 DEF FindUpcoming, listAnswers
  <2>2. ListingTypeOK'
    BY <1>1, <1>2, <1>3, <2>1, ListEndsKeeps DEF ListingTypeOK, Answers
  <2>3. FetchedWasTrue'
    BY <1>1, <1>2, <2>1, ListEndsKeeps, FetchedRests
  <2>4. AnswerIsComplete' /\ AnswerIsRecent'
    BY <2>1 DEF AnswerIsComplete, AnswerIsRecent, answered
  <2>. QED
    BY <1>2, <1>4, <2>2, <2>3, <2>4
<1>. QED
  BY <1>5, <1>6

(* The SET stores, and answers, a listing that was true when it was read;  *)
(* how long ago that is counts as a fill.                                  *)
LEMMA CacheSetKeeps ==
  ASSUME ListingIInv, matchCloses, UNCHANGED <<poolVars, faults>>,
         NEW l \in ListRequests, CacheSet(l)
  PROVE  ListingIInv'
<1>. USE DEF ListingIInv
<1>. DEFINE limit == listLimit[l]
            listing == fetched[l].listing
            at == fetched[l].at
<1>1. UNCHANGED <<matches, now>> /\ faults' \in Nat
  BY DEF poolVars, TablesTypeOK
<1>2. /\ TablesTypeOK' /\ ClosedForGood' /\ UNCHANGED <<closedAt, upcoming>>
      /\ closedAt' \in [Matches -> Nat \cup {Null}]
  BY <1>1, TablesRest
<1>3. /\ listPc[l] \in {"set", "lateSet"} /\ limit \in limitsAsked
      /\ fetched[l] \in Listings
  BY DEF CacheSet, ListingTypeOK
<1>4. /\ listing \subseteq Matches /\ at \in Nat /\ now \in Nat
      /\ slowestFill \in Nat /\ CacheTtl \in Nat /\ CacheTtl > 0
  BY <1>3, ListAssumption DEF Listings, TablesTypeOK, ListingTypeOK
<1>5. /\ at <= now
      /\ serves(listing, limit)
      /\ \A m \in listing : closedAt[m] # Null => at <= closedAt[m]
  BY <1>3 DEF FetchedWasTrue
<1>6. /\ slowestFill' \in Nat
      /\ slowestFill <= slowestFill'
      /\ now - at <= slowestFill'
  BY <1>4, <1>5 DEF CacheSet
<1>7. cache' = [cache EXCEPT ![limit] = [listing   |-> listing,
                                        expiresAt |-> now + CacheTtl]]
  BY DEF CacheSet, cacheKey, entry
<1>8. listEnds(l)
  BY DEF CacheSet
<1>9. answer' = Null \/ answer' = [reply |-> 200, limit |-> limit, listing |-> listing]
  BY DEF CacheSet, listAnswers
<1>10. validLimit(limit)
  BY <1>5 DEF serves
<1>11. ListingTypeOK'
  <2>1. [listing |-> listing, expiresAt |-> now + CacheTtl]
          \in [listing : SUBSET Matches, expiresAt : Nat]
    BY <1>4
  <2>2. cache' \in [limitsAsked ->
                      [listing : SUBSET Matches, expiresAt : Nat] \cup {Null}]
    BY <1>7, <2>1 DEF ListingTypeOK
  <2>3. \A key \in limitsAsked : cache'[key] # Null => validLimit(key)
    BY <1>7, <1>10 DEF ListingTypeOK
  <2>4. answer' \in Answers \cup {Null}
    BY <1>3, <1>4, <1>9 DEF Answers
  <2>. QED
    BY <1>2, <1>6, <1>8, <2>2, <2>3, <2>4, ListEndsKeeps DEF ListingTypeOK
<1>12. FetchedWasTrue'
  BY <1>1, <1>2, <1>8, ListEndsKeeps, FetchedRests
<1>13. CachedWasTrue'
  <2>. SUFFICES ASSUME NEW key \in limitsAsked, cache'[key] # Null
                PROVE  /\ now' < cache'[key].expiresAt
                       /\ cache'[key].expiresAt <= now' + CacheTtl
                       /\ serves(cache[key].listing, key)'
                       /\ \A m \in cache'[key].listing : closedAt'[m] # Null =>
                            cache'[key].expiresAt
                              <= closedAt'[m] + CacheTtl + slowestFill'
    BY DEF CachedWasTrue
  <2>1. CASE key = limit
    <3>1. cache'[key] = [listing |-> listing, expiresAt |-> now + CacheTtl]
      BY <1>7, <2>1 DEF ListingTypeOK
    <3>2. serves(cache[key].listing, key)'
      BY <1>2, <1>5, <2>1, <3>1 DEF serves
    <3>3. ASSUME NEW m \in listing, closedAt[m] # Null
          PROVE  now + CacheTtl <= closedAt[m] + CacheTtl + slowestFill'
      <4>1. closedAt[m] \in Nat /\ at <= closedAt[m]
        BY <1>4, <1>5, <3>3 DEF ListingTypeOK
      <4>. QED
        BY <1>4, <1>6, <4>1
    <3>. QED
      BY <1>1, <1>2, <1>4, <3>1, <3>2, <3>3
  <2>2. CASE key # limit
    <3>1. cache'[key] = cache[key]
      BY <1>7, <2>2 DEF ListingTypeOK
    <3>2. serves(cache[key].listing, key)'
      BY <1>2, <3>1 DEF CachedWasTrue, serves
    <3>3. ASSUME NEW m \in cache[key].listing, closedAt[m] # Null
          PROVE  cache[key].expiresAt <= closedAt[m] + CacheTtl + slowestFill'
      <4>1. /\ cache[key].expiresAt \in Nat /\ closedAt[m] \in Nat
            /\ cache[key].expiresAt <= closedAt[m] + CacheTtl + slowestFill
        BY <3>1, <3>3 DEF ListingTypeOK, CachedWasTrue
      <4>. QED
        BY <1>4, <1>6, <4>1
    <3>. QED
      BY <1>1, <1>2, <3>1, <3>2, <3>3 DEF CachedWasTrue
  <2>. QED
    BY <2>1, <2>2
<1>14. AnswerIsComplete'
  BY <1>2, <1>5, <1>9 DEF AnswerIsComplete, answered, serves
<1>15. AnswerIsRecent'
  <2>1. ASSUME NEW m \in listing, closedAt[m] # Null
        PROVE  now - closedAt[m] < CacheTtl + slowestFill'
    <3>1. closedAt[m] \in Nat /\ at <= closedAt[m]
      BY <1>4, <1>5, <2>1 DEF ListingTypeOK
    <3>. QED
      BY <1>4, <1>6, <3>1
  <2>. QED
    BY <1>1, <1>2, <1>9, <2>1 DEF AnswerIsRecent, answered
<1>. QED
  BY <1>2, <1>11, <1>12, <1>13, <1>14, <1>15

(* A request that is given up, and a key that is lost, leave the rest true. *)
LEMMA ListFaultKeeps ==
  ASSUME ListingIInv, matchCloses, ListFault
  PROVE  ListingIInv'
<1>. USE DEF ListingIInv
<1>1. UNCHANGED <<matches, now, slowestFill>> /\ faults' \in Nat
  BY DEF ListFault, poolVars, TablesTypeOK, ListQueryFails, ListServiceExits,
         CacheLoses
<1>2. /\ TablesTypeOK' /\ ClosedForGood' /\ UNCHANGED <<closedAt, upcoming>>
      /\ closedAt' \in [Matches -> Nat \cup {Null}]
  BY <1>1, TablesRest
<1>3. ASSUME NEW l \in ListRequests, ListQueryFails(l) \/ ListServiceExits(l)
      PROVE  ListingIInv'
  <2>1. /\ listInFlight(l) /\ listGivenUp(l) /\ UNCHANGED cache
        /\ \/ answer' = Null
           \/ answer' = [reply |-> 500, limit |-> listLimit[l], listing |-> {}]
    BY <1>3 DEF ListQueryFails, ListServiceExits, listAnswers
  <2>2. listLimit[l] \in limitsAsked
    BY <2>1 DEF ListingTypeOK, listInFlight
  <2>3. answer' \in Answers \cup {Null}
    BY <2>1, <2>2 DEF Answers
  <2>4. ListingTypeOK'
    BY <1>1, <1>2, <2>1, <2>3, ListGivenUpKeeps DEF ListingTypeOK
  <2>5. FetchedWasTrue' /\ CachedWasTrue'
    BY <1>1, <1>2, <2>1, ListGivenUpKeeps, FetchedRests, CachedRests
  <2>6. AnswerIsComplete' /\ AnswerIsRecent'
    BY <2>1 DEF AnswerIsComplete, AnswerIsRecent, answered
  <2>. QED
    BY <1>2, <2>4, <2>5, <2>6
<1>4. ASSUME NEW key \in limitsAsked, CacheLoses(key)
      PROVE  ListingIInv'
  <2>1. /\ cache' = [cache EXCEPT ![key] = Null] /\ answer' = Null
        /\ UNCHANGED <<listPc, listLimit, fetched>>
    BY <1>4 DEF CacheLoses
  <2>2. ListingTypeOK'
    BY <1>1, <1>2, <2>1 DEF ListingTypeOK
  <2>3. FetchedWasTrue' /\ CachedWasTrue'
    BY <1>1, <1>2, <2>1, FetchedRests, CachedRests DEF ListingTypeOK
  <2>4. AnswerIsComplete' /\ AnswerIsRecent'
    BY <2>1 DEF AnswerIsComplete, AnswerIsRecent, answered
  <2>. QED
    BY <1>2, <2>2, <2>3, <2>4
<1>. QED
  BY <1>3, <1>4 DEF ListFault

-----------------------------------------------------------------------------
(* At the start nothing is in flight and no key is set.                    *)
LEMMA ListingInitEstablishes == ListingInit => ListingIInv
<1>. SUFFICES ASSUME ListingInit PROVE ListingIInv
  OBVIOUS
<1>. USE DEF ListingInit, ListInit
<1>1. TablesTypeOK
  BY DEF Init, SubmitInit, TablesTypeOK
<1>2. now = 0
  BY DEF Init, SubmitInit
<1>3. ListingTypeOK
  BY DEF ListingTypeOK, ListSteps
<1>4. ClosedForGood
  BY <1>2, NullAssumption DEF ClosedForGood
<1>. QED
  BY <1>1, <1>3, <1>4
  DEF ListingIInv, FetchedWasTrue, CachedWasTrue, AnswerIsComplete,
      AnswerIsRecent, answered

(* Every step of the listing, of the pool beside it and of what fails      *)
(* keeps the invariant.                                                    *)
LEMMA ListingNextKeeps ==
  ListingIInv /\ [ListingNext]_listingVars => ListingIInv'
<1>. SUFFICES ASSUME ListingIInv, [ListingNext]_listingVars PROVE ListingIInv'
  OBVIOUS
<1>1. CASE PoolStep /\ matchCloses
  BY <1>1, PoolStepKeeps
<1>2. ASSUME NEW l \in ListRequests, ListNext(l), matchCloses
      PROVE  ListingIInv'
  BY <1>2, ListArrivesKeeps, CacheGetKeeps, FindUpcomingKeeps, CacheSetKeeps
  DEF ListNext
<1>3. CASE ListFault /\ matchCloses
  BY <1>3, ListFaultKeeps
<1>4. CASE UNCHANGED listingVars
  BY <1>4
  DEF ListingIInv, listingVars, vars, listVars, TablesTypeOK, ListingTypeOK,
      ClosedForGood, isUpcoming, FetchedWasTrue, CachedWasTrue, serves, upcoming,
      AnswerIsComplete, AnswerIsRecent, answered
<1>. QED
  BY <1>1, <1>2, <1>3, <1>4 DEF ListingNext

(* What requests hold and what Redis holds was true of the table when it   *)
(* was read, whatever the pool does meanwhile.                             *)
THEOREM ListingInvariance == ListingSpec => []ListingIInv
BY ListingInitEstablishes, ListingNextKeeps, PTL DEF ListingSpec

(* Keys, entries and local variables of a listing keep their types.        *)
THEOREM ListingTypeCorrect == ListingSpec => []ListingTypeOK
BY ListingInvariance, PTL DEF ListingIInv

(* An answer misses no match that is open when it is given.                *)
THEOREM AnswersAreComplete == ListingSpec => []AnswerIsComplete
BY ListingInvariance, PTL DEF ListingIInv

(* An answer shows no match that closed longer ago than a time to live and *)
(* the slowest fill.                                                       *)
THEOREM AnswersAreRecent == ListingSpec => []AnswerIsRecent
BY ListingInvariance, PTL DEF ListingIInv
=============================================================================
