---------------------------- MODULE MatchListing ----------------------------
(***************************************************************************)
(* The listing of upcoming matches beside the pool that changes them: the  *)
(* clock, the feed and close-outs close matches while requests fill and    *)
(* read the cache.                                                         *)
(***************************************************************************)
EXTENDS PredictionPool, ListUpcomingMatches

ASSUME FiniteMatches == IsFiniteSet(Matches)

poolVars == <<matches, predictions, now, submitVars, scoreVars>>

listingVars == <<vars, listVars, answer, closedAt>>

ListingInit == Init /\ ListInit

(* The history of the table, not of the listing.                           *)
matchCloses ==
    closedAt' = [m \in Matches |->
                   IF closedAt[m] = Null /\ ~isUpcoming(m)' THEN now' ELSE closedAt[m]]

ListNext(l) ==
    /\ \/ ListArrives(l)
       \/ CacheGet(l)
       \/ FindUpcoming(l)
       \/ CacheSet(l)
    /\ UNCHANGED <<poolVars, faults>>

ListFault ==
    /\ faults < MaxFaults
    /\ faults' = faults + 1
    /\ \/ \E l \in ListRequests : ListQueryFails(l) \/ ListServiceExits(l)
       \/ \E key \in limitsAsked : CacheLoses(key)
    /\ UNCHANGED poolVars

PoolStep ==
    /\ Next
    /\ keysExpire
    /\ answer' = Null
    /\ UNCHANGED <<listPc, listLimit, fetched, slowestFill>>

ListingNext ==
    /\ \/ PoolStep
       \/ \E l \in ListRequests : ListNext(l)
       \/ ListFault
    /\ matchCloses

ListingSpec == ListingInit /\ [][ListingNext]_listingVars

-----------------------------------------------------------------------------
Listings == [listing : SUBSET Matches, at : Nat]

Answers == [reply : {200, 500}, limit : limitsAsked, listing : SUBSET Matches]

(* Type invariant of the listing: a request about to set the cache holds a *)
(* listing it read, and no key is set whose listing cannot be read.        *)
ListingTypeOK ==
    /\ cache \in [limitsAsked ->
                    [listing : SUBSET Matches, expiresAt : Nat] \cup {Null}]
    /\ \A limit \in limitsAsked : cache[limit] # Null => validLimit(limit)
    /\ listPc \in [ListRequests -> ListSteps]
    /\ listLimit \in [ListRequests -> limitsAsked \cup {Null}]
    /\ fetched \in [ListRequests -> Listings \cup {Null}]
    /\ \A l \in ListRequests :
         /\ listLimit[l] \in IF listPc[l] = "idle" THEN {Null} ELSE limitsAsked
         /\ fetched[l] \in IF listPc[l] \in {"set", "lateSet"}
                             THEN Listings ELSE {Null}
    /\ answer \in Answers \cup {Null}
    /\ slowestFill \in Nat
    /\ closedAt \in [Matches -> Nat \cup {Null}]

(* A listing serves a limit now: it misses no match that is still open,    *)
(* unless it is full of ones that are not later.                           *)
serves(listing, limit) ==
    /\ validLimit(limit)
    /\ Cardinality(listing) <= limit
    /\ \A m \in upcoming \ listing :
         /\ Cardinality(listing) = limit
         /\ \A other \in listing : KickoffAt[other] <= KickoffAt[m]

answered == answer # Null /\ answer.reply = 200

(* A listing that is answered serves the limit that was asked for, although *)
(* three callers share the cache and matches close while the listing is in *)
(* flight or in the cache (ListUpcomingMatches.ts:21-32).                  *)
AnswerIsComplete == answered => serves(answer.listing, answer.limit)

(* It shows no match that closed longer ago than the time to live of the   *)
(* cache plus the longest time a fill took: a fill that overwrites a newer *)
(* one restarts the time to live of an old listing, but only once for each *)
(* read of the table (ListUpcomingMatches.ts:25-31).                       *)
AnswerIsRecent ==
    answered =>
      \A m \in answer.listing :
        closedAt[m] # Null => now - closedAt[m] < CacheTtl + slowestFill

-----------------------------------------------------------------------------
(* The tables and the clock, as far as the listing reads them.             *)
TablesTypeOK ==
    /\ now \in Nat
    /\ faults \in Nat
    /\ matches = [m \in Matches |-> matches[m]]

(* The history follows the table, which never reopens a match.             *)
ClosedForGood ==
    \A m \in Matches :
      /\ closedAt[m] = Null <=> isUpcoming(m)
      /\ closedAt[m] # Null => closedAt[m] <= now

(* A listing on its way to the cache was true when it was read.            *)
FetchedWasTrue ==
    \A l \in ListRequests : listPc[l] \in {"set", "lateSet"} =>
      /\ fetched[l].at <= now
      /\ serves(fetched[l].listing, listLimit[l])
      /\ \A m \in fetched[l].listing :
           closedAt[m] # Null => fetched[l].at <= closedAt[m]

(* A key that is set has some of its time to live left, and its listing    *)
(* was true at most the slowest fill before that began.                    *)
CachedWasTrue ==
    \A limit \in limitsAsked : cache[limit] # Null =>
      /\ now < cache[limit].expiresAt
      /\ cache[limit].expiresAt <= now + CacheTtl
      /\ serves(cache[limit].listing, limit)
      /\ \A m \in cache[limit].listing :
           closedAt[m] # Null =>
             cache[limit].expiresAt <= closedAt[m] + CacheTtl + slowestFill

(* The inductive invariant of the listing: what a request holds between    *)
(* two awaits, and what Redis holds for the next one, was true of the      *)
(* table when it was read (ListUpcomingMatches.ts:21-33).                  *)
ListingIInv ==
    /\ TablesTypeOK
    /\ ListingTypeOK
    /\ ClosedForGood
    /\ FetchedWasTrue
    /\ CachedWasTrue
    /\ AnswerIsComplete
    /\ AnswerIsRecent
=============================================================================
