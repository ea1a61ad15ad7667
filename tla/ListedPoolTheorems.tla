------------------------- MODULE ListedPoolTheorems --------------------------
(***************************************************************************)
(* The composition of the listing and the pool: what is proved of the pool *)
(* by itself holds while listings read its tables, for any matches, users, *)
(* requests and bounds.  (What is proved of the listing, in                *)
(* MatchListingTheorems, is proved of the composition from the start.)     *)
(***************************************************************************)
EXTENDS MatchListing, PredictionPoolRefinement

(* A listing only reads: its steps and faults leave what the pool keeps.   *)
LEMMA ListingOnlyReads ==
  ASSUME TypeOK, [ListingNext]_listingVars
  PROVE  \/ [Next]_vars
         \/ UNCHANGED poolVars /\ faults' \in Nat
<1>1. CASE PoolStep
  BY <1>1 DEF PoolStep
<1>2. CASE \E l \in ListRequests : ListNext(l)
  BY <1>2 DEF ListNext, TypeOK
<1>3. CASE ListFault
  BY <1>3 DEF ListFault, TypeOK
<1>4. CASE UNCHANGED listingVars
  BY <1>4 DEF listingVars
<1>. QED
  BY <1>1, <1>2, <1>3, <1>4 DEF ListingNext

LEMMA ReadingKeepsIInv ==
  ASSUME IInv, UNCHANGED poolVars, faults' \in Nat
  PROVE  IInv'
<1>. USE DEF IInv, poolVars, submitVars, scoreVars
<1>1. TypeOK'
  BY DEF TypeOK, SubmitTypeOK, ScoreTypeOK
<1>2. SubmissionInv'
  BY DEF SubmissionInv, SubmitProgress, OwnRow, UniquePrediction, AnsweredLast,
         ClosedStaysClosed, ConflictJustified, conflictStands, findByUserAndMatch,
         toDomainStatus, stored
<1>3. CloseOutInv'
  BY DEF CloseOutInv, ScoreProgress, BatchOfMatch, FinishedByCloseOut,
         AwardedByCloseOut, NothingDropped, awarded, isScored, stored
<1>. QED
  BY <1>1, <1>2, <1>3

LEMMA ListingNextKeepsIInv == IInv /\ [ListingNext]_listingVars => IInv'
BY ListingOnlyReads, NextKeepsIInv, ReadingKeepsIInv DEF IInv

(* The invariant of the pool, and with it every safety property that       *)
(* PredictionPoolTheorems derives from it, holds beside any listings.      *)
THEOREM ListedPoolInvariance == ListingSpec => []IInv
<1>1. ListingInit => IInv
  BY InitIInv DEF ListingInit
<1>. QED
  BY <1>1, ListingNextKeepsIInv, PTL DEF ListingSpec

-----------------------------------------------------------------------------
(* Settled points and matches that are called off stay what they are.      *)
THEOREM ListedPoolKeepsFinal == ListingSpec => SettledAwardIsFinal /\ CallOffIsFinal
<1>1. ASSUME IInv, [ListingNext]_listingVars, NEW id \in PredictionIds, settled(id)
      PROVE  predictions'[id] = predictions[id] /\ settled(id)'
  <2>1. CASE UNCHANGED poolVars
    BY <1>1, <2>1 DEF poolVars, scoreVars, settled, awarded, isScored, stored
  <2>. QED
    BY <1>1, <2>1, ListingOnlyReads, SettledStays DEF IInv
<1>2. ASSUME IInv, [ListingNext]_listingVars, NEW m \in Matches, calledOff(m)
      PROVE  /\ matches'[m] = matches[m] /\ calledOff(m)'
             /\ \A id \in PredictionIds : awarded(id)' => predictions'[id].matchId # m
  <2>1. CASE UNCHANGED poolVars
    <3>1. matches'[m] = matches[m] /\ calledOff(m)'
      BY <1>2, <2>1 DEF poolVars, scoreVars, calledOff
    <3>2. ASSUME NEW id \in PredictionIds, awarded(id)', predictions'[id].matchId = m
          PROVE  FALSE
      <4>1. awarded(id) /\ predictions[id].matchId = m
        BY <2>1, <3>2 DEF poolVars, awarded, isScored, stored
      <4>. QED
        BY <1>2, <4>1
        DEF calledOff, IInv, CloseOutInv, AwardedByCloseOut, FinishedByCloseOut
    <3>. QED
      BY <3>1, <3>2
  <2>. QED
    BY <1>2, <2>1, ListingOnlyReads, CalledOffStays DEF IInv
<1>3. IInv /\ [ListingNext]_listingVars =>
        [\A id \in PredictionIds : settled(id) =>
           predictions'[id] = predictions[id] /\ settled(id)']_vars
  BY <1>1
<1>4. IInv /\ [ListingNext]_listingVars =>
        [\A m \in Matches : calledOff(m) =>
           /\ matches'[m] = matches[m] /\ calledOff(m)'
           /\ \A id \in PredictionIds : awarded(id)' => predictions'[id].matchId # m]_vars
  BY <1>2
<1>. QED
  BY <1>3, <1>4, ListedPoolInvariance, PTL
  DEF ListingSpec, SettledAwardIsFinal, CallOffIsFinal

(* The pool with listings beside it implements the ledger as well.         *)
THEOREM ListedPoolImplementsLedger == ListingSpec => RefinesLedger
<1>1. ListingInit => DtosFromBodies /\ Ledger!Init
  BY InitRefines DEF ListingInit, Init, SubmitInit, ScoreInit, DtosFromBodies
<1>2. ASSUME IInv, DtosFromBodies, UNCHANGED poolVars
      PROVE  DtosFromBodies' /\ [Ledger!Next]_Ledger!ledgerVars
  <2>1. DtosFromBodies'
    BY <1>2 DEF DtosFromBodies, poolVars, submitVars, scoreVars
  <2>2. UNCHANGED <<predictions, todo, closing, scoreDto>>
    BY <1>2 DEF poolVars, scoreVars
  <2>3. Entries' = Entries /\ Announced' = Announced /\ Final' = Final
    BY <2>2, EntriesKept, AnnouncedKept, FinalKept
  <2>. QED
    BY <2>1, <2>3 DEF Ledger!ledgerVars, Entries, Announced, Final
<1>3. IInv /\ DtosFromBodies /\ [ListingNext]_listingVars =>
        DtosFromBodies' /\ [Ledger!Next]_Ledger!ledgerVars
  BY <1>2, ListingOnlyReads, NextKeepsDtos, NextRefines DEF IInv
<1>. QED
  BY <1>1, <1>3, ListedPoolInvariance, PTL
  DEF ListingSpec, RefinesLedger, Ledger!Spec
=============================================================================
