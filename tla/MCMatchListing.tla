--------------------------- MODULE MCMatchListing ---------------------------
(***************************************************************************)
(* An instance of MatchListing for TLC.                                    *)
(***************************************************************************)
EXTENDS MatchListing, TLC

CONSTANTS m1, m2, l1, l2

(* The matches kick off one after the other.                               *)
MC_KickoffAt == [m \in Matches |-> IF m = m1 THEN 1 ELSE 2]

(* limit=0 asks the service for none and the route for one; the page adds  *)
(* a listing without a cut, and a text is no number.                       *)
MC_LimitParams == {0, NaN}

MC_Symmetry == Permutations(ListRequests)
=============================================================================
