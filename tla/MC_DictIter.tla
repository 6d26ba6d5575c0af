------------------------------ MODULE MC_DictIter ----------------------------
(***************************************************************************)
(* Model of DictIter for TLC: three of the keys of MC_Dict.  k1 and k2    *)
(* share a chain in a 4-bucket table and separate in an 8-bucket one;      *)
(* dictExpand to 8 buckets starts a rehash that a safe iteration then      *)
(* meets with entries in both tables.                                      *)
(***************************************************************************)
EXTENDS DictIter, TLC

CONSTANTS k1, k2, k3

\* dictHashKey, low three bits.
MCHash == k1 :> 0 @@ k2 :> 4 @@ k3 :> 3

=============================================================================
