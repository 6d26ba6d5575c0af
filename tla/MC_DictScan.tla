----------------------------- MODULE MC_DictScan -----------------------------
(***************************************************************************)
(* Model of DictScan for TLC, with the keys and hash of MC_Dict: k1 and k2 *)
(* share a bucket of the 4-bucket table and split in the 8-bucket one, so  *)
(* a scan that straddles a grow or a shrink must find them in both.        *)
(***************************************************************************)
EXTENDS DictScan, TLC

CONSTANTS k1, k2, k3, k4

\* dictHashKey, low three bits.
MCHash == k1 :> 0 @@ k2 :> 4 @@ k3 :> 3 @@ k4 :> 6

=============================================================================
