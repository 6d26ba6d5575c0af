------------------------------- MODULE MC_Dict -------------------------------
(***************************************************************************)
(* Model of Dict for TLC: four keys whose low three hash bits collide in a *)
(* 4-bucket table (k1, k2) and separate in an 8-bucket one, so that        *)
(* growing and shrinking both redistribute a chain.  Four keys reach both  *)
(* table sizes 4 and 8.                                                    *)
(***************************************************************************)
EXTENDS Dict, TLC

CONSTANTS k1, k2, k3, k4

\* dictHashKey, low three bits.
MCHash == k1 :> 0 @@ k2 :> 4 @@ k3 :> 3 @@ k4 :> 6

\* DICT_HT_INITIAL_SIZE and dict_force_resize_ratio scaled from 4 and 5 to
\* 1 and 1: the forced expansion of a table with resizing disabled (more
\* than ratio elements per bucket) then happens with four keys, at two
\* keys in one bucket, as it happens in Redis at 24 keys in four.
MCInitialSize == 1
MCRatio       == 1

=============================================================================
