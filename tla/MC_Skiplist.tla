----------------------------- MODULE MC_Skiplist -----------------------------
(***************************************************************************)
(* Model of Skiplist for TLC, driven call by call (SkiplistCalls): three   *)
(* elements and two scores, so that equal scores are ordered by element,   *)
(* with a level cap of 3, so that a node can reach the cap and the list's  *)
(* level rises and falls through all three levels.  Range bounds run from  *)
(* below the lowest score to above the highest.  call only records the     *)
(* last call and no successor depends on it, so the VIEW leaves it out.    *)
(***************************************************************************)
EXTENDS SkiplistCalls, TLC

=============================================================================
