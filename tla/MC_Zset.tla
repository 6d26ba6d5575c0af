------------------------------- MODULE MC_Zset -------------------------------
(***************************************************************************)
(* Zset for TLC, with the command recorded (ZsetCalls): four elements, of  *)
(* which 7 is longer than zset_max_ziplist_value, two scores,              *)
(* zset_max_ziplist_entries = 2 (a third element converts the key, and a   *)
(* fourth is needed to reach a ziplist of two short elements and then add  *)
(* a long one), and commands of up to two arguments.  ZSKIPLIST_MAXLEVEL   *)
(* is 1: the skip list's level mechanics are checked in MC_Skiplist, and   *)
(* here each extra level multiplies the outcomes of every conversion.      *)
(*                                                                         *)
(* call only records the last command, so the VIEW leaves it out: states   *)
(* that differ only in it have the same successors.  Its bit flips at      *)
(* every command, so no command is taken for a stuttering step.            *)
(***************************************************************************)
EXTENDS ZsetCalls, TLC

=============================================================================
