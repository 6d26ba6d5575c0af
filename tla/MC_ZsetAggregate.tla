--------------------------- MODULE MC_ZsetAggregate ---------------------------
(***************************************************************************)
(* ZsetAggregate for TLC: two keys, so that a command may store into one   *)
(* of its own sources and repeat a key; up to two sources (MAX_SRC), so    *)
(* that a SUM can meet +inf and -inf; two elements, b longer than          *)
(* zset_max_ziplist_value, and zset_max_ziplist_entries = 1, so that a     *)
(* result lands in either encoding.  Sources start with scores 1, +inf or  *)
(* -inf; weights are 0 (which makes a NaN of an infinity) or 1.            *)
(*                                                                         *)
(* call only records the last command: the VIEW leaves it out.             *)
(***************************************************************************)
EXTENDS ZsetAggregate, TLC

AggView == <<db, reply, panic>>

=============================================================================
