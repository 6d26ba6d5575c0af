---------------------------- MODULE SkiplistCalls ----------------------------
(***************************************************************************)
(* The skip list driven call by call, as the sorted set commands of        *)
(* src/struct/t_zset.c drive it, with each call and its arguments kept in  *)
(* call.  With call mapped to itself and the skip list to the element ->   *)
(* score map it holds, every step must be the SortedSet change its         *)
(* arguments ask for: a removal by rank removes exactly those ranks, a     *)
(* removal by score exactly that range, and so on.                         *)
(***************************************************************************)
EXTENDS Skiplist

VARIABLE call

vars == <<zsl, call>>

CallInit == Init /\ call = <<"create">>

CallNext ==
  \/ \E s \in Scores, e \in Elems : Insert(s, e) /\ call' = <<"insert", s, e>>
  \/ \E s \in Scores, e \in Elems : Delete(s, e) /\ call' = <<"delete", s, e>>
  \/ \E r \in ZRangeSpecs : DeleteRangeByScore(r) /\ call' = <<"byscore", r>>
  \/ \E r \in ZLexRangeSpecs : DeleteRangeByLex(r) /\ call' = <<"bylex", r>>
  \/ \E start, end \in 1 .. zsl.length :
       start <= end /\ DeleteRangeByRank(start, end) /\ call' = <<"byrank", start, end>>

CallSpec == CallInit /\ [][CallNext]_vars

\* The skip list without the history: the states TLC tells apart.
ListView == zsl

Abstract == INSTANCE SortedSet WITH zs <- ZsOf(zsl), call <- call

\* Every zslInsert, zslDelete and zslDeleteRange* call changes the
\* element -> score map exactly as SortedSet says for its arguments:
\* zslDeleteRangeByRank removes ranks start..end, the range deletions
\* remove exactly the nodes in the range, zslDelete only the node with that
\* score and element.
SortedSetSpec == Abstract!Spec

=============================================================================
