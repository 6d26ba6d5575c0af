------------------------------ MODULE SortedSet ------------------------------
(***************************************************************************)
(* What a sorted set of src/struct/t_zset.c is: a map from element to      *)
(* score, ordered by (score, element).  Insertion of an absent element,    *)
(* removal of an element, and removal of every element whose score, whose  *)
(* string or whose rank lies in a range are its changes.  call records   *)
(* which change was asked for, with its arguments, so that every step is  *)
(* checked against the change its caller asked for.  The skip list        *)
(* (Skiplist.tla, through SkiplistCalls.tla) is checked to implement it.  *)
(***************************************************************************)
EXTENDS ZRange, FiniteSets

CONSTANTS Scores, NoScore

VARIABLES
  zs,     \* element -> score, NoScore for an absent element
  call    \* the last change asked for, with its arguments

vars == <<zs, call>>

Present == {e \in Elems : zs[e] # NoScore}

\* e comes before f in the sorted set: by score, then by element.
Before(e, f) == zs[e] < zs[f] \/ (zs[e] = zs[f] /\ CompareStringObjects(e, f) < 0)

\* 1-based rank of a present element.
Rank(e) == Cardinality({f \in Present : Before(f, e)}) + 1

Init == /\ zs = [e \in Elems |-> NoScore]
        /\ call = <<"create">>

Drop(S) == zs' = [e \in Elems |-> IF e \in S THEN NoScore ELSE zs[e]]

\* Insertion of an element that is absent.
Insert(s, e) == /\ zs[e] = NoScore
                /\ zs' = [zs EXCEPT ![e] = s]
                /\ call' = <<"insert", s, e>>

\* Removal of e if it is present with score s; otherwise nothing changes.
Remove(s, e) == /\ Drop({f \in Present : f = e /\ zs[f] = s})
                /\ call' = <<"delete", s, e>>

RemoveRangeByScore(r) ==
  /\ Drop({e \in Present : ZslValueGteMin(zs[e], r) /\ ZslValueLteMax(zs[e], r)})
  /\ call' = <<"byscore", r>>

\* Removal by string range, defined when all elements share one score.
RemoveRangeByLex(r) ==
  /\ \A e, f \in Present : zs[e] = zs[f]
  /\ Drop({e \in Present : ZslLexValueGteMin(e, r) /\ ZslLexValueLteMax(e, r)})
  /\ call' = <<"bylex", r>>

\* start and end are 1-based and inclusive.
RemoveRangeByRank(start, end) ==
  /\ Drop({e \in Present : start <= Rank(e) /\ Rank(e) <= end})
  /\ call' = <<"byrank", start, end>>

Next ==
  \/ \E s \in Scores, e \in Elems : Insert(s, e) \/ Remove(s, e)
  \/ \E r \in ZRangeSpecs : RemoveRangeByScore(r)
  \/ \E r \in ZLexRangeSpecs : RemoveRangeByLex(r)
  \/ \E start, end \in 1 .. Cardinality(Present) : start <= end /\ RemoveRangeByRank(start, end)

Spec == Init /\ [][Next]_vars

=============================================================================
