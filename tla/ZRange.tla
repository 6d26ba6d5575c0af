------------------------------- MODULE ZRange -------------------------------
(***************************************************************************)
(* Score and lexicographic range specifications of src/struct/t_zset.c     *)
(* (zrangespec, zlexrangespec) and the comparisons the skip list and the   *)
(* ziplist form use against them.                                          *)
(*                                                                         *)
(* An element string is abstracted to its rank in byte order: Elems is a   *)
(* set of naturals and compareStringObjects is the sign of their           *)
(* difference.  Scores are naturals (a double that is never NaN: the       *)
(* parsers reject NaN).  MINSTR and MAXSTR stand for shared.minstring and  *)
(* shared.maxstring, the objects "-" and "+" parse to.                     *)
(***************************************************************************)
EXTENDS Integers

CONSTANTS
  Elems,        \* element strings, by their byte order
  RangeScores   \* the scores a range bound may take

ASSUME Elems \subseteq Nat
ASSUME RangeScores \subseteq Nat

\* Negative, so that they are comparable with, and distinct from, elements.
MINSTR == -1
MAXSTR == -2

Sign(x) == IF x < 0 THEN -1 ELSE IF x = 0 THEN 0 ELSE 1

\* compareStringObjects, on elements.  Between a shared bound and anything
\* else it is only ever compared with 0 (zslIsInLexRange), and the shared
\* strings differ from every element.
CompareStringObjects(a, b) ==
  IF a = b THEN 0
  ELSE IF a \in Elems /\ b \in Elems THEN Sign(a - b)
  ELSE 1

\* zslParseRange: the ranges a successful parse produces.
ZRangeSpecs == [min : RangeScores, minex : BOOLEAN, max : RangeScores, maxex : BOOLEAN]

ZslValueGteMin(v, r) == IF r.minex THEN v > r.min ELSE v >= r.min
ZslValueLteMax(v, r) == IF r.maxex THEN v < r.max ELSE v <= r.max

\* zslParseLexRangeItem: "(e" / "[e" give e exclusive / inclusive; "-" and
\* "+" give the shared bounds, never exclusive.
LexItems == [item : Elems, ex : BOOLEAN] \cup [item : {MINSTR, MAXSTR}, ex : {FALSE}]

\* zslParseLexRange: the ranges a successful parse produces.
ZLexRangeSpecs ==
  {[min |-> a.item, minex |-> a.ex, max |-> b.item, maxex |-> b.ex] : a, b \in LexItems}

\* compareStringObjectsForLexRange: the shared bounds act as -inf and +inf.
CompareForLexRange(a, b) ==
  IF a = b THEN 0
  ELSE IF a = MINSTR \/ b = MAXSTR THEN -1
  ELSE IF a = MAXSTR \/ b = MINSTR THEN 1
  ELSE CompareStringObjects(a, b)

ZslLexValueGteMin(v, r) ==
  IF r.minex THEN CompareForLexRange(v, r.min) > 0 ELSE CompareForLexRange(v, r.min) >= 0
ZslLexValueLteMax(v, r) ==
  IF r.maxex THEN CompareForLexRange(v, r.max) < 0 ELSE CompareForLexRange(v, r.max) <= 0

=============================================================================
