----------------------------- MODULE PackedList -----------------------------
(***************************************************************************)
(* What the packed list promises (spec.md 4.3 and 8.5): a sequence of      *)
(* payloads, with push at either end, insertion before a cursor, deletion  *)
(* at a cursor and deletion of a run of entries from an index, negative    *)
(* indexes counting from the tail (-1 is the last entry).  call is the     *)
(* call with its arguments, and a bit that flips with every call so that   *)
(* no call is a stuttering step.                                           *)
(***************************************************************************)
EXTENDS Integers, Sequences, SequencesExt

VARIABLES list, call

vars == <<list, call>>

Init == /\ list = <<>>
        /\ call = [cmd |-> <<"new">>, bit |-> 0]

Called(c) == call' = [cmd |-> c, bit |-> 1 - call.bit]

\* index(): the 1-based position of a 0-based or negative index, 0 for none.
Position(index) ==
  CASE index < 0 /\ -index <= Len(list) -> Len(list) + index + 1
    [] index >= 0 /\ index < Len(list)  -> index + 1
    [] OTHER                            -> 0

PUSH(s, where) ==
  /\ list' = IF where = "head" THEN <<s>> \o list ELSE Append(list, s)
  /\ Called(<<"push", s, where>>)

INSERT(i, s) == list' = InsertAt(list, i, s) /\ Called(<<"insert", i, s>>)

DELETE(i) == list' = RemoveAt(list, i) /\ Called(<<"delete", i>>)

DELETERANGE(index, num) ==
  LET p == Position(index)
  IN  /\ list' = IF p = 0 THEN list ELSE SubSeq(list, 1, p - 1) \o SubSeq(list, p + num, Len(list))
      /\ Called(<<"deleterange", index, num>>)

LENGTH == UNCHANGED list /\ Called(<<"len">>)

\* compare(cursor, bytes): whether the entry at the cursor holds the payload.
COMPARE(p, s, r) ==
  /\ r = (p <= Len(list) /\ list[p] = s)
  /\ UNCHANGED list
  /\ Called(<<"compare", p, s, r>>)

\* find(cursor, bytes, skip): the first entry from the cursor, among every
\* (skip + 1)-th, that holds the payload; 0 for none.
FIND(p, s, skip, r) ==
  LET hits == {i \in p .. Len(list) : (i - p) % (skip + 1) = 0 /\ list[i] = s}
  IN  /\ r = IF hits = {} THEN 0 ELSE Min(hits)
      /\ UNCHANGED list
      /\ Called(<<"find", p, s, skip, r>>)

\* A step is the call call' names, with its arguments.
Next ==
  LET c == call'.cmd
  IN  CASE c[1] = "push"        -> PUSH(c[2], c[3])
        [] c[1] = "insert"      -> INSERT(c[2], c[3])
        [] c[1] = "delete"      -> DELETE(c[2])
        [] c[1] = "deleterange" -> DELETERANGE(c[2], c[3])
        [] c[1] = "len"         -> LENGTH
        [] c[1] = "compare"     -> COMPARE(c[2], c[3], c[4])
        [] c[1] = "find"        -> FIND(c[2], c[3], c[4], c[5])
        [] OTHER                -> FALSE

Spec == Init /\ [][Next]_vars

=============================================================================
