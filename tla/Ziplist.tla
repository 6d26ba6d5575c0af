------------------------------ MODULE Ziplist ------------------------------
(***************************************************************************)
(* The ziplist of src/struct/dict.c (lines 2228-3561): a byte blob with a  *)
(* header (zlbytes, zltail, zllen), entries and a terminator.              *)
(*                                                                         *)
(* An entry is abstracted to the sizes of its three fields and the value   *)
(* its prevlen field holds: prevsize (1 or 5 bytes) and prevlen, lensize   *)
(* (the encoding / length field) and len (the payload), plus the payload   *)
(* it decodes to.  Byte offsets are derived from the sizes, so that every  *)
(* pointer the code computes (p + rawlen, zl + zltail, p - prevlen) is an  *)
(* offset the model can compare with the entry that really starts there.   *)
(* The header fields are state, updated by the code's own arithmetic.      *)
(*                                                                         *)
(* A payload is what the caller passes: [slen, num], num being the value   *)
(* of a string that string2ll accepts, NoNum otherwise.                    *)
(***************************************************************************)
EXTENDS Integers, Sequences, SequencesExt

CONSTANTS
  Payloads,     \* the strings callers pass
  NoNum,        \* num of a string that is not an integer
  ZLLEN_MAX,    \* UINT16_MAX: the saturation value of zllen
  MAX_ENTRIES   \* bound on the number of entries

VARIABLES
  zl,        \* [entries, zlbytes, zltail, zllen]
  overrun,   \* the operations whose memmove went outside the blob
  call       \* the last call, with its arguments, and a bit that flips

vars == <<zl, overrun, call>>

ZIP_BIGLEN == 254
ZIPLIST_HEADER_SIZE == 10

(***************************************************************************)
(* Encodings.                                                              *)
(***************************************************************************)
\* zipTryEncoding: a canonical integer string shorter than 32 bytes.
TryEncoding(s) == s.slen < 32 /\ s.slen > 0 /\ s.num # NoNum

\* zipIntSize of the encoding zipTryEncoding picks (0: 4-bit immediate).
IntSize(v) ==
  CASE 0 <= v /\ v <= 12           -> 0
    [] -2^7 <= v /\ v < 2^7         -> 1
    [] -2^15 <= v /\ v < 2^15       -> 2
    [] -(2^23) <= v /\ v < 2^23     -> 3
    [] -(2^31) <= v /\ v < 2^31     -> 4
    [] OTHER                        -> 8

\* zipEncodeLength(NULL, encoding, slen).
EncodeLengthSize(s) ==
  CASE TryEncoding(s)   -> 1
    [] s.slen <= 63     -> 1
    [] s.slen <= 16383  -> 2
    [] OTHER            -> 5

PayloadLen(s) == IF TryEncoding(s) THEN IntSize(s.num) ELSE s.slen

\* zipPrevEncodeLength(NULL, len).
PrevEncodeSize(len) == IF len < ZIP_BIGLEN THEN 1 ELSE 5

\* zipRawEntryLength.
RawLen(e) == e.prevsize + e.lensize + e.len

Entry(prevlen, s) ==
  [prevsize |-> PrevEncodeSize(prevlen), prevlen |-> prevlen,
   lensize |-> EncodeLengthSize(s), len |-> PayloadLen(s), val |-> s]

\* Byte offset of entry i; entry Len(es) + 1 is the terminator.
Offsets(es) ==
  LET off[i \in 1 .. Len(es) + 1] ==
        IF i = 1 THEN ZIPLIST_HEADER_SIZE ELSE off[i - 1] + RawLen(es[i - 1])
  IN  off

\* The entry starting at byte offset o: 0 for the terminator or a byte
\* inside an entry.
EntryAt(es, o) ==
  LET I == {i \in 1 .. Len(es) : Offsets(es)[i] = o}
  IN  IF I = {} THEN 0 ELSE CHOOSE i \in I : TRUE

\* Mutants: the count without the UINT16_MAX test, in a wider field and in
\* the uint16 itself.
IncrLengthUnchecked(n, incr) == n + incr
IncrLengthWrap(n, incr) == (n + incr) % (ZLLEN_MAX + 1)

\* ZIPLIST_INCR_LENGTH on a uint16 that sticks at UINT16_MAX.
IncrLength(n, incr) == IF n < ZLLEN_MAX THEN (n + incr) % (ZLLEN_MAX + 1) ELSE n

\* ziplistNew.
ZiplistNew ==
  [entries |-> <<>>, zlbytes |-> ZIPLIST_HEADER_SIZE + 1,
   zltail |-> ZIPLIST_HEADER_SIZE, zllen |-> 0]

(***************************************************************************)
(* The internal operations.                                                *)
(***************************************************************************)
\* Mutant: zltail moved by every growth, the tail entry's included.
RECURSIVE CascadeUpdateTailAlways(_, _)
CascadeUpdateTailAlways(z, j) ==
  IF j >= Len(z.entries) THEN z
  ELSE LET es         == z.entries
           rawlen     == RawLen(es[j])
           rawlensize == PrevEncodeSize(rawlen)
           next       == es[j + 1]
       IN  IF next.prevlen = rawlen THEN z
           ELSE IF next.prevsize < rawlensize
           THEN CascadeUpdateTailAlways(
                  [z EXCEPT !.zlbytes = @ + rawlensize - next.prevsize,
                            !.zltail = @ + rawlensize - next.prevsize,
                            !.entries[j + 1] = [next EXCEPT !.prevsize = rawlensize,
                                                            !.prevlen = rawlen]],
                  j + 1)
           ELSE [z EXCEPT !.entries[j + 1].prevlen = rawlen]

\* __ziplistCascadeUpdate from entry j: while the next entry's prevlen is
\* not j's length, grow its field to 5 bytes if it must (and go on), or
\* rewrite it in place, keeping 5 bytes even for a small length, and stop.
\* zltail moves with the growth unless the grown entry is the tail.
RECURSIVE CascadeUpdate(_, _)
CascadeUpdate(z, j) ==
  IF j >= Len(z.entries) THEN z
  ELSE LET es         == z.entries
           rawlen     == RawLen(es[j])
           rawlensize == PrevEncodeSize(rawlen)
           next       == es[j + 1]
       IN  IF next.prevlen = rawlen THEN z
           ELSE IF next.prevsize < rawlensize
           THEN LET extra == rawlensize - next.prevsize
                IN  CascadeUpdate(
                      [z EXCEPT !.zlbytes = @ + extra,
                                !.zltail = IF @ # Offsets(es)[j + 1] THEN @ + extra ELSE @,
                                !.entries[j + 1] = [next EXCEPT !.prevsize = rawlensize,
                                                                !.prevlen = rawlen]],
                      j + 1)
           ELSE [z EXCEPT !.entries[j + 1].prevlen = rawlen]

\* __ziplistInsert(zl, p, s) with p entry i, or the terminator when
\* i = Len + 1.  prevlen comes from p's field, or from the entry zltail
\* points at; the blob is resized by reqlen + nextdiff before the tail is
\* moved; the moved entry's prevlen is rewritten and zltail advanced (by
\* nextdiff too unless that entry is the tail); the cascade runs from it.
InsertPrevLen(z, i) ==
  IF i <= Len(z.entries) THEN z.entries[i].prevlen
  ELSE LET t == EntryAt(z.entries, z.zltail)
       IN  IF t = 0 THEN 0 ELSE RawLen(z.entries[t])

ReqLen(z, i, s) == PayloadLen(s) + PrevEncodeSize(InsertPrevLen(z, i)) + EncodeLengthSize(s)

NextDiff(z, i, s) ==
  IF i <= Len(z.entries)
  THEN PrevEncodeSize(ReqLen(z, i, s)) - z.entries[i].prevsize
  ELSE 0

\* The memmove reads curlen - offset - 1 + nextdiff bytes from p - nextdiff
\* of a blob already resized to curlen + reqlen + nextdiff bytes: past its
\* end, after the terminator was written into the source, when the resize
\* shrinks it.
InsertOverruns(z, i, s) == ReqLen(z, i, s) + NextDiff(z, i, s) < 0

ZiplistInsertAt(z, i, s) ==
  LET es       == z.entries
      reqlen   == ReqLen(z, i, s)
      nextdiff == NextDiff(z, i, s)
      new      == Entry(InsertPrevLen(z, i), s)
      es1      == IF i > Len(es) THEN Append(es, new)
                  ELSE InsertAt([es EXCEPT ![i].prevsize = PrevEncodeSize(reqlen),
                                           ![i].prevlen = reqlen], i, new)
      tail1    == IF i > Len(es) THEN z.zlbytes - 1
                  ELSE z.zltail + reqlen + (IF i < Len(es) THEN nextdiff ELSE 0)
      z1       == [entries |-> es1, zlbytes |-> z.zlbytes + reqlen + nextdiff,
                   zltail |-> tail1, zllen |-> z.zllen]
      z2       == IF nextdiff # 0 THEN CascadeUpdate(z1, i + 1) ELSE z1
  IN  [z2 EXCEPT !.zllen = IncrLength(@, 1)]

\* __ziplistDelete(zl, p, num) with p entry i: the run of (at most num)
\* entries from p goes; the entry after it takes first's prevlen (its
\* field re-encoded, nextdiff bytes longer); zltail moves back by the run
\* (plus nextdiff unless that entry is the tail), or to first's previous
\* entry when the run reached the end; then the cascade from p.
DeleteCount(z, i, num) == IF num < Len(z.entries) - i + 1 THEN num ELSE Len(z.entries) - i + 1

DeleteNextDiff(z, i, num) ==
  LET k == i + DeleteCount(z, i, num)
  IN  IF k > Len(z.entries) THEN 0
      ELSE PrevEncodeSize(z.entries[i].prevlen) - z.entries[k].prevsize

\* p -= nextdiff must stay within the deleted run.
DeleteOverruns(z, i, num) ==
  DeleteNextDiff(z, i, num) > Offsets(z.entries)[i + DeleteCount(z, i, num)] - Offsets(z.entries)[i]

ZiplistDeleteAt(z, i, num) ==
  LET es       == z.entries
      first    == es[i]
      deleted  == DeleteCount(z, i, num)
      k        == i + deleted
      totlen   == Offsets(es)[k] - Offsets(es)[i]
      nextdiff == DeleteNextDiff(z, i, num)
      rest     == IF k > Len(es) THEN <<>>
                  ELSE <<[es[k] EXCEPT !.prevsize = PrevEncodeSize(first.prevlen),
                                       !.prevlen = first.prevlen]>> \o SubSeq(es, k + 1, Len(es))
      tail1    == IF k > Len(es) THEN Offsets(es)[i] - first.prevlen
                  ELSE z.zltail - totlen + (IF k < Len(es) THEN nextdiff ELSE 0)
      z1       == [entries |-> SubSeq(es, 1, i - 1) \o rest,
                   zlbytes |-> z.zlbytes - totlen + nextdiff,
                   zltail |-> tail1, zllen |-> IncrLength(z.zllen, -deleted)]
  IN  IF totlen = 0 THEN z ELSE IF nextdiff # 0 THEN CascadeUpdate(z1, i) ELSE z1

(***************************************************************************)
(* Navigation: an entry index, 0 for NULL.                                 *)
(***************************************************************************)
\* ziplistIndex's backward walk: n more steps by prevlen from entry p.
RECURSIVE IndexBack(_, _, _)
IndexBack(es, p, n) ==
  IF es[p].prevlen > 0 /\ n # 0
  THEN LET q == EntryAt(es, Offsets(es)[p] - es[p].prevlen)
       IN  IF q = 0 THEN 0 ELSE IndexBack(es, q, n - 1)
  ELSE IF n > 0 THEN 0 ELSE p

\* Mutant: a negative index walks -index steps back instead of -index - 1.
ZiplistIndexFromOne(z, index) ==
  IF index < 0
  THEN LET t == EntryAt(z.entries, z.zltail)
       IN  IF t = 0 THEN 0 ELSE IndexBack(z.entries, t, -index)
  ELSE IF index < Len(z.entries) THEN index + 1 ELSE 0

\* ziplistIndex: forward by raw length from the head, backward by prevlen
\* from the entry zltail points at.
ZiplistIndex(z, index) ==
  IF index < 0
  THEN LET t == EntryAt(z.entries, z.zltail)
       IN  IF t = 0 THEN 0 ELSE IndexBack(z.entries, t, -index - 1)
  ELSE IF index < Len(z.entries) THEN index + 1 ELSE 0

\* ziplistPrev from entry p (Len + 1: the terminator).
ZiplistPrev(z, p) ==
  CASE p = Len(z.entries) + 1 -> EntryAt(z.entries, z.zltail)
    [] p = 1                  -> 0
    [] OTHER                  -> EntryAt(z.entries, Offsets(z.entries)[p] - z.entries[p].prevlen)

\* ziplistLen: zllen, or a count by raw length when it is saturated, saved
\* back when it fits.
ZiplistLen(z) ==
  IF z.zllen < ZLLEN_MAX THEN [len |-> z.zllen, zl |-> z]
  ELSE [len |-> Len(z.entries),
        zl  |-> IF Len(z.entries) < ZLLEN_MAX THEN [z EXCEPT !.zllen = Len(z.entries)] ELSE z]

\* The comparison of ziplistCompare and of ziplistFind's loop: a string entry
\* by length and bytes, an integer entry by value when s is an integer string
\* (zipTryEncoding; ziplistFind caches its outcome in vencoding, which does
\* not change the answer).
EntryEquals(e, s) ==
  IF ~TryEncoding(e.val) THEN e.len = s.slen /\ e.val = s
  ELSE TryEncoding(s) /\ e.val.num = s.num

\* ziplistCompare(p, s): 0 at the terminator.
ZiplistCompare(es, p, s) == p <= Len(es) /\ EntryEquals(es[p], s)

\* ziplistFind with the loop's skipcnt, when it does not reset skipcnt after
\* a failed comparison.
RECURSIVE FindFromNoReset(_, _, _, _, _)
FindFromNoReset(es, p, s, skip, skipcnt) ==
  CASE p > Len(es)                             -> 0
    [] skipcnt = 0 /\ EntryEquals(es[p], s)    -> p
    [] skipcnt = 0                             -> FindFromNoReset(es, p + 1, s, skip, skipcnt)
    [] OTHER                                   -> FindFromNoReset(es, p + 1, s, skip, skipcnt - 1)

\* The while loop of ziplistFind from entry p: compare, then skip `skip'
\* entries; 0 (NULL) at the terminator.
RECURSIVE FindFrom(_, _, _, _, _)
FindFrom(es, p, s, skip, skipcnt) ==
  CASE p > Len(es)                             -> 0
    [] skipcnt = 0 /\ EntryEquals(es[p], s)    -> p
    [] skipcnt = 0                             -> FindFrom(es, p + 1, s, skip, skip)
    [] OTHER                                   -> FindFrom(es, p + 1, s, skip, skipcnt - 1)

ZiplistFind(es, p, s, skip) == FindFrom(es, p, s, skip, 0)

(***************************************************************************)
(* The API calls.                                                          *)
(***************************************************************************)
Called(c) == call' = [cmd |-> c, bit |-> 1 - call.bit]

Init == /\ zl = ZiplistNew
        /\ overrun = {}
        /\ call = [cmd |-> <<"new">>, bit |-> 0]

\* ziplistPush: insert at the head entry or at the terminator.
Push(s, where) ==
  LET i == IF where = "head" THEN 1 ELSE Len(zl.entries) + 1
  IN  /\ Len(zl.entries) < MAX_ENTRIES
      /\ zl' = ZiplistInsertAt(zl, i, s)
      /\ overrun' = overrun \cup (IF InsertOverruns(zl, i, s) THEN {"insert"} ELSE {})
      /\ Called(<<"push", s, where>>)

\* ziplistInsert before entry i.
Insert(i, s) ==
  /\ Len(zl.entries) < MAX_ENTRIES
  /\ zl' = ZiplistInsertAt(zl, i, s)
  /\ overrun' = overrun \cup (IF InsertOverruns(zl, i, s) THEN {"insert"} ELSE {})
  /\ Called(<<"insert", i, s>>)

\* ziplistDelete of entry i.
Delete(i) ==
  /\ zl' = ZiplistDeleteAt(zl, i, 1)
  /\ overrun' = overrun \cup (IF DeleteOverruns(zl, i, 1) THEN {"delete"} ELSE {})
  /\ Called(<<"delete", i>>)

\* ziplistDeleteRange(zl, index, num): a no-op when ziplistIndex is NULL.
DeleteRange(index, num) ==
  LET p == ZiplistIndex(zl, index)
  IN  /\ zl' = IF p = 0 THEN zl ELSE ZiplistDeleteAt(zl, p, num)
      /\ overrun' = overrun \cup (IF p # 0 /\ DeleteOverruns(zl, p, num) THEN {"delete"} ELSE {})
      /\ Called(<<"deleterange", index, num>>)

\* ziplistLen, which re-saves a count that fits again.
Length ==
  /\ zl' = ZiplistLen(zl).zl
  /\ UNCHANGED overrun
  /\ Called(<<"len">>)

\* ziplistCompare at entry p (Len + 1 is the terminator).
Compare(p, s) ==
  /\ UNCHANGED <<zl, overrun>>
  /\ Called(<<"compare", p, s, ZiplistCompare(zl.entries, p, s)>>)

\* ziplistFind from entry p.
Find(p, s, skip) ==
  /\ UNCHANGED <<zl, overrun>>
  /\ Called(<<"find", p, s, skip, ZiplistFind(zl.entries, p, s, skip)>>)

Indexes == -(MAX_ENTRIES + 1) .. MAX_ENTRIES

\* The skips callers pass: 0, and 1 for field/value pairs.
FindSkips == {0, 1}

\* After a memmove outside the blob the behaviour is undefined: the model
\* stops there.
Next ==
  /\ overrun = {}
  /\ \/ \E s \in Payloads, where \in {"head", "tail"} : Push(s, where)
     \/ \E i \in 1 .. Len(zl.entries), s \in Payloads : Insert(i, s)
     \/ \E i \in 1 .. Len(zl.entries) : Delete(i)
     \/ \E index \in Indexes, num \in 0 .. 2 : DeleteRange(index, num)
     \/ Length
     \/ \E p \in 1 .. Len(zl.entries) + 1, s \in Payloads :
          \/ Compare(p, s)
          \/ \E skip \in FindSkips : Find(p, s, skip)

Spec == Init /\ [][Next]_vars

(***************************************************************************)
(* Properties.                                                             *)
(***************************************************************************)
Vals(es) == [i \in DOMAIN es |-> es[i].val]

ZiplistTypeOK ==
  /\ zl.entries \in Seq([prevsize : {1, 5}, prevlen : Nat, lensize : {1, 2, 5},
                         len : Nat, val : Payloads])
  /\ zl.zllen \in 0 .. ZLLEN_MAX
  /\ overrun \subseteq {"insert", "delete"}

\* spec.md 8.6 and the tail-offset invariant: zlbytes is the blob's size,
\* the first entry's prevlen is 0 and its field wide enough for it, and
\* ziplistPrev, from every entry and from the terminator, which goes by
\* zltail and by each entry's prevlen, lands on the entry before it.
\* Insertion, deletion and the cascade each rewrite these fields by their
\* own arithmetic, the cascade stopping early and never shrinking a field.
LayoutConsistent ==
  LET es == zl.entries
      n  == Len(es)
  IN  /\ zl.zlbytes = Offsets(es)[n + 1] + 1
      /\ n = 0 => zl.zltail = ZIPLIST_HEADER_SIZE
      /\ n > 0 => es[1].prevlen = 0
      /\ \A i \in 1 .. n : es[i].prevsize >= PrevEncodeSize(es[i].prevlen)
      /\ \A p \in 2 .. n + 1 : ZiplistPrev(zl, p) = p - 1

\* ziplistLen counts the entries: zllen is exact until it sticks at
\* UINT16_MAX, and a stuck count is recounted and saved again once it fits.
ZllenSound == ZiplistLen(zl).len = Len(zl.entries)

\* No memmove of __ziplistInsert or __ziplistDelete reads or writes
\* outside the blob as resized just before it.
NoOverrun == overrun = {}

\* Every call leaves the payloads, read head to tail, as the packed-list
\* contract says for its arguments.
PL == INSTANCE PackedList WITH list <- Vals(zl.entries), call <- call

PackedListSpec == PL!Spec

=============================================================================
