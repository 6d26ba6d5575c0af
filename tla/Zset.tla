-------------------------------- MODULE Zset --------------------------------
(***************************************************************************)
(* One sorted-set key of src/struct/t_zset.c and the commands that change  *)
(* it: ZADD, ZINCRBY, ZREM, ZREMRANGEBYSCORE, ZREMRANGEBYLEX and           *)
(* ZREMRANGEBYRANK.  Each command runs to completion in one step (the      *)
(* server is single-threaded).                                             *)
(*                                                                         *)
(* enc is the key's object encoding ("none" when the key does not exist).  *)
(* In ziplist form zl is the ziplist as its sequence of entries,           *)
(* <<ele1, score1, ele2, score2, ...>>: the byte layout is the Ziplist     *)
(* component's concern, the zzl* functions only see entries.  A score is   *)
(* written with d2string and read back with zzlGetScore; for the integral  *)
(* scores modelled that round trip gives the same number, so an entry      *)
(* holds the score itself.  In skip-list form zsl is the skip list and     *)
(* dict the zset dict, element -> the node whose score field its value     *)
(* points to (&znode->score).  The dict is taken at its DictMap level: the *)
(* dict_ops run shows dictAdd/dictDelete/dictResize change the contents    *)
(* only as a map.  panic records that a redisAssert failed.                *)
(***************************************************************************)
EXTENDS ZRange, Sequences, FiniteSets

CONSTANTS
  Scores, NoScore, ZSKIPLIST_MAXLEVEL,
  ZSET_MAX_ZIPLIST_ENTRIES,   \* server.zset_max_ziplist_entries
  LongElems,                  \* elements with sdslen > server.zset_max_ziplist_value
  MAX_ARGS                    \* most (score, element) pairs of a ZADD, elements of a ZREM

ASSUME ZSET_MAX_ZIPLIST_ENTRIES \in Nat
ASSUME LongElems \subseteq Elems
ASSUME MAX_ARGS \in Nat \ {0}

VARIABLES enc, zl, zsl, dict, panic

vars == <<enc, zl, zsl, dict, panic>>

SL == INSTANCE Skiplist

NIL == SL!NIL

\* The state of the key as one record, threaded through a command's loop.
Key == [enc |-> enc, zl |-> zl, zsl |-> zsl, dict |-> dict, panic |-> panic]

NoDict == [e \in Elems |-> NIL]

\* dbDelete of the key: the object and everything it owns is freed.
Deleted(k) == [k EXCEPT !.enc = "none", !.zl = <<>>, !.zsl = SL!ZslCreate, !.dict = NoDict]

(***************************************************************************)
(* The ziplist form, the zzl functions.  An element entry is at an odd    *)
(* index i, its score at i + 1; 0 stands for a NULL entry pointer.         *)
(***************************************************************************)
ZzlLength(z) == Len(z) \div 2

EltIdx(z) == {i \in 1 .. Len(z) : i % 2 = 1}

\* The first element index satisfying a test, walking from the head, or 0.
FirstIdx(S) == IF S = {} THEN 0 ELSE CHOOSE i \in S : \A j \in S : i <= j

\* zzlFind: the element entry equal to ele, or 0.
ZzlFind(z, ele) == FirstIdx({i \in EltIdx(z) : z[i] = ele})

\* zzlDelete: ziplistDelete twice at the element, removing it and its score.
ZzlDelete(z, i) == SubSeq(z, 1, i - 1) \o SubSeq(z, i + 2, Len(z))

\* Mutant: the score is pushed before the element.
ZzlInsertAtSwapped(z, i, ele, score) ==
  IF i = 0 THEN z \o <<score, ele>>
  ELSE SubSeq(z, 1, i - 1) \o <<score, ele>> \o SubSeq(z, i, Len(z))

\* zzlInsertAt: push both entries at the tail (NULL), or insert the element
\* before eptr and its score after it.
ZzlInsertAt(z, i, ele, score) ==
  IF i = 0 THEN z \o <<ele, score>>
  ELSE SubSeq(z, 1, i - 1) \o <<ele, score>> \o SubSeq(z, i, Len(z))

\* Mutant: equal scores are not ordered by element.
ZzlInsertNoLex(z, ele, score) ==
  ZzlInsertAt(z, FirstIdx({i \in EltIdx(z) : z[i + 1] > score}), ele, score)

\* zzlInsert: before the first element with a larger score, or with an
\* equal score and a larger string; at the tail when there is none.
ZzlInsert(z, ele, score) ==
  LET Later(i) == z[i + 1] > score \/ (z[i + 1] = score /\ CompareStringObjects(z[i], ele) > 0)
  IN  ZzlInsertAt(z, FirstIdx({i \in EltIdx(z) : Later(i)}), ele, score)

\* zzlIsInRange.
ZzlIsInRange(z, r) ==
  /\ ~(r.min > r.max \/ (r.min = r.max /\ (r.minex \/ r.maxex)))
  /\ Len(z) > 0
  /\ ZslValueGteMin(z[Len(z)], r)
  /\ ZslValueLteMax(z[2], r)

\* zzlFirstInRange: the first element whose score is >= min, if <= max.
ZzlFirstInRange(z, r) ==
  IF ~ZzlIsInRange(z, r) THEN 0
  ELSE LET i == FirstIdx({j \in EltIdx(z) : ZslValueGteMin(z[j + 1], r)})
       IN  IF i # 0 /\ ZslValueLteMax(z[i + 1], r) THEN i ELSE 0

\* zzlIsInLexRange.
ZzlIsInLexRange(z, r) ==
  /\ ~(CompareForLexRange(r.min, r.max) > 1 \/
       (CompareStringObjects(r.min, r.max) = 0 /\ (r.minex \/ r.maxex)))
  /\ Len(z) > 0
  /\ ZslLexValueGteMin(z[Len(z) - 1], r)
  /\ ZslLexValueLteMax(z[1], r)

\* zzlFirstInLexRange.
ZzlFirstInLexRange(z, r) ==
  IF ~ZzlIsInLexRange(z, r) THEN 0
  ELSE LET i == FirstIdx({j \in EltIdx(z) : ZslLexValueGteMin(z[j], r)})
       IN  IF i # 0 /\ ZslLexValueLteMax(z[i], r) THEN i ELSE 0

\* The number of pairs from element index i on that the deletion loop of
\* zzlDeleteRangeBy{Score,Lex} removes: it stops at the first pair failing
\* the max test, or at the end.
RunLength(z, i, InMax(_)) ==
  LET stop == {k \in 0 .. (Len(z) - i + 1) \div 2 :
                 k = (Len(z) - i + 1) \div 2 \/ ~InMax(i + 2 * k)}
  IN  FirstIdx(stop)

\* ziplistDeleteRange(zl, index, num): num entries from 0-based index.
ZiplistDeleteRange(z, index, num) == SubSeq(z, 1, index) \o SubSeq(z, index + num + 1, Len(z))

\* zzlDeleteRangeByScore.
ZzlDeleteRangeByScore(z, r) ==
  LET i == ZzlFirstInRange(z, r)
  IN  IF i = 0 THEN z
      ELSE ZiplistDeleteRange(z, i - 1, 2 * RunLength(z, i, LAMBDA j : ZslValueLteMax(z[j + 1], r)))

\* zzlDeleteRangeByLex.
ZzlDeleteRangeByLex(z, r) ==
  LET i == ZzlFirstInLexRange(z, r)
  IN  IF i = 0 THEN z
      ELSE ZiplistDeleteRange(z, i - 1, 2 * RunLength(z, i, LAMBDA j : ZslLexValueLteMax(z[j], r)))

\* zzlDeleteRangeByRank with num computed as end - start, exclusive end.
ZzlDeleteRangeByRankShort(z, start, end) == ZiplistDeleteRange(z, 2 * (start - 1), 2 * (end - start))

\* zzlDeleteRangeByRank(zl, start, end), 1-based inclusive.
ZzlDeleteRangeByRank(z, start, end) == ZiplistDeleteRange(z, 2 * (start - 1), 2 * (end - start + 1))

(***************************************************************************)
(* The skip-list form and the conversion.  A step that may call zslInsert *)
(* gives the set of keys it can produce, one per zslRandomLevel outcome.  *)
(***************************************************************************)
\* What ZSCORE reads: the ziplist's score entry, or the score the dict
\* value points to.
Contents(k) ==
  [e \in Elems |-> CASE k.enc = "ziplist" /\ ZzlFind(k.zl, e) # 0 -> k.zl[ZzlFind(k.zl, e) + 1]
                     [] k.enc = "skiplist" /\ k.dict[e] # NIL   -> k.zsl.score[k.dict[e]]
                     [] OTHER                                  -> NoScore]

\* zsetLength.
ZsetLength(k) == IF k.enc = "ziplist" THEN ZzlLength(k.zl) ELSE k.zsl.length

\* zsetConvert(zobj, REDIS_ENCODING_SKIPLIST): every pair, head to tail, is
\* zslInserted and dictAdded (asserting DICT_OK); a no-op when the key is
\* already a skip list.
ZsetConvert(k) ==
  IF k.enc = "skiplist" THEN {k}
  ELSE LET n == ZzlLength(k.zl)
       IN  { LET st[j \in 0 .. n] ==
                   IF j = 0 THEN [zsl |-> SL!ZslCreate, dict |-> NoDict, ok |-> TRUE]
                   ELSE LET e == k.zl[2 * j - 1]
                        IN  [zsl  |-> SL!ZslInsert(st[j - 1].zsl, k.zl[2 * j], e, lv[j]),
                             dict |-> [st[j - 1].dict EXCEPT ![e] = SL!NewNode(st[j - 1].zsl)],
                             ok   |-> st[j - 1].ok /\ st[j - 1].dict[e] = NIL]
             IN  [k EXCEPT !.enc = "skiplist", !.zl = <<>>, !.zsl = st[n].zsl,
                           !.dict = st[n].dict, !.panic = @ \/ ~st[n].ok]
           : lv \in [1 .. n -> SL!RandomLevels] }

\* A failed redisAssert: the server stops with the key as it was.
Panic(k) == [k EXCEPT !.panic = TRUE]

\* Mutant: the dict value keeps pointing at the node zslDelete freed.
ZaddSkiplistNoRepoint(k, ele, score, incr) ==
  LET n == k.dict[ele]
  IN  IF n # NIL
      THEN LET cur == k.zsl.score[n]
               new == IF incr THEN score + cur ELSE score
               del == SL!ZslDelete(k.zsl, cur, ele)
           IN  IF new = cur THEN {k}
               ELSE IF ~del.deleted THEN {Panic(k)}
               ELSE {[k EXCEPT !.zsl = SL!ZslInsert(del.zsl, new, ele, l)] : l \in SL!RandomLevels}
      ELSE {[k EXCEPT !.zsl = SL!ZslInsert(k.zsl, score, ele, l),
                      !.dict[ele] = SL!NewNode(k.zsl)] : l \in SL!RandomLevels}

\* The ZADD / ZINCRBY loop body for one (score, ele) pair, skip-list form:
\* an existing element whose score changes is zslDeleted (asserted) and
\* zslInserted again, and its dict value repointed to the new node; a new
\* element is zslInserted and dictAdded.
ZaddSkiplist(k, ele, score, incr) ==
  LET n == k.dict[ele]
  IN  IF n # NIL
      THEN LET cur == k.zsl.score[n]
               new == IF incr THEN score + cur ELSE score
               del == SL!ZslDelete(k.zsl, cur, ele)
           IN  IF new = cur THEN {k}
               ELSE IF ~del.deleted THEN {Panic(k)}
               ELSE {[k EXCEPT !.zsl = SL!ZslInsert(del.zsl, new, ele, l),
                               !.dict[ele] = SL!NewNode(del.zsl)] : l \in SL!RandomLevels}
      ELSE {[k EXCEPT !.zsl = SL!ZslInsert(k.zsl, score, ele, l),
                      !.dict[ele] = SL!NewNode(k.zsl)] : l \in SL!RandomLevels}

\* Mutant: the length is checked before zzlInsert, as the comment suggests.
ZaddZiplistCheckFirst(k, ele, score, incr) ==
  LET i == ZzlFind(k.zl, ele)
  IN  IF i # 0
      THEN LET cur == k.zl[i + 1]
               new == IF incr THEN score + cur ELSE score
           IN  IF new = cur THEN {k}
               ELSE {[k EXCEPT !.zl = ZzlInsert(ZzlDelete(k.zl, i), ele, new)]}
      ELSE LET k2 == [k EXCEPT !.zl = ZzlInsert(k.zl, ele, score)]
               k3 == IF ZzlLength(k.zl) > ZSET_MAX_ZIPLIST_ENTRIES THEN ZsetConvert(k2) ELSE {k2}
           IN  UNION {IF ele \in LongElems THEN ZsetConvert(k4) ELSE {k4} : k4 \in k3}

\* The loop body, ziplist form: a changed score is zzlDelete + zzlInsert; a
\* new element is zzlInserted, and the key converted when the ziplist is
\* now longer than zset_max_ziplist_entries or the element longer than
\* zset_max_ziplist_value.
ZaddZiplist(k, ele, score, incr) ==
  LET i == ZzlFind(k.zl, ele)
  IN  IF i # 0
      THEN LET cur == k.zl[i + 1]
               new == IF incr THEN score + cur ELSE score
           IN  IF new = cur THEN {k}
               ELSE {[k EXCEPT !.zl = ZzlInsert(ZzlDelete(k.zl, i), ele, new)]}
      ELSE LET k2 == [k EXCEPT !.zl = ZzlInsert(k.zl, ele, score)]
               k3 == IF ZzlLength(k2.zl) > ZSET_MAX_ZIPLIST_ENTRIES THEN ZsetConvert(k2) ELSE {k2}
           IN  UNION {IF ele \in LongElems THEN ZsetConvert(k4) ELSE {k4} : k4 \in k3}

ZaddPair(k, ele, score, incr) ==
  IF k.enc = "ziplist" THEN ZaddZiplist(k, ele, score, incr) ELSE ZaddSkiplist(k, ele, score, incr)

\* zaddGenericCommand: create the key if absent (a skip list when
\* zset_max_ziplist_entries is 0 or the first element is too long), then
\* apply the pairs in order.
ZaddGeneric(k, pairs, incr) ==
  LET k0 == IF k.enc # "none" THEN k
            ELSE IF ZSET_MAX_ZIPLIST_ENTRIES = 0 \/ pairs[1].ele \in LongElems
                 THEN [k EXCEPT !.enc = "skiplist"]
                 ELSE [k EXCEPT !.enc = "ziplist"]
      R[j \in 0 .. Len(pairs)] ==
        IF j = 0 THEN {k0}
        ELSE UNION {IF m.panic THEN {m} ELSE ZaddPair(m, pairs[j].ele, pairs[j].score, incr) : m \in R[j - 1]}
  IN  R[Len(pairs)]

\* Mutant: the element is removed from the skip list but not from the dict.
ZremOneNoDictDelete(k, ele) ==
  CASE k.enc = "ziplist" /\ ZzlFind(k.zl, ele) # 0 ->
         LET z2 == ZzlDelete(k.zl, ZzlFind(k.zl, ele))
         IN  IF ZzlLength(z2) = 0 THEN Deleted(k) ELSE [k EXCEPT !.zl = z2]
    [] k.enc = "skiplist" /\ k.dict[ele] # NIL ->
         LET del == SL!ZslDelete(k.zsl, k.zsl.score[k.dict[ele]], ele)
             k2  == [k EXCEPT !.zsl = del.zsl]
         IN  IF ~del.deleted THEN Panic(k)
             ELSE IF \A e \in Elems : k2.dict[e] = NIL THEN Deleted(k2) ELSE k2
    [] OTHER -> k

\* Mutant: the emptiness test reads the dict before the dictDelete.
ZremOneStaleSize(k, ele) ==
  CASE k.enc = "ziplist" /\ ZzlFind(k.zl, ele) # 0 ->
         LET z2 == ZzlDelete(k.zl, ZzlFind(k.zl, ele))
         IN  IF ZzlLength(z2) = 0 THEN Deleted(k) ELSE [k EXCEPT !.zl = z2]
    [] k.enc = "skiplist" /\ k.dict[ele] # NIL ->
         LET del == SL!ZslDelete(k.zsl, k.zsl.score[k.dict[ele]], ele)
             k2  == [k EXCEPT !.zsl = del.zsl, !.dict[ele] = NIL]
         IN  IF ~del.deleted THEN Panic(k)
             ELSE IF \A e \in Elems : k.dict[e] = NIL THEN Deleted(k2) ELSE k2
    [] OTHER -> k

\* The zremCommand loop body: remove ele if present; the key is deleted (and
\* the loop left) when the set becomes empty.  A deleted key makes the rest
\* of the loop a no-op, as the break does.
ZremOne(k, ele) ==
  CASE k.enc = "ziplist" /\ ZzlFind(k.zl, ele) # 0 ->
         LET z2 == ZzlDelete(k.zl, ZzlFind(k.zl, ele))
         IN  IF ZzlLength(z2) = 0 THEN Deleted(k) ELSE [k EXCEPT !.zl = z2]
    [] k.enc = "skiplist" /\ k.dict[ele] # NIL ->
         LET del == SL!ZslDelete(k.zsl, k.zsl.score[k.dict[ele]], ele)
             k2  == [k EXCEPT !.zsl = del.zsl, !.dict[ele] = NIL]
         IN  IF ~del.deleted THEN Panic(k)
             ELSE IF \A e \in Elems : k2.dict[e] = NIL THEN Deleted(k2) ELSE k2
    [] OTHER -> k

RECURSIVE ZremLoop(_, _)
ZremLoop(k, eles) ==
  IF eles = <<>> \/ k.panic THEN k ELSE ZremLoop(ZremOne(k, Head(eles)), Tail(eles))

\* Step 3 of zremrangeGenericCommand in skip-list form: the zslDeleteRange
\* call dictDeletes every removed element; then the key goes if empty.
AfterZslRange(k, res) ==
  LET k2 == [k EXCEPT !.zsl = res.zsl,
                      !.dict = [e \in Elems |-> IF e \in res.removed THEN NIL ELSE k.dict[e]]]
  IN  IF \A e \in Elems : k2.dict[e] = NIL THEN Deleted(k2) ELSE k2

AfterZzlRange(k, z2) == IF ZzlLength(z2) = 0 THEN Deleted(k) ELSE [k EXCEPT !.zl = z2]

\* ZREMRANGEBYRANK: negative indexes count from the end, start is clamped
\* at 0, an empty range is a no-op, end is clamped at length - 1.
ZremrangeRank(k, start0, end0) ==
  LET llen  == ZsetLength(k)
      s1    == IF start0 < 0 THEN llen + start0 ELSE start0
      e1    == IF end0 < 0 THEN llen + end0 ELSE end0
      start == IF s1 < 0 THEN 0 ELSE s1
      end   == IF e1 >= llen THEN llen - 1 ELSE e1
  IN  IF k.enc = "none" \/ start > e1 \/ start >= llen THEN k
      ELSE IF k.enc = "ziplist" THEN AfterZzlRange(k, ZzlDeleteRangeByRank(k.zl, start + 1, end + 1))
      ELSE AfterZslRange(k, SL!ZslDeleteRangeByRank(k.zsl, start + 1, end + 1))

ZremrangeScore(k, r) ==
  CASE k.enc = "ziplist"  -> AfterZzlRange(k, ZzlDeleteRangeByScore(k.zl, r))
    [] k.enc = "skiplist" -> AfterZslRange(k, SL!ZslDeleteRangeByScore(k.zsl, r))
    [] OTHER              -> k

ZremrangeLex(k, r) ==
  CASE k.enc = "ziplist"  -> AfterZzlRange(k, ZzlDeleteRangeByLex(k.zl, r))
    [] k.enc = "skiplist" -> AfterZslRange(k, SL!ZslDeleteRangeByLex(k.zsl, r))
    [] OTHER              -> k

(***************************************************************************)
(* Commands.                                                               *)
(***************************************************************************)
Pairs == [ele : Elems, score : Scores]

\* Argument lists: 1 .. MAX_ARGS items.
ArgSeqs(S) == UNION {[1 .. n -> S] : n \in 1 .. MAX_ARGS}

\* Rank arguments: every index from one before the first (negative) to one
\* past the last.
RankArgs == -(Cardinality(Elems) + 1) .. Cardinality(Elems)

SetKey(k) == /\ enc' = k.enc
             /\ zl' = k.zl
             /\ zsl' = k.zsl
             /\ dict' = k.dict
             /\ panic' = k.panic

Init == /\ enc = "none"
        /\ zl = <<>>
        /\ zsl = SL!ZslCreate
        /\ dict = NoDict
        /\ panic = FALSE

\* ZADD key score ele [score ele ...].
Zadd(pairs) == \E k \in ZaddGeneric(Key, pairs, FALSE) : SetKey(k)

\* ZINCRBY key incr ele; the resulting score stays within Scores.
Zincrby(ele, incr) ==
  /\ incr + (IF Contents(Key)[ele] = NoScore THEN 0 ELSE Contents(Key)[ele]) \in Scores
  /\ \E k \in ZaddGeneric(Key, <<[ele |-> ele, score |-> incr]>>, TRUE) : SetKey(k)

\* ZREM key ele [ele ...].
Zrem(eles) == SetKey(ZremLoop(Key, eles))

ZremrangeByRank(start, end) == SetKey(ZremrangeRank(Key, start, end))

ZremrangeByScore(r) == SetKey(ZremrangeScore(Key, r))

ZremrangeByLex(r) == SetKey(ZremrangeLex(Key, r))

\* A failed redisAssert stops the server: no command runs after it.
Next ==
  /\ ~panic
  /\ \/ \E pairs \in ArgSeqs(Pairs) : Zadd(pairs)
     \/ \E e \in Elems, s \in Scores : Zincrby(e, s)
     \/ \E eles \in ArgSeqs(Elems) : Zrem(eles)
     \/ \E start, end \in RankArgs : ZremrangeByRank(start, end)
     \/ \E r \in ZRangeSpecs : ZremrangeByScore(r)
     \/ \E r \in ZLexRangeSpecs : ZremrangeByLex(r)

Spec == Init /\ [][Next]_vars

(***************************************************************************)
(* Properties.                                                             *)
(***************************************************************************)
ZsetTypeOK ==
  /\ enc \in {"none", "ziplist", "skiplist"}
  /\ zl \in Seq(Elems \cup Scores)
  /\ \A i \in DOMAIN zl : zl[i] \in IF i % 2 = 1 THEN Elems ELSE Scores
  /\ dict \in [Elems -> SL!NodeIds \cup {NIL}]
  /\ panic \in BOOLEAN

\* In skip-list form the dict and the skip list hold the same elements,
\* and every dict value points to the live node of its element, so the
\* score ZSCORE and ZREM read through it is the one the skip list is
\* ordered by (ZADD re-inserts a node and must repoint the value).
DualConsistent ==
  enc = "skiplist" =>
    /\ {e \in Elems : dict[e] # NIL} = SL!Objs(zsl)
    /\ \A e \in Elems : dict[e] # NIL => dict[e] \in zsl.inuse /\ zsl.obj[dict[e]] = e

\* In ziplist form the entries alternate element and score and the pairs
\* are in strictly increasing (score, element) order, so no element is
\* stored twice.
ZiplistSorted ==
  enc = "ziplist" =>
    /\ Len(zl) % 2 = 0
    /\ \A i \in EltIdx(zl) : i + 2 <= Len(zl) =>
         \/ zl[i + 1] < zl[i + 3]
         \/ zl[i + 1] = zl[i + 3] /\ CompareStringObjects(zl[i], zl[i + 2]) < 0

\* A key in ziplist form never holds more than zset_max_ziplist_entries
\* pairs or an element longer than zset_max_ziplist_value: ZADD inserts
\* first and converts afterwards, within the same command.
EncodingBound ==
  enc = "ziplist" =>
    /\ ZzlLength(zl) <= ZSET_MAX_ZIPLIST_ENTRIES
    /\ \A i \in EltIdx(zl) : zl[i] \notin LongElems

\* No key is left holding an empty sorted set: ZREM and ZREMRANGEBY*
\* delete the key when the last element goes, in either form.
NoEmptyKey == enc # "none" => ZsetLength(Key) > 0 /\ Contents(Key) # [e \in Elems |-> NoScore]

\* No redisAssert of ZADD, ZINCRBY, ZREM, zsetConvert or of a read command
\* (ZRANGE's walk of rangelen entries, ZCOUNT's first entry, ZRANK's rank)
\* fails.
NoAssertFails == ~panic

=============================================================================
