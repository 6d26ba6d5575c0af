----------------------------- MODULE ZsetQueries -----------------------------
(***************************************************************************)
(* The read commands of src/struct/t_zset.c on one key, in both           *)
(* encodings: ZCARD, ZRANK / ZREVRANK, ZRANGE / ZREVRANGE,                 *)
(* ZRANGEBYSCORE / ZREVRANGEBYSCORE, ZRANGEBYLEX / ZREVRANGEBYLEX, ZCOUNT  *)
(* and ZLEXCOUNT.  Each is an operator from the key to [reply, ok]: the    *)
(* reply the client gets and whether every redisAssert on the way holds.   *)
(* A reply is a number, NullReply for a null bulk, or the sequence of the  *)
(* entries written: an element for the lex commands, <<element, score>>    *)
(* for the others (WITHSCORES only chooses whether the score gathered is   *)
(* also written).  Argument parsing and the reply encoding are left out.   *)
(***************************************************************************)
EXTENDS Zset

\* shared.nullbulk: no rank is negative.
NullReply == -1

\* The last index satisfying a test, or 0.
LastIdx(S) == IF S = {} THEN 0 ELSE CHOOSE i \in S : \A j \in S : i >= j

\* ziplistIndex(zl, index) on the key's ziplist: the 1-based entry, 0 for NULL.
ZzlIndex(z, index) ==
  CASE index < 0 /\ -index <= Len(z) -> Len(z) + index + 1
    [] index >= 0 /\ index < Len(z)  -> index + 1
    [] OTHER                         -> 0

\* zzlLastInRange: walking back from the tail, the first element whose
\* score is <= max, if it is also >= min.
ZzlLastInRange(z, r) ==
  IF ~ZzlIsInRange(z, r) THEN 0
  ELSE LET i == LastIdx({j \in EltIdx(z) : ZslValueLteMax(z[j + 1], r)})
       IN  IF i # 0 /\ ZslValueGteMin(z[i + 1], r) THEN i ELSE 0

\* zzlLastInLexRange.
ZzlLastInLexRange(z, r) ==
  IF ~ZzlIsInLexRange(z, r) THEN 0
  ELSE LET i == LastIdx({j \in EltIdx(z) : ZslLexValueLteMax(z[j], r)})
       IN  IF i # 0 /\ ZslLexValueGteMin(z[i], r) THEN i ELSE 0

(***************************************************************************)
(* A walk's cursor is the element entry's index in ziplist form (eptr,    *)
(* its score at the next index) and the node in skip-list form.           *)
(***************************************************************************)
None(k) == IF k.enc = "ziplist" THEN 0 ELSE NIL

EleAt(k, c)   == IF k.enc = "ziplist" THEN k.zl[c] ELSE k.zsl.obj[c]
ScoreAt(k, c) == IF k.enc = "ziplist" THEN k.zl[c + 1] ELSE k.zsl.score[c]

\* Mutant: zzlPrev stops one pair early, never reaching the head pair.
MovePrevShort(k, c, reverse) ==
  CASE k.enc = "ziplist" /\ reverse -> IF c > 3 THEN c - 2 ELSE 0
    [] k.enc = "ziplist"            -> IF c + 2 <= Len(k.zl) THEN c + 2 ELSE 0
    [] reverse                      -> k.zsl.backward[c]
    [] OTHER                        -> k.zsl.fwd[c][0]

\* zzlNext / zzlPrev, or ln->level[0].forward / ln->backward.
Move(k, c, reverse) ==
  CASE k.enc = "ziplist" /\ reverse -> IF c > 1 THEN c - 2 ELSE 0
    [] k.enc = "ziplist"            -> IF c + 2 <= Len(k.zl) THEN c + 2 ELSE 0
    [] reverse                      -> k.zsl.backward[c]
    [] OTHER                        -> k.zsl.fwd[c][0]

\* while (eptr && offset--) move: no range test, and a negative offset
\* walks off the end.
RECURSIVE SkipN(_, _, _, _)
SkipN(k, c, n, reverse) ==
  IF c = None(k) \/ n = 0 THEN c ELSE SkipN(k, Move(k, c, reverse), n - 1, reverse)

\* The test before each entry is written: the far end of the range
\* (the max going forward, the min going back); ZRANGE has none.
InRange(k, c, q, reverse) ==
  CASE q.by = "score" -> IF reverse THEN ZslValueGteMin(ScoreAt(k, c), q.range)
                         ELSE ZslValueLteMax(ScoreAt(k, c), q.range)
    [] q.by = "lex"   -> IF reverse THEN ZslLexValueGteMin(EleAt(k, c), q.range)
                         ELSE ZslLexValueLteMax(EleAt(k, c), q.range)
    [] OTHER          -> TRUE

Item(k, c, q) == IF q.by = "lex" THEN EleAt(k, c) ELSE <<EleAt(k, c), ScoreAt(k, c)>>

\* while (eptr && limit--) { if (!in range) break; write; move; }: a
\* negative limit never reaches 0.
RECURSIVE Collect(_, _, _, _, _)
Collect(k, c, limit, q, reverse) ==
  IF c = None(k) \/ limit = 0 \/ ~InRange(k, c, q, reverse) THEN <<>>
  ELSE <<Item(k, c, q)>> \o Collect(k, Move(k, c, reverse), limit - 1, q, reverse)

(***************************************************************************)
(* The commands.                                                           *)
(***************************************************************************)
\* zcardCommand.
ZcardReply(k) == [reply |-> IF k.enc = "none" THEN 0 ELSE ZsetLength(k), ok |-> TRUE]

\* zrankGenericCommand: the 1-based position of the element entry
\* ziplistCompare finds equal, or zslGetRank of the score the dict holds
\* (asserted non-zero); llen - rank reversed, rank - 1 otherwise.
ZrankReply(k, ele, reverse) ==
  LET found == IF k.enc = "ziplist" THEN ZzlFind(k.zl, ele) # 0 ELSE k.dict[ele] # NIL
      rank  == IF k.enc = "ziplist" THEN (ZzlFind(k.zl, ele) + 1) \div 2
               ELSE SL!ZslGetRank(k.zsl, k.zsl.score[k.dict[ele]], ele)
  IN  IF k.enc = "none" \/ ~found THEN [reply |-> NullReply, ok |-> TRUE]
      ELSE [reply |-> IF reverse THEN ZsetLength(k) - rank ELSE rank - 1,
            ok    |-> rank # 0]

\* Mutant: end is not clamped to llen - 1, so the walk runs out of entries.
ZrangeReplyNoClamp(k, start0, end0, reverse) ==
  LET llen  == ZsetLength(k)
      start == IF start0 < 0 THEN (IF llen + start0 < 0 THEN 0 ELSE llen + start0) ELSE start0
      end   == IF end0 < 0 THEN llen + end0 ELSE end0
      len   == end - start + 1
      first == CASE k.enc = "ziplist" /\ reverse -> ZzlIndex(k.zl, -2 - 2 * start)
                 [] k.enc = "ziplist"            -> ZzlIndex(k.zl, 2 * start)
                 [] reverse -> IF start > 0 THEN SL!ZslGetElementByRank(k.zsl, llen - start) ELSE k.zsl.tail
                 [] OTHER   -> IF start > 0 THEN SL!ZslGetElementByRank(k.zsl, start + 1) ELSE SL!First(k.zsl)
      items == Collect(k, first, len, [by |-> "rank"], reverse)
  IN  IF k.enc = "none" \/ start > end \/ start >= llen THEN [reply |-> <<>>, ok |-> TRUE]
      ELSE [reply |-> items, ok |-> Len(items) = len]

\* zrangeGenericCommand: start and end made absolute against zsetLength,
\* start clamped to 0 and end to llen - 1; rangelen entries from the entry
\* at start (ziplistIndex 2*start or -2-2*start; the head, the tail or
\* zslGetElementByRank), each asserted to exist.
ZrangeReply(k, start0, end0, reverse) ==
  LET llen  == ZsetLength(k)
      start == IF start0 < 0 THEN (IF llen + start0 < 0 THEN 0 ELSE llen + start0) ELSE start0
      end   == IF end0 < 0 THEN llen + end0 ELSE end0
      len   == (IF end >= llen THEN llen - 1 ELSE end) - start + 1
      first == CASE k.enc = "ziplist" /\ reverse -> ZzlIndex(k.zl, -2 - 2 * start)
                 [] k.enc = "ziplist"            -> ZzlIndex(k.zl, 2 * start)
                 [] reverse -> IF start > 0 THEN SL!ZslGetElementByRank(k.zsl, llen - start) ELSE k.zsl.tail
                 [] OTHER   -> IF start > 0 THEN SL!ZslGetElementByRank(k.zsl, start + 1) ELSE SL!First(k.zsl)
      items == Collect(k, first, len, [by |-> "rank"], reverse)
  IN  IF k.enc = "none" \/ start > end \/ start >= llen THEN [reply |-> <<>>, ok |-> TRUE]
      ELSE [reply |-> items, ok |-> Len(items) = len]

\* The first entry in range, or the last one reversed (zzl/zsl
\* First/LastInRange and their lex forms).
RangeStart(k, q, reverse) ==
  CASE k.enc = "ziplist" /\ q.by = "score" ->
         IF reverse THEN ZzlLastInRange(k.zl, q.range) ELSE ZzlFirstInRange(k.zl, q.range)
    [] k.enc = "ziplist" ->
         IF reverse THEN ZzlLastInLexRange(k.zl, q.range) ELSE ZzlFirstInLexRange(k.zl, q.range)
    [] q.by = "score" ->
         IF reverse THEN SL!ZslLastInRange(k.zsl, q.range) ELSE SL!ZslFirstInRange(k.zsl, q.range)
    [] OTHER ->
         IF reverse THEN SL!ZslLastInLexRange(k.zsl, q.range) ELSE SL!ZslFirstInLexRange(k.zsl, q.range)

\* genericZrangebyscoreCommand / genericZrangebylexCommand: from the
\* start entry skip offset entries, then write up to limit while in range.
ZrangeByReply(k, q, offset, limit, reverse) ==
  LET first == RangeStart(k, q, reverse)
  IN  [reply |-> IF k.enc = "none" \/ first = None(k) THEN <<>>
                 ELSE Collect(k, SkipN(k, first, offset, reverse), limit, q, reverse),
       ok    |-> TRUE]

\* Mutant: the skip-list count leaves out the first node in range.
CountReplyOffByOne(k, q) ==
  LET first == RangeStart(k, q, FALSE)
      last  == RangeStart(k, q, TRUE)
      Rank(n) == SL!ZslGetRank(k.zsl, k.zsl.score[n], k.zsl.obj[n])
  IN  CASE k.enc = "none" \/ first = None(k) -> [reply |-> 0, ok |-> TRUE]
        [] k.enc = "ziplist" -> [reply |-> Len(Collect(k, first, -1, q, FALSE)),
                                 ok    |-> InRange(k, first, q, FALSE)]
        [] OTHER -> [reply |-> k.zsl.length - Rank(first)
                               - (IF last # NIL THEN k.zsl.length - Rank(last) ELSE 0),
                     ok    |-> TRUE]

\* zcountCommand / zlexcountCommand.  Ziplist form: count from the first
\* entry in range while the max holds, asserting it holds for the first.
\* Skip-list form: length - (rank of the first - 1), less length - rank of
\* the last when there is one.
CountReply(k, q) ==
  LET first == RangeStart(k, q, FALSE)
      last  == RangeStart(k, q, TRUE)
      Rank(n) == SL!ZslGetRank(k.zsl, k.zsl.score[n], k.zsl.obj[n])
  IN  CASE k.enc = "none" \/ first = None(k) -> [reply |-> 0, ok |-> TRUE]
        [] k.enc = "ziplist" -> [reply |-> Len(Collect(k, first, -1, q, FALSE)),
                                 ok    |-> InRange(k, first, q, FALSE)]
        [] OTHER -> [reply |-> k.zsl.length - (Rank(first) - 1)
                               - (IF last # NIL THEN k.zsl.length - Rank(last) ELSE 0),
                     ok    |-> TRUE]

=============================================================================
