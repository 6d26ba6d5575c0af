------------------------------ MODULE Skiplist ------------------------------
(***************************************************************************)
(* The skip list of src/struct/t_zset.c: zslCreate, zslInsert with        *)
(* zslRandomLevel, zslDeleteNode, zslDelete, zslDeleteRangeByScore/Lex/    *)
(* Rank, zslGetRank, zslGetElementByRank, zslIsInRange, zslFirst/          *)
(* LastInRange and their lexicographic forms.                              *)
(*                                                                         *)
(* zsl is the zskiplist with its nodes: node 0 is the header, nodes        *)
(* 1..Cardinality(Elems) the pool zslCreateNode allocates from; fwd[n][i]  *)
(* and span[n][i] are n->level[i].forward and .span, height[n] the number  *)
(* of levels zslCreateNode gave n.  A function in C is an operator from    *)
(* zsl to zsl (or to a result); the update[] and rank[] arrays of its      *)
(* search are the per-level results of Search.                             *)
(***************************************************************************)
EXTENDS ZRange, Sequences, FiniteSets, Functions

CONSTANTS
  ZSKIPLIST_MAXLEVEL,  \* the cap of zslRandomLevel (32 in Redis)
  Scores,              \* the scores elements are inserted with
  NoScore              \* no score: the element is absent (abstract map only)

ASSUME ZSKIPLIST_MAXLEVEL \in Nat \ {0}
ASSUME Scores \subseteq RangeScores /\ 0 \notin Elems

VARIABLE zsl

HEADER  == 0
NIL     == -1
NULLOBJ == 0            \* the header's obj (NULL)
NodeIds == 1 .. Cardinality(Elems)
AllIds  == {HEADER} \cup NodeIds
Levels  == 0 .. ZSKIPLIST_MAXLEVEL - 1

\* zslCreate: level 1, no nodes, every header level NULL with span 0.
ZslCreate ==
  [level |-> 1, length |-> 0, tail |-> NIL,
   fwd |-> [n \in AllIds |-> [i \in Levels |-> NIL]],
   span |-> [n \in AllIds |-> [i \in Levels |-> 0]],
   backward |-> [n \in NodeIds |-> NIL],
   score |-> [n \in AllIds |-> 0],
   obj |-> [n \in AllIds |-> NULLOBJ],
   height |-> [n \in AllIds |-> IF n = HEADER THEN ZSKIPLIST_MAXLEVEL ELSE 0],
   inuse |-> {}]

\* Mutant: the cap is off by one.
RandomLevelsUncapped == 1 .. ZSKIPLIST_MAXLEVEL + 1

\* zslRandomLevel: any level from 1 up to the cap.
RandomLevels == 1 .. ZSKIPLIST_MAXLEVEL

\* The search order of zslInsert / zslDelete: n sorts before (score, obj).
Less(sl, n, score, obj) ==
  \/ sl.score[n] < score
  \/ sl.score[n] = score /\ CompareStringObjects(sl.obj[n], obj) < 0

\* while (x->level[i].forward && P(forward, traversed + span)) advance:
\* the node the walk stops at and the rank it has crossed.
WalkLevel(sl, x0, r0, i, P(_, _)) ==
  LET w[x \in AllIds, r \in Nat] ==
        LET n  == sl.fwd[x][i]
            r2 == r + sl.span[x][i]
        IN  IF n # NIL /\ P(n, r2) THEN w[n, r2] ELSE [x |-> x, r |-> r]
  IN  w[x0, r0]

\* for (i = zsl->level-1; i >= 0; i--) { rank[i] = ...; walk; update[i] = x; }
\* s[i].x is update[i] and s[i].r is rank[i], for i < level.
Search(sl, P(_, _)) ==
  LET s[i \in Levels] ==
        IF i >= sl.level - 1 THEN WalkLevel(sl, HEADER, 0, i, P)
        ELSE WalkLevel(sl, s[i + 1].x, s[i + 1].r, i, P)
  IN  s

Update(s) == [i \in Levels |-> s[i].x]

\* The first free node of the pool (zslCreateNode's zmalloc).
NewNode(sl) == CHOOSE x \in NodeIds \ sl.inuse : \A y \in NodeIds \ sl.inuse : x <= y

\* The update[] and rank[] arrays zslInsert builds for (score, obj).  Levels
\* above zsl->level start from the header with rank 0.
InsertSearch(sl, score, obj) ==
  LET s == Search(sl, LAMBDA n, r : Less(sl, n, score, obj))
  IN  [upd |-> [i \in Levels |-> IF i < sl.level THEN s[i].x ELSE HEADER],
       rk  |-> [i \in Levels |-> IF i < sl.level THEN s[i].r ELSE 0]]

\* The spans before linking: a header level above zsl->level gets span
\* = length (the if (level > zsl->level) loop).
SpanBefore(sl, n, i, level) ==
  IF n = HEADER /\ sl.level <= i /\ i < level THEN sl.length ELSE sl.span[n][i]

\* Mutant: the untouched levels above the new node keep their span.
InsertSpansNoInc(sl, u, x, level) ==
  [n \in AllIds |-> [i \in Levels |->
     IF n = x THEN IF i < level THEN SpanBefore(sl, u.upd[i], i, level) - (u.rk[0] - u.rk[i]) ELSE 0
     ELSE IF i < level /\ n = u.upd[i] THEN (u.rk[0] - u.rk[i]) + 1
     ELSE sl.span[n][i]]]

\* The spans after zslInsert links node x of the given level: x takes what
\* update[i] skipped beyond it, update[i] now reaches x, and levels from
\* level up to zsl->level that pass over x grow by one.
InsertSpans(sl, u, x, level) ==
  [n \in AllIds |-> [i \in Levels |->
     IF n = x THEN IF i < level THEN SpanBefore(sl, u.upd[i], i, level) - (u.rk[0] - u.rk[i]) ELSE 0
     ELSE IF i < level /\ n = u.upd[i] THEN (u.rk[0] - u.rk[i]) + 1
     ELSE IF level <= i /\ i < sl.level /\ n = u.upd[i] THEN sl.span[n][i] + 1
     ELSE sl.span[n][i]]]

\* zslInsert(zsl, score, obj) with level = zslRandomLevel().
ZslInsert(sl, score, obj, level) ==
  LET u    == InsertSearch(sl, score, obj)
      x    == NewNode(sl)
      succ == sl.fwd[u.upd[0]][0]
  IN  [sl EXCEPT
        !.level = IF level > sl.level THEN level ELSE sl.level,
        !.fwd = [n \in AllIds |-> [i \in Levels |->
                   IF n = x THEN IF i < level THEN sl.fwd[u.upd[i]][i] ELSE NIL
                   ELSE IF i < level /\ n = u.upd[i] THEN x
                   ELSE sl.fwd[n][i]]],
        !.span = InsertSpans(sl, u, x, level),
        !.backward = [n \in NodeIds |->
                   IF n = x THEN IF u.upd[0] = HEADER THEN NIL ELSE u.upd[0]
                   ELSE IF n = succ THEN x ELSE sl.backward[n]],
        !.tail = IF succ = NIL THEN x ELSE sl.tail,
        !.length = sl.length + 1,
        !.score = [sl.score EXCEPT ![x] = score],
        !.obj = [sl.obj EXCEPT ![x] = obj],
        !.height = [sl.height EXCEPT ![x] = level],
        !.inuse = sl.inuse \cup {x}]

\* Mutant: the successor's backward pointer is not moved past x.
ZslDeleteNodeNoBackward(sl, x, upd) ==
  LET f == [n \in AllIds |-> [i \in Levels |->
              IF i < sl.level /\ n = upd[i] /\ sl.fwd[n][i] = x THEN sl.fwd[x][i] ELSE sl.fwd[n][i]]]
  IN  [sl EXCEPT
        !.fwd = f,
        !.span = [n \in AllIds |-> [i \in Levels |->
                   IF i < sl.level /\ n = upd[i]
                   THEN IF sl.fwd[n][i] = x THEN sl.span[n][i] + sl.span[x][i] - 1 ELSE sl.span[n][i] - 1
                   ELSE sl.span[n][i]]],
        !.tail = IF sl.fwd[x][0] # NIL THEN sl.tail ELSE sl.backward[x],
        !.level = LET kept == {l \in 1 .. sl.level : l = 1 \/ f[HEADER][l - 1] # NIL}
                  IN  CHOOSE l \in kept : \A m \in kept : m <= l,
        !.length = sl.length - 1]

\* zslDeleteNode(zsl, x, update): unlink x at every level below zsl->level
\* (a level that jumps over x loses one from its span), fix the backward
\* pointer or the tail, drop empty top levels, length--.
ZslDeleteNode(sl, x, upd) ==
  LET f   == [n \in AllIds |-> [i \in Levels |->
               IF i < sl.level /\ n = upd[i] /\ sl.fwd[n][i] = x THEN sl.fwd[x][i] ELSE sl.fwd[n][i]]]
      nxt == sl.fwd[x][0]
  IN  [sl EXCEPT
        !.fwd = f,
        !.span = [n \in AllIds |-> [i \in Levels |->
                   IF i < sl.level /\ n = upd[i]
                   THEN IF sl.fwd[n][i] = x THEN sl.span[n][i] + sl.span[x][i] - 1 ELSE sl.span[n][i] - 1
                   ELSE sl.span[n][i]]],
        !.backward = IF nxt # NIL THEN [sl.backward EXCEPT ![nxt] = sl.backward[x]] ELSE sl.backward,
        !.tail = IF nxt # NIL THEN sl.tail ELSE sl.backward[x],
        !.level = LET kept == {l \in 1 .. sl.level : l = 1 \/ f[HEADER][l - 1] # NIL}
                  IN  CHOOSE l \in kept : \A m \in kept : m <= l,
        !.length = sl.length - 1]

\* zslFreeNode: node x goes back to the pool.
ZslFreeNode(sl, x) ==
  [sl EXCEPT !.fwd[x] = [i \in Levels |-> NIL], !.span[x] = [i \in Levels |-> 0],
             !.backward[x] = NIL, !.score[x] = 0, !.obj[x] = NULLOBJ, !.height[x] = 0,
             !.inuse = @ \ {x}]

\* The delete loop of zslDeleteRangeByScore/Lex/Rank: while x is not NULL,
\* is in S and the rank budget is not spent, save next, delete and free x
\* (and dictDelete its obj: removed collects the objs), move on.
RECURSIVE DeleteWhile(_, _, _, _, _, _)
DeleteWhile(sl, x, upd, S, budget, removed) ==
  IF x # NIL /\ x \in S /\ budget > 0
  THEN DeleteWhile(ZslFreeNode(ZslDeleteNode(sl, x, upd), x), sl.fwd[x][0], upd, S,
                   budget - 1, removed \cup {sl.obj[x]})
  ELSE [zsl |-> sl, removed |-> removed]

\* zslDelete(zsl, score, obj): removes the node only when both match.
ZslDelete(sl, score, obj) ==
  LET s == Search(sl, LAMBDA n, r : Less(sl, n, score, obj))
      x == sl.fwd[s[0].x][0]
  IN  IF x # NIL /\ score = sl.score[x] /\ sl.obj[x] = obj
      THEN [zsl |-> ZslFreeNode(ZslDeleteNode(sl, x, Update(s)), x), deleted |-> TRUE]
      ELSE [zsl |-> sl, deleted |-> FALSE]

\* zslDeleteRangeByScore(zsl, range, dict).
ZslDeleteRangeByScore(sl, r) ==
  LET s == Search(sl, LAMBDA n, t : IF r.minex THEN sl.score[n] <= r.min ELSE sl.score[n] < r.min)
  IN  DeleteWhile(sl, sl.fwd[s[0].x][0], Update(s),
                  {n \in sl.inuse : IF r.maxex THEN sl.score[n] < r.max ELSE sl.score[n] <= r.max},
                  sl.length, {})

\* zslDeleteRangeByLex(zsl, range, dict).
ZslDeleteRangeByLex(sl, r) ==
  LET s == Search(sl, LAMBDA n, t : ~ZslLexValueGteMin(sl.obj[n], r))
  IN  DeleteWhile(sl, sl.fwd[s[0].x][0], Update(s),
                  {n \in sl.inuse : ZslLexValueLteMax(sl.obj[n], r)}, sl.length, {})

\* Mutant: the search stops one node late ((traversed + span) <= start).
ZslDeleteRangeByRankLate(sl, start, end) ==
  LET s == Search(sl, LAMBDA n, t : t <= start)
  IN  DeleteWhile(sl, sl.fwd[s[0].x][0], Update(s), sl.inuse, end - s[0].r, {})

\* zslDeleteRangeByRank(zsl, start, end, dict), 1-based inclusive: the
\* search stops before rank start, traversed++ names the first deleted
\* rank, and the loop runs while traversed <= end.
ZslDeleteRangeByRank(sl, start, end) ==
  LET s == Search(sl, LAMBDA n, t : t < start)
  IN  DeleteWhile(sl, sl.fwd[s[0].x][0], Update(s), sl.inuse, end - s[0].r, {})

\* The highest level of a set of levels (the first one the descent meets).
TopOf(L) == CHOOSE i \in L : \A j \in L : j <= i

\* Mutant: the walk stops before the node itself (<  instead of <=).
ZslGetRankStrict(sl, score, o) ==
  LET s   == Search(sl, LAMBDA n, t : sl.score[n] < score \/ (sl.score[n] = score /\ CompareStringObjects(sl.obj[n], o) < 0))
      hit == {i \in 0 .. sl.level - 1 : sl.obj[s[i].x] # NULLOBJ /\ sl.obj[s[i].x] = o}
  IN  IF hit = {} THEN 0 ELSE s[TopOf(hit)].r

\* zslGetRank: walk while forward <= (score, o); the rank crossed at the
\* first level whose node holds o, or 0.
ZslGetRank(sl, score, o) ==
  LET s   == Search(sl, LAMBDA n, t : sl.score[n] < score \/ (sl.score[n] = score /\ CompareStringObjects(sl.obj[n], o) <= 0))
      hit == {i \in 0 .. sl.level - 1 : sl.obj[s[i].x] # NULLOBJ /\ sl.obj[s[i].x] = o}
  IN  IF hit = {} THEN 0 ELSE s[TopOf(hit)].r

\* zslGetElementByRank: the node reached when traversed = rank, or NULL.
ZslGetElementByRank(sl, rank) ==
  LET s   == Search(sl, LAMBDA n, t : t <= rank)
      hit == {i \in 0 .. sl.level - 1 : s[i].r = rank}
  IN  IF hit = {} THEN NIL ELSE s[TopOf(hit)].x

First(sl) == sl.fwd[HEADER][0]

\* zslIsInRange.
ZslIsInRange(sl, r) ==
  /\ ~(r.min > r.max \/ (r.min = r.max /\ (r.minex \/ r.maxex)))
  /\ sl.tail # NIL /\ ZslValueGteMin(sl.score[sl.tail], r)
  /\ First(sl) # NIL /\ ZslValueLteMax(sl.score[First(sl)], r)

\* Mutant: the node found is returned without checking score <= max.
ZslFirstInRangeNoMax(sl, r) ==
  IF ~ZslIsInRange(sl, r) THEN NIL
  ELSE sl.fwd[Search(sl, LAMBDA n, t : ~ZslValueGteMin(sl.score[n], r))[0].x][0]

\* zslFirstInRange: walk while out of range, then check score <= max.
ZslFirstInRange(sl, r) ==
  IF ~ZslIsInRange(sl, r) THEN NIL
  ELSE LET x == sl.fwd[Search(sl, LAMBDA n, t : ~ZslValueGteMin(sl.score[n], r))[0].x][0]
       IN  IF ZslValueLteMax(sl.score[x], r) THEN x ELSE NIL

\* zslLastInRange: walk while in range, then check score >= min.
ZslLastInRange(sl, r) ==
  IF ~ZslIsInRange(sl, r) THEN NIL
  ELSE LET x == Search(sl, LAMBDA n, t : ZslValueLteMax(sl.score[n], r))[0].x
       IN  IF ZslValueGteMin(sl.score[x], r) THEN x ELSE NIL

\* zslIsInLexRange, with its early test "compare(min, max) > 1".
ZslIsInLexRange(sl, r) ==
  /\ ~(CompareForLexRange(r.min, r.max) > 1 \/
       (CompareStringObjects(r.min, r.max) = 0 /\ (r.minex \/ r.maxex)))
  /\ sl.tail # NIL /\ ZslLexValueGteMin(sl.obj[sl.tail], r)
  /\ First(sl) # NIL /\ ZslLexValueLteMax(sl.obj[First(sl)], r)

\* zslFirstInLexRange.
ZslFirstInLexRange(sl, r) ==
  IF ~ZslIsInLexRange(sl, r) THEN NIL
  ELSE LET x == sl.fwd[Search(sl, LAMBDA n, t : ~ZslLexValueGteMin(sl.obj[n], r))[0].x][0]
       IN  IF ZslLexValueLteMax(sl.obj[x], r) THEN x ELSE NIL

\* zslLastInLexRange.
ZslLastInLexRange(sl, r) ==
  IF ~ZslIsInLexRange(sl, r) THEN NIL
  ELSE LET x == Search(sl, LAMBDA n, t : ZslLexValueLteMax(sl.obj[n], r))[0].x
       IN  IF ZslLexValueGteMin(sl.obj[x], r) THEN x ELSE NIL

(***************************************************************************)
(* Actions: the calls the sorted set makes on its skip list.               *)
(***************************************************************************)
Objs(sl) == {sl.obj[n] : n \in sl.inuse}

Init == zsl = ZslCreate

\* zslInsert: the caller has checked in the dict that obj is absent.
Insert(score, obj) == /\ obj \notin Objs(zsl)
                      /\ \E level \in RandomLevels : zsl' = ZslInsert(zsl, score, obj, level)

Delete(score, obj) == zsl' = ZslDelete(zsl, score, obj).zsl

DeleteRangeByScore(r) == zsl' = ZslDeleteRangeByScore(zsl, r).zsl

\* All elements of the list share one score: the case the lex functions
\* are written for (they walk the list in (score, element) order).
SameScore == \A n, m \in zsl.inuse : zsl.score[n] = zsl.score[m]

\* ZREMRANGEBYLEX is meant for sets whose elements share one score.
DeleteRangeByLex(r) == /\ SameScore
                       /\ zsl' = ZslDeleteRangeByLex(zsl, r).zsl

\* zremrangeGenericCommand passes 1 <= start <= end <= length.
DeleteRangeByRank(start, end) == zsl' = ZslDeleteRangeByRank(zsl, start, end).zsl

Next ==
  \/ \E s \in Scores, e \in Elems : Insert(s, e) \/ Delete(s, e)
  \/ \E r \in ZRangeSpecs : DeleteRangeByScore(r)
  \/ \E r \in ZLexRangeSpecs : DeleteRangeByLex(r)
  \/ \E start, end \in 1 .. zsl.length : start <= end /\ DeleteRangeByRank(start, end)

Spec == Init /\ [][Next]_zsl

(***************************************************************************)
(* Properties.                                                             *)
(***************************************************************************)
\* The nodes in level-i order from the header.
Chain(sl, i) ==
  LET c[x \in AllIds] == IF sl.fwd[x][i] = NIL THEN <<>> ELSE <<sl.fwd[x][i]>> \o c[sl.fwd[x][i]]
  IN  c[HEADER]

\* The element -> score map the skip list holds.
ZsOf(sl) == [e \in Elems |-> IF e \in Objs(sl)
                             THEN sl.score[CHOOSE n \in sl.inuse : sl.obj[n] = e]
                             ELSE NoScore]

\* The 1-based rank of a node by zslInsert's own comparison.
OrderRank(n) == Cardinality({m \in zsl.inuse : Less(zsl, m, zsl.score[n], zsl.obj[n])}) + 1

SkiplistTypeOK ==
  /\ zsl.level \in 1 .. ZSKIPLIST_MAXLEVEL
  /\ zsl.length \in 0 .. Cardinality(NodeIds)
  /\ zsl.tail \in NodeIds \cup {NIL}
  /\ zsl.fwd \in [AllIds -> [Levels -> NodeIds \cup {NIL}]]
  /\ zsl.span \in [AllIds -> [Levels -> Nat]]
  /\ zsl.backward \in [NodeIds -> NodeIds \cup {NIL}]
  /\ \A n \in zsl.inuse : zsl.score[n] \in Scores /\ zsl.obj[n] \in Elems
                           /\ zsl.height[n] \in RandomLevels
  /\ zsl.inuse \subseteq NodeIds

\* The shape every zsl function relies on: level 0 links the live nodes in
\* strictly increasing (score, obj) order, length and tail agree with it,
\* backward points to the level-0 predecessor, level i links exactly the
\* nodes taller than i in the same order, and zsl->level is the height of
\* the tallest node (zslDeleteNode lowers it, zslInsert raises it).
SkiplistWellFormed ==
  LET l0 == Chain(zsl, 0)
  IN  /\ Len(l0) = zsl.length
      /\ Range(l0) = zsl.inuse
      /\ \A j \in 1 .. Len(l0) - 1 : Less(zsl, l0[j], zsl.score[l0[j + 1]], zsl.obj[l0[j + 1]])
      /\ zsl.tail = IF l0 = <<>> THEN NIL ELSE l0[Len(l0)]
      /\ \A j \in 1 .. Len(l0) : zsl.backward[l0[j]] = IF j = 1 THEN NIL ELSE l0[j - 1]
      /\ \A i \in Levels : Chain(zsl, i) = IF i < zsl.level
                                           THEN SelectSeq(l0, LAMBDA n : zsl.height[n] > i)
                                           ELSE <<>>
      /\ zsl.level = TopOf({1} \cup {zsl.height[n] : n \in zsl.inuse})

\* Every span below zsl->level counts the level-0 steps its pointer skips
\* (to the end of the list for a NULL pointer): the invariant zslInsert's
\* rank[] arithmetic and zslDeleteNode's span fix-ups maintain, and the one
\* zslGetRank, zslGetElementByRank and ZREMRANGEBYRANK read.
SpansCorrect ==
  LET l0     == Chain(zsl, 0)
      pos(n) == IF n = HEADER THEN 0 ELSE CHOOSE j \in 1 .. Len(l0) : l0[j] = n
  IN  \A n \in {HEADER} \cup zsl.inuse, i \in 0 .. zsl.level - 1 :
        (n = HEADER \/ i < zsl.height[n]) =>
          zsl.span[n][i] = IF zsl.fwd[n][i] = NIL THEN zsl.length - pos(n)
                           ELSE pos(zsl.fwd[n][i]) - pos(n)

\* zslGetRank of every element with its score is its 1-based rank in
\* (score, element) order, zslGetElementByRank of that rank is its node,
\* and an absent element has rank 0.
RankCorrect ==
  /\ \A n \in zsl.inuse :
       /\ ZslGetRank(zsl, zsl.score[n], zsl.obj[n]) = OrderRank(n)
       /\ ZslGetElementByRank(zsl, OrderRank(n)) = n
  /\ \A e \in Elems \ Objs(zsl), s \in Scores : ZslGetRank(zsl, s, e) = 0

\* The lowest and the highest ranked node of a set of nodes, or NULL.
Lowest(S)  == IF S = {} THEN NIL ELSE CHOOSE n \in S : \A m \in S : OrderRank(n) <= OrderRank(m)
Highest(S) == IF S = {} THEN NIL ELSE CHOOSE n \in S : \A m \in S : OrderRank(n) >= OrderRank(m)

\* The lexicographic range functions return the first and the last node
\* whose element lies in the range.
LexRangeByElement ==
  \A r \in ZLexRangeSpecs :
    LET In == {n \in zsl.inuse : ZslLexValueGteMin(zsl.obj[n], r) /\ ZslLexValueLteMax(zsl.obj[n], r)}
    IN  ZslFirstInLexRange(zsl, r) = Lowest(In) /\ ZslLastInLexRange(zsl, r) = Highest(In)

\* zslFirstInRange / zslLastInRange return the lowest and highest ranked
\* node whose score is in the range, or NULL when none is, for every range
\* zslParseRange accepts (min > max and exclusive bounds included); their
\* lexicographic forms do the same for every range zslParseLexRange
\* accepts when all scores are equal (zslIsInLexRange's empty-range test
\* "compare(min, max) > 1" never fires, so the later tests must catch it).
RangeCorrect ==
  /\ \A r \in ZRangeSpecs :
       LET In == {n \in zsl.inuse : ZslValueGteMin(zsl.score[n], r) /\ ZslValueLteMax(zsl.score[n], r)}
       IN  ZslFirstInRange(zsl, r) = Lowest(In) /\ ZslLastInRange(zsl, r) = Highest(In)
  /\ SameScore => LexRangeByElement

=============================================================================
