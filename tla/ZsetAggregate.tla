---------------------------- MODULE ZsetAggregate ----------------------------
(***************************************************************************)
(* ZUNIONSTORE and ZINTERSTORE (zunionInterGenericCommand, t_zset.c) over *)
(* a keyspace db of KeyNames.  Each command runs to completion in one step *)
(* (the server is single-threaded) and may name the destination among its *)
(* sources: all sources are looked up before the destination is deleted.  *)
(*                                                                         *)
(* A key's value is its type and, for a sorted set or a set, the score of *)
(* each element (NoScore when absent).  A plain set is held as the score  *)
(* 1.0 zuiNext and zuiFind give its members; the zui* layer presents the  *)
(* same pairs whatever the encoding, so only a destination's encoding is  *)
(* kept, to check the conversion at the end of the command.               *)
(*                                                                         *)
(* A double is an integer (the scores modelled are small integers, exact  *)
(* in a double) or one of the model values PosInf, NegInf and NaN, with   *)
(* IEEE 754 addition, multiplication and comparison.  panic records that  *)
(* zslInsert's redisAssert(!isnan(score)) failed.                          *)
(***************************************************************************)
EXTENDS Integers, Sequences, FiniteSets, Functions

CONSTANTS
  KeyNames,                   \* the keys of the db
  Elems,                      \* the elements
  LongElems,                  \* elements with sdslen > server.zset_max_ziplist_value
  PosInf, NegInf, NaN,        \* the non-finite doubles
  NoScore,                    \* no score: the element is absent
  InitScores,                 \* the scores a source key holds initially
  Weights,                    \* the weights a WEIGHTS clause may give
  MAX_SRC,                    \* most input keys of one command
  MAX_SCORE,                  \* bound on the absolute value of a stored finite score
  ZSET_MAX_ZIPLIST_ENTRIES    \* server.zset_max_ziplist_entries

ASSUME LongElems \subseteq Elems
ASSUME MAX_SRC \in Nat \ {0} /\ MAX_SCORE \in Nat /\ ZSET_MAX_ZIPLIST_ENTRIES \in Nat

VARIABLES
  db,      \* KeyNames -> [type, enc, z]
  reply,   \* the last reply: an error, or the destination's length
  panic,   \* a redisAssert failed and the server stopped
  call     \* the last command and its arguments (history)

vars == <<db, reply, panic, call>>

Infs == {PosInf, NegInf}

Doubles == (-MAX_SCORE .. MAX_SCORE) \cup Infs

\* addReply(c, shared.wrongtypeerr) and addReplyLongLong(c, n).
WrongType == [err |-> TRUE, len |-> 0]
Length(n) == [err |-> FALSE, len |-> n]

None == [type |-> "none", enc |-> "none", z |-> [e \in Elems |-> NoScore]]

(***************************************************************************)
(* IEEE 754 on the modelled doubles.                                       *)
(***************************************************************************)
Positive(x) == x = PosInf \/ (x \notin {NegInf, NaN} /\ x > 0)

\* x * y: NaN for 0 * inf, an infinity takes the sign of the product.
DMul(x, y) ==
  CASE x = NaN \/ y = NaN                            -> NaN
    [] (x \in Infs /\ y = 0) \/ (y \in Infs /\ x = 0) -> NaN
    [] x \in Infs \/ y \in Infs -> IF Positive(x) = Positive(y) THEN PosInf ELSE NegInf
    [] OTHER                    -> x * y

\* x + y: NaN for +inf + -inf, an infinity absorbs a finite value.
DAdd(x, y) ==
  CASE x = NaN \/ y = NaN -> NaN
    [] {x, y} = Infs      -> NaN
    [] x \in Infs         -> x
    [] y \in Infs         -> y
    [] OTHER              -> x + y

\* x < y: false whenever a NaN is involved.
DLess(x, y) ==
  /\ x # NaN
  /\ y # NaN
  /\ \/ x = NegInf /\ y # NegInf
     \/ y = PosInf /\ x # PosInf
     \/ x \notin Infs /\ y \notin Infs /\ x < y

(***************************************************************************)
(* The algorithm.                                                          *)
(***************************************************************************)
\* Mutant: SUM without the isnan() fix.
ZunionInterAggregateNoFix(target, val, agg) ==
  CASE agg = "sum" -> DAdd(target, val)
    [] agg = "min" -> IF DLess(val, target) THEN val ELSE target
    [] agg = "max" -> IF DLess(target, val) THEN val ELSE target

\* zunionInterAggregate: SUM turns a NaN sum into 0.0, MIN and MAX keep the
\* target unless val compares smaller (larger).
ZunionInterAggregate(target, val, agg) ==
  CASE agg = "sum" -> LET t == DAdd(target, val) IN IF t = NaN THEN 0 ELSE t
    [] agg = "min" -> IF DLess(val, target) THEN val ELSE target
    [] agg = "max" -> IF DLess(target, val) THEN val ELSE target

\* if (isnan(score)) score = 0;
FixNaN(x) == IF x = NaN THEN 0 ELSE x

Members(v) == {e \in Elems : v.z[e] # NoScore}

\* zuiLength: 0 for a missing key.
ZuiLength(v) == Cardinality(Members(v))

\* The orders qsort with zuiCompareByCardinality may leave the sources in:
\* by non-decreasing length, equal lengths in any order (qsort is not
\* stable).
CardinalityOrders(inputs) ==
  LET n == Len(inputs)
  IN  {p \in [1 .. n -> 1 .. n] :
         /\ IsInjective(p)
         /\ \A i \in 1 .. n - 1 : ZuiLength(inputs[p[i]]) <= ZuiLength(inputs[p[i + 1]])}

\* Mutant: the sources are sorted but each keeps the weight of the position
\* it was given at.
SortedSrcStaleWeights(srcs, weights, inputs, p) ==
  [i \in DOMAIN p |-> [subject |-> srcs[p[i]], weight |-> weights[i], z |-> inputs[p[i]].z]]

\* src[] after the qsort: each zsetopsrc moves with its subject and weight.
SortedSrc(srcs, weights, inputs, p) ==
  [i \in DOMAIN p |-> [subject |-> srcs[p[i]], weight |-> weights[p[i]], z |-> inputs[p[i]].z]]

\* The for (j = 1; j < setnum; j++) loop of ZINTERSTORE for element e of
\* src[0]: the source being iterated is not probed but its score reused;
\* another source is probed with zuiFind and the loop breaks when e is not
\* there (NoScore: e is not inserted).  The products are not NaN-fixed.
RECURSIVE InterProbe(_, _, _, _, _)
InterProbe(src, e, agg, j, score) ==
  IF j > Len(src) THEN score
  ELSE IF src[j].subject = src[1].subject
  THEN InterProbe(src, e, agg, j + 1, ZunionInterAggregate(score, DMul(src[1].z[e], src[j].weight), agg))
  ELSE IF src[j].z[e] # NoScore
  THEN InterProbe(src, e, agg, j + 1, ZunionInterAggregate(score, DMul(src[j].z[e], src[j].weight), agg))
  ELSE NoScore

\* REDIS_OP_INTER: nothing when the smallest source is empty; else every
\* element of src[0] starts from its weighted, NaN-fixed score.
InterScores(src, agg) ==
  [e \in Elems |->
     IF ZuiLength(src[1]) = 0 \/ src[1].z[e] = NoScore THEN NoScore
     ELSE InterProbe(src, e, agg, 2, FixNaN(DMul(src[1].weight, src[1].z[e])))]

\* Step 1 of REDIS_OP_UNION for element e: the sources in order, each
\* weighted score NaN-fixed, dictAddRaw'd on the first occurrence and
\* aggregated into the accumulator on the later ones.
RECURSIVE UnionAccumulate(_, _, _, _, _)
UnionAccumulate(src, e, agg, i, acc) ==
  IF i > Len(src) THEN acc
  ELSE IF src[i].z[e] = NoScore THEN UnionAccumulate(src, e, agg, i + 1, acc)
  ELSE LET score == FixNaN(DMul(src[i].weight, src[i].z[e]))
       IN  UnionAccumulate(src, e, agg, i + 1,
                           IF acc = NoScore THEN score ELSE ZunionInterAggregate(acc, score, agg))

UnionScores(src, agg) == [e \in Elems |-> UnionAccumulate(src, e, agg, 1, NoScore)]

\* The destination object: a new skip-list zset, converted to a ziplist when
\* its length and maxelelen (the longest raw element inserted) are within
\* the limits.
DstObject(z) ==
  LET m == {e \in Elems : z[e] # NoScore}
  IN  [type |-> "zset",
       enc  |-> IF Cardinality(m) <= ZSET_MAX_ZIPLIST_ENTRIES /\ m \cap LongElems = {}
                THEN "ziplist" ELSE "skiplist",
       z    |-> z]

\* Mutant: the new object is dbAdded even when empty.
StoredValueAlways(z, n) == DstObject(z)

\* After dbDelete(dst): the new object is dbAdded only when non-empty.
StoredValue(z, n) == IF n = 0 THEN None ELSE DstObject(z)

Init == /\ db \in [KeyNames -> {None, [None EXCEPT !.type = "string"]}
                               \cup {[type |-> "set", enc |-> "none", z |-> [e \in Elems |-> IF e \in m THEN 1 ELSE NoScore]] :
                                       m \in SUBSET Elems \ {{}}}
                               \cup {DstObject(z) : z \in [Elems -> InitScores \cup {NoScore}] \ {None.z}}]
        /\ reply = Length(0)
        /\ panic = FALSE
        /\ call = [op |-> "none"]

\* zunionInterGenericCommand(c, dst, op) with setnum = Len(srcs): the
\* WRONGTYPE error before anything is changed; the qsort; the scores; the
\* zslInsert of every score (which asserts it is not NaN); dbDelete of dst;
\* dbAdd of the result when non-empty.  A command whose finite scores would
\* leave -MAX_SCORE .. MAX_SCORE is not taken.
ZunionInterGeneric(op, dst, srcs, weights, agg) ==
  /\ ~panic
  /\ call' = [op |-> op, dst |-> dst, srcs |-> srcs, weights |-> weights, agg |-> agg]
  /\ LET inputs == [i \in DOMAIN srcs |-> db[srcs[i]]]
     IN  IF \E i \in DOMAIN inputs : inputs[i].type \notin {"none", "zset", "set"}
         THEN /\ reply' = WrongType
              /\ UNCHANGED <<db, panic>>
         ELSE \E p \in CardinalityOrders(inputs) :
                LET src == SortedSrc(srcs, weights, inputs, p)
                    z   == IF op = "inter" THEN InterScores(src, agg) ELSE UnionScores(src, agg)
                    n   == Cardinality({e \in Elems : z[e] # NoScore})
                IN  /\ \A e \in Elems : z[e] \in Doubles \cup {NaN, NoScore}
                    /\ IF \E e \in Elems : z[e] = NaN
                       THEN /\ panic' = TRUE
                            /\ UNCHANGED <<db, reply>>
                       ELSE /\ db' = [db EXCEPT ![dst] = StoredValue(z, n)]
                            /\ reply' = Length(n)
                            /\ UNCHANGED panic

\* ZUNIONSTORE dst numkeys key ... [WEIGHTS w ...] [AGGREGATE agg].
Zunionstore(dst, srcs, weights, agg) == ZunionInterGeneric("union", dst, srcs, weights, agg)

\* ZINTERSTORE dst numkeys key ... [WEIGHTS w ...] [AGGREGATE agg].
Zinterstore(dst, srcs, weights, agg) == ZunionInterGeneric("inter", dst, srcs, weights, agg)

\* Source lists of 1 .. MAX_SRC keys.
SrcSeqs == UNION {[1 .. n -> KeyNames] : n \in 1 .. MAX_SRC}

Aggregates == {"sum", "min", "max"}

Next ==
  \E srcs \in SrcSeqs, dst \in KeyNames, agg \in Aggregates :
    \E weights \in [DOMAIN srcs -> Weights] :
      Zunionstore(dst, srcs, weights, agg) \/ Zinterstore(dst, srcs, weights, agg)

Spec == Init /\ [][Next]_vars

(***************************************************************************)
(* Properties.                                                             *)
(***************************************************************************)
ZaggTypeOK ==
  /\ db \in [KeyNames -> [type : {"none", "string", "set", "zset"},
                          enc  : {"none", "ziplist", "skiplist"},
                          z    : [Elems -> Doubles \cup {NoScore}]]]
  /\ \A k \in KeyNames : db[k].type \in {"set", "zset"} <=> Members(db[k]) # {}
  /\ reply \in {WrongType} \cup {Length(n) : n \in 0 .. Cardinality(Elems)}
  /\ panic \in BOOLEAN

\* No score handed to zslInsert is NaN, so its redisAssert(!isnan(score))
\* never stops the server: a weight 0 times an infinite score and a SUM of
\* +inf and -inf both make a NaN, which the union's weighting, the first
\* source of an intersection and zunionInterAggregate each turn into 0,
\* and which MIN and MAX never select.
NoNaNInserted == ~panic

\* The reference: what spec.md says the commands store, for the sources as
\* given on the command line.
Weighted(c, i, e) == DMul(db[c.srcs[i]].z[e], c.weights[i])

Holding(c, e) == {i \in DOMAIN c.srcs : db[c.srcs[i]].z[e] # NoScore}

RefMembers(c) ==
  {e \in Elems : IF c.op = "union" THEN Holding(c, e) # {} ELSE Holding(c, e) = DOMAIN c.srcs}

\* The sum of the weighted scores, or the least or greatest of them.
RefScore(c, e) ==
  LET vals == {Weighted(c, i, e) : i \in Holding(c, e)}
      sum  == FoldFunctionOnSet(DAdd, 0, [i \in DOMAIN c.srcs |-> Weighted(c, i, e)], Holding(c, e))
  IN  CASE c.agg = "sum" -> sum
        [] c.agg = "min" -> CHOOSE v \in vals : \A w \in vals : ~DLess(w, v)
        [] c.agg = "max" -> CHOOSE v \in vals : \A w \in vals : ~DLess(v, w)

\* The inputs whose result spec.md defines whatever order they are combined
\* in: no weighted score is NaN (0 times an infinity) and a SUM does not
\* meet both infinities.
WellDefined(c) ==
  /\ c.op # "none"
  /\ \A e \in Elems :
       LET vals == {Weighted(c, i, e) : i \in Holding(c, e)}
       IN  NaN \notin vals /\ (c.agg = "sum" => ~(Infs \subseteq vals))

RefObject(c) ==
  LET m == RefMembers(c)
  IN  IF m = {} THEN None
      ELSE [type |-> "zset",
            enc  |-> IF Cardinality(m) > ZSET_MAX_ZIPLIST_ENTRIES \/ m \cap LongElems # {}
                     THEN "skiplist" ELSE "ziplist",
            z    |-> [e \in Elems |-> IF e \in m THEN RefScore(c, e) ELSE NoScore]]

\* On well-defined inputs, ZUNIONSTORE and ZINTERSTORE store the union or
\* the intersection of the sources with the aggregate of their weighted
\* scores, in the encoding the limits call for, and reply its length; a
\* source of the wrong type changes nothing.  This holds whatever order
\* qsort leaves equal-sized sources in, whether the destination is one of
\* the sources, and however the same key repeats among them.
StoreMatchesReference ==
  [][WellDefined(call') =>
       IF \E i \in DOMAIN call'.srcs : db[call'.srcs[i]].type = "string"
       THEN db' = db /\ reply' = WrongType
       ELSE /\ ~panic'
            /\ db' = [db EXCEPT ![call'.dst] = RefObject(call')]
            /\ reply' = Length(Cardinality(RefMembers(call')))]_vars

=============================================================================
