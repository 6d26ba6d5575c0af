---------------------------- MODULE ZsetCommands ----------------------------
(***************************************************************************)
(* What the sorted-set write commands promise (spec.md 4.5 and the        *)
(* command semantics), on the element -> score map of one key: ZADD sets  *)
(* each pair's score in order, ZINCRBY adds to the score (from 0), ZREM    *)
(* removes the elements, ZREMRANGEBYSCORE / BYLEX remove the elements in   *)
(* the range and ZREMRANGEBYRANK the elements whose 0-based rank lies      *)
(* between start and end, a negative index counting from the end.  The    *)
(* string range is defined for elements that share one score; otherwise   *)
(* which elements go is left open.                                        *)
(*                                                                         *)
(* call is the command and its arguments, and a bit that flips with every  *)
(* command so that no command is a stuttering step.                        *)
(***************************************************************************)
EXTENDS ZRange, FiniteSets, Sequences

CONSTANTS Scores, NoScore

VARIABLES zs, call

vars == <<zs, call>>

Present == {e \in Elems : zs[e] # NoScore}

\* 0-based rank by (score, element).
Rank0(e) == Cardinality({f \in Present : zs[f] < zs[e] \/ (zs[f] = zs[e] /\ CompareStringObjects(f, e) < 0)})

Init == /\ zs = [e \in Elems |-> NoScore]
        /\ call = [cmd |-> <<"none">>, bit |-> 0]

Called(cmd) == call' = [cmd |-> cmd, bit |-> 1 - call.bit]

Drop(S) == zs' = [e \in Elems |-> IF e \in S THEN NoScore ELSE zs[e]]

ZADD(pairs) ==
  /\ LET m[j \in 0 .. Len(pairs)] ==
           IF j = 0 THEN zs ELSE [m[j - 1] EXCEPT ![pairs[j].ele] = pairs[j].score]
     IN  zs' = m[Len(pairs)]
  /\ Called(<<"ZADD", pairs>>)

ZINCRBY(e, incr) ==
  /\ zs' = [zs EXCEPT ![e] = incr + (IF @ = NoScore THEN 0 ELSE @)]
  /\ Called(<<"ZINCRBY", e, incr>>)

ZREM(eles) == Drop({eles[j] : j \in DOMAIN eles}) /\ Called(<<"ZREM", eles>>)

ZREMRANGEBYSCORE(r) ==
  /\ Drop({e \in Present : ZslValueGteMin(zs[e], r) /\ ZslValueLteMax(zs[e], r)})
  /\ Called(<<"ZREMRANGEBYSCORE", r>>)

ZREMRANGEBYLEX(r) ==
  /\ IF \A e, f \in Present : zs[e] = zs[f]
     THEN Drop({e \in Present : ZslLexValueGteMin(e, r) /\ ZslLexValueLteMax(e, r)})
     ELSE \E S \in SUBSET Present : Drop(S)
  /\ Called(<<"ZREMRANGEBYLEX", r>>)

ZREMRANGEBYRANK(start, end) ==
  LET n  == Cardinality(Present)
      lo == IF start < 0 THEN n + start ELSE start
      hi == IF end < 0 THEN n + end ELSE end
  IN  /\ Drop({e \in Present : lo <= Rank0(e) /\ Rank0(e) <= hi})
      /\ Called(<<"ZREMRANGEBYRANK", start, end>>)

(***************************************************************************)
(* The read commands: the reply is the last argument.  The order is by     *)
(* (score, element); a range is the run of that order it selects.         *)
(***************************************************************************)
NullReply == -1

Ordered(reverse) ==
  LET n == Cardinality(Present)
  IN  [i \in 1 .. n |-> CHOOSE e \in Present :
                          Rank0(e) = IF reverse THEN n - i ELSE i - 1]

WithScore(s) == [i \in DOMAIN s |-> <<s[i], zs[s[i]]>>]

\* Skip offset entries of a run (a negative offset skips them all), then
\* take limit (all when negative).
Page(s, offset, limit) ==
  LET rest == IF offset < 0 THEN <<>> ELSE SubSeq(s, offset + 1, Len(s))
  IN  IF limit < 0 THEN rest ELSE SubSeq(rest, 1, IF limit < Len(rest) THEN limit ELSE Len(rest))

SameScores == \A e, f \in Present : zs[e] = zs[f]

InScore(e, r) == ZslValueGteMin(zs[e], r) /\ ZslValueLteMax(zs[e], r)
InLex(e, r)   == ZslLexValueGteMin(e, r) /\ ZslLexValueLteMax(e, r)

READ(reply, expected) == reply = expected /\ UNCHANGED zs

ZCARD(reply) == READ(reply, Cardinality(Present))

ZRANK(e, reverse, reply) ==
  READ(reply, IF e \notin Present THEN NullReply
              ELSE IF reverse THEN Cardinality(Present) - 1 - Rank0(e) ELSE Rank0(e))

\* The entries from start to end, a negative index counting from the end.
ZRANGE(start, end, reverse, reply) ==
  LET n  == Cardinality(Present)
      lo == IF start < 0 THEN n + start ELSE start
      hi == IF end < 0 THEN n + end ELSE end
  IN  READ(reply, WithScore(SubSeq(Ordered(reverse), (IF lo < 0 THEN 0 ELSE lo) + 1,
                                   IF hi < n THEN hi + 1 ELSE n)))

ZRANGEBYSCORE(r, offset, limit, reverse, reply) ==
  READ(reply, WithScore(Page(SelectSeq(Ordered(reverse), LAMBDA e : InScore(e, r)), offset, limit)))

ZCOUNT(r, reply) == READ(reply, Cardinality({e \in Present : InScore(e, r)}))

\* The lex commands are defined when every element has the same score.
ZRANGEBYLEX(r, offset, limit, reverse, reply) ==
  /\ SameScores => reply = Page(SelectSeq(Ordered(reverse), LAMBDA e : InLex(e, r)), offset, limit)
  /\ UNCHANGED zs

ZLEXCOUNT(r, reply) ==
  /\ SameScores => reply = Cardinality({e \in Present : InLex(e, r)})
  /\ UNCHANGED zs

\* A step is the command call' names, with its arguments.
Next ==
  LET c == call'.cmd
  IN  CASE c[1] = "ZADD"             -> ZADD(c[2])
        [] c[1] = "ZINCRBY"          -> ZINCRBY(c[2], c[3])
        [] c[1] = "ZREM"             -> ZREM(c[2])
        [] c[1] = "ZREMRANGEBYSCORE" -> ZREMRANGEBYSCORE(c[2])
        [] c[1] = "ZREMRANGEBYLEX"   -> ZREMRANGEBYLEX(c[2])
        [] c[1] = "ZREMRANGEBYRANK"  -> ZREMRANGEBYRANK(c[2], c[3])
        [] c[1] = "ZCARD"            -> ZCARD(c[2])
        [] c[1] = "ZRANK"            -> ZRANK(c[2], c[3], c[4])
        [] c[1] = "ZRANGE"           -> ZRANGE(c[2], c[3], c[4], c[5])
        [] c[1] = "ZRANGEBYSCORE"    -> ZRANGEBYSCORE(c[2], c[3], c[4], c[5], c[6])
        [] c[1] = "ZRANGEBYLEX"      -> ZRANGEBYLEX(c[2], c[3], c[4], c[5], c[6])
        [] c[1] = "ZCOUNT"           -> ZCOUNT(c[2], c[3])
        [] c[1] = "ZLEXCOUNT"        -> ZLEXCOUNT(c[2], c[3])
        [] OTHER                     -> FALSE

Spec == Init /\ [][Next]_vars

=============================================================================
