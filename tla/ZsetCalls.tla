------------------------------ MODULE ZsetCalls ------------------------------
(***************************************************************************)
(* The Zset commands with the command and its arguments kept in call, so  *)
(* that each command is checked against what ZsetCommands says that very  *)
(* command does to the key's element -> score map (what ZSCORE reads, in  *)
(* either encoding).                                                       *)
(***************************************************************************)
EXTENDS ZsetQueries

VARIABLE call

Called(cmd) == call' = [cmd |-> cmd, bit |-> 1 - call.bit]

\* A read command: the key is left as it is, unless one of the command's
\* redisAsserts fails and stops the server.
Read(cmd, res) ==
  /\ panic' = ~res.ok
  /\ UNCHANGED <<enc, zl, zsl, dict>>
  /\ Called(Append(cmd, res.reply))

\* The offsets and limits of LIMIT offset count: negative, none and one
\* (a limit of -1 is the default, no limit).
ReadOffsets == -1 .. 1
ReadLimits  == -1 .. 1

\* The ranges LIMIT is applied to: those whose min is not above max.  An
\* inverted range stops at zzl/zslFirstInRange before any offset or limit,
\* the same RangeStart that ZCOUNT, ZLEXCOUNT and ZREMRANGEBY* meet with
\* every range.
PageRanges    == {r \in ZRangeSpecs : r.min <= r.max}
PageLexRanges == {r \in ZLexRangeSpecs : CompareForLexRange(r.min, r.max) <= 0}

\* ZRANGEBYLEX is meant for a set whose elements share one score (its
\* documentation, and the only case ZsetCommands constrains); the callers
\* page through such sets only.
SameScoreKey == Cardinality({Contents(Key)[e] : e \in Elems} \ {NoScore}) <= 1

CallInit == Init /\ call = [cmd |-> <<"none">>, bit |-> 0]

CallNext ==
  /\ ~panic
  /\ \/ \E pairs \in ArgSeqs(Pairs) : Zadd(pairs) /\ Called(<<"ZADD", pairs>>)
     \/ \E e \in Elems, s \in Scores : Zincrby(e, s) /\ Called(<<"ZINCRBY", e, s>>)
     \/ \E eles \in ArgSeqs(Elems) : Zrem(eles) /\ Called(<<"ZREM", eles>>)
     \/ \E start, end \in RankArgs :
          ZremrangeByRank(start, end) /\ Called(<<"ZREMRANGEBYRANK", start, end>>)
     \/ \E r \in ZRangeSpecs : ZremrangeByScore(r) /\ Called(<<"ZREMRANGEBYSCORE", r>>)
     \/ \E r \in ZLexRangeSpecs : ZremrangeByLex(r) /\ Called(<<"ZREMRANGEBYLEX", r>>)
     \/ Read(<<"ZCARD">>, ZcardReply(Key))
     \/ \E e \in Elems, rev \in BOOLEAN : Read(<<"ZRANK", e, rev>>, ZrankReply(Key, e, rev))
     \/ \E start, end \in RankArgs, rev \in BOOLEAN :
          Read(<<"ZRANGE", start, end, rev>>, ZrangeReply(Key, start, end, rev))
     \/ \E r \in PageRanges, off \in ReadOffsets, lim \in ReadLimits, rev \in BOOLEAN :
          Read(<<"ZRANGEBYSCORE", r, off, lim, rev>>,
               ZrangeByReply(Key, [by |-> "score", range |-> r], off, lim, rev))
     \/ SameScoreKey /\ \E r \in PageLexRanges, off \in ReadOffsets, lim \in ReadLimits, rev \in BOOLEAN :
          Read(<<"ZRANGEBYLEX", r, off, lim, rev>>,
               ZrangeByReply(Key, [by |-> "lex", range |-> r], off, lim, rev))
     \/ \E r \in ZRangeSpecs : Read(<<"ZCOUNT", r>>, CountReply(Key, [by |-> "score", range |-> r]))
     \/ \E r \in ZLexRangeSpecs : Read(<<"ZLEXCOUNT", r>>, CountReply(Key, [by |-> "lex", range |-> r]))

CallSpec == CallInit /\ [][CallNext]_<<vars, call>>

\* The key's state without the history: the states TLC tells apart.
KeyView == vars

Commands == INSTANCE ZsetCommands WITH zs <- Contents(Key), call <- call

\* Every ZADD, ZINCRBY, ZREM and ZREMRANGEBY* leaves the key's contents as
\* ZsetCommands says for its arguments, across zsetConvert, the ziplist
\* and skip-list forms, the deletion of an emptied key and the re-creation
\* of a deleted one; and every read command replies, in either form, what
\* ZsetCommands computes from the element -> score map alone.
ZsetCommandsSpec == Commands!Spec

=============================================================================
