# TLA+ models of the learnredis data-structure core

This directory holds TLA+ models of the in-memory data structures in `src/`
(an annotated copy of early Redis sources), the TLC configurations that check
them, and `PROJECT.json`. `PROJECT.json` lists the components, the runs, the
mutants, the map from each definition to the C lines it models, and the
hazards.

## 1. The system

`src/struct/dict.c` is several C files joined into one:
`dict.c` (lines 1–1430), `adlist.c` (1432–1800), `dict.h` (1831–2045) and
`ziplist.c` (2228–end). `src/struct/t_zset.c` is the sorted-set type:
the skip list (`zsl*`), the ziplist-encoded sorted set (`zzl*`), the sorted-set
commands, and `adlist.h` at the end. `src/unnamed/part_000` is a prose list of
files and has no code.

All the code is single-threaded, with no locks and no suspension points. What
makes it hard is not threads. It is operations that span several calls while
other calls change the structure in between:

- incremental rehashing, where a rehash step rides on other operations;
- the SCAN cursor, one call per batch;
- iterators;
- representation changes: ziplist to skip list, and a ziplist entry's
  `prevlen` field growing from 1 to 5 bytes.

### Components, their state and operations

| Component | State | Operations | Interacts with |
|---|---|---|---|
| Hash table (`dict`) | `ht[0]`, `ht[1]` (`table`, `size`, `sizemask`, `used`); `rehashidx`; `iterators`; global `dict_can_resize` | `dictCreate`, `dictAdd`/`AddRaw`, `dictReplace`/`ReplaceRaw`, `dictDelete`/`NoFree`, `dictFind`/`FetchValue`, `dictGetRandomKey`, `dictResize`, `dictExpand`, `dictRehash`, `dictRehashMilliseconds`, `dictEmpty`, `dictRelease`, `dictEnable`/`DisableResize` | Every lookup, insert and delete does one rehash step (`_dictRehashStep`), unless a safe iterator is bound. The sorted set uses a dict from element to score. |
| Scan (`dictScan`) | Kept only in the caller's cursor | `dictScan(d, v)` returns the next cursor | Reads both tables. Any other operation may run between two calls. |
| Iterators | `dictIterator` (`table`, `index`, `entry`, `nextEntry`, `safe`, `fingerprint`); the dict's `iterators` counter | `dictGetIterator`, `dictGetSafeIterator`, `dictNext`, `dictReleaseIterator`, `dictFingerprint` | A safe iterator stops rehash steps. An unsafe iterator asserts that the fingerprint did not change. |
| Packed list (`ziplist`) | One byte blob: header (`zlbytes`, `zltail`, `zllen`), entries (`prevlen`, encoding, payload), `0xFF` terminator | `ziplistNew`, `Push`, `Insert`, `Delete`, `DeleteRange`, `Index`, `Next`, `Prev`, `Get`, `Compare`, `Find`, `Len`; internal `__ziplistInsert`, `__ziplistDelete`, `__ziplistCascadeUpdate` | Small sorted sets are stored in it. |
| Skip list (`zsl`) | Header node with `ZSKIPLIST_MAXLEVEL` levels; nodes with score, object, per-level `forward`/`span` and a `backward` link; `tail`, `level`, `length` | `zslCreate`, `zslInsert`, `zslDelete`/`zslDeleteNode`, `zslFirstInRange`/`LastInRange` (by score and by lex), `zslDeleteRangeByScore`/`Lex`/`Rank`, `zslGetRank`, `zslGetElementByRank` | Large sorted sets use it together with a dict. |
| Sorted set (`zset`, `zzl*`, commands) | A key's object: either a ziplist of (element, score) pairs, or a skip list plus a dict | `zsetConvert`, ZADD/ZINCRBY, ZREM, ZREMRANGEBY*, ZUNIONSTORE/ZINTERSTORE, ZRANGE*, ZCOUNT, ZLEXCOUNT, ZRANK, ZSCORE, ZCARD, ZSCAN | Promotes from ziplist to skip list and dict. Keeps the dict and the skip list consistent. |
| Linked list (`adlist`) | `head`, `tail`, `len`, dup/free/match | create, add head/tail, insert, delete, iterate, dup, search, index, rotate | Plumbing only. |
| Hash functions | The seed | `dictGenHashFunction`, `dictGenCaseHashFunction`, `dictIntHashFunction` | Pure arithmetic. |

### What makes each component correct

- **Dict.** Each table's `used` equals the number of entries in its chains.
  Each entry sits in the bucket its hash selects. No key is stored twice.
  During rehashing, the buckets of `ht[0]` below `rehashidx` are empty, and
  `ht[1]` exists exactly while rehashing. `dictFind` finds exactly what is
  stored. Rehash steps never change the contents, so the dict implements a
  finite map.
- **Scan.** When the cursor comes back as 0, every key present for the whole
  iteration has been emitted at least once, whatever the resizes in between.
- **Iterators.** A safe iterator returns each key present throughout exactly
  once. The `iterators` counter returns to its old value. When a call made
  during an unsafe iteration makes it skip or repeat a key, the fingerprint
  differs at release and the assert fires.
- **Rehash progress.** A rehash that has started eventually finishes.
- **Ziplist.** Each `prevlen` is the byte length of the previous entry, and its
  size matches the encoding rule. `zltail` is the offset of the last entry.
  `zlbytes` is the sum of the parts. Iterating forward gives the reverse of
  iterating backward.
- **Skip list.** Level 0 is sorted by (score, element). Each level is a
  subsequence of the level below. The spans along a path add up to the rank.
  `backward` mirrors level 0. `length` counts the nodes.
- **Aggregation.** ZUNIONSTORE and ZINTERSTORE store the union or
  intersection with the aggregated weighted scores, and never insert a NaN.
- **Sorted set.** In skip-list form, the dict and the skip list hold the same
  (element, score) pairs. A set never goes back to ziplist form while
  non-empty (except ZUNION/ZINTERSTORE's deliberate compaction of a new
  destination). Contents are preserved across a conversion.

## 2. Modules and runs

| Module | Models | State ↔ code |
|---|---|---|
| `DictMap` | The abstract map a dict promises: `map : Keys -> Vals ∪ {NoVal}`, with Insert (add when absent), Update, Remove and Clear | `map` is what `dictFetchValue` returns for each key |
| `Dict` | `dict.c` lines 60–1265: the dict struct as the record `d` and the flag `dict_can_resize` | `d.ht[t]` is `[size, sizemask, used, table]`. `table[i]` is the chain of bucket `i` from its head, as a sequence of `[key, val]` entries. `d.rehashidx` and `d.iterators` are the C fields. |
| `DictScan` | `dictScan` and `rev`, plus a caller that passes the returned cursor back | `cursor` is the caller's cursor. `seen` and `alive` are history variables. |
| `DictIter` | Iterators: `dictGetIterator`, `dictGetSafeIterator`, `dictNext`, `dictReleaseIterator` and `dictFingerprint` (`dict.c` 721–876). A caller runs any `Dict` operation between `dictNext` calls of a safe iterator, and the read calls `dictFind` and `dictGetRandomKey` during an unsafe one | `it` is the `dictIterator` (`safe`, `table`, `index`, `entry`, `nextEntry`, `fingerprint`). A fingerprint is the tuple `<<size0, used0, size1, used1>>`: the 64-bit hash is taken as collision-free, and a table pointer changes only where a size or used count does for the read calls. A failed release assert sets `itPhase` to `"aborted"`, after which no step follows. An entry pointer is the entry's key, and `entry->next` (`Successor`) is read from wherever the entry is chained at that moment. `itPhase`, `returned`, `alive` and `nextFreed` are history variables. |
| `MC_Dict`, `MC_DictScan`, `MC_DictIter` | TLC instances | Four (three for `MC_DictIter`) model-value keys and a fixed hash table `MCHash` |

Each C function is an operator from a dict to a dict, or to a result and a
dict, with the same name: `DictRehash`, `DictExpand`, `DictExpandIfNeeded`,
`DictKeyIndex`, `DictAddRaw`, `DictGenericDelete`, `DictFetchValue` and
`DictScanOnce`. An action is a whole public call, including the rehash step it
piggy-backs, the expansion it may trigger, and the second step that
`dictReplace` takes through `dictFind`. A failing call keeps those side
effects, as the C does. For example, `dictAdd` of a present key can still
expand the table.

### Runs

- **dict_ops** (`MC_Dict.cfg`): all interleavings of Add, Replace, Delete,
  Find, GetRandomKey, Resize, Expand (every size 1..8), RehashMilliseconds,
  Empty and the resize flag, over 4 keys and 2 values. It checks:
  - `TypeOK`;
  - `TablesConsistent`: the structural invariants above;
  - `FindCorrect`: `dictFind`'s two-table search finds exactly the stored
    value of every key;
  - `DictMapSpec`: refinement of `DictMap` under the mapping
    `map <- Contents(d)`. Rehash steps, expansions and shrinks are
    stuttering steps of the map. A lost or duplicated entry during a rehash
    fails this.
  - `LoadBounded`: `ht[0]` never holds more than
    `dict_force_resize_ratio + 1` entries per bucket. While a child saves,
    resizing is disabled, and only the forced expansion of
    `_dictExpandIfNeeded` (dict.c:1157) keeps chains short. To reach that
    path with four keys, `MC_Dict.cfg` scales `DICT_HT_INITIAL_SIZE` from
    4 to 1 and `dict_force_resize_ratio` from 5 to 1, by substituting the
    definitions of `MC_Dict`. The guard tests `used >= size` and then
    `used / size > ratio` (integer division). So with ratio 1, a full
    1-bucket table is forced to grow at 2 keys, as a 4-bucket table is
    forced to grow at 24 keys in Redis. Table sizes 1, 2, 4 and 8 are all
    reached.
  - `RehashAdvances` (an action property): on a rehashing dict with no
    safe iterator bound, every step that changes the dict moves `rehashidx`
    forward or finishes the rehash. A finished rehash may start the next
    expansion at once, inside the same `dictAdd`, so "finished" also
    covers the old `ht[1]` having become `ht[0]`. Since `rehashidx` is at
    most `ht[0].size`, a rehash ends within `ht[0].size + 1` calls, with
    no help from the cron (see Fairness below).

  Result: 14k distinct states, all properties hold (about 40 s).
- **dict_scan** (`MC_DictScan.cfg`): the same dictionary operations (one
  value), interleaved with a scan that starts, steps and restarts. It checks
  `ScanComplete`: when the scan returns 0, `alive ⊆ seen`. Result: 177k
  distinct states, holds.
- **dict_iter** (`MC_DictIter.cfg`, `CallerMay = {}`): a safe or unsafe
  iterator is created, stepped with `dictNext` and released. Between the calls the
  caller may run add, replace, find, random-key, resize, expand, the resize
  flag, and `dictDelete` of the entry just returned. This is what the comment
  at `dictNext` (dict.c:847) plans for. Before the first `dictNext`, and
  after the release, anything goes. It checks:
  - `SafeIterExactlyOnce`: every key present throughout is returned at most
    once, and exactly once by the time `dictNext` returns NULL. This holds
    across an expansion started by an add during the iteration and across an
    iteration that starts mid-rehash.
  - `IteratorsCounted`: `d.iterators` is 1 exactly while a started
    iterator is unreleased.
  - `NoDanglingNext`: the saved `nextEntry` is never freed.
  - `FingerprintCatchesMisuse`: during an unsafe iteration the caller may
    only make the read calls `dictFind` and `dictGetRandomKey`. Their rehash
    step ignores unsafe iterators (dict.c:406 tests only `iterators`). The
    property says that whenever such a call has made the iteration repeat a
    key, or miss one by the time `dictNext` returns NULL, the fingerprint
    differs from the one taken at the first `dictNext`, so the assert at
    dict.c:873 fires on release.

  Every cfg of `MC_DictIter` sets `CHECK_DEADLOCK FALSE`. A failed assert
  aborts the process, so the aborted state has no successor.

  Result: 497k distinct states, all hold (about 1.5 minutes).
- Three **violation** runs give the caller one more call. Each breaks what
  spec.md says of safe iterators ("inhibits background rehashing steps for
  the duration; allows arbitrary mutation between `next` calls"):
  - **dict_iter_timed_rehash** (`dictRehashMilliseconds`): the cron's timed
    rehash ignores `iterators`. With `k2` in `ht[0]` during a 4→8 rehash,
    the iterator returns `k2`, the rehash completes and swaps the tables, and
    the iterator meets `k2` again in bucket 4 of the new `ht[0]`. The
    iteration returns `k2` twice.
  - **dict_iter_delete_other** (`dictDelete` of any key): deleting the key
    chained after the returned one frees `nextEntry`, which the next
    `dictNext` follows.
  - **dict_iter_empty** (`dictEmpty`): `iterators` is reset to 0 under a live
    iterator. Its release leaves -1, and `_dictRehashStep` never runs again.

Every property has a mutant in `PROJECT.json` that TLC catches under the
run's own configuration:

| Property | Mutant |
|---|---|
| `TypeOK` | `_dictNextPower` returns the requested size unrounded |
| `TablesConsistent` | delete without `used--` |
| `FindCorrect` | `dictFind` returns NULL after `ht[0]` even while rehashing |
| `LoadBounded` | `_dictExpandIfNeeded` drops the forced expansion, so with resizing disabled no table grows |
| `DictMapSpec` | the rehash loop moves only the head of a chain |
| `ScanTypeOK` | `dictScan` returns the cursor without the final `rev()` |
| `IterTypeOK` | `dictNext` moves on to `ht[1]` without resetting `index` to 0 |
| `SafeIterExactlyOnce` | `_dictRehashStep` ignores `iterators` |
| `IteratorsCounted` | `dictReleaseIterator` decrements the counter even for an iterator that was never started |
| `NoDanglingNext` | `dictNext` saves the returned entry as `nextEntry` instead of its successor |
| `RehashAdvances` | `dictAddRaw` skips its leading `_dictRehashStep` |
| `FingerprintCatchesMisuse` | `dictFingerprint` hashes only the two table sizes |
| `ScanComplete` | the expansion loop written as `while` instead of `do … while`, which skips `ht[1]` when the table is rehashing to the same size |

### Skip list

| Module | Models | State ↔ code |
|---|---|---|
| `ZRange` | `zrangespec`/`zlexrangespec` as produced by `zslParseRange`/`zslParseLexRange`, `compareStringObjectsForLexRange`, the four `zsl(Lex)Value(Gte\|Lte)(Min\|Max)` tests | An element string is a natural number, ordered as its bytes are (`compareStringObjects` is the sign of the difference). `MINSTR`/`MAXSTR` are `shared.minstring`/`maxstring` ("-" and "+"). Scores are naturals: NaN is rejected by the parsers. |
| `SortedSet` | The abstract sorted set: `zs : Elems -> Scores ∪ {NoScore}` and `call`, the last change asked for with its arguments | Insert (of an absent element), Remove(score, element) and removal by score, string or rank range. String ranges are defined only when all elements share one score. |
| `Skiplist` | `t_zset.c` 64–878: every `zsl*` function | `zsl` is the `zskiplist` with the nodes inlined: `fwd[x][i]`, `span[x][i]`, `backward[x]`, `score[x]`, `obj[x]`, `height[x]` for node ids `1..Cardinality(Elems)` and the header `0`, plus `level`, `length`, `tail` and the set of allocated nodes `inuse`. A descent (`Search`) is a recursive function per level that carries the node and the rank, like `update[]` and `rank[]`. |
| `SkiplistCalls` | The calls the sorted-set commands make, recorded in `call` | Maps `zs <- ZsOf(zsl)` and `call <- call`. |

`zslRandomLevel` is a nondeterministic choice of `1..ZSKIPLIST_MAXLEVEL`: every
level has non-zero probability. `zslInsert`'s caller precondition (the
element is absent, checked in the dict by ZADD) is the guard of `Insert`.
`DeleteRangeByRank` takes `1 <= start <= end <= length`, which is what
`zremrangeGenericCommand` passes after sanitising. `DeleteRangeByLex` is
taken only while all elements share one score, which is what ZREMRANGEBYLEX
is for. The run `skiplist_lex_mixed_scores` shows what happens otherwise.

Runs:

- **skiplist_ops** (`MC_Skiplist.cfg`): inserts at every level, deletes, and
  range deletes by every score range (bounds 0..3 around scores 1, 2), every
  string range (`-`, `+`, inclusive and exclusive items) and every rank
  range. It uses three elements and `ZSKIPLIST_MAXLEVEL = 3`, and drives
  the list through `SkiplistCalls.CallSpec`. It checks:
  - `SkiplistWellFormed`: level 0 is strictly ordered; `length`, `tail` and
    `backward` agree with it; level `i` is exactly the nodes taller than
    `i`; `level` is the tallest node's height.
  - `SpansCorrect`: every span below `level` is the distance in level-0
    steps. A NULL forward's span is the distance to the end.
  - `RankCorrect`: `zslGetRank` and `zslGetElementByRank` agree with the
    (score, element) order.
  - `RangeCorrect`: first/last in range, by score and by string, agree with
    the order for every accepted range.

  - `SortedSetSpec`: the refinement, checked call by call through
    `SkiplistCalls`. Without `call`, a rank deletion shifted by one would
    pass, because it still removes a contiguous block of ranks. `call` only
    records the last call, so the cfg's `VIEW ListView` leaves it out of the
    state TLC tells apart; no successor depends on it.

  Result: 4251 distinct states, all hold (about 2 minutes).
- **skiplist_lex_mixed_scores** (violation, `MC_Skiplist_lex.cfg`):
  `LexRangeByElement` without the one-score condition. With element 1 at
  score 2 and element 2 at score 1, the lex functions walk in score order
  and return the wrong node. spec.md §4.2 states the lex queries with no such
  condition (finding `spec_gap`).

| Property | Mutant |
|---|---|
| `SkiplistTypeOK` | `zslRandomLevel` without the `ZSKIPLIST_MAXLEVEL` cap |
| `SkiplistWellFormed` | `zslDeleteNode` without the `backward` fix-up |
| `SpansCorrect` | `zslInsert` without `span++` on the levels above the new node |
| `RankCorrect` | `zslGetRank` walks with `<` instead of `<=` |
| `RangeCorrect` | `zslFirstInRange` without the final `score <= max` check |
| `SortedSetSpec` | `zslDeleteRangeByRank` descends while `traversed + span <= start` |

### Sorted set (Zset)

| Module | Models | State ↔ code |
|---|---|---|
| `Zset` | One sorted-set key under the write commands: `zzl*` (964–1324), `zsetLength`, `zsetConvert` to skip list, `zaddGenericCommand`, `zremCommand`, `zremrangeGenericCommand` (1330–1740) | `enc` is the key's encoding (`"none"` for no key), `zl` the ziplist as a sequence of alternating element and score entries, `zsl` the skip list of `Skiplist` (through `INSTANCE`) and `dict` the zset dict as element → node id (the node whose `score` the dict value points to). `panic` is a failed `redisAssert`. |
| `ZsetQueries` | The read commands on that key, in both forms: `zcardCommand`, `zrankGenericCommand`, `zrangeGenericCommand`, `genericZrangebyscoreCommand`, `zcountCommand`, `zlexcountCommand`, `genericZrangebylexCommand` (2340–3085), with `zzlLastInRange`, `zzlLastInLexRange`, `zzlNext`, `zzlPrev` | Each command is an operator from the key to its reply and whether its `redisAssert`s hold. A walk's cursor is the element entry's index (ziplist) or the node (skip list); the `offset` and `limit` loops are `SkipN` and `Collect`, written as the code's `while (p && n--)`. |
| `ZsetCommands` | What each command does to the key's element → score map, and what each read command replies, from the (score, element) order | `zs` and `call`: the command with its arguments and a bit that flips with every command. |
| `ZsetCalls` | `Zset` with `call` recorded | Maps `zs <- Contents(Key)` (what ZSCORE reads in either form) and `call <- call`. |

A command is one action: the whole C function, including key creation, the
conversion it may trigger in the middle of its loop, the `zslInsert`s of the
conversion (one `zslRandomLevel` choice each, so a step yields a set of
possible keys), the repointing of a dict value after a score change and the
deletion of a key left empty. The ziplist's bytes are abstracted to its
entries; integral scores round-trip exactly through `d2string` and
`zzlGetScore`, so an entry holds the score itself. Element length is the
constant set `LongElems` (longer than `zset_max_ziplist_value`). ZINCRBY is
taken only when the result stays in `Scores`, which keeps the state finite.

Runs:

- **zset_ops** (`MC_Zset.cfg`): every ZADD (one or two pairs), ZINCRBY,
  ZREM (one or two elements), ZREMRANGEBYRANK (every index from −5 to 4),
  ZREMRANGEBYSCORE and ZREMRANGEBYLEX (every parsed range) on one key,
  interleaved with every read command: ZCARD, ZRANK, ZRANGE (every pair of
  indexes from −5 to 4), ZRANGEBYSCORE and ZRANGEBYLEX (every parsed range
  whose min is not above its max, offset −1..1, limit −1..1; ZRANGEBYLEX
  only on a key whose elements share one score), ZCOUNT and ZLEXCOUNT
  (every parsed range, inverted ones included: they stop at the same
  first-in-range lookup the paging commands start with), each reversed
  too, with
  elements 4..7 (7 is long), scores 1 and 2 and
  `zset_max_ziplist_entries = 2`. It checks:
  - `DualConsistent`: in skip-list form the dict and the skip list hold the
    same elements, and each dict value points at its element's live node.
  - `ZiplistSorted`: the ziplist alternates element and score, strictly
    ordered by (score, element).
  - `EncodingBound`: a ziplist-form key never holds more pairs than the
    limit or a long element.
  - `NoEmptyKey`: no key survives holding no element.
  - `NoAssertFails`: no `redisAssert` fails (the `zslDelete` of a score
    update, the `dictAdd` of a conversion, ZRANGE's walk of `rangelen`
    entries, ZCOUNT's first entry, ZRANK's non-zero rank).
  - `ZsetCommandsSpec`: each command checked against what it means for its
    own arguments, through `ZsetCalls`. `call` only records the last
    command, so the cfg's `VIEW KeyView` leaves it out of the state TLC
    tells apart. This is sound because successors do not depend on `call`,
    and the bit keeps every command from being taken for a stutter.
    A read command's reply is its last argument: ZRANGE* must reply the
    run of the (score, element) order its indexes or range select, after
    `offset` (a negative offset skips everything) and up to `limit` (a
    negative limit is none); ZCOUNT the size of the range; ZRANK the
    0-based rank. So the ziplist walk, the skip-list walk and the
    skip-list count from two ranks must all agree with one definition.
    The lex commands are checked only when all scores are equal, the only
    case in which a string range is defined.

  Result: 1491 distinct states (2.6 million transitions, about 2 minutes),
  all hold.

| Property | Mutant |
|---|---|
| `ZsetTypeOK` | `zzlInsertAt` pushes the score before the element |
| `DualConsistent` | ZREM deletes from the skip list but not the dict |
| `ZiplistSorted` | `zzlInsert` compares scores only, not elements |
| `EncodingBound` | ZADD checks the ziplist length before `zzlInsert` |
| `NoEmptyKey` | ZREM tests the dict size before `dictDelete` |
| `NoAssertFails` | ZADD leaves the dict value pointing at the freed node |
| `ZsetCommandsSpec` | `zzlDeleteRangeByRank` deletes `end - start` pairs |
| `ZsetCommandsSpec` | `zzlPrev` stops before the head pair |
| `ZsetCommandsSpec` | ZCOUNT in skip-list form leaves the first node in range out of the count |
| `NoAssertFails` | ZRANGE does not clamp `end` to `llen - 1` |

`ZSKIPLIST_MAXLEVEL` is 1 in these runs. The skip list's level mechanics are
checked by `skiplist_ops`. Here every extra level multiplies the outcomes of a
conversion: the run takes 13 minutes with two levels. Four elements are
needed to reach a two-pair ziplist of short elements and then convert it by
adding a long one, or a third element.

### Aggregation (ZsetAggregate)

| Module | Models | State ↔ code |
|---|---|---|
| `ZsetAggregate` | `zunionstoreCommand` and `zinterstoreCommand` through `zunionInterGenericCommand` (t_zset.c 2066–2338), with `zuiLength`, `zuiNext`/`zuiFind` (the pairs a source presents) and `zunionInterAggregate` | `db` maps each key to its type (`none`, `string`, `set`, `zset`), a sorted set's encoding, and the score of each element (`NoScore` when absent; a set member has the 1.0 the zui layer gives it). `reply` is the last reply, `panic` a failed `redisAssert(!isnan(score))` in `zslInsert`, and `call` the last command (history only). |

A double is a small integer or one of the model values `PosInf`, `NegInf` and
`NaN`. `DMul`, `DAdd` and `DLess` give IEEE 754 `*`, `+` and `<` on them:
`0 * inf` and `+inf + -inf` are NaN, and every comparison with NaN is false.
A command is one action. The WRONGTYPE check comes first and changes
nothing. The qsort by `zuiLength` is a choice among the orders with
non-decreasing lengths, because qsort is not stable. The intersection then
walks `src[0]`, with the same-subject case and the `break` of its probe loop.
The union uses the accumulator. After both, the destination is deleted and
the result added back when non-empty, as a ziplist when it has at most
`zset_max_ziplist_entries` elements and no long one. The sources' own
encodings do not matter to the algorithm and are not modelled. The argument
parsing (numkeys, WEIGHTS, AGGREGATE), whose errors only reply, is left out.
A command whose finite scores would leave −3..3 is not taken, which keeps
the state finite.

Run **zset_aggregate** (`MC_ZsetAggregate.cfg`): two keys, starting as any
mix of missing keys, strings, sets and sorted sets over two elements (`b`
long), with scores 1, +inf and −inf. Then any ZUNIONSTORE or ZINTERSTORE with
one or two sources, weights 0 or 1 and any aggregate. A command may repeat a
key and store into one of its own sources. It checks:

- `ZaggTypeOK`: the type invariant, including that a stored set is never
  empty.
- `NoNaNInserted`: no NaN reaches `zslInsert`. NaN arises from a weight 0 on
  an infinite score and from a SUM of both infinities. The union's weighting,
  the first source of an intersection and `zunionInterAggregate` each turn
  it into 0, and MIN and MAX never pick it.
- `StoreMatchesReference`: on the inputs whose result spec.md defines (no
  NaN product, and no SUM meeting both infinities), the stored value, its
  encoding and the reply equal the reference. The reference is the union or
  intersection of the sources as given, each element scored by the sum, the
  least or the greatest of its weighted scores. This holds for every order
  qsort may choose.

Result: 3149 distinct states, all hold (about 80 s).

| Property | Mutant |
|---|---|
| `ZaggTypeOK` | an empty result is stored instead of deleting the destination |
| `NoNaNInserted` | `zunionInterAggregate` without the `isnan` fix |
| `StoreMatchesReference` | the sorted sources keep the weights of their original positions |

Two order dependences are listed as hazards, with no property. spec.md does
not define their result:

- In ZINTERSTORE the products of the second and later sources are not
  NaN-fixed (t_zset.c:2208). A `0 * inf` there resets a SUM to 0 and is
  ignored by MIN and MAX. The first source's NaN counts as 0. Which source
  comes first is qsort's choice.
- A SUM over three sources holding +inf, +inf and −inf for one element gives
  +inf or 0, depending on the order.

With three sources per command the run does not finish within 15 minutes.

### Packed list (Ziplist)

| Module | Models | State ↔ code |
|---|---|---|
| `Ziplist` | `dict.c` 2229–3561 (`ziplist.c`): entry encoding (`zipTryEncoding`, `zipEncodingLengthSize`, `zipPrevEncodeLength`, `zipRawEntryLength`), `__ziplistCascadeUpdate`, `__ziplistInsert`, `__ziplistDelete`, `ziplistPush`, `ziplistInsert`, `ziplistDelete`, `ziplistDeleteRange`, `ziplistIndex`, `ziplistPrev`, `ziplistLen`, `ziplistCompare`, `ziplistFind` (3427–3537) | `zl.entries` is the entry sequence, each entry `[prevsize, prevlen, lensize, len, val]`: the size and value of its prevlen field, the size of its encoding and of its payload, and the payload. Offsets are sums of these sizes. `zl.zlbytes`, `zl.zltail` and `zl.zllen` are the header fields, updated by the code's own arithmetic, not recomputed. `overrun` records a `memmove` that would read past the buffer. |
| `PackedList` | What a ziplist promises: a sequence of payloads under push, insert, delete, range delete and length; compare and find (from a cursor, every skip + 1 entries) read it | `list` and `call`, as in `ZsetCommands`. |

A payload is `[slen, num]`: its string length, and its value when it parses
as an integer (`NoNum` otherwise). The bytes themselves are abstracted away;
the sizes the code computes from them are kept. Each action is the whole
public call, including the cascade update that `__ziplistInsert` and
`__ziplistDelete` run before returning.

Runs:

- **ziplist_ops** (`MC_Ziplist.cfg`): every push (head or tail), insert at
  every position, delete at every position, and range delete of 0..2 entries
  from every index (−7..6), and compare and find (skip 0 and 1) of every
  payload from every cursor, up to 6 entries of four payloads: "7", "a", a
  250-byte string and a 252-byte string. It checks:
  - `LayoutConsistent`: `zlbytes` is the sum of the entry sizes plus header
    and end byte; `zltail` is the offset of the last entry; each prevlen
    field holds the previous entry's length in a field large enough for it;
    and `ziplistPrev` walks back from every entry to the one before.
  - `ZllenSound`: `ziplistLen` returns the number of entries, whether or
    not `zllen` has saturated at `UINT16_MAX`.
  - `PackedListSpec`: each call changes the payload sequence as
    `PackedList` says, and `ziplistCompare` and `ziplistFind` answer as it
    says: a string entry matches by length and bytes, an integer entry by
    value, and `ziplistFind` compares every (skip + 1)-th entry from the
    cursor.

  Result: 13554 distinct states, all hold. A step after an overrun would be
  undefined behaviour, so `Next` stops there; this cfg says
  `CHECK_DEADLOCK FALSE` for that reason. The `VIEW ZiplistView` leaves
  out `call`, as in `zset_ops`.
- **ziplist_insert_overrun** (`MC_Ziplist_overrun.cfg`), expected to
  violate `NoOverrun`. `__ziplistInsert` reallocates to
  `curlen + reqlen + nextdiff` (dict.c:3130) before it moves the tail
  (dict.c:3139). When the next entry's 5-byte prevlen field was kept by a
  cascade for a small length (dict.c:2939), `nextdiff` is −4. If the new
  entry is shorter than 4 bytes, the buffer shrinks before the `memmove`,
  which then reads past the end. The trace is: push "a"; push a 250-byte
  string at the head; push a 252-byte string at the head; insert "a" at
  position 2; insert "a" at position 4. Later Redis versions add a
  `forcelarge` flag at this point; this code lacks it.

| Property | Mutant |
|---|---|
| `ZiplistTypeOK` | `ZIPLIST_INCR_LENGTH` adds without checking for `UINT16_MAX`, so `zllen` passes it |
| `LayoutConsistent` | `__ziplistCascadeUpdate` adds the size change to `zltail` even when the entry is the tail |
| `ZllenSound` | `ZIPLIST_INCR_LENGTH` wraps at `UINT16_MAX` instead of sticking |
| `PackedListSpec` | `ziplistIndex` starts a negative index one entry too far back |
| `PackedListSpec` | `ziplistFind` does not reset `skipcnt` after a failed comparison |

`UINT16_MAX` is scaled to 3: the code only ever compares `zllen` with it,
so the saturated path (a full walk in `ziplistLen`) is reached with four
entries. The payload sizes sit around the 254-byte boundary at which a
prevlen field grows from 1 to 5 bytes: the 250-byte string gives a 253- or
257-byte entry depending on its own prevlen field, so a cascade both grows
fields and keeps a 5-byte field for a small length.

### Bounds and why they suffice

`HashBits = 3`, with 4 keys. The hash puts `k1 = 0` and `k2 = 4` in one
bucket of a 4-bucket table and in different buckets of an 8-bucket table.
So a grow splits a chain and a shrink merges one. `MC_DictScan` and
`MC_DictIter` keep `DICT_HT_INITIAL_SIZE = 4`: table sizes are 4 and 8.
A fifth `dictAdd` on a full 4-bucket table expands it, even for a key that
is already present. A `dictResize` of an 8-bucket table holding at most 4
keys shrinks it. A `dictResize` at the minimum size "rehashes" into a
table of the same size. TLC reaches all of these: grow and shrink both
happen with entries in both tables.

`MC_Dict` scales `DICT_HT_INITIAL_SIZE` and `dict_force_resize_ratio` to 1
(see `LoadBounded`), so its tables are 1, 2, 4 and 8 buckets. Both
expansion paths are reached: the normal one (`used >= size` with resizing
enabled) and the forced one (`used / size > ratio` with it disabled). In
Redis the forced path needs 24 keys.

With at most 8 buckets, one `dictRehash(d, 100)` batch always finishes, so
`RehashMilliseconds` completes the rehash. `dictRehash` stops after
`n * 10` empty buckets; with at most 8 buckets that limit never bites, and
the model moves straight to the next non-empty bucket. The cursor is
modelled on 3 bits. Only the low bits of an `unsigned long` cursor ever
reach a mask. After `v |= ~m0`, a reverse-increment on 3 bits gives the
same low bits, and wraps to 0 at the same point, as on 64 bits.

`MC_DictIter` uses three keys (`k1`, `k2`, `k3`): with four, the run takes
almost 7 minutes. Growth to 8 buckets comes from `dictExpand(8)`, which an
add of a fourth key would otherwise trigger. The shrink 8→4 comes from
`dictResize`. The caller can also make these calls during an iteration.

### Fairness

No fairness is assumed anywhere. The dict guarantees no progress of its
own: rehashing advances only when callers make calls, and the piggy-backed
`_dictRehashStep` runs only while no safe iterator is bound. Nothing under
`src/` calls `dictRehashMilliseconds` (the server cron that does is not
part of this repository), so a fairness condition on it would be an
assumption about other code. Completion of a rehash is therefore stated as
the safety property `RehashAdvances`: each call makes progress, and the
progress is bounded by `ht[0].size`. That gives completion after a bounded
number of calls, whichever calls they are.

The iterator runs check safety only. No progress of `dictNext` is assumed,
because the caller may release the iterator at any time.

`DictRehash` binds each turn's result with `CHOOSE … \in {…} : TRUE` so that
TLC computes it once; an unbound recursive argument would be recomputed at
every level.

## 3. Plan for the next sittings

The order follows importance: the dict is used by every other component.

1. **Done:** `Dict`, `DictMap` (refinement), `DictScan`.
2. **Done:** `DictIter`, safe and unsafe iterators with the fingerprint
   (three findings), and the bounded progress of rehashing in `dict_ops`.
3. **Done:** `Skiplist`, `SortedSet` and `SkiplistCalls` (refinement).
4. **Done:** `Ziplist` and `PackedList` (refinement), with one finding,
   including `ziplistCompare` and `ziplistFind`. (This version of the code
   has no `ziplistReplace` or `ziplistMerge`.)
5. **Done:** `Zset`, `ZsetCommands` and `ZsetCalls` (refinement command by
   command), with the read commands of `ZsetQueries` checked in both forms
   against the same definition.
6. **Done:** `ZsetAggregate`, with the store checked against a reference.
7. **Not done:** `adlist` (see below).

## 4. Not modelled

- The hash functions: pure arithmetic, replaced by the constant `Hash`.
- `dictPrintStats` and the ziplist test `main`: printing and test code.
- Memory allocation failure: `zmalloc` aborts in this code base, so there is
  no failure path to model.
- The value-union variants (`u64`, `s64`, `d`), which differ only in the
  payload's type.
- Key/value dup and free callbacks: ownership, not state the properties tell
  apart.
- `adlist` (dict.c 1390–1800): a self-contained doubly linked list. Neither
  the hash table nor the sorted set calls it, so it shares no state with
  any modelled component. Modelling it would need a separate model with
  its own run, and every run of this project goes to the interacting dict
  and sorted-set code. Its hazards are the tail update of
  `listInsertNode` and the deletion of nodes other than the current one
  during a `listNext` iteration. These are the same kind as the dict
  iterator's `NoDanglingNext` finding.
- Argument parsing and reply encoding of the read commands
  (`zslParseRange`, `zslParseLexRange`, the WITHSCORES/LIMIT syntax
  errors, `addReply*`). A reply is kept as the value it encodes.
