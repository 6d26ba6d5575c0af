-------------------------------- MODULE Dict --------------------------------
(***************************************************************************)
(* The chained hash table of src/struct/dict.c with incremental rehashing. *)
(*                                                                         *)
(* The variable d is the C struct dict: two tables ht[0], ht[1] (size,     *)
(* sizemask, used and the bucket array, each bucket the chain of dictEntry *)
(* records from its head), the rehash cursor rehashidx (-1 when not        *)
(* rehashing) and the safe-iterator counter.  dict_can_resize is the       *)
(* process-wide flag of dictEnableResize / dictDisableResize.              *)
(*                                                                         *)
(* The C functions are operators from a dict to a dict (and a result); an  *)
(* action applies the whole public function, including the rehash step it *)
(* piggy-backs and the expansion it may trigger.  The hash function is     *)
(* abstracted to a constant map from keys to the low HashBits bits of      *)
(* their hash: no reachable sizemask uses more bits than that.             *)
(***************************************************************************)
EXTENDS Naturals, Integers, Sequences, FiniteSets, Functions, Bitwise

CONSTANTS
  Keys,      \* keys stored in the dictionary (model values)
  Vals,      \* values stored in dictEntry.v.val
  NoVal,     \* the NULL dictFetchValue returns for an absent key
  Hash,      \* dictHashKey, reduced to its low HashBits bits
  HashBits   \* bits of hash and scan cursor covered by any reachable mask

ASSUME NoVal \notin Vals
ASSUME HashBits \in Nat \ {0}
ASSUME Hash \in [Keys -> 0 .. 2^HashBits - 1]

VARIABLES
  d,               \* the dict struct
  dict_can_resize  \* static int dict_can_resize (dict.c:64)

dict_vars == <<d, dict_can_resize>>

DICT_HT_INITIAL_SIZE == 4
dict_force_resize_ratio == 5

Entry == [key : Keys, val : Vals]

\* _dictReset: table NULL, size 0, sizemask 0, used 0.
ResetTable == [size |-> 0, sizemask |-> 0, used |-> 0, table |-> <<>>]

\* The new table n built by dictExpand, every bucket NULL.
NewTable(realsize) ==
  [size |-> realsize, sizemask |-> realsize - 1, used |-> 0,
   table |-> [i \in 0 .. realsize - 1 |-> <<>>]]

\* _dictInit as called by dictCreate.
DictInit == [ht |-> [t \in 0 .. 1 |-> ResetTable], rehashidx |-> -1, iterators |-> 0]

IsRehashing(dd) == dd.rehashidx # -1

DictSize(dd) == dd.ht[0].used + dd.ht[1].used

\* h & sizemask of table t: the bucket a key belongs to.
BucketIdx(dd, t, k) == Hash[k] & dd.ht[t].sizemask

\* The keys chained in a bucket.
ChainKeys(chain) == {chain[j].key : j \in DOMAIN chain}

\* Whether the bucket of k in table t holds k (the while(he) loops).
InChain(dd, t, k) == k \in ChainKeys(dd.ht[t].table[BucketIdx(dd, t, k)])

(***************************************************************************)
(* dictRehash(d, n): each step moves every entry of the next non-empty     *)
(* bucket of ht[0], head first, to the head of its bucket in ht[1]; when   *)
(* ht[0] is empty, ht[1] becomes ht[0] and rehashing ends.                 *)
(***************************************************************************)
RECURSIVE MoveEntries(_, _)

\* Mutant: the while(de) loop stops after the head of the chain, and the
\* rest of the bucket is dropped when the bucket is set to NULL.
MoveEntriesHeadOnly(dd, chain) ==
  IF chain = <<>> THEN dd
  ELSE LET de == Head(chain)
           h  == Hash[de.key] & dd.ht[1].sizemask
       IN  [dd EXCEPT !.ht[1].table[h] = <<de>> \o @,
                      !.ht[0].used = @ - Len(chain),
                      !.ht[1].used = @ + 1]

MoveEntries(dd, chain) ==
  IF chain = <<>> THEN dd
  ELSE LET de == Head(chain)
           h  == Hash[de.key] & dd.ht[1].sizemask
       IN  MoveEntries([dd EXCEPT !.ht[1].table[h] = <<de>> \o @,
                                  !.ht[0].used = @ - 1,
                                  !.ht[1].used = @ + 1], Tail(chain))

\* The first non-empty bucket at or after rehashidx (dict.c:331).
NextBucket(dd) ==
  CHOOSE i \in dd.rehashidx .. dd.ht[0].size - 1 :
    /\ dd.ht[0].table[i] # <<>>
    /\ \A j \in dd.rehashidx .. i - 1 : dd.ht[0].table[j] = <<>>

\* One turn of dictRehash's while (n--) loop on a rehashing dict: finish
\* when ht[0] is empty, else move the next non-empty bucket.
RehashOnce(dd) ==
  IF dd.ht[0].used = 0
  THEN [dd EXCEPT !.ht = [t \in 0 .. 1 |-> IF t = 0 THEN dd.ht[1] ELSE ResetTable],
                  !.rehashidx = -1]
  ELSE LET idx   == NextBucket(dd)
           moved == MoveEntries(dd, dd.ht[0].table[idx])
       IN  [moved EXCEPT !.ht[0].table[idx] = <<>>, !.rehashidx = idx + 1]

\* Mutant: the loop stops once ht[0] is empty instead of once the rehash
\* has finished, so the final swap never happens.
TurnWhileUsed(dd) == IF dd.ht[0].used # 0 THEN RehashOnce(dd) ELSE dd

\* A turn of the loop, none once the rehash has finished.
Turn(dd) == IF IsRehashing(dd) THEN RehashOnce(dd) ELSE dd

\* The while (n--) loop: at most n turns, returning once the rehash has
\* finished.  Each turn is applied to the dict the previous one left,
\* bound as a value so that it is computed once.
RECURSIVE Turns(_, _)
Turns(dd, n) ==
  IF n = 0 \/ ~IsRehashing(dd) THEN dd
  ELSE CHOOSE next \in {Turns(t, n - 1) : t \in {Turn(dd)}} : TRUE

\* dictRehash(d, n).  Every turn empties a bucket of ht[0] or finishes, so
\* turns beyond ht[0].size + 1 never happen.
DictRehash(dd, n) == Turns(dd, IF n < dd.ht[0].size + 1 THEN n ELSE dd.ht[0].size + 1)

\* Mutant: the step ignores the iterators counter.
RehashStepAlways(dd) == DictRehash(dd, 1)

\* _dictRehashStep: one step, only when no safe iterator is bound.
RehashStep(dd) == IF dd.iterators = 0 THEN DictRehash(dd, 1) ELSE dd

\* The "if (dictIsRehashing(d)) _dictRehashStep(d)" that lookups and updates start with.
StepIfRehashing(dd) == IF IsRehashing(dd) THEN RehashStep(dd) ELSE dd

(***************************************************************************)
(* Sizing: _dictNextPower, dictExpand, _dictExpandIfNeeded.                *)
(***************************************************************************)
RECURSIVE NextPowerFrom(_, _)
NextPowerFrom(i, size) == IF i >= size THEN i ELSE NextPowerFrom(2 * i, size)

\* Mutant: the requested size is used without rounding up to a power of two.
DictNextPowerUnrounded(size) == IF size < DICT_HT_INITIAL_SIZE THEN DICT_HT_INITIAL_SIZE ELSE size

DictNextPower(size) == NextPowerFrom(DICT_HT_INITIAL_SIZE, size)

\* dictExpand: [ok |-> DICT_OK?, d |-> the dict afterwards].
DictExpand(dd, size) ==
  IF IsRehashing(dd) \/ dd.ht[0].used > size
  THEN [ok |-> FALSE, d |-> dd]
  ELSE LET n == NewTable(DictNextPower(size))
       IN  IF dd.ht[0].size = 0
           THEN [ok |-> TRUE, d |-> [dd EXCEPT !.ht[0] = n]]
           ELSE [ok |-> TRUE, d |-> [dd EXCEPT !.ht[1] = n, !.rehashidx = 0]]

\* Mutant: the forced expansion is dropped, so with resizing disabled a
\* table never grows.
DictExpandIfNeededNoForce(dd) ==
  IF IsRehashing(dd) THEN [ok |-> TRUE, d |-> dd]
  ELSE IF dd.ht[0].size = 0 THEN DictExpand(dd, DICT_HT_INITIAL_SIZE)
  ELSE IF dd.ht[0].used >= dd.ht[0].size /\ dict_can_resize
       THEN DictExpand(dd, dd.ht[0].used * 2)
       ELSE [ok |-> TRUE, d |-> dd]

DictExpandIfNeeded(dd) ==
  IF IsRehashing(dd) THEN [ok |-> TRUE, d |-> dd]
  ELSE IF dd.ht[0].size = 0 THEN DictExpand(dd, DICT_HT_INITIAL_SIZE)
  ELSE IF /\ dd.ht[0].used >= dd.ht[0].size
          /\ \/ dict_can_resize
             \/ dd.ht[0].used \div dd.ht[0].size > dict_force_resize_ratio
       THEN DictExpand(dd, dd.ht[0].used * 2)
       ELSE [ok |-> TRUE, d |-> dd]

\* _dictKeyIndex: expand if needed, then the bucket for k in the table that
\* receives inserts, or -1 when k is already present.
DictKeyIndex(dd, k) ==
  LET e  == DictExpandIfNeeded(dd)
      d1 == e.d
  IN  [d   |-> d1,
       idx |-> IF \/ ~e.ok
                  \/ InChain(d1, 0, k)
                  \/ IsRehashing(d1) /\ InChain(d1, 1, k)
               THEN -1
               ELSE BucketIdx(d1, IF IsRehashing(d1) THEN 1 ELSE 0, k)]

(***************************************************************************)
(* Updates.                                                                *)
(***************************************************************************)
\* Mutant: dictAddRaw without its leading _dictRehashStep.
DictAddRawNoStep(dd, k, v) ==
  LET r == DictKeyIndex(dd, k)
      t == IF IsRehashing(r.d) THEN 1 ELSE 0
  IN  IF r.idx = -1 THEN [ok |-> FALSE, d |-> r.d]
      ELSE [ok |-> TRUE,
            d  |-> [r.d EXCEPT !.ht[t].table[r.idx] = <<[key |-> k, val |-> v]>> \o @,
                               !.ht[t].used = @ + 1]]

\* dictAddRaw followed by dictSetVal (dictAdd): the new entry goes to the
\* head of its bucket in ht[1] while rehashing, in ht[0] otherwise.
DictAddRaw(dd, k, v) ==
  LET d1 == StepIfRehashing(dd)
      r  == DictKeyIndex(d1, k)
      t  == IF IsRehashing(r.d) THEN 1 ELSE 0
  IN  IF r.idx = -1 THEN [ok |-> FALSE, d |-> r.d]
      ELSE [ok |-> TRUE,
            d  |-> [r.d EXCEPT !.ht[t].table[r.idx] = <<[key |-> k, val |-> v]>> \o @,
                               !.ht[t].used = @ + 1]]

\* dictSetVal on the entry of k that dictFind returns.
SetVal(dd, k, v) ==
  [dd EXCEPT !.ht = [t \in 0 .. 1 |->
     [dd.ht[t] EXCEPT !.table = [i \in DOMAIN dd.ht[t].table |->
        [j \in DOMAIN dd.ht[t].table[i] |->
           IF dd.ht[t].table[i][j].key = k
           THEN [dd.ht[t].table[i][j] EXCEPT !.val = v]
           ELSE dd.ht[t].table[i][j]]]]]]

\* Mutant: the entry is unlinked but d->ht[table].used-- is forgotten.
DictGenericDeleteNoUsed(dd, k) ==
  IF dd.ht[0].size = 0 THEN [ok |-> FALSE, d |-> dd]
  ELSE LET d1 == StepIfRehashing(dd)
           t  == IF InChain(d1, 0, k) THEN 0 ELSE 1
           b  == BucketIdx(d1, t, k)
       IN  IF InChain(d1, 0, k) \/ (IsRehashing(d1) /\ InChain(d1, 1, k))
           THEN [ok |-> TRUE,
                 d  |-> [d1 EXCEPT !.ht[t].table[b] = SelectSeq(@, LAMBDA e : e.key # k)]]
           ELSE [ok |-> FALSE, d |-> d1]

\* dictGenericDelete: unlink the entry of k from the first table holding it.
DictGenericDelete(dd, k) ==
  IF dd.ht[0].size = 0 THEN [ok |-> FALSE, d |-> dd]
  ELSE LET d1 == StepIfRehashing(dd)
           t  == IF InChain(d1, 0, k) THEN 0 ELSE 1
           b  == BucketIdx(d1, t, k)
       IN  IF InChain(d1, 0, k) \/ (IsRehashing(d1) /\ InChain(d1, 1, k))
           THEN [ok |-> TRUE,
                 d  |-> [d1 EXCEPT !.ht[t].table[b] = SelectSeq(@, LAMBDA e : e.key # k),
                                   !.ht[t].used = @ - 1]]
           ELSE [ok |-> FALSE, d |-> d1]

(***************************************************************************)
(* Lookup: the search part of dictFind / dictFetchValue, after its rehash  *)
(* step.  Table 1 is consulted only while rehashing.                       *)
(***************************************************************************)
ValIn(dd, t, k) ==
  LET c == dd.ht[t].table[BucketIdx(dd, t, k)]
  IN  IF k \in ChainKeys(c) THEN c[CHOOSE j \in DOMAIN c : c[j].key = k].val ELSE NoVal

\* Mutant: "return NULL" after ht[0] even while rehashing.
DictFetchValueOneTable(dd, k) ==
  IF dd.ht[0].size = 0 THEN NoVal ELSE ValIn(dd, 0, k)

DictFetchValue(dd, k) ==
  IF dd.ht[0].size = 0 THEN NoVal
  ELSE IF ValIn(dd, 0, k) # NoVal THEN ValIn(dd, 0, k)
  ELSE IF ~IsRehashing(dd) THEN NoVal
  ELSE ValIn(dd, 1, k)

\* Every chain of both tables, and the entries they hold.
Chains(dd) == UNION {{dd.ht[t].table[i] : i \in DOMAIN dd.ht[t].table} : t \in 0 .. 1}
Entries(dd) == UNION {{c[j] : j \in DOMAIN c} : c \in Chains(dd)}
KeysIn(dd) == {e.key : e \in Entries(dd)}

\* The map the dictionary holds.
Contents(dd) ==
  [k \in Keys |-> IF k \in KeysIn(dd)
                  THEN (CHOOSE e \in Entries(dd) : e.key = k).val
                  ELSE NoVal]

(***************************************************************************)
(* The public operations.                                                  *)
(***************************************************************************)
Init == /\ d = DictInit
        /\ dict_can_resize = TRUE

\* dictAdd(d, key, val) (and dictAddRaw + dictSetVal*): fails on a present key,
\* but the rehash step and any expansion it triggered stay done.
Add(k, v) == /\ d' = DictAddRaw(d, k, v).d
             /\ UNCHANGED dict_can_resize

\* dictReplace: dictAdd, and when the key exists dictFind (a second rehash
\* step) and dictSetVal on the entry found.  dictReplaceRaw is the same pair
\* in the other order.
Replace(k, v) ==
  /\ LET a == DictAddRaw(d, k, v)
     IN  d' = IF a.ok THEN a.d ELSE SetVal(StepIfRehashing(a.d), k, v)
  /\ UNCHANGED dict_can_resize

\* dictDelete / dictDeleteNoFree (they differ only in freeing the payload).
Delete(k) == /\ d' = DictGenericDelete(d, k).d
             /\ UNCHANGED dict_can_resize

\* dictFind / dictFetchValue: the state change is the rehash step; the
\* search itself is DictFetchValue.
Find == /\ d.ht[0].size # 0
        /\ d' = StepIfRehashing(d)
        /\ UNCHANGED dict_can_resize

\* dictGetRandomKey: returns NULL on an empty dict before its rehash step
\* (a guard on dictSize, not on ht[0].size as in dictFind).
GetRandomKey == /\ DictSize(d) # 0
                /\ d' = StepIfRehashing(d)
                /\ UNCHANGED dict_can_resize

\* dictResize: shrink (or regrow) ht[0] to fit its used count.
Resize == /\ dict_can_resize
          /\ ~IsRehashing(d)
          /\ d' = DictExpand(d, IF d.ht[0].used < DICT_HT_INITIAL_SIZE
                                THEN DICT_HT_INITIAL_SIZE ELSE d.ht[0].used).d
          /\ UNCHANGED dict_can_resize

\* dictExpand called directly by a caller that presizes the table.
Expand(size) == /\ d' = DictExpand(d, size).d
                /\ UNCHANGED dict_can_resize

\* dictRehashMilliseconds: batches of dictRehash(d, 100) until it returns 0
\* or time is up; with at most 2^HashBits buckets one batch finishes.
RehashMilliseconds == /\ IsRehashing(d)
                      /\ d' = DictRehash(d, 100)
                      /\ UNCHANGED dict_can_resize

\* dictEmpty: clear both tables, rehashidx = -1, iterators = 0.
Empty == /\ d' = DictInit
         /\ UNCHANGED dict_can_resize

EnableResize == /\ dict_can_resize' = TRUE
                /\ UNCHANGED d

DisableResize == /\ dict_can_resize' = FALSE
                 /\ UNCHANGED d

ExpandSizes == 1 .. 2^HashBits

DictNext ==
  \/ \E k \in Keys, v \in Vals : Add(k, v) \/ Replace(k, v)
  \/ \E k \in Keys : Delete(k)
  \/ Find
  \/ GetRandomKey
  \/ Resize
  \/ \E s \in ExpandSizes : Expand(s)
  \/ RehashMilliseconds
  \/ Empty
  \/ EnableResize
  \/ DisableResize

DictSpec == Init /\ [][DictNext]_dict_vars

(***************************************************************************)
(* Properties.                                                             *)
(***************************************************************************)
TypeOK ==
  /\ dict_can_resize \in BOOLEAN
  /\ d.rehashidx \in -1 .. 2^HashBits
  /\ d.iterators \in Nat
  /\ \A t \in 0 .. 1 :
       /\ d.ht[t].size \in {0} \cup ({2^i : i \in 0 .. HashBits} \cap DICT_HT_INITIAL_SIZE .. 2^HashBits)
       /\ d.ht[t].table \in [0 .. d.ht[t].size - 1 -> Seq(Entry)]

\* The invariants dictRehash and dictFind rely on (spec section 3): each
\* table's used count is the number of entries it chains, every entry sits
\* in the bucket its hash selects, no key is stored twice, the buckets of
\* ht[0] below rehashidx are already moved, and ht[1] exists exactly while
\* rehashing.  A wrong used count makes dictRehash swap tables early
\* (dict.c:317) or run past the end of ht[0] (dict.c:331).
TablesConsistent ==
  /\ \A t \in 0 .. 1 :
       /\ d.ht[t].sizemask = IF d.ht[t].size = 0 THEN 0 ELSE d.ht[t].size - 1
       /\ d.ht[t].used = SumFunction([i \in DOMAIN d.ht[t].table |-> Len(d.ht[t].table[i])])
       /\ \A i \in DOMAIN d.ht[t].table :
            \A k \in ChainKeys(d.ht[t].table[i]) : BucketIdx(d, t, k) = i
  /\ DictSize(d) = Cardinality(KeysIn(d))
  /\ IsRehashing(d) <=> d.ht[1].size # 0
  /\ IsRehashing(d) => \A i \in 0 .. d.rehashidx - 1 : d.ht[0].table[i] = <<>>

\* dictFind's search (ht[0], then ht[1] only while rehashing) returns exactly
\* the value the dictionary holds for every key, whatever interleaving of
\* inserts, deletes, rehash steps and resizes led here.
FindCorrect == \A k \in Keys : DictFetchValue(d, k) = Contents(d)[k]

\* The dictionary implements the abstract map: rehash steps, expansions and
\* shrinks never change the contents, and every public call changes them
\* exactly as DictMap allows.
AbstractMap == INSTANCE DictMap WITH map <- Contents(d)
DictMapSpec == AbstractMap!Spec

\* While resizing is disabled (dictDisableResize, during a child's save),
\* _dictExpandIfNeeded still doubles a table whose elements per bucket
\* exceed dict_force_resize_ratio (dict.c:59, 1157), so ht[0] never holds
\* more than dict_force_resize_ratio + 1 entries per bucket, whatever
\* adds, deletes, resizes, rehash steps and toggles led here.
LoadBounded == d.ht[0].used <= (dict_force_resize_ratio + 1) * d.ht[0].size

\* Nothing under src/ calls dictRehashMilliseconds, so a rehash advances
\* only through the _dictRehashStep (dict.c:406) that dictAdd, dictReplace,
\* dictDelete, dictFind and dictGetRandomKey begin with.  Every such call
\* on a rehashing dict with no safe iterator bound either moves rehashidx
\* forward or finishes the rehash (ht[1] becomes ht[0], possibly starting
\* the next expansion at once), so, rehashidx being at most ht[0].size, a
\* rehash ends within ht[0].size + 1 calls of any kind.
RehashAdvances ==
  [][IsRehashing(d) /\ d.iterators = 0 /\ d' # d =>
       \/ d'.rehashidx > d.rehashidx
       \/ ~IsRehashing(d')
       \/ d'.ht[0].size = d.ht[1].size]_dict_vars

=============================================================================
