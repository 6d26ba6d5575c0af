------------------------------ MODULE DictIter ------------------------------
(***************************************************************************)
(* A dictIterator of src/struct/dict.c, safe (dictGetSafeIterator) or     *)
(* unsafe (dictGetIterator), stepped by dictNext and freed by              *)
(* dictReleaseIterator, used by a caller that runs other dictionary calls  *)
(* between two dictNext calls.  Over a safe iterator the caller may call   *)
(* anything dict.h allows; over an unsafe one dict.h allows only dictNext, *)
(* and the caller here also makes the read calls (dictFind,                *)
(* dictGetRandomKey) whose hidden rehash step dictFingerprint is there to  *)
(* catch.                                                                  *)
(*                                                                         *)
(* it is the dictIterator struct; an entry pointer is the key of the entry *)
(* (keys are unique in the dict), and entry->next is read from wherever    *)
(* the entry is chained at the time of the read.  returned counts how      *)
(* often dictNext handed out each key (capped at 2), alive holds the keys  *)
(* present since the iterator was created, nextFreed records that the      *)
(* entry saved in nextEntry was freed.                                     *)
(*                                                                         *)
(* CallerMay names the calls, beyond those dict.h allows without comment,  *)
(* that the caller makes while a started iterator is live:                 *)
(*   "timed_rehash": dictRehashMilliseconds (the server cron),             *)
(*   "delete_other": dictDelete of a key other than the one returned,      *)
(*   "empty":        dictEmpty.                                            *)
(* A failed assert in dictReleaseIterator aborts the process: itPhase      *)
(* "aborted" is final.                                                     *)
(***************************************************************************)
EXTENDS Dict

CONSTANTS
  NULL,       \* the NULL entry pointer
  CallerMay   \* subset of {"timed_rehash", "delete_other", "empty"}

ASSUME NULL \notin Keys
ASSUME CallerMay \subseteq {"timed_rehash", "delete_other", "empty"}

VARIABLES
  it,         \* the dictIterator: safe, table, index, entry, nextEntry, fingerprint
  itPhase,    \* "none", "created", "iterating", "done" (dictNext gave NULL), "aborted"
  returned,   \* Keys -> times dictNext returned the key (0, 1, 2 = twice or more)
  alive,      \* keys present since dictGetSafeIterator and never removed since
  nextFreed   \* the entry saved in it.nextEntry has been freed

iter_vars == <<it, itPhase, returned, alive, nextFreed>>
vars == <<dict_vars, iter_vars>>

\* The head of a chain, as a pointer.
HeadKey(chain) == IF chain = <<>> THEN NULL ELSE chain[1].key

\* entry->next: the key chained after k, wherever k's entry is now.
Successor(dd, k) ==
  LET t == CHOOSE t \in 0 .. 1 : \E i \in DOMAIN dd.ht[t].table : k \in ChainKeys(dd.ht[t].table[i])
      c == dd.ht[t].table[CHOOSE i \in DOMAIN dd.ht[t].table : k \in ChainKeys(dd.ht[t].table[i])]
      j == CHOOSE j \in DOMAIN c : c[j].key = k
  IN  IF j = Len(c) THEN NULL ELSE c[j + 1].key

\* Mutant: the fingerprint of the table geometry only.
DictFingerprintSizes(dd) == <<dd.ht[0].size, dd.ht[1].size>>

\* dictFingerprint: the integers it hashes.  The 64-bit mixing of them is
\* taken as collision-free, and a table pointer is not a separate integer:
\* it is NULL exactly when the size is 0, and a new allocation only replaces
\* a table at a dictExpand or at the end of a rehash, which the sizes show
\* for every call an unsafe iteration's caller makes here.
DictFingerprint(dd) == <<dd.ht[0].size, dd.ht[0].used, dd.ht[1].size, dd.ht[1].used>>

(***************************************************************************)
(* dictNext: the while (1) loop.  Result: [d, it, ret].                    *)
(***************************************************************************)
RECURSIVE IterLoop(_, _), IterFound(_, _)

\* Mutant: nextEntry is not the entry after the returned one but the returned
\* entry itself, so deleting what dictNext returned leaves it dangling.
IterFoundNoSave(dd, i) ==
  IF i.entry # NULL
  THEN [d |-> dd, it |-> [i EXCEPT !.nextEntry = i.entry], ret |-> i.entry]
  ELSE IterLoop(dd, i)

\* if (iter->entry) { iter->nextEntry = iter->entry->next; return iter->entry; }
IterFound(dd, i) ==
  IF i.entry # NULL
  THEN [d |-> dd, it |-> [i EXCEPT !.nextEntry = Successor(dd, i.entry)], ret |-> i.entry]
  ELSE IterLoop(dd, i)

\* Mutant: moving on to table 1 keeps the index reached in table 0.
IterLoopNoReset(dd, i) ==
  IF i.entry = NULL
  THEN LET first == i.index = -1 /\ i.table = 0
           d1    == IF first /\ i.safe THEN [dd EXCEPT !.iterators = @ + 1] ELSE dd
           idx   == i.index + 1
       IN  IF idx < d1.ht[i.table].size
           THEN IterFound(d1, [i EXCEPT !.index = idx,
                                        !.entry = HeadKey(d1.ht[i.table].table[idx])])
           ELSE IF IsRehashing(d1) /\ i.table = 0
           THEN IterFound(d1, [i EXCEPT !.table = 1, !.index = idx,
                                        !.entry = HeadKey(d1.ht[1].table[idx % d1.ht[1].size])])
           ELSE [d |-> d1, it |-> [i EXCEPT !.index = idx], ret |-> NULL]
  ELSE IterFound(dd, [i EXCEPT !.entry = i.nextEntry])

IterLoop(dd, i) ==
  IF i.entry = NULL
  THEN LET first == i.index = -1 /\ i.table = 0
           d1    == IF first /\ i.safe THEN [dd EXCEPT !.iterators = @ + 1] ELSE dd
           i1    == IF first /\ ~i.safe THEN [i EXCEPT !.fingerprint = DictFingerprint(dd)] ELSE i
           idx   == i.index + 1
       IN  IF idx < d1.ht[i.table].size
           THEN IterFound(d1, [i1 EXCEPT !.index = idx,
                                         !.entry = HeadKey(d1.ht[i.table].table[idx])])
           ELSE IF IsRehashing(d1) /\ i.table = 0
           THEN IterFound(d1, [i1 EXCEPT !.table = 1, !.index = 0,
                                        !.entry = HeadKey(d1.ht[1].table[0])])
           ELSE [d |-> d1, it |-> [i1 EXCEPT !.index = idx], ret |-> NULL]
  ELSE IterFound(dd, [i EXCEPT !.entry = i.nextEntry])

\* Mutant: dictReleaseIterator decrements the counter even for an iterator
\* that dictNext never started.
ReleaseDictAlways(dd, i) ==
  IF i.safe THEN [dd EXCEPT !.iterators = @ - 1] ELSE dd

\* dictReleaseIterator: the counter is decremented only for a started iterator.
ReleaseDict(dd, i) ==
  IF ~(i.index = -1 /\ i.table = 0) /\ i.safe
  THEN [dd EXCEPT !.iterators = @ - 1]
  ELSE dd

\* The assert of dictReleaseIterator on a started unsafe iterator fails.
ReleaseAssertFails(dd, i) ==
  /\ ~(i.index = -1 /\ i.table = 0)
  /\ ~i.safe
  /\ i.fingerprint # DictFingerprint(dd)

(***************************************************************************)
(* Actions.                                                                *)
(***************************************************************************)
\* dictGetIterator's fields; fingerprint is not set until the first dictNext.
NewIterator(safe) ==
  [safe |-> safe, table |-> 0, index |-> -1, entry |-> NULL, nextEntry |-> NULL, fingerprint |-> <<>>]

IterInit == /\ it = NewIterator(TRUE)
            /\ itPhase = "none"
            /\ returned = [k \in Keys |-> 0]
            /\ alive = {}
            /\ nextFreed = FALSE

\* dictGetSafeIterator (safe) and dictGetIterator (unsafe).
GetIterator(safe) ==
  /\ itPhase = "none"
  /\ it' = NewIterator(safe)
  /\ itPhase' = "created"
  /\ returned' = [k \in Keys |-> 0]
  /\ alive' = KeysIn(d)
  /\ nextFreed' = FALSE
  /\ UNCHANGED dict_vars

\* dictNext.
Next_ ==
  /\ itPhase \in {"created", "iterating"}
  /\ LET r == IterLoop(d, it)
     IN  /\ d' = r.d
         /\ it' = r.it
         /\ itPhase' = IF r.ret = NULL THEN "done" ELSE "iterating"
         /\ returned' = IF r.ret = NULL THEN returned
                        ELSE [returned EXCEPT ![r.ret] = IF @ < 2 THEN @ + 1 ELSE 2]
  /\ UNCHANGED <<dict_can_resize, alive, nextFreed>>

\* dictReleaseIterator; a failed assert aborts.
ReleaseIterator ==
  /\ itPhase \notin {"none", "aborted"}
  /\ d' = ReleaseDict(d, it)
  /\ itPhase' = IF ReleaseAssertFails(d, it) THEN "aborted" ELSE "none"
  /\ UNCHANGED <<dict_can_resize, it, returned, alive, nextFreed>>

Started == itPhase \in {"iterating", "done"}

\* Over a started unsafe iterator the caller makes only the read calls.
ReadOnly == Started /\ ~it.safe

\* A dictionary call of the caller, restricted while a started iterator is
\* live to what the caller may do there.
CallerStep ==
  /\ itPhase # "aborted"
  /\ \/ Find
     \/ GetRandomKey
     \/ \E k \in Keys : ~ReadOnly /\ Delete(k) /\ (Started => k = it.entry \/ "delete_other" \in CallerMay)
     \/ ~ReadOnly /\ \E k \in Keys, v \in Vals : Add(k, v) \/ Replace(k, v)
     \/ ~ReadOnly /\ Resize
     \/ ~ReadOnly /\ \E s \in ExpandSizes : Expand(s)
     \/ ~ReadOnly /\ (EnableResize \/ DisableResize)
     \/ ~ReadOnly /\ (Started => "timed_rehash" \in CallerMay) /\ RehashMilliseconds
     \/ ~ReadOnly /\ (Started => "empty" \in CallerMay) /\ Empty
  /\ alive' = alive \cap KeysIn(d')
  /\ nextFreed' = \/ nextFreed
                  \/ itPhase = "iterating" /\ it.nextEntry # NULL /\ it.nextEntry \notin KeysIn(d')
  /\ UNCHANGED <<it, itPhase, returned>>

Next == CallerStep \/ \E safe \in BOOLEAN : GetIterator(safe) \/ Next_ \/ ReleaseIterator

Spec == Init /\ IterInit /\ [][Next]_vars

(***************************************************************************)
(* Properties.                                                             *)
(***************************************************************************)
IterTypeOK ==
  /\ it.safe \in BOOLEAN
  /\ it.table \in 0 .. 1
  /\ it.index \in -1 .. 2^HashBits
  /\ it.entry \in Keys \cup {NULL}
  /\ it.nextEntry \in Keys \cup {NULL}
  /\ itPhase \in {"none", "created", "iterating", "done", "aborted"}
  /\ returned \in [Keys -> 0 .. 2]
  /\ alive \subseteq Keys
  /\ nextFreed \in BOOLEAN

\* A safe iterator returns every key present for the whole iteration once,
\* and never twice: rehash steps are suppressed while it is live (dict.c:406)
\* and the entries it is positioned on stay where they are.
SafeIterExactlyOnce ==
  /\ Started /\ it.safe => \A k \in alive : returned[k] <= 1
  /\ itPhase = "done" /\ it.safe => \A k \in alive : returned[k] = 1

\* The iterators counter of the dict counts the started, unreleased safe
\* iterators (an unsafe one leaves it alone): dictNext increments it once,
\* dictReleaseIterator undoes that once, so _dictRehashStep resumes after
\* the iteration.
IteratorsCounted == d.iterators = IF Started /\ it.safe THEN 1 ELSE 0

\* The entry dictNext saved in nextEntry (dict.c:849) is still allocated
\* when the next dictNext follows it.
NoDanglingNext == itPhase = "iterating" => ~nextFreed

\* An unsafe iteration that has already gone wrong (a key present
\* throughout returned twice, or missed by a finished iteration) fails the
\* fingerprint assert of dictReleaseIterator (dict.c:873) whenever it is
\* released: the rehash steps of the caller's dictFind / dictGetRandomKey
\* that moved entries under it always change the fingerprint, and no read
\* call changes it back.
FingerprintCatchesMisuse ==
  LET wrong == \/ \E k \in alive : returned[k] > 1
               \/ itPhase = "done" /\ \E k \in alive : returned[k] = 0
  IN  ReadOnly /\ wrong => ReleaseAssertFails(d, it)

=============================================================================
