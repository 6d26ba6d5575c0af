------------------------------ MODULE DictScan ------------------------------
(***************************************************************************)
(* dictScan (src/struct/dict.c) driven by a caller (SCAN / ZSCAN) between  *)
(* whose calls any other dictionary operation may run.  The caller keeps   *)
(* only the cursor; the scan is stateless in the dictionary.               *)
(*                                                                         *)
(* Besides the cursor, the history variables seen (keys the scan callback  *)
(* received) and alive (keys present since the scan started and never     *)
(* deleted since) state the guarantee of the comment above dictScan.       *)
(* The cursor is an unsigned long; only its low HashBits bits ever reach a *)
(* mask, and the reverse-increment is carried out on HashBits bits, which  *)
(* gives the same low bits and the same wrap to 0 as on 64 bits.          *)
(***************************************************************************)
EXTENDS Dict

VARIABLES
  cursor,   \* the cursor the caller passes to the next dictScan call
  phase,    \* "idle", "running" (cursor handed back was not 0), "done"
  seen,     \* keys emitted through the callback since the scan started
  alive     \* keys present at the start and not removed since

scan_vars == <<cursor, phase, seen, alive>>
vars == <<dict_vars, scan_vars>>

AllOnes == 2^HashBits - 1

\* ~x on the modelled bits.
Not_(x) == AllOnes - x

\* rev(): the bits of v in reverse order.
RECURSIVE RevBits(_, _)
RevBits(v, n) == IF n = 0 THEN 0 ELSE (v % 2) * 2^(n - 1) + RevBits(v \div 2, n - 1)
Rev(v) == RevBits(v, HashBits)

\* Mutant: the cursor is returned reversed (the last v = rev(v) is missing).
NextCursorNoRev(v, m0) == Rev(v | Not_(m0)) + 1

\* v |= ~m0; v = rev(v); v++; v = rev(v);
NextCursor(v, m0) == Rev((Rev(v | Not_(m0)) + 1) % 2^HashBits)

\* Mutant: the expansion loop written as while (...) { ... }, so a cursor
\* with no bits in m0 ^ m1 skips the larger table.
RECURSIVE ExpansionsWhile(_, _, _, _)
ExpansionsWhile(t1, m0, m1, v) ==
  IF (v & (m0 ^^ m1)) = 0 THEN [keys |-> {}, v |-> v]
  ELSE LET here == ChainKeys(t1.table[v & m1])
           v2   == (((v | m0) + 1) & Not_(m0)) | (v & m0)
           r    == ExpansionsWhile(t1, m0, m1, v2)
       IN  [keys |-> here \cup r.keys, v |-> r.v]

\* The do { ... } while (v & (m0 ^ m1)) loop over the expansions of the
\* cursor into the larger table: the keys emitted and the cursor after it.
RECURSIVE Expansions(_, _, _, _)
Expansions(t1, m0, m1, v) ==
  LET here == ChainKeys(t1.table[v & m1])
      v2   == (((v | m0) + 1) & Not_(m0)) | (v & m0)
  IN  IF (v2 & (m0 ^^ m1)) # 0
      THEN LET r == Expansions(t1, m0, m1, v2)
           IN  [keys |-> here \cup r.keys, v |-> r.v]
      ELSE [keys |-> here, v |-> v2]

\* dictScan(d, v): the keys passed to the callback and the returned cursor.
DictScanOnce(dd, v) ==
  IF DictSize(dd) = 0 THEN [keys |-> {}, v |-> 0]
  ELSE IF ~IsRehashing(dd)
  THEN LET m0 == dd.ht[0].sizemask
       IN  [keys |-> ChainKeys(dd.ht[0].table[v & m0]), v |-> NextCursor(v, m0)]
  ELSE LET small == IF dd.ht[0].size > dd.ht[1].size THEN 1 ELSE 0
           t0    == dd.ht[small]
           t1    == dd.ht[1 - small]
           m0    == t0.sizemask
           m1    == t1.sizemask
           e     == Expansions(t1, m0, m1, v)
       IN  [keys |-> ChainKeys(t0.table[v & m0]) \cup e.keys,
            v    |-> NextCursor(e.v, m0)]

(***************************************************************************)
(* The caller's scan.                                                      *)
(***************************************************************************)
ScanInit == /\ cursor = 0
            /\ phase = "idle"
            /\ seen = {}
            /\ alive = {}

\* SCAN 0: a new iteration starts from cursor 0.
ScanStart == /\ phase # "running"
             /\ cursor' = 0
             /\ phase' = "running"
             /\ seen' = {}
             /\ alive' = KeysIn(d)
             /\ UNCHANGED dict_vars

\* One dictScan call with the cursor the previous call returned; a returned
\* 0 ends the iteration.
ScanStep == /\ phase = "running"
            /\ LET r == DictScanOnce(d, cursor)
               IN  /\ cursor' = r.v
                   /\ seen' = seen \cup r.keys
                   /\ phase' = IF r.v = 0 THEN "done" ELSE "running"
            /\ UNCHANGED <<alive, dict_vars>>

\* Any dictionary operation between two scan calls; a key it removes is no
\* longer owed to the scan.
DictStep == /\ DictNext
            /\ alive' = alive \cap KeysIn(d')
            /\ UNCHANGED <<cursor, phase, seen>>

Next == DictStep \/ ScanStart \/ ScanStep

Spec == Init /\ ScanInit /\ [][Next]_vars
ScanTypeOK == /\ cursor \in 0 .. AllOnes
              /\ phase \in {"idle", "running", "done"}
              /\ seen \subseteq Keys
              /\ alive \subseteq Keys

\* The guarantee stated above dictScan: when the returned cursor is 0, every
\* key that was in the dictionary for the whole iteration has been emitted,
\* however the tables grew, shrank or were rehashed between the calls.
ScanComplete == phase = "done" => alive \subseteq seen

=============================================================================
