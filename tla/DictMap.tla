------------------------------ MODULE DictMap ------------------------------
(***************************************************************************)
(* What a dictionary of src/struct/dict.c promises its callers: a finite   *)
(* map from keys to values.  Incremental rehashing, table sizes and bucket *)
(* chains are invisible here; only insert-if-absent (dictAdd), overwrite   *)
(* (dictReplace), removal (dictDelete) and clearing (dictEmpty) change the *)
(* map.  Dict.tla is checked to implement this module.                     *)
(***************************************************************************)
CONSTANTS Keys, Vals, NoVal

VARIABLE map

TypeOK == map \in [Keys -> Vals \cup {NoVal}]

Init == map = [k \in Keys |-> NoVal]

\* dictAdd succeeds only for an absent key.
Insert(k, v) == /\ map[k] = NoVal
                /\ map' = [map EXCEPT ![k] = v]

\* dictReplace overwrites the value of a present key.
Update(k, v) == /\ map[k] # NoVal
                /\ map' = [map EXCEPT ![k] = v]

\* dictDelete removes a present key.
Remove(k) == /\ map[k] # NoVal
             /\ map' = [map EXCEPT ![k] = NoVal]

\* dictEmpty / dictRelease drop every key.
Clear == map' = [k \in Keys |-> NoVal]

Next == \/ \E k \in Keys, v \in Vals : Insert(k, v) \/ Update(k, v)
        \/ \E k \in Keys : Remove(k)
        \/ Clear

Spec == Init /\ [][Next]_map

=============================================================================
