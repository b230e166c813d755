------------------------------ MODULE DictSpec ------------------------------
(***************************************************************************)
(* What include/patty/dict.h promises its callers: a finite map from       *)
(* 32-bit keys to values.  patty_dict_set(k, v) makes k map to v;          *)
(* patty_dict_delete(k) removes k when it is present (and fails, changing  *)
(* nothing, when it is not); patty_dict_get reads the map and              *)
(* patty_dict_each visits its entries.  No other key is touched.           *)
(***************************************************************************)
EXTENDS Integers

CONSTANTS
    Keys,   \* the keys callers use
    Vals,   \* the values they store
    NULL    \* what patty_dict_get returns for an absent key

ASSUME NULL \notin Vals

VARIABLES
    map,   \* what patty_dict_get returns for each key
    op,    \* the last call: <<"set", k, v>> or <<"delete", k>>
    ret    \* what it returned

vars == <<map, op, ret>>

Init == /\ map = [k \in Keys |-> NULL]
        /\ op = <<"new">>
        /\ ret = 0

\* patty_dict_set returns the value it stored
Set(k, v) == /\ map' = [map EXCEPT ![k] = v]
             /\ op' = <<"set", k, v>>
             /\ ret' = v

\* patty_dict_delete returns 0, or -1 for a key that is not there
Delete(k) == /\ map' = [map EXCEPT ![k] = NULL]
             /\ op' = <<"delete", k>>
             /\ ret' = IF map[k] # NULL THEN 0 ELSE -1

Next == \E k \in Keys : Delete(k) \/ \E v \in Vals : Set(k, v)

Spec == Init /\ [][Next]_vars

TypeOK == map \in [Keys -> Vals \cup {NULL}]

====
