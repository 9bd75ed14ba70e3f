---------------------------- MODULE KeyValueMap ----------------------------
(***************************************************************************)
(* What the maps of hashTable.c promise their users (symbols, scopes,      *)
(* register aliases, liveness sets...): a function from the keys inserted  *)
(* to the item each was first inserted with.                               *)
(***************************************************************************)
EXTENDS Integers, FiniteSets, Sequences

CONSTANTS Key, Value, None

VARIABLES
    store,      \* [Key -> Value \cup {None}]
    result      \* the sequence of what the last call returned

vars == <<store, result>>

Present == {k \in Key : store[k] # None}
InOrder(s) == \A i, j \in DOMAIN s : i < j => s[i] < s[j]

Init ==
    /\ store = [k \in Key |-> None]
    /\ result = <<>>

MapGet(k) ==
    /\ result' = <<store[k]>>
    /\ UNCHANGED store

(* A key that is present keeps its item.                                   *)
MapInsert(k, v) ==
    IF store[k] = None
    THEN store' = [store EXCEPT ![k] = v] /\ result' = <<0>>
    ELSE UNCHANGED store /\ result' = <<-1>>

MapRemove(k) ==
    /\ store' = [store EXCEPT ![k] = None]
    /\ result' = <<>>

MapKeys ==
    /\ result' \in [1..Cardinality(Present) -> Present]
    /\ InOrder(result')
    /\ UNCHANGED store

(* The caller goes on with a clone of the map.                             *)
MapClone ==
    /\ result' = <<>>
    /\ UNCHANGED store

Next ==
    \/ \E k \in Key : MapGet(k) \/ MapRemove(k) \/ \E v \in Value : MapInsert(k, v)
    \/ MapKeys
    \/ MapClone

Spec == Init /\ [][Next]_vars
=============================================================================
