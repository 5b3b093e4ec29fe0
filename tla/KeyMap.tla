-------------------------------- MODULE KeyMap --------------------------------
(***************************************************************************)
(* What the hash table of cutis promises: a map from keys to values, with  *)
(* no buckets, sizes or rehashing.  A call changes the map and returns a   *)
(* result.  The table has one limit: the program ends when it has to grow  *)
(* beyond Capacity entries.                                                *)
(***************************************************************************)
EXTENDS Naturals, FiniteSets

CONSTANTS Keys, Vals, None, Capacity

VARIABLES
  map,     \* the value of each key, or None
  result   \* what the last call returned

vars == <<map, result>>

Present == {k \in Keys : map[k] # None}
Alive == result # <<"dead">>

Init ==
  /\ map = [k \in Keys |-> None]
  /\ result = <<"ok">>

Insert(k, v) ==
  \/ k \notin Present /\ map' = [map EXCEPT ![k] = v] /\ result' = <<"ok">>
  \/ k \in Present /\ map' = map /\ result' = <<"err">>

Replace(k, v) == map' = [map EXCEPT ![k] = v] /\ result' = <<"ok">>

Full ==
  /\ Cardinality(Present) = Capacity
  /\ map' = map /\ result' = <<"dead">>

Remove(k) ==
  /\ map' = [map EXCEPT ![k] = None]
  /\ result' = IF k \in Present THEN <<"ok">> ELSE <<"err">>

Find(k) == map' = map /\ result' = IF k \in Present THEN <<"val", map[k]>> ELSE <<"none">>

(* An entry that is there, picked by an iterator or at random. *)
Pick(k) == k \in Present /\ map' = map /\ result' = <<"entry", k, map[k]>>

RandomOfNone == Present = {} /\ map' = map /\ result' = <<"none">>

Clear == map' = [k \in Keys |-> None] /\ result' = <<"ok">>

(* Calls about the table and its iterators leave the map alone. *)
Other == map' = map /\ result' \in {<<"ok">>, <<"end">>}

Next ==
  /\ Alive
  /\ \/ \E k \in Keys, v \in Vals : Insert(k, v) \/ Replace(k, v)
     \/ \E k \in Keys : Remove(k) \/ Find(k) \/ Pick(k)
     \/ Full \/ RandomOfNone \/ Clear \/ Other

Spec == Init /\ [][Next]_vars
=============================================================================
