------------------------------ MODULE MCDictTable ------------------------------
(* Instances of DictTable for TLC.                                         *)
EXTENDS DictTable

(* Numbers as keys, and DictIdentityHashFunction. *)
FiveKeys == 0 .. 4
Identity == [k \in FiveKeys |-> k]
=============================================================================
