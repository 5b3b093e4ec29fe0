------------------------------ MODULE MCKeyspace ------------------------------
(* Instances of Keyspace for TLC.                                          *)
EXTENDS Keyspace

CONSTANTS c1, c2, k1, k2, o1, o2, o3, o4, word

TwoClients == {c1, c2}
TwoKeys == {k1, k2}
Objects == {o1, o2, o3, o4}
AWord == {word}

(* Clients, keys and addresses are only ever compared.                     *)
Interchangeable ==
  Permutations(TwoClients) \cup Permutations(TwoKeys) \cup Permutations(Ids)
=============================================================================
