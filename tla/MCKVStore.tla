----------------------------- MODULE MCKVStore -----------------------------
(* Instances of KVStore for TLC: which thread's code uses which keys. *)
EXTENDS KVStore, TLC

CONSTANTS k1, k2, k3, t1, t2

\* Every thread uses every key.
AccessShared == [k \in Key |-> Thread]

\* Values are only copied and compared.
Symmetry == Permutations(Val)
=============================================================================
