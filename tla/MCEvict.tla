------------------------------ MODULE MCEvict ------------------------------
(* An instance of BatchEvict for TLC. *)
EXTENDS BatchEvict, TLC

CONSTANTS k1, k2, k3, k4

\* Two shards, of two objects each.
MCShardOf == [k \in Key |-> IF k \in {k1, k2} THEN 0 ELSE 1]
MCAges == {2 * i : i \in 1 .. Cardinality(Key)}
MCSymmetry == Permutations({k1, k2}) \cup Permutations({k3, k4})
=============================================================================
