---------------------------- MODULE MCAllocation ----------------------------
(* Instances of AllocationStrategy for TLC. *)
EXTENDS AllocationStrategy, TLC

CONSTANTS s1, s2, s3, n1, n2

\* Two segments share a name.
MCNameOf == [s \in Segment |-> IF s \in {s1, s2} THEN n1 ELSE n2]
MCSlices == {<<2>>, <<5, 2>>}
MCSymmetry == Permutations(Caller) \cup Permutations({s1, s2})
=============================================================================
