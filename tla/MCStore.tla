------------------------------- MODULE MCStore -------------------------------
(* Instances of MooncakeStore for TLC. *)
EXTENDS MooncakeStore, TLC

CONSTANTS c1

MCOwner == [s \in Segment |-> c1]
MCSegSize == [s \in Segment |-> 1]
MCShardOf == [k \in Key |-> 0]

\* Threads, keys, segments and units are interchangeable.
MCSymmetry == Permutations(Proc) \cup Permutations(Key) \cup Permutations(Segment)
                \cup Permutations(Slot)
=============================================================================
