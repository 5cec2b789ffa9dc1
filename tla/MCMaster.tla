------------------------------ MODULE MCMaster ------------------------------
(* Instances of MasterService for TLC. *)
EXTENDS MasterService, TLC

CONSTANTS c1, k1

MCOwner == [s \in Segment |-> c1]
MCSegSize == [s \in Segment |-> Cardinality(Slot)]
\* Keys and units are interchangeable when all keys are in one shard.
MCSymmetry == Permutations(Key) \cup Permutations(Slot)
\* Object k1 is in the first shard and the others are in the last one.
MCShardOf == [k \in Key |-> IF k = k1 THEN 0 ELSE NumShards - 1]
=============================================================================
