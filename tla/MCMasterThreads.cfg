\* Two clients, one of them with a segment, and two objects in two shards: unmounts by
\* an RPC thread and by the monitor race with mounts, remounts, puts and a call that
\* holds the allocator.
CONSTANTS
  c1 = c1
  k1 = k1
  Client = {c1, c2}
  Segment = {s1}
  Owner <- MCOwner
  SegSize <- MCSegSize
  MaxMounts = 2
  MaxHolders = 1
  Key = {k1, k2}
  Slot = {1, 2}
  NumShards = 2
  ShardOf <- MCShardOf
  Worker = {w1}
  Monitor = monitor
  SliceNums = {1}
  ReplicaNums = {1}
  SoftPins = {FALSE}
  UseDisk = FALSE
  LeaseTTL = 0
  SoftTTL = 0
  ClientTTL = 0
  QueueSize = 1
  AllowSoftEvict = FALSE
  HighWatermark = 100
  EvictionRatio = 0
SPECIFICATION FairSpec
INVARIANTS
  SegmentsConsistent CapacityExact UnmountExclusive HandlesTracked Monitored
PROPERTIES
  UnmountTerminates DeadClientExpires
