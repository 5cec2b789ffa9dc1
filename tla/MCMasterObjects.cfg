\* Objects with memory and disk replicas, leases, soft pins and eviction.
CONSTANTS
  c1 = c1
  k1 = k1
  Client = {c1}
  Segment = {s1}
  Owner <- MCOwner
  SegSize <- MCSegSize
  MaxMounts = 1
  MaxHolders = 0
  Key = {k1, k2}
  Slot = {u1, u2}
  NumShards = 1
  ShardOf <- MCShardOf
  Worker = {}
  Monitor = monitor
  SliceNums = {1}
  ReplicaNums = {1}
  SoftPins = {TRUE, FALSE}
  UseDisk = TRUE
  LeaseTTL = 1
  SoftTTL = 1
  ClientTTL = 0
  QueueSize = 1
  AllowSoftEvict = FALSE
  HighWatermark = 50
  EvictionRatio = 10
SYMMETRY MCSymmetry
SPECIFICATION Spec
INVARIANTS
  TypeOK AllocatedExact BufferExclusive
PROPERTIES LeaseProtects
