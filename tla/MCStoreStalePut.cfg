\* A Put of an object whose old entry is stale: a segment is being unmounted.
CONSTANTS
  c1 = c1
  Client = {c1}
  Segment = {s1, s2}
  Owner <- MCOwner
  SegSize <- MCSegSize
  MaxMounts = 1
  MaxHolders = 0
  Key = {k1, k2}
  Slot = {u1}
  NumShards = 1
  ShardOf <- MCShardOf
  Worker = {w1}
  Monitor = monitor
  SliceNums = {1}
  ReplicaNums = {1}
  SoftPins = {FALSE}
  UseDisk = FALSE
  LeaseTTL = 1
  SoftTTL = 0
  ClientTTL = 0
  QueueSize = 2
  AllowSoftEvict = FALSE
  HighWatermark = 0
  EvictionRatio = 10
  Proc = {p1, p2}
  Blank = blank
  PreferSameNode = FALSE
  RemoveAllAnyTime = FALSE
SYMMETRY MCSymmetry
SPECIFICATION StoreSpec
INVARIANTS
  WriteSafe
