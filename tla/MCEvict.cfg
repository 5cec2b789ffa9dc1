\* Four objects in two shards, up to two calls between the steps of the evictor.
CONSTANTS
  k1 = k1  k2 = k2  k3 = k3  k4 = k4
  Key = {k1, k2, k3, k4}
  NumShards = 2
  ShardOf <- MCShardOf
  LeaseTTL = 3
  SoftTTL = 7
  Ages <- MCAges
  AllowSoftEvict = TRUE
  EvictRatio = 6
  HighWatermark = 40
  UsedRatios = {40, 84}
  MaxCalls = 2
SYMMETRY MCSymmetry
SPECIFICATION Spec
INVARIANTS
  SoftPinLast EvictBounded EvictsEnough
PROPERTIES EvictAllowed
