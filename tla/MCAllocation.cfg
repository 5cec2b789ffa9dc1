CONSTANTS
  MantissaBits = 1
  StorageSize = 9
  InitCapacity = 3
  MaxCapacity = 4
  Segment = {s1, s2, s3}
  NameOf <- MCNameOf
  Caller = {t1, t2}
  Slices <- MCSlices
  ReplicaNums = {2}
  PrefNames = {n1, n2}
  RetryLimit = 2
  MaxCalls = 3
  s1 = s1
  s2 = s2
  s3 = s3
  n1 = n1
  n2 = n2
SPECIFICATION Spec
CHECK_DEADLOCK FALSE
INVARIANTS BuffersExclusive AllocatorSound ReportExact ReplicasSound
SYMMETRY MCSymmetry
