CONSTANTS
  Master = {m1, m2}
  NoMaster = NoMaster
  Seg = {s1, s2}
  MaxPingFail = 3
  MaxFaults = 2
  NoSeg = NoSeg
SPECIFICATION FairHASpec
INVARIANTS UnmountedStaysUnmounted OkMeansMounted
PROPERTIES ClientRejoins
