CONSTANTS
  Master = {m1, m2}
  LeaseTTL = 5
  FirstTTL = 6
  CallTimeout = 5
  StopLag = 0
  NoKey = NoKey
SPECIFICATION ElectionSpec
INVARIANT AtMostOneServing
