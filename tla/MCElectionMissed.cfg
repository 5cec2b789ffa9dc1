CONSTANTS
  Master = {m1, m2}
  LeaseTTL = 2
  FirstTTL = 2
  CallTimeout = 2
  StopLag = 0
  NoKey = NoKey
SPECIFICATION FairElectionSpec
PROPERTY FailoverElects
