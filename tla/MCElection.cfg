CONSTANTS
  Master = {m1, m2}
  LeaseTTL = 5
  FirstTTL = 6
  CallTimeout = 5
  StopLag = 1
  NoKey = NoKey
SPECIFICATION FairElectionSpec
INVARIANTS ElectionTypeOK OneServesUnlessLate
PROPERTIES LeadershipUnlessLate ContenderElects
