CONSTANTS
  s1 = s1
  s2 = s2
  t1 = t1
  t2 = t2
  w1 = w1
  w2 = w2
  p1 = p1
  p2 = p2
  Slice = {s1, s2}
  Task = {t1, t2}
  TaskOf <- Tasks
  Devices <- Targets
  Worker = {w1, w2}
  Poller = w1
  Peer = {p1, p2}
  ShardOf <- Shards
  EndPoint = {e1, e2}
  MaxWr = 1
  MaxCqe = 1
  MaxEndpoints = 1
  MaxRetry = 2
  MaxEvents = 1
  None = None
SPECIFICATION FairRdmaSpec
CHECK_DEADLOCK FALSE
INVARIANTS Conservation TaskCountsExact DepthExact NoUseAfterReclaim
PROPERTIES TasksFinish
