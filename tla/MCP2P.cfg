CONSTANTS
  Node = {n1, n2, n3}
  Sizes <- OneBuffer
  Rejoin = FALSE
  MaxOpens = 3
  MaxFaults = 1
  NoPayload = NoPayload
SPECIFICATION FairP2PSpec
CHECK_DEADLOCK FALSE
INVARIANTS P2PTypeOK PublishedHoldsFile PublishedReachable OpenIsListed
PROPERTIES CallsReturn
