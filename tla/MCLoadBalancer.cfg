SPECIFICATION FairSpec
CHECK_DEADLOCK FALSE
CONSTANTS
  N = 3
  Requests = {p1, p2}
  Failing = {0, 1, 2}
  Balancer = Balancer
  Settings <- MCSettings
  MaxRequests = 1
CONSTANTS
  p1 = p1
  p2 = p2
INVARIANT Balanced
INVARIANT ChoiceIsOwn
INVARIANT AloneTriesAll
PROPERTY EveryRequestReturns
PROPERTY CloseReturns
