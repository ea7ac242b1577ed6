SPECIFICATION FairSpec
CONSTANTS
  r1 = r1  r2 = r2
  Requests = {r1, r2}
  MaxRequests = 2
  Window = 3
  Delay = 1
  Setups <- MCSetups
  MaxEntries = 3
PROPERTY NeverBlocked
CHECK_DEADLOCK FALSE
