\* Two requests that share an id, two insert attempts, one restart.
CONSTANTS
  r1 = r1  r2 = r2  r3 = r3
  a = a  b = b  x = x
  Request <- PairRequests
  Caller <- PairRequests
  Id = {a, b, x}
  Body <- PairBody
  Event <- PairEvents
  Invalid = {x}
  MaxEvents = 1
  CapacityOpt = 0
  RetryAttempts = 2
  MaxRestarts = 1
SPECIFICATION FairSpec
CHECK_DEADLOCK FALSE
PROPERTY Settled
