\* A batch, one that repeats half of it and one that repeats the other half and
\* ends in an invalid event; a trigger of one and so a capacity of two, one insert
\* attempt.
CONSTANTS
  r1 = r1  r2 = r2  r3 = r3
  a = a  b = b  x = x
  Request <- Requests
  Caller <- Requests
  Id = {a, b, x}
  Body <- RetryBody
  Event <- RetryEvents
  Invalid = {x}
  MaxEvents = 1
  CapacityOpt = 0
  RetryAttempts = 1
  MaxRestarts = 0
SPECIFICATION Spec
CHECK_DEADLOCK FALSE
INVARIANTS
  DedupOnce
  AckExplained
  CountersBalance
PROPERTY
  GracefulExit
