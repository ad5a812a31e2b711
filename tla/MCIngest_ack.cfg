\* The buffer is filled between a batch and its retry; no id expires in between
\* in the counterexample.
CONSTANTS
  r1 = r1  r2 = r2  r3 = r3
  a = a  b = b  x = x
  Request <- Requests
  Caller <- Requests
  Id = {a, b, x}
  Body <- FullBody
  Event <- FullEvents
  Invalid = {}
  MaxEvents = 1
  CapacityOpt = 0
  RetryAttempts = 1
  MaxRestarts = 0
SPECIFICATION Spec
CHECK_DEADLOCK FALSE
INVARIANT AckedIsEnqueued
