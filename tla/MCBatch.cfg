\* Four occurrences, two handlers, a trigger of two and a cap of three: a call
\* can cross the trigger, fill the buffer, and be refused.
CONSTANTS
  Event = {e1, e2, e3, e4}
  Caller = {c1, c2}
  MaxEvents = 2
  CapacityOpt = 3
  RetryAttempts = 2
SPECIFICATION BatchSpec
SYMMETRY Symmetry
CHECK_DEADLOCK FALSE
INVARIANTS
  OneFlusher
  Conservation
  StoreAgrees
  CleanDrain
  NoLostWakeup
PROPERTY
  ImplementsSink
