\* Two events over a queue of one, so that shutdown has to make room, and two
\* callers of shutdown.  No symmetry, for the temporal properties.
CONSTANTS
  Event = {e1, e2}
  Sentinel = Sentinel
  Closer = {c1, c2}
  Waiter = {w1}
  MaxQueue = 1
  BatchSize = 2
  MaxRetries = 2
SPECIFICATION FairSpec
CHECK_DEADLOCK FALSE
INVARIANTS
  TasksExact
  FlushShips
  DrainComplete
PROPERTIES
  SentinelDrains
  ImplementsSink
