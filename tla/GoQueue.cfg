\* Two events over a channel of one and batches of two, two attempts: the channel
\* overflows, a batch fills, another is cut short by the ticker or by Close, which
\* two goroutines call, a post is retried and given up.  No symmetry, for the
\* temporal properties.
CONSTANTS
  Event = {e1, e2}
  Closer = {c1, c2}
  Waiter = {w1}
  ChanCap = 1
  BatchSize = 2
  Retries = 2
SPECIFICATION FairSpec
CHECK_DEADLOCK FALSE
INVARIANTS
  ServerAgrees
  CloseDrains
  FlushLeavesOneBatch
PROPERTIES
  CloseReturns
  ImplementsSink
