\* Four events over a buffer of two and batches of two, one call of shutdown and
\* one caller of flush.  No symmetry, for the temporal property.
CONSTANTS
  Event = {e1, e2, e3, e4}
  Closer = {c1}
  Waiter = {w1}
  MaxQueue = 2
  BatchSize = 2
  MaxRetries = 2
SPECIFICATION FairSpec
CHECK_DEADLOCK FALSE
INVARIANTS
  InOrder
  FlushShips
PROPERTY
  AcceptedSettles
