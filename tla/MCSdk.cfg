\* A client of each adapter, two async flows, two calls, two shutdowns; the parts
\* of the instance that do not meet are kept apart by the constraint.
CONSTANTS
  Null = Null
  Rules <- MCRules
  Flow <- MCFlow
  Contexts <- MCContexts
  MaxNest <- MCMaxNest
  Client <- MCClient
  Shape <- MCShape
  WrapOptions <- MCWrapOptions
  Configs <- MCConfigs
  Env <- MCEnv
  Call <- MCCall
  Requests <- MCRequests
  Replies <- MCReplies
  MaxShutdowns = 2
SPECIFICATION Spec
CONSTRAINT PartAtATime
CHECK_DEADLOCK FALSE
INVARIANTS
  OneEventPerCall
  StreamBillsAsCall
  AttributedToInnermost
  QueuesAccounted
  SigtermDrains
