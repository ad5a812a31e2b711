\* Two keys that share a prefix, two orgs, two concurrent calls, a TTL of one on
\* a clock of three readings.
CONSTANTS
  k1 = k1  k2 = k2
  Key = {k1, k2}
  PrefixOf <- SamePrefix
  Org = {o1, o2}
  None = None
  Refused = Refused
  Call = {c1, c2}
  TTL = 1
  MaxTime = 2
SPECIFICATION Spec
SYMMETRY Symmetry
INVARIANTS
  StaleAtMostTTL
