SPECIFICATION FairSpec
CONSTANTS
  d = d
  h1 = h1
  h2 = h2
  r = r
  Names = {d, h1, h2, r}
  Domain = d
  Relay = r
  Null = null
  Zones <- SomeZones
  MaxAttempts = 2
INVARIANTS
  VerdictIsHeard
  CopiesExplained
  NothingInClear
PROPERTIES
  AttemptEnds
  WillingTakesIt
CHECK_DEADLOCK FALSE
