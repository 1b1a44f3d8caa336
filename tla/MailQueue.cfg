SPECIFICATION FairSpec
CONSTANTS
  r1 = r1
  r2 = r2
  m1 = m1
  m2 = m2
  p1 = p1
  p2 = p2
  Rows = {r1, r2}
  Messages = {m1, m2}
  MessageOf <- TwoMessages
  BounceRows = {r1}
  Procs = {p1}
  Workers = 1
  MaxAttempts = 2
  RowMaxAttempts <- RowAttempts
  MaxStops = 1
  MaxSlow = 0
  MaxDbErrors = 1
  MaxDsnFailures = 0
  MaxUnheard = 1
  MaxAdminRetries = 0
  MaxFaults = 2
PROPERTIES
  KeepsPromise
  EverythingEnds
