SPECIFICATION Spec
CONSTANTS
  r1 = r1
  r2 = r2
  m1 = m1
  m2 = m2
  p1 = p1
  p2 = p2
  Rows = {r1}
  Messages = {m1}
  MessageOf <- OneMessage
  BounceRows = {r1}
  Procs = {p1, p2}
  Workers = 1
  MaxAttempts = 2
  RowMaxAttempts <- RowAttempts
  MaxStops = 0
  MaxSlow = 1
  MaxDbErrors = 0
  MaxDsnFailures = 1
  MaxUnheard = 1
  MaxAdminRetries = 1
  MaxFaults = 3
SYMMETRY SymmetricProcs
INVARIANTS
  ClaimsFenced
  LogAgreesWithRow
  NoSilentLoss
  RepeatsBounded
