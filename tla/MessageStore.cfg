SPECIFICATION Spec
CONSTANTS
  Messages = {m1, m2, m3}
  Folders = {f1, f2}
  Flags = {seen, flagged}
  Seen = seen
  Procs = {p1, p2}
  Quota = 2
  None = none
  MaxOps = 4
  MaxFaults = 1
  p1 = p1
  p2 = p2
SYMMETRY Symmetric
INVARIANTS
  BodiesKept
  NoFlagLost
  BooksBalance
  JournalTold
CHECK_DEADLOCK FALSE
