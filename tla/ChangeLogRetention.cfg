SPECIFICATION Spec
CONSTANTS
  Items <- Items2
  Values = {absent, a}
  Absent = absent
  Mailboxes = {b1, b2}
  MailboxOf <- TheMailboxOf
  Users = {u1}
  OwnerOf <- TheOwnerOf
  Writers = {w1}
  Clients = {c2}
  UserOf <- TheUserOf
  ScopeOf <- TheScopeOf
  PageSize = 2
  Retention = 0
  PruneOnline = FALSE
  MaxSeq = 3
  MaxTime = 1
  MaxPrunes = 1
  MaxDeletes = 1
  MaxLost = 0
  MaxRestores = 1
  MaxUpheavals = 2
  i1 = i1
  i2 = i2
  i3 = i3
  b1 = b1
  b2 = b2
  b3 = b3
  u1 = u1
  u2 = u2
  c1 = c1
  c2 = c2
  absent = absent
  a = a
INVARIANTS
  NoHole
CHECK_DEADLOCK FALSE
