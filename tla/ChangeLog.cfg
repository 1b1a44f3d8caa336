SPECIFICATION FairSpec
CONSTANTS
  Items <- Items2
  Values = {absent, a}
  Absent = absent
  Mailboxes = {b1, b2}
  MailboxOf <- TheMailboxOf
  Users = {u1}
  OwnerOf <- TheOwnerOf
  Writers = {w1, w2}
  Clients = {c1, c2}
  UserOf <- TheUserOf
  ScopeOf <- TheScopeOf
  PageSize = 2
  Retention = 0
  PruneOnline = FALSE
  MaxSeq = 3
  MaxTime = 0
  MaxPrunes = 0
  MaxDeletes = 0
  MaxLost = 1
  MaxRestores = 0
  MaxUpheavals = 2
  i1 = i1
  i2 = i2
  i3 = i3
  b1 = b1
  b2 = b2
  b3 = b3
  u1 = u1
  u2 = u2
  c1 = c1
  c2 = c2
  absent = absent
  a = a
PROPERTIES
  KeepsStream
  EventuallyConsistent
CHECK_DEADLOCK FALSE
