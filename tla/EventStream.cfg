SPECIFICATION StreamSpec
CONSTANTS
  u1 = u1
  u2 = u2
  s1 = s1
  s2 = s2
  Users = {u1, u2}
  Sockets = {s1}
  Kinds = {"change"}
  UserOf <- OneUser
  HistoryCapacity = 2
  ChannelCapacity = 1
  MaxEvents = 3
  MaxRestarts = 1
  MaxDrops = 1
  MaxErrors = 1
INVARIANTS
  NothingMissed
PROPERTIES
  EventuallyKnown
  RevokedIsClosed
CHECK_DEADLOCK FALSE
