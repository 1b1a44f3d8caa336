SPECIFICATION Spec
CONSTANTS
  s1 = s1
  s2 = s2
  m1 = m1
  m2 = m2
  m3 = m3
  inbox = inbox
  work = work
  Session = {s1, s2}
  Message = {m1, m2, m3}
  Initial <- TwoMessages
  old = old
  Watchers = {s1}
  Name = {inbox, work, old}
  Inbox = inbox
  None = none
  Deleted = deleted
  Seen = seen
  MaxFolders = 2
  MaxUid = 3
  MaxCommands = 3
  Capacity = 1
INVARIANTS
  ListingsAreTrue
  QueuedMailKept
PROPERTIES
  ExpungesAreTrue
  DestroyedWasMarked
  IdleHears
CHECK_DEADLOCK FALSE
