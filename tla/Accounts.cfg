SPECIFICATION Spec
CONSTANTS
  d1 = d1
  p1 = p1
  p2 = p2
  Devices = {d1}
  NoDevice = NoDevice
  Procs = {p1, p2}
  MaxFailures = 1
  MaxRequests = 4
  MaxAbandoned = 1
SYMMETRY Symmetry
INVARIANTS
  OneLivePerLogin
  CutOff
  SpentOnce
CHECK_DEADLOCK FALSE
