SPECIFICATION ListenersSpec
CONSTANTS
  c1 = c1
  c2 = c2
  c3 = c3
  ip1 = ip1
  ip2 = ip2
  Conns = {c1, c2, c3}
  Ips = {ip1, ip2}
  IpOf <- Sources
  MaxConnections = 2
  MaxPerIp = 1
  MaxStarts = 2
  MaxAsks = 3
INVARIANTS SlotsExact SwitchIsTrue
PROPERTIES VanishedPeerEnds SwitchedOffDrains
CHECK_DEADLOCK FALSE
