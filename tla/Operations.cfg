SPECIFICATION Spec
CONSTANTS
  a1 = a1
  a2 = a2
  a3 = a3
  i1 = i1
  i2 = i2
  u1 = u1
  u2 = u2
  p1 = p1
  p2 = p2
  Actions = {a1, a2, a3}
  Ids = {i1, i2}
  IdOf <- Shared
  OwnerOf <- Owners
  KindOf <- Routes
  CarrierOf <- AsCoded
  Procs = {p1, p2}
  MaxFaults <- Faults
INVARIANTS
  OwnResult
PROPERTIES
  KeepsPromise
  Settles
CHECK_DEADLOCK FALSE
