SPECIFICATION Spec
CONSTANTS
  Users = {u1}
  Jtis = {j1, j2, j3}
  Procs = {p1, p2}
  Passwords = {w1}
  w1 = w1
  None = None
  u1 = u1
  j1 = j1
  j2 = j2
  j3 = j3
  p1 = p1
  p2 = p2
  TicksPerSec = 2
  AccessLife = 1
  RefreshLife = 2
  DocLife = 2
  RevokedKeep = 2
  MaxTick = 1
  Ops = {"login", "refresh"}
  Faults = {}
CHECK_DEADLOCK FALSE
INVARIANTS OneSuccessor
