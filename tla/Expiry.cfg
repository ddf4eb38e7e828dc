SPECIFICATION Spec
CONSTANTS
  Users = {u1}
  Jtis = {j1, j2}
  Procs = {p1, p2}
  Passwords = {w1}
  w1 = w1
  None = None
  u1 = u1
  j1 = j1
  j2 = j2
  p1 = p1
  p2 = p2
  TicksPerSec = 2
  AccessLife = 1
  RefreshLife = 1
  DocLife = 1
  RevokedKeep = 1
  MaxTick = 3
  Ops = {"login", "request", "logout", "changePassword", "resetPassword", "deactivate", "delete", "verify", "socket"}
  Faults = {"crash"}
CHECK_DEADLOCK FALSE
SYMMETRY Symmetry
CONSTRAINT SecondPairInLogouts
INVARIANTS TypeOK BlockLasts
PROPERTIES OnlyDatedDocsGo RefusedNeverAdmitted ClosedAccountStaysClosed LockoutWithinASecond
