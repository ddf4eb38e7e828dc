SPECIFICATION Spec
CONSTANTS
  Users = {u1}
  Procs = {p1, p2}
  Names = {n1, n2}
  None = None
  u1 = u1
  n1 = n1
  n2 = n2
  p1 = p1
  p2 = p2
  Ops = {"getProfile", "updateProfile", "updateUser"}
  Held = {"employee"}
  Faults = {}
CHECK_DEADLOCK FALSE
INVARIANTS ProfileUpdateAccepted
