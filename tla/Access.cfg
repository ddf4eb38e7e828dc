SPECIFICATION Spec
CONSTANTS
  Users = {u1, u2}
  Procs = {p1, p2}
  Names = {n1, n2}
  None = None
  u1 = u1
  u2 = u2
  n1 = n1
  n2 = n2
  p1 = p1
  p2 = p2
  Ops = {"updateUser", "updateRole", "deactivateUser", "deleteUser"}
  Held = {"employee", "admin", "super_admin"}
  Faults = {}
CHECK_DEADLOCK FALSE
SYMMETRY Symmetry
INVARIANTS TypeOK
PROPERTIES ChangesAreAuthorised
