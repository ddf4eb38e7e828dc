SPECIFICATION Spec
CONSTANTS
  Names = {n1}
  n1 = n1
  MaxRoles = 2
  MaxAccounts = 2
  Procs = {p1}
  p1 = p1
  Seeders = {s1, s2}
  s1 = s1
  s2 = s2
  Limit = 1
  Ranks = {"employee", "admin", "super_admin"}
  None = None
  Faults = {"mongo"}
CHECK_DEADLOCK FALSE
SYMMETRY Symmetry
INVARIANTS TypeOK OneRolePerName FreshRolesAreSystem SeededRolesStay SeededSuperAdmin WalkSeesAll
PROPERTIES SystemRolesFreeze
