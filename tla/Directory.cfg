SPECIFICATION FairSpec
CONSTANTS
  Users = {u1}
  Procs = {p1, p2}
  Names = {n1}
  None = None
  u1 = u1
  n1 = n1
  p1 = p1
  p2 = p2
  Ops = {"getProfile", "getUserById", "getUsers", "updateProfile", "updateUser", "updateRole", "deactivateUser", "deleteUser", "uploadAvatar", "auth"}
  Held = {"admin", "super_admin"}
  Faults = {"redis"}
CHECK_DEADLOCK FALSE
INVARIANTS DirectoryInv StaleOnlyIfMissed
PROPERTIES CopiesConverge
