SPECIFICATION Spec
CONSTANTS
  Users = {s1, a1, v1}
  Requests = {r1, r2}
  AssignableRoles = {"SUPER_ADMIN", "VIEWER"}
  SuperAdmins = {s1}
  Admins = {a1}
  MaxChanges = 2
  NoUser = NoUser
PROPERTY ManagesWithinRank
CHECK_DEADLOCK FALSE
