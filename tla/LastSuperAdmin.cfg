SPECIFICATION Spec
CONSTANTS
  Users = {s1, s2, a1}
  Requests = {r1, r2}
  AssignableRoles = {"VIEWER"}
  SuperAdmins = {s1, s2}
  Admins = {a1}
  MaxChanges = 2
  NoUser = NoUser
INVARIANT SuperAdminRemains
CHECK_DEADLOCK FALSE
