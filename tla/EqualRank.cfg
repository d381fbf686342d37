SPECIFICATION Spec
CONSTANTS
  Users = {s1, a1, v1}
  Requests = {r1, r2}
  AssignableRoles = {"ADMIN"}
  SuperAdmins = {s1}
  Admins = {a1}
  MaxChanges = 1
  NoUser = NoUser
PROPERTY ManagesBelowRank
CHECK_DEADLOCK FALSE
