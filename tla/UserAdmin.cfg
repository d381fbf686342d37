SPECIFICATION Spec
CONSTANTS
  Users = {s1, s2, a1}
  Requests = {r1, r2}
  AssignableRoles = {"SUPER_ADMIN", "VIEWER"}
  SuperAdmins = {s1, s2}
  Admins = {a1}
  MaxChanges = 2
  NoUser = NoUser
SYMMETRY Symmetry
INVARIANTS
  TypeOK
  SuperAdminUnlessOverlap
  NeverWithoutRole
PROPERTIES
  ManagesWhatItRead
CHECK_DEADLOCK FALSE
