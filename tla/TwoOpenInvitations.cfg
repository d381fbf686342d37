SPECIFICATION Spec
CONSTANTS
  Addresses = {owner, recruiter, guest}
  Owner = owner
  Recruiter = recruiter
  InvitableRoles = {"SUPER_ADMIN"}
  AssignableRoles = {}
  Invites = {i1, i2}
  Links = {}
  Requests = {r1, r2}
  MaxTenants = 2
  InvitationTtl = 1
  VerificationTtl = 1
  MaxNow = 1
  None = None
INVARIANTS
  ReinvitingSupersedes
