SPECIFICATION Spec
CONSTANTS
  Addresses = {owner, recruiter, guest}
  Owner = owner
  Recruiter = recruiter
  InvitableRoles = {"ADMIN"}
  AssignableRoles = {"SUPER_ADMIN", "HR_COMPLIANCE"}
  Invites = {i1}
  Links = {}
  Requests = {r1}
  MaxTenants = 2
  InvitationTtl = 1
  VerificationTtl = 1
  MaxNow = 1
  None = None
PROPERTIES
  GrantsWithinRank
