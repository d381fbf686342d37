SPECIFICATION Spec
CONSTANTS
  Addresses = {owner, recruiter, guest}
  Owner = owner
  Recruiter = recruiter
  InvitableRoles = {"SUPER_ADMIN"}
  AssignableRoles = {"HR_COMPLIANCE"}
  Invites = {i1, i2}
  Links = {l1}
  Requests = {r1, r2}
  MaxTenants = 2
  InvitationTtl = 1
  VerificationTtl = 1
  MaxNow = 1
  None = None
SYMMETRY Symmetry
INVARIANTS
  AcceptedMeansJoined
  OneOpenInvitation
  RevokedNeverJoins
  TenantsOwned
