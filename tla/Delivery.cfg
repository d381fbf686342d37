SPECIFICATION Spec
CONSTANTS
  Tenants = {t1, t2}
  Undefined = Undefined
  Requests = {r1, r2}
  Clients = {c1, c2}
  Projects = {p1, p2}
  Codes = {k1, k2}
  PageSize = 1
  None = None
  Unborn = Unborn
  Gone = Gone
SYMMETRY Symmetry
INVARIANTS
  ProjectHasClient
  CodesUnique
  LosersAreTold
  OwnRowsOnly
  PageFits
  RemovedOnce
CHECK_DEADLOCK FALSE
