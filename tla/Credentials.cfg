SPECIFICATION Spec
CONSTANTS
  Requests = {r1, r2}
  Links = {l1, l2}
  Sessions = {s1, s2}
  MaxFailed = 3
  Lockout = 1
  LinkTtl = 1
  MaxPasswords = 1
  MaxFailures = 4
  MaxNow = 2
  None = None
SYMMETRY Symmetry
INVARIANTS
  LatestPasswordStands
  OldSessionsEnd
  OneOpenLink
  FailuresLock
