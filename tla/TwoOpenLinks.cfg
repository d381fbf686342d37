SPECIFICATION Spec
CONSTANTS
  Requests = {r1, r2}
  Links = {l1, l2}
  Sessions = {s1, s2}
  MaxFailed = 3
  Lockout = 1
  LinkTtl = 1
  MaxPasswords = 2
  MaxFailures = 0
  MaxNow = 2
  None = None
INVARIANT NewestLinkOnly
