SPECIFICATION Spec
CONSTANTS
  Requests = {r1, r2}
  Links = {l1}
  Sessions = {s1}
  MaxFailed = 3
  Lockout = 2
  LinkTtl = 1
  MaxPasswords = 1
  MaxFailures = 5
  MaxNow = 4
  None = None
INVARIANT LimitLocks
