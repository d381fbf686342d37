SPECIFICATION Spec
CONSTANTS
  Requests = {r1, r2}
  Links = {l1}
  Sessions = {s1}
  MaxFailed = 3
  Lockout = 1
  LinkTtl = 1
  MaxPasswords = 2
  MaxFailures = 0
  MaxNow = 2
  None = None
PROPERTY LinkSingleUse
