SPECIFICATION Spec
CONSTANTS
  Users = {u1, u2}
  Sessions = {s1, s2}
  Tokens = {t1, t2}
  Requests = {r1, r2}
  ShortTtl = 1
  LongTtl = 2
  MaxNow = 0
  None = None
SYMMETRY Symmetry
INVARIANTS
  RevokeAllComplete
  LogoutEndsBoth
