SPECIFICATION Spec
CONSTANTS
  Users = {u1}
  Sessions = {s1}
  Tokens = {t1, t2, t3, t4}
  Requests = {r1, r2}
  ShortTtl = 1
  LongTtl = 2
  MaxNow = 2
  None = None
SYMMETRY Symmetry
INVARIANT NoSecondLiveToken
