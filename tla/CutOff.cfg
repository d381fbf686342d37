SPECIFICATION Spec
CONSTANTS
  Tabs = {tab1}
  Calls = {c1}
  Sessions = {s1}
  Tokens = {p1, p2}
  None = None
  MaxReloads = 1
INVARIANTS
  NeverReplays
CHECK_DEADLOCK FALSE
