SPECIFICATION Spec
CONSTANTS
  Tabs = {tab1, tab2}
  Calls = {c1, c2}
  Sessions = {s1}
  Tokens = {p1, p2}
  None = None
  MaxReloads = 1
INVARIANTS
  NeverReplays
CHECK_DEADLOCK FALSE
