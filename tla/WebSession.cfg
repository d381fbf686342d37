SPECIFICATION Spec
CONSTANTS
  Tabs = {tab1}
  Calls = {c1}
  Sessions = {s1, s2}
  Tokens = {p1, p2, p3}
  None = None
  MaxReloads = 1
INVARIANTS
  ShowsBearer
PROPERTIES
  CallsSettle
  SignOutEnds
  BootEnds
CHECK_DEADLOCK FALSE
