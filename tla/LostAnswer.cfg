SPECIFICATION Spec
CONSTANTS
  Tabs = {tab1}
  Calls = {c1}
  Sessions = {s1}
  Tokens = {p1, p2}
  None = None
  MaxReloads = 0
INVARIANTS
  GivesUpOnlyWhatIsGone
CHECK_DEADLOCK FALSE
