SPECIFICATION Spec
CONSTANTS
  Accounts = {a, b}
  PagesInPlay = {"team", "clients", "profile"}
  Queries = {q1, q2}
  First = q1
  Calls = {c1}
  MaxChanges = 1
  MaxMoves = 2
  None = None
INVARIANTS
  OwnChangesKept
PROPERTIES
  ShownOnClose
SYMMETRY Symmetry
CHECK_DEADLOCK FALSE
