SPECIFICATION Spec
CONSTANTS
  Accounts = {a, b}
  PagesInPlay = {"team", "clients"}
  Queries = {q1, q2}
  First = q1
  Calls = {c1}
  MaxChanges = 0
  MaxMoves = 2
  None = None
INVARIANTS
  OwnRowsShown
SYMMETRY Symmetry
CHECK_DEADLOCK FALSE
