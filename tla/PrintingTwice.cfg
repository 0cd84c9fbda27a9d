CONSTANTS
  None = None
  Jobs = {j1}
  Requests = {r1, r2}
  max_parts = 1
  MaxOverlaps = 1
SPECIFICATION Spec
INVARIANTS
  NeverTwice
SYMMETRY Alike
CHECK_DEADLOCK FALSE
