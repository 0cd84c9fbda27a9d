CONSTANTS
  None = None
  Jobs = {j1, j2, j3}
  Requests = {r1, r2}
  max_parts = 1
  MaxOverlaps = 1
SPECIFICATION Spec
INVARIANTS
  TypeOK
  LimitHeld
  PartsAreBooked
SYMMETRY Alike
CHECK_DEADLOCK FALSE
