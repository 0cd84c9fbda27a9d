CONSTANTS
  t1 = t1
  t2 = t2
  Tabs = {t1, t2}
  MaxTokens = 3
  MaxTroubles = 2
SPECIFICATION Spec
SYMMETRY Alike
INVARIANTS
  TypeOK
  OnlyEndsWhenAsked
  SignedOutStays
\* everybody is signed out, and nothing is left to do
CHECK_DEADLOCK FALSE
