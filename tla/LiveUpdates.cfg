CONSTANTS
  s1 = s1
  Screens = {s1}
  None = None
  QueueSize = 1
  MaxScores = 2
  MaxTroubles = 1
SPECIFICATION Spec
INVARIANTS
  TypeOK
  AnnouncedIsVisible
PROPERTIES
  EventuallyFresh
CHECK_DEADLOCK FALSE
