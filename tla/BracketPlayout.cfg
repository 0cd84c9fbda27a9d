CONSTANTS
  MaxDouble = 7
  MaxSingle = 8
  Fields <- MCFields
SPECIFICATION Spec
INVARIANTS
  FinalRanking
  PlacedTeamsAreOut
  MatchCount
  Seeding
  NoImmediateRematch
PROPERTIES
  ImplementsKnockout
  PlacementsAreFinal
CHECK_DEADLOCK FALSE
