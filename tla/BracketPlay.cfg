CONSTANTS
  None = None
  Field = 4
  Double = TRUE
  Override = FALSE
  Teams <- MCTeams
  Matches <- MCMatches
  GrandFinal <- MCGrandFinal
  ResetFinal <- MCResetFinal
  winnerTo <- MCWinnerTo
  loserTo <- MCLoserTo
  entry <- MCEntry
  stage <- MCStage
  wave <- MCWave
SPECIFICATION Spec
INVARIANTS
  TypeOK
  Advanced
  ResetFollowsGrandFinal
  OneSeatEach
  OutByLosses
  NeverStuck
  RanksAreCurrent
PROPERTIES ImplementsKnockout
