CONSTANTS
  None = None
  Field = 2
  Double = TRUE
  Override = TRUE
  Teams <- MCTeams
  Matches <- MCMatches
  GrandFinal <- MCGrandFinal
  ResetFinal <- MCResetFinal
  winnerTo <- MCWinnerTo
  loserTo <- MCLoserTo
  entry <- MCEntry
  stage <- MCStage
  wave <- MCWave
SPECIFICATION Spec
PROPERTIES
  CompletedIsLocked
  RecordedMovesOn
VIEW MatchesOnly
CONSTRAINT NoneRunning
