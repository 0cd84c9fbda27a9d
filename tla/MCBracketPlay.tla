---------------------------- MODULE MCBracketPlay --------------------------
(* BracketPlay on the matches that are scheduled for the bracket of Field   *)
(* teams.  (The LETs keep TLC's coverage from expanding the blueprint at    *)
(* every use.)                                                              *)
EXTENDS BracketPlay

CONSTANTS Field, Double

S == INSTANCE BracketSchedule

Tree == S!elimination_blueprint(Field, Double)

MCTeams == 1 .. Field
MCMatches == LET tree == Tree IN tree.matches
MCGrandFinal == LET key == S!Final(Tree, S!GF) IN key
MCResetFinal == LET key == S!Final(Tree, S!GF2) IN key
MCWinnerTo == LET next == S!NextSlot(Tree, "winner") IN next
MCLoserTo == LET next == S!NextSlot(Tree, "loser") IN next
MCEntry == LET teams == S!Participants(Tree) IN teams
MCStage == LET stages == S!Stage(Tree) IN stages
MCWave == LET waves == S!Wave(Tree) IN waves

\* What BracketSchedule_proofs needs to know of the bracket.
ASSUME AsGenerated == S!WellFormed(Tree, Field, Double)

\* The phase status and the DE rows are written from the other variables and read
\* by no guard, and "running" is as "scheduled" in every guard: a run whose
\* properties are about the matches only looks at these.
MatchesOnly == <<status, seat, result>>
NoneRunning == \A m \in Matches : status[m] # "running"
============================================================================
