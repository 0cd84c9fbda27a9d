--------------------------- MODULE BracketPlayout --------------------------
(***************************************************************************)
(* A bracket of BracketTree played to its end, in every order and with     *)
(* every outcome, without corrections: what the structure that             *)
(* elimination_blueprint builds and the placements that                    *)
(* elimination_placements reads off it are worth.                          *)
(***************************************************************************)
EXTENDS BracketTree

CONSTANT Fields   \* <<field size, double elimination?>> pairs to play out

\* Their blueprints are what elimination_blueprint is meant to build, and one of them is
\* the largest.
ASSUME FieldsAreWellFormed ==
  /\ \A f \in Fields : f[2] \in BOOLEAN /\ WellFormed(elimination_blueprint(f[1], f[2]), f[1], f[2])
  /\ \E f \in Fields : \A g \in Fields : g[1] <= f[1]

VARIABLES field,  \* the pair being played
          tree,   \* its blueprint
          seat,   \* the team in every slot, 0 while it is not known
          won     \* won[m]: slot that won match m, 0 while it is not played

vars == <<field, tree, seat, won>>

n == field[1]
double == field[2]

Winner == [m \in tree.matches |-> IF won[m] = 0 THEN 0 ELSE seat[<<m, won[m]>>]]
Loser  == [m \in tree.matches |-> IF won[m] = 0 THEN 0 ELSE seat[<<m, 3 - won[m]>>]]

Places == elimination_placements(tree, n, Winner, Loser, won)
Placed == {p[1] : p \in Places}
PlaceOf(t) == (CHOOSE p \in Places : p[1] = t)[2]

\* Matches that could be played now.
Playable == {m \in tree.matches : won[m] = 0 /\ seat[<<m, 1>>] # 0 /\ seat[<<m, 2>>] # 0}

Init == /\ field \in Fields
        /\ tree = elimination_blueprint(field[1], field[2])
        /\ seat = [s \in {<<m, p>> : m \in tree.matches, p \in {1, 2}} |->
                     IF \E t \in tree.teams : <<t[2], t[3]>> = s
                     THEN (CHOOSE t \in tree.teams : <<t[2], t[3]>> = s)[1]
                     ELSE 0]
        /\ won = [m \in tree.matches |-> 0]

\* Faulty variant: the reset final is always played.
FillsResetAlways(m, slot) == m = GF

\* The grand final fills the reset final only if the loser-bracket side wins it.
FillsReset(m, slot) == m = GF /\ slot = 2

\* Faulty variant: the loser's link is followed by the winner.
FromWinner(side, slot) == slot

\* The slot of the winner or loser of a match that the team in the slot has won.
From(side, slot) == IF side = "winner" THEN slot ELSE 3 - slot

\* A match is played, the team in the slot wins it, and both teams move on.
Play(m, slot) ==
  LET moved(side) == seat[<<m, From(side, slot)>>]
      into(s) == {l \in tree.links : l[2] = m /\ <<l[3], l[4]>> = s}
  IN  /\ m \in Playable
      /\ won' = [won EXCEPT ![m] = slot]
      /\ seat' = [s \in DOMAIN seat |->
                    IF FillsReset(m, slot) /\ s[1] = GF2 THEN seat[<<GF, s[2]>>]
                    ELSE IF into(s) # {} THEN moved((CHOOSE l \in into(s) : TRUE)[1])
                    ELSE seat[s]]
      /\ UNCHANGED <<field, tree>>

Next == \E m \in tree.matches, slot \in {1, 2} : Play(m, slot)

Spec == Init /\ [][Next]_vars

----------------------------------------------------------------------------
\* The bracket implements the knockout: only teams with losses left play, a
\* team is out exactly with its last loss, and until two are left only teams
\* that have lost equally often meet ("nobody is out before their second
\* loss", brackets.py:22-24).
AllTeams == 1 .. CHOOSE k \in {f[1] : f \in Fields} : \A f \in Fields : f[1] <= k
K == INSTANCE Knockout WITH
       Teams <- AllTeams,
       field <- 1 .. n,
       lives <- IF double THEN 2 ELSE 1,
       losses <- [t \in AllTeams |-> Cardinality({m \in tree.matches : Loser[m] = t})]
ImplementsKnockout == K!Spec

\* The bracket never stalls and its final placements are a ranking: once no
\* match can be played there is one champion, every team has one place, and a
\* place is one more than the number of teams placed better (elimination_placements).
FinalRanking ==
  Playable = {} =>
    /\ Placed = 1 .. n
    /\ Cardinality(Places) = n
    /\ Cardinality({p \in Places : p[2] = 1}) = 1
    /\ \A p \in Places : p[2] = 1 + Cardinality({q \in Places : q[2] < p[2]})

\* "Placements are final as soon as a team is out" (brackets.py:295-297): later
\* results add placements and never change or remove one.
PlacementsAreFinal == [][Places \subseteq Places']_vars

\* A team with a place can no longer play.
PlacedTeamsAreOut ==
  \A m \in Playable, slot \in {1, 2} : seat[<<m, slot>>] \notin Placed

\* A decided double elimination took 2n - 2 matches, 2n - 1 with the reset
\* final (brackets.py:26-27), a single elimination n - 1.
MatchCount ==
  LET played == Cardinality({m \in tree.matches : won[m] # 0})
  IN  Playable = {} =>
        played = IF ~double THEN n - 1 ELSE IF won[GF] = 2 THEN 2 * n - 1 ELSE 2 * n - 2

\* Seeds 1 and 2 meet in the winner bracket in its final only, and only the top
\* seeds are spared the first round (brackets.py:5-8).
Seeding ==
  LET k == Rounds(n)
      opening == {seat[<<m, slot>>] : m \in {t \in tree.matches : t[1] = "winner" /\ t[2] = 1},
                                      slot \in {1, 2}}
  IN  /\ \A m \in tree.matches :
            m[1] = "winner" /\ {seat[<<m, 1>>], seat[<<m, 2>>]} = {1, 2} => m[2] = k
      /\ opening = (2^k - n + 1) .. n

\* Drop-downs are fed so that "teams that met in the winner bracket do not meet
\* again straight away" (brackets.py:19-20): before the last major round nobody
\* meets, in the match it drops into, the team it beat in the round before.
NoImmediateRematch ==
  \A m \in tree.matches :
    /\ m[1] = "loser" /\ m[2] % 2 = 0 /\ m[2] < 2 * (Rounds(n) - 1)
    /\ seat[<<m, 1>>] # 0 /\ seat[<<m, 2>>] # 0
    => \A w \in tree.matches : w[1] = "winner" /\ w[2] = m[2] \div 2 =>
         ~(Loser[w] = seat[<<m, 1>>] /\ Winner[w] = seat[<<m, 2>>])
============================================================================
