---------------------------- MODULE BracketTree ----------------------------
(***************************************************************************)
(* The pure bracket construction of modules/events/brackets.py: standard   *)
(* seeding, the raw winner and loser brackets, the pruning of byes, the    *)
(* links of the matches that are left, and the placements.                 *)
(*                                                                         *)
(* A match is named by its key <<bracket, round, index>>, the index being  *)
(* 0-based as in the code.  What sits in a slot of a match is a SOURCE:    *)
(* <<"team", seed>>, <<"bye">>, <<"winner", key>> or <<"loser", key>>.     *)
(* Teams are their seeds, 1 .. n.  No variable and no constant: every      *)
(* operator takes the field size n and whether the phase is a double       *)
(* elimination.                                                            *)
(***************************************************************************)
EXTENDS Integers, FiniteSets, Sequences

GF  == <<"final", 1, 0>>   \* grand final
GF2 == <<"final", 2, 0>>   \* reset final, played only if position 2 wins GF
Bye == <<"bye">>

\* Winner rounds k of a field of n: the bracket has 2^k slots, at least two.
Rounds(n) == CHOOSE k \in 1 .. n : 2^k >= n /\ 2^(k - 1) < n

\* Seeds of the 2^k slots, top to bottom: each seed of the half-size order is
\* followed by its opponent.
bracket_order[k \in Nat] ==
  IF k = 0 THEN <<1>>
  ELSE [i \in 1 .. 2^k |-> IF i % 2 = 1 THEN bracket_order[k - 1][(i + 1) \div 2]
                                        ELSE 2^k + 1 - bracket_order[k - 1][i \div 2]]

\* Faulty variant: neighbours in the seeding meet.
SeedInOrder(n, index, slot) ==
  IF 2 * index + slot <= n THEN <<"team", 2 * index + slot>> ELSE Bye

\* First-round pairs: seeds beyond the field are byes.
seed_pairings(n, index, slot) ==
  LET seed == bracket_order[Rounds(n)][2 * index + slot]
  IN  IF seed <= n THEN <<"team", seed>> ELSE Bye

\* Every match of the bracket before pruning.
RawMatches(n, double) ==
  LET k == Rounds(n)
      winners == UNION {{<<"winner", r, i>> : i \in 0 .. 2^(k - r) - 1} : r \in 1 .. k}
      losers  == UNION {{<<"loser", r, i>> : i \in 0 .. 2^(k - 1 - (r + 1) \div 2) - 1} :
                          r \in 1 .. 2 * (k - 1)}
  IN  IF double THEN winners \cup losers \cup {GF} ELSE winners

\* Faulty variant: the drop-downs are never fed in reverse.
DropStraight(count, j, i) == i

\* The winner-round match that match i of the major round 2j is fed from, in reverse
\* order in every other major round.
Drop(count, j, i) == IF j % 2 = 1 THEN count - 1 - i ELSE i

\* Where the two slots of a raw match come from.
RawSource(n, m, slot) ==
  LET k == Rounds(n)
      r == m[2]
      i == m[3]
      j == r \div 2                                  \* major round 2j
  IN  CASE m[1] = "winner" /\ r = 1 -> seed_pairings(n, i, slot)
        [] m[1] = "winner" /\ r > 1 -> <<"winner", <<"winner", r - 1, 2 * i + slot - 1>>>>
        [] m[1] = "loser" /\ r = 1  -> <<"loser", <<"winner", 1, 2 * i + slot - 1>>>>
        [] m[1] = "loser" /\ r > 1 /\ r % 2 = 1 ->
              <<"winner", <<"loser", r - 1, 2 * i + slot - 1>>>>
        [] m[1] = "loser" /\ r % 2 = 0 ->
              IF slot = 1 THEN <<"winner", <<"loser", r - 1, i>>>>
                          ELSE <<"loser", <<"winner", j + 1, Drop(2^(k - j - 1), j, i)>>>>
        [] m = GF ->
              IF slot = 1 THEN <<"winner", <<"winner", k, 0>>>>
              ELSE IF k = 1 THEN <<"loser", <<"winner", 1, 0>>>>
              ELSE <<"winner", <<"loser", 2 * (k - 1), 0>>>>

\* What a match of sources a and b that is not played hands on: its only real
\* participant, if any, as the winner, and a bye as the loser.
HandsOn(side, a, b) == IF side = "loser" THEN Bye ELSE IF a # Bye THEN a ELSE b

\* What a raw match hands on after pruning, itself if it is played.
Outputs(n, double) ==
  LET out[s \in {"winner", "loser"} \X RawMatches(n, double)] ==
        LET resolve(slot) == LET raw == RawSource(n, s[2], slot)
                             IN  IF raw[1] \in {"team", "bye"} THEN raw ELSE out[raw]
            a == resolve(1)
            b == resolve(2)
        IN  IF a # Bye /\ b # Bye THEN s
            ELSE HandsOn(s[1], a, b)
  IN  out

\* The pruned bracket: the matches that are played, the teams known up front and
\* the links, <<side, match, next match, slot>>: where the winner or loser of a
\* match goes.  The reset final is always created; nothing but the grand final
\* leads to it, and that link has no slot, so it is not in the set.
elimination_blueprint(n, double) ==
  LET out == Outputs(n, double)
      resolve(m, slot) == LET raw == RawSource(n, m, slot)
                          IN  IF raw[1] \in {"team", "bye"} THEN raw ELSE out[raw]
      played == {m \in RawMatches(n, double) : resolve(m, 1) # Bye /\ resolve(m, 2) # Bye}
      inputs == {<<resolve(m, slot), m, slot>> : m \in played, slot \in {1, 2}}
  IN  [matches |-> IF double THEN played \cup {GF2} ELSE played,
       teams |-> {<<i[1][2], i[2], i[3]>> : i \in {j \in inputs : j[1][1] = "team"}},
       links |-> {<<i[1][1], i[1][2], i[2], i[3]>> : i \in {j \in inputs : j[1][1] # "team"}}]

\* The wave of a match, the earliest in which it can be played: after every match
\* that feeds it.
depth(tree) ==
  LET level[m \in tree.matches] ==
        LET origins == IF m = GF2 THEN {GF} ELSE {l[2] : l \in {k \in tree.links : k[3] = m}}
            waves == {level[o] + 1 : o \in origins} \cup {0}
        IN  CHOOSE w \in waves : \A v \in waves : v <= w
  IN  level

\* What a blueprint of n teams is, as far as playing it goes.  The keys: winner and
\* loser rounds, and in a double elimination the finals.
Keyed(tree, n, double) ==
  /\ n \in Nat /\ n >= 2 /\ IsFiniteSet(tree.matches)
  /\ GF # GF2 /\ {GF, GF2} \cap tree.matches = IF double THEN {GF, GF2} ELSE {}
  /\ \A m \in tree.matches \ {GF, GF2} :
       m[2] \in Nat /\ m[1] \in IF double THEN {"winner", "loser"} ELSE {"winner"}
  /\ tree.teams \subseteq (1 .. n) \X tree.matches \X {1, 2}
  /\ tree.links \subseteq {"winner", "loser"} \X tree.matches \X tree.matches \X {1, 2}

\* Every team starts in one slot, a side of a match moves to one, and every slot, the
\* reset final's apart, has one source.
OneSource(tree, n) ==
  /\ \A t \in 1 .. n : \E x \in tree.teams : x[1] = t
  /\ \A x, y \in tree.teams : x[1] = y[1] \/ <<x[2], x[3]>> = <<y[2], y[3]>> => x = y
  /\ \A l, k \in tree.links :
       <<l[1], l[2]>> = <<k[1], k[2]>> \/ <<l[3], l[4]>> = <<k[3], k[4]>> => l = k
  /\ \A x \in tree.teams : x[2] # GF2 /\ \A l \in tree.links : <<x[2], x[3]>> # <<l[3], l[4]>>
  /\ \A m \in tree.matches \ {GF2}, p \in {1, 2} :
       \/ \E x \in tree.teams : <<x[2], x[3]>> = <<m, p>>
       \/ \E l \in tree.links : <<l[3], l[4]>> = <<m, p>>
  /\ LET level == depth(tree)
     IN  \A m \in tree.matches :
           level[m] \in Nat /\ \A l \in tree.links : l[3] = m => level[l[2]] < level[m]

\* How often the team of a slot has lost by then.
LossesAt(m, p) == IF m[1] = "winner" \/ <<m, p>> = <<GF, 1>> THEN 0 ELSE 1

\* In a double elimination the losers of winner rounds drop one level, everybody else
\* stays on theirs until the finals; a single one has a last round of one match.
SecondLoss(tree, double) ==
  /\ \A x \in tree.teams : x[2][1] = "winner"
  /\ \A l \in tree.links :
       /\ l[2] \notin {GF, GF2} /\ l[3] # GF2
       /\ LossesAt(l[3], l[4]) = IF l[1] = "loser" THEN 1 ELSE LossesAt(l[2], 1)
       /\ l[1] = "loser" => double /\ l[2][1] = "winner"
  /\ double => \A m \in tree.matches \ {GF, GF2}, side \in {"winner", "loser"} :
       side = "winner" \/ m[1] = "winner" => \E l \in tree.links : l[1] = side /\ l[2] = m
  /\ ~double => \E f \in tree.matches : \A m \in tree.matches :
       (m # f => m[2] < f[2]) /\ (m # f <=> \E l \in tree.links : l[2] = m)

WellFormed(tree, n, double) ==
  Keyed(tree, n, double) /\ OneSource(tree, n) /\ SecondLoss(tree, double)

\* The loser of a match without this link is out.
HasNextLoser(tree, m) == \E l \in tree.links : l[1] = "loser" /\ l[2] = m

\* Faulty variant: every loss knocks out.
EliminatingAll(tree) == {m \in tree.matches : m[1] # "final"}

\* The matches, finals apart, whose loser is out.
Eliminating(tree) == {m \in tree.matches : m[1] # "final" /\ ~HasNextLoser(tree, m)}

\* The order in which rounds knock teams out: loser rounds, then winner rounds.
Before(a, b) ==
  \/ a[1] = "loser" /\ b[1] = "winner"
  \/ a[1] = b[1] /\ a[2] <= b[2]

\* Faulty variant: the round of m itself is not counted.
CumulativeBefore(tree, m) == Cardinality({e \in Eliminating(tree) : ~Before(m, e)})

\* Teams knocked out up to and including the round of m.
Cumulative(tree, m) == Cardinality({e \in Eliminating(tree) : Before(e, m)})

\* Faulty variant: the grand final decides until the reset final is played.
DeciderEarly(tree, winner, winnerPosition) ==
  {m \in {GF, GF2} \cap tree.matches : winner[m] # 0 /\ (m = GF => winner[GF2] = 0)}

\* The completed match that decides the phase, if there is one: the grand final if
\* position 1 won it, else the reset final; the last match of a single elimination.
Decider(tree, winner, winnerPosition) ==
  IF GF \in tree.matches
  THEN {m \in {GF, GF2} : winner[m] # 0 /\ winner[GF] # 0 /\ (m = GF <=> winnerPosition[GF] = 1)}
  ELSE LET last == {m \in Eliminating(tree) : \A e \in Eliminating(tree) : e[2] <= m[2]}
       IN  {m \in last : Cardinality(last) = 1 /\ winner[m] # 0}

\* The placements known so far, as the set of <<team, place>> the code's dict
\* holds.  winner and loser give the team of a match, 0 if it is not completed.
elimination_placements(tree, n, winner, loser, winnerPosition) ==
  LET out     == {m \in Eliminating(tree) : loser[m] # 0}
      decider == Decider(tree, winner, winnerPosition)
  IN  {<<loser[m], n - Cumulative(tree, m) + 1>> : m \in out}
        \cup {<<winner[m], 1>> : m \in decider}
        \cup {<<loser[m], 2>> : m \in decider \cap {GF, GF2}}
============================================================================
