-------------------------- MODULE BracketSchedule --------------------------
(***************************************************************************)
(* The rows generate_schedule stores for a blueprint: the constants of     *)
(* BracketPlay, read off a blueprint of BracketTree.  Its links become the *)
(* forward links of the matches.                                           *)
(***************************************************************************)
EXTENDS BracketTree

CONSTANT None   \* no team, no slot, no match

\* The slot to which the winner (loser) of every match moves.  The grand final's links
\* to the reset final have no slot; BracketPlay knows that match as ResetFinal.
NextSlot(tree, side) ==
  LET links == {l \in tree.links : l[1] = side}
  IN  [m \in tree.matches |-> IF \E l \in links : l[2] = m
                              THEN LET l == CHOOSE x \in links : x[2] = m IN <<l[3], l[4]>>
                              ELSE None]

\* The team that sits in every slot from the start.
Participants(tree) ==
  [s \in tree.matches \X {1, 2} |->
     IF \E t \in tree.teams : <<t[2], t[3]>> = s
     THEN (CHOOSE t \in tree.teams : <<t[2], t[3]>> = s)[1] ELSE None]

\* Only one of the brackets knocks out, in the order of its rounds.
Stage(tree) == [m \in tree.matches |-> m[2]]

\* The wave of every match, as the blueprint numbers them.
Wave(tree) == LET d == depth(tree) IN [m \in tree.matches |-> d[m]]

\* The grand final (reset final) if the bracket has one.
Final(tree, key) == IF key \in tree.matches THEN key ELSE None
============================================================================
