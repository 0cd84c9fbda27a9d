----------------------------- MODULE Knockout ------------------------------
(***************************************************************************)
(* What an elimination phase promises, without a bracket: teams of a field *)
(* play one match at a time, a loss costs a life, a team without lives is  *)
(* out, and two teams only meet if they have lost equally often or are the *)
(* last two left.  One life is a single elimination (phase type "final"),  *)
(* two lives a double elimination.                                         *)
(***************************************************************************)
EXTENDS Integers

CONSTANT Teams   \* every team there is, a finite set

VARIABLES field,   \* the teams of the phase
          lives,   \* losses that knock a team out
          losses   \* losses of every team

vars == <<field, lives, losses>>

Init == /\ field \in SUBSET Teams
        /\ \E s, t \in field : s # t
        /\ lives \in {1, 2}
        /\ losses = [t \in Teams |-> 0]

Alive(ls) == {t \in field : ls[t] < lives}

\* From the losses "before", team w beats team l.
Beats(before, w, l) ==
  /\ {w, l} \subseteq Alive(before)
  /\ w # l
  /\ before[w] = before[l] \/ Alive(before) = {w, l}
  /\ losses' = [t \in Teams |-> IF t = l THEN before[t] + 1 ELSE before[t]]
  /\ UNCHANGED <<field, lives>>

Lose(w, l) == Beats(losses, w, l)

Next == \E w, l \in Teams : Lose(w, l)

Spec == Init /\ [][Next]_vars

----------------------------------------------------------------------------
\* With corrections: the loss of w in its match against l is taken back and the match
\* decided anew, as if it had only now been played; or everything starts over.
Overturn(w, l) ==
  /\ losses[w] > 0
  /\ Beats([t \in Teams |-> IF t = w THEN losses[t] - 1 ELSE losses[t]], w, l)

Restart == losses' = [t \in Teams |-> 0] /\ UNCHANGED <<field, lives>>

CorrectedNext ==
  /\ losses' # losses
  /\ Restart \/ \E w, l \in Teams : Lose(w, l) \/ Overturn(w, l)

CorrectedSpec == Init /\ [][CorrectedNext]_vars
============================================================================
