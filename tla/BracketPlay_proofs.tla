------------------------ MODULE BracketPlay_proofs -------------------------
(***************************************************************************)
(* What BracketPlay keeps for every bracket that satisfies its             *)
(* assumptions, whatever its size.  The first part is about the matches,   *)
(* the second about the teams, where they are and how often they have      *)
(* lost: no team is lost or doubled by advancing and correcting, and a     *)
(* team has a place exactly if it has lost as often as the bracket allows. *)
(* So the phase, without overrides, implements Knockout with corrections.  *)
(***************************************************************************)
EXTENDS BracketPlay, FiniteSetTheorems, WellFoundedInduction, TLAPS

\* The strengthening of the invariants of BracketPlay: without overrides only the
\* reset final is ever cancelled, a match that is not completed has no winner, and
\* the teams placed up front stay where they are.
OnlyResetCancelled ==
  ~Override => \A m \in Matches : status[m] = "cancelled" => m = ResetFinal
NoWinnerWhileOpen ==
  ~Override => \A s \in Slots : status[s[1]] # "completed" => result[s] \in {"none", "replay"}
EntryKept ==
  ~Override => \A s \in Slots : entry[s] # None => seat[s] = entry[s]

IInv == /\ TypeOK
        /\ OneRowPerTeam
        /\ OnlyResetCancelled
        /\ NoWinnerWhileOpen
        /\ EntryKept
        /\ Advanced
        /\ ResetFollowsGrandFinal

----------------------------------------------------------------------------
\* Slots and links.

LEMMA SlotShape ==
  /\ \A s \in Slots : s = <<s[1], s[2]>> /\ s[1] \in Matches /\ s[2] \in {1, 2}
  /\ \A m \in Matches, p \in {1, 2} : <<m, p>> \in Slots
  /\ \A m \in Matches : <<m, 1>> \in Slots /\ <<m, 2>> \in Slots
BY DEF Slots

LEMMA OtherShape == \A p \in {1, 2} : Other(p) \in {1, 2} /\ Other(p) # p /\ Other(Other(p)) = p
BY DEF Other

\* The slot a link leads to: another match's, not the reset final's, empty at first.
LEMMA LinkShape ==
  ASSUME NEW m \in Matches, NEW s \in {winnerTo[m], loserTo[m]}, s # None
  PROVE  s \in Slots /\ s[1] \in Matches /\ s[1] # m /\ s[1] # ResetFinal /\ entry[s] = None
<1>1. s \in Slots
  BY Wiring
<1>2. s[1] \in Matches
  BY <1>1, SlotShape
<1>3. wave[m] < wave[s[1]] /\ wave[m] \in Nat
  BY <1>2, Wiring, HasSource
<1> QED BY <1>1, <1>2, <1>3, OneSource, FinalsAreLast

\* No two links lead to the same slot.
LEMMA LinksDiffer ==
  ASSUME NEW a \in Matches, NEW b \in Matches, a # b
  PROVE  /\ winnerTo[b] # None => winnerTo[b] \notin {winnerTo[a], loserTo[a]}
         /\ loserTo[b] # None => loserTo[b] \notin {winnerTo[a], loserTo[a]}
BY OneSource

\* The two links of a match differ.
LEMMA OwnLinksDiffer ==
  ASSUME NEW m \in Matches, winnerTo[m] # None
  PROVE  winnerTo[m] # loserTo[m]
BY OneSource

----------------------------------------------------------------------------
\* Initially nobody has moved.
LEMMA InitIInv == Init => IInv
<1> SUFFICES ASSUME Init PROVE IInv
  OBVIOUS
<1>1. TypeOK
  BY Wiring DEF Init, TypeOK, Status, PhaseStatus
<1>2. OneRowPerTeam
  <2> SUFFICES ASSUME NEW m \in Matches, seat[<<m, 1>>] = seat[<<m, 2>>], seat[<<m, 1>>] # None
               PROVE  FALSE
    BY DEF OneRowPerTeam
  <2>1. <<m, 1>> = <<m, 2>>
    BY SlotShape, OneSource DEF Init
  <2> QED BY <2>1
<1>3. OnlyResetCancelled /\ NoWinnerWhileOpen /\ EntryKept
  BY SlotShape DEF Init, OnlyResetCancelled, NoWinnerWhileOpen, EntryKept
<1>4. Advanced
  BY LinkShape DEF Init, Advanced
<1>5. ResetFollowsGrandFinal
  BY Wiring, FinalsAreLast DEF Init, ResetFollowsGrandFinal, Open
<1> QED BY <1>1, <1>2, <1>3, <1>4, <1>5 DEF IInv

----------------------------------------------------------------------------
\* Recording a result on a match that is not a final, first or corrected: the
\* winner and the loser end up where the links lead, nobody else moves, and no other
\* result appears.
OrdinaryStep(m, p) ==
  /\ MayMove(m)
  /\ status' = [status EXCEPT ![m] = "completed"]
  /\ seat' = [s \in Slots |-> IF s \in {winnerTo[m], loserTo[m]}
                             THEN IF s = winnerTo[m] THEN seat[<<m, p>>] ELSE seat[<<m, Other(p)>>]
                             ELSE seat[s]]
  /\ result' = [s \in Slots |-> IF s = <<m, p>> THEN "win"
                               ELSE IF s = <<m, Other(p)>> THEN "loss"
                               ELSE IF s \in {winnerTo[m], loserTo[m]} \/ seat'[s] = None THEN "none"
                               ELSE result[s]]

LEMMA RecordIsOrdinary ==
  ASSUME IInv, ~Override, NEW m \in Matches, NEW p \in {1, 2}, RecordMatch(m, p)
  PROVE  OrdinaryStep(m, p)
<1>1. m \in Matches \ Finals
  BY DEF RecordMatch
<1>2. status[m] # "completed"
  BY <1>1, OtherShape DEF IInv, Advanced, DecidedBy, RecordMatch, HasWinner
<1>3. \A s \in {winnerTo[m], loserTo[m]} \ {None} : seat[s] = None
  BY <1>1, <1>2 DEF IInv, Advanced
<1>4. Taken(seat, m) = {winnerTo[m], loserTo[m]} \ {None}
  BY <1>3 DEF Taken
<1>5. \A s \in Slots : s # None
  BY Wiring
<1>6. \A s \in Slots : s \in Taken(seat, m) <=> s \in {winnerTo[m], loserTo[m]}
  BY <1>4, <1>5
<1>7. seat' = [s \in Slots |-> IF s \in {winnerTo[m], loserTo[m]}
                             THEN IF s = winnerTo[m] THEN seat[<<m, p>>] ELSE seat[<<m, Other(p)>>]
                             ELSE seat[s]]
  BY <1>6 DEF RecordMatch, Moved
<1>8. result' = [s \in Slots |-> IF s = <<m, p>> THEN "win"
                               ELSE IF s = <<m, Other(p)>> THEN "loss"
                               ELSE IF s \in {winnerTo[m], loserTo[m]} \/ seat'[s] = None THEN "none"
                               ELSE result[s]]
  BY <1>6 DEF RecordMatch, Results
<1> QED BY <1>7, <1>8 DEF OrdinaryStep, RecordMatch

LEMMA CorrectIsOrdinary ==
  ASSUME IInv, ~Override, NEW m \in Matches, NEW p \in {1, 2}, CorrectMatch(m, p)
  PROVE  OrdinaryStep(m, p)
<1>1. m \in Matches \ Finals /\ status[m] = "completed" /\ result[<<m, p>>] # "win"
  BY DEF CorrectMatch, HasWinner
<1>2. DecidedBy(m, Other(p)) /\ ReachedNext(m, Other(p))
  <2>1. PICK q \in {1, 2} : DecidedBy(m, q) /\ ReachedNext(m, q)
    BY <1>1 DEF IInv, Advanced
  <2>2. q = Other(p)
    BY <1>1, <2>1 DEF DecidedBy, Other
  <2> QED BY <2>1, <2>2
<1>3. /\ winnerTo[m] # None => seat[winnerTo[m]] = seat[<<m, Other(p)>>]
      /\ loserTo[m] # None => seat[loserTo[m]] = seat[<<m, p>>]
      /\ seat[<<m, p>>] # None /\ seat[<<m, Other(p)>>] # None
  BY <1>2, OtherShape DEF ReachedNext, DecidedBy, Full, Other
<1>4. \A s, t \in Slots : s[1] = t[1] /\ seat[s] = seat[t] /\ seat[s] # None => s = t
  BY SlotShape DEF IInv, OneRowPerTeam
<1>5. \A s \in Slots : Cleared(m, p)[s] = IF s \in {winnerTo[m], loserTo[m]} THEN None ELSE seat[s]
  <2> SUFFICES ASSUME NEW s \in Slots
               PROVE  Cleared(m, p)[s] = IF s \in {winnerTo[m], loserTo[m]} THEN None ELSE seat[s]
    OBVIOUS
  <2>1. winnerTo[m] # None /\ s[1] = winnerTo[m][1] /\ seat[s] = seat[<<m, Other(p)>>] => s = winnerTo[m]
    BY <1>3, <1>4, LinkShape
  <2>2. loserTo[m] # None /\ s[1] = loserTo[m][1] /\ seat[s] = seat[<<m, p>>] => s = loserTo[m]
    BY <1>3, <1>4, LinkShape
  <2>3. s # None
    BY Wiring
  <2> QED BY <1>3, <2>1, <2>2, <2>3 DEF Cleared
<1>6. \A s \in Slots : s # None
  BY Wiring
<1>7. \A s \in Slots : s \in Taken(Cleared(m, p), m) <=> s \in {winnerTo[m], loserTo[m]}
  BY <1>5, <1>6 DEF Taken
<1>8. seat' = [s \in Slots |-> IF s \in {winnerTo[m], loserTo[m]}
                             THEN IF s = winnerTo[m] THEN seat[<<m, p>>] ELSE seat[<<m, Other(p)>>]
                             ELSE seat[s]]
  BY <1>5, <1>7 DEF CorrectMatch, Moved
<1>9. result' = [s \in Slots |-> IF s = <<m, p>> THEN "win"
                               ELSE IF s = <<m, Other(p)>> THEN "loss"
                               ELSE IF s \in {winnerTo[m], loserTo[m]} \/ seat'[s] = None THEN "none"
                               ELSE result[s]]
  BY <1>7 DEF CorrectMatch, Results
<1>10. status' = [status EXCEPT ![m] = "completed"]
  BY <1>1 DEF CorrectMatch, IInv, TypeOK
<1> QED BY <1>8, <1>9, <1>10 DEF OrdinaryStep, CorrectMatch

LEMMA OrdinaryKeeps ==
  ASSUME IInv, ~Override, NEW m \in Matches \ Finals, NEW p \in {1, 2},
         status[m] # "cancelled", Full(m), OrdinaryStep(m, p)
  PROVE  /\ OnlyResetCancelled' /\ NoWinnerWhileOpen' /\ EntryKept'
         /\ Advanced' /\ ResetFollowsGrandFinal'
<1> USE DEF IInv
<1> DEFINE Next2 == {winnerTo[m], loserTo[m]}
<1>1. /\ \A x \in Matches : status'[x] = IF x = m THEN "completed" ELSE status[x]
      /\ \A s \in Slots : s \notin Next2 => seat'[s] = seat[s]
      /\ \A s \in Slots : s \in Next2 =>
            seat'[s] = IF s = winnerTo[m] THEN seat[<<m, p>>] ELSE seat[<<m, Other(p)>>]
  BY DEF OrdinaryStep, TypeOK
<1>2. \A s \in Slots : s \in Next2 => s[1] # m /\ s[1] # ResetFinal /\ entry[s] = None
                                        /\ status[s[1]] # "completed"
  BY LinkShape, Wiring DEF OrdinaryStep, MayMove
<1>3. /\ result'[<<m, p>>] = "win" /\ result'[<<m, Other(p)>>] = "loss"
      /\ \A s \in Slots : s[1] # m => result'[s] \in {"none", result[s]}
      /\ \A s \in Slots : s[1] # m /\ s \notin Next2 /\ seat[s] # None => result'[s] = result[s]
  BY <1>1, SlotShape, OtherShape DEF OrdinaryStep
<1>4. OnlyResetCancelled'
  BY <1>1 DEF OnlyResetCancelled
<1>5. NoWinnerWhileOpen'
  BY <1>1, <1>3, SlotShape DEF NoWinnerWhileOpen
<1>6. EntryKept'
  BY <1>1, <1>2 DEF EntryKept
<1>7. Advanced'
  <2> SUFFICES ASSUME NEW x \in Matches \ Finals
               PROVE  IF status'[x] = "completed"
                      THEN \E q \in {1, 2} : DecidedBy(x, q)' /\ ReachedNext(x, q)'
                      ELSE \A s \in {winnerTo[x], loserTo[x]} \ {None} : seat'[s] = None
    BY DEF Advanced
  <2>1. CASE x = m
    <3>1. seat'[<<m, 1>>] = seat[<<m, 1>>] /\ seat'[<<m, 2>>] = seat[<<m, 2>>]
      BY <1>1, <1>2, SlotShape
    <3>2. DecidedBy(m, p)'
      BY <1>3, <3>1 DEF DecidedBy, Full
    <3>3. seat'[<<m, p>>] = seat[<<m, p>>] /\ seat'[<<m, Other(p)>>] = seat[<<m, Other(p)>>]
      BY <3>1, OtherShape
    <3>4. ReachedNext(m, p)'
      BY <1>1, <3>3, LinkShape, OwnLinksDiffer DEF ReachedNext
    <3> QED BY <1>1, <2>1, <3>2, <3>4
  <2>2. CASE x # m /\ status[x] = "completed"
    <3>1. PICK q \in {1, 2} : DecidedBy(x, q) /\ ReachedNext(x, q)
      BY <2>2 DEF Advanced
    <3>2. \A r \in {1, 2} : seat'[<<x, r>>] = seat[<<x, r>>] /\ seat[<<x, r>>] # None
                            /\ result'[<<x, r>>] = result[<<x, r>>]
      BY <1>1, <1>2, <1>3, <2>2, <3>1, SlotShape DEF DecidedBy, Full
    <3>3. DecidedBy(x, q)'
      BY <3>1, <3>2, OtherShape DEF DecidedBy, Full
    <3>4. ReachedNext(x, q)'
      <4>1. winnerTo[x] # None => seat'[winnerTo[x]] = seat[winnerTo[x]]
        BY <1>1, <2>2, LinksDiffer, LinkShape
      <4>2. loserTo[x] # None => seat'[loserTo[x]] = seat[loserTo[x]]
        BY <1>1, <2>2, LinksDiffer, LinkShape
      <4> QED BY <3>1, <3>2, <4>1, <4>2, OtherShape DEF ReachedNext
    <3> QED BY <1>1, <2>2, <3>3, <3>4
  <2>3. CASE x # m /\ status[x] # "completed"
    <3>1. \A s \in {winnerTo[x], loserTo[x]} \ {None} : seat[s] = None
      BY <2>3 DEF Advanced
    <3>2. \A s \in {winnerTo[x], loserTo[x]} \ {None} : s \notin Next2 /\ s \in Slots
      BY <2>3, LinksDiffer, LinkShape
    <3> QED BY <1>1, <2>3, <3>1, <3>2
  <2> QED BY <2>1, <2>2, <2>3
<1>8. ResetFollowsGrandFinal'
  <2> SUFFICES ASSUME GrandFinal # None
               PROVE  ResetFollowsGrandFinal'
    BY DEF ResetFollowsGrandFinal
  <2>1. GrandFinal \in Matches /\ ResetFinal \in Matches /\ m # GrandFinal /\ m # ResetFinal
    BY Wiring DEF Finals
  <2>2. status'[GrandFinal] = status[GrandFinal] /\ status'[ResetFinal] = status[ResetFinal]
    BY <1>1, <2>1
  <2>3. \A q \in {1, 2} : seat'[<<ResetFinal, q>>] = seat[<<ResetFinal, q>>]
    BY <1>1, <1>2, <2>1, SlotShape
  <2>4. CASE status[GrandFinal] # "completed"
    BY <2>2, <2>3, <2>4 DEF ResetFollowsGrandFinal
  <2>5. CASE status[GrandFinal] = "completed"
    <3>1. Full(GrandFinal)
      BY <2>5 DEF ResetFollowsGrandFinal, DecidedBy
    <3>2. \A q \in {1, 2} : /\ seat'[<<GrandFinal, q>>] = seat[<<GrandFinal, q>>]
                            /\ result'[<<GrandFinal, q>>] = result[<<GrandFinal, q>>]
      BY <1>1, <1>2, <1>3, <2>1, <2>5, <3>1, SlotShape DEF Full
    <3>3. \A q \in {1, 2} : DecidedBy(GrandFinal, q) => DecidedBy(GrandFinal, q)'
      BY <3>2, OtherShape DEF DecidedBy, Full
    <3> QED BY <2>2, <2>3, <2>5, <3>2, <3>3 DEF ResetFollowsGrandFinal
  <2> QED BY <2>4, <2>5
<1> QED BY <1>4, <1>5, <1>6, <1>7, <1>8

----------------------------------------------------------------------------
\* Recording the finals.

\* What a result of a final changes: its own results, and the rows of the reset
\* final.
LEMMA FinalsKeep ==
  ASSUME IInv, ~Override, GrandFinal # None, NEW f \in Finals, NEW p \in {1, 2},
         status[f] # "cancelled", Full(f),
         \A m \in Matches \ Finals : status'[m] = status[m],
         status'[f] = "completed",
         \A s \in Slots : s[1] # ResetFinal => seat'[s] = seat[s],
         \A s \in Slots : s[1] \notin Finals /\ seat'[s] # None => result'[s] = result[s],
         \A s \in Slots : s[1] \notin Finals /\ seat'[s] = None => result'[s] = "none",
         \A s \in Slots : s[1] = ResetFinal /\ f # ResetFinal => result'[s] \in {"none", result[s]},
         \A s \in Slots : s[1] = GrandFinal /\ f # GrandFinal => result'[s] = result[s],
         f # GrandFinal => status'[GrandFinal] = status[GrandFinal] /\ status[GrandFinal] = "completed",
         f = GrandFinal => status[ResetFinal] # "completed"
  PROVE  OnlyResetCancelled' /\ NoWinnerWhileOpen' /\ EntryKept' /\ Advanced'
<1> USE DEF IInv
<1>1. GrandFinal \in Matches /\ ResetFinal \in Matches /\ GrandFinal # ResetFinal
  BY Wiring
<1>2. OnlyResetCancelled'
  BY <1>1 DEF OnlyResetCancelled, Finals
<1>3. NoWinnerWhileOpen'
  <2> SUFFICES ASSUME NEW s \in Slots, status'[s[1]] # "completed"
               PROVE  result'[s] \in {"none", "replay"}
    BY DEF NoWinnerWhileOpen
  <2>1. CASE s[1] \notin Finals
    BY <2>1, SlotShape DEF NoWinnerWhileOpen
  <2>2. CASE s[1] = GrandFinal
    BY <2>2 DEF Finals
  <2>3. CASE s[1] = ResetFinal
    <3>1. f = GrandFinal
      BY <2>3 DEF Finals
    <3> QED BY <1>1, <2>3, <3>1 DEF NoWinnerWhileOpen
  <2> QED BY <2>1, <2>2, <2>3 DEF Finals
<1>4. EntryKept'
  BY <1>1, SlotShape, FinalsAreLast, Wiring DEF EntryKept
<1>5. Advanced'
  <2> SUFFICES ASSUME NEW m \in Matches \ Finals
               PROVE  IF status'[m] = "completed"
                      THEN \E q \in {1, 2} : DecidedBy(m, q)' /\ ReachedNext(m, q)'
                      ELSE \A s \in {winnerTo[m], loserTo[m]} \ {None} : seat'[s] = None
    BY DEF Advanced
  <2>1. \A s \in {winnerTo[m], loserTo[m]} \ {None} : seat'[s] = seat[s]
    BY LinkShape
  <2>2. CASE status[m] = "completed"
    <3>1. PICK q \in {1, 2} : DecidedBy(m, q) /\ ReachedNext(m, q)
      BY <2>2 DEF Advanced
    <3>2. \A r \in {1, 2} : seat'[<<m, r>>] = seat[<<m, r>>] /\ seat[<<m, r>>] # None
                            /\ result'[<<m, r>>] = result[<<m, r>>]
      BY <3>1, SlotShape DEF DecidedBy, Full, Finals
    <3>3. DecidedBy(m, q)'
      BY <3>1, <3>2, OtherShape DEF DecidedBy, Full
    <3>4. ReachedNext(m, q)'
      BY <2>1, <3>1, <3>2, OtherShape DEF ReachedNext
    <3> QED BY <2>2, <3>3, <3>4
  <2>3. CASE status[m] # "completed"
    BY <2>1, <2>3 DEF Advanced
  <2> QED BY <2>2, <2>3
<1> QED BY <1>2, <1>3, <1>4, <1>5

\* The grand final: recorded first or corrected, it leaves the reset final cancelled
\* and empty, or open and filled.
LEMMA GrandFinalStep ==
  ASSUME IInv, ~Override, GrandFinal # None, NEW p \in {1, 2},
         status[GrandFinal] # "cancelled", Full(GrandFinal),
         RecordGrandFinal(p) \/ CorrectGrandFinal(p)
  PROVE  /\ status[ResetFinal] # "completed"
         /\ status'[GrandFinal] = "completed"
         /\ \A m \in Matches \ Finals : status'[m] = status[m]
         /\ status'[ResetFinal] \in IF p = 1 THEN {"cancelled"} ELSE Open
         /\ \A s \in Slots : s[1] # ResetFinal => seat'[s] = seat[s]
         /\ p = 1 => seat'[<<ResetFinal, 1>>] = None /\ seat'[<<ResetFinal, 2>>] = None
         /\ p = 2 => /\ seat'[<<ResetFinal, 1>>] = seat[<<GrandFinal, 1>>]
                     /\ seat'[<<ResetFinal, 2>>] = seat[<<GrandFinal, 2>>]
         /\ result'[<<GrandFinal, p>>] = "win" /\ result'[<<GrandFinal, Other(p)>>] = "loss"
         /\ \A s \in Slots : s[1] \notin Finals /\ seat'[s] # None => result'[s] = result[s]
         /\ \A s \in Slots : s[1] \notin Finals /\ seat'[s] = None => result'[s] = "none"
         /\ \A s \in Slots : s[1] = ResetFinal => result'[s] \in {"none", result[s]}
<1> USE DEF IInv
<1> DEFINE Reset(q) == <<ResetFinal, q>>
<1>1. /\ GrandFinal \in Matches /\ ResetFinal \in Matches /\ GrandFinal # ResetFinal
      /\ GrandFinal \in Finals /\ ResetFinal \in Finals
      /\ \A s \in Slots : s[1] = ResetFinal => s \in {Reset(1), Reset(2)}
      /\ \A q \in {1, 2} : Reset(q) \in Slots /\ <<GrandFinal, q>> \in Slots
      /\ \A q \in {1, 2} : Reset(q)[1] = ResetFinal /\ Reset(q)[2] = q
  BY Wiring, SlotShape DEF Finals
<1>2. /\ status[ResetFinal] # "completed"
      /\ RecordGrandFinal(p) => seat[Reset(1)] = None /\ seat[Reset(2)] = None
                                /\ status[ResetFinal] \in Open
  <2>1. CASE RecordGrandFinal(p)
    <3>1. status[GrandFinal] # "completed"
      BY <2>1, OtherShape DEF RecordGrandFinal, HasWinner, ResetFollowsGrandFinal, DecidedBy
    <3> QED BY <1>1, <2>1, <3>1 DEF ResetFollowsGrandFinal, Open
  <2>2. CASE ~RecordGrandFinal(p)
    BY <2>2 DEF CorrectGrandFinal
  <2> QED BY <2>1, <2>2
<1>3. /\ status'[GrandFinal] = "completed"
      /\ \A m \in Matches \ Finals : status'[m] = status[m]
      /\ status'[ResetFinal] \in IF p = 1 THEN {"cancelled"} ELSE Open
  BY <1>1, <1>2 DEF RecordGrandFinal, CorrectGrandFinal, HasWinner, TypeOK, Finals, Open
<1>4. /\ \A s \in Slots : s[1] # ResetFinal => seat'[s] = seat[s]
      /\ p = 1 => seat'[Reset(1)] = None /\ seat'[Reset(2)] = None
      /\ p = 2 => seat'[Reset(1)] = seat[<<GrandFinal, 1>>] /\ seat'[Reset(2)] = seat[<<GrandFinal, 2>>]
  <2>1. CASE RecordGrandFinal(p)
    <3>1. TakenInReset(seat) = {Reset(1), Reset(2)}
      BY <1>1, <1>2, <2>1 DEF TakenInReset
    <3>2. \A s \in Slots : ResetFilled(seat)[s] =
            IF s[1] = ResetFinal THEN seat[<<GrandFinal, s[2]>>] ELSE seat[s]
      BY <1>1, <3>1 DEF ResetFilled
    <3>3. p = 1 => seat' = seat
      BY <2>1 DEF RecordGrandFinal
    <3>4. p = 2 => seat' = ResetFilled(seat)
      BY <2>1 DEF RecordGrandFinal
    <3> QED BY <1>1, <1>2, <2>1, <3>2, <3>3, <3>4
  <2>2. CASE CorrectGrandFinal(p)
    <3>1. \A s \in Slots : ResetCleared[s] = IF s[1] = ResetFinal THEN None ELSE seat[s]
      BY DEF ResetCleared
    <3>2. TakenInReset(ResetCleared) = {Reset(1), Reset(2)}
      BY <1>1, <3>1 DEF TakenInReset
    <3>3. \A s \in Slots : ResetFilled(ResetCleared)[s] =
            IF s[1] = ResetFinal THEN seat[<<GrandFinal, s[2]>>] ELSE seat[s]
      BY <1>1, <3>1, <3>2 DEF ResetFilled
    <3>4. /\ p = 1 => seat' = ResetCleared
          /\ p = 2 => seat' = ResetFilled(ResetCleared)
      BY <2>2 DEF CorrectGrandFinal
    <3>5. CASE p = 1
      BY <1>1, <3>1, <3>4, <3>5
    <3>6. CASE p = 2
      <4>1. /\ ResetFilled(ResetCleared)[Reset(1)] = seat[<<GrandFinal, 1>>]
            /\ ResetFilled(ResetCleared)[Reset(2)] = seat[<<GrandFinal, 2>>]
        BY <1>1, <3>3
      <4>2. seat' = ResetFilled(ResetCleared)
        BY <3>4, <3>6
      <4>3. \A s \in Slots : s[1] # ResetFinal => seat'[s] = seat[s]
        BY <3>3, <4>2
      <4>4. seat'[Reset(1)] = seat[<<GrandFinal, 1>>] /\ seat'[Reset(2)] = seat[<<GrandFinal, 2>>]
        BY <4>1, <4>2
      <4> QED BY <3>6, <4>3, <4>4
    <3> QED BY <3>5, <3>6
  <2> QED BY <2>1, <2>2
<1>5. \E taken : /\ taken \subseteq {Reset(1), Reset(2)}
                /\ result' = Results(GrandFinal, p, taken)
  BY <1>1 DEF RecordGrandFinal, CorrectGrandFinal, TakenInReset
<1>6. /\ result'[<<GrandFinal, p>>] = "win" /\ result'[<<GrandFinal, Other(p)>>] = "loss"
      /\ \A s \in Slots : s[1] \notin Finals /\ seat'[s] # None => result'[s] = result[s]
      /\ \A s \in Slots : s[1] \notin Finals /\ seat'[s] = None => result'[s] = "none"
      /\ \A s \in Slots : s[1] = ResetFinal => result'[s] \in {"none", result[s]}
  BY <1>1, <1>5, OtherShape DEF Results
<1> QED BY <1>2, <1>3, <1>4, <1>6

LEMMA GrandFinalKeeps ==
  ASSUME IInv, ~Override, GrandFinal # None, NEW p \in {1, 2},
         status[GrandFinal] # "cancelled", Full(GrandFinal),
         RecordGrandFinal(p) \/ CorrectGrandFinal(p)
  PROVE  /\ OnlyResetCancelled' /\ NoWinnerWhileOpen' /\ EntryKept'
         /\ Advanced' /\ ResetFollowsGrandFinal'
<1>1. /\ GrandFinal \in Matches /\ ResetFinal \in Matches /\ GrandFinal # ResetFinal
      /\ GrandFinal \in Finals /\ ResetFinal \in Finals
      /\ \A q \in {1, 2} : <<ResetFinal, q>> \in Slots /\ <<GrandFinal, q>> \in Slots
  BY Wiring, SlotShape DEF Finals
<1>2. /\ status[ResetFinal] # "completed"
      /\ status'[GrandFinal] = "completed"
      /\ \A m \in Matches \ Finals : status'[m] = status[m]
      /\ status'[ResetFinal] \in IF p = 1 THEN {"cancelled"} ELSE Open
  BY GrandFinalStep
<1>3. /\ \A s \in Slots : s[1] # ResetFinal => seat'[s] = seat[s]
      /\ p = 1 => seat'[<<ResetFinal, 1>>] = None /\ seat'[<<ResetFinal, 2>>] = None
      /\ p = 2 => /\ seat'[<<ResetFinal, 1>>] = seat[<<GrandFinal, 1>>]
                  /\ seat'[<<ResetFinal, 2>>] = seat[<<GrandFinal, 2>>]
  BY GrandFinalStep
<1>4. /\ result'[<<GrandFinal, p>>] = "win" /\ result'[<<GrandFinal, Other(p)>>] = "loss"
      /\ \A s \in Slots : s[1] \notin Finals /\ seat'[s] # None => result'[s] = result[s]
      /\ \A s \in Slots : s[1] \notin Finals /\ seat'[s] = None => result'[s] = "none"
      /\ \A s \in Slots : s[1] = ResetFinal => result'[s] \in {"none", result[s]}
  BY GrandFinalStep
<1>5. DecidedBy(GrandFinal, p)'
  BY <1>1, <1>3, <1>4 DEF DecidedBy, Full
<1>6. ResetFollowsGrandFinal'
  BY <1>1, <1>2, <1>3, <1>5 DEF ResetFollowsGrandFinal, Open
<1>7. \A s \in Slots : s[1] = GrandFinal /\ GrandFinal # GrandFinal => result'[s] = result[s]
  OBVIOUS
<1>8. OnlyResetCancelled' /\ NoWinnerWhileOpen' /\ EntryKept' /\ Advanced'
  BY <1>1, <1>2, <1>3, <1>4, <1>7, FinalsKeep
<1> QED BY <1>6, <1>8

\* The reset final: nothing moves.
LEMMA ResetFinalKeeps ==
  ASSUME IInv, ~Override, ResetFinal # None, NEW p \in {1, 2},
         status[ResetFinal] # "cancelled", Full(ResetFinal), RecordResetFinal(p)
  PROVE  /\ OnlyResetCancelled' /\ NoWinnerWhileOpen' /\ EntryKept'
         /\ Advanced' /\ ResetFollowsGrandFinal'
<1> USE DEF IInv
<1>1. /\ GrandFinal # None /\ GrandFinal \in Matches /\ ResetFinal \in Matches
      /\ GrandFinal # ResetFinal /\ ResetFinal \in Finals
      /\ \A q \in {1, 2} : <<ResetFinal, q>> \in Slots /\ <<GrandFinal, q>> \in Slots
  BY Wiring, SlotShape DEF Finals
<1>2. /\ status[GrandFinal] = "completed" /\ DecidedBy(GrandFinal, 2)
      /\ \A q \in {1, 2} : seat[<<ResetFinal, q>>] = seat[<<GrandFinal, q>>]
  BY <1>1 DEF ResetFollowsGrandFinal, Full
<1>3. /\ seat' = seat
      /\ \A m \in Matches : status'[m] = IF m = ResetFinal THEN "completed" ELSE status[m]
  BY DEF RecordResetFinal, TypeOK
<1>4. /\ \A s \in Slots : s[1] # ResetFinal /\ seat'[s] # None => result'[s] = result[s]
      /\ \A s \in Slots : s[1] # ResetFinal /\ seat'[s] = None => result'[s] = "none"
      /\ \A s \in Slots : seat'[s] = None => result[s] = "none"
  BY <1>3, SlotShape DEF RecordResetFinal, Results, TypeOK
<1>5. DecidedBy(GrandFinal, 2)'
  BY <1>1, <1>2, <1>3, <1>4, OtherShape DEF DecidedBy, Full
<1>6. ResetFollowsGrandFinal'
  BY <1>1, <1>2, <1>3, <1>5 DEF ResetFollowsGrandFinal
<1>7. \A s \in Slots : s[1] # ResetFinal => result'[s] = result[s]
  BY <1>4
<1> QED BY <1>1, <1>2, <1>3, <1>4, <1>6, <1>7, FinalsKeep DEF Finals

----------------------------------------------------------------------------
\* Types, overrides or not.

\* The rows Results leaves are in range if the two teams keep their slots.
LEMMA ResultsTyped ==
  ASSUME TypeOK, NEW m \in Matches, NEW p \in {1, 2}, NEW taken,
         seat'[<<m, 1>>] # None, seat'[<<m, 2>>] # None, result' = Results(m, p, taken)
  PROVE  /\ result' \in [Slots -> {"none", "win", "loss", "replay"}]
         /\ \A s \in Slots : seat'[s] = None => result'[s] = "none"
<1>1. \A s \in Slots : s = <<m, p>> \/ s = <<m, Other(p)>> => seat'[s] # None
  BY DEF Other
<1> QED BY <1>1 DEF Results, TypeOK

LEMMA MovedTyped ==
  ASSUME TypeOK, NEW m \in Matches, NEW p \in {1, 2},
         NEW st \in [Slots -> Teams \cup {None}]
  PROVE  /\ Moved(st, m, p) \in [Slots -> Teams \cup {None}]
         /\ \A q \in {1, 2} : Moved(st, m, p)[<<m, q>>] = st[<<m, q>>]
<1>1. <<m, p>> \in Slots /\ <<m, Other(p)>> \in Slots
  BY SlotShape, OtherShape
<1>2. Moved(st, m, p) \in [Slots -> Teams \cup {None}]
  BY <1>1 DEF Moved, TypeOK
<1>3. \A q \in {1, 2} : <<m, q>> \in Slots /\ <<m, q>> \notin Taken(st, m)
  BY SlotShape, LinkShape DEF Taken
<1> QED BY <1>2, <1>3 DEF Moved

LEMMA RecordTyped ==
  ASSUME TypeOK, NEW m \in Matches, NEW p \in {1, 2}, RecordResult(m, p)
  PROVE  TypeOK'
<1>1. phase' \in PhaseStatus
  BY DEF RecordResult, Sync, TypeOK, PhaseStatus
<1>2. Full(m) /\ <<m, 1>> \in Slots /\ <<m, 2>> \in Slots /\ m \in {<<m, 1>>[1], <<m, 2>>[1]}
  BY SlotShape DEF RecordResult
<1> DEFINE Rest == /\ status' \in [Matches -> Status]
                   /\ seat' \in [Slots -> Teams \cup {None}]
                   /\ result' \in [Slots -> {"none", "win", "loss", "replay"}]
                   /\ \A s \in Slots : seat'[s] = None => result'[s] = "none"
<1> SUFFICES Rest
  BY <1>1 DEF TypeOK
<1>3. CASE RecordMatch(m, p)
  <2>1. seat' = Moved(seat, m, p) /\ result' = Results(m, p, Taken(seat, m))
    BY <1>3 DEF RecordMatch
  <2>2. seat' \in [Slots -> Teams \cup {None}] /\ seat'[<<m, 1>>] # None /\ seat'[<<m, 2>>] # None
    BY <1>2, <2>1, MovedTyped DEF TypeOK, Full
  <2>3. status' \in [Matches -> Status]
    BY <1>3 DEF RecordMatch, TypeOK, Status
  <2> QED BY <2>1, <2>2, <2>3, ResultsTyped
<1>4. CASE CorrectMatch(m, p)
  <2>1. /\ seat' = Moved(Cleared(m, p), m, p)
        /\ result' = Results(m, p, Taken(Cleared(m, p), m))
    BY <1>4 DEF CorrectMatch
  <2>2. Cleared(m, p) \in [Slots -> Teams \cup {None}]
    BY DEF Cleared, TypeOK
  <2>3. \A q \in {1, 2} : Cleared(m, p)[<<m, q>>] = seat[<<m, q>>]
    BY <1>2, LinkShape, SlotShape DEF Cleared
  <2>4. seat' \in [Slots -> Teams \cup {None}] /\ seat'[<<m, 1>>] # None /\ seat'[<<m, 2>>] # None
    BY <1>2, <2>1, <2>2, <2>3, MovedTyped DEF Full
  <2>5. status' \in [Matches -> Status]
    BY <1>4 DEF CorrectMatch, TypeOK
  <2> QED BY <2>1, <2>4, <2>5, ResultsTyped
<1>5. CASE m = GrandFinal /\ (RecordGrandFinal(p) \/ CorrectGrandFinal(p))
  <2>1. m # ResetFinal /\ \A q \in {1, 2} : <<m, q>>[1] # ResetFinal
    BY <1>5, Wiring
  <2>2. /\ ResetCleared \in [Slots -> Teams \cup {None}]
        /\ \A q \in {1, 2} : ResetCleared[<<m, q>>] = seat[<<m, q>>]
    BY <1>2, <2>1 DEF ResetCleared, TypeOK
  <2>3. ASSUME NEW st \in [Slots -> Teams \cup {None}]
        PROVE  /\ ResetFilled(st) \in [Slots -> Teams \cup {None}]
               /\ \A q \in {1, 2} : ResetFilled(st)[<<m, q>>] = st[<<m, q>>]
    <3>1. \A s \in Slots : seat[<<GrandFinal, s[2]>>] \in Teams \cup {None}
      BY <1>5, SlotShape DEF TypeOK
    <3>2. \A q \in {1, 2} : <<m, q>> \notin TakenInReset(st)
      BY <2>1 DEF TakenInReset
    <3> QED BY <1>2, <3>1, <3>2 DEF ResetFilled
  <2>4. seat' \in {seat, ResetFilled(seat), ResetCleared, ResetFilled(ResetCleared)}
    BY <1>5 DEF RecordGrandFinal, CorrectGrandFinal
  <2>5. seat' \in [Slots -> Teams \cup {None}]
    BY <2>2, <2>3, <2>4 DEF TypeOK
  <2>6. seat'[<<m, 1>>] # None /\ seat'[<<m, 2>>] # None
    BY <1>2, <2>2, <2>3, <2>4 DEF Full, TypeOK
  <2>7. \E taken : result' = Results(m, p, taken)
    BY <1>5 DEF RecordGrandFinal, CorrectGrandFinal
  <2>8. status' \in [Matches -> Status]
    BY <1>5 DEF RecordGrandFinal, CorrectGrandFinal, TypeOK, Status
  <2> QED BY <2>5, <2>6, <2>7, <2>8, ResultsTyped
<1>6. CASE RecordResetFinal(p) /\ m = ResetFinal
  <2>1. seat' = seat /\ result' = Results(m, p, {}) /\ status' \in [Matches -> Status]
    BY <1>6 DEF RecordResetFinal, TypeOK, Status
  <2> QED BY <1>2, <2>1, ResultsTyped DEF Full, TypeOK
<1>7. CASE RecordSame(m, p)
  BY <1>7 DEF RecordSame, TypeOK
<1> HIDE DEF Rest
<1> QED BY <1>3, <1>4, <1>5, <1>6, <1>7 DEF RecordResult

LEMMA NextTyped == TypeOK /\ [Next]_vars => TypeOK'
<1> SUFFICES ASSUME TypeOK, [Next]_vars PROVE TypeOK'
  OBVIOUS
<1>1. ASSUME NEW m \in Matches, NEW p \in {1, 2}, RecordResult(m, p) PROVE TypeOK'
  BY <1>1, RecordTyped
<1>2. ASSUME NEW m \in Matches, Replay(m) PROVE TypeOK'
  <2>1. \A s \in Slots : s \in {<<m, 1>>, <<m, 2>>} => seat[s] # None
    BY <1>2 DEF Replay, Full
  <2>2. <<m, 1>> # <<m, 2>> /\ <<m, 1>> \in Slots /\ <<m, 2>> \in Slots
    BY SlotShape
  <2>3. \A s \in Slots : result'[s] = IF s \in {<<m, 1>>, <<m, 2>>} THEN "replay" ELSE result[s]
    BY <1>2, <2>2 DEF Replay, TypeOK
  <2> QED BY <1>2, <2>1, <2>3 DEF Replay, TypeOK
<1>3. ASSUME NEW m \in Matches, NEW st \in Status, EditMatch(m, st) PROVE TypeOK'
  BY <1>3 DEF EditMatch, TypeOK
<1>4. ASSUME NEW st \in PhaseStatus, EditPhase(st) PROVE TypeOK'
  BY <1>4 DEF EditPhase, TypeOK
<1>5. CASE Regenerate
  BY <1>5, Wiring DEF Regenerate, TypeOK, Status, PhaseStatus
<1>6. CASE UNCHANGED vars
  BY <1>6 DEF vars, TypeOK
<1> QED BY <1>1, <1>2, <1>3, <1>4, <1>5, <1>6 DEF Next

\* Every reachable state is in range (BracketPlay's TypeOK), for every bracket.
THEOREM TypeCorrect == Spec => []TypeOK
<1>1. Init => TypeOK
  BY Wiring DEF Init, TypeOK, Status, PhaseStatus
<1> QED BY <1>1, NextTyped, PTL DEF Spec

----------------------------------------------------------------------------
\* The strengthened invariant is inductive.

\* Nothing in IInv but the types depends on phase or deRank.
LEMMA SameRowsKeep ==
  ASSUME IInv, UNCHANGED <<status, seat, result>>
  PROVE  /\ OneRowPerTeam' /\ OnlyResetCancelled' /\ NoWinnerWhileOpen' /\ EntryKept'
         /\ Advanced' /\ ResetFollowsGrandFinal'
BY DEF IInv, OneRowPerTeam, OnlyResetCancelled, NoWinnerWhileOpen, EntryKept, Advanced,
       ResetFollowsGrandFinal, DecidedBy, ReachedNext, Full

\* With overrides IInv promises the types and one row per team and match only.
LEMMA OverrideTrivial ==
  Override => /\ OnlyResetCancelled' /\ NoWinnerWhileOpen' /\ EntryKept'
              /\ Advanced' /\ ResetFollowsGrandFinal'
BY DEF OnlyResetCancelled, NoWinnerWhileOpen, EntryKept, Advanced, ResetFollowsGrandFinal

LEMMA RecordKeeps ==
  ASSUME IInv, NEW m \in Matches, NEW p \in {1, 2}, RecordResult(m, p)
  PROVE  /\ OneRowPerTeam' /\ OnlyResetCancelled' /\ NoWinnerWhileOpen' /\ EntryKept'
         /\ Advanced' /\ ResetFollowsGrandFinal'
<1>1. OneRowPerTeam'
  BY DEF RecordResult
<1> SUFFICES ASSUME ~Override
             PROVE  /\ OnlyResetCancelled' /\ NoWinnerWhileOpen' /\ EntryKept'
                    /\ Advanced' /\ ResetFollowsGrandFinal'
  BY <1>1, OverrideTrivial
<1>2. status[m] # "cancelled" /\ Full(m)
  BY DEF RecordResult
<1>3. CASE RecordMatch(m, p) \/ CorrectMatch(m, p)
  <2>1. m \in Matches \ Finals
    BY <1>3 DEF RecordMatch, CorrectMatch
  <2> QED BY <1>2, <1>3, <2>1, RecordIsOrdinary, CorrectIsOrdinary, OrdinaryKeeps
<1>4. CASE m = GrandFinal /\ (RecordGrandFinal(p) \/ CorrectGrandFinal(p))
  BY <1>2, <1>4, GrandFinalKeeps, Wiring
<1>5. CASE m = ResetFinal /\ RecordResetFinal(p)
  BY <1>2, <1>5, ResetFinalKeeps, Wiring
<1>6. CASE RecordSame(m, p)
  BY <1>6, SameRowsKeep DEF RecordSame
<1> QED BY <1>3, <1>4, <1>5, <1>6 DEF RecordResult

LEMMA ReplayKeeps ==
  ASSUME IInv, NEW m \in Matches, Replay(m)
  PROVE  /\ OneRowPerTeam' /\ OnlyResetCancelled' /\ NoWinnerWhileOpen' /\ EntryKept'
         /\ Advanced' /\ ResetFollowsGrandFinal'
<1> USE DEF IInv
<1>1. /\ UNCHANGED <<status, seat>> /\ status[m] # "completed"
      /\ \A s \in Slots : result'[s] \in {"replay", result[s]}
      /\ \A s \in Slots : s[1] # m => result'[s] = result[s]
  <2>1. \A s \in Slots : s[1] # m => s # <<m, 1>> /\ s # <<m, 2>>
    OBVIOUS
  <2>2. <<m, 1>> \in Slots /\ <<m, 2>> \in Slots
    BY SlotShape
  <2> QED BY <2>1, <2>2 DEF Replay, TypeOK
<1>2. OneRowPerTeam' /\ OnlyResetCancelled' /\ EntryKept'
  BY <1>1 DEF OneRowPerTeam, OnlyResetCancelled, EntryKept
<1>3. NoWinnerWhileOpen'
  BY <1>1 DEF NoWinnerWhileOpen
<1>4. ASSUME NEW x \in Matches, NEW q \in {1, 2}, DecidedBy(x, q), status[x] = "completed"
      PROVE  DecidedBy(x, q)'
  BY <1>1, <1>4, SlotShape, OtherShape DEF DecidedBy, Full
<1>5. Advanced'
  BY <1>1, <1>4 DEF Advanced, ReachedNext
<1>6. ResetFollowsGrandFinal'
  <2>1. GrandFinal # None => GrandFinal \in Matches
    BY Wiring
  <2> QED BY <1>1, <1>4, <2>1 DEF ResetFollowsGrandFinal
<1> QED BY <1>2, <1>3, <1>5, <1>6

LEMMA EditKeeps ==
  ASSUME IInv, NEW m \in Matches, NEW st \in Status, EditMatch(m, st)
  PROVE  /\ OneRowPerTeam' /\ OnlyResetCancelled' /\ NoWinnerWhileOpen' /\ EntryKept'
         /\ Advanced' /\ ResetFollowsGrandFinal'
<1> USE DEF IInv
<1>1. OneRowPerTeam'
  BY DEF EditMatch, OneRowPerTeam
<1> SUFFICES ASSUME ~Override
             PROVE  /\ OnlyResetCancelled' /\ NoWinnerWhileOpen' /\ EntryKept'
                    /\ Advanced' /\ ResetFollowsGrandFinal'
  BY <1>1, OverrideTrivial
<1>2. /\ UNCHANGED <<seat, result>>
      /\ \A x \in Matches : \/ status'[x] = status[x]
                            \/ {status[x], status'[x]} \subseteq {"scheduled", "running"}
  BY DEF EditMatch, TypeOK, Open
<1>3. OnlyResetCancelled' /\ EntryKept'
  BY <1>2 DEF OnlyResetCancelled, EntryKept
<1>4. NoWinnerWhileOpen'
  BY <1>2, SlotShape DEF NoWinnerWhileOpen
<1>5. Advanced'
  <2>1. \A x \in Matches : status'[x] = "completed" <=> status[x] = "completed"
    BY <1>2
  <2> QED BY <1>2, <2>1 DEF Advanced, DecidedBy, ReachedNext, Full
<1>6. ResetFollowsGrandFinal'
  <2>1. GrandFinal # None => GrandFinal \in Matches /\ ResetFinal \in Matches
    BY Wiring
  <2> QED BY <1>2, <2>1 DEF ResetFollowsGrandFinal, DecidedBy, Full, Open
<1> QED BY <1>3, <1>4, <1>5, <1>6

\* A regenerated bracket is as an initial one.
LEMMA RegenerateKeeps ==
  ASSUME Regenerate
  PROVE  /\ OneRowPerTeam' /\ OnlyResetCancelled' /\ NoWinnerWhileOpen' /\ EntryKept'
         /\ Advanced' /\ ResetFollowsGrandFinal'
<1>1. OneRowPerTeam'
  <2> SUFFICES ASSUME NEW m \in Matches, seat'[<<m, 1>>] = seat'[<<m, 2>>], seat'[<<m, 1>>] # None
               PROVE  FALSE
    BY DEF OneRowPerTeam
  <2>1. <<m, 1>> = <<m, 2>>
    BY SlotShape, OneSource DEF Regenerate
  <2> QED BY <2>1
<1>2. OnlyResetCancelled' /\ NoWinnerWhileOpen' /\ EntryKept'
  BY SlotShape DEF Regenerate, OnlyResetCancelled, NoWinnerWhileOpen, EntryKept
<1>3. Advanced'
  BY LinkShape DEF Regenerate, Advanced
<1>4. ResetFollowsGrandFinal'
  BY Wiring, FinalsAreLast DEF Regenerate, ResetFollowsGrandFinal, Open
<1> QED BY <1>1, <1>2, <1>3, <1>4

\* Every step preserves the strengthened invariant.
LEMMA NextKeepsIInv == IInv /\ [Next]_vars => IInv'
<1> SUFFICES ASSUME IInv, [Next]_vars PROVE IInv'
  OBVIOUS
<1>1. TypeOK'
  BY NextTyped DEF IInv
<1> DEFINE Rest == /\ OneRowPerTeam /\ OnlyResetCancelled /\ NoWinnerWhileOpen /\ EntryKept
                   /\ Advanced /\ ResetFollowsGrandFinal
<1> SUFFICES Rest'
  BY <1>1 DEF IInv
<1>2. ASSUME NEW m \in Matches, NEW p \in {1, 2}, RecordResult(m, p) PROVE Rest'
  BY <1>2, RecordKeeps
<1>3. ASSUME NEW m \in Matches, Replay(m) PROVE Rest'
  BY <1>3, ReplayKeeps
<1>4. ASSUME NEW m \in Matches, NEW st \in Status, EditMatch(m, st) PROVE Rest'
  BY <1>4, EditKeeps
<1>5. ASSUME NEW st \in PhaseStatus, EditPhase(st) PROVE Rest'
  BY <1>5, SameRowsKeep DEF EditPhase
<1>6. CASE Regenerate
  BY <1>6, RegenerateKeeps
<1>7. CASE UNCHANGED vars
  BY <1>7, SameRowsKeep DEF vars
<1> HIDE DEF Rest
<1> QED BY <1>2, <1>3, <1>4, <1>5, <1>6, <1>7 DEF Next

\* The strengthened invariant holds in every reachable state.
LEMMA AlwaysIInv == Spec => []IInv
BY InitIInv, NextKeepsIInv, PTL DEF Spec

\* In every bracket that officials leave to the code, every recorded result has
\* reached the next matches, and only a recorded one.
THEOREM AlwaysAdvanced == Spec => []Advanced
<1>1. IInv => Advanced
  BY DEF IInv
<1> QED BY <1>1, AlwaysIInv, PTL

\* In every such double elimination the reset final mirrors the grand final.
THEOREM ResetAlwaysFollows == Spec => []ResetFollowsGrandFinal
<1>1. IInv => ResetFollowsGrandFinal
  BY DEF IInv
<1> QED BY <1>1, AlwaysIInv, PTL

----------------------------------------------------------------------------
\* No request, by-hand overrides included, changes the teams of a match that is
\* completed and stays so: this needs the guards only.
THEOREM CompletedStaysLocked == Spec => CompletedIsLocked
<1> DEFINE Locked == \A m \in Matches : status[m] = "completed" /\ status'[m] = "completed" =>
                       \A p \in {1, 2} : seat'[<<m, p>>] = seat[<<m, p>>]
<1>1. ASSUME TypeOK, [Next]_vars PROVE Locked
  <2> SUFFICES ASSUME NEW x \in Matches, NEW q \in {1, 2},
                      status[x] = "completed", status'[x] = "completed"
               PROVE  seat'[<<x, q>>] = seat[<<x, q>>]
    OBVIOUS
  <2>1. <<x, q>> \in Slots /\ <<x, q>>[1] = x
    BY SlotShape
  <2>2. ASSUME NEW m \in Matches, NEW p \in {1, 2}, RecordMatch(m, p)
        PROVE  seat'[<<x, q>>] = seat[<<x, q>>]
    BY <2>1, <2>2 DEF RecordMatch, MayMove, Moved, Taken
  <2>3. ASSUME NEW m \in Matches, NEW p \in {1, 2}, CorrectMatch(m, p)
        PROVE  seat'[<<x, q>>] = seat[<<x, q>>]
    <3>1. Moved(Cleared(m, p), m, p)[<<x, q>>] = Cleared(m, p)[<<x, q>>]
      BY <2>1, <2>3 DEF CorrectMatch, MayMove, Moved, Taken
    <3>2. Cleared(m, p)[<<x, q>>] = seat[<<x, q>>]
      BY <2>1, <2>3 DEF CorrectMatch, MayMove, Cleared
    <3> QED BY <2>3, <3>1, <3>2 DEF CorrectMatch
  <2>4. ASSUME NEW p \in {1, 2}, RecordGrandFinal(p) \/ CorrectGrandFinal(p)
        PROVE  seat'[<<x, q>>] = seat[<<x, q>>]
    <3>1. x # ResetFinal => /\ ResetCleared[<<x, q>>] = seat[<<x, q>>]
                            /\ ResetFilled(seat)[<<x, q>>] = seat[<<x, q>>]
                            /\ ResetFilled(ResetCleared)[<<x, q>>] = ResetCleared[<<x, q>>]
      BY <2>1 DEF ResetFilled, ResetCleared, TakenInReset
    <3>2. CASE RecordGrandFinal(p)
      BY <3>1, <3>2 DEF RecordGrandFinal
    <3>3. CASE CorrectGrandFinal(p)
      BY <3>1, <3>3 DEF CorrectGrandFinal
    <3> QED BY <2>4, <3>2, <3>3
  <2>5. ASSUME NEW m \in Matches, NEW p \in {1, 2}, RecordResult(m, p)
        PROVE  seat'[<<x, q>>] = seat[<<x, q>>]
    BY <2>2, <2>3, <2>4, <2>5 DEF RecordResult, RecordResetFinal, RecordSame
  <2>6. Regenerate => status'[x] = "scheduled"
    BY DEF Regenerate
  <2> QED BY <1>1, <2>5, <2>6 DEF Next, vars, Replay, EditMatch, EditPhase
<1>2. TypeOK /\ [Next]_vars => [Locked]_vars
  BY <1>1
<1> HIDE DEF Locked
<1>3. Spec => [][Locked]_vars
  BY <1>2, TypeCorrect, PTL DEF Spec
<1> QED BY <1>3 DEF CompletedIsLocked, Locked

----------------------------------------------------------------------------
\* The phase never gets stuck.  The match to play next is an undecided one of least
\* wave: all that feed it are decided, so its teams are known.

LEMMA Least == ASSUME NEW T \in SUBSET Nat, T # {} PROVE \E x \in T : \A y \in T : x <= y
<1> DEFINE R == {ss \in Nat \X Nat : ss[1] < ss[2]}
<1>0. IsWellFoundedOn(R, Nat)
  BY NatLessThanWellFounded, Zenon DEF OpToRel
<1> HIDE DEF R
<1>1. PICK x \in T : \A y \in T : ~(<<y, x>> \in R)
  BY <1>0, WFMin
<1>2. \A y \in T : y < x => <<y, x>> \in R
  BY DEF R
<1>3. T \subseteq Nat
  OBVIOUS
<1>4. \A y \in T : ~(y < x)
  BY <1>1, <1>2
<1> QED BY <1>3, <1>4

\* A reset final that is over has a winner.
ResetDecided ==
  ~Override /\ ResetFinal # None /\ status[ResetFinal] = "completed" =>
    \E p \in {1, 2} : DecidedBy(ResetFinal, p)

LEMMA ResetDecidedKept == IInv /\ ResetDecided /\ [Next]_vars => ResetDecided'
<1> SUFFICES ASSUME IInv, ResetDecided, [Next]_vars, ~Override, ResetFinal # None,
                    status'[ResetFinal] = "completed"
             PROVE  \E p \in {1, 2} : DecidedBy(ResetFinal, p)'
  BY DEF ResetDecided
<1>1. /\ ResetFinal \in Matches /\ GrandFinal \in Matches /\ GrandFinal # ResetFinal
      /\ ResetFinal \in Finals
      /\ \A q \in {1, 2} : <<ResetFinal, q>> \in Slots /\ <<ResetFinal, q>>[1] = ResetFinal
  BY Wiring, SlotShape DEF Finals
<1>2. ASSUME UNCHANGED <<status, seat, result>> PROVE \E p \in {1, 2} : DecidedBy(ResetFinal, p)'
  BY <1>2 DEF ResetDecided, DecidedBy, Full
<1>3. ASSUME NEW m \in Matches, NEW p \in {1, 2}, RecordResult(m, p)
      PROVE  \E q \in {1, 2} : DecidedBy(ResetFinal, q)'
  <2>1. CASE RecordMatch(m, p) \/ CorrectMatch(m, p)
    <3>1. OrdinaryStep(m, p) /\ m # ResetFinal
      BY <1>1, <2>1, RecordIsOrdinary, CorrectIsOrdinary DEF RecordMatch, CorrectMatch
    <3>2. status[ResetFinal] = "completed"
      BY <3>1 DEF OrdinaryStep, IInv, TypeOK
    <3>3. PICK q \in {1, 2} : DecidedBy(ResetFinal, q)
      BY <3>2 DEF ResetDecided
    <3>4. \A r \in {1, 2} : <<ResetFinal, r>> \notin {winnerTo[m], loserTo[m]}
      BY <1>1, LinkShape, Wiring
    <3>5. \A r \in {1, 2} : /\ seat'[<<ResetFinal, r>>] = seat[<<ResetFinal, r>>]
                            /\ result'[<<ResetFinal, r>>] = result[<<ResetFinal, r>>]
      BY <1>1, <3>1, <3>3, <3>4 DEF OrdinaryStep, DecidedBy, Full
    <3> QED BY <3>3, <3>5, OtherShape DEF DecidedBy, Full
  <2>2. CASE m = GrandFinal /\ (RecordGrandFinal(p) \/ CorrectGrandFinal(p))
    BY <1>1, <2>2 DEF RecordGrandFinal, CorrectGrandFinal, IInv, TypeOK
  <2>3. CASE m = ResetFinal /\ RecordResetFinal(p)
    <3>1. result'[<<ResetFinal, p>>] = "win" /\ result'[<<ResetFinal, Other(p)>>] = "loss"
      BY <1>1, <2>3, OtherShape DEF RecordResetFinal, Results
    <3> QED BY <1>3, <2>3, <3>1 DEF RecordResult, RecordResetFinal, DecidedBy, Full
  <2>4. CASE RecordSame(m, p)
    BY <1>2, <2>4 DEF RecordSame
  <2> QED BY <1>3, <2>1, <2>2, <2>3, <2>4 DEF RecordResult
<1>4. ASSUME NEW m \in Matches, Replay(m)
      PROVE  \E q \in {1, 2} : DecidedBy(ResetFinal, q)'
  <2>1. status[ResetFinal] = "completed" /\ m # ResetFinal /\ UNCHANGED seat
    BY <1>4 DEF Replay
  <2>2. \A r \in {1, 2} : result'[<<ResetFinal, r>>] = result[<<ResetFinal, r>>]
    BY <1>1, <1>4, <2>1 DEF Replay, IInv, TypeOK
  <2> QED BY <2>1, <2>2, OtherShape DEF ResetDecided, DecidedBy, Full
<1>5. ASSUME NEW m \in Matches, NEW st \in Status, EditMatch(m, st)
      PROVE  \E q \in {1, 2} : DecidedBy(ResetFinal, q)'
  <2>1. status[ResetFinal] = "completed" /\ UNCHANGED <<seat, result>>
    BY <1>1, <1>5 DEF EditMatch, Open, IInv, TypeOK
  <2> QED BY <2>1 DEF ResetDecided, DecidedBy, Full
<1>6. ~Regenerate
  BY <1>1 DEF Regenerate
<1> QED BY <1>2, <1>3, <1>4, <1>5, <1>6 DEF Next, vars, EditPhase

LEMMA NotStuck == IInv /\ ResetDecided => NeverStuck
<1> SUFFICES ASSUME IInv, ResetDecided, ~Override
             PROVE  \/ \E q \in Placements : q[2] = 1
                    \/ \E m \in Matches : status[m] \in Open /\ Full(m)
  BY DEF NeverStuck
<1> USE DEF IInv
<1> DEFINE U == {m \in Matches \ {ResetFinal} : status[m] # "completed"}
<1>1. ASSUME NEW m \in Deciding, NEW p \in {1, 2}, DecidedBy(m, p)
      PROVE  \E q \in Placements : q[2] = 1
  <2>1. <<m, p>> \in {x \in Slots : x[1] \in Deciding /\ result[x] = "win"}
    BY <1>1, SlotShape DEF Deciding, DecidedBy
  <2>2. <<seat[<<m, p>>], 1>> \in Placements
    BY <2>1 DEF Placements
  <2> QED BY <2>2
<1>2. CASE U # {}
  <2>1. PICK m \in U : \A x \in U : wave[m] <= wave[x]
    <3> DEFINE W == {wave[x] : x \in U}
    <3>1. W \in SUBSET Nat /\ W # {}
      BY <1>2, Wiring
    <3>2. PICK w \in W : \A y \in W : w <= y
      BY <3>1, Least
    <3> QED BY <3>2
  <2>2. status[m] \in Open
    BY <2>1 DEF OnlyResetCancelled, TypeOK, Status, Open
  <2>3. ASSUME NEW p \in {1, 2} PROVE seat[<<m, p>>] # None
    <3> DEFINE s == <<m, p>>
    <3>1. s \in Slots /\ s[1] = m /\ m # ResetFinal /\ m \in Matches /\ s # None
      <4>1. m \in Matches /\ m # ResetFinal
        BY <2>1
      <4>2. s \in Slots
        BY <4>1, SlotShape
      <4> QED BY <4>1, <4>2, Wiring
    <3>2. CASE entry[s] # None
      BY <3>1, <3>2 DEF EntryKept
    <3>3. CASE \E x \in Matches : s \in {winnerTo[x], loserTo[x]}
      <4>1. PICK x \in Matches : s \in {winnerTo[x], loserTo[x]}
        BY <3>3
      <4>2. wave[x] < wave[m] /\ wave[x] \in Nat /\ wave[m] \in Nat
        BY <3>1, <4>1, HasSource, Wiring
      <4>3. x \notin Finals
        BY <3>1, <4>1, FinalsAreLast
      <4>4. status[x] = "completed"
        BY <2>1, <4>2, <4>3 DEF Finals
      <4>5. PICK q \in {1, 2} : DecidedBy(x, q) /\ ReachedNext(x, q)
        BY <4>3, <4>4 DEF Advanced
      <4>6. seat[<<x, q>>] # None /\ seat[<<x, Other(q)>>] # None
        BY <4>5, OtherShape DEF DecidedBy, Full
      <4> QED BY <3>1, <4>1, <4>5, <4>6 DEF ReachedNext
    <3> QED BY <3>1, <3>2, <3>3, HasSource
  <2> QED BY <2>1, <2>2, <2>3 DEF Full
<1>3. CASE U = {} /\ GrandFinal = None
  <2>1. PICK m \in Matches : winnerTo[m] = None
    BY <1>3, FinalsAreLast
  <2>2. m \notin Finals /\ status[m] = "completed"
    BY <1>3, Wiring DEF Finals
  <2>3. PICK p \in {1, 2} : DecidedBy(m, p)
    BY <2>2 DEF Advanced
  <2>4. m \in Deciding
    BY <1>3, <2>1, <2>2 DEF Deciding
  <2> QED BY <1>1, <2>3, <2>4
<1>4. CASE U = {} /\ GrandFinal # None
  <2>1. GrandFinal \in Matches /\ ResetFinal \in Matches /\ GrandFinal # ResetFinal /\ ResetFinal # None
    BY <1>4, Wiring
  <2>2. status[GrandFinal] = "completed"
    BY <1>4, <2>1
  <2>3. CASE DecidedBy(GrandFinal, 1)
    BY <1>1, <1>4, <2>1, <2>2, <2>3 DEF Deciding, DecidedBy
  <2>4. CASE DecidedBy(GrandFinal, 2) /\ status[ResetFinal] = "completed"
    <3>1. ResetFinal \in Deciding
      BY <1>4, <2>1, <2>2, <2>4 DEF Deciding, DecidedBy
    <3> QED BY <1>1, <2>1, <2>4, <3>1 DEF ResetDecided
  <2>5. CASE DecidedBy(GrandFinal, 2) /\ status[ResetFinal] \in Open
    <3>1. \A q \in {1, 2} : seat[<<ResetFinal, q>>] = seat[<<GrandFinal, q>>]
      BY <1>4, <2>2, <2>5 DEF ResetFollowsGrandFinal, DecidedBy, Full, Open
    <3> QED BY <2>1, <2>5, <3>1 DEF DecidedBy, Full
  <2> QED BY <1>4, <2>1, <2>2, <2>3, <2>4, <2>5
          DEF ResetFollowsGrandFinal, TypeOK, Status, Open
<1> QED BY <1>2, <1>3, <1>4

\* In every bracket that officials leave to the code there is always a champion or
\* a match both of whose teams are known and whose result can be recorded.
THEOREM AlwaysPlayable == Spec => []NeverStuck
<1>1. Init => ResetDecided
  BY Wiring DEF Init, ResetDecided
<1> QED BY <1>1, AlwaysIInv, ResetDecidedKept, NotStuck, PTL DEF Spec

----------------------------------------------------------------------------
\* The DE rows follow the placements.

\* The placements are read off the results of the completed matches.
LEMMA SamePlacements ==
  ASSUME UNCHANGED seat,
         \A m \in Matches : status'[m] = "completed" <=> status[m] = "completed",
         \A s \in Slots : status[s[1]] = "completed" => result'[s] = result[s]
  PROVE  Placements' = Placements /\ Seated' = Seated
<1>1. Seated' = Seated
  BY DEF Seated
<1>2. ASSUME NEW ms, ms \subseteq Matches PROVE Lost(ms)' = Lost(ms)
  BY SlotShape DEF Lost
<1>3. Deciding' = Deciding
  <2>1. ASSUME GrandFinal # None
        PROVE  GrandFinal \in Matches /\ <<GrandFinal, 1>> \in Slots /\ <<GrandFinal, 2>> \in Slots
    BY <2>1, Wiring, SlotShape
  <2> QED BY <2>1 DEF Deciding
<1>4. Eliminating \subseteq Matches /\ Deciding \cap Finals \subseteq Matches
  BY DEF Eliminating, Deciding
<1>5. Lost(Eliminating)' = Lost(Eliminating) /\ Lost(Deciding \cap Finals)' = Lost(Deciding \cap Finals)
  <2>1. Lost(Eliminating)' = Lost(Eliminating)
    BY SlotShape DEF Lost, Eliminating
  <2>2. Lost(Deciding \cap Finals)' = Lost(Deciding \cap Finals)
    BY <1>3, SlotShape DEF Lost, Deciding
  <2> QED BY <2>1, <2>2
<1>6. {x \in Slots : x[1] \in Deciding /\ result[x] = "win"}'
        = {x \in Slots : x[1] \in Deciding /\ result[x] = "win"}
  BY <1>3 DEF Deciding
<1>7. Placements' = Placements
  <2> DEFINE outs == {<<seat[s], Cardinality(Seated) - Behind(s[1]) + 1>> : s \in Lost(Eliminating)}
             second == {<<seat[s], 2>> : s \in Lost(Deciding \cap Finals)}
             first == {<<seat[s], 1>> : s \in {x \in Slots : x[1] \in Deciding /\ result[x] = "win"}}
  <2>1. outs' = outs
    BY <1>1, <1>5 DEF Behind, Eliminating
  <2>2. second' = second
    BY <1>5
  <2>3. first' = first
    BY <1>6
  <2>4. Placements = outs \cup second \cup first
    BY DEF Placements
  <2>5. Placements' = outs' \cup second' \cup first'
    BY DEF Placements
  <2> QED BY <2>1, <2>2, <2>3, <2>4, <2>5
<1> QED BY <1>1, <1>7

LEMMA RanksKept == IInv /\ RanksAreCurrent /\ [Next]_vars => RanksAreCurrent'
<1> SUFFICES ASSUME IInv, RanksAreCurrent, [Next]_vars, ~Override, GrandFinal # None
             PROVE  \/ \A t \in Teams : deRank'[t] = -1
                    \/ \A t \in Seated' : deRank'[t] = PlaceOf(Placements', t)
  BY DEF RanksAreCurrent
<1>1. ASSUME UNCHANGED <<deRank, seat>>,
             \A m \in Matches : status'[m] = "completed" <=> status[m] = "completed",
             \A s \in Slots : status[s[1]] = "completed" => result'[s] = result[s]
      PROVE  \/ \A t \in Teams : deRank'[t] = -1
             \/ \A t \in Seated' : deRank'[t] = PlaceOf(Placements', t)
  BY <1>1, SamePlacements DEF RanksAreCurrent
<1>2. ASSUME NEW m \in Matches, NEW p \in {1, 2}, RecordResult(m, p)
      PROVE  \A t \in Seated' : deRank'[t] = PlaceOf(Placements', t)
  <2>1. PICK places \in {Placements'} :
          deRank' = [t \in Teams |-> IF t \in Seated' THEN Rank(places, t) ELSE deRank[t]]
    BY <1>2 DEF RecordResult, Sync
  <2>2. TypeOK'
    BY <1>2, RecordTyped DEF IInv
  <2>3. Seated' \subseteq Teams
    BY <2>2 DEF TypeOK, Seated
  <2> QED BY <2>1, <2>3 DEF Rank
<1>3. ASSUME NEW m \in Matches, Replay(m) PROVE UNCHANGED <<deRank, seat, status>> /\
             \A s \in Slots : status[s[1]] = "completed" => result'[s] = result[s]
  <2>1. \A s \in Slots : status[s[1]] = "completed" => s # <<m, 1>> /\ s # <<m, 2>>
    BY <1>3 DEF Replay
  <2> QED BY <1>3, <2>1 DEF Replay, IInv, TypeOK
<1>4. ASSUME NEW m \in Matches, NEW st \in Status, EditMatch(m, st)
      PROVE  /\ UNCHANGED <<deRank, seat, result>>
             /\ \A x \in Matches : status'[x] = "completed" <=> status[x] = "completed"
  BY <1>4 DEF EditMatch, IInv, TypeOK, Open
<1>5. CASE Regenerate
  BY <1>5 DEF Regenerate
<1>6. CASE UNCHANGED vars
  BY <1>1, <1>6 DEF vars
<1>7. ASSUME NEW st \in PhaseStatus, EditPhase(st) PROVE UNCHANGED <<deRank, seat, status, result>>
  BY <1>7 DEF EditPhase
<1> QED BY <1>1, <1>2, <1>3, <1>4, <1>5, <1>6, <1>7 DEF Next

\* In every double elimination that officials leave to the code, the DE rows are
\* the placements of the bracket as it stands.
THEOREM AlwaysRanked == Spec => []RanksAreCurrent
<1>1. Init => RanksAreCurrent
  BY DEF Init, RanksAreCurrent
<1> QED BY <1>1, AlwaysIInv, RanksKept, PTL DEF Spec

----------------------------------------------------------------------------
\* Newly recorded results move on, overrides or not.

\* A match both of whose teams move into one and the same match keeps its two teams,
\* and only they take the winner's slot.
Shared(m) == winnerTo[m] # None /\ loserTo[m] # None /\ winnerTo[m][1] = loserTo[m][1]
SharedKept ==
  \A m \in Matches : Shared(m) =>
    /\ \A q \in {1, 2} : seat[<<m, q>>] = entry[<<m, q>>]
    /\ seat[winnerTo[m]] \in {None, seat[<<m, 1>>], seat[<<m, 2>>]}

\* Such a match is the target of no link, and it is not the reset final.
LEMMA SharedShape ==
  ASSUME NEW m \in Matches, Shared(m)
  PROVE  /\ \A x \in Matches : \A s \in {winnerTo[x], loserTo[x]} \ {None} : s[1] # m
         /\ m # ResetFinal
         /\ winnerTo[m] \in Slots /\ winnerTo[m] # loserTo[m] /\ winnerTo[m][1] \notin {m, ResetFinal}
<1>1. entry[<<m, 1>>] # None /\ entry[<<m, 2>>] # None
  BY SharedTarget DEF Shared
<1>2. ASSUME NEW x \in Matches, NEW s \in {winnerTo[x], loserTo[x]} \ {None} PROVE s[1] # m
  <2>1. s \in Slots /\ entry[s] = None
    BY LinkShape
  <2> QED BY <1>1, <2>1, SlotShape
<1>3. m # ResetFinal
  BY <1>1, FinalsAreLast, Wiring
<1> QED BY <1>2, <1>3, LinkShape, OwnLinksDiffer DEF Shared

\* What a result may change: the rows of the matches its links lead to, or of the reset
\* final, and no result but its own becomes a win.
LEMMA RecordTouches ==
  ASSUME TypeOK, NEW x \in Matches, NEW q \in {1, 2}, RecordMatch(x, q) \/ CorrectMatch(x, q)
  PROVE  /\ \A s \in Slots : s \notin {winnerTo[x], loserTo[x]} => seat'[s] \in {seat[s], None}
         /\ winnerTo[x] # None => seat'[winnerTo[x]] \in {seat[winnerTo[x]], seat[<<x, q>>], None}
         /\ \A s \in Slots : seat'[s] # seat[s] => \/ winnerTo[x] # None /\ s[1] = winnerTo[x][1]
                                                   \/ loserTo[x] # None /\ s[1] = loserTo[x][1]
         /\ result'[<<x, q>>] = "win" /\ result'[<<x, Other(q)>>] = "loss"
         /\ \A s \in Slots : s[1] # x => result'[s] \in {"none", result[s]}
<1>1. \A s \in Slots : s[1] # x => s # <<x, q>> /\ s # <<x, Other(q)>>
  BY DEF Other
<1>2. <<x, q>> \in Slots /\ <<x, Other(q)>> \in Slots /\ Other(q) # q
  BY SlotShape, OtherShape
<1>3. winnerTo[x] # None => winnerTo[x] \in Slots
  BY LinkShape
<1>4. \A s \in Slots : s # None
  BY Wiring
<1>5. CASE RecordMatch(x, q)
  <2>1. seat' = Moved(seat, x, q) /\ \E taken : result' = Results(x, q, taken)
    BY <1>5 DEF RecordMatch
  <2>2. /\ result'[<<x, q>>] = "win" /\ result'[<<x, Other(q)>>] = "loss"
        /\ \A s \in Slots : s[1] # x => result'[s] \in {"none", result[s]}
    BY <1>1, <1>2, <2>1 DEF Results
  <2>3. \A s \in Slots : s \notin Taken(seat, x) => seat'[s] = seat[s]
    BY <2>1 DEF Moved
  <2>4. Taken(seat, x) \subseteq {winnerTo[x], loserTo[x]} \ {None}
    BY DEF Taken
  <2>5. winnerTo[x] # None => seat'[winnerTo[x]] \in {seat[winnerTo[x]], seat[<<x, q>>]}
    BY <1>3, <2>1 DEF Moved
  <2>6. \A s \in Slots : seat'[s] # seat[s] => s \in {winnerTo[x], loserTo[x]} \ {None}
    BY <2>3, <2>4
  <2>7. \A s \in Slots : s \notin {winnerTo[x], loserTo[x]} => seat'[s] \in {seat[s], None}
    BY <2>6
  <2>8. ASSUME NEW s \in Slots, seat'[s] # seat[s]
        PROVE  \/ winnerTo[x] # None /\ s[1] = winnerTo[x][1]
               \/ loserTo[x] # None /\ s[1] = loserTo[x][1]
    <3>1. s = winnerTo[x] \/ s = loserTo[x]
      BY <2>6, <2>8
    <3> QED BY <1>4, <3>1
  <2> QED BY <2>2, <2>5, <2>7, <2>8
<1>6. CASE CorrectMatch(x, q)
  <2>1. /\ \A s \in Slots : Cleared(x, q)[s] \in {seat[s], None}
        /\ \A s \in Slots : Cleared(x, q)[s] # seat[s] => \/ winnerTo[x] # None /\ s[1] = winnerTo[x][1]
                                                          \/ loserTo[x] # None /\ s[1] = loserTo[x][1]
    BY DEF Cleared
  <2>2. /\ seat' = Moved(Cleared(x, q), x, q)
        /\ \E taken : result' = Results(x, q, taken)
    BY <1>6 DEF CorrectMatch
  <2>3. /\ result'[<<x, q>>] = "win" /\ result'[<<x, Other(q)>>] = "loss"
        /\ \A s \in Slots : s[1] # x => result'[s] \in {"none", result[s]}
    BY <1>1, <1>2, <2>2 DEF Results
  <2>4. \A s \in Slots : s \notin Taken(Cleared(x, q), x) => seat'[s] = Cleared(x, q)[s]
    BY <2>2 DEF Moved
  <2>5. Taken(Cleared(x, q), x) \subseteq {winnerTo[x], loserTo[x]} \ {None}
    BY DEF Taken
  <2>6. winnerTo[x] # None => seat'[winnerTo[x]] \in {Cleared(x, q)[winnerTo[x]], seat[<<x, q>>]}
    BY <1>3, <2>2 DEF Moved
  <2>7. \A s \in Slots : s \notin {winnerTo[x], loserTo[x]} \ {None} => seat'[s] = Cleared(x, q)[s]
    BY <2>4, <2>5
  <2>8. \A s \in Slots : s \notin {winnerTo[x], loserTo[x]} => seat'[s] \in {seat[s], None}
    BY <2>1, <2>7
  <2>9. ASSUME NEW s \in Slots, seat'[s] # seat[s]
        PROVE  \/ winnerTo[x] # None /\ s[1] = winnerTo[x][1]
               \/ loserTo[x] # None /\ s[1] = loserTo[x][1]
    <3>1. CASE s = winnerTo[x] \/ s = loserTo[x]
      BY <1>4, <3>1
    <3>2. CASE s # winnerTo[x] /\ s # loserTo[x]
      BY <2>1, <2>7, <2>9, <3>2
    <3> QED BY <3>1, <3>2
  <2>10. winnerTo[x] # None => seat'[winnerTo[x]] \in {seat[winnerTo[x]], seat[<<x, q>>], None}
    BY <1>3, <2>1, <2>6
  <2> QED BY <2>3, <2>8, <2>9, <2>10
<1> QED BY <1>5, <1>6

LEMMA FinalsTouch ==
  ASSUME TypeOK, NEW q \in {1, 2}, NEW x \in Finals,
         \/ x = GrandFinal /\ (RecordGrandFinal(q) \/ CorrectGrandFinal(q))
         \/ x = ResetFinal /\ RecordResetFinal(q)
  PROVE  /\ \A s \in Slots : s[1] # ResetFinal => seat'[s] = seat[s]
         /\ \A s \in Slots : s[1] \notin Finals => result'[s] \in {"none", result[s]}
<1>1. ASSUME NEW s \in Slots, s[1] # ResetFinal
      PROVE  /\ ResetCleared[s] = seat[s]
             /\ ResetFilled(seat)[s] = seat[s]
             /\ ResetFilled(ResetCleared)[s] = seat[s]
  <2>1. ASSUME NEW st PROVE s \notin TakenInReset(st)
    <3>1. \A r \in {1, 2} : s # <<ResetFinal, r>>
      BY <1>1
    <3> QED BY <3>1 DEF TakenInReset
  <2>2. ResetCleared[s] = seat[s]
    BY <1>1 DEF ResetCleared
  <2> QED BY <2>1, <2>2 DEF ResetFilled
<1>2. seat' \in {seat, ResetFilled(seat), ResetCleared, ResetFilled(ResetCleared)}
  BY DEF RecordGrandFinal, CorrectGrandFinal, RecordResetFinal
<1>3. \E taken : result' = Results(x, q, taken)
  BY DEF RecordGrandFinal, CorrectGrandFinal, RecordResetFinal
<1>4. \A s \in Slots : s[1] \notin Finals => s # <<x, q>> /\ s # <<x, Other(q)>>
  BY DEF Other
<1>5. \A s \in Slots : s[1] \notin Finals => result'[s] \in {"none", result[s]}
  BY <1>3, <1>4 DEF Results
<1> QED BY <1>1, <1>2, <1>5

LEMMA SharedStays == TypeOK /\ SharedKept /\ [Next]_vars => SharedKept'
<1> SUFFICES ASSUME TypeOK, SharedKept, [Next]_vars, NEW m \in Matches, Shared(m)
             PROVE  /\ \A q \in {1, 2} : seat'[<<m, q>>] = entry[<<m, q>>]
                    /\ seat'[winnerTo[m]] \in {None, seat'[<<m, 1>>], seat'[<<m, 2>>]}
  BY DEF SharedKept, Shared
<1>1. /\ \A q \in {1, 2} : <<m, q>> \in Slots /\ <<m, q>>[1] = m /\ seat[<<m, q>>] = entry[<<m, q>>]
      /\ seat[winnerTo[m]] \in {None, seat[<<m, 1>>], seat[<<m, 2>>]}
  BY SlotShape DEF SharedKept
<1> DEFINE Goal == /\ \A q \in {1, 2} : seat'[<<m, q>>] = entry[<<m, q>>]
                   /\ seat'[winnerTo[m]] \in {None, seat'[<<m, 1>>], seat'[<<m, 2>>]}
<1> SUFFICES Goal
  OBVIOUS
<1>2. ASSUME NEW x \in Matches, NEW q \in {1, 2}, RecordMatch(x, q) \/ CorrectMatch(x, q)
      PROVE  Goal
  <2>0. /\ winnerTo[x] # None => winnerTo[x][1] # m
        /\ loserTo[x] # None => loserTo[x][1] # m
    BY SharedShape
  <2>1. \A r \in {1, 2} : seat'[<<m, r>>] = seat[<<m, r>>]
    BY <1>1, <1>2, <2>0, RecordTouches
  <2>2. CASE x = m
    <3>1. seat'[winnerTo[m]] \in {seat[winnerTo[m]], seat[<<m, q>>], None}
      BY <1>2, <2>2, RecordTouches DEF Shared
    <3> QED BY <1>1, <2>1, <3>1
  <2>3. CASE x # m
    <3>1. winnerTo[m] \in Slots /\ winnerTo[m] \notin {winnerTo[x], loserTo[x]}
      BY <2>3, LinksDiffer, SharedShape DEF Shared
    <3>2. seat'[winnerTo[m]] \in {seat[winnerTo[m]], None}
      BY <1>2, <3>1, RecordTouches
    <3> QED BY <1>1, <2>1, <3>2
  <2> QED BY <2>2, <2>3
<1>3. ASSUME NEW q \in {1, 2}, NEW x \in Finals,
             \/ x = GrandFinal /\ (RecordGrandFinal(q) \/ CorrectGrandFinal(q))
             \/ x = ResetFinal /\ RecordResetFinal(q)
      PROVE  Goal
  <2>1. winnerTo[m] \in Slots /\ winnerTo[m][1] # ResetFinal /\ m # ResetFinal
    BY SharedShape
  <2> QED BY <1>1, <1>3, <2>1, FinalsTouch
<1>4. CASE Regenerate
  <2>1. winnerTo[m] \in Slots /\ entry[winnerTo[m]] = None
    BY LinkShape DEF Shared
  <2> QED BY <1>4, <2>1 DEF Regenerate
<1>5. CASE UNCHANGED seat
  BY <1>1, <1>5
<1> HIDE DEF Goal
<1>6. ASSUME NEW x \in Matches, NEW q \in {1, 2}, RecordResult(x, q) PROVE Goal
  BY <1>2, <1>3, <1>5, <1>6 DEF RecordResult, RecordSame, Finals
<1> QED BY <1>4, <1>5, <1>6 DEF Next, vars, Replay, EditMatch, EditPhase

\* The winner and the loser of a match that is not a final sit in the slots its links
\* name: at most the row of a shared target can be left over, and that one is the
\* winner's, or the request would have given a team two rows in one match.
LEMMA RecordReaches ==
  ASSUME TypeOK, SharedKept, NEW x \in Matches, NEW q \in {1, 2}, Full(x),
         RecordMatch(x, q) \/ CorrectMatch(x, q), OneRowPerTeam'
  PROVE  ReachedNext(x, q)'
<1> DEFINE W == winnerTo[x]
           L == loserTo[x]
<1>1. PICK st : /\ seat' = Moved(st, x, q)
                /\ st = seat \/ (st = Cleared(x, q))
  BY DEF RecordMatch, CorrectMatch
<1>2. /\ W # None => W \in Slots /\ W # L /\ W[1] # x
      /\ L # None => L \in Slots /\ L[1] # x
  BY LinkShape, OwnLinksDiffer
<1>3. ASSUME NEW r \in {1, 2} PROVE <<x, r>> \in Slots /\ seat'[<<x, r>>] = seat[<<x, r>>]
  <2>1. <<x, r>> \in Slots /\ <<x, r>>[1] = x
    BY SlotShape
  <2>2. /\ W # None => x # W[1]
        /\ L # None => x # L[1]
    BY <1>2
  <2> QED BY <2>1, <2>2, RecordTouches
<1>4. L # None => seat'[L] = seat'[<<x, Other(q)>>]
  BY <1>1, <1>2, <1>3, OtherShape DEF Moved, Taken
<1>5. ASSUME W # None PROVE seat'[W] = seat'[<<x, q>>]
  <2>1. CASE W \in Taken(st, x)
    BY <1>1, <1>2, <1>3, <1>5, <2>1 DEF Moved
  <2>2. CASE W \notin Taken(st, x)
    <3>1. Shared(x) /\ st[W] # None
      BY <1>2, <1>5, <2>2 DEF Taken, Shared
    <3>2. seat'[W] = st[W]
      BY <1>1, <1>2, <1>5, <2>2 DEF Moved
    <3>3. st[W] = seat[W]
      BY <1>1, <1>2, <1>5, <3>1 DEF Cleared
    <3>4. seat'[W] \in {seat'[<<x, q>>], seat'[<<x, Other(q)>>]} /\ seat'[W] # None
      BY <1>3, <3>1, <3>2, <3>3 DEF SharedKept, Other
    <3>5. seat'[W] # seat'[L]
      <4>1. W[1] = L[1] /\ W[1] \in Matches /\ L \in Slots /\ W # L
        BY <1>2, <1>5, <3>1, SlotShape DEF Shared
      <4>2. W = <<W[1], W[2]>> /\ L = <<W[1], L[2]>> /\ {W[2], L[2]} = {1, 2}
        BY <1>2, <1>5, <4>1, SlotShape
      <4> QED BY <3>4, <4>1, <4>2 DEF OneRowPerTeam
    <3> QED BY <1>4, <3>1, <3>4, <3>5 DEF Shared
  <2> QED BY <2>1, <2>2
<1> QED BY <1>4, <1>5 DEF ReachedNext

\* Even when officials reopen matches by hand, a newly recorded winner and loser take
\* the slots the links name in the same step.
THEOREM RecordedAlwaysMovesOn == Spec => RecordedMovesOn
<1> DEFINE MovesOn == \A m \in Matches \ Finals, p \in {1, 2} :
                        DecidedBy(m, p)' /\ result[<<m, p>>] # "win" => ReachedNext(m, p)'
<1>1. ASSUME TypeOK, SharedKept, [Next]_vars PROVE MovesOn
  <2> SUFFICES ASSUME NEW m \in Matches \ Finals, NEW p \in {1, 2},
                      DecidedBy(m, p)', result[<<m, p>>] # "win"
               PROVE  ReachedNext(m, p)'
    OBVIOUS
  <2>1. <<m, p>> \in Slots /\ <<m, p>>[1] = m /\ result'[<<m, p>>] = "win"
    BY SlotShape DEF DecidedBy
  <2>2. ASSUME NEW x \in Matches, NEW q \in {1, 2}, RecordResult(x, q),
               RecordMatch(x, q) \/ CorrectMatch(x, q)
        PROVE  ReachedNext(m, p)'
    <3>1. x = m
      BY <1>1, <2>1, <2>2, RecordTouches
    <3>2. q = p
      <4>1. result'[<<m, q>>] = "win" /\ result'[<<m, Other(q)>>] = "loss"
        BY <1>1, <2>2, <3>1, RecordTouches
      <4>2. p = q \/ p = Other(q)
        BY DEF Other
      <4> QED BY <2>1, <4>1, <4>2
    <3> QED BY <1>1, <2>2, <3>1, <3>2, RecordReaches DEF RecordResult
  <2>3. ASSUME NEW q \in {1, 2}, NEW x \in Finals,
               \/ x = GrandFinal /\ (RecordGrandFinal(q) \/ CorrectGrandFinal(q))
               \/ x = ResetFinal /\ RecordResetFinal(q)
        PROVE  FALSE
    BY <1>1, <2>1, <2>3, FinalsTouch
  <2>4. ASSUME NEW x \in Matches, NEW q \in {1, 2}, RecordResult(x, q) PROVE ReachedNext(m, p)'
    BY <2>1, <2>2, <2>3, <2>4 DEF RecordResult, RecordSame, Finals
  <2>5. ~\E x \in Matches : Replay(x)
    BY <1>1, <2>1 DEF Replay, TypeOK
  <2>6. ~Regenerate
    BY <2>1 DEF Regenerate
  <2> QED BY <1>1, <2>1, <2>4, <2>5, <2>6 DEF Next, vars, EditMatch, EditPhase
<1>2. Init => SharedKept
  <2> SUFFICES ASSUME Init, NEW m \in Matches, Shared(m)
               PROVE  /\ \A q \in {1, 2} : seat[<<m, q>>] = entry[<<m, q>>]
                      /\ seat[winnerTo[m]] = None
    BY DEF SharedKept
  <2> QED BY LinkShape DEF Init, Shared
<1>3. TypeOK /\ SharedKept /\ [Next]_vars => [MovesOn]_vars
  BY <1>1
<1> HIDE DEF MovesOn
<1>4. Spec => [][MovesOn]_vars
  BY <1>2, <1>3, SharedStays, TypeCorrect, PTL DEF Spec
<1> QED BY <1>4 DEF RecordedMovesOn, MovesOn

----------------------------------------------------------------------------
\* The last seat of a team: a match it still has to play, or that it did not move on
\* from.  The grand final is not the last match once position 2 has won it.
Last(s) ==
  /\ seat[s] # None
  /\ IF s[1] \in Finals
     THEN s[1] = GrandFinal => ~(status[GrandFinal] = "completed" /\ result[<<GrandFinal, 2>>] = "win")
     ELSE status[s[1]] = "completed" =>
            (IF result[s] = "win" THEN winnerTo[s[1]] ELSE loserTo[s[1]]) = None

Field == {entry[s] : s \in Slots} \ {None}
LostBy(t) == {s \in Lost(Matches) : seat[s] = t}

\* Every seated team has one last seat, and has lost as often as the bracket says of
\* that seat, once more if it lost there; the teams are those placed up front.
OneLast == \A s, x \in Slots : Last(s) /\ Last(x) /\ seat[s] = seat[x] => s = x
HasLast == \A s \in Slots : seat[s] # None => \E x \in Slots : Last(x) /\ seat[x] = seat[s]
LossesFit == \A s \in Slots : Last(s) =>
               Losses(seat[s]) = IF s \in Lost(Matches) THEN LossesAt(s) + 1 ELSE LossesAt(s)
LInv == ~Override => OneLast /\ HasLast /\ LossesFit /\ Seated = Field

\* The result of a match, first or corrected, won by the team of slot a against that
\* of slot b: nothing but this loss is new and nothing but a loss of slot a is gone,
\* and without the match both have lost as often as the bracket says of their slots.
Scored(a, b) ==
  /\ seat[a] # None /\ seat[b] # None /\ seat[a] # seat[b]
  /\ b \notin Lost(Matches)
  /\ Lost(Matches)' = (Lost(Matches) \ {a}) \cup {b}
  /\ \A s \in Lost(Matches)' : seat'[s] = seat[s]
  /\ Cardinality(LostBy(seat[a]) \ {a}) = LossesAt(a)
  /\ Cardinality(LostBy(seat[b]) \ {b}) = LossesAt(b)

----------------------------------------------------------------------------
\* Counting.

LEMMA SlotsFinite == IsFiniteSet(Slots)
<1>1. IsFiniteSet({1, 2})
  <2>1. IsFiniteSet({1} \cup {2})
    BY FS_Singleton, FS_AddElement
  <2>2. {1} \cup {2} = {1, 2}
    OBVIOUS
  <2> QED BY <2>1, <2>2
<1>2. IsFiniteSet(Matches \X {1, 2})
  BY <1>1, Wiring, FS_Product
<1>3. Slots = Matches \X {1, 2}
  BY DEF Slots
<1> QED BY <1>2, <1>3

LEMMA LostByFinite ==
  ASSUME NEW t
  PROVE  /\ IsFiniteSet(LostBy(t)) /\ Losses(t) = Cardinality(LostBy(t)) /\ Losses(t) \in Nat
<1>1. LostBy(t) \subseteq Slots
  BY DEF LostBy, Lost
<1>2. IsFiniteSet(LostBy(t))
  BY <1>1, SlotsFinite, FS_Subset
<1>3. Losses(t) = Cardinality(LostBy(t))
  BY DEF Losses, LostBy
<1> QED BY <1>2, <1>3, FS_CardinalityType

LEMMA LossesAtShape ==
  /\ \A s \in Slots : LossesAt(s) \in {0, 1}
  /\ \A m \in Matches \ Finals : LossesAt(<<m, 1>>) = LossesAt(<<m, 2>>)
  /\ GrandFinal # None => /\ LossesAt(<<GrandFinal, 1>>) = 0 /\ LossesAt(<<GrandFinal, 2>>) = 1
                          /\ LossesAt(<<ResetFinal, 1>>) = 1 /\ LossesAt(<<ResetFinal, 2>>) = 1
<1>1. \A s \in Slots : LossesAt(s) \in {0, 1}
  BY DEF LossesAt
<1>2. ASSUME NEW m \in Matches \ Finals PROVE LossesAt(<<m, 1>>) = LossesAt(<<m, 2>>)
  <2>1. /\ <<m, 1>>[1] = m /\ <<m, 2>>[1] = m
        /\ m # GrandFinal
    BY DEF Finals
  <2>2. <<m, 1>> # <<GrandFinal, 1>> /\ <<m, 2>> # <<GrandFinal, 1>>
    BY <2>1
  <2> QED BY <2>1, <2>2 DEF LossesAt
<1>3. ASSUME GrandFinal # None
      PROVE  /\ LossesAt(<<GrandFinal, 1>>) = 0 /\ LossesAt(<<GrandFinal, 2>>) = 1
             /\ LossesAt(<<ResetFinal, 1>>) = 1 /\ LossesAt(<<ResetFinal, 2>>) = 1
  <2>1. GrandFinal # ResetFinal
    BY <1>3, Wiring
  <2>2. /\ <<GrandFinal, 2>> # <<GrandFinal, 1>> /\ <<ResetFinal, 1>> # <<GrandFinal, 1>>
        /\ <<ResetFinal, 2>> # <<GrandFinal, 1>>
    BY <2>1
  <2>3. <<GrandFinal, 2>>[1] \in Finals /\ <<ResetFinal, 1>>[1] \in Finals /\ <<ResetFinal, 2>>[1] \in Finals
    BY DEF Finals
  <2> QED BY <1>3, <2>2, <2>3 DEF LossesAt
<1> QED BY <1>1, <1>2, <1>3

----------------------------------------------------------------------------
\* The step of a recorded result, whatever the match: the winner A of slot a and the
\* loser B of slot b get the last seats x and y, and nobody else is touched.
LEMMA Relocated ==
  ASSUME ~Override, LInv,
         NEW a \in Slots, NEW b \in Slots, NEW x \in Slots, NEW y \in Slots,
         seat[a] # None, seat[b] # None, seat[a] # seat[b],
         seat'[x] = seat[a], seat'[y] = seat[b], seat'[b] = seat[b],
         \A s \in Slots :
           Last(s)' <=> s \in {x, y} \/ (Last(s) /\ seat[s] # seat[a] /\ seat[s] # seat[b]),
         \A s \in Slots : Last(s) /\ seat[s] # seat[a] /\ seat[s] # seat[b] => seat'[s] = seat[s],
         \A s \in Slots : seat'[s] \in {None, seat[a], seat[b], seat[s]},
         Lost(Matches)' = (Lost(Matches) \ {a}) \cup {b},
         \A s \in Lost(Matches)' : seat'[s] = seat[s],
         Cardinality(LostBy(seat[a]) \ {a}) = LossesAt(x), x \notin Lost(Matches)',
         Cardinality(LostBy(seat[b]) \ {b}) + 1 = IF y \in Lost(Matches)' THEN LossesAt(y) + 1
                                                  ELSE LossesAt(y)
  PROVE  LInv'
<1> DEFINE A == seat[a]
           B == seat[b]
<1>1. OneLast /\ HasLast /\ LossesFit /\ Seated = Field
  BY DEF LInv
<1>2. OneLast'
  <2> SUFFICES ASSUME NEW s \in Slots, NEW z \in Slots, Last(s)', Last(z)', seat'[s] = seat'[z]
               PROVE  s = z
    BY DEF OneLast
  <2> QED BY <1>1 DEF OneLast
<1>3. \A t : LostBy(t)' = IF t = B THEN (LostBy(B) \ {b}) \cup {b}
                          ELSE IF t = A THEN LostBy(A) \ {a} ELSE LostBy(t)
  <2> TAKE t
  <2>1. LostBy(t)' = {s \in Lost(Matches)' : seat[s] = t}
    BY DEF LostBy
  <2>2. LostBy(t)' = {s \in (Lost(Matches) \ {a}) \cup {b} : seat[s] = t}
    BY <2>1
  <2> QED BY <2>2 DEF LostBy
<1>4. LossesFit'
  <2> SUFFICES ASSUME NEW s \in Slots, Last(s)'
               PROVE  Losses(seat[s])' = IF s \in Lost(Matches)' THEN LossesAt(s) + 1 ELSE LossesAt(s)
    BY DEF LossesFit
  <2>1. Losses(seat[s])' = Cardinality(LostBy(seat[s])')
    BY DEF Losses, LostBy
  <2>2. CASE s = x
    <3>1. LostBy(seat[s])' = LostBy(A) \ {a}
      BY <1>3, <2>2 DEF LostBy
    <3> QED BY <2>1, <2>2, <3>1
  <2>3. CASE s = y
    <3>1. LostBy(seat[s])' = (LostBy(B) \ {b}) \cup {b}
      BY <1>3, <2>3 DEF LostBy
    <3>2. IsFiniteSet(LostBy(B) \ {b})
      BY LostByFinite, FS_Subset
    <3>3. Cardinality((LostBy(B) \ {b}) \cup {b}) = Cardinality(LostBy(B) \ {b}) + 1
      BY <3>2, FS_AddElement
    <3> QED BY <2>1, <2>3, <3>1, <3>3
  <2>4. CASE s # x /\ s # y
    <3>1. Last(s) /\ seat[s] # A /\ seat[s] # B /\ seat'[s] = seat[s]
      BY <2>4
    <3>2. LostBy(seat[s])' = LostBy(seat[s])
      BY <1>3, <3>1 DEF LostBy
    <3>3. s \in Lost(Matches)' <=> s \in Lost(Matches)
      BY <3>1
    <3> QED BY <1>1, <2>1, <3>1, <3>2, <3>3, LostByFinite DEF LossesFit
  <2> QED BY <2>2, <2>3, <2>4
<1>5. HasLast'
  <2> SUFFICES ASSUME NEW s \in Slots, seat'[s] # None
               PROVE  \E z \in Slots : Last(z)' /\ seat'[z] = seat'[s]
    BY DEF HasLast
  <2>1. CASE seat'[s] \in {A, B}
    BY <2>1
  <2>2. CASE seat'[s] \notin {A, B}
    <3>1. seat'[s] = seat[s]
      BY <2>2
    <3>2. PICK z \in Slots : Last(z) /\ seat[z] = seat[s]
      BY <1>1, <3>1 DEF HasLast
    <3> QED BY <2>2, <3>1, <3>2
  <2> QED BY <2>1, <2>2
<1>6. Seated' = Field
  <2>1. Seated' \subseteq Seated
    BY DEF Seated
  <2>2. ASSUME NEW t \in Seated PROVE t \in Seated'
    <3>1. PICK s \in Slots : Last(s) /\ seat[s] = t /\ t # None
      BY <1>1, <2>2 DEF Seated, HasLast
    <3>2. CASE t \in {A, B}
      BY <3>1, <3>2 DEF Seated
    <3>3. CASE t \notin {A, B}
      BY <3>1, <3>3 DEF Seated
    <3> QED BY <3>2, <3>3
  <2> QED BY <1>1, <2>1, <2>2
<1> QED BY <1>2, <1>4, <1>5, <1>6 DEF LInv, Field

----------------------------------------------------------------------------
\* What a last seat is for the matches of each kind.

LEMMA LastCases ==
  ASSUME NEW s \in Slots
  PROVE  /\ s[1] \notin Finals /\ status[s[1]] # "completed" => (Last(s) <=> seat[s] # None)
         /\ s[1] \notin Finals /\ status[s[1]] = "completed" /\ result[s] = "win"
              => (Last(s) <=> seat[s] # None /\ winnerTo[s[1]] = None)
         /\ s[1] \notin Finals /\ status[s[1]] = "completed" /\ result[s] # "win"
              => (Last(s) <=> seat[s] # None /\ loserTo[s[1]] = None)
         /\ s[1] = GrandFinal
              => (Last(s) <=> /\ seat[s] # None
                              /\ ~(status[GrandFinal] = "completed" /\ result[<<GrandFinal, 2>>] = "win"))
         /\ s[1] = ResetFinal /\ GrandFinal # ResetFinal => (Last(s) <=> seat[s] # None)
BY DEF Last, Finals

\* A slot that kept its team, its match's state and its result stays a last seat.
LEMMA LastSame ==
  ASSUME NEW s \in Slots, seat'[s] = seat[s], seat[s] # None => result'[s] = result[s],
         status'[s[1]] = "completed" <=> status[s[1]] = "completed",
         s[1] = GrandFinal =>
           (status[GrandFinal] = "completed" =>
              (result'[<<GrandFinal, 2>>] = "win" <=> result[<<GrandFinal, 2>>] = "win"))
  PROVE  Last(s)' <=> Last(s)
<1>1. CASE s[1] \notin Finals
  BY <1>1 DEF Last
<1>2. CASE s[1] \in Finals
  BY <1>2 DEF Last
<1> QED BY <1>1, <1>2

----------------------------------------------------------------------------
\* A result of a match that is not a final.
LEMMA OrdinaryRelocates ==
  ASSUME IInv, LInv, ~Override, NEW m \in Matches \ Finals, NEW p \in {1, 2}, Full(m),
         OrdinaryStep(m, p),
         status[m] = "completed" => DecidedBy(m, Other(p)) /\ ReachedNext(m, Other(p))
  PROVE  LInv' /\ Scored(<<m, p>>, <<m, Other(p)>>)
<1> DEFINE W == winnerTo[m]
           L == loserTo[m]
           a == <<m, p>>
           b == <<m, Other(p)>>
           x == IF W = None THEN a ELSE W
           y == IF L = None THEN b ELSE L
<1>1. /\ a \in Slots /\ b \in Slots /\ a # b /\ a[1] = m /\ b[1] = m /\ m \in Matches
      /\ \A s \in Slots : s[1] = m => s = a \/ s = b
      /\ \A s \in Slots : s # None
      /\ m # GrandFinal /\ m # ResetFinal
      /\ LossesAt(a) = LossesAt(b) /\ LossesAt(a) \in {0, 1}
  BY SlotShape, OtherShape, LossesAtShape, Wiring DEF Finals
<1>2. /\ seat[a] # None /\ seat[b] # None /\ seat[a] # seat[b]
  <2>1. seat[<<m, 1>>] # None /\ seat[<<m, 2>>] # None /\ seat[<<m, 1>>] # seat[<<m, 2>>]
    BY DEF Full, IInv, OneRowPerTeam
  <2> QED BY <2>1 DEF Other
<1>3. /\ W # None => W \in Slots /\ W[1] # m /\ W[1] # ResetFinal /\ status[W[1]] # "completed"
                     /\ W # L /\ W[1] \in Matches /\ LossesAt(W) = LossesAt(a)
      /\ L # None => L \in Slots /\ L[1] # m /\ L[1] # ResetFinal /\ status[L[1]] # "completed"
                     /\ L[1] \in Matches /\ LossesAt(L) = 1 /\ LossesAt(a) = 0
  <2>1. W # None => LossesAt(W) = LossesAt(<<m, 1>>)
    BY SecondLoss
  <2>2. LossesAt(<<m, 1>>) = LossesAt(a)
    BY LossesAtShape
  <2>3. L # None => LossesAt(L) = 1 /\ LossesAt(a) = 0
    BY <1>1, SecondLoss DEF LossesAt
  <2>4. W # None => status[W[1]] # "completed"
    BY DEF OrdinaryStep, MayMove
  <2>5. L # None => status[L[1]] # "completed"
    BY DEF OrdinaryStep, MayMove
  <2> QED BY <2>1, <2>2, <2>3, <2>4, <2>5, LinkShape, OwnLinksDiffer
<1>4. /\ \A z \in Matches : status'[z] = IF z = m THEN "completed" ELSE status[z]
      /\ \A s \in Slots : s # W /\ s # L => seat'[s] = seat[s]
      /\ W # None => seat'[W] = seat[a] /\ result'[W] = "none"
      /\ L # None => seat'[L] = seat[b] /\ result'[L] = "none"
      /\ result'[a] = "win" /\ result'[b] = "loss"
      /\ \A s \in Slots : s # a /\ s # b /\ s # W /\ s # L => result'[s] = result[s]
  <2>1. \A z \in Matches : status'[z] = IF z = m THEN "completed" ELSE status[z]
    BY DEF OrdinaryStep, IInv, TypeOK
  <2>2. \A s \in Slots : s # W /\ s # L => seat'[s] = seat[s]
    BY DEF OrdinaryStep
  <2>3. W # None => seat'[W] = seat[a]
    BY <1>3 DEF OrdinaryStep
  <2>4. L # None => seat'[L] = seat[b]
    BY <1>3 DEF OrdinaryStep
  <2>5. result'[a] = "win" /\ result'[b] = "loss"
    BY <1>1 DEF OrdinaryStep
  <2>6. \A s \in {W, L} \ {None} : result'[s] = "none"
    BY <1>1, <1>3 DEF OrdinaryStep
  <2>7. ASSUME NEW s \in Slots, s # a, s # b, s # W, s # L PROVE result'[s] = result[s]
    <3>1. seat'[s] = seat[s] /\ (seat[s] = None => result[s] = "none")
      BY <2>2, <2>7 DEF IInv, TypeOK
    <3> QED BY <2>7, <3>1 DEF OrdinaryStep
  <2> QED BY <2>1, <2>2, <2>3, <2>4, <2>5, <2>6, <2>7
<1>5. /\ x \in Slots /\ y \in Slots /\ x # y /\ b # W /\ b # L /\ a # W /\ a # L
      /\ seat'[x] = seat[a] /\ seat'[y] = seat[b] /\ seat'[b] = seat[b] /\ seat'[a] = seat[a]
  BY <1>1, <1>3, <1>4
<1> DEFINE pa == IF status[m] = "completed" /\ L # None THEN L ELSE a
           pb == IF status[m] = "completed" /\ W # None THEN W ELSE b
<1>6. /\ pa \in Slots /\ Last(pa) /\ seat[pa] = seat[a]
      /\ pb \in Slots /\ Last(pb) /\ seat[pb] = seat[b]
      /\ status[m] = "completed" => result[a] = "loss" /\ result[b] = "win"
  <2>1. CASE status[m] # "completed"
    BY <1>1, <1>2, <2>1, LastCases
  <2>2. CASE status[m] = "completed"
    <3>1. /\ result[b] = "win" /\ result[a] = "loss"
          /\ W # None => seat[W] = seat[b]
          /\ L # None => seat[L] = seat[a]
      BY <2>2, OtherShape DEF DecidedBy, ReachedNext
    <3>2. W # None => Last(W)
      BY <1>2, <1>3, <3>1, LastCases DEF Finals
    <3>3. L # None => Last(L)
      BY <1>2, <1>3, <3>1, LastCases DEF Finals
    <3>4. W = None => Last(b)
      BY <1>1, <1>2, <2>2, <3>1, LastCases
    <3>5. L = None => Last(a)
      BY <1>1, <1>2, <2>2, <3>1, LastCases
    <3> QED BY <1>1, <1>3, <2>2, <3>1, <3>2, <3>3, <3>4, <3>5
  <2> QED BY <2>1, <2>2
<1>7. /\ \A s \in Slots : Last(s) /\ seat[s] = seat[a] => s = pa
      /\ \A s \in Slots : Last(s) /\ seat[s] = seat[b] => s = pb
  BY <1>6 DEF LInv, OneLast
<1>8. /\ W # None => seat[W] \in {None, seat[b]}
      /\ L # None => seat[L] \in {None, seat[a]}
  <2>1. CASE status[m] # "completed"
    BY <2>1 DEF IInv, Advanced
  <2>2. CASE status[m] = "completed"
    BY <2>2, OtherShape DEF ReachedNext
  <2> QED BY <2>1, <2>2
<1>9. \A s \in Slots : Last(s)' <=> s \in {x, y} \/ (Last(s) /\ seat[s] # seat[a] /\ seat[s] # seat[b])
  <2> SUFFICES ASSUME NEW s \in Slots
               PROVE  Last(s)' <=> s \in {x, y} \/ (Last(s) /\ seat[s] # seat[a] /\ seat[s] # seat[b])
    OBVIOUS
  <2>1. CASE s = a
    <3>1. Last(s)' <=> W = None
      BY <1>1, <1>2, <1>4, <1>5, <2>1 DEF Last, Finals
    <3>2. s \in {x, y} <=> W = None
      BY <1>1, <1>5, <2>1
    <3> QED BY <2>1, <3>1, <3>2
  <2>2. CASE s = b
    <3>1. Last(s)' <=> L = None
      BY <1>1, <1>2, <1>4, <1>5, <2>2 DEF Last, Finals
    <3>2. s \in {x, y} <=> L = None
      BY <1>1, <1>5, <2>2
    <3> QED BY <2>2, <3>1, <3>2
  <2>3. CASE s \in {W, L}
    <3>1. s \in {x, y} /\ s # None
      BY <1>1, <2>3
    <3>2. seat'[s] # None /\ s[1] # ResetFinal /\ status'[s[1]] # "completed"
      BY <1>2, <1>3, <1>4, <2>3, <3>1
    <3>3. Last(s)'
      BY <3>2 DEF Last, Finals
    <3> QED BY <3>1, <3>3
  <2>4. CASE s \notin {a, b, W, L}
    <3>1. /\ seat'[s] = seat[s] /\ result'[s] = result[s] /\ s[1] # m /\ s[1] \in Matches
          /\ status'[s[1]] = status[s[1]]
      BY <1>1, <1>4, <2>4, SlotShape
    <3>2. ASSUME s[1] = GrandFinal, status[GrandFinal] = "completed"
          PROVE  result'[<<GrandFinal, 2>>] = result[<<GrandFinal, 2>>]
      <4>1. <<GrandFinal, 2>> \in Slots /\ <<GrandFinal, 2>>[1] = GrandFinal
        BY <3>1, <3>2, SlotShape
      <4>2. <<GrandFinal, 2>> \notin {a, b, W, L}
        BY <1>1, <1>3, <3>2, <4>1
      <4> QED BY <1>4, <4>1, <4>2
    <3>3. Last(s)' <=> Last(s)
      BY <3>1, <3>2, LastSame
    <3>4. Last(s) => seat[s] # seat[a] /\ seat[s] # seat[b]
      BY <1>7, <2>4
    <3>5. s \notin {x, y}
      BY <2>4
    <3> QED BY <3>3, <3>4, <3>5
  <2> QED BY <2>1, <2>2, <2>3, <2>4
<1>10. \A s \in Slots : Last(s) /\ seat[s] # seat[a] /\ seat[s] # seat[b] => seat'[s] = seat[s]
  BY <1>1, <1>4, <1>8 DEF Last
<1>11. \A s \in Slots : seat'[s] \in {None, seat[a], seat[b], seat[s]}
  BY <1>1, <1>4
<1>12. \A s \in Slots : s \in Lost(Matches)' <=> s = b \/ (s \in Lost(Matches) /\ s # a)
  <2> SUFFICES ASSUME NEW s \in Slots
               PROVE  s \in Lost(Matches)' <=> s = b \/ (s \in Lost(Matches) /\ s # a)
    OBVIOUS
  <2>1. s \in Lost(Matches)' <=> status'[s[1]] = "completed" /\ result'[s] = "loss"
    BY SlotShape DEF Lost
  <2>2. s \in Lost(Matches) <=> status[s[1]] = "completed" /\ result[s] = "loss"
    BY SlotShape DEF Lost
  <2>3. CASE s \in {a, b}
    BY <1>1, <1>4, <2>1, <2>3
  <2>4. CASE s \in {W, L}
    BY <1>1, <1>3, <1>4, <2>1, <2>2, <2>4
  <2>5. CASE s \notin {a, b, W, L}
    BY <1>1, <1>4, <2>1, <2>2, <2>5, SlotShape
  <2> QED BY <2>3, <2>4, <2>5
<1>13. Lost(Matches)' = (Lost(Matches) \ {a}) \cup {b}
  <2>1. Lost(Matches) \subseteq Slots /\ Lost(Matches)' \subseteq Slots
    BY DEF Lost
  <2> QED BY <1>1, <1>12, <2>1
<1>14. \A s \in Lost(Matches)' : seat'[s] = seat[s]
  <2> SUFFICES ASSUME NEW s \in Lost(Matches)' PROVE seat'[s] = seat[s]
    OBVIOUS
  <2>1. CASE s = b
    BY <1>5, <2>1
  <2>2. CASE s # b
    <3>1. s \in Slots /\ s \in Matches \X {1, 2} /\ status[s[1]] = "completed"
      BY <1>13, <2>2 DEF Lost, Slots
    <3>2. s # W /\ s # L
      BY <1>1, <1>3, <3>1
    <3> QED BY <1>4, <3>1, <3>2
  <2> QED BY <2>1, <2>2
<1>15. Cardinality(LostBy(seat[a]) \ {a}) = LossesAt(a) /\ Cardinality(LostBy(seat[b]) \ {b}) = LossesAt(b)
  <2>1. /\ IsFiniteSet(LostBy(seat[a])) /\ IsFiniteSet(LostBy(seat[b]))
        /\ Cardinality(LostBy(seat[a])) = IF pa \in Lost(Matches) THEN LossesAt(pa) + 1 ELSE LossesAt(pa)
        /\ Cardinality(LostBy(seat[b])) = IF pb \in Lost(Matches) THEN LossesAt(pb) + 1 ELSE LossesAt(pb)
    BY <1>6, LostByFinite DEF LInv, LossesFit
  <2>2. \A s \in Slots : s \in Lost(Matches) <=> status[s[1]] = "completed" /\ result[s] = "loss"
    BY SlotShape DEF Lost
  <2>3. b \notin Lost(Matches) /\ (a \in Lost(Matches) <=> status[m] = "completed")
    BY <1>1, <1>6, <2>2
  <2>4. LostBy(seat[b]) \ {b} = LostBy(seat[b])
    BY <2>3 DEF LostBy
  <2>5. Cardinality(LostBy(seat[b])) = LossesAt(b)
    BY <1>1, <1>3, <2>1, <2>2, <2>3
  <2>6. CASE status[m] # "completed"
    <3>1. LostBy(seat[a]) \ {a} = LostBy(seat[a])
      BY <2>3, <2>6 DEF LostBy
    <3>2. pa = a
      BY <2>6
    <3> QED BY <2>1, <2>3, <2>4, <2>5, <2>6, <3>1, <3>2
  <2>7. CASE status[m] = "completed"
    <3>1. a \in LostBy(seat[a])
      BY <2>3, <2>7 DEF LostBy
    <3>2. Cardinality(LostBy(seat[a]) \ {a}) = Cardinality(LostBy(seat[a])) - 1
      BY <2>1, <3>1, FS_RemoveElement
    <3>3. Cardinality(LostBy(seat[a])) = LossesAt(a) + 1
      BY <1>1, <1>3, <2>1, <2>2, <2>3, <2>7
    <3>4. Cardinality(LostBy(seat[a]) \ {a}) = (LossesAt(a) + 1) - 1
      BY <3>2, <3>3
    <3>5. LossesAt(a) \in Int
      BY <1>1
    <3>6. Cardinality(LostBy(seat[a]) \ {a}) = LossesAt(a)
      <4> DEFINE n == LossesAt(a)
      <4> HIDE DEF n, a
      <4> QED BY <3>4, <3>5 DEF n
    <3> QED BY <2>4, <2>5, <3>6
  <2> QED BY <2>6, <2>7
<1>16. LossesAt(x) = LossesAt(a) /\ x \notin Lost(Matches)'
  <2>1. CASE W = None
    BY <1>1, <1>12, <2>1
  <2>2. CASE W # None
    <3>1. W \notin Lost(Matches) /\ W # b /\ W \in Slots
      BY <1>3, <1>5, <2>2 DEF Lost
    <3>2. W \notin Lost(Matches)'
      BY <1>12, <3>1
    <3> QED BY <1>3, <2>2, <3>2
  <2> QED BY <2>1, <2>2
<1>17. LossesAt(b) + 1 = IF y \in Lost(Matches)' THEN LossesAt(y) + 1 ELSE LossesAt(y)
  <2>1. CASE L = None
    BY <1>13, <2>1
  <2>2. CASE L # None
    <3>1. L \notin Lost(Matches)
      BY <1>3, <2>2 DEF Lost
    <3> QED BY <1>1, <1>3, <1>5, <1>13, <2>2, <3>1
  <2> QED BY <2>1, <2>2
<1>19. Scored(a, b)
  <2>1. b \notin Lost(Matches)
    BY <1>1, <1>6 DEF Lost
  <2> QED BY <1>2, <1>13, <1>14, <1>15, <2>1 DEF Scored
<1> HIDE DEF W, L, a, b, x, y, pa, pb
<1>18. Cardinality(LostBy(seat[a]) \ {a}) = LossesAt(x) /\ Cardinality(LostBy(seat[b]) \ {b}) + 1
         = IF y \in Lost(Matches)' THEN LossesAt(y) + 1 ELSE LossesAt(y)
  BY <1>15, <1>16, <1>17
<1>20. LInv'
  BY <1>1, <1>2, <1>5, <1>9, <1>10, <1>11, <1>13, <1>14, <1>16, <1>18, Relocated
<1> QED BY <1>19, <1>20 DEF a, b

----------------------------------------------------------------------------
\* The finals.

\* How often a team had lost but for the match of one of its slots.
LEMMA LostElsewhere ==
  ASSUME LossesFit, NEW s \in Slots, NEW l \in Slots, Last(l), seat[l] = seat[s]
  PROVE  /\ (l \in Lost(Matches) <=> s \in Lost(Matches))
              => Cardinality(LostBy(seat[s]) \ {s}) = LossesAt(l)
         /\ l \notin Lost(Matches) /\ s \in Lost(Matches) /\ LossesAt(l) = 1
              => Cardinality(LostBy(seat[s]) \ {s}) = 0
<1> DEFINE n == LossesAt(l)
           S == LostBy(seat[s])
<1>1. /\ IsFiniteSet(S) /\ Cardinality(S) = IF l \in Lost(Matches) THEN n + 1 ELSE n
      /\ n \in Int
  BY LostByFinite, LossesAtShape DEF LossesFit
<1>2. s \in Lost(Matches) <=> s \in S
  BY DEF LostBy
<1>3. Cardinality(S \ {s}) = IF s \in S THEN Cardinality(S) - 1 ELSE Cardinality(S)
  BY <1>1, FS_RemoveElement
<1> HIDE DEF n, S
<1> QED BY <1>1, <1>2, <1>3 DEF n, S

\* Where the two teams of the grand final have their last seats.
LEMMA LastInFinals ==
  ASSUME IInv, ~Override, GrandFinal # None
  PROVE  /\ GrandFinal \in Matches /\ ResetFinal \in Matches /\ GrandFinal # ResetFinal
         /\ ResetFinal # None
         /\ \A q \in {1, 2} : <<GrandFinal, q>> \in Slots /\ <<ResetFinal, q>> \in Slots
         /\ \A s \in Slots : s[1] = ResetFinal => (Last(s) <=> seat[s] # None)
         /\ \A s \in Slots : s[1] = GrandFinal => (Last(s) <=> /\ seat[s] # None
                                   /\ ~(status[GrandFinal] = "completed" /\ result[<<GrandFinal, 2>>] = "win"))
         /\ status[GrandFinal] = "completed" <=> DecidedBy(GrandFinal, 1) \/ DecidedBy(GrandFinal, 2)
         /\ DecidedBy(GrandFinal, 2) => \A q \in {1, 2} : seat[<<ResetFinal, q>>] = seat[<<GrandFinal, q>>]
         /\ ~DecidedBy(GrandFinal, 2) => seat[<<ResetFinal, 1>>] = None /\ seat[<<ResetFinal, 2>>] = None
<1>1. /\ GrandFinal \in Matches /\ ResetFinal \in Matches /\ GrandFinal # ResetFinal
      /\ ResetFinal # None
      /\ \A q \in {1, 2} : <<GrandFinal, q>> \in Slots /\ <<ResetFinal, q>> \in Slots
  BY Wiring, SlotShape
<1>2. /\ \A s \in Slots : s[1] = ResetFinal => (Last(s) <=> seat[s] # None)
      /\ \A s \in Slots : s[1] = GrandFinal => (Last(s) <=> /\ seat[s] # None
                                   /\ ~(status[GrandFinal] = "completed" /\ result[<<GrandFinal, 2>>] = "win"))
  BY <1>1, LastCases
<1>3. status[GrandFinal] # "completed" => ~DecidedBy(GrandFinal, 1) /\ ~DecidedBy(GrandFinal, 2)
  <2>1. <<GrandFinal, 1>>[1] = GrandFinal /\ <<GrandFinal, 2>>[1] = GrandFinal
    OBVIOUS
  <2>2. ASSUME status[GrandFinal] # "completed"
        PROVE  result[<<GrandFinal, 1>>] # "win" /\ result[<<GrandFinal, 2>>] # "win"
    BY <1>1, <2>1, <2>2 DEF IInv, NoWinnerWhileOpen
  <2> QED BY <2>2 DEF DecidedBy
<1>4. DecidedBy(GrandFinal, 1) => ~DecidedBy(GrandFinal, 2)
  BY DEF DecidedBy, Other
<1> QED BY <1>1, <1>2, <1>3, <1>4 DEF IInv, ResetFollowsGrandFinal

LEMMA GrandFinalRelocates ==
  ASSUME IInv, LInv, ~Override, GrandFinal # None, NEW p \in {1, 2},
         status[GrandFinal] # "cancelled", Full(GrandFinal),
         RecordGrandFinal(p) \/ CorrectGrandFinal(p)
  PROVE  LInv' /\ Scored(<<GrandFinal, p>>, <<GrandFinal, Other(p)>>)
<1> DEFINE a == <<GrandFinal, p>>
           b == <<GrandFinal, Other(p)>>
           R(q) == <<ResetFinal, q>>
           x == IF p = 1 THEN a ELSE R(2)
           y == IF p = 1 THEN b ELSE R(1)
<1>1. /\ GrandFinal \in Matches /\ ResetFinal \in Matches /\ GrandFinal # ResetFinal
      /\ GrandFinal \in Finals /\ ResetFinal \in Finals
      /\ a \in Slots /\ b \in Slots /\ a # b /\ a[1] = GrandFinal /\ b[1] = GrandFinal
      /\ R(1) \in Slots /\ R(2) \in Slots /\ R(1)[1] = ResetFinal /\ R(2)[1] = ResetFinal
      /\ \A s \in Slots : s[1] = GrandFinal => s \in {a, b}
      /\ \A s \in Slots : s[1] = ResetFinal => s \in {R(1), R(2)}
      /\ R(1) # R(2) /\ a \notin {R(1), R(2)} /\ b \notin {R(1), R(2)}
  <2>1. \A s \in Slots : s[1] = GrandFinal => s \in {a, b}
    BY SlotShape DEF Other
  <2>2. \A s \in Slots : s[1] = ResetFinal => s \in {R(1), R(2)}
    BY SlotShape
  <2> QED BY <2>1, <2>2, LastInFinals, OtherShape DEF Finals
<1>2. /\ seat[a] # None /\ seat[b] # None /\ seat[a] # seat[b]
  <2>1. /\ seat[<<GrandFinal, 1>>] # None /\ seat[<<GrandFinal, 2>>] # None
        /\ seat[<<GrandFinal, 1>>] # seat[<<GrandFinal, 2>>]
    BY <1>1 DEF Full, IInv, OneRowPerTeam
  <2> QED BY <2>1 DEF Other
<1>3. /\ status[ResetFinal] # "completed" /\ status'[ResetFinal] # "completed"
      /\ status'[GrandFinal] = "completed"
      /\ \A m \in Matches \ Finals : status'[m] = status[m]
      /\ \A s \in Slots : s[1] # ResetFinal => seat'[s] = seat[s]
      /\ p = 1 => seat'[R(1)] = None /\ seat'[R(2)] = None
      /\ p = 2 => seat'[R(1)] = seat[b] /\ seat'[R(2)] = seat[a]
      /\ result'[a] = "win" /\ result'[b] = "loss"
      /\ \A s \in Slots : s[1] \notin Finals => result'[s] = result[s]
  <2>1. /\ status[ResetFinal] # "completed"
        /\ status'[GrandFinal] = "completed"
        /\ \A m \in Matches \ Finals : status'[m] = status[m]
        /\ \A s \in Slots : s[1] # ResetFinal => seat'[s] = seat[s]
        /\ p = 1 => seat'[R(1)] = None /\ seat'[R(2)] = None
        /\ p = 2 => seat'[R(1)] = seat[<<GrandFinal, 1>>] /\ seat'[R(2)] = seat[<<GrandFinal, 2>>]
        /\ result'[a] = "win" /\ result'[b] = "loss"
    BY GrandFinalStep
  <2>2. status'[ResetFinal] # "completed"
    <3>1. status'[ResetFinal] \in IF p = 1 THEN {"cancelled"} ELSE Open
      BY GrandFinalStep
    <3> QED BY <3>1 DEF Open
  <2>3. \A s \in Slots : s[1] \notin Finals => result'[s] = result[s]
    <3> SUFFICES ASSUME NEW s \in Slots, s[1] \notin Finals PROVE result'[s] = result[s]
      OBVIOUS
    <3>1. seat'[s] = seat[s]
      BY <1>1, <2>1
    <3>2. seat'[s] # None => result'[s] = result[s]
      BY GrandFinalStep
    <3>3. seat'[s] = None => result'[s] = "none"
      BY GrandFinalStep
    <3> QED BY <3>1, <3>2, <3>3 DEF IInv, TypeOK
  <2>4. p = 2 => a = <<GrandFinal, 2>> /\ b = <<GrandFinal, 1>>
    BY DEF Other
  <2> QED BY <2>1, <2>2, <2>3, <2>4
<1>4. status[GrandFinal] = "completed" => DecidedBy(GrandFinal, Other(p))
  <2>1. CASE RecordGrandFinal(p)
    BY <2>1, LastInFinals DEF RecordGrandFinal, HasWinner, DecidedBy
  <2>2. CASE CorrectGrandFinal(p)
    BY <2>2, LastInFinals DEF CorrectGrandFinal, DecidedBy, Other
  <2> QED BY <2>1, <2>2
<1> DEFINE swap == status[GrandFinal] = "completed" /\ p = 1
           pa == IF swap THEN R(1) ELSE a
           pb == IF swap THEN R(2) ELSE b
<1>5. /\ pa \in Slots /\ Last(pa) /\ seat[pa] = seat[a]
      /\ pb \in Slots /\ Last(pb) /\ seat[pb] = seat[b]
      /\ status[GrandFinal] = "completed" => result[a] = "loss" /\ result[b] = "win"
      /\ status[GrandFinal] = "completed" /\ p = 2 => seat[R(1)] = None /\ seat[R(2)] = None
      /\ status[GrandFinal] # "completed" => seat[R(1)] = None /\ seat[R(2)] = None
  <2>1. CASE status[GrandFinal] # "completed"
    BY <1>1, <1>2, <2>1, LastInFinals
  <2>2. CASE status[GrandFinal] = "completed" /\ p = 1
    <3>1. DecidedBy(GrandFinal, 2) /\ a = <<GrandFinal, 1>> /\ b = <<GrandFinal, 2>>
      BY <1>4, <2>2 DEF Other
    <3>2. seat[R(1)] = seat[a] /\ seat[R(2)] = seat[b]
      BY <3>1, LastInFinals
    <3>3. Last(R(1)) /\ Last(R(2))
      BY <1>1, <1>2, <3>2, LastInFinals
    <3>4. result[a] = "loss" /\ result[b] = "win"
      BY <3>1 DEF DecidedBy, Other
    <3> QED BY <1>1, <2>2, <3>2, <3>3, <3>4
  <2>3. CASE status[GrandFinal] = "completed" /\ p = 2
    <3>1. DecidedBy(GrandFinal, 1) /\ a = <<GrandFinal, 2>> /\ b = <<GrandFinal, 1>>
      BY <1>4, <2>3 DEF Other
    <3>2. result[a] = "loss" /\ result[b] = "win" /\ ~DecidedBy(GrandFinal, 2)
      BY <3>1 DEF DecidedBy, Other
    <3>3. Last(a) /\ Last(b)
      BY <1>1, <1>2, <3>1, <3>2, LastInFinals
    <3>4. seat[R(1)] = None /\ seat[R(2)] = None
      BY <3>2, LastInFinals
    <3> QED BY <1>1, <2>3, <3>2, <3>3, <3>4
  <2> QED BY <2>1, <2>2, <2>3
<1>6. /\ \A s \in Slots : Last(s) /\ seat[s] = seat[a] => s = pa
      /\ \A s \in Slots : Last(s) /\ seat[s] = seat[b] => s = pb
  BY <1>5 DEF LInv, OneLast
<1>7. /\ x \in Slots /\ y \in Slots /\ seat'[x] = seat[a] /\ seat'[y] = seat[b] /\ seat'[b] = seat[b]
      /\ seat'[a] = seat[a]
  BY <1>1, <1>3
<1>8. \A s \in Slots : Last(s)' <=> s \in {x, y} \/ (Last(s) /\ seat[s] # seat[a] /\ seat[s] # seat[b])
  <2> SUFFICES ASSUME NEW s \in Slots
               PROVE  Last(s)' <=> s \in {x, y} \/ (Last(s) /\ seat[s] # seat[a] /\ seat[s] # seat[b])
    OBVIOUS
  <2>1. CASE s[1] = GrandFinal
    <3>1. s \in {a, b}
      BY <1>1, <2>1
    <3>2. Last(s)' <=> result'[<<GrandFinal, 2>>] # "win"
      BY <1>1, <1>2, <1>3, <2>1, <3>1 DEF Last
    <3>3. result'[<<GrandFinal, 2>>] # "win" <=> p = 1
      BY <1>3 DEF Other
    <3> QED BY <1>1, <3>1, <3>2, <3>3
  <2>2. CASE s[1] = ResetFinal
    <3>1. s \in {R(1), R(2)}
      BY <1>1, <2>2
    <3>2. Last(s)' <=> seat'[s] # None
      BY <1>1, <2>2 DEF Last
    <3>3. Last(s)' <=> p = 2
      BY <1>2, <1>3, <3>1, <3>2
    <3>4. Last(s) => seat[s] = seat[a] \/ seat[s] = seat[b]
      <4>1. Last(s) => seat[s] # None
        BY DEF Last
      <4>2. seat[s] # None => swap
        BY <1>5, <3>1
      <4>3. swap => seat[R(1)] = seat[a] /\ seat[R(2)] = seat[b]
        BY <1>5
      <4> QED BY <3>1, <4>1, <4>2, <4>3
    <3>5. s \in {x, y} <=> p = 2
      BY <1>1, <3>1
    <3> QED BY <3>3, <3>4, <3>5
  <2>3. CASE s[1] \notin Finals
    <3>1. seat'[s] = seat[s] /\ result'[s] = result[s] /\ status'[s[1]] = status[s[1]]
          /\ s[1] # GrandFinal
      BY <1>1, <1>3, <2>3, SlotShape
    <3>2. Last(s)' <=> Last(s)
      BY <3>1, LastSame
    <3>3. s \notin {x, y} /\ s # pa /\ s # pb
      BY <1>1, <2>3
    <3> QED BY <1>6, <3>2, <3>3
  <2> QED BY <2>1, <2>2, <2>3 DEF Finals
<1>9. \A s \in Slots : Last(s) /\ seat[s] # seat[a] /\ seat[s] # seat[b] => seat'[s] = seat[s]
  <2> SUFFICES ASSUME NEW s \in Slots, Last(s), seat[s] # seat[a], seat[s] # seat[b]
               PROVE  seat'[s] = seat[s]
    OBVIOUS
  <2>1. CASE s[1] = ResetFinal
    <3>1. s \in {R(1), R(2)} /\ seat[s] # None
      BY <1>1, <2>1 DEF Last
    <3> QED BY <1>5, <3>1
  <2> QED BY <1>3, <2>1
<1>10. \A s \in Slots : seat'[s] \in {None, seat[a], seat[b], seat[s]}
  <2> SUFFICES ASSUME NEW s \in Slots PROVE seat'[s] \in {None, seat[a], seat[b], seat[s]}
    OBVIOUS
  <2>1. CASE s[1] = ResetFinal
    <3>1. s \in {R(1), R(2)}
      BY <1>1, <2>1
    <3> QED BY <1>3, <3>1
  <2> QED BY <1>3, <2>1
<1>11. Lost(Matches)' = (Lost(Matches) \ {a}) \cup {b}
  <2>1. ASSUME NEW s \in Slots
        PROVE  s \in Lost(Matches)' <=> s = b \/ (s \in Lost(Matches) /\ s # a)
    <3>1. s \in Lost(Matches)' <=> status'[s[1]] = "completed" /\ result'[s] = "loss"
      BY SlotShape DEF Lost
    <3>2. s \in Lost(Matches) <=> status[s[1]] = "completed" /\ result[s] = "loss"
      BY SlotShape DEF Lost
    <3>3. CASE s[1] = GrandFinal
      <4>1. s \in {a, b}
        BY <1>1, <3>3
      <4> QED BY <1>1, <1>3, <3>1, <3>3, <4>1
    <3>4. CASE s[1] = ResetFinal
      BY <1>1, <1>3, <3>1, <3>2, <3>4
    <3>5. CASE s[1] \notin Finals
      BY <1>1, <1>3, <3>1, <3>2, <3>5, SlotShape
    <3> QED BY <3>3, <3>4, <3>5 DEF Finals
  <2>2. Lost(Matches) \subseteq Slots /\ Lost(Matches)' \subseteq Slots
    BY DEF Lost
  <2> QED BY <1>1, <2>1, <2>2
<1>12. \A s \in Lost(Matches)' : seat'[s] = seat[s]
  <2> SUFFICES ASSUME NEW s \in Lost(Matches)' PROVE seat'[s] = seat[s]
    OBVIOUS
  <2>1. s \in Slots /\ status'[s[1]] = "completed"
    BY DEF Lost
  <2> QED BY <1>3, <2>1
<1>13. /\ a \in Lost(Matches) <=> status[GrandFinal] = "completed"
       /\ b \notin Lost(Matches)
       /\ R(1) \notin Lost(Matches) /\ R(2) \notin Lost(Matches)
       /\ R(1) \notin Lost(Matches)' /\ R(2) \notin Lost(Matches)'
       /\ a \notin Lost(Matches)' /\ b \in Lost(Matches)'
  BY <1>1, <1>3, <1>5, <1>11 DEF Lost
<1>14. LossesAt(<<GrandFinal, 1>>) = 0 /\ LossesAt(<<GrandFinal, 2>>) = 1 /\ LossesAt(R(1)) = 1 /\ LossesAt(R(2)) = 1
  BY LossesAtShape
<1>15. Cardinality(LostBy(seat[a]) \ {a}) = LossesAt(x)
  <2>0. LossesFit
    BY DEF LInv
  <2>1. CASE swap
    <3>1. pa = R(1) /\ x = a /\ a = <<GrandFinal, 1>>
      BY <2>1
    <3>2. Cardinality(LostBy(seat[a]) \ {a}) = 0
      BY <1>1, <1>5, <1>13, <1>14, <2>0, <2>1, <3>1, LostElsewhere
    <3> QED BY <1>14, <3>1, <3>2
  <2>2. CASE ~swap
    <3>1. pa = a
      BY <2>2
    <3>2. Cardinality(LostBy(seat[a]) \ {a}) = LossesAt(a)
      BY <1>1, <1>5, <2>0, <3>1, LostElsewhere
    <3>3. LossesAt(a) = LossesAt(x)
      BY <1>14
    <3> QED BY <3>2, <3>3
  <2> QED BY <2>1, <2>2
<1>16. Cardinality(LostBy(seat[b]) \ {b}) + 1 = IF y \in Lost(Matches)' THEN LossesAt(y) + 1 ELSE LossesAt(y)
  <2>1. LossesFit
    BY DEF LInv
  <2>2. Cardinality(LostBy(seat[b]) \ {b}) = LossesAt(pb)
    BY <1>1, <1>5, <1>13, <2>1, LostElsewhere
  <2>3. CASE p = 1
    <3>1. y = b /\ b = <<GrandFinal, 2>> /\ pb \in {b, R(2)}
      BY <2>3 DEF Other
    <3> QED BY <1>13, <1>14, <2>2, <3>1
  <2>4. CASE p = 2
    <3>1. y = R(1) /\ b = <<GrandFinal, 1>> /\ pb = b
      BY <2>4 DEF Other
    <3> QED BY <1>13, <1>14, <2>2, <3>1
  <2> QED BY <2>3, <2>4
<1>17. x \notin Lost(Matches)'
  BY <1>13
<1>18. Scored(a, b)
  <2>1. LossesAt(x) = LossesAt(a)
    <3>1. p = 2 => a = <<GrandFinal, 2>>
      OBVIOUS
    <3> QED BY <1>14, <3>1
  <2>2. Cardinality(LostBy(seat[b]) \ {b}) = LossesAt(b)
    <3>1. Cardinality(LostBy(seat[b]) \ {b}) = LossesAt(pb)
      BY <1>1, <1>5, <1>13, LostElsewhere DEF LInv
    <3>2. swap => b = <<GrandFinal, 2>> /\ pb = R(2)
      BY DEF Other
    <3>3. LossesAt(pb) = LossesAt(b)
      BY <1>14, <3>2
    <3> QED BY <3>1, <3>3
  <2> QED BY <1>2, <1>11, <1>12, <1>13, <1>15, <2>1, <2>2 DEF Scored
<1> HIDE DEF a, b, x, y, R, pa, pb, swap
<1>19. LInv'
  BY <1>1, <1>2, <1>7, <1>8, <1>9, <1>10, <1>11, <1>12, <1>15, <1>16, <1>17, Relocated
<1> QED BY <1>18, <1>19 DEF a, b

\* The reset final: nobody moves.
LEMMA ResetFinalRelocates ==
  ASSUME IInv, ResetDecided, LInv, ~Override, ResetFinal # None, NEW p \in {1, 2},
         status[ResetFinal] # "cancelled", Full(ResetFinal), RecordResetFinal(p)
  PROVE  LInv' /\ Scored(<<ResetFinal, p>>, <<ResetFinal, Other(p)>>)
<1> DEFINE a == <<ResetFinal, p>>
           b == <<ResetFinal, Other(p)>>
<1>1. /\ GrandFinal # None /\ GrandFinal \in Matches /\ ResetFinal \in Matches
      /\ GrandFinal # ResetFinal /\ ResetFinal \in Finals
      /\ a \in Slots /\ b \in Slots /\ a # b /\ a[1] = ResetFinal /\ b[1] = ResetFinal
      /\ \A s \in Slots : s[1] = ResetFinal => s \in {a, b}
      /\ LossesAt(a) = 1 /\ LossesAt(b) = 1
  <2>1. GrandFinal # None /\ GrandFinal \in Matches /\ ResetFinal \in Matches /\ GrandFinal # ResetFinal
    BY Wiring
  <2>2. \A s \in Slots : s[1] = ResetFinal => s \in {a, b}
    BY SlotShape DEF Other
  <2>3. LossesAt(a) = 1 /\ LossesAt(b) = 1
    BY <2>1, LossesAtShape, OtherShape
  <2> QED BY <2>1, <2>2, <2>3, SlotShape, OtherShape DEF Finals
<1>2. /\ seat[a] # None /\ seat[b] # None /\ seat[a] # seat[b]
  <2>1. /\ seat[<<ResetFinal, 1>>] # None /\ seat[<<ResetFinal, 2>>] # None
        /\ seat[<<ResetFinal, 1>>] # seat[<<ResetFinal, 2>>]
    BY <1>1 DEF Full, IInv, OneRowPerTeam
  <2> QED BY <2>1 DEF Other
<1>3. /\ seat' = seat
      /\ \A m \in Matches : status'[m] = IF m = ResetFinal THEN "completed" ELSE status[m]
      /\ result'[a] = "win" /\ result'[b] = "loss"
      /\ \A s \in Slots : s \notin {a, b} => result'[s] = result[s]
  BY <1>1, SlotShape DEF RecordResetFinal, Results, IInv, TypeOK
<1>4. status[ResetFinal] = "completed" => result[a] = "loss" /\ result[b] = "win"
  <2> SUFFICES ASSUME status[ResetFinal] = "completed" PROVE result[a] = "loss" /\ result[b] = "win"
    OBVIOUS
  <2>1. PICK q \in {1, 2} : DecidedBy(ResetFinal, q)
    BY DEF ResetDecided
  <2>2. q # p
    BY <2>1 DEF RecordResetFinal, DecidedBy
  <2>3. q = Other(p) /\ Other(q) = p
    BY <2>2 DEF Other
  <2> QED BY <2>1, <2>3 DEF DecidedBy
<1>5. Last(a) /\ Last(b)
  BY <1>1, <1>2, LastInFinals
<1>6. \A s \in Slots : Last(s)' <=> s \in {a, b} \/ (Last(s) /\ seat[s] # seat[a] /\ seat[s] # seat[b])
  <2> SUFFICES ASSUME NEW s \in Slots
               PROVE  Last(s)' <=> s \in {a, b} \/ (Last(s) /\ seat[s] # seat[a] /\ seat[s] # seat[b])
    OBVIOUS
  <2>1. CASE s \in {a, b}
    BY <1>1, <1>2, <1>3, <2>1 DEF Last
  <2>2. CASE s \notin {a, b}
    <3>1. s[1] # ResetFinal /\ seat'[s] = seat[s] /\ result'[s] = result[s] /\ status'[s[1]] = status[s[1]]
      BY <1>1, <1>3, <2>2, SlotShape
    <3>2. <<GrandFinal, 2>> \in Slots /\ <<GrandFinal, 2>> \notin {a, b}
      BY <1>1, SlotShape
    <3>3. Last(s)' <=> Last(s)
      BY <1>3, <3>1, <3>2, LastSame
    <3>4. Last(s) => seat[s] # seat[a] /\ seat[s] # seat[b]
      BY <1>1, <1>5, <2>2 DEF LInv, OneLast
    <3> QED BY <2>2, <3>3, <3>4
  <2> QED BY <2>1, <2>2
<1>7. Lost(Matches)' = (Lost(Matches) \ {a}) \cup {b}
  <2>1. ASSUME NEW s \in Slots
        PROVE  s \in Lost(Matches)' <=> s = b \/ (s \in Lost(Matches) /\ s # a)
    <3>1. s \in Lost(Matches)' <=> status'[s[1]] = "completed" /\ result'[s] = "loss"
      BY SlotShape DEF Lost
    <3>2. s \in Lost(Matches) <=> status[s[1]] = "completed" /\ result[s] = "loss"
      BY SlotShape DEF Lost
    <3>3. CASE s \in {a, b}
      BY <1>1, <1>3, <3>1, <3>3
    <3>4. CASE s \notin {a, b}
      BY <1>1, <1>3, <3>1, <3>2, <3>4, SlotShape
    <3> QED BY <3>3, <3>4
  <2>2. Lost(Matches) \subseteq Slots /\ Lost(Matches)' \subseteq Slots
    BY DEF Lost
  <2> QED BY <1>1, <2>1, <2>2
<1>8. /\ a \in Lost(Matches) <=> status[ResetFinal] = "completed"
      /\ b \notin Lost(Matches) /\ a \notin Lost(Matches)' /\ b \in Lost(Matches)'
  BY <1>1, <1>4, <1>7 DEF Lost
<1>9. /\ Cardinality(LostBy(seat[a]) \ {a}) = LossesAt(a)
      /\ Cardinality(LostBy(seat[b]) \ {b}) = LossesAt(b)
  BY <1>1, <1>5, LostElsewhere DEF LInv
<1>10. Cardinality(LostBy(seat[b]) \ {b}) + 1 = IF b \in Lost(Matches)' THEN LossesAt(b) + 1 ELSE LossesAt(b)
  BY <1>8, <1>9
<1>11. Scored(a, b)
  BY <1>2, <1>3, <1>7, <1>8, <1>9 DEF Scored
<1> HIDE DEF a, b
<1>12. LInv'
  BY <1>1, <1>2, <1>3, <1>6, <1>7, <1>8, <1>9, <1>10, Relocated
<1> QED BY <1>11, <1>12 DEF a, b

----------------------------------------------------------------------------
\* The invariant of the last seats.

\* Calling a match, replaying a tie and editing the phase touch no completed match.
LEMMA SameLasts ==
  ASSUME LInv, UNCHANGED seat,
         \A m \in Matches : status'[m] = "completed" <=> status[m] = "completed",
         \A s \in Slots : status[s[1]] = "completed" => result'[s] = result[s]
  PROVE  LInv'
<1>1. ASSUME NEW s \in Slots PROVE Last(s)' <=> Last(s)
  <2>1. /\ s[1] \in Matches
        /\ s[1] = GrandFinal => <<GrandFinal, 2>> \in Slots /\ <<GrandFinal, 2>>[1] = GrandFinal
    BY SlotShape
  <2>2. CASE s[1] \in Finals
    BY <2>1, <2>2 DEF Last
  <2>3. CASE s[1] \notin Finals
    BY <2>1, <2>3 DEF Last
  <2> QED BY <2>2, <2>3
<1>2. Lost(Matches)' = Lost(Matches)
  BY SlotShape DEF Lost
<1>3. \A t : Losses(t)' = Losses(t)
  BY <1>2 DEF Losses
<1>4. OneLast => OneLast'
  BY <1>1 DEF OneLast
<1>5. HasLast => HasLast'
  BY <1>1 DEF HasLast
<1>6. LossesFit => LossesFit'
  BY <1>1, <1>2, <1>3 DEF LossesFit
<1>7. Seated' = Seated
  BY DEF Seated
<1> QED BY <1>4, <1>5, <1>6, <1>7 DEF LInv, Field

\* A fresh bracket: every team sits where it was placed up front and has lost nothing.
Fresh ==
  /\ status = [m \in Matches |-> "scheduled"]
  /\ seat = entry
  /\ result = [s \in Slots |-> "none"]

LEMMA FreshLasts == Fresh => LInv
<1> SUFFICES ASSUME Fresh PROVE OneLast /\ HasLast /\ LossesFit /\ Seated = Field
  BY DEF LInv
<1>1. /\ \A m \in Matches : status[m] = "scheduled"
      /\ \A s \in Slots : result[s] = "none"
      /\ seat = entry
  BY DEF Fresh
<1>2. \A s \in Slots : Last(s) <=> entry[s] # None
  BY <1>1, SlotShape DEF Last
<1>3. OneLast
  BY <1>1, <1>2, OneSource DEF OneLast
<1>4. HasLast
  BY <1>1, <1>2 DEF HasLast
<1>5. Lost(Matches) = {}
  BY <1>1 DEF Lost
<1>6. \A t : Losses(t) = 0
  BY <1>5, FS_EmptySet DEF Losses
<1>7. LossesFit
  BY <1>2, <1>5, <1>6, SecondLoss DEF LossesFit
<1>8. Seated = Field
  BY <1>1 DEF Seated, Field
<1> QED BY <1>3, <1>4, <1>7, <1>8

\* A recorded result is one of its match, or the winner already recorded.
LEMMA RecordLasts ==
  ASSUME IInv, ResetDecided, LInv, ~Override, NEW m \in Matches, NEW p \in {1, 2}, RecordResult(m, p)
  PROVE  /\ LInv'
         /\ Scored(<<m, p>>, <<m, Other(p)>>) \/ UNCHANGED <<status, seat, result>>
<1>1. status[m] # "cancelled" /\ Full(m)
  BY DEF RecordResult
<1>2. CASE RecordMatch(m, p)
  <2>1. m \in Matches \ Finals /\ OrdinaryStep(m, p)
    BY <1>2, RecordIsOrdinary DEF RecordMatch
  <2>2. status[m] # "completed"
    BY <1>2, <2>1, OtherShape DEF IInv, Advanced, DecidedBy, RecordMatch, HasWinner
  <2> QED BY <1>1, <2>1, <2>2, OrdinaryRelocates
<1>3. CASE CorrectMatch(m, p)
  <2>1. m \in Matches \ Finals /\ OrdinaryStep(m, p) /\ status[m] = "completed" /\ result[<<m, p>>] # "win"
    BY <1>3, CorrectIsOrdinary DEF CorrectMatch, HasWinner
  <2>2. PICK q \in {1, 2} : DecidedBy(m, q) /\ ReachedNext(m, q)
    BY <2>1 DEF IInv, Advanced
  <2>3. q = Other(p)
    BY <2>1, <2>2 DEF DecidedBy, Other
  <2> QED BY <1>1, <2>1, <2>2, <2>3, OrdinaryRelocates
<1>4. CASE m = GrandFinal /\ (RecordGrandFinal(p) \/ CorrectGrandFinal(p))
  BY <1>1, <1>4, GrandFinalRelocates, Wiring
<1>5. CASE m = ResetFinal /\ RecordResetFinal(p)
  BY <1>1, <1>5, ResetFinalRelocates, Wiring
<1>6. CASE RecordSame(m, p)
  BY <1>6, SameLasts DEF RecordSame
<1> QED BY <1>2, <1>3, <1>4, <1>5, <1>6 DEF RecordResult

LEMMA LastsKept == IInv /\ ResetDecided /\ LInv /\ [Next]_vars => LInv'
<1> SUFFICES ASSUME IInv, ResetDecided, LInv, [Next]_vars, ~Override PROVE LInv'
  BY DEF LInv
<1>1. ASSUME NEW m \in Matches, NEW p \in {1, 2}, RecordResult(m, p) PROVE LInv'
  BY <1>1, RecordLasts
<1>2. ASSUME NEW m \in Matches, Replay(m) PROVE LInv'
  <2>1. \A s \in Slots : status[s[1]] = "completed" => s # <<m, 1>> /\ s # <<m, 2>>
    BY <1>2 DEF Replay
  <2>2. \A s \in Slots : status[s[1]] = "completed" => result'[s] = result[s]
    BY <1>2, <2>1 DEF Replay, IInv, TypeOK
  <2>3. UNCHANGED <<seat, status>>
    BY <1>2 DEF Replay
  <2> QED BY <2>2, <2>3, SameLasts
<1>3. ASSUME NEW m \in Matches, NEW st \in Status, EditMatch(m, st) PROVE LInv'
  <2>1. /\ UNCHANGED <<seat, result>>
        /\ \A x \in Matches : status'[x] = "completed" <=> status[x] = "completed"
    BY <1>3 DEF EditMatch, IInv, TypeOK, Open
  <2> QED BY <2>1, SameLasts
<1>4. ASSUME NEW st \in PhaseStatus, EditPhase(st) PROVE LInv'
  BY <1>4, SameLasts DEF EditPhase
<1>5. CASE Regenerate
  <2>1. Fresh'
    BY <1>5 DEF Regenerate, Fresh
  <2>2. Fresh' => LInv'
    BY FreshLasts, PTL
  <2> QED BY <2>1, <2>2
<1>6. CASE UNCHANGED vars
  BY <1>6, SameLasts DEF vars
<1> QED BY <1>1, <1>2, <1>3, <1>4, <1>5, <1>6 DEF Next

\* The invariants that the theorems below follow from.
Lives == IInv /\ ResetDecided /\ LInv

LEMMA AlwaysLives == Spec => []Lives
<1>1. Init => Lives
  <2>1. Init => Fresh
    BY DEF Init, Fresh
  <2>2. Init => ResetDecided
    BY Wiring DEF Init, ResetDecided
  <2> QED BY <2>1, <2>2, InitIInv, FreshLasts DEF Lives
<1>2. Lives /\ [Next]_vars => Lives'
  BY NextKeepsIInv, ResetDecidedKept, LastsKept DEF Lives
<1> QED BY <1>1, <1>2, PTL DEF Spec

----------------------------------------------------------------------------
\* The places of the teams, from their last seats.

\* A last seat in a completed match is a champion's or that of a team that is out.
LEMMA Fates ==
  ASSUME Lives, ~Override, NEW s \in Slots
  PROVE  Last(s) /\ status[s[1]] = "completed"
           <=> \/ s \in Lost(Eliminating) \/ s \in Lost(Deciding \cap Finals)
               \/ s[1] \in Deciding /\ result[s] = "win"
<1> USE DEF Lives, IInv
<1>1. s[1] \in Matches /\ s = <<s[1], s[2]>> /\ s[2] \in {1, 2}
  BY SlotShape
<1>2. ASSUME s[1] \in Finals
      PROVE  GrandFinal # None /\ GrandFinal \in Matches /\ ResetFinal \in Matches /\ ResetFinal # None
  BY <1>1, <1>2, Wiring DEF Finals
<1>3. s[1] \notin Finals =>
        (s \in Lost(Deciding \cap Finals) <=> FALSE) /\
        (s \in Lost(Eliminating) <=> loserTo[s[1]] = None /\ status[s[1]] = "completed" /\ result[s] = "loss")
  BY <1>1 DEF Lost, Eliminating
<1>4. s[1] \in Finals =>
        (s \in Lost(Eliminating) <=> FALSE) /\
        (s \in Lost(Deciding \cap Finals) <=> s[1] \in Deciding /\ status[s[1]] = "completed" /\ result[s] = "loss")
  BY <1>1 DEF Lost, Eliminating
<1>5. CASE s[1] \notin Finals
  <2>1. CASE status[s[1]] # "completed"
    BY <1>3, <1>5, <2>1 DEF Deciding
  <2>2. CASE status[s[1]] = "completed"
    <3>1. PICK q \in {1, 2} : DecidedBy(s[1], q)
      BY <1>1, <1>5, <2>2 DEF Advanced
    <3>2. result[s] \in {"win", "loss"} /\ seat[s] # None
      BY <1>1, <3>1 DEF DecidedBy, Full, Other
    <3>3. s[1] \in Deciding <=> GrandFinal = None /\ winnerTo[s[1]] = None
      BY <1>1, <1>5, <2>2 DEF Deciding, Finals
    <3>4. winnerTo[s[1]] = None => GrandFinal = None
      BY <1>1, <1>5, SecondLoss
    <3>5. CASE result[s] = "win"
      BY <1>3, <1>5, <2>2, <3>2, <3>3, <3>4, <3>5, LastCases
    <3>6. CASE result[s] = "loss"
      BY <1>3, <1>5, <2>2, <3>2, <3>6, LastCases
    <3> QED BY <3>2, <3>5, <3>6
  <2> QED BY <2>1, <2>2
<1>6. CASE s[1] = GrandFinal
  <2>1. s[1] \in Finals /\ GrandFinal # None
    BY <1>2, <1>6 DEF Finals
  <2>2. CASE status[s[1]] # "completed"
    BY <1>4, <2>1, <2>2 DEF Deciding
  <2>3. CASE status[s[1]] = "completed"
    <3>1. DecidedBy(GrandFinal, 1) \/ DecidedBy(GrandFinal, 2)
      BY <1>6, <2>1, <2>3, LastInFinals
    <3>2. Last(s) <=> seat[s] # None /\ result[<<GrandFinal, 2>>] # "win"
      BY <1>6, <2>3, LastCases
    <3>3. result[s] \in {"win", "loss"} /\ seat[s] # None
      BY <1>1, <1>6, <3>1 DEF DecidedBy, Full, Other
    <3>4. s[1] \in Deciding <=> result[<<GrandFinal, 1>>] = "win"
      BY <1>1, <1>6, <2>1, <2>3, Wiring DEF Deciding
    <3>5. result[<<GrandFinal, 1>>] = "win" <=> result[<<GrandFinal, 2>>] # "win"
      BY <3>1 DEF DecidedBy, Other
    <3> QED BY <1>4, <2>1, <2>3, <3>2, <3>3, <3>4, <3>5
  <2> QED BY <2>2, <2>3
<1>7. CASE s[1] = ResetFinal
  <2>1. s[1] \in Finals /\ GrandFinal # None /\ GrandFinal # ResetFinal /\ ResetFinal # None
    BY <1>2, <1>7, Wiring DEF Finals
  <2>2. CASE status[s[1]] # "completed"
    BY <1>4, <2>1, <2>2 DEF Deciding
  <2>3. CASE status[s[1]] = "completed"
    <3>1. PICK q \in {1, 2} : DecidedBy(ResetFinal, q)
      BY <1>7, <2>1, <2>3 DEF ResetDecided
    <3>2. result[s] \in {"win", "loss"} /\ seat[s] # None
      BY <1>1, <1>7, <3>1 DEF DecidedBy, Full, Other
    <3>3. DecidedBy(GrandFinal, 2)
      <4>1. seat[<<ResetFinal, 1>>] # None
        BY <3>1 DEF DecidedBy, Full
      <4> QED BY <2>1, <4>1, LastInFinals
    <3>4. status[GrandFinal] = "completed"
      BY <2>1, <3>3, LastInFinals
    <3>5. s[1] \in Deciding
      BY <1>1, <1>7, <2>1, <2>3, <3>3, <3>4 DEF Deciding, DecidedBy
    <3>6. Last(s)
      BY <1>7, <2>1, <3>2, LastCases
    <3> QED BY <1>4, <2>1, <2>3, <3>2, <3>5, <3>6
  <2> QED BY <2>2, <2>3
<1> QED BY <1>5, <1>6, <1>7 DEF Finals

\* The rounds knock out fewer teams than there are.
LEMMA NeverFirst ==
  ASSUME Lives, ~Override, NEW m \in Matches
  PROVE  Cardinality(Seated) - Behind(m) + 1 # 1
<1>1. Seated = Field
  BY DEF Lives, LInv
<1>2. IsFiniteSet(Eliminating)
  BY Wiring, FS_Subset DEF Eliminating
<1>3. {e \in Eliminating : stage[e] <= stage[m]} \subseteq Eliminating
  OBVIOUS
<1>4. Behind(m) <= Cardinality(Eliminating) /\ Behind(m) \in Nat /\ Cardinality(Eliminating) \in Nat
  <2>1. IsFiniteSet({e \in Eliminating : stage[e] <= stage[m]})
    BY <1>2, <1>3, FS_Subset
  <2> QED BY <1>2, <1>3, <2>1, FS_Subset, FS_CardinalityType DEF Behind
<1>5. Cardinality(Eliminating) < Cardinality(Field) /\ Cardinality(Field) \in Nat
  <2>1. IsFiniteSet(Field)
    <3>1. Field \subseteq Teams
      BY Wiring DEF Field
    <3> QED BY <3>1, Wiring, FS_Subset
  <2> QED BY <2>1, FieldIsLarger, FS_CardinalityType DEF Eliminating, Field
<1> QED BY <1>1, <1>4, <1>5

\* The placements are the last seats in completed matches; the first place is for
\* those who did not lose there.
LEMMA PlacesAreLasts ==
  ASSUME Lives, ~Override
  PROVE  /\ \A q \in Placements : \E s \in Slots :
              /\ Last(s) /\ status[s[1]] = "completed"
              /\ q[1] = seat[s] /\ (q[2] # 1 <=> s \in Lost(Matches))
         /\ \A s \in Slots : Last(s) /\ status[s[1]] = "completed" =>
              \E q \in Placements : q[1] = seat[s] /\ (q[2] # 1 <=> s \in Lost(Matches))
<1>1. Eliminating \subseteq Matches /\ Deciding \cap Finals \subseteq Matches
  BY DEF Eliminating, Deciding
<1>2. Lost(Eliminating) \subseteq Lost(Matches) /\ Lost(Deciding \cap Finals) \subseteq Lost(Matches)
  BY <1>1 DEF Lost
<1>3. \A s \in Slots : result[s] = "win" => s \notin Lost(Matches)
  BY DEF Lost
<1>4. \A s \in Lost(Matches) : s \in Slots
  BY DEF Lost
<1>5. \A s \in Lost(Eliminating) : Cardinality(Seated) - Behind(s[1]) + 1 # 1
  <2>1. \A s \in Lost(Eliminating) : s[1] \in Matches
    BY <1>1 DEF Lost
  <2> QED BY <2>1, NeverFirst
<1>6. ASSUME NEW q \in Placements
      PROVE  \E s \in Slots : /\ Last(s) /\ status[s[1]] = "completed"
                              /\ q[1] = seat[s] /\ (q[2] # 1 <=> s \in Lost(Matches))
  <2>1. CASE q \in {<<seat[s], Cardinality(Seated) - Behind(s[1]) + 1>> : s \in Lost(Eliminating)}
    <3>1. PICK s \in Lost(Eliminating) : q = <<seat[s], Cardinality(Seated) - Behind(s[1]) + 1>>
      BY <2>1
    <3>2. q[1] = seat[s] /\ q[2] # 1
      BY <1>5, <3>1
    <3> QED BY <1>2, <1>4, <3>1, <3>2, Fates
  <2>2. CASE q \in {<<seat[s], 2>> : s \in Lost(Deciding \cap Finals)}
    <3>1. PICK s \in Lost(Deciding \cap Finals) : q = <<seat[s], 2>>
      BY <2>2
    <3>2. q[1] = seat[s] /\ q[2] # 1
      BY <3>1
    <3>3. s \in Slots /\ s \in Lost(Matches)
      BY <1>2, <1>4
    <3>4. Last(s) /\ status[s[1]] = "completed"
      BY <3>3, Fates
    <3> QED BY <3>2, <3>3, <3>4
  <2>3. CASE q \in {<<seat[s], 1>> : s \in {x \in Slots : x[1] \in Deciding /\ result[x] = "win"}}
    <3>1. PICK s \in Slots : s[1] \in Deciding /\ result[s] = "win" /\ q = <<seat[s], 1>>
      BY <2>3
    <3> QED BY <1>3, <3>1, Fates
  <2> QED BY <2>1, <2>2, <2>3 DEF Placements
<1>7. ASSUME NEW s \in Slots, Last(s), status[s[1]] = "completed"
      PROVE  \E q \in Placements : q[1] = seat[s] /\ (q[2] # 1 <=> s \in Lost(Matches))
  <2>1. CASE s \in Lost(Eliminating)
    <3> DEFINE q == <<seat[s], Cardinality(Seated) - Behind(s[1]) + 1>>
    <3>1. q \in Placements
      BY <2>1 DEF Placements
    <3>2. q[1] = seat[s] /\ q[2] # 1
      BY <1>5, <2>1
    <3> QED BY <1>2, <2>1, <3>1, <3>2
  <2>2. CASE s \in Lost(Deciding \cap Finals)
    <3> DEFINE q == <<seat[s], 2>>
    <3>1. q \in Placements
      BY <2>2 DEF Placements
    <3>2. q[1] = seat[s] /\ q[2] # 1
      OBVIOUS
    <3> QED BY <1>2, <2>2, <3>1, <3>2
  <2>3. CASE s[1] \in Deciding /\ result[s] = "win"
    <3> DEFINE q == <<seat[s], 1>>
    <3>1. q \in Placements
      BY <2>3 DEF Placements
    <3>2. q[1] = seat[s] /\ q[2] = 1
      OBVIOUS
    <3> QED BY <1>3, <2>3, <3>1, <3>2
  <2> QED BY <1>7, <2>1, <2>2, <2>3, Fates
<1> QED BY <1>6, <1>7

\* A team sits in no open match but that of its last seat.
LEMMA OpenIsLast ==
  ASSUME Lives, ~Override, NEW s \in Slots, seat[s] # None
  PROVE  /\ status[s[1]] \in Open => Last(s)
         /\ Last(s) /\ status[s[1]] # "completed" => status[s[1]] \in Open
<1> USE DEF Lives, IInv
<1>1. s[1] \in Matches
  BY SlotShape
<1>2. status[s[1]] \in Open => Last(s)
  BY DEF Last, Open
<1>3. ASSUME status[s[1]] = "cancelled" PROVE FALSE
  <2>1. s[1] = ResetFinal
    BY <1>1, <1>3 DEF OnlyResetCancelled
  <2>2. GrandFinal # None /\ s \in {<<ResetFinal, 1>>, <<ResetFinal, 2>>}
    BY <1>1, <2>1, SlotShape, Wiring
  <2>3. seat[<<ResetFinal, 1>>] = None /\ seat[<<ResetFinal, 2>>] = None
    BY <1>3, <2>1, <2>2 DEF ResetFollowsGrandFinal, Open
  <2> QED BY <2>2, <2>3
<1> QED BY <1>1, <1>2, <1>3 DEF TypeOK, Status, Open

\* The last seat of a seated team.
LEMMA SeatedHasLast ==
  ASSUME Lives, ~Override, NEW t \in Seated
  PROVE  \E l \in Slots : /\ Last(l) /\ seat[l] = t /\ t # None
                          /\ \A s \in Slots : Last(s) /\ seat[s] = t => s = l
BY DEF Lives, LInv, HasLast, OneLast, Seated

\* In every bracket that officials leave to the code, however results are recorded,
\* corrected and replayed: a team without a place sits in exactly one match that is
\* still to be played, a placed team in none.
THEOREM OneSeatAlways == Spec => []OneSeatEach
<1>1. Lives => OneSeatEach
  <2> SUFFICES ASSUME Lives, ~Override, NEW t \in Teams, t \in Seated
               PROVE  Cardinality(OpenSeats(t)) = IF t \in Placed THEN 0 ELSE 1
    BY DEF OneSeatEach
  <2>1. PICK l \in Slots : /\ Last(l) /\ seat[l] = t /\ t # None
                           /\ \A s \in Slots : Last(s) /\ seat[s] = t => s = l
    BY SeatedHasLast
  <2>2. \A s \in OpenSeats(t) : s = l
    BY <2>1, OpenIsLast DEF OpenSeats
  <2>3. t \in Placed <=> status[l[1]] = "completed"
    <3>1. ASSUME t \in Placed PROVE status[l[1]] = "completed"
      BY <2>1, <3>1, PlacesAreLasts DEF Placed
    <3>2. ASSUME status[l[1]] = "completed" PROVE t \in Placed
      BY <2>1, <3>2, PlacesAreLasts DEF Placed
    <3> QED BY <3>1, <3>2
  <2>4. CASE status[l[1]] = "completed"
    <3>1. OpenSeats(t) = {}
      BY <2>2, <2>4 DEF OpenSeats, Open
    <3> QED BY <2>3, <2>4, <3>1, FS_EmptySet
  <2>5. CASE status[l[1]] # "completed"
    <3>1. l \in OpenSeats(t)
      BY <2>1, <2>5, OpenIsLast DEF OpenSeats
    <3>2. OpenSeats(t) = {l}
      BY <2>2, <3>1
    <3> QED BY <2>3, <2>5, <3>2, FS_Singleton
  <2> QED BY <2>4, <2>5
<1> QED BY <1>1, AlwaysLives, PTL

\* A last seat that was lost is one from which another loss is the last.
LEMMA LostAtLast ==
  ASSUME Lives, ~Override, NEW l \in Slots, Last(l)
  PROVE  IF GrandFinal = None
         THEN LossesAt(l) = 0
         ELSE LossesAt(l) \in {0, 1} /\ (l \in Lost(Matches) => LossesAt(l) = 1)
<1>1. CASE GrandFinal = None
  BY <1>1 DEF LossesAt
<1>2. CASE GrandFinal # None
  <2>1. ASSUME l \in Lost(Matches) PROVE LossesAt(l) = 1
    <3>1. l[1] \in Matches /\ l = <<l[1], l[2]>> /\ l[2] \in {1, 2}
          /\ status[l[1]] = "completed" /\ result[l] = "loss"
      BY <2>1, SlotShape DEF Lost
    <3>2. CASE l[1] \notin Finals
      <4>1. loserTo[l[1]] = None /\ l # <<GrandFinal, 1>>
        BY <3>1, <3>2, LastCases DEF Finals
      <4> QED BY <1>2, <3>2, <4>1 DEF LossesAt
    <3>3. CASE l[1] = GrandFinal
      <4>1. DecidedBy(GrandFinal, 1) \/ DecidedBy(GrandFinal, 2)
        BY <1>2, <3>1, <3>3, LastInFinals DEF Lives
      <4>2. result[<<GrandFinal, 2>>] # "win"
        BY <3>1, <3>3, LastCases
      <4>3. l = <<GrandFinal, 2>>
        BY <3>1, <3>3, <4>1, <4>2 DEF DecidedBy, Other
      <4> QED BY <1>2, <4>3, LossesAtShape
    <3>4. CASE l[1] = ResetFinal
      BY <1>2, <3>1, <3>4, LossesAtShape
    <3> QED BY <3>2, <3>3, <3>4 DEF Finals
  <2> QED BY <1>2, <2>1, LossesAtShape
<1> QED BY <1>1, <1>2

\* In every bracket that officials leave to the code nobody is out before their second
\* loss (the first in a single elimination), and nobody stays in after it, corrections
\* included.
THEOREM OutByLossesAlways == Spec => []OutByLosses
<1>1. Lives => OutByLosses
  <2> SUFFICES ASSUME Lives, ~Override, NEW t \in Seated
               PROVE  (Losses(t) = IF GrandFinal = None THEN 1 ELSE 2)
                        <=> \E q \in Placements : q[1] = t /\ q[2] # 1
    BY DEF OutByLosses
  <2>1. PICK l \in Slots : /\ Last(l) /\ seat[l] = t /\ t # None
                           /\ \A s \in Slots : Last(s) /\ seat[s] = t => s = l
    BY SeatedHasLast
  <2>2. Losses(t) = IF l \in Lost(Matches) THEN LossesAt(l) + 1 ELSE LossesAt(l)
    BY <2>1 DEF Lives, LInv, LossesFit
  <2>3. (Losses(t) = IF GrandFinal = None THEN 1 ELSE 2) <=> l \in Lost(Matches)
    BY <2>1, <2>2, LostAtLast
  <2>4. ASSUME NEW q \in Placements, q[1] = t, q[2] # 1 PROVE l \in Lost(Matches)
    BY <2>1, <2>4, PlacesAreLasts
  <2>5. ASSUME l \in Lost(Matches) PROVE \E q \in Placements : q[1] = t /\ q[2] # 1
    <3>1. status[l[1]] = "completed"
      BY <2>5 DEF Lost
    <3> QED BY <2>1, <2>5, <3>1, PlacesAreLasts
  <2> QED BY <2>3, <2>4, <2>5
<1> QED BY <1>1, AlwaysLives, PTL

----------------------------------------------------------------------------
\* Without overrides the phase implements Knockout with corrections.

LivesOf == IF GrandFinal = None THEN 1 ELSE 2
LossesOf == [t \in Teams |-> Losses(t)]

----------------------------------------------------------------------------
\* The grand final comes last.

\* A match that is not over keeps the winner's slot of the next one empty, so that
\* one is not over either, and so on to the grand final.
LEMMA AllPlayed ==
  ASSUME IInv, ~Override, GrandFinal # None, Full(GrandFinal)
  PROVE  \A m \in Matches \ Finals : status[m] = "completed"
<1> DEFINE U == {m \in Matches \ Finals : status[m] # "completed"}
           Later(m) == {x \in Matches : wave[x] > wave[m]}
<1> SUFFICES ASSUME U # {} PROVE FALSE
  OBVIOUS
<1>1. \A m \in Matches : IsFiniteSet(Later(m)) /\ Cardinality(Later(m)) \in Nat
  BY Wiring, FS_Subset, FS_CardinalityType
<1>2. PICK m \in U : \A x \in U : Cardinality(Later(m)) <= Cardinality(Later(x))
  <2> DEFINE f == [x \in Matches |-> Cardinality(Later(x))]
             W == {f[x] : x \in U}
  <2>1. /\ \A x \in U : f[x] = Cardinality(Later(x)) /\ f[x] \in Nat
        /\ U # {}
    BY <1>1
  <2> HIDE DEF f, U, Later
  <2>2. PICK w \in W : \A y \in W : w <= y
    <3>1. W \in SUBSET Nat /\ W # {}
      BY <2>1
    <3> QED BY <3>1, Least
  <2>3. PICK m \in U : \A x \in U : f[m] <= f[x]
    BY <2>2
  <2> QED BY <2>1, <2>3
<1> DEFINE x == winnerTo[m][1]
<1>3. /\ m \in Matches \ Finals /\ winnerTo[m] # None /\ winnerTo[m] \in Slots
      /\ x \in Matches /\ x # ResetFinal /\ wave[m] < wave[x]
  BY <1>2, SecondLoss, LinkShape, HasSource
<1>4. seat[winnerTo[m]] = None
  BY <1>2, <1>3 DEF IInv, Advanced
<1>5. ~Full(x)
  BY <1>3, <1>4, SlotShape DEF Full
<1>6. x # GrandFinal
  BY <1>5
<1>7. status[x] # "completed"
  BY <1>3, <1>5, <1>6 DEF IInv, Advanced, DecidedBy, Finals
<1>8. x \in U
  BY <1>3, <1>6, <1>7 DEF Finals
<1>9. Later(x) \subseteq Later(m) /\ x \in Later(m) /\ x \notin Later(x)
  BY <1>3, Wiring
<1>10. Cardinality(Later(x)) < Cardinality(Later(m))
  <2>1. Later(x) # Later(m)
    BY <1>9
  <2> HIDE DEF Later, x
  <2>2. Cardinality(Later(x)) <= Cardinality(Later(m)) /\ Cardinality(Later(x)) # Cardinality(Later(m))
    BY <1>1, <1>3, <1>9, <2>1, FS_Subset
  <2> QED BY <1>1, <1>3, <2>2
<1> HIDE DEF Later, U, x
<1> QED BY <1>1, <1>2, <1>3, <1>8, <1>10

\* The two teams of the grand final are the last that have not lost twice.
LEMMA OthersAreOut ==
  ASSUME Lives, ~Override, GrandFinal # None, Full(GrandFinal),
         NEW t \in Seated, t # seat[<<GrandFinal, 1>>], t # seat[<<GrandFinal, 2>>]
  PROVE  Losses(t) = 2
<1>1. PICK l \in Slots : Last(l) /\ seat[l] = t /\ t # None
  BY SeatedHasLast
<1>2. l[1] # GrandFinal
  <2>1. l = <<l[1], l[2]>> /\ l[2] \in {1, 2}
    BY SlotShape
  <2> QED BY <1>1, <2>1
<1>3. l[1] # ResetFinal
  <2> SUFFICES ASSUME l[1] = ResetFinal PROVE FALSE
    OBVIOUS
  <2>1. l \in {<<ResetFinal, 1>>, <<ResetFinal, 2>>}
    BY SlotShape
  <2>2. CASE DecidedBy(GrandFinal, 2)
    BY <1>1, <2>1, <2>2, LastInFinals DEF Lives
  <2>3. CASE ~DecidedBy(GrandFinal, 2)
    BY <1>1, <2>1, <2>3, LastInFinals DEF Lives
  <2> QED BY <2>2, <2>3
<1>4. l[1] \in Matches \ Finals /\ status[l[1]] = "completed"
  BY <1>2, <1>3, SlotShape, AllPlayed DEF Finals, Lives
<1>5. l \in Lost(Matches)
  <2>1. l[1] \notin Deciding
    BY <1>2, <1>3 DEF Deciding
  <2>2. l \in Lost(Eliminating) \/ l \in Lost(Deciding \cap Finals)
    BY <1>1, <1>4, <2>1, Fates
  <2> QED BY <1>4, <2>2 DEF Lost
<1>6. Losses(t) = LossesAt(l) + 1
  BY <1>1, <1>5 DEF Lives, LInv, LossesFit
<1> QED BY <1>1, <1>5, <1>6, LostAtLast

----------------------------------------------------------------------------
\* What the result of a match does to the losses.
LEMMA ScoredLosses ==
  ASSUME NEW a \in Slots, NEW b \in Slots, Scored(a, b)
  PROVE  /\ \A t : Losses(t)' = IF t = seat[b] THEN LossesAt(b) + 1
                                ELSE IF t = seat[a] THEN LossesAt(a) ELSE Losses(t)
         /\ Losses(seat[b]) = LossesAt(b)
         /\ Losses(seat[a]) = IF a \in Lost(Matches) THEN LossesAt(a) + 1 ELSE LossesAt(a)
<1> DEFINE A == seat[a]
           B == seat[b]
<1>1. /\ A # B /\ b \notin Lost(Matches)
      /\ Lost(Matches)' = (Lost(Matches) \ {a}) \cup {b}
      /\ \A s \in Lost(Matches)' : seat'[s] = seat[s]
      /\ Cardinality(LostBy(A) \ {a}) = LossesAt(a) /\ Cardinality(LostBy(B) \ {b}) = LossesAt(b)
  BY DEF Scored
<1>2. \A t : Losses(t)' = Cardinality({s \in (Lost(Matches) \ {a}) \cup {b} : seat[s] = t})
  <2> TAKE t
  <2> DEFINE X == {s \in Lost(Matches)' : seat'[s] = t}
             Y == {s \in (Lost(Matches) \ {a}) \cup {b} : seat[s] = t}
  <2>1. X = Y
    BY <1>1
  <2>2. Losses(t)' = Cardinality(X)
    BY DEF Losses
  <2> HIDE DEF X, Y
  <2> QED BY <2>1, <2>2 DEF X, Y
<1>3. LossesAt(a) \in Int /\ LossesAt(b) \in Int
  BY LossesAtShape
<1>4. ASSUME NEW t, t # A, t # B PROVE Losses(t)' = Losses(t)
  <2>1. {s \in (Lost(Matches) \ {a}) \cup {b} : seat[s] = t} = LostBy(t)
    BY <1>4 DEF LostBy
  <2> QED BY <1>2, <2>1, LostByFinite
<1>5. ASSUME NEW t, t = A PROVE Losses(t)' = LossesAt(a)
  <2>1. {s \in (Lost(Matches) \ {a}) \cup {b} : seat[s] = t} = LostBy(A) \ {a}
    BY <1>1, <1>5 DEF LostBy
  <2> QED BY <1>1, <1>2, <2>1
<1>6. ASSUME NEW t, t = B PROVE Losses(t)' = LossesAt(b) + 1
  <2>1. {s \in (Lost(Matches) \ {a}) \cup {b} : seat[s] = t} = (LostBy(B) \ {b}) \cup {b}
    BY <1>1, <1>6 DEF LostBy
  <2>2. IsFiniteSet(LostBy(B) \ {b})
    BY LostByFinite, FS_Subset
  <2>3. Cardinality((LostBy(B) \ {b}) \cup {b}) = Cardinality(LostBy(B) \ {b}) + 1
    BY <2>2, FS_AddElement
  <2> QED BY <1>1, <1>2, <2>1, <2>3
<1>7. Losses(B) = LossesAt(b)
  <2>1. LostBy(B) \ {b} = LostBy(B)
    BY <1>1 DEF LostBy
  <2> QED BY <1>1, <2>1, LostByFinite
<1>8. Losses(A) = IF a \in Lost(Matches) THEN LossesAt(a) + 1 ELSE LossesAt(a)
  <2> DEFINE S == LostBy(A)
             n == LossesAt(a)
  <2>1. /\ IsFiniteSet(S) /\ Losses(A) = Cardinality(S) /\ Cardinality(S) \in Nat
        /\ (a \in Lost(Matches) <=> a \in S)
    BY LostByFinite DEF LostBy
  <2>2. Cardinality(S \ {a}) = IF a \in S THEN Cardinality(S) - 1 ELSE Cardinality(S)
    BY <2>1, FS_RemoveElement
  <2>3. Cardinality(S \ {a}) = n /\ n \in Int
    BY <1>1, <1>3
  <2> HIDE DEF S, n
  <2> QED BY <2>1, <2>2, <2>3 DEF n
<1>9. ASSUME NEW t PROVE Losses(t)' = IF t = B THEN LossesAt(b) + 1
                                      ELSE IF t = A THEN LossesAt(a) ELSE Losses(t)
  BY <1>1, <1>4, <1>5, <1>6
<1> QED BY <1>7, <1>8, <1>9

\* A first result is a loss of a team that is in to another one, a correction takes
\* back the loss of the team that now wins.
LEMMA ScoredIsBeat ==
  ASSUME Lives, ~Override, Seated' = Seated, Seated \subseteq Teams,
         NEW a \in Slots, NEW b \in Slots, Scored(a, b),
         \/ LossesAt(a) = LossesAt(b)
         \/ \A t \in Seated : t # seat[a] /\ t # seat[b] => Losses(t) = LivesOf
  PROVE  K!CorrectedNext
<1> DEFINE A == seat[a]
           B == seat[b]
           before == [t \in Teams |-> IF t = A THEN LossesAt(a) ELSE Losses(t)]
<1>1. A \in Seated /\ B \in Seated /\ A # B /\ A \in Teams /\ B \in Teams
  BY DEF Scored, Seated
<1>2. /\ \A t : Losses(t)' = IF t = B THEN LossesAt(b) + 1 ELSE IF t = A THEN LossesAt(a) ELSE Losses(t)
      /\ Losses(B) = LossesAt(b)
      /\ Losses(A) = IF a \in Lost(Matches) THEN LossesAt(a) + 1 ELSE LossesAt(a)
  BY ScoredLosses
<1>3. /\ LossesAt(a) \in Int /\ LossesAt(b) \in Int /\ LossesAt(a) >= 0
      /\ LossesAt(a) < LivesOf /\ LossesAt(b) < LivesOf /\ LivesOf \in Int
  BY LossesAtShape DEF LossesAt, LivesOf
<1>4. LossesOf' = [t \in Teams |-> IF t = B THEN before[t] + 1 ELSE before[t]]
  BY <1>1, <1>2 DEF LossesOf
<1>5. LossesOf' # LossesOf
  <2>1. LossesOf'[B] = LossesAt(b) + 1 /\ LossesOf[B] = LossesAt(b)
    BY <1>1, <1>2 DEF LossesOf
  <2>2. LossesAt(b) + 1 # LossesAt(b)
    BY <1>3
  <2> QED BY <2>1, <2>2
<1>6. before[A] = LossesAt(a) /\ before[B] = LossesAt(b)
  BY <1>1, <1>2
<1>7. {A, B} \subseteq {t \in Seated : before[t] < LivesOf}
  BY <1>1, <1>3, <1>6
<1>8. before[A] = before[B] \/ {t \in Seated : before[t] < LivesOf} = {A, B}
  <2>1. CASE LossesAt(a) = LossesAt(b)
    BY <1>6, <2>1
  <2>2. CASE \A t \in Seated : t # A /\ t # B => Losses(t) = LivesOf
    <3>1. \A t \in Seated : t # A /\ t # B => ~(before[t] < LivesOf)
      BY <1>3, <2>2
    <3> QED BY <1>7, <3>1
  <2> QED BY <2>1, <2>2
<1>9. CASE a \notin Lost(Matches)
  <2>1. before = LossesOf
    BY <1>2, <1>9 DEF LossesOf
  <2>2. K!Lose(A, B)
    <3> HIDE DEF A, B, before
    <3> QED BY <1>1, <1>4, <1>7, <1>8, <2>1
        DEF K!Lose, K!Beats, K!Alive, LossesOf, LivesOf
  <2> QED BY <1>1, <1>5, <2>2 DEF K!CorrectedNext, LossesOf
<1>10. CASE a \in Lost(Matches)
  <2>1. before = [t \in Teams |-> IF t = A THEN LossesOf[t] - 1 ELSE LossesOf[t]]
    <3>1. LossesOf[A] - 1 = LossesAt(a)
      <4>1. LossesOf[A] = LossesAt(a) + 1
        BY <1>1, <1>2, <1>10 DEF LossesOf
      <4> QED BY <1>3, <4>1
    <3> QED BY <3>1 DEF LossesOf
  <2>2. LossesOf[A] > 0
    BY <1>1, <1>2, <1>3, <1>10 DEF LossesOf
  <2>3. K!Overturn(A, B)
    <3> HIDE DEF A, B, before
    <3>1. K!Beats(before, A, B)
      BY <1>1, <1>4, <1>7, <1>8 DEF K!Beats, K!Alive, LossesOf, LivesOf
    <3> QED BY <2>1, <2>2, <3>1 DEF K!Overturn, LossesOf
  <2> QED BY <1>1, <1>5, <2>3 DEF K!CorrectedNext, LossesOf
<1> QED BY <1>9, <1>10

----------------------------------------------------------------------------
\* Every step is one of the knockout or changes no loss.

LEMMA SameLosses ==
  ASSUME UNCHANGED seat,
         \A m \in Matches : status'[m] = "completed" <=> status[m] = "completed",
         \A s \in Slots : status[s[1]] = "completed" => result'[s] = result[s]
  PROVE  UNCHANGED K!vars
<1>1. Lost(Matches)' = Lost(Matches)
  BY SlotShape DEF Lost
<1>2. \A t : Losses(t)' = Losses(t)
  BY <1>1 DEF Losses
<1>3. Seated' = Seated
  BY DEF Seated
<1> QED BY <1>2, <1>3 DEF K!vars

NoLosses == Seated = Field /\ LossesOf = [t \in Teams |-> 0]

LEMMA FreshLosses == Fresh => NoLosses
<1> SUFFICES ASSUME Fresh PROVE NoLosses
  OBVIOUS
<1>1. \A s \in Slots : result[s] = "none"
  BY DEF Fresh
<1>2. Lost(Matches) = {}
  BY <1>1 DEF Lost
<1>3. \A t : Losses(t) = 0
  BY <1>2, FS_EmptySet DEF Losses
<1> QED BY <1>3 DEF Fresh, NoLosses, LossesOf, Seated, Field

LEMMA RecordIsKnockout ==
  ASSUME Lives, ~Override, Seated' = Seated, Seated \subseteq Teams,
         NEW m \in Matches, NEW p \in {1, 2}, RecordResult(m, p)
  PROVE  K!CorrectedNext \/ UNCHANGED K!vars
<1>1. CASE UNCHANGED <<status, seat, result>>
  BY <1>1, SameLosses
<1>2. CASE Scored(<<m, p>>, <<m, Other(p)>>)
  <2> DEFINE a == <<m, p>>
             b == <<m, Other(p)>>
  <2>1. a \in Slots /\ b \in Slots
    BY SlotShape, OtherShape
  <2>2. CASE m \in Finals /\ m = GrandFinal
    <3>1. GrandFinal # None /\ Full(GrandFinal)
      BY <2>2, Wiring DEF RecordResult
    <3>2. \A t \in Seated : t # seat[a] /\ t # seat[b] => Losses(t) = LivesOf
      BY <2>2, <3>1, OthersAreOut DEF Other, LivesOf
    <3> HIDE DEF a, b
    <3> QED BY <1>2, <2>1, <3>2, ScoredIsBeat DEF a, b
  <2>3. CASE m # GrandFinal
    <3>1. LossesAt(a) = LossesAt(b)
      <4>1. CASE m = ResetFinal
        BY <4>1, LossesAtShape, Wiring DEF Other
      <4>2. CASE m # ResetFinal
        BY <2>3, <4>2, LossesAtShape DEF Other, Finals
      <4> QED BY <4>1, <4>2
    <3> HIDE DEF a, b
    <3> QED BY <1>2, <2>1, <3>1, ScoredIsBeat DEF a, b
  <2> QED BY <2>2, <2>3 DEF Finals
<1> QED BY <1>1, <1>2, RecordLasts DEF Lives

LEMMA NextIsKnockout ==
  ASSUME Lives, Lives', ~Override, [Next]_vars
  PROVE  [K!CorrectedNext]_(K!vars)
<1>1. Seated' = Seated /\ Seated' = Field
  BY DEF Lives, LInv, Field
<1>2. Seated \subseteq Teams
  BY DEF Lives, IInv, TypeOK, Seated
<1>3. ASSUME NEW m \in Matches, NEW p \in {1, 2}, RecordResult(m, p)
      PROVE  K!CorrectedNext \/ UNCHANGED K!vars
  BY <1>1, <1>2, <1>3, RecordIsKnockout
<1>4. ASSUME NEW m \in Matches, Replay(m) PROVE UNCHANGED K!vars
  <2>1. \A s \in Slots : status[s[1]] = "completed" => s # <<m, 1>> /\ s # <<m, 2>>
    BY <1>4 DEF Replay
  <2>2. \A s \in Slots : status[s[1]] = "completed" => result'[s] = result[s]
    BY <1>4, <2>1 DEF Replay, Lives, IInv, TypeOK
  <2>3. UNCHANGED <<seat, status>>
    BY <1>4 DEF Replay
  <2> QED BY <2>2, <2>3, SameLosses
<1>5. ASSUME NEW m \in Matches, NEW st \in Status, EditMatch(m, st) PROVE UNCHANGED K!vars
  <2>1. /\ UNCHANGED <<seat, result>>
        /\ \A x \in Matches : status'[x] = "completed" <=> status[x] = "completed"
    BY <1>5 DEF EditMatch, Lives, IInv, TypeOK, Open
  <2> QED BY <2>1, SameLosses
<1>6. ASSUME NEW st \in PhaseStatus, EditPhase(st) PROVE UNCHANGED K!vars
  BY <1>6, SameLosses DEF EditPhase
<1>7. CASE Regenerate
  <2>1. Fresh'
    BY <1>7 DEF Regenerate, Fresh
  <2>2. Fresh' => NoLosses'
    BY FreshLosses, PTL
  <2>3. LossesOf' = [t \in Teams |-> 0]
    BY <2>1, <2>2 DEF NoLosses
  <2>4. LossesOf' # LossesOf => K!CorrectedNext
    BY <1>1, <2>3 DEF K!CorrectedNext, K!Restart, LossesOf
  <2>5. LossesOf' = LossesOf => UNCHANGED K!vars
    BY <1>1 DEF K!vars, LossesOf
  <2> QED BY <2>4, <2>5
<1>8. CASE UNCHANGED vars
  BY <1>8, SameLosses DEF vars
<1> QED BY <1>3, <1>4, <1>5, <1>6, <1>7, <1>8 DEF Next

\* A bracket that officials leave to the code implements the knockout with corrections:
\* a first result is one between two teams that are in and have lost equally often,
\* or the last two, a correction leads where the other result would have led, and
\* nothing else changes how often a team has lost.
THEOREM PlayIsKnockout == ASSUME ~Override PROVE Spec => ImplementsKnockout
<1>1. Init => K!Init
  <2> SUFFICES ASSUME Init PROVE K!Init
    OBVIOUS
  <2>1. Seated = Field /\ LossesOf = [t \in Teams |-> 0]
    BY FreshLosses DEF Init, Fresh, NoLosses
  <2>2. Field \in SUBSET Teams /\ \E s, t \in Field : s # t
    <3>1. Field \in SUBSET Teams /\ Cardinality(Field) >= 2
      BY Wiring, FieldIsLarger DEF Field
    <3>2. IsFiniteSet(Field)
      BY <3>1, Wiring, FS_Subset
    <3>3. PICK s : s \in Field
      BY <3>1, FS_EmptySet
    <3>4. Cardinality(Field \ {s}) = Cardinality(Field) - 1 /\ Cardinality(Field) \in Nat
      BY <3>2, <3>3, FS_RemoveElement, FS_CardinalityType
    <3>5. Field \ {s} # {}
      BY <3>1, <3>4, FS_EmptySet
    <3> QED BY <3>1, <3>3, <3>5
  <2>3. LivesOf \in {1, 2}
    BY DEF LivesOf
  <2> QED BY <2>1, <2>2, <2>3 DEF K!Init, LossesOf, LivesOf
<1>2. Lives /\ Lives' /\ [Next]_vars => [K!CorrectedNext]_(K!vars)
  BY NextIsKnockout
<1> QED BY <1>1, <1>2, AlwaysLives, PTL DEF Spec, ImplementsKnockout, K!CorrectedSpec
=============================================================================
