---------------------- MODULE BracketPlayout_proofs -----------------------
(***************************************************************************)
(* Brackets that are played to their end, for any fields whose blueprints  *)
(* are well formed: a knockout that never stalls, final placements that    *)
(* are a ranking, and the number of matches.                               *)
(***************************************************************************)
EXTENDS BracketPlayout, FiniteSetTheorems, WellFoundedInduction, TLAPS

Formed == field \in Fields /\ tree = elimination_blueprint(n, double) /\ WellFormed(tree, n, double)

Slots == {<<m, p>> : m \in tree.matches, p \in {1, 2}}

\* The seats are a function of the results: teams start where the blueprint puts them,
\* links are followed, and the reset final mirrors the grand final position 2 won.
Typed == seat \in [Slots -> 0 .. n] /\ won \in [tree.matches -> {0, 1, 2}]
Started == \A x \in tree.teams : seat[<<x[2], x[3]>>] = x[1]
Followed == \A l \in tree.links :
  seat[<<l[3], l[4]>>] = IF won[l[2]] = 0 THEN 0 ELSE seat[<<l[2], From(l[1], won[l[2]])>>]
Mirrored == double => \A p \in {1, 2} : seat[<<GF2, p>>] = IF won[GF] = 2 THEN seat[<<GF, p>>] ELSE 0
PlayedFull == \A m \in tree.matches : won[m] # 0 => seat[<<m, 1>>] # 0 /\ seat[<<m, 2>>] # 0

Basic == Formed /\ Typed /\ Started /\ Followed /\ Mirrored /\ PlayedFull

\* A team moves on from a match that is played, unless the link for it ends there.
Side(p, q) == IF p = q THEN "winner" ELSE "loser"
Linked(side, m) == \E l \in tree.links : l[1] = side /\ l[2] = m
MovedOn(s) ==
  /\ won[s[1]] # 0
  /\ \/ Linked(Side(won[s[1]], s[2]), s[1])
     \/ s[1] = GF /\ won[GF] = 2
Last(s) == seat[s] # 0 /\ ~MovedOn(s)

Beaten(s) == won[s[1]] # 0 /\ won[s[1]] # s[2]
LostIn(t) == {m \in tree.matches : Loser[m] = t}
DropsOf(t) == {m \in LostIn(t) : m[1] = "winner"}
DropsAt(s) == IF s[1][1] = "winner" \/ s \in {<<GF, 1>>, <<GF2, 1>>} THEN 0 ELSE 1

OneLast == \A s, x \in Slots : Last(s) /\ Last(x) /\ seat[s] = seat[x] => s = x
HasLast == \A t \in 1 .. n : \E s \in Slots : Last(s) /\ seat[s] = t
LossesFit == \A s \in Slots : Last(s) =>
  Cardinality(LostIn(seat[s])) = LossesAt(s[1], s[2]) + IF Beaten(s) THEN 1 ELSE 0
DropsFit == double => \A s \in Slots : Last(s) => Cardinality(DropsOf(seat[s])) = DropsAt(s)

IInv == Basic /\ OneLast /\ HasLast /\ LossesFit /\ DropsFit

----------------------------------------------------------------------------
\* Slots, links and the fields played.

LEMMA SlotShape ==
  /\ \A s \in Slots : s = <<s[1], s[2]>> /\ s[1] \in tree.matches /\ s[2] \in {1, 2}
  /\ \A m \in tree.matches, p \in {1, 2} : <<m, p>> \in Slots
BY DEF Slots

LEMMA FieldShape ==
  ASSUME Formed
  PROVE  /\ n \in Nat /\ n >= 2 /\ double \in BOOLEAN /\ IsFiniteSet(tree.matches) /\ GF # GF2
         /\ double => GF \in tree.matches /\ GF2 \in tree.matches
         /\ ~double => GF \notin tree.matches /\ GF2 \notin tree.matches
BY FieldsAreWellFormed DEF Formed, WellFormed, Keyed, double

LEMMA LinkShape ==
  ASSUME Formed, NEW l \in tree.links
  PROVE  /\ l = <<l[1], l[2], l[3], l[4]>> /\ l[1] \in {"winner", "loser"}
         /\ l[2] \in tree.matches \ {GF, GF2} /\ l[3] \in tree.matches \ {GF2, l[2]} /\ l[4] \in {1, 2}
         /\ <<l[3], l[4]>> \in Slots
<1>1. l \in {"winner", "loser"} \X tree.matches \X tree.matches \X {1, 2}
  BY DEF Formed, WellFormed, Keyed
<1>2. l[2] \notin {GF, GF2} /\ l[3] # GF2
  BY DEF Formed, WellFormed, SecondLoss
<1>3. depth(tree)[l[3]] \in Nat /\ depth(tree)[l[2]] < depth(tree)[l[3]] /\ depth(tree)[l[2]] \in Nat
  BY <1>1 DEF Formed, WellFormed, OneSource
<1>4. l[2] # l[3]
  BY <1>3
<1> QED BY <1>1, <1>2, <1>4 DEF Slots

LEMMA LinksDiffer ==
  ASSUME Formed, NEW l \in tree.links, NEW k \in tree.links,
         (l[1] = k[1] /\ l[2] = k[2]) \/ (l[3] = k[3] /\ l[4] = k[4])
  PROVE  l = k
BY DEF Formed, WellFormed, OneSource

LEMMA StartShape ==
  ASSUME Formed, NEW x \in tree.teams
  PROVE  /\ x[1] \in 1 .. n /\ x[2] \in tree.matches \ {GF, GF2} /\ x[3] \in {1, 2}
         /\ x[2][1] = "winner" /\ <<x[2], x[3]>> \in Slots
         /\ \A l \in tree.links : <<x[2], x[3]>> # <<l[3], l[4]>>
<1>1. x \in (1 .. n) \X tree.matches \X {1, 2}
  BY DEF Formed, WellFormed, Keyed
<1>2. x[2][1] = "winner"
  BY DEF Formed, WellFormed, SecondLoss
<1>3. GF[1] # "winner" /\ GF2[1] # "winner"
  BY DEF GF, GF2
<1>4. \A l \in tree.links : <<x[2], x[3]>> # <<l[3], l[4]>>
  BY DEF Formed, WellFormed, OneSource
<1> QED BY <1>1, <1>2, <1>3, <1>4 DEF Slots

LEMMA FromShape == \A side \in {"winner", "loser"}, p \in {1, 2} : From(side, p) \in {1, 2}
BY DEF From

----------------------------------------------------------------------------
\* What a match that is played changes.

\* The seats of the winner and loser, where their links lead, and nothing else.
LEMMA PlaySeats ==
  ASSUME Formed, Typed, NEW m \in tree.matches, NEW p \in {1, 2}, Play(m, p)
  PROVE  /\ UNCHANGED <<field, tree>>
         /\ won[m] = 0 /\ seat[<<m, 1>>] # 0 /\ seat[<<m, 2>>] # 0
         /\ \A x \in tree.matches : won'[x] = IF x = m THEN p ELSE won[x]
         /\ \A l \in tree.links : l[2] = m => seat'[<<l[3], l[4]>>] = seat[<<m, From(l[1], p)>>]
         /\ m = GF /\ p = 2 => \A q \in {1, 2} : <<GF2, q>> \in Slots => seat'[<<GF2, q>>] = seat[<<GF, q>>]
         /\ \A s \in Slots :
              /\ \A l \in tree.links : l[2] = m => s # <<l[3], l[4]>>
              /\ ~(m = GF /\ p = 2 /\ s[1] = GF2)
              => seat'[s] = seat[s]
         /\ seat' \in [Slots -> 0 .. n] /\ won' \in [tree.matches -> {0, 1, 2}]
<1> DEFINE moved(side) == seat[<<m, From(side, p)>>]
           into(s) == {l \in tree.links : l[2] = m /\ <<l[3], l[4]>> = s}
<1>1. /\ m \in Playable
      /\ won' = [won EXCEPT ![m] = p]
      /\ seat' = [s \in DOMAIN seat |->
                    IF FillsReset(m, p) /\ s[1] = GF2 THEN seat[<<GF, s[2]>>]
                    ELSE IF into(s) # {} THEN moved((CHOOSE l \in into(s) : TRUE)[1])
                    ELSE seat[s]]
      /\ UNCHANGED <<field, tree>>
  BY DEF Play
<1>2. DOMAIN seat = Slots
  BY DEF Typed
<1>3. ASSUME NEW l \in tree.links, l[2] = m
      PROVE  seat'[<<l[3], l[4]>>] = seat[<<m, From(l[1], p)>>]
  <2> DEFINE s == <<l[3], l[4]>>
  <2>1. s \in Slots /\ s[1] # GF2
    BY LinkShape
  <2>2. l \in into(s) /\ \A k \in into(s) : k = l
    BY <1>3, LinksDiffer
  <2>3. (CHOOSE k \in into(s) : TRUE) = l /\ into(s) # {}
    BY <2>2
  <2> HIDE DEF s, into
  <2>4. seat'[s] = moved(l[1])
    BY <1>1, <1>2, <2>1, <2>3
  <2> QED BY <2>4 DEF s
<1>4. ASSUME NEW s \in Slots, \A l \in tree.links : l[2] = m => s # <<l[3], l[4]>>,
             ~(m = GF /\ p = 2 /\ s[1] = GF2)
      PROVE  seat'[s] = seat[s]
  <2>1. into(s) = {}
    BY <1>4
  <2>2. ~(FillsReset(m, p) /\ s[1] = GF2)
    BY <1>4 DEF FillsReset
  <2> HIDE DEF into
  <2> QED BY <1>1, <1>2, <2>1, <2>2
<1>5. ASSUME m = GF, p = 2, NEW q \in {1, 2}, <<GF2, q>> \in Slots
      PROVE  seat'[<<GF2, q>>] = seat[<<GF, q>>]
  <2>1. FillsReset(m, p) /\ <<GF2, q>>[1] = GF2 /\ <<GF2, q>>[2] = q
    BY <1>5 DEF FillsReset
  <2> HIDE DEF into, moved
  <2> QED BY <1>1, <1>2, <1>5, <2>1
<1>6. seat' \in [Slots -> 0 .. n]
  <2>1. DOMAIN seat' = Slots /\ seat' = [s \in Slots |-> seat'[s]]
    <3> HIDE DEF into, moved
    <3> QED BY <1>1, <1>2
  <2>2. ASSUME NEW s \in Slots PROVE seat'[s] \in 0 .. n
    <3>1. CASE \E l \in tree.links : l[2] = m /\ s = <<l[3], l[4]>>
      <4>1. PICK l \in tree.links : l[2] = m /\ s = <<l[3], l[4]>>
        BY <3>1
      <4>2. <<m, From(l[1], p)>> \in Slots
        BY <4>1, LinkShape, FromShape, SlotShape
      <4> QED BY <1>3, <4>1, <4>2 DEF Typed
    <3>2. CASE m = GF /\ p = 2 /\ s[1] = GF2
      <4>1. s = <<GF2, s[2]>> /\ <<GF, s[2]>> \in Slots /\ s[2] \in {1, 2}
        BY <3>2, SlotShape
      <4>2. seat'[s] = seat[<<GF, s[2]>>]
        BY <1>5, <3>2, <4>1
      <4> QED BY <4>1, <4>2 DEF Typed
    <3>3. CASE (\A l \in tree.links : l[2] = m => s # <<l[3], l[4]>>) /\ ~(m = GF /\ p = 2 /\ s[1] = GF2)
      BY <1>4, <3>3 DEF Typed
    <3> QED BY <3>1, <3>2, <3>3
  <2> QED BY <2>1, <2>2
<1>7. won' \in [tree.matches -> {0, 1, 2}] /\ \A x \in tree.matches : won'[x] = IF x = m THEN p ELSE won[x]
  BY <1>1 DEF Typed
<1> QED BY <1>1, <1>3, <1>4, <1>5, <1>6, <1>7 DEF Playable

LEMMA PlayElsewhere ==
  ASSUME Formed, Typed, NEW m \in tree.matches, NEW p \in {1, 2}, Play(m, p), NEW s \in Slots,
         \A l \in tree.links : l[2] = m => s # <<l[3], l[4]>>,
         m = GF /\ p = 2 => s[1] # GF2
  PROVE  seat'[s] = seat[s]
<1>1. \A x \in Slots : /\ \A l \in tree.links : l[2] = m => x # <<l[3], l[4]>>
                       /\ ~(m = GF /\ p = 2 /\ x[1] = GF2)
                       => seat'[x] = seat[x]
  BY PlaySeats
<1> QED BY <1>1

\* Where a team goes nobody has been, and who sits somewhere stays there.
LEMMA FilledStays ==
  ASSUME Basic, NEW m \in tree.matches, NEW p \in {1, 2}, Play(m, p)
  PROVE  /\ \A l \in tree.links : l[2] = m => seat[<<l[3], l[4]>>] = 0 /\ won[l[3]] = 0
         /\ m = GF => GF2 \in tree.matches /\ won[GF2] = 0 /\ \A q \in {1, 2} : seat[<<GF2, q>>] = 0
         /\ \A s \in Slots : seat[s] # 0 => seat'[s] = seat[s]
         /\ \A s \in Slots : won[s[1]] # 0 => seat[s] # 0 /\ s[1] # m
<1>1. won[m] = 0
  BY PlaySeats DEF Basic
<1>2. ASSUME NEW l \in tree.links, l[2] = m PROVE seat[<<l[3], l[4]>>] = 0 /\ won[l[3]] = 0
  <2>1. seat[<<l[3], l[4]>>] = 0
    BY <1>1, <1>2 DEF Basic, Followed
  <2> QED BY <2>1, LinkShape DEF Basic, PlayedFull
<1>3. ASSUME m = GF PROVE GF2 \in tree.matches /\ won[GF2] = 0 /\ \A q \in {1, 2} : seat[<<GF2, q>>] = 0
  <2>1. double /\ GF2 \in tree.matches
    BY <1>3, FieldShape DEF Basic
  <2>2. \A q \in {1, 2} : seat[<<GF2, q>>] = 0
    BY <1>1, <1>3, <2>1 DEF Basic, Mirrored
  <2> QED BY <2>1, <2>2 DEF Basic, PlayedFull
<1>4. ASSUME NEW s \in Slots, seat[s] # 0 PROVE seat'[s] = seat[s]
  <2>1. \A l \in tree.links : l[2] = m => s # <<l[3], l[4]>>
    BY <1>2, <1>4
  <2>2. ~(m = GF /\ s[1] = GF2)
    BY <1>3, <1>4, SlotShape
  <2>3. Formed /\ Typed
    BY DEF Basic
  <2> QED BY <2>1, <2>2, <2>3, PlayElsewhere
<1>5. ASSUME NEW s \in Slots, won[s[1]] # 0 PROVE seat[s] # 0 /\ s[1] # m
  <2>1. s[1] \in tree.matches /\ (s = <<s[1], 1>> \/ s = <<s[1], 2>>)
    BY SlotShape
  <2> QED BY <1>1, <1>5, <2>1 DEF Basic, PlayedFull
<1> QED BY <1>2, <1>3, <1>4, <1>5

LEMMA InitBasic == Init => Basic
<1> SUFFICES ASSUME Init PROVE Basic
  OBVIOUS
<1>1. Formed
  BY FieldsAreWellFormed DEF Init, Formed, n, double
<1> DEFINE start(s) == IF \E t \in tree.teams : <<t[2], t[3]>> = s
                       THEN (CHOOSE t \in tree.teams : <<t[2], t[3]>> = s)[1] ELSE 0
<1>2. seat = [s \in Slots |-> start(s)] /\ won = [m \in tree.matches |-> 0]
  BY DEF Init, Slots
<1>3. ASSUME NEW s \in Slots, \A x \in tree.teams : <<x[2], x[3]>> # s PROVE seat[s] = 0
  BY <1>2, <1>3
<1>4. ASSUME NEW x \in tree.teams PROVE seat[<<x[2], x[3]>>] = x[1]
  <2> DEFINE s == <<x[2], x[3]>>
  <2>1. s \in Slots
    BY <1>1, StartShape
  <2>2. \A t \in tree.teams : <<t[2], t[3]>> = s => t = x
    BY <1>1 DEF Formed, WellFormed, OneSource
  <2>3. (CHOOSE t \in tree.teams : <<t[2], t[3]>> = s) = x
    BY <2>2
  <2> HIDE DEF s
  <2>4. \E t \in tree.teams : <<t[2], t[3]>> = s
    BY DEF s
  <2>5. start(s) = x[1]
    BY <2>3, <2>4
  <2> HIDE DEF start
  <2> QED BY <1>2, <2>1, <2>5 DEF s
<1>5. Typed
  <2>1. ASSUME NEW s \in Slots PROVE seat[s] \in 0 .. n
    <3>1. CASE \E x \in tree.teams : <<x[2], x[3]>> = s
      <4>1. PICK x \in tree.teams : <<x[2], x[3]>> = s
        BY <3>1
      <4>2. seat[s] = x[1] /\ x[1] \in 1 .. n
        BY <1>1, <1>4, <4>1, StartShape
      <4> QED BY <1>1, <4>2, FieldShape
    <3>2. CASE ~\E x \in tree.teams : <<x[2], x[3]>> = s
      BY <1>1, <1>3, <3>2, FieldShape
    <3> QED BY <3>1, <3>2
  <2> HIDE DEF start
  <2> QED BY <1>2, <2>1 DEF Typed
<1>6. Followed
  <2> SUFFICES ASSUME NEW l \in tree.links PROVE seat[<<l[3], l[4]>>] = 0 /\ won[l[2]] = 0
    BY DEF Followed
  <2>1. <<l[3], l[4]>> \in Slots /\ l[2] \in tree.matches
    BY <1>1, LinkShape
  <2>2. \A x \in tree.teams : <<x[2], x[3]>> # <<l[3], l[4]>>
    BY <1>1, StartShape
  <2>3. seat[<<l[3], l[4]>>] = 0
    BY <1>3, <2>1, <2>2
  <2> QED BY <1>2, <2>1, <2>3
<1>7. Mirrored
  <2> SUFFICES ASSUME double, NEW p \in {1, 2} PROVE seat[<<GF2, p>>] = 0 /\ won[GF] = 0
    BY DEF Mirrored
  <2>1. <<GF2, p>> \in Slots /\ GF \in tree.matches
    BY <1>1, FieldShape, SlotShape
  <2>2. \A x \in tree.teams : <<x[2], x[3]>> # <<GF2, p>>
    BY <1>1, StartShape
  <2> QED BY <1>2, <1>3, <2>1, <2>2
<1> QED BY <1>1, <1>2, <1>4, <1>5, <1>6, <1>7 DEF Basic, Started, PlayedFull

LEMMA PlayKeepsBasic ==
  ASSUME Basic, NEW m \in tree.matches, NEW p \in {1, 2}, Play(m, p)
  PROVE  Basic'
<1>1. UNCHANGED <<field, tree>> /\ \A x \in tree.matches : won'[x] = IF x = m THEN p ELSE won[x]
  BY PlaySeats DEF Basic
<1>2. Formed' /\ Formed /\ Slots' = Slots
  BY <1>1 DEF Basic, Formed, n, double, Slots
<1>3. Typed'
  BY <1>1, <1>2, PlaySeats DEF Basic, Typed, n
<1>4. Started'
  <2> SUFFICES ASSUME NEW x \in tree.teams PROVE seat'[<<x[2], x[3]>>] = x[1]
    BY <1>1 DEF Started
  <2>1. seat[<<x[2], x[3]>>] = x[1] /\ <<x[2], x[3]>> \in Slots /\ x[1] # 0
    BY <1>2, StartShape, FieldShape DEF Basic, Started
  <2> QED BY <2>1, FilledStays
<1>5. Followed'
  <2> SUFFICES ASSUME NEW l \in tree.links
               PROVE  seat'[<<l[3], l[4]>>] = IF won'[l[2]] = 0 THEN 0
                                              ELSE seat'[<<l[2], From(l[1], won'[l[2]])>>]
    BY <1>1 DEF Followed
  <2>1. l[2] \in tree.matches /\ l[3] # GF2 /\ <<l[3], l[4]>> \in Slots /\ l[1] \in {"winner", "loser"}
    BY <1>2, LinkShape
  <2>2. CASE l[2] = m
    <3>1. seat'[<<l[3], l[4]>>] = seat[<<m, From(l[1], p)>>] /\ seat[<<m, 1>>] # 0 /\ seat[<<m, 2>>] # 0
      BY <1>2, <2>2, PlaySeats DEF Basic
    <3>2. From(l[1], p) \in {1, 2}
      BY <2>1, FromShape
    <3>3. seat'[<<m, From(l[1], p)>>] = seat[<<m, From(l[1], p)>>]
      BY <3>1, <3>2, FilledStays, SlotShape
    <3> QED BY <1>1, <2>2, <3>1, <3>3
  <2>3. CASE l[2] # m
    <3>1. \A k \in tree.links : k[2] = m => <<l[3], l[4]>> # <<k[3], k[4]>>
      BY <1>2, <2>3, LinksDiffer
    <3>2. seat'[<<l[3], l[4]>>] = seat[<<l[3], l[4]>>]
      <4> DEFINE s == <<l[3], l[4]>>
      <4>1. s \in Slots /\ s[1] # GF2
        BY <2>1
      <4>2. \A k \in tree.links : k[2] = m => s # <<k[3], k[4]>>
        BY <3>1
      <4> HIDE DEF s
      <4>3. seat'[s] = seat[s]
        BY <4>1, <4>2, PlayElsewhere DEF Basic
      <4> QED BY <4>3 DEF s
    <3>3. CASE won[l[2]] = 0
      BY <1>1, <2>1, <2>3, <3>2, <3>3 DEF Basic, Followed
    <3>4. CASE won[l[2]] # 0
      <4>1. won[l[2]] \in {1, 2}
        BY <2>1, <3>4 DEF Basic, Typed
      <4>2. <<l[2], From(l[1], won[l[2]])>> \in Slots
        BY <2>1, <4>1, FromShape, SlotShape
      <4>3. seat'[<<l[2], From(l[1], won[l[2]])>>] = seat[<<l[2], From(l[1], won[l[2]])>>]
        BY <2>1, <3>4, <4>2, FilledStays
      <4> QED BY <1>1, <2>1, <2>3, <3>2, <3>4, <4>3 DEF Basic, Followed
    <3> QED BY <3>3, <3>4
  <2> QED BY <2>2, <2>3
<1>6. Mirrored'
  <2> SUFFICES ASSUME double, NEW q \in {1, 2}
               PROVE  seat'[<<GF2, q>>] = IF won'[GF] = 2 THEN seat'[<<GF, q>>] ELSE 0
    BY <1>1 DEF Mirrored, double
  <2>1. /\ GF \in tree.matches /\ <<GF2, q>> \in Slots /\ <<GF, q>> \in Slots
        /\ \A l \in tree.links : <<GF2, q>> # <<l[3], l[4]>>
    BY <1>2, FieldShape, SlotShape, LinkShape
  <2>2. CASE m = GF /\ p = 2
    <3>1. seat'[<<GF2, q>>] = seat[<<GF, q>>] /\ seat[<<GF, 1>>] # 0 /\ seat[<<GF, 2>>] # 0
      BY <1>2, <2>1, <2>2, PlaySeats DEF Basic
    <3>2. seat'[<<GF, q>>] = seat[<<GF, q>>]
      BY <2>1, <3>1, FilledStays
    <3> QED BY <1>1, <2>1, <2>2, <3>1, <3>2
  <2>3. CASE ~(m = GF /\ p = 2)
    <3>1. seat'[<<GF2, q>>] = seat[<<GF2, q>>]
      <4> DEFINE s == <<GF2, q>>
      <4>1. s \in Slots /\ \A l \in tree.links : l[2] = m => s # <<l[3], l[4]>>
        BY <2>1
      <4> HIDE DEF s
      <4>2. seat'[s] = seat[s]
        BY <2>3, <4>1, PlayElsewhere DEF Basic
      <4> QED BY <4>2 DEF s
    <3>2. seat[<<GF2, q>>] = IF won[GF] = 2 THEN seat[<<GF, q>>] ELSE 0
      BY DEF Basic, Mirrored
    <3>3. CASE won[GF] = 2
      <4>1. seat'[<<GF, q>>] = seat[<<GF, q>>] /\ m # GF
        BY <2>1, <3>3, FilledStays
      <4> QED BY <1>1, <2>1, <3>1, <3>2, <3>3, <4>1
    <3>4. CASE won[GF] # 2
      <4>1. won'[GF] # 2
        BY <1>1, <2>1, <2>3, <3>4
      <4> QED BY <3>1, <3>2, <3>4, <4>1
    <3> QED BY <3>3, <3>4
  <2> QED BY <2>2, <2>3
<1>7. PlayedFull'
  <2> SUFFICES ASSUME NEW x \in tree.matches, won'[x] # 0, NEW q \in {1, 2} PROVE seat'[<<x, q>>] # 0
    BY <1>1 DEF PlayedFull
  <2>1. seat[<<x, q>>] # 0 /\ <<x, q>> \in Slots
    <3>1. CASE x = m
      BY <1>2, <3>1, PlaySeats, SlotShape DEF Basic
    <3>2. CASE x # m
      BY <1>1, <3>2, SlotShape DEF Basic, PlayedFull
    <3> QED BY <3>1, <3>2
  <2> QED BY <2>1, FilledStays
<1> QED BY <1>2, <1>3, <1>4, <1>5, <1>6, <1>7 DEF Basic

LEMMA AlwaysBasic == Spec => []Basic
<1>1. Basic /\ [Next]_vars => Basic'
  <2> SUFFICES ASSUME Basic, [Next]_vars PROVE Basic'
    OBVIOUS
  <2>1. CASE Next
    BY <2>1, PlayKeepsBasic DEF Next
  <2>2. CASE UNCHANGED vars
    BY <2>2 DEF vars, Basic, Formed, Typed, Started, Followed, Mirrored, PlayedFull, Slots, n, double
  <2> QED BY <2>1, <2>2
<1> QED BY <1>1, InitBasic, PTL DEF Spec

----------------------------------------------------------------------------
\* Results, and the placements read off them, are final.

LEMMA Results ==
  ASSUME Basic, NEW m \in tree.matches
  PROVE  /\ won[m] = 0 => Winner[m] = 0 /\ Loser[m] = 0
         /\ won[m] # 0 => /\ won[m] \in {1, 2} /\ 3 - won[m] \in {1, 2} /\ won[m] # 3 - won[m]
                          /\ Winner[m] = seat[<<m, won[m]>>] /\ Winner[m] \in 1 .. n
                          /\ Loser[m] = seat[<<m, 3 - won[m]>>] /\ Loser[m] \in 1 .. n
<1>1. Winner[m] = IF won[m] = 0 THEN 0 ELSE seat[<<m, won[m]>>]
  BY DEF Winner
<1>2. Loser[m] = IF won[m] = 0 THEN 0 ELSE seat[<<m, 3 - won[m]>>]
  BY DEF Loser
<1>3. ASSUME won[m] # 0 PROVE won[m] \in {1, 2} /\ 3 - won[m] \in {1, 2} /\ won[m] # 3 - won[m]
  BY <1>3 DEF Basic, Typed
<1>4. ASSUME won[m] # 0, NEW p \in {1, 2} PROVE seat[<<m, p>>] \in 1 .. n
  <2>1. seat[<<m, p>>] \in 0 .. n /\ seat[<<m, p>>] # 0
    BY <1>4, SlotShape DEF Basic, Typed, PlayedFull
  <2> QED BY <2>1, FieldShape DEF Basic
<1> QED BY <1>1, <1>2, <1>3, <1>4

LEMMA ResultsStay ==
  ASSUME Basic, NEW m \in tree.matches, NEW p \in {1, 2}, Play(m, p),
         NEW x \in tree.matches, x # m
  PROVE  Winner'[x] = Winner[x] /\ Loser'[x] = Loser[x] /\ won'[x] = won[x]
<1>1. UNCHANGED tree /\ won'[x] = won[x]
  BY PlaySeats DEF Basic
<1>2. Winner'[x] = IF won'[x] = 0 THEN 0 ELSE seat'[<<x, won'[x]>>]
  BY <1>1 DEF Winner
<1>3. Loser'[x] = IF won'[x] = 0 THEN 0 ELSE seat'[<<x, 3 - won'[x]>>]
  BY <1>1 DEF Loser
<1>4. ASSUME won[x] # 0, NEW q \in {1, 2} PROVE seat'[<<x, q>>] = seat[<<x, q>>]
  BY <1>4, FilledStays, SlotShape DEF Basic, PlayedFull
<1> QED BY <1>1, <1>2, <1>3, <1>4, Results

Knocking == Eliminating(tree)
FinalRound == {m \in Knocking : \A e \in Knocking : e[2] <= m[2]}
Decides == Decider(tree, Winner, won)
DecidesNow ==
  {x \in tree.matches :
     /\ won[x] # 0
     /\ IF double THEN x \in {GF, GF2} /\ won[GF] # 0 /\ (x = GF <=> won[GF] = 1)
                  ELSE x \in FinalRound /\ Cardinality(FinalRound) = 1}
PlacesNow ==
  {<<Loser[m], n - Cumulative(tree, m) + 1>> : m \in {x \in Knocking : won[x] # 0}}
    \cup {<<Winner[m], 1>> : m \in Decides}
    \cup {<<Loser[m], 2>> : m \in Decides \cap {GF, GF2}}

LEMMA DecidesAre == Basic => Decides = DecidesNow
<1> SUFFICES ASSUME Basic PROVE Decides = DecidesNow
  OBVIOUS
<1>0. Formed /\ n \in Nat
  BY FieldShape DEF Basic
<1>1. \A x \in tree.matches : Winner[x] # 0 <=> won[x] # 0
  <2> TAKE x \in tree.matches
  <2>1. won[x] # 0 => Winner[x] \in 1 .. n
    BY Results
  <2>2. won[x] # 0 => Winner[x] # 0
    BY <1>0, <2>1
  <2>3. won[x] = 0 => Winner[x] = 0
    BY Results
  <2> QED BY <2>2, <2>3
<1>2. CASE double
  BY <1>0, <1>1, <1>2, FieldShape DEF Decides, DecidesNow, Decider
<1>3. CASE ~double
  <2>1. FinalRound \subseteq tree.matches
    BY DEF FinalRound, Knocking, Eliminating
  <2> QED BY <1>0, <1>1, <1>3, <2>1, FieldShape DEF Decides, DecidesNow, Decider, FinalRound, Knocking
<1> QED BY <1>2, <1>3

LEMMA PlacesAre == Basic => Places = PlacesNow
<1>0. Basic => n \in Nat
  BY FieldShape DEF Basic
<1>1. Knocking \subseteq tree.matches
  BY DEF Knocking, Eliminating
<1>2. ASSUME Basic, NEW x \in Knocking PROVE Loser[x] # 0 <=> won[x] # 0
  <2>1. won[x] # 0 => Loser[x] \in 1 .. n
    BY <1>1, <1>2, Results
  <2>2. won[x] # 0 => Loser[x] # 0
    BY <1>0, <1>2, <2>1
  <2>3. won[x] = 0 => Loser[x] = 0
    BY <1>1, <1>2, Results
  <2> QED BY <2>2, <2>3
<1>3. Basic => {m \in Eliminating(tree) : Loser[m] # 0} = {x \in Knocking : won[x] # 0}
  BY <1>2 DEF Knocking
<1> QED BY <1>3 DEF Places, PlacesNow, elimination_placements, Decides

ReadRight == Decides = DecidesNow /\ Places = PlacesNow

LEMMA Reads == Basic => ReadRight
BY DecidesAre, PlacesAre DEF ReadRight

LEMMA ReadsNext == Basic' => ReadRight'
BY Reads, PTL

LEMMA PlacesStay ==
  ASSUME Basic, NEW m \in tree.matches, NEW p \in {1, 2}, Play(m, p)
  PROVE  Places \subseteq Places'
<1>0. Basic'
  BY PlayKeepsBasic
<1>1. UNCHANGED <<field, tree>> /\ won[m] = 0
  BY PlaySeats DEF Basic
<1>2. n' = n /\ double' = double /\ Knocking' = Knocking /\ FinalRound' = FinalRound
  BY <1>1 DEF n, double, Knocking, FinalRound
<1>3. ASSUME NEW x \in tree.matches, won[x] # 0
      PROVE  Winner'[x] = Winner[x] /\ Loser'[x] = Loser[x] /\ won'[x] = won[x] /\ won'[x] # 0
  BY <1>1, <1>3, ResultsStay
<1>4. Knocking \subseteq tree.matches
  BY DEF Knocking, Eliminating
<1>5. Decides \subseteq Decides' /\ \A x \in Decides : x \in tree.matches /\ won[x] # 0
  <2> SUFFICES ASSUME NEW x \in Decides PROVE x \in Decides' /\ x \in tree.matches /\ won[x] # 0
    OBVIOUS
  <2>1. /\ x \in tree.matches /\ won[x] # 0
        /\ IF double THEN x \in {GF, GF2} /\ won[GF] # 0 /\ (x = GF <=> won[GF] = 1)
                     ELSE x \in FinalRound /\ Cardinality(FinalRound) = 1
    BY DecidesAre DEF DecidesNow
  <2>2. double => won'[GF] = won[GF]
    BY <1>3, <2>1, FieldShape DEF Basic
  <2>3. Decides' = {y \in tree.matches :
                      /\ won'[y] # 0
                      /\ IF double THEN y \in {GF, GF2} /\ won'[GF] # 0 /\ (y = GF <=> won'[GF] = 1)
                                   ELSE y \in FinalRound /\ Cardinality(FinalRound) = 1}
    <3>1. Decides' = DecidesNow'
      BY <1>0, ReadsNext DEF ReadRight
    <3> QED BY <1>1, <1>2, <3>1 DEF DecidesNow
  <2> QED BY <1>3, <2>1, <2>2, <2>3
<1>6. Places' = {<<Loser'[x], n - Cumulative(tree, x) + 1>> : x \in {y \in Knocking : won'[y] # 0}}
                  \cup {<<Winner'[x], 1>> : x \in Decides'}
                  \cup {<<Loser'[x], 2>> : x \in Decides' \cap {GF, GF2}}
  <2>1. Places' = PlacesNow'
    BY <1>0, ReadsNext DEF ReadRight
  <2> QED BY <1>1, <1>2, <2>1 DEF PlacesNow
<1>7. SUFFICES ASSUME NEW q \in Places PROVE q \in Places'
  OBVIOUS
<1>8. CASE \E x \in {y \in Knocking : won[y] # 0} : q = <<Loser[x], n - Cumulative(tree, x) + 1>>
  <2>1. PICK x \in Knocking : won[x] # 0 /\ q = <<Loser[x], n - Cumulative(tree, x) + 1>>
    BY <1>8
  <2>2. Loser'[x] = Loser[x] /\ won'[x] # 0
    BY <1>3, <1>4, <2>1
  <2> QED BY <1>6, <2>1, <2>2
<1>9. CASE \E x \in Decides : q = <<Winner[x], 1>>
  BY <1>3, <1>5, <1>6, <1>9
<1>10. CASE \E x \in Decides \cap {GF, GF2} : q = <<Loser[x], 2>>
  BY <1>3, <1>5, <1>6, <1>10
<1> QED BY <1>8, <1>9, <1>10, PlacesAre DEF PlacesNow

\* A place that somebody has is final: later results add places only.
THEOREM PlacesAreFinal == Spec => PlacementsAreFinal
<1>1. Basic /\ [Next]_vars => [Places \subseteq Places']_vars
  BY PlacesStay DEF Next
<1> QED BY <1>1, AlwaysBasic, PTL DEF Spec, PlacementsAreFinal

----------------------------------------------------------------------------
\* Where the team in slot q goes from a match m that slot p wins.
OnTo(m, p, q, s) ==
  \/ m = GF /\ p = 2 /\ s = <<GF2, q>>
  \/ /\ ~(m = GF /\ p = 2)
     /\ \/ \E l \in tree.links : l[1] = Side(p, q) /\ l[2] = m /\ s = <<l[3], l[4]>>
        \/ ~Linked(Side(p, q), m) /\ s = <<m, q>>

LEMMA SideShape ==
  \A p, q \in {1, 2} : Side(p, q) \in {"winner", "loser"} /\ From(Side(p, q), p) = q
BY DEF Side, From

LEMMA SidesDiffer ==
  \A p, q, r \in {1, 2} : Side(p, q) = Side(p, r) => q = r
BY DEF Side

LEMMA Destination ==
  ASSUME Formed, NEW m \in tree.matches, NEW p \in {1, 2}, NEW q \in {1, 2}
  PROVE  \E y \in Slots : OnTo(m, p, q, y)
<1>1. CASE m = GF /\ p = 2
  BY <1>1, FieldShape, SlotShape DEF OnTo
<1>2. CASE ~(m = GF /\ p = 2) /\ Linked(Side(p, q), m)
  <2>1. PICK l \in tree.links : l[1] = Side(p, q) /\ l[2] = m
    BY <1>2 DEF Linked
  <2>2. <<l[3], l[4]>> \in Slots
    BY LinkShape
  <2> QED BY <1>2, <2>1, <2>2 DEF OnTo
<1>3. CASE ~(m = GF /\ p = 2) /\ ~Linked(Side(p, q), m)
  BY <1>3, SlotShape DEF OnTo
<1> QED BY <1>1, <1>2, <1>3

LEMMA NewSeat ==
  ASSUME Basic, NEW m \in tree.matches, NEW p \in {1, 2}, Play(m, p),
         NEW q \in {1, 2}, NEW y \in Slots, OnTo(m, p, q, y)
  PROVE  \/ y = <<m, q>> /\ ~Linked(Side(p, q), m) /\ ~(m = GF /\ p = 2)
         \/ y[1] # m /\ seat[y] = 0 /\ won[y[1]] = 0 /\ won'[y[1]] = 0
<1>0. Formed /\ Typed
  BY DEF Basic
<1>1. /\ \A x \in tree.matches : won'[x] = IF x = m THEN p ELSE won[x]
      /\ seat[<<m, q>>] # 0 /\ <<m, q>> \in Slots /\ won[m] = 0
      /\ Formed /\ y[1] \in tree.matches
  <2>1. /\ \A x \in tree.matches : won'[x] = IF x = m THEN p ELSE won[x]
        /\ seat[<<m, 1>>] # 0 /\ seat[<<m, 2>>] # 0 /\ won[m] = 0
    BY <1>0, PlaySeats
  <2> QED BY <1>0, <2>1, SlotShape
<1>2. CASE m = GF /\ p = 2 /\ y = <<GF2, q>>
  <2>1. GF # GF2 /\ won[GF2] = 0 /\ seat[<<GF2, q>>] = 0
    BY <1>1, <1>2, FieldShape, FilledStays
  <2> QED BY <1>1, <1>2, <2>1
<1>3. CASE \E l \in tree.links : l[1] = Side(p, q) /\ l[2] = m /\ y = <<l[3], l[4]>>
  <2>1. PICK l \in tree.links : l[1] = Side(p, q) /\ l[2] = m /\ y = <<l[3], l[4]>>
    BY <1>3
  <2>2. seat[y] = 0 /\ won[l[3]] = 0
    BY <2>1, FilledStays
  <2>3. l[3] # m
    BY <1>1, <2>1, LinkShape
  <2> QED BY <1>1, <2>1, <2>2, <2>3
<1>4. CASE ~Linked(Side(p, q), m) /\ y = <<m, q>> /\ ~(m = GF /\ p = 2)
  BY <1>1, <1>4, FilledStays
<1> QED BY <1>2, <1>3, <1>4 DEF OnTo

LEMMA Arrival ==
  ASSUME Basic, NEW m \in tree.matches, NEW p \in {1, 2}, Play(m, p),
         NEW q \in {1, 2}, NEW y \in Slots, OnTo(m, p, q, y)
  PROVE  seat'[y] = seat[<<m, q>>] /\ seat[<<m, q>>] # 0
<1>0. Formed /\ Typed
  BY DEF Basic
<1>1. seat[<<m, q>>] # 0
  BY <1>0, PlaySeats
<1>2. CASE m = GF /\ p = 2 /\ y = <<GF2, q>>
  <2>1. seat'[<<GF2, q>>] = seat[<<GF, q>>]
    BY <1>0, <1>2, PlaySeats
  <2> QED BY <1>1, <1>2, <2>1
<1>3. CASE \E l \in tree.links : l[1] = Side(p, q) /\ l[2] = m /\ y = <<l[3], l[4]>>
  <2>1. PICK l \in tree.links : l[1] = Side(p, q) /\ l[2] = m /\ y = <<l[3], l[4]>>
    BY <1>3
  <2>2. \A k \in tree.links : k[2] = m => seat'[<<k[3], k[4]>>] = seat[<<m, From(k[1], p)>>]
    BY <1>0, PlaySeats
  <2> QED BY <1>1, <2>1, <2>2, SideShape
<1>4. CASE ~Linked(Side(p, q), m) /\ y = <<m, q>>
  BY <1>1, <1>4, FilledStays
<1> QED BY <1>2, <1>3, <1>4 DEF OnTo

LEMMA Apart ==
  ASSUME Formed, NEW m \in tree.matches, NEW p \in {1, 2}, NEW q \in {1, 2}, NEW r \in {1, 2},
         NEW y \in Slots, NEW z \in Slots, OnTo(m, p, q, y), OnTo(m, p, r, z), y = z \/ q = r
  PROVE  y = z /\ q = r
<1>1. CASE m = GF /\ p = 2
  BY <1>1 DEF OnTo
<1>2. CASE ~(m = GF /\ p = 2)
  <2>1. ASSUME NEW l \in tree.links, l[2] = m, NEW s \in {1, 2} PROVE <<l[3], l[4]>> # <<m, s>>
    BY <2>1, LinkShape
  <2>2. ASSUME NEW l \in tree.links, NEW k \in tree.links, l[2] = m, k[2] = m,
               l[1] = Side(p, q), k[1] = Side(p, r), y = <<l[3], l[4]>>, z = <<k[3], k[4]>>
        PROVE  y = z /\ q = r
    <3>1. l = k
      BY <2>2, LinksDiffer
    <3> QED BY <2>2, <3>1, SidesDiffer
  <2>3. CASE \E l \in tree.links : l[1] = Side(p, q) /\ l[2] = m /\ y = <<l[3], l[4]>>
    <3>1. PICK l \in tree.links : l[1] = Side(p, q) /\ l[2] = m /\ y = <<l[3], l[4]>>
      BY <2>3
    <3>2. CASE \E k \in tree.links : k[1] = Side(p, r) /\ k[2] = m /\ z = <<k[3], k[4]>>
      BY <2>2, <3>1, <3>2
    <3>3. CASE ~Linked(Side(p, r), m) /\ z = <<m, r>>
      <4>1. y # z
        BY <2>1, <3>1, <3>3
      <4>2. q # r
        BY <3>1, <3>3 DEF Linked
      <4> QED BY <4>1, <4>2
    <3> QED BY <1>2, <3>2, <3>3 DEF OnTo
  <2>4. CASE ~Linked(Side(p, q), m) /\ y = <<m, q>>
    <3>1. CASE \E k \in tree.links : k[1] = Side(p, r) /\ k[2] = m /\ z = <<k[3], k[4]>>
      <4>1. y # z
        BY <2>1, <2>4, <3>1
      <4>2. q # r
        BY <2>4, <3>1 DEF Linked
      <4> QED BY <4>1, <4>2
    <3>2. CASE z = <<m, r>>
      BY <2>4, <3>2
    <3> QED BY <1>2, <3>1, <3>2 DEF OnTo
  <2> QED BY <1>2, <2>3, <2>4 DEF OnTo
<1> QED BY <1>1, <1>2

\* The last slots after the match: where its teams went, and the others unchanged.
LEMMA LastNext ==
  ASSUME Basic, NEW m \in tree.matches, NEW p \in {1, 2}, Play(m, p), NEW s \in Slots
  PROVE  /\ (\E q \in {1, 2} : OnTo(m, p, q, s)) => Last(s)'
         /\ s[1] # m /\ Last(s) => Last(s)' /\ seat'[s] = seat[s] /\ won'[s[1]] = won[s[1]]
         /\ Last(s)' => (\E q \in {1, 2} : OnTo(m, p, q, s)) \/ (s[1] # m /\ Last(s))
<1>0. Formed /\ Typed
  BY DEF Basic
<1>1. /\ \A x \in tree.matches : won'[x] = IF x = m THEN p ELSE won[x]
      /\ won[m] = 0 /\ Formed /\ UNCHANGED tree
      /\ s[1] \in tree.matches /\ s[2] \in {1, 2} /\ s = <<s[1], s[2]>>
  <2>1. \A x \in tree.matches : won'[x] = IF x = m THEN p ELSE won[x]
    BY <1>0, PlaySeats
  <2>2. won[m] = 0
    BY <1>0, PlaySeats
  <2>3. UNCHANGED tree
    BY DEF Play
  <2> QED BY <1>0, <2>1, <2>2, <2>3, SlotShape
<1>2. Last(s)' <=> /\ seat'[s] # 0
                   /\ \/ won'[s[1]] = 0
                      \/ ~Linked(Side(won'[s[1]], s[2]), s[1]) /\ ~(s[1] = GF /\ won'[GF] = 2)
  BY <1>1 DEF Last, MovedOn, Linked
<1>3. Last(s) <=> /\ seat[s] # 0
                  /\ \/ won[s[1]] = 0
                     \/ ~Linked(Side(won[s[1]], s[2]), s[1]) /\ ~(s[1] = GF /\ won[GF] = 2)
  BY <1>1 DEF Last, MovedOn
<1>4. ASSUME NEW q \in {1, 2}, OnTo(m, p, q, s) PROVE Last(s)'
  <2>1. /\ seat'[s] # 0
        /\ \/ s = <<m, q>> /\ ~Linked(Side(p, q), m) /\ ~(m = GF /\ p = 2)
           \/ s[1] # m /\ won'[s[1]] = 0
    <3>1. OnTo(m, p, q, s)
      BY <1>4
    <3>2. seat'[s] # 0
      BY <3>1, Arrival
    <3>3. \/ s = <<m, q>> /\ ~Linked(Side(p, q), m) /\ ~(m = GF /\ p = 2)
          \/ s[1] # m /\ seat[s] = 0 /\ won[s[1]] = 0 /\ won'[s[1]] = 0
      BY <3>1, NewSeat
    <3> QED BY <3>2, <3>3
  <2>2. CASE s = <<m, q>> /\ ~Linked(Side(p, q), m) /\ ~(m = GF /\ p = 2)
    <3>1. s[1] = m /\ s[2] = q /\ won'[m] = p
      BY <1>1, <2>2
    <3>2. ~(s[1] = GF /\ won'[GF] = 2) /\ ~Linked(Side(won'[s[1]], s[2]), s[1])
      BY <2>2, <3>1
    <3> QED BY <1>2, <2>1, <3>2
  <2>3. CASE s[1] # m /\ won'[s[1]] = 0
    BY <1>2, <2>1, <2>3
  <2> QED BY <2>1, <2>2, <2>3
<1>5. ASSUME s[1] # m, Last(s) PROVE Last(s)' /\ seat'[s] = seat[s] /\ won'[s[1]] = won[s[1]]
  <2>1. seat'[s] = seat[s] /\ won'[s[1]] = won[s[1]]
    BY <1>1, <1>3, <1>5, FilledStays
  <2>2. s[1] = GF => won'[GF] = won[GF]
    BY <2>1
  <2> QED BY <1>2, <1>3, <1>5, <2>1, <2>2
<1>6. ASSUME Last(s)', ~ \E q \in {1, 2} : OnTo(m, p, q, s) PROVE s[1] # m /\ Last(s)
  <2>1. s[1] # m
    <3>1. SUFFICES ASSUME s[1] = m PROVE FALSE
      OBVIOUS
    <3>2. won'[m] = p /\ p # 0
      BY <1>1
    <3>3. ~Linked(Side(p, s[2]), m) /\ ~(m = GF /\ p = 2)
      BY <1>2, <1>6, <3>1, <3>2
    <3> QED BY <1>1, <1>6, <3>1, <3>3 DEF OnTo
  <2>2. seat'[s] = seat[s]
    <3>1. ASSUME NEW l \in tree.links, l[2] = m PROVE s # <<l[3], l[4]>>
      <4>1. PICK q \in {1, 2} : l[1] = Side(p, q)
        BY LinkShape, <1>1 DEF Side
      <4>2. ~(m = GF /\ p = 2)
        BY <1>1, <3>1, LinkShape
      <4> QED BY <1>6, <3>1, <4>1, <4>2 DEF OnTo
    <3>2. m = GF /\ p = 2 => s[1] # GF2
      BY <1>1, <1>6 DEF OnTo
    <3> QED BY <3>1, <3>2, PlayElsewhere DEF Basic
  <2>3. won'[s[1]] = won[s[1]] /\ (s[1] = GF => won'[GF] = won[GF])
    BY <1>1, <2>1
  <2> QED BY <1>2, <1>3, <1>6, <2>1, <2>2, <2>3
<1> QED BY <1>4, <1>5, <1>6

----------------------------------------------------------------------------
\* The teams of a match are two, and no other slot is the last of either.
LEMMA Pairing ==
  ASSUME Basic, OneLast, NEW m \in tree.matches, NEW p \in {1, 2}, Play(m, p)
  PROVE  /\ \A q \in {1, 2} : /\ <<m, q>> \in Slots /\ Last(<<m, q>>) /\ ~Beaten(<<m, q>>)
                              /\ seat[<<m, q>>] \in 1 .. n
         /\ seat[<<m, 1>>] # seat[<<m, 2>>]
         /\ \A s \in Slots, q \in {1, 2} : s[1] # m /\ Last(s) => seat[s] # seat[<<m, q>>]
<1>1. Formed /\ Typed /\ n \in Nat
  BY FieldShape DEF Basic
<1>2. won[m] = 0 /\ seat[<<m, 1>>] # 0 /\ seat[<<m, 2>>] # 0
  BY <1>1, PlaySeats
<1>3. ASSUME NEW q \in {1, 2}
      PROVE  <<m, q>> \in Slots /\ Last(<<m, q>>) /\ ~Beaten(<<m, q>>) /\ seat[<<m, q>>] \in 1 .. n
  <2>1. <<m, q>> \in Slots /\ seat[<<m, q>>] # 0
    BY <1>2, SlotShape
  <2>2. Last(<<m, q>>) /\ ~Beaten(<<m, q>>)
    BY <1>2, <2>1 DEF Last, MovedOn, Beaten
  <2>3. seat[<<m, q>>] \in 0 .. n
    BY <1>1, <2>1 DEF Typed
  <2> QED BY <1>1, <2>1, <2>2, <2>3
<1>4. seat[<<m, 1>>] # seat[<<m, 2>>]
  <2>1. <<m, 1>> # <<m, 2>>
    OBVIOUS
  <2> QED BY <1>3, <2>1 DEF OneLast
<1>5. ASSUME NEW s \in Slots, NEW q \in {1, 2}, s[1] # m, Last(s) PROVE seat[s] # seat[<<m, q>>]
  <2>1. s # <<m, q>> /\ <<m, q>> \in Slots /\ Last(<<m, q>>)
    BY <1>3, <1>5
  <2> QED BY <1>5, <2>1 DEF OneLast
<1> QED BY <1>3, <1>4, <1>5

\* The match is one more loss of its loser.
LEMMA LossNext ==
  ASSUME Basic, OneLast, NEW m \in tree.matches, NEW p \in {1, 2}, Play(m, p), NEW t, t # 0
  PROVE  /\ {x \in tree.matches : Loser'[x] = t} =
              IF t = seat[<<m, 3 - p>>] THEN LostIn(t) \cup {m} ELSE LostIn(t)
         /\ m \notin LostIn(t) /\ IsFiniteSet(LostIn(t))
<1>1. /\ Formed /\ Typed /\ n \in Nat /\ 0 \notin 1 .. n /\ IsFiniteSet(tree.matches)
      /\ 3 - p \in {1, 2} /\ p # 0
  BY FieldShape DEF Basic
<1>2. Winner[m] = 0 /\ Loser[m] = 0 /\ UNCHANGED tree /\ won'[m] = p
  <2>1. won[m] = 0 /\ won'[m] = p
    BY <1>1, PlaySeats
  <2>2. Winner[m] = 0 /\ Loser[m] = 0
    BY <2>1 DEF Winner, Loser
  <2> QED BY <2>1, <2>2 DEF Play
<1>3. Loser'[m] = seat[<<m, 3 - p>>]
  <2>1. Loser'[m] = IF won'[m] = 0 THEN 0 ELSE seat'[<<m, 3 - won'[m]>>]
    BY <1>2 DEF Loser
  <2>2. seat[<<m, 3 - p>>] # 0 /\ <<m, 3 - p>> \in Slots
    BY <1>1, PlaySeats, SlotShape
  <2>3. seat'[<<m, 3 - p>>] = seat[<<m, 3 - p>>]
    BY <2>2, FilledStays
  <2> QED BY <1>1, <1>2, <2>1, <2>3
<1>4. \A x \in tree.matches : x # m => Loser'[x] = Loser[x]
  BY ResultsStay
<1>5. m \notin LostIn(t)
  BY <1>1, <1>2 DEF LostIn
<1>6. IsFiniteSet(LostIn(t))
  BY <1>1, FS_Subset DEF LostIn
<1> QED BY <1>1, <1>2, <1>3, <1>4, <1>5, <1>6 DEF LostIn

LEMMA LostNext ==
  ASSUME Basic, OneLast, NEW m \in tree.matches, NEW p \in {1, 2}, Play(m, p), NEW t \in 1 .. n
  PROVE  /\ {x \in tree.matches : Loser'[x] = t} =
              IF t = seat[<<m, 3 - p>>] THEN LostIn(t) \cup {m} ELSE LostIn(t)
         /\ m \notin LostIn(t) /\ IsFiniteSet(LostIn(t))
<1>1. t # 0
  BY FieldShape DEF Basic
<1> QED BY <1>1, LossNext

\* A link leads from a level to the next only for the losers of winner rounds.
LEMMA Levels ==
  ASSUME Formed, NEW m \in tree.matches, NEW p \in {1, 2}, NEW q \in {1, 2}, NEW y \in Slots,
         OnTo(m, p, q, y), y # <<m, q>>
  PROVE  /\ LossesAt(y[1], y[2]) = LossesAt(m, q) + IF q = p THEN 0 ELSE 1
         /\ double => DropsAt(y) = DropsAt(<<m, q>>) + IF q # p /\ m[1] = "winner" THEN 1 ELSE 0
<1>1. GF[1] = "final" /\ GF2[1] = "final" /\ GF # GF2
  BY FieldShape DEF GF, GF2
<1>2. CASE m = GF /\ p = 2 /\ y = <<GF2, q>>
  BY <1>1, <1>2 DEF LossesAt, DropsAt
<1>3. CASE \E l \in tree.links : l[1] = Side(p, q) /\ l[2] = m /\ y = <<l[3], l[4]>>
  <2>1. PICK l \in tree.links : l[1] = Side(p, q) /\ l[2] = m /\ y = <<l[3], l[4]>>
    BY <1>3
  <2>2. /\ LossesAt(l[3], l[4]) = IF l[1] = "loser" THEN 1 ELSE LossesAt(l[2], 1)
        /\ l[1] = "loser" => l[2][1] = "winner"
    BY DEF Formed, WellFormed, SecondLoss
  <2>3. m \notin {GF, GF2} /\ l[3] # GF2
    BY <2>1, LinkShape
  <2>4. \A r \in {1, 2} : LossesAt(m, r) = (IF m[1] = "winner" THEN 0 ELSE 1) /\ DropsAt(<<m, r>>) = LossesAt(m, r)
    BY <2>3 DEF LossesAt, DropsAt
  <2>5. DropsAt(y) = LossesAt(y[1], y[2])
    BY <2>1, <2>3 DEF LossesAt, DropsAt
  <2>6. q = p <=> l[1] # "loser"
    BY <2>1 DEF Side
  <2>7. y[1] = l[3] /\ y[2] = l[4]
    BY <2>1
  <2> QED BY <2>1, <2>2, <2>4, <2>5, <2>6, <2>7
<1> QED BY <1>2, <1>3 DEF OnTo

LEMMA DropLevels ==
  ASSUME Formed, NEW m \in tree.matches, NEW p \in {1, 2}, NEW q \in {1, 2}, NEW y \in Slots,
         OnTo(m, p, q, y), double
  PROVE  \/ y = <<m, q>>
         \/ DropsAt(y) = DropsAt(<<m, q>>) + IF q # p /\ m[1] = "winner" THEN 1 ELSE 0
<1>1. ASSUME y # <<m, q>> PROVE DropsAt(y) = DropsAt(<<m, q>>) + IF q # p /\ m[1] = "winner" THEN 1 ELSE 0
  BY <1>1, Levels
<1> QED BY <1>1

\* Nobody stays where they lost a winner round of a double elimination.
LEMMA Dropping ==
  ASSUME Formed, NEW m \in tree.matches, NEW p \in {1, 2}, NEW q \in {1, 2},
         OnTo(m, p, q, <<m, q>>), q # p, double
  PROVE  m[1] # "winner"
<1> SUFFICES ASSUME m[1] = "winner" PROVE FALSE
  OBVIOUS
<1>1. m \notin {GF, GF2}
  BY DEF GF, GF2
<1>2. Linked("loser", m)
  <2>1. \A x \in tree.matches \ {GF, GF2}, side \in {"winner", "loser"} :
           side = "winner" \/ x[1] = "winner" => \E l \in tree.links : l[1] = side /\ l[2] = x
    BY DEF Formed, WellFormed, SecondLoss
  <2>2. "winner" = "winner" \/ m[1] = "winner" => \E l \in tree.links : l[1] = "loser" /\ l[2] = m
    BY <1>1, <2>1
  <2> QED BY <2>2 DEF Linked
<1>3. Side(p, q) = "loser"
  BY DEF Side
<1>4. \A l \in tree.links : l[2] = m => <<m, q>> # <<l[3], l[4]>>
  BY LinkShape
<1> QED BY <1>1, <1>2, <1>3, <1>4 DEF OnTo

----------------------------------------------------------------------------
\* The last slots stay one for each team, and tell how often it has lost.
LEMMA KeepsLast ==
  ASSUME Basic, OneLast, HasLast, NEW m \in tree.matches, NEW p \in {1, 2}, Play(m, p)
  PROVE  OneLast' /\ HasLast'
<1>1. Formed /\ UNCHANGED <<field, tree>>
  <2>1. Formed /\ Typed
    BY DEF Basic
  <2> QED BY <2>1, PlaySeats
<1>2. Slots' = Slots /\ n' = n
  BY <1>1 DEF Slots, n
<1>3. ASSUME NEW s \in Slots, NEW x \in Slots, Last(s)', Last(x)', seat'[s] = seat'[x] PROVE s = x
  <2>1. ASSUME NEW y \in Slots, NEW q \in {1, 2}, OnTo(m, p, q, y) PROVE seat'[y] = seat[<<m, q>>]
    BY <2>1, Arrival
  <2>2. ASSUME NEW y \in Slots, y[1] # m, Last(y), NEW q \in {1, 2}
        PROVE  seat'[y] = seat[y] /\ seat'[y] # seat[<<m, q>>]
    <3>1. seat'[y] = seat[y]
      BY <2>2, LastNext
    <3>2. seat[y] # seat[<<m, q>>]
      BY <2>2, Pairing
    <3> QED BY <3>1, <3>2
  <2>3. CASE \E q, r \in {1, 2} : OnTo(m, p, q, s) /\ OnTo(m, p, r, x)
    <3>1. PICK q \in {1, 2}, r \in {1, 2} : OnTo(m, p, q, s) /\ OnTo(m, p, r, x)
      BY <2>3
    <3>2. seat[<<m, q>>] = seat[<<m, r>>]
      BY <1>3, <2>1, <3>1
    <3>3. q = r
      BY <3>2, Pairing
    <3> QED BY <1>1, <3>1, <3>3, Apart
  <2>4. CASE (\E q \in {1, 2} : OnTo(m, p, q, s)) /\ x[1] # m /\ Last(x)
    BY <1>3, <2>1, <2>2, <2>4
  <2>5. CASE (\E q \in {1, 2} : OnTo(m, p, q, x)) /\ s[1] # m /\ Last(s)
    BY <1>3, <2>1, <2>2, <2>5
  <2>6. CASE s[1] # m /\ Last(s) /\ x[1] # m /\ Last(x)
    BY <1>3, <2>2, <2>6 DEF OneLast
  <2> QED BY <1>3, <2>3, <2>4, <2>5, <2>6, LastNext
<1>4. ASSUME NEW t \in 1 .. n PROVE \E s \in Slots : Last(s)' /\ seat'[s] = t
  <2>1. PICK s \in Slots : Last(s) /\ seat[s] = t
    BY DEF HasLast
  <2>2. CASE s[1] # m
    BY <2>1, <2>2, LastNext
  <2>3. CASE s[1] = m
    <3>1. s[2] \in {1, 2} /\ s = <<m, s[2]>>
      BY <2>3, SlotShape
    <3>2. PICK y \in Slots : OnTo(m, p, s[2], y)
      BY <1>1, <3>1, Destination
    <3>3. Last(y)'
      BY <3>1, <3>2, LastNext
    <3>4. seat'[y] = seat[<<m, s[2]>>]
      BY <3>1, <3>2, Arrival
    <3> QED BY <2>1, <3>1, <3>3, <3>4
  <2> QED BY <2>2, <2>3
<1> QED BY <1>2, <1>3, <1>4 DEF OneLast, HasLast

LEMMA KeepsLosses ==
  ASSUME Basic, OneLast, LossesFit, NEW m \in tree.matches, NEW p \in {1, 2}, Play(m, p)
  PROVE  LossesFit'
<1>1. Formed /\ Typed /\ UNCHANGED <<field, tree>> /\ won'[m] = p
  <2>1. Formed /\ Typed
    BY DEF Basic
  <2> QED BY <2>1, PlaySeats
<1>2. Slots' = Slots
  BY <1>1 DEF Slots
<1> DEFINE lost(t) == {x \in tree.matches : Loser'[x] = t}
<1>3. SUFFICES ASSUME NEW s \in Slots, Last(s)'
               PROVE  Cardinality(lost(seat'[s])) =
                        LossesAt(s[1], s[2]) + IF won'[s[1]] # 0 /\ won'[s[1]] # s[2] THEN 1 ELSE 0
  BY <1>1, <1>2 DEF LossesFit, LostIn, Beaten
<1>4. CASE \E q \in {1, 2} : OnTo(m, p, q, s)
  <2>1. PICK q \in {1, 2} : OnTo(m, p, q, s)
    BY <1>4
  <2> DEFINE t == seat[<<m, q>>]
  <2>2. seat'[s] = t
    BY <2>1, Arrival
  <2>3. t \in 1 .. n /\ Cardinality(LostIn(t)) = LossesAt(m, q)
    <3>1. <<m, q>> \in Slots /\ Last(<<m, q>>) /\ ~Beaten(<<m, q>>) /\ t \in 1 .. n
      BY Pairing
    <3>2. LossesAt(m, q) \in Nat
      BY DEF LossesAt
    <3> QED BY <3>1, <3>2 DEF LossesFit
  <2>4. q = p \/ q = 3 - p
    OBVIOUS
  <2>5. t = seat[<<m, 3 - p>>] <=> q # p
    BY Pairing
  <2> HIDE DEF t, lost
  <2>6. Cardinality(lost(t)) = LossesAt(m, q) + IF q = p THEN 0 ELSE 1
    <3>1. lost(t) = IF q = p THEN LostIn(t) ELSE LostIn(t) \cup {m}
      BY <2>3, <2>5, LostNext DEF lost
    <3>2. m \notin LostIn(t) /\ IsFiniteSet(LostIn(t))
      BY <2>3, LostNext
    <3>3. Cardinality(LostIn(t) \cup {m}) = Cardinality(LostIn(t)) + 1 /\ LossesAt(m, q) \in Nat
      BY <3>2, FS_AddElement DEF LossesAt
    <3> QED BY <2>3, <3>1, <3>3
  <2>7. CASE s = <<m, q>>
    <3>1. s[1] = m /\ s[2] = q /\ won'[s[1]] = p /\ p # 0
      BY <1>1, <2>7
    <3> QED BY <2>2, <2>6, <3>1
  <2>8. CASE s # <<m, q>>
    <3>1. won'[s[1]] = 0
      BY <2>1, <2>8, NewSeat
    <3>2. LossesAt(s[1], s[2]) = LossesAt(m, q) + IF q = p THEN 0 ELSE 1
      <4>1. Formed
        BY <1>1
      <4>2. OnTo(m, p, q, s)
        BY <2>1
      <4> QED BY <4>1, <4>2, <2>8, Levels
    <3>3. LossesAt(m, q) \in Nat
      BY DEF LossesAt
    <3> QED BY <2>2, <2>6, <3>1, <3>2, <3>3
  <2> QED BY <2>7, <2>8
<1>5. CASE s[1] # m /\ Last(s)
  <2>1. seat'[s] = seat[s] /\ won'[s[1]] = won[s[1]]
    BY <1>5, LastNext
  <2>2. seat[s] # 0 /\ seat[s] \in 0 .. n /\ 3 - p \in {1, 2}
    BY <1>1, <1>5 DEF Last, Typed
  <2>3. seat[s] \in 1 .. n /\ seat[s] # seat[<<m, 3 - p>>]
    <3>1. n \in Nat
      BY <1>1, FieldShape
    <3>2. seat[s] # seat[<<m, 3 - p>>]
      BY <1>5, <2>2, Pairing
    <3> QED BY <2>2, <3>1, <3>2
  <2>4. lost(seat[s]) = LostIn(seat[s])
    BY <2>3, LostNext
  <2> QED BY <1>5, <2>1, <2>4 DEF LossesFit, Beaten
<1> QED BY <1>3, <1>4, <1>5, LastNext

LEMMA KeepsDrops ==
  ASSUME Basic, OneLast, DropsFit, NEW m \in tree.matches, NEW p \in {1, 2}, Play(m, p)
  PROVE  DropsFit'
<1>1. Formed /\ Typed /\ UNCHANGED <<field, tree>> /\ won'[m] = p
  <2>1. Formed /\ Typed
    BY DEF Basic
  <2> QED BY <2>1, PlaySeats
<1>2. Slots' = Slots /\ double' = double
  BY <1>1 DEF Slots, double
<1> DEFINE lost(t) == {x \in tree.matches : Loser'[x] = t}
           dropped(t) == {x \in lost(t) : x[1] = "winner"}
<1>3. SUFFICES ASSUME double, NEW s \in Slots, Last(s)'
               PROVE  Cardinality(dropped(seat'[s])) = DropsAt(s)
  BY <1>1, <1>2 DEF DropsFit, DropsOf, LostIn, DropsAt
<1>4. CASE \E q \in {1, 2} : OnTo(m, p, q, s)
  <2>1. PICK q \in {1, 2} : OnTo(m, p, q, s)
    BY <1>4
  <2> DEFINE t == seat[<<m, q>>]
  <2>2. seat'[s] = t
    BY <2>1, Arrival
  <2>3. t \in 1 .. n /\ Cardinality(DropsOf(t)) = DropsAt(<<m, q>>) /\ DropsAt(<<m, q>>) \in Nat
    <3>1. <<m, q>> \in Slots /\ Last(<<m, q>>) /\ t \in 1 .. n
      BY Pairing
    <3> QED BY <1>3, <3>1 DEF DropsFit, DropsAt
  <2>4. t = seat[<<m, 3 - p>>] <=> q # p
    <3>1. q = p \/ q = 3 - p
      OBVIOUS
    <3> QED BY <3>1, Pairing
  <2> HIDE DEF t, lost
  <2>5. Cardinality(dropped(t)) = DropsAt(<<m, q>>) + IF q # p /\ m[1] = "winner" THEN 1 ELSE 0
    <3>1. lost(t) = IF q = p THEN LostIn(t) ELSE LostIn(t) \cup {m}
      BY <2>3, <2>4, LostNext DEF lost
    <3>2. dropped(t) = IF q # p /\ m[1] = "winner" THEN DropsOf(t) \cup {m} ELSE DropsOf(t)
      BY <3>1 DEF DropsOf
    <3>3. m \notin DropsOf(t) /\ IsFiniteSet(DropsOf(t))
      BY <2>3, LostNext, FS_Subset DEF DropsOf
    <3>4. Cardinality(DropsOf(t) \cup {m}) = Cardinality(DropsOf(t)) + 1
      BY <3>3, FS_AddElement
    <3> HIDE DEF dropped
    <3> QED BY <2>3, <3>2, <3>4
  <2>6. CASE s = <<m, q>>
    <3>1. q # p => m[1] # "winner"
      BY <1>1, <1>3, <2>1, <2>6, Dropping
    <3> QED BY <2>2, <2>3, <2>5, <2>6, <3>1
  <2>7. CASE s # <<m, q>>
    <3>1. DropsAt(s) = DropsAt(<<m, q>>) + IF q # p /\ m[1] = "winner" THEN 1 ELSE 0
      <4>1. OnTo(m, p, q, s) /\ double /\ Formed
        BY <1>1, <1>3, <2>1
      <4>2. \/ s = <<m, q>>
            \/ DropsAt(s) = DropsAt(<<m, q>>) + IF q # p /\ m[1] = "winner" THEN 1 ELSE 0
        BY <4>1, DropLevels
      <4> QED BY <2>7, <4>2
    <3> QED BY <1>3, <2>2, <2>5, <3>1
  <2> QED BY <2>6, <2>7
<1>5. CASE s[1] # m /\ Last(s)
  <2>1. seat'[s] = seat[s]
    BY <1>5, LastNext
  <2>2. seat[s] # 0 /\ seat[s] \in 0 .. n /\ 3 - p \in {1, 2} /\ n \in Nat
    BY <1>1, <1>5, FieldShape DEF Last, Typed
  <2>3. seat[s] # seat[<<m, 3 - p>>]
    BY <1>5, <2>2, Pairing
  <2>4. lost(seat[s]) = LostIn(seat[s])
    <3>1. seat[s] \in 1 .. n
      BY <2>2
    <3> QED BY <2>3, <3>1, LostNext
  <2> HIDE DEF lost
  <2> QED BY <1>3, <1>5, <2>1, <2>4 DEF DropsFit, DropsOf
<1> QED BY <1>3, <1>4, <1>5, LastNext

\* Before anything is played a team is in the slot it starts in.
LEMMA InitIInv == Init => IInv
<1> SUFFICES ASSUME Init PROVE IInv
  OBVIOUS
<1>0. Basic
  BY InitBasic
<1>1. Formed /\ Typed /\ n \in Nat /\ \A m \in tree.matches : won[m] = 0
  BY <1>0, FieldShape DEF Basic, Init
<1>2. ASSUME NEW s \in Slots, seat[s] # 0
      PROVE  \E x \in tree.teams : s = <<x[2], x[3]>> /\ seat[s] = x[1]
  <2>1. s = <<s[1], s[2]>> /\ s[1] \in tree.matches /\ s[2] \in {1, 2}
    BY SlotShape
  <2>2. s[1] # GF2
    <3>1. SUFFICES ASSUME s[1] = GF2 PROVE FALSE
      OBVIOUS
    <3>2. double /\ won[GF] = 0
      BY <1>1, <2>1, <3>1, FieldShape
    <3> QED BY <1>0, <1>2, <2>1, <3>1, <3>2 DEF Basic, Mirrored
  <2>3. \A l \in tree.links : s # <<l[3], l[4]>>
    <3>1. SUFFICES ASSUME NEW l \in tree.links, s = <<l[3], l[4]>> PROVE FALSE
      OBVIOUS
    <3>2. won[l[2]] = 0
      BY <1>1, LinkShape
    <3> QED BY <1>0, <1>2, <3>1, <3>2 DEF Basic, Followed
  <2>4. \E x \in tree.teams : <<x[2], x[3]>> = s
    BY <1>1, <2>1, <2>2, <2>3 DEF Formed, WellFormed, OneSource
  <2> QED BY <1>0, <2>4 DEF Basic, Started
<1>3. ASSUME NEW s \in Slots, Last(s)
      PROVE  /\ seat[s] \in 1 .. n /\ LostIn(seat[s]) = {} /\ DropsOf(seat[s]) = {} /\ ~Beaten(s)
             /\ LossesAt(s[1], s[2]) = 0 /\ DropsAt(s) = 0
  <2>1. PICK x \in tree.teams : s = <<x[2], x[3]>> /\ seat[s] = x[1]
    BY <1>2, <1>3 DEF Last
  <2>2. x[1] \in 1 .. n /\ x[2] \in tree.matches /\ x[2][1] = "winner"
    BY <1>1, StartShape
  <2>3. \A m \in tree.matches : Loser[m] = 0
    BY <1>0, <1>1, Results
  <2>4. LostIn(seat[s]) = {}
    BY <1>1, <2>1, <2>2, <2>3 DEF LostIn
  <2> QED BY <1>1, <2>1, <2>2, <2>4 DEF DropsOf, Beaten, LossesAt, DropsAt
<1>4. OneLast
  <2> SUFFICES ASSUME NEW s \in Slots, NEW x \in Slots, Last(s), Last(x), seat[s] = seat[x] PROVE s = x
    BY DEF OneLast
  <2>1. PICK a \in tree.teams : s = <<a[2], a[3]>> /\ seat[s] = a[1]
    BY <1>2 DEF Last
  <2>2. PICK b \in tree.teams : x = <<b[2], b[3]>> /\ seat[x] = b[1]
    BY <1>2 DEF Last
  <2>3. a = b
    BY <1>1, <2>1, <2>2 DEF Formed, WellFormed, OneSource
  <2> QED BY <2>1, <2>2, <2>3
<1>5. HasLast
  <2> SUFFICES ASSUME NEW t \in 1 .. n PROVE \E s \in Slots : Last(s) /\ seat[s] = t
    BY DEF HasLast
  <2>1. PICK x \in tree.teams : x[1] = t
    BY <1>1 DEF Formed, WellFormed, OneSource
  <2>2. <<x[2], x[3]>> \in Slots /\ x[2] \in tree.matches /\ seat[<<x[2], x[3]>>] = t /\ t # 0
    BY <1>0, <1>1, <2>1, StartShape DEF Basic, Started
  <2> QED BY <1>1, <2>2 DEF Last, MovedOn
<1>6. LossesFit
  <2> SUFFICES ASSUME NEW s \in Slots, Last(s)
               PROVE  Cardinality(LostIn(seat[s])) = LossesAt(s[1], s[2]) + IF Beaten(s) THEN 1 ELSE 0
    BY DEF LossesFit
  <2>1. LostIn(seat[s]) = {} /\ ~Beaten(s) /\ LossesAt(s[1], s[2]) = 0
    BY <1>3
  <2> QED BY <2>1, FS_EmptySet
<1>7. DropsFit
  BY <1>3, FS_EmptySet DEF DropsFit
<1> QED BY <1>0, <1>4, <1>5, <1>6, <1>7 DEF IInv

LEMMA AlwaysIInv == Spec => []IInv
<1>1. IInv /\ [Next]_vars => IInv'
  <2> SUFFICES ASSUME IInv, [Next]_vars PROVE IInv'
    OBVIOUS
  <2>0. Basic /\ OneLast /\ HasLast /\ LossesFit /\ DropsFit
    BY DEF IInv
  <2>1. ASSUME NEW m \in tree.matches, NEW p \in {1, 2}, Play(m, p) PROVE IInv'
    <3>1. Basic'
      BY <2>0, <2>1, PlayKeepsBasic
    <3>2. OneLast' /\ HasLast'
      BY <2>0, <2>1, KeepsLast
    <3>3. LossesFit'
      BY <2>0, <2>1, KeepsLosses
    <3>4. DropsFit'
      BY <2>0, <2>1, KeepsDrops
    <3> QED BY <3>1, <3>2, <3>3, <3>4 DEF IInv
  <2>2. CASE UNCHANGED vars
    <3>1. UNCHANGED <<field, tree, seat, won>> /\ Slots' = Slots /\ n' = n /\ double' = double
          /\ Loser' = Loser
      BY <2>2 DEF vars, Slots, n, double, Loser
    <3>2. Basic'
      BY <2>0, <3>1 DEF Basic, Formed, Typed, Started, Followed, Mirrored, PlayedFull
    <3>3. OneLast' /\ HasLast'
      BY <2>0, <3>1 DEF OneLast, HasLast, Last, MovedOn, Linked
    <3>4. LossesFit'
      BY <2>0, <3>1 DEF LossesFit, Last, MovedOn, Linked, Beaten, LostIn
    <3>5. DropsFit'
      BY <2>0, <3>1 DEF DropsFit, Last, MovedOn, Linked, DropsOf, LostIn, DropsAt
    <3> QED BY <3>2, <3>3, <3>4, <3>5 DEF IInv
  <2> QED BY <2>1, <2>2 DEF Next
<1> QED BY <1>1, InitIInv, PTL DEF Spec

----------------------------------------------------------------------------
\* Placed teams have played their last match.

\* In a single elimination every match knocks its loser out, and the final is the one
\* match of the last round.
LEMMA SingleFinal ==
  ASSUME Formed, ~double
  PROVE  /\ Knocking = tree.matches
         /\ \A m \in tree.matches : ~Linked("loser", m)
         /\ \E f \in tree.matches :
              /\ FinalRound = {f}
              /\ \A m \in tree.matches : m # f <=> Linked("winner", m)
<1>1. \A l \in tree.links : l[1] = "winner"
  BY LinkShape DEF Formed, WellFormed, SecondLoss
<1>2. \A m \in tree.matches : m[1] = "winner" /\ m[2] \in Nat
  BY FieldShape DEF Formed, WellFormed, Keyed
<1>3. Knocking = tree.matches
  BY <1>1, <1>2 DEF Knocking, Eliminating, HasNextLoser
<1>4. PICK f \in tree.matches : \A m \in tree.matches :
        (m # f => m[2] < f[2]) /\ (m # f <=> \E l \in tree.links : l[2] = m)
  BY DEF Formed, WellFormed, SecondLoss
<1>5. \A m \in tree.matches : m # f <=> Linked("winner", m)
  BY <1>1, <1>4 DEF Linked
<1>6. FinalRound = {f}
  BY <1>2, <1>3, <1>4 DEF FinalRound
<1> QED BY <1>1, <1>3, <1>5, <1>6 DEF Linked

\* What a match has no link for is the last slot of its team.
LEMMA StaysHere ==
  ASSUME Basic, NEW x \in tree.matches, won[x] # 0, NEW p \in {1, 2},
         ~Linked(Side(won[x], p), x), ~(x = GF /\ won[GF] = 2)
  PROVE  <<x, p>> \in Slots /\ Last(<<x, p>>)
<1>1. <<x, p>> \in Slots /\ seat[<<x, p>>] # 0
  BY SlotShape DEF Basic, PlayedFull
<1> QED BY <1>1 DEF Last, MovedOn

LEMMA OutStays ==
  ASSUME Basic, NEW x \in Knocking, won[x] # 0
  PROVE  /\ x \in tree.matches /\ x \notin {GF, GF2}
         /\ <<x, 3 - won[x]>> \in Slots /\ Last(<<x, 3 - won[x]>>) /\ seat[<<x, 3 - won[x]>>] = Loser[x]
<1>1. x \in tree.matches /\ x \notin {GF, GF2} /\ ~Linked("loser", x)
  BY DEF Knocking, Eliminating, HasNextLoser, Linked, GF, GF2
<1>2. 3 - won[x] \in {1, 2} /\ won[x] # 3 - won[x] /\ seat[<<x, 3 - won[x]>>] = Loser[x]
  BY <1>1, Results
<1>3. Side(won[x], 3 - won[x]) = "loser"
  BY <1>2 DEF Side
<1> QED BY <1>1, <1>2, <1>3, StaysHere

LEMMA DeciderStays ==
  ASSUME Basic, NEW x \in Decides
  PROVE  /\ x \in tree.matches /\ won[x] # 0
         /\ <<x, won[x]>> \in Slots /\ Last(<<x, won[x]>>) /\ seat[<<x, won[x]>>] = Winner[x]
         /\ double => <<x, 3 - won[x]>> \in Slots /\ Last(<<x, 3 - won[x]>>) /\ seat[<<x, 3 - won[x]>>] = Loser[x]
         /\ double <=> x \in {GF, GF2}
<1>1. Formed
  BY DEF Basic
<1>2. /\ x \in tree.matches /\ won[x] # 0
      /\ IF double THEN x \in {GF, GF2} /\ won[GF] # 0 /\ (x = GF <=> won[GF] = 1)
                   ELSE x \in FinalRound /\ Cardinality(FinalRound) = 1
  BY DecidesAre DEF DecidesNow
<1>3. /\ won[x] \in {1, 2} /\ 3 - won[x] \in {1, 2} /\ Winner[x] = seat[<<x, won[x]>>]
      /\ Loser[x] = seat[<<x, 3 - won[x]>>]
  BY <1>2, Results
<1>4. CASE double
  <2>1. \A side : ~Linked(side, x)
    BY <1>1, <1>2, <1>4, LinkShape DEF Linked
  <2>2. ~(x = GF /\ won[GF] = 2)
    BY <1>2, <1>4
  <2> QED BY <1>2, <1>3, <1>4, <2>1, <2>2, StaysHere
<1>5. CASE ~double
  <2>1. x \notin {GF, GF2}
    BY <1>1, <1>2, <1>5, FieldShape
  <2>2. ~Linked("winner", x)
    BY <1>1, <1>2, <1>5, SingleFinal
  <2>3. Side(won[x], won[x]) = "winner"
    BY DEF Side
  <2> QED BY <1>2, <1>3, <1>5, <2>1, <2>2, <2>3, StaysHere
<1> QED BY <1>4, <1>5

LEMMA PlacedStays ==
  ASSUME Basic, NEW t \in Placed
  PROVE  \E s \in Slots : Last(s) /\ seat[s] = t /\ won[s[1]] # 0
<1>1. PICK r \in Places : t = r[1]
  BY DEF Placed
<1>2. CASE \E x \in {y \in Knocking : won[y] # 0} : r = <<Loser[x], n - Cumulative(tree, x) + 1>>
  <2>1. PICK x \in Knocking : won[x] # 0 /\ r = <<Loser[x], n - Cumulative(tree, x) + 1>>
    BY <1>2
  <2> DEFINE s == <<x, 3 - won[x]>>
  <2>2. s \in Slots /\ Last(s) /\ seat[s] = Loser[x] /\ s[1] = x
    BY <2>1, OutStays
  <2> HIDE DEF s
  <2> QED BY <1>1, <2>1, <2>2
<1>3. CASE \E x \in Decides : r = <<Winner[x], 1>>
  <2>1. PICK x \in Decides : r = <<Winner[x], 1>>
    BY <1>3
  <2> DEFINE s == <<x, won[x]>>
  <2>2. s \in Slots /\ Last(s) /\ seat[s] = Winner[x] /\ s[1] = x /\ won[x] # 0
    BY <2>1, DeciderStays
  <2> HIDE DEF s
  <2> QED BY <1>1, <2>1, <2>2
<1>4. CASE \E x \in Decides \cap {GF, GF2} : r = <<Loser[x], 2>>
  <2>1. PICK x \in Decides : x \in {GF, GF2} /\ r = <<Loser[x], 2>>
    BY <1>4
  <2> DEFINE s == <<x, 3 - won[x]>>
  <2>2. s \in Slots /\ Last(s) /\ seat[s] = Loser[x] /\ s[1] = x /\ won[x] # 0
    BY <2>1, DeciderStays
  <2> HIDE DEF s
  <2> QED BY <1>1, <2>1, <2>2
<1> QED BY <1>1, <1>2, <1>3, <1>4, PlacesAre DEF PlacesNow

\* A team with a place can no longer play.
THEOREM PlacedAreOut == Spec => []PlacedTeamsAreOut
<1>1. IInv => PlacedTeamsAreOut
  <2> SUFFICES ASSUME IInv, NEW m \in Playable, NEW p \in {1, 2}, seat[<<m, p>>] \in Placed PROVE FALSE
    BY DEF PlacedTeamsAreOut
  <2>1. Basic /\ OneLast
    BY DEF IInv
  <2>2. m \in tree.matches /\ won[m] = 0 /\ seat[<<m, p>>] # 0
    BY DEF Playable
  <2>3. <<m, p>> \in Slots /\ Last(<<m, p>>)
    BY <2>2, SlotShape DEF Last, MovedOn
  <2>4. PICK s \in Slots : Last(s) /\ seat[s] = seat[<<m, p>>] /\ won[s[1]] # 0
    BY <2>1, PlacedStays
  <2>5. s = <<m, p>>
    BY <2>1, <2>3, <2>4 DEF OneLast
  <2> QED BY <2>2, <2>4, <2>5
<1> QED BY <1>1, AlwaysIInv, PTL

----------------------------------------------------------------------------
\* The bracket never stalls: of the matches that are not played, one of least wave has
\* both its teams.
LEMMA Least == ASSUME NEW T \in SUBSET Nat, T # {} PROVE \E x \in T : \A y \in T : x <= y
<1> DEFINE R == {ss \in Nat \X Nat : ss[1] < ss[2]}
<1>1. IsWellFoundedOn(R, Nat)
  BY NatLessThanWellFounded, Zenon DEF OpToRel
<1> HIDE DEF R
<1>2. PICK x \in T : \A y \in T : ~(<<y, x>> \in R)
  BY <1>1, WFMin
<1>3. \A y \in T : ~(y < x) /\ x \in Nat /\ y \in Nat
  BY <1>2 DEF R
<1> QED BY <1>3

LEMMA AllPlayed ==
  ASSUME Basic, Playable = {}
  PROVE  /\ \A m \in tree.matches \ {GF2} : won[m] # 0
         /\ double => (won[GF2] # 0 <=> won[GF] = 2)
<1> DEFINE wave == depth(tree)
           open == {m \in tree.matches \ {GF2} : won[m] = 0}
<1>1. Formed
  BY DEF Basic
<1>2. /\ \A m \in tree.matches : wave[m] \in Nat
      /\ \A l \in tree.links : wave[l[2]] < wave[l[3]] /\ l[2] \in tree.matches \ {GF2} /\ l[3] \in tree.matches
  BY <1>1, LinkShape DEF Formed, WellFormed, OneSource
<1>3. open = {}
  <2> SUFFICES ASSUME open # {} PROVE FALSE
    OBVIOUS
  <2> HIDE DEF wave
  <2> DEFINE waves == {wave[m] : m \in open}
  <2>1. waves \subseteq Nat /\ waves # {}
    BY <1>2
  <2> HIDE DEF waves
  <2>2. PICK w \in waves : \A v \in waves : w <= v
    BY <2>1, Least
  <2>3. PICK m \in open : \A x \in open : wave[m] <= wave[x]
    BY <2>2 DEF waves
  <2>4. ASSUME NEW p \in {1, 2} PROVE seat[<<m, p>>] # 0
    <3>1. CASE \E x \in tree.teams : <<x[2], x[3]>> = <<m, p>>
      <4>1. PICK x \in tree.teams : <<x[2], x[3]>> = <<m, p>>
        BY <3>1
      <4>2. seat[<<x[2], x[3]>>] = x[1] /\ x[1] \in 1 .. n /\ n \in Nat
        BY <1>1, StartShape, FieldShape DEF Basic, Started
      <4> QED BY <4>1, <4>2
    <3>2. CASE \E l \in tree.links : <<l[3], l[4]>> = <<m, p>>
      <4>1. PICK l \in tree.links : <<l[3], l[4]>> = <<m, p>>
        BY <3>2
      <4>2. l[3] = m /\ wave[l[2]] < wave[m] /\ l[2] \in tree.matches \ {GF2} /\ m \in tree.matches
        BY <1>2, <4>1
      <4>3. wave[l[2]] \in Nat /\ wave[m] \in Nat
        BY <1>2, <4>2
      <4>4. l[2] \notin open
        BY <2>3, <4>2, <4>3
      <4>5. won[l[2]] \in {1, 2} /\ l[1] \in {"winner", "loser"}
        BY <1>1, <4>2, <4>4, LinkShape DEF Basic, Typed
      <4>6. From(l[1], won[l[2]]) \in {1, 2}
        BY <4>5, FromShape
      <4>7. seat[<<l[2], From(l[1], won[l[2]])>>] # 0
        <5>1. \A r \in {1, 2} : seat[<<l[2], r>>] # 0
          <6>1. \A k \in tree.matches : won[k] # 0 => \A r \in {1, 2} : seat[<<k, r>>] # 0
            BY DEF Basic, PlayedFull
          <6>2. won[l[2]] # 0 /\ l[2] \in tree.matches
            BY <4>2, <4>5
          <6> QED BY <6>1, <6>2
        <5> QED BY <4>6, <5>1
      <4> QED BY <4>1, <4>5, <4>7 DEF Basic, Followed
    <3> QED BY <1>1, <3>1, <3>2 DEF Formed, WellFormed, OneSource
  <2>5. m \in Playable
    BY <2>4 DEF Playable
  <2> QED BY <2>5
<1>4. ASSUME double PROVE won[GF2] # 0 <=> won[GF] = 2
  <2>1. GF \in tree.matches /\ GF2 \in tree.matches /\ GF # GF2
    BY <1>1, <1>4, FieldShape
  <2>2. CASE won[GF] = 2
    <3>1. seat[<<GF2, 1>>] # 0 /\ seat[<<GF2, 2>>] # 0
      BY <1>4, <2>1, <2>2 DEF Basic, Mirrored, PlayedFull
    <3> QED BY <2>1, <2>2, <3>1 DEF Playable
  <2>3. CASE won[GF] # 2
    <3>1. seat[<<GF2, 1>>] = 0
      BY <1>4, <2>3 DEF Basic, Mirrored
    <3> QED BY <2>1, <2>3, <3>1 DEF Basic, PlayedFull
  <2> QED BY <2>2, <2>3
<1> QED BY <1>3, <1>4

\* In a double elimination everybody goes on from a winner round, and the matches of
\* the loser rounds are those that knock out.
LEMMA DoubleLinks ==
  ASSUME Formed, double, NEW x \in tree.matches, x \notin {GF, GF2}
  PROVE  Linked("winner", x) /\ (Linked("loser", x) <=> x[1] = "winner")
<1>1. \A y \in tree.matches \ {GF, GF2}, side \in {"winner", "loser"} :
        side = "winner" \/ y[1] = "winner" => \E l \in tree.links : l[1] = side /\ l[2] = y
  BY DEF Formed, WellFormed, SecondLoss
<1>2. "winner" = "winner" \/ x[1] = "winner" => \E l \in tree.links : l[1] = "winner" /\ l[2] = x
  BY <1>1
<1>3. "loser" = "winner" \/ x[1] = "winner" => \E l \in tree.links : l[1] = "loser" /\ l[2] = x
  BY <1>1
<1>4. \A l \in tree.links : l[1] = "loser" => l[2][1] = "winner"
  BY DEF Formed, WellFormed, SecondLoss
<1> QED BY <1>2, <1>3, <1>4 DEF Linked

LEMMA DoubleKnocking ==
  ASSUME Formed, double
  PROVE  /\ Knocking = {x \in tree.matches : x[1] = "loser"}
         /\ \A x \in tree.matches : x \in {GF, GF2} \/ x[1] \in {"winner", "loser"}
<1>1. \A x \in tree.matches : x \in {GF, GF2} \/ x[1] \in {"winner", "loser"}
  BY DEF Formed, WellFormed, Keyed
<1>2. GF[1] = "final" /\ GF2[1] = "final"
  BY DEF GF, GF2
<1>3. ASSUME NEW x \in tree.matches PROVE x \in Knocking <=> x[1] = "loser"
  <2>1. CASE x \in {GF, GF2}
    BY <1>2, <2>1 DEF Knocking, Eliminating
  <2>2. CASE x \notin {GF, GF2}
    BY <1>1, <2>2, DoubleLinks DEF Knocking, Eliminating, HasNextLoser, Linked
  <2> QED BY <2>1, <2>2
<1>4. Knocking \subseteq tree.matches
  BY DEF Knocking, Eliminating
<1> QED BY <1>1, <1>3, <1>4

\* Once nothing can be played there is one decider, and the last slots are the slot of
\* its winner and those of the losers of the decider and of the matches that knock out.
Ended(d) ==
  /\ d \in tree.matches /\ Decides = {d} /\ won[d] \in {1, 2}
  /\ double <=> d \notin Knocking
  /\ double <=> d \in {GF, GF2}
  /\ \A x \in Knocking \cup {d} : x \in tree.matches /\ won[x] \in {1, 2}
  /\ <<d, won[d]>> \in Slots /\ Last(<<d, won[d]>>)
  /\ \A x \in Knocking \cup {d} : <<x, 3 - won[x]>> \in Slots /\ Last(<<x, 3 - won[x]>>)
  /\ \A s \in Slots : Last(s) => s = <<d, won[d]>> \/ \E x \in Knocking \cup {d} : s = <<x, 3 - won[x]>>

LEMMA End == ASSUME Basic, Playable = {} PROVE \E d \in tree.matches : Ended(d)
<1>1. Formed /\ Typed
  BY DEF Basic
<1>2. /\ \A m \in tree.matches \ {GF2} : won[m] \in {1, 2}
      /\ double => (won[GF2] # 0 <=> won[GF] = 2)
  BY <1>1, AllPlayed DEF Typed
<1>3. \A x \in Knocking : x \in tree.matches \ {GF, GF2} /\ ~Linked("loser", x)
  BY DEF Knocking, Eliminating, HasNextLoser, Linked, GF, GF2
<1>4. \E d \in tree.matches : Decides = {d} /\ won[d] \in {1, 2}
  <2>1. CASE double
    <3>1. GF \in tree.matches /\ GF2 \in tree.matches /\ GF # GF2 /\ won[GF] \in {1, 2}
      BY <1>1, <1>2, <2>1, FieldShape
    <3>2. won[GF] = 2 => won[GF2] \in {1, 2}
      BY <1>1, <1>2, <2>1, <3>1 DEF Typed
    <3>3. Decides = {IF won[GF] = 1 THEN GF ELSE GF2}
      BY <2>1, <3>1, <3>2, DecidesAre DEF DecidesNow
    <3> QED BY <3>1, <3>2, <3>3
  <2>2. CASE ~double
    <3>1. PICK f \in tree.matches : FinalRound = {f}
      BY <1>1, <2>2, SingleFinal
    <3>2. f # GF2 /\ won[f] \in {1, 2}
      BY <1>1, <1>2, <2>2, FieldShape
    <3>3. Cardinality(FinalRound) = 1
      BY <3>1, FS_Singleton
    <3>4. Decides = {f}
      BY <2>2, <3>1, <3>2, <3>3, DecidesAre DEF DecidesNow
    <3> QED BY <3>2, <3>4
  <2> QED BY <2>1, <2>2
<1>5. PICK d \in tree.matches : Decides = {d} /\ won[d] \in {1, 2}
  BY <1>4
<1>6. /\ <<d, won[d]>> \in Slots /\ Last(<<d, won[d]>>)
      /\ double => <<d, 3 - won[d]>> \in Slots /\ Last(<<d, 3 - won[d]>>)
      /\ double <=> d \in {GF, GF2}
  <2>1. d \in Decides
    BY <1>5
  <2> QED BY <2>1, DeciderStays
<1>7. double <=> d \notin Knocking
  BY <1>1, <1>3, <1>6, SingleFinal
<1>8. ASSUME NEW x \in Knocking \cup {d} PROVE x \in tree.matches /\ won[x] \in {1, 2}
  BY <1>2, <1>3, <1>5
<1>9. ASSUME NEW x \in Knocking \cup {d} PROVE <<x, 3 - won[x]>> \in Slots /\ Last(<<x, 3 - won[x]>>)
  <2>1. CASE x \in Knocking
    <3>1. won[x] # 0
      BY <1>8
    <3> QED BY <2>1, <3>1, OutStays
  <2>2. CASE x = d /\ d \notin Knocking
    BY <1>6, <1>7, <2>2
  <2> QED BY <2>1, <2>2
<1>10. ASSUME NEW s \in Slots, Last(s)
       PROVE  s = <<d, won[d]>> \/ \E x \in Knocking \cup {d} : s = <<x, 3 - won[x]>>
  <2>1. s = <<s[1], s[2]>> /\ s[1] \in tree.matches /\ s[2] \in {1, 2} /\ seat[s] # 0 /\ ~MovedOn(s)
    BY <1>10, SlotShape DEF Last
  <2>2. won[s[1]] \in {1, 2}
    <3>1. CASE s[1] = GF2
      <4>1. double
        BY <1>1, <2>1, <3>1, FieldShape
      <4>2. won[GF] = 2
        BY <2>1, <3>1, <4>1 DEF Basic, Mirrored
      <4> QED BY <1>1, <1>2, <2>1, <3>1, <4>1, <4>2 DEF Typed
    <3> QED BY <1>2, <2>1, <3>1
  <2>3. /\ ~Linked(Side(won[s[1]], s[2]), s[1])
        /\ ~(s[1] = GF /\ won[GF] = 2)
    BY <2>1, <2>2 DEF MovedOn
  <2>4. s[2] = won[s[1]] \/ (s[2] = 3 - won[s[1]] /\ s[2] # won[s[1]])
    BY <2>1, <2>2
  <2>5. CASE double /\ s[1] \in {GF, GF2}
    <3>1. s[1] = GF2 => won[GF] = 2
      BY <2>1, <2>5 DEF Basic, Mirrored
    <3>2. s[1] = GF => won[GF] = 1
      BY <2>2, <2>3
    <3>3. s[1] \in Decides
      BY <1>2, <2>1, <2>2, <2>5, <3>1, <3>2, DecidesAre, FieldShape, <1>1 DEF DecidesNow
    <3> QED BY <1>5, <2>1, <2>4, <3>3
  <2>6. CASE double /\ s[1] \notin {GF, GF2}
    <3>1. Linked("winner", s[1]) /\ (s[1][1] = "winner" => Linked("loser", s[1]))
      BY <1>1, <2>1, <2>6, DoubleLinks
    <3>2. s[2] # won[s[1]] /\ ~Linked("loser", s[1])
      BY <2>3, <3>1 DEF Side
    <3>3. s[1] \in Knocking
      BY <1>1, <2>1, <2>6, <3>1, <3>2, DoubleKnocking
    <3> QED BY <2>1, <2>4, <3>2, <3>3
  <2>7. CASE ~double
    <3>1. PICK f \in tree.matches : FinalRound = {f} /\ \A m \in tree.matches : m # f <=> Linked("winner", m)
      BY <1>1, <2>7, SingleFinal
    <3>2. s[1] \in Knocking
      BY <1>1, <2>1, <2>7, SingleFinal
    <3>3. ASSUME s[2] = won[s[1]] PROVE s[1] = d
      <4>1. s[1] = f
        BY <2>1, <2>3, <3>1, <3>3 DEF Side
      <4>2. d \in FinalRound
        BY <1>5, <2>7, DecidesAre DEF DecidesNow
      <4> QED BY <3>1, <4>1, <4>2
    <3> QED BY <2>1, <2>4, <3>2, <3>3
  <2> QED BY <2>5, <2>6, <2>7
<1> QED BY <1>5, <1>6, <1>7, <1>8, <1>9, <1>10 DEF Ended

----------------------------------------------------------------------------
\* The final placements rank everybody.
LEMMA Counted ==
  ASSUME NEW S, NEW T, IsFiniteSet(S), NEW f \in [S -> T],
         \A x, y \in S : f[x] = f[y] => x = y, \A t \in T : \E x \in S : f[x] = t
  PROVE  IsFiniteSet(T) /\ Cardinality(T) = Cardinality(S)
<1>1. f \in Surjection(S, T) /\ f \in Injection(S, T)
  BY DEF Surjection, Injection, IsInjective
<1> QED BY <1>1, FS_Surjection

Out(d) == Knocking \cup {d}

\* Everybody but the champion lost in exactly one of the matches that place.
LEMMA Everybody ==
  ASSUME IInv, NEW d \in tree.matches, Ended(d)
  PROVE  /\ Winner[d] \in 1 .. n
         /\ \A x \in Out(d) : Loser[x] \in (1 .. n) \ {Winner[d]}
         /\ \A x, y \in Out(d) : Loser[x] = Loser[y] => x = y
         /\ \A t \in 1 .. n : t = Winner[d] \/ \E x \in Out(d) : Loser[x] = t
<1>1. Basic /\ OneLast /\ HasLast
  BY DEF IInv
<1>2. \A x \in Out(d) : /\ x \in tree.matches /\ won[x] \in {1, 2}
                        /\ <<x, 3 - won[x]>> \in Slots /\ Last(<<x, 3 - won[x]>>)
  BY DEF Ended, Out
<1>3. \A x \in Out(d) : Loser[x] = seat[<<x, 3 - won[x]>>] /\ Loser[x] \in 1 .. n
  <2> TAKE x \in Out(d)
  <2>1. x \in tree.matches /\ won[x] # 0
    <3>1. x \in tree.matches /\ won[x] \in {1, 2}
      BY <1>2
    <3> QED BY <3>1
  <2> QED BY <1>1, <2>1, Results
<1>4. /\ won[d] \in {1, 2} /\ <<d, won[d]>> \in Slots /\ Last(<<d, won[d]>>)
      /\ Winner[d] = seat[<<d, won[d]>>] /\ Winner[d] \in 1 .. n
  <2>1. won[d] \in {1, 2} /\ <<d, won[d]>> \in Slots /\ Last(<<d, won[d]>>)
    BY DEF Ended
  <2>2. won[d] # 0
    BY <2>1
  <2> QED BY <1>1, <2>1, <2>2, Results
<1>5. ASSUME NEW x \in Out(d) PROVE Loser[x] # Winner[d]
  <2>1. <<x, 3 - won[x]>> # <<d, won[d]>>
    BY <1>4
  <2> DEFINE s == <<x, 3 - won[x]>>
             w == <<d, won[d]>>
  <2>2. s \in Slots /\ w \in Slots /\ Last(s) /\ Last(w) /\ s # w
    BY <1>2, <1>4, <2>1
  <2> HIDE DEF s, w
  <2>3. seat[s] # seat[w]
    BY <1>1, <2>2 DEF OneLast
  <2> QED BY <1>3, <1>4, <2>3 DEF s, w
<1>6. ASSUME NEW x \in Out(d), NEW y \in Out(d), Loser[x] = Loser[y] PROVE x = y
  <2> DEFINE s == <<x, 3 - won[x]>>
             w == <<y, 3 - won[y]>>
  <2>1. s \in Slots /\ w \in Slots /\ Last(s) /\ Last(w) /\ seat[s] = seat[w]
    BY <1>2, <1>3, <1>6
  <2> HIDE DEF s, w
  <2>2. s = w
    BY <1>1, <2>1 DEF OneLast
  <2> QED BY <2>2 DEF s, w
<1>7. ASSUME NEW t \in 1 .. n, t # Winner[d] PROVE \E x \in Out(d) : Loser[x] = t
  <2>1. PICK s \in Slots : Last(s) /\ seat[s] = t
    BY <1>1 DEF HasLast
  <2>2. s # <<d, won[d]>>
    BY <1>4, <1>7, <2>1
  <2>3. PICK x \in Knocking \cup {d} : s = <<x, 3 - won[x]>>
    BY <2>1, <2>2 DEF Ended
  <2> QED BY <1>3, <2>1, <2>3 DEF Out
<1> QED BY <1>3, <1>4, <1>5, <1>6, <1>7

LEMMA OutCount ==
  ASSUME IInv, NEW d \in tree.matches, Ended(d)
  PROVE  IsFiniteSet(Out(d)) /\ Cardinality(Out(d)) = n - 1
<1> DEFINE T == (1 .. n) \ {Winner[d]}
           f == [x \in Out(d) |-> Loser[x]]
<1>1. n \in Nat /\ IsFiniteSet(tree.matches)
  BY FieldShape DEF IInv, Basic
<1>2. IsFiniteSet(Out(d))
  <2>1. Out(d) \subseteq tree.matches
    BY DEF Out, Knocking, Eliminating
  <2> QED BY <1>1, <2>1, FS_Subset
<1>3. IsFiniteSet(1 .. n) /\ Cardinality(1 .. n) = n
  BY <1>1, FS_Interval
<1>4. Winner[d] \in 1 .. n
  BY Everybody
<1>5. Cardinality(T) = n - 1
  BY <1>3, <1>4, FS_RemoveElement
<1>6. /\ f \in [Out(d) -> T]
      /\ \A x, y \in Out(d) : f[x] = f[y] => x = y
      /\ \A t \in T : \E x \in Out(d) : f[x] = t
  <2>1. \A x \in Out(d) : Loser[x] \in T
    BY Everybody
  <2>2. \A x, y \in Out(d) : Loser[x] = Loser[y] => x = y
    BY Everybody
  <2>3. \A t \in T : \E x \in Out(d) : Loser[x] = t
    BY Everybody
  <2> HIDE DEF T
  <2> QED BY <2>1, <2>2, <2>3
<1> HIDE DEF f, T
<1>7. Cardinality(T) = Cardinality(Out(d))
  BY <1>2, <1>6, Counted
<1> QED BY <1>2, <1>5, <1>7

\* Loser rounds before winner rounds and by their number: a total preorder.
LEMMA BeforeOrder ==
  ASSUME Formed, NEW x \in Knocking, NEW y \in Knocking, NEW z \in Knocking
  PROVE  /\ Before(x, x) /\ (Before(x, y) \/ Before(y, x))
         /\ Before(x, y) /\ Before(y, z) => Before(x, z)
<1>1. \A e \in Knocking : e[1] \in {"winner", "loser"} /\ e[2] \in Nat
  BY DEF Formed, WellFormed, Keyed, Knocking, Eliminating, GF, GF2
<1> QED BY <1>1 DEF Before

Rank(x) == IF x \in Knocking THEN n - Cumulative(tree, x) + 1 ELSE 2
Ahead(d, x) == IF x \in Knocking THEN {e \in Out(d) : ~(e \in Knocking /\ Before(e, x))} ELSE {}

LEMMA Ranked ==
  ASSUME IInv, NEW d \in tree.matches, Ended(d), NEW x \in Out(d)
  PROVE  /\ IsFiniteSet(Ahead(d, x)) /\ Cardinality(Ahead(d, x)) \in Nat
         /\ Rank(x) = 2 + Cardinality(Ahead(d, x))
<1>1. IsFiniteSet(Out(d)) /\ Cardinality(Out(d)) = n - 1 /\ n \in Nat
  BY OutCount, FieldShape DEF IInv, Basic
<1>2. IsFiniteSet(Ahead(d, x)) /\ Cardinality(Ahead(d, x)) \in Nat
  BY <1>1, FS_Subset, FS_CardinalityType, FS_EmptySet DEF Ahead
<1>3. CASE x \in Knocking
  <2> DEFINE P == {e \in Knocking : Before(e, x)}
  <2>1. Ahead(d, x) = Out(d) \ P /\ Out(d) \cap P = P
    BY <1>3 DEF Ahead, Out
  <2>2. Cumulative(tree, x) = Cardinality(P)
    BY DEF Cumulative, Knocking
  <2> HIDE DEF P
  <2>3. Cardinality(Ahead(d, x)) = n - 1 - Cardinality(P)
    BY <1>1, <2>1, FS_Difference
  <2>4. IsFiniteSet(P) /\ Cardinality(P) \in Nat
    BY <1>1, <2>1, FS_Subset, FS_CardinalityType
  <2> QED BY <1>1, <1>2, <1>3, <2>2, <2>3, <2>4 DEF Rank
<1>4. CASE x \notin Knocking
  BY <1>2, <1>4, FS_EmptySet DEF Rank, Ahead
<1> QED BY <1>2, <1>3, <1>4

\* Who is ahead of a team has the better rank.
LEMMA Order ==
  ASSUME IInv, NEW d \in tree.matches, Ended(d), NEW x \in Out(d), NEW e \in Out(d)
  PROVE  Rank(e) < Rank(x) <=> e \in Ahead(d, x)
<1>1. IsFiniteSet(Out(d)) /\ n \in Nat /\ Formed
  BY OutCount, FieldShape DEF IInv, Basic
<1>2. \A y \in Out(d) : /\ IsFiniteSet(Ahead(d, y)) /\ Cardinality(Ahead(d, y)) \in Nat
                        /\ Rank(y) = 2 + Cardinality(Ahead(d, y))
  BY Ranked
<1>3. ASSUME NEW y \in Out(d), NEW z \in Out(d), Ahead(d, y) \subseteq Ahead(d, z)
      PROVE  /\ Rank(y) <= Rank(z)
             /\ Ahead(d, y) # Ahead(d, z) => Rank(y) < Rank(z)
  <2>1. /\ Cardinality(Ahead(d, y)) <= Cardinality(Ahead(d, z))
        /\ Cardinality(Ahead(d, z)) = Cardinality(Ahead(d, y)) => Ahead(d, z) = Ahead(d, y)
    BY <1>2, <1>3, FS_Subset
  <2> QED BY <1>2, <2>1
<1>4. CASE x \notin Knocking
  <2>1. Ahead(d, x) = {} /\ Ahead(d, x) \subseteq Ahead(d, e)
    BY <1>4 DEF Ahead
  <2>2. Rank(x) <= Rank(e)
    BY <1>3, <2>1
  <2> QED BY <1>2, <2>1, <2>2
<1>5. CASE x \in Knocking /\ e \notin Knocking
  <2>1. Ahead(d, e) = {} /\ e \in Ahead(d, x)
    BY <1>5 DEF Ahead
  <2> QED BY <1>3, <2>1
<1>6. CASE x \in Knocking /\ e \in Knocking
  <2>1. CASE Before(e, x)
    <3>1. Ahead(d, x) \subseteq Ahead(d, e)
      BY <1>1, <1>6, <2>1, BeforeOrder DEF Ahead
    <3>2. Rank(x) <= Rank(e)
      BY <1>3, <3>1
    <3>3. e \notin Ahead(d, x)
      BY <1>6, <2>1 DEF Ahead
    <3> QED BY <1>2, <3>2, <3>3
  <2>2. CASE ~Before(e, x)
    <3>1. Before(x, e) /\ Before(e, e)
      BY <1>1, <1>6, <2>2, BeforeOrder
    <3>2. Ahead(d, e) \subseteq Ahead(d, x)
      BY <1>1, <1>6, <3>1, BeforeOrder DEF Ahead
    <3>3. e \in Ahead(d, x) /\ e \notin Ahead(d, e)
      BY <1>6, <2>2, <3>1 DEF Ahead
    <3> QED BY <1>3, <3>2, <3>3
  <2> QED BY <2>1, <2>2
<1> QED BY <1>4, <1>5, <1>6

\* The places at the end: the champion's, and those of the teams knocked out.
Entry(x) == <<Loser[x], Rank(x)>>

LEMMA PlacesAtEnd ==
  ASSUME IInv, NEW d \in tree.matches, Ended(d)
  PROVE  Places = {<<Winner[d], 1>>} \cup {Entry(x) : x \in Out(d)}
<1>1. Decides = {d} /\ \A x \in Knocking : won[x] # 0
  <2>1. \A x \in Knocking : won[x] \in {1, 2}
    BY DEF Ended
  <2> QED BY <2>1 DEF Ended
<1>2. Places = PlacesNow
  BY PlacesAre DEF IInv
<1>3. PlacesNow = {<<Loser[x], n - Cumulative(tree, x) + 1>> : x \in Knocking}
                    \cup {<<Winner[d], 1>>} \cup {<<Loser[x], 2>> : x \in {d} \cap {GF, GF2}}
  BY <1>1 DEF PlacesNow
<1>4. {<<Loser[x], n - Cumulative(tree, x) + 1>> : x \in Knocking} = {Entry(x) : x \in Knocking}
  BY DEF Entry, Rank
<1>5. CASE d \notin Knocking
  <2>1. d \in {GF, GF2} /\ Entry(d) = <<Loser[d], 2>>
    BY <1>5 DEF Ended, Entry, Rank
  <2>2. {<<Loser[x], 2>> : x \in {d} \cap {GF, GF2}} = {Entry(d)}
    BY <2>1
  <2>3. {Entry(x) : x \in Out(d)} = {Entry(x) : x \in Knocking} \cup {Entry(d)}
    BY DEF Out
  <2> QED BY <1>2, <1>3, <1>4, <2>2, <2>3
<1>6. CASE d \in Knocking
  <2>1. d \notin {GF, GF2}
    BY <1>6 DEF Ended
  <2>2. {<<Loser[x], 2>> : x \in {d} \cap {GF, GF2}} = {}
    BY <2>1
  <2>3. Out(d) = Knocking
    BY <1>6 DEF Out
  <2> QED BY <1>2, <1>3, <1>4, <2>2, <2>3
<1> QED BY <1>5, <1>6

LEMMA Entries ==
  ASSUME IInv, NEW d \in tree.matches, Ended(d), NEW A \in SUBSET Out(d)
  PROVE  /\ IsFiniteSet({Entry(x) : x \in A}) /\ Cardinality({Entry(x) : x \in A}) = Cardinality(A)
         /\ <<Winner[d], 1>> \notin {Entry(x) : x \in A}
<1> DEFINE T == {Entry(x) : x \in A}
           f == [x \in A |-> Entry(x)]
<1>1. IsFiniteSet(A)
  BY OutCount, FS_Subset
<1>2. \A x, y \in Out(d) : Loser[x] = Loser[y] => x = y
  BY Everybody
<1>3. \A x \in Out(d) : Loser[x] \in (1 .. n) \ {Winner[d]}
  BY Everybody
<1>4. f \in [A -> T] /\ \A t \in T : \E x \in A : f[x] = t
  OBVIOUS
<1>5. \A x, y \in A : f[x] = f[y] => x = y
  BY <1>2 DEF Entry
<1>6. <<Winner[d], 1>> \notin T
  BY <1>3 DEF Entry
<1> HIDE DEF f, T
<1>7. IsFiniteSet(T) /\ Cardinality(T) = Cardinality(A)
  BY <1>1, <1>4, <1>5, Counted
<1> QED BY <1>6, <1>7 DEF T

\* Once nothing can be played the places are a ranking of all teams.
THEOREM PlacesRank == Spec => []FinalRanking
<1>1. IInv => FinalRanking
  <2> SUFFICES ASSUME IInv, Playable = {}
               PROVE  /\ Placed = 1 .. n
                      /\ Cardinality(Places) = n
                      /\ Cardinality({p \in Places : p[2] = 1}) = 1
                      /\ \A p \in Places : p[2] = 1 + Cardinality({q \in Places : q[2] < p[2]})
    BY DEF FinalRanking
  <2>1. PICK d \in tree.matches : Ended(d)
    BY End DEF IInv
  <2> DEFINE champion == <<Winner[d], 1>>
  <2>2. Places = {champion} \cup {Entry(x) : x \in Out(d)}
    BY <2>1, PlacesAtEnd
  <2>3. n \in Nat /\ IsFiniteSet(Out(d)) /\ Cardinality(Out(d)) = n - 1
    BY <2>1, OutCount, FieldShape DEF IInv, Basic
  <2>4. ASSUME NEW A \in SUBSET Out(d)
        PROVE  Cardinality({champion} \cup {Entry(x) : x \in A}) = 1 + Cardinality(A)
    <3>1. /\ IsFiniteSet({Entry(x) : x \in A}) /\ Cardinality({Entry(x) : x \in A}) = Cardinality(A)
          /\ champion \notin {Entry(x) : x \in A}
      BY <2>1, Entries
    <3>2. IsFiniteSet(A) /\ Cardinality(A) \in Nat
      BY <2>3, FS_Subset, FS_CardinalityType
    <3> DEFINE T == {Entry(x) : x \in A}
    <3> HIDE DEF T, champion
    <3>3. Cardinality(T \cup {champion}) = Cardinality(T) + 1
      BY <3>1, FS_AddElement DEF T
    <3>4. T \cup {champion} = {champion} \cup T
      OBVIOUS
    <3> QED BY <3>1, <3>2, <3>3, <3>4 DEF T
  <2>5. \A x \in Out(d) : /\ Rank(x) = 2 + Cardinality(Ahead(d, x)) /\ Cardinality(Ahead(d, x)) \in Nat
                          /\ Ahead(d, x) \in SUBSET Out(d)
    <3>1. \A x \in Out(d) : Rank(x) = 2 + Cardinality(Ahead(d, x)) /\ Cardinality(Ahead(d, x)) \in Nat
      BY <2>1, Ranked
    <3> QED BY <3>1 DEF Ahead
  <2>6. Placed = 1 .. n
    <3>1. Placed = {Winner[d]} \cup {Loser[x] : x \in Out(d)}
      <4>1. ASSUME NEW t \in Placed PROVE t = Winner[d] \/ \E x \in Out(d) : t = Loser[x]
        <5>1. PICK p \in Places : t = p[1]
          BY DEF Placed
        <5> QED BY <2>2, <5>1 DEF Entry
      <4>2. champion \in Places /\ champion[1] = Winner[d]
        BY <2>2
      <4>3. \A x \in Out(d) : Entry(x) \in Places /\ Entry(x)[1] = Loser[x]
        BY <2>2 DEF Entry
      <4> HIDE DEF champion
      <4>4. Winner[d] \in Placed /\ \A x \in Out(d) : Loser[x] \in Placed
        BY <4>2, <4>3 DEF Placed
      <4> QED BY <4>1, <4>4
    <3>2. Winner[d] \in 1 .. n /\ \A x \in Out(d) : Loser[x] \in 1 .. n
      BY <2>1, Everybody
    <3>3. \A t \in 1 .. n : t = Winner[d] \/ \E x \in Out(d) : Loser[x] = t
      BY <2>1, Everybody
    <3> QED BY <3>1, <3>2, <3>3
  <2>7. Cardinality(Places) = n
    BY <2>2, <2>3, <2>4
  <2>8. Cardinality({p \in Places : p[2] = 1}) = 1
    <3>1. {p \in Places : p[2] = 1} = {champion}
      BY <2>2, <2>5 DEF Entry
    <3> QED BY <3>1, FS_Singleton
  <2>9. ASSUME NEW p \in Places PROVE p[2] = 1 + Cardinality({q \in Places : q[2] < p[2]})
    <3>1. CASE p = champion
      <4>1. {q \in Places : q[2] < p[2]} = {}
        BY <2>2, <2>5, <3>1 DEF Entry
      <4> QED BY <3>1, <4>1, FS_EmptySet
    <3>2. CASE \E x \in Out(d) : p = Entry(x)
      <4>1. PICK x \in Out(d) : p = Entry(x)
        BY <3>2
      <4>2. \A e \in Out(d) : Rank(e) < Rank(x) <=> e \in Ahead(d, x)
        BY <2>1, Order
      <4>3. p[2] = Rank(x) /\ 1 < Rank(x) /\ Ahead(d, x) \in SUBSET Out(d)
        BY <2>5, <4>1 DEF Entry
      <4>4. {q \in Places : q[2] < p[2]} = {champion} \cup {Entry(e) : e \in Ahead(d, x)}
        BY <2>2, <4>2, <4>3 DEF Entry
      <4> HIDE DEF champion
      <4>5. Cardinality({q \in Places : q[2] < p[2]}) = 1 + Cardinality(Ahead(d, x))
        BY <2>4, <4>3, <4>4
      <4> QED BY <2>5, <4>3, <4>5
    <3> QED BY <2>2, <3>1, <3>2
  <2> QED BY <2>6, <2>7, <2>8, <2>9
<1> QED BY <1>1, AlwaysIInv, PTL

----------------------------------------------------------------------------
\* How many matches it took.

\* Everybody but the team in position 1 of the decider has dropped out of the winner
\* bracket once.
LEMMA DropsAtEnd ==
  ASSUME IInv, NEW d \in tree.matches, Ended(d), double, NEW t \in 1 .. n
  PROVE  /\ IsFiniteSet(DropsOf(t))
         /\ Cardinality(DropsOf(t)) = IF t = seat[<<d, 1>>] THEN 0 ELSE 1
<1>1. Basic /\ Formed /\ OneLast /\ HasLast /\ DropsFit
  BY DEF IInv, Basic
<1>2. /\ d \in {GF, GF2} /\ d \notin Knocking /\ won[d] \in {1, 2} /\ GF # GF2
      /\ <<d, won[d]>> \in Slots /\ Last(<<d, won[d]>>)
      /\ \A x \in Knocking \cup {d} : <<x, 3 - won[x]>> \in Slots /\ Last(<<x, 3 - won[x]>>)
      /\ \A s \in Slots : Last(s) => s = <<d, won[d]>> \/ \E x \in Knocking \cup {d} : s = <<x, 3 - won[x]>>
  BY <1>1, FieldShape DEF Ended
<1>3. <<d, 1>> \in Slots /\ Last(<<d, 1>>)
  <2>1. <<d, 3 - won[d]>> \in Slots /\ Last(<<d, 3 - won[d]>>)
    BY <1>2
  <2> QED BY <1>2, <2>1
<1>4. PICK s \in Slots : Last(s) /\ seat[s] = t
  BY <1>1 DEF HasLast
<1>5. t = seat[<<d, 1>>] <=> s = <<d, 1>>
  BY <1>1, <1>3, <1>4 DEF OneLast
<1>6. s[1] \in Knocking \cup {d} /\ s = <<s[1], s[2]>>
  BY <1>2, <1>4
<1>7. \A x \in Knocking : x[1] = "loser" /\ x \notin {GF, GF2}
  BY <1>1, DoubleKnocking DEF GF, GF2
<1>8. d[1] # "winner"
  BY <1>2 DEF GF, GF2
<1>9. DropsAt(s) = IF s = <<d, 1>> THEN 0 ELSE 1
  <2>1. CASE s[1] \in Knocking
    BY <1>2, <1>6, <1>7, <2>1 DEF DropsAt
  <2>2. CASE s[1] = d
    BY <1>1, <1>2, <1>4, <1>6, <1>8, <2>2 DEF DropsAt
  <2> QED BY <1>6, <2>1, <2>2
<1>10. Cardinality(DropsOf(t)) = DropsAt(s)
  BY <1>1, <1>4 DEF DropsFit
<1>11. IsFiniteSet(DropsOf(t))
  <2>1. DropsOf(t) \subseteq tree.matches
    BY DEF DropsOf, LostIn
  <2> QED BY <1>1, <2>1, FieldShape, FS_Subset
<1> QED BY <1>5, <1>9, <1>10, <1>11

LEMMA WinnerCount ==
  ASSUME IInv, NEW d \in tree.matches, Ended(d), Playable = {}, double
  PROVE  LET W == {m \in tree.matches : m[1] = "winner"}
         IN  IsFiniteSet(W) /\ Cardinality(W) = n - 1
<1> DEFINE W == {m \in tree.matches : m[1] = "winner"}
           top == seat[<<d, 1>>]
           T == (1 .. n) \ {top}
           f == [x \in W |-> Loser[x]]
<1>1. Basic /\ Formed /\ n \in Nat /\ IsFiniteSet(tree.matches)
  BY FieldShape DEF IInv, Basic
<1>2. top \in 1 .. n
  <2>1. d \in tree.matches /\ won[d] # 0 /\ <<d, 1>> \in Slots
    BY SlotShape DEF Ended
  <2>2. seat[<<d, 1>>] \in 0 .. n /\ seat[<<d, 1>>] # 0
    BY <1>1, <2>1 DEF Basic, Typed, PlayedFull
  <2> QED BY <1>1, <2>2
<1>3. \A t \in 1 .. n : /\ IsFiniteSet(DropsOf(t))
                        /\ Cardinality(DropsOf(t)) = IF t = top THEN 0 ELSE 1
  BY DropsAtEnd
<1>4. \A x \in W : x \in tree.matches /\ won[x] # 0 /\ Loser[x] \in 1 .. n /\ x \in DropsOf(Loser[x])
  <2> TAKE x \in W
  <2>1. x \in tree.matches /\ x # GF2
    BY DEF GF2
  <2>2. won[x] # 0
    BY <1>1, <2>1, AllPlayed
  <2>3. Loser[x] \in 1 .. n
    BY <1>1, <2>1, <2>2, Results
  <2> QED BY <2>1, <2>2, <2>3 DEF DropsOf, LostIn
<1>5. \A x \in W : Loser[x] # top
  BY <1>2, <1>3, <1>4, FS_EmptySet
<1>6. ASSUME NEW t \in T PROVE \E x \in W : DropsOf(t) = {x} /\ Loser[x] = t
  <2>1. IsFiniteSet(DropsOf(t)) /\ Cardinality(DropsOf(t)) = 1
    BY <1>3
  <2>2. PICK x : DropsOf(t) = {x}
    BY <2>1, FS_Singleton
  <2>3. x \in W /\ Loser[x] = t
    BY <2>2 DEF DropsOf, LostIn
  <2> QED BY <2>2, <2>3
<1>7. \A x \in W : Loser[x] \in T
  BY <1>4, <1>5
<1>8. ASSUME NEW x \in W, NEW y \in W, Loser[x] = Loser[y] PROVE x = y
  <2>1. x \in DropsOf(Loser[x]) /\ y \in DropsOf(Loser[x]) /\ Loser[x] \in T
    BY <1>4, <1>7, <1>8
  <2> QED BY <1>6, <2>1
<1>9. \A t \in T : \E x \in W : Loser[x] = t
  BY <1>6
<1>10. IsFiniteSet(W)
  BY <1>1, FS_Subset
<1>11. Cardinality(T) = n - 1
  <2>1. IsFiniteSet(1 .. n) /\ Cardinality(1 .. n) = n
    BY <1>1, FS_Interval
  <2> QED BY <1>2, <2>1, FS_RemoveElement
<1> HIDE DEF W, T, top
<1>12. /\ f \in [W -> T]
       /\ \A x, y \in W : f[x] = f[y] => x = y
       /\ \A t \in T : \E x \in W : f[x] = t
  BY <1>7, <1>8, <1>9
<1> HIDE DEF f
<1>13. Cardinality(T) = Cardinality(W)
  BY <1>10, <1>12, Counted
<1> QED BY <1>10, <1>11, <1>13 DEF W

\* 2n - 2 matches decide a double elimination, the reset final is one more; n - 1 a
\* single one.
THEOREM PlayoutLength == Spec => []MatchCount
<1>1. IInv => MatchCount
  <2> DEFINE P == {m \in tree.matches : won[m] # 0}
  <2> SUFFICES ASSUME IInv, Playable = {}
               PROVE  Cardinality(P) = IF ~double THEN n - 1 ELSE IF won[GF] = 2 THEN 2 * n - 1 ELSE 2 * n - 2
    BY DEF MatchCount
  <2>1. Basic /\ Formed /\ n \in Nat /\ n >= 2 /\ IsFiniteSet(tree.matches) /\ GF # GF2
    BY FieldShape DEF IInv, Basic
  <2>2. PICK d \in tree.matches : Ended(d)
    BY <2>1, End
  <2>3. /\ \A m \in tree.matches \ {GF2} : won[m] # 0
        /\ double => (won[GF2] # 0 <=> won[GF] = 2)
    BY <2>1, AllPlayed
  <2>4. IsFiniteSet(Out(d)) /\ Cardinality(Out(d)) = n - 1
    BY <2>2, OutCount
  <2>5. CASE ~double
    <3>1. d \in Knocking /\ Knocking = tree.matches /\ GF2 \notin tree.matches
      BY <2>1, <2>2, <2>5, SingleFinal, FieldShape DEF Ended
    <3>2. P = Out(d)
      BY <2>3, <3>1 DEF Out
    <3> QED BY <2>4, <2>5, <3>2
  <2>6. CASE double
    <3> DEFINE W == {m \in tree.matches : m[1] = "winner"}
    <3>1. IsFiniteSet(W) /\ Cardinality(W) = n - 1
      BY <2>2, <2>6, WinnerCount
    <3>2. /\ Knocking = {m \in tree.matches : m[1] = "loser"}
          /\ \A x \in tree.matches : x \in {GF, GF2} \/ x[1] \in {"winner", "loser"}
      BY <2>1, <2>6, DoubleKnocking
    <3>3. IsFiniteSet(Knocking) /\ Cardinality(Knocking) = n - 2
      <4>1. d \notin Knocking /\ Knocking = Out(d) \ {d} /\ d \in Out(d)
        BY <2>2, <2>6 DEF Ended, Out
      <4> QED BY <2>1, <2>4, <4>1, FS_RemoveElement
    <3>4. W \cap Knocking = {} /\ GF \notin W \cup Knocking /\ GF2 \notin W \cup Knocking
      BY <3>2 DEF GF, GF2
    <3> DEFINE B == W \cup Knocking
               G == B \cup {GF}
    <3>5. IsFiniteSet(B) /\ Cardinality(B) = 2 * n - 3
      <4>1. IsFiniteSet(B) /\ Cardinality(B) = Cardinality(W) + Cardinality(Knocking) - Cardinality({})
        <5> HIDE DEF W
        <5> QED BY <3>1, <3>3, <3>4, FS_Union
      <4> HIDE DEF B, W
      <4> QED BY <2>1, <3>1, <3>3, <4>1, FS_EmptySet
    <3>6. GF \in tree.matches /\ GF2 \in tree.matches
      BY <2>1, <2>6, FieldShape
    <3>7. P = IF won[GF] = 2 THEN G \cup {GF2} ELSE G
      BY <2>1, <2>3, <2>6, <3>2, <3>6 DEF GF, GF2
    <3>8. GF \notin B /\ GF2 \notin G
      BY <2>1, <3>4
    <3> HIDE DEF B, P
    <3>9. IsFiniteSet(G) /\ Cardinality(G) = 2 * n - 2
      BY <2>1, <3>5, <3>8, FS_AddElement
    <3> HIDE DEF G
    <3>10. Cardinality(G \cup {GF2}) = 2 * n - 1
      <4>1. Cardinality(G \cup {GF2}) = Cardinality(G) + 1
        BY <3>8, <3>9, FS_AddElement
      <4> QED BY <2>1, <3>9, <4>1
    <3> QED BY <2>6, <3>7, <3>9, <3>10
  <2> QED BY <2>5, <2>6
<1> QED BY <1>1, AlwaysIInv, PTL

----------------------------------------------------------------------------
\* The bracket is a knockout.
LossesOf == [t \in AllTeams |-> Cardinality({m \in tree.matches : Loser[m] = t})]
LivesOf == IF double THEN 2 ELSE 1

LEMMA FieldTeams ==
  ASSUME Formed
  PROVE  /\ n \in Nat /\ n >= 2 /\ 1 .. n \subseteq AllTeams /\ 0 \notin AllTeams
         /\ LivesOf \in {1, 2}
<1> DEFINE sizes == {f[1] : f \in Fields}
           top == CHOOSE k \in sizes : \A f \in Fields : f[1] <= k
<1>1. \E k \in sizes : \A f \in Fields : f[1] <= k
  BY FieldsAreWellFormed
<1>2. top \in sizes /\ \A f \in Fields : f[1] <= top
  BY <1>1
<1>3. \A f \in Fields : f[1] \in Nat
  BY FieldsAreWellFormed DEF WellFormed, Keyed
<1>4. AllTeams = 1 .. top
  BY DEF AllTeams
<1> HIDE DEF top
<1>5. n \in Nat /\ n >= 2 /\ n <= top /\ top \in Nat
  BY <1>2, <1>3, FieldShape DEF Formed, n
<1> QED BY <1>4, <1>5 DEF LivesOf

\* Once the grand final has both its teams every match before it is over: one that is
\* not leaves a slot of a later one empty, and of the later ones there is a last.
LEMMA BeforeGrand ==
  ASSUME Basic, double, seat[<<GF, 1>>] # 0, seat[<<GF, 2>>] # 0
  PROVE  \A m \in tree.matches \ {GF, GF2} : won[m] # 0
<1> DEFINE wave == depth(tree)
           open == {m \in tree.matches \ {GF, GF2} : won[m] = 0}
           later(x) == {y \in open : wave[x] < wave[y]}
           sizes == {Cardinality(later(x)) : x \in open}
<1>1. Formed /\ IsFiniteSet(tree.matches)
  BY FieldShape DEF Basic
<1>2. /\ \A m \in tree.matches : wave[m] \in Nat
      /\ \A l \in tree.links : wave[l[2]] < wave[l[3]]
  BY <1>1, LinkShape DEF Formed, WellFormed, OneSource
<1>3. ASSUME NEW x \in open PROVE \E y \in open : wave[x] < wave[y]
  <2>1. PICK l \in tree.links : l[1] = "winner" /\ l[2] = x
    BY <1>1, DoubleLinks DEF Linked
  <2>2. seat[<<l[3], l[4]>>] = 0
    BY <2>1 DEF Basic, Followed
  <2>3. l[3] \in tree.matches \ {GF2} /\ l[4] \in {1, 2}
    BY <1>1, LinkShape
  <2>4. l[3] # GF /\ won[l[3]] = 0
    BY <2>2, <2>3 DEF Basic, PlayedFull
  <2> QED BY <1>2, <2>1, <2>3, <2>4
<1>4. ASSUME NEW x \in open
      PROVE  IsFiniteSet(later(x)) /\ Cardinality(later(x)) \in Nat
  BY <1>1, FS_Subset, FS_CardinalityType
<1>5. ASSUME NEW x \in open, NEW y \in open, wave[x] < wave[y]
      PROVE  Cardinality(later(y)) < Cardinality(later(x))
  <2>1. later(y) \subseteq later(x)
    BY <1>2, <1>5
  <2>2. y \in later(x) /\ y \notin later(y)
    BY <1>2, <1>5
  <2>3. /\ IsFiniteSet(later(x)) /\ Cardinality(later(x)) \in Nat /\ Cardinality(later(y)) \in Nat
    BY <1>4
  <2> HIDE DEF later
  <2>4. /\ Cardinality(later(y)) <= Cardinality(later(x))
        /\ Cardinality(later(x)) = Cardinality(later(y)) => later(x) = later(y)
    BY <2>1, <2>3, FS_Subset
  <2> QED BY <2>2, <2>3, <2>4
<1>6. open = {}
  <2> SUFFICES ASSUME open # {} PROVE FALSE
    OBVIOUS
  <2> HIDE DEF later, open
  <2>1. sizes \subseteq Nat /\ sizes # {}
    BY <1>4
  <2> HIDE DEF sizes
  <2>2. PICK k \in sizes : \A v \in sizes : k <= v
    BY <2>1, Least
  <2>3. PICK x \in open : k = Cardinality(later(x))
    BY DEF sizes
  <2>4. PICK y \in open : Cardinality(later(y)) < Cardinality(later(x))
    BY <1>3, <1>5
  <2>5. Cardinality(later(y)) \in sizes
    BY DEF sizes
  <2> QED BY <1>4, <2>2, <2>3, <2>4, <2>5
<1> QED BY <1>6

\* A team that is neither in the grand final nor before it has lost twice.
LEMMA GrandFinalists ==
  ASSUME IInv, double, won[GF] = 0, seat[<<GF, 1>>] # 0, seat[<<GF, 2>>] # 0,
         NEW t \in 1 .. n, t # seat[<<GF, 1>>], t # seat[<<GF, 2>>]
  PROVE  Cardinality(LostIn(t)) = 2
<1>1. Basic /\ Formed /\ HasLast /\ LossesFit
  BY DEF IInv, Basic
<1>2. PICK s \in Slots : Last(s) /\ seat[s] = t
  BY <1>1 DEF HasLast
<1>3. s = <<s[1], s[2]>> /\ s[1] \in tree.matches /\ s[2] \in {1, 2} /\ seat[s] # 0 /\ ~MovedOn(s)
  BY <1>2, SlotShape DEF Last
<1>4. s[1] # GF
  BY <1>2, <1>3
<1>5. s[1] # GF2
  BY <1>1, <1>3 DEF Basic, Mirrored
<1>6. won[s[1]] # 0
  BY <1>1, <1>3, <1>4, <1>5, BeforeGrand
<1>7. ~Linked(Side(won[s[1]], s[2]), s[1])
  BY <1>3, <1>6 DEF MovedOn
<1>8. Linked("winner", s[1]) /\ (Linked("loser", s[1]) <=> s[1][1] = "winner")
  BY <1>1, <1>3, <1>4, <1>5, DoubleLinks
<1>9. s[2] # won[s[1]] /\ s[1][1] # "winner"
  BY <1>7, <1>8 DEF Side
<1>10. LossesAt(s[1], s[2]) = 1 /\ Beaten(s)
  BY <1>4, <1>6, <1>9 DEF LossesAt, Beaten
<1> QED BY <1>1, <1>2, <1>10 DEF LossesFit

LEMMA PlayIsKnockout ==
  ASSUME IInv, NEW m \in tree.matches, NEW p \in {1, 2}, Play(m, p)
  PROVE  K!Next
<1> DEFINE w == seat[<<m, p>>]
           l == seat[<<m, 3 - p>>]
<1>1. Basic /\ Formed /\ Typed /\ OneLast /\ LossesFit
  BY DEF IInv, Basic
<1>2. n \in Nat /\ n >= 2 /\ 1 .. n \subseteq AllTeams /\ 0 \notin AllTeams /\ 3 - p \in {1, 2}
  BY <1>1, FieldTeams
<1>3. UNCHANGED <<field, tree>> /\ won[m] = 0 /\ seat[<<m, 1>>] # 0 /\ seat[<<m, 2>>] # 0
  BY <1>1, PlaySeats
<1>4. ASSUME NEW q \in {1, 2}
      PROVE  seat[<<m, q>>] \in 1 .. n /\ Cardinality(LostIn(seat[<<m, q>>])) = LossesAt(m, q)
  <2>1. <<m, q>> \in Slots /\ Last(<<m, q>>) /\ ~Beaten(<<m, q>>) /\ seat[<<m, q>>] \in 1 .. n
    BY <1>1, Pairing
  <2>2. LossesAt(m, q) \in Nat
    BY DEF LossesAt
  <2> QED BY <1>1, <2>1, <2>2 DEF LossesFit
<1>5. w # l /\ w \in 1 .. n /\ l \in 1 .. n
  <2>1. seat[<<m, 1>>] # seat[<<m, 2>>]
    BY <1>1, Pairing
  <2> QED BY <1>2, <1>4, <2>1
<1>6. \A t \in AllTeams : LossesOf[t] = Cardinality(LostIn(t))
  BY DEF LossesOf, LostIn
<1>7. LossesOf[w] = LossesAt(m, p) /\ LossesOf[l] = LossesAt(m, 3 - p)
  BY <1>2, <1>4, <1>5, <1>6
<1>8. \A q \in {1, 2} : LossesAt(m, q) \in 0 .. 1 /\ LossesAt(m, q) < LivesOf
  <2>1. ~double => m[1] = "winner"
    BY <1>1, FieldShape DEF Formed, WellFormed, Keyed
  <2> QED BY <2>1 DEF LossesAt, LivesOf
<1>9. LossesOf[w] = LossesOf[l] \/ {t \in 1 .. n : LossesOf[t] < LivesOf} = {w, l}
  <2>1. CASE m # GF
    <3>1. LossesAt(m, p) = LossesAt(m, 3 - p)
      BY <2>1 DEF LossesAt
    <3> QED BY <1>7, <3>1
  <2>2. CASE m = GF
    <3>1. double
      BY <1>1, <2>2, FieldShape
    <3>2. ASSUME NEW t \in 1 .. n, t # w, t # l PROVE LossesOf[t] = 2
      <4>1. t # seat[<<GF, 1>>] /\ t # seat[<<GF, 2>>]
        BY <2>2, <3>2
      <4>2. Cardinality(LostIn(t)) = 2
        BY <1>3, <2>2, <3>1, <4>1, GrandFinalists
      <4> QED BY <1>2, <1>6, <4>2
    <3>3. LossesOf[w] < LivesOf /\ LossesOf[l] < LivesOf
      BY <1>2, <1>7, <1>8
    <3> HIDE DEF w, l
    <3> QED BY <1>5, <3>1, <3>2, <3>3 DEF LivesOf
  <2> QED BY <2>1, <2>2
<1>10. LossesOf' = [t \in AllTeams |-> IF t = l THEN LossesOf[t] + 1 ELSE LossesOf[t]]
  <2>1. LossesOf' = [t \in AllTeams |-> Cardinality({x \in tree.matches : Loser'[x] = t})]
    BY <1>3 DEF LossesOf
  <2>2. ASSUME NEW t \in AllTeams
        PROVE  Cardinality({x \in tree.matches : Loser'[x] = t}) =
                 IF t = l THEN LossesOf[t] + 1 ELSE LossesOf[t]
    <3>1. /\ {x \in tree.matches : Loser'[x] = t} = IF t = l THEN LostIn(t) \cup {m} ELSE LostIn(t)
          /\ m \notin LostIn(t) /\ IsFiniteSet(LostIn(t))
      BY <1>1, <1>2, LossNext
    <3>2. Cardinality(LostIn(t) \cup {m}) = Cardinality(LostIn(t)) + 1
      BY <3>1, FS_AddElement
    <3> HIDE DEF l
    <3> QED BY <1>6, <3>1, <3>2
  <2> QED BY <2>1, <2>2
<1>11. UNCHANGED <<1 .. n, LivesOf>>
  BY <1>3 DEF n, LivesOf, double
<1>12. LossesOf[w] < LivesOf /\ LossesOf[l] < LivesOf
  BY <1>2, <1>7, <1>8
<1> HIDE DEF w, l
<1>13. K!Lose(w, l)
  BY <1>5, <1>9, <1>10, <1>11, <1>12 DEF K!Lose, K!Beats, K!Alive, LossesOf, LivesOf
<1>14. w \in AllTeams /\ l \in AllTeams
  BY <1>2, <1>5
<1> QED BY <1>13, <1>14 DEF K!Next

\* Played out, a bracket is a knockout: only teams with losses left play, a team is out
\* with its last loss, and teams that have lost equally often meet until two are left.
THEOREM PlayoutIsKnockout == Spec => ImplementsKnockout
<1>1. Init => K!Init
  <2> SUFFICES ASSUME Init PROVE K!Init
    OBVIOUS
  <2>1. IInv /\ Basic /\ Formed
    BY InitIInv DEF IInv, Basic
  <2>2. n \in Nat /\ n >= 2 /\ 1 .. n \subseteq AllTeams /\ 0 \notin AllTeams /\ LivesOf \in {1, 2}
    BY <2>1, FieldTeams
  <2>3. \E s, t \in 1 .. n : s # t
    <3>1. 1 \in 1 .. n /\ 2 \in 1 .. n
      BY <2>2
    <3> QED BY <3>1
  <2>4. \A x \in tree.matches : Loser[x] = 0
    BY <2>1, Results DEF Init
  <2>5. ASSUME NEW t \in AllTeams PROVE Cardinality({x \in tree.matches : Loser[x] = t}) = 0
    <3>1. {x \in tree.matches : Loser[x] = t} = {}
      BY <2>2, <2>4
    <3> QED BY <3>1, FS_EmptySet
  <2>6. LossesOf = [t \in AllTeams |-> 0]
    BY <2>5 DEF LossesOf
  <2> QED BY <2>2, <2>3, <2>6 DEF K!Init, LossesOf, LivesOf
<1>2. IInv /\ [Next]_vars => [K!Next]_(K!vars)
  <2> SUFFICES ASSUME IInv, [Next]_vars PROVE K!Next \/ UNCHANGED K!vars
    OBVIOUS
  <2>1. CASE Next
    BY <2>1, PlayIsKnockout DEF Next
  <2>2. CASE UNCHANGED vars
    BY <2>2 DEF vars, K!vars, Loser, n, double
  <2> QED BY <2>1, <2>2
<1> QED BY <1>1, <1>2, AlwaysIInv, PTL DEF Spec, ImplementsKnockout, K!Spec
============================================================================
