---------------------- MODULE BracketSchedule_proofs -----------------------
(***************************************************************************)
(* A well-formed blueprint, scheduled as generate_schedule does it, is a   *)
(* bracket as BracketPlay assumes it: what is proved of an elimination     *)
(* phase holds of the phases the program creates.                          *)
(***************************************************************************)
EXTENDS BracketSchedule, FiniteSetTheorems, WellFoundedInduction, TLAPS

CONSTANTS Field,     \* teams of the phase, seeded 1 .. Field
          Double,    \* double elimination?
          Override   \* may officials set any status by hand?

VARIABLES status, seat, result, phase, deRank

Tree == elimination_blueprint(Field, Double)

Phase == INSTANCE BracketPlay_proofs WITH
  Teams <- 1 .. Field,
  Matches <- Tree.matches,
  GrandFinal <- Final(Tree, GF),
  ResetFinal <- Final(Tree, GF2),
  winnerTo <- NextSlot(Tree, "winner"),
  loserTo <- NextSlot(Tree, "loser"),
  entry <- Participants(Tree),
  stage <- Stage(Tree),
  wave <- Wave(Tree)

\* The phase was generated for a field whose blueprint is well formed.
Generated ==
  /\ WellFormed(Tree, Field, Double) /\ Double \in BOOLEAN /\ Override \in BOOLEAN
  /\ None \notin 1 .. Field /\ None \notin Tree.matches /\ None \notin Tree.matches \X {1, 2}

Slots == Tree.matches \X {1, 2}
Goes(side, m) == NextSlot(Tree, side)[m]
Sits(s) == Participants(Tree)[s]

----------------------------------------------------------------------------
\* The blueprint and the rows.

\* Its keys: winner and loser rounds, and both finals or none.
LEMMA Shape ==
  ASSUME Generated
  PROVE  /\ Field \in Nat /\ Field >= 2 /\ IsFiniteSet(Tree.matches) /\ Double \in BOOLEAN
         /\ GF # GF2 /\ GF[1] = "final" /\ GF2[1] = "final"
         /\ Double <=> GF \in Tree.matches
         /\ Double <=> GF2 \in Tree.matches
         /\ \A m \in Tree.matches \ {GF, GF2} :
              m[2] \in Nat /\ m[1] \in {"winner", "loser"} /\ (~Double => m[1] = "winner")
         /\ None \notin Tree.matches /\ None \notin Slots /\ None \notin 1 .. Field
<1>1. Keyed(Tree, Field, Double) /\ Double \in BOOLEAN
  BY DEF Generated, WellFormed
<1>2. GF[1] = "final" /\ GF2[1] = "final"
  BY DEF GF, GF2
<1>3. (Double <=> GF \in Tree.matches) /\ (Double <=> GF2 \in Tree.matches)
  <2>1. {GF, GF2} \cap Tree.matches = IF Double THEN {GF, GF2} ELSE {}
    BY <1>1 DEF Keyed
  <2>2. CASE Double
    BY <2>1, <2>2
  <2>3. CASE ~Double
    BY <2>1, <2>3
  <2> QED BY <2>2, <2>3
<1>4. ASSUME NEW m \in Tree.matches \ {GF, GF2}
      PROVE  m[2] \in Nat /\ m[1] \in {"winner", "loser"} /\ (~Double => m[1] = "winner")
  <2>1. m[2] \in Nat /\ m[1] \in IF Double THEN {"winner", "loser"} ELSE {"winner"}
    BY <1>1 DEF Keyed
  <2> QED BY <2>1
<1>5. None \notin Tree.matches /\ None \notin Slots /\ None \notin 1 .. Field
  BY DEF Generated, Slots
<1> QED BY <1>1, <1>2, <1>3, <1>4, <1>5 DEF Keyed

LEMMA LinkShape ==
  ASSUME Generated
  PROVE  /\ \A l \in Tree.links : /\ l[1] \in {"winner", "loser"} /\ l[2] \in Tree.matches
                                  /\ l[3] \in Tree.matches /\ l[4] \in {1, 2}
                                  /\ l = <<l[1], l[2], l[3], l[4]>> /\ <<l[3], l[4]>> \in Slots
         /\ \A x \in Tree.teams : /\ x[1] \in 1 .. Field /\ x[2] \in Tree.matches /\ x[3] \in {1, 2}
                                  /\ x = <<x[1], x[2], x[3]>> /\ <<x[2], x[3]>> \in Slots
<1>1. /\ Tree.teams \subseteq (1 .. Field) \X Tree.matches \X {1, 2}
      /\ Tree.links \subseteq {"winner", "loser"} \X Tree.matches \X Tree.matches \X {1, 2}
  BY DEF Generated, WellFormed, Keyed
<1> QED BY <1>1 DEF Slots

\* A stored link is a link of the blueprint, and every one of those is stored.
LEMMA Links ==
  ASSUME Generated, NEW side \in {"winner", "loser"}
  PROVE  /\ NextSlot(Tree, side) \in [Tree.matches -> Slots \cup {None}]
         /\ \A l \in Tree.links : l[1] = side => Goes(side, l[2]) = <<l[3], l[4]>>
         /\ \A m \in Tree.matches : Goes(side, m) # None =>
              \E l \in Tree.links : l[1] = side /\ l[2] = m /\ Goes(side, m) = <<l[3], l[4]>>
<1> DEFINE links == {l \in Tree.links : l[1] = side}
           pick(m) == CHOOSE x \in links : x[2] = m
<1>1. NextSlot(Tree, side) = [m \in Tree.matches |-> IF \E l \in links : l[2] = m
                                                     THEN <<pick(m)[3], pick(m)[4]>> ELSE None]
  BY DEF NextSlot
<1>2. \A m \in Tree.matches : Goes(side, m) = IF \E l \in links : l[2] = m
                                              THEN <<pick(m)[3], pick(m)[4]>> ELSE None
  BY <1>1 DEF Goes
<1>3. ASSUME NEW m \in Tree.matches, NEW l \in links, l[2] = m PROVE pick(m) = l
  <2>1. pick(m) \in links /\ pick(m)[2] = m
    BY <1>3
  <2>2. \A k, j \in Tree.links : <<k[1], k[2]>> = <<j[1], j[2]>> => k = j
    BY DEF Generated, WellFormed, OneSource
  <2> QED BY <1>3, <2>1, <2>2
<1> HIDE DEF pick
<1>4. ASSUME NEW l \in Tree.links, l[1] = side PROVE Goes(side, l[2]) = <<l[3], l[4]>>
  <2>1. l[2] \in Tree.matches /\ l \in links
    BY <1>4, LinkShape
  <2> QED BY <1>2, <1>3, <2>1
<1>5. ASSUME NEW m \in Tree.matches, Goes(side, m) # None
      PROVE  \E l \in Tree.links : l[1] = side /\ l[2] = m /\ Goes(side, m) = <<l[3], l[4]>>
  <2>1. PICK l \in links : l[2] = m
    BY <1>2, <1>5
  <2> QED BY <1>4, <2>1
<1>6. \A m \in Tree.matches : Goes(side, m) \in Slots \cup {None}
  BY <1>5, LinkShape
<1>7. NextSlot(Tree, side) \in [Tree.matches -> Slots \cup {None}]
  BY <1>1, <1>6 DEF Goes
<1> QED BY <1>4, <1>5, <1>7

\* A participant row is a team of the blueprint, and every one of those has its row.
LEMMA Seats ==
  ASSUME Generated
  PROVE  /\ Participants(Tree) \in [Slots -> (1 .. Field) \cup {None}]
         /\ \A x \in Tree.teams : Sits(<<x[2], x[3]>>) = x[1]
         /\ \A s \in Slots : Sits(s) # None => \E x \in Tree.teams : x[1] = Sits(s) /\ <<x[2], x[3]>> = s
<1> DEFINE pick(s) == CHOOSE t \in Tree.teams : <<t[2], t[3]>> = s
<1>1. Participants(Tree) = [s \in Slots |-> IF \E t \in Tree.teams : <<t[2], t[3]>> = s
                                            THEN pick(s)[1] ELSE None]
  BY DEF Participants, Slots
<1>2. \A s \in Slots : Sits(s) = IF \E t \in Tree.teams : <<t[2], t[3]>> = s THEN pick(s)[1] ELSE None
  BY <1>1 DEF Sits
<1>3. ASSUME NEW x \in Tree.teams PROVE pick(<<x[2], x[3]>>) = x
  <2>1. pick(<<x[2], x[3]>>) \in Tree.teams
        /\ <<pick(<<x[2], x[3]>>)[2], pick(<<x[2], x[3]>>)[3]>> = <<x[2], x[3]>>
    OBVIOUS
  <2>2. \A y, z \in Tree.teams : y[1] = z[1] \/ <<y[2], y[3]>> = <<z[2], z[3]>> => y = z
    BY DEF Generated, WellFormed, OneSource
  <2> HIDE DEF pick
  <2> QED BY <2>1, <2>2
<1> HIDE DEF pick
<1>4. ASSUME NEW x \in Tree.teams PROVE Sits(<<x[2], x[3]>>) = x[1]
  BY <1>2, <1>3, LinkShape
<1>5. ASSUME NEW s \in Slots, Sits(s) # None
      PROVE  \E x \in Tree.teams : x[1] = Sits(s) /\ <<x[2], x[3]>> = s
  <2>1. PICK x \in Tree.teams : <<x[2], x[3]>> = s
    BY <1>2, <1>5
  <2> QED BY <1>4, <2>1
<1>6. \A s \in Slots : Sits(s) \in (1 .. Field) \cup {None}
  BY <1>5, LinkShape
<1> QED BY <1>1, <1>4, <1>5, <1>6 DEF Sits

\* Links lead to later waves.
LEMMA Waves ==
  ASSUME Generated
  PROVE  /\ Wave(Tree) \in [Tree.matches -> Nat]
         /\ \A l \in Tree.links : Wave(Tree)[l[2]] < Wave(Tree)[l[3]]
<1> DEFINE d == depth(Tree)
<1>1. \A m \in Tree.matches : d[m] \in Nat /\ \A l \in Tree.links : l[3] = m => d[l[2]] < d[m]
  BY DEF Generated, WellFormed, OneSource
<1>2. Wave(Tree) = [m \in Tree.matches |-> d[m]]
  BY DEF Wave
<1> HIDE DEF d
<1> QED BY <1>1, <1>2, LinkShape

----------------------------------------------------------------------------
\* The assumptions of BracketPlay, one by one.

LEMMA PhaseSlots ==
  /\ Phase!Slots = Slots
  /\ \A s \in Slots : s[1] \in Tree.matches /\ s[2] \in {1, 2} /\ s = <<s[1], s[2]>>
  /\ \A m \in Tree.matches, p \in {1, 2} : <<m, p>> \in Slots
BY DEF Phase!Slots, Slots

\* BracketPlay's finals are those of the blueprint.
LEMMA Finals ==
  ASSUME Generated
  PROVE  /\ Double => Final(Tree, GF) = GF /\ Final(Tree, GF2) = GF2 /\ GF # None /\ GF2 # None
         /\ ~Double => Final(Tree, GF) = None /\ Final(Tree, GF2) = None
         /\ Phase!Finals \cap Tree.matches = {GF, GF2} \cap Tree.matches
         /\ Phase!Finals = IF Double THEN {GF, GF2} ELSE {None}
<1>1. /\ Double => Final(Tree, GF) = GF /\ Final(Tree, GF2) = GF2 /\ GF # None /\ GF2 # None
      /\ ~Double => Final(Tree, GF) = None /\ Final(Tree, GF2) = None
  BY Shape DEF Final
<1>2. Phase!Finals = IF Double THEN {GF, GF2} ELSE {None}
  BY <1>1 DEF Phase!Finals
<1> QED BY <1>1, <1>2, Shape

\* The rows have the shapes BracketPlay gives its constants.
LEMMA IsWired == ASSUME Generated PROVE Phase!Wiring
<1>1. None \notin 1 .. Field /\ None \notin Slots /\ None \notin Tree.matches
  BY Shape
<1>2. Phase!IsFiniteSet(1 .. Field) /\ Phase!IsFiniteSet(Tree.matches)
  <2>1. IsFiniteSet(1 .. Field) /\ IsFiniteSet(Tree.matches)
    BY Shape, FS_Interval
  <2> QED BY <2>1 DEF Phase!IsFiniteSet, IsFiniteSet
<1>3. \/ Final(Tree, GF) = None /\ Final(Tree, GF2) = None
      \/ Final(Tree, GF) \in Tree.matches /\ Final(Tree, GF2) \in Tree.matches /\ Final(Tree, GF) # Final(Tree, GF2)
  BY Shape, Finals
<1>4. Stage(Tree) \in [Tree.matches -> Nat]
  <2>1. GF[2] \in Nat /\ GF2[2] \in Nat
    BY DEF GF, GF2
  <2> QED BY <2>1, Shape DEF Stage
<1>5. Wave(Tree) \in [Tree.matches -> Nat]
  BY Waves
<1> QED BY <1>1, <1>2, <1>3, <1>4, <1>5, Links, Seats, PhaseSlots DEF Phase!Wiring, Generated

\* A slot is filled at the start or by a link from an earlier wave.
LEMMA EverySlotHasSource == ASSUME Generated PROVE Phase!HasSource
<1>1. ASSUME NEW s \in Slots
      PROVE  \/ s[1] = Final(Tree, GF2) \/ Sits(s) # None
             \/ \E m \in Tree.matches : s \in {Goes("winner", m), Goes("loser", m)}
  <2>1. CASE s[1] = GF2
    <3>1. Double
      BY <2>1, PhaseSlots, Shape
    <3> QED BY <2>1, <3>1, Finals
  <2>2. CASE s[1] # GF2
    <3>1. s[1] \in Tree.matches \ {GF2} /\ s[2] \in {1, 2} /\ s = <<s[1], s[2]>>
      BY <2>2, PhaseSlots
    <3>2. \/ \E x \in Tree.teams : <<x[2], x[3]>> = s
          \/ \E l \in Tree.links : <<l[3], l[4]>> = s
      BY <3>1 DEF Generated, WellFormed, OneSource
    <3>3. CASE \E x \in Tree.teams : <<x[2], x[3]>> = s
      <4>1. PICK x \in Tree.teams : <<x[2], x[3]>> = s
        BY <3>3
      <4>2. Sits(s) = x[1] /\ x[1] \in 1 .. Field
        BY <4>1, Seats, LinkShape
      <4> QED BY <4>2, Shape
    <3>4. CASE \E l \in Tree.links : <<l[3], l[4]>> = s
      <4>1. PICK l \in Tree.links : <<l[3], l[4]>> = s
        BY <3>4
      <4>2. l[1] \in {"winner", "loser"} /\ l[2] \in Tree.matches
        BY LinkShape
      <4>3. Goes(l[1], l[2]) = s
        BY <4>1, <4>2, Links
      <4> QED BY <4>2, <4>3
    <3> QED BY <3>2, <3>3, <3>4
  <2> QED BY <2>1, <2>2
<1>2. ASSUME NEW m \in Tree.matches, NEW side \in {"winner", "loser"}, Goes(side, m) # None
      PROVE  Wave(Tree)[m] < Wave(Tree)[Goes(side, m)[1]]
  <2>1. PICK l \in Tree.links : l[1] = side /\ l[2] = m /\ Goes(side, m) = <<l[3], l[4]>>
    BY <1>2, Links
  <2> QED BY <2>1, Waves
<1> QED BY <1>1, <1>2, PhaseSlots DEF Phase!HasSource, Goes, Sits

\* And by nothing else.
LEMMA EverySlotHasOneSource == ASSUME Generated PROVE Phase!OneSource
<1>1. ASSUME NEW a \in Tree.matches, NEW b \in Tree.matches,
             NEW p \in {"winner", "loser"}, NEW q \in {"winner", "loser"},
             Goes(p, a) # None, Goes(p, a) = Goes(q, b)
      PROVE  p = q /\ a = b
  <2>1. PICK l \in Tree.links : l[1] = p /\ l[2] = a /\ Goes(p, a) = <<l[3], l[4]>>
    BY <1>1, Links
  <2>2. PICK k \in Tree.links : k[1] = q /\ k[2] = b /\ Goes(q, b) = <<k[3], k[4]>>
    BY <1>1, Links
  <2>3. \A x, y \in Tree.links : <<x[3], x[4]>> = <<y[3], y[4]>> => x = y
    BY DEF Generated, WellFormed, OneSource
  <2> QED BY <1>1, <2>1, <2>2, <2>3
<1>2. ASSUME NEW m \in Tree.matches, NEW side \in {"winner", "loser"}, Goes(side, m) # None
      PROVE  Sits(Goes(side, m)) = None
  <2>1. PICK l \in Tree.links : l[1] = side /\ l[2] = m /\ Goes(side, m) = <<l[3], l[4]>>
    BY <1>2, Links
  <2>2. <<l[3], l[4]>> \in Slots
    BY LinkShape
  <2>3. \A x \in Tree.teams : <<x[2], x[3]>> # <<l[3], l[4]>>
    BY DEF Generated, WellFormed, OneSource
  <2> QED BY <2>1, <2>2, <2>3, Seats
<1>3. ASSUME NEW s \in Slots, NEW t \in Slots, Sits(s) # None, Sits(s) = Sits(t) PROVE s = t
  <2>1. PICK x \in Tree.teams : x[1] = Sits(s) /\ <<x[2], x[3]>> = s
    BY <1>3, Seats
  <2>2. PICK y \in Tree.teams : y[1] = Sits(t) /\ <<y[2], y[3]>> = t
    BY <1>3, Seats
  <2>3. x = y
    BY <1>3, <2>1, <2>2 DEF Generated, WellFormed, OneSource
  <2> QED BY <2>1, <2>2, <2>3
<1>4. \A a, b \in Tree.matches :
        /\ Goes("winner", a) # None /\ Goes("winner", a) = Goes("winner", b) => a = b
        /\ Goes("loser", a) # None /\ Goes("loser", a) = Goes("loser", b) => a = b
        /\ Goes("winner", a) # None => Goes("winner", a) # Goes("loser", b)
  BY <1>1
<1> QED BY <1>2, <1>3, <1>4, PhaseSlots DEF Phase!OneSource, Goes, Sits

\* No link leads on from the finals, and none into the reset final.
LEMMA FinalsComeLast == ASSUME Generated PROVE Phase!FinalsAreLast
<1>1. \A l \in Tree.links : l[2] \notin {GF, GF2} /\ l[3] # GF2
  BY DEF Generated, WellFormed, SecondLoss
<1>2. ASSUME NEW m \in Phase!Finals \cap Tree.matches, NEW side \in {"winner", "loser"}
      PROVE  Goes(side, m) = None
  <2>1. m \in Tree.matches /\ m \in {GF, GF2}
    BY Finals
  <2> QED BY <1>1, <2>1, Links
<1>3. ASSUME NEW m \in Tree.matches, NEW side \in {"winner", "loser"}, Goes(side, m) # None
      PROVE  Goes(side, m)[1] # Final(Tree, GF2)
  <2>1. PICK l \in Tree.links : l[1] = side /\ l[2] = m /\ Goes(side, m) = <<l[3], l[4]>>
    BY <1>3, Links
  <2>2. l[3] # GF2 /\ l[3] # None
    <3>1. l[3] \in Tree.matches /\ None \notin Tree.matches
      BY LinkShape, Shape
    <3> QED BY <1>1, <3>1
  <2> QED BY <2>1, <2>2 DEF Final
<1>4. ASSUME Final(Tree, GF2) # None, NEW p \in {1, 2} PROVE Sits(<<Final(Tree, GF2), p>>) = None
  <2>1. Final(Tree, GF2) = GF2 /\ GF2 \in Tree.matches
    BY <1>4 DEF Final
  <2>2. <<GF2, p>> \in Slots
    BY <2>1, PhaseSlots
  <2>3. \A x \in Tree.teams : x[2] # GF2
    BY DEF Generated, WellFormed, OneSource
  <2> QED BY <2>1, <2>2, <2>3, Seats
<1>5. ASSUME Final(Tree, GF) = None PROVE \E m \in Tree.matches : Goes("winner", m) = None
  <2>1. ~Double
    BY <1>5, Finals, Shape
  <2>2. PICK f \in Tree.matches : \A m \in Tree.matches : m # f <=> \E l \in Tree.links : l[2] = m
    BY <2>1 DEF Generated, WellFormed, SecondLoss
  <2> QED BY <2>2, Links
<1> QED BY <1>2, <1>3, <1>4, <1>5 DEF Phase!FinalsAreLast, Goes, Sits

\* The levels of BracketPlay are those of the blueprint.
LEMMA Levels ==
  ASSUME Generated, NEW s \in Slots
  PROVE  Phase!LossesAt(s) = IF Double THEN LossesAt(s[1], s[2]) ELSE 0
<1>1. CASE ~Double
  BY <1>1, Finals DEF Phase!LossesAt
<1>2. CASE Double
  <2>1. s[1] \in Tree.matches /\ s = <<s[1], s[2]>>
    BY PhaseSlots
  <2>2. Phase!LossesAt(s) = IF s = <<GF, 1>> \/ (s[1] \notin {GF, GF2} /\ Goes("loser", s[1]) # None)
                            THEN 0 ELSE 1
    BY <1>2, Finals DEF Phase!LossesAt, Goes
  <2>3. LossesAt(s[1], s[2]) = IF s[1][1] = "winner" \/ s = <<GF, 1>> THEN 0 ELSE 1
    BY <2>1 DEF LossesAt
  <2>4. CASE s[1] \in {GF, GF2}
    <3>1. s[1][1] # "winner"
      BY <2>4, Shape
    <3> QED BY <1>2, <2>2, <2>3, <2>4, <3>1
  <2>5. CASE s[1] \notin {GF, GF2}
    <3>1. ASSUME s[1][1] = "winner" PROVE Goes("loser", s[1]) # None
      <4>1. PICK l \in Tree.links : l[1] = "loser" /\ l[2] = s[1]
        BY <1>2, <2>1, <2>5, <3>1 DEF Generated, WellFormed, SecondLoss
      <4>2. Goes("loser", s[1]) = <<l[3], l[4]>> /\ <<l[3], l[4]>> \in Slots
        BY <4>1, Links, LinkShape
      <4> QED BY <4>2, Shape
    <3>2. ASSUME Goes("loser", s[1]) # None PROVE s[1][1] = "winner"
      <4>1. PICK l \in Tree.links : l[1] = "loser" /\ l[2] = s[1]
        BY <2>1, <3>2, Links
      <4> QED BY <4>1 DEF Generated, WellFormed, SecondLoss
    <3> QED BY <1>2, <2>2, <2>3, <2>5, <3>1, <3>2
  <2> QED BY <2>4, <2>5
<1> QED BY <1>1, <1>2

\* Winners stay on their level, losers of the winner bracket drop one.
LEMMA LosersDropOne == ASSUME Generated PROVE Phase!SecondLoss
<1>1. ASSUME NEW l \in Tree.links
      PROVE  /\ LossesAt(l[3], l[4]) = IF l[1] = "loser" THEN 1 ELSE LossesAt(l[2], 1)
             /\ l[1] = "loser" => Double
  BY DEF Generated, WellFormed, SecondLoss
<1>2. ASSUME Final(Tree, GF) = None, NEW m \in Tree.matches PROVE Goes("loser", m) = None
  <2>1. ~Double
    BY <1>2, Finals, Shape
  <2> QED BY <1>1, <2>1, Links
<1>3. ASSUME NEW s \in Slots, Sits(s) # None PROVE Phase!LossesAt(s) = 0
  <2>1. PICK x \in Tree.teams : <<x[2], x[3]>> = s
    BY <1>3, Seats
  <2>2. s[1][1] = "winner"
    BY <2>1 DEF Generated, WellFormed, SecondLoss
  <2>3. LossesAt(s[1], s[2]) = 0
    BY <2>2 DEF LossesAt
  <2> QED BY <2>3, Levels
<1>4. ASSUME NEW m \in Tree.matches \ Phase!Finals, Final(Tree, GF) # None PROVE Goes("winner", m) # None
  <2>1. Double /\ m \in Tree.matches \ {GF, GF2}
    BY <1>4, Finals, Shape
  <2>2. PICK l \in Tree.links : l[1] = "winner" /\ l[2] = m
    BY <2>1 DEF Generated, WellFormed, SecondLoss
  <2>3. Goes("winner", m) = <<l[3], l[4]>> /\ <<l[3], l[4]>> \in Slots
    BY <2>2, Links, LinkShape
  <2> QED BY <2>3, Shape
<1>5. ASSUME NEW m \in Tree.matches \ Phase!Finals, NEW side \in {"winner", "loser"}, Goes(side, m) # None
      PROVE  Phase!LossesAt(Goes(side, m)) = IF side = "loser" THEN 1 ELSE Phase!LossesAt(<<m, 1>>)
  <2>1. PICK l \in Tree.links : l[1] = side /\ l[2] = m /\ Goes(side, m) = <<l[3], l[4]>>
    BY <1>5, Links
  <2>2. <<l[3], l[4]>> \in Slots /\ <<m, 1>> \in Slots
    BY LinkShape, PhaseSlots
  <2>3. /\ Phase!LossesAt(<<l[3], l[4]>>) = IF Double THEN LossesAt(l[3], l[4]) ELSE 0
        /\ Phase!LossesAt(<<m, 1>>) = IF Double THEN LossesAt(m, 1) ELSE 0
    BY <2>2, Levels
  <2> QED BY <1>1, <2>1, <2>3
<1> QED BY <1>2, <1>3, <1>4, <1>5, PhaseSlots DEF Phase!SecondLoss, Goes, Sits

----------------------------------------------------------------------------
\* The two links of a match lead into one match in the bracket of two teams only.

\* A set of numbers has a least one.
LEMMA Least == ASSUME NEW T \in SUBSET Nat, T # {} PROVE \E x \in T : \A y \in T : x <= y
<1> DEFINE R == {ss \in Nat \X Nat : ss[1] < ss[2]}
<1>1. IsWellFoundedOn(R, Nat)
  BY NatLessThanWellFounded, Zenon DEF OpToRel
<1> HIDE DEF R
<1>2. PICK x \in T : \A y \in T : ~(<<y, x>> \in R)
  BY <1>1, WFMin
<1>3. \A y \in T : ~(y < x) /\ x \in Nat /\ y \in Nat
  BY <1>2 DEF R
<1> QED BY <1>3

\* Among some matches there are those of the latest wave.
LEMMA Latest ==
  ASSUME Generated, NEW S \in SUBSET Tree.matches, S # {}
  PROVE  \E x \in S : \A y \in S : ~(Wave(Tree)[x] < Wave(Tree)[y])
<1> DEFINE wave == Wave(Tree)
           later(x) == {y \in S : wave[x] < wave[y]}
           sizes == {Cardinality(later(x)) : x \in S}
<1>1. IsFiniteSet(S) /\ \A x \in S : wave[x] \in Nat
  BY Shape, FS_Subset, Waves
<1> HIDE DEF wave
<1>2. ASSUME NEW x \in S PROVE IsFiniteSet(later(x)) /\ Cardinality(later(x)) \in Nat
  BY <1>1, FS_Subset, FS_CardinalityType
<1>3. ASSUME NEW x \in S, NEW y \in S, wave[x] < wave[y]
      PROVE  Cardinality(later(y)) < Cardinality(later(x))
  <2>1. later(y) \subseteq later(x)
    BY <1>1, <1>3
  <2>2. y \in later(x) /\ y \notin later(y)
    BY <1>1, <1>3
  <2>3. IsFiniteSet(later(x)) /\ Cardinality(later(x)) \in Nat /\ Cardinality(later(y)) \in Nat
    BY <1>2
  <2> HIDE DEF later
  <2>4. /\ Cardinality(later(y)) <= Cardinality(later(x))
        /\ Cardinality(later(x)) = Cardinality(later(y)) => later(x) = later(y)
    BY <2>1, <2>3, FS_Subset
  <2> QED BY <2>2, <2>3, <2>4
<1> HIDE DEF later
<1>4. sizes \subseteq Nat /\ sizes # {}
  BY <1>2
<1> HIDE DEF sizes
<1>5. PICK k \in sizes : \A v \in sizes : k <= v
  BY <1>4, Least
<1>6. PICK x \in S : k = Cardinality(later(x))
  BY DEF sizes
<1>7. ASSUME NEW y \in S, wave[x] < wave[y] PROVE FALSE
  <2>1. Cardinality(later(y)) < Cardinality(later(x)) /\ Cardinality(later(y)) \in sizes
    BY <1>3, <1>7 DEF sizes
  <2> QED BY <1>2, <1>5, <1>6, <2>1
<1> QED BY <1>7 DEF wave

\* If the loser of a winner-bracket match goes to the grand final, no match of the loser
\* bracket can: there is none.
LEMMA NoLoserBracket ==
  ASSUME Generated, NEW l \in Tree.links, l[1] = "loser", l[3] = GF
  PROVE  /\ Double /\ l[4] = 2 /\ l[2][1] = "winner"
         /\ \A m \in Tree.matches : m[1] # "loser"
         /\ \A m \in Tree.matches : m[1] = "winner" => m = l[2]
<1>1. Double /\ l[2][1] = "winner" /\ LossesAt(l[3], l[4]) = 1
  BY DEF Generated, WellFormed, SecondLoss
<1>2. l[4] = 2
  BY <1>1, LinkShape DEF LossesAt
<1>3. ASSUME NEW k \in Tree.links, LossesAt(k[3], k[4]) = 1
      PROVE  k = l \/ (k[3][1] = "loser" /\ k[3] \in Tree.matches)
  <2>1. k[3] \in Tree.matches /\ k[3] # GF2 /\ k[4] \in {1, 2}
    BY LinkShape DEF Generated, WellFormed, SecondLoss
  <2>2. CASE k[3] = GF
    <3>1. k[4] = 2
      BY <1>3, <2>1, <2>2 DEF LossesAt
    <3>2. <<k[3], k[4]>> = <<l[3], l[4]>>
      BY <1>2, <2>2, <3>1
    <3> QED BY <3>2 DEF Generated, WellFormed, OneSource
  <2>3. CASE k[3] # GF
    <3>1. k[3][1] \in {"winner", "loser"}
      BY <2>1, <2>3, Shape
    <3>2. k[3][1] # "winner"
      BY <1>3 DEF LossesAt
    <3> QED BY <2>1, <3>1, <3>2
  <2> QED BY <2>2, <2>3
<1> DEFINE L == {m \in Tree.matches : m[1] = "loser"}
<1>4. ASSUME NEW x \in L PROVE \E y \in L : Wave(Tree)[x] < Wave(Tree)[y]
  <2>1. x \in Tree.matches \ {GF, GF2} /\ x[1] = "loser"
    BY Shape
  <2>2. PICK k \in Tree.links : k[1] = "winner" /\ k[2] = x
    BY <1>1, <2>1 DEF Generated, WellFormed, SecondLoss
  <2>3. LossesAt(k[3], k[4]) = LossesAt(x, 1)
    BY <2>2 DEF Generated, WellFormed, SecondLoss
  <2>4. LossesAt(x, 1) = 1
    BY <2>1 DEF LossesAt
  <2>5. k # l
    BY <2>2
  <2>6. k[3] \in L
    BY <1>3, <2>3, <2>4, <2>5
  <2>7. Wave(Tree)[k[2]] < Wave(Tree)[k[3]]
    BY Waves
  <2> QED BY <2>2, <2>6, <2>7
<1>5. L = {}
  <2>1. L \in SUBSET Tree.matches
    OBVIOUS
  <2> HIDE DEF L
  <2>2. ASSUME L # {} PROVE FALSE
    <3>1. PICK x \in L : \A y \in L : ~(Wave(Tree)[x] < Wave(Tree)[y])
      BY <2>1, <2>2, Latest
    <3> QED BY <1>4, <3>1
  <2> QED BY <2>2
<1>6. ASSUME NEW m \in Tree.matches, m[1] = "winner" PROVE m = l[2]
  <2>1. m \in Tree.matches \ {GF, GF2}
    BY <1>6, Shape
  <2>2. PICK k \in Tree.links : k[1] = "loser" /\ k[2] = m
    BY <1>1, <1>6, <2>1 DEF Generated, WellFormed, SecondLoss
  <2>3. LossesAt(k[3], k[4]) = 1
    BY <2>2 DEF Generated, WellFormed, SecondLoss
  <2>4. k = l
    BY <1>3, <1>5, <2>3
  <2> QED BY <2>2, <2>4
<1> QED BY <1>1, <1>2, <1>5, <1>6

\* So only the two teams that were placed there can play for one match.
LEMMA TwoTeamsShare == ASSUME Generated PROVE Phase!SharedTarget
<1>1. ASSUME NEW m \in Tree.matches, NEW p \in {1, 2}, Goes("winner", m) # None, Goes("loser", m) # None,
             Goes("winner", m)[1] = Goes("loser", m)[1]
      PROVE  Sits(<<m, p>>) # None
  <2>1. PICK k \in Tree.links : k[1] = "winner" /\ k[2] = m /\ Goes("winner", m) = <<k[3], k[4]>>
    BY <1>1, Links
  <2>2. PICK l \in Tree.links : l[1] = "loser" /\ l[2] = m /\ Goes("loser", m) = <<l[3], l[4]>>
    BY <1>1, Links
  <2>3. k[3] = l[3] /\ l[3] \in Tree.matches /\ l[3] # GF2 /\ l[4] \in {1, 2} /\ k[4] \in {1, 2}
    <3>1. l[3] # GF2
      BY DEF Generated, WellFormed, SecondLoss
    <3> QED BY <1>1, <2>1, <2>2, <3>1, LinkShape
  <2>4. LossesAt(k[3], k[4]) = 0 /\ LossesAt(l[3], l[4]) = 1
    <3>1. m[1] = "winner" /\ LossesAt(l[3], l[4]) = 1
      BY <2>2 DEF Generated, WellFormed, SecondLoss
    <3>2. LossesAt(k[3], k[4]) = LossesAt(m, 1)
      BY <2>1 DEF Generated, WellFormed, SecondLoss
    <3> QED BY <3>1, <3>2 DEF LossesAt
  <2>5. l[3] = GF
    <3>1. l[3][1] # "winner"
      BY <2>4 DEF LossesAt
    <3>2. l[3] = GF \/ l[3][1] # "loser" \/ LossesAt(k[3], k[4]) = 1
      BY <2>3 DEF LossesAt
    <3> QED BY <2>3, <2>4, <3>1, <3>2, Shape
  <2>6. /\ \A x \in Tree.matches : x[1] # "loser"
        /\ \A x \in Tree.matches : x[1] = "winner" => x = m
        /\ m[1] = "winner"
    BY <2>2, <2>5, NoLoserBracket
  <2>7. m # GF2 /\ <<m, p>> \in Slots
    BY <2>6, Shape, PhaseSlots
  <2>8. \A j \in Tree.links : <<j[3], j[4]>> # <<m, p>>
    <3> SUFFICES ASSUME NEW j \in Tree.links, j[3] = m PROVE FALSE
      OBVIOUS
    <3>1. j[2] \in Tree.matches /\ j[2] \notin {GF, GF2}
      BY LinkShape DEF Generated, WellFormed, SecondLoss
    <3>2. j[2] = m
      BY <2>6, <3>1, Shape
    <3>3. Wave(Tree)[m] < Wave(Tree)[m] /\ Wave(Tree)[m] \in Nat
      BY <3>2, Waves
    <3> QED BY <3>3
  <2>9. PICK x \in Tree.teams : <<x[2], x[3]>> = <<m, p>>
    <3>1. m \in Tree.matches \ {GF2}
      BY <2>7
    <3> QED BY <2>8, <3>1 DEF Generated, WellFormed, OneSource
  <2>10. Sits(<<m, p>>) = x[1] /\ x[1] \in 1 .. Field
    BY <2>9, Seats, LinkShape
  <2> QED BY <2>10, Shape
<1> QED BY <1>1 DEF Phase!SharedTarget, Goes, Sits

----------------------------------------------------------------------------
\* There are as many slots, the reset final's apart, as teams and links.

\* A bijection keeps the size.
LEMMA SameSize ==
  ASSUME NEW S, IsFiniteSet(S), NEW T, NEW f \in [S -> T],
         \A x, y \in S : f[x] = f[y] => x = y,
         \A y \in T : \E x \in S : f[x] = y
  PROVE  IsFiniteSet(T) /\ Cardinality(T) = Cardinality(S)
<1>1. f \in Injection(S, T)
  BY DEF Injection, IsInjective
<1>2. f \in Surjection(S, T)
  BY DEF Surjection
<1>3. f \in Bijection(S, T)
  BY <1>1, <1>2 DEF Bijection
<1>4. ExistsBijection(S, T)
  BY <1>3 DEF ExistsBijection
<1> QED BY <1>4, FS_Bijection

\* The slots that are filled, the teams that start there and the sides that lead there.
FilledSlots == (Tree.matches \ {GF2}) \X {1, 2}
TeamSlots == {<<x[2], x[3]>> : x \in Tree.teams}
LinkSlots == {<<l[3], l[4]>> : l \in Tree.links}
Sides == {<<l[1], l[2]>> : l \in Tree.links}

\* One slot per team,
LEMMA TeamCount == ASSUME Generated PROVE IsFiniteSet(TeamSlots) /\ Cardinality(TeamSlots) = Field
<1> DEFINE of(t) == CHOOSE x \in Tree.teams : x[1] = t
           f == [t \in 1 .. Field |-> <<of(t)[2], of(t)[3]>>]
<1>1. /\ \A t \in 1 .. Field : \E x \in Tree.teams : x[1] = t
      /\ \A x, y \in Tree.teams : x[1] = y[1] \/ <<x[2], x[3]>> = <<y[2], y[3]>> => x = y
  BY DEF Generated, WellFormed, OneSource
<1>2. \A t \in 1 .. Field : of(t) \in Tree.teams /\ of(t)[1] = t
  BY <1>1
<1>3. \A x \in Tree.teams : x[1] \in 1 .. Field /\ of(x[1]) = x
  <2>1. \A x \in Tree.teams : x[1] \in 1 .. Field
    BY LinkShape
  <2> HIDE DEF of
  <2> QED BY <1>1, <1>2, <2>1
<1> HIDE DEF of
<1>4. f \in [1 .. Field -> TeamSlots]
  BY <1>2 DEF TeamSlots
<1>5. \A t, u \in 1 .. Field : f[t] = f[u] => t = u
  BY <1>1, <1>2
<1>6. ASSUME NEW s \in TeamSlots PROVE \E t \in 1 .. Field : f[t] = s
  <2>1. PICK x \in Tree.teams : s = <<x[2], x[3]>>
    BY DEF TeamSlots
  <2>2. x[1] \in 1 .. Field /\ f[x[1]] = s
    BY <1>3, <2>1
  <2> QED BY <2>2
<1> HIDE DEF f
<1>7. IsFiniteSet(1 .. Field) /\ Cardinality(1 .. Field) = Field
  BY Shape, FS_Interval
<1>8. IsFiniteSet(TeamSlots) /\ Cardinality(TeamSlots) = Cardinality(1 .. Field)
  BY <1>4, <1>5, <1>6, <1>7, SameSize
<1> QED BY <1>7, <1>8

\* one per link,
LEMMA LinkCount ==
  ASSUME Generated, IsFiniteSet(Sides)
  PROVE  IsFiniteSet(LinkSlots) /\ Cardinality(LinkSlots) = Cardinality(Sides)
<1> DEFINE of(s) == CHOOSE l \in Tree.links : <<l[1], l[2]>> = s
           f == [s \in Sides |-> <<of(s)[3], of(s)[4]>>]
<1>1. \A l, k \in Tree.links :
        <<l[1], l[2]>> = <<k[1], k[2]>> \/ <<l[3], l[4]>> = <<k[3], k[4]>> => l = k
  BY DEF Generated, WellFormed, OneSource
<1>2. \A s \in Sides : of(s) \in Tree.links /\ <<of(s)[1], of(s)[2]>> = s
  BY DEF Sides
<1>3. \A l \in Tree.links : <<l[1], l[2]>> \in Sides /\ of(<<l[1], l[2]>>) = l
  <2>1. \A l \in Tree.links : <<l[1], l[2]>> \in Sides
    BY DEF Sides
  <2> HIDE DEF of
  <2> QED BY <1>1, <1>2, <2>1
<1> HIDE DEF of
<1>4. f \in [Sides -> LinkSlots]
  BY <1>2 DEF LinkSlots
<1>5. ASSUME NEW s \in Sides, NEW t \in Sides, f[s] = f[t] PROVE s = t
  <2>1. of(s) = of(t)
    BY <1>1, <1>2, <1>5
  <2> QED BY <1>2, <2>1
<1>6. ASSUME NEW s \in LinkSlots PROVE \E t \in Sides : f[t] = s
  <2>1. PICK l \in Tree.links : s = <<l[3], l[4]>>
    BY DEF LinkSlots
  <2>2. f[<<l[1], l[2]>>] = s /\ <<l[1], l[2]>> \in Sides
    BY <1>3, <2>1
  <2> QED BY <2>2
<1> HIDE DEF f
<1> QED BY <1>4, <1>5, <1>6, SameSize

\* and no others.
LEMMA SlotCount ==
  ASSUME Generated, IsFiniteSet(Sides)
  PROVE  2 * Cardinality(Tree.matches \ {GF2}) = Field + Cardinality(Sides)
<1> DEFINE M == Tree.matches \ {GF2}
<1>1. IsFiniteSet(M) /\ Cardinality(M) \in Nat
  BY Shape, FS_RemoveElement, FS_CardinalityType
<1>2. IsFiniteSet({1, 2}) /\ Cardinality({1, 2}) = 2
  <2>1. {1, 2} = 1 .. 2
    OBVIOUS
  <2>2. IsFiniteSet(1 .. 2) /\ Cardinality(1 .. 2) = IF 1 > 2 THEN 0 ELSE 2 - 1 + 1
    BY FS_Interval, 1 \in Int, 2 \in Int
  <2> QED BY <2>1, <2>2
<1>3. FilledSlots = TeamSlots \cup LinkSlots
  <2>1. TeamSlots \subseteq FilledSlots
    <3>1. \A x \in Tree.teams : x[2] # GF2
      BY DEF Generated, WellFormed, OneSource
    <3> QED BY <3>1, LinkShape DEF TeamSlots, FilledSlots
  <2>2. LinkSlots \subseteq FilledSlots
    <3>1. \A l \in Tree.links : l[3] # GF2
      BY DEF Generated, WellFormed, SecondLoss
    <3> QED BY <3>1, LinkShape DEF LinkSlots, FilledSlots
  <2>3. ASSUME NEW s \in FilledSlots PROVE s \in TeamSlots \cup LinkSlots
    <3>1. s[1] \in M /\ s[2] \in {1, 2} /\ s = <<s[1], s[2]>>
      BY DEF FilledSlots
    <3>2. \/ \E x \in Tree.teams : <<x[2], x[3]>> = s
          \/ \E l \in Tree.links : <<l[3], l[4]>> = s
      BY <3>1 DEF Generated, WellFormed, OneSource
    <3> QED BY <3>2 DEF TeamSlots, LinkSlots
  <2> QED BY <2>1, <2>2, <2>3
<1>4. TeamSlots \cap LinkSlots = {}
  <2>1. \A x \in Tree.teams, l \in Tree.links : <<x[2], x[3]>> # <<l[3], l[4]>>
    BY DEF Generated, WellFormed, OneSource
  <2> QED BY <2>1 DEF TeamSlots, LinkSlots
<1>5. Cardinality(FilledSlots) = 2 * Cardinality(M)
  <2>1. FilledSlots = M \X {1, 2}
    BY DEF FilledSlots
  <2> HIDE DEF M
  <2>2. Cardinality(M \X {1, 2}) = Cardinality(M) * Cardinality({1, 2})
    BY <1>1, <1>2, FS_Product
  <2> QED BY <1>1, <1>2, <2>1, <2>2
<1>6. Cardinality(FilledSlots) = Cardinality(TeamSlots) + Cardinality(LinkSlots)
  <2>1. /\ IsFiniteSet(TeamSlots) /\ Cardinality(TeamSlots) \in Nat
        /\ IsFiniteSet(LinkSlots) /\ Cardinality(LinkSlots) \in Nat
    BY TeamCount, LinkCount, FS_CardinalityType
  <2>2. Cardinality(TeamSlots \cup LinkSlots) =
          Cardinality(TeamSlots) + Cardinality(LinkSlots) - Cardinality(TeamSlots \cap LinkSlots)
    BY <2>1, FS_Union
  <2>3. Cardinality({}) = 0
    BY FS_EmptySet
  <2>4. Cardinality(FilledSlots) = Cardinality(TeamSlots) + Cardinality(LinkSlots) - 0
    BY <1>3, <1>4, <2>2, <2>3
  <2> QED BY <2>1, <2>4
<1>7. Cardinality(TeamSlots) = Field /\ Cardinality(LinkSlots) = Cardinality(Sides)
  BY TeamCount, LinkCount
<1> QED BY <1>5, <1>6, <1>7

\* The sides of some matches are as many as the matches.
LEMMA SideCount ==
  ASSUME NEW S, IsFiniteSet(S), NEW side
  PROVE  IsFiniteSet({side} \X S) /\ Cardinality({side} \X S) = Cardinality(S)
<1>1. IsFiniteSet({side}) /\ Cardinality({side}) = 1
  BY FS_Singleton
<1>2. IsFiniteSet({side} \X S) /\ Cardinality({side} \X S) = Cardinality({side}) * Cardinality(S)
  BY <1>1, FS_Product
<1> QED BY <1>1, <1>2, FS_CardinalityType

\* So fewer matches knock out than there are teams: n - 1 in a single elimination, n - 2 in
\* the loser bracket of a double one.
LEMMA FieldIsLargest == ASSUME Generated PROVE Phase!FieldIsLarger
<1> DEFINE Rest == Tree.matches \ {GF, GF2}
           Out == {m \in Tree.matches \ Phase!Finals : Goes("loser", m) = None}
           W == {m \in Rest : m[1] = "winner"}
           L == {m \in Rest : m[1] = "loser"}
<1>1. {Sits(s) : s \in Slots} \ {None} = 1 .. Field
  <2>1. ASSUME NEW t \in 1 .. Field PROVE t \in {Sits(s) : s \in Slots} \ {None}
    <3>1. PICK x \in Tree.teams : x[1] = t
      BY DEF Generated, WellFormed, OneSource
    <3>2. Sits(<<x[2], x[3]>>) = t /\ <<x[2], x[3]>> \in Slots
      BY <3>1, Seats, LinkShape
    <3> QED BY <3>2, Shape
  <2>2. \A s \in Slots : Sits(s) \in (1 .. Field) \cup {None}
    BY Seats DEF Sits
  <2> QED BY <2>1, <2>2
<1>2. Cardinality(1 .. Field) = Field /\ Field \in Nat /\ Field >= 2
  BY Shape, FS_Interval
<1>3. /\ IsFiniteSet(Rest) /\ IsFiniteSet(W) /\ IsFiniteSet(L)
      /\ Cardinality(Rest) \in Nat /\ Cardinality(W) \in Nat /\ Cardinality(L) \in Nat
  <2>1. IsFiniteSet(Rest)
    BY Shape, FS_Difference
  <2>2. W \in SUBSET Rest /\ L \in SUBSET Rest
    OBVIOUS
  <2> HIDE DEF Rest, W, L
  <2> QED BY <2>1, <2>2, FS_Subset, FS_CardinalityType
<1>4. Cardinality(Out) < Field
  <2>1. CASE ~Double
    <3>1. PICK f \in Tree.matches : \A m \in Tree.matches : m # f <=> \E l \in Tree.links : l[2] = m
      BY <2>1 DEF Generated, WellFormed, SecondLoss
    <3> DEFINE Others == Tree.matches \ {f}
    <3>2. \A l \in Tree.links : l[1] = "winner" /\ l[2] \in Others
      <4>1. \A l \in Tree.links : l[1] \in {"winner", "loser"} /\ l[2] \in Tree.matches
        BY LinkShape
      <4>2. \A l \in Tree.links : l[1] # "loser"
        BY <2>1 DEF Generated, WellFormed, SecondLoss
      <4> QED BY <3>1, <4>1, <4>2
    <3>3. Sides = {"winner"} \X Others
      <4>1. ASSUME NEW m \in Others PROVE <<"winner", m>> \in Sides
        <5>1. PICK l \in Tree.links : l[2] = m
          BY <3>1
        <5> QED BY <3>2, <5>1 DEF Sides
      <4> QED BY <3>2, <4>1 DEF Sides
    <3>4. /\ IsFiniteSet(Others) /\ Cardinality(Others) = Cardinality(Tree.matches) - 1
          /\ Cardinality(Tree.matches) \in Nat /\ IsFiniteSet(Tree.matches)
      BY Shape, FS_RemoveElement, FS_CardinalityType
    <3> HIDE DEF Others
    <3>5. IsFiniteSet(Sides) /\ Cardinality(Sides) = Cardinality(Others)
      BY <3>3, <3>4, SideCount
    <3>6. Tree.matches \ {GF2} = Tree.matches
      BY <2>1, Shape
    <3>7. 2 * Cardinality(Tree.matches) = Field + (Cardinality(Tree.matches) - 1)
      BY <3>4, <3>5, <3>6, SlotCount
    <3>8. Out \subseteq Tree.matches
      OBVIOUS
    <3> HIDE DEF Out
    <3>9. Cardinality(Out) <= Cardinality(Tree.matches) /\ Cardinality(Out) \in Nat
      BY <3>4, <3>8, FS_Subset, FS_CardinalityType
    <3> QED BY <1>2, <3>4, <3>7, <3>9
  <2>2. CASE Double
    <3>1. Rest = W \cup L /\ W \cap L = {} /\ \A m \in Rest : m \in W <=> m \notin L
      BY Shape
    <3>2. Sides = ({"winner"} \X Rest) \cup ({"loser"} \X W)
      <4>1. ASSUME NEW l \in Tree.links
            PROVE  <<l[1], l[2]>> \in ({"winner"} \X Rest) \cup ({"loser"} \X W)
        <5>1. l[1] \in {"winner", "loser"} /\ l[2] \in Tree.matches
          BY LinkShape
        <5>2. l[2] \notin {GF, GF2} /\ (l[1] = "loser" => l[2][1] = "winner")
          BY DEF Generated, WellFormed, SecondLoss
        <5> QED BY <5>1, <5>2
      <4>2. ASSUME NEW m \in Rest, NEW side \in {"winner", "loser"}, side = "winner" \/ m \in W
            PROVE  <<side, m>> \in Sides
        <5>1. PICK l \in Tree.links : l[1] = side /\ l[2] = m
          BY <2>2, <4>2 DEF Generated, WellFormed, SecondLoss
        <5> QED BY <5>1 DEF Sides
      <4>3. Sides \subseteq ({"winner"} \X Rest) \cup ({"loser"} \X W)
        BY <4>1 DEF Sides
      <4>4. \A m \in Rest : <<"winner", m>> \in Sides
        BY <4>2
      <4>5. \A m \in W : <<"loser", m>> \in Sides /\ m \in Rest
        BY <4>2
      <4> HIDE DEF Rest, W
      <4> QED BY <4>3, <4>4, <4>5
    <3>3. IsFiniteSet(Sides) /\ Cardinality(Sides) = Cardinality(Rest) + Cardinality(W)
      <4> HIDE DEF Rest, W
      <4>1. /\ IsFiniteSet({"winner"} \X Rest) /\ Cardinality({"winner"} \X Rest) = Cardinality(Rest)
            /\ IsFiniteSet({"loser"} \X W) /\ Cardinality({"loser"} \X W) = Cardinality(W)
        BY <1>3, SideCount
      <4>2. ({"winner"} \X Rest) \cap ({"loser"} \X W) = {}
        OBVIOUS
      <4>3. Cardinality({}) = 0
        BY FS_EmptySet
      <4>4. /\ IsFiniteSet(Sides)
            /\ Cardinality(Sides) = Cardinality({"winner"} \X Rest) + Cardinality({"loser"} \X W)
                                      - Cardinality(({"winner"} \X Rest) \cap ({"loser"} \X W))
        BY <3>2, <4>1, FS_Union
      <4>5. Cardinality(Sides) = Cardinality(Rest) + Cardinality(W) - 0
        BY <4>1, <4>2, <4>3, <4>4
      <4> QED BY <1>3, <4>4, <4>5
    <3>4. Cardinality(Rest) = Cardinality(W) + Cardinality(L)
      <4> HIDE DEF Rest, W, L
      <4>1. Cardinality(W \cup L) = Cardinality(W) + Cardinality(L) - Cardinality(W \cap L)
        BY <1>3, FS_Union
      <4>2. Cardinality({}) = 0
        BY FS_EmptySet
      <4>3. Cardinality(Rest) = Cardinality(W) + Cardinality(L) - 0
        BY <3>1, <4>1, <4>2
      <4> QED BY <1>3, <4>3
    <3>5. Cardinality(Tree.matches \ {GF2}) = Cardinality(Rest) + 1
      <4>1. Tree.matches \ {GF2} = Rest \cup {GF} /\ GF \notin Rest
        BY <2>2, Shape
      <4> HIDE DEF Rest
      <4> QED BY <1>3, <4>1, FS_AddElement
    <3>6. Out = L
      <4>1. Tree.matches \ Phase!Finals = Rest
        BY Finals
      <4>2. ASSUME NEW m \in Rest PROVE Goes("loser", m) = None <=> m[1] = "loser"
        <5>1. m \in Tree.matches /\ m[1] \in {"winner", "loser"}
          BY Shape
        <5>2. ASSUME m[1] = "winner" PROVE Goes("loser", m) # None
          <6>1. PICK l \in Tree.links : l[1] = "loser" /\ l[2] = m
            BY <2>2, <5>2 DEF Generated, WellFormed, SecondLoss
          <6>2. Goes("loser", m) = <<l[3], l[4]>> /\ <<l[3], l[4]>> \in Slots
            BY <6>1, Links, LinkShape
          <6> QED BY <6>2, Shape
        <5>3. ASSUME Goes("loser", m) # None PROVE m[1] = "winner"
          <6>1. PICK l \in Tree.links : l[1] = "loser" /\ l[2] = m
            BY <5>1, <5>3, Links
          <6> QED BY <6>1 DEF Generated, WellFormed, SecondLoss
        <5> QED BY <5>1, <5>2, <5>3
      <4> QED BY <4>1, <4>2
    <3>7. 2 * Cardinality(Tree.matches \ {GF2}) = Field + Cardinality(Sides)
      BY <3>3, SlotCount
    <3> HIDE DEF Rest, W, L, Out
    <3>8. Cardinality(Out) = Cardinality(L) /\ 2 * (Cardinality(W) + Cardinality(L) + 1)
            = Field + (Cardinality(W) + Cardinality(L) + Cardinality(W))
      BY <3>3, <3>4, <3>5, <3>6, <3>7
    <3> QED BY <1>2, <1>3, <3>8
  <2> QED BY <2>1, <2>2
<1>5. \A S : Phase!Cardinality(S) = Cardinality(S)
  BY DEF Phase!Cardinality, Cardinality
<1> HIDE DEF Out
<1>6. Cardinality({Sits(s) : s \in Slots} \ {None}) >= 2
  BY <1>1, <1>2
<1>7. Cardinality(Out) < Cardinality({Sits(s) : s \in Slots} \ {None})
  BY <1>1, <1>2, <1>4
<1> QED BY <1>5, <1>6, <1>7, PhaseSlots DEF Phase!FieldIsLarger, Out, Goes, Sits

----------------------------------------------------------------------------
\* The theorems about scheduled phases.

\* A well-formed blueprint, scheduled, is a bracket as BracketPlay assumes it
\* (generate_schedule on the links of elimination_blueprint).
THEOREM ScheduleFits ==
  ASSUME Generated
  PROVE  /\ Phase!Wiring /\ Phase!HasSource /\ Phase!OneSource /\ Phase!FinalsAreLast
         /\ Phase!SharedTarget /\ Phase!SecondLoss /\ Phase!FieldIsLarger
BY IsWired, EverySlotHasSource, EverySlotHasOneSource, FinalsComeLast, TwoTeamsShare,
   LosersDropOne, FieldIsLargest

\* So what is proved of BracketPlay holds of the phases that are generated: whatever is
\* recorded, corrected, replayed or edited without overrides, teams sit where the results
\* put them, nobody is lost or out too early, the phase never gets stuck and the DE ranks
\* are current.
THEOREM ScheduledPhase ==
  ASSUME Generated
  PROVE  Phase!Spec => [](/\ Phase!Advanced /\ Phase!ResetFollowsGrandFinal /\ Phase!OneSeatEach
                          /\ Phase!OutByLosses /\ Phase!NeverStuck /\ Phase!RanksAreCurrent)
<1>1. Phase!Spec => []Phase!Advanced /\ []Phase!ResetFollowsGrandFinal
  BY ScheduleFits, Phase!AlwaysAdvanced, Phase!ResetAlwaysFollows
<1>2. Phase!Spec => []Phase!OneSeatEach /\ []Phase!OutByLosses
  BY ScheduleFits, Phase!OneSeatAlways, Phase!OutByLossesAlways
<1>3. Phase!Spec => []Phase!NeverStuck /\ []Phase!RanksAreCurrent
  BY ScheduleFits, Phase!AlwaysPlayable, Phase!AlwaysRanked
<1> QED BY <1>1, <1>2, <1>3, PTL

\* And, without overrides, it is a knockout with corrections.
THEOREM ScheduledKnockout == ASSUME Generated, ~Override PROVE Phase!Spec => Phase!ImplementsKnockout
BY ScheduleFits, Phase!PlayIsKnockout

\* The invariant of BracketPlay that follows the last seats of the teams.
LEMMA ScheduledLives == ASSUME Generated PROVE Phase!Spec => []Phase!Lives
BY ScheduleFits, Phase!AlwaysLives

----------------------------------------------------------------------------
\* The placements of BracketPlay, read off the rows, are those of the blueprint.

\* The outcomes as _phase_outcomes reads them, 0 while a match is not completed.
Position == [m \in Tree.matches |->
  IF status[m] = "completed" /\ \E p \in {1, 2} : result[<<m, p>>] = "win"
  THEN CHOOSE p \in {1, 2} : result[<<m, p>>] = "win" ELSE 0]
Winner == [m \in Tree.matches |-> IF Position[m] = 0 THEN 0 ELSE seat[<<m, Position[m]>>]]
Loser  == [m \in Tree.matches |-> IF Position[m] = 0 THEN 0 ELSE seat[<<m, 3 - Position[m]>>]]

\* A completed match has a winner and a loser.
LEMMA Outcome ==
  ASSUME Generated, Phase!Lives, ~Override, NEW m \in Tree.matches
  PROVE  IF status[m] = "completed"
         THEN /\ Position[m] \in {1, 2}
              /\ \A p \in {1, 2} : /\ result[<<m, p>>] = "win" <=> p = Position[m]
                                   /\ result[<<m, p>>] = "loss" <=> p = 3 - Position[m]
              /\ Winner[m] = seat[<<m, Position[m]>>] /\ Loser[m] = seat[<<m, 3 - Position[m]>>]
              /\ Winner[m] \in 1 .. Field /\ Loser[m] \in 1 .. Field
         ELSE Position[m] = 0 /\ Winner[m] = 0 /\ Loser[m] = 0
<1>1. CASE status[m] # "completed"
  BY <1>1 DEF Position, Winner, Loser
<1>2. CASE status[m] = "completed"
  <2>1. Phase!TypeOK /\ Phase!Advanced /\ Phase!ResetFollowsGrandFinal /\ Phase!ResetDecided
    BY DEF Phase!Lives, Phase!IInv
  <2>2. PICK p \in {1, 2} : Phase!DecidedBy(m, p)
    <3>1. CASE m \notin Phase!Finals
      BY <1>2, <2>1, <3>1 DEF Phase!Advanced
    <3>2. CASE m \in Phase!Finals
      <4>1. Double /\ m \in {GF, GF2}
        BY <3>2, Finals, Shape
      <4>2. CASE m = GF
        BY <1>2, <2>1, <4>1, <4>2, Finals DEF Phase!ResetFollowsGrandFinal
      <4>3. CASE m = GF2
        BY <1>2, <2>1, <4>1, <4>3, Finals DEF Phase!ResetDecided
      <4> QED BY <4>1, <4>2, <4>3
    <3> QED BY <3>1, <3>2
  <2>3. /\ seat[<<m, 1>>] # None /\ seat[<<m, 2>>] # None
        /\ result[<<m, p>>] = "win" /\ result[<<m, 3 - p>>] = "loss"
    BY <2>2 DEF Phase!DecidedBy, Phase!Full, Phase!Other
  <2>4. \A q \in {1, 2} : seat[<<m, q>>] \in 1 .. Field
    BY <2>1, <2>3, PhaseSlots DEF Phase!TypeOK
  <2>5. \A q \in {1, 2} : (result[<<m, q>>] = "win" <=> q = p) /\ (result[<<m, q>>] = "loss" <=> q = 3 - p)
    BY <2>3
  <2>6. Position[m] = p
    BY <1>2, <2>5 DEF Position
  <2>7. Winner[m] = seat[<<m, p>>] /\ Loser[m] = seat[<<m, 3 - p>>]
    BY <2>6 DEF Winner, Loser
  <2>8. 3 - p \in {1, 2}
    OBVIOUS
  <2> QED BY <1>2, <2>4, <2>5, <2>6, <2>7, <2>8
<1> QED BY <1>1, <1>2

\* The same matches knock out, in the same order.
LEMMA SameStages ==
  ASSUME Generated
  PROVE  /\ Phase!Eliminating = Eliminating(Tree)
         /\ \A m \in Eliminating(Tree) : Phase!Behind(m) = Cumulative(Tree, m)
<1>1. Tree.matches \ Phase!Finals = {m \in Tree.matches : m[1] # "final"}
  BY Finals, Shape
<1>2. ASSUME NEW m \in Tree.matches PROVE Goes("loser", m) = None <=> ~HasNextLoser(Tree, m)
  <2>1. ASSUME NEW l \in Tree.links, l[1] = "loser", l[2] = m PROVE Goes("loser", m) # None
    <3>1. Goes("loser", m) = <<l[3], l[4]>> /\ <<l[3], l[4]>> \in Slots
      BY <2>1, Links, LinkShape
    <3> QED BY <3>1, Shape
  <2>2. ASSUME Goes("loser", m) # None PROVE HasNextLoser(Tree, m)
    BY <2>2, Links DEF HasNextLoser
  <2> QED BY <2>1, <2>2 DEF HasNextLoser
<1>3. Phase!Eliminating = Eliminating(Tree)
  BY <1>1, <1>2 DEF Phase!Eliminating, Eliminating, Goes
<1>4. ASSUME NEW m \in Eliminating(Tree), NEW e \in Eliminating(Tree)
      PROVE  Before(e, m) <=> Stage(Tree)[e] <= Stage(Tree)[m]
  <2>1. e \in Tree.matches /\ m \in Tree.matches
    BY DEF Eliminating
  <2>2. e[1] = m[1]
    <3>1. ASSUME NEW x \in Eliminating(Tree) PROVE x[1] = IF Double THEN "loser" ELSE "winner"
      <4>1. x \in Tree.matches \ {GF, GF2} /\ ~HasNextLoser(Tree, x)
        BY Shape DEF Eliminating
      <4>2. Double /\ x[1] = "winner" => HasNextLoser(Tree, x)
        BY <4>1 DEF Generated, WellFormed, SecondLoss, HasNextLoser
      <4> QED BY <4>1, <4>2, Shape
    <3> QED BY <3>1
  <2>3. Stage(Tree)[e] = e[2] /\ Stage(Tree)[m] = m[2]
    BY <2>1 DEF Stage
  <2> QED BY <2>2, <2>3 DEF Before
<1>5. ASSUME NEW m \in Eliminating(Tree) PROVE Phase!Behind(m) = Cumulative(Tree, m)
  <2>1. {e \in Eliminating(Tree) : Stage(Tree)[e] <= Stage(Tree)[m]} = {e \in Eliminating(Tree) : Before(e, m)}
    BY <1>4
  <2>2. \A S : Phase!Cardinality(S) = Cardinality(S)
    BY DEF Phase!Cardinality, Cardinality
  <2> QED BY <1>3, <2>1, <2>2 DEF Phase!Behind, Cumulative
<1> QED BY <1>3, <1>5

\* The same match decides.
LEMMA SameDecider ==
  ASSUME Generated, Phase!Lives, ~Override
  PROVE  Phase!Deciding = Decider(Tree, Winner, Position)
<1>1. \A m \in Tree.matches : (Winner[m] # 0 <=> status[m] = "completed")
  <2>1. 0 \notin 1 .. Field
    OBVIOUS
  <2> QED BY <2>1, Outcome
<1>2. CASE Double
  <2>1. GF \in Tree.matches /\ GF2 \in Tree.matches /\ GF # GF2
    BY <1>2, Shape
  <2>2. Phase!Deciding = {m \in Tree.matches :
          /\ status[m] = "completed" /\ status[GF] = "completed"
          /\ \/ m = GF /\ result[<<m, 1>>] = "win"
             \/ m = GF2 /\ result[<<GF, 2>>] = "win"}
    BY <1>2, Finals DEF Phase!Deciding
  <2>3. status[GF] = "completed" =>
          (result[<<GF, 1>>] = "win" <=> Position[GF] = 1) /\ (result[<<GF, 2>>] = "win" <=> Position[GF] # 1)
    <3>1. ASSUME status[GF] = "completed"
          PROVE  /\ Position[GF] \in {1, 2}
                 /\ \A p \in {1, 2} : result[<<GF, p>>] = "win" <=> p = Position[GF]
      BY <2>1, <3>1, Outcome
    <3> QED BY <3>1
  <2>4. Decider(Tree, Winner, Position) =
          {m \in {GF, GF2} : Winner[m] # 0 /\ Winner[GF] # 0 /\ (m = GF <=> Position[GF] = 1)}
    BY <2>1 DEF Decider
  <2> QED BY <1>1, <2>1, <2>2, <2>3, <2>4
<1>3. CASE ~Double
  <2>1. PICK f \in Tree.matches : \A m \in Tree.matches :
          (m # f => m[2] < f[2]) /\ (m # f <=> \E l \in Tree.links : l[2] = m)
    BY <1>3 DEF Generated, WellFormed, SecondLoss
  <2>2. GF \notin Tree.matches /\ \A m \in Tree.matches : m[1] = "winner" /\ m[2] \in Nat
    BY <1>3, Shape
  <2>3. \A l \in Tree.links : l[1] = "winner"
    <3>1. \A l \in Tree.links : l[1] \in {"winner", "loser"}
      BY LinkShape
    <3>2. \A l \in Tree.links : l[1] # "loser"
      BY <1>3 DEF Generated, WellFormed, SecondLoss
    <3> QED BY <3>1, <3>2
  <2>4. Eliminating(Tree) = Tree.matches
    BY <2>2, <2>3 DEF Eliminating, HasNextLoser
  <2>5. {m \in Eliminating(Tree) : \A e \in Eliminating(Tree) : e[2] <= m[2]} = {f}
    BY <2>1, <2>2, <2>4
  <2>6. Cardinality({f}) = 1
    BY FS_Singleton
  <2>7. Decider(Tree, Winner, Position) = {m \in {f} : Winner[m] # 0}
    BY <2>2, <2>5, <2>6 DEF Decider
  <2>8. ASSUME NEW m \in Tree.matches PROVE Goes("winner", m) = None <=> m = f
    <3>1. ASSUME Goes("winner", m) # None PROVE m # f
      BY <2>1, <3>1, Links
    <3>2. ASSUME m # f PROVE Goes("winner", m) # None
      <4>1. PICK l \in Tree.links : l[2] = m
        BY <2>1, <3>2
      <4>2. Goes("winner", m) = <<l[3], l[4]>> /\ <<l[3], l[4]>> \in Slots
        BY <2>3, <4>1, Links, LinkShape
      <4> QED BY <4>2, Shape
    <3> QED BY <3>1, <3>2
  <2>9. Phase!Deciding = {m \in Tree.matches : status[m] = "completed" /\ Goes("winner", m) = None}
    BY <1>3, Finals DEF Phase!Deciding, Goes
  <2> QED BY <1>1, <2>7, <2>8, <2>9
<1> QED BY <1>2, <1>3, Shape

\* The lost slots of some matches are those of their losers.
LEMMA LostSlots ==
  ASSUME Generated, Phase!Lives, ~Override, NEW ms \in SUBSET Tree.matches
  PROVE  Phase!Lost(ms) = {<<m, 3 - Position[m]>> : m \in {x \in ms : status[x] = "completed"}}
<1>1. ASSUME NEW s \in Phase!Lost(ms)
      PROVE  s[1] \in ms /\ status[s[1]] = "completed" /\ s = <<s[1], 3 - Position[s[1]]>>
  <2>1. s \in Slots /\ s[1] \in ms /\ status[s[1]] = "completed" /\ result[s] = "loss"
    BY PhaseSlots DEF Phase!Lost
  <2>2. s[1] \in Tree.matches /\ s[2] \in {1, 2} /\ s = <<s[1], s[2]>>
    BY <2>1, PhaseSlots
  <2>3. s[2] = 3 - Position[s[1]]
    BY <2>1, <2>2, Outcome
  <2> QED BY <2>1, <2>2, <2>3
<1>2. ASSUME NEW m \in ms, status[m] = "completed" PROVE <<m, 3 - Position[m]>> \in Phase!Lost(ms)
  <2>1. 3 - Position[m] \in {1, 2} /\ result[<<m, 3 - Position[m]>>] = "loss"
    <3>1. Position[m] \in {1, 2}
      BY <1>2, Outcome
    <3>2. 3 - Position[m] \in {1, 2}
      BY <3>1
    <3>3. \A p \in {1, 2} : result[<<m, p>>] = "loss" <=> p = 3 - Position[m]
      BY <1>2, Outcome
    <3> QED BY <3>2, <3>3
  <2>2. <<m, 3 - Position[m]>> \in Phase!Slots
    BY <2>1, PhaseSlots
  <2> QED BY <1>2, <2>1, <2>2 DEF Phase!Lost
<1> QED BY <1>1, <1>2

\* Every team is seated.
LEMMA AllSeated ==
  ASSUME Generated, Phase!Lives, ~Override PROVE Phase!Cardinality(Phase!Seated) = Field
<1>1. Phase!Seated = Phase!Field
  BY DEF Phase!Lives, Phase!LInv
<1>2. Phase!Field = 1 .. Field
  <2>1. ASSUME NEW t \in 1 .. Field PROVE t \in {Sits(s) : s \in Slots} \ {None}
    <3>1. PICK x \in Tree.teams : x[1] = t
      BY DEF Generated, WellFormed, OneSource
    <3>2. Sits(<<x[2], x[3]>>) = t /\ <<x[2], x[3]>> \in Slots
      BY <3>1, Seats, LinkShape
    <3> QED BY <3>2, Shape
  <2>2. \A s \in Slots : Sits(s) \in (1 .. Field) \cup {None}
    BY Seats DEF Sits
  <2> QED BY <2>1, <2>2, PhaseSlots DEF Phase!Field, Sits
<1>3. Cardinality(1 .. Field) = Field
  BY Shape, FS_Interval
<1>4. \A S : Phase!Cardinality(S) = Cardinality(S)
  BY DEF Phase!Cardinality, Cardinality
<1> QED BY <1>1, <1>2, <1>3, <1>4

\* The three kinds of places, set by set.
LEMMA Agree ==
  ASSUME Generated, Phase!Lives, ~Override
  PROVE  Phase!Placements = elimination_placements(Tree, Field, Winner, Loser, Position)
<1> DEFINE out == {m \in Eliminating(Tree) : Loser[m] # 0}
           decider == Decider(Tree, Winner, Position)
           place(m) == Field - Cumulative(Tree, m) + 1
<1>1. \A m \in Tree.matches : /\ Winner[m] # 0 <=> status[m] = "completed"
                              /\ Loser[m] # 0 <=> status[m] = "completed"
  <2>1. 0 \notin 1 .. Field
    OBVIOUS
  <2> QED BY <2>1, Outcome
<1>2. \A m \in Tree.matches : status[m] = "completed" =>
         /\ Winner[m] = seat[<<m, Position[m]>>]
         /\ Loser[m] = seat[<<m, 3 - Position[m]>>]
         /\ Position[m] \in {1, 2}
         /\ \A p \in {1, 2} : result[<<m, p>>] = "win" <=> p = Position[m]
  BY Outcome
<1>3. Phase!Deciding = decider /\ decider \subseteq Tree.matches
  <2>1. Phase!Deciding \subseteq Tree.matches
    BY DEF Phase!Deciding
  <2> QED BY <2>1, SameDecider
<1>4. \A m \in decider : status[m] = "completed"
  BY <1>3 DEF Phase!Deciding
<1>5. Eliminating(Tree) \in SUBSET Tree.matches /\ decider \cap Phase!Finals \in SUBSET Tree.matches
  BY <1>3 DEF Eliminating
<1>6. decider \cap Phase!Finals = decider \cap {GF, GF2}
  BY <1>3, Finals
<1> HIDE DEF decider
<1>7. {<<seat[s], Phase!Cardinality(Phase!Seated) - Phase!Behind(s[1]) + 1>> : s \in Phase!Lost(Phase!Eliminating)}
        = {<<Loser[m], place(m)>> : m \in out}
  <2>1. Phase!Lost(Phase!Eliminating) =
          {<<m, 3 - Position[m]>> : m \in {x \in Eliminating(Tree) : status[x] = "completed"}}
    BY <1>5, SameStages, LostSlots
  <2>2. out = {x \in Eliminating(Tree) : status[x] = "completed"}
    BY <1>1, <1>5
  <2>3. ASSUME NEW m \in out
        PROVE  /\ seat[<<m, 3 - Position[m]>>] = Loser[m]
               /\ Phase!Cardinality(Phase!Seated) - Phase!Behind(m) + 1 = place(m)
    <3>1. seat[<<m, 3 - Position[m]>>] = Loser[m]
      BY <1>2, <1>5, <2>2
    <3>2. Phase!Cardinality(Phase!Seated) = Field /\ Phase!Behind(m) = Cumulative(Tree, m)
      BY AllSeated, SameStages
    <3> QED BY <3>1, <3>2
  <2> DEFINE row(s) == <<seat[s], Phase!Cardinality(Phase!Seated) - Phase!Behind(s[1]) + 1>>
             lost(m) == <<m, 3 - Position[m]>>
  <2>4. \A m \in out : row(lost(m)) = <<Loser[m], place(m)>>
    BY <2>3
  <2>5. Phase!Lost(Phase!Eliminating) = {lost(m) : m \in out}
    BY <2>1, <2>2
  <2> HIDE DEF out, place, row, lost
  <2>6. {row(s) : s \in Phase!Lost(Phase!Eliminating)} = {<<Loser[m], place(m)>> : m \in out}
    BY <2>4, <2>5
  <2> QED BY <2>6 DEF row
<1>8. {<<seat[s], 2>> : s \in Phase!Lost(Phase!Deciding \cap Phase!Finals)}
        = {<<Loser[m], 2>> : m \in decider \cap {GF, GF2}}
  <2>1. Phase!Lost(decider \cap Phase!Finals) =
          {<<m, 3 - Position[m]>> : m \in {x \in decider \cap Phase!Finals : status[x] = "completed"}}
    BY <1>5, LostSlots
  <2>2. {x \in decider \cap Phase!Finals : status[x] = "completed"} = decider \cap {GF, GF2}
    BY <1>4, <1>6
  <2>3. \A m \in decider \cap {GF, GF2} : seat[<<m, 3 - Position[m]>>] = Loser[m]
    BY <1>2, <1>3, <1>4
  <2> DEFINE row(s) == <<seat[s], 2>>
             lost(m) == <<m, 3 - Position[m]>>
             finals == decider \cap {GF, GF2}
  <2>4. \A m \in finals : row(lost(m)) = <<Loser[m], 2>>
    BY <2>3
  <2>5. Phase!Lost(Phase!Deciding \cap Phase!Finals) = {lost(m) : m \in finals}
    BY <1>3, <2>1, <2>2
  <2> HIDE DEF finals, row, lost
  <2>6. {row(s) : s \in Phase!Lost(Phase!Deciding \cap Phase!Finals)} = {<<Loser[m], 2>> : m \in finals}
    BY <2>4, <2>5
  <2> QED BY <2>6 DEF row, finals
<1>9. {<<seat[s], 1>> : s \in {x \in Phase!Slots : x[1] \in Phase!Deciding /\ result[x] = "win"}}
        = {<<Winner[m], 1>> : m \in decider}
  <2>1. ASSUME NEW s \in Phase!Slots, s[1] \in decider, result[s] = "win"
        PROVE  seat[s] = Winner[s[1]]
    <3>1. s[1] \in Tree.matches /\ s[2] \in {1, 2} /\ s = <<s[1], s[2]>>
      BY PhaseSlots
    <3>2. status[s[1]] = "completed"
      BY <1>4, <2>1
    <3>3. result[<<s[1], s[2]>>] = "win"
      BY <2>1, <3>1
    <3>4. s[2] = Position[s[1]]
      BY <1>2, <3>1, <3>2, <3>3
    <3>5. Winner[s[1]] = seat[<<s[1], s[2]>>]
      BY <1>2, <3>1, <3>2, <3>4
    <3> QED BY <3>1, <3>5
  <2>2. ASSUME NEW m \in decider
        PROVE  \E s \in Phase!Slots : s[1] = m /\ result[s] = "win" /\ seat[s] = Winner[m]
    <3>1. m \in Tree.matches /\ status[m] = "completed"
      BY <1>3, <1>4
    <3>2. Position[m] \in {1, 2} /\ result[<<m, Position[m]>>] = "win" /\ Winner[m] = seat[<<m, Position[m]>>]
      BY <1>2, <3>1
    <3>3. <<m, Position[m]>> \in Phase!Slots
      BY <3>1, <3>2, PhaseSlots
    <3> QED BY <3>2, <3>3
  <2> QED BY <1>3, <2>1, <2>2
<1>10. elimination_placements(Tree, Field, Winner, Loser, Position) =
         {<<Loser[m], place(m)>> : m \in out} \cup {<<Winner[m], 1>> : m \in decider}
           \cup {<<Loser[m], 2>> : m \in decider \cap {GF, GF2}}
  BY DEF elimination_placements, decider
<1>11. Phase!Placements =
         {<<seat[s], Phase!Cardinality(Phase!Seated) - Phase!Behind(s[1]) + 1>> : s \in Phase!Lost(Phase!Eliminating)}
           \cup {<<seat[s], 2>> : s \in Phase!Lost(Phase!Deciding \cap Phase!Finals)}
           \cup {<<seat[s], 1>> : s \in {x \in Phase!Slots : x[1] \in Phase!Deciding /\ result[x] = "win"}}
  BY DEF Phase!Placements
<1> HIDE DEF out, place
<1> QED BY <1>7, <1>8, <1>9, <1>10, <1>11

\* Without overrides, the places a phase shows at any time are those elimination_placements
\* computes from its results (phase_placements), corrections included.
THEOREM PlacementsAgree ==
  ASSUME Generated, ~Override
  PROVE  Phase!Spec => [](Phase!Placements = elimination_placements(Tree, Field, Winner, Loser, Position))
<1>1. Phase!Lives => Phase!Placements = elimination_placements(Tree, Field, Winner, Loser, Position)
  BY Agree
<1> QED BY <1>1, ScheduledLives, PTL
============================================================================
