---------------------------- MODULE BracketPlay ----------------------------
(***************************************************************************)
(* The elimination phase of an event as modules/events/service.py runs it  *)
(* on the matches that elimination_blueprint generated: recording a        *)
(* result, advancing the teams, correcting a result, editing a match, and  *)
(* the phase status and DE rows that follow.  One action is one request,   *)
(* i.e. one database transaction; a refused request rolls back and is no   *)
(* step.                                                                   *)
(*                                                                         *)
(* The bracket is a constant, so that what is proved holds for every one   *)
(* that satisfies Wiring; MCBracketPlay takes it from BracketTree.  A slot *)
(* is a pair <<match, position>>.  The database session does not autoflush *)
(* and _load_match reloads with populate_existing, so a match loaded twice *)
(* in a request loses what the request changed on it before: see Taken,    *)
(* TakenInReset and RecordGrandFinal.                                      *)
(***************************************************************************)
EXTENDS Integers, FiniteSets

CONSTANTS
  Teams,       \* the teams of the phase
  Matches,     \* the matches the blueprint has
  GrandFinal,  \* the grand final and the reset final, members of Matches,
  ResetFinal,  \*   or None in a single elimination
  None,        \* no team, no slot
  winnerTo,    \* slot the winner (loser) of a match moves to, or None
  loserTo,
  entry,       \* team of every slot when the schedule is generated, or None
  stage,       \* stage[m]: order in which the rounds knock teams out
  wave,        \* wave[m]: the depth of m, more than that of the matches feeding it
  Override     \* may officials set "completed" and "cancelled" by hand?

Slots == {<<m, p>> : m \in Matches, p \in {1, 2}}
Finals == {GrandFinal, ResetFinal}

Status == {"scheduled", "running", "completed", "cancelled"}   \* "called" is as "running"
Open == {"scheduled", "running"}
PhaseStatus == {"draft", "scheduled", "live", "completed"}

\* What elimination_blueprint guarantees of the links it builds (BracketTree).
ASSUME Wiring ==
  /\ None \notin Teams /\ None \notin Slots /\ None \notin Matches
  /\ IsFiniteSet(Teams) /\ IsFiniteSet(Matches)
  /\ \/ GrandFinal = None /\ ResetFinal = None
     \/ GrandFinal \in Matches /\ ResetFinal \in Matches /\ GrandFinal # ResetFinal
  /\ winnerTo \in [Matches -> Slots \cup {None}]
  /\ loserTo \in [Matches -> Slots \cup {None}]
  /\ entry \in [Slots -> Teams \cup {None}]
  /\ stage \in [Matches -> Nat]
  /\ wave \in [Matches -> Nat]
  /\ Override \in BOOLEAN

\* Every slot, the reset final's apart, has a source: a team placed up front or one
\* side of one match of an earlier wave.
ASSUME HasSource ==
  /\ \A s \in Slots : \/ s[1] = ResetFinal \/ entry[s] # None
                     \/ \E m \in Matches : s \in {winnerTo[m], loserTo[m]}
  /\ \A m \in Matches : \A s \in {winnerTo[m], loserTo[m]} \ {None} : wave[m] < wave[s[1]]

\* It has one source only.
ASSUME OneSource ==
  /\ \A a, b \in Matches :
       /\ winnerTo[a] # None /\ winnerTo[a] = winnerTo[b] => a = b
       /\ loserTo[a] # None /\ loserTo[a] = loserTo[b] => a = b
       /\ winnerTo[a] # None => winnerTo[a] # loserTo[b]
  /\ \A m \in Matches : winnerTo[m] # None => entry[winnerTo[m]] = None
  /\ \A m \in Matches : loserTo[m] # None => entry[loserTo[m]] = None
  /\ \A s, t \in Slots : entry[s] # None /\ entry[s] = entry[t] => s = t

\* The finals hand on through the reset final only, which nothing else leads to; a
\* single elimination has a last match.
ASSUME FinalsAreLast ==
  /\ \A m \in Finals \cap Matches : winnerTo[m] = None /\ loserTo[m] = None
  /\ \A m \in Matches : \A s \in {winnerTo[m], loserTo[m]} \ {None} : s[1] # ResetFinal
  /\ ResetFinal # None => entry[<<ResetFinal, 1>>] = None /\ entry[<<ResetFinal, 2>>] = None
  /\ GrandFinal = None => \E m \in Matches : winnerTo[m] = None

\* The two links of a match lead into one match only if its two teams are the field.
ASSUME SharedTarget ==
  \A m \in Matches : winnerTo[m] # None /\ loserTo[m] # None /\ winnerTo[m][1] = loserTo[m][1]
                     => entry[<<m, 1>>] # None /\ entry[<<m, 2>>] # None

\* How often the team of a slot has lost by then: in a double elimination once, unless
\* the loser of its match drops to another one or it is the first of the grand final.
LossesAt(s) ==
  IF \/ GrandFinal = None \/ s = <<GrandFinal, 1>>
     \/ s[1] \notin Finals /\ loserTo[s[1]] # None
  THEN 0 ELSE 1

\* "Nobody is out before their second loss" (brackets.py:24), nor after it: winners
\* stay on their level and losers drop one.  A single elimination has no drop-downs.
ASSUME SecondLoss ==
  /\ GrandFinal = None => \A m \in Matches : loserTo[m] = None
  /\ \A s \in Slots : entry[s] # None => LossesAt(s) = 0
  /\ \A m \in Matches \ Finals :
       /\ GrandFinal # None => winnerTo[m] # None
       /\ winnerTo[m] # None => LossesAt(winnerTo[m]) = LossesAt(<<m, 1>>)
       /\ loserTo[m] # None => LossesAt(loserTo[m]) = 1

\* At least two teams, of which the matches before the finals knock out all but one or
\* two.
ASSUME FieldIsLarger ==
  /\ Cardinality({entry[s] : s \in Slots} \ {None}) >= 2
  /\ Cardinality({m \in Matches \ Finals : loserTo[m] = None})
       < Cardinality({entry[s] : s \in Slots} \ {None})

VARIABLES
  status,   \* ScheduledMatch.status
  seat,     \* MatchParticipant.team_id of every slot, None: no such row
  result,   \* MatchParticipant.result: "none", "win", "loss" or "replay"
  phase,    \* EventPhase.status
  deRank    \* DEResult rows: de_rank, 0 for a row without a rank, -1: no row

vars == <<status, seat, result, phase, deRank>>

----------------------------------------------------------------------------
\* Reading the bracket.

Other(p) == 3 - p
Full(m) == seat[<<m, 1>>] # None /\ seat[<<m, 2>>] # None

\* The matches, finals apart, that knock a team out.
Eliminating == {m \in Matches \ Finals : loserTo[m] = None}

\* The teams of the phase; one knocked out by m is placed behind every team that
\* is still in after that round.
Seated == {seat[s] : s \in Slots} \ {None}
Behind(m) == Cardinality({e \in Eliminating : stage[e] <= stage[m]})

\* Faulty variant: the grand final always decides.
DecidingEarly == {m \in Matches : status[m] = "completed" /\ m = GrandFinal}

\* The completed match that decides the phase: the grand final, the reset final if
\* position 2 won the grand final, or the final of a single elimination.
Deciding ==
  {m \in Matches :
     /\ status[m] = "completed"
     /\ IF GrandFinal = None
        THEN winnerTo[m] = None
        ELSE /\ status[GrandFinal] = "completed"
             /\ \/ m = GrandFinal /\ result[<<m, 1>>] = "win"
                \/ m = ResetFinal /\ result[<<GrandFinal, 2>>] = "win"}

\* elimination_placements on the rows of the phase, as <<team, place>> pairs.
Lost(ms) == {s \in Slots : s[1] \in ms /\ status[s[1]] = "completed" /\ result[s] = "loss"}
Placements ==
  {<<seat[s], Cardinality(Seated) - Behind(s[1]) + 1>> : s \in Lost(Eliminating)}
    \cup {<<seat[s], 2>> : s \in Lost(Deciding \cap Finals)}
    \cup {<<seat[s], 1>> : s \in {x \in Slots : x[1] \in Deciding /\ result[x] = "win"}}

\* The place of a team in such a set, 0 if it has none yet.  (A team that Override
\* placed twice keeps one of its places.)
PlaceOf(places, t) == IF \E q \in places : q[1] = t
                      THEN (CHOOSE q \in places : q[1] = t)[2] ELSE 0

----------------------------------------------------------------------------
\* What a recorded result does to the rows.

\* Faulty variants: nothing is refused; only the winner's target is looked at.
MayMoveAlways(m) == TRUE
MayMoveWinner(m) == winnerTo[m] # None => status[winnerTo[m][1]] # "completed"

\* _place_team refuses a target that is over.
MayMove(m) == \A s \in {winnerTo[m], loserTo[m]} \ {None} : status[s[1]] # "completed"

\* _place_team for winner and loser, on the rows st: the slots that get a team.  A
\* winner and loser that move to the same match (two teams) load it twice, and a
\* row that the first call changed in place is lost.
Taken(st, m) ==
  {s \in {winnerTo[m], loserTo[m]} \ {None} :
     ~ /\ s = winnerTo[m]
       /\ loserTo[m] # None /\ loserTo[m][1] = s[1]
       /\ st[s] # None}

\* Faulty variant: only the winner moves on.
MovedWinnerOnly(st, m, p) ==
  [s \in Slots |-> IF s = winnerTo[m] THEN seat[<<m, p>>] ELSE st[s]]

Moved(st, m, p) ==
  [s \in Slots |-> IF s \notin Taken(st, m) THEN st[s]
                   ELSE IF s = winnerTo[m] THEN seat[<<m, p>>] ELSE seat[<<m, Other(p)>>]]

\* _remove_team for the old winner and loser: their rows in the next matches go.
\* Position p is the new winner, the old loser.
Cleared(m, p) ==
  [s \in Slots |->
     IF \/ winnerTo[m] # None /\ s[1] = winnerTo[m][1] /\ seat[s] = seat[<<m, Other(p)>>]
        \/ loserTo[m] # None /\ s[1] = loserTo[m][1] /\ seat[s] = seat[<<m, p>>]
     THEN None ELSE seat[s]]

\* Faulty variant: only position 1 is filled.
TakenInResetFirst(st) == {<<ResetFinal, 1>>}

\* The grand final fills the reset final, same positions.  The reset final is
\* loaded by each of the two calls: as above, a row in position 1 stays.
TakenInReset(st) == {<<ResetFinal, p>> : p \in {q \in {1, 2} : q = 2 \/ st[<<ResetFinal, q>>] = None}}
ResetFilled(st) == [s \in Slots |-> IF s \in TakenInReset(st) THEN seat[<<GrandFinal, s[2]>>]
                                    ELSE st[s]]
ResetCleared == [s \in Slots |-> IF s[1] = ResetFinal THEN None ELSE seat[s]]

\* Results after match m was won by position p: rows just placed and rows that are
\* gone have none.
Results(m, p, taken) ==
  [s \in Slots |-> IF s = <<m, p>> THEN "win"
                   ELSE IF s = <<m, Other(p)>> THEN "loss"
                   ELSE IF s \in taken \/ seat'[s] = None THEN "none"
                   ELSE result[s]]

\* uq_match_participant_team.  A request that breaks it fails and is rolled back.
OneRowPerTeam == \A m \in Matches : seat[<<m, 1>>] = seat[<<m, 2>>] => seat[<<m, 1>>] = None

----------------------------------------------------------------------------
\* Requests.

\* Is the request a correction, i.e. is there a recorded winner already?
HasWinner(m) == status[m] = "completed" /\ \E p \in {1, 2} : result[<<m, p>>] = "win"

\* A first result: nothing is taken back, the teams advance.
RecordMatch(m, p) ==
  /\ m \notin Finals
  /\ ~HasWinner(m)
  /\ MayMove(m)
  /\ seat' = Moved(seat, m, p)
  /\ result' = Results(m, p, Taken(seat, m))
  /\ status' = [status EXCEPT ![m] = "completed"]

\* The winner-bracket side won: the reset final is not needed, whatever its state.
\* The loser-bracket side won: both play the reset final.  The "scheduled" the
\* code assigns to it is overwritten when _place_team loads it again.
RecordGrandFinal(p) ==
  /\ ~HasWinner(GrandFinal)
  /\ \/ /\ p = 1
        /\ seat' = seat
        /\ result' = Results(GrandFinal, p, {})
        /\ status' = [status EXCEPT ![GrandFinal] = "completed", ![ResetFinal] = "cancelled"]
     \/ /\ p = 2
        /\ status[ResetFinal] # "completed"
        /\ seat' = ResetFilled(seat)
        /\ result' = Results(GrandFinal, p, TakenInReset(seat))
        /\ status' = [status EXCEPT ![GrandFinal] = "completed"]

\* The reset final hands nobody on, first result or correction.
RecordResetFinal(p) ==
  /\ result[<<ResetFinal, p>>] = "win" => status[ResetFinal] # "completed"
  /\ seat' = seat
  /\ result' = Results(ResetFinal, p, {})
  /\ status' = [status EXCEPT ![ResetFinal] = "completed"]

\* Another winner for a completed match: its teams are taken out of the matches it
\* fed, which must not be over, and advance anew.
CorrectMatch(m, p) ==
  /\ m \notin Finals
  /\ HasWinner(m) /\ result[<<m, p>>] # "win"
  /\ MayMove(m)
  /\ seat' = Moved(Cleared(m, p), m, p)
  /\ result' = Results(m, p, Taken(Cleared(m, p), m))
  /\ UNCHANGED status

\* Faulty variant: the reset final keeps its status when it is filled after all.
CorrectGrandFinalStale(p) ==
  /\ HasWinner(GrandFinal) /\ result[<<GrandFinal, p>>] # "win"
  /\ status[ResetFinal] # "completed"
  /\ seat' = IF p = 1 THEN ResetCleared ELSE ResetFilled(ResetCleared)
  /\ result' = Results(GrandFinal, p, TakenInReset(ResetCleared))
  /\ status' = [status EXCEPT ![ResetFinal] = IF p = 1 THEN "cancelled" ELSE @]

\* Faulty variant: a reset final that has been played is cancelled.
CorrectGrandFinalPlayed(p) ==
  /\ HasWinner(GrandFinal) /\ result[<<GrandFinal, p>>] # "win"
  /\ seat' = IF p = 1 THEN ResetCleared ELSE ResetFilled(ResetCleared)
  /\ result' = Results(GrandFinal, p, TakenInReset(ResetCleared))
  /\ status' = [status EXCEPT ![ResetFinal] = IF p = 1 THEN "cancelled" ELSE "scheduled"]

\* The undo is flushed, so here the reset final really is "scheduled" again.
CorrectGrandFinal(p) ==
  /\ HasWinner(GrandFinal) /\ result[<<GrandFinal, p>>] # "win"
  /\ status[ResetFinal] # "completed"
  /\ seat' = IF p = 1 THEN ResetCleared ELSE ResetFilled(ResetCleared)
  /\ result' = Results(GrandFinal, p, TakenInReset(ResetCleared))
  /\ status' = [status EXCEPT ![ResetFinal] = IF p = 1 THEN "cancelled" ELSE "scheduled"]

\* The winner already recorded, e.g. new scores: no team moves.
RecordSame(m, p) ==
  /\ HasWinner(m) /\ result[<<m, p>>] = "win"
  /\ UNCHANGED <<status, seat, result>>

\* Faulty variant: a team whose knock-out was corrected keeps its rank.
RankKept(places, t) == IF PlaceOf(places, t) = 0 /\ deRank[t] > 0 THEN deRank[t]
                       ELSE PlaceOf(places, t)

\* The rank that sync_de_results writes: none while the team is in the bracket.
Rank(places, t) == PlaceOf(places, t)

\* _complete_if_decided and, in a double elimination, sync_de_results.
Sync ==
  \E places \in {Placements'} :
      /\ phase' = IF \E q \in places : q[2] = 1 THEN "completed"
                  ELSE IF phase \in {"draft", "scheduled"} THEN "live" ELSE phase
      /\ deRank' = IF GrandFinal = None THEN deRank
                   ELSE [t \in Teams |-> IF t \in Seated' THEN Rank(places, t)
                                         ELSE deRank[t]]

\* record_match_result: position p of match m won.
RecordResult(m, p) ==
  /\ status[m] # "cancelled"
  /\ Full(m)
  /\ \/ RecordMatch(m, p)
     \/ m = GrandFinal /\ RecordGrandFinal(p)
     \/ m = ResetFinal /\ RecordResetFinal(p)
     \/ CorrectMatch(m, p)
     \/ m = GrandFinal /\ CorrectGrandFinal(p)
     \/ RecordSame(m, p)
  /\ OneRowPerTeam'
  /\ Sync

\* Faulty variant: a match that still waits for a team is replayed.
ReplayHalf(m) ==
  /\ status[m] \notin {"completed", "cancelled"}
  /\ result' = [result EXCEPT ![<<m, 1>>] = "replay", ![<<m, 2>>] = "replay"]
  /\ UNCHANGED <<status, seat, phase, deRank>>

\* apply_head_to_head on a tie nothing breaks: the match is to be played again.
Replay(m) ==
  /\ status[m] \notin {"completed", "cancelled"}
  /\ Full(m)
  /\ result' = [result EXCEPT ![<<m, 1>>] = "replay", ![<<m, 2>>] = "replay"]
  /\ UNCHANGED <<status, seat, phase, deRank>>

\* update_scheduled_match: an official edits the status of a match.  Without
\* Override they only call matches that are open.
EditMatch(m, st) ==
  /\ Override \/ {status[m], st} \subseteq Open
  /\ status' = [status EXCEPT ![m] = st]
  /\ UNCHANGED <<seat, result, phase, deRank>>

\* update_phase: any status.
EditPhase(st) ==
  /\ phase' = st
  /\ UNCHANGED <<status, seat, result, deRank>>

\* generate_schedule: the matches of a fresh bracket, no DE row yet.
Init == /\ status = [m \in Matches |-> "scheduled"]
        /\ seat = entry
        /\ result = [s \in Slots |-> "none"]
        /\ phase = "scheduled"
        /\ deRank = [t \in Teams |-> -1]

\* generate_schedule with replace_existing, at any time: the old matches and, in a
\* double elimination, the old DE rows are deleted.
Regenerate ==
  /\ status' = [m \in Matches |-> "scheduled"]
  /\ seat' = entry
  /\ result' = [s \in Slots |-> "none"]
  /\ phase' = "scheduled"
  /\ deRank' = IF GrandFinal = None THEN deRank ELSE [t \in Teams |-> -1]

Next == \/ \E m \in Matches, p \in {1, 2} : RecordResult(m, p)
        \/ \E m \in Matches : Replay(m)
        \/ \E m \in Matches, st \in Status : EditMatch(m, st)
        \/ \E st \in PhaseStatus : EditPhase(st)
        \/ Regenerate

Spec == Init /\ [][Next]_vars

----------------------------------------------------------------------------
\* Every variable stays in its range; a slot without a row has no result.
TypeOK == /\ status \in [Matches -> Status]
          /\ seat \in [Slots -> Teams \cup {None}]
          /\ result \in [Slots -> {"none", "win", "loss", "replay"}]
          /\ phase \in PhaseStatus
          /\ \A s \in Slots : seat[s] = None => result[s] = "none"

\* A recorded result has reached the next matches, and only a recorded one: the
\* winner and the loser of a completed match sit where its links lead, and while
\* it is not completed nobody does (_advance, _undo_advancement).  By-hand
\* overrides are the officials' own responsibility, hence ~Override.
DecidedBy(m, p) == /\ Full(m)
                   /\ result[<<m, p>>] = "win" /\ result[<<m, Other(p)>>] = "loss"
ReachedNext(m, p) ==
  /\ winnerTo[m] # None => seat[winnerTo[m]] = seat[<<m, p>>]
  /\ loserTo[m] # None => seat[loserTo[m]] = seat[<<m, Other(p)>>]
Advanced ==
  ~Override => \A m \in Matches \ Finals :
    IF status[m] = "completed"
    THEN \E p \in {1, 2} : DecidedBy(m, p) /\ ReachedNext(m, p)
    ELSE \A s \in {winnerTo[m], loserTo[m]} \ {None} : seat[s] = None

\* The reset final mirrors the grand final: empty while that is undecided,
\* cancelled when position 1 won it, filled and never cancelled when position 2
\* won (_advance and _undo_advancement for the finals).
ResetFollowsGrandFinal ==
  ~Override /\ GrandFinal # None =>
    LET empty == \A p \in {1, 2} : seat[<<ResetFinal, p>>] = None
    IN  IF status[GrandFinal] # "completed"
        THEN status[ResetFinal] \in Open /\ empty
        ELSE \/ DecidedBy(GrandFinal, 1) /\ status[ResetFinal] = "cancelled" /\ empty
             \/ /\ DecidedBy(GrandFinal, 2)
                /\ status[ResetFinal] # "cancelled"
                /\ \A p \in {1, 2} : seat[<<ResetFinal, p>>] = seat[<<GrandFinal, p>>]

\* No team is lost and none is in the bracket twice: a team without a place sits
\* in exactly one match that is still to be played, a placed team in none.
OpenSeats(t) == {s \in Slots : seat[s] = t /\ status[s[1]] \in Open}
Placed == {q[1] : q \in Placements}
OneSeatEach ==
  ~Override => \A t \in Teams : t \in Seated =>
                 Cardinality(OpenSeats(t)) = IF t \in Placed THEN 0 ELSE 1

\* "Nobody is out before their second loss" (brackets.py:24), corrections included:
\* a team has a place other than the first exactly if it has lost twice (once in a
\* single elimination).
Losses(t) == Cardinality({s \in Lost(Matches) : seat[s] = t})
OutByLosses ==
  ~Override => \A t \in Seated :
    (Losses(t) = IF GrandFinal = None THEN 1 ELSE 2) <=> \E q \in Placements : q[1] = t /\ q[2] # 1

\* Whatever is recorded, corrected and replayed, in whatever order, the losses are
\* those of a knockout: a first result is one between two teams that are in, a
\* correction leads where the other result would have led, and nothing else makes a
\* team lose (_advance, _undo_advancement).
K == INSTANCE Knockout WITH
       field <- Seated,
       lives <- IF GrandFinal = None THEN 1 ELSE 2,
       losses <- [t \in Teams |-> Losses(t)]
ImplementsKnockout == K!CorrectedSpec

\* The phase cannot get stuck: it has a champion or a match both of whose teams
\* are known and whose result can be recorded.
NeverStuck ==
  ~Override => \/ \E q \in Placements : q[2] = 1
               \/ \E m \in Matches : status[m] \in Open /\ Full(m)

\* The DE rows are the placements of the bracket as it stands, after corrections
\* too (sync_de_results), from the first recorded result on.
RanksAreCurrent ==
  ~Override /\ GrandFinal # None =>
    \/ \A t \in Teams : deRank[t] = -1
    \/ \A t \in Seated : deRank[t] = PlaceOf(Placements, t)

\* A completed match is locked: whatever happens elsewhere, overrides included,
\* its teams do not change while it is completed.
CompletedIsLocked ==
  [][\A m \in Matches : status[m] = "completed" /\ status'[m] = "completed" =>
       \A p \in {1, 2} : seat'[<<m, p>>] = seat[<<m, p>>]]_vars

\* Even when officials reopen matches by hand, a newly recorded winner and loser
\* take the slots the links name in the same step.
RecordedMovesOn ==
  [][\A m \in Matches \ Finals, p \in {1, 2} :
       DecidedBy(m, p)' /\ result[<<m, p>>] # "win" => ReachedNext(m, p)']_vars

\* "First loss for the winner-bracket side: both play the reset final"
\* (service.py:780-781): when the recorded winner of the grand final changes from
\* position 1 to position 2, the reset final is there to be played.
ResetIsPlayed ==
  [][GrandFinal # None /\ result[<<GrandFinal, 1>>] = "win" /\ DecidedBy(GrandFinal, 2)'
       => status'[ResetFinal] # "cancelled"]_vars
============================================================================
