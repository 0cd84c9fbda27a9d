---------------------------- MODULE OfflineQueue ----------------------------
(***************************************************************************)
(* The offline queue for score entries of one browser                      *)
(* (frontend/src/lib/offlineQueue.ts and hooks/useOfflineQueue.ts), the    *)
(* interceptors that fill it (lib/api.ts), the list that shows it          *)
(* (components/PendingScores.tsx), the service worker that answers reads   *)
(* with what it kept (sw.ts), and the server's create_match, which records *)
(* a run once per idempotency key.                                         *)
(*                                                                         *)
(* The tabs of the browser share the queue in IndexedDB and the session;   *)
(* each has a sync loop of its own.  Every get and set of IndexedDB, every *)
(* request and every statement of create_match that others can see is a    *)
(* step.  A request may be answered, lost, or served after its sender gave *)
(* up on it.  The loop takes the entries of its list in any order.         *)
(***************************************************************************)
EXTENDS Naturals, Sequences, FiniteSets

CONSTANTS
  Scores,      \* what is entered; each has an idempotency key of its own
  Tabs, Users,
  Slots,       \* a team in a match, or a team and a round number
  slot,        \* the slot of every score
  Scheduled,   \* the scores of a scheduled match (EventScoringPage)
  Seeding,     \* the slots of official seeding rounds
  juror,       \* who is signed in at the start
  NoUser, NoEntry,
  MaxTroubles  \* bound: scores entered here or elsewhere, requests that fail,
               \* tabs that close, connections that drop, sign-outs and retries,
               \* all together

ASSUME Instance ==
  /\ slot \in [Scores -> Slots] /\ Scheduled \subseteq Scores /\ Seeding \subseteq Slots
  /\ juror \in Users /\ NoUser \notin Users /\ Tabs \cap {"form", "nobody"} = {}
  /\ \A s \in Scores \ Scheduled : slot[s] \in Seeding  \* entered on ScoreEntryPage
  /\ "elsewhere" \notin Scores  \* a run of another device
  /\ MaxTroubles \in Nat

VARIABLES
  online,     \* navigator.onLine
  user,       \* authStore.user, and the owner of the access token
  form,       \* what the juror was told about a score
  queue,      \* the IndexedDB store
  shown,      \* the failures a tab may still list for an entry
  run,        \* syncQueuedScores of every tab
  button,     \* updateQueuedScore of a pressed button, between get and set
  net,        \* the POSTs under way
  stored,     \* the runs the server recorded for a score, by entered_by
  foreign,    \* the slots another device recorded a run for
  copies,     \* the lists of runs the service worker keeps
  troubles,
  author,     \* history: who entered a score, or claimed it
  crossed,    \* history: scores under way while the session changed
  silent,     \* history: scores replayed over a run that was there before
  misled      \* history: scores sent although there was a rival, after a kept
              \* list without one

client == <<form, queue, shown, run, button>>
server == <<stored, foreign, copies, silent, misled>>
history == <<author, crossed>>
vars == <<online, user, client, net, server, troubles, history>>

Entry == [user : Users \cup {NoUser}, force : BOOLEAN,
          status : {"pending", "syncing", "conflict", "error"}]
ASSUME NoEntryIsNone == NoEntry \notin Entry /\ NoEntry \notin Scores
Waits(e) == e # NoEntry /\ e.status \in {"pending", "syncing"}

(* A run of the loop: the entries listed and not taken yet, with force as  *)
(* it was listed; the entry in work; the status to write and what was read *)
(* for that; the listed scores another run was recorded for already.       *)
Idle == [pc |-> "idle", todo |-> {}, score |-> NoEntry, force |-> FALSE,
         status |-> "pending", copy |-> NoEntry, early |-> {}]
NoButton == [score |-> NoEntry, entry |-> NoEntry]

(* The runs recorded for a slot, and whether another score is among them:  *)
(* match.scheduled_match_id is the same and the key is not, or a seeding   *)
(* round the team has already.                                             *)
RunsOf(x) == {s \in Scores : slot[s] = x /\ stored[s] # <<>>} \cup
             {other \in {"elsewhere"} : x \in foreign}
Rival(s) == RunsOf(slot[s]) \ {s} # {}

Pending(u) == [user |-> u, force |-> FALSE, status |-> "pending"]

(* An earlier session left a score in the queue, of anybody or entered     *)
(* before the profile was known.                                           *)
Init == \E owner \in Users \cup {NoUser}, old \in Scores :
        /\ online = TRUE /\ user = juror
        /\ form = [s \in Scores |-> IF s = old THEN "kept" ELSE "new"]
        /\ queue = [s \in Scores |-> IF s = old THEN Pending(owner) ELSE NoEntry]
        /\ author = [s \in Scores |-> IF s = old THEN owner ELSE NoUser]
        /\ shown = [s \in Scores |-> {}]
        /\ run = [t \in Tabs |-> Idle]
        /\ button = NoButton /\ net = {}
        /\ stored = [s \in Scores |-> <<>>] /\ foreign = {} /\ copies = {}
        /\ troubles = 0
        /\ crossed = {} /\ silent = {} /\ misled = {}

-----------------------------------------------------------------------------
(* Entering a score: the request interceptor queues it or lets it go out,  *)
(* the response interceptor queues it when there was no answer.            *)

Trouble == troubles < MaxTroubles /\ troubles' = troubles + 1
Request(s, from, early) == [score |-> s, by |-> user, from |-> from, stage |-> "sent", early |-> early]
Abandoned(r) == (net \ {r}) \cup {[r EXCEPT !.from = "nobody"]}

Save(s) ==
  /\ form[s] = "new" /\ user # NoUser /\ Trouble
  /\ author' = [author EXCEPT ![s] = user]
  /\ IF online THEN /\ form' = [form EXCEPT ![s] = "sending"]
                    /\ net' = net \cup {Request(s, "form", FALSE)}
                    /\ UNCHANGED queue
               ELSE /\ form' = [form EXCEPT ![s] = "kept"]
                    /\ queue' = [queue EXCEPT ![s] = Pending(user)]
                    /\ UNCHANGED net
  /\ UNCHANGED <<online, user, shown, run, button, server, crossed>>

SaveUnanswered(r) ==
  /\ r.from = "form" /\ Trouble
  /\ net' = Abandoned(r)
  /\ form' = [form EXCEPT ![r.score] = "kept"]
  /\ queue' = [queue EXCEPT ![r.score] = IF @ # NoEntry THEN @ ELSE Pending(user)]
  /\ UNCHANGED <<online, user, shown, run, button, server, history>>

-----------------------------------------------------------------------------
(* What a loop does when the status of an entry is written: it sends the   *)
(* entry, stops, or goes on with the next one.                             *)
After(r) == IF r.status = "syncing" THEN [r EXCEPT !.pc = "send", !.copy = NoEntry]
            ELSE IF r.status = "pending" \/ r.todo = {} THEN Idle
            ELSE [Idle EXCEPT !.pc = "next", !.todo = r.todo,
                              !.early = r.early \cap {e.score : e \in r.todo}]

(* updateQueuedScore in a loop: the entry is read here and written back    *)
(* with the new status later (WriteBack), or is gone and nothing is done.  *)
Updating(r, status) ==
  IF queue[r.score] = NoEntry THEN After([r EXCEPT !.status = status])
  ELSE [r EXCEPT !.pc = "set", !.status = status, !.copy = queue[r.score]]

(* Faulty variant: what the server refuses leaves like what it records.    *)
LeavesWhenAnswered(status) == status # "pending"
LeavesQueue(status) == status = "ok"

(* An answer is handled in the step that gives it; an answer that is late  *)
(* or lost is one to a request its sender gave up before.                  *)
Answer(r, status) ==
  /\ form' = IF r.from # "form" THEN form
             ELSE [form EXCEPT ![r.score] = IF status = "ok" THEN "kept" ELSE "failed"]
  /\ queue' = IF r.from \in Tabs /\ LeavesQueue(status) THEN [queue EXCEPT ![r.score] = NoEntry] ELSE queue
  /\ run' = [t \in Tabs |-> IF r.from # t THEN run[t]
                              ELSE IF status = "ok" THEN After([run[t] EXCEPT !.status = "ok"])
                              ELSE Updating(run[t], status)]

(* create_match.  The first statements look for the key and for the round; *)
(* the insert comes later and fails on the unique key.                     *)

Look(r) ==
  LET known == stored[r.score] # <<>>
      round == slot[r.score] \in Seeding /\ Rival(r.score)
      go == r.by # NoUser /\ ~known /\ ~round
  IN /\ r.stage = "sent"
     /\ net' = (net \ {r}) \cup IF go THEN {[r EXCEPT !.stage = "looked"]} ELSE {}
     /\ IF go THEN UNCHANGED <<form, queue, run>>
        ELSE Answer(r, IF r.by = NoUser THEN "error" ELSE IF known THEN "ok" ELSE "conflict")
     /\ UNCHANGED <<online, user, shown, button, server, troubles, history>>

(* Faulty variant: without the unique key.                                 *)
InsertAgain(r) ==
  /\ r.stage = "looked"
  /\ net' = net \ {r}
  /\ stored' = [stored EXCEPT ![r.score] = Append(@, r.by)]
  /\ Answer(r, "ok")
  /\ UNCHANGED <<online, user, shown, button, foreign, copies, silent, misled, troubles, history>>

Insert(r) ==
  LET taken == stored[r.score] # <<>>
  IN /\ r.stage = "looked"
     /\ net' = net \ {r}
     /\ stored' = IF taken THEN stored ELSE [stored EXCEPT ![r.score] = Append(@, r.by)]
     /\ silent' = IF ~taken /\ r.early THEN silent \cup {r.score} ELSE silent
     /\ Answer(r, IF taken THEN "conflict" ELSE "ok")
     /\ UNCHANGED <<online, user, shown, button, foreign, copies, misled, troubles, history>>

(* The server refuses the run (422, 403) or fails (5xx).                   *)
Refuse(r, status) ==
  /\ Trouble /\ status \in {"error", "pending"}
  /\ net' = net \ {r}
  /\ Answer(r, status)
  /\ UNCHANGED <<online, user, shown, button, server, history>>

(* A request nobody waits for any more never arrived.                      *)
Lose(r) ==
  /\ r.from = "nobody"
  /\ net' = net \ {r}
  /\ UNCHANGED <<online, user, client, server, troubles, history>>

(* A run for the slot is recorded on another device.                       *)
ScoredElsewhere(x) ==
  /\ x \notin foreign /\ Trouble
  /\ x \in Seeding => \A s \in Scores : slot[s] = x => stored[s] = <<>>
  /\ foreign' = foreign \cup {x}
  /\ UNCHANGED <<online, user, client, net, stored, copies, silent, misled, history>>

-----------------------------------------------------------------------------
(* The service worker keeps the last list of a team's runs that the server *)
(* sent, for the scoring page or for a check, also one that arrived when   *)
(* nobody waited for it any more.                                          *)

Kept(x) == {c \in copies : c.slot # x} \cup {[slot |-> x, runs |-> RunsOf(x)]}

Visit(x) ==
  /\ online /\ user # NoUser
  /\ \E s \in Scheduled : slot[s] = x
  /\ copies' = Kept(x)
  /\ UNCHANGED <<online, user, client, net, stored, foreign, silent, misled, troubles, history>>

(* After seven days, or when there are too many.                           *)
Expire(c) ==
  /\ copies' = copies \ {c}
  /\ UNCHANGED <<online, user, client, net, stored, foreign, silent, misled, troubles, history>>

-----------------------------------------------------------------------------
(* syncQueuedScores, one run per tab at a time.  The loop goes on with the *)
(* entry as it was listed, also when it is gone or changed by now.         *)

(* Faulty variants: unclaimed entries are sent; "syncing" entries are left *)
(* to the tab that marked them; a second run of the same tab.              *)
MineOrUnclaimed == {s \in Scores : Waits(queue[s]) /\ queue[s].user \in {user, NoUser}}
MineIfPending == {s \in Scores : Waits(queue[s]) /\ queue[s].user = user /\ queue[s].status = "pending"}
Whenever(t) == run[t].pc \in {"idle", "posting"}

Mine == {s \in Scores : Waits(queue[s]) /\ queue[s].user = user}
NotRunning(t) == run[t] = Idle

StartSync(t) ==
  /\ NotRunning(t) /\ online /\ user # NoUser /\ Mine # {}
  /\ run' = [run EXCEPT ![t] = [Idle EXCEPT !.pc = "next",
                                  !.todo = {[score |-> s, force |-> queue[s].force] : s \in Mine},
                                  !.early = {s \in Mine : Rival(s)}]]
  /\ UNCHANGED <<online, user, form, queue, shown, button, net, server, troubles, history>>

Take(t) ==
  LET r == run[t]
      taken(listed) == [r EXCEPT !.todo = r.todo \ {listed}, !.score = listed.score, !.force = listed.force]
  IN /\ r.pc = "next"
     /\ IF ~online THEN run' = [run EXCEPT ![t] = Idle]
        ELSE \E listed \in r.todo : run' = [run EXCEPT ![t] = Updating(taken(listed), "syncing")]
     /\ UNCHANGED <<online, user, form, queue, shown, button, net, server, troubles, history>>

WriteBack(t) ==
  LET r == run[t]
  IN /\ r.pc = "set"
     /\ queue' = [queue EXCEPT ![r.score] = [r.copy EXCEPT !.status = r.status]]
     /\ shown' = [shown EXCEPT ![r.score] = @ \cup ({r.status} \cap {"conflict", "error"})]
     /\ run' = [run EXCEPT ![t] = After(r)]
     /\ UNCHANGED <<online, user, form, button, net, server, troubles, history>>

(* Faulty variant: the duplicate check is left to the server.              *)
NeverChecked(r) == FALSE
IsChecked(r) == r.score \in Scheduled /\ ~r.force

Stop(t, status) == run' = [run EXCEPT ![t] = Updating(@, status)] /\ UNCHANGED net

Post(t) ==
  LET s == run[t].score
  IN IF online
     THEN /\ run' = [run EXCEPT ![t].pc = "posting"]
          /\ net' = net \cup {Request(s, t, s \in run[t].early /\ ~run[t].force)}
     ELSE Stop(t, "pending")

Compare(t, runs) == IF runs \ {run[t].score} # {} THEN Stop(t, "conflict") ELSE Post(t)

(* findConflict gets the list of now; or one that was kept, if there is no *)
(* connection or no answer for four seconds; or fails.                     *)
CheckNow(t) ==
  LET x == slot[run[t].score]
  IN /\ online
     /\ IF user = NoUser THEN Stop(t, "error") /\ UNCHANGED copies
        ELSE Compare(t, RunsOf(x)) /\ copies' = Kept(x)
     /\ UNCHANGED <<misled, troubles>>

CheckKept(t) ==
  LET s == run[t].score
  IN /\ IF online THEN Trouble ELSE UNCHANGED troubles
     /\ \E c \in copies :
          /\ c.slot = slot[s]
          /\ Compare(t, c.runs)
          /\ misled' = IF online /\ Rival(s) /\ c.runs \subseteq {s} THEN misled \cup {s} ELSE misled
     /\ UNCHANGED copies

CheckFails(t) ==
  /\ \/ /\ online /\ Trouble
        /\ \E status \in {"error", "pending"} : Stop(t, status)
     \/ /\ ~online /\ \A c \in copies : c.slot # slot[run[t].score]
        /\ Stop(t, "pending") /\ UNCHANGED troubles
  /\ UNCHANGED <<copies, misled>>

(* The entry is checked and then sent, both with the session of now; a     *)
(* rival in between is like one recorded while the request is under way.   *)
Send(t) ==
  /\ run[t].pc = "send"
  /\ IF IsChecked(run[t]) THEN CheckNow(t) \/ CheckKept(t) \/ CheckFails(t)
     ELSE Post(t) /\ UNCHANGED <<copies, misled, troubles>>
  /\ UNCHANGED <<online, user, form, queue, shown, button, stored, foreign, silent, history>>

(* The request timed out or the connection broke.                          *)
PostUnanswered(r) ==
  /\ r.from \in Tabs /\ Trouble
  /\ net' = Abandoned(r)
  /\ run' = [run EXCEPT ![r.from] = Updating(@, "pending")]
  /\ UNCHANGED <<online, user, form, queue, shown, button, server, history>>

CloseTab(t) ==
  /\ run[t] # Idle /\ Trouble
  /\ run' = [run EXCEPT ![t] = Idle]
  /\ net' = {[r EXCEPT !.from = IF @ = t THEN "nobody" ELSE @] : r \in net}
  /\ UNCHANGED <<online, user, form, queue, shown, button, server, history>>

-----------------------------------------------------------------------------
(* The buttons of PendingScores, on the entries a tab lists as failed; the *)
(* list of a tab may be older than what another tab wrote.                 *)

Press(s, entry) ==
  /\ button = NoButton /\ queue[s] # NoEntry /\ user # NoUser
  /\ button' = [score |-> s, entry |-> entry]

Retry(s, force) ==
  /\ shown[s] # {} /\ queue[s] # NoEntry /\ queue[s].user = user
  /\ force => "conflict" \in shown[s]
  /\ Trouble
  /\ Press(s, [queue[s] EXCEPT !.status = "pending", !.force = force])
  /\ UNCHANGED <<online, user, form, queue, shown, run, net, server, history>>

Claim(s) ==
  /\ queue[s] # NoEntry /\ queue[s].user = NoUser
  /\ Press(s, [queue[s] EXCEPT !.status = "pending", !.user = user])
  /\ author' = [author EXCEPT ![s] = user]
  /\ UNCHANGED <<online, user, form, queue, shown, run, net, server, troubles, crossed>>

Pressed ==
  /\ button # NoButton
  /\ queue' = [queue EXCEPT ![button.score] = button.entry]
  /\ button' = NoButton
  /\ UNCHANGED <<online, user, form, shown, run, net, server, troubles, history>>

Discard(s) ==
  /\ queue[s] # NoEntry /\ user # NoUser
  /\ queue[s].user = NoUser \/ (queue[s].user = user /\ shown[s] # {})
  /\ queue' = [queue EXCEPT ![s] = NoEntry]
  /\ form' = [form EXCEPT ![s] = "discarded"]
  /\ UNCHANGED <<online, user, shown, run, button, net, server, troubles, history>>

-----------------------------------------------------------------------------
(* The session and the connection.                                         *)

UnderWay == {s \in Scores : \/ form[s] = "sending" \/ button.score = s
                            \/ \E r \in net : r.score = s
                            \/ \E t \in Tabs : run[t].score = s \/ \E e \in run[t].todo : e.score = s}

(* A logout drops what was kept (clearApiCache), a session that ended does *)
(* not.                                                                    *)
SignOut ==
  /\ user # NoUser /\ Trouble
  /\ user' = NoUser
  /\ copies' \in {copies, {}}
  /\ crossed' = crossed \cup UnderWay
  /\ UNCHANGED <<online, client, net, stored, foreign, silent, misled, author>>

SignIn(u) ==
  /\ user = NoUser
  /\ user' = u
  /\ crossed' = crossed \cup UnderWay
  /\ UNCHANGED <<online, client, net, server, troubles, author>>

GoOffline == /\ online /\ Trouble
             /\ online' = FALSE
             /\ UNCHANGED <<user, client, net, server, history>>

GoOnline == /\ ~online
            /\ online' = TRUE
            /\ UNCHANGED <<user, client, net, server, troubles, history>>

Loop(t) == Take(t) \/ WriteBack(t) \/ Send(t)
Serve(r) == Look(r) \/ Insert(r)

Next == \/ \E s \in Scores : Save(s) \/ Claim(s) \/ Discard(s) \/ \E f \in BOOLEAN : Retry(s, f)
        \/ \E t \in Tabs : StartSync(t) \/ Loop(t) \/ CloseTab(t)
        \/ \E r \in net : \/ Serve(r) \/ Lose(r) \/ SaveUnanswered(r) \/ PostUnanswered(r)
                          \/ \E status \in {"error", "pending"} : Refuse(r, status)
        \/ \E x \in Slots : ScoredElsewhere(x) \/ Visit(x)
        \/ \E c \in copies : Expire(c)
        \/ \E u \in Users : SignIn(u)
        \/ Pressed \/ SignOut \/ GoOffline \/ GoOnline

(* The interval of useOfflineSync starts a run every minute; requests are  *)
(* answered or given up on.                                                *)
ServeFor(f) == \E r \in net : r.from = f /\ Serve(r)
Fairness == \A t \in Tabs : WF_vars(StartSync(t)) /\ WF_vars(Loop(t)) /\ WF_vars(ServeFor(t))
Spec == Init /\ [][Next]_vars /\ Fairness

-----------------------------------------------------------------------------
(* Properties                                                              *)

Runs == [pc : {"idle", "next", "set", "send", "posting"},
         todo : SUBSET [score : Scores, force : BOOLEAN], score : Scores \cup {NoEntry},
         force : BOOLEAN, status : {"syncing", "pending", "conflict", "error", "ok"},
         copy : Entry \cup {NoEntry}, early : SUBSET Scores]

Requests == [score : Scores, by : Users \cup {NoUser}, from : Tabs \cup {"form", "nobody"},
             stage : {"sent", "looked"}, early : BOOLEAN]

(* The shapes of the queue, of the loops and of the requests; a loop that  *)
(* waits for an answer has exactly one request under way, and a form that  *)
(* waits has the only request of that score sent from it.                  *)
TypeOK ==
  /\ online \in BOOLEAN /\ user \in Users \cup {NoUser}
  /\ form \in [Scores -> {"new", "sending", "kept", "failed", "discarded"}]
  /\ queue \in [Scores -> Entry \cup {NoEntry}]
  /\ shown \in [Scores -> SUBSET {"conflict", "error"}]
  /\ run \in [Tabs -> Runs]
  /\ button = NoButton \/ button \in [score : Scores, entry : Entry]
  /\ net \subseteq Requests
  /\ stored \in [Scores -> Seq(Users)] /\ foreign \subseteq Slots
  /\ troubles \in 0 .. MaxTroubles
  /\ author \in [Scores -> Users \cup {NoUser}]
  /\ crossed \subseteq Scores /\ silent \subseteq Scores /\ misled \subseteq Scores
  /\ copies \subseteq [slot : Slots, runs : SUBSET (Scores \cup {"elsewhere"})]
  /\ \A c, d \in copies : c.slot = d.slot => c = d
  /\ \A t \in Tabs : run[t].pc = "posting" <=> \E r \in net : r.from = t
  /\ \A r, q \in net : r.from = q.from /\ r.from # "nobody" => r = q \/ r.from = "form"

(* A score the juror was told is saved or kept for later is on the server, *)
(* in the queue, or was discarded by a user: no lost answer, closed tab or *)
(* second tab makes it disappear (offlineQueue.ts: entries leave the store *)
(* only after the POST or by the button).                                  *)
NothingLost ==
  \A s \in Scores : form[s] = "kept" =>
                      stored[s] # <<>> \/ queue[s] # NoEntry

(* However often a score is sent, also by two tabs at once or again after  *)
(* an answer was lost, the server records it once ("a replay after a lost  *)
(* response never creates a duplicate", offlineQueue.ts).                  *)
RecordedOnce == \A s \in Scores : Len(stored[s]) <= 1

(* When a replay is recorded over another run of the match or the round    *)
(* that was there when its sync began, and the user did not choose that,   *)
(* then its check was answered with a list from before that run; and never *)
(* in a seeding round, where the server looks itself.                      *)
RivalsAreNoticed == \A s \in silent : s \in misled /\ slot[s] \notin Seeding

(* "Conflict check ...: did someone else score this team in this match     *)
(* while we were offline?" (offlineQueue.ts:168-171): a replay is never    *)
(* recorded over a run that was there when its sync began.                 *)
ConflictsAreFound == silent = {}

(* A run is recorded for who entered or claimed the score.  The exception  *)
(* is a score that was under way while somebody signed out or in: the loop *)
(* compares the author with the user it began with, the request carries    *)
(* the token of now, an unanswered entry is queued for the user of now.    *)
SentAsAuthor ==
  \A s \in Scores : \A i \in 1 .. Len(stored[s]) : stored[s][i] = author[s] \/ s \in crossed

(* Once its author stays signed in and online, an entry that waits in the  *)
(* queue is sent, or needs the user: no crash of a tab, failed request or  *)
(* "syncing" left by a closed tab keeps it waiting for ever.               *)
Settles ==
  \A u \in Users : <>[](online /\ user = u) =>
    \A s \in Scores : []<>~(Waits(queue[s]) /\ queue[s].user = u)
=============================================================================
