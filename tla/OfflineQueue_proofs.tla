------------------------ MODULE OfflineQueue_proofs ------------------------
(* Proofs about OfflineQueue, for any scores, tabs, users and troubles: no *)
(* score that was kept is lost, none is recorded twice, for somebody else, *)
(* or unnoticed over a run that was there before.                          *)
EXTENDS OfflineQueue, SequenceTheorems, TLAPS

(* A loop that works on an entry knows which; what it will write back is   *)
(* an entry, with a status a loop writes.                                  *)
Written == {"syncing", "pending", "conflict", "error"}
Ready(r) == /\ r \in Runs
            /\ r.pc \in {"set", "send", "posting"} => r.score \in Scores
            /\ r.pc = "set" => r.copy \in Entry /\ r.status \in Written

Surroundings == /\ online \in BOOLEAN /\ user \in Users \cup {NoUser} /\ troubles \in 0 .. MaxTroubles
                /\ author \in [Scores -> Users \cup {NoUser}] /\ crossed \subseteq Scores
Stores == /\ form \in [Scores -> {"new", "sending", "kept", "failed", "discarded"}]
          /\ queue \in [Scores -> Entry \cup {NoEntry}]
          /\ shown \in [Scores -> SUBSET {"conflict", "error"}]
          /\ button = NoButton \/ button \in [score : Scores, entry : Entry]
Loops == run \in [Tabs -> Runs] /\ \A t \in Tabs : Ready(run[t])
Network == net \subseteq Requests /\ \A r \in net : r.stage = "looked" => r.by \in Users
Lists(kept) == /\ kept \subseteq [slot : Slots, runs : SUBSET (Scores \cup {"elsewhere"})]
               /\ \A c, d \in kept : c.slot = d.slot => c = d
Server == /\ stored \in [Scores -> Seq(Users)] /\ foreign \subseteq Slots /\ Lists(copies)
          /\ silent \subseteq Scores /\ misled \subseteq Scores
          /\ \A s \in Scores : Len(stored[s]) <= 1

(* A loop waits for an answer exactly while its one request is under way.  *)
Posted == /\ \A t \in Tabs : run[t].pc = "posting" <=> \E r \in net : r.from = t
          /\ \A r, q \in net : r.from = q.from /\ r.from \in Tabs => r = q

IInv == Surroundings /\ Stores /\ Loops /\ Network /\ Server /\ Posted /\ NothingLost

-----------------------------------------------------------------------------
LEMMA Implied == IInv => TypeOK /\ RecordedOnce
<1> SUFFICES ASSUME IInv PROVE TypeOK /\ RecordedOnce
  OBVIOUS
<1>1. \A r \in net : r.from \in Tabs \cup {"form", "nobody"}
  BY DEF IInv, Network, Requests
<1>2. \A r, q \in net : r.from = q.from /\ r.from # "nobody" => r = q \/ r.from = "form"
  BY <1>1 DEF IInv, Posted
<1> QED
  BY <1>2 DEF IInv, TypeOK, RecordedOnce, Surroundings, Stores, Loops, Network, Server, Lists, Posted

LEMMA PendingTyped ==
  ASSUME NEW u \in Users \cup {NoUser} PROVE Pending(u) \in Entry /\ Pending(u) # NoEntry
<1>1. Pending(u) \in Entry
  BY DEF Pending, Entry
<1> QED
  BY <1>1, NoEntryIsNone

LEMMA IdleReady == Ready(Idle)
  BY DEF Ready, Idle, Runs

LEMMA InitHolds == Init => IInv
<1> SUFFICES ASSUME Init PROVE IInv
  OBVIOUS
<1> PICK owner \in Users \cup {NoUser}, old \in Scores :
      /\ online = TRUE /\ user = juror
      /\ form = [s \in Scores |-> IF s = old THEN "kept" ELSE "new"]
      /\ queue = [s \in Scores |-> IF s = old THEN Pending(owner) ELSE NoEntry]
      /\ author = [s \in Scores |-> IF s = old THEN owner ELSE NoUser]
      /\ shown = [s \in Scores |-> {}] /\ run = [t \in Tabs |-> Idle]
      /\ button = NoButton /\ net = {}
      /\ stored = [s \in Scores |-> <<>>] /\ foreign = {} /\ copies = {}
      /\ troubles = 0 /\ crossed = {} /\ silent = {} /\ misled = {}
  BY DEF Init
<1>1. Pending(owner) \in Entry /\ Pending(owner) # NoEntry
  BY PendingTyped
<1>2. Surroundings /\ Stores
  BY <1>1, Instance DEF Surroundings, Stores
<1>3. Loops
  BY IdleReady DEF Loops, Ready
<1>4. Network /\ Server
  BY DEF Network, Server, Lists
<1>5. Posted
  <2>1. Idle.pc # "posting"
    BY DEF Idle
  <2> QED
    BY <2>1 DEF Posted
<1>6. NothingLost
  BY <1>1 DEF NothingLost
<1> QED
  BY <1>2, <1>3, <1>4, <1>5, <1>6 DEF IInv

-----------------------------------------------------------------------------
(* Where a loop goes after an update.                                      *)
LEMMA AfterReady ==
  ASSUME NEW r \in Runs, r.score \in Scores
  PROVE  Ready(After(r)) /\ After(r).pc \in {"send", "idle", "next"}
<1>1. CASE r.status = "syncing"
  <2>1. After(r) = [r EXCEPT !.pc = "send", !.copy = NoEntry]
    BY <1>1 DEF After
  <2> QED
    BY <2>1 DEF Ready, Runs
<1>2. CASE r.status # "syncing" /\ (r.status = "pending" \/ r.todo = {})
  <2>1. After(r) = Idle
    BY <1>2 DEF After
  <2> QED
    BY <2>1, IdleReady DEF Idle
<1>3. CASE r.status # "syncing" /\ ~(r.status = "pending" \/ r.todo = {})
  <2>1. After(r) = [Idle EXCEPT !.pc = "next", !.todo = r.todo,
                                !.early = r.early \cap {e.score : e \in r.todo}]
    BY <1>3 DEF After
  <2>2. r.todo \in SUBSET [score : Scores, force : BOOLEAN] /\ r.early \in SUBSET Scores
    BY DEF Runs
  <2>3. r.early \cap {e.score : e \in r.todo} \in SUBSET Scores
    BY <2>2
  <2> QED
    BY <2>1, <2>2, <2>3 DEF Ready, Idle, Runs
<1> QED
  BY <1>1, <1>2, <1>3

LEMMA UpdatingReady ==
  ASSUME NEW r \in Runs, r.score \in Scores, NEW status \in Written,
         queue \in [Scores -> Entry \cup {NoEntry}]
  PROVE  Ready(Updating(r, status)) /\ Updating(r, status).pc \in {"set", "send", "idle", "next"}
<1>1. CASE queue[r.score] = NoEntry
  <2>1. [r EXCEPT !.status = status] \in Runs /\ [r EXCEPT !.status = status].score = r.score
    BY DEF Runs, Written
  <2> QED
    BY <1>1, <2>1, AfterReady DEF Updating
<1>2. CASE queue[r.score] # NoEntry
  <2> DEFINE u == [r EXCEPT !.pc = "set", !.status = status, !.copy = queue[r.score]]
  <2>1. queue[r.score] \in Entry
    BY <1>2
  <2>2. u \in Runs /\ u.pc = "set" /\ u.score = r.score /\ u.status = status /\ u.copy = queue[r.score]
    BY <2>1 DEF Runs, Written
  <2>3. Updating(r, status) = u
    BY <1>2 DEF Updating
  <2> QED
    BY <2>1, <2>2, <2>3 DEF Ready
<1> QED
  BY <1>1, <1>2

-----------------------------------------------------------------------------
(* Steps that leave some parts of the state alone.                         *)
LEMMA ServerSame == Server /\ UNCHANGED server => Server'
  BY DEF Server, server

LEMMA LoopsSame == Loops /\ Network /\ Posted /\ UNCHANGED <<run, net>> => Loops' /\ Network' /\ Posted'
  BY DEF Loops, Network, Posted

(* An answer: to the loop or to the form that waits for it.                *)
LEMMA AnswerKeeps ==
  ASSUME IInv, NEW r \in net, NEW status \in {"ok", "pending", "conflict", "error"},
         Answer(r, status), net' = net \ {r},
         UNCHANGED <<online, user, shown, button, author, crossed>>, troubles' \in 0 .. MaxTroubles,
         Server', \A s \in Scores : stored[s] # <<>> => stored'[s] # <<>>,
         status = "ok" => stored'[r.score] # <<>>
  PROVE  IInv'
<1>1. r \in Requests /\ r.score \in Scores
  BY DEF IInv, Network, Requests
<1>2. /\ form' \in [Scores -> {"new", "sending", "kept", "failed", "discarded"}]
      /\ \A s \in Scores : form'[s] = "kept" => form[s] = "kept" \/ (s = r.score /\ status = "ok")
  BY <1>1 DEF IInv, Stores, Answer
<1>3. /\ queue' \in [Scores -> Entry \cup {NoEntry}]
      /\ \A s \in Scores : queue'[s] = queue[s] \/ (s = r.score /\ status = "ok")
  BY <1>1 DEF IInv, Stores, Answer, LeavesQueue
<1>4. ASSUME NEW t \in Tabs
      PROVE  /\ r.from # t => run'[t] = run[t]
             /\ r.from = t => run'[t].pc # "posting"
             /\ Ready(run'[t])
  <2>1. run'[t] = IF r.from # t THEN run[t]
                  ELSE IF status = "ok" THEN After([run[t] EXCEPT !.status = "ok"])
                  ELSE Updating(run[t], status)
    BY DEF Answer
  <2>2. Ready(run[t]) /\ run[t] \in Runs
    BY DEF IInv, Loops
  <2>3. CASE r.from # t
    BY <2>1, <2>2, <2>3
  <2>4. CASE r.from = t
    <3>1. run[t].score \in Scores
      BY <2>2, <2>4 DEF IInv, Posted, Ready
    <3>2. CASE status = "ok"
      <4>1. [run[t] EXCEPT !.status = "ok"] \in Runs /\ [run[t] EXCEPT !.status = "ok"].score \in Scores
        BY <2>2, <3>1 DEF Runs
      <4> QED
        BY <2>1, <2>4, <3>2, <4>1, AfterReady
    <3>3. CASE status # "ok"
      <4>1. status \in Written /\ queue \in [Scores -> Entry \cup {NoEntry}]
        BY <3>3 DEF Written, IInv, Stores
      <4> QED
        BY <2>1, <2>2, <2>4, <3>1, <3>3, <4>1, UpdatingReady
    <3> QED
      BY <3>2, <3>3
  <2> QED
    BY <2>3, <2>4
<1>5. Surroundings' /\ Stores'
  BY <1>2, <1>3 DEF IInv, Surroundings, Stores
<1>6. Loops'
  <2>1. run' = [t \in Tabs |-> run'[t]]
    BY DEF Answer
  <2>2. \A t \in Tabs : run'[t] \in Runs
    BY <1>4 DEF Ready
  <2> QED
    BY <1>4, <2>1, <2>2 DEF Loops
<1>7. Network'
  BY DEF IInv, Network
<1>8. Posted'
  BY <1>1, <1>4 DEF IInv, Posted
<1>9. NothingLost'
  BY <1>1, <1>2, <1>3 DEF IInv, NothingLost
<1> QED
  BY <1>5, <1>6, <1>7, <1>8, <1>9 DEF IInv

LEMMA LookKeeps == ASSUME IInv, NEW r \in net, Look(r) PROVE IInv'
<1> DEFINE known == stored[r.score] # <<>>
           go == r.by # NoUser /\ ~known /\ ~(slot[r.score] \in Seeding /\ Rival(r.score))
           status == IF r.by = NoUser THEN "error" ELSE IF known THEN "ok" ELSE "conflict"
<1>1. UNCHANGED <<online, user, shown, button, server, troubles, history>>
  BY DEF Look
<1>2. Server' /\ UNCHANGED stored
  BY <1>1, ServerSame DEF IInv, server
<1>3. CASE go
  <2>1. net' = (net \ {r}) \cup {[r EXCEPT !.stage = "looked"]} /\ UNCHANGED <<form, queue, run>>
    BY <1>3 DEF Look
  <2>2. r \in Requests /\ r.by \in Users
    BY <1>3 DEF IInv, Network, Requests
  <2>3. /\ [r EXCEPT !.stage = "looked"] \in Requests
        /\ [r EXCEPT !.stage = "looked"].by \in Users
        /\ [r EXCEPT !.stage = "looked"].from = r.from
    BY <2>2 DEF Requests
  <2>4. Network'
    BY <2>1, <2>3 DEF IInv, Network
  <2>5. \A q \in net' : \E p \in net : q.from = p.from /\ (p # r => q = p) /\ (p = r => q = [r EXCEPT !.stage = "looked"])
    BY <2>1, <2>3
  <2>6. \A p \in net : \E q \in net' : q.from = p.from
    BY <2>1, <2>3
  <2>7. Posted'
    BY <2>1, <2>5, <2>6 DEF IInv, Posted
  <2>8. Surroundings' /\ Stores' /\ Loops' /\ NothingLost'
    BY <1>1, <2>1 DEF history, server, IInv, Surroundings, Stores, Loops, NothingLost
  <2> QED
    BY <1>2, <2>4, <2>7, <2>8 DEF IInv
<1>4. CASE ~go
  <2>1. net' = net \ {r} /\ Answer(r, status)
    BY <1>4 DEF Look
  <2>2. status \in {"ok", "pending", "conflict", "error"} /\ (status = "ok" => stored'[r.score] # <<>>)
    BY <1>2
  <2>3. troubles' \in 0 .. MaxTroubles
    BY <1>1 DEF IInv, Surroundings
  <2> HIDE DEF status
  <2> QED
    BY <1>1, <1>2, <2>1, <2>2, <2>3, AnswerKeeps DEF history
<1> QED
  BY <1>3, <1>4

(* The unique key: nothing is appended to a score that has a run.          *)
LEMMA InsertKeeps == ASSUME IInv, NEW r \in net, Insert(r) PROVE IInv'
<1> DEFINE taken == stored[r.score] # <<>>
           status == IF taken THEN "conflict" ELSE "ok"
<1>1. /\ net' = net \ {r} /\ Answer(r, status)
      /\ stored' = IF taken THEN stored ELSE [stored EXCEPT ![r.score] = Append(@, r.by)]
      /\ silent' = IF ~taken /\ r.early THEN silent \cup {r.score} ELSE silent
      /\ UNCHANGED <<online, user, shown, button, foreign, copies, misled, troubles, history>>
  BY DEF Insert
<1>2. r \in Requests /\ r.score \in Scores /\ r.by \in Users
  BY DEF IInv, Network, Requests, Insert
<1>3. stored \in [Scores -> Seq(Users)]
  BY DEF IInv, Server
<1>4. CASE ~taken
  <2>1. Append(stored[r.score], r.by) \in Seq(Users) /\ Len(Append(stored[r.score], r.by)) = 1
    BY <1>2, <1>3, <1>4
  <2>2. stored' = [stored EXCEPT ![r.score] = Append(stored[r.score], r.by)]
    BY <1>1, <1>4
  <2>3. Server'
    BY <1>1, <1>2, <2>1, <2>2 DEF IInv, Server
  <2>4. /\ \A s \in Scores : stored[s] # <<>> => stored'[s] # <<>>
        /\ stored'[r.score] # <<>>
    <3>1. stored'[r.score] = Append(stored[r.score], r.by) /\ \A s \in Scores \ {r.score} : stored'[s] = stored[s]
      BY <1>2, <1>3, <2>2
    <3>2. stored[r.score] \in Seq(Users)
      BY <1>2, <1>3
    <3>3. Append(stored[r.score], r.by) # <<>>
      BY <1>2, <3>2, AppendProperties
    <3> QED
      BY <3>1, <3>3
  <2>5. troubles' \in 0 .. MaxTroubles
    BY <1>1 DEF IInv, Surroundings
  <2>6. Answer(r, "ok")
    BY <1>1, <1>4
  <2> QED
    BY <1>1, <2>3, <2>4, <2>5, <2>6, AnswerKeeps DEF history
<1>5. CASE taken
  <2>1. UNCHANGED <<stored, foreign, copies, silent, misled>>
    BY <1>1, <1>5
  <2>2. Server'
    BY <2>1, ServerSame DEF IInv, server
  <2>3. troubles' \in 0 .. MaxTroubles
    BY <1>1 DEF IInv, Surroundings
  <2>4. Answer(r, "conflict")
    BY <1>1, <1>5
  <2> QED
    BY <1>1, <2>1, <2>2, <2>3, <2>4, AnswerKeeps DEF history
<1> QED
  BY <1>4, <1>5

LEMMA Troubled == ASSUME Surroundings, Trouble PROVE troubles' \in 0 .. MaxTroubles
  BY Instance DEF Surroundings, Trouble

LEMMA RefuseKeeps ==
  ASSUME IInv, NEW r \in net, NEW status \in {"error", "pending"}, Refuse(r, status) PROVE IInv'
<1>1. /\ net' = net \ {r} /\ Answer(r, status) /\ Trouble
      /\ UNCHANGED <<online, user, shown, button, server, history>>
  BY DEF Refuse
<1>2. Server' /\ UNCHANGED stored
  BY <1>1, ServerSame DEF IInv, server
<1>3. troubles' \in 0 .. MaxTroubles
  BY <1>1, Troubled DEF IInv
<1> QED
  BY <1>1, <1>2, <1>3, AnswerKeeps DEF history

-----------------------------------------------------------------------------
(* Requests: sent, given up on, lost.                                      *)
LEMMA RequestTyped ==
  ASSUME user \in Users \cup {NoUser}, NEW s \in Scores, NEW f \in Tabs \cup {"form"}, NEW e \in BOOLEAN
  PROVE  Request(s, f, e) \in Requests /\ Request(s, f, e).stage = "sent" /\ Request(s, f, e).from = f
  BY DEF Request, Requests

LEMMA AbandonedTyped ==
  ASSUME Network, Posted, NEW r \in net
  PROVE  /\ Abandoned(r) \subseteq Requests
         /\ \A q \in Abandoned(r) : q.stage = "looked" => q.by \in Users
         /\ \A q \in Abandoned(r) : q.from \in Tabs => q \in net \ {r}
         /\ net \ {r} \subseteq Abandoned(r)
<1> DEFINE g == [r EXCEPT !.from = "nobody"]
<1>1. r \in Requests /\ (r.stage = "looked" => r.by \in Users)
  BY DEF Network
<1>2. g \in Requests /\ g.from = "nobody" /\ g.stage = r.stage /\ g.by = r.by /\ g.from \notin Tabs
  BY <1>1, Instance DEF Requests
<1>3. Abandoned(r) = (net \ {r}) \cup {g}
  BY DEF Abandoned
<1> HIDE DEF g
<1> QED
  BY <1>1, <1>2, <1>3 DEF Network

LEMMA SaveKeeps == ASSUME IInv, NEW s \in Scores, Save(s) PROVE IInv'
<1>1. /\ Trouble /\ author' = [author EXCEPT ![s] = user]
      /\ UNCHANGED <<online, user, shown, run, button, server, crossed>>
  BY DEF Save
<1>2. Surroundings'
  BY <1>1, Troubled DEF IInv, Surroundings
<1>3. Server'
  BY <1>1, ServerSame DEF IInv
<1>4. user \in Users \cup {NoUser} /\ "form" \notin Tabs
  BY Instance DEF IInv, Surroundings
<1>5. CASE online
  <2> DEFINE q == Request(s, "form", FALSE)
  <2>1. form' = [form EXCEPT ![s] = "sending"] /\ net' = net \cup {q} /\ UNCHANGED queue
    BY <1>5 DEF Save
  <2>2. q \in Requests /\ q.stage = "sent" /\ q.from = "form"
    BY <1>4, RequestTyped
  <2> HIDE DEF q
  <2>3. Stores' /\ NothingLost'
    BY <1>1, <2>1 DEF IInv, Stores, NothingLost, server
  <2>4. Network'
    BY <2>1, <2>2 DEF IInv, Network
  <2>5. Loops' /\ Posted'
    BY <1>1, <1>4, <2>1, <2>2 DEF IInv, Loops, Posted
  <2> QED
    BY <1>2, <1>3, <2>3, <2>4, <2>5 DEF IInv
<1>6. CASE ~online
  <2>1. form' = [form EXCEPT ![s] = "kept"] /\ queue' = [queue EXCEPT ![s] = Pending(user)] /\ UNCHANGED net
    BY <1>6 DEF Save
  <2>2. Pending(user) \in Entry /\ Pending(user) # NoEntry
    BY <1>4, PendingTyped
  <2>3. Stores' /\ NothingLost'
    BY <1>1, <2>1, <2>2 DEF IInv, Stores, NothingLost, server
  <2>4. Loops' /\ Network' /\ Posted'
    BY <1>1, <2>1, LoopsSame DEF IInv
  <2> QED
    BY <1>2, <1>3, <2>3, <2>4 DEF IInv
<1> QED
  BY <1>5, <1>6

LEMMA SaveUnansweredKeeps == ASSUME IInv, NEW r \in net, SaveUnanswered(r) PROVE IInv'
<1>1. /\ r.from = "form" /\ Trouble /\ net' = Abandoned(r)
      /\ form' = [form EXCEPT ![r.score] = "kept"]
      /\ queue' = [queue EXCEPT ![r.score] = IF queue[r.score] # NoEntry THEN queue[r.score] ELSE Pending(user)]
      /\ UNCHANGED <<online, user, shown, run, button, server, history>>
  BY DEF SaveUnanswered
<1>2. Surroundings'
  BY <1>1, Troubled DEF IInv, Surroundings, history
<1>3. Server'
  BY <1>1, ServerSame DEF IInv
<1>4. r.score \in Scores /\ user \in Users \cup {NoUser} /\ r.from \notin Tabs
  BY <1>1, Instance DEF IInv, Network, Requests, Surroundings
<1>5. Pending(user) \in Entry /\ Pending(user) # NoEntry
  BY <1>4, PendingTyped
<1>6. Stores' /\ NothingLost'
  BY <1>1, <1>4, <1>5 DEF IInv, Stores, NothingLost, server
<1>7. /\ Abandoned(r) \subseteq Requests
      /\ \A q \in Abandoned(r) : q.stage = "looked" => q.by \in Users
      /\ \A q \in Abandoned(r) : q.from \in Tabs => q \in net \ {r}
      /\ net \ {r} \subseteq Abandoned(r)
  BY AbandonedTyped DEF IInv
<1>8. Network'
  BY <1>1, <1>7 DEF Network
<1>9. Loops' /\ Posted'
  BY <1>1, <1>4, <1>7 DEF IInv, Loops, Posted
<1> QED
  BY <1>2, <1>3, <1>6, <1>8, <1>9 DEF IInv

LEMMA PostUnansweredKeeps == ASSUME IInv, NEW r \in net, PostUnanswered(r) PROVE IInv'
<1> DEFINE t == r.from
<1>1. /\ t \in Tabs /\ Trouble /\ net' = Abandoned(r)
      /\ run' = [run EXCEPT ![t] = Updating(run[t], "pending")]
      /\ UNCHANGED <<online, user, form, queue, shown, button, server, history>>
  BY DEF PostUnanswered
<1>2. Surroundings' /\ Stores' /\ Server' /\ NothingLost'
  BY <1>1, Troubled, ServerSame DEF IInv, Surroundings, Stores, NothingLost, history, server
<1>3. /\ Abandoned(r) \subseteq Requests
      /\ \A q \in Abandoned(r) : q.stage = "looked" => q.by \in Users
      /\ \A q \in Abandoned(r) : q.from \in Tabs => q \in net \ {r}
      /\ net \ {r} \subseteq Abandoned(r)
  BY AbandonedTyped DEF IInv
<1>4. run[t] \in Runs /\ run[t].score \in Scores /\ queue \in [Scores -> Entry \cup {NoEntry}]
  BY <1>1 DEF IInv, Loops, Posted, Ready, Stores
<1>5. /\ Ready(Updating(run[t], "pending")) /\ Updating(run[t], "pending") \in Runs
      /\ Updating(run[t], "pending").pc # "posting"
  BY <1>4, UpdatingReady DEF Written, Ready
<1>6. Loops'
  BY <1>1, <1>5 DEF IInv, Loops
<1>7. Network'
  BY <1>1, <1>3 DEF Network
<1>8. Posted'
  BY <1>1, <1>3, <1>5 DEF IInv, Posted, Loops
<1> QED
  BY <1>2, <1>6, <1>7, <1>8 DEF IInv

LEMMA LoseKeeps == ASSUME IInv, NEW r \in net, Lose(r) PROVE IInv'
<1>1. /\ r.from = "nobody" /\ net' = net \ {r}
      /\ UNCHANGED <<online, user, client, server, troubles, history>>
  BY DEF Lose
<1>2. Surroundings' /\ Stores' /\ Server' /\ NothingLost'
  BY <1>1, ServerSame DEF IInv, Surroundings, Stores, NothingLost, history, server, client
<1>3. Loops' /\ Network' /\ Posted'
  BY <1>1, Instance DEF IInv, Loops, Network, Posted, client
<1> QED
  BY <1>2, <1>3 DEF IInv

-----------------------------------------------------------------------------
(* The loop.  A step of it that sends nothing leaves the requests alone.   *)
LEMMA LoopKeeps ==
  ASSUME IInv, NEW t \in Tabs, run[t].pc # "posting", NEW next, Ready(next), next.pc # "posting",
         run' = [run EXCEPT ![t] = next], UNCHANGED net
  PROVE  Loops' /\ Network' /\ Posted'
<1>1. next \in Runs
  BY DEF Ready
<1>2. Loops'
  BY <1>1 DEF IInv, Loops
<1>3. Network' /\ Posted'
  BY DEF IInv, Network, Posted, Loops
<1> QED
  BY <1>2, <1>3

LEMMA StartSyncKeeps == ASSUME IInv, NEW t \in Tabs, StartSync(t) PROVE IInv'
<1> DEFINE next == [Idle EXCEPT !.pc = "next",
                                !.todo = {[score |-> s, force |-> queue[s].force] : s \in Mine},
                                !.early = {s \in Mine : Rival(s)}]
<1>1. /\ run[t] = Idle /\ run' = [run EXCEPT ![t] = next]
      /\ UNCHANGED <<online, user, form, queue, shown, button, net, server, troubles, history>>
  BY DEF StartSync, NotRunning
<1>2. \A s \in Mine : s \in Scores /\ queue[s] \in Entry
  BY DEF Mine, Waits, IInv, Stores
<1>3. \A s \in Mine : queue[s].force \in BOOLEAN
  BY <1>2 DEF Entry
<1>4. {[score |-> s, force |-> queue[s].force] : s \in Mine} \in SUBSET [score : Scores, force : BOOLEAN]
  BY <1>2, <1>3
<1>5. {s \in Mine : Rival(s)} \in SUBSET Scores
  BY <1>2
<1>6. Ready(next) /\ next.pc = "next"
  BY <1>4, <1>5 DEF Ready, Idle, Runs
<1>7. run[t].pc # "posting"
  BY <1>1 DEF Idle
<1> HIDE DEF next
<1>8. Loops' /\ Network' /\ Posted'
  BY <1>1, <1>6, <1>7, LoopKeeps
<1>9. Surroundings' /\ Stores' /\ Server' /\ NothingLost'
  BY <1>1, ServerSame DEF IInv, Surroundings, Stores, NothingLost, history, server
<1> QED
  BY <1>8, <1>9 DEF IInv

LEMMA TakeKeeps == ASSUME IInv, NEW t \in Tabs, Take(t) PROVE IInv'
<1>1. /\ run[t].pc = "next"
      /\ UNCHANGED <<online, user, form, queue, shown, button, net, server, troubles, history>>
  BY DEF Take
<1>2. Surroundings' /\ Stores' /\ Server' /\ NothingLost'
  BY <1>1, ServerSame DEF IInv, Surroundings, Stores, NothingLost, history, server
<1>3. CASE ~online
  <2>1. run' = [run EXCEPT ![t] = Idle] /\ Idle.pc # "posting"
    BY <1>3 DEF Take, Idle
  <2> QED
    BY <1>1, <1>2, <2>1, IdleReady, LoopKeeps DEF IInv
<1>4. CASE online
  <2> DEFINE taken(l) == [run[t] EXCEPT !.todo = run[t].todo \ {l}, !.score = l.score, !.force = l.force]
  <2> PICK listed \in run[t].todo : run' = [run EXCEPT ![t] = Updating(taken(listed), "syncing")]
    BY <1>4 DEF Take
  <2> DEFINE r == taken(listed)
  <2>1. run[t] \in Runs /\ run[t].todo \in SUBSET [score : Scores, force : BOOLEAN]
    BY DEF IInv, Loops, Runs
  <2>2. listed.score \in Scores /\ listed.force \in BOOLEAN
        /\ run[t].todo \ {listed} \in SUBSET [score : Scores, force : BOOLEAN]
    BY <2>1
  <2>3. r \in Runs /\ r.score \in Scores
    BY <2>1, <2>2 DEF Runs
  <2>4. run' = [run EXCEPT ![t] = Updating(r, "syncing")]
    OBVIOUS
  <2> HIDE DEF r
  <2>5. Ready(Updating(r, "syncing")) /\ Updating(r, "syncing").pc # "posting"
    BY <2>3, UpdatingReady DEF Written, IInv, Stores
  <2>6. Loops' /\ Network' /\ Posted'
    BY <1>1, <2>4, <2>5, LoopKeeps
  <2> QED
    BY <1>2, <2>6 DEF IInv
<1> QED
  BY <1>3, <1>4 DEF IInv, Surroundings

LEMMA WriteBackKeeps == ASSUME IInv, NEW t \in Tabs, WriteBack(t) PROVE IInv'
<1> DEFINE r == run[t]
           e == [r.copy EXCEPT !.status = r.status]
<1>1. /\ r.pc = "set"
      /\ queue' = [queue EXCEPT ![r.score] = e]
      /\ shown' = [shown EXCEPT ![r.score] = shown[r.score] \cup ({r.status} \cap {"conflict", "error"})]
      /\ run' = [run EXCEPT ![t] = After(r)]
      /\ UNCHANGED <<online, user, form, button, net, server, troubles, history>>
  BY DEF WriteBack
<1>2. r \in Runs /\ r.score \in Scores /\ r.copy \in Entry /\ r.status \in Written
  BY <1>1 DEF IInv, Loops, Ready
<1>3. e \in Entry
  BY <1>2 DEF Entry, Written
<1>4. e # NoEntry
  BY <1>3, NoEntryIsNone
<1> HIDE DEF e
<1>5. Stores' /\ NothingLost'
  BY <1>1, <1>2, <1>3, <1>4 DEF IInv, Stores, NothingLost, server
<1>6. Ready(After(r)) /\ After(r).pc # "posting"
  BY <1>2, AfterReady
<1>7. Loops' /\ Network' /\ Posted'
  BY <1>1, <1>6, LoopKeeps
<1>8. Surroundings' /\ Server'
  BY <1>1, ServerSame DEF IInv, Surroundings, history
<1> QED
  BY <1>5, <1>7, <1>8 DEF IInv

(* A list that is kept.                                                    *)
LEMMA KeptTyped == ASSUME Server, NEW x \in Slots PROVE Lists(Kept(x))
<1>1. RunsOf(x) \in SUBSET (Scores \cup {"elsewhere"})
  BY DEF RunsOf
<1>2. \A runs \in SUBSET (Scores \cup {"elsewhere"}) :
        Lists({c \in copies : c.slot # x} \cup {[slot |-> x, runs |-> runs]})
  BY DEF Lists, Server
<1> QED
  BY <1>1, <1>2 DEF Kept

LEMMA FewerTyped == Server => Lists({}) /\ \A c : Lists(copies \ {c})
  BY DEF Lists, Server

(* An entry is sent, or the loop stops with a status; what is sent after a *)
(* check and has a rival was misled by the list.                           *)
Posts(t) == LET early == run[t].score \in run[t].early /\ ~run[t].force
            IN  /\ run' = [run EXCEPT ![t].pc = "posting"]
                /\ net' = net \cup {Request(run[t].score, t, early)}
Stops(t) == \E status \in Written : run' = [run EXCEPT ![t] = Updating(run[t], status)] /\ UNCHANGED net
Replayed(t) == /\ run[t].pc = "send" /\ run[t] \in Runs /\ run[t].score \in Scores
               /\ UNCHANGED <<online, user, form, queue, shown, button, stored, foreign, silent, author, crossed>>
               /\ troubles' \in 0 .. MaxTroubles /\ Lists(copies')
               /\ misled \subseteq misled' /\ misled' \subseteq Scores
               /\ \/ Stops(t)
                  \/ Posts(t) /\ (IsChecked(run[t]) /\ Rival(run[t].score) => run[t].score \in misled')

LEMMA StopIs == \A t \in Tabs : \A status \in Written : Stop(t, status) => Stops(t)
  BY DEF Stop, Stops

LEMMA PostIs == ASSUME NEW t \in Tabs, Post(t) PROVE Stops(t) \/ (online /\ Posts(t))
<1>1. CASE online
  BY <1>1 DEF Post, Posts
<1>2. CASE ~online
  BY <1>2, StopIs DEF Post, Written
<1> QED
  BY <1>1, <1>2

LEMMA CompareIs ==
  ASSUME NEW t \in Tabs, NEW runs, Compare(t, runs)
  PROVE  Stops(t) \/ (online /\ Posts(t) /\ runs \ {run[t].score} = {})
<1>1. CASE runs \ {run[t].score} # {}
  BY <1>1, StopIs DEF Compare, Written
<1>2. CASE runs \ {run[t].score} = {}
  BY <1>2, PostIs DEF Compare
<1> QED
  BY <1>1, <1>2

LEMMA SendIs == ASSUME IInv, NEW t \in Tabs, Send(t) PROVE Replayed(t)
<1> DEFINE s == run[t].score
<1>1. /\ run[t].pc = "send"
      /\ UNCHANGED <<online, user, form, queue, shown, button, stored, foreign, silent, author, crossed>>
  BY DEF Send, history
<1>2. run[t] \in Runs /\ s \in Scores /\ slot[s] \in Slots
  BY <1>1, Instance DEF IInv, Loops, Ready
<1>3. Lists(copies) /\ misled \subseteq Scores /\ troubles \in 0 .. MaxTroubles
  BY DEF IInv, Server, Surroundings
<1>4. CASE ~IsChecked(run[t])
  <2>1. Post(t) /\ UNCHANGED <<copies, misled, troubles>>
    BY <1>4 DEF Send
  <2> QED
    BY <1>1, <1>2, <1>3, <1>4, <2>1, PostIs DEF Replayed
<1>5. CASE IsChecked(run[t]) /\ CheckNow(t)
  <2>1. UNCHANGED <<misled, troubles>>
    BY <1>5 DEF CheckNow
  <2>2. CASE user = NoUser
    BY <1>1, <1>2, <1>3, <1>5, <2>1, <2>2, StopIs DEF CheckNow, Replayed, Written
  <2>3. CASE user # NoUser
    <3>1. Compare(t, RunsOf(slot[s])) /\ copies' = Kept(slot[s])
      BY <1>5, <2>3 DEF CheckNow
    <3>2. Stops(t) \/ (Posts(t) /\ ~Rival(s))
      BY <3>1, CompareIs DEF Rival
    <3>3. Lists(copies')
      BY <1>2, <3>1, KeptTyped DEF IInv
    <3> QED
      BY <1>1, <1>2, <1>3, <2>1, <3>2, <3>3 DEF Replayed
  <2> QED
    BY <2>2, <2>3
<1>6. CASE IsChecked(run[t]) /\ CheckKept(t)
  <2> PICK c \in copies :
        /\ Compare(t, c.runs)
        /\ misled' = IF online /\ Rival(s) /\ c.runs \subseteq {s} THEN misled \cup {s} ELSE misled
    BY <1>6 DEF CheckKept
  <2>1. troubles' \in 0 .. MaxTroubles /\ UNCHANGED copies
    BY <1>3, <1>6, Troubled DEF CheckKept, IInv
  <2>2. Stops(t) \/ (online /\ Posts(t) /\ c.runs \subseteq {s})
    BY CompareIs
  <2> QED
    BY <1>1, <1>2, <1>3, <2>1, <2>2 DEF Replayed
<1>7. CASE IsChecked(run[t]) /\ CheckFails(t)
  <2>1. troubles' \in 0 .. MaxTroubles /\ UNCHANGED <<copies, misled>>
    BY <1>3, <1>7, Troubled DEF CheckFails, IInv
  <2>2. Stops(t)
    BY <1>7, StopIs DEF CheckFails, Written
  <2> QED
    BY <1>1, <1>2, <1>3, <2>1, <2>2 DEF Replayed
<1> QED
  BY <1>4, <1>5, <1>6, <1>7 DEF Send

LEMMA SendKeeps == ASSUME IInv, NEW t \in Tabs, Send(t) PROVE IInv'
<1> DEFINE s == run[t].score
           early == s \in run[t].early /\ ~run[t].force
           q == Request(s, t, early)
<1>1. Replayed(t)
  BY SendIs
<1>2. Surroundings' /\ Stores' /\ Server' /\ NothingLost'
  BY <1>1 DEF Replayed, IInv, Surroundings, Stores, Server, NothingLost
<1>3. /\ run[t].pc = "send" /\ run[t] \in Runs /\ s \in Scores
      /\ queue \in [Scores -> Entry \cup {NoEntry}]
  BY <1>1 DEF Replayed, IInv, Stores
<1>4. CASE Posts(t)
  <2>1. run' = [run EXCEPT ![t].pc = "posting"] /\ net' = net \cup {q}
    BY <1>4 DEF Posts
  <2>2. early \in BOOLEAN
    OBVIOUS
  <2> HIDE DEF early
  <2>3. q \in Requests /\ q.stage = "sent" /\ q.from = t
    BY <1>3, <2>2, RequestTyped DEF IInv, Surroundings
  <2> HIDE DEF q
  <2>4. \A p \in net : p.from # t
    BY <1>3 DEF IInv, Posted
  <2>5. Ready([run[t] EXCEPT !.pc = "posting"]) /\ [run[t] EXCEPT !.pc = "posting"] \in Runs
    BY <1>3 DEF Ready, Runs
  <2>6. run' = [run EXCEPT ![t] = [run[t] EXCEPT !.pc = "posting"]] /\ [run[t] EXCEPT !.pc = "posting"].pc = "posting"
    BY <1>3, <2>1 DEF Runs
  <2>7. Loops'
    BY <2>5, <2>6 DEF IInv, Loops
  <2>8. Network'
    BY <2>1, <2>3 DEF IInv, Network
  <2>9. run'[t].pc = "posting" /\ \A u \in Tabs \ {t} : run'[u] = run[u]
    BY <2>6 DEF IInv, Loops
  <2>10. Posted'
    BY <2>1, <2>3, <2>4, <2>9 DEF IInv, Posted
  <2> QED
    BY <1>2, <2>7, <2>8, <2>10 DEF IInv
<1>5. CASE Stops(t)
  <2> PICK status \in Written : run' = [run EXCEPT ![t] = Updating(run[t], status)] /\ UNCHANGED net
    BY <1>5 DEF Stops
  <2>1. Ready(Updating(run[t], status)) /\ Updating(run[t], status).pc # "posting"
    BY <1>3, UpdatingReady
  <2>2. Loops' /\ Network' /\ Posted'
    BY <1>3, <2>1, LoopKeeps
  <2> QED
    BY <1>2, <2>2 DEF IInv
<1> QED
  BY <1>1, <1>4, <1>5 DEF Replayed

(* The requests of a closed tab are nobody's.                              *)
LEMMA CloseTabKeeps == ASSUME IInv, NEW t \in Tabs, CloseTab(t) PROVE IInv'
<1> DEFINE left(r) == [r EXCEPT !.from = IF r.from = t THEN "nobody" ELSE r.from]
<1>1. /\ Trouble /\ run' = [run EXCEPT ![t] = Idle]
      /\ net' = {left(r) : r \in net}
      /\ UNCHANGED <<online, user, form, queue, shown, button, server, history>>
  BY DEF CloseTab
<1>2. Surroundings' /\ Stores' /\ Server' /\ NothingLost'
  BY <1>1, Troubled, ServerSame DEF IInv, Surroundings, Stores, NothingLost, history, server
<1>3. ASSUME NEW r \in net
      PROVE  /\ left(r) \in Requests
             /\ left(r).stage = "looked" => left(r).by \in Users
             /\ r.from = t => left(r).from = "nobody"
             /\ r.from # t => left(r) = r
  <2>1. r \in Requests /\ (r.stage = "looked" => r.by \in Users)
    BY DEF IInv, Network
  <2>2. CASE r.from = t
    BY <2>1, <2>2 DEF Requests
  <2>3. CASE r.from # t
    BY <2>1, <2>3 DEF Requests
  <2> QED
    BY <2>2, <2>3
<1>4. \A q \in net' : \E r \in net : q = left(r)
  BY <1>1
<1>5. \A r \in net : left(r) \in net'
  BY <1>1
<1> HIDE DEF left
<1>6. Network'
  BY <1>3, <1>4 DEF IInv, Network
<1>7. Loops'
  BY <1>1, IdleReady DEF IInv, Loops, Ready
<1>8. run'[t].pc # "posting" /\ \A u \in Tabs \ {t} : run'[u] = run[u]
  BY <1>1 DEF IInv, Loops, Idle
<1>9. \A q \in net' : q.from \in Tabs => q \in net /\ q.from # t
  BY <1>3, <1>4, Instance
<1>10. \A u \in Tabs \ {t} : \A r \in net : r.from = u => r \in net'
  BY <1>3, <1>5
<1>11. Posted'
  BY <1>8, <1>9, <1>10 DEF IInv, Posted
<1> QED
  BY <1>2, <1>6, <1>7, <1>11 DEF IInv

-----------------------------------------------------------------------------
(* The buttons.                                                            *)
LEMMA PressKeeps ==
  ASSUME IInv, NEW s \in Scores, NEW e \in Entry, Press(s, e), troubles' \in 0 .. MaxTroubles,
         author' \in [Scores -> Users \cup {NoUser}],
         UNCHANGED <<online, user, form, queue, shown, run, net, server, crossed>>
  PROVE  IInv'
<1>1. button' = [score |-> s, entry |-> e]
  BY DEF Press
<1>2. Surroundings' /\ Stores' /\ Server' /\ NothingLost'
  BY <1>1, ServerSame DEF IInv, Surroundings, Stores, NothingLost, server
<1>3. Loops' /\ Network' /\ Posted'
  BY LoopsSame DEF IInv
<1> QED
  BY <1>2, <1>3 DEF IInv

LEMMA RetryKeeps == ASSUME IInv, NEW s \in Scores, NEW force \in BOOLEAN, Retry(s, force) PROVE IInv'
<1>1. /\ queue[s] # NoEntry /\ Trouble
      /\ Press(s, [queue[s] EXCEPT !.status = "pending", !.force = force])
      /\ UNCHANGED <<online, user, form, queue, shown, run, net, server, history>>
  BY DEF Retry
<1>2. queue[s] \in Entry
  BY <1>1 DEF IInv, Stores
<1>3. [queue[s] EXCEPT !.status = "pending", !.force = force] \in Entry
  BY <1>2 DEF Entry
<1>4. troubles' \in 0 .. MaxTroubles /\ author' \in [Scores -> Users \cup {NoUser}] /\ UNCHANGED crossed
  BY <1>1, Troubled DEF IInv, Surroundings, history
<1> QED
  BY <1>1, <1>3, <1>4, PressKeeps

LEMMA ClaimKeeps == ASSUME IInv, NEW s \in Scores, Claim(s) PROVE IInv'
<1>1. /\ queue[s] # NoEntry
      /\ Press(s, [queue[s] EXCEPT !.status = "pending", !.user = user])
      /\ author' = [author EXCEPT ![s] = user]
      /\ UNCHANGED <<online, user, form, queue, shown, run, net, server, troubles, crossed>>
  BY DEF Claim
<1>2. queue[s] \in Entry /\ user \in Users \cup {NoUser}
  BY <1>1 DEF IInv, Stores, Surroundings
<1>3. [queue[s] EXCEPT !.status = "pending", !.user = user] \in Entry
  BY <1>2 DEF Entry
<1>4. troubles' \in 0 .. MaxTroubles /\ author' \in [Scores -> Users \cup {NoUser}]
  BY <1>1, <1>2 DEF IInv, Surroundings
<1> QED
  BY <1>1, <1>3, <1>4, PressKeeps

LEMMA PressedKeeps == IInv /\ Pressed => IInv'
<1> SUFFICES ASSUME IInv, Pressed PROVE IInv'
  OBVIOUS
<1>1. /\ button # NoButton
      /\ queue' = [queue EXCEPT ![button.score] = button.entry] /\ button' = NoButton
      /\ UNCHANGED <<online, user, form, shown, run, net, server, troubles, history>>
  BY DEF Pressed
<1>2. button.score \in Scores /\ button.entry \in Entry
  BY <1>1 DEF IInv, Stores
<1>3. button.entry # NoEntry
  BY <1>2, NoEntryIsNone
<1>4. Stores' /\ NothingLost'
  BY <1>1, <1>2, <1>3 DEF IInv, Stores, NothingLost, server
<1>5. Surroundings' /\ Server' /\ Loops' /\ Network' /\ Posted'
  BY <1>1, ServerSame, LoopsSame DEF IInv, Surroundings, history
<1> QED
  BY <1>4, <1>5 DEF IInv

LEMMA DiscardKeeps == ASSUME IInv, NEW s \in Scores, Discard(s) PROVE IInv'
<1>1. /\ queue' = [queue EXCEPT ![s] = NoEntry] /\ form' = [form EXCEPT ![s] = "discarded"]
      /\ UNCHANGED <<online, user, shown, button, net, server, troubles, history, run>>
  BY DEF Discard
<1>2. Stores' /\ NothingLost'
  BY <1>1 DEF IInv, Stores, NothingLost, server
<1>3. Surroundings' /\ Server' /\ Loops' /\ Network' /\ Posted'
  BY <1>1, ServerSame, LoopsSame DEF IInv, Surroundings, history
<1> QED
  BY <1>2, <1>3 DEF IInv

-----------------------------------------------------------------------------
(* The session, the connection and other devices.                          *)
LEMMA OutsideKeeps ==
  ASSUME IInv, Surroundings', UNCHANGED <<client, net, stored, silent, misled>>, foreign' \subseteq Slots,
         Lists(copies')
  PROVE  IInv'
<1>1. Stores' /\ Server' /\ NothingLost'
  BY DEF IInv, Stores, Server, NothingLost, client
<1>2. Loops' /\ Network' /\ Posted'
  BY LoopsSame DEF IInv, client
<1> QED
  BY <1>1, <1>2 DEF IInv

LEMMA SessionKeeps ==
  ASSUME IInv, SignOut \/ (\E u \in Users : SignIn(u)) \/ GoOffline \/ GoOnline
  PROVE  IInv'
<1>1. UnderWay \subseteq Scores
  BY DEF UnderWay
<1>2. UNCHANGED <<client, net, stored, silent, misled>> /\ UNCHANGED foreign /\ copies' \in {copies, {}}
  BY DEF SignOut, SignIn, GoOffline, GoOnline, server
<1>3. foreign' \subseteq Slots /\ Lists(copies')
  BY <1>2, FewerTyped DEF IInv, Server
<1>4. Surroundings'
  <2>1. CASE SignOut
    BY <1>1, <2>1, Troubled DEF SignOut, IInv, Surroundings
  <2>2. CASE \E u \in Users : SignIn(u)
    BY <1>1, <2>2 DEF SignIn, IInv, Surroundings
  <2>3. CASE GoOffline
    BY <2>3, Troubled DEF GoOffline, IInv, Surroundings, history
  <2>4. CASE GoOnline
    BY <2>4 DEF GoOnline, IInv, Surroundings, history
  <2> QED
    BY <2>1, <2>2, <2>3, <2>4
<1> QED
  BY <1>2, <1>3, <1>4, OutsideKeeps

LEMMA ElsewhereKeeps ==
  ASSUME IInv, (\E x \in Slots : ScoredElsewhere(x) \/ Visit(x)) \/ \E c \in copies : Expire(c)
  PROVE  IInv'
<1>1. UNCHANGED <<client, net, stored, silent, misled>>
  BY DEF ScoredElsewhere, Visit, Expire
<1>2. CASE \E x \in Slots : ScoredElsewhere(x)
  <2>1. Surroundings' /\ foreign' \subseteq Slots /\ Lists(copies')
    BY <1>2, Troubled DEF ScoredElsewhere, IInv, Surroundings, Server, history
  <2> QED
    BY <1>1, <2>1, OutsideKeeps
<1>3. CASE (\E x \in Slots : Visit(x)) \/ \E c \in copies : Expire(c)
  <2>1. Surroundings' /\ UNCHANGED foreign
    BY <1>3 DEF Visit, Expire, IInv, Surroundings, history
  <2>2. Lists(copies')
    BY <1>3, KeptTyped, FewerTyped DEF Visit, Expire, IInv
  <2> QED
    BY <1>1, <2>1, <2>2, OutsideKeeps DEF IInv, Server
<1> QED
  BY <1>2, <1>3

-----------------------------------------------------------------------------
LEMMA NextKeeps == IInv /\ [Next]_vars => IInv'
<1> SUFFICES ASSUME IInv, [Next]_vars PROVE IInv'
  OBVIOUS
<1>1. ASSUME NEW s \in Scores, Save(s) \/ Claim(s) \/ Discard(s) \/ \E f \in BOOLEAN : Retry(s, f)
      PROVE  IInv'
  BY <1>1, SaveKeeps, ClaimKeeps, DiscardKeeps, RetryKeeps
<1>2. ASSUME NEW t \in Tabs, StartSync(t) \/ Loop(t) \/ CloseTab(t) PROVE IInv'
  BY <1>2, StartSyncKeeps, TakeKeeps, WriteBackKeeps, SendKeeps, CloseTabKeeps DEF Loop
<1>3. ASSUME NEW r \in net,
             \/ Serve(r) \/ Lose(r) \/ SaveUnanswered(r) \/ PostUnanswered(r)
             \/ \E status \in {"error", "pending"} : Refuse(r, status)
      PROVE  IInv'
  BY <1>3, LookKeeps, InsertKeeps, LoseKeeps, SaveUnansweredKeeps, PostUnansweredKeeps, RefuseKeeps DEF Serve
<1>4. CASE (\E x \in Slots : ScoredElsewhere(x) \/ Visit(x)) \/ \E c \in copies : Expire(c)
  BY <1>4, ElsewhereKeeps
<1>5. CASE SignOut \/ (\E u \in Users : SignIn(u)) \/ GoOffline \/ GoOnline
  BY <1>5, SessionKeeps
<1>6. CASE Pressed
  BY <1>6, PressedKeeps
<1>7. CASE UNCHANGED vars
  <2>1. Surroundings' /\ foreign' \subseteq Slots /\ Lists(copies')
    BY <1>7 DEF vars, server, history, IInv, Surroundings, Server
  <2> QED
    BY <1>7, <2>1, OutsideKeeps DEF vars, server
<1> QED
  BY <1>1, <1>2, <1>3, <1>4, <1>5, <1>6, <1>7 DEF Next

LEMMA AlwaysIInv == Spec => []IInv
  BY InitHolds, NextKeeps, PTL DEF Spec

(* The variables keep their shapes, and every loop that waits for an       *)
(* answer has exactly one request under way.                               *)
THEOREM TypeCorrect == Spec => []TypeOK
  BY AlwaysIInv, Implied, PTL

(* A score the juror was told is kept is in the queue or on the server,    *)
(* until a user discards it: an entry only leaves after the server has the *)
(* run (syncQueuedScores), whatever other tabs write back over it.         *)
THEOREM NeverLost == Spec => []NothingLost
<1>1. IInv => NothingLost
  BY DEF IInv
<1> QED
  BY <1>1, AlwaysIInv, PTL

(* A score is recorded once at most, however many tabs send it and however *)
(* often: the idempotency key of create_match is unique.                   *)
THEOREM RecordedAtMostOnce == Spec => []RecordedOnce
  BY AlwaysIInv, Implied, PTL

-----------------------------------------------------------------------------
(* Who a score is recorded for, and what a replay may be recorded over:    *)
(* where a score under way comes from.                                     *)

(* A loop is about the entries it lists and the one in work; a score is    *)
(* engaged while a loop or a request is about it.                          *)
About(r, s) == r.score = s \/ \E e \in r.todo : e.score = s
Engaged(s) == (\E r \in net : r.score = s) \/ \E t \in Tabs : About(run[t], s)

(* What a loop is about after a step it was about before; what it will     *)
(* write back it has read just now, or holds still.                        *)
Inherits(q, r) ==
  /\ \A s \in Scores : About(q, s) => About(r, s)
  /\ q.early \subseteq r.early
  /\ q.pc = "set" => \/ r.pc = "set" /\ q.score = r.score /\ q.copy = r.copy
                     \/ About(r, q.score) /\ queue[q.score] # NoEntry /\ q.copy = queue[q.score]

LoopsFollow == \A t \in Tabs : Inherits(run'[t], run[t])
NetFollows == \A r \in net' : \E q \in net : /\ r.score = q.score /\ r.by = q.by /\ r.early = q.early
                                             /\ slot[r.score] \in Seeding /\ r.early => r.stage = q.stage

LEMMA NothingInherits == \A s \in Scores : ~About(Idle, s)
  BY NoEntryIsNone DEF About, Idle

LEMMA IdleInherits == ASSUME NEW r PROVE Inherits(Idle, r)
<1>1. Idle.early = {} /\ Idle.pc # "set"
  BY DEF Idle
<1> QED
  BY <1>1, NothingInherits DEF Inherits

LEMMA AfterInherits ==
  ASSUME NEW r \in Runs PROVE Inherits(After(r), r) /\ After(r).pc # "set"
<1>1. CASE r.status = "syncing"
  <2>1. After(r) = [r EXCEPT !.pc = "send", !.copy = NoEntry]
    BY <1>1 DEF After
  <2>2. After(r).pc = "send" /\ After(r).score = r.score /\ After(r).todo = r.todo /\ After(r).early = r.early
    BY <2>1 DEF Runs
  <2> QED
    BY <2>2 DEF Inherits, About
<1>2. CASE r.status # "syncing" /\ (r.status = "pending" \/ r.todo = {})
  <2>1. After(r) = Idle
    BY <1>2 DEF After
  <2>2. Idle.pc # "set"
    BY DEF Idle
  <2> QED
    BY <2>1, <2>2, IdleInherits
<1>3. CASE r.status # "syncing" /\ ~(r.status = "pending" \/ r.todo = {})
  <2> DEFINE kept == r.early \cap {e.score : e \in r.todo}
  <2>1. After(r) = [Idle EXCEPT !.pc = "next", !.todo = r.todo, !.early = kept]
    BY <1>3 DEF After
  <2>2. kept \subseteq r.early
    OBVIOUS
  <2> HIDE DEF kept
  <2>3. After(r).pc = "next" /\ After(r).score = NoEntry /\ After(r).todo = r.todo /\ After(r).early = kept
    BY <2>1 DEF Idle
  <2> QED
    BY <2>2, <2>3, NoEntryIsNone DEF Inherits, About
<1> QED
  BY <1>1, <1>2, <1>3

LEMMA InheritsFrom ==
  ASSUME NEW q, NEW p, NEW r, Inherits(q, p), p.pc # "set", p.early = r.early,
         \A s : About(p, s) => About(r, s)
  PROVE  Inherits(q, r)
  BY DEF Inherits

(* Setting the status of a loop changes nothing it is about.               *)
LEMMA UpdatingInherits ==
  ASSUME NEW r \in Runs, NEW status \in Written, r.pc # "set" PROVE Inherits(Updating(r, status), r)
<1>1. CASE queue[r.score] = NoEntry
  <2> DEFINE p == [r EXCEPT !.status = status]
  <2>1. p \in Runs /\ p.pc = r.pc /\ p.early = r.early /\ p.score = r.score /\ p.todo = r.todo
    BY DEF Runs, Written
  <2>2. Updating(r, status) = After(p)
    BY <1>1 DEF Updating
  <2> HIDE DEF p
  <2>3. Inherits(After(p), p)
    BY <2>1, AfterInherits
  <2>4. \A s : About(p, s) => About(r, s)
    BY <2>1 DEF About
  <2> QED
    BY <2>1, <2>2, <2>3, <2>4, InheritsFrom
<1>2. CASE queue[r.score] # NoEntry
  <2> DEFINE u == [r EXCEPT !.pc = "set", !.status = status, !.copy = queue[r.score]]
  <2>1. u.score = r.score /\ u.todo = r.todo /\ u.early = r.early /\ u.copy = queue[r.score]
    BY DEF Runs
  <2>2. Updating(r, status) = u
    BY <1>2 DEF Updating
  <2> HIDE DEF u
  <2> QED
    BY <1>2, <2>1, <2>2 DEF Inherits, About
<1> QED
  BY <1>1, <1>2

LEMMA LoopsStay == UNCHANGED run => LoopsFollow
  BY DEF LoopsFollow, Inherits

LEMMA OneFollows ==
  ASSUME IInv, NEW t \in Tabs, NEW next, run' = [run EXCEPT ![t] = next], Inherits(next, run[t])
  PROVE  LoopsFollow
<1>1. \A u \in Tabs : run'[u] = IF u = t THEN next ELSE run[u]
  BY DEF IInv, Loops
<1>2. \A u \in Tabs : Inherits(run[u], run[u])
  BY DEF Inherits
<1> QED
  BY <1>1, <1>2 DEF LoopsFollow

LEMMA NetShrinks == net' \subseteq net => NetFollows
  BY DEF NetFollows

-----------------------------------------------------------------------------
(* A replay over another run: what a loop saw when it began is there       *)
(* still, so the server sees it in a seeding round (Look), and the loop    *)
(* itself for a scheduled match, unless a kept list misleads it (Send).    *)
SeenStays == \A t \in Tabs : \A s \in run[t].early : Rival(s)
Explained(r) == /\ Rival(r.score)
                /\ slot[r.score] \in Seeding => r.stage = "sent"
                /\ slot[r.score] \notin Seeding => r.score \in misled
EarlyOnes == \A r \in net : r.early => Explained(r)
Noticed == SeenStays /\ EarlyOnes /\ RivalsAreNoticed

RivalsStay == \A s \in Scores : Rival(s) => Rival(s)'
SilentStays == /\ misled \subseteq misled'
               /\ \A s \in silent' \ silent : s \in misled /\ slot[s] \notin Seeding

LEMMA RivalsRemain ==
  foreign \subseteq foreign' /\ (\A s \in Scores : stored[s] # <<>> => stored'[s] # <<>>) => RivalsStay
<1> SUFFICES ASSUME foreign \subseteq foreign', \A s \in Scores : stored[s] # <<>> => stored'[s] # <<>>
             PROVE  RivalsStay
  OBVIOUS
<1>1. \A x : RunsOf(x) \subseteq RunsOf(x)'
  BY DEF RunsOf
<1> QED
  BY <1>1 DEF RivalsStay, Rival

LEMMA StillNoticed ==
  ASSUME IInv, Noticed, RivalsStay, LoopsFollow, NetFollows, SilentStays
  PROVE  Noticed'
<1>1. SeenStays'
  <2> SUFFICES ASSUME NEW t \in Tabs, NEW s \in run'[t].early PROVE Rival(s)'
    BY DEF SeenStays
  <2>1. s \in run[t].early
    BY DEF LoopsFollow, Inherits
  <2>2. run[t].early \subseteq Scores
    BY DEF IInv, Loops, Runs
  <2> QED
    BY <2>1, <2>2 DEF Noticed, SeenStays, RivalsStay
<1>2. EarlyOnes'
  <2> SUFFICES ASSUME NEW r \in net', r.early PROVE Explained(r)'
    BY DEF EarlyOnes
  <2> PICK q \in net : /\ r.score = q.score /\ r.early = q.early
                       /\ slot[r.score] \in Seeding /\ r.early => r.stage = q.stage
    BY DEF NetFollows
  <2>1. q.score \in Scores
    BY DEF IInv, Network, Requests
  <2>2. Explained(q)
    BY DEF Noticed, EarlyOnes
  <2>3. Rival(r.score)'
    BY <2>1, <2>2 DEF Explained, RivalsStay
  <2> QED
    BY <2>2, <2>3 DEF Explained, SilentStays
<1>3. RivalsAreNoticed'
  BY DEF Noticed, RivalsAreNoticed, SilentStays
<1> QED
  BY <1>1, <1>2, <1>3 DEF Noticed

-----------------------------------------------------------------------------
(* The author: a score that was never under way while the session changed  *)
(* is under way for its author only, who is signed in as long as it is.    *)
Untouched == \A s \in Scores : form[s] = "new" => queue[s] = NoEntry /\ stored[s] = <<>> /\ s \notin UnderWay
OneSession == \A s \in UnderWay \ crossed : author[s] = user /\ user # NoUser
Carried == /\ \A r \in net : r.score \notin crossed => r.by = user
           /\ \A t \in Tabs : run[t].pc = "set" /\ run[t].score \notin crossed => run[t].copy.user = user
           /\ button # NoButton /\ button.score \notin crossed => button.entry.user = user
Owned == \A s \in Scores \ crossed :
           queue[s] # NoEntry => /\ queue[s].user \in {author[s], NoUser}
                                 /\ queue[s].user = NoUser => stored[s] = <<>> /\ ~Engaged(s)
Attributed == Untouched /\ OneSession /\ Carried /\ Owned /\ SentAsAuthor

(* What a step within one session may do.                                  *)
MineNow(s) == queue[s] # NoEntry /\ queue[s].user = user /\ user # NoUser
FormsSettle == \A s \in Scores : form'[s] \in {"new", "sending"} => form'[s] = form[s]
Engages == \A s \in Scores : Engaged(s)' => Engaged(s) \/ (MineNow(s) /\ queue'[s] = queue[s])
Presses == button'.score \in Scores =>
             \/ button' = button
             \/ MineNow(button'.score) /\ UNCHANGED queue /\ button'.entry.user = user
Sends == \A r \in net' : r.score \in Scores /\ (r.score \notin crossed => r.by = user)
Holds == \A t \in Tabs : run'[t].pc = "set" /\ run'[t].score \notin crossed => run'[t].copy.user = user
Queues == \A s \in Scores : \/ queue'[s] \in {queue[s], NoEntry}
                            \/ s \in UnderWay /\ (s \notin crossed => queue'[s].user = user)
Records == \A s \in Scores : \/ stored'[s] = stored[s]
                             \/ Engaged(s) /\ (s \notin crossed => stored'[s] = <<user>>)
InSession == UNCHANGED <<user, author, crossed>> /\ FormsSettle /\ Engages /\ Presses /\ Sends /\ Holds
             /\ Queues /\ Records

LEMMA UnderWayIs == \A s \in Scores : s \in UnderWay <=> form[s] = "sending" \/ button.score = s \/ Engaged(s)
  BY DEF UnderWay, Engaged, About

LEMMA NobodysButton == NoButton.score \notin Scores
  BY NoEntryIsNone DEF NoButton

LEMMA StillAttributed ==
  ASSUME IInv, IInv', Attributed, InSession
  PROVE  Attributed'
<1>1. ASSUME NEW s \in Scores \ crossed, MineNow(s) PROVE author[s] = user /\ user # NoUser /\ form[s] # "new"
  BY <1>1 DEF Attributed, Owned, MineNow, Untouched
<1>2. ASSUME NEW s \in Scores, s \in UnderWay' PROVE s \in UnderWay \/ MineNow(s)
  <2>1. UnderWay' = {x \in Scores : form'[x] = "sending" \/ button'.score = x \/ Engaged(x)'}
    BY DEF UnderWay, Engaged, About
  <2>2. CASE form'[s] = "sending"
    BY <2>2, UnderWayIs DEF InSession, FormsSettle
  <2>3. CASE button'.score = s
    BY <2>3, UnderWayIs DEF InSession, Presses
  <2>4. CASE Engaged(s)'
    BY <2>4, UnderWayIs DEF InSession, Engages
  <2> QED
    BY <1>2, <2>1, <2>2, <2>3, <2>4
<1>3. OneSession'
  BY <1>1, <1>2 DEF Attributed, OneSession, InSession, UnderWay
<1>4. Untouched'
  <2> SUFFICES ASSUME NEW s \in Scores, form'[s] = "new"
               PROVE  queue'[s] = NoEntry /\ stored'[s] = <<>> /\ s \notin UnderWay'
    BY DEF Untouched
  <2>1. form[s] = "new"
    BY DEF InSession, FormsSettle
  <2>2. queue[s] = NoEntry /\ stored[s] = <<>> /\ s \notin UnderWay /\ ~Engaged(s)
    BY <2>1, UnderWayIs DEF Attributed, Untouched
  <2>3. ~MineNow(s)
    BY <2>2 DEF MineNow
  <2> QED
    BY <2>2, <2>3, <1>2 DEF InSession, Queues, Records
<1>5. Carried'
  <2>1. ASSUME button' # NoButton, button'.score \notin crossed PROVE button'.entry.user = user
    <3>1. button'.score \in Scores
      BY <2>1 DEF IInv, Stores
    <3> QED
      BY <2>1, <3>1 DEF InSession, Presses, Attributed, Carried
  <2> QED
    BY <2>1 DEF Carried, InSession, Sends, Holds
<1>6. Owned'
  <2> SUFFICES ASSUME NEW s \in Scores \ crossed, queue'[s] # NoEntry
               PROVE  /\ queue'[s].user \in {author[s], NoUser}
                      /\ queue'[s].user = NoUser => stored'[s] = <<>> /\ ~Engaged(s)'
    BY DEF Owned, InSession
  <2>1. CASE s \in UnderWay /\ queue'[s].user = user
    BY <2>1 DEF Attributed, OneSession
  <2>2. CASE queue'[s] = queue[s]
    <3>1. queue[s].user \in {author[s], NoUser} /\ (queue[s].user = NoUser => stored[s] = <<>> /\ ~Engaged(s))
      BY <2>2 DEF Attributed, Owned
    <3> QED
      BY <2>2, <3>1 DEF InSession, Engages, Records, MineNow
  <2> QED
    BY <2>1, <2>2 DEF InSession, Queues
<1>7. SentAsAuthor'
  <2> SUFFICES ASSUME NEW s \in Scores, NEW i \in 1 .. Len(stored'[s]), s \notin crossed
               PROVE  stored'[s][i] = author[s]
    BY DEF SentAsAuthor, InSession
  <2>1. CASE stored'[s] = stored[s]
    BY <2>1 DEF Attributed, SentAsAuthor
  <2>2. CASE Engaged(s) /\ stored'[s] = <<user>>
    <3>1. author[s] = user
      BY <2>2, UnderWayIs DEF Attributed, OneSession
    <3>2. i = 1
      BY <2>2
    <3> QED
      BY <2>2, <3>1, <3>2
  <2> QED
    BY <2>1, <2>2 DEF InSession, Records
<1> QED
  BY <1>3, <1>4, <1>5, <1>6, <1>7 DEF Attributed

-----------------------------------------------------------------------------
(* The steps, one after the other.                                         *)
Traced == Attributed /\ Noticed

(* A step that begins nothing new: the loops and the requests go on with   *)
(* what they were about.                                                   *)
LEMMA FollowsInSession ==
  ASSUME IInv, IInv', Attributed, LoopsFollow, NetFollows, UNCHANGED user
  PROVE  Engages /\ Sends /\ Holds
<1>1. \A s \in Scores : Engaged(s)' => Engaged(s)
  BY DEF Engaged, LoopsFollow, NetFollows, Inherits
<1>2. Engages
  BY <1>1 DEF Engages
<1>3. Sends
  BY DEF Sends, NetFollows, Attributed, Carried, IInv, Network, Requests
<1>4. Holds
  <2> SUFFICES ASSUME NEW t \in Tabs, run'[t].pc = "set", run'[t].score \notin crossed
               PROVE  run'[t].copy.user = user
    BY DEF Holds
  <2> DEFINE s == run'[t].score
  <2>1. s \in Scores
    BY DEF IInv, Loops, Ready
  <2>2. CASE run[t].pc = "set" /\ s = run[t].score /\ run'[t].copy = run[t].copy
    BY <2>2 DEF Attributed, Carried
  <2>3. CASE About(run[t], s) /\ queue[s] # NoEntry /\ run'[t].copy = queue[s]
    <3>1. Engaged(s) /\ s \in UnderWay
      BY <2>1, <2>3, UnderWayIs DEF Engaged
    <3>2. author[s] = user /\ user # NoUser
      BY <3>1 DEF Attributed, OneSession
    <3>3. queue[s].user \in {author[s], NoUser} /\ queue[s].user # NoUser
      BY <2>1, <2>3, <3>1 DEF Attributed, Owned
    <3> QED
      BY <2>3, <3>2, <3>3
  <2> QED
    BY <2>2, <2>3 DEF LoopsFollow, Inherits
<1> QED
  BY <1>2, <1>3, <1>4

LEMMA Follows ==
  ASSUME IInv, IInv', Traced, LoopsFollow, NetFollows, UNCHANGED <<user, author, crossed>>,
         FormsSettle, Presses, Queues, Records, RivalsStay, SilentStays
  PROVE  Traced'
<1>1. InSession
  BY FollowsInSession DEF Traced, InSession
<1> QED
  BY <1>1, StillAttributed, StillNoticed DEF Traced

LEMMA SameStores ==
  /\ UNCHANGED form => FormsSettle
  /\ UNCHANGED button => Presses
  /\ UNCHANGED queue => Queues
  /\ UNCHANGED <<stored, foreign>> => Records /\ RivalsStay
  /\ UNCHANGED <<silent, misled>> => SilentStays
  BY DEF FormsSettle, Presses, Queues, Records, RivalsStay, Rival, RunsOf, SilentStays

LEMMA AnswerFollows ==
  ASSUME IInv, NEW r \in net, NEW status \in {"ok", "pending", "conflict", "error"}, Answer(r, status)
  PROVE  LoopsFollow /\ FormsSettle /\ Queues
<1>1. r.score \in Scores
  BY DEF IInv, Network, Requests
<1>2. FormsSettle
  BY <1>1 DEF FormsSettle, Answer, IInv, Stores
<1>3. Queues
  BY <1>1 DEF Queues, Answer, IInv, Stores
<1>4. LoopsFollow
  <2> SUFFICES ASSUME NEW t \in Tabs PROVE Inherits(run'[t], run[t])
    BY DEF LoopsFollow
  <2>1. run'[t] = IF r.from # t THEN run[t]
                  ELSE IF status = "ok" THEN After([run[t] EXCEPT !.status = "ok"])
                  ELSE Updating(run[t], status)
    BY DEF Answer
  <2>2. run[t] \in Runs
    BY DEF IInv, Loops
  <2>3. CASE r.from # t
    BY <2>1, <2>3 DEF Inherits
  <2>4. CASE r.from = t /\ status = "ok"
    <3> DEFINE p == [run[t] EXCEPT !.status = "ok"]
    <3>1. p \in Runs /\ p.early = run[t].early /\ p.score = run[t].score /\ p.todo = run[t].todo
          /\ p.pc = run[t].pc
      BY <2>2 DEF Runs
    <3>2. run[t].pc # "set"
      BY <2>4 DEF IInv, Posted
    <3>3. run'[t] = After(p)
      BY <2>1, <2>4
    <3> HIDE DEF p
    <3>4. Inherits(After(p), p)
      BY <3>1, AfterInherits
    <3>5. \A s : About(p, s) => About(run[t], s)
      BY <3>1 DEF About
    <3> QED
      BY <3>1, <3>2, <3>3, <3>4, <3>5, InheritsFrom
  <2>5. CASE r.from = t /\ status # "ok"
    <3>1. run[t].pc # "set"
      BY <2>5 DEF IInv, Posted
    <3>2. status \in Written
      BY <2>5 DEF Written
    <3> QED
      BY <2>1, <2>2, <2>5, <3>1, <3>2, UpdatingInherits
  <2> QED
    BY <2>3, <2>4, <2>5
<1> QED
  BY <1>2, <1>3, <1>4

(* The look for the round is what catches an early request of a round.     *)
LEMMA LookTraced == ASSUME IInv, IInv', Traced, NEW r \in net, Look(r) PROVE Traced'
<1> DEFINE known == stored[r.score] # <<>>
           round == slot[r.score] \in Seeding /\ Rival(r.score)
           go == r.by # NoUser /\ ~known /\ ~round
           status == IF r.by = NoUser THEN "error" ELSE IF known THEN "ok" ELSE "conflict"
<1>1. UNCHANGED <<user, button, stored, foreign, silent, misled, author, crossed>>
  BY DEF Look, server, history
<1>2. CASE go
  <2>1. net' = (net \ {r}) \cup {[r EXCEPT !.stage = "looked"]} /\ UNCHANGED <<form, queue, run>>
    BY <1>2 DEF Look
  <2>2. r \in Requests /\ (r.early => slot[r.score] \notin Seeding)
    BY <1>2 DEF IInv, Network, Traced, Noticed, EarlyOnes, Explained
  <2> DEFINE q == [r EXCEPT !.stage = "looked"]
  <2>3. q.score = r.score /\ q.by = r.by /\ q.early = r.early
    BY <2>2 DEF Requests
  <2>4. net' = (net \ {r}) \cup {q}
    BY <2>1
  <2> HIDE DEF q
  <2>5. NetFollows
    BY <2>2, <2>3, <2>4 DEF NetFollows
  <2> QED
    BY <1>1, <2>1, <2>5, LoopsStay, SameStores, Follows
<1>3. CASE ~go
  <2>1. net' = net \ {r} /\ Answer(r, status)
    BY <1>3 DEF Look
  <2>2. status \in {"ok", "pending", "conflict", "error"}
    OBVIOUS
  <2> HIDE DEF status
  <2> QED
    BY <1>1, <2>1, <2>2, AnswerFollows, NetShrinks, SameStores, Follows
<1> QED
  BY <1>2, <1>3

LEMMA InsertTraced == ASSUME IInv, IInv', Traced, NEW r \in net, Insert(r) PROVE Traced'
<1> DEFINE taken == stored[r.score] # <<>>
           status == IF taken THEN "conflict" ELSE "ok"
<1>1. /\ net' = net \ {r} /\ Answer(r, status)
      /\ stored' = IF taken THEN stored ELSE [stored EXCEPT ![r.score] = Append(stored[r.score], r.by)]
      /\ silent' = IF ~taken /\ r.early THEN silent \cup {r.score} ELSE silent
      /\ UNCHANGED <<user, button, foreign, misled, author, crossed>>
  BY DEF Insert, history
<1>2. r.score \in Scores /\ r.by \in Users
  BY DEF IInv, Network, Requests, Insert
<1>3. SilentStays
  <2>1. r.early => r.score \in misled /\ slot[r.score] \notin Seeding
    BY DEF Insert, Traced, Noticed, EarlyOnes, Explained
  <2> QED
    BY <1>1, <2>1 DEF SilentStays
<1>4. status \in {"ok", "pending", "conflict", "error"}
  OBVIOUS
<1> HIDE DEF status
<1>5. \A s \in Scores : stored'[s] = stored[s] \/ (s = r.score /\ stored'[s] = <<r.by>>)
  <2>1. Append(<<>>, r.by) = <<r.by>>
    OBVIOUS
  <2>2. CASE taken
    BY <1>1, <2>2
  <2>3. CASE ~taken
    <3>1. stored' = [stored EXCEPT ![r.score] = <<r.by>>]
      BY <1>1, <2>1, <2>3
    <3> QED
      BY <3>1 DEF IInv, Server
  <2> QED
    BY <2>2, <2>3
<1>6. Records
  <2>1. Engaged(r.score)
    BY DEF Engaged
  <2>2. r.score \notin crossed => r.by = user
    BY DEF Traced, Attributed, Carried
  <2> QED
    BY <1>5, <2>1, <2>2 DEF Records
<1>7. RivalsStay
  <2>1. <<r.by>> # <<>>
    OBVIOUS
  <2>2. \A s \in Scores : stored[s] # <<>> => stored'[s] # <<>>
    BY <1>5, <2>1
  <2> QED
    BY <1>1, <2>2, RivalsRemain
<1> QED
  BY <1>1, <1>3, <1>4, <1>6, <1>7, AnswerFollows, NetShrinks, SameStores, Follows

LEMMA RefuseTraced ==
  ASSUME IInv, IInv', Traced, NEW r \in net, NEW status \in {"error", "pending"}, Refuse(r, status)
  PROVE  Traced'
<1>1. /\ net' = net \ {r} /\ Answer(r, status)
      /\ UNCHANGED <<user, button, stored, foreign, silent, misled, author, crossed>>
  BY DEF Refuse, server, history
<1> QED
  BY <1>1, AnswerFollows, NetShrinks, SameStores, Follows

LEMMA LoseTraced == ASSUME IInv, IInv', Traced, NEW r \in net, Lose(r) PROVE Traced'
<1>1. /\ net' = net \ {r}
      /\ UNCHANGED <<user, form, queue, run, button, stored, foreign, silent, misled, author, crossed>>
  BY DEF Lose, server, client, history
<1> QED
  BY <1>1, NetShrinks, LoopsStay, SameStores, Follows

LEMMA AbandonedFollows == ASSUME IInv, NEW r \in net, net' = Abandoned(r) PROVE NetFollows
<1> DEFINE g == [r EXCEPT !.from = "nobody"]
<1>1. r \in Requests
  BY DEF IInv, Network
<1>2. g.score = r.score /\ g.by = r.by /\ g.early = r.early /\ g.stage = r.stage
  BY <1>1 DEF Requests
<1>3. net' = (net \ {r}) \cup {g}
  BY DEF Abandoned
<1> HIDE DEF g
<1> QED
  BY <1>2, <1>3 DEF NetFollows

(* The entry is queued for who is signed in now: that is the author.       *)
LEMMA SaveUnansweredTraced ==
  ASSUME IInv, IInv', Traced, NEW r \in net, SaveUnanswered(r) PROVE Traced'
<1>1. /\ net' = Abandoned(r) /\ form' = [form EXCEPT ![r.score] = "kept"]
      /\ queue' = [queue EXCEPT ![r.score] = IF queue[r.score] # NoEntry THEN queue[r.score] ELSE Pending(user)]
      /\ UNCHANGED <<user, run, button, stored, foreign, silent, misled, author, crossed>>
  BY DEF SaveUnanswered, server, history
<1>2. r.score \in Scores /\ r.score \in UnderWay
  BY UnderWayIs DEF IInv, Network, Requests, Engaged
<1>3. FormsSettle
  BY <1>1, <1>2 DEF FormsSettle, IInv, Stores
<1>4. Pending(user).user = user
  BY DEF Pending
<1>5. \A s \in Scores : queue'[s] = queue[s] \/ (s = r.score /\ queue'[s] = Pending(user))
  BY <1>1, <1>2 DEF IInv, Stores
<1>6. Queues
  BY <1>2, <1>4, <1>5 DEF Queues
<1> QED
  BY <1>1, <1>3, <1>6, AbandonedFollows, LoopsStay, SameStores, Follows

LEMMA PostUnansweredTraced ==
  ASSUME IInv, IInv', Traced, NEW r \in net, PostUnanswered(r) PROVE Traced'
<1> DEFINE t == r.from
<1>1. /\ t \in Tabs /\ net' = Abandoned(r) /\ run' = [run EXCEPT ![t] = Updating(run[t], "pending")]
      /\ UNCHANGED <<user, form, queue, button, stored, foreign, silent, misled, author, crossed>>
  BY DEF PostUnanswered, server, history
<1>2. run[t] \in Runs /\ run[t].pc # "set"
  BY <1>1 DEF IInv, Loops, Posted
<1>3. LoopsFollow
  BY <1>1, <1>2, UpdatingInherits, OneFollows DEF Written
<1> QED
  BY <1>1, <1>3, AbandonedFollows, SameStores, Follows

(* A step of a loop that sends nothing.                                    *)
LEMMA LoopTraced ==
  ASSUME IInv, IInv', Traced, NEW t \in Tabs, NEW next, Inherits(next, run[t]),
         run' = [run EXCEPT ![t] = next],
         UNCHANGED <<user, form, button, net, stored, foreign, silent, misled, author, crossed>>, Queues
  PROVE  Traced'
  BY OneFollows, NetShrinks, SameStores, Follows

LEMMA TakeTraced == ASSUME IInv, IInv', Traced, NEW t \in Tabs, Take(t) PROVE Traced'
<1>1. /\ run[t].pc = "next"
      /\ UNCHANGED <<user, form, queue, button, net, stored, foreign, silent, misled, author, crossed>>
  BY DEF Take, server, history
<1>2. CASE ~online
  <2>1. run' = [run EXCEPT ![t] = Idle]
    BY <1>2 DEF Take
  <2> QED
    BY <1>1, <2>1, IdleInherits, SameStores, LoopTraced
<1>3. CASE online
  <2> DEFINE taken(l) == [run[t] EXCEPT !.todo = run[t].todo \ {l}, !.score = l.score, !.force = l.force]
  <2> PICK listed \in run[t].todo : run' = [run EXCEPT ![t] = Updating(taken(listed), "syncing")]
    BY <1>3 DEF Take
  <2> DEFINE r == taken(listed)
  <2>1. run[t] \in Runs /\ run[t].todo \in SUBSET [score : Scores, force : BOOLEAN]
    BY DEF IInv, Loops, Runs
  <2>2. listed.score \in Scores /\ listed.force \in BOOLEAN
        /\ run[t].todo \ {listed} \in SUBSET [score : Scores, force : BOOLEAN]
    BY <2>1
  <2>3. /\ r \in Runs /\ r.pc = run[t].pc /\ r.early = run[t].early
        /\ r.score = listed.score /\ r.todo \subseteq run[t].todo
    BY <2>1, <2>2 DEF Runs
  <2>4. run' = [run EXCEPT ![t] = Updating(r, "syncing")]
    OBVIOUS
  <2> HIDE DEF r
  <2>5. Inherits(Updating(r, "syncing"), r)
    BY <1>1, <2>3, UpdatingInherits DEF Written
  <2>6. \A s : About(r, s) => About(run[t], s)
    BY <2>3 DEF About
  <2>7. Inherits(Updating(r, "syncing"), run[t])
    BY <1>1, <2>3, <2>5, <2>6, InheritsFrom
  <2> QED
    BY <1>1, <2>4, <2>7, SameStores, LoopTraced
<1> QED
  BY <1>2, <1>3

(* What is written back was read within this session.                      *)
LEMMA WriteBackTraced == ASSUME IInv, IInv', Traced, NEW t \in Tabs, WriteBack(t) PROVE Traced'
<1> DEFINE r == run[t]
           e == [r.copy EXCEPT !.status = r.status]
<1>1. /\ r.pc = "set" /\ queue' = [queue EXCEPT ![r.score] = e]
      /\ run' = [run EXCEPT ![t] = After(r)]
      /\ UNCHANGED <<user, form, button, net, stored, foreign, silent, misled, author, crossed>>
  BY DEF WriteBack, server, history
<1>2. r \in Runs /\ r.score \in Scores /\ r.copy \in Entry
  BY <1>1 DEF IInv, Loops, Ready
<1>3. e.user = r.copy.user
  BY <1>2 DEF Entry
<1> HIDE DEF e
<1>4. r.score \in UnderWay
  BY <1>2 DEF UnderWay
<1>5. r.score \notin crossed => e.user = user
  BY <1>1, <1>3 DEF Traced, Attributed, Carried
<1>6. Queues
  BY <1>1, <1>2, <1>4, <1>5 DEF Queues, IInv, Stores
<1>7. Inherits(After(r), r)
  BY <1>2, AfterInherits
<1> QED
  BY <1>1, <1>6, <1>7, LoopTraced

(* The loop sends with the session of now; an early entry of a scheduled   *)
(* match only gets past the loop's own check if a kept list misleads it.   *)
LEMMA SendTraced == ASSUME IInv, IInv', Traced, NEW t \in Tabs, Send(t) PROVE Traced'
<1> DEFINE s == run[t].score
           early == s \in run[t].early /\ ~run[t].force
           q == Request(s, t, early)
<1>1. /\ run[t].pc = "send" /\ run[t] \in Runs /\ s \in Scores
      /\ UNCHANGED <<user, form, queue, button, stored, foreign, silent, author, crossed>>
      /\ misled \subseteq misled'
      /\ Stops(t) \/ (Posts(t) /\ (IsChecked(run[t]) /\ Rival(s) => s \in misled'))
  BY SendIs DEF Replayed
<1>2. FormsSettle /\ Presses /\ Queues /\ Records /\ RivalsStay /\ SilentStays
  BY <1>1, SameStores DEF SilentStays
<1>3. CASE Posts(t) /\ (IsChecked(run[t]) /\ Rival(s) => s \in misled')
  <2>1. run' = [run EXCEPT ![t].pc = "posting"] /\ net' = net \cup {q}
    BY <1>3 DEF Posts
  <2>2. early => Rival(s) /\ (slot[s] \notin Seeding => s \in misled')
    <3>1. early => Rival(s)
      BY DEF Traced, Noticed, SeenStays
    <3>2. early /\ slot[s] \notin Seeding => IsChecked(run[t])
      BY <1>1, Instance DEF IsChecked
    <3> QED
      BY <1>3, <3>1, <3>2
  <2> HIDE DEF early
  <2>3. q.score = s /\ q.by = user /\ q.stage = "sent" /\ q.early = early
    BY DEF Request
  <2> HIDE DEF q
  <2> DEFINE next == [run[t] EXCEPT !.pc = "posting"]
  <2>4. next.pc = "posting" /\ next.score = s /\ next.todo = run[t].todo /\ next.early = run[t].early
    BY <1>1 DEF Runs
  <2>5. run' = [run EXCEPT ![t] = next]
    BY <1>1, <2>1 DEF Runs
  <2> HIDE DEF next
  <2>6. Inherits(next, run[t])
    BY <2>4 DEF Inherits, About
  <2>7. LoopsFollow
    BY <2>5, <2>6, OneFollows
  <2>8. Engaged(s) /\ s \in UnderWay
    BY <1>1, UnderWayIs DEF Engaged, About
  <2>9. Noticed'
    <3>1. SeenStays'
      BY <1>1, <2>7 DEF Traced, Noticed, SeenStays, LoopsFollow, Inherits, Rival, RunsOf
    <3>2. EarlyOnes'
      <4> SUFFICES ASSUME NEW r \in net', r.early PROVE Explained(r)'
        BY DEF EarlyOnes
      <4>1. CASE r = q
        <5>1. r.score = s /\ r.stage = "sent" /\ early
          BY <2>3, <4>1
        <5>2. Rival(r.score) /\ (slot[r.score] \notin Seeding => r.score \in misled')
          BY <2>2, <5>1
        <5> QED
          BY <1>1, <5>1, <5>2 DEF Explained, Rival, RunsOf
      <4>2. CASE r \in net
        BY <1>1, <4>2 DEF Traced, Noticed, EarlyOnes, Explained, Rival, RunsOf
      <4> QED
        BY <2>1, <4>1, <4>2
    <3>3. RivalsAreNoticed'
      BY <1>2, <1>1 DEF Traced, Noticed, RivalsAreNoticed
    <3> QED
      BY <3>1, <3>2, <3>3 DEF Noticed
  <2>10. Engages /\ Sends /\ Holds
    <3>1. \A x \in Scores : Engaged(x)' => Engaged(x)
      BY <2>1, <2>3, <2>7, <2>8 DEF Engaged, LoopsFollow, Inherits
    <3>2. Sends
      BY <1>1, <2>1, <2>3 DEF Sends, Traced, Attributed, Carried, IInv, Network, Requests
    <3>3. Holds
      <4>1. \A u \in Tabs : run'[u] = IF u = t THEN next ELSE run[u]
        BY <2>5 DEF IInv, Loops
      <4> QED
        BY <2>4, <4>1 DEF Holds, Traced, Attributed, Carried
    <3> QED
      BY <3>1, <3>2, <3>3 DEF Engages
  <2>11. InSession
    BY <1>1, <1>2, <2>10 DEF InSession
  <2> QED
    BY <2>9, <2>11, StillAttributed DEF Traced
<1>4. CASE Stops(t)
  <2> PICK status \in Written : run' = [run EXCEPT ![t] = Updating(run[t], status)] /\ UNCHANGED net
    BY <1>4 DEF Stops
  <2>1. Inherits(Updating(run[t], status), run[t])
    BY <1>1, UpdatingInherits
  <2>2. LoopsFollow /\ NetFollows
    BY <2>1, OneFollows, NetShrinks
  <2> QED
    BY <1>1, <1>2, <2>2, Follows
<1> QED
  BY <1>1, <1>3, <1>4

LEMMA CloseTabTraced == ASSUME IInv, IInv', Traced, NEW t \in Tabs, CloseTab(t) PROVE Traced'
<1> DEFINE left(r) == [r EXCEPT !.from = IF r.from = t THEN "nobody" ELSE r.from]
<1>1. /\ run' = [run EXCEPT ![t] = Idle] /\ net' = {left(r) : r \in net}
      /\ UNCHANGED <<user, form, queue, button, stored, foreign, silent, misled, author, crossed>>
  BY DEF CloseTab, server, history
<1>2. ASSUME NEW r \in net
      PROVE  left(r).score = r.score /\ left(r).by = r.by /\ left(r).early = r.early /\ left(r).stage = r.stage
  <2>1. r \in Requests
    BY DEF IInv, Network
  <2> QED
    BY <2>1 DEF Requests
<1>3. NetFollows
  <2> SUFFICES ASSUME NEW q \in net'
               PROVE  \E r \in net : q.score = r.score /\ q.by = r.by /\ q.early = r.early /\ q.stage = r.stage
    BY DEF NetFollows
  <2> PICK r \in net : q = left(r)
    BY <1>1
  <2> HIDE DEF left
  <2> QED
    BY <1>2
<1>4. LoopsFollow
  BY <1>1, IdleInherits, OneFollows
<1> QED
  BY <1>1, <1>3, <1>4, SameStores, Follows

(* A run begins with entries of who is signed in, and looks for rivals.    *)
LEMMA StartSyncTraced == ASSUME IInv, IInv', Traced, NEW t \in Tabs, StartSync(t) PROVE Traced'
<1> DEFINE next == [Idle EXCEPT !.pc = "next",
                                !.todo = {[score |-> s, force |-> queue[s].force] : s \in Mine},
                                !.early = {s \in Mine : Rival(s)}]
<1>1. /\ run' = [run EXCEPT ![t] = next] /\ user # NoUser
      /\ UNCHANGED <<user, form, queue, button, net, stored, foreign, silent, misled, author, crossed>>
  BY DEF StartSync, server, history
<1>2. /\ next.pc = "next" /\ next.score = NoEntry /\ next.early = {s \in Mine : Rival(s)}
      /\ next.todo = {[score |-> s, force |-> queue[s].force] : s \in Mine}
  BY DEF Idle
<1>3. \A s \in Scores : About(next, s) => s \in Mine
  BY <1>2, NoEntryIsNone DEF About
<1>4. \A s \in Mine : MineNow(s)
  BY <1>1 DEF Mine, MineNow, Waits
<1>5. \A s \in next.early : Rival(s)
  BY <1>2
<1> HIDE DEF next
<1>6. \A u \in Tabs : run'[u] = IF u = t THEN next ELSE run[u]
  BY <1>1 DEF IInv, Loops
<1>7. Engages
  BY <1>1, <1>3, <1>4, <1>6 DEF Engages, Engaged
<1>8. Sends
  BY <1>1 DEF Sends, Traced, Attributed, Carried, IInv, Network, Requests
<1>9. Holds
  BY <1>2, <1>6 DEF Holds, Traced, Attributed, Carried
<1>10. InSession
  BY <1>1, <1>7, <1>8, <1>9, SameStores DEF InSession
<1>11. Noticed'
  <2>1. SeenStays'
    BY <1>1, <1>5, <1>6 DEF Traced, Noticed, SeenStays, Rival, RunsOf
  <2>2. EarlyOnes'
    BY <1>1 DEF Traced, Noticed, EarlyOnes, Explained, Rival, RunsOf
  <2> QED
    BY <1>1, <2>1, <2>2 DEF Traced, Noticed, RivalsAreNoticed
<1> QED
  BY <1>10, <1>11, StillAttributed DEF Traced

(* The juror who enters a score is its author.                             *)
LEMMA SaveTraced == ASSUME IInv, IInv', Traced, NEW s \in Scores, Save(s) PROVE Traced'
<1>1. /\ form[s] = "new" /\ user # NoUser /\ author' = [author EXCEPT ![s] = user]
      /\ form' = [form EXCEPT ![s] = IF online THEN "sending" ELSE "kept"]
      /\ queue' = IF online THEN queue ELSE [queue EXCEPT ![s] = Pending(user)]
      /\ net' = IF online THEN net \cup {Request(s, "form", FALSE)} ELSE net
      /\ UNCHANGED <<user, run, button, stored, foreign, silent, misled, crossed>>
  BY DEF Save, server
<1>2. queue[s] = NoEntry /\ stored[s] = <<>> /\ ~Engaged(s) /\ button.score # s
  BY <1>1, UnderWayIs DEF Traced, Attributed, Untouched
<1> DEFINE q == Request(s, "form", FALSE)
<1>3. q.score = s /\ q.by = user /\ q.early = FALSE
  BY DEF Request
<1>4. net' = IF online THEN net \cup {q} ELSE net
  BY <1>1
<1> HIDE DEF q
<1>5. Pending(user).user = user
  BY DEF Pending
<1>6. /\ author'[s] = user /\ form'[s] \in {"sending", "kept"} /\ queue'[s] \in {NoEntry, Pending(user)}
      /\ \A x \in Scores \ {s} : author'[x] = author[x] /\ form'[x] = form[x] /\ queue'[x] = queue[x]
  BY <1>1, <1>2 DEF IInv, Stores, Surroundings
<1>7. \A x \in Scores \ {s} : (Engaged(x)' <=> Engaged(x)) /\ (x \in UnderWay' <=> x \in UnderWay)
  <2>1. \A x \in Scores \ {s} : Engaged(x)' <=> Engaged(x)
    BY <1>1, <1>3, <1>4 DEF Engaged
  <2>2. UnderWay' = {x \in Scores : form'[x] = "sending" \/ button'.score = x \/ Engaged(x)'}
    BY DEF UnderWay, Engaged, About
  <2> QED
    BY <1>1, <1>6, <2>1, <2>2, UnderWayIs
<1>8. Untouched'
  BY <1>1, <1>6, <1>7 DEF Traced, Attributed, Untouched
<1>9. OneSession'
  BY <1>1, <1>6, <1>7 DEF Traced, Attributed, OneSession, UnderWay
<1>10. Carried'
  <2>1. \A r \in net' : r.score \notin crossed => r.by = user
    BY <1>3, <1>4 DEF Traced, Attributed, Carried
  <2> QED
    BY <1>1, <2>1 DEF Traced, Attributed, Carried
<1>11. Owned'
  BY <1>1, <1>5, <1>6, <1>7 DEF Traced, Attributed, Owned
<1>12. SentAsAuthor'
  BY <1>1, <1>2, <1>6 DEF Traced, Attributed, SentAsAuthor
<1>13. Noticed'
  <2>1. SeenStays'
    BY <1>1 DEF Traced, Noticed, SeenStays, Rival, RunsOf
  <2>2. EarlyOnes'
    BY <1>1, <1>3, <1>4 DEF Traced, Noticed, EarlyOnes, Explained, Rival, RunsOf
  <2> QED
    BY <1>1, <2>1, <2>2 DEF Traced, Noticed, RivalsAreNoticed
<1> QED
  BY <1>8, <1>9, <1>10, <1>11, <1>12, <1>13 DEF Traced, Attributed

LEMMA RetryTraced ==
  ASSUME IInv, IInv', Traced, NEW s \in Scores, NEW force \in BOOLEAN, Retry(s, force) PROVE Traced'
<1> DEFINE e == [queue[s] EXCEPT !.status = "pending", !.force = force]
<1>1. /\ queue[s] # NoEntry /\ queue[s].user = user /\ user # NoUser
      /\ button' = [score |-> s, entry |-> e]
      /\ UNCHANGED <<user, form, queue, run, net, stored, foreign, silent, misled, author, crossed>>
  BY DEF Retry, Press, server, history
<1>2. e.user = user
  BY <1>1 DEF IInv, Stores, Entry
<1>3. button'.score = s /\ button'.entry = e
  BY <1>1
<1> HIDE DEF e
<1>4. Presses
  BY <1>1, <1>2, <1>3 DEF Presses, MineNow
<1> QED
  BY <1>1, <1>4, LoopsStay, NetShrinks, SameStores, Follows

(* Nothing is under way for a score nobody owns, and nothing is recorded   *)
(* for it: to claim it takes it from nobody.                               *)
LEMMA ClaimTraced == ASSUME IInv, IInv', Traced, NEW s \in Scores, Claim(s) PROVE Traced'
<1> DEFINE e == [queue[s] EXCEPT !.status = "pending", !.user = user]
<1>1. /\ queue[s] # NoEntry /\ queue[s].user = NoUser /\ user # NoUser
      /\ button' = [score |-> s, entry |-> e] /\ author' = [author EXCEPT ![s] = user]
      /\ UNCHANGED <<user, form, queue, run, net, stored, foreign, silent, misled, crossed>>
  BY DEF Claim, Press, server
<1>2. e.user = user
  BY <1>1 DEF IInv, Stores, Entry
<1>3. button'.score = s /\ button'.entry = e
  BY <1>1
<1> HIDE DEF e
<1>4. author'[s] = user /\ \A x \in Scores \ {s} : author'[x] = author[x]
  BY <1>1 DEF IInv, Surroundings
<1>5. \A x \in Scores : Engaged(x)' <=> Engaged(x)
  BY <1>1 DEF Engaged
<1>6. \A x \in Scores : x \in UnderWay' => x \in UnderWay \/ x = s
  <2>1. UnderWay' = {x \in Scores : form'[x] = "sending" \/ button'.score = x \/ Engaged(x)'}
    BY DEF UnderWay, Engaged, About
  <2> QED
    BY <1>1, <1>3, <1>5, <2>1, UnderWayIs
<1>7. form[s] # "new"
  BY <1>1 DEF Traced, Attributed, Untouched
<1>8. Untouched'
  BY <1>1, <1>6, <1>7 DEF Traced, Attributed, Untouched
<1>9. OneSession'
  BY <1>1, <1>4, <1>6 DEF Traced, Attributed, OneSession, UnderWay
<1>10. Carried'
  BY <1>1, <1>2, <1>3 DEF Traced, Attributed, Carried
<1>11. Owned'
  BY <1>1, <1>4, <1>5 DEF Traced, Attributed, Owned
<1>12. SentAsAuthor'
  <2>1. s \notin crossed => stored[s] = <<>>
    BY <1>1 DEF Traced, Attributed, Owned
  <2> QED
    BY <1>1, <1>4, <2>1 DEF Traced, Attributed, SentAsAuthor
<1>13. Noticed'
  BY <1>1, LoopsStay, NetShrinks, SameStores, StillNoticed DEF Traced
<1> QED
  BY <1>8, <1>9, <1>10, <1>11, <1>12, <1>13 DEF Traced, Attributed

LEMMA PressedTraced == ASSUME IInv, IInv', Traced, Pressed PROVE Traced'
<1>1. /\ button # NoButton /\ queue' = [queue EXCEPT ![button.score] = button.entry] /\ button' = NoButton
      /\ UNCHANGED <<user, form, run, net, stored, foreign, silent, misled, author, crossed>>
  BY DEF Pressed, server, history
<1>2. button.score \in Scores /\ button.score \in UnderWay
  BY <1>1 DEF IInv, Stores, UnderWay
<1>3. button.score \notin crossed => button.entry.user = user
  BY <1>1 DEF Traced, Attributed, Carried
<1>4. Queues
  BY <1>1, <1>2, <1>3 DEF Queues, IInv, Stores
<1>5. Presses
  BY <1>1, NobodysButton DEF Presses
<1> QED
  BY <1>1, <1>4, <1>5, LoopsStay, NetShrinks, SameStores, Follows

LEMMA DiscardTraced == ASSUME IInv, IInv', Traced, NEW s \in Scores, Discard(s) PROVE Traced'
<1>1. /\ queue' = [queue EXCEPT ![s] = NoEntry] /\ form' = [form EXCEPT ![s] = "discarded"]
      /\ UNCHANGED <<user, run, button, net, stored, foreign, silent, misled, author, crossed>>
  BY DEF Discard, server, history
<1>2. FormsSettle /\ Queues
  BY <1>1 DEF FormsSettle, Queues, IInv, Stores
<1> QED
  BY <1>1, <1>2, LoopsStay, NetShrinks, SameStores, Follows

(* The session changes: what is under way is not accounted for any more.   *)
LEMMA SessionTraced ==
  ASSUME IInv, IInv', Traced, SignOut \/ \E u \in Users : SignIn(u) PROVE Traced'
<1>1. /\ crossed' = crossed \cup UnderWay
      /\ UNCHANGED <<form, queue, run, button, net, stored, foreign, silent, misled, author>>
  BY DEF SignOut, SignIn, client, server
<1>2. UnderWay' = UnderWay /\ \A s \in Scores : Engaged(s)' <=> Engaged(s)
  BY <1>1 DEF UnderWay, Engaged
<1>3. Untouched' /\ OneSession' /\ SentAsAuthor' /\ Owned'
  BY <1>1, <1>2 DEF Traced, Attributed, Untouched, OneSession, SentAsAuthor, Owned
<1>4. Carried'
  <2>1. \A r \in net : r.score \in UnderWay
    BY DEF UnderWay, IInv, Network, Requests
  <2>2. \A t \in Tabs : run[t].pc = "set" => run[t].score \in UnderWay
    BY DEF UnderWay, IInv, Loops, Ready
  <2>3. button # NoButton => button.score \in UnderWay
    BY DEF UnderWay, IInv, Stores
  <2> QED
    BY <1>1, <2>1, <2>2, <2>3 DEF Carried
<1>5. Noticed'
  BY <1>1, LoopsStay, NetShrinks, SameStores, StillNoticed DEF Traced
<1> QED
  BY <1>3, <1>4, <1>5 DEF Traced, Attributed

LEMMA OutsideTraced ==
  ASSUME IInv, IInv', Traced, UNCHANGED <<user, client, net, stored, silent, misled, history>>,
         foreign \subseteq foreign'
  PROVE  Traced'
<1>1. UNCHANGED <<user, form, queue, run, button, net, stored, silent, misled, author, crossed>>
  BY DEF client, history
<1>2. RivalsStay
  BY <1>1, RivalsRemain
<1>3. Records
  BY <1>1 DEF Records
<1> QED
  BY <1>1, <1>2, <1>3, LoopsStay, NetShrinks, SameStores, Follows

LEMMA InitTraced == Init => Traced
<1> SUFFICES ASSUME Init PROVE Traced
  OBVIOUS
<1> PICK owner \in Users \cup {NoUser}, old \in Scores :
      /\ user = juror
      /\ form = [s \in Scores |-> IF s = old THEN "kept" ELSE "new"]
      /\ queue = [s \in Scores |-> IF s = old THEN Pending(owner) ELSE NoEntry]
      /\ author = [s \in Scores |-> IF s = old THEN owner ELSE NoUser]
      /\ run = [t \in Tabs |-> Idle] /\ button = NoButton /\ net = {}
      /\ stored = [s \in Scores |-> <<>>] /\ foreign = {} /\ crossed = {} /\ silent = {}
  BY DEF Init
<1>1. \A s \in Scores : ~Engaged(s)
  BY NothingInherits DEF Engaged
<1>2. UnderWay = {}
  <2>1. \A s \in Scores : s \notin UnderWay
    BY <1>1, UnderWayIs, NobodysButton
  <2> QED
    BY <2>1 DEF UnderWay
<1>3. Pending(owner).user = owner
  BY DEF Pending
<1>4. Idle.pc # "set" /\ Idle.early = {}
  BY DEF Idle
<1>5. Untouched /\ OneSession /\ Carried
  BY <1>2, <1>4 DEF Untouched, OneSession, Carried
<1>6. Owned
  BY <1>1, <1>3 DEF Owned
<1>7. SentAsAuthor
  <2>1. Len(<<>>) = 0 /\ 1 .. 0 = {}
    OBVIOUS
  <2> QED
    BY <2>1 DEF SentAsAuthor
<1>8. Noticed
  BY <1>4 DEF Noticed, SeenStays, EarlyOnes, RivalsAreNoticed
<1> QED
  BY <1>5, <1>6, <1>7, <1>8 DEF Traced, Attributed

LEMMA NextTraced == IInv /\ IInv' /\ Traced /\ [Next]_vars => Traced'
<1> SUFFICES ASSUME IInv, IInv', Traced, [Next]_vars PROVE Traced'
  OBVIOUS
<1>1. ASSUME NEW s \in Scores, Save(s) \/ Claim(s) \/ Discard(s) \/ \E f \in BOOLEAN : Retry(s, f)
      PROVE  Traced'
  BY <1>1, SaveTraced, ClaimTraced, DiscardTraced, RetryTraced
<1>2. ASSUME NEW t \in Tabs, StartSync(t) \/ Loop(t) \/ CloseTab(t) PROVE Traced'
  BY <1>2, StartSyncTraced, TakeTraced, WriteBackTraced, SendTraced, CloseTabTraced DEF Loop
<1>3. ASSUME NEW r \in net,
             \/ Serve(r) \/ Lose(r) \/ SaveUnanswered(r) \/ PostUnanswered(r)
             \/ \E status \in {"error", "pending"} : Refuse(r, status)
      PROVE  Traced'
  BY <1>3, LookTraced, InsertTraced, LoseTraced, SaveUnansweredTraced, PostUnansweredTraced, RefuseTraced DEF Serve
<1>4. CASE (\E x \in Slots : ScoredElsewhere(x) \/ Visit(x)) \/ \E c \in copies : Expire(c)
  <2>1. UNCHANGED <<user, client, net, stored, silent, misled, history>> /\ foreign \subseteq foreign'
    BY <1>4 DEF ScoredElsewhere, Visit, Expire
  <2> QED
    BY <2>1, OutsideTraced
<1>5. CASE SignOut \/ \E u \in Users : SignIn(u)
  BY <1>5, SessionTraced
<1>6. CASE Pressed
  BY <1>6, PressedTraced
<1>7. CASE GoOffline \/ GoOnline \/ UNCHANGED vars
  <2>1. UNCHANGED <<user, client, net, stored, silent, misled, history>> /\ foreign \subseteq foreign'
    BY <1>7 DEF GoOffline, GoOnline, vars, server
  <2> QED
    BY <2>1, OutsideTraced
<1> QED
  BY <1>1, <1>2, <1>3, <1>4, <1>5, <1>6, <1>7 DEF Next

LEMMA AlwaysTraced == Spec => []Traced
  BY AlwaysIInv, InitTraced, NextTraced, PTL DEF Spec

(* When a replay is recorded over another run that was there when its sync *)
(* began, although the user did not say so, a kept list misled the check   *)
(* for a scheduled match (findConflict); in a seeding round create_match   *)
(* refuses it.                                                             *)
THEOREM RivalsAlwaysNoticed == Spec => []RivalsAreNoticed
<1>1. Traced => RivalsAreNoticed
  BY DEF Traced, Noticed
<1> QED
  BY <1>1, AlwaysTraced, PTL

(* A run is recorded for the author of its score, or the score was under   *)
(* way while somebody signed out or in, whatever several tabs write back   *)
(* over each other: entries are listed for their user only, and an entry   *)
(* that nobody owns has nothing under way when it is claimed.              *)
THEOREM AlwaysSentAsAuthor == Spec => []SentAsAuthor
<1>1. Traced => SentAsAuthor
  BY DEF Traced, Attributed
<1> QED
  BY <1>1, AlwaysTraced, PTL
=============================================================================
