---------------------------- MODULE LiveUpdates ----------------------------
(***************************************************************************)
(* How a committed score reaches the open screens: the publish task after  *)
(* the commit (backend/core/live.py), the ranking cache it invalidates     *)
(* (core/cache.py), the stream of a WebSocket (LiveHub,                    *)
(* stream_live_events), and the screen that refetches when it hears of a   *)
(* change and polls while it is not connected (frontend/src/lib/           *)
(* liveSocket.ts, hooks/useLiveUpdates.ts).                                *)
(*                                                                         *)
(* One event, one cached ranking.  The ranking is the number of committed  *)
(* scores it contains.  Computing it takes time, requests run side by      *)
(* side, and every publish task is on its own.                             *)
(***************************************************************************)
EXTENDS Naturals, Sequences

CONSTANTS
  Screens,     \* pages with a live stream
  None,
  QueueSize,   \* messages a client may fall behind by
  MaxScores,   \* bound: scores committed
  MaxTroubles  \* bound: failures, other readers, announcements and new subscriptions

ASSUME Instance == /\ QueueSize \in Nat \ {0}
                   /\ MaxScores \in Nat /\ MaxTroubles \in Nat /\ None \notin Nat

VARIABLES
  data,      \* the committed scores
  task,      \* the publish task of every commit
  version,   \* the version of the event in the cache
  cache,     \* the ranking stored under a version
  flights,   \* rankings being computed, and the version each is for
  ask,       \* the request of a screen
  socket, queue,  \* the stream of a screen and the queue of the server for it
  live,      \* useLiveUpdates: connected as far as the screen knows
  timer,     \* useLiveUpdates: a refetch is scheduled
  shown,     \* the ranking on a screen
  troubles,
  raised,    \* history: the scores committed when the version was last raised
  degraded,  \* history: raising it has failed since
  missed     \* history: screens that no message will tell of a change

server == <<data, task, version, cache, flights>>
screen == <<socket, queue, live, timer, shown>>
history == <<raised, degraded, missed>>
vars == <<server, ask, screen, troubles, history>>

Versions == 0 .. MaxScores
Idle == [pc |-> "idle", version |-> 0, value |-> 0, floor |-> 0]

Init == /\ data = 0 /\ task = [c \in 1 .. MaxScores |-> "none"]
        /\ version = 0 /\ cache = [v \in Versions |-> None] /\ flights = {}
        /\ ask = [s \in Screens |-> Idle]
        /\ socket = [s \in Screens |-> "closed"] /\ queue = [s \in Screens |-> <<>>]
        /\ live = [s \in Screens |-> FALSE] /\ timer = [s \in Screens |-> FALSE]
        /\ shown = [s \in Screens |-> 0]
        /\ troubles = 0 /\ raised = 0 /\ degraded = FALSE /\ missed = {}

Trouble == troubles < MaxTroubles /\ troubles' = troubles + 1

-----------------------------------------------------------------------------
(* A commit and its publish task: raise the version, then publish.         *)

Commit ==
  /\ data < MaxScores
  /\ data' = data + 1
  /\ task' = [task EXCEPT ![data + 1] = "bump"]
  /\ UNCHANGED <<version, cache, flights, ask, screen, troubles, history>>

Bump(c) ==
  /\ task[c] = "bump"
  /\ task' = [task EXCEPT ![c] = "publish"]
  /\ version' = version + 1
  /\ raised' = data /\ degraded' = FALSE
  /\ UNCHANGED <<data, cache, flights, ask, screen, troubles, missed>>

BumpFails(c) ==
  /\ task[c] = "bump" /\ Trouble
  /\ task' = [task EXCEPT ![c] = "publish"]
  /\ degraded' = TRUE
  /\ UNCHANGED <<data, version, cache, flights, ask, screen, raised, missed>>

(* _dispatch: a full queue loses its oldest message.                       *)
Rankings(q) == {i \in DOMAIN q : q[i] = "ranking"}
PushedOnTop(q, m) == Append(q, m)  \* faulty variant
Pushed(q, m) == Append(IF Len(q) = QueueSize THEN Tail(q) ELSE q, m)
Dispatch(m) == queue' = [s \in Screens |-> IF socket[s] = "subscribed" THEN Pushed(queue[s], m) ELSE queue[s]]

Publish(c) ==
  /\ task[c] = "publish"
  /\ task' = [task EXCEPT ![c] = "done"]
  /\ Dispatch("ranking")
  /\ missed' = missed \cup {s \in Screens : socket[s] # "subscribed"}
  /\ UNCHANGED <<data, version, cache, flights, ask, socket, live, timer, shown, troubles, raised, degraded>>

PublishFails(c) ==
  /\ task[c] = "publish" /\ Trouble
  /\ task' = [task EXCEPT ![c] = "done"]
  /\ missed' = missed \cup Screens
  /\ UNCHANGED <<data, version, cache, flights, ask, screen, raised, degraded>>

(* Messages of another kind, or the subscription of the process broke.     *)
Dispatched(m) ==
  /\ Trouble /\ m \in {"other", "lost"}
  /\ Dispatch(m)
  /\ missed' = missed \cup {s \in Screens : Rankings(queue[s]) # {} /\ Rankings(queue'[s]) = {}}
  /\ UNCHANGED <<server, ask, socket, live, timer, shown, raised, degraded>>

-----------------------------------------------------------------------------
(* cached_payload.  Of the misses for one version the first computes and   *)
(* the others wait for it; the result is stored under the version that was *)
(* read before.                                                            *)

Asked == [Idle EXCEPT !.pc = "sent", !.floor = raised]
Got(s, value) == [Idle EXCEPT !.pc = "answered", !.value = value, !.floor = ask[s].floor]

ReadVersion(s) ==
  /\ ask[s].pc = "sent"
  /\ ask' = [ask EXCEPT ![s].pc = "keyed", ![s].version = version]
  /\ missed' = missed \ {s}
  /\ UNCHANGED <<server, screen, troubles, raised, degraded>>

(* The flight of a version: the one under way, or a new one.               *)
Joined(v) == IF \E f \in flights : f.version = v THEN flights
             ELSE flights \cup {[version |-> v, value |-> None]}

Load(s) ==
  /\ ask[s].pc = "keyed"
  /\ LET v == ask[s].version
     IN IF cache[v] # None THEN ask' = [ask EXCEPT ![s] = Got(s, cache[v])] /\ UNCHANGED flights
        ELSE ask' = [ask EXCEPT ![s].pc = "waiting"] /\ flights' = Joined(v)
  /\ UNCHANGED <<data, task, version, cache, screen, troubles, history>>

(* Somebody else misses, with a version read now or a while ago.           *)
LoadElsewhere(v) ==
  /\ v <= version /\ cache[v] = None /\ Trouble
  /\ flights' = Joined(v)
  /\ UNCHANGED <<data, task, version, cache, ask, screen, history>>

(* The cache does not answer: computed for this request alone.             *)
Uncached(s) ==
  /\ ask[s].pc = "sent" /\ Trouble
  /\ ask' = [ask EXCEPT ![s] = Got(s, data)]
  /\ missed' = missed \ {s}
  /\ UNCHANGED <<server, screen, raised, degraded>>

Compute(f) ==
  /\ f.value = None
  /\ flights' = (flights \ {f}) \cup {[f EXCEPT !.value = data]}
  /\ UNCHANGED <<data, task, version, cache, ask, screen, troubles, history>>

VersionNow(f) == version  \* faulty variant: the version is read when storing
StoredUnder(f) == f.version

Store(f) ==
  /\ f.value # None
  /\ cache' = [cache EXCEPT ![StoredUnder(f)] = f.value]
  /\ flights' = flights \ {f}
  /\ ask' = [s \in Screens |-> IF ask[s].pc = "waiting" /\ ask[s].version = f.version THEN Got(s, f.value)
                               ELSE ask[s]]
  /\ UNCHANGED <<data, task, version, screen, troubles, history>>

Expire(v) ==
  /\ cache[v] # None
  /\ cache' = [cache EXCEPT ![v] = None]
  /\ UNCHANGED <<data, task, version, flights, ask, screen, troubles, history>>

-----------------------------------------------------------------------------
(* The screen: polling while it is not connected, refetching when the      *)
(* timer that the first message started has run out.                       *)

Poll(s) ==
  /\ ask[s] = Idle /\ ~live[s]
  /\ ask' = [ask EXCEPT ![s] = Asked]
  /\ UNCHANGED <<server, screen, troubles, history>>

(* invalidateQueries cancels a request under way and asks again.           *)
KeptFetch(s) == IF ask[s] = Idle THEN Asked ELSE ask[s]  \* faulty variant
Refetch(s) == Asked

Flush(s) ==
  /\ timer[s]
  /\ timer' = [timer EXCEPT ![s] = FALSE]
  /\ ask' = [ask EXCEPT ![s] = Refetch(s)]
  /\ UNCHANGED <<server, socket, queue, live, shown, troubles, history>>

Show(s) ==
  /\ ask[s].pc = "answered"
  /\ shown' = [shown EXCEPT ![s] = ask[s].value]
  /\ ask' = [ask EXCEPT ![s] = Idle]
  /\ UNCHANGED <<server, socket, queue, live, timer, troubles, history>>

FetchFails(s) ==
  /\ ask[s] # Idle /\ Trouble
  /\ ask' = [ask EXCEPT ![s] = Idle]
  /\ missed' = missed \cup {s}
  /\ UNCHANGED <<server, screen, raised, degraded>>

-----------------------------------------------------------------------------
(* The stream of a screen.  A public stream counts as connected when the   *)
(* socket opens, that of an event when the server says so, which it does   *)
(* once it is subscribed.  Nothing is refetched when it connects.          *)

Open(s, public) ==
  /\ socket[s] = "closed" /\ ~live[s]
  /\ socket' = [socket EXCEPT ![s] = "accepted"]
  /\ live' = [live EXCEPT ![s] = public]
  /\ UNCHANGED <<server, ask, queue, timer, shown, troubles, history>>

Subscribe(s) ==
  /\ socket[s] = "accepted"
  /\ socket' = [socket EXCEPT ![s] = "subscribed"]
  /\ live' = [live EXCEPT ![s] = TRUE]
  /\ UNCHANGED <<server, ask, queue, timer, shown, troubles, history>>

Close(s) == /\ socket' = [socket EXCEPT ![s] = "closed"] /\ queue' = [queue EXCEPT ![s] = <<>>]
            /\ missed' = IF Rankings(queue[s]) # {} THEN missed \cup {s} ELSE missed

Receive(s) ==
  /\ queue[s] # <<>>
  /\ IF Head(queue[s]) = "lost"
     THEN Close(s) /\ live' = [live EXCEPT ![s] = FALSE] /\ UNCHANGED timer
     ELSE /\ queue' = [queue EXCEPT ![s] = Tail(@)]
          /\ timer' = [timer EXCEPT ![s] = @ \/ Head(queue[s]) = "ranking"]
          /\ UNCHANGED <<socket, live, missed>>
  /\ UNCHANGED <<server, ask, shown, troubles, raised, degraded>>

(* The connection breaks; the screen notices later.                        *)
Break(s) ==
  /\ socket[s] # "closed" /\ Trouble
  /\ Close(s)
  /\ UNCHANGED <<server, ask, live, timer, shown, raised, degraded>>

Notice(s) ==
  /\ socket[s] = "closed" /\ live[s]
  /\ live' = [live EXCEPT ![s] = FALSE]
  /\ UNCHANGED <<server, ask, socket, queue, timer, shown, troubles, history>>

(* Signing in or out, or another event: the effect runs again.             *)
Resubscribe(s) ==
  /\ Trouble
  /\ socket' = [socket EXCEPT ![s] = "closed"] /\ queue' = [queue EXCEPT ![s] = <<>>]
  /\ live' = [live EXCEPT ![s] = FALSE] /\ timer' = [timer EXCEPT ![s] = FALSE]
  /\ missed' = IF timer[s] \/ Rankings(queue[s]) # {} THEN missed \cup {s} ELSE missed
  /\ UNCHANGED <<server, ask, shown, raised, degraded>>

-----------------------------------------------------------------------------
Next == \/ Commit
        \/ \E c \in 1 .. MaxScores : Bump(c) \/ BumpFails(c) \/ Publish(c) \/ PublishFails(c)
        \/ \E m \in {"other", "lost"} : Dispatched(m)
        \/ \E f \in flights : Compute(f) \/ Store(f)
        \/ \E v \in Versions : Expire(v) \/ LoadElsewhere(v)
        \/ \E s \in Screens : \/ ReadVersion(s) \/ Load(s) \/ Uncached(s)
                              \/ Poll(s) \/ Flush(s) \/ Show(s) \/ FetchFails(s)
                              \/ Receive(s) \/ Break(s) \/ Notice(s) \/ Resubscribe(s)
                              \/ Subscribe(s) \/ \E public \in BOOLEAN : Open(s, public)

(* Tasks run, requests are answered, timers and the polling interval fire, *)
(* and a broken connection is noticed in the end.  Nothing makes scores    *)
(* being committed, connections or other readers go on.                    *)
Publishing(c) == Bump(c) \/ Publish(c)
Computing(v) == \E f \in flights : f.version = v /\ (Compute(f) \/ Store(f))
Fairness == /\ \A c \in 1 .. MaxScores : WF_vars(Publishing(c))
            /\ \A v \in Versions : WF_vars(Computing(v))
            /\ \A s \in Screens : /\ WF_vars(ReadVersion(s)) /\ WF_vars(Load(s)) /\ WF_vars(Show(s)) /\ WF_vars(Poll(s))
                                  /\ WF_vars(Flush(s)) /\ WF_vars(Receive(s)) /\ WF_vars(Notice(s))
Spec == Init /\ [][Next]_vars /\ Fairness

-----------------------------------------------------------------------------
(* Properties                                                              *)

(* The shapes of the state; at most one ranking is computed for a version, *)
(* and a request that waits has one to wait for.                           *)
TypeOK ==
  LET Value == 0 .. data
  IN /\ data \in 0 .. MaxScores /\ task \in [1 .. MaxScores -> {"none", "bump", "publish", "done"}]
     /\ version \in Versions /\ cache \in [Versions -> Value \cup {None}]
     /\ flights \subseteq [version : 0 .. version, value : Value \cup {None}]
     /\ ask \in [Screens -> [pc : {"idle", "sent", "keyed", "waiting", "answered"}, version : 0 .. version,
                             value : Value, floor : Value]]
     /\ socket \in [Screens -> {"closed", "accepted", "subscribed"}]
     /\ queue \in [Screens -> Seq({"ranking", "other", "lost"})]
     /\ live \in [Screens -> BOOLEAN] /\ timer \in [Screens -> BOOLEAN]
     /\ shown \in [Screens -> Value]
     /\ troubles \in 0 .. MaxTroubles /\ raised \in Value /\ degraded \in BOOLEAN /\ missed \subseteq Screens
     /\ \A s \in Screens : Len(queue[s]) <= QueueSize /\ (socket[s] # "subscribed" => queue[s] = <<>>)
     /\ \A f, g \in flights : f.version = g.version => f = g
     /\ \A s \in Screens : ask[s].pc = "waiting" => \E f \in flights : f.version = ask[s].version

(* Whoever asks after the version was raised gets a ranking with every     *)
(* score committed by then, also when a ranking was computed before the    *)
(* commit and stored after it, or is shared with an earlier request (the   *)
(* version is raised before the event goes out, so that clients which      *)
(* refetch on it get fresh data, core/live.py).                            *)
AnnouncedIsVisible ==
  \A s \in Screens : ask[s].pc = "answered" => ask[s].value >= ask[s].floor

(* A screen shows every committed score in the end.  The exceptions are    *)
(* the changes no message tells a connected screen of: announced before    *)
(* the server had it subscribed, lost by a failed publish, an overfull     *)
(* queue, a broken connection or a new subscription, or a failed refetch;  *)
(* they last until the next message or poll.                               *)
EventuallyFresh ==
  \A s \in Screens : []<>(shown[s] = data \/ s \in missed \/ degraded)
=============================================================================
