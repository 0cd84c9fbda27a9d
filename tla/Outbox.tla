------------------------------- MODULE Outbox -------------------------------
(***************************************************************************)
(* The notification outbox: emit_event (core/domain_events.py) queues a    *)
(* row in the transaction of the change it reports, and the periodic task  *)
(* deliver_outbox (modules/dashboard/tasks.py) claims due rows, sends them *)
(* outside any transaction and records the outcomes.  Several workers run  *)
(* the task at once; one may die anywhere, and Celery kills a task that    *)
(* reaches its time limit.                                                 *)
(*                                                                         *)
(* Time is counted in ticks: dueIn is next_attempt_at minus the present,   *)
(* never below 0, and age the time since a task started, i.e. since it     *)
(* read its "now".                                                         *)
(***************************************************************************)
EXTENDS Integers, FiniteSets

CONSTANTS
  Notifications,  \* the notifications somebody may queue
  Workers,        \* the processes that run deliver_outbox
  None,           \* no dedupe key
  key,            \* dedupe_key of every notification, or None
  MAX_ATTEMPTS, BATCH_SIZE,
  CLAIM_LEASE,    \* ticks a claimed row is reserved for
  TIME_LIMIT,     \* task_time_limit of Celery, in ticks
  retryDelay,     \* _retry_delay(attempts), in ticks
  MaxDeaths       \* bound of the model: tasks that die

ASSUME Settings ==
  /\ IsFiniteSet(Notifications)
  /\ MAX_ATTEMPTS \in Nat \ {0} /\ BATCH_SIZE \in Nat \ {0} /\ MaxDeaths \in Nat
  /\ TIME_LIMIT \in Nat /\ CLAIM_LEASE \in Nat
  /\ TIME_LIMIT < CLAIM_LEASE            \* 300 s and 10 min
  /\ retryDelay \in [1 .. MAX_ATTEMPTS -> Nat]

VARIABLES
  status,    \* NotificationEvent.status; "absent" and "deleted": no row;
             \*   "checked" and "inserted": not committed yet
  attempts,  \* NotificationEvent.attempts
  dueIn,     \* ticks until next_attempt_at
  created,   \* order of created_at, 0 before the insert
  stage,     \* what a worker does: "idle", "started" or "sending"
  age,       \* ticks since its task started
  held,      \* the batch it claimed
  todo,      \* the rows of the batch not sent yet
  bad,       \* the rows of the batch whose delivery failed
  sends,     \* how often a notification reached a recipient
  lost,      \* how many claims of it ended without a recorded outcome
  deaths     \* how many tasks died

rows == <<status, attempts, dueIn, created>>
tasks == <<stage, age, held, todo, bad>>
history == <<sends, lost, deaths>>
vars == <<rows, tasks, history>>

Finished == {"delivered", "failed"}
Visible == {"pending", "sending"} \cup Finished
SameKey(n) == {x \in Notifications \ {n} : key[n] # None /\ key[x] = key[n]}

Init == /\ status = [n \in Notifications |-> "absent"]
        /\ attempts = [n \in Notifications |-> 0]
        /\ dueIn = [n \in Notifications |-> 0]
        /\ created = [n \in Notifications |-> 0]
        /\ stage = [w \in Workers |-> "idle"]
        /\ age = [w \in Workers |-> 0]
        /\ held = [w \in Workers |-> {}]
        /\ todo = [w \in Workers |-> {}]
        /\ bad = [w \in Workers |-> {}]
        /\ sends = [n \in Notifications |-> 0]
        /\ lost = [n \in Notifications |-> 0]
        /\ deaths = 0

----------------------------------------------------------------------------
\* emit_event and the transaction around it.

\* The SELECT by dedupe key: no committed row has it.
Check(n) ==
  /\ status[n] = "absent"
  /\ \A x \in SameKey(n) : status[x] \notin Visible
  /\ status' = [status EXCEPT ![n] = "checked"]
  /\ UNCHANGED <<attempts, dueIn, created, tasks, history>>

\* Faulty variant: the key is not unique in the table.
InsertAnyway(n) ==
  /\ status[n] = "checked"
  /\ status' = [status EXCEPT ![n] = "inserted"]
  /\ created' = [created EXCEPT ![n] = 1 + Cardinality({x \in Notifications : created[x] # 0})]
  /\ UNCHANGED <<attempts, dueIn, tasks, history>>

\* The flush.  An uncommitted row with the same key makes it wait; a committed one
\* makes it fail, and the transaction with it.
Insert(n) ==
  /\ status[n] = "checked"
  /\ \A x \in SameKey(n) : status[x] # "inserted"
  /\ \/ /\ \A x \in SameKey(n) : status[x] \notin Visible
        /\ status' = [status EXCEPT ![n] = "inserted"]
        /\ created' = [created EXCEPT ![n] = 1 + Cardinality({x \in Notifications : created[x] # 0})]
     \/ /\ \E x \in SameKey(n) : status[x] \in Visible
        /\ status' = [status EXCEPT ![n] = "absent"]
        /\ UNCHANGED created
  /\ UNCHANGED <<attempts, dueIn, tasks, history>>

Commit(n) ==
  /\ status[n] = "inserted"
  /\ status' = [status EXCEPT ![n] = "pending"]
  /\ UNCHANGED <<attempts, dueIn, created, tasks, history>>

\* The change fails for a reason of its own; it may be tried again.
Rollback(n) ==
  /\ status[n] \in {"checked", "inserted"}
  /\ status' = [status EXCEPT ![n] = "absent"]
  /\ created' = [created EXCEPT ![n] = 0]
  /\ UNCHANGED <<attempts, dueIn, tasks, history>>

\* delete_event: the rows of a deleted event go with it (ON DELETE CASCADE).
DeleteEvent(n) ==
  /\ status[n] \in Visible
  /\ status' = [status EXCEPT ![n] = "deleted"]
  /\ UNCHANGED <<attempts, dueIn, created, tasks, history>>

\* cleanup_outbox: finished rows up to a creation time.
CleanUp(cutoff) ==
  /\ \E n \in Notifications : status[n] \in Finished /\ created[n] <= cutoff
  /\ status' = [n \in Notifications |->
                  IF status[n] \in Finished /\ created[n] <= cutoff THEN "deleted" ELSE status[n]]
  /\ UNCHANGED <<attempts, dueIn, created, tasks, history>>

----------------------------------------------------------------------------
\* deliver_outbox on one worker.

\* Beat's message reaches an idle worker.
Begin(w) ==
  /\ stage[w] = "idle"
  /\ stage' = [stage EXCEPT ![w] = "started"]
  /\ age' = [age EXCEPT ![w] = 0]
  /\ UNCHANGED <<rows, held, todo, bad, history>>

\* Faulty variants: a claimed row is not due again when its lease ends; whatever has
\* no later due time is due.
DueIfPending(n) == status[n] = "pending" /\ dueIn[n] = 0
DueWhatever(n) == status[n] \in Visible /\ dueIn[n] = 0

\* _due: pending and due, or claimed with a lease that ran out.
Due(n) == status[n] \in {"pending", "sending"} /\ dueIn[n] = 0

\* The oldest BATCH_SIZE due rows.
Batch == LET due == {n \in Notifications : Due(n)}
         IN  {n \in due : Cardinality({x \in due : created[x] < created[n]}) < BATCH_SIZE}

\* Faulty variant: the lease is no longer than the time limit.
LeaseTooShort(w) == TIME_LIMIT - age[w]

\* What is left of a lease that counts from the task's "now".
Lease(w) == CLAIM_LEASE - age[w]

\* claim_batch: locked rows are skipped, so a claim is atomic.
Claim(w) ==
  /\ stage[w] = "started"
  /\ \E batch \in {Batch} :
       /\ stage' = [stage EXCEPT ![w] = IF batch = {} THEN "idle" ELSE "sending"]
       /\ held' = [held EXCEPT ![w] = batch]
       /\ todo' = [todo EXCEPT ![w] = batch]
       /\ status' = [n \in Notifications |-> IF n \in batch THEN "sending" ELSE status[n]]
       /\ attempts' = [n \in Notifications |-> IF n \in batch THEN attempts[n] + 1 ELSE attempts[n]]
       /\ dueIn' = [n \in Notifications |-> IF n \in batch THEN Lease(w) ELSE dueIn[n]]
  /\ UNCHANGED <<created, age, bad, history>>

\* _deliver: it fails if there were recipients and none was reached.
Deliver(w, n) ==
  /\ stage[w] = "sending"
  /\ n \in todo[w]
  /\ todo' = [todo EXCEPT ![w] = @ \ {n}]
  /\ \/ /\ sends' = [sends EXCEPT ![n] = @ + 1]
        /\ UNCHANGED bad
     \/ /\ bad' = [bad EXCEPT ![w] = @ \cup {n}]
        /\ UNCHANGED sends
  /\ UNCHANGED <<rows, stage, age, held, lost, deaths>>

\* Faulty variants: one failure fails the batch; nothing ever fails; one attempt more.
OutcomeOfBatch(w, n) == IF bad[w] = {} THEN "delivered"
                        ELSE IF attempts[n] >= MAX_ATTEMPTS THEN "failed" ELSE "pending"
OutcomeOptimistic(w, n) == "delivered"
OutcomeOneMore(w, n) == IF n \notin bad[w] THEN "delivered"
                        ELSE IF attempts[n] > MAX_ATTEMPTS THEN "failed" ELSE "pending"

Outcome(w, n) == IF n \notin bad[w] THEN "delivered"
                 ELSE IF attempts[n] >= MAX_ATTEMPTS THEN "failed" ELSE "pending"

\* The delay counts from the task's "now" as well.
Backoff(w, n) == IF retryDelay[attempts[n]] > age[w] THEN retryDelay[attempts[n]] - age[w] ELSE 0

EndTask(w) ==
  /\ stage' = [stage EXCEPT ![w] = "idle"]
  /\ held' = [held EXCEPT ![w] = {}]
  /\ todo' = [todo EXCEPT ![w] = {}]
  /\ bad' = [bad EXCEPT ![w] = {}]
  /\ UNCHANGED age

\* The outcomes are recorded in one transaction.
Record(w) ==
  LET recorded == {n \in held[w] : status[n] # "deleted"}
  IN  /\ status' = [n \in Notifications |-> IF n \in recorded THEN Outcome(w, n) ELSE status[n]]
      /\ dueIn' = [n \in Notifications |->
                     IF n \notin recorded THEN dueIn[n]
                     ELSE IF Outcome(w, n) = "pending" THEN Backoff(w, n) ELSE 0]
      /\ UNCHANGED <<attempts, created, history>>

\* The outcomes are lost with the task.
Lose(w) ==
  /\ lost' = [n \in Notifications |-> IF n \in held[w] THEN lost[n] + 1 ELSE lost[n]]
  /\ UNCHANGED <<rows, sends>>

\* An UPDATE that matches no row makes the flush fail, unless the driver does not
\* count rows: then the other outcomes are recorded.
Finish(w) ==
  /\ stage[w] = "sending" /\ todo[w] = {}
  /\ EndTask(w)
  /\ \/ Record(w)
     \/ /\ \E n \in held[w] : status[n] = "deleted"
        /\ Lose(w)
        /\ UNCHANGED deaths

\* A crash, a restart, or the kill at the time limit.
Die(w) ==
  /\ stage[w] # "idle"
  /\ deaths < MaxDeaths
  /\ deaths' = deaths + 1
  /\ EndTask(w)
  /\ Lose(w)

\* Faulty variant: tasks have no time limit.
TickWithoutLimit ==
  /\ age' = [w \in Workers |-> IF stage[w] # "idle" THEN age[w] + 1 ELSE age[w]]
  /\ dueIn' = [n \in Notifications |-> IF dueIn[n] > 0 THEN dueIn[n] - 1 ELSE 0]
  /\ UNCHANGED <<status, attempts, created, stage, held, todo, bad, history>>

\* Nobody lives past the time limit.
Tick ==
  /\ \A w \in Workers : stage[w] # "idle" => age[w] < TIME_LIMIT
  /\ age' = [w \in Workers |-> IF stage[w] # "idle" THEN age[w] + 1 ELSE age[w]]
  /\ dueIn' = [n \in Notifications |-> IF dueIn[n] > 0 THEN dueIn[n] - 1 ELSE 0]
  /\ UNCHANGED <<status, attempts, created, stage, held, todo, bad, history>>

Next == \/ \E n \in Notifications : \/ Check(n) \/ Insert(n) \/ Commit(n)
                                    \/ Rollback(n) \/ DeleteEvent(n)
        \/ \E cutoff \in 1 .. Cardinality(Notifications) : CleanUp(cutoff)
        \/ \E w \in Workers : Begin(w) \/ Claim(w) \/ Finish(w) \/ Die(w)
        \/ \E w \in Workers, n \in Notifications : Deliver(w, n)
        \/ Tick

Spec == Init /\ [][Next]_vars

\* Time passes, beat starts tasks, and a task that is not killed goes on.
Fairness ==
  /\ WF_vars(Tick)
  /\ \A w \in Workers : /\ WF_vars(Begin(w)) /\ WF_vars(Claim(w)) /\ WF_vars(Finish(w))
                        /\ WF_vars(\E n \in Notifications : Deliver(w, n))

FairSpec == Spec /\ Fairness

----------------------------------------------------------------------------
\* Every variable stays in its range.
TypeOK ==
  /\ status \in [Notifications -> {"absent", "checked", "inserted", "deleted"} \cup Visible]
  /\ attempts \in [Notifications -> Nat] /\ dueIn \in [Notifications -> Nat]
  /\ created \in [Notifications -> Nat]
  /\ stage \in [Workers -> {"idle", "started", "sending"}]
  /\ age \in [Workers -> 0 .. TIME_LIMIT]
  /\ held \in [Workers -> SUBSET Notifications]
  /\ todo \in [Workers -> SUBSET Notifications] /\ bad \in [Workers -> SUBSET Notifications]
  /\ sends \in [Notifications -> Nat] /\ lost \in [Notifications -> Nat]
  /\ deaths \in 0 .. MaxDeaths

\* "A row is never claimed again while its worker may still be sending" (tasks.py:
\* 31-32): no two workers hold the same row, and a row that a worker holds is not
\* finished behind its back.
ClaimIsExclusive ==
  /\ \A v, w \in Workers : v # w => held[v] \cap held[w] = {}
  /\ \A w \in Workers : \A n \in held[w] : status[n] \in {"sending", "deleted"}

\* "With dedupe_key the notification is queued at most once" (domain_events.py:23-26):
\* no two rows have the same key, however the transactions that queue them overlap.
QueuedOnce ==
  \A n \in Notifications : status[n] \in Visible =>
    \A x \in SameKey(n) : status[x] \notin Visible

\* A notification reaches its recipients twice only if a worker failed between
\* sending it and recording that.
DuplicatesNeedALoss == \A n \in Notifications : sends[n] <= 1 + lost[n]

\* A row is delivered only if a send of it succeeded, and given up only after
\* MAX_ATTEMPTS attempts (tasks.py:267-269).
OutcomeIsEarned ==
  \A n \in Notifications : /\ status[n] = "delivered" => sends[n] >= 1
                           /\ status[n] = "failed" => attempts[n] >= MAX_ATTEMPTS

\* Every attempt beyond MAX_ATTEMPTS stands for an outcome that was lost.
AttemptsBounded == \A n \in Notifications : attempts[n] <= MAX_ATTEMPTS + lost[n]

\* A finished row is history: it is never reopened or sent again.
FinishedStays ==
  [][\A n \in Notifications : status[n] \in Finished =>
       status'[n] \in {status[n], "deleted"} /\ sends'[n] = sends[n]]_vars

\* Every queued notification is delivered or given up in the end, deaths of workers
\* included.
EventuallyFinished ==
  \A n \in Notifications : status[n] = "pending" ~> status[n] \in Finished \cup {"deleted"}

\* "maximal 5 Versuchen" (docs/done.md:28), "marked failed after MAX_ATTEMPTS"
\* (tasks.py:268-269): no notification is tried more often.
AtMostMaxAttempts == \A n \in Notifications : attempts[n] <= MAX_ATTEMPTS
============================================================================
