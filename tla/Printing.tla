------------------------------ MODULE Printing ------------------------------
(***************************************************************************)
(* The print jobs of one team in one event and its quota row               *)
(* (modules/printing/service.py).  A request of a team or an official, and *)
(* a round of the printer poller, is a transaction at read committed: it   *)
(* loads the job, may wait (for the printer it stops, for a lock), and     *)
(* writes back what it decided on the job as it was loaded.  Only the      *)
(* hard-limit check locks the quota row.                                   *)
(*                                                                         *)
(* Every request moves one job; grams, spools and robot parts are left     *)
(* out.  The limit is that of parts.                                       *)
(***************************************************************************)
EXTENDS Integers, FiniteSets

CONSTANTS
  Jobs,        \* the jobs the team may submit
  Requests,    \* the requests and polls that may run at once
  None,        \* nobody holds the lock
  max_parts,   \* TeamSeasonPrintQuota.max_parts
  MaxOverlaps  \* bound of the model: commits that overwrite what they have not seen

ASSUME Limits == /\ IsFiniteSet(Jobs) /\ None \notin Requests
                 /\ max_parts \in Nat /\ MaxOverlaps \in Nat

VARIABLES
  status,          \* PrintJob.status, "absent" before the submission
  quota_override,  \* PrintJob.quota_override
  used_parts,      \* TeamSeasonPrintQuota.used_parts
  quotaLock,       \* the request that holds the quota row FOR UPDATE, or None
  req,             \* what every request is doing
  booked,          \* how often the part of a job was booked on the quota
  overlaps         \* commits that overwrote a status or a count they had not seen

vars == <<status, quota_override, used_parts, quotaLock, req, booked, overlaps>>

JobStatus == {"pending", "approved", "queued", "printing",
              "completed", "failed", "cancelled", "rejected"}
OPEN_STATUSES == {"pending", "approved", "queued", "printing"}

JOB_TRANSITIONS ==
  [s \in JobStatus |->
     CASE s = "pending"  -> {"approved", "rejected", "cancelled"}
       [] s = "approved" -> {"queued", "rejected", "cancelled"}
       [] s = "queued"   -> {"printing", "completed", "failed", "cancelled"}
       [] s = "printing" -> {"completed", "failed", "cancelled"}
       [] s = "failed"   -> {"queued", "cancelled"}
       [] OTHER          -> {}]

Idle == [stage |-> "idle"]
Busy == [stage : {"check", "book", "write"}, job : Jobs,
         from : JobStatus \cup {"absent"}, to : JobStatus,
         parts : Nat,           \* used_parts as it was read
         override : BOOLEAN,    \* the request's quota_override
         excess : BOOLEAN]      \* it was needed: the hard limit is reached

Init == /\ status = [j \in Jobs |-> "absent"]
        /\ quota_override = [j \in Jobs |-> FALSE]
        /\ used_parts = 0
        /\ quotaLock = None
        /\ req = [r \in Requests |-> Idle]
        /\ booked = [j \in Jobs |-> 0]
        /\ overlaps = 0

----------------------------------------------------------------------------
\* Beginning a request.

\* A submission and a retry are checked against the hard limit; a completion reads
\* the quota row to book the part.
FirstStage(from, to) == IF from \notin OPEN_STATUSES /\ to \in OPEN_STATUSES THEN "check"
                        ELSE IF to = "completed" THEN "book" ELSE "write"

Begin(r, j, from, to, override) ==
  /\ req[r] = Idle
  /\ req' = [req EXCEPT ![r] = [stage |-> FirstStage(from, to), job |-> j, from |-> from, to |-> to,
                                parts |-> 0, override |-> override, excess |-> FALSE]]
  /\ UNCHANGED <<status, quota_override, used_parts, quotaLock, booked, overlaps>>

\* create_print_job; override only by print admins.
Submit(r, j, override) ==
  /\ status[j] = "absent"
  /\ \A q \in Requests : req[q] # Idle => req[q].job # j
  /\ Begin(r, j, "absent", "pending", override)

\* update_print_job, also by way of approve, reject, cancel and apply_printer_status:
\* the job is loaded and the transition checked.
Update(r, j, to, override) ==
  /\ status[j] # "absent"
  /\ to \in JOB_TRANSITIONS[status[j]]
  /\ override => FirstStage(status[j], to) = "check"
  /\ Begin(r, j, status[j], to, override)

----------------------------------------------------------------------------
\* The quota row.

\* The team's unfinished jobs.
OpenUsage == Cardinality({j \in Jobs : status[j] \in OPEN_STATUSES})

Violation == used_parts + OpenUsage + 1 > max_parts

\* Faulty variant: the quota row is read without a lock.
LockedByNobody(r) == None

\* _locked_quota: the row is locked until the request ends.
LockedBy(r) == r

\* _hard_limit_violation under the lock; a violation without override is refused.
\* (Other transactions may commit between the lock and the count of open jobs, but
\* none that changes used_parts: that equals taking the lock at the count.)
Check(r) ==
  /\ req[r].stage = "check"
  /\ quotaLock = None
  /\ IF Violation /\ ~req[r].override
     THEN /\ req' = [req EXCEPT ![r] = Idle]
          /\ UNCHANGED quotaLock
     ELSE /\ req' = [req EXCEPT ![r] = [@ EXCEPT !.stage = "write", !.excess = Violation]]
          /\ quotaLock' = LockedBy(r)
  /\ UNCHANGED <<status, quota_override, used_parts, booked, overlaps>>

\* _account_filament reads the quota row, without a lock.
ReadQuota(r) ==
  /\ req[r].stage = "book"
  /\ req' = [req EXCEPT ![r] = [@ EXCEPT !.stage = "write", !.parts = used_parts]]
  /\ UNCHANGED <<status, quota_override, used_parts, quotaLock, booked, overlaps>>

----------------------------------------------------------------------------
\* The end of a request.

\* Faulty variants: a cancelled job gives its part back; a part is booked when the
\* print starts, too.
PartsGivenBack(r) == IF req[r].to = "completed" THEN req[r].parts + 1
                     ELSE IF req[r].to = "cancelled" THEN used_parts - 1 ELSE used_parts
PartsWhenStarted(r) == IF req[r].to = "completed" THEN req[r].parts + 1
                       ELSE IF req[r].to = "printing" THEN used_parts + 1 ELSE used_parts

\* used_parts after the commit: the ORM writes the incremented value.
Parts(r) == IF req[r].to = "completed" THEN req[r].parts + 1 ELSE used_parts

\* Does the request overwrite what somebody committed since it read it?
Overlaps(r) == \/ status[req[r].job] # req[r].from
               \/ req[r].to = "completed" /\ used_parts # req[r].parts

\* Flush and commit.  The UPDATE of the quota row waits for its lock.
Write(r) ==
  /\ req[r].stage = "write"
  /\ req[r].to = "completed" => quotaLock = None
  /\ Overlaps(r) => overlaps < MaxOverlaps
  /\ overlaps' = IF Overlaps(r) THEN overlaps + 1 ELSE overlaps
  /\ status' = [status EXCEPT ![req[r].job] = req[r].to]
  /\ quota_override' = [quota_override EXCEPT ![req[r].job] = @ \/ req[r].excess]
  /\ used_parts' = Parts(r)
  /\ booked' = IF req[r].to = "completed" THEN [booked EXCEPT ![req[r].job] = @ + 1] ELSE booked
  /\ quotaLock' = IF quotaLock = r THEN None ELSE quotaLock
  /\ req' = [req EXCEPT ![r] = Idle]

\* The request fails for any other reason.
Rollback(r) ==
  /\ req[r] # Idle
  /\ quotaLock' = IF quotaLock = r THEN None ELSE quotaLock
  /\ req' = [req EXCEPT ![r] = Idle]
  /\ UNCHANGED <<status, quota_override, used_parts, booked, overlaps>>

Next == \E r \in Requests :
          \/ \E j \in Jobs, override \in BOOLEAN :
               \/ Submit(r, j, override)
               \/ \E to \in JobStatus : Update(r, j, to, override)
          \/ Check(r) \/ ReadQuota(r) \/ Write(r) \/ Rollback(r)

Spec == Init /\ [][Next]_vars

----------------------------------------------------------------------------
\* Every variable stays in its range, and the lock is held by the request that is
\* about to write what it checked.
TypeOK == /\ status \in [Jobs -> JobStatus \cup {"absent"}]
          /\ quota_override \in [Jobs -> BOOLEAN]
          /\ used_parts \in Nat
          /\ quotaLock \in Requests \cup {None}
          /\ req \in [Requests -> {Idle} \cup Busy]
          /\ booked \in [Jobs -> Nat]
          /\ overlaps \in Nat

\* "Two concurrent submissions are checked one after the other and the second one
\* sees the first one's job" (service.py:452-454): however submissions, retries and
\* the life of other jobs interleave, no more than max_parts jobs are printed or
\* open without an override, unless a status was overwritten unseen.
Counted == {j \in Jobs : status[j] \in OPEN_STATUSES \cup {"completed"}}
LimitHeld ==
  overlaps = 0 => Cardinality({j \in Counted : ~quota_override[j]}) <= max_parts

\* The quota row counts the completed jobs, through failures and retries, as long
\* as no completion overlaps another write.
PartsAreBooked ==
  overlaps = 0 => used_parts = Cardinality({j \in Jobs : status[j] = "completed"})

\* Parts are booked "never twice" (_account_filament, service.py:516-518).
NeverTwice == \A j \in Jobs : booked[j] <= 1
============================================================================
