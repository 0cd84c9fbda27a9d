-------------------------- MODULE Printing_proofs --------------------------
(* Proofs about Printing: type correctness, the hard limit and the count of *)
(* parts.                                                                   *)
EXTENDS Printing, FiniteSetTheorems, TLAPS

Completed == {j \in Jobs : status[j] = "completed"}
OpenJobs == {j \in Jobs : status[j] \in OPEN_STATUSES}
Unlicensed == {j \in Counted : ~quota_override[j]}

\* What a request does fits the stage it is in, and the lock is held exactly by a
\* request that has been checked.
StageInv ==
  \A r \in Requests : req[r] # Idle =>
    /\ \/ req[r].from = "absent" /\ req[r].to = "pending"
       \/ req[r].from \in JobStatus /\ req[r].to \in JOB_TRANSITIONS[req[r].from]
    /\ req[r].stage = "check" => FirstStage(req[r].from, req[r].to) = "check"
    /\ req[r].stage = "book" => req[r].to = "completed"
    /\ req[r].stage = "write" /\ FirstStage(req[r].from, req[r].to) = "check" => quotaLock = r
LockInv ==
  \A r \in Requests : quotaLock = r =>
    /\ req[r] # Idle
    /\ req[r].stage = "write"
    /\ FirstStage(req[r].from, req[r].to) = "check"

\* While a request that needs no override holds the lock there is room for its job.
RoomLeft ==
  overlaps = 0 => \A r \in Requests : quotaLock = r /\ ~req[r].excess =>
                    used_parts + Cardinality(OpenJobs) + 1 <= max_parts

IInv == TypeOK /\ StageInv /\ LockInv /\ LimitHeld /\ PartsAreBooked /\ RoomLeft

----------------------------------------------------------------------------
\* Types.

LEMMA BusyIsNotIdle == \A b \in Busy : b # Idle /\ b.stage # "idle"
BY DEF Busy, Idle

\* The record that Begin writes.
LEMMA BeginTyped ==
  ASSUME NEW r \in Requests, NEW j \in Jobs, NEW from \in JobStatus \cup {"absent"},
         NEW to \in JobStatus, NEW override \in BOOLEAN, TypeOK, Begin(r, j, from, to, override)
  PROVE  TypeOK'
<1>1. [stage |-> FirstStage(from, to), job |-> j, from |-> from, to |-> to,
       parts |-> 0, override |-> override, excess |-> FALSE] \in Busy
  BY DEF Busy, FirstStage
<1>2. req' \in [Requests -> {Idle} \cup Busy]
  BY <1>1 DEF Begin, TypeOK
<1> QED
  BY <1>2 DEF Begin, TypeOK

LEMMA Transitions ==
  /\ \A s \in JobStatus : JOB_TRANSITIONS[s] \subseteq JobStatus
  /\ JOB_TRANSITIONS["completed"] = {}
  /\ \A s \in JobStatus : "completed" \in JOB_TRANSITIONS[s] => s \in OPEN_STATUSES
  /\ "pending" \in JobStatus
BY DEF JOB_TRANSITIONS, JobStatus, OPEN_STATUSES

LEMMA NextTyped == TypeOK /\ [Next]_vars => TypeOK'
<1> SUFFICES ASSUME TypeOK, [Next]_vars PROVE TypeOK'
  OBVIOUS
<1>1. ASSUME NEW r \in Requests, NEW j \in Jobs, NEW override \in BOOLEAN, Submit(r, j, override)
      PROVE  TypeOK'
  BY <1>1, BeginTyped, Transitions DEF Submit
<1>2. ASSUME NEW r \in Requests, NEW j \in Jobs, NEW override \in BOOLEAN, NEW to \in JobStatus,
             Update(r, j, to, override)
      PROVE  TypeOK'
  <2>1. status[j] \in JobStatus
    BY <1>2 DEF Update, TypeOK
  <2> QED
    BY <1>2, <2>1, BeginTyped DEF Update
<1>3. ASSUME NEW r \in Requests, Check(r) PROVE TypeOK'
  <2>1. req[r] \in Busy
    BY <1>3 DEF Check, TypeOK, Idle
  <2>2. Violation \in BOOLEAN
    BY DEF Violation
  <2>3. [req[r] EXCEPT !.stage = "write", !.excess = Violation] \in Busy
    BY <2>1, <2>2 DEF Busy
  <2>4. req' \in [Requests -> {Idle} \cup Busy]
    BY <1>3, <2>3 DEF Check, TypeOK
  <2>5. quotaLock' \in Requests \cup {None}
    BY <1>3 DEF Check, TypeOK, LockedBy
  <2> QED
    BY <1>3, <2>4, <2>5 DEF Check, TypeOK
<1>4. ASSUME NEW r \in Requests, ReadQuota(r) PROVE TypeOK'
  <2>1. req[r] \in Busy
    BY <1>4 DEF ReadQuota, TypeOK, Idle
  <2>2. [req[r] EXCEPT !.stage = "write", !.parts = used_parts] \in Busy
    BY <2>1 DEF Busy, TypeOK
  <2>3. req' \in [Requests -> {Idle} \cup Busy]
    BY <1>4, <2>2 DEF ReadQuota, TypeOK
  <2> QED
    BY <1>4, <2>3 DEF ReadQuota, TypeOK
<1>5. ASSUME NEW r \in Requests, Write(r) PROVE TypeOK'
  <2>1. req[r] \in Busy
    BY <1>5 DEF Write, TypeOK, Idle
  <2>2. /\ req[r].job \in Jobs /\ req[r].to \in JobStatus /\ req[r].parts \in Nat
        /\ req[r].excess \in BOOLEAN
    BY <2>1 DEF Busy
  <2>3. status' \in [Jobs -> JobStatus \cup {"absent"}] /\ booked' \in [Jobs -> Nat]
    BY <1>5, <2>2 DEF Write, TypeOK
  <2>4. quota_override' \in [Jobs -> BOOLEAN]
    BY <1>5, <2>2 DEF Write, TypeOK
  <2>5. used_parts' \in Nat /\ overlaps' \in Nat
    BY <1>5, <2>2 DEF Write, TypeOK, Parts
  <2>6. req' \in [Requests -> {Idle} \cup Busy] /\ quotaLock' \in Requests \cup {None}
    BY <1>5 DEF Write, TypeOK
  <2> QED
    BY <2>3, <2>4, <2>5, <2>6 DEF TypeOK
<1>6. ASSUME NEW r \in Requests, Rollback(r) PROVE TypeOK'
  BY <1>6 DEF Rollback, TypeOK
<1>7. CASE UNCHANGED vars
  BY <1>7 DEF vars, TypeOK
<1> QED
  BY <1>1, <1>2, <1>3, <1>4, <1>5, <1>6, <1>7 DEF Next

\* For any jobs, requests and limit the variables stay in their ranges.
THEOREM TypeCorrect == Spec => []TypeOK
<1>1. Init => TypeOK
  BY DEF Init, TypeOK
<1> QED
  BY <1>1, NextTyped, PTL DEF Spec

----------------------------------------------------------------------------
\* Stages and the lock.

LEMMA InitIInv == Init => IInv
<1> SUFFICES ASSUME Init PROVE IInv
  OBVIOUS
<1>1. TypeOK /\ StageInv /\ LockInv
  BY Limits DEF Init, TypeOK, StageInv, LockInv
<1>2. Completed = {} /\ Counted = {}
  BY DEF Init, Completed, Counted, OPEN_STATUSES
<1>3. LimitHeld /\ PartsAreBooked /\ RoomLeft
  <2>1. {j \in Counted : ~quota_override[j]} = {}
    BY <1>2
  <2>2. Cardinality({}) = 0
    BY FS_EmptySet
  <2>3. RoomLeft
    BY Limits DEF Init, RoomLeft
  <2> QED
    BY <1>2, <2>1, <2>2, <2>3, Limits DEF Init, LimitHeld, PartsAreBooked, Completed
<1> QED
  BY <1>1, <1>3 DEF IInv

LEMMA StagesKept == TypeOK /\ StageInv /\ LockInv /\ [Next]_vars => StageInv' /\ LockInv'
<1> SUFFICES ASSUME TypeOK, StageInv, LockInv, [Next]_vars PROVE StageInv' /\ LockInv'
  OBVIOUS
<1> USE Limits DEF TypeOK
<1>1. ASSUME NEW r \in Requests, NEW j \in Jobs, NEW override \in BOOLEAN, NEW to \in JobStatus,
             NEW from \in JobStatus \cup {"absent"}, Begin(r, j, from, to, override),
             \/ from = "absent" /\ to = "pending"
             \/ from \in JobStatus /\ to \in JOB_TRANSITIONS[from]
      PROVE  StageInv' /\ LockInv'
  <2>1. /\ req'[r].stage = FirstStage(from, to) /\ req'[r].from = from /\ req'[r].to = to
        /\ \A q \in Requests \ {r} : req'[q] = req[q]
        /\ req[r] = Idle /\ quotaLock' = quotaLock
    BY <1>1 DEF Begin
  <2>2. quotaLock # r
    BY <2>1 DEF LockInv
  <2>3. StageInv'
    BY <1>1, <2>1 DEF StageInv, FirstStage
  <2>4. LockInv'
    BY <2>1, <2>2 DEF LockInv
  <2> QED
    BY <2>3, <2>4
<1>2. ASSUME NEW r \in Requests, NEW j \in Jobs, NEW override \in BOOLEAN, Submit(r, j, override)
      PROVE  StageInv' /\ LockInv'
  BY <1>1, <1>2, Transitions DEF Submit
<1>3. ASSUME NEW r \in Requests, NEW j \in Jobs, NEW override \in BOOLEAN, NEW to \in JobStatus,
             Update(r, j, to, override)
      PROVE  StageInv' /\ LockInv'
  <2>1. status[j] \in JobStatus
    BY <1>3 DEF Update
  <2> QED
    BY <1>1, <1>3, <2>1 DEF Update
<1>4. ASSUME NEW r \in Requests, Check(r) PROVE StageInv' /\ LockInv'
  <2>1. /\ req[r] # Idle /\ req[r] \in Busy /\ req[r].stage = "check" /\ quotaLock = None
        /\ \A q \in Requests \ {r} : req'[q] = req[q]
    BY <1>4 DEF Check, Idle
  <2>2. CASE Violation /\ ~req[r].override
    <3>1. req'[r] = Idle /\ quotaLock' = quotaLock
      BY <1>4, <2>2 DEF Check
    <3> QED
      BY <2>1, <3>1 DEF StageInv, LockInv
  <2>3. CASE ~(Violation /\ ~req[r].override)
    <3>1. quotaLock' = r /\ req' = [req EXCEPT ![r] = [@ EXCEPT !.stage = "write", !.excess = Violation]]
      BY <1>4, <2>3 DEF Check, LockedBy
    <3>2. /\ req'[r].stage = "write" /\ req'[r].from = req[r].from /\ req'[r].to = req[r].to
          /\ req'[r] # Idle
      BY <2>1, <3>1 DEF Busy, Idle
    <3> QED
      BY <2>1, <3>1, <3>2 DEF StageInv, LockInv
  <2> QED
    BY <2>2, <2>3
<1>5. ASSUME NEW r \in Requests, ReadQuota(r) PROVE StageInv' /\ LockInv'
  <2>1. /\ req[r] # Idle /\ req[r] \in Busy /\ req[r].stage = "book" /\ quotaLock' = quotaLock
        /\ req' = [req EXCEPT ![r] = [@ EXCEPT !.stage = "write", !.parts = used_parts]]
    BY <1>5 DEF ReadQuota, Idle
  <2>2. /\ req'[r].stage = "write" /\ req'[r].from = req[r].from /\ req'[r].to = req[r].to
        /\ req'[r] # Idle /\ req[r].to = "completed" /\ quotaLock # r
        /\ \A q \in Requests \ {r} : req'[q] = req[q]
    BY <2>1 DEF Busy, Idle, StageInv, LockInv
  <2>3. FirstStage(req[r].from, "completed") # "check"
    BY DEF FirstStage, OPEN_STATUSES
  <2> QED
    BY <2>1, <2>2, <2>3 DEF StageInv, LockInv
<1>6. ASSUME NEW r \in Requests, Write(r) \/ Rollback(r) PROVE StageInv' /\ LockInv'
  <2>1. /\ req'[r] = Idle /\ \A q \in Requests \ {r} : req'[q] = req[q]
        /\ quotaLock' = IF quotaLock = r THEN None ELSE quotaLock
    BY <1>6 DEF Write, Rollback
  <2> QED
    BY <2>1 DEF StageInv, LockInv
<1>7. CASE UNCHANGED vars
  BY <1>7 DEF vars, StageInv, LockInv
<1> QED
  BY <1>2, <1>3, <1>4, <1>5, <1>6, <1>7 DEF Next

----------------------------------------------------------------------------
\* Counting.

\* What is counted, in a commit that overwrites nothing unseen.
LEMMA SetsAfterWrite ==
  ASSUME IInv, NEW r \in Requests, Write(r), ~Overlaps(r), NEW j \in Jobs, j = req[r].job
  PROVE  /\ status[j] = req[r].from /\ j \in Jobs
         /\ Completed' = IF req[r].to = "completed" THEN Completed \cup {j} ELSE Completed
         /\ OpenJobs' = IF req[r].to \in OPEN_STATUSES THEN OpenJobs \cup {j} ELSE OpenJobs \ {j}
         /\ j \notin Completed
         /\ req[r].to = "completed" => j \in OpenJobs /\ used_parts' = used_parts + 1
         /\ req[r].to # "completed" => used_parts' = used_parts
         /\ req[r].to \in OPEN_STATUSES /\ j \notin OpenJobs => quotaLock = r
         /\ req[r].to \in JobStatus
<1>1. /\ req[r] # Idle /\ req[r] \in Busy /\ req[r].stage = "write"
      /\ status[j] = req[r].from /\ status' = [status EXCEPT ![j] = req[r].to]
      /\ req[r].to \in JobStatus
  BY DEF Write, IInv, TypeOK, Idle, Overlaps, Busy
<1>2. \/ req[r].from = "absent" /\ req[r].to = "pending"
      \/ req[r].from \in JobStatus /\ req[r].to \in JOB_TRANSITIONS[req[r].from]
  BY <1>1 DEF IInv, StageInv
<1>3. req[r].from # "completed"
  BY <1>2, Transitions
<1>4. req[r].to = "completed" => req[r].from \in OPEN_STATUSES
  BY <1>2, Transitions
<1>5. req[r].to = "completed" => used_parts' = used_parts + 1
  BY DEF Write, Overlaps, Parts
<1>6. req[r].to # "completed" => used_parts' = used_parts
  BY DEF Write, Parts
<1>7. req[r].to \in OPEN_STATUSES /\ j \notin OpenJobs => quotaLock = r
  BY <1>1 DEF OpenJobs, IInv, StageInv, FirstStage
<1>8. \A x \in Jobs : status'[x] = IF x = j THEN req[r].to ELSE status[x]
  BY <1>1 DEF IInv, TypeOK
<1>9. /\ Completed' = IF req[r].to = "completed" THEN Completed \cup {j} ELSE Completed
      /\ OpenJobs' = IF req[r].to \in OPEN_STATUSES THEN OpenJobs \cup {j} ELSE OpenJobs \ {j}
  BY <1>1, <1>3, <1>8 DEF Completed, OpenJobs
<1> QED
  BY <1>1, <1>3, <1>4, <1>5, <1>6, <1>7, <1>9 DEF Completed, OpenJobs

LEMMA CountsFinite ==
  /\ IsFiniteSet(Completed) /\ IsFiniteSet(OpenJobs) /\ IsFiniteSet(Counted)
  /\ IsFiniteSet(Unlicensed)
  /\ Cardinality(Completed) \in Nat /\ Cardinality(OpenJobs) \in Nat
  /\ Cardinality(Counted) = Cardinality(Completed) + Cardinality(OpenJobs)
<1>1. /\ Completed \subseteq Jobs /\ OpenJobs \subseteq Jobs /\ Counted \subseteq Jobs
      /\ Unlicensed \subseteq Jobs /\ Counted = Completed \cup OpenJobs
      /\ Completed \cap OpenJobs = {}
  BY DEF Completed, OpenJobs, Counted, Unlicensed, OPEN_STATUSES
<1>2. IsFiniteSet(Completed) /\ IsFiniteSet(OpenJobs) /\ IsFiniteSet(Counted) /\ IsFiniteSet(Unlicensed)
  BY <1>1, Limits, FS_Subset
<1>3. Cardinality(Completed) \in Nat /\ Cardinality(OpenJobs) \in Nat
  BY <1>2, FS_CardinalityType
<1>4. Cardinality(Completed \cup OpenJobs) =
        Cardinality(Completed) + Cardinality(OpenJobs) - Cardinality(Completed \cap OpenJobs)
  BY <1>2, FS_Union
<1>5. Cardinality(Completed \cap OpenJobs) = 0
  BY <1>1, FS_EmptySet
<1> QED
  BY <1>1, <1>2, <1>3, <1>4, <1>5

\* A commit keeps the ledger and the limit.
LEMMA WriteKeeps ==
  ASSUME IInv, NEW r \in Requests, Write(r)
  PROVE  LimitHeld' /\ PartsAreBooked' /\ RoomLeft'
<1> DEFINE j == req[r].job
<1>1. /\ req[r] # Idle /\ req[r] \in Busy /\ j \in Jobs /\ req[r].excess \in BOOLEAN
      /\ overlaps \in Nat /\ used_parts \in Nat
  BY DEF Write, IInv, TypeOK, Idle, Busy
<1>2. CASE Overlaps(r)
  BY <1>1, <1>2 DEF Write, LimitHeld, PartsAreBooked, RoomLeft
<1>3. CASE overlaps # 0
  BY <1>1, <1>3 DEF Write, LimitHeld, PartsAreBooked, RoomLeft
<1>4. CASE ~Overlaps(r) /\ overlaps = 0
  <2> SUFFICES /\ Cardinality(Unlicensed') <= max_parts
               /\ used_parts' = Cardinality(Completed')
               /\ \A q \in Requests : quotaLock' = q /\ ~req'[q].excess =>
                    used_parts' + Cardinality(OpenJobs') + 1 <= max_parts
    BY DEF LimitHeld, PartsAreBooked, RoomLeft, Unlicensed, Completed
  <2>1. /\ Completed' = IF req[r].to = "completed" THEN Completed \cup {j} ELSE Completed
        /\ OpenJobs' = IF req[r].to \in OPEN_STATUSES THEN OpenJobs \cup {j} ELSE OpenJobs \ {j}
        /\ j \notin Completed
        /\ req[r].to = "completed" => j \in OpenJobs /\ used_parts' = used_parts + 1
        /\ req[r].to # "completed" => used_parts' = used_parts
        /\ req[r].to \in OPEN_STATUSES /\ j \notin OpenJobs => quotaLock = r
    BY <1>1, <1>4, SetsAfterWrite
  <2>2. used_parts = Cardinality(Completed) /\ Cardinality(Unlicensed) <= max_parts
    BY <1>4 DEF IInv, PartsAreBooked, LimitHeld, Completed, Unlicensed
  <2>3. /\ \A x \in Jobs : quota_override'[x] = (quota_override[x] \/ (x = j /\ req[r].excess))
    BY <1>1 DEF Write, IInv, TypeOK
  <2>4. Counted = Completed \cup OpenJobs /\ Counted' = Completed' \cup OpenJobs'
    BY DEF Counted, Completed, OpenJobs
  <2>5. /\ quotaLock' = IF quotaLock = r THEN None ELSE quotaLock
        /\ \A q \in Requests \ {r} : req'[q] = req[q]
        /\ req[r].to = "completed" => quotaLock = None
        /\ None \notin Requests
    BY Limits DEF Write
  <2>6. used_parts' = Cardinality(Completed')
    BY <2>1, <2>2, CountsFinite, FS_AddElement
  <2>7. ASSUME req[r].to \notin OPEN_STATUSES \/ j \in OpenJobs
        PROVE  Cardinality(Unlicensed') <= max_parts
    <3>1. Unlicensed' \subseteq Unlicensed
      <4>1. Counted' \subseteq Counted
        BY <2>1, <2>4, <2>7
      <4> QED
        BY <2>3, <4>1 DEF Unlicensed, Counted
    <3>2. Cardinality(Unlicensed') <= Cardinality(Unlicensed)
      BY <3>1, CountsFinite, FS_Subset
    <3>3. Cardinality(Unlicensed') \in Nat /\ Cardinality(Unlicensed) \in Nat
      BY <3>1, CountsFinite, FS_Subset, FS_CardinalityType
    <3> QED
      BY <2>2, <3>2, <3>3, Limits
  <2>8. ASSUME req[r].to \in OPEN_STATUSES, j \notin OpenJobs, req[r].excess
        PROVE  Cardinality(Unlicensed') <= max_parts
    <3>1. Unlicensed' \subseteq Unlicensed
      <4>1. Counted' \subseteq Counted \cup {j}
        BY <2>1, <2>4, <2>8
      <4>2. quota_override'[j]
        BY <1>1, <2>3, <2>8
      <4> QED
        BY <2>3, <4>1, <4>2 DEF Unlicensed, Counted
    <3>2. Cardinality(Unlicensed') <= Cardinality(Unlicensed)
      BY <3>1, CountsFinite, FS_Subset
    <3>3. Cardinality(Unlicensed') \in Nat /\ Cardinality(Unlicensed) \in Nat
      BY <3>1, CountsFinite, FS_Subset, FS_CardinalityType
    <3> QED
      BY <2>2, <3>2, <3>3, Limits
  <2>9. ASSUME req[r].to \in OPEN_STATUSES, j \notin OpenJobs, ~req[r].excess
        PROVE  Cardinality(Unlicensed') <= max_parts
    <3>1. used_parts + Cardinality(OpenJobs) + 1 <= max_parts
      BY <1>4, <2>1, <2>9 DEF IInv, RoomLeft
    <3>2. req[r].to # "completed"
      BY <2>9 DEF OPEN_STATUSES
    <3>3. Counted' = Counted \cup {j} /\ j \notin Counted
      BY <2>1, <2>4, <2>9, <3>2
    <3>4. Cardinality(Counted') = Cardinality(Counted) + 1 /\ IsFiniteSet(Counted')
      BY <3>3, CountsFinite, FS_AddElement
    <3>5. Unlicensed' \subseteq Counted'
      BY DEF Unlicensed
    <3>6. Cardinality(Unlicensed') <= Cardinality(Counted') /\ Cardinality(Unlicensed') \in Nat
      BY <3>4, <3>5, FS_Subset, FS_CardinalityType
    <3> QED
      BY <2>2, <3>1, <3>4, <3>6, CountsFinite, Limits
  <2>10. ASSUME NEW q \in Requests, quotaLock' = q, ~req'[q].excess
         PROVE  used_parts' + Cardinality(OpenJobs') + 1 <= max_parts
    <3>1. /\ q # r /\ quotaLock = q /\ req'[q] = req[q] /\ req[r].to # "completed"
          /\ (req[r].to \in OPEN_STATUSES => j \in OpenJobs)
      BY <2>1, <2>5, <2>10
    <3>2. used_parts + Cardinality(OpenJobs) + 1 <= max_parts
      BY <1>4, <2>10, <3>1 DEF IInv, RoomLeft
    <3>3. OpenJobs' \subseteq OpenJobs
      BY <2>1, <3>1
    <3>4. Cardinality(OpenJobs') <= Cardinality(OpenJobs) /\ Cardinality(OpenJobs') \in Nat
      BY <3>3, CountsFinite, FS_Subset, FS_CardinalityType
    <3> QED
      BY <1>1, <2>1, <3>1, <3>2, <3>4, CountsFinite, Limits
  <2> QED
    BY <1>1, <2>6, <2>7, <2>8, <2>9, <2>10
<1> QED
  BY <1>2, <1>3, <1>4

\* Every other step leaves the jobs and the quota alone.
LEMMA OthersKeep ==
  ASSUME IInv, UNCHANGED <<status, quota_override, used_parts, overlaps>>,
         \A r \in Requests : quotaLock' = r =>
           \/ quotaLock = r /\ req'[r].excess = req[r].excess
           \/ req'[r].excess \/ used_parts + Cardinality(OpenJobs) + 1 <= max_parts
  PROVE  LimitHeld' /\ PartsAreBooked' /\ RoomLeft'
<1>1. Counted' = Counted /\ OpenJobs' = OpenJobs
  BY DEF Counted, OpenJobs
<1> QED
  BY <1>1 DEF IInv, LimitHeld, PartsAreBooked, RoomLeft

LEMMA NextKeepsIInv == IInv /\ [Next]_vars => IInv'
<1> SUFFICES ASSUME IInv, [Next]_vars PROVE IInv'
  OBVIOUS
<1>1. TypeOK' /\ StageInv' /\ LockInv'
  BY NextTyped, StagesKept DEF IInv
<1> SUFFICES LimitHeld' /\ PartsAreBooked' /\ RoomLeft'
  BY <1>1 DEF IInv
<1>2. ASSUME NEW r \in Requests, NEW j \in Jobs, NEW from, NEW to, NEW override,
             Begin(r, j, from, to, override)
      PROVE  LimitHeld' /\ PartsAreBooked' /\ RoomLeft'
  <2>1. req[r] = Idle /\ quotaLock' = quotaLock /\ \A q \in Requests \ {r} : req'[q] = req[q]
    BY <1>2 DEF Begin, IInv, TypeOK
  <2>2. quotaLock # r
    BY <2>1 DEF IInv, LockInv
  <2> QED
    BY <1>2, <2>1, <2>2, OthersKeep DEF Begin
<1>3. ASSUME NEW r \in Requests, Check(r)
      PROVE  LimitHeld' /\ PartsAreBooked' /\ RoomLeft'
  <2>1. /\ req[r] \in Busy /\ quotaLock = None
        /\ \A q \in Requests \ {r} : req'[q] = req[q]
    BY <1>3 DEF Check, IInv, TypeOK, Idle
  <2>2. CASE Violation /\ ~req[r].override
    BY <1>3, <2>1, <2>2, Limits, OthersKeep DEF Check
  <2>3. CASE ~(Violation /\ ~req[r].override)
    <3>0. /\ quotaLock' = r
          /\ req' = [req EXCEPT ![r] = [@ EXCEPT !.stage = "write", !.excess = Violation]]
      BY <1>3, <2>3 DEF Check, LockedBy
    <3>1. quotaLock' = r /\ (req'[r].excess <=> Violation)
      BY <2>1, <3>0, Zenon DEF IInv, TypeOK, Busy
    <3>2. ~Violation => used_parts + Cardinality(OpenJobs) + 1 <= max_parts
      <4>1. OpenUsage = Cardinality(OpenJobs) /\ used_parts \in Nat /\ Cardinality(OpenJobs) \in Nat
        BY CountsFinite DEF OpenUsage, OpenJobs, IInv, TypeOK
      <4> QED
        BY <4>1, Limits DEF Violation
    <3> QED
      BY <1>3, <3>1, <3>2, OthersKeep DEF Check
  <2> QED
    BY <2>2, <2>3
<1>4. ASSUME NEW r \in Requests, ReadQuota(r)
      PROVE  LimitHeld' /\ PartsAreBooked' /\ RoomLeft'
  <2>1. /\ quotaLock' = quotaLock
        /\ req' = [req EXCEPT ![r] = [@ EXCEPT !.stage = "write", !.parts = used_parts]]
        /\ req[r] \in Busy
    BY <1>4 DEF ReadQuota, IInv, TypeOK, Idle
  <2>2. \A q \in Requests : req'[q].excess = req[q].excess
    BY <2>1 DEF Busy, IInv, TypeOK
  <2> QED
    BY <1>4, <2>1, <2>2, OthersKeep DEF ReadQuota
<1>5. ASSUME NEW r \in Requests, Rollback(r)
      PROVE  LimitHeld' /\ PartsAreBooked' /\ RoomLeft'
  <2>1. /\ quotaLock' = IF quotaLock = r THEN None ELSE quotaLock
        /\ \A q \in Requests \ {r} : req'[q] = req[q]
    BY <1>5 DEF Rollback, IInv, TypeOK
  <2> QED
    BY <1>5, <2>1, Limits, OthersKeep DEF Rollback
<1>6. CASE UNCHANGED vars
  BY <1>6, OthersKeep DEF vars
<1> QED
  BY <1>2, <1>3, <1>4, <1>5, <1>6, WriteKeeps DEF Next, Submit, Update

LEMMA AlwaysIInv == Spec => []IInv
BY InitIInv, NextKeepsIInv, PTL DEF Spec

\* For any number of jobs and requests and any limit: without an override and
\* without overlapping writes of one job or of the count, no more than max_parts
\* jobs are printed or open.
THEOREM LimitAlwaysHeld == Spec => []LimitHeld
<1>1. IInv => LimitHeld
  BY DEF IInv
<1> QED
  BY <1>1, AlwaysIInv, PTL

\* Likewise the quota row counts the completed jobs.
THEOREM PartsAlwaysBooked == Spec => []PartsAreBooked
<1>1. IInv => PartsAreBooked
  BY DEF IInv
<1> QED
  BY <1>1, AlwaysIInv, PTL
============================================================================
