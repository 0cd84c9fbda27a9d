--------------------------- MODULE Outbox_proofs ----------------------------
(***************************************************************************)
(* The safety of the outbox for any number of notifications and workers,   *)
(* any limits with TIME_LIMIT < CLAIM_LEASE, and any number of deaths.     *)
(***************************************************************************)
EXTENDS Outbox, FiniteSetTheorems, TLAPS

\* Only a worker that is sending holds rows; the ones it is done with failed or were
\* sent.
Batches ==
  \A w \in Workers : /\ stage[w] # "sending" => held[w] = {}
                     /\ todo[w] \subseteq held[w]
                     /\ bad[w] \subseteq held[w] \ todo[w]

\* A held row is leased to its worker, for longer than the worker lives.
Leases ==
  \A w \in Workers : \A n \in held[w] :
    \/ status[n] = "deleted"
    \/ status[n] = "sending" /\ dueIn[n] >= CLAIM_LEASE - age[w]

OneHolder == \A v, w \in Workers : v # w => held[v] \cap held[w] = {}

\* No two rows with one key, the uncommitted ones included.
KeysUnique ==
  \A n \in Notifications : status[n] \in Visible \cup {"inserted"} =>
    \A x \in SameKey(n) : status[x] \notin Visible \cup {"inserted"}

\* A worker just reached the recipients of n.
Reached(n) == \E w \in Workers : n \in held[w] /\ n \notin todo[w] /\ n \notin bad[w]
Held(n) == \E w \in Workers : n \in held[w]

\* Where the one send that needs no lost claim may be: in a delivered row, in the
\* hands of a worker, or with a row that is gone.
SendsCounted ==
  \A n \in Notifications :
    /\ sends[n] <= 1 + lost[n]
    /\ Reached(n) => sends[n] >= 1
    /\ ~Reached(n) /\ status[n] # "delivered" /\ (status[n] = "deleted" => Held(n))
         => sends[n] <= lost[n]

\* Attempts by status: the last allowed one is never followed by another, unless its
\* claim was lost.
AttemptsCounted ==
  \A n \in Notifications :
    /\ attempts[n] <= MAX_ATTEMPTS + lost[n]
    /\ status[n] \in {"absent", "checked", "inserted"} => attempts[n] = 0
    /\ status[n] = "pending" => attempts[n] < MAX_ATTEMPTS
    /\ status[n] = "sending" => attempts[n] >= 1
    /\ status[n] = "sending" /\ ~Held(n) => attempts[n] < MAX_ATTEMPTS + lost[n]

IInv == /\ TypeOK /\ Batches /\ Leases /\ OneHolder /\ KeysUnique
        /\ SendsCounted /\ AttemptsCounted /\ OutcomeIsEarned

----------------------------------------------------------------------------
LEMMA InitIInv == Init => IInv
BY Settings DEF Init, IInv, TypeOK, Batches, Leases, OneHolder, KeysUnique, SendsCounted,
                AttemptsCounted, OutcomeIsEarned, Reached, Held, Visible, Finished

\* The steps that change rows only, and not those in the hands of a worker, except
\* that they may delete them.
RowStep ==
  /\ UNCHANGED <<attempts, dueIn, tasks, history>>
  /\ \A n \in Notifications :
       \/ status'[n] = status[n]
       \/ {status[n], status'[n]} \subseteq {"absent", "checked", "inserted"}
       \/ status[n] = "inserted" /\ status'[n] = "pending"
       \/ status[n] \in Visible /\ status'[n] = "deleted"

LEMMA RowSteps ==
  ASSUME TypeOK,
         \/ \E n \in Notifications : Check(n) \/ Insert(n) \/ Commit(n) \/ Rollback(n) \/ DeleteEvent(n)
         \/ \E cutoff \in 1 .. Cardinality(Notifications) : CleanUp(cutoff)
  PROVE  RowStep /\ TypeOK'
<1>1. ASSUME NEW n \in Notifications, Insert(n) PROVE created' \in [Notifications -> Nat]
  <2> DEFINE C == {x \in Notifications : created[x] # 0}
  <2>1. Cardinality(C) \in Nat
    BY Settings, FS_Subset, FS_CardinalityType
  <2>2. created' = created \/ created' = [created EXCEPT ![n] = 1 + Cardinality(C)]
    BY <1>1 DEF Insert
  <2> HIDE DEF C
  <2> QED BY <2>1, <2>2 DEF TypeOK
<1>2. ASSUME NEW n \in Notifications,
             Check(n) \/ Insert(n) \/ Commit(n) \/ Rollback(n) \/ DeleteEvent(n)
      PROVE  RowStep /\ TypeOK'
  BY <1>1, <1>2 DEF Check, Insert, Commit, Rollback, DeleteEvent, RowStep, TypeOK, tasks, history,
                    Visible, Finished
<1>3. ASSUME NEW cutoff \in 1 .. Cardinality(Notifications), CleanUp(cutoff)
      PROVE  RowStep /\ TypeOK'
  BY <1>3 DEF CleanUp, RowStep, TypeOK, tasks, history, Visible, Finished
<1> QED BY <1>2, <1>3

LEMMA RowStepKeeps ==
  ASSUME IInv, RowStep
  PROVE  /\ Batches' /\ Leases' /\ OneHolder' /\ SendsCounted' /\ AttemptsCounted'
         /\ OutcomeIsEarned'
<1> USE DEF IInv, RowStep, tasks, history
<1>1. Batches' /\ OneHolder'
  BY DEF Batches, OneHolder
<1>2. Leases'
  BY DEF Leases, TypeOK, Visible, Finished
<1>3. (\A n \in Notifications : Reached(n)' = Reached(n) /\ Held(n)' = Held(n))
  BY DEF Reached, Held
<1>4. SendsCounted'
  <2>1. \A n \in Notifications : Held(n) => status[n] # "delivered"
    BY DEF Leases, Held
  <2>2. UNCHANGED <<sends, lost>>
    OBVIOUS
  <2> QED BY <1>3, <2>1, <2>2 DEF SendsCounted, Visible, Finished
<1>5. AttemptsCounted'
  BY <1>3, Settings DEF AttemptsCounted, Visible, Finished
<1>6. OutcomeIsEarned'
  BY DEF OutcomeIsEarned, Visible, Finished
<1> QED BY <1>1, <1>2, <1>4, <1>5, <1>6

LEMMA RowStepKeys ==
  ASSUME IInv,
         \/ \E n \in Notifications : Check(n) \/ Insert(n) \/ Commit(n) \/ Rollback(n) \/ DeleteEvent(n)
         \/ \E cutoff \in 1 .. Cardinality(Notifications) : CleanUp(cutoff)
  PROVE  KeysUnique'
<1> USE DEF IInv
<1>1. ASSUME NEW n \in Notifications, Insert(n) PROVE KeysUnique'
  <2>1. CASE status'[n] = "inserted"
    <3>1. \A x \in SameKey(n) : status[x] \notin Visible \cup {"inserted"}
      BY <1>1, <2>1 DEF Insert, TypeOK
    <3>2. \A x \in Notifications : n \in SameKey(x) => x \in SameKey(n)
      BY DEF SameKey
    <3>3. \A x \in Notifications : x # n => status'[x] = status[x]
      BY <1>1 DEF Insert, TypeOK
    <3> QED BY <2>1, <3>1, <3>2, <3>3 DEF KeysUnique, Visible, Finished, SameKey
  <2>2. CASE status'[n] # "inserted"
    <3>1. /\ status'[n] = "absent"
          /\ \A x \in Notifications : x # n => status'[x] = status[x]
      BY <1>1, <2>2 DEF Insert, TypeOK
    <3> QED BY <3>1 DEF KeysUnique, Visible, Finished, SameKey
  <2> QED BY <2>1, <2>2
<1>2. ASSUME \A x \in Notifications : status'[x] \in Visible \cup {"inserted"} =>
                                         status[x] \in Visible \cup {"inserted"}
      PROVE  KeysUnique'
  BY <1>2 DEF KeysUnique, SameKey
<1>3. ASSUME NEW n \in Notifications, Check(n) \/ Commit(n) \/ Rollback(n) \/ DeleteEvent(n)
      PROVE  KeysUnique'
  BY <1>2, <1>3 DEF Check, Commit, Rollback, DeleteEvent, TypeOK, Visible, Finished
<1>4. ASSUME NEW cutoff \in 1 .. Cardinality(Notifications), CleanUp(cutoff)
      PROVE  KeysUnique'
  BY <1>2, <1>4 DEF CleanUp, Visible, Finished
<1> QED BY <1>1, <1>3, <1>4

\* What the steps of the workers leave alone.
LEMMA SameKeysKept ==
  ASSUME IInv, \A x \in Notifications : status'[x] \in Visible \cup {"inserted"} =>
                                           status[x] \in Visible \cup {"inserted"}
  PROVE  KeysUnique'
BY DEF IInv, KeysUnique, SameKey

----------------------------------------------------------------------------
\* Steps of a worker.

LEMMA BeginKeeps == ASSUME IInv, NEW w \in Workers, Begin(w) PROVE IInv'
<1> USE DEF IInv
<1>1. TypeOK'
  BY Settings DEF Begin, TypeOK, rows, history
<1>2. held[w] = {}
  BY DEF Begin, Batches
<1>3. Batches' /\ OneHolder' /\ Leases'
  BY <1>2 DEF Begin, Batches, OneHolder, Leases, TypeOK, rows, history
<1>4. KeysUnique'
  BY SameKeysKept DEF Begin, rows
<1>5. \A n \in Notifications : Reached(n)' = Reached(n) /\ Held(n)' = Held(n)
  BY DEF Begin, Reached, Held
<1>6. SendsCounted' /\ AttemptsCounted' /\ OutcomeIsEarned'
  BY <1>5 DEF Begin, SendsCounted, AttemptsCounted, OutcomeIsEarned, rows, history
<1> QED BY <1>1, <1>3, <1>4, <1>6

\* A due row is held by nobody: that is what the lease is for.
LEMMA DueIsFree == ASSUME IInv, NEW n \in Notifications, Due(n) PROVE ~Held(n)
BY Settings DEF IInv, Due, Held, Leases, TypeOK

LEMMA ClaimKeeps == ASSUME IInv, NEW w \in Workers, Claim(w) PROVE IInv'
<1> USE DEF IInv
<1> DEFINE batch == Batch
<1>1. batch \subseteq Notifications /\ \A n \in batch : Due(n)
  BY DEF Batch
<1>2. \A n \in batch : ~Held(n) /\ status[n] \in {"pending", "sending"}
  BY <1>1, DueIsFree DEF Due
<1>3. /\ stage' = [stage EXCEPT ![w] = IF batch = {} THEN "idle" ELSE "sending"]
      /\ held' = [held EXCEPT ![w] = batch]
      /\ todo' = [todo EXCEPT ![w] = batch]
      /\ status' = [n \in Notifications |-> IF n \in batch THEN "sending" ELSE status[n]]
      /\ attempts' = [n \in Notifications |-> IF n \in batch THEN attempts[n] + 1 ELSE attempts[n]]
      /\ dueIn' = [n \in Notifications |-> IF n \in batch THEN Lease(w) ELSE dueIn[n]]
      /\ UNCHANGED <<created, age, bad, history>>
  BY DEF Claim
<1>4. held[w] = {} /\ todo[w] = {} /\ bad[w] = {}
  BY DEF Claim, Batches, TypeOK
<1> HIDE DEF batch
<1>5. Lease(w) \in Nat /\ Lease(w) = CLAIM_LEASE - age[w]
  BY Settings DEF Lease, TypeOK
<1>6. TypeOK'
  BY <1>1, <1>3, <1>5 DEF TypeOK, history, Visible
<1>7. Batches'
  BY <1>3, <1>4 DEF Batches, TypeOK
<1>8. OneHolder'
  BY <1>2, <1>3 DEF OneHolder, Held, TypeOK
<1>9. Leases'
  BY <1>1, <1>3, <1>5, <1>2 DEF Leases, Held, TypeOK
<1>10. KeysUnique'
  BY <1>2, <1>3, SameKeysKept DEF Visible
<1>11. \A n \in Notifications : /\ n \notin batch => Reached(n)' = Reached(n) /\ Held(n)' = Held(n)
                                /\ n \in batch => ~Reached(n)' /\ ~Reached(n) /\ Held(n)'
  BY <1>2, <1>3, <1>4 DEF Reached, Held, TypeOK
<1>12. SendsCounted'
  BY <1>2, <1>3, <1>11 DEF SendsCounted, history
<1>13. AttemptsCounted'
  <2> SUFFICES ASSUME NEW n \in Notifications
               PROVE  /\ attempts'[n] <= MAX_ATTEMPTS + lost'[n]
                      /\ status'[n] \in {"absent", "checked", "inserted"} => attempts'[n] = 0
                      /\ status'[n] = "pending" => attempts'[n] < MAX_ATTEMPTS
                      /\ status'[n] = "sending" => attempts'[n] >= 1
                      /\ status'[n] = "sending" /\ ~Held(n)' => attempts'[n] < MAX_ATTEMPTS + lost'[n]
    BY DEF AttemptsCounted
  <2>1. attempts[n] \in Nat /\ lost[n] \in Nat /\ MAX_ATTEMPTS \in Nat /\ lost'[n] = lost[n]
    BY <1>3, Settings DEF TypeOK, history
  <2>2. CASE n \in batch
    <3>1. attempts'[n] = attempts[n] + 1 /\ status'[n] = "sending" /\ Held(n)'
      BY <1>3, <1>11, <2>2
    <3>2. attempts[n] < MAX_ATTEMPTS + lost[n]
      BY <1>2, <2>1, <2>2 DEF AttemptsCounted
    <3> QED BY <2>1, <3>1, <3>2
  <2>3. CASE n \notin batch
    BY <1>3, <1>11, <2>1, <2>3 DEF AttemptsCounted
  <2> QED BY <2>2, <2>3
<1>14. OutcomeIsEarned'
  BY <1>2, <1>3 DEF OutcomeIsEarned, history
<1> QED BY <1>6, <1>7, <1>8, <1>9, <1>10, <1>12, <1>13, <1>14

LEMMA DeliverKeeps ==
  ASSUME IInv, NEW w \in Workers, NEW n \in Notifications, Deliver(w, n) PROVE IInv'
<1> USE DEF IInv
<1>1. /\ n \in held[w] /\ n \in todo[w] /\ n \notin bad[w] /\ status[n] \in {"sending", "deleted"}
      /\ \A v \in Workers : v # w => n \notin held[v]
      /\ ~Reached(n) /\ Held(n)
  BY DEF Deliver, Batches, Leases, OneHolder, Reached, Held
<1>2. /\ UNCHANGED <<rows, stage, age, held, lost, deaths>>
      /\ todo' = [todo EXCEPT ![w] = @ \ {n}]
      /\ \/ sends' = [sends EXCEPT ![n] = @ + 1] /\ UNCHANGED bad
         \/ bad' = [bad EXCEPT ![w] = @ \cup {n}] /\ UNCHANGED sends
  BY DEF Deliver
<1>3. TypeOK'
  BY <1>2 DEF TypeOK, rows
<1>4. Batches' /\ Leases' /\ OneHolder'
  BY <1>1, <1>2 DEF Batches, Leases, OneHolder, TypeOK, rows
<1>5. KeysUnique'
  BY <1>2, SameKeysKept DEF rows
<1>6. \A x \in Notifications : /\ Held(x)' = Held(x)
                               /\ x # n => Reached(x)' = Reached(x)
  BY <1>2 DEF Reached, Held, TypeOK
<1>7. AttemptsCounted'
  BY <1>2, <1>6 DEF AttemptsCounted, rows
<1>8. sends[n] <= lost[n] /\ sends[n] \in Nat /\ lost[n] \in Nat
  BY <1>1 DEF SendsCounted, TypeOK
<1>9. CASE sends' = [sends EXCEPT ![n] = @ + 1] /\ UNCHANGED bad
  <2>1. /\ sends'[n] = sends[n] + 1
        /\ \A x \in Notifications : x # n => sends'[x] = sends[x]
        /\ UNCHANGED <<status, lost, attempts>>
    BY <1>2, <1>9 DEF TypeOK, rows
  <2>2. Reached(n)'
    BY <1>1, <1>2, <1>9 DEF Reached, TypeOK
  <2>3. SendsCounted'
    BY <1>6, <1>8, <2>1, <2>2 DEF SendsCounted
  <2>4. OutcomeIsEarned'
    BY <1>8, <2>1 DEF OutcomeIsEarned
  <2> QED BY <1>3, <1>4, <1>5, <1>7, <2>3, <2>4
<1>10. CASE bad' = [bad EXCEPT ![w] = @ \cup {n}] /\ UNCHANGED sends
  <2>1. ~Reached(n)'
    BY <1>1, <1>2, <1>10 DEF Reached, TypeOK
  <2>2. UNCHANGED <<sends, status, lost, attempts>>
    BY <1>2, <1>10 DEF rows
  <2>3. SendsCounted'
    BY <1>1, <1>6, <1>8, <2>1, <2>2 DEF SendsCounted
  <2>4. OutcomeIsEarned'
    BY <2>2 DEF OutcomeIsEarned
  <2> QED BY <1>3, <1>4, <1>5, <1>7, <2>3, <2>4
<1> QED BY <1>2, <1>9, <1>10

\* Whichever way a task ends, its rows are free.
LEMMA EndFrees ==
  ASSUME IInv, NEW w \in Workers, EndTask(w)
  PROVE  /\ Batches' /\ OneHolder'
         /\ stage' \in [Workers -> {"idle", "started", "sending"}] /\ age' = age
         /\ held' \in [Workers -> SUBSET Notifications]
         /\ todo' \in [Workers -> SUBSET Notifications] /\ bad' \in [Workers -> SUBSET Notifications]
         /\ \A v \in Workers : held'[v] = IF v = w THEN {} ELSE held[v]
         /\ \A n \in Notifications :
              /\ n \in held[w] => ~Held(n)' /\ ~Reached(n)'
              /\ n \notin held[w] => Held(n)' = Held(n) /\ Reached(n)' = Reached(n)
BY DEF IInv, EndTask, Batches, OneHolder, TypeOK, Held, Reached

LEMMA RecordKeeps ==
  ASSUME IInv, NEW w \in Workers, todo[w] = {}, EndTask(w), Record(w) PROVE IInv'
<1> USE DEF IInv
<1> DEFINE recorded == {n \in held[w] : status[n] # "deleted"}
<1>1. /\ status' = [n \in Notifications |-> IF n \in recorded THEN Outcome(w, n) ELSE status[n]]
      /\ dueIn' = [n \in Notifications |->
                     IF n \notin recorded THEN dueIn[n]
                     ELSE IF Outcome(w, n) = "pending" THEN Backoff(w, n) ELSE 0]
      /\ UNCHANGED <<attempts, created, history>>
  BY DEF Record
<1>2. \A n \in recorded : /\ n \in held[w] /\ n \in Notifications /\ status[n] = "sending"
                          /\ attempts[n] >= 1 /\ attempts[n] \in Nat
                          /\ Outcome(w, n) \in {"delivered", "failed", "pending"}
                          /\ Outcome(w, n) = "delivered" => Reached(n)
                          /\ Outcome(w, n) # "delivered" => ~Reached(n)
                          /\ Outcome(w, n) = "failed" => attempts[n] >= MAX_ATTEMPTS
                          /\ Outcome(w, n) = "pending" => attempts[n] < MAX_ATTEMPTS
  <2> SUFFICES ASSUME NEW n \in recorded
               PROVE  /\ n \in held[w] /\ n \in Notifications /\ status[n] = "sending"
                      /\ attempts[n] >= 1 /\ attempts[n] \in Nat
                      /\ Outcome(w, n) \in {"delivered", "failed", "pending"}
                      /\ Outcome(w, n) = "delivered" => Reached(n)
                      /\ Outcome(w, n) # "delivered" => ~Reached(n)
                      /\ Outcome(w, n) = "failed" => attempts[n] >= MAX_ATTEMPTS
                      /\ Outcome(w, n) = "pending" => attempts[n] < MAX_ATTEMPTS
    OBVIOUS
  <2>1. n \in held[w] /\ n \in Notifications /\ status[n] = "sending"
    BY DEF Leases, TypeOK
  <2>2. attempts[n] >= 1 /\ attempts[n] \in Nat
    BY <2>1 DEF AttemptsCounted, TypeOK
  <2>3. n \notin bad[w] => Reached(n)
    BY <2>1 DEF Reached
  <2>4. n \in bad[w] => ~Reached(n)
    BY <2>1 DEF Reached, OneHolder
  <2> QED BY <2>1, <2>2, <2>3, <2>4, Settings DEF Outcome
<1> HIDE DEF recorded
<1>3. \A n \in recorded : Outcome(w, n) = "pending" => Backoff(w, n) \in Nat
  BY <1>2, Settings DEF Backoff, TypeOK
<1>4. TypeOK'
  <2>1. status' \in [Notifications -> {"absent", "checked", "inserted", "deleted"} \cup Visible]
    BY <1>1, <1>2 DEF TypeOK, Visible, Finished
  <2>2. dueIn' \in [Notifications -> Nat]
    BY <1>1, <1>3 DEF TypeOK
  <2> QED BY <1>1, <2>1, <2>2, EndFrees DEF TypeOK, history
<1>5. Batches' /\ OneHolder'
  BY EndFrees
<1>6. Leases'
  <2> SUFFICES ASSUME NEW v \in Workers, NEW n \in held'[v]
               PROVE  \/ status'[n] = "deleted"
                      \/ status'[n] = "sending" /\ dueIn'[n] >= CLAIM_LEASE - age'[v]
    BY DEF Leases
  <2>1. v # w /\ n \in held[v] /\ n \in Notifications /\ age' = age
    BY EndFrees DEF TypeOK
  <2>2. n \notin recorded
    BY <1>2, <2>1 DEF OneHolder
  <2> QED BY <1>1, <2>1, <2>2 DEF Leases
<1>7. KeysUnique'
  BY <1>1, <1>2, SameKeysKept DEF Visible
<1>8. SendsCounted'
  <2> SUFFICES ASSUME NEW n \in Notifications
               PROVE  /\ sends'[n] <= 1 + lost'[n]
                      /\ Reached(n)' => sends'[n] >= 1
                      /\ ~Reached(n)' /\ status'[n] # "delivered" /\ (status'[n] = "deleted" => Held(n)')
                           => sends'[n] <= lost'[n]
    BY DEF SendsCounted
  <2>1. UNCHANGED <<sends, lost>>
    BY <1>1 DEF history
  <2>2. CASE n \in recorded
    BY <1>1, <1>2, <2>1, <2>2, EndFrees DEF SendsCounted
  <2>3. CASE n \notin recorded /\ n \in held[w]
    BY <1>1, <2>1, <2>3, EndFrees DEF SendsCounted, recorded
  <2>4. CASE n \notin recorded /\ n \notin held[w]
    BY <1>1, <2>1, <2>4, EndFrees DEF SendsCounted
  <2> QED BY <2>2, <2>3, <2>4
<1>9. AttemptsCounted'
  <2> SUFFICES ASSUME NEW n \in Notifications
               PROVE  /\ attempts'[n] <= MAX_ATTEMPTS + lost'[n]
                      /\ status'[n] \in {"absent", "checked", "inserted"} => attempts'[n] = 0
                      /\ status'[n] = "pending" => attempts'[n] < MAX_ATTEMPTS
                      /\ status'[n] = "sending" => attempts'[n] >= 1
                      /\ status'[n] = "sending" /\ ~Held(n)' => attempts'[n] < MAX_ATTEMPTS + lost'[n]
    BY DEF AttemptsCounted
  <2>1. UNCHANGED <<attempts, lost>>
    BY <1>1 DEF history
  <2>2. CASE n \in recorded
    BY <1>1, <1>2, <2>1, <2>2 DEF AttemptsCounted
  <2>3. CASE n \notin recorded /\ n \in held[w]
    BY <1>1, <2>1, <2>3 DEF AttemptsCounted, recorded
  <2>4. CASE n \notin recorded /\ n \notin held[w]
    BY <1>1, <2>1, <2>4, EndFrees DEF AttemptsCounted
  <2> QED BY <2>2, <2>3, <2>4
<1>10. OutcomeIsEarned'
  BY <1>1, <1>2 DEF OutcomeIsEarned, SendsCounted, history
<1> QED BY <1>4, <1>5, <1>6, <1>7, <1>8, <1>9, <1>10

LEMMA LoseKeeps ==
  ASSUME IInv, NEW w \in Workers, EndTask(w), Lose(w), deaths' \in 0 .. MaxDeaths PROVE IInv'
<1> USE DEF IInv
<1>1. /\ lost' = [n \in Notifications |-> IF n \in held[w] THEN lost[n] + 1 ELSE lost[n]]
      /\ UNCHANGED <<status, attempts, dueIn, created, sends>>
  BY DEF Lose, rows
<1>2. TypeOK'
  BY <1>1, EndFrees DEF TypeOK
<1>3. Batches' /\ OneHolder'
  BY EndFrees
<1>4. Leases'
  <2>1. age' = age /\ \A v \in Workers : held'[v] = IF v = w THEN {} ELSE held[v]
    BY EndFrees
  <2> QED BY <1>1, <2>1 DEF Leases
<1>5. KeysUnique'
  BY <1>1, SameKeysKept
<1>6. SendsCounted' /\ AttemptsCounted'
  <2> SUFFICES ASSUME NEW n \in Notifications
               PROVE  /\ /\ sends'[n] <= 1 + lost'[n]
                         /\ Reached(n)' => sends'[n] >= 1
                         /\ ~Reached(n)' /\ status'[n] # "delivered" /\ (status'[n] = "deleted" => Held(n)')
                              => sends'[n] <= lost'[n]
                      /\ /\ attempts'[n] <= MAX_ATTEMPTS + lost'[n]
                         /\ status'[n] \in {"absent", "checked", "inserted"} => attempts'[n] = 0
                         /\ status'[n] = "pending" => attempts'[n] < MAX_ATTEMPTS
                         /\ status'[n] = "sending" => attempts'[n] >= 1
                         /\ status'[n] = "sending" /\ ~Held(n)' => attempts'[n] < MAX_ATTEMPTS + lost'[n]
    BY DEF SendsCounted, AttemptsCounted
  <2>1. sends[n] \in Nat /\ lost[n] \in Nat /\ attempts[n] \in Nat /\ MAX_ATTEMPTS \in Nat
    BY Settings DEF TypeOK
  <2>2. CASE n \in held[w]
    <3>1. lost'[n] = lost[n] + 1 /\ ~Held(n)' /\ ~Reached(n)'
      BY <1>1, <2>2, EndFrees
    <3> QED BY <1>1, <2>1, <3>1 DEF SendsCounted, AttemptsCounted
  <2>3. CASE n \notin held[w]
    <3>1. lost'[n] = lost[n] /\ Held(n)' = Held(n) /\ Reached(n)' = Reached(n)
      BY <1>1, <2>3, EndFrees
    <3> QED BY <1>1, <2>1, <3>1 DEF SendsCounted, AttemptsCounted
  <2> QED BY <2>2, <2>3
<1>7. OutcomeIsEarned'
  BY <1>1 DEF OutcomeIsEarned
<1> QED BY <1>2, <1>3, <1>4, <1>5, <1>6, <1>7

\* A lease shrinks as fast as its holder ages.
LEMMA TickKeeps == ASSUME IInv, Tick PROVE IInv'
<1> USE DEF IInv
<1>1. TypeOK'
  BY Settings DEF Tick, TypeOK, history
<1>2. Batches' /\ OneHolder'
  BY DEF Tick, Batches, OneHolder
<1>3. Leases'
  <2> SUFFICES ASSUME NEW w \in Workers, NEW n \in held[w], status[n] # "deleted"
               PROVE  status'[n] = "sending" /\ dueIn'[n] >= CLAIM_LEASE - age'[w]
    BY DEF Leases, Tick
  <2>1. stage[w] = "sending" /\ n \in Notifications
    BY DEF Batches, TypeOK
  <2>2. age'[w] = age[w] + 1 /\ age[w] \in 0 .. TIME_LIMIT
    BY <2>1 DEF Tick, TypeOK
  <2>3. status[n] = "sending" /\ dueIn[n] >= CLAIM_LEASE - age[w] /\ dueIn[n] \in Nat
    BY <2>1 DEF Leases, TypeOK
  <2>4. dueIn'[n] = dueIn[n] - 1
    BY <2>1, <2>2, <2>3, Settings DEF Tick
  <2> QED BY <2>2, <2>3, <2>4, Settings DEF Tick
<1>4. KeysUnique'
  BY SameKeysKept DEF Tick
<1>5. \A n \in Notifications : Reached(n)' = Reached(n) /\ Held(n)' = Held(n)
  BY DEF Tick, Reached, Held
<1>6. SendsCounted' /\ AttemptsCounted' /\ OutcomeIsEarned'
  BY <1>5 DEF Tick, SendsCounted, AttemptsCounted, OutcomeIsEarned, history
<1> QED BY <1>1, <1>2, <1>3, <1>4, <1>6

----------------------------------------------------------------------------
\* The strengthened invariant is inductive.
LEMMA NextKeeps == IInv /\ [Next]_vars => IInv'
<1> SUFFICES ASSUME IInv, [Next]_vars PROVE IInv'
  OBVIOUS
<1>1. ASSUME \/ \E n \in Notifications : Check(n) \/ Insert(n) \/ Commit(n) \/ Rollback(n) \/ DeleteEvent(n)
             \/ \E cutoff \in 1 .. Cardinality(Notifications) : CleanUp(cutoff)
      PROVE  IInv'
  <2>1. RowStep /\ TypeOK'
    BY <1>1, RowSteps DEF IInv
  <2>2. KeysUnique'
    BY <1>1, RowStepKeys
  <2> QED BY <2>1, <2>2, RowStepKeeps DEF IInv
<1>2. ASSUME NEW w \in Workers, Begin(w) PROVE IInv'
  BY <1>2, BeginKeeps
<1>3. ASSUME NEW w \in Workers, Claim(w) PROVE IInv'
  BY <1>3, ClaimKeeps
<1>4. ASSUME NEW w \in Workers, NEW n \in Notifications, Deliver(w, n) PROVE IInv'
  BY <1>4, DeliverKeeps
<1>5. ASSUME NEW w \in Workers, Finish(w) PROVE IInv'
  <2>1. todo[w] = {} /\ EndTask(w)
    BY <1>5 DEF Finish
  <2>2. CASE Record(w)
    BY <2>1, <2>2, RecordKeeps
  <2>3. CASE Lose(w) /\ UNCHANGED deaths
    BY <2>1, <2>3, LoseKeeps DEF IInv, TypeOK
  <2> QED BY <1>5, <2>2, <2>3 DEF Finish
<1>6. ASSUME NEW w \in Workers, Die(w) PROVE IInv'
  <2>1. deaths' \in 0 .. MaxDeaths
    BY <1>6, Settings DEF Die, IInv, TypeOK
  <2> QED BY <1>6, <2>1, LoseKeeps DEF Die
<1>7. CASE Tick
  BY <1>7, TickKeeps
<1>8. CASE UNCHANGED vars
  BY <1>8 DEF vars, rows, tasks, history, IInv, TypeOK, Batches, Leases, OneHolder, KeysUnique,
              SendsCounted, AttemptsCounted, OutcomeIsEarned, Reached, Held, SameKey
<1> QED BY <1>1, <1>2, <1>3, <1>4, <1>5, <1>6, <1>7, <1>8 DEF Next

LEMMA AlwaysIInv == Spec => []IInv
BY InitIInv, NextKeeps, PTL DEF Spec

\* Every reachable state is in range; in particular no due time is ever negative.
THEOREM TypeCorrect == Spec => []TypeOK
<1>1. IInv => TypeOK
  BY DEF IInv
<1> QED BY <1>1, AlwaysIInv, PTL

\* However many workers run and die, a row is in the hands of one of them at most, and
\* stays open while it is: the lease outlives the time limit.
THEOREM ClaimsAreExclusive == Spec => []ClaimIsExclusive
<1>1. IInv => ClaimIsExclusive
  BY DEF IInv, ClaimIsExclusive, OneHolder, Leases
<1> QED BY <1>1, AlwaysIInv, PTL

\* However the transactions overlap, no two rows have the same dedupe key.
THEOREM KeysAreQueuedOnce == Spec => []QueuedOnce
<1>1. IInv => QueuedOnce
  BY DEF IInv, QueuedOnce, KeysUnique
<1> QED BY <1>1, AlwaysIInv, PTL

\* Recipients are reached once, and once more for every claim that was lost.
THEOREM DuplicatesAreCounted == Spec => []DuplicatesNeedALoss
<1>1. IInv => DuplicatesNeedALoss
  BY DEF IInv, DuplicatesNeedALoss, SendsCounted
<1> QED BY <1>1, AlwaysIInv, PTL

\* A delivered row was sent, a failed one used its attempts up.
THEOREM OutcomesAreEarned == Spec => []OutcomeIsEarned
<1>1. IInv => OutcomeIsEarned
  BY DEF IInv
<1> QED BY <1>1, AlwaysIInv, PTL

\* MAX_ATTEMPTS is exceeded by lost claims only.
THEOREM AttemptsAreBounded == Spec => []AttemptsBounded
<1>1. IInv => AttemptsBounded
  BY DEF IInv, AttemptsBounded, AttemptsCounted
<1> QED BY <1>1, AlwaysIInv, PTL

\* A finished row is never reopened or sent again.
THEOREM FinishedRowsStay == Spec => FinishedStays
<1> DEFINE Stays == \A n \in Notifications : status[n] \in Finished =>
                      status'[n] \in {status[n], "deleted"} /\ sends'[n] = sends[n]
<1>1. ASSUME IInv, [Next]_vars PROVE Stays
  <2> USE DEF IInv
  <2> SUFFICES ASSUME NEW n \in Notifications, status[n] \in Finished
               PROVE  status'[n] \in {status[n], "deleted"} /\ sends'[n] = sends[n]
    OBVIOUS
  <2>1. \A w \in Workers : n \notin held[w] /\ n \notin todo[w]
    BY <1>1 DEF Leases, Batches, Finished
  <2>2. CASE \/ \E x \in Notifications : Check(x) \/ Insert(x) \/ Commit(x) \/ Rollback(x) \/ DeleteEvent(x)
             \/ \E cutoff \in 1 .. Cardinality(Notifications) : CleanUp(cutoff)
    BY <1>1, <2>2, RowSteps DEF RowStep, history, Finished
  <2>3. ASSUME NEW w \in Workers, Claim(w) PROVE status'[n] = status[n] /\ sends'[n] = sends[n]
    BY <2>3 DEF Claim, Batch, Due, Finished, history
  <2>4. ASSUME NEW w \in Workers, NEW x \in Notifications, Deliver(w, x)
        PROVE  status'[n] = status[n] /\ sends'[n] = sends[n]
    BY <1>1, <2>1, <2>4 DEF Deliver, rows, TypeOK
  <2>5. ASSUME NEW w \in Workers, Finish(w) \/ Die(w) \/ Begin(w)
        PROVE  status'[n] = status[n] /\ sends'[n] = sends[n]
    BY <2>1, <2>5 DEF Finish, Die, Begin, Record, Lose, rows, history
  <2>6. CASE Tick
    BY <2>6 DEF Tick, history
  <2>7. CASE UNCHANGED vars
    BY <2>7 DEF vars, rows, history
  <2> QED BY <1>1, <2>2, <2>3, <2>4, <2>5, <2>6, <2>7 DEF Next
<1>2. IInv /\ [Next]_vars => [Stays]_vars
  BY <1>1
<1> HIDE DEF Stays
<1>3. Spec => [][Stays]_vars
  BY <1>2, AlwaysIInv, PTL DEF Spec
<1> QED BY <1>3 DEF FinishedStays, Stays
============================================================================
