------------------------ MODULE LiveUpdates_proofs ------------------------
(* Proofs about LiveUpdates, for any number of screens, scores and         *)
(* failures: a ranking is never older than the announcement it was asked   *)
(* after, queues are bounded, and a ranking is computed once per version.  *)
EXTENDS LiveUpdates, FiniteSetTheorems, TLAPS

Maybe == Nat \cup {None}
Requests == [pc : {"idle", "sent", "keyed", "waiting", "answered"}, version : Nat, value : Nat, floor : Nat]

Typed == /\ data \in 0 .. MaxScores /\ raised \in Nat /\ version \in Nat
         /\ task \in [1 .. MaxScores -> {"none", "bump", "publish", "done"}]
         /\ cache \in [Versions -> Maybe]
         /\ flights \subseteq [version : Nat, value : Maybe]
         /\ ask \in [Screens -> Requests]

(* The version is raised once per score at most, so it stays in Versions.  *)
Past == {c \in 1 .. MaxScores : task[c] \in {"publish", "done"}}
Counted == /\ version <= Cardinality(Past)
           /\ \A c \in 1 .. MaxScores : c > data => task[c] = "none"

(* Nothing is computed or stored for a version that is still to come.      *)
NotAhead == /\ \A v \in Versions : v > version => cache[v] = None
            /\ \A f \in flights : f.version <= version

(* What is there for a version has at least n scores.                      *)
AtLeast(v, n) == /\ cache[v] # None => cache[v] >= n
                 /\ \A f \in flights : f.version = v /\ f.value # None => f.value >= n

(* For the version of now that is what was committed when it was raised,   *)
(* for the version of a request what was when the request was sent.        *)
Current == raised <= data /\ AtLeast(version, raised)
Served(s) == /\ ask[s].floor <= raised
             /\ ask[s].pc \in {"keyed", "waiting"} =>
                  ask[s].version <= version /\ AtLeast(ask[s].version, ask[s].floor)
             /\ ask[s].pc = "answered" => ask[s].value >= ask[s].floor

IInv == Typed /\ Counted /\ NotAhead /\ Current /\ \A s \in Screens : Served(s)

-----------------------------------------------------------------------------
LEMMA VersionInRange == ASSUME Typed, Counted PROVE version \in Versions
<1>1. IsFiniteSet(1 .. MaxScores) /\ Cardinality(1 .. MaxScores) = MaxScores
  BY FS_Interval, Instance
<1>2. Cardinality(Past) <= MaxScores /\ Cardinality(Past) \in Nat
  BY <1>1, FS_Subset, FS_CardinalityType DEF Past
<1> QED
  BY <1>2, Instance DEF Typed, Counted, Versions

LEMMA InitHolds == Init => IInv
<1> SUFFICES ASSUME Init PROVE IInv
  OBVIOUS
<1>1. Typed
  BY Instance DEF Init, Typed, Versions, Maybe, Requests, Idle
<1>2. Past = {}
  BY DEF Init, Past
<1>3. Counted
  BY <1>2, FS_EmptySet DEF Init, Counted
<1>4. NotAhead
  BY DEF Init, NotAhead
<1>5. Current
  BY Instance DEF Init, Current, AtLeast, Versions
<1>6. ASSUME NEW s \in Screens PROVE Served(s)
  <2>1. ask[s] = Idle
    BY DEF Init
  <2> QED
    BY <2>1 DEF Init, Served, Idle
<1> QED
  BY <1>1, <1>3, <1>4, <1>5, <1>6 DEF IInv

(* Steps that touch neither the server nor a request.                      *)
LEMMA ElsewhereKeeps == IInv /\ UNCHANGED <<server, ask, raised>> => IInv'
<1> SUFFICES ASSUME IInv, UNCHANGED <<server, ask, raised>> PROVE IInv'
  OBVIOUS
<1> USE DEF server
<1>1. Typed' /\ Counted' /\ NotAhead'
  BY DEF IInv, Typed, Counted, Past, NotAhead
<1>2. Current' /\ \A s \in Screens : Served(s)'
  BY DEF IInv, Current, Served, AtLeast
<1> QED
  BY <1>1, <1>2 DEF IInv

(* A request that is new, or none, in the place of another.                *)
LEMMA AskedKeeps ==
  ASSUME IInv, NEW s \in Screens, NEW a \in {Asked, Idle},
         UNCHANGED <<server, raised>>, ask' = [ask EXCEPT ![s] = a]
  PROVE  IInv'
<1> USE DEF server
<1>1. a \in Requests /\ a.pc \in {"sent", "idle"} /\ a.floor <= raised
  <2>1. raised \in Nat
    BY DEF IInv, Typed
  <2>2. CASE a = Idle
    BY <2>1, <2>2 DEF Idle, Requests
  <2>3. CASE a = Asked
    <3>1. Idle \in Requests
      BY DEF Idle, Requests
    <3>2. Asked \in Requests /\ Asked.pc = "sent" /\ Asked.floor = raised
      BY <2>1, <3>1 DEF Asked, Requests
    <3> QED
      BY <2>1, <2>3, <3>2
  <2> QED
    BY <2>2, <2>3
<1>2. Typed' /\ Counted' /\ NotAhead' /\ Current'
  BY <1>1 DEF IInv, Typed, Counted, Past, NotAhead, Current, AtLeast
<1>3. ASSUME NEW r \in Screens PROVE Served(r)'
  <2>1. CASE r = s
    BY <2>1, <1>1 DEF IInv, Typed, Served
  <2>2. CASE r # s
    BY <2>2 DEF IInv, Typed, Served, AtLeast
  <2> QED
    BY <2>1, <2>2
<1> QED
  BY <1>2, <1>3 DEF IInv

(* An answer for a request, with at least what was promised.               *)
LEMMA GotTyped ==
  ASSUME NEW s \in Screens, NEW n \in Nat, Typed
  PROVE  /\ Got(s, n) \in Requests
         /\ Got(s, n).pc = "answered" /\ Got(s, n).value = n /\ Got(s, n).floor = ask[s].floor
<1>1. Idle \in Requests /\ ask[s].floor \in Nat
  BY DEF Idle, Requests, Typed
<1> QED
  BY <1>1 DEF Got, Requests

LEMMA AnswerKeeps ==
  ASSUME IInv, NEW s \in Screens, NEW n \in Nat, n >= ask[s].floor,
         UNCHANGED <<server, raised>>, ask' = [ask EXCEPT ![s] = Got(s, n)]
  PROVE  IInv'
<1> USE DEF server
<1>1. /\ Got(s, n) \in Requests
      /\ Got(s, n).pc = "answered" /\ Got(s, n).value = n /\ Got(s, n).floor = ask[s].floor
  BY GotTyped DEF IInv
<1>2. Typed' /\ Counted' /\ NotAhead' /\ Current'
  BY <1>1 DEF IInv, Typed, Counted, Past, NotAhead, Current, AtLeast
<1>3. ASSUME NEW r \in Screens PROVE Served(r)'
  <2>1. CASE r = s
    BY <2>1, <1>1 DEF IInv, Typed, Served
  <2>2. CASE r # s
    BY <2>2 DEF IInv, Typed, Served, AtLeast
  <2> QED
    BY <2>1, <2>2
<1> QED
  BY <1>2, <1>3 DEF IInv

(* A flight that has no result yet changes nothing for anybody.            *)
LEMMA JoinedIsHarmless ==
  ASSUME IInv, NEW v \in Versions, v <= version, flights' = Joined(v),
         UNCHANGED <<data, task, version, cache, raised>>
  PROVE  /\ flights' \subseteq [version : Nat, value : Maybe]
         /\ NotAhead'
         /\ \A w \in Versions, n \in Nat : AtLeast(w, n) => AtLeast(w, n)'
<1>1. v \in Nat /\ [version |-> v, value |-> None] \in [version : Nat, value : Maybe]
  BY DEF Versions, Maybe
<1>2. \A f \in flights' : f \in flights \/ f = [version |-> v, value |-> None]
  BY DEF Joined
<1>3. flights' \subseteq [version : Nat, value : Maybe]
  BY <1>1, <1>2 DEF IInv, Typed
<1>4. NotAhead'
  BY <1>1, <1>2 DEF IInv, NotAhead
<1>5. ASSUME NEW w \in Versions, NEW n \in Nat, AtLeast(w, n) PROVE AtLeast(w, n)'
  BY <1>2, <1>5 DEF AtLeast
<1> QED
  BY <1>3, <1>4, <1>5

LEMMA JoinKeeps ==
  ASSUME IInv, NEW v \in Versions, v <= version, flights' = Joined(v),
         UNCHANGED <<data, task, version, cache, raised>>,
         \/ UNCHANGED ask
         \/ \E s \in Screens : ask[s].pc = "keyed" /\ ask' = [ask EXCEPT ![s].pc = "waiting"]
  PROVE  IInv'
<1>1. /\ flights' \subseteq [version : Nat, value : Maybe]
      /\ NotAhead'
      /\ \A w \in Versions, n \in Nat : AtLeast(w, n) => AtLeast(w, n)'
  BY JoinedIsHarmless
<1>2. version \in Versions
  BY VersionInRange DEF IInv
<1>2a. \A f \in flights' : f \in flights \/ f.value = None
  BY DEF Joined
<1>3. ask' \in [Screens -> Requests]
  BY DEF IInv, Typed, Requests
<1>3a. ASSUME NEW r \in Screens
      PROVE  /\ ask'[r].floor = ask[r].floor /\ ask'[r].version = ask[r].version
             /\ ask'[r].value = ask[r].value
             /\ ask'[r].pc = "answered" => ask[r].pc = "answered"
             /\ ask'[r].pc \in {"keyed", "waiting"} => ask[r].pc \in {"keyed", "waiting"}
  <2>1. CASE UNCHANGED ask
    BY <2>1
  <2>2. ASSUME NEW s \in Screens, ask[s].pc = "keyed", ask' = [ask EXCEPT ![s].pc = "waiting"]
        PROVE  /\ ask'[r].floor = ask[r].floor /\ ask'[r].version = ask[r].version
               /\ ask'[r].value = ask[r].value
               /\ ask'[r].pc = "answered" => ask[r].pc = "answered"
               /\ ask'[r].pc \in {"keyed", "waiting"} => ask[r].pc \in {"keyed", "waiting"}
    <3>1. ask \in [Screens -> Requests]
      BY DEF IInv, Typed
    <3>2. CASE r = s
      BY <2>2, <3>1, <3>2 DEF Requests
    <3>3. CASE r # s
      BY <2>2, <3>1, <3>3 DEF Requests
    <3> QED
      BY <3>2, <3>3
  <2> QED
    BY <2>1, <2>2
<1>4. Typed' /\ Counted'
  BY <1>1, <1>3 DEF IInv, Typed, Counted, Past
<1>5. Current'
  BY <1>1, <1>2 DEF IInv, Typed, Current
<1>6. ASSUME NEW r \in Screens PROVE Served(r)'
  <2>1. ask[r].floor \in Nat /\ ask[r].version \in Nat
    BY DEF IInv, Typed, Requests
  <2>2. ask[r].version <= version => ask[r].version \in Versions
    BY <1>2, <2>1, Instance DEF Versions
  <2>3. /\ ask[r].floor <= raised
        /\ ask[r].pc \in {"keyed", "waiting"} =>
             ask[r].version <= version /\ AtLeast(ask[r].version, ask[r].floor)
        /\ ask[r].pc = "answered" => ask[r].value >= ask[r].floor
    BY DEF IInv, Served
  <2>4. ASSUME ask'[r].pc \in {"keyed", "waiting"}
        PROVE  ask'[r].version <= version' /\ AtLeast(ask[r].version, ask[r].floor)
    BY <1>3a, <2>3, <2>4
  <2> QED
    BY <1>2a, <1>3a, <2>3, <2>4 DEF Served, AtLeast
<1> QED
  BY <1>1, <1>4, <1>5, <1>6 DEF IInv

(* Tasks after the commit.  Past never shrinks.                            *)
LEMMA CommitKeeps == IInv /\ Commit => IInv'
<1> SUFFICES ASSUME IInv, Commit PROVE IInv'
  OBVIOUS
<1> USE DEF Commit, history
<1>1. data \in Nat /\ data + 1 \in 1 .. MaxScores /\ raised \in Nat
  BY Instance DEF IInv, Typed
<1>2. task[data + 1] = "none"
  BY <1>1 DEF IInv, Counted
<1>3. Past' = Past
  BY <1>1, <1>2 DEF IInv, Typed, Past
<1>4. Typed'
  BY <1>1 DEF IInv, Typed
<1>5. Counted'
  BY <1>1, <1>3 DEF IInv, Typed, Counted
<1>6. NotAhead' /\ Current'
  BY <1>1 DEF IInv, NotAhead, Current, AtLeast
<1>7. \A s \in Screens : Served(s)'
  BY DEF IInv, Served, AtLeast
<1> QED
  BY <1>4, <1>5, <1>6, <1>7 DEF IInv

(* A task of a commit goes on, at least as far as it was.                  *)
LEMMA TaskMoves ==
  ASSUME IInv, NEW c \in 1 .. MaxScores, NEW t \in {"publish", "done"}, task[c] # "none",
         task' = [task EXCEPT ![c] = t], UNCHANGED data
  PROVE  /\ task' \in [1 .. MaxScores -> {"none", "bump", "publish", "done"}]
         /\ \A d \in 1 .. MaxScores : d > data' => task'[d] = "none"
         /\ Past' = Past \cup {c} /\ Past \subseteq Past'
         /\ Cardinality(Past) \in Nat /\ Cardinality(Past') \in Nat
         /\ Cardinality(Past) <= Cardinality(Past')
         /\ c \notin Past => Cardinality(Past') = Cardinality(Past) + 1
<1>1. task' \in [1 .. MaxScores -> {"none", "bump", "publish", "done"}]
  BY DEF IInv, Typed
<1>2. \A d \in 1 .. MaxScores : d > data' => task'[d] = "none"
  BY DEF IInv, Typed, Counted
<1>3. Past' = Past \cup {c}
  BY DEF IInv, Typed, Past
<1>4. IsFiniteSet(1 .. MaxScores)
  BY FS_Interval, Instance
<1>5. IsFiniteSet(Past) /\ IsFiniteSet(Past')
  BY <1>4, FS_Subset, <1>3, FS_AddElement DEF Past
<1>6. Cardinality(Past) \in Nat /\ Cardinality(Past') \in Nat /\ Cardinality(Past) <= Cardinality(Past')
  BY <1>3, <1>5, FS_Subset, FS_CardinalityType
<1>7. c \notin Past => Cardinality(Past') = Cardinality(Past) + 1
  BY <1>3, <1>5, FS_AddElement
<1> QED
  BY <1>1, <1>2, <1>3, <1>6, <1>7

LEMMA TaskKeeps ==
  ASSUME IInv, NEW c \in 1 .. MaxScores, NEW t \in {"publish", "done"}, task[c] # "none",
         task' = [task EXCEPT ![c] = t], UNCHANGED <<data, version, cache, flights, ask, raised>>
  PROVE  IInv'
<1>1. /\ task' \in [1 .. MaxScores -> {"none", "bump", "publish", "done"}]
      /\ \A d \in 1 .. MaxScores : d > data' => task'[d] = "none"
      /\ Cardinality(Past) \in Nat /\ Cardinality(Past') \in Nat
      /\ Cardinality(Past) <= Cardinality(Past')
  BY TaskMoves
<1>2. Typed' /\ Counted'
  BY <1>1 DEF IInv, Typed, Counted
<1>3. NotAhead' /\ Current' /\ \A s \in Screens : Served(s)'
  BY DEF IInv, NotAhead, Current, Served, AtLeast
<1> QED
  BY <1>2, <1>3 DEF IInv

LEMMA BumpKeeps == ASSUME IInv, NEW c \in 1 .. MaxScores, Bump(c) PROVE IInv'
<1> USE DEF Bump
<1>1. /\ task' \in [1 .. MaxScores -> {"none", "bump", "publish", "done"}]
      /\ \A d \in 1 .. MaxScores : d > data' => task'[d] = "none"
      /\ Cardinality(Past) \in Nat /\ Cardinality(Past') \in Nat
      /\ c \notin Past => Cardinality(Past') = Cardinality(Past) + 1
  BY TaskMoves
<1>2. c \notin Past
  BY DEF Past
<1>3. data \in Nat /\ version \in Nat /\ raised \in Nat /\ raised <= data
  BY DEF IInv, Typed, Current
<1>4. Typed'
  BY <1>1, <1>3 DEF IInv, Typed
<1>5. Counted'
  BY <1>1, <1>2, <1>3 DEF IInv, Counted
<1>6. version' \in Versions
  <2>1. IsFiniteSet(1 .. MaxScores) /\ Cardinality(1 .. MaxScores) = MaxScores
    BY FS_Interval, Instance
  <2>2. Past' \subseteq 1 .. MaxScores
    BY DEF Past
  <2>3. Cardinality(Past') <= MaxScores
    BY <2>1, <2>2, FS_Subset
  <2> QED
    BY <1>1, <1>3, <1>5, <2>3, Instance DEF Counted, Versions
<1>7. NotAhead'
  BY <1>3 DEF IInv, Typed, NotAhead, Versions
<1>8. Current'
  <2>1. cache[version'] = None
    BY <1>3, <1>6 DEF IInv, NotAhead
  <2>2. \A f \in flights : f.version # version'
    BY <1>3 DEF IInv, Typed, NotAhead
  <2> QED
    BY <1>3, <2>1, <2>2 DEF Current, AtLeast
<1>9. ASSUME NEW s \in Screens PROVE Served(s)'
  <2>1. ask[s].floor \in Nat /\ ask[s].version \in Nat
    BY DEF IInv, Typed, Requests
  <2> QED
    BY <1>3, <2>1 DEF IInv, Served, AtLeast
<1> QED
  BY <1>4, <1>5, <1>7, <1>8, <1>9 DEF IInv

(* A request learns the version: what is there for it is recent enough.    *)
LEMMA ReadVersionKeeps == ASSUME IInv, NEW s \in Screens, ReadVersion(s) PROVE IInv'
<1> USE DEF ReadVersion, server
<1>1. ask \in [Screens -> Requests] /\ version \in Nat /\ raised \in Nat
  BY DEF IInv, Typed
<1>2. ask' \in [Screens -> Requests]
  BY <1>1 DEF Requests
<1>3. Typed' /\ Counted' /\ NotAhead' /\ Current'
  BY <1>2 DEF IInv, Typed, Counted, Past, NotAhead, Current, AtLeast
<1>4. ASSUME NEW r \in Screens PROVE Served(r)'
  <2>1. CASE r = s
    <3>1. /\ ask'[r].pc = "keyed" /\ ask'[r].version = version
          /\ ask'[r].floor = ask[r].floor /\ ask[r].floor \in Nat /\ ask[r].floor <= raised
      BY <1>1, <2>1 DEF IInv, Served, Requests
    <3>2. AtLeast(version, raised) /\ cache \in [Versions -> Maybe] /\ version \in Versions
          /\ flights \subseteq [version : Nat, value : Maybe]
      BY VersionInRange DEF IInv, Current, Typed
    <3>3. AtLeast(version, ask[r].floor)
      BY <1>1, <3>1, <3>2 DEF AtLeast, Maybe
    <3> QED
      BY <1>1, <3>1, <3>3 DEF Served, AtLeast
  <2>2. CASE r # s
    BY <1>1, <2>2 DEF IInv, Served, AtLeast
  <2> QED
    BY <2>1, <2>2
<1> QED
  BY <1>3, <1>4 DEF IInv

(* A ranking computed now has everything committed.                        *)
LEMMA ComputeKeeps == ASSUME IInv, NEW f \in flights, Compute(f) PROVE IInv'
<1> USE DEF Compute, history
<1> DEFINE g == [f EXCEPT !.value = data]
<1>1. /\ f \in [version : Nat, value : Maybe] /\ data \in Nat /\ raised \in Nat
      /\ f.version <= version /\ raised <= data
  BY DEF IInv, Typed, NotAhead, Current
<1>2. g \in [version : Nat, value : Maybe] /\ g.version = f.version /\ g.value = data
  BY <1>1 DEF Maybe
<1>3. \A h \in flights' : h \in flights \/ h = g
  OBVIOUS
<1> HIDE DEF g
<1>4. flights' \subseteq [version : Nat, value : Maybe] /\ NotAhead'
  BY <1>1, <1>2, <1>3 DEF IInv, Typed, NotAhead
<1>5. Typed' /\ Counted'
  BY <1>4 DEF IInv, Typed, Counted, Past
<1>6. ASSUME NEW v, NEW n \in Nat, n <= raised, AtLeast(v, n) PROVE AtLeast(v, n)'
  BY <1>1, <1>2, <1>3, <1>6 DEF AtLeast
<1>7. Current'
  BY <1>1, <1>6 DEF IInv, Current
<1>8. ASSUME NEW s \in Screens PROVE Served(s)'
  <2>1. ask[s].floor \in Nat /\ ask[s].floor <= raised
    BY DEF IInv, Typed, Requests, Served
  <2> QED
    BY <2>1, <1>6 DEF IInv, Served
<1> QED
  BY <1>4, <1>5, <1>7, <1>8 DEF IInv

(* A result is stored, and answered to those who waited for it.            *)
LEMMA StoreKeeps == ASSUME IInv, NEW f \in flights, Store(f) PROVE IInv'
<1> USE DEF Store, StoredUnder, history
<1>1. /\ f \in [version : Nat, value : Maybe] /\ f.value \in Nat /\ f.version <= version
      /\ ask \in [Screens -> Requests] /\ cache \in [Versions -> Maybe] /\ version \in Versions
      /\ raised \in Nat
  BY VersionInRange DEF IInv, Typed, NotAhead, Maybe
<1>2. f.version \in Versions
  BY <1>1, Instance DEF Versions
<1>3. cache' \in [Versions -> Maybe] /\ flights' \subseteq flights
  BY <1>1, <1>2 DEF Maybe
<1>4. ASSUME NEW s \in Screens
      PROVE  \/ ask'[s] = ask[s]
             \/ /\ ask[s].pc = "waiting" /\ ask[s].version = f.version
                /\ ask'[s] \in Requests /\ ask'[s].pc = "answered"
                /\ ask'[s].value = f.value /\ ask'[s].floor = ask[s].floor
  <2>1. /\ Got(s, f.value) \in Requests /\ Got(s, f.value).pc = "answered"
        /\ Got(s, f.value).value = f.value /\ Got(s, f.value).floor = ask[s].floor
    BY <1>1, GotTyped DEF IInv
  <2> QED
    BY <2>1
<1>5. ask' \in [Screens -> Requests]
  <2>1. \A s \in Screens : ask'[s] \in Requests
    BY <1>1, <1>4
  <2>2. DOMAIN ask' = Screens /\ ask' = [s \in Screens |-> ask'[s]]
    OBVIOUS
  <2> QED
    BY <2>1, <2>2
<1>6. Typed' /\ Counted'
  BY <1>3, <1>5 DEF IInv, Typed, Counted, Past
<1>7. NotAhead'
  BY <1>1, <1>2, <1>3 DEF IInv, NotAhead, Versions
<1>8. ASSUME NEW v \in Versions, NEW n \in Nat, AtLeast(v, n) PROVE AtLeast(v, n)'
  <2>1. v = f.version => f.value >= n
    BY <1>1, <1>8, Instance DEF AtLeast
  <2>2. cache'[v] # None => cache'[v] >= n
    BY <1>1, <1>2, <1>8, <2>1 DEF AtLeast
  <2> QED
    BY <1>3, <1>8, <2>2 DEF AtLeast
<1>9. Current'
  BY <1>1, <1>8 DEF IInv, Current
<1>10. ASSUME NEW s \in Screens PROVE Served(s)'
  <2>1. /\ ask[s].floor \in Nat /\ ask[s].version \in Nat /\ ask[s].floor <= raised
    BY <1>1 DEF IInv, Served, Requests
  <2>2. CASE ask'[s] = ask[s]
    <3>1. ask[s].version <= version => ask[s].version \in Versions
      BY <1>1, <2>1, Instance DEF Versions
    <3>2. ask[s].pc \in {"keyed", "waiting"} =>
            ask[s].version <= version /\ AtLeast(ask[s].version, ask[s].floor)'
      BY <1>8, <2>1, <2>2, <3>1 DEF IInv, Served
    <3>3. ask[s].pc = "answered" => ask[s].value >= ask[s].floor
      BY DEF IInv, Served
    <3> QED
      BY <2>1, <2>2, <3>2, <3>3 DEF Served, AtLeast
  <2>3. CASE /\ ask[s].pc = "waiting" /\ ask[s].version = f.version
             /\ ask'[s] \in Requests /\ ask'[s].pc = "answered"
             /\ ask'[s].value = f.value /\ ask'[s].floor = ask[s].floor
    <3>1. f.value >= ask[s].floor
      BY <1>1, <2>3, Instance DEF IInv, Served, AtLeast
    <3> QED
      BY <2>1, <2>3, <3>1 DEF Served
  <2> QED
    BY <1>4, <2>2, <2>3
<1> QED
  BY <1>6, <1>7, <1>9, <1>10 DEF IInv

LEMMA ExpireKeeps == ASSUME IInv, NEW v \in Versions, Expire(v) PROVE IInv'
<1> USE DEF Expire, history
<1>1. Typed' /\ Counted' /\ NotAhead'
  BY DEF IInv, Typed, Counted, Past, NotAhead, Maybe
<1>2. \A w \in Versions, n \in Nat : AtLeast(w, n) => AtLeast(w, n)'
  BY DEF IInv, Typed, AtLeast
<1>3. version \in Versions /\ raised \in Nat
  BY VersionInRange DEF IInv, Typed
<1>4. Current'
  BY <1>2, <1>3 DEF IInv, Current
<1>5. ASSUME NEW s \in Screens PROVE Served(s)'
  <2>1. ask[s].floor \in Nat /\ ask[s].version \in Nat
    BY DEF IInv, Typed, Requests
  <2>2. ask[s].version <= version => ask[s].version \in Versions
    BY <1>3, <2>1, Instance DEF Versions
  <2> QED
    BY <1>2, <2>1, <2>2 DEF IInv, Served
<1> QED
  BY <1>1, <1>4, <1>5 DEF IInv

LEMMA LoadKeeps == ASSUME IInv, NEW s \in Screens, Load(s) PROVE IInv'
<1> DEFINE v == ask[s].version
<1>1. /\ version \in Versions /\ v \in Nat /\ v <= version /\ cache \in [Versions -> Maybe]
      /\ AtLeast(v, ask[s].floor)
  BY VersionInRange DEF IInv, Typed, Requests, Served, Load
<1>2. v \in Versions
  BY <1>1, Instance DEF Versions
<1>3. CASE cache[v] # None
  <2>1. cache[v] \in Nat /\ cache[v] >= ask[s].floor
    BY <1>1, <1>2, <1>3 DEF AtLeast, Maybe
  <2>2. UNCHANGED <<server, raised>> /\ ask' = [ask EXCEPT ![s] = Got(s, cache[v])]
    BY <1>3 DEF Load, server, history
  <2> QED
    BY <2>1, <2>2, AnswerKeeps
<1>4. CASE cache[v] = None
  <2>1. /\ flights' = Joined(v) /\ UNCHANGED <<data, task, version, cache, raised>>
        /\ ask[s].pc = "keyed" /\ ask' = [ask EXCEPT ![s].pc = "waiting"]
    BY <1>4 DEF Load, history
  <2> QED
    BY <1>1, <1>2, <2>1, JoinKeeps
<1> QED
  BY <1>3, <1>4

LEMMA UncachedKeeps == ASSUME IInv, NEW s \in Screens, Uncached(s) PROVE IInv'
<1>1. data \in Nat /\ data >= ask[s].floor
  BY DEF IInv, Typed, Requests, Current, Served
<1> QED
  BY <1>1, AnswerKeeps DEF Uncached

-----------------------------------------------------------------------------
LEMMA NextKeeps == IInv /\ [Next]_vars => IInv'
<1> SUFFICES ASSUME IInv, [Next]_vars PROVE IInv'
  OBVIOUS
<1>1. CASE Commit
  BY <1>1, CommitKeeps
<1>2. ASSUME NEW c \in 1 .. MaxScores, Bump(c) \/ BumpFails(c) \/ Publish(c) \/ PublishFails(c)
      PROVE  IInv'
  <2>1. CASE Bump(c)
    BY <2>1, BumpKeeps
  <2>2. CASE BumpFails(c)
    BY <2>2, TaskKeeps DEF BumpFails
  <2>3. CASE Publish(c)
    BY <2>3, TaskKeeps DEF Publish
  <2>4. CASE PublishFails(c)
    BY <2>4, TaskKeeps DEF PublishFails
  <2> QED
    BY <1>2, <2>1, <2>2, <2>3, <2>4
<1>3. ASSUME NEW m, Dispatched(m) PROVE IInv'
  BY <1>3, ElsewhereKeeps DEF Dispatched
<1>4. ASSUME NEW f \in flights, Compute(f) \/ Store(f) PROVE IInv'
  BY <1>4, ComputeKeeps, StoreKeeps
<1>5. ASSUME NEW v \in Versions, Expire(v) PROVE IInv'
  BY <1>5, ExpireKeeps
<1>6. ASSUME NEW v \in Versions, LoadElsewhere(v) PROVE IInv'
  BY <1>6, JoinKeeps DEF LoadElsewhere, history
<1>7. ASSUME NEW s \in Screens, ReadVersion(s) \/ Load(s) \/ Uncached(s) PROVE IInv'
  BY <1>7, ReadVersionKeeps, LoadKeeps, UncachedKeeps
<1>8. ASSUME NEW s \in Screens, Poll(s) \/ Flush(s) \/ Show(s) \/ FetchFails(s) PROVE IInv'
  <2>1. CASE Poll(s)
    BY <2>1, AskedKeeps DEF Poll, history
  <2>2. CASE Flush(s)
    BY <2>2, AskedKeeps DEF Flush, Refetch, history
  <2>3. CASE Show(s)
    BY <2>3, AskedKeeps DEF Show, history
  <2>4. CASE FetchFails(s)
    BY <2>4, AskedKeeps DEF FetchFails
  <2> QED
    BY <1>8, <2>1, <2>2, <2>3, <2>4
<1>9. ASSUME NEW s \in Screens,
             \/ Receive(s) \/ Break(s) \/ Notice(s) \/ Resubscribe(s) \/ Subscribe(s)
             \/ \E public \in BOOLEAN : Open(s, public)
      PROVE  IInv'
  <2>1. UNCHANGED <<server, ask, raised>>
    BY <1>9 DEF Receive, Break, Notice, Resubscribe, Subscribe, Open, history
  <2> QED
    BY <2>1, ElsewhereKeeps
<1>10. CASE UNCHANGED vars
  BY <1>10, ElsewhereKeeps DEF vars, history
<1> QED
  BY <1>1, <1>2, <1>3, <1>4, <1>5, <1>6, <1>7, <1>8, <1>9, <1>10 DEF Next

(* Whoever asks after the version of the event was raised gets a ranking   *)
(* with every score committed by then: neither a ranking computed before   *)
(* and stored after it, nor one shared with an earlier request, nor a      *)
(* failing cache serves an older one (cached_payload, core/cache.py, and   *)
(* the order of raising and publishing in core/live.py).                   *)
THEOREM AlwaysVisible == Spec => []AnnouncedIsVisible
<1>1. IInv => AnnouncedIsVisible
  BY DEF IInv, Served, AnnouncedIsVisible
<1> QED
  BY <1>1, InitHolds, NextKeeps, PTL DEF Spec

-----------------------------------------------------------------------------
(* The rest of the state: queues of the streams, one flight per version,   *)
(* and values that were committed.                                         *)
Messages == {"ranking", "other", "lost"}
Streams ==
  /\ socket \in [Screens -> {"closed", "accepted", "subscribed"}]
  /\ queue \in [Screens -> Seq(Messages)]
  /\ live \in [Screens -> BOOLEAN] /\ timer \in [Screens -> BOOLEAN]
  /\ troubles \in 0 .. MaxTroubles /\ degraded \in BOOLEAN /\ missed \subseteq Screens
  /\ \A s \in Screens : Len(queue[s]) <= QueueSize /\ (socket[s] # "subscribed" => queue[s] = <<>>)

(* One flight per version, and somebody to wait for.                       *)
Flown == /\ \A f, g \in flights : f.version = g.version => f = g
         /\ \A s \in Screens : ask[s].pc = "waiting" => \E f \in flights : f.version = ask[s].version

Committed(n) == n \in Nat /\ n <= data
Real == /\ \A v \in Versions : cache[v] # None => Committed(cache[v])
        /\ \A f \in flights : f.value # None => Committed(f.value)
        /\ \A s \in Screens : Committed(ask[s].value) /\ ask[s].version <= version
        /\ shown \in [Screens -> Nat] /\ \A s \in Screens : Committed(shown[s])

Shapes == Streams /\ Flown /\ Real

LEMMA ShapesSuffice == IInv /\ Shapes => TypeOK
<1> SUFFICES ASSUME IInv, Shapes PROVE TypeOK
  OBVIOUS
<1>1. /\ version \in Versions /\ version \in Nat /\ data \in Nat /\ raised \in 0 .. data /\ raised \in Nat
      /\ MaxScores \in Nat
  BY VersionInRange, Instance DEF IInv, Typed, Current
<1>2. cache \in [Versions -> (0 .. data) \cup {None}]
  <2>1. \A v \in Versions : cache[v] \in (0 .. data) \cup {None}
    BY <1>1 DEF Shapes, Real, Committed
  <2> QED
    BY <2>1 DEF IInv, Typed
<1>3. flights \subseteq [version : 0 .. version, value : (0 .. data) \cup {None}]
  <2> SUFFICES ASSUME NEW f \in flights
               PROVE  f \in [version : 0 .. version, value : (0 .. data) \cup {None}]
    OBVIOUS
  <2>1. f \in [version : Nat, value : Maybe] /\ f.version \in 0 .. version
    BY <1>1 DEF IInv, Typed, NotAhead
  <2>2. f.value \in (0 .. data) \cup {None}
    BY <1>1 DEF Shapes, Real, Committed
  <2> QED
    BY <2>1, <2>2
<1> DEFINE Fits == [pc : {"idle", "sent", "keyed", "waiting", "answered"}, version : 0 .. version,
                    value : 0 .. data, floor : 0 .. data]
<1>4. ask \in [Screens -> Fits]
  <2> SUFFICES ASSUME NEW s \in Screens PROVE ask[s] \in Fits
    BY DEF IInv, Typed
  <2>1. ask[s] \in Requests
    BY DEF IInv, Typed
  <2>2. ask[s].version \in 0 .. version
    BY <1>1, <2>1 DEF Shapes, Real, Requests
  <2>3. ask[s].value \in 0 .. data
    BY <1>1, <2>1 DEF Shapes, Real, Committed, Requests
  <2>4. ask[s].floor \in 0 .. data
    BY <1>1, <2>1 DEF IInv, Served, Requests
  <2> QED
    BY <2>1, <2>2, <2>3, <2>4 DEF Requests
<1>5. shown \in [Screens -> 0 .. data]
  <2>1. shown \in [Screens -> Nat] /\ \A s \in Screens : Committed(shown[s])
    BY DEF Shapes, Real
  <2>2. \A n : Committed(n) => n \in 0 .. data
    BY <1>1 DEF Committed
  <2>3. \A s \in Screens : shown[s] \in 0 .. data
    BY <2>1, <2>2
  <2> QED
    BY <2>1, <2>3
<1> QED
  BY <1>1, <1>2, <1>3, <1>4, <1>5 DEF TypeOK, IInv, Typed, Shapes, Streams, Messages, Flown

LEMMA InitShaped == Init => Shapes
<1> SUFFICES ASSUME Init PROVE Shapes
  OBVIOUS
<1>1. Streams
  <2>1. <<>> \in Seq(Messages) /\ Len(<<>>) = 0
    OBVIOUS
  <2>2. queue \in [Screens -> Seq(Messages)] /\ \A s \in Screens : queue[s] = <<>>
    BY <2>1 DEF Init
  <2>3. 0 <= QueueSize /\ 0 \in 0 .. MaxTroubles
    BY Instance
  <2>4. \A s \in Screens : Len(queue[s]) <= QueueSize /\ (socket[s] # "subscribed" => queue[s] = <<>>)
    BY <2>1, <2>2, <2>3
  <2>5. /\ socket = [s \in Screens |-> "closed"] /\ live = [s \in Screens |-> FALSE]
        /\ timer = [s \in Screens |-> FALSE] /\ troubles = 0 /\ degraded = FALSE /\ missed = {}
    BY DEF Init
  <2> QED
    BY <2>2, <2>3, <2>4, <2>5 DEF Streams
<1>2. Idle.pc = "idle" /\ Idle.value = 0 /\ Idle.version = 0
  BY DEF Idle
<1>3. Flown /\ Real
  BY <1>2 DEF Init, Flown, Real, Committed
<1> QED
  BY <1>1, <1>3 DEF Shapes

(* A queue never holds more than QueueSize messages: the oldest goes.      *)
LEMMA PushedFits ==
  ASSUME NEW q \in Seq(Messages), Len(q) <= QueueSize, NEW m \in Messages
  PROVE  Pushed(q, m) \in Seq(Messages) /\ Len(Pushed(q, m)) <= QueueSize
<1>1. CASE Len(q) = QueueSize
  <2>1. q # <<>> /\ Tail(q) \in Seq(Messages) /\ Len(Tail(q)) = Len(q) - 1
    BY <1>1, Instance
  <2>2. Pushed(q, m) = Append(Tail(q), m)
    BY <1>1 DEF Pushed
  <2> QED
    BY <1>1, <2>1, <2>2, Instance
<1>2. CASE Len(q) # QueueSize
  <2>1. Pushed(q, m) = Append(q, m)
    BY <1>2 DEF Pushed
  <2> QED
    BY <1>2, <2>1, Instance
<1> QED
  BY <1>1, <1>2

LEMMA TroubleTyped == ASSUME Streams, Trouble PROVE troubles' \in 0 .. MaxTroubles
  BY Instance DEF Streams, Trouble

LEMMA DispatchKeeps ==
  ASSUME Streams, NEW m \in Messages, Dispatch(m), UNCHANGED <<socket, live, timer>>,
         troubles' \in 0 .. MaxTroubles, degraded' \in BOOLEAN, missed' \subseteq Screens
  PROVE  Streams'
<1>1. \A s \in Screens : /\ queue'[s] \in Seq(Messages) /\ Len(queue'[s]) <= QueueSize
                         /\ socket[s] # "subscribed" => queue'[s] = <<>>
  BY PushedFits DEF Streams, Dispatch
<1>2. queue' \in [Screens -> Seq(Messages)]
  BY <1>1 DEF Dispatch
<1> QED
  BY <1>1, <1>2 DEF Streams

LEMMA CloseKeeps ==
  ASSUME Streams, NEW s \in Screens, socket' = [socket EXCEPT ![s] = "closed"],
         queue' = [queue EXCEPT ![s] = <<>>], missed' \subseteq Screens,
         live' \in [Screens -> BOOLEAN], timer' \in [Screens -> BOOLEAN],
         troubles' \in 0 .. MaxTroubles, UNCHANGED degraded
  PROVE  Streams'
<1>1. <<>> \in Seq(Messages) /\ Len(<<>>) = 0
  OBVIOUS
<1>2. queue' \in [Screens -> Seq(Messages)] /\ socket' \in [Screens -> {"closed", "accepted", "subscribed"}]
  BY <1>1 DEF Streams
<1>3. \A r \in Screens : /\ queue'[r] = IF r = s THEN <<>> ELSE queue[r]
                         /\ r # s => socket'[r] = socket[r]
  BY DEF Streams
<1>4. \A r \in Screens : Len(queue'[r]) <= QueueSize /\ (socket'[r] # "subscribed" => queue'[r] = <<>>)
  BY <1>1, <1>3, Instance DEF Streams
<1>5. degraded' \in BOOLEAN
  BY DEF Streams
<1> QED
  BY <1>2, <1>4, <1>5 DEF Streams

LEMMA ReceiveKeeps == ASSUME Streams, NEW s \in Screens, Receive(s) PROVE Streams'
<1>1. UNCHANGED <<troubles, degraded>> /\ queue[s] # <<>>
  BY DEF Receive
<1>2. CASE Head(queue[s]) = "lost"
  <2>1. Close(s) /\ live' = [live EXCEPT ![s] = FALSE] /\ UNCHANGED timer
    BY <1>2 DEF Receive
  <2>2. live' \in [Screens -> BOOLEAN] /\ timer' \in [Screens -> BOOLEAN] /\ missed' \subseteq Screens
    BY <2>1 DEF Close, Streams
  <2> QED
    BY <1>1, <2>1, <2>2, CloseKeeps DEF Close, Streams
<1>3. CASE Head(queue[s]) # "lost"
  <2>1. /\ queue' = [queue EXCEPT ![s] = Tail(queue[s])]
        /\ timer' = [timer EXCEPT ![s] = timer[s] \/ Head(queue[s]) = "ranking"]
        /\ UNCHANGED <<socket, live, missed>>
    BY <1>3 DEF Receive
  <2>2. queue[s] \in Seq(Messages) /\ Len(queue[s]) <= QueueSize /\ socket[s] = "subscribed"
    BY <1>1 DEF Streams
  <2>3. Tail(queue[s]) \in Seq(Messages) /\ Len(Tail(queue[s])) <= QueueSize
    BY <1>1, <2>2, Instance
  <2>4. timer' \in [Screens -> BOOLEAN]
    BY <2>1 DEF Streams
  <2> QED
    BY <1>1, <2>1, <2>2, <2>3, <2>4 DEF Streams
<1> QED
  BY <1>2, <1>3

LEMMA StreamsKeep == IInv /\ Streams /\ [Next]_vars => Streams'
<1> SUFFICES ASSUME IInv, Streams, [Next]_vars PROVE Streams'
  OBVIOUS
<1>1. CASE UNCHANGED <<screen, troubles, degraded, missed>>
  BY <1>1 DEF screen, Streams
<1>2. ASSUME NEW c \in 1 .. MaxScores, Bump(c) \/ BumpFails(c) \/ Publish(c) \/ PublishFails(c)
      PROVE  Streams'
  <2>1. CASE Bump(c)
    BY <2>1 DEF Bump, Streams, screen
  <2>2. CASE BumpFails(c)
    BY <2>2, TroubleTyped DEF BumpFails, Streams, screen
  <2>3. CASE Publish(c)
    <3>1. missed' \subseteq Screens /\ troubles' \in 0 .. MaxTroubles /\ degraded' \in BOOLEAN
      BY <2>3 DEF Publish, Streams
    <3> QED
      BY <2>3, <3>1, DispatchKeeps DEF Publish, Messages
  <2>4. CASE PublishFails(c)
    BY <2>4, TroubleTyped DEF PublishFails, Streams, screen
  <2> QED
    BY <1>2, <2>1, <2>2, <2>3, <2>4
<1>3. ASSUME NEW m \in {"other", "lost"}, Dispatched(m) PROVE Streams'
  <2>1. missed' \subseteq Screens /\ troubles' \in 0 .. MaxTroubles /\ degraded' \in BOOLEAN
    BY <1>3, TroubleTyped DEF Dispatched, Streams
  <2> QED
    BY <1>3, <2>1, DispatchKeeps DEF Dispatched, Messages
<1>4. ASSUME NEW v \in Versions, LoadElsewhere(v) PROVE Streams'
  BY <1>4, TroubleTyped DEF LoadElsewhere, Streams, screen, history
<1>5. ASSUME NEW s \in Screens, ReadVersion(s) \/ Uncached(s) \/ FetchFails(s) PROVE Streams'
  <2>1. missed' \subseteq Screens /\ troubles' \in 0 .. MaxTroubles
    BY <1>5, TroubleTyped DEF ReadVersion, Uncached, FetchFails, Streams
  <2> QED
    BY <1>5, <2>1 DEF ReadVersion, Uncached, FetchFails, Streams, screen
<1>6. ASSUME NEW s \in Screens, Flush(s) \/ Show(s) PROVE Streams'
  BY <1>6 DEF Flush, Show, Streams, history
<1>7. ASSUME NEW s \in Screens, Notice(s) \/ Subscribe(s) \/ \E public \in BOOLEAN : Open(s, public)
      PROVE  Streams'
  <2>1. CASE Notice(s)
    BY <2>1 DEF Notice, Streams, history
  <2>2. CASE Subscribe(s)
    BY <2>2 DEF Subscribe, Streams, history
  <2>3. CASE \E public \in BOOLEAN : Open(s, public)
    BY <2>3 DEF Open, Streams, history
  <2> QED
    BY <1>7, <2>1, <2>2, <2>3
<1>8. ASSUME NEW s \in Screens, Break(s) PROVE Streams'
  <2>1. live' \in [Screens -> BOOLEAN] /\ timer' \in [Screens -> BOOLEAN] /\ missed' \subseteq Screens
    BY <1>8 DEF Break, Close, Streams
  <2> QED
    BY <1>8, <2>1, CloseKeeps, TroubleTyped DEF Break, Close
<1>9. ASSUME NEW s \in Screens, Resubscribe(s) PROVE Streams'
  <2>1. live' \in [Screens -> BOOLEAN] /\ timer' \in [Screens -> BOOLEAN] /\ missed' \subseteq Screens
    BY <1>9 DEF Resubscribe, Streams
  <2> QED
    BY <1>9, <2>1, CloseKeeps, TroubleTyped DEF Resubscribe
<1>10. CASE Commit \/ (\E f \in flights : Compute(f) \/ Store(f)) \/ \E v \in Versions : Expire(v)
  BY <1>10, <1>1 DEF Commit, Compute, Store, Expire, history
<1>11. ASSUME NEW s \in Screens, Load(s) \/ Poll(s) PROVE Streams'
  BY <1>11, <1>1 DEF Load, Poll, history
<1>12. ASSUME NEW s \in Screens, Receive(s) PROVE Streams'
  BY <1>12, ReceiveKeeps
<1>13. CASE UNCHANGED vars
  BY <1>13, <1>1 DEF vars, history
<1> QED
  BY <1>2, <1>3, <1>4, <1>5, <1>6, <1>7, <1>8, <1>9, <1>10, <1>11, <1>12, <1>13 DEF Next

-----------------------------------------------------------------------------
(* Values: a ranking contains scores that were committed.                  *)
LEMMA RealFrom ==
  ASSUME IInv, IInv', Real, data <= data', version <= version',
         \A v \in Versions : cache'[v] \in {cache[v], None} \/ Committed(cache'[v]),
         \A f \in flights' : f \in flights \/ f.value = None \/ Committed(f.value),
         \A s \in Screens : \/ ask'[s].value = ask[s].value /\ ask'[s].version = ask[s].version
                            \/ Committed(ask'[s].value) /\ ask'[s].version <= version,
         shown' \in [Screens -> Nat], \A s \in Screens : Committed(shown'[s])
  PROVE  Real'
<1>1. /\ data \in Nat /\ data' \in Nat /\ version \in Nat /\ version' \in Nat
      /\ \A s \in Screens : ask[s].version \in Nat /\ ask'[s].version \in Nat
  BY DEF IInv, Typed, Requests
<1>2. \A n : Committed(n) => n \in Nat /\ n <= data'
  BY <1>1 DEF Committed
<1>3. \A v \in Versions : cache'[v] # None => cache'[v] \in Nat /\ cache'[v] <= data'
  BY <1>2 DEF Real
<1>4. \A f \in flights' : f.value # None => f.value \in Nat /\ f.value <= data'
  BY <1>2 DEF Real
<1>5. \A s \in Screens : ask'[s].value \in Nat /\ ask'[s].value <= data' /\ ask'[s].version <= version'
  BY <1>1, <1>2 DEF Real
<1>6. \A s \in Screens : shown'[s] \in Nat /\ shown'[s] <= data'
  BY <1>2
<1> QED
  BY <1>3, <1>4, <1>5, <1>6 DEF Real, Committed

LEMMA AsksOnly ==
  ASSUME IInv, IInv', Real, UNCHANGED <<data, version, cache, shown>>,
         \A f \in flights' : f \in flights \/ f.value = None,
         NEW s \in Screens, NEW a, ask' = [ask EXCEPT ![s] = a],
         Committed(a.value), a.version <= version
  PROVE  Real'
<1>1. ask \in [Screens -> Requests] /\ data \in Nat /\ version \in Nat
  BY DEF IInv, Typed
<1>2. \A r \in Screens : ask'[r] = IF r = s THEN a ELSE ask[r]
  BY <1>1
<1>3. shown' \in [Screens -> Nat] /\ \A r \in Screens : Committed(shown'[r])
  BY DEF Real
<1> QED
  BY <1>1, <1>2, <1>3, RealFrom

LEMMA Zero == IInv => Committed(0) /\ 0 <= version
  BY DEF IInv, Typed, Committed

LEMMA AskedShape == /\ Idle.value = 0 /\ Idle.version = 0 /\ Idle.pc = "idle"
                    /\ Asked.value = 0 /\ Asked.version = 0 /\ Asked.pc = "sent"
                    /\ \A s, n : Got(s, n).value = n /\ Got(s, n).version = 0 /\ Got(s, n).pc = "answered"
  BY DEF Asked, Got, Idle

LEMMA RealSame == ASSUME Real, UNCHANGED <<server, ask, shown>> PROVE Real'
  BY DEF Real, server, Committed

LEMMA RealKeep == IInv /\ IInv' /\ Real /\ [Next]_vars => Real'
<1> SUFFICES ASSUME IInv, IInv', Real, [Next]_vars PROVE Real'
  OBVIOUS
<1>0. /\ data \in Nat /\ version \in Nat /\ ask \in [Screens -> Requests] /\ cache \in [Versions -> Maybe]
      /\ shown \in [Screens -> Nat] /\ \A s \in Screens : Committed(shown[s])
  BY DEF IInv, Typed, Real
<1>1. CASE Commit
  BY <1>0, <1>1, RealFrom DEF Commit, screen
<1>2. ASSUME NEW c \in 1 .. MaxScores, Bump(c) \/ BumpFails(c) \/ Publish(c) \/ PublishFails(c)
      PROVE  Real'
  <2>1. /\ version <= version'
        /\ UNCHANGED <<data, cache, flights, ask, shown>>
    BY <1>0, <1>2 DEF Bump, BumpFails, Publish, PublishFails, screen
  <2> QED
    BY <1>0, <2>1, RealFrom
<1>3. ASSUME NEW f \in flights, Compute(f) PROVE Real'
  <2> DEFINE g == [f EXCEPT !.value = data]
  <2>1. f \in [version : Nat, value : Maybe]
    BY DEF IInv, Typed
  <2>2. g.value = data /\ Committed(data)
    BY <1>0, <2>1 DEF Committed
  <2>3. flights' = (flights \ {f}) \cup {g} /\ UNCHANGED <<data, version, cache, ask, shown>>
    BY <1>3 DEF Compute, screen
  <2> HIDE DEF g
  <2> QED
    BY <1>0, <2>2, <2>3, RealFrom
<1>4. ASSUME NEW f \in flights, Store(f) PROVE Real'
  <2>1. Committed(f.value)
    BY <1>4 DEF Store, Real
  <2>2. \A v \in Versions : cache'[v] = cache[v] \/ cache'[v] = f.value
    BY <1>0, <1>4 DEF Store
  <2>3. \A s \in Screens : \/ ask'[s] = ask[s]
                           \/ ask'[s].value = f.value /\ ask'[s].version = 0
    BY <1>4, AskedShape DEF Store
  <2>4. UNCHANGED <<data, version, shown>> /\ flights' \subseteq flights
    BY <1>4 DEF Store, screen
  <2> QED
    BY <1>0, <2>1, <2>2, <2>3, <2>4, Zero, RealFrom
<1>5. ASSUME NEW v \in Versions, Expire(v) PROVE Real'
  <2>1. UNCHANGED <<data, version, flights, ask, shown>> /\ \A w \in Versions : cache'[w] \in {cache[w], None}
    BY <1>0, <1>5 DEF Expire, screen
  <2> QED
    BY <1>0, <2>1, RealFrom
<1>6. ASSUME NEW v \in Versions, LoadElsewhere(v) PROVE Real'
  <2>1. /\ UNCHANGED <<data, version, cache, ask, shown>>
        /\ \A f \in flights' : f \in flights \/ f.value = None
    BY <1>6 DEF LoadElsewhere, Joined, screen
  <2> QED
    BY <1>0, <2>1, RealFrom
<1>7. ASSUME NEW s \in Screens, ReadVersion(s) PROVE Real'
  <2> DEFINE a == [ask[s] EXCEPT !.pc = "keyed", !.version = version]
  <2>1. a.value = ask[s].value /\ a.version = version
    BY <1>0 DEF Requests
  <2>2. ask' = [ask EXCEPT ![s] = a] /\ UNCHANGED <<data, version, cache, flights, shown>>
    BY <1>0, <1>7 DEF ReadVersion, server, screen, Requests
  <2>3. Committed(a.value) /\ a.version <= version
    BY <1>0, <2>1 DEF Real
  <2> HIDE DEF a
  <2> QED
    BY <2>2, <2>3, AsksOnly
<1>8. ASSUME NEW s \in Screens, Load(s) PROVE Real'
  <2> DEFINE v == ask[s].version
  <2>1. UNCHANGED <<data, version, cache, shown>>
    BY <1>8 DEF Load, screen
  <2>2. CASE cache[v] # None
    <3>1. v \in Versions
      <4>1. version \in Versions /\ v <= version /\ v \in Nat
        BY <1>0, VersionInRange DEF Real, IInv, Requests
      <4> QED
        BY <4>1, Instance DEF Versions
    <3>2. Committed(cache[v])
      BY <2>2, <3>1 DEF Real
    <3>3. ask' = [ask EXCEPT ![s] = Got(s, cache[v])] /\ UNCHANGED flights
      BY <1>8, <2>2 DEF Load
    <3> DEFINE a == Got(s, cache[v])
    <3>4. Committed(a.value) /\ a.version <= version
      BY <3>2, Zero, AskedShape
    <3>5. ask' = [ask EXCEPT ![s] = a]
      BY <3>3
    <3> HIDE DEF a
    <3> QED
      BY <2>1, <3>3, <3>4, <3>5, AsksOnly
  <2>3. CASE cache[v] = None
    <3>1. ask' = [ask EXCEPT ![s].pc = "waiting"] /\ flights' = Joined(v)
      BY <1>8, <2>3 DEF Load
    <3>2. \A f \in flights' : f \in flights \/ f.value = None
      BY <3>1 DEF Joined
    <3>3. \A r \in Screens : ask'[r].value = ask[r].value /\ ask'[r].version = ask[r].version
      BY <1>0, <3>1 DEF Requests
    <3> QED
      BY <1>0, <2>1, <3>2, <3>3, RealFrom
  <2> QED
    BY <2>2, <2>3
<1>9. ASSUME NEW s \in Screens, Uncached(s) PROVE Real'
  <2> DEFINE a == Got(s, data)
  <2>1. Committed(a.value) /\ a.version <= version
    BY <1>0, Zero, AskedShape DEF Committed
  <2>2. ask' = [ask EXCEPT ![s] = a] /\ UNCHANGED <<data, version, cache, flights, shown>>
    BY <1>9 DEF Uncached, server, screen
  <2> HIDE DEF a
  <2> QED
    BY <2>1, <2>2, AsksOnly
<1>10. ASSUME NEW s \in Screens, Poll(s) \/ Flush(s) \/ FetchFails(s) PROVE Real'
  <2>1. /\ UNCHANGED <<data, version, cache, flights, shown>>
        /\ ask' = [ask EXCEPT ![s] = Asked] \/ ask' = [ask EXCEPT ![s] = Idle]
    BY <1>10 DEF Poll, Flush, Refetch, FetchFails, server, screen
  <2> QED
    BY <2>1, Zero, AskedShape, AsksOnly
<1>11. ASSUME NEW s \in Screens, Show(s) PROVE Real'
  <2>1. /\ UNCHANGED <<data, version, cache, flights>>
        /\ ask' = [ask EXCEPT ![s] = Idle] /\ shown' = [shown EXCEPT ![s] = ask[s].value]
    BY <1>11 DEF Show, server
  <2>2. Committed(ask[s].value) /\ ask[s].value \in Nat
    BY DEF Real, Committed
  <2>3. shown' \in [Screens -> Nat] /\ \A r \in Screens : Committed(shown'[r])
    BY <1>0, <2>1, <2>2
  <2>4. \A r \in Screens : ask'[r] = IF r = s THEN Idle ELSE ask[r]
    BY <1>0, <2>1
  <2> QED
    BY <1>0, <2>1, <2>3, <2>4, Zero, AskedShape, RealFrom
<1>12. CASE UNCHANGED <<server, ask, shown>>
  BY <1>12, RealSame
<1>13. ASSUME NEW m, Dispatched(m) PROVE Real'
  BY <1>13, RealSame DEF Dispatched
<1>14. ASSUME NEW s \in Screens,
              \/ Receive(s) \/ Break(s) \/ Notice(s) \/ Resubscribe(s) \/ Subscribe(s)
              \/ \E public \in BOOLEAN : Open(s, public)
       PROVE  Real'
  BY <1>14, RealSame DEF Receive, Break, Notice, Resubscribe, Subscribe, Open
<1>15. CASE UNCHANGED vars
  BY <1>15, RealSame DEF vars, screen
<1> QED
  BY <1>1, <1>2, <1>3, <1>4, <1>5, <1>6, <1>7, <1>8, <1>9, <1>10, <1>11, <1>13, <1>14, <1>15 DEF Next

-----------------------------------------------------------------------------
(* One flight per version (the waiters of a version share it), and every   *)
(* request that waits has its flight.                                      *)
LEMMA FlownSame ==
  ASSUME Flown, UNCHANGED flights, \A s \in Screens : ask'[s].pc = "waiting" => ask'[s] = ask[s]
  PROVE  Flown'
  BY DEF Flown

LEMMA FlownJoined ==
  ASSUME Flown, NEW v, flights' = Joined(v),
         \A s \in Screens : ask'[s].pc = "waiting" => ask'[s] = ask[s] \/ ask'[s].version = v
  PROVE  Flown'
<1> DEFINE new == [version |-> v, value |-> None]
<1>1. new.version = v
  OBVIOUS
<1>2. flights' = IF \E f \in flights : f.version = v THEN flights ELSE flights \cup {new}
  BY DEF Joined
<1> HIDE DEF new
<1>3. \A f, g \in flights' : f.version = g.version => f = g
  BY <1>1, <1>2 DEF Flown
<1>4. flights \subseteq flights' /\ \E f \in flights' : f.version = v
  BY <1>1, <1>2
<1> QED
  BY <1>3, <1>4 DEF Flown

LEMMA FlownKeep == IInv /\ Flown /\ [Next]_vars => Flown'
<1> SUFFICES ASSUME IInv, Flown, [Next]_vars PROVE Flown'
  OBVIOUS
<1>0. ask \in [Screens -> Requests]
  BY DEF IInv, Typed
<1>1. CASE UNCHANGED <<flights, ask>>
  BY <1>1, FlownSame
<1>2. ASSUME NEW c \in 1 .. MaxScores, Bump(c) \/ BumpFails(c) \/ Publish(c) \/ PublishFails(c)
      PROVE  Flown'
  BY <1>1, <1>2 DEF Bump, BumpFails, Publish, PublishFails
<1>3. ASSUME NEW f \in flights, Compute(f) PROVE Flown'
  <2> DEFINE g == [f EXCEPT !.value = data]
  <2>1. f \in [version : Nat, value : Maybe]
    BY DEF IInv, Typed
  <2>2. g.version = f.version
    BY <2>1
  <2>3. flights' = (flights \ {f}) \cup {g} /\ UNCHANGED ask
    BY <1>3 DEF Compute
  <2> HIDE DEF g
  <2> QED
    BY <2>2, <2>3 DEF Flown
<1>4. ASSUME NEW f \in flights, Store(f) PROVE Flown'
  <2>1. flights' = flights \ {f}
    BY <1>4 DEF Store
  <2>2. \A s \in Screens : ask'[s].pc = "waiting" => ask'[s] = ask[s] /\ ask[s].version # f.version
    BY <1>4, AskedShape DEF Store
  <2> QED
    BY <2>1, <2>2 DEF Flown
<1>5. ASSUME NEW v \in Versions, LoadElsewhere(v) PROVE Flown'
  BY <1>5, FlownJoined DEF LoadElsewhere
<1>6. ASSUME NEW s \in Screens, Load(s) PROVE Flown'
  <2> DEFINE v == ask[s].version
  <2>1. CASE cache[v] # None
    <3>1. ask' = [ask EXCEPT ![s] = Got(s, cache[v])] /\ UNCHANGED flights
      BY <1>6, <2>1 DEF Load
    <3>2. \A r \in Screens : ask'[r].pc = "waiting" => ask'[r] = ask[r]
      BY <1>0, <3>1, AskedShape
    <3> QED
      BY <3>1, <3>2, FlownSame
  <2>2. CASE cache[v] = None
    <3>1. ask' = [ask EXCEPT ![s].pc = "waiting"] /\ flights' = Joined(v)
      BY <1>6, <2>2 DEF Load
    <3>2. \A r \in Screens : ask'[r] = ask[r] \/ ask'[r].version = v
      BY <1>0, <3>1 DEF Requests
    <3> QED
      BY <3>1, <3>2, FlownJoined
  <2> QED
    BY <2>1, <2>2
<1>7. ASSUME NEW s \in Screens,
             ReadVersion(s) \/ Uncached(s) \/ Poll(s) \/ Flush(s) \/ Show(s) \/ FetchFails(s)
      PROVE  Flown'
  <2>1. UNCHANGED flights
    BY <1>7 DEF ReadVersion, Uncached, Poll, Flush, Show, FetchFails, server
  <2>2. \A r \in Screens : r # s => ask'[r] = ask[r]
    BY <1>0, <1>7 DEF ReadVersion, Uncached, Poll, Flush, Show, FetchFails
  <2>3. ask'[s].pc # "waiting"
    BY <1>0, <1>7, AskedShape DEF ReadVersion, Uncached, Poll, Flush, Refetch, Show, FetchFails, Requests
  <2> QED
    BY <2>1, <2>2, <2>3, FlownSame
<1>8. CASE Commit \/ \E v \in Versions : Expire(v)
  BY <1>1, <1>8 DEF Commit, Expire
<1>9. ASSUME NEW m, Dispatched(m) PROVE Flown'
  BY <1>1, <1>9 DEF Dispatched, server
<1>10. ASSUME NEW s \in Screens,
              \/ Receive(s) \/ Break(s) \/ Notice(s) \/ Resubscribe(s) \/ Subscribe(s)
              \/ \E public \in BOOLEAN : Open(s, public)
       PROVE  Flown'
  BY <1>1, <1>10 DEF Receive, Break, Notice, Resubscribe, Subscribe, Open, server
<1>11. CASE UNCHANGED vars
  BY <1>1, <1>11 DEF vars, server
<1> QED
  BY <1>2, <1>3, <1>4, <1>5, <1>6, <1>7, <1>8, <1>9, <1>10, <1>11 DEF Next

(* The shapes of the state.  In particular the queue of a stream is never  *)
(* longer than QueueSize (LiveHub drops the oldest message), one ranking   *)
(* at most is computed for a version, and a request that waits for it has  *)
(* one to wait for (cached_payload).                                       *)
THEOREM TypeCorrect == Spec => []TypeOK
<1>1. Init => IInv /\ Shapes
  BY InitHolds, InitShaped
<1>2. IInv /\ Shapes /\ [Next]_vars => IInv' /\ Shapes'
  BY NextKeeps, StreamsKeep, FlownKeep, RealKeep DEF Shapes
<1> QED
  BY <1>1, <1>2, ShapesSuffice, PTL DEF Spec
=============================================================================
