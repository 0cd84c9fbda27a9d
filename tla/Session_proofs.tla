-------------------------- MODULE Session_proofs --------------------------
(* Proofs about Session, for any tabs, tokens and troubles: the tabs of a  *)
(* browser do not revoke each other, and who signed out stays signed out.  *)
EXTENDS Session, FiniteSetTheorems, TLAPS

Tokens == {"live", "rotated", "deleted"}
Steps == [pc : {"idle", "waiting", "posting", "sleeping", "flushing"}, by : {"nobody", "request", "app"}]
Requests == [kind : Kinds, from : Tabs \cup {"nobody"}, cookie : Nat,
             status : {"sent", "ok", "unauthorized"}, set : Int]

Typed == /\ row \in Seq(Tokens) /\ jar \in 0 .. Len(row)
         /\ refresh \in [Tabs -> Steps]
         /\ net \subseteq Requests
         /\ \A r \in net : /\ r.cookie <= Len(row) /\ r.set <= Len(row)
                           /\ r.from = "nobody" => r.status = "sent"
                           /\ r.status # "ok" => r.set = Keep
                           /\ r.status = "ok" => r.set = 0 \/ (r.kind \in {"refresh", "login"} /\ r.set > 0)
                           /\ r.status = "ok" /\ r.kind \in {"refresh", "login"} => r.set > 0

(* One tab has the lock, and it has one request.                           *)
Locked == /\ \A t, u \in Tabs : Holds(t) /\ Holds(u) => t = u
          /\ \A r \in net : r.from \in Tabs => /\ r.kind = "refresh" => refresh[r.from].pc = "posting"
                                               /\ r.kind = "flush" => refresh[r.from].pc = "flushing"
          /\ \A r, q \in net : /\ r.from = q.from /\ r.from \in Tabs
                               /\ r.kind \in {"refresh", "flush"} /\ q.kind \in {"refresh", "flush"}
                               => r = q

(* A token on its way to the browser is known to nobody yet.               *)
Fresh == \A r \in net : r.set > 0 =>
           r.set # jar /\ \A q \in net : q.cookie # r.set /\ (q.set = r.set => q = r)

(* Unless an answer was lost, no rotated token is used again, so nothing   *)
(* ends all sessions at once.                                              *)
Due == \E r \in net : r.kind = "refresh" /\ r.status = "ok"
Asking(r) == r.from # "nobody" /\ r.kind = "refresh" /\ r.status = "sent"
NoReuse == ~unheard =>
  /\ \A r \in net : r.set > 0 => row[r.set] = "live"
  /\ jar > 0 /\ row[jar] = "rotated" => Due
  /\ \A r \in net : Asking(r) /\ r.cookie > 0 => row[r.cookie] # "rotated"

(* And unless somebody asked to sign out, the browser has a live token, or *)
(* gets one, and what may still be revoked is another.                     *)
Kept == ~unheard /\ ~asked =>
  /\ ~pending
  /\ \A r \in net : r.from # "nobody" => r.kind \in {"refresh", "login"} /\ r.status # "unauthorized"
  /\ \A r \in net : Asking(r) => r.cookie > 0 /\ row[r.cookie] = "live"
  /\ (jar > 0 /\ row[jar] = "live") \/ Due
  /\ \A r \in net : r.from = "nobody" /\ r.kind \notin {"refresh", "login"} =>
       r.cookie # jar /\ \A q \in net : Asking(q) => q.cookie # r.cookie

IInv == Typed /\ Locked /\ Fresh /\ NoReuse /\ Kept /\ OnlyEndsWhenAsked

-----------------------------------------------------------------------------
LEMMA InitHolds == Init => IInv
<1> SUFFICES ASSUME Init PROVE IInv
  OBVIOUS
<1>1. row = <<"live">> /\ jar = 1 /\ net = {} /\ pending = FALSE /\ ended = FALSE
  BY DEF Init
<1>2. Typed
  BY <1>1 DEF Init, Typed, Tokens, Steps, Idle
<1>3. \A t \in Tabs : ~Holds(t)
  BY DEF Init, Holds, Idle
<1>4. Locked /\ Fresh
  BY <1>1, <1>3 DEF Locked, Fresh
<1>5. row[1] = "live"
  BY <1>1
<1>6. NoReuse /\ Kept /\ OnlyEndsWhenAsked
  BY <1>1, <1>5 DEF NoReuse, Kept, OnlyEndsWhenAsked
<1> QED
  BY <1>2, <1>4, <1>6 DEF IInv

(* Nobody waits for a token while the lock is free, or while its holder    *)
(* sleeps.                                                                 *)
LEMMA DueHolds ==
  ASSUME Typed, Locked, Due
  PROVE  \E t \in Tabs : Holds(t) /\ refresh[t].pc = "posting"
<1> PICK r \in net : r.kind = "refresh" /\ r.status = "ok"
  BY DEF Due
<1>1. r.from \in Tabs
  BY DEF Typed, Requests
<1> QED
  BY <1>1 DEF Locked, Holds

-----------------------------------------------------------------------------
(* Requests that leave the network, or are nobody's from now on.           *)
Shrinks(new) == \A q \in new : q \in net \/ \E p \in net : p.status = "sent" /\ q = [p EXCEPT !.from = "nobody"]

(* The lock is kept or given back, by a tab that has no request in it.     *)
Releases == \/ UNCHANGED refresh
            \/ \E t \in Tabs : /\ \A u \in Tabs \ {t} : refresh'[u] = refresh[u]
                               /\ Holds(t)' => Holds(t)
                               /\ \A q \in net' : q.from = t => q.kind \notin {"refresh", "flush"}

LEMMA ShrunkRequests ==
  ASSUME Typed, NEW q \in net', Shrinks(net')
  PROVE  \/ q \in net
         \/ \E p \in net : /\ p.status = "sent" /\ q.from = "nobody" /\ q.kind = p.kind /\ q.cookie = p.cookie
                           /\ q.status = "sent" /\ q.set = Keep /\ q \in Requests
<1>1. CASE q \in net
  BY <1>1
<1>2. ASSUME NEW p \in net, p.status = "sent", q = [p EXCEPT !.from = "nobody"]
      PROVE  /\ p.status = "sent" /\ q.from = "nobody" /\ q.kind = p.kind /\ q.cookie = p.cookie
             /\ q.status = "sent" /\ q.set = Keep /\ q \in Requests
  <2>1. p \in Requests /\ p.set = Keep
    BY <1>2 DEF Typed
  <2> QED
    BY <1>2, <2>1 DEF Requests
<1> QED
  BY <1>1, <1>2 DEF Shrinks

LEMMA ShrinkKeeps ==
  ASSUME IInv, Shrinks(net'), UNCHANGED row, refresh' \in [Tabs -> Steps], Releases,
         jar' = jar \/ jar' = 0 \/ \E r \in net \ net' : r.set > 0 /\ jar' = r.set,
         unheard => unheard',
         ~unheard' => (Due => Due') \/ (jar' > 0 /\ row[jar'] = "live")
  PROVE  Typed' /\ Locked' /\ Fresh' /\ NoReuse'
<1>1. \A q \in net' : \/ q \in net
                      \/ \E p \in net : /\ p.status = "sent" /\ q.from = "nobody" /\ q.kind = p.kind
                                        /\ q.cookie = p.cookie /\ q.status = "sent" /\ q.set = Keep /\ q \in Requests
  BY ShrunkRequests DEF IInv
<1>2. /\ Typed /\ Locked /\ Fresh /\ NoReuse /\ "nobody" \notin Tabs /\ Keep = -1 /\ Len(row) \in Nat
      /\ \A r \in net : r \in Requests /\ r.set \in Int /\ r.cookie \in Nat
  BY Instance DEF IInv, Typed, Keep, Requests
<1>3. Typed'
  <2>1. jar' \in 0 .. Len(row)
    BY <1>2 DEF Typed
  <2>2. net' \subseteq Requests
    BY <1>1, <1>2
  <2>3. \A q \in net' : q \in net \/ (q.status = "sent" /\ q.set = -1 /\ \E p \in net : q.cookie = p.cookie)
    BY <1>1, <1>2
  <2> QED
    BY <1>2, <2>1, <2>2, <2>3 DEF Typed
<1>4. Locked'
  <2>1. \A q \in net' : q.from \in Tabs => q \in net
    BY <1>1, <1>2
  <2>2. CASE UNCHANGED refresh
    BY <1>2, <2>1, <2>2 DEF Locked, Holds
  <2>3. ASSUME NEW t \in Tabs, \A u \in Tabs \ {t} : refresh'[u] = refresh[u], Holds(t)' => Holds(t),
               \A q \in net' : q.from = t => q.kind \notin {"refresh", "flush"}
        PROVE  Locked'
    <3>1. \A u \in Tabs : Holds(u)' => Holds(u)
      BY <2>3 DEF Holds
    <3> QED
      BY <1>2, <2>1, <2>3, <3>1 DEF Locked
  <2> QED
    BY <2>2, <2>3 DEF Releases
<1>5. \A q \in net' : q.set > 0 => q \in net
  BY <1>1, <1>2
<1>6. \A q \in net' : \E p \in net : q.cookie = p.cookie
  BY <1>1
<1>7. Fresh'
  <2>1. ASSUME NEW r \in net', r.set > 0 PROVE r.set # jar'
    BY <1>2, <1>5, <2>1 DEF Fresh
  <2>2. ASSUME NEW r \in net', r.set > 0, NEW q \in net'
        PROVE  q.cookie # r.set /\ (q.set = r.set => q = r)
    BY <1>2, <1>5, <1>6, <2>2 DEF Fresh
  <2> QED
    BY <2>1, <2>2 DEF Fresh
<1>8. NoReuse'
  <2> SUFFICES ASSUME ~unheard'
               PROVE  /\ \A r \in net' : r.set > 0 => row[r.set] = "live"
                      /\ jar' > 0 /\ row[jar'] = "rotated" => Due'
                      /\ \A r \in net' : Asking(r) /\ r.cookie > 0 => row[r.cookie] # "rotated"
    BY DEF NoReuse, Asking
  <2>1. /\ \A r \in net : r.set > 0 => row[r.set] = "live"
        /\ jar > 0 /\ row[jar] = "rotated" => Due
        /\ \A r \in net : Asking(r) /\ r.cookie > 0 => row[r.cookie] # "rotated"
    BY <1>2 DEF NoReuse
  <2>2. jar' > 0 /\ row[jar'] = "rotated" => Due'
    BY <2>1
  <2>3. \A r \in net' : Asking(r) => r \in net
    BY <1>1 DEF Asking
  <2> QED
    BY <1>5, <2>1, <2>2, <2>3
<1> QED
  BY <1>3, <1>4, <1>7, <1>8

(* The browser keeps its token, or takes the one it waited for.            *)
LEMMA ShrinkKept ==
  ASSUME IInv, Shrinks(net'), UNCHANGED row, unheard => unheard',
         ~unheard' /\ ~asked' =>
            /\ ~asked /\ ~pending'
            /\ \/ jar' = jar /\ (Due => Due')
               \/ \E r \in net \ net' : r.set > 0 /\ jar' = r.set
  PROVE  Kept'
<1> SUFFICES ASSUME ~unheard', ~asked'
             PROVE  /\ ~pending'
                    /\ \A r \in net' : r.from # "nobody" => r.kind \in {"refresh", "login"} /\ r.status # "unauthorized"
                    /\ \A r \in net' : Asking(r) => r.cookie > 0 /\ row[r.cookie] = "live"
                    /\ (jar' > 0 /\ row[jar'] = "live") \/ Due'
                    /\ \A r \in net' : r.from = "nobody" /\ r.kind \notin {"refresh", "login"} =>
                         r.cookie # jar' /\ \A q \in net' : Asking(q) => q.cookie # r.cookie
  BY DEF Kept, Asking
<1>1. ~unheard /\ ~asked /\ ~pending'
  OBVIOUS
<1>2. /\ \A r \in net : r.from # "nobody" => r.kind \in {"refresh", "login"} /\ r.status # "unauthorized"
      /\ \A r \in net : Asking(r) => r.cookie > 0 /\ row[r.cookie] = "live"
      /\ (jar > 0 /\ row[jar] = "live") \/ Due
      /\ \A r \in net : r.from = "nobody" /\ r.kind \notin {"refresh", "login"} =>
           r.cookie # jar /\ \A q \in net : Asking(q) => q.cookie # r.cookie
  BY <1>1 DEF IInv, Kept
<1>3. \A q \in net' : \/ q \in net
                      \/ \E p \in net : /\ p.status = "sent" /\ q.from = "nobody" /\ q.kind = p.kind
                                        /\ q.cookie = p.cookie /\ q.status = "sent" /\ q.set = Keep /\ q \in Requests
  BY ShrunkRequests DEF IInv
<1>4. \A q \in net' : Asking(q) => q \in net
  BY <1>3 DEF Asking
<1>5. ASSUME NEW q \in net', q.from = "nobody", q.kind \notin {"refresh", "login"}
      PROVE  \E p \in net : p.from = "nobody" /\ p.kind \notin {"refresh", "login"} /\ p.cookie = q.cookie
  BY <1>2, <1>3, <1>5
<1>6. \A q \in net' : q.from # "nobody" => q \in net
  BY <1>3
<1>7. (jar' > 0 /\ row[jar'] = "live") \/ Due'
  BY <1>1, <1>2 DEF IInv, NoReuse
<1>8. \A p \in net : p.from = "nobody" /\ p.kind \notin {"refresh", "login"} => p.cookie # jar'
  BY <1>1, <1>2 DEF IInv, Fresh
<1> QED
  BY <1>1, <1>2, <1>4, <1>5, <1>6, <1>7, <1>8

-----------------------------------------------------------------------------
(* A new request carries the cookie of now.                                *)
LEMMA RequestTyped ==
  ASSUME Typed, NEW kind \in Kinds, NEW t \in Tabs
  PROVE  LET r == Request(kind, t)
         IN /\ r \in Requests /\ r.kind = kind /\ r.from = t /\ r.cookie = jar
            /\ r.status = "sent" /\ r.set = Keep /\ Keep = -1
  BY DEF Typed, Request, Requests, Keep

LEMMA PostFresh ==
  ASSUME IInv, NEW kind \in Kinds, NEW t \in Tabs, net' = net \cup {Request(kind, t)}, UNCHANGED <<jar, row>>,
         refresh' \in [Tabs -> Steps]
  PROVE  Typed' /\ Fresh'
<1> DEFINE r == Request(kind, t)
<1>1. /\ r \in Requests /\ r.kind = kind /\ r.from = t /\ r.cookie = jar
      /\ r.status = "sent" /\ r.set = -1 /\ Keep = -1 /\ t # "nobody"
  BY RequestTyped, Instance DEF IInv
<1> HIDE DEF r
<1>2. net' = net \cup {r}
  BY DEF r
<1>3. jar \in Nat /\ Len(row) \in Nat /\ jar <= Len(row)
  BY DEF IInv, Typed
<1>4. Typed'
  BY <1>1, <1>2, <1>3 DEF IInv, Typed
<1>5. Fresh'
  BY <1>1, <1>2 DEF IInv, Fresh
<1> QED
  BY <1>4, <1>5

LEMMA PostOutside ==
  ASSUME IInv, NEW kind \in {"online", "signout", "login"}, NEW t \in Tabs, net' = net \cup {Request(kind, t)},
         UNCHANGED <<jar, row, pending, refresh, unheard, ended>>, asked => asked',
         kind = "login" \/ asked' \/ unheard
  PROVE  IInv'
<1> DEFINE r == Request(kind, t)
<1>1. kind \in Kinds
  BY DEF Kinds
<1>2. /\ r \in Requests /\ r.kind = kind /\ r.from = t /\ r.cookie = jar
      /\ r.status = "sent" /\ r.set = -1 /\ t # "nobody"
  BY <1>1, RequestTyped, Instance DEF IInv
<1>3. Typed' /\ Fresh'
  BY <1>1, PostFresh DEF IInv, Typed
<1> HIDE DEF r
<1>4. net' = net \cup {r}
  BY DEF r
<1>5. Locked'
  BY <1>2, <1>4 DEF IInv, Locked, Holds
<1>6. (Due => Due') /\ \A q \in net' : Asking(q) => q \in net
  BY <1>2, <1>4 DEF Due, Asking
<1>7. NoReuse'
  BY <1>2, <1>4, <1>6 DEF IInv, NoReuse, Asking
<1>8. Kept'
  <2>1. CASE ~asked' /\ ~unheard'
    BY <1>2, <1>4, <1>6, <2>1 DEF IInv, Kept, Asking
  <2>2. CASE asked' \/ unheard'
    BY <2>2 DEF Kept
  <2> QED
    BY <2>1, <2>2
<1> QED
  BY <1>3, <1>5, <1>7, <1>8 DEF IInv, OnlyEndsWhenAsked

LEMMA PostInLock ==
  ASSUME IInv, NEW t \in Tabs, NEW kind \in {"refresh", "flush"}, net' = net \cup {Request(kind, t)},
         UNCHANGED <<jar, row, pending, unheard, asked, ended>>,
         refresh' = [refresh EXCEPT ![t].pc = IF kind = "refresh" THEN "posting" ELSE "flushing"],
         \A u \in Tabs \ {t} : ~Holds(u), refresh[t].pc \in {"waiting", "sleeping"},
         kind = "flush" => pending
  PROVE  IInv'
<1> DEFINE r == Request(kind, t)
           pc == IF kind = "refresh" THEN "posting" ELSE "flushing"
<1>1. kind \in Kinds
  BY DEF Kinds
<1>2. /\ r \in Requests /\ r.kind = kind /\ r.from = t /\ r.cookie = jar
      /\ r.status = "sent" /\ r.set = -1 /\ t # "nobody"
  BY <1>1, RequestTyped, Instance DEF IInv
<1>3. /\ refresh' \in [Tabs -> Steps] /\ refresh'[t].pc = pc
      /\ \A u \in Tabs \ {t} : refresh'[u] = refresh[u]
  <2>1. refresh \in [Tabs -> Steps] /\ refresh[t] \in Steps
    BY DEF IInv, Typed
  <2>2. [refresh[t] EXCEPT !.pc = pc] \in Steps /\ [refresh[t] EXCEPT !.pc = pc].pc = pc
    BY <2>1 DEF Steps
  <2>3. refresh' = [refresh EXCEPT ![t] = [refresh[t] EXCEPT !.pc = pc]]
    OBVIOUS
  <2> QED
    BY <2>1, <2>2, <2>3
<1>4. Typed' /\ Fresh'
  BY <1>1, <1>3, PostFresh
<1>5. ~Due
  BY DueHolds DEF IInv
<1> HIDE DEF r
<1>6. net' = net \cup {r}
  BY DEF r
<1>7. \A q \in net : q.from = t => q.kind \notin {"refresh", "flush"}
  BY DEF IInv, Locked
<1>8. \A u \in Tabs : Holds(u)' => u = t
  BY <1>3 DEF Holds
<1>9. Locked'
  <2>1. \A u, v \in Tabs : Holds(u)' /\ Holds(v)' => u = v
    BY <1>8
  <2>2. ASSUME NEW q \in net', q.from \in Tabs
        PROVE  /\ q.kind = "refresh" => refresh'[q.from].pc = "posting"
               /\ q.kind = "flush" => refresh'[q.from].pc = "flushing"
    <3>1. CASE q = r
      BY <1>2, <1>3, <3>1
    <3>2. CASE q \in net
      <4>1. q.from = t => q.kind \notin {"refresh", "flush"}
        BY <1>7, <3>2
      <4> QED
        BY <1>3, <2>2, <3>2, <4>1 DEF IInv, Locked
    <3> QED
      BY <1>6, <3>1, <3>2
  <2>3. \A p, q \in net' : /\ p.from = q.from /\ p.from \in Tabs
                           /\ p.kind \in {"refresh", "flush"} /\ q.kind \in {"refresh", "flush"}
                           => p = q
    BY <1>2, <1>6, <1>7 DEF IInv, Locked
  <2> QED
    BY <2>1, <2>2, <2>3 DEF Locked
<1>10. \A q \in net' : Asking(q) => q \in net \/ (q = r /\ kind = "refresh")
  BY <1>2, <1>6 DEF Asking
<1>11. NoReuse'
  BY <1>2, <1>5, <1>6, <1>10 DEF IInv, NoReuse, Asking
<1>12. Kept'
  <2>1. CASE ~asked /\ ~unheard
    <3>1. kind = "refresh" /\ jar > 0 /\ row[jar] = "live"
      BY <1>5, <2>1 DEF IInv, Kept
    <3>2. \A q \in net' : q.from = "nobody" => q \in net
      BY <1>2, <1>6
    <3> QED
      BY <1>2, <1>6, <1>10, <2>1, <3>1, <3>2 DEF IInv, Kept, Asking
  <2>2. CASE asked \/ unheard
    BY <2>2 DEF Kept
  <2> QED
    BY <2>1, <2>2
<1> QED
  BY <1>4, <1>9, <1>11, <1>12 DEF IInv, OnlyEndsWhenAsked

-----------------------------------------------------------------------------
(* The server.  A request that is served is answered, if its tab still     *)
(* waits; a token it creates is a new one.                                 *)
LEMMA ServedRequests ==
  ASSUME IInv, NEW r \in net, r.status = "sent",
         NEW status \in {"ok", "unauthorized"}, NEW set \in Int, Served(r, status, set)
  PROVE  \A q \in net' : \/ q \in net \ {r}
                         \/ /\ r.from # "nobody" /\ q \in Requests /\ q.kind = r.kind /\ q.from = r.from
                            /\ q.cookie = r.cookie /\ q.status = status /\ q.set = set
<1>1. r \in Requests
  BY DEF IInv, Typed
<1>2. /\ [r EXCEPT !.status = status, !.set = set] \in Requests
      /\ [r EXCEPT !.status = status, !.set = set].kind = r.kind
      /\ [r EXCEPT !.status = status, !.set = set].from = r.from
      /\ [r EXCEPT !.status = status, !.set = set].cookie = r.cookie
      /\ [r EXCEPT !.status = status, !.set = set].status = status
      /\ [r EXCEPT !.status = status, !.set = set].set = set
  BY <1>1 DEF Requests
<1> QED
  BY <1>2 DEF Served

LEMMA ServedEqual ==
  ASSUME NEW r \in net, NEW status, NEW set, Served(r, status, set)
  PROVE  /\ net \ {r} \subseteq net'
         /\ \A p, q \in net' : p \in net \ {r} \/ q \in net \ {r} \/ p = q
         /\ r.from # "nobody" => [r EXCEPT !.status = status, !.set = set] \in net'
  BY DEF Served

LEMMA ServedKeeps ==
  ASSUME IInv, NEW r \in net, r.status = "sent",
         NEW status \in {"ok", "unauthorized"}, NEW set \in Int, Served(r, status, set),
         UNCHANGED <<jar, refresh>>, row' \in Seq(Tokens), Len(row') >= Len(row), set <= Len(row'),
         status # "ok" => set = Keep,
         status = "ok" => IF r.kind \in {"refresh", "login"} THEN set > Len(row) ELSE set = 0
  PROVE  Typed' /\ Locked' /\ Fresh'
<1>1. \A q \in net' : \/ q \in net \ {r}
                      \/ /\ r.from # "nobody" /\ q \in Requests /\ q.kind = r.kind /\ q.from = r.from
                         /\ q.cookie = r.cookie /\ q.status = status /\ q.set = set
  BY ServedRequests
<1>2. \A p, q \in net' : p \in net \ {r} \/ q \in net \ {r} \/ p = q
  BY ServedEqual
<1>3. /\ Len(row) \in Nat /\ Len(row') \in Nat /\ Keep = -1 /\ jar \in Nat /\ jar <= Len(row)
      /\ \A q \in net : q \in Requests /\ q.cookie \in Nat /\ q.cookie <= Len(row) /\ q.set \in Int /\ q.set <= Len(row)
  BY DEF IInv, Typed, Keep, Requests
<1>4. Typed'
  <2>1. net' \subseteq Requests
    BY <1>1, <1>3
  <2>2. ASSUME NEW q \in net'
        PROVE  /\ q.cookie <= Len(row') /\ q.set <= Len(row')
               /\ q.from = "nobody" => q.status = "sent"
               /\ q.status # "ok" => q.set = Keep
               /\ q.status = "ok" => q.set = 0 \/ (q.kind \in {"refresh", "login"} /\ q.set > 0)
               /\ q.status = "ok" /\ q.kind \in {"refresh", "login"} => q.set > 0
    <3>1. CASE q \in net \ {r}
      BY <1>3, <3>1 DEF IInv, Typed
    <3>2. CASE q \notin net \ {r}
      BY <1>1, <1>3, <3>2
    <3> QED
      BY <3>1, <3>2
  <2>3. jar' \in 0 .. Len(row') /\ refresh' \in [Tabs -> Steps]
    BY <1>3 DEF IInv, Typed
  <2> QED
    BY <2>1, <2>2, <2>3 DEF Typed
<1>5. Locked'
  <2>1. \A q \in net' : \E p \in net : p.kind = q.kind /\ p.from = q.from
    BY <1>1
  <2>2. \A p, q \in net' : /\ p.from = q.from /\ p.from \in Tabs
                           /\ p.kind \in {"refresh", "flush"} /\ q.kind \in {"refresh", "flush"}
                           => p = q
    BY <1>1, <1>2 DEF IInv, Locked
  <2> QED
    BY <2>1, <2>2 DEF IInv, Locked, Holds
<1>6. Fresh'
  <2>1. ASSUME NEW p \in net', p.set > 0, NEW q \in net'
        PROVE  p.set # jar' /\ q.cookie # p.set /\ (q.set = p.set => q = p)
    <3>1. q.cookie <= Len(row) /\ q.cookie \in Nat
      BY <1>1, <1>3
    <3>2. CASE p \in net \ {r} /\ q \in net \ {r}
      BY <2>1, <3>2 DEF IInv, Fresh
    <3>3. CASE p \in net \ {r} /\ q \notin net \ {r}
      <4>1. q.cookie = r.cookie /\ (q.set = Keep \/ q.set > Len(row) \/ q.set = 0)
        BY <1>1, <3>3
      <4> QED
        BY <1>3, <2>1, <3>3, <4>1 DEF IInv, Fresh
    <3>4. CASE p \notin net \ {r}
      <4>1. p.set > Len(row)
        BY <1>1, <1>3, <2>1, <3>4
      <4>2. q.set = p.set => q = p
        BY <1>2, <1>3, <3>4, <4>1
      <4> QED
        BY <1>3, <3>1, <4>1, <4>2
    <3> QED
      BY <3>2, <3>3, <3>4
  <2> QED
    BY <2>1 DEF Fresh
<1> QED
  BY <1>4, <1>5, <1>6

LEMMA RotateKeeps ==
  ASSUME IInv, NEW r \in net, r.status = "sent", r.kind = "refresh", Rotate(r),
         unheard' = (unheard \/ r.from = "nobody"), UNCHANGED <<jar, refresh, pending, asked, ended>>
  PROVE  IInv'
<1> DEFINE n == Len(row) + 1
<1>1. /\ r.cookie \in Nat /\ r.cookie <= Len(row) /\ Len(row) \in Nat /\ r.cookie # 0 /\ row[r.cookie] = "live"
      /\ row \in Seq(Tokens)
  BY DEF Rotate, Stored, IInv, Typed, Requests
<1>2. /\ row' \in Seq(Tokens) /\ Len(row') = n /\ row'[n] = "live" /\ row'[r.cookie] = "rotated"
      /\ \A i \in 1 .. Len(row) : i # r.cookie => row'[i] = row[i]
  <2>1. [row EXCEPT ![r.cookie] = "rotated"] \in Seq(Tokens) /\ Len([row EXCEPT ![r.cookie] = "rotated"]) = Len(row)
        /\ [row EXCEPT ![r.cookie] = "rotated"][r.cookie] = "rotated"
        /\ \A i \in 1 .. Len(row) : i # r.cookie => [row EXCEPT ![r.cookie] = "rotated"][i] = row[i]
    BY <1>1 DEF Tokens
  <2>2. row' = Append([row EXCEPT ![r.cookie] = "rotated"], "live")
    BY DEF Rotate
  <2> QED
    BY <1>1, <2>1, <2>2 DEF Tokens
<1>3. Served(r, "ok", n)
  BY DEF Rotate
<1>4. Typed' /\ Locked' /\ Fresh'
  BY <1>1, <1>2, <1>3, ServedKeeps
<1>5. \A q \in net' : \/ q \in net \ {r}
                      \/ /\ r.from # "nobody" /\ q \in Requests /\ q.kind = r.kind /\ q.from = r.from
                         /\ q.cookie = r.cookie /\ q.status = "ok" /\ q.set = n
  BY <1>1, <1>3, ServedRequests
<1>6. CASE unheard'
  BY <1>4, <1>6 DEF IInv, NoReuse, Kept, OnlyEndsWhenAsked
<1>7. CASE ~unheard'
  <2>1. ~unheard /\ r.from \in Tabs
    BY <1>7 DEF IInv, Typed, Requests
  <2>2. Due'
    <3>1. [r EXCEPT !.status = "ok", !.set = n] \in net'
      BY <1>3, <2>1, ServedEqual, Instance
    <3>2. [r EXCEPT !.status = "ok", !.set = n].kind = "refresh" /\ [r EXCEPT !.status = "ok", !.set = n].status = "ok"
      BY DEF IInv, Typed, Requests
    <3> QED
      BY <3>1, <3>2 DEF Due
  <2>3. ASSUME NEW q \in net', Asking(q) PROVE FALSE
    <3>1. q \in net \ {r}
      BY <1>5, <2>3 DEF Asking
    <3>2. q.from \in Tabs
      BY <2>3, <3>1 DEF IInv, Typed, Requests, Asking
    <3>3. Holds(q.from) /\ Holds(r.from)
      BY <2>1, <2>3, <3>1, <3>2 DEF IInv, Locked, Holds, Asking
    <3>4. q.from = r.from
      BY <2>1, <3>2, <3>3 DEF IInv, Locked
    <3>5. q = r
      BY <2>1, <2>3, <3>1, <3>4 DEF IInv, Locked, Asking
    <3> QED
      BY <3>1, <3>5
  <2>4. ASSUME NEW q \in net', q.set > 0 PROVE row'[q.set] = "live"
    <3>1. CASE q \in net \ {r}
      <4>1. row[q.set] = "live" /\ q.set # r.cookie /\ q.set \in 1 .. Len(row)
        BY <2>1, <2>4, <3>1 DEF IInv, NoReuse, Fresh, Typed, Requests
      <4> QED
        BY <1>2, <4>1
    <3>2. CASE q \notin net \ {r}
      BY <1>2, <1>5, <3>2
    <3> QED
      BY <3>1, <3>2
  <2>5. NoReuse'
    BY <2>2, <2>3, <2>4 DEF NoReuse, Asking
  <2>6. Kept'
    <3>1. ~asked => \A q \in net' : q.from # "nobody" => q.kind \in {"refresh", "login"} /\ q.status # "unauthorized"
      BY <1>5, <2>1 DEF IInv, Kept
    <3>2. ~asked => \A q \in net' : q.from = "nobody" /\ q.kind \notin {"refresh", "login"} => q.cookie # jar
      BY <1>5, <2>1 DEF IInv, Kept
    <3>3. ~asked => ~pending
      BY <2>1 DEF IInv, Kept
    <3> QED
      BY <2>2, <2>3, <3>1, <3>2, <3>3 DEF Kept, Asking
  <2> QED
    BY <1>4, <2>1, <2>5, <2>6 DEF IInv, OnlyEndsWhenAsked
<1> QED
  BY <1>6, <1>7

LEMMA RejectKeeps ==
  ASSUME IInv, NEW r \in net, r.status = "sent", r.kind = "refresh", Reject(r),
         unheard' = (unheard \/ r.from = "nobody"), UNCHANGED <<jar, refresh, pending, asked, ended>>
  PROVE  IInv'
<1>1. /\ r.cookie \in Nat /\ r.cookie <= Len(row) /\ Len(row) \in Nat /\ row \in Seq(Tokens)
      /\ Stored(r.cookie) # "live" /\ Served(r, "unauthorized", Keep) /\ Keep = -1
      /\ row' = IF Stored(r.cookie) = "rotated" THEN [i \in DOMAIN row |-> "deleted"] ELSE row
  BY DEF Reject, IInv, Typed, Requests, Keep
<1>2. row' \in Seq(Tokens) /\ Len(row') = Len(row)
  <2>1. DOMAIN row = 1 .. Len(row)
    BY <1>1
  <2>2. [i \in DOMAIN row |-> "deleted"] \in Seq(Tokens) /\ Len([i \in DOMAIN row |-> "deleted"]) = Len(row)
    BY <1>1, <2>1 DEF Tokens
  <2> QED
    BY <1>1, <2>2
<1>3. Typed' /\ Locked' /\ Fresh'
  BY <1>1, <1>2, ServedKeeps
<1>4. \A q \in net' : \/ q \in net \ {r}
                      \/ /\ r.from # "nobody" /\ q \in Requests /\ q.kind = r.kind /\ q.from = r.from
                         /\ q.cookie = r.cookie /\ q.status = "unauthorized" /\ q.set = Keep
  BY <1>1, ServedRequests
<1>5. CASE unheard'
  BY <1>3, <1>5 DEF IInv, NoReuse, Kept, OnlyEndsWhenAsked
<1>6. CASE ~unheard'
  <2>1. ~unheard /\ r.from # "nobody" /\ Asking(r)
    BY <1>6 DEF Asking
  <2>2. UNCHANGED row
    BY <1>1, <2>1 DEF IInv, NoReuse, Stored
  <2>3. asked
    BY <1>1, <2>1 DEF IInv, Kept, Stored
  <2>4. \A q \in net' : (q.set > 0 \/ Asking(q)) => q \in net
    BY <1>1, <1>4 DEF Asking
  <2>5. Due => Due'
    BY <1>1, ServedEqual DEF Due
  <2>6. NoReuse'
    BY <1>6, <2>1, <2>2, <2>4, <2>5 DEF IInv, NoReuse, Asking
  <2> QED
    BY <1>3, <2>1, <2>3, <2>6 DEF IInv, Kept, OnlyEndsWhenAsked
<1> QED
  BY <1>5, <1>6

LEMMA RevokeKeeps ==
  ASSUME IInv, NEW r \in net, r.status = "sent", r.kind \in {"flush", "online", "signout"}, Revoke(r),
         unheard' <=> unheard, UNCHANGED <<jar, refresh, pending, asked, ended>>
  PROVE  IInv'
<1>1. /\ r.cookie \in Nat /\ r.cookie <= Len(row) /\ Len(row) \in Nat /\ row \in Seq(Tokens)
      /\ Served(r, "ok", 0) /\ Keep = -1
      /\ row' = IF r.cookie = 0 THEN row ELSE [row EXCEPT ![r.cookie] = "deleted"]
  BY DEF Revoke, IInv, Typed, Requests, Keep
<1>2. /\ row' \in Seq(Tokens) /\ Len(row') = Len(row)
      /\ \A i \in 1 .. Len(row) : i # r.cookie => row'[i] = row[i]
      /\ \A i \in 1 .. Len(row) : i = r.cookie => row'[i] = "deleted"
  BY <1>1 DEF Tokens
<1>3. Typed' /\ Locked' /\ Fresh'
  BY <1>1, <1>2, ServedKeeps
<1>4. \A q \in net' : \/ q \in net \ {r}
                      \/ /\ r.from # "nobody" /\ q \in Requests /\ q.kind = r.kind /\ q.from = r.from
                         /\ q.cookie = r.cookie /\ q.status = "ok" /\ q.set = 0
  BY <1>1, ServedRequests
<1>5. \A q \in net' : (q.set > 0 \/ Asking(q)) => q \in net
  BY <1>4 DEF Asking
<1>6. Due => Due'
  BY <1>1, ServedEqual DEF Due
<1>7. \A q \in net : q.set > 0 => q.set \in 1 .. Len(row) /\ q.set # r.cookie
  BY <1>1 DEF IInv, Typed, Requests, Fresh
<1>8. jar \in Nat /\ jar <= Len(row) /\ \A q \in net : q.cookie \in Nat /\ q.cookie <= Len(row)
  BY <1>1 DEF IInv, Typed, Requests
<1>9. NoReuse'
  <2> SUFFICES ASSUME ~unheard
               PROVE  /\ \A q \in net' : q.set > 0 => row'[q.set] = "live"
                      /\ jar > 0 /\ row'[jar] = "rotated" => Due'
                      /\ \A q \in net' : Asking(q) /\ q.cookie > 0 => row'[q.cookie] # "rotated"
    BY DEF NoReuse, Asking
  <2>1. \A q \in net' : q.set > 0 => row'[q.set] = "live"
    BY <1>2, <1>5, <1>7 DEF IInv, NoReuse
  <2>2. jar > 0 /\ row'[jar] = "rotated" => row[jar] = "rotated"
    BY <1>1, <1>2, <1>8
  <2>3. ASSUME NEW q \in net', Asking(q), q.cookie > 0 PROVE row'[q.cookie] # "rotated"
    BY <1>1, <1>2, <1>5, <1>8, <2>3 DEF IInv, NoReuse
  <2> QED
    BY <1>6, <2>1, <2>2, <2>3 DEF IInv, NoReuse
<1>10. Kept'
  <2>1. CASE ~unheard /\ ~asked
    <3>1. /\ r.from = "nobody" /\ ~pending
          /\ r.cookie # jar /\ \A q \in net : Asking(q) => q.cookie # r.cookie
      BY <2>1 DEF IInv, Kept
    <3>2. \A q \in net' : q \in net
      BY <1>4, <3>1
    <3>3. (jar > 0 /\ row'[jar] = "live") \/ Due'
      BY <1>1, <1>2, <1>6, <1>8, <2>1, <3>1 DEF IInv, Kept
    <3>4. \A q \in net' : Asking(q) => q.cookie > 0 /\ row'[q.cookie] = "live"
      BY <1>1, <1>2, <1>8, <2>1, <3>1, <3>2 DEF IInv, Kept
    <3> QED
      BY <2>1, <3>1, <3>2, <3>3, <3>4 DEF IInv, Kept, Asking
  <2>2. CASE unheard \/ asked
    BY <2>2 DEF Kept
  <2> QED
    BY <2>1, <2>2
<1> QED
  BY <1>3, <1>9, <1>10 DEF IInv, OnlyEndsWhenAsked

LEMMA CreateKeeps ==
  ASSUME IInv, NEW r \in net, r.status = "sent", r.kind = "login", Create(r),
         unheard' <=> unheard, UNCHANGED <<jar, refresh, pending, asked, ended>>
  PROVE  IInv'
<1> DEFINE n == Len(row) + 1
<1>1. Len(row) \in Nat /\ row \in Seq(Tokens) /\ row' = Append(row, "live") /\ Served(r, "ok", n)
  BY DEF Create, IInv, Typed
<1>2. /\ row' \in Seq(Tokens) /\ Len(row') = n /\ row'[n] = "live"
      /\ \A i \in 1 .. Len(row) : row'[i] = row[i]
  BY <1>1 DEF Tokens
<1>3. Typed' /\ Locked' /\ Fresh'
  BY <1>1, <1>2, ServedKeeps
<1>4. \A q \in net' : \/ q \in net \ {r}
                      \/ /\ r.from # "nobody" /\ q \in Requests /\ q.kind = r.kind /\ q.from = r.from
                         /\ q.cookie = r.cookie /\ q.status = "ok" /\ q.set = n
  BY <1>1, ServedRequests
<1>5. \A q \in net' : Asking(q) => q \in net
  BY <1>4 DEF Asking
<1>6. Due => Due'
  BY <1>1, ServedEqual DEF Due
<1>7. jar \in Nat /\ jar <= Len(row) /\ \A q \in net : q.cookie \in Nat /\ q.cookie <= Len(row)
                                                      /\ q.set \in Int /\ q.set <= Len(row)
  BY <1>1 DEF IInv, Typed, Requests
<1>8. NoReuse'
  <2> SUFFICES ASSUME ~unheard
               PROVE  /\ \A q \in net' : q.set > 0 => row'[q.set] = "live"
                      /\ jar > 0 /\ row'[jar] = "rotated" => Due'
                      /\ \A q \in net' : Asking(q) /\ q.cookie > 0 => row'[q.cookie] # "rotated"
    BY DEF NoReuse, Asking
  <2>1. ASSUME NEW q \in net', q.set > 0 PROVE row'[q.set] = "live"
    <3>1. CASE q \in net \ {r}
      BY <1>1, <1>2, <1>7, <2>1, <3>1 DEF IInv, NoReuse
    <3>2. CASE q \notin net \ {r}
      BY <1>2, <1>4, <3>2
    <3> QED
      BY <3>1, <3>2
  <2>2. jar > 0 /\ row'[jar] = "rotated" => row[jar] = "rotated"
    BY <1>1, <1>2, <1>7
  <2>3. ASSUME NEW q \in net', Asking(q), q.cookie > 0 PROVE row'[q.cookie] # "rotated"
    BY <1>1, <1>2, <1>5, <1>7, <2>3 DEF IInv, NoReuse
  <2> QED
    BY <1>6, <2>1, <2>2, <2>3 DEF IInv, NoReuse
<1>9. Kept'
  <2>1. CASE ~unheard /\ ~asked
    <3>1. (jar > 0 /\ row'[jar] = "live") \/ Due'
      BY <1>1, <1>2, <1>6, <1>7, <2>1 DEF IInv, Kept
    <3>2. \A q \in net' : Asking(q) => q.cookie > 0 /\ row'[q.cookie] = "live"
      BY <1>1, <1>2, <1>5, <1>7, <2>1 DEF IInv, Kept
    <3>3. \A q \in net' : q.from # "nobody" => q.kind \in {"refresh", "login"} /\ q.status # "unauthorized"
      BY <1>4, <2>1 DEF IInv, Kept
    <3>4. ASSUME NEW q \in net', q.from = "nobody", q.kind \notin {"refresh", "login"}
          PROVE  q.cookie # jar /\ \A p \in net' : Asking(p) => p.cookie # q.cookie
      BY <1>4, <1>5, <2>1, <3>4 DEF IInv, Kept
    <3> QED
      BY <2>1, <3>1, <3>2, <3>3, <3>4 DEF IInv, Kept, Asking
  <2>2. CASE unheard \/ asked
    BY <2>2 DEF Kept
  <2> QED
    BY <2>1, <2>2
<1> QED
  BY <1>3, <1>8, <1>9 DEF IInv, OnlyEndsWhenAsked

LEMMA ServeKeeps == ASSUME IInv, NEW r \in net, Serve(r) PROVE IInv'
<1>1. /\ r.status = "sent" /\ UNCHANGED <<jar, pending, refresh, asked, ended>>
      /\ unheard' = (unheard \/ (r.kind = "refresh" /\ r.from = "nobody"))
  BY DEF Serve, shared
<1>2. CASE r.kind = "refresh" /\ (Rotate(r) \/ Reject(r))
  <2>1. unheard' = (unheard \/ r.from = "nobody")
    BY <1>1, <1>2
  <2> QED
    BY <1>1, <1>2, <2>1, RotateKeeps, RejectKeeps
<1>3. CASE r.kind \in {"flush", "online", "signout"} /\ Revoke(r)
  <2>1. unheard' <=> unheard
    BY <1>1, <1>3
  <2> QED
    BY <1>1, <1>3, <2>1, RevokeKeeps
<1>4. CASE r.kind = "login" /\ Create(r)
  <2>1. unheard' <=> unheard
    BY <1>1, <1>4
  <2> QED
    BY <1>1, <1>4, <2>1, CreateKeeps
<1> QED
  BY <1>2, <1>3, <1>4 DEF Serve

-----------------------------------------------------------------------------
(* Steps of the browser: requests are answered, forgotten or nobody's.     *)

LEMMA OneTab ==
  ASSUME Typed, NEW t \in Tabs, NEW s \in Steps, refresh' = [refresh EXCEPT ![t] = s]
  PROVE  refresh' \in [Tabs -> Steps] /\ refresh'[t] = s /\ \A u \in Tabs \ {t} : refresh'[u] = refresh[u]
BY DEF Typed

LEMMA Freed == ASSUME NEW t \in Tabs PROVE Idle \in Steps /\ Idle.pc \notin {"posting", "sleeping", "flushing"}
BY DEF Idle, Steps

(* One request is taken off the network, or made nobody's.                 *)
LEMMA OneGone ==
  ASSUME IInv, NEW r \in net,
         \/ net' = net \ {r}
         \/ r.status = "sent" /\ net' = (net \ {r}) \cup {[r EXCEPT !.from = "nobody"]}
  PROVE  /\ Shrinks(net')
         /\ r.kind # "refresh" \/ r.status # "ok" => (Due => Due')
         /\ r.from \in Tabs /\ r.kind \in {"refresh", "flush"}
            => \A q \in net' : q.from = r.from => q.kind \notin {"refresh", "flush"}
<1>1. net \ {r} \subseteq net' /\ Shrinks(net')
  BY DEF Shrinks
<1>2. r.kind # "refresh" \/ r.status # "ok" => (Due => Due')
  BY <1>1 DEF Due
<1>3. ASSUME r.from \in Tabs, r.kind \in {"refresh", "flush"}, NEW q \in net', q.from = r.from
      PROVE  q.kind \notin {"refresh", "flush"}
  <2>1. CASE q \in net \ {r}
    BY <1>3, <2>1 DEF IInv, Locked
  <2>2. CASE q \notin net \ {r}
    <3>1. q = [r EXCEPT !.from = "nobody"] /\ r \in Requests
      BY <2>2 DEF IInv, Typed
    <3>2. q.from = "nobody"
      BY <3>1 DEF Requests
    <3> QED
      BY <1>3, <3>2, Instance
  <2> QED
    BY <2>1, <2>2
<1> QED
  BY <1>1, <1>2, <1>3

(* Everything a tab waits for is given up with the tab.                    *)
LEMMA OrphansShrink ==
  ASSUME Typed, NEW t \in Tabs, NEW requests, Shrinks(requests)
  PROVE  Shrinks(Orphans(t, requests)) /\ \A q \in Orphans(t, requests) : q.from # t
<1>1. t # "nobody"
  BY Instance
<1>2. ASSUME NEW q \in requests, q.from = t PROVE q \in net
  <2>1. ASSUME NEW p \in net, q = [p EXCEPT !.from = "nobody"] PROVE q.from = "nobody"
    BY <2>1 DEF Typed, Requests
  <2> QED
    BY <1>1, <1>2, <2>1 DEF Shrinks
<1>3. ASSUME NEW q \in Orphans(t, requests)
      PROVE  /\ q.from # t
             /\ q \in net \/ \E p \in net : p.status = "sent" /\ q = [p EXCEPT !.from = "nobody"]
  <2>1. CASE q \in requests /\ q.from # t
    BY <2>1 DEF Shrinks
  <2>2. ASSUME NEW p \in requests, p.from = t, p.status = "sent", q = [p EXCEPT !.from = "nobody"]
        PROVE  /\ q.from # t
               /\ \E o \in net : o.status = "sent" /\ q = [o EXCEPT !.from = "nobody"]
    <3>1. p \in net /\ p \in Requests
      BY <1>2, <2>2 DEF Typed
    <3>2. q.from = "nobody"
      BY <2>2, <3>1 DEF Requests
    <3> QED
      BY <1>1, <2>2, <3>1, <3>2
  <2> QED
    BY <1>3, <2>1, <2>2 DEF Orphans
<1> QED
  BY <1>3 DEF Shrinks

(* No request of the network is touched.                                   *)
LEMMA StillKeeps ==
  ASSUME IInv, refresh' \in [Tabs -> Steps], Releases, UNCHANGED <<net, row, jar, pending, unheard, asked, ended>>
  PROVE  IInv'
<1>1. Shrinks(net') /\ (Due => Due')
  BY DEF Shrinks, Due
<1>2. Typed' /\ Locked' /\ Fresh' /\ NoReuse'
  BY <1>1, ShrinkKeeps
<1>3. Kept'
  BY <1>1, ShrinkKept DEF IInv, Kept
<1> QED
  BY <1>2, <1>3 DEF IInv, OnlyEndsWhenAsked

LEMMA StartRefreshKeeps ==
  ASSUME IInv, NEW t \in Tabs, NEW by \in {"request", "app"}, StartRefresh(t, by) PROVE IInv'
<1>1. [pc |-> "waiting", by |-> by] \in Steps
  BY DEF Steps
<1>2. /\ refresh' \in [Tabs -> Steps] /\ refresh'[t] = [pc |-> "waiting", by |-> by]
      /\ \A u \in Tabs \ {t} : refresh'[u] = refresh[u]
  BY <1>1, OneTab DEF StartRefresh, IInv
<1>3. UNCHANGED <<net, row, jar, pending, unheard, asked, ended>> /\ refresh[t].pc = "idle"
  BY DEF StartRefresh, Inflight, shared, history
<1>4. \A q \in net' : q.from = t => q.kind \notin {"refresh", "flush"}
  BY <1>3 DEF IInv, Locked
<1>5. Releases
  BY <1>2, <1>4 DEF Releases, Holds
<1> QED
  BY <1>2, <1>3, <1>5, StillKeeps

LEMMA AcquireKeeps == ASSUME IInv, NEW t \in Tabs, Acquire(t) PROVE IInv'
<1>1. /\ refresh[t].pc = "waiting" /\ \A u \in Tabs : ~Holds(u)
      /\ UNCHANGED <<row, jar, pending, unheard, asked, ended>>
  BY DEF Acquire, LockFree, shared, history
<1>2. CASE /\ pending /\ net' = net \cup {Request("flush", t)}
           /\ refresh' = [refresh EXCEPT ![t].pc = "flushing"]
  BY <1>1, <1>2, PostInLock
<1>3. CASE UNCHANGED net /\ refresh' = [refresh EXCEPT ![t] = Idle]
  <2>1. refresh' \in [Tabs -> Steps] /\ refresh'[t] = Idle /\ \A u \in Tabs \ {t} : refresh'[u] = refresh[u]
    BY <1>3, Freed, OneTab DEF IInv
  <2>2. \A q \in net' : q.from = t => q.kind \notin {"refresh", "flush"}
    BY <1>1, <1>3 DEF IInv, Locked
  <2>3. Releases
    BY <2>1, <2>2, Freed DEF Releases, Holds
  <2> QED
    BY <1>1, <1>3, <2>1, <2>3, StillKeeps
<1>4. CASE /\ net' = net \cup {Request("refresh", t)}
           /\ refresh' = [refresh EXCEPT ![t].pc = "posting"]
  BY <1>1, <1>4, PostInLock
<1> QED
  BY <1>2, <1>3, <1>4 DEF Acquire, SignedOutOffline

LEMMA PostAgainKeeps == ASSUME IInv, NEW t \in Tabs, PostAgain(t) PROVE IInv'
<1>1. refresh[t].pc = "sleeping" /\ UNCHANGED <<row, jar, pending, unheard, asked, ended>>
  BY DEF PostAgain, shared, history
<1>2. \A u \in Tabs \ {t} : ~Holds(u)
  BY <1>1 DEF IInv, Locked, Holds
<1> QED
  BY <1>1, <1>2, PostInLock DEF PostAgain

LEMMA GiveUpKeeps == ASSUME IInv, NEW t \in Tabs, GiveUp(t) PROVE IInv'
<1>1. /\ refresh[t].pc = "sleeping" /\ UNCHANGED <<net, row, jar, pending, unheard, asked, ended>>
      /\ refresh' = [refresh EXCEPT ![t] = Idle]
  BY DEF GiveUp, shared, history
<1>2. refresh' \in [Tabs -> Steps] /\ refresh'[t] = Idle /\ \A u \in Tabs \ {t} : refresh'[u] = refresh[u]
  BY <1>1, Freed, OneTab DEF IInv
<1>3. \A q \in net' : q.from = t => q.kind \notin {"refresh", "flush"}
  BY <1>1 DEF IInv, Locked
<1>4. Releases
  BY <1>2, <1>3, Freed DEF Releases, Holds
<1> QED
  BY <1>1, <1>2, <1>4, StillKeeps

LEMMA DeliverKeeps == ASSUME IInv, NEW t \in Tabs, Deliver(t) PROVE IInv'
<1>1. UNCHANGED <<net, row, jar, pending, unheard, asked, ended, refresh>>
  BY DEF Deliver, history
<1>2. refresh' \in [Tabs -> Steps] /\ Releases
  BY <1>1 DEF IInv, Typed, Releases
<1> QED
  BY <1>1, <1>2, StillKeeps

(* The requests outside the lock.                                          *)
LEMMA SignOutKeeps == ASSUME IInv, NEW t \in Tabs, SignOut(t) PROVE IInv'
BY PostOutside DEF SignOut, shared

LEMMA SignInKeeps == ASSUME IInv, NEW t \in Tabs, SignIn(t) PROVE IInv'
BY PostOutside DEF SignIn, shared

LEMMA BackOnlineKeeps == ASSUME IInv, NEW t \in Tabs, BackOnline(t) PROVE IInv'
<1>1. asked \/ unheard
  BY DEF BackOnline, IInv, Kept
<1> QED
  BY <1>1, PostOutside DEF BackOnline, shared, history

-----------------------------------------------------------------------------
(* Answers.                                                                *)

LEMMA AnswerTyped ==
  ASSUME IInv, NEW r \in net, r.status # "sent"
  PROVE  /\ r.from \in Tabs /\ r.from # "nobody" /\ Keep = -1
         /\ r.status # "ok" => r.set = -1
         /\ r.status = "ok" => IF r.kind \in {"refresh", "login"} THEN r.set > 0 ELSE r.set = 0
BY Instance DEF IInv, Typed, Requests, Keep

(* A session ends that an asked sign-out or a lost answer explains.        *)
LEMMA UnauthorizedKeeps ==
  ASSUME IInv, NEW t \in Tabs, NEW requests, Unauthorized(t, requests), Shrinks(requests),
         \A q \in requests : q.from = t => q.kind \notin {"refresh", "flush"},
         ~Due, asked \/ unheard, unheard => unheard', UNCHANGED <<row, asked>>, jar' \in {jar, 0}
  PROVE  IInv'
<1>1. /\ refresh' = [refresh EXCEPT ![t] = Idle]
      /\ net' = requests \/ net' = Orphans(t, requests)
      /\ ended' => ended \/ ~asked
  BY DEF Unauthorized
<1>2. refresh' \in [Tabs -> Steps] /\ refresh'[t] = Idle /\ \A u \in Tabs \ {t} : refresh'[u] = refresh[u]
  BY <1>1, Freed, OneTab DEF IInv
<1>3. Shrinks(net') /\ \A q \in net' : q.from = t => q.kind \notin {"refresh", "flush"}
  BY <1>1, OrphansShrink DEF IInv
<1>4. Releases
  BY <1>2, <1>3, Freed DEF Releases, Holds
<1>5. Typed' /\ Locked' /\ Fresh' /\ NoReuse'
  BY <1>2, <1>3, <1>4, ShrinkKeeps
<1> QED
  BY <1>1, <1>5 DEF IInv, Kept, OnlyEndsWhenAsked

(* Only the holder of the lock can have a refresh under way.               *)
LEMMA NotDue ==
  ASSUME IInv, NEW r \in net, r.from \in Tabs, r.kind = "flush" \/ (r.kind = "refresh" /\ r.status # "ok")
  PROVE  ~Due
<1> SUFFICES ASSUME NEW q \in net, q.kind = "refresh", q.status = "ok" PROVE FALSE
  BY DEF Due
<1>1. q.from \in Tabs
  BY AnswerTyped
<1>2. Holds(q.from) /\ Holds(r.from)
  BY <1>1 DEF IInv, Locked, Holds
<1>3. q = r
  BY <1>1, <1>2 DEF IInv, Locked
<1> QED
  BY <1>3

LEMMA RefreshedKeeps == ASSUME IInv, NEW r \in net, Refreshed(r) PROVE IInv'
<1>1. /\ r.kind = "refresh" /\ r.status = "ok" /\ net' = net \ {r}
      /\ refresh' = [refresh EXCEPT ![r.from] = Idle]
      /\ UNCHANGED <<row, pending, unheard, asked, ended>>
  BY DEF Refreshed, history
<1>2. r.from \in Tabs /\ r.set > 0 /\ jar' = r.set /\ r \in net \ net'
  BY <1>1, AnswerTyped DEF Refreshed, Cookie
<1>3. refresh' \in [Tabs -> Steps] /\ refresh'[r.from] = Idle
      /\ \A u \in Tabs \ {r.from} : refresh'[u] = refresh[u]
  BY <1>1, <1>2, Freed, OneTab DEF IInv
<1>4. Shrinks(net') /\ \A q \in net' : q.from = r.from => q.kind \notin {"refresh", "flush"}
  BY <1>1, <1>2, OneGone
<1>5. Releases
  BY <1>2, <1>3, <1>4, Freed DEF Releases, Holds
<1>6. ~unheard' => row[jar'] = "live"
  BY <1>1, <1>2 DEF IInv, NoReuse
<1>7. Typed' /\ Locked' /\ Fresh' /\ NoReuse'
  BY <1>1, <1>2, <1>3, <1>4, <1>5, <1>6, ShrinkKeeps
<1>8. ~unheard' /\ ~asked' => ~asked /\ ~pending'
  BY <1>1 DEF IInv, Kept
<1>9. Kept'
  BY <1>1, <1>2, <1>4, <1>8, ShrinkKept
<1> QED
  BY <1>1, <1>7, <1>9 DEF IInv, OnlyEndsWhenAsked

LEMMA RejectedKeeps == ASSUME IInv, NEW r \in net, Rejected(r) PROVE IInv'
<1>1. /\ r.kind = "refresh" /\ r.status = "unauthorized" /\ Unauthorized(r.from, net \ {r})
      /\ UNCHANGED <<row, jar, unheard, asked>>
  BY DEF Rejected
<1>2. r.from \in Tabs /\ ~Due
  BY <1>1, AnswerTyped, NotDue
<1>3. asked \/ unheard
  BY <1>1, AnswerTyped DEF IInv, Kept
<1>4. Shrinks(net \ {r}) /\ \A q \in net \ {r} : q.from = r.from => q.kind \notin {"refresh", "flush"}
  BY <1>1, <1>2 DEF IInv, Locked, Shrinks
<1> QED
  BY <1>1, <1>2, <1>3, <1>4, UnauthorizedKeeps

LEMMA FlushedKeeps == ASSUME IInv, NEW r \in net, Flushed(r) PROVE IInv'
<1>1. /\ r.kind = "flush" /\ r.status = "ok" /\ Unauthorized(r.from, net \ {r})
      /\ UNCHANGED <<row, unheard, asked>>
  BY DEF Flushed
<1>2. r.from \in Tabs /\ ~Due
  BY <1>1, AnswerTyped, NotDue
<1>3. asked \/ unheard
  BY <1>1, AnswerTyped DEF IInv, Kept
<1>4. Shrinks(net \ {r}) /\ \A q \in net \ {r} : q.from = r.from => q.kind \notin {"refresh", "flush"}
  BY <1>1, <1>2 DEF IInv, Locked, Shrinks
<1>5. jar' = 0
  BY <1>1, AnswerTyped DEF Flushed, Cookie
<1> QED
  BY <1>1, <1>2, <1>3, <1>4, <1>5, UnauthorizedKeeps

(* The answer to a sign-out, in the tab or on its behalf.                  *)
LEMMA SignoutAnswered ==
  ASSUME IInv, NEW r \in net, r.kind \in {"online", "signout"}, r.from \in Tabs,
         \/ net' = net \ {r}
         \/ r.status = "sent" /\ net' = (net \ {r}) \cup {[r EXCEPT !.from = "nobody"]},
         jar' \in {jar, 0}, UNCHANGED <<row, refresh, asked, ended>>, unheard' <=> unheard
  PROVE  IInv'
<1>1. r.from # "nobody"
  BY Instance
<1>2. asked \/ unheard
  BY <1>1 DEF IInv, Kept
<1>3. Shrinks(net') /\ (Due => Due')
  BY OneGone
<1>4. refresh' \in [Tabs -> Steps] /\ Releases
  BY DEF IInv, Typed, Releases
<1>5. Typed' /\ Locked' /\ Fresh' /\ NoReuse'
  BY <1>3, <1>4, ShrinkKeeps
<1> QED
  BY <1>2, <1>5 DEF IInv, Kept, OnlyEndsWhenAsked

LEMMA FlushedOnlineKeeps == ASSUME IInv, NEW r \in net, FlushedOnline(r) PROVE IInv'
<1>1. jar' = 0 /\ r.from \in Tabs
  BY AnswerTyped DEF FlushedOnline, Cookie
<1> QED
  BY <1>1, SignoutAnswered DEF FlushedOnline, history

LEMMA LoggedOutKeeps == ASSUME IInv, NEW r \in net, LoggedOut(r) PROVE IInv'
<1>1. jar' = 0 /\ r.from \in Tabs
  BY AnswerTyped DEF LoggedOut, Cookie
<1> QED
  BY <1>1, SignoutAnswered DEF LoggedOut

LEMMA LoggedInKeeps == ASSUME IInv, NEW r \in net, LoggedIn(r) PROVE IInv'
<1>1. /\ r.kind = "login" /\ r.status = "ok" /\ net' = net \ {r} /\ ~pending'
      /\ asked' = (asked /\ ~Quiet(net \ {r})) /\ UNCHANGED <<row, refresh, unheard, ended>>
  BY DEF LoggedIn
<1>2. r.from \in Tabs /\ r.set > 0 /\ jar' = r.set /\ r \in net \ net'
  BY <1>1, AnswerTyped DEF LoggedIn, Cookie
<1>3. Shrinks(net') /\ (Due => Due')
  BY <1>1, OneGone
<1>4. refresh' \in [Tabs -> Steps] /\ Releases
  BY <1>1 DEF IInv, Typed, Releases
<1>5. Typed' /\ Locked' /\ Fresh' /\ NoReuse'
  BY <1>1, <1>2, <1>3, <1>4, ShrinkKeeps
<1>6. ASSUME ~asked PROVE Kept'
  BY <1>1, <1>2, <1>3, <1>6, ShrinkKept
<1>7. ASSUME Quiet(net \ {r}) PROVE Kept'
  <2>1. \A q \in net' : q.from = "nobody"
    BY <1>1, <1>7 DEF Quiet
  <2>2. ~unheard => row[jar'] = "live"
    BY <1>2 DEF IInv, NoReuse
  <2>3. \A q \in net' : q.cookie # jar'
    BY <1>1, <1>2 DEF IInv, Fresh
  <2> QED
    BY <1>1, <1>2, <2>1, <2>2, <2>3 DEF Kept, Asking
<1>8. ASSUME asked, ~Quiet(net \ {r}) PROVE Kept'
  BY <1>1, <1>8 DEF Kept
<1> QED
  BY <1>1, <1>5, <1>6, <1>7, <1>8 DEF IInv, OnlyEndsWhenAsked

LEMMA FailKeeps == ASSUME IInv, NEW r \in net, Fail(r) PROVE IInv'
<1> DEFINE t == r.from
           rest == (net \ {r}) \cup IF r.status = "sent" THEN {[r EXCEPT !.from = "nobody"]} ELSE {}
<1>1. /\ t # "nobody" /\ t \in Tabs /\ UNCHANGED <<jar, row, asked>> /\ r.kind \in Kinds
      /\ unheard' = (unheard \/ (r.kind = "refresh" /\ r.status = "ok"))
  BY DEF Fail, IInv, Typed, Requests
<1>2. \/ rest = net \ {r}
      \/ r.status = "sent" /\ rest = (net \ {r}) \cup {[r EXCEPT !.from = "nobody"]}
  OBVIOUS
<1>3. CASE r.kind = "refresh"
  <2>1. /\ refresh' = [refresh EXCEPT ![t].pc = "sleeping"] /\ net' = rest
        /\ UNCHANGED <<pending, ended>>
    BY <1>3 DEF Fail
  <2>2. refresh[t] \in Steps /\ refresh[t].pc = "posting"
    BY <1>1, <1>3 DEF IInv, Typed, Locked
  <2>3. [refresh[t] EXCEPT !.pc = "sleeping"] \in Steps
    BY <2>2 DEF Steps
  <2>4. refresh' \in [Tabs -> Steps] /\ \A u \in Tabs \ {t} : refresh'[u] = refresh[u]
    BY <1>1, <2>1, <2>3, OneTab DEF IInv
  <2>5. /\ Shrinks(net')
        /\ r.status # "ok" => (Due => Due')
        /\ \A q \in net' : q.from = t => q.kind \notin {"refresh", "flush"}
    BY <1>1, <1>2, <1>3, <2>1, OneGone
  <2>6. Releases
    BY <1>1, <2>2, <2>4, <2>5 DEF Releases, Holds
  <2>7. ~unheard' => (Due => Due')
    BY <1>1, <1>3, <2>5
  <2>8. Typed' /\ Locked' /\ Fresh' /\ NoReuse'
    BY <1>1, <2>4, <2>5, <2>6, <2>7, ShrinkKeeps
  <2>9. ~unheard' /\ ~asked' => ~asked /\ ~pending'
    BY <1>1, <2>1 DEF IInv, Kept
  <2>10. Kept'
    BY <1>1, <2>5, <2>7, <2>9, ShrinkKept
  <2> QED
    BY <1>1, <2>1, <2>8, <2>10 DEF IInv, OnlyEndsWhenAsked
<1>4. CASE r.kind = "flush"
  <2>1. Unauthorized(t, rest)
    BY <1>4 DEF Fail
  <2>2. asked \/ unheard
    BY <1>1, <1>4 DEF IInv, Kept
  <2>3. ~Due
    BY <1>1, <1>4, NotDue
  <2>4. Shrinks(rest)
    BY <1>2 DEF Shrinks
  <2>5. \A q \in rest : q.from = t => q.kind \notin {"refresh", "flush"}
    <3>1. \A q \in net \ {r} : q.from = t => q.kind \notin {"refresh", "flush"}
      BY <1>1, <1>4 DEF IInv, Locked
    <3>2. [r EXCEPT !.from = "nobody"].from = "nobody"
      BY DEF IInv, Typed, Requests
    <3> QED
      BY <1>1, <3>1, <3>2
  <2> HIDE DEF rest, t
  <2> QED
    BY <1>1, <2>1, <2>2, <2>3, <2>4, <2>5, UnauthorizedKeeps
<1>5. CASE r.kind = "signout"
  <2>1. net' = rest /\ UNCHANGED <<refresh, ended>>
    BY <1>5 DEF Fail
  <2> QED
    BY <1>1, <1>2, <1>5, <2>1, SignoutAnswered
<1>6. CASE r.kind \in {"online", "login"}
  <2>1. net' = rest /\ UNCHANGED <<pending, refresh, ended>>
    BY <1>6 DEF Fail
  <2>2. CASE r.kind = "online"
    BY <1>1, <1>2, <2>1, <2>2, SignoutAnswered
  <2>3. CASE r.kind = "login"
    <3>1. Shrinks(net') /\ (Due => Due')
      BY <1>2, <2>1, <2>3, OneGone
    <3>2. refresh' \in [Tabs -> Steps] /\ Releases
      BY <2>1 DEF IInv, Typed, Releases
    <3>3. unheard' <=> unheard
      BY <1>1, <2>3
    <3>4. Typed' /\ Locked' /\ Fresh' /\ NoReuse'
      BY <1>1, <3>1, <3>2, <3>3, ShrinkKeeps
    <3>5. ~unheard' /\ ~asked' => ~asked /\ ~pending'
      BY <1>1, <2>1, <3>3 DEF IInv, Kept
    <3>6. Kept'
      BY <1>1, <3>1, <3>3, <3>5, ShrinkKept
    <3> QED
      BY <2>1, <3>3, <3>4, <3>6 DEF IInv, OnlyEndsWhenAsked
  <2> QED
    BY <1>6, <2>2, <2>3
<1> QED
  BY <1>1, <1>3, <1>4, <1>5, <1>6 DEF Kinds

LEMMA LoseKeeps == ASSUME IInv, NEW r \in net, Lose(r) PROVE IInv'
<1>1. /\ r.from = "nobody" /\ net' = net \ {r}
      /\ UNCHANGED <<row, jar, pending, refresh, unheard, asked, ended>>
  BY DEF Lose, shared, history
<1>2. r.status # "ok"
  BY <1>1 DEF IInv, Typed
<1>3. Shrinks(net') /\ (Due => Due')
  BY <1>1, <1>2, OneGone
<1>4. refresh' \in [Tabs -> Steps] /\ Releases
  BY <1>1 DEF IInv, Typed, Releases
<1>5. Typed' /\ Locked' /\ Fresh' /\ NoReuse'
  BY <1>1, <1>3, <1>4, ShrinkKeeps
<1>6. ~unheard' /\ ~asked' => ~asked /\ ~pending'
  BY <1>1 DEF IInv, Kept
<1>7. Kept'
  BY <1>1, <1>3, <1>6, ShrinkKept
<1> QED
  BY <1>1, <1>5, <1>7 DEF IInv, OnlyEndsWhenAsked

LEMMA ReloadKeeps == ASSUME IInv, NEW t \in Tabs, Reload(t) PROVE IInv'
<1>1. /\ net' = Orphans(t, net) /\ refresh' = [refresh EXCEPT ![t] = Idle]
      /\ unheard' = (unheard \/ \E r \in net : r.from = t /\ r.kind = "refresh" /\ r.status = "ok")
      /\ UNCHANGED <<row, jar, pending, asked, ended>>
  BY DEF Reload, shared
<1>2. refresh' \in [Tabs -> Steps] /\ refresh'[t] = Idle /\ \A u \in Tabs \ {t} : refresh'[u] = refresh[u]
  BY <1>1, Freed, OneTab DEF IInv
<1>3. Shrinks(net') /\ \A q \in net' : q.from # t
  <2>1. Shrinks(net)
    BY DEF Shrinks
  <2> QED
    BY <1>1, <2>1, OrphansShrink DEF IInv
<1>4. Releases
  BY <1>2, <1>3, Freed DEF Releases, Holds
<1>5. ~unheard' => (Due => Due')
  BY <1>1 DEF Due, Orphans
<1>6. Typed' /\ Locked' /\ Fresh' /\ NoReuse'
  BY <1>1, <1>2, <1>3, <1>4, <1>5, ShrinkKeeps
<1>7. ~unheard' /\ ~asked' => ~asked /\ ~pending'
  BY <1>1 DEF IInv, Kept
<1>8. Kept'
  BY <1>1, <1>3, <1>5, <1>7, ShrinkKept
<1> QED
  BY <1>1, <1>6, <1>8 DEF IInv, OnlyEndsWhenAsked

-----------------------------------------------------------------------------
LEMMA NextKeeps == IInv /\ [Next]_vars => IInv'
<1> SUFFICES ASSUME IInv, [Next]_vars PROVE IInv'
  OBVIOUS
<1>1. ASSUME NEW t \in Tabs,
             \/ \E by \in {"request", "app"} : StartRefresh(t, by)
             \/ Acquire(t) \/ PostAgain(t) \/ GiveUp(t)
             \/ SignOut(t) \/ SignIn(t) \/ BackOnline(t) \/ Deliver(t) \/ Reload(t)
      PROVE  IInv'
  BY <1>1, StartRefreshKeeps, AcquireKeeps, PostAgainKeeps, GiveUpKeeps,
     SignOutKeeps, SignInKeeps, BackOnlineKeeps, DeliverKeeps, ReloadKeeps
<1>2. ASSUME NEW r \in net, Serve(r) \/ Answered(r) \/ Fail(r) \/ Lose(r) PROVE IInv'
  BY <1>2, ServeKeeps, FailKeeps, LoseKeeps, RefreshedKeeps, RejectedKeeps,
     FlushedKeeps, FlushedOnlineKeeps, LoggedOutKeeps, LoggedInKeeps DEF Answered
<1>3. CASE UNCHANGED vars
  <2>1. UNCHANGED <<net, row, jar, pending, unheard, asked, ended, refresh>>
    BY <1>3 DEF vars, shared, history
  <2>2. refresh' \in [Tabs -> Steps] /\ Releases
    BY <2>1 DEF IInv, Typed, Releases
  <2> QED
    BY <2>1, <2>2, StillKeeps
<1> QED
  BY <1>1, <1>2, <1>3 DEF Next

LEMMA AlwaysIInv == Spec => []IInv
  BY InitHolds, NextKeeps, PTL DEF Spec

-----------------------------------------------------------------------------
(* The other variables, and that who waits has a request under way.        *)

Messages == {"token", "logout"}
Modes == {"starting", "out", "in", "offline"}
Flags == /\ pending \in BOOLEAN /\ profile \in BOOLEAN /\ heard \in [Tabs -> BOOLEAN]
         /\ unheard \in BOOLEAN /\ asked \in BOOLEAN /\ ended \in BOOLEAN /\ left \in BOOLEAN
Surroundings == /\ mode \in [Tabs -> Modes] /\ mail \in [Tabs -> Seq(Messages)] /\ troubles \in 0 .. MaxTroubles
Awaited == \A t \in Tabs : /\ refresh[t].pc = "posting" => Waits(t, "refresh")
                           /\ refresh[t].pc = "flushing" => Waits(t, "flush")

LEMMA Told ==
  ASSUME mail \in [Tabs -> Seq(Messages)], NEW t \in Tabs, NEW m \in Messages
  PROVE  /\ Tell(t, m) \in [Tabs -> Seq(Messages)] /\ Tell(t, m)[t] = mail[t]
         /\ \A u \in Tabs \ {t} : Tell(t, m)[u] = Append(mail[u], m)
<1>1. \A u \in Tabs : mail[u] \in Seq(Messages) /\ Append(mail[u], m) \in Seq(Messages)
  OBVIOUS
<1> QED
  BY <1>1 DEF Tell

LEMMA SurroundingsKept ==
  ASSUME IInv, Surroundings, [Next]_vars PROVE Surroundings'
<1>1. /\ \A t \in Tabs : mail[t] \in Seq(Messages) /\ mode[t] \in Modes
      /\ <<>> \in Seq(Messages) /\ "token" \in Messages /\ "logout" \in Messages
      /\ troubles \in 0 .. MaxTroubles /\ MaxTroubles \in Nat
  BY Instance DEF Surroundings, Messages
<1>2. Trouble => troubles' \in 0 .. MaxTroubles
  BY <1>1 DEF Trouble
<1>3. ASSUME NEW t \in Tabs, NEW requests, Unauthorized(t, requests)
      PROVE  mode' \in [Tabs -> Modes] /\ mail' \in [Tabs -> Seq(Messages)]
  <2>1. mode' \in [Tabs -> Modes]
    BY <1>3 DEF Unauthorized, Surroundings, Modes
  <2>2. Tell(t, "logout") \in [Tabs -> Seq(Messages)]
    BY <1>1, Told DEF Surroundings
  <2> QED
    BY <1>1, <1>3, <2>1, <2>2 DEF Unauthorized, Surroundings
<1>4. ASSUME NEW t \in Tabs, SignedIn(t) \/ SignedOut(t)
      PROVE  mode' \in [Tabs -> Modes] /\ mail' \in [Tabs -> Seq(Messages)]
  <2>1. mode' \in [Tabs -> Modes]
    BY <1>4 DEF SignedIn, SignedOut, Surroundings, Modes
  <2>2. Tell(t, "logout") \in [Tabs -> Seq(Messages)] /\ Tell(t, "token") \in [Tabs -> Seq(Messages)]
    BY <1>1, Told DEF Surroundings
  <2> QED
    BY <1>4, <2>1, <2>2 DEF SignedIn, SignedOut
<1>5. ASSUME NEW t \in Tabs, NEW by, StartRefresh(t, by) PROVE Surroundings'
  BY <1>5 DEF StartRefresh, Surroundings
<1>6. ASSUME NEW t \in Tabs, Acquire(t) \/ PostAgain(t) \/ BackOnline(t) PROVE Surroundings'
  BY <1>6 DEF Acquire, PostAgain, BackOnline, Surroundings
<1>7. ASSUME NEW t \in Tabs, GiveUp(t) PROVE Surroundings'
  BY <1>7 DEF GiveUp, Surroundings, Modes
<1>8. ASSUME NEW t \in Tabs, SignOut(t) \/ SignIn(t) PROVE Surroundings'
  BY <1>2, <1>8 DEF SignOut, SignIn, Surroundings
<1>9. ASSUME NEW t \in Tabs, Deliver(t) PROVE Surroundings'
  <2>1. Tail(mail[t]) \in Seq(Messages)
    BY <1>1, <1>9 DEF Deliver
  <2>2. mail' \in [Tabs -> Seq(Messages)]
    BY <1>9, <2>1 DEF Deliver, Surroundings
  <2>3. mode' \in [Tabs -> Modes]
    BY <1>9 DEF Deliver, Surroundings, Modes
  <2> QED
    BY <1>9, <2>2, <2>3 DEF Deliver, Surroundings
<1>10. ASSUME NEW t \in Tabs, Reload(t) PROVE Surroundings'
  BY <1>1, <1>2, <1>10 DEF Reload, Surroundings, Modes
<1>11. ASSUME NEW r \in net, Serve(r) \/ Lose(r) \/ FlushedOnline(r) PROVE Surroundings'
  BY <1>11 DEF Serve, Lose, FlushedOnline, Surroundings
<1>12. ASSUME NEW r \in net, Refreshed(r) \/ LoggedOut(r) \/ LoggedIn(r) PROVE Surroundings'
  <2>1. r.from \in Tabs /\ UNCHANGED troubles
    BY <1>12, AnswerTyped DEF Refreshed, LoggedOut, LoggedIn
  <2> QED
    BY <1>4, <1>12, <2>1 DEF Refreshed, LoggedOut, LoggedIn, Surroundings
<1>13. ASSUME NEW r \in net, Rejected(r) \/ Flushed(r) PROVE Surroundings'
  <2>1. r.from \in Tabs /\ UNCHANGED troubles
    BY <1>13, AnswerTyped DEF Rejected, Flushed
  <2> QED
    BY <1>3, <1>13, <2>1 DEF Rejected, Flushed, Surroundings
<1>14. ASSUME NEW r \in net, Fail(r) PROVE Surroundings'
  <2>1. r.from \in Tabs /\ r.kind \in Kinds /\ Trouble
    BY <1>14 DEF Fail, IInv, Typed, Requests
  <2>2. CASE r.kind = "flush"
    BY <1>2, <1>3, <1>14, <2>1, <2>2 DEF Fail, Surroundings
  <2>3. CASE r.kind = "signout"
    BY <1>2, <1>4, <1>14, <2>1, <2>3 DEF Fail, Surroundings
  <2>4. CASE r.kind \in {"refresh", "online", "login"}
    BY <1>2, <1>14, <2>1, <2>4 DEF Fail, Surroundings
  <2> QED
    BY <2>1, <2>2, <2>3, <2>4 DEF Kinds
<1>15. CASE UNCHANGED vars
  BY <1>15 DEF vars, Surroundings
<1> QED
  BY <1>5, <1>6, <1>7, <1>8, <1>9, <1>10, <1>11, <1>12, <1>13, <1>14, <1>15 DEF Next, Answered

LEMMA FlagsKept ==
  ASSUME IInv, Flags, [Next]_vars PROVE Flags'
<1>1. \A t \in Tabs : heard[t] \in BOOLEAN
  BY DEF Flags
<1>2. ASSUME NEW t \in Tabs, \/ \E by \in {"request", "app"} : StartRefresh(t, by)
                             \/ PostAgain(t) \/ GiveUp(t) \/ BackOnline(t)
      PROVE  Flags'
  BY <1>2 DEF StartRefresh, PostAgain, GiveUp, BackOnline, shared, history, Flags
<1>3. ASSUME NEW t \in Tabs, Acquire(t) \/ SignOut(t) \/ SignIn(t) PROVE Flags'
  BY <1>3 DEF Acquire, SignOut, SignIn, shared, history, Flags
<1>4. ASSUME NEW t \in Tabs, Reload(t) PROVE Flags'
  BY <1>4 DEF Reload, shared, history, Flags
<1>5. ASSUME NEW t \in Tabs, Deliver(t) PROVE Flags'
  BY <1>5 DEF Deliver, shared, history, Flags
<1>6. ASSUME NEW r \in net, Serve(r) \/ Lose(r) \/ FlushedOnline(r) PROVE Flags'
  BY <1>6 DEF Serve, Lose, FlushedOnline, shared, history, Flags
<1>7. ASSUME NEW r \in net, Refreshed(r) \/ LoggedOut(r) \/ LoggedIn(r) PROVE Flags'
  BY <1>7 DEF Refreshed, LoggedOut, LoggedIn, SignedIn, SignedOut, NoTokenDue, history, Flags
<1>8. ASSUME NEW r \in net, Rejected(r) \/ Flushed(r) PROVE Flags'
  BY <1>8 DEF Rejected, Flushed, Unauthorized, Flags
<1>9. ASSUME NEW r \in net, Fail(r) PROVE Flags'
  BY <1>9 DEF Fail, Unauthorized, SignedOut, NoTokenDue, Flags
<1>10. CASE UNCHANGED vars
  BY <1>10 DEF vars, shared, history, Flags
<1> QED
  BY <1>2, <1>3, <1>4, <1>5, <1>6, <1>7, <1>8, <1>9, <1>10 DEF Next, Answered

(* Who waits keeps its request, and who stops waiting needs none.          *)
LEMMA AwaitedStill ==
  ASSUME Awaited, UNCHANGED refresh,
         \A q \in net : q.from \in Tabs /\ q.kind \in {"refresh", "flush"}
                        => \E p \in net' : p.from = q.from /\ p.kind = q.kind
  PROVE  Awaited'
<1>1. ASSUME NEW t \in Tabs, NEW kind \in {"refresh", "flush"}, Waits(t, kind) PROVE Waits(t, kind)'
  BY <1>1 DEF Waits
<1> QED
  BY <1>1 DEF Awaited

LEMMA AwaitedWithout ==
  ASSUME Awaited, NEW t \in Tabs, refresh'[t].pc \notin {"posting", "flushing"},
         \A u \in Tabs \ {t} : refresh'[u] = refresh[u],
         \A q \in net : q.from \in Tabs \ {t} /\ q.kind \in {"refresh", "flush"} => q \in net'
  PROVE  Awaited'
<1>1. ASSUME NEW u \in Tabs \ {t}, NEW kind \in {"refresh", "flush"}, Waits(u, kind) PROVE Waits(u, kind)'
  BY <1>1 DEF Waits
<1> QED
  BY <1>1 DEF Awaited

LEMMA AwaitedPosted ==
  ASSUME IInv, Awaited, NEW t \in Tabs, NEW kind \in {"refresh", "flush"}, net' = net \cup {Request(kind, t)},
         refresh' = [refresh EXCEPT ![t].pc = IF kind = "refresh" THEN "posting" ELSE "flushing"]
  PROVE  Awaited'
<1>1. Request(kind, t).from = t /\ Request(kind, t).kind = kind
  BY DEF Request
<1>2. Waits(t, kind)'
  BY <1>1 DEF Waits
<1>3. refresh \in [Tabs -> Steps] /\ refresh[t] \in Steps
  BY DEF IInv, Typed
<1>4. /\ refresh'[t].pc = IF kind = "refresh" THEN "posting" ELSE "flushing"
      /\ \A u \in Tabs \ {t} : refresh'[u] = refresh[u]
  BY <1>3 DEF Steps
<1>5. ASSUME NEW u \in Tabs \ {t}, NEW k \in {"refresh", "flush"}, Waits(u, k) PROVE Waits(u, k)'
  BY <1>5 DEF Waits
<1> QED
  BY <1>2, <1>4, <1>5 DEF Awaited

LEMMA AwaitedKept ==
  ASSUME IInv, Awaited, [Next]_vars PROVE Awaited'
<1>1. ASSUME NEW t \in Tabs, refresh' = [refresh EXCEPT ![t] = Idle]
      PROVE  refresh'[t] = Idle /\ \A u \in Tabs \ {t} : refresh'[u] = refresh[u]
  BY <1>1, Freed, OneTab DEF IInv
<1>2. ASSUME NEW t \in Tabs, NEW requests, Unauthorized(t, requests), \A q \in net : q.from # t => q \in requests
      PROVE  Awaited'
  <2>1. refresh' = [refresh EXCEPT ![t] = Idle] /\ net' \in {requests, Orphans(t, requests)}
    BY <1>2 DEF Unauthorized
  <2>2. \A q \in net : q.from \in Tabs \ {t} => q \in net'
    BY <1>2, <2>1 DEF Orphans
  <2> QED
    BY <1>1, <2>1, <2>2, Freed, AwaitedWithout
<1>3. ASSUME NEW t \in Tabs, NEW by \in {"request", "app"}, StartRefresh(t, by) PROVE Awaited'
  <2>1. refresh' = [refresh EXCEPT ![t] = [pc |-> "waiting", by |-> by]] /\ UNCHANGED net
    BY <1>3 DEF StartRefresh
  <2>2. [pc |-> "waiting", by |-> by] \in Steps
    BY DEF Steps
  <2>3. refresh'[t] = [pc |-> "waiting", by |-> by] /\ \A u \in Tabs \ {t} : refresh'[u] = refresh[u]
    BY <2>1, <2>2, OneTab DEF IInv
  <2> QED
    BY <2>1, <2>3, AwaitedWithout
<1>4. ASSUME NEW t \in Tabs, Acquire(t) PROVE Awaited'
  <2>1. CASE UNCHANGED net /\ refresh' = [refresh EXCEPT ![t] = Idle]
    BY <1>1, <2>1, Freed, AwaitedWithout
  <2>2. CASE net' = net \cup {Request("refresh", t)} /\ refresh' = [refresh EXCEPT ![t].pc = "posting"]
    BY <2>2, AwaitedPosted
  <2>3. CASE net' = net \cup {Request("flush", t)} /\ refresh' = [refresh EXCEPT ![t].pc = "flushing"]
    BY <2>3, AwaitedPosted
  <2> QED
    BY <1>4, <2>1, <2>2, <2>3 DEF Acquire
<1>5. ASSUME NEW t \in Tabs, PostAgain(t) PROVE Awaited'
  BY <1>5, AwaitedPosted DEF PostAgain
<1>6. ASSUME NEW t \in Tabs, GiveUp(t) PROVE Awaited'
  BY <1>1, <1>6, Freed, AwaitedWithout DEF GiveUp
<1>7. ASSUME NEW t \in Tabs, SignOut(t) \/ SignIn(t) \/ BackOnline(t) \/ Deliver(t) PROVE Awaited'
  <2>1. UNCHANGED refresh /\ net \subseteq net'
    BY <1>7 DEF SignOut, SignIn, BackOnline, Deliver
  <2> QED
    BY <2>1, AwaitedStill
<1>8. ASSUME NEW t \in Tabs, Reload(t) PROVE Awaited'
  <2>1. refresh' = [refresh EXCEPT ![t] = Idle] /\ \A q \in net : q.from \in Tabs \ {t} => q \in net'
    BY <1>8 DEF Reload, Orphans
  <2> QED
    BY <1>1, <2>1, Freed, AwaitedWithout
<1>9. ASSUME NEW r \in net, Serve(r) PROVE Awaited'
  <2>1. UNCHANGED refresh /\ \E status, set : Served(r, status, set)
    BY <1>9 DEF Serve, Rotate, Reject, Revoke, Create
  <2> PICK status, set : Served(r, status, set)
    BY <2>1
  <2>2. net \ {r} \subseteq net' /\ (r.from # "nobody" => [r EXCEPT !.status = status, !.set = set] \in net')
    BY ServedEqual
  <2>3. /\ [r EXCEPT !.status = status, !.set = set].from = r.from
        /\ [r EXCEPT !.status = status, !.set = set].kind = r.kind
    BY DEF IInv, Typed, Requests
  <2> QED
    BY <2>1, <2>2, <2>3, AwaitedStill, Instance
<1>10. ASSUME NEW r \in net, r.from \in Tabs, refresh' = [refresh EXCEPT ![r.from] = Idle], net' = net \ {r}
       PROVE  Awaited'
  BY <1>1, <1>10, Freed, AwaitedWithout
<1>11. ASSUME NEW r \in net, r.kind \notin {"refresh", "flush"} \/ r.from \notin Tabs,
              UNCHANGED refresh, net \ {r} \subseteq net'
       PROVE  Awaited'
  BY <1>11, AwaitedStill
<1>12. ASSUME NEW r \in net, Refreshed(r) PROVE Awaited'
  <2>1. r.from \in Tabs
    BY <1>12, AnswerTyped DEF Refreshed
  <2> QED
    BY <1>10, <1>12, <2>1 DEF Refreshed
<1>13. ASSUME NEW r \in net, Rejected(r) \/ Flushed(r) PROVE Awaited'
  <2>1. r.from \in Tabs /\ Unauthorized(r.from, net \ {r})
    BY <1>13, AnswerTyped DEF Rejected, Flushed
  <2> QED
    BY <1>2, <2>1
<1>14. ASSUME NEW r \in net, FlushedOnline(r) \/ LoggedOut(r) \/ LoggedIn(r) PROVE Awaited'
  BY <1>11, <1>14 DEF FlushedOnline, LoggedOut, LoggedIn
<1>15. ASSUME NEW r \in net, Lose(r) PROVE Awaited'
  <2>1. r.from \notin Tabs /\ UNCHANGED refresh /\ net' = net \ {r}
    BY <1>15, Instance DEF Lose
  <2> QED
    BY <1>11, <2>1
<1>16. ASSUME NEW r \in net, Fail(r) PROVE Awaited'
  <2> DEFINE rest == (net \ {r}) \cup IF r.status = "sent" THEN {[r EXCEPT !.from = "nobody"]} ELSE {}
  <2>1. r.from \in Tabs /\ r.kind \in Kinds /\ net \ {r} \subseteq rest
    BY <1>16 DEF Fail, IInv, Typed, Requests
  <2>2. CASE r.kind = "refresh"
    <3>1. refresh' = [refresh EXCEPT ![r.from].pc = "sleeping"] /\ net' = rest
      BY <1>16, <2>2 DEF Fail
    <3>2. refresh[r.from] \in Steps
      BY <2>1 DEF IInv, Typed
    <3>3. /\ [refresh[r.from] EXCEPT !.pc = "sleeping"] \in Steps
          /\ [refresh[r.from] EXCEPT !.pc = "sleeping"].pc = "sleeping"
      BY <3>2 DEF Steps
    <3>4. refresh'[r.from].pc = "sleeping" /\ \A u \in Tabs \ {r.from} : refresh'[u] = refresh[u]
      BY <2>1, <3>1, <3>3, OneTab DEF IInv
    <3> HIDE DEF rest
    <3> QED
      BY <2>1, <3>1, <3>4, AwaitedWithout
  <2>3. CASE r.kind = "flush"
    <3>1. Unauthorized(r.from, rest)
      BY <1>16, <2>3 DEF Fail
    <3> HIDE DEF rest
    <3> QED
      BY <1>2, <2>1, <3>1
  <2>4. CASE r.kind \in {"signout", "online", "login"}
    <3>1. UNCHANGED refresh /\ net' = rest
      BY <1>16, <2>4 DEF Fail
    <3> HIDE DEF rest
    <3> QED
      BY <1>11, <2>1, <2>4, <3>1
  <2> QED
    BY <2>1, <2>2, <2>3, <2>4 DEF Kinds
<1>17. CASE UNCHANGED vars
  BY <1>17, AwaitedStill DEF vars
<1> QED
  BY <1>3, <1>4, <1>5, <1>6, <1>7, <1>8, <1>9, <1>12, <1>13, <1>14, <1>15, <1>16, <1>17 DEF Next, Answered

-----------------------------------------------------------------------------
(* After a sign-out in quiet there is no live token to be had: none in the *)
(* jar unless a revocation is noted, none on its way, and none asked for.  *)
Silent(m) == \A i \in DOMAIN m : m[i] # "token"
Hears(m) == \E i \in DOMAIN m : m[i] = "logout"
NoToken == \A t \in Tabs : Silent(mail[t]) /\ (mode[t] \in {"in", "offline"} => Hears(mail[t]))
NoUse == Stored(jar) # "live"
Idly(r) == r.kind # "login" /\ (r.kind = "refresh" => r.status # "ok" /\ Stored(r.cookie) # "live")
NoAnswer == \A r \in net : r.from \in Tabs => Idly(r)
NoAsking == \A t \in Tabs : refresh[t].pc \in {"posting", "sleeping"} => NoUse
StaysOut == left => ~profile /\ NoToken /\ (NoUse \/ pending) /\ NoAnswer /\ NoAsking

All == IInv /\ Flags /\ Surroundings /\ Awaited /\ StaysOut

LEMMA AtMostOne ==
  ASSUME NEW S, \A x, y \in S : x = y PROVE Cardinality(S) <= 1
<1>1. CASE S = {}
  BY <1>1, FS_EmptySet
<1>2. ASSUME NEW x \in S PROVE Cardinality(S) <= 1
  <2>1. S = {x}
    OBVIOUS
  <2> QED
    BY <2>1, FS_Singleton
<1> QED
  BY <1>1, <1>2

LEMMA AllTyped == All => TypeOK
<1> SUFFICES ASSUME All PROVE TypeOK
  OBVIOUS
<1>1. IInv /\ Flags /\ Surroundings /\ Awaited
  BY DEF All
<1>2. net \subseteq [kind : Kinds, from : Tabs \cup {"nobody"}, cookie : DOMAIN row \cup {0},
                    status : {"sent", "ok", "unauthorized"}, set : DOMAIN row \cup {0, Keep}]
  <2>1. row \in Seq(Tokens) /\ DOMAIN row = 1 .. Len(row) /\ Len(row) \in Nat
    BY <1>1 DEF IInv, Typed
  <2>2. ASSUME NEW r \in net
        PROVE  r \in Requests /\ r.cookie \in DOMAIN row \cup {0} /\ r.set \in DOMAIN row \cup {0, Keep}
    <3>1. r \in Requests /\ r.cookie \in Nat /\ r.set \in Int /\ r.cookie <= Len(row) /\ r.set <= Len(row)
      BY <1>1 DEF IInv, Typed, Requests
    <3>2. r.set = Keep \/ r.set >= 0
      BY <1>1, <3>1 DEF IInv, Typed
    <3> QED
      BY <2>1, <3>1, <3>2
  <2> QED
    BY <2>2 DEF Requests
<1>3. \A t, u \in Tabs : Holds(t) /\ Holds(u) => t = u
  BY <1>1 DEF IInv, Locked
<1>4. ASSUME NEW t \in Tabs
      PROVE  /\ refresh[t].pc = "posting" <=> Waits(t, "refresh")
             /\ refresh[t].pc = "flushing" <=> Waits(t, "flush")
             /\ Cardinality({r \in net : r.from = t /\ r.kind \in {"refresh", "flush"}}) <= 1
  <2>1. \A r, q \in {p \in net : p.from = t /\ p.kind \in {"refresh", "flush"}} : r = q
    BY <1>1 DEF IInv, Locked
  <2>2. Cardinality({r \in net : r.from = t /\ r.kind \in {"refresh", "flush"}}) <= 1
    BY <2>1, AtMostOne
  <2> QED
    BY <1>1, <2>2 DEF IInv, Locked, Awaited, Waits
<1>5. jar \in 0 .. Len(row) /\ row \in Seq(Tokens) /\ refresh \in [Tabs -> Steps]
  BY <1>1 DEF IInv, Typed
<1>6. /\ pending \in BOOLEAN /\ profile \in BOOLEAN /\ heard \in [Tabs -> BOOLEAN]
      /\ unheard \in BOOLEAN /\ asked \in BOOLEAN /\ ended \in BOOLEAN /\ left \in BOOLEAN
  BY <1>1 DEF Flags
<1>7. mode \in [Tabs -> Modes] /\ mail \in [Tabs -> Seq(Messages)] /\ troubles \in 0 .. MaxTroubles
  BY <1>1 DEF Surroundings
<1> QED
  BY <1>2, <1>3, <1>4, <1>5, <1>6, <1>7 DEF TypeOK, Tokens, Steps, Modes, Messages

LEMMA AllStaysOut == All => SignedOutStays
BY DEF All, StaysOut, NoToken, NoUse, Hears, SignedOutStays

LEMMA AllInit == Init => All
<1> SUFFICES ASSUME Init PROVE All
  OBVIOUS
<1>1. IInv /\ ~left
  BY InitHolds DEF Init
<1>2. Flags
  BY DEF Init, Flags
<1>3. Surroundings
  <2>1. mail \in [Tabs -> Seq(Messages)] /\ troubles \in 0 .. MaxTroubles
    BY Instance DEF Init
  <2>2. mode \in [Tabs -> Modes]
    BY DEF Init, Modes
  <2> QED
    BY <2>1, <2>2 DEF Surroundings
<1>4. Awaited
  BY DEF Init, Idle, Awaited
<1> QED
  BY <1>1, <1>2, <1>3, <1>4 DEF All, StaysOut

(* Messages.                                                               *)
LEMMA AppendedLogout ==
  ASSUME NEW m \in Seq(Messages), Silent(m)
  PROVE  Silent(Append(m, "logout")) /\ Hears(Append(m, "logout"))
<1>1. /\ Append(m, "logout") \in Seq(Messages) /\ Len(Append(m, "logout")) = Len(m) + 1 /\ Len(m) \in Nat
      /\ Append(m, "logout")[Len(m) + 1] = "logout" /\ \A i \in 1 .. Len(m) : Append(m, "logout")[i] = m[i]
  BY DEF Messages
<1>2. DOMAIN m = 1 .. Len(m) /\ DOMAIN Append(m, "logout") = 1 .. (Len(m) + 1)
  BY <1>1
<1> QED
  BY <1>1, <1>2 DEF Silent, Hears

LEMMA ReadOn ==
  ASSUME NEW m \in Seq(Messages), m # <<>>, Silent(m)
  PROVE  Head(m) = "logout" /\ Silent(Tail(m))
<1>1. /\ Len(m) \in Nat \ {0} /\ DOMAIN m = 1 .. Len(m) /\ Head(m) = m[1] /\ m[1] \in Messages
      /\ Tail(m) \in Seq(Messages) /\ Len(Tail(m)) = Len(m) - 1
      /\ \A i \in 1 .. Len(Tail(m)) : Tail(m)[i] = m[i + 1]
  OBVIOUS
<1>2. DOMAIN Tail(m) = 1 .. Len(Tail(m))
  BY <1>1
<1> QED
  BY <1>1, <1>2 DEF Silent, Messages

LEMMA ToldToLeave ==
  ASSUME Surroundings, \A u \in Tabs : Silent(mail[u]), NEW t \in Tabs
  PROVE  /\ \A u \in Tabs : Silent(Tell(t, "logout")[u])
         /\ \A u \in Tabs \ {t} : Hears(Tell(t, "logout")[u])
<1>1. Tell(t, "logout")[t] = mail[t] /\ \A u \in Tabs \ {t} : Tell(t, "logout")[u] = Append(mail[u], "logout")
  BY Told DEF Surroundings, Messages
<1>2. \A u \in Tabs : mail[u] \in Seq(Messages)
  BY DEF Surroundings
<1> QED
  BY <1>1, <1>2, AppendedLogout

(* No row comes alive.                                                     *)
LEMMA RowsDie ==
  ASSUME IInv, NEW r \in net, Serve(r), NEW n \in 0 .. Len(row), Stored(n) # "live" PROVE Stored(n)' # "live"
<1>1. /\ row \in Seq(Tokens) /\ DOMAIN row = 1 .. Len(row) /\ Len(row) \in Nat
      /\ r.cookie \in Nat /\ r.cookie <= Len(row)
  BY DEF IInv, Typed, Requests
<1>2. n # 0 => row[n] # "live"
  BY DEF Stored
<1>3. ASSUME n # 0 PROVE row'[n] # "live"
  <2>1. n \in 1 .. Len(row) /\ n \in DOMAIN row
    BY <1>1, <1>3
  <2>2. CASE Rotate(r)
    <3> DEFINE turned == [row EXCEPT ![r.cookie] = "rotated"]
    <3>1. turned \in Seq(Tokens) /\ Len(turned) = Len(row) /\ turned[n] \in {row[n], "rotated"}
      <4>1. r.cookie \in 1 .. Len(row)
        BY <1>1, <2>2 DEF Rotate, Stored
      <4> QED
        BY <1>1, <2>1, <4>1 DEF Tokens
    <3>2. row' = Append(turned, "live")
      BY <2>2 DEF Rotate
    <3> HIDE DEF turned
    <3>3. row'[n] = turned[n]
      BY <1>1, <2>1, <3>1, <3>2 DEF Tokens
    <3> QED
      BY <1>2, <1>3, <3>1, <3>3
  <2>3. CASE Reject(r)
    BY <1>2, <1>3, <2>1, <2>3 DEF Reject
  <2>4. CASE Revoke(r)
    BY <1>2, <1>3, <2>1, <2>4 DEF Revoke
  <2>5. CASE Create(r)
    <3>1. row'[n] = row[n]
      BY <1>1, <2>1, <2>5 DEF Create, Tokens
    <3> QED
      BY <1>2, <1>3, <3>1
  <2> QED
    BY <2>2, <2>3, <2>4, <2>5 DEF Serve
<1> QED
  BY <1>3 DEF Stored

(* The sign-out itself.                                                    *)
LEMMA LeavesNow ==
  ASSUME All, NEW t \in Tabs, SignedOut(t), NoTokenDue(net'), UNCHANGED <<row, refresh>>, jar' = 0 \/ pending'
  PROVE  StaysOut'
<1>1. \A u \in Tabs : Silent(mail[u]) /\ ~Holds(u)
  BY DEF NoTokenDue, Silent
<1>2. Surroundings /\ mail' = Tell(t, "logout") /\ mode' = [mode EXCEPT ![t] = "out"] /\ ~profile'
  BY DEF All, SignedOut
<1>3. NoToken'
  <2>1. \A u \in Tabs : Silent(mail'[u]) /\ (u # t => Hears(mail'[u]))
    BY <1>1, <1>2, ToldToLeave
  <2>2. mode'[t] = "out"
    BY <1>2 DEF Surroundings
  <2> QED
    BY <2>1, <2>2 DEF NoToken
<1>4. NoUse' \/ pending'
  BY DEF NoUse, Stored
<1>5. NoAnswer'
  BY Instance DEF NoTokenDue, NoAnswer, Idly
<1>6. NoAsking'
  BY <1>1 DEF NoAsking, Holds
<1> QED
  BY <1>2, <1>3, <1>4, <1>5, <1>6 DEF StaysOut

(* A session that ends after it.                                           *)
LEMMA LeavesAgain ==
  ASSUME All, left, NEW t \in Tabs, NEW requests, Unauthorized(t, requests), UNCHANGED row,
         \A q \in requests : q.from \in Tabs => q \in net,
         jar' = 0 \/ (UNCHANGED jar /\ UNCHANGED pending)
  PROVE  StaysOut'
<1>1. Surroundings /\ NoToken /\ (NoUse \/ pending) /\ NoAnswer /\ NoAsking
  BY DEF All, StaysOut
<1>2. /\ refresh' = [refresh EXCEPT ![t] = Idle] /\ ~profile'
      /\ mode' \in {[mode EXCEPT ![t] = "starting"], [mode EXCEPT ![t] = "out"]}
      /\ net' = requests \/ net' = Orphans(t, requests)
  BY DEF Unauthorized
<1>3. ~profile' /\ \A u \in Tabs : Silent(mail'[u]) /\ (u # t => Hears(mail'[u]) \/ mail'[u] = mail[u])
  <2>1. \A u \in Tabs : Silent(Tell(t, "logout")[u]) /\ (u # t => Hears(Tell(t, "logout")[u]))
    BY <1>1, ToldToLeave DEF NoToken
  <2>2. Silent(<<>>)
    BY DEF Silent
  <2>3. Tell(t, "logout") \in [Tabs -> Seq(Messages)] /\ mail \in [Tabs -> Seq(Messages)]
    BY <1>1, Told DEF Surroundings, Messages
  <2>4. \/ mail' = [Tell(t, "logout") EXCEPT ![t] = <<>>] \/ mail' = [Tell(t, "logout") EXCEPT ![t] = @]
        \/ mail' = [mail EXCEPT ![t] = <<>>] \/ mail' = [mail EXCEPT ![t] = @]
    BY DEF Unauthorized
  <2> QED
    BY <1>1, <1>2, <2>1, <2>2, <2>3, <2>4 DEF NoToken
<1>4. NoToken'
  <2>1. mode'[t] \in {"starting", "out"} /\ \A u \in Tabs \ {t} : mode'[u] = mode[u]
    BY <1>1, <1>2 DEF Surroundings
  <2> QED
    BY <1>1, <1>3, <2>1 DEF NoToken
<1>5. (NoUse => NoUse') /\ (NoUse' \/ pending')
  BY <1>1 DEF NoUse, Stored
<1>6. NoAnswer'
  <2>1. \A q \in net' : q.from \in Tabs => q \in net
    <3>1. ASSUME NEW p \in requests, p.from = t, p.status = "sent"
          PROVE  [p EXCEPT !.from = "nobody"].from \notin Tabs
      <4>1. p \in Requests
        BY <3>1 DEF All, IInv, Typed
      <4> QED
        BY <4>1, Instance DEF Requests
    <3>2. ASSUME NEW q \in Orphans(t, requests), q.from \in Tabs PROVE q \in requests
      BY <3>1, <3>2 DEF Orphans
    <3> QED
      BY <1>2, <3>2
  <2> QED
    BY <1>1, <2>1 DEF NoAnswer, Idly, Stored
<1>7. NoAsking'
  <2>1. refresh'[t] = Idle /\ \A u \in Tabs \ {t} : refresh'[u] = refresh[u]
    BY <1>2, Freed, OneTab DEF All, IInv
  <2> QED
    BY <1>1, <1>5, <2>1, Freed DEF NoAsking
<1> QED
  BY <1>3, <1>4, <1>5, <1>6, <1>7 DEF StaysOut

(* What keeps it: no row comes alive, the jar is kept or emptied, requests *)
(* leave or carry a jar of no use, nobody is told of a token.              *)
LEMMA StaysOutStill ==
  ASSUME All, left, UNCHANGED <<row, profile, mode, mail>>,
         jar' = 0 \/ (UNCHANGED jar /\ (pending => pending')),
         \A q \in net' : q.from \in Tabs => q \in net \/ Idly(q),
         \A t \in Tabs : refresh'[t].pc \in {"posting", "sleeping"}
                         => NoUse \/ refresh[t].pc \in {"posting", "sleeping"}
  PROVE  StaysOut'
<1>1. ~profile /\ NoToken /\ (NoUse \/ pending) /\ NoAnswer /\ NoAsking
  BY DEF All, StaysOut
<1>2. NoToken' /\ ~profile'
  BY <1>1 DEF NoToken
<1>3. (NoUse => NoUse') /\ (NoUse' \/ pending')
  BY <1>1 DEF NoUse, Stored
<1>4. NoAnswer'
  BY <1>1 DEF NoAnswer, Idly, Stored
<1>5. NoAsking'
  BY <1>1, <1>3 DEF NoAsking
<1> QED
  BY <1>2, <1>3, <1>4, <1>5 DEF StaysOut

LEMMA StaysOutKept ==
  ASSUME All, [Next]_vars PROVE StaysOut'
<1>1. ~left' => StaysOut'
  BY DEF StaysOut
<1>2. /\ IInv /\ Surroundings
      /\ left => ~profile /\ NoToken /\ (NoUse \/ pending) /\ NoAnswer /\ NoAsking
  BY DEF All, StaysOut
<1>3. ASSUME NEW t \in Tabs, NEW kind \in Kinds \ {"login"}, kind = "refresh" => NoUse
      PROVE  Idly(Request(kind, t))
  BY <1>3 DEF Idly, Request, NoUse
<1>4. ASSUME NEW t \in Tabs, NEW by \in {"request", "app"}, left, StartRefresh(t, by) PROVE StaysOut'
  <2>1. /\ UNCHANGED <<row, profile, mode, mail, jar, pending, net>>
        /\ refresh' = [refresh EXCEPT ![t] = [pc |-> "waiting", by |-> by]]
    BY <1>4 DEF StartRefresh, shared
  <2>2. [pc |-> "waiting", by |-> by] \in Steps
    BY DEF Steps
  <2>3. refresh'[t].pc = "waiting" /\ \A u \in Tabs \ {t} : refresh'[u] = refresh[u]
    BY <1>2, <2>1, <2>2, OneTab DEF IInv
  <2> QED
    BY <1>4, <2>1, <2>3, StaysOutStill
<1>5. ASSUME NEW t \in Tabs, left, Acquire(t) PROVE StaysOut'
  <2>1. UNCHANGED <<row, profile, mode, mail, jar, pending>>
    BY <1>5 DEF Acquire, shared
  <2>2. \A u \in Tabs \ {t} : refresh'[u] = refresh[u]
    BY <1>2, <1>5 DEF Acquire, IInv, Typed
  <2>3. CASE pending
    <3>1. net' = net \cup {Request("flush", t)} /\ refresh' = [refresh EXCEPT ![t].pc = "flushing"]
      BY <1>5, <2>3 DEF Acquire, SignedOutOffline
    <3>2. refresh'[t].pc = "flushing"
      BY <1>2, <3>1 DEF IInv, Typed, Steps
    <3>3. Idly(Request("flush", t))
      BY <1>3 DEF Kinds
    <3> QED
      BY <1>5, <2>1, <2>2, <3>1, <3>2, <3>3, StaysOutStill
  <2>4. CASE ~pending
    <3>1. NoUse /\ net' \subseteq net \cup {Request("refresh", t)}
      BY <1>2, <1>5, <2>4 DEF Acquire, SignedOutOffline
    <3>2. Idly(Request("refresh", t))
      BY <1>3, <3>1 DEF Kinds
    <3> QED
      BY <1>5, <2>1, <2>2, <3>1, <3>2, StaysOutStill
  <2> QED
    BY <2>3, <2>4
<1>6. ASSUME NEW t \in Tabs, left, PostAgain(t) PROVE StaysOut'
  <2>1. /\ UNCHANGED <<row, profile, mode, mail, jar, pending>> /\ net' = net \cup {Request("refresh", t)}
        /\ NoUse
    BY <1>2, <1>6 DEF PostAgain, shared, NoAsking
  <2>2. Idly(Request("refresh", t))
    BY <1>3, <2>1 DEF Kinds
  <2> QED
    BY <1>6, <2>1, <2>2, StaysOutStill
<1>7. ASSUME NEW t \in Tabs, left, GiveUp(t) PROVE StaysOut'
  <2>1. /\ UNCHANGED <<row, profile, mail, jar, pending, net>> /\ refresh' = [refresh EXCEPT ![t] = Idle]
        /\ mode' \in {mode, [mode EXCEPT ![t] = "out"]}
    BY <1>2, <1>7 DEF GiveUp, shared, Surroundings, Modes
  <2>2. refresh'[t] = Idle /\ \A u \in Tabs \ {t} : refresh'[u] = refresh[u]
    BY <1>2, <2>1, Freed, OneTab DEF IInv
  <2>3. NoToken'
    BY <1>2, <1>7, <2>1 DEF NoToken, Surroundings
  <2>4. NoAsking' /\ NoUse' = NoUse
    BY <1>2, <1>7, <2>1, <2>2, Freed DEF NoAsking, NoUse, Stored
  <2>5. NoAnswer'
    BY <1>2, <1>7, <2>1 DEF NoAnswer, Idly, Stored
  <2> QED
    BY <1>2, <1>7, <2>1, <2>3, <2>4, <2>5 DEF StaysOut
<1>8. ASSUME NEW t \in Tabs, left, SignOut(t) \/ BackOnline(t) PROVE StaysOut'
  <2>1. /\ UNCHANGED <<row, profile, mode, mail, jar, pending, refresh>>
        /\ \E kind \in {"signout", "online"} : net' = net \cup {Request(kind, t)}
    BY <1>8 DEF SignOut, BackOnline, shared
  <2>2. Idly(Request("signout", t)) /\ Idly(Request("online", t))
    BY <1>3 DEF Kinds
  <2> QED
    BY <1>8, <2>1, <2>2, StaysOutStill
<1>9. ASSUME NEW t \in Tabs, left, Deliver(t) PROVE StaysOut'
  <2>1. mail[t] \in Seq(Messages) /\ mail[t] # <<>> /\ Silent(mail[t])
    BY <1>2, <1>9 DEF Deliver, Surroundings, NoToken
  <2>2. Head(mail[t]) = "logout" /\ Silent(Tail(mail[t]))
    BY <2>1, ReadOn
  <2>3. /\ UNCHANGED <<jar, pending, row, refresh, net>> /\ mail' = [mail EXCEPT ![t] = Tail(mail[t])]
        /\ \/ mode' = [mode EXCEPT ![t] = "out"] /\ profile' = FALSE
           \/ mode[t] \notin {"in", "offline"} /\ UNCHANGED <<mode, profile>>
    BY <1>9, <2>2 DEF Deliver
  <2>4. NoToken'
    BY <1>2, <1>9, <2>2, <2>3 DEF NoToken, Surroundings
  <2>5. NoAnswer' /\ NoAsking' /\ (NoUse' \/ pending') /\ ~profile'
    BY <1>2, <1>9, <2>3 DEF NoAnswer, NoAsking, NoUse, Idly, Stored
  <2> QED
    BY <2>4, <2>5 DEF StaysOut
<1>10. ASSUME NEW t \in Tabs, left, Reload(t) PROVE StaysOut'
  <2>1. /\ UNCHANGED <<row, profile, jar, pending>> /\ refresh' = [refresh EXCEPT ![t] = Idle]
        /\ mode' = [mode EXCEPT ![t] = "starting"] /\ mail' = [mail EXCEPT ![t] = <<>>] /\ net' = Orphans(t, net)
    BY <1>10 DEF Reload, shared
  <2>2. refresh'[t] = Idle /\ \A u \in Tabs \ {t} : refresh'[u] = refresh[u]
    BY <1>2, <2>1, Freed, OneTab DEF IInv
  <2>3. NoToken'
    BY <1>2, <1>10, <2>1 DEF NoToken, Silent, Surroundings
  <2>4. \A q \in net' : q.from \in Tabs => q \in net
    <3>1. \A p \in net : [p EXCEPT !.from = "nobody"].from \notin Tabs
      BY <1>2, Instance DEF IInv, Typed, Requests
    <3> QED
      BY <2>1, <3>1 DEF Orphans
  <2>5. NoAnswer'
    BY <1>2, <1>10, <2>1, <2>4 DEF NoAnswer, Idly, Stored
  <2>6. NoAsking' /\ (NoUse' \/ pending') /\ ~profile'
    BY <1>2, <1>10, <2>1, <2>2, Freed DEF NoAsking, NoUse, Stored
  <2> QED
    BY <2>3, <2>5, <2>6 DEF StaysOut
<1>11. ASSUME NEW r \in net, left, Serve(r) PROVE StaysOut'
  <2>1. UNCHANGED <<jar, pending, profile, mode, mail, refresh>> /\ r.status = "sent" /\ r \in Requests
    BY <1>2, <1>11 DEF Serve, shared, IInv, Typed
  <2>2. jar \in 0 .. Len(row) /\ \A q \in net : q.cookie \in 0 .. Len(row)
    BY <1>2 DEF IInv, Typed, Requests
  <2>3. NoUse => NoUse'
    BY <1>11, <2>1, <2>2, RowsDie, <1>2 DEF NoUse
  <2>4. \A q \in net : Idly(q) => Idly(q)'
    BY <1>11, <2>2, RowsDie, <1>2 DEF Idly
  <2>5. NoAnswer'
    <3>1. CASE r.from \in Tabs
      <4>1. Idly(r)
        BY <1>2, <1>11, <3>1 DEF NoAnswer
      <4>2. CASE r.kind = "refresh"
        <5>1. Served(r, "unauthorized", Keep) /\ Keep \in Int
          BY <1>11, <4>1, <4>2 DEF Serve, Rotate, Reject, Idly, Keep
        <5>2. ASSUME NEW q \in net', q.from \in Tabs PROVE Idly(q)'
          <6>1. CASE q \in net
            BY <1>2, <1>11, <2>4, <5>2, <6>1 DEF NoAnswer
          <6>2. CASE q \notin net
            <7>1. q.kind = r.kind /\ q.cookie = r.cookie /\ q.status = "unauthorized"
              BY <1>2, <2>1, <5>1, <6>2, ServedRequests
            <7>2. Idly(r)'
              BY <2>4, <4>1
            <7> QED
              BY <7>1, <7>2 DEF Idly
          <6> QED
            BY <6>1, <6>2
        <5> QED
          BY <5>2 DEF NoAnswer
      <4>3. CASE r.kind \in {"flush", "online", "signout"}
        <5>1. Served(r, "ok", 0)
          BY <1>11, <4>3 DEF Serve, Revoke
        <5>2. ASSUME NEW q \in net', q.from \in Tabs PROVE Idly(q)'
          <6>1. CASE q \in net
            BY <1>2, <1>11, <2>4, <5>2, <6>1 DEF NoAnswer
          <6>2. CASE q \notin net
            <7>1. q.kind = r.kind
              BY <1>2, <2>1, <5>1, <6>2, ServedRequests
            <7> QED
              BY <4>3, <7>1 DEF Idly
          <6> QED
            BY <6>1, <6>2
        <5> QED
          BY <5>2 DEF NoAnswer
      <4> QED
        BY <2>1, <4>1, <4>2, <4>3 DEF Idly, Requests, Kinds
    <3>2. CASE r.from \notin Tabs
      <4>1. net' = net \ {r}
        BY <1>11, <2>1, <3>2 DEF Serve, Rotate, Reject, Revoke, Create, Served, Requests
      <4> QED
        BY <1>2, <1>11, <2>4, <4>1 DEF NoAnswer
    <3> QED
      BY <3>1, <3>2
  <2>6. NoAsking' /\ NoToken' /\ ~profile' /\ (NoUse' \/ pending')
    BY <1>2, <1>11, <2>1, <2>3 DEF NoAsking, NoToken
  <2> QED
    BY <2>5, <2>6 DEF StaysOut
<1>12. ASSUME NEW r \in net, left, Refreshed(r) \/ LoggedIn(r) PROVE FALSE
  <2>1. r.from \in Tabs /\ r.kind \in {"refresh", "login"} /\ r.status = "ok"
    BY <1>2, <1>12, AnswerTyped DEF Refreshed, LoggedIn
  <2> QED
    BY <1>2, <1>12, <2>1 DEF NoAnswer, Idly
<1>13. ASSUME NEW r \in net, left, Rejected(r) \/ Flushed(r) PROVE StaysOut'
  <2>1. r.from \in Tabs /\ Unauthorized(r.from, net \ {r}) /\ UNCHANGED row
    BY <1>2, <1>13, AnswerTyped DEF Rejected, Flushed
  <2>2. CASE Rejected(r)
    BY <1>13, <2>1, <2>2, LeavesAgain DEF Rejected
  <2>3. CASE Flushed(r)
    <3>1. r.set = 0 /\ Keep = -1
      BY <1>2, <2>3, AnswerTyped DEF Flushed
    <3>2. jar' = 0
      BY <2>3, <3>1 DEF Flushed, Cookie
    <3> QED
      BY <1>13, <2>1, <3>2, LeavesAgain
  <2> QED
    BY <1>13, <2>2, <2>3
<1>14. ASSUME NEW r \in net, left, FlushedOnline(r) PROVE StaysOut'
  <2>1. UNCHANGED <<row, profile, mode, mail, refresh>> /\ net' = net \ {r} /\ jar' = 0
    BY <1>2, <1>14, AnswerTyped DEF FlushedOnline, Cookie
  <2> QED
    BY <1>14, <2>1, StaysOutStill
<1>15. ASSUME NEW r \in net, left', LoggedOut(r) PROVE StaysOut'
  <2>1. /\ r.from \in Tabs /\ SignedOut(r.from) /\ net' = net \ {r} /\ NoTokenDue(net')
        /\ UNCHANGED <<row, refresh>> /\ jar' = 0
    BY <1>2, <1>15, AnswerTyped DEF LoggedOut, Cookie
  <2> QED
    BY <2>1, LeavesNow
<1>16. ASSUME NEW r \in net, left, Lose(r) PROVE StaysOut'
  <2>1. UNCHANGED <<row, profile, mode, mail, jar, pending, refresh>> /\ net' = net \ {r}
    BY <1>16 DEF Lose, shared
  <2> QED
    BY <1>16, <2>1, StaysOutStill
<1>17. ASSUME NEW r \in net, left', Fail(r) PROVE StaysOut'
  <2> DEFINE rest == (net \ {r}) \cup IF r.status = "sent" THEN {[r EXCEPT !.from = "nobody"]} ELSE {}
  <2>1. /\ r.from \in Tabs /\ r.kind \in Kinds /\ UNCHANGED <<row, jar>>
        /\ [r EXCEPT !.from = "nobody"].from = "nobody"
    BY <1>2, <1>17 DEF Fail, IInv, Typed, Requests
  <2>2. \A q \in rest : q.from \in Tabs => q \in net
    BY <2>1, Instance
  <2>3. CASE r.kind = "signout"
    <3>1. pending' /\ SignedOut(r.from) /\ net' = rest /\ left' = NoTokenDue(rest) /\ UNCHANGED refresh
      BY <1>17, <2>3 DEF Fail
    <3> HIDE DEF rest
    <3> QED
      BY <1>17, <2>1, <3>1, LeavesNow
  <2>4. CASE r.kind = "flush"
    <3>1. Unauthorized(r.from, rest) /\ UNCHANGED pending /\ left
      BY <1>17, <2>4 DEF Fail
    <3> HIDE DEF rest
    <3> QED
      BY <2>1, <2>2, <3>1, LeavesAgain
  <2>5. CASE r.kind = "refresh"
    <3>1. /\ refresh' = [refresh EXCEPT ![r.from].pc = "sleeping"] /\ net' = rest /\ left
          /\ UNCHANGED <<pending, profile, mode, mail>>
      BY <1>17, <2>5 DEF Fail
    <3>2. refresh[r.from].pc = "posting" /\ \A u \in Tabs \ {r.from} : refresh'[u] = refresh[u]
      BY <1>2, <2>1, <2>5, <3>1 DEF IInv, Typed, Locked
    <3> HIDE DEF rest
    <3> QED
      BY <2>1, <2>2, <3>1, <3>2, StaysOutStill
  <2>6. CASE r.kind \in {"online", "login"}
    <3>1. net' = rest /\ left /\ UNCHANGED <<pending, profile, mode, mail, refresh>>
      BY <1>17, <2>6 DEF Fail
    <3> HIDE DEF rest
    <3> QED
      BY <2>1, <2>2, <3>1, StaysOutStill
  <2> QED
    BY <2>1, <2>3, <2>4, <2>5, <2>6 DEF Kinds
<1>18. ASSUME left, UNCHANGED vars PROVE StaysOut'
  <2>1. UNCHANGED <<row, profile, mode, mail, jar, pending, refresh, net>>
    BY <1>18 DEF vars, shared
  <2> QED
    BY <1>18, <2>1, StaysOutStill
<1>19. ASSUME NEW t \in Tabs, left', SignIn(t) PROVE FALSE
  BY <1>19 DEF SignIn
<1>20. ASSUME NEW r \in net, left', Serve(r) \/ Refreshed(r) \/ Rejected(r) \/ Flushed(r) \/ FlushedOnline(r)
                                    \/ LoggedIn(r) \/ Lose(r)
       PROVE  left
  BY <1>20 DEF Serve, Refreshed, Rejected, Flushed, FlushedOnline, LoggedIn, Lose, history
<1>21. ASSUME NEW t \in Tabs, left',
              \/ \E by \in {"request", "app"} : StartRefresh(t, by)
              \/ Acquire(t) \/ PostAgain(t) \/ GiveUp(t)
              \/ SignOut(t) \/ BackOnline(t) \/ Deliver(t) \/ Reload(t)
       PROVE  left
  BY <1>21 DEF StartRefresh, Acquire, PostAgain, GiveUp, SignOut, BackOnline, Deliver, Reload, history
<1>22. ASSUME NEW t \in Tabs, left',
              \/ \E by \in {"request", "app"} : StartRefresh(t, by)
              \/ Acquire(t) \/ PostAgain(t) \/ GiveUp(t)
              \/ SignOut(t) \/ SignIn(t) \/ BackOnline(t) \/ Deliver(t) \/ Reload(t)
       PROVE  StaysOut'
  BY <1>4, <1>5, <1>6, <1>7, <1>8, <1>9, <1>10, <1>19, <1>21, <1>22
<1>23. ASSUME NEW r \in net, left', Serve(r) \/ Answered(r) \/ Fail(r) \/ Lose(r) PROVE StaysOut'
  BY <1>11, <1>12, <1>13, <1>14, <1>15, <1>16, <1>17, <1>20, <1>23 DEF Answered
<1>24. UNCHANGED vars => (left' => left)
  BY DEF vars, history
<1> QED
  BY <1>1, <1>18, <1>22, <1>23, <1>24 DEF Next

LEMMA AlwaysAll == Spec => []All
<1>1. Init => All
  BY AllInit
<1>2. All /\ [Next]_vars => All'
  BY NextKeeps, FlagsKept, SurroundingsKept, AwaitedKept, StaysOutKept DEF All
<1> QED
  BY <1>1, <1>2, PTL DEF Spec

(* The variables keep their shapes; one tab at most is inside the lock,    *)
(* and it has one request under way unless it sleeps (refreshSession).     *)
THEOREM TypeCorrect == Spec => []TypeOK
  BY AlwaysAll, AllTyped, PTL

(* After a sign-out no tab stays signed in that is not about to hear of    *)
(* it, and the cookie is of no use unless its revocation is noted          *)
(* (useLogout, flushPendingLogout).                                        *)
THEOREM SignedOutForGood == Spec => []SignedOutStays
  BY AlwaysAll, AllStaysOut, PTL

(* The tabs of a browser never revoke each other: a session ends that      *)
(* nobody asked to end only after the answer to a refresh was lost         *)
(* (refreshSession's lock and the rotation of refresh tokens).             *)
THEOREM NeverRevokedByATab == Spec => []OnlyEndsWhenAsked
<1>1. IInv => OnlyEndsWhenAsked
  BY DEF IInv
<1> QED
  BY <1>1, AlwaysIInv, PTL
=============================================================================
