------------------------------ MODULE Session ------------------------------
(***************************************************************************)
(* The session of one account in one browser: the refresh of the access    *)
(* token shared by the requests of a tab and serialised between the tabs   *)
(* (frontend/src/lib/sessionRefresh.ts), sign-in and sign-out              *)
(* (hooks/useAuth.ts), the 401 handling (lib/api.ts), and the rotation of  *)
(* refresh tokens on the server (backend/modules/auth/service.py).         *)
(*                                                                         *)
(* The tabs share the cookie and localStorage and send each other          *)
(* messages.  A request takes a step to be served and one to be answered;  *)
(* the cookie of an answer is set when it arrives.  Access tokens expire   *)
(* at any time, so a signed-in tab may need a refresh at any time.         *)
(***************************************************************************)
EXTENDS Integers, Sequences, FiniteSets

CONSTANTS
  Tabs,
  MaxTokens,   \* bound: refresh tokens issued
  MaxTroubles  \* bound: sign-outs and sign-ins, requests that fail, tabs that are
               \* loaded again, all together

ASSUME Instance == MaxTokens \in Nat \ {0} /\ MaxTroubles \in Nat /\ "nobody" \notin Tabs

VARIABLES
  jar,       \* the refresh cookie, 0 for none
  row,       \* the refresh tokens on the server, in the order of issue
  pending,   \* localStorage botball-pending-logout
  profile,   \* localStorage botball-profile
  mode,      \* authStore of a tab: starting, out (login page), in, offline
  refresh,   \* refreshSession of a tab: its step and what called it
  heard,     \* tokenVersion changed while the refresh of the tab waits for the lock
  mail,      \* BroadcastChannel messages on their way to a tab
  net,       \* requests under way
  troubles,
  unheard,   \* history: a refresh was served and its answer did not arrive
  asked,     \* history: a sign-out was asked for, and no session began in quiet since
  ended,     \* history: a session ended that nobody asked to end
  left       \* history: signed out in quiet, and not signed in since

shared == <<jar, pending, profile>>
history == <<unheard, asked, ended, left>>
vars == <<shared, row, mode, refresh, heard, mail, net, troubles, history>>

Idle == [pc |-> "idle", by |-> "nobody"]
Keep == -1  \* an answer that sets no cookie
Request(kind, t) == [kind |-> kind, from |-> t, cookie |-> jar, status |-> "sent", set |-> Keep]
Orphans(t, requests) ==
  {r \in requests : r.from # t} \cup {[r EXCEPT !.from = "nobody"] : r \in {q \in requests : q.from = t /\ q.status = "sent"}}

Init == /\ jar = 1 /\ row = <<"live">> /\ pending = FALSE /\ profile = TRUE
        /\ mode \in [Tabs -> {"starting", "in"}]
        /\ refresh = [t \in Tabs |-> Idle] /\ heard = [t \in Tabs |-> FALSE]
        /\ mail = [t \in Tabs |-> <<>>]
        /\ net = {} /\ troubles = 0
        /\ unheard = FALSE /\ asked = FALSE /\ ended = FALSE /\ left = FALSE

Trouble == troubles < MaxTroubles /\ troubles' = troubles + 1
Holds(t) == refresh[t].pc \in {"posting", "sleeping", "flushing"}
Tell(from, message) == [t \in Tabs |-> IF t = from THEN mail[t] ELSE Append(mail[t], message)]

(* No token can still reach a tab of its own accord.                       *)
NoTokenDue(requests) == /\ \A r \in requests : r.kind \in {"refresh", "login"} => r.from = "nobody"
                        /\ \A t \in Tabs : ~Holds(t) /\ \A i \in DOMAIN mail[t] : mail[t][i] # "token"
Quiet(requests) == /\ \A r \in requests : r.from = "nobody"
                   /\ \A t \in Tabs : ~Holds(t) /\ mail[t] = <<>>

-----------------------------------------------------------------------------
(* refreshSession: one refresh per tab, one lock for all tabs.             *)

(* Faulty variant: a caller does not wait for the request under way.       *)
InflightForgotten(t) == refresh[t].pc = "posting"
Inflight(t) == refresh[t].pc # "idle"

StartRefresh(t, by) ==
  /\ ~Inflight(t)
  /\ \/ by = "request" /\ mode[t] \in {"in", "offline"}   \* a 401
     \/ by = "app" /\ mode[t] \in {"starting", "offline"}  \* useRestoreSession
  /\ refresh' = [refresh EXCEPT ![t] = [pc |-> "waiting", by |-> by]]
  /\ UNCHANGED <<shared, row, mode, heard, mail, net, troubles, history>>

(* Faulty variants: no lock; an offline sign-out is not looked for.        *)
Unlocked == TRUE
NotPending == FALSE

LockFree == \A t \in Tabs : ~Holds(t)
SignedOutOffline == pending

Acquire(t) ==
  /\ refresh[t].pc = "waiting" /\ LockFree
  /\ \/ /\ SignedOutOffline
        /\ net' = net \cup {Request("flush", t)}
        /\ refresh' = [refresh EXCEPT ![t].pc = "flushing"]
     \/ /\ ~SignedOutOffline /\ heard[t] /\ mode[t] = "in"
        /\ refresh' = [refresh EXCEPT ![t] = Idle]
        /\ UNCHANGED net
     \/ /\ ~SignedOutOffline /\ ~(heard[t] /\ mode[t] = "in")
        /\ net' = net \cup {Request("refresh", t)}
        /\ refresh' = [refresh EXCEPT ![t].pc = "posting"]
  /\ heard' = [heard EXCEPT ![t] = FALSE]
  /\ UNCHANGED <<shared, row, mode, mail, troubles, history>>

(* The next attempt of postRefresh, or the end of the attempts.            *)
PostAgain(t) ==
  /\ refresh[t].pc = "sleeping"
  /\ net' = net \cup {Request("refresh", t)}
  /\ refresh' = [refresh EXCEPT ![t].pc = "posting"]
  /\ UNCHANGED <<shared, row, mode, heard, mail, troubles, history>>

GiveUp(t) ==
  /\ refresh[t].pc = "sleeping"
  /\ refresh' = [refresh EXCEPT ![t] = Idle]
  /\ mode' = [mode EXCEPT ![t] = IF @ # "starting" THEN @
                                 ELSE IF profile THEN "offline" ELSE "out"]
  /\ UNCHANGED <<shared, row, heard, mail, net, troubles, history>>

-----------------------------------------------------------------------------
(* The server.  The row is locked while it is rotated; reuse of a rotated  *)
(* token ends all sessions.                                                *)

Stored(n) == IF n = 0 THEN "none" ELSE row[n]
Served(r, status, set) ==
  net' = (net \ {r}) \cup IF r.from = "nobody" THEN {} ELSE {[r EXCEPT !.status = status, !.set = set]}

Rotate(r) ==
  /\ Stored(r.cookie) = "live" /\ Len(row) < MaxTokens
  /\ row' = Append([row EXCEPT ![r.cookie] = "rotated"], "live")
  /\ Served(r, "ok", Len(row) + 1)

Reject(r) ==
  /\ Stored(r.cookie) # "live"
  /\ row' = IF Stored(r.cookie) = "rotated" THEN [n \in DOMAIN row |-> "deleted"] ELSE row
  /\ Served(r, "unauthorized", Keep)

Revoke(r) ==
  /\ row' = IF r.cookie = 0 THEN row ELSE [row EXCEPT ![r.cookie] = "deleted"]
  /\ Served(r, "ok", 0)

Create(r) ==
  /\ Len(row) < MaxTokens
  /\ row' = Append(row, "live")
  /\ Served(r, "ok", Len(row) + 1)

Serve(r) ==
  /\ r.status = "sent"
  /\ \/ r.kind = "refresh" /\ (Rotate(r) \/ Reject(r))
     \/ r.kind \in {"flush", "online", "signout"} /\ Revoke(r)
     \/ r.kind = "login" /\ Create(r)
  /\ unheard' = (unheard \/ (r.kind = "refresh" /\ r.from = "nobody"))
  /\ UNCHANGED <<shared, mode, refresh, heard, mail, troubles, asked, ended, left>>
-----------------------------------------------------------------------------
(* What the browser does with an answer.                                   *)

Cookie(r) == jar' = IF r.set = Keep THEN jar ELSE r.set

SignedIn(t) ==
  /\ mode' = [mode EXCEPT ![t] = "in"] /\ profile' = TRUE
  /\ mail' = Tell(t, "token")

SignedOut(t) ==
  /\ mode' = [mode EXCEPT ![t] = "out"] /\ profile' = FALSE
  /\ mail' = Tell(t, "logout")

(* The cookie was rejected, or revoked for an offline sign-out.  A request *)
(* that asked for the token ends the session of all tabs and loads the     *)
(* login page; useRestoreSession signs out in its tab.                     *)
Unauthorized(t, requests) ==
  LET reload == refresh[t].by = "request" /\ mode[t] # "out"
  IN /\ profile' = FALSE
     /\ refresh' = [refresh EXCEPT ![t] = Idle]
     /\ mode' = [mode EXCEPT ![t] = IF reload THEN "starting" ELSE "out"]
     /\ mail' = [(IF refresh[t].by = "request" THEN Tell(t, "logout") ELSE mail)
                    EXCEPT ![t] = IF reload THEN <<>> ELSE @]
     /\ net' = IF reload THEN Orphans(t, requests) ELSE requests
     /\ ended' = (ended \/ ~asked)

Refreshed(r) ==
  /\ r.kind = "refresh" /\ r.status = "ok" /\ Cookie(r)
  /\ SignedIn(r.from)
  /\ refresh' = [refresh EXCEPT ![r.from] = Idle]
  /\ net' = net \ {r}
  /\ UNCHANGED <<pending, row, heard, troubles, history>>

Rejected(r) ==
  /\ r.kind = "refresh" /\ r.status = "unauthorized"
  /\ Unauthorized(r.from, net \ {r})
  /\ UNCHANGED <<jar, pending, row, heard, troubles, unheard, asked, left>>

Flushed(r) ==
  /\ r.kind = "flush" /\ r.status = "ok" /\ Cookie(r)
  /\ pending' = FALSE
  /\ Unauthorized(r.from, net \ {r})
  /\ UNCHANGED <<row, heard, troubles, unheard, asked, left>>

FlushedOnline(r) ==
  /\ r.kind = "online" /\ r.status = "ok" /\ Cookie(r)
  /\ pending' = FALSE
  /\ net' = net \ {r}
  /\ UNCHANGED <<profile, row, mode, refresh, heard, mail, troubles, history>>

LoggedOut(r) ==
  /\ r.kind = "signout" /\ r.status = "ok" /\ Cookie(r)
  /\ SignedOut(r.from)
  /\ left' = NoTokenDue(net \ {r})
  /\ net' = net \ {r}
  /\ UNCHANGED <<pending, row, refresh, heard, troubles, unheard, asked, ended>>

LoggedIn(r) ==
  /\ r.kind = "login" /\ r.status = "ok" /\ Cookie(r)
  /\ pending' = FALSE
  /\ SignedIn(r.from)
  /\ asked' = (asked /\ ~Quiet(net \ {r}))
  /\ net' = net \ {r}
  /\ UNCHANGED <<row, refresh, heard, troubles, unheard, ended, left>>

Answered(r) == \/ Refreshed(r) \/ Rejected(r) \/ Flushed(r)
               \/ FlushedOnline(r) \/ LoggedOut(r) \/ LoggedIn(r)

(* No answer, or a server error; the server may still serve the request.   *)
Fail(r) ==
  LET rest == (net \ {r}) \cup IF r.status = "sent" THEN {[r EXCEPT !.from = "nobody"]} ELSE {}
      t == r.from
  IN /\ t # "nobody" /\ Trouble
     /\ unheard' = (unheard \/ (r.kind = "refresh" /\ r.status = "ok"))
     /\ CASE r.kind = "refresh" -> /\ refresh' = [refresh EXCEPT ![t].pc = "sleeping"] /\ net' = rest
                                   /\ UNCHANGED <<pending, profile, mode, mail, ended, left>>
          [] r.kind = "flush" -> Unauthorized(t, rest) /\ UNCHANGED <<pending, left>>
          [] r.kind = "signout" -> /\ pending' = TRUE /\ SignedOut(t) /\ net' = rest
                                   /\ left' = NoTokenDue(rest)
                                   /\ UNCHANGED <<refresh, ended>>
          [] OTHER -> net' = rest /\ UNCHANGED <<pending, profile, mode, refresh, mail, ended, left>>
     /\ UNCHANGED <<jar, row, heard, asked>>

Lose(r) ==
  /\ r.from = "nobody"
  /\ net' = net \ {r}
  /\ UNCHANGED <<shared, row, mode, refresh, heard, mail, troubles, history>>

-----------------------------------------------------------------------------
(* The user, the other tabs and the connection.                            *)

Waits(t, kind) == \E r \in net : r.from = t /\ r.kind = kind

SignOut(t) ==
  /\ mode[t] \in {"in", "offline"} /\ ~Waits(t, "signout") /\ Trouble
  /\ asked' = TRUE
  /\ net' = net \cup {Request("signout", t)}
  /\ UNCHANGED <<shared, row, mode, refresh, heard, mail, unheard, ended, left>>

SignIn(t) ==
  /\ mode[t] = "out" /\ ~Waits(t, "login") /\ Trouble
  /\ left' = FALSE
  /\ net' = net \cup {Request("login", t)}
  /\ UNCHANGED <<shared, row, mode, refresh, heard, mail, unheard, asked, ended>>

BackOnline(t) ==
  /\ pending /\ ~Waits(t, "online")
  /\ net' = net \cup {Request("online", t)}
  /\ UNCHANGED <<shared, row, mode, refresh, heard, mail, troubles, history>>

(* A tab that has neither a token nor a user ignores a sign-out.           *)
Deliver(t) ==
  /\ mail[t] # <<>>
  /\ mail' = [mail EXCEPT ![t] = Tail(@)]
  /\ IF Head(mail[t]) = "token"
     THEN /\ mode' = [mode EXCEPT ![t] = "in"] /\ profile' = TRUE
          /\ heard' = [heard EXCEPT ![t] = refresh[t].pc = "waiting"]
     ELSE IF mode[t] \in {"in", "offline"}
     THEN mode' = [mode EXCEPT ![t] = "out"] /\ profile' = FALSE /\ UNCHANGED heard
     ELSE UNCHANGED <<mode, profile, heard>>
  /\ UNCHANGED <<jar, pending, row, refresh, net, troubles, history>>

Reload(t) ==
  /\ Trouble
  /\ mode' = [mode EXCEPT ![t] = "starting"]
  /\ refresh' = [refresh EXCEPT ![t] = Idle] /\ heard' = [heard EXCEPT ![t] = FALSE]
  /\ mail' = [mail EXCEPT ![t] = <<>>]
  /\ net' = Orphans(t, net)
  /\ unheard' = (unheard \/ \E r \in net : r.from = t /\ r.kind = "refresh" /\ r.status = "ok")
  /\ UNCHANGED <<shared, row, asked, ended, left>>

Next == \/ \E t \in Tabs : \/ \E by \in {"request", "app"} : StartRefresh(t, by)
                          \/ Acquire(t) \/ PostAgain(t) \/ GiveUp(t)
                          \/ SignOut(t) \/ SignIn(t) \/ BackOnline(t) \/ Deliver(t) \/ Reload(t)
        \/ \E r \in net : Serve(r) \/ Answered(r) \/ Fail(r) \/ Lose(r)

Spec == Init /\ [][Next]_vars

-----------------------------------------------------------------------------
(* Properties                                                              *)

Kinds == {"refresh", "flush", "online", "signout", "login"}

(* The shapes of the state; one tab at most is inside the lock, and it has *)
(* exactly one request under way unless it sleeps between two attempts.    *)
TypeOK ==
  /\ jar \in 0 .. Len(row) /\ row \in Seq({"live", "rotated", "deleted"})
  /\ pending \in BOOLEAN /\ profile \in BOOLEAN
  /\ mode \in [Tabs -> {"starting", "out", "in", "offline"}]
  /\ refresh \in [Tabs -> [pc : {"idle", "waiting", "posting", "sleeping", "flushing"},
                           by : {"nobody", "request", "app"}]]
  /\ heard \in [Tabs -> BOOLEAN] /\ mail \in [Tabs -> Seq({"token", "logout"})]
  /\ net \subseteq [kind : Kinds, from : Tabs \cup {"nobody"}, cookie : DOMAIN row \cup {0},
                    status : {"sent", "ok", "unauthorized"}, set : DOMAIN row \cup {0, Keep}]
  /\ troubles \in 0 .. MaxTroubles
  /\ unheard \in BOOLEAN /\ asked \in BOOLEAN /\ ended \in BOOLEAN /\ left \in BOOLEAN
  /\ \A t, u \in Tabs : Holds(t) /\ Holds(u) => t = u
  /\ \A t \in Tabs : /\ refresh[t].pc = "posting" <=> Waits(t, "refresh")
                     /\ refresh[t].pc = "flushing" <=> Waits(t, "flush")
                     /\ Cardinality({r \in net : r.from = t /\ r.kind \in {"refresh", "flush"}}) <= 1

(* The tabs of a browser never revoke each other: while nobody asked to    *)
(* sign out, the cookie is only rejected after the answer to a refresh was *)
(* lost or too late ("two tabs refreshing at once would revoke each other. *)
(* A Web Lock serialises the refresh", sessionRefresh.ts).                 *)
OnlyEndsWhenAsked == ended => unheard

(* After a sign-out no tab stays signed in that is not about to hear of    *)
(* it, and the cookie is of no use unless its revocation is noted, so no   *)
(* restart or refresh brings the session back (sessionRefresh.ts: "the     *)
(* cookie must not bring the session back"; useLogout).  The exception is  *)
(* a sign-out while a refresh or a token message was under way: its token  *)
(* and cookie arrive afterwards and nothing looks at the sign-out again.   *)
SignedOutStays ==
  left => /\ \A t \in Tabs : mode[t] \in {"in", "offline"} => \E i \in DOMAIN mail[t] : mail[t][i] = "logout"
          /\ Stored(jar) = "live" => pending
=============================================================================
