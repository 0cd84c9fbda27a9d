------------------------------ MODULE MCOutbox ------------------------------
(* Three notifications, the first two with one key; the delay doubles with  *)
(* every attempt.                                                           *)
EXTENDS Outbox

CONSTANTS n1, n2, n3, k

MCNotifications == {n1, n2, n3}
MCKey == [n \in MCNotifications |-> IF n = n3 THEN None ELSE k]
MCRetryDelay == [a \in 1 .. MAX_ATTEMPTS |-> 2^(a - 1)]

\* What is emitted: the first one, then one of the others, a rival for the key while
\* the first is being queued or later, an unrelated one after it.  Only what emits is
\* restricted, the tasks and time are not, so what is fair stays fair.
OneOther ==
  /\ status[n2] = "absent" \/ status[n3] = "absent"
  /\ status[n2] # "absent" => status[n1] # "absent"
  /\ status[n3] # "absent" => status[n1] \notin {"absent", "checked"}
============================================================================
