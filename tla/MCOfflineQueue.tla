--------------------------- MODULE MCOfflineQueue ---------------------------
(* A score of a scheduled head-to-head match and one of a seeding round.   *)
EXTENDS OfflineQueue

CONSTANTS match, seeding, m, r1

MCSlot == [s \in {match, seeding} |-> IF s = match THEN m ELSE r1]
=============================================================================
