--------------------------- MODULE MCLiveUpdates ---------------------------
(* One screen with a live stream; other readers come and go.               *)
EXTENDS LiveUpdates

CONSTANTS s1
=============================================================================
