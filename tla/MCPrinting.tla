----------------------------- MODULE MCPrinting -----------------------------
(* Jobs and requests are interchangeable.                                   *)
EXTENDS Printing, TLC

Alike == Permutations(Jobs) \cup Permutations(Requests)
============================================================================
