----------------------------- MODULE MCSession -----------------------------
(* Two tabs of one browser; they are alike.                                *)
EXTENDS Session, TLC

CONSTANTS t1, t2

Alike == Permutations(Tabs)
=============================================================================
