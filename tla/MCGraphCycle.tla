---------------------------- MODULE MCGraphCycle ----------------------------
(* Instance of GraphCycle for TLC: one of two folders has mail at first.     *)
EXTENDS GraphCycle
CONSTANTS f1, i1
MCHeld == {<<f1, i1>>}
=============================================================================
