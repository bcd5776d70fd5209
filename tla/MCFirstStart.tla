---------------------------- MODULE MCFirstStart ----------------------------
(* FirstStart for TLC: four handles and a counter of three bits. *)
EXTENDS FirstStart

CONSTANTS h1, h2, h3, h4

MCHandles == {h1, h2, h3, h4}
=============================================================================
