----------------------------- MODULE MCExchange -----------------------------
(* Exchange for TLC: two nodes that ask each other. *)
EXTENDS Exchange

CONSTANTS a, b

MCNodes == {a, b}
MainThreadOfA == [n \in MCNodes |-> IF n = a THEN {TRUE} ELSE {}]
Lengths == {<<"full">>, <<"full", "short">>}
=============================================================================
