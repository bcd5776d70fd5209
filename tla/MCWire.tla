------------------------------- MODULE MCWire -------------------------------
(* Wire for TLC: names with bars at the beginning, the end and inside. *)
EXTENDS Wire, TLC

x == <<"x">>
MCNames == {x, <<"y">>, <<"x", Bar>>, <<Bar, "y">>, <<"x", Bar, "y">>, <<"x", Bar, Bar, "y">>}
MCCharacters == {"x", "y"}
MCIndexes == {0, 1}
MCNumeral == [i \in -1..4 |-> ToString(i)]
=============================================================================
