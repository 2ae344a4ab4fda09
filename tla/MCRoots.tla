------------------------------ MODULE MCRoots --------------------------------
(* Two tabs of one browser: the user of the first presses more often. *)
EXTENDS Roots

CONSTANTS v1, v2

Tabs == {v1, v2}
Presses == [v \in Tabs |-> IF v = v1 THEN 3 ELSE 0]
=============================================================================
