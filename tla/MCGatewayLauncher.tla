------------------------- MODULE MCGatewayLauncher -------------------------
(***************************************************************************)
(* Two processes, a list that is replaced by a withdrawal, an item that    *)
(* does not decode, and one announced server; one process is killed.       *)
(***************************************************************************)
EXTENDS GatewayLauncher, TLC
CONSTANTS s1, s2
MCAddresses == [i \in Item |-> IF i = 1 THEN {s1} ELSE {}]

Symmetry == Permutations(Gateway)
============================================================================
