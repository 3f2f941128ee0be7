---------------------------- MODULE MCLocalIndex ----------------------------
(***************************************************************************)
(* A store of two entries, two per host, and three ports on each of two    *)
(* hosts: a third address of the host that holds both entries is refused,   *)
(* an address of the other host evicts. Times go up to the largest u64, so  *)
(* that expiries saturate.                                                 *)
(***************************************************************************)
EXTENDS LocalIndex, TLC

Symmetry == Permutations(Host) \cup Permutations(Port) \cup Permutations(Value \ Oversize)
============================================================================
