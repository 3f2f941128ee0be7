---------------------------- MODULE MCPublisher ----------------------------
(***************************************************************************)
(* Safety: two infohashes, two servers that discovery swaps or withdraws    *)
(* and that may lose our copy, and two public addresses. Liveness: one      *)
(* infohash and two servers that discovery swaps. A record is due after one *)
(* tick and dead after two. Three changes are enough to register an         *)
(* infohash, remove it and register it again, to register two and remove    *)
(* one, or to lose and regain an address or a server.                       *)
(***************************************************************************)
EXTENDS Publisher, TLC

Symmetry == Permutations(Address) \cup Permutations(Server) \cup Permutations(Hash)
============================================================================
