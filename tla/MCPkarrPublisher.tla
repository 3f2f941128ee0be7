-------------------------- MODULE MCPkarrPublisher --------------------------
(***************************************************************************)
(* Two names, two editors, the background task and a caller of publish_all *)
(* that may be cancelled. The clock stands still or goes back.             *)
(***************************************************************************)
EXTENDS PkarrPublisher, TLC

Symmetry == Permutations(Key) \cup Permutations(Editor)
============================================================================
