------------------------- MODULE MCPublishProtocol -------------------------
(***************************************************************************)
(* One server that keeps one entry, two publish calls and a NAT with two   *)
(* ports. The clock runs over three token buckets, so that a token can     *)
(* outlive its bucket and the one after.                                   *)
(***************************************************************************)
EXTENDS PublishProtocol, TLC

MCValue == Publish \X (Host \X Port)

Symmetry == Permutations(Port) \cup Permutations(Publish)
============================================================================
