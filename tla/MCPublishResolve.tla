------------------------- MODULE MCPublishResolve --------------------------
(***************************************************************************)
(* Two servers, a publish that may build too long a value, and a lookup    *)
(* that stops at the first record signed for the address. The servers in   *)
(* use change while calls are pending, and may be none.                    *)
(***************************************************************************)
EXTENDS PublishProtocol

MCValue == Publish \X (Host \X Port)
============================================================================
