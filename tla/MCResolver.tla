----------------------------- MODULE MCResolver -----------------------------
(***************************************************************************)
(* An endless stream and a call of resolve that share the index and its    *)
(* cache. Two addresses, of which the cache has room for one; the servers  *)
(* hold at a1 its own record or a copy of a2's, and nothing at a2. An      *)
(* answer may come without what a silent server holds.                     *)
(***************************************************************************)
EXTENDS Resolver, TLC

CONSTANTS a1, a2, e1, e2, s1, s2

MCHome == (e1 :> a1) @@ (e2 :> a2)
MCMode == (s1 :> "continuous") @@ (s2 :> "once")
MCValues == (a1 :> {{e1}, {e2}}) @@ (a2 :> {{}})
MCLookup == Stream \X Slot
MCBatches == (s1 :> {<<a1, a2>>}) @@ (s2 :> {<<a1>>})
============================================================================
