----------------------------- MODULE MCGateway -----------------------------
(***************************************************************************)
(* A request for a root by its key and one for a path of its collection,   *)
(* two providers, one of which links name, and two packets of the key.     *)
(***************************************************************************)
EXTENDS Gateway, TLC
CONSTANTS p1, p2, r1, r2
MCKind == (r1 :> "blob") @@ (r2 :> "collection")
MCQueries == (r1 :> {<<>>}) @@ (r2 :> {<<>>, <<p1>>, <<p2, p1>>})
MCTtl == (1 :> 3) @@ (2 :> 1)
MCTarget == (1 :> "host") @@ (2 :> "content")
============================================================================
