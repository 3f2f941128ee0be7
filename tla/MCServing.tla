----------------------------- MODULE MCServing -----------------------------
(***************************************************************************)
(* A collection with a name that is a file and a directory, a directory    *)
(* with an index file, one below it, and names that browsers resolve or    *)
(* that begin with a slash; the key names it, a file, or another host.     *)
(* Ranges are chosen at and across the boundaries of chunks, of the blob   *)
(* and of the numbers.                                                     *)
(***************************************************************************)
EXTENDS Serving, TLC

MCNames == [b \in {"root", "x", "y"} |->
  IF b = "root"
  THEN (<<"a">> :> "x") @@ (<<"a", "b">> :> "y") @@ (<<"d", "index.html">> :> "x")
       @@ (<<"d", "e", "f">> :> "y") @@ (<<"..", "x">> :> "x") @@ (<<"", "z">> :> "x")
  ELSE None]
MCSize == "root" :> 7 @@ "x" :> 5 @@ "y" :> 0
MCMetaSize == [b \in {"root", "x", "y"} |-> 5]

MCTyped ==
  {URL(route, host, tail, flags) :
     route \in {"blake3", "pkarr"}, host \in Hosts,
     tail \in {<<"">>, <<"a">>, <<"d">>, <<"", "a", "b">>, <<"", "", "a">>, <<"n">>},
     flags \in {{}, {"listing"}}}
  \cup {URL(route, "path", None, flags) :
          route \in {"blake3", "pkarr"}, flags \in {{}, {"tree"}, {"download"}}}

MCParts == ({0, 2, 3, U64Max, Empty} \X {0, 2, 3, U64Max, Empty}) \cup {Malformed}
MCPairs == {<<0, 2>>, <<3, 3>>, <<2, Empty>>, <<Empty, 3>>, <<Empty, 0>>}
MCHeaders == {None} \cup {<<p>> : p \in MCParts} \cup {<<p, q>> : p, q \in MCPairs}
============================================================================
