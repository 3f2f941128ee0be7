------------------------------ MODULE Gateway ------------------------------
(***************************************************************************)
(* How the gateway finds a provider of a hash for its requests             *)
(* (iroh-link-gateway/src/lib.rs, providers.rs): cached sources, hints,    *)
(* remembered misses, and a race of probes of the providers that links     *)
(* named, that served the hash before and that Mainline names, under a     *)
(* deadline; then the connection, and what is read before the response.    *)
(*                                                                         *)
(* Requests run concurrently and may be dropped by their client at each     *)
(* await. A probe passes or fails at any moment, and the deadlines of a     *)
(* probe, of discovery and of the request are choices of their own.         *)
(***************************************************************************)
EXTENDS ProviderMemory, PkarrRedirect

CONSTANTS Named,             \* the requests whose URL has a key instead of a hash
          Kind,              \* "blob" or "collection": whether each is for a root or a path
          Queries,           \* the providers that the URL of each may name, in order
          Announced,         \* the providers that Mainline may name
          CONCURRENT_PROBES

ASSUME GatewayAssumption ==
  /\ Announced \subseteq Provider
  /\ \A r \in Req : \A query \in Queries[r] : query \in Seq(Provider)
  /\ Named \subseteq Req
  /\ Kind \in [Req -> {"blob", "collection"}]
  /\ CONCURRENT_PROBES \in Nat \ {0}

VARIABLE request \* the locals of each request

vars == <<memory, names, request>>

\* A response has begun, or the client has gone. What the response holds is the concern of
\* Serving; here it ends the request.
Idle == [pc |-> "idle"]

Init ==
  /\ InitMemory /\ InitNames
  /\ request = [r \in Req |-> Idle]

At(r, pc) == request[r].pc = pc
Goes(r, to) == request' = [request EXCEPT ![r] = to]
Distinct(query) == Cardinality(Range(query))

\* serve_root or serve_path: add_from_query, and the cached source if its connection is
\* open; `connection` begins otherwise.
Begin(r, query) ==
  /\ At(r, "idle")
  /\ IF r \in Named THEN Looks(r, "use") /\ Target[lookup[r].seq] = "content" ELSE TRUE
  /\ IF Distinct(query) > MAX_PER_URL
     THEN Goes(r, Idle) /\ UNCHANGED <<hints, named>>
     ELSE /\ hints' = IF query = <<>> THEN hints ELSE add(query)
          /\ named' = [p \in Provider |-> IF p \in Range(query) THEN 0 ELSE named[p]]
          /\ Goes(r, IF cached[Kind[r]] = None THEN [pc |-> "hints", linked |-> query # <<>>]
                     ELSE [pc |-> "detect", provider |-> cached[Kind[r]]])
  /\ Becomes(r, NoLookup)
  /\ UNCHANGED <<known, missing, cached, failed, packets, held, settled>>

\* hints.get.
GetHints(r) ==
  /\ At(r, "hints")
  /\ hints' = Live(hints)
  /\ Goes(r, [pc |-> "missing", linked |-> request[r].linked,
              queue |-> Ids(Live(hints))])
  /\ UNCHANGED <<known, missing, cached, named, failed>>

\* Mutant: a remembered miss is asked first.
CheckMissingFirst(r) ==
  /\ At(r, "missing")
  /\ missing' = IF missing = 0 THEN None ELSE missing
  /\ Goes(r, IF missing' = None THEN [pc |-> "known", queue |-> request[r].queue]
             ELSE Idle)
  /\ UNCHANGED <<hints, known, cached, named, failed>>

\* Without a hint, providers.missing answers for a while after a lookup that found none.
CheckMissing(r) ==
  /\ At(r, "missing")
  /\ missing' = IF request[r].queue = {} /\ missing = 0 THEN None
                ELSE missing
  /\ Goes(r, IF request[r].queue # {} \/ missing' = None
             THEN [pc |-> "known", queue |-> request[r].queue]
             ELSE Idle)
  /\ UNCHANGED <<hints, known, cached, named, failed>>

\* providers.providers, fastest first: in any order. The candidates are probed once each.
GetKnown(r) ==
  /\ At(r, "known")
  /\ known' = Live(known)
  /\ Goes(r, [pc |-> "probe", hinted |-> request[r].queue,
              known |-> Ids(Live(known)) \ request[r].queue,
              mainline |-> "not asked", seen |-> {}, probing |-> {}])
  /\ UNCHANGED <<hints, missing, cached, named, failed>>

----------------------------------------------------------------------------
(* verified_providers: the race of the probes.                             *)

Room(r) == At(r, "probe") /\ Cardinality(request[r].probing) < CONCURRENT_PROBES

\* The next candidate is taken: hinted ones first, then known ones.
StartProbe(r, p) ==
  /\ Room(r)
  /\ p \in IF request[r].hinted # {} THEN request[r].hinted ELSE request[r].known
  /\ LET q == request[r]
     IN  Goes(r, [q EXCEPT !.hinted = q.hinted \ {p}, !.known = q.known \ {p},
                           !.seen = q.seen \cup {p}, !.probing = q.probing \cup {p}])
  /\ UNCHANGED memory

\* Mainline is asked when no other candidate is left, after a head start if there are hints.
AskMainline(r) ==
  /\ Room(r)
  /\ request[r].hinted = {} /\ request[r].known = {}
  /\ request[r].mainline = "not asked"
  /\ Goes(r, [request[r] EXCEPT !.mainline = "asked"])
  /\ UNCHANGED memory

\* resolve_stream names a provider; one that was a candidate already is skipped.
Discover(r, p) ==
  /\ Room(r)
  /\ request[r].mainline = "asked" /\ p \in Announced \ request[r].seen
  /\ LET q == request[r]
     IN  Goes(r, [q EXCEPT !.seen = q.seen \cup {p}, !.probing = q.probing \cup {p}])
  /\ UNCHANGED memory

DiscoveryEnds(r) ==
  /\ Room(r)
  /\ request[r].mainline = "asked"
  /\ Goes(r, [request[r] EXCEPT !.mainline = "ended"])
  /\ UNCHANGED memory

\* A probe passes: the provider is remembered, the race is over, and hints.confirm renews a
\* hint.
ProbePasses(r, p) ==
  /\ At(r, "probe") /\ p \in request[r].probing
  /\ confirm(p)
  /\ failed' = MISS_TTL
  /\ hints' = renew(p)
  /\ named' = [named EXCEPT ![p] = IF named[p] = Never THEN Never ELSE 0]
  /\ Goes(r, [pc |-> "reading", provider |-> p])
  /\ UNCHANGED cached

\* A probe fails or takes too long: the provider is forgotten, its hint is not.
ProbeFails(r, p) ==
  /\ At(r, "probe") /\ p \in request[r].probing
  /\ known' = Without(known, {p})
  /\ Goes(r, [request[r] EXCEPT !.probing = request[r].probing \ {p}])
  /\ UNCHANGED <<hints, missing, cached, named, failed>>

\* No candidate is left, or the deadline of discovery has passed.
NothingLeft(r) ==
  /\ request[r].mainline = "ended" /\ request[r].probing = {}

NotFound(r) ==
  /\ At(r, "probe") /\ NothingLeft(r)
  /\ record_missing
  /\ Goes(r, Idle)
  /\ UNCHANGED <<hints, known, cached, named>>

DiscoveryTimeout(r) ==
  /\ At(r, "probe") /\ ~NothingLeft(r)
  /\ record_missing
  /\ Goes(r, Idle)
  /\ UNCHANGED <<hints, known, cached, named>>

----------------------------------------------------------------------------
(* The connection.                                                         *)

\* endpoint.connect succeeds, and source_on_connection or collection_on_connection reads what
\* it needs: the source is kept. A collection that is kept already, with its connection, is
\* used instead; of two that were read at once the last one stays.
Read(r) ==
  /\ At(r, "reading")
  /\ \E p \in {request[r].provider}
            \cup (IF Kind[r] = "collection" THEN {cached["collection"]} \ {None} ELSE {}) :
       /\ cached' = [cached EXCEPT ![Kind[r]] = p]
       /\ Goes(r, [pc |-> "detect", provider |-> p])
  /\ UNCHANGED <<hints, known, missing, named, failed>>

\* The response begins. A root of the right size is read as a collection first, and kept as
\* one if it is, unless one was kept already.
Detect(r, isCollection) ==
  /\ At(r, "detect")
  /\ isCollection => Kind[r] = "blob"
  /\ \/ (isCollection => cached["collection"] # None) /\ UNCHANGED cached
     \/ isCollection /\ cached' = [cached EXCEPT !["collection"] = request[r].provider]
  /\ Goes(r, Idle)
  /\ UNCHANGED <<hints, known, missing, named, failed>>

\* Connecting or reading fails, what is read is no collection, or LOOKUP_TIMEOUT passes.
Upstream(r) ==
  /\ At(r, "reading")
  /\ Goes(r, Idle)
  /\ UNCHANGED memory

\* Statements between two awaits take no time.
Awaits(r) == request[r].pc \in {"idle", "probe", "reading", "detect"} /\ ~Looks(r, "use")

\* The client drops the request at an await.
Cancel(r) ==
  /\ \/ Awaits(r) /\ ~At(r, "idle") /\ Goes(r, Idle) /\ UNCHANGED lookup
     \/ lookup[r].pc \in {"resolve", "grace"} /\ Becomes(r, NoLookup) /\ UNCHANGED request
  /\ UNCHANGED <<memory, packets, held, settled>>

\* A provider closes its connections: a source that is kept is not used any more.
Close(p) ==
  /\ cached' = [kind \in DOMAIN cached |-> IF cached[kind] = p THEN None ELSE cached[kind]]
  /\ UNCHANGED <<hints, known, missing, named, failed, names, request>>

EvictSlot ==
  /\ \A r \in Req : Awaits(r)
  /\ \/ Evict /\ UNCHANGED packets
     \/ packets # NoPacket /\ packets' = NoPacket /\ UNCHANGED memory
  /\ UNCHANGED <<held, lookup, settled, request>>

Tick ==
  /\ \A r \in Req : Awaits(r)
  /\ ElapseMemory /\ ElapseNames
  /\ UNCHANGED request

\* A request that has a name looks that up before anything else.
Name(r) ==
  /\ r \in Named /\ At(r, "idle")
  /\ \/ redirect(r) \/ LookupFails(r) \/ Resolved(r) \/ Redirected(r)
     \/ \E n \in SeqNo : FirstAnswer(r, n) \/ NextAnswer(r, n)
  /\ UNCHANGED <<memory, request>>

Lookup(r) ==
  /\ \/ GetHints(r) \/ CheckMissing(r) \/ GetKnown(r)
     \/ AskMainline(r) \/ DiscoveryEnds(r) \/ NotFound(r) \/ DiscoveryTimeout(r)
     \/ Read(r) \/ Upstream(r) \/ \E isCollection \in BOOLEAN : Detect(r, isCollection)
     \/ \E p \in Provider : StartProbe(r, p) \/ Discover(r, p) \/ ProbePasses(r, p)
                            \/ ProbeFails(r, p)
  /\ UNCHANGED names

Mainline ==
  /\ \E n \in SeqNo : Publish(n) \/ Replaced(n)
  /\ UNCHANGED <<memory, request>>

Next ==
  \/ \E r \in Req : Lookup(r) \/ Name(r) \/ Cancel(r) \/ \E query \in Queries[r] : Begin(r, query)
  \/ \E p \in Provider : Close(p)
  \/ EvictSlot
  \/ Mainline
  \/ Tick

Spec == Init /\ [][Next]_vars

----------------------------------------------------------------------------
(* Properties.                                                             *)

\* The answer is a remembered miss.
ByMiss(r) == At(r, "missing") /\ request'[r].pc = "idle"

\* Hints are for one visit (hints.rs): a lookup asks a provider as a hint only if a URL named
\* it, and it was named or won a lookup less than HINT_TTL ago. Serving the hash does not
\* make a provider a hint, and a failed probe renews nothing.
HintsAreRecent ==
  [][\A r \in Req : At(r, "hints") /\ request'[r].pc = "missing" =>
       \A p \in request'[r].queue : named[p] < HINT_TTL]_vars

\* A remembered miss is an honest answer: a lookup failed less than MISS_TTL ago, and since
\* then no lookup has found a provider that passed its probe (ProviderCache::missing).
MissIsHonest == [][\A r \in Req : ByMiss(r) => failed < MISS_TTL]_vars

\* A lookup that failed before a link named a provider does not block it (connection): a
\* request whose own URL names one is never answered by a remembered miss.
LinkIsNotBlocked == [][\A r \in Req : ByMiss(r) => ~request[r].linked]_vars

\* Changed names do not remain stale (MAX_CACHE_TTL): when every node has held the newest
\* packet for as long as a lookup and a packet in the cache last, requests are led by that
\* one only, though a lookup that began before may put an older packet in the place of a
\* newer one.
NamesCatchUp ==
  \A r \in Named : settled = Stale /\ Looks(r, "use") => lookup[r].seq = Newest
============================================================================
