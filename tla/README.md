# TLA+ models of iroh content discovery

This directory holds TLA+ modules for the concurrent and stateful parts of
`iroh-content-discovery`: what they promise, TLC configurations that check it on
small instances, and TLAPS proofs for every value of the constants. The models
are translated from the Rust sources; `PROJECT.json` maps every definition to
its lines, and lists the hazards, the runs, the mutants that show each property
can fail, the findings and the theorems.

## The system

An endpoint announces infohashes on Mainline from its UDP socket. Mainline only
stores an address, so the endpoint also puts a signed record, keyed by that
address, on *address-index servers*. A reader finds the address on Mainline and
the endpoint in the index. A gateway serves content over HTTP from endpoints
found that way.

| part | state | operations | talks to |
|---|---|---|---|
| store (`udp-addr-index/src/store.rs`) | entries, expiry index, counts per host | put, get, gc, eviction | called by the server under a mutex |
| server (`udp-addr-index/src/{lib,udp}.rs`) | store, token key, rate buckets, queue | Prepare, Put, Get | clients, by datagrams |
| client actor (`iroh-mainline-endpoint-discovery/src/udp.rs`) | servers, pending publishes and resolves | calls, packets, deadlines | servers, by datagrams; callers, by channels |
| discovery (`addr_index.rs`, `server_list.rs`) | newest signed list | refresh, lookup | Mainline; the client actor; the keeper, by a watch channel |
| lookup cache (`lookup_cache.rs`) | cached and pending lookups | get, insert, pending | callers of lookup |
| index keeper (`index_keeper.rs`) | record, servers seen, report permit, backoff | run, report, is_live, announce_indexed | workers, by shared state and watch channels |
| publisher (`publisher.rs`) | infohashes, workers, announced, published | add, remove, wait_published, the supervisor's loop | keeper and workers |
| pkarr publisher (`pkarr.rs`) | packets, generation, sequence number | set, remove, publish_all, wait_published, rounds | Mainline |
| signed list and its renewal (`server_list.rs`, `republisher.rs`) | the item, the renewal's timer | sign, put, retry, stop at a newer list | Mainline |
| resolver (`resolver.rs`) | queued peers and lookups under way | resolve, resolve_stream, resolve_continuously | Mainline, lookup cache |
| gateway: providers (`iroh-link-gateway/src/{lib,providers,hints,provider_cache}.rs`) | hints, confirmed providers, misses, open sources | connection: hints, miss, probes, discovery | resolver, endpoints |
| gateway: names (`pkarr_redirect.rs`) | cache of signed packets | redirect | Mainline |
| gateway: HTTP (`lib.rs`, `ranges.rs`) | none between requests | routes, collections, listings, ranges, bodies | browsers, providers |
| gateway process (`main.rs`, `background.rs`) | lock, files `stop`, `ready`, `index-list.pkarr` | acquire, bind, load, discover, store, shutdown | launcher, by files and locks; discovery |
| launcher (`bin/iroh-link-gateway-background.rs`) | launcher lock | start, stop, status | gateway process |
| debug pages, extension, packaging, server binary | see "Not modelled" | | |

What is hard about them: datagrams that are lost, repeated, late and out of
order, behind a NAT that moves the client; answers racing deadlines; servers that
restart with nothing; state read before an await and used after it (the keeper's
address, servers and time); wakeups through permits and watch channels; edits
while a round publishes; clocks that go back; limits and evictions; lookups that
wait for one another's lock and are dropped in the queue; nodes of Mainline that
answer with old signed items; probes, misses and hints of concurrent requests
racing into one memory; a provider that sends false sizes or stops in the middle;
processes killed between writing a file and the next.

What makes each correct: the store's indexes agree and its limits hold; a server
holds under a socket only what the client behind it built for it, recently; a
call's answer is true, complete unless it timed out, and always comes; the keeper
believes in its record no longer than a server keeps it, hears of every address
change, keeps its distance after failures and sleeps when there is nothing to do;
every registered infohash is announced; `wait_published` does not return early;
an older packet never wins; a stream of endpoints ends, complete and with bound
endpoints only; the servers in use follow the newest list heard of; what the
gateway remembers of providers and names is recent and never hides what a link
names; a body is exactly the bytes its headers promise; a link leads to what it
shows; what is called immutable never changes; a start, a stop and a stored list
mean what they say although processes are killed.

## Modules

* `Store` - the store as a value and its methods as operators: `remove_entries`,
  `gc`, `first`, `evict`, `insert`, `put`. An absent entry is `NoEntry`, an absent
  count 0. `put` returns a set of outcomes: the code evicts the first of the
  entries nearest to expiry in address order; the model any of them. Times are
  `0 .. U64Max` and the expiry saturates.
* `LocalIndex` - `put_local` and `get_local` over one store at any clock reading,
  since the system clock is not monotonic.
* `AddrMap` - the abstract specification: a bounded map whose entries expire.
* `StoreProofs`, `PublishProofs`, `PublisherProofs`, `PkarrProofs`,
  `ResolverProofs`, `LauncherProofs`, `GatewayProofs`, `ServingProofs` - the theorems,
  see "Proofs".
* `PublishProtocol` (extends `Store`) - one client actor and the servers. A
  server's step is the whole of `handle_packet` for one datagram, the actor's the
  whole of `handle_message`, `handle_packet` or `flush_expired`. `net` is the set
  of all datagrams ever sent: receiving does not remove one (duplication, delay,
  reordering) and nothing forces a receipt (loss). Rate-limited requests and
  full queues are losses. `mapping` is the NAT. A token is a record of what the
  keyed hash covers, with the server's incarnation as the key. A value is the
  call that built it and the address it was built for, which is what the signed
  record binds. `sent` and `puts` are history. Whether a built value is too long
  is a choice for the calls in `TooLong`.
* `IndexKeeper` - the keeper's loop, one action per stretch between awaits, and
  its surroundings: the address Mainline sees, the servers in use and the copies
  they store, which a server may lose at any moment: all of them by a restart, one
  by an eviction (`LoseCopies`; `lost` are the copies among `stored` that are gone).
  The keeper learns of neither. Moments are ages, advanced by `Tick` and capped where they no longer
  matter, so time has no bound. A publication reaches the servers the keeper saw
  or newer ones, since discovery updates the client before the watch channel. A
  failed publication may have stored the record.
* `Publisher` (extends `IndexKeeper`) - registration, the supervisor and the workers
  (`announce_indexed` inside `repeat_announcement`). The supervisor takes its snapshot
  of the infohashes under the lock, one action per branch of its `select!` and one for
  the start; the rest of the loop's body is an action of its own (`Supervise`), on the
  snapshot, so that calls of other threads and the workers come in between. Aborting a
  worker does not take its message out of the channel. Delays last any time.
* `PkarrPublisher` - edits (the insert and the count are two steps, as they are
  two mutexes), rounds under the lock, sequence numbers, cancelled callers whose
  put still arrives, and a waiter. `Newer`, `Land` and `Late` are Mainline.

* `LookupCache` - `AddrIndex::lookup` over the cache: one action per stretch
  between awaits (`LookupGet`, `LookupPend`, `LookupLocked`, `LookupAnswered`,
  `LookupFailed`). The queue of the lock of an address is kept as the lookups that
  are in front of each one; the one with none in front holds the lock. A record is its endpoint; `Home` is the address that it was signed for,
  so a copy at another address does not decode. Time is counted in ticks down to an
  expiry. The request itself is `PublishProtocol`'s lookup, reduced to its outcomes:
  any part of what the servers hold, also nothing, since those that hold a record may
  be silent until the deadline while others answer, or an error if none does.
* `Resolver` (extends `LookupCache`) - the three calls of the resolver with their
  slots and queue limit, the consumer that drops a stream, and a Mainline node that
  shuts down.
* `ServerListRenewal` - the signed list on Mainline and its renewal. A list is a
  number; their order is that of sequence number and bytes. Nodes hold lists of
  different age.
* `Discovery` (extends `ServerListRenewal`) - one refresh: the answers for the
  list (the code collects them and then accepts them in their order; the model keeps
  the list accepted so far), the stored copy, rendezvous, and then, in the code's order, the state, the
  client's servers and the watch channel.
* `GatewayProcess` (extends `Discovery`) - the process of the gateway from its lock
  to its drop, one action per system call that the launcher or a crash can see, and
  the discovery that it runs.
* `GatewayLauncher` (extends `GatewayProcess`) - start, stop and status. To find out
  whether a gateway runs the launcher takes its lock for a moment.
* `ProviderMemory` - hints, confirmed providers, misses and open sources of one
  hash, as operators on each structure. A list of providers is the entry of each one
  in it, with its time left and the providers before it. Other hashes push this one
  out.
* `PkarrRedirect` - the lookup of a key's packet: the cache, the first answer, the
  grace for newer ones. A packet is its sequence number.
* `Gateway` (extends `ProviderMemory` and `PkarrRedirect`) - concurrent requests:
  name, hints, miss, known providers, the race of the probes, the connection, the
  cached source. A probe passes or fails at any moment, every timeout is a choice,
  and a request may be dropped at each await. Statements between two awaits take no
  time, but other requests' statements come between them.
* `Ranges` - `ranges::select` as operators, with the bytes that a header names as
  the reference definition. The loop of `merge` is a recursive function over the sorted
  ranges, of which equal ones are one.
* `Serving` (extends `Ranges`) - routes, subdomains, collections, listings and the
  streamed body, for one request at a time. A path is the sequence of its segments,
  a blob its hash, a byte its offset, and what stands between the parts of a
  multipart body one symbol each. The Bao decoder is external (`Decodes`): a chunk
  verifies only if it is of the blob, and the last one only under the right size.
  Finding the provider or the packet of a key is `Gateway`'s part, and here a choice of
  success or error (404, 502 or 504). A browser (external) resolves "." and ".." in
  every URL that it is given (`Browsed`), which `Root::link` relies on for a path that
  begins with a slash; a URL that leaves the hash or the key gets `Elsewhere`.

`MC*` modules and `.cfg` files instantiate them.

## Runs

| run | checks | bounds |
|---|---|---|
| `local_index` | types; indexes agree; limits hold; evictions justified; implements `AddrMap` | 2 hosts x 3 ports, 2 entries, 2 per host, times 0..3, TTL 2 |
| `publish_protocol` | values under the address they were built for, stored while routable, true answers, one put per server | 1 server of 1 entry, 2 publishes, 2 ports, 1 restart, clock 0..2 of 1-tick buckets |
| `publish_resolve` | true answers, complete unless timed out, every call answered | 2 servers in changing lists, one of them empty, a publish and a lookup, clock 0..1 |
| `publisher` | types; a live record is held or was lost; addresses reach the keeper; retries keep their distance; published means announced | 2 infohashes, 2 addresses, 2 servers that are swapped, withdrawn and lose copies, 3 changes, any failures, prompt tasks |
| `publisher_liveness` | every infohash is announced or removed | 1 infohash, 2 addresses, 2 servers that are swapped and lose copies, 3 changes of which failures are some, prompt tasks |
| `keeper_spin` | **violated**: `NeverSpins` | refresh 2, TTL 3, retry 1 |
| `keeper_live` | **violated**: `GoesAheadOnlyIfHeld` | 1 address, lists {s1, s2} and {s2}, 2 changes |
| `pkarr_publisher` | types; rounds are newest; wait means published; Mainline never goes back | 2 names, 2 editors, 2 runners, 2 edits, sequence up to 3 over a clock of 1..2 |
| `resolver` | types; yields are bound; streams end; they end complete; requests are shared; answers are fresh | an endless stream and a call of `resolve`, 2 addresses in a cache of 1, TTL 2 and 1 for a miss, 1 lookup and 1 queued peer per stream, 2 batches; a server may be silent |
| `serving` | ranges are exact; the body is as promised; links lead to what they show; immutable never changes | a collection of 6 names, two of them with ".." or an empty segment, blobs of 5 and 0 bytes in chunks of 3, numbers up to 9, 2 parts per header |
| `gateway` | hints are recent; a miss is honest and blocks no link; names catch up | 2 requests (by key, by path), 2 providers (named by links, announced), 2 packets, hints live for 2 ticks, all else 1, 2 probes |
| `gateway_process` | stops only when asked; start means bound; the stored list survives; servers follow the newest list | 2 processes, a list of one server and its withdrawal, a malformed item, with and without rendezvous, 2 answers per lookup, 1 kill |

Why the bounds are enough. Two entries and two per host make the store refuse
for the host, evict for the whole, refresh in place and expire; the largest time
is within the TTL of several puts, so that expiries saturate. Three clock values
with buckets of one tick let a token be used in its bucket, in the next and after
it. Two ports and one entry per host make a put fail after a good token. Two
servers distinguish "one answered twice" from "both answered". Three changes let
an infohash be removed and registered again, a second one be registered or removed
between the supervisor's snapshot and its report, and an address, a set of servers or
a copy be lost and regained. Two edits over two names make an edit fall at every place
of a round that publishes the other. With one slot in the cache of lookups every
answer for one address evicts the other's, and two streams are enough for a queue
on a lock whose head fails or is dropped; one place for peers makes Mainline wait.
The collection of `serving` has a name that is both a file and a directory, a
directory with an index file and one below it, and a name each that browsers resolve
and that begins with a slash; a blob of 5 bytes ends within a
chunk; sizes of 0 to 8 are sent by the provider, and the numbers of a header reach
the largest one. In `gateway` a hint outlives a confirmation and a miss, both
providers can be probed at once, and a URL can name more providers than it may. In
`gateway_process` the second process starts while the first is going; with the
malformed item there are three kinds of answers, of which a lookup gets two.

Symmetry is used in safety runs only. Deadlock is checked where the system never
stops (`gateway`, `gateway_process`). `CHECK_DEADLOCK FALSE` is set where the
system may rightly stop: the bounded clock, edits and sequence numbers run out, streams end, and so may a browser.

Fairness. In `PublishProtocol`, time passes and the actor's loop takes its timer
branch: `tokio::select!` picks among ready branches at random, and an expired
deadline stays ready. No delivery is assumed. In `Publisher`, the keeper, the
supervisor and each worker are weakly fair, as tasks are on any tokio runtime, each
as a whole and not step by step. Strong fairness stands where a queue or chance gives
each waiter its turn: the semaphore of the announcements (`Pace`), and the messages
of the workers, of which `select!` takes one now and then whatever else is ready
(`SuperviseAnnounced`). Time passes (strongly fair, since a keeper that loops without
sleeping does not stop the clock). `Settles` limits failures to the bounded changes:
without it an adversary who fails the right call each time keeps an infohash
unannounced, which the code cannot help. `Prompt` makes tasks fast compared with a
tick, which stands for at least a minute, the longest random restart. The safety run
has any failures but prompt tasks; the runs of the findings have slow tasks as well,
and the theorems hold for any delays. In `Resolver`, requests
end, since they have a deadline, Mainline lookups end, and tasks run; a consumer
that keeps its stream polls it, and one that does not may drop it. Servers, time
and Mainline's answers are under no fairness.

What some properties leave out. `StartMeansBound` is about a start that waited, not
one that finds a gateway running at once, and it allows for one kill: if the
launcher is killed and the gateway that it started is killed too, after it wrote
`ready` and before it is looked at, a start can see a stale file.
`ImmutableNeverChanges` leaves out the URL of a root, see below. `NamesCatchUp`
allows a name to go back for as long as a lookup and a cached packet last.
`LiveRecordIsHeldOrLost` counts a copy that a server lost before its time by a restart
or an eviction, of which the keeper cannot know. `PublishedMeansAnnounced` is about the
infohashes of the supervisor's snapshot, and takes an announcement of an earlier
registration for one if its message was still in the channel at the removal, see below.
`AnswersAreFresh` bounds how long a miss is believed; it does not say that no server
held a record. `LinksLead` leaves out paths that a browser changes or that are no place
of their own: those with an empty segment, "." or "..", and a file that is named like a
directory with its slash; of files that share a name it is about the first.

## Findings

* `keeper_spin`. The keeper's timer is `failed + RETRY` while `failed` is set, and
  only a success clears it. If the change that made the failed publication due is
  undone before the retry, nothing is due, and the timer has passed: the loop runs
  without sleeping until the record's refresh. The comment at
  `index_keeper.rs:172` states the opposite.
* `keeper_live`. `is_live` compares the servers in use with those *asked* at the
  publication. One of them stored the record; if discovery later names only
  another, announcements go ahead though no server in use holds it. The comments
  at `index_keeper.rs:5` and `:88` and the crate's README say otherwise.

Also seen, and in line with what the code says of itself: a worker that waits
keeps waiting for the next publication even when its record becomes live again; a
publish whose `Stored` is late reports a timeout although the record is stored.
In the publisher, the gateway and the resolver:

* `wait_published` may return although an infohash that was registered between the
  supervisor's snapshot (`publisher.rs:181`) and its report (`:241`) is not announced,
  or one that was registered again while the message of its earlier announcement was
  in the channel (`:247`); `publisher.rs:149` speaks of all currently registered ones;
* a server that restarts or evicts our record is believed to hold it until the refresh;
* a lookup whose deadline passes with some servers silent finds nothing if the others
  have nothing, and that is remembered for as long as any miss;
* the bare URL of a collection's root waits five seconds for the collection to be
  read, and then serves the root's own bytes, marked `immutable`, where it otherwise
  shows the listing, although `lib.rs:732` says that such a response can never
  change; `ImmutableNeverChanges` without its condition on the tail fails there;
* a listing of names with empty segments can have dead links; names with "." or ".."
  lead to other places, also out of the collection; of files that share a name only the
  first is ever served;
* waiters for a lookup's lock ask one after the other when requests fail, and a
  stream that is not polled holds its lock;
* Mainline is asked at once when there is no hint and fewer candidates than probe
  slots; rounding to chunks fetches a chunk once for each disjoint range in it;
* a slow lookup records a miss after another one confirmed a provider; a hint that
  expires during a probe is revived when the probe passes; the redirect cache may
  go back to an older packet when requests race, until that one expires; one answer
  with a negative sequence number fails the lookup of a name;
* the launcher's look at the lock can make the gateway that it starts exit; a stop
  file written between a gateway's lock and its removal of old files is lost, and
  the stop times out; a newer list in the file is given up for an older one that
  Mainline answers with after a restart.

## Proofs

Every theorem holds for every value of the constants that satisfies the named
`ASSUME`s: finite sets of hosts and ports, periods and limits that are positive,
constants like `None` that are no other value. TLC evaluates them on every run. Each
invariant below was checked by TLC on its module's run before it was proved.

`StoreProofs` (first about the operators, then about one server): `StoreTypes`,
`StoreCorrect`, `StoreBounded`, `EvictionNeedsPressure`, and `StoreImplementsMap`,
the refinement of `AddrMap` with the entries as the map. The conjunction of types,
agreement of the indexes and limits is inductive. None of its parts is on its own:
`gc` drops the right entries only because the expiry index mirrors them, the counts
stay right only because a dropped entry was counted, and the host limit, which the
code tests on the counts, holds of the entries only because the counts are right. The
argument goes through the operators: dropping addresses with their expiries keeps
the indexes in agreement (`DropKeepsIndexes`, by cardinalities per host), which gives
`gc` and `evict`; inserting keeps them (`InsertKeepsIndexes`); `PutCases` splits `put`
into its outcomes and `PutGood` combines them. For the refinement, `LiveIsCollected`
shows that what `gc` leaves is what the map calls live, and `PutImplements` that each
outcome is a step of the map.

`PublishProofs`: `PutsAreBound`, `TokensExpire`, `PutsOnce`, `AnswersAreTrue`,
`CallsComplete`, `ServersStayGood`. The network only grows, so the invariant says what
a datagram in it proves (`Bound`): a token covers the address it was sent to and a
bucket that has begun, a `Stored` is backed by a put. An entry has its `Put` in the
network, sent less than two buckets before (`Sourced`, from the lemma `Buckets` on
`div`), and a pending call awaits every server that it asked and that has not answered
(`PublishBound`, `ResolveBound`). The proofs about the store are cited for each
server.

`PublisherProofs`: `PublisherTypes`, `LiveIsHeldOrLost`, `ReportsArrive`, `BackoffHolds`,
`PublishedIsAnnounced`, for any number of infohashes, losses, failures and delays. What is
needed beyond the properties is what the keeper remembers over an await: that the ages of
its record and of the copies go together, that a changed address leaves a permit or a
keeper that will still look, that failures and quiet time go together, and that what the
supervisor was told or will be told was announced, which takes a record (`Told`).

`PkarrProofs`: `PkarrTypes`, `RoundsNeverStale`, `MainlineOnlyGrows`, `WaitIsTrue`.
A larger sequence number signs a packet set no earlier; a round has one item per key,
newer than all that were put before it; each edit is counted once, by its caller; and a
generation that is called published, or a round without failure, stands for all edits
counted up to it (`Covered`).

`ResolverProofs`: `ResolverTypes`, `RequestsShared`, `AnswersFresh`, `YieldsBound`,
`StreamsComplete`. Of two users of a lock one is in front of the other, only users are in
a queue, and a lookup that asks has none in front; ages of cached answers and their
time left add up to at most their time to live, where the age of a record counts from
when a server last held it and that of a miss from the latest request that found one;
each peer named is resolved, waits or
is being looked up, and what was yielded is what was found.

`LauncherProofs`: `StopsAreAsked`, `ListSurvives`, `ServersFollow`, for any number of
processes and kills, and `StartIsBound`, for any number of processes and at most one
kill (two make it false, see above). The lock is exactly where a process or the
launcher is between taking and releasing it; a stop file beside a process that has
removed old ones was asked for; what is being written was accepted, so it decodes; the
list in use, or the one found so far by a refresh, is the newest heard of. For
`StartIsBound` there are two cases (`StartKnown`). Until the launcher is killed no
process runs but its child (`Alone`), so the file is the child's, though the child may
be killed. Once the launcher was killed others may run beside the child, but none can
be killed, so that after the removal of a stale file it is always that of the holder
of the lock (`Crowded`).

`GatewayProofs`: `LinksPass`, `HintsExpire`, `MissesAreHonest`, `NamesDoCatchUp`. The
age of a hint or a miss and the time that it has left add up to at most its time to
live. For links: while a request whose URL named a provider has not read the hints,
some hint is live - not its own in general, which others may push out, but an addition
always leaves its first provider, reading drops only what is dead, a win only renews,
and statements between two awaits take no time. For names: a packet in the cache or in
a lookup is the only one held, or the nodes have agreed for no longer than the packet
has been there (`Current`); this bounds how far a race of lookups can go back.

`ServingProofs`: `RangesExact`, `BodyPromised`, `LinksLeadThere`, `KeptNeverChanges`.

For ranges and bodies the invariant is `StreamInv`. A body under way (`Streams`) has
ranges within the blob with gaps between them; what was sent is ascending, lies before
all that is left, and with it is all that was asked for (`Splits`); and its length with
that of what is left, less what was sent of the part that is being sent, is the length
that the headers promised (`Counts`). `BodyIsPromised` alone is not inductive: it does
not say that a single range has no part headers and that several have one from the
beginning (`Marked`), on which the length of what is left depends. `StartStreams`,
`LeafStreams`, `EndStreams` and `LastStreams` are the steps of a body, and `NewStreams`
its beginning, from `SelectFacts`: a header selects everything, nothing if its parts name
nothing, or ranges that hold what they name. That rests on `SingleFacts` for one part and
`MergeFacts`, which follows the loop of `merge` with `ExtendFacts` for one turn: the
ranges so far have gaps, hold the bytes of those read, and the last one starts no later
than the next. A size is the blob's own because its last chunk verifies (`SizeIsVerified`).

For links and caching, `Inv` says that each answer is one that the route of its URL
gives, and under what the key names now if that is as before (`Answered`), and that a
redirect leads to a directory's path (`Settled`). `AnswerFacts` reads off an answer what
it says of the URL: the file, the directory or the index file at its place (`Place`).
`KeptNeverChanges` needs no more, since a response that is kept comes from a hash with a
path, whose answers do not depend on the key. For `LinksLeadThere`, `Aimed` says in
addition that the URL after a link has as its place what the link is to show; `LinkFacts`
shows that of every link of a listing that shows a plain path: such a path is what a browser
makes of its URL (`PlainFacts`, `BrowsedFacts`), and a directory that is listed has a name
below it (`DirBegins`), as then have all directories above. The theorem is
about all collections, of any depth and with any names; what it says of the links of names
that are not plain is nothing, since they can be dead (see "Findings").

What these proofs need of the recursive functions (`merge`, `multipart_length`,
`Segments`, `Resolve`) is proved by hand: the library's induction theorems take an operator, but
its principle of the least element (`WFMin`) takes a set. `SetInduction` and
`InductionUpTo` derive induction over a set of numbers from it, and `Recursion` that a
function defined by recursion exists. The assumptions are types of the constants, that
what stands for nothing is no other value, and `StringsAssumption`, that the empty string
is a string, which the provers do not know.

Only model-checked:

* liveness (`EveryCallIsAnswered`, `EveryHashIsAnnounced`, `StreamsEnd`), which is
  outside the prover's reach, like every use of ENABLED;
* the two findings.

Every other property of a run is a theorem.

## Not modelled

* The rate limiter's arithmetic: a refused request is a lost one, which the protocol
  tolerates anyway.
* Framing and padding of datagrams, DNS packets, host names, signatures: encoding
  and cryptography. A message is a record, a signed item what it binds.
* HTML, content types and headers other than those of caching, ranges and length;
  the sizes shown in listings, which a cache of their own serves; the debug pages,
  which render one lookup as it goes and keep nothing.
* The macOS agent of the launcher, which hands the process to `launchd`. Its
  install waits for the file `ready` too, and may see a stale one.
* Metrics, logging, the server's command line, packaging, the site and the browser
  extension, which rewrites URLs in the browser.

## Plan

All modules are free of RECURSIVE operators, and every safety property and action
property of the runs is a theorem. What could be added:

1. `wait_published` with the doc's own words, "all currently registered hashes", as a
   property that the two cases under "Also seen" violate.
2. The hazards without a property in `PROJECT.json`: a keeper whose record becomes live
   again while its workers wait, a process that starts with an older clock, and the
   buckets of the rate limiter.
