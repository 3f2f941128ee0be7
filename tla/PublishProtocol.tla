-------------------------- MODULE PublishProtocol --------------------------
(***************************************************************************)
(* The UDP protocol between one client actor                               *)
(* (iroh-mainline-endpoint-discovery/src/udp.rs) and the address-index     *)
(* servers it uses (udp-addr-index/src/udp.rs and lib.rs).                 *)
(*                                                                         *)
(* A publish asks every server to observe the client's socket (Prepare),   *)
(* builds a value for the socket a server reports, and sends it back with   *)
(* the server's token (Put). The client sits behind a NAT: each server     *)
(* sees one public socket, which may change at any time. Datagrams are     *)
(* lost, delayed, reordered and duplicated: `net` keeps every datagram     *)
(* ever sent, and receiving one does not remove it. A request refused by   *)
(* Server::allow_request, and a datagram dropped by a full queue, are lost *)
(* datagrams here. Transaction ids are random 64-bit numbers: two calls     *)
(* never share one, and nobody else sends one.                             *)
(***************************************************************************)
EXTENDS Store

CONSTANTS
  Server,      \* address-index servers
  Publish,     \* transaction ids of publish calls
  Resolve,     \* transaction ids of resolve calls
  TooLong,     \* the publish calls that may build values above MAX_VALUE_LEN
  First,       \* the resolve calls made by resolve_first
  BucketSecs,  \* Limits::token_bucket_secs
  Timeout,     \* Actor::timeout
  ServerLists, \* the sets of servers that callers configure
  MaxRestarts, \* bound: restarts of each server
  MaxClock,    \* bound: the clock
  None

ASSUME ValueAssumption == Value = Publish \X Addr /\ Oversize = {}
ASSUME TxAssumption == /\ Publish \cap Resolve = {}
                       /\ TooLong \subseteq Publish
                       /\ First \subseteq Resolve
ASSUME ListsAssumption == ServerLists \subseteq SUBSET Server
ASSUME TimesAssumption == /\ BucketSecs \in Nat /\ Timeout \in Nat /\ MaxRestarts \in Nat
                          /\ MaxClock \in Nat /\ MaxClock <= U64Max

\* PendingPublish, PendingResolve and what the calls return
PendingPublish == [too_large : BOOLEAN, awaiting : SUBSET Server, prepared : SUBSET Server,
                   stored : SUBSET Addr, deadline : Nat]
PendingResolve == [addr : Addr, awaiting : SUBSET Server, values : SUBSET Value,
                   responded : BOOLEAN, deadline : Nat]
CallResult == [result : {"Ok", "NoServers", "TooLarge", "Timeout"},
               set : (SUBSET Addr) \cup (SUBSET Value)]

ASSUME NoneAssumption == /\ None \notin PendingPublish \cup PendingResolve \cup CallResult
                         /\ None \notin Value

VARIABLES
  clock,     \* the time
  store,     \* Inner::store of each server
  key,       \* Inner::token_key of each server: its incarnation
  mapping,   \* the public socket each server sees the client at
  servers,   \* Actor::servers
  publishes, \* Actor::publishes
  resolves,  \* Actor::resolves
  answers,   \* what each call returned
  net,       \* the datagrams sent so far
  puts       \* the puts that servers accepted (history)

serverVars == <<store, key, puts>>
clientVars == <<servers, publishes, resolves, answers>>
vars == <<clock, store, key, mapping, servers, publishes, resolves, answers, net, puts>>

----------------------------------------------------------------------------
(* Wire types (udp-addr-index-proto).                                      *)

Prepare(tx, from, to) == [type |-> "Prepare", tx |-> tx, from |-> from, to |-> to]

\* `sent` is history: the wire format has no time.
Put(tx, from, to, token, value, sent) ==
  [type |-> "Put", tx |-> tx, from |-> from, to |-> to, token |-> token, value |-> value,
   sent |-> sent]

Get(tx, to, addr) == [type |-> "Get", tx |-> tx, to |-> to, addr |-> addr]

Prepared(tx, from, addr, token) ==
  [type |-> "Prepared", tx |-> tx, from |-> from, addr |-> addr, token |-> token]

Stored(tx, from, addr) == [type |-> "Stored", tx |-> tx, from |-> from, addr |-> addr]

Answer(tx, from, addr, value) ==
  [type |-> "Value", tx |-> tx, from |-> from, addr |-> addr, value |-> value]

Datagrams(type) == {m \in net : m.type = type}

----------------------------------------------------------------------------
(* The server.                                                             *)

BucketLen == IF BucketSecs = 0 THEN 1 ELSE BucketSecs

bucket(now) == now \div BucketLen

\* Mutant: a token that is not bound to the observed socket.
token_forAnyone(s, addr, b) == [server |-> s, key |-> key[s], bucket |-> b]

\* The keyed hash: equal only for the same server incarnation, address and bucket.
token_for(s, addr, b) == [server |-> s, key |-> key[s], addr |-> addr, bucket |-> b]

\* Mutant: a token that never expires.
verify_tokenForever(s, addr, token, now) ==
  \E b \in 0 .. bucket(now) : token = token_for(s, addr, b)

verify_token(s, addr, token, now) ==
  \/ token = token_for(s, addr, bucket(now))
  \/ bucket(now) >= 1 /\ token = token_for(s, addr, bucket(now) - 1)

ServePrepare(s, m) ==
  /\ net' = net \cup {Prepared(m.tx, s, m.from, token_for(s, m.from, bucket(clock)))}
  /\ UNCHANGED <<clock, store, key, mapping, servers, publishes, resolves, answers, puts>>

\* Mutant: a put answered before its result is known.
ServePutAnswersFirst(s, m) ==
  /\ verify_token(s, m.from, m.token, clock)
  /\ \E o \in put(store[s], m.from, m.value, clock) :
       /\ store' = [store EXCEPT ![s] = o.store]
       /\ puts' = IF o.result = "Ok" THEN puts \cup {<<s, m.from, m.value>>} ELSE puts
       /\ net' = net \cup {Stored(m.tx, s, m.from)}
  /\ UNCHANGED <<clock, key, mapping, servers, publishes, resolves, answers>>

\* An accepted put is answered; a refused one is dropped, after the collection
\* of expired entries that every put does.
ServePut(s, m) ==
  /\ verify_token(s, m.from, m.token, clock)
  /\ \E o \in put(store[s], m.from, m.value, clock) :
       /\ store' = [store EXCEPT ![s] = o.store]
       /\ IF o.result = "Ok"
          THEN /\ puts' = puts \cup {<<s, m.from, m.value>>}
               /\ net' = net \cup {Stored(m.tx, s, m.from)}
          ELSE UNCHANGED <<puts, net>>
  /\ UNCHANGED <<clock, key, mapping, servers, publishes, resolves, answers>>

ServeGet(s, m) ==
  LET g == gc(store[s], clock)
      found == IF m.addr \in Held(g) THEN g.entries[m.addr].value ELSE None
  IN  /\ store' = [store EXCEPT ![s] = g]
      /\ net' = net \cup {Answer(m.tx, s, m.addr, found)}
      /\ UNCHANGED <<clock, key, mapping, servers, publishes, resolves, answers, puts>>

\* Server::handle_packet
Serve(s) ==
  \/ \E m \in Datagrams("Prepare") : m.to = s /\ ServePrepare(s, m)
  \/ \E m \in Datagrams("Put") : m.to = s /\ ServePut(s, m)
  \/ \E m \in Datagrams("Get") : m.to = s /\ ServeGet(s, m)

\* A new process: the store and the token key live in memory only.
Restart(s) ==
  /\ key[s] < MaxRestarts
  /\ key' = [key EXCEPT ![s] = @ + 1]
  /\ store' = [store EXCEPT ![s] = EmptyStore]
  /\ UNCHANGED <<clock, mapping, clientVars, net, puts>>

----------------------------------------------------------------------------
(* The client.                                                             *)

Called == {tx \in Publish \cup Resolve : \/ answers[tx] # None
                                         \/ tx \in Publish /\ publishes[tx] # None
                                         \/ tx \in Resolve /\ resolves[tx] # None}

\* The clock is bounded: calls are made while their deadline is within reach.
MayCall(tx) == tx \notin Called /\ clock + Timeout <= MaxClock

\* Ok(..) and Err(..) of a call
Returned(set) == [result |-> "Ok", set |-> set]
Failed(error) == [result |-> error, set |-> {}]

\* ActorMsg::Publish
StartPublish(tx) ==
  /\ MayCall(tx)
  /\ IF servers = {}
     THEN answers' = [answers EXCEPT ![tx] = Failed("NoServers")] /\ UNCHANGED <<net, publishes>>
     ELSE /\ net' = net \cup {Prepare(tx, mapping[s], s) : s \in servers}
          /\ publishes' = [publishes EXCEPT ![tx] =
               [too_large |-> FALSE, awaiting |-> servers, prepared |-> {}, stored |-> {},
                deadline |-> clock + Timeout]]
          /\ UNCHANGED answers
  /\ UNCHANGED <<clock, serverVars, mapping, servers, resolves>>

\* ActorMsg::Resolve
StartResolve(tx, addr) ==
  /\ MayCall(tx)
  /\ IF servers = {}
     THEN answers' = [answers EXCEPT ![tx] = Failed("NoServers")] /\ UNCHANGED <<net, resolves>>
     ELSE /\ net' = net \cup {Get(tx, s, addr) : s \in servers}
          /\ resolves' = [resolves EXCEPT ![tx] =
               [addr |-> addr, awaiting |-> servers, values |-> {}, responded |-> FALSE,
                deadline |-> clock + Timeout]]
          /\ UNCHANGED answers
  /\ UNCHANGED <<clock, serverVars, mapping, servers, publishes>>

\* ActorMsg::ReplaceServers, AddServer and RemoveServer
ReplaceServers(S) ==
  /\ servers' = S
  /\ UNCHANGED <<clock, serverVars, mapping, publishes, resolves, answers, net>>

\* The result of finish_publish for a pending publish p.
PublishResult(p) == IF p.stored # {} THEN Returned(p.stored)
                    ELSE Failed(IF p.too_large THEN "TooLarge" ELSE "Timeout")

\* finish_resolve
ResolveResult(r) == IF r.responded THEN Returned(r.values) ELSE Failed("Timeout")

\* Keeps a pending publish, or finishes it when no server is awaited.
UpdatePublish(tx, p) ==
  IF p.awaiting = {}
  THEN /\ publishes' = [publishes EXCEPT ![tx] = None]
       /\ answers' = [answers EXCEPT ![tx] = PublishResult(p)]
  ELSE publishes' = [publishes EXCEPT ![tx] = p] /\ UNCHANGED answers

SendPut(tx, s, addr, token) ==
  net' = net \cup {Put(tx, mapping[s], s, token, <<tx, addr>>, clock)}

\* Mutant: every Prepared is answered by a put, the repeated ones too.
HandlePreparedAgain(m) ==
  LET p == publishes[m.tx] IN
  /\ p # None
  /\ m.from \in p.awaiting
  /\ SendPut(m.tx, m.from, m.addr, m.token)
  /\ publishes' = [publishes EXCEPT ![m.tx].prepared = @ \cup {m.from}]
  /\ UNCHANGED <<clock, serverVars, mapping, servers, resolves, answers>>

\* Mutant: a prepared server counted as one that stored the value.
HandlePreparedCounts(m) ==
  LET p == publishes[m.tx] IN
  /\ p # None
  /\ m.from \in p.awaiting \ p.prepared
  /\ publishes' = [publishes EXCEPT ![m.tx].prepared = @ \cup {m.from},
                                    ![m.tx].stored = @ \cup {m.addr}]
  /\ SendPut(m.tx, m.from, m.addr, m.token)
  /\ UNCHANGED <<clock, serverVars, mapping, servers, resolves, answers>>

\* The first Prepared of an awaited server: build the value for the socket it saw
\* and send it with its token, from wherever the NAT maps the client by now.
HandlePrepared(m) ==
  LET p == publishes[m.tx] IN
  /\ p # None
  /\ m.from \in p.awaiting \ p.prepared
  /\ \/ /\ m.tx \in TooLong
        /\ UpdatePublish(m.tx, [p EXCEPT !.too_large = TRUE,
                                         !.prepared = @ \cup {m.from},
                                         !.awaiting = @ \ {m.from}])
        /\ UNCHANGED net
     \/ /\ publishes' = [publishes EXCEPT ![m.tx].prepared = @ \cup {m.from}]
        /\ SendPut(m.tx, m.from, m.addr, m.token)
        /\ UNCHANGED answers
  /\ UNCHANGED <<clock, serverVars, mapping, servers, resolves>>

HandleStored(m) ==
  LET p == publishes[m.tx] IN
  /\ p # None
  /\ m.from \in p.awaiting
  /\ UpdatePublish(m.tx, [p EXCEPT !.awaiting = @ \ {m.from}, !.stored = @ \cup {m.addr}])
  /\ UNCHANGED <<clock, serverVars, mapping, servers, resolves, net>>

\* accept(&value) of resolve_first: the value is a record signed for `addr`.
Accepts(tx, addr, value) == tx \in First /\ value[2] = addr

\* Mutant: the answer of one server ends the lookup.
HandleValueOfOne(m) ==
  LET r == resolves[m.tx]
      next == [r EXCEPT !.awaiting = @ \ {m.from}, !.responded = TRUE,
                        !.values = IF m.value = None THEN @ ELSE @ \cup {m.value}]
  IN  /\ r # None
      /\ r.addr = m.addr /\ m.from \in r.awaiting
      /\ resolves' = [resolves EXCEPT ![m.tx] = None]
      /\ answers' = [answers EXCEPT ![m.tx] = ResolveResult(next)]
      /\ UNCHANGED <<clock, serverVars, mapping, servers, publishes, net>>

HandleValue(m) ==
  LET r == resolves[m.tx]
      next == [r EXCEPT !.awaiting = @ \ {m.from}, !.responded = TRUE,
                        !.values = IF m.value = None THEN @ ELSE @ \cup {m.value}]
  IN  /\ r # None
      /\ r.addr = m.addr /\ m.from \in r.awaiting
      /\ IF next.awaiting = {} \/ (m.value # None /\ Accepts(m.tx, m.addr, m.value))
         THEN /\ resolves' = [resolves EXCEPT ![m.tx] = None]
              /\ answers' = [answers EXCEPT ![m.tx] = ResolveResult(next)]
         ELSE resolves' = [resolves EXCEPT ![m.tx] = next] /\ UNCHANGED answers
      /\ UNCHANGED <<clock, serverVars, mapping, servers, publishes, net>>

\* Actor::handle_packet
Receive ==
  \/ \E m \in Datagrams("Prepared") : HandlePrepared(m)
  \/ \E m \in Datagrams("Stored") : HandleStored(m)
  \/ \E m \in Datagrams("Value") : HandleValue(m)

Due(pending) == {tx \in DOMAIN pending : pending[tx] # None /\ pending[tx].deadline <= clock}

\* Mutant: a sweep that forgets the resolves.
flush_expiredPublishes ==
  /\ Due(publishes) # {}
  /\ publishes' = [tx \in Publish |-> IF tx \in Due(publishes) THEN None ELSE publishes[tx]]
  /\ answers' = [tx \in Publish \cup Resolve |->
                   IF tx \in Due(publishes) THEN PublishResult(publishes[tx]) ELSE answers[tx]]
  /\ UNCHANGED <<clock, serverVars, mapping, servers, resolves, net>>

flush_expired ==
  /\ Due(publishes) \cup Due(resolves) # {}
  /\ publishes' = [tx \in Publish |-> IF tx \in Due(publishes) THEN None ELSE publishes[tx]]
  /\ resolves' = [tx \in Resolve |-> IF tx \in Due(resolves) THEN None ELSE resolves[tx]]
  /\ answers' = [tx \in Publish \cup Resolve |->
                   IF tx \in Due(publishes) THEN PublishResult(publishes[tx])
                   ELSE IF tx \in Due(resolves) THEN ResolveResult(resolves[tx])
                   ELSE answers[tx]]
  /\ UNCHANGED <<clock, serverVars, mapping, servers, net>>

----------------------------------------------------------------------------
(* The world.                                                              *)

\* The NAT gives the client another public socket towards s.
Remap(s, addr) ==
  /\ mapping[s] # addr
  /\ mapping' = [mapping EXCEPT ![s] = addr]
  /\ UNCHANGED <<clock, serverVars, clientVars, net>>

Tick ==
  /\ clock < MaxClock
  /\ clock' = clock + 1
  /\ UNCHANGED <<serverVars, mapping, clientVars, net>>

Init ==
  /\ clock = 0
  /\ store = [s \in Server |-> EmptyStore]
  /\ key = [s \in Server |-> 0]
  /\ mapping \in [Server -> Addr]
  /\ servers = {}
  /\ publishes = [tx \in Publish |-> None]
  /\ resolves = [tx \in Resolve |-> None]
  /\ answers = [tx \in Publish \cup Resolve |-> None]
  /\ net = {}
  /\ puts = {}

Next ==
  \/ \E s \in Server : Serve(s) \/ Restart(s) \/ \E a \in Addr : Remap(s, a)
  \/ \E tx \in Publish : StartPublish(tx)
  \/ \E tx \in Resolve, a \in Addr : StartResolve(tx, a)
  \/ \E S \in ServerLists : ReplaceServers(S)
  \/ Receive
  \/ flush_expired
  \/ Tick

\* The actor's loop runs while the process lives, and time passes.
Fairness == WF_vars(Tick) /\ WF_vars(flush_expired)

Spec == Init /\ [][Next]_vars /\ Fairness

----------------------------------------------------------------------------
\* A server holds under an address only a value that was built for that very
\* address, whatever the NAT does between the Prepare, the Prepared and the Put,
\* and however late the datagrams arrive: records are signed for the address they
\* are stored under.
StoredUnderItsAddress ==
  \A s \in Server : \A a \in Held(store[s]) : store[s].entries[a].value[2] = a

\* A server stores a value only within two token buckets of a moment when the
\* client sent that value from that address: a delayed or duplicated Put does not
\* bring back a socket that the NAT took away earlier than that.
StoredWhileRoutable ==
  \A s \in Server : \A a \in Held(store[s]) :
    LET e == store[s].entries[a]
    IN  \E m \in Datagrams("Put") :
          /\ m.to = s /\ m.from = a /\ m.value = e.value
          /\ e.expires_at - Ttl < m.sent + 2 * BucketLen

\* publish returns an address only if a server accepted this call's value under it,
\* and resolve returns only values that a server accepted under the address asked
\* for, across restarts and late or repeated datagrams.
AnswersWereStored ==
  /\ \A tx \in Publish : answers[tx] # None /\ answers[tx].result = "Ok" =>
       /\ answers[tx].set # {}
       /\ \A a \in answers[tx].set : \E s \in Server : <<s, a, <<tx, a>>>> \in puts
  /\ \A tx \in Resolve : answers[tx] # None =>
       \A v \in answers[tx].set : \E m \in Datagrams("Get") :
         m.tx = tx /\ <<m.to, m.addr, v>> \in puts

\* One put per server and call, however often Prepared arrives (udp.rs:341).
OnePutPerServer ==
  \A m1, m2 \in Datagrams("Put") : m1.tx = m2.tx /\ m1.to = m2.to => m1 = m2

\* A call ends before its deadline only when every server that it asked has
\* answered it, or when resolve_first found a record signed for the address. A
\* server that answers twice does not stand in for one that has not answered, and
\* servers replaced meanwhile are still waited for.
EndsEarlyOnlyWhenComplete ==
  [][/\ \A tx \in Resolve :
          resolves[tx] # None /\ resolves'[tx] = None /\ clock < resolves[tx].deadline =>
            \/ {m.to : m \in {g \in Datagrams("Get") : g.tx = tx}}
                 = {m.from : m \in {g \in Datagrams("Value") : g.tx = tx}}
            \/ tx \in First /\ \E v \in answers'[tx].set : v[2] = resolves[tx].addr
     /\ \A tx \in Publish :
          publishes[tx] # None /\ publishes'[tx] = None /\ clock < publishes[tx].deadline =>
            {m.to : m \in {g \in Datagrams("Prepare") : g.tx = tx}}
              = {m.from : m \in {g \in Datagrams("Stored") : g.tx = tx}
                                \cup {g \in Datagrams("Prepared") : g.tx = tx /\ tx \in TooLong}}]_vars

\* Every publish and resolve is answered, though any datagram may be lost.
EveryCallIsAnswered ==
  \A tx \in Publish \cup Resolve : (tx \in Called) ~> (answers[tx] # None)
============================================================================
