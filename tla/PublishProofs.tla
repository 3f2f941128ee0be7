--------------------------- MODULE PublishProofs ---------------------------
(***************************************************************************)
(* The theorems about PublishProtocol, for any servers, calls, addresses,   *)
(* limits and bounds. The network is the set of all datagrams sent, which   *)
(* only grows, so most of the invariant says what a datagram in it proves.  *)
(***************************************************************************)
EXTENDS PublishProtocol, StoreProofs

\* Every server's store keeps its indexes and limits, though all datagrams may be repeated.
Types ==
  /\ clock \in 0 .. MaxClock
  /\ key \in [Server -> Nat] /\ mapping \in [Server -> Addr] /\ servers \in SUBSET Server
  /\ store \in [Server -> Stores] /\ \A s \in Server : Good(store[s])
  /\ publishes \in [Publish -> PendingPublish \cup {None}]
  /\ resolves \in [Resolve -> PendingResolve \cup {None}]
  /\ answers \in [Publish \cup Resolve -> CallResult \cup {None}]
  /\ puts \subseteq Server \X Addr \X Value

Asked(tx, s) == \E m \in net : m.type = "Prepare" /\ m.tx = tx /\ m.to = s

Sought(tx, s, addr) == \E m \in net : m.type = "Get" /\ m.tx = tx /\ m.to = s /\ m.addr = addr

\* Where a datagram comes from and what it proves.
Bound(m) ==
  /\ m.type = "Prepare" => m.tx \in Publish /\ m.to \in Server /\ m.from \in Addr
  /\ m.type = "Prepared" => /\ m.tx \in Publish /\ m.from \in Server /\ m.addr \in Addr
                            /\ Asked(m.tx, m.from)
                            /\ m.token.addr = m.addr /\ m.token.bucket \in 0 .. bucket(clock)
  /\ m.type = "Put" => /\ m.tx \in Publish /\ m.to \in Server /\ m.from \in Addr
                       /\ Asked(m.tx, m.to)
                       /\ m.token.addr \in Addr /\ m.value = <<m.tx, m.token.addr>>
                       /\ m.sent \in 0 .. clock /\ m.token.bucket \in 0 .. bucket(m.sent)
  /\ m.type = "Get" => m.tx \in Resolve /\ m.to \in Server /\ m.addr \in Addr
  /\ m.type = "Stored" => /\ m.tx \in Publish /\ m.from \in Server /\ m.addr \in Addr
                          /\ Asked(m.tx, m.from)
                          /\ <<m.from, m.addr, <<m.tx, m.addr>>>> \in puts
  /\ m.type = "Value" => /\ m.tx \in Resolve /\ m.from \in Server /\ m.addr \in Addr
                         /\ Sought(m.tx, m.from, m.addr)
                         /\ m.value # None => <<m.from, m.addr, m.value>> \in puts

NetBound == \A m \in net : Bound(m)

\* Where an entry comes from: a put that was sent for its address not long before.
Sourced(s, a, e) ==
  /\ e.value[2] = a /\ <<s, a, e.value>> \in puts
  /\ \E m \in net : /\ m.type = "Put" /\ m.to = s /\ m.from = a /\ m.value = e.value
                    /\ e.expires_at - Ttl < m.sent + 2 * BucketLen

StoreBound == \A s \in Server, a \in Addr :
                \A e \in {store[s].entries[a]} \ {NoEntry} : Sourced(s, a, e)

\* Server s needs no more waiting for in publish tx.
Settled(tx, s) == \E m \in net : /\ m.type = "Stored" \/ (m.type = "Prepared" /\ tx \in TooLong)
                                 /\ m.tx = tx /\ m.from = s

Answered(tx, s) == \E m \in net : m.type = "Value" /\ m.tx = tx /\ m.from = s

\* What a publish call knows of the datagrams that carry its id.
PublishBound(tx) ==
  /\ \A m \in net : m.tx = tx /\ m.type \in {"Prepare", "Put"} =>
       publishes[tx] # None \/ answers[tx] # None
  /\ publishes[tx] # None =>
       /\ \A a \in publishes[tx].stored : \E s \in Server : <<s, a, <<tx, a>>>> \in puts
       /\ \A m \in net : m.type = "Put" /\ m.tx = tx => m.to \in publishes[tx].prepared
       /\ \A s \in Server : Asked(tx, s) => s \in publishes[tx].awaiting \/ Settled(tx, s)
  /\ answers[tx] # None /\ answers[tx].result = "Ok" =>
       /\ answers[tx].set # {}
       /\ \A a \in answers[tx].set : \E s \in Server : <<s, a, <<tx, a>>>> \in puts

\* A value that answers the lookup tx.
Found(tx, v) == \E s \in Server, a \in Addr : Sought(tx, s, a) /\ <<s, a, v>> \in puts

ResolveBound(tx) ==
  /\ \A m \in net : m.tx = tx /\ m.type = "Get" => resolves[tx] # None \/ answers[tx] # None
  /\ resolves[tx] # None =>
       /\ \A v \in resolves[tx].values : Found(tx, v)
       /\ \A s \in Server, a \in Addr : Sought(tx, s, a) =>
            s \in resolves[tx].awaiting \/ Answered(tx, s)
  /\ answers[tx] # None => \A v \in answers[tx].set : Found(tx, v)

CallsBound == /\ \A tx \in Publish : PublishBound(tx)
              /\ \A tx \in Resolve : ResolveBound(tx)

IInv == Types /\ NetBound /\ StoreBound /\ CallsBound /\ OnePutPerServer
----------------------------------------------------------------------------
\* The buckets of Server::bucket: they grow with time, and a put accepted with a token of
\* this bucket or the one before comes within two bucket lengths of the token.
LEMMA Buckets ==
  /\ \A a \in Nat : bucket(a) \in Nat
  /\ \A a, b \in Nat : a <= b => bucket(a) <= bucket(b)
  /\ \A a, b \in Nat : bucket(b) <= bucket(a) + 1 => b < a + 2 * BucketLen
<1>0. BucketLen \in Nat /\ BucketLen > 0
  BY TimesAssumption DEF BucketLen
<1>1. \A a \in Nat : /\ bucket(a) \in Nat
                     /\ bucket(a) * BucketLen <= a /\ a < (bucket(a) + 1) * BucketLen
  BY <1>0 DEF bucket
<1>2. ASSUME NEW a \in Nat, NEW b \in Nat, a <= b PROVE bucket(a) <= bucket(b)
  <2> SUFFICES ASSUME bucket(a) >= bucket(b) + 1 PROVE FALSE
    BY <1>1
  <2>1. bucket(a) * BucketLen >= (bucket(b) + 1) * BucketLen
    BY <1>0, <1>1
  <2> QED
    BY <1>0, <1>1, <1>2, <2>1
<1>3. ASSUME NEW a \in Nat, NEW b \in Nat, bucket(b) <= bucket(a) + 1
      PROVE  b < a + 2 * BucketLen
  <2>1. (bucket(b) + 1) * BucketLen <= (bucket(a) + 2) * BucketLen
    BY <1>0, <1>1, <1>3
  <2>2. (bucket(a) + 2) * BucketLen = bucket(a) * BucketLen + 2 * BucketLen
    BY <1>0, <1>1
  <2> QED
    BY <1>0, <1>1, <2>1, <2>2
<1> QED
  BY <1>1, <1>2, <1>3

\* Times, datagrams and accepted puts are only added.
LEMMA Grows ==
  ASSUME [Next]_vars, Types
  PROVE  net \subseteq net' /\ puts \subseteq puts' /\ clock' \in 0 .. MaxClock /\ clock <= clock'
<1>0. clock \in 0 .. MaxClock /\ MaxClock \in Nat
  BY TimesAssumption DEF Types
<1>1. ASSUME NEW s \in Server, Serve(s) PROVE net \subseteq net' /\ puts \subseteq puts' /\ UNCHANGED clock
  BY <1>1 DEF Serve, ServePrepare, ServePut, ServeGet
<1>2. ASSUME NEW s \in Server, Restart(s) \/ \E a \in Addr : Remap(s, a) PROVE UNCHANGED <<net, puts, clock>>
  BY <1>2 DEF Restart, Remap, serverVars
<1>3. ASSUME NEW tx \in Publish, StartPublish(tx) PROVE net \subseteq net' /\ UNCHANGED <<puts, clock>>
  BY <1>3 DEF StartPublish, serverVars
<1>4. ASSUME NEW tx \in Resolve, NEW a \in Addr, StartResolve(tx, a)
      PROVE  net \subseteq net' /\ UNCHANGED <<puts, clock>>
  BY <1>4 DEF StartResolve, serverVars
<1>5. ASSUME NEW S \in ServerLists, ReplaceServers(S) PROVE UNCHANGED <<net, puts, clock>>
  BY <1>5 DEF ReplaceServers, serverVars
<1>6. CASE Receive
  <2>1. ASSUME NEW m, HandlePrepared(m) PROVE net \subseteq net' /\ UNCHANGED <<puts, clock>>
    BY <2>1 DEF HandlePrepared, SendPut, serverVars
  <2>2. ASSUME NEW m, HandleStored(m) PROVE UNCHANGED <<net, puts, clock>>
    BY <2>2 DEF HandleStored, serverVars
  <2>3. ASSUME NEW m, HandleValue(m) PROVE UNCHANGED <<net, puts, clock>>
    BY <2>3 DEF HandleValue, serverVars
  <2> QED
    BY <1>0, <1>6, <2>1, <2>2, <2>3 DEF Receive
<1>7. CASE flush_expired \/ Tick \/ UNCHANGED vars
  BY <1>0, <1>7 DEF flush_expired, Tick, vars, serverVars
<1> QED
  BY <1>0, <1>1, <1>2, <1>3, <1>4, <1>5, <1>6, <1>7 DEF Next

\* What the network and the accepted puts say once, they say for good.
LEMMA Stays ==
  ASSUME [Next]_vars, Types
  PROVE  /\ \A tx, s : (Asked(tx, s) => Asked(tx, s)') /\ (Settled(tx, s) => Settled(tx, s)')
                       /\ (Answered(tx, s) => Answered(tx, s)')
         /\ \A tx, s, a : Sought(tx, s, a) => Sought(tx, s, a)'
         /\ \A tx, v : Found(tx, v) => Found(tx, v)'
         /\ \A m \in net : Bound(m) => Bound(m)'
         /\ \A s, a, e : Sourced(s, a, e) => Sourced(s, a, e)'
<1>1. net \subseteq net' /\ puts \subseteq puts' /\ clock \in Nat /\ clock' \in Nat /\ clock <= clock'
  BY Grows, TimesAssumption DEF Types
<1>2. bucket(clock) \in Nat /\ bucket(clock') \in Nat /\ bucket(clock) <= bucket(clock')
  BY <1>1, Buckets
<1>3. \A tx, s : (Asked(tx, s) => Asked(tx, s)') /\ (Settled(tx, s) => Settled(tx, s)')
                 /\ (Answered(tx, s) => Answered(tx, s)')
  BY <1>1 DEF Asked, Settled, Answered
<1>4. \A tx, s, a : Sought(tx, s, a) => Sought(tx, s, a)'
  BY <1>1 DEF Sought
<1>5. \A tx, v : Found(tx, v) => Found(tx, v)'
  BY <1>1, <1>4 DEF Found
<1>6. ASSUME NEW m \in net, Bound(m) PROVE Bound(m)'
  <2>1. 0 .. bucket(clock) \subseteq 0 .. bucket(clock') /\ 0 .. clock \subseteq 0 .. clock'
    BY <1>1, <1>2
  <2>2. bucket(clock)' = bucket(clock')
    BY DEF bucket, BucketLen
  <2> QED
    BY <1>1, <1>3, <1>4, <1>6, <2>1, <2>2 DEF Bound
<1>7. \A s, a, e : Sourced(s, a, e) => Sourced(s, a, e)'
  BY <1>1 DEF Sourced
<1> QED
  BY <1>3, <1>4, <1>5, <1>6, <1>7
----------------------------------------------------------------------------
\* What finish_publish and finish_resolve answer.
LEMMA Results ==
  /\ \A p \in PendingPublish :
       /\ PublishResult(p) \in CallResult
       /\ PublishResult(p).result = "Ok" => p.stored # {} /\ PublishResult(p).set = p.stored
  /\ \A r \in PendingResolve : /\ ResolveResult(r) \in CallResult
                               /\ ResolveResult(r).set \subseteq r.values
                               /\ r.responded => ResolveResult(r).set = r.values
  /\ \A e \in {"NoServers", "TooLarge", "Timeout"} : /\ Failed(e) \in CallResult
                                                     /\ Failed(e).result = e /\ Failed(e).set = {}
<1>1. \A e \in {"NoServers", "TooLarge", "Timeout"} : /\ Failed(e) \in CallResult
                                                     /\ Failed(e).result = e /\ Failed(e).set = {}
  BY DEF Failed, CallResult
<1>2. \A S \in (SUBSET Addr) \cup (SUBSET Value) : /\ Returned(S) \in CallResult
                                               /\ Returned(S).set = S
  BY DEF Returned, CallResult
<1>3. ASSUME NEW p \in PendingPublish
      PROVE  /\ PublishResult(p) \in CallResult
             /\ PublishResult(p).result = "Ok" => p.stored # {} /\ PublishResult(p).set = p.stored
  <2>1. p.stored \in SUBSET Addr
    BY DEF PendingPublish
  <2>2. CASE p.stored # {}
    BY <1>2, <2>1, <2>2 DEF PublishResult
  <2>3. CASE p.stored = {}
    <3>1. PublishResult(p) = Failed("TooLarge") \/ PublishResult(p) = Failed("Timeout")
      BY <2>3 DEF PublishResult
    <3> QED
      BY <1>1, <3>1
  <2> QED
    BY <2>2, <2>3
<1>4. ASSUME NEW r \in PendingResolve
      PROVE  /\ ResolveResult(r) \in CallResult /\ ResolveResult(r).set \subseteq r.values
             /\ r.responded => ResolveResult(r).set = r.values
  <2>1. r.values \in SUBSET Value
    BY DEF PendingResolve
  <2>2. CASE r.responded
    <3>1. ResolveResult(r) = Returned(r.values)
      BY <2>2 DEF ResolveResult
    <3> QED
      BY <1>2, <2>1, <3>1
  <2>3. CASE ~r.responded
    <3>1. ResolveResult(r) = Failed("Timeout")
      BY <2>3 DEF ResolveResult
    <3> QED
      BY <1>1, <2>3, <3>1
  <2> QED
    BY <2>2, <2>3
<1> QED
  BY <1>1, <1>3, <1>4

\* What a Prepared does to its publish: it is remembered, and either the value is too long
\* and the server no more awaited, or the value is sent.
LEMMA PreparedEffect ==
  ASSUME Types, NEW m, m.tx \in Publish, HandlePrepared(m), NEW p, p = publishes[m.tx]
  PROVE  /\ p \in PendingPublish /\ m.from \in p.awaiting \ p.prepared
         /\ \E q \in PendingPublish :
              /\ q.prepared = p.prepared \cup {m.from} /\ q.stored = p.stored
              /\ \/ /\ m.tx \in TooLong /\ q.awaiting = p.awaiting \ {m.from}
                    /\ UpdatePublish(m.tx, q) /\ UNCHANGED net
                 \/ /\ q.awaiting = p.awaiting
                    /\ publishes' = [publishes EXCEPT ![m.tx] = q] /\ UNCHANGED answers
                    /\ SendPut(m.tx, m.from, m.addr, m.token)
<1>1. p \in PendingPublish /\ m.from \in p.awaiting \ p.prepared
  BY DEF HandlePrepared, Types
<1>0. p.prepared \cup {m.from} \in SUBSET Server /\ p.awaiting \ {m.from} \in SUBSET Server
  BY <1>1 DEF PendingPublish
<1>2. CASE /\ m.tx \in TooLong
           /\ UpdatePublish(m.tx, [p EXCEPT !.too_large = TRUE, !.prepared = @ \cup {m.from},
                                            !.awaiting = @ \ {m.from}])
           /\ UNCHANGED net
  <2> DEFINE x == [p EXCEPT !.too_large = TRUE]
             y == [x EXCEPT !.prepared = p.prepared \cup {m.from}]
             q == [y EXCEPT !.awaiting = p.awaiting \ {m.from}]
  <2>1. /\ x \in PendingPublish /\ x.prepared = p.prepared /\ x.stored = p.stored
        /\ x.awaiting = p.awaiting
    BY <1>1 DEF PendingPublish
  <2>2. [p EXCEPT !.too_large = TRUE, !.prepared = @ \cup {m.from}, !.awaiting = @ \ {m.from}] = q
    BY <1>1 DEF PendingPublish
  <2> HIDE DEF x
  <2>3. /\ y \in PendingPublish /\ y.stored = p.stored /\ y.awaiting = p.awaiting
        /\ y.prepared = p.prepared \cup {m.from}
    BY <1>0, <2>1 DEF PendingPublish
  <2> HIDE DEF y
  <2>4. /\ q \in PendingPublish /\ q.stored = p.stored /\ q.prepared = p.prepared \cup {m.from}
        /\ q.awaiting = p.awaiting \ {m.from}
    BY <1>0, <2>3 DEF PendingPublish
  <2> QED
    BY <1>1, <1>2, <2>2, <2>4
<1>3. CASE /\ publishes' = [publishes EXCEPT ![m.tx].prepared = @ \cup {m.from}]
           /\ SendPut(m.tx, m.from, m.addr, m.token)
           /\ UNCHANGED answers
  <2> DEFINE q == [p EXCEPT !.prepared = @ \cup {m.from}]
  <2>1. /\ q \in PendingPublish /\ q.stored = p.stored /\ q.prepared = p.prepared \cup {m.from}
        /\ q.awaiting = p.awaiting
    BY <1>0, <1>1 DEF PendingPublish
  <2>2. publishes' = [publishes EXCEPT ![m.tx] = q]
    BY <1>3
  <2> QED
    BY <1>1, <1>3, <2>1, <2>2
<1> QED
  BY <1>2, <1>3 DEF HandlePrepared

\* A Stored adds the address that the server saw, and the server is no more awaited.
LEMMA StoredEffect ==
  ASSUME Types, NEW m, m.tx \in Publish, m.addr \in Addr, HandleStored(m),
         NEW p, p = publishes[m.tx]
  PROVE  /\ p \in PendingPublish /\ m.from \in p.awaiting
         /\ \E q \in PendingPublish :
              /\ q.prepared = p.prepared /\ q.stored = p.stored \cup {m.addr}
              /\ q.awaiting = p.awaiting \ {m.from} /\ UpdatePublish(m.tx, q)
<1>1. p \in PendingPublish /\ m.from \in p.awaiting
  BY DEF HandleStored, Types
<1> DEFINE q == [p EXCEPT !.awaiting = @ \ {m.from}, !.stored = @ \cup {m.addr}]
<1>2. /\ q \in PendingPublish /\ q.prepared = p.prepared /\ q.stored = p.stored \cup {m.addr}
      /\ q.awaiting = p.awaiting \ {m.from}
  BY <1>1 DEF PendingPublish
<1> QED
  BY <1>1, <1>2 DEF HandleStored

\* A Value is added if there is one, and ends the lookup if it is the last or accepted.
LEMMA ValueEffect ==
  ASSUME Types, NEW m, m.tx \in Resolve, m.value # None => m.value \in Value, HandleValue(m),
         NEW r, r = resolves[m.tx]
  PROVE  /\ r \in PendingResolve /\ r.addr = m.addr /\ m.from \in r.awaiting
         /\ \E q \in PendingResolve :
              /\ q.awaiting = r.awaiting \ {m.from} /\ q.addr = r.addr
              /\ q.values = r.values \cup ({m.value} \ {None})
              /\ \/ /\ q.awaiting = {} \/ (m.value # None /\ Accepts(m.tx, m.addr, m.value))
                    /\ resolves' = [resolves EXCEPT ![m.tx] = None]
                    /\ answers' = [answers EXCEPT ![m.tx] = Returned(q.values)]
                 \/ resolves' = [resolves EXCEPT ![m.tx] = q] /\ UNCHANGED answers
<1>1. r \in PendingResolve /\ r.addr = m.addr /\ m.from \in r.awaiting
  BY DEF HandleValue, Types
<1> DEFINE V == IF m.value = None THEN r.values ELSE r.values \cup {m.value}
           x == [r EXCEPT !.awaiting = @ \ {m.from}]
           y == [x EXCEPT !.responded = TRUE]
           q == [y EXCEPT !.values = V]
           next == [r EXCEPT !.awaiting = @ \ {m.from}, !.responded = TRUE,
                             !.values = IF m.value = None THEN @ ELSE @ \cup {m.value}]
<1>2. V \in SUBSET Value /\ V = r.values \cup ({m.value} \ {None})
  BY <1>1 DEF PendingResolve
<1>3. x \in PendingResolve /\ x.awaiting = r.awaiting \ {m.from} /\ x.addr = r.addr
  BY <1>1 DEF PendingResolve
<1>4. next = q
  BY <1>1 DEF PendingResolve
<1> HIDE DEF x, V
<1>5. /\ y \in PendingResolve /\ y.awaiting = r.awaiting \ {m.from} /\ y.addr = r.addr
      /\ y.responded
  BY <1>3 DEF PendingResolve
<1> HIDE DEF y
<1>6. /\ q \in PendingResolve /\ q.awaiting = r.awaiting \ {m.from} /\ q.addr = r.addr
      /\ q.values = V
  BY <1>2, <1>5 DEF PendingResolve
<1>7. ResolveResult(q) = Returned(q.values)
  BY <1>2, <1>5 DEF PendingResolve, ResolveResult
<1> HIDE DEF q
<1>8. /\ IF q.awaiting = {} \/ (m.value # None /\ Accepts(m.tx, m.addr, m.value))
         THEN /\ resolves' = [resolves EXCEPT ![m.tx] = None]
              /\ answers' = [answers EXCEPT ![m.tx] = ResolveResult(q)]
         ELSE resolves' = [resolves EXCEPT ![m.tx] = q] /\ UNCHANGED answers
  BY <1>4 DEF HandleValue
<1> QED
  BY <1>1, <1>2, <1>6, <1>7, <1>8
LEMMA TypesStep ==
  ASSUME IInv, [Next]_vars PROVE Types'
<1>0. /\ Types /\ NetBound /\ clock' \in 0 .. MaxClock /\ clock \in Time /\ clock \in Nat
      /\ \A m \in net : Bound(m)
  BY Grows, TimesAssumption, LimitsAssumption DEF IInv, Types, Time, NetBound
<1> DEFINE ServerTypes == /\ key' \in [Server -> Nat] /\ puts' \subseteq Server \X Addr \X Value
                          /\ store' \in [Server -> Stores] /\ \A s \in Server : Good(store'[s])
           ClientTypes == /\ publishes' \in [Publish -> PendingPublish \cup {None}]
                          /\ resolves' \in [Resolve -> PendingResolve \cup {None}]
                          /\ answers' \in [Publish \cup Resolve -> CallResult \cup {None}]
           OtherTypes == mapping' \in [Server -> Addr] /\ servers' \in SUBSET Server
<1>s. UNCHANGED serverVars => ServerTypes
  BY <1>0 DEF serverVars, Types
<1>c. UNCHANGED <<publishes, resolves, answers>> => ClientTypes
  BY <1>0 DEF Types
<1>o. UNCHANGED <<mapping, servers>> => OtherTypes
  BY <1>0 DEF Types
<1>q. ServerTypes /\ ClientTypes /\ OtherTypes => Types'
  BY <1>0 DEF Types
<1>g. ASSUME NEW s \in Server, NEW t, Good(t), store' = [store EXCEPT ![s] = t]
      PROVE  store' \in [Server -> Stores] /\ \A q \in Server : Good(store'[q])
  BY <1>0, <1>g DEF Types, Good
<1>1. ASSUME NEW s \in Server, NEW m \in net, m.type = "Prepare", ServePrepare(s, m)
      PROVE  Types'
  BY <1>1, <1>s, <1>c, <1>o, <1>q DEF ServePrepare, serverVars
<1>2. ASSUME NEW s \in Server, NEW m \in net, m.type = "Put", ServePut(s, m)
      PROVE  Types'
  <2>1. m.from \in Addr /\ m.value \in Value
    <3>1. /\ m.from \in Addr /\ m.tx \in Publish /\ m.token.addr \in Addr
          /\ m.value = <<m.tx, m.token.addr>>
      BY <1>0, <1>2 DEF Bound
    <3> QED
      BY <3>1, ValueAssumption
  <2>2. PICK o \in put(store[s], m.from, m.value, clock) :
          /\ store' = [store EXCEPT ![s] = o.store]
          /\ IF o.result = "Ok" THEN puts' = puts \cup {<<s, m.from, m.value>>} ELSE UNCHANGED puts
    BY <1>2 DEF ServePut
  <2>3. Good(o.store)
    BY <1>0, <2>1, PutGood DEF Types
  <2>4. puts' \subseteq Server \X Addr \X Value
    BY <1>0, <2>1, <2>2 DEF Types
  <2>5. UNCHANGED key
    BY <1>2 DEF ServePut
  <2>6. ServerTypes
    BY <1>0, <1>g, <2>2, <2>3, <2>4, <2>5 DEF Types
  <2> QED
    BY <1>2, <1>c, <1>o, <1>q, <2>6 DEF ServePut
<1>3. ASSUME NEW s \in Server, NEW m \in net, m.type = "Get", ServeGet(s, m)
      PROVE  Types'
  <2>1. Good(gc(store[s], clock))
    BY <1>0, GcGood DEF Types
  <2>2. ServerTypes
    BY <1>0, <1>3, <1>g, <2>1 DEF ServeGet, Types
  <2> QED
    BY <1>3, <1>c, <1>o, <1>q, <2>2 DEF ServeGet
<1>4. ASSUME NEW s \in Server, Restart(s) PROVE Types'
  <2>1. ServerTypes
    <3>1. store' \in [Server -> Stores] /\ \A q \in Server : Good(store'[q])
      BY <1>4, <1>g, EmptyGood DEF Restart
    <3>2. key' \in [Server -> Nat] /\ UNCHANGED puts
      BY <1>0, <1>4 DEF Restart, Types
    <3> QED
      BY <1>0, <3>1, <3>2 DEF Types
  <2> QED
    BY <1>4, <1>c, <1>o, <1>q, <2>1 DEF Restart, clientVars
<1>5. ASSUME NEW s \in Server, NEW a \in Addr, Remap(s, a) PROVE Types'
  <2>1. OtherTypes
    BY <1>0, <1>5 DEF Remap, clientVars, Types
  <2> QED
    BY <1>5, <1>s, <1>c, <1>q, <2>1 DEF Remap, clientVars
<1>6. ASSUME NEW tx \in Publish, StartPublish(tx) PROVE Types'
  <2> DEFINE p == [too_large |-> FALSE, awaiting |-> servers, prepared |-> {}, stored |-> {},
                   deadline |-> clock + Timeout]
  <2>1. p \in PendingPublish
    BY <1>0, TimesAssumption DEF PendingPublish, Types
  <2> HIDE DEF p
  <2>2. \/ publishes' = [publishes EXCEPT ![tx] = p] /\ UNCHANGED answers
        \/ answers' = [answers EXCEPT ![tx] = Failed("NoServers")] /\ UNCHANGED publishes
    BY <1>6 DEF StartPublish, p
  <2>3. ClientTypes
    BY <1>0, <1>6, <2>1, <2>2, Results DEF StartPublish, Types
  <2> QED
    BY <1>6, <1>s, <1>o, <1>q, <2>3 DEF StartPublish
<1>7. ASSUME NEW tx \in Resolve, NEW a \in Addr, StartResolve(tx, a) PROVE Types'
  <2> DEFINE p == [addr |-> a, awaiting |-> servers, values |-> {}, responded |-> FALSE,
                   deadline |-> clock + Timeout]
  <2>1. p \in PendingResolve
    BY <1>0, TimesAssumption DEF PendingResolve, Types
  <2> HIDE DEF p
  <2>2. \/ resolves' = [resolves EXCEPT ![tx] = p] /\ UNCHANGED answers
        \/ answers' = [answers EXCEPT ![tx] = Failed("NoServers")] /\ UNCHANGED resolves
    BY <1>7 DEF StartResolve, p
  <2>3. ClientTypes
    BY <1>0, <1>7, <2>1, <2>2, Results DEF StartResolve, Types
  <2> QED
    BY <1>7, <1>s, <1>o, <1>q, <2>3 DEF StartResolve
<1>8. ASSUME NEW S \in ServerLists, ReplaceServers(S) PROVE Types'
  <2>1. OtherTypes
    BY <1>0, <1>8, ListsAssumption DEF ReplaceServers, Types
  <2> QED
    BY <1>8, <1>s, <1>c, <1>q, <2>1 DEF ReplaceServers
<1>u. ASSUME NEW tx \in Publish, NEW q \in PendingPublish, UpdatePublish(tx, q), UNCHANGED resolves
      PROVE  ClientTypes
  BY <1>0, <1>u, Results DEF UpdatePublish, Types
<1>9. ASSUME NEW m \in net, m.type = "Prepared", HandlePrepared(m) PROVE Types'
  <2>1. m.tx \in Publish /\ UNCHANGED resolves
    BY <1>0, <1>9 DEF Bound, HandlePrepared
  <2>2. PICK q \in PendingPublish :
          \/ UpdatePublish(m.tx, q)
          \/ publishes' = [publishes EXCEPT ![m.tx] = q] /\ UNCHANGED answers
    BY <1>0, <1>9, <2>1, PreparedEffect
  <2>3. ClientTypes
    BY <1>0, <1>u, <2>1, <2>2 DEF Types
  <2> QED
    BY <1>9, <1>s, <1>o, <1>q, <2>3 DEF HandlePrepared
<1>10. ASSUME NEW m \in net, m.type = "Stored", HandleStored(m) PROVE Types'
  <2>1. m.tx \in Publish /\ m.addr \in Addr /\ UNCHANGED resolves
    BY <1>0, <1>10 DEF Bound, HandleStored
  <2>2. PICK q \in PendingPublish : UpdatePublish(m.tx, q)
    BY <1>0, <1>10, <2>1, StoredEffect
  <2>3. ClientTypes
    BY <1>0, <1>u, <2>1, <2>2 DEF Types
  <2> QED
    BY <1>10, <1>s, <1>o, <1>q, <2>3 DEF HandleStored
<1>11. ASSUME NEW m \in net, m.type = "Value", HandleValue(m) PROVE Types'
  <2>1. m.tx \in Resolve /\ (m.value # None => m.value \in Value) /\ UNCHANGED publishes
    BY <1>0, <1>11 DEF Bound, HandleValue, Types
  <2>2. PICK q \in PendingResolve :
              \/ /\ resolves' = [resolves EXCEPT ![m.tx] = None]
                 /\ answers' = [answers EXCEPT ![m.tx] = Returned(q.values)]
              \/ resolves' = [resolves EXCEPT ![m.tx] = q] /\ UNCHANGED answers
    BY <1>0, <1>11, <2>1, ValueEffect
  <2>3. Returned(q.values) \in CallResult
    <3>1. q.values \in SUBSET Value
      BY DEF PendingResolve
    <3> QED
      BY <3>1 DEF Returned, CallResult
  <2>4. ClientTypes
    BY <1>0, <2>1, <2>2, <2>3 DEF Types
  <2> QED
    BY <1>11, <1>s, <1>o, <1>q, <2>4 DEF HandleValue
<1>12. CASE flush_expired
  <2>1. \A tx \in Due(publishes) : publishes[tx] \in PendingPublish
    BY <1>0 DEF Due, Types
  <2>2. \A tx \in Due(resolves) : resolves[tx] \in PendingResolve
    BY <1>0 DEF Due, Types
  <2>3. publishes' \in [Publish -> PendingPublish \cup {None}]
    BY <1>0, <1>12 DEF flush_expired, Types
  <2>4. resolves' \in [Resolve -> PendingResolve \cup {None}]
    BY <1>0, <1>12 DEF flush_expired, Types
  <2>5. answers' \in [Publish \cup Resolve -> CallResult \cup {None}]
    BY <1>0, <1>12, <2>1, <2>2, Results DEF flush_expired, Types
  <2> QED
    BY <1>12, <1>s, <1>o, <1>q, <2>3, <2>4, <2>5 DEF flush_expired
<1>13. CASE Tick
  BY <1>13, <1>s, <1>c, <1>o, <1>q DEF Tick, clientVars
<1>14. CASE UNCHANGED vars
  BY <1>14, <1>s, <1>c, <1>o, <1>q DEF vars, serverVars
<1> QED
  BY <1>1, <1>2, <1>3, <1>4, <1>5, <1>6, <1>7, <1>8, <1>9, <1>10, <1>11, <1>12, <1>13, <1>14
     DEF Next, Serve, Receive, Datagrams
\* An accepted token was made for the socket that the put comes from, in this bucket or the
\* one before.
LEMMA TokenBinds ==
  ASSUME NEW s, NEW addr, NEW token, NEW now \in Nat, verify_token(s, addr, token, now)
  PROVE  /\ token.addr = addr
         /\ token.bucket = bucket(now) \/ token.bucket = bucket(now) - 1
<1>1. CASE token = token_for(s, addr, bucket(now))
  BY <1>1 DEF token_for
<1>2. CASE token = token_for(s, addr, bucket(now) - 1)
  BY <1>2 DEF token_for
<1> QED
  BY <1>1, <1>2 DEF verify_token

\* Which steps send, and what.
Sends(m) ==
  \/ \E s \in Server, d \in net : d.type = "Prepare" /\ d.to = s /\ ServePrepare(s, d)
       /\ m = Prepared(d.tx, s, d.from, token_for(s, d.from, bucket(clock)))
  \/ \E s \in Server, d \in net : d.type = "Put" /\ d.to = s /\ ServePut(s, d)
       /\ m = Stored(d.tx, s, d.from) /\ <<s, d.from, d.value>> \in puts'
  \/ \E s \in Server, d \in net : d.type = "Get" /\ d.to = s /\ ServeGet(s, d)
       /\ LET g == gc(store[s], clock)
          IN  m = Answer(d.tx, s, d.addr, IF d.addr \in Held(g) THEN g.entries[d.addr].value ELSE None)
  \/ \E tx \in Publish, s \in servers : StartPublish(tx) /\ m = Prepare(tx, mapping[s], s)
  \/ \E tx \in Resolve, a \in Addr, s \in servers : StartResolve(tx, a) /\ m = Get(tx, s, a)
  \/ \E d \in net : d.type = "Prepared" /\ HandlePrepared(d)
       /\ m = Put(d.tx, mapping[d.from], d.from, d.token, <<d.tx, d.addr>>, clock)

LEMMA NewDatagrams ==
  ASSUME [Next]_vars, NEW m \in net' \ net PROVE Sends(m)
<1>1. ASSUME NEW s \in Server, Serve(s) PROVE Sends(m)
  <2>1. ASSUME NEW d \in net, d.type = "Prepare", d.to = s, ServePrepare(s, d) PROVE Sends(m)
    BY <2>1 DEF ServePrepare, Sends
  <2>2. ASSUME NEW d \in net, d.type = "Put", d.to = s, ServePut(s, d) PROVE Sends(m)
    <3>1. m = Stored(d.tx, s, d.from) /\ <<s, d.from, d.value>> \in puts'
      BY <2>2 DEF ServePut
    <3> QED
      BY <2>2, <3>1 DEF Sends
  <2>3. ASSUME NEW d \in net, d.type = "Get", d.to = s, ServeGet(s, d) PROVE Sends(m)
    <3> DEFINE g == gc(store[s], clock)
    <3>1. m = Answer(d.tx, s, d.addr, IF d.addr \in Held(g) THEN g.entries[d.addr].value ELSE None)
      BY <2>3 DEF ServeGet
    <3> QED
      BY <2>3, <3>1 DEF Sends
  <2> QED
    BY <1>1, <2>1, <2>2, <2>3 DEF Serve, Datagrams
<1>2. ASSUME NEW tx \in Publish, StartPublish(tx) PROVE Sends(m)
  <2>1. PICK s \in servers : m = Prepare(tx, mapping[s], s)
    BY <1>2 DEF StartPublish
  <2> QED
    BY <1>2, <2>1 DEF Sends
<1>3. ASSUME NEW tx \in Resolve, NEW a \in Addr, StartResolve(tx, a) PROVE Sends(m)
  <2>1. PICK s \in servers : m = Get(tx, s, a)
    BY <1>3 DEF StartResolve
  <2> QED
    BY <1>3, <2>1 DEF Sends
<1>4. ASSUME NEW d \in net, d.type = "Prepared", HandlePrepared(d) PROVE Sends(m)
  <2>1. m = Put(d.tx, mapping[d.from], d.from, d.token, <<d.tx, d.addr>>, clock)
    BY <1>4 DEF HandlePrepared, SendPut
  <2> QED
    BY <1>4, <2>1 DEF Sends
<1>5. ASSUME NEW d \in net, HandleStored(d) \/ HandleValue(d) PROVE UNCHANGED net
  BY <1>5 DEF HandleStored, HandleValue
<1>6. ASSUME NEW s \in Server, Restart(s) \/ \E a \in Addr : Remap(s, a) PROVE UNCHANGED net
  BY <1>6 DEF Restart, Remap
<1>7. ASSUME NEW S \in ServerLists, ReplaceServers(S) PROVE UNCHANGED net
  BY <1>7 DEF ReplaceServers
<1>8. flush_expired \/ Tick \/ UNCHANGED vars => UNCHANGED net
  BY DEF flush_expired, Tick, vars
<1> QED
  BY <1>1, <1>2, <1>3, <1>4, <1>5, <1>6, <1>7, <1>8 DEF Next, Receive, Datagrams

LEMMA NetBoundStep ==
  ASSUME IInv, [Next]_vars PROVE NetBound'
<1>0. /\ Types /\ StoreBound /\ clock \in Nat /\ bucket(clock) \in Nat /\ clock \in Time
      /\ clock' \in Nat /\ clock <= clock' /\ bucket(clock) <= bucket(clock)'
      /\ net \subseteq net' /\ puts \subseteq puts' /\ \A m \in net : Bound(m)
  <2>1. /\ Types /\ StoreBound /\ NetBound /\ clock \in 0 .. MaxClock
    BY DEF IInv, Types
  <2>2. bucket(clock)' = bucket(clock')
    BY DEF bucket, BucketLen
  <2> QED
    BY <2>1, <2>2, Grows, Buckets, TimesAssumption, LimitsAssumption DEF Time, NetBound
<1> SUFFICES ASSUME NEW m \in net' PROVE Bound(m)'
  BY DEF NetBound
<1>1. CASE m \in net
  BY <1>0, <1>1, Stays
<1>2. ASSUME NEW s \in Server, NEW d \in net, d.type = "Prepare", d.to = s,
             m = Prepared(d.tx, s, d.from, token_for(s, d.from, bucket(clock)))
      PROVE  Bound(m)'
  <2>1. d.tx \in Publish /\ d.from \in Addr /\ Asked(d.tx, s)'
    BY <1>0, <1>2 DEF Bound, Asked
  <2>2. /\ m.type = "Prepared" /\ m.tx = d.tx /\ m.from = s /\ m.addr = d.from
        /\ m.token.addr = m.addr /\ m.token.bucket = bucket(clock)
    BY <1>2 DEF Prepared, token_for
  <2>3. bucket(clock) \in 0 .. bucket(clock)'
    BY <1>0 DEF bucket
  <2> QED
    BY <2>1, <2>2, <2>3 DEF Bound
<1>3. ASSUME NEW s \in Server, NEW d \in net, d.type = "Put", d.to = s, ServePut(s, d),
             m = Stored(d.tx, s, d.from), <<s, d.from, d.value>> \in puts'
      PROVE  Bound(m)'
  <2>1. /\ d.tx \in Publish /\ d.from \in Addr /\ d.value = <<d.tx, d.token.addr>>
        /\ Asked(d.tx, s)'
    BY <1>0, <1>3, Stays DEF Bound
  <2>2. d.token.addr = d.from
    BY <1>0, <1>3, TokenBinds DEF ServePut
  <2>3. m.type = "Stored" /\ m.tx = d.tx /\ m.from = s /\ m.addr = d.from
    BY <1>3 DEF Stored
  <2> QED
    BY <1>3, <2>1, <2>2, <2>3 DEF Bound
<1>4. ASSUME NEW s \in Server, NEW d \in net, d.type = "Get", d.to = s,
             NEW g, g = gc(store[s], clock),
             m = Answer(d.tx, s, d.addr, IF d.addr \in Held(g) THEN g.entries[d.addr].value ELSE None)
      PROVE  Bound(m)'
  <2>1. d.tx \in Resolve /\ d.addr \in Addr /\ Sought(d.tx, s, d.addr)'
    BY <1>0, <1>4 DEF Bound, Sought
  <2>2. m.type = "Value" /\ m.tx = d.tx /\ m.from = s /\ m.addr = d.addr
    BY <1>4 DEF Answer
  <2>3. ASSUME m.value # None PROVE <<s, d.addr, m.value>> \in puts
    <3>1. d.addr \in Held(g) /\ m.value = g.entries[d.addr].value
      BY <1>4, <2>3 DEF Answer
    <3>2. d.addr \in Held(store[s]) /\ g.entries[d.addr] = store[s].entries[d.addr]
      BY <1>0, <1>4, <3>1, GcKeeps DEF Types
    <3> QED
      BY <1>0, <2>1, <3>1, <3>2 DEF StoreBound, Sourced, Held
  <2> QED
    BY <1>0, <2>1, <2>2, <2>3 DEF Bound
<1>5. ASSUME NEW tx \in Publish, NEW s \in servers, m = Prepare(tx, mapping[s], s)
      PROVE  Bound(m)'
  BY <1>0, <1>5 DEF Bound, Prepare, Types
<1>6. ASSUME NEW tx \in Resolve, NEW a \in Addr, NEW s \in servers, m = Get(tx, s, a)
      PROVE  Bound(m)'
  BY <1>0, <1>6 DEF Bound, Get, Types
<1>7. ASSUME NEW d \in net, d.type = "Prepared",
             m = Put(d.tx, mapping[d.from], d.from, d.token, <<d.tx, d.addr>>, clock)
      PROVE  Bound(m)'
  <2>1. /\ d.tx \in Publish /\ d.from \in Server /\ d.addr \in Addr /\ Asked(d.tx, d.from)'
        /\ d.token.addr = d.addr /\ d.token.bucket \in 0 .. bucket(clock)
    BY <1>0, <1>7, Stays DEF Bound
  <2>2. /\ m.type = "Put" /\ m.tx = d.tx /\ m.to = d.from /\ m.from = mapping[d.from]
        /\ m.token = d.token /\ m.value = <<d.tx, d.addr>> /\ m.sent = clock
    BY <1>7 DEF Put
  <2>3. mapping[d.from] \in Addr /\ clock \in 0 .. clock'
    BY <1>0, <2>1 DEF Types
  <2>4. bucket(clock) = bucket(m.sent) /\ bucket(m.sent)' = bucket(m.sent)
    BY <2>2 DEF bucket, BucketLen
  <2> QED
    BY <2>1, <2>2, <2>3, <2>4 DEF Bound
<1> QED
  <2>1. CASE m \notin net
    <3>1. Sends(m)
      BY <2>1, NewDatagrams
    <3> QED
      BY <1>2, <1>3, <1>4, <1>5, <1>6, <1>7, <3>1 DEF Sends
  <2> QED
    BY <1>1, <2>1
LEMMA StoreBoundStep ==
  ASSUME IInv, [Next]_vars PROVE StoreBound'
<1>0. /\ Types /\ StoreBound /\ clock \in Nat /\ clock \in Time
      /\ net \subseteq net' /\ puts \subseteq puts' /\ \A m \in net : Bound(m)
  <2>1. /\ Types /\ StoreBound /\ NetBound /\ clock \in 0 .. MaxClock
    BY DEF IInv, Types
  <2> QED
    BY <2>1, Grows, TimesAssumption, LimitsAssumption DEF Time, NetBound
<1>1. CASE UNCHANGED store
  BY <1>0, <1>1, Stays DEF StoreBound
<1>2. ASSUME NEW s \in Server, NEW t, store' = [store EXCEPT ![s] = t],
             \A a \in Addr : \A e \in {t.entries[a]} \ {NoEntry} :
               store[s].entries[a] = e \/ Sourced(s, a, e)'
      PROVE  StoreBound'
  <2>1. store'[s] = t /\ \A q \in Server : q # s => store'[q] = store[q]
    BY <1>0, <1>2 DEF Types
  <2>2. ASSUME NEW q \in Server, NEW a \in Addr, NEW e \in {store'[q].entries[a]} \ {NoEntry}
        PROVE  Sourced(q, a, e)'
    <3>1. CASE store[q].entries[a] = e
      <4>1. Sourced(q, a, e)
        BY <1>0, <2>2, <3>1 DEF StoreBound
      <4> QED
        BY <1>0, <4>1, Stays
    <3>2. CASE q = s /\ store[q].entries[a] # e
      BY <1>2, <2>1, <2>2, <3>2
    <3> QED
      BY <2>1, <2>2, <3>1, <3>2
  <2> QED
    BY <2>2 DEF StoreBound
<1>3. ASSUME NEW s \in Server, NEW m \in net, m.type = "Put", m.to = s, ServePut(s, m)
      PROVE  StoreBound'
  <2>1. /\ m.tx \in Publish /\ m.from \in Addr /\ m.value = <<m.tx, m.token.addr>>
        /\ m.sent \in Nat /\ m.token.bucket \in 0 .. bucket(m.sent) /\ m.token.addr \in Addr
    <3>1. m.sent \in 0 .. clock
      BY <1>0, <1>3 DEF Bound
    <3>2. m.sent \in Nat
      BY <1>0, <3>1
    <3> QED
      BY <1>0, <1>3, <3>2 DEF Bound
  <2>2. /\ m.token.addr = m.from
        /\ m.token.bucket = bucket(clock) \/ m.token.bucket = bucket(clock) - 1
    BY <1>0, <1>3, TokenBinds DEF ServePut
  <2>3. clock < m.sent + 2 * BucketLen
    <3>1. bucket(clock) <= bucket(m.sent) + 1
      BY <1>0, <2>1, <2>2, Buckets
    <3> QED
      BY <1>0, <2>1, <3>1, Buckets
  <2>4. PICK o \in put(store[s], m.from, m.value, clock) :
          /\ store' = [store EXCEPT ![s] = o.store]
          /\ o.result = "Ok" => <<s, m.from, m.value>> \in puts'
    BY <1>3 DEF ServePut
  <2>5. OnlyAdds(store[s], o, m.from, m.value, clock)
    <3>1. m.value \in Value /\ Good(store[s])
      BY <1>0, <2>1, ValueAssumption DEF Types
    <3> QED
      BY <1>0, <2>1, <3>1, PutEntries
  <2>6. ASSUME NEW e, o.result = "Ok",
               e = [value |-> m.value, expires_at |-> SaturatingAdd(clock, Ttl)]
        PROVE  Sourced(s, m.from, e)'
    <3>1. e.value = m.value /\ e.value[2] = m.from
      BY <2>1, <2>2, <2>6
    <3>2. e.expires_at - Ttl < m.sent + 2 * BucketLen
      <4>1. BucketLen \in Nat
        BY TimesAssumption DEF BucketLen
      <4>2. SaturatingAdd(clock, Ttl) \in Nat /\ SaturatingAdd(clock, Ttl) <= clock + Ttl
        BY <1>0, LimitsAssumption DEF SaturatingAdd, Time
      <4>3. e.expires_at = SaturatingAdd(clock, Ttl)
        BY <2>6
      <4> QED
        BY <1>0, <2>1, <2>3, <4>1, <4>2, <4>3, LimitsAssumption
    <3>3. m \in net'
      BY <1>0
    <3>4. BucketLen' = BucketLen
      BY DEF BucketLen
    <3> QED
      BY <1>3, <2>4, <2>6, <3>1, <3>2, <3>3, <3>4 DEF Sourced
  <2> QED
    <3>1. ASSUME NEW a \in Addr, NEW e \in {o.store.entries[a]} \ {NoEntry}
          PROVE  store[s].entries[a] = e \/ Sourced(s, a, e)'
      BY <2>5, <2>6 DEF OnlyAdds, Held
    <3> QED
      BY <1>2, <2>4, <3>1
<1>4. ASSUME NEW s \in Server, NEW m, ServeGet(s, m) PROVE StoreBound'
  <2>1. PICK t : t = gc(store[s], clock)
    OBVIOUS
  <2>2. \A a \in Held(t) : t.entries[a] = store[s].entries[a]
    BY <1>0, <2>1, GcKeeps DEF Types
  <2> QED
    <3>1. store' = [store EXCEPT ![s] = t]
      BY <1>4, <2>1 DEF ServeGet
    <3>2. \A a \in Addr : \A e \in {t.entries[a]} \ {NoEntry} :
            store[s].entries[a] = e \/ Sourced(s, a, e)'
      BY <2>2 DEF Held
    <3> QED
      BY <1>2, <3>1, <3>2
<1>5. ASSUME NEW s \in Server, Restart(s) PROVE StoreBound'
  <2>1. PICK t : t = EmptyStore
    OBVIOUS
  <2>2. \A a \in Addr : t.entries[a] = NoEntry
    BY <2>1 DEF EmptyStore
  <2> QED
    <3>1. store' = [store EXCEPT ![s] = t]
      BY <1>5, <2>1 DEF Restart
    <3>2. \A a \in Addr : \A e \in {t.entries[a]} \ {NoEntry} :
            store[s].entries[a] = e \/ Sourced(s, a, e)'
      BY <2>2
    <3> QED
      BY <1>2, <3>1, <3>2
<1>6. ASSUME NEW s \in Server, NEW m, ServePrepare(s, m) PROVE UNCHANGED store
  BY <1>6 DEF ServePrepare
<1>7. ASSUME NEW s \in Server, NEW a \in Addr, Remap(s, a) PROVE UNCHANGED store
  BY <1>7 DEF Remap, serverVars
<1>8. ASSUME NEW tx, StartPublish(tx) \/ \E a \in Addr : StartResolve(tx, a) PROVE UNCHANGED store
  BY <1>8 DEF StartPublish, StartResolve, serverVars
<1>9. ASSUME NEW m, HandlePrepared(m) \/ HandleStored(m) \/ HandleValue(m) PROVE UNCHANGED store
  BY <1>9 DEF HandlePrepared, HandleStored, HandleValue, serverVars
<1>10. ASSUME NEW S, ReplaceServers(S) PROVE UNCHANGED store
  BY <1>10 DEF ReplaceServers, serverVars
<1>11. flush_expired \/ Tick \/ UNCHANGED vars => UNCHANGED store
  BY DEF flush_expired, Tick, vars, serverVars
<1> QED
  BY <1>1, <1>3, <1>4, <1>5, <1>6, <1>7, <1>8, <1>9, <1>10, <1>11 DEF Next, Serve, Receive, Datagrams

LEMMA OnePutStep ==
  ASSUME IInv, [Next]_vars PROVE OnePutPerServer'
<1>0. /\ Types /\ \A m \in net : Bound(m)
      /\ \A tx \in Publish : PublishBound(tx) /\ OnePutPerServer
  BY DEF IInv, NetBound, CallsBound
<1>1. ASSUME NEW m \in net' \ net, m.type = "Put"
      PROVE  /\ \A n \in net : n.type = "Put" => ~(n.tx = m.tx /\ n.to = m.to)
             /\ \A n \in net' \ net : n = m
  <2>1. Sends(m)
    BY <1>1, NewDatagrams
  <2>2. PICK d \in net : /\ d.type = "Prepared" /\ HandlePrepared(d)
                         /\ m = Put(d.tx, mapping[d.from], d.from, d.token, <<d.tx, d.addr>>, clock)
    <3>1. ASSUME NEW s, NEW d, m = Prepared(d.tx, s, d.from, token_for(s, d.from, bucket(clock)))
          PROVE  FALSE
      BY <1>1, <3>1 DEF Prepared
    <3>2. ASSUME NEW s, NEW d, m = Stored(d.tx, s, d.from) PROVE FALSE
      BY <1>1, <3>2 DEF Stored
    <3>3. ASSUME NEW s, NEW d, NEW v, m = Answer(d.tx, s, d.addr, v) PROVE FALSE
      BY <1>1, <3>3 DEF Answer
    <3>4. ASSUME NEW tx, NEW s, m = Prepare(tx, mapping[s], s) PROVE FALSE
      BY <1>1, <3>4 DEF Prepare
    <3>5. ASSUME NEW tx, NEW s, NEW a, m = Get(tx, s, a) PROVE FALSE
      BY <1>1, <3>5 DEF Get
    <3> QED
      BY <2>1, <3>1, <3>2, <3>3, <3>4, <3>5 DEF Sends
  <2>3. d.tx \in Publish
    BY <1>0, <2>2 DEF Bound
  <2>4. publishes[d.tx] # None /\ d.from \notin publishes[d.tx].prepared
    BY <2>2 DEF HandlePrepared
  <2>5. m.tx = d.tx /\ m.to = d.from
    BY <2>2 DEF Put
  <2>6. \A n \in net : n.type = "Put" /\ n.tx = d.tx => n.to \in publishes[d.tx].prepared
    BY <1>0, <2>3, <2>4 DEF PublishBound
  <2>7. \A n \in net' \ net : n = m
    BY <2>2 DEF HandlePrepared, SendPut
  <2> QED
    BY <2>4, <2>5, <2>6, <2>7
<1>2. ASSUME NEW m1 \in net', NEW m2 \in net', m1.type = "Put", m2.type = "Put",
             m1.tx = m2.tx, m1.to = m2.to
      PROVE  m1 = m2
  <2>1. CASE m1 \in net /\ m2 \in net
    BY <1>0, <1>2, <2>1 DEF OnePutPerServer, Datagrams, IInv
  <2>2. CASE m1 \notin net
    BY <1>1, <1>2, <2>2
  <2>3. CASE m2 \notin net
    BY <1>1, <1>2, <2>3
  <2> QED
    BY <2>1, <2>2, <2>3
<1> QED
  BY <1>2 DEF OnePutPerServer, Datagrams
\* A step that neither touches publish tx nor sends for it.
LEMMA PublishFrame ==
  ASSUME IInv, [Next]_vars, NEW tx \in Publish,
         publishes'[tx] = publishes[tx], answers'[tx] = answers[tx],
         \A m \in net' : m.tx = tx /\ m.type \in {"Prepare", "Put"} => m \in net
  PROVE  PublishBound(tx)'
<1>1. PublishBound(tx) /\ puts \subseteq puts' /\ \A s : Settled(tx, s) => Settled(tx, s)'
  BY Grows, Stays DEF IInv, CallsBound
<1>2. \A s : Asked(tx, s)' => Asked(tx, s)
  BY DEF Asked
<1> QED
  BY <1>1, <1>2 DEF PublishBound

\* A step that moves publish tx on to q, or ends it with q's result.
LEMMA PublishMoves ==
  ASSUME IInv, [Next]_vars, NEW tx \in Publish, publishes[tx] # None, NEW q \in PendingPublish,
         \A a \in q.stored : \E s \in Server : <<s, a, <<tx, a>>>> \in puts',
         \A m \in net' : m.type = "Put" /\ m.tx = tx => m.to \in q.prepared,
         \A s \in Server : Asked(tx, s)' => s \in q.awaiting \/ Settled(tx, s)',
         \/ publishes'[tx] = q /\ answers'[tx] = answers[tx]
         \/ publishes'[tx] = None /\ answers'[tx] = PublishResult(q)
  PROVE  PublishBound(tx)'
<1>1. PublishBound(tx) /\ puts \subseteq puts'
  BY Grows DEF IInv, CallsBound
<1>2. q # None /\ PublishResult(q) # None
  BY Results, NoneAssumption
<1>3. CASE publishes'[tx] = q /\ answers'[tx] = answers[tx]
  BY <1>1, <1>2, <1>3 DEF PublishBound
<1>4. CASE publishes'[tx] = None /\ answers'[tx] = PublishResult(q)
  BY <1>1, <1>2, <1>4, Results DEF PublishBound
<1> QED
  BY <1>3, <1>4

LEMMA PublishBoundStep ==
  ASSUME IInv, [Next]_vars, NEW tx \in Publish PROVE PublishBound(tx)'
<1>0. /\ Types /\ \A m \in net : Bound(m)
      /\ PublishBound(tx) /\ puts \subseteq puts'
      /\ publishes[tx] # None => publishes[tx] \in PendingPublish
  BY Grows DEF IInv, NetBound, CallsBound, Types
<1>k. \A s : Settled(tx, s) => Settled(tx, s)'
  BY <1>0, Stays
<1>f. CASE UNCHANGED <<publishes, answers, net>>
  BY <1>f, PublishFrame
<1>1. ASSUME NEW s \in Server, NEW d \in net,
             ServePrepare(s, d) \/ ServePut(s, d) \/ ServeGet(s, d)
      PROVE  PublishBound(tx)'
  <2>1. UNCHANGED <<publishes, answers>>
    BY <1>1 DEF ServePrepare, ServePut, ServeGet
  <2>2. ASSUME NEW m \in net' PROVE m \in net \/ m.type \notin {"Prepare", "Put"}
    <3>1. \/ m \in net
          \/ \E k : m = Prepared(d.tx, s, d.from, k)
          \/ m = Stored(d.tx, s, d.from)
          \/ \E v : m = Answer(d.tx, s, d.addr, v)
      BY <1>1 DEF ServePrepare, ServePut, ServeGet
    <3> QED
      BY <3>1 DEF Prepared, Stored, Answer
  <2> QED
    BY <2>1, <2>2, PublishFrame
<1>2. ASSUME NEW s \in Server, Restart(s) \/ \E a \in Addr : Remap(s, a) PROVE PublishBound(tx)'
  BY <1>2, <1>f DEF Restart, Remap, clientVars
<1>3. ASSUME StartPublish(tx) PROVE PublishBound(tx)'
  <2>1. \A m \in net : ~(m.tx = tx /\ m.type \in {"Prepare", "Put"})
    BY <1>0, <1>3 DEF StartPublish, MayCall, Called, PublishBound
  <2>2. publishes[tx] = None /\ answers[tx] = None
    BY <1>3 DEF StartPublish, MayCall, Called
  <2>3. CASE servers = {}
    <3>1. UNCHANGED <<net, publishes>> /\ answers'[tx] = Failed("NoServers")
      BY <1>0, <1>3, <2>3 DEF StartPublish, Types
    <3> QED
      BY <2>1, <2>2, <3>1, Results DEF PublishBound
  <2>4. CASE servers # {}
    <3> DEFINE p == [too_large |-> FALSE, awaiting |-> servers, prepared |-> {}, stored |-> {},
                     deadline |-> clock + Timeout]
    <3>1. publishes'[tx] = p /\ UNCHANGED answers
      BY <1>0, <1>3, <2>4 DEF StartPublish, Types
    <3>2. net' = net \cup {Prepare(tx, mapping[s], s) : s \in servers}
      BY <1>3, <2>4 DEF StartPublish
    <3>3. p # None
      <4>1. p \in PendingPublish
        BY <1>0, TimesAssumption DEF PendingPublish, Types
      <4> QED
        BY <4>1, NoneAssumption
    <3>4. p.awaiting = servers /\ p.stored = {}
      OBVIOUS
    <3>5. ASSUME NEW m \in net', m.tx = tx, m.type \in {"Prepare", "Put"}
          PROVE  m.type = "Prepare" /\ m.to \in servers
      BY <2>1, <3>2, <3>5 DEF Prepare
    <3>6. \A s : Asked(tx, s)' => s \in servers
      BY <3>5 DEF Asked
    <3> HIDE DEF p
    <3>7. \A m \in net' : ~(m.type = "Put" /\ m.tx = tx)
      BY <3>5
    <3> QED
      BY <2>2, <3>1, <3>3, <3>4, <3>6, <3>7 DEF PublishBound
  <2> QED
    BY <2>3, <2>4
<1>4. ASSUME NEW u \in Publish, u # tx, StartPublish(u) PROVE PublishBound(tx)'
  <2>1. publishes'[tx] = publishes[tx] /\ answers'[tx] = answers[tx]
    BY <1>0, <1>4 DEF StartPublish, Types
  <2>2. \A m \in net' : m \in net \/ m.tx = u
    BY <1>4 DEF StartPublish, Prepare
  <2> QED
    BY <1>4, <2>1, <2>2, PublishFrame
<1>5. ASSUME NEW u \in Resolve, NEW a \in Addr, StartResolve(u, a) PROVE PublishBound(tx)'
  <2>1. u # tx
    BY TxAssumption
  <2>2. publishes'[tx] = publishes[tx] /\ answers'[tx] = answers[tx]
    BY <1>0, <1>5, <2>1 DEF StartResolve, Types
  <2>3. \A m \in net' : m \in net \/ m.tx = u
    BY <1>5 DEF StartResolve, Get
  <2> QED
    BY <2>1, <2>2, <2>3, PublishFrame
<1>6. ASSUME NEW S, ReplaceServers(S) PROVE PublishBound(tx)'
  BY <1>6, <1>f DEF ReplaceServers
<1>7. ASSUME NEW d \in net, d.type = "Prepared", HandlePrepared(d) PROVE PublishBound(tx)'
  <2>0. d.tx \in Publish /\ d.from \in Server
    BY <1>0, <1>7 DEF Bound
  <2> DEFINE p == publishes[d.tx]
  <2>1. PICK q \in PendingPublish :
          /\ q.prepared = p.prepared \cup {d.from} /\ q.stored = p.stored
          /\ \/ /\ d.tx \in TooLong /\ q.awaiting = p.awaiting \ {d.from}
                /\ UpdatePublish(d.tx, q) /\ UNCHANGED net
             \/ /\ q.awaiting = p.awaiting
                /\ publishes' = [publishes EXCEPT ![d.tx] = q] /\ UNCHANGED answers
                /\ SendPut(d.tx, d.from, d.addr, d.token)
    BY <1>0, <1>7, <2>0, PreparedEffect
  <2>2. p # None
    BY <1>7 DEF HandlePrepared
  <2>3. \A m \in net' : m \in net \/ (m.type = "Put" /\ m.tx = d.tx /\ m.to = d.from)
    BY <2>1 DEF SendPut, Put
  <2>4. \/ publishes' = [publishes EXCEPT ![d.tx] = q] /\ UNCHANGED answers
        \/ /\ publishes' = [publishes EXCEPT ![d.tx] = None]
           /\ answers' = [answers EXCEPT ![d.tx] = PublishResult(q)]
    BY <2>1 DEF UpdatePublish
  <2>5. CASE d.tx # tx
    <3>1. publishes'[tx] = publishes[tx] /\ answers'[tx] = answers[tx]
      BY <1>0, <2>0, <2>4, <2>5 DEF Types
    <3> QED
      BY <2>3, <2>5, <3>1, PublishFrame
  <2>6. CASE d.tx = tx
    <3>1. \/ publishes'[tx] = q /\ answers'[tx] = answers[tx]
          \/ publishes'[tx] = None /\ answers'[tx] = PublishResult(q)
      BY <1>0, <2>4, <2>6 DEF Types
    <3>2. \A m \in net' : m.type = "Put" /\ m.tx = tx => m.to \in q.prepared
      BY <1>0, <2>1, <2>2, <2>3, <2>6 DEF PublishBound
    <3>3. \A a \in q.stored : \E s \in Server : <<s, a, <<tx, a>>>> \in puts'
      BY <1>0, <2>1, <2>2, <2>6 DEF PublishBound
    <3>4. ASSUME NEW s \in Server, Asked(tx, s)' PROVE s \in q.awaiting \/ Settled(tx, s)'
      <4>1. Asked(tx, s)
        BY <2>3, <3>4 DEF Asked
      <4>2. s \in p.awaiting \/ Settled(tx, s)'
        BY <1>0, <1>k, <2>2, <2>6, <4>1 DEF PublishBound
      <4>3. CASE UNCHANGED net /\ s = d.from /\ d.tx \in TooLong
        BY <1>7, <2>6, <4>3 DEF Settled
      <4> QED
        BY <2>1, <4>2, <4>3
    <3> QED
      BY <2>2, <2>6, <3>1, <3>2, <3>3, <3>4, PublishMoves
  <2> QED
    BY <2>5, <2>6
<1>8. ASSUME NEW d \in net, d.type = "Stored", HandleStored(d) PROVE PublishBound(tx)'
  <2>0. /\ d.tx \in Publish /\ d.from \in Server /\ d.addr \in Addr /\ UNCHANGED net
        /\ <<d.from, d.addr, <<d.tx, d.addr>>>> \in puts'
    BY <1>0, <1>8 DEF Bound, HandleStored
  <2> DEFINE p == publishes[d.tx]
  <2>1. PICK q \in PendingPublish :
          /\ q.prepared = p.prepared /\ q.stored = p.stored \cup {d.addr}
          /\ q.awaiting = p.awaiting \ {d.from} /\ UpdatePublish(d.tx, q)
    BY <1>0, <1>8, <2>0, StoredEffect
  <2>2. p # None
    BY <1>8 DEF HandleStored
  <2>4. \/ publishes' = [publishes EXCEPT ![d.tx] = q] /\ UNCHANGED answers
        \/ /\ publishes' = [publishes EXCEPT ![d.tx] = None]
           /\ answers' = [answers EXCEPT ![d.tx] = PublishResult(q)]
    BY <2>1 DEF UpdatePublish
  <2>5. CASE d.tx # tx
    <3>1. publishes'[tx] = publishes[tx] /\ answers'[tx] = answers[tx]
      BY <1>0, <2>0, <2>4, <2>5 DEF Types
    <3> QED
      BY <2>0, <3>1, PublishFrame
  <2>6. CASE d.tx = tx
    <3>1. \/ publishes'[tx] = q /\ answers'[tx] = answers[tx]
          \/ publishes'[tx] = None /\ answers'[tx] = PublishResult(q)
      BY <1>0, <2>4, <2>6 DEF Types
    <3>2. \A m \in net' : m.type = "Put" /\ m.tx = tx => m.to \in q.prepared
      BY <1>0, <2>0, <2>1, <2>2, <2>6 DEF PublishBound
    <3>3. \A a \in q.stored : \E s \in Server : <<s, a, <<tx, a>>>> \in puts'
      BY <1>0, <2>0, <2>1, <2>2, <2>6 DEF PublishBound
    <3>4. ASSUME NEW s \in Server, Asked(tx, s)' PROVE s \in q.awaiting \/ Settled(tx, s)'
      <4>1. Asked(tx, s)
        BY <2>0, <3>4 DEF Asked
      <4>2. s \in p.awaiting \/ Settled(tx, s)'
        BY <1>0, <1>k, <2>2, <2>6, <4>1 DEF PublishBound
      <4>3. CASE s = d.from
        BY <1>8, <2>0, <2>6, <4>3 DEF Settled
      <4> QED
        BY <2>1, <4>2, <4>3
    <3> QED
      BY <2>2, <2>6, <3>1, <3>2, <3>3, <3>4, PublishMoves
  <2> QED
    BY <2>5, <2>6
<1>9. ASSUME NEW d \in net, d.type = "Value", HandleValue(d) PROVE PublishBound(tx)'
  <2>1. d.tx # tx
    BY <1>0, <1>9, TxAssumption DEF Bound
  <2>2. UNCHANGED <<net, publishes>> /\ answers'[tx] = answers[tx]
    BY <1>0, <1>9, <2>1 DEF HandleValue, Types
  <2> QED
    BY <2>2, PublishFrame
<1>10. ASSUME flush_expired PROVE PublishBound(tx)'
  <2>1. UNCHANGED net
    BY <1>10 DEF flush_expired
  <2>2. tx \notin Due(resolves)
    BY <1>0, TxAssumption DEF Due, Types
  <2>3. CASE tx \in Due(publishes)
    <3>1. publishes'[tx] = None /\ answers'[tx] = PublishResult(publishes[tx])
      BY <1>10, <2>3 DEF flush_expired
    <3>2. publishes[tx] # None
      BY <2>3 DEF Due
    <3>3. \A s : Asked(tx, s)' => Asked(tx, s)
      BY <2>1 DEF Asked
    <3> QED
      BY <1>0, <1>k, <2>1, <3>1, <3>2, <3>3, PublishMoves DEF PublishBound
  <2>4. CASE tx \notin Due(publishes)
    <3>1. publishes'[tx] = publishes[tx] /\ answers'[tx] = answers[tx]
      BY <1>10, <2>2, <2>4 DEF flush_expired
    <3> QED
      BY <2>1, <3>1, PublishFrame
  <2> QED
    BY <2>3, <2>4
<1>11. CASE Tick \/ UNCHANGED vars
  BY <1>11, <1>f DEF Tick, clientVars, vars
<1> QED
  BY <1>1, <1>2, <1>3, <1>4, <1>5, <1>6, <1>7, <1>8, <1>9, <1>10, <1>11
     DEF Next, Serve, Receive, Datagrams
\* A step that neither touches lookup tx nor asks for it.
LEMMA ResolveFrame ==
  ASSUME IInv, [Next]_vars, NEW tx \in Resolve,
         resolves'[tx] = resolves[tx], answers'[tx] = answers[tx],
         \A m \in net' : m.tx = tx /\ m.type = "Get" => m \in net
  PROVE  ResolveBound(tx)'
<1>1. /\ ResolveBound(tx) /\ \A s : Answered(tx, s) => Answered(tx, s)'
      /\ \A v : Found(tx, v) => Found(tx, v)'
  BY Stays DEF IInv, CallsBound
<1>2. \A s, a : Sought(tx, s, a)' => Sought(tx, s, a)
  BY DEF Sought
<1> QED
  BY <1>1, <1>2 DEF ResolveBound

LEMMA ResolveBoundStep ==
  ASSUME IInv, [Next]_vars, NEW tx \in Resolve PROVE ResolveBound(tx)'
<1>0. /\ Types /\ \A m \in net : Bound(m)
      /\ ResolveBound(tx) /\ puts \subseteq puts'
      /\ resolves[tx] # None => resolves[tx] \in PendingResolve
  BY Grows DEF IInv, NetBound, CallsBound, Types
<1>k. /\ \A s : Answered(tx, s) => Answered(tx, s)'
      /\ \A v : Found(tx, v) => Found(tx, v)'
  BY <1>0, Stays
<1>f. CASE UNCHANGED <<resolves, answers, net>>
  BY <1>f, ResolveFrame
<1>1. ASSUME NEW s \in Server, NEW d \in net,
             ServePrepare(s, d) \/ ServePut(s, d) \/ ServeGet(s, d)
      PROVE  ResolveBound(tx)'
  <2>1. UNCHANGED <<resolves, answers>>
    BY <1>1 DEF ServePrepare, ServePut, ServeGet
  <2>2. ASSUME NEW m \in net' PROVE m \in net \/ m.type # "Get"
    <3>1. \/ m \in net
          \/ \E k : m = Prepared(d.tx, s, d.from, k)
          \/ m = Stored(d.tx, s, d.from)
          \/ \E v : m = Answer(d.tx, s, d.addr, v)
      BY <1>1 DEF ServePrepare, ServePut, ServeGet
    <3> QED
      BY <3>1 DEF Prepared, Stored, Answer
  <2> QED
    BY <2>1, <2>2, ResolveFrame
<1>2. ASSUME NEW s \in Server, Restart(s) \/ \E a \in Addr : Remap(s, a) PROVE ResolveBound(tx)'
  BY <1>2, <1>f DEF Restart, Remap, clientVars
<1>3. ASSUME NEW a \in Addr, StartResolve(tx, a) PROVE ResolveBound(tx)'
  <2>1. \A m \in net : ~(m.tx = tx /\ m.type = "Get")
    BY <1>0, <1>3 DEF StartResolve, MayCall, Called, ResolveBound
  <2>2. resolves[tx] = None /\ answers[tx] = None
    BY <1>3 DEF StartResolve, MayCall, Called
  <2>3. CASE servers = {}
    <3>1. UNCHANGED <<net, resolves>> /\ answers'[tx] = Failed("NoServers")
      BY <1>0, <1>3, <2>3 DEF StartResolve, Types
    <3> QED
      BY <2>1, <2>2, <3>1, Results DEF ResolveBound
  <2>4. CASE servers # {}
    <3> DEFINE p == [addr |-> a, awaiting |-> servers, values |-> {}, responded |-> FALSE,
                     deadline |-> clock + Timeout]
    <3>1. resolves'[tx] = p /\ UNCHANGED answers
      BY <1>0, <1>3, <2>4 DEF StartResolve, Types
    <3>2. net' = net \cup {Get(tx, s, a) : s \in servers}
      BY <1>3, <2>4 DEF StartResolve
    <3>3. p # None
      <4>1. p \in PendingResolve
        BY <1>0, TimesAssumption DEF PendingResolve, Types
      <4> QED
        BY <4>1, NoneAssumption
    <3>4. p.awaiting = servers /\ p.values = {}
      OBVIOUS
    <3>5. ASSUME NEW m \in net', m.tx = tx, m.type = "Get" PROVE m.to \in servers
      BY <2>1, <3>2, <3>5 DEF Get
    <3>6. \A s, b : Sought(tx, s, b)' => s \in servers
      BY <3>5 DEF Sought
    <3> HIDE DEF p
    <3> QED
      BY <2>2, <3>1, <3>3, <3>4, <3>6 DEF ResolveBound
  <2> QED
    BY <2>3, <2>4
<1>4. ASSUME NEW u \in Resolve, u # tx, NEW a \in Addr, StartResolve(u, a) PROVE ResolveBound(tx)'
  <2>1. resolves'[tx] = resolves[tx] /\ answers'[tx] = answers[tx]
    BY <1>0, <1>4 DEF StartResolve, Types
  <2>2. \A m \in net' : m \in net \/ m.tx = u
    BY <1>4 DEF StartResolve, Get
  <2> QED
    BY <1>4, <2>1, <2>2, ResolveFrame
<1>5. ASSUME NEW u \in Publish, StartPublish(u) PROVE ResolveBound(tx)'
  <2>1. u # tx
    BY TxAssumption
  <2>2. resolves'[tx] = resolves[tx] /\ answers'[tx] = answers[tx]
    BY <1>0, <1>5, <2>1 DEF StartPublish, Types
  <2>3. \A m \in net' : m \in net \/ m.tx = u
    BY <1>5 DEF StartPublish, Prepare
  <2> QED
    BY <2>1, <2>2, <2>3, ResolveFrame
<1>6. ASSUME NEW S, ReplaceServers(S) PROVE ResolveBound(tx)'
  BY <1>6, <1>f DEF ReplaceServers
<1>7. ASSUME NEW d \in net, d.type = "Prepared", HandlePrepared(d) PROVE ResolveBound(tx)'
  <2>1. d.tx \in Publish /\ d.tx # tx
    BY <1>0, <1>7, TxAssumption DEF Bound
  <2>2. UNCHANGED resolves /\ answers'[tx] = answers[tx]
    BY <1>0, <1>7, <2>1 DEF HandlePrepared, UpdatePublish, Types
  <2>3. \A m \in net' : m \in net \/ m.tx = d.tx
    BY <1>7 DEF HandlePrepared, SendPut, Put
  <2> QED
    BY <2>1, <2>2, <2>3, ResolveFrame
<1>8. ASSUME NEW d \in net, d.type = "Stored", HandleStored(d) PROVE ResolveBound(tx)'
  <2>1. d.tx # tx
    BY <1>0, <1>8, TxAssumption DEF Bound
  <2>2. UNCHANGED <<net, resolves>> /\ answers'[tx] = answers[tx]
    BY <1>0, <1>8, <2>1 DEF HandleStored, UpdatePublish, Types
  <2> QED
    BY <2>2, ResolveFrame
<1>9. ASSUME NEW d \in net, d.type = "Value", HandleValue(d) PROVE ResolveBound(tx)'
  <2>0. /\ d.tx \in Resolve /\ UNCHANGED net /\ d.from \in Server /\ d.addr \in Addr
        /\ Sought(d.tx, d.from, d.addr)
        /\ d.value # None => <<d.from, d.addr, d.value>> \in puts /\ d.value \in Value
    BY <1>0, <1>9 DEF Bound, HandleValue, Types
  <2> DEFINE r == resolves[d.tx]
  <2>1. PICK q \in PendingResolve :
          /\ q.awaiting = r.awaiting \ {d.from} /\ q.values = r.values \cup ({d.value} \ {None})
          /\ \/ /\ resolves' = [resolves EXCEPT ![d.tx] = None]
                /\ answers' = [answers EXCEPT ![d.tx] = Returned(q.values)]
             \/ resolves' = [resolves EXCEPT ![d.tx] = q] /\ UNCHANGED answers
    BY <1>0, <1>9, <2>0, ValueEffect
  <2>2. r # None
    BY <1>9 DEF HandleValue
  <2>3. CASE d.tx # tx
    <3>1. resolves'[tx] = resolves[tx] /\ answers'[tx] = answers[tx]
      BY <1>0, <2>0, <2>1, <2>3 DEF Types
    <3> QED
      BY <2>0, <3>1, ResolveFrame
  <2>4. CASE d.tx = tx
    <3>1. \A v \in q.values : Found(tx, v)'
      <4>1. d.value # None => Found(tx, d.value)
        BY <2>0, <2>4 DEF Found
      <4> QED
        BY <1>0, <1>k, <2>1, <2>2, <2>4, <4>1 DEF ResolveBound
    <3>2. Answered(tx, d.from)'
      BY <1>9, <2>0, <2>4 DEF Answered
    <3>3. \A s, a : Sought(tx, s, a)' => Sought(tx, s, a)
      BY <2>0 DEF Sought
    <3>4. \A s \in Server, a \in Addr : Sought(tx, s, a)' => s \in q.awaiting \/ Answered(tx, s)'
      BY <1>0, <1>k, <2>1, <2>2, <2>4, <3>2, <3>3 DEF ResolveBound
    <3>5. CASE resolves'[tx] = None /\ answers'[tx] = Returned(q.values)
      <4>1. Returned(q.values).set = q.values /\ Returned(q.values) \in CallResult
        BY DEF Returned, PendingResolve, CallResult
      <4> QED
        BY <3>1, <3>5, <4>1, NoneAssumption DEF ResolveBound
    <3>6. CASE resolves'[tx] = q /\ answers'[tx] = answers[tx]
      <4>1. q # None
        BY NoneAssumption
      <4> QED
        BY <1>0, <1>k, <3>1, <3>4, <3>6, <4>1 DEF ResolveBound
    <3> QED
      BY <1>0, <2>1, <2>4, <3>5, <3>6 DEF Types
  <2> QED
    BY <2>3, <2>4
<1>10. ASSUME flush_expired PROVE ResolveBound(tx)'
  <2>1. UNCHANGED net
    BY <1>10 DEF flush_expired
  <2>2. tx \notin Due(publishes)
    BY <1>0, TxAssumption DEF Due, Types
  <2>3. CASE tx \in Due(resolves)
    <3>1. resolves'[tx] = None /\ answers'[tx] = ResolveResult(resolves[tx])
      BY <1>10, <2>2, <2>3 DEF flush_expired
    <3>2. resolves[tx] \in PendingResolve /\ resolves[tx] # None
      BY <1>0, <2>3 DEF Due
    <3>3. /\ ResolveResult(resolves[tx]) \in CallResult
          /\ ResolveResult(resolves[tx]).set \subseteq resolves[tx].values
      BY <3>2, Results
    <3> QED
      BY <1>0, <1>k, <3>1, <3>2, <3>3, NoneAssumption DEF ResolveBound
  <2>4. CASE tx \notin Due(resolves)
    <3>1. resolves'[tx] = resolves[tx] /\ answers'[tx] = answers[tx]
      BY <1>10, <2>2, <2>4 DEF flush_expired
    <3> QED
      BY <2>1, <3>1, ResolveFrame
  <2> QED
    BY <2>3, <2>4
<1>11. CASE Tick \/ UNCHANGED vars
  BY <1>11, <1>f DEF Tick, clientVars, vars
<1> QED
  BY <1>1, <1>2, <1>3, <1>4, <1>5, <1>6, <1>7, <1>8, <1>9, <1>10, <1>11
     DEF Next, Serve, Receive, Datagrams

----------------------------------------------------------------------------
LEMMA InitGood == Init => IInv
<1> SUFFICES ASSUME Init PROVE IInv
  OBVIOUS
<1>1. Types
  <2>1. store \in [Server -> Stores] /\ \A s \in Server : Good(store[s])
    BY EmptyGood DEF Init, Good
  <2> QED
    BY <2>1, TimesAssumption DEF Init, Types
<1>2. NetBound /\ OnePutPerServer
  BY DEF Init, NetBound, OnePutPerServer, Datagrams
<1>3. StoreBound
  <2>1. \A s \in Server, a \in Addr : store[s].entries[a] = NoEntry
    BY DEF Init, EmptyStore
  <2> QED
    BY <2>1 DEF StoreBound
<1>4. CallsBound
  BY DEF Init, CallsBound, PublishBound, ResolveBound
<1> QED
  BY <1>1, <1>2, <1>3, <1>4 DEF IInv

\* IInv is inductive.
LEMMA AlwaysGood == Spec => []IInv
<1>1. IInv /\ [Next]_vars => IInv'
  <2> SUFFICES ASSUME IInv, [Next]_vars PROVE IInv'
    OBVIOUS
  <2>1. CallsBound'
    BY PublishBoundStep, ResolveBoundStep DEF CallsBound
  <2> QED
    BY <2>1, TypesStep, NetBoundStep, StoreBoundStep, OnePutStep DEF IInv
<1> QED
  BY <1>1, InitGood, PTL DEF Spec

\* The invariant of one entry.
LEMMA EntrySourced ==
  ASSUME IInv, NEW s \in Server, NEW a \in Held(store[s]) PROVE Sourced(s, a, store[s].entries[a])
<1>1. a \in Addr /\ store[s].entries[a] # NoEntry
  BY DEF Held
<1> QED
  BY <1>1 DEF IInv, StoreBound

\* No server ever holds a value under another address than the one it was built for:
\* the token ties the Put to the socket that the server observed (verify_token).
THEOREM PutsAreBound == Spec => []StoredUnderItsAddress
<1>1. ASSUME IInv PROVE StoredUnderItsAddress
  <2>1. ASSUME NEW s \in Server, NEW a \in Held(store[s])
        PROVE  store[s].entries[a].value[2] = a
    <3>1. Sourced(s, a, store[s].entries[a])
      BY <1>1, EntrySourced
    <3> QED
      BY <3>1 DEF Sourced
  <2> QED
    BY <2>1 DEF StoredUnderItsAddress
<1> QED
  BY <1>1, AlwaysGood, PTL

\* What a server holds was sent from its address less than two token buckets before it was
\* stored, for every bucket length, restart, delay and repetition.
THEOREM TokensExpire == Spec => []StoredWhileRoutable
<1>1. IInv => StoredWhileRoutable
  BY EntrySourced DEF Sourced, StoredWhileRoutable, Datagrams
<1> QED
  BY <1>1, AlwaysGood, PTL

\* A call sends one Put to a server at most (PendingPublish::prepared).
THEOREM PutsOnce == Spec => []OnePutPerServer
<1>1. IInv => OnePutPerServer
  BY DEF IInv
<1> QED
  BY <1>1, AlwaysGood, PTL

\* publish and resolve return only what a server accepted.
THEOREM AnswersAreTrue == Spec => []AnswersWereStored
<1>1. ASSUME IInv PROVE AnswersWereStored
  <2>1. \A tx \in Publish : PublishBound(tx)
    BY <1>1 DEF IInv, CallsBound
  <2>2. ASSUME NEW tx \in Resolve, answers[tx] # None, NEW v \in answers[tx].set
        PROVE  \E m \in Datagrams("Get") : m.tx = tx /\ <<m.to, m.addr, v>> \in puts
    <3>1. Found(tx, v)
      BY <1>1, <2>2 DEF IInv, CallsBound, ResolveBound
    <3> QED
      BY <3>1 DEF Found, Sought, Datagrams
  <2> QED
    BY <2>1, <2>2 DEF AnswersWereStored, PublishBound
<1>2. IInv => AnswersWereStored
  BY <1>1
<1> QED
  BY <1>2, AlwaysGood, PTL

\* The store of each server keeps its indexes and limits while it answers the protocol: the
\* calls that StoreProofs is about are the ones made here.
THEOREM ServersStayGood == Spec => [](\A s \in Server : Good(store[s]))
<1>1. IInv => \A s \in Server : Good(store[s])
  BY DEF IInv, Types
<1> QED
  BY <1>1, AlwaysGood, PTL
----------------------------------------------------------------------------
(* How calls end.                                                          *)

\* Before its deadline, a lookup is ended by a Value only.
LEMMA ResolveEnds ==
  ASSUME IInv, [Next]_vars, NEW tx \in Resolve, resolves[tx] # None, resolves'[tx] = None,
         clock < resolves[tx].deadline
  PROVE  \E m \in net : m.type = "Value" /\ m.tx = tx /\ HandleValue(m)
<1>0. Types /\ resolves \in [Resolve -> PendingResolve \cup {None}] /\ \A m \in net : Bound(m)
  BY DEF IInv, Types, NetBound
<1>f. ~ UNCHANGED resolves
  OBVIOUS
<1>1. ASSUME NEW s \in Server, Serve(s) \/ Restart(s) \/ \E a \in Addr : Remap(s, a) PROVE FALSE
  BY <1>1, <1>f DEF Serve, ServePrepare, ServePut, ServeGet, Restart, Remap, clientVars
<1>2. ASSUME NEW t \in Resolve, NEW a \in Addr, StartResolve(t, a) PROVE FALSE
  <2>1. t # tx
    BY <1>2 DEF StartResolve, MayCall, Called
  <2>2. resolves'[tx] = resolves[tx]
    BY <1>0, <1>2, <2>1 DEF StartResolve
  <2> QED
    BY <2>2
<1>3. ASSUME NEW m \in net, HandlePrepared(m) \/ HandleStored(m) PROVE FALSE
  BY <1>3, <1>f DEF HandlePrepared, HandleStored
<1>4. ASSUME NEW m \in net, m.type = "Value", HandleValue(m) PROVE m.tx = tx
  <2> SUFFICES ASSUME m.tx # tx PROVE FALSE
    OBVIOUS
  <2>1. resolves'[tx] = resolves[tx]
    BY <1>0, <1>4 DEF HandleValue
  <2> QED
    BY <2>1
<1>5. CASE flush_expired
  <2>1. tx \in Due(resolves)
    BY <1>5 DEF flush_expired
  <2>2. resolves[tx].deadline <= clock
    BY <2>1 DEF Due
  <2>3. resolves[tx].deadline \in Nat /\ clock \in Nat
    BY <1>0, TimesAssumption DEF PendingResolve, Types
  <2> QED
    BY <2>2, <2>3
<1>6. CASE \/ \E t \in Publish : StartPublish(t)
           \/ \E S \in ServerLists : ReplaceServers(S)
           \/ Tick \/ UNCHANGED vars
  BY <1>6, <1>f DEF StartPublish, ReplaceServers, Tick, clientVars, vars
<1> QED
  BY <1>1, <1>2, <1>3, <1>4, <1>5, <1>6 DEF Next, Receive, Datagrams

\* Before its deadline, a publish is ended by a Stored, or by a Prepared if its value is too
\* long.
LEMMA PublishEnds ==
  ASSUME IInv, [Next]_vars, NEW tx \in Publish, publishes[tx] # None, publishes'[tx] = None,
         clock < publishes[tx].deadline
  PROVE  \E m \in net : /\ m.tx = tx
                        /\ \/ m.type = "Stored" /\ HandleStored(m)
                           \/ m.type = "Prepared" /\ HandlePrepared(m)
<1>0. Types /\ publishes \in [Publish -> PendingPublish \cup {None}] /\ \A m \in net : Bound(m)
  BY DEF IInv, Types, NetBound
<1>f. ~ UNCHANGED publishes
  OBVIOUS
<1>1. ASSUME NEW s \in Server, Serve(s) \/ Restart(s) \/ \E a \in Addr : Remap(s, a) PROVE FALSE
  BY <1>1, <1>f DEF Serve, ServePrepare, ServePut, ServeGet, Restart, Remap, clientVars
<1>2. ASSUME NEW t \in Publish, StartPublish(t) PROVE FALSE
  <2>1. t # tx
    BY <1>2 DEF StartPublish, MayCall, Called
  <2>2. publishes'[tx] = publishes[tx]
    BY <1>0, <1>2, <2>1 DEF StartPublish
  <2> QED
    BY <2>2
<1>3. ASSUME NEW m \in net, m.type = "Prepared", HandlePrepared(m), m.tx # tx PROVE FALSE
  <2>1. publishes'[tx] = publishes[tx]
    BY <1>0, <1>3 DEF HandlePrepared, UpdatePublish
  <2> QED
    BY <2>1
<1>4. ASSUME NEW m \in net, m.type = "Stored", HandleStored(m), m.tx # tx PROVE FALSE
  <2>1. publishes'[tx] = publishes[tx]
    BY <1>0, <1>4 DEF HandleStored, UpdatePublish
  <2> QED
    BY <2>1
<1>5. CASE flush_expired
  <2>1. tx \in Due(publishes)
    BY <1>5 DEF flush_expired
  <2>2. publishes[tx].deadline <= clock
    BY <2>1 DEF Due
  <2>3. publishes[tx].deadline \in Nat /\ clock \in Nat
    BY <1>0, TimesAssumption DEF PendingPublish, Types
  <2> QED
    BY <2>2, <2>3
<1>6. CASE \/ \E t \in Resolve, a \in Addr : StartResolve(t, a)
           \/ \E S \in ServerLists : ReplaceServers(S)
           \/ \E m \in net : HandleValue(m)
           \/ Tick \/ UNCHANGED vars
  BY <1>6, <1>f DEF StartResolve, ReplaceServers, HandleValue, Tick, clientVars, vars
<1> QED
  BY <1>1, <1>2, <1>3, <1>4, <1>5, <1>6 DEF Next, Receive, Datagrams

LEMMA ResolveCompletes ==
  ASSUME IInv, [Next]_vars, NEW tx \in Resolve, resolves[tx] # None, resolves'[tx] = None,
         clock < resolves[tx].deadline
  PROVE  \/ {m.to : m \in {g \in Datagrams("Get") : g.tx = tx}}
              = {m.from : m \in {g \in Datagrams("Value") : g.tx = tx}}
         \/ tx \in First /\ \E v \in answers'[tx].set : v[2] = resolves[tx].addr
<1>0. /\ Types /\ \A m \in net : Bound(m)
      /\ \A s \in Server, a \in Addr :
           Sought(tx, s, a) => s \in resolves[tx].awaiting \/ Answered(tx, s)
  BY DEF IInv, NetBound, CallsBound, ResolveBound
<1>1. PICK m \in net : m.type = "Value" /\ m.tx = tx /\ HandleValue(m)
  BY ResolveEnds
<1>2. Bound(m) /\ m.from \in Server /\ (m.value # None => m.value \in Value)
  BY <1>0, <1>1 DEF Bound, Types
<1>3. PICK q \in PendingResolve :
        /\ q.awaiting = resolves[tx].awaiting \ {m.from} /\ q.addr = resolves[tx].addr
        /\ q.values = resolves[tx].values \cup ({m.value} \ {None})
        /\ \/ /\ q.awaiting = {} \/ (m.value # None /\ Accepts(tx, m.addr, m.value))
              /\ answers' = [answers EXCEPT ![tx] = Returned(q.values)]
           \/ resolves' = [resolves EXCEPT ![tx] = q]
  BY <1>0, <1>1, <1>2, ValueEffect
<1>4. resolves[tx].addr = m.addr
  BY <1>1 DEF HandleValue
<1>5. /\ q.awaiting = {} \/ (m.value # None /\ Accepts(tx, m.addr, m.value))
      /\ answers'[tx] = Returned(q.values)
  <2>1. ~ (resolves' = [resolves EXCEPT ![tx] = q])
    BY <1>0, NoneAssumption DEF Types
  <2> QED
    BY <1>0, <1>3, <2>1 DEF Types
<1>6. CASE m.value # None /\ Accepts(tx, m.addr, m.value)
  <2>1. answers'[tx].set = q.values /\ m.value \in q.values
    BY <1>3, <1>5, <1>6 DEF Returned
  <2> QED
    BY <1>4, <1>6, <2>1 DEF Accepts
<1>7. CASE q.awaiting = {}
  <2>1. ASSUME NEW g \in net, g.type = "Get", g.tx = tx
        PROVE  \E v \in net : v.type = "Value" /\ v.tx = tx /\ v.from = g.to
    <3>1. g.to \in Server /\ g.addr \in Addr /\ Sought(tx, g.to, g.addr)
      BY <1>0, <2>1 DEF Bound, Sought
    <3>2. g.to = m.from \/ Answered(tx, g.to)
      BY <1>0, <1>3, <1>7, <3>1
    <3> QED
      BY <1>1, <3>2 DEF Answered
  <2>2. ASSUME NEW v \in net, v.type = "Value", v.tx = tx
        PROVE  \E g \in net : g.type = "Get" /\ g.tx = tx /\ g.to = v.from
    BY <1>0, <2>2 DEF Bound, Sought
  <2> QED
    BY <2>1, <2>2 DEF Datagrams
<1> QED
  BY <1>5, <1>6, <1>7

LEMMA PublishCompletes ==
  ASSUME IInv, [Next]_vars, NEW tx \in Publish, publishes[tx] # None, publishes'[tx] = None,
         clock < publishes[tx].deadline
  PROVE  {m.to : m \in {g \in Datagrams("Prepare") : g.tx = tx}}
           = {m.from : m \in {g \in Datagrams("Stored") : g.tx = tx}
                             \cup {g \in Datagrams("Prepared") : g.tx = tx /\ tx \in TooLong}}
<1>0. /\ Types /\ \A m \in net : Bound(m)
      /\ \A s \in Server : Asked(tx, s) => s \in publishes[tx].awaiting \/ Settled(tx, s)
  BY DEF IInv, NetBound, CallsBound, PublishBound
<1>1. PICK m \in net : /\ m.tx = tx
                       /\ \/ m.type = "Stored" /\ HandleStored(m)
                          \/ m.type = "Prepared" /\ HandlePrepared(m)
  BY PublishEnds
<1>2. m.from \in Server /\ m.addr \in Addr
  BY <1>0, <1>1 DEF Bound
<1>3. ASSUME NEW q \in PendingPublish, UpdatePublish(tx, q) PROVE q.awaiting = {}
  <2>1. ~ (publishes' = [publishes EXCEPT ![tx] = q])
    BY <1>0, NoneAssumption DEF Types
  <2> QED
    BY <1>3, <2>1 DEF UpdatePublish
<1>4. publishes[tx].awaiting \ {m.from} = {} /\ Settled(tx, m.from)
  <2>1. CASE m.type = "Stored" /\ HandleStored(m)
    <3>1. PICK q \in PendingPublish :
            q.awaiting = publishes[tx].awaiting \ {m.from} /\ UpdatePublish(tx, q)
      BY <1>0, <1>1, <1>2, <2>1, StoredEffect
    <3> QED
      BY <1>1, <1>3, <2>1, <3>1 DEF Settled
  <2>2. CASE m.type = "Prepared" /\ HandlePrepared(m)
    <3>1. PICK q \in PendingPublish :
            \/ /\ tx \in TooLong /\ q.awaiting = publishes[tx].awaiting \ {m.from}
               /\ UpdatePublish(tx, q)
            \/ publishes' = [publishes EXCEPT ![tx] = q]
      BY <1>0, <1>1, <2>2, PreparedEffect
    <3>2. ~ (publishes' = [publishes EXCEPT ![tx] = q])
      BY <1>0, NoneAssumption DEF Types
    <3> QED
      BY <1>1, <1>3, <2>2, <3>1, <3>2 DEF Settled
  <2> QED
    BY <1>1, <2>1, <2>2
<1>5. ASSUME NEW g \in net, g.type = "Prepare", g.tx = tx PROVE Settled(tx, g.to)
  <2>1. g.to \in Server /\ Asked(tx, g.to)
    BY <1>0, <1>5 DEF Bound, Asked
  <2> QED
    BY <1>0, <1>4, <2>1
<1>6. ASSUME NEW v \in net, v.type \in {"Stored", "Prepared"}, v.tx = tx
      PROVE  \E g \in net : g.type = "Prepare" /\ g.tx = tx /\ g.to = v.from
  BY <1>0, <1>6 DEF Bound, Asked
<1> QED
  BY <1>5, <1>6 DEF Datagrams, Settled

\* A call ends before its deadline only when every server that it asked has answered, or a
\* record signed for the address was found (handle_packet, finish_publish, finish_resolve):
\* for any servers and lists, with any loss, repetition and delay.
THEOREM CallsComplete == Spec => EndsEarlyOnlyWhenComplete
<1> DEFINE A ==
     /\ \A tx \in Resolve :
          resolves[tx] # None /\ resolves'[tx] = None /\ clock < resolves[tx].deadline =>
            \/ {m.to : m \in {g \in Datagrams("Get") : g.tx = tx}}
                 = {m.from : m \in {g \in Datagrams("Value") : g.tx = tx}}
            \/ tx \in First /\ \E v \in answers'[tx].set : v[2] = resolves[tx].addr
     /\ \A tx \in Publish :
          publishes[tx] # None /\ publishes'[tx] = None /\ clock < publishes[tx].deadline =>
            {m.to : m \in {g \in Datagrams("Prepare") : g.tx = tx}}
              = {m.from : m \in {g \in Datagrams("Stored") : g.tx = tx}
                                \cup {g \in Datagrams("Prepared") : g.tx = tx /\ tx \in TooLong}}
<1>1. IInv /\ [Next]_vars => [A]_vars
  BY ResolveCompletes, PublishCompletes
<1> QED
  BY <1>1, AlwaysGood, PTL DEF Spec, EndsEarlyOnlyWhenComplete
============================================================================
