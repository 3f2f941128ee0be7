--------------------------- MODULE GatewayProofs ---------------------------
(***************************************************************************)
(* Proofs about the memory of the gateway under concurrent requests: hints  *)
(* are recent, misses are honest and block no link, and names catch up,     *)
(* for any requests, providers, packets, limits and times to live.         *)
(***************************************************************************)
EXTENDS Gateway, FiniteSetTheorems, TLAPS

----------------------------------------------------------------------------
(* The inductive invariant.                                                *)

Hints == [Provider -> Entries(HINT_TTL) \cup {None}]
Probes == [pc : {"probe"}, hinted : SUBSET Provider, known : SUBSET Provider,
           mainline : {"not asked", "asked", "ended"}, seen : SUBSET Provider,
           probing : SUBSET Provider]
Requests ==
       [pc : {"idle"}]
  \cup [pc : {"hints"}, linked : BOOLEAN]
  \cup [pc : {"missing"}, linked : BOOLEAN, queue : SUBSET Provider]
  \cup [pc : {"known"}, queue : SUBSET Provider]
  \cup Probes
  \cup [pc : {"reading", "detect"}, provider : Provider]

MemoryTypes ==
  /\ hints \in Hints
  /\ missing \in 0 .. MISS_TTL \cup {None} /\ failed \in 0 .. MISS_TTL
  /\ cached \in [{"blob", "collection"} -> Provider \cup {None}]
  /\ named \in [Provider -> 0 .. Never]

RequestTypes == request \in [Req -> Requests]

\* A miss is as old as the failure it remembers.
MissSince == missing # None => failed + missing <= MISS_TTL

\* A hint is as old as its last naming or win.
HintSince == \A p \in Provider : hints[p] # None => named[p] + hints[p].left <= HINT_TTL

\* Some hint is live.
Hinted == \E p \in Provider : hints[p] # None /\ hints[p].left > 0

\* The hint of a link is there until its request reads it.
Linked(q) ==
  /\ q.pc = "hints" /\ q.linked => Hinted
  /\ q.pc = "missing" /\ q.linked => q.queue # {}

AllLinked == \A r \in Req : Linked(request[r])

\* The lookups of names.
Packets == [seq : SeqNo, left : 0 .. MAX_CACHE_TTL]
Lookups ==
       [pc : {"none"}]
  \cup [pc : {"resolve"}, left : 0 .. LOOKUP_TIMEOUT]
  \cup [pc : {"grace"}, seq : SeqNo, left : 0 .. LOOKUP_TIMEOUT]
  \cup [pc : {"use"}, seq : SeqNo]

NameTypes ==
  /\ packets \in Packets \cup {NoPacket} /\ held \subseteq SeqNo
  /\ lookup \in [Req -> Lookups] /\ settled \in 0 .. Stale

\* All nodes hold packet n, or they have not for more than d ticks.
Current(n, d) == held = {n} \/ settled <= d

LookupCurrent(w) ==
  /\ w.pc = "grace" => Current(w.seq, LOOKUP_TIMEOUT - w.left)
  /\ w.pc = "use" => Current(w.seq, Stale - 1)

NamesCurrent ==
  /\ settled > 0 => \E n \in SeqNo : held = {n}
  /\ packets # NoPacket => Current(packets.seq, Stale - packets.left)
  /\ \A r \in Req : LookupCurrent(lookup[r])

MemoryGood == MemoryTypes /\ RequestTypes /\ MissSince /\ HintSince /\ AllLinked
NamesGood == NameTypes /\ NamesCurrent
IInv == MemoryGood /\ NamesGood
----------------------------------------------------------------------------
(* Names.                                                                  *)

LEMMA LookupFields ==
  ASSUME NEW w \in Lookups
  PROVE  /\ w.pc \in {"resolve", "grace"} => w.left \in 0 .. LOOKUP_TIMEOUT
         /\ w.pc \in {"grace", "use"} => w.seq \in SeqNo
BY DEF Lookups

\* The lookup of one request goes on, with the same nodes.
LEMMA NameMoves ==
  ASSUME NamesGood, NEW r \in Req, NEW w \in Lookups, LookupCurrent(w), Becomes(r, w),
         UNCHANGED <<packets, held, settled>>
  PROVE  NamesGood'
<1>1. lookup' \in [Req -> Lookups] /\ lookup'[r] = w /\ \A s \in Req \ {r} : lookup'[s] = lookup[s]
  BY DEF Becomes, NamesGood, NameTypes
<1>2. NameTypes'
  BY <1>1 DEF NamesGood, NameTypes
<1>3. ASSUME NEW s \in Req PROVE LookupCurrent(lookup'[s])
  BY <1>1 DEF NamesGood, NamesCurrent
<1>4. \A s \in Req : LookupCurrent(lookup[s])'
  BY <1>3 DEF LookupCurrent, Current
<1>5. NamesCurrent'
  BY <1>4 DEF NamesGood, NamesCurrent, Current
<1> QED
  BY <1>2, <1>5 DEF NamesGood

LEMMA NoLookupGood ==
  ASSUME NamesGood, NEW r \in Req, Becomes(r, NoLookup), UNCHANGED <<packets, held, settled>>
  PROVE  NamesGood'
<1>1. NoLookup \in Lookups /\ LookupCurrent(NoLookup)
  BY DEF NoLookup, Lookups, LookupCurrent
<1> QED
  BY <1>1, NameMoves

LEMMA NamesStay ==
  ASSUME NamesGood, UNCHANGED names PROVE NamesGood'
<1>1. UNCHANGED <<packets, held, lookup, settled>>
  BY DEF names
<1>2. NameTypes'
  BY <1>1 DEF NamesGood, NameTypes
<1>3. NamesCurrent'
  BY <1>1 DEF NamesGood, NamesCurrent, LookupCurrent, Current
<1> QED
  BY <1>2, <1>3 DEF NamesGood

\* A packet that is put in the cache or dropped, with the lookup of its request.
LEMMA NameCached ==
  ASSUME NamesGood, NEW r \in Req, NEW w \in Lookups, LookupCurrent(w), Becomes(r, w),
         packets' \in Packets \cup {NoPacket},
         packets' # NoPacket => Current(packets'.seq, Stale - packets'.left),
         UNCHANGED <<held, settled>>
  PROVE  NamesGood'
<1>1. lookup' \in [Req -> Lookups] /\ lookup'[r] = w /\ \A s \in Req \ {r} : lookup'[s] = lookup[s]
  BY DEF Becomes, NamesGood, NameTypes
<1>2. NameTypes'
  BY <1>1 DEF NamesGood, NameTypes
<1>3. ASSUME NEW s \in Req PROVE LookupCurrent(lookup'[s])
  BY <1>1 DEF NamesGood, NamesCurrent
<1>4. \A s \in Req : LookupCurrent(lookup[s])'
  BY <1>3 DEF LookupCurrent, Current
<1>5. NamesCurrent'
  BY <1>4 DEF NamesGood, NamesCurrent, Current
<1> QED
  BY <1>2, <1>5 DEF NamesGood

LEMMA RedirectGood ==
  ASSUME NamesGood, NEW r \in Req, redirect(r) PROVE NamesGood'
<1>0. /\ packets \in Packets \cup {NoPacket} /\ settled \in 0 .. Stale /\ Stale \in Nat
      /\ packets # NoPacket => Current(packets.seq, Stale - packets.left)
  BY PacketAssumption DEF NamesGood, NameTypes, NamesCurrent, Stale
<1>1. CASE get = NoPacket
  <2> DEFINE w == [pc |-> "resolve", left |-> LOOKUP_TIMEOUT]
  <2>1. w \in Lookups /\ LookupCurrent(w)
    BY PacketAssumption DEF Lookups, LookupCurrent
  <2>2. Becomes(r, w) /\ packets' = NoPacket /\ UNCHANGED <<held, settled>>
    BY <1>1 DEF redirect
  <2> HIDE DEF w
  <2> QED
    BY <2>1, <2>2, NameCached
<1>2. CASE get # NoPacket
  <2> DEFINE w == [pc |-> "use", seq |-> packets.seq]
  <2>1. get = packets /\ packets \in Packets /\ packets.left # 0
    BY <1>0, <1>2 DEF get
  <2>2. packets.seq \in SeqNo /\ packets.left \in 1 .. MAX_CACHE_TTL
    BY <2>1, PacketAssumption DEF Packets
  <2>3. Current(packets.seq, Stale - 1)
    <3>1. held = {packets.seq} \/ settled <= Stale - packets.left
      BY <1>0, <1>2, <2>1 DEF Current
    <3>2. packets.left \in Nat \ {0}
      BY <2>2, PacketAssumption
    <3> QED
      BY <1>0, <3>1, <3>2 DEF Current
  <2>4. w \in Lookups
    BY <2>2 DEF Lookups
  <2>5. LookupCurrent(w)
    BY <2>3 DEF LookupCurrent
  <2>6. Becomes(r, w) /\ UNCHANGED <<packets, held, settled>>
    BY <1>2, <2>1 DEF redirect
  <2> HIDE DEF w
  <2> QED
    BY <2>4, <2>5, <2>6, NameMoves
<1> QED
  BY <1>1, <1>2

\* An answer is current, or the nodes do not agree yet.
LEMMA AnswerCurrent ==
  ASSUME NamesGood, NEW n \in held, NEW d \in Nat PROVE Current(n, d)
<1>1. settled \in Nat
  BY PacketAssumption DEF NamesGood, NameTypes, Stale
<1>2. CASE settled = 0
  BY <1>2 DEF Current
<1>3. CASE settled > 0
  <2>1. PICK k \in SeqNo : held = {k}
    BY <1>3 DEF NamesGood, NamesCurrent
  <2> QED
    BY <2>1 DEF Current
<1> QED
  BY <1>1, <1>2, <1>3

LEMMA AnswerGood ==
  ASSUME NamesGood, NEW r \in Req, NEW n \in SeqNo, FirstAnswer(r, n) \/ NextAnswer(r, n)
  PROVE  NamesGood'
<1>0. lookup[r] \in Lookups /\ LookupCurrent(lookup[r]) /\ n \in held
  BY DEF NamesGood, NameTypes, NamesCurrent, FirstAnswer, NextAnswer
<1>1. lookup[r].pc \in {"resolve", "grace"} /\ UNCHANGED <<packets, held, settled>>
  BY DEF FirstAnswer, NextAnswer, Looks
<1>2. lookup[r].left \in 0 .. LOOKUP_TIMEOUT /\ LOOKUP_TIMEOUT - lookup[r].left \in Nat
  BY <1>0, <1>1, LookupFields, PacketAssumption
<1>3. Current(n, LOOKUP_TIMEOUT - lookup[r].left)
  BY <1>0, <1>2, AnswerCurrent
<1>4. PICK m \in SeqNo : /\ Becomes(r, [pc |-> "grace", seq |-> m, left |-> lookup[r].left])
                         /\ Current(m, LOOKUP_TIMEOUT - lookup[r].left)
  <2>1. CASE FirstAnswer(r, n)
    BY <1>3, <2>1 DEF FirstAnswer
  <2>2. CASE NextAnswer(r, n)
    <3>1. Looks(r, "grace") /\ lookup[r].seq \in SeqNo
      BY <1>0, <2>2, LookupFields DEF NextAnswer, Looks
    <3>2. Current(lookup[r].seq, LOOKUP_TIMEOUT - lookup[r].left)
      BY <1>0, <3>1 DEF LookupCurrent, Looks
    <3> QED
      BY <1>3, <2>2, <3>1, <3>2 DEF NextAnswer
  <2> QED
    BY <2>1, <2>2
<1> DEFINE w == [pc |-> "grace", seq |-> m, left |-> lookup[r].left]
<1>5. w \in Lookups
  BY <1>2 DEF Lookups
<1>6. LookupCurrent(w)
  BY <1>4 DEF LookupCurrent
<1>7. Becomes(r, w)
  BY <1>4
<1> HIDE DEF w
<1> QED
  BY <1>1, <1>5, <1>6, <1>7, NameMoves

LEMMA ResolvedGood ==
  ASSUME NamesGood, NEW r \in Req, Resolved(r) PROVE NamesGood'
<1> DEFINE n == lookup[r].seq
           w == [pc |-> "use", seq |-> n]
<1>0. /\ lookup[r] \in Lookups /\ LookupCurrent(lookup[r]) /\ lookup[r].pc = "grace"
      /\ settled \in 0 .. Stale /\ packets \in Packets \cup {NoPacket}
      /\ packets # NoPacket => Current(packets.seq, Stale - packets.left)
  BY DEF NamesGood, NameTypes, NamesCurrent, Resolved, Looks
<1>1. n \in SeqNo /\ lookup[r].left \in 0 .. LOOKUP_TIMEOUT
  BY <1>0, LookupFields
<1>2. Current(n, LOOKUP_TIMEOUT - lookup[r].left)
  BY <1>0 DEF LookupCurrent
<1>3. Current(n, LOOKUP_TIMEOUT)
  BY <1>0, <1>1, <1>2, PacketAssumption DEF Current, Stale
<1>4. Becomes(r, w) /\ packets' = insert(n) /\ UNCHANGED <<held, settled>>
  BY DEF Resolved
<1>5. w \in Lookups
  BY <1>1 DEF Lookups
<1>6. LookupCurrent(w)
  BY <1>0, <1>3, PacketAssumption DEF LookupCurrent, Current, Stale
<1>7. insert(n) = packets \/ \E t \in 1 .. MAX_CACHE_TTL : insert(n) = [seq |-> n, left |-> t]
  <2>1. Ttl[n] \in Nat /\ MAX_CACHE_TTL \in Nat \ {0}
    BY <1>1, PacketAssumption
  <2> DEFINE t == IF Ttl[n] < MAX_CACHE_TTL THEN Ttl[n] ELSE MAX_CACHE_TTL
  <2>2. t \in 0 .. MAX_CACHE_TTL
    BY <2>1
  <2>3. insert(n) = IF t = 0 THEN packets ELSE [seq |-> n, left |-> t]
    BY DEF insert
  <2>4. t # 0 => t \in 1 .. MAX_CACHE_TTL
    BY <2>1, <2>2
  <2> HIDE DEF t, n
  <2> QED
    BY <2>3, <2>4
<1>8. CASE insert(n) = packets
  <2> HIDE DEF w
  <2> QED
    BY <1>0, <1>4, <1>5, <1>6, <1>8, NameCached
<1>9. ASSUME NEW t \in 1 .. MAX_CACHE_TTL, insert(n) = [seq |-> n, left |-> t] PROVE NamesGood'
  <2>1. packets' \in Packets /\ packets'.seq = n /\ packets'.left = t
    BY <1>1, <1>4, <1>9, PacketAssumption DEF Packets
  <2>2. Current(n, Stale - t)
    BY <1>0, <1>3, PacketAssumption DEF Current, Stale
  <2> HIDE DEF w
  <2> QED
    BY <1>4, <1>5, <1>6, <2>1, <2>2, NameCached
<1> QED
  BY <1>7, <1>8, <1>9
\* A new packet, or the last copy of an old one gone: the count begins again.
LEMMA MainlineGood ==
  ASSUME NamesGood, NEW n \in SeqNo, Publish(n) \/ Replaced(n) PROVE NamesGood'
<1>0. /\ packets \in Packets \cup {NoPacket} /\ lookup \in [Req -> Lookups] /\ held \subseteq SeqNo
      /\ Stale \in Nat /\ LOOKUP_TIMEOUT \in Nat /\ MAX_CACHE_TTL \in Nat \ {0}
      /\ Stale = LOOKUP_TIMEOUT + MAX_CACHE_TTL
  BY PacketAssumption DEF NamesGood, NameTypes, Stale
<1>1. held' \subseteq SeqNo /\ settled' = 0 /\ UNCHANGED <<packets, lookup>>
  BY <1>0 DEF Publish, Replaced
<1>2. NameTypes'
  BY <1>0, <1>1 DEF NameTypes, Stale
<1>3. packets # NoPacket => packets.left \in 0 .. MAX_CACHE_TTL
  BY <1>0 DEF Packets
<1>4. ASSUME NEW r \in Req PROVE LookupCurrent(lookup[r])'
  <2>1. lookup[r] \in Lookups
    BY <1>0
  <2>2. lookup[r].pc = "grace" => lookup[r].left \in 0 .. LOOKUP_TIMEOUT
    BY <2>1, LookupFields
  <2> QED
    BY <1>0, <1>1, <2>2 DEF LookupCurrent, Current, Stale
<1>5. NamesCurrent'
  BY <1>0, <1>1, <1>3, <1>4 DEF NamesCurrent, Current, Stale
<1> QED
  BY <1>2, <1>5 DEF NamesGood

\* A tick: what is old gets older, and what may still be wrong has less time left.
LEMMA ElapseGood ==
  ASSUME NamesGood, ElapseNames, \A r \in Req : ~Looks(r, "use") PROVE NamesGood'
<1>0. /\ packets \in Packets \cup {NoPacket} /\ lookup \in [Req -> Lookups] /\ held \subseteq SeqNo
      /\ Stale \in Nat /\ LOOKUP_TIMEOUT \in Nat /\ MAX_CACHE_TTL \in Nat \ {0}
      /\ settled \in 0 .. Stale /\ NamesCurrent /\ UNCHANGED held
  BY PacketAssumption DEF NamesGood, NameTypes, Stale, ElapseNames
<1>1. /\ settled' = settled \/ (settled' = settled + 1 /\ held = {Newest})
      /\ settled' \in 0 .. Stale
  BY <1>0 DEF ElapseNames
<1>2. settled' > 0 => \E n \in SeqNo : held' = {n}
  BY <1>0, <1>1 DEF NamesCurrent
<1>3. /\ packets' \in Packets \cup {NoPacket}
      /\ packets' # NoPacket => Current(packets.seq, Stale - packets.left)' /\ packets'.seq = packets.seq
  <2>1. CASE packets = NoPacket
    BY <2>1 DEF ElapseNames
  <2>2. CASE packets # NoPacket /\ packets.left = 0
    <3>1. packets' = packets
      BY <2>2 DEF ElapseNames
    <3> QED
      BY <1>0, <1>1, <2>2, <3>1 DEF Current, Stale
  <2>3. CASE packets # NoPacket /\ packets.left # 0
    <3>1. packets \in Packets /\ packets' = [seq |-> packets.seq, left |-> packets.left - 1]
      BY <1>0, <2>3 DEF ElapseNames
    <3>2. packets.seq \in SeqNo /\ packets.left \in 1 .. MAX_CACHE_TTL
      BY <1>0, <2>3, <3>1 DEF Packets
    <3>3. packets' \in Packets
      BY <1>0, <3>1, <3>2 DEF Packets
    <3>4. packets'.seq = packets.seq /\ packets'.left = packets.left - 1
      BY <3>1
    <3>5. held = {packets.seq} \/ settled <= Stale - packets.left
      BY <1>0, <2>3 DEF NamesCurrent, Current
    <3>6. held' = {packets'.seq} \/ settled' <= Stale - packets'.left
      BY <1>0, <1>1, <3>2, <3>4, <3>5
    <3> QED
      BY <3>3, <3>4, <3>6 DEF Current, Stale
  <2> QED
    BY <2>1, <2>2, <2>3
<1>4. ASSUME NEW r \in Req PROVE lookup'[r] \in Lookups /\ LookupCurrent(lookup[r])'
  <2>0. lookup[r] \in Lookups /\ LookupCurrent(lookup[r]) /\ lookup[r].pc # "use"
    BY <1>0 DEF NamesCurrent, Looks
  <2>1. CASE lookup[r].pc \notin {"resolve", "grace"}
    <3>1. lookup'[r] = lookup[r]
      BY <2>1 DEF ElapseNames
    <3> QED
      BY <2>0, <2>1, <3>1 DEF LookupCurrent
  <2>2. CASE lookup[r].pc = "resolve"
    <3>1. lookup[r].left \in 1 .. LOOKUP_TIMEOUT
      BY <1>0, <2>0, <2>2, LookupFields DEF ElapseNames
    <3>2. lookup'[r] = [lookup[r] EXCEPT !.left = lookup[r].left - 1]
      BY <2>2 DEF ElapseNames
    <3>3. lookup[r] \in [pc : {"resolve"}, left : 0 .. LOOKUP_TIMEOUT]
      BY <2>0, <2>2 DEF Lookups
    <3>4. lookup'[r] \in [pc : {"resolve"}, left : 0 .. LOOKUP_TIMEOUT]
      BY <1>0, <3>1, <3>2, <3>3
    <3> QED
      BY <3>4 DEF Lookups, LookupCurrent
  <2>3. CASE lookup[r].pc = "grace"
    <3>1. lookup[r].left \in 1 .. LOOKUP_TIMEOUT
      BY <1>0, <2>0, <2>3, LookupFields DEF ElapseNames
    <3>2. lookup'[r] = [lookup[r] EXCEPT !.left = lookup[r].left - 1]
      BY <2>3 DEF ElapseNames
    <3>3. lookup[r] \in [pc : {"grace"}, seq : SeqNo, left : 0 .. LOOKUP_TIMEOUT]
      BY <2>0, <2>3 DEF Lookups
    <3>4. /\ lookup'[r] \in [pc : {"grace"}, seq : SeqNo, left : 0 .. LOOKUP_TIMEOUT]
          /\ lookup'[r].seq = lookup[r].seq /\ lookup'[r].left = lookup[r].left - 1
      BY <1>0, <3>1, <3>2, <3>3
    <3>5. held = {lookup[r].seq} \/ settled <= LOOKUP_TIMEOUT - lookup[r].left
      BY <2>0, <2>3 DEF LookupCurrent, Current
    <3>6. held' = {lookup'[r].seq} \/ settled' <= LOOKUP_TIMEOUT - lookup'[r].left
      BY <1>0, <1>1, <3>1, <3>4, <3>5
    <3> QED
      BY <3>4, <3>6 DEF Lookups, LookupCurrent, Current
  <2> QED
    BY <2>1, <2>2, <2>3
<1>5. lookup' \in [Req -> Lookups]
  BY <1>4 DEF ElapseNames
<1>6. NameTypes'
  BY <1>0, <1>1, <1>3, <1>5 DEF NameTypes, Stale
<1>7. NamesCurrent'
  BY <1>2, <1>3, <1>4 DEF NamesCurrent
<1> QED
  BY <1>6, <1>7 DEF NamesGood
----------------------------------------------------------------------------
(* Lists of providers.                                                     *)

LEMMA TtlNat ==
  /\ HINT_TTL \in Nat \ {0} /\ MISS_TTL \in Nat \ {0} /\ PROVIDER_TTL \in Nat \ {0}
  /\ MAX_PER_HASH \in Nat \ {0} /\ Never = HINT_TTL + 1
BY MemoryAssumption DEF Never

\* What holds of hints and their history.
HintsGood == hints \in Hints /\ named \in [Provider -> 0 .. Never] /\ HintSince

LEMMA EntryOf ==
  ASSUME NEW l \in Nat, l <= HINT_TTL, NEW A \in SUBSET Provider
  PROVE  /\ [left |-> l, ahead |-> A] \in Entries(HINT_TTL)
         /\ [left |-> l, ahead |-> A] # None
         /\ [left |-> l, ahead |-> A].left = l
<1>1. [left |-> l, ahead |-> A] \in Entries(HINT_TTL)
  BY TtlNat DEF Entries
<1> QED
  BY <1>1, NoneAssumption

LEMMA EntryFields ==
  ASSUME NEW p \in Provider, hints \in Hints, hints[p] # None
  PROVE  hints[p].left \in 0 .. HINT_TTL /\ hints[p].ahead \in SUBSET Provider
<1>1. hints[p] \in Entries(HINT_TTL)
  BY DEF Hints
<1> QED
  BY <1>1 DEF Entries

\* One entry after another: the new entry is the old one with less or the same time, or it
\* is that of a provider just named.
LEMMA HintsChange ==
  ASSUME HintsGood, named' \in [Provider -> 0 .. Never],
         DOMAIN hints' = Provider, hints' = [p \in Provider |-> hints'[p]],
         \A p \in Provider :
           \/ hints'[p] = None
           \/ /\ hints'[p] \in Entries(HINT_TTL)
              /\ named'[p] + hints'[p].left <= HINT_TTL
  PROVE  HintsGood'
<1>1. hints' \in Hints
  BY DEF Hints
<1> QED
  BY <1>1 DEF HintsGood, HintSince

LEMMA ReadHints ==
  ASSUME HintsGood, hints' = Live(hints), UNCHANGED named
  PROVE  /\ HintsGood' /\ (Hinted => Hinted')
         /\ Hinted <=> Ids(Live(hints)) # {}
         /\ Ids(Live(hints)) \subseteq Provider
         /\ \A p \in Ids(Live(hints)) : named[p] < HINT_TTL
<1> DEFINE dead == {p \in Ids(hints) : hints[p].left = 0}
<1>1. ASSUME NEW p \in Provider
      PROVE  hints'[p] = IF p \in dead \/ hints[p] = None THEN None
                         ELSE [left |-> hints[p].left, ahead |-> hints[p].ahead \ dead]
  BY DEF Live, Without
<1>2. ASSUME NEW p \in Provider, hints[p] # None, hints[p].left > 0
      PROVE  /\ hints'[p] \in Entries(HINT_TTL) /\ hints'[p] # None
             /\ hints'[p].left = hints[p].left /\ named[p] + hints[p].left <= HINT_TTL
  <2>1. hints[p].left \in 0 .. HINT_TTL /\ hints[p].ahead \in SUBSET Provider
    BY <1>2, EntryFields DEF HintsGood
  <2>2. p \notin dead
    BY <1>2, <2>1, TtlNat
  <2>3. hints'[p] = [left |-> hints[p].left, ahead |-> hints[p].ahead \ dead]
    BY <1>1, <1>2, <2>2
  <2>4. hints[p].ahead \ dead \in SUBSET Provider
    BY <2>1
  <2> HIDE DEF dead
  <2> QED
    BY <1>2, <2>1, <2>3, <2>4, EntryOf, TtlNat DEF HintsGood, HintSince
<1>3. ASSUME NEW p \in Provider, hints'[p] # None
      PROVE  hints[p] # None /\ hints[p].left > 0
  <2>1. hints[p] # None /\ p \notin dead
    BY <1>1, <1>3
  <2>2. hints[p].left \in 0 .. HINT_TTL
    BY <2>1, EntryFields DEF HintsGood
  <2> QED
    BY <2>1, <2>2, TtlNat DEF Ids
<1>4. HintsGood'
  <2>1. DOMAIN hints' = Provider /\ hints' = [p \in Provider |-> hints'[p]]
    BY DEF Live, Without
  <2>2. named' \in [Provider -> 0 .. Never]
    BY DEF HintsGood
  <2> QED
    BY <1>2, <1>3, <2>1, <2>2, HintsChange
<1>5. Hinted => Hinted'
  BY <1>2 DEF Hinted
<1>6. Ids(Live(hints)) = {p \in Provider : hints'[p] # None}
  BY DEF Ids
<1>7. Hinted <=> Ids(Live(hints)) # {}
  BY <1>2, <1>3, <1>6 DEF Hinted
<1>8. ASSUME NEW p \in Ids(Live(hints)) PROVE named[p] < HINT_TTL
  <2>1. hints[p] # None /\ hints[p].left > 0 /\ p \in Provider
    BY <1>3, <1>6
  <2>2. named[p] \in 0 .. Never /\ hints[p].left \in Nat /\ named[p] + hints[p].left <= HINT_TTL
    BY <1>2, <2>1, EntryFields, TtlNat DEF HintsGood
  <2> QED
    BY <2>1, <2>2, TtlNat
<1> QED
  BY <1>4, <1>5, <1>6, <1>7, <1>8
LEMMA FreshEntry ==
  ASSUME NEW A \in SUBSET Provider
  PROVE  /\ [left |-> HINT_TTL, ahead |-> A] \in Entries(HINT_TTL)
         /\ [left |-> HINT_TTL, ahead |-> A] # None
         /\ [left |-> HINT_TTL, ahead |-> A].left = HINT_TTL
<1>1. HINT_TTL \in Nat /\ HINT_TTL <= HINT_TTL
  BY TtlNat
<1> QED
  BY <1>1, EntryOf

LEMMA FirstOfQuery ==
  ASSUME NEW query \in Seq(Provider), query # <<>>
  PROVE  /\ query[1] \in Range(query) /\ Range(query) \subseteq Provider
         /\ Cardinality(Before(query, query[1])) = 0
<1>1. Len(query) \in Nat /\ Len(query) # 0 /\ DOMAIN query = 1 .. Len(query)
  OBVIOUS
<1>2. 1 \in DOMAIN query
  BY <1>1
<1>3. query[1] \in Range(query)
  BY <1>2 DEF Range
<1>4. Range(query) \subseteq Provider
  BY DEF Range
<1>5. {j \in DOMAIN query : \A i \in 1 .. j : query[i] # query[1]} = {}
  BY <1>1
<1>6. Before(query, query[1]) = {}
  BY <1>5 DEF Before
<1> QED
  BY <1>3, <1>4, <1>6, FS_EmptySet

\* The URL of a request adds its providers in front.
LEMMA AddHints ==
  ASSUME HintsGood, NEW query \in Seq(Provider), query # <<>>, hints' = add(query),
         named' = [p \in Provider |-> IF p \in Range(query) THEN 0 ELSE named[p]]
  PROVE  HintsGood' /\ Hinted'
<1> DEFINE s == Spliced(query, hints, HINT_TTL)
<1>0. /\ hints \in Hints /\ named \in [Provider -> 0 .. Never] /\ HintSince
      /\ Range(query) \subseteq Provider
  BY FirstOfQuery DEF HintsGood
<1>1. named' \in [Provider -> 0 .. Never]
  BY <1>0, TtlNat
<1>2. ASSUME NEW p \in Provider, s[p] # None
      PROVE  s[p] \in Entries(HINT_TTL) /\ named'[p] + s[p].left <= HINT_TTL
  <2>1. CASE p \in Range(query)
    <3>1. s[p] = [left |-> HINT_TTL, ahead |-> Before(query, p)]
      BY <2>1 DEF Spliced
    <3>2. Before(query, p) \in SUBSET Provider
      BY DEF Before
    <3>3. s[p] \in Entries(HINT_TTL) /\ s[p].left = HINT_TTL
      BY <3>1, <3>2, FreshEntry
    <3> HIDE DEF s
    <3> QED
      BY <2>1, <3>3, TtlNat
  <2>2. CASE p \notin Range(query)
    <3>1. /\ hints[p] # None
          /\ s[p] = [left |-> hints[p].left, ahead |-> hints[p].ahead \cup Range(query)]
      BY <1>2, <2>2 DEF Spliced
    <3>2. hints[p].left \in 0 .. HINT_TTL /\ hints[p].ahead \in SUBSET Provider
      BY <1>0, <3>1, EntryFields
    <3>3. hints[p].ahead \cup Range(query) \in SUBSET Provider
      BY <1>0, <3>2
    <3>4. s[p] \in Entries(HINT_TTL) /\ s[p].left = hints[p].left
      <4> HIDE DEF s
      <4> QED
        BY <3>1, <3>2, <3>3, EntryOf, TtlNat
    <3>5. named'[p] = named[p]
      BY <2>2
    <3> HIDE DEF s
    <3> QED
      BY <1>0, <3>1, <3>4, <3>5 DEF HintSince
  <2> QED
    BY <2>1, <2>2
<1>3. /\ DOMAIN hints' = Provider /\ hints' = [p \in Provider |-> hints'[p]]
      /\ \A p \in Provider :
           hints'[p] = IF s[p] # None /\ Cardinality(s[p].ahead) < MAX_PER_HASH THEN s[p] ELSE None
  BY DEF add, Truncate
<1>4. HintsGood'
  <2> HIDE DEF s
  <2>1. \A p \in Provider :
           \/ hints'[p] = None
           \/ /\ hints'[p] \in Entries(HINT_TTL)
              /\ named'[p] + hints'[p].left <= HINT_TTL
    BY <1>2, <1>3
  <2> QED
    BY <1>1, <1>3, <2>1, HintsChange
<1>5. Hinted'
  <2>1. query[1] \in Provider /\ query[1] \in Range(query)
    BY FirstOfQuery
  <2>2. s[query[1]] = [left |-> HINT_TTL, ahead |-> Before(query, query[1])]
    BY <2>1 DEF Spliced
  <2>3. s[query[1]] # None /\ s[query[1]].left = HINT_TTL
    <3>1. Before(query, query[1]) \in SUBSET Provider
      BY DEF Before
    <3> HIDE DEF s
    <3> QED
      BY <2>2, <3>1, FreshEntry
  <2>4. Cardinality(s[query[1]].ahead) < MAX_PER_HASH
    <3> HIDE DEF s
    <3> QED
      BY <2>2, FirstOfQuery, TtlNat
  <2> HIDE DEF s
  <2> QED
    BY <1>3, <2>1, <2>3, <2>4, TtlNat DEF Hinted
<1> QED
  BY <1>4, <1>5

\* A hint that won is renewed.
LEMMA RenewHints ==
  ASSUME HintsGood, NEW p \in Provider, hints' = renew(p),
         named' = [named EXCEPT ![p] = IF named[p] = Never THEN Never ELSE 0]
  PROVE  HintsGood' /\ (Hinted => Hinted')
<1>0. hints \in Hints /\ named \in [Provider -> 0 .. Never] /\ HintSince
  BY DEF HintsGood
<1>1. named' \in [Provider -> 0 .. Never]
  BY <1>0, TtlNat
<1>2. ASSUME NEW q \in Provider
      PROVE  hints'[q] = IF q = p /\ hints[q] # None
                         THEN [left |-> HINT_TTL, ahead |-> hints[q].ahead] ELSE hints[q]
  BY DEF renew
<1>3. DOMAIN hints' = Provider /\ hints' = [q \in Provider |-> hints'[q]]
  BY DEF renew
<1>4. ASSUME NEW q \in Provider, hints[q] # None
      PROVE  /\ hints'[q] # None /\ hints'[q] \in Entries(HINT_TTL) /\ hints'[q].left >= hints[q].left
             /\ named'[q] + hints'[q].left <= HINT_TTL
  <2>1. hints[q].left \in 0 .. HINT_TTL /\ hints[q].ahead \in SUBSET Provider
    BY <1>0, <1>4, EntryFields
  <2>2. named[q] \in 0 .. Never /\ named[q] + hints[q].left <= HINT_TTL
    BY <1>0, <1>4 DEF HintSince
  <2>3. CASE q = p
    <3>1. hints'[q] = [left |-> HINT_TTL, ahead |-> hints[q].ahead]
      BY <1>2, <1>4, <2>3
    <3>2. hints'[q] # None /\ hints'[q] \in Entries(HINT_TTL) /\ hints'[q].left = HINT_TTL
      BY <2>1, <3>1, FreshEntry
    <3>3. named[q] # Never
      BY <2>1, <2>2, TtlNat
    <3>4. named'[q] = 0
      BY <1>0, <2>3, <3>3
    <3> QED
      BY <2>1, <3>2, <3>4, TtlNat
  <2>4. CASE q # p
    <3>1. hints'[q] = hints[q] /\ named'[q] = named[q]
      BY <1>0, <1>2, <2>4
    <3>2. hints[q] \in Entries(HINT_TTL)
      BY <1>0, <1>4 DEF Hints
    <3> QED
      BY <1>4, <2>1, <2>2, <3>1, <3>2
  <2> QED
    BY <2>3, <2>4
<1>5. \A q \in Provider : hints[q] = None => hints'[q] = None
  BY <1>2
<1>6. HintsGood'
  BY <1>1, <1>3, <1>4, <1>5, HintsChange
<1>7. Hinted => Hinted'
  <2>1. SUFFICES ASSUME Hinted PROVE Hinted'
    OBVIOUS
  <2>2. PICK q \in Provider : hints[q] # None /\ hints[q].left > 0
    BY <2>1 DEF Hinted
  <2>3. hints[q].left \in 0 .. HINT_TTL /\ hints'[q].left >= hints[q].left /\ hints'[q] # None
    BY <1>0, <1>4, <2>2, EntryFields
  <2>4. hints'[q].left \in Nat
    BY <1>4, <2>2, TtlNat DEF Entries
  <2> QED
    BY <2>2, <2>3, <2>4, TtlNat DEF Hinted
<1> QED
  BY <1>6, <1>7

LEMMA HintsStay ==
  ASSUME HintsGood, UNCHANGED <<hints, named>>
  PROVE  HintsGood' /\ (Hinted => Hinted')
BY DEF HintsGood, HintSince, Hinted

LEMMA EvictHints ==
  ASSUME HintsGood, hints' = Nothing, UNCHANGED named PROVE HintsGood'
<1>1. /\ DOMAIN hints' = Provider /\ hints' = [p \in Provider |-> hints'[p]]
      /\ \A p \in Provider : hints'[p] = None
  BY DEF Nothing
<1>2. named' \in [Provider -> 0 .. Never]
  BY DEF HintsGood
<1> QED
  BY <1>1, <1>2, HintsChange

LEMMA DownHints ==
  ASSUME HintsGood, hints' = Down(hints), named' = [p \in Provider |-> Pass(named[p], HINT_TTL)]
  PROVE  HintsGood'
<1>0. hints \in Hints /\ named \in [Provider -> 0 .. Never] /\ HintSince
  BY DEF HintsGood
<1>1. ASSUME NEW p \in Provider
      PROVE  /\ named'[p] = IF named[p] < HINT_TTL THEN named[p] + 1 ELSE named[p]
             /\ named'[p] \in 0 .. Never /\ named[p] \in 0 .. Never
  BY <1>0, TtlNat DEF Pass
<1>2. named' \in [Provider -> 0 .. Never]
  BY <1>1
<1>3. /\ DOMAIN hints' = Provider /\ hints' = [p \in Provider |-> hints'[p]]
      /\ \A p \in Provider : hints[p] = None => hints'[p] = None
  BY DEF Down
<1>4. ASSUME NEW p \in Provider, hints[p] # None
      PROVE  hints'[p] \in Entries(HINT_TTL) /\ named'[p] + hints'[p].left <= HINT_TTL
  <2> DEFINE l == IF hints[p].left > 0 THEN hints[p].left - 1 ELSE 0
  <2>1. hints[p].left \in 0 .. HINT_TTL /\ hints[p].ahead \in SUBSET Provider
    BY <1>0, <1>4, EntryFields
  <2>2. hints'[p] = [left |-> l, ahead |-> hints[p].ahead]
    BY <1>4 DEF Down
  <2>3. l \in Nat /\ l <= HINT_TTL
    BY <2>1, TtlNat
  <2>4. named'[p] + l <= HINT_TTL
    <3>1. named[p] + hints[p].left <= HINT_TTL
      BY <1>0, <1>4 DEF HintSince
    <3> QED
      BY <1>1, <2>1, <3>1, TtlNat
  <2> HIDE DEF l
  <2> QED
    BY <2>1, <2>2, <2>3, <2>4, EntryOf
<1> QED
  BY <1>2, <1>3, <1>4, HintsChange
----------------------------------------------------------------------------
(* Requests.                                                               *)

\* What holds of the rest of the memory.
RestGood ==
  /\ missing \in 0 .. MISS_TTL \cup {None} /\ failed \in 0 .. MISS_TTL /\ MissSince
  /\ cached \in [{"blob", "collection"} -> Provider \cup {None}]

LEMMA MemorySplit ==
  MemoryGood <=> HintsGood /\ RestGood /\ RequestTypes /\ AllLinked
BY DEF MemoryGood, MemoryTypes, HintsGood, RestGood

LEMMA RestStays ==
  ASSUME RestGood, UNCHANGED <<missing, failed, cached>> PROVE RestGood'
BY DEF RestGood, MissSince

\* Linked of where a request goes.
GoesLinked(to) ==
  /\ to.pc = "hints" /\ to.linked => Hinted'
  /\ to.pc = "missing" /\ to.linked => to.queue # {}

\* A request goes on, and some hint remains live.
LEMMA RequestMoves ==
  ASSUME MemoryGood, NEW r \in Req, NEW to \in Requests, Goes(r, to),
         HintsGood', RestGood', Hinted => Hinted', GoesLinked(to)
  PROVE  MemoryGood'
<1>1. request \in [Req -> Requests] /\ AllLinked
  BY DEF MemoryGood, RequestTypes
<1>2. /\ request' \in [Req -> Requests] /\ request'[r] = to
      /\ \A s \in Req \ {r} : request'[s] = request[s]
  BY <1>1 DEF Goes
<1>3. RequestTypes'
  BY <1>2 DEF RequestTypes
<1>4. ASSUME NEW s \in Req PROVE Linked(request[s])'
  BY <1>1, <1>2 DEF AllLinked, Linked, GoesLinked
<1>5. AllLinked'
  BY <1>4 DEF AllLinked
<1>6. HintsGood' /\ RestGood' /\ RequestTypes' /\ AllLinked'
  BY <1>3, <1>5
<1> QED
  BY <1>6 DEF MemoryGood, MemoryTypes, HintsGood, RestGood

\* A request goes on to where no hint matters, with the same memory.
Plain == {"idle", "known", "probe", "reading", "detect"}

LEMMA PlainMoves ==
  ASSUME MemoryGood, NEW r \in Req, NEW to \in Requests, to.pc \in Plain, Goes(r, to),
         RestGood', UNCHANGED <<hints, named>>
  PROVE  MemoryGood'
<1>1. HintsGood' /\ (Hinted => Hinted')
  BY MemorySplit, HintsStay
<1>2. GoesLinked(to)
  BY DEF GoesLinked, Plain
<1> QED
  BY <1>1, <1>2, RequestMoves

\* Nothing but the names changes.
LEMMA MemoryStays ==
  ASSUME MemoryGood, UNCHANGED <<memory, request>> PROVE MemoryGood'
<1>1. UNCHANGED <<hints, known, missing, cached, named, failed, request>>
  BY DEF memory
<1>2. HintsGood' /\ (Hinted => Hinted') /\ RestGood'
  BY <1>1, MemorySplit, HintsStay, RestStays
<1>3. RequestTypes'
  BY <1>1 DEF MemoryGood, RequestTypes
<1>4. AllLinked'
  BY <1>1, <1>2 DEF MemoryGood, AllLinked, Linked
<1> QED
  BY <1>2, <1>3, <1>4 DEF MemoryGood, MemoryTypes, HintsGood, RestGood

LEMMA IdleGood == Idle \in Requests /\ Idle.pc \in Plain
BY DEF Idle, Requests, Plain

LEMMA RequestFields ==
  ASSUME NEW q \in Requests
  PROVE  /\ q.pc = "hints" => q.linked \in BOOLEAN
         /\ q.pc = "missing" => q.linked \in BOOLEAN /\ q.queue \in SUBSET Provider
         /\ q.pc = "known" => q.queue \in SUBSET Provider
         /\ q.pc = "probe" => q \in Probes
         /\ q.pc \in {"reading", "detect"} =>
              q \in [pc : {"reading", "detect"}, provider : Provider] /\ q.provider \in Provider
<1>1. q.pc = "probe" => q \in Probes
  BY DEF Requests
<1>2. q.pc \in {"reading", "detect"} => q \in [pc : {"reading", "detect"}, provider : Provider]
  BY DEF Requests, Probes
<1>3. q.pc \in {"hints", "missing", "known"} =>
        q \in [pc : {"hints"}, linked : BOOLEAN]
              \cup [pc : {"missing"}, linked : BOOLEAN, queue : SUBSET Provider]
              \cup [pc : {"known"}, queue : SUBSET Provider]
  BY DEF Requests, Probes
<1> QED
  BY <1>1, <1>2, <1>3

LEMMA ToProbe == Probes \subseteq Requests /\ \A q \in Probes : q.pc \in Plain
BY DEF Probes, Requests, Plain
----------------------------------------------------------------------------
(* One lemma per action.                                                   *)

LEMMA BeginGood ==
  ASSUME MemoryGood, NEW r \in Req, NEW query \in Queries[r], Begin(r, query)
  PROVE  MemoryGood'
<1>0. /\ HintsGood /\ RestGood /\ UNCHANGED <<missing, failed, cached>>
      /\ query \in Seq(Provider) /\ Kind[r] \in {"blob", "collection"}
  BY MemorySplit, GatewayAssumption DEF Begin
<1>1. RestGood'
  BY <1>0, RestStays
<1>2. CASE Distinct(query) > MAX_PER_URL
  BY <1>1, <1>2, IdleGood, PlainMoves DEF Begin
<1>3. CASE ~(Distinct(query) > MAX_PER_URL)
  <2> DEFINE to == IF cached[Kind[r]] = None THEN [pc |-> "hints", linked |-> query # <<>>]
                   ELSE [pc |-> "detect", provider |-> cached[Kind[r]]]
  <2>1. /\ hints' = IF query = <<>> THEN hints ELSE add(query)
        /\ named' = [p \in Provider |-> IF p \in Range(query) THEN 0 ELSE named[p]]
        /\ Goes(r, to)
    BY <1>3 DEF Begin
  <2>2. HintsGood' /\ (Hinted => Hinted') /\ (query # <<>> => Hinted')
    <3>1. CASE query = <<>>
      <4>1. Range(query) = {} /\ named \in [Provider -> 0 .. Never]
        BY <1>0, <3>1 DEF Range, HintsGood
      <4>2. UNCHANGED <<hints, named>>
        BY <2>1, <3>1, <4>1
      <4> QED
        BY <1>0, <3>1, <4>2, HintsStay
    <3>2. CASE query # <<>>
      <4>1. hints' = add(query)
        BY <2>1, <3>2
      <4> QED
        BY <1>0, <2>1, <3>2, <4>1, AddHints
    <3> QED
      BY <3>1, <3>2
  <2>3. to \in Requests
    <3>1. cached[Kind[r]] \in Provider \cup {None}
      BY <1>0 DEF RestGood
    <3>2. CASE cached[Kind[r]] = None
      BY <3>2 DEF Requests
    <3>3. CASE cached[Kind[r]] # None
      BY <3>1, <3>3 DEF Requests
    <3> QED
      BY <3>2, <3>3
  <2>4. GoesLinked(to)
    <3>1. CASE cached[Kind[r]] = None
      <4>1. to = [pc |-> "hints", linked |-> query # <<>>]
        BY <3>1
      <4>2. to.pc = "hints" /\ (to.linked => Hinted')
        BY <2>2, <4>1
      <4> HIDE DEF to
      <4> QED
        BY <4>2 DEF GoesLinked
    <3>2. CASE cached[Kind[r]] # None
      <4>1. to.pc = "detect"
        BY <3>2
      <4> HIDE DEF to
      <4> QED
        BY <4>1 DEF GoesLinked
    <3> QED
      BY <3>1, <3>2
  <2> HIDE DEF to
  <2> QED
    BY <1>1, <2>1, <2>2, <2>3, <2>4, RequestMoves
<1> QED
  BY <1>2, <1>3

LEMMA GetHintsGood ==
  ASSUME MemoryGood, NEW r \in Req, GetHints(r)
  PROVE  MemoryGood' /\ \A p \in request'[r].queue : named[p] < HINT_TTL
<1> DEFINE ids == Ids(Live(hints))
           to == [pc |-> "missing", linked |-> request[r].linked, queue |-> ids]
<1>0. /\ HintsGood /\ RestGood /\ hints' = Live(hints) /\ Goes(r, to)
      /\ UNCHANGED <<named, missing, failed, cached>>
      /\ request \in [Req -> Requests] /\ request[r].pc = "hints" /\ Linked(request[r])
  BY MemorySplit DEF GetHints, At, RequestTypes, AllLinked
<1>1. /\ HintsGood' /\ (Hinted => Hinted') /\ ids \subseteq Provider /\ (Hinted <=> ids # {})
      /\ \A p \in ids : named[p] < HINT_TTL
  BY <1>0, ReadHints
<1>2. RestGood'
  BY <1>0, RestStays
<1>3. request[r].linked \in BOOLEAN
  BY <1>0, RequestFields
<1> HIDE DEF ids
<1>4. to \in Requests
  BY <1>1, <1>3 DEF Requests
<1>5. GoesLinked(to)
  BY <1>0, <1>1 DEF Linked, GoesLinked
<1>6. request'[r].queue = ids
  BY <1>0 DEF Goes
<1> HIDE DEF to
<1>7. MemoryGood'
  BY <1>0, <1>1, <1>2, <1>4, <1>5, RequestMoves
<1> QED
  BY <1>1, <1>6, <1>7

LEMMA CheckMissingGood ==
  ASSUME MemoryGood, NEW r \in Req, CheckMissing(r)
  PROVE  /\ MemoryGood'
         /\ request'[r].pc = "idle" => failed < MISS_TTL /\ request[r].queue = {}
<1>0. /\ RestGood /\ UNCHANGED <<hints, named, failed, cached>>
      /\ request \in [Req -> Requests] /\ request[r].pc = "missing"
  BY MemorySplit DEF CheckMissing, At, RequestTypes
<1>1. RestGood'
  BY <1>0 DEF RestGood, MissSince, CheckMissing
<1>2. CASE request[r].queue # {} \/ missing' = None
  <2> DEFINE to == [pc |-> "known", queue |-> request[r].queue]
  <2>1. to \in Requests /\ to.pc \in Plain
    BY <1>0, RequestFields DEF Requests, Plain
  <2>2. Goes(r, to) /\ request'[r].pc = "known"
    BY <1>0, <1>2 DEF CheckMissing, Goes
  <2> HIDE DEF to
  <2> QED
    BY <1>0, <1>1, <2>1, <2>2, PlainMoves
<1>3. CASE ~(request[r].queue # {} \/ missing' = None)
  <2>1. Goes(r, Idle) /\ request[r].queue = {} /\ missing # None /\ missing # 0
    BY <1>3 DEF CheckMissing
  <2>2. failed < MISS_TTL
    BY <1>0, <2>1, TtlNat DEF RestGood, MissSince
  <2> QED
    BY <1>0, <1>1, <2>1, <2>2, IdleGood, PlainMoves
<1> QED
  BY <1>2, <1>3

LEMMA GetKnownGood ==
  ASSUME MemoryGood, NEW r \in Req, GetKnown(r) PROVE MemoryGood'
<1> DEFINE to == [pc |-> "probe", hinted |-> request[r].queue,
                  known |-> Ids(Live(known)) \ request[r].queue,
                  mainline |-> "not asked", seen |-> {}, probing |-> {}]
<1>0. /\ RestGood /\ UNCHANGED <<hints, named, missing, failed, cached>> /\ Goes(r, to)
      /\ request[r] \in Requests /\ request[r].pc = "known"
  BY MemorySplit DEF GetKnown, At, RequestTypes
<1>1. RestGood'
  BY <1>0, RestStays
<1>2. request[r].queue \in SUBSET Provider /\ Ids(Live(known)) \in SUBSET Provider
  BY <1>0, RequestFields DEF Ids
<1>3. to \in Probes
  BY <1>2 DEF Probes
<1> HIDE DEF to
<1> QED
  BY <1>0, <1>1, <1>3, ToProbe, PlainMoves
\* The race of the probes leaves the rest of the request as it is.
LEMMA StartProbeGood ==
  ASSUME MemoryGood, NEW r \in Req, NEW p \in Provider,
         StartProbe(r, p) \/ Discover(r, p) \/ ProbeFails(r, p)
  PROVE  MemoryGood'
<1>0. /\ RestGood /\ UNCHANGED <<hints, named, missing, failed, cached>>
      /\ request[r] \in Requests /\ request[r].pc = "probe"
  BY MemorySplit DEF StartProbe, Discover, ProbeFails, Room, At, RequestTypes, memory
<1>1. RestGood'
  BY <1>0, RestStays
<1>2. request[r] \in Probes
  BY <1>0, RequestFields
<1>3. PICK to \in Probes : Goes(r, to)
  <2>1. CASE StartProbe(r, p)
    <3> DEFINE q == request[r]
               to == [q EXCEPT !.hinted = q.hinted \ {p}, !.known = q.known \ {p},
                               !.seen = q.seen \cup {p}, !.probing = q.probing \cup {p}]
    <3>1. Goes(r, to)
      BY <2>1 DEF StartProbe
    <3>2. to \in Probes
      BY <1>2 DEF Probes
    <3> HIDE DEF to
    <3> QED
      BY <3>1, <3>2
  <2>2. CASE Discover(r, p)
    <3> DEFINE q == request[r]
               to == [q EXCEPT !.seen = q.seen \cup {p}, !.probing = q.probing \cup {p}]
    <3>1. Goes(r, to)
      BY <2>2 DEF Discover
    <3>2. to \in Probes
      BY <1>2 DEF Probes
    <3> HIDE DEF to
    <3> QED
      BY <3>1, <3>2
  <2>3. CASE ProbeFails(r, p)
    <3> DEFINE to == [request[r] EXCEPT !.probing = request[r].probing \ {p}]
    <3>1. Goes(r, to)
      BY <2>3 DEF ProbeFails
    <3>2. to \in Probes
      BY <1>2 DEF Probes
    <3> HIDE DEF to
    <3> QED
      BY <3>1, <3>2
  <2> QED
    BY <2>1, <2>2, <2>3
<1> QED
  BY <1>0, <1>1, <1>3, ToProbe, PlainMoves

LEMMA MainlineAskedGood ==
  ASSUME MemoryGood, NEW r \in Req, AskMainline(r) \/ DiscoveryEnds(r) PROVE MemoryGood'
<1>0. /\ RestGood /\ UNCHANGED <<hints, named, missing, failed, cached>>
      /\ request[r] \in Requests /\ request[r].pc = "probe"
  BY MemorySplit DEF AskMainline, DiscoveryEnds, Room, At, RequestTypes, memory
<1>1. RestGood'
  BY <1>0, RestStays
<1>2. request[r] \in Probes
  BY <1>0, RequestFields
<1>3. PICK m \in {"asked", "ended"} : Goes(r, [request[r] EXCEPT !.mainline = m])
  BY DEF AskMainline, DiscoveryEnds
<1> DEFINE to == [request[r] EXCEPT !.mainline = m]
<1>4. to \in Probes /\ Goes(r, to)
  BY <1>2, <1>3 DEF Probes
<1> HIDE DEF to
<1> QED
  BY <1>0, <1>1, <1>4, ToProbe, PlainMoves

LEMMA ProbePassesGood ==
  ASSUME MemoryGood, NEW r \in Req, NEW p \in Provider, ProbePasses(r, p) PROVE MemoryGood'
<1> DEFINE to == [pc |-> "reading", provider |-> p]
<1>0. /\ HintsGood /\ RestGood /\ UNCHANGED cached /\ missing' = None /\ failed' = MISS_TTL
      /\ hints' = renew(p) /\ Goes(r, to)
      /\ named' = [named EXCEPT ![p] = IF named[p] = Never THEN Never ELSE 0]
  BY MemorySplit DEF ProbePasses, confirm
<1>1. HintsGood' /\ (Hinted => Hinted')
  BY <1>0, RenewHints
<1>2. RestGood'
  BY <1>0, TtlNat DEF RestGood, MissSince
<1>3. to \in Requests
  BY DEF Requests
<1>4. GoesLinked(to)
  BY DEF GoesLinked
<1> HIDE DEF to
<1> QED
  BY <1>0, <1>1, <1>2, <1>3, <1>4, RequestMoves

LEMMA NoneFoundGood ==
  ASSUME MemoryGood, NEW r \in Req, NotFound(r) \/ DiscoveryTimeout(r) PROVE MemoryGood'
<1>1. /\ RestGood /\ UNCHANGED <<hints, named, cached>> /\ missing' = MISS_TTL /\ failed' = 0
      /\ Goes(r, Idle)
  BY MemorySplit DEF NotFound, DiscoveryTimeout, record_missing
<1>2. RestGood'
  BY <1>1, TtlNat DEF RestGood, MissSince
<1> QED
  BY <1>1, <1>2, IdleGood, PlainMoves

LEMMA ReadGood ==
  ASSUME MemoryGood, NEW r \in Req, Read(r) PROVE MemoryGood'
<1>0. /\ RestGood /\ UNCHANGED <<hints, named, missing, failed>>
      /\ request[r] \in Requests /\ request[r].pc = "reading"
  BY MemorySplit DEF Read, At, RequestTypes
<1>p. PICK p \in {request[r].provider} \cup ({cached["collection"]} \ {None}) :
        /\ cached' = [cached EXCEPT ![Kind[r]] = p]
        /\ Goes(r, [pc |-> "detect", provider |-> p])
  BY DEF Read
<1> DEFINE to == [pc |-> "detect", provider |-> p]
<1>1. p \in Provider
  <2>1. request[r].provider \in Provider
    BY <1>0, RequestFields
  <2>2. cached["collection"] \in Provider \cup {None}
    BY <1>0 DEF RestGood
  <2> QED
    BY <2>1, <2>2, <1>p
<1>2. RestGood'
  BY <1>0, <1>p, <1>1 DEF RestGood, MissSince
<1>3. to \in Requests /\ to.pc \in Plain
  BY <1>1 DEF Requests, Plain
<1>4. Goes(r, to)
  BY <1>p
<1> HIDE DEF to
<1> QED
  BY <1>0, <1>2, <1>3, <1>4, PlainMoves

LEMMA DetectGood ==
  ASSUME MemoryGood, NEW r \in Req, NEW isCollection \in BOOLEAN, Detect(r, isCollection)
  PROVE  MemoryGood'
<1>0. /\ RestGood /\ UNCHANGED <<hints, named, missing, failed>> /\ Goes(r, Idle)
      /\ \/ cached' = cached
         \/ cached' = [cached EXCEPT !["collection"] = request[r].provider]
      /\ request[r] \in Requests /\ request[r].pc = "detect"
  BY MemorySplit DEF Detect, At, RequestTypes
<1>1. request[r].provider \in Provider
  BY <1>0, RequestFields
<1>2. RestGood'
  BY <1>0, <1>1 DEF RestGood, MissSince
<1> QED
  BY <1>0, <1>2, IdleGood, PlainMoves

LEMMA GivenUpGood ==
  ASSUME MemoryGood, NEW r \in Req, Goes(r, Idle), UNCHANGED memory PROVE MemoryGood'
<1>1. RestGood /\ UNCHANGED <<hints, named, missing, failed, cached>>
  BY MemorySplit DEF memory
<1>2. RestGood'
  BY <1>1, RestStays
<1> QED
  BY <1>1, <1>2, IdleGood, PlainMoves

LEMMA CloseGood ==
  ASSUME MemoryGood, NEW p \in Provider, Close(p) PROVE MemoryGood'
<1>1. /\ HintsGood /\ RestGood /\ UNCHANGED <<hints, named, missing, failed, request>>
      /\ cached' = [kind \in DOMAIN cached |-> IF cached[kind] = p THEN None ELSE cached[kind]]
  BY MemorySplit DEF Close
<1>2. HintsGood' /\ (Hinted => Hinted')
  BY <1>1, HintsStay
<1>3. RestGood'
  BY <1>1 DEF RestGood, MissSince
<1>4. RequestTypes'
  BY <1>1 DEF MemoryGood, RequestTypes
<1>5. AllLinked'
  BY <1>1, <1>2 DEF MemoryGood, AllLinked, Linked
<1> QED
  BY <1>2, <1>3, <1>4, <1>5 DEF MemoryGood, MemoryTypes, HintsGood, RestGood

\* No request is between reading the hints and using them: any of them may go.
LEMMA QuietGood ==
  ASSUME MemoryGood, \A r \in Req : Awaits(r), HintsGood', RestGood', UNCHANGED request
  PROVE  MemoryGood'
<1>1. RequestTypes'
  BY DEF MemoryGood, RequestTypes
<1>2. AllLinked'
  BY DEF AllLinked, Linked, Awaits
<1> QED
  BY <1>1, <1>2 DEF MemoryGood, MemoryTypes, HintsGood, RestGood

LEMMA EvictGood ==
  ASSUME MemoryGood, Evict PROVE HintsGood' /\ RestGood'
<1>0. HintsGood /\ RestGood /\ UNCHANGED <<named, failed>>
  BY MemorySplit DEF Evict
<1>1. CASE hints' = Nothing /\ UNCHANGED <<missing, cached>>
  BY <1>0, <1>1, EvictHints, RestStays
<1>2. CASE missing' = None /\ UNCHANGED <<hints, cached>>
  <2>1. RestGood'
    BY <1>0, <1>2 DEF RestGood, MissSince
  <2> QED
    BY <1>0, <1>2, <2>1, HintsStay
<1>3. ASSUME NEW kind \in DOMAIN cached, cached' = [cached EXCEPT ![kind] = None],
             UNCHANGED <<hints, missing>>
      PROVE  HintsGood' /\ RestGood'
  <2>1. RestGood'
    BY <1>0, <1>3 DEF RestGood, MissSince
  <2> QED
    BY <1>0, <1>3, <2>1, HintsStay
<1> QED
  BY <1>1, <1>2, <1>3 DEF Evict

LEMMA EvictSlotGood ==
  ASSUME IInv, EvictSlot PROVE IInv'
<1>0. /\ MemoryGood /\ NamesGood /\ HintsGood /\ RestGood /\ \A r \in Req : Awaits(r)
      /\ UNCHANGED <<held, lookup, settled, request>>
  BY MemorySplit DEF IInv, EvictSlot
<1>1. CASE Evict /\ UNCHANGED packets
  <2>1. MemoryGood'
    BY <1>0, <1>1, EvictGood, QuietGood
  <2>2. NamesGood'
    BY <1>0, <1>1, NamesStay DEF names
  <2> QED
    BY <2>1, <2>2 DEF IInv
<1>2. CASE packets' = NoPacket /\ UNCHANGED memory
  <2>1. MemoryGood'
    BY <1>0, <1>2, MemoryStays
  <2>2. NameTypes'
    BY <1>0, <1>2 DEF NamesGood, NameTypes
  <2>3. NamesCurrent'
    BY <1>0, <1>2 DEF NamesGood, NamesCurrent, LookupCurrent, Current
  <2> QED
    BY <2>1, <2>2, <2>3 DEF IInv, NamesGood
<1> QED
  BY <1>1, <1>2 DEF EvictSlot

LEMMA TickGood ==
  ASSUME IInv, Tick PROVE IInv'
<1>0. /\ MemoryGood /\ NamesGood /\ HintsGood /\ RestGood /\ \A r \in Req : Awaits(r)
      /\ ElapseMemory /\ ElapseNames /\ UNCHANGED request
  BY MemorySplit DEF IInv, Tick
<1>1. HintsGood'
  BY <1>0, DownHints DEF ElapseMemory
<1>2. RestGood'
  BY <1>0, TtlNat DEF RestGood, MissSince, ElapseMemory, Pass
<1>3. MemoryGood'
  BY <1>0, <1>1, <1>2, QuietGood
<1>4. NamesGood'
  BY <1>0, ElapseGood DEF Awaits
<1> QED
  BY <1>3, <1>4 DEF IInv
LEMMA LookupGood ==
  ASSUME IInv, NEW r \in Req, Lookup(r) PROVE IInv'
<1>0. MemoryGood /\ NamesGood /\ UNCHANGED names
  BY DEF IInv, Lookup
<1>1. MemoryGood'
  <2>1. CASE GetHints(r) \/ CheckMissing(r) \/ GetKnown(r)
    BY <1>0, <2>1, GetHintsGood, CheckMissingGood, GetKnownGood
  <2>2. CASE AskMainline(r) \/ DiscoveryEnds(r) \/ NotFound(r) \/ DiscoveryTimeout(r)
    BY <1>0, <2>2, MainlineAskedGood, NoneFoundGood
  <2>3. CASE Read(r)
    BY <1>0, <2>3, ReadGood
  <2>4. CASE Upstream(r)
    BY <1>0, <2>4, GivenUpGood DEF Upstream
  <2>5. ASSUME NEW isCollection \in BOOLEAN, Detect(r, isCollection) PROVE MemoryGood'
    BY <1>0, <2>5, DetectGood
  <2>6. ASSUME NEW p \in Provider,
               StartProbe(r, p) \/ Discover(r, p) \/ ProbePasses(r, p) \/ ProbeFails(r, p)
        PROVE  MemoryGood'
    BY <1>0, <2>6, StartProbeGood, ProbePassesGood
  <2> QED
    BY <2>1, <2>2, <2>3, <2>4, <2>5, <2>6 DEF Lookup
<1>2. NamesGood'
  BY <1>0, NamesStay
<1> QED
  BY <1>1, <1>2 DEF IInv

LEMMA NameGood ==
  ASSUME IInv, NEW r \in Req, Name(r) PROVE IInv'
<1>0. MemoryGood /\ NamesGood /\ UNCHANGED <<memory, request>>
  BY DEF IInv, Name
<1>1. MemoryGood'
  BY <1>0, MemoryStays
<1>2. NamesGood'
  <2>1. CASE redirect(r) \/ Resolved(r)
    BY <1>0, <2>1, RedirectGood, ResolvedGood
  <2>2. CASE LookupFails(r) \/ Redirected(r)
    BY <1>0, <2>2, NoLookupGood DEF LookupFails, Redirected
  <2>3. ASSUME NEW n \in SeqNo, FirstAnswer(r, n) \/ NextAnswer(r, n) PROVE NamesGood'
    BY <1>0, <2>3, AnswerGood
  <2> QED
    BY <2>1, <2>2, <2>3 DEF Name
<1> QED
  BY <1>1, <1>2 DEF IInv

LEMMA CancelGood ==
  ASSUME IInv, NEW r \in Req, Cancel(r) PROVE IInv'
<1>0. MemoryGood /\ NamesGood /\ UNCHANGED <<memory, packets, held, settled>>
  BY DEF IInv, Cancel
<1>1. CASE Goes(r, Idle) /\ UNCHANGED lookup
  BY <1>0, <1>1, GivenUpGood, NamesStay DEF IInv, names
<1>2. CASE Becomes(r, NoLookup) /\ UNCHANGED request
  BY <1>0, <1>2, MemoryStays, NoLookupGood DEF IInv
<1> QED
  BY <1>1, <1>2 DEF Cancel

LEMMA InitGood == Init => IInv
<1> SUFFICES ASSUME Init PROVE IInv
  OBVIOUS
<1>1. hints \in Hints /\ (\A p \in Provider : hints[p] = None) /\ named \in [Provider -> 0 .. Never]
  BY TtlNat DEF Init, InitMemory, Nothing, Hints
<1>2. RestGood
  BY TtlNat DEF Init, InitMemory, RestGood, MissSince
<1>3. request \in [Req -> Requests] /\ \A r \in Req : request[r] = Idle
  BY IdleGood DEF Init
<1>4. MemoryGood
  BY <1>1, <1>2, <1>3 DEF MemoryGood, MemoryTypes, RestGood, RequestTypes, HintSince, AllLinked,
     Linked, Idle
<1>5. /\ packets = NoPacket /\ settled = 0 /\ lookup \in [Req -> Lookups]
      /\ \A r \in Req : lookup[r].pc = "none"
      /\ \E n \in SeqNo : held = {n}
  BY DEF Init, InitNames, NoLookup, Lookups
<1>6. NamesGood
  BY <1>5, PacketAssumption DEF NamesGood, NameTypes, NamesCurrent, LookupCurrent, Stale
<1> QED
  BY <1>4, <1>6 DEF IInv

LEMMA NextGood == IInv /\ [Next]_vars => IInv'
<1> SUFFICES ASSUME IInv, [Next]_vars PROVE IInv'
  OBVIOUS
<1>0. MemoryGood /\ NamesGood
  BY DEF IInv
<1>1. ASSUME NEW r \in Req, Lookup(r) \/ Name(r) \/ Cancel(r) PROVE IInv'
  BY <1>1, LookupGood, NameGood, CancelGood
<1>2. ASSUME NEW r \in Req, NEW query \in Queries[r], Begin(r, query) PROVE IInv'
  <2>1. MemoryGood'
    BY <1>0, <1>2, BeginGood
  <2>2. NamesGood'
    BY <1>0, <1>2, NoLookupGood DEF Begin
  <2> QED
    BY <2>1, <2>2 DEF IInv
<1>3. ASSUME NEW p \in Provider, Close(p) PROVE IInv'
  BY <1>0, <1>3, CloseGood, NamesStay DEF IInv, Close
<1>4. CASE EvictSlot \/ Tick
  BY <1>4, EvictSlotGood, TickGood
<1>5. CASE Mainline
  <2>1. PICK n \in SeqNo : Publish(n) \/ Replaced(n)
    BY <1>5 DEF Mainline
  <2>2. NamesGood'
    BY <1>0, <2>1, MainlineGood
  <2>3. MemoryGood'
    BY <1>0, <1>5, MemoryStays DEF Mainline
  <2> QED
    BY <2>2, <2>3 DEF IInv
<1>6. CASE UNCHANGED vars
  <2>1. UNCHANGED names /\ UNCHANGED <<memory, request>>
    BY <1>6 DEF vars
  <2> QED
    BY <1>0, <2>1, MemoryStays, NamesStay DEF IInv
<1> QED
  BY <1>1, <1>2, <1>3, <1>4, <1>5, <1>6 DEF Next

LEMMA AlwaysGood == Spec => []IInv
BY InitGood, NextGood, PTL DEF Spec

\* A request that is between two locks is moved by its own next statement only.
LEMMA OwnStatement ==
  ASSUME IInv, [Next]_vars, NEW r \in Req
  PROVE  /\ At(r, "hints") => request'[r] = request[r] \/ GetHints(r)
         /\ At(r, "missing") => request'[r] = request[r] \/ CheckMissing(r)
<1> SUFFICES ASSUME request[r].pc \in {"hints", "missing"}
             PROVE  \/ request'[r] = request[r]
                    \/ request[r].pc = "hints" /\ GetHints(r)
                    \/ request[r].pc = "missing" /\ CheckMissing(r)
  BY DEF At
<1>0. request \in [Req -> Requests]
  BY DEF IInv, MemoryGood, RequestTypes
<1>1. ASSUME NEW s \in Req, NEW to, Goes(s, to), s # r PROVE request'[r] = request[r]
  BY <1>0, <1>1 DEF Goes
<1>2. CASE UNCHANGED request
  BY <1>2
<1>3. ASSUME NEW s \in Req, Lookup(s)
      PROVE  \/ request'[r] = request[r]
             \/ request[r].pc = "hints" /\ GetHints(r)
             \/ request[r].pc = "missing" /\ CheckMissing(r)
  <2>1. CASE s = r
    <3>1. CASE GetHints(s) \/ CheckMissing(s)
      BY <2>1, <3>1 DEF GetHints, CheckMissing, At
    <3>2. CASE ~(GetHints(s) \/ CheckMissing(s))
      <4>1. request[s].pc \in {"known", "probe", "reading", "detect"}
        BY <1>3, <3>2 DEF Lookup, GetKnown, AskMainline, DiscoveryEnds, NotFound, DiscoveryTimeout,
           Read, Upstream, Detect, StartProbe, Discover, ProbePasses, ProbeFails, Room, At
      <4> QED
        BY <2>1, <4>1
    <3> QED
      BY <3>1, <3>2
  <2>2. CASE s # r
    <3>1. \E to : Goes(s, to)
      BY <1>3 DEF Lookup, GetHints, CheckMissing, GetKnown, AskMainline, DiscoveryEnds, NotFound,
         DiscoveryTimeout, Read, Upstream, Detect, StartProbe, Discover, ProbePasses, ProbeFails
    <3> QED
      BY <1>1, <2>2, <3>1
  <2> QED
    BY <2>1, <2>2
<1>4. ASSUME NEW s \in Req, Cancel(s) \/ Name(s) PROVE request'[r] = request[r]
  <2>1. CASE UNCHANGED request
    BY <2>1
  <2>2. CASE Awaits(s) /\ Goes(s, Idle)
    BY <1>1, <2>2 DEF Awaits
  <2> QED
    BY <1>4, <2>1, <2>2 DEF Cancel, Name
<1>5. ASSUME NEW s \in Req, NEW query \in Queries[s], Begin(s, query) PROVE request'[r] = request[r]
  <2>1. s # r
    BY <1>5 DEF Begin, At
  <2>2. \E to : Goes(s, to)
    BY <1>5 DEF Begin
  <2> QED
    BY <1>1, <2>1, <2>2
<1>6. ASSUME NEW p \in Provider, Close(p) PROVE UNCHANGED request
  BY <1>6 DEF Close
<1>7. CASE EvictSlot \/ Mainline \/ Tick \/ UNCHANGED vars
  BY <1>7 DEF EvictSlot, Mainline, Tick, vars
<1> QED
  BY <1>2, <1>3, <1>4, <1>5, <1>6, <1>7 DEF Next
----------------------------------------------------------------------------
(* The theorems.                                                           *)

\* When every node has held the newest packet for Stale ticks, each request is led by that
\* packet: what was in a lookup or in the cache before has run out (pkarr_redirect.rs,
\* Cache::get, MAX_CACHE_TTL), for any TTLs, any answers and any number of lookups at once.
THEOREM NamesDoCatchUp == Spec => []NamesCatchUp
<1>1. IInv => NamesCatchUp
  <2> SUFFICES ASSUME IInv, NEW r \in Named, settled = Stale, Looks(r, "use")
               PROVE  lookup[r].seq = Newest
    BY DEF NamesCatchUp
  <2>1. r \in Req /\ LookupCurrent(lookup[r]) /\ Stale \in Nat
    BY GatewayAssumption, PacketAssumption DEF IInv, NamesGood, NamesCurrent, Stale
  <2>2. lookup[r] \in Lookups /\ lookup[r].pc = "use"
    BY <2>1 DEF Looks, IInv, NamesGood, NameTypes
  <2>3. lookup[r].seq \in Nat
    BY <2>2, LookupFields, PacketAssumption
  <2>4. held = {lookup[r].seq}
    BY <2>1, <2>2 DEF LookupCurrent, Current
  <2>5. Newest \in held
    BY <2>3, <2>4 DEF Newest
  <2> QED
    BY <2>4, <2>5
<1> QED
  BY <1>1, AlwaysGood, PTL

\* A provider is asked as a hint only if a URL named it, and was named or won less than
\* HINT_TTL ago (hints.rs, Hints::get and Hints::confirm), whatever other requests add,
\* renew, truncate or evict in between.
THEOREM HintsExpire == Spec => HintsAreRecent
<1> DEFINE A == \A r \in Req : At(r, "hints") /\ request'[r].pc = "missing" =>
                  \A p \in request'[r].queue : named[p] < HINT_TTL
<1>1. IInv /\ [Next]_vars => A
  <2> SUFFICES ASSUME IInv, [Next]_vars, NEW r \in Req, At(r, "hints"), request'[r].pc = "missing"
               PROVE  \A p \in request'[r].queue : named[p] < HINT_TTL
    OBVIOUS
  <2>1. GetHints(r)
    BY OwnStatement DEF At
  <2> QED
    BY <2>1, GetHintsGood DEF IInv
<1>2. IInv /\ [Next]_vars => [A]_vars
  BY <1>1
<1> HIDE DEF A
<1>3. Spec => [][A]_vars
  BY <1>2, AlwaysGood, PTL DEF Spec
<1> QED
  BY <1>3 DEF HintsAreRecent, A

\* A request is answered by a remembered miss only if a lookup failed less than MISS_TTL ago
\* and no probe has passed since (provider_cache.rs, ProviderCache::missing and confirm).
THEOREM MissesAreHonest == Spec => MissIsHonest
<1> DEFINE A == \A r \in Req : ByMiss(r) => failed < MISS_TTL
<1>1. IInv /\ [Next]_vars => A
  <2> SUFFICES ASSUME IInv, [Next]_vars, NEW r \in Req, ByMiss(r) PROVE failed < MISS_TTL
    OBVIOUS
  <2>1. CheckMissing(r) /\ request'[r].pc = "idle"
    BY OwnStatement DEF ByMiss, At
  <2> QED
    BY <2>1, CheckMissingGood DEF IInv
<1>2. IInv /\ [Next]_vars => [A]_vars
  BY <1>1
<1> HIDE DEF A
<1>3. Spec => [][A]_vars
  BY <1>2, AlwaysGood, PTL DEF Spec
<1> QED
  BY <1>3 DEF MissIsHonest, A

\* A request whose URL names a provider is not answered by a miss (lib.rs, connection): the
\* hint it added is there when it reads the hints, whatever other requests do in between,
\* since none of them can push the first provider of the last URL out.
THEOREM LinksPass == Spec => LinkIsNotBlocked
<1> DEFINE A == \A r \in Req : ByMiss(r) => ~request[r].linked
<1>1. IInv /\ [Next]_vars => A
  <2> SUFFICES ASSUME IInv, [Next]_vars, NEW r \in Req, ByMiss(r) PROVE ~request[r].linked
    OBVIOUS
  <2>1. CheckMissing(r) /\ request'[r].pc = "idle" /\ request[r].pc = "missing"
    BY OwnStatement DEF ByMiss, At
  <2>2. request[r].queue = {}
    BY <2>1, CheckMissingGood DEF IInv
  <2> QED
    BY <2>1, <2>2 DEF IInv, MemoryGood, AllLinked, Linked
<1>2. IInv /\ [Next]_vars => [A]_vars
  BY <1>1
<1> HIDE DEF A
<1>3. Spec => [][A]_vars
  BY <1>2, AlwaysGood, PTL DEF Spec
<1> QED
  BY <1>3 DEF LinkIsNotBlocked, A
============================================================================
