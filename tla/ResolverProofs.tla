--------------------------- MODULE ResolverProofs ---------------------------
(***************************************************************************)
(* Proofs about the lookup cache and the resolver: requests are shared,     *)
(* answers are fresh, streams end complete and yield only bound endpoints, *)
(* for all streams, slots, limits and times to live.                       *)
(***************************************************************************)
EXTENDS Resolver, TLAPS

----------------------------------------------------------------------------
(* The inductive invariant.                                                *)

Cap == MaxDelay + TTL

Types ==
  /\ entries \in [Addr -> EntryStates \cup {None}]
  /\ lookup \in [Lookup -> LookupStates]
  /\ pending \in [Lookup -> SUBSET Lookup]
  /\ held \in [Addr -> Records] /\ age \in [Addr -> [Records -> 0 .. Cap]]
  /\ call \in [Stream -> CallStates] /\ gone \in BOOLEAN
  /\ announced \in [Stream -> SUBSET Addr] /\ resolved \in [Stream -> SUBSET Addr]
  /\ found \in [Stream -> SUBSET Endpoint]

\* A lock's queue: only its users are in it, of two users of a lock one is in front of the
\* other, and a lookup asks the servers while none is in front of it.
Asks(l) == lookup[l].pc \in {"ask", "answer", "fail"}

Queued ==
  /\ \A l \in Lookup : \A m \in pending[l] : Uses(m)
  /\ \A l, m \in Lookup : Uses(l) /\ Uses(m) /\ lookup[l].addr = lookup[m].addr /\ l # m =>
       l \in pending[m] \/ m \in pending[l]
  /\ \A l \in Lookup : Asks(l) => pending[l] = {}

NoEntry(a) == entries[a] = None \/ entries[a].left = 0

\* The cache has nothing while the servers are asked, so that no older miss is in it when
\* they answer.
Asked == \A l \in Lookup : Asks(l) => NoEntry(lookup[l].addr)

\* What the cache and an answer on its way hold is bound to the address, and was what the
\* servers held so long ago as has passed of its time; a miss, what they last answered.
EntryFresh(a, e, ages) ==
  /\ \A x \in e.records : Home[x] = a
  /\ e.left > 0 => ages[e.records] + e.left <= MaxDelay + ttl(e.records)

AnswerFresh(w, ages) == ages[decode(w.value, w.addr)] + w.left <= MaxDelay

AllFresh ==
  /\ \A a \in Addr : \A e \in {entries[a]} \ {None} : EntryFresh(a, e, age[a])
  /\ \A l \in Lookup : lookup[l].pc = "answer" => AnswerFresh(lookup[l], age[lookup[l].addr])
  /\ \A a \in Addr, r \in Records : FoundIn(r, a, held[a]) => age[a][r] = 0

\* A result holds only records that were signed for its address.
ResultBound(w) == w.pc = "done" /\ w.records # None => \A x \in w.records : Home[x] = w.addr

\* A stream looks up only peers that Mainline named.
Named(s, w) == w.pc # "unused" => w.addr \in announced[s]

StreamBound(s) ==
  /\ call[s].known \subseteq announced[s]
  /\ \A n \in 1 .. Len(call[s].peers) : call[s].peers[n] \in announced[s]
  /\ \A i \in Slot : Named(s, lookup[<<s, i>>])
  /\ \A x \in call[s].yielded : Home[x] \in announced[s]

\* A named peer is resolved, waits or is being looked up.
Attended(s, a) ==
  \/ a \in resolved[s] \/ a \in call[s].known
  \/ \E n \in 1 .. Len(call[s].peers) : call[s].peers[n] = a
  \/ \E i \in Slot : lookup[<<s, i>>].pc # "unused" /\ lookup[<<s, i>>].addr = a

StreamComplete(s) ==
  /\ call[s].pc = "start" => announced[s] = {}
  /\ call[s].pc = "loop" => \A a \in announced[s] : Attended(s, a)
  /\ resolved[s] \subseteq announced[s]
  /\ call[s].yielded = found[s]

IInv ==
  /\ Types /\ Queued /\ Asked /\ AllFresh
  /\ \A l \in Lookup : ResultBound(lookup[l])
  /\ \A s \in Stream : StreamBound(s) /\ StreamComplete(s)
----------------------------------------------------------------------------
(* The states of a lookup and of a call.                                   *)

LEMMA LookupFields ==
  ASSUME NEW w \in LookupStates
  PROVE  /\ w.pc # "unused" => w.addr \in Addr
         /\ w.pc = "answer" => w.value \in Records /\ w.left \in 0 .. MaxDelay
         /\ w.pc = "done" => w.records \in Records \cup {None}
BY DEF LookupStates

LEMMA LookupMakes ==
  ASSUME NEW a \in Addr
  PROVE  /\ Unused \in LookupStates /\ Unused.pc = "unused"
         /\ NewLookup(a) \in LookupStates /\ NewLookup(a).pc = "get" /\ NewLookup(a).addr = a
         /\ \A pc \in {"pend", "wait", "ask", "fail"} :
              /\ [pc |-> pc, addr |-> a] \in LookupStates
              /\ [pc |-> pc, addr |-> a].pc = pc /\ [pc |-> pc, addr |-> a].addr = a
BY DEF LookupStates, Unused, NewLookup

LEMMA LookupDone ==
  ASSUME NEW a \in Addr, NEW r \in Records \cup {None}
  PROVE  Done(a, r) \in LookupStates /\ Done(a, r).pc = "done" /\ Done(a, r).addr = a /\ Done(a, r).records = r
BY DEF LookupStates, Done

LEMMA LookupOlder ==
  ASSUME NEW w \in LookupStates, w.pc = "answer", w.left > 0
  PROVE  LET x == [w EXCEPT !.left = w.left - 1]
         IN  x \in LookupStates /\ x.pc = "answer" /\ x.addr = w.addr /\ x.value = w.value /\ x.left = w.left - 1
<1>1. w \in [pc : {"answer"}, addr : Addr, value : Records, left : 0 .. MaxDelay]
  BY DEF LookupStates
<1> DEFINE c == w.left - 1
           x == [w EXCEPT !.left = c]
<1>2. c \in 0 .. MaxDelay
  BY <1>1, LimitAssumption
<1> HIDE DEF c
<1>3. x \in [pc : {"answer"}, addr : Addr, value : Records, left : 0 .. MaxDelay]
  BY <1>1, <1>2
<1>4. x.pc = "answer" /\ x.addr = w.addr /\ x.value = w.value /\ x.left = c
  BY <1>1
<1> HIDE DEF x
<1>5. x \in LookupStates
  BY <1>3 DEF LookupStates
<1> QED
  BY <1>4, <1>5 DEF c, x

LEMMA EntryOlder ==
  ASSUME NEW e \in EntryStates, e.left > 0
  PROVE  LET x == [e EXCEPT !.left = e.left - 1]
         IN  x \in EntryStates /\ x.records = e.records /\ x.left = e.left - 1
<1> DEFINE c == e.left - 1
<1>1. c \in 0 .. TTL
  BY TtlAssumption DEF EntryStates
<1> HIDE DEF c
<1>2. [e EXCEPT !.left = c] \in EntryStates /\ [e EXCEPT !.left = c].records = e.records /\ [e EXCEPT !.left = c].left = c
  BY <1>1 DEF EntryStates
<1> QED
  BY <1>2 DEF c

LEMMA DecodeBound ==
  ASSUME NEW v \in Records, NEW a \in Addr
  PROVE  decode(v, a) \in Records /\ \A x \in decode(v, a) : Home[x] = a
BY DEF decode, Records

LEMMA TtlBounds ==
  ASSUME NEW r \in Records
  PROVE  ttl(r) \in 1 .. TTL /\ ttl(r) = IF r = {} THEN MISS_TTL ELSE TTL
BY TtlAssumption DEF ttl

----------------------------------------------------------------------------
(* The cache and the ages of what it holds.                                *)

LEMMA AgesAreNumbers ==
  ASSUME Types, NEW a \in Addr, NEW r \in Records PROVE age[a][r] \in Nat /\ age[a][r] <= Cap
BY LimitAssumption, TtlAssumption DEF Types, Cap

\* LookupCache::get: an answer that is still valid, and the other entries stay.
LEMMA GetEffect ==
  ASSUME Types, AllFresh, NEW a \in Addr
  PROVE  /\ get(a) # None =>
              /\ get(a) \in Records /\ \A x \in get(a) : Home[x] = a
              /\ age[a][get(a)] < MaxDelay + ttl(get(a))
         /\ popped(a) \in [Addr -> EntryStates \cup {None}]
         /\ \A b \in Addr : popped(a)[b] \in {entries[b], None}
<1>1. entries \in [Addr -> EntryStates \cup {None}]
  BY DEF Types
<1>2. ASSUME get(a) # None
      PROVE  /\ get(a) \in Records /\ \A x \in get(a) : Home[x] = a
             /\ age[a][get(a)] < MaxDelay + ttl(get(a))
  <2> DEFINE e == entries[a]
  <2>1. e # None /\ e.left > 0 /\ get(a) = e.records
    BY <1>2 DEF get
  <2>2. e \in EntryStates
    BY <1>1, <2>1
  <2>3. EntryFresh(a, e, age[a])
    BY <2>1 DEF AllFresh
  <2>4. e.records \in Records /\ e.left \in Nat
    BY <2>2, TtlAssumption DEF EntryStates
  <2>5. age[a][e.records] \in Nat /\ ttl(e.records) \in Nat
    BY <2>4, AgesAreNumbers, TtlBounds, TtlAssumption
  <2>6. age[a][e.records] + e.left <= MaxDelay + ttl(e.records) /\ \A x \in e.records : Home[x] = a
    BY <2>1, <2>3 DEF EntryFresh
  <2>7. age[a][e.records] < MaxDelay + ttl(e.records)
    BY <2>1, <2>4, <2>5, <2>6, LimitAssumption
  <2> QED
    BY <2>1, <2>4, <2>6, <2>7
<1>3. popped(a) \in {entries, [entries EXCEPT ![a] = None]}
  BY DEF popped
<1>4. popped(a) \in [Addr -> EntryStates \cup {None}] /\ \A b \in Addr : popped(a)[b] \in {entries[b], None}
  BY <1>1, <1>3
<1> QED
  BY <1>2, <1>4

\* LookupCache::insert.
LEMMA InsertEffect ==
  ASSUME Types, NEW a \in Addr, NEW r \in Records, NEW f \in insert(a, r)
  PROVE  /\ f \in [Addr -> EntryStates \cup {None}]
         /\ \A b \in Addr \ {a} : f[b] \in {entries[b], None}
         /\ f[a] \in EntryStates /\ f[a].records = r /\ f[a].left = ttl(r)
<1> DEFINE e == [records |-> r, left |-> ttl(r)]
           put == [entries EXCEPT ![a] = e]
<1>1. e \in EntryStates /\ e.records = r /\ e.left = ttl(r)
  BY TtlBounds, TtlAssumption DEF EntryStates
<1> HIDE DEF e
<1>2. entries \in [Addr -> EntryStates \cup {None}]
  BY DEF Types
<1>3. put \in [Addr -> EntryStates \cup {None}] /\ put[a] = e /\ \A b \in Addr \ {a} : put[b] = entries[b]
  BY <1>1, <1>2
<1>4. f = put \/ \E b \in Addr \ {a} : f = [put EXCEPT ![b] = None]
  BY DEF insert, e
<1> HIDE DEF put
<1>5. f \in [Addr -> EntryStates \cup {None}] /\ f[a] = e /\ \A b \in Addr \ {a} : f[b] \in {entries[b], None}
  BY <1>3, <1>4
<1> QED
  BY <1>1, <1>5
----------------------------------------------------------------------------
(* A step of one lookup.                                                   *)

LockPcs == {"wait", "ask", "answer", "fail"}
AskPcs == {"ask", "answer", "fail"}

\* It joins or leaves the queue of its lock, or stays where it is.
Stays(l, w) ==
  /\ pending' = pending
  /\ w.pc \in LockPcs <=> lookup[l].pc \in LockPcs
  /\ w.pc \in AskPcs => pending[l] = {}

QueueStep(l, w) ==
  \/ Stays(l, w)
  \/ /\ lookup[l].pc = "pend" /\ w.pc = "wait"
     /\ pending' = [pending EXCEPT ![l] = {m \in Lookup : Uses(m) /\ lookup[m].addr = lookup[l].addr}]
  \/ w.pc \notin LockPcs /\ pending' = Leave({l})

\* The cache forgets entries, or remembers an answer.
EntriesStep ==
  /\ entries' \in [Addr -> EntryStates \cup {None}]
  /\ \A b \in Addr : \/ entries'[b] \in {entries[b], None}
                     \/ entries'[b] \in EntryStates /\ EntryFresh(b, entries'[b], age[b])

\* What a lookup returns is fresh.
ResultFresh(w) ==
  w.pc = "done" /\ w.records # None => age[w.addr][w.records] < MaxDelay + ttl(w.records)

\* Only an answer is inserted, and the servers are asked when the cache has none.
EntriesDrop == \A b \in Addr : entries'[b] \in {entries[b], None}

AskStep(l, w) ==
  /\ \/ EntriesDrop
     \/ /\ lookup[l].pc = "answer" /\ w.pc = "done"
        /\ \A b \in Addr \ {lookup[l].addr} : entries'[b] \in {entries[b], None}
  /\ w.pc \in AskPcs => lookup[l].pc \in AskPcs \/ entries'[w.addr] = None

\* The servers' answer says whether there is a miss.
AgeStep(l, w) ==
  /\ \/ age' = age
     \/ /\ lookup[l].pc = "ask" /\ entries' = entries
        /\ \E n \in {0, AgeCap({})} : age' = [age EXCEPT ![w.addr][{}] = n]
  /\ w.pc = "answer" => AnswerFresh(w, age'[w.addr])

LookupBecomes(l, w) ==
  /\ w.pc # "unused" /\ lookup[l].pc # "unused" /\ lookup[l].pc # "done" /\ w.addr = lookup[l].addr
  /\ lookup' = [lookup EXCEPT ![l] = w]
  /\ QueueStep(l, w) /\ EntriesStep /\ AskStep(l, w)
  /\ ResultBound(w) /\ ResultFresh(w)
  /\ AgeStep(l, w)
  /\ UNCHANGED held

LEMMA EntriesForget ==
  ASSUME Types, AllFresh, NEW a \in Addr, entries' = popped(a) PROVE EntriesStep /\ EntriesDrop
BY GetEffect DEF EntriesStep, EntriesDrop

LEMMA EntriesStay ==
  ASSUME Types, entries' = entries PROVE EntriesStep /\ EntriesDrop
BY DEF EntriesStep, EntriesDrop, Types

LEMMA GetIsFresh ==
  ASSUME Types, AllFresh, NEW a \in Addr, get(a) # None
  PROVE  /\ Done(a, get(a)) \in LookupStates /\ Done(a, get(a)).pc = "done" /\ Done(a, get(a)).addr = a
         /\ ResultBound(Done(a, get(a))) /\ ResultFresh(Done(a, get(a)))
<1>1. /\ get(a) \in Records /\ \A x \in get(a) : Home[x] = a
      /\ age[a][get(a)] < MaxDelay + ttl(get(a))
  BY GetEffect
<1>2. /\ Done(a, get(a)) \in LookupStates /\ Done(a, get(a)).pc = "done" /\ Done(a, get(a)).addr = a
      /\ Done(a, get(a)).records = get(a)
  BY <1>1, LookupDone
<1> QED
  BY <1>1, <1>2 DEF ResultBound, ResultFresh

LEMMA LookupEffect ==
  ASSUME Types, Queued, AllFresh, NEW l \in Lookup, LookupStep(l) \/ RequestEnds(l)
  PROVE  \E w \in LookupStates : LookupBecomes(l, w)
<1> DEFINE a == lookup[l].addr
<1>0. lookup[l] \in LookupStates /\ lookup \in [Lookup -> LookupStates]
  BY DEF Types
<1>a. lookup[l].pc # "unused" /\ lookup[l].pc # "done" /\ a \in Addr
  BY <1>0, LookupFields DEF LookupStep, LookupGet, LookupPend, LookupLocked, LookupAnswered, LookupFailed, RequestEnds
<1>1. CASE LookupGet(l)
  <2>1. EntriesStep /\ EntriesDrop /\ UNCHANGED <<pending, held, age>> /\ lookup[l].pc = "get"
    BY <1>1, <1>a, EntriesForget DEF LookupGet
  <2>2. CASE get(a) = None
    <3> DEFINE w == [pc |-> "pend", addr |-> a]
    <3>1. w \in LookupStates /\ w.pc = "pend" /\ w.addr = a /\ lookup' = [lookup EXCEPT ![l] = w]
      BY <1>1, <1>a, <2>2, LookupMakes DEF LookupGet
    <3> HIDE DEF w
    <3> QED
      BY <1>a, <2>1, <3>1
         DEF LookupBecomes, AskStep, AgeStep, QueueStep, Stays, ResultBound, ResultFresh, LockPcs, AskPcs
  <2>3. CASE get(a) # None
    <3> DEFINE w == Done(a, get(a))
    <3>1. /\ w \in LookupStates /\ w.pc = "done" /\ w.addr = a /\ ResultBound(w) /\ ResultFresh(w)
          /\ lookup' = [lookup EXCEPT ![l] = w]
      BY <1>1, <1>a, <2>3, GetIsFresh DEF LookupGet
    <3> HIDE DEF w
    <3> QED
      BY <1>a, <2>1, <3>1 DEF LookupBecomes, AskStep, AgeStep, QueueStep, Stays, LockPcs, AskPcs
  <2> QED
    BY <2>2, <2>3
<1>2. CASE LookupPend(l)
  <2> DEFINE w == [pc |-> "wait", addr |-> a]
  <2>1. EntriesStep /\ EntriesDrop /\ UNCHANGED <<held, age>> /\ lookup[l].pc = "pend"
    BY <1>2, EntriesStay DEF LookupPend
  <2>2. /\ w \in LookupStates /\ w.pc = "wait" /\ w.addr = a /\ lookup' = [lookup EXCEPT ![l] = w]
        /\ pending' = [pending EXCEPT ![l] = {m \in Lookup : Uses(m) /\ lookup[m].addr = lookup[l].addr}]
    BY <1>2, <1>a, LookupMakes DEF LookupPend
  <2> HIDE DEF w
  <2> QED
    BY <1>a, <2>1, <2>2 DEF LookupBecomes, AskStep, AgeStep, QueueStep, Stays, ResultBound, ResultFresh, AskPcs
<1>3. CASE LookupLocked(l)
  <2>1. EntriesStep /\ EntriesDrop /\ UNCHANGED <<held, age>> /\ lookup[l].pc = "wait" /\ pending[l] = {}
    BY <1>3, <1>a, EntriesForget DEF LookupLocked, Holds
  <2>2. CASE get(a) = None
    <3> DEFINE w == [pc |-> "ask", addr |-> a]
    <3>1. w \in LookupStates /\ w.pc = "ask" /\ w.addr = a /\ lookup' = [lookup EXCEPT ![l] = w] /\ pending' = pending
      BY <1>3, <1>a, <2>2, LookupMakes DEF LookupLocked
    <3>2. entries'[a] = None
      BY <1>3, <1>a, <2>2 DEF LookupLocked, popped, Types
    <3> HIDE DEF w
    <3> QED
      BY <1>a, <2>1, <3>1, <3>2
         DEF LookupBecomes, AskStep, AgeStep, QueueStep, Stays, ResultBound, ResultFresh, LockPcs, AskPcs
  <2>3. CASE get(a) # None
    <3> DEFINE w == Done(a, get(a))
    <3>1. /\ w \in LookupStates /\ w.pc = "done" /\ w.addr = a /\ ResultBound(w) /\ ResultFresh(w)
          /\ lookup' = [lookup EXCEPT ![l] = w] /\ pending' = Leave({l})
      BY <1>3, <1>a, <2>3, GetIsFresh DEF LookupLocked
    <3> HIDE DEF w
    <3> QED
      BY <1>a, <2>1, <3>1 DEF LookupBecomes, AskStep, AgeStep, QueueStep, Stays, LockPcs, AskPcs
  <2> QED
    BY <2>2, <2>3
<1>4. CASE RequestEnds(l)
  <2>1. EntriesStep /\ EntriesDrop /\ UNCHANGED <<entries, pending, held>> /\ lookup[l].pc = "ask" /\ pending[l] = {}
    BY <1>4, EntriesStay DEF RequestEnds, Queued, Asks
  <2> DEFINE x == [pc |-> "fail", addr |-> a]
  <2>2. ASSUME NEW v \in SUBSET held[a],
               lookup' = [lookup EXCEPT ![l] = [pc |-> "answer", addr |-> a, value |-> v, left |-> MaxDelay]],
               age' = [age EXCEPT ![a][{}] = IF decode(v, a) = {} THEN 0 ELSE AgeCap({})]
        PROVE  \E w \in LookupStates : LookupBecomes(l, w)
    <3> DEFINE w == [pc |-> "answer", addr |-> a, value |-> v, left |-> MaxDelay]
               n == IF decode(v, a) = {} THEN 0 ELSE AgeCap({})
    <3>1. v \in Records /\ held[a] \in Records
      BY <1>a, <2>2 DEF Types, Records
    <3>2. w \in LookupStates /\ w.pc = "answer" /\ w.addr = a /\ w.value = v /\ w.left = MaxDelay
      BY <1>a, <3>1, LimitAssumption DEF LookupStates
    <3>3. n \in {0, AgeCap({})} /\ (decode(v, a) = {} => n = 0) /\ age' = [age EXCEPT ![a][{}] = n]
      BY <2>2
    <3>4. lookup' = [lookup EXCEPT ![l] = w]
      BY <2>2
    <3> HIDE DEF w, n
    <3>5. decode(v, a) \in Records
      BY <1>a, <3>1, DecodeBound
    <3>6. age'[a][decode(v, a)] = 0
      <4>1. CASE decode(v, a) = {}
        BY <1>a, <3>3, <3>5, <4>1 DEF Types
      <4>2. CASE decode(v, a) # {}
        <5>1. FoundIn(decode(v, a), a, held[a])
          BY <2>2, <4>2 DEF FoundIn, decode
        <5>2. age[a][decode(v, a)] = 0
          BY <1>a, <3>5, <5>1 DEF AllFresh
        <5> QED
          BY <1>a, <3>3, <3>5, <4>2, <5>2 DEF Types
      <4> QED
        BY <4>1, <4>2
    <3>7. AnswerFresh(w, age'[w.addr])
      BY <3>2, <3>6, LimitAssumption DEF AnswerFresh
    <3>8. AgeStep(l, w)
      BY <2>1, <3>2, <3>3, <3>7 DEF AgeStep
    <3> QED
      BY <1>a, <2>1, <3>2, <3>4, <3>8
         DEF LookupBecomes, AskStep, QueueStep, Stays, ResultBound, ResultFresh, LockPcs, AskPcs
  <2>3. CASE lookup' = [lookup EXCEPT ![l] = x] /\ age' = age
    <3>1. x \in LookupStates /\ x.pc = "fail" /\ x.addr = a
      BY <1>a, LookupMakes
    <3> HIDE DEF x
    <3> QED
      BY <1>a, <2>1, <2>3, <3>1
         DEF LookupBecomes, AskStep, AgeStep, QueueStep, Stays, ResultBound, ResultFresh, LockPcs, AskPcs
  <2> QED
    BY <1>4, <2>2, <2>3 DEF RequestEnds
<1>5. CASE LookupAnswered(l)
  <2> DEFINE r == decode(lookup[l].value, a)
             w == Done(a, r)
  <2>1. /\ lookup[l].pc = "answer" /\ entries' \in insert(a, r) /\ lookup' = [lookup EXCEPT ![l] = w]
        /\ pending' = Leave({l}) /\ UNCHANGED <<held, age>>
    BY <1>5 DEF LookupAnswered
  <2>2. lookup[l].value \in Records /\ lookup[l].left \in 0 .. MaxDelay
    BY <1>0, <2>1, LookupFields
  <2>3. r \in Records /\ \A x \in r : Home[x] = a
    BY <1>a, <2>2, DecodeBound
  <2>4. age[a][r] + lookup[l].left <= MaxDelay
    BY <2>1 DEF AllFresh, AnswerFresh
  <2> HIDE DEF r
  <2>5. age[a][r] \in Nat /\ ttl(r) \in 1 .. TTL
    BY <1>a, <2>3, AgesAreNumbers, TtlBounds
  <2>6. age[a][r] <= MaxDelay
    BY <2>2, <2>4, <2>5, LimitAssumption
  <2>7. w \in LookupStates /\ w.pc = "done" /\ w.addr = a /\ w.records = r
    BY <1>a, <2>3, LookupDone
  <2> HIDE DEF w
  <2>8. ResultBound(w) /\ ResultFresh(w)
    BY <2>3, <2>5, <2>6, <2>7, LimitAssumption, TtlAssumption DEF ResultBound, ResultFresh, AskPcs
  <2>9. EntriesStep /\ \A b \in Addr \ {a} : entries'[b] \in {entries[b], None}
    <3>1. /\ entries' \in [Addr -> EntryStates \cup {None}]
          /\ \A b \in Addr \ {a} : entries'[b] \in {entries[b], None}
          /\ entries'[a] \in EntryStates /\ entries'[a].records = r /\ entries'[a].left = ttl(r)
      BY <1>a, <2>1, <2>3, InsertEffect
    <3>2. EntryFresh(a, entries'[a], age[a])
      BY <2>3, <2>5, <2>6, <3>1, LimitAssumption, TtlAssumption DEF EntryFresh
    <3> QED
      BY <3>1, <3>2 DEF EntriesStep
  <2> QED
    BY <1>a, <2>1, <2>7, <2>8, <2>9 DEF LookupBecomes, AskStep, AgeStep, QueueStep, Stays, LockPcs, AskPcs
<1>6. CASE LookupFailed(l)
  <2> DEFINE w == Done(a, None)
  <2>1. EntriesStep /\ EntriesDrop /\ UNCHANGED <<held, age>> /\ pending' = Leave({l}) /\ lookup' = [lookup EXCEPT ![l] = w]
    BY <1>6, EntriesStay DEF LookupFailed
  <2>2. w \in LookupStates /\ w.pc = "done" /\ w.addr = a /\ w.records = None
    BY <1>a, LookupDone
  <2> HIDE DEF w
  <2> QED
    BY <1>a, <2>1, <2>2 DEF LookupBecomes, AskStep, AgeStep, QueueStep, Stays, ResultBound, ResultFresh, LockPcs, AskPcs
<1> QED
  BY <1>1, <1>2, <1>3, <1>4, <1>5, <1>6 DEF LookupStep
----------------------------------------------------------------------------
(* The locks.                                                              *)

\* One lookup changes without joining or leaving a queue.
LEMMA QueueStays ==
  ASSUME Types, Queued, NEW l \in Lookup, NEW w \in LookupStates,
         lookup' = [lookup EXCEPT ![l] = w], Stays(l, w),
         w.pc \in LockPcs => w.addr = lookup[l].addr
  PROVE  Queued'
<1>1. \A m \in Lookup : lookup'[m] = IF m = l THEN w ELSE lookup[m]
  BY DEF Types
<1>2. \A m \in Lookup : Uses(m)' <=> Uses(m)
  BY <1>1 DEF Uses, LockPcs, Stays
<1>3. \A m \in Lookup : Uses(m) => lookup'[m].addr = lookup[m].addr
  BY <1>1 DEF Uses, LockPcs, Stays
<1>4. \A m \in Lookup : Asks(m)' => pending[m] = {}
  BY <1>1 DEF Asks, AskPcs, Queued, Stays
<1>5. \A m \in Lookup : pending[m] \in SUBSET Lookup
  BY DEF Types
<1> QED
  BY <1>2, <1>3, <1>4, <1>5 DEF Queued, Stays

\* A set of lookups leaves the queues.
LEMMA QueueLeft ==
  ASSUME Types, Queued, NEW L \in SUBSET Lookup, pending' = Leave(L),
         \A m \in Lookup \ L : lookup'[m] = lookup[m],
         \A m \in L : ~Uses(m)'
  PROVE  Queued'
<1>1. \A m \in Lookup : pending'[m] = IF m \in L THEN {} ELSE pending[m] \ L
  BY DEF Leave
<1>2. \A m \in Lookup : Uses(m)' => m \notin L /\ Uses(m) /\ lookup'[m] = lookup[m]
  BY DEF Uses
<1>3. \A m \in Lookup : Asks(m)' => m \notin L /\ Asks(m)
  BY DEF Uses, Asks
<1>4. \A m \in Lookup : pending[m] \in SUBSET Lookup
  BY DEF Types
<1>5. \A m \in Lookup : Uses(m) /\ m \notin L => Uses(m)'
  BY DEF Uses
<1>6. ASSUME NEW k \in Lookup, NEW m \in pending'[k] PROVE Uses(m)'
  <2>1. m \in Lookup /\ m \in pending[k] /\ m \notin L
    BY <1>1, <1>4, <1>6
  <2>2. Uses(m)
    BY <2>1 DEF Queued
  <2> QED
    BY <1>5, <2>1, <2>2
<1>7. ASSUME NEW k \in Lookup, NEW m \in Lookup, Uses(k)', Uses(m)', lookup'[k].addr = lookup'[m].addr, k # m
      PROVE  k \in pending'[m] \/ m \in pending'[k]
  <2>1. k \notin L /\ m \notin L /\ Uses(k) /\ Uses(m) /\ lookup[k].addr = lookup[m].addr
    BY <1>2, <1>7
  <2>2. k \in pending[m] \/ m \in pending[k]
    BY <1>7, <2>1 DEF Queued
  <2> QED
    BY <1>1, <2>1, <2>2
<1>8. \A k \in Lookup : Asks(k)' => pending'[k] = {}
  BY <1>1, <1>3 DEF Queued
<1> QED
  BY <1>6, <1>7, <1>8 DEF Queued

LEMMA QueueJoined ==
  ASSUME Types, Queued, NEW l \in Lookup, NEW w \in LookupStates, lookup[l].pc = "pend", w.pc = "wait",
         w.addr = lookup[l].addr, lookup' = [lookup EXCEPT ![l] = w],
         pending' = [pending EXCEPT ![l] = {m \in Lookup : Uses(m) /\ lookup[m].addr = lookup[l].addr}]
  PROVE  Queued'
<1>1. \A m \in Lookup : lookup'[m] = IF m = l THEN w ELSE lookup[m]
  BY DEF Types
<1>2. /\ \A m \in Lookup \ {l} : pending'[m] = pending[m]
      /\ pending'[l] = {m \in Lookup : Uses(m) /\ lookup[m].addr = lookup[l].addr}
  BY DEF Types
<1>3. \A m \in Lookup : Uses(m)' <=> Uses(m) \/ m = l
  BY <1>1 DEF Uses
<1>4. \A m \in Lookup : lookup'[m].addr = lookup[m].addr
  BY <1>1
<1>5. \A m \in Lookup : Asks(m)' => Asks(m) /\ m # l
  BY <1>1 DEF Asks
<1>6. \A m \in Lookup : pending[m] \in SUBSET Lookup
  BY DEF Types
<1>7. ASSUME NEW k \in Lookup, NEW m \in Lookup, Uses(k)', Uses(m)', lookup'[k].addr = lookup'[m].addr, k # m
      PROVE  k \in pending'[m] \/ m \in pending'[k]
  BY <1>2, <1>3, <1>4, <1>7 DEF Queued
<1>8. \A k \in Lookup : \A m \in pending'[k] : Uses(m)'
  BY <1>2, <1>3, <1>6 DEF Queued
<1>9. \A k \in Lookup : Asks(k)' => pending'[k] = {}
  BY <1>2, <1>5 DEF Queued
<1> QED
  BY <1>7, <1>8, <1>9 DEF Queued

LEMMA QueueOfLookup ==
  ASSUME Types, Queued, NEW l \in Lookup, NEW w \in LookupStates, LookupBecomes(l, w) PROVE Queued'
<1>0. lookup' = [lookup EXCEPT ![l] = w] /\ w.addr = lookup[l].addr /\ QueueStep(l, w)
  BY DEF LookupBecomes
<1>1. CASE Stays(l, w)
  BY <1>0, <1>1, QueueStays
<1>2. CASE /\ lookup[l].pc = "pend" /\ w.pc = "wait"
           /\ pending' = [pending EXCEPT ![l] = {m \in Lookup : Uses(m) /\ lookup[m].addr = lookup[l].addr}]
  BY <1>0, <1>2, QueueJoined
<1>3. CASE w.pc \notin LockPcs /\ pending' = Leave({l})
  <2>1. \A m \in Lookup \ {l} : lookup'[m] = lookup[m]
    BY <1>0 DEF Types
  <2>2. ~Uses(l)'
    BY <1>0, <1>3 DEF Uses, LockPcs, Types
  <2> DEFINE L == {l}
  <2>3. L \in SUBSET Lookup /\ pending' = Leave(L) /\ \A m \in L : ~Uses(m)'
    BY <1>3, <2>2
  <2>4. \A m \in Lookup \ L : lookup'[m] = lookup[m]
    BY <2>1
  <2> HIDE DEF L
  <2> QED
    BY <2>3, <2>4, QueueLeft
<1> QED
  BY <1>0, <1>1, <1>2, <1>3 DEF QueueStep
----------------------------------------------------------------------------
(* Freshness.                                                              *)

LEMMA FreshStays ==
  ASSUME Types, AllFresh, UNCHANGED <<entries, held, age>>,
         \A m \in Lookup : lookup'[m].pc = "answer" => lookup'[m] = lookup[m]
  PROVE  AllFresh'
BY DEF AllFresh

\* The lookups that ask at one address are one.
LEMMA OneAsks ==
  ASSUME Types, Queued, NEW l \in Lookup, NEW m \in Lookup, Asks(l), Asks(m), lookup[l].addr = lookup[m].addr
  PROVE  l = m
<1>1. Uses(l) /\ Uses(m) /\ pending[l] = {} /\ pending[m] = {}
  BY DEF Queued, Asks, Uses
<1> QED
  BY <1>1 DEF Queued

LEMMA AskedOfLookup ==
  ASSUME Types, Queued, Asked, NEW l \in Lookup, NEW w \in LookupStates, LookupBecomes(l, w) PROVE Asked'
<1>0. lookup' = [lookup EXCEPT ![l] = w] /\ w.addr = lookup[l].addr /\ AskStep(l, w)
  BY DEF LookupBecomes
<1> DEFINE Free(b) == entries'[b] = None \/ entries'[b].left = 0
<1>1. SUFFICES ASSUME NEW m \in Lookup, Asks(m)' PROVE Free(lookup'[m].addr)
  BY DEF Asked, NoEntry
<1>2. lookup'[m] = IF m = l THEN w ELSE lookup[m]
  BY <1>0 DEF Types
<1>3. lookup[m].pc # "unused" => lookup[m].addr \in Addr
  BY LookupFields DEF Types
<1>4. w.pc # "unused" => w.addr \in Addr
  BY LookupFields
<1>5. CASE m = l
  <2>1. w.pc \in AskPcs /\ w.addr \in Addr /\ lookup'[m].addr = w.addr
    BY <1>1, <1>2, <1>4, <1>5 DEF Asks, AskPcs
  <2>2. CASE entries'[w.addr] = None
    BY <2>1, <2>2 DEF NoEntry
  <2>3. CASE lookup[l].pc \in AskPcs
    <3>1. NoEntry(w.addr)
      BY <1>0, <2>3 DEF Asked, Asks, AskPcs
    <3>2. entries'[w.addr] \in {entries[w.addr], None}
      BY <1>0, <2>1 DEF AskStep, AskPcs, EntriesDrop
    <3> QED
      BY <2>1, <3>1, <3>2 DEF NoEntry
  <2> QED
    BY <1>0, <2>1, <2>2, <2>3 DEF AskStep
<1>6. CASE m # l
  <2>1. Asks(m) /\ lookup'[m] = lookup[m] /\ lookup[m].addr \in Addr
    BY <1>1, <1>2, <1>3, <1>6 DEF Asks
  <2>2. NoEntry(lookup[m].addr)
    BY <2>1 DEF Asked
  <2>3. lookup[l].pc = "answer" => lookup[m].addr # lookup[l].addr
    BY <1>6, <2>1, OneAsks DEF Asks
  <2>4. entries'[lookup[m].addr] \in {entries[lookup[m].addr], None}
    BY <1>0, <2>1, <2>3 DEF AskStep, EntriesDrop
  <2> QED
    BY <2>1, <2>2, <2>4 DEF NoEntry
<1> QED
  BY <1>5, <1>6

LEMMA FreshOfLookup ==
  ASSUME Types, Queued, Asked, AllFresh, NEW l \in Lookup, NEW w \in LookupStates, LookupBecomes(l, w)
  PROVE  AllFresh' /\ age' \in [Addr -> [Records -> 0 .. Cap]]
<1>0. /\ lookup' = [lookup EXCEPT ![l] = w] /\ held' = held /\ EntriesStep /\ AgeStep(l, w)
      /\ w.addr = lookup[l].addr /\ lookup[l].pc # "unused"
  BY DEF LookupBecomes
<1> DEFINE a == w.addr
<1>a. a \in Addr /\ {} \in Records
  BY <1>0, LookupFields DEF Types, Records
<1>b. \A m \in Lookup : lookup'[m] = IF m = l THEN w ELSE lookup[m]
  BY <1>0 DEF Types
<1>1. CASE age' = age
  <2>1. ASSUME NEW b \in Addr, NEW e \in {entries'[b]} \ {None} PROVE EntryFresh(b, e, age'[b])
    <3>1. CASE entries'[b] = entries[b]
      BY <1>1, <2>1, <3>1 DEF AllFresh
    <3>2. CASE EntryFresh(b, entries'[b], age[b])
      BY <1>1, <2>1, <3>2
    <3> QED
      BY <1>0, <2>1, <3>1, <3>2 DEF EntriesStep
  <2>2. ASSUME NEW m \in Lookup, lookup'[m].pc = "answer"
        PROVE  AnswerFresh(lookup'[m], age'[lookup'[m].addr])
    BY <1>0, <1>1, <1>b, <2>2 DEF AllFresh, AgeStep
  <2> QED
    BY <1>0, <1>1, <2>1, <2>2 DEF AllFresh, Types
<1>2. CASE /\ lookup[l].pc = "ask" /\ entries' = entries
           /\ \E n \in {0, AgeCap({})} : age' = [age EXCEPT ![a][{}] = n]
  <2>1. PICK n \in {0, AgeCap({})} : age' = [age EXCEPT ![a][{}] = n]
    BY <1>2
  <2>2. /\ \A b \in Addr \ {a} : age'[b] = age[b]
        /\ \A r \in Records \ {{}} : age'[a][r] = age[a][r]
    BY <1>a, <2>1 DEF Types
  <2>3. age' \in [Addr -> [Records -> 0 .. Cap]]
    <3>1. n \in 0 .. Cap
      BY LimitAssumption, TtlAssumption DEF AgeCap, Cap
    <3>2. age[a] \in [Records -> 0 .. Cap]
      BY <1>a DEF Types
    <3>3. [age[a] EXCEPT ![{}] = n] \in [Records -> 0 .. Cap]
      BY <3>1, <3>2
    <3>4. age' = [age EXCEPT ![a] = [age[a] EXCEPT ![{}] = n]]
      BY <1>a, <2>1 DEF Types
    <3> QED
      BY <3>3, <3>4 DEF Types
  <2>4. ASSUME NEW b \in Addr, NEW e \in {entries'[b]} \ {None} PROVE EntryFresh(b, e, age'[b])
    <3>1. e = entries[b] /\ e # None /\ EntryFresh(b, e, age[b])
      BY <1>2, <2>4 DEF AllFresh
    <3>2. CASE b # a
      BY <2>2, <3>1, <3>2
    <3>3. CASE b = a
      <4>1. e.left = 0
        BY <1>0, <1>2, <3>1, <3>3 DEF Asked, Asks, NoEntry
      <4> QED
        BY <3>1, <4>1 DEF EntryFresh
    <3> QED
      BY <3>2, <3>3
  <2>5. ASSUME NEW m \in Lookup, lookup'[m].pc = "answer"
        PROVE  AnswerFresh(lookup'[m], age'[lookup'[m].addr])
    <3>1. CASE m = l
      BY <1>0, <1>b, <2>5, <3>1 DEF AgeStep
    <3>2. CASE m # l
      <4>1. lookup'[m] = lookup[m] /\ lookup[m].pc = "answer" /\ lookup[m].addr \in Addr
        BY <1>b, <2>5, <3>2, LookupFields DEF Types
      <4>2. lookup[m].addr # a
        BY <1>0, <1>2, <3>2, <4>1, OneAsks DEF Asks
      <4> QED
        BY <2>2, <4>1, <4>2 DEF AllFresh
    <3> QED
      BY <3>1, <3>2
  <2>6. ASSUME NEW b \in Addr, NEW r \in Records, FoundIn(r, b, held[b]) PROVE age'[b][r] = 0
    BY <2>2, <2>6 DEF AllFresh, FoundIn
  <2> QED
    BY <1>0, <2>3, <2>4, <2>5, <2>6 DEF AllFresh
<1> QED
  BY <1>0, <1>1, <1>2 DEF AgeStep

LEMMA FreshOfServers ==
  ASSUME Types, AllFresh, NEW a \in Addr, NEW v \in Values[a], ServersChange(a, v)
  PROVE  /\ AllFresh' /\ held' \in [Addr -> Records]
         /\ age' \in [Addr -> [Records -> 0 .. Cap]]
<1>0. v \in Records
  BY ValuesAssumption DEF Records
<1>1. UNCHANGED <<entries, pending, lookup>> /\ held' = [held EXCEPT ![a] = v]
      /\ age' = [age EXCEPT ![a] = [r \in Records |-> IF FoundIn(r, a, v) THEN 0 ELSE age[a][r]]]
  BY DEF ServersChange
<1>3. [r \in Records |-> IF FoundIn(r, a, v) THEN 0 ELSE age[a][r]] \in [Records -> 0 .. Cap]
  BY LimitAssumption, TtlAssumption DEF Types, Cap
<1>4. held' \in [Addr -> Records] /\ age' \in [Addr -> [Records -> 0 .. Cap]]
  BY <1>0, <1>1, <1>3 DEF Types
<1>5. \A b \in Addr, r \in Records :
        age'[b][r] = IF b = a /\ FoundIn(r, a, v) THEN 0 ELSE age[b][r]
  BY <1>1 DEF Types
<1>6. \A b \in Addr, r \in Records : age'[b][r] \in Nat /\ age'[b][r] <= age[b][r] /\ age[b][r] \in Nat
  BY <1>5, AgesAreNumbers
<1>7. ASSUME NEW b \in Addr, NEW e \in {entries'[b]} \ {None} PROVE EntryFresh(b, e, age'[b])
  <2>1. EntryFresh(b, e, age[b]) /\ e \in EntryStates
    BY <1>1, <1>7 DEF AllFresh, Types
  <2>2. e.records \in Records /\ e.left \in Nat
    BY <2>1, TtlAssumption DEF EntryStates
  <2>3. age'[b][e.records] \in Nat /\ age'[b][e.records] <= age[b][e.records] /\ age[b][e.records] \in Nat
        /\ ttl(e.records) \in Nat
    BY <1>6, <2>2, TtlBounds, TtlAssumption
  <2> QED
    BY <2>1, <2>2, <2>3, LimitAssumption DEF EntryFresh
<1>8. ASSUME NEW m \in Lookup, lookup'[m].pc = "answer"
      PROVE  AnswerFresh(lookup'[m], age'[lookup'[m].addr])
  <2> DEFINE w == lookup[m]
  <2>1. lookup'[m] = w /\ w \in LookupStates /\ w.pc = "answer" /\ AnswerFresh(w, age[w.addr])
    BY <1>1, <1>8 DEF Types, AllFresh
  <2>2. w.addr \in Addr /\ w.value \in Records /\ w.left \in Nat
    BY <2>1, LookupFields, LimitAssumption
  <2>3. decode(w.value, w.addr) \in Records
    BY <2>2, DecodeBound
  <2> HIDE DEF w
  <2> QED
    BY <1>6, <2>1, <2>2, <2>3, LimitAssumption DEF AnswerFresh
<1>9. ASSUME NEW b \in Addr, NEW r \in Records, FoundIn(r, b, held'[b]) PROVE age'[b][r] = 0
  <2>1. held'[b] = IF b = a THEN v ELSE held[b]
    BY <1>1 DEF Types
  <2> QED
    BY <1>5, <1>9, <2>1 DEF AllFresh
<1> QED
  BY <1>4, <1>7, <1>8, <1>9 DEF AllFresh

\* A tick makes everything at most one tick older, and takes as much of its time.
LEMMA TickEffect ==
  ASSUME Types, Tick
  PROVE  /\ entries' \in [Addr -> EntryStates \cup {None}]
         /\ lookup' \in [Lookup -> LookupStates]
         /\ age' \in [Addr -> [Records -> 0 .. Cap]]
         /\ \A a \in Addr : \/ entries'[a] = entries[a] /\ (entries[a] # None => entries[a].left = 0)
                            \/ /\ entries[a] # None /\ entries[a].left > 0 /\ entries'[a] # None
                               /\ entries'[a].records = entries[a].records
                               /\ entries'[a].left = entries[a].left - 1
         /\ \A l \in Lookup : \/ lookup'[l] = lookup[l] /\ lookup[l].pc # "answer"
                              \/ /\ lookup[l].pc = "answer" /\ lookup'[l].pc = "answer"
                                 /\ lookup'[l].addr = lookup[l].addr /\ lookup'[l].value = lookup[l].value
                                 /\ lookup'[l].left = lookup[l].left - 1
         /\ \A a \in Addr, r \in Records : age'[a][r] \in Nat /\ age'[a][r] <= age[a][r] + 1
         /\ \A a \in Addr, r \in Records : FoundIn(r, a, held[a]) => age'[a][r] = 0
<1>1. ASSUME NEW a \in Addr
      PROVE  /\ entries'[a] \in EntryStates \cup {None}
             /\ \/ entries'[a] = entries[a] /\ (entries[a] # None => entries[a].left = 0)
                \/ /\ entries[a] # None /\ entries[a].left > 0 /\ entries'[a] # None
                   /\ entries'[a].records = entries[a].records
                   /\ entries'[a].left = entries[a].left - 1
  <2> DEFINE e == entries[a]
  <2>1. entries'[a] = IF e # None /\ e.left > 0 THEN [e EXCEPT !.left = e.left - 1] ELSE e
    BY DEF Tick
  <2>2. e \in EntryStates \cup {None}
    BY DEF Types
  <2>3. e # None => e.left \in Nat
    BY <2>2, TtlAssumption DEF EntryStates
  <2>4. CASE e # None /\ e.left > 0
    <3> DEFINE x == [e EXCEPT !.left = e.left - 1]
    <3>1. x \in EntryStates /\ x.records = e.records /\ x.left = e.left - 1
      BY <2>2, <2>4, EntryOlder
    <3>2. entries'[a] = x
      BY <2>1, <2>4
    <3> HIDE DEF x
    <3> QED
      BY <2>4, <3>1, <3>2, NoneAssumption
  <2>5. CASE ~(e # None /\ e.left > 0)
    BY <2>1, <2>2, <2>3, <2>5
  <2> QED
    BY <2>4, <2>5
<1>2. ASSUME NEW l \in Lookup
      PROVE  /\ lookup'[l] \in LookupStates
             /\ \/ lookup'[l] = lookup[l] /\ lookup[l].pc # "answer"
                \/ /\ lookup[l].pc = "answer" /\ lookup'[l].pc = "answer"
                   /\ lookup'[l].addr = lookup[l].addr /\ lookup'[l].value = lookup[l].value
                   /\ lookup'[l].left = lookup[l].left - 1
  <2> DEFINE w == lookup[l]
             x == [w EXCEPT !.left = w.left - 1]
  <2>1. lookup'[l] = IF w.pc = "answer" THEN x ELSE w
    BY DEF Tick
  <2>2. w \in LookupStates /\ (w.pc = "answer" => w.left > 0)
    BY DEF Types, Tick
  <2>3. w.pc = "answer" =>
          x \in LookupStates /\ x.pc = "answer" /\ x.addr = w.addr /\ x.value = w.value /\ x.left = w.left - 1
    BY <2>2, LookupOlder
  <2> HIDE DEF x
  <2> QED
    BY <2>1, <2>2, <2>3
<1>3. ASSUME NEW a \in Addr, NEW r \in Records
      PROVE  age'[a][r] \in 0 .. Cap /\ age'[a][r] <= age[a][r] + 1
  <2>1. age'[a][r] = IF FoundIn(r, a, held[a]) THEN 0 ELSE Older(r, age[a][r])
    BY DEF Tick
  <2> QED
    BY <2>1, AgesAreNumbers, LimitAssumption, TtlAssumption DEF Older, AgeCap, Cap
<1>4. \A a \in Addr, r \in Records : FoundIn(r, a, held[a]) => age'[a][r] = 0
  BY DEF Tick
<1>5. entries' \in [Addr -> EntryStates \cup {None}]
  <2>1. entries' = [a \in Addr |-> entries'[a]]
    BY DEF Tick
  <2> QED
    BY <1>1, <2>1
<1>6. lookup' \in [Lookup -> LookupStates]
  <2>1. lookup' = [l \in Lookup |-> lookup'[l]]
    BY DEF Tick
  <2> QED
    BY <1>2, <2>1
<1>7. age' \in [Addr -> [Records -> 0 .. Cap]]
  <2>1. age' = [a \in Addr |-> [r \in Records |-> age'[a][r]]]
    BY DEF Tick
  <2> QED
    BY <1>3, <2>1
<1>8. \A a \in Addr, r \in Records : age'[a][r] \in Nat /\ age'[a][r] <= age[a][r] + 1
  BY <1>3, LimitAssumption, TtlAssumption DEF Cap
<1> QED
  BY <1>1, <1>2, <1>4, <1>5, <1>6, <1>7, <1>8

LEMMA FreshOfTick ==
  ASSUME Types, AllFresh, Tick PROVE AllFresh'
<1>0. UNCHANGED <<pending, held>>
  BY DEF Tick
<1>1. ASSUME NEW b \in Addr, NEW e \in {entries'[b]} \ {None} PROVE EntryFresh(b, e, age'[b])
  <2> DEFINE d == entries[b]
  <2>1. \/ e = d /\ d # None /\ d.left = 0
        \/ d # None /\ d.left > 0 /\ e.records = d.records /\ e.left = d.left - 1
    BY <1>1, TickEffect
  <2>2. d \in EntryStates /\ EntryFresh(b, d, age[b])
    BY <2>1 DEF Types, AllFresh
  <2>3. d.records \in Records /\ d.left \in Nat
    BY <2>2, TtlAssumption DEF EntryStates
  <2>4. /\ age'[b][d.records] \in Nat /\ age'[b][d.records] <= age[b][d.records] + 1
        /\ age[b][d.records] \in Nat /\ ttl(d.records) \in Nat
    BY <2>3, TickEffect, AgesAreNumbers, TtlBounds, TtlAssumption
  <2> HIDE DEF d
  <2> QED
    BY <2>1, <2>2, <2>3, <2>4, LimitAssumption DEF EntryFresh
<1>2. ASSUME NEW m \in Lookup, lookup'[m].pc = "answer"
      PROVE  AnswerFresh(lookup'[m], age'[lookup'[m].addr])
  <2> DEFINE w == lookup[m]
  <2>1. /\ w.pc = "answer" /\ lookup'[m].addr = w.addr /\ lookup'[m].value = w.value
        /\ lookup'[m].left = w.left - 1
    BY <1>2, TickEffect
  <2>2. w \in LookupStates /\ AnswerFresh(w, age[w.addr])
    BY <2>1 DEF Types, AllFresh
  <2>3. w.addr \in Addr /\ w.value \in Records /\ w.left \in Nat
    BY <2>1, <2>2, LookupFields, LimitAssumption
  <2>4. decode(w.value, w.addr) \in Records
    BY <2>3, DecodeBound
  <2>5. /\ age'[w.addr][decode(w.value, w.addr)] \in Nat /\ age[w.addr][decode(w.value, w.addr)] \in Nat
        /\ age'[w.addr][decode(w.value, w.addr)] <= age[w.addr][decode(w.value, w.addr)] + 1
    BY <2>3, <2>4, TickEffect, AgesAreNumbers
  <2> HIDE DEF w
  <2> QED
    BY <2>1, <2>2, <2>3, <2>5, LimitAssumption DEF AnswerFresh
<1> QED
  BY <1>0, <1>1, <1>2, TickEffect DEF AllFresh
----------------------------------------------------------------------------
(* The streams.                                                            *)

LEMMA CallGoes ==
  ASSUME NEW c \in CallStates, NEW pc \in {"start", "loop", "ended", "error", "dropped"}
  PROVE  LET x == [c EXCEPT !.pc = pc]
         IN  /\ x \in CallStates /\ x.pc = pc
             /\ x.peers = c.peers /\ x.known = c.known /\ x.yielded = c.yielded
BY DEF CallStates

LEMMA CallDone ==
  ASSUME NEW c \in CallStates
  PROVE  LET x == [c EXCEPT !.done = TRUE]
         IN  /\ x \in CallStates /\ x.pc = c.pc
             /\ x.peers = c.peers /\ x.known = c.known /\ x.yielded = c.yielded
BY DEF CallStates

LEMMA CallKnows ==
  ASSUME NEW c \in CallStates, NEW K \in SUBSET Addr
  PROVE  LET x == [c EXCEPT !.known = K]
         IN  /\ x \in CallStates /\ x.pc = c.pc /\ x.batches = c.batches
             /\ x.peers = c.peers /\ x.known = K /\ x.yielded = c.yielded
BY DEF CallStates

LEMMA CallQueues ==
  ASSUME NEW c \in CallStates, NEW q \in Seq(Addr)
  PROVE  LET x == [c EXCEPT !.peers = q]
         IN  /\ x \in CallStates /\ x.pc = c.pc /\ x.batches = c.batches
             /\ x.peers = q /\ x.known = c.known /\ x.yielded = c.yielded
BY DEF CallStates

LEMMA CallCounts ==
  ASSUME NEW c \in CallStates, NEW n \in 0 .. MaxBatches
  PROVE  LET x == [c EXCEPT !.batches = n]
         IN  /\ x \in CallStates /\ x.pc = c.pc
             /\ x.peers = c.peers /\ x.known = c.known /\ x.yielded = c.yielded
BY DEF CallStates

LEMMA CallYields ==
  ASSUME NEW c \in CallStates, NEW Y \in SUBSET Endpoint
  PROVE  LET x == [c EXCEPT !.yielded = Y]
         IN  /\ x \in CallStates /\ x.pc = c.pc
             /\ x.peers = c.peers /\ x.known = c.known /\ x.yielded = Y
BY DEF CallStates

LEMMA CallFlags ==
  ASSUME NEW c \in CallStates, NEW b \in BOOLEAN
  PROVE  \A x \in {[c EXCEPT !.failed = b], [c EXCEPT !.ok = b]} :
             /\ x \in CallStates /\ x.pc = c.pc
             /\ x.peers = c.peers /\ x.known = c.known /\ x.yielded = c.yielded
BY DEF CallStates

\* The stream t is not concerned: its lookups go on, and nothing else of it changes.
Aside(t) ==
  /\ call'[t] = call[t] /\ announced'[t] = announced[t] /\ resolved'[t] = resolved[t]
  /\ found'[t] = found[t]
  /\ \A i \in Slot : /\ lookup'[<<t, i>>].pc = "unused" <=> lookup[<<t, i>>].pc = "unused"
                     /\ lookup[<<t, i>>].pc # "unused" => lookup'[<<t, i>>].addr = lookup[<<t, i>>].addr

StreamGood(t) == StreamBound(t) /\ StreamComplete(t)

LEMMA StreamAside ==
  ASSUME NEW t \in Stream, StreamGood(t), Aside(t) PROVE StreamGood(t)'
<1>1. StreamBound(t)'
  BY DEF StreamGood, StreamBound, Aside, Named
<1>2. ASSUME NEW a, Attended(t, a) PROVE Attended(t, a)'
  BY <1>2 DEF Attended, Aside
<1>3. StreamComplete(t)'
  BY <1>2 DEF StreamGood, StreamComplete, Aside
<1> QED
  BY <1>1, <1>3 DEF StreamGood

\* A step of stream s that leaves its lookups alone.
LEMMA StreamGoes ==
  ASSUME Types, NEW s \in Stream, StreamGood(s), UNCHANGED <<cacheVars, announced, resolved, found>>,
         NEW c \in CallStates, call' = [call EXCEPT ![s] = c],
         c.peers = call[s].peers, c.known = call[s].known, c.yielded = call[s].yielded,
         c.pc = "start" => call[s].pc = "start", c.pc = "loop" => call[s].pc \in {"start", "loop"}
  PROVE  StreamGood(s)'
<1>1. call'[s] = c
  BY DEF Types
<1>2. UNCHANGED <<lookup, announced, resolved, found>>
  BY DEF cacheVars
<1>3. StreamBound(s)'
  BY <1>1, <1>2 DEF StreamGood, StreamBound, Named
<1>4. ASSUME NEW a, Attended(s, a) PROVE Attended(s, a)'
  BY <1>1, <1>2, <1>4 DEF Attended
<1>5. StreamComplete(s)'
  BY <1>1, <1>2, <1>4 DEF StreamGood, StreamComplete
<1> QED
  BY <1>3, <1>5 DEF StreamGood
\* What the steps of a stream keep: its types, what was found of it, and the other streams.
StreamTypes ==
  /\ lookup' \in [Lookup -> LookupStates]
  /\ call' \in [Stream -> CallStates]
  /\ announced' \in [Stream -> SUBSET Addr] /\ resolved' \in [Stream -> SUBSET Addr]
  /\ found' \in [Stream -> SUBSET Endpoint]

StreamKept(s) == StreamTypes /\ StreamGood(s)' /\ \A t \in Stream \ {s} : Aside(t)

LEMMA PairIsLookup ==
  ASSUME NEW s \in Stream, NEW i \in Slot PROVE <<s, i>> \in Lookup
BY LookupAssumption

\* The calls that only move on.
LEMMA CallMoves ==
  ASSUME Types, NEW s \in Stream, StreamGood(s),
         GetPeers(s) \/ PeersDone(s) \/ Ends(s) \/ (Again(s) /\ gone)
  PROVE  StreamKept(s)
<1>1. UNCHANGED <<cacheVars, announced, resolved, found>>
  <2>1. CASE GetPeers(s) \/ PeersDone(s) \/ Ends(s)
    BY <2>1 DEF GetPeers, PeersDone, Ends
  <2>2. CASE Again(s) /\ gone
    BY <2>2 DEF Again, Types
  <2> QED
    BY <2>1, <2>2
<1>2. call \in [Stream -> CallStates] /\ call[s] \in CallStates
  BY DEF Types
<1>3. \E c \in CallStates : /\ call' = [call EXCEPT ![s] = c]
                            /\ c.peers = call[s].peers /\ c.known = call[s].known /\ c.yielded = call[s].yielded
                            /\ c.pc = "start" => call[s].pc = "start"
                            /\ c.pc = "loop" => call[s].pc \in {"start", "loop"}
  <2>1. CASE PeersDone(s)
    <3> DEFINE c == [call[s] EXCEPT !.done = TRUE]
    <3>1. /\ c \in CallStates /\ c.pc = call[s].pc
          /\ c.peers = call[s].peers /\ c.known = call[s].known /\ c.yielded = call[s].yielded
      BY <1>2, CallDone
    <3>2. call' = [call EXCEPT ![s] = c] /\ call[s].pc = "loop"
      BY <2>1 DEF PeersDone
    <3> HIDE DEF c
    <3> QED
      BY <3>1, <3>2
  <2>2. CASE GetPeers(s) \/ Ends(s) \/ (Again(s) /\ gone)
    <3>1. PICK pc \in {"loop", "ended", "error"} :
            /\ call' = [call EXCEPT ![s] = [call[s] EXCEPT !.pc = pc]]
            /\ call[s].pc \in {"start", "loop"}
      BY <2>2 DEF GetPeers, Ends, Again, Goto, Over
    <3> DEFINE c == [call[s] EXCEPT !.pc = pc]
    <3>2. /\ c \in CallStates /\ c.pc = pc
          /\ c.peers = call[s].peers /\ c.known = call[s].known /\ c.yielded = call[s].yielded
      <4>1. pc \in {"start", "loop", "ended", "error", "dropped"}
        OBVIOUS
      <4> QED
        BY <1>2, <4>1, CallGoes
    <3>3. call' = [call EXCEPT ![s] = c]
      BY <3>1
    <3> HIDE DEF c
    <3> QED
      BY <3>1, <3>2, <3>3
  <2> QED
    BY <2>1, <2>2
<1>4. PICK c \in CallStates : /\ call' = [call EXCEPT ![s] = c]
                              /\ c.peers = call[s].peers /\ c.known = call[s].known /\ c.yielded = call[s].yielded
                              /\ c.pc = "start" => call[s].pc = "start"
                              /\ c.pc = "loop" => call[s].pc \in {"start", "loop"}
  BY <1>3
<1>5. StreamGood(s)'
  BY <1>1, <1>4, StreamGoes
<1>6. StreamTypes
  BY <1>1, <1>2, <1>4 DEF StreamTypes, Types, cacheVars
<1>7. \A t \in Stream \ {s} : Aside(t)
  BY <1>1, <1>2, <1>4 DEF Aside, cacheVars
<1> QED
  BY <1>5, <1>6, <1>7 DEF StreamKept

\* resolve_continuously starts over.
LEMMA CallAgain ==
  ASSUME Types, NEW s \in Stream, StreamGood(s), Again(s), ~gone
  PROVE  StreamKept(s)
<1>1. /\ call' = [call EXCEPT ![s] = Fresh] /\ announced' = [announced EXCEPT ![s] = {}]
      /\ resolved' = [resolved EXCEPT ![s] = {}] /\ found' = [found EXCEPT ![s] = {}]
      /\ lookup' = lookup
  BY DEF Again, cacheVars
<1>2. /\ Fresh \in CallStates /\ Fresh.pc = "start" /\ Fresh.yielded = {} /\ Fresh.known = {}
      /\ Fresh.peers = <<>>
  BY BatchBoundAssumption DEF Fresh, CallStates
<1>3. StreamTypes
  BY <1>1, <1>2 DEF StreamTypes, Types
<1>4. call'[s] = Fresh /\ announced'[s] = {} /\ resolved'[s] = {} /\ found'[s] = {}
  BY <1>1 DEF Types
<1>5. \A i \in Slot : lookup'[<<s, i>>].pc = "unused"
  BY <1>1 DEF Again, Over, Active
<1>6. StreamGood(s)'
  BY <1>2, <1>4, <1>5 DEF StreamGood, StreamBound, StreamComplete, Named
<1>7. \A t \in Stream \ {s} : Aside(t)
  BY <1>1 DEF Aside, Types
<1> QED
  BY <1>3, <1>6, <1>7 DEF StreamKept

LEMMA CallBatch ==
  ASSUME Types, NEW s \in Stream, StreamGood(s), NEW batch \in Batches[s], PeersBatch(s, batch)
  PROVE  StreamKept(s)
<1>0. batch \in Seq(Addr)
  BY BatchesAssumption
<1>1. call[s] \in CallStates /\ call[s].pc = "loop" /\ call[s].batches + 1 \in 0 .. MaxBatches
      /\ call[s].peers \in Seq(Addr) /\ call[s].known \in SUBSET Addr
  BY BatchBoundAssumption DEF Types, PeersBatch, CallStates
<1>2. Range(batch) \in SUBSET Addr /\ \A a \in Range(batch) : \E n \in 1 .. Len(batch) : batch[n] = a
  BY <1>0 DEF Range
<1>3. announced' = [announced EXCEPT ![s] = announced[s] \cup Range(batch)]
      /\ UNCHANGED <<lookup, resolved, found>>
  BY DEF PeersBatch, cacheVars
<1>4. \E c \in CallStates :
        /\ call' = [call EXCEPT ![s] = c] /\ c.pc = "loop" /\ c.yielded = call[s].yielded
        /\ \/ c.known = call[s].known \cup Range(batch) /\ c.peers = call[s].peers
           \/ c.known = call[s].known /\ c.peers = call[s].peers \o batch
  <2>1. CASE Mode[s] = "once"
    <3> DEFINE K == call[s].known \cup Range(batch)
               y == [call[s] EXCEPT !.known = K]
               c == [y EXCEPT !.batches = call[s].batches + 1]
    <3>1. K \in SUBSET Addr
      BY <1>1, <1>2
    <3>2. /\ y \in CallStates /\ y.pc = "loop" /\ y.peers = call[s].peers /\ y.known = K
          /\ y.yielded = call[s].yielded
      <4> HIDE DEF K
      <4> QED
        BY <1>1, <3>1, CallKnows
    <3>3. call' = [call EXCEPT ![s] = c]
      BY <2>1 DEF PeersBatch
    <3> HIDE DEF y
    <3>4. c \in CallStates /\ c.pc = "loop" /\ c.peers = call[s].peers /\ c.known = K /\ c.yielded = call[s].yielded
      BY <1>1, <3>2, CallCounts
    <3> HIDE DEF c
    <3> QED
      BY <3>3, <3>4
  <2>2. CASE Mode[s] # "once"
    <3> DEFINE q == call[s].peers \o batch
               y == [call[s] EXCEPT !.peers = q]
               c == [y EXCEPT !.batches = call[s].batches + 1]
    <3>1. q \in Seq(Addr)
      BY <1>0, <1>1
    <3>2. /\ y \in CallStates /\ y.pc = "loop" /\ y.peers = q /\ y.known = call[s].known
          /\ y.yielded = call[s].yielded
      <4> HIDE DEF q
      <4> QED
        BY <1>1, <3>1, CallQueues
    <3>3. call' = [call EXCEPT ![s] = c]
      BY <2>2 DEF PeersBatch
    <3> HIDE DEF y
    <3>4. c \in CallStates /\ c.pc = "loop" /\ c.peers = q /\ c.known = call[s].known /\ c.yielded = call[s].yielded
      BY <1>1, <3>2, CallCounts
    <3> HIDE DEF c
    <3> QED
      BY <3>3, <3>4
  <2> QED
    BY <2>1, <2>2
<1>5. PICK c \in CallStates :
        /\ call' = [call EXCEPT ![s] = c] /\ c.pc = "loop" /\ c.yielded = call[s].yielded
        /\ \/ c.known = call[s].known \cup Range(batch) /\ c.peers = call[s].peers
           \/ c.known = call[s].known /\ c.peers = call[s].peers \o batch
  BY <1>4
<1>6. call'[s] = c /\ announced'[s] = announced[s] \cup Range(batch)
  BY <1>3, <1>5 DEF Types
<1>7. StreamTypes
  BY <1>2, <1>3, <1>5 DEF StreamTypes, Types
<1>8. StreamBound(s)'
  <2>1. \A n \in 1 .. Len(c.peers) : c.peers[n] \in announced[s] \cup Range(batch)
    <3>1. CASE c.peers = call[s].peers
      BY <3>1 DEF StreamGood, StreamBound
    <3>2. CASE c.peers = call[s].peers \o batch
      <4> DEFINE q == call[s].peers
      <4>1. q \in Seq(Addr) /\ \A n \in 1 .. Len(q) : q[n] \in announced[s]
        BY <1>1 DEF StreamGood, StreamBound
      <4>2. \A n \in 1 .. Len(batch) : batch[n] \in Range(batch)
        BY <1>0 DEF Range
      <4> HIDE DEF q
      <4>3. \A n \in 1 .. Len(q \o batch) : (q \o batch)[n] \in announced[s] \cup Range(batch)
        BY <1>0, <4>1, <4>2
      <4> QED
        BY <3>2, <4>3 DEF q
    <3> QED
      BY <1>5, <3>1, <3>2
  <2> QED
    BY <1>3, <1>5, <1>6, <2>1 DEF StreamGood, StreamBound, Named
<1>9. ASSUME NEW a \in announced'[s] PROVE Attended(s, a)'
  <2>1. CASE a \in announced[s]
    <3>1. Attended(s, a)
      BY <1>1, <2>1 DEF StreamGood, StreamComplete
    <3>2. ASSUME NEW n \in 1 .. Len(call[s].peers), call[s].peers[n] = a
          PROVE  \E k \in 1 .. Len(c.peers) : c.peers[k] = a
      BY <1>0, <1>1, <1>5, <3>2
    <3>3. call[s].known \subseteq c.known
      BY <1>5
    <3> QED
      BY <1>3, <1>6, <3>1, <3>2, <3>3 DEF Attended
  <2>2. CASE a \in Range(batch)
    <3>1. CASE c.known = call[s].known \cup Range(batch)
      BY <1>6, <2>2, <3>1 DEF Attended
    <3>2. CASE c.peers = call[s].peers \o batch
      <4>1. PICK n \in 1 .. Len(batch) : batch[n] = a
        BY <1>2, <2>2
      <4> DEFINE k == Len(call[s].peers) + n
      <4>2. k \in 1 .. Len(c.peers) /\ c.peers[k] = a
        BY <1>0, <1>1, <3>2, <4>1
      <4> QED
        BY <1>6, <4>2 DEF Attended
    <3> QED
      BY <1>5, <3>1, <3>2
  <2> QED
    BY <1>6, <1>9, <2>1, <2>2
<1>10. StreamComplete(s)'
  BY <1>3, <1>5, <1>6, <1>9 DEF StreamGood, StreamComplete
<1>11. \A t \in Stream \ {s} : Aside(t)
  BY <1>3, <1>5 DEF Aside, Types
<1> QED
  BY <1>7, <1>8, <1>10, <1>11 DEF StreamKept, StreamGood
\* A lookup takes the place of a peer that waited.
LEMMA CallStarts ==
  ASSUME Types, NEW s \in Stream, StreamGood(s), NEW i \in Slot, StartLookup(s, i)
  PROVE  /\ StreamKept(s)
         /\ \E a \in Addr : lookup' = [lookup EXCEPT ![<<s, i>>] = NewLookup(a)]
         /\ lookup[<<s, i>>].pc = "unused"
<1>0. lookup[<<s, i>>].pc = "unused" /\ call[s].pc = "loop" /\ <<s, i>> \in Lookup
  BY PairIsLookup DEF StartLookup, Active
<1>1. call[s] \in CallStates /\ call[s].peers \in Seq(Addr) /\ call[s].known \in SUBSET Addr
  BY DEF Types, CallStates
<1>2. UNCHANGED <<announced, resolved, found>>
  BY DEF StartLookup
<1>3. PICK a \in Addr :
        /\ lookup' = [lookup EXCEPT ![<<s, i>>] = NewLookup(a)]
        /\ \/ /\ a \in call[s].known
              /\ call' = [call EXCEPT ![s] = [call[s] EXCEPT !.known = call[s].known \ {a}]]
           \/ /\ call[s].peers # <<>> /\ a = Head(call[s].peers)
              /\ call' = [call EXCEPT ![s] = [call[s] EXCEPT !.peers = Tail(call[s].peers)]]
  BY DEF StartLookup
<1>4. \E c \in CallStates :
        /\ call' = [call EXCEPT ![s] = c] /\ c.pc = "loop" /\ c.yielded = call[s].yielded
        /\ \/ a \in call[s].known /\ c.known = call[s].known \ {a} /\ c.peers = call[s].peers
           \/ /\ call[s].peers # <<>> /\ a = Head(call[s].peers)
              /\ c.known = call[s].known /\ c.peers = Tail(call[s].peers)
  <2>1. CASE /\ a \in call[s].known
             /\ call' = [call EXCEPT ![s] = [call[s] EXCEPT !.known = call[s].known \ {a}]]
    <3> DEFINE K == call[s].known \ {a}
               c == [call[s] EXCEPT !.known = K]
    <3>1. K \in SUBSET Addr
      BY <1>1
    <3>2. /\ c \in CallStates /\ c.pc = "loop" /\ c.peers = call[s].peers /\ c.known = K
          /\ c.yielded = call[s].yielded
      <4> HIDE DEF K
      <4> QED
        BY <1>0, <1>1, <3>1, CallKnows
    <3>3. call' = [call EXCEPT ![s] = c]
      BY <2>1
    <3> HIDE DEF c
    <3> QED
      BY <2>1, <3>2, <3>3
  <2>2. CASE /\ call[s].peers # <<>> /\ a = Head(call[s].peers)
             /\ call' = [call EXCEPT ![s] = [call[s] EXCEPT !.peers = Tail(call[s].peers)]]
    <3> DEFINE q == Tail(call[s].peers)
               c == [call[s] EXCEPT !.peers = q]
    <3>1. q \in Seq(Addr)
      BY <1>1, <2>2
    <3>2. /\ c \in CallStates /\ c.pc = "loop" /\ c.peers = q /\ c.known = call[s].known
          /\ c.yielded = call[s].yielded
      <4> HIDE DEF q
      <4> QED
        BY <1>0, <1>1, <3>1, CallQueues
    <3>3. call' = [call EXCEPT ![s] = c]
      BY <2>2
    <3> HIDE DEF c
    <3> QED
      BY <2>2, <3>2, <3>3
  <2> QED
    BY <1>3, <2>1, <2>2
<1>5. PICK c \in CallStates :
        /\ call' = [call EXCEPT ![s] = c] /\ c.pc = "loop" /\ c.yielded = call[s].yielded
        /\ \/ a \in call[s].known /\ c.known = call[s].known \ {a} /\ c.peers = call[s].peers
           \/ /\ call[s].peers # <<>> /\ a = Head(call[s].peers)
              /\ c.known = call[s].known /\ c.peers = Tail(call[s].peers)
  BY <1>4
<1>6. call'[s] = c
  BY <1>5 DEF Types
<1>7. NewLookup(a) \in LookupStates /\ NewLookup(a).pc = "get" /\ NewLookup(a).addr = a
  BY LookupMakes
<1>8. \A t \in Stream, j \in Slot :
        lookup'[<<t, j>>] = IF t = s /\ j = i THEN NewLookup(a) ELSE lookup[<<t, j>>]
  BY <1>0, <1>3, PairIsLookup DEF Types
<1>9. a \in announced[s]
  BY <1>1, <1>5 DEF StreamGood, StreamBound
<1>10. StreamTypes
  BY <1>2, <1>3, <1>5, <1>7 DEF StreamTypes, Types
<1>11. StreamBound(s)'
  <2>1. \A j \in Slot : Named(s, lookup[<<s, j>>])'
    BY <1>2, <1>7, <1>8, <1>9 DEF StreamGood, StreamBound, Named
  <2>2. \A n \in 1 .. Len(c.peers) : c.peers[n] \in announced[s]
    <3> DEFINE q == call[s].peers
    <3>1. q \in Seq(Addr) /\ \A n \in 1 .. Len(q) : q[n] \in announced[s]
      BY <1>1 DEF StreamGood, StreamBound
    <3> HIDE DEF q
    <3>2. q # <<>> => \A n \in 1 .. Len(Tail(q)) : Tail(q)[n] \in announced[s]
      BY <3>1
    <3> QED
      BY <1>5, <3>1, <3>2 DEF q
  <2>3. c.known \subseteq announced[s] /\ \A x \in c.yielded : Home[x] \in announced[s]
    BY <1>5 DEF StreamGood, StreamBound
  <2> QED
    BY <1>2, <1>6, <2>1, <2>2, <2>3 DEF StreamBound
<1>12. ASSUME NEW b \in announced'[s] PROVE Attended(s, b)'
  <2>0. Attended(s, b)
    BY <1>0, <1>2, <1>12 DEF StreamGood, StreamComplete
  <2>1. CASE b = a
    BY <1>7, <1>8, <2>1 DEF Attended
  <2>2. CASE b # a
    <3>1. CASE b \in resolved[s] \/ b \in call[s].known
      BY <1>2, <1>5, <1>6, <2>2, <3>1 DEF Attended
    <3>2. CASE \E n \in 1 .. Len(call[s].peers) : call[s].peers[n] = b
      <4>1. PICK n \in 1 .. Len(call[s].peers) : call[s].peers[n] = b
        BY <3>2
      <4>2. CASE c.peers = call[s].peers
        BY <1>6, <4>1, <4>2 DEF Attended
      <4>3. CASE call[s].peers # <<>> /\ a = Head(call[s].peers) /\ c.peers = Tail(call[s].peers)
        <5>1. n # 1
          BY <1>1, <2>2, <4>1, <4>3
        <5>2. n - 1 \in 1 .. Len(c.peers) /\ c.peers[n - 1] = b
          BY <1>1, <4>1, <4>3, <5>1
        <5> QED
          BY <1>6, <5>2 DEF Attended
      <4> QED
        BY <1>5, <4>2, <4>3
    <3>3. CASE \E j \in Slot : lookup[<<s, j>>].pc # "unused" /\ lookup[<<s, j>>].addr = b
      BY <1>0, <1>8, <3>3 DEF Attended
    <3> QED
      BY <2>0, <3>1, <3>2, <3>3 DEF Attended
  <2> QED
    BY <2>1, <2>2
<1>13. StreamComplete(s)'
  BY <1>2, <1>5, <1>6, <1>12 DEF StreamGood, StreamComplete
<1>14. \A t \in Stream \ {s} : Aside(t)
  BY <1>2, <1>5, <1>8 DEF Aside, Types
<1> QED
  BY <1>0, <1>3, <1>10, <1>11, <1>13, <1>14 DEF StreamKept, StreamGood

\* A result is taken.
LEMMA CallTakes ==
  ASSUME Types, NEW s \in Stream, StreamGood(s), NEW i \in Slot, TakeResult(s, i),
         ResultBound(lookup[<<s, i>>])
  PROVE  StreamKept(s)
<1> DEFINE w == lookup[<<s, i>>]
           some == IF w.records = None THEN {} ELSE w.records
<1>0. w.pc = "done" /\ <<s, i>> \in Lookup /\ w \in LookupStates
  BY PairIsLookup DEF TakeResult, Types
<1>1. w.addr \in Addr /\ w.records \in Records \cup {None}
  BY <1>0, LookupFields
<1>2. some \in SUBSET Endpoint /\ \A x \in some : Home[x] = w.addr
  BY <1>0, <1>1 DEF Records, ResultBound
<1>3. w.addr \in announced[s]
  BY <1>0 DEF StreamGood, StreamBound, Named
<1>4. /\ lookup' = [lookup EXCEPT ![<<s, i>>] = Unused] /\ announced' = announced
      /\ resolved' = [resolved EXCEPT ![s] = resolved[s] \cup {w.addr}]
      /\ found' = [found EXCEPT ![s] = found[s] \cup some]
  BY DEF TakeResult
<1>5. \E c \in CallStates : /\ call' = [call EXCEPT ![s] = c] /\ c.pc = call[s].pc
                            /\ c.peers = call[s].peers /\ c.known = call[s].known
                            /\ c.yielded = call[s].yielded \cup some
  <2> DEFINE f == call[s].failed \/ (Mode[s] = "once" /\ w.records = None)
             g == call[s].ok \/ (Mode[s] = "once" /\ w.records # None)
             Y == call[s].yielded \cup some
             c == [call[s] EXCEPT !.yielded = Y, !.failed = f, !.ok = g]
  <2>1. call[s] \in CallStates /\ Y \in SUBSET Endpoint
    BY <1>2 DEF Types, CallStates
  <2>2. f \in BOOLEAN /\ g \in BOOLEAN
    OBVIOUS
  <2>3. call' = [call EXCEPT ![s] = c]
    BY DEF TakeResult
  <2> HIDE DEF f, g, Y
  <2>4. /\ c \in CallStates /\ c.pc = call[s].pc
        /\ c.peers = call[s].peers /\ c.known = call[s].known /\ c.yielded = Y
    <3> DEFINE y == [call[s] EXCEPT !.yielded = Y]
               z == [y EXCEPT !.failed = f]
               x == [z EXCEPT !.ok = g]
    <3>1. y \in CallStates /\ y.pc = call[s].pc /\ y.peers = call[s].peers /\ y.known = call[s].known /\ y.yielded = Y
      BY <2>1, CallYields
    <3>2. c = x
      BY DEF x, y, z
    <3> HIDE DEF y
    <3>3. z \in CallStates /\ z.pc = call[s].pc /\ z.peers = call[s].peers /\ z.known = call[s].known /\ z.yielded = Y
      BY <2>2, <3>1, CallFlags
    <3> HIDE DEF z
    <3>4. x \in CallStates /\ x.pc = call[s].pc /\ x.peers = call[s].peers /\ x.known = call[s].known /\ x.yielded = Y
      BY <2>2, <3>3, CallFlags
    <3> HIDE DEF x, c
    <3> QED
      BY <3>2, <3>4
  <2> HIDE DEF c
  <2> QED
    BY <2>3, <2>4 DEF Y
<1> HIDE DEF some
<1>6. PICK c \in CallStates : /\ call' = [call EXCEPT ![s] = c] /\ c.pc = call[s].pc
                              /\ c.peers = call[s].peers /\ c.known = call[s].known
                              /\ c.yielded = call[s].yielded \cup some
  BY <1>5
<1>7. call'[s] = c /\ resolved'[s] = resolved[s] \cup {w.addr} /\ found'[s] = found[s] \cup some
  BY <1>4, <1>6 DEF Types
<1>8. Unused \in LookupStates /\ Unused.pc = "unused"
  BY <1>1, LookupMakes
<1>9. \A t \in Stream, j \in Slot :
        lookup'[<<t, j>>] = IF t = s /\ j = i THEN Unused ELSE lookup[<<t, j>>]
  BY <1>0, <1>4, PairIsLookup DEF Types
<1>10. StreamTypes
  <2>1. resolved' \in [Stream -> SUBSET Addr] /\ found' \in [Stream -> SUBSET Endpoint]
    BY <1>1, <1>2, <1>4 DEF Types
  <2> QED
    BY <2>1, <1>4, <1>6, <1>8 DEF StreamTypes, Types
<1>11. StreamBound(s)'
  <2>1. \A j \in Slot : Named(s, lookup[<<s, j>>])'
    BY <1>4, <1>8, <1>9 DEF StreamGood, StreamBound, Named
  <2> QED
    BY <1>2, <1>3, <1>4, <1>6, <1>7, <2>1 DEF StreamGood, StreamBound
<1>12. ASSUME NEW b \in announced'[s], c.pc = "loop" PROVE Attended(s, b)'
  <2>0. Attended(s, b)
    BY <1>4, <1>6, <1>12 DEF StreamGood, StreamComplete
  <2>1. CASE b \in resolved[s] \/ b \in call[s].known
    BY <1>6, <1>7, <2>1 DEF Attended
  <2>2. CASE \E n \in 1 .. Len(call[s].peers) : call[s].peers[n] = b
    BY <1>6, <1>7, <2>2 DEF Attended
  <2>3. CASE \E j \in Slot : lookup[<<s, j>>].pc # "unused" /\ lookup[<<s, j>>].addr = b
    <3>1. PICK j \in Slot : lookup[<<s, j>>].pc # "unused" /\ lookup[<<s, j>>].addr = b
      BY <2>3
    <3>2. CASE j = i
      BY <1>7, <3>1, <3>2 DEF Attended
    <3>3. CASE j # i
      BY <1>9, <3>1, <3>3 DEF Attended
    <3> QED
      BY <3>2, <3>3
  <2> QED
    BY <2>0, <2>1, <2>2, <2>3 DEF Attended
<1>13. StreamComplete(s)'
  BY <1>3, <1>4, <1>6, <1>7, <1>12 DEF StreamGood, StreamComplete
<1>14. \A t \in Stream \ {s} : Aside(t)
  BY <1>4, <1>6, <1>9 DEF Aside, Types
<1> QED
  BY <1>10, <1>11, <1>13, <1>14 DEF StreamKept, StreamGood

\* The consumer drops its stream.
LEMMA CallDrops ==
  ASSUME Types, NEW s \in Stream, StreamGood(s), DropStream(s)
  PROVE  StreamKept(s)
<1>1. call[s] \in CallStates /\ call \in [Stream -> CallStates]
  BY DEF Types
<1> DEFINE c == [call[s] EXCEPT !.pc = "dropped"]
<1>2. c \in CallStates /\ c.pc = "dropped" /\ c.known = call[s].known /\ c.peers = call[s].peers
      /\ c.yielded = call[s].yielded
  BY <1>1, CallGoes
<1>3. call' = [call EXCEPT ![s] = c] /\ UNCHANGED <<announced, resolved, found>>
      /\ lookup' = [l \in Lookup |-> IF l[1] = s THEN Unused ELSE lookup[l]]
  BY DEF DropStream, Goto
<1> HIDE DEF c
<1>4. Unused \in LookupStates /\ Unused.pc = "unused"
  BY DEF Unused, LookupStates
<1>5. \A t \in Stream, i \in Slot : lookup'[<<t, i>>] = IF t = s THEN Unused ELSE lookup[<<t, i>>]
  BY <1>3, PairIsLookup
<1>6. call'[s] = c
  BY <1>1, <1>3
<1>7. StreamTypes
  BY <1>2, <1>3, <1>4 DEF StreamTypes, Types
<1>8. StreamGood(s)'
  BY <1>2, <1>3, <1>4, <1>5, <1>6 DEF StreamGood, StreamBound, StreamComplete, Named
<1>9. \A t \in Stream \ {s} : Aside(t)
  BY <1>1, <1>3, <1>5 DEF Aside
<1> QED
  BY <1>7, <1>8, <1>9 DEF StreamKept
----------------------------------------------------------------------------
(* Every step keeps the invariant.                                         *)

\* The invariant of the cache and its lookups.
CacheGood ==
  /\ entries \in [Addr -> EntryStates \cup {None}] /\ pending \in [Lookup -> SUBSET Lookup]
  /\ held \in [Addr -> Records] /\ age \in [Addr -> [Records -> 0 .. Cap]]
  /\ Queued /\ Asked /\ AllFresh
  /\ \A l \in Lookup : ResultBound(lookup[l])

LEMMA CacheStays ==
  ASSUME IInv, UNCHANGED cacheVars PROVE CacheGood'
<1>1. UNCHANGED <<entries, pending, lookup, held, age>>
  BY DEF cacheVars
<1>2. Queued'
  BY <1>1 DEF IInv, Queued, Uses, Asks
<1>3. AllFresh' /\ Asked'
  BY <1>1 DEF IInv, AllFresh, Asked, Asks, NoEntry
<1> QED
  BY <1>1, <1>2, <1>3 DEF CacheGood, IInv, Types

\* One lookup changes that has no lock.
LEMMA CacheOfIdle ==
  ASSUME IInv, NEW l \in Lookup, NEW w \in LookupStates, UNCHANGED <<entries, pending, held, age>>,
         lookup' = [lookup EXCEPT ![l] = w], w.pc \in {"unused", "get"}, lookup[l].pc \in {"unused", "done"}
  PROVE  CacheGood'
<1>0. \A m \in Lookup : lookup'[m] = IF m = l THEN w ELSE lookup[m]
  BY DEF IInv, Types
<1>1. Queued'
  <2>1. Stays(l, w) /\ w.pc \notin LockPcs
    BY DEF Stays, LockPcs, AskPcs
  <2> QED
    BY <2>1, QueueStays DEF IInv
<1>2. AllFresh'
  <2>1. \A m \in Lookup : lookup'[m].pc = "answer" => lookup'[m] = lookup[m]
    BY <1>0
  <2> QED
    BY <2>1, FreshStays DEF IInv
<1>3. \A m \in Lookup : ResultBound(lookup'[m])
  BY <1>0 DEF IInv, ResultBound
<1>4. Asked'
  BY <1>0 DEF IInv, Asked, Asks, NoEntry
<1> QED
  BY <1>1, <1>2, <1>3, <1>4 DEF CacheGood, IInv, Types

LEMMA CacheOfDrop ==
  ASSUME IInv, NEW s \in Stream, DropStream(s) PROVE CacheGood'
<1> DEFINE L == {l \in Lookup : l[1] = s}
<1>0. /\ \A l \in Lookup : lookup'[l] = IF l \in L THEN Unused ELSE lookup[l]
      /\ pending' = Leave(L) /\ UNCHANGED <<entries, held, age>>
  BY DEF DropStream
<1>1. Unused.pc = "unused" /\ L \in SUBSET Lookup
  BY DEF Unused
<1> HIDE DEF L
<1>2. Queued'
  <2>1. \A m \in Lookup \ L : lookup'[m] = lookup[m]
    BY <1>0
  <2>2. \A m \in L : ~Uses(m)'
    BY <1>0, <1>1 DEF Uses
  <2> QED
    BY <1>0, <1>1, <2>1, <2>2, QueueLeft DEF IInv
<1>3. AllFresh'
  <2>1. \A m \in Lookup : lookup'[m].pc = "answer" => lookup'[m] = lookup[m]
    BY <1>0, <1>1
  <2> QED
    BY <1>0, <2>1, FreshStays DEF IInv
<1>4. \A m \in Lookup : ResultBound(lookup'[m])
  BY <1>0, <1>1 DEF IInv, ResultBound
<1>5. pending' \in [Lookup -> SUBSET Lookup]
  BY <1>0 DEF Leave, IInv, Types
<1>6. Asked'
  BY <1>0, <1>1 DEF IInv, Asked, Asks, NoEntry
<1> QED
  BY <1>0, <1>2, <1>3, <1>4, <1>5, <1>6 DEF CacheGood, IInv, Types

\* The steps of a stream.
LEMMA StreamsStep ==
  ASSUME IInv, NEW s \in Stream,
         StreamStep(s) \/ DropStream(s) \/ \E batch \in Batches[s] : PeersBatch(s, batch)
  PROVE  CacheGood' /\ StreamKept(s) /\ gone' = gone
<1>0. Types /\ StreamGood(s) /\ \A i \in Slot : <<s, i>> \in Lookup /\ ResultBound(lookup[<<s, i>>])
  BY PairIsLookup DEF IInv, StreamGood
<1>1. CASE GetPeers(s) \/ PeersDone(s) \/ Ends(s) \/ Again(s)
  <2>1. StreamKept(s)
    BY <1>0, <1>1, CallMoves, CallAgain
  <2>2. UNCHANGED cacheVars /\ gone' = gone
    BY <1>1 DEF GetPeers, PeersDone, Ends, Again
  <2> QED
    BY <2>1, <2>2, CacheStays
<1>2. ASSUME NEW batch \in Batches[s], PeersBatch(s, batch) PROVE CacheGood' /\ StreamKept(s) /\ gone' = gone
  <2>1. UNCHANGED cacheVars /\ gone' = gone
    BY <1>2 DEF PeersBatch
  <2> QED
    BY <1>0, <1>2, <2>1, CallBatch, CacheStays
<1>3. ASSUME NEW i \in Slot, StartLookup(s, i) PROVE CacheGood' /\ StreamKept(s) /\ gone' = gone
  <2>1. UNCHANGED <<entries, pending, held, age>> /\ gone' = gone
    BY <1>3 DEF StartLookup
  <2>2. /\ StreamKept(s) /\ lookup[<<s, i>>].pc = "unused"
        /\ \E a \in Addr : lookup' = [lookup EXCEPT ![<<s, i>>] = NewLookup(a)]
    BY <1>0, <1>3, CallStarts
  <2>3. PICK a \in Addr : lookup' = [lookup EXCEPT ![<<s, i>>] = NewLookup(a)]
    BY <2>2
  <2>4. NewLookup(a) \in LookupStates /\ NewLookup(a).pc = "get"
    BY LookupMakes
  <2>5. CacheGood'
    BY <1>0, <2>1, <2>2, <2>3, <2>4, CacheOfIdle
  <2> QED
    BY <2>1, <2>2, <2>5
<1>4. ASSUME NEW i \in Slot, TakeResult(s, i) PROVE CacheGood' /\ StreamKept(s) /\ gone' = gone
  <2>1. UNCHANGED <<entries, pending, held, age>> /\ gone' = gone /\ lookup[<<s, i>>].pc = "done"
        /\ lookup' = [lookup EXCEPT ![<<s, i>>] = Unused]
    BY <1>4 DEF TakeResult
  <2>2. StreamKept(s)
    BY <1>0, <1>4, CallTakes
  <2>3. Unused \in LookupStates /\ Unused.pc = "unused"
    BY DEF Unused, LookupStates
  <2>4. CacheGood'
    BY <1>0, <2>1, <2>3, CacheOfIdle
  <2> QED
    BY <2>1, <2>2, <2>4
<1>5. CASE DropStream(s)
  <2>1. gone' = gone
    BY <1>5 DEF DropStream
  <2> QED
    BY <1>0, <1>5, <2>1, CallDrops, CacheOfDrop
<1> QED
  BY <1>1, <1>2, <1>3, <1>4, <1>5 DEF StreamStep

\* The other steps leave the streams alone.
OthersKept ==
  /\ CacheGood' /\ StreamTypes /\ gone' \in BOOLEAN /\ \A t \in Stream : Aside(t)

LEMMA StreamsUntouched ==
  ASSUME IInv, UNCHANGED streamVars, lookup' \in [Lookup -> LookupStates],
         \A l \in Lookup : /\ lookup'[l].pc = "unused" <=> lookup[l].pc = "unused"
                           /\ lookup[l].pc # "unused" => lookup'[l].addr = lookup[l].addr
  PROVE  StreamTypes /\ gone' \in BOOLEAN /\ \A t \in Stream : Aside(t)
<1>1. UNCHANGED <<call, gone, announced, resolved, found>>
  BY DEF streamVars
<1> QED
  BY <1>1, PairIsLookup DEF IInv, Types, StreamTypes, Aside

LEMMA LookupStepKeeps ==
  ASSUME IInv, NEW l \in Lookup, LookupRuns(l) \/ Client(l) PROVE OthersKept
<1>1. Types /\ Queued /\ Asked /\ AllFresh /\ (LookupStep(l) \/ RequestEnds(l)) /\ UNCHANGED streamVars
  BY DEF IInv, LookupRuns, Client
<1>2. PICK w \in LookupStates : LookupBecomes(l, w)
  BY <1>1, LookupEffect
<1>3. /\ lookup' = [lookup EXCEPT ![l] = w] /\ held' = held /\ EntriesStep /\ ResultBound(w)
      /\ w.pc # "unused" /\ lookup[l].pc # "unused" /\ w.addr = lookup[l].addr /\ QueueStep(l, w)
  BY <1>2 DEF LookupBecomes
<1>4. lookup' \in [Lookup -> LookupStates] /\ \A m \in Lookup : lookup'[m] = IF m = l THEN w ELSE lookup[m]
  BY <1>1, <1>3 DEF Types
<1>5. \A m \in Lookup : /\ lookup'[m].pc = "unused" <=> lookup[m].pc = "unused"
                        /\ lookup[m].pc # "unused" => lookup'[m].addr = lookup[m].addr
  BY <1>3, <1>4
<1>6. \A m \in Lookup : ResultBound(lookup'[m])
  BY <1>3, <1>4 DEF IInv
<1>7. pending' \in [Lookup -> SUBSET Lookup]
  BY <1>1, <1>3 DEF QueueStep, Stays, Leave, Types
<1>8. CacheGood'
  BY <1>1, <1>2, <1>3, <1>6, <1>7, QueueOfLookup, AskedOfLookup, FreshOfLookup DEF CacheGood, EntriesStep, Types
<1>9. StreamTypes /\ gone' \in BOOLEAN /\ \A t \in Stream : Aside(t)
  BY <1>1, <1>4, <1>5, StreamsUntouched
<1> QED
  BY <1>8, <1>9 DEF OthersKept

LEMMA SurroundingsKeep ==
  ASSUME IInv,
         \/ \E a \in Addr : \E values \in Values[a] : Servers(a, values)
         \/ MainlineGone \/ Elapse \/ UNCHANGED vars
  PROVE  OthersKept
<1>0. Types /\ Queued /\ Asked /\ AllFresh /\ \A l \in Lookup : ResultBound(lookup[l])
  BY DEF IInv
<1>1. ASSUME NEW a \in Addr, NEW values \in Values[a], Servers(a, values) PROVE OthersKept
  <2>1. UNCHANGED <<entries, pending, lookup>> /\ UNCHANGED streamVars /\ ServersChange(a, values)
    BY <1>1 DEF Servers, ServersChange
  <2>2. AllFresh' /\ held' \in [Addr -> Records] /\ age' \in [Addr -> [Records -> 0 .. Cap]]
    BY <1>0, <2>1, FreshOfServers
  <2>3. Queued' /\ Asked'
    BY <1>0, <2>1 DEF Queued, Uses, Asked, Asks, NoEntry
  <2>4. CacheGood'
    BY <1>0, <2>1, <2>2, <2>3 DEF CacheGood, Types
  <2>5. StreamTypes /\ gone' \in BOOLEAN /\ \A t \in Stream : Aside(t)
    BY <1>0, <2>1, StreamsUntouched DEF Types
  <2> QED
    BY <2>4, <2>5 DEF OthersKept
<1>2. CASE MainlineGone \/ UNCHANGED vars
  <2>1. UNCHANGED <<cacheVars, call, announced, resolved, found>> /\ gone' \in BOOLEAN
    BY <1>0, <1>2 DEF MainlineGone, vars, streamVars, Types
  <2>2. lookup' = lookup
    BY <2>1 DEF cacheVars
  <2>3. StreamTypes /\ \A t \in Stream : Aside(t)
    BY <1>0, <2>1, <2>2 DEF StreamTypes, Aside, Types
  <2> QED
    BY <2>1, <2>3, CacheStays DEF OthersKept
<1>3. CASE Elapse
  <2>1. Tick /\ UNCHANGED streamVars /\ UNCHANGED <<pending, held>>
    BY <1>3 DEF Elapse, Tick
  <2>2. \A l \in Lookup : /\ lookup'[l].pc = lookup[l].pc
                          /\ lookup[l].pc # "unused" => lookup'[l].addr = lookup[l].addr
                          /\ lookup[l].pc # "answer" => lookup'[l] = lookup[l]
    BY <1>0, <2>1, TickEffect
  <2>3. Queued'
    <3>1. \A l \in Lookup : Uses(l)' <=> Uses(l)
      BY <2>2 DEF Uses
    <3>2. \A l \in Lookup : Asks(l)' <=> Asks(l)
      BY <2>2 DEF Asks
    <3>3. \A l \in Lookup : Uses(l) => lookup'[l].addr = lookup[l].addr
      BY <2>2 DEF Uses
    <3>4. \A l \in Lookup : pending[l] \in SUBSET Lookup
      BY <1>0 DEF Types
    <3> QED
      BY <1>0, <2>1, <3>1, <3>2, <3>3, <3>4 DEF Queued
  <2>4. \A l \in Lookup : ResultBound(lookup'[l])
    BY <1>0, <2>2 DEF ResultBound
  <2>a. Asked'
    <3>1. \A a \in Addr : NoEntry(a) => NoEntry(a)'
      BY <1>0, <2>1, TickEffect DEF NoEntry, Types, EntryStates
    <3>2. \A l \in Lookup : lookup[l].pc # "unused" => lookup[l].addr \in Addr
      BY <1>0, LookupFields DEF Types
    <3> QED
      BY <1>0, <2>2, <3>1, <3>2 DEF Asked, Asks
  <2>5. CacheGood'
    BY <1>0, <2>1, <2>3, <2>4, <2>a, TickEffect, FreshOfTick DEF CacheGood, Types
  <2>6. StreamTypes /\ gone' \in BOOLEAN /\ \A t \in Stream : Aside(t)
    BY <1>0, <2>1, <2>2, TickEffect, StreamsUntouched
  <2> QED
    BY <2>5, <2>6 DEF OthersKept
<1> QED
  BY <1>1, <1>2, <1>3
LEMMA InitGood == Init => IInv
<1> SUFFICES ASSUME Init PROVE IInv
  OBVIOUS
<1>1. /\ entries = [a \in Addr |-> None] /\ pending = [l \in Lookup |-> {}]
      /\ lookup = [l \in Lookup |-> Unused] /\ held \in [Addr -> Records]
      /\ age = [a \in Addr |-> [r \in Records |-> IF FoundIn(r, a, held[a]) THEN 0 ELSE AgeCap(r)]]
      /\ call = [s \in Stream |-> Fresh] /\ gone = FALSE
      /\ announced = [s \in Stream |-> {}] /\ resolved = [s \in Stream |-> {}] /\ found = [s \in Stream |-> {}]
  BY DEF Init, InitLookups
<1>2. Unused \in LookupStates /\ Unused.pc = "unused"
  BY DEF Unused, LookupStates
<1>3. /\ Fresh \in CallStates /\ Fresh.pc = "start" /\ Fresh.yielded = {} /\ Fresh.known = {}
      /\ Fresh.peers = <<>>
  BY BatchBoundAssumption DEF Fresh, CallStates
<1>4. 0 \in 0 .. Cap /\ \A r \in Records : AgeCap(r) \in 0 .. Cap
  BY LimitAssumption, TtlAssumption DEF AgeCap, Cap
<1>5. Types
  <2>1. age \in [Addr -> [Records -> 0 .. Cap]]
    BY <1>1, <1>4
  <2> QED
    BY <1>1, <1>2, <1>3, <2>1 DEF Types
<1>6. Queued /\ Asked
  BY <1>1, <1>2 DEF Queued, Uses, Asked, Asks
<1>7. AllFresh
  <2>1. \A a \in Addr, r \in Records : FoundIn(r, a, held[a]) => age[a][r] = 0
    BY <1>1
  <2> QED
    BY <1>1, <1>2, <2>1 DEF AllFresh
<1>8. \A l \in Lookup : ResultBound(lookup[l])
  BY <1>1, <1>2 DEF ResultBound
<1>9. \A s \in Stream : StreamBound(s) /\ StreamComplete(s)
  BY <1>1, <1>2, <1>3, PairIsLookup DEF StreamBound, StreamComplete, Named
<1> QED
  BY <1>5, <1>6, <1>7, <1>8, <1>9 DEF IInv

\* IInv is inductive.
LEMMA AlwaysGood == Spec => []IInv
<1>1. ASSUME IInv, [Next]_vars PROVE IInv'
  <2>0. \A t \in Stream : StreamGood(t)
    BY <1>1 DEF IInv, StreamGood
  <2>1. CASE \E s \in Stream : \/ StreamStep(s) \/ DropStream(s)
                               \/ \E batch \in Batches[s] : PeersBatch(s, batch)
    <3>1. PICK s \in Stream : \/ StreamStep(s) \/ DropStream(s)
                              \/ \E batch \in Batches[s] : PeersBatch(s, batch)
      BY <2>1
    <3>2. CacheGood' /\ StreamKept(s) /\ gone' = gone
      BY <1>1, <3>1, StreamsStep
    <3>3. ASSUME NEW t \in Stream PROVE StreamGood(t)'
      BY <2>0, <3>2, StreamAside DEF StreamKept
    <3> QED
      BY <1>1, <3>2, <3>3 DEF CacheGood, StreamKept, StreamTypes, StreamGood, IInv, Types
  <2>2. CASE OthersKept
    <3>1. ASSUME NEW t \in Stream PROVE StreamGood(t)'
      BY <2>0, <2>2, StreamAside DEF OthersKept
    <3> QED
      BY <2>2, <3>1 DEF CacheGood, OthersKept, StreamTypes, StreamGood, IInv, Types
  <2> QED
    BY <1>1, <2>1, <2>2, LookupStepKeeps, SurroundingsKeep DEF Next
<1>2. IInv /\ [Next]_vars => IInv'
  BY <1>1
<1> QED
  BY <1>2, InitGood, PTL DEF Spec

----------------------------------------------------------------------------
(* The theorems.                                                           *)

\* The locals of the resolver and of the lookups keep their types, and the queue of a lock
\* holds only lookups that use it.
THEOREM ResolverTypes == Spec => []TypeOK
<1>1. IInv => TypeOK
  BY DEF IInv, Types, Queued, TypeOK
<1> QED
  BY <1>1, AlwaysGood, PTL

\* Only endpoints whose record was signed for a peer that Mainline named are yielded.
THEOREM YieldsBound == Spec => []YieldsAreBound
<1>1. IInv => YieldsAreBound
  BY DEF IInv, StreamBound, YieldsAreBound
<1> QED
  BY <1>1, AlwaysGood, PTL

\* Where a lookup changes: by its own steps, or when its stream starts or ends it.
LEMMA LookupChanges ==
  ASSUME IInv, [Next]_vars, NEW l \in Lookup
  PROVE  \/ lookup'[l].pc = lookup[l].pc \/ lookup'[l].pc \in {"unused", "get"}
         \/ LookupStep(l) \/ RequestEnds(l)
<1>0. Types /\ lookup \in [Lookup -> LookupStates] /\ Unused.pc = "unused" /\ \A a : NewLookup(a).pc = "get"
  BY DEF IInv, Types, Unused, NewLookup
<1>1. ASSUME NEW s \in Stream, StreamStep(s) \/ DropStream(s) \/ \E batch \in Batches[s] : PeersBatch(s, batch)
      PROVE  lookup'[l].pc = lookup[l].pc \/ lookup'[l].pc \in {"unused", "get"}
  <2>1. CASE GetPeers(s) \/ PeersDone(s) \/ Ends(s) \/ Again(s) \/ \E batch \in Batches[s] : PeersBatch(s, batch)
    BY <2>1 DEF GetPeers, PeersDone, Ends, Again, PeersBatch, cacheVars
  <2>2. ASSUME NEW i \in Slot, StartLookup(s, i)
        PROVE  lookup'[l].pc = lookup[l].pc \/ lookup'[l].pc \in {"unused", "get"}
    <3>1. PICK a \in Addr : lookup' = [lookup EXCEPT ![<<s, i>>] = NewLookup(a)]
      BY <2>2 DEF StartLookup
    <3>2. lookup'[l] = lookup[l] \/ lookup'[l] = NewLookup(a)
      BY <1>0, <3>1
    <3> QED
      BY <1>0, <3>2
  <2>3. ASSUME NEW i \in Slot, TakeResult(s, i)
        PROVE  lookup'[l].pc = lookup[l].pc \/ lookup'[l].pc \in {"unused", "get"}
    <3>1. lookup' = [lookup EXCEPT ![<<s, i>>] = Unused]
      BY <2>3 DEF TakeResult
    <3>2. lookup'[l] = lookup[l] \/ lookup'[l] = Unused
      BY <1>0, <3>1
    <3> QED
      BY <1>0, <3>2
  <2>4. CASE DropStream(s)
    BY <1>0, <2>4 DEF DropStream
  <2> QED
    BY <1>1, <2>1, <2>2, <2>3, <2>4 DEF StreamStep
<1>2. ASSUME NEW m \in Lookup, LookupRuns(m) \/ Client(m), m # l PROVE lookup'[l] = lookup[l]
  <2>1. PICK w \in LookupStates : LookupBecomes(m, w)
    BY <1>2, LookupEffect DEF IInv, LookupRuns, Client
  <2> QED
    BY <1>0, <1>2, <2>1 DEF LookupBecomes
<1>3. CASE Elapse
  BY <1>0, <1>3, TickEffect DEF Elapse
<1>4. CASE (\E a \in Addr : \E values \in Values[a] : Servers(a, values)) \/ MainlineGone \/ UNCHANGED vars
  BY <1>4 DEF Servers, ServersChange, MainlineGone, vars, cacheVars
<1> QED
  BY <1>1, <1>2, <1>3, <1>4 DEF Next, LookupRuns, Client

\* Concurrent lookups of an address share one request, whoever is dropped or fails in front.
THEOREM RequestsShared == Spec => SharesRequests
<1> DEFINE A(l) == lookup[l].pc = "wait" /\ lookup'[l].pc = "ask" =>
                     /\ get(lookup[l].addr) = None
                     /\ \A m \in Lookup \ {l} : ~ /\ lookup[m].pc \in {"ask", "answer", "fail"}
                                                  /\ lookup[m].addr = lookup[l].addr
<1>1. ASSUME IInv, [Next]_vars, NEW l \in Lookup PROVE A(l)
  <2> SUFFICES ASSUME lookup[l].pc = "wait", lookup'[l].pc = "ask"
               PROVE  /\ get(lookup[l].addr) = None
                      /\ \A m \in Lookup \ {l} : ~ /\ lookup[m].pc \in {"ask", "answer", "fail"}
                                                   /\ lookup[m].addr = lookup[l].addr
    OBVIOUS
  <2>1. LookupStep(l) \/ RequestEnds(l)
    BY <1>1, LookupChanges
  <2>2. LookupLocked(l)
    BY <2>1 DEF LookupStep, LookupGet, LookupPend, LookupAnswered, LookupFailed, RequestEnds
  <2>3. get(lookup[l].addr) = None
    <3> SUFFICES ASSUME get(lookup[l].addr) # None PROVE FALSE
      OBVIOUS
    <3>1. lookup' = [lookup EXCEPT ![l] = Done(lookup[l].addr, get(lookup[l].addr))]
      BY <2>2 DEF LookupLocked
    <3>2. lookup'[l] = Done(lookup[l].addr, get(lookup[l].addr))
      BY <1>1, <3>1 DEF IInv, Types
    <3> QED
      BY <3>2 DEF Done
  <2>4. pending[l] = {}
    BY <2>2 DEF LookupLocked, Holds
  <2>5. ASSUME NEW m \in Lookup \ {l}, lookup[m].pc \in {"ask", "answer", "fail"}, lookup[m].addr = lookup[l].addr
        PROVE  FALSE
    <3>1. pending[m] = {} /\ Uses(m) /\ Uses(l)
      BY <1>1, <2>5 DEF IInv, Queued, Asks, Uses
    <3> QED
      BY <1>1, <2>4, <2>5, <3>1 DEF IInv, Queued
  <2> QED
    BY <2>3, <2>5
<1>2. IInv /\ [Next]_vars => [\A l \in Lookup : A(l)]_cacheVars
  BY <1>1
<1> QED
  BY <1>2, AlwaysGood, PTL DEF Spec, SharesRequests

\* A lookup returns a record that a server held less than TTL ago, or the miss that the latest
\* answered request found less than MISS_TTL ago, whoever shares, caches or is dropped.
THEOREM AnswersFresh == Spec => AnswersAreFresh
<1> DEFINE A(l) == lookup[l].pc # "done" /\ lookup'[l].pc = "done" =>
                     LET records == lookup'[l].records
                     IN  records # None =>
                           age[lookup[l].addr][records] < AgeCap(records)
<1>1. ASSUME IInv, [Next]_vars, NEW l \in Lookup PROVE A(l)
  <2> SUFFICES ASSUME lookup[l].pc # "done", lookup'[l].pc = "done", lookup'[l].records # None
               PROVE  age[lookup[l].addr][lookup'[l].records] < AgeCap(lookup'[l].records)
    OBVIOUS
  <2>1. LookupStep(l) \/ RequestEnds(l)
    BY <1>1, LookupChanges
  <2>2. PICK w \in LookupStates : LookupBecomes(l, w)
    BY <1>1, <2>1, LookupEffect DEF IInv
  <2>3. lookup'[l] = w /\ w.addr = lookup[l].addr /\ ResultFresh(w)
    BY <1>1, <2>2 DEF LookupBecomes, IInv, Types
  <2> QED
    BY <2>3 DEF ResultFresh, ttl, AgeCap
<1>2. IInv /\ [Next]_vars => [\A l \in Lookup : A(l)]_cacheVars
  BY <1>1
<1> QED
  BY <1>2, AlwaysGood, PTL DEF Spec, AnswersAreFresh

\* A stream that ends, and resolve when it returns, has looked up every peer that Mainline
\* named and yielded what was found.
THEOREM StreamsComplete == Spec => EndsComplete
<1> DEFINE A(s) == call[s].pc = "loop" /\ call'[s].pc \in {"ended", "start"} =>
                     resolved[s] = announced[s] /\ call[s].yielded = found[s]
<1>1. ASSUME IInv, [Next]_vars, NEW s \in Stream PROVE A(s)
  <2> SUFFICES ASSUME call[s].pc = "loop", call'[s].pc \in {"ended", "start"}
               PROVE  resolved[s] = announced[s] /\ call[s].yielded = found[s]
    OBVIOUS
  <2>0. call \in [Stream -> CallStates] /\ call[s] \in CallStates /\ StreamComplete(s)
    BY <1>1 DEF IInv, Types
  <2>1. ~Aside(s)
    BY DEF Aside
  <2>2. StreamStep(s) \/ DropStream(s) \/ \E batch \in Batches[s] : PeersBatch(s, batch)
    <3>1. ASSUME NEW t \in Stream \ {s},
                 StreamStep(t) \/ DropStream(t) \/ \E batch \in Batches[t] : PeersBatch(t, batch)
          PROVE  FALSE
      BY <1>1, <2>1, <3>1, StreamsStep DEF StreamKept
    <3>2. ~OthersKept
      BY <2>1 DEF OthersKept
    <3> QED
      BY <1>1, <3>1, <3>2, LookupStepKeeps, SurroundingsKeep DEF Next
  <2>3. Over(s)
    <3>1. ~GetPeers(s)
      BY DEF GetPeers
    <3>2. ~PeersDone(s)
      BY <2>0, CallDone DEF PeersDone
    <3>3. ASSUME NEW i \in Slot, StartLookup(s, i) PROVE FALSE
      BY <2>0, <3>3 DEF StartLookup, CallStates
    <3>4. ASSUME NEW i \in Slot, TakeResult(s, i) PROVE FALSE
      <4>1. \E Y, f, g : call'[s] = [call[s] EXCEPT !.yielded = Y, !.failed = f, !.ok = g]
        BY <2>0, <3>4 DEF TakeResult
      <4> QED
        BY <2>0, <4>1 DEF CallStates
    <3>5. ~DropStream(s)
      BY <2>0, CallGoes DEF DropStream, Goto
    <3>6. ASSUME NEW batch \in Batches[s], PeersBatch(s, batch) PROVE FALSE
      BY <2>0, <3>6 DEF PeersBatch, CallStates
    <3> QED
      BY <2>2, <3>1, <3>2, <3>3, <3>4, <3>5, <3>6 DEF StreamStep, Ends, Again
  <2>4. announced[s] \subseteq resolved[s]
    <3>1. call[s].known = {}
      BY <2>3 DEF Over
    <3>2. ASSUME NEW n \in 1 .. Len(call[s].peers) PROVE FALSE
      <4>1. call[s].peers = <<>>
        BY <2>3 DEF Over
      <4> QED
        BY <3>2, <4>1
    <3>3. \A i \in Slot : lookup[<<s, i>>].pc = "unused"
      BY <2>3 DEF Over, Active
    <3>4. ASSUME NEW a \in announced[s] PROVE a \in resolved[s]
      <4>1. Attended(s, a)
        BY <2>0 DEF StreamComplete
      <4> QED
        BY <3>1, <3>2, <3>3, <4>1 DEF Attended
    <3> QED
      BY <3>4
  <2> QED
    BY <2>0, <2>4 DEF StreamComplete
<1>2. IInv /\ [Next]_vars => [\A s \in Stream : A(s)]_vars
  BY <1>1
<1> QED
  BY <1>2, AlwaysGood, PTL DEF Spec, EndsComplete
============================================================================
