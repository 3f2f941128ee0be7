---------------------------- MODULE LookupCache ----------------------------
(***************************************************************************)
(* AddrIndex::lookup (addr_index.rs) over the LookupCache (lookup_cache.rs)*)
(* of iroh-mainline-endpoint-discovery: a short-lived cache of the index's *)
(* answers, and one lock per address that makes concurrent lookups share a *)
(* request. The mutexes are held for one statement each; a lookup runs     *)
(* between its awaits, and may be dropped at each of them.                 *)
(*                                                                         *)
(* Time is counted in ticks down to an expiry. Of a record only the        *)
(* endpoint is kept: Home gives the one address that it was signed for.    *)
(***************************************************************************)
EXTENDS Integers, FiniteSets

CONSTANTS Addr,     \* socket addresses
          Endpoint, \* endpoints, each with one signed record
          Home,     \* the address each record was signed for
          Values,   \* the sets of records that servers may hold at each address
          Lookup,   \* calls of lookup, of all streams
          TTL,      \* how long an answer is remembered
          MISS_TTL, \* how long an empty one is
          CAPACITY, \* addresses remembered at once
          MaxDelay, \* bound: ticks from a server's answer to the poll of the lookup that gets it
          None

ASSUME HomeAssumption == Home \in [Endpoint -> Addr]
ASSUME ValuesAssumption == Values \in [Addr -> SUBSET SUBSET Endpoint]
ASSUME TtlAssumption == TTL \in Nat \ {0} /\ MISS_TTL \in 1 .. TTL
ASSUME LimitAssumption == CAPACITY \in Nat \ {0} /\ MaxDelay \in Nat

VARIABLES
  entries, \* LookupCache::entries
  pending, \* LookupCache::pending: the lookups in front of each one in the queue of the lock
           \* of its address; the one with none in front has the lock
  lookup,  \* the locals of each lookup
  held,    \* the records that the servers hold at each address
  age      \* ticks since they held these records at the address; for none of them, since the
           \* latest request that they answered found none; or the cap (history)

cacheVars == <<entries, pending, lookup, held, age>>

Records == SUBSET Endpoint
EntryStates == [records : Records, left : 0 .. TTL]
LookupStates ==
       [pc : {"unused"}]
  \cup [pc : {"get", "pend", "wait", "ask", "fail"}, addr : Addr]
  \cup [pc : {"answer"}, addr : Addr, value : Records, left : 0 .. MaxDelay]
  \cup [pc : {"done"}, addr : Addr, records : Records \cup {None}]

ASSUME NoneAssumption == None \notin EntryStates /\ \A r \in Records : None # r

Unused == [pc |-> "unused"]
AgeCap(records) == MaxDelay + (IF records = {} THEN MISS_TTL ELSE TTL)
Older(records, n) == IF n < AgeCap(records) THEN n + 1 ELSE AgeCap(records)

\* Mutant: a record copied from another address counts.
decodeUnbound(values, a) == values

\* SignedRecord::decode of each value: signatures always verify, copies of other
\* addresses' records do not.
decode(values, a) == {e \in values : Home[e] = a}

\* Records that a lookup of a may find.
FoundIn(records, a, values) == records # {} /\ records \subseteq decode(values, a)

InitLookups ==
  /\ entries = [a \in Addr |-> None]
  /\ pending = [l \in Lookup |-> {}]
  /\ lookup = [l \in Lookup |-> Unused]
  /\ held \in {h \in [Addr -> Records] : \A a \in Addr : h[a] \in Values[a]}
  /\ age = [a \in Addr |-> [r \in Records |-> IF FoundIn(r, a, held[a]) THEN 0 ELSE AgeCap(r)]]

----------------------------------------------------------------------------
(* The cache.                                                              *)

\* LookupCache::get: what it returns, and the entries it leaves.
get(a) == IF entries[a] # None /\ entries[a].left > 0 THEN entries[a].records ELSE None
popped(a) == IF get(a) = None THEN [entries EXCEPT ![a] = None] ELSE entries

\* Mutant: a miss is remembered as long as a record.
ttlOfMiss(records) == TTL

ttl(records) == IF records = {} THEN MISS_TTL ELSE TTL

\* LookupCache::insert into a full cache drops the least recently used entry: any other.
insert(a, records) ==
  LET put == [entries EXCEPT ![a] = [records |-> records, left |-> ttl(records)]]
      others == {b \in Addr \ {a} : entries[b] # None}
  IN  IF Cardinality(others) < CAPACITY THEN {put}
      ELSE {[put EXCEPT ![b] = None] : b \in others}

----------------------------------------------------------------------------
(* lookup, await by await.                                                 *)

\* A lookup that is made but was not polled yet.
NewLookup(a) == [pc |-> "get", addr |-> a]
\* A lookup that has its result: the records, or None for an error.
Done(a, records) == [pc |-> "done", addr |-> a, records |-> records]

\* The lookups that wait for the lock of their address or have it.
Uses(l) == lookup[l].pc \in {"wait", "ask", "answer", "fail"}
Leave(L) == [m \in Lookup |-> IF m \in L THEN {} ELSE pending[m] \ L]
Holds(l) == pending[l] = {}

\* The first cache.get.
LookupGet(l) ==
  /\ lookup[l].pc = "get"
  /\ LET a == lookup[l].addr
     IN  /\ entries' = popped(a)
         /\ lookup' = [lookup EXCEPT ![l] = IF get(a) = None THEN [pc |-> "pend", addr |-> a]
                                            ELSE Done(a, get(a))]
  /\ UNCHANGED <<pending, held, age>>

\* cache.pending and the first poll of its lock, which queues the lookup.
LookupPend(l) ==
  /\ lookup[l].pc = "pend"
  /\ pending' = [pending EXCEPT ![l] = {m \in Lookup : Uses(m) /\ lookup[m].addr = lookup[l].addr}]
  /\ lookup' = [lookup EXCEPT ![l] = [pc |-> "wait", addr |-> lookup[l].addr]]
  /\ UNCHANGED <<entries, held, age>>

\* Mutant: no second look at the cache.
LookupLockedAsks(l) ==
  /\ lookup[l].pc = "wait" /\ Holds(l)
  /\ lookup' = [lookup EXCEPT ![l] = [pc |-> "ask", addr |-> lookup[l].addr]]
  /\ UNCHANGED <<entries, pending, held, age>>

\* The lock is ours: the second cache.get, and else lookup_uncached sends the request.
LookupLocked(l) ==
  /\ lookup[l].pc = "wait" /\ Holds(l)
  /\ LET a == lookup[l].addr
     IN  /\ entries' = popped(a)
         /\ IF get(a) = None
            THEN /\ lookup' = [lookup EXCEPT ![l] = [pc |-> "ask", addr |-> a]]
                 /\ UNCHANGED pending
            ELSE /\ lookup' = [lookup EXCEPT ![l] = Done(a, get(a))]
                 /\ pending' = Leave({l})
  /\ UNCHANGED <<held, age>>

\* resolve_first and finish_resolve: the values of the servers that answered, up to the first
\* value that decodes, or of all servers, or of those that did until the deadline; the
\* servers that hold a record may be the silent ones. An error if none answered. The calls of
\* PublishProtocol show how. The answer may arrive, and the lookup be polled, later.
RequestEnds(l) ==
  /\ lookup[l].pc = "ask"
  /\ LET a == lookup[l].addr
     IN  \/ \E value \in SUBSET held[a] :
              LET records == decode(value, a)
              IN  /\ \A d, e \in records : d = e
                  /\ lookup' = [lookup EXCEPT ![l] = [pc |-> "answer", addr |-> a, value |-> value,
                                                      left |-> MaxDelay]]
                  /\ age' = [age EXCEPT ![a][{}] = IF records = {} THEN 0 ELSE AgeCap({})]
         \/ /\ lookup' = [lookup EXCEPT ![l] = [pc |-> "fail", addr |-> a]]
            /\ UNCHANGED age
  /\ UNCHANGED <<entries, pending, held>>

\* lookup_uncached returned: the records that decode are remembered and returned.
LookupAnswered(l) ==
  /\ lookup[l].pc = "answer"
  /\ LET a == lookup[l].addr
         records == decode(lookup[l].value, a)
     IN  /\ entries' \in insert(a, records)
         /\ lookup' = [lookup EXCEPT ![l] = Done(a, records)]
  /\ pending' = Leave({l})
  /\ UNCHANGED <<held, age>>

\* Mutant: a failed lookup keeps its lock.
LookupFailedLocked(l) ==
  /\ lookup[l].pc = "fail"
  /\ lookup' = [lookup EXCEPT ![l] = Done(lookup[l].addr, None)]
  /\ UNCHANGED <<entries, pending, held, age>>

\* The error is returned, and nothing remembered.
LookupFailed(l) ==
  /\ lookup[l].pc = "fail"
  /\ lookup' = [lookup EXCEPT ![l] = Done(lookup[l].addr, None)]
  /\ pending' = Leave({l})
  /\ UNCHANGED <<entries, held, age>>

LookupStep(l) ==
  LookupGet(l) \/ LookupPend(l) \/ LookupLocked(l) \/ LookupAnswered(l) \/ LookupFailed(l)

----------------------------------------------------------------------------
(* The servers and the time.                                               *)

\* What the servers hold at an address changes: records are stored, copied and expire.
ServersChange(a, values) ==
  /\ values # held[a]
  /\ held' = [held EXCEPT ![a] = values]
  /\ age' = [age EXCEPT ![a] = [r \in Records |-> IF FoundIn(r, a, values) THEN 0 ELSE age[a][r]]]
  /\ UNCHANGED <<entries, pending, lookup>>

\* A tick, before which answers that are due arrive and are polled.
Tick ==
  /\ \A l \in Lookup : lookup[l].pc = "answer" => lookup[l].left > 0
  /\ entries' = [a \in Addr |-> IF entries[a] # None /\ entries[a].left > 0
                                THEN [entries[a] EXCEPT !.left = entries[a].left - 1]
                                ELSE entries[a]]
  /\ lookup' = [l \in Lookup |-> IF lookup[l].pc = "answer"
                                 THEN [lookup[l] EXCEPT !.left = lookup[l].left - 1]
                                 ELSE lookup[l]]
  /\ age' = [a \in Addr |-> [r \in Records |-> IF FoundIn(r, a, held[a]) THEN 0
                                               ELSE Older(r, age[a][r])]]
  /\ UNCHANGED <<pending, held>>

----------------------------------------------------------------------------
(* Properties.                                                             *)

\* Lookups of one address share a request (lookup_cache.rs, "so concurrent callers share a
\* request"): one is sent only while no other is in flight and the cache has no answer.
SharesRequests ==
  [][\A l \in Lookup : lookup[l].pc = "wait" /\ lookup'[l].pc = "ask" =>
       /\ get(lookup[l].addr) = None
       /\ \A m \in Lookup \ {l} : ~ /\ lookup[m].pc \in {"ask", "answer", "fail"}
                                    /\ lookup[m].addr = lookup[l].addr]_cacheVars

\* What a lookup returns is fresh, from whatever cache (AddrIndex::lookup): a server held the
\* record less than TTL ago, and a miss is what the latest request that servers answered
\* found less than MISS_TTL ago, not counting the time until an answer arrives and its lookup
\* is polled. No miss outlives a later find, comes from a request that failed, or stays as
\* long as a record would. (That a server holds no record a miss does not say: the servers
\* that answered before the deadline held none.)
AnswersAreFresh ==
  [][\A l \in Lookup : lookup[l].pc # "done" /\ lookup'[l].pc = "done" =>
       LET records == lookup'[l].records
       IN  records # None => age[lookup[l].addr][records] < AgeCap(records)]_cacheVars
============================================================================
