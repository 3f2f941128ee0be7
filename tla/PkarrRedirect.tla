--------------------------- MODULE PkarrRedirect ---------------------------
(***************************************************************************)
(* The names of the gateway (iroh-link-gateway/src/pkarr_redirect.rs): the *)
(* signed packet of one key is read from Mainline, or from a cache of      *)
(* packets, and says where a request goes.                                 *)
(*                                                                         *)
(* A packet is its sequence number. Nodes of Mainline hold packets of      *)
(* different age and answer in any order; all of them verify. Times are    *)
(* counted down in ticks; a packet is dropped when it is read at 0.        *)
(***************************************************************************)
EXTENDS Integers

CONSTANTS Req,           \* requests
          SeqNo,         \* sequence numbers of the packets of the key
          Ttl,           \* the smallest TTL of the answers of each
          Target,        \* where each leads: "content", "host", or "none" if to neither
          MAX_CACHE_TTL, LOOKUP_TIMEOUT,
          NoPacket

ASSUME PacketAssumption ==
  /\ SeqNo \subseteq Nat
  /\ Ttl \in [SeqNo -> Nat] /\ MAX_CACHE_TTL \in Nat \ {0} /\ LOOKUP_TIMEOUT \in Nat \ {0}
  /\ Target \in [SeqNo -> {"content", "host", "none"}]
  /\ NoPacket \notin [seq : SeqNo, left : 0 .. MAX_CACHE_TTL]

VARIABLES
  packets, \* Cache: the packet that is kept
  held,    \* the packets that nodes of Mainline hold
  lookup,  \* the locals of each request that has a name
  settled  \* ticks since every node holds the newest packet, up to Stale (history)

names == <<packets, held, lookup, settled>>

\* The longest time that a lookup and the packet it found last.
Stale == LOOKUP_TIMEOUT + MAX_CACHE_TTL

NoLookup == [pc |-> "none"]

InitNames ==
  /\ packets = NoPacket
  /\ \E n \in SeqNo : held = {n} /\ \A m \in SeqNo : n <= m
  /\ lookup = [r \in Req |-> NoLookup]
  /\ settled = 0

Looks(r, pc) == lookup[r].pc = pc
Becomes(r, to) == lookup' = [lookup EXCEPT ![r] = to]

\* Mutant: a packet that is kept never expires.
getForever == packets

\* Cache::get: a packet that has expired is dropped.
get == IF packets # NoPacket /\ packets.left = 0 THEN NoPacket ELSE packets

\* redirect: the cache is asked, and Mainline if it has no packet.
redirect(r) ==
  /\ Looks(r, "none")
  /\ packets' = get
  /\ Becomes(r, IF get = NoPacket THEN [pc |-> "resolve", left |-> LOOKUP_TIMEOUT]
                ELSE [pc |-> "use", seq |-> get.seq])
  /\ UNCHANGED <<held, settled>>

\* newest_verified: the first answer.
FirstAnswer(r, n) ==
  /\ Looks(r, "resolve")
  /\ n \in held
  /\ Becomes(r, [pc |-> "grace", seq |-> n, left |-> lookup[r].left])
  /\ UNCHANGED <<packets, held, settled>>

\* An answer within NEWEST_GRACE: the newest counts.
NextAnswer(r, n) ==
  /\ Looks(r, "grace")
  /\ n \in held
  /\ Becomes(r, [pc |-> "grace", seq |-> IF n > lookup[r].seq THEN n ELSE lookup[r].seq,
                 left |-> lookup[r].left])
  /\ UNCHANGED <<packets, held, settled>>

\* No answer, a timeout, or an answer with a negative sequence number, which ends the
\* lookup although others were good; or the packet does not parse.
LookupFails(r) ==
  /\ Looks(r, "resolve") \/ Looks(r, "grace")
  /\ Becomes(r, NoLookup)
  /\ UNCHANGED <<packets, held, settled>>

\* Cache::insert, by the request that looked the packet up; a TTL of 0 keeps what is there.
insert(n) == LET ttl == IF Ttl[n] < MAX_CACHE_TTL THEN Ttl[n] ELSE MAX_CACHE_TTL
             IN  IF ttl = 0 THEN packets ELSE [seq |-> n, left |-> ttl]

\* The grace or the stream of answers has ended.
Resolved(r) ==
  /\ Looks(r, "grace")
  /\ packets' = insert(lookup[r].seq)
  /\ Becomes(r, [pc |-> "use", seq |-> lookup[r].seq])
  /\ UNCHANGED <<held, settled>>

\* The response is a redirect to the host that the packet names, or an error if it names
\* nothing supported; content is served here, see Gateway.
Redirected(r) ==
  /\ Looks(r, "use") /\ Target[lookup[r].seq] # "content"
  /\ Becomes(r, NoLookup)
  /\ UNCHANGED <<packets, held, settled>>

Newest == CHOOSE n \in held : \A m \in held : m <= n

\* The owner of the key publishes the next packet, which reaches some nodes.
Publish(n) ==
  /\ n \in SeqNo /\ \A m \in held : m < n
  /\ held' = held \cup {n}
  /\ settled' = 0
  /\ UNCHANGED <<packets, lookup>>

\* The last node that held a packet gets a newer one.
Replaced(n) ==
  /\ n \in held /\ \E m \in held : m > n
  /\ held' = held \ {n}
  /\ settled' = 0
  /\ UNCHANGED <<packets, lookup>>

\* A tick, unless a lookup is at its deadline.
ElapseNames ==
  /\ \A r \in Req : lookup[r].pc \in {"resolve", "grace"} => lookup[r].left > 0
  /\ lookup' = [r \in Req |-> IF lookup[r].pc \in {"resolve", "grace"}
                              THEN [lookup[r] EXCEPT !.left = lookup[r].left - 1] ELSE lookup[r]]
  /\ packets' = IF packets = NoPacket \/ packets.left = 0 THEN packets
                ELSE [seq |-> packets.seq, left |-> packets.left - 1]
  /\ settled' = IF held = {Newest} /\ settled < Stale THEN settled + 1 ELSE settled
  /\ UNCHANGED held
============================================================================
