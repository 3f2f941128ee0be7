------------------------------ MODULE AddrMap ------------------------------
(***************************************************************************)
(* What an address-index store promises, without its indexes: a map from   *)
(* socket addresses to values that expire, bounded over all and per host.  *)
(* A put is refused only when the value is too large or the address is new *)
(* and its host or the whole map has no room; a full map makes room by     *)
(* giving up one entry, the nearest to expiry. A get returns the value put  *)
(* last, unless it expired.                                                *)
(***************************************************************************)
EXTENDS Integers, FiniteSets

CONSTANTS Host, Port, Value, Oversize, MaxEntries, MaxEntriesPerIp, Ttl, U64Max, NoEntry

VARIABLES map,   \* address -> entry or NoEntry
          reply  \* the answer to the last operation, and what it was

AllAddr == Host \X Port

Live(now) == {a \in AllAddr : map[a] # NoEntry /\ map[a].expires_at > now}

Only(S) == [a \in AllAddr |-> IF a \in S THEN map[a] ELSE NoEntry]

Expiry(now) == IF now + Ttl > U64Max THEN U64Max ELSE now + Ttl

\* Room may be needed for `addr` in the live part of the map.
RoomWithout(addr, now) ==
  IF addr \in Live(now) \/ Cardinality(Live(now)) < MaxEntries
  THEN {Live(now)}
  ELSE {Live(now) \ {a} :
          a \in {b \in Live(now) : \A c \in Live(now) :
                                     map[b].expires_at <= map[c].expires_at}}

HostHasRoom(addr, now) ==
  \/ addr \in Live(now)
  \/ Cardinality({a \in Live(now) : a[1] = addr[1]}) < MaxEntriesPerIp

Put(addr, value, now) ==
  /\ reply' = [op |-> "put", addr |-> addr, now |-> now, result |-> "Ok"]
  /\ value \notin Oversize
  /\ HostHasRoom(addr, now)
  /\ \E kept \in RoomWithout(addr, now) :
       map' = [Only(kept) EXCEPT ![addr] = [value |-> value,
                                            expires_at |-> Expiry(now)]]

Refuse(addr, value, now) ==
  /\ \/ /\ reply' = [op |-> "put", addr |-> addr, now |-> now, result |-> "TooLarge"]
        /\ value \in Oversize
     \/ /\ reply' = [op |-> "put", addr |-> addr, now |-> now, result |-> "Full"]
        /\ value \notin Oversize
        /\ ~HostHasRoom(addr, now) \/ RoomWithout(addr, now) = {}
  /\ map' = Only(Live(now))

Get(addr, now) ==
  /\ reply' = [op |-> "get", addr |-> addr, now |-> now, result |-> Only(Live(now))[addr]]
  /\ map' = Only(Live(now))

MapInit == /\ map = [a \in AllAddr |-> NoEntry]
           /\ reply = [op |-> "none"]

MapNext == \E addr \in AllAddr, now \in 0 .. U64Max :
             \/ \E value \in Value : Put(addr, value, now) \/ Refuse(addr, value, now)
             \/ Get(addr, now)

MapSpec == MapInit /\ [][MapNext]_<<map, reply>>
============================================================================
