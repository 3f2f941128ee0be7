----------------------------- MODULE LocalIndex -----------------------------
(***************************************************************************)
(* Server::put_local and Server::get_local (udp-addr-index/src/lib.rs): the *)
(* store behind its mutex. Each call reads the system clock for itself     *)
(* while it holds the lock. The system clock is not monotonic, so a call   *)
(* may see any time.                                                       *)
(***************************************************************************)
EXTENDS Store

VARIABLES local,  \* Inner::store of one server
          reply   \* what the last call was and returned

localVars == <<local, reply>>

InitLocal == /\ local = EmptyStore
             /\ reply = [op |-> "none"]

put_local(addr, value, now) ==
  \E o \in put(local, addr, value, now) :
    /\ local' = o.store
    /\ reply' = [op |-> "put", addr |-> addr, now |-> now, result |-> o.result]

get_local(addr, now) ==
  /\ local' = gc(local, now)
  /\ reply' = [op |-> "get", addr |-> addr, now |-> now, result |-> local'.entries[addr]]

NextLocal == \E addr \in Addr, now \in Time :
               \/ \E value \in Value : put_local(addr, value, now)
               \/ get_local(addr, now)

LocalSpec == InitLocal /\ [][NextLocal]_localVars

----------------------------------------------------------------------------
Replies == [op : {"none"}]
           \cup [op : {"put"}, addr : Addr, now : Time, result : {"Ok", "Full", "TooLarge"}]
           \cup [op : {"get"}, addr : Addr, now : Time, result : Entry \cup {NoEntry}]

\* The collections of the store and the replies have their Rust types.
TypeOK == local \in Stores /\ reply \in Replies

\* Over every sequence of puts, replacements, evictions and collections, at any
\* clock, the expiry index and the per-host counts of store.rs agree with the
\* entries: no entry is left without an expiry, no count leaks.
IndexesAgree == ExpirationsMirrorEntries(local) /\ CountsMatch(local)

\* Limits::max_entries and max_entries_per_ip bound the retained entries.
WithinLimits == LimitsHold(local)

\* A put evicts a live entry of another address only if every place was taken by
\* a live entry, and then only one entry, which no other live one expires before.
EvictsOnlyUnderPressure ==
  [][LET now == reply'.now
         live == {a \in Held(local) : local.entries[a].expires_at > now}
         lost == live \ Held(local')
     IN  lost # {} =>
           /\ reply'.op = "put" /\ reply'.result = "Ok" /\ reply'.addr \notin live
           /\ Cardinality(live) = MaxEntries
           /\ \E a \in lost : /\ lost = {a}
                              /\ \A b \in live : local.entries[a].expires_at
                                                   <= local.entries[b].expires_at]_localVars

\* The store implements a bounded expiring map: its indexes change nothing that a
\* caller of put_local and get_local can see.
Map == INSTANCE AddrMap WITH map <- local.entries
ImplementsMap == Map!MapSpec
============================================================================
