------------------------------- MODULE Store -------------------------------
(***************************************************************************)
(* The in-memory store of an address-index server                          *)
(* (udp-addr-index/src/store.rs): opaque values keyed by socket address,   *)
(* with one expiry each, an index of the expiries and a count per host.    *)
(*                                                                         *)
(* The store is a value, a record of the three collections of the Rust     *)
(* struct; its methods are operators on that value. An absent key of       *)
(* `entries` is NoEntry, an absent key of `per_ip` is 0: the code removes   *)
(* a count that reaches 0 and reads an absent one as 0.                     *)
(***************************************************************************)
EXTENDS Integers, FiniteSets

CONSTANTS
  Host,            \* IPv4 addresses
  Port,            \* UDP ports
  Value,           \* opaque values
  Oversize,        \* the values longer than max_value_len or MAX_VALUE_LEN
  MaxEntries,      \* Limits::max_entries
  MaxEntriesPerIp, \* Limits::max_entries_per_ip
  Ttl,             \* Limits::value_ttl_secs
  U64Max,          \* the largest time a u64 holds
  NoEntry          \* no entry under this address

ASSUME HostsFinite == IsFiniteSet(Host)
ASSUME PortsFinite == IsFiniteSet(Port)
ASSUME OversizeAssumption == Oversize \subseteq Value
ASSUME LimitsAssumption == /\ MaxEntries \in Nat
                           /\ MaxEntriesPerIp \in Nat
                           /\ Ttl \in Nat
                           /\ U64Max \in Nat

Addr == Host \X Port

Time == 0 .. U64Max

Entry == [value : Value, expires_at : Time]

ASSUME NoEntryAssumption == NoEntry \notin Entry

Stores == [entries : [Addr -> Entry \cup {NoEntry}],
           expirations : SUBSET (Time \X Addr),
           per_ip : [Host -> Nat]]

\* Store::new
EmptyStore == [entries |-> [a \in Addr |-> NoEntry],
               expirations |-> {},
               per_ip |-> [h \in Host |-> 0]]

Held(s) == {a \in Addr : s.entries[a] # NoEntry}

HeldBy(s, h) == {a \in Held(s) : a[1] = h}

\* Mutant: an addition that runs past the width.
SaturatingAddUnbounded(m, n) == m + n

SaturatingAdd(m, n) == IF m + n > U64Max THEN U64Max ELSE m + n

----------------------------------------------------------------------------
WithExpirations(s, exps) == [s EXCEPT !.expirations = exps]

Without(s, gone) == [a \in Addr |-> IF a \in gone THEN NoEntry ELSE s.entries[a]]

\* Drops the entries of `gone` and their counts: remove_entry for each of them.
\* A missing entry changes nothing and a missing count stays missing.
remove_entries(s, gone) ==
  LET lost == [h \in Host |-> Cardinality(gone \cap HeldBy(s, h))]
  IN  [entries |-> Without(s, gone),
       expirations |-> s.expirations,
       per_ip |-> [h \in Host |-> IF lost[h] <= s.per_ip[h] THEN s.per_ip[h] - lost[h]
                                                           ELSE 0]]

\* Pops expiries in order while they are due, and drops their entries.
gc(s, now) ==
  LET due == {e \in s.expirations : e[1] <= now}
  IN  remove_entries(WithExpirations(s, s.expirations \ due), {e[2] : e \in due})

\* Mutant: the entries farthest from expiry.
firstLatest(s) == {e \in s.expirations : \A f \in s.expirations : e[1] >= f[1]}

\* The entries nearest to expiry. The B-tree breaks ties by address, which no
\* property depends on: any of them may be `expirations.first()`.
first(s) == {e \in s.expirations : \A f \in s.expirations : e[1] <= f[1]}

\* Mutant: a replacement that leaves the expiry of the previous value behind.
insertKeepsExpiration(s, addr, value, now) ==
  LET expires_at == SaturatingAdd(now, Ttl)
  IN  [entries |-> [s.entries EXCEPT ![addr] = [value |-> value,
                                                expires_at |-> expires_at]],
       expirations |-> s.expirations \cup {<<expires_at, addr>>},
       per_ip |-> IF s.entries[addr] = NoEntry
                  THEN [s.per_ip EXCEPT ![addr[1]] = @ + 1]
                  ELSE s.per_ip]

\* The end of `put`: the entry, its expiry instead of the previous one, and the
\* count of a fresh address.
insert(s, addr, value, now) ==
  LET expires_at == SaturatingAdd(now, Ttl)
      previous == s.entries[addr]
  IN  [entries |-> [s.entries EXCEPT ![addr] = [value |-> value,
                                                expires_at |-> expires_at]],
       expirations |-> (IF previous = NoEntry
                        THEN s.expirations
                        ELSE s.expirations \ {<<previous.expires_at, addr>>})
                       \cup {<<expires_at, addr>>},
       per_ip |-> IF previous = NoEntry
                  THEN [s.per_ip EXCEPT ![addr[1]] = @ + 1]
                  ELSE s.per_ip]

evict(s, e) == remove_entries(WithExpirations(s, s.expirations \ {e}), {e[2]})

Outcome(result, s) == [result |-> result, store |-> s]

\* Mutant: a put that asks for quota on a refresh too.
putChargesRefresh(s, addr, value, now) ==
  LET g == gc(s, now) IN
  IF value \in Oversize THEN {Outcome("TooLarge", g)}
  ELSE IF g.per_ip[addr[1]] >= MaxEntriesPerIp THEN {Outcome("Full", g)}
  ELSE IF addr \in Held(g) \/ Cardinality(Held(g)) < MaxEntries
       THEN {Outcome("Ok", insert(g, addr, value, now))}
  ELSE IF g.expirations = {} THEN {Outcome("Full", g)}
  ELSE {Outcome("Ok", insert(evict(g, e), addr, value, now)) : e \in first(g)}

\* Mutant: a put that evicts one entry too late.
putOverfills(s, addr, value, now) ==
  LET g == gc(s, now) IN
  IF value \in Oversize THEN {Outcome("TooLarge", g)}
  ELSE IF addr \in Held(g) THEN {Outcome("Ok", insert(g, addr, value, now))}
  ELSE IF g.per_ip[addr[1]] >= MaxEntriesPerIp THEN {Outcome("Full", g)}
  ELSE IF Cardinality(Held(g)) <= MaxEntries
       THEN {Outcome("Ok", insert(g, addr, value, now))}
  ELSE IF g.expirations = {} THEN {Outcome("Full", g)}
  ELSE {Outcome("Ok", insert(evict(g, e), addr, value, now)) : e \in first(g)}

\* The outcomes of Store::put: one, or one per tie for the eviction.
put(s, addr, value, now) ==
  LET g == gc(s, now) IN
  IF value \in Oversize THEN {Outcome("TooLarge", g)}
  ELSE IF addr \in Held(g) THEN {Outcome("Ok", insert(g, addr, value, now))}
  ELSE IF g.per_ip[addr[1]] >= MaxEntriesPerIp THEN {Outcome("Full", g)}
  ELSE IF Cardinality(Held(g)) < MaxEntries
       THEN {Outcome("Ok", insert(g, addr, value, now))}
  ELSE IF g.expirations = {} THEN {Outcome("Full", g)}
  ELSE {Outcome("Ok", insert(evict(g, e), addr, value, now)) : e \in first(g)}

----------------------------------------------------------------------------
(* What the three collections owe each other.                              *)

\* The expiry index names every held entry once, at its own expiry.
ExpirationsMirrorEntries(s) ==
  \A t \in Time, a \in Addr :
    <<t, a>> \in s.expirations <=> a \in Held(s) /\ s.entries[a].expires_at = t

\* The count of a host is the number of its held entries.
CountsMatch(s) == \A h \in Host : s.per_ip[h] = Cardinality(HeldBy(s, h))

\* Neither the store nor a host is over its limit.
LimitsHold(s) == /\ Cardinality(Held(s)) <= MaxEntries
                 /\ \A h \in Host : Cardinality(HeldBy(s, h)) <= MaxEntriesPerIp
============================================================================
