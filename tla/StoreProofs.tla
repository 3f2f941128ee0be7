---------------------------- MODULE StoreProofs ----------------------------
(***************************************************************************)
(* What the operations of the store return and preserve, for every value of *)
(* the constants, and the theorems about LocalIndex: one server's store     *)
(* under any sequence of calls, and its refinement of AddrMap. The first    *)
(* part is about any store, and the proofs about the protocol               *)
(* (PublishProofs) rest on it too.                                         *)
(***************************************************************************)
EXTENDS LocalIndex, FiniteSetTheorems, TLAPS

----------------------------------------------------------------------------
(* The operations.                                                         *)


\* A store whose indexes agree with its entries and that is within its limits.
Good(s) == /\ s \in Stores
           /\ ExpirationsMirrorEntries(s)
           /\ CountsMatch(s)
           /\ LimitsHold(s)

\* The entries of a store with a value put at `now` under one address.
EntriesWith(s, addr, value, now) ==
  [s.entries EXCEPT ![addr] = [value |-> value, expires_at |-> SaturatingAdd(now, Ttl)]]

\* There are finitely many socket addresses, so the held ones have a cardinality.
LEMMA AddrFinite == IsFiniteSet(Addr)
BY HostsFinite, PortsFinite, FS_Product DEF Addr

\* Held addresses, all or of one host, are finite sets of addresses.
LEMMA HeldFinite ==
  ASSUME NEW s \in Stores
  PROVE  /\ Held(s) \subseteq Addr
         /\ IsFiniteSet(Held(s)) /\ Cardinality(Held(s)) \in Nat
         /\ \A h \in Host : /\ IsFiniteSet(HeldBy(s, h))
                            /\ Cardinality(HeldBy(s, h)) \in Nat
<1>1. Held(s) \subseteq Addr /\ \A h \in Host : HeldBy(s, h) \subseteq Addr
  BY DEF Held, HeldBy
<1> QED
  BY <1>1, AddrFinite, FS_Subset, FS_CardinalityType

\* remove_entry of a set of held addresses, with their expiries dropped: what
\* the entries become, and that the indexes still agree.
LEMMA DropKeepsIndexes ==
  ASSUME NEW s \in Stores, ExpirationsMirrorEntries(s), CountsMatch(s),
         NEW gone \in SUBSET Held(s),
         NEW exps \in SUBSET (Time \X Addr),
         \A i \in Time, a \in Addr :
           <<i, a>> \in exps <=> <<i, a>> \in s.expirations /\ a \notin gone,
         NEW t, t = remove_entries(WithExpirations(s, exps), gone)
  PROVE  /\ t \in Stores
         /\ t.entries = Without(s, gone)
         /\ Held(t) = Held(s) \ gone
         /\ ExpirationsMirrorEntries(t)
         /\ CountsMatch(t)
         /\ \A h \in Host : HeldBy(t, h) = HeldBy(s, h) \ gone
<1> DEFINE u == WithExpirations(s, exps)
           n == [h \in Host |-> Cardinality(gone \cap HeldBy(s, h))]
<1>1. u.entries = s.entries /\ u.per_ip = s.per_ip /\ u.expirations = exps
  BY DEF Stores, WithExpirations
<1> HIDE DEF u
<1>2. \A h \in Host : HeldBy(u, h) = HeldBy(s, h)
  BY <1>1 DEF Held, HeldBy
<1>3. t = [entries |-> Without(s, gone),
           expirations |-> exps,
           per_ip |-> [h \in Host |-> IF n[h] <= s.per_ip[h] THEN s.per_ip[h] - n[h] ELSE 0]]
  <2>1. t = remove_entries(u, gone)
    BY DEF u
  <2> QED
    BY <1>1, <1>2, <2>1 DEF remove_entries, Without
<1>4. Held(t) = Held(s) \ gone /\ \A h \in Host : HeldBy(t, h) = HeldBy(s, h) \ gone
  BY <1>3 DEF Held, HeldBy, Without
<1>5. \A h \in Host : /\ n[h] \in Nat /\ n[h] <= s.per_ip[h]
                      /\ Cardinality(HeldBy(s, h) \ gone) = s.per_ip[h] - n[h]
  <2> SUFFICES ASSUME NEW h \in Host
               PROVE  /\ n[h] \in Nat /\ n[h] <= s.per_ip[h]
                      /\ Cardinality(HeldBy(s, h) \ gone) = s.per_ip[h] - n[h]
    OBVIOUS
  <2>1. IsFiniteSet(HeldBy(s, h)) /\ Cardinality(HeldBy(s, h)) = s.per_ip[h]
    BY HeldFinite DEF CountsMatch
  <2>2. n[h] = Cardinality(HeldBy(s, h) \cap gone)
    <3>1. gone \cap HeldBy(s, h) = HeldBy(s, h) \cap gone
      OBVIOUS
    <3> QED
      BY <3>1
  <2>3. Cardinality(HeldBy(s, h) \ gone) = Cardinality(HeldBy(s, h)) - n[h]
    <3>1. Cardinality(HeldBy(s, h) \ gone)
            = Cardinality(HeldBy(s, h)) - Cardinality(HeldBy(s, h) \cap gone)
      BY <2>1, FS_Difference
    <3> QED
      BY <2>2, <3>1
  <2>4. n[h] \in Nat /\ n[h] <= Cardinality(HeldBy(s, h))
    BY <2>1, <2>2, FS_Subset, FS_CardinalityType
  <2> QED
    BY <2>1, <2>3, <2>4
<1> HIDE DEF n
<1>6. /\ \A h \in Host : t.per_ip[h] = s.per_ip[h] - n[h]
      /\ t.per_ip \in [Host -> Nat]
  <2>1. s.per_ip \in [Host -> Nat]
    BY DEF Stores
  <2>2. t.per_ip = [h \in Host |-> IF n[h] <= s.per_ip[h] THEN s.per_ip[h] - n[h] ELSE 0]
    BY <1>3
  <2>3. \A h \in Host : t.per_ip[h] = s.per_ip[h] - n[h]
    BY <1>5, <2>2
  <2>4. \A h \in Host : s.per_ip[h] - n[h] \in Nat
    <3> TAKE h \in Host
    <3>1. s.per_ip[h] \in Nat
      BY <2>1
    <3>2. n[h] \in Nat /\ n[h] <= s.per_ip[h]
      BY <1>5
    <3> QED
      BY <3>1, <3>2
  <2> QED
    BY <2>2, <2>3, <2>4
<1>7. CountsMatch(t)
  BY <1>4, <1>5, <1>6 DEF CountsMatch
<1>8. t \in Stores
  <2>1. Without(s, gone) \in [Addr -> Entry \cup {NoEntry}]
    BY DEF Stores, Without
  <2> QED
    BY <1>3, <1>6, <2>1 DEF Stores
<1>9. ExpirationsMirrorEntries(t)
  <2>1. \A a \in Held(t) : t.entries[a] = s.entries[a]
    BY <1>3, <1>4 DEF Held, Without
  <2>2. t.expirations = exps
    BY <1>3
  <2> QED
    BY <1>4, <2>1, <2>2 DEF ExpirationsMirrorEntries
<1>10. t.entries = Without(s, gone)
  BY <1>3
<1> QED
  BY <1>4, <1>7, <1>8, <1>9, <1>10

\* Store::gc keeps the live entries, drops the others, and its indexes agree.
LEMMA GcGood ==
  ASSUME NEW s, Good(s), NEW now \in Time
  PROVE  /\ Good(gc(s, now))
         /\ gc(s, now).entries =
              [a \in Addr |-> IF s.entries[a] # NoEntry /\ s.entries[a].expires_at > now
                              THEN s.entries[a] ELSE NoEntry]
<1> DEFINE gone == {a \in Held(s) : s.entries[a].expires_at <= now}
           due == {e \in s.expirations : e[1] <= now}
           exps == s.expirations \ due
           t == gc(s, now)
<1>1. /\ s \in Stores /\ ExpirationsMirrorEntries(s) /\ CountsMatch(s) /\ LimitsHold(s)
      /\ s.expirations \in SUBSET (Time \X Addr)
  BY DEF Good, Stores
<1>2. \A a \in Held(s) : s.entries[a] \in Entry /\ s.entries[a].expires_at \in Time
  BY <1>1 DEF Held, Stores, Entry
<1>3. /\ exps \in SUBSET (Time \X Addr)
      /\ \A i \in Time, a \in Addr :
           <<i, a>> \in exps <=> <<i, a>> \in s.expirations /\ a \notin gone
  BY <1>1 DEF ExpirationsMirrorEntries
<1>4. {e[2] : e \in due} = gone
  <2>1. ASSUME NEW e \in due PROVE e[2] \in gone
    <3>1. e = <<e[1], e[2]>> /\ e[1] \in Time /\ e[2] \in Addr
      BY <1>1
    <3> QED
      BY <1>1, <3>1 DEF ExpirationsMirrorEntries
  <2>2. ASSUME NEW a \in gone PROVE \E e \in due : a = e[2]
    <3>1. <<s.entries[a].expires_at, a>> \in due
      BY <1>1, <1>2 DEF ExpirationsMirrorEntries, Held
    <3> QED
      BY <3>1
  <2> QED
    BY <2>1, <2>2
<1>5. t = remove_entries(WithExpirations(s, exps), gone)
  BY <1>4 DEF gc
<1> gone \in SUBSET Held(s)
  OBVIOUS
<1> HIDE DEF t, exps, gone, due
<1>6. /\ t \in Stores
      /\ t.entries = Without(s, gone)
      /\ Held(t) = Held(s) \ gone
      /\ ExpirationsMirrorEntries(t)
      /\ CountsMatch(t)
      /\ \A h \in Host : HeldBy(t, h) = HeldBy(s, h) \ gone
  BY <1>1, <1>3, <1>5, DropKeepsIndexes
<1>7. LimitsHold(t)
  <2>1. Cardinality(Held(t)) <= Cardinality(Held(s))
    BY <1>1, <1>6, HeldFinite, FS_Subset
  <2>2. \A h \in Host : Cardinality(HeldBy(t, h)) <= Cardinality(HeldBy(s, h))
    <3>1. \A h \in Host : HeldBy(t, h) \subseteq HeldBy(s, h)
      BY <1>6
    <3> QED
      BY <1>1, <3>1, HeldFinite, FS_Subset
  <2>3. /\ Cardinality(Held(s)) <= MaxEntries
        /\ \A h \in Host : Cardinality(HeldBy(s, h)) <= MaxEntriesPerIp
    BY <1>1 DEF LimitsHold
  <2>4. /\ Cardinality(Held(s)) \in Nat /\ Cardinality(Held(t)) \in Nat
        /\ \A h \in Host : /\ Cardinality(HeldBy(s, h)) \in Nat
                           /\ Cardinality(HeldBy(t, h)) \in Nat
    BY <1>1, <1>6, HeldFinite
  <2> QED
    BY <2>1, <2>2, <2>3, <2>4, LimitsAssumption DEF LimitsHold
<1>8. t.entries = [a \in Addr |-> IF s.entries[a] # NoEntry /\ s.entries[a].expires_at > now
                                 THEN s.entries[a] ELSE NoEntry]
  <2>1. \A a \in Addr : IF a \in gone THEN s.entries[a] # NoEntry /\ ~(s.entries[a].expires_at > now)
                        ELSE s.entries[a] # NoEntry => s.entries[a].expires_at > now
    BY <1>2 DEF Held, Time, gone
  <2> QED
    BY <1>6, <2>1 DEF Without
<1> QED
  BY <1>6, <1>7, <1>8 DEF Good, t

\* The end of Store::put keeps the indexes and holds one more address, or the same.
LEMMA InsertKeepsIndexes ==
  ASSUME NEW s \in Stores, ExpirationsMirrorEntries(s), CountsMatch(s),
         NEW addr \in Addr, NEW value \in Value, NEW now \in Time,
         NEW t, t = insert(s, addr, value, now)
  PROVE  /\ t \in Stores
         /\ t.entries = EntriesWith(s, addr, value, now)
         /\ Held(t) = Held(s) \cup {addr}
         /\ ExpirationsMirrorEntries(t)
         /\ CountsMatch(t)
         /\ \A h \in Host : HeldBy(t, h) = HeldBy(s, h) \cup {a \in {addr} : a[1] = h}
<1> DEFINE x == SaturatingAdd(now, Ttl)
           e == [value |-> value, expires_at |-> x]
           previous == s.entries[addr]
           exps == (IF previous = NoEntry THEN s.expirations
                    ELSE s.expirations \ {<<previous.expires_at, addr>>}) \cup {<<x, addr>>}
           counts == IF previous = NoEntry THEN [s.per_ip EXCEPT ![addr[1]] = @ + 1]
                                           ELSE s.per_ip
<1>1. x \in Time
  BY LimitsAssumption DEF SaturatingAdd, Time
<1>2. t = [entries |-> [s.entries EXCEPT ![addr] = e], expirations |-> exps, per_ip |-> counts]
  BY DEF insert
<1>3. e \in Entry /\ e # NoEntry /\ e.expires_at = x /\ addr[1] \in Host
  BY <1>1, NoEntryAssumption DEF Entry, Addr
<1> HIDE DEF x, e
<1>4. /\ s.entries \in [Addr -> Entry \cup {NoEntry}]
      /\ s.expirations \in SUBSET (Time \X Addr)
      /\ s.per_ip \in [Host -> Nat]
  BY DEF Stores
<1>5. /\ t.entries = [s.entries EXCEPT ![addr] = e]
      /\ t.entries \in [Addr -> Entry \cup {NoEntry}]
      /\ t.expirations = exps /\ t.per_ip = counts
  BY <1>2, <1>3, <1>4
<1>6. /\ Held(t) = Held(s) \cup {addr}
      /\ \A h \in Host : HeldBy(t, h) = HeldBy(s, h) \cup {a \in {addr} : a[1] = h}
  BY <1>3, <1>4, <1>5 DEF Held, HeldBy
<1>7. exps \in SUBSET (Time \X Addr) /\ counts \in [Host -> Nat]
  BY <1>1, <1>3, <1>4
<1>8. ExpirationsMirrorEntries(t)
  <2> SUFFICES ASSUME NEW i \in Time, NEW a \in Addr
               PROVE  <<i, a>> \in exps <=> a \in Held(t) /\ t.entries[a].expires_at = i
    BY <1>5 DEF ExpirationsMirrorEntries
  <2>1. <<i, a>> \in s.expirations <=> a \in Held(s) /\ s.entries[a].expires_at = i
    BY DEF ExpirationsMirrorEntries
  <2>2. CASE a = addr
    <3>1. t.entries[a].expires_at = x /\ a \in Held(t)
      BY <1>3, <1>4, <1>5, <1>6, <2>2
    <3>2. <<i, a>> \in exps <=> i = x
      BY <2>1, <2>2 DEF Held
    <3> QED
      BY <3>1, <3>2
  <2>3. CASE a # addr
    <3>1. t.entries[a] = s.entries[a] /\ (a \in Held(t) <=> a \in Held(s))
      BY <1>4, <1>5, <1>6, <2>3
    <3>2. <<i, a>> \in exps <=> <<i, a>> \in s.expirations
      BY <2>3
    <3> QED
      BY <2>1, <3>1, <3>2
  <2> QED
    BY <2>2, <2>3
<1>9. CountsMatch(t)
  <2> SUFFICES ASSUME NEW h \in Host
               PROVE  counts[h] = Cardinality(HeldBy(t, h))
    BY <1>5 DEF CountsMatch
  <2>1. s.per_ip[h] = Cardinality(HeldBy(s, h)) /\ IsFiniteSet(HeldBy(s, h))
    BY HeldFinite DEF CountsMatch
  <2>2. CASE previous = NoEntry /\ addr[1] = h
    <3>1. HeldBy(t, h) = HeldBy(s, h) \cup {addr} /\ addr \notin HeldBy(s, h)
      BY <1>6, <2>2 DEF HeldBy, Held
    <3>2. counts[h] = s.per_ip[h] + 1
      BY <1>4, <2>2
    <3> QED
      BY <2>1, <3>1, <3>2, FS_AddElement
  <2>3. CASE ~(previous = NoEntry /\ addr[1] = h)
    <3>1. HeldBy(t, h) = HeldBy(s, h)
      BY <1>6, <2>3 DEF HeldBy, Held
    <3>2. counts[h] = s.per_ip[h]
      BY <1>3, <1>4, <2>3
    <3> QED
      BY <2>1, <3>1, <3>2
  <2> QED
    BY <2>2, <2>3
<1>10. t \in Stores
  BY <1>2, <1>5, <1>7 DEF Stores
<1> QED
  BY <1>5, <1>6, <1>8, <1>9, <1>10 DEF e, x, EntriesWith

\* The eviction of Store::put drops one held entry, which nothing held expires before.
LEMMA EvictDropsNearest ==
  ASSUME NEW s, Good(s), NEW e \in first(s), NEW t, t = evict(s, e)
  PROVE  /\ t \in Stores /\ ExpirationsMirrorEntries(t) /\ CountsMatch(t)
         /\ e[2] \in Held(s)
         /\ t.entries = Without(s, {e[2]})
         /\ Held(t) = Held(s) \ {e[2]}
         /\ \A h \in Host : HeldBy(t, h) = HeldBy(s, h) \ {e[2]}
         /\ \A a \in Held(s) : s.entries[e[2]].expires_at <= s.entries[a].expires_at
<1> DEFINE exps == s.expirations \ {e}
<1>1. /\ s \in Stores /\ ExpirationsMirrorEntries(s) /\ CountsMatch(s)
      /\ s.expirations \in SUBSET (Time \X Addr)
  BY DEF Good, Stores
<1>2. e \in s.expirations /\ e = <<e[1], e[2]>> /\ e[1] \in Time /\ e[2] \in Addr
  BY <1>1 DEF first
<1>3. e[2] \in Held(s) /\ s.entries[e[2]].expires_at = e[1]
  BY <1>1, <1>2 DEF ExpirationsMirrorEntries
<1>4. /\ exps \in SUBSET (Time \X Addr)
      /\ \A i \in Time, a \in Addr :
           <<i, a>> \in exps <=> <<i, a>> \in s.expirations /\ a \notin {e[2]}
  <2> SUFFICES ASSUME NEW i \in Time, NEW a \in Addr
               PROVE  <<i, a>> \in exps <=> <<i, a>> \in s.expirations /\ a # e[2]
    BY <1>1
  <2>1. CASE a = e[2]
    BY <1>1, <1>2, <1>3, <2>1 DEF ExpirationsMirrorEntries
  <2>2. CASE a # e[2]
    BY <1>2, <2>2
  <2> QED
    BY <2>1, <2>2
<1>5. t = remove_entries(WithExpirations(s, exps), {e[2]})
  BY DEF evict
<1> HIDE DEF exps
<1>6. {e[2]} \in SUBSET Held(s)
  BY <1>3
<1>7. ASSUME NEW a \in Held(s)
      PROVE  s.entries[e[2]].expires_at <= s.entries[a].expires_at
  <2>1. <<s.entries[a].expires_at, a>> \in s.expirations
    BY <1>1 DEF ExpirationsMirrorEntries, Held, Stores, Entry
  <2> QED
    BY <1>3, <2>1 DEF first
<1> DEFINE gone == {e[2]}
<1>8. /\ t \in Stores /\ ExpirationsMirrorEntries(t) /\ CountsMatch(t)
      /\ t.entries = Without(s, gone)
      /\ Held(t) = Held(s) \ gone
      /\ \A h \in Host : HeldBy(t, h) = HeldBy(s, h) \ gone
  <2>1. gone \in SUBSET Held(s) /\ t = remove_entries(WithExpirations(s, exps), gone)
    BY <1>5, <1>6
  <2>2. \A i \in Time, a \in Addr :
          <<i, a>> \in exps <=> <<i, a>> \in s.expirations /\ a \notin gone
    BY <1>4
  <2>3. exps \in SUBSET (Time \X Addr)
    BY <1>4
  <2> HIDE DEF gone
  <2> QED
    BY <1>1, <2>1, <2>2, <2>3, DropKeepsIndexes
<1> QED
  BY <1>3, <1>7, <1>8

\* The returns of Store::put, each with the conditions that lead to it.
LEMMA PutCases ==
  ASSUME NEW s, NEW addr, NEW value, NEW now, NEW o \in put(s, addr, value, now),
         NEW g, g = gc(s, now)
  PROVE  \/ value \in Oversize /\ o = Outcome("TooLarge", g)
         \/ /\ value \notin Oversize
            /\ \/ addr \in Held(g) /\ o = Outcome("Ok", insert(g, addr, value, now))
               \/ /\ addr \notin Held(g)
                  /\ \/ g.per_ip[addr[1]] >= MaxEntriesPerIp /\ o = Outcome("Full", g)
                     \/ /\ ~(g.per_ip[addr[1]] >= MaxEntriesPerIp)
                        /\ \/ /\ Cardinality(Held(g)) < MaxEntries
                              /\ o = Outcome("Ok", insert(g, addr, value, now))
                           \/ /\ ~(Cardinality(Held(g)) < MaxEntries)
                              /\ \/ g.expirations = {} /\ o = Outcome("Full", g)
                                 \/ \E e \in first(g) :
                                      o = Outcome("Ok", insert(evict(g, e), addr, value, now))
BY DEF put

\* Store::put leaves a store whose indexes agree and that is within its limits.
LEMMA PutGood ==
  ASSUME NEW s, Good(s), NEW addr \in Addr, NEW value \in Value, NEW now \in Time,
         NEW o \in put(s, addr, value, now)
  PROVE  Good(o.store)
<1> DEFINE g == gc(s, now)
           t == o.store
<1>1. Good(g)
  BY GcGood
<1> HIDE DEF g, t
<1> SUFFICES Good(t)
  BY DEF t
<1>2. g \in Stores /\ ExpirationsMirrorEntries(g) /\ CountsMatch(g) /\ LimitsHold(g)
  BY <1>1 DEF Good
<1>3. /\ addr[1] \in Host
      /\ IsFiniteSet(Held(g)) /\ Cardinality(Held(g)) \in Nat
      /\ \A h \in Host : IsFiniteSet(HeldBy(g, h)) /\ Cardinality(HeldBy(g, h)) \in Nat
  BY <1>2, HeldFinite DEF Addr
<1>4. CASE t = g
  BY <1>1, <1>4
<1>5. CASE addr \in Held(g) /\ t = insert(g, addr, value, now)
  <2>1. /\ t \in Stores /\ ExpirationsMirrorEntries(t) /\ CountsMatch(t)
        /\ Held(t) = Held(g) \cup {addr}
    BY <1>2, <1>5, InsertKeepsIndexes
  <2>2. Held(t) = Held(g) /\ \A h \in Host : HeldBy(t, h) = HeldBy(g, h)
    BY <1>5, <2>1 DEF HeldBy
  <2> QED
    BY <1>2, <2>1, <2>2 DEF Good, LimitsHold
<1>6. ASSUME NEW k \in Stores, ExpirationsMirrorEntries(k), CountsMatch(k),
             addr \notin Held(k), Cardinality(Held(k)) < MaxEntries,
             \A h \in Host : Cardinality(HeldBy(k, h)) <= MaxEntriesPerIp,
             Cardinality(HeldBy(k, addr[1])) < MaxEntriesPerIp,
             t = insert(k, addr, value, now)
      PROVE  Good(t)
  <2>1. /\ t \in Stores /\ ExpirationsMirrorEntries(t) /\ CountsMatch(t)
        /\ Held(t) = Held(k) \cup {addr}
        /\ \A h \in Host : HeldBy(t, h) = HeldBy(k, h) \cup {a \in {addr} : a[1] = h}
    BY <1>6, InsertKeepsIndexes
  <2>2. Cardinality(Held(t)) <= MaxEntries
    <3>1. IsFiniteSet(Held(k)) /\ Cardinality(Held(k)) \in Nat
      BY HeldFinite
    <3>2. Cardinality(Held(k) \cup {addr}) = Cardinality(Held(k)) + 1
      BY <1>6, <3>1, FS_AddElement
    <3> QED
      BY <1>6, <2>1, <3>1, <3>2, LimitsAssumption
  <2>3. ASSUME NEW h \in Host PROVE Cardinality(HeldBy(t, h)) <= MaxEntriesPerIp
    <3>1. CASE h = addr[1]
      <4>1. HeldBy(t, h) = HeldBy(k, h) \cup {addr}
        BY <2>1, <3>1
      <4>2. IsFiniteSet(HeldBy(k, h)) /\ Cardinality(HeldBy(k, h)) \in Nat
        BY HeldFinite
      <4>3. Cardinality(HeldBy(k, h) \cup {addr}) = Cardinality(HeldBy(k, h)) + 1
        BY <1>6, <4>2, FS_AddElement DEF HeldBy
      <4> QED
        BY <1>6, <3>1, <4>1, <4>2, <4>3, LimitsAssumption
    <3>2. CASE h # addr[1]
      <4>1. HeldBy(t, h) = HeldBy(k, h)
        BY <2>1, <3>2
      <4> QED
        BY <1>6, <4>1
    <3> QED
      BY <3>1, <3>2
  <2> QED
    BY <2>1, <2>2, <2>3 DEF Good, LimitsHold
<1>7. CASE /\ addr \notin Held(g) /\ ~(g.per_ip[addr[1]] >= MaxEntriesPerIp)
           /\ Cardinality(Held(g)) < MaxEntries
           /\ t = insert(g, addr, value, now)
  <2>1. Cardinality(HeldBy(g, addr[1])) < MaxEntriesPerIp
    BY <1>2, <1>3, <1>7, LimitsAssumption DEF CountsMatch
  <2> QED
    BY <1>2, <1>6, <1>7, <2>1 DEF LimitsHold
<1>8. ASSUME addr \notin Held(g), ~(g.per_ip[addr[1]] >= MaxEntriesPerIp),
             NEW e \in first(g), t = insert(evict(g, e), addr, value, now)
      PROVE  Good(t)
  <2> DEFINE k == evict(g, e)
  <2>1. /\ k \in Stores /\ ExpirationsMirrorEntries(k) /\ CountsMatch(k)
        /\ e[2] \in Held(g) /\ Held(k) = Held(g) \ {e[2]}
        /\ \A h \in Host : HeldBy(k, h) = HeldBy(g, h) \ {e[2]}
    BY <1>1, <1>8, EvictDropsNearest
  <2> HIDE DEF k
  <2>2. Cardinality(Held(k)) < MaxEntries
    <3>1. Cardinality(Held(g) \ {e[2]}) = Cardinality(Held(g)) - 1
      BY <1>3, <2>1, FS_RemoveElement
    <3> QED
      BY <1>2, <1>3, <2>1, <3>1, LimitsAssumption DEF LimitsHold
  <2>3. \A h \in Host : /\ Cardinality(HeldBy(k, h)) \in Nat
                        /\ Cardinality(HeldBy(k, h)) <= Cardinality(HeldBy(g, h))
    <3>1. \A h \in Host : HeldBy(k, h) \subseteq HeldBy(g, h)
      BY <2>1
    <3> QED
      BY <1>3, <2>1, <3>1, HeldFinite, FS_Subset
  <2>4. \A h \in Host : Cardinality(HeldBy(k, h)) <= MaxEntriesPerIp
    BY <1>2, <1>3, <2>3, LimitsAssumption DEF LimitsHold
  <2>5. Cardinality(HeldBy(k, addr[1])) < MaxEntriesPerIp
    BY <1>2, <1>3, <1>8, <2>3, LimitsAssumption DEF CountsMatch
  <2>6. addr \notin Held(k) /\ t = insert(k, addr, value, now)
    BY <1>8, <2>1 DEF k
  <2> QED
    BY <1>6, <2>1, <2>2, <2>4, <2>5, <2>6
<1> QED
  <2>1. \/ t = g
        \/ addr \in Held(g) /\ t = insert(g, addr, value, now)
        \/ /\ addr \notin Held(g) /\ ~(g.per_ip[addr[1]] >= MaxEntriesPerIp)
           /\ \/ Cardinality(Held(g)) < MaxEntries /\ t = insert(g, addr, value, now)
              \/ \E e \in first(g) : t = insert(evict(g, e), addr, value, now)
    BY PutCases DEF g, t, Outcome
  <2> QED
    BY <1>4, <1>5, <1>7, <1>8, <2>1

\* The empty store is good.
LEMMA EmptyGood == Good(EmptyStore)
<1>1. EmptyStore \in Stores /\ Held(EmptyStore) = {} /\ \A h \in Host : HeldBy(EmptyStore, h) = {}
  BY DEF EmptyStore, Stores, Held, HeldBy
<1>2. Cardinality({}) = 0
  BY FS_EmptySet
<1>3. EmptyStore.expirations = {} /\ \A h \in Host : EmptyStore.per_ip[h] = 0
  BY DEF EmptyStore
<1> QED
  BY <1>1, <1>2, <1>3, LimitsAssumption
     DEF Good, ExpirationsMirrorEntries, CountsMatch, LimitsHold
\* The outcome has only entries that were there before, and the new one if it was accepted.
OnlyAdds(s, o, addr, value, now) ==
  \A a \in Held(o.store) :
    \/ a \in Held(s) /\ o.store.entries[a] = s.entries[a]
    \/ /\ a = addr /\ o.result = "Ok"
       /\ o.store.entries[a] = [value |-> value, expires_at |-> SaturatingAdd(now, Ttl)]

\* It has all live ones, except one of those nearest to expiry when there is no room for a
\* fresh address.
EvictsFirst(g, o, addr) ==
  \/ Held(g) \subseteq Held(o.store)
  \/ /\ o.result = "Ok" /\ addr \notin Held(g) /\ ~(Cardinality(Held(g)) < MaxEntries)
     /\ \E e \in first(g) : Held(g) \ {e[2]} \subseteq Held(o.store)

\* What a put leaves.
LEMMA PutEntries ==
  ASSUME NEW s, Good(s), NEW addr \in Addr, NEW value \in Value, NEW now \in Time,
         NEW o \in put(s, addr, value, now)
  PROVE  /\ OnlyAdds(s, o, addr, value, now)
         /\ EvictsFirst(gc(s, now), o, addr)
<1> DEFINE g == gc(s, now)
           t == o.store
           new == [value |-> value, expires_at |-> SaturatingAdd(now, Ttl)]
<1>1. /\ Good(g)
      /\ \A a \in Held(g) : a \in Held(s) /\ g.entries[a] = s.entries[a]
      /\ Held(g) = {a \in Held(s) : s.entries[a].expires_at > now}
  <2>1. /\ Good(g)
        /\ g.entries = [a \in Addr |-> IF s.entries[a] # NoEntry /\ s.entries[a].expires_at > now
                                       THEN s.entries[a] ELSE NoEntry]
    BY GcGood
  <2> HIDE DEF g
  <2>2. \A a \in Addr : g.entries[a] = IF s.entries[a] # NoEntry /\ s.entries[a].expires_at > now
                                      THEN s.entries[a] ELSE NoEntry
    BY <2>1
  <2> QED
    BY <2>1, <2>2 DEF Held
<1> HIDE DEF g, t
<1>2. g \in Stores /\ ExpirationsMirrorEntries(g) /\ CountsMatch(g)
  BY <1>1 DEF Good
<1>3. CASE t = g
  BY <1>1, <1>3 DEF g, t, OnlyAdds, EvictsFirst
<1>4. CASE o.result = "Ok" /\ t = insert(g, addr, value, now)
  <2>1. t.entries = EntriesWith(g, addr, value, now) /\ Held(t) = Held(g) \cup {addr}
    BY <1>2, <1>4, InsertKeepsIndexes
  <2>2. \A a \in Held(t) : t.entries[a] = IF a = addr THEN new ELSE g.entries[a]
    BY <1>2, <2>1 DEF EntriesWith, Stores, Held
  <2> QED
    BY <1>1, <1>4, <2>1, <2>2 DEF g, t, OnlyAdds, EvictsFirst
<1>5. ASSUME o.result = "Ok", NEW e \in first(g), t = insert(evict(g, e), addr, value, now),
             addr \notin Held(g), ~(Cardinality(Held(g)) < MaxEntries)
      PROVE  /\ \A a \in Held(t) : \/ a \in Held(g) /\ t.entries[a] = g.entries[a]
                                   \/ a = addr /\ t.entries[a] = new
             /\ Held(g) \ {e[2]} \subseteq Held(t)
  <2> DEFINE k == evict(g, e)
  <2>1. /\ k \in Stores /\ ExpirationsMirrorEntries(k) /\ CountsMatch(k)
        /\ k.entries = Without(g, {e[2]}) /\ Held(k) = Held(g) \ {e[2]}
    BY <1>1, EvictDropsNearest
  <2> HIDE DEF k
  <2>2. t = insert(k, addr, value, now)
    BY <1>5 DEF k
  <2>3. t.entries = EntriesWith(k, addr, value, now) /\ Held(t) = Held(k) \cup {addr}
    BY <2>1, <2>2, InsertKeepsIndexes
  <2>4. \A a \in Held(t) : t.entries[a] = IF a = addr THEN new ELSE k.entries[a]
    BY <2>1, <2>3 DEF EntriesWith, Stores, Held
  <2>5. \A a \in Held(k) : k.entries[a] = g.entries[a]
    BY <2>1 DEF Without, Held
  <2> QED
    BY <2>1, <2>3, <2>4, <2>5
<1> QED
  <2>1. \/ t = g
        \/ o.result = "Ok" /\ t = insert(g, addr, value, now)
        \/ /\ o.result = "Ok" /\ addr \notin Held(g) /\ ~(Cardinality(Held(g)) < MaxEntries)
           /\ \E e \in first(g) : t = insert(evict(g, e), addr, value, now)
    BY PutCases DEF g, t, Outcome
  <2>2. ASSUME o.result = "Ok", addr \notin Held(g), ~(Cardinality(Held(g)) < MaxEntries),
               NEW e \in first(g), t = insert(evict(g, e), addr, value, now)
        PROVE  /\ \A a \in Held(t) : \/ a \in Held(s) /\ t.entries[a] = s.entries[a]
                                     \/ a = addr /\ t.entries[a] = new
               /\ Held(g) \ {e[2]} \subseteq Held(t)
    BY <1>1, <1>5, <2>2
  <2> QED
    BY <1>3, <1>4, <2>1, <2>2 DEF g, t, OnlyAdds, EvictsFirst
\* gc leaves live entries as they were.
LEMMA GcKeeps ==
  ASSUME NEW s, Good(s), NEW now \in Time
  PROVE  \A a \in Held(gc(s, now)) : a \in Held(s) /\ gc(s, now).entries[a] = s.entries[a]
<1> DEFINE g == gc(s, now)
<1>1. g.entries = [a \in Addr |-> IF s.entries[a] # NoEntry /\ s.entries[a].expires_at > now
                                 THEN s.entries[a] ELSE NoEntry]
  BY GcGood
<1> HIDE DEF g
<1>2. \A a \in Addr : g.entries[a] = IF s.entries[a] # NoEntry /\ s.entries[a].expires_at > now
                                    THEN s.entries[a] ELSE NoEntry
  BY <1>1
<1> QED
  BY <1>2 DEF Held, g

----------------------------------------------------------------------------
(* One server's store.                                                     *)


\* The replies of put_local and get_local have their types.
LEMMA ReplyType ==
  ASSUME Good(local), reply \in Replies, [NextLocal]_localVars
  PROVE  reply' \in Replies
<1>1. CASE UNCHANGED localVars
  BY <1>1 DEF localVars
<1>2. ASSUME NEW addr \in Addr, NEW now \in Time, NEW value \in Value,
             put_local(addr, value, now)
      PROVE  reply' \in Replies
  <2>1. PICK o \in put(local, addr, value, now) :
          reply' = [op |-> "put", addr |-> addr, now |-> now, result |-> o.result]
    BY <1>2 DEF put_local
  <2>2. o.result \in {"Ok", "Full", "TooLarge"}
    BY PutCases DEF Outcome
  <2> QED
    BY <2>1, <2>2 DEF Replies
<1>3. ASSUME NEW addr \in Addr, NEW now \in Time, get_local(addr, now)
      PROVE  reply' \in Replies
  <2>1. Good(gc(local, now))
    BY GcGood
  <2>2. gc(local, now).entries[addr] \in Entry \cup {NoEntry}
    BY <2>1 DEF Good, Stores
  <2> QED
    BY <1>3, <2>2 DEF get_local, Replies
<1> QED
  BY <1>1, <1>2, <1>3 DEF NextLocal

\* Every call of put_local and get_local leaves a good store good.
LEMMA StepGood ==
  ASSUME Good(local), [NextLocal]_localVars
  PROVE  Good(local')
<1>1. CASE UNCHANGED localVars
  BY <1>1 DEF localVars
<1>2. ASSUME NEW addr \in Addr, NEW now \in Time, NEW value \in Value,
             put_local(addr, value, now)
      PROVE  Good(local')
  BY <1>2, PutGood DEF put_local
<1>3. ASSUME NEW addr \in Addr, NEW now \in Time, get_local(addr, now)
      PROVE  Good(local')
  BY <1>3, GcGood DEF get_local
<1> QED
  BY <1>1, <1>2, <1>3 DEF NextLocal

\* The invariant of the four theorems below: it is inductive as it stands.
LocalInv == Good(local) /\ reply \in Replies

LEMMA LocalGood == LocalSpec => []LocalInv
<1>1. InitLocal => LocalInv
  BY EmptyGood DEF InitLocal, Replies, LocalInv
<1>2. LocalInv /\ [NextLocal]_localVars => LocalInv'
  BY StepGood, ReplyType DEF LocalInv
<1> QED
  BY <1>1, <1>2, PTL DEF LocalSpec

\* The store and the replies are well typed, after any sequence of puts and gets.
THEOREM StoreTypes == LocalSpec => []TypeOK
<1>1. LocalInv => TypeOK
  BY DEF LocalInv, Good, TypeOK
<1> QED
  BY <1>1, LocalGood, PTL

\* After any sequence of puts and gets, at any readings of the clock, for every number
\* of hosts, ports and entries and every limit, the expiry index and the counts of
\* store.rs agree with the entries.
THEOREM StoreCorrect == LocalSpec => []IndexesAgree
<1>1. LocalInv => IndexesAgree
  BY DEF LocalInv, Good, IndexesAgree
<1> QED
  BY <1>1, LocalGood, PTL

\* Neither max_entries nor max_entries_per_ip is ever exceeded.
THEOREM StoreBounded == LocalSpec => []WithinLimits
<1>1. LocalInv => WithinLimits
  BY DEF LocalInv, Good, WithinLimits
<1> QED
  BY <1>1, LocalGood, PTL

\* What gc leaves is what is live.
LEMMA HeldAfterGc ==
  ASSUME Good(local), NEW now \in Time
  PROVE  /\ Good(gc(local, now))
         /\ Held(gc(local, now)) = {a \in Held(local) : local.entries[a].expires_at > now}
         /\ \A a \in Held(gc(local, now)) : gc(local, now).entries[a] = local.entries[a]
<1> DEFINE g == gc(local, now)
<1>1. /\ Good(g)
      /\ g.entries = [a \in Addr |-> IF local.entries[a] # NoEntry /\ local.entries[a].expires_at > now
                                     THEN local.entries[a] ELSE NoEntry]
  BY GcGood
<1> HIDE DEF g
<1>2. \A a \in Addr : g.entries[a] = IF local.entries[a] # NoEntry /\ local.entries[a].expires_at > now
                                    THEN local.entries[a] ELSE NoEntry
  BY <1>1
<1> QED
  BY <1>1, <1>2 DEF Held, g

\* An entry of the index nearest to expiry is a held one that none expires before.
LEMMA FirstExpires ==
  ASSUME NEW g, Good(g), NEW e \in first(g)
  PROVE  e[2] \in Held(g) /\ \A b \in Held(g) : g.entries[e[2]].expires_at <= g.entries[b].expires_at
<1>1. /\ ExpirationsMirrorEntries(g) /\ g.expirations \subseteq Time \X Addr
      /\ \A b \in Held(g) : b \in Addr /\ g.entries[b].expires_at \in Time
  BY DEF Good, Stores, Held, Entry
<1>2. e = <<e[1], e[2]>> /\ e[1] \in Time /\ e[2] \in Addr /\ e \in g.expirations
  BY <1>1 DEF first
<1>3. e[2] \in Held(g) /\ g.entries[e[2]].expires_at = e[1]
  BY <1>1, <1>2 DEF ExpirationsMirrorEntries
<1>4. ASSUME NEW b \in Held(g) PROVE e[1] <= g.entries[b].expires_at
  <2>1. <<g.entries[b].expires_at, b>> \in g.expirations
    BY <1>1 DEF ExpirationsMirrorEntries
  <2> QED
    BY <2>1 DEF first
<1> QED
  BY <1>3, <1>4

\* A put drops a live entry of another address only when every place was taken, and then
\* one that no other live entry expires before (the eviction of store.rs).
THEOREM EvictionNeedsPressure == LocalSpec => EvictsOnlyUnderPressure
<1> DEFINE now == reply'.now
           live == {a \in Held(local) : local.entries[a].expires_at > now}
           lost == live \ Held(local')
           Under == lost # {} =>
                      /\ reply'.op = "put" /\ reply'.result = "Ok" /\ reply'.addr \notin live
                      /\ Cardinality(live) = MaxEntries
                      /\ \E a \in lost : /\ lost = {a}
                                         /\ \A b \in live : local.entries[a].expires_at
                                                              <= local.entries[b].expires_at
<1>1. ASSUME LocalInv, NEW addr \in Addr, NEW n \in Time, get_local(addr, n) PROVE Under
  <2>1. now = n /\ local' = gc(local, n)
    BY <1>1 DEF get_local
  <2> QED
    BY <1>1, <2>1, HeldAfterGc DEF LocalInv
<1>2. ASSUME LocalInv, NEW addr \in Addr, NEW n \in Time, NEW value \in Value,
             put_local(addr, value, n)
      PROVE  Under
  <2>1. PICK o \in put(local, addr, value, n) :
          /\ local' = o.store
          /\ reply' = [op |-> "put", addr |-> addr, now |-> n, result |-> o.result]
    BY <1>2 DEF put_local
  <2> DEFINE g == gc(local, n)
  <2>2. /\ now = n /\ live = Held(g) /\ Good(g)
        /\ \A a \in Held(g) : g.entries[a] = local.entries[a]
    BY <1>2, <2>1, HeldAfterGc DEF LocalInv
  <2>3. EvictsFirst(g, o, addr)
    BY <1>2, PutEntries DEF LocalInv
  <2> HIDE DEF g, live, now
  <2>4. Cardinality(Held(g)) \in Nat /\ Cardinality(Held(g)) <= MaxEntries
    BY <2>2, HeldFinite DEF Good, LimitsHold
  <2>5. ASSUME lost # {} PROVE Under
    <3>1. PICK e \in first(g) : Held(g) \ {e[2]} \subseteq Held(o.store)
      BY <2>1, <2>2, <2>3, <2>5 DEF EvictsFirst
    <3>2. lost = {e[2]}
      BY <2>1, <2>2, <2>5, <3>1
    <3>3. \A b \in live : local.entries[e[2]].expires_at <= local.entries[b].expires_at
      BY <2>2, <3>1, FirstExpires
    <3>4. Cardinality(live) = MaxEntries
      BY <2>1, <2>2, <2>3, <2>4, <2>5, LimitsAssumption DEF EvictsFirst
    <3>5. reply'.op = "put" /\ reply'.result = "Ok" /\ reply'.addr \notin live
      BY <2>1, <2>2, <2>3, <2>5 DEF EvictsFirst
    <3> QED
      BY <3>2, <3>3, <3>4, <3>5
  <2> QED
    BY <2>5
<1>3. LocalInv /\ [NextLocal]_localVars => [Under]_localVars
  BY <1>1, <1>2 DEF NextLocal
<1> QED
  BY <1>3, LocalGood, PTL DEF LocalSpec, EvictsOnlyUnderPressure

----------------------------------------------------------------------------
\* The live part of the abstract map is what gc leaves.
LEMMA LiveIsCollected ==
  ASSUME Good(local), NEW now \in Time, NEW g, g = gc(local, now)
  PROVE  /\ Good(g)
         /\ Map!Live(now) = Held(g)
         /\ g.entries = Map!Only(Held(g))
         /\ \A a \in Held(g) : g.entries[a] = local.entries[a]
         /\ \A h \in Host : {a \in Map!Live(now) : a[1] = h} = HeldBy(g, h)
<1>1. Good(g) /\ g.entries =
        [a \in Addr |-> IF local.entries[a] # NoEntry /\ local.entries[a].expires_at > now
                        THEN local.entries[a] ELSE NoEntry]
  BY GcGood
<1>2. Map!Live(now) = Held(g)
  BY <1>1 DEF Held, Map!Live, Map!AllAddr, Addr
<1>3. \A a \in Held(g) : g.entries[a] = local.entries[a]
  BY <1>1 DEF Held
<1>4. g.entries = Map!Only(Held(g))
  BY <1>1 DEF Held, Map!Only, Map!AllAddr, Addr
<1> QED
  BY <1>1, <1>2, <1>3, <1>4 DEF HeldBy

\* The abstract map counts the way the store does.
LEMMA SameCardinality == \A S : Map!Cardinality(S) = Cardinality(S)
BY DEF Cardinality, Map!Cardinality

\* The room a put finds in the abstract map.
LEMMA RoomCases ==
  ASSUME Good(local), NEW now \in Time, NEW g, g = gc(local, now), NEW addr \in Addr
  PROVE  /\ addr \in Held(g) \/ Cardinality(Held(g)) < MaxEntries
              => Map!RoomWithout(addr, now) = {Held(g)}
         /\ addr \notin Held(g) /\ ~(Cardinality(Held(g)) < MaxEntries)
              => Map!RoomWithout(addr, now) =
                   {Held(g) \ {a} : a \in {b \in Held(g) : \A c \in Held(g) :
                      g.entries[b].expires_at <= g.entries[c].expires_at}}
         /\ Map!HostHasRoom(addr, now) <=>
              addr \in Held(g) \/ ~(g.per_ip[addr[1]] >= MaxEntriesPerIp)
<1>1. /\ Good(g) /\ Map!Live(now) = Held(g)
      /\ \A a \in Held(g) : g.entries[a] = local.entries[a]
      /\ \A h \in Host : {a \in Map!Live(now) : a[1] = h} = HeldBy(g, h)
  BY LiveIsCollected
<1>2. addr[1] \in Host /\ g.per_ip[addr[1]] = Cardinality(HeldBy(g, addr[1]))
      /\ Cardinality(HeldBy(g, addr[1])) \in Nat
  BY <1>1, HeldFinite DEF Addr, Good, CountsMatch
<1>3. Map!HostHasRoom(addr, now) <=>
        addr \in Held(g) \/ ~(g.per_ip[addr[1]] >= MaxEntriesPerIp)
  BY <1>1, <1>2, SameCardinality, LimitsAssumption DEF Map!HostHasRoom
<1>4. addr \in Held(g) \/ Cardinality(Held(g)) < MaxEntries
        => Map!RoomWithout(addr, now) = {Held(g)}
  BY <1>1, SameCardinality DEF Map!RoomWithout
<1>5. {b \in Held(g) : \A c \in Held(g) :
         local.entries[b].expires_at <= local.entries[c].expires_at}
      = {b \in Held(g) : \A c \in Held(g) :
           g.entries[b].expires_at <= g.entries[c].expires_at}
  BY <1>1
<1>6. addr \notin Held(g) /\ ~(Cardinality(Held(g)) < MaxEntries)
        => Map!RoomWithout(addr, now) =
             {Held(g) \ {a} : a \in {b \in Held(g) : \A c \in Held(g) :
                g.entries[b].expires_at <= g.entries[c].expires_at}}
  BY <1>1, <1>5, SameCardinality DEF Map!RoomWithout
<1> QED
  BY <1>3, <1>4, <1>6

\* A put of the store is a put or a refusal of the abstract map.
LEMMA PutImplements ==
  ASSUME Good(local), NEW addr \in Addr, NEW value \in Value, NEW now \in Time,
         put_local(addr, value, now)
  PROVE  Map!Put(addr, value, now) \/ Map!Refuse(addr, value, now)
<1> DEFINE g == gc(local, now)
<1>1. PICK o \in put(local, addr, value, now) :
        /\ local' = o.store
        /\ reply' = [op |-> "put", addr |-> addr, now |-> now, result |-> o.result]
  BY DEF put_local
<1>2. /\ Good(g) /\ Map!Live(now) = Held(g) /\ g.entries = Map!Only(Held(g))
  BY LiveIsCollected
<1>3. /\ g \in Stores /\ ExpirationsMirrorEntries(g) /\ CountsMatch(g)
  BY <1>2 DEF Good
<1>4. SaturatingAdd(now, Ttl) = Map!Expiry(now)
  BY DEF SaturatingAdd, Map!Expiry
<1>5. /\ addr \in Held(g) \/ Cardinality(Held(g)) < MaxEntries
           => Map!RoomWithout(addr, now) = {Held(g)}
      /\ addr \notin Held(g) /\ ~(Cardinality(Held(g)) < MaxEntries)
           => Map!RoomWithout(addr, now) =
                {Held(g) \ {a} : a \in {b \in Held(g) : \A c \in Held(g) :
                   g.entries[b].expires_at <= g.entries[c].expires_at}}
      /\ Map!HostHasRoom(addr, now) <=>
           addr \in Held(g) \/ ~(g.per_ip[addr[1]] >= MaxEntriesPerIp)
  BY RoomCases
<1> HIDE DEF g
<1>6. CASE value \in Oversize /\ o = Outcome("TooLarge", g)
  <2>1. o.store = g /\ o.result = "TooLarge"
    BY <1>6 DEF Outcome
  <2> QED
    BY <1>1, <1>2, <1>6, <2>1 DEF Map!Refuse
<1>7. CASE /\ value \notin Oversize
           /\ ~Map!HostHasRoom(addr, now) \/ Map!RoomWithout(addr, now) = {}
           /\ o = Outcome("Full", g)
  <2>1. o.store = g /\ o.result = "Full"
    BY <1>7 DEF Outcome
  <2> QED
    BY <1>1, <1>2, <1>7, <2>1 DEF Map!Refuse
<1>8. ASSUME NEW k \in Stores, ExpirationsMirrorEntries(k), CountsMatch(k),
             k.entries = Map!Only(Held(k)), Held(k) \in Map!RoomWithout(addr, now),
             value \notin Oversize, Map!HostHasRoom(addr, now),
             o = Outcome("Ok", insert(k, addr, value, now))
      PROVE  Map!Put(addr, value, now)
  <2> DEFINE t == insert(k, addr, value, now)
  <2>1. t.entries = EntriesWith(k, addr, value, now)
    BY <1>8, InsertKeepsIndexes
  <2>2. local' = t /\ o.result = "Ok"
    BY <1>1, <1>8 DEF Outcome
  <2> HIDE DEF t
  <2>3. local'.entries = [Map!Only(Held(k)) EXCEPT ![addr] = [value |-> value,
                                                 expires_at |-> Map!Expiry(now)]]
    BY <1>4, <1>8, <2>1, <2>2 DEF EntriesWith
  <2> QED
    BY <1>1, <1>8, <2>2, <2>3 DEF Map!Put
<1>9. CASE /\ value \notin Oversize /\ Map!HostHasRoom(addr, now)
           /\ addr \in Held(g) \/ Cardinality(Held(g)) < MaxEntries
           /\ o = Outcome("Ok", insert(g, addr, value, now))
  BY <1>2, <1>3, <1>5, <1>8, <1>9
<1>10. ASSUME NEW e \in first(g), value \notin Oversize, Map!HostHasRoom(addr, now),
              addr \notin Held(g), ~(Cardinality(Held(g)) < MaxEntries),
              o = Outcome("Ok", insert(evict(g, e), addr, value, now))
       PROVE  Map!Put(addr, value, now)
  <2> DEFINE k == evict(g, e)
  <2>1. /\ k \in Stores /\ ExpirationsMirrorEntries(k) /\ CountsMatch(k)
        /\ e[2] \in Held(g) /\ k.entries = Without(g, {e[2]}) /\ Held(k) = Held(g) \ {e[2]}
        /\ \A a \in Held(g) : g.entries[e[2]].expires_at <= g.entries[a].expires_at
    BY <1>2, EvictDropsNearest
  <2>2. o = Outcome("Ok", insert(k, addr, value, now))
    BY <1>10
  <2> HIDE DEF k
  <2>3. Held(k) \in Map!RoomWithout(addr, now)
    BY <1>5, <1>10, <2>1
  <2>4. k.entries = Map!Only(Held(k))
    BY <1>2, <2>1 DEF Without, Map!Only, Map!AllAddr, Addr, Held
  <2> QED
    BY <1>8, <1>10, <2>1, <2>2, <2>3, <2>4
<1>11. g.expirations = {} => Held(g) = {}
  BY <1>3 DEF ExpirationsMirrorEntries, Held, Stores, Entry
<1>12. \/ value \in Oversize /\ o = Outcome("TooLarge", g)
       \/ /\ value \notin Oversize
          /\ \/ addr \in Held(g) /\ o = Outcome("Ok", insert(g, addr, value, now))
             \/ /\ addr \notin Held(g)
                /\ \/ g.per_ip[addr[1]] >= MaxEntriesPerIp /\ o = Outcome("Full", g)
                   \/ /\ ~(g.per_ip[addr[1]] >= MaxEntriesPerIp)
                      /\ \/ /\ Cardinality(Held(g)) < MaxEntries
                            /\ o = Outcome("Ok", insert(g, addr, value, now))
                         \/ /\ ~(Cardinality(Held(g)) < MaxEntries)
                            /\ \/ g.expirations = {} /\ o = Outcome("Full", g)
                               \/ \E e \in first(g) :
                                    o = Outcome("Ok", insert(evict(g, e), addr, value, now))
  BY PutCases DEF g
<1> QED
  BY <1>5, <1>6, <1>7, <1>9, <1>10, <1>11, <1>12

\* The store with its indexes implements the bounded expiring map without them:
\* every answer of put_local and get_local, evictions included, is one the
\* abstract map gives.
THEOREM StoreImplementsMap == LocalSpec => ImplementsMap
<1>1. InitLocal => Map!MapInit
  BY EmptyGood DEF InitLocal, Map!MapInit, EmptyStore, Map!AllAddr, Addr
<1>2. LocalInv /\ [NextLocal]_localVars => [Map!MapNext]_<<local.entries, reply>>
  <2> SUFFICES ASSUME LocalInv, [NextLocal]_localVars
               PROVE  Map!MapNext \/ UNCHANGED <<local.entries, reply>>
    OBVIOUS
  <2>1. CASE UNCHANGED localVars
    BY <2>1 DEF localVars
  <2>2. ASSUME NEW addr \in Addr, NEW now \in Time, NEW value \in Value,
               put_local(addr, value, now)
        PROVE  Map!MapNext
    <3>1. Map!Put(addr, value, now) \/ Map!Refuse(addr, value, now)
      BY <2>2, PutImplements DEF LocalInv
    <3> QED
      BY <3>1 DEF Map!MapNext, Map!AllAddr, Addr, Time
  <2>3. ASSUME NEW addr \in Addr, NEW now \in Time, get_local(addr, now)
        PROVE  Map!MapNext
    <3>1. Map!Get(addr, now)
      BY <2>3, LiveIsCollected DEF LocalInv, get_local, Map!Get
    <3> QED
      BY <3>1 DEF Map!MapNext, Map!AllAddr, Addr, Time
  <2> QED
    BY <2>1, <2>2, <2>3 DEF NextLocal
<1> QED
  BY <1>1, <1>2, LocalGood, PTL DEF LocalSpec, ImplementsMap, Map!MapSpec
============================================================================
