--------------------------- MODULE ProviderMemory ---------------------------
(***************************************************************************)
(* What the gateway remembers of one hash: the providers that links named  *)
(* (iroh-link-gateway/src/hints.rs), those that passed a probe, and a      *)
(* lookup that found none (provider_cache.rs). Each structure has its own  *)
(* mutex, and is changed by operators that give its next value. Times are  *)
(* counted down in ticks; an entry is dropped when it is read at 0. Other   *)
(* hashes only matter in that they push this one out.                       *)
(*                                                                         *)
(* A list of providers is the entry of each one in it: the time it has     *)
(* left, and the providers that come before it.                            *)
(***************************************************************************)
EXTENDS Integers, Sequences, FiniteSets, Functions

CONSTANTS Provider,      \* endpoints
          HINT_TTL, MAX_PER_URL, MAX_PER_HASH,
          PROVIDER_TTL, MISS_TTL, MAX_PROVIDERS,
          None

ASSUME MemoryAssumption ==
  /\ {HINT_TTL, PROVIDER_TTL, MISS_TTL} \subseteq Nat \ {0}
  /\ {MAX_PER_URL, MAX_PER_HASH, MAX_PROVIDERS} \subseteq Nat \ {0}

\* An entry of a list whose entries last for ttl.
Entries(ttl) == [left : 0 .. ttl, ahead : SUBSET Provider]

ASSUME NoneAssumption == /\ None \notin Nat
                         /\ None \notin Entries(HINT_TTL) \cup Entries(PROVIDER_TTL)

VARIABLES
  hints,   \* Hints: of the hash, most recently named ahead
  known,   \* Entry::providers, most recently verified ahead
  missing, \* Entry::missing, whatever the reason
  cached,  \* Inner::cache and Inner::collections: the provider of the source that is kept,
           \* None as well if its connection is closed
  named,   \* ticks since a URL named a provider or, once one had, it won a lookup; Never
           \* if no URL did (history)
  failed   \* ticks since a lookup failed, if no probe has passed since (history)

memory == <<hints, known, missing, cached, named, failed>>

Nothing == [p \in Provider |-> None]
Ids(list) == {p \in Provider : list[p] # None}

\* Vec::retain of the providers that are not in P.
Without(list, P) ==
  [p \in Provider |-> IF p \in P \/ list[p] = None THEN None
                      ELSE [left |-> list[p].left, ahead |-> list[p].ahead \ P]]

Live(list) == Without(list, {p \in Ids(list) : list[p].left = 0})

\* Vec::truncate.
Truncate(list, n) ==
  [p \in Provider |-> IF list[p] # None /\ Cardinality(list[p].ahead) < n THEN list[p] ELSE None]

\* The providers of a sequence, each at its first place, before the others of the list.
Before(seq, p) == {seq[j] : j \in {j \in DOMAIN seq : \A i \in 1 .. j : seq[i] # p}}
Spliced(seq, list, ttl) ==
  [p \in Provider |-> IF p \in Range(seq) THEN [left |-> ttl, ahead |-> Before(seq, p)]
                      ELSE IF list[p] = None THEN None
                      ELSE [left |-> list[p].left, ahead |-> list[p].ahead \cup Range(seq)]]

Never == HINT_TTL + 1

InitMemory ==
  /\ hints = Nothing /\ known = Nothing /\ missing = None
  /\ cached = [kind \in {"blob", "collection"} |-> None]
  /\ named = [p \in Provider |-> Never]
  /\ failed = MISS_TTL

\* Hints::add of the providers of a URL, in its order.
add(providers) == Truncate(Spliced(providers, hints, HINT_TTL), MAX_PER_HASH)

\* Mutant: a hint that is not there is added.
renewAdds(p) == add(<<p>>)

\* Hints::confirm renews a hint, in its place.
renew(p) == [q \in Provider |-> IF q = p /\ hints[q] # None
                                THEN [left |-> HINT_TTL, ahead |-> hints[q].ahead] ELSE hints[q]]

\* Mutant: a provider that passed a probe leaves a remembered miss.
confirmKeepsMiss(p) ==
  /\ known' = Truncate(Spliced(<<p>>, known, PROVIDER_TTL), MAX_PROVIDERS)
  /\ missing' = missing

\* ProviderCache::confirm, of a probe that passed.
confirm(p) ==
  /\ known' = Truncate(Spliced(<<p>>, known, PROVIDER_TTL), MAX_PROVIDERS)
  /\ missing' = None

\* ProviderCache::record_missing.
record_missing ==
  /\ missing' = MISS_TTL
  /\ failed' = 0

\* Another hash takes the slot of this one.
Evict ==
  /\ \/ hints # Nothing /\ hints' = Nothing /\ UNCHANGED <<known, missing, cached>>
     \/ (known # Nothing \/ missing # None) /\ known' = Nothing /\ missing' = None
        /\ UNCHANGED <<hints, cached>>
     \/ \E kind \in DOMAIN cached : cached[kind] # None
          /\ cached' = [cached EXCEPT ![kind] = None] /\ UNCHANGED <<hints, known, missing>>
  /\ UNCHANGED <<named, failed>>

\* A tick.
Pass(n, top) == IF n < top THEN n + 1 ELSE n
Down(list) ==
  [p \in Provider |-> IF list[p] = None THEN None
                      ELSE [left |-> IF list[p].left > 0 THEN list[p].left - 1 ELSE 0,
                            ahead |-> list[p].ahead]]
ElapseMemory ==
  /\ hints' = Down(hints) /\ known' = Down(known)
  /\ missing' = IF missing = None \/ missing = 0 THEN missing ELSE missing - 1
  /\ named' = [p \in Provider |-> Pass(named[p], HINT_TTL)]
  /\ failed' = Pass(failed, MISS_TTL)
  /\ UNCHANGED cached
============================================================================
