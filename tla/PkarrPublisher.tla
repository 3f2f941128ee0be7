--------------------------- MODULE PkarrPublisher ---------------------------
(***************************************************************************)
(* PkarrPublisher (iroh-mainline-endpoint-discovery/src/pkarr.rs): names    *)
(* set by callers on any thread, and rounds that sign every packet with a  *)
(* growing sequence number and put it on Mainline. The background task and *)
(* callers of publish_all run rounds; a lock keeps them apart.             *)
(*                                                                         *)
(* A packet is the number of the edit that set it: 0 is no packet. The     *)
(* mutexes are held for one statement each, so that edits, rounds and      *)
(* waiters interleave between any two of them.                             *)
(***************************************************************************)
EXTENDS Integers, FiniteSets

CONSTANTS Key,      \* public keys
          Editor,   \* threads that call set_raw or remove
          Runner,   \* the background task and the callers of publish_all
          Task,     \* the background task
          Clock,    \* readings of the system clock, in any order
          MaxEdits, \* bound: edits
          MaxSeq,   \* bound: sequence numbers
          None

ASSUME TaskAssumption == Task \in Runner
ASSUME ClockAssumption == Clock \subseteq Nat
ASSUME BoundsAssumption == MaxEdits \in Nat /\ MaxSeq \in Nat
ASSUME NoneAssumption == /\ None \notin Key /\ None \notin Runner
                         /\ None \notin Key \X Nat
                         /\ None \notin [packet : Nat, seq : Nat]
                         /\ None \notin [generation : Nat, returned : [Key -> Nat]]
ASSUME EditorAssumption == IsFiniteSet(Editor)

VARIABLES
  packets,    \* State::packets
  editing,    \* the key of the edit that each editor has made but not yet counted
  generation, \* State::generation
  changed,    \* the permit of State::changed
  published,  \* State::published
  publishing, \* the holder of State::publishing
  previous,   \* its value
  round,      \* the locals of each runner
  dht,        \* what Mainline holds for each key
  late,       \* puts whose caller was cancelled, which may still reach Mainline
  waiter,     \* a call of wait_published
  edits,      \* edits so far (history)
  returned,   \* the last edit of each key whose call returned (history)
  landed,     \* the last packet of each key put with success (history)
  removed     \* the last removal of each key (history)

history == <<edits, returned, landed, removed>>
editVars == <<packets, editing, edits, removed>>
vars == <<packets, editing, generation, changed, published, publishing, previous, round, dht,
          late, waiter, history>>

Items == [key : Key, packet : 1 .. MaxEdits, seq : 0 .. MaxSeq]

Idle == [pc |-> "idle", generation |-> 0, items |-> {}, ok |-> TRUE]

----------------------------------------------------------------------------
(* Edits.                                                                  *)

editRest == <<generation, changed, published, publishing, previous, round, dht, late, waiter,
              returned, landed>>

\* set_raw up to `edited`; a packet that cannot be encoded changes nothing.
set_raw(e, k) ==
  /\ editing[e] = None
  /\ edits < MaxEdits
  /\ edits' = edits + 1
  /\ packets' = [packets EXCEPT ![k] = edits']
  /\ editing' = [editing EXCEPT ![e] = <<k, edits'>>]
  /\ UNCHANGED <<editRest, removed>>

\* remove up to `edited`, of a key that has a packet.
remove(e, k) ==
  /\ editing[e] = None
  /\ edits < MaxEdits
  /\ packets[k] # 0
  /\ edits' = edits + 1
  /\ packets' = [packets EXCEPT ![k] = 0]
  /\ removed' = [removed EXCEPT ![k] = edits']
  /\ editing' = [editing EXCEPT ![e] = <<k, edits'>>]
  /\ UNCHANGED editRest

edited(e) ==
  /\ editing[e] # None
  /\ generation' = generation + 1
  /\ changed' = TRUE
  /\ editing' = [editing EXCEPT ![e] = None]
  /\ LET k == editing[e][1]
         n == editing[e][2]
     IN  returned' = [returned EXCEPT ![k] = IF n > @ THEN n ELSE @]
  /\ UNCHANGED <<packets, published, publishing, previous, round, dht, late, waiter, edits,
                 landed, removed>>

----------------------------------------------------------------------------
(* Rounds.                                                                 *)

roundRest == <<editVars, generation, waiter, returned>>

\* Mutant: the generation is read when the round ends.
FinishRoundReadsLast(r) ==
  /\ round[r].pc = "put" /\ round[r].items = {}
  /\ published' = IF round[r].ok THEN generation ELSE published
  /\ publishing' = None
  /\ round' = [round EXCEPT ![r] = Idle]
  /\ UNCHANGED <<roundRest, changed, previous, dht, late, landed>>

\* A call of publish_all, or the background task woken by an edit or by its timer.
CallRound(r) ==
  /\ round[r].pc = "idle"
  /\ round' = [round EXCEPT ![r].pc = "lock"]
  /\ \/ UNCHANGED changed
     \/ r = Task /\ changed /\ changed' = FALSE
  /\ UNCHANGED <<roundRest, published, publishing, previous, dht, late, landed>>

\* Mutant: a round that does not wait for the lock.
StartRoundUnlocked(r) ==
  /\ round[r].pc = "lock"
  /\ publishing' = r
  /\ round' = [round EXCEPT ![r] = [round[r] EXCEPT !.pc = "sign", !.generation = generation]]
  /\ UNCHANGED <<roundRest, changed, published, previous, dht, late, landed>>

\* publish_round has the lock and reads the generation.
StartRound(r) ==
  /\ round[r].pc = "lock"
  /\ publishing = None
  /\ publishing' = r
  /\ round' = [round EXCEPT ![r] = [round[r] EXCEPT !.pc = "sign", !.generation = generation]]
  /\ UNCHANGED <<roundRest, changed, published, previous, dht, late, landed>>

\* Mutant: the sequence number is the clock, however it goes.
SequenceByClock(now) == now

Sequence(now) == IF now > previous THEN now ELSE previous + 1

\* sign_all: one sequence number for all packets of the round.
sign_all(r, now) ==
  /\ round[r].pc = "sign"
  /\ Sequence(now) <= MaxSeq
  /\ previous' = Sequence(now)
  /\ LET items == {[key |-> k, packet |-> packets[k], seq |-> previous'] :
                     k \in {j \in Key : packets[j] # 0}}
     IN  round' = [round EXCEPT ![r] = [round[r] EXCEPT !.pc = "put", !.items = items]]
  /\ UNCHANGED <<roundRest, changed, published, publishing, dht, late, landed>>

\* The clock is before the epoch: the round ends with that error.
ClockFailed(r) ==
  /\ round[r].pc = "sign"
  /\ publishing' = None
  /\ round' = [round EXCEPT ![r] = Idle]
  /\ UNCHANGED <<roundRest, changed, published, previous, dht, late, landed>>

\* Mainline takes an item that is newer than what it holds.
Newer(item) == dht[item.key] # None => item.seq > dht[item.key].seq

Land(item) == dht' = [dht EXCEPT ![item.key] = [packet |-> item.packet, seq |-> item.seq]]

PutOk(r, item) ==
  /\ round[r].pc = "put" /\ item \in round[r].items
  /\ Newer(item)
  /\ Land(item)
  /\ landed' = [landed EXCEPT ![item.key] = item.packet]
  /\ round' = [round EXCEPT ![r].items = @ \ {item}]
  /\ UNCHANGED <<roundRest, changed, published, publishing, previous, late>>

\* A put fails: Mainline holds something newer, or the query did; in that case some
\* nodes may have taken the item.
PutErr(r, item) ==
  /\ round[r].pc = "put" /\ item \in round[r].items
  /\ (Newer(item) /\ Land(item)) \/ UNCHANGED dht
  /\ round' = [round EXCEPT ![r] = [round[r] EXCEPT !.items = @ \ {item}, !.ok = FALSE]]
  /\ UNCHANGED <<roundRest, changed, published, publishing, previous, late, landed>>

FinishRound(r) ==
  /\ round[r].pc = "put" /\ round[r].items = {}
  /\ published' = IF round[r].ok THEN round[r].generation ELSE published
  /\ publishing' = None
  /\ round' = [round EXCEPT ![r] = Idle]
  /\ UNCHANGED <<roundRest, changed, previous, dht, late, landed>>

\* The caller of publish_all drops the future while a put is under way.
Cancel(r) ==
  /\ r # Task
  /\ round[r].pc = "put"
  /\ \E item \in round[r].items : late' = late \cup {item}
  /\ publishing' = None
  /\ round' = [round EXCEPT ![r] = Idle]
  /\ UNCHANGED <<roundRest, changed, published, previous, dht, landed>>

\* Mainline gets a put whose caller has gone.
Late(item) ==
  /\ item \in late
  /\ late' = late \ {item}
  /\ (Newer(item) /\ Land(item)) \/ UNCHANGED dht
  /\ UNCHANGED <<roundRest, changed, published, publishing, previous, round, landed>>

----------------------------------------------------------------------------
(* Waiters.                                                                *)

waitRest == <<editVars, generation, changed, published, publishing, previous, round, dht, late,
              returned, landed>>

wait_published ==
  /\ waiter = None
  /\ waiter' = [generation |-> generation, returned |-> returned]
  /\ UNCHANGED waitRest

WaitReturns ==
  /\ waiter # None
  /\ published >= waiter.generation
  /\ waiter' = None
  /\ UNCHANGED waitRest

----------------------------------------------------------------------------
Init ==
  /\ packets = [k \in Key |-> 0]
  /\ editing = [e \in Editor |-> None]
  /\ generation = 0
  /\ changed = FALSE
  /\ published = 0
  /\ publishing = None
  /\ previous = 0
  /\ round = [r \in Runner |-> IF r = Task THEN [Idle EXCEPT !.pc = "lock"] ELSE Idle]
  /\ dht = [k \in Key |-> None]
  /\ late = {}
  /\ waiter = None
  /\ edits = 0
  /\ returned = [k \in Key |-> 0]
  /\ landed = [k \in Key |-> 0]
  /\ removed = [k \in Key |-> 0]

Next ==
  \/ \E e \in Editor : edited(e) \/ \E k \in Key : set_raw(e, k) \/ remove(e, k)
  \/ \E r \in Runner : \/ CallRound(r) \/ StartRound(r) \/ ClockFailed(r) \/ FinishRound(r)
                       \/ Cancel(r)
                       \/ \E now \in Clock : sign_all(r, now)
                       \/ \E item \in round[r].items : PutOk(r, item) \/ PutErr(r, item)
  \/ \E item \in late : Late(item)
  \/ wait_published \/ WaitReturns

Spec == Init /\ [][Next]_vars

----------------------------------------------------------------------------
\* The variables have their Rust types, and at most the lock's holder is in a round.
TypeOK ==
  /\ packets \in [Key -> 0 .. MaxEdits]
  /\ editing \in [Editor -> (Key \X (1 .. MaxEdits)) \cup {None}]
  /\ edits \in 0 .. MaxEdits /\ generation \in 0 .. edits
  /\ published \in 0 .. generation
  /\ changed \in BOOLEAN
  /\ publishing \in Runner \cup {None}
  /\ previous \in 0 .. MaxSeq
  /\ round \in [Runner -> [pc : {"idle", "lock", "sign", "put"}, generation : 0 .. generation,
                           items : SUBSET Items, ok : BOOLEAN]]
  /\ \A r \in Runner : round[r].pc \in {"sign", "put"} => publishing = r
  /\ dht \in [Key -> [packet : 1 .. MaxEdits, seq : 0 .. MaxSeq] \cup {None}]
  /\ late \subseteq Items
  /\ waiter \in {None} \cup [generation : 0 .. generation, returned : [Key -> 0 .. edits]]
  /\ {returned, landed, removed} \subseteq [Key -> 0 .. edits]

\* When wait_published returns, every name whose last edit had returned before the
\* call was put with success, in that version or a later one, unless it was removed
\* since: "Waits until everything set so far has been published at least once"
\* (pkarr.rs:224), though edits, other rounds and failures run alongside.
WaitMeansPublished ==
  [][waiter # None /\ waiter' = None =>
       \A k \in Key : \/ waiter.returned[k] = 0
                      \/ landed[k] >= waiter.returned[k]
                      \/ removed[k] >= waiter.returned[k]]_vars

\* Mainline never replaces a packet by one that was set earlier, though the clock
\* goes back, rounds overlap with edits and cancelled puts arrive late.
NeverGoesBack ==
  [][\A k \in Key : dht[k] # None => dht'[k].packet >= dht[k].packet]_vars

\* A put is refused as stale only if it comes from a cancelled round: the sequence
\* numbers of the rounds grow, so that no round is refused for an earlier one.
RoundsAreNewest ==
  \A r \in Runner : \A item \in round[r].items : Newer(item)
============================================================================
