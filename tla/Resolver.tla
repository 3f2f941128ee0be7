------------------------------ MODULE Resolver ------------------------------
(***************************************************************************)
(* Resolver (iroh-mainline-endpoint-discovery/src/resolver.rs): the peers  *)
(* that Mainline names for an infohash, each looked up in the address      *)
(* index. resolve_stream and resolve_continuously run only while their     *)
(* consumer polls them and cancel their lookups when it drops them;        *)
(* resolve spawns its lookups as tasks and returns when all have ended.    *)
(***************************************************************************)
EXTENDS LookupCache, Sequences, Functions

CONSTANTS Stream,            \* calls of the resolver
          Mode,              \* which function each one calls
          Slot,              \* numbers of the lookups of one call
          MAX_INDEX_LOOKUPS, \* lookups of one stream at once
          MAX_QUEUED_PEERS,  \* queued peers above which Mainline is not polled
          Batches,           \* batches of peers that Mainline may send to each
          MaxBatches         \* bound: batches of one Mainline lookup

ASSUME ModeAssumption == Mode \in [Stream -> {"stream", "continuous", "once"}]
ASSUME LookupAssumption == Lookup = Stream \X Slot
ASSUME BatchesAssumption == \A s \in Stream : \A batch \in Batches[s] : batch \in Seq(Addr)
ASSUME BatchBoundAssumption == MaxBatches \in Nat

VARIABLES
  call,      \* the locals of each call
  gone,      \* the Mainline node is gone
  announced, \* the peers Mainline named in the call's lookup (history)
  resolved,  \* those whose index lookup has ended (history)
  found      \* the endpoints of their records (history)

streamVars == <<call, gone, announced, resolved, found>>
vars == <<cacheVars, streamVars>>

\* The peers that a stream has queued, and the set of them that resolve collects.
CallStates ==
  [pc : {"start", "loop", "ended", "error", "dropped"}, peers : Seq(Addr), known : SUBSET Addr,
   done : BOOLEAN, yielded : SUBSET Endpoint, failed : BOOLEAN, ok : BOOLEAN,
   batches : 0 .. MaxBatches]

Fresh == [pc |-> "start", peers |-> <<>>, known |-> {}, done |-> FALSE, yielded |-> {}, failed |-> FALSE,
          ok |-> FALSE, batches |-> 0]

Init ==
  /\ InitLookups
  /\ call = [s \in Stream |-> Fresh]
  /\ gone = FALSE
  /\ announced = [s \in Stream |-> {}]
  /\ resolved = [s \in Stream |-> {}]
  /\ found = [s \in Stream |-> {}]

Active(s) == {i \in Slot : lookup[<<s, i>>].pc # "unused"}

Goto(s, pc) == call' = [call EXCEPT ![s] = [call[s] EXCEPT !.pc = pc]]

\* dht.get_peers; without a Mainline node the call is over, resolve with its error.
GetPeers(s) ==
  /\ call[s].pc = "start"
  /\ Goto(s, IF ~gone THEN "loop" ELSE IF Mode[s] = "once" THEN "error" ELSE "ended")
  /\ UNCHANGED <<cacheVars, gone, announced, resolved, found>>

\* peers.next() gives a batch. A stream queues it; resolve collects all of them.
PeersBatch(s, batch) ==
  /\ call[s].pc = "loop" /\ ~call[s].done
  /\ Mode[s] # "once" => Len(call[s].peers) < MAX_QUEUED_PEERS
  /\ call[s].batches < MaxBatches /\ ~gone
  /\ call' = [call EXCEPT ![s] =
       IF Mode[s] = "once"
       THEN [call[s] EXCEPT !.known = call[s].known \cup Range(batch), !.batches = call[s].batches + 1]
       ELSE [call[s] EXCEPT !.peers = call[s].peers \o batch, !.batches = call[s].batches + 1]]
  /\ announced' = [announced EXCEPT ![s] = announced[s] \cup Range(batch)]
  /\ UNCHANGED <<cacheVars, gone, resolved, found>>

\* peers.next() gives None.
PeersDone(s) ==
  /\ call[s].pc = "loop" /\ ~call[s].done
  /\ Mode[s] # "once" => Len(call[s].peers) < MAX_QUEUED_PEERS
  /\ call' = [call EXCEPT ![s] = [call[s] EXCEPT !.done = TRUE]]
  /\ UNCHANGED <<cacheVars, gone, announced, resolved, found>>

\* A lookup of the next peer starts while a slot is free, or one of each peer at the end.
StartLookup(s, i) ==
  /\ call[s].pc = "loop"
  /\ i \notin Active(s) /\ \A j \in Slot : j < i => j \in Active(s)
  /\ \E a \in Addr :
       /\ IF Mode[s] = "once"
          THEN /\ call[s].done /\ a \in call[s].known
               /\ call' = [call EXCEPT ![s] = [call[s] EXCEPT !.known = call[s].known \ {a}]]
          ELSE /\ call[s].peers # <<>> /\ a = Head(call[s].peers)
               /\ Cardinality(Active(s)) < MAX_INDEX_LOOKUPS
               /\ call' = [call EXCEPT ![s] = [call[s] EXCEPT !.peers = Tail(call[s].peers)]]
       /\ lookup' = [lookup EXCEPT ![<<s, i>>] = NewLookup(a)]
  /\ UNCHANGED <<entries, pending, held, age, gone, announced, resolved, found>>

\* lookups.next() or set.join_next() gives a result: its endpoints are yielded or collected.
TakeResult(s, i) ==
  /\ lookup[<<s, i>>].pc = "done"
  /\ LET a == lookup[<<s, i>>].addr
         records == lookup[<<s, i>>].records
         some == IF records = None THEN {} ELSE records
     IN  /\ call' = [call EXCEPT ![s] =
              [call[s] EXCEPT !.yielded = call[s].yielded \cup some,
                              !.failed = call[s].failed \/ (Mode[s] = "once" /\ records = None),
                              !.ok = call[s].ok \/ (Mode[s] = "once" /\ records # None)]]
         /\ resolved' = [resolved EXCEPT ![s] = resolved[s] \cup {a}]
         /\ found' = [found EXCEPT ![s] = found[s] \cup some]
  /\ lookup' = [lookup EXCEPT ![<<s, i>>] = Unused]
  /\ UNCHANGED <<entries, pending, held, age, gone, announced>>

\* Mutant: the stream ends although peers wait for a slot.
OverEarly(s) == call[s].pc = "loop" /\ call[s].done /\ Active(s) = {}

\* The loop is left: no peers will come, none wait, and no lookup runs.
Over(s) ==
  /\ call[s].pc = "loop" /\ call[s].done
  /\ call[s].peers = <<>> /\ call[s].known = {} /\ Active(s) = {}

\* The stream or resolve returns, the latter with an error if no lookup worked.
Ends(s) ==
  /\ Over(s) /\ Mode[s] # "continuous"
  /\ Goto(s, IF Mode[s] = "once" /\ call[s].failed /\ ~call[s].ok THEN "error" ELSE "ended")
  /\ UNCHANGED <<cacheVars, gone, announced, resolved, found>>

\* resolve_continuously starts the next lookup, unless the Mainline node is gone.
Again(s) ==
  /\ Over(s) /\ Mode[s] = "continuous"
  /\ call' = [call EXCEPT ![s] = IF gone THEN [call[s] EXCEPT !.pc = "ended"] ELSE Fresh]
  /\ announced' = [announced EXCEPT ![s] = IF gone THEN announced[s] ELSE {}]
  /\ resolved' = [resolved EXCEPT ![s] = IF gone THEN resolved[s] ELSE {}]
  /\ found' = [found EXCEPT ![s] = IF gone THEN found[s] ELSE {}]
  /\ UNCHANGED <<cacheVars, gone>>

----------------------------------------------------------------------------
(* The consumer, the lookups and the environment.                          *)

\* Mutant: a dropped stream leaves its lookups in the locks' queues.
DropStreamLeaks(s) ==
  /\ call[s].pc = "loop"
  /\ Goto(s, "dropped")
  /\ lookup' = [l \in Lookup |-> IF l[1] = s THEN Unused ELSE lookup[l]]
  /\ UNCHANGED <<entries, pending, held, age, gone, announced, resolved, found>>

\* The consumer drops the stream, which cancels its lookups and releases their locks.
DropStream(s) ==
  /\ call[s].pc = "loop"
  /\ Goto(s, "dropped")
  /\ lookup' = [l \in Lookup |-> IF l[1] = s THEN Unused ELSE lookup[l]]
  /\ pending' = Leave({l \in Lookup : l[1] = s})
  /\ UNCHANGED <<entries, held, age, gone, announced, resolved, found>>

LookupRuns(l) == LookupStep(l) /\ UNCHANGED streamVars
Client(l) == RequestEnds(l) /\ UNCHANGED streamVars
Servers(a, values) == ServersChange(a, values) /\ UNCHANGED streamVars

\* The Mainline node shuts down; its peer streams end.
MainlineGone ==
  /\ ~gone
  /\ gone' = TRUE
  /\ UNCHANGED <<cacheVars, call, announced, resolved, found>>

Elapse == Tick /\ UNCHANGED streamVars

StreamStep(s) ==
  \/ GetPeers(s) \/ PeersDone(s) \/ Ends(s) \/ Again(s)
  \/ \E i \in Slot : StartLookup(s, i) \/ TakeResult(s, i)

Next ==
  \/ \E s \in Stream : StreamStep(s) \/ DropStream(s)
  \/ \E s \in Stream : \E batch \in Batches[s] : PeersBatch(s, batch)
  \/ \E l \in Lookup : LookupRuns(l) \/ Client(l)
  \/ \E a \in Addr : \E values \in Values[a] : Servers(a, values)
  \/ MainlineGone
  \/ Elapse

\* Requests have a deadline and Mainline lookups end. Tasks run, and with them what a
\* stream does between two of its awaits, as a consumer that keeps its stream comes back
\* to poll it.
Fairness ==
  /\ \A s \in Stream : WF_vars(StreamStep(s)) /\ WF_vars(PeersDone(s))
  /\ \A l \in Lookup : WF_vars(LookupRuns(l)) /\ WF_vars(Client(l))

Spec == Init /\ [][Next]_vars /\ Fairness

----------------------------------------------------------------------------
(* Properties.                                                             *)

\* The locals have their types, and a lock's queue holds lookups that wait for it.
TypeOK ==
  /\ \A a \in Addr : entries[a] = None \/ entries[a] \in EntryStates
  /\ lookup \in [Lookup -> LookupStates]
  /\ pending \in [Lookup -> SUBSET {m \in Lookup : Uses(m)}]
  /\ held \in [Addr -> Records]
  /\ call \in [Stream -> CallStates]

\* A stream that ends has looked up every peer that Mainline named and yielded every
\* endpoint the index gave it, whatever the slots, the queue's limit and the failures
\* (resolve_stream, "a failed or slow peer does not delay other results"); what resolve
\* returns is as complete.
EndsComplete ==
  [][\A s \in Stream : call[s].pc = "loop" /\ call'[s].pc \in {"ended", "start"} =>
       resolved[s] = announced[s] /\ call[s].yielded = found[s]]_vars

\* Only endpoints whose record was signed for a peer that Mainline named are yielded, never
\* one whose record was copied to another address (SignedRecord::decode).
YieldsAreBound ==
  \A s \in Stream : \A e \in call[s].yielded : Home[e] \in announced[s]

\* Every stream that is started ends or is dropped, also when lookups in front of its own
\* fail, are paused by their consumer or cancelled; an endless one keeps getting to the end.
StreamsEnd ==
  \A s \in Stream : call[s].pc = "loop" ~> call[s].pc # "loop"
============================================================================
