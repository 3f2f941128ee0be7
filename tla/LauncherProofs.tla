--------------------------- MODULE LauncherProofs ---------------------------
(***************************************************************************)
(* Proofs about the gateway's process, its launcher and its discovery: the *)
(* stop file, the stored list and the servers in use, for any processes,   *)
(* lists, servers, answers and kills, and the file ready, for one kill.    *)
(***************************************************************************)
EXTENDS GatewayLauncher, TLAPS

----------------------------------------------------------------------------
(* The inductive invariant.                                                *)

\* Where a process is that has removed what was left of earlier ones, and that has the lock.
Cleaned == {"unstopped", "clean", "bound", "ready", "discover", "store", "write", "rename",
            "serving", "drop", "unready", "unlocking"}
Inside == Cleaned \cup {"locked"}

Commands ==
  [pc : {"running?", "release", "start", "spawn", "wait", "ready?", "stop", "stopping"},
   kind : {"start", "stop", "status"}, child : Gateway \cup {Absent},
   seen : Gateway \cup {Launcher, Absent}]

Types ==
  /\ gateway \in [Gateway -> Inside \cup {"exited", "started"}]
  /\ lock \in Gateway \cup {Launcher, Absent}
  /\ stop \in BOOLEAN /\ asked \in BOOLEAN
  /\ command \in Commands \cup {NoCommand}
  /\ command.pc \in {"wait", "ready?"} => command.child \in Gateway

\* The lock is where a process or the launcher is between taking and releasing it.
Locked ==
  /\ lock = Launcher <=> In("release")
  /\ \A g \in Gateway : lock = g <=> gateway[g] \in Inside

\* A stop file beside a process that has removed old ones is from a command since.
StopKnown == \A g \in Gateway : gateway[g] \in Cleaned /\ stop => asked

\* What is on its way to the stored list is whole.
Whole(item) == item \in Item /\ Decodes(item)
MaybeWhole(item) == item = Absent \/ Whole(item)

ListWhole ==
  /\ MaybeWhole(list)
  /\ \A g \in Gateway : gateway[g] = "write" => Whole(signed)
  /\ \A g \in Gateway : gateway[g] = "rename" => Whole(tmp)

\* The servers that follow from a list.
Follows(item, peers) ==
  IF item # Absent /\ Addresses[item] # {} THEN peers = Addresses[item] ELSE peers \subseteq Announced

\* The list in use is the newest heard of, and so is the one that a refresh has found so far.
IndexGood ==
  /\ MaybeWhole(fallback) /\ MaybeWhole(signed) /\ MaybeWhole(heard)
  /\ IF Refreshing("collect") THEN refresh.found = heard ELSE signed = heard
  /\ Refreshing("rendezvous") => /\ refresh.peers \subseteq Announced
                                 /\ heard # Absent => Addresses[heard] = {}
  /\ Refreshing("replace") \/ Refreshing("watch") => Follows(heard, refresh.peers)

IInv == Types /\ Locked /\ StopKnown /\ ListWhole /\ IndexGood
----------------------------------------------------------------------------
(* The index.                                                              *)

LEMMA AcceptsWhole ==
  ASSUME NEW old, MaybeWhole(old), NEW i \in Item
  PROVE  /\ MaybeWhole(accept(old, i))
         /\ accept(old, i) = IF Decodes(i) /\ Newer(i, old) THEN i ELSE old
BY DEF accept, MaybeWhole, Whole

LEMMA NewIndexGood ==
  ASSUME NEW x, MaybeWhole(x), NewIndex(x) PROVE IndexGood'
BY DEF NewIndex, IndexGood, MaybeWhole, Refreshing, Collecting

LEMMA NoIndexGood ==
  ASSUME NoIndex PROVE IndexGood'
BY DEF NoIndex, IndexGood, MaybeWhole, Refreshing, NoRefresh

LEMMA IndexStays ==
  ASSUME IndexGood, UNCHANGED index PROVE IndexGood'
BY DEF IndexGood, index, MaybeWhole, Refreshing, Follows

LEMMA RefreshAgainGood ==
  ASSUME IndexGood, RefreshAgain PROVE IndexGood'
BY DEF IndexGood, RefreshAgain, MaybeWhole, Refreshing, Collecting

LEMMA RefreshGood ==
  ASSUME IndexGood, Refresh PROVE IndexGood'
<1>1. CASE Collected
  <2>1. refresh.found = heard /\ MaybeWhole(heard) /\ MaybeWhole(fallback)
    BY <1>1 DEF IndexGood, Collected
  <2>2. signed' = heard' /\ MaybeWhole(signed') /\ MaybeWhole(heard') /\ MaybeWhole(fallback')
    <3>1. CASE heard = Absent /\ fallback # Absent
      <4>1. Whole(fallback)
        BY <2>1, <3>1 DEF MaybeWhole
      <4>2. accept(Absent, fallback) = fallback
        BY <4>1 DEF accept, Newer, Whole
      <4> QED
        BY <1>1, <2>1, <3>1, <4>1, <4>2 DEF Collected, MaybeWhole
    <3>2. CASE ~(heard = Absent /\ fallback # Absent)
      BY <1>1, <2>1, <3>2 DEF Collected, MaybeWhole
    <3> QED
      BY <3>1, <3>2
  <2> DEFINE peers == IF signed' = Absent THEN {} ELSE Addresses[signed']
  <2>3. CASE peers = {} /\ rendezvous
    <3>1. refresh' = [pc |-> "rendezvous", peers |-> {}, withdrawn |-> signed' # Absent /\ peers = {}]
      BY <1>1, <2>3 DEF Collected
    <3> QED
      BY <2>2, <2>3, <3>1 DEF IndexGood, Refreshing
  <2>4. CASE ~(peers = {} /\ rendezvous) /\ (peers # {} \/ (signed' # Absent /\ peers = {}))
    <3>1. refresh' = [pc |-> "replace", peers |-> peers]
      BY <1>1, <2>4 DEF Collected
    <3>2. Follows(heard', peers)
      BY <2>2, <2>4 DEF Follows
    <3> QED
      BY <2>2, <3>1, <3>2 DEF IndexGood, Refreshing, Follows
  <2>5. CASE ~(peers = {} /\ rendezvous) /\ ~(peers # {} \/ (signed' # Absent /\ peers = {}))
    <3>1. refresh' = [pc |-> "failed"]
      BY <1>1, <2>5 DEF Collected
    <3> QED
      BY <2>2, <3>1 DEF IndexGood, Refreshing
  <2> QED
    BY <2>3, <2>4, <2>5
<1>2. CASE RendezvousEnds
  <2>1. refresh.peers \subseteq Announced /\ (heard # Absent => Addresses[heard] = {})
    BY <1>2 DEF RendezvousEnds, IndexGood
  <2>2. Follows(heard, refresh.peers)
    BY <2>1 DEF Follows
  <2>3. refresh' \in {[pc |-> "replace", peers |-> refresh.peers], [pc |-> "failed"]}
    BY <1>2 DEF RendezvousEnds
  <2> QED
    BY <1>2, <2>2, <2>3 DEF RendezvousEnds, IndexGood, Refreshing, MaybeWhole, Follows
<1>3. CASE Replace
  BY <1>3 DEF Replace, IndexGood, Refreshing, MaybeWhole, Follows
<1>4. CASE Watch
  BY <1>4 DEF Watch, IndexGood, Refreshing, MaybeWhole
<1>5. ASSUME NEW i \in Item, Answer(i) PROVE IndexGood'
  <2>1. refresh.found = heard /\ MaybeWhole(heard)
    BY <1>5 DEF Answer, IndexGood
  <2>2. accept(heard, i) = heard' /\ MaybeWhole(heard')
    BY <1>5, <2>1, AcceptsWhole DEF Answer
  <2>3. refresh' = [pc |-> "collect", found |-> heard', answers |-> refresh.answers + 1]
    BY <1>5, <2>1, <2>2 DEF Answer
  <2> QED
    BY <1>5, <2>2, <2>3 DEF Answer, IndexGood, Refreshing, MaybeWhole
<1>6. ASSUME NEW s \in Server, Peer(s) PROVE IndexGood'
  <2>1. /\ refresh.peers \cup {s} \subseteq Announced
        /\ heard # Absent => Addresses[heard] = {}
    BY <1>6 DEF Peer, IndexGood
  <2>2. Follows(heard, refresh.peers \cup {s})
    BY <2>1 DEF Follows
  <2>3. refresh' \in {[pc |-> "replace", peers |-> refresh.peers \cup {s}],
                      [pc |-> "rendezvous", peers |-> refresh.peers \cup {s},
                       withdrawn |-> refresh.withdrawn]}
    BY <1>6 DEF Peer
  <2> QED
    BY <1>6, <2>1, <2>2, <2>3 DEF Peer, IndexGood, Refreshing, MaybeWhole, Follows
<1> QED
  BY <1>1, <1>2, <1>3, <1>4, <1>5, <1>6 DEF Refresh
----------------------------------------------------------------------------
(* The processes.                                                          *)

\* What a step of process g does to the invariant's other parts.
Outer == Types /\ Locked /\ StopKnown /\ ListWhole

\* The index of a process that writes the list is not touched by others.
LEMMA OneInside ==
  ASSUME Types, Locked, NEW g \in Gateway, gateway[g] \in Inside,
         NEW h \in Gateway \ {g}
  PROVE  gateway[h] \in {"exited", "started"}
BY ProcessAssumption DEF Types, Locked

\* A process that has the lock goes on with it.
LEMMA GoesOn ==
  ASSUME Types, Locked, NEW g \in Gateway, NEW from \in Inside, NEW to \in Inside,
         Goes(g, from, to), UNCHANGED <<lock, command>>, stop' \in BOOLEAN, UNCHANGED asked
  PROVE  /\ Types' /\ Locked'
         /\ gateway[g] = from /\ gateway'[g] = to
         /\ \A h \in Gateway \ {g} : gateway'[h] \in {"exited", "started"}
<1>1. gateway[g] = from /\ gateway' = [gateway EXCEPT ![g] = to]
  BY DEF Goes, At
<1>2. gateway' \in [Gateway -> Inside \cup {"exited", "started"}] /\ gateway'[g] = to
  BY <1>1 DEF Types
<1>3. ASSUME NEW h \in Gateway \ {g} PROVE gateway'[h] = gateway[h]
  BY <1>1 DEF Types
<1>4. Types'
  BY <1>2 DEF Types
<1>5. Locked'
  BY <1>1, <1>2, <1>3 DEF Locked, In
<1> QED
  BY <1>1, <1>2, <1>3, <1>4, <1>5, OneInside

\* A process that leaves, by its end or by a signal, releases the lock.
LEMMA Leaves ==
  ASSUME Types, Locked, NEW g \in Gateway, gateway' = [gateway EXCEPT ![g] = "exited"],
         lock' = IF lock = g THEN Absent ELSE lock, UNCHANGED <<stop, asked>>,
         command' \in Commands \cup {NoCommand}, command'.pc \in {"wait", "ready?"} => command'.child \in Gateway,
         command'.pc = "release" <=> In("release")
  PROVE  Types' /\ Locked' /\ \A h \in Gateway \ {g} : gateway'[h] = gateway[h]
<1>1. gateway' \in [Gateway -> Inside \cup {"exited", "started"}] /\ gateway'[g] = "exited"
  BY DEF Types
<1>2. \A h \in Gateway \ {g} : gateway'[h] = gateway[h]
  BY DEF Types
<1>3. lock' \in Gateway \cup {Launcher, Absent}
  BY DEF Types
<1>4. Types'
  BY <1>1, <1>3 DEF Types
<1>5. "exited" \notin Inside
  BY DEF Inside, Cleaned
<1>6. lock' = Launcher <=> lock = Launcher
  BY ProcessAssumption
<1>7. ASSUME NEW h \in Gateway PROVE lock' = h <=> gateway'[h] \in Inside
  BY <1>1, <1>2, <1>5, ProcessAssumption DEF Locked
<1> QED
  BY <1>2, <1>4, <1>6, <1>7 DEF Locked, In

LEMMA AcquireGood ==
  ASSUME Outer, NEW g \in Gateway, Acquire(g), UNCHANGED command
  PROVE  Outer'
<1> USE DEF Outer
<1>1. CASE lock = Absent
  <2>1. gateway' = [gateway EXCEPT ![g] = "locked"] /\ lock' = g /\ asked' = FALSE
    BY <1>1 DEF Acquire, Goes
  <2>2. gateway' \in [Gateway -> Inside \cup {"exited", "started"}] /\ gateway'[g] = "locked"
    BY <2>1 DEF Types, Inside
  <2>3. ASSUME NEW h \in Gateway \ {g} PROVE gateway'[h] = gateway[h] /\ gateway'[h] \notin Inside
    BY <1>1, <2>1, ProcessAssumption DEF Types, Locked
  <2>4. Types'
    BY <2>1, <2>2 DEF Types, Acquire, files
  <2>5. Locked'
    BY <1>1, <2>1, <2>2, <2>3, ProcessAssumption DEF Locked, In, Inside
  <2>6. ASSUME NEW h \in Gateway PROVE gateway'[h] \notin Cleaned
    BY <2>2, <2>3 DEF Inside, Cleaned
  <2>7. StopKnown'
    BY <2>6 DEF StopKnown
  <2>8. ListWhole'
    BY <2>6 DEF ListWhole, Cleaned, Acquire, files, MaybeWhole
  <2> QED
    BY <2>4, <2>5, <2>7, <2>8
<1>2. CASE lock # Absent
  <2>1. gateway[g] = "started" /\ gateway' = [gateway EXCEPT ![g] = "exited"]
        /\ UNCHANGED <<lock, asked, stop, list, tmp, signed>>
    BY <1>2 DEF Acquire, Goes, At, files, index
  <2>2. lock # g
    BY <2>1 DEF Locked, Inside, Cleaned
  <2>3. Types' /\ Locked' /\ \A h \in Gateway \ {g} : gateway'[h] = gateway[h]
    BY <2>1, <2>2, Leaves DEF Types, In
  <2>4. gateway'[g] = "exited"
    BY <2>1 DEF Types
  <2> QED
    BY <2>1, <2>3, <2>4 DEF StopKnown, ListWhole, MaybeWhole, Cleaned
<1> QED
  BY <1>1, <1>2
\* The same with the files: the stop file is at most removed, and a list is written as a whole.
LEMMA WorksOn ==
  ASSUME Outer, NEW g \in Gateway, NEW from \in Inside, NEW to \in Inside,
         Goes(g, from, to), UNCHANGED <<lock, command, asked>>, stop' \in {stop, FALSE},
         from \in Cleaned \/ stop' = FALSE, MaybeWhole(list'),
         to = "write" => Whole(signed'), to = "rename" => Whole(tmp')
  PROVE  Outer'
<1>1. /\ Types' /\ Locked' /\ gateway[g] = from /\ gateway'[g] = to
      /\ \A h \in Gateway \ {g} : gateway'[h] \in {"exited", "started"}
  <2>1. stop' \in BOOLEAN
    BY DEF Outer, Types
  <2> QED
    BY <2>1, GoesOn DEF Outer
<1>2. StopKnown'
  BY <1>1 DEF Outer, StopKnown, Cleaned
<1>3. ListWhole'
  BY <1>1 DEF Outer, ListWhole
<1> QED
  BY <1>1, <1>2, <1>3 DEF Outer

\* The steps of a process between its lock and the end, other than those of the index.
Works(g) ==
  \/ RemoveStop(g) \/ RemoveReady(g) \/ Bind(g) \/ Ready(g) \/ Load(g) \/ Built(g)
  \/ Store(g) \/ Write(g) \/ Rename(g) \/ StopFile(g) \/ Signal(g) \/ DropReady(g) \/ DropStop(g)

LEMMA WorksGood ==
  ASSUME Outer, IndexGood, NEW g \in Gateway, Works(g), UNCHANGED command
  PROVE  Outer'
<1>0. MaybeWhole(list)
  BY DEF Outer, ListWhole
<1> USE DEF Inside, Cleaned, files, history
<1>1. CASE RemoveStop(g)
  BY <1>0, <1>1, WorksOn DEF RemoveStop, MaybeWhole
<1>2. CASE RemoveReady(g)
  BY <1>0, <1>2, WorksOn DEF RemoveReady, MaybeWhole
<1>3. CASE Bind(g)
  <2>1. CASE Goes(g, "clean", "bound")
    BY <1>0, <1>3, <2>1, WorksOn DEF Bind, MaybeWhole
  <2>2. CASE Goes(g, "clean", "drop")
    BY <1>0, <1>3, <2>2, WorksOn DEF Bind, MaybeWhole
  <2> QED
    BY <1>3, <2>1, <2>2 DEF Bind
<1>4. CASE Ready(g)
  BY <1>0, <1>4, WorksOn DEF Ready, MaybeWhole
<1>5. CASE Load(g)
  BY <1>0, <1>5, WorksOn DEF Load, MaybeWhole
<1>6. CASE Built(g)
  <2>1. CASE Goes(g, "discover", "store")
    BY <1>0, <1>6, <2>1, WorksOn DEF Built, MaybeWhole
  <2>2. CASE Goes(g, "discover", "discover")
    BY <1>0, <1>6, <2>2, WorksOn DEF Built, MaybeWhole
  <2> QED
    BY <1>6, <2>1, <2>2 DEF Built
<1>7. CASE Store(g)
  <2>1. CASE signed = Absent
    BY <1>0, <1>7, <2>1, WorksOn DEF Store, MaybeWhole
  <2>2. CASE signed # Absent
    <3>1. Whole(signed')
      BY <1>7, <2>2 DEF Store, index, IndexGood, MaybeWhole
    <3> QED
      BY <1>0, <1>7, <2>2, <3>1, WorksOn DEF Store, MaybeWhole
  <2> QED
    BY <2>1, <2>2
<1>8. CASE Write(g)
  <2>1. Whole(tmp')
    BY <1>8 DEF Write, Goes, At, Outer, ListWhole
  <2> QED
    BY <1>0, <1>8, <2>1, WorksOn DEF Write, MaybeWhole
<1>9. CASE Rename(g)
  <2>1. MaybeWhole(list')
    BY <1>9 DEF Rename, Goes, At, Outer, ListWhole, MaybeWhole
  <2> QED
    BY <1>9, <2>1, WorksOn DEF Rename
<1>10. CASE StopFile(g) \/ Signal(g)
  <2>1. CASE Goes(g, "discover", "drop")
    BY <1>0, <1>10, <2>1, WorksOn DEF StopFile, Signal, MaybeWhole
  <2>2. CASE Goes(g, "serving", "drop")
    BY <1>0, <1>10, <2>2, WorksOn DEF StopFile, Signal, MaybeWhole
  <2> QED
    BY <1>10, <2>1, <2>2 DEF StopFile, Signal
<1>11. CASE DropReady(g)
  BY <1>0, <1>11, WorksOn DEF DropReady, MaybeWhole
<1>12. CASE DropStop(g)
  BY <1>0, <1>12, WorksOn DEF DropStop, MaybeWhole
<1> QED
  BY <1>1, <1>2, <1>3, <1>4, <1>5, <1>6, <1>7, <1>8, <1>9, <1>10, <1>11, <1>12 DEF Works

\* A process that exits or is killed.
LEMMA EndsGood ==
  ASSUME Outer, NEW g \in Gateway, Ends(g), UNCHANGED <<stop, asked, list, tmp>>,
         command' \in Commands \cup {NoCommand}, command'.pc \in {"wait", "ready?"} => command'.child \in Gateway,
         command'.pc = "release" <=> In("release")
  PROVE  Outer'
<1>1. Types' /\ Locked' /\ \A h \in Gateway \ {g} : gateway'[h] = gateway[h]
  BY Leaves DEF Outer, Ends
<1>2. gateway'[g] = "exited"
  BY DEF Outer, Types, Ends
<1>3. StopKnown'
  BY <1>1, <1>2 DEF Outer, StopKnown, Cleaned
<1>4. ASSUME NEW h \in Gateway, gateway'[h] = "write" PROVE Whole(signed')
  <2>1. h # g /\ gateway[h] = "write"
    BY <1>1, <1>2, <1>4
  <2>2. lock = h
    BY <2>1 DEF Outer, Locked, Inside, Cleaned
  <2>3. UNCHANGED signed
    BY <2>1, <2>2 DEF Ends, index
  <2> QED
    BY <2>1, <2>3 DEF Outer, ListWhole
<1>5. ListWhole'
  BY <1>1, <1>2, <1>4 DEF Outer, ListWhole, MaybeWhole
<1> QED
  BY <1>1, <1>3, <1>5 DEF Outer

\* A refresh, at a moment when the process is not writing the list.
LEMMA RefreshOuter ==
  ASSUME Outer, NEW g \in Gateway, At(g, "discover") \/ At(g, "serving"),
         UNCHANGED <<gateway, lock, files, history, command>>
  PROVE  Outer'
<1>1. \A h \in Gateway : gateway[h] \notin {"write", "rename"}
  BY OneInside DEF Outer, At, Inside, Cleaned
<1>2. Types'
  BY DEF Outer, Types, files, history
<1>3. Locked'
  BY DEF Outer, Locked, In
<1>4. StopKnown'
  BY DEF Outer, StopKnown, files, history
<1>5. ListWhole'
  BY <1>1 DEF Outer, ListWhole, files, MaybeWhole
<1> QED
  BY <1>2, <1>3, <1>4, <1>5 DEF Outer

LEMMA StepGood ==
  ASSUME IInv, NEW g \in Gateway, Step(g), UNCHANGED command PROVE IInv'
<1>0. Outer /\ IndexGood
  BY DEF IInv, Outer
<1>1. CASE Acquire(g)
  BY <1>0, <1>1, AcquireGood, IndexStays DEF Acquire, IInv, Outer
<1>2. CASE Works(g)
  <2>1. Outer'
    BY <1>0, <1>2, WorksGood
  <2>2. IndexGood'
    <3>1. CASE UNCHANGED index
      BY <1>0, <3>1, IndexStays
    <3>2. CASE NoIndex
      BY <3>2, NoIndexGood
    <3>3. CASE Load(g)
      <4>1. MaybeWhole(IF list \in Item THEN list ELSE Absent)
        BY <1>0 DEF Outer, ListWhole, MaybeWhole
      <4> QED
        BY <3>3, <4>1, NewIndexGood DEF Load
    <3>4. CASE Built(g)
      <4>1. MaybeWhole(fallback)
        BY <1>0 DEF IndexGood
      <4> QED
        BY <1>0, <3>4, <4>1, NewIndexGood, IndexStays DEF Built
    <3> QED
      BY <1>2, <3>1, <3>2, <3>3, <3>4 DEF Works, RemoveStop, RemoveReady, Bind, Ready, Store,
         Write, Rename, StopFile, Signal, DropReady, DropStop
  <2> QED
    BY <2>1, <2>2 DEF IInv, Outer
<1>3. CASE Discover(g) \/ Background(g)
  <2>1. Outer'
    BY <1>0, <1>3, RefreshOuter DEF Discover, Background
  <2>2. IndexGood'
    BY <1>0, <1>3, RefreshGood, RefreshAgainGood DEF Discover, Background
  <2> QED
    BY <2>1, <2>2 DEF IInv, Outer
<1>4. CASE Unlock(g)
  <2>1. gateway[g] = "unlocking" /\ gateway' = [gateway EXCEPT ![g] = "exited"] /\ lock = g
    BY <1>0, <1>4 DEF Unlock, Goes, At, Outer, Locked, Inside, Cleaned
  <2>2. Types' /\ Locked' /\ \A h \in Gateway \ {g} : gateway'[h] = gateway[h]
    BY <1>0, <1>4, <2>1, Leaves DEF Unlock, Outer, files, history, Types, In
  <2>3. gateway'[g] = "exited"
    BY <1>0, <2>1 DEF Outer, Types
  <2>4. StopKnown' /\ ListWhole'
    BY <1>0, <1>4, <2>2, <2>3 DEF Unlock, Outer, StopKnown, ListWhole, Cleaned, MaybeWhole, files, history,
       index
  <2> QED
    BY <1>0, <1>4, <2>2, <2>4, IndexStays DEF IInv, Unlock
<1>5. CASE Kill(g)
  <2>1. Outer'
    BY <1>0, <1>5, EndsGood DEF Kill, files, Outer, Types, In
  <2>2. IndexGood'
    BY <1>0, <1>5, NoIndexGood, IndexStays DEF Kill, Ends
  <2> QED
    BY <2>1, <2>2 DEF IInv, Outer
<1> QED
  BY <1>1, <1>2, <1>3, <1>4, <1>5 DEF Step, Works
----------------------------------------------------------------------------
(* The launcher.                                                           *)

\* The command goes on and leaves the processes alone: of the lock it takes what no process has.
CommandStep ==
  /\ UNCHANGED <<gateway, list, tmp, index>>
  /\ lock' \in {lock, Launcher, Absent} /\ (lock' # lock => lock \notin Gateway)
  /\ lock' = Launcher <=> command'.pc = "release"
  /\ \/ stop' = stop /\ asked' = asked
     \/ stop' = TRUE /\ asked' = TRUE
  /\ command' \in Commands \cup {NoCommand}
  /\ command'.pc \in {"wait", "ready?"} => command'.child \in Gateway

LEMMA CommandGood ==
  ASSUME IInv, CommandStep PROVE IInv'
<1>1. Types'
  BY DEF IInv, Types, CommandStep
<1>2. ASSUME NEW g \in Gateway PROVE lock' = g <=> lock = g
  BY ProcessAssumption DEF CommandStep
<1>3. Locked'
  BY <1>2 DEF IInv, Locked, In, CommandStep
<1>4. StopKnown'
  <2>1. stop' => (stop /\ asked' = asked) \/ asked'
    BY DEF CommandStep
  <2>2. UNCHANGED gateway
    BY DEF CommandStep
  <2> QED
    BY <2>1, <2>2 DEF IInv, StopKnown
<1>5. ListWhole'
  BY DEF IInv, ListWhole, MaybeWhole, index, CommandStep
<1> QED
  BY <1>1, <1>3, <1>4, <1>5, IndexStays DEF IInv, CommandStep

LEMMA LaunchGood ==
  ASSUME IInv, Launch PROVE IInv'
<1>0. /\ command.pc # "none" => command \in Commands
      /\ command.pc \in {"wait", "ready?"} => command.child \in Gateway
      /\ lock \in Gateway \cup {Launcher, Absent}
      /\ lock = Launcher <=> command.pc = "release"
  BY DEF IInv, Types, NoCommand, Locked, In
<1>00. NoCommand.pc = "none"
  BY DEF NoCommand
<1> USE ProcessAssumption DEF In, Then
<1>1. ASSUME NEW kind \in {"start", "stop", "status"}, Command(kind) PROVE IInv'
  <2>1. command' \in Commands /\ command'.pc = "running?"
    BY <1>1 DEF Command, Commands
  <2> QED
    <3>1. CommandStep
      BY <1>0, <1>1, <2>1 DEF Command, process, files, history, CommandStep
    <3> QED
      BY <3>1, CommandGood
<1>2. CASE Running
  <2>0. command \in Commands /\ lock # Launcher
    BY <1>0, <1>2 DEF Running
  <2>1. CASE command.child # Absent
    <3>1. command' = [command EXCEPT !.pc = "ready?", !.seen = lock]
      BY <1>2, <2>1 DEF Running
    <3>2. command' \in Commands /\ command'.pc = "ready?" /\ command'.child \in Gateway
      BY <1>0, <2>0, <2>1, <3>1 DEF Commands
    <3> QED
      <4>1. CommandStep
        BY <1>0, <1>2, <2>0, <3>2 DEF Running, process, files, history, CommandStep
      <4> QED
        BY <4>1, CommandGood
  <2>2. CASE command.child = Absent
    <3>1. command' \in {[command EXCEPT !.pc = "stop"], NoCommand}
      BY <1>2, <2>2 DEF Running
    <3>2. command' \in Commands \cup {NoCommand} /\ command'.pc \in {"stop", "none"}
      BY <1>00, <2>0, <3>1 DEF Commands
    <3> QED
      <4>1. CommandStep
        BY <1>0, <1>2, <2>0, <3>2 DEF Running, process, files, history, CommandStep
      <4> QED
        BY <4>1, CommandGood
  <2> QED
    BY <2>1, <2>2
<1>3. CASE TryLock \/ Stopped
  <2>1. command' \in Commands /\ command'.pc = "release"
    BY <1>0, <1>3 DEF TryLock, Stopped, Commands
  <2> QED
    <3>1. CommandStep
      BY <1>0, <1>3, <2>1 DEF TryLock, Stopped, NotProcess, files, history, CommandStep
    <3> QED
      BY <3>1, CommandGood
<1>4. CASE Release
  <2>1. command \in Commands /\ lock = Launcher
    BY <1>0, <1>4 DEF Release
  <2>2. CASE command.kind # "start"
    <3>1. CommandStep
      BY <1>0, <1>00, <1>4, <2>1, <2>2 DEF Release, NotProcess, files, history, CommandStep
    <3> QED
      BY <3>1, CommandGood
  <2>3. CASE command.kind = "start" /\ command.child = Absent
    <3>1. command' \in Commands /\ command'.pc = "start"
      BY <1>4, <2>1, <2>3 DEF Release, Commands
    <3> QED
      <4>1. CommandStep
        BY <1>0, <1>4, <2>1, <3>1 DEF Release, NotProcess, files, history, CommandStep
      <4> QED
        BY <4>1, CommandGood
  <2>4. CASE command.kind = "start" /\ command.child # Absent
    <3>1. command' \in Commands /\ command'.pc = "wait" /\ command'.child \in Gateway
      BY <1>4, <2>1, <2>4 DEF Release, Commands
    <3> QED
      <4>1. CommandStep
        BY <1>0, <1>4, <2>1, <3>1 DEF Release, NotProcess, files, history, CommandStep
      <4> QED
        BY <4>1, CommandGood
  <2> QED
    BY <2>2, <2>3, <2>4
<1>5. CASE RemoveStaleReady
  <2>1. command' \in Commands /\ command'.pc = "spawn" /\ lock # Launcher
    BY <1>0, <1>5 DEF RemoveStaleReady, Commands
  <2> QED
    <3>1. CommandStep
      BY <1>0, <1>5, <2>1 DEF RemoveStaleReady, history, CommandStep
    <3> QED
      BY <3>1, CommandGood
<1>6. CASE Wait
  <2>1. command \in Commands /\ lock # Launcher /\ command.child \in Gateway
    BY <1>0, <1>6 DEF Wait
  <2>2. command' \in Commands \cup {NoCommand} /\ command'.pc \in {"running?", "none"}
    BY <1>00, <1>6, <2>1 DEF Wait, Commands
  <2> QED
    <3>1. CommandStep
      BY <1>0, <1>6, <2>1, <2>2 DEF Wait, process, files, history, CommandStep
    <3> QED
      BY <3>1, CommandGood
<1>7. CASE CheckReady
  <2>1. command \in Commands /\ lock # Launcher /\ command.child \in Gateway
    BY <1>0, <1>7 DEF CheckReady
  <2>2. /\ command' \in Commands \cup {NoCommand} /\ command'.pc \in {"wait", "none"}
        /\ command'.pc = "wait" => command'.child \in Gateway
    BY <1>00, <1>7, <2>1 DEF CheckReady, Commands
  <2> QED
    <3>1. CommandStep
      BY <1>0, <1>7, <2>1, <2>2 DEF CheckReady, process, files, history, CommandStep
    <3> QED
      BY <3>1, CommandGood
<1>8. CASE StartTimeout
  <2>1. command' = NoCommand /\ lock # Launcher /\ command.child \in Gateway
    BY <1>0, <1>8 DEF StartTimeout
  <2>2. CASE At(command.child, "exited")
    <3>1. CommandStep
      BY <1>0, <1>00, <1>8, <2>1, <2>2 DEF StartTimeout, files, history, CommandStep
    <3> QED
      BY <3>1, CommandGood
  <2>3. CASE ~At(command.child, "exited")
    <3>1. Ends(command.child) /\ UNCHANGED <<stop, asked, list, tmp>>
      BY <1>8, <2>3 DEF StartTimeout, files, history
    <3>2. Outer'
      BY <1>0, <1>00, <1>8, <2>1, <3>1, EndsGood DEF IInv, Outer, StartTimeout
    <3>3. IndexGood'
      BY <3>1, NoIndexGood, IndexStays DEF Ends, IInv
    <3> QED
      BY <3>2, <3>3 DEF IInv, Outer
  <2> QED
    BY <2>2, <2>3
<1>9. ASSUME NEW g \in Gateway, Spawn(g) PROVE IInv'
  <2>1. /\ command' \in Commands /\ command'.pc = "wait" /\ command'.child \in Gateway
        /\ command.pc = "spawn"
    BY <1>0, <1>9 DEF Spawn, Commands
  <2>2. gateway[g] = "exited" /\ gateway' = [gateway EXCEPT ![g] = "started"]
        /\ UNCHANGED <<lock, stop, asked, list, tmp, index>>
    BY <1>9 DEF Spawn, At, files
  <2>3. gateway' \in [Gateway -> Inside \cup {"exited", "started"}] /\ gateway'[g] = "started"
        /\ \A h \in Gateway \ {g} : gateway'[h] = gateway[h]
    BY <2>2 DEF IInv, Types
  <2>4. Types'
    BY <2>1, <2>2, <2>3 DEF IInv, Types
  <2>5. ASSUME NEW h \in Gateway PROVE gateway'[h] \in Inside <=> gateway[h] \in Inside
    BY <2>2, <2>3 DEF Inside, Cleaned
  <2>6. Locked'
    BY <2>1, <2>2, <2>5 DEF IInv, Locked
  <2>7. StopKnown'
    BY <2>2, <2>3 DEF IInv, StopKnown, Cleaned
  <2>8. ListWhole'
    BY <2>2, <2>3 DEF IInv, ListWhole, MaybeWhole, index
  <2> QED
    BY <2>2, <2>4, <2>6, <2>7, <2>8, IndexStays DEF IInv
<1>10. CASE WriteStop
  <2>1. command' \in Commands /\ command'.pc = "stopping" /\ lock # Launcher
    BY <1>0, <1>10 DEF WriteStop, Commands
  <2> QED
    <3>1. CommandStep
      BY <1>0, <1>10, <2>1 DEF WriteStop, CommandStep
    <3> QED
      BY <3>1, CommandGood
<1>11. CASE StillRunning
  <2>1. command' \in Commands \cup {NoCommand} /\ command'.pc \in {"stopping", "none"} /\ lock # Launcher
    BY <1>0, <1>00, <1>11 DEF StillRunning
  <2> QED
    <3>1. CommandStep
      BY <1>0, <1>11, <2>1 DEF StillRunning, process, files, history, CommandStep
    <3> QED
      BY <3>1, CommandGood
<1>12. CASE KillLauncher
  <2>1. CommandStep
    BY <1>0, <1>00, <1>12 DEF KillLauncher, files, CommandStep
  <2> QED
    BY <2>1, CommandGood
<1> QED
  BY <1>1, <1>2, <1>3, <1>4, <1>5, <1>6, <1>7, <1>8, <1>9, <1>10, <1>11, <1>12 DEF Launch

LEMMA InitGood == Init => IInv
<1> SUFFICES ASSUME Init PROVE IInv
  OBVIOUS
<1> USE DEF Init, InitProcess, InitIndex
<1>1. Types
  BY DEF Types, NoCommand
<1>2. Locked
  BY ProcessAssumption DEF Locked, In, NoCommand, Inside, Cleaned
<1>3. StopKnown /\ ListWhole
  BY DEF StopKnown, ListWhole, MaybeWhole
<1>4. IndexGood
  BY DEF IndexGood, MaybeWhole, Refreshing, NoRefresh
<1> QED
  BY <1>1, <1>2, <1>3, <1>4 DEF IInv

LEMMA NextGood ==
  ASSUME IInv, [Next]_vars PROVE IInv'
<1>1. CASE Launch
  BY <1>1, LaunchGood
<1>2. ASSUME NEW g \in Gateway, Step(g), UNCHANGED command PROVE IInv'
  BY <1>2, StepGood
<1>3. CASE UNCHANGED <<process, command>>
  <2>1. UNCHANGED <<gateway, lock, stop, list, tmp, asked, command, index, signed>>
    BY <1>3 DEF process, files, history, index
  <2>2. Types' /\ Locked' /\ StopKnown' /\ ListWhole'
    BY <2>1 DEF IInv, Types, Locked, In, StopKnown, ListWhole, MaybeWhole
  <2> QED
    BY <2>1, <2>2, IndexStays DEF IInv
<1> QED
  BY <1>1, <1>2, <1>3 DEF Next, vars

LEMMA AlwaysGood == Spec => []IInv
BY InitGood, NextGood, PTL DEF Spec
----------------------------------------------------------------------------
(* The theorems.                                                           *)

\* A gateway is stopped by the stop file only if a stop was asked for since it took the lock,
\* whatever earlier commands and killed processes left (Runtime::acquire).
THEOREM StopsAreAsked == Spec => StopsOnlyWhenAsked
<1>1. ASSUME IInv, NEW g \in Gateway, StopFile(g) PROVE asked
  BY <1>1 DEF IInv, StopKnown, StopFile, Goes, At, Cleaned
<1>2. IInv /\ [Next]_vars => [\A g \in Gateway : StopFile(g) => asked]_vars
  BY <1>1
<1> QED
  BY <1>2, AlwaysGood, PTL DEF Spec, StopsOnlyWhenAsked

\* Once a whole list is stored there always is one, though processes are killed at any step
\* (store_index_list).
THEOREM ListSurvives == Spec => StoredListSurvives
<1>1. ASSUME IInv, IInv', [Next]_vars, list \in Item PROVE list' \in Item
  <2>1. CASE list' = list
    BY <1>1, <2>1
  <2>2. ASSUME NEW g \in Gateway, Rename(g) PROVE list' \in Item
    BY <1>1, <2>2 DEF IInv, ListWhole, Whole, Rename, Goes, At
  <2> QED
    BY <1>1, <2>1, <2>2 DEF Next, vars, process, files, Launch, Command, Running, TryLock, Release,
       RemoveStaleReady, Wait, CheckReady, StartTimeout, Spawn, WriteStop, StillRunning, Stopped,
       KillLauncher, NotProcess, Step, Acquire, RemoveStop, RemoveReady, Bind, Ready, Load,
       Discover, Built, Store, Write, Background, StopFile, Signal, DropReady, DropStop, Unlock, Kill
<1>2. IInv /\ IInv' /\ [Next]_vars => [(list \in Item) => (list' \in Item)]_vars
  BY <1>1
<1> QED
  BY <1>2, AlwaysGood, PTL DEF Spec, StoredListSurvives

\* A refresh that ends leaves the servers of the newest list the index has had, though nodes
\* answer with older and malformed items (DiscoveryState::accept).
THEOREM ServersFollow == Spec => FollowsNewest
<1> DEFINE A == Refreshing("watch") /\ refresh'.pc = "done" =>
                  IF heard # Absent /\ Addresses[heard] # {} THEN servers' = Addresses[heard]
                  ELSE servers' \subseteq Announced
<1>1. ASSUME IInv, [Next]_vars, Refreshing("watch"), refresh'.pc = "done"
      PROVE  Follows(heard, servers')
  <2>1. refresh.pc = "watch" /\ refresh' # refresh
    BY <1>1 DEF Refreshing
  <2>2. ASSUME NEW stored, NewIndex(stored) PROVE FALSE
    BY <1>1, <2>2 DEF NewIndex, Collecting
  <2>3. ~NoIndex
    BY <1>1 DEF NoIndex, NoRefresh
  <2>4. ~UNCHANGED index
    BY <2>1 DEF index
  <2>5. ASSUME NEW g \in Gateway PROVE ~Ends(g)
    BY <2>3, <2>4 DEF Ends
  <2>6. ~Launch
    BY <2>4, <2>5, <1>1 DEF Launch, Command, Running, TryLock, Release, RemoveStaleReady, Wait, CheckReady,
       StartTimeout, Spawn, WriteStop, StillRunning, Stopped, KillLauncher, NotProcess, process, IInv,
       Types, In
  <2>7. Refresh \/ RefreshAgain
    BY <1>1, <2>2, <2>3, <2>4, <2>5, <2>6 DEF Next, vars, process, Step, Acquire, RemoveStop, RemoveReady,
       Bind, Ready, Load, Discover, Built, Store, Write, Rename, Background, StopFile, Signal, DropReady,
       DropStop, Unlock, Kill
  <2>8. Watch
    BY <2>1, <2>7 DEF Refresh, RefreshAgain, Collected, RendezvousEnds, Replace, Answer, Peer, Refreshing
  <2> QED
    BY <1>1, <2>8 DEF Watch, IInv, IndexGood
<1>2. IInv /\ [Next]_vars => [A]_vars
  BY <1>1 DEF Follows
<1> QED
  BY <1>2, AlwaysGood, PTL DEF Spec, FollowsNewest
----------------------------------------------------------------------------
(* The file ready, if at most one process is killed.                       *)

\* Where a process is that listens, and where one is that has written the file and not
\* removed it.
Listening == {"bound", "ready", "discover", "store", "write", "rename", "serving"}
Readied == {"ready", "discover", "store", "write", "rename", "serving", "drop"}

Bounded == kills \in Nat /\ \A g \in Gateway : gateway[g] \in Listening => g \in bound

HasChild == ~In("none") /\ command.child # Absent

\* The launcher was not killed: no process runs that its command did not start, so that the
\* file is that of its child.
Alone ==
  /\ In("start") \/ In("spawn") => \A g \in Gateway : gateway[g] = "exited"
  /\ \A g \in Gateway : gateway[g] = "started" => HasChild /\ g = command.child
  /\ HasChild => \A g \in Gateway : g # command.child => gateway[g] = "exited"
  /\ In("spawn") => ~ready
  /\ HasChild /\ ready => command.child \in bound
  /\ In("ready?") => HasChild /\ command.seen = command.child /\ gateway[command.child] # "started"

\* The launcher was killed, and no process can be: the file, once start has removed a stale
\* one, is that of the process that holds the lock.
ReadyIsHolders == ready => lock \in Gateway /\ lock \in bound /\ gateway[lock] \in Readied
Crowded == kills > 0 /\ (In("spawn") \/ HasChild => ReadyIsHolders)

\* Only start has a child.
ChildOfStart ==
  ~In("none") =>
    /\ command.child # Absent => command.kind = "start"
    /\ In("stop") \/ In("stopping") \/ In("start") \/ In("spawn") => command.child = Absent
    /\ In("start") \/ In("spawn") => command.kind = "start"

StartKnown == Bounded /\ ChildOfStart /\ (Alone \/ Crowded)

\* What a step of a process changes that matters here.
OthersStay(g) == \A h \in Gateway : h # g => gateway'[h] = gateway[h]

ProcessEffect(g) ==
  /\ command' = command
  /\ OthersStay(g)
  /\ gateway[g] = "exited" => gateway'[g] = "exited"
  /\ gateway'[g] = "started" => gateway[g] = "started"
  /\ bound \subseteq bound'
  /\ ready' => ready \/ gateway[g] = "bound"
  /\ gateway'[g] \in Listening => gateway[g] \in Listening \/ g \in bound'
  /\ \/ kills < MaxKills /\ kills' = kills + 1
     \/ /\ kills' = kills
        /\ \/ lock' = lock /\ lock # g /\ ready' = ready
           \/ lock = Absent /\ ready' = ready
           \/ /\ lock = g /\ lock' = g
              /\ ready' => gateway'[g] \in Readied \/ gateway[g] \notin Readied \cup {"bound"}
           \/ lock = g /\ gateway[g] \notin Readied /\ ready' = ready

LEMMA StepKeeps ==
  ASSUME IInv, StartKnown, MaxKills <= 1, NEW g \in Gateway, ProcessEffect(g)
  PROVE  StartKnown'
<1>1. Bounded' /\ ChildOfStart'
  BY DEF StartKnown, Bounded, ChildOfStart, In, ProcessEffect, OthersStay
<1>2. CASE Alone
  <2>1. \A h \in Gateway : /\ gateway[h] = "exited" => gateway'[h] = "exited"
                           /\ gateway'[h] = "started" => gateway[h] = "started"
    BY DEF ProcessEffect, OthersStay
  <2>2. UNCHANGED command /\ (HasChild' <=> HasChild)
    BY DEF ProcessEffect, OthersStay, HasChild, In
  <2>3. ready' => ready \/ (gateway[g] = "bound" /\ g \in bound)
    BY DEF ProcessEffect, OthersStay, StartKnown, Bounded, Listening
  <2>4. In("spawn") => ~ready'
    BY <1>2, <2>3 DEF Alone
  <2>5. HasChild /\ ready' => command.child \in bound'
    BY <1>2, <2>3 DEF Alone, ProcessEffect, OthersStay
  <2>6. In("ready?") => gateway'[command.child] # "started"
    <3>1. In("ready?") => command.child \in Gateway
      BY DEF IInv, Types, In
    <3> QED
      BY <1>2, <2>1, <3>1 DEF Alone
  <2>7. Alone'
    BY <1>2, <2>1, <2>2, <2>4, <2>5, <2>6 DEF Alone, In
  <2> QED
    BY <1>1, <2>7 DEF StartKnown
<1>3. CASE Crowded
  <2>1. kills' = kills /\ kills > 0
    BY <1>3, ProcessAssumption DEF Crowded, ProcessEffect, OthersStay, StartKnown, Bounded
  <2>2. (In("spawn") \/ HasChild)' <=> In("spawn") \/ HasChild
    BY DEF ProcessEffect, OthersStay, HasChild, In
  <2>3. ASSUME ReadyIsHolders PROVE ReadyIsHolders'
    <3> SUFFICES ASSUME ready' PROVE lock' \in Gateway /\ lock' \in bound' /\ gateway'[lock'] \in Readied
      BY DEF ReadyIsHolders
    <3>1. CASE lock' = lock /\ lock # g /\ ready' = ready
      BY <2>3, <3>1 DEF ReadyIsHolders, ProcessEffect, OthersStay
    <3>2. CASE lock = Absent /\ ready' = ready
      BY <2>3, <3>2, ProcessAssumption DEF ReadyIsHolders
    <3>3. CASE /\ lock = g /\ lock' = g
               /\ gateway'[g] \in Readied \/ gateway[g] \notin Readied \cup {"bound"}
      <4>1. gateway[g] \in Readied \cup {"bound"}
        BY <2>3, <3>3 DEF ReadyIsHolders, ProcessEffect, OthersStay
      <4>2. g \in bound
        BY <2>3, <3>3 DEF ReadyIsHolders, ProcessEffect, OthersStay, StartKnown, Bounded, Listening
      <4> QED
        BY <3>3, <4>1, <4>2 DEF ProcessEffect, OthersStay
    <3>4. CASE lock = g /\ gateway[g] \notin Readied /\ ready' = ready
      BY <2>3, <3>4 DEF ReadyIsHolders
    <3>5. ~(kills' = kills + 1)
      BY <2>1 DEF StartKnown, Bounded
    <3> QED
      BY <3>1, <3>2, <3>3, <3>4, <3>5 DEF ProcessEffect, OthersStay
  <2>4. Crowded'
    BY <1>3, <2>1, <2>2, <2>3 DEF Crowded
  <2> QED
    BY <1>1, <2>4 DEF StartKnown
<1> QED
  BY <1>2, <1>3 DEF StartKnown

LEMMA StepEffect ==
  ASSUME IInv, NEW g \in Gateway, Step(g), UNCHANGED command PROVE ProcessEffect(g)
<1>0. /\ gateway \in [Gateway -> Inside \cup {"exited", "started"}]
      /\ lock = g <=> gateway[g] \in Inside
      /\ command' = command
  BY DEF IInv, Types, Locked
<1> USE DEF Inside, Cleaned, Listening, Readied
\* With the lock kept, the effect is that on the file ready.
<1>1. ASSUME OthersStay(g), gateway[g] \in Inside, gateway'[g] \in Inside, lock' = lock, kills' = kills,
             bound \subseteq bound',
             ready' => ready \/ gateway[g] = "bound",
             ready' => gateway'[g] \in Readied \/ gateway[g] \notin Readied \cup {"bound"},
             gateway'[g] \in Listening => gateway[g] \in Listening \/ g \in bound'
      PROVE  ProcessEffect(g)
  BY <1>0, <1>1 DEF ProcessEffect, OthersStay
<1>2. CASE Acquire(g)
  <2>1. gateway[g] = "started" /\ lock # g /\ OthersStay(g) /\ UNCHANGED <<ready, kills, bound>>
    BY <1>0, <1>2 DEF Acquire, Goes, At, OthersStay, files
  <2>2. CASE lock = Absent
    <3>1. gateway'[g] = "locked"
      BY <1>0, <1>2, <2>2 DEF Acquire, Goes, At, OthersStay
    <3> QED
      BY <1>0, <2>1, <2>2, <3>1 DEF ProcessEffect, OthersStay
  <2>3. CASE lock # Absent
    <3>1. gateway'[g] = "exited" /\ lock' = lock
      BY <1>0, <1>2, <2>3 DEF Acquire, Goes, At, OthersStay
    <3> QED
      BY <1>0, <2>1, <3>1 DEF ProcessEffect, OthersStay
  <2> QED
    BY <2>2, <2>3
<1>3. CASE RemoveStop(g)
  <2>1. gateway[g] = "locked" /\ gateway'[g] = "unstopped" /\ OthersStay(g)
        /\ UNCHANGED <<lock, ready, kills, bound>>
    BY <1>0, <1>3 DEF RemoveStop, Goes, At, OthersStay, history
  <2> QED
    BY <1>1, <2>1
<1>4. CASE RemoveReady(g)
  <2>1. gateway[g] = "unstopped" /\ gateway'[g] = "clean" /\ OthersStay(g) /\ ~ready'
        /\ UNCHANGED <<lock, kills, bound>>
    BY <1>0, <1>4 DEF RemoveReady, Goes, At, OthersStay, history
  <2> QED
    BY <1>1, <2>1
<1>5. CASE DropReady(g)
  <2>1. gateway[g] = "drop" /\ gateway'[g] = "unready" /\ OthersStay(g) /\ ~ready'
        /\ UNCHANGED <<lock, kills, bound>>
    BY <1>0, <1>5 DEF DropReady, Goes, At, OthersStay, history
  <2> QED
    BY <1>1, <2>1
<1>6. CASE DropStop(g)
  <2>1. gateway[g] = "unready" /\ gateway'[g] = "unlocking" /\ OthersStay(g)
        /\ UNCHANGED <<lock, ready, kills, bound>>
    BY <1>0, <1>6 DEF DropStop, Goes, At, OthersStay, history
  <2> QED
    BY <1>1, <2>1
<1>7. CASE Bind(g)
  <2>1. gateway[g] = "clean" /\ OthersStay(g) /\ UNCHANGED <<lock, ready, kills>>
    BY <1>0, <1>7 DEF Bind, Goes, At, OthersStay, files
  <2>2. \/ gateway'[g] = "bound" /\ bound' = bound \cup {g}
        \/ gateway'[g] = "drop" /\ bound' = bound
    BY <1>0, <1>7 DEF Bind, Goes, At, OthersStay
  <2> QED
    BY <1>1, <2>1, <2>2
<1>8. CASE Ready(g)
  <2>1. gateway[g] = "bound" /\ gateway'[g] = "ready" /\ OthersStay(g) /\ UNCHANGED <<lock, kills, bound>>
    BY <1>0, <1>8 DEF Ready, Goes, At, OthersStay, history
  <2> QED
    BY <1>1, <2>1
<1>9. ASSUME NEW from \in Readied \ {"drop"}, NEW to \in Readied, Goes(g, from, to),
             UNCHANGED <<lock, ready, kills, bound>>
      PROVE  ProcessEffect(g)
  <2>1. gateway[g] = from /\ gateway'[g] = to /\ OthersStay(g)
    BY <1>0, <1>9 DEF Goes, At, OthersStay
  <2> QED
    BY <1>1, <1>9, <2>1
<1>10. CASE Load(g)
  BY <1>9, <1>10 DEF Load, files, history
<1>11. CASE Built(g)
  BY <1>9, <1>11 DEF Built, files, history
<1>12. CASE Store(g)
  BY <1>9, <1>12 DEF Store, history
<1>13. CASE Write(g) \/ Rename(g)
  BY <1>9, <1>13 DEF Write, Rename, history
<1>14. CASE StopFile(g) \/ Signal(g)
  BY <1>9, <1>14 DEF StopFile, Signal, files, history
<1>15. CASE Discover(g) \/ Background(g)
  <2>1. UNCHANGED <<gateway, lock, ready, kills, bound>> /\ gateway[g] \in {"discover", "serving"}
    BY <1>15 DEF Discover, Background, At, files, history
  <2> QED
    BY <1>0, <1>1, <2>1 DEF OthersStay
<1>16. CASE Unlock(g)
  <2>1. gateway[g] = "unlocking" /\ gateway'[g] = "exited" /\ OthersStay(g)
        /\ UNCHANGED <<ready, kills, bound>>
    BY <1>0, <1>16 DEF Unlock, Goes, At, OthersStay, files, history
  <2> QED
    BY <1>0, <2>1 DEF ProcessEffect, OthersStay
<1>17. CASE Kill(g)
  <2>1. gateway[g] # "exited" /\ gateway'[g] = "exited" /\ OthersStay(g) /\ UNCHANGED <<ready, bound>>
        /\ kills < MaxKills /\ kills' = kills + 1
    BY <1>0, <1>17 DEF Kill, Ends, At, OthersStay, files
  <2> QED
    BY <1>0, <2>1 DEF ProcessEffect, OthersStay
<1> QED
  BY <1>2, <1>3, <1>4, <1>5, <1>6, <1>7, <1>8, <1>10, <1>11, <1>12, <1>13, <1>14, <1>15, <1>16, <1>17
     DEF Step

\* What most steps of a command change that matters here.
CommandEffect ==
  /\ gateway' = gateway /\ bound' = bound /\ kills' = kills /\ ready' = ready
  /\ lock' = lock \/ lock \notin Gateway
  /\ ~In("spawn")'
  /\ HasChild' => HasChild /\ command'.child = command.child
  /\ HasChild => HasChild' \/ gateway[command.child] # "started" \/ In("ready?")
  /\ In("start")' => ~HasChild /\ \A g \in Gateway : gateway[g] \notin Inside
  /\ In("ready?")' => /\ HasChild' /\ command'.seen = lock
                      /\ lock \in Gateway /\ gateway[lock] \in Inside

LEMMA CommandKeeps ==
  ASSUME IInv, StartKnown, CommandEffect, ChildOfStart' PROVE StartKnown'
<1>1. Bounded'
  BY DEF StartKnown, Bounded, CommandEffect
<1>2. CASE Alone
  <2>1. gateway \in [Gateway -> Inside \cup {"exited", "started"}]
    BY DEF IInv, Types
  <2>2. ASSUME NEW g \in Gateway, gateway[g] = "started" PROVE HasChild' /\ g = command'.child
    <3>1. HasChild /\ g = command.child
      BY <1>2, <2>2 DEF Alone
    <3>2. ~In("ready?")
      BY <1>2, <2>2, <3>1 DEF Alone
    <3> QED
      BY <2>2, <3>1, <3>2 DEF CommandEffect
  <2>3. In("start")' => \A g \in Gateway : gateway[g] = "exited"
    <3>1. ~HasChild => \A g \in Gateway : gateway[g] # "started"
      BY <1>2 DEF Alone
    <3> QED
      BY <2>1, <3>1 DEF CommandEffect
  <2>4. ASSUME In("ready?")' PROVE command'.seen = command'.child /\ gateway[command'.child] # "started"
    <3>1. HasChild' /\ HasChild /\ command'.child = command.child /\ lock \in Gateway
          /\ gateway[lock] \in Inside /\ command'.seen = lock
      BY <2>4 DEF CommandEffect
    <3>2. gateway[lock] # "exited" /\ gateway[lock] # "started"
      BY <3>1 DEF Inside, Cleaned
    <3>3. lock = command.child
      BY <1>2, <3>1, <3>2 DEF Alone
    <3> QED
      BY <3>1, <3>2, <3>3
  <2>5. HasChild' => \A g \in Gateway : g # command'.child => gateway[g] = "exited"
    BY <1>2 DEF Alone, CommandEffect
  <2>6. HasChild' /\ ready' => command'.child \in bound'
    BY <1>2 DEF Alone, CommandEffect
  <2>7. Alone'
    BY <2>2, <2>3, <2>4, <2>5, <2>6 DEF Alone, CommandEffect
  <2> QED
    BY <1>1, <2>7 DEF StartKnown
<1>3. CASE Crowded
  <2>1. (In("spawn") \/ HasChild)' => ReadyIsHolders
    BY <1>3 DEF Crowded, CommandEffect
  <2>2. ReadyIsHolders => ReadyIsHolders'
    BY DEF ReadyIsHolders, CommandEffect
  <2>3. Crowded'
    BY <1>3, <2>1, <2>2 DEF Crowded, CommandEffect
  <2> QED
    BY <1>1, <2>3 DEF StartKnown
<1> QED
  BY <1>2, <1>3 DEF StartKnown

\* The fields of the locals after a step that sets the program counter.
LEMMA CounterSet ==
  ASSUME command \in Commands, NEW pc, command' = [command EXCEPT !.pc = pc]
  PROVE  /\ command'.pc = pc /\ command'.child = command.child
         /\ command'.kind = command.kind
BY DEF Commands

LEMMA LaunchKeeps ==
  ASSUME IInv, StartKnown, Launch PROVE StartKnown'
<1>0. /\ gateway \in [Gateway -> Inside \cup {"exited", "started"}]
      /\ lock \in Gateway \cup {Launcher, Absent}
      /\ command.pc \in {"wait", "ready?"} => command.child \in Gateway
      /\ command \in Commands \/ In("none")
      /\ lock = Launcher <=> In("release")
      /\ \A g \in Gateway : lock = g <=> gateway[g] \in Inside
  BY DEF IInv, Types, Locked, In, NoCommand
<1>1. ASSUME command' = NoCommand PROVE In("none")' /\ ~HasChild' /\ ChildOfStart'
  BY <1>1 DEF NoCommand, In, HasChild, ChildOfStart
<1>2. ASSUME UNCHANGED process PROVE UNCHANGED <<gateway, bound, kills, ready, lock>>
  BY <1>2 DEF process, files, history
<1>3. ASSUME NEW kind \in {"start", "stop", "status"}, Command(kind) PROVE StartKnown'
  <2>1. ~HasChild /\ command'.pc = "running?" /\ command'.child = Absent
    BY <1>3 DEF Command, Then, HasChild
  <2>2. CommandEffect /\ ChildOfStart'
    BY <1>2, <1>3, <2>1 DEF Command, CommandEffect, ChildOfStart, HasChild, In
  <2> QED
    BY <2>2, CommandKeeps
<1>4. CASE Running
  <2>0. command \in Commands /\ lock \in Gateway /\ gateway[lock] \in Inside /\ command.pc = "running?"
        /\ UNCHANGED <<gateway, bound, kills, ready, lock>>
    BY <1>0, <1>2, <1>4 DEF Running, In
  <2>1. CASE command.child # Absent
    <3>1. command'.pc = "ready?" /\ command'.child = command.child /\ command'.kind = command.kind
          /\ command'.seen = lock
      BY <1>4, <2>0, <2>1 DEF Running, Then, Commands
    <3>2. CommandEffect /\ ChildOfStart'
      BY <2>0, <2>1, <3>1 DEF CommandEffect, ChildOfStart, HasChild, In, StartKnown
    <3> QED
      BY <3>2, CommandKeeps
  <2>2. CASE command.child = Absent /\ command.kind = "stop"
    <3>1. command'.pc = "stop" /\ command'.child = Absent
      BY <1>4, <2>0, <2>2, CounterSet DEF Running, Then
    <3>2. CommandEffect /\ ChildOfStart'
      BY <2>0, <2>2, <3>1 DEF CommandEffect, ChildOfStart, HasChild, In
    <3> QED
      BY <3>2, CommandKeeps
  <2>3. CASE command.child = Absent /\ command.kind # "stop"
    <3>1. command' = NoCommand /\ ~HasChild
      BY <1>4, <2>3 DEF Running, Then, HasChild
    <3>2. CommandEffect
      BY <1>1, <2>0, <3>1 DEF CommandEffect, In
    <3> QED
      BY <1>1, <3>1, <3>2, CommandKeeps
  <2> QED
    BY <2>1, <2>2, <2>3
<1>5. CASE TryLock \/ Stopped
  <2>0. command \in Commands /\ lock \notin Gateway /\ ~In("none")
        /\ UNCHANGED <<gateway, bound, kills, ready>>
    BY <1>0, <1>5, ProcessAssumption DEF TryLock, Stopped, In, NotProcess, files, history
  <2>1. command'.pc = "release" /\ command'.child = command.child /\ command'.kind = command.kind
    <3>1. command' = [command EXCEPT !.pc = "release"]
      BY <1>5 DEF TryLock, Stopped, Then
    <3> QED
      BY <2>0, <3>1, CounterSet
  <2>2. CommandEffect /\ ChildOfStart'
    BY <2>0, <2>1 DEF CommandEffect, ChildOfStart, HasChild, In, StartKnown
  <2> QED
    BY <2>2, CommandKeeps
<1>6. CASE Release
  <2>0. command \in Commands /\ lock = Launcher /\ lock \notin Gateway /\ ~In("none")
        /\ UNCHANGED <<gateway, bound, kills, ready>>
    BY <1>0, <1>6, ProcessAssumption DEF Release, In, NotProcess, files, history
  <2>1. \A g \in Gateway : gateway[g] \notin Inside
    BY <1>0, <2>0
  <2>2. CASE command.kind # "start"
    <3>1. command' = NoCommand /\ ~HasChild
      BY <1>6, <2>0, <2>2 DEF Release, Then, HasChild, StartKnown, ChildOfStart
    <3>2. CommandEffect
      BY <1>1, <2>0, <3>1 DEF CommandEffect, In
    <3> QED
      BY <1>1, <3>1, <3>2, CommandKeeps
  <2>3. CASE command.kind = "start"
    <3>1. command' = [command EXCEPT !.pc = IF command.child = Absent THEN "start" ELSE "wait"]
      BY <1>6, <2>3 DEF Release, Then
    <3>2. /\ command'.pc = IF command.child = Absent THEN "start" ELSE "wait"
          /\ command'.child = command.child /\ command'.kind = "start"
      BY <2>0, <2>3, <3>1, CounterSet
    <3>3. CommandEffect /\ ChildOfStart'
      BY <2>0, <2>1, <3>2 DEF CommandEffect, ChildOfStart, HasChild, In
    <3> QED
      BY <3>3, CommandKeeps
  <2> QED
    BY <2>2, <2>3
<1>7. CASE RemoveStaleReady
  <2>0. command \in Commands /\ In("start") /\ ~ready' /\ UNCHANGED <<gateway, bound, kills, lock>>
    BY <1>0, <1>7 DEF RemoveStaleReady, In, history
  <2>1. command'.pc = "spawn" /\ command'.child = Absent /\ command'.kind = "start"
    BY <1>7, <2>0, CounterSet DEF RemoveStaleReady, Then, StartKnown, ChildOfStart, In
  <2>2. Bounded' /\ ChildOfStart' /\ ~HasChild'
    BY <2>0, <2>1 DEF StartKnown, Bounded, ChildOfStart, HasChild, In
  <2>3. ASSUME Alone PROVE Alone'
    <3>1. \A g \in Gateway : gateway[g] = "exited"
      BY <2>0, <2>3 DEF Alone
    <3> QED
      BY <2>0, <2>1, <2>2, <3>1 DEF Alone, In
  <2>4. Crowded => Crowded'
    BY <2>0 DEF Crowded, ReadyIsHolders
  <2> QED
    BY <2>2, <2>3, <2>4 DEF StartKnown
<1>8. CASE Wait
  <2>0. command \in Commands /\ command.pc = "wait" /\ command.child \in Gateway /\ HasChild
        /\ UNCHANGED <<gateway, bound, kills, ready, lock>>
    BY <1>0, <1>2, <1>8, ProcessAssumption DEF Wait, In, HasChild
  <2>1. CASE At(command.child, "exited")
    <3>1. command' = NoCommand /\ gateway[command.child] # "started"
      BY <1>8, <2>0, <2>1, ProcessAssumption DEF Wait, Then, At
    <3>2. CommandEffect
      BY <1>1, <2>0, <3>1 DEF CommandEffect, In
    <3> QED
      BY <1>1, <3>1, <3>2, CommandKeeps
  <2>2. CASE ~At(command.child, "exited")
    <3>1. command'.pc = "running?" /\ command'.child = command.child /\ command'.kind = command.kind
      BY <1>8, <2>0, <2>2, CounterSet DEF Wait, Then
    <3>2. CommandEffect /\ ChildOfStart'
      BY <2>0, <3>1 DEF CommandEffect, ChildOfStart, HasChild, In, StartKnown
    <3> QED
      BY <3>2, CommandKeeps
  <2> QED
    BY <2>1, <2>2
<1>9. CASE CheckReady
  <2>0. command \in Commands /\ command.pc = "ready?" /\ UNCHANGED <<gateway, bound, kills, ready, lock>>
    BY <1>0, <1>2, <1>9 DEF CheckReady, In
  <2>1. CASE ready
    <3>1. command' = NoCommand
      BY <1>9, <2>1 DEF CheckReady, Then
    <3>2. CommandEffect
      BY <1>1, <2>0, <3>1 DEF CommandEffect, In
    <3> QED
      BY <1>1, <3>1, <3>2, CommandKeeps
  <2>2. CASE ~ready
    <3>1. command'.pc = "wait" /\ command'.child = command.child /\ command'.kind = command.kind
      BY <1>9, <2>0, <2>2, CounterSet DEF CheckReady, Then
    <3>2. CommandEffect /\ ChildOfStart'
      BY <2>0, <3>1 DEF CommandEffect, ChildOfStart, HasChild, In, StartKnown
    <3> QED
      BY <3>2, CommandKeeps
  <2> QED
    BY <2>1, <2>2
<1>10. CASE StartTimeout
  <2>0. command.pc = "wait" /\ command.child \in Gateway /\ command' = NoCommand
        /\ UNCHANGED <<bound, kills, ready>>
    BY <1>0, <1>10 DEF StartTimeout, In, Then, files, history
  <2>1. /\ gateway'[command.child] = "exited"
        /\ \A g \in Gateway : g # command.child => gateway'[g] = gateway[g]
    BY <1>0, <1>10, <2>0 DEF StartTimeout, Ends, At
  <2>2. Bounded'
    BY <2>0, <2>1 DEF StartKnown, Bounded, Listening
  <2>3. ASSUME Alone PROVE Alone'
    <3>1. \A g \in Gateway : gateway'[g] = "exited"
      BY <2>0, <2>1, <2>3, ProcessAssumption DEF Alone, HasChild, In
    <3> QED
      BY <1>1, <2>0, <3>1 DEF Alone, In
  <2>4. Crowded => Crowded'
    BY <1>1, <2>0 DEF Crowded, In
  <2> QED
    BY <1>1, <2>0, <2>2, <2>3, <2>4 DEF StartKnown
<1>11. ASSUME NEW g \in Gateway, Spawn(g) PROVE StartKnown'
  <2>0. /\ command \in Commands /\ In("spawn") /\ gateway[g] = "exited" /\ gateway'[g] = "started"
        /\ \A h \in Gateway : h # g => gateway'[h] = gateway[h]
        /\ bound' = bound \ {g} /\ UNCHANGED <<lock, ready, kills>>
    BY <1>0, <1>11 DEF Spawn, In, At, files
  <2>1. command'.pc = "wait" /\ command'.child = g /\ command'.kind = "start"
    <3>1. command.kind = "start"
      BY <2>0 DEF StartKnown, ChildOfStart, In
    <3> QED
      BY <1>11, <2>0, <3>1 DEF Spawn, Then, Commands
  <2>2. Bounded' /\ ChildOfStart' /\ HasChild'
    BY <2>0, <2>1, ProcessAssumption DEF StartKnown, Bounded, Listening, ChildOfStart, HasChild, In
  <2>3. ASSUME Alone PROVE Alone'
    <3>1. (\A h \in Gateway : gateway[h] = "exited") /\ ~ready
      BY <2>0, <2>3 DEF Alone
    <3> QED
      BY <2>0, <2>1, <2>2, <3>1 DEF Alone, In
  <2>4. ASSUME Crowded PROVE Crowded'
    <3>1. ready => lock \in Gateway /\ lock \in bound /\ gateway[lock] \in Readied
      BY <2>0, <2>4 DEF Crowded, ReadyIsHolders
    <3>2. ready => lock # g
      BY <2>0, <3>1 DEF Readied
    <3> QED
      BY <2>0, <2>4, <3>1, <3>2 DEF Crowded, ReadyIsHolders
  <2> QED
    BY <2>2, <2>3, <2>4 DEF StartKnown
<1>12. CASE WriteStop
  <2>0. command \in Commands /\ command.pc = "stop" /\ UNCHANGED <<gateway, bound, kills, ready, lock>>
    BY <1>0, <1>12 DEF WriteStop, In
  <2>1. command'.pc = "stopping" /\ command'.child = command.child /\ command'.kind = command.kind
    BY <1>12, <2>0, CounterSet DEF WriteStop, Then
  <2>2. CommandEffect /\ ChildOfStart'
    BY <2>0, <2>1 DEF CommandEffect, ChildOfStart, HasChild, In, StartKnown
  <2> QED
    BY <2>2, CommandKeeps
<1>13. CASE StillRunning
  <2>0. In("stopping") /\ ~HasChild /\ UNCHANGED <<gateway, bound, kills, ready, lock>>
    BY <1>2, <1>13 DEF StillRunning, In, HasChild, StartKnown, ChildOfStart
  <2>1. CASE command' = command
    <3>1. CommandEffect /\ ChildOfStart'
      BY <2>0, <2>1 DEF CommandEffect, ChildOfStart, HasChild, In, StartKnown
    <3> QED
      BY <3>1, CommandKeeps
  <2>2. CASE command' = NoCommand
    <3>1. CommandEffect
      BY <1>1, <2>0, <2>2 DEF CommandEffect, In
    <3> QED
      BY <1>1, <2>2, <3>1, CommandKeeps
  <2> QED
    BY <1>13, <2>1, <2>2 DEF StillRunning, Then
<1>14. CASE KillLauncher
  <2>0. command' = NoCommand /\ kills' = kills + 1 /\ UNCHANGED <<gateway, bound>>
    BY <1>14 DEF KillLauncher, Then
  <2>1. kills \in Nat
    BY DEF StartKnown, Bounded
  <2>2. Bounded' /\ kills' > 0
    BY <2>0, <2>1 DEF StartKnown, Bounded
  <2> QED
    BY <1>1, <2>0, <2>2 DEF StartKnown, Crowded, In
<1> QED
  BY <1>3, <1>4, <1>5, <1>6, <1>7, <1>8, <1>9, <1>10, <1>11, <1>12, <1>13, <1>14 DEF Launch

\* If at most one process is killed, a start that waited and succeeds means that a gateway has
\* bound its listener (start waits for the lock to be held and then for the file ready): a
\* stale file is never taken for that of a gateway that runs.
THEOREM StartIsBound ==
  ASSUME MaxKills <= 1 PROVE Spec => StartMeansBound
<1> DEFINE A == In("ready?") /\ command'.pc = "none" /\ ready => {command.seen, lock} \cap bound # {}
<1>1. Init => StartKnown
  BY DEF Init, InitProcess, StartKnown, Bounded, Listening, ChildOfStart, Alone, HasChild, In, NoCommand
<1>2. ASSUME IInv, StartKnown, [Next]_vars PROVE StartKnown'
  <2>1. CASE Launch
    BY <1>2, <2>1, LaunchKeeps
  <2>2. ASSUME NEW g \in Gateway, Step(g), UNCHANGED command PROVE StartKnown'
    BY <1>2, <2>2, StepEffect, StepKeeps
  <2>3. CASE UNCHANGED <<process, command>>
    BY <1>2, <2>3 DEF StartKnown, Bounded, ChildOfStart, Alone, Crowded, ReadyIsHolders, HasChild, In,
       process, files, history
  <2> QED
    BY <1>2, <2>1, <2>2, <2>3 DEF Next, vars
<1>3. ASSUME IInv, StartKnown, In("ready?"), ready PROVE {command.seen, lock} \cap bound # {}
  <2>1. HasChild
    BY <1>3, ProcessAssumption DEF IInv, Types, In, HasChild
  <2>2. CASE Alone
    BY <1>3, <2>1, <2>2 DEF Alone
  <2>3. CASE Crowded
    BY <1>3, <2>1, <2>3 DEF Crowded, ReadyIsHolders
  <2> QED
    BY <1>3, <2>2, <2>3 DEF StartKnown
<1>4. IInv /\ StartKnown /\ [Next]_vars => [A]_vars
  BY <1>3
<1> QED
  BY <1>1, <1>2, <1>4, AlwaysGood, PTL DEF Spec, StartMeansBound
============================================================================
