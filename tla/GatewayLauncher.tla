-------------------------- MODULE GatewayLauncher --------------------------
(***************************************************************************)
(* The launcher of the gateway                                             *)
(* (iroh-link-gateway/src/bin/iroh-link-gateway-background.rs,             *)
(* background.rs): start, stop and status. launcher.lock lets one command  *)
(* run at a time and fails the others at once, so that there is one here.  *)
(*                                                                         *)
(* `running` finds out whether a gateway holds its lock by taking it: for  *)
(* a moment the launcher has it, and a gateway that starts exits.          *)
(***************************************************************************)
EXTENDS GatewayProcess

VARIABLE command \* the locals of the command that runs

vars == <<listVars, rendezvous, process, command>>

NoCommand == [pc |-> "none"]

Init == InitProcess /\ command = NoCommand

In(pc) == command.pc = pc
Then(to) == command' = to
NotProcess == UNCHANGED <<gateway, files, history, index>>

\* A command takes launcher.lock, and asks whether a gateway runs.
Command(kind) ==
  /\ In("none")
  /\ Then([pc |-> "running?", kind |-> kind, child |-> Absent, seen |-> Absent])
  /\ UNCHANGED process

\* running: the lock is held by a gateway ...
Running ==
  /\ In("running?") /\ lock # Absent
  /\ Then(IF command.child # Absent
          THEN [command EXCEPT !.pc = "ready?", !.seen = lock]
          ELSE IF command.kind = "stop" THEN [command EXCEPT !.pc = "stop"] ELSE NoCommand)
  /\ UNCHANGED process

\* ... or by no one, and then for a moment by the launcher.
TryLock ==
  /\ In("running?") /\ lock = Absent
  /\ lock' = Launcher
  /\ Then([command EXCEPT !.pc = "release"])
  /\ NotProcess

\* No gateway runs: start goes on or waits, stop and status are done.
Release ==
  /\ In("release")
  /\ lock' = Absent
  /\ Then(IF command.kind # "start" THEN NoCommand
          ELSE [command EXCEPT !.pc = IF command.child = Absent THEN "start" ELSE "wait"])
  /\ NotProcess

\* Mutant: what a killed gateway left is not removed.
RemoveStaleReadyNot ==
  /\ In("start")
  /\ Then([command EXCEPT !.pc = "spawn"])
  /\ UNCHANGED process

\* start: ready is removed ...
RemoveStaleReady ==
  /\ In("start")
  /\ ready' = FALSE
  /\ Then([command EXCEPT !.pc = "spawn"])
  /\ UNCHANGED <<gateway, lock, stop, list, tmp, history, index>>

\* ... and a gateway is started.
Spawn(g) ==
  /\ In("spawn") /\ At(g, "exited")
  /\ gateway' = [gateway EXCEPT ![g] = "started"]
  /\ bound' = bound \ {g}
  /\ Then([command EXCEPT !.pc = "wait", !.child = g])
  /\ UNCHANGED <<lock, files, kills, asked, index>>

\* The loop of start: try_wait, and then running and ready.
Wait ==
  /\ In("wait")
  /\ Then(IF command.child # Absent /\ At(command.child, "exited") THEN NoCommand
          ELSE [command EXCEPT !.pc = "running?"])
  /\ UNCHANGED process

CheckReady ==
  /\ In("ready?")
  /\ Then(IF ready THEN NoCommand ELSE [command EXCEPT !.pc = "wait"])
  /\ UNCHANGED process

\* start has waited for 30 seconds: it kills its child.
StartTimeout ==
  /\ In("wait") /\ command.kind = "start"
  /\ Then(NoCommand)
  /\ IF At(command.child, "exited") THEN UNCHANGED <<gateway, lock, index>> ELSE Ends(command.child)
  /\ UNCHANGED <<files, history>>

\* stop: the file is written; then running is asked until it is false, or for 30 seconds.
WriteStop ==
  /\ In("stop")
  /\ stop' = TRUE
  /\ asked' = TRUE
  /\ Then([command EXCEPT !.pc = "stopping"])
  /\ UNCHANGED <<gateway, lock, ready, list, tmp, kills, bound, index>>

StillRunning ==
  /\ In("stopping") /\ lock # Absent
  /\ Then(command) \/ Then(NoCommand)
  /\ UNCHANGED process

Stopped ==
  /\ In("stopping") /\ lock = Absent
  /\ lock' = Launcher
  /\ Then([command EXCEPT !.pc = "release"])
  /\ NotProcess

\* The launcher is killed: its locks go, its child stays.
KillLauncher ==
  /\ ~In("none") /\ kills < MaxKills
  /\ kills' = kills + 1
  /\ lock' = IF lock = Launcher THEN Absent ELSE lock
  /\ Then(NoCommand)
  /\ UNCHANGED <<gateway, files, asked, bound, index>>

Launch ==
  \/ \E kind \in {"start", "stop", "status"} : Command(kind)
  \/ Running \/ TryLock \/ Release \/ RemoveStaleReady \/ Wait \/ CheckReady \/ StartTimeout
  \/ \E g \in Gateway : Spawn(g)
  \/ WriteStop \/ StillRunning \/ Stopped \/ KillLauncher

Next ==
  \/ Launch /\ UNCHANGED <<listVars, rendezvous>>
  \/ \E g \in Gateway : Step(g) /\ UNCHANGED <<listVars, rendezvous, command>>
  \/ Renew /\ UNCHANGED <<rendezvous, process, command>>

Spec == Init /\ [][Next]_vars

----------------------------------------------------------------------------
(* Properties.                                                             *)

\* A gateway is stopped by the stop file only if a stop was asked for since it took the lock:
\* a file that an earlier command or a killed process left does not stop the next gateway.
StopsOnlyWhenAsked == [][\A g \in Gateway : StopFile(g) => asked]_vars

\* A start that waited and succeeds means that a gateway has bound its listener, the one that
\* it saw running or the one that runs now: the file ready is not that of an earlier process,
\* though one process is killed at any moment.
StartMeansBound ==
  [][In("ready?") /\ command'.pc = "none" /\ ready => {command.seen, lock} \cap bound # {}]_vars

\* A crash never leaves half a list (main.rs): once a signed list is stored, there is always
\* a whole one to start from.
StoredListSurvives == [][(list \in Item) => (list' \in Item)]_vars

\* The servers in use follow the newest list that the index has had in its lifetime
\* (AddrIndexBuilder::build), though nodes answer with older ones and lookups fail; a list that
\* withdraws all of them leaves only the servers found by rendezvous.
FollowsNewest ==
  [][Refreshing("watch") /\ refresh'.pc = "done" =>
       IF heard # Absent /\ Addresses[heard] # {} THEN servers' = Addresses[heard]
       ELSE servers' \subseteq Announced]_vars
============================================================================
