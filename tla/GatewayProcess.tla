--------------------------- MODULE GatewayProcess ---------------------------
(***************************************************************************)
(* The gateway as a background process (iroh-link-gateway/src/main.rs,     *)
(* background.rs): its lock and the files by which it and the launcher     *)
(* talk, the discovery of index servers at its start, and the copy of the  *)
(* signed list that it keeps for the next one. A process may be killed     *)
(* between any two of its steps, which leaves its files.                   *)
(***************************************************************************)
EXTENDS Discovery

CONSTANTS Gateway,  \* process slots; an exited one may be started again
          Launcher, \* the launcher, as the holder of the lock
          Half,     \* a file that is written in part
          MaxKills  \* bound: processes killed

ASSUME ProcessAssumption ==
  /\ Launcher \notin Gateway /\ Absent \notin Gateway /\ Launcher # Absent
  /\ Half \notin Item /\ MaxKills \in Nat

VARIABLES
  gateway, \* where each process is
  lock,    \* the holder of gateway.lock
  stop,    \* whether the file stop exists
  ready,   \* whether the file ready exists
  list,    \* index-list.pkarr
  tmp,     \* index-list.tmp
  kills,
  asked,   \* stop was written since the holder of the lock took it (history)
  bound    \* the processes that have bound their listener since they were started (history)

files == <<stop, ready, list, tmp>>
history == <<kills, asked, bound>>
process == <<gateway, lock, files, history, index>>

InitProcess ==
  /\ InitList /\ InitIndex
  /\ gateway = [g \in Gateway |-> "exited"]
  /\ lock = Absent
  /\ stop = FALSE /\ ready = FALSE /\ list = Absent /\ tmp = Absent
  /\ kills = 0 /\ asked = FALSE /\ bound = {}

At(g, pc) == gateway[g] = pc
Goes(g, from, to) == At(g, from) /\ gateway' = [gateway EXCEPT ![g] = to]

\* The lock, with try_lock: a process that does not get it exits.
Acquire(g) ==
  /\ IF lock = Absent
     THEN Goes(g, "started", "locked") /\ lock' = g /\ asked' = FALSE
     ELSE Goes(g, "started", "exited") /\ UNCHANGED <<lock, asked>>
  /\ UNCHANGED <<files, kills, bound, index>>

\* Mutant: what a stop left is not removed.
RemoveStopNot(g) ==
  /\ Goes(g, "locked", "unstopped")
  /\ UNCHANGED <<lock, files, history, index>>

\* Runtime::acquire removes what an earlier process or command left.
RemoveStop(g) ==
  /\ Goes(g, "locked", "unstopped")
  /\ stop' = FALSE
  /\ UNCHANGED <<lock, ready, list, tmp, history, index>>

RemoveReady(g) ==
  /\ Goes(g, "unstopped", "clean")
  /\ ready' = FALSE
  /\ UNCHANGED <<lock, stop, list, tmp, history, index>>

\* The listener, the endpoint and the Mainline node are bound; or an error ends the process.
Bind(g) ==
  /\ \/ Goes(g, "clean", "bound") /\ bound' = bound \cup {g}
     \/ Goes(g, "clean", "drop") /\ UNCHANGED bound
  /\ UNCHANGED <<lock, files, kills, asked, index>>

Ready(g) ==
  /\ Goes(g, "bound", "ready")
  /\ ready' = TRUE
  /\ UNCHANGED <<lock, stop, list, tmp, history, index>>

\* serve: the stored list is verified and is the fallback of the first discovery, and of each
\* retry.
Load(g) ==
  /\ Goes(g, "ready", "discover")
  /\ NewIndex(IF list \in Item THEN list ELSE Absent)
  /\ UNCHANGED <<lock, files, history>>

Discover(g) ==
  /\ At(g, "discover") \/ At(g, "serving")
  /\ Refresh
  /\ UNCHANGED <<gateway, lock, files, history>>

\* build returns: without servers discovery is repeated after a while, from nothing.
Built(g) ==
  /\ Refreshing("done") \/ Refreshing("failed")
  /\ IF Refreshing("done") /\ servers # {}
     THEN Goes(g, "discover", "store") /\ UNCHANGED index
     ELSE Goes(g, "discover", "discover") /\ NewIndex(fallback)
  /\ UNCHANGED <<lock, files, history>>

\* Mutant: the list is written in place.
StoreInPlace(g) ==
  /\ Goes(g, "store", IF signed = Absent THEN "serving" ELSE "rename")
  /\ list' = IF signed = Absent THEN list ELSE Half
  /\ tmp' = signed
  /\ UNCHANGED <<lock, stop, ready, history, index>>

\* store_index_list, if there is a signed list: the file is written beside the stored one ...
Store(g) ==
  /\ Goes(g, "store", IF signed = Absent THEN "serving" ELSE "write")
  /\ tmp' = IF signed = Absent THEN tmp ELSE Half
  /\ UNCHANGED <<lock, stop, ready, list, history, index>>

Write(g) ==
  /\ Goes(g, "write", "rename")
  /\ tmp' = signed
  /\ UNCHANGED <<lock, stop, ready, list, history, index>>

\* ... and renamed.
Rename(g) ==
  /\ Goes(g, "rename", "serving")
  /\ list' = tmp /\ tmp' = Absent
  /\ UNCHANGED <<lock, stop, ready, history, index>>

Background(g) ==
  /\ At(g, "serving") /\ RefreshAgain
  /\ UNCHANGED <<gateway, lock, files, history>>

\* shutdown, while serve waits: the stop file is seen, or a signal comes.
StopFile(g) ==
  /\ stop
  /\ Goes(g, "discover", "drop") \/ Goes(g, "serving", "drop")
  /\ NoIndex
  /\ UNCHANGED <<lock, files, history>>

Signal(g) ==
  /\ Goes(g, "discover", "drop") \/ Goes(g, "serving", "drop")
  /\ NoIndex
  /\ UNCHANGED <<lock, files, history>>

\* Drop of Runtime: ready, stop and then the lock.
DropReady(g) ==
  /\ Goes(g, "drop", "unready")
  /\ ready' = FALSE
  /\ UNCHANGED <<lock, stop, list, tmp, history, index>>

DropStop(g) ==
  /\ Goes(g, "unready", "unlocking")
  /\ stop' = FALSE
  /\ UNCHANGED <<lock, ready, list, tmp, history, index>>

Unlock(g) ==
  /\ Goes(g, "unlocking", "exited")
  /\ lock' = Absent
  /\ UNCHANGED <<files, history, index>>

\* What is left of a process that is killed: the lock goes with it, the files stay.
Ends(g) ==
  /\ gateway' = [gateway EXCEPT ![g] = "exited"]
  /\ lock' = IF lock = g THEN Absent ELSE lock
  /\ IF lock = g THEN NoIndex ELSE UNCHANGED index

Kill(g) ==
  /\ ~At(g, "exited") /\ kills < MaxKills
  /\ kills' = kills + 1
  /\ Ends(g)
  /\ UNCHANGED <<files, asked, bound>>

Step(g) ==
  \/ Acquire(g) \/ RemoveStop(g) \/ RemoveReady(g) \/ Bind(g) \/ Ready(g) \/ Load(g)
  \/ Discover(g) \/ Built(g) \/ Store(g) \/ Write(g) \/ Rename(g) \/ Background(g)
  \/ StopFile(g) \/ Signal(g) \/ DropReady(g) \/ DropStop(g) \/ Unlock(g) \/ Kill(g)
============================================================================
