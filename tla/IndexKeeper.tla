---------------------------- MODULE IndexKeeper ----------------------------
(***************************************************************************)
(* The task that keeps one endpoint record on the address-index servers    *)
(* (iroh-mainline-endpoint-discovery/src/index_keeper.rs), and its         *)
(* surroundings: the address Mainline sees us at, the servers that         *)
(* discovery names, and the copies that the servers store, which a server  *)
(* may lose before their time: it restarts with an empty store, or evicts. *)
(*                                                                         *)
(* Time has no origin. A moment is kept as its age, which Age advances and  *)
(* caps once it no longer makes a difference; so time is unbounded and     *)
(* there are finitely many states. The keeper's `kpc` is the await it is    *)
(* suspended at; what it does between two awaits is one step.              *)
(***************************************************************************)
EXTENDS Integers

CONSTANTS
  Address,       \* public addresses that Mainline may report (or no address)
  Socket,        \* sockets that index servers may see us at
  Server,        \* index servers
  ServerLists,   \* the sets of servers that discovery may find
  INDEX_REFRESH,
  INDEX_TTL,
  RETRY,
  PublishSecs,   \* bound: how long a publication takes
  MaxChanges,    \* bound: changes of address, servers, registrations and losses
  Settles,       \* whether failures count as changes
  Prompt,        \* whether time stands still while a task has something to do
  None

ASSUME PeriodsAssumption ==
  /\ INDEX_REFRESH \in Nat /\ INDEX_TTL \in Nat /\ RETRY \in Nat /\ PublishSecs \in Nat
  /\ INDEX_REFRESH < INDEX_TTL /\ PublishSecs <= RETRY /\ RETRY <= INDEX_REFRESH
ASSUME FoundAssumption == ServerLists \subseteq SUBSET Server
ASSUME ChangesAssumption == MaxChanges \in Nat /\ {Settles, Prompt} \subseteq BOOLEAN

VARIABLES
  public,         \* the address Mainline sees us at
  servers,        \* the servers in use: the watch channel of AddrIndex
  serversChanged, \* the keeper has not seen the latest of them
  stored,         \* the age of what each server stored of us, by socket, until INDEX_TTL
  lost,           \* the copies among these that a server no longer has
  changes,        \* changes of the surroundings so far
  active,         \* the watch channel State::active
  activeChanged,  \* the keeper has not seen its latest value
  kpc,            \* where the keeper is suspended
  attempt,        \* its locals across publish(): public, servers, the age of `now`
  failed,         \* the age of the failure it backs off from
  kservers,       \* IndexKeeper::servers
  record,         \* IndexKeeper::record
  reported        \* the permit of IndexKeeper::reported

envVars == <<public, servers, serversChanged, stored, lost, changes>>
keeperVars == <<kpc, attempt, failed, kservers, record, reported, activeChanged, serversChanged>>

Records == [public : Address, mapping : Socket, servers : SUBSET Server, at : 0 .. INDEX_TTL]
Attempts == [public : Address, servers : SUBSET Server, now : 0 .. PublishSecs]

ASSUME NoneAssumption == None \notin Nat \cup Socket \cup Records \cup Attempts

Capped(n, cap) == IF n > cap THEN cap ELSE n

Aged(age, cap) == IF age = None THEN None ELSE Capped(age + 1, cap)

\* Server s holds a copy of our record under socket m.
Holds(s, m) == stored[s][m] # None /\ <<s, m>> \notin lost

\* Record::is_live. Two empty sets of servers are equal, and count.
is_live(r, addr) ==
  /\ r # None
  /\ r.public = addr
  /\ r.servers = kservers \/ r.servers \cap kservers # {}
  /\ r.at < INDEX_TTL

\* Mutant: an address that the record is not for goes unreported.
reportNothing(addr) == UNCHANGED reported

report(addr) ==
  reported' = (reported \/ record = None \/ record.public # addr)

----------------------------------------------------------------------------
(* IndexKeeper::run.                                                       *)

\* The head of the loop: an inactive keeper waits for `active` to change.
KeeperLoop ==
  /\ kpc = "loop"
  /\ activeChanged' = FALSE
  /\ kpc' = IF active THEN "address" ELSE "inactive"
  /\ UNCHANGED <<attempt, failed, kservers, record, reported>>

KeeperActivated ==
  /\ kpc = "inactive" /\ activeChanged
  /\ activeChanged' = FALSE
  /\ kpc' = "loop"
  /\ UNCHANGED <<attempt, failed, kservers, record, reported>>

IsDue(addr) ==
  \/ record = None
  \/ record.servers # servers \/ record.public # addr \/ record.at >= INDEX_REFRESH

BackingOff == failed # None /\ failed < RETRY

\* Mutant: any trigger makes a failed publication try again.
KeeperCheckEagerly ==
  /\ kpc = "address"
  /\ serversChanged' = FALSE
  /\ kservers' = servers
  /\ IF IsDue(public)
     THEN kpc' = "publish" /\ attempt' = [public |-> public, servers |-> servers, now |-> 0]
     ELSE kpc' = "select" /\ UNCHANGED attempt
  /\ UNCHANGED <<failed, record, reported, activeChanged>>

\* address() has returned: take the servers, and publish if that is due.
KeeperCheck ==
  /\ kpc = "address"
  /\ serversChanged' = FALSE
  /\ kservers' = servers
  /\ IF IsDue(public) /\ ~BackingOff
     THEN kpc' = "publish" /\ attempt' = [public |-> public, servers |-> servers, now |-> 0]
     ELSE kpc' = "select" /\ UNCHANGED attempt
  /\ UNCHANGED <<failed, record, reported, activeChanged>>

Change == changes < MaxChanges /\ changes' = changes + 1

Failure == IF Settles THEN Change ELSE UNCHANGED changes

\* What a publication leaves on servers, at some moment since it started. The
\* client asks the servers that it has when it gets the call: the ones the keeper
\* saw, or newer ones (AddrIndex::refresh sets them before the watch channel).
StoredOn(S, socket) ==
  /\ S \subseteq attempt.servers \/ S \subseteq servers
  /\ \E age \in 0 .. attempt.now :
       stored' = [s \in Server |-> IF s \in S THEN [stored[s] EXCEPT ![socket] = age]
                                              ELSE stored[s]]
  /\ lost' = lost \ (S \X {socket})

\* Mutant: the record counts from the end of its publication.
KeeperPublishedLate(socket) ==
  /\ kpc = "publish"
  /\ \E S \in (SUBSET Server) \ {{}} : StoredOn(S, socket)
  /\ record' = [public |-> attempt.public, mapping |-> socket,
                servers |-> attempt.servers, at |-> 0]
  /\ failed' = None
  /\ attempt' = None
  /\ kpc' = "select"
  /\ UNCHANGED <<kservers, reported, activeChanged>>

\* publish() returned Ok: at least one server stored the record. It is counted from
\* the moment before the attempt.
KeeperPublished(socket) ==
  /\ kpc = "publish"
  /\ \E S \in (SUBSET Server) \ {{}} : StoredOn(S, socket)
  /\ record' = [public |-> attempt.public, mapping |-> socket,
                servers |-> attempt.servers, at |-> attempt.now]
  /\ failed' = None
  /\ attempt' = None
  /\ kpc' = "select"
  /\ UNCHANGED <<kservers, reported, activeChanged>>

\* publish() returned Err. Servers may have stored the record all the same: their
\* answers were lost or late.
KeeperFailed(socket) ==
  /\ kpc = "publish"
  /\ Failure
  /\ \E S \in SUBSET Server : StoredOn(S, socket)
  /\ failed' = 0
  /\ attempt' = None
  /\ kpc' = "select"
  /\ UNCHANGED <<kservers, record, reported, activeChanged>>

\* The deadline of the select has passed: failed + RETRY, or else the refresh.
TimerDue ==
  IF failed # None THEN failed >= RETRY
  ELSE record # None /\ record.at >= INDEX_REFRESH

\* The keeper has something to do. (Waking on a timer with nothing due is no reason
\* for time to stand still.)
KeeperRunnable ==
  \/ kpc \in {"loop", "address"}
  \/ kpc = "inactive" /\ activeChanged
  \/ kpc = "select" /\ (reported \/ serversChanged \/ activeChanged \/ (TimerDue /\ IsDue(public)))

\* Mutant: the refresh publishes at once, without asking for the address and servers.
KeeperWakeRepublishes ==
  /\ kpc = "select"
  /\ TimerDue
  /\ kpc' = "publish"
  /\ UNCHANGED <<attempt, failed, kservers, record, reported, serversChanged, activeChanged>>

\* The select! over the report, the servers, the activity and the timer.
KeeperWake ==
  /\ kpc = "select"
  /\ \/ /\ reported /\ reported' = FALSE
        /\ UNCHANGED <<serversChanged, activeChanged>>
     \/ /\ serversChanged /\ serversChanged' = FALSE
        /\ UNCHANGED <<reported, activeChanged>>
     \/ /\ activeChanged /\ activeChanged' = FALSE
        /\ UNCHANGED <<reported, serversChanged>>
     \/ /\ TimerDue
        /\ UNCHANGED <<reported, serversChanged, activeChanged>>
  /\ kpc' = "loop"
  /\ UNCHANGED <<attempt, failed, kservers, record>>

----------------------------------------------------------------------------
(* The surroundings.                                                       *)

\* Mainline sees us at another address.
MoveAddress(addr) ==
  /\ Change
  /\ addr # public
  /\ public' = addr
  /\ UNCHANGED <<servers, serversChanged, stored, lost>>

\* Discovery names other servers; send_if_modified.
ChangeServers(S) ==
  /\ Change
  /\ S # servers
  /\ servers' = S
  /\ serversChanged' = TRUE
  /\ UNCHANGED <<public, stored, lost>>

\* Server s restarts, with an empty store, or evicts one of our copies from a full
\* one. The keeper learns of neither.
LoseCopies(s) ==
  /\ Change
  /\ \E M \in {Socket} \cup {{m} : m \in Socket} :
       /\ \E m \in M : Holds(s, m)
       /\ lost' = lost \cup {<<s, m>> : m \in {k \in M : stored[s][k] # None}}
  /\ UNCHANGED <<public, servers, serversChanged, stored>>

\* A moment passes for the keeper and for the servers, which drop a copy that is
\* INDEX_TTL old.
AgeKeeper ==
  /\ attempt # None => attempt.now < PublishSecs
  /\ attempt' = IF attempt = None THEN None ELSE [attempt EXCEPT !.now = attempt.now + 1]
  /\ failed' = Aged(failed, RETRY)
  /\ record' = IF record = None THEN None
                ELSE [record EXCEPT !.at = Capped(record.at + 1, INDEX_TTL)]
  /\ stored' = [s \in Server |-> [m \in Socket |->
                  IF stored[s][m] = None \/ stored[s][m] + 1 >= INDEX_TTL
                  THEN None ELSE stored[s][m] + 1]]
  /\ lost' = {p \in lost : stored'[p[1]][p[2]] # None}

KeeperInit ==
  /\ public \in Address
  /\ servers \in ServerLists
  /\ serversChanged = FALSE
  /\ stored = [s \in Server |-> [m \in Socket |-> None]]
  /\ lost = {}
  /\ changes = 0
  /\ active = FALSE /\ activeChanged = FALSE
  /\ kpc = "loop"
  /\ attempt = None
  /\ failed = None
  /\ kservers = {}
  /\ record = None
  /\ reported = FALSE
============================================================================
