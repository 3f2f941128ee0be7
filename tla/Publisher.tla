----------------------------- MODULE Publisher -----------------------------
(***************************************************************************)
(* Publisher (iroh-mainline-endpoint-discovery/src/publisher.rs): the       *)
(* supervisor that runs the index keeper and one worker per registered     *)
(* infohash, and the workers, each of which announces its infohash on      *)
(* Mainline once an index server holds our record (announce_indexed of     *)
(* index_keeper.rs) and then sleeps until the next time.                   *)
(*                                                                         *)
(* The delays of a worker (the renewal with its jitter, the retry, the     *)
(* random restart) last any time. ANNOUNCE_SPACING only delays, too.       *)
(***************************************************************************)
EXTENDS IndexKeeper, FiniteSets

CONSTANTS Hash,    \* infohashes
          Permits  \* announcements under way at a time: 3 in State::run

ASSUME PermitsAssumption == Permits \in Nat \ {0}

VARIABLES
  entries,        \* State::entries
  notified,       \* the permit of State::notify
  spc,            \* where State::run is: not started, in the body of its loop, or in its select!
  seen,           \* its local `entries`, the snapshot, while in the body
  workers,        \* the worker of each infohash, or None
  recordsChanged, \* the supervisor has not seen the latest record
  done,           \* infohashes sent to the supervisor
  announced,      \* the supervisor's local of that name
  published,      \* State::published
  landed,         \* infohashes announced (history, see Supervise)
  quiet           \* the age of the last failed publication (history)

publisherVars == <<entries, notified, spc, seen, workers, recordsChanged, done, announced,
                   published, landed, quiet>>
vars == <<public, servers, stored, lost, changes, active, keeperVars, publisherVars>>

----------------------------------------------------------------------------
(* announce_indexed and repeat_announcement.                               *)

\* `current` is history: the worker waits without news, and our address is still the
\* one it saw.
WorkerStates ==
  [pc : {"pace", "closest", "announce", "waiting", "jitter", "sleep"}, news : BOOLEAN,
   waited : 0 .. RETRY, current : BOOLEAN]

ASSUME NoWorkerAssumption == None \notin WorkerStates

At(pc) == [pc |-> pc, news |-> FALSE, waited |-> 0, current |-> FALSE]

\* The states in which a worker still looks for news of the record.
Subscribed == {"closest", "waiting"}

Working(h, pcs) == workers[h] # None /\ workers[h].pc \in pcs

Become(h, pc) == workers' = [workers EXCEPT ![h] = At(pc)]

workerRest == <<public, servers, stored, lost, active, kpc, attempt, failed, kservers, record,
                activeChanged, serversChanged, entries, notified, spc, seen,
                recordsChanged, announced, published, quiet>>

PermitFree == Cardinality({k \in Hash : Working(k, {"closest", "announce"})}) < Permits

\* pace() returns with a permit. The subscription starts here, so that a record
\* published from now on wakes the worker.
Pace(h) ==
  /\ Working(h, {"pace"})
  /\ PermitFree
  /\ Become(h, "closest")
  /\ UNCHANGED <<workerRest, changes, reported, done, landed>>

\* closest() returned our address: report it, and announce or wait.
Closest(h) ==
  /\ Working(h, {"closest"})
  /\ report(public)
  /\ IF is_live(record, public)
     THEN Become(h, "announce")
     ELSE workers' = [workers EXCEPT ![h] = [pc |-> "waiting", news |-> workers[h].news,
                                             waited |-> workers[h].waited,
                                             current |-> ~workers[h].news]]
  /\ UNCHANGED <<workerRest, changes, done, landed>>

ClosestFailed(h) ==
  /\ Working(h, {"closest"})
  /\ Failure
  /\ Become(h, "sleep")
  /\ UNCHANGED <<workerRest, reported, done, landed>>

Announced(h) ==
  /\ Working(h, {"announce"})
  /\ Become(h, "sleep")
  /\ done' = done \cup {h}
  /\ landed' = landed \cup {h}
  /\ UNCHANGED <<workerRest, changes, reported>>

AnnounceFailed(h) ==
  /\ Working(h, {"announce"})
  /\ Failure
  /\ Become(h, "sleep")
  /\ UNCHANGED <<workerRest, reported, done, landed>>

\* The keeper published: start over, after a random delay if the wait was long.
Resume(h) ==
  /\ Working(h, {"waiting"}) /\ workers[h].news
  /\ Become(h, IF workers[h].waited >= RETRY THEN "jitter" ELSE "pace")
  /\ UNCHANGED <<workerRest, changes, reported, done, landed>>

\* A sleep ends: the random restart, the retry or the renewal.
Awake(h) ==
  /\ Working(h, {"jitter", "sleep"})
  /\ Become(h, "pace")
  /\ UNCHANGED <<workerRest, changes, reported, done, landed>>

Worker(h) == \/ Pace(h) \/ Closest(h) \/ ClosestFailed(h)
             \/ Announced(h) \/ AnnounceFailed(h) \/ Resume(h) \/ Awake(h)

----------------------------------------------------------------------------
(* Publisher and State::run.                                               *)

callRest == <<public, servers, stored, lost, active, keeperVars, spc, seen, workers,
              recordsChanged, done, announced, published, landed, quiet>>

\* Mutant: a registration that wakes nobody.
add_infohashSilently(h) ==
  /\ Change
  /\ h \notin entries
  /\ entries' = entries \cup {h}
  /\ UNCHANGED <<callRest, notified>>

add_infohash(h) ==
  /\ Change
  /\ h \notin entries
  /\ entries' = entries \cup {h}
  /\ notified' = TRUE
  /\ UNCHANGED callRest

remove_infohash(h) ==
  /\ Change
  /\ h \in entries
  /\ entries' = entries \ {h}
  /\ notified' = TRUE
  /\ UNCHANGED callRest

supervisorRest == <<public, servers, serversChanged, stored, lost, changes, kpc, attempt, failed,
                    kservers, record, reported, entries, quiet>>
selectRest == <<supervisorRest, active, activeChanged, workers, published, landed>>

\* The head of the loop: infohashes() under the lock. Calls come between this and the
\* rest of the loop's body; one between the end of the select! and this is as one before.
Snapshot == spc' = "turn" /\ seen' = entries

SuperviseStart ==
  /\ spc = "start" /\ Snapshot
  /\ UNCHANGED <<selectRest, notified, recordsChanged, done, announced>>

\* In the body of the loop, all of the snapshot is announced.
Publishes == seen # {} /\ seen \subseteq announced'

\* IndexKeeper::mapping
mapping == IF record = None THEN None ELSE record.mapping

\* Mutant: what was announced is kept when its infohash is removed.
SuperviseKeepsAnnounced ==
  /\ spc = "turn" /\ spc' = "select"
  /\ active' = (seen # {})
  /\ activeChanged' = (activeChanged \/ active' # active)
  /\ UNCHANGED announced
  /\ landed' = landed \cap (seen \cup done)
  /\ workers' = [h \in Hash |-> IF h \notin seen THEN None
                                ELSE IF workers[h] = None THEN At("pace") ELSE workers[h]]
  /\ published' = IF Publishes THEN mapping ELSE published
  /\ seen' = {}
  /\ UNCHANGED <<supervisorRest, notified, recordsChanged, done>>

\* The body of the loop, on the snapshot. A worker that is aborted may have left its
\* message in the channel: `landed` keeps what was announced by the worker that an
\* infohash has, or by an earlier one whose message is still to be read.
Supervise ==
  /\ spc = "turn" /\ spc' = "select"
  /\ active' = (seen # {})
  /\ activeChanged' = (activeChanged \/ active' # active)
  /\ announced' = announced \cap seen
  /\ landed' = landed \cap (seen \cup done)
  /\ workers' = [h \in Hash |-> IF h \notin seen THEN None
                                ELSE IF workers[h] = None THEN At("pace") ELSE workers[h]]
  /\ published' = IF Publishes THEN mapping ELSE published
  /\ seen' = {}
  /\ UNCHANGED <<supervisorRest, notified, recordsChanged, done>>

\* The branches of the select!, after which the loop starts over.
SuperviseNotified ==
  /\ spc = "select" /\ Snapshot
  /\ notified /\ notified' = FALSE
  /\ UNCHANGED <<selectRest, recordsChanged, done, announced>>

SuperviseRecord ==
  /\ spc = "select" /\ Snapshot
  /\ recordsChanged /\ recordsChanged' = FALSE
  /\ UNCHANGED <<selectRest, notified, done, announced>>

SuperviseAnnounced(h) ==
  /\ spc = "select" /\ Snapshot
  /\ h \in done
  /\ done' = done \ {h}
  /\ announced' = announced \cup {h}
  /\ UNCHANGED <<selectRest, notified, recordsChanged>>

Supervisor ==
  \/ SuperviseStart \/ Supervise
  \/ SuperviseNotified \/ SuperviseRecord \/ \E h \in Hash : SuperviseAnnounced(h)

----------------------------------------------------------------------------
(* The keeper's steps; send_replace wakes the subscribers.                 *)

keeperRest == <<public, servers, active, entries, notified, spc, seen, done,
                announced, published, landed>>

\* The keeper runs inside the supervisor's select!.
KeeperSteps ==
  /\ spc = "select"
  /\ \/ (KeeperLoop \/ KeeperActivated) /\ UNCHANGED serversChanged
     \/ KeeperCheck \/ KeeperWake
  /\ UNCHANGED <<keeperRest, stored, lost, changes, workers, recordsChanged, quiet>>

Publication ==
  /\ spc = "select"
  /\ \E m \in Socket : KeeperPublished(m)
  /\ recordsChanged' = TRUE
  /\ workers' = [h \in Hash |-> IF workers[h] = None THEN None
                                ELSE [workers[h] EXCEPT !.news = workers[h].pc \in Subscribed,
                                                   !.current = FALSE]]
  /\ quiet' = None
  /\ UNCHANGED <<keeperRest, changes, serversChanged>>

PublicationFailed ==
  /\ spc = "select"
  /\ \E m \in Socket : KeeperFailed(m)
  /\ quiet' = 0
  /\ UNCHANGED <<keeperRest, serversChanged, workers, recordsChanged>>

----------------------------------------------------------------------------
Surroundings ==
  /\ \/ /\ \E a \in Address : MoveAddress(a)
        /\ workers' = [h \in Hash |-> IF workers[h] = None THEN None
                                      ELSE [workers[h] EXCEPT !.current = FALSE]]
     \/ (\E S \in ServerLists : ChangeServers(S)) /\ UNCHANGED workers
     \/ (\E s \in Server : LoseCopies(s)) /\ UNCHANGED workers
  /\ UNCHANGED <<active, activeChanged, kpc, attempt, failed, kservers, record, reported, entries,
                 notified, spc, seen, recordsChanged, done, announced, published, landed, quiet>>

\* A task has something to do at once: a tick is longer than the spacing and the
\* random restart of announcements.
Runnable ==
  \/ KeeperRunnable
  \/ spc # "select" \/ notified \/ recordsChanged \/ done # {}
  \/ \E h \in Hash : \/ Working(h, {"closest", "jitter"})
                     \/ Working(h, {"pace"}) /\ PermitFree
                     \/ Working(h, {"waiting"}) /\ workers[h].news

Tick ==
  /\ Prompt => ~Runnable
  /\ AgeKeeper
  /\ workers' = [h \in Hash |-> IF ~Working(h, {"waiting"}) THEN workers[h]
                                ELSE [workers[h] EXCEPT !.waited = Capped(workers[h].waited + 1, RETRY)]]
  /\ quiet' = Aged(quiet, RETRY)
  /\ UNCHANGED <<public, servers, serversChanged, changes, active, activeChanged, kpc, kservers,
                 reported, entries, notified, spc, seen, recordsChanged, done, announced,
                 published, landed>>

Init ==
  /\ KeeperInit
  /\ entries = {} /\ notified = FALSE
  /\ spc = "start" /\ seen = {}
  /\ workers = [h \in Hash |-> None]
  /\ recordsChanged = FALSE
  /\ done = {} /\ announced = {} /\ landed = {}
  /\ published = None
  /\ quiet = None

Next ==
  \/ KeeperSteps \/ Publication \/ PublicationFailed
  \/ \E h \in Hash : Worker(h) \/ add_infohash(h) \/ remove_infohash(h)
  \/ Supervisor
  \/ Surroundings
  \/ Tick

\* Tasks run, calls to the index and to Mainline return, and time passes. The permits of
\* announcements and the channel to the supervisor are queues, and select! picks at
\* random among the branches that are ready: each waiter gets its turn.
Fairness ==
  /\ SF_vars(Tick)
  /\ WF_vars(KeeperSteps \/ Publication)
  /\ WF_vars(SuperviseStart \/ Supervise \/ SuperviseNotified \/ SuperviseRecord)
  /\ \A h \in Hash : /\ WF_vars(Closest(h) \/ Announced(h) \/ Resume(h) \/ Awake(h))
                     /\ SF_vars(Pace(h)) /\ SF_vars(SuperviseAnnounced(h))

Spec == Init /\ [][Next]_vars /\ Fairness

----------------------------------------------------------------------------
\* The variables have their Rust types, moments being ages.
TypeOK ==
  /\ public \in Address /\ servers \in ServerLists /\ kservers \subseteq Server
  /\ stored \in [Server -> [Socket -> 0 .. INDEX_TTL - 1 \cup {None}]]
  /\ lost \subseteq Server \X Socket
  /\ changes \in 0 .. MaxChanges
  /\ {serversChanged, active, activeChanged, reported, notified, recordsChanged}
       \subseteq BOOLEAN
  /\ kpc \in {"loop", "inactive", "address", "publish", "select"}
  /\ IF kpc = "publish" THEN attempt \in Attempts ELSE attempt = None
  /\ {failed, quiet} \subseteq 0 .. RETRY \cup {None}
  /\ record \in Records \cup {None}
  /\ spc \in {"start", "turn", "select"} /\ seen \subseteq Hash
  /\ entries \subseteq Hash /\ done \subseteq Hash /\ announced \subseteq Hash /\ landed \subseteq Hash
  /\ workers \in [Hash -> WorkerStates \cup {None}]
  /\ published \in Socket \cup {None}

\* Whenever the keeper still counts its record as live, some server holds the copy
\* under the record's mapping, or has lost it before its time, by a restart or an
\* eviction, of which the keeper cannot know. No copy is dropped for its age behind
\* the keeper's back: the keeper's clock for the record, taken before the publication,
\* runs ahead of the server's, whatever a later attempt does.
LiveRecordIsHeldOrLost ==
  record # None /\ record.at < INDEX_TTL =>
    \E s \in Server : Holds(s, record.mapping) \/ <<s, record.mapping>> \in lost

\* "A failed attempt is retried after RETRY, and no trigger makes it try sooner"
\* (index_keeper.rs:66): not a report, not other servers, not a pause and restart.
RetriesKeepTheirDistance ==
  [][kpc # "publish" /\ kpc' = "publish" => quiet \in {None, RETRY}]_vars

\* A worker that waits at the address Mainline still sees us at is not left to the
\* half-hourly refresh: while the keeper sleeps without a report and without a
\* failure to retry, its record is for that address. No report is lost between the
\* keeper's reading of the address, its publication and its select!.
AddressReachesKeeper ==
  kpc = "select" /\ ~reported /\ failed = None =>
    \A h \in Hash : Working(h, {"waiting"}) /\ workers[h].current =>
      record # None /\ record.public = public

\* What wait_published waits for (publisher.rs:149) is sent only with the socket of a
\* record, and only after every infohash of the supervisor's snapshot was announced: by
\* the worker it has, or by one it had when it was registered before, if the message of
\* that one was still in the channel when the supervisor saw it removed.
PublishedMeansAnnounced ==
  [][Supervise /\ Publishes => published' # None /\ seen \subseteq landed]_vars

\* A registered infohash is announced, or removed again, whatever addresses,
\* servers, failures and wakeups come in between, once these settle.
EveryHashIsAnnounced ==
  \A h \in Hash : h \in entries ~> (h \in announced \/ h \notin entries)

\* "Returns whether a server in use holds our record" (index_keeper.rs:88): once the
\* keeper has seen which servers are in use, an announcement goes ahead only if one
\* of them stored the record the keeper published, whether or not it has lost it since.
GoesAheadOnlyIfHeld ==
  [][\A h \in Hash :
       (/\ kservers = servers
        /\ Working(h, {"closest"})
        /\ workers'[h] # None /\ workers'[h].pc = "announce") =>
            \E s \in servers : stored[s][record.mapping] # None]_vars

\* "After a failure the record is due already, so only the backoff decides when to
\* try again; waking for the refresh would spin" (index_keeper.rs:172): the keeper
\* does not go to sleep on a timer that has already passed.
NeverSpins == [][kpc # "select" /\ kpc' = "select" => ~TimerDue']_vars
============================================================================
