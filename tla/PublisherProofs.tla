-------------------------- MODULE PublisherProofs --------------------------
(***************************************************************************)
(* Proofs about Publisher: what the keeper's record promises, its backoff,  *)
(* the report of our address and wait_published, for every set of          *)
(* infohashes, servers and addresses, and for all delays.                  *)
(***************************************************************************)
EXTENDS Publisher, TLAPS

----------------------------------------------------------------------------
(* The inductive invariant.                                                *)

\* The record's clock was started before the copies were stored: some server stored a copy
\* that is not older than the record, so that it has not dropped it for its age. So does the
\* attempt under way: whatever it stores, also if it fails, is not older than the record it
\* would replace.
HeldSince ==
  /\ record # None /\ record.at < INDEX_TTL =>
       \E s \in Server : /\ stored[s][record.mapping] # None
                         /\ stored[s][record.mapping] <= record.at
  /\ record # None /\ attempt # None => attempt.now <= record.at

\* The keeper backs off from the last failure.
BacksOff == quiet = failed

\* What the keeper will still do about the address it is seen at.
Attends ==
  \/ reported \/ failed # None \/ kpc \in {"loop", "inactive", "address"}
  \/ attempt # None /\ attempt.public = public
  \/ record # None /\ record.public = public

Unanswered(w) == w # None /\ w.current

Attended == \A h \in Hash : Unanswered(workers[h]) => Attends

\* What the supervisor hears of was announced, and nothing is without a record.
Told ==
  /\ done \subseteq landed /\ announced \subseteq landed
  /\ landed # {} \/ (\E h \in Hash : Working(h, {"announce"})) => record # None

IInv == TypeOK /\ HeldSince /\ BacksOff /\ Attended /\ Told

----------------------------------------------------------------------------
(* The states of a worker.                                                 *)

PCs == {"pace", "closest", "announce", "waiting", "jitter", "sleep"}

LEMMA AtIsWorker ==
  ASSUME NEW pc \in PCs
  PROVE  At(pc) \in WorkerStates /\ At(pc) # None /\ ~Unanswered(At(pc))
<1>1. At(pc) \in WorkerStates /\ ~At(pc).current
  BY PeriodsAssumption DEF At, WorkerStates, PCs
<1> QED
  BY <1>1, NoWorkerAssumption DEF Unanswered

LEMMA WorkerNews ==
  ASSUME NEW w \in WorkerStates, NEW b \in BOOLEAN
  PROVE  /\ [w EXCEPT !.news = b, !.current = FALSE] \in WorkerStates
         /\ [w EXCEPT !.news = b, !.current = FALSE].pc = w.pc
         /\ ~Unanswered([w EXCEPT !.news = b, !.current = FALSE])
BY DEF WorkerStates, Unanswered

LEMMA WorkerMoved ==
  ASSUME NEW w \in WorkerStates
  PROVE  /\ [w EXCEPT !.current = FALSE] \in WorkerStates
         /\ [w EXCEPT !.current = FALSE].pc = w.pc
         /\ ~Unanswered([w EXCEPT !.current = FALSE])
BY DEF WorkerStates, Unanswered

LEMMA WorkerWaits ==
  ASSUME NEW w \in WorkerStates
  PROVE  /\ [w EXCEPT !.waited = Capped(w.waited + 1, RETRY)] \in WorkerStates
         /\ [w EXCEPT !.waited = Capped(w.waited + 1, RETRY)].pc = w.pc
         /\ [w EXCEPT !.waited = Capped(w.waited + 1, RETRY)].news = w.news
         /\ [w EXCEPT !.waited = Capped(w.waited + 1, RETRY)].current = w.current
<1>1. Capped(w.waited + 1, RETRY) \in 0 .. RETRY
  BY PeriodsAssumption DEF WorkerStates, Capped
<1> HIDE DEF Capped
<1> QED
  BY <1>1 DEF WorkerStates

\* What a step does to one worker: it keeps its type, and it waits for an answer only if
\* it did before, at the same address, or has just reported the address.
LEMMA WorkerStep ==
  ASSUME TypeOK, [Next]_vars, NEW h \in Hash
  PROVE  /\ workers'[h] \in WorkerStates \cup {None}
         /\ Unanswered(workers'[h]) => \/ Closest(h)
                                       \/ Unanswered(workers[h]) /\ public' = public
         /\ Publication => ~Unanswered(workers'[h])
<1> DEFINE w == workers[h]
<1>0. w \in WorkerStates \cup {None} /\ workers \in [Hash -> WorkerStates \cup {None}] /\ ~Unanswered(None)
  BY DEF TypeOK, Unanswered
<1>1. ASSUME Publication PROVE workers'[h] \in WorkerStates \cup {None} /\ ~Unanswered(workers'[h])
  <2> DEFINE n == (w.pc \in Subscribed)
             x == [w EXCEPT !.news = n, !.current = FALSE]
  <2>1. workers'[h] = IF w = None THEN None ELSE x
    BY <1>1 DEF Publication
  <2>2. w # None => x \in WorkerStates /\ ~Unanswered(x)
    <3>1. n \in BOOLEAN
      OBVIOUS
    <3> HIDE DEF n
    <3> QED
      BY <1>0, <3>1, WorkerNews
  <2> HIDE DEF x
  <2> QED
    BY <1>0, <2>1, <2>2
<1>2. ASSUME NEW g \in Hash, Worker(g)
      PROVE  /\ workers'[h] \in WorkerStates \cup {None}
             /\ Unanswered(workers'[h]) => Closest(h) \/ (Unanswered(w) /\ public' = public)
  <2>1. public' = public
    BY <1>2 DEF Worker, Pace, Closest, ClosestFailed, Announced, AnnounceFailed, Resume, Awake, workerRest
  <2>2. CASE \E pc \in PCs : Become(g, pc)
    <3>1. PICK pc \in PCs : Become(g, pc)
      BY <2>2
    <3>2. workers'[h] = IF g = h THEN At(pc) ELSE w
      BY <3>1, <1>0 DEF Become
    <3> QED
      BY <3>2, <1>0, <2>1, AtIsWorker
  <2>3. CASE Closest(g) /\ ~Become(g, "announce")
    <3> DEFINE x == [pc |-> "waiting", news |-> workers[g].news, waited |-> workers[g].waited,
                     current |-> ~workers[g].news]
    <3>1. workers[g] \in WorkerStates /\ workers' = [workers EXCEPT ![g] = x]
      BY <2>3, <1>0 DEF Closest, Working
    <3>2. x \in WorkerStates
      BY <3>1 DEF WorkerStates
    <3>3. workers'[h] = IF g = h THEN x ELSE w
      <4> HIDE DEF x
      <4> QED
        BY <3>1, <1>0
    <3> QED
      BY <3>2, <3>3, <1>0, <2>1, <2>3
  <2> QED
    BY <1>2, <2>2, <2>3 DEF Worker, Pace, Closest, ClosestFailed, Announced, AnnounceFailed, Resume, Awake, PCs
<1>3. ASSUME Supervisor
      PROVE  /\ workers'[h] \in WorkerStates \cup {None} /\ public' = public
             /\ Unanswered(workers'[h]) => Unanswered(w)
  <2>2. workers'[h] \in {None, At("pace"), w} /\ public' = public
    BY <1>3 DEF Supervisor, SuperviseStart, SuperviseNotified, SuperviseRecord, SuperviseAnnounced, Supervise,
                          Snapshot, selectRest, supervisorRest
  <2> QED
    BY <2>2, <1>0, AtIsWorker DEF PCs
<1>4. ASSUME Surroundings
      PROVE  /\ workers'[h] \in WorkerStates \cup {None}
             /\ Unanswered(workers'[h]) => Unanswered(w) /\ public' = public
  <2>1. \/ workers'[h] = w /\ public' = public
        \/ w # None /\ workers'[h] = [w EXCEPT !.current = FALSE]
        \/ w = None /\ workers'[h] = None
    BY <1>4 DEF Surroundings, ChangeServers, LoseCopies
  <2> QED
    BY <2>1, <1>0, WorkerMoved
<1>5. ASSUME Tick
      PROVE  /\ workers'[h] \in WorkerStates \cup {None} /\ public' = public
             /\ Unanswered(workers'[h]) => Unanswered(w)
  <2> DEFINE x == [w EXCEPT !.waited = Capped(w.waited + 1, RETRY)]
  <2>1. workers'[h] = w \/ (w # None /\ workers'[h] = x)
    BY <1>5 DEF Tick, Working
  <2>2. w # None => x \in WorkerStates /\ (Unanswered(x) => Unanswered(w))
    <3> SUFFICES ASSUME w # None PROVE x \in WorkerStates /\ (Unanswered(x) => Unanswered(w))
      OBVIOUS
    <3>1. x \in WorkerStates /\ x.pc = w.pc /\ x.news = w.news /\ x.current = w.current
      BY <1>0, WorkerWaits
    <3> HIDE DEF x
    <3> QED
      BY <3>1 DEF Unanswered
  <2> QED
    BY <2>1, <2>2, <1>0, <1>5 DEF Tick
<1>6. ASSUME KeeperSteps \/ PublicationFailed \/ UNCHANGED vars
               \/ \E g \in Hash : add_infohash(g) \/ remove_infohash(g)
      PROVE  workers' = workers /\ public' = public
  BY <1>6 DEF KeeperSteps, PublicationFailed, add_infohash, remove_infohash, callRest, keeperRest, vars,
              publisherVars
<1> QED
  BY <1>0, <1>1, <1>2, <1>3, <1>4, <1>5, <1>6 DEF Next

LEMMA WorkersStep ==
  ASSUME TypeOK, [Next]_vars
  PROVE  workers' \in [Hash -> WorkerStates \cup {None}]
<1> DEFINE IsMap(f) == f = [h \in Hash |-> f[h]]
<1>1. IsMap(workers')
  <2>0. workers \in [Hash -> WorkerStates \cup {None}]
    BY DEF TypeOK
  <2>1. ASSUME NEW g \in Hash, Worker(g) PROVE IsMap(workers')
    <3>1. \E x : workers' = [workers EXCEPT ![g] = x]
      BY <2>1 DEF Worker, Pace, Closest, ClosestFailed, Announced, AnnounceFailed, Resume, Awake, Become
    <3> QED
      BY <3>1, <2>0
  <2>2. ASSUME Supervisor PROVE IsMap(workers')
    BY <2>2, <2>0 DEF Supervisor, SuperviseStart, SuperviseNotified, SuperviseRecord, SuperviseAnnounced, Supervise,
                      Snapshot, selectRest, supervisorRest
  <2>3. ASSUME Tick PROVE IsMap(workers')
    BY <2>3 DEF Tick
  <2>4. ASSUME Publication PROVE IsMap(workers')
    BY <2>4 DEF Publication
  <2>5. ASSUME Surroundings PROVE IsMap(workers')
    BY <2>5, <2>0 DEF Surroundings
  <2>6. ASSUME KeeperSteps \/ PublicationFailed \/ UNCHANGED vars
                 \/ \E g \in Hash : add_infohash(g) \/ remove_infohash(g)
        PROVE  IsMap(workers')
    BY <2>6, <2>0 DEF KeeperSteps, PublicationFailed, add_infohash, remove_infohash, callRest, vars, publisherVars
  <2> QED
    BY <2>1, <2>2, <2>3, <2>4, <2>5, <2>6 DEF Next
<1>2. \A h \in Hash : workers'[h] \in WorkerStates \cup {None}
  BY WorkerStep
<1> QED
  BY <1>1, <1>2
----------------------------------------------------------------------------
(* The keeper.                                                             *)

\* The keeper's own state changes with its own steps and with time.
Core == <<stored, kpc, attempt, failed, kservers, record, quiet>>

LEMMA CoreFrame ==
  ASSUME [Next]_vars
  PROVE  KeeperSteps \/ Publication \/ PublicationFailed \/ Tick \/ UNCHANGED Core
<1>1. ASSUME NEW h \in Hash, Worker(h) PROVE UNCHANGED Core
  BY <1>1 DEF Worker, Pace, Closest, ClosestFailed, Announced, AnnounceFailed, Resume, Awake, workerRest, Core
<1>2. ASSUME NEW h \in Hash, add_infohash(h) \/ remove_infohash(h) PROVE UNCHANGED Core
  BY <1>2 DEF add_infohash, remove_infohash, callRest, keeperVars, Core
<1>3. ASSUME Supervisor PROVE UNCHANGED Core
  BY <1>3 DEF Supervisor, SuperviseStart, SuperviseNotified, SuperviseRecord, SuperviseAnnounced, Supervise,
              Snapshot, selectRest, supervisorRest, Core
<1>4. ASSUME Surroundings PROVE UNCHANGED Core
  BY <1>4 DEF Surroundings, MoveAddress, ChangeServers, LoseCopies, Core
<1>5. ASSUME UNCHANGED vars PROVE UNCHANGED Core
  BY <1>5 DEF vars, keeperVars, publisherVars, Core
<1> QED
  BY <1>1, <1>2, <1>3, <1>4, <1>5 DEF Next

KPCs == {"loop", "inactive", "address", "publish", "select"}
Age(cap) == 0 .. cap \cup {None}
Copies == 0 .. INDEX_TTL - 1 \cup {None}

\* The part of TypeOK that is about the keeper.
KeeperTypes ==
  /\ public \in Address /\ servers \in SUBSET Server /\ kservers \in SUBSET Server
  /\ stored \in [Server -> [Socket -> Copies]]
  /\ kpc \in KPCs
  /\ (kpc = "publish" /\ attempt \in Attempts) \/ (kpc # "publish" /\ attempt = None)
  /\ failed \in Age(RETRY) /\ record \in Records \cup {None}

LEMMA TypesOfKeeper == TypeOK => KeeperTypes
BY FoundAssumption DEF TypeOK, KeeperTypes, KPCs, Age, Copies

\* The servers S hold a copy under socket m that is not older than the attempt.
Copied(S, m) ==
  \E age \in 0 .. attempt.now : \A s \in Server, k \in Socket :
    stored'[s][k] = IF s \in S /\ k = m THEN age ELSE stored[s][k]

\* A publication leaves copies that are not older than the attempt.
LEMMA StoredOnCopies ==
  ASSUME KeeperTypes, kpc = "publish", NEW S \in SUBSET Server, NEW m \in Socket, StoredOn(S, m)
  PROVE  /\ stored' \in [Server -> [Socket -> Copies]]
         /\ Copied(S, m)
<1>1. attempt \in Attempts /\ attempt.now \in 0 .. PublishSecs
  BY DEF KeeperTypes, Attempts
<1>2. PICK age \in 0 .. attempt.now :
        stored' = [s \in Server |-> IF s \in S THEN [stored[s] EXCEPT ![m] = age] ELSE stored[s]]
  BY DEF StoredOn
<1>3. age \in Copies
  BY <1>1, PeriodsAssumption DEF Copies
<1>4. \A s \in Server : stored[s] \in [Socket -> Copies]
  BY DEF KeeperTypes
<1>5. \A s \in Server : [stored[s] EXCEPT ![m] = age] \in [Socket -> Copies]
  BY <1>3, <1>4
<1>6. \A s \in Server, k \in Socket :
        stored'[s][k] = IF s \in S /\ k = m THEN age ELSE stored[s][k]
  BY <1>2, <1>4
<1> QED
  BY <1>2, <1>4, <1>5, <1>6 DEF Copied

\* A moment later, a record, an attempt and the copies are a moment older.
LEMMA AgeCopies ==
  ASSUME KeeperTypes, AgeKeeper
  PROVE  /\ stored' \in [Server -> [Socket -> Copies]]
         /\ \A s \in Server, m \in Socket :
              stored[s][m] # None /\ stored[s][m] + 1 < INDEX_TTL => stored'[s][m] = stored[s][m] + 1
<1>1. \A s \in Server, m \in Socket :
        stored'[s][m] = IF stored[s][m] = None \/ stored[s][m] + 1 >= INDEX_TTL THEN None ELSE stored[s][m] + 1
  BY DEF AgeKeeper
<1>2. \A s \in Server, m \in Socket : stored[s][m] \in Copies
  BY DEF KeeperTypes
<1>3. \A s \in Server, m \in Socket : stored'[s][m] \in Copies
  BY <1>1, <1>2, PeriodsAssumption, NoneAssumption DEF Copies
<1>4. stored' = [s \in Server |-> [m \in Socket |-> stored'[s][m]]]
  BY DEF AgeKeeper
<1>5. stored' \in [Server -> [Socket -> Copies]]
  BY <1>3, <1>4
<1>6. ASSUME NEW s \in Server, NEW m \in Socket, stored[s][m] # None, stored[s][m] + 1 < INDEX_TTL
      PROVE  stored'[s][m] = stored[s][m] + 1
  BY <1>1, <1>2, <1>6, PeriodsAssumption DEF Copies
<1> QED
  BY <1>5, <1>6

LEMMA AgeRecord ==
  ASSUME KeeperTypes, AgeKeeper
  PROVE  /\ (record = None /\ record' = None)
              \/ \E r \in Records : /\ record # None /\ record' = r /\ r.mapping = record.mapping
                                    /\ r.public = record.public
                                    /\ r.at = Capped(record.at + 1, INDEX_TTL)
         /\ (attempt = None /\ attempt' = None)
              \/ \E t \in Attempts : /\ attempt # None /\ attempt' = t /\ t.public = attempt.public
                                     /\ t.now = attempt.now + 1
<1>1. ASSUME record # None
      PROVE  \E r \in Records : /\ record # None /\ record' = r /\ r.mapping = record.mapping
                                /\ r.public = record.public
                                /\ r.at = Capped(record.at + 1, INDEX_TTL)
  <2> DEFINE c == Capped(record.at + 1, INDEX_TTL)
  <2>1. record \in Records
    BY <1>1 DEF KeeperTypes
  <2>2. c \in 0 .. INDEX_TTL
    BY <2>1, PeriodsAssumption DEF Capped, Records
  <2>3. record' = [record EXCEPT !.at = c]
    BY <1>1 DEF AgeKeeper
  <2> HIDE DEF c
  <2>4. [record EXCEPT !.at = c] \in Records
    BY <2>1, <2>2 DEF Records
  <2>5. /\ [record EXCEPT !.at = c].mapping = record.mapping
        /\ [record EXCEPT !.at = c].public = record.public
        /\ [record EXCEPT !.at = c].at = c
    BY <2>1 DEF Records
  <2> QED
    BY <1>1, <2>3, <2>4, <2>5 DEF c
<1>2. ASSUME attempt # None
      PROVE  \E t \in Attempts : /\ attempt # None /\ attempt' = t /\ t.public = attempt.public
                                 /\ t.now = attempt.now + 1
  <2> DEFINE c == attempt.now + 1
  <2>1. attempt \in Attempts
    BY <1>2 DEF KeeperTypes
  <2>2. c \in 0 .. PublishSecs
    BY <1>2, <2>1, PeriodsAssumption DEF AgeKeeper, Attempts
  <2>3. attempt' = [attempt EXCEPT !.now = c]
    BY <1>2 DEF AgeKeeper
  <2> HIDE DEF c
  <2>4. [attempt EXCEPT !.now = c] \in Attempts
    BY <2>1, <2>2 DEF Attempts
  <2>5. [attempt EXCEPT !.now = c].public = attempt.public /\ [attempt EXCEPT !.now = c].now = c
    BY <2>1 DEF Attempts
  <2> QED
    BY <1>2, <2>3, <2>4, <2>5 DEF c
<1> QED
  BY <1>1, <1>2 DEF AgeKeeper
\* What a successful publication leaves behind.
LEMMA PublicationEffect ==
  ASSUME KeeperTypes, Publication
  PROVE  /\ kpc = "publish" /\ kpc' = "select" /\ attempt' = None /\ failed' = None /\ quiet' = None
         /\ record' \in Records /\ record'.at = attempt.now
         /\ stored' \in [Server -> [Socket -> Copies]] /\ kservers' = kservers
         /\ \E s \in Server : stored'[s][record'.mapping] \in 0 .. attempt.now
<1>1. PICK m \in Socket : KeeperPublished(m)
  BY DEF Publication
<1>2. kpc = "publish" /\ attempt \in Attempts
  BY <1>1 DEF KeeperPublished, KeeperTypes
<1>3. PICK S \in (SUBSET Server) \ {{}} : StoredOn(S, m)
  BY <1>1 DEF KeeperPublished
<1>4. PICK s \in Server : s \in S
  BY <1>3
<1>5. stored' \in [Server -> [Socket -> Copies]] /\ stored'[s][m] \in 0 .. attempt.now
  <2>1. S \in SUBSET Server
    BY <1>3
  <2>2. stored' \in [Server -> [Socket -> Copies]] /\ Copied(S, m)
    BY <1>2, <1>3, <2>1, StoredOnCopies
  <2> QED
    BY <1>4, <2>2 DEF Copied
<1>6. /\ record' = [public |-> attempt.public, mapping |-> m, servers |-> attempt.servers, at |-> attempt.now]
      /\ kpc' = "select" /\ attempt' = None /\ failed' = None /\ kservers' = kservers /\ quiet' = None
  BY <1>1 DEF KeeperPublished, Publication
<1>7. attempt.now \in 0 .. INDEX_TTL /\ attempt.public \in Address /\ attempt.servers \in SUBSET Server
  BY <1>2, PeriodsAssumption DEF Attempts
<1>8. record' \in Records /\ record'.at = attempt.now /\ record'.mapping = m
  BY <1>6, <1>7 DEF Records
<1> QED
  BY <1>2, <1>4, <1>5, <1>6, <1>8

\* What a failed one leaves: a server may hold a copy anew, none loses one.
LEMMA PublicationFailedEffect ==
  ASSUME KeeperTypes, PublicationFailed
  PROVE  /\ kpc = "publish" /\ kpc' = "select" /\ attempt' = None /\ failed' = 0 /\ quiet' = 0
         /\ record' = record /\ kservers' = kservers
         /\ stored' \in [Server -> [Socket -> Copies]]
         /\ \A s \in Server, m \in Socket : \/ stored'[s][m] = stored[s][m]
                                            \/ stored'[s][m] \in 0 .. attempt.now
<1>1. PICK m \in Socket : KeeperFailed(m)
  BY DEF PublicationFailed
<1>2. kpc = "publish"
  BY <1>1 DEF KeeperFailed
<1>3. PICK S \in SUBSET Server : StoredOn(S, m)
  BY <1>1 DEF KeeperFailed
<1>4. stored' \in [Server -> [Socket -> Copies]] /\ Copied(S, m)
  BY <1>2, <1>3, StoredOnCopies
<1>5. /\ kpc' = "select" /\ attempt' = None /\ failed' = 0 /\ quiet' = 0
      /\ record' = record /\ kservers' = kservers
  BY <1>1 DEF KeeperFailed, PublicationFailed
<1> QED
  BY <1>2, <1>4, <1>5 DEF Copied

\* The keeper's other steps.
LEMMA KeeperStepsEffect ==
  ASSUME KeeperTypes, KeeperSteps
  PROVE  /\ kpc # "publish" /\ attempt = None
         /\ UNCHANGED <<stored, failed, record, quiet, public, servers>>
         /\ kservers' \in {kservers, servers}
         /\ \/ kpc' \in {"loop", "inactive", "address"} /\ attempt' = None
            \/ /\ kpc' = "select" /\ attempt' = None
               /\ BackingOff \/ ~IsDue(public)
            \/ /\ kpc' = "publish" /\ ~BackingOff
               /\ attempt' \in Attempts /\ attempt'.public = public /\ attempt'.now = 0
<1>1. UNCHANGED <<stored, failed, record, quiet, public, servers>> /\ kservers' \in {kservers, servers}
  BY DEF KeeperSteps, keeperRest, KeeperLoop, KeeperActivated, KeeperCheck, KeeperWake
<1>2. kpc # "publish" /\ attempt = None
  BY DEF KeeperSteps, KeeperLoop, KeeperActivated, KeeperCheck, KeeperWake, KeeperTypes
<1>3. CASE KeeperLoop \/ KeeperActivated \/ KeeperWake
  BY <1>1, <1>2, <1>3 DEF KeeperLoop, KeeperActivated, KeeperWake
<1>4. CASE KeeperCheck
  <2>1. CASE IsDue(public) /\ ~BackingOff
    <3>1. kpc' = "publish" /\ attempt' = [public |-> public, servers |-> servers, now |-> 0]
      BY <1>4, <2>1 DEF KeeperCheck
    <3>2. attempt' \in Attempts /\ attempt'.public = public /\ attempt'.now = 0
      BY <3>1, PeriodsAssumption DEF KeeperTypes, Attempts
    <3> QED
      BY <1>1, <1>2, <2>1, <3>1, <3>2
  <2>2. CASE ~(IsDue(public) /\ ~BackingOff)
    BY <1>1, <1>2, <1>4, <2>2 DEF KeeperCheck
  <2> QED
    BY <2>1, <2>2
<1> QED
  BY <1>3, <1>4 DEF KeeperSteps

LEMMA KeeperTypesStep ==
  ASSUME TypeOK, [Next]_vars
  PROVE  /\ kservers' \in SUBSET Server
         /\ stored' \in [Server -> [Socket -> Copies]]
         /\ kpc' \in KPCs
         /\ (kpc' = "publish" /\ attempt' \in Attempts) \/ (kpc' # "publish" /\ attempt' = None)
         /\ failed' \in Age(RETRY) /\ record' \in Records \cup {None}
<1>0. KeeperTypes
  BY TypesOfKeeper
<1>1. CASE KeeperSteps
  BY <1>0, <1>1, KeeperStepsEffect DEF KeeperTypes, KPCs
<1>2. CASE Publication
  BY <1>0, <1>2, PublicationEffect DEF KeeperTypes, KPCs, Age
<1>3. CASE PublicationFailed
  BY <1>0, <1>3, PublicationFailedEffect, PeriodsAssumption DEF KeeperTypes, KPCs, Age
<1>4. CASE Tick
  <2>1. AgeKeeper /\ kpc' = kpc /\ kservers' = kservers
    BY <1>4 DEF Tick
  <2>2. record' \in Records \cup {None} /\ (attempt = None => attempt' = None)
        /\ (attempt # None => attempt' \in Attempts)
    BY <2>1, <1>0, AgeRecord
  <2>3. failed' \in Age(RETRY)
    BY <2>1, <1>0, PeriodsAssumption DEF AgeKeeper, Aged, Capped, Age, KeeperTypes
  <2>4. attempt # None <=> kpc = "publish"
    BY <1>0, NoneAssumption DEF KeeperTypes
  <2> QED
    BY <2>1, <2>2, <2>3, <2>4, <1>0, AgeCopies DEF KeeperTypes
<1>5. CASE UNCHANGED Core
  BY <1>0, <1>5 DEF Core, KeeperTypes
<1> QED
  BY <1>1, <1>2, <1>3, <1>4, <1>5, CoreFrame
----------------------------------------------------------------------------
(* Every step keeps the invariant.                                         *)

LEMMA FlagsStep ==
  ASSUME TypeOK, [Next]_vars
  PROVE  /\ serversChanged' \in BOOLEAN /\ active' \in BOOLEAN /\ activeChanged' \in BOOLEAN
         /\ reported' \in BOOLEAN /\ notified' \in BOOLEAN
         /\ recordsChanged' \in BOOLEAN
<1>0. /\ serversChanged \in BOOLEAN /\ active \in BOOLEAN /\ activeChanged \in BOOLEAN
      /\ reported \in BOOLEAN /\ notified \in BOOLEAN
      /\ recordsChanged \in BOOLEAN
  BY DEF TypeOK
<1>1. CASE KeeperSteps
  BY <1>0, <1>1 DEF KeeperSteps, KeeperLoop, KeeperActivated, KeeperCheck, KeeperWake, keeperRest
<1>2. CASE Publication \/ PublicationFailed
  BY <1>0, <1>2 DEF Publication, PublicationFailed, KeeperPublished, KeeperFailed, keeperRest
<1>3. ASSUME NEW h \in Hash, Worker(h)
      PROVE  /\ UNCHANGED <<serversChanged, active, activeChanged, notified, recordsChanged>>
             /\ reported' \in BOOLEAN
  <2>1. UNCHANGED <<serversChanged, active, activeChanged, notified, recordsChanged>>
    BY <1>3 DEF Worker, Pace, Closest, ClosestFailed, Announced, AnnounceFailed, Resume, Awake, workerRest
  <2>2. reported' = reported \/ report(public)
    BY <1>3 DEF Worker, Pace, Closest, ClosestFailed, Announced, AnnounceFailed, Resume, Awake
  <2>3. reported' \in BOOLEAN
    BY <1>0, <2>2 DEF report
  <2> QED
    BY <2>1, <2>3
<1>4. ASSUME NEW h \in Hash, add_infohash(h) \/ remove_infohash(h)
      PROVE  /\ UNCHANGED <<serversChanged, active, activeChanged, reported, recordsChanged>>
             /\ notified' = TRUE
  BY <1>4 DEF add_infohash, remove_infohash, callRest, keeperVars
<1>5. CASE Supervisor
  <2>1. UNCHANGED <<serversChanged, reported>>
    BY <1>5 DEF Supervisor, SuperviseStart, SuperviseNotified, SuperviseRecord, SuperviseAnnounced, Supervise,
                Snapshot, selectRest, supervisorRest
  <2>2. active' \in BOOLEAN /\ activeChanged' \in BOOLEAN
    BY <1>0, <1>5 DEF Supervisor, SuperviseStart, SuperviseNotified, SuperviseRecord, SuperviseAnnounced, Supervise,
                      Snapshot, selectRest, supervisorRest
  <2>3. notified' \in BOOLEAN /\ recordsChanged' \in BOOLEAN
    BY <1>0, <1>5 DEF Supervisor, SuperviseStart, SuperviseNotified, SuperviseRecord, SuperviseAnnounced, Supervise,
                      Snapshot, selectRest, supervisorRest
  <2> QED
    BY <1>0, <2>1, <2>2, <2>3
<1>6. CASE Surroundings \/ Tick \/ UNCHANGED vars
  BY <1>0, <1>6 DEF Surroundings, MoveAddress, ChangeServers, LoseCopies, Tick, vars, keeperVars, publisherVars
<1> QED
  BY <1>0, <1>1, <1>2, <1>3, <1>4, <1>5, <1>6 DEF Next

SPCs == {"start", "turn", "select"}

\* The counter of changes, the surroundings and the supervisor's sets.
LEMMA SetsStep ==
  ASSUME TypeOK, [Next]_vars
  PROVE  /\ public' \in Address /\ servers' \in ServerLists /\ changes' \in 0 .. MaxChanges
         /\ entries' \subseteq Hash /\ done' \subseteq Hash /\ announced' \subseteq Hash
         /\ landed' \subseteq Hash /\ published' \in Socket \cup {None} /\ quiet' \in Age(RETRY)
         /\ spc' \in SPCs /\ seen' \subseteq Hash
<1>0. /\ public \in Address /\ servers \in ServerLists /\ changes \in 0 .. MaxChanges
      /\ entries \subseteq Hash /\ done \subseteq Hash /\ announced \subseteq Hash
      /\ landed \subseteq Hash /\ published \in Socket \cup {None} /\ quiet \in Age(RETRY)
      /\ spc \in SPCs /\ seen \subseteq Hash
  BY DEF TypeOK, Age, SPCs
<1>c. (Change \/ Failure \/ UNCHANGED changes) => changes' \in 0 .. MaxChanges
  BY <1>0, ChangesAssumption DEF Change, Failure
<1>1. CASE KeeperSteps
  BY <1>0, <1>1 DEF KeeperSteps, keeperRest
<1>2. CASE Publication \/ PublicationFailed
  <2>1. UNCHANGED <<public, servers, entries, done, announced, landed, published, spc, seen>>
    BY <1>2 DEF Publication, PublicationFailed, keeperRest
  <2>2. changes' \in 0 .. MaxChanges
    BY <1>c, <1>2 DEF Publication, PublicationFailed, KeeperFailed
  <2>3. quiet' \in Age(RETRY)
    <3>1. quiet' = None \/ quiet' = 0
      BY <1>2 DEF Publication, PublicationFailed
    <3> QED
      BY <3>1, PeriodsAssumption DEF Age
  <2> QED
    BY <1>0, <2>1, <2>2, <2>3
<1>3. ASSUME NEW h \in Hash, Worker(h)
      PROVE  /\ UNCHANGED <<public, servers, entries, announced, published, quiet, spc, seen>>
             /\ changes' \in 0 .. MaxChanges /\ done' \subseteq Hash /\ landed' \subseteq Hash
  BY <1>0, <1>c, <1>3 DEF Worker, Pace, Closest, ClosestFailed, Announced, AnnounceFailed, Resume, Awake, workerRest
<1>4. ASSUME NEW h \in Hash, add_infohash(h) \/ remove_infohash(h)
      PROVE  /\ UNCHANGED <<public, servers, done, announced, landed, published, quiet, spc, seen>>
             /\ changes' \in 0 .. MaxChanges /\ entries' \subseteq Hash
  BY <1>0, <1>c, <1>4 DEF add_infohash, remove_infohash, callRest
<1>5. CASE Supervisor
  <2>1. UNCHANGED <<public, servers, changes, entries, quiet>>
    BY <1>5 DEF Supervisor, SuperviseStart, SuperviseNotified, SuperviseRecord, SuperviseAnnounced, Supervise,
                Snapshot, selectRest, supervisorRest
  <2>2. done' \subseteq Hash /\ announced' \subseteq Hash /\ landed' \subseteq Hash
    BY <1>0, <1>5 DEF Supervisor, SuperviseStart, SuperviseNotified, SuperviseRecord, SuperviseAnnounced, Supervise,
                      Snapshot, selectRest, supervisorRest
  <2>3. published' \in {published, None} \/ (record # None /\ published' = record.mapping)
    BY <1>5 DEF Supervisor, SuperviseStart, SuperviseNotified, SuperviseRecord, SuperviseAnnounced, Supervise,
                Snapshot, selectRest, supervisorRest, mapping
  <2>4. published' \in Socket \cup {None}
    BY <1>0, <2>3 DEF TypeOK, Records
  <2>5. spc' \in SPCs /\ seen' \subseteq Hash
    BY <1>0, <1>5 DEF Supervisor, SuperviseStart, SuperviseNotified, SuperviseRecord, SuperviseAnnounced, Supervise,
                      Snapshot, selectRest, supervisorRest, SPCs
  <2> QED
    BY <1>0, <2>1, <2>2, <2>4, <2>5
<1>6. CASE Surroundings
  BY <1>0, <1>c, <1>6 DEF Surroundings, MoveAddress, ChangeServers, LoseCopies
<1>7. CASE Tick
  BY <1>0, <1>7, PeriodsAssumption DEF Tick, Aged, Capped, Age
<1>8. CASE UNCHANGED vars
  BY <1>0, <1>8 DEF vars, publisherVars
<1> QED
  BY <1>0, <1>1, <1>2, <1>3, <1>4, <1>5, <1>6, <1>7, <1>8 DEF Next

\* The copies that servers lost.
LEMMA LostStep ==
  ASSUME TypeOK, [Next]_vars PROVE lost' \subseteq Server \X Socket
<1>0. lost \subseteq Server \X Socket
  BY DEF TypeOK
<1>1. CASE Publication \/ PublicationFailed
  BY <1>0, <1>1 DEF Publication, PublicationFailed, KeeperPublished, KeeperFailed, StoredOn
<1>2. CASE Surroundings
  BY <1>0, <1>2 DEF Surroundings, MoveAddress, ChangeServers, LoseCopies
<1>3. CASE Tick
  BY <1>0, <1>3 DEF Tick, AgeKeeper
<1>4. ASSUME NEW h \in Hash, Worker(h) \/ add_infohash(h) \/ remove_infohash(h) PROVE lost' = lost
  BY <1>4 DEF Worker, Pace, Closest, ClosestFailed, Announced, AnnounceFailed, Resume, Awake, workerRest,
              add_infohash, remove_infohash, callRest
<1>5. CASE KeeperSteps \/ UNCHANGED vars
  BY <1>0, <1>5 DEF KeeperSteps, vars
<1>6. CASE Supervisor
  BY <1>0, <1>6 DEF Supervisor, SuperviseStart, SuperviseNotified, SuperviseRecord, SuperviseAnnounced, Supervise,
              Snapshot, selectRest, supervisorRest
<1> QED
  BY <1>0, <1>1, <1>2, <1>3, <1>4, <1>5, <1>6 DEF Next

LEMMA TypesStep ==
  ASSUME TypeOK, [Next]_vars PROVE TypeOK'
BY WorkersStep, KeeperTypesStep, FlagsStep, SetsStep, LostStep DEF TypeOK, KPCs, Age, Copies, SPCs

LEMMA HeldSinceStep ==
  ASSUME TypeOK, HeldSince, [Next]_vars PROVE HeldSince'
<1>0. KeeperTypes
  BY TypesOfKeeper
<1>1. CASE KeeperSteps
  <2>1. UNCHANGED <<stored, record>> /\ (attempt' = None \/ attempt'.now = 0)
    BY <1>0, <1>1, KeeperStepsEffect
  <2>2. record # None => 0 <= record.at
    BY <1>0 DEF KeeperTypes, Records
  <2> QED
    BY <2>1, <2>2 DEF HeldSince
<1>2. CASE Publication
  <2>1. /\ attempt' = None /\ record' \in Records /\ record'.at = attempt.now
        /\ \E s \in Server : stored'[s][record'.mapping] \in 0 .. attempt.now
        /\ kpc = "publish"
    BY <1>0, <1>2, PublicationEffect
  <2>2. attempt.now \in Nat
    BY <1>0, <2>1 DEF KeeperTypes, Attempts
  <2> QED
    BY <2>1, <2>2, NoneAssumption DEF HeldSince
<1>3. CASE PublicationFailed
  <2>1. /\ attempt' = None /\ record' = record /\ kpc = "publish"
        /\ \A s \in Server, m \in Socket : stored'[s][m] = stored[s][m] \/ stored'[s][m] \in 0 .. attempt.now
    BY <1>0, <1>3, PublicationFailedEffect
  <2>2. SUFFICES ASSUME record # None, record.at < INDEX_TTL
                 PROVE  \E s \in Server : stored'[s][record.mapping] # None /\ stored'[s][record.mapping] <= record.at
    BY <2>1 DEF HeldSince
  <2>3. PICK s \in Server : stored[s][record.mapping] # None /\ stored[s][record.mapping] <= record.at
    BY <2>2 DEF HeldSince
  <2>4. /\ record.mapping \in Socket /\ record.at \in Nat
        /\ attempt.now \in Nat /\ attempt # None /\ attempt.now <= record.at
    BY <1>0, <2>1, <2>2, NoneAssumption DEF KeeperTypes, Records, Attempts, HeldSince
  <2>5. CASE stored'[s][record.mapping] = stored[s][record.mapping]
    BY <2>3, <2>5
  <2>6. CASE stored'[s][record.mapping] \in 0 .. attempt.now
    BY <2>4, <2>6, NoneAssumption
  <2> QED
    BY <2>1, <2>4, <2>5, <2>6
<1>4. CASE Tick
  <2>1. AgeKeeper
    BY <1>4 DEF Tick
  <2>2. CASE record = None
    BY <1>0, <2>1, <2>2, AgeRecord DEF HeldSince
  <2>3. CASE record # None
    <3>1. PICK r \in Records : /\ record' = r /\ r.mapping = record.mapping
                               /\ r.at = Capped(record.at + 1, INDEX_TTL)
      BY <1>0, <2>1, <2>3, AgeRecord
    <3>2. record.at \in 0 .. INDEX_TTL /\ record.mapping \in Socket
      BY <1>0, <2>3 DEF KeeperTypes, Records
    <3>3. ASSUME r.at < INDEX_TTL
          PROVE  \E s \in Server : stored'[s][r.mapping] # None /\ stored'[s][r.mapping] <= r.at
      <4>1. r.at = record.at + 1 /\ record.at < INDEX_TTL
        BY <3>1, <3>2, <3>3, PeriodsAssumption DEF Capped
      <4>2. PICK s \in Server : stored[s][record.mapping] # None /\ stored[s][record.mapping] <= record.at
        BY <2>3, <4>1 DEF HeldSince
      <4>3. stored[s][record.mapping] \in Nat
        BY <1>0, <3>2, <4>2, PeriodsAssumption DEF KeeperTypes, Copies
      <4>4. stored'[s][record.mapping] = stored[s][record.mapping] + 1
        BY <1>0, <2>1, <3>2, <3>3, <4>1, <4>2, <4>3, AgeCopies, PeriodsAssumption
      <4>5. stored'[s][record.mapping] \in Nat
        BY <4>3, <4>4
      <4> QED
        BY <3>1, <3>2, <4>1, <4>2, <4>3, <4>4, <4>5, NoneAssumption
    <3>4. attempt' # None => attempt'.now <= r.at
      <4> SUFFICES ASSUME attempt' # None PROVE attempt'.now <= r.at
        OBVIOUS
      <4>1. attempt # None /\ attempt'.now = attempt.now + 1 /\ attempt' \in Attempts
        BY <1>0, <2>1, AgeRecord
      <4>2. attempt.now <= record.at /\ attempt'.now <= PublishSecs /\ attempt.now \in Nat /\ attempt'.now \in Nat
        BY <1>0, <2>3, <4>1 DEF HeldSince, Attempts, KeeperTypes
      <4> QED
        BY <3>1, <3>2, <4>1, <4>2, PeriodsAssumption DEF Capped
    <3> QED
      BY <3>1, <3>3, <3>4 DEF HeldSince
  <2> QED
    BY <2>2, <2>3
<1>5. CASE UNCHANGED Core
  BY <1>5 DEF Core, HeldSince
<1> QED
  BY <1>1, <1>2, <1>3, <1>4, <1>5, CoreFrame

LEMMA BacksOffStep ==
  ASSUME TypeOK, BacksOff, [Next]_vars PROVE BacksOff'
<1>0. KeeperTypes
  BY TypesOfKeeper
<1>1. CASE KeeperSteps
  BY <1>0, <1>1, KeeperStepsEffect DEF BacksOff
<1>2. CASE Publication \/ PublicationFailed
  BY <1>0, <1>2, PublicationEffect, PublicationFailedEffect DEF BacksOff
<1>3. CASE Tick
  BY <1>3 DEF Tick, AgeKeeper, BacksOff
<1>4. CASE UNCHANGED Core
  BY <1>4 DEF Core, BacksOff
<1> QED
  BY <1>1, <1>2, <1>3, <1>4, CoreFrame
\* The keeper only drops its attention to an address once its record is for that address.
LEMMA AttendsStep ==
  ASSUME TypeOK, [Next]_vars, Attends, public' = public, ~Publication PROVE Attends'
<1>0. KeeperTypes
  BY TypesOfKeeper
<1>1. CASE KeeperSteps
  <2>1. UNCHANGED <<failed, record>>
    BY <1>0, <1>1, KeeperStepsEffect
  <2>2. CASE kpc' = "select" /\ attempt' = None /\ ~IsDue(public)
    BY <2>1, <2>2 DEF IsDue, Attends
  <2>3. CASE BackingOff
    BY <2>1, <2>3 DEF BackingOff, Attends
  <2>4. CASE kpc' \in {"loop", "inactive", "address"}
    BY <2>4 DEF Attends
  <2>5. CASE kpc' = "publish" /\ attempt' \in Attempts /\ attempt'.public = public
    BY <2>5, NoneAssumption DEF Attends
  <2> QED
    BY <1>0, <1>1, <2>2, <2>3, <2>4, <2>5, KeeperStepsEffect
<1>2. CASE PublicationFailed
  <2>1. failed' # None
    BY <1>0, <1>2, PublicationFailedEffect, NoneAssumption
  <2> QED
    BY <2>1 DEF Attends
<1>3. CASE Tick
  <2>1. AgeKeeper /\ reported' = reported /\ kpc' = kpc
    BY <1>3 DEF Tick
  <2>2. failed # None => failed' # None
    BY <1>0, <2>1, PeriodsAssumption, NoneAssumption DEF AgeKeeper, Aged, Capped, KeeperTypes, Age
  <2>3. attempt # None => attempt' # None /\ attempt'.public = attempt.public
    BY <1>0, <2>1, AgeRecord, NoneAssumption
  <2>4. record # None => record' # None /\ record'.public = record.public
    BY <1>0, <2>1, AgeRecord, NoneAssumption
  <2> QED
    BY <2>1, <2>2, <2>3, <2>4 DEF Attends
<1>4. CASE UNCHANGED Core /\ ~KeeperSteps
  <2>1. reported => reported'
    <3>1. ASSUME NEW h \in Hash, Worker(h), reported PROVE reported'
      BY <3>1 DEF Worker, Pace, Closest, ClosestFailed, Announced, AnnounceFailed, Resume, Awake, report
    <3>2. ASSUME NEW h \in Hash, add_infohash(h) \/ remove_infohash(h), reported PROVE reported'
      BY <3>2 DEF add_infohash, remove_infohash, callRest, keeperVars
    <3>3. ASSUME Supervisor, reported PROVE reported'
      BY <3>3 DEF Supervisor, SuperviseStart, SuperviseNotified, SuperviseRecord, SuperviseAnnounced, Supervise,
                  Snapshot, selectRest, supervisorRest
    <3>4. ASSUME PublicationFailed \/ Surroundings \/ Tick \/ UNCHANGED vars, reported PROVE reported'
      BY <3>4 DEF PublicationFailed, KeeperFailed, Surroundings, Tick, vars, keeperVars
    <3> QED
      BY <1>4, <3>1, <3>2, <3>3, <3>4 DEF Next
  <2> QED
    BY <1>4, <2>1 DEF Core, Attends
<1> QED
  BY <1>1, <1>2, <1>3, <1>4, CoreFrame

LEMMA AttendedStep ==
  ASSUME TypeOK, Attended, [Next]_vars PROVE Attended'
<1> SUFFICES ASSUME NEW h \in Hash, Unanswered(workers'[h]) PROVE Attends'
  BY DEF Attended
<1>1. ~Publication
  BY WorkerStep
<1>2. CASE Closest(h)
  <2>1. report(public) /\ UNCHANGED <<public, record>>
    BY <1>2 DEF Closest, workerRest
  <2> QED
    BY <2>1 DEF report, Attends
<1>3. CASE Unanswered(workers[h]) /\ public' = public
  BY <1>1, <1>3, AttendsStep DEF Attended
<1> QED
  BY <1>2, <1>3, WorkerStep

LEMMA ToldStep ==
  ASSUME TypeOK, Told, [Next]_vars PROVE Told'
<1>0. KeeperTypes
  BY TypesOfKeeper
<1>r. record # None => record' # None
  <2>1. CASE KeeperSteps
    BY <1>0, <2>1, KeeperStepsEffect
  <2>2. CASE Publication
    BY <1>0, <2>2, PublicationEffect, NoneAssumption
  <2>3. CASE PublicationFailed
    BY <1>0, <2>3, PublicationFailedEffect
  <2>4. CASE Tick
    BY <1>0, <2>4, AgeRecord, NoneAssumption DEF Tick
  <2>5. CASE UNCHANGED Core
    BY <2>5 DEF Core
  <2> QED
    BY <2>1, <2>2, <2>3, <2>4, <2>5, CoreFrame
<1>1. CASE KeeperSteps \/ Publication \/ PublicationFailed
  <2>1. UNCHANGED <<done, announced, landed>>
    BY <1>1 DEF KeeperSteps, Publication, PublicationFailed, keeperRest
  <2>2. \A h \in Hash : Working(h, {"announce"})' => Working(h, {"announce"})
    <3>1. CASE workers' = workers
      BY <3>1 DEF Working
    <3>2. CASE Publication
      <4> SUFFICES ASSUME NEW h \in Hash, Working(h, {"announce"})' PROVE Working(h, {"announce"})
        OBVIOUS
      <4> DEFINE n == (workers[h].pc \in Subscribed)
                 x == [workers[h] EXCEPT !.news = n, !.current = FALSE]
      <4>1. workers'[h] = IF workers[h] = None THEN None ELSE x
        BY <3>2 DEF Publication
      <4>2. workers[h] # None => workers[h] \in WorkerStates
        BY DEF TypeOK
      <4>3. n \in BOOLEAN
        OBVIOUS
      <4> HIDE DEF n
      <4>4. workers[h] # None => x.pc = workers[h].pc
        BY <4>2, <4>3, WorkerNews
      <4> HIDE DEF x
      <4> QED
        BY <4>1, <4>4 DEF Working
    <3> QED
      BY <1>1, <3>1, <3>2 DEF KeeperSteps, PublicationFailed
  <2> QED
    BY <1>r, <2>1, <2>2 DEF Told
<1>2. ASSUME NEW h \in Hash, Worker(h) PROVE Told'
  <2>1. announced' = announced /\ record' = record
    BY <1>2 DEF Worker, Pace, Closest, ClosestFailed, Announced, AnnounceFailed, Resume, Awake, workerRest
  <2>2. \/ UNCHANGED <<done, landed>>
        \/ done' = done \cup {h} /\ landed' = landed \cup {h} /\ Working(h, {"announce"})
    BY <1>2 DEF Worker, Pace, Closest, ClosestFailed, Announced, AnnounceFailed, Resume, Awake
  <2>3. ASSUME NEW g \in Hash, Working(g, {"announce"})' PROVE Working(g, {"announce"}) \/ record # None
    <3>0. workers \in [Hash -> WorkerStates \cup {None}]
      BY DEF TypeOK
    <3>1. ASSUME NEW pc \in PCs \ {"announce"}, Become(h, pc)
          PROVE  Working(g, {"announce"})
      <4>1. workers'[g] = IF g = h THEN At(pc) ELSE workers[g]
        BY <3>0, <3>1 DEF Become
      <4> QED
        BY <2>3, <4>1 DEF Working, At
    <3>2. CASE Closest(h) /\ ~is_live(record, public)
      <4> DEFINE x == [pc |-> "waiting", news |-> workers[h].news, waited |-> workers[h].waited,
                       current |-> ~workers[h].news]
      <4>1. workers' = [workers EXCEPT ![h] = x]
        BY <3>2 DEF Closest
      <4>2. workers'[g] = IF g = h THEN x ELSE workers[g]
        BY <3>0, <4>1
      <4> QED
        BY <2>3, <4>2 DEF Working
    <3>3. CASE Closest(h) /\ is_live(record, public)
      BY <3>3 DEF is_live
    <3> QED
      BY <1>2, <3>1, <3>2, <3>3 DEF Worker, Pace, Closest, ClosestFailed, Announced, AnnounceFailed, Resume, Awake, PCs
  <2> QED
    BY <2>1, <2>2, <2>3 DEF Told
<1>3. ASSUME NEW h \in Hash, add_infohash(h) \/ remove_infohash(h) PROVE Told'
  BY <1>r, <1>3 DEF add_infohash, remove_infohash, callRest, Told, Working
<1>4. CASE Supervisor
  <2>1. done' \subseteq landed' /\ announced' \subseteq landed' /\ landed' \subseteq landed
    BY <1>4 DEF Told, Supervisor, SuperviseStart, SuperviseNotified, SuperviseRecord, SuperviseAnnounced, Supervise,
                    Snapshot, selectRest, supervisorRest
  <2>2. \A h \in Hash : workers'[h] \in {None, At("pace"), workers[h]}
    BY <1>4 DEF Supervisor, SuperviseStart, SuperviseNotified, SuperviseRecord, SuperviseAnnounced, Supervise,
                Snapshot, selectRest, supervisorRest
  <2>3. \A h \in Hash : Working(h, {"announce"})' => Working(h, {"announce"})
    BY <2>2 DEF Working, At
  <2> QED
    BY <1>r, <2>1, <2>3 DEF Told
<1>5. CASE Surroundings \/ Tick
  <2>1. UNCHANGED <<done, announced, landed>>
    BY <1>5 DEF Surroundings, Tick
  <2>2. \A h \in Hash : Working(h, {"announce"})' => Working(h, {"announce"})
    <3> SUFFICES ASSUME NEW h \in Hash, Working(h, {"announce"})' PROVE Working(h, {"announce"})
      OBVIOUS
    <3> DEFINE x == [workers[h] EXCEPT !.current = FALSE]
               y == [workers[h] EXCEPT !.waited = Capped(workers[h].waited + 1, RETRY)]
    <3>1. workers'[h] \in {None, workers[h]} \/ (workers[h] # None /\ workers'[h] \in {x, y})
      <4>1. CASE Tick
        <5>1. workers'[h] = IF ~Working(h, {"waiting"}) THEN workers[h] ELSE y
          BY <4>1 DEF Tick
        <5> QED
          BY <5>1 DEF Working
      <4>2. CASE Surroundings
        <5>1. workers' = workers \/ workers'[h] = IF workers[h] = None THEN None ELSE x
          BY <4>2 DEF Surroundings
        <5> QED
          BY <5>1
      <4> QED
        BY <1>5, <4>1, <4>2
    <3>2. workers[h] # None => workers[h] \in WorkerStates
      BY DEF TypeOK
    <3>3. workers[h] # None => x.pc = workers[h].pc /\ y.pc = workers[h].pc
      BY <3>2, WorkerMoved, WorkerWaits
    <3> HIDE DEF x, y
    <3> QED
      BY <3>1, <3>3 DEF Working
  <2> QED
    BY <1>r, <2>1, <2>2 DEF Told
<1>6. CASE UNCHANGED vars
  BY <1>r, <1>6 DEF vars, publisherVars, Told, Working
<1> QED
  BY <1>1, <1>2, <1>3, <1>4, <1>5, <1>6 DEF Next

----------------------------------------------------------------------------
LEMMA InitGood == Init => IInv
<1> SUFFICES ASSUME Init PROVE IInv
  OBVIOUS
<1>1. TypeOK
  <2>1. stored \in [Server -> [Socket -> 0 .. INDEX_TTL - 1 \cup {None}]]
    BY DEF Init, KeeperInit
  <2>2. /\ public \in Address /\ servers \in ServerLists /\ kservers \subseteq Server
        /\ changes \in 0 .. MaxChanges /\ kpc \in KPCs /\ kpc # "publish" /\ attempt = None
        /\ failed = None /\ quiet = None /\ record = None /\ published = None
    BY ChangesAssumption DEF Init, KeeperInit, KPCs
  <2>3. {serversChanged, active, activeChanged, reported, notified, recordsChanged}
          \subseteq BOOLEAN
    BY DEF Init, KeeperInit
  <2>4. /\ workers \in [Hash -> WorkerStates \cup {None}]
        /\ entries \subseteq Hash /\ done \subseteq Hash /\ announced \subseteq Hash /\ landed \subseteq Hash
        /\ spc \in SPCs /\ seen \subseteq Hash /\ lost \subseteq Server \X Socket
    BY DEF Init, KeeperInit, SPCs
  <2> QED
    BY <2>1, <2>2, <2>3, <2>4 DEF TypeOK, KPCs, SPCs
<1>2. HeldSince /\ BacksOff /\ Attended /\ Told
  BY DEF Init, KeeperInit, HeldSince, BacksOff, Attended, Unanswered, Told, Working
<1> QED
  BY <1>1, <1>2 DEF IInv

\* IInv is inductive.
LEMMA AlwaysGood == Spec => []IInv
<1>1. IInv /\ [Next]_vars => IInv'
  BY TypesStep, HeldSinceStep, BacksOffStep, AttendedStep, ToldStep DEF IInv
<1> QED
  BY <1>1, InitGood, PTL DEF Spec

\* The variables of the publisher and its keeper keep their Rust types.
THEOREM PublisherTypes == Spec => []TypeOK
<1>1. IInv => TypeOK
  BY DEF IInv
<1> QED
  BY <1>1, AlwaysGood, PTL

\* Some server stored the record that the keeper counts as live, and has not dropped it for
\* its age (Record::is_live): it holds it, or has lost it by a restart or an eviction.
\* However long the publications take and whichever of them fail.
THEOREM LiveIsHeldOrLost == Spec => []LiveRecordIsHeldOrLost
<1>1. IInv => LiveRecordIsHeldOrLost
  BY DEF IInv, HeldSince, LiveRecordIsHeldOrLost, Holds
<1> QED
  BY <1>1, AlwaysGood, PTL

\* No report of our address is lost between announce_indexed and the keeper's loop.
THEOREM ReportsArrive == Spec => []AddressReachesKeeper
<1>1. ASSUME IInv PROVE AddressReachesKeeper
  <2> SUFFICES ASSUME kpc = "select", ~reported, failed = None,
                      NEW h \in Hash, Working(h, {"waiting"}), workers[h].current
               PROVE  record # None /\ record.public = public
    BY DEF AddressReachesKeeper
  <2>1. Attends
    BY <1>1 DEF IInv, Attended, Unanswered, Working
  <2>2. attempt = None
    BY <1>1 DEF IInv, TypeOK
  <2> QED
    BY <2>1, <2>2 DEF Attends
<1>2. IInv => AddressReachesKeeper
  BY <1>1
<1> QED
  BY <1>2, AlwaysGood, PTL

\* The keeper starts no publication within RETRY of one that failed, whatever wakes it.
THEOREM BackoffHolds == Spec => RetriesKeepTheirDistance
<1>1. ASSUME IInv, [Next]_vars, kpc # "publish", kpc' = "publish" PROVE quiet \in {None, RETRY}
  <2>0. KeeperTypes
    BY <1>1, TypesOfKeeper DEF IInv
  <2>1. KeeperSteps
    <3>1. ~Publication /\ ~PublicationFailed
      BY <1>1, <2>0, PublicationEffect, PublicationFailedEffect
    <3>2. ~Tick /\ ~UNCHANGED Core
      BY <1>1 DEF Tick, Core
    <3> QED
      BY <1>1, <3>1, <3>2, CoreFrame
  <2>2. ~BackingOff
    BY <1>1, <2>0, <2>1, KeeperStepsEffect
  <2> QED
    BY <1>1, <2>0, <2>2, PeriodsAssumption DEF BackingOff, KeeperTypes, Age, IInv, BacksOff
<1>2. IInv /\ [Next]_vars => [kpc # "publish" /\ kpc' = "publish" => quiet \in {None, RETRY}]_vars
  BY <1>1
<1> QED
  BY <1>2, AlwaysGood, PTL DEF Spec, RetriesKeepTheirDistance

\* wait_published learns of a socket only after all of the supervisor's snapshot was announced,
\* and that socket is one a server stored our record under.
THEOREM PublishedIsAnnounced == Spec => PublishedMeansAnnounced
<1>1. ASSUME IInv, Supervise, Publishes PROVE published' # None /\ seen \subseteq landed
  <2>1. seen # {} /\ seen \subseteq announced /\ published' = mapping
    BY <1>1 DEF Supervise, Publishes
  <2>2. seen \subseteq landed /\ record # None
    BY <1>1, <2>1 DEF IInv, Told
  <2>3. mapping \in Socket
    BY <1>1, <2>2 DEF IInv, TypeOK, Records, mapping
  <2> QED
    BY <2>1, <2>2, <2>3, NoneAssumption
<1>2. IInv /\ [Next]_vars => [Supervise /\ Publishes => published' # None /\ seen \subseteq landed]_vars
  BY <1>1
<1> QED
  BY <1>2, AlwaysGood, PTL DEF Spec, PublishedMeansAnnounced
============================================================================
