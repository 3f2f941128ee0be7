---------------------------- MODULE PkarrProofs ----------------------------
(***************************************************************************)
(* The theorems about PkarrPublisher, for any number of keys, editors,     *)
(* runners, edits and sequence numbers and any clock.                      *)
(***************************************************************************)
EXTENDS PkarrPublisher, FiniteSetTheorems, TLAPS

\* The edits that were made but not counted yet.
Uncounted == {e \in Editor : editing[e] # None}

\* Every edit is counted once, by its own caller.
Counted == edits = generation + Cardinality(Uncounted)

\* What was signed and may still matter: the items of rounds, those of cancelled callers
\* and what Mainline holds.
Signed == {i \in Items : \/ \E r \in Runner : i \in round[r].items
                         \/ i \in late
                         \/ dht[i.key] = [packet |-> i.packet, seq |-> i.seq]}

\* Edits are numbered in the order of their inserts, up to `edits`, and none is lost: the
\* packet that an edit set is there, or a later one, or the key was removed since.
EditsOrdered ==
  /\ \A k \in Key : /\ packets[k] <= edits
                    /\ packets[k] # 0 => landed[k] <= packets[k]
                    /\ packets[k] >= returned[k] \/ removed[k] >= returned[k]
  /\ \A e \in Editor : editing[e] # None =>
       LET k == editing[e][1]
           n == editing[e][2]
       IN  n <= edits /\ (packets[k] >= n \/ removed[k] >= n)

\* A larger sequence number signs a packet that was set no earlier.
SignedInOrder ==
  /\ \A i \in Signed : /\ i.seq <= previous
                       /\ i.packet <= edits
                       /\ packets[i.key] # 0 => i.packet <= packets[i.key]
  /\ \A i, j \in Signed : i.key = j.key /\ i.seq < j.seq => i.packet <= j.packet

\* A round that puts has one item per key, newer than all that was put before.
RoundsFresh ==
  \A r \in Runner :
    /\ round[r].pc # "put" => round[r].items = {}
    /\ round[r].pc = "put" => \A i \in late : i.seq < previous
    /\ \A i \in round[r].items : /\ i.seq = previous
                                 /\ dht[i.key] # None => dht[i.key].seq < previous
                                 /\ landed[i.key] <= i.packet
    /\ \A i, j \in round[r].items : i.key = j.key => i = j

\* Edit n of key k, or a later one, was put with success, or k was removed since.
Served(k, n) == landed[k] >= n \/ removed[k] >= n

\* The same, or it will be if the puts of round r succeed.
WillServe(r, k, n) ==
  Served(k, n) \/ \E i \in round[r].items : i.key = k /\ i.packet >= n

\* What `published` and a round without a failure so far stand for: all edits that had
\* returned when the generation they name was current, be it now or at the waiter's call.
Covered ==
  /\ waiter # None => \A k \in Key : waiter.returned[k] <= returned[k]
  /\ published = generation => \A k \in Key : Served(k, returned[k])
  /\ waiter # None /\ published >= waiter.generation =>
       \A k \in Key : Served(k, waiter.returned[k])
  /\ \A r \in Runner : round[r].pc = "put" /\ round[r].ok =>
       /\ round[r].generation = generation =>
            \A k \in Key : WillServe(r, k, returned[k])
       /\ waiter # None /\ round[r].generation >= waiter.generation =>
            \A k \in Key : WillServe(r, k, waiter.returned[k])

IInv == TypeOK /\ Counted /\ EditsOrdered /\ SignedInOrder /\ RoundsFresh /\ Covered
----------------------------------------------------------------------------
\* The locals of a runner.
Rounds(g) == [pc : {"idle", "lock", "sign", "put"}, generation : 0 .. g, items : SUBSET Items,
              ok : BOOLEAN]

\* An update of some locals keeps their type.
LEMMA RoundUpdate ==
  ASSUME NEW g, NEW x \in Rounds(g)
  PROVE  /\ \A pc \in {"idle", "lock", "sign", "put"} :
              /\ [x EXCEPT !.pc = pc] \in Rounds(g)
              /\ \A n \in 0 .. g : [x EXCEPT !.pc = pc, !.generation = n] \in Rounds(g)
              /\ \A I \in SUBSET Items : [x EXCEPT !.pc = pc, !.items = I] \in Rounds(g)
         /\ \A I \in SUBSET Items : /\ [x EXCEPT !.items = I] \in Rounds(g)
                                    /\ [x EXCEPT !.items = I, !.ok = FALSE] \in Rounds(g)
<1>1. \A y \in Rounds(g) : \A pc \in {"idle", "lock", "sign", "put"} :
        [y EXCEPT !.pc = pc] \in Rounds(g)
  BY DEF Rounds
<1>2. \A y \in Rounds(g) : \A n \in 0 .. g : [y EXCEPT !.generation = n] \in Rounds(g)
  BY DEF Rounds
<1>3. \A y \in Rounds(g) : \A I \in SUBSET Items : [y EXCEPT !.items = I] \in Rounds(g)
  BY DEF Rounds
<1>4. \A y \in Rounds(g) : [y EXCEPT !.ok = FALSE] \in Rounds(g)
  BY DEF Rounds
<1> QED
  BY <1>1, <1>2, <1>3, <1>4

LEMMA InitGood == Init => IInv
<1> SUFFICES ASSUME Init PROVE IInv
  OBVIOUS
<1> USE DEF Init, Idle
<1>1. TypeOK
  <2>1. round \in [Runner -> Rounds(generation)]
    <3>1. Idle \in Rounds(0)
      BY DEF Rounds
    <3>2. [Idle EXCEPT !.pc = "lock"] \in Rounds(0)
      BY <3>1 DEF Rounds
    <3> QED
      BY <3>1, <3>2
  <2> QED
    <3>1. \A r \in Runner : round[r].pc \in {"sign", "put"} => publishing = r
      OBVIOUS
    <3>2. round \in [Runner -> [pc : {"idle", "lock", "sign", "put"}, generation : 0 .. generation,
                                items : SUBSET Items, ok : BOOLEAN]]
      BY <2>1 DEF Rounds
    <3>3. /\ waiter = None /\ late \subseteq Items
          /\ packets \in [Key -> 0 .. MaxEdits] /\ previous \in 0 .. MaxSeq
          /\ edits \in 0 .. MaxEdits /\ generation \in 0 .. edits /\ published \in 0 .. generation
          /\ {returned, landed, removed} \subseteq [Key -> 0 .. edits]
      BY BoundsAssumption
    <3>4. changed \in BOOLEAN
      OBVIOUS
    <3> QED
      BY <3>1, <3>2, <3>3, <3>4 DEF TypeOK
<1>2. Counted
  <2>1. Uncounted = {}
    BY DEF Uncounted
  <2> QED
    BY <2>1, FS_EmptySet DEF Counted
<1>3. EditsOrdered
  BY DEF EditsOrdered
<1>4. Signed = {}
  BY NoneAssumption, BoundsAssumption DEF Signed, Items
<1>5. SignedInOrder
  BY <1>4 DEF SignedInOrder
<1>6. RoundsFresh
  BY DEF RoundsFresh
<1>7. Covered
  BY DEF Covered, Served
<1> QED
  BY <1>1, <1>2, <1>3, <1>5, <1>6, <1>7 DEF IInv

LEMMA TypeStep ==
  ASSUME IInv, [Next]_vars PROVE TypeOK'
<1> USE BoundsAssumption, NoneAssumption, ClockAssumption, TaskAssumption DEF TypeOK
<1> DEFINE RoundType == round' \in [Runner -> Rounds(generation')]
<1>0. /\ round \in [Runner -> Rounds(generation)]
      /\ \A r \in Runner : round[r] \in Rounds(generation)
      /\ \A r \in Runner : \A x \in Rounds(generation) :
           [round EXCEPT ![r] = x] \in [Runner -> Rounds(generation)]
  BY DEF IInv, Rounds
<1>1. ASSUME NEW e \in Editor, edited(e) PROVE TypeOK'
  <2>1. generation + 1 \in 0 .. edits
    <3>1. Uncounted # {} /\ IsFiniteSet(Uncounted)
      BY <1>1, EditorAssumption, FS_Subset DEF edited, Uncounted
    <3>2. Cardinality(Uncounted) \in Nat /\ Cardinality(Uncounted) # 0
      BY <3>1, FS_EmptySet, FS_CardinalityType
    <3> QED
      BY <3>2 DEF IInv, Counted
  <2>2. generation' \in 0 .. edits' /\ 0 .. generation \subseteq 0 .. generation'
    BY <1>1, <2>1 DEF edited, IInv
  <2>3. RoundType
    BY <1>1, <1>0, <2>2 DEF edited, Rounds
  <2>4. waiter' \in {None} \cup [generation : 0 .. generation', returned : [Key -> 0 .. edits']]
    BY <1>1, <2>2 DEF edited, IInv
  <2>5. returned' \in [Key -> 0 .. edits']
    BY <1>1 DEF edited, IInv, EditsOrdered
  <2> QED
    BY <1>1, <2>2, <2>3, <2>4, <2>5 DEF edited, IInv, Rounds
<1>2. ASSUME NEW e \in Editor, NEW k \in Key, set_raw(e, k) PROVE TypeOK'
  BY <1>2 DEF set_raw, editRest, IInv
<1>3. ASSUME NEW e \in Editor, NEW k \in Key, remove(e, k) PROVE TypeOK'
  BY <1>3 DEF remove, editRest, IInv
<1>4. ASSUME NEW r \in Runner, CallRound(r) PROVE TypeOK'
  <2>1. RoundType
    BY <1>0, <1>4, RoundUpdate DEF CallRound, roundRest, IInv
  <2> QED
    <3>1. changed' \in BOOLEAN
      BY <1>4 DEF CallRound, IInv
    <3>2. \A q \in Runner : round'[q].pc \in {"sign", "put"} => publishing' = q
      BY <1>4 DEF CallRound, IInv
    <3> QED
      BY <1>4, <2>1, <3>1, <3>2 DEF CallRound, roundRest, editVars, IInv, Rounds
<1>5. ASSUME NEW r \in Runner, StartRound(r) PROVE TypeOK'
  <2>1. RoundType
    <3>1. [round[r] EXCEPT !.pc = "sign", !.generation = generation] \in Rounds(generation)
      <4>1. generation \in 0 .. generation
        BY DEF IInv
      <4> QED
        BY <1>0, <4>1, RoundUpdate, Zenon
    <3> QED
      BY <1>0, <1>5, <3>1 DEF StartRound, roundRest
  <2> QED
    BY <1>5, <2>1 DEF StartRound, roundRest, editVars, IInv, Rounds
<1>6. ASSUME NEW r \in Runner, ClockFailed(r) PROVE TypeOK'
  BY <1>6 DEF ClockFailed, roundRest, editVars, IInv, Idle
<1>7. ASSUME NEW r \in Runner, FinishRound(r) PROVE TypeOK'
  BY <1>7 DEF FinishRound, roundRest, editVars, IInv, Idle
<1>8. ASSUME NEW r \in Runner, Cancel(r) PROVE TypeOK'
  BY <1>8 DEF Cancel, roundRest, editVars, IInv, Idle
<1>9. ASSUME NEW r \in Runner, NEW now \in Clock, sign_all(r, now) PROVE TypeOK'
  <2>1. previous' \in 0 .. MaxSeq
    BY <1>9 DEF sign_all, Sequence, IInv
  <2>2. \A k \in {j \in Key : packets[j] # 0} :
          [key |-> k, packet |-> packets[k], seq |-> previous'] \in Items
    BY <2>1 DEF IInv, Items
  <2>3. RoundType
    <3> DEFINE items == {[key |-> k, packet |-> packets[k], seq |-> previous'] :
                           k \in {j \in Key : packets[j] # 0}}
    <3>1. items \in SUBSET Items
      BY <2>2
    <3>2. round' = [round EXCEPT ![r] = [round[r] EXCEPT !.pc = "put", !.items = items]]
      BY <1>9 DEF sign_all
    <3> HIDE DEF items
    <3>3. [round[r] EXCEPT !.pc = "put", !.items = items] \in Rounds(generation)
      BY <1>0, <3>1, RoundUpdate
    <3> QED
      BY <1>0, <1>9, <3>2, <3>3 DEF sign_all, roundRest
  <2> QED
    BY <1>9, <2>1, <2>3 DEF sign_all, roundRest, editVars, IInv, Rounds
<1>10. ASSUME NEW r \in Runner, NEW item \in round[r].items, PutOk(r, item) PROVE TypeOK'
  <2>1. item \in Items /\ item.packet \in 0 .. edits
    <3>1. item \in Items
      BY DEF IInv
    <3>2. item \in Signed
      BY <3>1 DEF Signed
    <3> QED
      BY <3>1, <3>2 DEF IInv, SignedInOrder, Items
  <2>2. RoundType
    <3>0. round[r].items \ {item} \in SUBSET Items
      BY <1>0 DEF Rounds
    <3>1. [round[r] EXCEPT !.items = @ \ {item}] \in Rounds(generation)
      BY <3>0, <1>0, RoundUpdate
    <3> QED
      BY <1>0, <1>10, <3>1 DEF PutOk, roundRest
  <2>3. dht' \in [Key -> [packet : 1 .. MaxEdits, seq : 0 .. MaxSeq] \cup {None}]
    BY <1>10, <2>1 DEF PutOk, Land, IInv, Items
  <2> QED
    <3>1. landed' \in [Key -> 0 .. edits]
      BY <1>10, <2>1 DEF PutOk, IInv, Items
    <3>2. \A q \in Runner : round'[q].pc \in {"sign", "put"} => publishing' = q
      BY <1>10 DEF PutOk, IInv
    <3> QED
      BY <1>10, <2>2, <2>3, <3>1, <3>2 DEF PutOk, roundRest, editVars, IInv, Rounds
<1>11. ASSUME NEW r \in Runner, NEW item \in round[r].items, PutErr(r, item) PROVE TypeOK'
  <2>1. item \in Items /\ item.packet \in 0 .. edits
    <3>1. item \in Items
      BY DEF IInv
    <3>2. item \in Signed
      BY <3>1 DEF Signed
    <3> QED
      BY <3>1, <3>2 DEF IInv, SignedInOrder, Items
  <2>2. RoundType
    <3>0. round[r].items \ {item} \in SUBSET Items
      BY <1>0 DEF Rounds
    <3>1. [round[r] EXCEPT !.items = round[r].items \ {item}, !.ok = FALSE]
            \in Rounds(generation)
      BY <3>0, <1>0, RoundUpdate, Zenon
    <3> QED
      BY <1>0, <1>11, <3>1 DEF PutErr, roundRest
  <2>3. dht' \in [Key -> [packet : 1 .. MaxEdits, seq : 0 .. MaxSeq] \cup {None}]
    BY <1>11, <2>1 DEF PutErr, Land, IInv, Items
  <2> QED
    BY <1>11, <2>1, <2>2, <2>3 DEF PutErr, roundRest, editVars, IInv, Items, Rounds
<1>12. ASSUME NEW item \in late, Late(item) PROVE TypeOK'
  BY <1>12 DEF Late, Land, roundRest, editVars, IInv, Items
<1>13. CASE wait_published
  BY <1>13 DEF wait_published, waitRest, editVars, IInv
<1>14. CASE WaitReturns
  BY <1>14 DEF WaitReturns, waitRest, editVars, IInv
<1>15. CASE UNCHANGED vars
  BY <1>15 DEF vars, history, IInv
<1> QED
  BY <1>1, <1>2, <1>3, <1>4, <1>5, <1>6, <1>7, <1>8, <1>9, <1>10, <1>11, <1>12, <1>13, <1>14,
     <1>15 DEF Next

\* What the three parts of an edit are to the others: only they move these variables.
Edit == \E e \in Editor : edited(e) \/ \E k \in Key : set_raw(e, k) \/ remove(e, k)

Round(r) == \/ CallRound(r) \/ StartRound(r) \/ ClockFailed(r) \/ FinishRound(r) \/ Cancel(r)
            \/ \E now \in Clock : sign_all(r, now)
            \/ \E item \in round[r].items : PutOk(r, item) \/ PutErr(r, item)

\* What a step of runner r leaves in its locals.
LEMMA RoundAfter ==
  ASSUME TypeOK, NEW r \in Runner, Round(r)
  PROVE  /\ \A q \in Runner \ {r} : round'[q] = round[q]
         /\ CallRound(r) => round'[r].pc = "lock" /\ round'[r].items = round[r].items
         /\ StartRound(r) => round'[r].pc = "sign" /\ round'[r].items = round[r].items
         /\ ClockFailed(r) \/ FinishRound(r) \/ Cancel(r) => round'[r] = Idle
         /\ \A now \in Clock : sign_all(r, now) =>
              /\ round'[r].pc = "put"
              /\ round'[r].generation = round[r].generation /\ round'[r].ok = round[r].ok
              /\ round'[r].items = {[key |-> k, packet |-> packets[k], seq |-> previous'] :
                                      k \in {j \in Key : packets[j] # 0}}
         /\ \A item \in round[r].items : PutOk(r, item) =>
              /\ round'[r].pc = "put" /\ round'[r].items = round[r].items \ {item}
              /\ round'[r].generation = round[r].generation /\ round'[r].ok = round[r].ok
         /\ \A item \in round[r].items : PutErr(r, item) =>
              /\ round'[r].pc = "put" /\ round'[r].items = round[r].items \ {item}
              /\ round'[r].generation = round[r].generation /\ ~round'[r].ok
<1>0. round[r] \in Rounds(generation) /\ DOMAIN round = Runner
  BY DEF TypeOK, Rounds
<1>2. \A q \in Runner \ {r} : round'[q] = round[q]
  BY <1>0 DEF Round, CallRound, StartRound, ClockFailed, FinishRound, Cancel, sign_all, PutOk, PutErr
<1>3. CallRound(r) => round'[r].pc = "lock" /\ round'[r].items = round[r].items
  BY <1>0 DEF CallRound, Rounds
<1>4. ASSUME StartRound(r) PROVE round'[r].pc = "sign" /\ round'[r].items = round[r].items
  <2>1. round'[r] = [round[r] EXCEPT !.pc = "sign", !.generation = generation]
    BY <1>0, <1>4 DEF StartRound
  <2> QED
    BY <1>0, <2>1 DEF Rounds
<1>5. ClockFailed(r) \/ FinishRound(r) \/ Cancel(r) => round'[r] = Idle
  BY <1>0 DEF ClockFailed, FinishRound, Cancel
<1>6. ASSUME NEW now \in Clock, sign_all(r, now)
      PROVE  /\ round'[r].pc = "put"
             /\ round'[r].generation = round[r].generation /\ round'[r].ok = round[r].ok
             /\ round'[r].items = {[key |-> k, packet |-> packets[k], seq |-> previous'] :
                                     k \in {j \in Key : packets[j] # 0}}
  <2> DEFINE items == {[key |-> k, packet |-> packets[k], seq |-> previous'] :
                         k \in {j \in Key : packets[j] # 0}}
  <2>1. round'[r] = [round[r] EXCEPT !.pc = "put", !.items = items]
    BY <1>0, <1>6 DEF sign_all
  <2> HIDE DEF items
  <2>2. /\ round'[r].pc = "put" /\ round'[r].generation = round[r].generation
        /\ round'[r].items = items
    BY <1>0, <2>1 DEF Rounds
  <2>3. round'[r].ok = round[r].ok
    BY <1>0, <2>1 DEF Rounds
  <2> QED
    BY <2>2, <2>3 DEF items
<1>7. ASSUME NEW item \in round[r].items, PutOk(r, item)
      PROVE  /\ round'[r].pc = "put" /\ round'[r].items = round[r].items \ {item}
             /\ round'[r].generation = round[r].generation /\ round'[r].ok = round[r].ok
  <2>1. round[r].pc = "put" /\ round'[r] = [round[r] EXCEPT !.items = @ \ {item}]
    BY <1>0, <1>7 DEF PutOk
  <2>2. round'[r].pc = "put" /\ round'[r].items = round[r].items \ {item}
        /\ round'[r].generation = round[r].generation
    BY <1>0, <2>1 DEF Rounds
  <2>3. round'[r].ok = round[r].ok
    BY <1>0, <2>1 DEF Rounds
  <2> QED
    BY <2>2, <2>3
<1>8. ASSUME NEW item \in round[r].items, PutErr(r, item)
      PROVE  /\ round'[r].pc = "put" /\ round'[r].items = round[r].items \ {item}
             /\ round'[r].generation = round[r].generation /\ ~round'[r].ok
  <2>1. /\ round[r].pc = "put"
        /\ round'[r] = [round[r] EXCEPT !.items = round[r].items \ {item}, !.ok = FALSE]
    BY <1>0, <1>8 DEF PutErr
  <2>2. round'[r].pc = "put" /\ round'[r].items = round[r].items \ {item}
        /\ round'[r].generation = round[r].generation
    BY <1>0, <2>1 DEF Rounds
  <2>3. ~round'[r].ok
    BY <1>0, <2>1 DEF Rounds
  <2> QED
    BY <2>2, <2>3
<1> QED
  BY <1>2, <1>3, <1>4, <1>5, <1>6, <1>7, <1>8

\* Rounds, late puts and waiters edit nothing.
LEMMA OthersEditNothing ==
  ASSUME [Next]_vars, ~Edit PROVE UNCHANGED <<editVars, generation, returned>>
<1> USE DEF roundRest, waitRest, editVars
<1>1. ASSUME NEW r \in Runner, Round(r) PROVE UNCHANGED <<editVars, generation, returned>>
  BY <1>1 DEF Round, CallRound, StartRound, ClockFailed, FinishRound, Cancel, sign_all, PutOk, PutErr
<1>2. ASSUME NEW item \in late, Late(item) PROVE UNCHANGED <<editVars, generation, returned>>
  BY <1>2 DEF Late
<1>3. CASE wait_published \/ WaitReturns
  BY <1>3 DEF wait_published, WaitReturns
<1>4. CASE UNCHANGED vars
  BY <1>4 DEF vars, history
<1> QED
  BY <1>1, <1>2, <1>3, <1>4 DEF Next, Edit, Round

LEMMA CountedStep ==
  ASSUME IInv, [Next]_vars PROVE Counted'
<1> USE DEF IInv, TypeOK
<1>0. IsFiniteSet(Uncounted) /\ Cardinality(Uncounted) \in Nat
  BY EditorAssumption, FS_Subset, FS_CardinalityType DEF Uncounted
<1>1. ASSUME NEW e \in Editor, edited(e) PROVE Counted'
  <2>1. e \in Uncounted /\ Uncounted' = Uncounted \ {e}
    BY <1>1 DEF edited, Uncounted
  <2>2. Cardinality(Uncounted') = Cardinality(Uncounted) - 1
    BY <1>0, <2>1, FS_RemoveElement
  <2> QED
    BY <1>0, <1>1, <2>2 DEF edited, Counted
<1>2. ASSUME NEW e \in Editor, NEW k \in Key, set_raw(e, k) \/ remove(e, k) PROVE Counted'
  <2>1. <<k, edits'>> # None
    BY <1>2, NoneAssumption DEF set_raw, remove
  <2>2. e \notin Uncounted /\ Uncounted' = Uncounted \cup {e}
    BY <1>2, <2>1 DEF set_raw, remove, Uncounted
  <2>3. Cardinality(Uncounted') = Cardinality(Uncounted) + 1
    BY <1>0, <2>2, FS_AddElement
  <2> QED
    BY <1>0, <1>2, <2>3 DEF set_raw, remove, editRest, Counted
<1>3. CASE ~Edit
  BY <1>3, OthersEditNothing DEF editVars, Counted, Uncounted
<1> QED
  BY <1>1, <1>2, <1>3 DEF Edit

\* Only PutOk moves `landed`.
LEMMA EditsOrderedStep ==
  ASSUME IInv, [Next]_vars PROVE EditsOrdered'
<1> USE BoundsAssumption, NoneAssumption DEF IInv, TypeOK
<1>1. ASSUME NEW e \in Editor, edited(e) PROVE EditsOrdered'
  BY <1>1 DEF edited, EditsOrdered
<1>2. ASSUME NEW e \in Editor, NEW k \in Key, set_raw(e, k) PROVE EditsOrdered'
  BY <1>2 DEF set_raw, editRest, EditsOrdered
<1>3. ASSUME NEW e \in Editor, NEW k \in Key, remove(e, k) PROVE EditsOrdered'
  BY <1>3 DEF remove, editRest, EditsOrdered
<1>4. ASSUME NEW r \in Runner, NEW item \in round[r].items, PutOk(r, item) PROVE EditsOrdered'
  <2>1. item \in Signed /\ item \in Items
    BY DEF Signed
  <2>2. packets[item.key] # 0 => item.packet <= packets[item.key]
    BY <2>1 DEF SignedInOrder
  <2> QED
    BY <1>4, <2>1, <2>2 DEF PutOk, roundRest, editVars, EditsOrdered, Items
<1>5. CASE ~Edit /\ UNCHANGED landed
  BY <1>5, OthersEditNothing DEF editVars, EditsOrdered
<1>6. CASE ~Edit /\ ~UNCHANGED landed
  <2>1. PICK r \in Runner : \E item \in round[r].items : PutOk(r, item)
    BY <1>6 DEF Next, Edit, CallRound, StartRound, ClockFailed, FinishRound, Cancel, sign_all,
                PutErr, Late, wait_published, WaitReturns, waitRest, vars, history
  <2> QED
    BY <1>4, <2>1
<1> QED
  BY <1>1, <1>2, <1>3, <1>5, <1>6 DEF Edit

\* Only sign_all signs.
LEMMA SignedOnlyBySignAll ==
  ASSUME IInv, [Next]_vars, \A r \in Runner, now \in Clock : ~sign_all(r, now)
  PROVE  Signed' \subseteq Signed
<1> USE DEF IInv, TypeOK
<1>0. ASSUME UNCHANGED dht, late' \subseteq Signed,
             \A q \in Runner : round'[q].items \subseteq round[q].items
      PROVE  Signed' \subseteq Signed
  BY <1>0 DEF Signed
<1>1. ASSUME NEW item \in Signed, item \in Items, Land(item) \/ UNCHANGED dht, late' \subseteq late,
             \A q \in Runner : round'[q].items \subseteq round[q].items
      PROVE  Signed' \subseteq Signed
  <2>1. CASE UNCHANGED dht
    BY <1>0, <1>1, <2>1 DEF Signed
  <2>2. CASE Land(item)
    <3>1. dht' = [dht EXCEPT ![item.key] = [packet |-> item.packet, seq |-> item.seq]]
      BY <2>2 DEF Land
    <3>2. ASSUME NEW i \in Items, dht'[i.key] = [packet |-> i.packet, seq |-> i.seq]
          PROVE  i \in Signed
      <4>1. CASE i.key = item.key
        <5>1. [packet |-> i.packet, seq |-> i.seq] = [packet |-> item.packet, seq |-> item.seq]
          BY <1>1, <3>1, <3>2, <4>1 DEF Items
        <5>2. i.packet = item.packet /\ i.seq = item.seq
          BY <5>1
        <5>3. i = item
          BY <1>1, <4>1, <5>2 DEF Items
        <5> QED
          BY <1>1, <5>3
      <4>2. CASE i.key # item.key
        <5>1. dht'[i.key] = dht[i.key]
          BY <3>1, <4>2 DEF Items
        <5> QED
          BY <3>2, <5>1 DEF Signed
      <4> QED
        BY <4>1, <4>2
    <3>3. ASSUME NEW i \in Signed' PROVE i \in Signed
      <4>1. CASE dht'[i.key] = [packet |-> i.packet, seq |-> i.seq]
        BY <3>2, <4>1 DEF Signed
      <4>2. CASE i \in late' \/ \E q \in Runner : i \in round'[q].items
        BY <1>1, <4>2 DEF Signed
      <4> QED
        BY <4>1, <4>2 DEF Signed
    <3> QED
      BY <3>3
  <2> QED
    BY <1>1, <2>1, <2>2
<1>2. CASE Edit
  BY <1>0, <1>2 DEF Edit, edited, set_raw, remove, editRest, Signed
<1>3. ASSUME NEW r \in Runner, CallRound(r) \/ StartRound(r) PROVE Signed' \subseteq Signed
  <2>1. \A q \in Runner : round'[q].items = round[q].items
    BY <1>3, RoundAfter DEF Round
  <2> QED
    BY <1>0, <1>3, <2>1 DEF CallRound, StartRound, Signed
<1>4. ASSUME NEW r \in Runner, ClockFailed(r) \/ FinishRound(r) \/ Cancel(r)
      PROVE  Signed' \subseteq Signed
  <2>1. \A q \in Runner : round'[q].items \subseteq round[q].items
    BY <1>4 DEF ClockFailed, FinishRound, Cancel, Idle
  <2>2. late' \subseteq Signed /\ UNCHANGED dht
    BY <1>4 DEF ClockFailed, FinishRound, Cancel, Signed
  <2> QED
    BY <1>0, <2>1, <2>2
<1>5. ASSUME NEW r \in Runner, NEW item \in round[r].items, PutOk(r, item) \/ PutErr(r, item)
      PROVE  Signed' \subseteq Signed
  <2>1. \A q \in Runner : round'[q].items \subseteq round[q].items
    BY <1>5, RoundAfter DEF Round
  <2>2. item \in Signed /\ item \in Items
    BY DEF Signed
  <2> QED
    BY <1>1, <1>5, <2>1, <2>2 DEF PutOk, PutErr
<1>6. ASSUME NEW item \in late, Late(item) PROVE Signed' \subseteq Signed
  <2>1. item \in Signed /\ item \in Items
    BY DEF Signed
  <2> QED
    BY <1>1, <1>6, <2>1 DEF Late
<1>7. CASE wait_published \/ WaitReturns \/ UNCHANGED vars
  BY <1>0, <1>7 DEF wait_published, WaitReturns, waitRest, vars, Signed
<1> QED
  BY <1>2, <1>3, <1>4, <1>5, <1>6, <1>7 DEF Next, Edit

LEMMA SignedInOrderStep ==
  ASSUME IInv, [Next]_vars PROVE SignedInOrder'
<1> USE DEF IInv, TypeOK
<1>0. \A i \in Signed : i.key \in Key /\ i.seq \in Nat /\ i.packet \in Nat
  BY BoundsAssumption DEF Signed, Items
<1>1. CASE Signed' \subseteq Signed /\ UNCHANGED previous
  <2>1. \A i \in Signed' : /\ i \in Signed /\ i.seq <= previous' /\ i.packet <= edits
                           /\ packets[i.key] # 0 => i.packet <= packets[i.key]
    BY <1>1 DEF SignedInOrder
  <2>2. \A i \in Signed' : /\ i.packet <= edits'
                           /\ packets'[i.key] # 0 => i.packet <= packets'[i.key]
    <3>1. CASE ~Edit
      BY <2>1, <3>1, OthersEditNothing DEF editVars
    <3>2. CASE \E e \in Editor : edited(e)
      BY <2>1, <3>2 DEF edited
    <3>3. CASE \E e \in Editor, k \in Key : set_raw(e, k) \/ remove(e, k)
      BY <1>0, <2>1, <3>3 DEF set_raw, remove
    <3> QED
      BY <3>1, <3>2, <3>3 DEF Edit
  <2>3. \A i, j \in Signed' : i.key = j.key /\ i.seq < j.seq => i.packet <= j.packet
    BY <1>1 DEF SignedInOrder
  <2> QED
    BY <2>1, <2>2, <2>3 DEF SignedInOrder
<1>2. ASSUME NEW r \in Runner, NEW now \in Clock, sign_all(r, now) PROVE SignedInOrder'
  <2>1. previous' \in Nat /\ previous' > previous
    BY <1>2, ClockAssumption DEF sign_all, Sequence
  <2>2. ASSUME NEW i \in Signed'
        PROVE  \/ i \in Signed
               \/ i.key \in Key /\ packets[i.key] # 0 /\ i.packet = packets[i.key] /\ i.seq = previous'
    <3>1. UNCHANGED <<dht, late>>
      BY <1>2 DEF sign_all
    <3>2. ASSUME NEW q \in Runner, i \in round'[q].items
          PROVE  \/ i \in round[q].items
                 \/ i.key \in Key /\ packets[i.key] # 0 /\ i.packet = packets[i.key] /\ i.seq = previous'
      BY <1>2, <3>2 DEF sign_all
    <3> QED
      BY <3>1, <3>2 DEF Signed
  <2>3. UNCHANGED <<packets, edits>>
    BY <1>2 DEF sign_all, roundRest, editVars
  <2>4. \A i \in Signed' : /\ i.seq <= previous' /\ i.packet <= edits'
                           /\ packets'[i.key] # 0 => i.packet <= packets'[i.key]
    BY <1>0, <2>1, <2>2, <2>3 DEF SignedInOrder, EditsOrdered
  <2>5. ASSUME NEW i \in Signed', NEW j \in Signed', i.key = j.key, i.seq < j.seq
        PROVE  i.packet <= j.packet
    BY <1>0, <2>1, <2>2, <2>5 DEF SignedInOrder
  <2> QED
    BY <2>4, <2>5 DEF SignedInOrder
<1>3. ASSUME \A r \in Runner, now \in Clock : ~sign_all(r, now) PROVE UNCHANGED previous
  BY <1>3 DEF Next, edited, set_raw, remove, editRest, CallRound, StartRound, ClockFailed, FinishRound,
              Cancel, PutOk, PutErr, Late, wait_published, WaitReturns, waitRest, vars
<1> QED
  BY <1>1, <1>2, <1>3, SignedOnlyBySignAll
\* The lock: at most one runner has items.
LEMMA OneRoundPuts ==
  ASSUME IInv, NEW q \in Runner, NEW r \in Runner, q # r, round[r].pc \in {"sign", "put"}
  PROVE  round[q].pc \notin {"sign", "put"} /\ round[q].items = {}
BY NoneAssumption DEF IInv, TypeOK, RoundsFresh

LEMMA RoundsFreshStep ==
  ASSUME IInv, [Next]_vars PROVE RoundsFresh'
<1>0. /\ TypeOK /\ RoundsFresh
      /\ \A r \in Runner : \A i \in round[r].items : i \in Items /\ i \in Signed
      /\ \A i \in late : i \in Items /\ i \in Signed
  BY DEF IInv, TypeOK, Signed
<1>t. /\ previous \in Nat /\ landed \in [Key -> Nat]
      /\ \A i \in Items : i.key \in Key /\ i.seq \in Nat /\ i.packet \in Nat
      /\ dht \in [Key -> [packet : 1 .. MaxEdits, seq : 0 .. MaxSeq] \cup {None}]
  BY <1>0, BoundsAssumption DEF TypeOK, Items
<1>1. CASE UNCHANGED <<round, late, dht, landed, previous>>
  BY <1>0, <1>1 DEF RoundsFresh
<1>2. ASSUME NEW r \in Runner, CallRound(r) \/ StartRound(r) PROVE RoundsFresh'
  <2>1. UNCHANGED <<late, dht, landed, previous>>
    BY <1>2 DEF CallRound, StartRound
  <2>2. \A q \in Runner : /\ round'[q].items = round[q].items
                          /\ round'[q].pc = "put" <=> round[q].pc = "put" /\ q # r
    BY <1>0, <1>2, RoundAfter DEF Round
  <2>3. round[r].items = {}
    BY <1>0, <1>2 DEF CallRound, StartRound, RoundsFresh
  <2> QED
    BY <1>0, <2>1, <2>2, <2>3 DEF RoundsFresh
<1>3. ASSUME NEW r \in Runner, ClockFailed(r) \/ FinishRound(r) \/ Cancel(r)
      PROVE  RoundsFresh'
  <2>1. UNCHANGED <<dht, landed, previous>> /\ round[r].pc \in {"sign", "put"}
    BY <1>3 DEF ClockFailed, FinishRound, Cancel
  <2>2. ASSUME NEW q \in Runner PROVE round'[q].pc # "put" /\ round'[q].items = {}
    <3>1. CASE q = r
      BY <1>0, <1>3, <3>1, RoundAfter DEF Round, Idle
    <3>2. CASE q # r
      BY <1>0, <1>3, <2>1, <3>2, RoundAfter, OneRoundPuts DEF Round
    <3> QED
      BY <3>1, <3>2
  <2> QED
    BY <2>2 DEF RoundsFresh
<1>4. ASSUME NEW r \in Runner, NEW now \in Clock, sign_all(r, now) PROVE RoundsFresh'
  <2>1. UNCHANGED <<late, dht, landed>> /\ round[r].pc = "sign"
    BY <1>4 DEF sign_all
  <2>2. previous' \in Nat /\ previous' > previous
    BY <1>t, <1>4, ClockAssumption DEF sign_all, Sequence
  <2>3. ASSUME NEW q \in Runner, q # r
        PROVE  round'[q].pc # "put" /\ round'[q].items = {}
    BY <1>0, <1>4, <2>1, <2>3, RoundAfter, OneRoundPuts DEF Round
  <2>4. \A i \in late' : i.seq < previous'
    BY <1>0, <1>t, <2>1, <2>2 DEF IInv, SignedInOrder
  <2>5. round'[r].items = {[key |-> k, packet |-> packets[k], seq |-> previous'] :
                             k \in {j \in Key : packets[j] # 0}}
    BY <1>0, <1>4, RoundAfter DEF Round
  <2>6. ASSUME NEW i \in round'[r].items
        PROVE  /\ i.seq = previous'
               /\ dht[i.key] # None => dht[i.key].seq < previous'
               /\ landed[i.key] <= i.packet
    <3>1. PICK k \in Key : packets[k] # 0
                           /\ i = [key |-> k, packet |-> packets[k], seq |-> previous']
      BY <2>5, <2>6
    <3>2. landed[k] <= packets[k]
      BY <3>1 DEF IInv, EditsOrdered
    <3>3. ASSUME dht[k] # None PROVE dht[k].seq < previous'
      <4> DEFINE d == [key |-> k, packet |-> dht[k].packet, seq |-> dht[k].seq]
      <4>1. dht[k] \in [packet : 1 .. MaxEdits, seq : 0 .. MaxSeq]
        BY <1>t, <3>3
      <4>2. d \in Items /\ dht[d.key] = [packet |-> d.packet, seq |-> d.seq]
        BY <4>1 DEF Items
      <4>3. d \in Signed
        BY <4>2 DEF Signed
      <4>4. d.seq <= previous
        BY <4>3 DEF IInv, SignedInOrder
      <4> QED
        BY <1>t, <2>2, <4>1, <4>4, BoundsAssumption
    <3> QED
      BY <3>1, <3>2, <3>3
  <2>7. \A i, j \in round'[r].items : i.key = j.key => i = j
    BY <2>5
  <2>8. round'[r].pc = "put"
    BY <1>0, <1>4, RoundAfter DEF Round
  <2> QED
    BY <2>1, <2>3, <2>4, <2>6, <2>7, <2>8 DEF RoundsFresh
<1>5. ASSUME NEW r \in Runner, NEW item \in round[r].items, PutOk(r, item) \/ PutErr(r, item)
      PROVE  RoundsFresh'
  <2>1. UNCHANGED <<late, previous>> /\ round[r].pc = "put"
    BY <1>5 DEF PutOk, PutErr
  <2>2. ASSUME NEW q \in Runner, q # r
        PROVE  round'[q].pc # "put" /\ round'[q].items = {}
    BY <1>0, <1>5, <2>1, <2>2, RoundAfter, OneRoundPuts DEF Round
  <2>3. round'[r].pc = "put" /\ round'[r].items = round[r].items \ {item}
    BY <1>0, <1>5, RoundAfter DEF Round
  <2>4. \A k \in Key : k # item.key => dht'[k] = dht[k] /\ landed'[k] = landed[k]
    BY <1>0, <1>t, <1>5 DEF PutOk, PutErr, Land
  <2>5. \A i \in round'[r].items : i \in round[r].items /\ i.key # item.key /\ i.key \in Key
    BY <1>0, <1>t, <2>3 DEF RoundsFresh
  <2> QED
    BY <1>0, <2>1, <2>2, <2>3, <2>4, <2>5 DEF RoundsFresh
<1>6. ASSUME NEW item \in late, Late(item) PROVE RoundsFresh'
  <2>1. UNCHANGED <<round, landed, previous>> /\ late' \subseteq late
    BY <1>6 DEF Late
  <2>2. ASSUME NEW r \in Runner, NEW i \in round[r].items
        PROVE  dht'[i.key] # None => dht'[i.key].seq < previous
    <3>1. item.seq < previous /\ i.key \in Key
      BY <1>0, <1>t DEF RoundsFresh
    <3>2. dht'[i.key] = dht[i.key] \/ dht'[i.key] = [packet |-> item.packet, seq |-> item.seq]
      BY <1>0, <1>t, <1>6, <3>1 DEF Late, Land
    <3> QED
      BY <1>0, <3>1, <3>2 DEF RoundsFresh
  <2> QED
    BY <1>0, <2>1, <2>2 DEF RoundsFresh
<1>7. CASE Edit \/ wait_published \/ WaitReturns \/ UNCHANGED vars
  BY <1>1, <1>7 DEF Edit, edited, set_raw, remove, editRest, wait_published, WaitReturns, waitRest,
                    vars, history
<1> QED
  BY <1>2, <1>3, <1>4, <1>5, <1>6, <1>7 DEF Next, Edit
\* What was put stays put, or is replaced by a later edit.
LEMMA ServedStays ==
  ASSUME IInv, [Next]_vars
  PROVE  \A k \in Key : /\ landed'[k] >= landed[k] /\ removed'[k] >= removed[k]
                        /\ \A n \in Nat : Served(k, n) => Served(k, n)'
<1>0. /\ landed \in [Key -> Nat] /\ removed \in [Key -> 0 .. edits] /\ edits \in Nat
      /\ landed' \in [Key -> Nat] /\ removed' \in [Key -> Nat]
  BY TypeStep, BoundsAssumption DEF IInv, TypeOK
<1>1. ASSUME NEW k \in Key PROVE landed'[k] >= landed[k]
  <2>1. CASE UNCHANGED landed
    BY <1>0, <2>1
  <2>2. ASSUME NEW r \in Runner, NEW item \in round[r].items, PutOk(r, item)
        PROVE  landed'[k] >= landed[k]
    <3>1. landed[item.key] <= item.packet /\ item \in Items
      BY DEF IInv, RoundsFresh, TypeOK
    <3> QED
      BY <1>0, <2>2, <3>1 DEF PutOk, Items
  <2> QED
    BY <2>1, <2>2 DEF Next, edited, set_raw, remove, editRest, CallRound, StartRound, ClockFailed,
         FinishRound, Cancel, sign_all, PutErr, Late, wait_published, WaitReturns, waitRest, vars,
         history
<1>2. ASSUME NEW k \in Key PROVE removed'[k] >= removed[k]
  <2>1. CASE UNCHANGED removed
    BY <1>0, <2>1
  <2>2. ASSUME NEW e \in Editor, NEW j \in Key, remove(e, j) PROVE removed'[k] >= removed[k]
    BY <1>0, <2>2 DEF remove
  <2> QED
    BY <2>1, <2>2, OthersEditNothing DEF Edit, edited, set_raw, editVars
<1> QED
  BY <1>0, <1>1, <1>2 DEF Served

LEMMA CoveredStep ==
  ASSUME IInv, [Next]_vars PROVE Covered'
<1>0. /\ TypeOK /\ RoundsFresh /\ Covered /\ EditsOrdered
      /\ generation \in Nat /\ published \in 0 .. generation
      /\ returned \in [Key -> Nat] /\ landed \in [Key -> Nat] /\ removed \in [Key -> Nat]
      /\ packets \in [Key -> Nat]
      /\ \A r \in Runner : round[r].generation \in 0 .. generation
      /\ waiter # None => /\ waiter.generation \in 0 .. generation
                          /\ waiter.returned \in [Key -> Nat]
  BY BoundsAssumption DEF IInv, TypeOK
<1>1. ASSUME NEW e \in Editor, edited(e) PROVE Covered'
  <2>1. /\ UNCHANGED <<published, round, waiter, landed, removed>> /\ generation' = generation + 1
        /\ \A k \in Key : returned'[k] >= returned[k]
    BY <1>0, <1>1 DEF edited, TypeOK
  <2>2. \A r \in Runner : generation' > round[r].generation
    BY <1>0, <2>1
  <2>3. generation' > published
    BY <1>0, <2>1
  <2>4. \A k \in Key : returned'[k] \in Nat
    BY TypeStep, BoundsAssumption DEF IInv, TypeOK
  <2>5. waiter' # None => \A k \in Key : waiter'.returned[k] <= returned'[k]
    BY <1>0, <2>1, <2>4 DEF Covered
  <2>6. waiter' # None /\ published' >= waiter'.generation =>
          \A k \in Key : Served(k, waiter.returned[k])'
    BY <1>0, <2>1 DEF Covered, Served
  <2>7. ASSUME NEW r \in Runner, round'[r].pc = "put", round'[r].ok
        PROVE  waiter' # None /\ round'[r].generation >= waiter'.generation =>
                 \A k \in Key : WillServe(r, k, waiter.returned[k])'
    BY <1>0, <2>1, <2>7 DEF Covered, Served, WillServe
  <2> QED
    BY <1>0, <2>1, <2>2, <2>3, <2>5, <2>6, <2>7 DEF Covered
<1>2. ASSUME NEW e \in Editor, NEW k \in Key, set_raw(e, k) \/ remove(e, k) PROVE Covered'
  <2>1. UNCHANGED <<published, round, waiter, generation, returned>>
    BY <1>2 DEF set_raw, remove, editRest
  <2>2. \A j \in Key : \A n \in Nat : Served(j, n) => Served(j, n)'
    BY ServedStays
  <2>3. \A r \in Runner : \A j \in Key : \A n \in Nat : WillServe(r, j, n) => WillServe(r, j, n)'
    BY <2>1, <2>2 DEF WillServe
  <2> QED
    BY <1>0, <2>1, <2>2, <2>3 DEF Covered
<1>3. ASSUME NEW r \in Runner, Round(r), ~round'[r].ok \/ round'[r].pc # "put",
             UNCHANGED published
      PROVE  Covered'
  <2>1. UNCHANGED <<waiter, generation, returned>>
    BY <1>3 DEF Round, CallRound, StartRound, ClockFailed, FinishRound, Cancel, sign_all, PutOk,
                PutErr, roundRest
  <2>2. \A j \in Key : \A n \in Nat : Served(j, n) => Served(j, n)'
    BY ServedStays
  <2>3. \A q \in Runner \ {r} : round'[q] = round[q]
    BY <1>0, <1>3, RoundAfter
  <2>4. \A q \in Runner \ {r} : \A j \in Key : \A n \in Nat :
          WillServe(q, j, n) => WillServe(q, j, n)'
    BY <2>2, <2>3 DEF WillServe
  <2> QED
    BY <1>0, <1>3, <2>1, <2>2, <2>3, <2>4 DEF Covered
<1>4. ASSUME NEW r \in Runner, FinishRound(r) PROVE Covered'
  <2>1. /\ UNCHANGED <<waiter, generation, returned, landed, removed>>
        /\ round[r].pc = "put" /\ round[r].items = {}
        /\ published' = IF round[r].ok THEN round[r].generation ELSE published
    BY <1>4 DEF FinishRound, roundRest, editVars
  <2>2. \A q \in Runner : round'[q].pc # "put"
    BY <1>0, <1>4, <2>1, RoundAfter, OneRoundPuts DEF Round, Idle
  <2>3. round[r].ok => \A k \in Key : \A n \in Nat : WillServe(r, k, n) => Served(k, n)
    BY <2>1 DEF WillServe
  <2>4. \A k \in Key, n \in Nat : Served(k, n) => Served(k, n)'
    BY ServedStays
  <2>5. published' = generation => \A k \in Key : Served(k, returned[k])
    BY <1>0, <2>1, <2>3 DEF Covered
  <2>6. waiter # None /\ published' >= waiter.generation =>
          \A k \in Key : Served(k, waiter.returned[k])
    BY <1>0, <2>1, <2>3 DEF Covered
  <2>7. waiter # None => \A k \in Key : waiter.returned[k] <= returned[k]
    BY <1>0 DEF Covered
  <2> QED
    BY <1>0, <2>1, <2>2, <2>4, <2>5, <2>6, <2>7 DEF Covered
<1>5. ASSUME NEW r \in Runner, NEW now \in Clock, sign_all(r, now) PROVE Covered'
  <2>1. /\ UNCHANGED <<waiter, generation, returned, published, landed, removed>>
        /\ round[r].pc = "sign"
    BY <1>5 DEF sign_all, roundRest, editVars
  <2>2. \A q \in Runner : q # r => round'[q].pc # "put"
    BY <1>0, <1>5, <2>1, RoundAfter, OneRoundPuts DEF Round
  <2>3. round'[r].items = {[key |-> k, packet |-> packets[k], seq |-> previous'] :
                             k \in {j \in Key : packets[j] # 0}}
    BY <1>0, <1>5, RoundAfter DEF Round
  <2>4. ASSUME NEW k \in Key, NEW n \in Nat, n <= returned[k] PROVE WillServe(r, k, n)'
    <3>1. CASE packets[k] # 0 /\ packets[k] >= returned[k]
      <4> DEFINE i == [key |-> k, packet |-> packets[k], seq |-> previous']
      <4>1. i \in round'[r].items
        BY <2>3, <3>1
      <4>2. i.key = k /\ i.packet >= n
        BY <1>0, <2>4, <3>1
      <4> QED
        BY <4>1, <4>2 DEF WillServe
    <3>2. CASE packets[k] = 0 /\ packets[k] >= returned[k]
      BY <1>0, <2>1, <2>4, <3>2 DEF WillServe, Served
    <3>3. CASE removed[k] >= returned[k]
      BY <1>0, <2>1, <2>4, <3>3 DEF WillServe, Served
    <3> QED
      BY <1>0, <3>1, <3>2, <3>3 DEF EditsOrdered
  <2>5. \A k \in Key : WillServe(r, k, returned[k])'
    BY <1>0, <2>1, <2>4
  <2>6. waiter # None => \A k \in Key : WillServe(r, k, waiter.returned[k])'
    BY <1>0, <2>1, <2>4 DEF Covered
  <2> QED
    BY <1>0, <2>1, <2>2, <2>5, <2>6 DEF Covered, Served
<1>6. ASSUME NEW r \in Runner, NEW item \in round[r].items, PutOk(r, item) PROVE Covered'
  <2>1. /\ UNCHANGED <<waiter, generation, returned, published, removed>>
        /\ round[r].pc = "put" /\ item \in Items
        /\ landed' = [landed EXCEPT ![item.key] = item.packet]
    BY <1>0, <1>6 DEF PutOk, roundRest, editVars, TypeOK
  <2>2. \A q \in Runner : q # r => round'[q].pc # "put"
    BY <1>0, <1>6, <2>1, RoundAfter, OneRoundPuts DEF Round
  <2>3. \A j \in Key : \A n \in Nat : Served(j, n) => Served(j, n)'
    BY ServedStays
  <2>4. /\ round'[r].items = round[r].items \ {item}
        /\ round'[r].generation = round[r].generation /\ round'[r].ok = round[r].ok
    BY <1>0, <1>6, RoundAfter DEF Round
  <2>5. \A k \in Key : \A n \in Nat : WillServe(r, k, n) => WillServe(r, k, n)'
    <3> SUFFICES ASSUME NEW k \in Key, NEW n \in Nat, WillServe(r, k, n)
                 PROVE  WillServe(r, k, n)'
      OBVIOUS
    <3>1. CASE Served(k, n)
      BY <2>3, <3>1 DEF WillServe
    <3>2. ASSUME NEW i \in round[r].items, i.key = k, i.packet >= n, i # item
          PROVE  WillServe(r, k, n)'
      BY <2>4, <3>2 DEF WillServe
    <3>3. CASE item.key = k /\ item.packet >= n
      BY <1>0, <2>1, <3>3 DEF WillServe, Served
    <3> QED
      BY <3>1, <3>2, <3>3 DEF WillServe
  <2> QED
    BY <1>0, <2>1, <2>2, <2>3, <2>4, <2>5 DEF Covered
<1>7. ASSUME NEW item \in late, Late(item) PROVE Covered'
  BY <1>0, <1>7 DEF Late, roundRest, editVars, Covered, Served, WillServe
<1>8. CASE wait_published
  <2>1. /\ UNCHANGED <<generation, returned, published, round, landed, removed>>
        /\ waiter' = [generation |-> generation, returned |-> returned]
    BY <1>8 DEF wait_published, waitRest, editVars
  <2>2. waiter'.generation = generation /\ waiter'.returned = returned
    BY <2>1
  <2> QED
    BY <1>0, <2>1, <2>2 DEF Covered, Served, WillServe
<1>9. CASE WaitReturns
  BY <1>0, <1>9 DEF WaitReturns, waitRest, editVars, Covered, Served, WillServe
<1>10. CASE UNCHANGED vars
  BY <1>0, <1>10 DEF vars, history, Covered, Served, WillServe
<1>11. ASSUME NEW r \in Runner, Round(r) PROVE Covered'
  <2>1. CASE FinishRound(r)
    BY <1>4, <2>1
  <2>2. CASE \/ \E now \in Clock : sign_all(r, now)
             \/ \E item \in round[r].items : PutOk(r, item)
    BY <1>5, <1>6, <2>2
  <2>3. CASE \/ CallRound(r) \/ StartRound(r) \/ ClockFailed(r) \/ Cancel(r)
             \/ \E item \in round[r].items : PutErr(r, item)
    <3>1. UNCHANGED published
      BY <2>3 DEF CallRound, StartRound, ClockFailed, Cancel, PutErr
    <3>2. ~round'[r].ok \/ round'[r].pc # "put"
      BY <1>0, <1>11, <2>3, RoundAfter DEF Idle
    <3> QED
      BY <1>3, <1>11, <3>1, <3>2
  <2> QED
    BY <1>11, <2>1, <2>2, <2>3 DEF Round
<1> QED
  BY <1>1, <1>2, <1>7, <1>8, <1>9, <1>10, <1>11 DEF Next, Round
\* IInv is inductive.
LEMMA StepGood == IInv /\ [Next]_vars => IInv'
BY TypeStep, CountedStep, EditsOrderedStep, SignedInOrderStep, RoundsFreshStep, CoveredStep DEF IInv

LEMMA AlwaysGood == Spec => []IInv
BY InitGood, StepGood, PTL DEF Spec

\* The variables keep their types, the generation counts no edit twice, and only the
\* holder of `publishing` is in a round.
THEOREM PkarrTypes == Spec => []TypeOK
<1>1. IInv => TypeOK
  BY DEF IInv
<1> QED
  BY <1>1, AlwaysGood, PTL

\* No put of a running round is refused as stale (sign_all's sequence numbers grow over
\* rounds, the clock going back, and cancelled callers).
THEOREM RoundsNeverStale == Spec => []RoundsAreNewest
<1>1. IInv => RoundsAreNewest
  BY BoundsAssumption DEF IInv, TypeOK, Items, RoundsFresh, RoundsAreNewest, Newer
<1> QED
  BY <1>1, AlwaysGood, PTL

\* What a step does to Mainline: an item that was signed replaces an older one.
LEMMA PutsGoForward ==
  ASSUME IInv, [Next]_vars, NEW k \in Key, dht[k] # None PROVE dht'[k].packet >= dht[k].packet
<1>0. dht[k] \in [packet : 1 .. MaxEdits, seq : 0 .. MaxSeq]
  BY DEF IInv, TypeOK
<1>1. ASSUME NEW item \in Items, item \in Signed, Newer(item), Land(item)
      PROVE  dht'[k].packet >= dht[k].packet
  <2> DEFINE d == [key |-> k, packet |-> dht[k].packet, seq |-> dht[k].seq]
  <2>1. d \in Items /\ dht[d.key] = [packet |-> d.packet, seq |-> d.seq]
    BY <1>0 DEF Items
  <2>2. d \in Signed
    BY <2>1 DEF Signed
  <2>3. dht' = [dht EXCEPT ![item.key] = [packet |-> item.packet, seq |-> item.seq]]
    BY <1>1 DEF Land
  <2>4. CASE k = item.key
    <3>1. item.packet >= d.packet
      <4>1. d.seq < item.seq /\ d.key = item.key
        BY <1>0, <1>1, <2>4, BoundsAssumption DEF Newer, Items
      <4> QED
        BY <1>1, <2>1, <2>2, <4>1, BoundsAssumption DEF IInv, SignedInOrder, Items
    <3>2. dht'[k].packet = item.packet
      BY <2>3, <2>4 DEF IInv, TypeOK
    <3> QED
      BY <3>1, <3>2
  <2>5. CASE k # item.key
    BY <1>0, <2>3, <2>5 DEF IInv, TypeOK
  <2> QED
    BY <2>4, <2>5
<1>2. CASE UNCHANGED dht
  BY <1>0, <1>2
<1>3. ASSUME NEW r \in Runner, NEW item \in round[r].items, PutOk(r, item) \/ PutErr(r, item)
      PROVE  dht'[k].packet >= dht[k].packet
  <2>1. item \in Items /\ item \in Signed
    BY DEF IInv, TypeOK, Signed
  <2> QED
    BY <1>1, <1>2, <1>3, <2>1 DEF PutOk, PutErr
<1>4. ASSUME NEW item \in late, Late(item) PROVE dht'[k].packet >= dht[k].packet
  <2>1. item \in Items /\ item \in Signed
    BY DEF IInv, TypeOK, Signed
  <2> QED
    BY <1>1, <1>2, <1>4, <2>1 DEF Late
<1> QED
  BY <1>2, <1>3, <1>4 DEF Next, edited, set_raw, remove, editRest, CallRound, StartRound, ClockFailed,
       FinishRound, Cancel, sign_all, wait_published, WaitReturns, waitRest, vars

\* Mainline never goes back to a packet that was set earlier, whatever the clock reads and
\* however late a cancelled put arrives.
THEOREM MainlineOnlyGrows == Spec => NeverGoesBack
<1>1. IInv /\ [Next]_vars => \A k \in Key : dht[k] # None => dht'[k].packet >= dht[k].packet
  BY PutsGoForward
<1> QED
  BY <1>1, AlwaysGood, PTL DEF Spec, NeverGoesBack

\* wait_published keeps its promise: what had been set when it was called is on Mainline,
\* or replaced or removed since.
THEOREM WaitIsTrue == Spec => WaitMeansPublished
<1>1. ASSUME IInv, [Next]_vars, waiter # None, waiter' = None, NEW k \in Key
      PROVE  \/ waiter.returned[k] = 0
             \/ landed[k] >= waiter.returned[k]
             \/ removed[k] >= waiter.returned[k]
  <2>1. WaitReturns
    BY <1>1, NoneAssumption DEF Next, edited, set_raw, remove, editRest, CallRound, StartRound,
         ClockFailed, FinishRound, Cancel, sign_all, PutOk, PutErr, Late, roundRest, wait_published,
         vars
  <2> QED
    BY <1>1, <2>1 DEF WaitReturns, IInv, Covered, Served
<1>2. IInv /\ [Next]_vars =>
        (waiter # None /\ waiter' = None =>
           \A k \in Key : \/ waiter.returned[k] = 0
                          \/ landed[k] >= waiter.returned[k]
                          \/ removed[k] >= waiter.returned[k])
  BY <1>1
<1> QED
  BY <1>2, AlwaysGood, PTL DEF Spec, WaitMeansPublished
============================================================================
