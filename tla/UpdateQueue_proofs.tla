------------------------- MODULE UpdateQueue_proofs -------------------------
(***************************************************************************)
(* Proofs about UpdateQueue, for any sets of names, peers, handlers and    *)
(* workers and any bounds.                                                 *)
(*                                                                         *)
(* None of the invariants is inductive alone.  That the queue indexes the  *)
(* entries and that no queued item is disposed of both need to know which  *)
(* record every pointer leads to (HeapOK), and the bound on the length of  *)
(* the queue needs to count the handlers that passed the length test and   *)
(* have not inserted yet (AdmissionBound).                                 *)
(***************************************************************************)
EXTENDS UpdateQueue, FiniteSetTheorems, SequenceTheorems, TLAPS

\* Most steps are first-order; those that compute or need record types cite SMT.
USE Zenon

\* Every queued item is allocated, carries the name it is queued for, has not
\* been disposed of and is not being worked on; every item worked on is
\* allocated.
HeapOK ==
  /\ \A n \in Names : entries[n] # NoItem =>
       /\ item[entries[n]] \in ItemRecord
       /\ item[entries[n]].name = n
       /\ ~item[entries[n]].disposed
  /\ \A w \in Workers : work[w] # NoItem => item[work[w]] \in ItemRecord
  /\ \A n \in Names, w \in Workers :
       entries[n] # NoItem => entries[n] # work[w]

\* Handlers that passed the length test and have not left Enqueue.
Admitted == {h \in Handlers : handler[h].pc # "idle"}

\* Each admitted handler may still add one name to the queue.
AdmissionBound ==
  Len(queue) + Cardinality(Admitted) < MaxLen + Cardinality(Handlers)

\* The queue lists exactly the names with an entry, once each.
QueueOK ==
  /\ queueLen = Len(queue)
  /\ \A i, j \in 1..Len(queue) : queue[i] = queue[j] => i = j
  /\ \A n \in Names :
       entries[n] # NoItem <=> \E i \in 1..Len(queue) : queue[i] = n

\* The inductive invariant.
IInv ==
  /\ TypeOK
  /\ QueueOK
  /\ HeapOK
  /\ PeersAnnouncedItem
  /\ AdmissionBound

----------------------------------------------------------------------------
(* Facts about handlers and the heap *)

\* The admitted handlers are finitely many, and no more than the handlers.
LEMMA AdmittedFinite ==
  /\ IsFiniteSet(Admitted)
  /\ Cardinality(Admitted) \in Nat
  /\ Cardinality(Handlers) \in Nat
  /\ Cardinality(Admitted) <= Cardinality(Handlers)
<1>1. IsFiniteSet(Handlers) BY HandlersFinite
<1>2. Admitted \subseteq Handlers BY DEF Admitted
<1>3. IsFiniteSet(Admitted) /\ Cardinality(Admitted) <= Cardinality(Handlers)
  BY <1>1, <1>2, FS_Subset
<1> QED BY <1>1, <1>3, FS_CardinalityType

\* A handler that is not idle handles an update.
LEMMA BusyHandlerRuns ==
  ASSUME TypeOK, NEW h \in Handlers, handler[h].pc # "idle"
  PROVE  /\ handler[h] \in Running
         /\ handler[h].upd \in Update
BY SMT DEF TypeOK, Idle, Running

\* When a handler returns it is not admitted any more, and the others are as
\* they were.
LEMMA ReturnLeaves ==
  ASSUME TypeOK, NEW h \in Handlers, handler[h].pc # "idle", Return(h)
  PROVE  /\ handler' \in [Handlers -> {Idle} \cup Running]
         /\ Cardinality(Admitted') = Cardinality(Admitted) - 1
         /\ Cardinality(Admitted') \in Nat
<1>1. handler' \in [Handlers -> {Idle} \cup Running]
  BY DEF TypeOK, Return
<1>2. Admitted' = Admitted \ {h}
  BY DEF TypeOK, Return, Admitted, Idle
<1>3. h \in Admitted
  BY DEF Admitted
<1>4. IsFiniteSet(Admitted)
  BY AdmittedFinite
<1>5. Cardinality(Admitted \ {h}) = Cardinality(Admitted) - 1
  BY <1>3, <1>4, FS_RemoveElement
<1>6. IsFiniteSet(Admitted \ {h})
  BY <1>3, <1>4, FS_RemoveElement
<1> QED BY <1>1, <1>2, <1>5, <1>6, FS_CardinalityType

\* A step inside Enqueue keeps the handler admitted.
LEMMA MoveStays ==
  ASSUME TypeOK, NEW h \in Handlers, handler[h].pc # "idle",
         NEW pc \in {"checked", "validated", "compared"}, MoveTo(h, pc)
  PROVE  /\ handler' \in [Handlers -> {Idle} \cup Running]
         /\ Admitted' = Admitted
<1>1. handler[h] \in Running
  BY BusyHandlerRuns
<1>2. [handler[h] EXCEPT !.pc = pc] \in Running
  BY <1>1 DEF Running
<1>3. handler' = [handler EXCEPT ![h] = [handler[h] EXCEPT !.pc = pc]]
  BY DEF MoveTo
<1>4. handler' \in [Handlers -> {Idle} \cup Running]
  BY <1>2, <1>3 DEF TypeOK
<1>5. [handler[h] EXCEPT !.pc = pc].pc = pc
  BY <1>1 DEF Running
<1>6. pc # "idle"
  OBVIOUS
<1>7. Admitted' = Admitted
  BY <1>3, <1>5, <1>6 DEF TypeOK, Admitted
<1> QED BY <1>4, <1>7

\* The record built for an update belongs to the heap.
LEMMA NewItemType ==
  ASSUME NEW u \in Update
  PROVE  /\ NewItem(u) \in ItemRecord
         /\ NewItem(u).name = u.name
         /\ NewItem(u).epoch = u.epoch
         /\ NewItem(u).size = u.size
         /\ NewItem(u).peerIDs = {Announced(u)}
         /\ NewItem(u).disposed = FALSE
         /\ Announced(u) \in Announcement
BY SMT DEF NewItem, Announced, Update, ItemRecord, Announcement

----------------------------------------------------------------------------
(* One lemma per action *)

\* A new queue is empty and nothing is allocated.
LEMMA InitIInv == Init => IInv
<1> SUFFICES ASSUME Init PROVE IInv
  OBVIOUS
<1>1. TypeOK
  BY BoundsAreNats, SMT DEF Init, TypeOK, Epochs, Sizes
<1>2. QueueOK
  BY SMT DEF Init, QueueOK
<1>3. HeapOK /\ PeersAnnouncedItem
  BY DEF Init, HeapOK, PeersAnnouncedItem
<1>4. AdmissionBound
  <2>1. Admitted = {}
    BY DEF Init, Admitted, Idle
  <2>2. Cardinality(Admitted) = 0
    BY <2>1, FS_EmptySet
  <2>3. Cardinality(Handlers) \in Nat /\ Cardinality(Handlers) # 0
    BY HandlersFinite, FS_CardinalityType, FS_EmptySet
  <2> QED BY <2>2, <2>3, BoundsAreNats, SMT DEF Init, AdmissionBound
<1> QED BY <1>1, <1>2, <1>3, <1>4 DEF IInv

\* A step that leaves the queue and its items alone keeps what is said of them.
LEMMA UnchangedHeap ==
  ASSUME QueueOK, HeapOK, PeersAnnouncedItem,
         UNCHANGED <<queue, queueLen, entries, item, work>>
  PROVE  QueueOK' /\ HeapOK' /\ PeersAnnouncedItem'
<1>1. QueueOK'
  BY ZenonT(60) DEF QueueOK
<1>2. HeapOK'
  BY DEF HeapOK
<1>3. PeersAnnouncedItem'
  BY DEF PeersAnnouncedItem
<1> QED BY <1>1, <1>2, <1>3

\* A handler is admitted only while the queue is shorter than MaxLen.
LEMMA CheckLenIInv ==
  ASSUME IInv, NEW h \in Handlers, NEW u \in Updates, CheckLen(h, u)
  PROVE  IInv'
<1> USE DEF IInv
<1>0. u \in Update
  BY UpdatesAreTyped
<1>1. [pc |-> "checked", upd |-> u] \in Running
  BY <1>0 DEF Running
<1>2. TypeOK'
  BY <1>1 DEF TypeOK, CheckLen
<1>3. QueueOK' /\ HeapOK' /\ PeersAnnouncedItem'
  <2>1. UNCHANGED <<queue, queueLen, entries, item, work>>
    BY DEF CheckLen
  <2> QED BY <2>1, UnchangedHeap
<1>4. AdmissionBound'
  <2>1. Admitted' = Admitted \cup {h} /\ h \notin Admitted
    BY DEF Admitted, CheckLen, TypeOK
  <2>2. IsFiniteSet(Admitted) /\ Cardinality(Admitted) \in Nat
    BY AdmittedFinite
  <2>3. Cardinality(Admitted \cup {h}) = Cardinality(Admitted) + 1
    BY <2>1, <2>2, FS_AddElement
  <2>4. Admitted \cup {h} \subseteq Handlers
    BY DEF Admitted
  <2>5. Cardinality(Admitted \cup {h}) <= Cardinality(Handlers)
    BY <2>4, HandlersFinite, FS_Subset
  <2>6. Len(queue) < MaxLen /\ Len(queue) \in Nat /\ Len(queue') = Len(queue)
    BY DEF CheckLen, QueueOK, TypeOK
  <2> QED BY <2>1, <2>2, <2>3, <2>5, <2>6, AdmittedFinite, BoundsAreNats, SMT
          DEF AdmissionBound
<1> QED BY <1>2, <1>3, <1>4

\* The checks of Enqueue that do not touch the queue.
LEMMA CheckStepIInv ==
  ASSUME IInv, NEW h \in Handlers,
         Validate(h) \/ CompareHeader(h) \/ InsertRejected(h)
  PROVE  IInv'
<1> USE DEF IInv
<1>1. handler[h].pc # "idle" /\ handler[h].upd \in Update
  BY BusyHandlerRuns DEF Validate, CompareHeader, InsertRejected
<1>2. \/ Return(h)
      \/ MoveTo(h, "validated")
      \/ MoveTo(h, "compared")
  BY DEF Validate, CompareHeader, InsertRejected
<1>3. /\ handler' \in [Handlers -> {Idle} \cup Running]
      /\ Cardinality(Admitted') \in Nat
      /\ Cardinality(Admitted') <= Cardinality(Admitted)
  BY <1>1, <1>2, ReturnLeaves, MoveStays, AdmittedFinite, SMTT(60)
<1>4. proofReqs' \in SUBSET [peer : Peers, name : Names, epoch : Epochs]
  BY <1>1, SMT DEF Validate, CompareHeader, InsertRejected, TypeOK, Update
<1>5. UNCHANGED <<queue, queueLen, entries, item, work, header, allowed,
                  imported>>
  BY DEF Validate, CompareHeader, InsertRejected
<1>6. TypeOK'
  BY <1>3, <1>4, <1>5 DEF TypeOK
<1>7. QueueOK' /\ HeapOK' /\ PeersAnnouncedItem'
  BY <1>5, UnchangedHeap
<1>8. AdmissionBound'
  BY <1>3, <1>5, AdmittedFinite, BoundsAreNats, SMT DEF AdmissionBound, TypeOK
<1> QED BY <1>6, <1>7, <1>8

\* What InsertNew does to the heap: the new item is one no pointer led to, and
\* every other item that can still be reached keeps its record.
LEMMA InsertNewHeap ==
  ASSUME IInv, NEW h \in Handlers, InsertNew(h)
  PROVE  LET u == handler[h].upd IN
         \E i \in Items :
           /\ \A n \in Names : entries[n] # i
           /\ \A w \in Workers : work[w] # i
           /\ entries' = [entries EXCEPT ![u.name] = i]
           /\ item'[i] = NewItem(u)
           /\ \A n \in Names : n # u.name /\ entries[n] # NoItem =>
                item'[entries[n]] = item[entries[n]]
           /\ \A w \in Workers : work[w] # NoItem =>
                item'[work[w]] = item[work[w]]
           /\ item' \in [Items -> ItemRecord \cup {NoItem}]
<1> DEFINE u == handler[h].upd
           i == CHOOSE j \in Items \ Live(entries, work) : TRUE
           heap == [item EXCEPT ![i] = NewItem(u)]
           live == Live(entries', work)
<1>1. u \in Update
  BY BusyHandlerRuns DEF IInv, InsertNew
<1>2. i \in Items \ Live(entries, work)
  BY DEF InsertNew
<1>3. entries' = [entries EXCEPT ![u.name] = i] /\ item' = Collect(heap, live)
  BY DEF InsertNew
<1> HIDE DEF i
<1>4. u.name \in Names
  BY <1>1 DEF Update
<1>5. /\ \A n \in Names : entries[n] # i
      /\ \A w \in Workers : work[w] # i
  BY <1>2 DEF Live
<1>6. entries \in [Names -> Items \cup {NoItem}]
      /\ work \in [Workers -> Items \cup {NoItem}]
      /\ item \in [Items -> ItemRecord \cup {NoItem}]
  BY DEF IInv, TypeOK
<1>7. heap \in [Items -> ItemRecord \cup {NoItem}]
  BY <1>1, <1>2, <1>6, NewItemType
<1>8. \A j \in live \cap Items : item'[j] = heap[j]
  BY <1>3 DEF Collect
<1>9. item' \in [Items -> ItemRecord \cup {NoItem}]
  BY <1>3, <1>7 DEF Collect
<1>10. item'[i] = NewItem(u)
  <2>1. i \in live
    BY <1>3, <1>4, <1>6 DEF Live
  <2>2. heap[i] = NewItem(u)
    BY <1>2, <1>6
  <2> QED BY <1>2, <1>8, <2>1, <2>2
<1>11. ASSUME NEW n \in Names, n # u.name, entries[n] # NoItem
       PROVE  item'[entries[n]] = item[entries[n]]
  <2>1. entries[n] \in live /\ entries[n] \in Items
    BY <1>3, <1>6, <1>11 DEF Live
  <2>2. heap[entries[n]] = item[entries[n]]
    BY <1>5, <1>6, <2>1
  <2> QED BY <1>8, <2>1, <2>2
<1>12. ASSUME NEW w \in Workers, work[w] # NoItem
       PROVE  item'[work[w]] = item[work[w]]
  <2>1. work[w] \in live /\ work[w] \in Items
    BY <1>6, <1>12 DEF Live
  <2>2. heap[work[w]] = item[work[w]]
    BY <1>5, <1>6, <2>1
  <2> QED BY <1>8, <2>1, <2>2
<1> QED BY <1>2, <1>3, <1>5, <1>9, <1>10, <1>11, <1>12

\* An insert queues a name that has no entry at the tail, and replaces the item
\* of one that has.
LEMMA InsertNewIInv ==
  ASSUME IInv, NEW h \in Handlers, InsertNew(h)
  PROVE  IInv'
<1> USE DEF IInv
<1> DEFINE u == handler[h].upd
<1>1. u \in Update /\ handler[h].pc # "idle"
  BY BusyHandlerRuns DEF InsertNew
<1>2. u.name \in Names
  BY <1>1 DEF Update
<1>3. PICK i \in Items :
           /\ \A n \in Names : entries[n] # i
           /\ \A w \in Workers : work[w] # i
           /\ entries' = [entries EXCEPT ![u.name] = i]
           /\ item'[i] = NewItem(u)
           /\ \A n \in Names : n # u.name /\ entries[n] # NoItem =>
                item'[entries[n]] = item[entries[n]]
           /\ \A w \in Workers : work[w] # NoItem =>
                item'[work[w]] = item[work[w]]
           /\ item' \in [Items -> ItemRecord \cup {NoItem}]
  BY InsertNewHeap
<1>4. i # NoItem
  BY NilIsNoItem
<1>5. /\ handler' \in [Handlers -> {Idle} \cup Running]
      /\ Cardinality(Admitted') = Cardinality(Admitted) - 1
      /\ Cardinality(Admitted') \in Nat
  BY <1>1, ReturnLeaves DEF InsertNew
<1>6. UNCHANGED <<work, header, allowed, imported, proofReqs>>
  BY DEF InsertNew
<1>7. IF entries[u.name] = NoItem
      THEN queue' = Append(queue, u.name) /\ queueLen' = queueLen + 1
      ELSE queue' = queue /\ queueLen' = queueLen
  BY DEF InsertNew
<1>8. queue \in Seq(Names) /\ Len(queue) \in Nat
      /\ entries \in [Names -> Items \cup {NoItem}]
  BY SMT DEF TypeOK
<1>9. TypeOK'
  <2>0. queueLen \in Nat /\ Append(queue, u.name) \in Seq(Names)
    BY <1>2, <1>8, AppendProperties, SMT DEF TypeOK
  <2>1. queue' \in Seq(Names) /\ queueLen' \in Nat
    <3>1. queueLen + 1 \in Nat
      BY <2>0, SMT
    <3> QED BY <1>7, <1>8, <2>0, <3>1
  <2>2. entries' \in [Names -> Items \cup {NoItem}]
    BY <1>3, <1>8
  <2> QED BY <1>3, <1>5, <1>6, <2>1, <2>2 DEF TypeOK
<1>10. QueueOK'
  <2>1. CASE entries[u.name] = NoItem
    <3>1. /\ queue' = Append(queue, u.name)
          /\ queueLen' = queueLen + 1
          /\ Len(queue') = Len(queue) + 1
          /\ \A k \in 1..Len(queue) : queue'[k] = queue[k]
          /\ queue'[Len(queue) + 1] = u.name
      BY <1>2, <1>7, <1>8, <2>1, AppendProperties, SMT
    <3>2. \A k \in 1..Len(queue) : queue[k] # u.name
      BY <1>2, <2>1 DEF QueueOK
    <3>3. \A k, l \in 1..Len(queue') : queue'[k] = queue'[l] => k = l
      BY <1>8, <3>1, <3>2, SMT DEF QueueOK
    <3>4. ASSUME NEW n \in Names
          PROVE  entries'[n] # NoItem <=>
                   \E k \in 1..Len(queue') : queue'[k] = n
      <4>1. CASE n = u.name
        BY <1>3, <1>4, <1>8, <3>1, <4>1, SMT
      <4>2. CASE n # u.name
        <5>1. entries'[n] = entries[n]
          BY <1>3, <1>8, <4>2
        <5>2. (\E k \in 1..Len(queue') : queue'[k] = n)
                <=> \E k \in 1..Len(queue) : queue[k] = n
          BY <1>8, <3>1, <4>2, SMT
        <5> QED BY <5>1, <5>2 DEF QueueOK
      <4> QED BY <4>1, <4>2
    <3> QED BY <1>8, <3>1, <3>3, <3>4 DEF QueueOK
  <2>2. CASE entries[u.name] # NoItem
    <3>1. queue' = queue /\ queueLen' = queueLen
      BY <1>7, <2>2
    <3>2. \A n \in Names : entries'[n] # NoItem <=> entries[n] # NoItem
      BY <1>3, <1>4, <1>8, <2>2
    <3> QED BY <3>1, <3>2 DEF QueueOK
  <2> QED BY <2>1, <2>2
<1>11. /\ entries'[u.name] = i
       /\ \A n \in Names : n # u.name => entries'[n] = entries[n]
  BY <1>2, <1>3, <1>8
<1>12. HeapOK'
  <2>1. ASSUME NEW n \in Names, entries'[n] # NoItem
        PROVE  /\ item'[entries'[n]] \in ItemRecord
               /\ item'[entries'[n]].name = n
               /\ ~item'[entries'[n]].disposed
    <3>1. CASE n = u.name
      <4>1. item'[entries'[n]] = NewItem(u)
        BY <1>3, <1>11, <3>1
      <4> QED BY <1>1, <3>1, <4>1, NewItemType
    <3>2. CASE n # u.name
      <4>1. item'[entries'[n]] = item[entries[n]] /\ entries[n] # NoItem
        BY <1>3, <1>11, <2>1, <3>2
      <4> QED BY <4>1 DEF HeapOK
    <3> QED BY <3>1, <3>2
  <2>2. \A w \in Workers : work'[w] # NoItem => item'[work'[w]] \in ItemRecord
    BY <1>3, <1>6 DEF HeapOK
  <2>3. \A n \in Names, w \in Workers :
          entries'[n] # NoItem => entries'[n] # work'[w]
    BY <1>3, <1>6, <1>11, SMT DEF HeapOK
  <2> QED BY <2>1, <2>2, <2>3 DEF HeapOK
<1>13. PeersAnnouncedItem'
  <2> SUFFICES ASSUME NEW n \in Names, entries'[n] # NoItem
               PROVE  LET e == item'[entries'[n]] IN
                      /\ e.peerIDs # {}
                      /\ \A a \in e.peerIDs :
                           \/ a.epoch > e.epoch
                           \/ a.epoch = e.epoch /\ a.size = e.size
    BY DEF PeersAnnouncedItem
  <2>1. CASE n = u.name
    <3>1. item'[entries'[n]] = NewItem(u)
      BY <1>3, <1>11, <2>1
    <3>2. Announced(u).epoch = u.epoch /\ Announced(u).size = u.size
      BY DEF Announced
    <3> QED BY <1>1, <3>1, <3>2, NewItemType, ZenonT(60)
  <2>2. CASE n # u.name
    <3>1. item'[entries'[n]] = item[entries[n]] /\ entries[n] # NoItem
      BY <1>3, <1>11, <2>2
    <3> QED BY <3>1 DEF PeersAnnouncedItem
  <2> QED BY <2>1, <2>2
<1>14. AdmissionBound'
  <2>1. Len(queue') <= Len(queue) + 1 /\ Len(queue') \in Nat
    BY <1>2, <1>7, <1>8, AppendProperties, SMT
  <2> QED BY <1>5, <1>8, <2>1, AdmittedFinite, BoundsAreNats, SMT
          DEF AdmissionBound
<1> QED BY <1>9, <1>10, <1>12, <1>13, <1>14

\* A peer joins an item only with an update that asks for the item's size in
\* the item's epoch, or for a later epoch.
LEMMA InsertPeerIInv ==
  ASSUME IInv, NEW h \in Handlers, InsertPeer(h)
  PROVE  /\ IInv'
         /\ \A n \in Names : entries[n] # NoItem =>
              item'[entries[n]].size = item[entries[n]].size
<1> USE DEF IInv
<1> DEFINE u == handler[h].upd
           i == entries[u.name]
           e == item[i]
           f == [e EXCEPT !.peerIDs = e.peerIDs \cup {Announced(u)}]
<1>1. u \in Update /\ handler[h].pc # "idle"
  BY BusyHandlerRuns DEF InsertPeer
<1>2. u.name \in Names /\ u.epoch \in Nat /\ u.size \in Nat
  BY <1>1, BoundsAreNats, SMT DEF Update, Epochs, Sizes
<1>3. i # NoItem /\ i \in Items
  BY <1>2 DEF InsertPeer, Joins, Replaces, TypeOK
<1>4. e \in ItemRecord /\ e.name = u.name /\ ~e.disposed
  BY <1>2, <1>3, ZenonT(60) DEF HeapOK
<1>5. e.epoch \in Nat /\ e.size \in Nat
  <2> HIDE DEF e
  <2> QED BY <1>4, BoundsAreNats, SMTT(60) DEF ItemRecord, Epochs, Sizes
<1>6. e.epoch < u.epoch \/ (e.epoch = u.epoch /\ e.size = u.size)
  <2>1. e.epoch <= u.epoch /\ (e.epoch = u.epoch => e.size <= u.size)
    BY DEF InsertPeer, Joins
  <2>2. ~(e.size < u.size)
    BY <1>3 DEF InsertPeer, Joins, Replaces
  <2> HIDE DEF u, e
  <2> QED BY <1>2, <1>5, <2>1, <2>2, SMT
<1>7. /\ f \in ItemRecord
      /\ f.name = e.name /\ f.epoch = e.epoch /\ f.size = e.size
      /\ f.disposed = e.disposed
      /\ f.peerIDs = e.peerIDs \cup {Announced(u)}
  BY <1>1, <1>4, NewItemType DEF ItemRecord
<1>8. item' = [item EXCEPT ![i] = f]
  BY DEF InsertPeer
<1>9. UNCHANGED <<queue, queueLen, entries, work, header, allowed, imported,
                  proofReqs>>
  BY DEF InsertPeer
<1>10. /\ handler' \in [Handlers -> {Idle} \cup Running]
       /\ Cardinality(Admitted') = Cardinality(Admitted) - 1
       /\ Cardinality(Admitted') \in Nat
  BY <1>1, ReturnLeaves DEF InsertPeer
<1>11. /\ item' \in [Items -> ItemRecord \cup {NoItem}]
       /\ item'[i] = f
       /\ \A j \in Items : j # i => item'[j] = item[j]
  BY <1>3, <1>7, <1>8 DEF TypeOK
<1>12. ASSUME NEW n \in Names, entries[n] # NoItem, n # u.name
       PROVE  item'[entries[n]] = item[entries[n]]
  <2>1. entries[n] \in Items
    BY <1>12 DEF TypeOK
  <2>2. entries[n] # i
    BY <1>4, <1>12 DEF HeapOK
  <2> QED BY <1>11, <2>1, <2>2
<1>13. TypeOK'
  BY <1>9, <1>10, <1>11 DEF TypeOK
<1>14. QueueOK'
  BY <1>9, ZenonT(60) DEF QueueOK
<1>15. HeapOK'
  <2>1. ASSUME NEW n \in Names, entries[n] # NoItem
        PROVE  /\ item'[entries[n]] \in ItemRecord
               /\ item'[entries[n]].name = n
               /\ ~item'[entries[n]].disposed
    <3>1. CASE n = u.name
      BY <1>4, <1>7, <1>11, <3>1
    <3>2. CASE n # u.name
      BY <1>12, <2>1, <3>2 DEF HeapOK
    <3> QED BY <3>1, <3>2
  <2>2. ASSUME NEW w \in Workers, work[w] # NoItem
        PROVE  item'[work[w]] \in ItemRecord
    <3>1. work[w] \in Items /\ work[w] # i
      BY <1>2, <1>3, <2>2 DEF HeapOK, TypeOK
    <3> QED BY <1>11, <2>2, <3>1 DEF HeapOK
  <2> QED BY <1>9, <2>1, <2>2 DEF HeapOK
<1>16. PeersAnnouncedItem'
  <2> SUFFICES ASSUME NEW n \in Names, entries[n] # NoItem
               PROVE  LET r == item'[entries[n]] IN
                      /\ r.peerIDs # {}
                      /\ \A a \in r.peerIDs :
                           \/ a.epoch > r.epoch
                           \/ a.epoch = r.epoch /\ a.size = r.size
    BY <1>9 DEF PeersAnnouncedItem
  <2>1. CASE n = u.name
    <3>1. item'[entries[n]] = f
      BY <1>11, <2>1
    <3>2. Announced(u).epoch = u.epoch /\ Announced(u).size = u.size
      BY DEF Announced
    <3>3. \A a \in e.peerIDs :
            a.epoch > e.epoch \/ (a.epoch = e.epoch /\ a.size = e.size)
      BY <1>2, <1>3 DEF PeersAnnouncedItem
    <3>4. Announced(u).epoch > e.epoch \/
            (Announced(u).epoch = e.epoch /\ Announced(u).size = e.size)
      BY <1>2, <1>5, <1>6, <3>2
    <3> QED BY <1>7, <3>1, <3>3, <3>4
  <2>2. CASE n # u.name
    BY <1>12, <2>2, SMT DEF PeersAnnouncedItem
  <2> QED BY <2>1, <2>2
<1>17. AdmissionBound'
  BY <1>9, <1>10, AdmittedFinite, BoundsAreNats, SMT DEF AdmissionBound, TypeOK
<1>18. \A n \in Names : entries[n] # NoItem =>
         item'[entries[n]].size = item[entries[n]].size
  BY <1>7, <1>11, <1>12
<1> QED BY <1>13, <1>14, <1>15, <1>16, <1>17, <1>18

\* Dequeue takes the head of the queue out of the map, so the item it hands to
\* the worker is not queued under any name any more.
LEMMA DequeueIInv ==
  ASSUME IInv, NEW w \in Workers, Dequeue(w)
  PROVE  IInv'
<1> USE DEF IInv
<1> DEFINE m == Head(queue)
<1>1. queue \in Seq(Names) /\ queue # <<>>
  BY DEF Dequeue, TypeOK
<1>2. /\ m \in Names /\ m = queue[1]
      /\ Len(queue) \in Nat \ {0}
      /\ Tail(queue) \in Seq(Names)
      /\ Len(Tail(queue)) = Len(queue) - 1
      /\ \A k \in 1..Len(Tail(queue)) : Tail(queue)[k] = queue[k + 1]
  BY <1>1, HeadTailProperties, EmptySeq, SMT
<1>3. entries[m] # NoItem /\ entries[m] \in Items
  <2>1. 1 \in 1..Len(queue)
    BY <1>2, SMT
  <2>2. entries[m] # NoItem
    BY <1>2, <2>1 DEF QueueOK
  <2> QED BY <1>2, <2>2 DEF TypeOK
<1>4. /\ queue' = Tail(queue)
      /\ queueLen' = queueLen - 1
      /\ entries' = [entries EXCEPT ![m] = NoItem]
      /\ work' = [work EXCEPT ![w] = entries[m]]
      /\ UNCHANGED <<item, handler, header, allowed, imported, proofReqs>>
  BY DEF Dequeue
<1>5. /\ entries'[m] = NoItem
      /\ \A n \in Names : n # m => entries'[n] = entries[n]
      /\ work'[w] = entries[m]
      /\ \A v \in Workers : v # w => work'[v] = work[v]
  BY <1>2, <1>4 DEF TypeOK
<1>6. TypeOK'
  <2>1. queueLen' \in Nat
    BY <1>2, <1>4, SMT DEF QueueOK
  <2>2. entries' \in [Names -> Items \cup {NoItem}]
        /\ work' \in [Workers -> Items \cup {NoItem}]
    BY <1>3, <1>4 DEF TypeOK
  <2> QED BY <1>2, <1>4, <2>1, <2>2 DEF TypeOK
<1>7. QueueOK'
  <2>1. queueLen' = Len(queue')
    BY <1>2, <1>4 DEF QueueOK
  <2>2. \A k, l \in 1..Len(queue') : queue'[k] = queue'[l] => k = l
    BY <1>2, <1>4, SMT DEF QueueOK
  <2>3. ASSUME NEW n \in Names
        PROVE  entries'[n] # NoItem <=> \E k \in 1..Len(queue') : queue'[k] = n
    <3>1. CASE n = m
      <4>1. \A k \in 1..Len(queue') : queue'[k] # m
        BY <1>2, <1>4, SMT DEF QueueOK
      <4> QED BY <1>5, <3>1, <4>1
    <3>2. CASE n # m
      <4>1. ASSUME NEW k \in 1..Len(queue), queue[k] = n
            PROVE  \E l \in 1..Len(queue') : queue'[l] = n
        <5>1. k # 1
          BY <1>2, <3>2, <4>1
        <5>2. k - 1 \in 1..Len(queue') /\ queue'[k - 1] = n
          BY <1>2, <1>4, <4>1, <5>1, SMT
        <5> QED BY <5>2
      <4>2. ASSUME NEW k \in 1..Len(queue'), queue'[k] = n
            PROVE  \E l \in 1..Len(queue) : queue[l] = n
        <5>1. k + 1 \in 1..Len(queue) /\ queue[k + 1] = n
          BY <1>2, <1>4, <4>2, SMT
        <5> QED BY <5>1
      <4> QED BY <1>5, <3>2, <4>1, <4>2 DEF QueueOK
    <3> QED BY <3>1, <3>2
  <2> QED BY <2>1, <2>2, <2>3 DEF QueueOK
<1>8. HeapOK'
  <2>1. \A n \in Names : entries'[n] # NoItem => n # m /\ entries'[n] = entries[n]
    BY <1>5
  <2>2. \A n \in Names : n # m /\ entries[n] # NoItem => entries[n] # entries[m]
    BY <1>2, <1>3, SMT DEF HeapOK
  <2>3. \A n \in Names, v \in Workers :
          entries'[n] # NoItem => entries'[n] # work'[v]
    BY <1>5, <2>1, <2>2, SMTT(60) DEF HeapOK
  <2>4. \A v \in Workers : work'[v] # NoItem => item'[work'[v]] \in ItemRecord
    BY <1>2, <1>3, <1>4, <1>5, SMTT(60) DEF HeapOK
  <2> QED BY <1>4, <2>1, <2>3, <2>4 DEF HeapOK
<1>9. PeersAnnouncedItem'
  BY <1>4, <1>5, SMT DEF PeersAnnouncedItem
<1>10. AdmissionBound'
  <2>1. Admitted' = Admitted
    BY <1>4 DEF Admitted
  <2> QED BY <1>2, <1>4, <2>1, AdmittedFinite, BoundsAreNats, SMTT(60)
          DEF AdmissionBound
<1> QED BY <1>6, <1>7, <1>8, <1>9, <1>10

\* A worker disposes of its own item, which is not queued.
LEMMA FinishUpdateIInv ==
  ASSUME IInv, NEW w \in Workers, FinishUpdate(w)
  PROVE  /\ IInv'
         /\ \A n \in Names : entries[n] # NoItem =>
              item'[entries[n]] = item[entries[n]]
<1> USE DEF IInv
<1> DEFINE i == work[w]
           f == [item[i] EXCEPT !.disposed = TRUE]
           heap == [item EXCEPT ![i] = f]
<1>1. i \in Items /\ i # NoItem /\ item[i] \in ItemRecord
  BY DEF FinishUpdate, TypeOK, HeapOK
<1>2. f \in ItemRecord
  BY <1>1 DEF ItemRecord
<1>3. /\ work' = [work EXCEPT ![w] = NoItem]
      /\ item' = Collect(heap, Live(entries, work'))
      /\ UNCHANGED <<queue, queueLen, entries, handler, header, allowed,
                     imported, proofReqs>>
  BY DEF FinishUpdate
<1>4. /\ heap \in [Items -> ItemRecord \cup {NoItem}]
      /\ heap[i] = f
      /\ \A j \in Items : j # i => heap[j] = item[j]
  BY <1>1, <1>2 DEF TypeOK
<1> HIDE DEF heap, f
<1>5. /\ item' \in [Items -> ItemRecord \cup {NoItem}]
      /\ \A j \in Live(entries, work') \cap Items : item'[j] = heap[j]
  BY <1>3, <1>4 DEF Collect
<1>6. ASSUME NEW n \in Names, entries[n] # NoItem
      PROVE  item'[entries[n]] = item[entries[n]]
  <2>1. entries[n] \in Live(entries, work') /\ entries[n] \in Items
    BY <1>6 DEF Live, TypeOK
  <2>2. entries[n] # i
    BY <1>6 DEF HeapOK
  <2> QED BY <1>4, <1>5, <2>1, <2>2
<1>7. ASSUME NEW v \in Workers, work'[v] # NoItem
      PROVE  work'[v] = work[v] /\ item'[work'[v]] \in ItemRecord
  <2>1. work'[v] = work[v]
    BY <1>3, <1>7 DEF TypeOK
  <2>2. work[v] \in Items /\ work'[v] \in Live(entries, work')
    BY <1>7, <2>1 DEF TypeOK, Live
  <2>3. heap[work[v]] \in ItemRecord
    BY <1>2, <1>4, <1>7, <2>1, <2>2 DEF HeapOK
  <2>4. item'[work[v]] = heap[work[v]]
    BY <1>5, <2>1, <2>2
  <2> QED BY <2>1, <2>3, <2>4
<1>8. TypeOK'
  BY <1>3, <1>5 DEF TypeOK
<1>9. QueueOK' /\ AdmissionBound'
  BY <1>3, ZenonT(60) DEF QueueOK, AdmissionBound, Admitted
<1>10. HeapOK'
  <2>1. \A n \in Names : entries'[n] # NoItem =>
          /\ item'[entries'[n]] \in ItemRecord
          /\ item'[entries'[n]].name = n
          /\ ~item'[entries'[n]].disposed
    BY <1>3, <1>6 DEF HeapOK
  <2>2. \A n \in Names, v \in Workers :
          entries'[n] # NoItem => entries'[n] # work'[v]
    BY <1>3, <1>7, SMT DEF HeapOK
  <2> QED BY <1>7, <2>1, <2>2 DEF HeapOK
<1>11. PeersAnnouncedItem'
  <2>1. \A n \in Names : entries'[n] # NoItem =>
          /\ entries[n] # NoItem
          /\ item'[entries'[n]] = item[entries[n]]
    BY <1>3, <1>6
  <2> QED BY <2>1, SMT DEF PeersAnnouncedItem
<1> QED BY <1>6, <1>8, <1>9, <1>10, <1>11

\* The reaper finds nothing to reap, and the rest of the node does not touch
\* the queue.
LEMMA OtherStepIInv ==
  ASSUME IInv,
         \/ ReapDequeuedUpdates
         \/ \E n \in Names, e \in Epochs, s \in Sizes \ {0} :
              SetHeader(n, [epoch |-> e, size |-> s])
         \/ \E n \in Names : Allow(n) \/ Ban(n)
         \/ SetInitialImportComplete
         \/ UNCHANGED vars
  PROVE  /\ IInv'
         /\ UNCHANGED <<queue, queueLen, entries, item, handler, work>>
<1> USE DEF IInv
<1>1. UNCHANGED <<queue, queueLen, entries, item, handler, work>>
  <2>1. CASE ReapDequeuedUpdates
    <3>1. \A n \in Names : ~Disposed(n)
      BY DEF Disposed, HeapOK
    <3>2. entries' = entries
      BY <2>1, <3>1 DEF ReapDequeuedUpdates, TypeOK
    <3> QED BY <2>1, <3>2 DEF ReapDequeuedUpdates
  <2>2. CASE ~ReapDequeuedUpdates
    BY <2>2 DEF SetHeader, Allow, Ban, SetInitialImportComplete, vars
  <2> QED BY <2>1, <2>2
<1>2. /\ header' \in [Names -> [epoch : Epochs, size : Sizes]]
      /\ allowed' \in SUBSET Names
      /\ imported' \in BOOLEAN
      /\ proofReqs' = proofReqs
  <2>1. CASE \E n \in Names, e \in Epochs, s \in Sizes \ {0} :
               SetHeader(n, [epoch |-> e, size |-> s])
    BY <2>1, SMT DEF SetHeader, TypeOK
  <2>2. CASE ReapDequeuedUpdates \/ (\E n \in Names : Allow(n) \/ Ban(n))
               \/ SetInitialImportComplete \/ UNCHANGED vars
    BY <2>2 DEF ReapDequeuedUpdates, Allow, Ban, SetInitialImportComplete,
                vars, TypeOK
  <2> QED BY <2>1, <2>2
<1>3. TypeOK'
  BY <1>1, <1>2 DEF TypeOK
<1>4. QueueOK' /\ HeapOK' /\ PeersAnnouncedItem'
  BY <1>1, UnchangedHeap
<1>5. AdmissionBound'
  BY <1>1 DEF AdmissionBound, Admitted
<1> QED BY <1>1, <1>3, <1>4, <1>5

----------------------------------------------------------------------------
(* The theorems *)

\* Every step of the node preserves the invariant.
LEMMA NextIInv == IInv /\ [Next]_vars => IInv'
<1> SUFFICES ASSUME IInv, [Next]_vars PROVE IInv'
  OBVIOUS
<1>1. CASE \E h \in Handlers, u \in Updates : CheckLen(h, u)
  BY <1>1, CheckLenIInv
<1>2. CASE \E h \in Handlers : EnqueueStep(h)
  BY <1>2, CheckStepIInv, InsertNewIInv, InsertPeerIInv DEF EnqueueStep
<1>3. CASE \E w \in Workers : Dequeue(w) \/ FinishUpdate(w)
  BY <1>3, DequeueIInv, FinishUpdateIInv
<1>4. CASE \/ ReapDequeuedUpdates
           \/ \E n \in Names, e \in Epochs, s \in Sizes \ {0} :
                SetHeader(n, [epoch |-> e, size |-> s])
           \/ \E n \in Names : Allow(n) \/ Ban(n)
           \/ SetInitialImportComplete
           \/ UNCHANGED vars
  BY <1>4, OtherStepIInv
<1> QED BY <1>1, <1>2, <1>3, <1>4 DEF Next

\* The invariant holds in every state of every behaviour of the queue.
THEOREM Invariance == Spec => []IInv
BY InitIInv, NextIInv, PTL DEF Spec

\* Whatever the handlers, workers and the reaper do, the queue's state keeps
\* its type (UpdateQueue's fields, and the records its items point to).
THEOREM TypeCorrect == Spec => []TypeOK
<1>1. IInv => TypeOK
  BY DEF IInv
<1> QED BY <1>1, Invariance, PTL

\* The slice, the counter and the map that Enqueue, Dequeue and the reaper
\* update always agree.
THEOREM QueueAgrees == Spec => []QueueIndexesEntries
<1>1. IInv => QueueIndexesEntries
  BY DEF IInv, QueueOK, HeapOK, QueueIndexesEntries
<1> QED BY <1>1, Invariance, PTL

\* Enqueue tests the length outside the mutex; with k handlers the queue stays
\* shorter than MaxLen + k all the same.
THEOREM QueueOvershoot == Spec => []QueueBounded
<1>1. IInv => QueueBounded
  BY AdmittedFinite, BoundsAreNats, SMT DEF IInv, AdmissionBound, QueueBounded, TypeOK
<1> QED BY <1>1, Invariance, PTL

\* No item is disposed of while it is queued, so reapDequeuedUpdates never
\* deletes an entry.
THEOREM ReaperIdle == Spec => []NoQueuedItemDisposed
<1>1. IInv => NoQueuedItemDisposed
  BY DEF IInv, HeapOK, NoQueuedItemDisposed, Disposed
<1> QED BY <1>1, Invariance, PTL

\* UpdateBlob asks only peers that announced the item's size in its epoch, or a
\* later epoch.
THEOREM PeersHaveItem == Spec => []PeersAnnouncedItem
<1>1. IInv => PeersAnnouncedItem
  BY DEF IInv
<1> QED BY <1>1, Invariance, PTL

\* Enqueue never replaces a queued item by one that asks for less.
THEOREM SizeMonotone == Spec => QueuedSizeNeverShrinks
<1> DEFINE Grows == \A n \in Names :
                      entries[n] # NoItem /\ entries'[n] # NoItem =>
                        item'[entries'[n]].size >= item[entries[n]].size
<1>1. ASSUME IInv, Next PROVE Grows
  <2> SUFFICES ASSUME NEW n \in Names, entries[n] # NoItem, entries'[n] # NoItem
               PROVE  item'[entries'[n]].size >= item[entries[n]].size
    OBVIOUS
  <2>0. item[entries[n]].size \in Nat
    BY <1>1, BoundsAreNats, SMT DEF IInv, HeapOK, ItemRecord, Sizes
  <2>1. CASE \E h \in Handlers : InsertNew(h)
    <3>1. PICK h \in Handlers : InsertNew(h)
      BY <2>1
    <3> DEFINE u == handler[h].upd
    <3>2. u \in Update
      BY <1>1, <3>1, BusyHandlerRuns DEF IInv, InsertNew
    <3>3. u.name \in Names /\ u.size \in Nat
      BY <3>2, BoundsAreNats, SMT DEF Update, Sizes
    <3>4. PICK i \in Items :
            /\ entries' = [entries EXCEPT ![u.name] = i]
            /\ item'[i] = NewItem(u)
            /\ \A m \in Names : m # u.name /\ entries[m] # NoItem =>
                 item'[entries[m]] = item[entries[m]]
      BY <1>1, <3>1, InsertNewHeap
    <3>5. CASE n = u.name
      <4>1. item[entries[n]].size < u.size
        BY <3>1, <3>5 DEF InsertNew, Replaces
      <4>2. item'[entries'[n]].size = u.size
        BY <1>1, <3>2, <3>3, <3>4, <3>5, NewItemType, ZenonT(60) DEF IInv, TypeOK
      <4> QED BY <2>0, <3>3, <4>1, <4>2, SMTT(60)
    <3>6. CASE n # u.name
      BY <1>1, <2>0, <3>3, <3>4, <3>6, SMTT(60) DEF IInv, TypeOK
    <3> QED BY <3>5, <3>6
  <2>2. CASE \E h \in Handlers : InsertPeer(h)
    <3>1. item'[entries[n]].size = item[entries[n]].size
      BY <1>1, <2>2, InsertPeerIInv
    <3>2. entries' = entries
      BY <2>2 DEF InsertPeer
    <3> QED BY <2>0, <3>1, <3>2, SMT
  <2>3. CASE \E w \in Workers : FinishUpdate(w)
    <3>1. item'[entries[n]] = item[entries[n]]
      BY <1>1, <2>3, FinishUpdateIInv
    <3>2. entries' = entries
      BY <2>3 DEF FinishUpdate
    <3> QED BY <2>0, <3>1, <3>2, SMT
  <2>4. CASE \E w \in Workers : Dequeue(w)
    <3>1. item' = item /\ entries'[n] = entries[n]
      BY <1>1, <2>4 DEF Dequeue, IInv, TypeOK
    <3> QED BY <2>0, <3>1, SMT
  <2>5. CASE \/ \E h \in Handlers, u \in Updates : CheckLen(h, u)
             \/ \E h \in Handlers :
                  Validate(h) \/ CompareHeader(h) \/ InsertRejected(h)
    <3>1. item' = item /\ entries' = entries
      BY <2>5 DEF CheckLen, Validate, CompareHeader, InsertRejected
    <3> QED BY <2>0, <3>1, SMT
  <2>6. CASE \/ ReapDequeuedUpdates
             \/ \E m \in Names, e \in Epochs, s \in Sizes \ {0} :
                  SetHeader(m, [epoch |-> e, size |-> s])
             \/ \E m \in Names : Allow(m) \/ Ban(m)
             \/ SetInitialImportComplete
    <3>1. item' = item /\ entries' = entries
      BY <1>1, <2>6, OtherStepIInv
    <3> QED BY <2>0, <3>1, SMT
  <2> QED BY <1>1, <2>1, <2>2, <2>3, <2>4, <2>5, <2>6 DEF Next, EnqueueStep
<1>2. IInv /\ [Next]_vars => [Grows]_vars
  BY <1>1
<1> QED BY <1>2, Invariance, PTL DEF Spec, QueuedSizeNeverShrinks

============================================================================
