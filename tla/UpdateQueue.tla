---------------------------- MODULE UpdateQueue ----------------------------
(***************************************************************************)
(* The update queue of a node (protocol/update_queue.go).                  *)
(*                                                                         *)
(* Every Update message a peer sends is handled by a goroutine of its own, *)
(* which runs Enqueue.  Enqueue tests the length of the queue with an      *)
(* atomic load, reads the database, and only then takes the queue's mutex  *)
(* to insert; so several handlers can be between the test and the insert.  *)
(* The workers of the updater take items from the head of the queue, run   *)
(* UpdateBlob on them and dispose of them.  A ticker reaps the disposed    *)
(* items it finds in the map of entries.                                   *)
(*                                                                         *)
(* Items are pointers in the code.  Here they are the members of Items,    *)
(* and item maps each to the record it points to, so that an item a worker *)
(* disposes of and an item the map holds can be told apart.                *)
(***************************************************************************)
EXTENDS Naturals, Sequences, FiniteSets

CONSTANTS
  Names,      \* names updates are about
  Peers,      \* remote peers
  Handlers,   \* goroutines that can run Enqueue at the same time
  Workers,    \* goroutines of the updater (Tuning.Updater.Workers)
  Items,      \* addresses of UpdateQueueItems
  NoItem,     \* the nil *UpdateQueueItem
  MaxLen,     \* UpdateQueue.MaxLen
  MaxEpoch,   \* bound on epoch heights
  MaxSize,    \* bound on sector sizes
  Updates     \* the updates that peers send

ASSUME HandlersFinite == IsFiniteSet(Handlers) /\ Handlers # {}
ASSUME BoundsAreNats  == MaxLen \in Nat /\ MaxEpoch \in Nat /\ MaxSize \in Nat
ASSUME NilIsNoItem    == NoItem \notin Items

Epochs == 0..MaxEpoch
Sizes  == 0..MaxSize

\* wire.Update, with the peer it came from
Update == [peer : Peers, name : Names, epoch : Epochs, size : Sizes]
ASSUME UpdatesAreTyped == Updates \subseteq Update

\* What a peer announced, kept with the peer in an item's PeerSet
Announcement == [peer : Peers, epoch : Epochs, size : Sizes]

\* UpdateQueueItem; the members of PeerIDs are the peers of its announcements
ItemRecord == [name : Names, epoch : Epochs, size : Sizes,
               peerIDs : SUBSET Announcement, disposed : BOOLEAN]

\* A handler is idle or between two accesses to shared state in Enqueue.
Idle    == [pc |-> "idle"]
Running == [pc : {"checked", "validated", "compared"}, upd : Update]

VARIABLES
  queue,      \* names in the order their items will be dequeued
  queueLen,   \* the atomic counter Enqueue tests
  entries,    \* the item queued for each name, or NoItem
  item,       \* the record each item points to, NoItem if it is free
  handler,    \* where each handler is, and the update it handles
  work,       \* the item each worker runs UpdateBlob on, or NoItem
  header,     \* epoch height and sector size the database holds, 0 if none
  allowed,    \* names that are known and neither banned themselves nor
              \* through their header
  imported,   \* GetInitialImportComplete
  proofReqs   \* BlobReqs for equivocation proofs that have been sent

vars == <<queue, queueLen, entries, item, handler, work, header, allowed,
          imported, proofReqs>>

TypeOK ==
  /\ queue \in Seq(Names)
  /\ queueLen \in Nat
  /\ entries \in [Names -> Items \cup {NoItem}]
  /\ item \in [Items -> ItemRecord \cup {NoItem}]
  /\ handler \in [Handlers -> {Idle} \cup Running]
  /\ work \in [Workers -> Items \cup {NoItem}]
  /\ header \in [Names -> [epoch : Epochs, size : Sizes]]
  /\ allowed \in SUBSET Names
  /\ imported \in BOOLEAN
  /\ proofReqs \in SUBSET [peer : Peers, name : Names, epoch : Epochs]

----------------------------------------------------------------------------
(* NewUpdateQueue, before or after the initial import *)

Init ==
  /\ queue = <<>>
  /\ queueLen = 0
  /\ entries = [n \in Names |-> NoItem]
  /\ item = [i \in Items |-> NoItem]
  /\ handler = [h \in Handlers |-> Idle]
  /\ work = [w \in Workers |-> NoItem]
  /\ header = [n \in Names |-> [epoch |-> 0, size |-> 0]]
  /\ allowed \in SUBSET Names
  /\ imported \in BOOLEAN
  /\ proofReqs = {}

MoveTo(h, pc) == handler' = [handler EXCEPT ![h].pc = pc]
Return(h)     == handler' = [handler EXCEPT ![h] = Idle]

\* Items some pointer leads to; the garbage collector frees the others.
Live(ents, wrk) == {ents[n] : n \in Names} \cup {wrk[w] : w \in Workers}
Collect(heap, live) ==
  [i \in Items |-> IF i \in live THEN heap[i] ELSE NoItem]

----------------------------------------------------------------------------
(* Enqueue *)

\* Mutant: the test is off by one.
CheckLenInclusive(h, u) ==
  /\ handler[h].pc = "idle"
  /\ queueLen <= MaxLen
  /\ handler' = [handler EXCEPT ![h] = [pc |-> "checked", upd |-> u]]
  /\ UNCHANGED <<queue, queueLen, entries, item, work, header, allowed,
                 imported, proofReqs>>

\* A handler starts on an update; it is rejected at once if the queue is full.
CheckLen(h, u) ==
  /\ handler[h].pc = "idle"
  /\ queueLen < MaxLen
  /\ handler' = [handler EXCEPT ![h] = [pc |-> "checked", upd |-> u]]
  /\ UNCHANGED <<queue, queueLen, entries, item, work, header, allowed,
                 imported, proofReqs>>

ValidateUpdate(n) == n \in allowed

\* The import flag, an equivocation notice (size 0, answered with a request
\* for the proof), the ban state of the name and its info.
Validate(h) ==
  LET u == handler[h].upd IN
  /\ handler[h].pc = "checked"
  /\ IF imported /\ u.size # 0 /\ ValidateUpdate(u.name)
     THEN MoveTo(h, "validated")
     ELSE Return(h)
  /\ IF imported /\ u.size = 0
     THEN proofReqs' = proofReqs \cup
            {[peer |-> u.peer, name |-> u.name, epoch |-> u.epoch]}
     ELSE UNCHANGED proofReqs
  /\ UNCHANGED <<queue, queueLen, entries, item, work, header, allowed,
                 imported>>

\* The update is ahead of the header the database holds.
Ahead(u, hd) ==
  \/ u.epoch > hd.epoch
  \/ u.epoch = hd.epoch /\ u.size > hd.size

CompareHeader(h) ==
  LET u == handler[h].upd IN
  /\ handler[h].pc = "validated"
  /\ IF Ahead(u, header[u.name])
     THEN MoveTo(h, "compared")
     ELSE Return(h)
  /\ UNCHANGED <<queue, queueLen, entries, item, work, header, allowed,
                 imported, proofReqs>>

\* Mutant: a later epoch replaces the queued item as well.
ReplacesByEpoch(u) ==
  entries[u.name] # NoItem =>
    \/ item[entries[u.name]].epoch < u.epoch
    \/ item[entries[u.name]].size < u.size

\* The rest of Enqueue, under mu.  An update of a larger size replaces the
\* item queued for the name ...
Replaces(u) ==
  entries[u.name] # NoItem => item[entries[u.name]].size < u.size

\* ... and one that does not, and is not behind it, adds its peer to the item.
Joins(u) ==
  LET e == item[entries[u.name]] IN
  /\ ~Replaces(u)
  /\ e.epoch <= u.epoch
  /\ e.epoch = u.epoch => e.size <= u.size

Announced(u) == [peer |-> u.peer, epoch |-> u.epoch, size |-> u.size]

\* Mutant: the PeerSet of the item that is replaced is kept.
NewItemKeepsPeers(u) ==
  LET old == entries[u.name] IN
  [name |-> u.name, epoch |-> u.epoch, size |-> u.size,
   peerIDs |-> {Announced(u)} \cup
                 (IF old = NoItem THEN {} ELSE item[old].peerIDs),
   disposed |-> FALSE]

NewItem(u) ==
  [name |-> u.name, epoch |-> u.epoch, size |-> u.size,
   peerIDs |-> {Announced(u)}, disposed |-> FALSE]

InsertNew(h) ==
  LET u == handler[h].upd IN
  /\ handler[h].pc = "compared"
  /\ Replaces(u)
  /\ Items \ Live(entries, work) # {}
  /\ LET i == CHOOSE i \in Items \ Live(entries, work) : TRUE IN
       /\ entries' = [entries EXCEPT ![u.name] = i]
       /\ item' = Collect([item EXCEPT ![i] = NewItem(u)],
                          Live(entries', work))
  /\ IF entries[u.name] = NoItem
     THEN queue' = Append(queue, u.name) /\ queueLen' = queueLen + 1
     ELSE UNCHANGED <<queue, queueLen>>
  /\ Return(h)
  /\ UNCHANGED <<work, header, allowed, imported, proofReqs>>

InsertPeer(h) ==
  LET u == handler[h].upd IN
  /\ handler[h].pc = "compared"
  /\ Joins(u)
  /\ item' = [item EXCEPT ![entries[u.name]].peerIDs = @ \cup {Announced(u)}]
  /\ Return(h)
  /\ UNCHANGED <<queue, queueLen, entries, work, header, allowed, imported,
                 proofReqs>>

InsertRejected(h) ==
  LET u == handler[h].upd IN
  /\ handler[h].pc = "compared"
  /\ ~Replaces(u) /\ ~Joins(u)
  /\ Return(h)
  /\ UNCHANGED <<queue, queueLen, entries, item, work, header, allowed,
                 imported, proofReqs>>

----------------------------------------------------------------------------
(* The workers, and the reaper *)

\* Mutant: the entry stays in the map, for the reaper to delete.
DequeueKeepsEntry(w) ==
  /\ work[w] = NoItem
  /\ queue # <<>>
  /\ work' = [work EXCEPT ![w] = entries[Head(queue)]]
  /\ queue' = Tail(queue)
  /\ queueLen' = queueLen - 1
  /\ UNCHANGED <<entries, item, handler, header, allowed, imported, proofReqs>>

\* Mutant: the last name in the queue is taken for an empty queue.
DequeueLeavesLast(w) ==
  /\ work[w] = NoItem
  /\ Len(queue) > 1
  /\ work' = [work EXCEPT ![w] = entries[Head(queue)]]
  /\ queue' = Tail(queue)
  /\ queueLen' = queueLen - 1
  /\ entries' = [entries EXCEPT ![Head(queue)] = NoItem]
  /\ UNCHANGED <<item, handler, header, allowed, imported, proofReqs>>

\* Dequeue, under mu, by a worker whose poll timer fired.
Dequeue(w) ==
  /\ work[w] = NoItem
  /\ queue # <<>>
  /\ work' = [work EXCEPT ![w] = entries[Head(queue)]]
  /\ queue' = Tail(queue)
  /\ queueLen' = queueLen - 1
  /\ entries' = [entries EXCEPT ![Head(queue)] = NoItem]
  /\ UNCHANGED <<item, handler, header, allowed, imported, proofReqs>>

\* UpdateBlob returns (module Updater models what it does in between), and its
\* deferred Dispose runs.
FinishUpdate(w) ==
  LET i == work[w] IN
  /\ i # NoItem
  /\ work' = [work EXCEPT ![w] = NoItem]
  /\ item' = Collect([item EXCEPT ![i].disposed = TRUE], Live(entries, work'))
  /\ UNCHANGED <<queue, queueLen, entries, handler, header, allowed, imported,
                 proofReqs>>

Disposed(n) == entries[n] # NoItem /\ item[entries[n]].disposed

ReapDequeuedUpdates ==
  /\ entries' = [n \in Names |-> IF Disposed(n) THEN NoItem ELSE entries[n]]
  /\ UNCHANGED <<queue, queueLen, item, handler, work, header, allowed,
                 imported, proofReqs>>

----------------------------------------------------------------------------
(* The rest of the node, as far as Enqueue reads what it writes *)

\* SetHeaderTx, by UpdateBlob or by a commit through the RPC server.
SetHeader(n, hd) ==
  /\ header' = [header EXCEPT ![n] = hd]
  /\ UNCHANGED <<queue, queueLen, entries, item, handler, work, allowed,
                 imported, proofReqs>>

\* A name is imported (SetNameInfoTx), or its ban is lifted by the next ingest
\* of the ban lists ...
Allow(n) ==
  /\ n \notin allowed
  /\ allowed' = allowed \cup {n}
  /\ UNCHANGED <<queue, queueLen, entries, item, handler, work, header,
                 imported, proofReqs>>

\* ... and it is banned (BanName), or its header is (SetHeaderBan).
Ban(n) ==
  /\ n \in allowed
  /\ allowed' = allowed \ {n}
  /\ UNCHANGED <<queue, queueLen, entries, item, handler, work, header,
                 imported, proofReqs>>

SetInitialImportComplete ==
  /\ ~imported
  /\ imported' = TRUE
  /\ UNCHANGED <<queue, queueLen, entries, item, handler, work, header,
                 allowed, proofReqs>>

----------------------------------------------------------------------------

EnqueueStep(h) ==
  \/ Validate(h)
  \/ CompareHeader(h)
  \/ InsertNew(h)
  \/ InsertPeer(h)
  \/ InsertRejected(h)

Next ==
  \/ \E h \in Handlers, u \in Updates : CheckLen(h, u)
  \/ \E h \in Handlers : EnqueueStep(h)
  \/ \E w \in Workers : Dequeue(w) \/ FinishUpdate(w)
  \/ ReapDequeuedUpdates
  \/ \E n \in Names, e \in Epochs, s \in Sizes \ {0} :
       SetHeader(n, [epoch |-> e, size |-> s])
  \/ \E n \in Names : Allow(n) \/ Ban(n)
  \/ SetInitialImportComplete

Spec == Init /\ [][Next]_vars

\* A worker polls on a timer and UpdateBlob returns: SyncSectors gives up
\* after DefaultSyncerBlobResTimeout.  A handler's calls do not block.  That
\* updates arrive, or the import ends, is not assumed.
Fairness ==
  /\ \A h \in Handlers : WF_vars(EnqueueStep(h))
  /\ \A w \in Workers : WF_vars(Dequeue(w)) /\ WF_vars(FinishUpdate(w))

FairSpec == Spec /\ Fairness

----------------------------------------------------------------------------
(* Properties *)

\* The queue, its atomic length and the map of entries agree: the queued names
\* are distinct, each has an item, no other name has, and queueLen counts them
\* (Enqueue and Dequeue update the three of them under mu, the reaper one).
QueueIndexesEntries ==
  /\ queueLen = Len(queue)
  /\ \A i, j \in 1..Len(queue) : queue[i] = queue[j] => i = j
  /\ \A n \in Names :
       entries[n] # NoItem <=> \E i \in 1..Len(queue) : queue[i] = n
  /\ \A n \in Names : entries[n] # NoItem => item[entries[n]].name = n

\* Testing the length outside the mutex lets the queue outgrow MaxLen, but by
\* no more than the other handlers that can be in Enqueue at the same time.
QueueBounded == Len(queue) < MaxLen + Cardinality(Handlers)

\* The reaper finds nothing to reap: Dequeue takes the item out of the map
\* before any worker can dispose of it, so no queued update is ever lost.
NoQueuedItemDisposed ==
  /\ \A n \in Names : ~Disposed(n)
  /\ \A n \in Names, w \in Workers :
       entries[n] # NoItem => entries[n] # work[w]

\* Whoever UpdateBlob will ask for an item has announced exactly that epoch
\* and size, or a later epoch: replacing an item drops the peers of the
\* smaller one (Enqueue builds a new PeerSet).
PeersAnnouncedItem ==
  \A n \in Names : entries[n] # NoItem =>
    LET e == item[entries[n]] IN
    /\ e.peerIDs # {}
    /\ \A a \in e.peerIDs :
         a.epoch > e.epoch \/ (a.epoch = e.epoch /\ a.size = e.size)

\* While a name stays queued, the size its item asks for never gets smaller
\* (Enqueue replaces an item by a larger one only).
QueuedSizeNeverShrinks ==
  [][\A n \in Names :
       entries[n] # NoItem /\ entries'[n] # NoItem =>
         item'[entries'[n]].size >= item[entries[n]].size]_vars

\* While a name stays queued, the epoch its item asks for never gets lower, as
\* the comment in Enqueue says: "Ignore updates for epochs below ours, if entry
\* already exists".
QueuedEpochNeverLowered ==
  [][\A n \in Names :
       entries[n] # NoItem /\ entries'[n] # NoItem =>
         item'[entries'[n]].epoch >= item[entries[n]].epoch]_vars

\* Every queued update is handed to a worker (workers poll, the queue is FIFO,
\* and an update that replaces an item keeps its place).
QueuedIsDispatched ==
  \A n \in Names :
    (entries[n] # NoItem) ~> \E w \in Workers :
                               work[w] # NoItem /\ item[work[w]].name = n

============================================================================
