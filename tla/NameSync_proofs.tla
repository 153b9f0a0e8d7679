--------------------------- MODULE NameSync_proofs ---------------------------
(***************************************************************************)
(* Proofs about NameSync, for any sets of names, peers and headers, any    *)
(* number of workers and any sample size.                                  *)
(*                                                                         *)
(* That headers only move ahead is not a property of the updater's step    *)
(* alone, which stores what is queued: it needs that what is queued stays   *)
(* ahead of the header while it waits (QueueAhead).                        *)
(***************************************************************************)
EXTENDS NameSync, FiniteSetTheorems, TLAPS

\* The calls by where they are
CollectingCall ==
  [pc : {"collecting"}, name : BlobNames, sampleSize : Nat,
   recvCount : Nat, updates : Nat]
CountedCall  == [pc : {"counted"}, name : BlobNames, updates : Nat]
AwaitingCall == [pc : {"awaiting"}, name : BlobNames, result : {None, "ok", "err"}]

\* A call is short of answers.
Short(c) == c.pc = "collecting" => c.sampleSize = 0 \/ c.recvCount < c.sampleSize

\* What is queued for a name is newer than its header.
QueueAhead ==
  \A n \in BlobNames : queue[n] # None => Ahead(queue[n], header[n])

\* The inductive invariant
IInv == TypeOK /\ QueueAhead

----------------------------------------------------------------------------
(* Facts about calls *)

\* A call is of the kind that its pc says.
LEMMA CallKinds ==
  ASSUME NEW c \in CallState
  PROVE  /\ c.pc = "collecting" => c \in CollectingCall
         /\ c.pc = "counted" => c \in CountedCall
         /\ c.pc = "awaiting" => c \in AwaitingCall
BY DEF CallState, Free, CollectingCall, CountedCall, AwaitingCall

\* The kinds of calls are calls; only one that collects can have had all answers.
LEMMA KindsAreCalls ==
  /\ Free \in CallState /\ Short(Free)
  /\ \A c \in CollectingCall : c \in CallState
  /\ \A c \in CountedCall : c \in CallState /\ Short(c)
  /\ \A c \in AwaitingCall : c \in CallState /\ Short(c)
BY DEF CallState, Free, CollectingCall, CountedCall, AwaitingCall, Short

\* The types of the calls, as TypeOK states them
CallsOK == call \in [Slots -> CallState] /\ \A s \in Slots : Short(call[s])

LEMMA CallsTyped == TypeOK => CallsOK
BY DEF TypeOK, CallsOK, Short

\* A call that becomes a call which may go on leaves the calls typed.
LEMMA BecomeTyped ==
  ASSUME CallsOK, NEW s \in Slots, NEW c \in CallState, Short(c), Become(s, c)
  PROVE  CallsOK'
BY DEF CallsOK, Become, Short

\* Counting an answer
LEMMA CountTyped ==
  ASSUME NEW c \in CollectingCall, NEW k \in Nat
  PROVE  LET d == [c EXCEPT !.recvCount = @ + 1, !.updates = @ + k]
         IN  /\ d \in CollectingCall
             /\ d.recvCount = c.recvCount + 1
             /\ d.sampleSize = c.sampleSize
<1>1. c.recvCount + 1 \in Nat /\ c.updates + k \in Nat
  BY DEF CollectingCall
<1>2. c \in CollectingCall
  OBVIOUS
<1> QED BY <1>1, <1>2, Zenon DEF CollectingCall

\* A sample is a finite set of peers.
LEMMA SampleCounted ==
  ASSUME connected \in SUBSET Peers, NEW sample \in SampleIndices(connected)
  PROVE  sample \in SUBSET Peers /\ Cardinality(sample) \in Nat
<1>1. sample \in SUBSET Peers
  BY DEF SampleIndices
<1>2. IsFiniteSet(sample)
  BY <1>1, PeersFinite, FS_Subset
<1> QED BY <1>1, <1>2, FS_CardinalityType

----------------------------------------------------------------------------
(* Type correctness *)

LEMMA InitTyped == Init => TypeOK
<1> SUFFICES ASSUME Init PROVE TypeOK
  OBVIOUS
<1>1. CallsOK
  BY KindsAreCalls DEF Init, CallsOK
<1>2. job \in JobState
  BY DEF Init, JobState
<1>3. ZeroHeader \in Versions
  BY DEF Versions
<1>4. faults \in 0..MaxFaults
  BY MaxFaultsIsNat DEF Init
<1>5. /\ header \in [BlobNames -> Versions]
      /\ remote \in [Peers -> [BlobNames -> Versions]]
      /\ queue \in [BlobNames -> Versions \cup {None}]
  BY <1>3 DEF Init
<1> QED BY <1>1, <1>2, <1>4, <1>5 DEF Init, TypeOK, CallsOK, Short

\* Steps of a call other than its start
LEMMA CallStepTyped ==
  ASSUME TypeOK, NEW s \in Slots,
         \/ ResponseTimeout(s) \/ NothingToSync(s)
         \/ OnUpdateProcessed(s) \/ AwaitSyncCompletion(s)
  PROVE  CallsOK'
<1> DEFINE c == call[s]
<1>1. CallsOK /\ c \in CallState
  BY CallsTyped DEF CallsOK
<1>2. CASE ResponseTimeout(s)
  <2> DEFINE d == [pc |-> "counted", name |-> c.name, updates |-> c.updates]
  <2>1. c \in CollectingCall
    BY <1>1, <1>2, CallKinds DEF ResponseTimeout
  <2>2. d \in CountedCall
    BY <2>1 DEF CollectingCall, CountedCall
  <2>3. Become(s, d)
    BY <1>2 DEF ResponseTimeout
  <2> QED BY <1>1, <2>2, <2>3, KindsAreCalls, BecomeTyped
<1>3. CASE NothingToSync(s) \/ AwaitSyncCompletion(s)
  <2>1. Become(s, Free)
    BY <1>3 DEF NothingToSync, AwaitSyncCompletion
  <2> QED BY <1>1, <2>1, KindsAreCalls, BecomeTyped
<1>4. CASE OnUpdateProcessed(s)
  <2> DEFINE d == [pc |-> "awaiting", name |-> c.name, result |-> None]
  <2>1. c \in CountedCall
    BY <1>1, <1>4, CallKinds DEF OnUpdateProcessed
  <2>2. d \in AwaitingCall
    BY <2>1 DEF CountedCall, AwaitingCall
  <2>3. Become(s, d)
    BY <1>4 DEF OnUpdateProcessed
  <2> QED BY <1>1, <2>2, <2>3, KindsAreCalls, BecomeTyped
<1> QED BY <1>2, <1>3, <1>4

\* The start of a call
LEMMA SyncNameTyped ==
  ASSUME TypeOK, NEW s \in Slots, NEW n \in BlobNames, NEW sample \in SUBSET Peers,
         SyncName(s, n, sample)
  PROVE  CallsOK' /\ requests' \in SUBSET Requests /\ job' \in JobState
<1> DEFINE d == [pc |-> "collecting", name |-> n, sampleSize |-> Cardinality(sample),
                 recvCount |-> 0, updates |-> 0]
<1>1. Cardinality(sample) \in Nat
  BY SampleCounted DEF SyncName, TypeOK
<1>2. d \in CollectingCall /\ Short(d)
  BY <1>1 DEF CollectingCall, Short
<1>3. Become(s, d)
  BY DEF SyncName
<1>4. CallsOK'
  BY <1>2, <1>3, CallsTyped, KindsAreCalls, BecomeTyped
<1>5. requests' \in SUBSET Requests
  BY DEF SyncName, TypeOK, Requests
<1>6. job' \in JobState
  BY DEF SyncName, TypeOK, JobState
<1> QED BY <1>4, <1>5, <1>6

\* An answer is counted, and the last one asked for ends the collection.
LEMMA HandleAnswerTyped ==
  ASSUME TypeOK, NEW a \in toSyncer, HandleAnswer(a)
  PROVE  CallsOK'
<1> DEFINE more == IF a.header = None THEN 0 ELSE 1
           Count(c) == [c EXCEPT !.recvCount = @ + 1, !.updates = @ + more]
           Done(c) == [pc |-> "counted", name |-> a.name, updates |-> Count(c).updates]
           New(s) == IF s \notin Collecting(a.name) THEN call[s]
                     ELSE IF Count(call[s]).recvCount # call[s].sampleSize
                     THEN Count(call[s]) ELSE Done(call[s])
<1>1. call' = [s \in Slots |-> New(s)]
  BY DEF HandleAnswer
<1>2. CallsOK
  BY CallsTyped
<1>3. ASSUME NEW s \in Slots PROVE New(s) \in CallState /\ Short(New(s))
  <2>1. CASE s \notin Collecting(a.name)
    BY <1>2, <2>1 DEF CallsOK
  <2>2. CASE s \in Collecting(a.name)
    <3>1. call[s] \in CollectingCall /\ Short(call[s]) /\ a.name = call[s].name
      BY <1>2, <2>2, CallKinds DEF CallsOK, Collecting
    <3>2. more \in Nat
      OBVIOUS
    <3>3. /\ Count(call[s]) \in CollectingCall
          /\ Count(call[s]).recvCount = call[s].recvCount + 1
          /\ Count(call[s]).sampleSize = call[s].sampleSize
      BY <3>1, <3>2, CountTyped
    <3>4. Done(call[s]) \in CountedCall
      BY <3>1, <3>3 DEF CollectingCall, CountedCall
    <3>5. Count(call[s]).recvCount # call[s].sampleSize => Short(Count(call[s]))
      BY <3>1, <3>3 DEF Short, CollectingCall
    <3> HIDE DEF Count, Done
    <3> QED BY <2>2, <3>3, <3>4, <3>5, KindsAreCalls
  <2> QED BY <2>1, <2>2
<1> HIDE DEF New
<1> QED BY <1>1, <1>3 DEF CallsOK

\* The result of an update reaches the calls that wait for it.
LEMMA ProcessUpdateTyped ==
  ASSUME TypeOK, NEW n \in BlobNames, NEW result \in {"ok", "err"},
         ProcessUpdate(n, result)
  PROVE  /\ CallsOK'
         /\ header' \in [BlobNames -> Versions]
         /\ queue' \in [BlobNames -> Versions \cup {None}]
         /\ faults' \in 0..MaxFaults
<1> DEFINE New(s) == IF s \in Awaiting(n) /\ call[s].result = None
                     THEN [call[s] EXCEPT !.result = result] ELSE call[s]
<1>1. call' = [s \in Slots |-> New(s)]
  BY DEF ProcessUpdate
<1>2. CallsOK
  BY CallsTyped
<1>3. ASSUME NEW s \in Slots PROVE New(s) \in CallState /\ Short(New(s))
  <2>1. CASE s \in Awaiting(n) /\ call[s].result = None
    <3>1. call[s] \in AwaitingCall
      BY <1>2, <2>1, CallKinds DEF CallsOK, Awaiting
    <3>2. [call[s] EXCEPT !.result = result] \in AwaitingCall
      BY <3>1 DEF AwaitingCall
    <3> QED BY <2>1, <3>2, KindsAreCalls
  <2>2. CASE ~(s \in Awaiting(n) /\ call[s].result = None)
    BY <1>2, <2>2 DEF CallsOK
  <2> QED BY <2>1, <2>2
<1>4. CallsOK'
  <2> HIDE DEF New
  <2> QED BY <1>1, <1>3 DEF CallsOK
<1>5. header' \in [BlobNames -> Versions] /\ queue' \in [BlobNames -> Versions \cup {None}]
  BY DEF ProcessUpdate, TypeOK
<1>6. faults' \in 0..MaxFaults
  BY MaxFaultsIsNat DEF ProcessUpdate, TypeOK, Fault
<1> QED BY <1>4, <1>5, <1>6

\* A peer's answer is one of its header, or none.
LEMMA ServedTyped ==
  ASSUME TypeOK, NEW r \in requests
  PROVE  Served(r) \in Versions \cup {None} /\ r.peer \in Peers /\ r.name \in BlobNames
BY DEF TypeOK, Requests, Served

\* Every step keeps the types.
LEMMA NextTyped == TypeOK /\ [Next]_vars => TypeOK'
<1> SUFFICES ASSUME TypeOK, [Next]_vars PROVE TypeOK'
  OBVIOUS
<1>0. CallsOK
  BY CallsTyped
<1>1. CASE ImportCompletes
  BY <1>1 DEF ImportCompletes, TypeOK, network
<1>2. CASE DoSync
  BY <1>2 DEF DoSync, TypeOK, network, JobState
<1>3. CASE JobComplete
  BY <1>3 DEF JobComplete, TypeOK, network, JobState
<1>4. ASSUME NEW s \in Slots, CallStep(s) PROVE TypeOK'
  <2>1. ASSUME NEW n \in BlobNames, NEW sample \in SUBSET Peers, SyncName(s, n, sample)
        PROVE  TypeOK'
    <3>1. CallsOK' /\ requests' \in SUBSET Requests /\ job' \in JobState
      BY <2>1, SyncNameTyped
    <3> QED BY <2>1, <3>1 DEF SyncName, TypeOK, CallsOK, Short
  <2>2. CASE ResponseTimeout(s) \/ NothingToSync(s) \/ OnUpdateProcessed(s)
               \/ AwaitSyncCompletion(s)
    <3>1. CallsOK'
      BY <2>2, CallStepTyped
    <3>2. UNCHANGED <<header, remote, connected, imported, job, network, queue, faults>>
      BY <2>2 DEF ResponseTimeout, NothingToSync, OnUpdateProcessed, AwaitSyncCompletion
    <3> QED BY <3>1, <3>2 DEF network, TypeOK, CallsOK, Short
  <2> QED BY <1>4, <2>1, <2>2 DEF CallStep
<1>5. ASSUME NEW a \in toSyncer, HandleAnswer(a) PROVE TypeOK'
  <2>1. CallsOK'
    BY <1>5, HandleAnswerTyped
  <2> QED BY <1>5, <2>1 DEF HandleAnswer, TypeOK, CallsOK, Short
<1>6. ASSUME NEW p \in Peers, Connect(p) \/ Disconnect(p) PROVE TypeOK'
  <2>1. CASE Connect(p)
    BY <2>1 DEF Connect, TypeOK, network
  <2>2. CASE Disconnect(p)
    BY <2>2, MaxFaultsIsNat DEF Disconnect, Fault, TypeOK
  <2> QED BY <1>6, <2>1, <2>2
<1>7. ASSUME NEW r \in requests, UpdateReqHandler(r) PROVE TypeOK'
  <2>1. PICK h \in {Served(r), None} :
          LET a == [peer |-> r.peer, name |-> r.name, header |-> h] IN
          /\ toSyncer' = toSyncer \cup {a}
          /\ toQueue' = IF h = None THEN toQueue ELSE toQueue \cup {a}
          /\ IF h = Served(r) THEN UNCHANGED faults ELSE Fault
    BY <1>7 DEF UpdateReqHandler
  <2>2. [peer |-> r.peer, name |-> r.name, header |-> h] \in Answers
    BY ServedTyped DEF Answers
  <2>3. toSyncer' \in SUBSET Answers /\ toQueue' \in SUBSET Answers
    BY <2>1, <2>2 DEF TypeOK
  <2>4. faults' \in 0..MaxFaults
    BY <2>1, MaxFaultsIsNat DEF TypeOK, Fault
  <2> QED BY <1>7, <2>3, <2>4 DEF UpdateReqHandler, TypeOK
<1>8. ASSUME NEW p \in Peers, NEW n \in BlobNames, NEW h \in Headers, PeerUpdated(p, n, h)
      PROVE  TypeOK'
  <2>1. remote' \in [Peers -> [BlobNames -> Versions]]
    BY <1>8 DEF PeerUpdated, TypeOK, Versions
  <2> QED BY <1>8, <2>1 DEF PeerUpdated, TypeOK, network
<1>9. ASSUME NEW a \in toQueue, Enqueue(a) PROVE TypeOK'
  <2>1. a.name \in BlobNames /\ a.header \in Versions \cup {None}
    BY DEF TypeOK, Answers
  <2>2. queue' \in [BlobNames -> Versions \cup {None}]
    BY <1>9, <2>1 DEF Enqueue, TypeOK
  <2> QED BY <1>9, <2>2 DEF Enqueue, TypeOK
<1>10. ASSUME NEW n \in BlobNames, NEW result \in {"ok", "err"}, ProcessUpdate(n, result)
       PROVE  TypeOK'
  <2>1. /\ CallsOK'
        /\ header' \in [BlobNames -> Versions]
        /\ queue' \in [BlobNames -> Versions \cup {None}]
        /\ faults' \in 0..MaxFaults
    BY <1>10, ProcessUpdateTyped
  <2> QED BY <1>10, <2>1 DEF ProcessUpdate, TypeOK, CallsOK, Short, network
<1>11. CASE UNCHANGED vars
  BY <1>11 DEF vars, network, TypeOK
<1> QED BY <1>1, <1>2, <1>3, <1>4, <1>5, <1>6, <1>7, <1>8, <1>9, <1>10, <1>11 DEF Next

\* The variables keep their types, and a call that goes on collecting is short of
\* answers, for any sample size and number of workers (syncName).
THEOREM TypeCorrect == Spec => []TypeOK
BY InitTyped, NextTyped, PTL DEF Spec

----------------------------------------------------------------------------
(* Headers move ahead *)

\* What is queued stays ahead of the header.
LEMMA NextQueueAhead == IInv /\ [Next]_vars => QueueAhead'
<1> SUFFICES ASSUME IInv, [Next]_vars, NEW m \in BlobNames, queue'[m] # None
             PROVE  Ahead(queue'[m], header'[m])
  BY DEF QueueAhead, Ahead
<1>0. TypeOK /\ (queue[m] # None => Ahead(queue[m], header[m]))
  BY DEF IInv, QueueAhead
<1>1. CASE UNCHANGED <<queue, header>>
  BY <1>0, <1>1
<1>2. ASSUME NEW a \in toQueue, Enqueue(a) PROVE Ahead(queue'[m], header'[m])
  BY <1>0, <1>2 DEF Enqueue, TypeOK, Answers
<1>3. ASSUME NEW n \in BlobNames, NEW result \in {"ok", "err"}, ProcessUpdate(n, result)
      PROVE  Ahead(queue'[m], header'[m])
  BY <1>0, <1>3 DEF ProcessUpdate, TypeOK
<1>4. \/ UNCHANGED <<queue, header>>
      \/ \E a \in toQueue : Enqueue(a)
      \/ \E n \in BlobNames, result \in {"ok", "err"} : ProcessUpdate(n, result)
  BY DEF Next, vars, CallStep, ImportCompletes, DoSync, JobComplete, SyncName,
         ResponseTimeout, NothingToSync, OnUpdateProcessed, AwaitSyncCompletion,
         HandleAnswer, Connect, Disconnect, UpdateReqHandler, PeerUpdated
<1> QED BY <1>1, <1>2, <1>3, <1>4

LEMMA Invariance == Spec => []IInv
<1>1. Init => IInv
  BY InitTyped DEF Init, IInv, QueueAhead
<1>2. IInv /\ [Next]_vars => IInv'
  BY NextTyped, NextQueueAhead DEF IInv
<1> QED BY <1>1, <1>2, PTL DEF Spec

\* Headers only move ahead, in whichever order answers reach the queue and however
\* often they replace each other there (Enqueue, UpdateBlob).
THEOREM HeadersOnlyMoveAhead == Spec => HeadersMoveAhead
<1> DEFINE Moves == \A n \in BlobNames :
                      header'[n] = header[n] \/ Ahead(header'[n], header[n])
<1>1. ASSUME IInv, [Next]_vars PROVE [Moves]_vars
  <2>1. CASE UNCHANGED header
    BY <2>1
  <2>2. ASSUME NEW n \in BlobNames, NEW result \in {"ok", "err"}, ProcessUpdate(n, result)
        PROVE  Moves
    BY <1>1, <2>2 DEF IInv, QueueAhead, TypeOK, ProcessUpdate
  <2>3. \/ UNCHANGED header
        \/ \E n \in BlobNames, result \in {"ok", "err"} : ProcessUpdate(n, result)
    BY <1>1 DEF Next, vars, CallStep, ImportCompletes, DoSync, JobComplete, SyncName,
         ResponseTimeout, NothingToSync, OnUpdateProcessed, AwaitSyncCompletion,
         HandleAnswer, Connect, Disconnect, UpdateReqHandler, PeerUpdated, Enqueue
  <2> QED BY <2>1, <2>2, <2>3
<1> QED BY <1>1, Invariance, PTL DEF Spec, HeadersMoveAhead

=============================================================================
