------------------------------ MODULE NameSync ------------------------------
(***************************************************************************)
(* How a node finds out what it has missed: the name syncer asks a sample  *)
(* of its peers for updates of every name (protocol/name_syncer.go), the   *)
(* peers answer from their headers (protocol/update_server.go), and what    *)
(* they announce goes through the update queue and the updater.            *)
(*                                                                         *)
(* A message is emitted to every handler in a goroutine of its own         *)
(* (util/observable.go): the queue and the name syncer see the same Update *)
(* in any order, late answers are counted for a later call of syncName for *)
(* the same name, and an event that nobody is subscribed to is gone.  The  *)
(* queue and the updater are modelled by what they do to one name's header; *)
(* UpdateQueue and Updater have the rest.  Lost connections, busy names and *)
(* failed updates are faults, of which there are MaxFaults.                *)
(***************************************************************************)
EXTENDS Integers, FiniteSets

CONSTANTS
  BlobNames,   \* imported names
  Peers,       \* other nodes
  Slots,       \* the semaphore of doSync: one slot per worker
  SampleSize,  \* peers asked per name
  None,        \* no header, no queued update, no result yet
  Headers,     \* headers that owners publish: [epoch, size]
  MaxFaults,
  MaxLate      \* bound: messages of earlier jobs when a job starts

ASSUME BlobNamesFinite == IsFiniteSet(BlobNames)
ASSUME PeersFinite == IsFiniteSet(Peers)
ASSUME SlotsNonempty == Slots # {} /\ IsFiniteSet(Slots)
ASSUME SampleSizeIsNat == SampleSize \in Nat
ASSUME HeadersTyped == Headers \subseteq [epoch : Nat, size : Nat]
ASSUME MaxFaultsIsNat == MaxFaults \in Nat

\* A name without a header
ZeroHeader == [epoch |-> 0, size |-> 0]
Versions   == Headers \cup {ZeroHeader}

\* What the update queue and the updater take for newer
Ahead(a, b) == a.epoch > b.epoch \/ (a.epoch = b.epoch /\ a.size > b.size)

Requests == [peer : Peers, name : BlobNames, have : Versions]
Answers  == [peer : Peers, name : BlobNames, header : Versions \cup {None}]

Free == [pc |-> "free"]

\* collecting: the requests are out, and the handlers subscribed; counted: the number
\* of updates is known, and the handlers are unsubscribed; awaiting: subscribed to
\* the updater's events.
CallState ==
  {Free}
    \cup [pc : {"collecting"}, name : BlobNames, sampleSize : Nat,
          recvCount : Nat, updates : Nat]
    \cup [pc : {"counted"}, name : BlobNames, updates : Nat]
    \cup [pc : {"awaiting"}, name : BlobNames, result : {None, "ok", "err"}]

JobState == [pc : {"starting", "resting", "running"}, todo : SUBSET BlobNames]

VARIABLES
  header,      \* our header of each name
  remote,      \* each peer's header of each name
  connected,   \* peers we are connected to
  imported,    \* the initial import is complete
  job,         \* doSync
  call,        \* the call of syncName in each slot
  requests,    \* UpdateReqs on their way
  toSyncer,    \* answers on their way to the name syncer's handler, NilUpdates with
               \* header None
  toQueue,     \* Updates on their way to the update queue's handler
  queue,       \* the update queued for each name
  faults

network == <<requests, toQueue, toSyncer>>
vars    == <<header, remote, connected, imported, job, call, network, queue, faults>>

\* The types of the variables; and a call that goes on collecting has not had all the
\* answers it asked for (the collector fires on the last one).
TypeOK ==
  /\ header \in [BlobNames -> Versions]
  /\ remote \in [Peers -> [BlobNames -> Versions]]
  /\ connected \in SUBSET Peers
  /\ imported \in BOOLEAN
  /\ job \in JobState
  /\ call \in [Slots -> CallState]
  /\ \A s \in Slots : call[s].pc = "collecting" =>
       call[s].sampleSize = 0 \/ call[s].recvCount < call[s].sampleSize
  /\ requests \in SUBSET Requests
  /\ toQueue \in SUBSET Answers
  /\ toSyncer \in SUBSET Answers
  /\ queue \in [BlobNames -> Versions \cup {None}]
  /\ faults \in 0..MaxFaults

Init ==
  /\ header = [n \in BlobNames |-> ZeroHeader]
  /\ remote = [p \in Peers |-> [n \in BlobNames |-> ZeroHeader]]
  /\ connected = {}
  /\ imported = FALSE
  /\ job = [pc |-> "starting", todo |-> {}]
  /\ call = [s \in Slots |-> Free]
  /\ requests = {}
  /\ toQueue = {}
  /\ toSyncer = {}
  /\ queue = [n \in BlobNames |-> None]
  /\ faults = 0

Fault == faults < MaxFaults /\ faults' = faults + 1

Become(s, state) == call' = [call EXCEPT ![s] = state]

\* The listeners of an event about a name, as On and off keep them: the calls that
\* collect answers, and ...
Collecting(n) == {s \in Slots : call[s].pc = "collecting" /\ call[s].name = n}

\* ... those that wait for its update.  Emit runs each in a goroutine.
Awaiting(n) == {s \in Slots : call[s].pc = "awaiting" /\ call[s].name = n}

----------------------------------------------------------------------------
(* The job *)

ImportCompletes ==
  /\ ~imported /\ imported' = TRUE
  /\ UNCHANGED <<header, remote, connected, job, call, network, queue, faults>>

\* Start polls until there are peers and names, and then runs doSync; after that a
\* ticker does.  (The interval is long: at most MaxLate messages are still about.)
DoSync ==
  /\ Cardinality(requests) + Cardinality(toQueue) + Cardinality(toSyncer) <= MaxLate
  /\ \/ job.pc = "starting" /\ connected # {} /\ imported
     \/ job.pc = "resting"
  /\ job' = [pc |-> "running", todo |-> BlobNames]
  /\ UNCHANGED <<header, remote, connected, imported, call, network, queue, faults>>

\* doSync has taken all slots, and emits the end of the job.
JobComplete ==
  /\ job.pc = "running" /\ job.todo = {}
  /\ \A s \in Slots : call[s] = Free
  /\ job' = [job EXCEPT !.pc = "resting"]
  /\ UNCHANGED <<header, remote, connected, imported, call, network, queue, faults>>

----------------------------------------------------------------------------
(* syncName *)

\* SampleIndices: as many distinct peers as asked for, or all
SampleIndices(ids) ==
  IF SampleSize > Cardinality(ids) THEN {ids}
  ELSE {S \in SUBSET ids : Cardinality(S) = SampleSize}

\* A goroutine starts with the next name: it reads the header, subscribes to updates
\* and nil updates, sends the request to a sample of the peers (BroadcastRandom) and
\* starts the collector.  A peer counts even if sending to it failed.
SyncName(s, n, sample) ==
  /\ job.pc = "running" /\ n \in job.todo
  /\ call[s] = Free
  /\ sample \in SampleIndices(connected)
  /\ requests' = requests \cup
       {[peer |-> p, name |-> n, have |-> header[n]] : p \in sample}
  /\ Become(s, [pc |-> "collecting", name |-> n, sampleSize |-> Cardinality(sample),
                recvCount |-> 0, updates |-> 0])
  /\ job' = [job EXCEPT !.todo = @ \ {n}]
  /\ UNCHANGED <<header, remote, connected, imported, toQueue, toSyncer, queue, faults>>

\* The collector's timer
ResponseTimeout(s) ==
  LET c == call[s] IN
  /\ c.pc = "collecting"
  /\ Become(s, [pc |-> "counted", name |-> c.name, updates |-> c.updates])
  /\ UNCHANGED <<header, remote, connected, imported, job, network, queue, faults>>

\* The name syncer's handler of an answer runs: it is counted by the call for its
\* name, which fires when it has as many answers as it asked peers; or dropped if
\* no such call is subscribed.  (Handlers that block on a call's channel when its
\* collector is gone stay blocked for ever, and concern nobody.)
HandleAnswer(a) ==
  /\ a \in toSyncer
  /\ toSyncer' = toSyncer \ {a}
  /\ LET Count(c) == [c EXCEPT !.recvCount = @ + 1,
                               !.updates = @ + IF a.header = None THEN 0 ELSE 1]
     IN  call' = [s \in Slots |->
           IF s \notin Collecting(a.name) THEN call[s]
           ELSE IF Count(call[s]).recvCount # call[s].sampleSize THEN Count(call[s])
           ELSE [pc |-> "counted", name |-> a.name, updates |-> Count(call[s]).updates]]
  /\ UNCHANGED <<header, remote, connected, imported, job, requests, toQueue,
                 queue, faults>>

\* awaitSyncCompletion: no peer had an update ...
NothingToSync(s) ==
  /\ call[s].pc = "counted" /\ call[s].updates = 0
  /\ Become(s, Free)
  /\ UNCHANGED <<header, remote, connected, imported, job, network, queue, faults>>

\* ... or it subscribes to the updater's events, which may come too late: ...
OnUpdateProcessed(s) ==
  /\ call[s].pc = "counted" /\ call[s].updates > 0
  /\ Become(s, [pc |-> "awaiting", name |-> call[s].name, result |-> None])
  /\ UNCHANGED <<header, remote, connected, imported, job, network, queue, faults>>

\* Mutant: without an event it subscribes again.
AwaitEvent(s) ==
  /\ call[s].pc = "awaiting"
  /\ Become(s, IF call[s].result # None THEN Free
               ELSE [pc |-> "counted", name |-> call[s].name, updates |-> 1])
  /\ UNCHANGED <<header, remote, connected, imported, job, network, queue, faults>>

\* ... it waits for the first event, or for the timeout.
AwaitSyncCompletion(s) ==
  /\ call[s].pc = "awaiting"
  /\ Become(s, Free)
  /\ UNCHANGED <<header, remote, connected, imported, job, network, queue, faults>>

----------------------------------------------------------------------------
(* The peers *)

Connect(p) ==
  /\ p \notin connected
  /\ connected' = connected \cup {p}
  /\ UNCHANGED <<header, remote, imported, job, call, network, queue, faults>>

\* The requests on their way to the peer, or the answers to them, are lost.
Disconnect(p) ==
  /\ p \in connected /\ Fault
  /\ connected' = connected \ {p}
  /\ requests' = {r \in requests : r.peer # p}
  /\ UNCHANGED <<header, remote, imported, job, call, toQueue, toSyncer, queue>>

\* Mutant: an update is announced only to those without any sectors.
ServeFirstOnly(r) ==
  IF r.have.size = 0 /\ remote[r.peer][r.name].size > 0
  THEN remote[r.peer][r.name] ELSE None

\* The answer of UpdateReqHandler to a request if the name is not busy: the size of
\* the header is compared, not its epoch.
Served(r) ==
  IF remote[r.peer][r.name].size > r.have.size THEN remote[r.peer][r.name] ELSE None

\* UpdateReqHandler of a peer; a name that is locked there gets a nil update.  Our
\* reader emits the answer to the name syncer and, if it is an Update, to the queue.
UpdateReqHandler(r) ==
  /\ r \in requests
  /\ requests' = requests \ {r}
  /\ \E h \in {Served(r), None} :
       LET a == [peer |-> r.peer, name |-> r.name, header |-> h] IN
       /\ toSyncer' = toSyncer \cup {a}
       /\ toQueue' = IF h = None THEN toQueue ELSE toQueue \cup {a}
       /\ IF h = Served(r) THEN UNCHANGED faults ELSE Fault
  /\ UNCHANGED <<header, remote, connected, imported, job, call, queue>>

\* A peer stores a newer header.  (It gossips it too; a node that is not connected
\* at that moment misses that, and depends on the name syncer.)
PeerUpdated(p, n, h) ==
  /\ Ahead(h, remote[p][n])
  /\ remote' = [remote EXCEPT ![p][n] = h]
  /\ UNCHANGED <<header, connected, imported, job, call, network, queue, faults>>

----------------------------------------------------------------------------
(* The update queue and the updater *)

\* Mutant: an update is compared with what is queued only.
EnqueueAny(a) ==
  LET n == a.name IN
  /\ a \in toQueue
  /\ toQueue' = toQueue \ {a}
  /\ queue' = IF queue[n] = None \/ a.header.size > queue[n].size
              THEN [queue EXCEPT ![n] = a.header] ELSE queue
  /\ UNCHANGED <<header, remote, connected, imported, job, call, requests, toSyncer, faults>>

\* The queue keeps an update that is ahead of the header and larger than what is queued.
Enqueue(a) ==
  LET n == a.name IN
  /\ a \in toQueue
  /\ toQueue' = toQueue \ {a}
  /\ queue' = IF /\ Ahead(a.header, header[n])
                 /\ queue[n] = None \/ a.header.size > queue[n].size
              THEN [queue EXCEPT ![n] = a.header] ELSE queue
  /\ UNCHANGED <<header, remote, connected, imported, job, call, requests, toSyncer, faults>>

\* A worker of the updater processes the update of a name, and emits the result to
\* the calls that wait for it at that moment.
ProcessUpdate(n, result) ==
  /\ queue[n] # None
  /\ queue' = [queue EXCEPT ![n] = None]
  /\ IF result = "ok" THEN header' = [header EXCEPT ![n] = queue[n]] /\ UNCHANGED faults
     ELSE Fault /\ UNCHANGED header
  /\ call' = [s \in Slots |->
       IF s \in Awaiting(n) /\ call[s].result = None
       THEN [call[s] EXCEPT !.result = result] ELSE call[s]]
  /\ UNCHANGED <<remote, connected, imported, job, network>>

----------------------------------------------------------------------------

CallStep(s) ==
  \/ \E n \in BlobNames, sample \in SUBSET Peers : SyncName(s, n, sample)
  \/ ResponseTimeout(s)
  \/ NothingToSync(s)
  \/ OnUpdateProcessed(s)
  \/ AwaitSyncCompletion(s)

Next ==
  \/ ImportCompletes \/ DoSync \/ JobComplete
  \/ \E s \in Slots : CallStep(s)
  \/ \E a \in toSyncer : HandleAnswer(a)
  \/ \E p \in Peers : Connect(p) \/ Disconnect(p)
  \/ \E r \in requests : UpdateReqHandler(r)
  \/ \E p \in Peers, n \in BlobNames, h \in Headers : PeerUpdated(p, n, h)
  \/ \E a \in toQueue : Enqueue(a)
  \/ \E n \in BlobNames, result \in {"ok", "err"} : ProcessUpdate(n, result)

Spec == Init /\ [][Next]_vars

\* Some call for the name asks the peer.
Asks(p, n) == \E s \in Slots, sample \in SUBSET Peers : p \in sample /\ SyncName(s, n, sample)

\* The job and its calls have timers; handlers and the workers run; a peer is found
\* again and answers; and a random sample includes every peer time and again.
Fairness ==
  /\ WF_vars(ImportCompletes) /\ WF_vars(DoSync) /\ WF_vars(JobComplete)
  /\ \A s \in Slots : WF_vars(CallStep(s))
  /\ \A p \in Peers : WF_vars(Connect(p))
  /\ \A p \in Peers, n \in BlobNames : SF_vars(Asks(p, n))
  /\ \A r \in Requests : WF_vars(UpdateReqHandler(r))
  /\ WF_vars(\E a \in toSyncer : HandleAnswer(a))
  /\ \A n \in BlobNames :
       /\ WF_vars(\E a \in toQueue : a.name = n /\ Enqueue(a))
       /\ WF_vars(\E result \in {"ok", "err"} : ProcessUpdate(n, result))

FairSpec == Spec /\ Fairness

----------------------------------------------------------------------------
(* Properties *)

\* A call fires at the latest when all peers it asked have answered, and an event of
\* the updater is for the name it awaits; so a job ends even if peers never answer,
\* and even if the update was processed before the call subscribed to the event.
JobsEnd == (job.pc = "running") ~> (job.pc = "resting")

\* Whatever is lost, late, counted for the wrong call or missed, in the end the node
\* has no header that is behind that of a peer it is connected to: the update server
\* tells it, and the queue takes the update whether or not a call waits for it.
CatchesUp ==
  <>[](\A n \in BlobNames, p \in Peers : ~Ahead(remote[p][n], header[n]))

\* Headers only move ahead, in whichever order answers of different peers, rounds
\* and gossip reach the queue.
HeadersMoveAhead ==
  [][\A n \in BlobNames : header'[n] = header[n] \/ Ahead(header'[n], header[n])]_vars

=============================================================================
