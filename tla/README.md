# A verification of fnd

fnd is a node of a peer-to-peer network that replicates one *blob* (a file of at
most `MaxSectors` sectors) per Handshake name. The owner of a name signs the tip
of a chain of sector hashes together with an epoch and a size; nodes gossip that
a new chain exists, fetch it from each other, check the signature and store it.
This directory holds TLA+ models of a node, the TLC configurations that check
them on small instances, and TLAPS proofs about all of them.

## Parts of the system

| part | source | model |
| --- | --- | --- |
| update queue | `protocol/update_queue.go` | `UpdateQueue` |
| updater, syncer | `protocol/updater.go`, `syncer.go`, `epoch.go` | `Updater` |
| sector server | `protocol/sector_server.go` | `Checkouts` (BlobReqs), `Updater` (proofs) |
| RPC server, blob editing and reading | `rpc/server.go`, `blob_writer.go`, `blob_reader.go` | `Checkouts`, `Updater` |
| blobs, transactions, pool | `blob/` | `Checkouts`, `Updater` |
| name lock, caches | `util/multi_locker.go`, `cache.go` | `Checkouts`, `Updater`, `Discovery` |
| stores | `store/` | as the others use them |
| name syncer, update server | `protocol/name_syncer.go`, `update_server.go` | `NameSync` |
| name importer, moderation | `protocol/name_importer.go`, `moderation.go`, `ban_list.go` | `Names` |
| peer manager, muxer | `p2p/peer_manager.go`, `peer_muxer.go` | `Peers` |
| connections, handshakes | `p2p/peer.go`, `*_handshake.go`, `envelope_io.go` | `Connection` |
| wire format | `wire/` | `Wire` |
| peer exchange, pings, refills, seeds | `protocol/peer_exchanger.go`, `pinger.go`, `p2p/seeds.go` | `Discovery` |
| start of the daemon, `fnd-cli unsafe` | `cmd/` | `Names`, `Discovery` |

How they interact: the muxer hands each message to the handlers in goroutines of
their own. An `Update` goes to the queue, a worker of the updater takes it from
there, asks the peers that announced it for sectors, and writes header and blob
under the lock of the name. An RPC client writes the same header and blob. The
sector server reads them, and bans a name on a proof that its owner signed two
conflicting chains. The name importer decides which names have an owner; the name
syncer asks peers for what the node has missed.

What makes it hard: values read before a lock is taken and used after it (the
header in UpdateBlob, the queue length in Enqueue, the connection limits);
goroutines that outlive the call that made them (SyncSectors); header and blob
stored one after the other; transactions that commit although their callback
failed; caches whose entries expire under their users; connections closed by peer
ID while the peer reconnects.

## The modules

Definitions keep the names of the code. An action is one critical section, or one
access to shared state where the code takes no lock.

**`UpdateQueue`**. `CheckLen`, `Validate`, `CompareHeader` and one of `InsertNew`,
`InsertPeer`, `InsertRejected` are the steps of `Enqueue` in a handler; `Dequeue`
and `FinishUpdate` those of a worker; `ReapDequeuedUpdates` the ticker. Items are
pointers, so `item` is a small heap. The database changes under the queue's feet
(`SetHeader`, `Ban`, `Allow`).

**`Updater`**. One name. `Admit` stands for the queue; `StartUpdate`,
`CheckEpoch`, `LockName`, the sync steps, `StoreHeader` and `CommitTx` for
`UpdateBlob`. `Late*` are the steps of a sync goroutine whose `SyncSectors` has
returned. `Checkout` ... `CommitBlob` are the RPC calls, `StoreProof` and
`BanProven` the handler of received proofs, `RLock` and `RUnlock` readers. A hash
is modelled by the chain it commits to and a signature by what was signed.
`Timeout` is what the code does after a sync without any response: `SyncSectors`
returns neither an update nor an error, `UpdateBlob` dereferences the missing
update, and the process ends. `Crash` (if `CanCrash`) ends it anywhere else and
may leave a blob whose copying was cut off. `CurrentEpoch` is modelled for a name
whose offset into the week is zero. `ReservedRoot` is left out: an RPC commit sets it to
the zero hash, and what a peer sends is only checked with the signature, stored and
served. `onEquivocationProof` checks the epochs, positions
and signatures of a proof but not that its two hashes differ; that received proofs
do show an equivocation (`Equivocation` in `StoreProof`) is an assumption on the
nodes that send them.

**`NameStore`** is the promise of a node about one name: the content is replaced
by signed chains only, and whoever reads under the lock finds all of it.
`Updater!Store` is the refinement mapping.

**`Checkouts`**. One name's blob file and whoever holds it open: BlobWriters with
their checkouts (`Checkout`, `WriteSector`, `Truncate`, `CommitBusy`,
`CommitHeader`, `CommitBlob`, expiry), BlobReqs of peers (`OpenBlob`,
`ServeCached`, `SendResponse`, ...) and BlobReaders. The pool counts references,
the two caches lose entries when the clock says so.

**`NameSync`**. `DoSync` starts a job, `SyncName` a call for one name in a slot of
the semaphore, `HandleAnswer` counts an answer, `AwaitSyncCompletion` and
`OnUpdateProcessed` wait for the updater. Messages go to the queue and to the
syncer independently. Queue and updater are reduced to what they do to a header.

**`Names`**. The start of the daemon (`IngestBanLists` ... `ConnectHsd`), and the
importer: `DoSync`, `FetchBlocks`, `ImportBlock` and its failures. A block is a
sequence of transactions of outputs of records of entries, and
`ExtractTXTRecordsBlock` runs the code's loops over it, as recursive functions.
`WithTx` commits what a failed callback has put and reports success if the commit
itself fails, leaving a transaction open (`txLeftOpen`). `Reorganize` replaces
blocks that are not yet `Depth` deep. hsd is external.

**`Peers`**. A connection is identified with the call that makes it. `Start` takes
the semaphore and the mutex and compares the count; `GateInbound` and
`GateOutbound` are the rest of the gates (the lookups of one gate are one step);
`Fail`, `Greet`, `SelfDial`, `AlreadyConnected`, `AddPeer` the ways on;
`ReceiveError` and `HandlePeerClose` the goroutine of a connection. `ClosePeer` is
the pinger's. `RemoteIP` maps an address as a caller spells it to what the
connection reports.

**`Discovery`**. The same calls in two steps, one through the gate and one after
the handshake, and around them what decides whom to dial: seeds, refills,
exchanged addresses, stored peers and bans, pingers, restarts.

**`Wire`**. Each message type lists its fields twice, once for Encode and once for
Decode; an encoding is a sequence of tokens with a layout and a value.

**`Connection`**. Both ends of one connection: the goroutine that sends, the one
that receives, and the user (handshake, then muxer). Each has a send buffer; the
socket keeps order, may become slow, and deadlines expire. `sent` and `got` are
histories of what was written to and handed over by the two ends.

`MC*` modules give the constants values. Definitions marked "Mutant" are faulty
variants of the one after them: substituting one breaks the property it is for,
which shows that the property can fail. No specification uses them.

## The runs

| run | states | result |
| --- | --- | --- |
| `queue_dispatch` | 257,088 | queue, length and entries agree; the queue exceeds `MaxLen` by fewer than there are handlers; every queued name is dispatched |
| `queue_merge` | 1,429,570 | updates of several sizes, epochs and peers merge into an item all its peers announced; its size never shrinks |
| `updater_worker` | 586,230 | one worker: the header only moves forward over two weeks, verifying proofs are real, the lock is always released |
| `updater_race` | 163,860 | two workers, a late goroutine, proofs and crashes, an owner who equivocates: the header is signed, no notice without a proof |
| `updater_rpc` | 432,559 | a worker and a client implement `NameStore` |
| `updater_honest` | violation | an owner who never equivocated is banned: a hash that differs because of a later epoch is taken for an equivocation (`syncer.go:183`) |
| `checkouts` | 550,552 | the pool counts its holders; an unlocked blob is the one of its header; reads are of committed sectors; responses verify again once commits end |
| `name_sync` | 67,685 | every job ends, the node catches up with its peers within an epoch, headers only move ahead |
| `names` | 339,412 | the last record of a block wins; names are those of the confirmed chain; the initial import is whole when marked; bans, blobs and the header count agree; the import catches up |
| `peers` | 52,932 | maps and counts agree; every registered connection has its reader; the limits are exceeded by fewer than the semaphores let in; broken connections are removed; calls return |
| `connection` | 130,579 | what is received is what was sent; every message survives its encoding; handshakes agree; Close returns; no connection stays half open |
| `discovery` | 143,380 | a banned host stays disconnected; silent peers are closed; known hosts are reached again; listed ones become known |

Further configurations, each with a counterexample, show where code and comments
part or why a property needs its hypothesis:

| configuration | what happens |
| --- | --- |
| `UpdateQueue_epoch` | a larger update of a lower epoch replaces a queued one (`update_queue.go:155`) |
| `Updater_stale` | with two workers, one that read the header before the lock stores one that is not ahead (`updater.go:125`) |
| `Updater_forked` | with two workers, a stored proof verifies and shows no equivocation: the header that goes into it is read again after the comparison |
| `Updater_start` | an append resets `EpochStartAt`, and with it the throttle (`updater.go:280`) |
| `Updater_reported` | a tip mismatch wraps a nil error and is reported as success (`updater.go:265`) |
| `Updater_torn` | killed between storing header and blob, a node restarts with a header its blob does not match (`updater.go:285`) |
| `NameSync_epoch` | a name that starts over in a new epoch with fewer sectors is not caught up with |
| `Checkouts_expired` | a call for a checkout that has expired does not get the error it should |

**Bounds.** Two actors of a kind are enough for the races looked for, as each is
between a step of one and a check of another. Two sectors give a proper prefix and
a conflict at the same length; two epochs a rollover; `updater_worker` has a clock
of two weeks so that the throttle and the ban both expire. `MaxLen` 1 with two
handlers overshoots, and the third name is what a violation of `QueueBounded` would
need; `MaxInbound` 1 with two pending calls overshoots likewise. In `names` a chain
of 5 with `Depth` 2 and two workers leaves a batch that is full, one that is not
and blocks that reorganize; two faults let a failed commit be followed by a
restart, or a crash by a failed write. `connection` gives the listener five
identities, one good and four that differ in version (older, newer), network or
clock. `name_sync` has two peers and a sample of one, so that a call can ask the
wrong one. `MaxLate`, `MaxReaders`, `MaxTime`, `MaxEpoch`, `MaxHeight`, `MaxFaults`
bound what is unbounded in the code. The runs of `Updater`, `Checkouts` and
`Connection` do not check for deadlock: at its bounds a node may be idle for good,
and a closed connection stays closed. `updater_rpc` leaves `sent` out of the
fingerprint, since no step reads it.

**Fairness.** Workers poll on a timer and `SyncSectors` has a timeout, so their
steps are weakly fair; so are a handler's and a reader's steps, the tickers of the
importer, of refills and of pingers, deadlines of sockets, and the expiry of caches
and bans. Calls of the peer manager are strongly fair, because they queue for a
`sync.Mutex`, which Go hands to a goroutine that has waited long enough, and dials
and handshakes have timeouts. In `name_sync` asking a peer is strongly fair: the
sample is random, so it includes every peer time and again. The same run assumes
that the initial import completes (`ImportCatchesUp` is about that), that a lost
peer is found again (`Reconnects`) and that, apart from `MaxFaults` failures, what
is sent arrives and is handled. In `discovery` a request repeated for ever is
answered for ever, unless the peer is gone; nothing is assumed of hosts that are
offline, nor that a host dials. In `names` hsd comes back, and a daemon that ended
is started again. In `connection` nobody has to send or to close a peer, and a slow
socket need not deliver; in `checkouts` clients and peers need not call again, and
nothing runs on once the process has ended.

## The proofs

For every value of the constants that meets the named `ASSUME`s of the modules,
which TLC evaluates in the runs. They say that bounds are natural numbers, sets of
actors finite and distinct, and constants typed; the ones worth naming are
`BlocksNested` (blocks are sequences of sequences, of names the node knows),
`ScriptsAreMessages` and `MessagesAreMessages` (a message has the fields of its
type, and no Hello is sent after the handshake) and `RemoteIPCanonical`.
The temporal theorems rest on inductive invariants, which TLC also finds to hold in
the instances of the runs.

`UpdateQueue_proofs`: types, `QueueAgrees`, `QueueOvershoot`, `ReaperIdle`,
`PeersHaveItem`, `SizeMonotone`. The invariant adds to the properties that a queued
item is typed, carries its name and is held by no worker (`HeapOK`), and that the
queue *plus the handlers between test and insert* stays below the bound
(`AdmissionBound`): the length alone is not inductive, since nothing in it says how
many handlers may still insert.

`Updater_proofs`: types and `SignedHeader` for any workers, clients and crashes;
`BlobAgrees` and `Refinement` (of `NameStore`) unless the process is killed, without
which they are false (`Updater_torn`); `SingleWriterAdvances` and
`SingleWriterProofs` for one worker and no client, without which they are false
(`Updater_stale`, `Updater_forked`); `NoticesProved` without clients, as a client
that commits an empty blob sends an `Update` of size 0, which is the form of a
notice. The invariant says who can hold the lock (`LockOK`), that what a worker or
client is about to store is signed (`SignedOK`), and that between header and blob
the holder's file has what the header names (`BlobOK`). For a single writer it adds
that what the worker is about to store is ahead of the header (`PendingAhead`), that
what its goroutines compare belongs to the stored header or a past one (`PastOK`)
and that whatever they are about to record is a real equivocation (`RealOK`).

`Checkouts_proofs`: types, `PoolAgrees`, `BlobAgrees`, `ReadsCommitted`, for any
number of writers, requests and readers. The invariant ties the reference count to
the program counters of the holders (`PoolOK`), the lock to those of readers and
the committing writer (`LockOK`), and the clone of a writer in the middle of a
commit to the header it has stored (`WritersOK`).

`NameSync_proofs`: types, and `HeadersOnlyMoveAhead`, from the fact that a queued
update is ahead of the header (`QueueAhead`).

`Peers_proofs`: types, `MuxerAgrees`, `ReadersMatch`, `LimitsOvershoot`,
`PendingDialed`. The invariant relates maps, counts and the goroutine of each
connection (`MuxOK`) and bounds the registered connections together with the calls
that have passed the limit (`CallsBounded`).

`Discovery_proofs`: types, `BansAreKept` and `Watched`. The invariant separates the
handshakes that had passed the gate from those a ban must stop, for each direction
(`DialIsOnly`, `BothHold`, `InboundHolds`).

`Connection_proofs`: `DeliveredInOrder`, `MessagesSurvive`, `HandshakeShows`.
First the codec: the field lists of Encode and Decode of each type agree, so
decoding an encoding gives the message back (`MessageRoundTrip`; for the addresses
of a PeerRes, which are widened to 16 bytes, an equal meaning), and an envelope
keeps type, seconds, meaning and a valid signature (`EnvelopeRoundTrip`). Then the
invariant: what an end was given, what waits in its inbox and what is on the wire
are, in this order, the encodings of what the other has sent (`FlowOK`); and what it
has sent is a Hello, an ack only if it accepted the other, or a message of its
script (`SendOK`, `HandshakeOK`). The agreement of the handshake is not inductive
without this: an end believes an ack because it knows when the other sends one.

`Names_proofs`, in three parts.
*Bans*: `BansAreCurrent`, `BannedRemoved`, `CountAgrees`. While lists are ingested,
the names fetched are those in the transaction and those still to ban, and none in
the transaction has a blob (`BansOK`); this carries through commit and wait.
*Extraction*: `LastRecordTaken`, for blocks of any shape. The loops are recursive
functions on `0..Len`. From the well-foundedness of `<` comes induction over sets of
numbers (`Induction`), from that the existence of the functions (`LoopRuns`), and
that a loop which replaces its value in some rounds ends with the last of them
(`LastWins`). That is applied to entries, records, outputs, a transaction's records
and transactions in turn (`RecordKeyIs`, `OutputKeyIs`, `TxKey`, `PutRecordsIs`,
`BlockKey`), and the result compared with the last position at which the block
publishes a key for the name.
*Import*: `NamesAgree`, `InitialImportWhole`. What the importer works on lies at
least `Depth` below the tip, where nothing is reorganized, and its next block is the
one after the stored height unless a commit has failed, after which nothing is
written until the process ends (`ImportOK`, `HeightsOK`); each name's info is that
of the last block that has a key for it, or already that of the next block
(`NameOK`).

Only model-checked, because the prover does not handle liveness under fairness:
`QueuedIsDispatched`, `LockReleased`, `BrokenIsRemoved`, `CallsReturn`,
`ImportCatchesUp`, `JobsEnd`, `CatchesUp`, `CloseReturns`, `NoHalfOpen`,
`AnswersVerifyAgain`, `SilentIsClosed`, `Reconnects`, `Discovers`. Every invariant
and action property of a passing run is proved, those of the updater under the
hypotheses above.

## Not modelled

Heartbeats (a report to an HTTP service), generated RPC code, configuration,
logging, printing: no state of the node changes. Keys and hashes are modelled by
what they commit to. The gossip filter, the listings of the RPC server
(`GetStatus`, `ListPeers`, `ListBlobInfo`, `GetBlobInfo`) and the calls that only
send are left out. In `Peers` the stored list of peers and the whitelist are left
out (they are in `Discovery`), and any address may be dialed. Two hazards have no
property: a tip mismatch reported as success (`updater.go:265`, shown by
`Updater_reported`) and a checkout that expires between two calls of its client
(`rpc/server.go:277`, shown by `Checkouts_expired`).
