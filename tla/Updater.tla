------------------------------ MODULE Updater ------------------------------
(***************************************************************************)
(* What a node stores for one name: the header in the database and the     *)
(* blob file, and everything that writes them.  That is UpdateBlob and the *)
(* SyncSectors it calls (protocol/updater.go, syncer.go), run by several   *)
(* workers; the Checkout, WriteSector and Commit calls of the RPC server   *)
(* (rpc/server.go); and the handler of equivocation proofs                 *)
(* (sector_server.go).  They share the name's lock (util/multi_locker.go), *)
(* the database and the file, and read some of it outside the lock.        *)
(*                                                                         *)
(* Data.  A blob file is a function from positions to sectors.  The serial *)
(* hash of n sectors stands for those sectors, so it is modelled by the    *)
(* sequence of them, and ZeroHash by the empty one.  A signature is        *)
(* modelled by what was signed: SealHash commits to an epoch height, a     *)
(* sector size and a tip hash, and the chain gives the last two.           *)
(***************************************************************************)
EXTENDS Integers, Sequences, FiniteSets

CONSTANTS
  Workers,     \* goroutines of the updater
  Clients,     \* RPC clients that edit the name
  Sectors,     \* contents of a sector other than zeroes
  Zero,        \* a sector of zeroes
  None,        \* no header, no ban, no proof, no file, nobody
  MaxSize,     \* blob.MaxSectors
  MaxEpoch,    \* bound on epoch heights
  MaxTime,     \* bound on the clock
  Week,        \* seven days, in ticks of the clock
  MaxReaders,  \* bound on concurrent holders of the read lock
  MaxLate,     \* bound on sync goroutines that outlive their SyncSectors
  InitSeals,   \* what the publisher has signed and peers may serve
  CanCrash     \* whether the process may end at any step

ASSUME BoundsAreNats ==
  /\ MaxSize \in Nat /\ MaxEpoch \in Nat /\ MaxTime \in Nat
  /\ MaxReaders \in Nat /\ MaxLate \in Nat
  /\ Week \in Nat \ {0}
ASSUME CanCrashIsBoolean == CanCrash \in BOOLEAN
ASSUME ActorsDistinct ==
  /\ Workers \cap Clients = {}
  /\ None \notin Workers \cup Clients
  /\ Zero \notin Sectors

Epochs == 0..MaxEpoch
Sizes  == 0..MaxSize
Times  == 0..MaxTime
Actors == Workers \cup Clients

File  == [1..MaxSize -> Sectors \cup {Zero}]
Chain == UNION {[1..n -> Sectors \cup {Zero}] : n \in Sizes}
Seal  == [epoch : Epochs, chain : Chain]

ASSUME SealsAreTyped == InitSeals \subseteq Seal

\* store.Header; start is EpochStartAt, None for the zero time
Header == [epoch : Epochs, size : Sizes, tip : Chain, sig : Seal,
           start : Times \cup {None}]

\* The part of an UpdateQueueItem that UpdateBlob reads
Item == [epoch : Epochs, size : Sizes]

\* What SyncSectors is asked for, and whether the epoch rolled over
Opts == [epoch : Epochs, size : Sizes, prev : Chain, epochUpdated : BOOLEAN]

\* wire.EquivocationProof: the header of the node that found it and the
\* response that conflicts with it
Remote == [epoch : Epochs, pos : Sizes, prev : Chain, sig : Seal]
Proof  == [local : Header, remote : Remote]

ASSUME NoneIsNothing == None \notin Header /\ None \notin Proof

Idle == [pc |-> "idle"]

\* UpdateBlob between two accesses to what others write
WorkerState ==
  {Idle}
    \cup [pc : {"read"}, item : Item, hd : Header \cup {None}]
    \cup [pc : {"checked"}, item : Item, opts : Opts]
    \cup [pc : {"syncing"}, item : Item, opts : Opts, file : File]
    \cup [pc : {"banned"}, item : Item, opts : Opts, proof : Proof]
    \cup [pc : {"synced"}, item : Item, opts : Opts, file : File, su : Seal]
    \cup [pc : {"stored"}, item : Item, file : File]
    \cup [pc : {"updated"}, item : Item]

\* An RPC client with a checked out blob, and inside Commit
ClientState ==
  {Idle}
    \cup [pc : {"open"}, epoch : Epochs, tip : Chain, file : File \cup {None}]
    \cup [pc : {"verified", "stored"}, epoch : Epochs, tip : Chain,
          file : File]

\* A sync goroutine whose SyncSectors has returned an error
LateState == [pc : {"late"}, opts : Opts]
               \cup [pc : {"lateBanned"}, opts : Opts, proof : Proof]

\* wire.Update, as gossiped; size 0 is the notice of an equivocation
Update == [epoch : Epochs, size : Sizes]

VARIABLES
  header,    \* the stored header, or None
  blob,      \* the blob file
  bannedAt,  \* GetHeaderBan, or None
  proof,     \* the stored equivocation proof, or None
  proving,   \* onEquivocationProof stored a proof and has yet to ban
  writer,    \* who holds the write lock of the name
  readers,   \* how many hold the read lock
  worker,    \* the state of each worker
  client,    \* the state of each RPC client
  late,      \* sync goroutines that are still running
  admitted,  \* updates that passed the checks of Enqueue
  seals,     \* what the publisher has signed
  sent,      \* Update messages gossiped so far
  now        \* the clock

vars == <<header, blob, bannedAt, proof, proving, writer, readers, worker,
          client, late, admitted, seals, sent, now>>

TypeOK ==
  /\ header \in Header \cup {None}
  /\ blob \in File
  /\ bannedAt \in Times \cup {None}
  /\ proof \in Proof \cup {None}
  /\ proving \in BOOLEAN
  /\ writer \in Actors \cup {None}
  /\ readers \in 0..MaxReaders
  /\ worker \in [Workers -> WorkerState]
  /\ client \in [Clients -> ClientState]
  /\ late \in SUBSET LateState
  /\ admitted \in SUBSET Item
  /\ seals \in SUBSET Seal
  /\ sent \in SUBSET Update
  /\ now \in Times

----------------------------------------------------------------------------
(* Helpers *)

ZeroFile == [i \in 1..MaxSize |-> Zero]
ZeroHash == <<>>

\* The tip of SerialHash over the first n sectors of a file or a chain.
SerialHash(f, n) == [i \in 1..n |-> f[i]]

\* CurrentEpoch, for a name whose offset into the week is zero.
CurrentEpoch == now \div Week

\* Less than a week has passed since t.
WithinWeek(t) == t # None /\ now < t + Week

\* TryLock
LockFree == writer = None /\ readers = 0

\* What WriteSector leaves in a file after Seek(pos) and a chain's sectors.
WriteSectors(f, pos, chain) ==
  [i \in 1..MaxSize |-> IF pos < i /\ i <= Len(chain) THEN chain[i] ELSE f[i]]

\* An update is ahead of the stored header.
Ahead(it) ==
  header # None => \/ it.epoch > header.epoch
                   \/ it.epoch = header.epoch /\ it.size > header.size

Init ==
  /\ header = None
  /\ blob = ZeroFile
  /\ bannedAt = None
  /\ proof = None
  /\ proving = FALSE
  /\ writer = None
  /\ readers = 0
  /\ worker = [w \in Workers |-> Idle]
  /\ client = [c \in Clients |-> Idle]
  /\ late = {}
  /\ admitted = {}
  /\ seals = InitSeals
  /\ sent = {}
  /\ now = 0

----------------------------------------------------------------------------
(* The queue, as far as UpdateBlob depends on it (module UpdateQueue) *)

\* A peer announces what it has, and Enqueue admits it: the header is not
\* banned and is behind the update.  A handler can take any time from there to
\* the insert, and several can carry the same update, so an admitted update may
\* reach a worker at any later time, and more than once.
Admit(s) ==
  LET it == [epoch |-> s.epoch, size |-> Len(s.chain)] IN
  /\ it.size # 0
  /\ bannedAt = None
  /\ Ahead(it)
  /\ admitted' = admitted \cup {it}
  /\ UNCHANGED <<header, blob, bannedAt, proof, proving, writer, readers,
                 worker, client, late, seals, sent, now>>

----------------------------------------------------------------------------
(* UpdateBlob *)

Become(w, state) == worker' = [worker EXCEPT ![w] = state]

\* Mutant: items that are behind the header are not returned early.
StartUpdateUnchecked(w, it) ==
  /\ worker[w].pc = "idle"
  /\ it \in admitted
  /\ Become(w, [pc |-> "read", item |-> it, hd |-> header])
  /\ UNCHANGED <<header, blob, bannedAt, proof, proving, writer, readers,
                 client, late, admitted, seals, sent, now>>

\* A worker starts on an item and reads the header, without the lock.  The
\* early returns (already synchronized, backdated) change nothing.
StartUpdate(w, it) ==
  /\ worker[w].pc = "idle"
  /\ it \in admitted
  /\ Ahead(it)
  /\ Become(w, [pc |-> "read", item |-> it, hd |-> header])
  /\ UNCHANGED <<header, blob, bannedAt, proof, proving, writer, readers,
                 client, late, admitted, seals, sent, now>>

\* The epoch is higher than the one of the header that was read.
RollsOver(s) == s.hd # None /\ s.item.epoch > s.hd.epoch

\* ErrNameBanned, ErrInvalidEpochCurrent, ErrInvalidEpochThrottled and
\* ErrInvalidEpochFuturedated
RolloverRefused(s) ==
  \/ WithinWeek(bannedAt)
  \/ bannedAt # None /\ s.item.epoch <= s.hd.epoch + 1
  \/ WithinWeek(s.hd.start) /\ s.item.epoch < CurrentEpoch + 1
  \/ s.item.epoch > CurrentEpoch + 1

\* What to ask peers for: all of a new epoch, from epoch 0 on if the name has
\* no header, else what follows the header's tip.
SyncOpts(s) ==
  IF s.hd = None
  THEN [epoch |-> 0, size |-> 0, prev |-> ZeroHash, epochUpdated |-> TRUE]
  ELSE IF RollsOver(s)
  THEN [epoch |-> s.item.epoch, size |-> 0, prev |-> ZeroHash,
        epochUpdated |-> TRUE]
  ELSE [epoch |-> s.hd.epoch, size |-> s.hd.size, prev |-> s.hd.tip,
        epochUpdated |-> FALSE]

\* The ban is read and the epoch of the item checked, still without the lock.
CheckEpoch(w) ==
  LET s == worker[w] IN
  /\ s.pc = "read"
  /\ Become(w, IF RollsOver(s) /\ RolloverRefused(s)
               THEN Idle
               ELSE [pc |-> "checked", item |-> s.item, opts |-> SyncOpts(s)])
  /\ UNCHANGED <<header, blob, bannedAt, proof, proving, writer, readers,
                 client, late, admitted, seals, sent, now>>

\* TryLock, and a transaction: truncated if the epoch rolled over, else a clone
\* of the blob (made at the first write, but nobody else writes until then).
LockName(w) ==
  LET s == worker[w] IN
  /\ s.pc = "checked"
  /\ IF ~LockFree \/ (s.opts.epochUpdated /\ s.opts.epoch > CurrentEpoch + 1)
     THEN Become(w, Idle) /\ UNCHANGED writer
     ELSE /\ Become(w, [pc |-> "syncing", item |-> s.item, opts |-> s.opts,
                        file |-> IF s.opts.epochUpdated THEN ZeroFile ELSE blob])
          /\ writer' = w
  /\ UNCHANGED <<header, blob, bannedAt, proof, proving, readers, client,
                 late, admitted, seals, sent, now>>

\* Mutant: the lock is kept on the error path.
FailLocked(w) == Become(w, Idle) /\ UNCHANGED writer

\* UpdateBlob returns an error, after the transaction has been rolled back, or
\* it returns nil; either way the deferred Unlock runs.
Fail(w) == Become(w, Idle) /\ writer' = None
Succeed(w) == Become(w, [pc |-> "updated", item |-> worker[w].item])
                /\ writer' = None

----------------------------------------------------------------------------
(* SyncSectors *)

\* The peer holds a chain s and answers a BlobReq for what follows position
\* size: it sends the hash at that position and the sectors after it.
Serves(s, o) == o.epoch <= s.epoch /\ o.size <= Len(s.chain)
PrevHash(s, o) == SerialHash(s.chain, o.size)

\* The response continues what the node has: its sectors go to the transaction.
Accept(w, s) ==
  LET p == worker[w] IN
  /\ p.pc = "syncing"
  /\ Serves(s, p.opts)
  /\ PrevHash(s, p.opts) = p.opts.prev
  /\ Become(w, [pc |-> "synced", item |-> p.item, opts |-> p.opts,
                file |-> WriteSectors(p.file, p.opts.size, s.chain), su |-> s])
  /\ UNCHANGED <<header, blob, bannedAt, proof, proving, writer, readers,
                 client, late, admitted, seals, sent, now>>

\* Mutant: the hashes are not compared.
ConflictsAlways(s, o) == Serves(s, o)

\* A response with a correct signature that does not continue what we have ...
Conflicts(s, o) == Serves(s, o) /\ PrevHash(s, o) # o.prev

\* ... is an equivocation that is to be recorded, unless one is.
Records(s, o) ==
  Conflicts(s, o) /\ s.epoch = o.epoch /\ proof = None /\ header # None

ProofOf(s, o) ==
  [local |-> header,
   remote |-> [epoch |-> s.epoch, pos |-> o.size, prev |-> PrevHash(s, o),
               sig |-> s]]

\* The goroutine of a sync that failed goes on until it sees doneCh, and may
\* handle another response before.
Linger(o) ==
  late' \in {late} \cup IF Cardinality(late) < MaxLate
                       THEN {late \cup {[pc |-> "late", opts |-> o]}}
                       ELSE {}

\* A response whose signature does not verify: the peer holds less than was
\* asked for, or the name has been banned or forgotten meanwhile.
InvalidSignature(w) ==
  /\ worker[w].pc = "syncing"
  /\ Fail(w)
  /\ Linger(worker[w].opts)
  /\ UNCHANGED <<header, blob, bannedAt, proof, proving, readers, client,
                 admitted, seals, sent, now>>

\* A conflicting response of another epoch, or of a recorded equivocation.
Mismatch(w, s) ==
  /\ worker[w].pc = "syncing"
  /\ Conflicts(s, worker[w].opts)
  /\ s.epoch = worker[w].opts.epoch => proof # None
  /\ Fail(w)
  /\ Linger(worker[w].opts)
  /\ UNCHANGED <<header, blob, bannedAt, proof, proving, readers, client,
                 admitted, seals, sent, now>>

\* Mutant: peers are notified before the proof is stored.
BanHeaderNotifies(w, s) ==
  LET p == worker[w] IN
  /\ p.pc = "syncing"
  /\ Records(s, p.opts)
  /\ bannedAt' = now
  /\ sent' = sent \cup {[epoch |-> s.epoch, size |-> 0]}
  /\ Become(w, [pc |-> "banned", item |-> p.item, opts |-> p.opts,
                proof |-> ProofOf(s, p.opts)])
  /\ UNCHANGED <<header, blob, proof, proving, writer, readers, client, late,
                 admitted, seals, now>>

\* An equivocation: the header is banned in one database transaction ...
BanHeader(w, s) ==
  LET p == worker[w] IN
  /\ p.pc = "syncing"
  /\ Records(s, p.opts)
  /\ bannedAt' = now
  /\ Become(w, [pc |-> "banned", item |-> p.item, opts |-> p.opts,
                proof |-> ProofOf(s, p.opts)])
  /\ UNCHANGED <<header, blob, proof, proving, writer, readers, client, late,
                 admitted, seals, sent, now>>

\* ... the proof is stored in another, and peers are notified.
RecordProof(w) ==
  LET p == worker[w] IN
  /\ p.pc = "banned"
  /\ proof' = p.proof
  /\ sent' = sent \cup {[epoch |-> p.proof.remote.epoch, size |-> 0]}
  /\ Fail(w)
  /\ Linger(p.opts)
  /\ UNCHANGED <<header, blob, bannedAt, proving, readers, client, admitted,
                 seals, now>>

\* The same by a goroutine that outlived its sync, without the lock.
LateBan(l, s) ==
  /\ l.pc = "late"
  /\ Records(s, l.opts)
  /\ bannedAt' = now
  /\ late' = (late \ {l}) \cup {[pc |-> "lateBanned", opts |-> l.opts,
                                 proof |-> ProofOf(s, l.opts)]}
  /\ UNCHANGED <<header, blob, proof, proving, writer, readers, worker, client,
                 admitted, seals, sent, now>>

LateProof(l) ==
  /\ l.pc = "lateBanned"
  /\ proof' = l.proof
  /\ sent' = sent \cup {[epoch |-> l.proof.remote.epoch, size |-> 0]}
  /\ late' = late \ {l}
  /\ UNCHANGED <<header, blob, bannedAt, proving, writer, readers, worker,
                 client, admitted, seals, now>>

\* It sees doneCh, or blocks for good on the error nobody receives.
LateDone(l) ==
  /\ l.pc = "late"
  /\ late' = late \ {l}
  /\ UNCHANGED <<header, blob, bannedAt, proof, proving, writer, readers,
                 worker, client, admitted, seals, sent, now>>

----------------------------------------------------------------------------
(* UpdateBlob after the sync *)

NewHeader(s) ==
  [epoch |-> s.item.epoch, size |-> s.item.size,
   tip |-> SerialHash(s.file, s.item.size), sig |-> s.su,
   start |-> IF s.opts.epochUpdated THEN now ELSE None]

\* Mutant: the tip of the transaction is not compared with the signed one.
StoreHeaderUnverified(w) ==
  LET s == worker[w] IN
  /\ s.pc = "synced"
  /\ header' = NewHeader(s)
  /\ Become(w, [pc |-> "stored", item |-> s.item, file |-> s.file])
  /\ UNCHANGED <<blob, bannedAt, proof, proving, writer, readers, client,
                 late, admitted, seals, sent, now>>

\* The tip of what the transaction holds is the one that was signed: the header
\* is stored.
StoreHeader(w) ==
  LET s == worker[w] IN
  /\ s.pc = "synced"
  /\ SerialHash(s.file, s.item.size) = s.su.chain
  /\ header' = NewHeader(s)
  /\ Become(w, [pc |-> "stored", item |-> s.item, file |-> s.file])
  /\ UNCHANGED <<blob, bannedAt, proof, proving, writer, readers, client,
                 late, admitted, seals, sent, now>>

\* It is not: the transaction is rolled back, and the error that is wrapped and
\* returned is nil.
TipMismatch(w) ==
  LET s == worker[w] IN
  /\ s.pc = "synced"
  /\ SerialHash(s.file, s.item.size) # s.su.chain
  /\ Succeed(w)
  /\ UNCHANGED <<header, blob, bannedAt, proof, proving, readers, client,
                 late, admitted, seals, sent, now>>

\* The transaction is committed to the blob, the update is gossiped unless the
\* name was imported too recently, and the lock is released.
CommitTx(w) ==
  LET s == worker[w] IN
  /\ s.pc = "stored"
  /\ blob' = s.file
  /\ sent' \in {sent, sent \cup {s.item}}
  /\ Succeed(w)
  /\ UNCHANGED <<header, bannedAt, proof, proving, readers, client, late,
                 admitted, seals, now>>

\* runWorker tells the observers and goes back to polling the queue.
EmitProcessed(w) ==
  /\ worker[w].pc = "updated"
  /\ Become(w, Idle)
  /\ UNCHANGED <<header, blob, bannedAt, proof, proving, writer, readers, client,
                 late, admitted, seals, sent, now>>

----------------------------------------------------------------------------
(* The RPC server: Checkout, WriteSector and Commit *)

Edit(c, state) == client' = [client EXCEPT ![c] = state]

\* The epoch a client is told to write in: the header's, or the current one.
HeaderEpoch == IF header = None THEN CurrentEpoch ELSE header.epoch

\* A client checks the blob out, to append to it ...
Checkout(c) ==
  /\ client[c].pc \in {"idle", "open"}
  /\ HeaderEpoch <= MaxEpoch
  /\ Edit(c, [pc |-> "open", epoch |-> HeaderEpoch,
              tip |-> IF header = None THEN ZeroHash ELSE header.tip,
              file |-> None])
  /\ UNCHANGED <<header, blob, bannedAt, proof, proving, writer, readers,
                 worker, late, admitted, seals, sent, now>>

\* ... or to start the next epoch.
CheckoutReset(c) ==
  /\ client[c].pc \in {"idle", "open"}
  /\ HeaderEpoch <= CurrentEpoch
  /\ HeaderEpoch < MaxEpoch
  /\ Edit(c, [pc |-> "open", epoch |-> HeaderEpoch + 1, tip |-> ZeroHash,
              file |-> ZeroFile])
  /\ UNCHANGED <<header, blob, bannedAt, proof, proving, writer, readers,
                 worker, late, admitted, seals, sent, now>>

\* What a transaction works on: a clone of the blob, made at its first access.
\* That takes the blob's own mutex but not the name's lock, so the blob may have
\* changed since the checkout.
Clone(f) == IF f # None THEN f ELSE blob

\* The client appends a sector to the transaction, and to its own tip.
WriteSector(c, sector) ==
  LET s == client[c] IN
  /\ s.pc = "open"
  /\ Len(s.tip) < MaxSize
  /\ Edit(c, [s EXCEPT !.tip = Append(s.tip, sector),
                       !.file = [Clone(s.file) EXCEPT ![Len(s.tip) + 1] = sector]])
  /\ UNCHANGED <<header, blob, bannedAt, proof, proving, writer, readers,
                 worker, late, admitted, seals, sent, now>>

\* The client signs its tip and calls Commit, which compares the transaction
\* with it.  If they differ the transaction stays open.
VerifyCommit(c) ==
  LET s == client[c] IN
  /\ s.pc = "open"
  /\ SerialHash(Clone(s.file), Len(s.tip)) = s.tip
  /\ Edit(c, [s EXCEPT !.pc = "verified", !.file = Clone(s.file)])
  /\ seals' = seals \cup {[epoch |-> s.epoch, chain |-> s.tip]}
  /\ UNCHANGED <<header, blob, bannedAt, proof, proving, writer, readers,
                 worker, late, admitted, sent, now>>

\* TryLock fails.
CommitBusy(c) ==
  /\ client[c].pc = "verified"
  /\ ~LockFree
  /\ Edit(c, [client[c] EXCEPT !.pc = "open"])
  /\ UNCHANGED <<header, blob, bannedAt, proof, proving, writer, readers,
                 worker, late, admitted, seals, sent, now>>

\* Mutant: Commit does not take the lock.
CommitHeaderUnlocked(c) ==
  LET s == client[c] IN
  /\ s.pc = "verified"
  /\ header' = [epoch |-> s.epoch, size |-> Len(s.tip), tip |-> s.tip,
                sig |-> [epoch |-> s.epoch, chain |-> s.tip], start |-> now]
  /\ Edit(c, [s EXCEPT !.pc = "stored"])
  /\ UNCHANGED <<blob, bannedAt, proof, proving, writer, readers, worker, late,
                 admitted, seals, sent, now>>

\* TryLock succeeds and the header is stored.
CommitHeader(c) ==
  LET s == client[c] IN
  /\ s.pc = "verified"
  /\ LockFree
  /\ writer' = c
  /\ header' = [epoch |-> s.epoch, size |-> Len(s.tip), tip |-> s.tip,
                sig |-> [epoch |-> s.epoch, chain |-> s.tip], start |-> now]
  /\ Edit(c, [s EXCEPT !.pc = "stored"])
  /\ UNCHANGED <<blob, bannedAt, proof, proving, readers, worker, late,
                 admitted, seals, sent, now>>

\* The transaction is committed, the update gossiped if the client asked for
\* it, and the lock released.
CommitBlob(c) ==
  LET s == client[c] IN
  /\ s.pc = "stored"
  /\ blob' = s.file
  /\ sent' \in {sent, sent \cup {[epoch |-> s.epoch, size |-> Len(s.tip)]}}
  /\ writer' = None
  /\ Edit(c, Idle)
  /\ UNCHANGED <<header, bannedAt, proof, proving, readers, worker, late,
                 admitted, seals, now>>

----------------------------------------------------------------------------
(* onEquivocationProof *)

\* The proof another node made of two chains of one epoch: the shorter one it
\* had stored, the other it was served.
Equivocation(s, t) ==
  /\ s \in seals /\ t \in seals
  /\ s.epoch = t.epoch
  /\ Len(s.chain) <= Len(t.chain)
  /\ SerialHash(t.chain, Len(s.chain)) # s.chain

ReceivedProof(s, t) ==
  [local |-> [epoch |-> s.epoch, size |-> Len(s.chain), tip |-> s.chain,
              sig |-> s, start |-> None],
   remote |-> [epoch |-> t.epoch, pos |-> Len(s.chain),
               prev |-> SerialHash(t.chain, Len(s.chain)), sig |-> t]]

\* The proof is stored ...
StoreProof(s, t) ==
  /\ ~proving
  /\ Equivocation(s, t)
  /\ header # None
  /\ ~WithinWeek(bannedAt)
  /\ bannedAt # None => header.epoch # t.epoch
  /\ header.epoch <= t.epoch
  /\ proof' = ReceivedProof(s, t)
  /\ proving' = TRUE
  /\ UNCHANGED <<header, blob, bannedAt, writer, readers, worker, client, late,
                 admitted, seals, sent, now>>

\* ... and then the header is banned.
BanProven ==
  /\ proving
  /\ bannedAt' = now
  /\ proving' = FALSE
  /\ UNCHANGED <<header, blob, proof, writer, readers, worker, client, late,
                 admitted, seals, sent, now>>

----------------------------------------------------------------------------
(* Readers, time and crashes *)

\* onBlobReq and ReadAt hold the read lock while they read the blob.
RLock ==
  /\ writer = None
  /\ readers < MaxReaders
  /\ readers' = readers + 1
  /\ UNCHANGED <<header, blob, bannedAt, proof, proving, writer, worker, client,
                 late, admitted, seals, sent, now>>

RUnlock ==
  /\ readers > 0
  /\ readers' = readers - 1
  /\ UNCHANGED <<header, blob, bannedAt, proof, proving, writer, worker, client,
                 late, admitted, seals, sent, now>>

Tick ==
  /\ now < MaxTime
  /\ now' = now + 1
  /\ UNCHANGED <<header, blob, bannedAt, proof, proving, writer, readers, worker,
                 client, late, admitted, seals, sent>>

\* The process ends and is started again: the database and the blob files are
\* what is left.
Restart ==
  /\ worker' = [w \in Workers |-> Idle]
  /\ client' = [c \in Clients |-> Idle]
  /\ writer' = None
  /\ readers' = 0
  /\ late' = {}
  /\ admitted' = {}
  /\ proving' = FALSE
  /\ UNCHANGED <<header, bannedAt, proof, seals, sent, now>>

\* No response in time: SyncSectors returns neither an update nor an error, and
\* UpdateBlob dereferences the update, which ends the process.
Timeout(w) ==
  /\ worker[w].pc \in {"syncing", "banned"}
  /\ Restart
  /\ UNCHANGED blob

\* What is in the blob file if the copying of a commit is cut off.
Torn ==
  {f \in File : \A i \in 1..MaxSize :
     \/ f[i] = blob[i]
     \/ \E w \in Workers : worker[w].pc = "stored" /\ f[i] = worker[w].file[i]
     \/ \E c \in Clients : client[c].pc = "stored" /\ f[i] = client[c].file[i]}

\* The process is killed, or panics somewhere else: an RPC call on a checkout
\* that has expired does, in the type assertion on what txStore.Get returns.
Crash ==
  /\ CanCrash
  /\ Restart
  /\ blob' \in Torn

----------------------------------------------------------------------------

SyncStep(w) ==
  \/ InvalidSignature(w)
  \/ RecordProof(w)
  \/ \E s \in seals : Accept(w, s) \/ Mismatch(w, s) \/ BanHeader(w, s)

UpdateStep(w) ==
  \/ CheckEpoch(w)
  \/ LockName(w)
  \/ StoreHeader(w)
  \/ TipMismatch(w)
  \/ CommitTx(w)
  \/ EmitProcessed(w)

RpcStep(c) ==
  \/ Checkout(c)
  \/ CheckoutReset(c)
  \/ \E sector \in Sectors : WriteSector(c, sector)
  \/ VerifyCommit(c)
  \/ CommitBusy(c)
  \/ CommitHeader(c)
  \/ CommitBlob(c)

LateStep(l) ==
  \/ \E s \in seals : LateBan(l, s)
  \/ LateProof(l)
  \/ LateDone(l)

Next ==
  \/ \E s \in seals : Admit(s)
  \/ \E w \in Workers, it \in Item : StartUpdate(w, it)
  \/ \E w \in Workers : UpdateStep(w) \/ SyncStep(w) \/ Timeout(w)
  \/ \E l \in late : LateStep(l)
  \/ \E c \in Clients : RpcStep(c)
  \/ \E s, t \in seals : StoreProof(s, t)
  \/ BanProven
  \/ RLock \/ RUnlock
  \/ Tick
  \/ Crash

Spec == Init /\ [][Next]_vars

\* The updater polls, and SyncSectors ends with a response or a timeout; a
\* handler that holds the lock does not wait for anyone.
Fairness ==
  /\ \A w \in Workers : WF_vars(UpdateStep(w)) /\ WF_vars(SyncStep(w) \/ Timeout(w))
  /\ \A c \in Clients : WF_vars(CommitBlob(c))
  /\ WF_vars(RUnlock)

FairSpec == Spec /\ Fairness

----------------------------------------------------------------------------
(* Properties *)

\* Whatever workers and clients do, the tip and the size of the stored header
\* are those of a chain the publisher signed, and its signature is that one
\* (UpdateBlob compares the tip of the transaction with the validated one).
HeaderSigned ==
  header # None =>
    /\ header.sig \in seals
    /\ header.tip = header.sig.chain
    /\ header.size = Len(header.tip)

\* Whoever takes the lock finds in the blob what the header says is there: the
\* header and the blob change together under the lock.
BlobMatchesHeader ==
  writer = None /\ header # None => SerialHash(blob, header.size) = header.tip

\* The header only moves forward: "The new header should have a higher or equal
\* epoch", and an update of the same epoch is to be rejected if it has "the same
\* size or fewer".
HeaderAdvances ==
  [][header # None /\ header' # header =>
       \/ header'.epoch > header.epoch
       \/ header'.epoch = header.epoch /\ header'.size > header.size]_vars

\* EpochStartAt tells when the node last changed the epoch of the name: the
\* throttle is to be valid "if the last local epoch increment is less than a
\* week old".
EpochStartKept ==
  [][header # None /\ header' # header /\ header'.epoch = header.epoch =>
       header'.start = header.start]_vars

\* A publisher that never signs two conflicting chains in one epoch is never
\* banned: "A mismatch indicates a proof of equivocation".
HonestNeverBanned ==
  (\A s, t \in seals : ~Equivocation(s, t)) => bannedAt = None

\* An update is reported as processed without an error only if its header has
\* been stored.
UpdatedMeansStored ==
  [][\A w \in Workers :
       worker'[w].pc = "updated" /\ worker[w].pc # "updated" =>
         /\ header' # None
         /\ header'.epoch = worker'[w].item.epoch
         /\ header'.size = worker'[w].item.size]_vars

\* A stored proof that other nodes will accept (its epochs and positions agree
\* and both signatures verify) shows a real equivocation: "A mismatch indicates a
\* proof of equivocation".  SyncSectors compares a response with the header that
\* UpdateBlob read, but puts into the proof the header it reads then, so this
\* holds as long as one worker is the only writer of the name.
Verifies(p) ==
  /\ p.local.epoch = p.remote.epoch
  /\ p.local.size = p.remote.pos
  /\ p.local.sig = [epoch |-> p.local.epoch, chain |-> p.local.tip]
  /\ p.remote.sig.epoch = p.remote.epoch

ProofsAreReal ==
  proof # None /\ Verifies(proof) => Equivocation(proof.local.sig, proof.remote.sig)

\* A notice of an equivocation is gossiped only when the proof can be served:
\* "An Update with SectorSize zero is a special case", and peers answer it with a
\* request for the proof.
NoticeHasProof == (\E u \in sent : u.size = 0) => proof # None

\* The node is a NameStore: its content is the chain the header names, a reader
\* who gets the lock finds it in the blob, and it is replaced by signed chains
\* only (as long as the process does not end between SetHeaderTx and Commit).
Store == INSTANCE NameStore WITH
  signed  <- {s.chain : s \in seals},
  content <- IF header = None THEN None ELSE header.tip,
  locked  <- writer # None,
  shown   <- IF writer # None \/ header = None
             THEN None ELSE SerialHash(blob, header.size)

ImplementsNameStore == Store!Spec

\* The lock is always released again: every path out of UpdateBlob and Commit
\* unlocks, and a sync ends at the latest with its timeout.
LockReleased == (writer # None) ~> (writer = None)

============================================================================
