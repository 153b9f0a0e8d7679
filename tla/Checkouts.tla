----------------------------- MODULE Checkouts -----------------------------
(***************************************************************************)
(* One name's blob file and everything that holds it open: the checkouts   *)
(* of the RPC server (rpc/server.go) with the BlobWriters that drive them  *)
(* (rpc/blob_writer.go), the ReadAt calls of BlobReaders                   *)
(* (rpc/blob_reader.go) and the peers' BlobReqs (protocol/sector_server.go).*)
(* They share the pool of open files (blob/pool.go), the name's lock       *)
(* (util/multi_locker.go), the stored header, and two caches whose entries *)
(* expire (util/cache.go): the checkouts and the sectors already served.   *)
(*                                                                         *)
(* A call of one BlobWriter follows the answer to the one before it, as in *)
(* cmd/blob/write.go, so the calls for one transaction ID do not overlap;  *)
(* those of different IDs do.  A step is one critical section: what a call *)
(* does between two accesses to shared state is part of the access before. *)
(*                                                                         *)
(* As in Updater, the serial hash of n sectors is modelled by the sequence *)
(* of them and a signature by what was signed.  A writer's sectors carry   *)
(* its own name, so the blob shows whose writes it holds.                  *)
(***************************************************************************)
EXTENDS Integers, Sequences, FiniteSets

CONSTANTS
  Writers,       \* BlobWriters, each with a transaction ID of its own
  Requests,      \* BlobReqs being handled at the same time
  Readers,       \* BlobReaders
  Keys,          \* what BlobReqs ask for: an epoch and a first sector
  Zero,          \* a sector of zeroes
  None,          \* nothing: no clone, no cached sectors, no answer
  MaxSectors,    \* blob.MaxSectors
  CurrentEpoch,  \* protocol.CurrentEpoch of the name
  FirstHeader    \* the header the database holds at first

Sector == Writers \cup {Zero}
Chain  == UNION {[1..n -> Sector] : n \in 0..MaxSectors}

\* store.Header: SectorSize is the length of the chain, Signature signs both
Header == [epoch : Nat, tip : Chain]

ASSUME SizesAreNat == MaxSectors \in Nat \ {0} /\ CurrentEpoch \in Nat
ASSUME KeysTyped ==
  Keys # {} /\ Keys \subseteq [epoch : Nat, from : 0..(MaxSectors - 1)]
ASSUME FirstHeaderTyped == FirstHeader \in Header
ASSUME HoldersDistinct ==
  /\ Writers \cap Requests = {} /\ Writers \cap Readers = {}
  /\ Requests \cap Readers = {} /\ Zero \notin Writers
ASSUME HoldersFinite ==
  IsFiniteSet(Writers) /\ IsFiniteSet(Requests) /\ IsFiniteSet(Readers)
ASSUME NoneIsNoBlob == None \notin [1..MaxSectors -> Sector]

\* Whoever may keep the blob open
Holders == Writers \cup Requests \cup Readers

VARIABLES
  up,       \* whether the process is running
  header,   \* the stored header
  file,     \* the blob file, a sequence of sectors
  refs,     \* the pool entry's count, 0 when there is no entry
  handle,   \* the file a holder has open: "none", "open", or "closed" under it
  lock,     \* [readers, writers] of the name's refCounter
  wr,       \* the BlobWriters
  txs,      \* blob.Transaction of each checkout: [clone, pos, closed]
  stored,   \* txStore's entry of each ID: "absent", "live" or "expired"
  served,   \* the sector server's cache: None, or [sectors, expired]
  rq,       \* the BlobReqs being handled
  rd        \* the BlobReaders

vars == <<up, header, file, refs, handle, lock, wr, txs, stored, served, rq, rd>>

node == <<header, file, refs, handle, lock>>

Tx == [clone : {None} \cup Seq(Sector), pos : 0..(MaxSectors + 1), closed : BOOLEAN]
Writer == [pc : {"new", "open", "verified", "stored", "committed", "failed"},
           epoch : Nat, tip : Seq(Sector)]
Request == [pc : {"idle", "header", "locked", "read", "send"}, key : Keys,
            header : Header, prev : Chain, sectors : Seq(Sector), cached : BOOLEAN]
Reader == [pc : {"idle", "open", "read"}, off : 0..MaxSectors, data : Sector]

\* Every sector of the file is there, and nothing is held beyond its kind
TypeOK ==
  /\ up \in BOOLEAN
  /\ header \in Header
  /\ file \in [1..MaxSectors -> Sector]
  /\ refs \in 0..Cardinality(Holders)
  /\ handle \in [Holders -> {"none", "open", "closed"}]
  /\ lock \in [readers : 0..Cardinality(Requests \cup Readers), writers : 0..1]
  /\ wr \in [Writers -> Writer]
  /\ txs \in [Writers -> Tx]
  /\ stored \in [Writers -> {"absent", "live", "expired"}]
  /\ served \in [Keys -> {None} \cup [sectors : Seq(Sector), expired : BOOLEAN]]
  /\ rq \in [Requests -> Request]
  /\ rd \in [Readers -> Reader]

Padded(chain) ==
  [i \in 1..MaxSectors |-> IF i <= Len(chain) THEN chain[i] ELSE Zero]

\* Nothing runs yet and the blob holds what the header says
Init ==
  /\ up = TRUE
  /\ header = FirstHeader
  /\ file = Padded(FirstHeader.tip)
  /\ refs = 0
  /\ handle = [h \in Holders |-> "none"]
  /\ lock = [readers |-> 0, writers |-> 0]
  /\ wr = [w \in Writers |-> [pc |-> "new", epoch |-> 0, tip |-> <<>>]]
  /\ txs = [w \in Writers |-> [clone |-> None, pos |-> 0, closed |-> FALSE]]
  /\ stored = [w \in Writers |-> "absent"]
  /\ served = [k \in Keys |-> None]
  /\ rq \in [Requests -> {[pc |-> "idle", key |-> k, header |-> FirstHeader,
                           prev |-> <<>>, sectors |-> <<>>, cached |-> FALSE] :
                             k \in {CHOOSE k \in Keys : TRUE}}]
  /\ rd = [r \in Readers |-> [pc |-> "idle", off |-> 0, data |-> Zero]]

----------------------------------------------------------------------------
(* The pool of open files *)

\* Open: the pool's entry gets one more reference, or a new file is opened
Open(h) ==
  /\ refs' = refs + 1
  /\ handle' = [handle EXCEPT ![h] = "open"]

\* Mutant: the last but one reference closes the file
PutEarly(h) ==
  /\ refs' = IF refs > 2 THEN refs - 1 ELSE 0
  /\ handle' = [g \in Holders |->
                  IF g = h THEN "none"
                  ELSE IF refs <= 2 /\ handle[g] = "open" THEN "closed" ELSE handle[g]]

\* Close of a wrappedBlob: the last reference closes the file that all have
Put(h) ==
  /\ refs' = refs - 1
  /\ handle' = [g \in Holders |->
                  IF g = h THEN "none"
                  ELSE IF refs = 1 /\ handle[g] = "open" THEN "closed" ELSE handle[g]]

(* The name's lock *)

TryLock == lock.readers = 0 /\ lock.writers = 0 /\ lock' = [lock EXCEPT !.writers = 1]
Unlock == lock' = [lock EXCEPT !.writers = @ - 1]
\* Mutant: a reader does not mind a writer
TryRLockAlways == lock' = [lock EXCEPT !.readers = @ + 1]

TryRLock == lock.writers = 0 /\ lock' = [lock EXCEPT !.readers = @ + 1]
RUnlock == lock' = [lock EXCEPT !.readers = @ - 1]

(* Expiry: the reaper compares seconds with an expiry in nanoseconds, so an *)
(* entry leaves a cache only when Get meets it after its expiry.            *)

\* The expiry of an unused checkout passes, 15 seconds after Checkout
CheckoutExpires(w) ==
  /\ stored[w] = "live"
  /\ stored' = [stored EXCEPT ![w] = "expired"]
  /\ UNCHANGED <<up, node, wr, txs, served, rq, rd>>

\* The expiry of cached sectors passes
SectorsExpire(k) ==
  /\ served[k] # None /\ ~served[k].expired
  /\ served' = [served EXCEPT ![k].expired = TRUE]
  /\ UNCHANGED <<up, node, wr, txs, stored, rq, rd>>

----------------------------------------------------------------------------
(* Checkouts *)

\* Truncate of a transaction: a clone of zeroes
Truncate == Padded(<<>>)

\* BlobWriter.Open calls Checkout.  A reset ahead of schedule is refused after
\* the blob was opened, and nothing closes it again.
Checkout(w, reset) ==
  LET refused == reset /\ header.epoch > CurrentEpoch
      epoch   == IF reset THEN header.epoch + 1 ELSE header.epoch
      tip     == IF reset THEN <<>> ELSE header.tip
  IN /\ wr[w].pc = "new"
     /\ Open(w)
     /\ IF refused
        THEN /\ wr' = [wr EXCEPT ![w].pc = "failed"]
             /\ UNCHANGED <<txs, stored>>
        ELSE /\ wr' = [wr EXCEPT ![w] = [pc |-> "open", epoch |-> epoch, tip |-> tip]]
             /\ txs' = [txs EXCEPT ![w] =
                          [clone  |-> IF reset THEN Truncate ELSE None,
                           pos    |-> Len(tip),
                           closed |-> FALSE]]
             /\ stored' = [stored EXCEPT ![w] = "live"]
     /\ UNCHANGED <<up, header, file, lock, served, rq, rd>>

\* lazyInitialize: the first read or write copies the file
LazyInitialize(w) == IF txs[w].clone = None THEN file ELSE txs[w].clone

\* Rollback by the ReaperFunc: the clone goes, and the blob is closed
Rollback(w) ==
  /\ txs' = [txs EXCEPT ![w].closed = TRUE]
  /\ Put(w)

\* Get of an ID that expired runs ReaperFunc and yields nil, as for an ID that
\* is not there.  Both handlers convert the nil before they test for it, which
\* panics, and that ends the process.
CallWithoutCheckout(w) ==
  /\ wr[w].pc = "open"
  /\ stored[w] # "live"
  /\ up' = FALSE
  /\ stored' = [stored EXCEPT ![w] = "absent"]
  /\ Rollback(w)
  /\ UNCHANGED <<header, file, lock, wr, served, rq, rd>>

\* WriteSector: the sector goes to the clone's next position, which no check
\* keeps below MaxSectors; the client follows in its own tip.  The bound lets
\* it write one sector too many.
WriteSector(w) ==
  LET clone == LazyInitialize(w)
      pos   == txs[w].pos
  IN /\ wr[w].pc = "open" /\ stored[w] = "live" /\ ~txs[w].closed
     /\ pos <= MaxSectors
     /\ txs' = [txs EXCEPT ![w].clone = IF pos < Len(clone) THEN [clone EXCEPT ![pos + 1] = w]
                                        ELSE Append(clone, w),
                           ![w].pos = pos + 1]
     /\ wr' = [wr EXCEPT ![w].tip = Append(@, w)]
     /\ UNCHANGED <<up, node, stored, served, rq, rd>>

\* Mutant: the clone's sectors are not compared with the client's tip
VerifiesSize(w) == Len(wr[w].tip) <= MaxSectors

\* SerialHash of the clone's first sectors meets the end of the blob, or gives
\* the hash that is compared with the client's tip
Verifies(w) ==
  /\ Len(wr[w].tip) <= MaxSectors
  /\ SubSeq(LazyInitialize(w), 1, Len(wr[w].tip)) = wr[w].tip

\* Commit up to the signature: a client that is refused may call again
VerifyCommit(w) ==
  /\ wr[w].pc = "open" /\ stored[w] = "live" /\ ~txs[w].closed
  /\ txs' = [txs EXCEPT ![w].clone = IF wr[w].tip = <<>> THEN @ ELSE LazyInitialize(w)]
  /\ wr' = [wr EXCEPT ![w].pc = IF Verifies(w) THEN "verified" ELSE "open"]
  /\ UNCHANGED <<up, node, stored, served, rq, rd>>

\* Commit does not wait for the lock
CommitBusy(w) ==
  /\ wr[w].pc = "verified"
  /\ lock.readers > 0 \/ lock.writers > 0
  /\ wr' = [wr EXCEPT ![w].pc = "open"]
  /\ UNCHANGED <<up, node, txs, stored, served, rq, rd>>

\* Commit locks the name and stores the header, whatever it has become
CommitHeader(w) ==
  /\ wr[w].pc = "verified"
  /\ TryLock
  /\ header' = [epoch |-> wr[w].epoch, tip |-> wr[w].tip]
  /\ wr' = [wr EXCEPT ![w].pc = "stored"]
  /\ UNCHANGED <<up, file, refs, handle, txs, stored, served, rq, rd>>

\* Commit of the transaction copies the clone over the file.  One that was never
\* read has no clone.
CommitTx(w) ==
  /\ file' = IF txs[w].clone = None THEN file ELSE txs[w].clone
  /\ txs' = [txs EXCEPT ![w].closed = TRUE]

\* Commit then closes the blob, forgets the checkout and unlocks
CommitBlob(w) ==
  /\ wr[w].pc = "stored"
  /\ CommitTx(w)
  /\ Put(w)
  /\ stored' = [stored EXCEPT ![w] = "absent"]
  /\ Unlock
  /\ wr' = [wr EXCEPT ![w].pc = "committed"]
  /\ UNCHANGED <<up, header, served, rq, rd>>

----------------------------------------------------------------------------
(* Serving peers *)

\* onBlobReq reads the header before it has the lock; a request for an epoch
\* the node has not reached is dropped
OnBlobReq(q, k) ==
  /\ rq[q].pc = "idle"
  /\ header.epoch >= k.epoch
  /\ rq' = [rq EXCEPT ![q] = [pc |-> "header", key |-> k, header |-> header,
                              prev |-> <<>>, sectors |-> <<>>, cached |-> FALSE]]
  /\ UNCHANGED <<up, node, wr, txs, stored, served, rd>>

\* A request for a busy name is dropped
DropBusy(q) ==
  /\ rq[q].pc = "header"
  /\ lock.writers > 0
  /\ rq' = [rq EXCEPT ![q].pc = "idle"]
  /\ UNCHANGED <<up, node, wr, txs, stored, served, rd>>

\* GetSectorHash of the sector before the first one asked for, by the header
\* that is stored now; the hashes beyond its size are zero
PrevHash(from) == IF from <= Len(header.tip) THEN SubSeq(header.tip, 1, from) ELSE <<>>

\* Mutant: Get does not look at the expiry
CachedForever(k) == IF served[k] = None THEN <<>> ELSE <<served[k].sectors>>

\* Get of the cached sectors: none when they expired
Cached(k) == IF served[k] = None \/ served[k].expired THEN <<>> ELSE <<served[k].sectors>>

\* With sectors in the cache the lock is released at once
ServeCached(q) ==
  LET k == rq[q].key
  IN /\ rq[q].pc = "header"
     /\ lock.writers = 0
     /\ Cached(k) # <<>>
     /\ rq' = [rq EXCEPT ![q] = [pc |-> "send", key |-> k, header |-> rq[q].header,
                                 prev |-> PrevHash(k.from), sectors |-> Cached(k)[1],
                                 cached |-> TRUE]]
     /\ UNCHANGED <<up, node, wr, txs, stored, served, rd>>

\* Otherwise the blob is opened under the read lock; Get has dropped what
\* expired
OpenBlob(q) ==
  LET k == rq[q].key
  IN /\ rq[q].pc = "header"
     /\ Cached(k) = <<>>
     /\ TryRLock
     /\ served' = [served EXCEPT ![k] = None]
     /\ Open(q)
     /\ rq' = [rq EXCEPT ![q].pc = "locked", ![q].prev = PrevHash(k.from)]
     /\ UNCHANGED <<up, header, file, wr, txs, stored, rd>>

\* The loop runs up to the size of the header that was read at first
MoreToRead(q) == rq[q].key.from + Len(rq[q].sectors) < Len(rq[q].header.tip)

\* One sector is read at a time
ReadSector(q) ==
  /\ rq[q].pc = "locked"
  /\ IF MoreToRead(q)
     THEN rq' = [rq EXCEPT ![q].sectors =
                   Append(@, file[rq[q].key.from + Len(rq[q].sectors) + 1])]
     ELSE rq' = [rq EXCEPT ![q].pc = "read"]
  /\ UNCHANGED <<up, node, wr, txs, stored, served, rd>>

\* The sectors are cached, the lock is released
CacheSectors(q) ==
  /\ rq[q].pc = "read"
  /\ served' = [served EXCEPT ![rq[q].key] = [sectors |-> rq[q].sectors, expired |-> FALSE]]
  /\ RUnlock
  /\ rq' = [rq EXCEPT ![q].pc = "send"]
  /\ UNCHANGED <<up, header, file, refs, handle, wr, txs, stored, rd>>

\* sendResponse, and the deferred Close when the blob was opened
SendResponse(q) ==
  /\ rq[q].pc = "send"
  /\ rq' = [rq EXCEPT ![q] = [pc |-> "idle", key |-> rq[q].key, header |-> FirstHeader,
                              prev |-> <<>>, sectors |-> <<>>, cached |-> FALSE]]
  /\ IF rq[q].cached THEN UNCHANGED <<refs, handle>> ELSE Put(q)
  /\ UNCHANGED <<up, header, file, lock, wr, txs, stored, served, rd>>

\* validateBlobUpdate of the peer that gets the response: the hash that the
\* payload continues the previous one to must be the one that was signed
Valid(q) == rq[q].prev \o rq[q].sectors = rq[q].header.tip

----------------------------------------------------------------------------
(* Readers *)

\* ReadAt does not wait for the lock either
ReadAt(r) ==
  /\ rd[r].pc = "idle"
  /\ rd[r].off < MaxSectors
  /\ TryRLock
  /\ Open(r)
  /\ rd' = [rd EXCEPT ![r].pc = "open"]
  /\ UNCHANGED <<up, header, file, wr, txs, stored, served, rq>>

\* ReadBlobAt under the blob's mutex, which a commit holds while it copies
ReadBlob(r) ==
  /\ rd[r].pc = "open"
  /\ rd' = [rd EXCEPT ![r].pc = "read", ![r].data = file[rd[r].off + 1]]
  /\ UNCHANGED <<up, node, wr, txs, stored, served, rq>>

\* The deferred Close and RUnlock; the BlobReader moves on
ReadReturns(r) ==
  /\ rd[r].pc = "read"
  /\ Put(r)
  /\ RUnlock
  /\ rd' = [rd EXCEPT ![r] = [pc |-> "idle", off |-> rd[r].off + 1, data |-> Zero]]
  /\ UNCHANGED <<up, header, file, wr, txs, stored, served, rq>>

\* A BlobReader at the end answers io.EOF; Seek takes it back
SeekStart(r) ==
  /\ rd[r].pc = "idle" /\ rd[r].off = MaxSectors
  /\ rd' = [rd EXCEPT ![r].off = 0]
  /\ UNCHANGED <<up, node, wr, txs, stored, served, rq>>

----------------------------------------------------------------------------
\* What a client does with a BlobWriter, and one with a BlobReader, and the expiry of
\* the checkout
WriterStep(w) ==
  \/ \E reset \in BOOLEAN : Checkout(w, reset)
  \/ CallWithoutCheckout(w) \/ WriteSector(w) \/ VerifyCommit(w)
  \/ CommitBusy(w) \/ CommitHeader(w) \/ CommitBlob(w) \/ CheckoutExpires(w)

ServerStep(q) ==
  \/ DropBusy(q) \/ ServeCached(q) \/ OpenBlob(q) \/ ReadSector(q)
  \/ CacheSectors(q) \/ SendResponse(q)

ReaderStep(r) == ReadAt(r) \/ ReadBlob(r) \/ ReadReturns(r) \/ SeekStart(r)

Next ==
  /\ up
  /\ \/ \E w \in Writers : WriterStep(w)
     \/ \E q \in Requests : ServerStep(q) \/ \E k \in Keys : OnBlobReq(q, k)
     \/ \E r \in Readers : ReaderStep(r)
     \/ \E k \in Keys : SectorsExpire(k)

Spec == Init /\ [][Next]_vars

\* Handlers run on once they have begun, and the clock does.  Clients and
\* peers need not call again.
Fairness ==
  /\ \A w \in Writers : WF_vars(up /\ (CommitBusy(w) \/ CommitHeader(w) \/ CommitBlob(w)))
  /\ \A q \in Requests : WF_vars(up /\ ServerStep(q))
  /\ \A r \in Readers : WF_vars(up /\ (ReadBlob(r) \/ ReadReturns(r)))
  /\ \A k \in Keys : WF_vars(up /\ SectorsExpire(k))

FairSpec == Spec /\ Fairness

----------------------------------------------------------------------------
(* Properties *)

\* The pool counts exactly the holders that have the blob open, refused
\* checkouts included, and never closes a file under one of them
PoolCounts ==
  /\ refs = Cardinality({h \in Holders : handle[h] # "none"})
  /\ \A h \in Holders : handle[h] # "closed"

\* Whatever order checkouts, clones and commits of several writers come in,
\* an unlocked name has a blob that its header describes
BlobMatchesHeader ==
  lock.writers = 0 => SubSeq(file, 1, Len(header.tip)) = header.tip

\* What ReadAt returns is committed content: the sector of the header that is
\* stored while the read lock is held
ReadsAreCommitted ==
  \A r \in Readers :
    rd[r].pc = "read" /\ rd[r].off < Len(header.tip) =>
      rd[r].data = header.tip[rd[r].off + 1]

\* Sectors cached before a commit make responses that do not verify; they
\* expire, and once commits have ended every response verifies again
AnswersVerifyAgain ==
  <>[][\A q \in Requests :
         SendResponse(q) /\ rq[q].key.from <= Len(rq[q].header.tip) => Valid(q)]_vars

\* A call for a checkout that has expired gets an error ("transaction ID not
\* found", WriteSector and Commit of the RPC server)
UnknownCheckoutIsAnError == up
=============================================================================
