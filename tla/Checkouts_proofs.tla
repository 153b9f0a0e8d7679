-------------------------- MODULE Checkouts_proofs --------------------------
(***************************************************************************)
(* Proofs about the blob file, its pool entry and its lock.  The argument  *)
(* has three parts.  Who has the blob open is known from where every call  *)
(* stands (PoolOK), so that the pool's count is the number of those calls. *)
(* The lock's counts are those of the calls in a locked region (LockOK), so *)
(* that a header is never stored while a read is under way.  And a verified *)
(* transaction has a clone that begins with the client's tip (WritersOK),   *)
(* however stale the header it began from, so that copying it over the file *)
(* makes the file agree with the header that was stored just before.        *)
(***************************************************************************)
EXTENDS Checkouts, FiniteSetTheorems, SequenceTheorems, TLAPS

Blob == [1..MaxSectors -> Sector]

\* The type invariant without the bounds of the two counts
Typed ==
  /\ up \in BOOLEAN
  /\ header \in Header
  /\ file \in Blob
  /\ handle \in [Holders -> {"none", "open", "closed"}]
  /\ lock \in [readers : Nat, writers : 0..1]
  /\ wr \in [Writers -> Writer]
  /\ txs \in [Writers -> Tx]
  /\ stored \in [Writers -> {"absent", "live", "expired"}]
  /\ served \in [Keys -> {None} \cup [sectors : Seq(Sector), expired : BOOLEAN]]
  /\ rq \in [Requests -> Request]
  /\ rd \in [Readers -> Reader]

\* The calls that have the blob open, by where they stand
Users ==
  {w \in Writers : wr[w].pc \in {"open", "verified", "stored", "failed"}}
  \cup {q \in Requests : \/ rq[q].pc \in {"locked", "read"}
                         \/ rq[q].pc = "send" /\ ~rq[q].cached}
  \cup {r \in Readers : rd[r].pc \in {"open", "read"}}

\* The calls that hold the name's read lock
ReadLocks ==
  {q \in Requests : rq[q].pc \in {"locked", "read"}}
  \cup {r \in Readers : rd[r].pc \in {"open", "read"}}

PoolOK ==
  /\ refs = Cardinality({h \in Holders : handle[h] # "none"})
  /\ \A h \in Holders : handle[h] # "closed"
  /\ up => \A h \in Holders : handle[h] # "none" <=> h \in Users

LockOK ==
  /\ lock.readers = Cardinality(ReadLocks)
  /\ lock.writers = 1 => lock.readers = 0
  /\ \A w \in Writers : wr[w].pc = "stored" => lock.writers = 1
  /\ \A v, w \in Writers : wr[v].pc = "stored" /\ wr[w].pc = "stored" => v = w

\* What a transaction's clone holds: a whole blob as long as the client has not
\* written beyond its end, and the client's tip once it was verified
WriterOK(w) ==
  /\ wr[w].pc \in {"open", "verified", "stored"} =>
       /\ txs[w].pos = Len(wr[w].tip)
       /\ txs[w].pos <= MaxSectors => txs[w].clone \in {None} \cup Blob
  /\ wr[w].pc \in {"verified", "stored"} =>
       /\ Len(wr[w].tip) <= MaxSectors
       /\ \/ wr[w].tip = <<>>
          \/ /\ txs[w].clone \in Blob
             /\ SubSeq(txs[w].clone, 1, Len(wr[w].tip)) = wr[w].tip
  /\ wr[w].pc = "stored" => header.tip = wr[w].tip

WritersOK == \A w \in Writers : WriterOK(w)

\* A request that holds the lock has not found its sectors in the cache
NotCached == \A q \in Requests : rq[q].pc \in {"header", "locked", "read"} => ~rq[q].cached

\* A reader between ReadAt and its return is inside the blob
ReadersInside == \A r \in Readers : rd[r].pc \in {"open", "read"} => rd[r].off < MaxSectors

\* The sector a reader has read is still the file's
ReadsAreOfFile ==
  \A r \in Readers : rd[r].pc = "read" => rd[r].data = file[rd[r].off + 1]

IInv ==
  /\ Typed
  /\ PoolOK
  /\ LockOK
  /\ WritersOK
  /\ NotCached
  /\ ReadersInside
  /\ ReadsAreOfFile
  /\ BlobMatchesHeader

----------------------------------------------------------------------------
(* Sequences *)

\* A blob is a sequence of MaxSectors sectors
LEMMA BlobIsSeq ==
  ASSUME NEW b \in Blob
  PROVE  b \in Seq(Sector) /\ Len(b) = MaxSectors
  BY SizesAreNat DEF Blob

\* A chain is a sequence of at most MaxSectors sectors, and the other way round
LEMMA ChainIsSeq ==
  ASSUME NEW c \in Chain
  PROVE  c \in Seq(Sector) /\ Len(c) \in 0..MaxSectors
  BY SizesAreNat DEF Chain

LEMMA SeqIsChain ==
  ASSUME NEW c \in Seq(Sector), Len(c) <= MaxSectors
  PROVE  c \in Chain
  BY SizesAreNat DEF Chain

\* The first sectors of a chain are a chain
LEMMA PrefixIsChain ==
  ASSUME NEW c \in Chain, NEW n \in Nat, n <= Len(c)
  PROVE  SubSeq(c, 1, n) \in Chain
<1> DEFINE p == SubSeq(c, 1, n)
<1>1. c \in Seq(Sector) /\ Len(c) \in 0..MaxSectors
  BY ChainIsSeq
<1>2. p \in Seq(Sector) /\ Len(p) = n
  BY <1>1, SubSeqProperties
<1>3. Len(p) <= MaxSectors
  BY <1>1, <1>2, SizesAreNat
<1> HIDE DEF p
<1>4. p \in Chain
  BY <1>2, <1>3, SeqIsChain
<1>5. QED
  BY <1>4 DEF p

\* The blob that a padded chain makes
LEMMA PaddedIsBlob ==
  ASSUME NEW c \in Chain
  PROVE  Padded(c) \in Blob
  BY ChainIsSeq, SizesAreNat DEF Padded, Blob, Sector

\* It begins with the chain
LEMMA PaddedBegins ==
  ASSUME NEW c \in Chain
  PROVE  SubSeq(Padded(c), 1, Len(c)) = c
<1> DEFINE p == Padded(c)
<1>1. c \in Seq(Sector) /\ Len(c) \in 0..MaxSectors
  BY ChainIsSeq
<1>2. p \in Seq(Sector) /\ Len(p) = MaxSectors
  BY PaddedIsBlob, BlobIsSeq
<1>3. \A i \in 1..Len(c) : p[i] = c[i]
  BY <1>1, SizesAreNat DEF Padded
<1> HIDE DEF p
<1>4. /\ SubSeq(p, 1, Len(c)) \in Seq(Sector)
      /\ Len(SubSeq(p, 1, Len(c))) = Len(c)
      /\ \A i \in 1..Len(c) : SubSeq(p, 1, Len(c))[i] = p[i]
  BY <1>1, <1>2, SizesAreNat, SubSeqProperties
<1>5. SubSeq(p, 1, Len(c)) = c
  BY <1>1, <1>3, <1>4, SeqEqual
<1>6. QED
  BY <1>5 DEF p

\* A sector of the part of a blob that a chain describes
LEMMA PrefixSector ==
  ASSUME NEW b \in Blob, NEW c \in Chain, SubSeq(b, 1, Len(c)) = c,
         NEW i \in Nat, i < Len(c)
  PROVE  b[i + 1] = c[i + 1]
<1>1. c \in Seq(Sector) /\ Len(c) \in 0..MaxSectors
  BY ChainIsSeq
<1>2. b \in Seq(Sector) /\ Len(b) = MaxSectors
  BY BlobIsSeq
<1>3. SubSeq(b, 1, Len(c))[i + 1] = b[i + 1]
  BY <1>1, <1>2, SizesAreNat, SubSeqProperties
<1>4. QED
  BY <1>3

LEMMA EmptyIsChain == <<>> \in Chain /\ <<>> \in Seq(Sector)
<1>1. <<>> \in Seq(Sector) /\ Len(<<>>) <= MaxSectors
  BY SizesAreNat
<1>2. QED
  BY <1>1, SeqIsChain

LEMMA EmptyPrefix ==
  ASSUME NEW b \in Blob
  PROVE  SubSeq(b, 1, Len(<<>>)) = <<>>
  BY BlobIsSeq

----------------------------------------------------------------------------
(* The pool and the lock *)

LEMMA HoldersAreFinite == IsFiniteSet(Holders)
<1>1. IsFiniteSet(Writers \cup Requests)
  BY HoldersFinite, FS_Union
<1>2. QED
  BY <1>1, HoldersFinite, FS_Union DEF Holders

LEMMA ReadLocksFinite ==
  /\ IsFiniteSet(Requests \cup Readers)
  /\ IsFiniteSet(ReadLocks)
  /\ Cardinality(ReadLocks) \in 0..Cardinality(Requests \cup Readers)
<1>1. IsFiniteSet(Requests \cup Readers)
  BY HoldersFinite, FS_Union
<1>2. ReadLocks \in SUBSET (Requests \cup Readers)
  BY DEF ReadLocks
<1>3. /\ IsFiniteSet(ReadLocks)
      /\ Cardinality(ReadLocks) <= Cardinality(Requests \cup Readers)
  BY <1>1, <1>2, FS_Subset
<1>4. Cardinality(ReadLocks) \in Nat /\ Cardinality(Requests \cup Readers) \in Nat
  BY <1>1, <1>3, FS_CardinalityType
<1>5. QED
  BY <1>1, <1>3, <1>4

\* The holders with an open file, and their number
Held == {h \in Holders : handle[h] # "none"}

LEMMA HeldFinite ==
  /\ IsFiniteSet(Held)
  /\ Cardinality(Held) \in 0..Cardinality(Holders)
<1>1. Held \in SUBSET Holders
  BY DEF Held
<1>2. IsFiniteSet(Held) /\ Cardinality(Held) <= Cardinality(Holders)
  BY <1>1, HoldersAreFinite, FS_Subset
<1>3. Cardinality(Held) \in Nat /\ Cardinality(Holders) \in Nat
  BY <1>2, HoldersAreFinite, FS_CardinalityType
<1>4. QED
  BY <1>2, <1>3

\* Steps that leave the pool alone keep it right when the users stay the same
LEMMA PoolSame ==
  ASSUME PoolOK, UNCHANGED <<refs, handle>>, up' => up, Users' = Users
  PROVE  PoolOK'
  BY DEF PoolOK

\* Open by a call that did not have the blob open
LEMMA PoolOpens ==
  ASSUME Typed, PoolOK, up, up' = up, NEW h \in Holders, h \notin Users,
         Open(h), Users' = Users \cup {h}
  PROVE  PoolOK' /\ handle' \in [Holders -> {"none", "open", "closed"}]
<1>1. handle \in [Holders -> {"none", "open", "closed"}]
  BY DEF Typed
<1>2. handle[h] = "none" /\ h \notin Held
  BY DEF PoolOK, Held
<1>3. handle' = [handle EXCEPT ![h] = "open"]
  BY DEF Open
<1>4. Held' = Held \cup {h}
  BY <1>1, <1>2, <1>3 DEF Held
<1>5. Cardinality(Held') = Cardinality(Held) + 1
  BY <1>2, <1>4, HeldFinite, FS_AddElement
<1>6. refs' = Cardinality(Held')
  BY <1>5 DEF PoolOK, Held, Open
<1>7. \A g \in Holders : handle'[g] # "closed"
  BY <1>1, <1>3 DEF PoolOK
<1>8. \A g \in Holders : handle'[g] # "none" <=> g \in Users'
  BY <1>1, <1>3 DEF PoolOK
<1>9. handle' \in [Holders -> {"none", "open", "closed"}]
  BY <1>1, <1>3
<1>10. QED
  BY <1>6, <1>7, <1>8, <1>9 DEF PoolOK, Held

\* Put by a call that had the blob open: nobody else does when the count is 1
LEMMA PoolPuts ==
  ASSUME Typed, PoolOK, up, NEW h \in Holders, h \in Users,
         Put(h), up' => Users' = Users \ {h}
  PROVE  PoolOK' /\ handle' \in [Holders -> {"none", "open", "closed"}]
<1>1. handle \in [Holders -> {"none", "open", "closed"}]
  BY DEF Typed
<1>2. h \in Held
  BY DEF PoolOK, Held
<1>3. refs = Cardinality(Held)
  BY DEF PoolOK, Held
<1>4. refs = 1 => Held = {h}
  <2>1. SUFFICES ASSUME Cardinality(Held) = 1 PROVE Held = {h}
    BY <1>3
  <2>2. PICK x : Held = {x}
    BY <2>1, HeldFinite, FS_Singleton
  <2>3. QED
    BY <1>2, <2>2
<1>5. \A g \in Holders : handle'[g] = IF g = h THEN "none" ELSE handle[g]
  <2>1. SUFFICES ASSUME NEW g \in Holders, g # h, refs = 1
                 PROVE  handle[g] # "open"
    BY DEF Put
  <2>2. g \notin Held
    BY <1>4, <2>1
  <2>3. QED
    BY <2>2 DEF Held
<1>6. handle' \in [Holders -> {"none", "open", "closed"}]
  <2>1. handle' = [g \in Holders |-> handle'[g]]
    BY DEF Put
  <2>2. QED
    BY <1>1, <1>5, <2>1
<1>7. Held' = Held \ {h}
  BY <1>5 DEF Held
<1>8. Cardinality(Held') = Cardinality(Held) - 1
  BY <1>2, <1>7, HeldFinite, FS_RemoveElement
<1>9. refs' = Cardinality(Held')
  BY <1>3, <1>8 DEF Put
<1>10. \A g \in Holders : handle'[g] # "closed"
  BY <1>5 DEF PoolOK
<1>11. up' => \A g \in Holders : handle'[g] # "none" <=> g \in Users'
  BY <1>5 DEF PoolOK
<1>12. QED
  BY <1>6, <1>9, <1>10, <1>11 DEF PoolOK, Held

\* Steps that leave the lock alone
LEMMA LockSame ==
  ASSUME LockOK, UNCHANGED lock, ReadLocks' = ReadLocks,
         \A w \in Writers : wr'[w].pc = "stored" => wr[w].pc = "stored"
  PROVE  LockOK'
  BY DEF LockOK

\* A call takes the read lock
LEMMA LockReads ==
  ASSUME Typed, LockOK, UNCHANGED wr, NEW h, h \notin ReadLocks, TryRLock,
         ReadLocks' = ReadLocks \cup {h}
  PROVE  LockOK' /\ lock' \in [readers : Nat, writers : 0..1] /\ lock'.writers = lock.writers
<1>1. Cardinality(ReadLocks') = Cardinality(ReadLocks) + 1
  BY ReadLocksFinite, FS_AddElement
<1>2. /\ lock' \in [readers : Nat, writers : 0..1]
      /\ lock'.writers = lock.writers /\ lock.writers = 0
      /\ lock'.readers = lock.readers + 1
  BY DEF TryRLock, Typed
<1>3. QED
  BY <1>1, <1>2 DEF LockOK

\* A call gives the read lock back
LEMMA LockEndsRead ==
  ASSUME Typed, LockOK, UNCHANGED wr, NEW h, h \in ReadLocks, RUnlock,
         ReadLocks' = ReadLocks \ {h}
  PROVE  LockOK' /\ lock' \in [readers : Nat, writers : 0..1] /\ lock'.writers = lock.writers
<1>1. Cardinality(ReadLocks') = Cardinality(ReadLocks) - 1
  BY ReadLocksFinite, FS_RemoveElement
<1>2. Cardinality(ReadLocks) # 0
  BY ReadLocksFinite, FS_EmptySet
<1>3. lock.readers \in Nat /\ lock.readers # 0 /\ lock.writers \in 0..1
  BY <1>2 DEF LockOK, Typed
<1>4. lock.writers = 0
  BY <1>3 DEF LockOK
<1>5. /\ lock' \in [readers : Nat, writers : 0..1]
      /\ lock'.writers = lock.writers
      /\ lock'.readers = lock.readers - 1
  BY <1>3 DEF RUnlock, Typed
<1>6. QED
  BY <1>1, <1>4, <1>5 DEF LockOK

\* While a writer holds the lock nobody is in a reading region
LEMMA NobodyReads ==
  ASSUME LockOK, lock.readers = 0
  PROVE  \A r \in Readers : rd[r].pc \notin {"open", "read"}
<1>1. ReadLocks = {}
  BY ReadLocksFinite, FS_EmptySet DEF LockOK
<1>2. QED
  BY <1>1 DEF ReadLocks

----------------------------------------------------------------------------
(* Serving peers *)

\* A request's step touches neither writers nor readers nor what they see
LEMMA RequestFrame ==
  ASSUME IInv, UNCHANGED <<up, header, file, wr, txs, stored, rd>>, lock'.writers = lock.writers
  PROVE  WritersOK' /\ ReadersInside' /\ ReadsAreOfFile' /\ BlobMatchesHeader'
<1>1. WritersOK'
  BY DEF IInv, WritersOK, WriterOK
<1>2. ReadersInside' /\ ReadsAreOfFile'
  BY DEF IInv, ReadersInside, ReadsAreOfFile
<1>3. BlobMatchesHeader'
  BY DEF IInv, BlobMatchesHeader
<1>4. QED
  BY <1>1, <1>2, <1>3

\* The kinds of the parts of a request and of what is cached
\* The functions whose values are records, on their own
LEMMA RqTyped ==
  ASSUME IInv
  PROVE  rq \in [Requests -> Request]
  BY DEF IInv, Typed

LEMMA RdTyped ==
  ASSUME IInv
  PROVE  rd \in [Readers -> Reader]
  BY DEF IInv, Typed

LEMMA WrTyped ==
  ASSUME IInv
  PROVE  wr \in [Writers -> Writer]
  BY DEF IInv, Typed

LEMMA RequestParts ==
  ASSUME Typed, NEW q \in Requests
  PROVE  /\ rq[q] \in Request
         /\ rq[q].key \in Keys /\ rq[q].key.from \in Nat /\ rq[q].key.from < MaxSectors
         /\ rq[q].header \in Header /\ rq[q].header.tip \in Chain
         /\ rq[q].sectors \in Seq(Sector)
         /\ q \in Holders /\ q \notin Writers /\ q \notin Readers
         /\ header.tip \in Chain
<1>1. rq[q] \in Request
  BY DEF Typed
<1>2. rq[q].key \in [epoch : Nat, from : 0..(MaxSectors - 1)]
  BY <1>1, KeysTyped DEF Request
<1>3. QED
  BY <1>1, <1>2, SizesAreNat, HoldersDistinct DEF Typed, Request, Header, Holders

LEMMA PrevHashTyped ==
  ASSUME Typed, NEW from \in Nat
  PROVE  PrevHash(from) \in Chain
<1>1. header.tip \in Chain
  BY DEF Typed, Header
<1>2. QED
  BY <1>1, EmptyIsChain, PrefixIsChain DEF PrevHash

LEMMA IndexInside ==
  ASSUME NEW from \in Nat, NEW read \in Nat, NEW n \in 0..MaxSectors, from + read < n
  PROVE  from + read + 1 \in 1..MaxSectors
  BY SizesAreNat

LEMMA OnBlobReqStep ==
  ASSUME IInv, up, NEW q \in Requests, NEW k \in Keys, OnBlobReq(q, k)
  PROVE  IInv'
<1>1. rq[q].pc = "idle" /\ rq[q] \in Request
  BY RequestParts DEF IInv, OnBlobReq
<1>2. <<>> \in Chain /\ <<>> \in Seq(Sector)
  BY EmptyIsChain
<1>3. rq' \in [Requests -> Request]
  <2> DEFINE first == [pc |-> "header", key |-> k, header |-> header,
                       prev |-> <<>>, sectors |-> <<>>, cached |-> FALSE]
  <2>1. header \in Header
    BY DEF IInv, Typed
  <2>2. first \in Request
    BY <1>2, <2>1 DEF Request
  <2>3. rq' = [rq EXCEPT ![q] = first]
    BY DEF OnBlobReq
  <2> HIDE DEF first
  <2>4. QED
    BY <2>2, <2>3, RqTyped
<1>4. rq'[q].pc = "header" /\ ~rq'[q].cached /\ \A p \in Requests \ {q} : rq'[p] = rq[p]
  BY DEF IInv, Typed, OnBlobReq
<1>5. Users' = Users /\ ReadLocks' = ReadLocks
  BY <1>1, <1>4 DEF OnBlobReq, Users, ReadLocks
<1>6. Typed'
  BY <1>3 DEF IInv, Typed, OnBlobReq, node
<1>7. PoolOK' /\ LockOK'
  BY <1>5, PoolSame, LockSame DEF IInv, OnBlobReq, node
<1>8. NotCached'
  BY <1>1, <1>4 DEF IInv, NotCached
<1>9. QED
  BY <1>6, <1>7, <1>8, RequestFrame DEF IInv, OnBlobReq, node

LEMMA DropBusyStep ==
  ASSUME IInv, up, NEW q \in Requests, DropBusy(q)
  PROVE  IInv'
<1>1. rq[q].pc = "header" /\ rq[q] \in Request
  BY RequestParts DEF IInv, DropBusy
<1>0. rq' = [rq EXCEPT ![q].pc = "idle"]
  BY DEF DropBusy
<1>2. rq' \in [Requests -> Request]
  BY <1>0, RqTyped DEF Request
<1>3. rq'[q].pc = "idle" /\ \A p \in Requests \ {q} : rq'[p] = rq[p]
  BY <1>0, RqTyped DEF Request
<1>4. Users' = Users /\ ReadLocks' = ReadLocks
  BY <1>1, <1>3 DEF DropBusy, Users, ReadLocks
<1>5. Typed'
  BY <1>2 DEF IInv, Typed, DropBusy, node
<1>6. PoolOK' /\ LockOK'
  BY <1>4, PoolSame, LockSame DEF IInv, DropBusy, node
<1>7. NotCached'
  BY <1>1, <1>3 DEF IInv, NotCached
<1>8. QED
  BY <1>5, <1>6, <1>7, RequestFrame DEF IInv, DropBusy, node

LEMMA ServeCachedStep ==
  ASSUME IInv, up, NEW q \in Requests, ServeCached(q)
  PROVE  IInv'
<1> DEFINE prev == PrevHash(rq[q].key.from)
           sectors == Cached(rq[q].key)[1]
<1>1. rq[q].pc = "header" /\ rq[q] \in Request /\ rq[q].key \in Keys
  BY RequestParts DEF IInv, ServeCached
<1>2. prev \in Chain
  BY RequestParts, PrevHashTyped DEF IInv
<1>3. sectors \in Seq(Sector)
  <2>1. served[rq[q].key] \in {None} \cup [sectors : Seq(Sector), expired : BOOLEAN]
    BY <1>1 DEF IInv, Typed
  <2>2. Cached(rq[q].key) # <<>>
    BY DEF ServeCached
  <2>3. served[rq[q].key] # None /\ Cached(rq[q].key) = <<served[rq[q].key].sectors>>
    BY <2>2 DEF Cached
  <2>4. QED
    BY <2>1, <2>3
<1>4. rq' = [rq EXCEPT ![q] = [pc |-> "send", key |-> rq[q].key, header |-> rq[q].header,
                               prev |-> prev, sectors |-> sectors, cached |-> TRUE]]
  BY DEF ServeCached
<1> HIDE DEF prev, sectors
<1>5. rq' \in [Requests -> Request]
  BY <1>1, <1>2, <1>3, <1>4, RqTyped DEF Request
<1>6. /\ rq'[q].pc = "send" /\ rq'[q].cached
      /\ \A p \in Requests \ {q} : rq'[p] = rq[p]
  BY <1>4, RqTyped DEF Request
<1>7. Users' = Users /\ ReadLocks' = ReadLocks
  BY <1>1, <1>6 DEF ServeCached, Users, ReadLocks
<1>8. Typed'
  BY <1>5 DEF IInv, Typed, ServeCached, node
<1>9. PoolOK' /\ LockOK'
  BY <1>7, PoolSame, LockSame DEF IInv, ServeCached, node
<1>10. NotCached'
  BY <1>1, <1>6 DEF IInv, NotCached
<1>11. QED
  BY <1>8, <1>9, <1>10, RequestFrame DEF IInv, ServeCached, node

LEMMA OpenBlobStep ==
  ASSUME IInv, up, NEW q \in Requests, OpenBlob(q)
  PROVE  IInv'
<1> DEFINE prev == PrevHash(rq[q].key.from)
<1>1. /\ rq[q].pc = "header" /\ rq[q] \in Request /\ rq[q].key \in Keys
      /\ q \in Holders /\ q \notin Writers /\ q \notin Readers
  BY RequestParts DEF IInv, OpenBlob
<1>2. prev \in Chain
  BY RequestParts, PrevHashTyped DEF IInv
<1>3. rq' = [rq EXCEPT ![q].pc = "locked", ![q].prev = prev]
  BY DEF OpenBlob
<1> HIDE DEF prev
<1>4. rq' \in [Requests -> Request]
  <2> DEFINE next == [rq[q] EXCEPT !.pc = "locked", !.prev = prev]
  <2>1. next \in Request
    BY <1>1, <1>2 DEF Request
  <2>2. rq' = [rq EXCEPT ![q] = next]
    BY <1>3
  <2> HIDE DEF next
  <2>3. QED
    BY <2>1, <2>2, RqTyped
<1>5. rq'[q].pc = "locked" /\ rq'[q].cached = rq[q].cached /\ \A p \in Requests \ {q} : rq'[p] = rq[p]
  BY <1>3, RqTyped DEF Request
<1>6. /\ q \notin Users /\ Users' = Users \cup {q}
      /\ q \notin ReadLocks /\ ReadLocks' = ReadLocks \cup {q}
  <2>1. UNCHANGED <<wr, rd>>
    BY DEF OpenBlob
  <2>2. q \notin Users /\ Users' = Users \cup {q}
    BY <1>1, <1>5, <2>1 DEF Users
  <2>3. q \notin ReadLocks /\ ReadLocks' = ReadLocks \cup {q}
    BY <1>1, <1>5, <2>1 DEF ReadLocks
  <2>4. QED
    BY <2>2, <2>3
<1>7. /\ PoolOK' /\ handle' \in [Holders -> {"none", "open", "closed"}]
  BY <1>1, <1>6, PoolOpens DEF IInv, OpenBlob
<1>8. /\ LockOK' /\ lock' \in [readers : Nat, writers : 0..1]
      /\ lock'.writers = lock.writers
  BY <1>6, LockReads DEF IInv, OpenBlob
<1>9. served' \in [Keys -> {None} \cup [sectors : Seq(Sector), expired : BOOLEAN]]
  BY DEF IInv, Typed, OpenBlob
<1>10. Typed'
  BY <1>4, <1>7, <1>8, <1>9 DEF IInv, Typed, OpenBlob
<1>11. NotCached'
  BY <1>1, <1>5 DEF IInv, NotCached
<1>12. QED
  BY <1>7, <1>8, <1>10, <1>11, RequestFrame DEF IInv, OpenBlob

LEMMA ReadSectorStep ==
  ASSUME IInv, up, NEW q \in Requests, ReadSector(q)
  PROVE  IInv'
<1>1. rq[q].pc = "locked" /\ rq[q] \in Request
  BY RequestParts DEF IInv, ReadSector
<1>2. /\ rq' \in [Requests -> Request]
      /\ rq'[q].pc \in {"locked", "read"} /\ rq'[q].cached = rq[q].cached
      /\ \A p \in Requests \ {q} : rq'[p] = rq[p]
  <2>1. CASE MoreToRead(q)
    <3> DEFINE i == rq[q].key.from + Len(rq[q].sectors) + 1
               ss == Append(rq[q].sectors, file[i])
    <3>1. i \in 1..MaxSectors
      <4>1. rq[q].key.from \in Nat /\ Len(rq[q].sectors) \in Nat
        BY RequestParts DEF IInv
      <4>2. Len(rq[q].header.tip) \in 0..MaxSectors
        BY RequestParts, ChainIsSeq DEF IInv
      <4>3. rq[q].key.from + Len(rq[q].sectors) < Len(rq[q].header.tip)
        BY <2>1 DEF MoreToRead
      <4>4. QED
        BY <4>1, <4>2, <4>3, IndexInside, Zenon
    <3>2. ss \in Seq(Sector)
      <4>1. rq[q].sectors \in Seq(Sector)
        BY RequestParts DEF IInv
      <4>2. file \in Blob
        BY DEF IInv, Typed
      <4>3. QED
        BY <3>1, <4>1, <4>2 DEF Blob
    <3>3. rq' = [rq EXCEPT ![q].sectors = ss]
      BY <2>1 DEF ReadSector
    <3> HIDE DEF ss
    <3>4. QED
      BY <1>1, <3>2, <3>3, RqTyped DEF Request
  <2>2. CASE ~MoreToRead(q)
    <3>1. rq' = [rq EXCEPT ![q].pc = "read"]
      BY <2>2 DEF ReadSector
    <3>2. QED
      BY <3>1, RqTyped DEF Request
  <2>3. QED
    BY <2>1, <2>2
<1>3. Users' = Users /\ ReadLocks' = ReadLocks
  BY <1>1, <1>2 DEF ReadSector, Users, ReadLocks
<1>4. Typed'
  BY <1>2 DEF IInv, Typed, ReadSector, node
<1>5. PoolOK' /\ LockOK'
  BY <1>3, PoolSame, LockSame DEF IInv, ReadSector, node
<1>6. NotCached'
  BY <1>1, <1>2 DEF IInv, NotCached
<1>7. QED
  BY <1>4, <1>5, <1>6, RequestFrame DEF IInv, ReadSector, node

LEMMA CacheSectorsStep ==
  ASSUME IInv, up, NEW q \in Requests, CacheSectors(q)
  PROVE  IInv'
<1>1. /\ rq[q].pc = "read" /\ rq[q] \in Request /\ rq[q].key \in Keys
      /\ rq[q].sectors \in Seq(Sector) /\ q \notin Readers /\ ~rq[q].cached
  BY RequestParts DEF IInv, CacheSectors, NotCached
<1>0. rq' = [rq EXCEPT ![q].pc = "send"]
  BY DEF CacheSectors
<1>2. rq' \in [Requests -> Request]
  BY <1>0, RqTyped DEF Request
<1>3. /\ rq'[q].pc = "send" /\ rq'[q].cached = rq[q].cached
      /\ \A p \in Requests \ {q} : rq'[p] = rq[p]
  BY <1>0, RqTyped DEF Request
<1>4. /\ Users' = Users
      /\ q \in ReadLocks /\ ReadLocks' = ReadLocks \ {q}
  BY <1>1, <1>3 DEF CacheSectors, Users, ReadLocks
<1>5. PoolOK'
  BY <1>4, PoolSame DEF IInv, CacheSectors
<1>6. /\ LockOK' /\ lock' \in [readers : Nat, writers : 0..1]
      /\ lock'.writers = lock.writers
  BY <1>4, LockEndsRead DEF IInv, CacheSectors
<1>7. served' \in [Keys -> {None} \cup [sectors : Seq(Sector), expired : BOOLEAN]]
  BY <1>1 DEF IInv, Typed, CacheSectors
<1>8. Typed'
  BY <1>2, <1>6, <1>7 DEF IInv, Typed, CacheSectors
<1>9. NotCached'
  BY <1>1, <1>3 DEF IInv, NotCached
<1>10. QED
  BY <1>5, <1>6, <1>8, <1>9, RequestFrame DEF IInv, CacheSectors

LEMMA SendResponseStep ==
  ASSUME IInv, up, NEW q \in Requests, SendResponse(q)
  PROVE  IInv'
<1>1. /\ rq[q].pc = "send" /\ rq[q] \in Request /\ rq[q].cached \in BOOLEAN
      /\ q \in Holders /\ q \notin Writers /\ q \notin Readers
  BY RequestParts DEF IInv, SendResponse, Request
<1>2. <<>> \in Chain /\ <<>> \in Seq(Sector)
  BY EmptyIsChain
<1>3. rq' \in [Requests -> Request]
  BY <1>1, <1>2, FirstHeaderTyped, RqTyped DEF SendResponse, Request
<1>4. rq'[q].pc = "idle" /\ \A p \in Requests \ {q} : rq'[p] = rq[p]
  BY RqTyped DEF SendResponse, Request
<1>5. ReadLocks' = ReadLocks
  BY <1>1, <1>4 DEF SendResponse, ReadLocks
<1>6. PoolOK' /\ handle' \in [Holders -> {"none", "open", "closed"}]
  <2>1. CASE rq[q].cached
    <3>1. Users' = Users
      BY <1>1, <1>4, <2>1 DEF SendResponse, Users
    <3>2. QED
      BY <2>1, <3>1, PoolSame DEF IInv, Typed, SendResponse
  <2>2. CASE ~rq[q].cached
    <3>1. q \in Users /\ Users' = Users \ {q}
      BY <1>1, <1>4, <2>2 DEF SendResponse, Users
    <3>2. QED
      BY <1>1, <2>2, <3>1, PoolPuts DEF IInv, SendResponse
  <2>3. QED
    BY <2>1, <2>2
<1>7. LockOK'
  BY <1>5, LockSame DEF IInv, SendResponse
<1>8. Typed'
  BY <1>3, <1>6 DEF IInv, Typed, SendResponse
<1>9. NotCached'
  BY <1>1, <1>4 DEF IInv, NotCached
<1>10. QED
  BY <1>6, <1>7, <1>8, <1>9, RequestFrame DEF IInv, SendResponse

----------------------------------------------------------------------------
(* Readers *)

LEMMA ReaderParts ==
  ASSUME Typed, NEW r \in Readers
  PROVE  /\ rd[r] \in Reader /\ rd[r].off \in 0..MaxSectors
         /\ r \in Holders /\ r \notin Writers /\ r \notin Requests
  BY HoldersDistinct DEF Typed, Reader, Holders

\* A reader's step touches neither writers nor requests nor the stored state
LEMMA ReaderFrame ==
  ASSUME IInv, UNCHANGED <<up, header, file, wr, txs, stored, served, rq>>,
         lock'.writers = lock.writers
  PROVE  WritersOK' /\ NotCached' /\ BlobMatchesHeader'
<1>1. WritersOK'
  BY DEF IInv, WritersOK, WriterOK
<1>2. NotCached'
  BY DEF IInv, NotCached
<1>3. BlobMatchesHeader'
  BY DEF IInv, BlobMatchesHeader
<1>4. QED
  BY <1>1, <1>2, <1>3

LEMMA ReadAtStep ==
  ASSUME IInv, up, NEW r \in Readers, ReadAt(r)
  PROVE  IInv'
<1>1. /\ rd[r].pc = "idle" /\ rd[r].off < MaxSectors
      /\ r \in Holders /\ r \notin Writers /\ r \notin Requests
  BY ReaderParts DEF IInv, ReadAt
<1>2. rd' \in [Readers -> Reader]
  BY RdTyped DEF ReadAt, Reader
<1>3. /\ rd'[r].pc = "open" /\ rd'[r].off = rd[r].off
      /\ \A s \in Readers \ {r} : rd'[s] = rd[s]
  BY RdTyped DEF ReadAt, Reader
<1>4. /\ r \notin Users /\ Users' = Users \cup {r}
      /\ r \notin ReadLocks /\ ReadLocks' = ReadLocks \cup {r}
  BY <1>1, <1>3 DEF ReadAt, Users, ReadLocks
<1>5. PoolOK' /\ handle' \in [Holders -> {"none", "open", "closed"}]
  BY <1>1, <1>4, PoolOpens DEF IInv, ReadAt
<1>6. /\ LockOK' /\ lock' \in [readers : Nat, writers : 0..1]
      /\ lock'.writers = lock.writers
  BY <1>4, LockReads DEF IInv, ReadAt
<1>7. Typed'
  BY <1>2, <1>5, <1>6 DEF IInv, Typed, ReadAt
<1>8. ReadersInside' /\ ReadsAreOfFile'
  BY <1>1, <1>3 DEF IInv, ReadersInside, ReadsAreOfFile, ReadAt
<1>9. QED
  BY <1>5, <1>6, <1>7, <1>8, ReaderFrame DEF IInv, ReadAt

LEMMA ReadBlobStep ==
  ASSUME IInv, up, NEW r \in Readers, ReadBlob(r)
  PROVE  IInv'
<1>1. rd[r].pc = "open" /\ rd[r].off \in 0..MaxSectors /\ rd[r].off < MaxSectors
  BY ReaderParts DEF IInv, ReadBlob, ReadersInside
<1>2. file[rd[r].off + 1] \in Sector
  BY <1>1, SizesAreNat DEF IInv, Typed, Blob
<1>3. rd' = [rd EXCEPT ![r].pc = "read", ![r].data = file[rd[r].off + 1]]
  BY DEF ReadBlob
<1>4. rd' \in [Readers -> Reader]
  BY <1>2, <1>3, RdTyped DEF Reader
<1>5. /\ rd'[r].pc = "read" /\ rd'[r].off = rd[r].off /\ rd'[r].data = file[rd[r].off + 1]
      /\ \A s \in Readers \ {r} : rd'[s] = rd[s]
  BY <1>3, RdTyped DEF Reader
<1>6. Users' = Users /\ ReadLocks' = ReadLocks
  BY <1>1, <1>5 DEF ReadBlob, Users, ReadLocks
<1>7. PoolOK' /\ LockOK'
  BY <1>6, PoolSame, LockSame DEF IInv, ReadBlob, node
<1>8. Typed'
  BY <1>4 DEF IInv, Typed, ReadBlob, node
<1>9. ReadersInside' /\ ReadsAreOfFile'
  BY <1>1, <1>5 DEF IInv, ReadersInside, ReadsAreOfFile, ReadBlob, node
<1>10. QED
  BY <1>7, <1>8, <1>9, ReaderFrame DEF IInv, ReadBlob, node

LEMMA ReadReturnsStep ==
  ASSUME IInv, up, NEW r \in Readers, ReadReturns(r)
  PROVE  IInv'
<1>1. /\ rd[r].pc = "read" /\ rd[r].off \in 0..MaxSectors /\ rd[r].off < MaxSectors
      /\ r \in Holders /\ r \notin Writers /\ r \notin Requests
  BY ReaderParts DEF IInv, ReadReturns, ReadersInside
<1>2. rd[r].off + 1 \in 0..MaxSectors /\ Zero \in Sector
  BY <1>1, SizesAreNat DEF Sector
<1>3. rd' \in [Readers -> Reader]
  BY <1>2, RdTyped DEF ReadReturns, Reader
<1>4. rd'[r].pc = "idle" /\ \A s \in Readers \ {r} : rd'[s] = rd[s]
  BY DEF IInv, Typed, ReadReturns
<1>5. /\ r \in Users /\ Users' = Users \ {r}
      /\ r \in ReadLocks /\ ReadLocks' = ReadLocks \ {r}
  BY <1>1, <1>4 DEF ReadReturns, Users, ReadLocks
<1>6. PoolOK' /\ handle' \in [Holders -> {"none", "open", "closed"}]
  BY <1>1, <1>5, PoolPuts DEF IInv, ReadReturns
<1>7. /\ LockOK' /\ lock' \in [readers : Nat, writers : 0..1]
      /\ lock'.writers = lock.writers
  BY <1>5, LockEndsRead DEF IInv, ReadReturns
<1>8. Typed'
  BY <1>3, <1>6, <1>7 DEF IInv, Typed, ReadReturns
<1>9. ReadersInside' /\ ReadsAreOfFile'
  BY <1>4 DEF IInv, ReadersInside, ReadsAreOfFile, ReadReturns
<1>10. QED
  BY <1>6, <1>7, <1>8, <1>9, ReaderFrame DEF IInv, ReadReturns

LEMMA SeekStartStep ==
  ASSUME IInv, up, NEW r \in Readers, SeekStart(r)
  PROVE  IInv'
<1>1. rd[r].pc = "idle"
  BY DEF SeekStart
<1>2. rd' = [rd EXCEPT ![r].off = 0] /\ 0 \in 0..MaxSectors
  BY SizesAreNat DEF SeekStart
<1>3. rd' \in [Readers -> Reader]
  BY <1>2, RdTyped DEF Reader
<1>4. rd'[r].pc = "idle" /\ \A s \in Readers \ {r} : rd'[s] = rd[s]
  BY <1>1, <1>2, RdTyped DEF Reader
<1>5. Users' = Users /\ ReadLocks' = ReadLocks
  BY <1>1, <1>4 DEF SeekStart, Users, ReadLocks
<1>6. PoolOK' /\ LockOK'
  BY <1>5, PoolSame, LockSame DEF IInv, SeekStart, node
<1>7. Typed'
  BY <1>3 DEF IInv, Typed, SeekStart, node
<1>8. ReadersInside' /\ ReadsAreOfFile'
  BY <1>4 DEF IInv, ReadersInside, ReadsAreOfFile, SeekStart, node
<1>9. QED
  BY <1>6, <1>7, <1>8, ReaderFrame DEF IInv, SeekStart, node

----------------------------------------------------------------------------
(* Writers *)

LEMMA WriterParts ==
  ASSUME IInv, NEW w \in Writers
  PROVE  /\ wr[w] \in Writer /\ wr[w].epoch \in Nat /\ wr[w].tip \in Seq(Sector)
         /\ txs[w] \in Tx /\ WriterOK(w)
         /\ w \in Holders /\ w \notin Requests /\ w \notin Readers
         /\ w \in Sector
  BY HoldersDistinct DEF IInv, WritersOK, Typed, Writer, Holders, Sector

\* What a writer's step that leaves the stored state alone has to show
LEMMA WriterFrame ==
  ASSUME IInv, NEW w \in Writers, UNCHANGED <<header, file, lock, rq, rd>>,
         \A v \in Writers \ {w} : wr'[v] = wr[v] /\ txs'[v] = txs[v],
         WriterOK(w)', wr'[w].pc # "stored"
  PROVE  /\ WritersOK' /\ NotCached' /\ ReadersInside' /\ ReadsAreOfFile'
         /\ BlobMatchesHeader' /\ LockOK'
<1>1. ASSUME NEW v \in Writers, v # w
      PROVE  WriterOK(v)'
  BY <1>1 DEF IInv, WritersOK, WriterOK
<1>2. WritersOK'
  BY <1>1 DEF WritersOK
<1>3. NotCached' /\ ReadersInside' /\ ReadsAreOfFile'
  BY DEF IInv, NotCached, ReadersInside, ReadsAreOfFile
<1>4. BlobMatchesHeader'
  BY DEF IInv, BlobMatchesHeader
<1>5. ReadLocks' = ReadLocks
  BY DEF ReadLocks
<1>6. LockOK'
  BY <1>5, LockSame DEF IInv
<1>7. QED
  BY <1>2, <1>3, <1>4, <1>6

LEMMA CheckoutStep ==
  ASSUME IInv, up, NEW w \in Writers, NEW reset \in BOOLEAN, Checkout(w, reset)
  PROVE  IInv'
<1> DEFINE refused == reset /\ header.epoch > CurrentEpoch
           epoch == IF reset THEN header.epoch + 1 ELSE header.epoch
           tip   == IF reset THEN <<>> ELSE header.tip
           clone == IF reset THEN Truncate ELSE None
<1>1. /\ wr[w].pc = "new" /\ wr[w] \in Writer
      /\ w \in Holders /\ w \notin Requests /\ w \notin Readers
  BY WriterParts DEF Checkout
<1>2. epoch \in Nat /\ tip \in Seq(Sector) /\ Len(tip) \in 0..MaxSectors
  <2>1. header.epoch \in Nat /\ header.tip \in Chain
    BY DEF IInv, Typed, Header
  <2>2. header.tip \in Seq(Sector) /\ Len(header.tip) \in 0..MaxSectors
    BY <2>1, ChainIsSeq
  <2>3. QED
    BY <2>1, <2>2, EmptyIsChain, SizesAreNat
<1>3. clone \in {None} \cup Blob
  BY PaddedIsBlob, EmptyIsChain DEF Truncate
<1>4. clone \in {None} \cup Seq(Sector)
  BY <1>3, BlobIsSeq
<1>5. /\ refused => /\ wr' = [wr EXCEPT ![w].pc = "failed"]
                    /\ UNCHANGED <<txs, stored>>
      /\ ~refused => /\ wr' = [wr EXCEPT ![w] = [pc |-> "open", epoch |-> epoch, tip |-> tip]]
                     /\ txs' = [txs EXCEPT ![w] =
                                  [clone |-> clone, pos |-> Len(tip), closed |-> FALSE]]
                     /\ stored' = [stored EXCEPT ![w] = "live"]
  BY DEF Checkout
<1> HIDE DEF refused, epoch, tip, clone
<1>6. /\ wr' \in [Writers -> Writer]
      /\ wr'[w].pc \in {"open", "failed"}
      /\ \A v \in Writers \ {w} : wr'[v] = wr[v] /\ txs'[v] = txs[v]
      /\ stored' \in [Writers -> {"absent", "live", "expired"}]
  <2>1. CASE refused
    <3>1. wr' = [wr EXCEPT ![w].pc = "failed"] /\ UNCHANGED <<txs, stored>>
      BY <1>5, <2>1
    <3>0. wr \in [Writers -> Writer]
      BY DEF IInv, Typed
    <3>2. wr' \in [Writers -> Writer]
      BY <3>1, <3>0 DEF Writer
    <3>3. wr'[w].pc = "failed" /\ \A v \in Writers \ {w} : wr'[v] = wr[v]
      BY <3>1, <3>0 DEF Writer
    <3>4. stored \in [Writers -> {"absent", "live", "expired"}]
      BY DEF IInv, Typed
    <3>5. QED
      BY <3>1, <3>2, <3>3, <3>4
  <2>2. CASE ~refused
    <3>1. wr' = [wr EXCEPT ![w] = [pc |-> "open", epoch |-> epoch, tip |-> tip]]
      BY <1>5, <2>2
    <3>0. wr \in [Writers -> Writer]
      BY DEF IInv, Typed
    <3>2. wr' \in [Writers -> Writer]
      BY <1>2, <3>1, <3>0 DEF Writer
    <3>3. wr'[w].pc = "open" /\ \A v \in Writers \ {w} : wr'[v] = wr[v]
      BY <3>1 DEF IInv, Typed
    <3>4. \A v \in Writers \ {w} : txs'[v] = txs[v]
      BY <1>5, <2>2 DEF IInv, Typed
    <3>5. stored' \in [Writers -> {"absent", "live", "expired"}]
      BY <1>5, <2>2 DEF IInv, Typed
    <3>6. QED
      BY <3>2, <3>3, <3>4, <3>5
  <2>3. QED
    BY <2>1, <2>2
<1>7. txs' \in [Writers -> Tx]
  <2>1. CASE refused
    BY <1>5, <2>1 DEF IInv, Typed
  <2>2. CASE ~refused
    <3>1. Len(tip) \in 0..(MaxSectors + 1)
      BY <1>2, SizesAreNat
    <3>2. txs \in [Writers -> Tx]
      BY DEF IInv, Typed
    <3>3. txs' = [txs EXCEPT ![w] = [clone |-> clone, pos |-> Len(tip), closed |-> FALSE]]
      BY <1>5, <2>2
    <3>4. QED
      BY <1>4, <3>1, <3>2, <3>3 DEF Tx
  <2>3. QED
    BY <2>1, <2>2
<1>8. WriterOK(w)'
  <2>1. CASE refused
    <3>1. wr'[w].pc = "failed"
      BY <1>5, <2>1, WrTyped DEF Writer
    <3>2. QED
      BY <3>1 DEF WriterOK
  <2>2. CASE ~refused
    <3>1. wr'[w] = [pc |-> "open", epoch |-> epoch, tip |-> tip]
      BY <1>5, <2>2 DEF IInv, Typed
    <3>2. txs'[w] = [clone |-> clone, pos |-> Len(tip), closed |-> FALSE]
      BY <1>5, <2>2 DEF IInv, Typed
    <3>3. QED
      BY <1>3, <3>1, <3>2 DEF WriterOK
  <2>3. QED
    BY <2>1, <2>2
<1>9. w \notin Users /\ Users' = Users \cup {w}
  BY <1>1, <1>6 DEF Checkout, Users
<1>10. PoolOK' /\ handle' \in [Holders -> {"none", "open", "closed"}]
  BY <1>1, <1>9, PoolOpens DEF IInv, Checkout
<1>11. Typed'
  BY <1>6, <1>7, <1>10 DEF IInv, Typed, Checkout
<1>12. wr'[w].pc # "stored"
  BY <1>6
<1>13. QED
  BY <1>6, <1>8, <1>10, <1>11, <1>12, WriterFrame DEF IInv, Checkout

\* What rolling back and committing do to the transaction: it is closed
LEMMA TxCloses ==
  ASSUME IInv, NEW w \in Writers, txs' = [txs EXCEPT ![w].closed = TRUE]
  PROVE  /\ txs' \in [Writers -> Tx]
         /\ txs'[w].clone = txs[w].clone /\ txs'[w].pos = txs[w].pos
         /\ \A v \in Writers \ {w} : txs'[v] = txs[v]
<1>1. txs \in [Writers -> Tx] 
  BY DEF IInv, Typed
<1>2. /\ txs' \in [Writers -> Tx]
      /\ txs'[w] = [clone |-> txs[w].clone, pos |-> txs[w].pos, closed |-> TRUE]
  BY <1>1 DEF Tx
<1>3. \A v \in Writers \ {w} : txs'[v] = txs[v]
  BY <1>1
<1>4. QED
  BY <1>2, <1>3

LEMMA CallWithoutCheckoutStep ==
  ASSUME IInv, up, NEW w \in Writers, CallWithoutCheckout(w)
  PROVE  IInv'
<1>1. wr[w].pc = "open" /\ WriterOK(w) /\ w \in Holders
  BY WriterParts DEF CallWithoutCheckout
<1>2. /\ txs' \in [Writers -> Tx]
      /\ txs'[w].clone = txs[w].clone /\ txs'[w].pos = txs[w].pos
      /\ \A v \in Writers \ {w} : txs'[v] = txs[v]
  BY TxCloses DEF CallWithoutCheckout, Rollback
<1>3. WriterOK(w)'
  BY <1>1, <1>2 DEF CallWithoutCheckout, WriterOK
<1>4. w \in Users /\ ~up'
  BY <1>1 DEF CallWithoutCheckout, Users
<1>5. PoolOK' /\ handle' \in [Holders -> {"none", "open", "closed"}]
  BY <1>1, <1>4, PoolPuts DEF IInv, CallWithoutCheckout, Rollback
<1>6. stored' \in [Writers -> {"absent", "live", "expired"}]
  BY DEF IInv, Typed, CallWithoutCheckout
<1>7. Typed'
  BY <1>2, <1>5, <1>6 DEF IInv, Typed, CallWithoutCheckout
<1>8. QED
  BY <1>1, <1>2, <1>3, <1>5, <1>7, WriterFrame DEF IInv, CallWithoutCheckout

\* A blob stays one when a sector of it is written
LEMMA BlobWritten ==
  ASSUME NEW b \in Blob, NEW n \in Nat, n < MaxSectors, NEW s \in Sector
  PROVE  [b EXCEPT ![n + 1] = s] \in Blob
  BY SizesAreNat DEF Blob

LEMMA WriteSectorStep ==
  ASSUME IInv, up, NEW w \in Writers, WriteSector(w)
  PROVE  IInv'
<1> DEFINE old == LazyInitialize(w)
           pos == txs[w].pos
           new == IF pos < Len(old) THEN [old EXCEPT ![pos + 1] = w] ELSE Append(old, w)
<1>1. /\ wr[w].pc = "open" /\ pos <= MaxSectors /\ WriterOK(w)
      /\ wr[w] \in Writer /\ wr[w].tip \in Seq(Sector) /\ w \in Sector
  BY WriterParts DEF WriteSector
<1>2. pos \in Nat /\ pos = Len(wr[w].tip)
  BY <1>1 DEF WriterOK
<1>3. old \in Blob
  BY <1>1 DEF LazyInitialize, WriterOK, IInv, Typed
<1>4. old \in Seq(Sector) /\ Len(old) = MaxSectors
  BY <1>3, BlobIsSeq
<1>5. txs' = [txs EXCEPT ![w].clone = new, ![w].pos = pos + 1]
  BY DEF WriteSector
<1> HIDE DEF old, pos
<1>6. pos < MaxSectors => new \in Blob
  BY <1>1, <1>2, <1>3, <1>4, BlobWritten
<1>7. new \in Seq(Sector)
  <2>1. CASE pos < MaxSectors
    BY <1>6, <2>1, BlobIsSeq
  <2>2. CASE ~(pos < MaxSectors)
    <3>1. new = Append(old, w)
      BY <1>4, <2>2
    <3>2. QED
      BY <1>1, <1>4, <3>1
  <2>3. QED
    BY <2>1, <2>2
<1> HIDE DEF new
<1>8. pos + 1 \in 0..(MaxSectors + 1) /\ (pos + 1 <= MaxSectors => pos < MaxSectors)
  BY <1>1, <1>2, SizesAreNat
<1>9. /\ txs' \in [Writers -> Tx]
      /\ txs'[w].clone = new /\ txs'[w].pos = pos + 1
      /\ \A v \in Writers \ {w} : txs'[v] = txs[v]
  <2>1. txs \in [Writers -> Tx] /\ new \in {None} \cup Seq(Sector)
    BY <1>7 DEF IInv, Typed
  <2>2. /\ txs' \in [Writers -> Tx]
        /\ txs'[w] = [clone |-> new, pos |-> pos + 1, closed |-> txs[w].closed]
    BY <1>5, <1>8, <2>1 DEF Tx
  <2>3. \A v \in Writers \ {w} : txs'[v] = txs[v]
    BY <1>5, <2>1
  <2>4. QED
    BY <2>2, <2>3
<1>10. wr' = [wr EXCEPT ![w].tip = Append(wr[w].tip, w)]
  BY DEF WriteSector
<1>11. Append(wr[w].tip, w) \in Seq(Sector) /\ Len(Append(wr[w].tip, w)) = pos + 1
  BY <1>1, <1>2
<1>12. /\ wr' \in [Writers -> Writer]
       /\ wr'[w].pc = "open" /\ wr'[w].tip = Append(wr[w].tip, w)
       /\ \A v \in Writers \ {w} : wr'[v] = wr[v]
  BY <1>1, <1>10, <1>11, WrTyped DEF Writer
<1>13. WriterOK(w)'
  BY <1>6, <1>8, <1>9, <1>11, <1>12 DEF WriterOK
<1>14. Users' = Users
  BY <1>1, <1>12 DEF WriteSector, Users
<1>15. PoolOK'
  BY <1>14, PoolSame DEF IInv, WriteSector, node
<1>16. Typed'
  BY <1>9, <1>12 DEF IInv, Typed, WriteSector, node
<1>17. QED
  BY <1>9, <1>12, <1>13, <1>15, <1>16, WriterFrame DEF IInv, WriteSector, node

LEMMA VerifyCommitStep ==
  ASSUME IInv, up, NEW w \in Writers, VerifyCommit(w)
  PROVE  IInv'
<1> DEFINE old == LazyInitialize(w)
           new == IF wr[w].tip = <<>> THEN txs[w].clone ELSE old
           pc  == IF Verifies(w) THEN "verified" ELSE "open"
<1>1. /\ wr[w].pc = "open" /\ WriterOK(w) /\ wr[w].tip \in Seq(Sector) /\ txs[w] \in Tx
  BY WriterParts DEF VerifyCommit
<1>2. txs[w].pos = Len(wr[w].tip)
  BY <1>1 DEF WriterOK
<1>3. txs[w].pos <= MaxSectors => old \in Blob /\ new \in {None} \cup Blob
  BY <1>1 DEF LazyInitialize, WriterOK, IInv, Typed
<1>4. new \in {None} \cup Seq(Sector)
  BY <1>1, BlobIsSeq DEF LazyInitialize, IInv, Typed, Tx
<1>5. txs' = [txs EXCEPT ![w].clone = new] /\ wr' = [wr EXCEPT ![w].pc = pc]
  BY DEF VerifyCommit
<1>6. pc = "verified" =>
        /\ Len(wr[w].tip) <= MaxSectors
        /\ wr[w].tip # <<>> => new = old /\ SubSeq(old, 1, Len(wr[w].tip)) = wr[w].tip
  BY DEF Verifies
<1>7. pc \in {"verified", "open"}
  OBVIOUS
<1> HIDE DEF old, new, pc
<1>8. /\ txs' \in [Writers -> Tx]
      /\ txs'[w].clone = new /\ txs'[w].pos = txs[w].pos
      /\ \A v \in Writers \ {w} : txs'[v] = txs[v]
  <2>1. txs \in [Writers -> Tx]
    BY DEF IInv, Typed
  <2>2. /\ txs' \in [Writers -> Tx]
        /\ txs'[w] = [clone |-> new, pos |-> txs[w].pos, closed |-> txs[w].closed]
    BY <1>4, <1>5, <2>1 DEF Tx
  <2>3. \A v \in Writers \ {w} : txs'[v] = txs[v]
    BY <1>5, <2>1
  <2>4. QED
    BY <2>2, <2>3
<1>9. /\ wr' \in [Writers -> Writer]
      /\ wr'[w].pc = pc /\ wr'[w].tip = wr[w].tip
      /\ \A v \in Writers \ {w} : wr'[v] = wr[v]
  <2>1. /\ wr \in [Writers -> Writer]
        /\ pc \in {"new", "open", "verified", "stored", "committed", "failed"}
    BY <1>7 DEF IInv, Typed
  <2>2. /\ wr' \in [Writers -> Writer]
        /\ wr'[w] = [pc |-> pc, epoch |-> wr[w].epoch, tip |-> wr[w].tip]
    BY <1>5, <2>1 DEF Writer
  <2>3. \A v \in Writers \ {w} : wr'[v] = wr[v]
    BY <1>5, <2>1
  <2>4. QED
    BY <2>2, <2>3
<1>10. WriterOK(w)'
  BY <1>2, <1>3, <1>6, <1>7, <1>8, <1>9 DEF WriterOK
<1>11. Users' = Users
  BY <1>1, <1>7, <1>9 DEF VerifyCommit, Users
<1>12. PoolOK'
  BY <1>11, PoolSame DEF IInv, VerifyCommit, node
<1>13. Typed'
  BY <1>8, <1>9 DEF IInv, Typed, VerifyCommit, node
<1>14. wr'[w].pc # "stored"
  BY <1>7, <1>9
<1>15. QED
  BY <1>8, <1>9, <1>10, <1>12, <1>13, <1>14, WriterFrame DEF IInv, VerifyCommit, node

LEMMA CommitBusyStep ==
  ASSUME IInv, up, NEW w \in Writers, CommitBusy(w)
  PROVE  IInv'
<1>1. wr[w].pc = "verified" /\ WriterOK(w)
  BY WriterParts DEF CommitBusy
<1>2. /\ wr' \in [Writers -> Writer]
      /\ wr'[w].pc = "open" /\ wr'[w].tip = wr[w].tip
      /\ \A v \in Writers \ {w} : wr'[v] = wr[v]
  BY WrTyped DEF Writer, CommitBusy
<1>3. WriterOK(w)'
  BY <1>1, <1>2 DEF WriterOK, CommitBusy
<1>4. Users' = Users
  BY <1>1, <1>2 DEF CommitBusy, Users
<1>5. PoolOK'
  BY <1>4, PoolSame DEF IInv, CommitBusy, node
<1>6. Typed'
  BY <1>2 DEF IInv, Typed, CommitBusy, node
<1>7. QED
  BY <1>2, <1>3, <1>5, <1>6, WriterFrame DEF IInv, CommitBusy, node

LEMMA CheckoutExpiresStep ==
  ASSUME IInv, up, NEW w \in Writers, CheckoutExpires(w)
  PROVE  IInv'
<1>1. stored' \in [Writers -> {"absent", "live", "expired"}]
  BY DEF IInv, Typed, CheckoutExpires
<1>2. Typed'
  BY <1>1 DEF IInv, Typed, CheckoutExpires, node
<1>3. Users' = Users /\ ReadLocks' = ReadLocks
  BY DEF CheckoutExpires, Users, ReadLocks
<1>4. PoolOK' /\ LockOK'
  BY <1>3, PoolSame, LockSame DEF IInv, CheckoutExpires, node
<1>5. WritersOK'
  BY DEF IInv, WritersOK, WriterOK, CheckoutExpires, node
<1>6. NotCached' /\ ReadersInside' /\ ReadsAreOfFile' /\ BlobMatchesHeader'
  BY DEF IInv, NotCached, ReadersInside, ReadsAreOfFile, BlobMatchesHeader,
         CheckoutExpires, node
<1>7. QED
  BY <1>2, <1>4, <1>5, <1>6 DEF IInv

LEMMA CommitHeaderStep ==
  ASSUME IInv, up, NEW w \in Writers, CommitHeader(w)
  PROVE  IInv'
<1>1. /\ wr[w].pc = "verified" /\ WriterOK(w)
      /\ wr[w].epoch \in Nat /\ wr[w].tip \in Seq(Sector)
  BY WriterParts DEF CommitHeader
<1>2. Len(wr[w].tip) <= MaxSectors
  BY <1>1 DEF WriterOK
<1>3. header' \in Header /\ header'.tip = wr[w].tip
  BY <1>1, <1>2, SeqIsChain DEF CommitHeader, Header
<1>4. /\ lock.readers = 0 /\ lock.writers = 0
      /\ lock' \in [readers : Nat, writers : 0..1]
      /\ lock'.writers = 1 /\ lock'.readers = 0
  BY DEF CommitHeader, TryLock, IInv, Typed
<1>5. wr \in [Writers -> Writer] /\ wr' = [wr EXCEPT ![w].pc = "stored"]
  BY DEF IInv, Typed, CommitHeader
<1>6. /\ wr' \in [Writers -> Writer]
      /\ wr'[w].pc = "stored" /\ wr'[w].tip = wr[w].tip
      /\ \A v \in Writers \ {w} : wr'[v] = wr[v]
  BY <1>5 DEF Writer
<1>7. \A v \in Writers : wr[v].pc # "stored"
  BY <1>4 DEF IInv, LockOK
<1>8. Users' = Users /\ ReadLocks' = ReadLocks
  BY <1>1, <1>6 DEF CommitHeader, Users, ReadLocks
<1>9. Typed'
  BY <1>3, <1>4, <1>6 DEF IInv, Typed, CommitHeader
<1>10. PoolOK'
  BY <1>8, PoolSame DEF IInv, CommitHeader
<1>11. LockOK'
  BY <1>4, <1>6, <1>7, <1>8 DEF IInv, LockOK
<1>12. WritersOK'
  <2>1. ASSUME NEW v \in Writers PROVE WriterOK(v)'
    <3>1. CASE v = w
      BY <1>1, <1>3, <1>6, <3>1 DEF WriterOK, CommitHeader
    <3>2. CASE v # w
      <4>1. WriterOK(v) /\ wr'[v] = wr[v] /\ txs'[v] = txs[v] /\ wr'[v].pc # "stored"
        BY <1>6, <1>7, <3>2 DEF IInv, WritersOK, CommitHeader
      <4>2. QED
        BY <4>1 DEF WriterOK
    <3>3. QED
      BY <3>1, <3>2
  <2>2. QED
    BY <2>1 DEF WritersOK
<1>13. NotCached' /\ ReadersInside' /\ ReadsAreOfFile'
  BY DEF IInv, NotCached, ReadersInside, ReadsAreOfFile, CommitHeader
<1>14. BlobMatchesHeader'
  BY <1>4 DEF BlobMatchesHeader
<1>15. QED
  BY <1>9, <1>10, <1>11, <1>12, <1>13, <1>14 DEF IInv

\* The clone is copied over the file under the lock, which nobody reads under
LEMMA CommitBlobStep ==
  ASSUME IInv, up, NEW w \in Writers, CommitBlob(w)
  PROVE  IInv'
<1>1. /\ wr[w].pc = "stored" /\ WriterOK(w) /\ w \in Holders
      /\ w \notin Requests /\ w \notin Readers
  BY WriterParts DEF CommitBlob
<1>2. lock.writers = 1 /\ lock.readers = 0
  BY <1>1 DEF IInv, LockOK
<1>3. /\ lock' \in [readers : Nat, writers : 0..1]
      /\ lock'.writers = 0 /\ lock'.readers = 0
  BY <1>2 DEF CommitBlob, Unlock, IInv, Typed
<1>4. wr \in [Writers -> Writer] /\ wr' = [wr EXCEPT ![w].pc = "committed"]
  BY DEF IInv, Typed, CommitBlob
<1>5. /\ wr' \in [Writers -> Writer]
      /\ wr'[w].pc = "committed"
      /\ \A v \in Writers \ {w} : wr'[v] = wr[v]
  BY <1>4 DEF Writer
<1>6. \A v \in Writers : wr'[v].pc # "stored"
  BY <1>1, <1>5 DEF IInv, LockOK
<1>7. /\ txs' \in [Writers -> Tx]
      /\ \A v \in Writers \ {w} : txs'[v] = txs[v]
  BY TxCloses DEF CommitBlob, CommitTx
<1>8. txs[w].clone \in {None} \cup Blob
  BY <1>1 DEF WriterOK
<1>9. file' \in Blob
  BY <1>8 DEF CommitBlob, CommitTx, IInv, Typed
<1>10. SubSeq(file', 1, Len(header'.tip)) = header'.tip
  <2>1. header' = header /\ header.tip = wr[w].tip
    BY <1>1 DEF CommitBlob, WriterOK
  <2>2. CASE wr[w].tip = <<>>
    BY <1>9, <2>1, <2>2, EmptyPrefix
  <2>3. CASE wr[w].tip # <<>>
    <3>1. txs[w].clone \in Blob /\ SubSeq(txs[w].clone, 1, Len(wr[w].tip)) = wr[w].tip
      BY <1>1, <2>3 DEF WriterOK
    <3>2. file' = txs[w].clone
      BY <3>1, NoneIsNoBlob DEF CommitBlob, CommitTx, Blob
    <3>3. QED
      BY <2>1, <3>1, <3>2
  <2>4. QED
    BY <2>2, <2>3
<1>11. /\ w \in Users /\ Users' = Users \ {w}
       /\ ReadLocks' = ReadLocks
  BY <1>1, <1>5 DEF CommitBlob, Users, ReadLocks
<1>12. PoolOK' /\ handle' \in [Holders -> {"none", "open", "closed"}]
  BY <1>1, <1>11, PoolPuts DEF IInv, CommitBlob
<1>13. stored' \in [Writers -> {"absent", "live", "expired"}]
  BY DEF IInv, Typed, CommitBlob
<1>14. Typed'
  BY <1>3, <1>5, <1>7, <1>9, <1>12, <1>13 DEF IInv, Typed, CommitBlob
<1>15. LockOK'
  BY <1>2, <1>3, <1>6, <1>11 DEF IInv, LockOK
<1>16. WritersOK'
  <2>1. ASSUME NEW v \in Writers PROVE WriterOK(v)'
    <3>1. CASE v = w
      BY <1>5, <3>1 DEF WriterOK
    <3>2. CASE v # w
      <4>1. /\ WriterOK(v) /\ wr'[v] = wr[v] /\ txs'[v] = txs[v]
            /\ wr'[v].pc # "stored"
        BY <1>5, <1>6, <1>7, <3>2 DEF IInv, WritersOK
      <4>2. QED
        BY <4>1 DEF WriterOK
    <3>3. QED
      BY <3>1, <3>2
  <2>2. QED
    BY <2>1 DEF WritersOK
<1>17. NotCached' /\ ReadersInside'
  BY DEF IInv, NotCached, ReadersInside, CommitBlob
<1>18. ReadsAreOfFile'
  BY <1>2, NobodyReads DEF IInv, ReadsAreOfFile, CommitBlob
<1>19. BlobMatchesHeader'
  BY <1>10 DEF BlobMatchesHeader
<1>20. QED
  BY <1>12, <1>14, <1>15, <1>16, <1>17, <1>18, <1>19 DEF IInv

LEMMA SectorsExpireStep ==
  ASSUME IInv, up, NEW k \in Keys, SectorsExpire(k)
  PROVE  IInv'
<1>1. served' \in [Keys -> {None} \cup [sectors : Seq(Sector), expired : BOOLEAN]]
  <2>1. served \in [Keys -> {None} \cup [sectors : Seq(Sector), expired : BOOLEAN]]
    BY DEF IInv, Typed
  <2>2. served[k] \in [sectors : Seq(Sector), expired : BOOLEAN]
    BY <2>1 DEF SectorsExpire
  <2>3. [served[k] EXCEPT !.expired = TRUE] \in [sectors : Seq(Sector), expired : BOOLEAN]
    BY <2>2
  <2>4. QED
    BY <2>1, <2>3 DEF SectorsExpire
<1>2. Typed'
  BY <1>1 DEF IInv, Typed, SectorsExpire, node
<1>3. Users' = Users /\ ReadLocks' = ReadLocks
  BY DEF SectorsExpire, Users, ReadLocks
<1>4. PoolOK' /\ LockOK'
  BY <1>3, PoolSame, LockSame DEF IInv, SectorsExpire, node
<1>5. WritersOK'
  BY DEF IInv, WritersOK, WriterOK, SectorsExpire, node
<1>6. NotCached' /\ ReadersInside' /\ ReadsAreOfFile' /\ BlobMatchesHeader'
  BY DEF IInv, NotCached, ReadersInside, ReadsAreOfFile, BlobMatchesHeader,
         SectorsExpire, node
<1>7. QED
  BY <1>2, <1>4, <1>5, <1>6 DEF IInv

----------------------------------------------------------------------------
(* The theorems *)

LEMMA InitIInv == Init => IInv
<1>1. SUFFICES ASSUME Init PROVE IInv
  OBVIOUS
<1>2. FirstHeader.tip \in Chain
  BY FirstHeaderTyped DEF Header
<1>3. file \in Blob /\ SubSeq(file, 1, Len(header.tip)) = header.tip
  BY <1>1, <1>2, PaddedIsBlob, PaddedBegins DEF Init
<1>4. rq \in [Requests -> Request] /\ \A q \in Requests : rq[q].pc = "idle"
  <2>1. (CHOOSE k \in Keys : TRUE) \in Keys
    BY KeysTyped
  <2> DEFINE key == CHOOSE k \in Keys : TRUE
             first == [pc |-> "idle", key |-> key, header |-> FirstHeader,
                       prev |-> <<>>, sectors |-> <<>>, cached |-> FALSE]
  <2>2. rq \in [Requests -> {first}]
    BY <1>1 DEF Init
  <2>3. first \in Request
    <3> HIDE DEF key
    <3>1. key \in Keys
      BY <2>1 DEF key
    <3>2. QED
      BY <3>1, EmptyIsChain, FirstHeaderTyped DEF Request
  <2>4. first.pc = "idle"
    OBVIOUS
  <2> HIDE DEF first
  <2>5. QED
    BY <2>2, <2>3, <2>4
<1>0. /\ wr = [w \in Writers |-> [pc |-> "new", epoch |-> 0, tip |-> <<>>]]
      /\ rd = [r \in Readers |-> [pc |-> "idle", off |-> 0, data |-> Zero]]
      /\ txs = [w \in Writers |-> [clone |-> None, pos |-> 0, closed |-> FALSE]]
      /\ handle = [h \in Holders |-> "none"]
      /\ lock = [readers |-> 0, writers |-> 0]
  BY <1>1 DEF Init
<1>5. /\ wr \in [Writers -> Writer]
      /\ rd \in [Readers -> Reader]
      /\ handle \in [Holders -> {"none", "open", "closed"}]
      /\ lock \in [readers : Nat, writers : 0..1]
  <2>1. [pc |-> "new", epoch |-> 0, tip |-> <<>>] \in Writer
    BY DEF Writer
  <2>2. [pc |-> "idle", off |-> 0, data |-> Zero] \in Reader
    BY SizesAreNat DEF Reader, Sector
  <2>3. [readers |-> 0, writers |-> 0] \in [readers : Nat, writers : 0..1]
    OBVIOUS
  <2>4. QED
    BY <1>0, <2>1, <2>2, <2>3
<1>6. txs \in [Writers -> Tx]
  <2>1. [clone |-> None, pos |-> 0, closed |-> FALSE] \in Tx
    BY SizesAreNat DEF Tx
  <2>2. QED
    BY <1>0, <2>1
<1>7. Typed
  BY <1>1, <1>3, <1>4, <1>5, <1>6, FirstHeaderTyped DEF Init, Typed
<1>8. /\ \A w \in Writers : wr[w].pc = "new"
      /\ \A r \in Readers : rd[r].pc = "idle"
      /\ \A h \in Holders : handle[h] = "none"
  BY <1>0
<1>9. \A q \in Requests : rq[q].pc = "idle"
  BY <1>4
<1>10. Users = {} /\ ReadLocks = {}
  BY <1>8, <1>9 DEF Users, ReadLocks
<1>11. {h \in Holders : handle[h] # "none"} = {}
  BY <1>8
<1>12. PoolOK
  BY <1>1, <1>8, <1>10, <1>11, FS_EmptySet DEF Init, PoolOK
<1>13. LockOK
  BY <1>1, <1>8, <1>10, FS_EmptySet DEF Init, LockOK
<1>14. WritersOK
  BY <1>8 DEF WritersOK, WriterOK
<1>15. NotCached /\ ReadersInside /\ ReadsAreOfFile
  BY <1>8, <1>9 DEF NotCached, ReadersInside, ReadsAreOfFile
<1>16. QED
  BY <1>3, <1>7, <1>12, <1>13, <1>14, <1>15 DEF IInv, BlobMatchesHeader

LEMMA NextIInv == IInv /\ [Next]_vars => IInv'
<1>1. SUFFICES ASSUME IInv, [Next]_vars PROVE IInv'
  OBVIOUS
<1>2. CASE UNCHANGED vars
  <2>1. Users' = Users /\ ReadLocks' = ReadLocks
    BY <1>2 DEF vars, Users, ReadLocks
  <2>2. Typed' /\ PoolOK' /\ LockOK'
    BY <1>1, <1>2, <2>1, PoolSame, LockSame DEF IInv, Typed, vars
  <2>3. WritersOK'
    BY <1>1, <1>2 DEF IInv, WritersOK, WriterOK, vars
  <2>4. NotCached' /\ ReadersInside' /\ ReadsAreOfFile' /\ BlobMatchesHeader'
    BY <1>1, <1>2 DEF IInv, NotCached, ReadersInside, ReadsAreOfFile, BlobMatchesHeader, vars
  <2>5. QED
    BY <2>2, <2>3, <2>4 DEF IInv
<1>3. ASSUME up, NEW w \in Writers, WriterStep(w)
      PROVE  IInv'
  BY <1>1, <1>3, CheckoutStep, CallWithoutCheckoutStep, WriteSectorStep, VerifyCommitStep,
     CommitBusyStep, CommitHeaderStep, CommitBlobStep, CheckoutExpiresStep DEF WriterStep
<1>4. ASSUME up, NEW q \in Requests, ServerStep(q)
      PROVE  IInv'
  BY <1>1, <1>4, DropBusyStep, ServeCachedStep, OpenBlobStep, ReadSectorStep,
     CacheSectorsStep, SendResponseStep DEF ServerStep
<1>5. ASSUME up, NEW r \in Readers, ReaderStep(r)
      PROVE  IInv'
  BY <1>1, <1>5, ReadAtStep, ReadBlobStep, ReadReturnsStep, SeekStartStep DEF ReaderStep
<1>6. QED
  BY <1>1, <1>2, <1>3, <1>4, <1>5, OnBlobReqStep, SectorsExpireStep DEF Next

LEMMA AlwaysIInv == Spec => []IInv
  BY InitIInv, NextIInv, PTL DEF Spec

\* Types: every value is of its kind, the pool's count and the lock's are at
\* most the number of calls there can be, and no write leaves the blob's file
\* with other than MaxSectors sectors, although a client may write one too many
THEOREM TypeCorrect == Spec => []TypeOK
<1>1. IInv => TypeOK
  <2>1. SUFFICES ASSUME IInv PROVE TypeOK
    OBVIOUS
  <2>2. refs \in 0..Cardinality(Holders)
    BY <2>1, HeldFinite DEF IInv, PoolOK, Held
  <2>3. lock.readers \in 0..Cardinality(Requests \cup Readers)
    BY <2>1, ReadLocksFinite DEF IInv, LockOK
  <2>4. lock \in [readers : 0..Cardinality(Requests \cup Readers), writers : 0..1]
    BY <2>1, <2>3 DEF IInv, Typed
  <2>5. QED
    BY <2>1, <2>2, <2>4 DEF IInv, Typed, TypeOK, Blob
<1>2. QED
  BY <1>1, AlwaysIInv, PTL

\* The pool of open files (blob/pool.go): its count is the number of calls that
\* have the blob open, and Close never closes the file under another call,
\* for any number of checkouts, requests and readers
THEOREM PoolAgrees == Spec => []PoolCounts
<1>1. IInv => PoolCounts
  BY DEF IInv, PoolOK, PoolCounts
<1>2. QED
  BY <1>1, AlwaysIInv, PTL

\* Commit (rpc/server.go) verifies before it locks and lets writers overlap;
\* still the blob of an unlocked name is the one its header describes
THEOREM BlobAgrees == Spec => []BlobMatchesHeader
<1>1. IInv => BlobMatchesHeader
  BY DEF IInv
<1>2. QED
  BY <1>1, AlwaysIInv, PTL

\* ReadAt (rpc/server.go) returns sectors of the committed blob only
THEOREM ReadsCommitted == Spec => []ReadsAreCommitted
<1>1. IInv => ReadsAreCommitted
  <2>1. SUFFICES ASSUME IInv, NEW r \in Readers,
                        rd[r].pc = "read", rd[r].off < Len(header.tip)
                 PROVE  rd[r].data = header.tip[rd[r].off + 1]
    BY DEF ReadsAreCommitted
  <2>2. rd[r].data = file[rd[r].off + 1] /\ rd[r].off \in Nat
    BY <2>1, ReaderParts DEF IInv, ReadsAreOfFile
  <2>3. lock.readers # 0
    BY <2>1, NobodyReads DEF IInv
  <2>4. lock.writers = 0
    BY <2>1, <2>3 DEF IInv, LockOK, Typed
  <2>5. file \in Blob /\ header.tip \in Chain /\ SubSeq(file, 1, Len(header.tip)) = header.tip
    BY <2>1, <2>4 DEF IInv, Typed, Header, BlobMatchesHeader
  <2>6. file[rd[r].off + 1] = header.tip[rd[r].off + 1]
    BY <2>1, <2>2, <2>5, PrefixSector
  <2>7. QED
    BY <2>2, <2>6
<1>2. QED
  BY <1>1, AlwaysIInv, PTL
=============================================================================
