--------------------------- MODULE Updater_proofs ---------------------------
(***************************************************************************)
(* Proofs about Updater, for any number of workers and clients, any bounds *)
(* and any chains the publisher signs.                                     *)
(*                                                                         *)
(* That the header is signed needs to know what the workers and clients    *)
(* between validation and SetHeaderTx hold (SignedOK).  That the blob      *)
(* matches the header whenever the lock is free needs to know who holds    *)
(* the lock (LockOK), and what the one who has stored the header is about  *)
(* to commit (BlobOK).                                                     *)
(***************************************************************************)
EXTENDS Updater, SequenceTheorems, TLAPS

\* Most steps are first-order; those that compute or need record types cite SMT.
USE Zenon

\* The holder of the write lock is the one actor inside the locked region.
LockOK ==
  /\ \A w \in Workers :
       worker[w].pc \in {"syncing", "banned", "synced", "stored"}
         <=> writer = w
  /\ \A c \in Clients : client[c].pc = "stored" <=> writer = c

\* Whatever is about to be stored has been signed.
SignedOK ==
  /\ HeaderSigned
  /\ \A w \in Workers : worker[w].pc = "synced" => worker[w].su \in seals
  /\ \A c \in Clients : client[c].pc \in {"verified", "stored"} =>
       [epoch |-> client[c].epoch, chain |-> client[c].tip] \in seals

\* Nobody is between storing a header and committing its blob.
Settled ==
  /\ \A w \in Workers : worker[w].pc # "stored"
  /\ \A c \in Clients : client[c].pc # "stored"

\* The blob has the content the header names, or the transaction that is about
\* to be committed has.
BlobOK ==
  /\ Settled /\ header # None => SerialHash(blob, header.size) = header.tip
  /\ \A w \in Workers : worker[w].pc = "stored" =>
       SerialHash(worker[w].file, header.size) = header.tip
  /\ \A c \in Clients : client[c].pc = "stored" =>
       SerialHash(client[c].file, header.size) = header.tip
  /\ \A c \in Clients : client[c].pc = "verified" =>
       SerialHash(client[c].file, Len(client[c].tip)) = client[c].tip

----------------------------------------------------------------------------
(* Chains and files *)

\* A chain is a sequence of at most MaxSize sectors.
LEMMA ChainIsSeq ==
  ASSUME NEW c \in Chain
  PROVE  /\ Len(c) \in Sizes
         /\ c \in [1..Len(c) -> Sectors \cup {Zero}]
         /\ c \in Seq(Sectors \cup {Zero})
<1>1. PICK n \in Sizes : c \in [1..n -> Sectors \cup {Zero}]
  BY DEF Chain
<1>2. n \in Nat
  BY BoundsAreNats, SMT DEF Sizes
<1>3. c \in Seq(Sectors \cup {Zero})
  BY <1>1, <1>2, SeqDef
<1>4. Len(c) \in Nat /\ DOMAIN c = 1..Len(c)
  BY <1>3, LenProperties
<1>5. Len(c) = n
  BY <1>1, <1>2, <1>4, SMT
<1> QED BY <1>1, <1>3, <1>5

\* The empty chain, and a chain of given length.
LEMMA EmptyChain == ZeroHash \in Chain
<1>1. 0 \in Sizes
  BY BoundsAreNats, SMT DEF Sizes
<1>2. ZeroHash \in [1..0 -> Sectors \cup {Zero}]
  BY SMT DEF ZeroHash
<1> QED BY <1>1, <1>2 DEF Chain

\* Hashing a file up to a size gives a chain of that size.
LEMMA FileHash ==
  ASSUME NEW f \in File, NEW n \in Sizes
  PROVE  SerialHash(f, n) \in Chain /\ Len(SerialHash(f, n)) = n
<1>1. n \in Nat /\ n <= MaxSize /\ MaxSize \in Nat
  BY BoundsAreNats, SMT DEF Sizes
<1>2. SerialHash(f, n) \in [1..n -> Sectors \cup {Zero}]
  BY <1>1, SMT DEF SerialHash, File
<1>3. SerialHash(f, n) \in Chain
  BY <1>2 DEF Chain
<1>4. Len(SerialHash(f, n)) \in Nat
      /\ DOMAIN SerialHash(f, n) = 1..Len(SerialHash(f, n))
  BY <1>3, ChainIsSeq, LenProperties
<1>5. Len(SerialHash(f, n)) = n
  BY <1>1, <1>2, <1>4, SMT
<1> QED BY <1>3, <1>5

\* So does hashing a chain up to a position in it.
LEMMA ChainHash ==
  ASSUME NEW c \in Chain, NEW n \in Sizes, n <= Len(c)
  PROVE  SerialHash(c, n) \in Chain
<1>1. n \in Nat /\ Len(c) \in Nat /\ c \in [1..Len(c) -> Sectors \cup {Zero}]
  BY BoundsAreNats, ChainIsSeq, SMT DEF Sizes
<1>2. SerialHash(c, n) \in [1..n -> Sectors \cup {Zero}]
  BY <1>1, SMT DEF SerialHash
<1> QED BY <1>2 DEF Chain

\* Writing the sectors of a chain gives a file.
LEMMA WriteIsFile ==
  ASSUME NEW f \in File, NEW pos \in Sizes, NEW c \in Chain
  PROVE  WriteSectors(f, pos, c) \in File
<1>1. pos \in Nat /\ Len(c) \in Nat /\ c \in [1..Len(c) -> Sectors \cup {Zero}]
  BY BoundsAreNats, ChainIsSeq, SMT DEF Sizes
<1> QED BY <1>1, BoundsAreNats, SMT DEF WriteSectors, File

\* Appending a sector to a chain that is not full gives a chain.
LEMMA AppendChain ==
  ASSUME NEW c \in Chain, NEW x \in Sectors, Len(c) < MaxSize
  PROVE  Append(c, x) \in Chain
<1>1. Len(c) \in Nat /\ c \in Seq(Sectors \cup {Zero})
  BY BoundsAreNats, ChainIsSeq, SMT DEF Sizes
<1>2. /\ Append(c, x) \in Seq(Sectors \cup {Zero})
      /\ Len(Append(c, x)) = Len(c) + 1
  BY <1>1, AppendProperties, SMT
<1>3. Append(c, x) \in [1..(Len(c) + 1) -> Sectors \cup {Zero}]
  BY <1>2, LenProperties
<1>4. Len(c) + 1 \in Sizes
  BY <1>1, BoundsAreNats, SMT DEF Sizes
<1> QED BY <1>3, <1>4 DEF Chain

----------------------------------------------------------------------------
(* The states of workers and clients *)

\* What a worker holds at each point of UpdateBlob.
LEMMA WorkerFields ==
  ASSUME NEW s \in WorkerState
  PROVE  /\ s.pc \in {"idle", "read", "checked", "syncing", "banned", "synced",
                      "stored", "updated"}
         /\ s.pc # "idle" => s.item \in Item
         /\ s.pc = "read" => s.hd \in Header \cup {None}
         /\ s.pc \in {"checked", "syncing", "banned", "synced"} => s.opts \in Opts
         /\ s.pc \in {"syncing", "synced", "stored"} => s.file \in File
         /\ s.pc = "banned" => s.proof \in Proof
         /\ s.pc = "synced" => s.su \in Seal
<1>1. CASE s = Idle
  BY <1>1 DEF Idle
<1>2. CASE s \in [pc : {"read"}, item : Item, hd : Header \cup {None}]
  BY <1>2
<1>3. CASE s \in [pc : {"checked"}, item : Item, opts : Opts]
  BY <1>3
<1>4. CASE s \in [pc : {"syncing"}, item : Item, opts : Opts, file : File]
  BY <1>4
<1>5. CASE s \in [pc : {"banned"}, item : Item, opts : Opts, proof : Proof]
  BY <1>5
<1>6. CASE s \in [pc : {"synced"}, item : Item, opts : Opts, file : File, su : Seal]
  BY <1>6
<1>7. CASE s \in [pc : {"stored"}, item : Item, file : File]
  BY <1>7
<1>8. CASE s \in [pc : {"updated"}, item : Item]
  BY <1>8
<1> QED BY <1>1, <1>2, <1>3, <1>4, <1>5, <1>6, <1>7, <1>8 DEF WorkerState

\* What a client holds at each point of an edit.
LEMMA ClientFields ==
  ASSUME NEW s \in ClientState
  PROVE  /\ s.pc \in {"idle", "open", "verified", "stored"}
         /\ s.pc # "idle" => s.epoch \in Epochs /\ s.tip \in Chain
         /\ s.pc = "open" =>
              /\ s.file \in File \cup {None}
              /\ s \in [pc : {"open"}, epoch : Epochs, tip : Chain,
                        file : File \cup {None}]
         /\ s.pc \in {"verified", "stored"} =>
              /\ s.file \in File
              /\ s \in [pc : {"verified", "stored"}, epoch : Epochs, tip : Chain,
                        file : File]
<1>1. CASE s = Idle
  BY <1>1 DEF Idle
<1>2. CASE s \in [pc : {"open"}, epoch : Epochs, tip : Chain,
                  file : File \cup {None}]
  BY <1>2
<1>3. CASE s \in [pc : {"verified", "stored"}, epoch : Epochs, tip : Chain,
                  file : File]
  BY <1>3
<1> QED BY <1>1, <1>2, <1>3 DEF ClientState

\* Become changes the state of one worker.
LEMMA BecomeStep ==
  ASSUME worker \in [Workers -> WorkerState], NEW w \in Workers,
         NEW s \in WorkerState, Become(w, s)
  PROVE  /\ worker' \in [Workers -> WorkerState]
         /\ worker'[w] = s
         /\ \A v \in Workers : v # w => worker'[v] = worker[v]
BY DEF Become

\* Edit changes the state of one client.
LEMMA EditStep ==
  ASSUME client \in [Clients -> ClientState], NEW c \in Clients,
         NEW s \in ClientState, Edit(c, s)
  PROVE  /\ client' \in [Clients -> ClientState]
         /\ client'[c] = s
         /\ \A d \in Clients : d # c => client'[d] = client[d]
BY DEF Edit

\* The options of a sync are typed.
LEMMA OptsType ==
  ASSUME NEW s \in WorkerState, s.pc = "read"
  PROVE  SyncOpts(s) \in Opts
<1>1. s.item \in Item /\ s.hd \in Header \cup {None}
  BY WorkerFields
<1>2. 0 \in Epochs /\ 0 \in Sizes /\ ZeroHash \in Chain
  BY EmptyChain, BoundsAreNats, SMT DEF Epochs, Sizes
<1>3. CASE s.hd = None
  BY <1>2, <1>3 DEF SyncOpts, Opts
<1>4. CASE s.hd # None
  <2>1. s.hd \in Header /\ s.item.epoch \in Epochs
    BY <1>1, <1>4 DEF Item
  <2>2. CASE RollsOver(s)
    BY <1>2, <1>4, <2>1, <2>2 DEF SyncOpts, Opts
  <2>3. CASE ~RollsOver(s)
    BY <1>2, <1>4, <2>1, <2>3 DEF SyncOpts, Opts, Header
  <2> QED BY <2>2, <2>3
<1> QED BY <1>3, <1>4

\* A recorded equivocation is typed.
LEMMA ProofType ==
  ASSUME header \in Header \cup {None}, NEW s \in Seal, NEW o \in Opts,
         Records(s, o)
  PROVE  ProofOf(s, o) \in Proof
<1>1. header \in Header /\ o.size <= Len(s.chain)
  BY DEF Records, Conflicts, Serves
<1>2. s.epoch \in Epochs /\ s.chain \in Chain /\ o.size \in Sizes
  BY DEF Seal, Opts
<1>3. PrevHash(s, o) \in Chain
  BY <1>1, <1>2, ChainHash DEF PrevHash
<1> QED BY <1>1, <1>2, <1>3 DEF ProofOf, Proof, Remote

\* So is a received one.
LEMMA ReceivedType ==
  ASSUME seals \in SUBSET Seal, NEW s, NEW t, Equivocation(s, t)
  PROVE  ReceivedProof(s, t) \in Proof
<1>1. s \in Seal /\ t \in Seal /\ Len(s.chain) <= Len(t.chain)
  BY DEF Equivocation
<1>2. /\ s.epoch \in Epochs /\ s.chain \in Chain
      /\ t.epoch \in Epochs /\ t.chain \in Chain
  BY <1>1 DEF Seal
<1>3. Len(s.chain) \in Sizes
  BY <1>2, ChainIsSeq
<1>4. SerialHash(t.chain, Len(s.chain)) \in Chain
  BY <1>1, <1>2, <1>3, ChainHash
<1> QED BY <1>1, <1>2, <1>3, <1>4 DEF ReceivedProof, Proof, Remote, Header

\* A clone of the blob is a file.
LEMMA CloneType ==
  ASSUME TypeOK, NEW f \in File \cup {None}
  PROVE  Clone(f) \in File
BY DEF Clone, TypeOK

----------------------------------------------------------------------------
(* Types *)

LEMMA ZeroFileType == ZeroFile \in File
BY DEF ZeroFile, File

\* A sync that failed may leave its goroutine behind.
LEMMA LingerType ==
  ASSUME late \in SUBSET LateState, NEW o \in Opts, Linger(o)
  PROVE  late' \in SUBSET LateState
BY SMT DEF Linger, LateState

LEMMA IdleType == Idle \in WorkerState /\ Idle \in ClientState
BY DEF WorkerState, ClientState

\* UpdateBlob keeps the types.
LEMMA UpdateType ==
  ASSUME TypeOK, NEW w \in Workers, UpdateStep(w)
  PROVE  TypeOK'
<1> DEFINE s == worker[w]
<1>0. /\ s \in WorkerState /\ worker \in [Workers -> WorkerState]
      /\ w \in Actors \cup {None} /\ None \in Actors \cup {None}
  BY DEF TypeOK, Actors
<1>f. /\ s.pc # "idle" => s.item \in Item
      /\ s.pc \in {"checked", "synced"} => s.opts \in Opts
      /\ s.pc \in {"synced", "stored"} => s.file \in File
      /\ s.pc = "synced" => s.su \in Seal
  BY <1>0, WorkerFields
<1>1. CASE CheckEpoch(w)
  <2> DEFINE t == IF RollsOver(s) /\ RolloverRefused(s) THEN Idle
                  ELSE [pc |-> "checked", item |-> s.item, opts |-> SyncOpts(s)]
  <2>1. s.pc = "read" /\ Become(w, t)
    BY <1>1 DEF CheckEpoch
  <2>2. SyncOpts(s) \in Opts
    BY <1>0, <2>1, OptsType
  <2>3. [pc |-> "checked", item |-> s.item, opts |-> SyncOpts(s)] \in WorkerState
    BY <1>f, <2>1, <2>2 DEF WorkerState
  <2>4. t \in WorkerState
    BY <2>3, IdleType
  <2> HIDE DEF t
  <2>5. worker' \in [Workers -> WorkerState]
    BY <1>0, <2>1, <2>4, BecomeStep
  <2> QED BY <1>1, <2>5 DEF CheckEpoch, TypeOK
<1>2. CASE LockName(w)
  <2> DEFINE t == [pc |-> "syncing", item |-> s.item, opts |-> s.opts,
                   file |-> IF s.opts.epochUpdated THEN ZeroFile ELSE blob]
  <2>1. \/ Become(w, Idle) /\ writer' = writer
        \/ Become(w, t) /\ writer' = w
    BY <1>2 DEF LockName
  <2>2. blob \in File /\ s.pc = "checked"
    BY <1>2 DEF TypeOK, LockName
  <2>3. t \in WorkerState
    BY <1>f, <2>2, ZeroFileType DEF WorkerState
  <2> HIDE DEF t
  <2>4. worker' \in [Workers -> WorkerState]
    BY <1>0, <2>1, <2>3, IdleType, BecomeStep
  <2>5. writer' \in Actors \cup {None}
    BY <1>0, <2>1 DEF TypeOK
  <2> QED BY <1>2, <2>4, <2>5 DEF LockName, TypeOK
<1>3. CASE StoreHeader(w)
  <2> DEFINE t == [pc |-> "stored", item |-> s.item, file |-> s.file]
  <2>1. s.pc = "synced" /\ Become(w, t) /\ header' = NewHeader(s)
    BY <1>3 DEF StoreHeader
  <2>2. t \in WorkerState
    BY <1>f, <2>1 DEF WorkerState
  <2> HIDE DEF t
  <2>3. worker' \in [Workers -> WorkerState]
    BY <1>0, <2>1, <2>2, BecomeStep
  <2>4. /\ s.item.epoch \in Epochs /\ s.item.size \in Sizes /\ s.su \in Seal
        /\ now \in Times
    BY <1>f, <2>1 DEF Item, TypeOK
  <2>5. SerialHash(s.file, s.item.size) \in Chain
    BY <1>f, <2>1, <2>4, FileHash
  <2>6. header' \in Header
    BY <2>1, <2>4, <2>5 DEF NewHeader, Header
  <2> QED BY <1>3, <2>3, <2>6 DEF StoreHeader, TypeOK
<1> DEFINE u == [pc |-> "updated", item |-> worker[w].item]
<1>u. s.pc # "idle" => u \in WorkerState
  BY <1>f DEF WorkerState
<1> HIDE DEF u
<1>4. CASE TipMismatch(w)
  <2>1. s.pc = "synced" /\ Become(w, u) /\ writer' = None
    BY <1>4 DEF TipMismatch, Succeed, u
  <2>2. worker' \in [Workers -> WorkerState]
    BY <1>0, <1>u, <2>1, BecomeStep
  <2> QED BY <1>0, <1>4, <2>1, <2>2 DEF TipMismatch, TypeOK
<1>5. CASE CommitTx(w)
  <2>1. s.pc = "stored" /\ Become(w, u) /\ writer' = None
    BY <1>5 DEF CommitTx, Succeed, u
  <2>2. worker' \in [Workers -> WorkerState]
    BY <1>0, <1>u, <2>1, BecomeStep
  <2>3. blob' \in File
    BY <1>5, <1>f DEF CommitTx
  <2>4. sent' \in SUBSET Update
    BY <1>5, <1>f DEF CommitTx, Item, Update, TypeOK
  <2> QED BY <1>0, <1>5, <2>1, <2>2, <2>3, <2>4 DEF CommitTx, TypeOK
<1>6. CASE EmitProcessed(w)
  <2>1. worker' \in [Workers -> WorkerState]
    BY <1>0, <1>6, IdleType, BecomeStep DEF EmitProcessed
  <2> QED BY <1>6, <2>1 DEF EmitProcessed, TypeOK
<1> QED BY <1>1, <1>2, <1>3, <1>4, <1>5, <1>6 DEF UpdateStep


\* SyncSectors keeps the types.
LEMMA SyncType ==
  ASSUME TypeOK, NEW w \in Workers, SyncStep(w)
  PROVE  TypeOK'
<1> DEFINE p == worker[w]
<1>0. /\ p \in WorkerState /\ worker \in [Workers -> WorkerState]
      /\ None \in Actors \cup {None} /\ late \in SUBSET LateState
      /\ header \in Header \cup {None} /\ now \in Times
  BY DEF TypeOK
<1>f. /\ p.pc # "idle" => p.item \in Item
      /\ p.pc \in {"syncing", "banned"} => p.opts \in Opts
      /\ p.pc = "syncing" => p.file \in File
      /\ p.pc = "banned" => p.proof \in Proof
  BY <1>0, WorkerFields
<1>i. ASSUME Fail(w)
      PROVE  worker' \in [Workers -> WorkerState] /\ writer' \in Actors \cup {None}
  BY <1>0, <1>i, IdleType, BecomeStep DEF Fail
<1>1. CASE InvalidSignature(w)
  <2>1. late' \in SUBSET LateState
    BY <1>0, <1>1, <1>f, LingerType DEF InvalidSignature
  <2>2. Fail(w)
    BY <1>1 DEF InvalidSignature
  <2> QED BY <1>1, <1>i, <2>1, <2>2 DEF InvalidSignature, TypeOK
<1>2. CASE RecordProof(w)
  <2>1. late' \in SUBSET LateState
    BY <1>0, <1>2, <1>f, LingerType DEF RecordProof
  <2>2. Fail(w) /\ p.proof \in Proof /\ proof' = p.proof
    BY <1>2, <1>f DEF RecordProof
  <2>3. p.proof.remote.epoch \in Epochs /\ 0 \in Sizes
    BY <2>2, BoundsAreNats, SMT DEF Proof, Remote, Sizes
  <2>4. sent' \in SUBSET Update
    BY <1>2, <2>3, SMT DEF RecordProof, TypeOK, Update
  <2> QED BY <1>2, <1>i, <2>1, <2>2, <2>4 DEF RecordProof, TypeOK
<1>3. ASSUME NEW s \in seals, Accept(w, s)
      PROVE  TypeOK'
  <2> DEFINE t == [pc |-> "synced", item |-> p.item, opts |-> p.opts,
                   file |-> WriteSectors(p.file, p.opts.size, s.chain), su |-> s]
  <2>1. p.pc = "syncing" /\ Become(w, t)
    BY <1>3 DEF Accept
  <2>2. s \in Seal /\ s.chain \in Chain /\ p.opts.size \in Sizes
    BY <1>f, <2>1 DEF TypeOK, Seal, Opts
  <2>3. WriteSectors(p.file, p.opts.size, s.chain) \in File
    BY <1>f, <2>1, <2>2, WriteIsFile
  <2>4. t \in WorkerState
    BY <1>f, <2>1, <2>2, <2>3 DEF WorkerState
  <2> HIDE DEF t
  <2>5. worker' \in [Workers -> WorkerState]
    BY <1>0, <2>1, <2>4, BecomeStep
  <2> QED BY <1>3, <2>5 DEF Accept, TypeOK
<1>4. ASSUME NEW s \in seals, Mismatch(w, s)
      PROVE  TypeOK'
  <2>1. late' \in SUBSET LateState
    BY <1>0, <1>4, <1>f, LingerType DEF Mismatch
  <2>2. Fail(w)
    BY <1>4 DEF Mismatch
  <2> QED BY <1>4, <1>i, <2>1, <2>2 DEF Mismatch, TypeOK
<1>5. ASSUME NEW s \in seals, BanHeader(w, s)
      PROVE  TypeOK'
  <2> DEFINE t == [pc |-> "banned", item |-> p.item, opts |-> p.opts,
                   proof |-> ProofOf(s, p.opts)]
  <2>1. p.pc = "syncing" /\ Become(w, t) /\ Records(s, p.opts)
    BY <1>5 DEF BanHeader
  <2>2. s \in Seal
    BY DEF TypeOK
  <2>3. ProofOf(s, p.opts) \in Proof
    BY <1>0, <1>f, <2>1, <2>2, ProofType
  <2>4. t \in WorkerState
    BY <1>f, <2>1, <2>3 DEF WorkerState
  <2> HIDE DEF t
  <2>5. worker' \in [Workers -> WorkerState]
    BY <1>0, <2>1, <2>4, BecomeStep
  <2>6. bannedAt' \in Times
    BY <1>0, <1>5 DEF BanHeader
  <2> QED BY <1>5, <2>5, <2>6 DEF BanHeader, TypeOK
<1> QED BY <1>1, <1>2, <1>3, <1>4, <1>5 DEF SyncStep

\* A goroutine that outlived its sync keeps the types.
LEMMA LateType ==
  ASSUME TypeOK, NEW l \in late, LateStep(l)
  PROVE  TypeOK'
<1>0. l \in LateState /\ header \in Header \cup {None} /\ now \in Times
  BY DEF TypeOK
<1>1. ASSUME NEW s \in seals, LateBan(l, s)
      PROVE  TypeOK'
  <2>1. l.pc = "late" /\ Records(s, l.opts) /\ s \in Seal
    BY <1>1 DEF LateBan, TypeOK
  <2>2. l.opts \in Opts
    BY <1>0, <2>1 DEF LateState
  <2>3. ProofOf(s, l.opts) \in Proof
    BY <1>0, <2>1, <2>2, ProofType
  <2>4. [pc |-> "lateBanned", opts |-> l.opts, proof |-> ProofOf(s, l.opts)]
          \in LateState
    BY <2>2, <2>3 DEF LateState
  <2>5. late' \in SUBSET LateState
    BY <1>1, <2>4 DEF LateBan, TypeOK
  <2> QED BY <1>0, <1>1, <2>5 DEF LateBan, TypeOK
<1>2. CASE LateProof(l)
  <2>1. l.pc = "lateBanned"
    BY <1>2 DEF LateProof
  <2>2. l.proof \in Proof
    BY <1>0, <2>1 DEF LateState
  <2>3. l.proof.remote.epoch \in Epochs /\ 0 \in Sizes
    BY <2>2, BoundsAreNats, SMT DEF Proof, Remote, Sizes
  <2>4. sent' \in SUBSET Update
    BY <1>2, <2>3, SMT DEF LateProof, TypeOK, Update
  <2> QED BY <1>2, <2>2, <2>4 DEF LateProof, TypeOK
<1>3. CASE LateDone(l)
  BY <1>3 DEF LateDone, TypeOK
<1> QED BY <1>1, <1>2, <1>3 DEF LateStep

\* The RPC calls keep the types.
LEMMA RpcType ==
  ASSUME TypeOK, NEW c \in Clients, RpcStep(c)
  PROVE  TypeOK'
<1> DEFINE s == client[c]
<1>0. /\ s \in ClientState /\ client \in [Clients -> ClientState]
      /\ c \in Actors \cup {None} /\ None \in Actors \cup {None}
      /\ header \in Header \cup {None} /\ now \in Times
  BY DEF TypeOK, Actors
<1>f. /\ s.pc # "idle" => s.epoch \in Epochs /\ s.tip \in Chain
      /\ s.pc = "open" => s \in [pc : {"open"}, epoch : Epochs, tip : Chain,
                                 file : File \cup {None}]
      /\ s.pc \in {"verified", "stored"} =>
           s \in [pc : {"verified", "stored"}, epoch : Epochs, tip : Chain,
                  file : File]
  BY <1>0, ClientFields
<1>e. HeaderEpoch <= MaxEpoch => HeaderEpoch \in Epochs
  <2>1. CurrentEpoch \in Nat
    BY <1>0, BoundsAreNats, SMT DEF CurrentEpoch, Times
  <2> QED BY <1>0, <2>1, BoundsAreNats, SMT DEF HeaderEpoch, Epochs, Header
<1>1. CASE Checkout(c)
  <2> DEFINE t == [pc |-> "open", epoch |-> HeaderEpoch,
                   tip |-> IF header = None THEN ZeroHash ELSE header.tip,
                   file |-> None]
  <2>1. Edit(c, t) /\ HeaderEpoch \in Epochs
    BY <1>1, <1>e DEF Checkout
  <2>2. (IF header = None THEN ZeroHash ELSE header.tip) \in Chain
    BY <1>0, EmptyChain DEF Header
  <2>3. t \in ClientState
    BY <2>1, <2>2 DEF ClientState
  <2> HIDE DEF t
  <2>4. client' \in [Clients -> ClientState]
    BY <1>0, <2>1, <2>3, EditStep
  <2> QED BY <1>1, <2>4 DEF Checkout, TypeOK
<1>2. CASE CheckoutReset(c)
  <2> DEFINE t == [pc |-> "open", epoch |-> HeaderEpoch + 1, tip |-> ZeroHash,
                   file |-> ZeroFile]
  <2>1. Edit(c, t)
    BY <1>2 DEF CheckoutReset
  <2>2. CurrentEpoch \in Nat /\ HeaderEpoch < MaxEpoch
    BY <1>0, <1>2, BoundsAreNats, SMT DEF CurrentEpoch, Times, CheckoutReset
  <2>3. HeaderEpoch + 1 \in Epochs
    BY <1>0, <2>2, BoundsAreNats, SMT DEF HeaderEpoch, Epochs, Header
  <2>4. t \in ClientState
    BY <2>3, EmptyChain, ZeroFileType DEF ClientState
  <2> HIDE DEF t
  <2>5. client' \in [Clients -> ClientState]
    BY <1>0, <2>1, <2>4, EditStep
  <2> QED BY <1>2, <2>5 DEF CheckoutReset, TypeOK
<1>3. ASSUME NEW sector \in Sectors, WriteSector(c, sector)
      PROVE  TypeOK'
  <2>1. s.pc = "open" /\ Len(s.tip) < MaxSize
    BY <1>3 DEF WriteSector
  <2> DEFINE f == Clone(s.file)
  <2>2. Edit(c, [s EXCEPT !.tip = Append(s.tip, sector),
                          !.file = [f EXCEPT ![Len(s.tip) + 1] = sector]])
    BY <1>3 DEF WriteSector
  <2>3. f \in File
    BY <1>f, <2>1, CloneType
  <2> HIDE DEF f
  <2>4. Append(s.tip, sector) \in Chain
    BY <1>f, <2>1, AppendChain
  <2>5. [f EXCEPT ![Len(s.tip) + 1] = sector] \in File
    BY <2>3 DEF File
  <2> DEFINE t == [s EXCEPT !.tip = Append(s.tip, sector),
                            !.file = [f EXCEPT ![Len(s.tip) + 1] = sector]]
  <2>6. t \in ClientState
    BY <1>f, <2>1, <2>4, <2>5 DEF ClientState
  <2>7. Edit(c, t)
    BY <2>2
  <2> HIDE DEF t
  <2>8. client' \in [Clients -> ClientState]
    BY <1>0, <2>6, <2>7, EditStep
  <2> QED BY <1>3, <2>8 DEF WriteSector, TypeOK
<1>4. CASE VerifyCommit(c)
  <2>1. s.pc = "open"
    BY <1>4 DEF VerifyCommit
  <2> DEFINE f == Clone(s.file)
  <2>2. Edit(c, [s EXCEPT !.pc = "verified", !.file = f])
    BY <1>4 DEF VerifyCommit
  <2>3. f \in File
    BY <1>f, <2>1, CloneType
  <2> HIDE DEF f
  <2> DEFINE t == [s EXCEPT !.pc = "verified", !.file = f]
  <2>4. t \in ClientState
    BY <1>f, <2>1, <2>3 DEF ClientState
  <2>5. Edit(c, t)
    BY <2>2
  <2> HIDE DEF t
  <2>6. client' \in [Clients -> ClientState]
    BY <1>0, <2>4, <2>5, EditStep
  <2>7. seals' \in SUBSET Seal
    BY <1>4, <1>f, <2>1, SMT DEF VerifyCommit, TypeOK, Seal
  <2> QED BY <1>4, <2>6, <2>7 DEF VerifyCommit, TypeOK
<1>5. CASE CommitBusy(c)
  <2> DEFINE t == [s EXCEPT !.pc = "open"]
  <2>1. s.pc = "verified" /\ Edit(c, t)
    BY <1>5 DEF CommitBusy
  <2>2. t \in ClientState
    BY <1>f, <2>1 DEF ClientState
  <2> HIDE DEF t
  <2>3. client' \in [Clients -> ClientState]
    BY <1>0, <2>1, <2>2, EditStep
  <2> QED BY <1>5, <2>3 DEF CommitBusy, TypeOK
<1>6. CASE CommitHeader(c)
  <2> DEFINE t == [s EXCEPT !.pc = "stored"]
  <2>1. s.pc = "verified" /\ Edit(c, t)
    BY <1>6 DEF CommitHeader
  <2>2. t \in ClientState
    BY <1>f, <2>1 DEF ClientState
  <2> HIDE DEF t
  <2>3. client' \in [Clients -> ClientState]
    BY <1>0, <2>1, <2>2, EditStep
  <2>4. s.epoch \in Epochs /\ s.tip \in Chain /\ Len(s.tip) \in Sizes
    BY <1>f, <2>1, ChainIsSeq
  <2>5. header' \in Header
    BY <1>0, <1>6, <2>4 DEF CommitHeader, Header, Seal
  <2>6. writer' \in Actors \cup {None}
    BY <1>0, <1>6 DEF CommitHeader
  <2> QED BY <1>6, <2>3, <2>5, <2>6 DEF CommitHeader, TypeOK
<1>7. CASE CommitBlob(c)
  <2>1. client' \in [Clients -> ClientState]
    BY <1>0, <1>7, IdleType, EditStep DEF CommitBlob
  <2>2. s.epoch \in Epochs /\ s.tip \in Chain /\ Len(s.tip) \in Sizes
        /\ s.file \in File
    BY <1>7, <1>f, ChainIsSeq DEF CommitBlob
  <2>3. sent' \in SUBSET Update
    BY <1>7, <2>2, SMT DEF CommitBlob, TypeOK, Update
  <2>4. blob' \in File
    BY <1>7, <2>2 DEF CommitBlob
  <2> QED BY <1>0, <1>7, <2>1, <2>3, <2>4 DEF CommitBlob, TypeOK
<1> QED BY <1>1, <1>2, <1>3, <1>4, <1>5, <1>6, <1>7 DEF RpcStep


\* A restart keeps the types.
LEMMA RestartType ==
  ASSUME TypeOK, Restart, blob' \in File
  PROVE  TypeOK'
<1>1. /\ worker' \in [Workers -> WorkerState]
      /\ client' \in [Clients -> ClientState]
  BY IdleType DEF Restart
<1>2. readers' \in 0..MaxReaders
  BY BoundsAreNats, SMT DEF Restart
<1> QED BY <1>1, <1>2 DEF Restart, TypeOK

\* Every step keeps the types.
LEMMA NextType ==
  ASSUME TypeOK, [Next]_vars
  PROVE  TypeOK'
<1>1. ASSUME NEW s \in seals, Admit(s)
      PROVE  TypeOK'
  <2>1. s.epoch \in Epochs /\ s.chain \in Chain
    BY DEF TypeOK, Seal
  <2>2. Len(s.chain) \in Sizes
    BY <2>1, ChainIsSeq
  <2>3. admitted' \in SUBSET Item
    BY <1>1, <2>1, <2>2, SMT DEF Admit, TypeOK, Item
  <2> QED BY <1>1, <2>3 DEF Admit, TypeOK
<1>2. ASSUME NEW w \in Workers, NEW it \in Item, StartUpdate(w, it)
      PROVE  TypeOK'
  <2> DEFINE t == [pc |-> "read", item |-> it, hd |-> header]
  <2>1. Become(w, t) /\ worker \in [Workers -> WorkerState]
    BY <1>2 DEF StartUpdate, TypeOK
  <2>2. t \in WorkerState
    BY DEF WorkerState, TypeOK
  <2> HIDE DEF t
  <2>3. worker' \in [Workers -> WorkerState]
    BY <2>1, <2>2, BecomeStep
  <2> QED BY <1>2, <2>3 DEF StartUpdate, TypeOK
<1>3. ASSUME NEW s \in seals, NEW t \in seals, StoreProof(s, t)
      PROVE  TypeOK'
  <2>1. proof' \in Proof
    BY <1>3, ReceivedType DEF StoreProof, TypeOK
  <2> QED BY <1>3, <2>1 DEF StoreProof, TypeOK
<1>4. CASE BanProven
  BY <1>4 DEF BanProven, TypeOK
<1>5. CASE RLock
  BY <1>5, BoundsAreNats, SMTT(60) DEF RLock, TypeOK
<1>6. CASE RUnlock
  BY <1>6, BoundsAreNats, SMT DEF RUnlock, TypeOK
<1>7. CASE Tick
  BY <1>7, BoundsAreNats, SMT DEF Tick, TypeOK, Times
<1>8. CASE UNCHANGED vars
  BY <1>8 DEF vars, TypeOK
<1>9. ASSUME NEW w \in Workers, Timeout(w)
      PROVE  TypeOK'
  BY <1>9, RestartType DEF Timeout, TypeOK
<1>10. CASE Crash
  BY <1>10, RestartType DEF Crash, Torn
<1> QED BY <1>1, <1>2, <1>3, <1>4, <1>5, <1>6, <1>7, <1>8, <1>9, <1>10,
           UpdateType, SyncType, LateType, RpcType DEF Next

----------------------------------------------------------------------------
(* The inductive invariant *)

IInv ==
  /\ TypeOK
  /\ LockOK
  /\ SignedOK
  /\ ~CanCrash => BlobOK

LEMMA InitIInv ==
  ASSUME Init
  PROVE  IInv
<1>1. TypeOK
  <2>1. 0 \in Times /\ 0 \in 0..MaxReaders
    BY BoundsAreNats, SMT DEF Times
  <2>2. /\ worker \in [Workers -> WorkerState]
        /\ client \in [Clients -> ClientState]
    BY IdleType DEF Init
  <2> QED BY <2>1, <2>2, ZeroFileType, SealsAreTyped DEF Init, TypeOK
<1>2. LockOK
  BY ActorsDistinct DEF Init, LockOK, Idle
<1>3. SignedOK
  BY DEF Init, SignedOK, HeaderSigned, Idle
<1>4. BlobOK
  BY DEF Init, BlobOK, Idle
<1> QED BY <1>1, <1>2, <1>3, <1>4 DEF IInv

\* A step that leaves the header, the blob, the lock, the seals and what the
\* workers and the clients do alone keeps the invariant.
LEMMA OtherStepIInv ==
  ASSUME IInv, TypeOK', UNCHANGED <<header, blob, writer, worker, client, seals>>
  PROVE  IInv'
BY DEF IInv, LockOK, SignedOK, HeaderSigned, BlobOK, Settled

\* A restart keeps it, unless it may happen between storing a header and
\* committing its blob.
LEMMA RestartIInv ==
  ASSUME IInv, TypeOK', Restart, CanCrash \/ (Settled /\ UNCHANGED blob)
  PROVE  IInv'
<1>1. /\ worker' = [w \in Workers |-> Idle]
      /\ client' = [c \in Clients |-> Idle]
      /\ writer' = None
      /\ UNCHANGED <<header, seals>>
  BY DEF Restart
<1>2. LockOK'
  BY <1>1, ActorsDistinct DEF LockOK, Idle
<1>3. SignedOK'
  BY <1>1 DEF IInv, SignedOK, HeaderSigned, Idle
<1>4. ~CanCrash => BlobOK'
  BY <1>1 DEF IInv, BlobOK, Idle
<1> QED BY <1>2, <1>3, <1>4 DEF IInv

\* Steps of a worker that change neither the header nor the blob nor the lock.
LEMMA WorkerOutsideIInv ==
  ASSUME IInv, TypeOK', NEW w \in Workers, NEW s \in WorkerState, Become(w, s),
         worker[w].pc # "stored",
         s.pc # "stored", s.pc = "synced" => s.su \in seals,
         s.pc \in {"syncing", "banned", "synced", "stored"} <=> writer' = w,
         \A v \in Workers : v # w => (writer = v <=> writer' = v),
         \A c \in Clients : writer = c <=> writer' = c,
         UNCHANGED <<header, blob, client, seals>>
  PROVE  IInv'
<1>1. /\ worker'[w] = s
      /\ \A v \in Workers : v # w => worker'[v] = worker[v]
  BY BecomeStep DEF IInv, TypeOK
<1>2. LockOK'
  BY <1>1 DEF IInv, LockOK
<1>3. SignedOK'
  BY <1>1 DEF IInv, SignedOK, HeaderSigned
<1>4. ~CanCrash => BlobOK'
  <2>1. Settled' => Settled
    BY <1>1, SMT DEF Settled
  <2> QED BY <1>1, <2>1, SMT DEF IInv, BlobOK
<1> QED BY <1>2, <1>3, <1>4 DEF IInv

\* Steps of a client outside the lock.
LEMMA ClientOutsideIInv ==
  ASSUME IInv, TypeOK', NEW c \in Clients, NEW s \in ClientState, Edit(c, s),
         client[c].pc # "stored", s.pc # "stored",
         s.pc = "verified" =>
           /\ [epoch |-> s.epoch, chain |-> s.tip] \in seals'
           /\ SerialHash(s.file, Len(s.tip)) = s.tip,
         seals \subseteq seals',
         UNCHANGED <<header, blob, writer, worker>>
  PROVE  IInv'
<1>1. /\ client'[c] = s
      /\ \A d \in Clients : d # c => client'[d] = client[d]
  BY EditStep DEF IInv, TypeOK
<1>2. LockOK'
  BY <1>1 DEF IInv, LockOK
<1>3. SignedOK'
  BY <1>1 DEF IInv, SignedOK, HeaderSigned
<1>4. ~CanCrash => BlobOK'
  <2>1. Settled' => Settled
    BY <1>1 DEF Settled
  <2> QED BY <1>1, <2>1 DEF IInv, BlobOK
<1> QED BY <1>2, <1>3, <1>4 DEF IInv


\* UpdateBlob stores the header it has verified, holding the lock.
LEMMA StoreHeaderIInv ==
  ASSUME IInv, TypeOK', NEW w \in Workers, StoreHeader(w)
  PROVE  IInv'
<1> DEFINE s == worker[w]
<1> DEFINE t == [pc |-> "stored", item |-> s.item, file |-> s.file]
<1>0. s \in WorkerState /\ worker \in [Workers -> WorkerState]
  BY DEF IInv, TypeOK
<1>1. /\ s.pc = "synced" /\ Become(w, t) /\ header' = NewHeader(s)
      /\ SerialHash(s.file, s.item.size) = s.su.chain
      /\ UNCHANGED <<blob, writer, client, seals>>
  BY DEF StoreHeader
<1>2. s.item \in Item /\ s.file \in File /\ s.su \in seals
  BY <1>0, <1>1, WorkerFields DEF IInv, SignedOK
<1>3. t \in WorkerState
  BY <1>2 DEF WorkerState
<1>4. t.pc = "stored" /\ t.file = s.file
  OBVIOUS
<1> HIDE DEF t
<1>5. /\ worker'[w] = t
      /\ \A v \in Workers : v # w => worker'[v] = worker[v]
  BY <1>0, <1>1, <1>3, BecomeStep
<1>6. /\ header'.sig = s.su
      /\ header'.tip = SerialHash(s.file, s.item.size)
      /\ header'.size = s.item.size
  BY <1>1 DEF NewHeader
<1>7. s.item.size \in Sizes
  BY <1>2 DEF Item
<1>8. Len(header'.tip) = header'.size
  BY <1>2, <1>6, <1>7, FileHash
<1>9. writer = w
  BY <1>1 DEF IInv, LockOK
<1>10. LockOK'
  BY <1>1, <1>4, <1>5, <1>9 DEF IInv, LockOK
<1>11. SignedOK'
  BY <1>1, <1>2, <1>4, <1>5, <1>6, <1>8 DEF IInv, SignedOK, HeaderSigned
<1>12. ~CanCrash => BlobOK'
  <2>1. ~Settled'
    BY <1>4, <1>5 DEF Settled
  <2>2. SerialHash(worker'[w].file, header'.size) = header'.tip
    BY <1>4, <1>5, <1>6
  <2>3. /\ \A v \in Workers : v # w => worker'[v].pc # "stored"
        /\ \A c \in Clients : client'[c].pc # "stored"
    BY <1>1, <1>5, <1>9, ActorsDistinct DEF IInv, LockOK
  <2> QED BY <1>1, <2>1, <2>2, <2>3 DEF IInv, BlobOK
<1> QED BY <1>10, <1>11, <1>12 DEF IInv

\* UpdateBlob commits the transaction and releases the lock.
LEMMA CommitTxIInv ==
  ASSUME IInv, TypeOK', NEW w \in Workers, CommitTx(w)
  PROVE  IInv'
<1> DEFINE s == worker[w]
<1> DEFINE t == [pc |-> "updated", item |-> worker[w].item]
<1>0. s \in WorkerState /\ worker \in [Workers -> WorkerState]
  BY DEF IInv, TypeOK
<1>1. /\ s.pc = "stored" /\ Become(w, t) /\ blob' = s.file /\ writer' = None
      /\ UNCHANGED <<header, client, seals>>
  BY DEF CommitTx, Succeed
<1>2. t \in WorkerState
  BY <1>0, <1>1, WorkerFields DEF WorkerState
<1>3. t.pc = "updated"
  OBVIOUS
<1> HIDE DEF t
<1>4. /\ worker'[w] = t
      /\ \A v \in Workers : v # w => worker'[v] = worker[v]
  BY <1>0, <1>1, <1>2, BecomeStep
<1>5. writer = w
  BY <1>1 DEF IInv, LockOK
<1>6. LockOK'
  BY <1>1, <1>3, <1>4, <1>5, ActorsDistinct DEF IInv, LockOK
<1>7. SignedOK'
  BY <1>1, <1>3, <1>4 DEF IInv, SignedOK, HeaderSigned
<1>8. ~CanCrash => BlobOK'
  <2>1. /\ \A v \in Workers : worker'[v].pc # "stored"
        /\ \A c \in Clients : client'[c].pc # "stored"
    BY <1>1, <1>3, <1>4, <1>5, ActorsDistinct DEF IInv, LockOK
  <2> QED BY <1>1, <2>1 DEF IInv, BlobOK
<1> QED BY <1>6, <1>7, <1>8 DEF IInv

\* Commit takes the lock and stores the header it has verified.
LEMMA CommitHeaderIInv ==
  ASSUME IInv, TypeOK', NEW c \in Clients, CommitHeader(c)
  PROVE  IInv'
<1> DEFINE s == client[c]
<1> DEFINE t == [s EXCEPT !.pc = "stored"]
<1>0. s \in ClientState /\ client \in [Clients -> ClientState]
  BY DEF IInv, TypeOK
<1>1. /\ s.pc = "verified" /\ Edit(c, t) /\ writer = None /\ writer' = c
      /\ header'.sig = [epoch |-> s.epoch, chain |-> s.tip]
      /\ header'.tip = s.tip /\ header'.size = Len(s.tip)
      /\ UNCHANGED <<blob, worker, seals>>
  BY DEF CommitHeader, LockFree
<1>2. s \in [pc : {"verified", "stored"}, epoch : Epochs, tip : Chain, file : File]
  BY <1>0, <1>1, ClientFields
<1>3. /\ t \in ClientState /\ t.pc = "stored"
      /\ t.file = s.file /\ t.epoch = s.epoch /\ t.tip = s.tip
  BY <1>2 DEF ClientState
<1> HIDE DEF t
<1>4. /\ client'[c] = t
      /\ \A d \in Clients : d # c => client'[d] = client[d]
  BY <1>0, <1>1, <1>3, EditStep
<1>5. LockOK'
  BY <1>1, <1>3, <1>4, ActorsDistinct DEF IInv, LockOK
<1>6. SignedOK'
  <2>1. [epoch |-> s.epoch, chain |-> s.tip] \in seals
    BY <1>1 DEF IInv, SignedOK
  <2> QED BY <1>1, <1>3, <1>4, <2>1, SMT DEF IInv, SignedOK, HeaderSigned
<1>7. ~CanCrash => BlobOK'
  <2>1. ~Settled'
    BY <1>3, <1>4 DEF Settled
  <2>2. /\ \A w \in Workers : worker'[w].pc # "stored"
        /\ \A d \in Clients : d # c => client'[d].pc # "stored"
    BY <1>1, <1>4, ActorsDistinct DEF IInv, LockOK
  <2> QED BY <1>1, <1>3, <1>4, <2>1, <2>2, ZenonT(60) DEF IInv, BlobOK
<1> QED BY <1>5, <1>6, <1>7 DEF IInv

\* Commit commits the transaction and releases the lock.
LEMMA CommitBlobIInv ==
  ASSUME IInv, TypeOK', NEW c \in Clients, CommitBlob(c)
  PROVE  IInv'
<1> DEFINE s == client[c]
<1>1. /\ s.pc = "stored" /\ Edit(c, Idle) /\ blob' = s.file /\ writer' = None
      /\ UNCHANGED <<header, worker, seals>>
  BY DEF CommitBlob
<1>2. /\ client'[c].pc = "idle"
      /\ \A d \in Clients : d # c => client'[d] = client[d]
  BY <1>1, IdleType, EditStep, SMT DEF IInv, TypeOK, Idle
<1>3. writer = c
  BY <1>1 DEF IInv, LockOK
<1>4. LockOK'
  BY <1>1, <1>2, <1>3, ActorsDistinct DEF IInv, LockOK
<1>5. SignedOK'
  BY <1>1, <1>2 DEF IInv, SignedOK, HeaderSigned
<1>6. ~CanCrash => BlobOK'
  <2>1. /\ \A w \in Workers : worker'[w].pc # "stored"
        /\ \A d \in Clients : client'[d].pc # "stored"
    BY <1>1, <1>2, <1>3, ActorsDistinct DEF IInv, LockOK
  <2> QED BY <1>1, <1>2, <2>1 DEF IInv, BlobOK
<1> QED BY <1>4, <1>5, <1>6 DEF IInv


\* A worker that fails or is done releases the lock, if it holds it, and no
\* other actor's.
LEMMA ReleaseIInv ==
  ASSUME IInv, TypeOK', NEW w \in Workers, NEW s \in WorkerState, Become(w, s),
         worker[w].pc \in {"syncing", "banned", "synced"},
         s.pc \in {"idle", "updated"}, writer' = None,
         UNCHANGED <<header, blob, client, seals>>
  PROVE  IInv'
<1>1. writer = w
  BY DEF IInv, LockOK
<1>2. /\ \A v \in Workers : v # w => (writer = v <=> writer' = v)
      /\ \A c \in Clients : writer = c <=> writer' = c
      /\ writer' # w
  BY <1>1, ActorsDistinct
<1>3. /\ worker[w].pc # "stored" /\ s.pc # "stored"
      /\ s.pc = "synced" => s.su \in seals
      /\ s.pc \in {"syncing", "banned", "synced", "stored"} <=> writer' = w
  BY <1>2
<1> QED BY <1>2, <1>3, WorkerOutsideIInv

\* A worker that goes on without touching the lock.
LEMMA ProceedIInv ==
  ASSUME IInv, TypeOK', NEW w \in Workers, NEW s \in WorkerState, Become(w, s),
         worker[w].pc # "stored", s.pc # "stored",
         s.pc = "synced" => s.su \in seals,
         worker[w].pc \in {"syncing", "banned", "synced"}
           <=> s.pc \in {"syncing", "banned", "synced"},
         UNCHANGED <<header, blob, writer, client, seals>>
  PROVE  IInv'
<1>1. s.pc \in {"syncing", "banned", "synced", "stored"} <=> writer' = w
  BY DEF IInv, LockOK
<1> QED BY <1>1, WorkerOutsideIInv

\* UpdateBlob keeps the invariant.
LEMMA UpdateIInv ==
  ASSUME IInv, TypeOK', NEW w \in Workers, UpdateStep(w)
  PROVE  IInv'
<1> DEFINE s == worker[w]
<1>0. s \in WorkerState /\ Idle.pc = "idle" /\ Idle \in WorkerState
  BY IdleType DEF IInv, TypeOK, Idle
<1>f. /\ s.pc # "idle" => s.item \in Item
      /\ s.pc = "checked" => s.opts \in Opts
  BY <1>0, WorkerFields
<1> DEFINE u == [pc |-> "updated", item |-> worker[w].item]
<1>u. u.pc = "updated" /\ (s.pc # "idle" => u \in WorkerState)
  BY <1>f DEF WorkerState
<1>1. CASE CheckEpoch(w)
  <2> DEFINE t == IF RollsOver(s) /\ RolloverRefused(s) THEN Idle
                  ELSE [pc |-> "checked", item |-> s.item, opts |-> SyncOpts(s)]
  <2>1. s.pc = "read" /\ Become(w, t)
    BY <1>1 DEF CheckEpoch
  <2>2. SyncOpts(s) \in Opts
    BY <1>0, <2>1, OptsType
  <2>3. [pc |-> "checked", item |-> s.item, opts |-> SyncOpts(s)] \in WorkerState
    BY <1>f, <2>1, <2>2 DEF WorkerState
  <2>4. t \in WorkerState /\ t.pc \in {"idle", "checked"}
    BY <1>0, <2>3
  <2>5. UNCHANGED <<header, blob, writer, client, seals>>
    BY <1>1 DEF CheckEpoch
  <2> HIDE DEF t
  <2> QED BY <2>1, <2>4, <2>5, ProceedIInv
<1>2. CASE LockName(w)
  <2> DEFINE t == [pc |-> "syncing", item |-> s.item, opts |-> s.opts,
                   file |-> IF s.opts.epochUpdated THEN ZeroFile ELSE blob]
  <2>1. /\ s.pc = "checked"
        /\ \/ Become(w, Idle) /\ writer' = writer
           \/ Become(w, t) /\ writer' = w /\ writer = None
        /\ UNCHANGED <<header, blob, client, seals>>
    BY <1>2 DEF LockName, LockFree
  <2>2. t \in WorkerState
    BY <1>f, <2>1, ZeroFileType DEF WorkerState, IInv, TypeOK
  <2>3. t.pc = "syncing"
    OBVIOUS
  <2> HIDE DEF t
  <2>4. CASE Become(w, Idle) /\ writer' = writer
    BY <1>0, <2>1, <2>4, ProceedIInv
  <2>5. CASE Become(w, t) /\ writer' = w /\ writer = None
    <3>1. /\ \A v \in Workers : v # w => (writer = v <=> writer' = v)
          /\ \A c \in Clients : writer = c <=> writer' = c
      BY <2>5, ActorsDistinct
    <3> QED BY <2>1, <2>2, <2>3, <2>5, <3>1, WorkerOutsideIInv
  <2> QED BY <2>1, <2>4, <2>5
<1> HIDE DEF u
<1>4. CASE TipMismatch(w)
  <2>1. /\ s.pc = "synced" /\ Become(w, u) /\ writer' = None
        /\ UNCHANGED <<header, blob, client, seals>>
    BY <1>4 DEF TipMismatch, Succeed, u
  <2> QED BY <1>u, <2>1, ReleaseIInv
<1>6. CASE EmitProcessed(w)
  <2>1. /\ s.pc = "updated" /\ Become(w, Idle)
        /\ UNCHANGED <<header, blob, writer, client, seals>>
    BY <1>6 DEF EmitProcessed
  <2> QED BY <1>0, <2>1, ProceedIInv
<1> QED BY <1>1, <1>2, <1>4, <1>6, StoreHeaderIInv, CommitTxIInv DEF UpdateStep

\* SyncSectors keeps it.
LEMMA SyncIInv ==
  ASSUME IInv, TypeOK', NEW w \in Workers, SyncStep(w)
  PROVE  IInv'
<1> DEFINE p == worker[w]
<1>0. p \in WorkerState /\ Idle.pc = "idle" /\ Idle \in WorkerState
  BY IdleType DEF IInv, TypeOK, Idle
<1>f. /\ p.pc = "syncing" => p.item \in Item /\ p.opts \in Opts /\ p.file \in File
  BY <1>0, WorkerFields
<1>1. CASE InvalidSignature(w)
  <2>1. /\ p.pc = "syncing" /\ Become(w, Idle) /\ writer' = None
        /\ UNCHANGED <<header, blob, client, seals>>
    BY <1>1 DEF InvalidSignature, Fail
  <2> QED BY <1>0, <2>1, ReleaseIInv
<1>2. CASE RecordProof(w)
  <2>1. /\ p.pc = "banned" /\ Become(w, Idle) /\ writer' = None
        /\ UNCHANGED <<header, blob, client, seals>>
    BY <1>2 DEF RecordProof, Fail
  <2> QED BY <1>0, <2>1, ReleaseIInv
<1>3. ASSUME NEW s \in seals, Accept(w, s)
      PROVE  IInv'
  <2> DEFINE t == [pc |-> "synced", item |-> p.item, opts |-> p.opts,
                   file |-> WriteSectors(p.file, p.opts.size, s.chain), su |-> s]
  <2>1. /\ p.pc = "syncing" /\ Become(w, t)
        /\ UNCHANGED <<header, blob, writer, client, seals>>
    BY <1>3 DEF Accept
  <2>2. s \in Seal /\ s.chain \in Chain /\ p.opts.size \in Sizes
    BY <1>f, <2>1 DEF IInv, TypeOK, Seal, Opts
  <2>3. WriteSectors(p.file, p.opts.size, s.chain) \in File
    BY <1>f, <2>1, <2>2, WriteIsFile
  <2>4. t \in WorkerState
    BY <1>f, <2>1, <2>2, <2>3 DEF WorkerState
  <2>5. t.pc = "synced" /\ t.su = s
    OBVIOUS
  <2> HIDE DEF t
  <2> QED BY <2>1, <2>4, <2>5, ProceedIInv
<1>4. ASSUME NEW s \in seals, Mismatch(w, s)
      PROVE  IInv'
  <2>1. /\ p.pc = "syncing" /\ Become(w, Idle) /\ writer' = None
        /\ UNCHANGED <<header, blob, client, seals>>
    BY <1>4 DEF Mismatch, Fail
  <2> QED BY <1>0, <2>1, ReleaseIInv
<1>5. ASSUME NEW s \in seals, BanHeader(w, s)
      PROVE  IInv'
  <2> DEFINE t == [pc |-> "banned", item |-> p.item, opts |-> p.opts,
                   proof |-> ProofOf(s, p.opts)]
  <2>1. /\ p.pc = "syncing" /\ Become(w, t) /\ Records(s, p.opts)
        /\ UNCHANGED <<header, blob, writer, client, seals>>
    BY <1>5 DEF BanHeader
  <2>2. s \in Seal /\ header \in Header \cup {None}
    BY DEF IInv, TypeOK
  <2>3. ProofOf(s, p.opts) \in Proof
    BY <1>f, <2>1, <2>2, ProofType
  <2>4. t \in WorkerState
    BY <1>f, <2>1, <2>3 DEF WorkerState
  <2>5. t.pc = "banned"
    OBVIOUS
  <2> HIDE DEF t
  <2> QED BY <2>1, <2>4, <2>5, ProceedIInv
<1> QED BY <1>1, <1>2, <1>3, <1>4, <1>5 DEF SyncStep

\* The RPC calls keep it.
LEMMA RpcIInv ==
  ASSUME IInv, TypeOK', NEW c \in Clients, RpcStep(c)
  PROVE  IInv'
<1> DEFINE s == client[c]
<1>0. /\ s \in ClientState /\ client' \in [Clients -> ClientState]
      /\ client \in [Clients -> ClientState]
  BY DEF IInv, TypeOK
<1>w. client'[c] \in ClientState
  BY <1>0
<1>f. /\ s.pc = "open" => s \in [pc : {"open"}, epoch : Epochs, tip : Chain,
                                 file : File \cup {None}]
      /\ s.pc = "verified" => s \in [pc : {"verified", "stored"}, epoch : Epochs,
                                     tip : Chain, file : File]
  BY <1>0, ClientFields
<1>1. CASE Checkout(c)
  <2>1. /\ s.pc \in {"idle", "open"} /\ Edit(c, client'[c])
        /\ client'[c].pc = "open"
        /\ UNCHANGED <<header, blob, writer, worker, seals>>
    BY <1>0, <1>1 DEF Checkout, Edit
  <2> QED BY <1>w, <2>1, ClientOutsideIInv
<1>2. CASE CheckoutReset(c)
  <2>1. /\ s.pc \in {"idle", "open"} /\ Edit(c, client'[c])
        /\ client'[c].pc = "open"
        /\ UNCHANGED <<header, blob, writer, worker, seals>>
    BY <1>0, <1>2 DEF CheckoutReset, Edit
  <2> QED BY <1>w, <2>1, ClientOutsideIInv
<1>3. ASSUME NEW sector \in Sectors, WriteSector(c, sector)
      PROVE  IInv'
  <2>1. s.pc = "open" /\ UNCHANGED <<header, blob, writer, worker, seals>>
    BY <1>3 DEF WriteSector
  <2>2. Edit(c, client'[c]) /\ client'[c].pc = "open"
    BY <1>0, <1>3, <1>f DEF WriteSector, Edit
  <2> QED BY <1>w, <2>1, <2>2, ClientOutsideIInv
<1>4. CASE VerifyCommit(c)
  <2>1. /\ s.pc = "open" /\ UNCHANGED <<header, blob, writer, worker>>
        /\ seals' = seals \cup {[epoch |-> s.epoch, chain |-> s.tip]}
    BY <1>4 DEF VerifyCommit
  <2> DEFINE f == Clone(s.file)
  <2>2. /\ SerialHash(f, Len(s.tip)) = s.tip
        /\ Edit(c, [s EXCEPT !.pc = "verified", !.file = f])
    BY <1>4 DEF VerifyCommit
  <2> HIDE DEF f
  <2> DEFINE t == [s EXCEPT !.pc = "verified", !.file = f]
  <2>3. Edit(c, t)
    BY <2>2
  <2>4. t.pc = "verified" /\ t.file = f /\ t.epoch = s.epoch /\ t.tip = s.tip
    BY <1>f, <2>1
  <2>5. t = client'[c]
    BY <1>0, <2>3 DEF Edit
  <2> HIDE DEF t
  <2> QED BY <1>w, <2>1, <2>2, <2>3, <2>4, <2>5, ClientOutsideIInv
<1>5. CASE CommitBusy(c)
  <2>1. s.pc = "verified" /\ UNCHANGED <<header, blob, writer, worker, seals>>
    BY <1>5 DEF CommitBusy
  <2>2. Edit(c, client'[c]) /\ client'[c].pc = "open"
    BY <1>0, <1>5, <1>f DEF CommitBusy, Edit
  <2> QED BY <1>w, <2>1, <2>2, ClientOutsideIInv
<1> QED BY <1>1, <1>2, <1>3, <1>4, <1>5, CommitHeaderIInv, CommitBlobIInv
        DEF RpcStep


\* Every step keeps the invariant.
LEMMA NextIInv ==
  ASSUME IInv, [Next]_vars
  PROVE  IInv'
<1>0. TypeOK'
  BY NextType DEF IInv
<1>1. ASSUME NEW s \in seals, Admit(s)
      PROVE  IInv'
  BY <1>0, <1>1, OtherStepIInv DEF Admit
<1>2. ASSUME NEW w \in Workers, NEW it \in Item, StartUpdate(w, it)
      PROVE  IInv'
  <2> DEFINE t == [pc |-> "read", item |-> it, hd |-> header]
  <2>1. /\ worker[w].pc = "idle" /\ Become(w, t)
        /\ UNCHANGED <<header, blob, writer, client, seals>>
    BY <1>2 DEF StartUpdate
  <2>2. t \in WorkerState /\ t.pc = "read"
    BY DEF WorkerState, IInv, TypeOK
  <2> HIDE DEF t
  <2> QED BY <1>0, <2>1, <2>2, ProceedIInv
<1>3. ASSUME NEW s \in seals, NEW t \in seals, StoreProof(s, t)
      PROVE  IInv'
  BY <1>0, <1>3, OtherStepIInv DEF StoreProof
<1>4. CASE BanProven
  BY <1>0, <1>4, OtherStepIInv DEF BanProven
<1>5. CASE RLock
  BY <1>0, <1>5, OtherStepIInv DEF RLock
<1>6. CASE RUnlock
  BY <1>0, <1>6, OtherStepIInv DEF RUnlock
<1>7. CASE Tick
  BY <1>0, <1>7, OtherStepIInv DEF Tick
<1>8. CASE UNCHANGED vars
  BY <1>0, <1>8, OtherStepIInv DEF vars
<1>9. ASSUME NEW w \in Workers, Timeout(w)
      PROVE  IInv'
  <2>1. writer = w /\ worker[w].pc # "stored"
    BY <1>9 DEF Timeout, IInv, LockOK
  <2>2. Settled
    BY <2>1, ActorsDistinct DEF IInv, LockOK, Settled
  <2> QED BY <1>0, <1>9, <2>2, RestartIInv DEF Timeout
<1>10. CASE Crash
  BY <1>0, <1>10, RestartIInv DEF Crash
<1>11. ASSUME NEW l \in late, LateStep(l)
       PROVE  IInv'
  <2>1. UNCHANGED <<header, blob, writer, worker, client, seals>>
    BY <1>11 DEF LateStep, LateBan, LateProof, LateDone
  <2> QED BY <1>0, <2>1, OtherStepIInv
<1> QED BY <1>0, <1>1, <1>2, <1>3, <1>4, <1>5, <1>6, <1>7, <1>8, <1>9, <1>10,
           <1>11, UpdateIInv, SyncIInv, RpcIInv DEF Next

\* The invariant holds in every state of a node.
THEOREM Invariance == Spec => []IInv
BY InitIInv, NextIInv, PTL DEF Spec

\* Everything a node stores and sends has its type.
THEOREM TypeCorrect == Spec => []TypeOK
<1>1. IInv => TypeOK
  BY DEF IInv
<1> QED BY <1>1, Invariance, PTL

\* Whatever workers and clients do, and whenever the process is killed, the
\* stored header carries the publisher's signature of its tip and size.
THEOREM SignedHeader == Spec => []HeaderSigned
<1>1. IInv => HeaderSigned
  BY DEF IInv, SignedOK
<1> QED BY <1>1, Invariance, PTL

\* If the process is not killed, whoever gets the lock finds in the blob what
\* the header says is there.
THEOREM BlobAgrees ==
  ASSUME ~CanCrash
  PROVE  Spec => []BlobMatchesHeader
<1>1. ASSUME IInv
      PROVE  BlobMatchesHeader
  <2>1. SUFFICES ASSUME writer = None, header # None
                 PROVE  SerialHash(blob, header.size) = header.tip
    BY DEF BlobMatchesHeader
  <2>2. Settled
    BY <1>1, <2>1, ActorsDistinct DEF IInv, LockOK, Settled
  <2> QED BY <1>1, <2>1, <2>2 DEF IInv, BlobOK
<1> QED BY <1>1, Invariance, PTL

----------------------------------------------------------------------------
(* The refinement of NameStore *)

\* Steps that leave what NameStore sees alone.
LEMMA StutterStep ==
  ASSUME UNCHANGED <<header, blob, writer, seals>>
  PROVE  UNCHANGED Store!vars
BY DEF Store!vars

\* Whoever releases the lock leaves the content of the header in the blob.
LEMMA UnlockStep ==
  ASSUME writer # None, writer' = None, UNCHANGED <<header, seals>>,
         header # None => SerialHash(blob', header.size) = header.tip
  PROVE  Store!Unlock
BY DEF Store!Unlock

\* A holder of the lock that has not stored a header has not touched the blob.
LEMMA ReleaseStep ==
  ASSUME IInv, ~CanCrash, NEW w \in Workers,
         worker[w].pc \in {"syncing", "banned", "synced"},
         writer' = None, UNCHANGED <<header, blob, seals>>
  PROVE  Store!Unlock
<1>1. writer = w
  BY DEF IInv, LockOK
<1>2. Settled
  BY <1>1, ActorsDistinct DEF IInv, LockOK, Settled
<1>3. header # None => SerialHash(blob', header.size) = header.tip
  BY <1>2 DEF IInv, BlobOK
<1> QED BY <1>1, <1>3, ActorsDistinct, UnlockStep

\* UpdateBlob takes the lock, replaces the content and releases the lock.
LEMMA UpdateRefines ==
  ASSUME IInv, TypeOK', ~CanCrash, NEW w \in Workers, UpdateStep(w)
  PROVE  [Store!Next]_(Store!vars)
<1>1. CASE CheckEpoch(w)
  BY <1>1, StutterStep DEF CheckEpoch
<1>2. CASE LockName(w)
  <2>1. CASE writer' = writer
    BY <1>2, <2>1, StutterStep DEF LockName
  <2>2. CASE writer' # writer
    <3>1. writer = None /\ writer' = w /\ UNCHANGED <<header, blob, seals>>
      BY <1>2, <2>2 DEF LockName, LockFree
    <3>2. Store!Lock
      BY <3>1, ActorsDistinct DEF Store!Lock
    <3> QED BY <3>2 DEF Store!Next
  <2> QED BY <2>1, <2>2
<1>3. CASE StoreHeader(w)
  <2>1. /\ worker[w].pc = "synced" /\ header' = NewHeader(worker[w])
        /\ SerialHash(worker[w].file, worker[w].item.size) = worker[w].su.chain
        /\ UNCHANGED <<blob, writer, seals>>
    BY <1>3 DEF StoreHeader
  <2>2. writer = w /\ writer # None /\ worker[w].su \in seals
    BY <2>1, ActorsDistinct DEF IInv, LockOK, SignedOK
  <2>3. header'.tip = worker[w].su.chain
    BY <2>1 DEF NewHeader
  <2>4. header' # None
    <3>1. worker[w] \in WorkerState
      BY DEF IInv, TypeOK
    <3>2. /\ worker[w].item \in Item /\ worker[w].file \in File
          /\ worker[w].su \in Seal /\ now \in Times
      BY <2>1, <3>1, WorkerFields DEF IInv, TypeOK
    <3>3. SerialHash(worker[w].file, worker[w].item.size) \in Chain
      BY <3>2, FileHash DEF Item
    <3>4. header' \in Header
      BY <2>1, <3>2, <3>3 DEF NewHeader, Header, Item
    <3> QED BY <3>4, NoneIsNothing
  <2>5. Store!Replace
    BY <2>1, <2>2, <2>3, <2>4 DEF Store!Replace
  <2> QED BY <2>5 DEF Store!Next
<1>4. CASE TipMismatch(w)
  <2>1. /\ worker[w].pc = "synced" /\ writer' = None
        /\ UNCHANGED <<header, blob, seals>>
    BY <1>4 DEF TipMismatch, Succeed
  <2> QED BY <2>1, ReleaseStep DEF Store!Next
<1>5. CASE CommitTx(w)
  <2>1. /\ worker[w].pc = "stored" /\ writer' = None
        /\ blob' = worker[w].file /\ UNCHANGED <<header, seals>>
    BY <1>5 DEF CommitTx, Succeed
  <2>2. /\ writer = w /\ writer # None
        /\ SerialHash(worker[w].file, header.size) = header.tip
    BY <2>1, ActorsDistinct DEF IInv, LockOK, BlobOK
  <2> QED BY <2>1, <2>2, UnlockStep DEF Store!Next
<1>6. CASE EmitProcessed(w)
  BY <1>6, StutterStep DEF EmitProcessed
<1> QED BY <1>1, <1>2, <1>3, <1>4, <1>5, <1>6 DEF UpdateStep

\* SyncSectors changes nothing a reader could see.
LEMMA SyncRefines ==
  ASSUME IInv, ~CanCrash, NEW w \in Workers, SyncStep(w) \/ Timeout(w)
  PROVE  [Store!Next]_(Store!vars)
<1>1. CASE InvalidSignature(w)
  BY <1>1, ReleaseStep DEF InvalidSignature, Fail, Store!Next
<1>2. CASE RecordProof(w)
  BY <1>2, ReleaseStep DEF RecordProof, Fail, Store!Next
<1>3. ASSUME NEW s \in seals, Accept(w, s) \/ BanHeader(w, s)
      PROVE  [Store!Next]_(Store!vars)
  <2>1. UNCHANGED <<header, blob, writer, seals>>
    BY <1>3 DEF Accept, BanHeader
  <2> QED BY <2>1, StutterStep
<1>4. ASSUME NEW s \in seals, Mismatch(w, s)
      PROVE  [Store!Next]_(Store!vars)
  BY <1>4, ReleaseStep DEF Mismatch, Fail, Store!Next
<1>5. CASE Timeout(w)
  BY <1>5, ReleaseStep DEF Timeout, Restart, Store!Next
<1> QED BY <1>1, <1>2, <1>3, <1>4, <1>5 DEF SyncStep

\* Commit signs, takes the lock with the new content, and releases it.
LEMMA RpcRefines ==
  ASSUME IInv, TypeOK', ~CanCrash, NEW c \in Clients, RpcStep(c)
  PROVE  [Store!Next]_(Store!vars)
<1>1. CASE Checkout(c)
  BY <1>1, StutterStep DEF Checkout
<1>2. CASE CheckoutReset(c)
  BY <1>2, StutterStep DEF CheckoutReset
<1>3. ASSUME NEW sector \in Sectors, WriteSector(c, sector)
      PROVE  [Store!Next]_(Store!vars)
  BY <1>3, StutterStep DEF WriteSector
<1>4. CASE VerifyCommit(c)
  <2>1. seals \subseteq seals' /\ UNCHANGED <<header, blob, writer>>
    BY <1>4 DEF VerifyCommit
  <2>2. Store!Sign
    BY <2>1 DEF Store!Sign
  <2> QED BY <2>2 DEF Store!Next
<1>5. CASE CommitBusy(c)
  BY <1>5, StutterStep DEF CommitBusy
<1>6. CASE CommitHeader(c)
  <2> DEFINE seal == [epoch |-> client[c].epoch, chain |-> client[c].tip]
  <2>1. /\ client[c].pc = "verified" /\ writer = None /\ writer' = c
        /\ header' = [epoch |-> client[c].epoch, size |-> Len(client[c].tip),
                      tip |-> client[c].tip, sig |-> seal, start |-> now]
        /\ UNCHANGED seals
    BY <1>6 DEF CommitHeader, LockFree
  <2>2. seal \in seals /\ seal.chain = client[c].tip
    BY <2>1 DEF IInv, SignedOK
  <2>3. header' # None
    <3>1. client[c] \in ClientState /\ now \in Times
      BY DEF IInv, TypeOK
    <3>2. client[c].epoch \in Epochs /\ client[c].tip \in Chain
      BY <2>1, <3>1, ClientFields
    <3>3. Len(client[c].tip) \in Sizes
      BY <3>2, ChainIsSeq
    <3>4. header' \in Header
      BY <2>1, <3>1, <3>2, <3>3 DEF Header, Seal
    <3> QED BY <3>4, NoneIsNothing
  <2>4. header'.tip = seal.chain
    BY <2>1
  <2> HIDE DEF seal
  <2>5. Store!Lock
    BY <2>1, <2>2, <2>3, <2>4, ActorsDistinct DEF Store!Lock
  <2> QED BY <2>5 DEF Store!Next
<1>7. CASE CommitBlob(c)
  <2>1. /\ client[c].pc = "stored" /\ writer' = None
        /\ blob' = client[c].file /\ UNCHANGED <<header, seals>>
    BY <1>7 DEF CommitBlob
  <2>2. /\ writer = c /\ writer # None
        /\ SerialHash(client[c].file, header.size) = header.tip
    BY <2>1, ActorsDistinct DEF IInv, LockOK, BlobOK
  <2> QED BY <2>1, <2>2, UnlockStep DEF Store!Next
<1> QED BY <1>1, <1>2, <1>3, <1>4, <1>5, <1>6, <1>7 DEF RpcStep

\* As long as the process is not killed, a node is a NameStore: its content is
\* always a chain the publisher signed, and readers see all of it or nothing.
THEOREM Refinement ==
  ASSUME ~CanCrash
  PROVE  Spec => ImplementsNameStore
<1>1. Init => Store!Init
  BY DEF Init, Store!Init
<1>2. ASSUME IInv, TypeOK', [Next]_vars
      PROVE  [Store!Next]_(Store!vars)
  <2>1. ASSUME NEW s \in seals, Admit(s)
        PROVE  [Store!Next]_(Store!vars)
    BY <2>1, StutterStep DEF Admit
  <2>2. ASSUME NEW w \in Workers, NEW it \in Item, StartUpdate(w, it)
        PROVE  [Store!Next]_(Store!vars)
    BY <2>2, StutterStep DEF StartUpdate
  <2>3. ASSUME NEW s \in seals, NEW t \in seals, StoreProof(s, t)
        PROVE  [Store!Next]_(Store!vars)
    BY <2>3, StutterStep DEF StoreProof
  <2>4. CASE BanProven \/ RLock \/ RUnlock \/ Tick \/ UNCHANGED vars
    BY <2>4, StutterStep DEF BanProven, RLock, RUnlock, Tick, vars
  <2>5. ASSUME NEW l \in late, LateStep(l)
        PROVE  [Store!Next]_(Store!vars)
    BY <2>5, StutterStep DEF LateStep, LateBan, LateProof, LateDone
  <2>6. ~Crash
    BY DEF Crash
  <2> QED BY <1>2, <2>1, <2>2, <2>3, <2>4, <2>5, <2>6, UpdateRefines,
             SyncRefines, RpcRefines DEF Next
<1> QED BY <1>1, <1>2, Invariance, TypeCorrect, PTL
        DEF Spec, ImplementsNameStore, Store!Spec


----------------------------------------------------------------------------
(* One writer *)

\* What a worker is busy with is ahead of the stored header.
PendingAhead ==
  \A w \in Workers :
    worker[w].pc \in {"read", "checked", "syncing", "banned", "synced"} =>
      Ahead(worker[w].item)

\* A step of one worker that keeps its item.
LEMMA ItemKept ==
  ASSUME TypeOK, PendingAhead, NEW w \in Workers, NEW s \in WorkerState,
         Become(w, s), UNCHANGED header,
         \/ s.pc \in {"idle", "stored", "updated"}
         \/ s.item = worker[w].item
            /\ worker[w].pc \in {"read", "checked", "syncing", "banned", "synced"}
         \/ Ahead(s.item)
  PROVE  PendingAhead'
<1>1. /\ worker'[w] = s
      /\ \A v \in Workers : v # w => worker'[v] = worker[v]
  BY BecomeStep DEF TypeOK
<1> QED BY <1>1 DEF PendingAhead, Ahead

\* With one worker and no RPC client, only that worker stores headers.
LEMMA PendingStep ==
  ASSUME TypeOK, TypeOK', PendingAhead, NEW w, Workers = {w}, Clients = {},
         [Next]_vars
  PROVE  /\ PendingAhead'
         /\ header' # header => StoreHeader(w)
<1>0. /\ worker \in [Workers -> WorkerState] /\ w \in Workers
      /\ worker' \in [Workers -> WorkerState]
      /\ worker[w] \in WorkerState /\ worker'[w] \in WorkerState
  BY DEF TypeOK
<1>p. Idle.pc = "idle"
  BY DEF Idle
<1>1. CASE UNCHANGED <<header, worker>>
  BY <1>1 DEF PendingAhead, Ahead
<1>2. ASSUME NEW it \in Item, StartUpdate(w, it)
      PROVE  PendingAhead' /\ header' = header
  <2>1. /\ header' = header /\ Ahead(it) /\ Become(w, worker'[w])
        /\ worker'[w].item = it
    BY <1>0, <1>2 DEF StartUpdate, Become
  <2> QED BY <1>0, <2>1, ItemKept
<1>3. CASE CheckEpoch(w)
  <2>1. /\ header' = header /\ Become(w, worker'[w]) /\ worker[w].pc = "read"
        /\ worker'[w].pc = "idle" \/ worker'[w].item = worker[w].item
    BY <1>0, <1>3, <1>p DEF CheckEpoch, Become
  <2> QED BY <1>0, <2>1, ItemKept
<1>4. CASE LockName(w)
  <2>1. /\ header' = header /\ Become(w, worker'[w]) /\ worker[w].pc = "checked"
        /\ worker'[w].pc = "idle" \/ worker'[w].item = worker[w].item
    BY <1>0, <1>4, <1>p, SMT DEF LockName, Become
  <2> QED BY <1>0, <2>1, ItemKept
<1>5. CASE StoreHeader(w)
  <2>1. worker'[w].pc = "stored"
    BY <1>0, <1>5 DEF StoreHeader, Become
  <2> QED BY <1>5, <2>1 DEF PendingAhead
<1>6. CASE TipMismatch(w) \/ CommitTx(w)
  <2>1. header' = header /\ Become(w, worker'[w]) /\ worker'[w].pc = "updated"
    BY <1>0, <1>6, SMT DEF TipMismatch, CommitTx, Succeed, Become
  <2> QED BY <1>0, <2>1, ItemKept
<1>7. CASE EmitProcessed(w) \/ InvalidSignature(w) \/ RecordProof(w)
  <2>1. header' = header /\ Become(w, worker'[w]) /\ worker'[w].pc = "idle"
    BY <1>0, <1>7, <1>p
    DEF EmitProcessed, InvalidSignature, RecordProof, Fail, Become
  <2> QED BY <1>0, <2>1, ItemKept
<1>8. ASSUME NEW s \in seals, Accept(w, s) \/ BanHeader(w, s)
      PROVE  PendingAhead' /\ header' = header
  <2>1. /\ header' = header /\ Become(w, worker'[w]) /\ worker[w].pc = "syncing"
        /\ worker'[w].item = worker[w].item
    BY <1>0, <1>8, SMT DEF Accept, BanHeader, Become
  <2> QED BY <1>0, <2>1, ItemKept
<1>9. ASSUME NEW s \in seals, Mismatch(w, s)
      PROVE  PendingAhead' /\ header' = header
  <2>1. header' = header /\ Become(w, worker'[w]) /\ worker'[w].pc = "idle"
    BY <1>0, <1>9, <1>p DEF Mismatch, Fail, Become
  <2> QED BY <1>0, <2>1, ItemKept
<1>10. CASE Restart
  <2>1. header' = header /\ worker'[w].pc = "idle"
    BY <1>0, <1>10, <1>p DEF Restart
  <2> QED BY <2>1 DEF PendingAhead
<1>11. CASE \E s \in seals : Admit(s)
  BY <1>1, <1>11 DEF Admit
<1>12. CASE \E l \in late : LateStep(l)
  BY <1>1, <1>12 DEF LateStep, LateBan, LateProof, LateDone
<1>13. CASE \E s, t \in seals : StoreProof(s, t)
  BY <1>1, <1>13 DEF StoreProof
<1>14. CASE BanProven \/ RLock \/ RUnlock \/ Tick \/ UNCHANGED vars
  BY <1>1, <1>14 DEF BanProven, RLock, RUnlock, Tick, vars
<1>15. ASSUME UpdateStep(w) \/ SyncStep(w) \/ Timeout(w)
       PROVE  PendingAhead' /\ (header' # header => StoreHeader(w))
  BY <1>15, <1>3, <1>4, <1>5, <1>6, <1>7, <1>8, <1>9, <1>10
  DEF UpdateStep, SyncStep, Timeout
<1>16. CASE Crash
  BY <1>10, <1>16 DEF Crash, Restart
<1> QED BY <1>2, <1>11, <1>12, <1>13, <1>14, <1>15, <1>16 DEF Next

\* If the updater is the only one to write a name, and has one worker, the
\* header only moves forward (UpdateBlob turns down items that are not ahead).
THEOREM SingleWriterAdvances ==
  ASSUME NEW w, Workers = {w}, Clients = {}
  PROVE  Spec => HeaderAdvances
<1>1. Init => PendingAhead
  BY SMT DEF Init, PendingAhead, Idle
<1>2. ASSUME TypeOK, TypeOK', PendingAhead, [Next]_vars
      PROVE  PendingAhead'
  BY <1>2, PendingStep
<1>3. ASSUME TypeOK, TypeOK', PendingAhead, [Next]_vars
      PROVE  [header # None /\ header' # header =>
                \/ header'.epoch > header.epoch
                \/ header'.epoch = header.epoch /\ header'.size > header.size]_vars
  <2>1. SUFFICES ASSUME header # None, header' # header
                 PROVE  \/ header'.epoch > header.epoch
                        \/ /\ header'.epoch = header.epoch
                           /\ header'.size > header.size
    OBVIOUS
  <2>2. StoreHeader(w)
    BY <1>3, <2>1, PendingStep
  <2>3. worker[w].pc = "synced" /\ header' = NewHeader(worker[w])
    BY <2>2 DEF StoreHeader
  <2>4. Ahead(worker[w].item)
    BY <1>3, <2>3 DEF PendingAhead
  <2> QED BY <2>1, <2>3, <2>4 DEF Ahead, NewHeader
<1> QED BY <1>1, <1>2, <1>3, TypeCorrect, PTL DEF Spec, HeaderAdvances


----------------------------------------------------------------------------
(* Proofs of equivocations *)

\* Header h is the one with that epoch, size and tip, or ahead of it.
Reached(h, e, n, t) ==
  /\ h # None
  /\ \/ h.epoch > e
     \/ h.epoch = e /\ h.size > n
     \/ h.epoch = e /\ h.size = n /\ h.tip = t

\* A sync starts from scratch, or from a header that has been stored.
OptsReached(h, o) ==
  IF o.epochUpdated THEN o.size = 0 /\ o.prev = ZeroHash
  ELSE Reached(h, o.epoch, o.size, o.prev)

\* The states of a worker that knows what to ask for.
WithOpts == {"checked", "syncing", "banned", "synced"}

\* What workers and late goroutines have read is not ahead of the header.
PastOK ==
  /\ \A w \in Workers : worker[w].pc = "read" /\ worker[w].hd # None =>
       Reached(header, worker[w].hd.epoch, worker[w].hd.size, worker[w].hd.tip)
  /\ \A w \in Workers : worker[w].pc \in WithOpts => OptsReached(header, worker[w].opts)
  /\ \A l \in late : OptsReached(header, l.opts)

Real(p) == Verifies(p) => Equivocation(p.local.sig, p.remote.sig)

\* So are the proofs that are about to be stored.
RealOK ==
  /\ ProofsAreReal
  /\ \A w \in Workers : worker[w].pc = "banned" => Real(worker[w].proof)
  /\ \A l \in late : l.pc = "lateBanned" => Real(l.proof)

\* A header that moves forward stays ahead of what it has reached.
LEMMA ReachedKept ==
  ASSUME TypeOK, TypeOK', NEW e \in Epochs, NEW n \in Sizes, NEW t, Reached(header, e, n, t),
         \/ header' = header
         \/ /\ header' # None
            /\ \/ header'.epoch > header.epoch
               \/ header'.epoch = header.epoch /\ header'.size > header.size
  PROVE  Reached(header', e, n, t)
<1>1. header \in Header
  BY DEF TypeOK, Reached
<1>2. header' # None => header' \in Header
  BY DEF TypeOK
<1>3. /\ e \in Nat /\ n \in Nat /\ header.epoch \in Nat /\ header.size \in Nat
      /\ header' # None => header'.epoch \in Nat /\ header'.size \in Nat
  BY <1>1, <1>2, BoundsAreNats, SMT DEF Header, Epochs, Sizes
<1> QED BY <1>3, SMT DEF Reached

\* The header that a worker stores is typed.
LEMMA NewHeaderType ==
  ASSUME TypeOK, NEW w \in Workers, worker[w].pc = "synced"
  PROVE  NewHeader(worker[w]) \in Header
<1> DEFINE s == worker[w]
<1>1. s \in WorkerState /\ now \in Times
  BY DEF TypeOK
<1>2. s.item \in Item /\ s.file \in File /\ s.su \in Seal
  BY <1>1, WorkerFields
<1> HIDE DEF s
<1>3. s.item.epoch \in Epochs /\ s.item.size \in Sizes
  BY <1>2 DEF Item
<1>4. SerialHash(s.file, s.item.size) \in Chain
  BY <1>2, <1>3, FileHash
<1>5. NewHeader(s) \in Header
  BY <1>1, <1>2, <1>3, <1>4 DEF NewHeader, Header
<1> QED BY <1>5 DEF s

\* With one writer, every step keeps the header or moves it forward.
LEMMA AdvanceStep ==
  ASSUME TypeOK, TypeOK', PendingAhead, NEW w, Workers = {w}, Clients = {},
         [Next]_vars
  PROVE  \/ header' = header
         \/ /\ header' # None
            /\ header # None => \/ header'.epoch > header.epoch
                                \/ /\ header'.epoch = header.epoch
                                   /\ header'.size > header.size
<1>1. SUFFICES ASSUME header' # header
               PROVE  /\ header' # None
                      /\ header # None => \/ header'.epoch > header.epoch
                                          \/ /\ header'.epoch = header.epoch
                                             /\ header'.size > header.size
  OBVIOUS
<1>2. StoreHeader(w)
  BY <1>1, PendingStep
<1>3. worker[w].pc = "synced" /\ header' = NewHeader(worker[w])
  BY <1>2 DEF StoreHeader
<1>4. Ahead(worker[w].item)
  BY <1>3 DEF PendingAhead
<1>5. NewHeader(worker[w]) \in Header
  BY <1>3, NewHeaderType
<1> QED BY <1>3, <1>4, <1>5, NoneIsNothing DEF Ahead, NewHeader

\* Where the options of workers and late goroutines come from, and
\* who finds an equivocation.
LEMMA OptsSources ==
  ASSUME TypeOK, TypeOK', NEW w, Workers = {w}, Clients = {}, [Next]_vars
  PROVE  /\ worker'[w].pc = "read" =>
              worker'[w] = worker[w] \/ (worker'[w].hd = header /\ header' = header)
         /\ worker'[w].pc \in WithOpts =>
              \/ worker[w].pc \in WithOpts /\ worker'[w].opts = worker[w].opts
              \/ worker[w].pc = "read" /\ worker'[w].opts = SyncOpts(worker[w])
         /\ worker'[w].pc = "banned" =>
              worker'[w] = worker[w] \/ \E s \in seals : BanHeader(w, s)
         /\ \A l \in late' :
              \/ \E k \in late : l.opts = k.opts
              \/ worker[w].pc \in WithOpts /\ l.opts = worker[w].opts
<1> DEFINE Goal ==
             /\ worker'[w].pc = "read" =>
                  worker'[w] = worker[w] \/ (worker'[w].hd = header /\ header' = header)
             /\ worker'[w].pc \in WithOpts =>
                  \/ worker[w].pc \in WithOpts /\ worker'[w].opts = worker[w].opts
                  \/ worker[w].pc = "read" /\ worker'[w].opts = SyncOpts(worker[w])
             /\ worker'[w].pc = "banned" =>
                  worker'[w] = worker[w] \/ \E s \in seals : BanHeader(w, s)
             /\ \A l \in late' :
                  \/ \E k \in late : l.opts = k.opts
                  \/ worker[w].pc \in WithOpts /\ l.opts = worker[w].opts
<1>0. /\ worker \in [Workers -> WorkerState] /\ w \in Workers
      /\ \A s : Become(w, s) => worker'[w] = s
  BY DEF TypeOK, Become
<1>p. Idle.pc = "idle"
  BY DEF Idle
<1>1. CASE UNCHANGED <<worker, late>>
  <2>1. worker' = worker /\ late' = late
    BY <1>1
  <2> QED BY <2>1
<1>2. ASSUME NEW it \in Item, StartUpdate(w, it)
      PROVE  Goal
  <2>1. /\ worker'[w] = [pc |-> "read", item |-> it, hd |-> header]
        /\ UNCHANGED <<header, late>>
    BY <1>0, <1>2 DEF StartUpdate
  <2> QED BY <2>1, SMT DEF WithOpts
<1>3. CASE CheckEpoch(w)
  <2>1. /\ worker[w].pc = "read" /\ UNCHANGED late
        /\ \/ worker'[w] = Idle
           \/ worker'[w] = [pc |-> "checked", item |-> worker[w].item,
                            opts |-> SyncOpts(worker[w])]
    BY <1>0, <1>3 DEF CheckEpoch
  <2> QED BY <1>p, <2>1, SMT DEF WithOpts
<1>4. CASE LockName(w)
  <2>1. /\ worker[w].pc = "checked" /\ UNCHANGED late
        /\ \/ worker'[w] = Idle
           \/ worker'[w].pc = "syncing" /\ worker'[w].opts = worker[w].opts
    BY <1>0, <1>4, SMT DEF LockName
  <2> QED BY <1>p, <2>1, SMT DEF WithOpts
<1>5. CASE StoreHeader(w) \/ TipMismatch(w) \/ CommitTx(w) \/ EmitProcessed(w)
  <2>1. worker'[w].pc \in {"stored", "updated", "idle"} /\ UNCHANGED late
    BY <1>0, <1>5, <1>p, SMT DEF StoreHeader, TipMismatch, CommitTx, EmitProcessed, Succeed
  <2> QED BY <2>1, SMT DEF WithOpts
<1>6. ASSUME NEW s \in seals, Accept(w, s) \/ BanHeader(w, s)
      PROVE  Goal
  <2>1. /\ worker[w].pc = "syncing" /\ UNCHANGED late
        /\ worker'[w].pc = "synced" \/ (worker'[w].pc = "banned" /\ BanHeader(w, s))
        /\ worker'[w].opts = worker[w].opts
    <3>1. CASE Accept(w, s)
      BY <1>0, <3>1, SMT DEF Accept
    <3>2. CASE BanHeader(w, s)
      BY <1>0, <3>2, SMT DEF BanHeader
    <3> QED BY <1>6, <3>1, <3>2
  <2> QED BY <2>1 DEF WithOpts
<1>7. ASSUME InvalidSignature(w) \/ RecordProof(w) \/ \E s \in seals : Mismatch(w, s)
      PROVE  Goal
  <2>1. /\ worker[w].pc \in WithOpts /\ worker'[w] = Idle
        /\ Linger(worker[w].opts)
    BY <1>0, <1>7 DEF InvalidSignature, RecordProof, Mismatch, Fail, WithOpts
  <2>2. \A l \in late' : l \in late \/ l.opts = worker[w].opts
    BY <2>1, SMT DEF Linger
  <2> QED BY <1>p, <2>1, <2>2, SMT DEF WithOpts
<1>8. CASE Restart
  <2>1. worker'[w] = Idle /\ late' = {}
    BY <1>0, <1>8 DEF Restart
  <2> QED BY <1>p, <2>1, SMT DEF WithOpts
<1>9. CASE \E s \in seals : Admit(s)
  BY <1>1, <1>9 DEF Admit
<1>10. ASSUME NEW k \in late, LateStep(k)
       PROVE  Goal
  <2>1. UNCHANGED worker /\ \A l \in late' : l \in late \/ l.opts = k.opts
    BY <1>10, SMT DEF LateStep, LateBan, LateProof, LateDone
  <2> QED BY <2>1
<1>11. CASE \E s, t \in seals : StoreProof(s, t)
  BY <1>1, <1>11 DEF StoreProof
<1>12. CASE BanProven \/ RLock \/ RUnlock \/ Tick \/ UNCHANGED vars
  BY <1>1, <1>12 DEF BanProven, RLock, RUnlock, Tick, vars
<1>13. ASSUME UpdateStep(w) \/ SyncStep(w) \/ Timeout(w)
       PROVE  Goal
  BY <1>13, <1>3, <1>4, <1>5, <1>6, <1>7, <1>8 DEF UpdateStep, SyncStep, Timeout
<1>14. CASE Crash
  BY <1>8, <1>14 DEF Crash
<1>15. Goal
  BY <1>2, <1>9, <1>10, <1>11, <1>12, <1>13, <1>14 DEF Next
<1> QED BY <1>15

\* The options of a sync are those of a header that was read, or none.
LEMMA SyncOptsReached ==
  ASSUME NEW w \in Workers, PastOK, worker[w].pc = "read"
  PROVE  OptsReached(header, SyncOpts(worker[w]))
<1> DEFINE s == worker[w]
<1>1. s.hd # None => Reached(header, s.hd.epoch, s.hd.size, s.hd.tip)
  BY DEF PastOK
<1> HIDE DEF s
<1>2. ASSUME s.hd = None \/ RollsOver(s)
      PROVE  OptsReached(header, SyncOpts(s))
  BY <1>2, SMT DEF SyncOpts, OptsReached, RollsOver
<1>3. ASSUME s.hd # None, ~RollsOver(s)
      PROVE  OptsReached(header, SyncOpts(s))
  BY <1>1, <1>3, SMT DEF SyncOpts, OptsReached
<1>4. OptsReached(header, SyncOpts(s))
  BY <1>2, <1>3
<1> QED BY <1>4 DEF s

\* Every step of a single writer keeps PastOK.
LEMMA PastStep ==
  ASSUME TypeOK, TypeOK', PendingAhead, PastOK, NEW w, Workers = {w}, Clients = {},
         [Next]_vars
  PROVE  PastOK'
<1>1. ASSUME NEW e \in Epochs, NEW n \in Sizes, NEW t, Reached(header, e, n, t)
      PROVE  Reached(header', e, n, t)
  <2>1. header # None
    BY <1>1 DEF Reached
  <2> QED BY <1>1, <2>1, AdvanceStep, ReachedKept
<1>2. ASSUME NEW o \in Opts, OptsReached(header, o)
      PROVE  OptsReached(header', o)
  <2>1. o.epoch \in Epochs /\ o.size \in Sizes
    BY DEF Opts
  <2> QED BY <1>1, <1>2, <2>1 DEF OptsReached
<1>3. /\ w \in Workers /\ worker[w] \in WorkerState /\ worker'[w] \in WorkerState
      /\ late \subseteq LateState
  BY DEF TypeOK
<1>4. worker'[w].pc = "read" /\ worker'[w].hd # None =>
        Reached(header', worker'[w].hd.epoch, worker'[w].hd.size,
                worker'[w].hd.tip)
  <2>1. SUFFICES ASSUME worker'[w].pc = "read", worker'[w].hd # None
                 PROVE  Reached(header', worker'[w].hd.epoch, worker'[w].hd.size,
                worker'[w].hd.tip)
    OBVIOUS
  <2> DEFINE h == worker'[w].hd
  <2>2. h \in Header
    BY <1>3, <2>1, WorkerFields
  <2>3. h.epoch \in Epochs /\ h.size \in Sizes
    BY <2>2 DEF Header
  <2>4. CASE worker'[w] = worker[w]
    BY <1>1, <1>3, <2>1, <2>3, <2>4 DEF PastOK
  <2>5. CASE h = header /\ header' = header
    BY <2>1, <2>5 DEF Reached
  <2> QED BY <2>1, <2>4, <2>5, OptsSources
<1>5. worker'[w].pc \in WithOpts => OptsReached(header', worker'[w].opts)
  <2>1. ASSUME worker[w].pc \in WithOpts
        PROVE  worker[w].opts \in Opts /\ OptsReached(header, worker[w].opts)
    BY <1>3, <2>1, WorkerFields DEF WithOpts, PastOK
  <2>2. ASSUME worker[w].pc = "read"
        PROVE  SyncOpts(worker[w]) \in Opts /\ OptsReached(header, SyncOpts(worker[w]))
    BY <1>3, <2>2, OptsType, SyncOptsReached
  <2> QED BY <1>2, <2>1, <2>2, OptsSources
<1>6. ASSUME NEW l \in late'
      PROVE  OptsReached(header', l.opts)
  <2>1. ASSUME NEW k \in late PROVE k.opts \in Opts /\ OptsReached(header, k.opts)
    BY <1>3, <2>1 DEF LateState, PastOK
  <2>2. ASSUME worker[w].pc \in WithOpts
        PROVE  worker[w].opts \in Opts /\ OptsReached(header, worker[w].opts)
    BY <1>3, <2>2, WorkerFields DEF WithOpts, PastOK
  <2> QED BY <1>2, <2>1, <2>2, OptsSources
<1> QED BY <1>4, <1>5, <1>6 DEF PastOK


\* A proof that a sync makes is real: the header it was compared with is the one
\* that goes into the proof, or one of another size.
LEMMA MadeProofReal ==
  ASSUME TypeOK, HeaderSigned, NEW o \in Opts, OptsReached(header, o),
         NEW s \in seals, Records(s, o)
  PROVE  Real(ProofOf(s, o))
<1>1. /\ Serves(s, o) /\ PrevHash(s, o) # o.prev /\ s.epoch = o.epoch
      /\ header # None /\ header \in Header /\ s \in Seal
  BY DEF Records, Conflicts, TypeOK
<1>2. ~o.epochUpdated
  <2>1. SUFFICES ASSUME o.size = 0, o.prev = ZeroHash PROVE FALSE
    BY <1>1 DEF OptsReached
  <2>2. SerialHash(s.chain, 0) = ZeroHash
    BY SMT DEF SerialHash, ZeroHash
  <2> QED BY <1>1, <2>1, <2>2 DEF PrevHash
<1>3. Reached(header, o.epoch, o.size, o.prev)
  BY <1>2 DEF OptsReached
<1>4. SUFFICES ASSUME Verifies(ProofOf(s, o))
               PROVE  Equivocation(header.sig, s)
  BY DEF Real, ProofOf
<1>5. /\ header.epoch = s.epoch /\ header.size = o.size
      /\ header.sig = [epoch |-> header.epoch, chain |-> header.tip]
  BY <1>4 DEF Verifies, ProofOf
<1>6. o.epoch \in Nat /\ o.size \in Nat
  BY BoundsAreNats, SMT DEF Opts, Epochs, Sizes
<1>7. header.tip = o.prev
  BY <1>1, <1>3, <1>5, <1>6, SMT DEF Reached
<1>8. /\ header.sig \in seals /\ header.sig.chain = header.tip
      /\ Len(header.tip) = header.size /\ header.sig.epoch = s.epoch
  BY <1>1, <1>5, SMT DEF HeaderSigned
<1> QED BY <1>1, <1>5, <1>7, <1>8 DEF Equivocation, Serves, PrevHash

\* A received proof is real.
LEMMA ReceivedReal ==
  ASSUME NEW s \in seals, NEW t \in seals, Equivocation(s, t)
  PROVE  Real(ReceivedProof(s, t))
BY DEF Real, ReceivedProof

\* Every step of a single writer keeps RealOK.
LEMMA RealStep ==
  ASSUME TypeOK, TypeOK', HeaderSigned, PastOK, RealOK, NEW w, Workers = {w},
         Clients = {}, [Next]_vars
  PROVE  RealOK'
<1>s. seals' = seals
  <2>1. CASE UpdateStep(w)
    BY <2>1 DEF UpdateStep, CheckEpoch, LockName, StoreHeader, TipMismatch, CommitTx,
                EmitProcessed
  <2>2. CASE SyncStep(w)
    BY <2>2 DEF SyncStep, InvalidSignature, RecordProof, Accept, Mismatch, BanHeader
  <2>3. CASE \E l \in late : LateStep(l)
    BY <2>3 DEF LateStep, LateBan, LateProof, LateDone
  <2> QED BY <2>1, <2>2, <2>3
          DEF Next, Admit, StartUpdate, Timeout, Restart, StoreProof, BanProven, RLock,
              RUnlock, Tick, Crash, vars
<1>r. ASSUME NEW p, Real(p) PROVE Real(p)'
  BY <1>s, <1>r DEF Real, Verifies, Equivocation
<1>0. /\ worker \in [Workers -> WorkerState] /\ w \in Workers
      /\ \A x : Become(w, x) => worker'[w] = x
      /\ worker[w] \in WorkerState /\ late \subseteq LateState
  BY DEF TypeOK, Become
<1>1. proof' = proof \/ Real(proof')
  <2>1. CASE RecordProof(w)
    <3>1. proof' = worker[w].proof /\ worker[w].pc = "banned"
      BY <2>1 DEF RecordProof
    <3> QED BY <1>0, <3>1 DEF RealOK
  <2>2. ASSUME NEW l \in late, LateProof(l) PROVE Real(proof')
    <3>1. proof' = l.proof /\ l.pc = "lateBanned"
      BY <2>2 DEF LateProof
    <3> QED BY <3>1 DEF RealOK
  <2>3. ASSUME NEW s \in seals, NEW t \in seals, StoreProof(s, t) PROVE Real(proof')
    BY <2>3, ReceivedReal DEF StoreProof
  <2>4. CASE UpdateStep(w)
    BY <2>4 DEF UpdateStep, CheckEpoch, LockName, StoreHeader, TipMismatch, CommitTx,
                EmitProcessed
  <2>5. CASE SyncStep(w)
    BY <2>1, <2>5 DEF SyncStep, InvalidSignature, Accept, Mismatch, BanHeader
  <2>6. CASE \E l \in late : LateStep(l)
    BY <2>2, <2>6 DEF LateStep, LateBan, LateDone
  <2> QED BY <2>3, <2>4, <2>5, <2>6
          DEF Next, Admit, StartUpdate, Timeout, Restart, BanProven, RLock, RUnlock,
              Tick, Crash, vars
<1>2. worker'[w].pc = "banned" => worker'[w] = worker[w] \/ Real(worker'[w].proof)
  <2>1. ASSUME NEW s \in seals, BanHeader(w, s)
        PROVE  Real(worker'[w].proof)
    <3>1. /\ worker[w].pc = "syncing" /\ Records(s, worker[w].opts)
          /\ worker'[w].proof = ProofOf(s, worker[w].opts)
      BY <1>0, <2>1, SMT DEF BanHeader
    <3>2. worker[w].opts \in Opts /\ OptsReached(header, worker[w].opts)
      BY <1>0, <3>1, WorkerFields DEF PastOK, WithOpts
    <3> QED BY <3>1, <3>2, MadeProofReal
  <2> QED BY <2>1, OptsSources
<1>3. ASSUME NEW l \in late', l.pc = "lateBanned"
      PROVE  l \in late \/ Real(l.proof)
  <2>1. ASSUME NEW k \in late, NEW s \in seals, LateBan(k, s)
        PROVE  l \in late \/ Real(l.proof)
    <3>1. SUFFICES ASSUME l \notin late PROVE Real(l.proof)
      OBVIOUS
    <3>2. Records(s, k.opts) /\ l.proof = ProofOf(s, k.opts)
      BY <2>1, <3>1, SMT DEF LateBan
    <3>3. k.opts \in Opts /\ OptsReached(header, k.opts)
      BY <1>0 DEF LateState, PastOK
    <3> QED BY <3>2, <3>3, MadeProofReal
  <2>2. ASSUME NEW o, Linger(o) PROVE l \in late
    BY <1>3, <2>2, SMT DEF Linger
  <2>3. CASE UNCHANGED late
    BY <2>3
  <2>4. CASE Restart
    BY <2>4 DEF Restart
  <2>5. CASE \E k \in late : LateProof(k) \/ LateDone(k)
    BY <2>5 DEF LateProof, LateDone
  <2>6. CASE UpdateStep(w)
    BY <2>3, <2>6 DEF UpdateStep, CheckEpoch, LockName, StoreHeader, TipMismatch,
                      CommitTx, EmitProcessed
  <2>7. CASE SyncStep(w)
    BY <2>2, <2>3, <2>7 DEF SyncStep, InvalidSignature, RecordProof, Accept, Mismatch,
                            BanHeader
  <2> QED BY <2>1, <2>3, <2>4, <2>5, <2>6, <2>7
          DEF Next, Admit, StartUpdate, Timeout, LateStep, StoreProof, BanProven, RLock,
              RUnlock, Tick, Crash, vars
<1>4. ProofsAreReal'
  <2>1. SUFFICES ASSUME proof' # None PROVE Real(proof)'
    BY DEF ProofsAreReal, Real
  <2>2. Real(proof')
    BY <1>1, <2>1 DEF RealOK, ProofsAreReal, Real
  <2> QED BY <1>s, <2>2 DEF Real, Verifies, Equivocation
<1>5. (\A v \in Workers : worker[v].pc = "banned" => Real(worker[v].proof))'
  BY <1>0, <1>2, <1>r DEF RealOK
<1>6. (\A l \in late : l.pc = "lateBanned" => Real(l.proof))'
  BY <1>3, <1>r DEF RealOK
<1> QED BY <1>4, <1>5, <1>6 DEF RealOK

\* If the updater is the only one to write a name, and has one worker, a proof that it
\* stores and that other nodes accept shows a real equivocation, although the header
\* that goes into it is read again after the responses were compared, and although
\* goroutines of earlier syncs record proofs too.  (With two workers it need not.)
THEOREM SingleWriterProofs ==
  ASSUME NEW w, Workers = {w}, Clients = {}
  PROVE  Spec => []ProofsAreReal
<1> DEFINE Inv == PendingAhead /\ PastOK /\ RealOK
<1>1. Init => Inv
  BY SMT DEF Init, PendingAhead, PastOK, RealOK, ProofsAreReal, WithOpts, Idle
<1>2. ASSUME TypeOK, TypeOK', HeaderSigned, Inv, [Next]_vars
      PROVE  Inv'
  BY <1>2, PendingStep, PastStep, RealStep
<1>3. Inv => ProofsAreReal
  BY DEF RealOK
<1> QED BY <1>1, <1>2, <1>3, TypeCorrect, SignedHeader, PTL DEF Spec


----------------------------------------------------------------------------
(* Notices of equivocations *)

\* Updates that are no notices have a size.
SizesOK ==
  /\ \A it \in admitted : it.size # 0
  /\ \A w \in Workers : worker[w].pc # "idle" => worker[w].item.size # 0

\* A step of a worker keeps or drops its item.
LEMMA WorkerSize ==
  ASSUME TypeOK, TypeOK', SizesOK, NEW w \in Workers, Become(w, worker'[w]),
         \/ worker'[w].pc = "idle"
         \/ worker'[w].item.size # 0
         \/ worker'[w].item = worker[w].item /\ worker[w].pc # "idle",
         UNCHANGED admitted
  PROVE  SizesOK'
BY BecomeStep, ZenonT(60) DEF TypeOK, SizesOK

\* Every step keeps the sizes.
LEMMA SizesStep ==
  ASSUME TypeOK, TypeOK', SizesOK, Clients = {}, [Next]_vars
  PROVE  SizesOK'
<1>0. worker \in [Workers -> WorkerState] /\ Idle.pc = "idle"
  BY DEF TypeOK, Idle
<1>1. CASE UNCHANGED <<worker, admitted>>
  BY <1>1 DEF SizesOK
<1>2. CASE \E s \in seals : Admit(s)
  BY <1>2 DEF Admit, SizesOK
<1>3. ASSUME NEW w \in Workers, NEW it \in Item, StartUpdate(w, it)
      PROVE  SizesOK'
  <2>1. /\ Become(w, worker'[w]) /\ worker'[w].item = it /\ it \in admitted
        /\ UNCHANGED admitted
    BY <1>0, <1>3 DEF StartUpdate, Become
  <2>2. worker'[w].item.size # 0
    BY <2>1 DEF SizesOK
  <2> QED BY <2>1, <2>2, WorkerSize
<1>4. ASSUME NEW w \in Workers, UpdateStep(w)
      PROVE  SizesOK'
  <2>1. /\ Become(w, worker'[w]) /\ worker[w].pc # "idle"
        /\ worker'[w].pc = "idle" \/ worker'[w].item = worker[w].item
        /\ UNCHANGED admitted
    BY <1>0, <1>4, SMT DEF UpdateStep, CheckEpoch, LockName, StoreHeader, TipMismatch,
                      CommitTx, EmitProcessed, Succeed, Become
  <2> QED BY <2>1, WorkerSize, ZenonT(60)
<1>5. ASSUME NEW w \in Workers, SyncStep(w)
      PROVE  SizesOK'
  <2>1. /\ Become(w, worker'[w]) /\ worker[w].pc # "idle"
        /\ worker'[w].pc = "idle" \/ worker'[w].item = worker[w].item
        /\ UNCHANGED admitted
    BY <1>0, <1>5, SMT DEF SyncStep, InvalidSignature, RecordProof, Accept, Mismatch,
                      BanHeader, Fail, Become
  <2> QED BY <2>1, WorkerSize, ZenonT(60)
<1>6. CASE Restart
  BY <1>0, <1>6 DEF Restart, SizesOK
<1>8. CASE \E l \in late : LateStep(l)
  BY <1>1, <1>8 DEF LateStep, LateBan, LateProof, LateDone
<1>9. CASE \E s, t \in seals : StoreProof(s, t)
  BY <1>1, <1>9 DEF StoreProof
<1>10. CASE BanProven \/ RLock \/ RUnlock \/ Tick \/ UNCHANGED vars
  BY <1>1, <1>10 DEF BanProven, RLock, RUnlock, Tick, vars
<1>11. ASSUME NEW w \in Workers, Timeout(w)
       PROVE  SizesOK'
  BY <1>6, <1>11 DEF Timeout
<1>12. CASE Crash
  BY <1>6, <1>12 DEF Crash
<1> QED BY <1>2, <1>3, <1>4, <1>5, <1>8, <1>9, <1>10, <1>11, <1>12
        DEF Next

\* What is gossiped is a notice only with a stored proof, and no step removes
\* the proof.
LEMMA NoticeStep ==
  ASSUME TypeOK, TypeOK', SizesOK, NoticeHasProof, Clients = {}, [Next]_vars
  PROVE  NoticeHasProof'
<1>1. CASE UNCHANGED <<sent, proof>>
  BY <1>1 DEF NoticeHasProof
<1>2. CASE proof' \in Proof
  BY <1>2, NoneIsNothing DEF NoticeHasProof
<1>3. ASSUME NEW w \in Workers, CommitTx(w)
      PROVE  NoticeHasProof'
  <2>1. worker[w].item.size # 0
    BY <1>3 DEF CommitTx, SizesOK
  <2> QED BY <1>3, <2>1 DEF CommitTx, NoticeHasProof
<1>5. ASSUME NEW w \in Workers, RecordProof(w)
      PROVE  NoticeHasProof'
  <2>1. worker[w] \in WorkerState /\ worker[w].pc = "banned" /\ proof' = worker[w].proof
    BY <1>5 DEF TypeOK, RecordProof
  <2> QED BY <1>2, <2>1, WorkerFields
<1>6. ASSUME NEW l \in late, LateProof(l)
      PROVE  NoticeHasProof'
  <2>1. l \in LateState /\ l.pc = "lateBanned" /\ proof' = l.proof
    BY <1>6 DEF TypeOK, LateProof
  <2> QED BY <1>2, <2>1 DEF LateState
<1>7. ASSUME NEW s \in seals, NEW t \in seals, StoreProof(s, t)
      PROVE  NoticeHasProof'
  BY <1>2, <1>7, ReceivedType DEF StoreProof, TypeOK
<1>8. CASE \/ \E s \in seals : Admit(s)
           \/ \E w \in Workers, it \in Item : StartUpdate(w, it)
           \/ BanProven \/ RLock \/ RUnlock \/ Tick \/ UNCHANGED vars \/ Restart
  BY <1>1, <1>8 DEF Admit, StartUpdate, BanProven, RLock, RUnlock, Tick, vars,
                    Restart
<1>9. ASSUME NEW w \in Workers, UpdateStep(w), ~CommitTx(w)
      PROVE  NoticeHasProof'
  BY <1>1, <1>9 DEF UpdateStep, CheckEpoch, LockName, StoreHeader, TipMismatch,
                    EmitProcessed
<1>10. ASSUME NEW w \in Workers, SyncStep(w), ~RecordProof(w)
       PROVE  NoticeHasProof'
  BY <1>1, <1>10 DEF SyncStep, InvalidSignature, Accept, Mismatch, BanHeader
<1>12. ASSUME NEW l \in late, LateStep(l), ~LateProof(l)
       PROVE  NoticeHasProof'
  BY <1>1, <1>12 DEF LateStep, LateBan, LateDone
<1>13. ASSUME NEW w \in Workers, Timeout(w)
       PROVE  NoticeHasProof'
  BY <1>8, <1>13 DEF Timeout
<1>14. CASE Crash
  BY <1>8, <1>14 DEF Crash
<1> QED BY <1>3, <1>5, <1>6, <1>7, <1>8, <1>9, <1>10, <1>12, <1>13, <1>14
        DEF Next

\* If nobody commits through the RPC server (which can gossip an empty blob), a
\* node that has gossiped the notice of an equivocation has a proof to serve,
\* killed processes and late goroutines notwithstanding.
THEOREM NoticesProved ==
  ASSUME Clients = {}
  PROVE  Spec => []NoticeHasProof
<1>1. Init => SizesOK /\ NoticeHasProof
  BY SMT DEF Init, SizesOK, NoticeHasProof, Idle
<1>2. ASSUME TypeOK, TypeOK', SizesOK, NoticeHasProof, [Next]_vars
      PROVE  SizesOK' /\ NoticeHasProof'
  BY <1>2, SizesStep, NoticeStep
<1> QED BY <1>1, <1>2, TypeCorrect, PTL DEF Spec


============================================================================
