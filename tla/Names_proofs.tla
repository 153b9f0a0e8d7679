---------------------------- MODULE Names_proofs ----------------------------
(***************************************************************************)
(* Proofs about Names, for any chain, lists, bounds and failures.          *)
(*                                                                         *)
(* Bans: while the lists are ingested, the names fetched so far are those   *)
(* in the transaction and those still to ban, and none in the transaction   *)
(* has a blob; BansInv carries this through the commit and the wait for hsd. *)
(*                                                                         *)
(* Extraction: each loop over a block is a recursive function, and by       *)
(* induction over its rounds the last record decides.                      *)
(*                                                                         *)
(* Import: what the importer works on lies below the confirmed height,      *)
(* which no reorganization touches, and the block it imports next is the    *)
(* one after the stored height as long as commits succeed; a failed commit  *)
(* lets it run ahead, but then no transaction can be opened until the       *)
(* process ends.                                                           *)
(***************************************************************************)
EXTENDS Names, FiniteSetTheorems, TLAPS

\* Most steps are first-order; those that compute or need record types cite SMT.
USE Zenon

-----------------------------------------------------------------------------
(* The start of the daemon *)

BansTyped ==
  /\ hsdUp \in BOOLEAN
  /\ banned \in SUBSET HnsNames
  /\ blobs \in SUBSET HnsNames
  /\ headers \in SUBSET HnsNames
  /\ headerCount \in Nat
  /\ daemon \in DaemonState
  /\ faults \in 0..MaxFaults
  /\ txLeftOpen \in BOOLEAN
  /\ listed \in SUBSET HnsNames
  /\ published \in SUBSET HnsNames

BansOK ==
  /\ daemon.pc = "ingesting" =>
       listed = daemon.tx \cup daemon.names /\ daemon.tx \cap blobs = {}
  /\ daemon.pc = "waiting" =>
       (txLeftOpen \/ banned = listed) /\ listed \cap blobs = {}
  /\ daemon.pc = "up" =>
       /\ txLeftOpen \/ banned = listed
       /\ \A n \in banned \cap listed : n \in blobs => n \in published

BansInv == BansTyped /\ BansOK /\ HeadersCounted

\* What is known of a daemon that ingests lists
LEMMA Ingesting ==
  ASSUME BansTyped, daemon.pc = "ingesting"
  PROVE  /\ daemon.lists \in 0..NumLists
         /\ daemon.names \in SUBSET HnsNames
         /\ daemon.tx \in SUBSET HnsNames
<1>1. daemon \in [pc : {"down", "waiting", "up"}]
        \/ daemon \in [pc : {"ingesting"}, lists : 0..NumLists,
                       names : SUBSET HnsNames, tx : SUBSET HnsNames]
  BY DEF BansTyped, DaemonState
<1>2. daemon \notin [pc : {"down", "waiting", "up"}]
  OBVIOUS
<1>3. QED
  BY <1>1, <1>2

\* Daemons of the other kinds, and what it takes to be one that ingests
LEMMA DaemonKinds ==
  /\ Down \in DaemonState /\ Down.pc = "down"
  /\ [pc |-> "waiting"] \in DaemonState
  /\ [pc |-> "up"] \in DaemonState
  BY DEF Down, DaemonState

LEMMA IngestingKind ==
  ASSUME NEW l \in 0..NumLists, NEW ns \in SUBSET HnsNames, NEW tx \in SUBSET HnsNames
  PROVE  [pc |-> "ingesting", lists |-> l, names |-> ns, tx |-> tx] \in DaemonState
  BY DEF DaemonState

LEMMA FaultCounts ==
  ASSUME faults \in 0..MaxFaults, Fault
  PROVE  faults' \in 0..MaxFaults /\ faults' # 0
  BY BoundsAreNats, SMT DEF Fault

\* Sets of headers are finite, and smaller ones have fewer elements
LEMMA HeadersFinite ==
  ASSUME NEW S \in SUBSET HnsNames
  PROVE  IsFiniteSet(S) /\ Cardinality(S) \in Nat
<1>1. IsFiniteSet(S)
  BY NamesFinite, FS_Subset
<1>2. QED
  BY <1>1, FS_CardinalityType

\* Steps that leave headers alone, failures or not
LEMMA HeadersSame ==
  ASSUME BansInv, UNCHANGED <<headers, headerCount>>, faults' = 0 => faults = 0
  PROVE  HeadersCounted'
  BY DEF BansInv, HeadersCounted

\* Steps that touch neither bans nor blobs nor the daemon
LEMMA BansSame ==
  ASSUME BansInv,
         UNCHANGED <<banned, content, daemon, listed, published>>,
         hsdUp' \in BOOLEAN,
         txLeftOpen' \in BOOLEAN, txLeftOpen => txLeftOpen',
         faults' \in 0..MaxFaults, faults' = 0 => faults = 0
  PROVE  BansInv'
<1>1. BansTyped'
  BY DEF BansInv, BansTyped, content
<1>2. BansOK'
  BY DEF BansInv, BansOK, content
<1>3. HeadersCounted'
  BY HeadersSame DEF content
<1>4. QED
  BY <1>1, <1>2, <1>3 DEF BansInv

\* A failure that nobody but the database notices
LEMMA FaultIsCounted ==
  ASSUME BansInv, Fault
  PROVE  faults' \in 0..MaxFaults /\ (faults' = 0 => faults = 0)
  BY FaultCounts DEF BansInv, BansTyped

LEMMA IngestBanListsBans ==
  ASSUME BansInv, IngestBanLists
  PROVE  BansInv'
<1>1. NumLists \in 0..NumLists /\ {} \in SUBSET HnsNames
  BY ListsAreNames, SMT
<1>2. daemon' = [pc |-> "ingesting", lists |-> NumLists, names |-> {}, tx |-> {}]
  BY DEF IngestBanLists
<1>3. daemon' \in DaemonState
  BY <1>1, <1>2, IngestingKind
<1>4. BansTyped'
  BY <1>3 DEF BansInv, BansTyped, IngestBanLists, content
<1>5. BansOK'
  BY <1>2, SMT DEF BansOK, IngestBanLists
<1>6. HeadersCounted'
  BY HeadersSame DEF IngestBanLists, content
<1>7. QED
  BY <1>4, <1>5, <1>6 DEF BansInv

LEMMA FetchListFileBans ==
  ASSUME BansInv, NEW names \in Lists, FetchListFile(names)
  PROVE  BansInv'
<1>1. /\ daemon.pc = "ingesting" /\ daemon.names = {} /\ daemon.lists > 0
      /\ daemon.lists \in 0..NumLists /\ daemon.tx \in SUBSET HnsNames
  BY Ingesting DEF BansInv, FetchListFile
<1>2. daemon.lists - 1 \in 0..NumLists /\ names \in SUBSET HnsNames
  BY <1>1, ListsAreNames, SMT
<1>3. daemon' = [pc |-> "ingesting", lists |-> daemon.lists - 1, names |-> names,
                 tx |-> daemon.tx]
  BY DEF FetchListFile
<1>4. daemon' \in DaemonState
  BY <1>1, <1>2, <1>3, IngestingKind
<1>5. BansTyped'
  BY <1>2, <1>4 DEF BansInv, BansTyped, FetchListFile, content
<1>6. BansOK'
  BY <1>1, <1>3, SMT DEF BansInv, BansOK, FetchListFile, content
<1>7. HeadersCounted'
  BY HeadersSame DEF FetchListFile, content
<1>8. QED
  BY <1>5, <1>6, <1>7 DEF BansInv

LEMMA BanNameBans ==
  ASSUME BansInv, NEW n \in HnsNames, BanName(n)
  PROVE  BansInv'
<1>1. /\ daemon.pc = "ingesting" /\ n \in daemon.names
      /\ daemon.lists \in 0..NumLists
      /\ daemon.names \in SUBSET HnsNames /\ daemon.tx \in SUBSET HnsNames
  BY Ingesting DEF BansInv, BanName
<1>2. daemon.names \ {n} \in SUBSET HnsNames /\ daemon.tx \cup {n} \in SUBSET HnsNames
  BY <1>1
<1>3. daemon' = [pc |-> "ingesting", lists |-> daemon.lists, names |-> daemon.names \ {n},
                 tx |-> daemon.tx \cup {n}]
  BY DEF BanName
<1>4. daemon' \in DaemonState
  BY <1>1, <1>2, <1>3, IngestingKind
<1>5. BansTyped'
  BY <1>4 DEF BansInv, BansTyped, BanName, RemoveBlob, history
<1>6. BansOK'
  BY <1>1, <1>3, SMT DEF BansInv, BansOK, BanName, RemoveBlob, history
<1>7. HeadersCounted'
  BY HeadersSame DEF BanName, RemoveBlob
<1>8. QED
  BY <1>5, <1>6, <1>7 DEF BansInv

\* The end of the process, whatever it has committed
LEMMA ProcessEndsBans ==
  ASSUME BansInv, ProcessEnds, UNCHANGED <<hsdUp, content, listed>>,
         banned' \in SUBSET HnsNames, Fault
  PROVE  BansInv'
<1>1. daemon' \in DaemonState /\ daemon'.pc = "down"
  BY DaemonKinds DEF ProcessEnds
<1>2. BansTyped'
  BY <1>1, FaultIsCounted DEF BansInv, BansTyped, ProcessEnds, content
<1>3. BansOK'
  BY <1>1 DEF BansOK
<1>4. HeadersCounted'
  BY HeadersSame, FaultIsCounted DEF content
<1>5. QED
  BY <1>2, <1>3, <1>4 DEF BansInv

LEMMA IngestFailsBans ==
  ASSUME BansInv, IngestFails
  PROVE  BansInv'
<1>1. banned' \in SUBSET HnsNames
  BY Ingesting DEF BansInv, IngestFails
<1>2. QED
  BY <1>1, ProcessEndsBans DEF IngestFails

LEMMA CrashBans ==
  ASSUME BansInv, Crash
  PROVE  BansInv'
<1>1. banned' \in SUBSET HnsNames
  BY DEF BansInv, BansTyped, Crash
<1>2. QED
  BY <1>1, ProcessEndsBans DEF Crash

LEMMA IngestCommitsBans ==
  ASSUME BansInv, IngestCommits
  PROVE  BansInv'
<1>1. /\ daemon.pc = "ingesting" /\ daemon.names = {} /\ daemon.tx \in SUBSET HnsNames
  BY Ingesting DEF BansInv, IngestCommits
<1>2. daemon' \in DaemonState /\ daemon'.pc = "waiting"
  BY DaemonKinds DEF IngestCommits
<1>3. faults' \in 0..MaxFaults /\ (faults' = 0 => faults = 0)
  BY FaultIsCounted DEF IngestCommits, BansInv, BansTyped
<1>4. BansTyped'
  BY <1>1, <1>2, <1>3 DEF BansInv, BansTyped, IngestCommits, content, history
<1>5. BansOK'
  BY <1>1, <1>2 DEF BansInv, BansOK, IngestCommits, content, history
<1>6. HeadersCounted'
  BY <1>3, HeadersSame DEF IngestCommits, content
<1>7. QED
  BY <1>4, <1>5, <1>6 DEF BansInv

LEMMA ConnectHsdBans ==
  ASSUME BansInv, ConnectHsd
  PROVE  BansInv'
<1>1. daemon' \in DaemonState /\ daemon'.pc = "up" /\ daemon.pc = "waiting"
  BY DaemonKinds DEF ConnectHsd
<1>2. BansTyped'
  BY <1>1 DEF BansInv, BansTyped, ConnectHsd, content, history
<1>3. BansOK'
  BY <1>1 DEF BansInv, BansOK, ConnectHsd, content, history
<1>4. HeadersCounted'
  BY HeadersSame DEF ConnectHsd, content
<1>5. QED
  BY <1>2, <1>3, <1>4 DEF BansInv

\* SetHeaderTx, with its failures, keeps the count right
LEMMA StoreBlobHeaders ==
  ASSUME BansInv, NEW n \in HnsNames, NEW local \in BOOLEAN, StoreBlob(n, local)
  PROVE  /\ HeadersCounted'
         /\ headers' \in SUBSET HnsNames /\ headerCount' \in Nat
         /\ faults' \in 0..MaxFaults /\ txLeftOpen' \in BOOLEAN /\ (txLeftOpen => txLeftOpen')
<1>1. headers \in SUBSET HnsNames /\ headerCount \in Nat /\ txLeftOpen \in BOOLEAN
  BY DEF BansInv, BansTyped
<1>2. IsFiniteSet(headers) /\ Cardinality(headers) \in Nat
  BY <1>1, HeadersFinite
<1>3. headerCount <= Cardinality(headers) /\ (faults = 0 => headerCount = Cardinality(headers))
  BY DEF BansInv, HeadersCounted
<1>4. Cardinality(headers \cup {n}) =
        IF n \in headers THEN Cardinality(headers) ELSE Cardinality(headers) + 1
  BY <1>2, FS_AddElement
<1>5. CASE SetHeader(n) /\ UNCHANGED <<faults, txLeftOpen>>
  <2>1. /\ headers' = headers \cup {n}
        /\ headerCount' = IF n \in headers THEN headerCount ELSE headerCount + 1
        /\ faults' = faults /\ txLeftOpen' = txLeftOpen
    BY <1>5 DEF SetHeader
  <2>2. HeadersCounted'
    BY <1>1, <1>2, <1>3, <1>4, <2>1, SMT DEF HeadersCounted
  <2>3. QED
    BY <1>1, <2>1, <2>2, SMT DEF BansInv, BansTyped
<1>6. CASE SetHeaderFails(n) /\ UNCHANGED txLeftOpen
  <2>1. /\ headers' = headers \/ headers' = headers \cup {n}
        /\ headerCount' = headerCount /\ Fault
    BY <1>6 DEF SetHeaderFails
  <2>2. faults' \in 0..MaxFaults /\ faults' # 0
    BY <2>1, FaultCounts DEF BansInv, BansTyped
  <2>3. HeadersCounted'
    BY <1>1, <1>2, <1>3, <1>4, <2>1, <2>2, SMT DEF HeadersCounted
  <2>4. QED
    BY <1>1, <1>6, <2>1, <2>2, <2>3
<1>7. CASE Fault /\ txLeftOpen' = TRUE /\ UNCHANGED <<headers, headerCount>>
  BY <1>1, <1>7, FaultIsCounted, HeadersSame
<1>8. QED
  BY <1>5, <1>6, <1>7 DEF StoreBlob

LEMMA StoreBlobBans ==
  ASSUME BansInv, NEW n \in HnsNames, NEW local \in BOOLEAN, StoreBlob(n, local)
  PROVE  BansInv'
<1>1. /\ HeadersCounted'
      /\ headers' \in SUBSET HnsNames /\ headerCount' \in Nat
      /\ faults' \in 0..MaxFaults /\ txLeftOpen' \in BOOLEAN /\ (txLeftOpen => txLeftOpen')
  BY StoreBlobHeaders
<1>2. /\ daemon.pc = "up" /\ daemon' = daemon /\ banned' = banned /\ listed' = listed
      /\ hsdUp' = hsdUp
      /\ local \/ n \notin banned
      /\ blobs' = blobs \cup {n}
      /\ published' = IF local THEN published \cup {n} ELSE published
  BY DEF StoreBlob
<1>3. BansTyped'
  BY <1>1, <1>2 DEF BansInv, BansTyped
<1>4. BansOK'
  BY <1>1, <1>2 DEF BansInv, BansOK
<1>5. QED
  BY <1>1, <1>3, <1>4 DEF BansInv

LEMMA ResetBlobsBans ==
  ASSUME BansInv, ResetBlobs
  PROVE  BansInv'
<1>1. daemon.pc = "down" /\ daemon' = daemon
  BY DEF ResetBlobs
<1>2. /\ HeadersCounted'
      /\ headers' \in SUBSET HnsNames /\ headerCount' \in Nat
      /\ blobs' \in SUBSET HnsNames /\ faults' \in 0..MaxFaults
  <2>0. headers \in SUBSET HnsNames /\ blobs \in SUBSET HnsNames /\ faults \in 0..MaxFaults
    BY DEF BansInv, BansTyped
  <2>1. CASE blobs' = {} /\ TruncateHeaderStore
    <3>1. headerCount' = 0 /\ headers' \in SUBSET HnsNames
      BY <2>0, <2>1 DEF TruncateHeaderStore
    <3>2. Cardinality(headers') \in Nat
      BY <3>1, HeadersFinite
    <3>3. faults' \in 0..MaxFaults /\ (headers' = {} \/ faults' # 0)
      BY <2>0, <2>1, FaultCounts DEF TruncateHeaderStore
    <3>4. Cardinality({}) = 0
      BY FS_EmptySet
    <3>5. HeadersCounted'
      BY <3>1, <3>2, <3>3, <3>4, SMT DEF HeadersCounted
    <3>6. QED
      BY <2>1, <3>1, <3>3, <3>5
  <2>2. CASE Fault /\ blobs' \in SUBSET blobs /\ UNCHANGED <<headers, headerCount>>
    BY <2>0, <2>2, FaultIsCounted, HeadersSame DEF BansInv, BansTyped
  <2>3. QED
    BY <2>1, <2>2 DEF ResetBlobs
<1>3. BansTyped'
  BY <1>1, <1>2 DEF BansInv, BansTyped, ResetBlobs, history
<1>4. BansOK'
  BY <1>1 DEF BansOK
<1>5. QED
  BY <1>2, <1>3, <1>4 DEF BansInv

LEMMA InitBans == Init => BansInv
<1>1. SUFFICES ASSUME Init PROVE BansInv
  OBVIOUS
<1>2. daemon \in DaemonState /\ daemon.pc = "down"
  BY <1>1, DaemonKinds DEF Init
<1>3. BansTyped
  <2>1. 0 \in 0..MaxFaults /\ 0 \in Nat
    BY BoundsAreNats, SMT
  <2>2. QED
    BY <1>1, <1>2, <2>1 DEF Init, BansTyped
<1>4. Cardinality({}) = 0
  BY FS_EmptySet
<1>5. HeadersCounted
  BY <1>1, <1>4, SMT DEF Init, HeadersCounted
<1>6. QED
  BY <1>2, <1>3, <1>5 DEF BansInv, BansOK

LEMMA NextBans == BansInv /\ [Next]_vars => BansInv'
<1>1. SUFFICES ASSUME BansInv, [Next]_vars PROVE BansInv'
  OBVIOUS
<1> USE <1>1
<1>2. hsdUp \in BOOLEAN /\ txLeftOpen \in BOOLEAN /\ faults \in 0..MaxFaults
  BY DEF BansInv, BansTyped
<1>3. CASE UNCHANGED vars
  BY <1>2, <1>3, BansSame DEF vars, history
<1>4. ASSUME NEW b \in Blocks, Mine(b) \/ \E h \in 1..MaxHeight : Reorganize(h, b)
      PROVE  BansInv'
  BY <1>2, <1>4, BansSame DEF Mine, Reorganize, history
<1>5. CASE HsdFails
  <2>1. faults' \in 0..MaxFaults /\ (faults' = 0 => faults = 0)
    BY <1>5, FaultIsCounted DEF HsdFails
  <2>2. QED
    BY <1>2, <1>5, <2>1, BansSame DEF HsdFails, history
<1>6. CASE HsdRecovers
  BY <1>2, <1>6, BansSame DEF HsdRecovers, history
<1>7. CASE StartStep
  BY <1>7, IngestBanListsBans, FetchListFileBans, BanNameBans, IngestCommitsBans,
     ConnectHsdBans DEF StartStep
<1>8. CASE DoSync \/ FetchBlocks
  BY <1>2, <1>8, BansSame DEF DoSync, FetchBlocks, history
<1>9. CASE ImportBlock
  <2>1. /\ faults' \in 0..MaxFaults /\ (faults' = 0 => faults = 0)
        /\ txLeftOpen' \in BOOLEAN /\ (txLeftOpen => txLeftOpen')
    BY <1>2, <1>9, FaultIsCounted DEF ImportBlock
  <2>2. QED
    BY <1>2, <1>9, <2>1, BansSame DEF ImportBlock, history
<1>10. CASE DoSyncReturns
  <2>1. faults' \in 0..MaxFaults /\ (faults' = 0 => faults = 0)
    BY <1>2, <1>10, FaultIsCounted DEF DoSyncReturns
  <2>2. QED
    BY <1>2, <1>10, <2>1, BansSame DEF DoSyncReturns, history
<1>11. CASE ResetNameStore
  BY <1>2, <1>11, BansSame DEF ResetNameStore
<1>12. ASSUME NEW n \in 0..Cardinality(HnsNames) + 1, ImportBlockFails(n)
       PROVE  BansInv'
  <2>1. faults' \in 0..MaxFaults /\ (faults' = 0 => faults = 0)
    BY <1>12, FaultIsCounted DEF ImportBlockFails
  <2>2. QED
    BY <1>2, <1>12, <2>1, BansSame DEF ImportBlockFails, history
<1>13. QED
  BY <1>3, <1>4, <1>5, <1>6, <1>7, <1>8, <1>9, <1>10, <1>11, <1>12, IngestFailsBans,
     CrashBans, ResetBlobsBans, StoreBlobBans DEF Next, ImporterStep

LEMMA AlwaysBans == Spec => []BansInv
  BY InitBans, NextBans, PTL DEF Spec

\* The bans in force while the services run are those of the lists of this start
\* (IngestBanLists of protocol/moderation.go), for any lists and any failures
THEOREM BansAreCurrent == Spec => []BansCurrent
<1>1. BansInv => BansCurrent
  BY DEF BansInv, BansOK, BansCurrent
<1>2. QED
  BY <1>1, AlwaysBans, PTL

\* A banned name has no blob but one that a client of this process published
\* (banName of protocol/moderation.go removes it before the bans are committed)
THEOREM BannedRemoved == Spec => []BannedHaveNoBlob
<1>1. BansInv => BannedHaveNoBlob
  BY DEF BansInv, BansOK, BannedHaveNoBlob
<1>2. QED
  BY <1>1, AlwaysBans, PTL

\* The count of headers never exceeds the headers there are and is their number
\* as long as nothing failed (store/headers.go), for any set of names
THEOREM CountAgrees == Spec => []HeadersCounted
<1>1. BansInv => HeadersCounted
  BY DEF BansInv
<1>2. QED
  BY <1>1, AlwaysBans, PTL

-----------------------------------------------------------------------------
(* Induction *)

\* A set of natural numbers that is not empty has a least element.
LEMMA LeastElement ==
  ASSUME NEW T \in SUBSET Nat, T # {}
  PROVE  \E x \in T : \A y \in T : x <= y
<1> DEFINE R == {p \in Nat \X Nat : p[1] < p[2]}
<1>1. R = OpToRel(<, Nat)
  BY DEF OpToRel
<1>2. IsWellFoundedOn(R, Nat)
  BY <1>1, NatLessThanWellFounded
<1> HIDE DEF R
<1>3. PICK x \in T : \A y \in T : ~(<<y, x>> \in R)
  BY <1>2, WFMin
<1>4. \A u, v \in Nat : u < v => <<u, v>> \in R
  BY DEF R
<1>5. \A y \in T : ~(y < x)
  BY <1>3, <1>4
<1> QED BY <1>5, SMT

\* A set that contains 0 and the successors of its elements contains all numbers.
LEMMA Induction ==
  ASSUME NEW T \in SUBSET Nat, 0 \in T, \A n \in T : n + 1 \in T
  PROVE  \A n \in Nat : n \in T
<1> SUFFICES ASSUME NEW m \in Nat, m \notin T PROVE FALSE
  OBVIOUS
<1>1. PICK x \in Nat \ T : \A y \in Nat \ T : x <= y
  <2>1. Nat \ T \in SUBSET Nat /\ Nat \ T # {}
    OBVIOUS
  <2> QED BY <2>1, LeastElement
<1>2. x # 0 /\ x - 1 \in Nat /\ x - 1 < x /\ (x - 1) + 1 = x
  BY <1>1, SMT
<1>3. x - 1 \in T
  BY <1>1, <1>2, SMT
<1> QED BY <1>1, <1>2, <1>3

\* f has the value a before a loop of n rounds, and each round changes it by g.
Rounds(f, n, a, g) == f[0] = a /\ \A i \in 1..n : f[i] = g[i][f[i - 1]]

\* Every loop has such values: the recursive functions of the model exist.
LEMMA LoopRuns ==
  ASSUME NEW N \in Nat, NEW S, NEW a \in S, NEW g \in [1..N -> [S -> S]]
  PROVE  \E f \in [0..N -> S] : Rounds(f, N, a, g)
<1> DEFINE T == {n \in Nat : n <= N => \E f \in [0..n -> S] : Rounds(f, n, a, g)}
<1>1. 0 \in T
  <2> DEFINE f == [i \in 0..0 |-> a]
  <2>1. f \in [0..0 -> S] /\ f[0] = a
    BY SMT
  <2> HIDE DEF f
  <2>2. Rounds(f, 0, a, g)
    BY <2>1, SMT DEF Rounds
  <2> QED BY <2>1, <2>2
<1>2. ASSUME NEW n \in T PROVE n + 1 \in T
  <2> SUFFICES ASSUME n + 1 <= N
               PROVE  \E h \in [0..(n + 1) -> S] : Rounds(h, n + 1, a, g)
    BY SMT
  <2>1. n \in Nat /\ n <= N /\ n + 1 \in 1..N
    BY SMT
  <2>2. PICK f \in [0..n -> S] : Rounds(f, n, a, g)
    BY <2>1
  <2> DEFINE h == [i \in 0..(n + 1) |-> IF i = n + 1 THEN g[n + 1][f[n]] ELSE f[i]]
  <2>3. g[n + 1][f[n]] \in S
    BY <2>1, <2>2, SMT
  <2>4. h \in [0..(n + 1) -> S] /\ \A i \in 0..n : h[i] = f[i]
    BY <2>1, <2>2, <2>3, SMT
  <2>5. h[n + 1] = g[n + 1][f[n]]
    BY <2>1, SMT
  <2> HIDE DEF h
  <2>6. ASSUME NEW i \in 1..(n + 1) PROVE h[i] = g[i][h[i - 1]]
    <3>1. CASE i = n + 1
      <4>1. h[i - 1] = f[n]
        BY <2>1, <2>4, <3>1, SMT
      <4> QED BY <2>5, <3>1, <4>1
    <3>2. CASE i # n + 1
      <4>1. i \in 1..n /\ i \in 0..n /\ i - 1 \in 0..n
        BY <2>1, <3>2, SMT
      <4>2. f[i] = g[i][f[i - 1]]
        BY <2>2, <4>1 DEF Rounds
      <4> QED BY <2>4, <4>1, <4>2
    <3> QED BY <3>1, <3>2
  <2>7. h[0] = a
    BY <2>1, <2>2, <2>4, SMT DEF Rounds
  <2>8. Rounds(h, n + 1, a, g)
    BY <2>6, <2>7 DEF Rounds
  <2> QED BY <2>4, <2>8
<1>3. \A n \in Nat : n \in T
  <2>1. T \in SUBSET Nat
    OBVIOUS
  <2> HIDE DEF T
  <2> QED BY <1>1, <1>2, <2>1, Induction
<1> QED BY <1>3, SMT

\* m is the last of the rounds 1..n in which c holds.
LastOf(n, c, m) == m \in 1..n /\ c[m] /\ \A j \in 1..n : j > m => ~c[j]

\* In each round f becomes w if c holds and stays otherwise.
Selects(f, n, c, w) == \A i \in 1..n : f[i] = IF c[i] THEN w[i] ELSE f[i - 1]

\* f ends as it began if c never holds, else as the w of the last round where c holds.
Decided(f, n, c, w) ==
  \/ f[n] = f[0] /\ \A i \in 1..n : ~c[i]
  \/ \E m \in 1..n : LastOf(n, c, m) /\ f[n] = w[m]

\* In a loop that replaces the value by w in the rounds in which c holds, and keeps it
\* in the others, the last of these decides.
LEMMA LastWins ==
  ASSUME NEW N \in Nat, NEW f, NEW c, NEW w, Selects(f, N, c, w)
  PROVE  Decided(f, N, c, w)
<1> DEFINE T == {n \in Nat : n <= N => Decided(f, n, c, w)}
<1>1. 0 \in T
  BY SMT DEF Decided
<1>2. ASSUME NEW n \in T PROVE n + 1 \in T
  <2> SUFFICES ASSUME n + 1 <= N PROVE Decided(f, n + 1, c, w)
    BY SMT
  <2>1. n \in Nat /\ n + 1 \in 1..N /\ (n + 1) - 1 = n /\ Decided(f, n, c, w)
    BY SMT
  <2>2. f[n + 1] = IF c[n + 1] THEN w[n + 1] ELSE f[n]
    BY <2>1 DEF Selects
  <2>3. CASE c[n + 1]
    <3>1. LastOf(n + 1, c, n + 1)
      BY <2>1, <2>3, SMT DEF LastOf
    <3> QED BY <2>1, <2>2, <2>3, <3>1, SMT DEF Decided
  <2>4. CASE ~c[n + 1]
    <3>1. f[n + 1] = f[n] /\ \A i \in 1..(n + 1) : i = n + 1 \/ i \in 1..n
      BY <2>1, <2>2, <2>4, SMT
    <3>2. CASE f[n] = f[0] /\ \A i \in 1..n : ~c[i]
      BY <2>4, <3>1, <3>2 DEF Decided
    <3>3. ASSUME NEW m \in 1..n, LastOf(n, c, m), f[n] = w[m] PROVE Decided(f, n + 1, c, w)
      <4>1. m \in 1..(n + 1)
        BY <2>1, SMT
      <4>2. LastOf(n + 1, c, m)
        BY <2>1, <2>4, <3>1, <3>3, <4>1 DEF LastOf
      <4> QED BY <3>1, <3>3, <4>1, <4>2 DEF Decided
    <3> QED BY <2>1, <3>2, <3>3 DEF Decided
  <2> QED BY <2>3, <2>4
<1>3. \A n \in Nat : n \in T
  <2>1. T \in SUBSET Nat
    OBVIOUS
  <2> HIDE DEF T
  <2> QED BY <1>1, <1>2, <2>1, Induction
<1>4. N \in T /\ N <= N
  BY <1>3, SMT
<1> QED BY <1>4

\* A loop keeps what holds before it and what each round keeps.
LEMMA LoopKeeps ==
  ASSUME NEW N \in Nat, NEW G, NEW f, f[0] \in G,
         \A i \in 1..N : f[i - 1] \in G => f[i] \in G
  PROVE  \A i \in 0..N : f[i] \in G
<1> DEFINE T == {n \in Nat : n <= N => f[n] \in G}
<1>1. 0 \in T
  OBVIOUS
<1>2. ASSUME NEW n \in T PROVE n + 1 \in T
  <2>1. n + 1 <= N => n + 1 \in 1..N /\ (n + 1) - 1 = n /\ n <= N
    BY SMT
  <2> QED BY <2>1, SMT
<1>3. \A n \in Nat : n \in T
  <2>1. T \in SUBSET Nat
    OBVIOUS
  <2> HIDE DEF T
  <2> QED BY <1>1, <1>2, <2>1, Induction
<1> QED BY <1>3, SMT

\* What IsSeq says of a value
LEMMA SeqOfItself ==
  ASSUME NEW s, IsSeq(s)
  PROVE  Len(s) \in Nat /\ DOMAIN s = 1..Len(s)
BY SMT DEF IsSeq

----------------------------------------------------------------------------
(* The loops of ExtractTXTRecordsBlock *)

\* A record with a key, and the position of its last one
HasKey(entries) == \E i \in 1..Len(entries) : entries[i] \in Keys

IsLastKey(entries, m) ==
  /\ m \in 1..Len(entries) /\ entries[m] \in Keys
  /\ \A j \in 1..Len(entries) : j > m => entries[j] \notin Keys

\* The loop over the entries of a record ends with its last key, if it has one.
LEMMA RecordKeyIs ==
  ASSUME NEW entries, IsSeq(entries), NEW pub
  PROVE  \/ RecordKey(entries, pub) = pub /\ ~HasKey(entries)
         \/ \E m \in 1..Len(entries) : IsLastKey(entries, m) /\ RecordKey(entries, pub) = entries[m]
<1> DEFINE N == Len(entries)
           S == {pub} \cup Keys
           c == [i \in 1..N |-> entries[i] \in Keys]
           g == [i \in 1..N |-> [x \in S |-> IF entries[i] \in Keys THEN entries[i] ELSE x]]
           P(h) == h = [i \in 0..N |->
                          IF i = 0 THEN pub
                          ELSE IF ParseFNRecord(entries[i]) = None
                          THEN h[i - 1] ELSE ParseFNRecord(entries[i])]
           key == CHOOSE h : P(h)
<1>0. N \in Nat
  BY SeqOfItself
<1>1. RecordKey(entries, pub) = key[N]
  BY DEF RecordKey
<1>2. g \in [1..N -> [S -> S]] /\ pub \in S
  OBVIOUS
<1> HIDE DEF S, g, key, N
<1>3. PICK f \in [0..N -> S] : Rounds(f, N, pub, g)
  BY <1>0, <1>2, LoopRuns
<1>4. \A i \in 1..N : ParseFNRecord(entries[i]) = IF entries[i] \in Keys THEN entries[i] ELSE None
  BY DEF ParseFNRecord
<1>5. P(f)
  <2>1. ASSUME NEW i \in 0..N, i # 0
        PROVE  f[i] = IF ParseFNRecord(entries[i]) = None
                      THEN f[i - 1] ELSE ParseFNRecord(entries[i])
    <3>1. i \in 1..N /\ i - 1 \in 0..N
      BY <1>0, <2>1, SMT
    <3>2. f[i - 1] \in S /\ f[i] = g[i][f[i - 1]]
      BY <1>3, <3>1 DEF Rounds
    <3>3. f[i] = IF entries[i] \in Keys THEN entries[i] ELSE f[i - 1]
      BY <3>1, <3>2 DEF g
    <3> QED BY <1>4, <3>1, <3>3, NoneIsNoKey
  <2> QED BY <1>3, <2>1 DEF Rounds
<1>6. P(key)
  <2> HIDE DEF P
  <2> QED BY <1>5 DEF key
<1>7. key[0] = pub
  BY <1>0, <1>6, SMT
<1>8. ASSUME NEW i \in 1..N PROVE key[i] = IF c[i] THEN entries[i] ELSE key[i - 1]
  <2>1. i \in 0..N /\ i # 0
    BY <1>0, SMT
  <2>2. key[i] = IF ParseFNRecord(entries[i]) = None
                 THEN key[i - 1] ELSE ParseFNRecord(entries[i])
    BY <1>6, <2>1
  <2> QED BY <1>4, <2>2, NoneIsNoKey
<1>9. \A i \in 1..N : c[i] = (entries[i] \in Keys)
  OBVIOUS
<1> HIDE DEF c
<1>10. Decided(key, N, c, entries)
  <2>1. Selects(key, N, c, entries)
    BY <1>8 DEF Selects
  <2> QED BY <1>0, <2>1, LastWins
<1>11. CASE key[N] = key[0] /\ \A i \in 1..N : ~c[i]
  BY <1>1, <1>7, <1>9, <1>11 DEF HasKey, N
<1>12. ASSUME NEW m \in 1..N, LastOf(N, c, m), key[N] = entries[m]
       PROVE  IsLastKey(entries, m) /\ RecordKey(entries, pub) = entries[m]
  BY <1>1, <1>9, <1>12 DEF LastOf, IsLastKey, N
<1> QED BY <1>10, <1>11, <1>12 DEF Decided, N

\* The key from before the record matters only if the record has none.
LEMMA RecordKeySplit ==
  ASSUME NEW entries, IsSeq(entries), NEW pub
  PROVE  /\ RecordKey(entries, pub) = IF HasKey(entries) THEN RecordKey(entries, None) ELSE pub
         /\ HasKey(entries) => \E m \in 1..Len(entries) :
                                 IsLastKey(entries, m) /\ RecordKey(entries, None) = entries[m]
<1>0. Len(entries) \in Nat
  BY SeqOfItself
<1>1. \A x, y : IsLastKey(entries, x) /\ IsLastKey(entries, y) => x = y
  BY <1>0, SMT DEF IsLastKey
<1>2. \A x : IsLastKey(entries, x) => HasKey(entries)
  BY DEF IsLastKey, HasKey
<1> QED BY <1>1, <1>2, RecordKeyIs

\* e in record r is the last key of an output.
IsLastEntry(out, r, e) ==
  /\ r \in 1..Len(out.records) /\ IsLastKey(out.records[r], e)
  /\ \A j \in 1..Len(out.records) : j > r => ~HasKey(out.records[j])

\* The records of an output, and their entries, are sequences.
Nested(out) ==
  IsSeq(out.records) /\ \A r \in 1..Len(out.records) : IsSeq(out.records[r])

\* The loop over the records of an output ends with its last key.
LEMMA OutputKeyIs ==
  ASSUME NEW out, Nested(out)
  PROVE  \/ OutputKey(out) = None /\ \A r \in 1..Len(out.records) : ~HasKey(out.records[r])
         \/ \E r, e : IsLastEntry(out, r, e) /\ OutputKey(out) = out.records[r][e]
<1> DEFINE rs == out.records
           N == Len(rs)
           S == {None} \cup Keys
           c == [i \in 1..N |-> HasKey(rs[i])]
           w == [i \in 1..N |-> RecordKey(rs[i], None)]
           g == [i \in 1..N |-> [x \in S |-> RecordKey(rs[i], x)]]
           P(h) == h = [i \in 0..N |-> IF i = 0 THEN None ELSE RecordKey(rs[i], h[i - 1])]
           key == CHOOSE h : P(h)
<1>0. N \in Nat /\ \A i \in 1..N : IsSeq(rs[i])
  BY SeqOfItself DEF Nested
<1>1. OutputKey(out) = key[N]
  BY DEF OutputKey
<1> HIDE DEF key, rs
<1>2. g \in [1..N -> [S -> S]] /\ None \in S
  <2>1. ASSUME NEW i \in 1..N, NEW x \in S PROVE RecordKey(rs[i], x) \in S
    BY <1>0, RecordKeyIs DEF IsLastKey
  <2> QED BY <2>1
<1> HIDE DEF S, g, N
<1>3. PICK f \in [0..N -> S] : Rounds(f, N, None, g)
  BY <1>0, <1>2, LoopRuns
<1>4. P(f)
  <2>1. ASSUME NEW i \in 0..N, i # 0 PROVE f[i] = RecordKey(rs[i], f[i - 1])
    <3>1. i \in 1..N /\ i - 1 \in 0..N
      BY <1>0, <2>1, SMT
    <3>2. f[i - 1] \in S /\ f[i] = g[i][f[i - 1]]
      BY <1>3, <3>1 DEF Rounds
    <3> QED BY <3>1, <3>2 DEF g
  <2> QED BY <1>3, <2>1 DEF Rounds
<1>5. P(key)
  <2> HIDE DEF P
  <2> QED BY <1>4 DEF key
<1>6. key[0] = None
  BY <1>0, <1>5, SMT
<1>7. ASSUME NEW i \in 1..N PROVE key[i] = IF c[i] THEN w[i] ELSE key[i - 1]
  <2>1. i \in 0..N /\ i # 0
    BY <1>0, SMT
  <2>2. key[i] = RecordKey(rs[i], key[i - 1])
    BY <1>5, <2>1
  <2> QED BY <1>0, <2>2, RecordKeySplit
<1>8. \A i \in 1..N : c[i] = HasKey(rs[i]) /\ w[i] = RecordKey(rs[i], None)
  OBVIOUS
<1> HIDE DEF c, w
<1>9. Decided(key, N, c, w)
  <2>1. Selects(key, N, c, w)
    BY <1>7 DEF Selects
  <2> QED BY <1>0, <2>1, LastWins
<1>10. CASE key[N] = key[0] /\ \A i \in 1..N : ~c[i]
  BY <1>1, <1>6, <1>8, <1>10 DEF N, rs
<1>11. ASSUME NEW r \in 1..N, LastOf(N, c, r), key[N] = w[r]
       PROVE  \E e : IsLastEntry(out, r, e) /\ OutputKey(out) = out.records[r][e]
  <2>1. HasKey(rs[r]) /\ \A j \in 1..N : j > r => ~HasKey(rs[j])
    BY <1>8, <1>11 DEF LastOf
  <2>2. PICK e \in 1..Len(rs[r]) : IsLastKey(rs[r], e) /\ RecordKey(rs[r], None) = rs[r][e]
    BY <1>0, <2>1, RecordKeySplit
  <2>3. OutputKey(out) = rs[r][e]
    BY <1>1, <1>8, <1>11, <2>2
  <2>4. IsLastEntry(out, r, e)
    BY <2>1, <2>2 DEF IsLastEntry, N, rs
  <2> QED BY <2>3, <2>4 DEF rs
<1> QED BY <1>9, <1>10, <1>11 DEF Decided

\* An output without a key is told from one with a key by OutputKey.
LEMMA OutputKeyFound ==
  ASSUME NEW out, Nested(out)
  PROVE  /\ OutputKey(out) # None <=> \E r \in 1..Len(out.records) : HasKey(out.records[r])
         /\ OutputKey(out) # None => /\ OutputKey(out) \in Keys
                                     /\ \E r, e : IsLastEntry(out, r, e)
                                                    /\ OutputKey(out) = out.records[r][e]
<1>1. \A r, e : IsLastEntry(out, r, e) =>
        /\ out.records[r][e] \in Keys /\ r \in 1..Len(out.records) /\ HasKey(out.records[r])
  BY DEF IsLastEntry, IsLastKey, HasKey
<1> QED BY <1>1, OutputKeyIs, NoneIsNoKey

\* Records as extracted
FNRecord == [name : HnsNames, key : Keys]

\* k is the key of the last record of a name, or None.
Final(recs, n, k) ==
  \/ k = None /\ \A i \in 1..Len(recs) : recs[i].name # n
  \/ \E i \in 1..Len(recs) :
       /\ recs[i].name = n /\ k = recs[i].key
       /\ \A j \in 1..Len(recs) : j > i => recs[j].name # n

\* One more record decides for its name and for no other.
LEMMA FinalAppends ==
  ASSUME NEW recs \in Seq(FNRecord), NEW rec \in FNRecord, NEW n, NEW k, Final(recs, n, k)
  PROVE  Final(Append(recs, rec), n, IF rec.name = n THEN rec.key ELSE k)
<1> DEFINE all == Append(recs, rec)
           N == Len(recs)
<1>1. /\ N \in Nat /\ Len(all) = N + 1 /\ all[N + 1] = rec
      /\ \A i \in 1..N : all[i] = recs[i]
  BY SMT
<1> HIDE DEF all
<1>2. \A i \in 1..(N + 1) : i = N + 1 \/ i \in 1..N
  BY <1>1, SMT
<1>3. CASE rec.name = n
  <2>1. N + 1 \in 1..(N + 1) /\ \A j \in 1..(N + 1) : ~(j > N + 1)
    BY <1>1, SMT
  <2>2. Final(all, n, rec.key)
    BY <1>1, <1>3, <2>1 DEF Final
  <2> QED BY <1>3, <2>2 DEF all
<1>4. CASE rec.name # n
  <2>1. CASE k = None /\ \A i \in 1..N : recs[i].name # n
    <3>1. Final(all, n, k)
      BY <1>1, <1>2, <1>4, <2>1 DEF Final
    <3> QED BY <1>4, <3>1 DEF all
  <2>2. ASSUME NEW i \in 1..N, recs[i].name = n, k = recs[i].key,
               \A j \in 1..N : j > i => recs[j].name # n
        PROVE  Final(all, n, k)
    <3>1. i \in 1..(N + 1) /\ all[i].name = n /\ k = all[i].key
      BY <1>1, <2>2, SMT
    <3>2. \A j \in 1..(N + 1) : j > i => all[j].name # n
      BY <1>1, <1>2, <1>4, <2>2
    <3> QED BY <1>1, <3>1, <3>2 DEF Final
  <2> QED BY <1>4, <2>1, <2>2 DEF Final, all
<1> QED BY <1>3, <1>4

\* A transaction is a sequence of outputs with known names.
IsTx(tx) ==
  IsSeq(tx) /\ \A o \in 1..Len(tx) : tx[o].name \in HnsNames /\ Nested(tx[o])

\* The values of the loop over the outputs of a transaction
LEMMA TxLoop ==
  ASSUME NEW tx, IsTx(tx)
  PROVE  \E recs : /\ ExtractTXTRecordsTx(tx) = recs[Len(tx)]
                   /\ recs[0] = <<>>
                   /\ \A i \in 0..Len(tx) : recs[i] \in Seq(FNRecord)
                   /\ \A i \in 1..Len(tx) :
                        IF HasRecord(tx[i])
                        THEN /\ [name |-> tx[i].name, key |-> OutputKey(tx[i])] \in FNRecord
                             /\ recs[i] = Append(recs[i - 1],
                                                 [name |-> tx[i].name, key |-> OutputKey(tx[i])])
                        ELSE recs[i] = recs[i - 1]
<1> DEFINE N == Len(tx)
           S == Seq(FNRecord)
           rec(i) == [name |-> tx[i].name, key |-> OutputKey(tx[i])]
           g == [i \in 1..N |-> [x \in S |-> IF HasRecord(tx[i]) THEN Append(x, rec(i)) ELSE x]]
           P(h) == h = [i \in 0..N |->
                          IF i = 0 THEN <<>>
                          ELSE IF HasRecord(tx[i])
                          THEN Append(h[i - 1], [name |-> tx[i].name, key |-> OutputKey(tx[i])])
                          ELSE h[i - 1]]
           recs == CHOOSE h : P(h)
<1>0. N \in Nat /\ \A i \in 1..N : tx[i].name \in HnsNames /\ Nested(tx[i])
  BY SeqOfItself DEF IsTx
<1>1. ExtractTXTRecordsTx(tx) = recs[N]
  BY DEF ExtractTXTRecordsTx
<1> HIDE DEF recs, N
<1>2. \A i \in 1..N : HasRecord(tx[i]) => rec(i) \in FNRecord
  BY <1>0, OutputKeyFound DEF HasRecord, FNRecord
<1> HIDE DEF rec
<1>3. g \in [1..N -> [S -> S]] /\ <<>> \in S
  BY <1>2, SMT
<1> HIDE DEF S, g
<1>4. PICK f \in [0..N -> S] : Rounds(f, N, <<>>, g)
  BY <1>0, <1>3, LoopRuns
<1>5. ASSUME NEW i \in 1..N
      PROVE  f[i] = IF HasRecord(tx[i]) THEN Append(f[i - 1], rec(i)) ELSE f[i - 1]
  <2>1. i - 1 \in 0..N
    BY <1>0, SMT
  <2>2. f[i - 1] \in S /\ f[i] = g[i][f[i - 1]]
    BY <1>4, <2>1 DEF Rounds
  <2> QED BY <2>2 DEF g
<1>6. P(f)
  <2>1. ASSUME NEW i \in 0..N, i # 0
        PROVE  f[i] = IF HasRecord(tx[i])
                      THEN Append(f[i - 1], [name |-> tx[i].name, key |-> OutputKey(tx[i])])
                      ELSE f[i - 1]
    <3>1. i \in 1..N
      BY <1>0, <2>1, SMT
    <3> QED BY <1>5, <3>1 DEF rec
  <2> QED BY <1>4, <2>1 DEF Rounds
<1>7. P(recs)
  <2> HIDE DEF P
  <2> QED BY <1>6 DEF recs
<1>8. recs[0] = <<>>
  BY <1>0, <1>7, SMT
<1>9. ASSUME NEW i \in 1..N
      PROVE  recs[i] = IF HasRecord(tx[i]) THEN Append(recs[i - 1], rec(i)) ELSE recs[i - 1]
  <2>1. i \in 0..N /\ i # 0
    BY <1>0, SMT
  <2> QED BY <1>7, <2>1 DEF rec
<1> HIDE DEF P
<1>10. \A i \in 0..N : recs[i] \in S
  <2>1. ASSUME NEW i \in 1..N, recs[i - 1] \in S PROVE recs[i] \in S
    <3>1. CASE HasRecord(tx[i])
      <4>1. recs[i] = Append(recs[i - 1], rec(i)) /\ rec(i) \in FNRecord
        BY <1>2, <1>9, <3>1
      <4> QED BY <2>1, <4>1, SMT DEF S
    <3>2. CASE ~HasRecord(tx[i])
      BY <1>9, <2>1, <3>2
    <3> QED BY <3>1, <3>2
  <2> QED BY <1>0, <1>3, <1>8, <2>1, LoopKeeps
<1>11. \A i \in 1..N : IF HasRecord(tx[i])
                       THEN rec(i) \in FNRecord /\ recs[i] = Append(recs[i - 1], rec(i))
                       ELSE recs[i] = recs[i - 1]
  BY <1>2, <1>9
<1> QED BY <1>1, <1>8, <1>10, <1>11 DEF N, S, rec

\* The output publishes a key for the name.
Publishes(out, n) == HasRecord(out) /\ out.name = n

\* o is the last such output of a transaction.
IsLastOutput(tx, n, o) ==
  /\ o \in 1..Len(tx) /\ Publishes(tx[o], n)
  /\ \A j \in 1..Len(tx) : j > o => ~Publishes(tx[j], n)

\* The last record of a name in a transaction is that of the last output that
\* publishes a key for it.
LEMMA TxKey ==
  ASSUME NEW tx, IsTx(tx), NEW n
  PROVE  \E k : /\ Final(ExtractTXTRecordsTx(tx), n, k)
                /\ \/ k = None /\ \A o \in 1..Len(tx) : ~Publishes(tx[o], n)
                   \/ \E o : IsLastOutput(tx, n, o) /\ k = OutputKey(tx[o])
<1> DEFINE N == Len(tx)
           c == [i \in 1..N |-> Publishes(tx[i], n)]
           w == [i \in 1..N |-> OutputKey(tx[i])]
           S == {None} \cup {w[i] : i \in 1..N}
           g == [i \in 1..N |-> [x \in S |-> IF c[i] THEN w[i] ELSE x]]
<1>0. N \in Nat
  BY SeqOfItself DEF IsTx
<1>1. PICK recs : /\ ExtractTXTRecordsTx(tx) = recs[N] /\ recs[0] = <<>>
                  /\ \A i \in 0..N : recs[i] \in Seq(FNRecord)
                  /\ \A i \in 1..N :
                       IF HasRecord(tx[i])
                       THEN /\ [name |-> tx[i].name, key |-> OutputKey(tx[i])] \in FNRecord
                            /\ recs[i] = Append(recs[i - 1],
                                                [name |-> tx[i].name, key |-> OutputKey(tx[i])])
                       ELSE recs[i] = recs[i - 1]
  BY TxLoop
<1>2. g \in [1..N -> [S -> S]] /\ None \in S
  OBVIOUS
<1>3. \A i \in 1..N : c[i] = Publishes(tx[i], n) /\ w[i] = OutputKey(tx[i])
  OBVIOUS
<1>4. \A i \in 1..N : \A x \in S : g[i][x] = IF c[i] THEN w[i] ELSE x
  OBVIOUS
<1> HIDE DEF N, S, c, w, g
<1>5. PICK v \in [0..N -> S] : Rounds(v, N, None, g)
  BY <1>0, <1>2, LoopRuns
<1>6. ASSUME NEW i \in 1..N PROVE v[i] = IF c[i] THEN w[i] ELSE v[i - 1]
  <2>1. i - 1 \in 0..N
    BY <1>0, SMT
  <2>2. v[i - 1] \in S /\ v[i] = g[i][v[i - 1]]
    BY <1>5, <2>1 DEF Rounds
  <2> QED BY <1>4, <2>2
<1>7. Decided(v, N, c, w)
  <2>1. Selects(v, N, c, w)
    BY <1>6 DEF Selects
  <2> QED BY <1>0, <2>1, LastWins
<1>8. \A i \in 0..N : Final(recs[i], n, v[i])
  <2> DEFINE G == {TRUE}
             p == [i \in 0..N |-> Final(recs[i], n, v[i])]
  <2>1. p[0] \in G
    <3>1. v[0] = None /\ Len(recs[0]) = 0 /\ 0 \in 0..N
      BY <1>0, <1>1, <1>5, SMT DEF Rounds
    <3> QED BY <3>1, SMT DEF Final
  <2>2. ASSUME NEW i \in 1..N, p[i - 1] \in G PROVE p[i] \in G
    <3>1. i - 1 \in 0..N /\ i \in 0..N
      BY <1>0, SMT
    <3>2. Final(recs[i - 1], n, v[i - 1]) /\ recs[i - 1] \in Seq(FNRecord)
      BY <1>1, <2>2, <3>1
    <3>3. Final(recs[i], n, v[i])
      <4>1. CASE HasRecord(tx[i])
        <5> DEFINE rec == [name |-> tx[i].name, key |-> OutputKey(tx[i])]
        <5>1. rec \in FNRecord /\ recs[i] = Append(recs[i - 1], rec)
          BY <1>1, <4>1
        <5>2. rec.name = tx[i].name /\ rec.key = OutputKey(tx[i])
          OBVIOUS
        <5> HIDE DEF rec
        <5>3. v[i] = IF rec.name = n THEN rec.key ELSE v[i - 1]
          BY <1>3, <1>6, <4>1, <5>2 DEF Publishes
        <5>4. Final(Append(recs[i - 1], rec), n, IF rec.name = n THEN rec.key ELSE v[i - 1])
          BY <3>2, <5>1, FinalAppends
        <5> QED BY <5>1, <5>3, <5>4
      <4>2. CASE ~HasRecord(tx[i])
        <5>1. recs[i] = recs[i - 1]
          BY <1>1, <4>2
        <5>2. v[i] = v[i - 1]
          BY <1>3, <1>6, <4>2 DEF Publishes
        <5> QED BY <3>2, <5>1, <5>2
      <4> QED BY <4>1, <4>2
    <3> QED BY <3>1, <3>3
  <2> HIDE DEF p
  <2>3. \A i \in 0..N : p[i] \in G
    <3> HIDE DEF G
    <3> QED BY <1>0, <2>1, <2>2, LoopKeeps
  <2> QED BY <2>3 DEF p
<1>9. Final(ExtractTXTRecordsTx(tx), n, v[N])
  BY <1>0, <1>1, <1>8, SMT
<1>10. CASE v[N] = v[0] /\ \A i \in 1..N : ~c[i]
  <2>1. v[0] = None
    BY <1>5 DEF Rounds
  <2> QED BY <1>3, <1>9, <1>10, <2>1 DEF N
<1>11. ASSUME NEW o \in 1..N, LastOf(N, c, o), v[N] = w[o]
       PROVE  IsLastOutput(tx, n, o) /\ v[N] = OutputKey(tx[o])
  BY <1>3, <1>11 DEF LastOf, IsLastOutput, N
<1> QED BY <1>7, <1>9, <1>10, <1>11 DEF Decided

\* Lists of records with each name once, and the key that one has for a name
Table ==
  {out \in Seq(FNRecord) : \A i, j \in DOMAIN out : out[i].name = out[j].name => i = j}

KeyFor(out, n) == IF \E i \in DOMAIN out : out[i].name = n THEN KeyOf(out, n) ELSE None

\* In such a list it is the key of the one record of the name.
LEMMA KeyForIs ==
  ASSUME NEW out \in Table, NEW n
  PROVE  /\ \A i \in DOMAIN out : out[i].name = n => KeyFor(out, n) = out[i].key
         /\ (\A i \in DOMAIN out : out[i].name # n) => KeyFor(out, n) = None
<1>1. ASSUME NEW i \in DOMAIN out, out[i].name = n PROVE KeyFor(out, n) = out[i].key
  <2> DEFINE j == CHOOSE x \in DOMAIN out : out[x].name = n
  <2>1. j \in DOMAIN out /\ out[j].name = n
    BY <1>1
  <2>2. KeyFor(out, n) = out[j].key
    BY <1>1 DEF KeyFor, KeyOf
  <2> HIDE DEF j
  <2>3. j = i
    BY <1>1, <2>1 DEF Table
  <2> QED BY <2>2, <2>3
<1> QED BY <1>1 DEF KeyFor

\* PutRecord changes the key of its name only, and adds no name twice.
LEMMA PutRecordIs ==
  ASSUME NEW out \in Table, NEW rec \in FNRecord
  PROVE  /\ PutRecord(out, rec) \in Table
         /\ \A n : KeyFor(PutRecord(out, rec), n) = IF rec.name = n THEN rec.key ELSE KeyFor(out, n)
<1> DEFINE new == PutRecord(out, rec)
           N == Len(out)
<1>1. /\ out \in Seq(FNRecord) /\ N \in Nat /\ DOMAIN out = 1..N
      /\ \A i, j \in 1..N : out[i].name = out[j].name => i = j
  BY SMT DEF Table
<1> HIDE DEF N
<1>2. CASE \E i \in DOMAIN out : out[i].name = rec.name
  <2>1. PICK p \in 1..N : out[p].name = rec.name
    BY <1>1, <1>2
  <2>2. new = [i \in 1..N |-> IF out[i].name = rec.name THEN rec ELSE out[i]]
    BY <1>1, <1>2 DEF PutRecord
  <2> HIDE DEF new
  <2>3. \A i \in 1..N : new[i] = IF i = p THEN rec ELSE out[i]
    BY <1>1, <2>1, <2>2
  <2>4. \A i \in 1..N : new[i] \in FNRecord /\ new[i].name = out[i].name
    BY <1>1, <2>1, <2>3, SMT
  <2>5. new \in Seq(FNRecord) /\ DOMAIN new = 1..N
    BY <1>1, <2>2, <2>4, SMT
  <2>6. new \in Table
    BY <1>1, <2>4, <2>5 DEF Table
  <2>7. ASSUME NEW n PROVE KeyFor(new, n) = IF rec.name = n THEN rec.key ELSE KeyFor(out, n)
    <3>1. CASE rec.name = n
      <4>1. new[p].name = n /\ new[p].key = rec.key /\ p \in DOMAIN new
        BY <2>1, <2>3, <2>5, <3>1
      <4>2. KeyFor(new, n) = new[p].key
        BY <2>6, <4>1, KeyForIs
      <4> QED BY <3>1, <4>1, <4>2
    <3>2. CASE rec.name # n
      <4>1. ASSUME NEW i \in 1..N, out[i].name = n PROVE KeyFor(new, n) = KeyFor(out, n)
        <5>1. i # p
          BY <2>1, <3>2, <4>1
        <5>2. new[i] = out[i]
          BY <2>3, <5>1
        <5>3. KeyFor(out, n) = out[i].key /\ KeyFor(new, n) = new[i].key
          BY <1>1, <2>5, <2>6, <4>1, <5>2, KeyForIs, SMT
        <5> QED BY <5>2, <5>3
      <4>2. CASE \A i \in 1..N : out[i].name # n
        <5>1. KeyFor(out, n) = None
          BY <1>1, <4>2, KeyForIs
        <5>2. \A i \in DOMAIN new : new[i].name # n
          BY <2>4, <2>5, <4>2
        <5>3. KeyFor(new, n) = None
          BY <2>6, <5>2, KeyForIs
        <5> QED BY <3>2, <5>1, <5>3
      <4> QED BY <3>2, <4>1, <4>2
    <3> QED BY <3>1, <3>2
  <2> QED BY <2>6, <2>7 DEF new
<1>3. CASE ~ \E i \in DOMAIN out : out[i].name = rec.name
  <2>1. new = Append(out, rec)
    BY <1>3 DEF PutRecord
  <2> HIDE DEF new
  <2>2. /\ new \in Seq(FNRecord) /\ DOMAIN new = 1..(N + 1) /\ new[N + 1] = rec
        /\ \A i \in 1..N : new[i] = out[i]
    BY <1>1, <2>1, SMT DEF N
  <2>3. /\ \A i \in 1..(N + 1) : i = N + 1 \/ i \in 1..N
        /\ \A i \in 1..N : out[i].name # rec.name /\ i \in 1..(N + 1)
        /\ N + 1 \in 1..(N + 1)
    BY <1>1, <1>3, SMT
  <2>4. new \in Table
    <3>1. ASSUME NEW i \in 1..(N + 1), NEW j \in 1..(N + 1), new[i].name = new[j].name
          PROVE  i = j
      BY <1>1, <2>2, <2>3, <3>1
    <3> QED BY <2>2, <3>1 DEF Table
  <2>5. ASSUME NEW n PROVE KeyFor(new, n) = IF rec.name = n THEN rec.key ELSE KeyFor(out, n)
    <3>1. CASE rec.name = n
      BY <2>2, <2>3, <2>4, <3>1, KeyForIs
    <3>2. CASE rec.name # n
      <4>1. ASSUME NEW i \in 1..N, out[i].name = n PROVE KeyFor(new, n) = KeyFor(out, n)
        <5>1. KeyFor(out, n) = out[i].key
          BY <1>1, <4>1, KeyForIs
        <5>2. i \in DOMAIN new /\ new[i] = out[i]
          BY <2>2, <2>3
        <5>3. KeyFor(new, n) = new[i].key
          BY <2>4, <4>1, <5>2, KeyForIs
        <5> QED BY <5>1, <5>2, <5>3
      <4>2. CASE \A i \in 1..N : out[i].name # n
        <5>1. \A i \in DOMAIN new : new[i].name # n
          BY <2>2, <2>3, <3>2, <4>2
        <5>2. KeyFor(new, n) = None
          BY <2>4, <5>1, KeyForIs
        <5>3. KeyFor(out, n) = None
          BY <1>1, <4>2, KeyForIs
        <5> QED BY <3>2, <5>2, <5>3
      <4> QED BY <3>2, <4>1, <4>2
    <3> QED BY <3>1, <3>2
  <2> QED BY <2>4, <2>5 DEF new
<1> QED BY <1>2, <1>3

\* Of the records of a transaction, the last of each name replaces the key.
LEMMA PutRecordsIs ==
  ASSUME NEW out \in Table, NEW recs \in Seq(FNRecord)
  PROVE  /\ PutRecords(out, recs) \in Table
         /\ \A n, k : Final(recs, n, k) =>
              KeyFor(PutRecords(out, recs), n) = IF k # None THEN k ELSE KeyFor(out, n)
<1> DEFINE N == Len(recs)
           g == [i \in 1..N |-> [x \in Table |-> PutRecord(x, recs[i])]]
           P(h) == h = [i \in 0..N |-> IF i = 0 THEN out ELSE PutRecord(h[i - 1], recs[i])]
           all == CHOOSE h : P(h)
<1>0. N \in Nat /\ \A i \in 1..N : recs[i] \in FNRecord
  BY SMT
<1>1. PutRecords(out, recs) = all[N]
  BY DEF PutRecords
<1> HIDE DEF all, N
<1>2. g \in [1..N -> [Table -> Table]]
  BY <1>0, PutRecordIs
<1> HIDE DEF g
<1>3. PICK f \in [0..N -> Table] : Rounds(f, N, out, g)
  BY <1>0, <1>2, LoopRuns
<1>4. P(f)
  <2>1. ASSUME NEW i \in 0..N, i # 0 PROVE f[i] = PutRecord(f[i - 1], recs[i])
    <3>1. i \in 1..N /\ i - 1 \in 0..N
      BY <1>0, <2>1, SMT
    <3>2. f[i - 1] \in Table /\ f[i] = g[i][f[i - 1]]
      BY <1>3, <3>1 DEF Rounds
    <3> QED BY <3>1, <3>2 DEF g
  <2> QED BY <1>3, <2>1 DEF Rounds
<1>5. P(all)
  <2> HIDE DEF P
  <2> QED BY <1>4 DEF all
<1>6. all[0] = out
  BY <1>0, <1>5, SMT
<1>7. \A i \in 1..N : all[i] = PutRecord(all[i - 1], recs[i])
  <2>1. \A i \in 1..N : i \in 0..N /\ i # 0
    BY <1>0, SMT
  <2> QED BY <1>5, <2>1
<1> HIDE DEF P
<1>8. \A i \in 0..N : all[i] \in Table
  <2>1. \A i \in 1..N : all[i - 1] \in Table => all[i] \in Table
    BY <1>0, <1>7, PutRecordIs
  <2> QED BY <1>0, <1>6, <2>1, LoopKeeps
<1>9. ASSUME NEW n, NEW k, Final(recs, n, k)
      PROVE  KeyFor(all[N], n) = IF k # None THEN k ELSE KeyFor(out, n)
  <2> DEFINE v == [i \in 0..N |-> KeyFor(all[i], n)]
             c == [i \in 1..N |-> recs[i].name = n]
             w == [i \in 1..N |-> recs[i].key]
  <2>1. ASSUME NEW i \in 1..N PROVE v[i] = IF c[i] THEN w[i] ELSE v[i - 1]
    <3>1. i \in 0..N /\ i - 1 \in 0..N
      BY <1>0, SMT
    <3>2. KeyFor(all[i], n) = IF recs[i].name = n THEN recs[i].key ELSE KeyFor(all[i - 1], n)
      BY <1>0, <1>7, <1>8, <3>1, PutRecordIs, SMT
    <3> QED BY <3>1, <3>2
  <2>2. v[0] = KeyFor(out, n) /\ v[N] = KeyFor(all[N], n)
    BY <1>0, <1>6, SMT
  <2>3. \A i \in 1..N : c[i] = (recs[i].name = n) /\ w[i] = recs[i].key
    OBVIOUS
  <2> HIDE DEF v, c, w
  <2>4. Decided(v, N, c, w)
    <3>1. Selects(v, N, c, w)
      BY <2>1 DEF Selects
    <3> QED BY <1>0, <3>1, LastWins
  <2>5. CASE k = None /\ \A i \in 1..N : recs[i].name # n
    <3>1. v[N] = v[0]
      BY <2>3, <2>4, <2>5 DEF Decided, LastOf
    <3> QED BY <2>2, <2>5, <3>1
  <2>6. ASSUME NEW i \in 1..N, recs[i].name = n, k = recs[i].key,
               \A j \in 1..N : j > i => recs[j].name # n
        PROVE  KeyFor(all[N], n) = k /\ k # None
    <3>1. k # None
      BY <1>0, <2>6, NoneIsNoKey DEF FNRecord
    <3>2. PICK m \in 1..N : LastOf(N, c, m) /\ v[N] = w[m]
      BY <2>3, <2>4, <2>6 DEF Decided
    <3>3. recs[m].name = n /\ ~(i > m)
      BY <2>3, <2>6, <3>2 DEF LastOf
    <3>4. ~(m > i)
      BY <2>6, <3>3
    <3>5. m = i
      BY <1>0, <3>3, <3>4, SMT
    <3> QED BY <2>2, <2>3, <2>6, <3>1, <3>2, <3>5
  <2>7. \/ k = None /\ \A i \in 1..N : recs[i].name # n
        \/ \E i \in 1..N : /\ recs[i].name = n /\ k = recs[i].key
                           /\ \A j \in 1..N : j > i => recs[j].name # n
    BY <1>9 DEF Final, N
  <2> QED BY <2>5, <2>6, <2>7
<1>10. PutRecords(out, recs) \in Table
  BY <1>0, <1>1, <1>8, SMT
<1> QED BY <1>1, <1>9, <1>10

\* The transaction publishes a key for the name; it is the last that does.
InTx(tx, n) == \E o \in 1..Len(tx) : Publishes(tx[o], n)

IsLastTx(b, n, t) ==
  /\ t \in 1..Len(b) /\ InTx(b[t], n)
  /\ \A j \in 1..Len(b) : j > t => ~InTx(b[j], n)

\* A block is a sequence of transactions.
IsBlock(b) == IsSeq(b) /\ \A t \in 1..Len(b) : IsTx(b[t])

\* The key that a transaction gives a name, as the loops compute it.
LEMMA TxGives ==
  ASSUME NEW tx, IsTx(tx), NEW n
  PROVE  \E k : /\ Final(ExtractTXTRecordsTx(tx), n, k)
                /\ k # None <=> InTx(tx, n)
                /\ k # None => \E o : IsLastOutput(tx, n, o) /\ k = OutputKey(tx[o])
<1>1. PICK k : /\ Final(ExtractTXTRecordsTx(tx), n, k)
               /\ \/ k = None /\ \A o \in 1..Len(tx) : ~Publishes(tx[o], n)
                  \/ \E o : IsLastOutput(tx, n, o) /\ k = OutputKey(tx[o])
  BY TxKey
<1>2. \A o : IsLastOutput(tx, n, o) => InTx(tx, n) /\ OutputKey(tx[o]) # None
  BY DEF IsLastOutput, InTx, Publishes, HasRecord
<1> QED BY <1>1, <1>2 DEF InTx

\* Of a block, each name is kept once, with the key of the last output of the last
\* transaction that publishes one.
LEMMA BlockKey ==
  ASSUME NEW b, IsBlock(b)
  PROVE  /\ ExtractTXTRecordsBlock(b) \in Table
         /\ \A n : \/ /\ KeyFor(ExtractTXTRecordsBlock(b), n) = None
                      /\ \A t \in 1..Len(b) : ~InTx(b[t], n)
                   \/ \E t, o : /\ IsLastTx(b, n, t) /\ IsLastOutput(b[t], n, o)
                                /\ KeyFor(ExtractTXTRecordsBlock(b), n) = OutputKey(b[t][o])
<1> DEFINE N == Len(b)
           recs(i) == ExtractTXTRecordsTx(b[i])
           g == [i \in 1..N |-> [x \in Table |-> PutRecords(x, recs(i))]]
           P(h) == h = [i \in 0..N |->
                          IF i = 0 THEN <<>>
                          ELSE PutRecords(h[i - 1], ExtractTXTRecordsTx(b[i]))]
           all == CHOOSE h : P(h)
<1>0. N \in Nat /\ \A i \in 1..N : IsTx(b[i])
  BY SeqOfItself DEF IsBlock
<1>1. ExtractTXTRecordsBlock(b) = all[N]
  BY DEF ExtractTXTRecordsBlock
<1> HIDE DEF all, N
<1>2. ASSUME NEW i \in 1..N PROVE recs(i) \in Seq(FNRecord)
  <2>1. PICK r : recs(i) = r[Len(b[i])] /\ \A j \in 0..Len(b[i]) : r[j] \in Seq(FNRecord)
    BY <1>0, TxLoop
  <2>2. Len(b[i]) \in 0..Len(b[i])
    <3>1. Len(b[i]) \in Nat
      BY <1>0, SeqOfItself DEF IsTx
    <3> QED BY <3>1, SMT
  <2> QED BY <2>1, <2>2
<1> HIDE DEF recs
<1>3. g \in [1..N -> [Table -> Table]]
  BY <1>2, PutRecordsIs
<1>4. <<>> \in Table
  BY SMT DEF Table
<1> HIDE DEF g
<1>5. PICK f \in [0..N -> Table] : Rounds(f, N, <<>>, g)
  BY <1>0, <1>3, <1>4, LoopRuns
<1>6. P(f)
  <2>1. ASSUME NEW i \in 0..N, i # 0
        PROVE  f[i] = PutRecords(f[i - 1], ExtractTXTRecordsTx(b[i]))
    <3>1. i \in 1..N /\ i - 1 \in 0..N
      BY <1>0, <2>1, SMT
    <3>2. f[i - 1] \in Table /\ f[i] = g[i][f[i - 1]]
      BY <1>5, <3>1 DEF Rounds
    <3> QED BY <3>1, <3>2 DEF g, recs
  <2> QED BY <1>5, <2>1 DEF Rounds
<1>7. P(all)
  <2> HIDE DEF P
  <2> QED BY <1>6 DEF all
<1>8. all[0] = <<>>
  BY <1>0, <1>7, SMT
<1>9. \A i \in 1..N : all[i] = PutRecords(all[i - 1], recs(i))
  <2>1. \A i \in 1..N : i \in 0..N /\ i # 0
    BY <1>0, SMT
  <2> QED BY <1>7, <2>1 DEF recs
<1> HIDE DEF P
<1>10. \A i \in 0..N : all[i] \in Table
  <2>1. \A i \in 1..N : all[i - 1] \in Table => all[i] \in Table
    BY <1>2, <1>9, PutRecordsIs
  <2> QED BY <1>0, <1>4, <1>8, <2>1, LoopKeeps
<1>11. ASSUME NEW n
       PROVE  \/ KeyFor(all[N], n) = None /\ \A t \in 1..N : ~InTx(b[t], n)
              \/ \E t, o : /\ IsLastTx(b, n, t) /\ IsLastOutput(b[t], n, o)
                           /\ KeyFor(all[N], n) = OutputKey(b[t][o])
  <2> DEFINE Gives(i, k) == /\ Final(recs(i), n, k)
                            /\ k # None <=> InTx(b[i], n)
                            /\ k # None => \E o : IsLastOutput(b[i], n, o)
                                                    /\ k = OutputKey(b[i][o])
             v == [i \in 0..N |-> KeyFor(all[i], n)]
             c == [i \in 1..N |-> InTx(b[i], n)]
             w == [i \in 1..N |-> CHOOSE k : Gives(i, k)]
  <2>1. ASSUME NEW i \in 1..N PROVE Gives(i, w[i])
    <3>1. \E k : Gives(i, k)
      BY <1>0, TxGives DEF recs
    <3> HIDE DEF Gives
    <3> QED BY <3>1
  <2>2. \A i \in 1..N : /\ Final(recs(i), n, w[i])
                        /\ w[i] # None <=> InTx(b[i], n)
                        /\ w[i] # None => \E o : IsLastOutput(b[i], n, o)
                                                   /\ w[i] = OutputKey(b[i][o])
    <3> HIDE DEF w
    <3> QED BY <2>1
  <2> HIDE DEF w
  <2>3. ASSUME NEW i \in 1..N PROVE v[i] = IF c[i] THEN w[i] ELSE v[i - 1]
    <3>1. i \in 0..N /\ i - 1 \in 0..N
      BY <1>0, SMT
    <3>2. KeyFor(all[i], n) = IF w[i] # None THEN w[i] ELSE KeyFor(all[i - 1], n)
      BY <1>2, <1>9, <1>10, <2>2, <3>1, PutRecordsIs, SMT
    <3> QED BY <2>2, <3>1, <3>2
  <2>4. v[0] = None /\ v[N] = KeyFor(all[N], n)
    <3>1. KeyFor(<<>>, n) = None
      BY SMT DEF KeyFor
    <3> QED BY <1>0, <1>8, <3>1, SMT
  <2>5. \A i \in 1..N : c[i] = InTx(b[i], n)
    OBVIOUS
  <2> HIDE DEF v, c
  <2>6. Decided(v, N, c, w)
    <3>1. Selects(v, N, c, w)
      BY <2>3 DEF Selects
    <3> QED BY <1>0, <3>1, LastWins
  <2>7. CASE v[N] = v[0] /\ \A i \in 1..N : ~c[i]
    BY <2>4, <2>5, <2>7
  <2>8. ASSUME NEW t \in 1..N, LastOf(N, c, t), v[N] = w[t]
        PROVE  \E o : /\ IsLastTx(b, n, t) /\ IsLastOutput(b[t], n, o)
                      /\ KeyFor(all[N], n) = OutputKey(b[t][o])
    <3>1. IsLastTx(b, n, t)
      BY <2>5, <2>8 DEF LastOf, IsLastTx, N
    <3>2. PICK o : IsLastOutput(b[t], n, o) /\ w[t] = OutputKey(b[t][o])
      BY <2>2, <3>1 DEF IsLastTx
    <3> QED BY <2>4, <2>8, <3>1, <3>2
  <2> QED BY <2>6, <2>7, <2>8 DEF Decided
<1>12. all[N] \in Table
  BY <1>0, <1>10, SMT
<1> QED BY <1>1, <1>11, <1>12 DEF N

----------------------------------------------------------------------------
(* What a block publishes *)

\* The blocks of the model are such blocks.
LEMMA BlocksAreBlocks ==
  ASSUME NEW b \in Blocks
  PROVE  IsBlock(b)
<1>1. IsSeq(b) /\ DOMAIN b = 1..Len(b)
  BY BlocksNested, SeqOfItself
<1>2. ASSUME NEW t \in 1..Len(b) PROVE IsTx(b[t])
  <2>1. IsSeq(b[t]) /\ DOMAIN b[t] = 1..Len(b[t])
    BY <1>1, BlocksNested, SeqOfItself
  <2>2. ASSUME NEW o \in 1..Len(b[t]) PROVE b[t][o].name \in HnsNames /\ Nested(b[t][o])
    <3>1. b[t][o].name \in HnsNames /\ IsSeq(b[t][o].records)
      BY <1>1, <2>1, BlocksNested
    <3>2. DOMAIN b[t][o].records = 1..Len(b[t][o].records)
      BY <3>1, SeqOfItself
    <3>3. \A r \in DOMAIN b[t][o].records : IsSeq(b[t][o].records[r])
      BY <1>1, <2>1, BlocksNested
    <3> QED BY <3>1, <3>2, <3>3 DEF Nested
  <2> QED BY <2>1, <2>2 DEF IsTx
<1> QED BY <1>1, <1>2 DEF IsBlock

\* The records of a block are names and keys.
LEMMA RecordsTyped ==
  \A b \in Blocks : RecordsIn[b] \in Seq([name : HnsNames, key : Keys])
BY BlocksAreBlocks, BlockKey DEF RecordsIn, Table, FNRecord

\* The block publishes a key for the name in entry e of record r of output o of
\* transaction t.
At(b, n, t, o, r, e) ==
  /\ t \in 1..Len(b) /\ o \in 1..Len(b[t]) /\ r \in 1..Len(b[t][o].records)
  /\ e \in 1..Len(b[t][o].records[r])
  /\ b[t][o].type \in {"UPDATE", "REGISTER"} /\ b[t][o].name = n
  /\ b[t][o].records[r][e] \in Keys

PublishedAt(b, n) == {p \in Publications(b) : b[p[1]][p[2]].name = n}

\* The positions of a name's publications
LEMMA PublishedAtIs ==
  ASSUME NEW b, IsBlock(b), NEW n
  PROVE  /\ \A t, o, r, e : At(b, n, t, o, r, e) => <<t, o, r, e>> \in PublishedAt(b, n)
         /\ \A p \in PublishedAt(b, n) :
              \E t, o, r, e : p = <<t, o, r, e>> /\ At(b, n, t, o, r, e)
<1>1. DOMAIN b = 1..Len(b)
  BY SeqOfItself DEF IsBlock
<1>2. \A t \in 1..Len(b) : DOMAIN b[t] = 1..Len(b[t])
  BY SeqOfItself DEF IsBlock, IsTx
<1>3. \A t \in 1..Len(b) : \A o \in 1..Len(b[t]) :
        /\ DOMAIN b[t][o].records = 1..Len(b[t][o].records)
        /\ \A r \in 1..Len(b[t][o].records) :
             DOMAIN b[t][o].records[r] = 1..Len(b[t][o].records[r])
  BY SeqOfItself DEF IsBlock, IsTx, Nested
<1>4. ASSUME NEW t, NEW o, NEW r, NEW e, At(b, n, t, o, r, e)
      PROVE  <<t, o, r, e>> \in PublishedAt(b, n)
  <2>1. /\ t \in DOMAIN b /\ o \in DOMAIN b[t] /\ r \in DOMAIN b[t][o].records
        /\ e \in {x \in DOMAIN b[t][o].records[r] :
                    b[t][o].type \in {"UPDATE", "REGISTER"} /\ b[t][o].records[r][x] \in Keys}
    BY <1>1, <1>2, <1>3, <1>4 DEF At
  <2>2. <<t, o, r, e>> \in Publications(b)
    BY <2>1, SMT DEF Publications
  <2> QED BY <1>4, <2>2 DEF At, PublishedAt
<1>5. ASSUME NEW p \in PublishedAt(b, n)
      PROVE  \E t, o, r, e : p = <<t, o, r, e>> /\ At(b, n, t, o, r, e)
  <2>1. p \in Publications(b) /\ b[p[1]][p[2]].name = n
    BY DEF PublishedAt
  <2>2. PICK t, o, r, e :
          /\ p = <<t, o, r, e>>
          /\ t \in DOMAIN b /\ o \in DOMAIN b[t] /\ r \in DOMAIN b[t][o].records
          /\ e \in DOMAIN b[t][o].records[r]
          /\ b[t][o].type \in {"UPDATE", "REGISTER"} /\ b[t][o].records[r][e] \in Keys
    BY <2>1, SMT DEF Publications
  <2>3. b[t][o].name = n
    BY <2>1, <2>2
  <2>4. t \in 1..Len(b) /\ o \in 1..Len(b[t])
    BY <1>1, <1>2, <2>2
  <2>5. r \in 1..Len(b[t][o].records) /\ e \in 1..Len(b[t][o].records[r])
    BY <1>3, <2>2, <2>4
  <2>6. At(b, n, t, o, r, e)
    BY <2>2, <2>3, <2>4, <2>5 DEF At
  <2> QED BY <2>2, <2>6
<1> QED BY <1>4, <1>5

\* Positions are ordered as in a dictionary.
After(t1, o1, r1, e1, t2, o2, r2, e2) ==
  \/ t1 > t2
  \/ t1 = t2 /\ o1 > o2
  \/ t1 = t2 /\ o1 = o2 /\ r1 > r2
  \/ t1 = t2 /\ o1 = o2 /\ r1 = r2 /\ e1 > e2

\* Later compares positions in that order.
LEMMA LaterIs ==
  ASSUME NEW t1 \in Nat, NEW o1 \in Nat, NEW r1 \in Nat, NEW e1 \in Nat,
         NEW t2 \in Nat, NEW o2 \in Nat, NEW r2 \in Nat, NEW e2 \in Nat
  PROVE  Later(<<t1, o1, r1, e1>>, <<t2, o2, r2, e2>>) <=> After(t1, o1, r1, e1, t2, o2, r2, e2)
<1> DEFINE p == <<t1, o1, r1, e1>>
           q == <<t2, o2, r2, e2>>
           Decides(i) == p[i] > q[i] /\ \A j \in 1..(i - 1) : p[j] = q[j]
<1>1. /\ p[1] = t1 /\ p[2] = o1 /\ p[3] = r1 /\ p[4] = e1
      /\ q[1] = t2 /\ q[2] = o2 /\ q[3] = r2 /\ q[4] = e2
  OBVIOUS
<1>2. Later(p, q) <=> \E i \in 1..4 : Decides(i)
  BY DEF Later
<1> HIDE DEF p, q
<1>3. 1..4 = {1, 2, 3, 4}
  BY SMT
<1>4. Decides(1) <=> t1 > t2
  BY <1>1, SMT
<1>5. Decides(2) <=> t1 = t2 /\ o1 > o2
  <2>1. 1..(2 - 1) = {1}
    BY SMT
  <2> QED BY <1>1, <2>1
<1>6. Decides(3) <=> t1 = t2 /\ o1 = o2 /\ r1 > r2
  <2>1. 1..(3 - 1) = {1, 2}
    BY SMT
  <2> QED BY <1>1, <2>1
<1>7. Decides(4) <=> t1 = t2 /\ o1 = o2 /\ r1 = r2 /\ e1 > e2
  <2>1. 1..(4 - 1) = {1, 2, 3}
    BY SMT
  <2> QED BY <1>1, <2>1
<1> HIDE DEF Decides
<1>8. Later(p, q) <=> Decides(1) \/ Decides(2) \/ Decides(3) \/ Decides(4)
  BY <1>2, <1>3
<1> QED BY <1>4, <1>5, <1>6, <1>7, <1>8 DEF After, p, q

\* The last output of the last transaction holds the last publication.
LEMMA LastPublication ==
  ASSUME NEW b, IsBlock(b), NEW n, NEW t, NEW o, NEW r, NEW e,
         IsLastTx(b, n, t), IsLastOutput(b[t], n, o), IsLastEntry(b[t][o], r, e)
  PROVE  /\ At(b, n, t, o, r, e)
         /\ \A p \in PublishedAt(b, n) : <<t, o, r, e>> = p \/ Later(<<t, o, r, e>>, p)
<1>1. At(b, n, t, o, r, e)
  BY DEF At, IsLastTx, IsLastOutput, IsLastEntry, IsLastKey, Publishes, HasRecord
<1>2. ASSUME NEW p \in PublishedAt(b, n) PROVE <<t, o, r, e>> = p \/ Later(<<t, o, r, e>>, p)
  <2>1. PICK u, v, x, y : p = <<u, v, x, y>> /\ At(b, n, u, v, x, y)
    BY PublishedAtIs
  <2>2. /\ Len(b) \in Nat /\ Len(b[t]) \in Nat /\ Len(b[u]) \in Nat
        /\ Nested(b[t][o]) /\ Nested(b[u][v])
    BY <1>1, <2>1, SeqOfItself DEF At, IsBlock, IsTx
  <2>3. /\ Len(b[t][o].records) \in Nat /\ Len(b[t][o].records[r]) \in Nat
        /\ Len(b[u][v].records) \in Nat /\ Len(b[u][v].records[x]) \in Nat
    BY <1>1, <2>1, <2>2, SeqOfItself DEF At, Nested
  <2>4. /\ t \in Nat /\ o \in Nat /\ r \in Nat /\ e \in Nat
        /\ u \in Nat /\ v \in Nat /\ x \in Nat /\ y \in Nat
    <3>1. \A k \in Nat : \A m \in 1..k : m \in Nat
      BY SMT
    <3> QED BY <1>1, <2>1, <2>2, <2>3, <3>1 DEF At
  <2>5. HasKey(b[u][v].records[x])
    BY <2>1 DEF At, HasKey
  <2>6. Publishes(b[u][v], n)
    <3>1. OutputKey(b[u][v]) # None
      BY <2>1, <2>2, <2>5, OutputKeyFound DEF At
    <3> QED BY <2>1, <3>1 DEF At, Publishes, HasRecord
  <2>7. ~(u > t)
    BY <2>1, <2>6 DEF At, InTx, IsLastTx
  <2>8. u = t => ~(v > o)
    BY <2>1, <2>6 DEF At, IsLastOutput
  <2>9. u = t /\ v = o => ~(x > r)
    BY <2>1, <2>5 DEF At, IsLastEntry
  <2>10. u = t /\ v = o /\ x = r => ~(y > e)
    BY <2>1 DEF At, IsLastEntry, IsLastKey
  <2>11. \/ t > u
         \/ t = u /\ o > v
         \/ t = u /\ o = v /\ r > x
         \/ t = u /\ o = v /\ r = x /\ e > y
         \/ t = u /\ o = v /\ r = x /\ e = y
    BY <2>4, <2>7, <2>8, <2>9, <2>10, SMT
  <2>12. Later(<<t, o, r, e>>, <<u, v, x, y>>) <=> After(t, o, r, e, u, v, x, y)
    BY <2>4, LaterIs
  <2> QED BY <2>1, <2>11, <2>12 DEF After
<1> QED BY <1>1, <1>2

\* Only one publication is last.
LEMMA OneIsLast ==
  ASSUME NEW b, IsBlock(b), NEW n, NEW p \in PublishedAt(b, n), NEW q \in PublishedAt(b, n),
         p = q \/ Later(p, q), q = p \/ Later(q, p)
  PROVE  p = q
<1>1. ASSUME NEW z \in PublishedAt(b, n)
      PROVE  \E u \in Nat, v \in Nat, x \in Nat, y \in Nat : z = <<u, v, x, y>>
  <2>1. PICK u, v, x, y : z = <<u, v, x, y>> /\ At(b, n, u, v, x, y)
    BY PublishedAtIs
  <2>2. Len(b) \in Nat /\ Len(b[u]) \in Nat /\ Nested(b[u][v])
    BY <2>1, SeqOfItself DEF At, IsBlock, IsTx
  <2>3. Len(b[u][v].records) \in Nat /\ Len(b[u][v].records[x]) \in Nat
    BY <2>1, <2>2, SeqOfItself DEF At, Nested
  <2>4. u \in Nat /\ v \in Nat /\ x \in Nat /\ y \in Nat
    BY <2>1, <2>2, <2>3, SMT DEF At
  <2> QED BY <2>1, <2>4
<1>2. PICK t1 \in Nat, o1 \in Nat, r1 \in Nat, e1 \in Nat : p = <<t1, o1, r1, e1>>
  BY <1>1
<1>3. PICK t2 \in Nat, o2 \in Nat, r2 \in Nat, e2 \in Nat : q = <<t2, o2, r2, e2>>
  BY <1>1
<1>4. Later(<<t1, o1, r1, e1>>, <<t2, o2, r2, e2>>) <=> After(t1, o1, r1, e1, t2, o2, r2, e2)
  BY LaterIs
<1>5. Later(<<t2, o2, r2, e2>>, <<t1, o1, r1, e1>>) <=> After(t2, o2, r2, e2, t1, o1, r1, e1)
  BY LaterIs
<1>6. ~(Later(p, q) /\ Later(q, p))
  <2>1. ~(After(t1, o1, r1, e1, t2, o2, r2, e2) /\ After(t2, o2, r2, e2, t1, o1, r1, e1))
    BY SMT DEF After
  <2> QED BY <1>2, <1>3, <1>4, <1>5, <2>1
<1> QED BY <1>6

\* What the importer takes from a block is what the block publishes last.
LEMMA ExtractedHolds ==
  ASSUME NEW b \in Blocks
  PROVE  Extracted[b]
<1> DEFINE recs == RecordsIn[b]
<1>1. IsBlock(b) /\ recs = ExtractTXTRecordsBlock(b)
  BY BlocksAreBlocks DEF RecordsIn
<1>2. recs \in Table
  BY <1>1, BlockKey
<1>3. ASSUME NEW n \in HnsNames PROVE ImportedKey(b, n) = PublishedKey(b, n)
  <2> DEFINE ps == PublishedAt(b, n)
             p0 == CHOOSE p \in ps : \A q \in ps : p = q \/ Later(p, q)
  <2>1. ImportedKey(b, n) = KeyFor(recs, n)
    BY DEF ImportedKey, KeyFor
  <2>2. PublishedKey(b, n) = IF ps = {} THEN None ELSE b[p0[1]][p0[2]].records[p0[3]][p0[4]]
    BY DEF PublishedKey, PublishedAt
  <2>3. CASE KeyFor(recs, n) = None /\ \A t \in 1..Len(b) : ~InTx(b[t], n)
    <3>1. ASSUME NEW p \in ps PROVE FALSE
      <4>1. PICK t, o, r, e : At(b, n, t, o, r, e)
        BY <1>1, PublishedAtIs
      <4>2. Nested(b[t][o]) /\ HasKey(b[t][o].records[r])
        BY <1>1, <4>1 DEF At, HasKey, IsBlock, IsTx
      <4>3. OutputKey(b[t][o]) # None
        BY <4>1, <4>2, OutputKeyFound DEF At
      <4> QED BY <2>3, <4>1, <4>3 DEF At, InTx, Publishes, HasRecord
    <3> QED BY <2>1, <2>2, <2>3, <3>1
  <2>4. ASSUME NEW t, NEW o, IsLastTx(b, n, t), IsLastOutput(b[t], n, o),
               KeyFor(recs, n) = OutputKey(b[t][o])
        PROVE  ImportedKey(b, n) = PublishedKey(b, n)
    <3>1. Nested(b[t][o]) /\ OutputKey(b[t][o]) # None
      BY <1>1, <2>4 DEF IsBlock, IsTx, IsLastTx, IsLastOutput, Publishes, HasRecord
    <3>2. PICK r, e : IsLastEntry(b[t][o], r, e) /\ OutputKey(b[t][o]) = b[t][o].records[r][e]
      BY <3>1, OutputKeyFound
    <3> DEFINE p == <<t, o, r, e>>
    <3>3. p \in ps /\ \A q \in ps : p = q \/ Later(p, q)
      BY <1>1, <2>4, <3>2, LastPublication, PublishedAtIs
    <3>4. p[1] = t /\ p[2] = o /\ p[3] = r /\ p[4] = e
      OBVIOUS
    <3> HIDE DEF p, ps
    <3>5. p0 \in ps /\ \A q \in ps : p0 = q \/ Later(p0, q)
      BY <3>3
    <3> HIDE DEF p0
    <3>6. p0 = p
      BY <1>1, <3>3, <3>5, OneIsLast DEF ps
    <3>7. PublishedKey(b, n) = b[t][o].records[r][e]
      BY <2>2, <3>3, <3>4, <3>6
    <3> QED BY <2>1, <2>4, <3>2, <3>7
  <2> QED BY <1>1, <2>3, <2>4, BlockKey
<1>4. \A i, j \in DOMAIN recs : recs[i].name = recs[j].name => i = j
  BY <1>2 DEF Table
<1> QED BY <1>3, <1>4 DEF Extracted

-----------------------------------------------------------------------------
(* The import *)

ImportTyped ==
  /\ chain \in Seq(Blocks)
  /\ info \in [HnsNames -> NameInfo \cup {None}]
  /\ lastHeight \in Nat
  /\ complete \in BOOLEAN
  /\ importer \in ImporterState
  /\ wipedAt \in Nat
  /\ target \in Nat

\* What the importer works on, against the stored height, the chain and the target
ImportOK ==
  /\ importer.pc # "idle" =>
       /\ lastHeight < importer.height
       /\ ~txLeftOpen => importer.height = lastHeight + 1
       /\ importer.confirmed + Depth <= Len(chain)
       /\ target < importer.confirmed
       /\ target = 0 => importer.confirmed = 1
  /\ importer.pc = "importing" =>
       /\ importer.blocks # <<>>
       /\ importer.height + Len(importer.blocks) <= importer.confirmed
       /\ \A i \in 1..Len(importer.blocks) :
            importer.blocks[i] = chain[importer.height + i - 1]

\* The heights that are stored lie below what can be reorganized
HeightsOK ==
  /\ lastHeight # 0 => lastHeight + Depth < Len(chain)
  /\ target # 0 => target + Depth < Len(chain)
  /\ wipedAt <= lastHeight

\* The block at height h is what the info of n comes from
Says(n, h) ==
  /\ h \in DOMAIN chain /\ ImportedKey(chain[h], n) # None
  /\ info[n] = [key |-> ImportedKey(chain[h], n), height |-> h]

Silent(n, from) == \A k \in from..lastHeight : ImportedKey(chain[k], n) = None

NameOK(n) ==
  \/ Says(n, lastHeight + 1) /\ lastHeight + 1 + Depth < Len(chain)
  \/ \E h \in (wipedAt + 1)..lastHeight : Says(n, h) /\ Silent(n, h + 1)
  \/ info[n] = None /\ Silent(n, wipedAt + 1)

ImportInv ==
  /\ ImportTyped
  /\ ImportOK
  /\ HeightsOK
  /\ InitialImportIsWhole
  /\ \A n \in HnsNames : NameOK(n)

\* The kinds of importers
LEMMA ImporterKinds ==
  ASSUME importer \in ImporterState
  PROVE  /\ importer.pc \in {"idle", "fetching", "importing"}
         /\ importer.pc # "idle" => importer.height \in Nat /\ importer.confirmed \in Nat
         /\ importer.pc = "importing" => importer.blocks \in Seq(Blocks)
  BY SMT DEF ImporterState, Idle

LEMMA IdleKind == Idle \in ImporterState /\ Idle.pc = "idle"
  BY DEF ImporterState, Idle

LEMMA FetchingKind ==
  ASSUME NEW h \in Nat, NEW c \in Nat
  PROVE  [pc |-> "fetching", height |-> h, confirmed |-> c] \in ImporterState
  BY DEF ImporterState

LEMMA ImportingKind ==
  ASSUME NEW h \in Nat, NEW c \in Nat, NEW bs \in Seq(Blocks)
  PROVE  [pc |-> "importing", height |-> h, confirmed |-> c, blocks |-> bs] \in ImporterState
  BY DEF ImporterState

\* Steps that leave chain, names and importer alone
LEMMA ImportSame ==
  ASSUME ImportInv, UNCHANGED <<chain, store, importer, wipedAt, target>>,
         txLeftOpen => txLeftOpen'
  PROVE  ImportInv'
<1>1. ImportTyped'
  BY DEF ImportInv, ImportTyped, store
<1>2. ImportOK'
  BY DEF ImportInv, ImportOK, store
<1>3. HeightsOK' /\ InitialImportIsWhole'
  BY DEF ImportInv, HeightsOK, InitialImportIsWhole, store
<1>4. \A n \in HnsNames : NameOK(n)'
  BY DEF ImportInv, NameOK, Says, Silent, store
<1>5. QED
  BY <1>1, <1>2, <1>3, <1>4 DEF ImportInv

\* The importer gives up, or its process ends
LEMMA ImportStops ==
  ASSUME ImportInv, UNCHANGED <<chain, store, wipedAt, target>>, importer' = Idle
  PROVE  ImportInv'
<1>1. ImportTyped'
  BY IdleKind DEF ImportInv, ImportTyped, store
<1>2. ImportOK'
  BY IdleKind DEF ImportOK
<1>3. HeightsOK' /\ InitialImportIsWhole'
  BY DEF ImportInv, HeightsOK, InitialImportIsWhole, store
<1>4. \A n \in HnsNames : NameOK(n)'
  BY DEF ImportInv, NameOK, Says, Silent, store
<1>5. QED
  BY <1>1, <1>2, <1>3, <1>4 DEF ImportInv

LEMMA BlockInside ==
  ASSUME NEW l \in Nat, NEW h \in Nat, NEW c \in Nat, NEW k \in Nat, NEW d \in Nat,
         NEW m \in Nat, NEW i \in 1..k, l < h, h + k <= c, c + d <= m
  PROVE  h + i - 1 \in 1..m /\ h + i - 1 + d <= m
  BY SMT

\* A chain that grew or was reorganized above the confirmed height
LEMMA ChainMoves ==
  ASSUME ImportInv, UNCHANGED <<store, importer, wipedAt, target, txLeftOpen>>,
         chain' \in Seq(Blocks), Len(chain) <= Len(chain'),
         \A k \in 1..Len(chain) : k + Depth <= Len(chain) => chain'[k] = chain[k]
  PROVE  ImportInv'
<1>1. /\ Len(chain) \in Nat /\ Len(chain') \in Nat /\ Depth \in Nat
      /\ lastHeight \in Nat /\ target \in Nat /\ wipedAt \in Nat
      /\ importer \in ImporterState
      /\ DOMAIN chain = 1..Len(chain) /\ DOMAIN chain' = 1..Len(chain')
  BY DepthIsNat, SMT DEF ImportInv, ImportTyped
<1>2. ImportTyped'
  BY DEF ImportInv, ImportTyped, store
<1>3. ImportOK'
  <2>1. CASE importer.pc = "idle"
    BY <2>1 DEF ImportOK
  <2>2. CASE importer.pc = "fetching"
    BY <1>1, <2>2, ImporterKinds, SMT DEF ImportInv, ImportOK, store
  <2>3. CASE importer.pc = "importing"
    <3>1. /\ importer.height \in Nat /\ importer.confirmed \in Nat
          /\ Len(importer.blocks) \in Nat
      BY <1>1, <2>3, ImporterKinds, SMT
    <3>2. /\ importer.height + Len(importer.blocks) <= importer.confirmed
          /\ importer.confirmed + Depth <= Len(chain) /\ lastHeight < importer.height
      BY <2>3 DEF ImportInv, ImportOK
    <3>3. ASSUME NEW i \in 1..Len(importer.blocks)
          PROVE  importer.blocks[i] = chain'[importer.height + i - 1]
      <4>1. importer.height + i - 1 \in 1..Len(chain)
            /\ importer.height + i - 1 + Depth <= Len(chain)
        BY <1>1, <3>1, <3>2, <3>3, BlockInside
      <4>2. importer.blocks[i] = chain[importer.height + i - 1]
        BY <2>3 DEF ImportInv, ImportOK
      <4>3. QED
        BY <4>1, <4>2
    <3>4. importer.confirmed + Depth <= Len(chain')
      BY <1>1, <3>1, <3>2, SMT
    <3>5. QED
      BY <2>3, <3>3, <3>4 DEF ImportInv, ImportOK, store
  <2>4. QED
    BY <1>1, <2>1, <2>2, <2>3, ImporterKinds
<1>4. HeightsOK' /\ InitialImportIsWhole'
  BY <1>1, SMT DEF ImportInv, HeightsOK, InitialImportIsWhole, store
<1>5. ASSUME NEW n \in HnsNames
      PROVE  NameOK(n)'
  <2>0. lastHeight' = lastHeight /\ wipedAt' = wipedAt /\ info' = info
    BY DEF store
  <2>1. ASSUME NEW k \in 1..lastHeight
        PROVE  k \in DOMAIN chain /\ k \in DOMAIN chain' /\ chain'[k] = chain[k]
    <3>1. lastHeight + Depth < Len(chain)
      BY <1>1, <2>1, SMT DEF ImportInv, HeightsOK
    <3>2. k \in 1..Len(chain) /\ k + Depth <= Len(chain)
      BY <1>1, <2>1, <3>1, SMT
    <3>3. QED
      BY <1>1, <3>2, SMT
  <2>2. ASSUME NEW f \in Nat, f >= 1, Silent(n, f)
        PROVE  Silent(n, f)'
    BY <1>1, <2>0, <2>1, <2>2, SMT DEF Silent
  <2>3. CASE Says(n, lastHeight + 1) /\ lastHeight + 1 + Depth < Len(chain)
    <3>1. lastHeight + 1 \in 1..Len(chain) /\ lastHeight + 1 + Depth <= Len(chain)
          /\ lastHeight + 1 \in 1..Len(chain') /\ lastHeight + 1 + Depth < Len(chain')
      BY <1>1, <2>3, SMT
    <3>2. chain'[lastHeight + 1] = chain[lastHeight + 1]
      BY <3>1
    <3>3. Says(n, lastHeight + 1)'
      BY <1>1, <2>0, <2>3, <3>1, <3>2 DEF Says
    <3>4. QED
      BY <2>0, <3>1, <3>3 DEF NameOK
  <2>4. CASE \E h \in (wipedAt + 1)..lastHeight : Says(n, h) /\ Silent(n, h + 1)
    <3>1. PICK h \in (wipedAt + 1)..lastHeight : Says(n, h) /\ Silent(n, h + 1)
      BY <2>4
    <3>2. h \in 1..lastHeight /\ h + 1 \in Nat /\ h + 1 >= 1
      BY <1>1, <3>1, SMT
    <3>3. h \in DOMAIN chain' /\ chain'[h] = chain[h]
      BY <2>1, <3>2
    <3>4. Says(n, h)'
      BY <2>0, <3>1, <3>3 DEF Says
    <3>5. Silent(n, h + 1)'
      BY <2>2, <3>1, <3>2
    <3>6. QED
      BY <2>0, <3>1, <3>4, <3>5 DEF NameOK
  <2>5. CASE info[n] = None /\ Silent(n, wipedAt + 1)
    <3>1. Silent(n, wipedAt + 1)'
      BY <1>1, <2>0, <2>2, <2>5, SMT
    <3>2. QED
      BY <2>0, <2>5, <3>1 DEF NameOK
  <2>6. QED
    BY <2>3, <2>4, <2>5 DEF ImportInv, NameOK
<1>6. QED
  BY <1>2, <1>3, <1>4, <1>5 DEF ImportInv

LEMMA MineImport ==
  ASSUME ImportInv, NEW b \in Blocks, Mine(b)
  PROVE  ImportInv'
<1>1. chain \in Seq(Blocks) /\ chain' = Append(chain, b)
  BY DEF ImportInv, ImportTyped, Mine
<1>2. /\ chain' \in Seq(Blocks) /\ Len(chain') = Len(chain) + 1 /\ Len(chain) \in Nat
      /\ \A k \in 1..Len(chain) : chain'[k] = chain[k]
  BY <1>1, SMT
<1>3. Len(chain) <= Len(chain')
  BY <1>2, SMT
<1>4. QED
  BY <1>2, <1>3, ChainMoves DEF Mine, history

LEMMA ReorganizeImport ==
  ASSUME ImportInv, NEW b \in Blocks, NEW h \in 1..MaxHeight, Reorganize(h, b)
  PROVE  ImportInv'
<1>1. /\ chain \in Seq(Blocks) /\ chain' = [chain EXCEPT ![h] = b]
      /\ h \in 1..Len(chain) /\ h > Len(chain) - Depth /\ Len(chain) \in Nat
  BY SMT DEF ImportInv, ImportTyped, Reorganize
<1>2. /\ chain' \in Seq(Blocks) /\ Len(chain') = Len(chain)
      /\ \A k \in 1..Len(chain) : k # h => chain'[k] = chain[k]
  BY <1>1, SMT
<1>3. \A k \in 1..Len(chain) : k + Depth <= Len(chain) => k # h
  BY <1>1, DepthIsNat, SMT
<1>4. Len(chain) <= Len(chain')
  BY <1>1, <1>2, SMT
<1>5. QED
  BY <1>2, <1>3, <1>4, ChainMoves DEF Reorganize, history

----------------------------------------------------------------------------
(* The importer's steps *)

LEMMA DoSyncImport ==
  ASSUME ImportInv, DoSync
  PROVE  ImportInv'
<1> DEFINE c == Len(chain) - Depth
           t == IF target = 0 THEN c - 1 ELSE target
<1>1. /\ lastHeight \in Nat /\ target \in Nat /\ Len(chain) \in Nat /\ Depth \in Nat
      /\ c > lastHeight /\ target' = t
      /\ importer' = [pc |-> "fetching", height |-> lastHeight + 1, confirmed |-> c]
      /\ UNCHANGED <<chain, store, txLeftOpen, wipedAt>>
  BY DepthIsNat, SMT DEF ImportInv, ImportTyped, DoSync, FirstTarget
<1>2. c \in Nat /\ lastHeight + 1 \in Nat /\ c + Depth = Len(chain)
  BY <1>1, SMT
<1>3. target # 0 => target < c
  BY <1>1, SMT DEF ImportInv, HeightsOK
<1> HIDE DEF c
<1>4. t \in Nat /\ t < c /\ (t = 0 => c = 1) /\ (t # 0 => t + Depth < Len(chain))
  <2>1. CASE target = 0
    <3>1. t = c - 1
      BY <2>1
    <3>2. QED
      BY <1>1, <1>2, <3>1, SMT
  <2>2. CASE target # 0
    <3>1. t = target
      BY <2>2
    <3>2. QED
      BY <1>1, <1>2, <1>3, <2>2, <3>1, SMT
  <2>3. QED
    BY <2>1, <2>2
<1> HIDE DEF t
<1>5. importer' \in ImporterState
  BY <1>1, <1>2, FetchingKind
<1>6. ImportTyped'
  BY <1>1, <1>4, <1>5 DEF ImportInv, ImportTyped, store
<1>7. ImportOK'
  BY <1>1, <1>2, <1>4, SMT DEF ImportOK, store
<1>8. HeightsOK'
  BY <1>1, <1>4 DEF ImportInv, HeightsOK, store
<1>9. InitialImportIsWhole'
  BY <1>1, SMT DEF ImportInv, InitialImportIsWhole, store, t
<1>10. \A n \in HnsNames : NameOK(n)'
  BY <1>1 DEF ImportInv, NameOK, Says, Silent, store
<1>11. QED
  BY <1>6, <1>7, <1>8, <1>9, <1>10 DEF ImportInv

LEMMA MinOfTwo ==
  ASSUME NEW a \in Nat, NEW b \in Nat
  PROVE  Min({a, b}) \in {a, b} /\ Min({a, b}) <= a /\ Min({a, b}) <= b
<1>1. \E x \in {a, b} : \A y \in {a, b} : x <= y
  BY SMT
<1>2. /\ Min({a, b}) \in {a, b}
      /\ \A y \in {a, b} : Min({a, b}) <= y
  BY <1>1 DEF Min
<1>3. QED
  BY <1>2

LEMMA FetchBlocksImport ==
  ASSUME ImportInv, FetchBlocks
  PROVE  ImportInv'
<1> DEFINE h == importer.height
           c == importer.confirmed
           delta == Min({c - h, Workers})
           bs == SubSeq(chain, h, h + delta - 1)
<1>1. /\ importer.pc = "fetching" /\ h < c /\ h \in Nat /\ c \in Nat
      /\ chain \in Seq(Blocks) /\ Len(chain) \in Nat /\ lastHeight \in Nat
      /\ importer' = [pc |-> "importing", height |-> h, confirmed |-> c, blocks |-> bs]
      /\ UNCHANGED <<chain, store, txLeftOpen, wipedAt, target>>
  BY ImporterKinds, SMT DEF ImportInv, ImportTyped, FetchBlocks, history
<1>2. lastHeight < h /\ c + Depth <= Len(chain)
  BY <1>1 DEF ImportInv, ImportOK
<1>3. c - h \in Nat /\ c - h >= 1 /\ Workers \in Nat /\ Workers >= 1
  BY <1>1, WorkersPositive, SMT
<1>4. delta \in Nat /\ delta >= 1 /\ delta <= c - h
  BY <1>3, MinOfTwo
<1> HIDE DEF delta, h, c
<1>5. h + delta - 1 \in Nat /\ h >= 1 /\ h + delta - 1 <= Len(chain) /\ h + delta <= c
      /\ h <= h + delta - 1
  BY <1>1, <1>2, <1>4, DepthIsNat, SMT
<1>6. \A i \in h..(h + delta - 1) : chain[i] \in Blocks
  BY <1>1, <1>5, SMT
<1>7. /\ bs \in Seq(Blocks)
      /\ Len(bs) = (h + delta - 1) - h + 1
      /\ \A i \in 1..((h + delta - 1) - h + 1) : bs[i] = chain[h + i - 1]
  BY <1>1, <1>5, <1>6, SMT
<1>8. Len(bs) = delta /\ \A i \in 1..delta : bs[i] = chain[h + i - 1]
  BY <1>1, <1>4, <1>7, SMT
<1> HIDE DEF bs
<1>9. bs # <<>>
  BY <1>4, <1>8, SMT
<1>10. importer' \in ImporterState
  BY <1>1, <1>7, ImportingKind
<1>11. ImportTyped'
  BY <1>1, <1>10 DEF ImportInv, ImportTyped, store
<1>12. /\ lastHeight < h /\ (~txLeftOpen => h = lastHeight + 1)
       /\ target < c /\ (target = 0 => c = 1)
  BY <1>1 DEF ImportInv, ImportOK, h, c
<1>13. /\ importer'.pc = "importing" /\ importer'.height = h /\ importer'.confirmed = c
       /\ importer'.blocks = bs /\ chain' = chain /\ lastHeight' = lastHeight
       /\ txLeftOpen' = txLeftOpen /\ target' = target
  BY <1>1 DEF store
<1>14. ImportOK'
  BY <1>2, <1>5, <1>8, <1>9, <1>12, <1>13 DEF ImportOK
<1>15. HeightsOK' /\ InitialImportIsWhole'
  BY <1>1 DEF ImportInv, HeightsOK, InitialImportIsWhole, store
<1>16. \A n \in HnsNames : NameOK(n)'
  BY <1>1 DEF ImportInv, NameOK, Says, Silent, store
<1>17. QED
  BY <1>11, <1>14, <1>15, <1>16 DEF ImportInv

\* A name has a key in a block when one of its records is the name's
LEMMA KeyInBlock ==
  ASSUME NEW b \in Blocks, NEW n \in HnsNames
  PROVE  LET recs == RecordsIn[b]
             found == \E i \in DOMAIN recs : recs[i].name = n
         IN  /\ Len(recs) \in Nat /\ DOMAIN recs = 1..Len(recs)
             /\ found => /\ ImportedKey(b, n) = KeyOf(recs, n)
                         /\ KeyOf(recs, n) \in Keys /\ ImportedKey(b, n) # None
             /\ ~found => ImportedKey(b, n) = None
<1> DEFINE recs == RecordsIn[b]
<1>1. recs \in Seq([name : HnsNames, key : Keys])
  BY RecordsTyped
<1>2. ImportedKey(b, n) = IF \E i \in DOMAIN recs : recs[i].name = n
                          THEN KeyOf(recs, n) ELSE None
  BY DEF ImportedKey
<1> HIDE DEF recs
<1>3. Len(recs) \in Nat /\ DOMAIN recs = 1..Len(recs)
  BY <1>1, SMT
<1>4. ASSUME \E i \in DOMAIN recs : recs[i].name = n
      PROVE  KeyOf(recs, n) \in Keys
  <2> DEFINE j == CHOOSE i \in DOMAIN recs : recs[i].name = n
  <2>1. j \in DOMAIN recs
    BY <1>4
  <2> HIDE DEF j
  <2>2. recs[j] \in [name : HnsNames, key : Keys]
    <3>1. \A S : \A q \in Seq(S) : \A i \in DOMAIN q : q[i] \in S
      BY SMT
    <3> QED BY <1>1, <2>1, <3>1
  <2>3. KeyOf(recs, n) = recs[j].key
    BY DEF KeyOf, j
  <2>4. QED
    BY <2>2, <2>3
<1>5. QED
  BY <1>2, <1>3, <1>4, NoneIsNoKey DEF recs

LEMMA HeightInside ==
  ASSUME NEW l \in Nat, NEW h \in Nat, NEW c \in Nat, NEW k \in Nat, NEW d \in Nat,
         NEW m \in Nat, h = l + 1, k >= 1, h + k <= c, c + d <= m
  PROVE  h < c /\ h \in 1..m
  BY SMT

\* The block being imported, and where it lies
LEMMA Importing ==
  ASSUME ImportInv, importer.pc = "importing", ~txLeftOpen
  PROVE  /\ importer.height = lastHeight + 1 /\ importer.height \in Nat
         /\ importer.confirmed \in Nat /\ importer.height < importer.confirmed
         /\ importer.confirmed + Depth <= Len(chain)
         /\ importer.height \in DOMAIN chain /\ chain[importer.height] \in Blocks
         /\ Records = RecordsIn[chain[importer.height]]
         /\ lastHeight \in Nat /\ Len(chain) \in Nat
         /\ importer.blocks \in Seq(Blocks) /\ importer.blocks # <<>>
<1>1. /\ importer.height \in Nat /\ importer.confirmed \in Nat
      /\ importer.blocks \in Seq(Blocks)
      /\ lastHeight \in Nat /\ chain \in Seq(Blocks) /\ Len(chain) \in Nat
  BY ImporterKinds, SMT DEF ImportInv, ImportTyped
<1>2. /\ importer.height = lastHeight + 1
      /\ importer.confirmed + Depth <= Len(chain)
      /\ importer.blocks # <<>>
      /\ importer.height + Len(importer.blocks) <= importer.confirmed
      /\ \A i \in 1..Len(importer.blocks) :
           importer.blocks[i] = chain[importer.height + i - 1]
  BY DEF ImportInv, ImportOK
<1>3. Len(importer.blocks) \in Nat /\ Len(importer.blocks) >= 1
  BY <1>1, <1>2, SMT
<1>4. importer.height < importer.confirmed /\ importer.height \in 1..Len(chain)
  BY <1>1, <1>2, <1>3, DepthIsNat, HeightInside
<1>5. Head(importer.blocks) = importer.blocks[1]
  BY <1>1, <1>2, SMT
<1>6. importer.blocks[1] = chain[importer.height + 1 - 1] /\ importer.height + 1 - 1 = importer.height
  BY <1>1, <1>2, <1>3, SMT
<1>7. chain[importer.height] \in Blocks
  BY <1>1, <1>4, SMT
<1>8. QED
  BY <1>1, <1>2, <1>4, <1>5, <1>6, <1>7, SMT DEF Records

\* What writing a block, or a part of it, does to the names, the stored height and
\* the mark
LEMMA BlockPut ==
  ASSUME ImportInv, importer.pc = "importing", ~txLeftOpen, NEW n \in Nat,
         NEW h \in Nat, importer.height = h,
         PutBlock(Records, h, IsLast, n),
         UNCHANGED <<chain, wipedAt, target>>
  PROVE  /\ lastHeight' = IF n > Len(Records) THEN h ELSE lastHeight
         /\ lastHeight' \in Nat /\ complete' \in BOOLEAN
         /\ info' \in [HnsNames -> NameInfo \cup {None}]
         /\ HeightsOK' /\ InitialImportIsWhole'
         /\ \A m \in HnsNames : NameOK(m)'
<1> DEFINE b == chain[h]
           recs == RecordsIn[b]
           Found(m, l) == \E i \in DOMAIN recs : i <= l /\ recs[i].name = m
<1>1. /\ h = lastHeight + 1 /\ h \in Nat /\ importer.confirmed \in Nat
      /\ h < importer.confirmed /\ importer.confirmed + Depth <= Len(chain)
      /\ h \in DOMAIN chain /\ b \in Blocks /\ Records = recs
      /\ lastHeight \in Nat /\ Len(chain) \in Nat /\ Depth \in Nat
      /\ target \in Nat /\ wipedAt \in Nat /\ wipedAt <= lastHeight
      /\ target < importer.confirmed /\ (target = 0 => importer.confirmed = 1)
  BY Importing, DepthIsNat DEF ImportInv, ImportTyped, HeightsOK, ImportOK
<1>2. \A m \in HnsNames :
        /\ Len(recs) \in Nat /\ DOMAIN recs = 1..Len(recs)
        /\ (\E i \in DOMAIN recs : recs[i].name = m) =>
             /\ ImportedKey(b, m) = KeyOf(recs, m)
             /\ KeyOf(recs, m) \in Keys /\ ImportedKey(b, m) # None
        /\ ~(\E i \in DOMAIN recs : recs[i].name = m) => ImportedKey(b, m) = None
  BY <1>1, KeyInBlock
<1>3. /\ info' = [m \in HnsNames |->
                    IF Found(m, n) THEN [key |-> KeyOf(recs, m), height |-> h] ELSE info[m]]
      /\ lastHeight' = IF n > Len(recs) THEN h ELSE lastHeight
      /\ complete' = (complete \/ (IsLast /\ n > Len(recs) + 1))
  BY <1>1 DEF PutBlock
<1>4. Len(recs) \in Nat
  BY <1>1, RecordsTyped, SMT
<1> HIDE DEF recs, b
<1>5. info' \in [HnsNames -> NameInfo \cup {None}]
  <2>1. ASSUME NEW m \in HnsNames, Found(m, n)
        PROVE  [key |-> KeyOf(recs, m), height |-> h] \in NameInfo
    BY <1>1, <1>2, <2>1 DEF NameInfo
  <2>2. info \in [HnsNames -> NameInfo \cup {None}]
    BY DEF ImportInv, ImportTyped
  <2>3. QED
    BY <1>3, <2>1, <2>2
<1>6. lastHeight' \in Nat /\ lastHeight <= lastHeight' /\ complete' \in BOOLEAN
  BY <1>1, <1>3, <1>4, SMT DEF ImportInv, ImportTyped
<1>7. HeightsOK'
  BY <1>1, <1>3, <1>4, <1>6, SMT DEF ImportInv, HeightsOK
<1>8. InitialImportIsWhole'
  <2>1. SUFFICES ASSUME complete' PROVE target > 0 /\ lastHeight' >= target
    BY DEF InitialImportIsWhole
  <2>2. CASE complete
    BY <1>1, <1>6, <2>2, SMT DEF ImportInv, InitialImportIsWhole
  <2>3. CASE IsLast /\ n > Len(recs) + 1
    <3>1. h = importer.confirmed - 1
      BY <2>3 DEF IsLast
    <3>2. lastHeight' = h
      BY <1>3, <1>4, <2>3, SMT
    <3>3. QED
      BY <1>1, <3>1, <3>2, SMT
  <2>4. QED
    BY <1>3, <2>1, <2>2, <2>3
<1>9. ASSUME NEW m \in HnsNames
      PROVE  NameOK(m)'
  <2>1. CASE Found(m, n)
    <3>1. \E i \in DOMAIN recs : recs[i].name = m
      BY <2>1
    <3>2. /\ ImportedKey(b, m) = KeyOf(recs, m) /\ ImportedKey(b, m) # None
      BY <1>2, <3>1
    <3>3. info'[m] = [key |-> KeyOf(recs, m), height |-> h]
      BY <1>3, <2>1
    <3>4. Says(m, h)'
      BY <1>1, <3>2, <3>3 DEF Says, b
    <3>5. CASE n > Len(recs)
      <4>1. lastHeight' = h /\ wipedAt' = wipedAt
        BY <1>3, <3>5
      <4>2. h \in (wipedAt' + 1)..lastHeight'
        BY <1>1, <4>1, SMT
      <4>3. Silent(m, h + 1)'
        BY <1>1, <4>1, SMT DEF Silent
      <4>4. QED
        BY <3>4, <4>2, <4>3 DEF NameOK
    <3>6. CASE ~(n > Len(recs))
      <4>1. lastHeight' = lastHeight /\ lastHeight' + 1 = h /\ chain' = chain
        BY <1>1, <1>3, <3>6
      <4>2. lastHeight' + 1 + Depth < Len(chain')
        BY <1>1, <4>1, SMT
      <4>3. QED
        BY <3>4, <4>1, <4>2 DEF NameOK, Says
    <3>7. QED
      BY <3>5, <3>6
  <2>2. CASE ~Found(m, n) /\ ~(n > Len(recs))
    <3>1. lastHeight' = lastHeight /\ info'[m] = info[m] /\ chain' = chain /\ wipedAt' = wipedAt
      BY <1>3, <2>2
    <3>2. NameOK(m)
      BY DEF ImportInv
    <3>3. QED
      BY <3>1, <3>2 DEF NameOK, Says, Silent
  <2>3. CASE ~Found(m, n) /\ n > Len(recs)
    <3>1. /\ lastHeight' = lastHeight + 1 /\ info'[m] = info[m]
          /\ chain' = chain /\ wipedAt' = wipedAt
      BY <1>1, <1>3, <2>3
    <3>2. ~(\E i \in DOMAIN recs : recs[i].name = m)
      BY <1>2, <1>4, <2>3, SMT
    <3>3. ImportedKey(chain[lastHeight + 1], m) = None
      BY <1>1, <1>2, <3>2 DEF b
    <3>4. ASSUME NEW f \in Nat, Silent(m, f)
          PROVE  Silent(m, f)'
      <4>1. \A k \in f..(lastHeight + 1) : k \in f..lastHeight \/ k = lastHeight + 1
        BY <1>1, SMT
      <4>2. QED
        BY <3>1, <3>3, <3>4, <4>1 DEF Silent
    <3>5. ~Says(m, lastHeight + 1)
      BY <3>3 DEF Says
    <3>6. CASE \E g \in (wipedAt + 1)..lastHeight : Says(m, g) /\ Silent(m, g + 1)
      <4>1. PICK g \in (wipedAt + 1)..lastHeight : Says(m, g) /\ Silent(m, g + 1)
        BY <3>6
      <4>2. g + 1 \in Nat /\ g \in (wipedAt' + 1)..lastHeight'
        BY <1>1, <3>1, <4>1, SMT
      <4>3. Says(m, g)'
        BY <3>1, <4>1 DEF Says
      <4>4. Silent(m, g + 1)'
        BY <3>4, <4>1, <4>2
      <4>5. QED
        BY <4>2, <4>3, <4>4 DEF NameOK
    <3>7. CASE info[m] = None /\ Silent(m, wipedAt + 1)
      <4>1. Silent(m, wipedAt + 1)'
        BY <1>1, <3>1, <3>4, <3>7, SMT
      <4>2. QED
        BY <3>1, <3>7, <4>1 DEF NameOK
    <3>8. QED
      BY <3>5, <3>6, <3>7 DEF ImportInv, NameOK
  <2>4. QED
    BY <2>1, <2>2, <2>3
<1>10. QED
  BY <1>1, <1>3, <1>5, <1>6, <1>7, <1>8, <1>9

\* The importer that goes on to the next block
LEMMA NextBlock ==
  ASSUME ImportInv, importer.pc = "importing", ~txLeftOpen,
         UNCHANGED <<chain, target>>,
         lastHeight' \in {lastHeight, importer.height},
         ~txLeftOpen' => lastHeight' = importer.height,
         importer' = IF Len(importer.blocks) = 1
                     THEN [pc |-> "fetching", height |-> importer.height + 1,
                           confirmed |-> importer.confirmed]
                     ELSE [pc |-> "importing", height |-> importer.height + 1,
                           confirmed |-> importer.confirmed,
                           blocks |-> Tail(importer.blocks)]
  PROVE  importer' \in ImporterState /\ ImportOK'
<1> DEFINE h == importer.height
           c == importer.confirmed
           bs == importer.blocks
<1>1. /\ h = lastHeight + 1 /\ h \in Nat /\ c \in Nat /\ c + Depth <= Len(chain)
      /\ lastHeight \in Nat /\ bs \in Seq(Blocks) /\ bs # <<>>
  BY Importing
<1>2. /\ h + Len(bs) <= c /\ target < c /\ (target = 0 => c = 1)
      /\ \A i \in 1..Len(bs) : bs[i] = chain[h + i - 1]
  BY DEF ImportInv, ImportOK
<1>3. lastHeight' < h + 1 /\ (~txLeftOpen' => h + 1 = lastHeight' + 1) /\ h + 1 \in Nat
  <2>1. lastHeight' \in {lastHeight, h} /\ (~txLeftOpen' => lastHeight' = h)
    OBVIOUS
  <2>2. lastHeight < h + 1 /\ h < h + 1 /\ h + 1 \in Nat
    BY <1>1, SMT
  <2>3. QED
    BY <2>1, <2>2
<1>4. /\ Tail(bs) \in Seq(Blocks) /\ Len(Tail(bs)) = Len(bs) - 1
      /\ \A i \in 1..Len(Tail(bs)) : Tail(bs)[i] = bs[i + 1]
  BY <1>1, SMT
<1>5. Len(bs) \in Nat /\ Len(bs) >= 1
  BY <1>1, SMT
<1>6. importer' = IF Len(bs) = 1
                  THEN [pc |-> "fetching", height |-> h + 1, confirmed |-> c]
                  ELSE [pc |-> "importing", height |-> h + 1, confirmed |-> c,
                        blocks |-> Tail(bs)]
  OBVIOUS
<1> HIDE DEF h, c, bs
<1>7. CASE Len(bs) = 1
  <2>1. importer' = [pc |-> "fetching", height |-> h + 1, confirmed |-> c]
    BY <1>6, <1>7
  <2>2. importer' \in ImporterState
    BY <1>1, <1>3, <2>1, FetchingKind
  <2>3. ImportOK'
    BY <1>1, <1>2, <1>3, <2>1, SMT DEF ImportOK
  <2>4. QED
    BY <2>2, <2>3
<1>8. CASE Len(bs) # 1
  <2> DEFINE tl == Tail(bs)
  <2>1. importer' = [pc |-> "importing", height |-> h + 1, confirmed |-> c, blocks |-> tl]
    BY <1>6, <1>8
  <2>2. Len(tl) \in Nat /\ Len(tl) >= 1 /\ h + 1 + Len(tl) <= c
    BY <1>1, <1>2, <1>4, <1>5, <1>8, SMT
  <2>3. ASSUME NEW i \in 1..Len(tl)
        PROVE  tl[i] = chain[h + 1 + i - 1]
    <3>1. i + 1 \in 1..Len(bs) /\ h + (i + 1) - 1 = h + 1 + i - 1
      BY <1>1, <1>4, <1>5, <2>3, SMT
    <3>2. tl[i] = bs[i + 1] /\ bs[i + 1] = chain[h + (i + 1) - 1]
      BY <1>2, <1>4, <2>3, <3>1
    <3>3. QED
      BY <3>1, <3>2
  <2>4. tl \in Seq(Blocks)
    BY <1>4
  <2> HIDE DEF tl
  <2>5. importer' \in ImporterState
    BY <1>1, <1>3, <2>1, <2>4, ImportingKind
  <2>6. tl # <<>>
    BY <2>2, SMT
  <2>7. /\ importer'.pc = "importing" /\ importer'.height = h + 1
        /\ importer'.confirmed = c /\ importer'.blocks = tl /\ chain' = chain
        /\ target' = target
    BY <2>1, SMT
  <2>8. ImportOK'
    BY <1>1, <1>2, <1>3, <2>2, <2>3, <2>6, <2>7 DEF ImportOK
  <2>9. QED
    BY <2>5, <2>8
<1>9. QED
  BY <1>7, <1>8

LEMMA ImportBlockImport ==
  ASSUME ImportInv, ImportBlock
  PROVE  ImportInv'
<1>1. importer.pc = "importing" /\ ~txLeftOpen /\ UNCHANGED <<chain, wipedAt, target>>
  BY DEF ImportBlock, history
<1>2. importer' = IF Len(importer.blocks) = 1
                  THEN [pc |-> "fetching", height |-> importer.height + 1,
                        confirmed |-> importer.confirmed]
                  ELSE [pc |-> "importing", height |-> importer.height + 1,
                        confirmed |-> importer.confirmed,
                        blocks |-> Tail(importer.blocks)]
  BY DEF ImportBlock
<1>3. CASE PutBlock(Records, importer.height, IsLast, Len(Records) + 2)
           /\ UNCHANGED <<faults, txLeftOpen>>
  <2>1. Len(Records) \in Nat /\ Len(Records) + 2 \in Nat /\ Len(Records) + 2 > Len(Records)
    BY <1>1, Importing, RecordsTyped, SMT
  <2>2. /\ lastHeight' = IF Len(Records) + 2 > Len(Records)
                         THEN importer.height ELSE lastHeight
        /\ lastHeight' \in Nat /\ complete' \in BOOLEAN
        /\ info' \in [HnsNames -> NameInfo \cup {None}]
        /\ HeightsOK' /\ InitialImportIsWhole'
        /\ \A m \in HnsNames : NameOK(m)'
    BY <1>1, <1>3, <2>1, BlockPut, Importing
  <2>3. lastHeight' = importer.height
    BY <2>1, <2>2
  <2>4. importer' \in ImporterState /\ ImportOK'
    BY <1>1, <1>2, <2>3, NextBlock
  <2>5. ImportTyped'
    BY <1>1, <2>2, <2>4 DEF ImportInv, ImportTyped
  <2>6. QED
    BY <2>2, <2>4, <2>5 DEF ImportInv
<1>4. CASE Fault /\ txLeftOpen' = TRUE /\ UNCHANGED store
  <2>1. importer' \in ImporterState /\ ImportOK'
    BY <1>1, <1>2, <1>4, NextBlock DEF store
  <2>2. ImportTyped'
    BY <1>1, <1>4, <2>1 DEF ImportInv, ImportTyped, store
  <2>3. HeightsOK' /\ InitialImportIsWhole'
    BY <1>1, <1>4 DEF ImportInv, HeightsOK, InitialImportIsWhole, store
  <2>4. \A n \in HnsNames : NameOK(n)'
    BY <1>1, <1>4 DEF ImportInv, NameOK, Says, Silent, store
  <2>5. QED
    BY <2>1, <2>2, <2>3, <2>4 DEF ImportInv
<1>5. QED
  BY <1>3, <1>4 DEF ImportBlock

LEMMA ImportBlockFailsImport ==
  ASSUME ImportInv, NEW n \in Nat, ImportBlockFails(n)
  PROVE  ImportInv'
<1>1. /\ importer.pc = "importing" /\ ~txLeftOpen /\ UNCHANGED <<chain, wipedAt, target>>
      /\ PutBlock(Records, importer.height, IsLast, n) /\ importer' = Idle
  BY DEF ImportBlockFails, history
<1>2. /\ lastHeight' \in Nat /\ complete' \in BOOLEAN
      /\ info' \in [HnsNames -> NameInfo \cup {None}]
      /\ HeightsOK' /\ InitialImportIsWhole'
      /\ \A m \in HnsNames : NameOK(m)'
  BY <1>1, BlockPut, Importing
<1>3. ImportTyped'
  BY <1>1, <1>2, IdleKind DEF ImportInv, ImportTyped
<1>4. ImportOK'
  BY <1>1, IdleKind DEF ImportOK
<1>5. QED
  BY <1>2, <1>3, <1>4 DEF ImportInv

LEMMA ResetNameStoreImport ==
  ASSUME ImportInv, ResetNameStore
  PROVE  ImportInv'
<1>1. /\ info' = [n \in HnsNames |-> None] /\ wipedAt' = lastHeight
      /\ UNCHANGED <<chain, lastHeight, complete, importer, txLeftOpen, target>>
  BY DEF ResetNameStore, TruncateNameStore
<1>2. lastHeight \in Nat
  BY DEF ImportInv, ImportTyped
<1>3. ImportTyped'
  BY <1>1, <1>2 DEF ImportInv, ImportTyped
<1>4. ImportOK'
  BY <1>1 DEF ImportInv, ImportOK
<1>5. HeightsOK' /\ InitialImportIsWhole'
  BY <1>1, <1>2, SMT DEF ImportInv, HeightsOK, InitialImportIsWhole
<1>6. ASSUME NEW n \in HnsNames
      PROVE  NameOK(n)'
  <2>1. info'[n] = None
    BY <1>1
  <2>2. Silent(n, wipedAt + 1)'
    BY <1>1, <1>2, SMT DEF Silent
  <2>3. QED
    BY <2>1, <2>2 DEF NameOK
<1>7. QED
  BY <1>3, <1>4, <1>5, <1>6 DEF ImportInv

LEMMA InitImport == Init => ImportInv
<1>1. SUFFICES ASSUME Init PROVE ImportInv
  OBVIOUS
<1>2. /\ chain = <<>> /\ info = [n \in HnsNames |-> None] /\ lastHeight = 0
      /\ complete = FALSE /\ importer = Idle /\ wipedAt = 0 /\ target = 0
  BY <1>1 DEF Init
<1>3. ImportTyped
  <2>1. chain \in Seq(Blocks) /\ 0 \in Nat
    BY <1>2, SMT
  <2>2. info \in [HnsNames -> NameInfo \cup {None}]
    BY <1>2
  <2>3. QED
    BY <1>2, <2>1, <2>2, IdleKind DEF ImportTyped
<1>4. ImportOK
  BY <1>2, IdleKind DEF ImportOK
<1>5. HeightsOK /\ InitialImportIsWhole
  BY <1>2, SMT DEF HeightsOK, InitialImportIsWhole
<1>6. \A n \in HnsNames : NameOK(n)
  BY <1>2, SMT DEF NameOK, Silent
<1>7. QED
  BY <1>3, <1>4, <1>5, <1>6 DEF ImportInv

LEMMA NextImport == ImportInv /\ [Next]_vars => ImportInv'
<1>1. SUFFICES ASSUME ImportInv, [Next]_vars PROVE ImportInv'
  OBVIOUS
<1> USE <1>1
<1>2. CASE UNCHANGED vars
  BY <1>2, ImportSame DEF vars, history
<1>3. CASE HsdFails \/ HsdRecovers
  BY <1>3, ImportSame, SMT DEF HsdFails, HsdRecovers, history
<1>4. CASE StartStep
  <2>1. CASE IngestBanLists \/ ConnectHsd
    BY <2>1, ImportSame, SMT DEF IngestBanLists, ConnectHsd, history
  <2>2. ASSUME NEW names \in Lists, FetchListFile(names)
        PROVE  ImportInv'
    BY <2>2, ImportSame DEF FetchListFile
  <2>3. ASSUME NEW n \in HnsNames, BanName(n)
        PROVE  ImportInv'
    BY <2>3, ImportSame DEF BanName, history
  <2>4. CASE IngestCommits
    <3>1. UNCHANGED <<chain, store, importer, wipedAt, target>>
      BY <2>4 DEF IngestCommits, history
    <3>2. txLeftOpen => txLeftOpen'
      BY <2>4 DEF IngestCommits
    <3>3. QED
      BY <3>1, <3>2, ImportSame
  <2>5. QED
    BY <1>4, <2>1, <2>2, <2>3, <2>4 DEF StartStep
<1>5. CASE IngestFails \/ Crash
  BY <1>5, ImportStops DEF IngestFails, Crash, ProcessEnds
<1>6. CASE ResetBlobs
  BY <1>6, ImportSame DEF ResetBlobs, history
<1>7. ASSUME NEW n \in HnsNames, NEW local \in BOOLEAN, StoreBlob(n, local)
      PROVE  ImportInv'
  BY <1>7, ImportSame DEF StoreBlob
<1>8. CASE DoSyncReturns
  BY <1>8, ImportStops DEF DoSyncReturns, history
<1>9. ASSUME NEW n \in 0..Cardinality(HnsNames) + 1, ImportBlockFails(n)
      PROVE  ImportInv'
  <2>1. Cardinality(HnsNames) \in Nat
    BY NamesFinite, FS_CardinalityType
  <2>2. n \in Nat
    BY <1>9, <2>1, SMT
  <2>3. QED
    BY <1>9, <2>2, ImportBlockFailsImport
<1>10. QED
  BY <1>2, <1>3, <1>4, <1>5, <1>6, <1>7, <1>8, <1>9, MineImport, ReorganizeImport,
     DoSyncImport, FetchBlocksImport, ImportBlockImport, ResetNameStoreImport
     DEF Next, ImporterStep

LEMMA AlwaysImport == Spec => []ImportInv
  BY InitImport, NextImport, PTL DEF Spec

\* The info of every name is what the last imported block that publishes a key for
\* it says (doSync of protocol/name_importer.go), for every chain, every number of
\* confirmations and workers, and any failures and reorganizations
THEOREM NamesAgree == Spec => []NamesMatchChain
<1>1. ImportInv => NamesMatchChain
  BY DEF ImportInv, NameOK, Says, Silent, NamesMatchChain
<1>2. QED
  BY <1>1, AlwaysImport, PTL

\* The initial import is marked complete only when every block that was final when
\* it began has been imported (doSync of protocol/name_importer.go)
THEOREM InitialImportWhole == Spec => []InitialImportIsWhole
<1>1. ImportInv => InitialImportIsWhole
  BY DEF ImportInv
<1>2. QED
  BY <1>1, AlwaysImport, PTL

\* Of several keys that a block publishes for a name, the importer takes the last, and
\* each name once (ExtractTXTRecordsBlock and ExtractTXTRecordsTx), for every block:
\* any number of transactions, outputs, records and entries
THEOREM LastRecordTaken == Spec => []LastRecordWins
<1>1. ImportInv => LastRecordWins
  <2> SUFFICES ASSUME ImportInv, NEW h \in DOMAIN chain PROVE Extracted[chain[h]]
    BY DEF LastRecordWins
  <2>1. chain[h] \in Blocks
    BY SMT DEF ImportInv, ImportTyped
  <2> QED BY <2>1, ExtractedHolds
<1>2. QED
  BY <1>1, AlwaysImport, PTL

=============================================================================
