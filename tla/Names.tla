------------------------------- MODULE Names -------------------------------
(***************************************************************************)
(* Where a node's names come from: the start of the daemon, which refreshes *)
(* the list of banned names and waits for the Handshake node (hsd), and the *)
(* name importer, which copies the keys that owners publish in confirmed    *)
(* blocks into the database, one block per transaction.                     *)
(*                                                                         *)
(* The process can end anywhere; what it had in an open transaction is lost *)
(* and what is in the database and the blob directory stays.  hsd fails     *)
(* to answer, and the database fails to write, MaxFaults times at most.     *)
(***************************************************************************)
EXTENDS Integers, Sequences, FiniteSetsExt

CONSTANTS
  HnsNames,    \* Handshake names
  Keys,        \* public keys, as entries of a TXT record
  Blocks,      \* blocks that can be mined: sequences of transactions
  None,        \* no key, no name info
  Depth,       \* ConfirmationDepth
  Workers,     \* blocks fetched at once
  NumLists,    \* ban lists configured
  Lists,       \* what a ban list can contain: sets of names
  MaxHeight,   \* bounds the chain
  MaxFaults    \* bounds failures and crashes

ASSUME DepthIsNat == Depth \in Nat
ASSUME WorkersPositive == Workers \in Nat \ {0}
ASSUME ListsAreNames == NumLists \in Nat /\ Lists \subseteq SUBSET HnsNames
ASSUME BoundsAreNats == MaxHeight \in Nat /\ MaxFaults \in Nat
ASSUME NoneIsNoKey == None \notin Keys
ASSUME NamesFinite == IsFiniteSet(HnsNames)

VARIABLES
  chain,       \* hsd's best chain, without the genesis block
  hsdUp,       \* hsd answers
  info,        \* store: the name info of each name
  lastHeight,  \* store: last-name-import-height
  complete,    \* store: initial-import-complete
  banned,      \* store: the banned names
  blobs,       \* names that have a blob file
  headers,     \* store: names that have a header
  headerCount, \* store: the count that GetStatus reports
  daemon,      \* the main goroutine of the process
  importer,    \* the name importer's goroutine
  faults,      \* failures and crashes so far
  txLeftOpen,  \* a commit failed: nobody can open a transaction any more
  wipedAt,     \* lastHeight when the names were last wiped (history)
  target,      \* last height the first doSync set out to import (history)
  listed,      \* names on the lists fetched by this start (history)
  published    \* names whose blob a client of this process wrote (history)

store   == <<info, lastHeight, complete>>
content == <<blobs, headers, headerCount>>
history == <<wipedAt, target, listed, published>>
vars    == <<chain, hsdUp, store, banned, content, daemon, importer, faults, txLeftOpen,
             history>>

----------------------------------------------------------------------------
(* Records in blocks.  An output has the type of its covenant, the name (for
   its hash) and the records of its resource: sequences of TXT entries; a record
   of another type has no entries. *)

\* An entry that is no key is malformed.
ParseFNRecord(entry) == IF entry \in Keys THEN entry ELSE None

\* The loops over the entries of a TXT record and over the records of an output keep
\* the last key, starting from the one before.
RecordKey(entries, pub) ==
  LET key[i \in 0..Len(entries)] ==
        IF i = 0 THEN pub
        ELSE IF ParseFNRecord(entries[i]) = None THEN key[i - 1] ELSE ParseFNRecord(entries[i])
  IN  key[Len(entries)]

OutputKey(out) ==
  LET key[i \in 0..Len(out.records)] ==
        IF i = 0 THEN None ELSE RecordKey(out.records[i], key[i - 1])
  IN  key[Len(out.records)]

\* Outputs of other types, and those without a key, are passed over.
HasRecord(out) == out.type \in {"UPDATE", "REGISTER"} /\ OutputKey(out) # None

ExtractTXTRecordsTx(tx) ==
  LET recs[i \in 0..Len(tx)] ==
        IF i = 0 THEN <<>>
        ELSE IF HasRecord(tx[i])
        THEN Append(recs[i - 1], [name |-> tx[i].name, key |-> OutputKey(tx[i])])
        ELSE recs[i - 1]
  IN  recs[Len(tx)]

\* Mutant: the first record of a name in a block is kept.
KeepRecord(out, rec) ==
  IF \E i \in DOMAIN out : out[i].name = rec.name THEN out ELSE Append(out, rec)

\* A record takes the place of an earlier one of its name.
PutRecord(out, rec) ==
  IF \E i \in DOMAIN out : out[i].name = rec.name
  THEN [i \in DOMAIN out |-> IF out[i].name = rec.name THEN rec ELSE out[i]]
  ELSE Append(out, rec)

PutRecords(out, recs) ==
  LET all[i \in 0..Len(recs)] == IF i = 0 THEN out ELSE PutRecord(all[i - 1], recs[i])
  IN  all[Len(recs)]

\* One record per name, its last, in the order in which the names first appear
ExtractTXTRecordsBlock(block) ==
  LET all[i \in 0..Len(block)] ==
        IF i = 0 THEN <<>> ELSE PutRecords(all[i - 1], ExtractTXTRecordsTx(block[i]))
  IN  all[Len(block)]

RecordsIn == [b \in Blocks |-> ExtractTXTRecordsBlock(b)]

IsSeq(s) == s \in Seq({s[i] : i \in DOMAIN s})

\* A block is a sequence of transactions, these of outputs, these of records and these
\* of entries.
ASSUME BlocksNested ==
  \A b \in Blocks :
    /\ IsSeq(b)
    /\ \A t \in DOMAIN b :
         /\ IsSeq(b[t])
         /\ \A o \in DOMAIN b[t] :
              /\ b[t][o].name \in HnsNames
              /\ IsSeq(b[t][o].records)
              /\ \A r \in DOMAIN b[t][o].records : IsSeq(b[t][o].records[r])

----------------------------------------------------------------------------

Down == [pc |-> "down"]
Idle == [pc |-> "idle"]

\* ingesting: inside WithTx, with lists to fetch, names of the current list to
\* ban and the ban keys of the transaction; waiting: for hsd.
DaemonState ==
  [pc : {"down", "waiting", "up"}]
    \cup [pc : {"ingesting"}, lists : 0..NumLists, names : SUBSET HnsNames,
          tx : SUBSET HnsNames]

\* fetching: the loop of doSync; importing: with the blocks fetched that are left.
ImporterState ==
  {Idle}
    \cup [pc : {"fetching"}, height : Nat, confirmed : Nat]
    \cup [pc : {"importing"}, height : Nat, confirmed : Nat, blocks : Seq(Blocks)]

NameInfo == [key : Keys, height : Nat]

TypeOK ==
  /\ chain \in Seq(Blocks)
  /\ hsdUp \in BOOLEAN
  /\ info \in [HnsNames -> NameInfo \cup {None}]
  /\ lastHeight \in Nat
  /\ complete \in BOOLEAN
  /\ banned \in SUBSET HnsNames
  /\ blobs \in SUBSET HnsNames
  /\ headers \in SUBSET HnsNames
  /\ headerCount \in Nat
  /\ daemon \in DaemonState
  /\ importer \in ImporterState
  /\ faults \in 0..MaxFaults
  /\ txLeftOpen \in BOOLEAN
  /\ wipedAt \in Nat
  /\ target \in Nat
  /\ listed \in SUBSET HnsNames
  /\ published \in SUBSET HnsNames

Init ==
  /\ chain = <<>>
  /\ hsdUp = TRUE
  /\ info = [n \in HnsNames |-> None]
  /\ lastHeight = 0
  /\ complete = FALSE
  /\ banned = {}
  /\ blobs = {}
  /\ headers = {}
  /\ headerCount = 0
  /\ daemon = Down
  /\ importer = Idle
  /\ faults = 0
  /\ txLeftOpen = FALSE
  /\ wipedAt = 0
  /\ target = 0
  /\ listed = {}
  /\ published = {}

Fault == faults < MaxFaults /\ faults' = faults + 1

----------------------------------------------------------------------------
(* hsd *)

Mine(b) ==
  /\ Len(chain) < MaxHeight
  /\ chain' = Append(chain, b)
  /\ UNCHANGED <<hsdUp, store, banned, content, daemon, importer, faults, txLeftOpen,
                 history>>

\* Another block takes the place of one that is not Depth blocks deep yet.
Reorganize(h, b) ==
  /\ h \in DOMAIN chain /\ h > Len(chain) - Depth
  /\ chain' = [chain EXCEPT ![h] = b]
  /\ UNCHANGED <<hsdUp, store, banned, content, daemon, importer, faults, txLeftOpen,
                 history>>

HsdFails ==
  /\ hsdUp /\ hsdUp' = FALSE
  /\ Fault
  /\ UNCHANGED <<chain, store, banned, content, daemon, importer, txLeftOpen, history>>

HsdRecovers ==
  /\ ~hsdUp /\ hsdUp' = TRUE
  /\ UNCHANGED <<chain, store, banned, content, daemon, importer, faults, txLeftOpen,
                 history>>

----------------------------------------------------------------------------
(* The start of the daemon *)

\* Mutant: the bans of earlier lists are kept.
IngestBanListsAgain ==
  /\ daemon.pc = "down"
  /\ daemon' = [pc |-> "ingesting", lists |-> NumLists, names |-> {}, tx |-> banned]
  /\ listed' = {}
  /\ UNCHANGED <<chain, hsdUp, store, banned, content, importer, faults, txLeftOpen,
                 wipedAt, target, published>>

\* Nothing ever sets the time of the last import, so the lists are fetched at
\* every start; the transaction first deletes the bans there are.
IngestBanLists ==
  /\ daemon.pc = "down"
  /\ daemon' = [pc |-> "ingesting", lists |-> NumLists, names |-> {}, tx |-> {}]
  /\ listed' = {}
  /\ UNCHANGED <<chain, hsdUp, store, banned, content, importer, faults, txLeftOpen,
                 wipedAt, target, published>>

\* A list is fetched whose version and names are valid.
FetchListFile(names) ==
  /\ daemon.pc = "ingesting" /\ daemon.names = {} /\ daemon.lists > 0
  /\ daemon' = [pc |-> "ingesting", lists |-> daemon.lists - 1, names |-> names,
                tx |-> daemon.tx]
  /\ listed' = listed \cup names
  /\ UNCHANGED <<chain, hsdUp, store, banned, content, importer, faults, txLeftOpen,
                 wipedAt, target, published>>

\* Mutant: the blob of a banned name is kept.
BanNameOnly(n) ==
  /\ daemon.pc = "ingesting" /\ n \in daemon.names
  /\ daemon' = [daemon EXCEPT !.names = @ \ {n}, !.tx = @ \cup {n}]
  /\ UNCHANGED <<chain, hsdUp, store, banned, content, importer, faults, txLeftOpen,
                 history>>

\* Remove and Commit of a transaction delete the file.  The header stays.
RemoveBlob(n) == blobs' = blobs \ {n} /\ UNCHANGED <<headers, headerCount>>

\* The ban of a name waits for the commit; its blob is removed at once.
BanName(n) ==
  /\ daemon.pc = "ingesting" /\ n \in daemon.names
  /\ daemon' = [pc |-> "ingesting", lists |-> daemon.lists, names |-> daemon.names \ {n},
                tx |-> daemon.tx \cup {n}]
  /\ RemoveBlob(n)
  /\ UNCHANGED <<chain, hsdUp, store, banned, importer, faults, txLeftOpen,
                 history>>

\* The end of the process, by an error of the start, a signal or a crash: whatever
\* is in an open transaction is lost.
ProcessEnds ==
  /\ daemon' = Down
  /\ importer' = Idle
  /\ txLeftOpen' = FALSE
  /\ published' = {}

\* WithTx commits what its callback has put even if the callback returns an error
\* (the deferred function tests another err), and returns that error ...
IngestFails ==
  /\ daemon.pc = "ingesting"
  /\ Fault
  /\ banned' = daemon.tx
  /\ ProcessEnds
  /\ UNCHANGED <<chain, hsdUp, store, content, wipedAt, target, listed>>

\* ... but if the commit itself fails it returns nil, and leaves the transaction
\* open.
IngestCommits ==
  /\ daemon.pc = "ingesting" /\ daemon.names = {} /\ daemon.lists = 0
  /\ daemon' = [pc |-> "waiting"]
  /\ \/ banned' = daemon.tx /\ UNCHANGED <<faults, txLeftOpen>>
     \/ Fault /\ txLeftOpen' = TRUE /\ UNCHANGED banned
  /\ UNCHANGED <<chain, hsdUp, store, content, importer, history>>

\* The loop that waits for hsd counts its limit up, not its index, and never gives
\* up; then the services are started.
ConnectHsd ==
  /\ daemon.pc = "waiting" /\ hsdUp
  /\ daemon' = [pc |-> "up"]
  /\ UNCHANGED <<chain, hsdUp, store, banned, content, importer, faults, txLeftOpen,
                 history>>

Crash ==
  /\ daemon.pc # "down"
  /\ Fault
  /\ ProcessEnds
  /\ UNCHANGED <<chain, hsdUp, store, banned, content, wipedAt, target, listed>>

\* Mutant: every header that is stored is counted.
SetHeaderCounts(n) == headers' = headers \cup {n} /\ headerCount' = headerCount + 1

\* SetHeaderTx counts a header if there was none ...
SetHeader(n) ==
  /\ headers' = headers \cup {n}
  /\ headerCount' = IF n \in headers THEN headerCount ELSE headerCount + 1

\* ... after it has put the header, which WithTx commits although counting failed.
SetHeaderFails(n) ==
  /\ Fault
  /\ \E put \in {{}, {n}} : headers' = headers \cup put
  /\ UNCHANGED headerCount

\* The updater stores the blob of a name with a key that is not banned
\* (validateBlobUpdate); a client of the RPC server may store any name with a key.
\* The file is there as soon as it is opened.
StoreBlob(n, local) ==
  /\ daemon.pc = "up" /\ info[n] # None /\ ~txLeftOpen
  /\ local \/ n \notin banned
  /\ blobs' = blobs \cup {n}
  /\ \/ SetHeader(n) /\ UNCHANGED <<faults, txLeftOpen>>
     \/ SetHeaderFails(n) /\ UNCHANGED txLeftOpen
     \/ Fault /\ txLeftOpen' = TRUE /\ UNCHANGED <<headers, headerCount>>
  /\ published' = IF local THEN published \cup {n} ELSE published
  /\ UNCHANGED <<chain, hsdUp, store, banned, daemon, importer, wipedAt, target,
                 listed>>

\* TruncateHeaderStore deletes the count and the headers, in the order of their
\* keys; a failed Delete does not undo the ones before it.
TruncateHeaderStore ==
  /\ headerCount' = 0
  /\ \/ headers' = {} /\ UNCHANGED faults
     \/ Fault /\ headers' \in SUBSET headers

\* fnd-cli unsafe reset-blobs, while the daemon is stopped: the files go first, and
\* the command may be cut off before the headers do.
ResetBlobs ==
  /\ daemon.pc = "down"
  /\ \/ blobs' = {} /\ TruncateHeaderStore
     \/ Fault /\ blobs' \in SUBSET blobs /\ UNCHANGED <<headers, headerCount>>
  /\ UNCHANGED <<chain, hsdUp, store, banned, daemon, importer, txLeftOpen, history>>

TruncateNameStore == info' = [n \in HnsNames |-> None]

\* fnd-cli unsafe reset-name-store, on the database of a stopped daemon: the names
\* go, the import height and the mark of the initial import stay.
ResetNameStore ==
  /\ daemon.pc = "down"
  /\ TruncateNameStore
  /\ wipedAt' = lastHeight
  /\ UNCHANGED <<chain, hsdUp, lastHeight, complete, banned, content, daemon, importer,
                 faults, txLeftOpen, target, listed, published>>

----------------------------------------------------------------------------
(* The name importer *)

\* The first doSync that finds something to import
FirstTarget(t) == IF target = 0 THEN t ELSE target

\* Mutant: blocks count as confirmed as soon as they are mined.
DoSyncUnconfirmed ==
  /\ daemon.pc = "up" /\ importer.pc = "idle" /\ hsdUp
  /\ Len(chain) >= Depth
  /\ Len(chain) > lastHeight
  /\ importer' = [pc |-> "fetching", height |-> lastHeight + 1,
                  confirmed |-> Len(chain)]
  /\ target' = FirstTarget(Len(chain) - 1)
  /\ UNCHANGED <<chain, hsdUp, store, banned, content, daemon, faults, txLeftOpen,
                 wipedAt, listed, published>>

\* Mutant: only whole batches are imported.
DoSyncFullBatch ==
  LET confirmedHeight == Len(chain) - Depth IN
  /\ daemon.pc = "up" /\ importer.pc = "idle" /\ hsdUp
  /\ Len(chain) >= Depth
  /\ confirmedHeight > lastHeight + Workers
  /\ importer' = [pc |-> "fetching", height |-> lastHeight + 1,
                  confirmed |-> confirmedHeight]
  /\ target' = FirstTarget(confirmedHeight - 1)
  /\ UNCHANGED <<chain, hsdUp, store, banned, content, daemon, faults, txLeftOpen,
                 wipedAt, listed, published>>

\* On a tick doSync asks for the height of the chain; it does nothing if there is
\* no answer or nothing newly confirmed.
DoSync ==
  LET confirmedHeight == Len(chain) - Depth IN
  /\ daemon.pc = "up" /\ importer.pc = "idle" /\ hsdUp
  /\ Len(chain) >= Depth
  /\ confirmedHeight > lastHeight
  /\ importer' = [pc |-> "fetching", height |-> lastHeight + 1,
                  confirmed |-> confirmedHeight]
  /\ target' = FirstTarget(confirmedHeight - 1)
  /\ UNCHANGED <<chain, hsdUp, store, banned, content, daemon, faults, txLeftOpen,
                 wipedAt, listed, published>>

\* The next blocks below the confirmed height are fetched in parallel.
FetchBlocks ==
  LET t == importer
      delta == Min({t.confirmed - t.height, Workers}) IN
  /\ t.pc = "fetching" /\ t.height < t.confirmed /\ hsdUp
  /\ importer' = [pc |-> "importing", height |-> t.height, confirmed |-> t.confirmed,
                  blocks |-> SubSeq(chain, t.height, t.height + delta - 1)]
  /\ UNCHANGED <<chain, hsdUp, store, banned, content, daemon, faults, txLeftOpen,
                 history>>

\* The block being imported: its records, and whether it is the last
Records == RecordsIn[Head(importer.blocks)]
IsLast  == importer.height = importer.confirmed - 1

\* A block, or the name of a hash in the records of one, is needed from hsd.
AsksHsd ==
  \/ importer.pc = "fetching" /\ importer.height < importer.confirmed
  \/ importer.pc = "importing" /\ Records # <<>>

\* The loop of doSync ends; or a call to hsd fails, and doSync returns.
DoSyncReturns ==
  /\ \/ importer.pc = "fetching" /\ importer.height >= importer.confirmed
        /\ UNCHANGED faults
     \/ AsksHsd /\ ~hsdUp /\ UNCHANGED faults
     \/ AsksHsd /\ Fault
  /\ importer' = Idle
  /\ UNCHANGED <<chain, hsdUp, store, banned, content, daemon, txLeftOpen, history>>

KeyOf(recs, name) == recs[CHOOSE i \in DOMAIN recs : recs[i].name = name].key

\* Mutant: the mark is set with the first block.
PutBlockComplete(recs, height, last, n) ==
  /\ info' = [name \in HnsNames |->
               IF \E i \in DOMAIN recs : i <= n /\ recs[i].name = name
               THEN [key |-> KeyOf(recs, name), height |-> height] ELSE info[name]]
  /\ lastHeight' = IF n > Len(recs) THEN height ELSE lastHeight
  /\ complete' = (complete \/ n > Len(recs) + 1)

\* What the first n writes of a block's transaction do: the name info of each
\* record, the height, and the mark if this is the last block to import.
PutBlock(recs, height, last, n) ==
  /\ info' = [name \in HnsNames |->
               IF \E i \in DOMAIN recs : i <= n /\ recs[i].name = name
               THEN [key |-> KeyOf(recs, name), height |-> height] ELSE info[name]]
  /\ lastHeight' = IF n > Len(recs) THEN height ELSE lastHeight
  /\ complete' = (complete \/ (last /\ n > Len(recs) + 1))

\* All hashes of a block have been resolved, and the transaction is committed, or
\* its commit fails, which the importer does not notice: it goes on to the next
\* block.
ImportBlock ==
  LET t == importer IN
  /\ t.pc = "importing" /\ ~txLeftOpen /\ (AsksHsd => hsdUp)
  /\ \/ /\ PutBlock(Records, t.height, IsLast, Len(Records) + 2)
        /\ UNCHANGED <<faults, txLeftOpen>>
     \/ Fault /\ txLeftOpen' = TRUE /\ UNCHANGED store
  /\ importer' = IF Len(t.blocks) = 1
                 THEN [pc |-> "fetching", height |-> t.height + 1,
                       confirmed |-> t.confirmed]
                 ELSE [pc |-> "importing", height |-> t.height + 1,
                       confirmed |-> t.confirmed, blocks |-> Tail(t.blocks)]
  /\ UNCHANGED <<chain, hsdUp, banned, content, daemon, history>>

\* A write in the transaction fails; the writes before it are committed, and doSync
\* returns.
ImportBlockFails(n) ==
  /\ importer.pc = "importing" /\ ~txLeftOpen /\ (AsksHsd => hsdUp)
  /\ n \in 0..Len(Records) + 1
  /\ n = Len(Records) + 1 => IsLast
  /\ Fault
  /\ PutBlock(Records, importer.height, IsLast, n)
  /\ importer' = Idle
  /\ UNCHANGED <<chain, hsdUp, banned, content, daemon, txLeftOpen, history>>

----------------------------------------------------------------------------

StartStep ==
  \/ IngestBanLists
  \/ \E names \in Lists : FetchListFile(names)
  \/ \E n \in HnsNames : BanName(n)
  \/ IngestCommits
  \/ ConnectHsd

ImporterStep == DoSync \/ FetchBlocks \/ ImportBlock \/ DoSyncReturns

Next ==
  \/ \E b \in Blocks : Mine(b) \/ \E h \in 1..MaxHeight : Reorganize(h, b)
  \/ HsdFails \/ HsdRecovers
  \/ StartStep \/ ImporterStep
  \/ IngestFails \/ Crash \/ ResetNameStore \/ ResetBlobs
  \/ \E n \in HnsNames, local \in BOOLEAN : StoreBlob(n, local)
  \/ \E n \in 0..Cardinality(HnsNames) + 1 : ImportBlockFails(n)

Spec == Init /\ [][Next]_vars

\* The daemon is started again when it has ended, the importer has a ticker, and
\* hsd comes back.
Fairness == WF_vars(StartStep) /\ WF_vars(ImporterStep) /\ WF_vars(HsdRecovers)

FairSpec == Spec /\ Fairness

----------------------------------------------------------------------------
(* Properties *)

\* Where the outputs of a block publish a key: transaction, output, record, entry
Publications(block) ==
  UNION {UNION {UNION {{<<t, o, r, e>> : e \in
           {e \in DOMAIN block[t][o].records[r] :
              block[t][o].type \in {"UPDATE", "REGISTER"}
                /\ block[t][o].records[r][e] \in Keys}}
         : r \in DOMAIN block[t][o].records} : o \in DOMAIN block[t]} : t \in DOMAIN block}

\* p comes after q in the block.
Later(p, q) ==
  \E i \in 1..4 : p[i] > q[i] /\ \A j \in 1..(i - 1) : p[j] = q[j]

\* The key a block gives a name, by the importer and by its publications
ImportedKey(block, name) ==
  LET recs == RecordsIn[block]
  IN  IF \E i \in DOMAIN recs : recs[i].name = name THEN KeyOf(recs, name) ELSE None

PublishedKey(block, name) ==
  LET ps == {p \in Publications(block) : block[p[1]][p[2]].name = name}
      p  == CHOOSE p \in ps : \A q \in ps : p = q \/ Later(p, q)
  IN  IF ps = {} THEN None ELSE block[p[1]][p[2]].records[p[3]][p[4]]

\* Whether the records of a block are those that it publishes last, and each name once
Extracted ==
  [b \in Blocks |->
     LET recs == RecordsIn[b] IN
     /\ \A i, j \in DOMAIN recs : recs[i].name = recs[j].name => i = j
     /\ \A n \in HnsNames : ImportedKey(b, n) = PublishedKey(b, n)]

\* Of several keys that a block publishes for a name, in entries, records, outputs
\* and transactions, the importer takes the last, and each name once
\* (ExtractTXTRecordsBlock).
LastRecordWins == \A h \in DOMAIN chain : Extracted[chain[h]]

\* The stored info of a name is what the last block up to the import height that
\* publishes a key for it says, or already what the next block says, of which a
\* failed transaction may have left a part: no block is skipped, imported twice to
\* another effect or imported before it is final, whatever fails and whenever the
\* chain is reorganized (doSync).
NamesMatchChain ==
  \A n \in HnsNames :
    LET Says(h) == h \in DOMAIN chain /\ ImportedKey(chain[h], n) # None
                     /\ info[n] = [key |-> ImportedKey(chain[h], n), height |-> h]
    IN  \/ Says(lastHeight + 1)
        \/ \E h \in (wipedAt + 1)..lastHeight :
             Says(h) /\ \A k \in (h + 1)..lastHeight : ImportedKey(chain[k], n) = None
        \/ /\ info[n] = None
           /\ \A k \in (wipedAt + 1)..lastHeight : ImportedKey(chain[k], n) = None

\* Once the initial import is marked complete, which is what the name syncer waits
\* for, every block that was final when the import began has been imported, even
\* if it took several attempts and failed in the last transaction (doSync).
InitialImportIsWhole == complete => target > 0 /\ lastHeight >= target

\* While the services run, the bans in force are those of the lists as fetched at
\* this start, never a part of them or of earlier ones, although a failed refresh
\* commits what it has (IngestBanLists; the exception is a commit that failed).
BansCurrent == daemon.pc = "up" /\ ~txLeftOpen => banned = listed

\* While the services run, a banned name has no blob but one that a client of this
\* node published, whichever step of a refresh, or of one before, was cut off.
BannedHaveNoBlob ==
  daemon.pc = "up" => \A n \in banned \cap listed : n \in blobs => n \in published

\* The count of headers that GetStatus reports never exceeds the headers there are,
\* and without failures it is their number, although headers are stored again,
\* their blobs are removed by bans, and resets are cut off (IncrementHeaderCount).
HeadersCounted ==
  /\ headerCount <= Cardinality(headers)
  /\ faults = 0 => headerCount = Cardinality(headers)

\* The importer catches up with the chain: to one block below the last that has
\* Depth confirmations (the loop of doSync excludes it), after any finite number of
\* failures, unless a failed commit has left a transaction open.
ImportCatchesUp == []<>(txLeftOpen \/ lastHeight + Depth + 1 >= Len(chain))

============================================================================
