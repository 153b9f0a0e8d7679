---------------------------- MODULE Peers_proofs ----------------------------
(***************************************************************************)
(* Proofs about Peers, for any sets of connections, peer IDs and addresses *)
(* and any limits.                                                         *)
(*                                                                         *)
(* The maps and counts of the muxer agree because what is registered under *)
(* an ID is a connection of that ID with a reader (OneReaderPerPeer), so   *)
(* that Unregister finds in the record of the connection what AddPeer      *)
(* registered.  The bound on the counts needs the calls that have passed   *)
(* the limit and have yet to register (CallsBounded).                      *)
(***************************************************************************)
EXTENDS Peers, FiniteSetTheorems, TLAPS

\* The connections by where they are
DialState ==
  [pc : {"gating", "handshake"}, dir : Directions, ip : Ips,
   want : Ids \cup {None}, verify : BOOLEAN]
GreetedState == [pc : {"greeted"}, dir : Directions, ip : Ips, id : Ids \cup {Self}]
ReadState ==
  [pc : {"open", "failing", "done"}, dir : Directions, ip : Ips,
   id : Ids, closed : BOOLEAN]

\* The connections that have or had a reader
Reading == {"open", "failing", "done"}

\* What is about to be closed has not been given up.
ClosingReads == \A c \in closing : conn[c].pc \in Reading

\* Each call that holds the semaphore may still add a connection.
CallsBounded ==
  /\ inboundCount + Cardinality(Calls("in")) < MaxInbound + MaxPendingInbound
  /\ outboundCount + Cardinality(Calls("out")) < MaxOutbound + MaxPendingOutbound

\* What the muxer and the readers know of each other
MuxOK == MuxerConsistent /\ OneReaderPerPeer /\ ClosingReads

\* The inductive invariant
IInv == TypeOK /\ MuxOK /\ CallsBounded

----------------------------------------------------------------------------
(* Facts about connections *)

\* A connection is of the kind that its pc says.
LEMMA ConnKinds ==
  ASSUME NEW s \in ConnState
  PROVE  /\ s.pc \in {"gating", "handshake"} => s \in DialState
         /\ s.pc = "greeted" => s \in GreetedState
         /\ s.pc \in Reading => s \in ReadState
BY DEF ConnState, Idle, DialState, GreetedState, ReadState, Reading

LEMMA KindsAreConns ==
  /\ Idle \in ConnState /\ Idle.pc = "idle"
  /\ \A s \in DialState : s \in ConnState /\ s.pc \in {"gating", "handshake"}
  /\ \A s \in GreetedState : s \in ConnState /\ s.pc = "greeted"
  /\ \A s \in ReadState : s \in ConnState /\ s.pc \in Reading
BY DEF ConnState, Idle, DialState, GreetedState, ReadState, Reading

\* Calls are finitely many, and fewer when some return.
LEMMA CallsCount ==
  ASSUME NEW dir
  PROVE  IsFiniteSet(Calls(dir)) /\ Cardinality(Calls(dir)) \in Nat
<1>1. Calls(dir) \subseteq Conns
  BY DEF Calls
<1> QED BY <1>1, ConnsFinite, FS_Subset, FS_CardinalityType

LEMMA CallsCountNext ==
  ASSUME NEW dir
  PROVE  IsFiniteSet(Calls(dir)') /\ Cardinality(Calls(dir)') \in Nat
<1>1. Calls(dir)' \subseteq Conns
  BY DEF Calls
<1> QED BY <1>1, ConnsFinite, FS_Subset, FS_CardinalityType

LEMMA RegisteredCount ==
  ASSUME NEW dir
  PROVE  IsFiniteSet(Registered(dir)) /\ Cardinality(Registered(dir)) \in Nat
<1>1. Registered(dir) \subseteq Conns
  BY DEF Registered
<1> QED BY <1>1, ConnsFinite, FS_Subset, FS_CardinalityType

LEMMA SumBelow ==
  ASSUME NEW m \in Nat, NEW n \in Nat, NEW k \in Nat, NEW l \in Nat, NEW b \in Int,
         k <= m, l <= n, m + n < b
  PROVE  k + l < b
OBVIOUS

\* If no call begins and no connection is registered, the bound is kept.
LEMMA BoundKept ==
  ASSUME IInv, Calls("in")' \subseteq Calls("in"), Calls("out")' \subseteq Calls("out"),
         inboundCount' \in Nat, outboundCount' \in Nat,
         inboundCount' <= inboundCount, outboundCount' <= outboundCount
  PROVE  CallsBounded'
<1>1. /\ Cardinality(Calls("in")') <= Cardinality(Calls("in"))
      /\ Cardinality(Calls("out")') <= Cardinality(Calls("out"))
  BY CallsCount, FS_Subset
<1>2. /\ inboundCount \in Nat /\ outboundCount \in Nat
      /\ inboundCount + Cardinality(Calls("in")) < MaxInbound + MaxPendingInbound
      /\ outboundCount + Cardinality(Calls("out")) < MaxOutbound + MaxPendingOutbound
  BY DEF IInv, TypeOK, CallsBounded
<1>3. /\ inboundCount' + Cardinality(Calls("in")') < MaxInbound + MaxPendingInbound
      /\ outboundCount' + Cardinality(Calls("out")') < MaxOutbound + MaxPendingOutbound
  <2> DEFINE a == Cardinality(Calls("in"))
             b == Cardinality(Calls("in")')
             e == Cardinality(Calls("out"))
             f == Cardinality(Calls("out")')
  <2>1. a \in Nat /\ b \in Nat /\ e \in Nat /\ f \in Nat
    BY CallsCount, CallsCountNext
  <2>2. b <= a /\ f <= e
    BY <1>1
  <2>3. inboundCount + a < MaxInbound + MaxPendingInbound
        /\ outboundCount + e < MaxOutbound + MaxPendingOutbound
    BY <1>2
  <2> HIDE DEF a, b, e, f
  <2>4. inboundCount \in Nat /\ outboundCount \in Nat
    BY <1>2
  <2>5. MaxInbound + MaxPendingInbound \in Int /\ MaxOutbound + MaxPendingOutbound \in Int
    BY LimitsAreNats
  <2>6. inboundCount' + b < MaxInbound + MaxPendingInbound
    BY <2>1, <2>2, <2>3, <2>4, <2>5, SumBelow, Zenon
  <2>7. outboundCount' + f < MaxOutbound + MaxPendingOutbound
    BY <2>1, <2>2, <2>3, <2>4, <2>5, SumBelow, Zenon
  <2> QED BY <2>6, <2>7 DEF b, f
<1> QED BY <1>3 DEF CallsBounded

----------------------------------------------------------------------------
(* Steps that leave the muxer alone *)

\* What is registered stays so as long as its record says the same.
LEMMA MuxerKept ==
  ASSUME TypeOK, MuxerConsistent, OneReaderPerPeer, UNCHANGED muxer,
         \A c \in Conns : conn[c].pc \in {"open", "failing"} /\ peers[conn[c].id] = c =>
           /\ conn'[c].pc \in {"open", "failing"} /\ conn'[c].id = conn[c].id
           /\ conn'[c].dir = conn[c].dir /\ conn'[c].ip = conn[c].ip
  PROVE  /\ MuxerConsistent'
         /\ \A c \in Conns, id \in Ids : peers'[id] = c =>
              conn'[c].pc \in {"open", "failing"} /\ conn'[c].id = id
<1>1. \A c \in Conns, id \in Ids : peers[id] = c =>
        /\ conn'[c].pc \in {"open", "failing"} /\ conn'[c].id = id
        /\ conn'[c].dir = conn[c].dir /\ conn'[c].ip = conn[c].ip
  BY DEF OneReaderPerPeer
<1>2. ASSUME NEW dir PROVE Registered(dir)' = Registered(dir)
  BY <1>1 DEF Registered, muxer
<1>3. \A dir : \A c \in Registered(dir) : conn'[c].ip = conn[c].ip
  BY <1>1 DEF Registered
<1>4. MuxerConsistent'
  BY <1>2, <1>3 DEF MuxerConsistent, muxer
<1> QED BY <1>1, <1>4 DEF muxer

\* A call goes on: neither before nor after has the connection a reader.
LEMMA CallMoves ==
  ASSUME IInv, NEW c \in Conns, NEW s \in ConnState, Become(c, s),
         conn[c].pc \notin Reading, s.pc \notin Reading, UNCHANGED <<muxer, closing>>
  PROVE  conn' \in [Conns -> ConnState] /\ MuxOK'
<1>1. conn' = [conn EXCEPT ![c] = s] /\ conn \in [Conns -> ConnState]
  BY DEF Become, IInv, TypeOK
<1>2. \A d \in Conns : conn[d].pc \in Reading => conn'[d] = conn[d]
  BY <1>1
<1>3. \A d \in Conns : conn'[d].pc \in Reading => conn'[d] = conn[d]
  BY <1>1
<1>4. MuxerConsistent' /\ \A d \in Conns, id \in Ids : peers'[id] = d =>
              conn'[d].pc \in {"open", "failing"} /\ conn'[d].id = id
  BY <1>2, MuxerKept DEF IInv, MuxOK, Reading
<1>5. OneReaderPerPeer'
  BY <1>3, <1>4 DEF IInv, MuxOK, OneReaderPerPeer, muxer, Reading
<1>6. ClosingReads'
  BY <1>2 DEF IInv, MuxOK, ClosingReads, TypeOK
<1> QED BY <1>1, <1>4, <1>5, <1>6 DEF MuxOK

\* The reader of a connection goes on, or somebody closes the connection.
LEMMA ReaderMoves ==
  ASSUME IInv, UNCHANGED muxer, closing' \in SUBSET closing,
         conn' \in [Conns -> ConnState],
         \A d \in Conns :
           \/ conn'[d] = conn[d] /\ (d \in closing => d \in closing')
           \/ /\ conn[d].pc \in Reading /\ conn'[d] \in ReadState
              /\ conn'[d].id = conn[d].id /\ conn'[d].dir = conn[d].dir
              /\ conn'[d].ip = conn[d].ip
              /\ conn[d].pc \in {"open", "failing"} => conn'[d].pc \in {"open", "failing"}
              /\ conn'[d].closed \/ ((d \in closing => d \in closing') /\ conn'[d].closed = conn[d].closed)
           \/ /\ conn[d].pc = "done" /\ conn'[d] = Idle /\ d \notin closing'
  PROVE  MuxOK'
<1>1. \A d \in Conns : conn[d].pc \in {"open", "failing"} =>
           /\ conn'[d].pc \in {"open", "failing"} /\ conn'[d].id = conn[d].id
           /\ conn'[d].dir = conn[d].dir /\ conn'[d].ip = conn[d].ip
  OBVIOUS
<1>2. MuxerConsistent' /\ \A d \in Conns, id \in Ids : peers'[id] = d =>
              conn'[d].pc \in {"open", "failing"} /\ conn'[d].id = id
  BY <1>1, MuxerKept DEF IInv, MuxOK
<1>3. ASSUME NEW d \in Conns, conn'[d].pc \in Reading
      PROVE  peers'[conn'[d].id] = d \/ d \in closing' \/ conn'[d].closed
  BY <1>3, KindsAreConns DEF IInv, MuxOK, OneReaderPerPeer, muxer, Reading
<1>4. OneReaderPerPeer'
  BY <1>2, <1>3 DEF OneReaderPerPeer, Reading
<1>5. ClosingReads'
  BY KindsAreConns DEF IInv, MuxOK, ClosingReads, TypeOK
<1> QED BY <1>2, <1>4, <1>5 DEF MuxOK

----------------------------------------------------------------------------
(* The calls *)

\* A call begins: it has passed the limit, and holds one more of the semaphore.
LEMMA StartKeeps ==
  ASSUME IInv, NEW c \in Conns, NEW dir \in Directions, NEW ip \in Ips,
         NEW want \in Ids \cup {None}, NEW verify \in BOOLEAN,
         Start(c, dir, ip, want, verify)
  PROVE  IInv'
<1> DEFINE s == [pc |-> "gating", dir |-> dir, ip |-> ip, want |-> want,
                 verify |-> verify]
<1>1. s \in DialState /\ s.pc = "gating" /\ s.dir = dir
  BY DEF DialState
<1>2. Become(c, s) /\ conn[c].pc = "idle" /\ UNCHANGED <<muxer, pendingOutbound, closing, inBanned, outBanned>>
  BY DEF Start
<1> HIDE DEF s
<1>3. conn' \in [Conns -> ConnState] /\ MuxOK'
  BY <1>1, <1>2, CallMoves, KindsAreConns DEF Reading
<1>4. TypeOK'
  BY <1>2, <1>3 DEF IInv, TypeOK, muxer
<1>5. conn' = [conn EXCEPT ![c] = s] /\ conn \in [Conns -> ConnState]
  BY <1>2 DEF Become, IInv, TypeOK
<1>6. Calls(dir)' = Calls(dir) \cup {c} /\ c \notin Calls(dir)
  BY <1>1, <1>2, <1>5 DEF Calls
<1>7. \A o \in Directions : o # dir => Calls(o)' = Calls(o)
  BY <1>1, <1>2, <1>5 DEF Calls
<1>8. Cardinality(Calls(dir)') = Cardinality(Calls(dir)) + 1
  BY <1>6, CallsCount, FS_AddElement
<1>9. CASE dir = "in"
  <2>1. Cardinality(Calls("out")') = Cardinality(Calls("out"))
    BY <1>7, <1>9 DEF Directions
  <2>2. inboundCount < MaxInbound /\ Cardinality(Calls("in")) < MaxPendingInbound
    BY <1>9 DEF Start, BelowLimit, TryAcquire
  <2>3. Cardinality(Calls("in")') = Cardinality(Calls("in")) + 1
    BY <1>8, <1>9
  <2>4. inboundCount' = inboundCount /\ outboundCount' = outboundCount
        /\ inboundCount \in Nat /\ outboundCount \in Nat
    BY <1>2 DEF muxer, IInv, TypeOK
  <2>5. Cardinality(Calls("in")) \in Nat
    BY CallsCount
  <2>6. inboundCount' + Cardinality(Calls("in")') < MaxInbound + MaxPendingInbound
    BY <2>2, <2>3, <2>4, <2>5, LimitsAreNats
  <2> QED BY <1>3, <1>4, <2>1, <2>4, <2>6 DEF IInv, CallsBounded
<1>10. CASE dir = "out"
  <2>1. Cardinality(Calls("in")') = Cardinality(Calls("in"))
    BY <1>7, <1>10 DEF Directions
  <2>2. outboundCount < MaxOutbound /\ Cardinality(Calls("out")) < MaxPendingOutbound
    BY <1>10 DEF Start, BelowLimit, TryAcquire
  <2>3. Cardinality(Calls("out")') = Cardinality(Calls("out")) + 1
    BY <1>8, <1>10
  <2>4. inboundCount' = inboundCount /\ outboundCount' = outboundCount
        /\ inboundCount \in Nat /\ outboundCount \in Nat
    BY <1>2 DEF muxer, IInv, TypeOK
  <2>5. Cardinality(Calls("out")) \in Nat
    BY CallsCount
  <2>6. outboundCount' + Cardinality(Calls("out")') < MaxOutbound + MaxPendingOutbound
    BY <2>2, <2>3, <2>4, <2>5, LimitsAreNats
  <2> QED BY <1>3, <1>4, <2>1, <2>4, <2>6 DEF IInv, CallsBounded
<1> QED BY <1>9, <1>10 DEF Directions

\* A call goes on or returns without a connection.
LEMMA CallGoesOn ==
  ASSUME IInv, NEW c \in Conns, NEW s \in ConnState, Become(c, s),
         conn[c].pc \in {"gating", "handshake", "greeted"},
         s = Idle \/ (s \in DialState \cup GreetedState /\ s.dir = conn[c].dir),
         UNCHANGED <<muxer, closing>>, pendingOutbound' \in SUBSET Ips,
         inBanned' \in SUBSET Ips, outBanned' \in SUBSET Ips
  PROVE  IInv'
<1>1. conn[c].pc \notin Reading /\ s.pc \notin Reading
  BY KindsAreConns DEF Reading
<1>2. conn' \in [Conns -> ConnState] /\ MuxOK'
  BY <1>1, CallMoves
<1>3. TypeOK'
  BY <1>2 DEF IInv, TypeOK, muxer
<1>4. conn' = [conn EXCEPT ![c] = s] /\ conn \in [Conns -> ConnState]
  BY DEF Become, IInv, TypeOK
<1>5. ASSUME NEW dir PROVE Calls(dir)' \subseteq Calls(dir)
  BY <1>4, KindsAreConns DEF Calls
<1>6. inboundCount' = inboundCount /\ outboundCount' = outboundCount
      /\ inboundCount \in Nat /\ outboundCount \in Nat
  BY DEF muxer, IInv, TypeOK
<1>7. CallsBounded'
  BY <1>5, <1>6, BoundKept
<1> QED BY <1>2, <1>3, <1>7 DEF IInv

LEMMA CallStepKeeps ==
  ASSUME IInv, NEW c \in Conns,
         \/ GateInbound(c) \/ GateOutbound(c) \/ Fail(c) \/ SelfDial(c)
         \/ AlreadyConnected(c) \/ \E id \in Ids \cup {Self} : Greet(c, id)
  PROVE  IInv'
<1>1. conn[c] \in ConnState
  BY DEF IInv, TypeOK
<1>2. Idle \in ConnState
  BY KindsAreConns
<1>3. pendingOutbound \in SUBSET Ips /\ inBanned \in SUBSET Ips /\ outBanned \in SUBSET Ips
  BY DEF IInv, TypeOK
<1>4. CASE GateInbound(c) \/ GateOutbound(c)
  <2> DEFINE h == [conn[c] EXCEPT !.pc = "handshake"]
  <2>1. conn[c].pc = "gating" /\ UNCHANGED <<muxer, closing, inBanned, outBanned>>
    BY <1>4 DEF GateInbound, GateOutbound
  <2>2. conn[c] \in DialState
    BY <1>1, <2>1, ConnKinds
  <2>3. h \in DialState /\ h.dir = conn[c].dir /\ conn[c].ip \in Ips
    BY <2>2 DEF DialState
  <2>4. Become(c, Idle) \/ Become(c, h)
    BY <1>4 DEF GateInbound, GateOutbound
  <2>5. pendingOutbound' \in SUBSET Ips
    BY <1>3, <1>4, <2>3 DEF GateInbound, GateOutbound
  <2>6. h \in ConnState
    BY <2>3, KindsAreConns
  <2> HIDE DEF h
  <2>7. CASE Become(c, Idle)
    BY <1>2, <1>3, <2>1, <2>5, <2>7, CallGoesOn
  <2>8. CASE Become(c, h)
    BY <1>3, <2>1, <2>3, <2>5, <2>6, <2>8, CallGoesOn
  <2> QED BY <2>4, <2>7, <2>8
<1>5. CASE Fail(c) \/ SelfDial(c) \/ AlreadyConnected(c)
  <2>1. /\ conn[c].pc \in {"gating", "handshake", "greeted"} /\ Become(c, Idle)
        /\ UNCHANGED <<muxer, closing, inBanned>>
    BY <1>5 DEF Fail, SelfDial, AlreadyConnected
  <2>2. conn[c].pc \in {"handshake", "greeted"}
    BY <1>5 DEF Fail, SelfDial, AlreadyConnected
  <2>3. conn[c].ip \in Ips
    BY <1>1, <2>2, ConnKinds DEF DialState, GreetedState
  <2>4. pendingOutbound' \in SUBSET Ips /\ outBanned' \in SUBSET Ips
    BY <1>3, <1>5, <2>3 DEF Fail, SelfDial, AlreadyConnected, Cleanup
  <2> QED BY <1>2, <1>3, <2>1, <2>4, CallGoesOn
<1>6. ASSUME NEW id \in Ids \cup {Self}, Greet(c, id) PROVE IInv'
  <2> DEFINE g == [pc |-> "greeted", dir |-> conn[c].dir, ip |-> RemoteIP[conn[c].ip],
                   id |-> id]
  <2>1. conn[c].pc = "handshake" /\ Become(c, g) /\ UNCHANGED <<muxer, closing, inBanned, outBanned>>
    BY <1>6 DEF Greet
  <2>2. conn[c] \in DialState
    BY <1>1, <2>1, ConnKinds
  <2>3. g \in GreetedState /\ g.dir = conn[c].dir
    BY <2>2, RemoteIPCanonical DEF DialState, GreetedState
  <2>4. pendingOutbound' \in SUBSET Ips
    BY <1>3, <1>6 DEF Greet, Cleanup
  <2>5. g \in ConnState
    BY <2>3, KindsAreConns
  <2> HIDE DEF g
  <2> QED BY <1>3, <2>1, <2>3, <2>4, <2>5, CallGoesOn
<1> QED BY <1>4, <1>5, <1>6

\* A call ends with a connection, which is registered.
LEMMA AddPeerKeeps ==
  ASSUME IInv, NEW c \in Conns, AddPeer(c)
  PROVE  IInv'
<1> DEFINE s == conn[c]
           o == [pc |-> "open", dir |-> s.dir, ip |-> s.ip, id |-> s.id, closed |-> FALSE]
<1>1. s \in GreetedState /\ s.id \in Ids /\ s.dir \in Directions /\ s.ip \in Ips
      /\ s.pc = "greeted"
  <2>1. s \in ConnState /\ s.pc = "greeted" /\ s.id # Self
    BY DEF IInv, TypeOK, AddPeer
  <2>2. s \in GreetedState
    BY <2>1, ConnKinds
  <2> QED BY <2>1, <2>2 DEF GreetedState
<1>2. o \in ReadState /\ o.pc = "open" /\ o.dir = s.dir /\ o.ip = s.ip /\ o.id = s.id
  BY <1>1 DEF ReadState
<1>3. conn' = [conn EXCEPT ![c] = o] /\ conn \in [Conns -> ConnState]
  BY DEF AddPeer, Become, IInv, TypeOK
<1>4. conn' \in [Conns -> ConnState] /\ conn'[c] = o
      /\ \A d \in Conns : d # c => conn'[d] = conn[d]
  BY <1>2, <1>3, KindsAreConns
<1> HIDE DEF o
<1>5. peers[s.id] = None /\ peers' = [peers EXCEPT ![s.id] = c]
      /\ peers \in [Ids -> Conns \cup {None}]
  BY DEF AddPeer, IInv, TypeOK
<1>6. \A id \in Ids : peers[id] # c
  BY <1>1 DEF IInv, MuxOK, OneReaderPerPeer
<1>7. \A id \in Ids : peers'[id] = IF id = s.id THEN c ELSE peers[id]
  BY <1>5
<1>8. \A dir \in Directions :
        Registered(dir)' = IF dir = s.dir THEN Registered(dir) \cup {c} ELSE Registered(dir)
  <2> SUFFICES ASSUME NEW dir \in Directions, NEW d \in Conns
               PROVE  d \in Registered(dir)'
                        <=> d \in Registered(dir) \/ (d = c /\ dir = s.dir)
    BY <1>6, NamesDistinct DEF Registered
  <2>1. CASE d = c
    BY <1>1, <1>2, <1>4, <1>6, <1>7, <2>1 DEF Registered
  <2>2. CASE d # c
    BY <1>4, <1>5, <1>7, <2>2, NamesDistinct DEF Registered
  <2> QED BY <2>1, <2>2
<1>9. c \notin Registered("in") /\ c \notin Registered("out")
  BY <1>6 DEF Registered
<1>10. \A dir \in Directions : \A d \in Registered(dir) : d \in Conns /\ d # c /\ conn'[d] = conn[d]
  BY <1>4, <1>9 DEF Registered, Directions
<1>11. OneReaderPerPeer'
  <2> SUFFICES ASSUME NEW d \in Conns
               PROVE  /\ \A id \in Ids : peers'[id] = d =>
                           conn'[d].pc \in {"open", "failing"} /\ conn'[d].id = id
                      /\ conn'[d].pc \in {"open", "failing", "done"} =>
                           peers'[conn'[d].id] = d \/ d \in closing' \/ conn'[d].closed
    BY DEF OneReaderPerPeer
  <2>1. CASE d = c
    BY <1>1, <1>2, <1>4, <1>6, <1>7, <2>1
  <2>2. CASE d # c
    <3>1. conn'[d] = conn[d] /\ closing' = closing
      BY <1>4, <2>2 DEF AddPeer
    <3>2. \A id \in Ids : peers'[id] = d => peers[id] = d
      BY <1>7, <2>2
    <3>3. conn[d].pc \in {"open", "failing", "done"} => conn[d].id \in Ids
      BY <1>3, ConnKinds DEF ReadState, Reading
    <3>4. conn[d].pc \in {"open", "failing", "done"} /\ peers[conn[d].id] = d
            => peers'[conn[d].id] = d
      BY <1>5, <1>7, <3>3, NamesDistinct
    <3> QED BY <3>1, <3>2, <3>4 DEF IInv, MuxOK, OneReaderPerPeer
  <2> QED BY <2>1, <2>2
<1>12. ClosingReads'
  BY <1>1, <1>4 DEF IInv, MuxOK, ClosingReads, AddPeer, TypeOK, Reading
<1>13. \A dir \in Directions : dir = s.dir => Calls(dir)' = Calls(dir) \ {c} /\ c \in Calls(dir)
  BY <1>1, <1>2, <1>4 DEF Calls
<1>14. \A dir \in Directions : dir # s.dir => Calls(dir)' = Calls(dir)
  BY <1>1, <1>2, <1>4 DEF Calls
<1>15. ASSUME NEW dir \in Directions, dir = s.dir
       PROVE  Cardinality(Calls(dir)') = Cardinality(Calls(dir)) - 1
  <2>1. Calls(dir)' = Calls(dir) \ {c} /\ c \in Calls(dir)
    BY <1>13, <1>15
  <2> QED BY <2>1, CallsCount, FS_RemoveElement
<1>16. ASSUME NEW dir \in Directions, dir = s.dir
       PROVE  Cardinality(Registered(dir)') = Cardinality(Registered(dir)) + 1
  <2>1. Registered(dir)' = Registered(dir) \cup {c} /\ c \notin Registered(dir)
    BY <1>8, <1>9, <1>16 DEF Directions
  <2> QED BY <2>1, RegisteredCount, FS_AddElement
<1>17. /\ inboundCount = Cardinality(Registered("in"))
       /\ outboundCount = Cardinality(Registered("out"))
       /\ inboundCount \in Nat /\ outboundCount \in Nat
  BY DEF IInv, MuxOK, MuxerConsistent, TypeOK
<1>18. CASE s.dir = "in"
  <2>1. /\ inboundCount' = inboundCount + 1
        /\ inboundPeersByIP' = [inboundPeersByIP EXCEPT ![s.ip] = @ \cup {c}]
        /\ UNCHANGED <<outboundCount, outboundPeersByIP, pendingOutbound, closing,
                       inBanned, outBanned>>
    BY <1>18 DEF AddPeer
  <2>2. inboundCount' = Cardinality(Registered("in")')
        /\ outboundCount' = Cardinality(Registered("out")')
    BY <1>8, <1>16, <1>17, <1>18, <2>1 DEF Directions
  <2>3. Registered("in")' = Registered("in") \cup {c} /\ Registered("out")' = Registered("out")
    BY <1>8, <1>18 DEF Directions
  <2>4. \A ip \in Ips : inboundPeersByIP'[ip] = {d \in Registered("in")' : conn'[d].ip = ip}
    BY <1>1, <1>2, <1>4, <1>10, <2>1, <2>3 DEF IInv, MuxOK, MuxerConsistent, TypeOK, Directions
  <2>5. \A ip \in Ips : outboundPeersByIP'[ip] # None =>
            /\ outboundPeersByIP'[ip] \in Registered("out")'
            /\ conn'[outboundPeersByIP'[ip]].ip = ip
    BY <1>10, <2>1, <2>3 DEF IInv, MuxOK, MuxerConsistent, Directions
  <2>6. MuxerConsistent'
    BY <2>2, <2>4, <2>5 DEF MuxerConsistent
  <2>7. TypeOK'
    BY <1>1, <1>4, <1>5, <2>1 DEF IInv, TypeOK
  <2>8. CallsBounded'
    <3>1. Cardinality(Calls("in")') = Cardinality(Calls("in")) - 1
          /\ Cardinality(Calls("out")') = Cardinality(Calls("out"))
          /\ Cardinality(Calls("in")) \in Nat
      BY <1>14, <1>15, <1>18, CallsCount DEF Directions
    <3> QED BY <1>17, <2>1, <3>1 DEF IInv, CallsBounded
  <2> QED BY <1>11, <1>12, <2>6, <2>7, <2>8 DEF IInv, MuxOK
<1>19. CASE s.dir = "out"
  <2>1. /\ outboundCount' = outboundCount + 1
        /\ outboundPeersByIP' = [outboundPeersByIP EXCEPT ![s.ip] = c]
        /\ UNCHANGED <<inboundCount, inboundPeersByIP, pendingOutbound, closing,
                       inBanned, outBanned>>
    BY <1>19 DEF AddPeer
  <2>2. inboundCount' = Cardinality(Registered("in")')
        /\ outboundCount' = Cardinality(Registered("out")')
    BY <1>8, <1>16, <1>17, <1>19, <2>1 DEF Directions
  <2>3. Registered("out")' = Registered("out") \cup {c} /\ Registered("in")' = Registered("in")
    BY <1>8, <1>19 DEF Directions
  <2>4. \A ip \in Ips : inboundPeersByIP'[ip] = {d \in Registered("in")' : conn'[d].ip = ip}
    BY <1>10, <2>1, <2>3 DEF IInv, MuxOK, MuxerConsistent, Directions
  <2>5. \A ip \in Ips : outboundPeersByIP'[ip] # None =>
            /\ outboundPeersByIP'[ip] \in Registered("out")'
            /\ conn'[outboundPeersByIP'[ip]].ip = ip
    BY <1>1, <1>2, <1>4, <1>10, <2>1, <2>3 DEF IInv, MuxOK, MuxerConsistent, TypeOK, Directions
  <2>6. MuxerConsistent'
    BY <2>2, <2>4, <2>5 DEF MuxerConsistent
  <2>7. TypeOK'
    BY <1>1, <1>4, <1>5, <2>1 DEF IInv, TypeOK
  <2>8. CallsBounded'
    <3>1. Cardinality(Calls("out")') = Cardinality(Calls("out")) - 1
          /\ Cardinality(Calls("in")') = Cardinality(Calls("in"))
          /\ Cardinality(Calls("out")) \in Nat
      BY <1>14, <1>15, <1>19, CallsCount DEF Directions
    <3> QED BY <1>17, <2>1, <3>1 DEF IInv, CallsBounded
  <2> QED BY <1>11, <1>12, <2>6, <2>7, <2>8 DEF IInv, MuxOK
<1> QED BY <1>1, <1>18, <1>19 DEF Directions

----------------------------------------------------------------------------
(* handlePeerClose *)

\* What is registered under an ID leaves every map and count it is in.
LEMMA UnregisterKeeps ==
  ASSUME IInv, NEW id \in Ids, peers[id] # None, Unregister(id),
         \A e \in Conns : e # peers[id] /\ (\E i \in Ids : peers[i] = e) => conn'[e] = conn[e]
  PROVE  /\ MuxerConsistent'
         /\ peers' = [peers EXCEPT ![id] = None]
         /\ \A e \in Conns, i \in Ids : peers'[i] = e =>
              conn'[e].pc \in {"open", "failing"} /\ conn'[e].id = i
         /\ peers' \in [Ids -> Conns \cup {None}]
         /\ inboundPeersByIP' \in [Ips -> SUBSET Conns]
         /\ outboundPeersByIP' \in [Ips -> Conns \cup {None}]
         /\ inboundCount' \in Nat /\ outboundCount' \in Nat
         /\ inboundCount' <= inboundCount /\ outboundCount' <= outboundCount
<1> DEFINE d == peers[id]
<1>1. d \in Conns /\ peers \in [Ids -> Conns \cup {None}]
  BY DEF IInv, TypeOK
<1>2. conn[d].pc \in {"open", "failing"} /\ conn[d].id = id
  BY <1>1 DEF IInv, MuxOK, OneReaderPerPeer
<1>3. conn[d] \in ReadState
  BY <1>1, <1>2, ConnKinds DEF IInv, TypeOK, Reading
<1>4. conn[d].dir \in Directions /\ conn[d].ip \in Ips
  BY <1>3 DEF ReadState
<1>5. peers' = [peers EXCEPT ![id] = None]
  BY DEF Unregister
<1>6. \A i \in Ids : peers[i] = d => i = id
  BY <1>1, <1>2 DEF IInv, MuxOK, OneReaderPerPeer
<1>7. \A e \in Conns, i \in Ids : peers'[i] = e <=> peers[i] = e /\ e # d
  BY <1>1, <1>5, <1>6, NamesDistinct
<1> HIDE DEF d
<1>8. \A e \in Conns : e # d /\ (\E i \in Ids : peers[i] = e) => conn'[e] = conn[e]
  BY DEF d
<1>9. \A dir : Registered(dir)' = Registered(dir) \ {d}
  BY <1>7, <1>8 DEF Registered
<1>10. d \in Registered(conn[d].dir)
  BY <1>1 DEF Registered, d
<1>11. \A dir : dir # conn[d].dir => d \notin Registered(dir)
  BY DEF Registered
<1>12. \A dir : \A e \in Registered(dir)' : e \in Registered(dir) /\ e # d /\ conn'[e] = conn[e]
  BY <1>8, <1>9 DEF Registered
<1>13. ASSUME NEW dir, dir = conn[d].dir
       PROVE  Cardinality(Registered(dir)') = Cardinality(Registered(dir)) - 1
  <2>1. Registered(dir)' = Registered(dir) \ {d} /\ d \in Registered(dir)
    BY <1>9, <1>10, <1>13
  <2> QED BY <2>1, RegisteredCount, FS_RemoveElement
<1>14. /\ inboundCount = Cardinality(Registered("in"))
       /\ outboundCount = Cardinality(Registered("out"))
       /\ inboundCount \in Nat /\ outboundCount \in Nat
  BY DEF IInv, MuxOK, MuxerConsistent, TypeOK
<1>15. \A e \in Conns, i \in Ids : peers'[i] = e =>
              conn'[e].pc \in {"open", "failing"} /\ conn'[e].id = i
  BY <1>7, <1>8 DEF IInv, MuxOK, OneReaderPerPeer
<1>16. \A dir : IsFiniteSet(Registered(dir)') /\ Cardinality(Registered(dir)') \in Nat
  BY <1>9, RegisteredCount, FS_Subset, FS_CardinalityType
<1>17. peers' \in [Ids -> Conns \cup {None}]
  BY <1>1, <1>5
<1>18. CASE conn[d].dir = "in"
  <2>1. /\ inboundCount' = inboundCount - 1
        /\ inboundPeersByIP' = [inboundPeersByIP EXCEPT ![conn[d].ip] = @ \ {d}]
        /\ UNCHANGED <<outboundCount, outboundPeersByIP>>
    BY <1>18 DEF Unregister, d
  <2>2. Registered("out")' = Registered("out")
    BY <1>9, <1>11, <1>18
  <2>3. inboundCount' = Cardinality(Registered("in")')
        /\ outboundCount' = Cardinality(Registered("out")')
    BY <1>13, <1>14, <1>18, <2>1, <2>2
  <2>4. \A ip \in Ips : inboundPeersByIP'[ip] = {e \in Registered("in")' : conn'[e].ip = ip}
    BY <1>4, <1>9, <1>12, <2>1 DEF IInv, MuxOK, MuxerConsistent, TypeOK
  <2>5. \A ip \in Ips : outboundPeersByIP'[ip] # None =>
            /\ outboundPeersByIP'[ip] \in Registered("out")'
            /\ conn'[outboundPeersByIP'[ip]].ip = ip
    BY <1>12, <2>1, <2>2 DEF IInv, MuxOK, MuxerConsistent
  <2>6. MuxerConsistent'
    BY <2>3, <2>4, <2>5 DEF MuxerConsistent
  <2>7. inboundCount' \in Nat /\ outboundCount' \in Nat
    BY <1>16, <2>3
  <2>8. inboundCount' <= inboundCount /\ outboundCount' <= outboundCount
    BY <1>14, <2>1
  <2>9. inboundPeersByIP' \in [Ips -> SUBSET Conns]
        /\ outboundPeersByIP' \in [Ips -> Conns \cup {None}]
    BY <1>4, <2>1 DEF IInv, TypeOK
  <2> QED BY <1>5, <1>15, <1>17, <2>6, <2>7, <2>8, <2>9
<1>19. CASE conn[d].dir = "out"
  <2>1. /\ outboundCount' = outboundCount - 1
        /\ outboundPeersByIP' = [outboundPeersByIP EXCEPT ![conn[d].ip] = None]
        /\ UNCHANGED <<inboundCount, inboundPeersByIP>>
    BY <1>19 DEF Unregister, d
  <2>2. Registered("in")' = Registered("in")
    BY <1>9, <1>11, <1>19
  <2>3. inboundCount' = Cardinality(Registered("in")')
        /\ outboundCount' = Cardinality(Registered("out")')
    BY <1>13, <1>14, <1>19, <2>1, <2>2
  <2>4. \A ip \in Ips : inboundPeersByIP'[ip] = {e \in Registered("in")' : conn'[e].ip = ip}
    BY <1>12, <2>1, <2>2 DEF IInv, MuxOK, MuxerConsistent
  <2>5. ASSUME NEW ip \in Ips, outboundPeersByIP'[ip] # None
        PROVE  /\ outboundPeersByIP'[ip] \in Registered("out")'
               /\ conn'[outboundPeersByIP'[ip]].ip = ip
    <3>1. ip # conn[d].ip /\ outboundPeersByIP'[ip] = outboundPeersByIP[ip]
      BY <1>4, <2>1, <2>5 DEF IInv, TypeOK
    <3>2. outboundPeersByIP[ip] \in Registered("out") /\ conn[outboundPeersByIP[ip]].ip = ip
      BY <2>5, <3>1 DEF IInv, MuxOK, MuxerConsistent
    <3>3. outboundPeersByIP[ip] \in Registered("out")'
      BY <1>9, <3>1, <3>2
    <3> QED BY <1>12, <3>1, <3>2, <3>3
  <2>6. MuxerConsistent'
    BY <2>3, <2>4, <2>5 DEF MuxerConsistent
  <2>7. inboundCount' \in Nat /\ outboundCount' \in Nat
    BY <1>16, <2>3
  <2>8. inboundCount' <= inboundCount /\ outboundCount' <= outboundCount
    BY <1>14, <2>1
  <2>9. inboundPeersByIP' \in [Ips -> SUBSET Conns]
        /\ outboundPeersByIP' \in [Ips -> Conns \cup {None}]
    BY <1>4, <2>1 DEF IInv, TypeOK
  <2> QED BY <1>5, <1>15, <1>17, <2>6, <2>7, <2>8, <2>9
<1> QED BY <1>4, <1>18, <1>19 DEF Directions

\* The goroutine of c closes what is registered under the ID of c.
LEMMA HandlePeerCloseKeeps ==
  ASSUME IInv, NEW c \in Conns, HandlePeerClose(c)
  PROVE  IInv'
<1> DEFINE s == conn[c]
           r == IF s.closed /\ c \notin closing' THEN Idle ELSE [s EXCEPT !.pc = "done"]
<1>1. s \in ReadState /\ s.pc = "failing" /\ s.id \in Ids
  <2>1. s.pc = "failing" /\ s \in ConnState
    BY DEF HandlePeerClose, IInv, TypeOK
  <2>2. s \in ReadState
    BY <2>1, ConnKinds DEF Reading
  <2> QED BY <2>1, <2>2 DEF ReadState
<1>2. [s EXCEPT !.pc = "done"] \in ReadState
      /\ [s EXCEPT !.pc = "done"].pc = "done"
      /\ [s EXCEPT !.pc = "done"].id = s.id
      /\ [s EXCEPT !.pc = "done"].closed = s.closed
  BY <1>1 DEF ReadState
<1>3. r \in ConnState /\ r.pc \in {"idle", "done"}
      /\ (r.pc = "idle" => s.closed /\ c \notin closing')
      /\ (r.pc = "done" => r.id = s.id /\ r.closed = s.closed)
  BY <1>2, KindsAreConns
<1>4. conn' = [conn EXCEPT ![c] = r] /\ conn \in [Conns -> ConnState]
  BY DEF HandlePeerClose, Become, IInv, TypeOK
<1> HIDE DEF r
<1>5. conn' \in [Conns -> ConnState] /\ conn'[c] = r
      /\ \A d \in Conns : d # c => conn'[d] = conn[d]
  BY <1>3, <1>4
<1>6. \A i \in Ids : peers[i] = c => i = s.id
  BY <1>1 DEF IInv, MuxOK, OneReaderPerPeer
<1>7. /\ MuxerConsistent'
      /\ \A e \in Conns, i \in Ids : peers'[i] = e =>
           conn'[e].pc \in {"open", "failing"} /\ conn'[e].id = i
      /\ peers' \in [Ids -> Conns \cup {None}]
      /\ inboundPeersByIP' \in [Ips -> SUBSET Conns]
      /\ outboundPeersByIP' \in [Ips -> Conns \cup {None}]
      /\ inboundCount' \in Nat /\ outboundCount' \in Nat
      /\ inboundCount' <= inboundCount /\ outboundCount' <= outboundCount
      /\ closing \subseteq closing' /\ closing' \subseteq Conns
      /\ \A e \in closing' : e \in closing \/ peers[s.id] = e
      /\ \A e \in Conns, i \in Ids : peers[i] = e /\ e \notin closing' => peers'[i] = e
  <2>1. CASE peers[s.id] = None
    <3>1. UNCHANGED <<muxer, closing>>
      BY <2>1 DEF HandlePeerClose
    <3>2. \A d \in Conns : conn[d].pc \in {"open", "failing"} /\ peers[conn[d].id] = d =>
            conn'[d] = conn[d]
      BY <1>5, <2>1, NamesDistinct
    <3>3. MuxerConsistent' /\ \A e \in Conns, i \in Ids : peers'[i] = e =>
            conn'[e].pc \in {"open", "failing"} /\ conn'[e].id = i
      BY <3>1, <3>2, MuxerKept DEF IInv, MuxOK
    <3>4. inboundCount \in Nat /\ outboundCount \in Nat
      BY DEF IInv, TypeOK
    <3>5. inboundCount' \in Nat /\ outboundCount' \in Nat
          /\ inboundCount' <= inboundCount /\ outboundCount' <= outboundCount
      BY <3>1, <3>4 DEF muxer
    <3> QED BY <3>1, <3>3, <3>5 DEF muxer, IInv, TypeOK
  <2>2. CASE peers[s.id] # None
    <3>1. Unregister(s.id) /\ closing' = closing \cup {peers[s.id]}
      BY <2>2 DEF HandlePeerClose
    <3>2. \A e \in Conns : e # peers[s.id] /\ (\E i \in Ids : peers[i] = e) => conn'[e] = conn[e]
      BY <1>5, <1>6
    <3>3. peers[s.id] \in Conns /\ closing \in SUBSET Conns
          /\ peers \in [Ids -> Conns \cup {None}]
      BY <1>1, <2>2 DEF IInv, TypeOK
    <3>4. peers' = [peers EXCEPT ![s.id] = None]
      BY <3>1 DEF Unregister
    <3>5. \A e \in Conns, i \in Ids : peers[i] = e /\ e \notin closing' => peers'[i] = e
      BY <3>1, <3>3, <3>4
    <3> HIDE DEF s
    <3> QED BY <1>1, <2>2, <3>1, <3>2, <3>3, <3>5, UnregisterKeeps
  <2> QED BY <2>1, <2>2
<1>8. ASSUME NEW e \in Conns, conn'[e].pc \in {"open", "failing", "done"}
      PROVE  peers'[conn'[e].id] = e \/ e \in closing' \/ conn'[e].closed
  <2>1. CASE e = c
    <3>1. peers[s.id] = c \/ c \in closing \/ s.closed
      BY <1>1 DEF IInv, MuxOK, OneReaderPerPeer
    <3>2. r.id = s.id /\ r.closed = s.closed
      BY <1>3, <1>5, <1>8, <2>1
    <3> QED BY <1>1, <1>5, <1>7, <2>1, <3>1, <3>2
  <2>2. CASE e # c
    <3>1. conn'[e] = conn[e]
      BY <1>5, <2>2
    <3>2. peers[conn[e].id] = e \/ e \in closing \/ conn[e].closed
      BY <1>8, <3>1 DEF IInv, MuxOK, OneReaderPerPeer
    <3>3. conn[e].id \in Ids
      BY <1>4, <1>8, <3>1, ConnKinds DEF ReadState, Reading
    <3> QED BY <1>7, <3>1, <3>2, <3>3
  <2> QED BY <2>1, <2>2
<1>9. OneReaderPerPeer'
  BY <1>7, <1>8 DEF OneReaderPerPeer
<1>10. ClosingReads'
  <2> SUFFICES ASSUME NEW e \in closing' PROVE conn'[e].pc \in Reading
    BY DEF ClosingReads
  <2>1. CASE e = c
    BY <1>3, <1>5, <2>1 DEF Reading
  <2>2. CASE e # c
    <3>1. e \in Conns /\ conn'[e] = conn[e]
      BY <1>5, <1>7, <2>2
    <3>2. e \in closing \/ peers[s.id] = e
      BY <1>7
    <3> QED BY <1>1, <3>1, <3>2 DEF IInv, MuxOK, ClosingReads, OneReaderPerPeer, Reading
  <2> QED BY <2>1, <2>2
<1>11. TypeOK'
  BY <1>5, <1>7 DEF IInv, TypeOK, HandlePeerClose
<1>12. \A dir : Calls(dir)' \subseteq Calls(dir)
  BY <1>3, <1>5 DEF Calls
<1>13. CallsBounded'
  BY <1>7, <1>12, BoundKept
<1> QED BY <1>7, <1>9, <1>10, <1>11, <1>13 DEF IInv, MuxOK

\* The pinger closes what is registered under an ID.
LEMMA ClosePeerKeeps ==
  ASSUME IInv, NEW id \in Ids, ClosePeer(id)
  PROVE  IInv'
<1>1. peers[id] # None /\ Unregister(id) /\ closing' = closing \cup {peers[id]}
      /\ UNCHANGED <<conn, pendingOutbound, inBanned, outBanned>>
  BY DEF ClosePeer
<1>2. peers[id] \in Conns /\ peers \in [Ids -> Conns \cup {None}]
      /\ closing \in SUBSET Conns /\ conn \in [Conns -> ConnState]
  BY <1>1 DEF IInv, TypeOK
<1>3. /\ MuxerConsistent'
      /\ peers' = [peers EXCEPT ![id] = None]
      /\ \A e \in Conns, i \in Ids : peers'[i] = e =>
           conn'[e].pc \in {"open", "failing"} /\ conn'[e].id = i
      /\ peers' \in [Ids -> Conns \cup {None}]
      /\ inboundPeersByIP' \in [Ips -> SUBSET Conns]
      /\ outboundPeersByIP' \in [Ips -> Conns \cup {None}]
      /\ inboundCount' \in Nat /\ outboundCount' \in Nat
      /\ inboundCount' <= inboundCount /\ outboundCount' <= outboundCount
  BY <1>1, UnregisterKeeps
<1>4. ASSUME NEW e \in Conns, conn[e].pc \in {"open", "failing", "done"}
      PROVE  peers'[conn[e].id] = e \/ e \in closing' \/ conn[e].closed
  <2>1. peers[conn[e].id] = e \/ e \in closing \/ conn[e].closed
    BY <1>4 DEF IInv, MuxOK, OneReaderPerPeer
  <2>2. conn[e].id \in Ids
    BY <1>2, <1>4, ConnKinds DEF ReadState, Reading
  <2> QED BY <1>1, <1>2, <1>3, <2>1, <2>2
<1>5. OneReaderPerPeer'
  BY <1>1, <1>3, <1>4 DEF OneReaderPerPeer
<1>6. conn[peers[id]].pc \in Reading
  BY <1>2 DEF IInv, MuxOK, OneReaderPerPeer, Reading
<1>7. ClosingReads'
  BY <1>1, <1>6 DEF IInv, MuxOK, ClosingReads
<1>8. TypeOK'
  BY <1>1, <1>2, <1>3 DEF IInv, TypeOK
<1>9. \A dir : Calls(dir)' = Calls(dir)
  BY <1>1 DEF Calls
<1>10. CallsBounded'
  BY <1>3, <1>9, BoundKept
<1> QED BY <1>3, <1>5, <1>7, <1>8, <1>10 DEF IInv, MuxOK

----------------------------------------------------------------------------
(* Readers and closes *)

\* A step of readers only keeps the rest of the invariant, too.
LEMMA ReaderStepKeeps ==
  ASSUME IInv, UNCHANGED <<muxer, pendingOutbound, inBanned, outBanned>>, closing' \in SUBSET closing,
         conn' \in [Conns -> ConnState],
         \A d \in Conns :
           \/ conn'[d] = conn[d] /\ (d \in closing => d \in closing')
           \/ /\ conn[d].pc \in Reading /\ conn'[d] \in ReadState
              /\ conn'[d].id = conn[d].id /\ conn'[d].dir = conn[d].dir
              /\ conn'[d].ip = conn[d].ip
              /\ conn[d].pc \in {"open", "failing"} => conn'[d].pc \in {"open", "failing"}
              /\ conn'[d].closed \/ ((d \in closing => d \in closing') /\ conn'[d].closed = conn[d].closed)
           \/ /\ conn[d].pc = "done" /\ conn'[d] = Idle /\ d \notin closing'
  PROVE  IInv'
<1>1. MuxOK'
  BY ReaderMoves
<1>2. TypeOK'
  BY DEF IInv, TypeOK, muxer
<1>3. \A dir : Calls(dir)' \subseteq Calls(dir)
  BY KindsAreConns DEF Calls, Reading
<1>4. inboundCount' = inboundCount /\ outboundCount' = outboundCount
      /\ inboundCount \in Nat /\ outboundCount \in Nat
  BY DEF muxer, IInv, TypeOK
<1>5. CallsBounded'
  BY <1>3, <1>4, BoundKept
<1> QED BY <1>1, <1>2, <1>5 DEF IInv

LEMMA ReadersKeep ==
  ASSUME IInv, NEW c \in Conns, Break(c) \/ ReceiveError(c) \/ Close(c)
  PROVE  IInv'
<1>1. conn \in [Conns -> ConnState] /\ closing \in SUBSET Conns
  BY DEF IInv, TypeOK
<1>2. conn[c].pc \in Reading
  BY DEF Break, ReceiveError, Close, Reading, IInv, MuxOK, ClosingReads
<1>3. conn[c] \in ReadState
  BY <1>1, <1>2, ConnKinds
<1> DEFINE cl == [conn[c] EXCEPT !.closed = TRUE]
           fl == [conn[c] EXCEPT !.pc = "failing"]
<1>4. /\ cl \in ReadState /\ cl.pc = conn[c].pc /\ cl.id = conn[c].id
      /\ cl.dir = conn[c].dir /\ cl.ip = conn[c].ip /\ cl.closed
  BY <1>3 DEF ReadState
<1>5. /\ fl \in ReadState /\ fl.pc = "failing" /\ fl.id = conn[c].id
      /\ fl.dir = conn[c].dir /\ fl.ip = conn[c].ip /\ fl.closed = conn[c].closed
  BY <1>3 DEF ReadState
<1>6. UNCHANGED <<muxer, pendingOutbound, inBanned, outBanned>> /\ closing' \in SUBSET closing
  BY DEF Break, ReceiveError, Close
<1>7. \/ conn' = [conn EXCEPT ![c] = cl] /\ \A d \in Conns : d # c /\ d \in closing => d \in closing'
      \/ conn' = [conn EXCEPT ![c] = fl] /\ closing' = closing
      \/ /\ conn' = [conn EXCEPT ![c] = Idle] /\ conn[c].pc = "done"
         /\ closing' = closing \ {c}
  BY DEF Break, ReceiveError, Close, Become
<1> HIDE DEF cl, fl
<1>8. conn' \in [Conns -> ConnState]
  BY <1>1, <1>4, <1>5, <1>7, KindsAreConns
<1>9. CASE conn' = [conn EXCEPT ![c] = cl] /\ \A d \in Conns : d # c /\ d \in closing => d \in closing'
  <2>1. conn'[c] = cl /\ \A d \in Conns : d # c => conn'[d] = conn[d]
    BY <1>1, <1>9
  <2> QED BY <1>2, <1>4, <1>6, <1>8, <1>9, <2>1, ReaderStepKeeps
<1>10. CASE conn' = [conn EXCEPT ![c] = fl] /\ closing' = closing
  <2>1. conn'[c] = fl /\ \A d \in Conns : d # c => conn'[d] = conn[d]
    BY <1>1, <1>10
  <2> QED BY <1>2, <1>5, <1>6, <1>8, <1>10, <2>1, ReaderStepKeeps
<1>11. CASE /\ conn' = [conn EXCEPT ![c] = Idle] /\ conn[c].pc = "done"
            /\ closing' = closing \ {c}
  <2>1. conn'[c] = Idle /\ \A d \in Conns : d # c => conn'[d] = conn[d]
    BY <1>1, <1>11
  <2> QED BY <1>6, <1>8, <1>11, <2>1, ReaderStepKeeps
<1> QED BY <1>7, <1>9, <1>10, <1>11

\* A ban closes connections that are registered.
LEMMA BanPeerClosesKeeps ==
  ASSUME IInv, NEW ip \in Ips, BanPeerCloses(ip)
  PROVE  IInv'
<1> DEFINE cl(d) == [conn[d] EXCEPT !.closed = TRUE]
<1>1. conn \in [Conns -> ConnState] /\ closing \in SUBSET Conns /\ RemoteIP[ip] \in Ips
  BY RemoteIPCanonical DEF IInv, TypeOK
<1>2. ASSUME NEW d \in PeersByIP(RemoteIP[ip])
      PROVE  d \in Conns /\ conn[d].pc \in {"open", "failing"} /\ conn[d] \in ReadState
  <2>1. d \in Registered("in") \/ d \in Registered("out")
    BY <1>1, <1>2 DEF PeersByIP, IInv, MuxOK, MuxerConsistent
  <2>2. d \in Conns /\ conn[d].pc \in {"open", "failing"}
    BY <2>1 DEF Registered, IInv, MuxOK, OneReaderPerPeer
  <2> QED BY <1>1, <2>2, ConnKinds DEF Reading
<1>3. ASSUME NEW d \in PeersByIP(RemoteIP[ip])
      PROVE  /\ cl(d) \in ReadState /\ cl(d).pc = conn[d].pc /\ cl(d).id = conn[d].id
             /\ cl(d).dir = conn[d].dir /\ cl(d).ip = conn[d].ip /\ cl(d).closed
  BY <1>2 DEF ReadState
<1>4. \A d \in Conns : conn'[d] = IF d \in PeersByIP(RemoteIP[ip]) THEN cl(d) ELSE conn[d]
  BY DEF BanPeerCloses
<1>5. conn' = [d \in Conns |-> conn'[d]]
  BY DEF BanPeerCloses
<1>6. UNCHANGED <<muxer, pendingOutbound, closing, inBanned, outBanned>>
  BY DEF BanPeerCloses
<1> HIDE DEF cl
<1>7. \A d \in Conns : conn'[d] \in ConnState
  BY <1>1, <1>3, <1>4, KindsAreConns
<1>8. conn' \in [Conns -> ConnState]
  BY <1>5, <1>7
<1>9. \A d \in Conns :
        \/ conn'[d] = conn[d]
        \/ /\ conn[d].pc \in Reading /\ conn'[d] \in ReadState
           /\ conn'[d].id = conn[d].id /\ conn'[d].dir = conn[d].dir
           /\ conn'[d].ip = conn[d].ip
           /\ conn'[d].pc = conn[d].pc
           /\ conn'[d].closed
  BY <1>2, <1>3, <1>4 DEF Reading
<1> QED BY <1>6, <1>8, <1>9, ReaderStepKeeps

\* Bans by themselves, and steps that change nothing
LEMMA BansKeep ==
  ASSUME IInv, UNCHANGED <<conn, muxer, pendingOutbound, closing>>,
         inBanned' \in SUBSET Ips, outBanned' \in SUBSET Ips
  PROVE  IInv'
<1>1. TypeOK'
  BY DEF IInv, TypeOK, muxer
<1>2. \A dir : Registered(dir)' = Registered(dir) /\ Calls(dir)' = Calls(dir)
  BY DEF Registered, Calls, muxer
<1>3. MuxerConsistent'
  BY <1>2 DEF IInv, MuxOK, MuxerConsistent, muxer
<1>4. OneReaderPerPeer' /\ ClosingReads'
  BY DEF IInv, MuxOK, OneReaderPerPeer, ClosingReads, muxer
<1>5. CallsBounded'
  BY <1>2 DEF IInv, CallsBounded, muxer
<1> QED BY <1>1, <1>3, <1>4, <1>5 DEF IInv, MuxOK

----------------------------------------------------------------------------
(* The invariant *)

LEMMA InitHolds ==
  ASSUME Init
  PROVE  IInv
<1>1. conn \in [Conns -> ConnState] /\ \A c \in Conns : conn[c] = Idle /\ conn[c].pc = "idle"
  BY KindsAreConns DEF Init
<1>2. TypeOK
  BY <1>1 DEF Init, TypeOK
<1>3. \A dir : Registered(dir) = {} /\ Calls(dir) = {}
  BY <1>1, NamesDistinct DEF Registered, Calls, Init
<1>4. Cardinality({}) = 0
  BY FS_EmptySet
<1>5. MuxerConsistent
  BY <1>3, <1>4 DEF Init, MuxerConsistent
<1>6. OneReaderPerPeer /\ ClosingReads
  BY <1>1, NamesDistinct DEF Init, OneReaderPerPeer, ClosingReads
<1>7. CallsBounded
  BY <1>3, <1>4, LimitsAreNats DEF Init, CallsBounded
<1> QED BY <1>2, <1>5, <1>6, <1>7 DEF IInv, MuxOK

LEMMA NextKeeps ==
  ASSUME IInv, [Next]_vars
  PROVE  IInv'
<1>0. inBanned \in SUBSET Ips /\ outBanned \in SUBSET Ips /\ RemoteIP \in [Ips -> Ips]
  BY RemoteIPCanonical DEF IInv, TypeOK
<1>1. ASSUME NEW c \in Conns, NEW ip \in Ips, AcceptPeer(c, ip) PROVE IInv'
  <2>1. "in" \in Directions /\ RemoteIP[ip] \in Ips /\ None \in Ids \cup {None} /\ FALSE \in BOOLEAN
    BY <1>0 DEF Directions
  <2>2. Start(c, "in", RemoteIP[ip], None, FALSE)
    BY <1>1 DEF AcceptPeer
  <2> QED BY <2>1, <2>2, StartKeeps
<1>2. ASSUME NEW c \in Conns, NEW ip \in Ips, NEW want \in Ids \cup {None},
             NEW verify \in BOOLEAN, DialPeer(c, ip, want, verify)
      PROVE  IInv'
  <2>1. "out" \in Directions
    BY DEF Directions
  <2>2. Start(c, "out", ip, want, verify)
    BY <1>2 DEF DialPeer
  <2> QED BY <2>1, <2>2, StartKeeps
<1>3. ASSUME NEW c \in Conns, CallStep(c) PROVE IInv'
  BY <1>3, CallStepKeeps, AddPeerKeeps DEF CallStep
<1>4. ASSUME NEW c \in Conns, Break(c) \/ ReceiveError(c) \/ Close(c) PROVE IInv'
  BY <1>4, ReadersKeep
<1>5. ASSUME NEW c \in Conns, HandlePeerClose(c) PROVE IInv'
  BY <1>5, HandlePeerCloseKeeps
<1>6. ASSUME NEW id \in Ids, ClosePeer(id) PROVE IInv'
  BY <1>6, ClosePeerKeeps
<1>7. ASSUME NEW ip \in Ips, BanPeerCloses(ip) PROVE IInv'
  BY <1>7, BanPeerClosesKeeps
<1>8. ASSUME NEW ip \in Ips, BanPeer(ip) \/ UnbanPeer(ip) \/ BanExpires(ip) PROVE IInv'
  <2>1. UNCHANGED <<conn, muxer, pendingOutbound, closing>>
    BY <1>8 DEF BanPeer, UnbanPeer, BanExpires
  <2>2. inBanned' \in SUBSET Ips /\ outBanned' \in SUBSET Ips
    BY <1>0, <1>8 DEF BanPeer, UnbanPeer, BanExpires
  <2> QED BY <2>1, <2>2, BansKeep
<1>9. CASE UNCHANGED vars
  <2>1. UNCHANGED <<conn, muxer, pendingOutbound, closing>>
        /\ inBanned' = inBanned /\ outBanned' = outBanned
    BY <1>9 DEF vars
  <2> QED BY <1>0, <2>1, BansKeep
<1> QED BY <1>1, <1>2, <1>3, <1>4, <1>5, <1>6, <1>7, <1>8, <1>9 DEF Next

\* In every reachable state the invariant holds.
LEMMA Invariance == Spec => []IInv
BY InitHolds, NextKeeps, PTL DEF Spec

\* The variables keep their types: in particular the counts never fall below
\* zero, however often handlePeerClose is called for an ID.
THEOREM TypeCorrect == Spec => []TypeOK
<1>1. IInv => TypeOK
  BY DEF IInv
<1> QED BY <1>1, Invariance, PTL

\* The counts and the indexes by IP are those of the connections registered by
\* peer ID, whatever order handlePeerOpen and handlePeerClose are called in.
THEOREM MuxerAgrees == Spec => []MuxerConsistent
<1>1. IInv => MuxerConsistent
  BY DEF IInv, MuxOK
<1> QED BY <1>1, Invariance, PTL

\* What is registered has a reader, and a reader that is not about to end reads
\* from what is registered.
THEOREM ReadersMatch == Spec => []OneReaderPerPeer
<1>1. IInv => OneReaderPerPeer
  BY DEF IInv, MuxOK
<1> QED BY <1>1, Invariance, PTL

\* The limits are exceeded by less than the sizes of the semaphores.
THEOREM LimitsOvershoot == Spec => []LimitsBounded
<1>1. ASSUME IInv PROVE LimitsBounded
  <2> DEFINE a == Cardinality(Calls("in"))
             b == Cardinality(Calls("out"))
  <2>1. a \in Nat /\ b \in Nat
    BY CallsCount
  <2>2. inboundCount + a < MaxInbound + MaxPendingInbound
        /\ outboundCount + b < MaxOutbound + MaxPendingOutbound
        /\ inboundCount \in Nat /\ outboundCount \in Nat
    BY <1>1 DEF IInv, TypeOK, CallsBounded
  <2> HIDE DEF a, b
  <2> QED BY <2>1, <2>2, LimitsAreNats DEF LimitsBounded
<1> QED BY <1>1, Invariance, PTL

----------------------------------------------------------------------------
(* Pending dials *)

\* A dial may go if its address is no longer pending.
LEMMA PendingKept ==
  ASSUME PendingIsDialed, pendingOutbound' \in SUBSET pendingOutbound,
         pendingOutbound \in SUBSET Ips,
         \A c \in Conns : conn[c].pc = "handshake" /\ conn[c].dir = "out" =>
           \/ conn'[c] = conn[c]
           \/ conn[c].ip \notin pendingOutbound'
           \/ RemoteIP[conn[c].ip] # conn[c].ip
  PROVE  PendingIsDialed'
<1> SUFFICES ASSUME NEW ip \in pendingOutbound', RemoteIP[ip] = ip
             PROVE  \E c \in Conns : conn'[c].pc = "handshake" /\ conn'[c].dir = "out"
                                       /\ conn'[c].ip = ip
  BY DEF PendingIsDialed
<1>1. PICK c \in Conns : conn[c].pc = "handshake" /\ conn[c].dir = "out" /\ conn[c].ip = ip
  BY DEF PendingIsDialed
<1>2. conn'[c] = conn[c]
  BY <1>1
<1> QED BY <1>1, <1>2

LEMMA PendingCallStep ==
  ASSUME IInv, PendingIsDialed, NEW c \in Conns, CallStep(c)
  PROVE  PendingIsDialed'
<1>1. conn \in [Conns -> ConnState] /\ pendingOutbound \in SUBSET Ips
  BY DEF IInv, TypeOK
<1>2. CASE GateOutbound(c)
  <2> DEFINE h == [conn[c] EXCEPT !.pc = "handshake"]
  <2>1. conn[c].pc = "gating" /\ conn[c].dir = "out"
    BY <1>2 DEF GateOutbound
  <2>2. conn[c] \in DialState
    BY <1>1, <2>1, ConnKinds
  <2>3. h.pc = "handshake" /\ h.dir = "out" /\ h.ip = conn[c].ip /\ conn[c].ip \in Ips
    BY <2>1, <2>2 DEF DialState
  <2> HIDE DEF h
  <2>4. \/ conn' = [conn EXCEPT ![c] = Idle] /\ pendingOutbound' = pendingOutbound
        \/ /\ conn' = [conn EXCEPT ![c] = h]
           /\ pendingOutbound' = pendingOutbound \cup {conn[c].ip}
    BY <1>2 DEF GateOutbound, Become, h
  <2>5. \A d \in Conns : conn[d].pc = "handshake" => conn'[d] = conn[d]
    BY <1>1, <2>1, <2>4
  <2>6. CASE pendingOutbound' = pendingOutbound
    BY <1>1, <2>5, <2>6, PendingKept
  <2>7. CASE conn' = [conn EXCEPT ![c] = h]
             /\ pendingOutbound' = pendingOutbound \cup {conn[c].ip}
    <3> SUFFICES ASSUME NEW ip \in pendingOutbound', RemoteIP[ip] = ip
                 PROVE  \E d \in Conns : conn'[d].pc = "handshake" /\ conn'[d].dir = "out"
                                           /\ conn'[d].ip = ip
      BY DEF PendingIsDialed
    <3>1. CASE ip \in pendingOutbound
      <4>1. PICK d \in Conns : conn[d].pc = "handshake" /\ conn[d].dir = "out" /\ conn[d].ip = ip
        BY <3>1 DEF PendingIsDialed
      <4> QED BY <2>5, <4>1
    <3>2. CASE ip = conn[c].ip
      <4>1. conn'[c] = h
        BY <1>1, <2>7
      <4> QED BY <2>3, <3>2, <4>1
    <3> QED BY <2>7, <3>1, <3>2
  <2> QED BY <2>4, <2>6, <2>7
<1>3. CASE Fail(c) \/ \E id \in Ids \cup {Self} : Greet(c, id)
  <2>1. conn[c].pc = "handshake"
    BY <1>3 DEF Fail, Greet
  <2>2. conn[c] \in DialState
    BY <1>1, <2>1, ConnKinds
  <2>3. conn[c].ip \in Ips /\ conn[c].dir \in Directions
    BY <2>2 DEF DialState
  <2>4. \A d \in Conns : d # c => conn'[d] = conn[d]
    BY <1>1, <1>3 DEF Fail, Greet, Become
  <2>5. conn[c].dir = "out" =>
          \/ pendingOutbound' = pendingOutbound \ {conn[c].ip}
          \/ pendingOutbound' = pendingOutbound \ {RemoteIP[conn[c].ip]}
    BY <1>3 DEF Fail, Greet, Cleanup
  <2>6. pendingOutbound' \in SUBSET pendingOutbound
    BY <1>3 DEF Fail, Greet, Cleanup
  <2> QED BY <1>1, <2>4, <2>5, <2>6, PendingKept
<1>4. CASE GateInbound(c) \/ SelfDial(c) \/ AlreadyConnected(c) \/ AddPeer(c)
  <2>1. conn[c].pc # "handshake" /\ pendingOutbound' = pendingOutbound
    BY <1>4 DEF GateInbound, SelfDial, AlreadyConnected, AddPeer
  <2>2. \A d \in Conns : d # c => conn'[d] = conn[d]
    BY <1>1, <1>4 DEF GateInbound, SelfDial, AlreadyConnected, AddPeer, Become
  <2> QED BY <1>1, <2>1, <2>2, PendingKept
<1> QED BY <1>2, <1>3, <1>4 DEF CallStep

LEMMA PendingNext ==
  ASSUME IInv, PendingIsDialed, [Next]_vars
  PROVE  PendingIsDialed'
<1>1. conn \in [Conns -> ConnState] /\ pendingOutbound \in SUBSET Ips
  BY DEF IInv, TypeOK
<1>2. ASSUME NEW c \in Conns, conn[c].pc # "handshake", NEW s, Become(c, s),
             pendingOutbound' = pendingOutbound
      PROVE  PendingIsDialed'
  BY <1>1, <1>2, PendingKept DEF Become
<1>3. ASSUME NEW c \in Conns, NEW ip \in Ips,
             \/ AcceptPeer(c, ip)
             \/ \E want \in Ids \cup {None}, verify \in BOOLEAN : DialPeer(c, ip, want, verify)
      PROVE  PendingIsDialed'
  BY <1>2, <1>3 DEF AcceptPeer, DialPeer, Start
<1>4. ASSUME NEW c \in Conns, CallStep(c) PROVE PendingIsDialed'
  BY <1>4, PendingCallStep
<1>5. ASSUME NEW c \in Conns, Break(c) \/ ReceiveError(c) \/ HandlePeerClose(c)
      PROVE  PendingIsDialed'
  BY <1>2, <1>5 DEF Break, ReceiveError, HandlePeerClose
<1>6. ASSUME NEW c \in Conns, Close(c) PROVE PendingIsDialed'
  <2>1. conn[c].pc # "handshake"
    BY <1>6 DEF Close, IInv, MuxOK, ClosingReads, Reading
  <2> QED BY <1>2, <1>6, <2>1 DEF Close
<1>7. ASSUME NEW ip \in Ips, BanPeerCloses(ip) PROVE PendingIsDialed'
  <2>1. RemoteIP[ip] \in Ips
    BY RemoteIPCanonical
  <2>2. \A d \in PeersByIP(RemoteIP[ip]) : d \in Registered("in") \/ d \in Registered("out")
    BY <2>1 DEF PeersByIP, IInv, MuxOK, MuxerConsistent
  <2>3. \A d \in PeersByIP(RemoteIP[ip]) : conn[d].pc # "handshake"
    BY <2>2 DEF Registered, IInv, MuxOK, OneReaderPerPeer
  <2>4. \A d \in Conns : conn[d].pc = "handshake" => conn'[d] = conn[d]
    BY <1>7, <2>3 DEF BanPeerCloses
  <2>5. pendingOutbound' = pendingOutbound
    BY <1>7 DEF BanPeerCloses
  <2> QED BY <1>1, <2>4, <2>5, PendingKept
<1>8. CASE UNCHANGED <<conn, pendingOutbound>>
  BY <1>1, <1>8, PendingKept
<1>9. ASSUME NEW id \in Ids, ClosePeer(id) PROVE PendingIsDialed'
  BY <1>8, <1>9 DEF ClosePeer
<1>10. ASSUME NEW ip \in Ips, BanPeer(ip) \/ UnbanPeer(ip) \/ BanExpires(ip)
       PROVE  PendingIsDialed'
  BY <1>8, <1>10 DEF BanPeer, UnbanPeer, BanExpires
<1>11. CASE UNCHANGED vars
  BY <1>8, <1>11 DEF vars
<1> QED BY <1>3, <1>4, <1>5, <1>6, <1>7, <1>9, <1>10, <1>11 DEF Next

\* An address in the spelling that connections report is pending only while it
\* is being dialed: no way out of DialPeer leaves it behind.
THEOREM PendingDialed == Spec => []PendingIsDialed
<1>1. Init => PendingIsDialed
  BY DEF Init, PendingIsDialed
<1> QED BY <1>1, Invariance, PendingNext, PTL DEF Spec

=============================================================================
