------------------------------- MODULE Peers -------------------------------
(***************************************************************************)
(* The connections of a node: the calls of AcceptPeer and DialPeer that    *)
(* set them up (p2p/peer_manager.go), the maps and counts the muxer keeps  *)
(* of them and the goroutine that reads from each (p2p/peer_muxer.go).     *)
(*                                                                         *)
(* A connection is identified with the call that made it.  Its remote host *)
(* chooses the peer ID that the handshake reveals, and may hang up at any  *)
(* time.  The manager guards its maps with inMu and outMu, the muxer its   *)
(* own with mu; the limits are checked under the first and the counts      *)
(* change under the second, so a limit can be exceeded by calls that have  *)
(* passed it, of which there are as many as a semaphore lets in.           *)
(***************************************************************************)
EXTENDS Integers, FiniteSets

CONSTANTS
  Conns,               \* connections, by the call that makes them
  Ids,                 \* peer IDs of other nodes
  Ips,                 \* addresses of other nodes, as callers spell them
  RemoteIP,            \* the spelling a connection to an address reports
  Self,                \* our own peer ID
  None,                \* no connection, no peer ID
  MaxInbound,          \* the configured limits
  MaxOutbound,
  MaxPendingInbound,   \* the sizes of the semaphores
  MaxPendingOutbound

ASSUME LimitsAreNats ==
  /\ MaxInbound \in Nat /\ MaxOutbound \in Nat
  /\ MaxPendingInbound \in Nat \ {0} /\ MaxPendingOutbound \in Nat \ {0}
ASSUME RemoteIPCanonical ==
  /\ RemoteIP \in [Ips -> Ips]
  /\ \A ip \in Ips : RemoteIP[RemoteIP[ip]] = RemoteIP[ip]
ASSUME ConnsFinite == IsFiniteSet(Conns)
ASSUME NamesDistinct ==
  /\ None \notin Conns /\ None \notin Ids /\ Self \notin Ids /\ Self # None

Directions == {"in", "out"}

Idle == [pc |-> "idle"]

\* gating: the call holds inMu or outMu and has compared the count; handshake:
\* its address is pending; greeted: the handshake is over, the address no longer
\* pending; open: AddPeer has returned and the goroutine reads; failing: it got
\* an error and is about to call handlePeerClose; done: it has returned.
ConnState ==
  {Idle}
    \cup [pc : {"gating", "handshake"}, dir : Directions, ip : Ips,
          want : Ids \cup {None}, verify : BOOLEAN]
    \cup [pc : {"greeted"}, dir : Directions, ip : Ips, id : Ids \cup {Self}]
    \cup [pc : {"open", "failing", "done"}, dir : Directions, ip : Ips,
          id : Ids, closed : BOOLEAN]

VARIABLES
  conn,               \* the state of each connection
  peers,              \* the muxer's connection for each peer ID
  inboundPeersByIP,   \* its inbound connections, by IP
  outboundPeersByIP,  \* its outbound connection for each IP
  inboundCount,
  outboundCount,
  pendingOutbound,    \* IPs being dialed (pendingInbound: see GateInbound)
  closing,            \* connections handlePeerClose has yet to Close
  inBanned,           \* IPs whose inbound, or outbound, ban is in force
  outBanned

muxer == <<peers, inboundPeersByIP, outboundPeersByIP, inboundCount,
           outboundCount>>
vars  == <<conn, muxer, pendingOutbound, closing, inBanned, outBanned>>

TypeOK ==
  /\ conn \in [Conns -> ConnState]
  /\ peers \in [Ids -> Conns \cup {None}]
  /\ inboundPeersByIP \in [Ips -> SUBSET Conns]
  /\ outboundPeersByIP \in [Ips -> Conns \cup {None}]
  /\ inboundCount \in Nat
  /\ outboundCount \in Nat
  /\ pendingOutbound \in SUBSET Ips
  /\ closing \in SUBSET Conns
  /\ inBanned \in SUBSET Ips
  /\ outBanned \in SUBSET Ips

Init ==
  /\ conn = [c \in Conns |-> Idle]
  /\ peers = [i \in Ids |-> None]
  /\ inboundPeersByIP = [ip \in Ips |-> {}]
  /\ outboundPeersByIP = [ip \in Ips |-> None]
  /\ inboundCount = 0
  /\ outboundCount = 0
  /\ pendingOutbound = {}
  /\ closing = {}
  /\ inBanned = {}
  /\ outBanned = {}

Become(c, state) == conn' = [conn EXCEPT ![c] = state]

\* Calls of AcceptPeer or DialPeer that hold the semaphore
Calls(dir) ==
  {c \in Conns : conn[c].pc \in {"gating", "handshake", "greeted"}
                   /\ conn[c].dir = dir}

\* inMu or outMu
MutexFree(dir) == \A c \in Calls(dir) : conn[c].pc # "gating"

----------------------------------------------------------------------------
(* AcceptPeer and DialPeer *)

\* Mutant: one connection more than the limit is let in.
CountInclusive(dir) ==
  IF dir = "in" THEN inboundCount <= MaxInbound ELSE outboundCount <= MaxOutbound

BelowLimit(dir) ==
  IF dir = "in" THEN inboundCount < MaxInbound ELSE outboundCount < MaxOutbound

TryAcquire(dir) ==
  Cardinality(Calls(dir)) <
    IF dir = "in" THEN MaxPendingInbound ELSE MaxPendingOutbound

\* A call acquires the semaphore and the mutex, and compares the count with the
\* limit.  The refusals change nothing.
Start(c, dir, ip, want, verify) ==
  /\ conn[c].pc = "idle"
  /\ TryAcquire(dir)
  /\ MutexFree(dir)
  /\ BelowLimit(dir)
  /\ Become(c, [pc |-> "gating", dir |-> dir, ip |-> ip, want |-> want,
                verify |-> verify])
  /\ UNCHANGED <<muxer, pendingOutbound, closing, inBanned, outBanned>>

AcceptPeer(c, ip) == Start(c, "in", RemoteIP[ip], None, FALSE)

\* From the RPC server, peer exchange, the seeds or refillPeers
DialPeer(c, ip, want, verify) ==
  /\ ip \notin pendingOutbound
  /\ Start(c, "out", ip, want, verify)

\* The rest of gateInboundPeer.  The remote address is that of this connection
\* only, so that it is pending is part of the call's own state.
GateInbound(c) ==
  /\ conn[c].pc = "gating" /\ conn[c].dir = "in"
  /\ Become(c, IF conn[c].ip \in inBanned
               THEN Idle ELSE [conn[c] EXCEPT !.pc = "handshake"])
  /\ UNCHANGED <<muxer, pendingOutbound, closing, inBanned, outBanned>>

HasPeerID(id) == peers[id] # None
HasOutboundPeerIP(ip) == outboundPeersByIP[ip] # None

\* Mutant: a refusal does not unlock outMu.
GateOutboundLocked(c) ==
  LET s == conn[c] IN
  /\ s.pc = "gating" /\ s.dir = "out"
  /\ ~(\/ s.want # None /\ HasPeerID(s.want)
       \/ HasOutboundPeerIP(s.ip)
       \/ s.ip \in outBanned)
  /\ Become(c, [s EXCEPT !.pc = "handshake"])
  /\ pendingOutbound' = pendingOutbound \cup {s.ip}
  /\ UNCHANGED <<muxer, closing, inBanned, outBanned>>

\* The rest of gateOutboundPeer
GateOutbound(c) ==
  LET s == conn[c] IN
  /\ s.pc = "gating" /\ s.dir = "out"
  /\ IF \/ s.want # None /\ HasPeerID(s.want)
        \/ HasOutboundPeerIP(s.ip)
        \/ s.ip \in outBanned
     THEN Become(c, Idle) /\ UNCHANGED pendingOutbound
     ELSE /\ Become(c, [s EXCEPT !.pc = "handshake"])
          /\ pendingOutbound' = pendingOutbound \cup {s.ip}
  /\ UNCHANGED <<muxer, closing, inBanned, outBanned>>

\* cleanupInboundPeer and cleanupOutboundPeer, under the mutex
Cleanup(dir, ip) ==
  /\ MutexFree(dir)
  /\ pendingOutbound' = IF dir = "out"
                        THEN pendingOutbound \ {ip} ELSE pendingOutbound

\* The dial fails, the handshake fails or times out, or it reveals another peer
\* ID than the one to verify: a host that was dialed is banned for an hour.
Fail(c) ==
  /\ conn[c].pc = "handshake"
  /\ Cleanup(conn[c].dir, conn[c].ip)
  /\ Become(c, Idle)
  /\ outBanned' = IF conn[c].dir = "out"
                  THEN outBanned \cup {conn[c].ip} ELSE outBanned
  /\ UNCHANGED <<muxer, closing, inBanned>>

\* The handshake reveals the peer ID, and completeConnection first removes the
\* address from the pending ones, as the connection spells it.
Greet(c, id) ==
  LET s == conn[c] IN
  /\ s.pc = "handshake"
  /\ s.verify => id = s.want
  /\ Cleanup(s.dir, RemoteIP[s.ip])
  /\ Become(c, [pc |-> "greeted", dir |-> s.dir, ip |-> RemoteIP[s.ip],
                id |-> id])
  /\ UNCHANGED <<muxer, closing, inBanned, outBanned>>

\* We dialed ourselves: the host is banned for a year.
SelfDial(c) ==
  LET s == conn[c] IN
  /\ s.pc = "greeted" /\ s.id = Self
  /\ Become(c, Idle)
  /\ outBanned' = IF s.dir = "out" THEN outBanned \cup {s.ip} ELSE outBanned
  /\ UNCHANGED <<muxer, pendingOutbound, closing, inBanned>>

\* AddPeer finds the peer ID connected already, and the connection is closed.
AlreadyConnected(c) ==
  LET s == conn[c] IN
  /\ s.pc = "greeted" /\ s.id # Self
  /\ peers[s.id] # None
  /\ Become(c, Idle)
  /\ UNCHANGED <<muxer, pendingOutbound, closing, inBanned, outBanned>>

\* Mutant: a peer ID that is connected already is replaced.
AddPeerAgain(c) ==
  LET s == conn[c] IN
  /\ s.pc = "greeted" /\ s.id # Self
  /\ Become(c, [pc |-> "open", dir |-> s.dir, ip |-> s.ip, id |-> s.id,
                closed |-> FALSE])
  /\ peers' = [peers EXCEPT ![s.id] = c]
  /\ IF s.dir = "in"
     THEN /\ inboundCount' = inboundCount + 1
          /\ inboundPeersByIP' = [inboundPeersByIP EXCEPT ![s.ip] = @ \cup {c}]
          /\ UNCHANGED <<outboundCount, outboundPeersByIP>>
     ELSE /\ outboundCount' = outboundCount + 1
          /\ outboundPeersByIP' = [outboundPeersByIP EXCEPT ![s.ip] = c]
          /\ UNCHANGED <<inboundCount, inboundPeersByIP>>
  /\ UNCHANGED <<pendingOutbound, closing, inBanned, outBanned>>

\* handlePeerOpen registers the connection, a goroutine starts to read from it,
\* and the call returns.
AddPeer(c) ==
  LET s == conn[c] IN
  /\ s.pc = "greeted" /\ s.id # Self
  /\ peers[s.id] = None
  /\ Become(c, [pc |-> "open", dir |-> s.dir, ip |-> s.ip, id |-> s.id,
                closed |-> FALSE])
  /\ peers' = [peers EXCEPT ![s.id] = c]
  /\ IF s.dir = "in"
     THEN /\ inboundCount' = inboundCount + 1
          /\ inboundPeersByIP' = [inboundPeersByIP EXCEPT ![s.ip] = @ \cup {c}]
          /\ UNCHANGED <<outboundCount, outboundPeersByIP>>
     ELSE /\ outboundCount' = outboundCount + 1
          /\ outboundPeersByIP' = [outboundPeersByIP EXCEPT ![s.ip] = c]
          /\ UNCHANGED <<inboundCount, inboundPeersByIP>>
  /\ UNCHANGED <<pendingOutbound, closing, inBanned, outBanned>>

----------------------------------------------------------------------------
(* The muxer *)

\* Mutant: an outbound connection stays in the index by IP.
UnregisterKeepsIP(id) ==
  LET d == peers[id] IN
  /\ peers' = [peers EXCEPT ![id] = None]
  /\ IF conn[d].dir = "in"
     THEN /\ inboundCount' = inboundCount - 1
          /\ inboundPeersByIP' =
               [inboundPeersByIP EXCEPT ![conn[d].ip] = @ \ {d}]
          /\ UNCHANGED <<outboundCount, outboundPeersByIP>>
     ELSE /\ outboundCount' = outboundCount - 1
          /\ UNCHANGED <<inboundCount, inboundPeersByIP, outboundPeersByIP>>

\* What handlePeerClose does under mu to the connection it finds for the ID
Unregister(id) ==
  LET d == peers[id] IN
  /\ peers' = [peers EXCEPT ![id] = None]
  /\ IF conn[d].dir = "in"
     THEN /\ inboundCount' = inboundCount - 1
          /\ inboundPeersByIP' =
               [inboundPeersByIP EXCEPT ![conn[d].ip] = @ \ {d}]
          /\ UNCHANGED <<outboundCount, outboundPeersByIP>>
     ELSE /\ outboundCount' = outboundCount - 1
          /\ outboundPeersByIP' =
               [outboundPeersByIP EXCEPT ![conn[d].ip] = None]
          /\ UNCHANGED <<inboundCount, inboundPeersByIP>>

\* A connection breaks: the remote host hangs up, the deadline passes or a send
\* fails, and its own goroutines close it.
Break(c) ==
  /\ conn[c].pc = "open" /\ ~conn[c].closed
  /\ Become(c, [conn[c] EXCEPT !.closed = TRUE])
  /\ UNCHANGED <<muxer, pendingOutbound, closing, inBanned, outBanned>>

\* Receive returns an error, or an envelope that is not valid.
ReceiveError(c) ==
  /\ conn[c].pc = "open"
  /\ Become(c, [conn[c] EXCEPT !.pc = "failing"])
  /\ UNCHANGED <<muxer, pendingOutbound, closing, inBanned, outBanned>>

\* Mutant: the goroutine returns without handlePeerClose.
HandlePeerCloseForgotten(c) ==
  /\ conn[c].pc = "failing"
  /\ Become(c, [conn[c] EXCEPT !.pc = "done"])
  /\ UNCHANGED <<muxer, pendingOutbound, closing, inBanned, outBanned>>

\* The goroutine closes whatever is registered under its peer ID: its own
\* connection or, if that has been closed by somebody else, nothing or the
\* connection that took its place.
HandlePeerClose(c) ==
  LET s == conn[c] IN
  /\ s.pc = "failing"
  /\ IF peers[s.id] = None
     THEN UNCHANGED <<muxer, closing>>
     ELSE Unregister(s.id) /\ closing' = closing \cup {peers[s.id]}
  /\ Become(c, IF s.closed /\ c \notin closing' THEN Idle ELSE [s EXCEPT !.pc = "done"])
  /\ UNCHANGED <<pendingOutbound, inBanned, outBanned>>

\* The pinger closes a peer it has not heard of.
ClosePeer(id) ==
  /\ peers[id] # None
  /\ Unregister(id)
  /\ closing' = closing \cup {peers[id]}
  /\ UNCHANGED <<conn, pendingOutbound, inBanned, outBanned>>

\* The Close at the end of handlePeerClose
Close(c) ==
  /\ c \in closing
  /\ closing' = closing \ {c}
  /\ Become(c, IF conn[c].pc = "done" THEN Idle ELSE [conn[c] EXCEPT !.closed = TRUE])
  /\ UNCHANGED <<muxer, pendingOutbound, inBanned, outBanned>>

----------------------------------------------------------------------------
(* Bans *)

\* The RPC server bans an address; then it closes the connections to it.
BanPeer(ip) ==
  /\ inBanned' = inBanned \cup {RemoteIP[ip]}
  /\ outBanned' = outBanned \cup {RemoteIP[ip]}
  /\ UNCHANGED <<conn, muxer, pendingOutbound, closing>>

PeersByIP(ip) == inboundPeersByIP[ip] \cup ({outboundPeersByIP[ip]} \ {None})

BanPeerCloses(ip) ==
  /\ conn' = [c \in Conns |-> IF c \in PeersByIP(RemoteIP[ip])
                              THEN [conn[c] EXCEPT !.closed = TRUE] ELSE conn[c]]
  /\ UNCHANGED <<muxer, pendingOutbound, closing, inBanned, outBanned>>

UnbanPeer(ip) ==
  /\ inBanned' = inBanned \ {RemoteIP[ip]}
  /\ outBanned' = outBanned \ {RemoteIP[ip]}
  /\ UNCHANGED <<conn, muxer, pendingOutbound, closing>>

\* The two bans of an address have expiry times of their own.
BanExpires(ip) ==
  /\ \/ inBanned' = inBanned \ {ip} /\ UNCHANGED outBanned
     \/ outBanned' = outBanned \ {ip} /\ UNCHANGED inBanned
  /\ UNCHANGED <<conn, muxer, pendingOutbound, closing>>

----------------------------------------------------------------------------

CallStep(c) ==
  \/ GateInbound(c)
  \/ GateOutbound(c)
  \/ Fail(c)
  \/ \E id \in Ids \cup {Self} : Greet(c, id)
  \/ SelfDial(c)
  \/ AlreadyConnected(c)
  \/ AddPeer(c)

ReadStep(c) ==
  \/ HandlePeerClose(c)
  \/ Close(c)
  \/ conn[c].pc = "open" /\ conn[c].closed /\ ReceiveError(c)

Next ==
  \/ \E c \in Conns, ip \in Ips :
       \/ AcceptPeer(c, ip)
       \/ \E want \in Ids \cup {None}, verify \in BOOLEAN :
            (verify => want # None) /\ DialPeer(c, ip, want, verify)
  \/ \E c \in Conns : CallStep(c) \/ Break(c) \/ ReceiveError(c)
                        \/ HandlePeerClose(c) \/ Close(c)
  \/ \E id \in Ids : ClosePeer(id)
  \/ \E ip \in Ips : BanPeer(ip) \/ BanPeerCloses(ip) \/ UnbanPeer(ip)
                      \/ BanExpires(ip)

Spec == Init /\ [][Next]_vars

\* Handshakes and dials have a timeout, and a sync.Mutex is handed to whoever has
\* waited for it long enough; Receive returns once the connection is closed.
Fairness == \A c \in Conns : SF_vars(CallStep(c)) /\ WF_vars(ReadStep(c))

FairSpec == Spec /\ Fairness

----------------------------------------------------------------------------
(* Properties *)

Registered(dir) ==
  {c \in Conns : \E id \in Ids : peers[id] = c /\ conn[c].dir = dir}

\* The counts that the limits and the RPC status use, and the indexes by IP that
\* bans use, are those of the connections registered by peer ID (handlePeerOpen
\* and handlePeerClose change five maps and counts together).
MuxerConsistent ==
  /\ inboundCount = Cardinality(Registered("in"))
  /\ outboundCount = Cardinality(Registered("out"))
  /\ \A ip \in Ips :
       /\ inboundPeersByIP[ip] = {c \in Registered("in") : conn[c].ip = ip}
       /\ outboundPeersByIP[ip] # None =>
            /\ outboundPeersByIP[ip] \in Registered("out")
            /\ conn[outboundPeersByIP[ip]].ip = ip

\* Whatever is registered has a goroutine that reads from it, and so will be
\* removed when it breaks; and a goroutine reads from nothing else than what is
\* registered under its ID or about to be closed, even if the peer reconnected
\* meanwhile and handlePeerClose was called for the ID again.
OneReaderPerPeer ==
  \A c \in Conns :
    /\ \A id \in Ids : peers[id] = c =>
         conn[c].pc \in {"open", "failing"} /\ conn[c].id = id
    /\ conn[c].pc \in {"open", "failing", "done"} =>
         peers[conn[c].id] = c \/ c \in closing \/ conn[c].closed

\* The limits are compared before the handshake and the counts grow after it, so
\* connections can exceed them, but by fewer than the semaphores let in.
LimitsBounded ==
  /\ inboundCount < MaxInbound + MaxPendingInbound
  /\ outboundCount < MaxOutbound + MaxPendingOutbound

\* An address, in the spelling that connections report, is kept from being
\* dialed only while it is being dialed (each way out of DialPeer removes it).
PendingIsDialed ==
  \A ip \in pendingOutbound : RemoteIP[ip] = ip =>
    \E c \in Conns : conn[c].pc = "handshake" /\ conn[c].dir = "out"
                       /\ conn[c].ip = ip

\* A connection that broke is removed from the muxer (its goroutine sees the
\* error), so that its slot is given to another peer.
BrokenIsRemoved ==
  \A c \in Conns : \A id \in Ids :
    (peers[id] = c /\ conn[c].closed) ~> (peers[id] # c)

\* Every call of AcceptPeer or DialPeer returns, and releases the semaphore.
CallsReturn ==
  \A c \in Conns : (conn[c].pc \in {"gating", "handshake", "greeted"})
                     ~> (conn[c].pc \notin {"gating", "handshake", "greeted"})

============================================================================
