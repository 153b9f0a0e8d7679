----------------------------- MODULE Discovery -----------------------------
(***************************************************************************)
(* How a node finds its peers and keeps them: the seeds it dials when it   *)
(* starts (cmd/fnd/cmd/start.go), the peers, bans and whitelist it stores  *)
(* (store/peers.go), the refills from that store (p2p/peer_manager.go),    *)
(* the addresses it gets from peers (protocol/peer_exchanger.go), the      *)
(* pingers that close silent peers (protocol/pinger.go) and the operator's *)
(* bans (rpc/server.go).                                                   *)
(*                                                                         *)
(* Peers has the steps of one call and the muxer's maps.  Here a call is   *)
(* two steps, one through the gate and one after the handshake, and a      *)
(* host has one address and one peer ID that it keeps, so that verifying   *)
(* the ID changes nothing.  Hosts come and go.                             *)
(***************************************************************************)
EXTENDS Integers, FiniteSets

CONSTANTS
  Hosts,        \* other nodes, by address
  FixedSeeds,   \* the seeds of the configuration
  Lookup,       \* what DNS has for each seed domain: addresses, or Failed
  Failed,
  Lists,        \* the hosts that a host lists in its PeerRes
  Callers,      \* the hosts that dial us, none without a listener
  MaxInbound,   \* the configured limits
  MaxOutbound,
  Unstable,     \* the hosts that are lost, lose connections and get banned
  MaxFaults     \* bound on losses, broken connections, bans and restarts

ASSUME HostsTyped == FixedSeeds \cup Callers \cup Unstable \subseteq Hosts
ASSUME LookupTyped ==
  \A d \in DOMAIN Lookup :
    Lookup[d] = Failed \/ Lookup[d] \subseteq [host : Hosts, to4 : BOOLEAN]
ASSUME ListsTyped == Lists \in [Hosts -> SUBSET Hosts]
ASSUME BoundsAreNat == {MaxInbound, MaxOutbound, MaxFaults} \subseteq Nat

Directions == {"in", "out"}

\* The hosts of a domain's IPv4 addresses; the others are passed over
ResolveDNSSeeds(domain) == {a.host : a \in {b \in Lookup[domain] : b.to4}}

\* What is dialed and whitelisted at a start; a domain that cannot be looked up is
\* left out
Seeds ==
  FixedSeeds \cup
    UNION {ResolveDNSSeeds(d) : d \in {e \in DOMAIN Lookup : Lookup[e] # Failed}}

\* Two pingers of a peer can run at the same time: see PeerAdded
Slots == {1, 2}

VARIABLES
  online,      \* hosts that are reachable and answer
  faults,      \* faults so far
  known,       \* the peer store: hosts that a handshake ended with
  banned,      \* for each host the directions it is banned in
  whitelist,   \* hosts that bans do not apply to
  conn,        \* the registered connection of a host: "none", "in" or "out"
  dial,        \* who waits for DialPeer of a host: "none", "seed", ...
  accepting,   \* hosts that AcceptPeer waits for
  seeds,       \* seeds that start has yet to dial
  candidates,  \* hosts that refillPeers has yet to dial
  exchanged,   \* hosts of a PeerRes that its handler has yet to dial
  asked,       \* hosts with an unanswered PeerReq
  pinger,      \* the pingers of a host: "none", or what they last heard
  banning,     \* hosts that BanPeer has banned and not yet disconnected
  slipped      \* hosts in the middle of a handshake when BanPeer returned

store    == <<known, banned, whitelist>>
world    == <<online, faults>>
calls    == <<dial, accepting>>
tasks    == <<seeds, candidates, exchanged, asked>>
bans     == <<banning, slipped>>
volatile == <<conn, calls, tasks, pinger, bans>>
vars     == <<world, store, volatile>>

TypeOK ==
  /\ online \subseteq Hosts
  /\ faults \in 0..MaxFaults
  /\ known \subseteq Hosts
  /\ banned \in [Hosts -> SUBSET Directions]
  /\ whitelist \subseteq Seeds
  /\ conn \in [Hosts -> {"none", "in", "out"}]
  /\ dial \in [Hosts -> {"none", "seed", "refill", "exchange", "rpc"}]
  /\ accepting \subseteq Hosts
  /\ seeds \subseteq Seeds /\ candidates \subseteq Hosts
  /\ exchanged \subseteq Hosts /\ asked \subseteq Hosts
  /\ pinger \in [Hosts -> [Slots -> {"none", "fresh", "stale"}]]
  /\ banning \subseteq Hosts /\ slipped \subseteq Hosts

None       == [h \in Hosts |-> "none"]
NoPingers  == [h \in Hosts |-> [i \in Slots |-> "none"]]
NoBans     == [h \in Hosts |-> {}]

\* A node that starts for the first time, with some hosts online
Init ==
  /\ online \in SUBSET Hosts
  /\ faults = 0
  /\ known = {}
  /\ banned = NoBans
  /\ whitelist = Seeds
  /\ conn = None /\ dial = None /\ accepting = {}
  /\ seeds = Seeds
  /\ candidates = {} /\ exchanged = {} /\ asked = {}
  /\ pinger = NoPingers
  /\ banning = {} /\ slipped = {}

----------------------------------------------------------------------------
(* The world *)

Fault == faults < MaxFaults /\ faults' = faults + 1

GoOffline(h) ==
  /\ h \in Unstable \cap online /\ Fault
  /\ online' = online \ {h}
  /\ UNCHANGED <<store, volatile>>

ComeOnline(h) ==
  /\ h \notin online
  /\ online' = online \cup {h}
  /\ UNCHANGED <<faults, store, volatile>>

\* The process ends and starts again, after reset-peer-store or not.  What is
\* not stored is gone; the seeds are whitelisted and dialed anew.  The services
\* start with the process, before a handshake can end.
Restart(reset) ==
  /\ Fault
  /\ known' = IF reset THEN {} ELSE known
  /\ banned' = IF reset THEN NoBans ELSE banned
  /\ whitelist' = IF reset THEN Seeds ELSE whitelist \cup Seeds
  /\ conn' = None /\ dial' = None /\ accepting' = {}
  /\ seeds' = Seeds
  /\ candidates' = {} /\ exchanged' = {} /\ asked' = {}
  /\ pinger' = NoPingers
  /\ banning' = {} /\ slipped' = {}
  /\ UNCHANGED online

----------------------------------------------------------------------------
(* Bans *)

\* IsBanned: the bans that hold, which are none on the whitelist
InForce(h) == IF h \in whitelist THEN {} ELSE banned[h]

\* BanPeer stores both bans
BanPeer(h) ==
  /\ h \in Unstable /\ Fault
  /\ banned' = [banned EXCEPT ![h] = Directions]
  /\ banning' = banning \cup {h}
  /\ UNCHANGED <<online, known, whitelist, conn, calls, tasks, pinger, slipped>>

\* Then it closes the connections that are registered and returns.  One that has
\* passed a gate and not ended its handshake is not among them.
BanPeerCloses(h) ==
  /\ h \in banning
  /\ banning' = banning \ {h}
  /\ conn' = [conn EXCEPT ![h] = "none"]
  /\ slipped' = IF dial[h] # "none" \/ h \in accepting
                 THEN slipped \cup {h} ELSE slipped \ {h}
  /\ UNCHANGED <<world, store, calls, tasks, pinger>>

UnbanPeer(h) ==
  /\ banned[h] # {}
  /\ banned' = [banned EXCEPT ![h] = {}]
  /\ UNCHANGED <<world, known, whitelist, volatile>>

\* The two bans have expiry times of their own
BanExpires(h, dir) ==
  /\ dir \in banned[h]
  /\ banned' = [banned EXCEPT ![h] = @ \ {dir}]
  /\ UNCHANGED <<world, known, whitelist, volatile>>

----------------------------------------------------------------------------
(* Connections *)

OutCount == Cardinality({h \in Hosts : conn[h] = "out"})
Full     == OutCount >= MaxOutbound

\* Mutant: gateOutboundPeer does not look at the bans
GateWithoutBans(h) == ~Full /\ dial[h] = "none" /\ conn[h] = "none"

\* gateOutboundPeer
GateOutbound(h) ==
  /\ ~Full
  /\ dial[h] = "none"
  /\ conn[h] = "none"
  /\ "out" \notin InForce(h)

\* DialPeer returns an error at once, or goes on to the handshake
DialPeer(h, by) == dial' = [dial EXCEPT ![h] = IF GateOutbound(h) THEN by ELSE @]

\* AddPeer and SetPeer: the connection is registered, a pinger starts and the
\* peer is stored.  The pinger of an earlier connection may still be there.
PeerAdded(h, dir) ==
  /\ conn' = [conn EXCEPT ![h] = dir]
  /\ \E i \in Slots :
       /\ pinger[h][i] = "none"
       /\ pinger' = [pinger EXCEPT ![h][i] = "fresh"]
  /\ known' = known \cup {h}

\* The handshake ends, and the peer is added unless it has connected meanwhile
DialCompletes(h) ==
  /\ dial[h] # "none" /\ h \in online
  /\ dial' = [dial EXCEPT ![h] = "none"]
  /\ IF conn[h] = "none" THEN PeerAdded(h, "out") ELSE UNCHANGED <<conn, pinger, known>>
  /\ UNCHANGED <<world, banned, whitelist, accepting, tasks, bans>>

\* The dial or the handshake times out, and the host is banned for an hour
DialFails(h) ==
  /\ dial[h] # "none" /\ h \notin online
  /\ dial' = [dial EXCEPT ![h] = "none"]
  /\ banned' = [banned EXCEPT ![h] = @ \cup {"out"}]
  /\ UNCHANGED <<world, known, whitelist, conn, accepting, tasks, pinger, bans>>

\* gateInboundPeer lets a host in that is not banned.  A host has at most one
\* inbound handshake at a time.
AcceptPeer(h) ==
  /\ h \in Callers /\ h \in online /\ h \notin accepting
  /\ Cardinality({g \in Hosts : conn[g] = "in"}) < MaxInbound
  /\ "in" \notin InForce(h)
  /\ accepting' = accepting \cup {h}
  /\ UNCHANGED <<world, store, conn, dial, tasks, pinger, bans>>

AcceptCompletes(h) ==
  /\ h \in accepting /\ h \in online
  /\ accepting' = accepting \ {h}
  /\ IF conn[h] = "none" THEN PeerAdded(h, "in") ELSE UNCHANGED <<conn, pinger, known>>
  /\ UNCHANGED <<world, banned, whitelist, dial, tasks, bans>>

AcceptFails(h) ==
  /\ h \in accepting /\ h \notin online
  /\ accepting' = accepting \ {h}
  /\ UNCHANGED <<world, store, conn, dial, tasks, pinger, bans>>

\* handlePeerClose
Closed(h) ==
  /\ conn' = [conn EXCEPT ![h] = "none"]
  /\ slipped' = IF dial[h] = "none" /\ h \notin accepting THEN slipped \ {h} ELSE slipped

\* A connection breaks
Break(h) ==
  /\ h \in Unstable /\ conn[h] # "none" /\ Fault
  /\ Closed(h)
  /\ UNCHANGED <<online, store, calls, tasks, pinger, banning>>

----------------------------------------------------------------------------
(* Pingers *)

\* Whatever a peer sends is heard by all its pingers.  A host that is online
\* sends pings of its own.
Heard(h) ==
  /\ h \in online /\ conn[h] # "none"
  /\ \E i \in Slots : pinger[h][i] = "stale"
  /\ pinger' = [pinger EXCEPT ![h] =
                  [i \in Slots |-> IF @[i] = "stale" THEN "fresh" ELSE @[i]]]
  /\ UNCHANGED <<world, store, conn, calls, tasks, bans>>

\* Nothing was heard for longer than the timeout
Silence(h, i) ==
  /\ h \notin online \/ conn[h] = "none"
  /\ pinger[h][i] = "fresh"
  /\ pinger' = [pinger EXCEPT ![h][i] = "stale"]
  /\ UNCHANGED <<world, store, conn, calls, tasks, bans>>

\* Mutant: PingPeer ends with the peer and does nothing else
CheckOpen(h, i) ==
  /\ pinger[h][i] # "none"
  /\ conn[h] = "none"
  /\ pinger' = [pinger EXCEPT ![h][i] = "none"]
  /\ Closed(h)
  /\ UNCHANGED <<world, store, calls, tasks, banning>>

\* The check of PingPeer: it ends with the peer, or closes it.  The peer it
\* finds may have connected again since the pinger last heard of it.
CheckPeer(h, i) ==
  /\ pinger[h][i] # "none"
  /\ conn[h] = "none" \/ pinger[h][i] = "stale"
  /\ pinger' = [pinger EXCEPT ![h][i] = "none"]
  /\ Closed(h)
  /\ UNCHANGED <<world, store, calls, tasks, banning>>

----------------------------------------------------------------------------
(* Where dials come from *)

\* start dials one seed after the other, once
DialSeed(h) ==
  /\ h \in seeds
  /\ \A g \in Hosts : dial[g] # "seed"
  /\ seeds' = seeds \ {h}
  /\ DialPeer(h, "seed")
  /\ UNCHANGED <<world, store, conn, accepting, candidates, exchanged, asked, pinger,
                 bans>>

\* The operator has a host dialed (fnd-cli net add-peer); the call returns with the
\* handshake
AddPeer(h) ==
  /\ h \in Unstable /\ Fault
  /\ DialPeer(h, "rpc")
  /\ UNCHANGED <<online, store, conn, accepting, tasks, pinger, bans>>

\* Mutant: StreamPeers returns the banned ones
StreamBanned == {h \in known : InForce(h) # {}}

\* StreamPeers without the banned ones
Stream == {h \in known : InForce(h) = {}}

\* The candidates of refillPeers
NotConnected == {h \in Stream : conn[h] = "none"}

\* refillPeers looks for candidates when there are too few peers
RefillPeers ==
  /\ candidates = {} /\ \A g \in Hosts : dial[g] # "refill"
  /\ ~Full
  /\ candidates' = NotConnected
  /\ UNCHANGED <<world, store, conn, calls, seeds, exchanged, asked, pinger, bans>>

\* It dials them one after the other, and stops at the limit
RefillDial(h) ==
  /\ h \in candidates
  /\ \A g \in Hosts : dial[g] # "refill"
  /\ candidates' = IF Full THEN {} ELSE candidates \ {h}
  /\ IF Full THEN UNCHANGED dial ELSE DialPeer(h, "refill")
  /\ UNCHANGED <<world, store, conn, accepting, seeds, exchanged, asked, pinger, bans>>

\* A PeerReq goes to every peer
RequestPeers ==
  /\ asked' = asked \cup {h \in Hosts : conn[h] # "none"}
  /\ UNCHANGED <<world, store, conn, calls, seeds, candidates, exchanged, pinger, bans>>

\* ResponseTimeout passes.  An answer that came before the request was noted
\* is dropped too, and the request is left to expire.
RequestExpires(h) ==
  /\ h \in asked
  /\ asked' = asked \ {h}
  /\ UNCHANGED <<world, store, conn, calls, seeds, candidates, exchanged, pinger, bans>>

\* Mutant: the hosts of an answer are not dialed
HandlePeerResIdle(h) ==
  /\ h \in asked /\ h \in online /\ conn[h] # "none"
  /\ asked' = asked \ {h}
  /\ UNCHANGED <<world, store, conn, calls, seeds, candidates, exchanged, pinger, bans>>

\* A PeerRes is used if it was asked for
HandlePeerRes(h) ==
  /\ h \in asked /\ h \in online /\ conn[h] # "none"
  /\ asked' = asked \ {h}
  /\ exchanged' = exchanged \cup Lists[h]
  /\ UNCHANGED <<world, store, conn, calls, seeds, candidates, pinger, bans>>

\* The handlers of several answers dial at the same time
ExchangeDial(h) ==
  /\ h \in exchanged
  /\ exchanged' = exchanged \ {h}
  /\ DialPeer(h, "exchange")
  /\ UNCHANGED <<world, store, conn, accepting, seeds, candidates, asked, pinger, bans>>

----------------------------------------------------------------------------
DialEnds(h)   == DialCompletes(h) \/ DialFails(h)
AcceptEnds(h) == AcceptCompletes(h) \/ AcceptFails(h)
Dials(h)      == DialSeed(h) \/ RefillDial(h) \/ ExchangeDial(h)
Watch(h, i)   == Silence(h, i) \/ CheckPeer(h, i)

Next ==
  \/ \E h \in Hosts :
       \/ GoOffline(h) \/ ComeOnline(h) \/ AcceptPeer(h) \/ Break(h)
       \/ BanPeer(h) \/ BanPeerCloses(h) \/ UnbanPeer(h) \/ AddPeer(h)
       \/ \E dir \in Directions : BanExpires(h, dir)
       \/ DialEnds(h) \/ AcceptEnds(h) \/ Dials(h)
       \/ Heard(h) \/ \E i \in Slots : Watch(h, i)
       \/ RequestExpires(h) \/ HandlePeerRes(h)
  \/ RefillPeers \/ RequestPeers
  \/ \E reset \in BOOLEAN : Restart(reset)

Spec == Init /\ [][Next]_vars

\* Dials and handshakes time out, the tickers of refills, requests and pingers
\* run on, and bans expire.  A request that is made again and again is answered
\* in time again and again, unless the peer is gone.  Nothing is assumed of
\* hosts that are offline, nor that a host dials us.
Fairness ==
  /\ \A h \in Hosts :
       /\ WF_vars(DialEnds(h) \/ AcceptEnds(h))
       /\ WF_vars(DialSeed(h)) /\ WF_vars(RefillDial(h)) /\ WF_vars(ExchangeDial(h))
       /\ WF_vars(\E dir \in Directions : BanExpires(h, dir))
       /\ WF_vars(\E i \in Slots : Watch(h, i))
       /\ SF_vars(HandlePeerRes(h))
  /\ WF_vars(RefillPeers) /\ WF_vars(RequestPeers)

FairSpec == Spec /\ Fairness

----------------------------------------------------------------------------
(* Properties *)

\* Once BanPeer has returned, a host that is banned in both directions has no
\* connection, however dials, refills, exchanges and unbans interleave; the one
\* exception is a handshake that had passed the gate ("Any existing connections to
\* this peer will be closed").
BanHolds ==
  \A h \in Hosts :
    InForce(h) = Directions /\ h \notin banning /\ conn[h] # "none" => h \in slipped

\* A connection is watched by a pinger as long as it is registered, also when
\* the peer has reconnected while an old pinger was still there
ConnectedIsWatched ==
  \A h \in Hosts : conn[h] # "none" => \E i \in Slots : pinger[h][i] # "none"

\* A peer that falls silent is closed
SilentIsClosed ==
  \A h \in Hosts :
    (conn[h] # "none" /\ h \notin online) ~> (conn[h] = "none" \/ h \in online)

\* A node that knows a host which stays online gets back to it, after restarts,
\* failed dials and bans, or has all the outbound peers it wants
Reconnects ==
  \A h \in Hosts :
    <>[](h \in online /\ h \in known) => []<>(conn[h] # "none" \/ Full)

\* A host that a peer lists becomes known
Discovers ==
  \A g \in Hosts : \A h \in Lists[g] :
    <>[](g \in online /\ h \in online /\ conn[g] # "none")
      => []<>(h \in known \/ Full)
=============================================================================
