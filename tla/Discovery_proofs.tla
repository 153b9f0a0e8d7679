-------------------------- MODULE Discovery_proofs --------------------------
(***************************************************************************)
(* Proofs about Discovery, for any hosts, seeds, lists and limits and any  *)
(* number of faults.                                                       *)
(*                                                                         *)
(* BanHolds is not inductive: a dial that fails bans the outbound          *)
(* direction of a host on its own, and may complete an inbound ban that    *)
(* is left of an earlier BanPeer.  The invariant therefore says of each    *)
(* direction what can be connected, or on its way, under its ban.          *)
(***************************************************************************)
EXTENDS Discovery, TLAPS

\* Connected, or past a gate
Reached(h) == conn[h] # "none" \/ dial[h] # "none" \/ h \in accepting

\* A host is not dialed while it has an outbound connection.
DialIsOnly == \A h \in Hosts : dial[h] # "none" => conn[h] # "out"

\* Under both bans, only what slipped through is connected or on its way.
BothHold ==
  \A h \in Hosts :
    InForce(h) = Directions /\ h \notin banning /\ Reached(h) => h \in slipped

\* Under the inbound ban, only what slipped through is inbound.
InboundHolds ==
  \A h \in Hosts :
    "in" \in InForce(h) /\ h \notin banning /\ (conn[h] = "in" \/ h \in accepting)
      => h \in slipped

IInv == TypeOK /\ DialIsOnly /\ BothHold /\ InboundHolds /\ ConnectedIsWatched

----------------------------------------------------------------------------
(* Steps that change neither connections nor bans *)

LEMMA Kept ==
  ASSUME IInv, TypeOK', UNCHANGED <<banned, whitelist, conn, dial, accepting, banning, slipped>>,
         \A h \in Hosts : conn[h] # "none" => \E i \in Slots : pinger'[h][i] # "none"
  PROVE  IInv'
BY DEF IInv, DialIsOnly, BothHold, InboundHolds, ConnectedIsWatched, InForce, Reached

\* A host may pass a gate if the ban of that direction is not in force.
LEMMA DialKeeps ==
  ASSUME IInv, NEW h \in Hosts, NEW by \in {"seed", "refill", "exchange", "rpc"},
         DialPeer(h, by), UNCHANGED <<banned, whitelist, conn, accepting, banning, slipped, pinger>>
  PROVE  /\ dial' \in [Hosts -> {"none", "seed", "refill", "exchange", "rpc"}]
         /\ DialIsOnly' /\ BothHold' /\ InboundHolds' /\ ConnectedIsWatched'
<1>1. dial \in [Hosts -> {"none", "seed", "refill", "exchange", "rpc"}]
  BY DEF IInv, TypeOK
<1>2. dial' \in [Hosts -> {"none", "seed", "refill", "exchange", "rpc"}]
      /\ \A g \in Hosts : g # h => dial'[g] = dial[g]
  BY <1>1 DEF DialPeer
<1>3. dial'[h] # dial[h] => GateOutbound(h)
  BY <1>1 DEF DialPeer
<1>4. DialIsOnly'
  BY <1>2, <1>3 DEF IInv, DialIsOnly, GateOutbound
<1>5. "out" \in Directions
  BY DEF Directions
<1>6. BothHold'
  BY <1>2, <1>3, <1>5 DEF IInv, BothHold, Reached, InForce, GateOutbound
<1>7. InboundHolds' /\ ConnectedIsWatched'
  BY DEF IInv, InboundHolds, ConnectedIsWatched, InForce
<1> QED BY <1>2, <1>4, <1>6, <1>7

\* A connection is closed.
LEMMA ClosedKeeps ==
  ASSUME IInv, NEW h \in Hosts, Closed(h), UNCHANGED <<banned, whitelist, dial, accepting, banning>>,
         \A g \in Hosts : g # h => pinger'[g] = pinger[g]
  PROVE  /\ conn' \in [Hosts -> {"none", "in", "out"}] /\ slipped' \subseteq Hosts
         /\ DialIsOnly' /\ BothHold' /\ InboundHolds' /\ ConnectedIsWatched'
<1>1. conn \in [Hosts -> {"none", "in", "out"}] /\ slipped \subseteq Hosts
  BY DEF IInv, TypeOK
<1>2. conn' \in [Hosts -> {"none", "in", "out"}] /\ slipped' \subseteq Hosts
      /\ conn'[h] = "none" /\ \A g \in Hosts : g # h => conn'[g] = conn[g]
  BY <1>1 DEF Closed
<1>3. \A g \in Hosts : g \in slipped /\ g \notin slipped' => g = h /\ dial[h] = "none" /\ h \notin accepting
  BY DEF Closed
<1>4. DialIsOnly'
  BY <1>2 DEF IInv, DialIsOnly
<1>5. BothHold'
  BY <1>2, <1>3 DEF IInv, BothHold, Reached, InForce
<1>6. InboundHolds'
  BY <1>2, <1>3 DEF IInv, InboundHolds, InForce
<1>7. ConnectedIsWatched'
  BY <1>2 DEF IInv, ConnectedIsWatched
<1> QED BY <1>2, <1>4, <1>5, <1>6, <1>7

\* A handshake ends with a connection: a pinger is there from then on.
LEMMA AddedKeeps ==
  ASSUME IInv, NEW h \in Hosts, NEW dir \in Directions, PeerAdded(h, dir),
         UNCHANGED <<online, faults, banned, whitelist, banning, slipped>>, conn[h] = "none",
         \/ dir = "out" /\ dial[h] # "none" /\ accepting' = accepting
              /\ dial' = [dial EXCEPT ![h] = "none"]
         \/ dir = "in" /\ h \in accepting /\ accepting' = accepting \ {h} /\ dial' = dial
  PROVE  /\ conn' \in [Hosts -> {"none", "in", "out"}] /\ known' \subseteq Hosts
         /\ pinger' \in [Hosts -> [Slots -> {"none", "fresh", "stale"}]]
         /\ dial' \in [Hosts -> {"none", "seed", "refill", "exchange", "rpc"}]
         /\ DialIsOnly' /\ BothHold' /\ InboundHolds' /\ ConnectedIsWatched'
<1>1. /\ conn \in [Hosts -> {"none", "in", "out"}] /\ known \subseteq Hosts
      /\ pinger \in [Hosts -> [Slots -> {"none", "fresh", "stale"}]]
      /\ dial \in [Hosts -> {"none", "seed", "refill", "exchange", "rpc"}]
  BY DEF IInv, TypeOK
<1>2. PICK i \in Slots : pinger' = [pinger EXCEPT ![h][i] = "fresh"]
  BY DEF PeerAdded
<1>3. conn' \in [Hosts -> {"none", "in", "out"}] /\ known' \subseteq Hosts
      /\ conn'[h] = dir /\ \A g \in Hosts : g # h => conn'[g] = conn[g]
  BY <1>1 DEF PeerAdded, Directions
<1>4. pinger' \in [Hosts -> [Slots -> {"none", "fresh", "stale"}]]
      /\ pinger'[h][i] = "fresh" /\ \A g \in Hosts : g # h => pinger'[g] = pinger[g]
  BY <1>1, <1>2
<1>5. dial' \in [Hosts -> {"none", "seed", "refill", "exchange", "rpc"}]
      /\ \A g \in Hosts : g # h => dial'[g] = dial[g]
  BY <1>1
<1>6. DialIsOnly'
  BY <1>1, <1>3, <1>5 DEF IInv, DialIsOnly
<1>7. BothHold'
  BY <1>3, <1>5 DEF IInv, BothHold, Reached, InForce
<1>8. InboundHolds'
  BY <1>3 DEF IInv, InboundHolds, InForce
<1>9. ConnectedIsWatched'
  BY <1>3, <1>4 DEF IInv, ConnectedIsWatched
<1> QED BY <1>3, <1>4, <1>5, <1>6, <1>7, <1>8, <1>9

----------------------------------------------------------------------------
(* The actions *)

LEMMA InitHolds == Init => IInv
<1> SUFFICES ASSUME Init PROVE IInv
  OBVIOUS
<1>1. \A h \in Hosts : conn[h] = "none" /\ dial[h] = "none" /\ h \notin accepting
  BY DEF Init, None
<1>2. TypeOK
  <2>1. banned \in [Hosts -> SUBSET Directions]
    BY DEF Init, NoBans
  <2>2. pinger \in [Hosts -> [Slots -> {"none", "fresh", "stale"}]]
    BY DEF Init, NoPingers
  <2>3. faults \in 0..MaxFaults
    BY BoundsAreNat DEF Init
  <2> QED BY <2>1, <2>2, <2>3 DEF Init, TypeOK, None
<1> QED BY <1>1, <1>2 DEF IInv, DialIsOnly, BothHold, InboundHolds, ConnectedIsWatched, Reached

LEMMA FaultTyped ==
  ASSUME TypeOK, Fault
  PROVE  faults' \in 0..MaxFaults
BY BoundsAreNat DEF TypeOK, Fault

\* A restart forgets what is not stored.
LEMMA RestartKeeps ==
  ASSUME IInv, NEW reset \in BOOLEAN, Restart(reset)
  PROVE  IInv'
<1>1. \A h \in Hosts : conn'[h] = "none" /\ dial'[h] = "none" /\ h \notin accepting'
  BY DEF Restart, None
<1>2. TypeOK'
  <2>1. banned' \in [Hosts -> SUBSET Directions]
    BY DEF Restart, NoBans, IInv, TypeOK
  <2>2. pinger' \in [Hosts -> [Slots -> {"none", "fresh", "stale"}]]
    BY DEF Restart, NoPingers
  <2>3. faults' \in 0..MaxFaults
    BY FaultTyped DEF Restart, IInv
  <2>4. conn' \in [Hosts -> {"none", "in", "out"}]
        /\ dial' \in [Hosts -> {"none", "seed", "refill", "exchange", "rpc"}]
    BY DEF Restart, None
  <2>5. known' \subseteq Hosts /\ whitelist' \subseteq Seeds /\ online' \subseteq Hosts
    BY DEF Restart, IInv, TypeOK
  <2> QED BY <2>1, <2>2, <2>3, <2>4, <2>5 DEF Restart, TypeOK
<1> QED BY <1>1, <1>2 DEF IInv, DialIsOnly, BothHold, InboundHolds, ConnectedIsWatched, Reached

LEMMA BanPeerKeeps ==
  ASSUME IInv, NEW h \in Hosts, BanPeer(h)
  PROVE  IInv'
<1>1. banned \in [Hosts -> SUBSET Directions]
  BY DEF IInv, TypeOK
<1>2. banned' \in [Hosts -> SUBSET Directions]
      /\ \A g \in Hosts : g # h => banned'[g] = banned[g]
  BY <1>1 DEF BanPeer
<1>3. TypeOK'
  BY <1>2, FaultTyped DEF BanPeer, IInv, TypeOK, calls, tasks
<1>4. UNCHANGED <<whitelist, conn, dial, accepting, slipped, pinger>>
      /\ banning' = banning \cup {h}
  BY DEF BanPeer, calls
<1>5. BothHold' /\ InboundHolds'
  BY <1>2, <1>4 DEF IInv, BothHold, InboundHolds, InForce, Reached
<1>6. DialIsOnly' /\ ConnectedIsWatched'
  BY <1>4 DEF IInv, DialIsOnly, ConnectedIsWatched
<1> QED BY <1>3, <1>5, <1>6 DEF IInv

LEMMA BanPeerClosesKeeps ==
  ASSUME IInv, NEW h \in Hosts, BanPeerCloses(h)
  PROVE  IInv'
<1>1. conn \in [Hosts -> {"none", "in", "out"}]
  BY DEF IInv, TypeOK
<1>2. UNCHANGED <<banned, whitelist, dial, accepting, pinger>> /\ banning' = banning \ {h}
  BY DEF BanPeerCloses, store, calls
<1>3. conn' \in [Hosts -> {"none", "in", "out"}]
      /\ conn'[h] = "none" /\ \A g \in Hosts : g # h => conn'[g] = conn[g]
  BY <1>1 DEF BanPeerCloses
<1>4. \A g \in Hosts : g # h /\ g \in slipped => g \in slipped'
  BY DEF BanPeerCloses
<1>5. dial[h] # "none" \/ h \in accepting => h \in slipped'
  BY DEF BanPeerCloses
<1>6. TypeOK'
  BY <1>3 DEF BanPeerCloses, IInv, TypeOK, world, store, calls, tasks
<1>7. BothHold' /\ InboundHolds'
  BY <1>2, <1>3, <1>4, <1>5 DEF IInv, BothHold, InboundHolds, InForce, Reached
<1>8. DialIsOnly' /\ ConnectedIsWatched'
  BY <1>2, <1>3 DEF IInv, DialIsOnly, ConnectedIsWatched
<1> QED BY <1>6, <1>7, <1>8 DEF IInv

\* A ban is lifted, or expires.
LEMMA UnbanKeeps ==
  ASSUME IInv, NEW h \in Hosts, UnbanPeer(h) \/ \E dir \in Directions : BanExpires(h, dir)
  PROVE  IInv'
<1>1. banned \in [Hosts -> SUBSET Directions]
  BY DEF IInv, TypeOK
<1>2. UNCHANGED <<world, known, whitelist, volatile>>
  BY DEF UnbanPeer, BanExpires
<1>3. banned' \in [Hosts -> SUBSET Directions] /\ \A g \in Hosts : banned'[g] \subseteq banned[g]
  BY <1>1 DEF UnbanPeer, BanExpires
<1>4. UNCHANGED <<whitelist, conn, dial, accepting, slipped, pinger, banning>>
  BY <1>2 DEF volatile, calls, bans
<1>5. \A g \in Hosts : InForce(g)' \subseteq InForce(g) /\ InForce(g) \subseteq Directions
  BY <1>1, <1>3, <1>4 DEF InForce
<1>6. TypeOK'
  BY <1>2, <1>3 DEF IInv, TypeOK, world, volatile, calls, tasks, bans
<1>7. BothHold'
  <2> SUFFICES ASSUME NEW g \in Hosts, InForce(g)' = Directions, g \notin banning, Reached(g)
               PROVE  g \in slipped
    BY <1>4 DEF BothHold, Reached
  <2>1. InForce(g) = Directions
    BY <1>5
  <2> QED BY <2>1 DEF IInv, BothHold
<1>8. InboundHolds'
  BY <1>4, <1>5 DEF IInv, InboundHolds
<1>9. DialIsOnly' /\ ConnectedIsWatched'
  BY <1>4 DEF IInv, DialIsOnly, ConnectedIsWatched
<1> QED BY <1>6, <1>7, <1>8, <1>9 DEF IInv

\* A dial that fails adds the outbound ban: an inbound connection under it has
\* slipped through if the inbound ban is in force as well.
LEMMA DialFailsKeeps ==
  ASSUME IInv, NEW h \in Hosts, DialFails(h)
  PROVE  IInv'
<1>1. banned \in [Hosts -> SUBSET Directions]
      /\ dial \in [Hosts -> {"none", "seed", "refill", "exchange", "rpc"}]
      /\ conn \in [Hosts -> {"none", "in", "out"}]
  BY DEF IInv, TypeOK
<1>2. banned' \in [Hosts -> SUBSET Directions]
      /\ banned'[h] = banned[h] \cup {"out"}
      /\ \A g \in Hosts : g # h => banned'[g] = banned[g]
  BY <1>1 DEF DialFails, Directions
<1>3. dial' \in [Hosts -> {"none", "seed", "refill", "exchange", "rpc"}]
      /\ dial'[h] = "none" /\ \A g \in Hosts : g # h => dial'[g] = dial[g]
  BY <1>1 DEF DialFails
<1>4. UNCHANGED <<whitelist, conn, accepting, slipped, pinger, banning>>
  BY DEF DialFails, bans
<1>5. TypeOK'
  BY <1>2, <1>3 DEF DialFails, IInv, TypeOK, world, tasks, bans
<1>6. DialIsOnly' /\ ConnectedIsWatched'
  BY <1>3, <1>4 DEF IInv, DialIsOnly, ConnectedIsWatched
<1>7. \A g \in Hosts : g # h => InForce(g)' = InForce(g)
  BY <1>2, <1>4 DEF InForce
<1>8. "in" \in InForce(h)' => "in" \in InForce(h)
  BY <1>2, <1>4 DEF InForce
<1>9. InboundHolds'
  BY <1>4, <1>7, <1>8 DEF IInv, InboundHolds
<1>10. BothHold'
  <2> SUFFICES ASSUME NEW g \in Hosts, InForce(g)' = Directions, g \notin banning, Reached(g)'
               PROVE  g \in slipped
    BY <1>4 DEF BothHold
  <2>1. CASE g # h
    BY <1>3, <1>4, <1>7, <2>1 DEF IInv, BothHold, Reached
  <2>2. CASE g = h
    <3>1. "in" \in InForce(h)
      BY <1>8, <2>2 DEF Directions
    <3>2. conn[h] = "in" \/ h \in accepting
      BY <1>1, <1>3, <1>4, <2>2 DEF Reached, IInv, DialIsOnly, DialFails
    <3> QED BY <2>2, <3>1, <3>2 DEF IInv, InboundHolds
  <2> QED BY <2>1, <2>2
<1> QED BY <1>5, <1>6, <1>9, <1>10 DEF IInv

\* A handshake ends.
LEMMA CompletesKeep ==
  ASSUME IInv, NEW h \in Hosts, DialCompletes(h) \/ AcceptCompletes(h)
  PROVE  IInv'
<1>1. dial \in [Hosts -> {"none", "seed", "refill", "exchange", "rpc"}]
  BY DEF IInv, TypeOK
<1>2. UNCHANGED <<online, faults, banned, whitelist, banning, slipped>>
      /\ UNCHANGED <<seeds, candidates, exchanged, asked>>
  BY DEF DialCompletes, AcceptCompletes, world, tasks, bans
<1>3. CASE conn[h] = "none"
  <2>1. \/ /\ PeerAdded(h, "out") /\ dial[h] # "none" /\ accepting' = accepting
           /\ dial' = [dial EXCEPT ![h] = "none"]
        \/ /\ PeerAdded(h, "in") /\ h \in accepting /\ accepting' = accepting \ {h}
           /\ dial' = dial
    BY <1>3 DEF DialCompletes, AcceptCompletes
  <2>2. /\ conn' \in [Hosts -> {"none", "in", "out"}] /\ known' \subseteq Hosts
        /\ pinger' \in [Hosts -> [Slots -> {"none", "fresh", "stale"}]]
        /\ dial' \in [Hosts -> {"none", "seed", "refill", "exchange", "rpc"}]
        /\ DialIsOnly' /\ BothHold' /\ InboundHolds' /\ ConnectedIsWatched'
    BY <1>2, <1>3, <2>1, AddedKeeps DEF Directions
  <2>3. accepting' \subseteq Hosts
    BY <2>1 DEF IInv, TypeOK
  <2> QED BY <1>2, <2>2, <2>3 DEF IInv, TypeOK
<1>4. CASE conn[h] # "none"
  <2>1. UNCHANGED <<conn, pinger, known>>
    BY <1>4 DEF DialCompletes, AcceptCompletes
  <2>2. accepting' \subseteq accepting
        /\ dial' \in [Hosts -> {"none", "seed", "refill", "exchange", "rpc"}]
        /\ \A g \in Hosts : dial'[g] # "none" => dial[g] # "none"
    BY <1>1 DEF DialCompletes, AcceptCompletes
  <2>3. TypeOK'
    BY <1>2, <2>1, <2>2 DEF IInv, TypeOK
  <2>4. BothHold' /\ InboundHolds'
    BY <1>2, <2>1, <2>2 DEF IInv, BothHold, InboundHolds, InForce, Reached
  <2>5. DialIsOnly' /\ ConnectedIsWatched'
    BY <2>1, <2>2 DEF IInv, DialIsOnly, ConnectedIsWatched
  <2> QED BY <2>3, <2>4, <2>5 DEF IInv
<1> QED BY <1>3, <1>4

\* AcceptPeer passes the gate only if the inbound ban is not in force.
LEMMA AcceptKeeps ==
  ASSUME IInv, NEW h \in Hosts, AcceptPeer(h) \/ AcceptFails(h)
  PROVE  IInv'
<1>1. UNCHANGED <<world, store, conn, dial, tasks, pinger, bans>>
  BY DEF AcceptPeer, AcceptFails
<1>2. UNCHANGED <<online, faults, known, banned, whitelist, conn, dial, seeds, candidates,
                  exchanged, asked, pinger, banning, slipped>>
  BY <1>1 DEF world, store, tasks, bans
<1>3. accepting' \subseteq accepting
      \/ (accepting' = accepting \cup {h} /\ "in" \notin InForce(h))
  BY DEF AcceptPeer, AcceptFails
<1>4. TypeOK'
  BY <1>2, <1>3 DEF IInv, TypeOK
<1>5. "in" \in Directions
  BY DEF Directions
<1>6. BothHold' /\ InboundHolds'
  BY <1>2, <1>3, <1>5 DEF IInv, BothHold, InboundHolds, InForce, Reached
<1>7. DialIsOnly' /\ ConnectedIsWatched'
  BY <1>2 DEF IInv, DialIsOnly, ConnectedIsWatched
<1> QED BY <1>4, <1>6, <1>7 DEF IInv

LEMMA CloseKeeps ==
  ASSUME IInv, NEW h \in Hosts, Break(h) \/ \E i \in Slots : CheckPeer(h, i)
  PROVE  IInv'
<1>1. pinger \in [Hosts -> [Slots -> {"none", "fresh", "stale"}]]
  BY DEF IInv, TypeOK
<1>2. Closed(h) /\ UNCHANGED <<online, store, calls, tasks, banning>>
  BY DEF Break, CheckPeer, world
<1>3. UNCHANGED <<online, known, banned, whitelist, dial, accepting, seeds, candidates,
                  exchanged, asked, banning>>
  BY <1>2 DEF store, calls, tasks
<1>4. pinger' \in [Hosts -> [Slots -> {"none", "fresh", "stale"}]]
      /\ \A g \in Hosts : g # h => pinger'[g] = pinger[g]
  BY <1>1 DEF Break, CheckPeer
<1>5. faults' \in 0..MaxFaults
  BY FaultTyped DEF Break, CheckPeer, world, IInv, TypeOK
<1>6. /\ conn' \in [Hosts -> {"none", "in", "out"}] /\ slipped' \subseteq Hosts
      /\ DialIsOnly' /\ BothHold' /\ InboundHolds' /\ ConnectedIsWatched'
  BY <1>2, <1>3, <1>4, ClosedKeeps
<1> QED BY <1>3, <1>4, <1>5, <1>6 DEF IInv, TypeOK

\* Pingers that go on
LEMMA PingersKeep ==
  ASSUME IInv, NEW h \in Hosts, Heard(h) \/ \E i \in Slots : Silence(h, i)
  PROVE  IInv'
<1>1. pinger \in [Hosts -> [Slots -> {"none", "fresh", "stale"}]]
  BY DEF IInv, TypeOK
<1>2. UNCHANGED <<world, store, conn, calls, tasks, bans>>
  BY DEF Heard, Silence
<1>3. UNCHANGED <<online, faults, known, banned, whitelist, conn, dial, accepting, seeds,
                  candidates, exchanged, asked, banning, slipped>>
  BY <1>2 DEF world, store, calls, tasks, bans
<1>4. CASE Heard(h)
  <2>1. pinger' = [pinger EXCEPT ![h] =
                     [i \in Slots |-> IF pinger[h][i] = "stale" THEN "fresh" ELSE pinger[h][i]]]
    BY <1>4 DEF Heard
  <2>2. pinger' \in [Hosts -> [Slots -> {"none", "fresh", "stale"}]]
    BY <1>1, <2>1
  <2>3. \A g \in Hosts, i \in Slots : pinger[g][i] # "none" => pinger'[g][i] # "none"
    BY <1>1, <2>1
  <2> QED BY <1>3, <2>2, <2>3, Kept DEF IInv, TypeOK, ConnectedIsWatched
<1>5. ASSUME NEW j \in Slots, Silence(h, j) PROVE IInv'
  <2>1. pinger' = [pinger EXCEPT ![h][j] = "stale"]
    BY <1>5 DEF Silence
  <2>2. pinger' \in [Hosts -> [Slots -> {"none", "fresh", "stale"}]]
    BY <1>1, <2>1
  <2>3. \A g \in Hosts, i \in Slots : pinger[g][i] # "none" => pinger'[g][i] # "none"
    BY <1>1, <2>1
  <2> QED BY <1>3, <2>2, <2>3, Kept DEF IInv, TypeOK, ConnectedIsWatched
<1> QED BY <1>4, <1>5

\* Dials from wherever
LEMMA DialsKeep ==
  ASSUME IInv, NEW h \in Hosts, Dials(h) \/ AddPeer(h)
  PROVE  IInv'
<1>1. UNCHANGED <<online, known, banned, whitelist, conn, accepting, asked, pinger,
                  banning, slipped>>
  BY DEF Dials, DialSeed, RefillDial, ExchangeDial, AddPeer, world, store, bans, tasks
<1>2. faults' \in 0..MaxFaults
  BY FaultTyped DEF Dials, DialSeed, RefillDial, ExchangeDial, AddPeer, world, IInv, TypeOK
<1>3. seeds' \subseteq seeds /\ candidates' \subseteq candidates /\ exchanged' \subseteq exchanged
  BY DEF Dials, DialSeed, RefillDial, ExchangeDial, AddPeer, tasks
<1>4. dial' = dial \/ \E by \in {"seed", "refill", "exchange", "rpc"} : DialPeer(h, by)
  BY DEF Dials, DialSeed, RefillDial, ExchangeDial, AddPeer
<1>5. /\ dial' \in [Hosts -> {"none", "seed", "refill", "exchange", "rpc"}]
      /\ DialIsOnly' /\ BothHold' /\ InboundHolds' /\ ConnectedIsWatched'
  <2>1. CASE dial' = dial
    BY <1>1, <2>1 DEF IInv, TypeOK, DialIsOnly, BothHold, InboundHolds, ConnectedIsWatched,
                      InForce, Reached
  <2>2. CASE \E by \in {"seed", "refill", "exchange", "rpc"} : DialPeer(h, by)
    BY <1>1, <2>2, DialKeeps
  <2> QED BY <1>4, <2>1, <2>2
<1>6. TypeOK'
  BY <1>1, <1>2, <1>3, <1>5 DEF IInv, TypeOK
<1> QED BY <1>5, <1>6 DEF IInv

\* The world, the refills and the requests
LEMMA OthersKeep ==
  ASSUME IInv,
         \/ \E h \in Hosts : GoOffline(h) \/ ComeOnline(h) \/ RequestExpires(h) \/ HandlePeerRes(h)
         \/ RefillPeers \/ RequestPeers \/ UNCHANGED vars
  PROVE  IInv'
<1>1. UNCHANGED <<known, banned, whitelist, conn, dial, accepting, seeds, pinger, banning,
                  slipped>>
  BY DEF GoOffline, ComeOnline, RequestExpires, HandlePeerRes, RefillPeers, RequestPeers, vars,
         world, store, calls, tasks, bans, volatile
<1>2. faults' \in 0..MaxFaults
  BY FaultTyped DEF GoOffline, ComeOnline, RequestExpires, HandlePeerRes, RefillPeers,
                    RequestPeers, vars, world, IInv, TypeOK
<1>3. online' \subseteq Hosts
  BY DEF GoOffline, ComeOnline, RequestExpires, HandlePeerRes, RefillPeers, RequestPeers, vars,
         world, IInv, TypeOK
<1>4. candidates' \subseteq Hosts
  BY DEF GoOffline, ComeOnline, RequestExpires, HandlePeerRes, RefillPeers, RequestPeers, vars,
         volatile, tasks, IInv, TypeOK, NotConnected, Stream
<1>5. exchanged' \subseteq Hosts
  BY ListsTyped DEF GoOffline, ComeOnline, RequestExpires, HandlePeerRes, RefillPeers,
         RequestPeers, vars, volatile, tasks, IInv, TypeOK
<1>6. asked' \subseteq Hosts
  BY DEF GoOffline, ComeOnline, RequestExpires, HandlePeerRes, RefillPeers, RequestPeers, vars,
         volatile, tasks, IInv, TypeOK
<1>7. TypeOK'
  BY <1>1, <1>2, <1>3, <1>4, <1>5, <1>6 DEF IInv, TypeOK
<1> QED BY <1>1, <1>7, Kept DEF IInv, ConnectedIsWatched

LEMMA NextKeeps ==
  ASSUME IInv, [Next]_vars
  PROVE  IInv'
<1>1. ASSUME NEW h \in Hosts,
             \/ GoOffline(h) \/ ComeOnline(h) \/ AcceptPeer(h) \/ Break(h)
             \/ BanPeer(h) \/ BanPeerCloses(h) \/ UnbanPeer(h) \/ AddPeer(h)
             \/ \E dir \in Directions : BanExpires(h, dir)
             \/ DialEnds(h) \/ AcceptEnds(h) \/ Dials(h)
             \/ Heard(h) \/ \E i \in Slots : Watch(h, i)
             \/ RequestExpires(h) \/ HandlePeerRes(h)
      PROVE  IInv'
  <2>1. CASE GoOffline(h) \/ ComeOnline(h) \/ RequestExpires(h) \/ HandlePeerRes(h)
    BY <2>1, OthersKeep
  <2>2. CASE AcceptPeer(h) \/ AcceptEnds(h)
    BY <2>2, AcceptKeeps, CompletesKeep DEF AcceptEnds
  <2>3. CASE DialEnds(h)
    BY <2>3, CompletesKeep, DialFailsKeeps DEF DialEnds
  <2>4. CASE BanPeer(h) \/ BanPeerCloses(h)
    BY <2>4, BanPeerKeeps, BanPeerClosesKeeps
  <2>5. CASE UnbanPeer(h) \/ \E dir \in Directions : BanExpires(h, dir)
    BY <2>5, UnbanKeeps
  <2>6. CASE Dials(h) \/ AddPeer(h)
    BY <2>6, DialsKeep
  <2>7. CASE Break(h) \/ Heard(h) \/ \E i \in Slots : Watch(h, i)
    BY <2>7, CloseKeeps, PingersKeep DEF Watch
  <2> QED BY <1>1, <2>1, <2>2, <2>3, <2>4, <2>5, <2>6, <2>7
<1>2. ASSUME NEW reset \in BOOLEAN, Restart(reset) PROVE IInv'
  BY <1>2, RestartKeeps
<1>3. CASE RefillPeers \/ RequestPeers \/ UNCHANGED vars
  BY <1>3, OthersKeep
<1> QED BY <1>1, <1>2, <1>3 DEF Next

LEMMA Invariance == Spec => []IInv
BY InitHolds, NextKeeps, PTL DEF Spec

\* The variables keep their types; in particular a seed stays the only kind of
\* host on the whitelist.
THEOREM TypeCorrect == Spec => []TypeOK
<1>1. IInv => TypeOK
  BY DEF IInv
<1> QED BY <1>1, Invariance, PTL

\* A host banned in both directions has no connection once BanPeer has returned,
\* unless its handshake was going on by then, however many dials, refills,
\* exchanges, expiries, unbans and restarts there are.
THEOREM BansAreKept == Spec => []BanHolds
<1>1. IInv => BanHolds
  BY DEF IInv, BothHold, BanHolds, Reached
<1> QED BY <1>1, Invariance, PTL

\* Every connection has a pinger, although the pinger of an earlier connection
\* to the host may close it.
THEOREM Watched == Spec => []ConnectedIsWatched
<1>1. IInv => ConnectedIsWatched
  BY DEF IInv
<1> QED BY <1>1, Invariance, PTL

=============================================================================
