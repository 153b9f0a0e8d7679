---------------------------- MODULE MCConnection ----------------------------
(* Instance of Connection for TLC: nodes that differ in one respect, and a message   *)
(* of every type that is sent after the handshake.                                   *)
EXTENDS Connection

CONSTANTS out, in, k1, k2, h1, h2, s1

MCEnds == <<out, in>>

Dialer   == [magic |-> 1, version |-> 1, key |-> k1, clock |-> 5]
Listener == [Dialer EXCEPT !.key = k2]
MCNodes  ==
  [e \in {out, in} |->
     IF e = out THEN {Dialer}
     ELSE {Listener, [Listener EXCEPT !.version = 0], [Listener EXCEPT !.version = 2],
           [Listener EXCEPT !.magic = 2], [Listener EXCEPT !.clock = 9]}]

Update == [type |-> "Update", body |-> [Name |-> "n", EpochHeight |-> 3, SectorSize |-> 4]]

PeerRes ==
  [type |-> "PeerRes",
   body |-> [Peers |-> <<[IP |-> [bytes |-> 4, addr |-> "a"], ID |-> h1],
                         [IP |-> [bytes |-> 16, addr |-> "b"], ID |-> h2]>>]]

MCScript == [e \in {out, in} |-> IF e = out THEN <<Update>> ELSE <<PeerRes>>]

MCMessages ==
  {Update, PeerRes,
   [type |-> "Ping", body |-> <<>>],
   [type |-> "PeerReq", body |-> <<>>],
   [type |-> "Hello", body |-> [ProtocolVersion |-> 1, LocalNonce |-> h1, RemoteNonce |-> h2,
                                PublicKey |-> k1, UserAgent |-> "fnd"]],
   [type |-> "HelloAck", body |-> [Nonce |-> h1]],
   [type |-> "NilUpdate", body |-> [Name |-> "n"]],
   [type |-> "UpdateReq", body |-> [Name |-> "n", EpochHeight |-> 3, SectorSize |-> 4]],
   [type |-> "BlobReq", body |-> [Name |-> "n", EpochHeight |-> 3, SectorSize |-> 4]],
   [type |-> "BlobRes",
    body |-> [Name |-> "n", EpochHeight |-> 3, PayloadPosition |-> 1, PrevHash |-> h1,
              ReservedRoot |-> h2, Payload |-> <<s1>>, Signature |-> k1]],
   [type |-> "EquivocationProof",
    body |-> [Name |-> "n", RemoteEpochHeight |-> 3, RemotePayloadPosition |-> 1,
              RemotePrevHash |-> h1, RemoteReservedRoot |-> h2, RemotePayload |-> <<s1>>,
              RemoteSignature |-> k1, LocalEpochHeight |-> 4, LocalSectorSize |-> 2,
              LocalSectorTipHash |-> h2, LocalReservedRoot |-> h1, LocalSignature |-> k2]]}

=============================================================================
