-------------------------------- MODULE Wire --------------------------------
(***************************************************************************)
(* The wire format (wire/*.go): what the Encode and Decode of the messages *)
(* and of the envelope do, field by field.                                 *)
(*                                                                         *)
(* An encoding is a sequence of tokens [w, v]: the layout w of a field on  *)
(* the wire and its value v.  Every type lists its fields twice, once for  *)
(* Encode and once for Decode, and nothing but these lists keeps the two   *)
(* ends of a connection in step: decoding fails where the layouts differ,  *)
(* and mixes values up where only the order does.  Of dwire (vendored), a  *)
(* token is what it writes for one field.  Times count half seconds, and   *)
(* are sent as seconds.                                                    *)
(***************************************************************************)
EXTENDS Integers, Sequences

\* dwire.EncodeFields: the fields of a message, each with its layout
EncodeFields(fields, m) ==
  [i \in DOMAIN fields |-> [w |-> fields[i][1], v |-> m[fields[i][2]]]]

\* dwire.DecodeFields: reads as many tokens as there are fields, leaving the rest
Decodable(fields, raw) ==
  /\ Len(fields) <= Len(raw)
  /\ \A i \in DOMAIN fields : fields[i][1] = raw[i].w

FieldNames(fields) == {fields[i][2] : i \in DOMAIN fields}

DecodeFields(fields, raw) ==
  [f \in FieldNames(fields) |-> raw[CHOOSE i \in DOMAIN fields : fields[i][2] = f].v]

----------------------------------------------------------------------------
(* The messages *)

HelloEncode ==
  <<<<"u32", "ProtocolVersion">>, <<"32", "LocalNonce">>, <<"32", "RemoteNonce">>,
    <<"33", "PublicKey">>, <<"string", "UserAgent">>>>
HelloDecode ==
  <<<<"u32", "ProtocolVersion">>, <<"32", "LocalNonce">>, <<"32", "RemoteNonce">>,
    <<"33", "PublicKey">>, <<"string", "UserAgent">>>>

HelloAckEncode == <<<<"32", "Nonce">>>>
HelloAckDecode == <<<<"32", "Nonce">>>>

PingEncode == <<>>
PingDecode == <<>>

\* Mutant: the two numbers of an update are written in the other order.
UpdateEncodeSwapped ==
  <<<<"string", "Name">>, <<"u16", "SectorSize">>, <<"u16", "EpochHeight">>>>

UpdateEncode ==
  <<<<"string", "Name">>, <<"u16", "EpochHeight">>, <<"u16", "SectorSize">>>>
UpdateDecode ==
  <<<<"string", "Name">>, <<"u16", "EpochHeight">>, <<"u16", "SectorSize">>>>

NilUpdateEncode == <<<<"string", "Name">>>>
NilUpdateDecode == <<<<"string", "Name">>>>

BlobReqEncode ==
  <<<<"string", "Name">>, <<"u16", "EpochHeight">>, <<"u16", "SectorSize">>>>
BlobReqDecode ==
  <<<<"string", "Name">>, <<"u16", "EpochHeight">>, <<"u16", "SectorSize">>>>

BlobResEncode ==
  <<<<"string", "Name">>, <<"u16", "EpochHeight">>, <<"u16", "PayloadPosition">>,
    <<"32", "PrevHash">>, <<"32", "ReservedRoot">>, <<"sectors", "Payload">>,
    <<"65", "Signature">>>>
BlobResDecode ==
  <<<<"string", "Name">>, <<"u16", "EpochHeight">>, <<"u16", "PayloadPosition">>,
    <<"32", "PrevHash">>, <<"32", "ReservedRoot">>, <<"sectors", "Payload">>,
    <<"65", "Signature">>>>

PeerReqEncode == <<>>
PeerReqDecode == <<>>

UpdateReqEncode ==
  <<<<"string", "Name">>, <<"u16", "EpochHeight">>, <<"u16", "SectorSize">>>>
UpdateReqDecode ==
  <<<<"string", "Name">>, <<"u16", "EpochHeight">>, <<"u16", "SectorSize">>>>

EquivocationProofEncode ==
  <<<<"string", "Name">>, <<"u16", "RemoteEpochHeight">>,
    <<"u16", "RemotePayloadPosition">>, <<"32", "RemotePrevHash">>,
    <<"32", "RemoteReservedRoot">>, <<"sectors", "RemotePayload">>,
    <<"65", "RemoteSignature">>, <<"u16", "LocalEpochHeight">>,
    <<"u16", "LocalSectorSize">>, <<"32", "LocalSectorTipHash">>,
    <<"32", "LocalReservedRoot">>, <<"65", "LocalSignature">>>>
EquivocationProofDecode ==
  <<<<"string", "Name">>, <<"u16", "RemoteEpochHeight">>,
    <<"u16", "RemotePayloadPosition">>, <<"32", "RemotePrevHash">>,
    <<"32", "RemoteReservedRoot">>, <<"sectors", "RemotePayload">>,
    <<"65", "RemoteSignature">>, <<"u16", "LocalEpochHeight">>,
    <<"u16", "LocalSectorSize">>, <<"32", "LocalSectorTipHash">>,
    <<"32", "LocalReservedRoot">>, <<"65", "LocalSignature">>>>

\* A peer in a PeerRes.  An address of four bytes is written as one of sixteen.
PeerEncode(p) == <<[w |-> "16", v |-> [p.IP EXCEPT !.bytes = 16]], [w |-> "32", v |-> p.ID]>>
PeerDecode(raw) == [IP |-> raw[1].v, ID |-> raw[2].v]

PeerResEncode(m) == <<[w |-> "peers", v |-> [i \in DOMAIN m.Peers |-> PeerEncode(m.Peers[i])]]>>
PeerResDecode(raw) ==
  [Peers |-> [i \in DOMAIN raw[1].v |-> PeerDecode(raw[1].v[i])]]

----------------------------------------------------------------------------
(* The envelope *)

MessageTypes ==
  [Hello |-> 0, HelloAck |-> 1, Ping |-> 2, Update |-> 3, NilUpdate |-> 4,
   BlobReq |-> 5, BlobRes |-> 6, PeerReq |-> 7, PeerRes |-> 8, UpdateReq |-> 9,
   NameRes |-> 10, EquivocationProof |-> 11]

Encoders ==
  [Hello |-> HelloEncode, HelloAck |-> HelloAckEncode, Ping |-> PingEncode,
   Update |-> UpdateEncode, NilUpdate |-> NilUpdateEncode, BlobReq |-> BlobReqEncode,
   BlobRes |-> BlobResEncode, PeerReq |-> PeerReqEncode, UpdateReq |-> UpdateReqEncode,
   EquivocationProof |-> EquivocationProofEncode]

\* The switch of Envelope.Decode; NameRes has no case.
Decoders ==
  [Hello |-> HelloDecode, HelloAck |-> HelloAckDecode, Ping |-> PingDecode,
   Update |-> UpdateDecode, NilUpdate |-> NilUpdateDecode, BlobReq |-> BlobReqDecode,
   BlobRes |-> BlobResDecode, PeerReq |-> PeerReqDecode, UpdateReq |-> UpdateReqDecode,
   EquivocationProof |-> EquivocationProofDecode]

TypeOf(code) == CHOOSE t \in DOMAIN MessageTypes : MessageTypes[t] = code

\* A message has the fields of its type, and no others.
IsMessage(t, m) ==
  IF t = "PeerRes"
  THEN \A i \in DOMAIN m.Peers :
         LET ip == m.Peers[i].IP IN ip = [bytes |-> ip.bytes, addr |-> ip.addr]
  ELSE t \in DOMAIN Encoders /\ m = [f \in FieldNames(Encoders[t]) |-> m[f]]

EncodeMessage(t, m) == IF t = "PeerRes" THEN PeerResEncode(m) ELSE EncodeFields(Encoders[t], m)

EncodeTime(t) == t \div 2
DecodeTime(s) == 2 * s

\* Mutant: the hash is of the time itself, which is not what is sent.
HashOfTime(e) == <<e.Magic, e.MessageType, e.Timestamp, <<>>>>

\* What the signature is over: the magic, the type, the seconds, and a buffer that is
\* still empty when its bytes are taken.
EnvelopeHash(e) == <<e.Magic, e.MessageType, EncodeTime(e.Timestamp), <<>>>>

NewEnvelope(magic, t, m, key, now) ==
  LET e == [Magic |-> magic, MessageType |-> MessageTypes[t], Timestamp |-> now, Message |-> m]
  IN  [Magic |-> e.Magic, MessageType |-> e.MessageType, Timestamp |-> e.Timestamp,
       Message |-> m, Signature |-> [by |-> key, over |-> EnvelopeHash(e)]]

EncodeEnvelope(e) ==
  <<[w |-> "u32", v |-> e.Magic], [w |-> "u16", v |-> e.MessageType],
    [w |-> "u32", v |-> EncodeTime(e.Timestamp)],
    [w |-> "string", v |-> EncodeMessage(TypeOf(e.MessageType), e.Message)],
    [w |-> "65", v |-> e.Signature]>>

\* The layouts fit: the envelope's, and those of the message of its type.
EnvelopeDecodable(raw) ==
  /\ [i \in DOMAIN raw |-> raw[i].w] = <<"u32", "u16", "u32", "string", "65">>
  /\ LET t == TypeOf(raw[2].v) IN
     \/ t = "PeerRes"
     \/ t \in DOMAIN Decoders /\ Decodable(Decoders[t], raw[4].v)

DecodeEnvelope(raw) ==
  LET t == TypeOf(raw[2].v) IN
  [Magic |-> raw[1].v, MessageType |-> raw[2].v,
   Timestamp |-> DecodeTime(raw[3].v),
   Message |-> IF t = "PeerRes" THEN PeerResDecode(raw[4].v)
               ELSE DecodeFields(Decoders[t], raw[4].v),
   Signature |-> raw[5].v]

\* What an envelope means to its receiver: addresses are compared by net.IP.Equal, and
\* times to the second.
Meaning(e) ==
  [magic |-> e.Magic, type |-> e.MessageType, seconds |-> EncodeTime(e.Timestamp),
   signature |-> e.Signature,
   message |-> IF TypeOf(e.MessageType) # "PeerRes" THEN e.Message
               ELSE [i \in DOMAIN e.Message.Peers |->
                       <<e.Message.Peers[i].IP.addr, e.Message.Peers[i].ID>>]]

=============================================================================
