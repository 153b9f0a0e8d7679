-------------------------- MODULE Connection_proofs --------------------------
(***************************************************************************)
(* Proofs about Connection, for any nodes, scripts, buffers and deadlines. *)
(***************************************************************************)
EXTENDS Connection, SequenceTheorems, TLAPS

----------------------------------------------------------------------------
(* The codec *)

\* The types of messages have different numbers.
LEMMA TypesDiffer ==
  ASSUME NEW t \in DOMAIN MessageTypes
  PROVE  TypeOf(MessageTypes[t]) = t
<1>1. \A u \in DOMAIN MessageTypes : MessageTypes[u] = MessageTypes[t] => u = t
  BY DEF MessageTypes
<1>2. TypeOf(MessageTypes[t]) \in DOMAIN MessageTypes
      /\ MessageTypes[TypeOf(MessageTypes[t])] = MessageTypes[t]
  BY DEF TypeOf
<1> QED BY <1>1, <1>2

\* What is decoded by the fields that it was encoded by is the message, if the fields
\* have different names.
LEMMA FieldsRoundTrip ==
  ASSUME NEW fields, NEW n \in Nat, DOMAIN fields = 1..n,
         \A i, j \in 1..n : fields[i][2] = fields[j][2] => i = j,
         NEW m, m = [f \in FieldNames(fields) |-> m[f]]
  PROVE  DecodeFields(fields, EncodeFields(fields, m)) = m
<1> DEFINE raw == EncodeFields(fields, m)
<1> DEFINE k(f) == CHOOSE i \in DOMAIN fields : fields[i][2] = f
<1>1. \A i \in 1..n : raw[i].v = m[fields[i][2]]
  BY DEF EncodeFields
<1>2. \A f \in FieldNames(fields) : k(f) \in 1..n /\ fields[k(f)][2] = f
  BY DEF FieldNames
<1>3. DecodeFields(fields, raw) = [f \in FieldNames(fields) |-> raw[k(f)].v]
  BY DEF DecodeFields
<1> HIDE DEF raw, k
<1>4. \A f \in FieldNames(fields) : raw[k(f)].v = m[f]
  BY <1>1, <1>2
<1>5. [f \in FieldNames(fields) |-> raw[k(f)].v] = [f \in FieldNames(fields) |-> m[f]]
  BY <1>4
<1> QED BY <1>3, <1>5 DEF raw

\* A list of n fields with different names
Layout(fields, n) ==
  /\ DOMAIN fields = 1..n /\ Len(fields) = n
  /\ \A i, j \in 1..n : fields[i][2] = fields[j][2] => i = j

\* Hello: as Encode writes its fields, Decode reads them.
LEMMA HelloLayout == Layout(HelloEncode, 5) /\ HelloDecode = HelloEncode
<1>1. DOMAIN HelloEncode = 1..5 /\ Len(HelloEncode) = 5
  BY DEF HelloEncode
<1>2. /\ HelloEncode[1][2] = "ProtocolVersion" /\ HelloEncode[2][2] = "LocalNonce"
      /\ HelloEncode[3][2] = "RemoteNonce" /\ HelloEncode[4][2] = "PublicKey"
      /\ HelloEncode[5][2] = "UserAgent"
  BY DEF HelloEncode
<1>3. \A i, j \in 1..5 : HelloEncode[i][2] = HelloEncode[j][2] => i = j
  BY <1>2
<1>4. HelloDecode = HelloEncode
  BY DEF HelloDecode, HelloEncode
<1> QED BY <1>1, <1>3, <1>4 DEF Layout

\* HelloAck: as Encode writes its fields, Decode reads them.
LEMMA HelloAckLayout == Layout(HelloAckEncode, 1) /\ HelloAckDecode = HelloAckEncode
BY DEF Layout, HelloAckEncode, HelloAckDecode

\* Ping: as Encode writes its fields, Decode reads them.
LEMMA PingLayout == Layout(PingEncode, 0) /\ PingDecode = PingEncode
BY DEF Layout, PingEncode, PingDecode

\* Update: as Encode writes its fields, Decode reads them.
LEMMA UpdateLayout == Layout(UpdateEncode, 3) /\ UpdateDecode = UpdateEncode
<1>1. DOMAIN UpdateEncode = 1..3 /\ Len(UpdateEncode) = 3
  BY DEF UpdateEncode
<1>2. /\ UpdateEncode[1][2] = "Name" /\ UpdateEncode[2][2] = "EpochHeight"
      /\ UpdateEncode[3][2] = "SectorSize"
  BY DEF UpdateEncode
<1>3. \A i, j \in 1..3 : UpdateEncode[i][2] = UpdateEncode[j][2] => i = j
  BY <1>2
<1>4. UpdateDecode = UpdateEncode
  BY DEF UpdateDecode, UpdateEncode
<1> QED BY <1>1, <1>3, <1>4 DEF Layout

\* NilUpdate: as Encode writes its fields, Decode reads them.
LEMMA NilUpdateLayout == Layout(NilUpdateEncode, 1) /\ NilUpdateDecode = NilUpdateEncode
BY DEF Layout, NilUpdateEncode, NilUpdateDecode

\* BlobReq: as Encode writes its fields, Decode reads them.
LEMMA BlobReqLayout == Layout(BlobReqEncode, 3) /\ BlobReqDecode = BlobReqEncode
<1>1. DOMAIN BlobReqEncode = 1..3 /\ Len(BlobReqEncode) = 3
  BY DEF BlobReqEncode
<1>2. /\ BlobReqEncode[1][2] = "Name" /\ BlobReqEncode[2][2] = "EpochHeight"
      /\ BlobReqEncode[3][2] = "SectorSize"
  BY DEF BlobReqEncode
<1>3. \A i, j \in 1..3 : BlobReqEncode[i][2] = BlobReqEncode[j][2] => i = j
  BY <1>2
<1>4. BlobReqDecode = BlobReqEncode
  BY DEF BlobReqDecode, BlobReqEncode
<1> QED BY <1>1, <1>3, <1>4 DEF Layout

\* BlobRes: as Encode writes its fields, Decode reads them.
LEMMA BlobResLayout == Layout(BlobResEncode, 7) /\ BlobResDecode = BlobResEncode
<1>1. DOMAIN BlobResEncode = 1..7 /\ Len(BlobResEncode) = 7
  BY DEF BlobResEncode
<1>2. /\ BlobResEncode[1][2] = "Name" /\ BlobResEncode[2][2] = "EpochHeight"
      /\ BlobResEncode[3][2] = "PayloadPosition" /\ BlobResEncode[4][2] = "PrevHash"
      /\ BlobResEncode[5][2] = "ReservedRoot" /\ BlobResEncode[6][2] = "Payload"
      /\ BlobResEncode[7][2] = "Signature"
  BY DEF BlobResEncode
<1>3. \A i, j \in 1..7 : BlobResEncode[i][2] = BlobResEncode[j][2] => i = j
  BY <1>2
<1>4. BlobResDecode = BlobResEncode
  BY DEF BlobResDecode, BlobResEncode
<1> QED BY <1>1, <1>3, <1>4 DEF Layout

\* PeerReq: as Encode writes its fields, Decode reads them.
LEMMA PeerReqLayout == Layout(PeerReqEncode, 0) /\ PeerReqDecode = PeerReqEncode
BY DEF Layout, PeerReqEncode, PeerReqDecode

\* UpdateReq: as Encode writes its fields, Decode reads them.
LEMMA UpdateReqLayout == Layout(UpdateReqEncode, 3) /\ UpdateReqDecode = UpdateReqEncode
<1>1. DOMAIN UpdateReqEncode = 1..3 /\ Len(UpdateReqEncode) = 3
  BY DEF UpdateReqEncode
<1>2. /\ UpdateReqEncode[1][2] = "Name" /\ UpdateReqEncode[2][2] = "EpochHeight"
      /\ UpdateReqEncode[3][2] = "SectorSize"
  BY DEF UpdateReqEncode
<1>3. \A i, j \in 1..3 : UpdateReqEncode[i][2] = UpdateReqEncode[j][2] => i = j
  BY <1>2
<1>4. UpdateReqDecode = UpdateReqEncode
  BY DEF UpdateReqDecode, UpdateReqEncode
<1> QED BY <1>1, <1>3, <1>4 DEF Layout

\* EquivocationProof: as Encode writes its fields, Decode reads them.
LEMMA EquivocationProofLayout == Layout(EquivocationProofEncode, 12) /\ EquivocationProofDecode = EquivocationProofEncode
<1>1. DOMAIN EquivocationProofEncode = 1..12 /\ Len(EquivocationProofEncode) = 12
  BY DEF EquivocationProofEncode
<1>2. /\ EquivocationProofEncode[1][2] = "Name"
      /\ EquivocationProofEncode[2][2] = "RemoteEpochHeight"
      /\ EquivocationProofEncode[3][2] = "RemotePayloadPosition"
      /\ EquivocationProofEncode[4][2] = "RemotePrevHash"
      /\ EquivocationProofEncode[5][2] = "RemoteReservedRoot"
      /\ EquivocationProofEncode[6][2] = "RemotePayload"
      /\ EquivocationProofEncode[7][2] = "RemoteSignature"
      /\ EquivocationProofEncode[8][2] = "LocalEpochHeight"
      /\ EquivocationProofEncode[9][2] = "LocalSectorSize"
      /\ EquivocationProofEncode[10][2] = "LocalSectorTipHash"
      /\ EquivocationProofEncode[11][2] = "LocalReservedRoot"
      /\ EquivocationProofEncode[12][2] = "LocalSignature"
  BY DEF EquivocationProofEncode
<1>3. \A i, j \in 1..12 : EquivocationProofEncode[i][2] = EquivocationProofEncode[j][2] => i = j
  BY <1>2
<1>4. EquivocationProofDecode = EquivocationProofEncode
  BY DEF EquivocationProofDecode, EquivocationProofEncode
<1> QED BY <1>1, <1>3, <1>4 DEF Layout

\* Encode and Decode of every type list the same fields, with different names.
LEMMA CodecsAgree ==
  ASSUME NEW t \in DOMAIN Encoders
  PROVE  /\ t \in DOMAIN Decoders /\ Decoders[t] = Encoders[t]
         /\ \E n \in Nat : Layout(Encoders[t], n)
<1>1. CASE t = "Hello"
  <2>1. Encoders[t] = HelloEncode /\ Decoders[t] = HelloDecode /\ t \in DOMAIN Decoders
    BY <1>1 DEF Encoders, Decoders
  <2> QED BY <2>1, HelloLayout
<1>2. CASE t = "HelloAck"
  <2>1. Encoders[t] = HelloAckEncode /\ Decoders[t] = HelloAckDecode /\ t \in DOMAIN Decoders
    BY <1>2 DEF Encoders, Decoders
  <2> QED BY <2>1, HelloAckLayout
<1>3. CASE t = "Ping"
  <2>1. Encoders[t] = PingEncode /\ Decoders[t] = PingDecode /\ t \in DOMAIN Decoders
    BY <1>3 DEF Encoders, Decoders
  <2> QED BY <2>1, PingLayout
<1>4. CASE t = "Update"
  <2>1. Encoders[t] = UpdateEncode /\ Decoders[t] = UpdateDecode /\ t \in DOMAIN Decoders
    BY <1>4 DEF Encoders, Decoders
  <2> QED BY <2>1, UpdateLayout
<1>5. CASE t = "NilUpdate"
  <2>1. Encoders[t] = NilUpdateEncode /\ Decoders[t] = NilUpdateDecode /\ t \in DOMAIN Decoders
    BY <1>5 DEF Encoders, Decoders
  <2> QED BY <2>1, NilUpdateLayout
<1>6. CASE t = "BlobReq"
  <2>1. Encoders[t] = BlobReqEncode /\ Decoders[t] = BlobReqDecode /\ t \in DOMAIN Decoders
    BY <1>6 DEF Encoders, Decoders
  <2> QED BY <2>1, BlobReqLayout
<1>7. CASE t = "BlobRes"
  <2>1. Encoders[t] = BlobResEncode /\ Decoders[t] = BlobResDecode /\ t \in DOMAIN Decoders
    BY <1>7 DEF Encoders, Decoders
  <2> QED BY <2>1, BlobResLayout
<1>8. CASE t = "PeerReq"
  <2>1. Encoders[t] = PeerReqEncode /\ Decoders[t] = PeerReqDecode /\ t \in DOMAIN Decoders
    BY <1>8 DEF Encoders, Decoders
  <2> QED BY <2>1, PeerReqLayout
<1>9. CASE t = "UpdateReq"
  <2>1. Encoders[t] = UpdateReqEncode /\ Decoders[t] = UpdateReqDecode /\ t \in DOMAIN Decoders
    BY <1>9 DEF Encoders, Decoders
  <2> QED BY <2>1, UpdateReqLayout
<1>10. CASE t = "EquivocationProof"
  <2>1. Encoders[t] = EquivocationProofEncode /\ Decoders[t] = EquivocationProofDecode /\ t \in DOMAIN Decoders
    BY <1>10 DEF Encoders, Decoders
  <2> QED BY <2>1, EquivocationProofLayout
<1> QED BY <1>1, <1>2, <1>3, <1>4, <1>5, <1>6, <1>7, <1>8, <1>9, <1>10 DEF Encoders

\* A message that is not a PeerRes is decoded to itself.
LEMMA MessageRoundTrip ==
  ASSUME NEW t, NEW m, IsMessage(t, m), t # "PeerRes"
  PROVE  /\ t \in DOMAIN Decoders
         /\ Decodable(Decoders[t], EncodeMessage(t, m))
         /\ DecodeFields(Decoders[t], EncodeMessage(t, m)) = m
<1> DEFINE fields == Encoders[t]
           raw == EncodeFields(fields, m)
<1>1. t \in DOMAIN Encoders /\ m = [f \in FieldNames(fields) |-> m[f]]
  BY DEF IsMessage
<1>2. t \in DOMAIN Decoders /\ Decoders[t] = fields
  BY <1>1, CodecsAgree
<1>3. PICK n \in Nat : Layout(fields, n)
  BY <1>1, CodecsAgree
<1>4. EncodeMessage(t, m) = raw
  BY DEF EncodeMessage
<1> HIDE DEF fields
<1>5. DecodeFields(fields, raw) = m
  BY <1>1, <1>3, FieldsRoundTrip DEF Layout
<1>6. DOMAIN raw = 1..n /\ \A i \in 1..n : raw[i].w = fields[i][1]
  BY <1>3 DEF EncodeFields, Layout
<1>7. Len(raw) = n
  BY <1>6
<1> HIDE DEF raw
<1>8. Decodable(fields, raw)
  BY <1>3, <1>6, <1>7 DEF Decodable, Layout
<1> QED BY <1>2, <1>4, <1>5, <1>8

\* What a list of peers says: addresses, however many bytes they have, and identities
PeersSaid(m) == [i \in DOMAIN m.Peers |-> <<m.Peers[i].IP.addr, m.Peers[i].ID>>]

\* The addresses of a PeerRes are decoded to equal addresses.
LEMMA PeersRoundTrip ==
  ASSUME NEW m, IsMessage("PeerRes", m)
  PROVE  PeersSaid(PeerResDecode(PeerResEncode(m))) = PeersSaid(m)
<1> DEFINE D == DOMAIN m.Peers
           raw == [i \in D |-> PeerEncode(m.Peers[i])]
           d == [i \in D |-> PeerDecode(raw[i])]
<1>1. PeerResDecode(PeerResEncode(m)).Peers = d
  BY DEF PeerResDecode, PeerResEncode
<1>2. ASSUME NEW i \in D
      PROVE  d[i].IP.addr = m.Peers[i].IP.addr /\ d[i].ID = m.Peers[i].ID
  <2> DEFINE p == m.Peers[i]
  <2>1. p.IP = [bytes |-> p.IP.bytes, addr |-> p.IP.addr]
    BY DEF IsMessage
  <2> DEFINE ip == [p.IP EXCEPT !.bytes = 16]
  <2> HIDE DEF p
  <2>2. ip.addr = p.IP.addr
    BY <2>1
  <2>3. PeerDecode(PeerEncode(p)) = [IP |-> ip, ID |-> p.ID]
    BY DEF PeerDecode, PeerEncode
  <2> HIDE DEF ip
  <2>4. PeerDecode(PeerEncode(p)).IP.addr = p.IP.addr /\ PeerDecode(PeerEncode(p)).ID = p.ID
    BY <2>2, <2>3
  <2> QED BY <2>4 DEF p
<1>3. DOMAIN d = D
  OBVIOUS
<1> HIDE DEF d, D
<1>4. [i \in D |-> <<d[i].IP.addr, d[i].ID>>] = [i \in D |-> <<m.Peers[i].IP.addr, m.Peers[i].ID>>]
  BY <1>2
<1> QED BY <1>1, <1>3, <1>4 DEF PeersSaid, D

\* Cutting the time to seconds takes at most a half second off it.
LEMMA SecondsKept ==
  ASSUME NEW c \in Nat
  PROVE  /\ DecodeTime(EncodeTime(c)) \in Nat
         /\ DecodeTime(EncodeTime(c)) <= c /\ c <= DecodeTime(EncodeTime(c)) + 1
         /\ EncodeTime(DecodeTime(EncodeTime(c))) = EncodeTime(c)
BY DEF DecodeTime, EncodeTime

\* An envelope is decoded to one with the same magic, type and seconds, that means the
\* same and that its sender itself would find valid.
RoundTrip(n, t, m) ==
  LET env == WriteEnvelope(n, t, m)
      dec == DecodeEnvelope(EncodeEnvelope(env))
  IN  /\ EnvelopeDecodable(EncodeEnvelope(env))
      /\ dec.Magic = n.magic /\ dec.MessageType = MessageTypes[t]
      /\ dec.Timestamp = DecodeTime(EncodeTime(n.clock))
      /\ t # "PeerRes" => dec.Message = m
      /\ Meaning(dec) = Meaning(env)
      /\ ValidateEnvelope(n, n.key, dec)

\* Every envelope that a node writes survives the round trip.
LEMMA EnvelopeRoundTrip ==
  ASSUME NEW n, n.clock \in Nat, NEW t \in DOMAIN MessageTypes, NEW m, IsMessage(t, m)
  PROVE  RoundTrip(n, t, m)
<1> DEFINE env == WriteEnvelope(n, t, m)
           raw == EncodeEnvelope(env)
           dec == DecodeEnvelope(raw)
           msg == EncodeMessage(t, m)
           over == <<n.magic, MessageTypes[t], EncodeTime(n.clock), <<>>>>
<1>1. TypeOf(MessageTypes[t]) = t
  BY TypesDiffer
<1>2. /\ env.Magic = n.magic /\ env.MessageType = MessageTypes[t] /\ env.Timestamp = n.clock
      /\ env.Message = m /\ env.Signature = [by |-> n.key, over |-> over]
  BY DEF WriteEnvelope, NewEnvelope, EnvelopeHash
<1> HIDE DEF env
<1>3. raw = <<[w |-> "u32", v |-> n.magic], [w |-> "u16", v |-> MessageTypes[t]],
              [w |-> "u32", v |-> EncodeTime(n.clock)], [w |-> "string", v |-> msg],
              [w |-> "65", v |-> [by |-> n.key, over |-> over]]>>
  BY <1>1, <1>2 DEF EncodeEnvelope
<1> HIDE DEF raw, msg, over
<1>4. /\ raw[1].v = n.magic /\ raw[2].v = MessageTypes[t] /\ raw[3].v = EncodeTime(n.clock)
      /\ raw[4].v = msg /\ raw[5].v = [by |-> n.key, over |-> over]
  BY <1>3
<1>5. [i \in DOMAIN raw |-> raw[i].w] = <<"u32", "u16", "u32", "string", "65">>
  BY <1>3
<1>6. t # "PeerRes" => /\ t \in DOMAIN Decoders
                       /\ Decodable(Decoders[t], msg) /\ DecodeFields(Decoders[t], msg) = m
  BY MessageRoundTrip DEF msg
<1>7. EnvelopeDecodable(raw)
  BY <1>1, <1>4, <1>5, <1>6 DEF EnvelopeDecodable
<1>8. /\ dec.Magic = n.magic /\ dec.MessageType = MessageTypes[t]
      /\ dec.Timestamp = DecodeTime(EncodeTime(n.clock))
      /\ dec.Message = IF t = "PeerRes" THEN PeerResDecode(msg) ELSE DecodeFields(Decoders[t], msg)
      /\ dec.Signature = [by |-> n.key, over |-> over]
  BY <1>1, <1>4 DEF DecodeEnvelope
<1> HIDE DEF dec
<1>9. EncodeTime(dec.Timestamp) = EncodeTime(n.clock)
  BY <1>8, SecondsKept
<1>10. Meaning(dec) = Meaning(env)
  <2>1. CASE t # "PeerRes"
    <3>1. dec.Message = env.Message
      BY <1>2, <1>6, <1>8, <2>1
    <3> QED BY <1>1, <1>2, <1>8, <1>9, <2>1, <3>1 DEF Meaning
  <2>2. CASE t = "PeerRes"
    <3>1. dec.Message = PeerResDecode(PeerResEncode(m))
      BY <1>8, <2>2 DEF msg, EncodeMessage
    <3>2. PeersSaid(dec.Message) = PeersSaid(env.Message)
      BY <1>2, <2>2, <3>1, PeersRoundTrip
    <3> QED BY <1>1, <1>2, <1>8, <1>9, <2>2, <3>2 DEF Meaning, PeersSaid
  <2> QED BY <2>1, <2>2
<1>11. ValidateEnvelope(n, n.key, dec)
  <2>1. dec.Signature = [by |-> n.key, over |-> EnvelopeHash(dec)]
    BY <1>8, <1>9 DEF EnvelopeHash, over
  <2>2. dec.Timestamp >= n.clock - Deadline /\ dec.Timestamp <= n.clock + Deadline
    BY <1>8, SecondsKept, DeadlinePositive
  <2> QED BY <1>8, <2>1, <2>2 DEF ValidateEnvelope
<1>12. t # "PeerRes" => dec.Message = m
  BY <1>6, <1>8
<1> QED BY <1>7, <1>8, <1>10, <1>11, <1>12 DEF env, raw, dec, RoundTrip

----------------------------------------------------------------------------
(* The invariant *)

Wired(v) == DecodeEnvelope(EncodeEnvelope(v))

\* From a sender that has written s to a receiver that has been given g: the envelopes
\* between them are the one in the inbox b and those in the stream st, in that order.
Flow(V, s, st, b, g) ==
  /\ s \in Seq(V)
  /\ st \in Seq({EncodeEnvelope(v) : v \in V})
  /\ b \in Seq({Wired(v) : v \in V})
  /\ g \in Seq({Wired(v) : v \in V})
  /\ Len(b) <= 1
  /\ Len(s) = Len(g) + Len(b) + Len(st)
  /\ \A i \in 1..Len(g) : g[i] = Wired(s[i])
  /\ \A i \in 1..Len(b) : b[i] = Wired(s[Len(g) + i])
  /\ \A i \in 1..Len(st) : st[i] = EncodeEnvelope(s[Len(g) + Len(b) + i])

\* What an end finds out about the other by accepting its Hello
Agreed(e) ==
  LET o == node[Other(e)] IN
  /\ node[e].magic = o.magic
  /\ o.clock - node[e].clock <= Deadline + 1
  /\ node[e].clock - o.clock <= Deadline + 1
  /\ o.version <= node[e].version

\* All an end ever sends: it acknowledges only a Hello that it accepts.
Hellos(e) == {WriteEnvelope(node[e], "Hello", Hello(e, x)) : x \in E \cup {None}}
Acks(e) ==
  {WriteEnvelope(node[e], "HelloAck", [Nonce |-> x]) : x \in IF Agreed(e) THEN E ELSE {}}
Scripted(e) ==
  {WriteEnvelope(node[e], Script[e][i].type, Script[e][i].body) : i \in DOMAIN Script[e]}
Sendable(e) == Hellos(e) \cup Acks(e) \cup Scripted(e)

\* An end that has accepted the other's Hello
Greeted(e) == app[e] \in {"ackSent", "awaitAck", "ready"} \/ (e = In /\ app[e] = "helloSent")

HandshakeOK(e) ==
  /\ app[e] = "ackSent" => e = Out
  /\ app[e] = "awaitAck" => e = In
  /\ Greeted(e) => Agreed(e) /\ theirs[e].PublicKey = node[Other(e)].key
  /\ e = In /\ app[e] = "ready" => node[e].version <= node[Other(e)].version

NodeOK(e)  == node[e] \in Nodes[e]
WantsOK(e) == wants[e] => inbox[e] = <<>>
SendOK(e)  == sendCh[e] \in Seq(Sendable(e))
FlowOK(e)  == Flow(Sendable(e), sent[e], stream[e], inbox[Other(e)], got[Other(e)])

\* The variables that the invariant is about are functions on the two ends.
Typed ==
  /\ DOMAIN app = E /\ DOMAIN theirs = E /\ DOMAIN sendCh = E /\ DOMAIN wants = E
  /\ DOMAIN inbox = E /\ DOMAIN stream = E /\ DOMAIN sent = E /\ DOMAIN got = E

IInv ==
  /\ Typed
  /\ \A e \in E : NodeOK(e) /\ WantsOK(e) /\ SendOK(e) /\ FlowOK(e) /\ HandshakeOK(e)

----------------------------------------------------------------------------
(* What is sent *)

\* The ends
LEMMA TwoEnds ==
  /\ \A e \in E : Other(e) \in E /\ Other(e) # e /\ Other(Other(e)) = e
  /\ \A e, d \in E : d = e \/ d = Other(e)
  /\ In \in E /\ Out \in E /\ Other(In) = Out /\ Other(Out) = In /\ In # Out
BY EndsDistinct DEF E, Other

\* A Hello and an ack have the fields of their types.
LEMMA HandshakeMessages ==
  /\ \A e, x : IsMessage("Hello", Hello(e, x))
  /\ \A x : IsMessage("HelloAck", [Nonce |-> x])
<1>1. FieldNames(HelloEncode)
        = {"ProtocolVersion", "LocalNonce", "RemoteNonce", "PublicKey", "UserAgent"}
  BY DEF FieldNames, HelloEncode
<1>2. FieldNames(HelloAckEncode) = {"Nonce"}
  BY DEF FieldNames, HelloAckEncode
<1>3. /\ Encoders["Hello"] = HelloEncode /\ Encoders["HelloAck"] = HelloAckEncode
      /\ {"Hello", "HelloAck"} \subseteq DOMAIN Encoders
  BY DEF Encoders
<1>4. ASSUME NEW e, NEW x PROVE IsMessage("Hello", Hello(e, x))
  <2>1. Hello(e, x) = [f \in FieldNames(Encoders["Hello"]) |-> Hello(e, x)[f]]
    BY <1>1, <1>3 DEF Hello
  <2> QED BY <1>3, <2>1 DEF IsMessage
<1>5. ASSUME NEW x PROVE IsMessage("HelloAck", [Nonce |-> x])
  <2>1. [Nonce |-> x] = [f \in FieldNames(Encoders["HelloAck"]) |-> [Nonce |-> x][f]]
    BY <1>2, <1>3
  <2> QED BY <1>3, <2>1 DEF IsMessage
<1> QED BY <1>4, <1>5

\* What arrives, by its type: the messages of the script are no part of a handshake.
LEMMA SentArrives ==
  ASSUME NEW e \in E, NodeOK(e), NEW v \in Sendable(e)
  PROVE  /\ Wired(v).Magic = node[e].magic
         /\ Wired(v).Timestamp = DecodeTime(EncodeTime(node[e].clock))
         /\ Meaning(Wired(v)) = Meaning(v)
         /\ Wired(v).MessageType = MessageTypes["Hello"] => \E x : Wired(v).Message = Hello(e, x)
         /\ Wired(v).MessageType = MessageTypes["HelloAck"] => Agreed(e)
<1>1. node[e].clock \in Nat
  BY NodesHaveClocks DEF NodeOK
<1>2. /\ {"Hello", "HelloAck"} \subseteq DOMAIN MessageTypes
      /\ MessageTypes["Hello"] # MessageTypes["HelloAck"]
      /\ \A t \in DOMAIN MessageTypes \ {"Hello", "HelloAck"} :
           MessageTypes[t] # MessageTypes["Hello"] /\ MessageTypes[t] # MessageTypes["HelloAck"]
  BY DEF MessageTypes
<1>3. CASE v \in Hellos(e)
  <2>1. PICK x : v = WriteEnvelope(node[e], "Hello", Hello(e, x))
    BY <1>3 DEF Hellos
  <2>2. RoundTrip(node[e], "Hello", Hello(e, x))
    BY <1>1, <1>2, HandshakeMessages, EnvelopeRoundTrip
  <2> QED BY <1>2, <2>1, <2>2 DEF RoundTrip, Wired
<1>4. CASE v \in Acks(e)
  <2>1. PICK x : v = WriteEnvelope(node[e], "HelloAck", [Nonce |-> x]) /\ Agreed(e)
    BY <1>4 DEF Acks
  <2>2. RoundTrip(node[e], "HelloAck", [Nonce |-> x])
    BY <1>1, <1>2, HandshakeMessages, EnvelopeRoundTrip
  <2> QED BY <1>2, <2>1, <2>2 DEF RoundTrip, Wired
<1>5. CASE v \in Scripted(e)
  <2>1. PICK i \in DOMAIN Script[e] :
          v = WriteEnvelope(node[e], Script[e][i].type, Script[e][i].body)
    BY <1>5 DEF Scripted
  <2> DEFINE t == Script[e][i].type
             m == Script[e][i].body
  <2>2. IsMessage(t, m) /\ t \in DOMAIN MessageTypes \ {"Hello", "HelloAck"}
    BY ScriptsAreMessages
  <2> HIDE DEF t, m
  <2>3. RoundTrip(node[e], t, m)
    BY <1>1, <2>2, EnvelopeRoundTrip
  <2>4. v = WriteEnvelope(node[e], t, m)
    BY <2>1 DEF t, m
  <2> QED BY <1>2, <2>2, <2>3, <2>4 DEF RoundTrip, Wired
<1> QED BY <1>3, <1>4, <1>5 DEF Sendable

----------------------------------------------------------------------------
(* The flow of envelopes *)

\* Writing an envelope puts it at the end of the stream.
LEMMA FlowWrite ==
  ASSUME NEW V, NEW s, NEW st, NEW b, NEW g, Flow(V, s, st, b, g), NEW v \in V
  PROVE  Flow(V, Append(s, v), Append(st, EncodeEnvelope(v)), b, g)
<1> DEFINE s2 == Append(s, v)
           t2 == Append(st, EncodeEnvelope(v))
           k == Len(g) + Len(b)
<1>1. s2 \in Seq(V) /\ Len(s2) = Len(s) + 1 /\ s2[Len(s) + 1] = v
      /\ \A i \in 1..Len(s) : s2[i] = s[i]
  BY DEF Flow
<1>2. /\ t2 \in Seq({EncodeEnvelope(u) : u \in V}) /\ Len(t2) = Len(st) + 1
      /\ t2[Len(st) + 1] = EncodeEnvelope(v)
      /\ \A i \in 1..Len(st) : t2[i] = st[i]
  BY DEF Flow
<1>3. Len(g) \in Nat /\ Len(b) \in Nat /\ Len(st) \in Nat /\ Len(s) = k + Len(st) /\ k \in Nat
  BY DEF Flow
<1> HIDE DEF s2, t2
<1>4. \A i \in 1..Len(g) : g[i] = Wired(s2[i])
  BY <1>1, <1>3 DEF Flow
<1>5. \A i \in 1..Len(b) : b[i] = Wired(s2[Len(g) + i])
  BY <1>1, <1>3 DEF Flow
<1>6. ASSUME NEW i \in 1..Len(t2) PROVE t2[i] = EncodeEnvelope(s2[k + i])
  <2>1. CASE i = Len(st) + 1
    BY <1>1, <1>2, <1>3, <2>1
  <2>2. CASE i \in 1..Len(st)
    <3>1. st[i] = EncodeEnvelope(s[k + i]) /\ k + i \in 1..Len(s)
      BY <1>3, <2>2 DEF Flow
    <3> QED BY <1>1, <1>2, <2>2, <3>1
  <2> QED BY <1>2, <1>3, <2>1, <2>2
<1>7. Len(s2) = Len(g) + Len(b) + Len(t2)
  BY <1>1, <1>2, <1>3
<1> QED BY <1>1, <1>2, <1>4, <1>5, <1>6, <1>7 DEF Flow, s2, t2

\* Reading puts the envelope at the head of the stream into the empty inbox.
LEMMA FlowRead ==
  ASSUME NEW V, NEW s, NEW st, NEW g, Flow(V, s, st, <<>>, g), st # <<>>
  PROVE  Flow(V, s, Tail(st), <<DecodeEnvelope(Head(st))>>, g)
<1> DEFINE t2 == Tail(st)
           h == Head(st)
           b2 == <<DecodeEnvelope(h)>>
<1>1. Len(g) \in Nat /\ Len(st) \in Nat \ {0} /\ Len(s) = Len(g) + Len(st) /\ s \in Seq(V)
  BY EmptySeq DEF Flow
<1>2. /\ t2 \in Seq({EncodeEnvelope(v) : v \in V}) /\ Len(t2) = Len(st) - 1
      /\ \A i \in 1..Len(t2) : t2[i] = st[i + 1]
  BY <1>1 DEF Flow
<1>3. h = st[1] /\ st[1] = EncodeEnvelope(s[Len(g) + 1]) /\ s[Len(g) + 1] \in V
  BY <1>1 DEF Flow
<1>4. DecodeEnvelope(h) = Wired(s[Len(g) + 1])
  BY <1>3 DEF Wired
<1> HIDE DEF t2, h
<1>5. b2 \in Seq({Wired(v) : v \in V}) /\ Len(b2) = 1 /\ b2[1] = Wired(s[Len(g) + 1])
  BY <1>3, <1>4
<1> HIDE DEF b2
<1>6. \A i \in 1..Len(b2) : b2[i] = Wired(s[Len(g) + i])
  BY <1>1, <1>5
<1>7. ASSUME NEW i \in 1..Len(t2) PROVE t2[i] = EncodeEnvelope(s[Len(g) + Len(b2) + i])
  <2>1. i + 1 \in 1..Len(st) /\ Len(g) + (i + 1) = Len(g) + Len(b2) + i
    BY <1>1, <1>2, <1>5
  <2>2. st[i + 1] = EncodeEnvelope(s[Len(g) + (i + 1)])
    BY <1>1, <2>1 DEF Flow
  <2> QED BY <1>2, <2>1, <2>2
<1>8. Len(s) = Len(g) + Len(b2) + Len(t2)
  BY <1>1, <1>2, <1>5
<1>9. g \in Seq({Wired(v) : v \in V}) /\ \A i \in 1..Len(g) : g[i] = Wired(s[i])
  BY DEF Flow
<1>10. Flow(V, s, t2, b2, g)
  BY <1>1, <1>2, <1>5, <1>6, <1>7, <1>8, <1>9 DEF Flow
<1> QED BY <1>10 DEF t2, b2, h

\* The user takes the envelope from the inbox.
LEMMA FlowTake ==
  ASSUME NEW V, NEW s, NEW st, NEW b, NEW g, Flow(V, s, st, b, g), b # <<>>
  PROVE  Flow(V, s, st, <<>>, Append(g, Head(b)))
<1> DEFINE h == Head(b)
           g2 == Append(g, h)
<1>0. Len(b) = 1
  <2> DEFINE W == {Wired(v) : v \in V}
  <2>1. b \in Seq(W) /\ Len(b) <= 1
    BY DEF Flow
  <2> HIDE DEF W
  <2>2. Len(b) \in Nat /\ Len(b) # 0
    BY <2>1, EmptySeq
  <2>3. \A n \in Nat : n # 0 /\ n <= 1 => n = 1
    OBVIOUS
  <2> QED BY <2>1, <2>2, <2>3, Zenon
<1>1. /\ Len(g) \in Nat /\ Len(st) \in Nat /\ Len(b) = 1 /\ Len(s) = Len(g) + 1 + Len(st)
      /\ s \in Seq(V) /\ st \in Seq({EncodeEnvelope(v) : v \in V})
  BY <1>0 DEF Flow
<1>2. h = b[1] /\ b[1] = Wired(s[Len(g) + 1]) /\ h \in {Wired(v) : v \in V}
  BY <1>1 DEF Flow
<1> HIDE DEF h
<1>3. /\ g2 \in Seq({Wired(v) : v \in V}) /\ Len(g2) = Len(g) + 1
      /\ g2[Len(g) + 1] = h /\ \A i \in 1..Len(g) : g2[i] = g[i]
  BY <1>2 DEF Flow
<1> HIDE DEF g2
<1>4. ASSUME NEW i \in 1..Len(g2) PROVE g2[i] = Wired(s[i])
  <2>1. CASE i = Len(g) + 1
    BY <1>2, <1>3, <2>1
  <2>2. CASE i \in 1..Len(g)
    <3>1. g[i] = Wired(s[i])
      BY <2>2 DEF Flow
    <3> QED BY <1>3, <2>2, <3>1
  <2> QED BY <1>1, <1>3, <2>1, <2>2
<1>5. \A i \in 1..Len(st) : st[i] = EncodeEnvelope(s[Len(g) + 1 + i])
  BY <1>1 DEF Flow
<1>6. <<>> \in Seq({Wired(v) : v \in V}) /\ Len(<<>>) = 0
  OBVIOUS
<1>7. \A i \in 1..Len(st) : Len(g2) + 0 + i = Len(g) + 1 + i
  BY <1>1, <1>3
<1>8. Len(s) = Len(g2) + 0 + Len(st)
  BY <1>1, <1>3
<1>9. Flow(V, s, st, <<>>, g2)
  BY <1>1, <1>3, <1>4, <1>5, <1>6, <1>7, <1>8 DEF Flow
<1> QED BY <1>9 DEF g2, h

\* What the receiver has been given is a beginning of what the sender has written.
LEMMA FlowPrefix ==
  ASSUME NEW V, NEW s, NEW st, NEW b, NEW g, Flow(V, s, st, b, g)
  PROVE  /\ DOMAIN g = 1..Len(g) /\ Len(g) <= Len(s)
         /\ \A i \in 1..Len(g) : g[i] = Wired(s[i]) /\ s[i] \in V
<1>1. /\ Len(g) \in Nat /\ Len(b) \in Nat /\ Len(st) \in Nat
      /\ Len(s) = Len(g) + Len(b) + Len(st) /\ DOMAIN g = 1..Len(g) /\ s \in Seq(V)
  BY DEF Flow
<1>2. Len(g) <= Len(s)
  BY <1>1
<1>3. \A i \in 1..Len(g) : i \in 1..Len(s)
  BY <1>1
<1>4. \A i \in 1..Len(s) : s[i] \in V
  BY <1>1
<1>5. \A i \in 1..Len(g) : g[i] = Wired(s[i])
  BY DEF Flow
<1> QED BY <1>1, <1>2, <1>3, <1>4, <1>5

----------------------------------------------------------------------------
(* What a step may do to the parts of the invariant *)

\* Who the ends are never changes, and what they may send depends on nothing else.
LEMMA NodesKept ==
  ASSUME IInv, node' = node
  PROVE  \A d \in E : NodeOK(d)' /\ Sendable(d)' = Sendable(d) /\ Agreed(d)' = Agreed(d)
<1> SUFFICES ASSUME NEW d \in E
             PROVE  NodeOK(d)' /\ Sendable(d)' = Sendable(d) /\ Agreed(d)' = Agreed(d)
  OBVIOUS
<1>1. NodeOK(d)'
  BY DEF IInv, NodeOK
<1>2. Agreed(d)' = Agreed(d)
  BY DEF Agreed
<1>3. Hellos(d)' = Hellos(d) /\ Scripted(d)' = Scripted(d)
  BY DEF Hellos, Hello, Scripted
<1>4. Acks(d)' = Acks(d)
  BY <1>2 DEF Acks
<1> QED BY <1>1, <1>2, <1>3, <1>4 DEF Sendable

LEMMA SendKept ==
  ASSUME IInv, node' = node, sendCh' = sendCh
  PROVE  \A d \in E : SendOK(d)'
BY NodesKept DEF IInv, SendOK

LEMMA FlowKept ==
  ASSUME IInv, node' = node, UNCHANGED <<sent, stream, inbox, got>>
  PROVE  \A d \in E : FlowOK(d)'
BY NodesKept DEF IInv, FlowOK

LEMMA WantsKept ==
  ASSUME IInv, wants' = wants, inbox' = inbox
  PROVE  \A d \in E : WantsOK(d)'
BY DEF IInv, WantsOK

LEMMA HandshakeKept ==
  ASSUME IInv, node' = node, app' = app, theirs' = theirs
  PROVE  \A d \in E : HandshakeOK(d)'
<1>1. \A d \in E : Agreed(d)' = Agreed(d)
  BY NodesKept
<1>2. \A d \in E : Greeted(d)' = Greeted(d)
  BY DEF Greeted
<1> QED BY <1>1, <1>2 DEF IInv, HandshakeOK

\* SendCtx puts an envelope that the end may send into its buffer.
LEMMA SendAppends ==
  ASSUME IInv, node' = node, NEW e \in E, NEW v \in Sendable(e), SendCtx(e, v)
  PROVE  DOMAIN sendCh' = E /\ \A d \in E : SendOK(d)'
<1>1. \A d \in E : sendCh[d] \in Seq(Sendable(d)) /\ Sendable(d)' = Sendable(d)
  BY NodesKept DEF IInv, SendOK
<1>2. DOMAIN sendCh = E /\ sendCh' = [sendCh EXCEPT ![e] = Append(sendCh[e], v)]
  BY DEF IInv, Typed, SendCtx
<1>3. Append(sendCh[e], v) \in Seq(Sendable(e))
  BY <1>1
<1> QED BY <1>1, <1>2, <1>3 DEF SendOK

\* The sending goroutine takes one out.
LEMMA SendTails ==
  ASSUME IInv, node' = node, NEW e \in E, sendCh[e] # <<>>,
         sendCh' = [sendCh EXCEPT ![e] = Tail(@)]
  PROVE  DOMAIN sendCh' = E /\ \A d \in E : SendOK(d)'
<1>1. \A d \in E : sendCh[d] \in Seq(Sendable(d)) /\ Sendable(d)' = Sendable(d)
  BY NodesKept DEF IInv, SendOK
<1>2. DOMAIN sendCh = E /\ sendCh' = [sendCh EXCEPT ![e] = Tail(sendCh[e])]
  BY DEF IInv, Typed
<1>3. Tail(sendCh[e]) \in Seq(Sendable(e))
  BY <1>1
<1> QED BY <1>1, <1>2, <1>3 DEF SendOK

\* The user takes the envelope in its inbox.
LEMMA ReceivedOne ==
  ASSUME IInv, node' = node, NEW e \in E, inbox[e] # <<>>, Received(e),
         UNCHANGED <<sent, stream, wants>>
  PROVE  /\ DOMAIN inbox' = E /\ DOMAIN got' = E
         /\ \A d \in E : FlowOK(d)' /\ WantsOK(d)'
<1>1. DOMAIN inbox = E /\ DOMAIN got = E
  BY DEF IInv, Typed
<1>2. /\ inbox' = [inbox EXCEPT ![e] = <<>>]
      /\ got' = [got EXCEPT ![e] = Append(got[e], Head(inbox[e]))]
  BY <1>1 DEF Received
<1>3. \A d \in E : WantsOK(d)'
  BY <1>1, <1>2 DEF IInv, WantsOK
<1>4. ASSUME NEW d \in E PROVE FlowOK(d)'
  <2>1. Sendable(d)' = Sendable(d)
    BY NodesKept
  <2>2. Flow(Sendable(d), sent[d], stream[d], inbox[Other(d)], got[Other(d)])
    BY DEF IInv, FlowOK
  <2>3. CASE Other(d) = e
    <3>1. inbox'[e] = <<>> /\ got'[e] = Append(got[e], Head(inbox[e]))
      BY <1>1, <1>2
    <3>2. Flow(Sendable(d), sent[d], stream[d], <<>>, Append(got[e], Head(inbox[e])))
      BY <2>2, <2>3, FlowTake
    <3> QED BY <2>1, <2>3, <3>1, <3>2 DEF FlowOK
  <2>4. CASE Other(d) # e
    <3>1. inbox'[Other(d)] = inbox[Other(d)] /\ got'[Other(d)] = got[Other(d)]
      BY <1>1, <1>2, <2>4, TwoEnds
    <3> QED BY <2>1, <2>2, <3>1 DEF FlowOK
  <2> QED BY <2>3, <2>4
<1> QED BY <1>1, <1>2, <1>3, <1>4

\* The envelope in an inbox is one that the other end may have sent.
LEMMA InboxIsSent ==
  ASSUME IInv, NEW e \in E, inbox[e] # <<>>
  PROVE  \E v \in Sendable(Other(e)) : Head(inbox[e]) = Wired(v)
<1> DEFINE W == {Wired(v) : v \in Sendable(Other(e))}
<1>1. inbox[e] \in Seq(W)
  BY TwoEnds DEF IInv, FlowOK, Flow
<1> HIDE DEF W
<1>2. Head(inbox[e]) \in W
  BY <1>1
<1> QED BY <1>2 DEF W

\* A handshake that moves to a place where nothing has been accepted, or that stays
\* behind its acceptance
LEMMA HandshakeMoves ==
  ASSUME IInv, node' = node, theirs' = theirs, NEW e \in E, NEW pc,
         app' = [app EXCEPT ![e] = pc],
         pc \in {"over", "awaitHello", "helloSent"}, pc = "helloSent" => e = Out
  PROVE  DOMAIN app' = E /\ \A d \in E : HandshakeOK(d)'
<1>1. DOMAIN app = E /\ DOMAIN app' = E /\ app'[e] = pc /\ \A d \in E : d # e => app'[d] = app[d]
  BY DEF IInv, Typed
<1>2. \A d \in E : Agreed(d)' = Agreed(d)
  BY NodesKept
<1>3. HandshakeOK(e)'
  BY <1>1, TwoEnds DEF HandshakeOK, Greeted
<1>4. ASSUME NEW d \in E, d # e PROVE HandshakeOK(d)'
  <2>1. Greeted(d)' = Greeted(d)
    BY <1>1, <1>4 DEF Greeted
  <2> QED BY <1>1, <1>2, <1>4, <2>1 DEF IInv, HandshakeOK
<1> QED BY <1>1, <1>3, <1>4

\* A handshake that has accepted the other's Hello
LEMMA HandshakeAccepts ==
  ASSUME IInv, node' = node, NEW e \in E, NEW pc, app' = [app EXCEPT ![e] = pc],
         \A d \in E : d # e => theirs'[d] = theirs[d],
         Agreed(e), theirs'[e].PublicKey = node[Other(e)].key,
         pc = "ackSent" => e = Out, pc = "awaitAck" => e = In,
         e = In /\ pc = "ready" => node[e].version <= node[Other(e)].version
  PROVE  DOMAIN app' = E /\ \A d \in E : HandshakeOK(d)'
<1>1. DOMAIN app = E /\ DOMAIN app' = E /\ app'[e] = pc /\ \A d \in E : d # e => app'[d] = app[d]
  BY DEF IInv, Typed
<1>2. \A d \in E : Agreed(d)' = Agreed(d)
  BY NodesKept
<1>3. HandshakeOK(e)'
  BY <1>1, <1>2 DEF HandshakeOK
<1>4. ASSUME NEW d \in E, d # e PROVE HandshakeOK(d)'
  <2>1. Greeted(d)' = Greeted(d)
    BY <1>1, <1>4 DEF Greeted
  <2> QED BY <1>1, <1>2, <1>4, <2>1 DEF IInv, HandshakeOK
<1> QED BY <1>1, <1>3, <1>4

----------------------------------------------------------------------------
(* The steps *)

LEMMA SendHelloStep ==
  ASSUME IInv, NEW e \in E, SendHello(e)
  PROVE  IInv'
<1> DEFINE v == WriteEnvelope(node[e], "Hello", Hello(e, None))
<1>1. /\ e = Out /\ SendCtx(e, v) /\ app' = [app EXCEPT ![e] = "helloSent"]
      /\ UNCHANGED <<node, theirs, wants, inbox, stream, sent, got>>
  BY DEF SendHello, Goto
<1>2. v \in Sendable(e)
  BY DEF Sendable, Hellos
<1> HIDE DEF v
<1>3. DOMAIN sendCh' = E /\ \A d \in E : SendOK(d)'
  BY <1>1, <1>2, SendAppends
<1>4. DOMAIN app' = E /\ \A d \in E : HandshakeOK(d)'
  BY <1>1, HandshakeMoves
<1>5. \A d \in E : NodeOK(d)' /\ FlowOK(d)' /\ WantsOK(d)'
  BY <1>1, NodesKept, FlowKept, WantsKept
<1>6. Typed'
  BY <1>1, <1>3, <1>4 DEF IInv, Typed
<1> QED BY <1>3, <1>4, <1>5, <1>6 DEF IInv

\* ReceiveCtx asks only when the inbox is empty.
LEMMA ReceiveAsks ==
  ASSUME IInv, NEW e \in E, ReceiveCtx(e), inbox' = inbox
  PROVE  DOMAIN wants' = E /\ \A d \in E : WantsOK(d)'
BY DEF IInv, Typed, WantsOK, ReceiveCtx

LEMMA AwaitHandshakeStep ==
  ASSUME IInv, NEW e \in E, AwaitHandshake(e)
  PROVE  IInv'
<1>1. ReceiveCtx(e) /\ UNCHANGED <<node, theirs, sendCh, inbox, stream, sent, got>>
  BY DEF AwaitHandshake
<1>2. DOMAIN app' = E /\ \A d \in E : HandshakeOK(d)'
  <2>1. CASE app' = [app EXCEPT ![e] = "awaitHello"]
    BY <1>1, <2>1, HandshakeMoves
  <2>2. CASE app[e] = "helloSent" /\ e = In /\ app' = [app EXCEPT ![e] = "awaitAck"]
    <3>1. Agreed(e) /\ theirs[e].PublicKey = node[Other(e)].key
      BY <2>2 DEF IInv, HandshakeOK, Greeted
    <3> QED BY <1>1, <2>2, <3>1, HandshakeAccepts
  <2>3. e # Out => e = In
    BY DEF E
  <2> QED BY <2>1, <2>2, <2>3 DEF AwaitHandshake, Goto
<1>3. DOMAIN wants' = E /\ \A d \in E : WantsOK(d)'
  BY <1>1, ReceiveAsks
<1>4. \A d \in E : NodeOK(d)' /\ FlowOK(d)' /\ SendOK(d)'
  BY <1>1, NodesKept, FlowKept, SendKept
<1>5. Typed'
  BY <1>1, <1>2, <1>3 DEF IInv, Typed
<1> QED BY <1>2, <1>3, <1>4, <1>5 DEF IInv

\* A Hello that an end accepts shows that the two agree.
LEMMA AcceptedHello ==
  ASSUME IInv, NEW e \in E, inbox[e] # <<>>, AcceptsHello(e)
  PROVE  /\ Agreed(e)
         /\ Head(inbox[e]).Message.PublicKey = node[Other(e)].key
         /\ Head(inbox[e]).Message.LocalNonce = Other(e)
<1> DEFINE env == Head(inbox[e])
           o == Other(e)
<1>1. o \in E /\ NodeOK(o) /\ NodeOK(e)
  BY TwoEnds DEF IInv
<1>2. PICK v \in Sendable(o) : env = Wired(v)
  BY InboxIsSent
<1>3. /\ env.MessageType = MessageTypes["Hello"] /\ env.Magic = node[e].magic
      /\ env.Timestamp >= node[e].clock - Deadline /\ env.Timestamp <= node[e].clock + Deadline
      /\ env.Message.ProtocolVersion <= node[e].version
  BY DEF AcceptsHello, ValidHello, ValidateEnvelope
<1> HIDE DEF env, o
<1>4. PICK x : /\ env.Message = Hello(o, x) /\ env.Magic = node[o].magic
               /\ env.Timestamp = DecodeTime(EncodeTime(node[o].clock))
  BY <1>1, <1>2, <1>3, SentArrives
<1>5. /\ env.Message.ProtocolVersion = node[o].version
      /\ env.Message.LocalNonce = o /\ env.Message.PublicKey = node[o].key
  <2>1. /\ Hello(o, x).ProtocolVersion = node[o].version
        /\ Hello(o, x).LocalNonce = o /\ Hello(o, x).PublicKey = node[o].key
    BY DEF Hello
  <2> QED BY <1>4, <2>1
<1>6. node[o].clock \in Nat /\ node[e].clock \in Nat
  BY <1>1, NodesHaveClocks DEF NodeOK
<1>7. /\ node[o].clock - node[e].clock <= Deadline + 1
      /\ node[e].clock - node[o].clock <= Deadline + 1
  <2>1. \A c, d, t \in Nat : /\ t <= c /\ c <= t + 1
                             /\ t >= d - Deadline /\ t <= d + Deadline
                             => c - d <= Deadline + 1 /\ d - c <= Deadline + 1
    BY DeadlinePositive
  <2> QED BY <1>3, <1>4, <1>6, <2>1, SecondsKept
<1>8. Agreed(e)
  BY <1>3, <1>4, <1>5, <1>7 DEF Agreed, o
<1> QED BY <1>5, <1>8 DEF env, o

LEMMA OnHelloStep ==
  ASSUME IInv, NEW e \in E, OnHello(e)
  PROVE  IInv'
<1> DEFINE msg == Head(inbox[e]).Message
           ack == WriteEnvelope(node[e], "HelloAck", [Nonce |-> msg.LocalNonce])
           hello == WriteEnvelope(node[e], "Hello", Hello(e, msg.LocalNonce))
<1>1. /\ inbox[e] # <<>> /\ AcceptsHello(e) /\ Received(e)
      /\ theirs' = [theirs EXCEPT ![e] = msg]
      /\ UNCHANGED <<node, wants, stream, sent>>
  BY DEF OnHello
<1>2. IF e = Out THEN SendCtx(e, ack) /\ app' = [app EXCEPT ![e] = "ackSent"]
      ELSE SendCtx(e, hello) /\ app' = [app EXCEPT ![e] = "helloSent"]
  BY DEF OnHello, Goto
<1>3. Agreed(e) /\ msg.PublicKey = node[Other(e)].key /\ msg.LocalNonce \in E
  <2>1. Other(e) \in E
    BY TwoEnds
  <2> QED BY <1>1, <2>1, AcceptedHello
<1>4. ack \in Sendable(e) /\ hello \in Sendable(e)
  BY <1>3 DEF Sendable, Acks, Hellos
<1> HIDE DEF ack, hello, msg
<1>5. DOMAIN sendCh' = E /\ \A d \in E : SendOK(d)'
  BY <1>1, <1>2, <1>4, SendAppends
<1>6. /\ DOMAIN inbox' = E /\ DOMAIN got' = E
      /\ \A d \in E : FlowOK(d)' /\ WantsOK(d)'
  BY <1>1, ReceivedOne
<1>7. DOMAIN theirs' = E /\ theirs'[e] = msg /\ \A d \in E : d # e => theirs'[d] = theirs[d]
  BY <1>1 DEF IInv, Typed
<1>8. DOMAIN app' = E /\ \A d \in E : HandshakeOK(d)'
  <2>1. CASE e = Out
    BY <1>1, <1>2, <1>3, <1>7, <2>1, HandshakeAccepts
  <2>2. CASE e # Out
    BY <1>1, <1>2, <1>3, <1>7, <2>2, HandshakeAccepts
  <2> QED BY <2>1, <2>2
<1>9. \A d \in E : NodeOK(d)'
  BY <1>1, NodesKept
<1>10. Typed'
  BY <1>1, <1>5, <1>6, <1>7, <1>8 DEF IInv, Typed
<1> QED BY <1>5, <1>6, <1>8, <1>9, <1>10 DEF IInv

LEMMA AckWrittenStep ==
  ASSUME IInv, NEW e \in E, AckWritten(e)
  PROVE  IInv'
<1>1. /\ app[e] = "ackSent" /\ app' = [app EXCEPT ![e] = "ready"]
      /\ UNCHANGED <<node, theirs, sendCh, wants, inbox, stream, sent, got>>
  BY DEF AckWritten, Goto
<1>2. Agreed(e) /\ theirs[e].PublicKey = node[Other(e)].key /\ e = Out
  BY <1>1 DEF IInv, HandshakeOK, Greeted
<1>3. DOMAIN app' = E /\ \A d \in E : HandshakeOK(d)'
  BY <1>1, <1>2, EndsDistinct, HandshakeAccepts
<1>4. \A d \in E : NodeOK(d)' /\ FlowOK(d)' /\ SendOK(d)' /\ WantsOK(d)'
  BY <1>1, NodesKept, FlowKept, SendKept, WantsKept
<1>5. Typed'
  BY <1>1, <1>3 DEF IInv, Typed
<1> QED BY <1>3, <1>4, <1>5 DEF IInv

\* The ack tells the end that listens that its version is not too new for the other.
LEMMA OnHelloAckStep ==
  ASSUME IInv, NEW e \in E, OnHelloAck(e)
  PROVE  IInv'
<1>1. /\ app[e] = "awaitAck" /\ inbox[e] # <<>> /\ AcceptsAck(e) /\ Received(e)
      /\ app' = [app EXCEPT ![e] = "ready"]
      /\ UNCHANGED <<node, theirs, sendCh, wants, stream, sent>>
  BY DEF OnHelloAck, Goto
<1>2. Agreed(e) /\ theirs[e].PublicKey = node[Other(e)].key
  BY <1>1 DEF IInv, HandshakeOK, Greeted
<1>3. node[e].version <= node[Other(e)].version
  <2>1. PICK v \in Sendable(Other(e)) : Head(inbox[e]) = Wired(v)
    BY <1>1, InboxIsSent
  <2>2. Wired(v).MessageType = MessageTypes["HelloAck"]
    BY <1>1, <2>1 DEF AcceptsAck
  <2>3. Other(e) \in E /\ Other(Other(e)) = e /\ NodeOK(Other(e))
    BY TwoEnds DEF IInv
  <2>4. Agreed(Other(e))
    BY <2>2, <2>3, SentArrives
  <2> QED BY <2>3, <2>4 DEF Agreed
<1>4. DOMAIN app' = E /\ \A d \in E : HandshakeOK(d)'
  BY <1>1, <1>2, <1>3, HandshakeAccepts
<1>5. /\ DOMAIN inbox' = E /\ DOMAIN got' = E
      /\ \A d \in E : FlowOK(d)' /\ WantsOK(d)'
  BY <1>1, ReceivedOne
<1>6. \A d \in E : NodeOK(d)' /\ SendOK(d)'
  BY <1>1, NodesKept, SendKept
<1>7. Typed'
  BY <1>1, <1>4, <1>5 DEF IInv, Typed
<1> QED BY <1>4, <1>5, <1>6, <1>7 DEF IInv

LEMMA GivesUpStep ==
  ASSUME IInv, NEW e \in E, HandshakeFails(e) \/ HandlePeerClose(e)
  PROVE  IInv'
<1>1. /\ app' = [app EXCEPT ![e] = "over"]
      /\ UNCHANGED <<node, theirs, sendCh, wants, inbox, stream, sent, got>>
  BY DEF HandshakeFails, HandlePeerClose, Goto
<1>2. DOMAIN app' = E /\ \A d \in E : HandshakeOK(d)'
  BY <1>1, HandshakeMoves
<1>3. \A d \in E : NodeOK(d)' /\ FlowOK(d)' /\ SendOK(d)' /\ WantsOK(d)'
  BY <1>1, NodesKept, FlowKept, SendKept, WantsKept
<1>4. Typed'
  BY <1>1, <1>2 DEF IInv, Typed
<1> QED BY <1>2, <1>3, <1>4 DEF IInv

LEMMA SendStep ==
  ASSUME IInv, NEW e \in E, Send(e)
  PROVE  IInv'
<1>1. PICK i \in DOMAIN Script[e] :
        SendCtx(e, WriteEnvelope(node[e], Script[e][i].type, Script[e][i].body))
  BY DEF Send
<1>2. UNCHANGED <<node, app, theirs, wants, inbox, stream, sent, got>>
  BY DEF Send
<1>3. WriteEnvelope(node[e], Script[e][i].type, Script[e][i].body) \in Sendable(e)
  BY DEF Sendable, Scripted
<1>4. DOMAIN sendCh' = E /\ \A d \in E : SendOK(d)'
  BY <1>1, <1>2, <1>3, SendAppends
<1>5. \A d \in E : NodeOK(d)' /\ FlowOK(d)' /\ WantsOK(d)' /\ HandshakeOK(d)'
  BY <1>2, NodesKept, FlowKept, WantsKept, HandshakeKept
<1>6. Typed'
  BY <1>2, <1>4 DEF IInv, Typed
<1> QED BY <1>4, <1>5, <1>6 DEF IInv

LEMMA ReceiveStep ==
  ASSUME IInv, NEW e \in E, Receive(e)
  PROVE  IInv'
<1>1. ReceiveCtx(e) /\ UNCHANGED <<node, app, theirs, sendCh, inbox, stream, sent, got>>
  BY DEF Receive
<1>2. DOMAIN wants' = E /\ \A d \in E : WantsOK(d)'
  BY <1>1, ReceiveAsks
<1>3. \A d \in E : NodeOK(d)' /\ FlowOK(d)' /\ SendOK(d)' /\ HandshakeOK(d)'
  BY <1>1, NodesKept, FlowKept, SendKept, HandshakeKept
<1>4. Typed'
  BY <1>1, <1>2 DEF IInv, Typed
<1> QED BY <1>2, <1>3, <1>4 DEF IInv

LEMMA OnMessageStep ==
  ASSUME IInv, NEW e \in E, OnMessage(e)
  PROVE  IInv'
<1>1. /\ inbox[e] # <<>> /\ Received(e)
      /\ UNCHANGED <<node, app, theirs, sendCh, wants, stream, sent>>
  BY DEF OnMessage
<1>2. /\ DOMAIN inbox' = E /\ DOMAIN got' = E
      /\ \A d \in E : FlowOK(d)' /\ WantsOK(d)'
  BY <1>1, ReceivedOne
<1>3. \A d \in E : NodeOK(d)' /\ SendOK(d)' /\ HandshakeOK(d)'
  BY <1>1, NodesKept, SendKept, HandshakeKept
<1>4. Typed'
  BY <1>1, <1>2 DEF IInv, Typed
<1> QED BY <1>2, <1>3, <1>4 DEF IInv

LEMMA WriteOneStep ==
  ASSUME IInv, NEW e \in E, WriteOne(e)
  PROVE  IInv'
<1> DEFINE v == Head(sendCh[e])
<1>1. /\ sendCh[e] # <<>> /\ sendCh' = [sendCh EXCEPT ![e] = Tail(@)]
      /\ stream' = [stream EXCEPT ![e] = Append(@, EncodeEnvelope(v))]
      /\ sent' = [sent EXCEPT ![e] = Append(@, v)]
      /\ UNCHANGED <<node, app, theirs, wants, inbox, got>>
  BY DEF WriteOne
<1>2. DOMAIN stream = E /\ DOMAIN sent = E /\ sendCh[e] \in Seq(Sendable(e))
  BY DEF IInv, Typed, SendOK
<1>3. v \in Sendable(e)
  BY <1>1, <1>2
<1> HIDE DEF v
<1>4. DOMAIN sendCh' = E /\ \A d \in E : SendOK(d)'
  BY <1>1, SendTails
<1>5. /\ DOMAIN stream' = E /\ DOMAIN sent' = E
      /\ stream'[e] = Append(stream[e], EncodeEnvelope(v)) /\ sent'[e] = Append(sent[e], v)
      /\ \A d \in E : d # e => stream'[d] = stream[d] /\ sent'[d] = sent[d]
  BY <1>1, <1>2
<1>6. ASSUME NEW d \in E PROVE FlowOK(d)'
  <2>1. Sendable(d)' = Sendable(d)
    BY <1>1, NodesKept
  <2>2. Flow(Sendable(d), sent[d], stream[d], inbox[Other(d)], got[Other(d)])
    BY DEF IInv, FlowOK
  <2>3. CASE d = e
    <3>1. Flow(Sendable(e), Append(sent[e], v), Append(stream[e], EncodeEnvelope(v)),
               inbox[Other(e)], got[Other(e)])
      BY <1>3, <2>2, <2>3, FlowWrite
    <3> QED BY <1>1, <1>5, <2>1, <2>3, <3>1 DEF FlowOK
  <2>4. CASE d # e
    BY <1>1, <1>5, <2>1, <2>2, <2>4 DEF FlowOK
  <2> QED BY <2>3, <2>4
<1>7. \A d \in E : NodeOK(d)' /\ WantsOK(d)' /\ HandshakeOK(d)'
  BY <1>1, NodesKept, WantsKept, HandshakeKept
<1>8. Typed'
  BY <1>1, <1>4, <1>5 DEF IInv, Typed
<1> QED BY <1>4, <1>6, <1>7, <1>8 DEF IInv

LEMMA SendReturnsStep ==
  ASSUME IInv, NEW e \in E, SendReturns(e)
  PROVE  IInv'
<1>1. UNCHANGED <<node, app, theirs, wants, inbox, stream, sent, got>>
  BY DEF SendReturns
<1>2. DOMAIN sendCh' = E /\ \A d \in E : SendOK(d)'
  <2>1. CASE sendCh[e] # <<>> /\ sendCh' = [sendCh EXCEPT ![e] = Tail(@)]
    BY <1>1, <2>1, SendTails
  <2>2. CASE sendCh' = sendCh
    BY <1>1, <2>2, SendKept DEF IInv, Typed
  <2> QED BY <2>1, <2>2 DEF SendReturns
<1>3. \A d \in E : NodeOK(d)' /\ FlowOK(d)' /\ WantsOK(d)' /\ HandshakeOK(d)'
  BY <1>1, NodesKept, FlowKept, WantsKept, HandshakeKept
<1>4. Typed'
  BY <1>1, <1>2 DEF IInv, Typed
<1> QED BY <1>2, <1>3, <1>4 DEF IInv

\* recv hands over an envelope only to a user that waits for one, so never over another.
LEMMA ReadOneStep ==
  ASSUME IInv, NEW e \in E, ReadOne(e)
  PROVE  IInv'
<1> DEFINE o == Other(e)
           env == DecodeEnvelope(Head(stream[o]))
<1>1. /\ wants[e] /\ stream[o] # <<>>
      /\ stream' = [stream EXCEPT ![o] = Tail(stream[o])]
      /\ inbox' = [inbox EXCEPT ![e] = <<env>>]
      /\ wants' = [wants EXCEPT ![e] = FALSE]
      /\ UNCHANGED <<node, app, theirs, sendCh, sent, got>>
  BY DEF ReadOne
<1>2. /\ DOMAIN stream = E /\ DOMAIN inbox = E /\ DOMAIN wants = E /\ inbox[e] = <<>>
      /\ o \in E /\ o # e /\ Other(o) = e
  BY <1>1, TwoEnds DEF IInv, Typed, WantsOK
<1> HIDE DEF env, o
<1>3. /\ DOMAIN stream' = E /\ DOMAIN inbox' = E /\ DOMAIN wants' = E
      /\ stream'[o] = Tail(stream[o]) /\ inbox'[e] = <<env>> /\ wants'[e] = FALSE
      /\ stream'[e] = stream[e] /\ inbox'[o] = inbox[o] /\ wants'[o] = wants[o]
  BY <1>1, <1>2
<1>4. \A d \in E : d = e \/ d = o
  BY TwoEnds DEF o
<1>5. \A d \in E : WantsOK(d)'
  BY <1>3, <1>4 DEF IInv, WantsOK
<1>6. \A d \in E : Sendable(d)' = Sendable(d)
  BY <1>1, NodesKept
<1>7. FlowOK(o)'
  <2>1. Flow(Sendable(o), sent[o], stream[o], <<>>, got[e])
    BY <1>2 DEF IInv, FlowOK
  <2>2. Flow(Sendable(o), sent[o], Tail(stream[o]), <<env>>, got[e])
    BY <1>1, <2>1, FlowRead DEF env
  <2> QED BY <1>1, <1>2, <1>3, <1>6, <2>2 DEF FlowOK
<1>8. FlowOK(e)'
  <2>1. Other(e) = o
    BY DEF o
  <2> QED BY <1>1, <1>3, <1>6, <2>1 DEF IInv, FlowOK
<1>9. \A d \in E : NodeOK(d)' /\ SendOK(d)' /\ HandshakeOK(d)'
  BY <1>1, NodesKept, SendKept, HandshakeKept
<1>10. Typed'
  BY <1>1, <1>3 DEF IInv, Typed
<1> QED BY <1>4, <1>5, <1>7, <1>8, <1>9, <1>10 DEF IInv

LEMMA RecvReturnsStep ==
  ASSUME IInv, NEW e \in E, RecvReturns(e)
  PROVE  IInv'
<1>1. UNCHANGED <<node, app, theirs, sendCh, inbox, stream, sent, got>>
  BY DEF RecvReturns
<1>2. DOMAIN wants' = E /\ \A d \in E : WantsOK(d)'
  <2>1. CASE wants' = [wants EXCEPT ![e] = FALSE]
    BY <1>1, <2>1 DEF IInv, Typed, WantsOK
  <2>2. CASE wants' = wants
    BY <1>1, <2>2, WantsKept DEF IInv, Typed
  <2> QED BY <2>1, <2>2 DEF RecvReturns
<1>3. \A d \in E : NodeOK(d)' /\ FlowOK(d)' /\ SendOK(d)' /\ HandshakeOK(d)'
  BY <1>1, NodesKept, FlowKept, SendKept, HandshakeKept
<1>4. Typed'
  BY <1>1, <1>2 DEF IInv, Typed
<1> QED BY <1>2, <1>3, <1>4 DEF IInv

\* Closing a peer leaves what it has sent and received alone.
LEMMA IdleStep ==
  ASSUME IInv, UNCHANGED <<node, app, theirs, sendCh, wants, inbox, stream, sent, got>>
  PROVE  IInv'
<1>1. \A d \in E : /\ NodeOK(d)' /\ WantsOK(d)' /\ SendOK(d)' /\ FlowOK(d)' /\ HandshakeOK(d)'
  BY NodesKept, WantsKept, SendKept, FlowKept, HandshakeKept
<1>2. Typed'
  BY DEF IInv, Typed
<1> QED BY <1>1, <1>2 DEF IInv

\* IInv is inductive.
LEMMA StepKeeps ==
  ASSUME IInv, [Next]_vars
  PROVE  IInv'
<1>1. ASSUME NEW e \in E, Handshake(e) PROVE IInv'
  BY <1>1, SendHelloStep, AwaitHandshakeStep, OnHelloStep, AckWrittenStep, OnHelloAckStep,
     GivesUpStep DEF Handshake
<1>2. ASSUME NEW e \in E, Muxer(e) PROVE IInv'
  BY <1>2, ReceiveStep, OnMessageStep, GivesUpStep, SendStep DEF Muxer
<1>3. ASSUME NEW e \in E, Goroutines(e) PROVE IInv'
  BY <1>3, WriteOneStep, SendReturnsStep, ReadOneStep, RecvReturnsStep DEF Goroutines
<1>4. ASSUME NEW e \in E, Closers(e) PROVE IInv'
  <2>1. CASE FinishClose(e)
    BY <2>1, IdleStep DEF FinishClose
  <2>2. CASE CloseAgain(e)
    BY <2>2, IdleStep DEF CloseAgain
  <2>3. ASSUME NEW p \in Procs, BeginClose(e, p) PROVE IInv'
    BY <2>3, IdleStep DEF BeginClose
  <2> QED BY <1>4, <2>1, <2>2, <2>3 DEF Closers
<1>5. CASE Slow
  BY <1>5, IdleStep DEF Slow
<1>6. CASE UNCHANGED vars
  BY <1>6, IdleStep DEF vars
<1> QED BY <1>1, <1>2, <1>3, <1>4, <1>5, <1>6 DEF Next

LEMMA InitHolds == Init => IInv
<1> SUFFICES ASSUME Init PROVE IInv
  OBVIOUS
<1>1. Typed
  BY DEF Init, Typed
<1>2. ASSUME NEW e \in E
      PROVE  NodeOK(e) /\ WantsOK(e) /\ SendOK(e) /\ FlowOK(e) /\ HandshakeOK(e)
  <2>1. NodeOK(e)
    BY DEF Init, NodeOK
  <2>2. sent[e] = <<>> /\ stream[e] = <<>> /\ inbox[Other(e)] = <<>> /\ got[Other(e)] = <<>>
    BY TwoEnds DEF Init
  <2>3. FlowOK(e)
    <3>1. /\ Len(<<>>) = 0 /\ 0 <= 1 /\ 0 = 0 + 0 + 0
          /\ \A S : <<>> \in Seq(S)
          /\ \A i \in 1..0 : FALSE
      OBVIOUS
    <3> QED BY <2>2, <3>1 DEF FlowOK, Flow
  <2>4. app[e] = "start" /\ wants[e] = FALSE /\ sendCh[e] = <<>>
    BY DEF Init
  <2>5. HandshakeOK(e)
    BY <2>4 DEF HandshakeOK, Greeted
  <2>6. WantsOK(e) /\ SendOK(e)
    BY <2>4 DEF WantsOK, SendOK
  <2> QED BY <2>1, <2>3, <2>5, <2>6
<1> QED BY <1>1, <1>2 DEF IInv

----------------------------------------------------------------------------
(* The theorems *)

\* The invariant holds in every behaviour of a connection.
THEOREM ConnectionInvariant == Spec => []IInv
<1>1. IInv /\ [Next]_vars => IInv'
  BY StepKeeps
<1> QED BY InitHolds, <1>1, PTL DEF Spec

\* What an end is given is what the other end wrote, in that order and with that
\* meaning, whatever the scripts, the buffers, the deadlines and the order in which the
\* goroutines of the two peers run and close.
THEOREM DeliveredInOrder == Spec => []InOrder
<1>1. ASSUME IInv PROVE InOrder
  <2>1. ASSUME NEW e \in E
        PROVE  /\ Len(got[e]) <= Len(sent[Other(e)])
               /\ \A i \in DOMAIN got[e] : Meaning(got[e][i]) = Meaning(sent[Other(e)][i])
    <3> DEFINE o == Other(e)
               g == got[e]
               s == sent[o]
    <3>1. o \in E /\ Other(o) = e /\ NodeOK(o)
      BY <1>1, TwoEnds DEF IInv
    <3>2. Flow(Sendable(o), s, stream[o], inbox[e], g)
      BY <1>1, <3>1 DEF IInv, FlowOK
    <3> HIDE DEF o, g, s
    <3>3. /\ DOMAIN g = 1..Len(g) /\ Len(g) <= Len(s)
          /\ \A i \in 1..Len(g) : g[i] = Wired(s[i]) /\ s[i] \in Sendable(o)
      BY <3>2, FlowPrefix
    <3>4. \A v \in Sendable(o) : Meaning(Wired(v)) = Meaning(v)
      BY <3>1, SentArrives
    <3> QED BY <3>3, <3>4 DEF o, g, s
  <2> QED BY <2>1 DEF InOrder
<1> QED BY <1>1, ConnectionInvariant, PTL

\* Messages of every type are decoded to what was meant, and with a valid signature, at
\* every node.
THEOREM MessagesSurvive == Spec => []EveryMessageSurvives
<1>1. ASSUME IInv PROVE EveryMessageSurvives
  <2>1. ASSUME NEW e \in E PROVE Understood[node[e]]
    <3> DEFINE n == node[e]
    <3>1. n \in Nodes[e] /\ n.clock \in Nat
      BY <1>1, NodesHaveClocks DEF IInv, NodeOK
    <3>2. n \in Nodes[Out] \cup Nodes[In]
      BY <3>1 DEF E
    <3> HIDE DEF n
    <3>3. ASSUME NEW m \in Messages
          PROVE  LET env == WriteEnvelope(n, m.type, m.body)
                     raw == EncodeEnvelope(env)
                 IN  /\ EnvelopeDecodable(raw)
                     /\ Meaning(DecodeEnvelope(raw)) = Meaning(env)
                     /\ ValidateEnvelope(n, n.key, DecodeEnvelope(raw))
      <4>1. RoundTrip(n, m.type, m.body)
        BY <3>1, MessagesAreMessages, EnvelopeRoundTrip
      <4> QED BY <4>1 DEF RoundTrip
    <3> QED BY <3>2, <3>3 DEF Understood, n
  <2> QED BY <2>1 DEF EveryMessageSurvives
<1> QED BY <1>1, ConnectionInvariant, PTL

\* An end whose handshake succeeded has the key of the node it is connected to, on the
\* same network and with a clock that agrees; and the end that listened knows that both
\* have the same version.
THEOREM HandshakeShows == Spec => []HandshakeAgrees
<1>1. ASSUME IInv PROVE HandshakeAgrees
  <2>1. ASSUME NEW e \in E, app[e] = "ready"
        PROVE  LET o == node[Other(e)] IN
               /\ theirs[e].PublicKey = o.key /\ node[e].magic = o.magic
               /\ o.clock - node[e].clock <= Deadline + 1
               /\ node[e].clock - o.clock <= Deadline + 1
               /\ o.version <= node[e].version
               /\ e = In => o.version = node[e].version
    <3>1. Agreed(e) /\ theirs[e].PublicKey = node[Other(e)].key
      BY <1>1, <2>1 DEF IInv, HandshakeOK, Greeted
    <3>2. e = In => node[e].version <= node[Other(e)].version
      BY <1>1, <2>1 DEF IInv, HandshakeOK
    <3>3. node[e].version \in Nat /\ node[Other(e)].version \in Nat
      BY <1>1, TwoEnds, NodesHaveClocks DEF IInv, NodeOK
    <3>4. e = In => node[Other(e)].version = node[e].version
      BY <3>1, <3>2, <3>3 DEF Agreed
    <3> QED BY <3>1, <3>4 DEF Agreed
  <2> QED BY <2>1 DEF HandshakeAgrees
<1> QED BY <1>1, ConnectionInvariant, PTL

====
