----------------------------- MODULE Connection -----------------------------
(***************************************************************************)
(* One connection between two nodes: the handshakes (p2p/outgoing_         *)
(* handshake.go, p2p/incoming_handshake.go), the goroutines of a peer and  *)
(* its Close (p2p/peer.go), and the reader of the muxer, over TCP.          *)
(*                                                                         *)
(* Each end has a goroutine that sends, one that receives, and its user    *)
(* ("app": AcceptPeer or DialPeer, and then the muxer).  Any of the three  *)
(* may be the first to close the peer; Close waits for the other two.      *)
(* What travels is what Wire says the envelopes are encoded as.  TCP keeps *)
(* the order and delivers what was written before a close; when it is slow *)
(* or broken, deadlines expire with or without messages still arriving.    *)
(***************************************************************************)
EXTENDS Wire

CONSTANTS
  Ends,       \* <<the end that dialed, the end that listens>>
  Nodes,      \* nodes each end can be: [magic, version, key, clock]
  Script,     \* what each end sends after the handshake: messages [type, body]
  Messages,   \* messages of all types
  None,
  SendBuffer, \* capacity of sendCh
  Deadline    \* ValidMessageDeadline

Out == Ends[1]
In  == Ends[2]
E   == {Out, In}
Other(e) == IF e = Out THEN In ELSE Out

Procs == {"send", "recv", "app"}

ASSUME SendBufferPositive == SendBuffer \in Nat \ {0}
ASSUME DeadlinePositive == Deadline \in Nat \ {0}
ASSUME EndsDistinct == Out # In
ASSUME NodesHaveClocks ==
  \A e \in E : \A n \in Nodes[e] : n.clock \in Nat /\ n.version \in Nat
\* Nobody sends a Hello or an ack after the handshake.
ASSUME ScriptsAreMessages ==
  \A e \in E : \A i \in DOMAIN Script[e] :
    /\ IsMessage(Script[e][i].type, Script[e][i].body)
    /\ Script[e][i].type \in DOMAIN MessageTypes \ {"Hello", "HelloAck"}
ASSUME MessagesAreMessages ==
  \A m \in Messages : m.type \in DOMAIN MessageTypes /\ IsMessage(m.type, m.body)

VARIABLES
  node,      \* who each end is
  app,       \* where the user of each end is
  theirs,    \* the Hello the other end sent
  sendCh,    \* envelopes waiting for the sending goroutine
  wants,     \* a Receive is waiting for the receiving goroutine
  inbox,     \* the envelope the receiving goroutine has handed over, if any
  running,   \* the goroutines (and users) that have not called Close
  closing,   \* those that are in Close
  tokens,    \* sendDoneCh and recvDoneCh
  closeCh,   \* closeCh is closed, and so is the socket
  holder,    \* who has closeMu and waits for the other goroutines
  reason,    \* closeReason
  stream,    \* encoded envelopes on their way from each end
  slow,      \* messages may take longer than the deadlines
  sent, got  \* what each end has written and been given: history

close == <<running, closing, tokens, closeCh, holder>>
vars  == <<node, app, theirs, sendCh, wants, inbox, close, reason, stream, slow, sent, got>>

\* The types; and the goroutines that are done have left their token, which is taken
\* once, by the one that closes.
TypeOK ==
  /\ \A e \in E : node[e] \in Nodes[e]
  /\ app \in [E -> {"start", "helloSent", "awaitHello", "ackSent", "awaitAck", "ready", "over"}]
  /\ wants \in [E -> BOOLEAN]
  /\ running \in [E -> SUBSET Procs]
  /\ closing \in [E -> SUBSET Procs]
  /\ tokens \in [E -> SUBSET {"send", "recv"}]
  /\ closeCh \in [E -> BOOLEAN]
  /\ holder \in [E -> Procs \cup {None, "left"}]
  /\ reason \in [E -> {None, "closed", "hangup", "error"}]
  /\ slow \in BOOLEAN
  /\ \A e \in E :
       /\ running[e] \cap closing[e] = {}
       /\ Len(sendCh[e]) <= SendBuffer
       /\ Len(got[Other(e)]) + Len(stream[e]) <= Len(sent[e])
       /\ holder[e] # "left" => tokens[e] = {"send", "recv"} \ running[e]

Init ==
  /\ node \in {n \in [E -> Nodes[Out] \cup Nodes[In]] : \A e \in E : n[e] \in Nodes[e]}
  /\ app = [e \in E |-> "start"]
  /\ theirs = [e \in E |-> None]
  /\ sendCh = [e \in E |-> <<>>]
  /\ wants = [e \in E |-> FALSE]
  /\ inbox = [e \in E |-> <<>>]
  /\ running = [e \in E |-> Procs]
  /\ closing = [e \in E |-> {}]
  /\ tokens = [e \in E |-> {}]
  /\ closeCh = [e \in E |-> FALSE]
  /\ holder = [e \in E |-> None]
  /\ reason = [e \in E |-> None]
  /\ stream = [e \in E |-> <<>>]
  /\ slow = FALSE
  /\ sent = [e \in E |-> <<>>]
  /\ got = [e \in E |-> <<>>]

----------------------------------------------------------------------------
(* Envelopes *)

WriteEnvelope(n, t, m) == NewEnvelope(n.magic, t, m, n.key, n.clock)

\* ValidateEnvelope: for our network, not too old or new, signed by that key
ValidateEnvelope(n, key, env) ==
  /\ env.Magic = n.magic
  /\ env.Timestamp >= n.clock - Deadline
  /\ env.Timestamp <= n.clock + Deadline
  /\ env.Signature = [by |-> key, over |-> EnvelopeHash(env)]

\* The nonces are random: one per end.
Hello(e, remoteNonce) ==
  [ProtocolVersion |-> node[e].version, LocalNonce |-> e, RemoteNonce |-> remoteNonce,
   PublicKey |-> node[e].key, UserAgent |-> IF e = Out THEN "fnd" ELSE ""]

\* Mutant: the end that listens does not compare versions.
ValidHelloAnyVersion(e, env) ==
  /\ env.MessageType = MessageTypes.Hello
  /\ ValidateEnvelope(node[e], env.Message.PublicKey, env)
  /\ e = Out => env.Message.ProtocolVersion <= node[e].version

ValidHello(e, env) ==
  /\ env.MessageType = MessageTypes.Hello
  /\ ValidateEnvelope(node[e], env.Message.PublicKey, env)
  /\ env.Message.ProtocolVersion <= node[e].version

----------------------------------------------------------------------------
(* Send and Receive *)

\* SendCtx: nothing is sent on a closed peer, and the buffer must have room.
SendCtx(e, env) ==
  /\ ~closeCh[e] /\ Len(sendCh[e]) < SendBuffer
  /\ sendCh' = [sendCh EXCEPT ![e] = Append(@, env)]

\* SendCtx returns without an error.
Written(e) == sendCh[e] = <<>> /\ "send" \in running[e]

\* ReceiveCtx asks the receiving goroutine for an envelope ...
ReceiveCtx(e) ==
  /\ ~closeCh[e] /\ ~wants[e] /\ inbox[e] = <<>>
  /\ wants' = [wants EXCEPT ![e] = TRUE]

\* ... which hands one over.
Received(e) ==
  /\ inbox' = [inbox EXCEPT ![e] = <<>>]
  /\ got' = [got EXCEPT ![e] = Append(@, Head(inbox[e]))]

Goto(e, pc) == app' = [app EXCEPT ![e] = pc]

\* The user calls Close.
GivesUp(e) ==
  /\ running' = [running EXCEPT ![e] = @ \ {"app"}]
  /\ closing' = [closing EXCEPT ![e] = @ \cup {"app"}]

----------------------------------------------------------------------------
(* The handshakes *)

\* HandleOutgoingHandshake sends its Hello, ...
SendHello(e) ==
  /\ e = Out /\ app[e] = "start"
  /\ SendCtx(e, WriteEnvelope(node[e], "Hello", Hello(e, None)))
  /\ Goto(e, "helloSent")
  /\ UNCHANGED <<node, theirs, wants, inbox, close, reason, stream, slow, sent, got>>

\* ... and when that is written, waits for the other's; HandleIncomingHandshake starts
\* there.  After its own Hello that one waits for the ack.
AwaitHandshake(e) ==
  /\ \/ app[e] = "start" /\ e = In /\ Goto(e, "awaitHello")
     \/ app[e] = "helloSent" /\ Written(e)
          /\ Goto(e, IF e = Out THEN "awaitHello" ELSE "awaitAck")
  /\ ReceiveCtx(e)
  /\ UNCHANGED <<node, theirs, sendCh, inbox, close, reason, stream, slow, sent, got>>

\* The Hello is acceptable; the one that dialed also finds its nonce in it.
AcceptsHello(e) ==
  /\ ValidHello(e, Head(inbox[e]))
  /\ e = Out => Head(inbox[e]).Message.RemoteNonce = e

OnHello(e) ==
  /\ app[e] = "awaitHello" /\ inbox[e] # <<>>
  /\ AcceptsHello(e)
  /\ Received(e)
  /\ theirs' = [theirs EXCEPT ![e] = Head(inbox[e]).Message]
  /\ LET nonce == Head(inbox[e]).Message.LocalNonce IN
     IF e = Out THEN /\ SendCtx(e, WriteEnvelope(node[e], "HelloAck", [Nonce |-> nonce]))
                     /\ Goto(e, "ackSent")
     ELSE SendCtx(e, WriteEnvelope(node[e], "Hello", Hello(e, nonce))) /\ Goto(e, "helloSent")
  /\ UNCHANGED <<node, wants, close, reason, stream, slow, sent>>

\* The ack is written: the one that dialed is done, and adds the peer to its muxer.
AckWritten(e) ==
  /\ app[e] = "ackSent" /\ Written(e) /\ ~closeCh[e]
  /\ Goto(e, "ready")
  /\ UNCHANGED <<node, theirs, sendCh, wants, inbox, close, reason, stream, slow, sent, got>>

AcceptsAck(e) ==
  /\ Head(inbox[e]).MessageType = MessageTypes.HelloAck
  /\ ValidateEnvelope(node[e], theirs[e].PublicKey, Head(inbox[e]))
  /\ Head(inbox[e]).Message.Nonce = e

\* The end that listens has the ack, and adds the peer to its muxer.
OnHelloAck(e) ==
  /\ app[e] = "awaitAck" /\ inbox[e] # <<>>
  /\ AcceptsAck(e)
  /\ Received(e)
  /\ Goto(e, "ready")
  /\ UNCHANGED <<node, theirs, sendCh, wants, close, reason, stream, slow, sent>>

\* Mutant: the user of a peer whose handshake failed does not close it.
HandshakeForgotten(e) ==
  /\ app[e] \notin {"ready", "over"}
  /\ \/ closeCh[e] \/ "send" \notin running[e]
     \/ app[e] = "awaitHello" /\ inbox[e] # <<>> /\ ~AcceptsHello(e)
     \/ app[e] = "awaitAck" /\ inbox[e] # <<>> /\ ~AcceptsAck(e)
     \/ slow
  /\ Goto(e, "over")
  /\ UNCHANGED <<node, theirs, sendCh, wants, inbox, close, reason, stream, slow, sent, got>>

\* A handshake fails: the peer is closed under it, its message is not written, the other's
\* message is not acceptable, or
\* its context times out.  AcceptPeer and DialPeer then close the peer.
HandshakeFails(e) ==
  /\ app[e] \notin {"ready", "over"}
  /\ \/ closeCh[e] \/ "send" \notin running[e]
     \/ app[e] = "awaitHello" /\ inbox[e] # <<>> /\ ~AcceptsHello(e)
     \/ app[e] = "awaitAck" /\ inbox[e] # <<>> /\ ~AcceptsAck(e)
     \/ slow
  /\ Goto(e, "over") /\ GivesUp(e)
  /\ UNCHANGED <<node, theirs, sendCh, wants, inbox, tokens, closeCh, holder, reason,
                 stream, slow, sent, got>>

----------------------------------------------------------------------------
(* The muxer *)

\* The next message of the script, after the Hello and, from the one that dialed, the
\* ack
Send(e) ==
  LET i == Len(sent[e]) + Len(sendCh[e]) - IF e = Out THEN 1 ELSE 0 IN
  /\ app[e] = "ready" /\ i \in DOMAIN Script[e]
  /\ SendCtx(e, WriteEnvelope(node[e], Script[e][i].type, Script[e][i].body))
  /\ UNCHANGED <<node, app, theirs, wants, inbox, close, reason, stream, slow, sent, got>>

Receive(e) ==
  /\ app[e] = "ready"
  /\ ReceiveCtx(e)
  /\ UNCHANGED <<node, app, theirs, sendCh, inbox, close, reason, stream, slow, sent, got>>

\* The reader hands an envelope to handlePeerMessage.
OnMessage(e) ==
  /\ app[e] = "ready" /\ inbox[e] # <<>>
  /\ ValidateEnvelope(node[e], theirs[e].PublicKey, Head(inbox[e]))
  /\ Received(e)
  /\ UNCHANGED <<node, app, theirs, sendCh, wants, close, reason, stream, slow, sent>>

\* handlePeerClose: the reader had an error or an invalid envelope, or someone wants
\* the peer closed.
HandlePeerClose(e) ==
  /\ app[e] = "ready"
  /\ Goto(e, "over") /\ GivesUp(e)
  /\ UNCHANGED <<node, theirs, sendCh, wants, inbox, tokens, closeCh, holder, reason,
                 stream, slow, sent, got>>

----------------------------------------------------------------------------
(* The goroutines of a peer *)

SetCloseReason(e, r) == reason' = IF reason[e] = None THEN [reason EXCEPT ![e] = r] ELSE reason

\* Mutant: a goroutine returns without leaving its token.
ExitSilently(e, p) ==
  /\ running' = [running EXCEPT ![e] = @ \ {p}]
  /\ closing' = [closing EXCEPT ![e] = @ \cup {p}]
  /\ UNCHANGED <<tokens, closeCh, holder>>

\* A goroutine returns: it leaves its token, and then calls Close.
Exit(e, p) ==
  /\ running' = [running EXCEPT ![e] = @ \ {p}]
  /\ closing' = [closing EXCEPT ![e] = @ \cup {p}]
  /\ tokens' = [tokens EXCEPT ![e] = @ \cup {p}]
  /\ UNCHANGED <<closeCh, holder>>

\* send writes an envelope to the socket, ...
WriteOne(e) ==
  /\ "send" \in running[e] /\ sendCh[e] # <<>> /\ ~closeCh[e]
  /\ sendCh' = [sendCh EXCEPT ![e] = Tail(@)]
  /\ stream' = [stream EXCEPT ![e] = Append(@, EncodeEnvelope(Head(sendCh[e])))]
  /\ sent' = [sent EXCEPT ![e] = Append(@, Head(sendCh[e]))]
  /\ UNCHANGED <<node, app, theirs, wants, inbox, close, reason, slow, got>>

\* ... fails to, because the socket is closed at either end or its deadline is over,
\* or finds closeCh closed.
SendReturns(e) ==
  /\ "send" \in running[e]
  /\ \/ sendCh[e] # <<>> /\ (closeCh[e] \/ closeCh[Other(e)] \/ slow)
          /\ sendCh' = [sendCh EXCEPT ![e] = Tail(@)] /\ SetCloseReason(e, "error")
     \/ closeCh[e] /\ UNCHANGED <<sendCh, reason>>
  /\ Exit(e, "send")
  /\ UNCHANGED <<node, app, theirs, wants, inbox, stream, slow, sent, got>>

\* recv decodes the next envelope for the one who waits, ...
ReadOne(e) ==
  LET s == stream[Other(e)] IN
  /\ "recv" \in running[e] /\ wants[e] /\ ~closeCh[e]
  /\ s # <<>> /\ EnvelopeDecodable(Head(s))
  /\ stream' = [stream EXCEPT ![Other(e)] = Tail(s)]
  /\ inbox' = [inbox EXCEPT ![e] = <<DecodeEnvelope(Head(s))>>]
  /\ wants' = [wants EXCEPT ![e] = FALSE]
  /\ UNCHANGED <<node, app, theirs, sendCh, close, reason, slow, sent, got>>

\* ... fails to, because the socket is closed, because the other end has closed it and
\* everything has been read, or because the deadline is over; or finds closeCh closed.
RecvReturns(e) ==
  LET s == stream[Other(e)] IN
  /\ "recv" \in running[e]
  /\ \/ /\ wants[e]
        /\ \/ closeCh[e] /\ SetCloseReason(e, "error")
           \/ s = <<>> /\ closeCh[Other(e)] /\ SetCloseReason(e, "hangup")
           \/ (slow \/ (s = <<>> /\ app[e] = "ready")) /\ SetCloseReason(e, "error")
           \/ s # <<>> /\ ~EnvelopeDecodable(Head(s)) /\ SetCloseReason(e, "error")
        /\ wants' = [wants EXCEPT ![e] = FALSE]
     \/ closeCh[e] /\ UNCHANGED <<wants, reason>>
  /\ Exit(e, "recv")
  /\ UNCHANGED <<node, app, theirs, sendCh, inbox, stream, slow, sent, got>>

----------------------------------------------------------------------------
(* Close *)

\* The first one closes the socket and closeCh, and has the mutex.
BeginClose(e, p) ==
  /\ p \in closing[e] /\ ~closeCh[e]
  /\ SetCloseReason(e, "closed")
  /\ closeCh' = [closeCh EXCEPT ![e] = TRUE]
  /\ holder' = [holder EXCEPT ![e] = p]
  /\ UNCHANGED <<node, app, theirs, sendCh, wants, inbox, running, closing, tokens, stream,
                 slow, sent, got>>

\* It returns when both goroutines have left their token; those that wait for the mutex
\* then find closeCh closed, and return too.
FinishClose(e) ==
  /\ holder[e] \in Procs /\ tokens[e] = {"send", "recv"}
  /\ tokens' = [tokens EXCEPT ![e] = {}]
  /\ closing' = [closing EXCEPT ![e] = {}]
  /\ holder' = [holder EXCEPT ![e] = "left"]
  /\ UNCHANGED <<node, app, theirs, sendCh, wants, inbox, running, closeCh, reason, stream,
                 slow, sent, got>>

\* A user that calls Close after that finds closeCh closed.
CloseAgain(e) ==
  /\ holder[e] = "left" /\ closing[e] # {}
  /\ closing' = [closing EXCEPT ![e] = {}]
  /\ UNCHANGED <<node, app, theirs, sendCh, wants, inbox, running, tokens, closeCh, holder,
                 reason, stream, slow, sent, got>>

\* From now on, messages may take longer than any deadline.
Slow ==
  /\ ~slow /\ slow' = TRUE
  /\ UNCHANGED <<node, app, theirs, sendCh, wants, inbox, close, reason, stream, sent, got>>

----------------------------------------------------------------------------

Handshake(e) ==
  SendHello(e) \/ AwaitHandshake(e) \/ OnHello(e) \/ AckWritten(e) \/ OnHelloAck(e)
    \/ HandshakeFails(e)

Muxer(e) ==
  Receive(e) \/ OnMessage(e) \/ HandlePeerClose(e) \/ Send(e)

Goroutines(e) == WriteOne(e) \/ SendReturns(e) \/ ReadOne(e) \/ RecvReturns(e)

Closers(e) == FinishClose(e) \/ CloseAgain(e) \/ \E p \in Procs : BeginClose(e, p)

Next ==
  \/ \E e \in E : Handshake(e) \/ Muxer(e) \/ Goroutines(e) \/ Closers(e)
  \/ Slow

Spec == Init /\ [][Next]_vars

\* Goroutines run, the handshakes' contexts and the socket's deadlines expire, and the
\* reader asks for the next envelope; nobody has to send or to close a peer.
Fairness ==
  \A e \in E :
    /\ WF_vars(Handshake(e))
    /\ WF_vars(Receive(e) \/ OnMessage(e))
    /\ WF_vars(closeCh[e] /\ HandlePeerClose(e))
    /\ WF_vars(WriteOne(e)) /\ WF_vars(SendReturns(e))
    /\ WF_vars(~slow /\ ReadOne(e))
    /\ WF_vars((closeCh[Other(e)] \/ closeCh[e]) /\ RecvReturns(e))
    /\ WF_vars(Closers(e))

FairSpec == Spec /\ Fairness

----------------------------------------------------------------------------
(* Properties *)

\* What an end has been given is what the other has written, in that order and as it
\* was meant, handshake and messages alike: nothing is lost, repeated or changed by
\* the buffers, the codec and the handover from the receiving goroutine.
InOrder ==
  \A e \in E :
    LET g == got[e]
        s == sent[Other(e)]
    IN  /\ Len(g) <= Len(s)
        /\ \A i \in DOMAIN g : Meaning(g[i]) = Meaning(s[i])

\* Whether all messages of a node can be decoded, with the meaning and with the valid
\* signature that they were sent with
Understood ==
  [n \in Nodes[Out] \cup Nodes[In] |-> \A m \in Messages :
     LET env == WriteEnvelope(n, m.type, m.body)
         raw == EncodeEnvelope(env)
     IN  /\ EnvelopeDecodable(raw)
         /\ Meaning(DecodeEnvelope(raw)) = Meaning(env)
         /\ ValidateEnvelope(n, n.key, DecodeEnvelope(raw))]

\* Whatever an end sends, messages of every type, the other end decodes to what it
\* meant; and the signature, made before the time was cut to seconds, is still valid.
EveryMessageSurvives == \A e \in E : Understood[node[e]]

\* An end that takes part in the network has greeted a node of the same network, with
\* a clock that agrees; and when both do, they have the same version, although each
\* of the two only refuses newer ones.
HandshakeAgrees ==
  \A e \in E : app[e] = "ready" =>
    LET o == node[Other(e)] IN
    /\ theirs[e].PublicKey = o.key /\ node[e].magic = o.magic
    /\ o.clock - node[e].clock <= Deadline + 1 /\ node[e].clock - o.clock <= Deadline + 1
    /\ o.version <= node[e].version
    /\ e = In => o.version = node[e].version

\* Close returns to everyone who calls it, whichever of the goroutines and the user
\* was first, and nothing of the peer is left running.
CloseReturns ==
  \A e \in E : closeCh[e] ~> (running[e] = {} /\ closing[e] = {})

\* No end is left with half a connection: if one end closes it, so does the other (it
\* reads the end of the stream, its deadline expires, or its handshake fails).
NoHalfOpen == \A e \in E : closeCh[e] ~> closeCh[Other(e)]

=============================================================================
