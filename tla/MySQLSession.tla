---------------------------- MODULE MySQLSession ----------------------------
(***************************************************************************)
(* The life of a connection on a MySQL listener: serveMySQL and myRelay of *)
(* iamproxy/mysql.go.  MySQL sessions share nothing with each other, so    *)
(* there is one.                                                           *)
(*                                                                         *)
(* The login is a line of stages like that of PostgresSession.  Both login *)
(* parties name the capabilities that change how later packets are framed; *)
(* the client has done so before the upstream is known.  The relay has two *)
(* goroutines: io.Copy from the upstream to the client, and a pump that    *)
(* reads the client's packets, forwards them, and answers COM_CHANGE_USER  *)
(* itself, into the connection that io.Copy also writes to.                *)
(*                                                                         *)
(* An answer is two fragments, which io.Copy may carry separately; the     *)
(* pump's own answer is two writes, the header and the body.  How a peer   *)
(* that does not read holds up the relay is the Relay module's subject;    *)
(* here writes do not block.                                               *)
(***************************************************************************)
EXTENDS Naturals, Sequences, FiniteSets

CONSTANTS
    Framing,        \* myFramingCaps
    AskedByDefault, \* those go-mysql asks an upstream for unless told not to
    Window,         \* commands a client has outstanding at most
    MaxCmds         \* bound: commands a client sends

(* go-mysql asks for these two by itself, which serveMySQL relies on.      *)
NotSettable == {"DEPRECATE_EOF", "QUERY_ATTRIBUTES"}

ASSUME MySQLAssumption ==
    /\ AskedByDefault \subseteq Framing
    /\ Framing \cap NotSettable \subseteq AskedByDefault
    /\ Window \in Nat \ {0} /\ MaxCmds \in Nat

VARIABLES
    ctx,        \* TRUE until the context of Start is cancelled
    stage,      \* what the session's goroutine does next
    front,      \* the client connection, its deadline included
    backend,    \* the upstream connection
    wants,      \* framing capabilities of the client's response
    serves,     \* framing capabilities of the upstream server
    agreed,     \* framing capabilities go-mysql and the upstream agreed on
    cmds,       \* kinds of the commands the client has sent
    fromClient, \* packets the pump has not read
    pump,       \* the pump: "read", "answer", "body", "forward" or "done"
    packet,     \* the packet the pump is dealing with
    toUp,       \* packets of a command the upstream has not finished reading
    ran,        \* history: commands the upstream has run, 0 for a garbled one
    fromUp,     \* fragments that io.Copy has not read
    copier,     \* io.Copy to the client: "read", "write" or "done"
    hand,       \* the fragment it holds between its read and its write
    toClient,   \* fragments written to the client, unread
    seen        \* history: fragments the client has read

session == <<ctx, stage, front, backend>>
caps == <<wants, serves, agreed>>
upward == <<fromClient, pump, packet, toUp>>
downward == <<fromUp, copier, hand, toClient>>
history == <<cmds, ran, seen>>
vars == <<session, caps, upward, downward, history>>

LoginStages == {"greet", "sslRequest", "handshake", "response",
                "validate", "connect", "agree", "ok"}

(* Stages in which the goroutine reads from, or writes to, the client.     *)
Talking == {"greet", "sslRequest", "handshake", "response", "ok"}

(* Commands: one packet, two packets the second of which happens to begin  *)
(* with the byte 0x11, and COM_CHANGE_USER.                                *)
Kinds == {"query", "long", "change"}

Packet(n, seq, op, last) == [cmd |-> n, seq |-> seq, op |-> op, last |-> last]

Packets(n, kind) ==
    CASE kind = "query"  -> <<Packet(n, 0, "other", TRUE)>>
      [] kind = "long"   -> <<Packet(n, 0, "other", FALSE), Packet(n, 1, "0x11", TRUE)>>
      [] kind = "change" -> <<Packet(n, 0, "0x11", TRUE)>>

NoPacket == Packet(0, 0, "other", TRUE)

Answer(n) == <<<<n, "head">>, <<n, "tail">>>>

NoFragment == <<0, "head">>

Init ==
    /\ ctx = TRUE /\ stage = "idle" /\ front = "none" /\ backend = "none"
    /\ wants = {} /\ agreed = {} /\ serves \in SUBSET Framing
    /\ cmds = <<>> /\ ran = <<>> /\ seen = <<>>
    /\ fromClient = <<>> /\ toUp = <<>> /\ fromUp = <<>> /\ toClient = <<>>
    /\ pump = "read" /\ packet = NoPacket
    /\ copier = "read" /\ hand = NoFragment

----------------------------------------------------------------------------
(* Login.                                                                  *)

Usable == front \in {"armed", "free"}

relaying == <<upward, downward, history>>

(* serveMySQL returns: the deferred backend.Close, then the accept loop's  *)
(* conn.Close.                                                             *)
Return(to) ==
    /\ stage' = to
    /\ front' = "closed"
    /\ backend' = IF backend = "none" THEN backend ELSE "closed"

(* The next stage, or a return.                                            *)
Proceed(from, to) ==
    /\ stage = from
    /\ \/ stage' = to /\ UNCHANGED <<front, backend>>
       \/ Return("done")
    /\ UNCHANGED <<ctx, relaying>>

(* Defect for LoginEnds: the goroutine sets no deadline.                   *)
AcceptWithoutDeadline ==
    /\ stage = "idle" /\ ctx
    /\ stage' = "greet" /\ front' = "free"
    /\ UNCHANGED <<ctx, backend, caps, relaying>>

(* The accept loop starts the goroutine; its first call is SetDeadline.    *)
Accept ==
    /\ stage = "idle" /\ ctx
    /\ stage' = "greet" /\ front' = "armed"
    /\ UNCHANGED <<ctx, backend, caps, relaying>>

(* The greeting, which offers every framing capability.                    *)
Greet == Usable /\ Proceed("greet", "sslRequest") /\ UNCHANGED caps

(* The 32-byte request for TLS; anything else is answered "TLS is          *)
(* required".                                                              *)
SslRequest == Usable /\ Proceed("sslRequest", "handshake") /\ UNCHANGED caps

(* HandshakeContext fails once ctx is cancelled.                           *)
Handshake == Usable /\ ctx /\ Proceed("handshake", "response") /\ UNCHANGED caps

(* The framing capabilities of a response that parses; one that does not   *)
(* is the failing branch of Response.                                      *)
myHandshakeResponse == SUBSET Framing

(* The response, or one that is out of sequence or does not parse.         *)
Response ==
    /\ Usable
    /\ Proceed("response", "validate")
    /\ wants' \in myHandshakeResponse
    /\ UNCHANGED <<serves, agreed>>

(* A read or write fails: the client is gone, the deadline passed, or      *)
(* HandshakeContext saw ctx.                                               *)
IOFail ==
    /\ stage \in Talking
    /\ ~Usable \/ (stage = "handshake" /\ ~ctx)
    /\ Return("done")
    /\ UNCHANGED <<ctx, caps, relaying>>

(* service.Validate.                                                       *)
Validate == Proceed("validate", "connect") /\ UNCHANGED caps

(* External: go-mysql asks for its defaults and what was set, without what *)
(* was unset, and the server agrees to what it has of these.               *)
Negotiate(set, unset) == ((AskedByDefault \cup set) \ unset) \cap serves

(* Defect for FramingExact: capabilities of the client are not set.        *)
ConnectDefaults ==
    /\ ctx
    /\ stage = "connect" /\ stage' = "agree"
    /\ backend' = "open"
    /\ agreed' = Negotiate({}, Framing \ wants)
    /\ UNCHANGED <<ctx, front, wants, serves, relaying>>

(* client.ConnectWithDialer, with the client's framing capabilities.       *)
Connect ==
    /\ ctx
    /\ stage = "connect" /\ stage' = "agree"
    /\ backend' = "open"
    /\ agreed' = Negotiate(wants \ NotSettable, Framing \ wants)
    /\ UNCHANGED <<ctx, front, wants, serves, relaying>>

(* Refused, wrong backend password, the 10 s limit, or ctx.                *)
ConnectFail ==
    /\ stage = "connect"
    /\ Return("done")
    /\ UNCHANGED <<ctx, caps, relaying>>

(* The capabilities of the upstream connection, decoded from their names:  *)
(* go-mysql has a name for each framing capability.                        *)
myNegotiated == agreed \cap Framing

(* The comparison of frontCap with backCap, flag by flag.                  *)
Agree ==
    /\ stage = "agree"
    /\ \/ wants = myNegotiated /\ stage' = "ok" /\ UNCHANGED <<front, backend>>
       \/ wants # myNegotiated /\ Return("mismatch")
    /\ UNCHANGED <<ctx, caps, relaying>>

(* The OK packet, then SetDeadline(time.Time{}).                           *)
Ok ==
    /\ stage = "ok" /\ Usable
    /\ stage' = "relay" /\ front' = "free"
    /\ UNCHANGED <<ctx, backend, caps, relaying>>

----------------------------------------------------------------------------
(* myRelay: the pump.                                                      *)

Relaying == stage \in {"relay", "second"}

(* Defect for UpstreamRunsTheRest: any packet that begins with 0x11 is     *)
(* taken for a command.                                                    *)
PumpReadAny ==
    /\ Relaying /\ pump = "read" /\ front # "closed" /\ fromClient # <<>>
    /\ packet' = Head(fromClient) /\ fromClient' = Tail(fromClient)
    /\ pump' = IF packet'.op = "0x11" THEN "answer" ELSE "forward"
    /\ UNCHANGED <<session, caps, toUp, downward, history>>

(* io.ReadFull of a header and a body; COM_CHANGE_USER is a first packet   *)
(* that begins with 0x11.                                                  *)
PumpRead ==
    /\ Relaying /\ pump = "read" /\ front # "closed" /\ fromClient # <<>>
    /\ packet' = Head(fromClient) /\ fromClient' = Tail(fromClient)
    /\ pump' = IF packet'.seq = 0 /\ packet'.op = "0x11" THEN "answer" ELSE "forward"
    /\ UNCHANGED <<session, caps, toUp, downward, history>>

(* The read fails: the client is gone or the connection closed.            *)
PumpReadEnd ==
    /\ Relaying /\ pump = "read" /\ front \in {"gone", "closed"}
    /\ pump' = "done"
    /\ UNCHANGED <<session, caps, fromClient, packet, toUp, downward, history>>

(* myError's first write, of the header ...                                *)
PumpAnswer ==
    /\ Relaying /\ pump = "answer" /\ front = "free"
    /\ toClient' = Append(toClient, <<packet.cmd, "head">>)
    /\ pump' = "body"
    /\ UNCHANGED <<session, caps, fromClient, packet, toUp, fromUp, copier, hand, history>>

(* Defect for AnswersInOrder: COM_CHANGE_USER is answered and forwarded.   *)
PumpBodyForward ==
    /\ Relaying /\ pump = "body" /\ front = "free"
    /\ toClient' = Append(toClient, <<packet.cmd, "tail">>)
    /\ pump' = "forward"
    /\ UNCHANGED <<session, caps, fromClient, packet, toUp, fromUp, copier, hand, history>>

(* ... and its second, of the body.                                        *)
PumpBody ==
    /\ Relaying /\ pump = "body" /\ front = "free"
    /\ toClient' = Append(toClient, <<packet.cmd, "tail">>)
    /\ pump' = "read" /\ packet' = NoPacket
    /\ UNCHANGED <<session, caps, fromClient, toUp, fromUp, copier, hand, history>>

(* Its errors are ignored; the next read fails too.                        *)
PumpAnswerFail ==
    /\ Relaying /\ pump \in {"answer", "body"} /\ front \in {"gone", "closed"}
    /\ pump' = "read" /\ packet' = NoPacket
    /\ UNCHANGED <<session, caps, fromClient, toUp, downward, history>>

(* back.Write of the header and of the body.                               *)
PumpForward ==
    /\ Relaying /\ pump = "forward" /\ backend = "open"
    /\ toUp' = Append(toUp, packet)
    /\ pump' = "read" /\ packet' = NoPacket
    /\ UNCHANGED <<session, caps, fromClient, downward, history>>

PumpForwardFail ==
    /\ Relaying /\ pump = "forward" /\ backend \in {"lost", "closed"}
    /\ pump' = "done" /\ packet' = NoPacket
    /\ UNCHANGED <<session, caps, fromClient, toUp, downward, history>>

----------------------------------------------------------------------------
(* myRelay: io.Copy(front, back), and the session's goroutine.             *)

CopyRead ==
    /\ Relaying /\ copier = "read" /\ backend # "closed" /\ fromUp # <<>>
    /\ hand' = Head(fromUp) /\ fromUp' = Tail(fromUp)
    /\ copier' = "write"
    /\ UNCHANGED <<session, caps, upward, toClient, history>>

CopyWrite ==
    /\ Relaying /\ copier = "write" /\ front = "free"
    /\ toClient' = Append(toClient, hand)
    /\ copier' = "read" /\ hand' = NoFragment
    /\ UNCHANGED <<session, caps, upward, fromUp, history>>

CopyEnd ==
    /\ Relaying
    /\ \/ copier = "read" /\ backend \in {"lost", "closed"}
       \/ copier = "write" /\ front \in {"gone", "closed"}
    /\ copier' = "done" /\ hand' = NoFragment
    /\ UNCHANGED <<session, caps, upward, fromUp, toClient, history>>

(* Defect for RelayReturns: the upstream connection stays open.            *)
FirstDoneFrontOnly ==
    /\ stage = "relay" /\ (pump = "done" \/ copier = "done")
    /\ stage' = "second" /\ front' = "closed"
    /\ UNCHANGED <<ctx, backend, caps, relaying>>

(* The first <-done; both connections are closed.                          *)
FirstDone ==
    /\ stage = "relay" /\ (pump = "done" \/ copier = "done")
    /\ stage' = "second" /\ front' = "closed" /\ backend' = "closed"
    /\ UNCHANGED <<ctx, caps, relaying>>

(* The second <-done, and serveMySQL returns.                              *)
SecondDone ==
    /\ stage = "second" /\ pump = "done" /\ copier = "done"
    /\ Return("done")
    /\ UNCHANGED <<ctx, caps, relaying>>

----------------------------------------------------------------------------
(* The environment.                                                        *)

Answered == Cardinality({k \in DOMAIN seen : seen[k][2] = "tail"})

(* External: the client sends a command, with at most Window unanswered.   *)
ClientSend(kind) ==
    /\ stage = "relay" /\ front = "free"
    /\ Len(cmds) < MaxCmds /\ Len(cmds) < Answered + Window
    /\ cmds' = Append(cmds, kind)
    /\ fromClient' = fromClient \o Packets(Len(cmds) + 1, kind)
    /\ UNCHANGED <<session, caps, pump, packet, toUp, downward, ran, seen>>

ClientRead ==
    /\ front # "gone" /\ toClient # <<>>
    /\ seen' = Append(seen, Head(toClient)) /\ toClient' = Tail(toClient)
    /\ UNCHANGED <<session, caps, upward, fromUp, copier, hand, cmds, ran>>

(* The upstream reads the first k packets as one command, and answers it   *)
(* before it reads the next.                                               *)
UpstreamAnswers(k) ==
    LET n == toUp[k].cmd
    IN  /\ backend = "open"
        /\ toUp' = SubSeq(toUp, k + 1, Len(toUp))
        /\ ran' = Append(ran, IF SubSeq(toUp, 1, k) = Packets(n, cmds[n]) THEN n ELSE 0)
        /\ fromUp' = fromUp \o Answer(n)
        /\ UNCHANGED <<session, caps, fromClient, pump, packet, copier, hand, toClient, cmds, seen>>

(* The loop of the tests' fake server, for commands of one packet, which   *)
(* are all it knows.                                                       *)
UpstreamRun == toUp # <<>> /\ Head(toUp).last /\ UpstreamAnswers(1)

(* External: a real server also joins the packets of a long command.       *)
UpstreamRunLong ==
    \E k \in 2 .. Len(toUp) :
      /\ toUp[k].last /\ \A i \in 1 .. k - 1 : ~toUp[i].last
      /\ UpstreamAnswers(k)

(* External: the client drops its connection.                              *)
ClientGone ==
    /\ front \in {"armed", "expired", "free"}
    /\ front' = "gone"
    /\ UNCHANGED <<ctx, stage, backend, caps, relaying>>

(* External: the upstream drops the session.                               *)
BackendLost ==
    /\ backend = "open"
    /\ backend' = "lost"
    /\ UNCHANGED <<ctx, stage, front, caps, relaying>>

(* The 15 s deadline passes.                                               *)
Expire ==
    /\ front = "armed"
    /\ front' = "expired"
    /\ UNCHANGED <<ctx, stage, backend, caps, relaying>>

(* Emulator.Close, or the caller's context.                                *)
Shutdown ==
    /\ ctx /\ ctx' = FALSE
    /\ UNCHANGED <<stage, front, backend, caps, relaying>>

Login ==
    \/ Accept \/ Greet \/ SslRequest \/ Handshake \/ Response \/ IOFail
    \/ Validate \/ Connect \/ ConnectFail \/ Agree \/ Ok

Pump ==
    \/ PumpRead \/ PumpReadEnd \/ PumpAnswer \/ PumpBody \/ PumpAnswerFail
    \/ PumpForward \/ PumpForwardFail

Copy == CopyRead \/ CopyWrite \/ CopyEnd

Environment ==
    \/ \E kind \in Kinds : ClientSend(kind)
    \/ ClientRead \/ UpstreamRun \/ UpstreamRunLong
    \/ ClientGone \/ BackendLost \/ Expire \/ Shutdown

Next == Login \/ Pump \/ Copy \/ FirstDone \/ SecondDone \/ Environment

Spec == Init /\ [][Next]_vars

(* Goroutines run, time passes, I/O on an unusable connection returns and  *)
(* connecting has a time limit.  Client and upstream owe nothing.          *)
Fairness ==
    /\ WF_vars(IOFail) /\ WF_vars(Expire)
    /\ WF_vars(Validate \/ Connect \/ ConnectFail \/ Agree)
    /\ WF_vars(Pump) /\ WF_vars(Copy) /\ WF_vars(FirstDone \/ SecondDone)

FairSpec == Spec /\ Fairness

----------------------------------------------------------------------------
(* Properties.                                                             *)

(* Packets are only relayed when client and upstream frame them alike, and *)
(* a login is refused for its capabilities only when the upstream lacks    *)
(* one the client relies on: what the client has is asked for and what it  *)
(* lacks is turned off (ARCHITECTURE.md:59-63; mysql.go:210-221, 238-244). *)
FramingExact ==
    /\ Relaying => wants = agreed
    /\ stage = "mismatch" => ~(wants \subseteq serves)

(* The upstream runs exactly the client's commands other than              *)
(* COM_CHANGE_USER, in their order and whole, also when a later packet of  *)
(* a long command begins with the byte of COM_CHANGE_USER                  *)
(* (mysql.go:274-298).                                                     *)
UpstreamRunsTheRest ==
    /\ \A k \in DOMAIN ran : ran[k] \in DOMAIN cmds /\ cmds[ran[k]] # "change"
    /\ \A j, k \in DOMAIN ran : j < k => ran[j] < ran[k]
    /\ \A k \in DOMAIN ran : \A n \in 1 .. ran[k] :
         cmds[n] # "change" => \E j \in DOMAIN ran : ran[j] = n

(* A client that waits for its answers gets one to each command, in order, *)
(* no answer cut in two by another: the pump's error packet does not mix   *)
(* with what io.Copy writes to the same connection (mysql.go:273, 289).    *)
AnswersInOrder ==
    LET written == seen \o toClient
    IN  \A k \in DOMAIN written : \E n \in DOMAIN cmds :
          \/ k = 2 * n - 1 /\ written[k] = <<n, "head">>
          \/ k = 2 * n     /\ written[k] = <<n, "tail">>

(* A client that stalls during login is cut by the deadline (mysql.go:156). *)
LoginEnds == stage \in LoginStages ~> stage \in {"relay", "mismatch", "done"}

(* Once one of the two goroutines of the relay has ended the session ends, *)
(* with neither goroutine left (mysql.go:301-304).                         *)
RelayReturns == Relaying /\ (pump = "done" \/ copier = "done") ~> stage = "done"
=============================================================================
