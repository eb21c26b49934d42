------------------------------- MODULE Relay -------------------------------
(***************************************************************************)
(* The last line of servePostgres and relay of iamproxy/server.go: two     *)
(* io.Copy goroutines between the client connection a and the upstream     *)
(* connection b, and the session's goroutine, which first removes the      *)
(* login deadline from a, then waits for the first of them, closes both    *)
(* connections and waits for the second.                                   *)
(*                                                                         *)
(* A connection is modelled by how much its two buffers hold and by who    *)
(* has closed it; MemBuffer says the same of an in-memory connection, and  *)
(* a TCP connection has socket buffers.  io.Copy is external: it reads a   *)
(* chunk, writes it, and stops at the first EOF or error.  Chunks are      *)
(* counted, not named: buffers and io.Copy keep their order.               *)
(***************************************************************************)
EXTENDS Naturals

CONSTANTS
    BufSize,    \* chunks a connection buffers in each direction
    MaxChunks   \* bound: chunks a peer ever sends

ASSUME RelayAssumption == BufSize \in Nat \ {0} /\ MaxChunks \in Nat

Sides == {"a", "b"}
Other(s) == IF s = "a" THEN "b" ELSE "a"

VARIABLES
    deadline,   \* the deadline of a: "armed", "passed" or "off"
    gone,       \* peers that have closed their connection
    reset,      \* those whose close, or data meeting it, reset the connection
    closed,     \* connections the relay has closed
    sent,       \* number of chunks each peer has sent
    inq,        \* of these, in the connection and not read by the relay
    outq,       \* chunks written to each peer that it has not read
    passed,     \* history: chunks ever written to each peer
    copier,     \* io.Copy into each side: "idle", "read", "write" or "done"
    main        \* the session's goroutine

vars == <<deadline, gone, reset, closed, sent, inq, outq, passed, copier, main>>
peers == <<deadline, gone, reset>>
net == <<sent, inq, outq, passed>>

(* The values each variable takes, buffers within their size among them.   *)
TypeOK ==
    /\ deadline \in {"armed", "passed", "off"}
    /\ gone \subseteq Sides /\ reset \subseteq gone /\ closed \subseteq Sides
    /\ sent \in [Sides -> 0 .. MaxChunks] /\ passed \in [Sides -> 0 .. MaxChunks]
    /\ inq \in [Sides -> 0 .. BufSize] /\ outq \in [Sides -> 0 .. BufSize]
    /\ copier \in [Sides -> {"idle", "read", "write", "done"}]
    /\ main \in {"handoff", "first", "closeA", "closeB", "second", "returned"}

(* The login is over: a still has the deadline set for it (postgres.go:135), *)
(* which may pass before the next line is reached.                         *)
Init ==
    /\ deadline = "armed"
    /\ gone = {} /\ reset = {} /\ closed = {}
    /\ sent = [s \in Sides |-> 0] /\ passed = [s \in Sides |-> 0]
    /\ inq = [s \in Sides |-> 0] /\ outq = [s \in Sides |-> 0]
    /\ copier = [s \in Sides |-> "idle"]
    /\ main = "handoff"

(* Reads from, and writes to, this side fail: its deadline has passed.     *)
TimedOut(s) == s = "a" /\ deadline = "passed"

----------------------------------------------------------------------------
(* io.Copy into side s, from the other side.                               *)

(* Its Read returns a chunk.                                               *)
CopyRead(s) ==
    /\ copier[s] = "read" /\ Other(s) \notin closed /\ ~TimedOut(Other(s))
    /\ inq[Other(s)] > 0
    /\ inq' = [inq EXCEPT ![Other(s)] = @ - 1]
    /\ copier' = [copier EXCEPT ![s] = "write"]
    /\ UNCHANGED <<peers, closed, sent, outq, passed, main>>

(* Its Read fails: EOF behind the last chunk of a peer that closed, a      *)
(* reset, the deadline, or the relay has closed the connection.            *)
CopyReadEnd(s) ==
    /\ copier[s] = "read"
    /\ \/ Other(s) \in closed \cup reset \/ TimedOut(Other(s))
       \/ Other(s) \in gone /\ inq[Other(s)] = 0
    /\ copier' = [copier EXCEPT ![s] = "done"]
    /\ UNCHANGED <<peers, closed, net, main>>

(* Defect for TypeOK: nothing holds a writer back.                         *)
CopyWriteUnbounded(s) ==
    /\ copier[s] = "write" /\ s \notin closed /\ ~TimedOut(s)
    /\ outq' = [outq EXCEPT ![s] = @ + 1]
    /\ passed' = [passed EXCEPT ![s] = @ + 1]
    /\ reset' = reset \cup ({s} \cap gone)
    /\ copier' = [copier EXCEPT ![s] = "read"]
    /\ UNCHANGED <<deadline, gone, closed, sent, inq, main>>

(* Its Write is done when the buffer has room.  A chunk that reaches a     *)
(* peer's closed end is answered by a reset.                               *)
CopyWrite(s) ==
    /\ copier[s] = "write" /\ s \notin closed /\ ~TimedOut(s)
    /\ outq[s] < BufSize
    /\ outq' = [outq EXCEPT ![s] = @ + 1]
    /\ passed' = [passed EXCEPT ![s] = @ + 1]
    /\ reset' = reset \cup ({s} \cap gone)
    /\ copier' = [copier EXCEPT ![s] = "read"]
    /\ UNCHANGED <<deadline, gone, closed, sent, inq, main>>

(* Its Write fails: the peer is gone, the deadline has passed, or the      *)
(* relay has closed the connection.                                        *)
CopyWriteEnd(s) ==
    /\ copier[s] = "write" /\ (s \in closed \cup gone \/ TimedOut(s))
    /\ reset' = reset \cup ({s} \cap gone)
    /\ copier' = [copier EXCEPT ![s] = "done"]
    /\ UNCHANGED <<deadline, gone, closed, net, main>>

----------------------------------------------------------------------------
(* The session's goroutine.                                                *)

(* Defect for EndsOnlyWhenClosed: the login deadline is left in place.     *)
HandoffWithDeadline ==
    /\ main = "handoff" /\ main' = "first"
    /\ copier' = [s \in Sides |-> "read"]
    /\ UNCHANGED <<peers, closed, net>>

(* conn.SetDeadline(time.Time{}), which makes even a connection whose      *)
(* deadline has passed usable again; then relay starts its goroutines.     *)
Handoff ==
    /\ main = "handoff" /\ main' = "first"
    /\ deadline' = "off"
    /\ copier' = [s \in Sides |-> "read"]
    /\ UNCHANGED <<gone, reset, closed, net>>

(* Defect for EndsForReadingPeers: relay waits for both directions.        *)
FirstDoneBoth ==
    /\ main = "first" /\ \A s \in Sides : copier[s] = "done"
    /\ main' = "closeA"
    /\ UNCHANGED <<peers, closed, net, copier>>

(* Defect for LastWordsDelivered: relay ends when a peer closes, not when  *)
(* a copy has ended.                                                       *)
FirstGone ==
    /\ main = "first" /\ gone # {}
    /\ main' = "closeA"
    /\ UNCHANGED <<peers, closed, net, copier>>

(* <-done.                                                                 *)
FirstDone ==
    /\ main = "first" /\ \E s \in Sides : copier[s] = "done"
    /\ main' = "closeA"
    /\ UNCHANGED <<peers, closed, net, copier>>

CloseA ==
    /\ main = "closeA" /\ main' = "closeB"
    /\ closed' = closed \cup {"a"}
    /\ UNCHANGED <<peers, net, copier>>

(* Defect for SecondFollowsFirst: only a is closed.                        *)
CloseNothing ==
    /\ main = "closeB" /\ main' = "second"
    /\ UNCHANGED <<peers, closed, net, copier>>

CloseB ==
    /\ main = "closeB" /\ main' = "second"
    /\ closed' = closed \cup {"b"}
    /\ UNCHANGED <<peers, net, copier>>

(* The second <-done, and return.                                          *)
SecondDone ==
    /\ main = "second" /\ \A s \in Sides : copier[s] = "done"
    /\ main' = "returned"
    /\ UNCHANGED <<peers, closed, net, copier>>

----------------------------------------------------------------------------
(* External: the client, the upstream and the clock.                       *)

PeerSend(s) ==
    /\ s \notin gone \cup closed
    /\ sent[s] < MaxChunks /\ inq[s] < BufSize
    /\ sent' = [sent EXCEPT ![s] = @ + 1]
    /\ inq' = [inq EXCEPT ![s] = @ + 1]
    /\ UNCHANGED <<peers, closed, outq, passed, copier, main>>

PeerRecv(s) ==
    /\ s \notin gone /\ outq[s] > 0
    /\ outq' = [outq EXCEPT ![s] = @ - 1]
    /\ UNCHANGED <<peers, closed, sent, inq, passed, copier, main>>

(* A peer that has read everything closes in order: what it sent can       *)
(* still be read, and EOF after it.                                        *)
PeerClose(s) ==
    /\ s \notin gone /\ outq[s] = 0
    /\ gone' = gone \cup {s}
    /\ UNCHANGED <<deadline, reset, closed, net, copier, main>>

(* A peer dies, or closes with unread data: its connection is reset.       *)
PeerAbort(s) ==
    /\ s \notin gone
    /\ gone' = gone \cup {s} /\ reset' = reset \cup {s}
    /\ UNCHANGED <<deadline, closed, net, copier, main>>

(* The 15 s of the login are over.                                         *)
Expire ==
    /\ deadline = "armed" /\ deadline' = "passed"
    /\ UNCHANGED <<gone, reset, closed, net, copier, main>>

Copy(s) == CopyRead(s) \/ CopyReadEnd(s) \/ CopyWrite(s) \/ CopyWriteEnd(s)
Session == Handoff \/ FirstDone \/ CloseA \/ CloseB \/ SecondDone
Peer(s) == PeerSend(s) \/ PeerRecv(s) \/ PeerClose(s) \/ PeerAbort(s)

Next == Session \/ Expire \/ \E s \in Sides : Copy(s) \/ Peer(s)

Spec == Init /\ [][Next]_vars

(* Goroutines that can go on do.  Nothing is assumed of the peers.         *)
FairSpec == Spec /\ WF_vars(Session) /\ \A s \in Sides : WF_vars(Copy(s))

----------------------------------------------------------------------------
(* Properties.                                                             *)

(* The relay never ends a session both of whose peers are still there,     *)
(* however long it is silent and whenever the login deadline passes: no    *)
(* read or write of the relay times out (postgres.go:273, server.go:360).  *)
EndsOnlyWhenClosed == main \notin {"handoff", "first"} => gone # {}

(* The last words of a peer that closes in order, an error of the server   *)
(* or the last statement of a client, all reach the other peer's           *)
(* connection before relay closes it, if that peer is still there and sent *)
(* nothing that met the closed end (server.go:358-362: both connections    *)
(* are closed when one direction has ended, not when one peer has).        *)
LastWordsDelivered ==
    \A s \in Sides :
      /\ Other(s) \in closed
      /\ s \in gone \ reset /\ Other(s) \notin gone
      => passed[Other(s)] = sent[s]

(* Once one direction has ended the relay returns, even if the other one   *)
(* is blocked on a peer that neither reads nor writes (server.go:360-363). *)
SecondFollowsFirst == (\E s \in Sides : copier[s] = "done") ~> main = "returned"

(* server.go:203-204: "Relayed sessions end when either side closes."      *)
EndsWhenEitherCloses == gone # {} ~> main = "returned"

(* The same for peers that keep reading until they close: then no copy     *)
(* into a peer stays blocked, and each close is noticed (server.go:358-360). *)
EndsForReadingPeers ==
    (\A s \in Sides : WF_vars(PeerRecv(s))) => EndsWhenEitherCloses
=============================================================================
