----------------------------- MODULE RelayProofs -----------------------------
(***************************************************************************)
(* The safety of the handoff and of relay for buffers of any size and      *)
(* peers that send any number of chunks.                                   *)
(***************************************************************************)
EXTENDS Relay, TLAPS

----------------------------------------------------------------------------
(* The inductive invariant.                                                *)

(* The chunk io.Copy into s has read and not written.                      *)
Held(s) == IF copier[s] = "write" THEN 1 ELSE 0

(* No chunk on its way to s is lost or made up: as long as its copy has    *)
(* not ended, what its peer sent has been passed on, is held or is unread. *)
Balanced(s) ==
    /\ passed[s] <= sent[Other(s)]
    /\ copier[s] # "done" => passed[s] + Held(s) + inq[Other(s)] = sent[Other(s)]

(* The copies run without a deadline.                                      *)
NoDeadline ==
    /\ main = "handoff" => \A s \in Sides : copier[s] = "idle"
    /\ main # "handoff" => deadline = "off"

(* What relay has closed at each of its stages, and why it got there.      *)
Progress ==
    /\ closed # {} => main \notin {"handoff", "first"}
    /\ main \notin {"handoff", "first"} => \E s \in Sides : copier[s] = "done"

(* A copy ends only after a peer has gone, ...                             *)
EndsHaveCause == (\E s \in Sides : copier[s] = "done") => gone # {}

(* ... and if that peer s closed in order and its other is still there, a  *)
(* copy has ended only after the one from s has passed everything on.      *)
Drained(s) ==
    /\ s \in gone \ reset /\ Other(s) \notin gone
    /\ \E t \in Sides : copier[t] = "done"
    => passed[Other(s)] = sent[s]

IInv ==
    /\ TypeOK
    /\ \A s \in Sides : Balanced(s) /\ Drained(s)
    /\ NoDeadline /\ Progress /\ EndsHaveCause

(* The connections are two, each the other's other.                        *)
LEMMA OtherSide ==
    \A s \in Sides :
      /\ Other(s) \in Sides /\ Other(s) # s /\ Other(Other(s)) = s
      /\ \A t \in Sides : t = s \/ t = Other(s)
  BY DEF Sides, Other

(* Nothing is on its way before the handoff.                               *)
LEMMA InitInv == Init => IInv
<1> SUFFICES ASSUME Init PROVE IInv
  OBVIOUS
<1> USE RelayAssumption DEF Init
<1>1. TypeOK
  BY DEF TypeOK
<1>2. \A s \in Sides : Balanced(s) /\ Drained(s)
  BY OtherSide DEF Balanced, Drained, Held
<1>3. NoDeadline /\ Progress /\ EndsHaveCause
  BY DEF NoDeadline, Progress, EndsHaveCause
<1> QED
  BY <1>1, <1>2, <1>3 DEF IInv

(* A copy that is reading or writing has no deadline to meet.              *)
LEMMA NeverTimedOut ==
    ASSUME IInv, NEW s \in Sides, copier[s] # "idle"
    PROVE  \A t \in Sides : ~TimedOut(t)
  BY DEF IInv, NoDeadline, TimedOut

(* io.Copy reads the next chunk of the sender's connection.                *)
LEMMA CopyReadStep == ASSUME IInv, NEW s \in Sides, CopyRead(s) PROVE IInv'
<1> USE RelayAssumption DEF IInv
<1> PICK o \in Sides : o = Other(s)
  BY OtherSide
<1>0. o # s /\ Other(o) = s /\ Other(s) = o /\ \A t \in Sides : t = s \/ t = o
  BY OtherSide
<1>1. /\ inq[o] \in 1 .. BufSize /\ inq[o] \in Nat /\ copier[s] = "read"
      /\ inq' = [inq EXCEPT ![o] = inq[o] - 1]
      /\ copier' = [copier EXCEPT ![s] = "write"]
      /\ UNCHANGED <<peers, closed, sent, outq, passed, main>>
  BY <1>0 DEF CopyRead, TypeOK
<1>2. /\ inq'[o] = inq[o] - 1 /\ inq'[s] = inq[s]
      /\ copier'[s] = "write" /\ copier'[o] = copier[o]
  BY <1>0, <1>1 DEF TypeOK
<1>3. TypeOK'
  BY <1>1 DEF TypeOK, peers
<1>4. Balanced(s)'
  <2>1. passed[s] \in Nat /\ sent[o] \in Nat
    BY DEF TypeOK
  <2>2. passed[s] + 0 + inq[o] = sent[o] /\ passed[s] <= sent[o]
    BY <1>0, <1>1 DEF Balanced, Held
  <2>3. passed[s] + 1 + (inq[o] - 1) = sent[o]
    BY <1>1, <2>1, <2>2
  <2> QED
    BY <1>0, <1>1, <1>2, <2>2, <2>3 DEF Balanced, Held
<1>5. Balanced(o)'
  BY <1>0, <1>1, <1>2 DEF Balanced, Held
<1>6. (\E t \in Sides : copier'[t] = "done") <=> (\E t \in Sides : copier[t] = "done")
  BY <1>0, <1>1, <1>2
<1>7. \A t \in Sides : Drained(t)'
  BY <1>1, <1>6 DEF Drained, peers
<1>8. NoDeadline' /\ Progress' /\ EndsHaveCause'
  BY <1>1, <1>6 DEF NoDeadline, Progress, EndsHaveCause, peers
<1> QED
  BY <1>0, <1>3, <1>4, <1>5, <1>7, <1>8

(* io.Copy writes the chunk it holds.  It holds none of a peer that has    *)
(* been drained.                                                           *)
LEMMA CopyWriteStep == ASSUME IInv, NEW s \in Sides, CopyWrite(s) PROVE IInv'
<1> USE RelayAssumption DEF IInv
<1> PICK o \in Sides : o = Other(s)
  BY OtherSide
<1>0. o # s /\ Other(o) = s /\ Other(s) = o /\ \A t \in Sides : t = s \/ t = o
  BY OtherSide
<1>1. /\ outq[s] < BufSize /\ copier[s] = "write"
      /\ outq' = [outq EXCEPT ![s] = outq[s] + 1]
      /\ passed' = [passed EXCEPT ![s] = passed[s] + 1]
      /\ reset' = reset \cup ({s} \cap gone)
      /\ copier' = [copier EXCEPT ![s] = "read"]
      /\ UNCHANGED <<deadline, gone, closed, sent, inq, main>>
  BY DEF CopyWrite
<1>2. /\ passed[s] \in Nat /\ sent[o] \in 0 .. MaxChunks /\ inq[o] \in Nat /\ outq[s] \in Nat
      /\ passed[s] + 1 + inq[o] = sent[o]
  BY <1>0, <1>1 DEF Balanced, Held, TypeOK
<1>3. /\ passed[s] + 1 <= sent[o] /\ passed[s] + 1 \in 0 .. MaxChunks
      /\ passed[s] + 1 + 0 + inq[o] = sent[o] /\ passed[s] # sent[o]
  BY <1>2
<1>4. /\ passed'[s] = passed[s] + 1 /\ passed'[o] = passed[o]
      /\ copier'[s] = "read" /\ copier'[o] = copier[o]
  BY <1>0, <1>1 DEF TypeOK
<1>5. TypeOK'
  <2>1. outq' \in [Sides -> 0 .. BufSize]
    BY <1>1, <1>2 DEF TypeOK
  <2>2. passed' \in [Sides -> 0 .. MaxChunks]
    BY <1>1, <1>3 DEF TypeOK
  <2> QED
    BY <1>1, <2>1, <2>2 DEF TypeOK
<1>6. Balanced(s)' /\ Balanced(o)'
  BY <1>0, <1>1, <1>3, <1>4 DEF Balanced, Held
<1>7. (\E t \in Sides : copier'[t] = "done") <=> (\E t \in Sides : copier[t] = "done")
  BY <1>0, <1>1, <1>4
<1>8. Drained(s)' /\ Drained(o)'
  BY <1>0, <1>1, <1>3, <1>4, <1>7 DEF Drained
<1>9. NoDeadline' /\ Progress' /\ EndsHaveCause'
  BY <1>1, <1>7 DEF NoDeadline, Progress, EndsHaveCause
<1> QED
  BY <1>0, <1>5, <1>6, <1>8, <1>9

(* io.Copy ends.  The first to end has met a peer's close: the EOF behind  *)
(* the last chunk of a peer that closed in order, or a reset.              *)
LEMMA CopyEndStep ==
    ASSUME IInv, NEW s \in Sides, CopyReadEnd(s) \/ CopyWriteEnd(s)
    PROVE  IInv'
<1> USE RelayAssumption DEF IInv
<1> PICK o \in Sides : o = Other(s)
  BY OtherSide
<1>0. o # s /\ Other(o) = s /\ Other(s) = o /\ \A t \in Sides : t = s \/ t = o
  BY OtherSide
<1> DEFINE Ended == \E t \in Sides : copier[t] = "done"
<1>1. /\ copier' = [copier EXCEPT ![s] = "done"] /\ copier[s] \in {"read", "write"}
      /\ reset \subseteq reset' /\ reset' \subseteq gone
      /\ UNCHANGED <<deadline, gone, closed, sent, inq, outq, passed, main>>
  BY DEF CopyReadEnd, CopyWriteEnd, peers, net, TypeOK
<1>2. copier'[s] = "done" /\ copier'[o] = copier[o]
  BY <1>0, <1>1 DEF TypeOK
<1>3. \/ closed # {}
      \/ copier[s] = "read" /\ o \in reset
      \/ copier[s] = "read" /\ o \in gone /\ inq[o] = 0
      \/ copier[s] = "write" /\ s \in gone /\ s \in reset'
  <2>1. CASE CopyReadEnd(s)
    BY <1>0, <2>1, NeverTimedOut DEF CopyReadEnd
  <2>2. CASE CopyWriteEnd(s)
    BY <2>2, NeverTimedOut DEF CopyWriteEnd
  <2> QED
    BY <2>1, <2>2
<1>4. closed # {} => Ended
  BY DEF Progress
<1>5. gone # {}
  BY <1>3, <1>4 DEF EndsHaveCause, TypeOK
<1>6. TypeOK'
  BY <1>1 DEF TypeOK
<1>7. Balanced(s)' /\ Balanced(o)'
  BY <1>0, <1>1, <1>2 DEF Balanced, Held
<1>8. Drained(s)'
  <2>1. Ended => Drained(s)'
    BY <1>1 DEF Drained
  <2>2. ~Ended => o \in gone \/ s \in reset'
    BY <1>3, <1>4 DEF TypeOK
  <2> QED
    BY <1>0, <1>1, <2>1, <2>2 DEF Drained
<1>9. Drained(o)'
  <2>1. Ended => Drained(o)'
    BY <1>1 DEF Drained
  <2>2. ASSUME ~Ended, o \in gone \ reset', s \notin gone
        PROVE  passed[s] = sent[o]
    <3>1. copier[s] = "read" /\ inq[o] = 0
      BY <1>1, <1>3, <1>4, <2>2
    <3>2. passed[s] + 0 + 0 = sent[o] /\ passed[s] \in Nat
      BY <1>0, <3>1 DEF Balanced, Held, TypeOK
    <3> QED
      BY <3>2
  <2>3. ~Ended => Drained(o)'
    BY <1>0, <1>1, <2>2 DEF Drained
  <2> QED
    BY <2>1, <2>3
<1>10. NoDeadline' /\ Progress' /\ EndsHaveCause'
  BY <1>1, <1>2, <1>5 DEF NoDeadline, Progress, EndsHaveCause
<1> QED
  BY <1>0, <1>6, <1>7, <1>8, <1>9, <1>10

(* A peer that is still there sends a chunk, or reads one.                 *)
LEMMA PeerDataStep ==
    ASSUME IInv, NEW s \in Sides, PeerSend(s) \/ PeerRecv(s)
    PROVE  IInv'
<1> USE RelayAssumption DEF IInv
<1> PICK o \in Sides : o = Other(s)
  BY OtherSide
<1>0. o # s /\ Other(o) = s /\ Other(s) = o /\ \A t \in Sides : t = s \/ t = o
  BY OtherSide
<1>1. CASE PeerRecv(s)
  <2>1. /\ outq[s] \in 1 .. BufSize /\ outq' = [outq EXCEPT ![s] = outq[s] - 1]
        /\ UNCHANGED <<deadline, gone, reset, closed, sent, inq, passed, copier, main>>
    BY <1>1 DEF PeerRecv, TypeOK, peers
  <2>2. TypeOK'
    BY <2>1 DEF TypeOK
  <2> QED
    BY <2>1, <2>2 DEF Balanced, Held, Drained, NoDeadline, Progress, EndsHaveCause
<1>2. CASE PeerSend(s)
  <2>1. /\ s \notin gone /\ sent[s] < MaxChunks /\ inq[s] < BufSize
        /\ sent' = [sent EXCEPT ![s] = sent[s] + 1]
        /\ inq' = [inq EXCEPT ![s] = inq[s] + 1]
        /\ UNCHANGED <<deadline, gone, reset, closed, outq, passed, copier, main>>
    BY <1>2 DEF PeerSend, peers
  <2>2. sent[s] \in Nat /\ inq[s] \in Nat /\ passed[o] \in Nat /\ Held(o) \in Nat
    BY DEF TypeOK, Held
  <2>3. /\ sent'[s] = sent[s] + 1 /\ inq'[s] = inq[s] + 1
        /\ sent'[o] = sent[o] /\ inq'[o] = inq[o]
    BY <1>0, <2>1 DEF TypeOK
  <2>4. TypeOK'
    <3>1. sent' \in [Sides -> 0 .. MaxChunks]
      BY <2>1, <2>2 DEF TypeOK
    <3>2. inq' \in [Sides -> 0 .. BufSize]
      BY <2>1, <2>2 DEF TypeOK
    <3> QED
      BY <2>1, <3>1, <3>2 DEF TypeOK
  <2>5. Held(o)' = Held(o)
    BY <2>1 DEF Held
  <2>6. Balanced(o)'
    <3>1. /\ passed[o] <= sent[s]
          /\ copier[o] # "done" => passed[o] + Held(o) + inq[s] = sent[s]
      BY <1>0 DEF Balanced
    <3>2. /\ passed[o] <= sent[s] + 1
          /\ copier[o] # "done" => passed[o] + Held(o) + (inq[s] + 1) = sent[s] + 1
      BY <2>2, <3>1
    <3> QED
      BY <1>0, <2>1, <2>3, <2>5, <3>2 DEF Balanced
  <2>7. Balanced(s)'
    BY <1>0, <2>1, <2>3 DEF Balanced, Held
  <2>8. Drained(s)' /\ Drained(o)'
    BY <1>0, <2>1, <2>3 DEF Drained
  <2>9. NoDeadline' /\ Progress' /\ EndsHaveCause'
    BY <2>1 DEF NoDeadline, Progress, EndsHaveCause
  <2> QED
    BY <1>0, <2>4, <2>6, <2>7, <2>8, <2>9
<1> QED
  BY <1>1, <1>2

(* A peer goes away.  If a copy has ended before, the other peer is gone   *)
(* already, and there is nobody left for last words.                       *)
LEMMA PeerGoneStep ==
    ASSUME IInv, NEW s \in Sides, PeerClose(s) \/ PeerAbort(s)
    PROVE  IInv'
<1> USE RelayAssumption DEF IInv
<1> PICK o \in Sides : o = Other(s)
  BY OtherSide
<1>0. o # s /\ Other(o) = s /\ Other(s) = o /\ \A t \in Sides : t = s \/ t = o
  BY OtherSide
<1>1. /\ s \notin gone /\ gone' = gone \cup {s} /\ reset' \in {reset, reset \cup {s}}
      /\ UNCHANGED <<deadline, closed, sent, inq, outq, passed, copier, main>>
  BY DEF PeerClose, PeerAbort, net
<1>2. TypeOK'
  BY <1>1 DEF TypeOK
<1>3. \A t \in Sides : Balanced(t)'
  BY <1>1 DEF Balanced, Held
<1>4. (\E t \in Sides : copier[t] = "done") => o \in gone
  BY <1>0, <1>1 DEF EndsHaveCause, TypeOK
<1>5. Drained(s)' /\ Drained(o)'
  BY <1>0, <1>1, <1>4 DEF Drained
<1>6. NoDeadline' /\ Progress' /\ EndsHaveCause'
  BY <1>1 DEF NoDeadline, Progress, EndsHaveCause
<1> QED
  BY <1>0, <1>2, <1>3, <1>5, <1>6

(* The session's goroutine takes a step, or the login deadline passes.     *)
LEMMA SessionStep == ASSUME IInv, Session \/ Expire PROVE IInv'
<1> USE RelayAssumption DEF IInv
<1>1. CASE Handoff
  <2>1. /\ copier' = [s \in Sides |-> "read"] /\ deadline' = "off"
        /\ main = "handoff" /\ main' = "first"
        /\ UNCHANGED <<gone, reset, closed, sent, inq, outq, passed>>
        /\ \A s \in Sides : copier[s] = "idle" /\ copier'[s] = "read"
    BY <1>1 DEF Handoff, net, NoDeadline
  <2>2. TypeOK'
    BY <2>1 DEF TypeOK
  <2>3. \A s \in Sides : Balanced(s)' /\ Drained(s)'
    BY <2>1 DEF Balanced, Held, Drained
  <2>4. NoDeadline' /\ Progress' /\ EndsHaveCause'
    BY <2>1 DEF NoDeadline, Progress, EndsHaveCause
  <2> QED
    BY <2>2, <2>3, <2>4
<1>2. CASE FirstDone \/ CloseA \/ CloseB \/ SecondDone \/ Expire
  <2> USE DEF FirstDone, CloseA, CloseB, SecondDone, Expire, peers, net
  <2>1. UNCHANGED <<gone, reset, sent, inq, outq, passed, copier>>
    BY <1>2
  <2>2. \A s \in Sides : Balanced(s)' /\ Drained(s)'
    BY <2>1 DEF Balanced, Held, Drained
  <2>3. TypeOK'
    BY <1>2, <2>1 DEF TypeOK, Sides
  <2>4. NoDeadline'
    BY <1>2, <2>1 DEF NoDeadline
  <2>5. Progress'
    BY <1>2, <2>1 DEF Progress
  <2>6. EndsHaveCause'
    BY <2>1 DEF EndsHaveCause
  <2> QED
    BY <2>2, <2>3, <2>4, <2>5, <2>6
<1> QED
  BY <1>1, <1>2 DEF Session

(* The invariant holds in every reachable state.                           *)
THEOREM InvHolds == Spec => []IInv
<1>1. IInv /\ Next => IInv'
  BY CopyReadStep, CopyWriteStep, CopyEndStep, PeerDataStep, PeerGoneStep, SessionStep
     DEF Next, Copy, Peer
<1>2. IInv /\ UNCHANGED vars => IInv'
  BY DEF IInv, TypeOK, Balanced, Held, Drained, NoDeadline, Progress, EndsHaveCause, vars
<1> QED
  BY InitInv, <1>1, <1>2, PTL DEF Spec

----------------------------------------------------------------------------
(* The variables keep their types and no connection holds more than its    *)
(* buffer (server.go:358-359).                                             *)
THEOREM TypesHold == Spec => []TypeOK
<1>1. IInv => TypeOK
  BY DEF IInv
<1> QED
  BY InvHolds, <1>1, PTL

(* Whenever the login deadline passes, before the handoff or never, relay  *)
(* leaves its first wait only after one of the peers has closed            *)
(* (postgres.go:273, server.go:360).                                       *)
THEOREM NeverEndsALiveSession == Spec => []EndsOnlyWhenClosed
<1>1. IInv => EndsOnlyWhenClosed
  BY DEF IInv, Progress, EndsHaveCause, EndsOnlyWhenClosed
<1> QED
  BY InvHolds, <1>1, PTL

(* relay closes the connection of a peer that is still there only after    *)
(* everything a peer that closed in order has sent was written to it       *)
(* (server.go:358-362).                                                    *)
THEOREM LastWordsReachThePeer == Spec => []LastWordsDelivered
<1>1. IInv => LastWordsDelivered
  BY DEF IInv, Progress, Drained, LastWordsDelivered
<1> QED
  BY InvHolds, <1>1, PTL
=============================================================================
