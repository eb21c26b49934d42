------------------------- MODULE MySQLSessionProofs -------------------------
(***************************************************************************)
(* The capability negotiation of serveMySQL, for any set of framing        *)
(* capabilities, any defaults of go-mysql and any upstream; what the       *)
(* upstream runs, for any number of commands and any window; and the       *)
(* answers of a client that waits for each.                                *)
(***************************************************************************)
EXTENDS MySQLSession, SequenceTheorems, FiniteSetTheorems, TLAPS

(* What the client and the upstream know of are framing capabilities, and  *)
(* between connecting and the comparison agreed is what was negotiated.    *)
Negotiated ==
    /\ wants \subseteq Framing
    /\ stage = "agree" => agreed = Negotiate(wants \ NotSettable, Framing \ wants)
    /\ stage = "ok" => wants = agreed

FramingInv == Negotiated /\ FramingExact

(* go-mysql's request, cut down to what the upstream has, is the client's  *)
(* set exactly when the upstream has all of it: every capability can be    *)
(* turned off, and each one of the client's is set or asked for anyway     *)
(* (mysql.go:210-221).                                                     *)
LEMMA NegotiateExact ==
    ASSUME wants \subseteq Framing
    PROVE  Negotiate(wants \ NotSettable, Framing \ wants) = wants \cap serves
  BY MySQLAssumption DEF Negotiate

(* The login keeps the invariant.                                          *)
LEMMA LoginStep == FramingInv /\ Login => FramingInv'
<1> SUFFICES ASSUME FramingInv, Login PROVE FramingInv'
  OBVIOUS
<1> USE DEF FramingInv, Negotiated, FramingExact, Relaying, caps
<1>1. CASE Accept \/ Ok \/ IOFail \/ ConnectFail
  BY <1>1 DEF Accept, Ok, IOFail, ConnectFail, Return, Talking, Negotiate
<1>2. CASE Greet \/ SslRequest \/ Handshake \/ Validate
  BY <1>2 DEF Greet, SslRequest, Handshake, Validate, Proceed, Return, Negotiate
<1>3. CASE Response
  BY <1>3 DEF Response, Proceed, Return, myHandshakeResponse
<1>4. CASE Connect
  BY <1>4 DEF Connect, Negotiate
<1>5. CASE Agree
  <2>1. agreed = wants \cap serves /\ myNegotiated = agreed
    BY <1>5, NegotiateExact DEF Agree, myNegotiated
  <2> QED
    BY <1>5, <2>1 DEF Agree, Return
<1> QED
  BY <1>1, <1>2, <1>3, <1>4, <1>5 DEF Login

(* The relay and the environment touch neither the capabilities nor the    *)
(* stages of the login.                                                    *)
LEMMA RelayStep ==
    FramingInv /\ (Pump \/ Copy \/ FirstDone \/ SecondDone \/ Environment) => FramingInv'
<1> SUFFICES ASSUME FramingInv, Pump \/ Copy \/ FirstDone \/ SecondDone \/ Environment PROVE FramingInv'
  OBVIOUS
<1> USE DEF FramingInv, Negotiated, FramingExact, Relaying, caps, session, Negotiate
<1>1. CASE Pump
  BY <1>1 DEF Pump, PumpRead, PumpReadEnd, PumpAnswer, PumpBody, PumpAnswerFail, PumpForward, PumpForwardFail
<1>2. CASE Copy
  BY <1>2 DEF Copy, CopyRead, CopyWrite, CopyEnd
<1>3. CASE FirstDone \/ SecondDone
  BY <1>3 DEF FirstDone, SecondDone, Return
<1>4. CASE Environment
  BY <1>4 DEF Environment, ClientSend, ClientRead, UpstreamRun, UpstreamRunLong, UpstreamAnswers,
              ClientGone, BackendLost, Expire, Shutdown
<1> QED
  BY <1>1, <1>2, <1>3, <1>4

(* Packets are relayed only between parties that frame them alike, and a   *)
(* login is refused for its capabilities only if the upstream lacks one of *)
(* the client's (mysql.go:210-221, 238-244).                               *)
THEOREM FramingHolds == Spec => []FramingExact
<1>1. Init => FramingInv
  BY DEF Init, FramingInv, Negotiated, FramingExact, Relaying
<1>2. FramingInv /\ [Next]_vars => FramingInv'
  <2>1. FramingInv /\ UNCHANGED vars => FramingInv'
    BY DEF FramingInv, Negotiated, FramingExact, Relaying, Negotiate, vars, session, caps
  <2> QED
    BY <2>1, LoginStep, RelayStep DEF Next
<1>3. FramingInv => FramingExact
  BY DEF FramingInv
<1> QED
  BY <1>1, <1>2, <1>3, PTL DEF Spec

----------------------------------------------------------------------------
(* The pump and the upstream.                                              *)

AllPackets == [cmd : Nat, seq : {0, 1}, op : {"other", "0x11"}, last : BOOLEAN]

(* Packet p is one of those of a command in c.                             *)
Sent(c, p) ==
    /\ p.cmd \in DOMAIN c
    /\ \/ c[p.cmd] = "query"  /\ p = Packet(p.cmd, 0, "other", TRUE)
       \/ c[p.cmd] = "long"   /\ p = Packet(p.cmd, 0, "other", FALSE)
       \/ c[p.cmd] = "long"   /\ p = Packet(p.cmd, 1, "0x11", TRUE)
       \/ c[p.cmd] = "change" /\ p = Packet(p.cmd, 0, "0x11", TRUE)

(* It has to reach the upstream.                                           *)
Due(c, p) == Sent(c, p) /\ c[p.cmd] # "change"

Before(p, q) == p.cmd < q.cmd \/ (p.cmd = q.cmd /\ p.seq < q.seq)

Ordered(s) == \A i, j \in DOMAIN s : i < j => Before(s[i], s[j])

Busy == pump \in {"answer", "body", "forward"}

PacketTypes ==
    /\ cmds \in Seq(Kinds) /\ ran \in Seq(Nat)
    /\ fromClient \in Seq(AllPackets) /\ toUp \in Seq(AllPackets) /\ packet \in AllPackets
    /\ pump \in {"read", "answer", "body", "forward", "done"}

(* What is on its way belongs to commands of the client, and what is on    *)
(* its way up is due there.                                                *)
PacketsSent ==
    /\ \A p \in Range(fromClient) : Sent(cmds, p)
    /\ \A p \in Range(toUp) : Due(cmds, p)
    /\ Busy => Sent(cmds, packet)
    /\ pump = "forward" => Due(cmds, packet)

(* It is in the order it was sent in, behind what has been run.            *)
PacketsOrdered ==
    /\ Ordered(fromClient) /\ Ordered(toUp)
    /\ \A p \in Range(toUp), q \in Range(fromClient) : Before(p, q)
    /\ Busy => /\ \A p \in Range(toUp) : Before(p, packet)
               /\ \A q \in Range(fromClient) : Before(packet, q)
    /\ \A n \in Range(ran) :
         /\ \A p \in Range(toUp) \cup Range(fromClient) : n < p.cmd
         /\ Busy => n < packet.cmd

(* Until the pump ends nothing due is missing, and nothing ever is that is *)
(* due before what the upstream has been sent.                             *)
Accounted ==
    pump # "done" =>
      \A q \in AllPackets : Due(cmds, q) =>
        \/ q.cmd \in Range(ran) \/ q \in Range(toUp) \/ q \in Range(fromClient)
        \/ pump = "forward" /\ q = packet

NoGaps ==
    \A p \in Range(toUp) : \A q \in AllPackets :
      Due(cmds, q) /\ Before(q, p) => q.cmd \in Range(ran) \/ q \in Range(toUp)

(* The commands run, as a set.                                             *)
RunWell ==
    /\ \A n \in Range(ran) : n \in DOMAIN cmds /\ cmds[n] # "change"
    /\ \A j, k \in DOMAIN ran : j < k => ran[j] < ran[k]
    /\ \A m \in Range(ran) : \A n \in 1 .. m : cmds[n] # "change" => n \in Range(ran)

PumpInv ==
    PacketTypes /\ PacketsSent /\ PacketsOrdered /\ Accounted /\ NoGaps /\ RunWell

(* A packet is before another or after it, never both.                     *)
LEMMA BeforeOrder ==
    ASSUME NEW p \in AllPackets, NEW q \in AllPackets
    PROVE  /\ ~Before(p, p)
           /\ Before(p, q) => ~Before(q, p)
           /\ \A r \in AllPackets : Before(p, q) /\ Before(q, r) => Before(p, r)
  BY DEF Before, AllPackets

(* The entries of a sequence are what its range holds.                     *)
LEMMA SeqRange ==
    ASSUME NEW s \in Seq(AllPackets)
    PROVE  /\ Len(s) \in Nat /\ DOMAIN s = 1 .. Len(s)
           /\ \A i \in 1 .. Len(s) : s[i] \in Range(s) /\ s[i] \in AllPackets
           /\ \A q \in Range(s) : q \in AllPackets /\ \E i \in 1 .. Len(s) : q = s[i]
<1>1. Len(s) \in Nat /\ DOMAIN s = 1 .. Len(s)
  OBVIOUS
<1>2. \A i \in 1 .. Len(s) : s[i] \in AllPackets
  OBVIOUS
<1> QED
  BY <1>1, <1>2 DEF Range

(* Sequence t is s without its first k packets.                            *)
CutOff(s, k, t) ==
    /\ t \in Seq(AllPackets) /\ Ordered(t)
    /\ \A q \in Range(t) : q \in Range(s) /\ \A i \in 1 .. k : Before(s[i], q)
    /\ \A q \in Range(s) : q \in Range(t) \/ \E i \in 1 .. k : q = s[i]

(* Cutting off the first k packets of a sequence.                          *)
LEMMA Drop ==
    ASSUME NEW s \in Seq(AllPackets), Ordered(s), NEW k \in 1 .. Len(s),
           NEW t, t = SubSeq(s, k + 1, Len(s))
    PROVE  CutOff(s, k, t)
<1> DEFINE n == Len(s)
<1>1. n \in Nat /\ k \in Nat /\ k <= n /\ 1 <= k /\ DOMAIN s = 1 .. n
  OBVIOUS
<1>2. t \in Seq(AllPackets) /\ Len(t) = n - k /\ \A i \in 1 .. (n - k) : t[i] = s[k + i]
  <2>1. \A i \in (k + 1) .. n : s[i] \in AllPackets
    BY <1>1
  <2>2. t \in Seq(AllPackets)
    BY <1>1, <2>1
  <2>3. Len(t) = n - k
    <3>1. Len(t) = IF k + 1 <= n THEN n - (k + 1) + 1 ELSE 0
      BY <1>1, <2>1, SubSeqProperties
    <3>2. (IF k + 1 <= n THEN n - (k + 1) + 1 ELSE 0) = n - k
      <4> HIDE DEF n
      <4> QED
        BY <1>1
    <3> QED
      BY <3>1, <3>2
  <2>4. \A i \in 1 .. (n - k) : t[i] = s[k + i]
    BY <1>1
  <2> QED
    BY <2>2, <2>3, <2>4
<1>3. DOMAIN t = 1 .. (n - k)
  BY <1>2
<1> HIDE DEF n
<1>4. \A i \in 1 .. (n - k) : k + i \in 1 .. n
  BY <1>1
<1>5. Ordered(t)
  <2> SUFFICES ASSUME NEW i \in 1 .. (n - k), NEW j \in 1 .. (n - k), i < j
               PROVE  Before(t[i], t[j])
    BY <1>3 DEF Ordered
  <2>1. k + i \in 1 .. n /\ k + j \in 1 .. n /\ k + i < k + j
    BY <1>1
  <2> QED
    BY <1>1, <1>2, <2>1 DEF Ordered
<1>6. ASSUME NEW q \in Range(t)
      PROVE  q \in Range(s) /\ \A i \in 1 .. k : Before(s[i], q)
  <2>1. PICK j \in 1 .. (n - k) : q = s[k + j]
    BY <1>2, <1>3 DEF Range
  <2>2. k + j \in 1 .. n /\ \A i \in 1 .. k : i \in 1 .. n /\ i < k + j
    BY <1>1
  <2> QED
    BY <1>1, <2>1, <2>2 DEF Range, Ordered
<1>7. ASSUME NEW q \in Range(s)
      PROVE  q \in Range(t) \/ \E i \in 1 .. k : q = s[i]
  <2>1. PICK j \in 1 .. n : q = s[j]
    BY <1>1 DEF Range
  <2>2. CASE j <= k
    BY <1>1, <2>1, <2>2
  <2>3. CASE k < j
    <3>1. j - k \in 1 .. (n - k) /\ k + (j - k) = j
      BY <1>1, <2>3
    <3> QED
      BY <1>2, <1>3, <2>1, <3>1 DEF Range
  <2> QED
    BY <1>1, <2>2, <2>3
<1> QED
  BY <1>2, <1>5, <1>6, <1>7 DEF CutOff

(* The first packet of a sequence and the rest.                            *)
LEMMA HeadAndTail ==
    ASSUME NEW s \in Seq(AllPackets), Ordered(s), s # <<>>
    PROVE  /\ Head(s) \in AllPackets /\ Tail(s) \in Seq(AllPackets) /\ Ordered(Tail(s))
           /\ Range(s) = Range(Tail(s)) \cup {Head(s)}
           /\ \A q \in Range(Tail(s)) : Before(Head(s), q)
<1>1. PICK k \in 1 .. Len(s) : k = 1 /\ Head(s) = s[1] /\ Tail(s) = SubSeq(s, k + 1, Len(s))
  <2>1. 1 \in 1 .. Len(s) /\ Head(s) = s[1]
    OBVIOUS
  <2>2. Tail(s) = SubSeq(s, 2, Len(s))
    BY TailIsSubSeq
  <2> QED
    BY <2>1, <2>2
<1>2. CutOff(s, k, Tail(s))
  BY <1>1, Drop
<1>3. s[1] \in Range(s) /\ s[1] \in AllPackets
  BY <1>1, SeqRange
<1>4. 1 .. k = {1}
  BY <1>1
<1> QED
  BY <1>1, <1>2, <1>3, <1>4 DEF CutOff

(* One packet more.                                                        *)
LEMMA OnePacketMore ==
    ASSUME NEW s \in Seq(AllPackets), Ordered(s), NEW e \in AllPackets,
           \A q \in Range(s) : Before(q, e)
    PROVE  /\ Append(s, e) \in Seq(AllPackets) /\ Ordered(Append(s, e))
           /\ Range(Append(s, e)) = Range(s) \cup {e}
<1> DEFINE n == Len(s)
           t == Append(s, e)
<1>1. n \in Nat /\ DOMAIN s = 1 .. n
  OBVIOUS
<1>2. /\ t \in Seq(AllPackets) /\ DOMAIN t = 1 .. (n + 1) /\ t[n + 1] = e
      /\ \A i \in 1 .. n : t[i] = s[i]
  BY AppendProperties
<1> HIDE DEF n, t
<1>3. 1 .. (n + 1) = (1 .. n) \cup {n + 1}
  BY <1>1
<1>4. Range(t) = Range(s) \cup {e}
  BY <1>1, <1>2, <1>3 DEF Range
<1>5. Ordered(t)
  <2> SUFFICES ASSUME NEW i \in 1 .. (n + 1), NEW j \in 1 .. (n + 1), i < j
               PROVE  Before(t[i], t[j])
    BY <1>2 DEF Ordered
  <2>1. i \in 1 .. n
    BY <1>1
  <2>2. CASE j \in 1 .. n
    BY <1>1, <1>2, <2>1, <2>2 DEF Ordered
  <2>3. CASE j = n + 1
    BY <1>1, <1>2, <2>1, <2>3 DEF Range
  <2> QED
    BY <1>3, <2>2, <2>3
<1> QED
  BY <1>2, <1>4, <1>5 DEF t

(* The first packet of a long command is followed by its second, whatever  *)
(* the pump took out of the stream and wherever it stopped.                *)
LEMMA Successor ==
    ASSUME PumpInv, NEW i \in 1 .. Len(toUp), i + 1 \in 1 .. Len(toUp), ~toUp[i].last
    PROVE  /\ cmds[toUp[i].cmd] = "long"
           /\ toUp[i] = Packet(toUp[i].cmd, 0, "other", FALSE)
           /\ toUp[i + 1] = Packet(toUp[i].cmd, 1, "0x11", TRUE)
<1> DEFINE y == toUp[i]
           w == toUp[i + 1]
           m == y.cmd
           z == Packet(m, 1, "0x11", TRUE)
<1>1. toUp \in Seq(AllPackets) /\ Ordered(toUp)
  BY DEF PumpInv, PacketTypes, PacketsOrdered
<1>2. /\ DOMAIN toUp = 1 .. Len(toUp) /\ Len(toUp) \in Nat
      /\ y \in Range(toUp) /\ w \in Range(toUp) /\ y \in AllPackets /\ w \in AllPackets
  BY <1>1, SeqRange
<1>3. Due(cmds, y) /\ Due(cmds, w)
  BY <1>2 DEF PumpInv, PacketsSent
<1>4. cmds[m] = "long" /\ y = Packet(m, 0, "other", FALSE) /\ m \in Nat /\ m \in DOMAIN cmds
  BY <1>2, <1>3 DEF Due, Sent, Packet, AllPackets
<1>5. Before(y, w)
  BY <1>1, <1>2 DEF Ordered
<1>6. z \in AllPackets /\ Due(cmds, z) /\ z.cmd = m /\ z.seq = 1 /\ y.seq = 0
  BY <1>4 DEF Packet, AllPackets, Due, Sent
<1>7. Before(y, z)
  <2>1. y.cmd = z.cmd /\ y.seq = 0 /\ z.seq = 1
    BY <1>6
  <2> HIDE DEF y, z, m
  <2> QED
    BY <2>1 DEF Before
<1>8. CASE w.cmd = m
  <2>1. w.seq = 1
    BY <1>2, <1>4, <1>5, <1>6, <1>8 DEF Before, AllPackets
  <2> QED
    BY <1>3, <1>4, <1>8, <2>1 DEF Due, Sent, Packet
<1>9. CASE w.cmd # m
  <2>1. Before(z, w)
    BY <1>5, <1>6, <1>9 DEF Before
  <2>2. m \notin Range(ran)
    <3>1. ~(m < m)
      BY <1>4
    <3> QED
      BY <1>2, <3>1 DEF PumpInv, PacketsOrdered
  <2>3. z \in Range(toUp)
    BY <1>2, <1>6, <2>1, <2>2 DEF PumpInv, NoGaps
  <2>4. PICK j \in 1 .. Len(toUp) : toUp[j] = z
    BY <1>1, <2>3, SeqRange
  <2>5. ~(j < i) /\ j # i
    <3>1. ~Before(z, y) /\ z # y
      BY <1>2, <1>6, <1>7, BeforeOrder
    <3> QED
      BY <1>2, <2>4, <3>1 DEF Ordered, PumpInv, PacketsOrdered
  <2>6. ~(i + 1 < j) /\ j # i + 1
    <3>1. ~Before(w, z) /\ z # w
      BY <1>2, <1>6, <2>1, BeforeOrder
    <3> QED
      BY <1>2, <2>4, <3>1 DEF Ordered, PumpInv, PacketsOrdered
  <2> QED
    BY <1>2, <2>5, <2>6
<1> QED
  BY <1>4, <1>8, <1>9

(* What the upstream reads as a command is one, and whole.                 *)
LEMMA WholeCommand ==
    ASSUME PumpInv, NEW k \in 1 .. Len(toUp), toUp[k].last,
           \A i \in 1 .. k - 1 : ~toUp[i].last
    PROVE  /\ Due(cmds, toUp[k]) /\ toUp[k] \in Range(toUp) /\ toUp[k] \in AllPackets
           /\ \/ /\ k = 1 /\ cmds[toUp[k].cmd] = "query"
                 /\ toUp[1] = Packet(toUp[k].cmd, 0, "other", TRUE)
              \/ /\ k = 2 /\ cmds[toUp[k].cmd] = "long"
                 /\ toUp[1] = Packet(toUp[k].cmd, 0, "other", FALSE)
                 /\ toUp[2] = Packet(toUp[k].cmd, 1, "0x11", TRUE)
<1>1. toUp \in Seq(AllPackets) /\ Ordered(toUp)
  BY DEF PumpInv, PacketTypes, PacketsOrdered
<1>2. /\ DOMAIN toUp = 1 .. Len(toUp) /\ Len(toUp) \in Nat
      /\ toUp[k] \in Range(toUp) /\ toUp[k] \in AllPackets
  BY <1>1, SeqRange
<1>3. Due(cmds, toUp[k])
  BY <1>2 DEF PumpInv, PacketsSent
<1>4. CASE k # 1
  <2>1. 1 \in 1 .. Len(toUp) /\ 1 + 1 \in 1 .. Len(toUp) /\ 1 \in 1 .. k - 1
    BY <1>2, <1>4
  <2>2. ~toUp[1].last
    BY <2>1
  <2>3. /\ cmds[toUp[1].cmd] = "long"
        /\ toUp[1] = Packet(toUp[1].cmd, 0, "other", FALSE)
        /\ toUp[1 + 1] = Packet(toUp[1].cmd, 1, "0x11", TRUE)
    BY <2>1, <2>2, Successor
  <2>x. 1 + 1 = 2
    OBVIOUS
  <2>y. toUp[2] = Packet(toUp[1].cmd, 1, "0x11", TRUE)
    BY <2>3, <2>x
  <2>4. toUp[2].last /\ toUp[2].cmd = toUp[1].cmd
    BY <2>y DEF Packet
  <2>5. 2 \notin 1 .. k - 1
    BY <2>4
  <2>6. k = 2
    BY <1>2, <1>4, <2>5
  <2> QED
    BY <1>2, <1>3, <2>3, <2>4, <2>6, <2>y
<1>5. CASE k = 1
  <2> DEFINE x == toUp[1]
             n == x.cmd
             z == Packet(n, 0, "other", FALSE)
  <2>1. /\ x \in AllPackets /\ x \in Range(toUp) /\ Due(cmds, x) /\ n \in Nat
        /\ x.last
    BY <1>2, <1>3, <1>5 DEF AllPackets
  <2>2. CASE cmds[n] = "query"
    BY <1>2, <1>3, <1>5, <2>1, <2>2 DEF Due, Sent
  <2>3. CASE cmds[n] = "long"
    <3>1. x = Packet(n, 1, "0x11", TRUE)
      BY <2>1, <2>3 DEF Due, Sent, Packet
    <3>2. z \in AllPackets /\ Due(cmds, z) /\ z.cmd = n /\ Before(z, x)
      BY <2>1, <2>3, <3>1 DEF Packet, AllPackets, Due, Sent, Before
    <3>3. n \notin Range(ran)
      <4>1. ~(n < n)
        BY <2>1
      <4> QED
        BY <2>1, <4>1 DEF PumpInv, PacketsOrdered
    <3>4. PICK j \in 1 .. Len(toUp) : toUp[j] = z
      <4>1. z \in Range(toUp)
        BY <2>1, <3>2, <3>3 DEF PumpInv, NoGaps
      <4> QED
        BY <1>1, <4>1, SeqRange
    <3>5. ~Before(x, z) /\ z # x
      BY <2>1, <3>2, BeforeOrder
    <3>6. j # 1 /\ ~(1 < j)
      BY <1>1, <1>2, <1>5, <3>4, <3>5 DEF Ordered
    <3> QED
      BY <1>2, <3>6
  <2> QED
    BY <2>1, <2>2, <2>3 DEF Due, Sent
<1> QED
  BY <1>4, <1>5

(* Nothing of a command comes after its last packet.                       *)
LEMMA LastIsLast ==
    ASSUME NEW c, NEW x \in AllPackets, Sent(c, x), x.last,
           NEW p \in AllPackets, Sent(c, p), Before(x, p)
    PROVE  x.cmd < p.cmd
  BY DEF Sent, Packet, AllPackets, Before

(* A command other than COM_CHANGE_USER has a packet that is due.          *)
LEMMA SomePacket ==
    ASSUME NEW c \in Seq(Kinds), NEW m \in DOMAIN c, c[m] # "change"
    PROVE  \E q \in AllPackets : Due(c, q) /\ q.cmd = m
<1>1. m \in Nat /\ c[m] \in {"query", "long"}
  BY DEF Kinds
<1>2. CASE c[m] = "query"
  <2> DEFINE q == Packet(m, 0, "other", TRUE)
  <2>1. q \in AllPackets /\ Due(c, q) /\ q.cmd = m
    BY <1>1, <1>2 DEF Packet, AllPackets, Due, Sent
  <2> QED
    BY <2>1
<1>3. CASE c[m] = "long"
  <2> DEFINE q == Packet(m, 0, "other", FALSE)
  <2>1. q \in AllPackets /\ Due(c, q) /\ q.cmd = m
    BY <1>1, <1>3 DEF Packet, AllPackets, Due, Sent
  <2> QED
    BY <2>1
<1> QED
  BY <1>1, <1>2, <1>3

(* One command more has been run.                                          *)
LEMMA RanOneMore ==
    ASSUME NEW r \in Seq(Nat), NEW n \in Nat
    PROVE  /\ Append(r, n) \in Seq(Nat)
           /\ Range(Append(r, n)) = Range(r) \cup {n}
           /\ (\A j, k \in DOMAIN r : j < k => r[j] < r[k]) /\ (\A m \in Range(r) : m < n) =>
                \A j, k \in DOMAIN Append(r, n) : j < k => Append(r, n)[j] < Append(r, n)[k]
<1> DEFINE l == Len(r)
           t == Append(r, n)
<1>1. l \in Nat /\ DOMAIN r = 1 .. l
  OBVIOUS
<1>2. /\ t \in Seq(Nat) /\ DOMAIN t = 1 .. (l + 1) /\ t[l + 1] = n
      /\ \A i \in 1 .. l : t[i] = r[i]
  BY AppendProperties
<1> HIDE DEF l, t
<1>3. 1 .. (l + 1) = (1 .. l) \cup {l + 1}
  BY <1>1
<1>4. Range(t) = Range(r) \cup {n}
  BY <1>1, <1>2, <1>3 DEF Range
<1>5. ASSUME \A j, k \in DOMAIN r : j < k => r[j] < r[k], \A m \in Range(r) : m < n,
             NEW j \in DOMAIN t, NEW k \in DOMAIN t, j < k
      PROVE  t[j] < t[k]
  <2>1. j \in 1 .. l
    BY <1>1, <1>2, <1>5
  <2>2. CASE k \in 1 .. l
    BY <1>1, <1>2, <1>5, <2>1, <2>2
  <2>3. CASE k = l + 1
    BY <1>1, <1>2, <1>5, <2>1, <2>3 DEF Range
  <2> QED
    BY <1>2, <1>3, <2>2, <2>3
<1> QED
  BY <1>2, <1>4, <1>5 DEF t

(* The first packets of a sequence, written out.                           *)
LEMMA FirstPackets ==
    ASSUME NEW s \in Seq(AllPackets)
    PROVE  /\ Len(s) >= 1 => SubSeq(s, 1, 1) = <<s[1]>>
           /\ Len(s) >= 2 => SubSeq(s, 1, 2) = <<s[1], s[2]>>
<1>1. ASSUME Len(s) >= 1 PROVE SubSeq(s, 1, 1) = <<s[1]>>
  <2>1. SubSeq(s, 1, 1) \in Seq(AllPackets) /\ <<s[1]>> \in Seq(AllPackets)
    BY <1>1
  <2>2. Len(SubSeq(s, 1, 1)) = 1 /\ SubSeq(s, 1, 1)[1] = s[1]
    BY <1>1
  <2>3. Len(<<s[1]>>) = 1 /\ <<s[1]>>[1] = s[1] /\ 1 .. 1 = {1}
    OBVIOUS
  <2> QED
    BY <2>1, <2>2, <2>3, SeqEqual
<1>2. ASSUME Len(s) >= 2 PROVE SubSeq(s, 1, 2) = <<s[1], s[2]>>
  <2>1. SubSeq(s, 1, 2) \in Seq(AllPackets) /\ <<s[1], s[2]>> \in Seq(AllPackets)
    BY <1>2
  <2>2. /\ Len(SubSeq(s, 1, 2)) = 2
        /\ SubSeq(s, 1, 2)[1] = s[1] /\ SubSeq(s, 1, 2)[2] = s[2]
    BY <1>2
  <2>3. /\ Len(<<s[1], s[2]>>) = 2 /\ 1 .. 2 = {1, 2}
        /\ <<s[1], s[2]>>[1] = s[1] /\ <<s[1], s[2]>>[2] = s[2]
    OBVIOUS
  <2> QED
    BY <2>1, <2>2, <2>3, SeqEqual
<1> QED
  BY <1>1, <1>2

(* The upstream runs a command.                                            *)
LEMMA UpstreamStep ==
    ASSUME PumpInv, NEW k \in 1 .. Len(toUp), toUp[k].last,
           \A i \in 1 .. k - 1 : ~toUp[i].last, UpstreamAnswers(k)
    PROVE  PumpInv'
<1> DEFINE x == toUp[k]
           n == x.cmd
<1>1. /\ Due(cmds, x) /\ x \in Range(toUp) /\ x \in AllPackets /\ x.last
      /\ \/ /\ k = 1 /\ cmds[n] = "query" /\ toUp[1] = Packet(n, 0, "other", TRUE)
         \/ /\ k = 2 /\ cmds[n] = "long" /\ toUp[1] = Packet(n, 0, "other", FALSE)
            /\ toUp[2] = Packet(n, 1, "0x11", TRUE)
  BY WholeCommand
<1>2. toUp \in Seq(AllPackets) /\ Ordered(toUp) /\ n \in Nat /\ ran \in Seq(Nat) /\ cmds \in Seq(Kinds)
  BY <1>1 DEF PumpInv, PacketTypes, PacketsOrdered, AllPackets
<1>3. SubSeq(toUp, 1, k) = Packets(n, cmds[n])
  <2>1. CASE k = 1
    <3>1. SubSeq(toUp, 1, 1) = <<toUp[1]>>
      BY <1>2, <2>1, FirstPackets
    <3>2. Packets(n, "query") = <<Packet(n, 0, "other", TRUE)>>
      BY DEF Packets
    <3>3. cmds[n] = "query" /\ toUp[1] = Packet(n, 0, "other", TRUE)
      <4> HIDE DEF n
      <4> QED
        BY <1>1, <2>1 DEF Packet
    <3> HIDE DEF n
    <3>4. SubSeq(toUp, 1, k) = <<Packet(n, 0, "other", TRUE)>>
      BY <2>1, <3>1, <3>3
    <3>5. Packets(n, cmds[n]) = <<Packet(n, 0, "other", TRUE)>>
      BY <3>2, <3>3
    <3> QED
      BY <3>4, <3>5
  <2>2. CASE k = 2
    <3>1. SubSeq(toUp, 1, 2) = <<toUp[1], toUp[2]>>
      BY <1>2, <2>2, FirstPackets
    <3>2. Packets(n, "long") = <<Packet(n, 0, "other", FALSE), Packet(n, 1, "0x11", TRUE)>>
      BY DEF Packets
    <3>3. /\ cmds[n] = "long" /\ toUp[1] = Packet(n, 0, "other", FALSE)
          /\ toUp[2] = Packet(n, 1, "0x11", TRUE)
      <4> HIDE DEF n
      <4> QED
        BY <1>1, <2>2 DEF Packet
    <3> HIDE DEF n
    <3>4. SubSeq(toUp, 1, k) = <<Packet(n, 0, "other", FALSE), Packet(n, 1, "0x11", TRUE)>>
      BY <2>2, <3>1, <3>3
    <3>5. Packets(n, cmds[n]) = <<Packet(n, 0, "other", FALSE), Packet(n, 1, "0x11", TRUE)>>
      BY <3>2, <3>3
    <3> QED
      BY <3>4, <3>5
  <2> QED
    BY <1>1, <2>1, <2>2
<1>4. /\ ran' = Append(ran, n) /\ toUp' = SubSeq(toUp, k + 1, Len(toUp))
      /\ cmds' = cmds /\ fromClient' = fromClient /\ pump' = pump /\ packet' = packet
  BY <1>3 DEF UpstreamAnswers
<1>5. CutOff(toUp, k, toUp')
  BY <1>2, <1>4, Drop
<1>6. \A i \in 1 .. k : toUp[i].cmd = n
  <2>1. CASE k = 1
    BY <1>1, <2>1 DEF Packet
  <2>2. CASE k = 2
    <3>1. 1 .. k = {1, 2}
      BY <2>2
    <3> QED
      BY <1>1, <2>2, <3>1 DEF Packet
  <2> QED
    BY <1>1, <2>1, <2>2
<1>7. /\ ran' \in Seq(Nat) /\ Range(ran') = Range(ran) \cup {n}
      /\ \A j, h \in DOMAIN ran' : j < h => ran'[j] < ran'[h]
  <2>1. /\ \A j, h \in DOMAIN ran : j < h => ran[j] < ran[h]
        /\ \A m \in Range(ran) : m < n
    BY <1>1 DEF PumpInv, RunWell, PacketsOrdered
  <2> QED
    BY <1>2, <1>4, <2>1, RanOneMore
<1>8. k \in 1 .. k
  OBVIOUS
<1>9. /\ \A q \in Range(toUp') : q \in Range(toUp) /\ Before(x, q)
      /\ \A q \in Range(toUp) : q \in Range(toUp') \/ q.cmd = n
  BY <1>5, <1>6, <1>8 DEF CutOff
<1> HIDE DEF x
<1>10. toUp' \in Seq(AllPackets) /\ Ordered(toUp)'
  BY <1>5 DEF CutOff, Ordered
<1>11. PacketTypes'
  BY <1>4, <1>7, <1>10 DEF PumpInv, PacketTypes
<1>12. PacketsSent'
  BY <1>4, <1>9 DEF PumpInv, PacketsSent, Busy
<1>13. \A p \in AllPackets : Sent(cmds, p) /\ Before(x, p) => n < p.cmd
  BY <1>1, LastIsLast DEF Due
<1>14. PacketsOrdered'
  <2>1. \A p \in Range(toUp') \cup Range(fromClient) :
          p \in AllPackets /\ Sent(cmds, p) /\ Before(x, p)
    <3>1. \A p \in Range(fromClient) : p \in AllPackets
      BY SeqRange DEF PumpInv, PacketTypes
    <3>2. \A p \in Range(toUp') : p \in AllPackets
      BY <1>10, SeqRange
    <3> QED
      BY <1>1, <1>9, <3>1, <3>2 DEF PumpInv, PacketsSent, PacketsOrdered, Due
  <2>2. Busy => packet \in AllPackets /\ Sent(cmds, packet) /\ Before(x, packet)
    BY <1>1 DEF PumpInv, PacketTypes, PacketsSent, PacketsOrdered
  <2>3. \A p \in Range(toUp') \cup Range(fromClient) : n < p.cmd
    BY <1>13, <2>1
  <2>4. Busy => n < packet.cmd
    BY <1>13, <2>2
  <2> QED
    BY <1>4, <1>7, <1>9, <1>10, <2>3, <2>4 DEF PumpInv, PacketsOrdered, Busy
<1>15. Accounted'
  BY <1>4, <1>7, <1>9 DEF PumpInv, Accounted
<1>16. NoGaps'
  BY <1>4, <1>7, <1>9 DEF PumpInv, NoGaps
<1>17. RunWell'
  <2>1. n \in DOMAIN cmds /\ cmds[n] # "change"
    BY <1>1 DEF Due, Sent
  <2>2. ASSUME NEW m \in 1 .. n, cmds[m] # "change", m # n
        PROVE  m \in Range(ran)
    <3>1. m \in DOMAIN cmds /\ m < n
      BY <1>2, <2>1, <2>2
    <3>2. PICK q \in AllPackets : Due(cmds, q) /\ q.cmd = m
      BY <1>2, <2>2, <3>1, SomePacket
    <3>3. Before(q, x)
      BY <3>1, <3>2 DEF Before
    <3>4. q \notin Range(toUp)
      <4>1. ~Before(x, q)
        BY <1>1, <3>2, <3>3, BeforeOrder
      <4> QED
        BY <1>9, <2>2, <3>2, <4>1
    <3> QED
      BY <1>1, <3>2, <3>3, <3>4 DEF PumpInv, NoGaps
  <2> QED
    BY <1>4, <1>7, <2>1, <2>2 DEF PumpInv, RunWell
<1> QED
  BY <1>11, <1>12, <1>14, <1>15, <1>16, <1>17 DEF PumpInv

(* The packets of a command the client has sent are those of Packets.      *)
LEMMA PacketsOfCommand ==
    ASSUME NEW c, NEW n \in Nat, n \in DOMAIN c
    PROVE  /\ c[n] = "query" =>
                {p \in AllPackets : p.cmd = n /\ Sent(c, p)} = {Packet(n, 0, "other", TRUE)}
           /\ c[n] = "long" =>
                {p \in AllPackets : p.cmd = n /\ Sent(c, p)} =
                  {Packet(n, 0, "other", FALSE), Packet(n, 1, "0x11", TRUE)}
           /\ c[n] = "change" =>
                {p \in AllPackets : p.cmd = n /\ Sent(c, p)} = {Packet(n, 0, "0x11", TRUE)}
<1>1. ASSUME NEW p \in AllPackets
      PROVE  /\ c[n] = "query" => (p.cmd = n /\ Sent(c, p) <=> p = Packet(n, 0, "other", TRUE))
             /\ c[n] = "long" => (p.cmd = n /\ Sent(c, p) <=>
                  p = Packet(n, 0, "other", FALSE) \/ p = Packet(n, 1, "0x11", TRUE))
             /\ c[n] = "change" => (p.cmd = n /\ Sent(c, p) <=> p = Packet(n, 0, "0x11", TRUE))
  BY DEF Sent, Packet, AllPackets
<1>2. /\ Packet(n, 0, "other", TRUE) \in AllPackets /\ Packet(n, 0, "other", FALSE) \in AllPackets
      /\ Packet(n, 1, "0x11", TRUE) \in AllPackets /\ Packet(n, 0, "0x11", TRUE) \in AllPackets
  BY DEF Packet, AllPackets
<1> QED
  BY <1>1, <1>2

(* Sequence t is s and behind it the packets of command n of c.            *)
Extended(s, c, n, t) ==
    /\ t \in Seq(AllPackets) /\ Ordered(t)
    /\ Range(t) = Range(s) \cup {p \in AllPackets : p.cmd = n /\ Sent(c, p)}

(* One command more, behind all the others.                                *)
LEMMA CommandMore ==
    ASSUME NEW s \in Seq(AllPackets), Ordered(s), NEW n \in Nat, NEW c, n \in DOMAIN c,
           c[n] \in Kinds, \A q \in Range(s) : q.cmd < n,
           NEW t, t = s \o Packets(n, c[n])
    PROVE  Extended(s, c, n, t)
<1> DEFINE a == Packet(n, 0, "other", TRUE)
           b == Packet(n, 0, "other", FALSE)
           d == Packet(n, 1, "0x11", TRUE)
           e == Packet(n, 0, "0x11", TRUE)
<1>1. a \in AllPackets /\ b \in AllPackets /\ d \in AllPackets /\ e \in AllPackets
  BY DEF Packet, AllPackets
<1>2. /\ \A q \in Range(s) : Before(q, a) /\ Before(q, b) /\ Before(q, d) /\ Before(q, e)
      /\ Before(b, d)
  BY DEF Packet, Before
<1>3. CASE c[n] = "query"
  <2>1. Packets(n, c[n]) = <<a>>
    BY <1>3 DEF Packets
  <2> HIDE DEF a, b, d, e
  <2>2. t = Append(s, a)
    BY <1>1, <2>1
  <2>3. t \in Seq(AllPackets) /\ Ordered(t) /\ Range(t) = Range(s) \cup {a}
    BY <1>1, <1>2, <2>2, OnePacketMore
  <2> QED
    BY <1>3, <2>3, PacketsOfCommand DEF a, Extended
<1>4. CASE c[n] = "change"
  <2>1. Packets(n, c[n]) = <<e>>
    BY <1>4 DEF Packets
  <2> HIDE DEF a, b, d, e
  <2>2. t = Append(s, e)
    BY <1>1, <2>1
  <2>3. t \in Seq(AllPackets) /\ Ordered(t) /\ Range(t) = Range(s) \cup {e}
    BY <1>1, <1>2, <2>2, OnePacketMore
  <2> QED
    BY <1>4, <2>3, PacketsOfCommand DEF e, Extended
<1>5. CASE c[n] = "long"
  <2>1. Packets(n, c[n]) = <<b, d>>
    BY <1>5 DEF Packets
  <2> HIDE DEF a, b, d, e
  <2>2. PICK u : u = Append(s, b)
    OBVIOUS
  <2>3. t = Append(u, d)
    BY <1>1, <2>1, <2>2
  <2>4. u \in Seq(AllPackets) /\ Ordered(u) /\ Range(u) = Range(s) \cup {b}
    BY <1>1, <1>2, <2>2, OnePacketMore
  <2>5. \A q \in Range(u) : Before(q, d)
    BY <1>2, <2>4
  <2>6. t \in Seq(AllPackets) /\ Ordered(t) /\ Range(t) = Range(u) \cup {d}
    BY <1>1, <2>3, <2>4, <2>5, OnePacketMore
  <2>7. {p \in AllPackets : p.cmd = n /\ Sent(c, p)} = {b, d}
    BY <1>5, PacketsOfCommand DEF b, d
  <2> QED
    BY <2>4, <2>6, <2>7 DEF Extended
<1> QED
  BY <1>3, <1>4, <1>5 DEF Kinds

(* Sequence d is c and behind it command n, of this kind.                  *)
Grown(c, n, kind, d) ==
    /\ d \in Seq(Kinds) /\ n \in Nat /\ n \in DOMAIN d /\ d[n] = kind
    /\ DOMAIN d = DOMAIN c \cup {n} /\ n \notin DOMAIN c
    /\ \A m \in DOMAIN c : m \in Nat /\ m < n /\ d[m] = c[m]
    /\ \A p \in AllPackets : Sent(c, p) => Sent(d, p) /\ p.cmd < n
    /\ \A p \in AllPackets : Sent(d, p) /\ p.cmd # n => Sent(c, p)

(* A command more changes nothing about the packets of the others.         *)
LEMMA SentStays ==
    ASSUME NEW c \in Seq(Kinds), NEW kind \in Kinds, NEW d, d = Append(c, kind),
           NEW n, n = Len(c) + 1
    PROVE  Grown(c, n, kind, d)
<1> DEFINE l == Len(c)
<1>1. /\ l \in Nat /\ DOMAIN c = 1 .. l /\ d \in Seq(Kinds) /\ DOMAIN d = 1 .. (l + 1)
      /\ d[l + 1] = kind /\ \A i \in 1 .. l : d[i] = c[i]
  BY AppendProperties
<1>2. n = l + 1
  OBVIOUS
<1> HIDE DEF l
<1>3. /\ 1 .. n = (1 .. l) \cup {n} /\ n \in 1 .. n /\ n \notin 1 .. l
      /\ \A m \in 1 .. l : m \in Nat /\ m < n
  BY <1>1, <1>2
<1>4. /\ DOMAIN d = DOMAIN c \cup {n} /\ n \in Nat /\ d[n] = kind
      /\ \A m \in DOMAIN c : m \in Nat /\ m < n /\ d[m] = c[m]
  BY <1>1, <1>2, <1>3
<1>5. ASSUME NEW p \in AllPackets, Sent(c, p) PROVE Sent(d, p) /\ p.cmd < n
  BY <1>4, <1>5 DEF Sent
<1>6. ASSUME NEW p \in AllPackets, Sent(d, p), p.cmd # n PROVE Sent(c, p)
  BY <1>4, <1>6 DEF Sent
<1> QED
  BY <1>1, <1>3, <1>4, <1>5, <1>6 DEF Grown

(* The client sends a command.                                             *)
LEMMA SendStep ==
    ASSUME PumpInv, NEW kind \in Kinds, ClientSend(kind)
    PROVE  PumpInv'
<1>1. PICK n : n = Len(cmds) + 1
  OBVIOUS
<1>2. /\ cmds' = Append(cmds, kind) /\ fromClient' = fromClient \o Packets(n, kind)
      /\ pump' = pump /\ packet' = packet /\ toUp' = toUp /\ ran' = ran
  BY <1>1 DEF ClientSend
<1>3. /\ cmds' \in Seq(Kinds) /\ n \in Nat /\ n \in DOMAIN cmds' /\ cmds'[n] = kind
      /\ DOMAIN cmds' = DOMAIN cmds \cup {n} /\ n \notin DOMAIN cmds
      /\ \A m \in DOMAIN cmds : m \in Nat /\ m < n /\ cmds'[m] = cmds[m]
      /\ \A p \in AllPackets : Sent(cmds, p) => Sent(cmds', p) /\ p.cmd < n
      /\ \A p \in AllPackets : Sent(cmds', p) /\ p.cmd # n => Sent(cmds, p)
  <2>1. cmds \in Seq(Kinds)
    BY DEF PumpInv, PacketTypes
  <2>2. Grown(cmds, n, kind, cmds')
    BY <1>1, <1>2, <2>1, SentStays
  <2> QED
    BY <2>2 DEF Grown
<1>4. /\ \A p \in AllPackets : Due(cmds, p) => Due(cmds', p) /\ p.cmd < n
      /\ \A p \in AllPackets : Due(cmds', p) /\ p.cmd # n => Due(cmds, p)
  BY <1>3 DEF Due, Sent
<1>5. /\ \A p \in Range(fromClient) : p \in AllPackets /\ p.cmd < n /\ Sent(cmds, p)
      /\ \A p \in Range(toUp) : p \in AllPackets /\ p.cmd < n /\ Due(cmds, p)
      /\ packet \in AllPackets
      /\ Busy => packet.cmd < n
  <2>1. \A p \in Range(fromClient) \cup Range(toUp) : p \in AllPackets
    BY SeqRange DEF PumpInv, PacketTypes
  <2> QED
    BY <1>3, <2>1 DEF PumpInv, PacketTypes, PacketsSent, Due
<1>6. /\ fromClient' \in Seq(AllPackets) /\ Ordered(fromClient')
      /\ Range(fromClient') = Range(fromClient) \cup {p \in AllPackets : p.cmd = n /\ Sent(cmds', p)}
  <2>1. fromClient \in Seq(AllPackets) /\ Ordered(fromClient) /\ cmds'[n] \in Kinds
    BY <1>3 DEF PumpInv, PacketTypes, PacketsOrdered
  <2>2. fromClient' = fromClient \o Packets(n, cmds'[n])
    BY <1>2, <1>3
  <2>3. \A q \in Range(fromClient) : q.cmd < n
    BY <1>5
  <2>4. Extended(fromClient, cmds', n, fromClient')
    BY <1>3, <2>1, <2>2, <2>3, CommandMore
  <2> QED
    BY <2>4 DEF Extended
<1>7. PacketTypes'
  BY <1>2, <1>3, <1>6 DEF PumpInv, PacketTypes
<1>8. PacketsSent'
  BY <1>2, <1>3, <1>4, <1>5, <1>6 DEF PumpInv, PacketsSent, Busy
<1>9. PacketsOrdered'
  <2>1. \A p, q \in AllPackets : p.cmd < n /\ q.cmd = n => Before(p, q)
    BY DEF Before
  <2>2. \A m \in Range(ran) : m < n
    BY <1>3 DEF PumpInv, RunWell
  <2> QED
    BY <1>2, <1>5, <1>6, <2>1, <2>2 DEF PumpInv, PacketsOrdered, Busy, Ordered
<1>10. Accounted'
  <2>1. \A q \in AllPackets : Due(cmds', q) => Sent(cmds', q)
    BY DEF Due
  <2> QED
    BY <1>2, <1>4, <1>6, <2>1 DEF PumpInv, Accounted
<1>11. NoGaps'
  <2>1. \A p \in Range(toUp) : \A q \in AllPackets : Before(q, p) => q.cmd # n
    BY <1>3, <1>5 DEF Before, AllPackets
  <2> QED
    BY <1>2, <1>4, <2>1 DEF PumpInv, NoGaps
<1>12. RunWell'
  <2>1. /\ \A m \in Range(ran) : m \in DOMAIN cmds /\ cmds[m] # "change"
        /\ \A m \in Range(ran) : \A h \in 1 .. m : cmds[h] # "change" => h \in Range(ran)
    BY DEF PumpInv, RunWell
  <2>2. \A m \in DOMAIN cmds : \A h \in 1 .. m : h \in DOMAIN cmds
    BY DEF PumpInv, PacketTypes
  <2> QED
    BY <1>2, <1>3, <2>1, <2>2 DEF PumpInv, RunWell
<1> QED
  BY <1>7, <1>8, <1>9, <1>10, <1>11, <1>12 DEF PumpInv

(* The pump reads a packet.                                                *)
LEMMA ReadStep == ASSUME PumpInv, PumpRead PROVE PumpInv'
<1>1. /\ fromClient # <<>> /\ packet' = Head(fromClient) /\ fromClient' = Tail(fromClient)
      /\ pump = "read" /\ toUp' = toUp /\ cmds' = cmds /\ ran' = ran
      /\ pump' = IF packet'.seq = 0 /\ packet'.op = "0x11" THEN "answer" ELSE "forward"
  BY DEF PumpRead, history
<1>2. /\ packet' \in AllPackets /\ fromClient' \in Seq(AllPackets) /\ Ordered(fromClient')
      /\ Range(fromClient) = Range(fromClient') \cup {packet'}
      /\ \A q \in Range(fromClient') : Before(packet', q)
  BY <1>1, HeadAndTail DEF PumpInv, PacketTypes, PacketsOrdered
<1>3. Sent(cmds, packet')
  BY <1>2 DEF PumpInv, PacketsSent
<1>4. pump' = "forward" <=> Due(cmds, packet')
  BY <1>1, <1>2, <1>3 DEF Due, Sent, Packet
<1>5. PacketTypes'
  BY <1>1, <1>2 DEF PumpInv, PacketTypes
<1>6. PacketsSent'
  BY <1>1, <1>2, <1>3, <1>4 DEF PumpInv, PacketsSent, Busy
<1>7. PacketsOrdered'
  BY <1>1, <1>2 DEF PumpInv, PacketsOrdered, Busy, Ordered
<1>8. Accounted'
  BY <1>1, <1>2, <1>4 DEF PumpInv, Accounted
<1>9. NoGaps' /\ RunWell'
  BY <1>1 DEF PumpInv, NoGaps, RunWell
<1> QED
  BY <1>5, <1>6, <1>7, <1>8, <1>9 DEF PumpInv

(* The pump forwards a packet.                                             *)
LEMMA ForwardStep == ASSUME PumpInv, PumpForward PROVE PumpInv'
<1>1. /\ pump = "forward" /\ pump' = "read" /\ toUp' = Append(toUp, packet) /\ packet' = NoPacket
      /\ fromClient' = fromClient /\ cmds' = cmds /\ ran' = ran
  BY DEF PumpForward, history
<1>2. /\ toUp' \in Seq(AllPackets) /\ Ordered(toUp') /\ Range(toUp') = Range(toUp) \cup {packet}
      /\ packet \in AllPackets
  BY <1>1, OnePacketMore DEF PumpInv, PacketTypes, PacketsOrdered, Busy
<1>3. PacketTypes'
  BY <1>1, <1>2 DEF PumpInv, PacketTypes, NoPacket, Packet, AllPackets
<1>4. PacketsSent'
  BY <1>1, <1>2 DEF PumpInv, PacketsSent, Busy
<1>5. PacketsOrdered'
  BY <1>1, <1>2 DEF PumpInv, PacketsOrdered, Busy, Ordered
<1>6. Accounted'
  BY <1>1, <1>2 DEF PumpInv, Accounted
<1>7. NoGaps'
  <2>1. ASSUME NEW q \in AllPackets, Due(cmds, q), Before(q, packet)
        PROVE  q.cmd \in Range(ran) \/ q \in Range(toUp)
    <3>1. q # packet /\ ~Before(packet, q)
      BY <1>2, <2>1, BeforeOrder
    <3> QED
      BY <1>1, <2>1, <3>1 DEF PumpInv, PacketsOrdered, Accounted, Busy
  <2> QED
    BY <1>1, <1>2, <2>1 DEF PumpInv, NoGaps
<1>8. RunWell'
  BY <1>1 DEF PumpInv, RunWell
<1> QED
  BY <1>3, <1>4, <1>5, <1>6, <1>7, <1>8 DEF PumpInv

(* The pump answers a packet itself, or stops.                             *)
LEMMA OwnStep ==
    ASSUME PumpInv, PumpReadEnd \/ PumpAnswer \/ PumpBody \/ PumpAnswerFail \/ PumpForwardFail
    PROVE  PumpInv'
<1>1. /\ fromClient' = fromClient /\ toUp' = toUp /\ cmds' = cmds /\ ran' = ran
      /\ packet' \in {packet, NoPacket}
      /\ \/ pump' = "done"
         \/ pump \in {"answer", "body"} /\ pump' = "read"
         \/ pump = "answer" /\ pump' = "body" /\ packet' = packet
  BY DEF PumpReadEnd, PumpAnswer, PumpBody, PumpAnswerFail, PumpForwardFail, history
<1>2. NoPacket \in AllPackets
  BY DEF NoPacket, Packet, AllPackets
<1>3. PacketTypes'
  BY <1>1, <1>2 DEF PumpInv, PacketTypes
<1>4. PacketsSent'
  BY <1>1 DEF PumpInv, PacketsSent, Busy
<1>5. PacketsOrdered'
  BY <1>1 DEF PumpInv, PacketsOrdered, Busy, Ordered
<1>6. Accounted'
  BY <1>1 DEF PumpInv, Accounted
<1>7. NoGaps' /\ RunWell'
  BY <1>1 DEF PumpInv, NoGaps, RunWell
<1> QED
  BY <1>3, <1>4, <1>5, <1>6, <1>7 DEF PumpInv

(* Steps that leave the packets alone.                                     *)
LEMMA PumpFrame ==
    ASSUME PumpInv, UNCHANGED <<cmds, fromClient, pump, packet, toUp, ran>>
    PROVE  PumpInv'
  BY DEF PumpInv, PacketTypes, PacketsSent, PacketsOrdered, Accounted, NoGaps, RunWell, Busy, Ordered

(* Nothing has been sent yet.                                              *)
LEMMA PumpInit == Init => PumpInv
<1> SUFFICES ASSUME Init PROVE PumpInv
  OBVIOUS
<1>1. /\ cmds = <<>> /\ ran = <<>> /\ fromClient = <<>> /\ toUp = <<>>
      /\ pump = "read" /\ packet = NoPacket
  BY DEF Init
<1>2. NoPacket \in AllPackets
  BY DEF NoPacket, Packet, AllPackets
<1>3. DOMAIN << >> = {} /\ Range(<< >>) = {}
  BY DEF Range
<1> QED
  BY <1>1, <1>2, <1>3 DEF PumpInv, PacketTypes, PacketsSent, PacketsOrdered, Accounted, NoGaps,
                          RunWell, Busy, Ordered, Due, Sent

(* Every step of the session keeps what is known of the packets.           *)
LEMMA PumpNext == PumpInv /\ [Next]_vars => PumpInv'
<1> SUFFICES ASSUME PumpInv, [Next]_vars PROVE PumpInv'
  OBVIOUS
<1>1. CASE Login \/ Copy \/ FirstDone \/ SecondDone
  <2>1. UNCHANGED <<cmds, fromClient, pump, packet, toUp, ran>>
    BY <1>1 DEF Login, Accept, Greet, SslRequest, Handshake, Response, IOFail, Validate, Connect,
                ConnectFail, Agree, Ok, Proceed, Return, Copy, CopyRead, CopyWrite, CopyEnd,
                FirstDone, SecondDone, relaying, upward, history
  <2> QED
    BY <2>1, PumpFrame
<1>2. CASE Pump
  BY <1>2, ReadStep, ForwardStep, OwnStep DEF Pump
<1>3. CASE \E kind \in Kinds : ClientSend(kind)
  BY <1>3, SendStep
<1>4. CASE UpstreamRun
  <2>1. toUp \in Seq(AllPackets) /\ toUp # <<>> /\ Head(toUp).last /\ UpstreamAnswers(1)
    BY <1>4 DEF UpstreamRun, PumpInv, PacketTypes
  <2>2. 1 \in 1 .. Len(toUp) /\ toUp[1].last
    BY <2>1
  <2>3. \A i \in 1 .. 1 - 1 : ~toUp[i].last
    OBVIOUS
  <2> QED
    BY <2>1, <2>2, <2>3, UpstreamStep
<1>5. CASE UpstreamRunLong
  <2>1. PICK k \in 2 .. Len(toUp) :
          toUp[k].last /\ (\A i \in 1 .. k - 1 : ~toUp[i].last) /\ UpstreamAnswers(k)
    BY <1>5 DEF UpstreamRunLong
  <2>2. k \in 1 .. Len(toUp)
    OBVIOUS
  <2> QED
    BY <2>1, <2>2, UpstreamStep
<1>6. CASE ClientRead \/ ClientGone \/ BackendLost \/ Expire \/ Shutdown \/ UNCHANGED vars
  <2>1. UNCHANGED <<cmds, fromClient, pump, packet, toUp, ran>>
    BY <1>6 DEF ClientRead, ClientGone, BackendLost, Expire, Shutdown, vars, relaying, upward, history
  <2> QED
    BY <2>1, PumpFrame
<1> QED
  BY <1>1, <1>2, <1>3, <1>4, <1>5, <1>6 DEF Next, Environment

(* The upstream runs the client's commands other than COM_CHANGE_USER, in  *)
(* their order, whole and with none left out, whatever the pump has taken  *)
(* out of the stream and however many commands the client has outstanding  *)
(* (mysql.go:274-298).                                                     *)
THEOREM UpstreamHolds == Spec => []UpstreamRunsTheRest
<1>1. PumpInv => UpstreamRunsTheRest
  <2> SUFFICES ASSUME PumpInv PROVE UpstreamRunsTheRest
    OBVIOUS
  <2>1. \A k \in DOMAIN ran : ran[k] \in Range(ran)
    BY DEF Range
  <2>2. \A n \in Range(ran) : \E j \in DOMAIN ran : ran[j] = n
    BY DEF Range
  <2> QED
    BY <2>1, <2>2 DEF PumpInv, RunWell, UpstreamRunsTheRest
<1> QED
  BY <1>1, PumpInit, PumpNext, PTL DEF Spec

----------------------------------------------------------------------------
(* The answers to a client that waits for each.                            *)

Fragments == Nat \X {"head", "tail"}

(* Fragment f is the k-th of those that answer commands 1, 2, 3 ...        *)
At(k, f) ==
    \E n \in Nat : \/ k + 1 = 2 * n /\ f = <<n, "head">>
                   \/ k = 2 * n     /\ f = <<n, "tail">>

Placed(s, offset) == \A k \in DOMAIN s : At(offset + k, s[k])

Written == Len(seen) + Len(toClient)

(* What the client has been written is placed well, and it has been        *)
(* written all of the answers but the last, of which it may lack some.     *)
AnswersPlaced ==
    /\ seen \in Seq(Fragments) /\ toClient \in Seq(Fragments)
    /\ Placed(seen, 0) /\ Placed(toClient, Len(seen))
    /\ Written <= 2 * Len(cmds) /\ 2 * Len(cmds) <= Written + 2

(* With n commands sent and w fragments written, io.Copy (at c, holding h, *)
(* with u before it) has the rest of the last answer, or nothing, or has   *)
(* ended.                                                                  *)
Carries(n, w, c, h, u) ==
    \/ c = "done"
    \/ c = "read"  /\ u = <<>>
    \/ c = "read"  /\ u = <<<<n, "head">>, <<n, "tail">>>> /\ w + 2 = 2 * n
    \/ c = "write" /\ h = <<n, "head">> /\ u = <<<<n, "tail">>>> /\ w + 2 = 2 * n
    \/ c = "read"  /\ u = <<<<n, "tail">>>> /\ w + 1 = 2 * n
    \/ c = "write" /\ h = <<n, "tail">> /\ u = <<>> /\ w + 1 = 2 * n

AnswerCarried == Carries(Len(cmds), Written, copier, hand, fromUp)

(* The packets on their way are the last command's.                        *)
OneCommand ==
    /\ \A p \in Range(fromClient) : p.cmd = Len(cmds)
    /\ \A p \in Range(toUp) : p.cmd = Len(cmds)
    /\ Busy => packet.cmd = Len(cmds)
    /\ pump \in {"answer", "body"} => cmds[packet.cmd] = "change"

(* While some are, io.Copy has nothing and no answer has been begun but by *)
(* the pump itself.                                                        *)
InFlight == fromClient # <<>> \/ toUp # <<>> \/ Busy

OneAnswer ==
    InFlight => /\ copier = "done" \/ (copier = "read" /\ fromUp = <<>>)
                /\ Written + (IF pump = "body" THEN 1 ELSE 2) = 2 * Len(cmds)

AnswersInv == AnswersPlaced /\ AnswerCarried /\ OneCommand /\ OneAnswer

(* One fragment is written to the client.                                  *)
LEMMA OneFragmentMore ==
    ASSUME AnswersPlaced, NEW f \in Fragments, At(Written + 1, f),
           toClient' = Append(toClient, f), seen' = seen
    PROVE  /\ seen' \in Seq(Fragments) /\ toClient' \in Seq(Fragments)
           /\ Placed(seen, 0)' /\ Placed(toClient, Len(seen))'
           /\ Written \in Nat /\ Written' = Written + 1
<1>1. PICK l, m : l = Len(seen) /\ m = Len(toClient)
  OBVIOUS
<1>2. /\ seen \in Seq(Fragments) /\ toClient \in Seq(Fragments)
      /\ Placed(seen, 0) /\ Placed(toClient, Len(seen))
  BY DEF AnswersPlaced
<1>3. l \in Nat /\ m \in Nat /\ DOMAIN toClient = 1 .. m /\ Written = l + m
  BY <1>1, <1>2 DEF Written
<1>4. /\ toClient' \in Seq(Fragments) /\ Len(toClient') = m + 1
      /\ DOMAIN toClient' = 1 .. (m + 1) /\ toClient'[m + 1] = f
      /\ \A k \in 1 .. m : toClient'[k] = toClient[k]
  BY <1>1, <1>2, AppendProperties
<1>5. Len(seen') = l
  BY <1>1
<1>6. Written' = (l + m) + 1
  BY <1>3, <1>4, <1>5 DEF Written
<1>7. \A k \in 1 .. m : At(l + k, toClient[k])
  BY <1>1, <1>2, <1>3 DEF Placed
<1>8. At(l + (m + 1), f)
  <2>1. l + (m + 1) = (l + m) + 1
    BY <1>3
  <2> QED
    BY <1>3, <2>1
<1>9. \A k \in 1 .. (m + 1) : At(l + k, toClient'[k])
  <2>1. 1 .. (m + 1) = (1 .. m) \cup {m + 1}
    BY <1>3
  <2> QED
    BY <1>4, <1>7, <1>8, <2>1
<1>10. Placed(toClient, Len(seen))'
  BY <1>4, <1>5, <1>9 DEF Placed
<1>11. Placed(seen, 0)'
  BY <1>2 DEF Placed
<1> QED
  BY <1>2, <1>3, <1>4, <1>6, <1>10, <1>11

(* The client reads a fragment.                                            *)
LEMMA OneFragmentRead ==
    ASSUME AnswersPlaced, toClient # <<>>,
           seen' = Append(seen, Head(toClient)), toClient' = Tail(toClient)
    PROVE  /\ seen' \in Seq(Fragments) /\ toClient' \in Seq(Fragments)
           /\ Placed(seen, 0)' /\ Placed(toClient, Len(seen))'
           /\ Written' = Written
<1>1. PICK l, m : l = Len(seen) /\ m = Len(toClient)
  OBVIOUS
<1>2. /\ seen \in Seq(Fragments) /\ toClient \in Seq(Fragments)
      /\ Placed(seen, 0) /\ Placed(toClient, Len(seen))
  BY DEF AnswersPlaced
<1>3. /\ l \in Nat /\ m \in Nat \ {0} /\ DOMAIN toClient = 1 .. m /\ DOMAIN seen = 1 .. l
      /\ Written = l + m
  BY <1>1, <1>2 DEF Written
<1>4. Head(toClient) = toClient[1] /\ Head(toClient) \in Fragments
  BY <1>2
<1>5. /\ seen' \in Seq(Fragments) /\ Len(seen') = l + 1 /\ DOMAIN seen' = 1 .. (l + 1)
      /\ seen'[l + 1] = toClient[1] /\ \A k \in 1 .. l : seen'[k] = seen[k]
  BY <1>1, <1>2, <1>4, AppendProperties
<1>6. /\ toClient' \in Seq(Fragments) /\ Len(toClient') = m - 1 /\ DOMAIN toClient' = 1 .. (m - 1)
      /\ \A k \in 1 .. (m - 1) : toClient'[k] = toClient[k + 1]
  BY <1>1, <1>2
<1>7. Written' = Written
  <2>1. Written' = (l + 1) + (m - 1)
    BY <1>5, <1>6 DEF Written
  <2> QED
    BY <1>3, <2>1
<1>8. \A k \in 1 .. l : At(0 + k, seen[k])
  BY <1>2, <1>3 DEF Placed
<1>9. \A k \in 1 .. m : At(l + k, toClient[k])
  BY <1>1, <1>2, <1>3 DEF Placed
<1>10. \A k \in 1 .. (l + 1) : At(0 + k, seen'[k])
  <2>1. 1 .. (l + 1) = (1 .. l) \cup {l + 1} /\ 0 + (l + 1) = l + 1 /\ 1 \in 1 .. m
    BY <1>3
  <2>2. At(l + 1, toClient[1])
    BY <1>9, <2>1
  <2> QED
    BY <1>5, <1>8, <2>1, <2>2
<1>11. \A k \in 1 .. (m - 1) : At((l + 1) + k, toClient'[k])
  <2>1. \A k \in 1 .. (m - 1) : k + 1 \in 1 .. m /\ l + (k + 1) = (l + 1) + k
    BY <1>3
  <2> QED
    BY <1>6, <1>9, <2>1
<1>12. Placed(seen, 0)'
  BY <1>5, <1>10 DEF Placed
<1>13. Placed(toClient, Len(seen))'
  BY <1>5, <1>6, <1>11 DEF Placed
<1> QED
  BY <1>5, <1>6, <1>7, <1>12, <1>13

(* A client that has read an answer to each of its commands has been       *)
(* written all of them, and nothing is on its way.                         *)
LEMMA AllAnswered ==
    ASSUME AnswersPlaced, cmds \in Seq(Kinds), Len(cmds) < Answered + 1
    PROVE  Written = 2 * Len(cmds)
<1>1. PICK l, m, n : l = Len(seen) /\ m = Len(toClient) /\ n = Len(cmds)
  OBVIOUS
<1>2. /\ l \in Nat /\ m \in Nat /\ n \in Nat /\ DOMAIN seen = 1 .. l
      /\ Written = l + m /\ l + m <= 2 * n
  BY <1>1 DEF AnswersPlaced, Written
<1>3. SUFFICES ASSUME l < 2 * n PROVE FALSE
  BY <1>1, <1>2
<1> DEFINE S == {k \in DOMAIN seen : seen[k][2] = "tail"}
           D == {2 * h : h \in 1 .. (n - 1)}
           f == [h \in 1 .. (n - 1) |-> 2 * h]
<1>4. \A k \in S : k \in D
  <2> SUFFICES ASSUME NEW k \in 1 .. l, seen[k][2] = "tail" PROVE k \in D
    BY <1>2
  <2>1. At(0 + k, seen[k])
    BY <1>2 DEF AnswersPlaced, Placed
  <2>2. PICK h \in Nat : \/ k + 1 = 2 * h /\ seen[k] = <<h, "head">>
                         \/ k = 2 * h     /\ seen[k] = <<h, "tail">>
    BY <2>1 DEF At
  <2>3. k = 2 * h
    BY <2>2
  <2>4. h \in 1 .. (n - 1)
    BY <1>2, <1>3, <2>3
  <2> QED
    BY <2>3, <2>4
<1>5. n >= 1 /\ 1 \in Int /\ n - 1 \in Int
  BY <1>2, <1>3
<1>6. IsFiniteSet(1 .. (n - 1)) /\ Cardinality(1 .. (n - 1)) = n - 1
  <2>1. /\ IsFiniteSet(1 .. (n - 1))
        /\ Cardinality(1 .. (n - 1)) = IF 1 > n - 1 THEN 0 ELSE (n - 1) - 1 + 1
    BY <1>5, FS_Interval
  <2> QED
    BY <1>2, <1>5, <2>1
<1>7. IsFiniteSet(D) /\ Cardinality(D) <= n - 1
  <2>1. f \in Surjection(1 .. (n - 1), D)
    BY DEF Surjection
  <2> QED
    BY <1>6, <2>1, FS_Surjection
<1>8. IsFiniteSet(S) /\ Cardinality(S) <= Cardinality(D)
  <2>1. S \in SUBSET D
    BY <1>4
  <2> HIDE DEF S, D
  <2> QED
    BY <1>7, <2>1, FS_Subset
<1>9. Cardinality(S) \in Nat /\ Cardinality(D) \in Nat
  BY <1>7, <1>8, FS_CardinalityType
<1>10. n < Cardinality(S) + 1
  BY <1>1 DEF Answered
<1> QED
  <2> HIDE DEF S, D
  <2> QED
    BY <1>2, <1>5, <1>7, <1>8, <1>9, <1>10

(* A sequence of packets that is not empty holds one.                      *)
LEMMA SomeEntry ==
    ASSUME NEW s \in Seq(AllPackets), s # <<>>
    PROVE  \E q \in AllPackets : q \in Range(s)
<1>1. 1 \in 1 .. Len(s)
  OBVIOUS
<1> QED
  BY <1>1, SeqRange

(* While the pump answers COM_CHANGE_USER nothing else is on its way.      *)
LEMMA OwnAlone ==
    ASSUME PumpInv, OneCommand, pump \in {"answer", "body"}
    PROVE  fromClient = <<>> /\ toUp = <<>>
<1>1. /\ Sent(cmds, packet) /\ packet.cmd = Len(cmds) /\ cmds[packet.cmd] = "change"
      /\ packet \in AllPackets
  BY DEF PumpInv, PacketTypes, PacketsSent, OneCommand, Busy
<1>2. \A q \in AllPackets : Sent(cmds, q) /\ q.cmd = packet.cmd => q = packet
  BY <1>1 DEF Sent
<1>3. ~Before(packet, packet)
  BY <1>1, BeforeOrder
<1>4. \A s \in Seq(AllPackets) : s # <<>> => \E q \in AllPackets : q \in Range(s)
  BY SomeEntry
<1>5. fromClient = <<>>
  <2>1. ASSUME NEW q \in AllPackets, q \in Range(fromClient) PROVE FALSE
    <3>1. Sent(cmds, q) /\ q.cmd = packet.cmd /\ Before(packet, q)
      BY <1>1, <2>1 DEF PumpInv, PacketsSent, PacketsOrdered, OneCommand, Busy
    <3> QED
      BY <1>2, <1>3, <3>1
  <2> QED
    BY <1>4, <2>1 DEF PumpInv, PacketTypes
<1>6. toUp = <<>>
  <2>1. ASSUME NEW q \in AllPackets, q \in Range(toUp) PROVE FALSE
    <3>1. Sent(cmds, q) /\ q.cmd = packet.cmd /\ Before(q, packet)
      BY <1>1, <2>1 DEF PumpInv, PacketsSent, PacketsOrdered, OneCommand, Busy, Due
    <3> QED
      BY <1>2, <1>3, <3>1
  <2> QED
    BY <1>4, <2>1 DEF PumpInv, PacketTypes
<1> QED
  BY <1>5, <1>6

(* Steps of the pump that write nothing to the client.                     *)
LEMMA PumpKeepsAnswers ==
    ASSUME PumpInv, AnswersInv,
           PumpRead \/ PumpReadEnd \/ PumpAnswerFail \/ PumpForward \/ PumpForwardFail
    PROVE  AnswersInv'
<1>1. UNCHANGED <<cmds, seen, fromUp, copier, hand, toClient>>
  BY DEF PumpRead, PumpReadEnd, PumpAnswerFail, PumpForward, PumpForwardFail, history, downward
<1>2. AnswersPlaced' /\ AnswerCarried' /\ Written' = Written
  BY <1>1 DEF AnswersInv, AnswersPlaced, AnswerCarried, Written, Placed
<1>3. CASE PumpRead
  <2>1. /\ fromClient # <<>> /\ packet' = Head(fromClient) /\ fromClient' = Tail(fromClient)
        /\ pump = "read" /\ toUp' = toUp
        /\ pump' = IF packet'.seq = 0 /\ packet'.op = "0x11" THEN "answer" ELSE "forward"
    BY <1>3 DEF PumpRead
  <2>2. /\ packet' \in AllPackets
        /\ Range(fromClient) = Range(fromClient') \cup {packet'}
    BY <2>1, HeadAndTail DEF PumpInv, PacketTypes, PacketsOrdered
  <2>3. Sent(cmds, packet')
    BY <2>2 DEF PumpInv, PacketsSent
  <2>4. pump' = "answer" => cmds[packet'.cmd] = "change"
    BY <2>1, <2>3 DEF Sent, Packet
  <2>5. OneCommand'
    BY <1>1, <2>1, <2>2, <2>4 DEF AnswersInv, OneCommand, Busy
  <2>6. OneAnswer'
    BY <1>1, <1>2, <2>1 DEF AnswersInv, OneAnswer, InFlight, Busy
  <2> QED
    BY <1>2, <2>5, <2>6 DEF AnswersInv
<1>4. CASE PumpReadEnd \/ PumpForwardFail
  <2>1. pump \in {"read", "forward"} /\ pump' = "done" /\ fromClient' = fromClient /\ toUp' = toUp
    BY <1>4 DEF PumpReadEnd, PumpForwardFail
  <2>2. OneCommand' /\ OneAnswer'
    BY <1>1, <1>2, <2>1 DEF AnswersInv, OneCommand, OneAnswer, InFlight, Busy
  <2> QED
    BY <1>2, <2>2 DEF AnswersInv
<1>5. CASE PumpForward
  <2>1. /\ pump = "forward" /\ pump' = "read" /\ fromClient' = fromClient
        /\ toUp' = Append(toUp, packet)
    BY <1>5 DEF PumpForward
  <2>2. Range(toUp') = Range(toUp) \cup {packet}
    BY <2>1, OnePacketMore DEF PumpInv, PacketTypes, PacketsOrdered, Busy
  <2>3. OneCommand'
    BY <1>1, <2>1, <2>2 DEF AnswersInv, OneCommand, Busy
  <2>4. OneAnswer'
    BY <1>1, <1>2, <2>1 DEF AnswersInv, OneAnswer, InFlight, Busy
  <2> QED
    BY <1>2, <2>3, <2>4 DEF AnswersInv
<1>6. CASE PumpAnswerFail
  <2>1. /\ pump \in {"answer", "body"} /\ pump' = "read"
        /\ fromClient' = fromClient /\ toUp' = toUp
    BY <1>6 DEF PumpAnswerFail
  <2>2. fromClient = <<>> /\ toUp = <<>>
    BY <2>1, OwnAlone DEF AnswersInv
  <2>3. OneCommand' /\ OneAnswer'
    BY <1>1, <2>1, <2>2 DEF AnswersInv, OneCommand, OneAnswer, InFlight, Busy
  <2> QED
    BY <1>2, <2>3 DEF AnswersInv
<1> QED
  BY <1>3, <1>4, <1>5, <1>6

(* The pump writes a part of its own answer.                               *)
LEMMA OwnAnswerStep ==
    ASSUME PumpInv, AnswersInv, PumpAnswer \/ PumpBody
    PROVE  AnswersInv'
<1>1. PICK n, w : n = Len(cmds) /\ w = Written
  OBVIOUS
<1>2. /\ UNCHANGED <<cmds, seen, fromUp, copier, hand, fromClient, toUp>>
      /\ pump \in {"answer", "body"} /\ Busy
  BY DEF PumpAnswer, PumpBody, history, Busy
<1>3. fromClient = <<>> /\ toUp = <<>>
  BY <1>2, OwnAlone DEF AnswersInv
<1>4. /\ n \in Nat /\ packet.cmd = n /\ cmds[packet.cmd] = "change"
      /\ w + (IF pump = "body" THEN 1 ELSE 2) = 2 * n
      /\ copier = "done" \/ (copier = "read" /\ fromUp = <<>>)
  BY <1>1, <1>2 DEF AnswersInv, OneCommand, OneAnswer, InFlight, PumpInv, PacketTypes
<1>5. w \in Nat
  BY <1>1 DEF AnswersInv, AnswersPlaced, Written
<1>6. AnswersPlaced
  BY DEF AnswersInv
<1>7. CASE PumpAnswer
  <2>1. /\ pump = "answer" /\ pump' = "body" /\ packet' = packet
        /\ toClient' = Append(toClient, <<n, "head">>)
    BY <1>4, <1>7 DEF PumpAnswer
  <2>2. w + 2 = 2 * n
    BY <1>4, <2>1
  <2>3. <<n, "head">> \in Fragments /\ At(w + 1, <<n, "head">>)
    <3>1. (w + 1) + 1 = 2 * n
      BY <1>4, <1>5, <2>2
    <3> QED
      BY <1>4, <3>1 DEF Fragments, At
  <2>4. /\ seen' \in Seq(Fragments) /\ toClient' \in Seq(Fragments)
        /\ Placed(seen, 0)' /\ Placed(toClient, Len(seen))' /\ Written' = w + 1
    BY <1>1, <1>2, <1>6, <2>1, <2>3, OneFragmentMore
  <2>5. Len(cmds') = n
    BY <1>1, <1>2
  <2>6. AnswersPlaced'
    BY <1>4, <1>5, <2>2, <2>4, <2>5 DEF AnswersPlaced
  <2>7. AnswerCarried' /\ OneCommand' /\ OneAnswer'
    BY <1>2, <1>3, <1>4, <1>5, <2>1, <2>2, <2>4, <2>5
       DEF AnswerCarried, Carries, OneCommand, OneAnswer, InFlight, Busy, Range
  <2> QED
    BY <2>6, <2>7 DEF AnswersInv
<1>8. CASE PumpBody
  <2>1. /\ pump = "body" /\ pump' = "read"
        /\ toClient' = Append(toClient, <<n, "tail">>)
    BY <1>4, <1>8 DEF PumpBody
  <2>2. w + 1 = 2 * n
    BY <1>4, <2>1
  <2>3. <<n, "tail">> \in Fragments /\ At(w + 1, <<n, "tail">>)
    BY <1>4, <2>2 DEF Fragments, At
  <2>4. /\ seen' \in Seq(Fragments) /\ toClient' \in Seq(Fragments)
        /\ Placed(seen, 0)' /\ Placed(toClient, Len(seen))' /\ Written' = w + 1
    BY <1>1, <1>2, <1>6, <2>1, <2>3, OneFragmentMore
  <2>5. Len(cmds') = n
    BY <1>1, <1>2
  <2>6. AnswersPlaced'
    BY <1>4, <1>5, <2>2, <2>4, <2>5 DEF AnswersPlaced
  <2>7. AnswerCarried' /\ OneCommand' /\ OneAnswer'
    BY <1>2, <1>3, <1>4, <2>1 DEF AnswerCarried, Carries, OneCommand, OneAnswer, InFlight, Busy, Range
  <2> QED
    BY <2>6, <2>7 DEF AnswersInv
<1> QED
  BY <1>7, <1>8

(* io.Copy reads, writes or ends.                                          *)
LEMMA CopyStep ==
    ASSUME PumpInv, AnswersInv, Copy
    PROVE  AnswersInv'
<1>1. PICK n, w : n = Len(cmds) /\ w = Written
  OBVIOUS
<1>2. UNCHANGED <<cmds, seen, fromClient, pump, packet, toUp>>
  BY DEF Copy, CopyRead, CopyWrite, CopyEnd, history, upward
<1>3. n \in Nat /\ w \in Nat /\ Len(cmds') = n /\ OneCommand'
  BY <1>1, <1>2 DEF PumpInv, PacketTypes, AnswersInv, AnswersPlaced, Written, OneCommand, Busy
<1>4. Carries(n, w, copier, hand, fromUp)
  BY <1>1 DEF AnswersInv, AnswerCarried
<1>5. CASE CopyRead \/ CopyEnd
  <2>1. toClient' = toClient
    BY <1>5 DEF CopyRead, CopyEnd
  <2>2. AnswersPlaced' /\ Written' = w
    BY <1>1, <1>2, <2>1 DEF AnswersInv, AnswersPlaced, Written, Placed
  <2>3. CASE CopyEnd
    <3>1. copier' = "done"
      BY <2>3 DEF CopyEnd
    <3>2. AnswerCarried' /\ OneAnswer'
      BY <1>1, <1>2, <2>2, <3>1 DEF AnswersInv, AnswerCarried, Carries, OneAnswer, InFlight, Busy
    <3> QED
      BY <1>3, <2>2, <3>2 DEF AnswersInv
  <2>4. CASE CopyRead
    <3>1. /\ copier = "read" /\ copier' = "write" /\ fromUp # <<>>
          /\ hand' = Head(fromUp) /\ fromUp' = Tail(fromUp)
      BY <2>4 DEF CopyRead
    <3>2. ~InFlight /\ ~InFlight'
      BY <1>2, <3>1 DEF AnswersInv, OneAnswer, InFlight, Busy
    <3>3. Carries(n, w, copier', hand', fromUp')
      <4>1. CASE fromUp = <<<<n, "head">>, <<n, "tail">>>> /\ w + 2 = 2 * n
        <5>1. hand' = <<n, "head">> /\ fromUp' = <<<<n, "tail">>>>
          BY <3>1, <4>1
        <5> QED
          BY <3>1, <4>1, <5>1 DEF Carries
      <4>2. CASE fromUp = <<<<n, "tail">>>> /\ w + 1 = 2 * n
        <5>1. hand' = <<n, "tail">> /\ fromUp' = <<>>
          BY <3>1, <4>2
        <5> QED
          BY <3>1, <4>2, <5>1 DEF Carries
      <4> QED
        BY <1>4, <3>1, <4>1, <4>2 DEF Carries
    <3> QED
      BY <1>3, <2>2, <3>2, <3>3 DEF AnswersInv, AnswerCarried, OneAnswer
  <2> QED
    BY <1>5, <2>3, <2>4
<1>6. CASE CopyWrite
  <2>1. /\ copier = "write" /\ copier' = "read" /\ fromUp' = fromUp
        /\ toClient' = Append(toClient, hand)
    BY <1>6 DEF CopyWrite
  <2>2. ~InFlight /\ ~InFlight'
    BY <1>2, <2>1 DEF AnswersInv, OneAnswer, InFlight, Busy
  <2>3. \/ hand = <<n, "head">> /\ fromUp = <<<<n, "tail">>>> /\ w + 2 = 2 * n
        \/ hand = <<n, "tail">> /\ fromUp = <<>> /\ w + 1 = 2 * n
    BY <1>4, <2>1 DEF Carries
  <2>4. hand \in Fragments /\ At(w + 1, hand)
    <3>1. CASE hand = <<n, "head">> /\ w + 2 = 2 * n
      <4>1. (w + 1) + 1 = 2 * n
        BY <1>3, <3>1
      <4> QED
        BY <1>3, <3>1, <4>1 DEF Fragments, At
    <3>2. CASE hand = <<n, "tail">> /\ w + 1 = 2 * n
      BY <1>3, <3>2 DEF Fragments, At
    <3> QED
      BY <2>3, <3>1, <3>2
  <2>5. /\ seen' \in Seq(Fragments) /\ toClient' \in Seq(Fragments)
        /\ Placed(seen, 0)' /\ Placed(toClient, Len(seen))' /\ Written' = w + 1
    BY <1>1, <1>2, <2>1, <2>4, OneFragmentMore DEF AnswersInv
  <2>6. AnswersPlaced'
    BY <1>3, <2>3, <2>5 DEF AnswersPlaced
  <2>7. Carries(n, w + 1, copier', hand', fromUp')
    BY <1>3, <2>1, <2>3 DEF Carries
  <2> QED
    BY <1>3, <2>2, <2>5, <2>6, <2>7 DEF AnswersInv, AnswerCarried, OneAnswer
<1> QED
  BY <1>5, <1>6 DEF Copy

(* The upstream runs the last command, and nothing is on its way up.       *)
LEMMA UpstreamAnswersOnce ==
    ASSUME PumpInv, AnswersInv, NEW k \in 1 .. Len(toUp), toUp[k].last,
           \A i \in 1 .. k - 1 : ~toUp[i].last, UpstreamAnswers(k)
    PROVE  AnswersInv'
<1>1. PICK n, w, x : n = Len(cmds) /\ w = Written /\ x = toUp[k]
  OBVIOUS
<1>2. x \in AllPackets /\ x \in Range(toUp) /\ Due(cmds, x) /\ Sent(cmds, x) /\ x.last
  BY <1>1, WholeCommand DEF Due
<1>3. /\ x.cmd = n /\ n \in Nat /\ w \in Nat
      /\ toUp \in Seq(AllPackets) /\ Ordered(toUp) /\ toUp # <<>>
  BY <1>1, <1>2 DEF AnswersInv, OneCommand, PumpInv, PacketTypes, PacketsOrdered, AnswersPlaced, Written
<1>4. /\ toUp' = SubSeq(toUp, k + 1, Len(toUp)) /\ fromUp' = fromUp \o Answer(n)
      /\ UNCHANGED <<cmds, fromClient, pump, packet, seen, copier, hand, toClient>>
  BY <1>1, <1>3 DEF UpstreamAnswers
<1>5. /\ pump # "body" /\ w + 2 = 2 * n
      /\ copier = "done" \/ (copier = "read" /\ fromUp = <<>>)
  <2>1. pump # "body"
    BY <1>3, OwnAlone DEF AnswersInv
  <2> QED
    BY <1>1, <1>3, <2>1 DEF AnswersInv, OneAnswer, InFlight
<1>6. ASSUME NEW p \in AllPackets, Sent(cmds, p), p.cmd = n, Before(x, p) PROVE FALSE
  <2>1. x.cmd < p.cmd
    BY <1>2, <1>6, LastIsLast
  <2> QED
    BY <1>3, <1>6, <2>1
<1>7. \A s \in Seq(AllPackets) : s # <<>> => \E q \in AllPackets : q \in Range(s)
  BY SomeEntry
<1>8. toUp' = <<>>
  <2>1. CutOff(toUp, k, toUp')
    BY <1>3, <1>4, Drop
  <2>2. k \in 1 .. k
    OBVIOUS
  <2>3. ASSUME NEW q \in AllPackets, q \in Range(toUp') PROVE FALSE
    <3>1. q \in Range(toUp) /\ Before(x, q)
      BY <1>1, <2>1, <2>2, <2>3 DEF CutOff
    <3>2. Sent(cmds, q) /\ q.cmd = n
      BY <1>1, <3>1 DEF PumpInv, PacketsSent, Due, AnswersInv, OneCommand
    <3> QED
      BY <1>6, <3>1, <3>2
  <2> QED
    BY <1>7, <2>1, <2>3 DEF CutOff
<1>9. fromClient = <<>>
  <2>1. ASSUME NEW q \in AllPackets, q \in Range(fromClient) PROVE FALSE
    <3>1. Sent(cmds, q) /\ q.cmd = n /\ Before(x, q)
      BY <1>1, <1>2, <2>1 DEF PumpInv, PacketsSent, PacketsOrdered, AnswersInv, OneCommand
    <3> QED
      BY <1>6, <3>1
  <2> QED
    BY <1>7, <2>1 DEF PumpInv, PacketTypes
<1>10. ~Busy
  <2>1. Busy => packet \in AllPackets /\ Sent(cmds, packet) /\ packet.cmd = n /\ Before(x, packet)
    BY <1>1, <1>2 DEF PumpInv, PacketTypes, PacketsSent, PacketsOrdered, AnswersInv, OneCommand
  <2> QED
    BY <1>6, <2>1
<1>11. Len(cmds') = n /\ Written' = w
  BY <1>1, <1>4 DEF Written
<1>12. AnswersPlaced'
  BY <1>4 DEF AnswersInv, AnswersPlaced, Written, Placed
<1>13. Carries(n, w, copier', hand', fromUp')
  <2>1. CASE copier = "read" /\ fromUp = <<>>
    <3>1. fromUp' = <<<<n, "head">>, <<n, "tail">>>>
      BY <1>4, <2>1 DEF Answer
    <3> QED
      BY <1>4, <1>5, <2>1, <3>1 DEF Carries
  <2>2. CASE copier = "done"
    BY <1>4, <2>2 DEF Carries
  <2> QED
    BY <1>5, <2>1, <2>2
<1>14. OneCommand' /\ OneAnswer'
  BY <1>4, <1>8, <1>9, <1>10 DEF OneCommand, OneAnswer, InFlight, Busy, Range
<1> QED
  BY <1>11, <1>12, <1>13, <1>14 DEF AnswersInv, AnswerCarried

(* The client, which waits for its answers, sends a command.               *)
LEMMA SendAfterAnswer ==
    ASSUME PumpInv, AnswersInv, Window = 1, NEW kind \in Kinds, ClientSend(kind)
    PROVE  AnswersInv'
<1>1. PICK n, w : n = Len(cmds) /\ w = Written
  OBVIOUS
<1>2. /\ cmds' = Append(cmds, kind) /\ fromClient' = fromClient \o Packets(n + 1, kind)
      /\ UNCHANGED <<pump, packet, toUp, fromUp, copier, hand, toClient, seen>>
      /\ Len(cmds) < Answered + 1
  BY <1>1 DEF ClientSend, downward
<1>3. cmds \in Seq(Kinds) /\ n \in Nat /\ w \in Nat /\ AnswersPlaced
  BY <1>1 DEF PumpInv, PacketTypes, AnswersInv, AnswersPlaced, Written
<1>4. w = 2 * n
  BY <1>1, <1>2, <1>3, AllAnswered
<1>5. ~InFlight
  BY <1>1, <1>3, <1>4 DEF AnswersInv, OneAnswer
<1>6. copier = "done" \/ (copier = "read" /\ fromUp = <<>>)
  <2>1. Carries(n, w, copier, hand, fromUp)
    BY <1>1 DEF AnswersInv, AnswerCarried
  <2> QED
    BY <1>3, <1>4, <2>1 DEF Carries
<1>7. Len(cmds') = n + 1 /\ Written' = w
  BY <1>1, <1>2, <1>3 DEF Written
<1>8. AnswersPlaced'
  <2>1. w <= 2 * (n + 1) /\ 2 * (n + 1) <= w + 2
    BY <1>3, <1>4
  <2>2. /\ seen' \in Seq(Fragments) /\ toClient' \in Seq(Fragments)
        /\ Placed(seen, 0)' /\ Placed(toClient, Len(seen))'
    BY <1>2, <1>3 DEF AnswersPlaced, Placed
  <2> QED
    BY <1>7, <2>1, <2>2 DEF AnswersPlaced
<1>9. AnswerCarried'
  BY <1>2, <1>6 DEF AnswerCarried, Carries
<1>10. OneCommand'
  <2>1. \A p \in Range(Packets(n + 1, kind)) : p.cmd = n + 1
    <3>1. CASE kind = "query"
      BY <3>1 DEF Packets, Packet, Range
    <3>2. CASE kind = "long"
      BY <3>2 DEF Packets, Packet, Range
    <3>3. CASE kind = "change"
      BY <3>3 DEF Packets, Packet, Range
    <3> QED
      BY <3>1, <3>2, <3>3 DEF Kinds
  <2>2. fromClient' = Packets(n + 1, kind)
    <3>1. Packets(n + 1, kind) \in Seq(AllPackets)
      <4>1. n + 1 \in Nat
        BY <1>3
      <4>2. /\ Packet(n + 1, 0, "other", TRUE) \in AllPackets /\ Packet(n + 1, 0, "0x11", TRUE) \in AllPackets
            /\ Packet(n + 1, 0, "other", FALSE) \in AllPackets /\ Packet(n + 1, 1, "0x11", TRUE) \in AllPackets
        BY <4>1 DEF Packet, AllPackets
      <4>3. /\ kind = "query" => Packets(n + 1, kind) = <<Packet(n + 1, 0, "other", TRUE)>>
            /\ kind = "change" => Packets(n + 1, kind) = <<Packet(n + 1, 0, "0x11", TRUE)>>
            /\ kind = "long" =>
                 Packets(n + 1, kind) = <<Packet(n + 1, 0, "other", FALSE), Packet(n + 1, 1, "0x11", TRUE)>>
        BY DEF Packets
      <4>4. \A a, b \in AllPackets : <<a>> \in Seq(AllPackets) /\ <<a, b>> \in Seq(AllPackets)
        OBVIOUS
      <4> QED
        BY <4>2, <4>3, <4>4 DEF Kinds
    <3> QED
      BY <1>2, <1>5, <3>1 DEF InFlight
  <2> QED
    BY <1>2, <1>5, <1>7, <2>1, <2>2 DEF OneCommand, InFlight, Busy, Range
<1>11. OneAnswer'
  <2>1. w + 2 = 2 * (n + 1)
    BY <1>3, <1>4
  <2>2. pump' # "body"
    BY <1>2, <1>5 DEF InFlight, Busy
  <2> QED
    BY <1>2, <1>6, <1>7, <2>1, <2>2 DEF OneAnswer
<1> QED
  BY <1>8, <1>9, <1>10, <1>11 DEF AnswersInv

(* Steps that leave packets and fragments alone.                           *)
LEMMA AnswersFrame ==
    ASSUME AnswersInv, UNCHANGED <<upward, downward, history>>
    PROVE  AnswersInv'
  BY DEF AnswersInv, AnswersPlaced, Written, Placed, AnswerCarried, Carries, OneCommand, OneAnswer,
         InFlight, Busy, upward, downward, history

(* A client that waits for its answers, whatever it sends and however much *)
(* of it, gets one to each command, in order and whole: what the pump      *)
(* writes never falls between two writes of io.Copy (mysql.go:273, 289).   *)
THEOREM AnswersHold ==
    ASSUME Window = 1
    PROVE  Spec => []AnswersInOrder
<1> DEFINE Both == PumpInv /\ AnswersInv
<1>1. Init => Both
  <2> SUFFICES ASSUME Init PROVE AnswersInv
    BY PumpInit
  <2>1. /\ cmds = <<>> /\ seen = <<>> /\ fromClient = <<>> /\ toUp = <<>> /\ fromUp = <<>>
        /\ toClient = <<>> /\ pump = "read" /\ copier = "read"
    BY DEF Init
  <2>2. Written = 0 /\ Len(cmds) = 0 /\ Len(seen) = 0
    BY <2>1 DEF Written
  <2> QED
    BY <2>1, <2>2 DEF AnswersInv, AnswersPlaced, Placed, AnswerCarried, Carries, OneCommand, OneAnswer,
                      InFlight, Busy, Range
<1>2. Both /\ [Next]_vars => Both'
  <2> SUFFICES ASSUME PumpInv, AnswersInv, [Next]_vars PROVE AnswersInv'
    BY PumpNext
  <2>1. CASE Login \/ FirstDone \/ SecondDone
    <3>1. UNCHANGED <<upward, downward, history>>
      BY <2>1 DEF Login, Accept, Greet, SslRequest, Handshake, Response, IOFail, Validate, Connect,
                  ConnectFail, Agree, Ok, Proceed, Return, FirstDone, SecondDone, relaying
    <3> QED
      BY <3>1, AnswersFrame
  <2>2. CASE Pump
    BY <2>2, PumpKeepsAnswers, OwnAnswerStep DEF Pump
  <2>3. CASE Copy
    BY <2>3, CopyStep
  <2>4. CASE \E kind \in Kinds : ClientSend(kind)
    BY <2>4, SendAfterAnswer
  <2>5. CASE UpstreamRun
    <3>1. toUp \in Seq(AllPackets) /\ toUp # <<>> /\ Head(toUp).last /\ UpstreamAnswers(1)
      BY <2>5 DEF UpstreamRun, PumpInv, PacketTypes
    <3>2. 1 \in 1 .. Len(toUp) /\ toUp[1].last
      BY <3>1
    <3>3. \A i \in 1 .. 1 - 1 : ~toUp[i].last
      OBVIOUS
    <3> QED
      BY <3>1, <3>2, <3>3, UpstreamAnswersOnce
  <2>6. CASE UpstreamRunLong
    <3>1. PICK k \in 2 .. Len(toUp) :
            toUp[k].last /\ (\A i \in 1 .. k - 1 : ~toUp[i].last) /\ UpstreamAnswers(k)
      BY <2>6 DEF UpstreamRunLong
    <3>2. k \in 1 .. Len(toUp)
      OBVIOUS
    <3> QED
      BY <3>1, <3>2, UpstreamAnswersOnce
  <2>7. CASE ClientRead
    <3>1. /\ toClient # <<>> /\ seen' = Append(seen, Head(toClient)) /\ toClient' = Tail(toClient)
          /\ UNCHANGED <<fromClient, pump, packet, toUp, fromUp, copier, hand, cmds>>
      BY <2>7 DEF ClientRead, upward
    <3>2. /\ seen' \in Seq(Fragments) /\ toClient' \in Seq(Fragments)
          /\ Placed(seen, 0)' /\ Placed(toClient, Len(seen))' /\ Written' = Written
      BY <3>1, OneFragmentRead DEF AnswersInv
    <3>3. AnswersPlaced'
      BY <3>1, <3>2 DEF AnswersInv, AnswersPlaced
    <3>4. AnswerCarried' /\ OneCommand' /\ OneAnswer'
      BY <3>1, <3>2 DEF AnswersInv, AnswerCarried, OneCommand, OneAnswer, InFlight, Busy
    <3> QED
      BY <3>3, <3>4 DEF AnswersInv
  <2>8. CASE ClientGone \/ BackendLost \/ Expire \/ Shutdown \/ UNCHANGED vars
    <3>1. UNCHANGED <<upward, downward, history>>
      BY <2>8 DEF ClientGone, BackendLost, Expire, Shutdown, vars, relaying
    <3> QED
      BY <3>1, AnswersFrame
  <2> QED
    BY <2>1, <2>2, <2>3, <2>4, <2>5, <2>6, <2>7, <2>8 DEF Next, Environment
<1>3. Both => AnswersInOrder
  <2> SUFFICES ASSUME PumpInv, AnswersInv PROVE AnswersInOrder
    OBVIOUS
  <2>1. PICK l, m, n : l = Len(seen) /\ m = Len(toClient) /\ n = Len(cmds)
    OBVIOUS
  <2> DEFINE W == seen \o toClient
  <2>2. /\ l \in Nat /\ m \in Nat /\ n \in Nat /\ l + m <= 2 * n
        /\ seen \in Seq(Fragments) /\ toClient \in Seq(Fragments)
        /\ DOMAIN seen = 1 .. l /\ DOMAIN toClient = 1 .. m /\ DOMAIN cmds = 1 .. n
    BY <2>1 DEF PumpInv, PacketTypes, AnswersInv, AnswersPlaced, Written
  <2>3. /\ DOMAIN W = 1 .. (l + m)
        /\ \A k \in 1 .. (l + m) : W[k] = IF k <= l THEN seen[k] ELSE toClient[k - l]
    BY <2>1, <2>2, ConcatProperties
  <2>4. ASSUME NEW k \in 1 .. (l + m) PROVE At(k, W[k])
    <3>1. CASE k <= l
      <4>1. k \in 1 .. l /\ 0 + k = k
        BY <2>2, <3>1
      <4>2. At(0 + k, seen[k])
        BY <2>2, <4>1 DEF AnswersInv, AnswersPlaced, Placed
      <4> QED
        BY <2>3, <3>1, <4>1, <4>2
    <3>2. CASE l < k
      <4>1. k - l \in 1 .. m /\ l + (k - l) = k /\ ~(k <= l)
        BY <2>2, <3>2
      <4>2. At(l + (k - l), toClient[k - l])
        BY <2>1, <2>2, <4>1 DEF AnswersInv, AnswersPlaced, Placed
      <4> QED
        BY <2>3, <4>1, <4>2
    <3> QED
      BY <2>2, <3>1, <3>2
  <2> HIDE DEF W
  <2>5. ASSUME NEW k \in 1 .. (l + m)
        PROVE  \E h \in 1 .. n : \/ k = 2 * h - 1 /\ W[k] = <<h, "head">>
                                 \/ k = 2 * h     /\ W[k] = <<h, "tail">>
    <3>1. PICK h \in Nat : \/ k + 1 = 2 * h /\ W[k] = <<h, "head">>
                           \/ k = 2 * h     /\ W[k] = <<h, "tail">>
      BY <2>4 DEF At
    <3>2. h \in 1 .. n /\ (k + 1 = 2 * h => k = 2 * h - 1)
      BY <2>2, <3>1
    <3> QED
      BY <3>1, <3>2
  <2> QED
    BY <2>2, <2>3, <2>5 DEF AnswersInOrder, W
<1> QED
  BY <1>1, <1>2, <1>3, PTL DEF Spec
=============================================================================
