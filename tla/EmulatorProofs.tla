---------------------------- MODULE EmulatorProofs ----------------------------
(***************************************************************************)
(* The safety of an Emulator's life for any endpoints, any number of       *)
(* connections and any capacity of the accept loops.  The four properties  *)
(* need each other and three facts the code never states: what is bound is *)
(* what Start recorded, a loop and the connection it holds point at each   *)
(* other, and the shutdown goroutine has closed the listeners in order.    *)
(***************************************************************************)
EXTENDS Emulator, FiniteSetTheorems, TLAPS

(* Until serve there is nothing to accept, and what is open is recorded;   *)
(* from serve on the loops and the servers have been started.              *)
StartStages ==
    /\ phase = "binding" => open \subseteq closers
    /\ phase = "failed" => open = {}
    /\ phase # "running" => /\ shutdown = "none"
                            /\ \A l \in Db : loop[l] = "none"
                            /\ \A h \in Http : http[h] = "none"

(* The shutdown goroutine closes the database listeners, then the HTTP     *)
(* ones, then waits; from its first step on no backlog is left.            *)
ShutdownOrder ==
    /\ shutdown \in {"http", "wg", "end"} =>
         /\ open \cap Db = {}
         /\ \A c \in Conns : conn[c] # "queued"
    /\ shutdown \in {"wg", "end"} => open = {}
    /\ done => /\ shutdown = "end"
               /\ \A l \in Db : loop[l] = "exit"
               /\ \A h \in Http : http[h] = "exit"

(* A connection that reached an endpoint knows it, and a loop that waits   *)
(* for a slot holds a connection of its own endpoint.                      *)
Owners ==
    /\ \A c \in Conns : conn[c] \in {"dialing", "queued", "held", "serving"} => at[c] \in Db
    /\ \A l \in Db : loop[l] = "hold" =>
         held[l] \in Conns /\ conn[held[l]] = "held" /\ at[held[l]] = l

IInv == TypeOK /\ StartStages /\ ShutdownOrder /\ Owners /\ NoOrphans /\ SessionsWithinSlots

(* The sessions a loop is serving.                                         *)
Served(l) == {c \in Conns : at[c] = l /\ conn[c] = "serving"}

(* A step that leaves the semaphores and the served sessions alone keeps   *)
(* the slots exact.                                                        *)
LEMMA SlotsKept ==
    ASSUME SessionsWithinSlots, sem' = sem,
           \A l \in Db : Served(l)' = Served(l)
    PROVE  SessionsWithinSlots'
  BY DEF SessionsWithinSlots, Served

(* Adding a session to a loop's, or taking one away, moves the count by 1. *)
LEMMA ServedCount ==
    ASSUME NEW l \in Db
    PROVE  /\ IsFiniteSet(Served(l)) /\ Cardinality(Served(l)) \in Nat
           /\ \A c \in Conns \ Served(l) :
                Cardinality(Served(l) \cup {c}) = Cardinality(Served(l)) + 1
           /\ \A c \in Served(l) :
                Cardinality(Served(l) \ {c}) = Cardinality(Served(l)) - 1
<1>1. IsFiniteSet(Served(l))
  BY EmulatorAssumption, FS_Subset DEF Served
<1> QED
  BY <1>1, FS_CardinalityType, FS_AddElement, FS_RemoveElement

(* The initial state satisfies the invariant: nothing is served yet.       *)
LEMMA InitInv == Init => IInv
<1> SUFFICES ASSUME Init PROVE IInv
  OBVIOUS
<1>0. TypeOK
  <2>1. 0 \in 0 .. Len(BindOrder) /\ 0 \in 0 .. Cap
    BY EmulatorAssumption
  <2> QED
    BY <2>1 DEF Init, TypeOK, ConnStates, ShutdownStates
<1>1. StartStages /\ ShutdownOrder /\ Owners /\ NoOrphans
  BY DEF Init, StartStages, ShutdownOrder, Owners, NoOrphans
<1>2. SessionsWithinSlots
  <2>1. \A l \in Db : {c \in Conns : at[c] = l /\ conn[c] = "serving"} = {} /\ sem[l] = 0
    BY DEF Init
  <2> QED
    BY <2>1, FS_EmptySet DEF SessionsWithinSlots
<1> QED
  BY <1>0, <1>1, <1>2 DEF IInv

(* Start: binding, failing and serve.                                      *)
LEMMA StartStep == IInv /\ (Bind \/ StartFail \/ serve) => IInv'
<1> SUFFICES ASSUME IInv, Bind \/ StartFail \/ serve PROVE IInv'
  OBVIOUS
<1> USE EmulatorAssumption DEF IInv
<1>1. CASE Bind
  <2>1. BindOrder[bound + 1] \in Endpoints /\ bound' \in 0 .. Len(BindOrder)
    BY <1>1 DEF Bind, TypeOK
  <2>2. TypeOK'
    BY <1>1, <2>1 DEF Bind, TypeOK
  <2>3. StartStages' /\ ShutdownOrder' /\ Owners' /\ NoOrphans'
    BY <1>1 DEF Bind, StartStages, ShutdownOrder, Owners, NoOrphans
  <2>4. SessionsWithinSlots'
    BY <1>1, SlotsKept DEF Bind, Served
  <2> QED
    BY <2>2, <2>3, <2>4
<1>2. CASE StartFail
  <2>1. TypeOK'
    BY <1>2 DEF StartFail, TypeOK, ConnStates
  <2>2. StartStages' /\ ShutdownOrder' /\ Owners' /\ NoOrphans'
    BY <1>2 DEF StartFail, TypeOK, StartStages, ShutdownOrder, Owners, NoOrphans
  <2>3. SessionsWithinSlots'
    BY <1>2, SlotsKept DEF StartFail, Served, TypeOK
  <2> QED
    BY <2>1, <2>2, <2>3
<1>3. CASE serve
  <2>1. TypeOK'
    BY <1>3 DEF serve, TypeOK, ShutdownStates
  <2>2. StartStages' /\ ShutdownOrder' /\ Owners' /\ NoOrphans'
    BY <1>3 DEF serve, TypeOK, StartStages, ShutdownOrder, Owners, NoOrphans
  <2>3. SessionsWithinSlots'
    BY <1>3, SlotsKept DEF serve, Served
  <2> QED
    BY <2>1, <2>2, <2>3
<1> QED
  BY <1>1, <1>2, <1>3

(* Clients: connecting, dialling and giving up.                            *)
LEMMA ClientStep == ASSUME IInv, NEW c \in Conns, Client(c) PROVE IInv'
<1> USE EmulatorAssumption DEF IInv, starting, stopping
<1>1. CASE \E l \in Db : TcpConnect(c, l)
  <2> PICK l \in Db : TcpConnect(c, l)
    BY <1>1
  <2>1. TypeOK'
    BY DEF TcpConnect, TypeOK, ConnStates
  <2>2. StartStages' /\ Owners' /\ NoOrphans'
    BY DEF TcpConnect, TypeOK, StartStages, Owners, NoOrphans
  <2>3. ShutdownOrder'
    BY DEF TcpConnect, TypeOK, ShutdownOrder
  <2>4. SessionsWithinSlots'
    BY SlotsKept DEF TcpConnect, Served, TypeOK
  <2> QED
    BY <2>1, <2>2, <2>3, <2>4
<1>2. CASE \E l \in Db : DialContext(c, l)
  <2> PICK l \in Db : DialContext(c, l)
    BY <1>2
  <2>1. TypeOK'
    <3>0. "dialing" \in ConnStates /\ "refused" \in ConnStates
      BY DEF ConnStates
    <3>1. conn' \in [Conns -> ConnStates]
      BY <3>0 DEF DialContext, TypeOK
    <3>2. at' \in [Conns -> Db \cup {None}]
      BY DEF DialContext, TypeOK
    <3> QED
      BY <3>1, <3>2 DEF DialContext, TypeOK
  <2>2. StartStages' /\ Owners' /\ NoOrphans' /\ ShutdownOrder'
    <3>1. StartStages' /\ ShutdownOrder'
      BY DEF DialContext, TypeOK, StartStages, ShutdownOrder
    <3>2. /\ \A d \in Conns : d # c => conn'[d] = conn[d] /\ at'[d] = at[d]
          /\ conn[c] = "new" /\ conn'[c] \in {"dialing", "refused"}
          /\ conn'[c] = "dialing" => at'[c] = l
          /\ loop' = loop /\ held' = held
      BY DEF DialContext, TypeOK
    <3>3. Owners'
      BY <3>2 DEF Owners
    <3>4. NoOrphans'
      BY <3>2 DEF NoOrphans
    <3> QED
      BY <3>1, <3>3, <3>4
  <2>3. SessionsWithinSlots'
    BY SlotsKept DEF DialContext, Served, TypeOK
  <2> QED
    BY <2>1, <2>2, <2>3
<1>3. CASE DialClosed(c) \/ DialCancelled(c)
  <2>1. TypeOK'
    BY <1>3 DEF DialClosed, DialCancelled, TypeOK, ConnStates
  <2>2. StartStages' /\ Owners' /\ NoOrphans' /\ ShutdownOrder'
    BY <1>3 DEF DialClosed, DialCancelled, TypeOK, StartStages, Owners, NoOrphans, ShutdownOrder
  <2>3. SessionsWithinSlots'
    BY <1>3, SlotsKept DEF DialClosed, DialCancelled, Served, TypeOK
  <2> QED
    BY <2>1, <2>2, <2>3
<1> QED
  BY <1>1, <1>2, <1>3 DEF Client

(* An accept loop: Accept returns or fails, a slot is found, or the loop   *)
(* gives the connection up.                                                *)
LEMMA LoopStep == ASSUME IInv, NEW l \in Db, Loop(l) PROVE IInv'
<1> USE EmulatorAssumption DEF IInv, starting, stopping
<1>1. CASE AcceptError(l)
  <2>1. TypeOK'
    BY <1>1 DEF AcceptError, TypeOK
  <2>2. StartStages' /\ Owners' /\ NoOrphans' /\ ShutdownOrder'
    <3>1. StartStages'
      BY <1>1 DEF AcceptError, TypeOK, StartStages
    <3>2. ShutdownOrder'
      BY <1>1 DEF AcceptError, TypeOK, ShutdownOrder
    <3>3. /\ \A k \in Db : k # l => loop'[k] = loop[k]
          /\ loop[l] = "accept" /\ loop'[l] \in {"accept", "exit"}
          /\ conn' = conn /\ at' = at /\ held' = held
      BY <1>1 DEF AcceptError, TypeOK
    <3>4. Owners'
      BY <3>3 DEF Owners
    <3>5. NoOrphans'
      <4>1. \A d \in Conns : conn[d] = "held" => at[d] # l /\ at[d] \in Db
        BY <3>3 DEF NoOrphans, Owners
      <4> QED
        BY <3>3, <4>1 DEF NoOrphans
    <3> QED
      BY <3>1, <3>2, <3>4, <3>5
  <2>3. SessionsWithinSlots'
    BY <1>1, SlotsKept DEF AcceptError, Served
  <2> QED
    BY <2>1, <2>2, <2>3
<1>2. CASE \E c \in Conns : AcceptConn(l, c)
  <2> PICK c \in Conns : AcceptConn(l, c)
    BY <1>2
  <2>1. TypeOK'
    <3>1. conn' \in [Conns -> ConnStates]
      BY DEF AcceptConn, TypeOK, ConnStates
    <3>2. loop' \in [Db -> {"none", "accept", "hold", "exit"}] /\ held' \in [Db -> Conns \cup {None}]
      BY DEF AcceptConn, TypeOK
    <3> QED
      BY <3>1, <3>2 DEF AcceptConn, TypeOK
  <2>2. StartStages' /\ ShutdownOrder'
    BY DEF AcceptConn, TypeOK, StartStages, ShutdownOrder
  <2>3. Owners' /\ NoOrphans'
    <3>1. /\ \A k \in Db : k # l => loop'[k] = loop[k] /\ held'[k] = held[k]
          /\ loop[l] = "accept" /\ loop'[l] = "hold" /\ held'[l] = c
          /\ \A d \in Conns : d # c => conn'[d] = conn[d]
          /\ conn[c] # "held" /\ conn'[c] = "held" /\ at[c] = l /\ at' = at
      BY DEF AcceptConn, TypeOK
    <3>2. Owners'
      BY <3>1 DEF Owners
    <3>3. NoOrphans'
      <4>1. \A d \in Conns : conn[d] = "held" => at[d] # l /\ at[d] \in Db
        BY <3>1 DEF NoOrphans, Owners
      <4> QED
        BY <3>1, <4>1 DEF NoOrphans
    <3> QED
      BY <3>2, <3>3
  <2>4. SessionsWithinSlots'
    BY SlotsKept DEF AcceptConn, Served, TypeOK
  <2> QED
    BY <2>1, <2>2, <2>3, <2>4
<1>3. CASE Acquire(l)
  <2> DEFINE c == held[l]
  <2>0. c \in Conns /\ conn[c] = "held" /\ at[c] = l
    BY <1>3 DEF Acquire, Owners
  <2>1. TypeOK'
    BY <1>3, <2>0 DEF Acquire, TypeOK, ConnStates
  <2>2. StartStages' /\ ShutdownOrder'
    BY <1>3, <2>0 DEF Acquire, TypeOK, StartStages, ShutdownOrder
  <2>3. Owners' /\ NoOrphans'
    BY <1>3, <2>0 DEF Acquire, TypeOK, Owners, NoOrphans
  <2>4. Served(l)' = Served(l) \cup {c} /\ c \notin Served(l)
    BY <1>3, <2>0 DEF Acquire, TypeOK, Served
  <2>5. \A k \in Db \ {l} : Served(k)' = Served(k) /\ sem'[k] = sem[k]
    BY <1>3, <2>0 DEF Acquire, TypeOK, Served
  <2>6. sem'[l] = sem[l] + 1 /\ sem[l] = Cardinality(Served(l))
    BY <1>3 DEF Acquire, TypeOK, SessionsWithinSlots, Served
  <2>7. Cardinality(Served(l)') = sem'[l]
    BY <2>0, <2>4, <2>6, ServedCount
  <2>8. \A k \in Db : Cardinality(Served(k)') = sem'[k]
    <3>1. \A k \in Db : Cardinality(Served(k)) = sem[k]
      BY DEF SessionsWithinSlots, Served
    <3>2. ASSUME NEW k \in Db, k # l PROVE Cardinality(Served(k)') = sem'[k]
      BY <2>5, <3>1, <3>2
    <3> QED
      BY <2>7, <3>2
  <2>9. SessionsWithinSlots'
    BY <2>8 DEF SessionsWithinSlots, Served
  <2> QED
    BY <2>1, <2>2, <2>3, <2>9
<1>4. CASE Abandon(l)
  <2> DEFINE c == held[l]
  <2>0. c \in Conns /\ conn[c] = "held" /\ at[c] = l
    BY <1>4 DEF Abandon, Owners
  <2>1. TypeOK'
    BY <1>4, <2>0 DEF Abandon, TypeOK, ConnStates
  <2>2. StartStages' /\ ShutdownOrder'
    BY <1>4, <2>0 DEF Abandon, TypeOK, StartStages, ShutdownOrder
  <2>3. Owners' /\ NoOrphans'
    BY <1>4, <2>0 DEF Abandon, TypeOK, Owners, NoOrphans
  <2>4. SessionsWithinSlots'
    BY <1>4, <2>0, SlotsKept DEF Abandon, Served, TypeOK
  <2> QED
    BY <2>1, <2>2, <2>3, <2>4
<1> QED
  BY <1>1, <1>2, <1>3, <1>4 DEF Loop

(* A session's goroutine: the slot is given back, then the connection is   *)
(* closed.                                                                 *)
LEMMA SessionStep == ASSUME IInv, NEW c \in Conns, Session(c) PROVE IInv'
<1> USE EmulatorAssumption DEF IInv, starting, stopping
<1>1. CASE Release(c)
  <2> PICK l \in Db : l = at[c]
    BY <1>1 DEF Release, Owners
  <2>0. conn[c] = "serving" /\ c \in Served(l)
    BY <1>1 DEF Release, Served
  <2>1. sem[l] = Cardinality(Served(l)) /\ Cardinality(Served(l) \ {c}) = sem[l] - 1
    <3>1. sem[l] = Cardinality(Served(l))
      BY <2>0 DEF SessionsWithinSlots, Served
    <3> QED
      BY <2>0, <3>1, ServedCount
  <2>2. sem[l] - 1 \in 0 .. Cap
    <3>1. Cardinality(Served(l) \ {c}) \in Nat
      BY <2>0, ServedCount, FS_RemoveElement, FS_CardinalityType
    <3> QED
      BY <2>0, <2>1, <3>1 DEF TypeOK
  <2>3. TypeOK'
    BY <1>1, <2>0, <2>2 DEF Release, TypeOK, ConnStates
  <2>4. StartStages' /\ ShutdownOrder' /\ Owners' /\ NoOrphans'
    BY <1>1, <2>0 DEF Release, TypeOK, StartStages, ShutdownOrder, Owners, NoOrphans
  <2>5. Served(l)' = Served(l) \ {c} /\ sem'[l] = sem[l] - 1
    BY <1>1, <2>0 DEF Release, TypeOK, Served
  <2>6. \A k \in Db \ {l} : Served(k)' = Served(k) /\ sem'[k] = sem[k]
    BY <1>1, <2>0 DEF Release, TypeOK, Served
  <2>7. \A k \in Db : Cardinality(Served(k)') = sem'[k]
    <3>1. \A k \in Db : Cardinality(Served(k)) = sem[k]
      BY DEF SessionsWithinSlots, Served
    <3>2. Cardinality(Served(l)') = sem'[l]
      BY <2>1, <2>5
    <3>3. ASSUME NEW k \in Db, k # l
          PROVE  Cardinality(Served(k)') = sem'[k]
      <4>1. Served(k)' = Served(k) /\ sem'[k] = sem[k]
        BY <2>6, <3>3
      <4> QED
        BY <3>1, <4>1
    <3> QED
      BY <3>2, <3>3
  <2>8. SessionsWithinSlots'
    BY <2>7 DEF SessionsWithinSlots, Served
  <2> QED
    BY <2>3, <2>4, <2>8
<1>2. CASE CloseConn(c)
  <2>1. TypeOK'
    BY <1>2 DEF CloseConn, TypeOK, ConnStates
  <2>2. StartStages' /\ ShutdownOrder' /\ Owners' /\ NoOrphans'
    <3>1. StartStages' /\ ShutdownOrder'
      BY <1>2 DEF CloseConn, TypeOK, StartStages, ShutdownOrder
    <3>2. Owners'
      BY <1>2 DEF CloseConn, TypeOK, Owners
    <3>3. NoOrphans'
      BY <1>2 DEF CloseConn, TypeOK, NoOrphans
    <3> QED
      BY <3>1, <3>2, <3>3
  <2>3. SessionsWithinSlots'
    BY <1>2, SlotsKept DEF CloseConn, Served, TypeOK
  <2> QED
    BY <2>1, <2>2, <2>3
<1> QED
  BY <1>1, <1>2 DEF Session

(* Shutdown: the context, the listeners, the servers and e.done.           *)
LEMMA ShutdownStep ==
    ASSUME IInv, Stop \/ CloseListeners \/ ShutdownHttp \/ CloseDone \/ \E h \in Http : serveHTTP(h)
    PROVE  IInv'
<1> USE EmulatorAssumption DEF IInv, starting
<1>1. CASE Stop
  <2>1. TypeOK' /\ StartStages' /\ ShutdownOrder' /\ Owners' /\ NoOrphans'
    BY <1>1 DEF Stop, TypeOK, StartStages, ShutdownOrder, Owners, NoOrphans
  <2>2. SessionsWithinSlots'
    BY <1>1, SlotsKept DEF Stop, Served
  <2> QED
    BY <2>1, <2>2
<1>2. CASE CloseListeners
  <2>1. TypeOK'
    BY <1>2 DEF CloseListeners, TypeOK, ConnStates, ShutdownStates
  <2>2. StartStages' /\ ShutdownOrder' /\ Owners' /\ NoOrphans'
    BY <1>2 DEF CloseListeners, TypeOK, StartStages, ShutdownOrder, Owners, NoOrphans
  <2>3. SessionsWithinSlots'
    BY <1>2, SlotsKept DEF CloseListeners, Served, TypeOK
  <2> QED
    BY <2>1, <2>2, <2>3
<1>3. CASE ShutdownHttp
  <2>1. TypeOK' /\ Owners' /\ NoOrphans'
    BY <1>3 DEF ShutdownHttp, TypeOK, ShutdownStates, Owners, NoOrphans
  <2>2. open' = {}
    BY <1>3 DEF ShutdownHttp, TypeOK, ShutdownOrder, Endpoints
  <2>3. StartStages' /\ ShutdownOrder'
    BY <1>3, <2>2 DEF ShutdownHttp, StartStages, ShutdownOrder
  <2>4. SessionsWithinSlots'
    BY <1>3, SlotsKept DEF ShutdownHttp, Served
  <2> QED
    BY <2>1, <2>3, <2>4
<1>4. CASE CloseDone
  <2>1. TypeOK' /\ StartStages' /\ ShutdownOrder' /\ Owners' /\ NoOrphans'
    BY <1>4 DEF CloseDone, TypeOK, ShutdownStates, StartStages, ShutdownOrder, Owners, NoOrphans
  <2>2. SessionsWithinSlots'
    BY <1>4, SlotsKept DEF CloseDone, Served
  <2> QED
    BY <2>1, <2>2
<1>5. CASE \E h \in Http : serveHTTP(h)
  <2> PICK h \in Http : serveHTTP(h)
    BY <1>5
  <2>1. TypeOK' /\ StartStages' /\ ShutdownOrder' /\ Owners' /\ NoOrphans'
    BY DEF serveHTTP, TypeOK, StartStages, ShutdownOrder, Owners, NoOrphans
  <2>2. SessionsWithinSlots'
    BY SlotsKept DEF serveHTTP, Served
  <2> QED
    BY <2>1, <2>2
<1> QED
  BY <1>1, <1>2, <1>3, <1>4, <1>5

(* A stuttering step changes nothing the invariant reads.                  *)
LEMMA StutterStep == IInv /\ UNCHANGED vars => IInv'
  BY DEF IInv, TypeOK, StartStages, ShutdownOrder, Owners, NoOrphans, SessionsWithinSlots, vars

(* The invariant holds in every reachable state of the emulator.           *)
THEOREM InvHolds == Spec => []IInv
<1>1. IInv /\ [Next]_vars => IInv'
  BY StartStep, LoopStep, ClientStep, SessionStep, ShutdownStep, StutterStep DEF Next
<1> QED
  BY InitInv, <1>1, PTL DEF Spec

----------------------------------------------------------------------------
(* The variables keep their types; a semaphore is never over its capacity  *)
(* and never released below zero (server.go:283-301).                      *)
THEOREM TypesHold == Spec => []TypeOK
<1>1. IInv => TypeOK
  BY DEF IInv
<1> QED
  BY InvHolds, <1>1, PTL

(* However loops, sessions and shutdown interleave, the slots taken in a   *)
(* loop's semaphore are exactly the sessions it serves (server.go:283-301). *)
THEOREM SlotsExact == Spec => []SessionsWithinSlots
<1>1. IInv => SessionsWithinSlots
  BY DEF IInv
<1> QED
  BY InvHolds, <1>1, PTL

(* An accepted connection without a session is always in the hands of the  *)
(* loop of its endpoint (server.go:293-298).                               *)
THEOREM NoOrphanEver == Spec => []NoOrphans
<1>1. IInv => NoOrphans
  BY DEF IInv
<1> QED
  BY InvHolds, <1>1, PTL

(* Closing e.done is the last thing that happens: no listener, loop or     *)
(* server, and no connection on its way, is left (server.go:178-193).      *)
THEOREM DoneQuiet == Spec => []DoneIsQuiet
<1>1. IInv => DoneIsQuiet
  BY DEF IInv, ShutdownOrder, Owners, NoOrphans, DoneIsQuiet
<1> QED
  BY InvHolds, <1>1, PTL

(* A failing Start closes every listener, whichever bind failed and        *)
(* whatever the endpoints are (server.go:90-96).                           *)
THEOREM FailedStartLeavesNone == Spec => []FailedStartClosesAll
<1>1. IInv => FailedStartClosesAll
  BY DEF IInv, StartStages, FailedStartClosesAll
<1> QED
  BY InvHolds, <1>1, PTL
=============================================================================
