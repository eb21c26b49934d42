------------------------------ MODULE Emulator ------------------------------
(***************************************************************************)
(* The life of an Emulator (iamproxy/server.go): Start binds the endpoints *)
(* one after the other; serve runs one accept loop per database endpoint   *)
(* and one HTTP server per credential endpoint; Close, or the caller's     *)
(* context, makes the shutdown goroutine close the listeners and wait for  *)
(* every loop.  In-memory endpoints are memListener of memconn.go, dialled *)
(* with DialContext; TCP endpoints have a backlog kept by the kernel.      *)
(*                                                                         *)
(* A session is opaque: its handler returns some day or never.             *)
(***************************************************************************)
EXTENDS Naturals, FiniteSets, Sequences

CONSTANTS
    Tcp,        \* TCP database endpoints
    Mem,        \* in-memory database endpoints
    Http,       \* credential endpoints
    BindOrder,  \* the endpoints in the order Start binds them
    Conns,      \* connections clients try to open
    Cap,        \* capacity of an accept loop's semaphore (256)
    None        \* no connection, no endpoint

Db == Tcp \cup Mem
Endpoints == Db \cup Http

ASSUME EmulatorAssumption ==
    /\ Tcp \cap Mem = {} /\ Db \cap Http = {}
    /\ BindOrder \in Seq(Endpoints)
    /\ \A x \in Endpoints : \E i \in 1 .. Len(BindOrder) : BindOrder[i] = x
    /\ Cap \in Nat \ {0}
    /\ IsFiniteSet(Conns)
    /\ None \notin Conns \cup Endpoints

VARIABLES
    phase,      \* Start: "binding", "failed" or "running"
    bound,      \* how many endpoints Start has bound
    closers,    \* Start's closers: what a failure has to close
    open,       \* endpoints whose listener is open
    ctx,        \* TRUE until the context is cancelled
    loop,       \* accept loops: "accept", "hold" or "exit"
    held,       \* the connection a loop is waiting to find a slot for
    sem,        \* slots taken in each loop's semaphore
    conn,       \* state of each connection
    at,         \* the endpoint each connection went to
    http,       \* HTTP servers: "serve" or "exit"
    shutdown,   \* the shutdown goroutine
    done        \* e.done is closed

vars == <<phase, bound, closers, open, ctx, loop, held, sem, conn, at, http, shutdown, done>>
starting == <<phase, bound, closers>>
stopping == <<open, ctx, http, shutdown, done>>

(* A connection is dialled (blocked in DialContext) or queued in a kernel  *)
(* backlog, then held by its loop, served in a goroutine, and closed.      *)
ConnStates == {"new", "dialing", "queued", "held", "serving", "closing", "closed", "refused"}

ShutdownStates == {"none", "wait", "http", "wg", "end"}

(* The values each variable takes, among them the bound on the slots of an  *)
(* accept loop (server.go:283).                                             *)
TypeOK ==
    /\ phase \in {"binding", "failed", "running"}
    /\ bound \in 0 .. Len(BindOrder)
    /\ closers \subseteq Endpoints
    /\ open \subseteq Endpoints
    /\ ctx \in BOOLEAN
    /\ loop \in [Db -> {"none", "accept", "hold", "exit"}]
    /\ held \in [Db -> Conns \cup {None}]
    /\ sem \in [Db -> 0 .. Cap]
    /\ conn \in [Conns -> ConnStates]
    /\ at \in [Conns -> Db \cup {None}]
    /\ http \in [Http -> {"none", "serve", "exit"}]
    /\ shutdown \in ShutdownStates
    /\ done \in BOOLEAN

Init ==
    /\ phase = "binding" /\ bound = 0 /\ closers = {} /\ open = {}
    /\ ctx = TRUE
    /\ loop = [l \in Db |-> "none"]
    /\ held = [l \in Db |-> None]
    /\ sem = [l \in Db |-> 0]
    /\ conn = [c \in Conns |-> "new"]
    /\ at = [c \in Conns |-> None]
    /\ http = [h \in Http |-> "none"]
    /\ shutdown = "none" /\ done = FALSE

----------------------------------------------------------------------------
(* Start.                                                                  *)

(* Defect for FailedStartClosesAll: in-memory listeners are not recorded.  *)
BindUnrecorded ==
    /\ phase = "binding" /\ bound < Len(BindOrder)
    /\ bound' = bound + 1
    /\ LET x == BindOrder[bound + 1]
       IN  open' = open \cup {x} /\ closers' = IF x \in Mem THEN closers ELSE closers \cup {x}
    /\ UNCHANGED <<phase, ctx, loop, held, sem, conn, at, http, shutdown, done>>

(* net.Listen or newMemListener, then append to closers.                   *)
Bind ==
    /\ phase = "binding" /\ bound < Len(BindOrder)
    /\ bound' = bound + 1
    /\ LET x == BindOrder[bound + 1]
       IN  open' = open \cup {x} /\ closers' = closers \cup {x}
    /\ UNCHANGED <<phase, ctx, loop, held, sem, conn, at, http, shutdown, done>>

(* A port that is taken or not fixed, a shared dial address, or newService: *)
(* fail closes what was bound; the backlog of a closed listener is reset.  *)
StartFail ==
    /\ phase = "binding"
    /\ phase' = "failed"
    /\ open' = open \ closers
    /\ conn' = [c \in Conns |-> IF conn[c] = "queued" /\ at[c] \in closers THEN "closed" ELSE conn[c]]
    /\ UNCHANGED <<bound, closers, ctx, loop, held, sem, at, http, shutdown, done>>

(* serve: the loops, the HTTP servers and the shutdown goroutine.          *)
serve ==
    /\ phase = "binding" /\ bound = Len(BindOrder)
    /\ phase' = "running"
    /\ loop' = [l \in Db |-> "accept"]
    /\ http' = [h \in Http |-> "serve"]
    /\ shutdown' = "wait"
    /\ UNCHANGED <<bound, closers, open, ctx, held, sem, conn, at, done>>

----------------------------------------------------------------------------
(* Clients.                                                                *)

(* A client connects to a TCP endpoint: the kernel queues the connection,  *)
(* from net.Listen on.                                                     *)
TcpConnect(c, l) ==
    /\ conn[c] = "new" /\ l \in Tcp /\ l \in open
    /\ conn' = [conn EXCEPT ![c] = "queued"]
    /\ at' = [at EXCEPT ![c] = l]
    /\ UNCHANGED <<starting, stopping, loop, held, sem>>

(* DialContext: the address is routed to an endpoint or refused.  There is *)
(* no Emulator to call it on before Start returns.                         *)
DialContext(c, l) ==
    /\ conn[c] = "new" /\ l \in Mem /\ phase = "running"
    /\ \/ conn' = [conn EXCEPT ![c] = "dialing"] /\ at' = [at EXCEPT ![c] = l]
       \/ conn' = [conn EXCEPT ![c] = "refused"] /\ UNCHANGED at
    /\ UNCHANGED <<starting, stopping, loop, held, sem>>

(* Its select finds ln.done closed.                                        *)
DialClosed(c) ==
    /\ conn[c] = "dialing" /\ at[c] \notin open
    /\ conn' = [conn EXCEPT ![c] = "refused"]
    /\ UNCHANGED <<starting, stopping, loop, held, sem, at>>

(* Or the dialler's own context is done.                                   *)
DialCancelled(c) ==
    /\ conn[c] = "dialing"
    /\ conn' = [conn EXCEPT ![c] = "refused"]
    /\ UNCHANGED <<starting, stopping, loop, held, sem, at>>

----------------------------------------------------------------------------
(* accept.                                                                 *)

(* ln.Accept returns a connection: the head of the backlog, or a dialler   *)
(* that is in its select at the same time.                                 *)
AcceptConn(l, c) ==
    /\ loop[l] = "accept" /\ l \in open
    /\ at[c] = l /\ conn[c] \in {"queued", "dialing"}
    /\ loop' = [loop EXCEPT ![l] = "hold"]
    /\ held' = [held EXCEPT ![l] = c]
    /\ conn' = [conn EXCEPT ![c] = "held"]
    /\ UNCHANGED <<starting, stopping, sem, at>>

(* ln.Accept fails: the loop ends when the listener is closed or the       *)
(* context is cancelled, and tries again otherwise.                        *)
AcceptError(l) ==
    /\ loop[l] = "accept"
    /\ \/ /\ l \notin open \/ ~ctx
          /\ loop' = [loop EXCEPT ![l] = "exit"]
       \/ /\ l \in open /\ ctx
          /\ UNCHANGED loop
    /\ UNCHANGED <<starting, stopping, held, sem, conn, at>>

(* Defect for TypeOK: no semaphore.                                        *)
AcquireAnyway(l) ==
    /\ loop[l] = "hold"
    /\ sem' = [sem EXCEPT ![l] = @ + 1]
    /\ conn' = [conn EXCEPT ![held[l]] = "serving"]
    /\ held' = [held EXCEPT ![l] = None]
    /\ loop' = [loop EXCEPT ![l] = "accept"]
    /\ UNCHANGED <<starting, stopping, at>>

(* sem <- struct{}{}, then go func.                                        *)
Acquire(l) ==
    /\ loop[l] = "hold" /\ sem[l] < Cap
    /\ sem' = [sem EXCEPT ![l] = @ + 1]
    /\ conn' = [conn EXCEPT ![held[l]] = "serving"]
    /\ held' = [held EXCEPT ![l] = None]
    /\ loop' = [loop EXCEPT ![l] = "accept"]
    /\ UNCHANGED <<starting, stopping, at>>

(* Defect for NoOrphans: the loop leaves without conn.Close.               *)
AbandonHeld(l) ==
    /\ loop[l] = "hold" /\ ~ctx
    /\ held' = [held EXCEPT ![l] = None]
    /\ loop' = [loop EXCEPT ![l] = "exit"]
    /\ UNCHANGED <<starting, stopping, sem, conn, at>>

(* Defect for CloseReturns: a loop waiting for a slot does not watch ctx.  *)
NeverAbandon(l) == FALSE /\ UNCHANGED vars

(* case <-ctx.Done(): close the connection and leave.                      *)
Abandon(l) ==
    /\ loop[l] = "hold" /\ ~ctx
    /\ conn' = [conn EXCEPT ![held[l]] = "closed"]
    /\ held' = [held EXCEPT ![l] = None]
    /\ loop' = [loop EXCEPT ![l] = "exit"]
    /\ UNCHANGED <<starting, stopping, sem, at>>

(* Defect for SessionsWithinSlots: the slot is given back by the close.    *)
ReleaseLate(c) ==
    /\ conn[c] = "serving"
    /\ conn' = [conn EXCEPT ![c] = "closing"]
    /\ UNCHANGED <<starting, stopping, loop, held, sem, at>>

(* The session's goroutine: its handler returns and the deferred function  *)
(* gives the slot back ...                                                 *)
Release(c) ==
    /\ conn[c] = "serving"
    /\ sem' = [sem EXCEPT ![at[c]] = @ - 1]
    /\ conn' = [conn EXCEPT ![c] = "closing"]
    /\ UNCHANGED <<starting, stopping, loop, held, at>>

(* ... and then closes the connection.                                     *)
CloseConn(c) ==
    /\ conn[c] = "closing"
    /\ conn' = [conn EXCEPT ![c] = "closed"]
    /\ UNCHANGED <<starting, stopping, loop, held, sem, at>>

----------------------------------------------------------------------------
(* Shutdown.                                                               *)

(* Close calls e.stop, or the caller's context is cancelled.               *)
Stop ==
    /\ ctx /\ phase # "failed"
    /\ ctx' = FALSE
    /\ UNCHANGED <<starting, open, loop, held, sem, conn, at, http, shutdown, done>>

(* Defect for DialsEnd: only the TCP listeners are closed.                 *)
CloseTcpOnly ==
    /\ shutdown = "wait" /\ ~ctx
    /\ shutdown' = "http"
    /\ open' = open \ Tcp
    /\ conn' = [c \in Conns |-> IF conn[c] = "queued" THEN "closed" ELSE conn[c]]
    /\ UNCHANGED <<starting, ctx, loop, held, sem, at, http, done>>

(* <-ctx.Done(): close the TCP listeners, whose backlogs are reset, and    *)
(* the in-memory ones.                                                     *)
CloseListeners ==
    /\ shutdown = "wait" /\ ~ctx
    /\ shutdown' = "http"
    /\ open' = open \ Db
    /\ conn' = [c \in Conns |-> IF conn[c] = "queued" THEN "closed" ELSE conn[c]]
    /\ UNCHANGED <<starting, ctx, loop, held, sem, at, http, done>>

(* srv.Shutdown of every server, bounded by 5 s: their listeners close.    *)
ShutdownHttp ==
    /\ shutdown = "http"
    /\ shutdown' = "wg"
    /\ open' = open \ Http
    /\ UNCHANGED <<starting, ctx, loop, held, sem, conn, at, http, done>>

(* serveHTTP: srv.Serve returns when its listener is closed, or when it    *)
(* cannot accept any more, and has then closed the listener itself.        *)
serveHTTP(h) ==
    /\ http[h] = "serve"
    /\ http' = [http EXCEPT ![h] = "exit"]
    /\ open' = open \ {h}
    /\ UNCHANGED <<starting, ctx, loop, held, sem, conn, at, shutdown, done>>

(* Defect for DoneIsQuiet: wg.Wait is missing.                             *)
CloseDoneEarly ==
    /\ shutdown = "wg"
    /\ shutdown' = "end" /\ done' = TRUE
    /\ UNCHANGED <<starting, open, ctx, loop, held, sem, conn, at, http>>

(* wg.Wait(); close(e.done).                                               *)
CloseDone ==
    /\ shutdown = "wg"
    /\ \A l \in Db : loop[l] = "exit"
    /\ \A h \in Http : http[h] = "exit"
    /\ shutdown' = "end" /\ done' = TRUE
    /\ UNCHANGED <<starting, open, ctx, loop, held, sem, conn, at, http>>

Loop(l) == AcceptError(l) \/ Acquire(l) \/ Abandon(l) \/ \E c \in Conns : AcceptConn(l, c)

Client(c) ==
    \/ \E l \in Db : TcpConnect(c, l) \/ DialContext(c, l)
    \/ DialClosed(c) \/ DialCancelled(c)

Session(c) == Release(c) \/ CloseConn(c)

Next ==
    \/ Bind \/ StartFail \/ serve
    \/ \E l \in Db : Loop(l)
    \/ \E c \in Conns : Client(c) \/ Session(c)
    \/ \E h \in Http : serveHTTP(h)
    \/ Stop \/ CloseListeners \/ ShutdownHttp \/ CloseDone

Spec == Init /\ [][Next]_vars

(* Goroutines run: a loop whose Accept returned, a select with a ready     *)
(* case, the shutdown goroutine, a server whose listener is closed.  A     *)
(* session's handler may never return, and clients owe nothing.            *)
Fairness ==
    /\ \A l \in Db : WF_vars(Acquire(l) \/ Abandon(l))
    /\ \A l \in Db : WF_vars(l \notin open /\ AcceptError(l))
    /\ \A c \in Conns : WF_vars(DialClosed(c)) /\ WF_vars(CloseConn(c))
    /\ \A h \in Http : WF_vars(h \notin open /\ serveHTTP(h))
    /\ WF_vars(CloseListeners \/ ShutdownHttp \/ CloseDone)

FairSpec == Spec /\ Fairness

----------------------------------------------------------------------------
(* Properties.                                                             *)

(* Every session being served holds exactly one slot of its own loop, so   *)
(* no loop serves more than Cap at a time and slots do not leak            *)
(* (server.go:283-301).                                                    *)
SessionsWithinSlots ==
    \A l \in Db : Cardinality({c \in Conns : at[c] = l /\ conn[c] = "serving"}) = sem[l]

(* An accepted connection always has an owner that will close it: the loop *)
(* that holds it, its session's goroutine, or nobody because it is closed; *)
(* in particular a loop that leaves takes no connection with it            *)
(* (server.go:293-298).                                                    *)
NoOrphans ==
    \A c \in Conns :
      conn[c] = "held" => loop[at[c]] = "hold" /\ held[at[c]] = c

(* When Done is closed no listener is open, no loop or server is running   *)
(* and no connection is half way between a client and a session            *)
(* (server.go:178-193).                                                    *)
DoneIsQuiet ==
    done => /\ open = {}
            /\ \A l \in Db : loop[l] = "exit"
            /\ \A h \in Http : http[h] = "exit"
            /\ \A c \in Conns : conn[c] \notin {"held", "queued"}

(* A Start that fails leaves no listener open, whatever it had bound       *)
(* (server.go:90-96).                                                      *)
FailedStartClosesAll == phase = "failed" => open = {}

(* Close returns: once the context of a started emulator is cancelled, e.done *)
(* is closed, also when every slot is taken by a session that never ends    *)
(* (server.go:205-209).                                                     *)
CloseReturns == phase = "running" /\ ~ctx ~> done

(* No dialler stays blocked in DialContext once the emulator is stopping,  *)
(* even if its own context never ends (server.go:272-279).                 *)
DialsEnd ==
    \A c \in Conns : conn[c] = "dialing" /\ ~ctx ~> conn[c] # "dialing"
=============================================================================
