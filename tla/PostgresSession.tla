-------------------------- MODULE PostgresSession --------------------------
(***************************************************************************)
(* The life of a connection on the PostgreSQL listeners of the emulator:   *)
(* servePostgres and pgCancel of iamproxy/postgres.go, one goroutine per   *)
(* connection, all sharing Emulator.cancels and the context of Start.      *)
(*                                                                         *)
(* A connection is either a login (plain startup, TLS, startup again,      *)
(* password, credential check, upstream login, handoff, relay) or a        *)
(* CancelRequest, which is looked up in Emulator.cancels and forwarded.    *)
(* Whether a credential is good is decided by Service.Validate; here it is *)
(* a choice.  How bytes move during the relay is the Relay module's        *)
(* subject; here a relay lasts until one of its two ends is gone.          *)
(***************************************************************************)
EXTENDS Naturals

CONSTANTS
    Conns,      \* the connections the accept loops hand to servePostgres
    Listeners,  \* names of the PostgreSQL listeners
    Upstreams,  \* upstream addresses
    Upstream,   \* Listener.Upstream, from Listeners to Upstreams
    Keys,       \* the 8-byte PID/secret pairs that upstreams hand out
    None        \* no listener, no key, no target

ASSUME PostgresAssumption ==
    /\ Upstream \in [Listeners -> Upstreams]
    /\ None \notin Listeners \cup Upstreams \cup Keys

VARIABLES
    ctx,        \* TRUE until the context of Start is cancelled
    stage,      \* what the goroutine of a connection does next
    lst,        \* the listener that accepted the connection
    front,      \* the client connection, its deadline included
    backend,    \* the upstream connection
    deferred,   \* TRUE once its Close is a deferred call of the goroutine
    key,        \* the PID/secret pair of the upstream session
    raw,        \* the pair named by the CancelRequest this connection is
    target,     \* the address loaded from Emulator.cancels for it
    cancels,    \* Emulator.cancels, from listener name and pair to address
    issued,     \* pairs each upstream has handed out (upstream's own state)
    routed      \* history: cancel messages written to an upstream

vars ==
    <<ctx, stage, lst, front, backend, deferred, key, raw, target, cancels, issued, routed>>

conn == <<lst, key, raw, target>>
ends == <<front, backend, deferred>>
shared == <<ctx, cancels, issued, routed>>

----------------------------------------------------------------------------
(* Stages in which the goroutine reads from, or writes to, the client.     *)
Reading == {"startup", "handshake", "startupTLS", "password"}
Writing == {"authok", "key", "ready"}

(* Stages between Accept and the relay, and those of a CancelRequest.      *)
LoginStages == Reading \cup {"validate", "connect", "sync", "hijack"} \cup Writing \cup {"store"}
CancelStages == {"cancelLoad", "cancelDial", "cancelSend"}

(* Stages in which the pair is in Emulator.cancels on the session's behalf. *)
Mapped == {"relay", "unmap"}

Stages == {"idle", "unwind", "done"} \cup LoginStages \cup CancelStages \cup Mapped

(* The client connection: not accepted; open with the 15 s deadline set,   *)
(* passed or removed; dropped by the client; closed by the emulator.       *)
Fronts == {"none", "armed", "expired", "free", "gone", "closed"}

(* The upstream connection.                                                *)
Backends == {"none", "open", "lost", "closed"}

(* The values each variable takes; in particular a cancel message that was *)
(* sent had a real address to go to (postgres.go:286-289).                 *)
TypeOK ==
    /\ ctx \in BOOLEAN
    /\ stage \in [Conns -> Stages]
    /\ lst \in [Conns -> Listeners \cup {None}]
    /\ front \in [Conns -> Fronts]
    /\ backend \in [Conns -> Backends]
    /\ deferred \in [Conns -> BOOLEAN]
    /\ key \in [Conns -> Keys \cup {None}]
    /\ raw \in [Conns -> Keys \cup {None}]
    /\ target \in [Conns -> Upstreams \cup {None}]
    /\ cancels \in [Listeners -> [Keys -> Upstreams \cup {None}]]
    /\ issued \in [Upstreams -> SUBSET Keys]
    /\ routed \in SUBSET [via : Listeners, key : Keys, at : Upstreams]

Init ==
    /\ ctx = TRUE
    /\ stage = [c \in Conns |-> "idle"]
    /\ lst = [c \in Conns |-> None]
    /\ front = [c \in Conns |-> "none"]
    /\ backend = [c \in Conns |-> "none"]
    /\ deferred = [c \in Conns |-> FALSE]
    /\ key = [c \in Conns |-> None]
    /\ raw = [c \in Conns |-> None]
    /\ target = [c \in Conns |-> None]
    /\ cancels = [l \in Listeners |-> [k \in Keys |-> None]]
    /\ issued = [u \in Upstreams |-> {}]
    /\ routed = {}

----------------------------------------------------------------------------
(* Small steps shared by the actions.                                      *)

Goto(c, to) == stage' = [stage EXCEPT ![c] = to]

(* A read or write on the client connection can succeed.                   *)
Usable(c) == front[c] \in {"armed", "free"}

(* The goroutine returns, with its upstream connection in state b: the     *)
(* deferred Close, if one has been registered, closes that connection, and *)
(* the accept loop's deferred function closes the client connection.       *)
Leave(c, b) ==
    /\ Goto(c, "done")
    /\ front' = [front EXCEPT ![c] = "closed"]
    /\ backend' = [backend EXCEPT ![c] = IF deferred[c] THEN "closed" ELSE b]
    /\ UNCHANGED deferred

(* A return that closes nothing itself, and one after backend.Close.       *)
Return(c) == Leave(c, backend[c])
CloseReturn(c) == Leave(c, "closed")

----------------------------------------------------------------------------
(* Startup.                                                                *)

(* Defect for HandshakeEnds: the goroutine sets no deadline.               *)
AcceptWithoutDeadline(c, l) ==
    /\ stage[c] = "idle" /\ ctx
    /\ Goto(c, "startup")
    /\ lst' = [lst EXCEPT ![c] = l]
    /\ front' = [front EXCEPT ![c] = "free"]
    /\ UNCHANGED <<shared, backend, deferred, key, raw, target>>

(* The accept loop starts the goroutine; its first call is SetDeadline.    *)
Accept(c, l) ==
    /\ stage[c] = "idle" /\ ctx
    /\ Goto(c, "startup")
    /\ lst' = [lst EXCEPT ![c] = l]
    /\ front' = [front EXCEPT ![c] = "armed"]
    /\ UNCHANGED <<shared, backend, deferred, key, raw, target>>

(* pgStartup answers a GSSENCRequest with 'N' and reads again.             *)
StartupGSS(c) ==
    /\ stage[c] \in {"startup", "startupTLS"} /\ Usable(c)
    /\ UNCHANGED vars

(* An SSLRequest: 'S' before TLS, "invalid startup after TLS" after it.    *)
StartupSSL(c) ==
    /\ Usable(c)
    /\ \/ /\ stage[c] = "startup"
          /\ Goto(c, "handshake")
          /\ UNCHANGED ends
       \/ /\ stage[c] = "startupTLS"
          /\ Return(c)
    /\ UNCHANGED <<shared, conn>>

(* HandshakeContext fails once ctx is cancelled.                           *)
Handshake(c) ==
    /\ stage[c] = "handshake" /\ Usable(c) /\ ctx
    /\ Goto(c, "startupTLS")
    /\ UNCHANGED <<shared, conn, ends>>

(* A startup packet: refused in the clear; after TLS it must name a user   *)
(* and a replication mode PostgreSQL knows, and is answered by a request   *)
(* for the password.                                                       *)
StartupParams(c) ==
    /\ Usable(c)
    /\ \/ /\ stage[c] \in {"startup", "startupTLS"}
          /\ Return(c)
       \/ /\ stage[c] = "startupTLS"
          /\ Goto(c, "password")
          /\ UNCHANGED ends
    /\ UNCHANGED <<shared, conn>>

Password(c) ==
    /\ stage[c] = "password" /\ Usable(c)
    /\ Goto(c, "validate")
    /\ UNCHANGED <<shared, conn, ends>>

(* A read or write on the client connection fails: the client is gone, the *)
(* deadline passed, the client sent something malformed, or, during        *)
(* HandshakeContext, the emulator is shutting down.                        *)
IOFail(c) ==
    /\ \/ stage[c] \in Reading
       \/ stage[c] \in Writing /\ ~Usable(c)
    /\ Return(c)
    /\ UNCHANGED <<shared, conn>>

----------------------------------------------------------------------------
(* Credential check and upstream login.                                    *)

(* service.Validate and the parsing of Listener.Upstream.                  *)
Validate(c) ==
    /\ stage[c] = "validate"
    /\ \/ Goto(c, "connect") /\ UNCHANGED ends
       \/ Return(c)
    /\ UNCHANGED <<shared, conn>>

(* External: an upstream never hands out the same PID/secret pair twice.   *)
FreshKey(u, k) == k \notin issued[u]

(* pgconn.ConnectConfig dials Listener.Upstream and logs in.               *)
Connect(c, k) ==
    /\ stage[c] = "connect" /\ ctx
    /\ FreshKey(Upstream[lst[c]], k)
    /\ issued' = [issued EXCEPT ![Upstream[lst[c]]] = @ \cup {k}]
    /\ key' = [key EXCEPT ![c] = k]
    /\ backend' = [backend EXCEPT ![c] = "open"]
    /\ Goto(c, "sync")
    /\ UNCHANGED <<ctx, cancels, routed, lst, raw, target, front, deferred>>

(* Refused, wrong backend password, the connect timeout, or ctx.           *)
ConnectFail(c) ==
    /\ stage[c] = "connect"
    /\ Return(c)
    /\ UNCHANGED <<shared, conn>>

(* SyncConn, under the connect timeout.                                    *)
Sync(c) ==
    /\ stage[c] = "sync" /\ ctx /\ backend[c] = "open"
    /\ Goto(c, "hijack")
    /\ UNCHANGED <<shared, conn, ends>>

(* It fails: backend.Close, return.                                        *)
SyncFail(c) ==
    /\ stage[c] = "sync"
    /\ CloseReturn(c)
    /\ UNCHANGED <<shared, conn>>

(* Defect for NoBackendLeak: no deferred Close, on the ground that relay   *)
(* closes both connections.                                                *)
HijackWithoutDefer(c) ==
    /\ stage[c] = "hijack"
    /\ Goto(c, "authok")
    /\ UNCHANGED <<shared, conn, ends>>

(* Hijack takes the connection over, and its Close is deferred.            *)
Hijack(c) ==
    /\ stage[c] = "hijack"
    /\ deferred' = [deferred EXCEPT ![c] = TRUE]
    /\ Goto(c, "authok")
    /\ UNCHANGED <<shared, conn, front, backend>>

(* The driver refuses: backend.Close, return.                              *)
HijackFail(c) ==
    /\ stage[c] = "hijack"
    /\ CloseReturn(c)
    /\ UNCHANGED <<shared, conn>>

(* AuthenticationOk and the ParameterStatus messages.  A secret that is    *)
(* not 4 bytes long ends the session.                                      *)
WriteAuthOk(c) ==
    /\ stage[c] = "authok" /\ Usable(c)
    /\ \/ Goto(c, "key") /\ UNCHANGED ends
       \/ Return(c)
    /\ UNCHANGED <<shared, conn>>

(* BackendKeyData: from here on the client can send a CancelRequest.       *)
WriteKey(c) ==
    /\ stage[c] = "key" /\ Usable(c)
    /\ Goto(c, "ready")
    /\ UNCHANGED <<shared, conn, ends>>

WriteReady(c) ==
    /\ stage[c] = "ready" /\ Usable(c)
    /\ Goto(c, "store")
    /\ UNCHANGED <<shared, conn, ends>>

----------------------------------------------------------------------------
(* Relay and its end.                                                      *)

(* e.cancels.Store, then SetDeadline(time.Time{}).                         *)
Store(c) ==
    /\ stage[c] = "store"
    /\ cancels' = [cancels EXCEPT ![lst[c]][key[c]] = Upstream[lst[c]]]
    /\ front' = [front EXCEPT ![c] = IF @ = "gone" THEN @ ELSE "free"]
    /\ Goto(c, "relay")
    /\ UNCHANGED <<ctx, issued, routed, conn, backend, deferred>>

(* relay returns once one end is gone; it has closed both connections.     *)
RelayEnd(c) ==
    /\ stage[c] = "relay"
    /\ front[c] = "gone" \/ backend[c] = "lost"
    /\ front' = [front EXCEPT ![c] = "closed"]
    /\ backend' = [backend EXCEPT ![c] = "closed"]
    /\ Goto(c, "unmap")
    /\ UNCHANGED <<shared, conn, deferred>>

(* Defect for RelayedKeyIsMapped: the entry is deleted by the pair alone,  *)
(* whatever the listener.                                                  *)
UnmapEverywhere(c) ==
    /\ stage[c] = "unmap"
    /\ cancels' = [l \in Listeners |-> [cancels[l] EXCEPT ![key[c]] = None]]
    /\ Goto(c, "unwind")
    /\ UNCHANGED <<ctx, issued, routed, conn, ends>>

(* Defect for MappedOnlyForLiveSessions: no deferred Delete.               *)
UnmapNothing(c) ==
    /\ stage[c] = "unmap"
    /\ Goto(c, "unwind")
    /\ UNCHANGED <<shared, conn, ends>>

(* The deferred e.cancels.Delete runs first.                               *)
Unmap(c) ==
    /\ stage[c] = "unmap"
    /\ cancels' = [cancels EXCEPT ![lst[c]][key[c]] = None]
    /\ Goto(c, "unwind")
    /\ UNCHANGED <<ctx, issued, routed, conn, ends>>

(* Then the deferred hijacked.Conn.Close and the accept loop's conn.Close. *)
Unwind(c) ==
    /\ stage[c] = "unwind"
    /\ Return(c)
    /\ UNCHANGED <<shared, conn>>

----------------------------------------------------------------------------
(* CancelRequest.                                                          *)

(* pgStartup returns a CancelRequest, in the clear or after TLS.           *)
StartupCancel(c, k) ==
    /\ stage[c] \in {"startup", "startupTLS"} /\ Usable(c)
    /\ raw' = [raw EXCEPT ![c] = k]
    /\ Goto(c, "cancelLoad")
    /\ UNCHANGED <<shared, lst, key, target, ends>>

(* Defect for TypeOK: the "not found" answer of Load is not looked at.     *)
CancelLoadUnchecked(c) ==
    /\ stage[c] = "cancelLoad"
    /\ target' = [target EXCEPT ![c] = cancels[lst[c]][raw[c]]]
    /\ Goto(c, "cancelDial")
    /\ UNCHANGED <<shared, lst, key, raw, ends>>

(* Defect for CancelReachesOwnUpstream: the map is keyed by the pair alone, *)
(* so an entry of any listener answers.                                    *)
CancelLoadAnywhere(c) ==
    /\ stage[c] = "cancelLoad"
    /\ \E l \in Listeners :
         /\ cancels[l][raw[c]] # None
         /\ target' = [target EXCEPT ![c] = cancels[l][raw[c]]]
         /\ Goto(c, "cancelDial")
    /\ UNCHANGED <<shared, lst, key, raw, ends>>

(* e.cancels.Load: an unknown pair is ignored.                             *)
CancelLoad(c) ==
    /\ stage[c] = "cancelLoad"
    /\ target' = [target EXCEPT ![c] = cancels[lst[c]][raw[c]]]
    /\ IF cancels[lst[c]][raw[c]] = None
         THEN Return(c)
         ELSE Goto(c, "cancelDial") /\ UNCHANGED ends
    /\ UNCHANGED <<shared, lst, key, raw>>

(* e.dial with a 3 s timeout derived from ctx; the Close of the new        *)
(* connection is deferred.                                                 *)
CancelDial(c) ==
    /\ stage[c] = "cancelDial"
    /\ \/ /\ ctx /\ Goto(c, "cancelSend")
          /\ backend' = [backend EXCEPT ![c] = "open"]
          /\ deferred' = [deferred EXCEPT ![c] = TRUE]
          /\ UNCHANGED front
       \/ Return(c)
    /\ UNCHANGED <<shared, conn>>

(* The write may fail; either way the connection is finished.              *)
CancelSend(c) ==
    /\ stage[c] = "cancelSend"
    /\ Return(c)
    /\ routed' \in {routed, routed \cup {[via |-> lst[c], key |-> raw[c], at |-> target[c]]}}
    /\ UNCHANGED <<ctx, cancels, issued, conn>>

----------------------------------------------------------------------------
(* The environment.                                                        *)

(* External: the client drops its connection.                              *)
ClientGone(c) ==
    /\ front[c] \in {"armed", "expired", "free"}
    /\ front' = [front EXCEPT ![c] = "gone"]
    /\ UNCHANGED <<shared, conn, stage, backend, deferred>>

(* External: the upstream drops the session.                               *)
BackendLost(c) ==
    /\ backend[c] = "open"
    /\ backend' = [backend EXCEPT ![c] = "lost"]
    /\ UNCHANGED <<shared, conn, stage, front, deferred>>

(* The 15 s deadline passes.                                               *)
Expire(c) ==
    /\ front[c] = "armed"
    /\ front' = [front EXCEPT ![c] = "expired"]
    /\ UNCHANGED <<shared, conn, stage, backend, deferred>>

(* Emulator.Close, or cancellation of the caller's context.                *)
Shutdown ==
    /\ ctx /\ ctx' = FALSE
    /\ UNCHANGED <<conn, stage, ends, cancels, issued, routed>>

(* Steps that wait for nobody outside the emulator for longer than a       *)
(* timeout of its own: the connect, sync and cancel-dial timeouts make     *)
(* their actions' failing branches available.                              *)
Internal(c) ==
    \/ Validate(c) \/ (\E k \in Keys : Connect(c, k)) \/ ConnectFail(c)
    \/ Sync(c) \/ SyncFail(c) \/ Hijack(c) \/ HijackFail(c)
    \/ Store(c) \/ Unmap(c) \/ Unwind(c)
    \/ CancelLoad(c) \/ CancelDial(c) \/ CancelSend(c)

(* Steps that need the client, or the upstream, to send or to take         *)
(* something.                                                              *)
Dialogue(c) ==
    \/ StartupGSS(c) \/ StartupSSL(c) \/ Handshake(c) \/ StartupParams(c)
    \/ Password(c) \/ (\E k \in Keys : StartupCancel(c, k))
    \/ WriteAuthOk(c) \/ WriteKey(c) \/ WriteReady(c) \/ IOFail(c) \/ RelayEnd(c)

Environment(c) == ClientGone(c) \/ BackendLost(c) \/ Expire(c)

Next ==
    \/ \E c \in Conns :
         Internal(c) \/ Dialogue(c) \/ Environment(c) \/ (\E l \in Listeners : Accept(c, l))
    \/ Shutdown

Spec == Init /\ [][Next]_vars

(* Goroutines run, time passes, and I/O on an unusable connection returns. *)
(* Nothing is assumed of clients and upstreams.                            *)
Fairness ==
    \A c \in Conns :
      /\ WF_vars(Internal(c))
      /\ WF_vars(Expire(c))
      /\ WF_vars(IOFail(c) /\ ~Usable(c))

FairSpec == Spec /\ Fairness

----------------------------------------------------------------------------
(* Properties.                                                             *)

(* A session that is being relayed can be cancelled: Emulator.cancels holds *)
(* its pair, under its listener's name, with its own upstream, whatever the *)
(* other sessions store and delete meanwhile (postgres.go:270-274).        *)
RelayedKeyIsMapped ==
    \A c \in Conns :
      stage[c] \in Mapped => cancels[lst[c]][key[c]] = Upstream[lst[c]]

(* Emulator.cancels does not outlive the sessions it is about: every entry  *)
(* belongs to a session of that listener that is still between Store and    *)
(* the deferred Delete (postgres.go:271-272).                               *)
MappedOnlyForLiveSessions ==
    \A l \in Listeners, k \in Keys :
      cancels[l][k] # None =>
        \E c \in Conns : stage[c] \in Mapped /\ lst[c] = l /\ key[c] = k

(* A cancel message reaches only the upstream of the listener it came in    *)
(* by, and names a session that was opened through that listener, however   *)
(* pairs of different upstreams coincide (pgCancel, postgres.go:286-297).   *)
CancelReachesOwnUpstream ==
    \A r \in routed :
      /\ r.at = Upstream[r.via]
      /\ \E d \in Conns : lst[d] = r.via /\ key[d] = r.key

(* However a connection ends (a failed SyncConn or Hijack, a client that    *)
(* went away while its login was answered, shutdown, the end of the relay,  *)
(* a cancel message that could not be sent), its own returns, deferred      *)
(* calls and relay between them have closed the upstream connection         *)
(* (postgres.go:235-244, 295, server.go:361).                               *)
NoBackendLeak ==
    \A c \in Conns : stage[c] = "done" => backend[c] \in {"none", "closed"}

(* A connection does not stay forever in front of the relay: a client that  *)
(* stalls at any point is cut by the deadline (postgres.go:135).            *)
HandshakeEnds ==
    \A c \in Conns :
      stage[c] \in LoginStages \cup CancelStages ~> stage[c] \in {"relay", "done"}

(* ARCHITECTURE.md:45-47: "Backend PID/secret pairs are exposed to the      *)
(* client only while that session remains active and are mapped to its      *)
(* configured upstream for cancellation."  So a CancelRequest is never      *)
(* ignored while the session it names is active and its client has been     *)
(* given the pair.  BackendKeyData is written at postgres.go:264,           *)
(* ReadyForQuery at 267, and only then is the pair stored, at 271.          *)
ExposedKeyIsCancellable ==
    [][\A c, d \in Conns :
         stage[c] = "cancelLoad" /\ stage'[c] = "done" =>
           ~ ( /\ stage[d] \in {"ready", "store", "relay"}
               /\ lst[d] = lst[c] /\ key[d] = raw[c] )]_vars
=============================================================================
