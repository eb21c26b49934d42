----------------------- MODULE PostgresSessionProofs -----------------------
(***************************************************************************)
(* The safety invariants of PostgresSession, for any number of             *)
(* connections, listeners, upstreams and pairs.                            *)
(***************************************************************************)
EXTENDS PostgresSession, TLAPS

----------------------------------------------------------------------------
(* The inductive invariant.                                                *)

(* Stages before ConnectConfig has returned.                               *)
BeforeConnect == {"idle", "validate", "connect"} \cup Reading

(* An accepted connection belongs to a listener.                           *)
HasListener == \A c \in Conns : stage[c] # "idle" => lst[c] \in Listeners

(* A session has a pair from ConnectConfig on and none before.             *)
HasKey ==
    \A c \in Conns :
      /\ stage[c] \in BeforeConnect \cup CancelStages => key[c] = None
      /\ stage[c] \in {"sync", "hijack", "store"} \cup Writing \cup Mapped => key[c] \in Keys

(* A session's pair was issued by its own upstream, ...                    *)
KeyIssued ==
    \A c \in Conns :
      key[c] \in Keys => lst[c] \in Listeners /\ key[c] \in issued[Upstream[lst[c]]]

(* ... to that session alone.                                              *)
KeyUnique ==
    \A c, d \in Conns :
      c # d /\ key[c] \in Keys /\ key[c] = key[d] => Upstream[lst[c]] # Upstream[lst[d]]

(* A CancelRequest names a pair; once it was found, its target is its own  *)
(* listener's upstream and the pair is that of a session there.            *)
CancelTarget ==
    \A c \in Conns :
      /\ stage[c] \in CancelStages => raw[c] \in Keys
      /\ stage[c] \in {"cancelDial", "cancelSend"} =>
           /\ target[c] = Upstream[lst[c]]
           /\ \E d \in Conns : lst[d] = lst[c] /\ key[d] = raw[c]

KeyInv == HasListener /\ HasKey /\ KeyIssued /\ KeyUnique

MapInv == RelayedKeyIsMapped /\ MappedOnlyForLiveSessions

CancelInv == CancelTarget /\ CancelReachesOwnUpstream

IInv == TypeOK /\ KeyInv /\ MapInv /\ CancelInv

----------------------------------------------------------------------------
(* Type correctness.                                                       *)

(* The type invariant is preserved by every step, given that a connection  *)
(* that stores or cancels has a listener, a pair and a target.             *)
LEMMA TypeStep ==
    ASSUME TypeOK, HasListener, HasKey, CancelTarget, [Next]_vars
    PROVE  TypeOK'
<1> USE PostgresAssumption DEF TypeOK, Stages, Reading, Writing, LoginStages, CancelStages,
        Mapped, Fronts, Backends, conn, ends, shared, Goto, Leave, Return, CloseReturn
<1>1. ASSUME NEW c \in Conns, NEW l \in Listeners, Accept(c, l) PROVE TypeOK'
  BY <1>1 DEF Accept
<1>2. ASSUME NEW c \in Conns, StartupGSS(c) PROVE TypeOK'
  BY <1>2 DEF StartupGSS, vars
<1>3. ASSUME NEW c \in Conns, StartupSSL(c) PROVE TypeOK'
  BY <1>3 DEF StartupSSL
<1>4. ASSUME NEW c \in Conns, Handshake(c) PROVE TypeOK'
  BY <1>4 DEF Handshake
<1>5. ASSUME NEW c \in Conns, StartupParams(c) PROVE TypeOK'
  BY <1>5 DEF StartupParams
<1>6. ASSUME NEW c \in Conns, Password(c) PROVE TypeOK'
  BY <1>6 DEF Password
<1>7. ASSUME NEW c \in Conns, IOFail(c) PROVE TypeOK'
  BY <1>7 DEF IOFail
<1>8. ASSUME NEW c \in Conns, Validate(c) PROVE TypeOK'
  BY <1>8 DEF Validate
<1>9. ASSUME NEW c \in Conns, NEW k \in Keys, Connect(c, k) PROVE TypeOK'
  BY <1>9 DEF Connect, HasListener
<1>10. ASSUME NEW c \in Conns, ConnectFail(c) PROVE TypeOK'
  BY <1>10 DEF ConnectFail
<1>11. ASSUME NEW c \in Conns, Sync(c) \/ SyncFail(c) \/ Hijack(c) \/ HijackFail(c)
       PROVE  TypeOK'
  <2>1. CASE Sync(c)
    BY <2>1 DEF Sync
  <2>2. CASE SyncFail(c)
    BY <2>2 DEF SyncFail
  <2>3. CASE Hijack(c)
    BY <2>3 DEF Hijack
  <2>4. CASE HijackFail(c)
    BY <2>4 DEF HijackFail
  <2> QED
    BY <1>11, <2>1, <2>2, <2>3, <2>4
<1>12. ASSUME NEW c \in Conns, WriteAuthOk(c) PROVE TypeOK'
  BY <1>12 DEF WriteAuthOk
<1>13. ASSUME NEW c \in Conns, WriteKey(c) PROVE TypeOK'
  BY <1>13 DEF WriteKey
<1>14. ASSUME NEW c \in Conns, WriteReady(c) PROVE TypeOK'
  BY <1>14 DEF WriteReady
<1>15. ASSUME NEW c \in Conns, Store(c) PROVE TypeOK'
  <2>1. lst[c] \in Listeners /\ key[c] \in Keys
    BY <1>15 DEF Store, HasListener, HasKey
  <2> QED
    BY <1>15, <2>1 DEF Store
<1>16. ASSUME NEW c \in Conns, RelayEnd(c) PROVE TypeOK'
  BY <1>16 DEF RelayEnd
<1>17. ASSUME NEW c \in Conns, Unmap(c) PROVE TypeOK'
  <2>1. lst[c] \in Listeners /\ key[c] \in Keys
    BY <1>17 DEF Unmap, HasListener, HasKey
  <2> QED
    BY <1>17, <2>1 DEF Unmap
<1>18. ASSUME NEW c \in Conns, Unwind(c) PROVE TypeOK'
  BY <1>18 DEF Unwind
<1>19. ASSUME NEW c \in Conns, NEW k \in Keys, StartupCancel(c, k) PROVE TypeOK'
  BY <1>19 DEF StartupCancel
<1>20. ASSUME NEW c \in Conns, CancelLoad(c) PROVE TypeOK'
  <2>1. lst[c] \in Listeners /\ raw[c] \in Keys
    BY <1>20 DEF CancelLoad, HasListener, CancelTarget
  <2>2. cancels[lst[c]][raw[c]] \in Upstreams \cup {None}
    BY <2>1
  <2>3. target' \in [Conns -> Upstreams \cup {None}]
    BY <1>20, <2>2 DEF CancelLoad
  <2>4. CASE cancels[lst[c]][raw[c]] = None
    <3>1. stage' \in [Conns -> Stages]
      BY <1>20, <2>4 DEF CancelLoad
    <3>2. front' \in [Conns -> Fronts]
      BY <1>20, <2>4 DEF CancelLoad
    <3>3. backend' \in [Conns -> Backends]
      BY <1>20, <2>4 DEF CancelLoad
    <3> QED
      BY <1>20, <2>3, <3>1, <3>2, <3>3 DEF CancelLoad
  <2>5. CASE cancels[lst[c]][raw[c]] # None
    BY <1>20, <2>3, <2>5 DEF CancelLoad
  <2> QED
    BY <2>4, <2>5
<1>21. ASSUME NEW c \in Conns, CancelDial(c) PROVE TypeOK'
  BY <1>21 DEF CancelDial
<1>22. ASSUME NEW c \in Conns, CancelSend(c) PROVE TypeOK'
  <2>1. lst[c] \in Listeners /\ raw[c] \in Keys /\ target[c] \in Upstreams
    BY <1>22 DEF CancelSend, HasListener, CancelTarget
  <2> QED
    BY <1>22, <2>1 DEF CancelSend
<1>23. ASSUME NEW c \in Conns, Environment(c) PROVE TypeOK'
  <2>1. CASE ClientGone(c)
    BY <2>1 DEF ClientGone
  <2>2. CASE BackendLost(c)
    BY <2>2 DEF BackendLost
  <2>3. CASE Expire(c)
    BY <2>3 DEF Expire
  <2> QED
    BY <1>23, <2>1, <2>2, <2>3 DEF Environment
<1>24. CASE Shutdown
  BY <1>24 DEF Shutdown
<1>25. CASE UNCHANGED vars
  BY <1>25 DEF vars
<1> QED
  BY <1>1, <1>2, <1>3, <1>4, <1>5, <1>6, <1>7, <1>8, <1>9, <1>10, <1>11, <1>12, <1>13,
     <1>14, <1>15, <1>16, <1>17, <1>18, <1>19, <1>20, <1>21, <1>22, <1>23, <1>24, <1>25
     DEF Next, Internal, Dialogue
----------------------------------------------------------------------------
(* Most steps touch neither the pairs nor the maps: they only move one     *)
(* connection along, within the login, into the relay's end or out.        *)

Keyed == {"sync", "hijack"} \cup Writing \cup {"store"}

Moves(from, to) ==
    \/ from \notin Mapped \cup {"idle"} /\ to = "done"
    \/ from \in BeforeConnect \ {"idle"} /\ to \in BeforeConnect \ {"idle"}
    \/ from \in Keyed /\ to \in Keyed
    \/ from = "relay" /\ to = "unmap"
    \/ from = "cancelDial" /\ to = "cancelSend"

Quiet(c) ==
    /\ UNCHANGED <<conn, cancels, issued, routed>>
    /\ \/ UNCHANGED stage
       \/ \E to \in Stages : Moves(stage[c], to) /\ stage' = [stage EXCEPT ![c] = to]

(* The steps of servePostgres, and of the environment, that are quiet.     *)
LEMMA QuietSteps ==
    ASSUME NEW c \in Conns,
           \/ StartupGSS(c) \/ StartupSSL(c) \/ Handshake(c) \/ StartupParams(c)
           \/ Password(c) \/ IOFail(c) \/ Validate(c) \/ ConnectFail(c)
           \/ Sync(c) \/ SyncFail(c) \/ Hijack(c) \/ HijackFail(c)
           \/ WriteAuthOk(c) \/ WriteKey(c) \/ WriteReady(c) \/ RelayEnd(c) \/ Unwind(c)
           \/ CancelDial(c) \/ Environment(c)
    PROVE  Quiet(c)
<1> USE DEF Stages, Reading, Writing, LoginStages, CancelStages, Mapped, BeforeConnect, Keyed,
        Moves, Quiet, conn, ends, shared, vars, Goto, Leave, Return, CloseReturn
<1>1. CASE StartupGSS(c) \/ StartupSSL(c) \/ Handshake(c) \/ StartupParams(c) \/ Password(c)
  BY <1>1 DEF StartupGSS, StartupSSL, Handshake, StartupParams, Password
<1>2. CASE IOFail(c) \/ Validate(c) \/ ConnectFail(c)
  BY <1>2 DEF IOFail, Validate, ConnectFail
<1>3. CASE WriteAuthOk(c) \/ WriteKey(c) \/ WriteReady(c)
  BY <1>3 DEF WriteAuthOk, WriteKey, WriteReady
<1>4. CASE RelayEnd(c) \/ Unwind(c) \/ CancelDial(c)
  BY <1>4 DEF RelayEnd, Unwind, CancelDial
<1>5. CASE Environment(c)
  BY <1>5 DEF Environment, ClientGone, BackendLost, Expire
<1>6. CASE Sync(c) \/ SyncFail(c) \/ Hijack(c) \/ HijackFail(c)
  BY <1>6 DEF Sync, SyncFail, Hijack, HijackFail
<1> QED
  BY <1>1, <1>2, <1>3, <1>4, <1>5, <1>6

(* A quiet step preserves everything said about pairs, map and cancels.    *)
LEMMA QuietPreserves ==
    ASSUME NEW c \in Conns, IInv, Quiet(c)
    PROVE  KeyInv' /\ MapInv' /\ CancelInv'
<1> USE DEF IInv, TypeOK, KeyInv, MapInv, CancelInv
<1>1. CASE UNCHANGED stage
  BY <1>1 DEF Quiet, conn, HasListener, HasKey, KeyIssued, KeyUnique, RelayedKeyIsMapped,
     MappedOnlyForLiveSessions, CancelTarget, CancelReachesOwnUpstream
<1>2. ASSUME NEW to \in Stages, Moves(stage[c], to), stage' = [stage EXCEPT ![c] = to]
      PROVE  KeyInv' /\ MapInv' /\ CancelInv'
  <2> USE <1>2 DEF Quiet, conn
  <2>1. /\ \A d \in Conns : stage'[d] = "idle" <=> stage[d] = "idle"
        /\ \A d \in Conns : stage'[d] \in Mapped <=> stage[d] \in Mapped
    BY DEF Moves, Mapped, BeforeConnect, Keyed, Reading, Writing
  <2>2. HasListener'
    BY <2>1 DEF HasListener
  <2>3. HasKey'
    BY DEF HasKey, Moves, Mapped, BeforeConnect, Keyed, Reading, Writing, CancelStages
  <2>4. KeyIssued' /\ KeyUnique'
    BY DEF KeyIssued, KeyUnique
  <2>5. RelayedKeyIsMapped' /\ MappedOnlyForLiveSessions'
    BY <2>1 DEF RelayedKeyIsMapped, MappedOnlyForLiveSessions
  <2>6. CancelTarget'
    BY DEF CancelTarget, Moves, Mapped, BeforeConnect, Keyed, Reading, Writing, CancelStages
  <2>7. CancelReachesOwnUpstream'
    BY DEF CancelReachesOwnUpstream
  <2> QED
    BY <2>2, <2>3, <2>4, <2>5, <2>6, <2>7
<1> QED
  BY <1>1, <1>2 DEF Quiet
----------------------------------------------------------------------------
(* The steps that change pairs, map or cancels.                            *)

(* A login that reaches its upstream gets a pair no other session has.     *)
LEMMA ConnectPreserves ==
    ASSUME NEW c \in Conns, NEW k \in Keys, IInv, Connect(c, k)
    PROVE  KeyInv' /\ MapInv' /\ CancelInv'
<1> USE PostgresAssumption DEF IInv, TypeOK, KeyInv, MapInv, CancelInv, Connect, Goto
<1>1. lst[c] \in Listeners /\ key[c] = None
  BY DEF HasListener, HasKey, BeforeConnect
<1>2. \A d \in Conns : d # c => stage'[d] = stage[d] /\ key'[d] = key[d]
  OBVIOUS
<1>3. stage'[c] = "sync" /\ key'[c] = k /\ k \in issued'[Upstream[lst[c]]]
  BY <1>1
<1>4. HasListener'
  BY <1>1, <1>2 DEF HasListener
<1>5. HasKey'
  BY <1>2, <1>3 DEF HasKey, BeforeConnect, CancelStages, Reading, Writing, Mapped
<1>6. KeyIssued'
  BY <1>1, <1>2, <1>3 DEF KeyIssued
<1>7. KeyUnique'
  BY <1>1, <1>2, <1>3 DEF KeyUnique, KeyIssued, FreshKey
<1>8. RelayedKeyIsMapped' /\ MappedOnlyForLiveSessions'
  <2>1. /\ RelayedKeyIsMapped /\ MappedOnlyForLiveSessions
        /\ cancels' = cancels /\ lst' = lst
        /\ stage[c] \notin Mapped /\ stage'[c] \notin Mapped
    BY <1>3 DEF Mapped
  <2> HIDE DEF IInv, TypeOK, KeyInv, MapInv, CancelInv, Connect, Goto
  <2>2. RelayedKeyIsMapped'
    BY <1>2, <2>1 DEF RelayedKeyIsMapped
  <2>3. MappedOnlyForLiveSessions'
    BY <1>2, <2>1 DEF MappedOnlyForLiveSessions
  <2> QED
    BY <2>2, <2>3
<1>9. CancelTarget'
  <2> SUFFICES ASSUME NEW d \in Conns
               PROVE  /\ stage'[d] \in CancelStages => raw'[d] \in Keys
                      /\ stage'[d] \in {"cancelDial", "cancelSend"} =>
                           /\ target'[d] = Upstream[lst'[d]]
                           /\ \E e \in Conns : lst'[e] = lst'[d] /\ key'[e] = raw'[d]
    BY DEF CancelTarget
  <2>1. d = c => stage'[d] \notin CancelStages
    BY <1>3 DEF CancelStages
  <2>2. CASE d # c /\ stage[d] \in {"cancelDial", "cancelSend"}
    <3>1. PICK e \in Conns : lst[e] = lst[d] /\ key[e] = raw[d]
      BY <2>2 DEF CancelTarget
    <3>2. e # c
      BY <1>1, <3>1, <2>2 DEF CancelTarget, CancelStages
    <3> QED
      BY <1>2, <2>2, <3>1, <3>2 DEF CancelTarget
  <2> QED
    BY <1>2, <2>1, <2>2 DEF CancelTarget, CancelStages
<1>10. CancelReachesOwnUpstream'
  <2> SUFFICES ASSUME NEW r \in routed
               PROVE  r.at = Upstream[r.via] /\ \E d \in Conns : lst[d] = r.via /\ key'[d] = r.key
    BY DEF CancelReachesOwnUpstream
  <2>1. PICK d \in Conns : lst[d] = r.via /\ key[d] = r.key
    BY DEF CancelReachesOwnUpstream
  <2>2. r.key \in Keys
    OBVIOUS
  <2>3. d # c
    BY <1>1, <2>1, <2>2
  <2> QED
    BY <1>2, <2>1, <2>3 DEF CancelReachesOwnUpstream
<1> QED
  BY <1>4, <1>5, <1>6, <1>7, <1>8, <1>9, <1>10

(* Accept gives a connection its listener.                                 *)
LEMMA AcceptPreserves ==
    ASSUME NEW c \in Conns, NEW l \in Listeners, IInv, Accept(c, l)
    PROVE  KeyInv' /\ MapInv' /\ CancelInv'
<1> USE PostgresAssumption DEF IInv, TypeOK, KeyInv, MapInv, CancelInv, Accept, Goto, shared
<1>1. key[c] = None
  BY DEF HasKey, BeforeConnect
<1>2. \A d \in Conns : d # c => stage'[d] = stage[d] /\ lst'[d] = lst[d]
  OBVIOUS
<1>3. stage'[c] = "startup" /\ lst'[c] = l
  OBVIOUS
<1>4. HasListener' /\ HasKey'
  BY <1>1, <1>2, <1>3 DEF HasListener, HasKey, BeforeConnect, CancelStages, Reading, Writing, Mapped
<1>5. KeyIssued' /\ KeyUnique'
  BY <1>1, <1>2 DEF KeyIssued, KeyUnique
<1>6. RelayedKeyIsMapped'
  BY <1>2, <1>3 DEF RelayedKeyIsMapped, Mapped
<1>7. MappedOnlyForLiveSessions'
  <2> SUFFICES ASSUME NEW m \in Listeners, NEW k \in Keys, cancels[m][k] # None
               PROVE  \E d \in Conns : stage'[d] \in Mapped /\ lst'[d] = m /\ key[d] = k
    BY DEF MappedOnlyForLiveSessions
  <2>1. PICK d \in Conns : stage[d] \in Mapped /\ lst[d] = m /\ key[d] = k
    BY DEF MappedOnlyForLiveSessions
  <2> QED
    BY <1>2, <2>1 DEF Mapped
<1>8. CancelTarget'
  <2> SUFFICES ASSUME NEW d \in Conns, d # c
               PROVE  /\ stage[d] \in CancelStages => raw[d] \in Keys
                      /\ stage[d] \in {"cancelDial", "cancelSend"} =>
                           /\ target[d] = Upstream[lst[d]]
                           /\ \E e \in Conns : lst'[e] = lst[d] /\ key[e] = raw[d]
    BY <1>2, <1>3 DEF CancelTarget, CancelStages
  <2> QED
    BY <1>1, <1>2 DEF CancelTarget, CancelStages
<1>9. CancelReachesOwnUpstream'
  <2> SUFFICES ASSUME NEW r \in routed
               PROVE  r.at = Upstream[r.via] /\ \E d \in Conns : lst'[d] = r.via /\ key[d] = r.key
    BY DEF CancelReachesOwnUpstream
  <2>1. PICK d \in Conns : lst[d] = r.via /\ key[d] = r.key
    BY DEF CancelReachesOwnUpstream
  <2>2. d # c
    BY <1>1, <2>1
  <2> QED
    BY <1>2, <2>1, <2>2 DEF CancelReachesOwnUpstream
<1> QED
  BY <1>4, <1>5, <1>6, <1>7, <1>8, <1>9

(* Two sessions that use Emulator.cancels at the same time never use the   *)
(* same entry of it.                                                       *)
LEMMA EntriesDistinct ==
    ASSUME IInv, NEW c \in Conns, NEW d \in Conns, c # d,
           stage[c] # "idle", key[c] \in Keys, key[d] \in Keys
    PROVE  lst[c] # lst[d] \/ key[c] # key[d]
  BY DEF IInv, KeyInv, KeyUnique

(* e.cancels.Store.                                                        *)
LEMMA StorePreserves ==
    ASSUME NEW c \in Conns, IInv, Store(c)
    PROVE  KeyInv' /\ MapInv' /\ CancelInv'
<1> USE PostgresAssumption DEF IInv, KeyInv, MapInv, CancelInv, Store, Goto, conn
<1>1. TypeOK
  OBVIOUS
<1>2. lst[c] \in Listeners /\ key[c] \in Keys /\ Upstream[lst[c]] \in Upstreams
  BY DEF HasListener, HasKey
<1>3. /\ \A d \in Conns : d # c => stage'[d] = stage[d]
      /\ stage'[c] = "relay"
  BY DEF TypeOK
<1>4. /\ cancels'[lst[c]][key[c]] = Upstream[lst[c]]
      /\ \A l \in Listeners, k \in Keys :
           l # lst[c] \/ k # key[c] => cancels'[l][k] = cancels[l][k]
  BY <1>2 DEF TypeOK
<1>5. HasListener' /\ HasKey' /\ KeyIssued' /\ KeyUnique'
  BY <1>2, <1>3 DEF HasListener, HasKey, KeyIssued, KeyUnique, BeforeConnect, CancelStages, Reading
<1>6. RelayedKeyIsMapped'
  <2> SUFFICES ASSUME NEW d \in Conns, stage'[d] \in Mapped
               PROVE  cancels'[lst[d]][key[d]] = Upstream[lst[d]]
    BY DEF RelayedKeyIsMapped
  <2>1. CASE d = c
    BY <1>4, <2>1
  <2>2. CASE d # c
    <3>1. stage[d] \in Mapped /\ lst[d] \in Listeners /\ key[d] \in Keys
      BY <1>3, <2>2 DEF HasListener, HasKey, Mapped
    <3>2. lst[d] # lst[c] \/ key[d] # key[c]
      BY <1>2, <2>2, <3>1, EntriesDistinct
    <3> QED
      BY <1>4, <3>1, <3>2 DEF RelayedKeyIsMapped
  <2> QED
    BY <2>1, <2>2
<1>7. MappedOnlyForLiveSessions'
  <2> SUFFICES ASSUME NEW l \in Listeners, NEW k \in Keys, cancels'[l][k] # None
               PROVE  \E d \in Conns : stage'[d] \in Mapped /\ lst[d] = l /\ key[d] = k
    BY DEF MappedOnlyForLiveSessions
  <2>1. CASE l = lst[c] /\ k = key[c]
    BY <1>3, <2>1 DEF Mapped
  <2>2. CASE l # lst[c] \/ k # key[c]
    <3>1. PICK d \in Conns : stage[d] \in Mapped /\ lst[d] = l /\ key[d] = k
      BY <1>4, <2>2 DEF MappedOnlyForLiveSessions
    <3> QED
      BY <1>3, <3>1 DEF Mapped
  <2> QED
    BY <2>1, <2>2
<1>8. CancelTarget' /\ CancelReachesOwnUpstream'
  BY <1>3 DEF CancelTarget, CancelReachesOwnUpstream, CancelStages
<1> QED
  BY <1>5, <1>6, <1>7, <1>8

(* The deferred e.cancels.Delete.                                          *)
LEMMA UnmapPreserves ==
    ASSUME NEW c \in Conns, IInv, Unmap(c)
    PROVE  KeyInv' /\ MapInv' /\ CancelInv'
<1> USE PostgresAssumption DEF IInv, KeyInv, MapInv, CancelInv, Unmap, Goto, conn
<1>1. TypeOK
  OBVIOUS
<1>2. lst[c] \in Listeners /\ key[c] \in Keys
  BY DEF HasListener, HasKey, Mapped
<1>3. /\ \A d \in Conns : d # c => stage'[d] = stage[d]
      /\ stage'[c] = "unwind"
  BY DEF TypeOK
<1>4. /\ cancels'[lst[c]][key[c]] = None
      /\ \A l \in Listeners, k \in Keys :
           l # lst[c] \/ k # key[c] => cancels'[l][k] = cancels[l][k]
  BY <1>2 DEF TypeOK
<1>5. HasListener' /\ HasKey' /\ KeyIssued' /\ KeyUnique'
  BY <1>2, <1>3 DEF HasListener, HasKey, KeyIssued, KeyUnique, BeforeConnect, CancelStages,
     Reading, Writing, Mapped
<1>6. RelayedKeyIsMapped'
  <2> SUFFICES ASSUME NEW d \in Conns, stage'[d] \in Mapped
               PROVE  cancels'[lst[d]][key[d]] = Upstream[lst[d]]
    BY DEF RelayedKeyIsMapped
  <2>1. d # c /\ stage[d] \in Mapped
    BY <1>3 DEF Mapped
  <2>2. lst[d] \in Listeners /\ key[d] \in Keys
    BY <2>1 DEF HasListener, HasKey, Mapped
  <2>3. lst[d] # lst[c] \/ key[d] # key[c]
    BY <1>2, <2>1, <2>2, EntriesDistinct DEF Mapped
  <2> QED
    BY <1>4, <2>1, <2>2, <2>3 DEF RelayedKeyIsMapped
<1>7. MappedOnlyForLiveSessions'
  <2> SUFFICES ASSUME NEW l \in Listeners, NEW k \in Keys, cancels'[l][k] # None
               PROVE  \E d \in Conns : stage'[d] \in Mapped /\ lst[d] = l /\ key[d] = k
    BY DEF MappedOnlyForLiveSessions
  <2>1. l # lst[c] \/ k # key[c]
    BY <1>4
  <2>2. PICK d \in Conns : stage[d] \in Mapped /\ lst[d] = l /\ key[d] = k
    BY <1>4, <2>1 DEF MappedOnlyForLiveSessions
  <2> QED
    BY <1>3, <2>1, <2>2
<1>8. CancelTarget' /\ CancelReachesOwnUpstream'
  BY <1>3 DEF CancelTarget, CancelReachesOwnUpstream, CancelStages
<1> QED
  BY <1>5, <1>6, <1>7, <1>8

(* The steps of a CancelRequest.                                           *)
LEMMA CancelPreserves ==
    ASSUME NEW c \in Conns, IInv,
           (\E k \in Keys : StartupCancel(c, k)) \/ CancelLoad(c) \/ CancelSend(c)
    PROVE  KeyInv' /\ MapInv' /\ CancelInv'
<1> DEFINE Found(d) == \E e \in Conns : lst[e] = lst[d] /\ key[e] = raw[d]
           T(d) == /\ stage[d] \in CancelStages => raw[d] \in Keys
                   /\ stage[d] \in {"cancelDial", "cancelSend"} =>
                        target[d] = Upstream[lst[d]] /\ Found(d)
<1> USE PostgresAssumption DEF IInv, TypeOK, KeyInv, MapInv, CancelInv, Goto, Leave, Return,
        ends, shared, conn
<1>1. /\ UNCHANGED <<lst, key, issued, cancels>>
      /\ \A d \in Conns : d # c =>
           stage'[d] = stage[d] /\ raw'[d] = raw[d] /\ target'[d] = target[d]
      /\ stage[c] \notin Mapped \cup Keyed \cup {"idle"}
      /\ stage'[c] \in CancelStages \cup {"done"}
      /\ stage[c] \in BeforeConnect \cup CancelStages
  BY DEF StartupCancel, CancelLoad, CancelSend, Mapped, Keyed, Writing, CancelStages,
     BeforeConnect, Reading
<1>2. HasListener' /\ HasKey' /\ KeyIssued' /\ KeyUnique'
  BY <1>1 DEF HasListener, HasKey, KeyIssued, KeyUnique, BeforeConnect, CancelStages, Reading,
     Writing, Mapped
<1>3. RelayedKeyIsMapped' /\ MappedOnlyForLiveSessions'
  BY <1>1 DEF RelayedKeyIsMapped, MappedOnlyForLiveSessions, CancelStages, Mapped
<1>4. T(c)' => CancelTarget'
  <2>1. ASSUME NEW d \in Conns, d # c PROVE T(d)'
    <3>1. T(d)
      BY DEF CancelTarget
    <3>2. Found(d)' <=> Found(d)
      BY <1>1, <2>1
    <3> HIDE DEF Found
    <3> QED
      BY <1>1, <2>1, <3>1, <3>2
  <2>2. (\A d \in Conns : T(d)') => CancelTarget'
    BY DEF CancelTarget
  <2> HIDE DEF T
  <2> QED
    BY <2>1, <2>2
<1>5. ASSUME NEW k \in Keys, StartupCancel(c, k)
      PROVE  CancelTarget' /\ CancelReachesOwnUpstream'
  BY <1>1, <1>5 DEF StartupCancel, CancelTarget, CancelReachesOwnUpstream, CancelStages
<1>6. ASSUME CancelLoad(c) PROVE CancelTarget' /\ CancelReachesOwnUpstream'
  <2>1. lst[c] \in Listeners /\ raw[c] \in Keys
    BY <1>6 DEF CancelLoad, HasListener, CancelTarget, CancelStages
  <2>2. CancelReachesOwnUpstream'
    BY <1>1, <1>6 DEF CancelLoad, CancelReachesOwnUpstream
  <2>3. CASE cancels[lst[c]][raw[c]] = None
    <3>1. stage'[c] = "done"
      BY <1>6, <2>3 DEF CancelLoad
    <3> QED
      BY <1>4, <2>2, <3>1 DEF CancelStages
  <2>4. CASE cancels[lst[c]][raw[c]] # None
    <3>1. PICK d \in Conns : stage[d] \in Mapped /\ lst[d] = lst[c] /\ key[d] = raw[c]
      BY <2>1, <2>4 DEF MappedOnlyForLiveSessions
    <3>2. cancels[lst[c]][raw[c]] = Upstream[lst[c]]
      BY <3>1 DEF RelayedKeyIsMapped
    <3>3. target'[c] = Upstream[lst[c]] /\ raw'[c] = raw[c]
      BY <1>6, <3>2 DEF CancelLoad
    <3>4. CancelTarget'
      BY <1>1, <1>4, <2>1, <3>1, <3>3 DEF CancelStages
    <3> QED
      BY <2>2, <3>4
  <2> QED
    BY <2>3, <2>4
<1>7. ASSUME CancelSend(c) PROVE CancelTarget' /\ CancelReachesOwnUpstream'
  <2>1. PICK d \in Conns : lst[d] = lst[c] /\ key[d] = raw[c]
    BY <1>7 DEF CancelSend, CancelTarget
  <2>2. target[c] = Upstream[lst[c]]
    BY <1>7 DEF CancelSend, CancelTarget
  <2>3. CancelReachesOwnUpstream'
    BY <1>7, <2>1, <2>2 DEF CancelSend, CancelReachesOwnUpstream
  <2>4. CancelTarget'
    <3>1. stage'[c] = "done"
      BY <1>7 DEF CancelSend
    <3> QED
      BY <1>4, <3>1 DEF CancelStages
  <2> QED
    BY <2>3, <2>4
<1> QED
  BY <1>2, <1>3, <1>5, <1>6, <1>7

----------------------------------------------------------------------------
(* The theorems.                                                           *)

(* Init establishes the invariant: there is no connection yet.             *)
LEMMA InitIInv == Init => IInv
<1> SUFFICES ASSUME Init PROVE IInv
  OBVIOUS
<1> USE PostgresAssumption DEF Init
<1>1. TypeOK
  BY DEF TypeOK, Stages, Fronts, Backends
<1>2. KeyInv
  BY DEF KeyInv, HasListener, HasKey, KeyIssued, KeyUnique, BeforeConnect, Writing, Mapped
<1>3. MapInv
  BY DEF MapInv, RelayedKeyIsMapped, MappedOnlyForLiveSessions, Mapped
<1>4. CancelInv
  BY DEF CancelInv, CancelTarget, CancelReachesOwnUpstream, CancelStages
<1> QED
  BY <1>1, <1>2, <1>3, <1>4 DEF IInv

(* Every step preserves it.                                                *)
LEMMA NextIInv == IInv /\ [Next]_vars => IInv'
<1> SUFFICES ASSUME IInv, [Next]_vars PROVE IInv'
  OBVIOUS
<1>1. TypeOK'
  BY TypeStep DEF IInv, KeyInv, CancelInv
<1>2. KeyInv' /\ MapInv' /\ CancelInv'
  <2>1. ASSUME NEW c \in Conns, NEW l \in Listeners, Accept(c, l)
        PROVE  KeyInv' /\ MapInv' /\ CancelInv'
    BY <2>1, AcceptPreserves
  <2>2. ASSUME NEW c \in Conns, Internal(c) PROVE KeyInv' /\ MapInv' /\ CancelInv'
    BY <2>2, ConnectPreserves, StorePreserves, UnmapPreserves, CancelPreserves, QuietSteps,
       QuietPreserves DEF Internal
  <2>3. ASSUME NEW c \in Conns, Dialogue(c) PROVE KeyInv' /\ MapInv' /\ CancelInv'
    BY <2>3, CancelPreserves, QuietSteps, QuietPreserves DEF Dialogue
  <2>4. ASSUME NEW c \in Conns, Environment(c) PROVE KeyInv' /\ MapInv' /\ CancelInv'
    BY <2>4, QuietSteps, QuietPreserves
  <2>5. CASE Shutdown \/ UNCHANGED vars
    <3>1. UNCHANGED <<stage, conn, cancels, issued, routed>>
      BY <2>5 DEF Shutdown, vars, conn
    <3> QED
      BY <3>1 DEF conn, IInv, KeyInv, MapInv, CancelInv, HasListener, HasKey, KeyIssued, KeyUnique,
         RelayedKeyIsMapped, MappedOnlyForLiveSessions, CancelTarget, CancelReachesOwnUpstream
  <2> QED
    BY <2>1, <2>2, <2>3, <2>4, <2>5 DEF Next
<1> QED
  BY <1>1, <1>2 DEF IInv

(* The invariant holds in every reachable state.                           *)
THEOREM SpecIInv == Spec => []IInv
  BY InitIInv, NextIInv, PTL DEF Spec

(* Every variable keeps its type; in particular no cancel message is sent  *)
(* without an address (pgCancel's test of Load's second result).           *)
THEOREM TypeCorrect == Spec => []TypeOK
<1>1. IInv => TypeOK
  BY DEF IInv
<1> QED
  BY <1>1, SpecIInv, PTL

(* Every relayed session can be cancelled: Emulator.cancels holds its pair *)
(* with its own upstream between Store and the deferred Delete.            *)
THEOREM RelayedSessionsCancellable == Spec => []RelayedKeyIsMapped
<1>1. IInv => RelayedKeyIsMapped
  BY DEF IInv, MapInv
<1> QED
  BY <1>1, SpecIInv, PTL

(* Emulator.cancels holds no entry of a session that has ended.            *)
THEOREM NoStaleEntries == Spec => []MappedOnlyForLiveSessions
<1>1. IInv => MappedOnlyForLiveSessions
  BY DEF IInv, MapInv
<1> QED
  BY <1>1, SpecIInv, PTL

(* pgCancel never sends a cancel message to an upstream other than that of *)
(* the listener it came in by, nor for a session of another listener.      *)
THEOREM CancelsStayWithListener == Spec => []CancelReachesOwnUpstream
<1>1. IInv => CancelReachesOwnUpstream
  BY DEF IInv, CancelInv
<1> QED
  BY <1>1, SpecIInv, PTL

----------------------------------------------------------------------------
(* Upstream connections.                                                   *)

(* Stages of a goroutine that has no upstream connection, and those of one *)
(* whose deferred calls include its Close.                                 *)
NoUpstream == BeforeConnect \cup {"cancelLoad", "cancelDial"}
Registered == Writing \cup Mapped \cup {"store", "unwind", "cancelSend"}

(* Every return closes what there is to close: there is nothing, or Close  *)
(* is deferred, or the stage is one of the two whose failing branch closes. *)
Owned(c) ==
    /\ stage[c] \in NoUpstream => backend[c] = "none"
    /\ stage[c] \in Registered => deferred[c]
    /\ stage[c] = "done" => backend[c] \in {"none", "closed"}

AllOwned == \A c \in Conns : Owned(c)

(* The other connections do not feel a step of c.                          *)
LEMMA OwnedElsewhere ==
    ASSUME AllOwned, NEW c \in Conns, Owned(c)',
           \A d \in Conns \ {c} :
             stage'[d] = stage[d] /\ backend'[d] = backend[d] /\ deferred'[d] = deferred[d]
    PROVE  AllOwned'
  BY DEF AllOwned, Owned

(* A return is safe where there is no upstream connection or its Close is  *)
(* deferred, and anywhere after backend.Close.                             *)
LEMMA SafeReturn ==
    ASSUME TypeOK, AllOwned, NEW c \in Conns,
           \/ Return(c) /\ stage[c] \in NoUpstream \cup Registered
           \/ CloseReturn(c)
    PROVE  AllOwned'
<1>1. /\ stage'[c] = "done" /\ backend'[c] \in {"none", "closed"}
      /\ \A d \in Conns \ {c} :
           stage'[d] = stage[d] /\ backend'[d] = backend[d] /\ deferred'[d] = deferred[d]
  BY DEF TypeOK, Return, CloseReturn, Leave, Goto, AllOwned, Owned
<1>2. "done" \notin NoUpstream \cup Registered
  BY DEF NoUpstream, Registered, BeforeConnect, Reading, Writing, Mapped
<1>3. Owned(c)'
  BY <1>1, <1>2 DEF Owned
<1> QED
  BY <1>1, <1>3, OwnedElsewhere

(* A step along the way is safe that neither leaves the stages without an  *)
(* upstream connection nor enters those with a deferred Close.             *)
LEMMA SafeMove ==
    ASSUME TypeOK, AllOwned, NEW c \in Conns, NEW to \in Stages \ {"done"},
           Goto(c, to), UNCHANGED <<backend, deferred>>,
           to \in NoUpstream => stage[c] \in NoUpstream,
           to \in Registered => stage[c] \in Registered
    PROVE  AllOwned'
<1>1. /\ stage'[c] = to /\ \A d \in Conns \ {c} : stage'[d] = stage[d]
  BY DEF TypeOK, Goto
<1>2. Owned(c)'
  BY <1>1 DEF AllOwned, Owned
<1> QED
  BY <1>1, <1>2, OwnedElsewhere

(* The steps that touch the upstream connection or its deferred Close.     *)
LEMMA UpstreamStep ==
    ASSUME TypeOK, AllOwned, NEW c \in Conns,
           \/ \E k \in Keys : Connect(c, k)
           \/ Hijack(c) \/ RelayEnd(c) \/ CancelDial(c) \/ BackendLost(c)
    PROVE  AllOwned'
<1> USE DEF NoUpstream, Registered, BeforeConnect, Reading, Writing, Mapped
<1>1. CASE CancelDial(c) /\ Return(c)
  BY <1>1, SafeReturn DEF CancelDial
<1>2. ASSUME ~(CancelDial(c) /\ Return(c)) PROVE AllOwned'
  <2>1. \A d \in Conns \ {c} :
          stage'[d] = stage[d] /\ backend'[d] = backend[d] /\ deferred'[d] = deferred[d]
    BY <1>2 DEF TypeOK, Connect, Hijack, RelayEnd, CancelDial, BackendLost, Goto
  <2>2. Owned(c)'
    <3>1. CASE \E k \in Keys : Connect(c, k)
      BY <3>1 DEF Connect, Goto, TypeOK, Owned
    <3>2. CASE Hijack(c)
      BY <3>2 DEF Hijack, Goto, TypeOK, Owned
    <3>3. CASE RelayEnd(c)
      BY <3>3 DEF RelayEnd, Goto, TypeOK, AllOwned, Owned
    <3>4. CASE CancelDial(c)
      BY <1>2, <3>4 DEF CancelDial, Goto, TypeOK, Owned
    <3>5. CASE BackendLost(c)
      BY <3>5 DEF BackendLost, TypeOK, AllOwned, Owned
    <3> QED
      BY <3>1, <3>2, <3>3, <3>4, <3>5
  <2> QED
    BY <2>1, <2>2, OwnedElsewhere
<1> QED
  BY <1>1, <1>2

(* Every step of servePostgres and pgCancel is one of these.               *)
LEMMA OwnedStep == TypeOK /\ AllOwned /\ [Next]_vars => AllOwned'
<1> SUFFICES ASSUME TypeOK, AllOwned, [Next]_vars
             PROVE  AllOwned'
  OBVIOUS
<1> USE DEF NoUpstream, Registered, BeforeConnect, Stages, LoginStages, CancelStages, Reading,
        Writing, Mapped, ends
<1>1. ASSUME UNCHANGED <<stage, backend, deferred>> PROVE AllOwned'
  BY <1>1 DEF AllOwned, Owned
<1>2. ASSUME NEW c \in Conns, Dialogue(c)
      PROVE  AllOwned'
  <2>1. CASE StartupGSS(c)
    BY <1>1, <2>1 DEF StartupGSS, vars
  <2>2. CASE StartupSSL(c)
    BY <2>2, SafeReturn, SafeMove DEF StartupSSL
  <2>3. CASE StartupParams(c)
    BY <2>3, SafeReturn, SafeMove DEF StartupParams
  <2>4. CASE WriteAuthOk(c)
    BY <2>4, SafeReturn, SafeMove DEF WriteAuthOk
  <2>5. CASE Handshake(c)
    BY <2>5, SafeMove DEF Handshake
  <2>6. CASE Password(c)
    BY <2>6, SafeMove DEF Password
  <2>7. CASE WriteKey(c) \/ WriteReady(c)
    BY <2>7, SafeMove DEF WriteKey, WriteReady
  <2>8. CASE \E k \in Keys : StartupCancel(c, k)
    BY <2>8, SafeMove DEF StartupCancel
  <2>9. CASE IOFail(c)
    BY <2>9, SafeReturn DEF IOFail
  <2>10. CASE RelayEnd(c)
    BY <2>10, UpstreamStep
  <2> QED
    BY <1>2, <2>1, <2>2, <2>3, <2>4, <2>5, <2>6, <2>7, <2>8, <2>9, <2>10 DEF Dialogue
<1>3. ASSUME NEW c \in Conns, Internal(c)
      PROVE  AllOwned'
  <2>1. CASE Validate(c)
    BY <2>1, SafeReturn, SafeMove DEF Validate
  <2>2. CASE ConnectFail(c)
    BY <2>2, SafeReturn DEF ConnectFail
  <2>3. CASE Sync(c)
    BY <2>3, SafeMove DEF Sync
  <2>4. CASE SyncFail(c) \/ HijackFail(c)
    BY <2>4, SafeReturn DEF SyncFail, HijackFail
  <2>5. CASE (\E k \in Keys : Connect(c, k)) \/ Hijack(c) \/ CancelDial(c)
    BY <2>5, UpstreamStep
  <2>6. CASE Store(c)
    BY <2>6, SafeMove DEF Store
  <2>7. CASE Unmap(c)
    BY <2>7, SafeMove DEF Unmap
  <2>8. CASE Unwind(c) \/ CancelSend(c)
    BY <2>8, SafeReturn DEF Unwind, CancelSend
  <2>9. CASE CancelLoad(c)
    <3>1. Return(c) \/ (Goto(c, "cancelDial") /\ UNCHANGED ends)
      BY <2>9 DEF CancelLoad
    <3> QED
      BY <2>9, <3>1, SafeReturn, SafeMove DEF CancelLoad
  <2> QED
    BY <1>3, <2>1, <2>2, <2>3, <2>4, <2>5, <2>6, <2>7, <2>8, <2>9 DEF Internal
<1>4. ASSUME NEW c \in Conns, Environment(c) \/ \E l \in Listeners : Accept(c, l)
      PROVE  AllOwned'
  <2>1. CASE ClientGone(c) \/ Expire(c)
    BY <1>1, <2>1 DEF ClientGone, Expire
  <2>2. CASE BackendLost(c)
    BY <2>2, UpstreamStep
  <2>3. CASE \E l \in Listeners : Accept(c, l)
    BY <2>3, SafeMove DEF Accept
  <2> QED
    BY <1>4, <2>1, <2>2, <2>3 DEF Environment
<1>5. CASE Shutdown \/ UNCHANGED vars
  BY <1>1, <1>5 DEF Shutdown, vars
<1> QED
  BY <1>2, <1>3, <1>4, <1>5 DEF Next

(* No upstream connection outlives its goroutine: wherever servePostgres   *)
(* or pgCancel returns from, its own Close, a deferred one or relay's has  *)
(* closed the connection it had opened.                                    *)
THEOREM BackendsClosed == Spec => []NoBackendLeak
<1>1. Init => AllOwned
  BY DEF Init, AllOwned, Owned, Registered, Writing, Mapped
<1>2. AllOwned => NoBackendLeak
  BY DEF AllOwned, Owned, NoBackendLeak
<1> QED
  BY <1>1, <1>2, OwnedStep, TypeCorrect, PTL DEF Spec
=============================================================================
