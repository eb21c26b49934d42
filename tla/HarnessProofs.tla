---------------------------- MODULE HarnessProofs ----------------------------
(***************************************************************************)
(* The clean-up of the end-to-end runner, for any number of scenarios and  *)
(* any kinds of databases.  While nothing has failed, every container that *)
(* docker has is noted in h.containers; a proxy runs only while h.proxy is *)
(* set, and its exit is only ever sent when it is gone.                    *)
(***************************************************************************)
EXTENDS Harness, SequenceTheorems, TLAPS

Names == Nat \X Kinds

(* The values the variables take that the argument depends on.             *)
Types ==
    /\ scenario \in Nat /\ procs \in Nat /\ proxyDone \in Nat
    /\ proxy \in BOOLEAN /\ err \in BOOLEAN /\ failed \in BOOLEAN
    /\ containers \in Seq(Names)

(* There is a process only while h.proxy is set, and none once its exit    *)
(* has been sent.                                                          *)
ProcsOwned ==
    /\ ~proxy => procs = 0
    /\ proxyDone > 0 => procs = 0
    /\ step = "preflight" => procs = 0

(* Without an error so far, containers and directory of the scenario are   *)
(* known to close, and outside a scenario there are none.                  *)
NothingLost ==
    ~failed /\ ~err =>
      /\ created \subseteq Range(containers)
      /\ root \subseteq {scenario}
      /\ step \in {"preflight", "new", "returned", "exited"} => created = {} /\ root = {}

(* The command's report is final.                                          *)
Reported == step = "exited" /\ ~failed => ~err

IInv == Types /\ ProcsOwned /\ ProxyGoneFirst /\ NothingLost /\ Reported

(* Noting a name adds it to those close will walk over.                    *)
LEMMA AppendNames ==
    ASSUME NEW s \in Seq(Names), NEW x \in Names
    PROVE  Append(s, x) \in Seq(Names) /\ Range(Append(s, x)) = Range(s) \cup {x}
<1>1. /\ Append(s, x) \in Seq(Names) /\ Len(Append(s, x)) = Len(s) + 1 /\ Len(s) \in Nat
      /\ \A i \in 1 .. Len(s) : Append(s, x)[i] = s[i]
      /\ Append(s, x)[Len(s) + 1] = x
  BY AppendProperties
<1>2. DOMAIN s = 1 .. Len(s) /\ DOMAIN Append(s, x) = 1 .. (Len(s) + 1)
  BY <1>1
<1>3. 1 .. (Len(s) + 1) = (1 .. Len(s)) \cup {Len(s) + 1}
  BY <1>1
<1>4. Range(Append(s, x)) = Range(s) \cup {x}
  BY <1>1, <1>2, <1>3 DEF Range
<1> QED
  BY <1>1, <1>4

(* Taking the last name off leaves all the others.                         *)
LEMMA FrontNames ==
    ASSUME NEW s \in Seq(Names), s # <<>>
    PROVE  Front(s) \in Seq(Names) /\ Range(s) \ {Last(s)} \subseteq Range(Front(s))
<1>1. Len(s) \in Nat \ {0} /\ DOMAIN s = 1 .. Len(s)
  OBVIOUS
<1>2. /\ Front(s) \in Seq(Names) /\ Len(Front(s)) = Len(s) - 1
      /\ \A i \in 1 .. (Len(s) - 1) : Front(s)[i] = s[i]
  BY <1>1 DEF Front
<1>3. DOMAIN Front(s) = 1 .. (Len(s) - 1)
  BY <1>2
<1>4. ASSUME NEW i \in 1 .. Len(s), s[i] # Last(s)
      PROVE  s[i] \in Range(Front(s))
  <2>1. i \in 1 .. (Len(s) - 1)
    BY <1>1, <1>4 DEF Last
  <2> QED
    BY <1>2, <1>3, <2>1 DEF Range
<1> QED
  BY <1>1, <1>2, <1>4 DEF Range

(* Before the first scenario nothing was started.                          *)
LEMMA InitInv == Init => IInv
<1> SUFFICES ASSUME Init PROVE IInv
  OBVIOUS
<1>1. containers = <<>> /\ <<>> \in Seq(Names)
  BY DEF Init
<1>2. Types /\ ProcsOwned /\ ProxyGoneFirst
  BY <1>1 DEF Init, Types, ProcsOwned, ProxyGoneFirst
<1>3. NothingLost /\ Reported
  BY DEF Init, NothingLost, Reported
<1> QED
  BY <1>2, <1>3 DEF IInv

(* The command and RunFile: errors of a scenario end up in failed.         *)
LEMMA CommandStep ==
    ASSUME IInv, Preflight \/ RunFile \/ Script \/ NextScenario
    PROVE  IInv'
<1> USE HarnessAssumption DEF IInv, dbs, process, report
<1>1. CASE Preflight
  <2>1. Types'
    BY <1>1 DEF Preflight, Types
  <2>2. ProcsOwned' /\ ProxyGoneFirst' /\ Reported'
    BY <1>1 DEF Preflight, Types, ProcsOwned, ProxyGoneFirst, Reported
  <2>3. NothingLost'
    BY <1>1 DEF Preflight, NothingLost
  <2> QED
    BY <2>1, <2>2, <2>3
<1>2. CASE RunFile
  BY <1>2 DEF RunFile, Types, ProcsOwned, ProxyGoneFirst, NothingLost, Reported
<1>3. CASE Script
  BY <1>3 DEF Script, Abort, Types, ProcsOwned, ProxyGoneFirst, NothingLost, Reported
<1>4. CASE NextScenario
  <2>1. Types'
    <3>1. containers' \in Seq(Names)
      <4>1. containers' = <<>> \/ containers' = containers
        BY <1>4 DEF NextScenario
      <4>2. <<>> \in Seq(Names)
        OBVIOUS
      <4> QED
        BY <4>1, <4>2 DEF Types
    <3>2. scenario' \in Nat /\ procs' \in Nat /\ proxyDone' \in Nat
      BY <1>4 DEF NextScenario, Types
    <3>3. failed' \in BOOLEAN
      BY <1>4 DEF NextScenario
    <3>4. err' \in BOOLEAN /\ proxy' \in BOOLEAN
      BY <1>4 DEF NextScenario, Types
    <3> QED
      BY <3>1, <3>2, <3>3, <3>4 DEF Types
  <2>2. ProcsOwned' /\ ProxyGoneFirst' /\ Reported'
    BY <1>4 DEF NextScenario, Types, ProcsOwned, ProxyGoneFirst, Reported
  <2>3. NothingLost'
    BY <1>4 DEF NextScenario, Types, NothingLost
  <2> QED
    BY <2>1, <2>2, <2>3
<1> QED
  BY <1>1, <1>2, <1>3, <1>4

(* startDatabase: a container that docker has and the harness did not note *)
(* comes with an error.                                                    *)
LEMMA DatabaseStep ==
    ASSUME IInv, DatabaseReady \/ \E kind \in Kinds : StartDatabase(kind)
    PROVE  IInv'
<1> USE DEF IInv, dbs, process, report
<1>1. CASE DatabaseReady
  BY <1>1 DEF DatabaseReady, Abort, Types, ProcsOwned, ProxyGoneFirst, NothingLost, Reported
<1>2. CASE \E kind \in Kinds : StartDatabase(kind)
  <2>1. PICK kind \in Kinds : StartDatabase(kind)
    BY <1>2
  <2>2. /\ Append(containers, Name(kind)) \in Seq(Names)
        /\ Range(Append(containers, Name(kind))) = Range(containers) \cup {Name(kind)}
    BY AppendNames DEF Types, Name, Names
  <2>3. Types'
    BY <2>1, <2>2 DEF StartDatabase, Abort, Types
  <2>4. ProcsOwned' /\ ProxyGoneFirst' /\ Reported'
    BY <2>1 DEF StartDatabase, Abort, Types, ProcsOwned, ProxyGoneFirst, Reported
  <2>5. NothingLost'
    <3>1. CASE err'
      BY <3>1 DEF NothingLost
    <3>2. CASE ~err'
      <4>1. /\ step = "script" /\ step' = "dbWait" /\ err' = err /\ failed' = failed
            /\ created' = created \cup {Name(kind)}
            /\ containers' = Append(containers, Name(kind))
            /\ root' = root /\ scenario' = scenario
        BY <2>1, <3>2 DEF StartDatabase, Abort
      <4> QED
        BY <2>2, <4>1 DEF NothingLost
    <3> QED
      BY <3>1, <3>2
  <2> QED
    BY <2>3, <2>4, <2>5
<1> QED
  BY <1>1, <1>2

(* startProxy and the process: one process at a time.                      *)
LEMMA ProxyStep ==
    ASSUME IInv, StartProxy \/ PollHealthy \/ PollExited \/ PollTimeout \/ ProcExit \/ WaitDone
    PROVE  IInv'
<1> USE DEF IInv, dbs, process, report
<1>1. CASE StartProxy
  <2>1. Types'
    <3>1. scenario' \in Nat /\ procs' \in Nat /\ proxyDone' \in Nat
      BY <1>1 DEF StartProxy, Launch, Abort, Types, ProcsOwned
    <3>2. proxy' \in BOOLEAN
      BY <1>1 DEF StartProxy, Launch, Abort, Types
    <3>3. err' \in BOOLEAN /\ failed' = failed /\ containers' = containers
      BY <1>1 DEF StartProxy, Launch, Abort, Types
    <3> QED
      BY <3>1, <3>2, <3>3 DEF Types
  <2>2. ProcsOwned' /\ ProxyGoneFirst' /\ Reported'
    BY <1>1 DEF StartProxy, Launch, Abort, Types, ProcsOwned, ProxyGoneFirst, Reported
  <2>3. NothingLost'
    BY <1>1 DEF StartProxy, Launch, Abort, NothingLost
  <2> QED
    BY <2>1, <2>2, <2>3
<1>2. CASE PollHealthy \/ PollTimeout
  BY <1>2 DEF PollHealthy, PollTimeout, Abort, Types, ProcsOwned, ProxyGoneFirst, NothingLost, Reported
<1>3. CASE PollExited
  BY <1>3 DEF PollExited, Abort, Types, ProcsOwned, ProxyGoneFirst, NothingLost, Reported
<1>4. CASE ProcExit \/ WaitDone
  BY <1>4 DEF ProcExit, WaitDone, Types, ProcsOwned, ProxyGoneFirst, NothingLost, Reported
<1> QED
  BY <1>1, <1>2, <1>3, <1>4

(* close: the proxy first, then the containers, then the directory.        *)
LEMMA CloseStep ==
    ASSUME IInv, Close \/ AwaitDone \/ AwaitTimeout \/ RemoveContainer \/ RemoveRoot
    PROVE  IInv'
<1> USE DEF IInv, dbs, process, report
<1>1. CASE Close \/ AwaitTimeout
  BY <1>1 DEF Close, AwaitTimeout, Types, ProcsOwned, ProxyGoneFirst, NothingLost, Reported
<1>2. CASE AwaitDone
  <2>1. Types'
    <3>1. scenario' \in Nat /\ procs' \in Nat /\ proxyDone' \in Nat
      BY <1>2 DEF AwaitDone, Types, ProcsOwned
    <3>2. proxy' \in BOOLEAN
      BY <1>2 DEF AwaitDone, Types
    <3>3. err' \in BOOLEAN /\ failed' = failed /\ containers' = containers
      BY <1>2 DEF AwaitDone, Types
    <3> QED
      BY <3>1, <3>2, <3>3 DEF Types
  <2>2. ProcsOwned' /\ ProxyGoneFirst' /\ Reported'
    BY <1>2 DEF AwaitDone, Types, ProcsOwned, ProxyGoneFirst, Reported
  <2>3. NothingLost'
    BY <1>2 DEF AwaitDone, NothingLost
  <2> QED
    BY <2>1, <2>2, <2>3
<1>3. CASE RemoveContainer
  <2>1. /\ Front(containers) \in Seq(Names)
        /\ Range(containers) \ {Last(containers)} \subseteq Range(Front(containers))
    BY <1>3, FrontNames DEF RemoveContainer, Types
  <2>2. Types' /\ ProcsOwned' /\ ProxyGoneFirst' /\ Reported'
    BY <1>3, <2>1 DEF RemoveContainer, Types, ProcsOwned, ProxyGoneFirst, Reported
  <2>3. NothingLost'
    BY <1>3, <2>1 DEF RemoveContainer, NothingLost
  <2> QED
    BY <2>2, <2>3
<1>4. CASE RemoveRoot
  <2>1. Types' /\ ProcsOwned' /\ ProxyGoneFirst' /\ Reported'
    BY <1>4 DEF RemoveRoot, Types, ProcsOwned, ProxyGoneFirst, Reported
  <2>2. Range(<<>>) = {}
    BY DEF Range
  <2>3. NothingLost'
    BY <1>4, <2>2 DEF RemoveRoot, NothingLost
  <2> QED
    BY <2>1, <2>3
<1> QED
  BY <1>1, <1>2, <1>3, <1>4

(* The invariant holds in every reachable state of the runner.             *)
THEOREM InvHolds == Spec => []IInv
<1>1. IInv /\ Next => IInv'
  BY CommandStep, DatabaseStep, ProxyStep, CloseStep DEF Next, Runner
<1>2. IInv /\ UNCHANGED vars => IInv'
  BY DEF IInv, Types, ProcsOwned, ProxyGoneFirst, NothingLost, Reported, vars, dbs, process, report
<1> QED
  BY InitInv, <1>1, <1>2, PTL DEF Spec

(* The databases are only taken away when the proxy is gone, for any       *)
(* number of scenarios (harness.go:260-268).                               *)
THEOREM ProxyAlwaysGoneFirst == Spec => []ProxyGoneFirst
<1>1. IInv => ProxyGoneFirst
  BY DEF IInv
<1> QED
  BY InvHolds, <1>1, PTL

(* A run that reports success has left nothing behind, whichever of the    *)
(* scenarios started what (harness.go:135, 270-283).                       *)
THEOREM CleanOnSuccess == Spec => []SuccessMeansClean
<1>1. IInv => SuccessMeansClean
  BY DEF IInv, ProxyGoneFirst, NothingLost, Reported, SuccessMeansClean
<1> QED
  BY InvHolds, <1>1, PTL
=============================================================================
