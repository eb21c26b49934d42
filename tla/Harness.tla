------------------------------ MODULE Harness ------------------------------
(***************************************************************************)
(* The end-to-end runner: its command runs scenario files one after the    *)
(* other (cmd/db-iam-auth-emulator-proxy-e2e), and a Harness owns what a   *)
(* scenario starts: database containers, one proxy process, a temporary    *)
(* directory (internal/e2e/harness.go, services.go).                       *)
(*                                                                         *)
(* A scenario is a Starlark script that calls the builtins in any order;   *)
(* Starlark cannot catch errors, so a builtin that fails ends the script.  *)
(* Timeouts, a cancelled context and errors of docker are all the same     *)
(* here: the call fails.  The proxy process may end at any time.           *)
(***************************************************************************)
EXTENDS Naturals, Sequences, SequencesExt

CONSTANTS
    Kinds,      \* kinds of databases, "postgres" among them
    Scenarios,  \* how many scenario files the command was given
    None

ASSUME HarnessAssumption ==
    /\ "postgres" \in Kinds /\ None \notin Kinds
    /\ Scenarios \in Nat \ {0}

VARIABLES
    step,       \* what the runner does next
    scenario,   \* the scenario it is at
    starting,   \* the kind of database being started
    created,    \* containers that docker has, by name
    containers, \* h.containers, names
    databases,  \* h.databases, kinds
    proxy,      \* h.proxy is not nil
    procs,      \* proxy processes running
    killed,     \* the process was sent SIGKILL
    waiter,     \* goroutine: in cmd.Wait, or its value sent
    proxyDone,  \* the channel: values sent and not received
    root,       \* temporary directories there are
    err,        \* the scenario has an error to report
    failed      \* a scenario has failed

dbs == <<starting, created, containers, databases>>
process == <<procs, killed, waiter>>
report == <<scenario, failed>>
vars == <<step, report, dbs, proxy, process, proxyDone, root, err>>

(* Container names carry a sequence number, so no name is used twice.      *)
Name(kind) == <<scenario, kind>>

Init ==
    /\ step = "preflight" /\ scenario = 1 /\ failed = FALSE
    /\ starting = None /\ created = {} /\ containers = <<>> /\ databases = {}
    /\ proxy = FALSE /\ procs = 0 /\ killed = FALSE
    /\ waiter = "none" /\ proxyDone = 0
    /\ root = {} /\ err = FALSE

----------------------------------------------------------------------------
(* The command, and RunFile.                                               *)

(* docker info: without docker nothing is run.                             *)
Preflight ==
    /\ step = "preflight"
    /\ \/ step' = "new" /\ UNCHANGED failed
       \/ step' = "exited" /\ failed' = TRUE
    /\ UNCHANGED <<scenario, dbs, proxy, process, proxyDone, root, err>>

(* New and os.MkdirTemp, whose failure there is nothing to clean after.    *)
RunFile ==
    /\ step = "new"
    /\ \/ step' = "script" /\ root' = root \cup {scenario} /\ UNCHANGED err
       \/ step' = "returned" /\ err' = TRUE /\ UNCHANGED root
    /\ UNCHANGED <<report, dbs, proxy, process, proxyDone>>

(* A builtin fails, and with it the script: the deferred close is next.    *)
Abort == step' = "close" /\ err' = TRUE

(* The script ends, or one of its queries, commands or assertions fails.   *)
(* The ones that succeed start nothing that outlives them.                 *)
Script ==
    /\ step = "script"
    /\ \/ step' = "close" /\ UNCHANGED err
       \/ Abort
    /\ UNCHANGED <<report, dbs, proxy, process, proxyDone, root>>

(* The command goes on with the next scenario whatever came of this one,   *)
(* and reports failure in the end if any failed.                           *)
NextScenario ==
    /\ step = "returned"
    /\ failed' = (failed \/ err)
    /\ \/ /\ scenario < Scenarios
          /\ scenario' = scenario + 1 /\ step' = "new"
          /\ err' = FALSE /\ containers' = <<>> /\ databases' = {} /\ starting' = None
          /\ UNCHANGED created
       \/ /\ scenario = Scenarios
          /\ step' = "exited"
          /\ UNCHANGED <<scenario, err, dbs>>
    /\ proxy' = FALSE /\ proxyDone' = 0 /\ waiter' = "none" /\ killed' = FALSE
    /\ UNCHANGED <<procs, root>>

----------------------------------------------------------------------------
(* startDatabase.                                                          *)

(* docker run, which may fail before or after the container is there; the  *)
(* name is only noted when it succeeds.                                    *)
StartDatabase(kind) ==
    /\ step = "script"
    /\ \/ /\ kind \in databases
          /\ Abort /\ UNCHANGED <<starting, created, containers>>
       \/ /\ kind \notin databases
          /\ step' = "dbWait" /\ starting' = kind
          /\ created' = created \cup {Name(kind)}
          /\ containers' = Append(containers, Name(kind))
          /\ UNCHANGED err
       \/ /\ kind \notin databases
          /\ \/ UNCHANGED created
             \/ created' = created \cup {Name(kind)}
          /\ Abort /\ UNCHANGED <<starting, containers>>
    /\ UNCHANGED <<report, databases, proxy, process, proxyDone, root>>

(* The port is published and a probe succeeds, or FixtureTimeout passes.   *)
DatabaseReady ==
    /\ step = "dbWait"
    /\ \/ step' = "script" /\ databases' = databases \cup {starting} /\ UNCHANGED err
       \/ Abort /\ UNCHANGED databases
    /\ starting' = None
    /\ UNCHANGED <<report, created, containers, proxy, process, proxyDone, root>>

----------------------------------------------------------------------------
(* startProxy, and the process.                                            *)

HasDatabases == "postgres" \in databases /\ databases \cap {"mysql", "mariadb"} # {}

(* cmd.Start, and the goroutine in cmd.Wait.                               *)
Launch ==
    /\ step' = "poll"
    /\ proxy' = TRUE /\ procs' = procs + 1 /\ killed' = FALSE
    /\ waiter' = "wait" /\ proxyDone' = 0
    /\ UNCHANGED err

(* One proxy only, databases first; certificate, ports, files, -validate.  *)
StartProxy ==
    /\ step = "script"
    /\ \/ ~proxy /\ HasDatabases /\ Launch
       \/ Abort /\ UNCHANGED <<proxy, process, proxyDone>>
    /\ UNCHANGED <<report, dbs, root>>

(* /healthz answers.                                                       *)
PollHealthy ==
    /\ step = "poll" /\ procs > 0
    /\ step' = "script"
    /\ UNCHANGED <<report, dbs, proxy, process, proxyDone, root, err>>

(* The exit of the process is received instead; h.proxy stays set.         *)
PollExited ==
    /\ step = "poll" /\ proxyDone > 0
    /\ proxyDone' = proxyDone - 1
    /\ Abort
    /\ UNCHANGED <<report, dbs, proxy, process, root>>

(* Ten seconds have passed.                                                *)
PollTimeout ==
    /\ step = "poll"
    /\ Abort
    /\ UNCHANGED <<report, dbs, proxy, process, proxyDone, root>>

(* External: the process ends, by itself, of a signal or killed.           *)
ProcExit ==
    /\ procs > 0
    /\ procs' = procs - 1
    /\ UNCHANGED <<step, report, dbs, proxy, killed, waiter, proxyDone, root, err>>

(* h.proxyDone <- cmd.Wait()                                               *)
WaitDone ==
    /\ waiter = "wait" /\ procs = 0
    /\ waiter' = "sent" /\ proxyDone' = proxyDone + 1
    /\ UNCHANGED <<step, report, dbs, proxy, procs, killed, root, err>>

----------------------------------------------------------------------------
(* close.                                                                  *)

(* os.Interrupt, if there is a proxy; its error is ignored.                *)
Close ==
    /\ step = "close"
    /\ step' = IF proxy THEN "await" ELSE "rm"
    /\ UNCHANGED <<report, dbs, proxy, process, proxyDone, root, err>>

(* <-h.proxyDone, before or after the kill; h.proxy = nil.                 *)
AwaitDone ==
    /\ step \in {"await", "kill"} /\ proxyDone > 0
    /\ proxyDone' = proxyDone - 1
    /\ proxy' = FALSE /\ step' = "rm"
    /\ UNCHANGED <<report, dbs, process, root, err>>

(* Defect for CloseFinishes: the process is not killed.                     *)
AwaitTimeoutSpares ==
    /\ step = "await"
    /\ step' = "kill"
    /\ UNCHANGED <<report, dbs, proxy, process, proxyDone, root, err>>

(* Defect for ProxyGoneFirst: the killed process is not waited for.        *)
AwaitTimeoutHurries ==
    /\ step = "await"
    /\ step' = "rm" /\ killed' = TRUE /\ proxy' = FALSE
    /\ UNCHANGED <<report, dbs, procs, waiter, proxyDone, root, err>>

(* Five seconds have passed: Kill.                                         *)
AwaitTimeout ==
    /\ step = "await"
    /\ step' = "kill" /\ killed' = TRUE
    /\ UNCHANGED <<report, dbs, proxy, procs, waiter, proxyDone, root, err>>

(* Defect for SuccessMeansClean: the errors of close are not reported.     *)
RemoveContainerQuietly ==
    /\ step = "rm" /\ containers # <<>>
    /\ containers' = Front(containers)
    /\ \/ created' = created \ {Last(containers)}
       \/ UNCHANGED created
    /\ UNCHANGED <<step, report, starting, databases, proxy, process, proxyDone, root, err>>

(* docker rm -f of the last container; an error is kept and the next one   *)
(* tried.  (The code walks the slice by index; it is not used again.)      *)
RemoveContainer ==
    /\ step = "rm" /\ containers # <<>>
    /\ containers' = Front(containers)
    /\ \/ created' = created \ {Last(containers)} /\ UNCHANGED err
       \/ UNCHANGED created /\ err' = TRUE
    /\ UNCHANGED <<step, report, starting, databases, proxy, process, proxyDone, root>>

(* os.RemoveAll of the directory; RunFile returns the errors joined.       *)
RemoveRoot ==
    /\ step = "rm" /\ containers = <<>>
    /\ step' = "returned"
    /\ \/ root' = root \ {scenario} /\ UNCHANGED err
       \/ UNCHANGED root /\ err' = TRUE
    /\ UNCHANGED <<report, dbs, proxy, process, proxyDone>>

----------------------------------------------------------------------------

Runner ==
    \/ Preflight \/ RunFile \/ Script \/ NextScenario
    \/ \E kind \in Kinds : StartDatabase(kind)
    \/ DatabaseReady
    \/ StartProxy \/ PollHealthy \/ PollExited \/ PollTimeout
    \/ Close \/ AwaitDone \/ AwaitTimeout \/ RemoveContainer \/ RemoveRoot

Next == Runner \/ ProcExit \/ WaitDone

Spec == Init /\ [][Next]_vars

(* Every call of the runner has a time limit or waits for the process,     *)
(* scripts end, a killed process ends, and the goroutine in cmd.Wait runs. *)
Fairness ==
    /\ WF_vars(Runner) /\ WF_vars(WaitDone)
    /\ WF_vars(killed /\ ProcExit)

FairSpec == Spec /\ Fairness

----------------------------------------------------------------------------
(* Properties.                                                             *)

(* A run of the command that reports success has left no process, no       *)
(* container and no directory: what close could not remove is an error of  *)
(* the scenario, and no error is lost (harness.go:135, 270-283; main.go of *)
(* the command:53-63).                                                     *)
SuccessMeansClean ==
    step = "exited" /\ ~failed => procs = 0 /\ created = {} /\ root = {}

(* The databases are only taken away when the proxy that uses them is gone *)
(* (harness.go:260-268).                                                   *)
ProxyGoneFirst == step \in {"rm", "returned", "new", "exited"} => procs = 0

(* The exit of the proxy has been received and h.proxy is set all the same. *)
ExitTaken == proxy /\ waiter = "sent" /\ proxyDone = 0

(* However a scenario ends, with a proxy that ignores signals or was never *)
(* ready, the runner gets through close, unless startProxy has taken the   *)
(* exit of the process (harness.go:258-284).                               *)
CloseFinishes == step = "close" /\ ~ExitTaken ~> step = "returned"

(* README.md:162-164: the runner "cleans them on success or failure": once *)
(* a scenario has ended its clean-up comes to an end (harness.go:260-267;  *)
(* services.go:260).                                                       *)
CleansUp == step = "close" ~> step = "returned"
=============================================================================
