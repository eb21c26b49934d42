------------------------------ MODULE Startup ------------------------------
(***************************************************************************)
(* What Start does before anything is served: Config.Validate with the     *)
(* maps its loops fill (iamproxy/config.go), the serving certificate, the  *)
(* binding of the endpoints, and the table of dial addresses that          *)
(* DialContext routes by (iamproxy/server.go).  One action per turn of a   *)
(* loop.  What a failed Start has to close is in Emulator.  The command    *)
(* (cmd/db-iam-auth-emulator-proxy) validates what it loads from a file,   *)
(* and calls Start, which validates it again.                              *)
(*                                                                         *)
(* An address is a record of host and port, port 0 asking for an ephemeral *)
(* one; an address that does not parse is one of no loopback host.         *)
(***************************************************************************)
EXTENDS Naturals, Sequences, SequencesExt

CONSTANTS
    Configs,    \* configurations Start may be called with
    Options,    \* records of Options.InMemory and Options.Certificate, and of
                \* command, TRUE when it is the command that calls Start
    DefaultPort,\* 8090
    Ports,      \* ports the kernel gives out, and that can be asked for
    None        \* the empty string

(* The fields of a Config, of which two are slices of structs.  What they  *)
(* hold is for Validate to find out.                                       *)
IsConfig(c) ==
    /\ c = [http |-> c.http, https |-> c.https, cert |-> c.cert, key |-> c.key,
            listeners |-> c.listeners, principals |-> c.principals]
    /\ c.listeners \in Seq(Range(c.listeners)) /\ c.principals \in Seq(Range(c.principals))
    /\ \A l \in Range(c.listeners) : {"name", "listen", "hostname"} \subseteq DOMAIN l

ASSUME StartupAssumption ==
    /\ Ports \subseteq Nat \ {0} /\ DefaultPort \in Ports
    /\ \A c \in Configs : IsConfig(c)
    /\ \A port \in Ports \cup {0} : [host |-> "127.0.0.1", port |-> port] # None

VARIABLES
    config,         \* Start's copy of the configuration
    options,
    phase,          \* where Start is
    turn,           \* index of the loop that phase names
    checked,        \* LoadConfig has accepted the configuration
    listeners,      \* Validate's maps: names of listeners,
    addresses,      \* addresses in use,
    ids, keys,      \* principals and AWS access keys,
    backendUsers, googleNames, azureNames,  \* <<listener, name, principal>>
    certNames,      \* names of the generated certificate
    bound,          \* addresses of the TCP sockets
    routes          \* e.routes

lookups == <<ids, keys, backendUsers, googleNames, azureNames>>
maps == <<listeners, addresses, lookups>>
opening == <<certNames, bound, routes>>
vars == <<config, options, phase, turn, checked, maps, opening>>

(* The kernel's answer to a name in an address.                            *)
Resolve(host) == IF host = "localhost" THEN "127.0.0.1" ELSE host

loopbackAddress(a) == a.host \in {"localhost", "127.0.0.1", "127.0.0.2", "::1"}

(* An email address with svc TRUE ends in ".gserviceaccount.com", which is *)
(* cut off; case is left out of the model.                                 *)
googleUsername(email, engine) ==
    IF engine = "mysql" THEN <<email.local>> ELSE <<email.local, email.host>>

Init ==
    /\ config \in Configs /\ options \in Options
    /\ phase = (IF options.command THEN "load" ELSE "header") /\ turn = 1 /\ checked = FALSE
    /\ listeners = {} /\ addresses = {} /\ ids = {} /\ keys = {}
    /\ backendUsers = {} /\ googleNames = {} /\ azureNames = {}
    /\ certNames = {} /\ bound = {} /\ routes = <<>>

----------------------------------------------------------------------------
(* Config.Validate.                                                        *)

Goto(p) == phase' = p /\ turn' = 1
Again == turn' = turn + 1 /\ UNCHANGED phase

(* Validate returns an error.                                              *)
Reject == Goto("invalid") /\ UNCHANGED <<config, options, checked, maps, opening>>

(* Defect for OnlyLoopbackBound: the TLS credential endpoint is not tested. *)
HeaderOKPlain(c) ==
    /\ loopbackAddress(c.http)
    /\ c.cert = c.key
    /\ c.listeners # <<>>
    /\ c.https # None => c.https.port = 0 \/ c.https # c.http

HeaderOK(c) ==
    /\ loopbackAddress(c.http)
    /\ c.https # None => loopbackAddress(c.https)
    /\ c.cert = c.key
    /\ c.listeners # <<>>
    /\ c.https # None => c.https.port = 0 \/ c.https # c.http

(* For an empty address Start fills in an ephemeral one, and Validate,     *)
(* called by LoadConfig, a fixed one.  The credential endpoints are tested *)
(* and entered.                                                            *)
ValidateHeader ==
    LET port == IF options.command THEN DefaultPort ELSE 0
        c == [config EXCEPT !.http = IF @ = None THEN [host |-> "127.0.0.1", port |-> port] ELSE @]
    IN  /\ phase = "header"
        /\ config' = c
        /\ \/ /\ HeaderOK(c)
              /\ addresses' = {c.http, c.https} \ {None}
              /\ Goto("listeners")
           \/ ~HeaderOK(c) /\ Goto("invalid") /\ UNCHANGED addresses
        /\ UNCHANGED <<options, checked, listeners, lookups, opening>>

(* What a listener must be by itself.                                      *)
ListenerOK(l) ==
    /\ l.name # None /\ l.listen # None /\ l.full
    /\ l.provider \in {"aws", "google", "azure"} /\ l.engine \in {"postgres", "mysql"}
    /\ l.provider = "aws" => l.hostname # None /\ l.region
    /\ l.provider = "azure" => l.tenant
    /\ l.upstreamTLS \in {None, "disable", "require", "verify-full"}
    /\ loopbackAddress(l.listen)

Duplicate(l) ==
    \/ l.name \in listeners
    \/ l.listen.port # 0 /\ l.listen \in addresses

(* Defect for ValidateExact: a listener's address is not entered.          *)
ValidateListenerForgets ==
    LET l == config.listeners[turn]
        ok == ListenerOK(l) /\ ~Duplicate(l)
    IN  /\ phase = "listeners" /\ turn <= Len(config.listeners)
        /\ \/ /\ ok /\ Again
              /\ listeners' = listeners \cup {l.name}
              /\ UNCHANGED <<config, options, checked, addresses, lookups, opening>>
           \/ ~ok /\ Reject

ValidateListener ==
    LET l == config.listeners[turn]
        ok == ListenerOK(l) /\ ~Duplicate(l)
    IN  /\ phase = "listeners" /\ turn <= Len(config.listeners)
        /\ \/ /\ ok /\ Again
              /\ listeners' = listeners \cup {l.name}
              /\ addresses' = addresses \cup {l.listen}
              /\ UNCHANGED <<config, options, checked, lookups, opening>>
           \/ ~ok /\ Reject

(* byName: the listener a grant names.                                     *)
byName(g) == CHOOSE l \in Range(config.listeners) : l.name = g

(* What a principal needs by itself; grants are looked up in listeners.    *)
PrincipalOK(p) ==
    /\ p.id # None /\ p.backend # None
    /\ p.awsKey # None => p.awsSecret
    /\ p.ecs => p.awsKey # None
    /\ p.grants \subseteq listeners
    /\ \A g \in p.grants : byName(g).provider \in {"google", "azure"} => p.email # None

(* The entries a principal makes under its grants.                         *)
Backend(p) == {<<g, p.backend, p.id>> : g \in p.grants}
Google(p) ==
    {<<g, googleUsername(p.email, byName(g).engine), p.id>> :
       g \in {x \in p.grants : byName(x).provider = "google"}}
Azure(p) == {<<g, p.email, p.id>> : g \in {x \in p.grants : byName(x).provider = "azure"}}

(* An entry of another principal under the same key.                       *)
Clash(map, entries) == \E x \in map, y \in entries : x[1] = y[1] /\ x[2] = y[2] /\ x[3] # y[3]

ValidatePrincipal ==
    LET p == config.principals[turn]
        ok == /\ PrincipalOK(p)
              /\ p.id \notin ids
              /\ p.awsKey # None => p.awsKey \notin keys
              /\ ~Clash(backendUsers, Backend(p))
              /\ ~Clash(googleNames, Google(p))
              /\ ~Clash(azureNames, Azure(p))
    IN  /\ phase = "principals" /\ turn <= Len(config.principals)
        /\ \/ /\ ok /\ Again
              /\ ids' = ids \cup {p.id}
              /\ keys' = keys \cup ({p.awsKey} \ {None})
              /\ backendUsers' = backendUsers \cup Backend(p)
              /\ googleNames' = googleNames \cup Google(p)
              /\ azureNames' = azureNames \cup Azure(p)
              /\ UNCHANGED <<config, options, checked, listeners, addresses, opening>>
           \/ ~ok /\ Reject

----------------------------------------------------------------------------
(* The command.                                                            *)

(* LoadConfig and ParseConfig: a file that cannot be read, an unknown      *)
(* field, no document or two; or Validate.                                 *)
LoadConfig ==
    /\ phase = "load"
    /\ Goto("header") \/ Goto("exited")
    /\ UNCHANGED <<config, options, checked, maps, opening>>

(* The command insists on a certificate, and may be asked to validate      *)
(* only; then it calls Start.  Validate's maps are new in every call.      *)
Loaded ==
    /\ phase = "loaded"
    /\ \/ Goto("exited") /\ UNCHANGED <<checked, maps>>
       \/ /\ config.cert
          /\ Goto("header") /\ checked' = TRUE
          /\ listeners' = {} /\ addresses' = {} /\ ids' = {} /\ keys' = {}
          /\ backendUsers' = {} /\ googleNames' = {} /\ azureNames' = {}
    /\ UNCHANGED <<config, options, opening>>

----------------------------------------------------------------------------
(* The rest of Start.                                                      *)

(* fail closes what was bound.                                             *)
Fail ==
    /\ Goto("failed")
    /\ bound' = {}
    /\ UNCHANGED <<config, options, checked, maps, certNames, routes>>

(* Defect for DialHostsCertified: only the addresses are certified.        *)
serverCertificateHosts ==
    {"localhost", "127.0.0.1", "::1"} \cup {l.listen.host : l \in Range(config.listeners)}

(* The names of a generated certificate.                                   *)
serverCertificateNames ==
    {"localhost", "127.0.0.1", "::1"}
    \cup {l.listen.host : l \in Range(config.listeners)}
    \cup ({l.hostname : l \in Range(config.listeners)} \ {None})

(* Options.Certificate, the files of the configuration, or a generated     *)
(* certificate; a certificate without a chain, files that cannot be read.  *)
serverCertificate ==
    /\ phase = "certificate"
    /\ \/ /\ Goto("bind")
          /\ certNames' = IF options.certificate \/ config.cert THEN {} ELSE serverCertificateNames
          /\ UNCHANGED <<config, options, checked, maps, bound, routes>>
       \/ Fail

(* net.Listen: the kernel picks a port for port 0; no address is bound     *)
(* twice, and another process may have taken it.                           *)
Listened(a, port) ==
    LET got == [host |-> Resolve(a.host), port |-> port]
    IN  IF a.port \in {0, port} /\ got \notin bound THEN {got} ELSE {}

Bind ==
    LET l == config.listeners[turn]
    IN  /\ phase = "bind" /\ turn <= Len(config.listeners) /\ ~options.inMemory
        /\ \/ \E port \in Ports : \E got \in Listened(l.listen, port) :
                /\ bound' = bound \cup {got}
                /\ config' = [config EXCEPT !.listeners[turn].listen = got]
                /\ Again
                /\ UNCHANGED <<options, checked, maps, certNames, routes>>
           \/ Fail

(* In-memory listeners bind nothing and need a fixed port.                 *)
BindNothing ==
    /\ phase = "bind" /\ turn <= Len(config.listeners) /\ options.inMemory
    /\ \/ /\ config.listeners[turn].listen.port # 0
          /\ Again
          /\ UNCHANGED <<config, options, checked, maps, opening>>
       \/ config.listeners[turn].listen.port = 0 /\ Fail

(* The addresses a listener is dialled by: its own and its hostname's.     *)
DialAddrs(l) ==
    {[host |-> h, port |-> l.listen.port] : h \in {l.listen.host, l.hostname} \ {None}}

AddRoutes(l) ==
    routes' = [a \in DOMAIN routes \cup DialAddrs(l) |->
                 IF a \in DialAddrs(l) THEN l.name ELSE routes[a]]

(* Defect for RoutesExact: a later listener takes an address over.         *)
RouteOver ==
    LET l == config.listeners[turn]
    IN  /\ phase = "route" /\ turn <= Len(config.listeners)
        /\ AddRoutes(l) /\ Again
        /\ UNCHANGED <<config, options, checked, maps, certNames, bound>>

(* The dial addresses of a listener, unless another has one of them.       *)
Route ==
    LET l == config.listeners[turn]
        shared == \E a \in DialAddrs(l) \cap DOMAIN routes : routes[a] # l.name
    IN  /\ phase = "route" /\ turn <= Len(config.listeners)
        /\ \/ /\ ~shared
              /\ AddRoutes(l) /\ Again
              /\ UNCHANGED <<config, options, checked, maps, certNames, bound>>
           \/ shared /\ Fail

BindHttp ==
    /\ phase = "http"
    /\ \/ \E port \in Ports : \E got \in Listened(config.http, port) :
            /\ bound' = bound \cup {got}
            /\ config' = [config EXCEPT !.http = got]
            /\ Goto("https")
            /\ UNCHANGED <<options, checked, maps, certNames, routes>>
       \/ Fail

(* The TLS credential endpoint if there is one; then newService and serve. *)
BindHttps ==
    /\ phase = "https"
    /\ \/ /\ config.https # None
          /\ \E port \in Ports : \E got \in Listened(config.https, port) :
               /\ bound' = bound \cup {got}
               /\ config' = [config EXCEPT !.https = got]
          /\ Goto("running")
          /\ UNCHANGED <<options, checked, maps, certNames, routes>>
       \/ /\ config.https = None
          /\ Goto("running")
          /\ UNCHANGED <<config, options, checked, maps, opening>>
       \/ Fail

(* A loop has ended.                                                       *)
LoopEnd ==
    /\ \/ phase = "listeners" /\ turn > Len(config.listeners) /\ Goto("principals")
       \/ phase = "principals" /\ turn > Len(config.principals)
          /\ Goto(IF options.command /\ ~checked THEN "loaded" ELSE "certificate")
       \/ phase = "bind" /\ turn > Len(config.listeners) /\ Goto("route")
       \/ phase = "route" /\ turn > Len(config.listeners) /\ Goto("http")
    /\ UNCHANGED <<config, options, checked, maps, opening>>

Next ==
    \/ LoadConfig \/ Loaded
    \/ ValidateHeader \/ ValidateListener \/ ValidatePrincipal \/ LoopEnd
    \/ serverCertificate \/ Bind \/ BindNothing \/ Route \/ BindHttp \/ BindHttps

Spec == Init /\ [][Next]_vars

----------------------------------------------------------------------------
(* Properties.                                                             *)

DistinctPairs(s) ==
    {<<s[x[1]], s[x[2]]>> : x \in {y \in (DOMAIN s) \X (DOMAIN s) : y[1] # y[2]}}

(* What a configuration has to be, stated over pairs of entries instead of *)
(* loops and maps: complete listeners and principals, names and fixed      *)
(* addresses used once, grants for listeners there are, and on each        *)
(* listener no backend account and no cloud user name of two principals.   *)
WellConfigured(c) ==
    LET ls == Range(c.listeners)
        lst(g) == CHOOSE l \in ls : l.name = g
    IN  /\ HeaderOK(c)
        /\ \A l \in ls : ListenerOK(l) /\ (l.listen.port # 0 => l.listen \notin {c.http, c.https})
        /\ \A x \in DistinctPairs(c.listeners) :
             /\ x[1].name # x[2].name
             /\ x[1].listen.port # 0 => x[1].listen # x[2].listen
        /\ \A p \in Range(c.principals) :
             /\ p.id # None /\ p.backend # None
             /\ p.awsKey # None => p.awsSecret
             /\ p.ecs => p.awsKey # None
             /\ \A g \in p.grants :
                  /\ \E l \in ls : l.name = g
                  /\ lst(g).provider # "aws" => p.email # None
        /\ \A x \in DistinctPairs(c.principals) :
             LET p == x[1]
                 q == x[2]
             IN  /\ p.id # q.id
                 /\ p.awsKey # None => p.awsKey # q.awsKey
                 /\ \A g \in p.grants \cap q.grants :
                      /\ p.backend # q.backend
                      /\ lst(g).provider = "azure" => p.email # q.email
                      /\ lst(g).provider = "google" =>
                           googleUsername(p.email, lst(g).engine)
                             # googleUsername(q.email, lst(g).engine)

(* Validate's single pass over its maps accepts the configurations that    *)
(* are well configured and no others, whatever the order of the entries    *)
(* (config.go:87-201).  What the command has found valid, Start finds      *)
(* valid too: Validate only fills in a default, and keeps nothing          *)
(* (config.go:81-90; main.go of the command:19-36).                        *)
ValidateExact ==
    /\ phase \in {"loaded", "certificate"} => WellConfigured(config)
    /\ phase = "invalid" => ~WellConfigured(config) /\ ~checked

(* In a running emulator every address of a listener, and its hostname     *)
(* with the same port, is routed to it and belongs to no other listener,   *)
(* whatever ports the kernel gave out.  AWS tokens, which name a host and  *)
(* a port, then name one listener (server.go:113-124; README.md:129-131).  *)
RoutesExact ==
    phase = "running" =>
      /\ DOMAIN routes = UNION {DialAddrs(l) : l \in Range(config.listeners)}
      /\ \A l \in Range(config.listeners) : \A a \in DialAddrs(l) : routes[a] = l.name

(* A generated certificate holds for every host a listener can be dialled  *)
(* by, also after binding has replaced the configured address              *)
(* (server.go:334-347; README.md:120-123).                                 *)
DialHostsCertified ==
    phase = "running" /\ ~options.certificate /\ ~config.cert =>
      \A a \in DOMAIN routes : a.host \in certNames

(* Every socket is bound to a loopback address, the defaults included, and *)
(* a Start that fails has none left (ARCHITECTURE.md:18; config.go:91-96,  *)
(* 137-139).                                                               *)
OnlyLoopbackBound ==
    /\ \A a \in bound : loopbackAddress(a)
    /\ phase \in {"invalid", "failed"} => bound = {}
=============================================================================
