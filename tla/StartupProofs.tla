---------------------------- MODULE StartupProofs ----------------------------
(***************************************************************************)
(* Start for any configurations, options and ports: Validate's single pass *)
(* over its maps accepts exactly the configurations that are well          *)
(* configured, and what is bound, certified and routed afterwards follows  *)
(* from what it accepted.                                                  *)
(***************************************************************************)
EXTENDS Startup, SequenceTheorems, TLAPS

(* The parts of WellConfigured by position, for the first n entries, which *)
(* is what a loop has seen after n turns.                                  *)
LstOf(c, g) == CHOOSE l \in Range(c.listeners) : l.name = g

Sound(c, l) == ListenerOK(l) /\ (l.listen.port # 0 => l.listen \notin {c.http, c.https})

Unlike(l, k) == l.name # k.name /\ (l.listen.port # 0 => l.listen # k.listen)

ListenersOK(c, n) ==
    /\ \A i \in 1 .. n : Sound(c, c.listeners[i])
    /\ \A i, j \in 1 .. n : i # j => Unlike(c.listeners[i], c.listeners[j])

Complete(c, p) ==
    /\ p.id # None /\ p.backend # None
    /\ p.awsKey # None => p.awsSecret
    /\ p.ecs => p.awsKey # None
    /\ \A g \in p.grants :
         /\ \E l \in Range(c.listeners) : l.name = g
         /\ LstOf(c, g).provider # "aws" => p.email # None

ApartOn(c, g, p, q) ==
    /\ p.backend # q.backend
    /\ LstOf(c, g).provider = "azure" => p.email # q.email
    /\ LstOf(c, g).provider = "google" =>
         googleUsername(p.email, LstOf(c, g).engine) # googleUsername(q.email, LstOf(c, g).engine)

Apart(c, p, q) ==
    /\ p.id # q.id
    /\ p.awsKey # None => p.awsKey # q.awsKey
    /\ \A g \in p.grants \cap q.grants : ApartOn(c, g, p, q)

PrincipalsOK(c, n) ==
    /\ \A i \in 1 .. n : Complete(c, c.principals[i])
    /\ \A i, j \in 1 .. n : i # j => Apart(c, c.principals[i], c.principals[j])

(* Pairs of entries are pairs of positions.                                *)
LEMMA PairsByIndex ==
    ASSUME NEW S, NEW s \in Seq(S)
    PROVE  /\ DOMAIN s = 1 .. Len(s)
           /\ \A x \in DistinctPairs(s) :
                \E i, j \in 1 .. Len(s) : i # j /\ x = <<s[i], s[j]>>
           /\ \A i, j \in 1 .. Len(s) : i # j => <<s[i], s[j]>> \in DistinctPairs(s)
<1>1. DOMAIN s = 1 .. Len(s)
  OBVIOUS
<1>2. ASSUME NEW x \in DistinctPairs(s)
      PROVE  \E i, j \in 1 .. Len(s) : i # j /\ x = <<s[i], s[j]>>
  BY <1>1, <1>2 DEF DistinctPairs
<1>3. ASSUME NEW i \in 1 .. Len(s), NEW j \in 1 .. Len(s), i # j
      PROVE  <<s[i], s[j]>> \in DistinctPairs(s)
  <2>1. <<i, j>> \in {y \in (DOMAIN s) \X (DOMAIN s) : y[1] # y[2]}
    BY <1>1, <1>3
  <2> QED
    BY <2>1 DEF DistinctPairs
<1> QED
  BY <1>1, <1>2, <1>3

(* WellConfigured is the conjunction of the parts over all positions.      *)
LEMMA WellConfiguredByIndex ==
    ASSUME NEW c, IsConfig(c)
    PROVE  WellConfigured(c) <=> /\ HeaderOK(c)
                                 /\ ListenersOK(c, Len(c.listeners))
                                 /\ PrincipalsOK(c, Len(c.principals))
<1> DEFINE ls == c.listeners
           ps == c.principals
<1>1. /\ DOMAIN ls = 1 .. Len(ls) /\ DOMAIN ps = 1 .. Len(ps)
      /\ Range(ls) = {ls[i] : i \in 1 .. Len(ls)}
      /\ Range(ps) = {ps[i] : i \in 1 .. Len(ps)}
  BY PairsByIndex DEF IsConfig, Range
<1>2. WellConfigured(c) <=>
        /\ HeaderOK(c)
        /\ \A l \in Range(ls) : Sound(c, l)
        /\ \A x \in DistinctPairs(ls) : Unlike(x[1], x[2])
        /\ \A p \in Range(ps) : Complete(c, p)
        /\ \A x \in DistinctPairs(ps) : Apart(c, x[1], x[2])
  BY DEF WellConfigured, Sound, Unlike, Complete, Apart, ApartOn, LstOf
<1>3. (\A x \in DistinctPairs(ls) : Unlike(x[1], x[2]))
        <=> \A i, j \in 1 .. Len(ls) : i # j => Unlike(ls[i], ls[j])
  <2>1. /\ \A x \in DistinctPairs(ls) :
             \E i, j \in 1 .. Len(ls) : i # j /\ x = <<ls[i], ls[j]>>
        /\ \A i, j \in 1 .. Len(ls) : i # j => <<ls[i], ls[j]>> \in DistinctPairs(ls)
    BY PairsByIndex DEF IsConfig
  <2>2. ASSUME \A x \in DistinctPairs(ls) : Unlike(x[1], x[2]),
               NEW i \in 1 .. Len(ls), NEW j \in 1 .. Len(ls), i # j
        PROVE  Unlike(ls[i], ls[j])
    BY <2>1, <2>2
  <2>3. ASSUME \A i, j \in 1 .. Len(ls) : i # j => Unlike(ls[i], ls[j]),
               NEW x \in DistinctPairs(ls)
        PROVE  Unlike(x[1], x[2])
    BY <2>1, <2>3
  <2> QED
    BY <2>2, <2>3
<1>4. (\A x \in DistinctPairs(ps) : Apart(c, x[1], x[2]))
        <=> \A i, j \in 1 .. Len(ps) : i # j => Apart(c, ps[i], ps[j])
  <2>1. /\ \A x \in DistinctPairs(ps) :
             \E i, j \in 1 .. Len(ps) : i # j /\ x = <<ps[i], ps[j]>>
        /\ \A i, j \in 1 .. Len(ps) : i # j => <<ps[i], ps[j]>> \in DistinctPairs(ps)
    BY PairsByIndex DEF IsConfig
  <2>2. ASSUME \A x \in DistinctPairs(ps) : Apart(c, x[1], x[2]),
               NEW i \in 1 .. Len(ps), NEW j \in 1 .. Len(ps), i # j
        PROVE  Apart(c, ps[i], ps[j])
    BY <2>1, <2>2
  <2>3. ASSUME \A i, j \in 1 .. Len(ps) : i # j => Apart(c, ps[i], ps[j]),
               NEW x \in DistinctPairs(ps)
        PROVE  Apart(c, x[1], x[2])
    BY <2>1, <2>3
  <2> QED
    BY <2>2, <2>3
<1> QED
  BY <1>1, <1>2, <1>3, <1>4 DEF ListenersOK, PrincipalsOK

----------------------------------------------------------------------------
(* The inductive invariant of Validate: what its maps hold is what the     *)
(* loop has seen, and what the loop has seen is well configured.           *)

NamesTo(c, n) == {c.listeners[i].name : i \in 1 .. n}
ListensTo(c, n) == {c.listeners[i].listen : i \in 1 .. n}
IdsTo(c, n) == {c.principals[i].id : i \in 1 .. n}
KeysTo(c, n) == {c.principals[i].awsKey : i \in 1 .. n} \ {None}

(* The entries of Backend, Google and Azure, for a given configuration.    *)
GoogleOf(c, p) ==
    {<<g, googleUsername(p.email, LstOf(c, g).engine), p.id>> :
       g \in {x \in p.grants : LstOf(c, x).provider = "google"}}
AzureOf(c, p) == {<<g, p.email, p.id>> : g \in {x \in p.grants : LstOf(c, x).provider = "azure"}}

BackendsTo(c, n) == UNION {Backend(c.principals[i]) : i \in 1 .. n}
GooglesTo(c, n) == UNION {GoogleOf(c, c.principals[i]) : i \in 1 .. n}
AzuresTo(c, n) == UNION {AzureOf(c, c.principals[i]) : i \in 1 .. n}

Fit(c) == HeaderOK(c) /\ c.http # None

NoLookups ==
    ids = {} /\ keys = {} /\ backendUsers = {} /\ googleNames = {} /\ azureNames = {}

SeenListeners(c, n) ==
    /\ Fit(c) /\ n <= Len(c.listeners) /\ ListenersOK(c, n)
    /\ listeners = NamesTo(c, n)
    /\ addresses = ({c.http, c.https} \ {None}) \cup ListensTo(c, n)
    /\ NoLookups

SeenPrincipals(c, n) ==
    /\ Fit(c) /\ ListenersOK(c, Len(c.listeners))
    /\ listeners = NamesTo(c, Len(c.listeners))
    /\ n <= Len(c.principals) /\ PrincipalsOK(c, n)
    /\ ids = IdsTo(c, n) /\ keys = KeysTo(c, n)
    /\ backendUsers = BackendsTo(c, n)
    /\ googleNames = GooglesTo(c, n)
    /\ azureNames = AzuresTo(c, n)

Accepted(c) == WellConfigured(c) /\ c.http # None

Validating == {"header", "listeners", "principals", "loaded", "certificate", "invalid"}

ValidateInv ==
    /\ IsConfig(config) /\ turn \in Nat \ {0}
    /\ phase \in {"load", "header"} => listeners = {} /\ NoLookups
    /\ phase = "load" => ~checked
    /\ phase = "listeners" => SeenListeners(config, turn - 1)
    /\ phase = "principals" => SeenPrincipals(config, turn - 1)
    /\ phase \in {"loaded", "certificate"} => Accepted(config)
    /\ phase \in Validating /\ checked => Accepted(config)
    /\ phase = "invalid" => ~WellConfigured(config) /\ ~checked

(* The inductive invariant of the rest of Start.                           *)
Opening == {"certificate", "bind", "route", "http", "https", "running"}
Served == {"bind", "route", "http", "https", "running"}

Loopback(c) ==
    /\ \A i \in 1 .. Len(c.listeners) : loopbackAddress(c.listeners[i].listen)
    /\ loopbackAddress(c.http)
    /\ c.https # None => loopbackAddress(c.https)

Certified(l) ==
    l.listen.host \in certNames /\ (l.hostname # None => l.hostname \in certNames)

Routed(c, n) ==
    /\ DOMAIN routes = UNION {DialAddrs(c.listeners[i]) : i \in 1 .. n}
    /\ \A i \in 1 .. n : \A a \in DialAddrs(c.listeners[i]) : routes[a] = c.listeners[i].name

BindInv ==
    /\ phase \in Opening => Loopback(config)
    /\ \A a \in bound : loopbackAddress(a)
    /\ phase \notin Served => bound = {}

CertInv ==
    phase \in Served /\ ~options.certificate /\ ~config.cert =>
      /\ "127.0.0.1" \in certNames
      /\ \A i \in 1 .. Len(config.listeners) : Certified(config.listeners[i])

RouteInv ==
    /\ phase \notin {"route", "http", "https", "running", "failed"} => routes = <<>>
    /\ phase = "route" => turn - 1 <= Len(config.listeners) /\ Routed(config, turn - 1)
    /\ phase \in {"http", "https", "running"} => Routed(config, Len(config.listeners))

IInv == ValidateInv /\ BindInv /\ CertInv /\ RouteInv

----------------------------------------------------------------------------
(* One turn of a loop of Validate.                                         *)

(* The slices of a configuration are sequences.                            *)
LEMMA Slices ==
    ASSUME NEW c, IsConfig(c)
    PROVE  /\ Len(c.listeners) \in Nat /\ Len(c.principals) \in Nat
           /\ DOMAIN c.listeners = 1 .. Len(c.listeners)
           /\ Range(c.listeners) = {c.listeners[i] : i \in 1 .. Len(c.listeners)}
<1>1. c.listeners \in Seq(Range(c.listeners)) /\ c.principals \in Seq(Range(c.principals))
  BY DEF IsConfig
<1>2. Len(c.listeners) \in Nat /\ DOMAIN c.listeners = 1 .. Len(c.listeners)
  BY <1>1
<1>3. Len(c.principals) \in Nat
  BY <1>1
<1> QED
  BY <1>2, <1>3 DEF Range

(* Two principals are apart in either order.                               *)
LEMMA ApartSymmetric ==
    ASSUME NEW c, NEW p, NEW q, Apart(c, p, q)
    PROVE  Apart(c, q, p)
  BY DEF Apart, ApartOn

(* What holds of the first entries holds of fewer.                         *)
LEMMA Fewer ==
    ASSUME NEW c, NEW m \in Nat, NEW n \in Nat, m <= n
    PROVE  /\ ListenersOK(c, n) => ListenersOK(c, m)
           /\ PrincipalsOK(c, n) => PrincipalsOK(c, m)
<1>1. \A i \in 1 .. m : i \in 1 .. n
  OBVIOUS
<1> QED
  BY <1>1 DEF ListenersOK, PrincipalsOK

(* One entry more in what the maps have seen.                              *)
LEMMA SeenOneMore ==
    ASSUME NEW c, NEW n \in Nat
    PROVE  /\ NamesTo(c, n + 1) = NamesTo(c, n) \cup {c.listeners[n + 1].name}
           /\ ListensTo(c, n + 1) = ListensTo(c, n) \cup {c.listeners[n + 1].listen}
           /\ IdsTo(c, n + 1) = IdsTo(c, n) \cup {c.principals[n + 1].id}
           /\ KeysTo(c, n + 1) = KeysTo(c, n) \cup ({c.principals[n + 1].awsKey} \ {None})
           /\ BackendsTo(c, n + 1) = BackendsTo(c, n) \cup Backend(c.principals[n + 1])
           /\ GooglesTo(c, n + 1) = GooglesTo(c, n) \cup GoogleOf(c, c.principals[n + 1])
           /\ AzuresTo(c, n + 1) = AzuresTo(c, n) \cup AzureOf(c, c.principals[n + 1])
<1>1. 1 .. (n + 1) = (1 .. n) \cup {n + 1}
  OBVIOUS
<1>2. NamesTo(c, n + 1) = NamesTo(c, n) \cup {c.listeners[n + 1].name}
  BY <1>1 DEF NamesTo
<1>3. ListensTo(c, n + 1) = ListensTo(c, n) \cup {c.listeners[n + 1].listen}
  BY <1>1 DEF ListensTo
<1>4. IdsTo(c, n + 1) = IdsTo(c, n) \cup {c.principals[n + 1].id}
  BY <1>1 DEF IdsTo
<1>5. KeysTo(c, n + 1) = KeysTo(c, n) \cup ({c.principals[n + 1].awsKey} \ {None})
  BY <1>1 DEF KeysTo
<1>6. BackendsTo(c, n + 1) = BackendsTo(c, n) \cup Backend(c.principals[n + 1])
  BY <1>1 DEF BackendsTo
<1>7. GooglesTo(c, n + 1) = GooglesTo(c, n) \cup GoogleOf(c, c.principals[n + 1])
  BY <1>1 DEF GooglesTo
<1>8. AzuresTo(c, n + 1) = AzuresTo(c, n) \cup AzureOf(c, c.principals[n + 1])
  BY <1>1 DEF AzuresTo
<1> QED
  BY <1>2, <1>3, <1>4, <1>5, <1>6, <1>7, <1>8

(* A listener is accepted by its name and address in the maps exactly when *)
(* it is sound and unlike every listener before it.                        *)
LEMMA ListenerTurn ==
    ASSUME NEW c, NEW n \in Nat, ListenersOK(c, n),
           NEW l, l = c.listeners[n + 1]
    PROVE  ListenersOK(c, n + 1) <=>
             /\ ListenerOK(l)
             /\ l.name \notin NamesTo(c, n)
             /\ l.listen.port # 0 =>
                  l.listen \notin ({c.http, c.https} \ {None}) \cup ListensTo(c, n)
<1>1. 1 .. (n + 1) = (1 .. n) \cup {n + 1} /\ n + 1 \notin 1 .. n
  OBVIOUS
<1>2. ListenersOK(c, n + 1) <=> Sound(c, l) /\ \A i \in 1 .. n : Unlike(l, c.listeners[i])
  <2>1. \A i \in 1 .. n : Unlike(l, c.listeners[i]) <=> Unlike(c.listeners[i], l)
    BY DEF Unlike
  <2> QED
    BY <1>1, <2>1 DEF ListenersOK
<1>3. ListenerOK(l) => l.listen # None
  BY DEF ListenerOK
<1>4. (\A i \in 1 .. n : Unlike(l, c.listeners[i])) <=>
        /\ l.name \notin NamesTo(c, n)
        /\ l.listen.port # 0 => l.listen \notin ListensTo(c, n)
  BY DEF Unlike, NamesTo, ListensTo
<1> QED
  BY <1>2, <1>3, <1>4 DEF Sound

(* A principal is complete exactly when its grants are found among the     *)
(* names and the listeners found by name ask for no more than it has.      *)
LEMMA PrincipalComplete ==
    ASSUME IsConfig(config), ListenersOK(config, Len(config.listeners)),
           listeners = NamesTo(config, Len(config.listeners)), NEW p
    PROVE  PrincipalOK(p) <=> Complete(config, p)
<1> DEFINE ls == config.listeners
           n == Len(ls)
<1>0. Range(ls) = {ls[i] : i \in 1 .. n}
  BY Slices
<1>1. \A g : g \in listeners <=> \E l \in Range(ls) : l.name = g
  BY <1>0 DEF NamesTo
<1>2. \A g : byName(g) = LstOf(config, g)
  BY DEF byName, LstOf
<1>3. ASSUME NEW g, g \in listeners
      PROVE  LstOf(config, g).provider \in {"google", "azure"}
               <=> LstOf(config, g).provider # "aws"
  <2>1. LstOf(config, g) \in Range(config.listeners)
    BY <1>1, <1>3 DEF LstOf
  <2>2. ListenerOK(LstOf(config, g))
    BY <1>0, <2>1 DEF ListenersOK, Sound
  <2> QED
    BY <2>2 DEF ListenerOK
<1> QED
  BY <1>1, <1>2, <1>3 DEF PrincipalOK, Complete

(* The accounts of principals with other names are in the map under the    *)
(* key of an account of p exactly when they share a listener and a name.   *)
LEMMA BackendClash ==
    ASSUME NEW c, NEW n \in Nat, NEW p,
           \A i \in 1 .. n : c.principals[i].id # p.id
    PROVE  ~Clash(BackendsTo(c, n), Backend(p)) <=>
             \A i \in 1 .. n : \A g \in c.principals[i].grants \cap p.grants :
               c.principals[i].backend # p.backend
<1>1. \A q, x : x \in Backend(q) <=> \E g \in q.grants : x = <<g, q.backend, q.id>>
  BY DEF Backend
<1>2. ASSUME NEW i \in 1 .. n, NEW g, g \in c.principals[i].grants, g \in p.grants,
             c.principals[i].backend = p.backend
      PROVE  Clash(BackendsTo(c, n), Backend(p))
  <2>1. <<g, c.principals[i].backend, c.principals[i].id>> \in BackendsTo(c, n)
    BY <1>1, <1>2 DEF BackendsTo
  <2>2. <<g, p.backend, p.id>> \in Backend(p)
    BY <1>1, <1>2
  <2> QED
    BY <1>2, <2>1, <2>2 DEF Clash
<1>3. ASSUME Clash(BackendsTo(c, n), Backend(p))
      PROVE  \E i \in 1 .. n : \E g \in c.principals[i].grants \cap p.grants :
               c.principals[i].backend = p.backend
  <2>1. PICK x \in BackendsTo(c, n), y \in Backend(p) : x[1] = y[1] /\ x[2] = y[2]
    BY <1>3 DEF Clash
  <2>2. PICK i \in 1 .. n : x \in Backend(c.principals[i])
    BY <2>1 DEF BackendsTo
  <2> QED
    BY <1>1, <2>1, <2>2
<1> QED
  BY <1>2, <1>3

(* The same of Google's user names,                                        *)
LEMMA GoogleClash ==
    ASSUME NEW c, NEW n \in Nat, NEW p,
           \A i \in 1 .. n : c.principals[i].id # p.id
    PROVE  ~Clash(GooglesTo(c, n), GoogleOf(c, p)) <=>
             \A i \in 1 .. n : \A g \in c.principals[i].grants \cap p.grants :
               LstOf(c, g).provider = "google" =>
                 googleUsername(c.principals[i].email, LstOf(c, g).engine)
                   # googleUsername(p.email, LstOf(c, g).engine)
<1>1. \A q, x : x \in GoogleOf(c, q) <=>
        \E g \in q.grants : /\ LstOf(c, g).provider = "google"
                            /\ x = <<g, googleUsername(q.email, LstOf(c, g).engine), q.id>>
  BY DEF GoogleOf
<1>2. ASSUME NEW i \in 1 .. n, NEW g, g \in c.principals[i].grants, g \in p.grants,
             LstOf(c, g).provider = "google",
             googleUsername(c.principals[i].email, LstOf(c, g).engine)
               = googleUsername(p.email, LstOf(c, g).engine)
      PROVE  Clash(GooglesTo(c, n), GoogleOf(c, p))
  <2>1. <<g, googleUsername(c.principals[i].email, LstOf(c, g).engine), c.principals[i].id>>
          \in GooglesTo(c, n)
    BY <1>1, <1>2 DEF GooglesTo
  <2>2. <<g, googleUsername(p.email, LstOf(c, g).engine), p.id>> \in GoogleOf(c, p)
    BY <1>1, <1>2
  <2> QED
    BY <1>2, <2>1, <2>2 DEF Clash
<1>3. ASSUME Clash(GooglesTo(c, n), GoogleOf(c, p))
      PROVE  \E i \in 1 .. n : \E g \in c.principals[i].grants \cap p.grants :
               /\ LstOf(c, g).provider = "google"
               /\ googleUsername(c.principals[i].email, LstOf(c, g).engine)
                    = googleUsername(p.email, LstOf(c, g).engine)
  <2>1. PICK x \in GooglesTo(c, n), y \in GoogleOf(c, p) : x[1] = y[1] /\ x[2] = y[2]
    BY <1>3 DEF Clash
  <2>2. PICK i \in 1 .. n : x \in GoogleOf(c, c.principals[i])
    BY <2>1 DEF GooglesTo
  <2> QED
    BY <1>1, <2>1, <2>2
<1> QED
  BY <1>2, <1>3

(* and of Azure's.                                                         *)
LEMMA AzureClash ==
    ASSUME NEW c, NEW n \in Nat, NEW p,
           \A i \in 1 .. n : c.principals[i].id # p.id
    PROVE  ~Clash(AzuresTo(c, n), AzureOf(c, p)) <=>
             \A i \in 1 .. n : \A g \in c.principals[i].grants \cap p.grants :
               LstOf(c, g).provider = "azure" => c.principals[i].email # p.email
<1>1. \A q, x : x \in AzureOf(c, q) <=>
        \E g \in q.grants : LstOf(c, g).provider = "azure" /\ x = <<g, q.email, q.id>>
  BY DEF AzureOf
<1>2. ASSUME NEW i \in 1 .. n, NEW g, g \in c.principals[i].grants, g \in p.grants,
             LstOf(c, g).provider = "azure", c.principals[i].email = p.email
      PROVE  Clash(AzuresTo(c, n), AzureOf(c, p))
  <2>1. <<g, c.principals[i].email, c.principals[i].id>> \in AzuresTo(c, n)
    BY <1>1, <1>2 DEF AzuresTo
  <2>2. <<g, p.email, p.id>> \in AzureOf(c, p)
    BY <1>1, <1>2
  <2> QED
    BY <1>2, <2>1, <2>2 DEF Clash
<1>3. ASSUME Clash(AzuresTo(c, n), AzureOf(c, p))
      PROVE  \E i \in 1 .. n : \E g \in c.principals[i].grants \cap p.grants :
               LstOf(c, g).provider = "azure" /\ c.principals[i].email = p.email
  <2>1. PICK x \in AzuresTo(c, n), y \in AzureOf(c, p) : x[1] = y[1] /\ x[2] = y[2]
    BY <1>3 DEF Clash
  <2>2. PICK i \in 1 .. n : x \in AzureOf(c, c.principals[i])
    BY <2>1 DEF AzuresTo
  <2> QED
    BY <1>1, <2>1, <2>2
<1> QED
  BY <1>2, <1>3

(* A principal is accepted by the maps exactly when it is complete and     *)
(* apart from every principal before it.                                   *)
LEMMA PrincipalTurn ==
    ASSUME NEW c, NEW n \in Nat, PrincipalsOK(c, n),
           NEW p, p = c.principals[n + 1]
    PROVE  PrincipalsOK(c, n + 1) <=>
             /\ Complete(c, p)
             /\ p.id \notin IdsTo(c, n)
             /\ p.awsKey # None => p.awsKey \notin KeysTo(c, n)
             /\ ~Clash(BackendsTo(c, n), Backend(p))
             /\ ~Clash(GooglesTo(c, n), GoogleOf(c, p))
             /\ ~Clash(AzuresTo(c, n), AzureOf(c, p))
<1>1. 1 .. (n + 1) = (1 .. n) \cup {n + 1} /\ n + 1 \notin 1 .. n
  OBVIOUS
<1>2. PrincipalsOK(c, n + 1) <=> Complete(c, p) /\ \A i \in 1 .. n : Apart(c, c.principals[i], p)
  <2>1. \A i \in 1 .. n : Apart(c, p, c.principals[i]) <=> Apart(c, c.principals[i], p)
    BY ApartSymmetric
  <2> QED
    BY <1>1, <2>1 DEF PrincipalsOK
<1>3. p.id \notin IdsTo(c, n) <=> \A i \in 1 .. n : c.principals[i].id # p.id
  BY DEF IdsTo
<1>4. (p.awsKey # None => p.awsKey \notin KeysTo(c, n))
        <=> \A i \in 1 .. n :
              c.principals[i].awsKey # None => c.principals[i].awsKey # p.awsKey
  BY DEF KeysTo
<1>5. ASSUME \A i \in 1 .. n : c.principals[i].id # p.id
      PROVE  (\A i \in 1 .. n : Apart(c, c.principals[i], p)) <=>
               /\ p.awsKey # None => p.awsKey \notin KeysTo(c, n)
               /\ ~Clash(BackendsTo(c, n), Backend(p))
               /\ ~Clash(GooglesTo(c, n), GoogleOf(c, p))
               /\ ~Clash(AzuresTo(c, n), AzureOf(c, p))
  BY <1>4, <1>5, BackendClash, GoogleClash, AzureClash DEF Apart, ApartOn
<1>6. (\A i \in 1 .. n : Apart(c, c.principals[i], p))
        => \A i \in 1 .. n : c.principals[i].id # p.id
  BY DEF Apart
<1> QED
  BY <1>2, <1>3, <1>5, <1>6

----------------------------------------------------------------------------
(* Validate is exact.                                                      *)

(* A loop that has made no turn has seen nothing.                          *)
LEMMA NothingSeen ==
    ASSUME NEW c
    PROVE  /\ ListenersOK(c, 0) /\ PrincipalsOK(c, 0)
           /\ NamesTo(c, 0) = {} /\ ListensTo(c, 0) = {}
           /\ IdsTo(c, 0) = {} /\ KeysTo(c, 0) = {}
           /\ BackendsTo(c, 0) = {} /\ GooglesTo(c, 0) = {} /\ AzuresTo(c, 0) = {}
<1>1. 1 .. 0 = {}
  OBVIOUS
<1> QED
  BY <1>1 DEF ListenersOK, PrincipalsOK, NamesTo, ListensTo, IdsTo, KeysTo,
              BackendsTo, GooglesTo, AzuresTo

(* Filling in an empty address leaves a configuration, and one with an     *)
(* address as it was.                                                      *)
LEMMA DefaultAddress ==
    ASSUME NEW c, IsConfig(c), NEW a, NEW d, d = [c EXCEPT !.http = a]
    PROVE  /\ IsConfig(d)
           /\ d.http = a /\ d.https = c.https /\ d.cert = c.cert /\ d.key = c.key
           /\ d.listeners = c.listeners /\ d.principals = c.principals
           /\ a = c.http => d = c
<1>1. c = [http |-> c.http, https |-> c.https, cert |-> c.cert, key |-> c.key,
            listeners |-> c.listeners, principals |-> c.principals]
  BY DEF IsConfig
<1>2. d = [http |-> a, https |-> c.https, cert |-> c.cert, key |-> c.key,
            listeners |-> c.listeners, principals |-> c.principals]
  BY <1>1
<1>3. /\ d.http = a /\ d.https = c.https /\ d.cert = c.cert /\ d.key = c.key
      /\ d.listeners = c.listeners /\ d.principals = c.principals
  BY <1>2
<1>4. IsConfig(d)
  BY <1>2, <1>3 DEF IsConfig
<1> QED
  BY <1>1, <1>2, <1>3, <1>4

(* The same of the other credential endpoint.                              *)
LEMMA SetHttps ==
    ASSUME NEW c, IsConfig(c), NEW a, NEW d, d = [c EXCEPT !.https = a]
    PROVE  /\ IsConfig(d)
           /\ d.http = c.http /\ d.https = a /\ d.cert = c.cert
           /\ d.listeners = c.listeners
<1>1. c = [http |-> c.http, https |-> c.https, cert |-> c.cert, key |-> c.key,
            listeners |-> c.listeners, principals |-> c.principals]
  BY DEF IsConfig
<1>2. d = [http |-> c.http, https |-> a, cert |-> c.cert, key |-> c.key,
            listeners |-> c.listeners, principals |-> c.principals]
  BY <1>1
<1>3. /\ d.http = c.http /\ d.https = a /\ d.cert = c.cert /\ d.key = c.key
      /\ d.listeners = c.listeners /\ d.principals = c.principals
  BY <1>2
<1> QED
  BY <1>2, <1>3 DEF IsConfig

(* Configuration d is c with another address for the listener at i.        *)
Rebound(c, i, a, d) ==
    /\ IsConfig(d)
    /\ d.http = c.http /\ d.https = c.https /\ d.cert = c.cert
    /\ Len(d.listeners) = Len(c.listeners)
    /\ d.listeners[i].listen = a
    /\ d.listeners[i].hostname = c.listeners[i].hostname
    /\ \A j \in 1 .. Len(c.listeners) : j # i => d.listeners[j] = c.listeners[j]

(* Binding a listener replaces its address and nothing else.               *)
LEMMA SetListen ==
    ASSUME NEW c, IsConfig(c), NEW i \in 1 .. Len(c.listeners), NEW a,
           NEW d, d = [c EXCEPT !.listeners[i].listen = a]
    PROVE  Rebound(c, i, a, d)
<1> DEFINE s == c.listeners
           l == [s[i] EXCEPT !.listen = a]
           t == [s EXCEPT ![i] = l]
<1>1. c = [http |-> c.http, https |-> c.https, cert |-> c.cert, key |-> c.key,
            listeners |-> s, principals |-> c.principals]
  BY DEF IsConfig
<1>2. d = [http |-> c.http, https |-> c.https, cert |-> c.cert, key |-> c.key,
            listeners |-> t, principals |-> c.principals]
  BY <1>1
<1>3. /\ d.http = c.http /\ d.https = c.https /\ d.cert = c.cert /\ d.key = c.key
      /\ d.listeners = t /\ d.principals = c.principals
  BY <1>2
<1>4. s \in Seq(Range(s)) /\ Len(s) \in Nat /\ DOMAIN s = 1 .. Len(s)
  BY Slices DEF IsConfig
<1>5. s[i] \in Range(s)
  BY <1>4 DEF Range
<1>6. {"name", "listen", "hostname"} \subseteq DOMAIN s[i]
  BY <1>5 DEF IsConfig
<1>7. DOMAIN l = DOMAIN s[i] /\ l.listen = a /\ l.hostname = s[i].hostname
  BY <1>6
<1> HIDE DEF l
<1>8. t \in Seq(Range(s) \cup {l}) /\ Len(t) = Len(s)
  <2>1. s \in Seq(Range(s) \cup {l})
    BY <1>4
  <2> QED
    BY <1>4, <2>1, ExceptSeq
<1>9. DOMAIN t = 1 .. Len(s) /\ t[i] = l /\ \A j \in 1 .. Len(s) : j # i => t[j] = s[j]
  BY <1>4
<1>10. t \in Seq(Range(t))
  <2>1. t \in [1 .. Len(s) -> Range(t)]
    BY <1>9 DEF Range
  <2> HIDE DEF t, s
  <2>2. \E n \in Nat : t \in [1 .. n -> Range(t)]
    BY <1>4, <2>1
  <2> QED
    BY <2>2, SeqDef, Zenon
<1>11. \A k \in Range(t) : {"name", "listen", "hostname"} \subseteq DOMAIN k
  <2> SUFFICES ASSUME NEW j \in 1 .. Len(s)
               PROVE  {"name", "listen", "hostname"} \subseteq DOMAIN t[j]
    BY <1>9 DEF Range
  <2>1. CASE j = i
    BY <1>6, <1>7, <1>9, <2>1
  <2>2. CASE j # i
    BY <1>4, <1>9, <2>2 DEF IsConfig, Range
  <2> QED
    BY <2>1, <2>2
<1> HIDE DEF t
<1>12. IsConfig(d)
  <2>1. c.principals \in Seq(Range(c.principals))
    BY DEF IsConfig
  <2> QED
    BY <1>2, <1>3, <1>10, <1>11, <2>1 DEF IsConfig
<1> QED
  BY <1>3, <1>7, <1>8, <1>9, <1>12 DEF Rebound

(* The states Init allows.                                                 *)
LEMMA ValidateInit ==
    Init => ValidateInv
<1> SUFFICES ASSUME Init PROVE ValidateInv
  OBVIOUS
<1>1. IsConfig(config)
  BY StartupAssumption DEF Init
<1> QED
  BY <1>1 DEF Init, ValidateInv, NoLookups, Validating

(* The addresses of the credential endpoints are tested once per call.  A  *)
(* configuration that has been accepted has its address, so that nothing   *)
(* is filled in and it is accepted again.                                  *)
LEMMA HeaderStep ==
    ASSUME ValidateInv, ValidateHeader
    PROVE  ValidateInv'
<1>1. PICK a : /\ config' = [config EXCEPT !.http = a]
               /\ a # None
               /\ config.http # None => a = config.http
  <2> DEFINE port == IF options.command THEN DefaultPort ELSE 0
             d == [host |-> "127.0.0.1", port |-> port]
             a == IF config.http = None THEN d ELSE config.http
  <2>1. port \in Ports \cup {0}
    BY StartupAssumption
  <2>2. d # None
    BY <2>1, StartupAssumption
  <2>3. config' = [config EXCEPT !.http = a]
    BY DEF ValidateHeader
  <2> HIDE DEF d
  <2>4. a # None /\ (config.http # None => a = config.http)
    BY <2>2
  <2> HIDE DEF a
  <2> QED
    BY <2>3, <2>4
<1>2. IsConfig(config) /\ phase = "header" /\ listeners = {} /\ NoLookups
  BY DEF ValidateInv, ValidateHeader
<1>3. /\ IsConfig(config') /\ config'.http # None
      /\ config.http # None => config' = config
  BY <1>1, <1>2, DefaultAddress
<1>4. checked => Accepted(config) /\ config' = config
  BY <1>2, <1>3 DEF ValidateInv, Validating, Accepted
<1>5. checked' = checked /\ listeners' = {} /\ NoLookups'
  BY <1>2 DEF ValidateHeader, lookups, NoLookups
<1>6. CASE /\ HeaderOK(config')
           /\ addresses' = {config'.http, config'.https} \ {None}
           /\ Goto("listeners")
  <2>1. phase' = "listeners" /\ turn' = 1
    BY <1>6 DEF Goto
  <2>2. SeenListeners(config, 0)'
    <3>1. Len(config'.listeners) \in Nat
      BY <1>3, Slices
    <3> QED
      BY <1>3, <1>5, <1>6, <3>1, NothingSeen DEF SeenListeners, Fit
  <2> QED
    BY <1>3, <1>4, <1>5, <2>1, <2>2 DEF ValidateInv, Validating
<1>7. CASE ~HeaderOK(config') /\ Goto("invalid")
  <2>1. phase' = "invalid" /\ turn' = 1
    BY <1>7 DEF Goto
  <2>2. ~WellConfigured(config')
    BY <1>7 DEF WellConfigured
  <2>3. ~checked
    BY <1>4, <2>2 DEF Accepted
  <2> QED
    BY <1>3, <1>5, <2>1, <2>2, <2>3 DEF ValidateInv, Validating
<1> QED
  BY <1>6, <1>7 DEF ValidateHeader

(* Rejecting: a configuration whose next entry is not accepted is not well *)
(* configured, whatever comes after the entry.                             *)
LEMMA RejectStep ==
    ASSUME ValidateInv, Reject, phase \in Validating, ~WellConfigured(config)
    PROVE  ValidateInv'
<1>1. ~checked
  BY DEF ValidateInv, Accepted
<1> QED
  BY <1>1 DEF ValidateInv, Reject, Goto, Validating

(* A turn of the loop over the listeners.                                  *)
LEMMA ListenerStep ==
    ASSUME ValidateInv, ValidateListener
    PROVE  ValidateInv'
<1> DEFINE l == config.listeners[turn]
<1>1. PICK n \in Nat : turn = n + 1
  <2>1. turn \in Nat \ {0}
    BY DEF ValidateInv
  <2> QED
    BY <2>1
<1>2. /\ phase = "listeners" /\ IsConfig(config) /\ SeenListeners(config, n)
      /\ n + 1 <= Len(config.listeners) /\ Len(config.listeners) \in Nat
  BY <1>1, Slices DEF ValidateInv, ValidateListener
<1>3. ListenersOK(config, n + 1) <=> ListenerOK(l) /\ ~Duplicate(l)
  <2>1. /\ ListenersOK(config, n) /\ listeners = NamesTo(config, n)
        /\ addresses = ({config.http, config.https} \ {None}) \cup ListensTo(config, n)
    BY <1>2 DEF SeenListeners
  <2> QED
    BY <1>1, <2>1, ListenerTurn DEF Duplicate
<1>4. CASE /\ ListenerOK(l) /\ ~Duplicate(l) /\ Again
           /\ listeners' = listeners \cup {l.name}
           /\ addresses' = addresses \cup {l.listen}
           /\ UNCHANGED <<config, options, checked, lookups, opening>>
  <2>1. turn' = n + 2 /\ phase' = phase /\ turn' - 1 = n + 1
    BY <1>1, <1>4 DEF Again
  <2>2. /\ config' = config /\ checked' = checked
        /\ ids' = ids /\ keys' = keys /\ backendUsers' = backendUsers
        /\ googleNames' = googleNames /\ azureNames' = azureNames
    BY <1>4 DEF lookups
  <2>3. SeenListeners(config, n + 1)'
    <3>1. /\ Fit(config) /\ n + 1 <= Len(config.listeners) /\ ListenersOK(config, n + 1)
          /\ NoLookups
      BY <1>2, <1>3, <1>4 DEF SeenListeners
    <3>2. listeners' = NamesTo(config, n + 1)
      <4>1. NamesTo(config, n + 1) = NamesTo(config, n) \cup {l.name}
        BY <1>1, SeenOneMore
      <4>2. listeners = NamesTo(config, n)
        BY <1>2 DEF SeenListeners
      <4> HIDE DEF l
      <4> QED
        BY <1>4, <4>1, <4>2
    <3>3. addresses' = ({config.http, config.https} \ {None}) \cup ListensTo(config, n + 1)
      <4>1. ListensTo(config, n + 1) = ListensTo(config, n) \cup {l.listen}
        BY <1>1, SeenOneMore
      <4>2. addresses = ({config.http, config.https} \ {None}) \cup ListensTo(config, n)
        BY <1>2 DEF SeenListeners
      <4> HIDE DEF l
      <4> QED
        BY <1>4, <4>1, <4>2
    <3> QED
      BY <2>2, <3>1, <3>2, <3>3 DEF SeenListeners, NoLookups
  <2> QED
    BY <1>2, <2>1, <2>2, <2>3 DEF ValidateInv, Validating
<1>5. CASE ~(ListenerOK(l) /\ ~Duplicate(l)) /\ Reject
  <2>1. ~ListenersOK(config, Len(config.listeners))
    BY <1>2, <1>3, <1>5, Fewer
  <2>2. ~WellConfigured(config)
    BY <1>2, <2>1, WellConfiguredByIndex
  <2> QED
    BY <1>2, <1>5, <2>2, RejectStep DEF Validating
<1> QED
  BY <1>4, <1>5 DEF ValidateListener

(* A turn of the loop over the principals.                                 *)
LEMMA PrincipalStep ==
    ASSUME ValidateInv, ValidatePrincipal
    PROVE  ValidateInv'
<1> DEFINE p == config.principals[turn]
           ok == /\ PrincipalOK(p)
                 /\ p.id \notin ids
                 /\ p.awsKey # None => p.awsKey \notin keys
                 /\ ~Clash(backendUsers, Backend(p))
                 /\ ~Clash(googleNames, Google(p))
                 /\ ~Clash(azureNames, Azure(p))
<1>1. PICK n \in Nat : turn = n + 1
  <2>1. turn \in Nat \ {0}
    BY DEF ValidateInv
  <2> QED
    BY <2>1
<1>2. /\ phase = "principals" /\ IsConfig(config) /\ SeenPrincipals(config, n)
      /\ n + 1 <= Len(config.principals) /\ Len(config.principals) \in Nat
  BY <1>1, Slices DEF ValidateInv, ValidatePrincipal
<1>3. Google(p) = GoogleOf(config, p) /\ Azure(p) = AzureOf(config, p)
  BY DEF Google, GoogleOf, Azure, AzureOf, byName, LstOf
<1>4. PrincipalsOK(config, n + 1) <=> ok
  <2>1. /\ PrincipalsOK(config, n)
        /\ ids = IdsTo(config, n) /\ keys = KeysTo(config, n)
        /\ backendUsers = BackendsTo(config, n)
        /\ googleNames = GooglesTo(config, n) /\ azureNames = AzuresTo(config, n)
    BY <1>2 DEF SeenPrincipals
  <2>2. PrincipalOK(p) <=> Complete(config, p)
    BY <1>2, PrincipalComplete DEF SeenPrincipals
  <2>3. p = config.principals[n + 1]
    BY <1>1
  <2> HIDE DEF p
  <2> QED
    BY <1>3, <2>1, <2>2, <2>3, PrincipalTurn
<1>5. CASE /\ ok /\ Again
           /\ ids' = ids \cup {p.id}
           /\ keys' = keys \cup ({p.awsKey} \ {None})
           /\ backendUsers' = backendUsers \cup Backend(p)
           /\ googleNames' = googleNames \cup Google(p)
           /\ azureNames' = azureNames \cup Azure(p)
           /\ UNCHANGED <<config, options, checked, listeners, addresses, opening>>
  <2>1. turn' = n + 2 /\ phase' = phase /\ turn' - 1 = n + 1
    BY <1>1, <1>5 DEF Again
  <2>2. /\ config' = config /\ checked' = checked /\ listeners' = listeners
    BY <1>5
  <2>3. SeenPrincipals(config, n + 1)'
    <3>1. /\ Fit(config) /\ ListenersOK(config, Len(config.listeners))
          /\ listeners = NamesTo(config, Len(config.listeners))
      BY <1>2 DEF SeenPrincipals
    <3>2. n + 1 <= Len(config.principals) /\ PrincipalsOK(config, n + 1)
      BY <1>2, <1>4, <1>5
    <3>3. p = config.principals[n + 1]
      BY <1>1
    <3>4. ids' = IdsTo(config, n + 1) /\ keys' = KeysTo(config, n + 1)
      BY <1>2, <1>5, <3>3, SeenOneMore DEF SeenPrincipals
    <3>5. /\ backendUsers' = BackendsTo(config, n + 1)
          /\ googleNames' = GooglesTo(config, n + 1)
          /\ azureNames' = AzuresTo(config, n + 1)
      <4>1. /\ BackendsTo(config, n + 1) = BackendsTo(config, n) \cup Backend(p)
            /\ GooglesTo(config, n + 1) = GooglesTo(config, n) \cup GoogleOf(config, p)
            /\ AzuresTo(config, n + 1) = AzuresTo(config, n) \cup AzureOf(config, p)
        BY <3>3, SeenOneMore
      <4>2. /\ backendUsers = BackendsTo(config, n)
            /\ googleNames = GooglesTo(config, n) /\ azureNames = AzuresTo(config, n)
        BY <1>2 DEF SeenPrincipals
      <4> HIDE DEF p, ok
      <4> QED
        BY <1>3, <1>5, <4>1, <4>2
    <3> QED
      BY <2>2, <3>1, <3>2, <3>4, <3>5 DEF SeenPrincipals
  <2> QED
    BY <1>2, <2>1, <2>2, <2>3 DEF ValidateInv, Validating
<1>6. CASE ~ok /\ Reject
  <2>1. ~PrincipalsOK(config, Len(config.principals))
    BY <1>2, <1>4, <1>6, Fewer
  <2>2. ~WellConfigured(config)
    BY <1>2, <2>1, WellConfiguredByIndex
  <2> QED
    BY <1>2, <1>6, <2>2, RejectStep DEF Validating
<1> QED
  BY <1>5, <1>6 DEF ValidatePrincipal

(* The end of a loop: what has been seen is everything.                    *)
LEMMA LoopEndStep ==
    ASSUME ValidateInv, LoopEnd
    PROVE  ValidateInv'
<1>1. /\ config' = config /\ checked' = checked /\ listeners' = listeners
      /\ ids' = ids /\ keys' = keys /\ backendUsers' = backendUsers
      /\ googleNames' = googleNames /\ azureNames' = azureNames
  BY DEF LoopEnd, maps, lookups
<1>2. /\ IsConfig(config) /\ turn \in Nat \ {0} /\ turn - 1 \in Nat
      /\ Len(config.listeners) \in Nat /\ Len(config.principals) \in Nat
  BY Slices DEF ValidateInv
<1>3. CASE phase = "listeners" /\ turn > Len(config.listeners) /\ Goto("principals")
  <2>1. phase' = "principals" /\ turn' = 1
    BY <1>3 DEF Goto
  <2>2. SeenListeners(config, turn - 1)
    BY <1>3 DEF ValidateInv
  <2>3. turn - 1 = Len(config.listeners)
    <3>1. turn - 1 <= Len(config.listeners)
      BY <2>2 DEF SeenListeners
    <3> QED
      BY <1>2, <1>3, <3>1
  <2>4. SeenPrincipals(config, 0)'
    <3>1. /\ Fit(config) /\ ListenersOK(config, Len(config.listeners))
          /\ listeners = NamesTo(config, Len(config.listeners)) /\ NoLookups
      BY <2>2, <2>3 DEF SeenListeners
    <3> QED
      BY <1>1, <1>2, <3>1, NothingSeen DEF SeenPrincipals, NoLookups
  <2> QED
    BY <1>1, <1>2, <1>3, <2>1, <2>4 DEF ValidateInv, Validating
<1>4. CASE /\ phase = "principals" /\ turn > Len(config.principals)
           /\ Goto(IF options.command /\ ~checked THEN "loaded" ELSE "certificate")
  <2>1. phase' \in {"loaded", "certificate"} /\ turn' = 1
    BY <1>4 DEF Goto
  <2>2. SeenPrincipals(config, turn - 1)
    BY <1>4 DEF ValidateInv
  <2>3. turn - 1 = Len(config.principals)
    <3>1. turn - 1 <= Len(config.principals)
      BY <2>2 DEF SeenPrincipals
    <3> QED
      BY <1>2, <1>4, <3>1
  <2>4. Accepted(config)
    <3>1. /\ Fit(config) /\ ListenersOK(config, Len(config.listeners))
          /\ PrincipalsOK(config, Len(config.principals))
      BY <2>2, <2>3 DEF SeenPrincipals
    <3> QED
      BY <1>2, <3>1, WellConfiguredByIndex DEF Accepted, Fit
  <2> QED
    BY <1>1, <1>2, <2>1, <2>4 DEF ValidateInv, Validating
<1>5. CASE \/ phase = "bind" /\ turn > Len(config.listeners) /\ Goto("route")
           \/ phase = "route" /\ turn > Len(config.listeners) /\ Goto("http")
  BY <1>1, <1>2, <1>5 DEF ValidateInv, Validating, Goto
<1> QED
  BY <1>3, <1>4, <1>5 DEF LoopEnd

(* After Validate nothing is claimed of its maps any more.                 *)
LEMMA BindingStep ==
    ASSUME ValidateInv,
           \/ serverCertificate \/ Bind \/ BindNothing \/ Route \/ BindHttp \/ BindHttps
    PROVE  ValidateInv'
<1>1. IsConfig(config) /\ turn \in Nat \ {0}
  BY DEF ValidateInv
<1>2. /\ phase' \in {"bind", "route", "https", "running", "failed"}
      /\ turn' \in Nat \ {0}
  BY <1>1 DEF serverCertificate, Bind, BindNothing, Route, BindHttp, BindHttps,
              Fail, Goto, Again
<1>3. IsConfig(config)'
  <2>1. CASE Bind
    <3>1. CASE config' = config
      BY <1>1, <3>1
    <3>2. CASE \E got : config' = [config EXCEPT !.listeners[turn].listen = got]
      <4>1. turn \in 1 .. Len(config.listeners)
        BY <1>1, <2>1, Slices DEF Bind
      <4>2. PICK got : config' = [config EXCEPT !.listeners[turn].listen = got]
        BY <3>2
      <4>3. Rebound(config, turn, got, config')
        BY <1>1, <4>1, <4>2, SetListen, Zenon
      <4> QED
        BY <4>3 DEF Rebound
    <3> QED
      BY <2>1, <3>1, <3>2 DEF Bind, Fail
  <2>2. CASE BindHttp
    BY <1>1, <2>2, DefaultAddress DEF BindHttp, Fail
  <2>3. CASE BindHttps
    BY <1>1, <2>3, SetHttps DEF BindHttps, Fail
  <2>4. CASE serverCertificate \/ BindNothing \/ Route
    BY <1>1, <2>4 DEF serverCertificate, BindNothing, Route, Fail
  <2> QED
    BY <2>1, <2>2, <2>3, <2>4
<1> QED
  BY <1>2, <1>3 DEF ValidateInv, Validating

(* Every step preserves the invariant of Validate.                         *)
LEMMA ValidateStep ==
    ValidateInv /\ [Next]_vars => ValidateInv'
<1> SUFFICES ASSUME ValidateInv, [Next]_vars PROVE ValidateInv'
  OBVIOUS
<1>1. CASE LoadConfig
  BY <1>1 DEF ValidateInv, LoadConfig, Goto, maps, lookups, NoLookups, Validating
<1>2. CASE Loaded
  <2>1. CASE Goto("exited") /\ config' = config
    BY <2>1 DEF ValidateInv, Goto, Validating
  <2>2. CASE /\ Goto("header") /\ config' = config /\ checked' = TRUE
             /\ listeners' = {} /\ ids' = {} /\ keys' = {}
             /\ backendUsers' = {} /\ googleNames' = {} /\ azureNames' = {}
    <3>1. Accepted(config)
      BY <1>2 DEF ValidateInv, Loaded
    <3> QED
      BY <2>2, <3>1 DEF ValidateInv, Goto, NoLookups, Validating
  <2> QED
    BY <1>2, <2>1, <2>2 DEF Loaded
<1>3. CASE serverCertificate \/ Bind \/ BindNothing \/ Route \/ BindHttp \/ BindHttps
  BY <1>3, BindingStep
<1>4. CASE UNCHANGED vars
  <2>1. /\ config' = config /\ phase' = phase /\ turn' = turn /\ checked' = checked
        /\ listeners' = listeners /\ addresses' = addresses
        /\ ids' = ids /\ keys' = keys /\ backendUsers' = backendUsers
        /\ googleNames' = googleNames /\ azureNames' = azureNames
    BY <1>4 DEF vars, maps, lookups
  <2> QED
    BY <2>1 DEF ValidateInv, SeenListeners, SeenPrincipals, NoLookups
<1> QED
  BY <1>1, <1>2, <1>3, <1>4, HeaderStep, ListenerStep, PrincipalStep, LoopEndStep DEF Next

(* The invariant of Validate holds in every state.                         *)
THEOREM ValidateInvHolds == Spec => []ValidateInv
  BY ValidateInit, ValidateStep, PTL DEF Spec

(* Validate accepts the configurations that are well configured and no     *)
(* others, for any number of listeners and principals in any order, and    *)
(* Start accepts what the command accepted (config.go:81-201).             *)
THEOREM ValidatesExactly == Spec => []ValidateExact
<1>1. ValidateInv => ValidateExact
  BY DEF ValidateInv, ValidateExact, Accepted
<1> QED
  BY <1>1, ValidateInvHolds, PTL

----------------------------------------------------------------------------
(* What is bound, certified and routed.                                    *)

(* Validate opens nothing.                                                 *)
LEMMA ValidatingOpensNothing ==
    ASSUME \/ LoadConfig \/ Loaded \/ ValidateHeader \/ ValidateListener
           \/ ValidatePrincipal \/ (phase \in {"listeners", "principals"} /\ LoopEnd)
    PROVE  /\ phase \notin Served \cup {"failed"} /\ phase' \notin Served \cup {"failed"}
           /\ bound' = bound /\ routes' = routes
<1>1. CASE LoadConfig \/ Loaded
  BY <1>1 DEF LoadConfig, Loaded, Goto, Served, opening
<1>2. CASE ValidateHeader
  BY <1>2 DEF ValidateHeader, Goto, Served, opening
<1>3. CASE ValidateListener \/ ValidatePrincipal
  BY <1>3 DEF ValidateListener, ValidatePrincipal, Goto, Again, Reject, Served, opening
<1>4. CASE phase \in {"listeners", "principals"} /\ LoopEnd
  BY <1>4 DEF LoopEnd, Goto, Served, opening
<1> QED
  BY <1>1, <1>2, <1>3, <1>4

(* A configuration that Validate accepts has loopback addresses only.      *)
LEMMA AcceptedLoopback ==
    ASSUME NEW c, IsConfig(c), Accepted(c)
    PROVE  Loopback(c)
<1>1. HeaderOK(c) /\ ListenersOK(c, Len(c.listeners))
  BY WellConfiguredByIndex DEF Accepted
<1> QED
  BY <1>1 DEF Loopback, ListenersOK, Sound, ListenerOK, HeaderOK

(* What the kernel binds for a loopback address is a loopback address, of  *)
(* the same host or of the one the name stands for.                        *)
LEMMA ListenedLoopback ==
    ASSUME NEW a, loopbackAddress(a), NEW port, NEW got \in Listened(a, port)
    PROVE  loopbackAddress(got) /\ got.host \in {a.host, "127.0.0.1"}
  BY DEF Listened, Resolve, loopbackAddress

(* Every step keeps the sockets, and the addresses still to be bound,      *)
(* loopback ones; a Start that fails closes what it bound.                 *)
LEMMA BindStep ==
    ASSUME ValidateInv, ValidateInv', BindInv, [Next]_vars
    PROVE  BindInv'
<1>1. IsConfig(config) /\ turn \in Nat \ {0}
  BY DEF ValidateInv
<1>2. CASE \/ LoadConfig \/ Loaded \/ ValidateHeader \/ ValidateListener
           \/ ValidatePrincipal \/ (phase \in {"listeners", "principals"} /\ LoopEnd)
  <2>1. /\ phase \notin Served /\ phase' \notin Served /\ bound' = bound
    BY <1>2, ValidatingOpensNothing
  <2>2. phase' = "certificate" => Loopback(config)'
    BY AcceptedLoopback DEF ValidateInv
  <2> QED
    BY <2>1, <2>2 DEF BindInv, Opening, Served
<1>3. CASE Fail
  BY <1>3 DEF BindInv, Opening, Served, Fail, Goto
<1>4. CASE serverCertificate /\ ~Fail
  <2>1. phase = "certificate" /\ phase' = "bind" /\ config' = config /\ bound' = bound
    BY <1>4 DEF serverCertificate, Goto
  <2> QED
    BY <2>1 DEF BindInv, Opening, Served
<1>5. CASE Bind /\ ~Fail
  <2>1. PICK port, got :
          /\ got \in Listened(config.listeners[turn].listen, port)
          /\ bound' = bound \cup {got}
          /\ config' = [config EXCEPT !.listeners[turn].listen = got]
    BY <1>5 DEF Bind
  <2>2. phase = "bind" /\ phase' = "bind" /\ turn \in 1 .. Len(config.listeners)
    BY <1>1, <1>5, Slices DEF Bind, Again
  <2>3. Loopback(config) /\ \A a \in bound : loopbackAddress(a)
    BY <2>2 DEF BindInv, Opening
  <2>4. loopbackAddress(got)
    BY <2>1, <2>2, <2>3, ListenedLoopback DEF Loopback
  <2>5. Rebound(config, turn, got, config')
    <3>1. config' = [config EXCEPT !.listeners[turn].listen = got]
      BY <2>1
    <3>2. turn \in 1 .. Len(config.listeners)
      BY <2>2
    <3> QED
      BY <1>1, <3>1, <3>2, SetListen, Zenon
  <2>6. Loopback(config)'
    BY <2>3, <2>4, <2>5 DEF Loopback, Rebound
  <2> QED
    BY <2>1, <2>2, <2>3, <2>4, <2>6 DEF BindInv, Opening, Served
<1>6. CASE BindHttp /\ ~Fail
  <2>1. PICK port, got :
          /\ got \in Listened(config.http, port)
          /\ bound' = bound \cup {got}
          /\ config' = [config EXCEPT !.http = got]
    BY <1>6 DEF BindHttp
  <2>2. phase = "http" /\ phase' = "https"
    BY <1>6 DEF BindHttp, Goto
  <2>3. Loopback(config) /\ \A a \in bound : loopbackAddress(a)
    BY <2>2 DEF BindInv, Opening
  <2>4. loopbackAddress(got)
    BY <2>1, <2>3, ListenedLoopback DEF Loopback
  <2>5. /\ config'.http = got /\ config'.https = config.https
        /\ config'.listeners = config.listeners
    BY <1>1, <2>1, DefaultAddress
  <2> QED
    BY <2>1, <2>2, <2>3, <2>4, <2>5 DEF BindInv, Opening, Served, Loopback
<1>7. CASE BindHttps /\ ~Fail
  <2>1. phase = "https" /\ phase' = "running"
    BY <1>7 DEF BindHttps, Goto
  <2>2. Loopback(config) /\ \A a \in bound : loopbackAddress(a)
    BY <2>1 DEF BindInv, Opening
  <2>3. CASE config' = config /\ bound' = bound
    BY <2>1, <2>2, <2>3 DEF BindInv, Opening, Served
  <2>4. CASE config.https # None /\ ~(config' = config /\ bound' = bound)
    <3>1. PICK port, got :
            /\ got \in Listened(config.https, port)
            /\ bound' = bound \cup {got}
            /\ config' = [config EXCEPT !.https = got]
      BY <1>7, <2>4 DEF BindHttps, opening
    <3>2. loopbackAddress(got)
      BY <2>2, <2>4, <3>1, ListenedLoopback DEF Loopback
    <3>3. /\ config'.http = config.http /\ config'.https = got
          /\ config'.listeners = config.listeners
      BY <1>1, <3>1, SetHttps
    <3> QED
      BY <2>1, <2>2, <3>1, <3>2, <3>3 DEF BindInv, Opening, Served, Loopback
  <2> QED
    BY <1>7, <2>3, <2>4 DEF BindHttps, opening
<1>8. CASE (BindNothing \/ Route \/ (phase \in {"bind", "route"} /\ LoopEnd)) /\ ~Fail
  <2>1. /\ phase \in {"bind", "route"} /\ phase' \in {"bind", "route", "http"}
        /\ config' = config /\ bound' = bound
    BY <1>8 DEF BindNothing, Route, LoopEnd, Goto, Again, opening
  <2> QED
    BY <2>1 DEF BindInv, Opening, Served
<1>9. CASE UNCHANGED vars
  BY <1>9 DEF BindInv, vars, opening
<1>10. LoopEnd => phase \in {"listeners", "principals", "bind", "route"}
  BY DEF LoopEnd
<1> QED
  BY <1>2, <1>3, <1>4, <1>5, <1>6, <1>7, <1>8, <1>9, <1>10 DEF Next

(* Every step keeps the hosts of the listeners, as configured or as bound, *)
(* among the names of a generated certificate.                             *)
LEMMA CertStep ==
    ASSUME ValidateInv, BindInv, CertInv, [Next]_vars
    PROVE  CertInv'
<1>1. IsConfig(config) /\ turn \in Nat \ {0}
  BY DEF ValidateInv
<1>2. SUFFICES ASSUME phase' \in Served, ~options'.certificate, ~config'.cert
               PROVE  /\ "127.0.0.1" \in certNames'
                      /\ \A i \in 1 .. Len(config'.listeners) : Certified(config.listeners[i])'
  BY DEF CertInv
<1>3. ~Fail
  BY <1>2 DEF Fail, Goto, Served
<1>4. CASE serverCertificate
  <2>1. config' = config /\ options' = options
    BY <1>3, <1>4 DEF serverCertificate
  <2>2. certNames' = serverCertificateNames
    <3>1. ~(options.certificate \/ config.cert)
      BY <1>2, <2>1
    <3> QED
      BY <1>3, <1>4, <3>1 DEF serverCertificate
  <2>3. Range(config.listeners) = {config.listeners[i] : i \in 1 .. Len(config.listeners)}
    BY <1>1, Slices
  <2>4. "127.0.0.1" \in serverCertificateNames
    BY DEF serverCertificateNames
  <2>5. ASSUME NEW l \in Range(config.listeners)
        PROVE  /\ l.listen.host \in serverCertificateNames
               /\ l.hostname # None => l.hostname \in serverCertificateNames
    BY <2>5 DEF serverCertificateNames
  <2> QED
    BY <2>1, <2>2, <2>3, <2>4, <2>5 DEF Certified
<1>5. CASE Bind
  <2>1. PICK port, got :
          /\ got \in Listened(config.listeners[turn].listen, port)
          /\ config' = [config EXCEPT !.listeners[turn].listen = got]
    BY <1>3, <1>5 DEF Bind
  <2>2. /\ phase = "bind" /\ options' = options /\ certNames' = certNames
        /\ turn \in 1 .. Len(config.listeners)
    BY <1>1, <1>3, <1>5, Slices DEF Bind
  <2>3. Rebound(config, turn, got, config')
    <3>1. config' = [config EXCEPT !.listeners[turn].listen = got]
      BY <2>1
    <3>2. turn \in 1 .. Len(config.listeners)
      BY <2>2
    <3> QED
      BY <1>1, <3>1, <3>2, SetListen, Zenon
  <2>4. /\ "127.0.0.1" \in certNames
        /\ \A i \in 1 .. Len(config.listeners) : Certified(config.listeners[i])
    <3>1. ~options.certificate /\ ~config.cert
      BY <1>2, <2>2, <2>3 DEF Rebound
    <3> QED
      BY <2>2, <3>1 DEF CertInv, Served
  <2>5. got.host \in {config.listeners[turn].listen.host, "127.0.0.1"}
    <3>1. loopbackAddress(config.listeners[turn].listen)
      BY <2>2 DEF BindInv, Opening, Loopback
    <3> QED
      BY <2>1, <3>1, ListenedLoopback
  <2>6. ASSUME NEW i \in 1 .. Len(config'.listeners)
        PROVE  Certified(config.listeners[i])'
    <3>1. i \in 1 .. Len(config.listeners)
      BY <2>3, <2>6 DEF Rebound
    <3>2. CASE i = turn
      BY <2>2, <2>3, <2>4, <2>5, <3>1, <3>2 DEF Certified, Rebound
    <3>3. CASE i # turn
      BY <2>2, <2>3, <2>4, <3>1, <3>3 DEF Certified, Rebound
    <3> QED
      BY <3>2, <3>3
  <2> QED
    BY <2>2, <2>4, <2>6
<1>6. CASE \/ BindNothing \/ Route \/ BindHttp \/ BindHttps
           \/ (phase \in {"bind", "route"} /\ LoopEnd) \/ UNCHANGED vars
  <2>1. /\ phase \in Served /\ options' = options /\ certNames' = certNames
        /\ config'.listeners = config.listeners /\ config'.cert = config.cert
    <3>1. CASE BindHttp
      BY <1>1, <1>3, <3>1, DefaultAddress DEF BindHttp, Served
    <3>2. CASE BindHttps
      BY <1>1, <1>3, <3>2, SetHttps DEF BindHttps, Served, opening
    <3>3. CASE BindNothing \/ Route \/ (phase \in {"bind", "route"} /\ LoopEnd)
      BY <1>3, <3>3 DEF BindNothing, Route, LoopEnd, Served, opening
    <3>4. CASE UNCHANGED vars
      BY <1>2, <3>4 DEF vars, opening
    <3> QED
      BY <1>6, <3>1, <3>2, <3>3, <3>4
  <2>2. /\ "127.0.0.1" \in certNames
        /\ \A i \in 1 .. Len(config.listeners) : Certified(config.listeners[i])
    <3>1. ~options.certificate /\ ~config.cert
      BY <1>2, <2>1
    <3> QED
      BY <2>1, <3>1 DEF CertInv
  <2> QED
    BY <2>1, <2>2 DEF Certified
<1>7. LoopEnd => phase \in {"listeners", "principals", "bind", "route"}
  BY DEF LoopEnd
<1> QED
  BY <1>2, <1>4, <1>5, <1>6, <1>7, ValidatingOpensNothing DEF Next

(* A turn of the loop over the routes: every listener so far has its dial  *)
(* addresses, and none of them is another's.                               *)
LEMMA RouteTurn ==
    ASSUME NEW n \in Nat, Routed(config, n), NEW l, l = config.listeners[n + 1],
           ~ \E a \in DialAddrs(l) \cap DOMAIN routes : routes[a] # l.name,
           AddRoutes(l), config' = config
    PROVE  Routed(config, n + 1)'
<1> DEFINE ls == config.listeners
<1>1. 1 .. (n + 1) = (1 .. n) \cup {n + 1}
  OBVIOUS
<1>2. DOMAIN routes' = DOMAIN routes \cup DialAddrs(l)
  BY DEF AddRoutes
<1>3. \A a \in DialAddrs(l) : routes'[a] = l.name
  BY DEF AddRoutes
<1>4. \A a \in DOMAIN routes : routes'[a] = routes[a]
  BY DEF AddRoutes
<1>5. DOMAIN routes = UNION {DialAddrs(ls[i]) : i \in 1 .. n}
  BY DEF Routed
<1>6. DOMAIN routes' = UNION {DialAddrs(ls[i]) : i \in 1 .. (n + 1)}
  BY <1>1, <1>2, <1>5
<1>7. ASSUME NEW i \in 1 .. (n + 1), NEW a \in DialAddrs(ls[i])
      PROVE  routes'[a] = ls[i].name
  <2>1. CASE i = n + 1
    BY <1>3, <1>7, <2>1
  <2>2. CASE i \in 1 .. n
    <3>1. a \in DOMAIN routes
      BY <1>5, <1>7, <2>2
    <3>2. routes[a] = ls[i].name
      BY <1>7, <2>2 DEF Routed
    <3> QED
      BY <1>4, <3>1, <3>2
  <2> QED
    BY <1>1, <2>1, <2>2
<1> HIDE DEF ls
<1>8. ls' = ls
  BY DEF ls
<1>9. DOMAIN routes' = UNION {DialAddrs(ls'[i]) : i \in 1 .. (n + 1)}
  BY <1>6, <1>8
<1>10. \A i \in 1 .. (n + 1) : \A a \in DialAddrs(ls'[i]) : routes'[a] = ls'[i].name
  BY <1>7, <1>8
<1> QED
  BY <1>9, <1>10 DEF Routed, ls

(* Every step keeps the routes exact for the listeners routed so far.      *)
LEMMA RouteStep ==
    ASSUME ValidateInv, RouteInv, [Next]_vars
    PROVE  RouteInv'
<1>1. IsConfig(config) /\ turn \in Nat \ {0} /\ Len(config.listeners) \in Nat
  BY Slices DEF ValidateInv
<1>2. CASE \/ LoadConfig \/ Loaded \/ ValidateHeader \/ ValidateListener
           \/ ValidatePrincipal \/ (phase \in {"listeners", "principals"} /\ LoopEnd)
  BY <1>2, ValidatingOpensNothing DEF RouteInv, Served
<1>3. CASE Fail
  BY <1>3 DEF RouteInv, Fail, Goto
<1>4. CASE (serverCertificate \/ Bind \/ BindNothing) /\ ~Fail
  <2>1. phase \in {"certificate", "bind"} /\ phase' = "bind" /\ routes' = routes
    BY <1>4 DEF serverCertificate, Bind, BindNothing, Goto, Again, opening
  <2> QED
    BY <2>1 DEF RouteInv
<1>5. CASE Route /\ ~Fail
  <2>1. PICK n \in Nat : turn = n + 1
    BY <1>1
  <2>2. /\ phase = "route" /\ phase' = "route" /\ n + 1 <= Len(config.listeners)
        /\ turn' - 1 = n + 1 /\ config' = config
    BY <1>5, <2>1 DEF Route, Again
  <2>3. Routed(config, n)
    BY <2>1, <2>2 DEF RouteInv
  <2>4. Routed(config, n + 1)'
    BY <1>5, <2>1, <2>2, <2>3, RouteTurn DEF Route
  <2> QED
    BY <2>2, <2>4 DEF RouteInv
<1>6. CASE (BindHttp \/ BindHttps) /\ ~Fail
  <2>1. /\ phase \in {"http", "https"} /\ phase' \in {"https", "running"} /\ routes' = routes
        /\ config'.listeners = config.listeners
    <3>1. CASE BindHttp
      BY <1>1, <1>6, <3>1, DefaultAddress DEF BindHttp, Goto
    <3>2. CASE BindHttps
      BY <1>1, <1>6, <3>2, SetHttps DEF BindHttps, Goto, opening
    <3> QED
      BY <1>6, <3>1, <3>2
  <2>2. Routed(config, Len(config.listeners))
    BY <2>1 DEF RouteInv
  <2>3. Routed(config, Len(config.listeners))'
    BY <2>1, <2>2 DEF Routed
  <2> QED
    BY <2>1, <2>3 DEF RouteInv
<1>7. CASE LoopEnd /\ phase = "bind"
  <2>1. phase' = "route" /\ turn' = 1 /\ routes' = routes /\ routes = <<>> /\ config' = config
    BY <1>7 DEF LoopEnd, Goto, opening, RouteInv
  <2>2. Routed(config, 0)'
    <3>1. 1 .. 0 = {} /\ DOMAIN <<>> = {}
      OBVIOUS
    <3> QED
      BY <2>1, <3>1 DEF Routed
  <2> QED
    BY <1>1, <2>1, <2>2 DEF RouteInv
<1>8. CASE LoopEnd /\ phase = "route"
  <2>1. phase' = "http" /\ routes' = routes /\ config' = config /\ turn > Len(config.listeners)
    BY <1>8 DEF LoopEnd, Goto, opening
  <2>2. turn - 1 = Len(config.listeners) /\ Routed(config, turn - 1)
    <3>1. turn - 1 <= Len(config.listeners) /\ Routed(config, turn - 1)
      BY <1>8 DEF RouteInv
    <3> QED
      BY <1>1, <2>1, <3>1
  <2>3. Routed(config, Len(config.listeners))'
    BY <2>1, <2>2 DEF Routed
  <2> QED
    BY <2>1, <2>3 DEF RouteInv
<1>9. CASE UNCHANGED vars
  BY <1>9 DEF RouteInv, Routed, vars, opening
<1>10. LoopEnd => phase \in {"listeners", "principals", "bind", "route"}
  BY DEF LoopEnd
<1> QED
  BY <1>2, <1>3, <1>4, <1>5, <1>6, <1>7, <1>8, <1>9, <1>10 DEF Next

(* The inductive invariant holds in every state.                           *)
THEOREM InvHolds == Spec => []IInv
<1>1. Init => IInv
  <2>1. Init => ValidateInv
    BY ValidateInit
  <2>2. Init => BindInv /\ CertInv /\ RouteInv
    BY DEF Init, BindInv, CertInv, RouteInv, Opening, Served
  <2> QED
    BY <2>1, <2>2 DEF IInv
<1>2. IInv /\ [Next]_vars => IInv'
  BY ValidateStep, BindStep, CertStep, RouteStep DEF IInv
<1> QED
  BY <1>1, <1>2, PTL DEF Spec

(* Only loopback addresses are ever bound, the defaults and the ephemeral  *)
(* ports included, and a Start that fails leaves none                      *)
(* (config.go:91-96, 137-139; server.go:85-136).                           *)
THEOREM LoopbackOnly == Spec => []OnlyLoopbackBound
<1>1. IInv => OnlyLoopbackBound
  BY DEF IInv, BindInv, OnlyLoopbackBound, Served
<1> QED
  BY <1>1, InvHolds, PTL

(* In a running emulator every dial address of every listener is routed to *)
(* it and to no other, for any number of listeners and whatever ports the  *)
(* kernel gave out (server.go:113-124).                                    *)
THEOREM RoutesAreExact == Spec => []RoutesExact
<1>1. IInv => RoutesExact
  <2> SUFFICES ASSUME IInv, phase = "running" PROVE RoutesExact
    BY DEF RoutesExact
  <2>1. Range(config.listeners) = {config.listeners[i] : i \in 1 .. Len(config.listeners)}
    BY Slices DEF IInv, ValidateInv
  <2>2. Routed(config, Len(config.listeners))
    BY DEF IInv, RouteInv
  <2> QED
    BY <2>1, <2>2 DEF RoutesExact, Routed
<1> QED
  BY <1>1, InvHolds, PTL

(* A generated certificate holds for every host of a dial address          *)
(* (server.go:334-347).                                                    *)
THEOREM HostsCertified == Spec => []DialHostsCertified
<1>1. IInv => DialHostsCertified
  <2> SUFFICES ASSUME IInv, phase = "running", ~options.certificate, ~config.cert,
                      NEW a \in DOMAIN routes
               PROVE  a.host \in certNames
    BY DEF DialHostsCertified
  <2>1. Routed(config, Len(config.listeners))
    BY DEF IInv, RouteInv
  <2>2. PICK i \in 1 .. Len(config.listeners) : a \in DialAddrs(config.listeners[i])
    BY <2>1 DEF Routed
  <2>3. Certified(config.listeners[i])
    BY DEF IInv, CertInv, Served
  <2> QED
    BY <2>2, <2>3 DEF DialAddrs, Certified
<1> QED
  BY <1>1, InvHolds, PTL
=============================================================================
