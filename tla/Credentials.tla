---------------------------- MODULE Credentials ----------------------------
(***************************************************************************)
(* The credential service (iamproxy/identity.go, aws.go, http.go): tokens  *)
(* are issued by the mock endpoints, or signed by the client itself with   *)
(* fixture AWS keys, kept by clients, and presented at a login, where      *)
(* service.Validate decides.  Handlers run in goroutines of their own but  *)
(* touch the shared maps in single critical sections, so a request is one  *)
(* action.                                                                 *)
(*                                                                         *)
(* Tokens are records of what validation reads.  sig says whether the      *)
(* signature matches the rest; clients may present altered copies.  The    *)
(* endpoints that describe the emulator (health, discovery, ECS task       *)
(* metadata, lists of roles) neither read nor change this state.           *)
(***************************************************************************)
EXTENDS Naturals, Sequences, FiniteSets, SequencesExt

CONSTANTS
    PrinOrder,      \* Config.Principals, as a sequence of IDs
    ListenerOrder,  \* Config.Listeners, as a sequence of names
    Provider,       \* Listener.Provider
    Engine,         \* Listener.Engine
    Tenant,         \* Listener.Tenant, or None
    Email,          \* Principal.Email: [local, host, svc], or None
    Groups,         \* Principal.Groups
    Grants,         \* Principal.Grants
    BackendUser,    \* Principal.BackendUser
    AwsKey,         \* TRUE for a principal with an AWS key pair
    Fixtures,       \* what may be configured as fixture credentials: records
                    \* of functions refresh (GoogleRefreshToken), id and secret
                    \* (AzureClientID, AzureClientSecret), ecs
                    \* (ECSAuthorizationToken), each giving None if unset
    AwsUsers,       \* database users of AWS listeners
    Hour,           \* life of Google and Azure tokens
    AwsLife,        \* the 900 s an AWS token may last
    Skew,           \* the 5 minutes an AWS token may come from the future
    None,
    MaxTime,        \* bound: the clock stops here
    MaxIssued,      \* bound: tokens issued, of any kind
    MaxSessions     \* bound: sessions recorded

Prins == Range(PrinOrder)
Listeners == Range(ListenerOrder)

(* googleUsername: lower case, then the local part for MySQL, or the       *)
(* address without ".gserviceaccount.com".  A host with svc TRUE has that  *)
(* suffix; case is left out of the model.                                  *)
googleUsername(email, engine) ==
    IF engine = "mysql" THEN <<email.local>> ELSE <<email.local, email.host>>

azureUsername(email) == <<email.local, email.host, email.svc>>

Granted(p, l) == l \in Grants[p]

(* The part of Config.Validate that keeps principals apart on a listener.  *)
(* IDs and AWS keys are unique; refresh tokens, client IDs and client      *)
(* secrets need not be.                                                    *)
ConfigValid ==
    /\ \A i, j \in 1 .. Len(PrinOrder) : PrinOrder[i] = PrinOrder[j] => i = j
    /\ \A p \in Prins : Grants[p] \subseteq Listeners
    /\ \A p \in Prins, l \in Listeners :
         Granted(p, l) /\ Provider[l] \in {"google", "azure"} => Email[p] # None
    /\ \A p, q \in Prins, l \in Listeners :
         p # q /\ Granted(p, l) /\ Granted(q, l) =>
           /\ BackendUser[p] # BackendUser[q]
           /\ Provider[l] = "google" =>
                googleUsername(Email[p], Engine[l]) # googleUsername(Email[q], Engine[l])
           /\ Provider[l] = "azure" => Email[p] # Email[q]

ASSUME CredentialsAssumption ==
    /\ ConfigValid
    /\ Hour \in Nat \ {0} /\ AwsLife \in Nat \ {0} /\ Skew \in Nat
    /\ MaxTime \in Nat /\ MaxIssued \in Nat /\ MaxSessions \in Nat

VARIABLES
    now,            \* service.Now
    googleTokens,   \* service.googleTokens: records with the token as id
    jwts,           \* Azure tokens signed so far
    fixture,        \* the fixture credentials of the configuration
    awsKeys,        \* principals whose AWS key pair was given to a client
    awsTokens,      \* AWS tokens signed by clients so far
    imds,           \* mockHTTP.imds: records of token and expiry
    imdsIssued,     \* history: every IMDSv2 token with its expiry
    sessions        \* logins that Validate let through

vars == <<now, fixture, googleTokens, jwts, awsKeys, awsTokens, imds, imdsIssued, sessions>>

(* The request's scope and the registry's: two are accepted.               *)
SqlScopes == {"sqlservice.login", "cloud-platform"}
Scopes == SqlScopes \cup {"other"}

(* azureAudience and the management audiences azureIMDS also signs for.    *)
Audiences == {"ossrdbms", "management"}

Users ==
    {googleUsername(Email[p], e) : p \in {q \in Prins : Email[q] # None}, e \in {"mysql", "postgres"}}
    \cup {azureUsername(Email[p]) : p \in {q \in Prins : Email[q] # None}}
    \cup (UNION {Groups[p] : p \in Prins})
    \cup AwsUsers

Issued ==
    Cardinality(googleTokens) + Cardinality(jwts) + Cardinality(awsTokens) + Cardinality(imdsIssued)

Init ==
    /\ now = 0
    /\ fixture \in Fixtures
    /\ awsKeys = {}
    /\ googleTokens = {} /\ jwts = {} /\ awsTokens = {}
    /\ imds = {} /\ imdsIssued = {}
    /\ sessions = {}

----------------------------------------------------------------------------
(* Google.                                                                 *)

(* A fresh random token, valid for an hour, enters the registry; nothing   *)
(* ever leaves it.                                                         *)
googleIssue(p, scope) ==
    /\ Issued < MaxIssued
    /\ googleTokens' = googleTokens \cup
         {[id |-> Cardinality(googleTokens) + 1, prin |-> p, scope |-> scope, exp |-> now + Hour]}
    /\ UNCHANGED <<now, fixture, jwts, awsKeys, awsTokens, imds, imdsIssued, sessions>>

(* The metadata server serves any principal with an email.                 *)
googleMetadata(p, scope) ==
    /\ Email[p] # None
    /\ scope \in SqlScopes
    /\ googleIssue(p, scope)

(* The OAuth endpoint serves the first principal with that refresh token.  *)
googleOAuth(token, scope) ==
    \E i \in DOMAIN PrinOrder :
      /\ token # None /\ fixture.refresh[PrinOrder[i]] = token
      /\ \A j \in 1 .. i - 1 : fixture.refresh[PrinOrder[j]] # token
      /\ scope \in SqlScopes
      /\ googleIssue(PrinOrder[i], scope)

validateGoogle(l, user, t) ==
    /\ t \in googleTokens
    /\ now < t.exp
    /\ t.scope \in SqlScopes
    /\ Email[t.prin] # None /\ user = googleUsername(Email[t.prin], Engine[l])

----------------------------------------------------------------------------
(* Azure.                                                                  *)

(* The tenant of the first Azure listener the principal has a grant for.   *)
azureTenantFor(p) ==
    LET granted == SelectSeq(ListenerOrder, LAMBDA l : Provider[l] = "azure" /\ Granted(p, l))
    IN  IF granted = <<>> THEN None ELSE Tenant[Head(granted)]

azureIssueForAudience(p, tenant, aud) ==
    /\ Issued < MaxIssued
    /\ jwts' = jwts \cup
         {[tid |-> tenant, aud |-> aud, oid |-> p, upn |-> Email[p], groups |-> Groups[p],
           nbf |-> now, exp |-> now + Hour, sig |-> TRUE]}
    /\ UNCHANGED <<now, fixture, googleTokens, awsKeys, awsTokens, imds, imdsIssued, sessions>>

(* The managed identity endpoint: without a client ID there must be one    *)
(* candidate; with one, the last principal that has it is served.          *)
azureIMDS(id, aud) ==
    LET candidate(i) == LET c == fixture.id[PrinOrder[i]] IN c # None /\ id \in {None, c}
    IN  \E i \in DOMAIN PrinOrder :
          /\ candidate(i)
          /\ \A j \in DOMAIN PrinOrder : (IF id = None THEN j # i ELSE j > i) => ~candidate(j)
          /\ azureTenantFor(PrinOrder[i]) # None
          /\ azureIssueForAudience(PrinOrder[i], azureTenantFor(PrinOrder[i]), aud)

(* The client credentials endpoint: the first principal with that client   *)
(* ID whose secret was presented and whose tenant the path names.  A path  *)
(* always names one.                                                       *)
azureOAuth(id, secret, tenant) ==
    LET matches(i) == /\ fixture.id[PrinOrder[i]] = id
                      /\ secret # None /\ fixture.secret[PrinOrder[i]] = secret
                      /\ azureTenantFor(PrinOrder[i]) = tenant
    IN  /\ tenant # None
        /\ \E i \in DOMAIN PrinOrder :
             /\ matches(i) /\ \A j \in 1 .. i - 1 : ~matches(j)
             /\ azureIssueForAudience(PrinOrder[i], tenant, "ossrdbms")

(* Defect for KeepsPolicy: the tenant of the listener is not looked at.    *)
validateAzureAnyTenant(l, user, t) ==
    /\ t.sig
    /\ t.aud = "ossrdbms"
    /\ t.nbf <= now /\ now < t.exp
    /\ t.oid \in Prins /\ t.upn = Email[t.oid]
    /\ \/ user = azureUsername(Email[t.oid])
       \/ user \in Groups[t.oid] \cap t.groups

(* Defect for EntitlementsHonoured: a token does not work in the second it  *)
(* was issued.                                                              *)
validateAzureLater(l, user, t) ==
    /\ t.sig
    /\ t.aud = "ossrdbms" /\ t.tid = Tenant[l]
    /\ t.nbf < now /\ now < t.exp
    /\ t.oid \in Prins /\ t.upn = Email[t.oid]
    /\ \/ user = azureUsername(Email[t.oid])
       \/ user \in Groups[t.oid] \cap t.groups

(* Signature, audience, issuer and tenant, times, principal and name.      *)
validateAzure(l, user, t) ==
    /\ t.sig
    /\ t.aud = "ossrdbms" /\ t.tid = Tenant[l]
    /\ t.nbf <= now /\ now < t.exp
    /\ t.oid \in Prins /\ t.upn = Email[t.oid]
    /\ \/ user = azureUsername(Email[t.oid])
       \/ user \in Groups[t.oid] \cap t.groups

----------------------------------------------------------------------------
(* AWS.                                                                    *)

(* Defect for ImdsTokensHonoured: issuing a token drops the older ones.    *)
awsIMDSTokenSingle(ttl) ==
    LET t == [id |-> Cardinality(imdsIssued) + 1, exp |-> now + ttl]
    IN  /\ Issued < MaxIssued
        /\ imds' = {t}
        /\ imdsIssued' = imdsIssued \cup {t}
        /\ UNCHANGED <<now, fixture, googleTokens, jwts, awsKeys, awsTokens, sessions>>

(* awsIMDSToken: expired tokens are dropped, a fresh one is added.         *)
awsIMDSToken(ttl) ==
    LET t == [id |-> Cardinality(imdsIssued) + 1, exp |-> now + ttl]
    IN  /\ Issued < MaxIssued
        /\ imds' = {o \in imds : now < o.exp} \cup {t}
        /\ imdsIssued' = imdsIssued \cup {t}
        /\ UNCHANGED <<now, fixture, googleTokens, jwts, awsKeys, awsTokens, sessions>>

(* The session token is one that was issued and has not expired.           *)
ImdsAccepts(t) == t \in imds /\ now < t.exp

(* The client now has the key pair of p, if p has one.                     *)
GiveKey(p) ==
    /\ AwsKey[p]
    /\ awsKeys' = awsKeys \cup {p}
    /\ UNCHANGED <<now, fixture, googleTokens, jwts, awsTokens, imds, imdsIssued, sessions>>

awsIMDSCredentials(t, p) == ImdsAccepts(t) /\ GiveKey(p)

(* An authorization token is asked for where one is configured.            *)
awsECSCredentials(p, auth) ==
    /\ fixture.ecs[p] # None => auth = fixture.ecs[p]
    /\ GiveKey(p)

(* External: a client signs with the key pair of p for the host and port   *)
(* of l, which Start makes sure no other listener has.  Its clock may be   *)
(* off, and it may ask for any life.                                       *)
awsSign(p, l, user, date, life) ==
    /\ p \in awsKeys /\ Provider[l] = "aws"
    /\ Issued < MaxIssued
    /\ awsTokens' = awsTokens \cup
         {[key |-> p, endpoint |-> l, user |-> user, date |-> date, life |-> life, sig |-> TRUE]}
    /\ UNCHANGED <<now, fixture, googleTokens, jwts, awsKeys, imds, imdsIssued, sessions>>

validateAWS(l, user, t) ==
    /\ t.endpoint = l /\ t.user = user
    /\ t.life \in 1 .. AwsLife
    /\ t.date <= now + Skew /\ now < t.date + t.life
    /\ AwsKey[t.key]
    /\ t.sig

----------------------------------------------------------------------------
(* Login: service.Validate, by the listener's provider.                    *)

(* Copies of a token with claims replaced; the signature does not match.   *)
AlteredAzure(t, p, g, l) ==
    [t EXCEPT !.oid = p, !.upn = Email[p], !.groups = g, !.tid = Tenant[l], !.sig = FALSE]

AlteredAWS(t, p, l, user) ==
    [t EXCEPT !.key = p, !.endpoint = l, !.user = user, !.sig = FALSE]

(* Tokens as they were given out, and altered ones.                        *)
PresentedAzure ==
    jwts \cup {AlteredAzure(t, p, g, l) :
                 t \in jwts, p \in Prins, g \in {Groups[q] : q \in Prins}, l \in Listeners}

PresentedAWS ==
    awsTokens \cup {AlteredAWS(t, p, l, user) :
                      t \in awsTokens, p \in Prins, l \in Listeners, user \in AwsUsers}

(* Defect for BackendAccountsDisjoint: the grant is not looked at.         *)
EnterUngranted(l, user, p) ==
    /\ Cardinality(sessions) < MaxSessions
    /\ sessions' = sessions \cup {[lst |-> l, prin |-> p, user |-> user, at |-> now]}
    /\ UNCHANGED <<now, fixture, googleTokens, jwts, awsKeys, awsTokens, imds, imdsIssued>>

(* Validate's last test, and the session it leads to.                      *)
Enter(l, user, p) ==
    /\ Granted(p, l)
    /\ Cardinality(sessions) < MaxSessions
    /\ sessions' = sessions \cup {[lst |-> l, prin |-> p, user |-> user, at |-> now]}
    /\ UNCHANGED <<now, fixture, googleTokens, jwts, awsKeys, awsTokens, imds, imdsIssued>>

Validate(l, user) ==
    \/ /\ Provider[l] = "google"
       /\ \E t \in googleTokens : validateGoogle(l, user, t) /\ Enter(l, user, t.prin)
    \/ /\ Provider[l] = "azure"
       /\ \E t \in PresentedAzure : validateAzure(l, user, t) /\ Enter(l, user, t.oid)
    \/ /\ Provider[l] = "aws"
       /\ \E t \in PresentedAWS : validateAWS(l, user, t) /\ Enter(l, user, t.key)

Tick ==
    /\ now < MaxTime
    /\ now' = now + 1
    /\ UNCHANGED <<fixture, googleTokens, jwts, awsKeys, awsTokens, imds, imdsIssued, sessions>>

(* What clients ask the endpoints for: the credentials of any principal,   *)
(* or nothing in the place of a client ID.                                 *)
Issue ==
    \/ \E p \in Prins, scope \in Scopes :
         googleMetadata(p, scope) \/ googleOAuth(fixture.refresh[p], scope)
    \/ \E id \in {None} \cup Range(fixture.id), aud \in Audiences : azureIMDS(id, aud)
    \/ \E id \in {None} \cup Range(fixture.id), p \in Prins, l \in Listeners :
         azureOAuth(id, fixture.secret[p], Tenant[l])
    \/ \E ttl \in 1 .. Hour : awsIMDSToken(ttl)
    \/ \E p \in Prins, l \in Listeners, user \in AwsUsers, date \in 0 .. MaxTime, life \in 0 .. AwsLife + 1 :
         awsSign(p, l, user, date, life)

(* An AWS client fetches the key pair of a role.                           *)
Fetch ==
    \/ \E t \in imdsIssued, p \in Prins : awsIMDSCredentials(t, p)
    \/ \E p \in Prins, auth \in {None} \cup Range(fixture.ecs) : awsECSCredentials(p, auth)

Next ==
    \/ Issue
    \/ Fetch
    \/ \E l \in Listeners, user \in Users : Validate(l, user)
    \/ Tick

Spec == Init /\ [][Next]_vars

----------------------------------------------------------------------------
(* Properties.                                                             *)

(* Names under which a principal may enter a listener.                     *)
OwnNames(p, l) ==
    CASE Provider[l] = "google" -> {googleUsername(Email[p], Engine[l])}
      [] Provider[l] = "azure"  -> {azureUsername(Email[p])} \cup Groups[p]
      [] OTHER                  -> Users

(* How long a credential for a listener may last.                          *)
LongestLife(l) == IF Provider[l] = "aws" THEN Skew + AwsLife ELSE Hour

Legal(e) ==
    /\ Granted(e.prin, e.lst)
    /\ e.user \in OwnNames(e.prin, e.lst)
    /\ e.until <= e.from + LongestLife(e.lst)

Entitle(p, l, names, from, until) ==
    {[prin |-> p, lst |-> l, user |-> u, from |-> from, until |-> until] : u \in names}

(* What a token entitles to, whoever presents it.                          *)
GoogleHeld(t) ==
    UNION {Entitle(t.prin, l, OwnNames(t.prin, l), t.exp - Hour, t.exp) :
             l \in {x \in Grants[t.prin] : Provider[x] = "google"}}

AzureHeld(t) ==
    UNION {Entitle(t.oid, l, OwnNames(t.oid, l), t.nbf, t.exp) :
             l \in {x \in Grants[t.oid] :
                     Provider[x] = "azure" /\ Tenant[x] = t.tid /\ t.aud = "ossrdbms"}}

AwsHeld(t) ==
    UNION {Entitle(t.key, l, {t.user}, IF t.date < Skew THEN 0 ELSE t.date - Skew, t.date + t.life) :
             l \in {x \in Grants[t.key] : x = t.endpoint /\ t.life \in 1 .. AwsLife}}

Held ==
    (UNION {GoogleHeld(t) : t \in googleTokens})
    \cup (UNION {AzureHeld(t) : t \in jwts})
    \cup (UNION {AwsHeld(t) : t \in awsTokens})

Policy == INSTANCE LoginPolicy WITH held <- Held

(* The endpoints and Validate together keep the login policy: every session *)
(* was opened by a credential given out for that principal, on a listener   *)
(* it has a grant for, under one of its own names there, inside the         *)
(* credential's time window and tenant (identity.go:63-186, aws.go:50-121,  *)
(* http.go:219-379).                                                        *)
KeepsPolicy == Policy!PolicySpec

(* The listener admits the principal under that name, by some token in     *)
(* circulation.                                                            *)
Admits(l, user, p) ==
    /\ Granted(p, l)
    /\ CASE Provider[l] = "google" -> \E t \in googleTokens : t.prin = p /\ validateGoogle(l, user, t)
         [] Provider[l] = "azure"  -> \E t \in jwts : t.oid = p /\ validateAzure(l, user, t)
         [] OTHER                  -> \E t \in awsTokens : t.key = p /\ validateAWS(l, user, t)

(* The converse of the policy: whatever a credential entitles to, Validate *)
(* lets in, from the second it was issued to the last before its end: the  *)
(* claims and scopes the endpoints put into a token, the names and tenants *)
(* of the configuration and the tests of validation agree                  *)
(* (identity.go:51-186, aws.go:60-121, http.go:219-379).                   *)
EntitlementsHonoured ==
    \A e \in Held : e.from <= now /\ now < e.until => Admits(e.lst, e.user, e.prin)

(* ARCHITECTURE.md:35-36: a backend account is never used on one listener   *)
(* for two principals.  Config.Validate checks it for principals that have  *)
(* a grant; Validate's last test makes that enough (identity.go:79-81).     *)
BackendAccountsDisjoint ==
    \A s, t \in sessions :
      s.lst = t.lst /\ BackendUser[s.prin] = BackendUser[t.prin] => s.prin = t.prin

(* An IMDSv2 token works until it expires, whatever other clients ask for   *)
(* meanwhile: pruning on issue drops expired tokens only (http.go:85-91,    *)
(* 102-105).                                                                *)
ImdsTokensHonoured == \A t \in imdsIssued : now < t.exp => ImdsAccepts(t)
=============================================================================
