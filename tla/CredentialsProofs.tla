-------------------------- MODULE CredentialsProofs --------------------------
(***************************************************************************)
(* The credential service keeps the login policy, for any configuration    *)
(* that Config.Validate accepts, any lives of tokens and any number of     *)
(* tokens and logins: every step of the service is a step of LoginPolicy   *)
(* or none, what is held being what the tokens in circulation entitle to.  *)
(***************************************************************************)
EXTENDS Credentials, TLAPS

(* Tokens name the times and the principals the issuing endpoints saw.     *)
GoogleShape ==
    \A t \in googleTokens :
      t.prin \in Prins /\ t.scope \in SqlScopes /\ t.exp \in Nat /\ t.exp <= now + Hour

AzureShape ==
    \A t \in jwts :
      /\ "sig" \in DOMAIN t /\ t.sig
      /\ t.oid \in Prins /\ t.upn = Email[t.oid] /\ t.groups = Groups[t.oid]
      /\ t.nbf \in Nat /\ t.exp \in Nat /\ t.exp <= t.nbf + Hour

AwsShape ==
    \A t \in awsTokens :
      /\ "sig" \in DOMAIN t /\ t.sig /\ Provider[t.endpoint] = "aws"
      /\ t.key \in Prins /\ AwsKey[t.key]
      /\ t.user \in AwsUsers /\ t.date \in Nat /\ t.life \in Nat

(* A session is of a principal with a grant for the listener.              *)
SessionsGranted ==
    \A s \in sessions : s.prin \in Prins /\ s.lst \in Listeners /\ Granted(s.prin, s.lst)

ImdsShape == \A t \in imdsIssued : t.exp \in Nat

(* Key pairs are given out only where there is one.                        *)
KeysExist == \A p \in awsKeys : AwsKey[p]

IInv ==
    /\ now \in Nat
    /\ GoogleShape /\ AzureShape /\ AwsShape /\ SessionsGranted /\ ImdsShape
    /\ KeysExist /\ ImdsTokensHonoured

----------------------------------------------------------------------------
(* The invariant.                                                          *)

(* Nothing has been issued and no session begun.                           *)
LEMMA InitInv == Init => IInv
  BY DEF Init, IInv, GoogleShape, AzureShape, AwsShape, SessionsGranted, KeysExist, ImdsShape, ImdsTokensHonoured

(* A Google token lives for an hour from now.                              *)
LEMMA GoogleIssueInv ==
    ASSUME IInv, NEW p \in Prins, NEW scope \in SqlScopes, googleIssue(p, scope)
    PROVE  IInv'
<1> USE CredentialsAssumption DEF IInv
<1> DEFINE t == [id |-> Cardinality(googleTokens) + 1, prin |-> p, scope |-> scope, exp |-> now + Hour]
<1>1. /\ googleTokens' = googleTokens \cup {t}
      /\ UNCHANGED <<now, fixture, jwts, awsKeys, awsTokens, imds, imdsIssued, sessions>>
  BY DEF googleIssue
<1>2. t.prin \in Prins /\ t.scope \in SqlScopes /\ t.exp = now + Hour
  OBVIOUS
<1> HIDE DEF t
<1>3. GoogleShape'
  BY <1>1, <1>2 DEF GoogleShape
<1> QED
  BY <1>1, <1>3 DEF AzureShape, AwsShape, SessionsGranted, KeysExist, ImdsShape, ImdsTokensHonoured, ImdsAccepts

(* So does an Azure token, and it says so itself.                          *)
LEMMA AzureIssueInv ==
    ASSUME IInv, NEW p \in Prins, NEW tenant, NEW aud, azureIssueForAudience(p, tenant, aud)
    PROVE  IInv'
<1> USE CredentialsAssumption DEF IInv
<1> DEFINE t == [tid |-> tenant, aud |-> aud, oid |-> p, upn |-> Email[p], groups |-> Groups[p],
                 nbf |-> now, exp |-> now + Hour, sig |-> TRUE]
<1>1. /\ jwts' = jwts \cup {t}
      /\ UNCHANGED <<now, fixture, googleTokens, awsKeys, awsTokens, imds, imdsIssued, sessions>>
  BY DEF azureIssueForAudience
<1>2. /\ "sig" \in DOMAIN t /\ t.sig /\ t.nbf = now /\ t.exp = now + Hour
      /\ t.oid = p /\ t.upn = Email[p] /\ t.groups = Groups[p]
  OBVIOUS
<1> HIDE DEF t
<1>3. AzureShape'
  BY <1>1, <1>2 DEF AzureShape
<1> QED
  BY <1>1, <1>3 DEF GoogleShape, AwsShape, SessionsGranted, KeysExist, ImdsShape, ImdsTokensHonoured, ImdsAccepts

(* A client signs with a key pair it has, for an AWS listener.             *)
LEMMA AwsSignInv ==
    ASSUME IInv, NEW p \in Prins, NEW l \in Listeners, NEW user \in AwsUsers,
           NEW date \in 0 .. MaxTime, NEW life \in 0 .. AwsLife + 1, awsSign(p, l, user, date, life)
    PROVE  IInv'
<1> USE CredentialsAssumption DEF IInv
<1> DEFINE t == [key |-> p, endpoint |-> l, user |-> user, date |-> date, life |-> life, sig |-> TRUE]
<1>1. /\ awsTokens' = awsTokens \cup {t} /\ Provider[l] = "aws" /\ AwsKey[p]
      /\ UNCHANGED <<now, fixture, googleTokens, jwts, awsKeys, imds, imdsIssued, sessions>>
  BY DEF awsSign, KeysExist
<1>2. /\ "sig" \in DOMAIN t /\ t.sig /\ t.key = p /\ t.endpoint = l
      /\ t.user = user /\ t.date \in Nat /\ t.life \in Nat
  OBVIOUS
<1> HIDE DEF t
<1>3. AwsShape'
  BY <1>1, <1>2 DEF AwsShape
<1> QED
  BY <1>1, <1>3 DEF GoogleShape, AzureShape, SessionsGranted, KeysExist, ImdsShape, ImdsTokensHonoured, ImdsAccepts

(* Issuing an IMDSv2 token drops the ones that have expired, no others.    *)
LEMMA ImdsIssueInv ==
    ASSUME IInv, NEW ttl \in 1 .. Hour, awsIMDSToken(ttl)
    PROVE  IInv'
<1> USE CredentialsAssumption DEF IInv
<1> DEFINE t == [id |-> Cardinality(imdsIssued) + 1, exp |-> now + ttl]
<1>1. /\ imds' = {o \in imds : now < o.exp} \cup {t}
      /\ imdsIssued' = imdsIssued \cup {t}
      /\ UNCHANGED <<now, fixture, googleTokens, jwts, awsKeys, awsTokens, sessions>>
  BY DEF awsIMDSToken
<1>2. t.exp \in Nat
  OBVIOUS
<1> HIDE DEF t
<1>3. ImdsShape' /\ ImdsTokensHonoured'
  BY <1>1, <1>2 DEF ImdsShape, ImdsTokensHonoured, ImdsAccepts
<1> QED
  BY <1>1, <1>3 DEF GoogleShape, AzureShape, AwsShape, SessionsGranted, KeysExist

(* A token that was altered after it was signed has no valid signature, so *)
(* what Validate accepts was issued.                                       *)
LEMMA AcceptedWasIssued ==
    ASSUME IInv
    PROVE  /\ \A t \in PresentedAzure : t.sig => t \in jwts
           /\ \A t \in PresentedAWS : t.sig => t \in awsTokens
<1>1. ASSUME NEW t \in PresentedAzure, t.sig, t \notin jwts
      PROVE  FALSE
  <2>1. PICK u \in jwts, p \in Prins, g \in {Groups[q] : q \in Prins}, l \in Listeners :
          t = AlteredAzure(u, p, g, l)
    BY <1>1 DEF PresentedAzure
  <2>2. "sig" \in DOMAIN u
    BY DEF IInv, AzureShape
  <2> QED
    BY <1>1, <2>1, <2>2 DEF AlteredAzure
<1>2. ASSUME NEW t \in PresentedAWS, t.sig, t \notin awsTokens
      PROVE  FALSE
  <2>1. PICK u \in awsTokens, p \in Prins, l \in Listeners, user \in AwsUsers :
          t = AlteredAWS(u, p, l, user)
    BY <1>2 DEF PresentedAWS
  <2>2. "sig" \in DOMAIN u
    BY DEF IInv, AwsShape
  <2> QED
    BY <1>2, <2>1, <2>2 DEF AlteredAWS
<1> QED
  BY <1>1, <1>2

(* A session is opened for a principal of the configuration that has a     *)
(* grant.                                                                  *)
LEMMA ValidateInv ==
    ASSUME IInv, NEW l \in Listeners, NEW user, Validate(l, user)
    PROVE  IInv'
<1> USE DEF IInv
<1>1. PICK p \in Prins : Enter(l, user, p)
  <2>1. CASE \E t \in googleTokens : Enter(l, user, t.prin)
    BY <2>1 DEF GoogleShape
  <2>2. CASE \E t \in PresentedAzure : validateAzure(l, user, t) /\ Enter(l, user, t.oid)
    BY <2>2 DEF validateAzure
  <2>3. CASE \E t \in PresentedAWS : validateAWS(l, user, t) /\ Enter(l, user, t.key)
    BY <2>3, AcceptedWasIssued DEF validateAWS, AwsShape
  <2> QED
    BY <2>1, <2>2, <2>3 DEF Validate
<1> DEFINE s == [lst |-> l, prin |-> p, user |-> user, at |-> now]
<1>2. /\ Granted(p, l) /\ sessions' = sessions \cup {s}
      /\ UNCHANGED <<now, fixture, googleTokens, jwts, awsKeys, awsTokens, imds, imdsIssued>>
  BY <1>1 DEF Enter
<1>3. s.prin = p /\ s.lst = l
  OBVIOUS
<1> HIDE DEF s
<1>4. SessionsGranted'
  BY <1>2, <1>3 DEF SessionsGranted, Granted
<1> QED
  BY <1>2, <1>4 DEF GoogleShape, AzureShape, AwsShape, KeysExist, ImdsShape, ImdsTokensHonoured, ImdsAccepts

(* Every step keeps the invariant.                                         *)
LEMMA NextInv == IInv /\ [Next]_vars => IInv'
<1> SUFFICES ASSUME IInv, [Next]_vars PROVE IInv'
  OBVIOUS
<1> USE CredentialsAssumption
<1>1. ASSUME Issue PROVE IInv'
  <2>1. ASSUME NEW p \in Prins, NEW scope, googleMetadata(p, scope) \/ googleOAuth(fixture.refresh[p], scope)
        PROVE  IInv'
    <3>1. scope \in SqlScopes /\ \E q \in Prins : googleIssue(q, scope)
      BY <2>1 DEF googleMetadata, googleOAuth, Prins, Range
    <3> QED
      BY <3>1, GoogleIssueInv
  <2>2. ASSUME NEW id, NEW aud, azureIMDS(id, aud)
        PROVE  IInv'
    BY <2>2, AzureIssueInv DEF azureIMDS, Prins, Range
  <2>3. ASSUME NEW id, NEW secret, NEW tenant, azureOAuth(id, secret, tenant)
        PROVE  IInv'
    BY <2>3, AzureIssueInv DEF azureOAuth, Prins, Range
  <2> QED
    BY <1>1, <2>1, <2>2, <2>3, ImdsIssueInv, AwsSignInv DEF Issue
<1>2. ASSUME Fetch PROVE IInv'
  <2>1. \E p \in Prins : GiveKey(p)
    BY <1>2 DEF Fetch, awsIMDSCredentials, awsECSCredentials
  <2> QED
    BY <2>1 DEF GiveKey, IInv, GoogleShape, AzureShape, AwsShape, SessionsGranted, KeysExist, ImdsShape,
                ImdsTokensHonoured, ImdsAccepts
<1>3. ASSUME Tick PROVE IInv'
  BY <1>3 DEF Tick, IInv, GoogleShape, AzureShape, AwsShape, SessionsGranted, KeysExist, ImdsShape,
              ImdsTokensHonoured, ImdsAccepts
<1>4. ASSUME UNCHANGED vars PROVE IInv'
  BY <1>4 DEF vars, IInv, GoogleShape, AzureShape, AwsShape, SessionsGranted, KeysExist, ImdsShape,
              ImdsTokensHonoured, ImdsAccepts
<1> QED
  BY <1>1, <1>2, <1>3, <1>4, ValidateInv DEF Next

(* The invariant holds in every reachable state of the service.            *)
THEOREM InvHolds == Spec => []IInv
  BY InitInv, NextInv, PTL DEF Spec

(* No two principals share a backend account on a listener they both use,  *)
(* whatever tokens there are (identity.go:79-81, config.go:160-201).       *)
THEOREM AccountsDisjoint == Spec => []BackendAccountsDisjoint
<1>1. IInv => BackendAccountsDisjoint
  BY CredentialsAssumption DEF IInv, SessionsGranted, BackendAccountsDisjoint, ConfigValid
<1> QED
  BY InvHolds, <1>1, PTL

(* An IMDSv2 token is honoured for its whole life (http.go:85-105).        *)
THEOREM ImdsHonoured == Spec => []ImdsTokensHonoured
<1>1. IInv => ImdsTokensHonoured
  BY DEF IInv
<1> QED
  BY InvHolds, <1>1, PTL

(* A token in circulation admits its principal, under every name it has on *)
(* a listener with a grant, at every moment of its life (identity.go:51-186, *)
(* aws.go:60-121).                                                         *)
THEOREM HonoursEntitlements == Spec => []EntitlementsHonoured
<1> USE CredentialsAssumption DEF IInv
<1>1. ASSUME IInv, NEW t \in googleTokens, NEW e \in GoogleHeld(t), e.from <= now, now < e.until
      PROVE  Admits(e.lst, e.user, e.prin)
  <2>1. PICK l \in Grants[t.prin] :
          /\ Provider[l] = "google"
          /\ e \in Entitle(t.prin, l, OwnNames(t.prin, l), t.exp - Hour, t.exp)
    BY <1>1 DEF GoogleHeld
  <2>2. /\ e.prin = t.prin /\ e.lst = l /\ e.until = t.exp
        /\ e.user = googleUsername(Email[t.prin], Engine[l])
    BY <2>1 DEF Entitle, OwnNames
  <2>3. Email[t.prin] # None
    BY <1>1, <2>1 DEF GoogleShape, ConfigValid, Granted
  <2> QED
    BY <1>1, <2>1, <2>2, <2>3 DEF Admits, Granted, validateGoogle, GoogleShape
<1>2. ASSUME IInv, NEW t \in jwts, NEW e \in AzureHeld(t), e.from <= now, now < e.until
      PROVE  Admits(e.lst, e.user, e.prin)
  <2>1. PICK l \in Grants[t.oid] :
          /\ Provider[l] = "azure" /\ Tenant[l] = t.tid /\ t.aud = "ossrdbms"
          /\ e \in Entitle(t.oid, l, OwnNames(t.oid, l), t.nbf, t.exp)
    BY <1>2 DEF AzureHeld
  <2>2. /\ e.prin = t.oid /\ e.lst = l /\ e.from = t.nbf /\ e.until = t.exp
        /\ e.user \in {azureUsername(Email[t.oid])} \cup Groups[t.oid]
    BY <2>1 DEF Entitle, OwnNames
  <2>3. validateAzure(l, e.user, t)
    BY <1>2, <2>1, <2>2 DEF validateAzure, AzureShape
  <2> QED
    BY <1>2, <2>1, <2>2, <2>3 DEF Admits, Granted
<1>3. ASSUME IInv, NEW t \in awsTokens, NEW e \in AwsHeld(t), e.from <= now, now < e.until
      PROVE  Admits(e.lst, e.user, e.prin)
  <2> DEFINE from == IF t.date < Skew THEN 0 ELSE t.date - Skew
  <2>1. /\ t.endpoint \in Grants[t.key] /\ t.life \in 1 .. AwsLife
        /\ e \in Entitle(t.key, t.endpoint, {t.user}, from, t.date + t.life)
    BY <1>3 DEF AwsHeld
  <2>2. /\ e.prin = t.key /\ e.lst = t.endpoint /\ e.user = t.user
        /\ e.from = from /\ e.until = t.date + t.life
    BY <2>1 DEF Entitle
  <2>3. t.date <= now + Skew
    BY <1>3, <2>2 DEF AwsShape
  <2>4. validateAWS(t.endpoint, t.user, t)
    BY <1>3, <2>1, <2>2, <2>3 DEF validateAWS, AwsShape
  <2> HIDE DEF from
  <2> QED
    BY <1>3, <2>1, <2>2, <2>4 DEF Admits, Granted, AwsShape
<1>4. IInv => EntitlementsHonoured
  BY <1>1, <1>2, <1>3 DEF EntitlementsHonoured, Held
<1> QED
  BY InvHolds, <1>4, PTL

----------------------------------------------------------------------------
(* The refinement.  What a new token carries is legal.                     *)

(* A Google token entitles its principal, under its own names, for an hour. *)
LEMMA GoogleLegal ==
    ASSUME NEW t, t.exp \in Nat, NEW e \in GoogleHeld(t)
    PROVE  Legal(e)
<1> USE CredentialsAssumption
<1>1. PICK l \in Grants[t.prin] :
        /\ Provider[l] = "google"
        /\ e \in Entitle(t.prin, l, OwnNames(t.prin, l), t.exp - Hour, t.exp)
  BY DEF GoogleHeld
<1>2. PICK u \in OwnNames(t.prin, l) :
        e = [prin |-> t.prin, lst |-> l, user |-> u, from |-> t.exp - Hour, until |-> t.exp]
  BY <1>1 DEF Entitle
<1> QED
  BY <1>1, <1>2 DEF Legal, Granted, LongestLife

(* An Azure token entitles the principal of its oid while it is valid.     *)
LEMMA AzureLegal ==
    ASSUME NEW t, t.nbf \in Nat, t.exp \in Nat, t.exp <= t.nbf + Hour, NEW e \in AzureHeld(t)
    PROVE  Legal(e)
<1> USE CredentialsAssumption
<1>1. PICK l \in Grants[t.oid] :
        /\ Provider[l] = "azure"
        /\ e \in Entitle(t.oid, l, OwnNames(t.oid, l), t.nbf, t.exp)
  BY DEF AzureHeld
<1>2. PICK u \in OwnNames(t.oid, l) :
        e = [prin |-> t.oid, lst |-> l, user |-> u, from |-> t.nbf, until |-> t.exp]
  BY <1>1 DEF Entitle
<1> QED
  BY <1>1, <1>2 DEF Legal, Granted, LongestLife

(* An AWS token entitles the principal of its key, for its life at most    *)
(* and the skew that Validate allows.                                      *)
LEMMA AwsLegal ==
    ASSUME NEW t, t.date \in Nat, t.life \in Nat, t.user \in AwsUsers, Provider[t.endpoint] = "aws",
           NEW e \in AwsHeld(t)
    PROVE  Legal(e)
<1> USE CredentialsAssumption
<1> DEFINE from == IF t.date < Skew THEN 0 ELSE t.date - Skew
<1>1. /\ t.endpoint \in Grants[t.key] /\ t.life \in 1 .. AwsLife
      /\ e \in Entitle(t.key, t.endpoint, {t.user}, from, t.date + t.life)
  BY DEF AwsHeld
<1>2. e = [prin |-> t.key, lst |-> t.endpoint, user |-> t.user, from |-> from, until |-> t.date + t.life]
  BY <1>1 DEF Entitle
<1>3. t.date + t.life <= from + (Skew + AwsLife)
  BY <1>1
<1>4. t.user \in OwnNames(t.key, t.endpoint)
  <2>1. OwnNames(t.key, t.endpoint) = Users
    BY DEF OwnNames
  <2>2. AwsUsers \subseteq Users
    BY DEF Users
  <2> QED
    BY <2>1, <2>2
<1> HIDE DEF from
<1> QED
  BY <1>1, <1>2, <1>3, <1>4 DEF Legal, Granted, LongestLife

(* More tokens never carry less.                                           *)
LEMMA HeldGrows ==
    ASSUME googleTokens \subseteq googleTokens', jwts \subseteq jwts', awsTokens \subseteq awsTokens'
    PROVE  Held \subseteq Held'
  BY DEF Held

(* What is held for the first time is carried by a new token.              *)
LEMMA NewlyHeld ==
    ASSUME NEW e \in Held' \ Held
    PROVE  \/ \E t \in googleTokens' \ googleTokens : e \in GoogleHeld(t)
           \/ \E t \in jwts' \ jwts : e \in AzureHeld(t)
           \/ \E t \in awsTokens' \ awsTokens : e \in AwsHeld(t)
  BY DEF Held

(* Giving out a token of any kind is a Grant of the policy.                *)
LEMMA IssueGrants ==
    ASSUME IInv, IInv', UNCHANGED <<now, sessions>>,
           googleTokens \subseteq googleTokens', jwts \subseteq jwts', awsTokens \subseteq awsTokens'
    PROVE  Policy!Grant
<1>1. ASSUME NEW e \in Held' \ Held
      PROVE  Legal(e)
  <2>1. CASE \E t \in googleTokens' \ googleTokens : e \in GoogleHeld(t)
    BY <2>1, GoogleLegal DEF IInv, GoogleShape
  <2>2. CASE \E t \in jwts' \ jwts : e \in AzureHeld(t)
    BY <2>2, AzureLegal DEF IInv, AzureShape
  <2>3. CASE \E t \in awsTokens' \ awsTokens : e \in AwsHeld(t)
    BY <2>3, AwsLegal DEF IInv, AwsShape
  <2> QED
    BY <2>1, <2>2, <2>3, NewlyHeld
<1> QED
  BY <1>1, HeldGrows DEF Policy!Grant

(* A login that Validate lets through is an Enter of the policy: the token *)
(* it accepted carries the entitlement that is used.                       *)
LEMMA ValidateEnters ==
    ASSUME IInv, NEW l \in Listeners, NEW user, Validate(l, user)
    PROVE  Policy!Enter
<1> USE CredentialsAssumption DEF IInv
<1>1. SUFFICES ASSUME NEW p, NEW from, NEW until, Enter(l, user, p),
                      [prin |-> p, lst |-> l, user |-> user, from |-> from, until |-> until] \in Held,
                      from <= now, now < until
               PROVE  Policy!Enter
  <2>1. CASE /\ Provider[l] = "google"
             /\ \E t \in googleTokens : validateGoogle(l, user, t) /\ Enter(l, user, t.prin)
    <3>1. PICK t \in googleTokens : validateGoogle(l, user, t) /\ Enter(l, user, t.prin)
      BY <2>1
    <3>2. l \in Grants[t.prin] /\ user \in OwnNames(t.prin, l)
      BY <2>1, <3>1 DEF Enter, Granted, validateGoogle, OwnNames
    <3>3. [prin |-> t.prin, lst |-> l, user |-> user, from |-> t.exp - Hour, until |-> t.exp]
            \in GoogleHeld(t)
      BY <2>1, <3>2 DEF GoogleHeld, Entitle
    <3>4. t.exp - Hour <= now /\ now < t.exp
      BY <3>1 DEF GoogleShape, validateGoogle
    <3> QED
      BY <1>1, <3>1, <3>3, <3>4 DEF Held
  <2>2. CASE /\ Provider[l] = "azure"
             /\ \E t \in PresentedAzure : validateAzure(l, user, t) /\ Enter(l, user, t.oid)
    <3>1. PICK t \in PresentedAzure : validateAzure(l, user, t) /\ Enter(l, user, t.oid)
      BY <2>2
    <3>2. t \in jwts /\ t.aud = "ossrdbms" /\ t.tid = Tenant[l] /\ t.nbf <= now /\ now < t.exp
      BY <3>1, AcceptedWasIssued DEF validateAzure
    <3>3. l \in Grants[t.oid] /\ user \in OwnNames(t.oid, l)
      BY <2>2, <3>1 DEF Enter, Granted, validateAzure, OwnNames
    <3>4. [prin |-> t.oid, lst |-> l, user |-> user, from |-> t.nbf, until |-> t.exp] \in AzureHeld(t)
      BY <2>2, <3>2, <3>3 DEF AzureHeld, Entitle
    <3> QED
      BY <1>1, <3>1, <3>2, <3>4 DEF Held
  <2>3. CASE /\ Provider[l] = "aws"
             /\ \E t \in PresentedAWS : validateAWS(l, user, t) /\ Enter(l, user, t.key)
    <3>1. PICK t \in PresentedAWS : validateAWS(l, user, t) /\ Enter(l, user, t.key)
      BY <2>3
    <3>2. /\ t \in awsTokens /\ t.endpoint = l /\ t.user = user /\ t.life \in 1 .. AwsLife
          /\ t.date <= now + Skew /\ now < t.date + t.life
      BY <3>1, AcceptedWasIssued DEF validateAWS
    <3> DEFINE from == IF t.date < Skew THEN 0 ELSE t.date - Skew
    <3>3. from <= now
      BY <3>2 DEF AwsShape
    <3>4. l \in Grants[t.key]
      BY <3>1 DEF Enter, Granted
    <3>5. [prin |-> t.key, lst |-> l, user |-> user, from |-> from, until |-> t.date + t.life] \in AwsHeld(t)
      BY <3>2, <3>4 DEF AwsHeld, Entitle
    <3> HIDE DEF from
    <3> QED
      BY <1>1, <3>1, <3>2, <3>3, <3>5 DEF Held
  <2> QED
    BY <2>1, <2>2, <2>3 DEF Validate
<1>2. /\ sessions' = sessions \cup {[lst |-> l, prin |-> p, user |-> user, at |-> now]}
      /\ UNCHANGED <<now, googleTokens, jwts, awsTokens>>
  BY <1>1 DEF Enter
<1>3. Held' = Held
  BY <1>2 DEF Held
<1> DEFINE e == [prin |-> p, lst |-> l, user |-> user, from |-> from, until |-> until]
<1>4. e \in Held /\ e.lst = l /\ e.prin = p /\ e.user = user /\ e.from = from /\ e.until = until
  BY <1>1
<1> HIDE DEF e
<1> QED
  BY <1>1, <1>2, <1>3, <1>4 DEF Policy!Enter

(* Every step of the service is a step of the policy, or none.             *)
LEMMA StepKeepsPolicy ==
    ASSUME IInv, IInv', [Next]_vars
    PROVE  [Policy!PolicyNext]_(Policy!policyVars)
<1> USE DEF Policy!PolicyNext, Policy!policyVars
<1>1. ASSUME Issue PROVE Policy!Grant
  <2>1. /\ UNCHANGED <<now, sessions>> /\ googleTokens \subseteq googleTokens'
        /\ jwts \subseteq jwts' /\ awsTokens \subseteq awsTokens'
    BY <1>1 DEF Issue, googleMetadata, googleOAuth, googleIssue, azureIMDS, azureOAuth,
                azureIssueForAudience, awsIMDSToken, awsSign
  <2> QED
    BY <2>1, IssueGrants
<1>2. ASSUME Fetch PROVE UNCHANGED <<now, Held, sessions>>
  BY <1>2 DEF Fetch, awsIMDSCredentials, awsECSCredentials, GiveKey, Held
<1>3. ASSUME Tick PROVE Policy!Pass
  BY <1>3 DEF Tick, Policy!Pass, Held
<1>4. ASSUME UNCHANGED vars PROVE UNCHANGED <<now, Held, sessions>>
  BY <1>4 DEF vars, Held
<1> QED
  BY <1>1, <1>2, <1>3, <1>4, ValidateEnters DEF Next

(* The credential service implements the login policy: no session without  *)
(* a grant, a name of the principal's own and a credential that was given  *)
(* out for it and is in time (identity.go:63-186, aws.go:50-121,           *)
(* http.go:219-379).                                                       *)
THEOREM ImplementsPolicy == Spec => KeepsPolicy
<1>1. Init => Policy!PolicyInit
  BY DEF Init, Policy!PolicyInit, Held
<1>2. IInv /\ IInv' /\ [Next]_vars => [Policy!PolicyNext]_(Policy!policyVars)
  BY StepKeepsPolicy
<1> QED
  BY <1>1, <1>2, InvHolds, PTL DEF Spec, KeepsPolicy, Policy!PolicySpec
=============================================================================
