---------------------------- MODULE LoginPolicy ----------------------------
(***************************************************************************)
(* What the emulator promises about logins (ARCHITECTURE.md, "Trust        *)
(* boundaries" and "Credential checks"), without saying how: a session is  *)
(* opened only for a principal with a grant for the listener, under a name *)
(* that is its own there, on the strength of a credential given out for    *)
(* it, and while that credential is within its time window.                *)
(***************************************************************************)
EXTENDS Naturals

CONSTANTS
    Legal(_)    \* entitlements that a configuration allows

VARIABLES
    now,        \* the clock
    held,       \* entitlements that credentials in circulation carry
    sessions    \* sessions opened so far

policyVars == <<now, held, sessions>>

(* An entitlement lets a principal into a listener, by a name, for a time. *)
(* A session is an entitlement used at a moment.                           *)
PolicyInit == now = 0 /\ held = {} /\ sessions = {}

(* Credentials are given out; what they carry is legal.                    *)
Grant ==
    /\ held \subseteq held'
    /\ \A e \in held' \ held : Legal(e)
    /\ UNCHANGED <<now, sessions>>

(* One session is opened, by an entitlement whose time it is.              *)
Enter ==
    /\ \E e \in held :
         /\ e.from <= now /\ now < e.until
         /\ sessions' = sessions \cup {[lst |-> e.lst, prin |-> e.prin, user |-> e.user, at |-> now]}
    /\ UNCHANGED <<now, held>>

(* Time passes; entitlements run out by themselves, sessions stay.         *)
Pass == now' = now + 1 /\ UNCHANGED <<held, sessions>>

PolicyNext == Grant \/ Enter \/ Pass

PolicySpec == PolicyInit /\ [][PolicyNext]_policyVars
=============================================================================
