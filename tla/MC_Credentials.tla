-------------------------- MODULE MC_Credentials --------------------------
(* Instances of Credentials for TLC: a Google listener, two AWS listeners  *)
(* and three Azure listeners of two tenants.  p and q would have the same  *)
(* name on the Google listener and have, as no listener grants both, the   *)
(* same backend account; q has grants in both tenants.                     *)
EXTENDS Credentials, TLC

MCPrinOrder == <<"p", "q">>
MCListenerOrder == <<"g", "w1", "w2", "a1", "a2", "a3">>
MCProvider == [g |-> "google", w1 |-> "aws", w2 |-> "aws",
               a1 |-> "azure", a2 |-> "azure", a3 |-> "azure"]
MCEngine == [g |-> "mysql", w1 |-> "mysql", w2 |-> "mysql",
             a1 |-> "postgres", a2 |-> "postgres", a3 |-> "mysql"]
MCTenant == [g |-> None, w1 |-> None, w2 |-> None, a1 |-> "t1", a2 |-> "t2", a3 |-> "t1"]
MCEmail == [p |-> [local |-> "dev", host |-> "proj", svc |-> TRUE],
            q |-> [local |-> "dev", host |-> "corp", svc |-> FALSE]]
MCGroups == [p |-> {<<"admins">>}, q |-> {}]
MCGrants == [p |-> {"g", "w1", "a1"}, q |-> {"a2", "a3"}]
MCBackendUser == [p |-> "app", q |-> "app"]
MCAwsKey == [p |-> TRUE, q |-> FALSE]

(* Each principal has credentials of its own, q the only Azure client; or  *)
(* the principals were given the same ones.                                *)
MCFixtures ==
    {[refresh |-> [p |-> "rp", q |-> "rq"], id |-> [p |-> None, q |-> "cid"],
      secret |-> [p |-> None, q |-> "sq"], ecs |-> [p |-> "ep", q |-> None]],
     [refresh |-> [p |-> "r", q |-> "r"], id |-> [p |-> "cid", q |-> "cid"],
      secret |-> [p |-> "s", q |-> "s"], ecs |-> [p |-> None, q |-> None]]}

MCAwsUsers == {<<"app">>, <<"report">>}
=============================================================================
