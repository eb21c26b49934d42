---------------------------- MODULE MC_Startup ----------------------------
(* Instances of Startup for TLC: two listeners of many kinds without       *)
(* principals, and two principals of many kinds with two fixed listeners.  *)
EXTENDS Startup

Addr(h, p) == [host |-> h, port |-> p]

Lst(name, listen, hostname, provider) ==
    [name |-> name, listen |-> listen, hostname |-> hostname, provider |-> provider,
     engine |-> "mysql", region |-> TRUE, tenant |-> TRUE, upstreamTLS |-> None, full |-> TRUE]

Addrs == {Addr("127.0.0.1", 0), Addr("127.0.0.1", 1), Addr("localhost", 1), Addr("127.0.0.2", 1),
          Addr("10.0.0.1", 1)}

Plain(name) == {Lst(name, a, h, "aws") : a \in Addrs, h \in {None, "db", "127.0.0.2"}}

Base == Lst("b", Addr("127.0.0.1", 2), "db", "azure")

Odd == {[Base EXCEPT !.tenant = FALSE], [Base EXCEPT !.full = FALSE], [Base EXCEPT !.listen = None],
        [Base EXCEPT !.engine = "other"], [Base EXCEPT !.upstreamTLS = "other"],
        [Base EXCEPT !.provider = "other"], [Base EXCEPT !.provider = "aws", !.region = FALSE]}

ListenerSeqs ==
    {<<>>} \cup {<<x>> : x \in Odd} \cup {<<x, y>> : x \in Plain("a"), y \in Plain("b")}
    \cup {<<x, x>> : x \in Plain("a")}

Heads == {<<None, None>>, <<Addr("127.0.0.1", 1), Addr("127.0.0.1", 1)>>,
          <<Addr("127.0.0.1", 0), Addr("127.0.0.1", 0)>>, <<Addr("localhost", 3), Addr("10.0.0.1", 3)>>}

Config(head, cert, key, ls, ps) ==
    [http |-> head[1], https |-> head[2], cert |-> cert, key |-> key,
     listeners |-> ls, principals |-> ps]

Email(h, svc) == [local |-> "dev", host |-> h, svc |-> svc]

Emails == {None, Email("x", FALSE), Email("x", TRUE), Email("y", FALSE)}

Principals(id) ==
    {[id |-> id, backend |-> b, email |-> e, grants |-> g, awsKey |-> None, awsSecret |-> FALSE, ecs |-> FALSE] :
       b \in {"u", "v"}, e \in Emails, g \in SUBSET {"a", "b"}}
    \cup
    {[id |-> id, backend |-> "u", email |-> None, grants |-> g, awsKey |-> k, awsSecret |-> s, ecs |-> TRUE] :
       g \in {{}, {"c"}}, k \in {None, "k"}, s \in BOOLEAN}

TwoListeners(engine) ==
    <<[Lst("a", Addr("127.0.0.1", 1), None, "google") EXCEPT !.engine = engine],
      Lst("b", Addr("127.0.0.1", 2), None, "azure")>>

MCConfigs ==
    {Config(h, FALSE, FALSE, ls, <<>>) : h \in Heads, ls \in ListenerSeqs}
    \cup {Config(h, TRUE, key, TwoListeners("mysql"), <<p>>) :
            h \in Heads, key \in BOOLEAN, p \in Principals("p")}
    \cup {Config(<<None, None>>, FALSE, FALSE, TwoListeners(engine), <<p, q>>) :
            engine \in {"mysql", "postgres"}, p \in Principals("p"), q \in Principals("q") \cup Principals("p")}

MCOptions ==
    {[inMemory |-> FALSE, certificate |-> FALSE, command |-> FALSE],
     [inMemory |-> TRUE, certificate |-> FALSE, command |-> FALSE],
     [inMemory |-> FALSE, certificate |-> TRUE, command |-> FALSE],
     [inMemory |-> FALSE, certificate |-> FALSE, command |-> TRUE]}
=============================================================================
