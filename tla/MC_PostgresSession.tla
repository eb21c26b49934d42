------------------------ MODULE MC_PostgresSession ------------------------
(* Instances of PostgresSession for TLC.                                   *)
EXTENDS PostgresSession, TLC

CONSTANTS c1, c2, c3, l1, l2, u1, u2, k1, k2

MCUpstream == (l1 :> u1) @@ (l2 :> u2)

Symmetry == Permutations(Conns) \cup Permutations(Keys)
=============================================================================
