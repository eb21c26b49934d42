-------------------------- MODULE MC_MySQLSession --------------------------
(* Instances of MySQLSession for TLC.                                      *)
EXTENDS MySQLSession

MCFraming == {"DEPRECATE_EOF", "MULTI_RESULTS", "SESSION_TRACK"}
MCAskedByDefault == {"DEPRECATE_EOF"}
=============================================================================
