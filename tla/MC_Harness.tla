---------------------------- MODULE MC_Harness ----------------------------
(* Instances of Harness for TLC.                                           *)
EXTENDS Harness
=============================================================================
