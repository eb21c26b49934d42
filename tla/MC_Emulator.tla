---------------------------- MODULE MC_Emulator ----------------------------
(* Instances of Emulator for TLC.                                          *)
EXTENDS Emulator

CONSTANTS t1, m1, h1, c1, c2, c3

(* Start binds the TCP listener, then its in-memory twin, then HTTP.       *)
MCBindOrder == <<t1, m1, h1>>
=============================================================================
