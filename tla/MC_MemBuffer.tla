--------------------------- MODULE MC_MemBuffer ---------------------------
(* Instances of MemBuffer for TLC.                                         *)
EXTENDS MemBuffer

CONSTANTS r1, w1, w2
=============================================================================
