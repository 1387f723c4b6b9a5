---------------------------- MODULE MCWorkQueue ----------------------------
(* An instance of WorkQueue for TLC.                                       *)
EXTENDS WorkQueue

CONSTANTS w1, w2, w3, t1, t2, t3, t4, t5
=============================================================================
