---------------------------- MODULE MCSharedPtr ----------------------------
(* An instance of SharedPtr for TLC.                                       *)
EXTENDS SharedPtr

CONSTANTS t1, t2, h1, h2, h3, h4, o1, o2
=============================================================================
