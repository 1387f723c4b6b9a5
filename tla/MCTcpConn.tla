------------------------------ MODULE MCTcpConn ------------------------------
(* Instances of TcpConn for TLC.                                           *)
EXTENDS TcpConn, TLC

CONSTANTS b1, b2, b3

BufSymmetry == Permutations(Bufs)
=============================================================================
