-------------------------- MODULE MCSocketServers --------------------------
(* Instances of SocketServers for TLC.                                     *)
EXTENDS SocketServers

CONSTANTS b1, b2

\* Whichever is bound first has the id 1, unless the bind failed or the id was
\* given to an accepted connection.
MCRequests == {[op |-> "bindTcp"], [op |-> "bindUdp"],
               [op |-> "unbindTcp", id |-> 1], [op |-> "unbindUdp", id |-> 1],
               [op |-> "sendUdp", id |-> 1, buf |-> b1],
               [op |-> "sendUdp", id |-> 1, buf |-> b2]}
=============================================================================
