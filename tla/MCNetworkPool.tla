--------------------------- MODULE MCNetworkPool ---------------------------
(* An instance of NetworkPool for TLC.                                     *)
EXTENDS NetworkPool

CONSTANTS c1, bindReq, connectReq, sendReq, closeReq

\* The requests of a user who listens or connects, sends and closes, in any
\* order.  The numbers are those of RequestQueue: this definition is what its
\* KindOf becomes, so it cannot name the kinds through the instance.
MCKindOf == [r \in Requests |-> CASE r = bindReq -> 1
                                  [] r = sendReq -> 2
                                  [] r = connectReq -> 4
                                  [] r = closeReq -> 5]

MCSocketOf == [r \in Requests |-> 1]
=============================================================================
