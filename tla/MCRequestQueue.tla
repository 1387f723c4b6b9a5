--------------------------- MODULE MCRequestQueue ---------------------------
(* An instance of RequestQueue for TLC.                                    *)
EXTENDS RequestQueue

CONSTANTS c1, c2, bindReq, send1, send2, closeReq

\* The requests of a user who listens, sends twice, and closes.
MCKindOf == [r \in Requests |-> CASE r = bindReq -> Bind
                                  [] r \in {send1, send2} -> SendTcp
                                  [] r = closeReq -> Close]
=============================================================================
