--------------------------- MODULE MCJsonSession ---------------------------
(* An instance of JsonSession for TLC.                                     *)
EXTENDS JsonSession

CONSTANTS w1, w2

\* Packets that begin, continue, end or hold whole messages of both kinds, that
\* nest, that mix white space and another kind of bracket, and that are bad.
MCPackets == { <<"{">>, <<"}">>, <<"{", "}", " ", "[">>, <<"]", "}", "{", "}">>,
               <<"{", "}", "x">> }
=============================================================================
