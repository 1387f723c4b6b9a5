--------------------------- MODULE MCHttpSession ---------------------------
(* An instance of HttpSession for TLC.                                     *)
EXTENDS HttpSession

CONSTANTS w1, w2

\* Packets that begin, continue, end or hold whole requests: without a body,
\* with a length, in chunks with a footer, that keep alive or close, and that
\* are bad; the joints cut headers, line ends, bodies and chunk sizes.  The
\* last one is a body, with the next request, or announces the largest chunk
\* that fits in SizeRange with its line end.
MCPackets ==
    { <<"keep", "CR", "LF", "CR", "LF">>,
      <<"length 2", "CR", "LF", "CR">>,
      <<"chunked", "CR", "LF", "CR", "LF", " ", "d2", "CR", "LF", "x", "x", "CR">>,
      <<"LF", "d2", "CR", "LF", "x", "x", "CR", "LF", "d0", "x", "CR", "LF", "CR", "LF">>,
      <<"LF", "d1", "dd", "close", "CR", "LF", "CR", "LF">> }
=============================================================================
