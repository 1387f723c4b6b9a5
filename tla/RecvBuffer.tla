----------------------------- MODULE RecvBuffer -----------------------------
(***************************************************************************)
(* CrecvBuffer (recv_buffer.h) as operators on records: bytes are the      *)
(* first m_nowIndex bytes of m_buffer, length its m_length (0 before the   *)
(* first merge), overflow is m_bOverflow.  The contexts of both servers    *)
(* are derived from it; their records have these fields and others.        *)
(***************************************************************************)
EXTENDS Integers, Sequences, SequencesExt

CONSTANTS InitialBufferSize, MaxBufferSize

\* merge doubles the size of the buffer until the packets fit, which ends only
\* if the size is not 0.
ASSUME SizeAssumption == InitialBufferSize \in Nat \ {0} /\ MaxBufferSize \in Nat

EmptyBuffer == [bytes |-> <<>>, length |-> 0, overflow |-> FALSE]

MaxSize == IF MaxBufferSize < InitialBufferSize THEN InitialBufferSize ELSE MaxBufferSize

\* The size after the doublings that make room for more bytes, capped.
Grown(length, used, more) ==
    LET doubled[n \in Nat \ {0}] == IF n - used >= more THEN n ELSE doubled[2 * n]
    IN  IF doubled[length] > MaxSize THEN MaxSize ELSE doubled[length]

\* Mutant of Resized: what the old memory held is lost with it.
ResizedEmpty(c, prefer, valid) ==
    IF prefer <= c.length THEN [c EXCEPT !.length = prefer]
    ELSE [c EXCEPT !.length = prefer, !.bytes = <<>>]

\* Cbuffer::resize, for a buffer whose m_length is its m_maxLength: new memory
\* holds the valid bytes of the old one.
Resized(c, prefer, valid) ==
    IF prefer <= c.length THEN [c EXCEPT !.length = prefer]
    ELSE [c EXCEPT !.length = prefer,
                   !.bytes = SubSeq(@, 1, IF valid > c.length THEN c.length ELSE valid)]

\* Mutant of Merged: the buffer is grown by what it lacks of the packets alone.
MergedTooShort(c, packets) ==
    LET first == IF c.length = 0 THEN Resized(c, InitialBufferSize, 0) ELSE c
        used == Len(c.bytes)
        more == Len(FlattenSeq(packets))
    IN  IF packets = <<>> THEN first
        ELSE IF more + used > MaxSize THEN [first EXCEPT !.overflow = TRUE]
        ELSE [Resized(first, Grown(first.length, 0, more), used)
                  EXCEPT !.bytes = @ \o FlattenSeq(packets)]

\* What does not fit is dropped as a whole, and the flag is all that is left.
Merged(c, packets) ==
    LET first == IF c.length = 0 THEN Resized(c, InitialBufferSize, 0) ELSE c
        used == Len(c.bytes)
        more == Len(FlattenSeq(packets))
    IN  IF packets = <<>> THEN first
        ELSE IF more + used > MaxSize THEN [first EXCEPT !.overflow = TRUE]
        ELSE [Resized(first, Grown(first.length, used, more), used)
                  EXCEPT !.bytes = @ \o FlattenSeq(packets)]

\* What a clear of the contexts leaves when it shifts the bytes.
Rest(c, from) == SubSeq(c.bytes, from + 1, Len(c.bytes))
=============================================================================
