----------------------------- MODULE HttpContext -----------------------------
(***************************************************************************)
(* ChttpContext (http_context.h) as operators on records that extend those *)
(* of RecvBuffer.  index is m_analysisIndex; a line or a chunk is the pair *)
(* the code keeps, <<first, length>> with places counted from 0.           *)
(*                                                                         *)
(* A byte is "CR", "LF", " ", a digit or another value.  A header field is *)
(* one byte: alone in its line but for blanks it is the field that         *)
(* kvDecoder knows by that name, in company it is none.  Neither the       *)
(* spelling of the fields nor the zeros that analysis writes over the ends *)
(* of the lines are modelled.                                              *)
(***************************************************************************)
EXTENDS RecvBuffer, FiniteSetsExt, TLC

\* The values of a size_t are 0 .. SizeRange - 1.
CONSTANT SizeRange

ASSUME RangeAssumption == SizeRange \in Nat /\ SizeRange > MaxBufferSize

Unknown == SizeRange - 1
NoSize == [size |-> 0, start |-> FALSE, done |-> FALSE]

\* init; the state before the first analysis is not told apart.
Initial == [state |-> "start", index |-> 0, lines |-> <<>>, headerSize |-> 0,
            keepAlive |-> TRUE, chunked |-> FALSE, contentLength |-> 0,
            chunk |-> NoSize, chunks |-> <<>>]

NewContext == Initial @@ EmptyBuffer

-----------------------------------------------------------------------------
(* The fields of the header.                                               *)

Blanks == {" ", "CR"}
Text(c, line) == SubSeq(c.bytes, line[1] + 1, line[1] + line[2])

Field(c, line) ==
    LET IsNoBlank(b) == b \notin Blanks
        rest == SelectSeq(Text(c, line), IsNoBlank)
    IN  IF Len(rest) = 1 THEN rest[1] ELSE "none"

\* atoi makes an int of the length, and the assignment a size_t of it.
kvDecoder(c, field) ==
    CASE field \in {"keep", "close"} -> [c EXCEPT !.keepAlive = field = "keep"]
      [] field \in {"chunked", "identity"} -> [c EXCEPT !.chunked = field = "chunked"]
      [] field = "length 0" -> [c EXCEPT !.contentLength = 0]
      [] field = "length 2" -> [c EXCEPT !.contentLength = 2]
      [] field = "length -1" -> [c EXCEPT !.contentLength = SizeRange - 1]
      [] OTHER -> c

decoderHeaderAndUpdateState(c) ==
    LET Decode(d, line) == kvDecoder(d, Field(c, line))
        read == FoldLeft(Decode, c, c.lines)
    IN  CASE read.chunked -> [read EXCEPT !.state = "chunk header", !.chunk = NoSize]
          [] ~read.chunked /\ read.contentLength > 0 -> [read EXCEPT !.state = "body"]
          [] OTHER -> [read EXCEPT !.state = "done"]

-----------------------------------------------------------------------------
(* One turn of analysis: what it does from one look for bytes to the next. *)

Ended(c)  == c.state \in {"done", "bad"}
Bad(c)    == [c EXCEPT !.state = "bad"]
AtEnd(c)  == Len(c.bytes) <= c.index
Left(c)   == Len(c.bytes) - c.index

\* The next line feed, if there is one.
Feeds(c)  == {i \in c.index + 1 .. Len(c.bytes) : c.bytes[i] = "LF"}

WithLine(c) == [c EXCEPT !.lines = Append(@, <<c.index, Unknown>>)]

Start(c) == IF c.index # 0 \/ c.bytes[1] = "LF" THEN Bad(c)
            ELSE WithLine([c EXCEPT !.state = "header"])

BlankLine(c) ==
    IF c.state = "header"
    THEN decoderHeaderAndUpdateState([c EXCEPT !.headerSize = c.index])
    ELSE [c EXCEPT !.state = "done"]

\* A line of the header or of the footer.
ReadLine(c) ==
    IF Feeds(c) = {} THEN [c EXCEPT !.index = Len(c.bytes)]
    ELSE LET feed  == Min(Feeds(c))
             first == Last(c.lines)[1]
             read  == [c EXCEPT !.index = feed,
                                !.lines = Append(Front(@), <<first, feed - 2 - first>>)]
         IN  IF c.bytes[feed - 1] # "CR" THEN Bad(c)
             ELSE IF feed - 2 = first THEN BlankLine([read EXCEPT !.lines = Front(@)])
             ELSE WithLine(read)

Body(c) == [c EXCEPT !.chunks = Append(@, <<c.index, c.contentLength>>),
                     !.index = @ + c.contentLength, !.state = "done"]

Digit == [d0 |-> 0, d1 |-> 1, d2 |-> 2, dd |-> 13]

\* A byte of the line with the size of a chunk.
Sized(chunk, b) ==
    CASE chunk.done -> chunk
      [] ~chunk.done /\ b \in DOMAIN Digit ->
           [chunk EXCEPT !.size = (@ * 16 + Digit[b]) % SizeRange, !.start = TRUE]
      [] OTHER -> [chunk EXCEPT !.done = chunk.start \/ b \notin Blanks]

ChunkHeader(c) ==
    LET feed  == IF Feeds(c) = {} THEN Len(c.bytes) + 1 ELSE Min(Feeds(c))
        chunk == FoldLeft(Sized, c.chunk, SubSeq(c.bytes, c.index + 1, feed - 1))
        read  == [c EXCEPT !.index = feed, !.chunk = chunk]
    IN  CASE Feeds(c) = {} -> [read EXCEPT !.index = Len(c.bytes)]
          [] Feeds(c) # {} /\ c.bytes[feed - 1] # "CR" -> Bad(c)
          [] Feeds(c) # {} /\ c.bytes[feed - 1] = "CR" ->
               IF chunk.size > 0 THEN [read EXCEPT !.state = "chunk body"]
               ELSE WithLine([read EXCEPT !.state = "chunk footer"])

\* The size of a chunk with the two bytes after it, which are not looked at: a
\* sum of size_t, which is too small for the two largest sizes.
ChunkNeed(c) == (c.chunk.size + 2) % SizeRange

\* Mutant of ChunkBody: the two bytes after a chunk are not skipped.
ChunkBodyOnly(c) == [c EXCEPT !.chunks = Append(@, <<c.index, c.chunk.size>>),
                              !.index = @ + c.chunk.size,
                              !.state = "chunk header", !.chunk = NoSize]

ChunkBody(c) == [c EXCEPT !.chunks = Append(@, <<c.index, c.chunk.size>>),
                          !.index = (@ + ChunkNeed(c)) % SizeRange,
                          !.state = "chunk header", !.chunk = NoSize]

\* Mutant of Waits: a body is taken as soon as it begins.
WaitsForOneByte(c) == AtEnd(c)

\* Does analysis return false here, to be called again with more bytes?
Waits(c) == \/ AtEnd(c)
            \/ c.state = "body" /\ Left(c) < c.contentLength
            \/ c.state = "chunk body" /\ Left(c) < ChunkNeed(c)

Turned(c) ==
    CASE c.state = "start" -> Start(c)
      [] c.state \in {"header", "chunk footer"} -> ReadLine(c)
      [] c.state = "body" -> Body(c)
      [] c.state = "chunk header" -> ChunkHeader(c)
      [] c.state = "chunk body" -> ChunkBody(c)

-----------------------------------------------------------------------------
(* What is done with a context that is done.                               *)

\* getContent.
Content(c) == LET Chunk(chunk) == Text(c, chunk)
              IN  FlattenSeq([i \in DOMAIN c.chunks |-> Chunk(c.chunks[i])])

\* Mutant of Cleared: the context forgets the request but not its bytes.
ClearedInPlace(c) == Initial @@ [c EXCEPT !.bytes = Rest(c, 0)]

\* clear, and what reinitForNext leaves.
Cleared(c) == Initial @@ [c EXCEPT !.bytes = Rest(c, c.index)]

\* What extract and reinitForNext make of the copy: a context that is done.
Copied(c) == [c EXCEPT !.bytes = SubSeq(@, 1, c.index), !.length = c.index,
                       !.chunk = NoSize]
=============================================================================
