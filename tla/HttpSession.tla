---------------------------- MODULE HttpSession ----------------------------
(***************************************************************************)
(* One HTTP connection: ServerSession with the context of HttpContext and  *)
(* the loop of ChttpTask::run (http_server.h): look for a complete         *)
(* request, answer it, and again, unless the request asked to close.       *)
(***************************************************************************)
EXTENDS ServerSession, HttpContext

Init == InitSession(NewContext)

-----------------------------------------------------------------------------
(* ChttpTask::run, from the guard on.                                      *)

\* An overflow is final.
Overflows(w) ==
    /\ Goes(w, "scan", "found")
    /\ context.overflow
    /\ context' = Bad(context)
    /\ UNCHANGED <<session, callback, raw, queued, lock, closes, received, handled>>

FindsEnd(w) ==
    /\ Goes(w, "scan", "found")
    /\ ~context.overflow /\ Ended(context)
    /\ UNCHANGED <<session, callback, raw, queued, lock, context, closes, received,
                   handled>>

NeedsMore(w) ==
    /\ Goes(w, "scan", "end")
    /\ ~context.overflow /\ ~Ended(context) /\ Waits(context)
    /\ UNCHANGED <<session, callback, raw, queued, lock, context, closes, received,
                   handled>>

Turn(w) ==
    /\ at[w] = "scan"
    /\ ~context.overflow /\ ~Ended(context) /\ ~Waits(context)
    /\ context' = Turned(context)
    /\ UNCHANGED <<session, callback, raw, queued, at, lock, closes, received, handled>>

\* What a handler of the request can ask the context for.
Request(c) == [content |-> Content(c), keepAlive |-> c.keepAlive]

\* Mutant of Answers: the task is done after one request.
AnswersOne(w) ==
    /\ Goes(w, "found", "end")
    /\ ~Unique /\ context.state = "done" /\ context.keepAlive
    /\ handled' = Append(handled, Request(context))
    /\ context' = Cleared(context)
    /\ UNCHANGED <<session, callback, raw, queued, lock, closes, received>>

\* sendTcp, clear, and once more.
Answers(w) ==
    /\ Goes(w, "found", "merge")
    /\ ~Unique /\ context.state = "done" /\ context.keepAlive
    /\ handled' = Append(handled, Request(context))
    /\ context' = Cleared(context)
    /\ UNCHANGED <<session, callback, raw, queued, lock, closes, received>>

\* Mutant of AnswersLast: the answer is sent but the socket is left open.
AnswersLastAndStays(w) ==
    /\ Goes(w, "found", "end")
    /\ ~Unique /\ context.state = "done" /\ ~context.keepAlive
    /\ handled' = Append(handled, Request(context))
    /\ UNCHANGED <<session, callback, raw, queued, lock, context, closes, received>>

\* sendTcp and close.  The context stays done: the next task answers again.
AnswersLast(w) ==
    /\ Goes(w, "found", "end")
    /\ ~Unique /\ context.state = "done" /\ ~context.keepAlive
    /\ handled' = Append(handled, Request(context))
    /\ closes' = TRUE
    /\ UNCHANGED <<session, callback, raw, queued, lock, context, received>>

Closes(w) ==
    /\ Goes(w, "found", "end")
    /\ Unique \/ context.state = "bad"
    /\ closes' = TRUE
    /\ UNCHANGED <<session, callback, raw, queued, lock, context, received, handled>>

\* The guard is released.
Ends(w) ==
    /\ Goes(w, "end", "return")
    /\ lock' = Nobody
    /\ UNCHANGED <<session, callback, raw, queued, context, closes, received, handled>>

Step(w) == \/ CommonStep(w) \/ Locks(w)
           \/ Overflows(w) \/ FindsEnd(w) \/ NeedsMore(w) \/ Turn(w)
           \/ Answers(w) \/ AnswersLast(w) \/ Closes(w) \/ Ends(w)

Next == LoopThread \/ \E w \in Workers : Step(w)

Spec == Init /\ [][Next]_sessionVars

\* As for JsonSession: the loop thread returns from packet, the workers run.
FairSpec == /\ Spec
            /\ WF_sessionVars(PushTask)
            /\ \A w \in Workers : WF_sessionVars(Step(w))

-----------------------------------------------------------------------------
(* The requests of a stream, by their definition.  A header, or a footer,  *)
(* ends with the first empty line; the end of a line is a line feed, which *)
(* must follow a carriage return.                                          *)

EmptyLines(s) == {i \in 2 .. Len(s) : /\ s[i - 1] = "CR" /\ s[i] = "LF"
                                      /\ i = 2 \/ s[i - 2] = "LF"}
BlockEnd(s)   == IF EmptyLines(s) = {} THEN Len(s) ELSE Min(EmptyLines(s))
BareFeeds(s)  == {i \in 1 .. BlockEnd(s) : s[i] = "LF" /\ (i = 1 \/ s[i - 1] # "CR")}
BlockState(s) == IF BareFeeds(s) # {} THEN "bad"
                 ELSE IF EmptyLines(s) = {} THEN "open" ELSE "whole"

\* Fields: what stands in a line alone, but for blanks.  The last one counts.
SameLine(s, i, j) == \A k \in Min({i, j}) .. Max({i, j}) - 1 : s[k] # "LF"

Says(s, fields, default) ==
    LET alone == {i \in DOMAIN s : \A j \in DOMAIN s : SameLine(s, i, j)
                       => (j = i <=> s[j] \notin Blanks \union {"LF"})}
        found == {i \in alone : s[i] \in fields}
    IN  IF found = {} THEN default ELSE s[Max(found)]

\* The size of a chunk: the digits that the line begins with, after blanks.
SizeIn(line) ==
    LET isDigit(i) == line[i] \in DOMAIN Digit
        leads(i)   == \A j \in 1 .. i : line[j] \in Blanks
        digits == {i \in DOMAIN line : /\ isDigit(i)
                                       /\ \A j \in 1 .. i - 1 : isDigit(j) \/ leads(j)}
        worth(i) == Digit[line[i]] * 16^(Max(digits) - i)
    IN  MapThenSumSet(worth, digits)

\* The chunks of s and the footer, from the byte before them on.
Chunks[s \in Seq(STRING)] ==
    LET feeds == {i \in 2 .. Len(s) : s[i] = "LF"}
        feed  == Min(feeds)
        size  == SizeIn(SubSeq(s, 2, feed - 2))
        after == SubSeq(s, feed + 1, Len(s))
        more  == Chunks[SubSeq(after, size + 2, Len(after))]
        none(state) == [state |-> state, content |-> <<>>, length |-> 0]
    IN  IF feeds = {} THEN none("open")
        ELSE IF s[feed - 1] # "CR" THEN none("bad")
        ELSE IF size = 0
        THEN [none(BlockState(after)) EXCEPT !.length = feed - 1 + BlockEnd(after)]
        ELSE IF Len(after) < size + 2 THEN none("open")
        ELSE [more EXCEPT !.content = SubSeq(after, 1, size) \o @,
                          !.length = feed - 1 + size + 2 + @]

Plain(s, length) == [state |-> IF length <= Len(s) THEN "whole" ELSE "open",
                     content |-> SubSeq(s, 1, Min({length, Len(s)})),
                     length |-> length]

LengthIn(header) ==
    LET field == Says(header, {"length 0", "length 2", "length -1"}, "length 0")
    IN  CASE field = "length 0" -> 0
          [] field = "length 2" -> 2
          [] field = "length -1" -> SizeRange - 1

\* The first request of s.
First(s) ==
    LET header == SubSeq(s, 1, BlockEnd(s))
        body   == IF Says(header, {"chunked", "identity"}, "identity") = "chunked"
                  THEN Chunks[SubSeq(s, BlockEnd(s), Len(s))]
                  ELSE Plain(SubSeq(s, BlockEnd(s) + 1, Len(s)), LengthIn(header))
    IN  IF BlockState(s) # "whole" THEN [state |-> BlockState(s)]
        ELSE [state     |-> body.state,
              request   |-> [content |-> body.content, keepAlive |->
                                 Says(header, {"keep", "close"}, "keep") = "keep"],
              length    |-> Len(header) + body.length]

Framed[s \in Seq(STRING)] ==
    LET first == First(s)
    IN  IF first.state # "whole" THEN <<>>
        ELSE IF ~first.request.keepAlive THEN <<first.request>>
        ELSE <<first.request>> \o Framed[SubSeq(s, first.length + 1, Len(s))]

\* Does the stream ask for the end of the connection, by a request or by bytes
\* that are none?
AsksForEnd[s \in Seq(STRING)] ==
    LET first == First(s)
    IN  \/ first.state = "bad"
        \/ /\ first.state = "whole"
           /\ first.request.keepAlive => AsksForEnd[SubSeq(s, first.length + 1, Len(s))]

\* Both, for what the connection may have received; with @@ TLC makes tables of
\* them, once.
Streams  == BoundedSeq(Packets, MaxPackets)
Requests == [packets \in Streams |-> Framed[FlattenSeq(packets)]] @@ <<>>
WantsEnd == [packets \in Streams |-> AsksForEnd[FlattenSeq(packets)]] @@ <<>>

-----------------------------------------------------------------------------
(* Properties.                                                             *)

InsideOne(c, span) == span[1] + span[2] <= Len(c.bytes)
Inside(c, spans)   == \A i \in DOMAIN spans : InsideOne(c, spans[i])

\* Is ChunkNeed of this chunk what it should be?
Fits(chunk) == chunk[2] + 2 < SizeRange

TypeOK ==
    /\ SessionTypeOK
    /\ context.state \in {"start", "header", "body", "chunk header", "chunk body",
                          "chunk footer", "done", "bad"}
    /\ context.index \in Nat /\ context.contentLength \in 0 .. SizeRange - 1
    /\ context.chunk.size \in 0 .. SizeRange - 1

\* Every variable has its type, and one worker at a time is past the guard; the
\* bytes, the lines among them and the place of the analysis stay inside the
\* buffer through growth, analysis and shift, and so do the chunks whose size
\* and two more bytes are a size_t; the shorter copy that extract and
\* reinitForNext make of a request with such chunks holds all of them, and has
\* the same content.  Nothing is claimed of a chunk of the two largest sizes:
\* the sum that analysis compares wraps for it, so that it is taken at once.
InBounds ==
    /\ TypeOK
    /\ Len(context.bytes) <= context.length /\ context.length <= MaxSize
    /\ context.index <= Len(context.bytes)
    /\ context.headerSize <= context.index
    /\ Inside(context, SelectSeq(context.lines, LAMBDA line : line[2] # Unknown))
    /\ \A i \in DOMAIN context.chunks :
         Fits(context.chunks[i]) => InsideOne(context, context.chunks[i])
    /\ context.state = "done" /\ (\A i \in DOMAIN context.chunks : Fits(context.chunks[i])) =>
         LET copy == Copied(context)
         IN  /\ Inside(copy, copy.lines) /\ Inside(copy, copy.chunks)
             /\ Content(copy) = Content(context)

\* However the stream is cut into packets, and whichever workers run, the
\* requests of the stream are answered in their order and once each, with their
\* whole body; only the last one, if it asks to close, may be answered again,
\* once for each packet that comes after it.
AnswersInOrder ==
    LET requests == Requests[received]
    IN  \/ context.overflow
        \/ IsPrefix(handled, requests)
        \/ /\ requests # <<>> /\ ~Last(requests).keepAlive
           /\ IsPrefix(requests, handled)
           /\ \A i \in Len(requests) + 1 .. Len(handled) : handled[i] = Last(requests)
           /\ Len(handled) - Len(requests) < Len(received)

\* When no task is left, every request that has come is answered, and the pool
\* is asked to close the socket if and only if the stream wants it or bytes
\* were dropped.
NothingForgotten ==
    Quiet => IF context.overflow THEN closes
             ELSE IsPrefix(Requests[received], handled) /\ closes = WantsEnd[received]

\* A request that has come complete is answered in the end, unless the
\* connection ends or a packet is dropped.
RequestAnswered ==
    \A n \in 1 .. MaxPackets :
        LET settled == Len(handled) >= n \/ ~session \/ context.overflow
        IN  ~settled /\ Len(Requests[received]) >= n ~> settled
=============================================================================
