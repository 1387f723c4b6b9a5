---------------------------- MODULE JsonSession ----------------------------
(***************************************************************************)
(* One JSON connection: ServerSession with the CjsonContext that its tasks *)
(* share (json_context.h) and the loop of CjsonTask::run (json_server.h):  *)
(* look for a complete object or array, hand it to jsonRpc, and again.  A  *)
(* packet may end anywhere in a message, and a task may find the packets   *)
(* of others merged.                                                       *)
(***************************************************************************)
EXTENDS ServerSession, FiniteSetsExt

VARIABLE needClear      \* bNeedClear of each worker's task

vars == <<sessionVars, needClear>>

Init ==
    /\ InitSession([bytes |-> <<>>, length |-> 0, overflow |-> FALSE,
                    index |-> 0, state |-> "start", depth |-> 0, start |-> 0])
    /\ needClear = [w \in Workers |-> FALSE]

-----------------------------------------------------------------------------
(* CjsonContext.                                                           *)

Space     == " "
Openers   == {"{", "["}
Closer(b) == IF b = "{" THEN "}" ELSE "]"
Kind(b)   == IF b = "{" THEN "object" ELSE "array"
Ended(c)  == c.state \in {"done", "bad"}
AtEnd(c)  == Len(c.bytes) <= c.index

\* Mutant of Scanned: any closing bracket closes.
ScannedAnyKind(c) ==
    LET b     == c.bytes[c.index + 1]
        depth == CASE b \in Openers -> c.depth + 1
                   [] b \in {"}", "]"} -> c.depth - 1
                   [] OTHER -> c.depth
    IN  IF c.state = "start"
        THEN CASE b = Space -> [c EXCEPT !.index = @ + 1]
               [] b \in Openers -> [c EXCEPT !.state = Kind(b), !.depth = @ + 1,
                                             !.start = c.index, !.index = @ + 1]
               [] OTHER -> [c EXCEPT !.state = "bad"]
        ELSE [c EXCEPT !.depth = depth, !.index = @ + 1,
                       !.state = IF depth = 0 THEN "done" ELSE @]

\* analysis looks at one byte.
Scanned(c) ==
    LET b     == c.bytes[c.index + 1]
        open  == IF c.state = "object" THEN "{" ELSE "["
        depth == CASE b = open -> c.depth + 1
                   [] b = Closer(open) -> c.depth - 1
                   [] OTHER -> c.depth
    IN  IF c.state = "start"
        THEN CASE b = Space -> [c EXCEPT !.index = @ + 1]
               [] b \in Openers -> [c EXCEPT !.state = Kind(b), !.depth = @ + 1,
                                             !.start = c.index, !.index = @ + 1]
               [] OTHER -> [c EXCEPT !.state = "bad"]
        ELSE [c EXCEPT !.depth = depth, !.index = @ + 1,
                       !.state = IF depth = 0 THEN "done" ELSE @]

Content(c) == SubSeq(c.bytes, c.start + 1, c.index)

Restarted(c) == [c EXCEPT !.state = "start", !.depth = 0, !.start = c.index]

Cleared(c) ==
    CASE c.state = "done" ->
           [c EXCEPT !.bytes = Rest(c, c.index), !.index = 0, !.state = "start",
                     !.depth = 0, !.start = 0]
      [] c.state \notin {"done", "bad"} /\ c.start # 0 ->
           [c EXCEPT !.bytes = Rest(c, c.start), !.index = @ - c.start, !.start = 0]
      [] OTHER -> c

-----------------------------------------------------------------------------
(* CjsonTask::run, from the guard on.                                      *)

LocksForJson(w) ==
    /\ Locks(w)
    /\ needClear' = [needClear EXCEPT ![w] = FALSE]

\* analysis ends with true ...
FindsEnd(w) ==
    /\ Goes(w, "scan", "found")
    /\ Ended(context)
    /\ UNCHANGED <<session, callback, raw, queued, lock, context, closes, received,
                   handled, needClear>>

\* ... or with false, when there is nothing left to decode.
NeedsMore(w) ==
    /\ Goes(w, "scan", "end")
    /\ ~Ended(context) /\ AtEnd(context)
    /\ UNCHANGED <<session, callback, raw, queued, lock, context, closes, received,
                   handled, needClear>>

Scan(w) ==
    /\ at[w] = "scan"
    /\ ~Ended(context) /\ ~AtEnd(context)
    /\ context' = Scanned(context)
    /\ UNCHANGED <<session, callback, raw, queued, at, lock, closes, received,
                   handled, needClear>>

\* Mutant of Handles: the task is done after one message.
HandlesOne(w) ==
    /\ Goes(w, "found", "end")
    /\ ~Unique /\ context.state = "done"
    /\ handled' = Append(handled, Content(context))
    /\ context' = Restarted(context)
    /\ needClear' = [needClear EXCEPT ![w] = TRUE]
    /\ UNCHANGED <<session, callback, raw, queued, lock, closes, received>>

\* jsonRpc, restart, and once more.
Handles(w) ==
    /\ Goes(w, "found", "merge")
    /\ ~Unique /\ context.state = "done"
    /\ handled' = Append(handled, Content(context))
    /\ context' = Restarted(context)
    /\ needClear' = [needClear EXCEPT ![w] = TRUE]
    /\ UNCHANGED <<session, callback, raw, queued, lock, closes, received>>

Closes(w) ==
    /\ Goes(w, "found", "end")
    /\ Unique \/ context.state = "bad"
    /\ closes' = TRUE
    /\ UNCHANGED <<session, callback, raw, queued, lock, context, received, handled,
                   needClear>>

\* clear, and the guard is released.
Ends(w) ==
    /\ Goes(w, "end", "return")
    /\ context' = IF needClear[w] THEN Cleared(context) ELSE context
    /\ lock' = Nobody
    /\ UNCHANGED <<session, callback, raw, queued, closes, received, handled, needClear>>

Step(w) == \/ CommonStep(w) /\ UNCHANGED needClear
           \/ LocksForJson(w) \/ FindsEnd(w) \/ NeedsMore(w) \/ Scan(w)
           \/ Handles(w) \/ Closes(w) \/ Ends(w)

Next == \/ LoopThread /\ UNCHANGED needClear
        \/ \E w \in Workers : Step(w)

Spec == Init /\ [][Next]_vars

\* The loop thread returns from packet, and the workers of the queue run; no
\* packet has to come, and the connection need not end.
FairSpec == /\ Spec
            /\ WF_vars(PushTask /\ UNCHANGED needClear)
            /\ \A w \in Workers : WF_vars(Step(w))

-----------------------------------------------------------------------------
(* The messages of a stream, by their definition: what stands between an   *)
(* opening bracket and the closing bracket that balances it, with white    *)
(* space between the messages.  Brackets of the other kind do not count,   *)
(* and neither does it matter whether a bracket stands in a string.        *)

Stream == FlattenSeq(received)

Count(b, s) == Cardinality({i \in DOMAIN s : s[i] = b})

Starts(s) == {i \in DOMAIN s : s[i] # Space /\ \A j \in 1 .. i - 1 : s[j] = Space}

\* Where the message that starts at i may end.
EndsOf(s, i) == {j \in i .. Len(s) : LET m == SubSeq(s, i, j)
                                    IN  Count(s[i], m) = Count(Closer(s[i]), m)}

Framed[s \in Seq(STRING)] ==
    IF Starts(s) = {} THEN <<>>
    ELSE LET from == CHOOSE i \in Starts(s) : TRUE
         IN  IF s[from] \notin Openers \/ EndsOf(s, from) = {} THEN <<>>
             ELSE LET to == Min(EndsOf(s, from))
                  IN  <<SubSeq(s, from, to)>> \o Framed[SubSeq(s, to + 1, Len(s))]

\* Does something follow the messages that is none?
Malformed[s \in Seq(STRING)] ==
    IF Starts(s) = {} THEN FALSE
    ELSE LET from == CHOOSE i \in Starts(s) : TRUE
         IN  \/ s[from] \notin Openers
             \/ /\ EndsOf(s, from) # {}
                /\ Malformed[SubSeq(s, Min(EndsOf(s, from)) + 1, Len(s))]

-----------------------------------------------------------------------------
(* Properties.                                                             *)

TypeOK ==
    /\ SessionTypeOK
    /\ needClear \in [Workers -> BOOLEAN]
    /\ context.state \in {"start", "object", "array", "done", "bad"}
    /\ context.overflow \in BOOLEAN

\* Every variable has its type, and one worker at a time is past the guard; the
\* bytes, the message among them and the place of the analysis stay
\* inside the buffer, and the buffer inside its limit, through every growth,
\* restart and shift.
InBounds ==
    /\ TypeOK
    /\ Len(context.bytes) <= context.length /\ context.length <= MaxSize
    /\ 0 <= context.start /\ context.start <= context.index
    /\ context.index <= Len(context.bytes)
    /\ context.depth >= 0
    /\ context.depth > 0 <=> context.state \in {"object", "array"}

\* However the stream is cut into packets, and whichever workers run, jsonRpc
\* is called with the messages of the stream, once each and in their order,
\* as long as nothing was dropped.
MessagesInOrder == ~context.overflow => IsPrefix(handled, Framed[Stream])

\* When no task is left, nothing is left to do: all messages that have come
\* were handled, although a task may have found the lock taken or the packets
\* merged by another; and the socket is asked to close if the stream is bad.
NothingForgotten ==
    Quiet /\ ~context.overflow
        => handled = Framed[Stream] /\ closes = Malformed[Stream]

\* A message that has come complete is handled in the end, unless the
\* connection ends or a packet is dropped.
MessageHandled ==
    \A n \in 1 .. MaxPackets :
        Len(Framed[Stream]) >= n ~> (Len(handled) >= n \/ ~session \/ context.overflow)
=============================================================================
