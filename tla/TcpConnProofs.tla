--------------------------- MODULE TcpConnProofs ---------------------------
(***************************************************************************)
(* Proofs about TcpConn, for any number of connections and buffers and any *)
(* settings of the timeouts.                                               *)
(*                                                                         *)
(* A step of TcpConn changes one connection (the exit branch all of them,  *)
(* each in the same way), so the invariant is a predicate on one record,   *)
(* Sound, and on how two share the buffers.  An action preserves it when   *)
(* every record that it may make of a sound one is sound.                  *)
(***************************************************************************)
EXTENDS TcpConn, TLAPS

BothHandles == {"tcp", "timer"}

\* The write requests w, the buffers written and those dropped.
Names(w) == {w[i].buf : i \in DOMAIN w}
Held(w, written, dropped) == Names(w) \union written \union dropped
Fate(w, written, dropped) ==
    /\ Names(w) \intersect (written \union dropped) = {}
    /\ written \intersect dropped = {}
    /\ \A i, j \in DOMAIN w : w[i].buf = w[j].buf => i = j

HeldBy(c) == Held(c.writes, c.written, c.dropped)

\* Who owns the object, and what is still under way for it.
Owned(c) ==
    /\ c.map # "none" => c.obj = "live" /\ ~c.closing /\ ~c.shut
    /\ c.map = "stream" => c.started /\ c.reading
    /\ c.map = "connecting" => c.connectReq /\ ~c.started /\ ~c.reading /\ c.writes = <<>>
    /\ c.obj = "live" /\ ~c.closing => c.handles = BothHandles /\ (c.map # "none" \/ c.shutReq)
    /\ c.obj = "live" => c.handles # {}
    /\ c.closing => c.map = "none" /\ ~c.reading /\ c.timer = "off"
    /\ c.obj # "live" => /\ c.handles = {} /\ ~c.reading
                         /\ c.timer = "off"
    /\ "tcp" \notin c.handles => ~c.connectReq /\ ~c.shutReq /\ c.writes = <<>>
    /\ c.obj = "none" => c = NoConn
    /\ c.connectReq /\ ~c.closing => c.map = "connecting"
    /\ c.shutReq => c.shut
    /\ c.stopped => c.started

Timed(c) ==
    /\ c.timer = "idle" => WriteQueueEmpty(c)
    /\ c.timer = "send" => c.writes # <<>> \/ c.shut
    /\ c.timer = "connect" => c.map = "connecting"
    /\ c.map = "stream" /\ c.timer = "off" =>
           "idle" \notin Timeouts \/ ("send" \notin Timeouts /\ c.writes # <<>>)

Sound(c) == /\ c \in Conn
            /\ Owned(c) /\ Timed(c)
            /\ Fate(c.writes, c.written, c.dropped)

IInv ==
    /\ TypeOK
    /\ \A s \in Ids : Sound(conn[s]) /\ (conn[s].stopped => exited)
    /\ \A s, t \in Ids : s # t => HeldBy(conn[s]) \intersect HeldBy(conn[t]) = {}

-----------------------------------------------------------------------------
(* The buffers of one connection.                                          *)

Requests == [buf : Bufs, state : WriteStates]

Queued(w, b) == Append(w, [buf |-> b, state |-> "queued"])

LEMMA AppendFate ==
    ASSUME NEW w \in Seq(Requests), NEW written, NEW dropped, NEW b \in Bufs,
           Fate(w, written, dropped), b \notin Held(w, written, dropped),
           NEW v, v = Queued(w, b)
    PROVE  /\ v \in Seq(Requests) /\ v # <<>>
           /\ Fate(v, written, dropped)
           /\ Held(v, written, dropped) = Held(w, written, dropped) \union {b}
<1>1. [buf |-> b, state |-> "queued"] \in Requests
  BY DEF Requests, WriteStates
<1>2. /\ v \in Seq(Requests) /\ v # <<>> /\ Len(v) = Len(w) + 1
      /\ \A i \in 1 .. Len(w) : v[i] = w[i]
      /\ v[Len(w) + 1].buf = b
  BY <1>1 DEF Queued
<1>3. DOMAIN w = 1 .. Len(w) /\ DOMAIN v = 1 .. (Len(w) + 1) /\ Len(w) \in Nat
  BY <1>2
<1>4. Names(v) = Names(w) \union {b}
  BY <1>2, <1>3 DEF Names
<1>5. b \notin Names(w) /\ b \notin written /\ b \notin dropped
  BY DEF Held
<1>6. \A i, j \in DOMAIN v : v[i].buf = v[j].buf => i = j
  <2> SUFFICES ASSUME NEW i \in DOMAIN v, NEW j \in DOMAIN v, v[i].buf = v[j].buf PROVE i = j
    OBVIOUS
  <2>1. \A k \in 1 .. Len(w) : v[k].buf # b
    BY <1>2, <1>3, <1>5 DEF Names
  <2>2. CASE i = Len(w) + 1 \/ j = Len(w) + 1
    BY <1>2, <1>3, <2>1, <2>2
  <2>3. CASE i # Len(w) + 1 /\ j # Len(w) + 1
    BY <1>2, <1>3, <2>3 DEF Fate
  <2> QED
    BY <2>2, <2>3
<1>7. Fate(v, written, dropped)
  BY <1>4, <1>5, <1>6 DEF Fate
<1>8. Held(v, written, dropped) = Held(w, written, dropped) \union {b}
  BY <1>4 DEF Held
<1> QED
  BY <1>2, <1>7, <1>8

Oldest(w) == Head(w).buf
Others(w) == Tail(w)
Waiting(w) == w # <<>>

\* What taking the oldest request out of w, and calling its buffer written or
\* dropped, leaves.
Handled(w, written, dropped) ==
    LET v == Others(w)  b == Oldest(w)
    IN  /\ v \in Seq(Requests) /\ b \in Bufs
        /\ Fate(v, written \union {b}, dropped)
        /\ Fate(v, written, dropped \union {b})
        /\ Held(v, written \union {b}, dropped) = Held(w, written, dropped)
        /\ Held(v, written, dropped \union {b}) = Held(w, written, dropped)
        /\ \A i \in DOMAIN v : \E j \in DOMAIN w : v[i] = w[j]

LEMMA TailFate ==
    ASSUME NEW w \in Seq(Requests), Waiting(w), NEW written, NEW dropped,
           Fate(w, written, dropped)
    PROVE  Handled(w, written, dropped)
<1>0. PICK v, b : v = Others(w) /\ b = Oldest(w)
  OBVIOUS
<1>1. /\ Len(w) \in Nat /\ Len(w) > 0 /\ DOMAIN w = 1 .. Len(w)
      /\ \A i \in 1 .. Len(w) : w[i] \in Requests
  BY DEF Waiting
<1>2. /\ v \in Seq(Requests) /\ Len(v) = Len(w) - 1
      /\ \A i \in 1 .. Len(v) : v[i] = w[i + 1]
  BY <1>0, <1>1 DEF Others
<1>3. DOMAIN v = 1 .. Len(v)
  BY <1>2
<1>4. Head(w) = w[1] /\ b = w[1].buf
  BY <1>0, <1>1 DEF Oldest
<1>5. b \in Bufs
  BY <1>1, <1>4 DEF Requests
<1>6. /\ \A i \in DOMAIN v : i + 1 \in DOMAIN w /\ v[i] = w[i + 1]
      /\ \A i \in DOMAIN w : i = 1 \/ (i - 1 \in DOMAIN v /\ v[i - 1] = w[i])
  BY <1>1, <1>2, <1>3
<1>7. Names(w) = Names(v) \union {b} /\ b \notin Names(v)
  <2>1. \A i \in DOMAIN v : v[i].buf # b
    BY <1>1, <1>3, <1>4, <1>6 DEF Fate
  <2>2. Names(w) \subseteq Names(v) \union {b}
    <3> SUFFICES ASSUME NEW i \in DOMAIN w PROVE w[i].buf \in Names(v) \union {b}
      BY DEF Names
    <3>1. CASE i = 1
      BY <1>4, <3>1
    <3>2. CASE i - 1 \in DOMAIN v /\ v[i - 1] = w[i]
      BY <3>2 DEF Names
    <3> QED
      BY <1>6, <3>1, <3>2
  <2>3. Names(v) \subseteq Names(w) /\ b \in Names(w)
    <3>1. 1 \in DOMAIN w
      BY <1>1
    <3> QED
      BY <1>4, <1>6, <3>1 DEF Names
  <2> QED
    BY <2>1, <2>2, <2>3 DEF Names
<1>8. \A i, j \in DOMAIN v : v[i].buf = v[j].buf => i = j
  BY <1>1, <1>3, <1>6 DEF Fate
<1>9. /\ Fate(v, written \union {b}, dropped) /\ Fate(v, written, dropped \union {b})
      /\ Held(v, written \union {b}, dropped) = Held(w, written, dropped)
      /\ Held(v, written, dropped \union {b}) = Held(w, written, dropped)
  BY <1>7, <1>8 DEF Fate, Held
<1> QED
  BY <1>0, <1>2, <1>5, <1>6, <1>9 DEF Handled

-----------------------------------------------------------------------------
(* Closing.                                                                *)

\* What every callback may count on until it closes the connection.
Alive(c) == /\ c \in Conn /\ c.obj = "live" /\ c.handles = BothHandles /\ ~c.closing
            /\ c.shutReq => c.shut
            /\ c.stopped => c.started
            /\ Fate(c.writes, c.written, c.dropped)

LEMMA ClosedIsSound ==
    ASSUME NEW c, Alive(c)
    PROVE  LET d == CloseTcp([c EXCEPT !.map = "none"])
           IN  /\ Sound(d) /\ HeldBy(d) = HeldBy(c) /\ d.map = "none" /\ d.closing
               /\ d.obj = "live" /\ d.started = c.started /\ d.stopped = c.stopped
               /\ d.timer = "off"
<1> DEFINE d == CloseTcp([c EXCEPT !.map = "none"])
<1>1. d = [c EXCEPT !.map = "none", !.closing = TRUE, !.reading = FALSE, !.timer = "off"]
  BY DEF CloseTcp, Alive, BothHandles, Conn
<1>2. d \in Conn
  BY <1>1 DEF Alive, Conn
<1>3. /\ d.map = "none" /\ d.closing /\ ~d.reading /\ d.timer = "off"
      /\ d.obj = c.obj /\ d.handles = c.handles /\ d.shut = c.shut /\ d.connectReq = c.connectReq
      /\ d.shutReq = c.shutReq /\ d.writes = c.writes /\ d.written = c.written
      /\ d.dropped = c.dropped /\ d.started = c.started /\ d.stopped = c.stopped
  BY <1>1 DEF Alive, Conn
<1> HIDE DEF d
<1>4. Owned(d)
  BY <1>3 DEF Alive, Owned, BothHandles
<1>5. Timed(d)
  BY <1>3 DEF Timed
<1>6. Fate(d.writes, d.written, d.dropped) /\ HeldBy(d) = HeldBy(c)
  BY <1>3 DEF Alive, HeldBy
<1> QED
  BY <1>2, <1>3, <1>4, <1>5, <1>6 DEF Sound, Alive, d

\* The closed connection that comes of c.
Closed(c, d) == /\ Sound(d) /\ d.closing /\ d.map = "none" /\ d.obj = "live"
                /\ HeldBy(d) = HeldBy(c)
                /\ d.started = c.started /\ d.stopped = c.stopped

LEMMA ShutdownTcpCloses ==
    ASSUME NEW c, Alive(c), c.map = "stream"
    PROVE  Closed(c, ShutdownTcp(c))
  BY ClosedIsSound DEF ShutdownTcp, Closed

LEMMA CloseTcpCloses ==
    ASSUME NEW c, Alive(c), c.map = "none"
    PROVE  Closed(c, CloseTcp(c))
<1>1. [c EXCEPT !.map = "none"] = c
  BY DEF Alive, Conn
<1> QED
  BY <1>1, ClosedIsSound DEF Closed

-----------------------------------------------------------------------------
(* Timers and writes.                                                      *)

LEMMA SetTimeoutFields ==
    ASSUME NEW c \in Conn, NEW why \in {"connect", "idle", "send"}
    PROVE  LET d == SetTimeout(c, why)
           IN  /\ d \in Conn
               /\ d = [c EXCEPT !.timer = d.timer]
               /\ d.timer = IF why \in Timeouts THEN why ELSE "off"
               /\ d.obj = c.obj /\ d.map = c.map /\ d.handles = c.handles
               /\ d.closing = c.closing /\ d.shut = c.shut /\ d.reading = c.reading
               /\ d.connectReq = c.connectReq /\ d.shutReq = c.shutReq
               /\ d.writes = c.writes /\ d.written = c.written /\ d.dropped = c.dropped
               /\ d.started = c.started /\ d.stopped = c.stopped
  BY DEF SetTimeout, Conn

LEMMA SetTimeoutAlive ==
    ASSUME NEW c, Alive(c), NEW why \in {"connect", "idle", "send"}
    PROVE  Alive(SetTimeout(c, why)) /\ HeldBy(SetTimeout(c, why)) = HeldBy(c)
  BY SetTimeoutFields DEF Alive, HeldBy

\* A connection in its map that sends b, or fails to.
Sends(c, d, b) == /\ Sound(d) /\ HeldBy(d) = HeldBy(c) \union {b}
                  /\ d.started = c.started /\ d.stopped = c.stopped /\ d.obj = "live"
                  /\ \/ d.closing /\ d.map = "none"
                     \/ Alive(d) /\ d.map = "stream"

LEMMA WriteSends ==
    ASSUME NEW c, Alive(c), Owned(c), c.map = "stream", NEW b \in Bufs, b \notin HeldBy(c),
           NEW d \in WriteOutcomes(c, b)
    PROVE  Sends(c, d, b)
<1> DEFINE e == [c EXCEPT !.dropped = @ \union {b}]
           f == [SetTimeout(c, "send") EXCEPT
                    !.writes = Append(@, [buf |-> b, state |-> "queued"])]
<1>0. /\ c \in Conn /\ c.writes \in Seq(Requests) /\ Fate(c.writes, c.written, c.dropped)
      /\ b \notin Held(c.writes, c.written, c.dropped)
  BY DEF Alive, Conn, Requests, HeldBy
<1>1. Alive(e) /\ HeldBy(e) = HeldBy(c) \union {b} /\ e.map = "stream"
      /\ e.started = c.started /\ e.stopped = c.stopped
  <2>1. /\ e \in Conn /\ e.obj = c.obj /\ e.handles = c.handles /\ e.closing = c.closing
        /\ e.shut = c.shut /\ e.shutReq = c.shutReq /\ e.map = c.map
        /\ e.writes = c.writes /\ e.written = c.written /\ e.dropped = c.dropped \union {b}
        /\ e.started = c.started /\ e.stopped = c.stopped
    BY <1>0 DEF Conn
  <2> HIDE DEF e
  <2>2. Fate(e.writes, e.written, e.dropped) /\ HeldBy(e) = HeldBy(c) \union {b}
    BY <1>0, <2>1 DEF Fate, Held, HeldBy
  <2> QED
    BY <2>1, <2>2 DEF Alive
<1>2. CASE d = ShutdownTcp(e)
  <2>1. Closed(e, d)
    BY <1>1, <1>2, ShutdownTcpCloses
  <2> QED
    BY <1>1, <2>1 DEF Sends, Closed
<1>3. CASE d = ShutdownTcp(SetTimeout(e, "send"))
  <2> DEFINE g == SetTimeout(e, "send")
  <2>1. /\ Alive(g) /\ HeldBy(g) = HeldBy(e) /\ g.map = "stream"
        /\ g.started = e.started /\ g.stopped = e.stopped
    BY <1>1, SetTimeoutAlive, SetTimeoutFields, ZenonT(60) DEF Alive
  <2>2. Closed(g, d)
    BY <1>3, <2>1, ShutdownTcpCloses
  <2> QED
    BY <1>1, <2>1, <2>2 DEF Sends, Closed
<1>4. CASE d = f
  <2>0. PICK v : v = Queued(c.writes, b)
    OBVIOUS
  <2>f. f = [SetTimeout(c, "send") EXCEPT !.writes = v]
    BY <1>0, <2>0 DEF SetTimeout, Conn, Queued
  <2> HIDE DEF f
  <2>1. /\ v \in Seq(Requests) /\ v # <<>> /\ Fate(v, c.written, c.dropped)
        /\ Held(v, c.written, c.dropped) = Held(c.writes, c.written, c.dropped) \union {b}
    BY <1>0, <2>0, AppendFate
  <2>2. /\ f \in Conn /\ f.obj = c.obj /\ f.map = c.map /\ f.handles = c.handles
        /\ f.closing = c.closing /\ f.shut = c.shut /\ f.reading = c.reading
        /\ f.connectReq = c.connectReq /\ f.shutReq = c.shutReq
        /\ f.writes = v /\ f.written = c.written /\ f.dropped = c.dropped
        /\ f.started = c.started /\ f.stopped = c.stopped
        /\ f.timer = IF "send" \in Timeouts THEN "send" ELSE "off"
    BY <1>0, <2>1, <2>f DEF SetTimeout, Conn, Requests
  <2>3. Fate(f.writes, f.written, f.dropped) /\ HeldBy(f) = HeldBy(c) \union {b}
    BY <2>1, <2>2 DEF HeldBy
  <2>4. Owned(f)
    BY <2>2 DEF Owned, Alive, BothHandles
  <2>5. Timed(f)
    BY <2>1, <2>2 DEF Timed, Alive
  <2>6. Alive(f)
    BY <2>2, <2>3 DEF Alive
  <2> QED
    BY <1>4, <2>2, <2>3, <2>4, <2>5, <2>6 DEF Sends, Sound, Alive
<1>5. d = ShutdownTcp(e) \/ d = ShutdownTcp(SetTimeout(e, "send")) \/ d = f
  <2> HIDE DEF f
  <2>1. f = [SetTimeout(c, "send") EXCEPT !.writes = Append(@, [buf |-> b, state |-> "queued"])]
    BY DEF f
  <2> QED
    BY <2>1 DEF WriteOutcomes
<1> QED
  BY <1>2, <1>3, <1>4, <1>5

LEMMA UserActsOutcomes ==
    ASSUME NEW c, Alive(c), Owned(c), HeldBy(c) \intersect Unused = {}, NEW d \in UserActs(c)
    PROVE  \/ d = c
           \/ c.map = "stream" /\ \E b \in Unused : Sends(c, d, b)
<1> SUFFICES ASSUME d # c PROVE c.map = "stream" /\ \E b \in Unused : Sends(c, d, b)
  OBVIOUS
<1>1. c.map = "stream"
  BY DEF UserActs
<1>2. PICK b \in Unused : d \in WriteOutcomes(c, b)
  BY <1>1 DEF UserActs
<1>3. b \in Bufs /\ b \notin HeldBy(c)
  BY DEF Unused
<1> QED
  BY <1>1, <1>2, <1>3, WriteSends

\* RestartIdle needs a timer that is right, or it sets it right.
LEMMA RestartIdleSound ==
    ASSUME NEW c, Alive(c), Owned(c), c.map = "stream",
           Timed(c) \/ WriteQueueEmpty(c),
           NEW d \in RestartIdle(c)
    PROVE  /\ Sound(d) /\ HeldBy(d) = HeldBy(c)
           /\ d.started = c.started /\ d.stopped = c.stopped
           /\ d.obj = "live"
<1>0. c \in Conn /\ c.obj = "live" /\ ~c.closing /\ c.handles = BothHandles
      /\ Fate(c.writes, c.written, c.dropped)
  BY DEF Alive
<1>1. CASE d = c /\ ~(~c.shut /\ WriteQueueEmpty(c))
  <2>1. Timed(c)
    BY <1>1 DEF Owned
  <2> QED
    BY <1>0, <1>1, <2>1 DEF Sound
<1>2. CASE d = SetTimeout(c, "idle") /\ WriteQueueEmpty(c)
  <2>1. /\ d \in Conn /\ d = [c EXCEPT !.timer = d.timer] /\ d.map = c.map /\ d.obj = c.obj
        /\ d.closing = c.closing
        /\ d.timer = IF "idle" \in Timeouts THEN "idle" ELSE "off"
        /\ d.writes = c.writes /\ d.written = c.written /\ d.dropped = c.dropped
        /\ d.stopped = c.stopped
    BY <1>0, <1>2, SetTimeoutFields
  <2>2. Owned(d)
    BY <1>0, <1>2, SetTimeoutFields DEF Owned
  <2>3. Timed(d)
    BY <1>2, <2>1 DEF Timed, WriteQueueEmpty
  <2>4. d.started = c.started
    BY <1>0, <1>2, SetTimeoutFields
  <2> QED
    BY <1>0, <2>1, <2>2, <2>3, <2>4 DEF Sound, HeldBy
<1>3. CASE d = ShutdownTcp(c)
  BY <1>3, ShutdownTcpCloses DEF Closed
<1>4. \/ d = c /\ ~(~c.shut /\ WriteQueueEmpty(c))
      \/ d = SetTimeout(c, "idle") /\ WriteQueueEmpty(c)
      \/ d = ShutdownTcp(c)
  BY <1>0 DEF RestartIdle
<1> QED
  BY <1>1, <1>2, <1>3, <1>4

-----------------------------------------------------------------------------
(* What a step makes of a connection.                                      *)

\* The two action properties, for one connection.
Later(c, d) ==
    /\ c.obj # "none" /\ c.map = "none" =>
         /\ d.map = "none" /\ d.started = c.started
         /\ d.timer \in {c.timer, "off", "spent"}
         /\ c.closing => d.closing
         /\ c.obj = "freed" => d = c
    /\ c.shut /\ ~c.closing /\ d.closing => c.writes = <<>>

Outcome(c, d) == /\ Sound(d) /\ Later(c, d)
                 /\ HeldBy(d) \subseteq HeldBy(c) \union Unused
                 /\ d.stopped = c.stopped

Fresh(c) == HeldBy(c) \intersect Unused = {}

LEMMA SoundAlive ==
    ASSUME NEW c, Sound(c), c.obj = "live", ~c.closing
    PROVE  Alive(c) /\ Owned(c) /\ (c.map = "none" => c.shut)
  BY DEF Sound, Owned, Alive

LEMMA OutcomeFromMap ==
    ASSUME NEW c, Sound(c), c.map # "none", NEW d, Sound(d), d.stopped = c.stopped,
           HeldBy(d) \subseteq HeldBy(c) \union Unused
    PROVE  Outcome(c, d)
  BY DEF Outcome, Later, Sound, Owned

LEMMA InMapAlive ==
    ASSUME NEW c, Sound(c), c.map # "none"
    PROVE  Alive(c) /\ Owned(c) /\ Timed(c) /\ ~c.shut /\ c.obj = "live"
  BY DEF Sound, Owned, Alive

LEMMA FailedOutcomes ==
    ASSUME NEW d \in FailedTcps
    PROVE  Sound(d) /\ HeldBy(d) = {} /\ ~d.stopped
<1>1. NoConn \in Conn
  BY DEF NoConn, Conn
<1> DEFINE e == [NewTcp EXCEPT !.handles = {}]
           f == [NewTcp EXCEPT !.handles = {"tcp"}]
<1>2. /\ NewTcp = [NoConn EXCEPT !.obj = "live", !.handles = {"tcp", "timer"}]
      /\ e = [NoConn EXCEPT !.obj = "live", !.handles = {}]
      /\ f = [NoConn EXCEPT !.obj = "live", !.handles = {"tcp"}]
  BY <1>1 DEF NewTcp, Conn
<1>3. /\ CloseTcp(e) = [NoConn EXCEPT !.obj = "freed", !.handles = {}]
      /\ CloseTcp(f) = [NoConn EXCEPT !.obj = "live", !.handles = {"tcp"}, !.closing = TRUE,
                                     !.reading = FALSE, !.timer = "off"]
  BY <1>1, <1>2 DEF CloseTcp, NoConn, Conn
<1>4. \/ d = [NoConn EXCEPT !.obj = "freed", !.handles = {}]
      \/ d = [NoConn EXCEPT !.obj = "live", !.handles = {"tcp"}, !.closing = TRUE,
                                     !.reading = FALSE, !.timer = "off"]
  BY <1>3 DEF FailedTcps
<1>5. /\ d \in Conn /\ d.map = "none" /\ ~d.shut /\ d.timer = "off" /\ ~d.reading
      /\ ~d.connectReq /\ ~d.shutReq /\ d.writes = <<>> /\ d.written = {} /\ d.dropped = {}
      /\ ~d.started /\ ~d.stopped
      /\ \/ d.obj = "freed" /\ d.handles = {}
         \/ d.obj = "live" /\ d.handles = {"tcp"} /\ d.closing
  <2>1. CASE d = [NoConn EXCEPT !.obj = "freed", !.handles = {}]
    <3>1. d \in Conn
      BY <1>1, <2>1 DEF Conn
    <3> QED
      BY <2>1, <3>1 DEF NoConn
  <2>2. CASE d = [NoConn EXCEPT !.obj = "live", !.handles = {"tcp"}, !.closing = TRUE,
                                !.reading = FALSE, !.timer = "off"]
    <3>1. d \in Conn
      BY <1>1, <2>2 DEF Conn
    <3> QED
      BY <2>2, <3>1 DEF NoConn
  <2> QED
    BY <1>4, <2>1, <2>2
<1>6. Owned(d) /\ Timed(d)
  BY <1>5 DEF Owned, Timed
<1>7. Fate(d.writes, d.written, d.dropped) /\ HeldBy(d) = {}
  BY <1>5 DEF Fate, HeldBy, Held, Names
<1> QED
  BY <1>5, <1>6, <1>7 DEF Sound

\* A connection that nothing was done with but opening it.
Opened(c) == /\ Alive(c) /\ c.map = "none" /\ ~c.shut /\ ~c.reading /\ ~c.started
             /\ ~c.stopped /\ ~c.connectReq /\ ~c.shutReq /\ c.writes = <<>>

LEMMA NewTcpOpened == Opened(NewTcp) /\ HeldBy(NewTcp) = {}
<1>0. NoConn \in Conn
  BY DEF NoConn, Conn
<1>1. NewTcp \in Conn /\ NewTcp = [NoConn EXCEPT !.obj = "live", !.handles = BothHandles]
  BY <1>0 DEF NewTcp, Conn, BothHandles
<1>2. /\ NewTcp.map = "none" /\ ~NewTcp.shut /\ ~NewTcp.reading /\ ~NewTcp.started
      /\ ~NewTcp.stopped /\ ~NewTcp.connectReq /\ ~NewTcp.shutReq /\ NewTcp.writes = <<>>
      /\ NewTcp.written = {} /\ NewTcp.dropped = {} /\ NewTcp.obj = "live"
      /\ NewTcp.handles = BothHandles /\ ~NewTcp.closing
  BY <1>1 DEF NoConn
<1>3. Fate(NewTcp.writes, NewTcp.written, NewTcp.dropped) /\ HeldBy(NewTcp) = {}
  BY <1>2 DEF Fate, HeldBy, Held, Names
<1> QED
  BY <1>1, <1>2, <1>3 DEF Opened, Alive

LEMMA StartReadingOutcomes ==
    ASSUME NEW c, Opened(c), Fresh(c), NEW d \in StartReading(c)
    PROVE  Sound(d) /\ HeldBy(d) \subseteq HeldBy(c) \union Unused /\ d.stopped = c.stopped
<1> DEFINE up == [SetTimeout(c, "idle") EXCEPT !.reading = TRUE, !.map = "stream", !.started = TRUE]
<1>1. CASE d = CloseTcp(c)
  BY <1>1, CloseTcpCloses DEF Opened, Closed
<1>2. CASE d \in UserActs(up)
  <2>1. /\ up \in Conn /\ up.obj = c.obj /\ up.map = "stream" /\ up.handles = c.handles
        /\ up.closing = c.closing /\ up.shut = c.shut /\ up.reading = TRUE
        /\ up.connectReq = c.connectReq /\ up.shutReq = c.shutReq
        /\ up.writes = c.writes /\ up.written = c.written /\ up.dropped = c.dropped
        /\ up.started = TRUE /\ up.stopped = c.stopped
        /\ up.timer = IF "idle" \in Timeouts THEN "idle" ELSE "off"
    BY DEF Opened, Alive, SetTimeout, Conn
  <2> HIDE DEF up
  <2>2. Alive(up) /\ Owned(up) /\ HeldBy(up) = HeldBy(c)
    BY <2>1 DEF Opened, Alive, Owned, HeldBy, BothHandles
  <2>3. Timed(up)
    BY <2>1 DEF Timed, WriteQueueEmpty, Opened
  <2>4. Sound(up)
    BY <2>2, <2>3 DEF Sound, Alive
  <2>5. d = up \/ \E b \in Unused : Sends(up, d, b)
    BY <1>2, <2>2, UserActsOutcomes DEF Fresh
  <2> QED
    BY <2>1, <2>2, <2>4, <2>5 DEF Sends
<1> QED
  BY <1>1, <1>2 DEF StartReading

LEMMA ConnectingSound ==
    ASSUME NEW d, d = [SetTimeout(NewTcp, "connect") EXCEPT !.map = "connecting", !.connectReq = TRUE]
    PROVE  Sound(d) /\ HeldBy(d) = {} /\ ~d.stopped
<1>1. PICK c : c = NewTcp
  OBVIOUS
<1>2. Opened(c) /\ HeldBy(c) = {}
  BY <1>1, NewTcpOpened
<1>3. /\ d \in Conn /\ d.obj = c.obj /\ d.map = "connecting" /\ d.handles = c.handles
      /\ d.closing = c.closing /\ d.shut = c.shut /\ d.reading = c.reading
      /\ d.connectReq = TRUE /\ d.shutReq = c.shutReq
      /\ d.writes = c.writes /\ d.written = c.written /\ d.dropped = c.dropped
      /\ d.started = c.started /\ d.stopped = c.stopped
      /\ d.timer = IF "connect" \in Timeouts THEN "connect" ELSE "off"
  BY <1>1, <1>2 DEF Opened, Alive, SetTimeout, Conn
<1>4. Owned(d) /\ HeldBy(d) = {}
  BY <1>2, <1>3 DEF Opened, Alive, Owned, HeldBy, BothHandles
<1>5. Timed(d)
  BY <1>2, <1>3 DEF Timed
<1> QED
  BY <1>2, <1>3, <1>4, <1>5 DEF Sound, Opened, Alive

-----------------------------------------------------------------------------
(* One lemma for each action of a connection that is there.                *)

LEMMA ConnectCallbackOutcomes ==
    ASSUME NEW c, Sound(c), Fresh(c), c.connectReq, ~c.closing,
           NEW d \in StartReading([c EXCEPT !.connectReq = FALSE, !.map = "none"])
    PROVE  c.map = "connecting" /\ Outcome(c, d)
<1>1. /\ c.map = "connecting" /\ Alive(c) /\ ~c.shut /\ ~c.started /\ ~c.reading
      /\ c.writes = <<>>
  BY InMapAlive DEF Sound, Owned
<1>2. PICK e : e = [c EXCEPT !.connectReq = FALSE, !.map = "none"]
  OBVIOUS
<1>3. /\ e \in Conn /\ e.obj = c.obj /\ e.map = "none" /\ e.handles = c.handles
      /\ e.closing = c.closing /\ e.shut = c.shut /\ e.reading = c.reading
      /\ e.connectReq = FALSE /\ e.shutReq = c.shutReq
      /\ e.writes = c.writes /\ e.written = c.written /\ e.dropped = c.dropped
      /\ e.started = c.started /\ e.stopped = c.stopped
  BY <1>1, <1>2 DEF Alive, Conn
<1>4. Opened(e) /\ Fresh(e) /\ HeldBy(e) = HeldBy(c)
  BY <1>1, <1>3 DEF Alive, Opened, Fresh, HeldBy, Sound, Owned, Conn
<1>5. Sound(d) /\ HeldBy(d) \subseteq HeldBy(c) \union Unused /\ d.stopped = c.stopped
  <2>1. d \in StartReading(e)
    BY <1>2
  <2> QED
    BY <1>3, <1>4, <2>1, StartReadingOutcomes
<1> QED
  BY <1>1, <1>5, OutcomeFromMap

LEMMA SendOutcomes ==
    ASSUME NEW c, Sound(c), Fresh(c), c.map = "stream", NEW b \in Unused,
           NEW d \in WriteOutcomes(c, b)
    PROVE  Outcome(c, d)
<1>1. b \in Bufs /\ b \notin HeldBy(c)
  BY DEF Fresh, Unused
<1>2. Sends(c, d, b)
  BY <1>1, InMapAlive, WriteSends
<1> QED
  BY <1>2, OutcomeFromMap DEF Sends

LEMMA CloseByForceOutcome ==
    ASSUME NEW c, Sound(c), c.map = "stream"
    PROVE  Outcome(c, ShutdownTcp(c))
<1>1. Closed(c, ShutdownTcp(c))
  BY InMapAlive, ShutdownTcpCloses
<1> QED
  BY <1>1, OutcomeFromMap DEF Closed

LEMMA CloseGracefullyOutcomes ==
    ASSUME NEW c, Sound(c), c.map = "stream",
           NEW d \in ShutdownTcpGracefully(SetTimeout(c, "send"))
    PROVE  Outcome(c, d)
<1>1. PICK e : e = SetTimeout(c, "send")
  OBVIOUS
<1>2. /\ Alive(e) /\ HeldBy(e) = HeldBy(c) /\ e.map = "stream" /\ ~e.shut /\ ~e.closing
      /\ e.started = c.started /\ e.stopped = c.stopped /\ e.connectReq = c.connectReq
      /\ e.reading = c.reading
      /\ e.timer = IF "send" \in Timeouts THEN "send" ELSE "off"
  BY <1>1, InMapAlive, SetTimeoutAlive, SetTimeoutFields DEF Alive
<1>3. PICK f : f = [e EXCEPT !.map = "none"]
  OBVIOUS
<1>4. /\ f \in Conn /\ ~f.closing /\ ~f.shut
      /\ [f EXCEPT !.shut = TRUE, !.shutReq = TRUE]
           = [e EXCEPT !.map = "none", !.shut = TRUE, !.shutReq = TRUE]
  BY <1>2, <1>3 DEF Alive, Conn
<1>5. d \in ShutdownAndClose(f)
  BY <1>1, <1>2, <1>3 DEF ShutdownTcpGracefully
<1>6. CASE d = CloseTcp(f)
  BY <1>2, <1>3, <1>6, ClosedIsSound, OutcomeFromMap
<1>7. CASE d = [e EXCEPT !.map = "none", !.shut = TRUE, !.shutReq = TRUE]
  <2>1. /\ d \in Conn /\ d.obj = e.obj /\ d.map = "none" /\ d.handles = e.handles
        /\ d.closing = e.closing /\ d.shut = TRUE /\ d.reading = e.reading
        /\ d.connectReq = e.connectReq /\ d.shutReq = TRUE /\ d.timer = e.timer
        /\ d.writes = e.writes /\ d.written = e.written /\ d.dropped = e.dropped
        /\ d.started = e.started /\ d.stopped = e.stopped
    BY <1>2, <1>7 DEF Alive, Conn
  <2>2. ~c.connectReq
    BY InMapAlive DEF Sound, Owned
  <2>3. Owned(d) /\ HeldBy(d) = HeldBy(c)
    BY <1>2, <2>1, <2>2 DEF Alive, Owned, HeldBy, BothHandles
  <2>4. Timed(d)
    BY <1>2, <2>1 DEF Timed
  <2> QED
    BY <1>2, <2>1, <2>3, <2>4, OutcomeFromMap DEF Sound, Alive
<1> QED
  BY <1>4, <1>5, <1>6, <1>7 DEF ShutdownAndClose

LEMMA SoundStays ==
    ASSUME NEW c, Sound(c)
    PROVE  Outcome(c, c)
  BY DEF Outcome, Later

LEMMA ReadDataOutcomes ==
    ASSUME NEW c, Sound(c), Fresh(c), c.reading,
           NEW a \in UserActs(c), NEW d \in RestartIdle(a)
    PROVE  Outcome(c, d)
<1>1. Alive(c) /\ Owned(c) /\ c.map # "connecting" /\ (c.map = "none" => c.shut)
  BY SoundAlive DEF Sound, Owned, Conn
<1>2. CASE c.map # "stream"
  <2>1. a = c /\ c.shut
    BY <1>1, <1>2 DEF UserActs, Alive, Conn
  <2>2. d = c
    BY <2>1 DEF RestartIdle
  <2> QED
    BY <2>2, SoundStays
<1>3. CASE c.map = "stream"
  <2>1. a = c \/ \E b \in Unused : Sends(c, a, b)
    BY <1>1, UserActsOutcomes DEF Fresh
  <2>2. /\ Sound(a) /\ HeldBy(a) \subseteq HeldBy(c) \union Unused /\ a.stopped = c.stopped
        /\ a.closing \/ (Alive(a) /\ a.map = "stream")
    BY <1>1, <1>3, <2>1 DEF Sends
  <2>3. CASE a.closing
    <3>1. d = a
      BY <2>3 DEF RestartIdle
    <3> QED
      BY <1>3, <2>2, <3>1, OutcomeFromMap
  <2>4. CASE Alive(a) /\ a.map = "stream"
    <3>1. Sound(d) /\ HeldBy(d) = HeldBy(a) /\ d.stopped = a.stopped
      BY <2>2, <2>4, RestartIdleSound DEF Sound
    <3> QED
      BY <1>3, <2>2, <3>1, OutcomeFromMap
  <2> QED
    BY <2>2, <2>3, <2>4
<1> QED
  BY <1>2, <1>3

LEMMA ReadEndsOutcome ==
    ASSUME NEW c, Sound(c), c.reading
    PROVE  Outcome(c, ShutdownTcp([c EXCEPT !.reading = FALSE]))
<1>1. PICK e : e = [c EXCEPT !.reading = FALSE]
  OBVIOUS
<1>2. Alive(c) /\ Owned(c) /\ c.map # "connecting"
  BY SoundAlive DEF Sound, Owned, Conn
<1>3. /\ e \in Conn /\ e.obj = c.obj /\ e.map = c.map /\ e.handles = c.handles
      /\ e.closing = c.closing /\ e.shut = c.shut /\ e.reading = FALSE
      /\ e.connectReq = c.connectReq /\ e.shutReq = c.shutReq /\ e.timer = c.timer
      /\ e.writes = c.writes /\ e.written = c.written /\ e.dropped = c.dropped
      /\ e.started = c.started /\ e.stopped = c.stopped
  BY <1>1, <1>2 DEF Alive, Conn
<1>4. Alive(e) /\ HeldBy(e) = HeldBy(c)
  BY <1>2, <1>3 DEF Alive, HeldBy
<1>5. CASE c.map = "stream"
  <2>1. Closed(e, ShutdownTcp(e))
    BY <1>3, <1>4, <1>5, ShutdownTcpCloses
  <2> QED
    BY <1>1, <1>3, <1>4, <1>5, <2>1, OutcomeFromMap DEF Closed
<1>6. CASE c.map = "none"
  <2>1. Owned(e)
    BY <1>2, <1>3, <1>6 DEF Owned, Alive, BothHandles
  <2>2. Timed(e)
    BY <1>3, <1>6 DEF Sound, Timed, WriteQueueEmpty
  <2>3. ShutdownTcp(e) = e
    BY <1>3, <1>6 DEF ShutdownTcp
  <2> QED
    BY <1>1, <1>2, <1>3, <1>4, <1>6, <2>1, <2>2, <2>3 DEF Outcome, Later, Sound, Alive
<1> QED
  BY <1>2, <1>5, <1>6 DEF Alive, Conn

LEMMA KernelWritesOutcome ==
    ASSUME NEW c, Sound(c), ~c.closing, NEW i \in DOMAIN c.writes, c.writes[i].state = "queued",
           NEW result \in {"taken", "failed"},
           NEW d, d = [c EXCEPT !.writes[i].state = result]
    PROVE  Outcome(c, d)
<1>1. PICK w, v : /\ w = c.writes
                  /\ v = [w EXCEPT ![i] = [w[i] EXCEPT !.state = result]]
  OBVIOUS
<1>2. c \in Conn /\ w \in Seq(Requests) /\ i \in DOMAIN w /\ w[i].state = "queued"
  BY <1>1 DEF Sound, Conn, Requests
<1>3. PICK r : r = [w[i] EXCEPT !.state = result]
  OBVIOUS
<1>m. w[i] \in Requests
  BY <1>2
<1>r. r \in Requests /\ r.buf = w[i].buf
  BY <1>3, <1>m DEF Requests, WriteStates
<1>4. /\ v \in Seq(Requests) /\ DOMAIN v = DOMAIN w
      /\ \A j \in DOMAIN w : v[j].buf = w[j].buf
  BY <1>1, <1>2, <1>3, <1>r
<1>5. Names(v) = Names(w)
  BY <1>4 DEF Names
<1>6. d = [c EXCEPT !.writes = v]
  BY <1>1, <1>2 DEF Conn
<1>7. /\ d \in Conn /\ d.obj = c.obj /\ d.map = c.map /\ d.handles = c.handles
      /\ d.closing = c.closing /\ d.shut = c.shut /\ d.reading = c.reading
      /\ d.connectReq = c.connectReq /\ d.shutReq = c.shutReq /\ d.timer = c.timer
      /\ d.writes = v /\ d.written = c.written /\ d.dropped = c.dropped
      /\ d.started = c.started /\ d.stopped = c.stopped
  BY <1>2, <1>4, <1>6 DEF Conn, Requests
<1>8. c.writes # <<>> /\ v # <<>>
  BY <1>1, <1>2, <1>4
<1>9. Alive(c) /\ Owned(c)
  BY <1>8, SoundAlive DEF Sound, Owned, Conn
<1>10. Fate(d.writes, d.written, d.dropped) /\ HeldBy(d) = HeldBy(c)
  <2>1. Fate(w, c.written, c.dropped)
    BY <1>1 DEF Sound
  <2>2. Fate(v, c.written, c.dropped) /\ Held(v, c.written, c.dropped) = Held(w, c.written, c.dropped)
    BY <1>4, <1>5, <2>1 DEF Fate, Held
  <2> QED
    BY <1>1, <1>7, <2>2 DEF HeldBy
<1>11. Owned(d)
  BY <1>7, <1>8, <1>9 DEF Owned, Alive, BothHandles
<1>12. Timed(d)
  BY <1>1, <1>2, <1>7, <1>8 DEF Sound, Timed, WriteQueueEmpty
<1> QED
  BY <1>7, <1>9, <1>10, <1>11, <1>12 DEF Outcome, Later, Sound, Alive

\* The oldest request leaves the queue with a callback; what the callback does
\* about the timer is to come.
Acknowledged(c, d) ==
    /\ Alive(d) /\ Owned(d) /\ HeldBy(d) = HeldBy(c) /\ d.map = c.map
    /\ d.closing = c.closing /\ d.shut = c.shut /\ d.timer = c.timer
    /\ d.started = c.started /\ d.stopped = c.stopped
    /\ Timed(d) \/ (WriteQueueEmpty(d) /\ d.map = "stream")

LEMMA AcknowledgedWhole ==
    ASSUME NEW c, Sound(c), ~c.closing, c.writes # <<>>, NEW b, b = Head(c.writes).buf,
           NEW d,
           \/ d = [c EXCEPT !.writes = Tail(@), !.written = @ \union {b}]
           \/ d = [c EXCEPT !.writes = Tail(@), !.dropped = @ \union {b}]
    PROVE  Acknowledged(c, d) /\ Alive(c) /\ Owned(c) /\ c.map # "connecting"
<1>1. PICK w, v, x, y : w = c.writes /\ v = Tail(c.writes) /\ x = c.written /\ y = c.dropped
  OBVIOUS
<1>2. Alive(c) /\ Owned(c) /\ c.map # "connecting"
  BY SoundAlive DEF Sound, Owned, Conn
<1>3. /\ w \in Seq(Requests) /\ Waiting(w) /\ x \in SUBSET Bufs /\ y \in SUBSET Bufs
      /\ Fate(w, x, y) /\ b = Oldest(w) /\ v = Others(w)
  BY <1>1, <1>2 DEF Alive, Conn, Requests, Oldest, Others, Waiting
<1>4. /\ v \in Seq(Requests) /\ b \in Bufs
      /\ Fate(v, x \union {b}, y) /\ Fate(v, x, y \union {b})
      /\ Held(v, x \union {b}, y) = Held(w, x, y) /\ Held(v, x, y \union {b}) = Held(w, x, y)
      /\ \A i \in DOMAIN v : \E j \in DOMAIN w : v[i] = w[j]
  <2>1. Handled(w, x, y)
    BY <1>3, TailFate
  <2> QED
    BY <1>3, <2>1 DEF Handled
<1>5. /\ d \in Conn /\ d.obj = c.obj /\ d.map = c.map /\ d.handles = c.handles
      /\ d.closing = c.closing /\ d.shut = c.shut /\ d.reading = c.reading
      /\ d.connectReq = c.connectReq /\ d.shutReq = c.shutReq /\ d.timer = c.timer
      /\ d.started = c.started /\ d.stopped = c.stopped /\ d.writes = v
      /\ \/ d.written = x \union {b} /\ d.dropped = y
         \/ d.written = x /\ d.dropped = y \union {b}
  <2>1. CASE d = [c EXCEPT !.writes = Tail(@), !.written = @ \union {b}]
    BY <1>1, <1>2, <1>3, <1>4, <2>1 DEF Alive, Conn, Requests
  <2>2. CASE d = [c EXCEPT !.writes = Tail(@), !.dropped = @ \union {b}]
    BY <1>1, <1>2, <1>3, <1>4, <2>2 DEF Alive, Conn, Requests
  <2> QED
    BY <2>1, <2>2
<1>6. Fate(d.writes, d.written, d.dropped) /\ HeldBy(d) = HeldBy(c)
  BY <1>1, <1>4, <1>5 DEF HeldBy
<1>7. Alive(d)
  BY <1>2, <1>5, <1>6 DEF Alive
<1>8. Owned(d)
  BY <1>2, <1>5 DEF Owned, Alive, BothHandles
<1>9. WriteQueueEmpty(c) => WriteQueueEmpty(d)
  BY <1>1, <1>4, <1>5 DEF WriteQueueEmpty
<1>10. d.writes = <<>> => WriteQueueEmpty(d)
  BY DEF WriteQueueEmpty
<1>11. Timed(d) \/ (WriteQueueEmpty(d) /\ d.map = "stream")
  <2>1. CASE d.writes = <<>> /\ c.map = "stream"
    BY <1>5, <1>10, <2>1
  <2>2. CASE ~(d.writes = <<>> /\ c.map = "stream")
    <3>1. c.map = "none" => c.shut
      BY <1>2, SoundAlive DEF Alive
    <3> QED
      BY <1>2, <1>5, <1>9, <2>2, <3>1 DEF Timed, Sound, Alive, Conn
  <2> QED
    BY <2>1, <2>2
<1> QED
  BY <1>2, <1>5, <1>6, <1>7, <1>8, <1>11 DEF Acknowledged

LEMMA AcknowledgedOutcome ==
    ASSUME NEW c, Sound(c), ~c.closing, NEW d, Acknowledged(c, d), Owned(c), Alive(c),
           c.map = "none"
    PROVE  Outcome(c, d)
<1>1. Sound(d)
  BY DEF Acknowledged, Sound, Alive
<1> QED
  BY <1>1 DEF Outcome, Later, Acknowledged, Alive

LEMMA WriteSucceedsOutcomes ==
    ASSUME NEW c, Sound(c), ~c.closing, c.writes # <<>>, NEW d \in WriteSucceeds(c)
    PROVE  Outcome(c, d)
<1>1. PICK b, e : /\ b = Head(c.writes).buf
                  /\ e = [c EXCEPT !.writes = Tail(@), !.written = @ \union {b}]
  OBVIOUS
<1>2. d \in RestartIdle(e)
  BY <1>1 DEF WriteSucceeds
<1>3. Acknowledged(c, e) /\ Alive(c) /\ Owned(c) /\ c.map # "connecting"
  BY <1>1, AcknowledgedWhole
<1>4. CASE c.map = "stream"
  <2>1. /\ Sound(d) /\ HeldBy(d) = HeldBy(e) /\ d.stopped = e.stopped
    BY <1>2, <1>3, <1>4, RestartIdleSound DEF Acknowledged
  <2> QED
    BY <1>3, <1>4, <2>1, OutcomeFromMap DEF Acknowledged
<1>5. CASE c.map = "none"
  <2>1. e.shut
    BY <1>3, <1>5, SoundAlive DEF Alive, Acknowledged
  <2>2. d = e
    BY <1>2, <2>1 DEF RestartIdle
  <2> QED
    BY <1>3, <1>5, <2>2, AcknowledgedOutcome
<1> QED
  BY <1>3, <1>4, <1>5 DEF Alive, Conn

LEMMA WriteFailsOutcomes ==
    ASSUME NEW c, Sound(c), Fresh(c), ~c.closing, c.writes # <<>>, NEW d \in WriteFails(c)
    PROVE  Outcome(c, d)
<1>1. PICK b, e : /\ b = Head(c.writes).buf
                  /\ e = [c EXCEPT !.writes = Tail(@), !.dropped = @ \union {b}]
  OBVIOUS
<1>2. PICK a \in UserActs(e) : d = ShutdownTcp(a)
  BY <1>1 DEF WriteFails
<1>3. Acknowledged(c, e) /\ Alive(c) /\ Owned(c) /\ c.map # "connecting"
  BY <1>1, AcknowledgedWhole
<1>4. CASE c.map = "stream"
  <2>1. a = e \/ \E z \in Unused : Sends(e, a, z)
    BY <1>3, UserActsOutcomes DEF Fresh, Acknowledged
  <2>2. /\ HeldBy(a) \subseteq HeldBy(c) \union Unused /\ a.stopped = c.stopped
        /\ \/ a.closing /\ a.map = "none" /\ Sound(a)
           \/ Alive(a) /\ a.map = "stream"
    BY <1>3, <1>4, <2>1 DEF Sends, Acknowledged
  <2>3. CASE a.closing /\ a.map = "none" /\ Sound(a)
    <3>1. d = a
      BY <1>2, <2>3 DEF ShutdownTcp
    <3> QED
      BY <1>4, <2>2, <2>3, <3>1, OutcomeFromMap
  <2>4. CASE Alive(a) /\ a.map = "stream"
    <3>1. Closed(a, d)
      BY <1>2, <2>4, ShutdownTcpCloses
    <3> QED
      BY <1>4, <2>2, <3>1, OutcomeFromMap DEF Closed
  <2> QED
    BY <2>2, <2>3, <2>4
<1>5. CASE c.map = "none"
  <2>1. a = e
    BY <1>3, <1>5 DEF UserActs, Acknowledged
  <2>2. d = e
    BY <1>2, <1>3, <1>5, <2>1 DEF ShutdownTcp, Acknowledged
  <2> QED
    BY <1>3, <1>5, <2>2, AcknowledgedOutcome
<1> QED
  BY <1>3, <1>4, <1>5 DEF Alive, Conn

LEMMA KilledSame ==
    ASSUME NEW c, c \in Conn, NEW d, d = [c EXCEPT !.killed = TRUE]
    PROVE  /\ d \in Conn /\ d.obj = c.obj /\ d.map = c.map /\ d.handles = c.handles
           /\ d.closing = c.closing /\ d.shut = c.shut /\ d.reading = c.reading
           /\ d.connectReq = c.connectReq /\ d.shutReq = c.shutReq /\ d.timer = c.timer
           /\ d.writes = c.writes /\ d.written = c.written /\ d.dropped = c.dropped
           /\ d.started = c.started /\ d.stopped = c.stopped
  BY DEF Conn

LEMMA TimerFiresOutcomes ==
    ASSUME NEW c, Sound(c), Fresh(c), c.timer \in {"connect", "idle", "send"},
           NEW a \in UserActs([c EXCEPT !.timer = "spent"]),
           NEW d, d = a \/ d = ShutdownTcp([a EXCEPT !.killed = TRUE])
    PROVE  Outcome(c, d)
<1>1. PICK e, k : e = [c EXCEPT !.timer = "spent"] /\ k = [a EXCEPT !.killed = TRUE]
  OBVIOUS
<1>2. Alive(c) /\ Owned(c) /\ c.obj = "live" /\ ~c.closing
  <2>1. c.obj = "live" /\ ~c.closing
    BY DEF Sound, Owned, Conn
  <2> QED
    BY <2>1, SoundAlive
<1>3. /\ e \in Conn /\ e.obj = c.obj /\ e.map = c.map /\ e.handles = c.handles
      /\ e.closing = c.closing /\ e.shut = c.shut /\ e.reading = c.reading
      /\ e.connectReq = c.connectReq /\ e.shutReq = c.shutReq /\ e.timer = "spent"
      /\ e.writes = c.writes /\ e.written = c.written /\ e.dropped = c.dropped
      /\ e.started = c.started /\ e.stopped = c.stopped
  BY <1>1, <1>2 DEF Alive, Conn
<1>4. Alive(e) /\ Owned(e) /\ HeldBy(e) = HeldBy(c)
  BY <1>2, <1>3 DEF Alive, Owned, HeldBy, BothHandles
<1>5. Timed(e) /\ Sound(e)
  BY <1>3, <1>4 DEF Timed, Sound, Alive
<1>6. a \in UserActs(e)
  BY <1>1
<1>7. a = e \/ (c.map = "stream" /\ \E b \in Unused : Sends(e, a, b))
  BY <1>3, <1>4, <1>6, UserActsOutcomes DEF Fresh
<1>8. /\ Sound(a) /\ HeldBy(a) \subseteq HeldBy(c) \union Unused /\ a.stopped = c.stopped
      /\ a \in Conn
  BY <1>3, <1>4, <1>5, <1>7 DEF Sends, Sound
<1>9. d = a \/ d = ShutdownTcp(k)
  BY <1>1
<1>10. /\ k \in Conn /\ k.obj = a.obj /\ k.map = a.map /\ k.handles = a.handles
       /\ k.closing = a.closing /\ k.shut = a.shut /\ k.reading = a.reading
       /\ k.connectReq = a.connectReq /\ k.shutReq = a.shutReq /\ k.timer = a.timer
       /\ k.writes = a.writes /\ k.written = a.written /\ k.dropped = a.dropped
       /\ k.started = a.started /\ k.stopped = a.stopped
  BY <1>1, <1>8, KilledSame
<1>11. a.obj = "live"
  BY <1>2, <1>3, <1>7 DEF Sends
<1>12. Sound(k) /\ HeldBy(k) = HeldBy(a)
  BY <1>8, <1>10, <1>11 DEF Sound, Owned, Timed, WriteQueueEmpty, HeldBy
<1>13. CASE c.map # "none"
  <2>1. Sound(d) /\ HeldBy(d) = HeldBy(a) /\ d.stopped = a.stopped
    <3>1. CASE d = a
      BY <1>8, <3>1
    <3>2. CASE d = ShutdownTcp(k) /\ a.map = "stream"
      <4>1. Alive(k)
        BY <1>10, <1>12, <3>2, InMapAlive
      <4>2. Closed(k, d)
        BY <1>10, <3>2, <4>1, ShutdownTcpCloses
      <4> QED
        BY <1>10, <1>12, <4>2 DEF Closed
    <3>3. CASE d = ShutdownTcp(k) /\ a.map # "stream"
      BY <1>10, <1>12, <3>3 DEF ShutdownTcp
    <3> QED
      BY <1>9, <3>1, <3>2, <3>3
  <2> QED
    BY <1>8, <1>13, <2>1, OutcomeFromMap
<1>14. CASE c.map = "none"
  <2>1. a = e
    BY <1>7, <1>14
  <2>2. d = e \/ d = k
    BY <1>3, <1>9, <1>10, <1>14, <2>1 DEF ShutdownTcp
  <2>3. /\ Sound(d) /\ HeldBy(d) = HeldBy(c) /\ d.stopped = c.stopped /\ d.map = "none"
        /\ d.started = c.started /\ d.timer = "spent" /\ d.closing = c.closing
    BY <1>3, <1>4, <1>5, <1>10, <1>12, <1>14, <2>1, <2>2
  <2> QED
    BY <1>2, <2>3 DEF Outcome, Later
<1> QED
  BY <1>13, <1>14

LEMMA ShutdownCallbackOutcome ==
    ASSUME NEW c, Sound(c), c.shutReq, ~c.closing, c.writes = <<>>
    PROVE  Outcome(c, CloseTcp([c EXCEPT !.shutReq = FALSE]))
<1>1. PICK e, d : e = [c EXCEPT !.shutReq = FALSE] /\ d = CloseTcp(e)
  OBVIOUS
<1>2. Alive(c) /\ Owned(c) /\ c.map = "none"
  <2>1. c.obj = "live" /\ c.map = "none"
    BY DEF Sound, Owned, Conn
  <2> QED
    BY <2>1, SoundAlive
<1>3. /\ e \in Conn /\ e.obj = c.obj /\ e.map = c.map /\ e.handles = c.handles
      /\ e.closing = c.closing /\ e.shut = c.shut /\ e.shutReq = FALSE
      /\ e.writes = c.writes /\ e.written = c.written /\ e.dropped = c.dropped
      /\ e.started = c.started /\ e.stopped = c.stopped
  BY <1>1, <1>2 DEF Alive, Conn
<1>4. Alive(e) /\ HeldBy(e) = HeldBy(c)
  BY <1>2, <1>3 DEF Alive, HeldBy
<1>5. Closed(e, d)
  BY <1>1, <1>2, <1>3, <1>4, CloseTcpCloses
<1>6. d.timer = "off"
  BY <1>5 DEF Closed, Sound, Owned
<1> QED
  BY <1>1, <1>2, <1>3, <1>4, <1>5, <1>6 DEF Outcome, Later, Closed, Alive

\* A closing connection after its close callbacks.
LEMMA ClosingOutcome ==
    ASSUME NEW c, Sound(c), c.closing, c.obj = "live", NEW d \in Conn,
           d.map = c.map, d.closing = c.closing, d.shut = c.shut, d.reading = c.reading,
           d.timer = c.timer, d.started = c.started, d.stopped = c.stopped,
           ~d.connectReq, ~d.shutReq, d.writes = <<>>,
           d.obj = IF d.handles = {} THEN "freed" ELSE "live",
           Fate(d.writes, d.written, d.dropped), HeldBy(d) = HeldBy(c)
    PROVE  Outcome(c, d)
<1>1. Owned(d)
  BY DEF Sound, Owned
<1>2. Timed(d)
  BY DEF Sound, Owned, Timed
<1> QED
  BY <1>1, <1>2 DEF Outcome, Later, Sound, Owned

LEMMA TcpClosedOutcome ==
    ASSUME NEW c, Sound(c), c.closing, "tcp" \in c.handles
    PROVE  Outcome(c, HandleClosed(Cancelled(c), "tcp"))
<1>1. c \in Conn /\ c.obj = "live" /\ Fate(c.writes, c.written, c.dropped)
  BY DEF Sound, Owned, Conn
<1>2. PICK taken : taken = {c.writes[i].buf : i \in {j \in DOMAIN c.writes :
                                              c.writes[j].state = "taken"}}
  OBVIOUS
<1>3. taken \subseteq Names(c.writes) /\ Names(c.writes) = Writing(c)
  BY <1>2 DEF Names, Writing
<1>4. Names(c.writes) \subseteq Bufs
  <2>1. PICK w : w = c.writes
    OBVIOUS
  <2>2. w \in Seq(Requests)
    BY <1>1, <2>1 DEF Conn, Requests
  <2>3. \A i \in DOMAIN w : w[i].buf \in Bufs
    <3> SUFFICES ASSUME NEW i \in DOMAIN w PROVE w[i].buf \in Bufs
      OBVIOUS
    <3>1. w[i] \in Requests
      BY <2>2
    <3> QED
      BY <3>1 DEF Requests
  <2> QED
    BY <2>1, <2>3 DEF Names
<1>5. PICK e : e = [c EXCEPT !.connectReq = FALSE, !.shutReq = FALSE, !.writes = <<>>,
                             !.written = @ \union taken,
                             !.dropped = @ \union (Names(c.writes) \ taken)]
  OBVIOUS
<1>6. Cancelled(c) = e
  BY <1>2, <1>3, <1>5 DEF Cancelled
<1>7. /\ e \in Conn /\ e.obj = c.obj /\ e.map = c.map /\ e.handles = c.handles
      /\ e.closing = c.closing /\ e.shut = c.shut /\ e.reading = c.reading
      /\ e.connectReq = FALSE /\ e.shutReq = FALSE /\ e.timer = c.timer
      /\ e.writes = <<>> /\ e.written = c.written \union taken
      /\ e.dropped = c.dropped \union (Names(c.writes) \ taken)
      /\ e.started = c.started /\ e.stopped = c.stopped
  <2>1. PICK x, y : /\ x = c.written \union taken
                    /\ y = c.dropped \union (Names(c.writes) \ taken)
    OBVIOUS
  <2>2. x \in SUBSET Bufs /\ y \in SUBSET Bufs
    BY <1>1, <1>3, <1>4, <2>1 DEF Conn
  <2>3. e = [c EXCEPT !.connectReq = FALSE, !.shutReq = FALSE, !.writes = <<>>,
                      !.written = x, !.dropped = y]
    BY <1>1, <1>5, <2>1 DEF Conn
  <2>4. <<>> \in Seq([buf : Bufs, state : WriteStates])
    OBVIOUS
  <2>5. e \in Conn
    BY <1>1, <2>2, <2>3, <2>4 DEF Conn
  <2>6. /\ e.obj = c.obj /\ e.map = c.map /\ e.handles = c.handles
        /\ e.closing = c.closing /\ e.shut = c.shut /\ e.reading = c.reading
        /\ e.connectReq = FALSE /\ e.shutReq = FALSE /\ e.timer = c.timer
        /\ e.writes = <<>> /\ e.written = x /\ e.dropped = y
        /\ e.started = c.started /\ e.stopped = c.stopped
    BY <1>1, <2>3 DEF Conn
  <2> QED
    BY <2>1, <2>5, <2>6
<1>8. Names(<<>>) = {}
  BY DEF Names
<1>9. Fate(e.writes, e.written, e.dropped)
  BY <1>1, <1>3, <1>7, <1>8 DEF Fate
<1>10. HeldBy(e) = HeldBy(c)
  BY <1>3, <1>7, <1>8 DEF HeldBy, Held
<1>11. PICK d : d = HandleClosed(e, "tcp")
  OBVIOUS
<1>12. /\ d \in Conn /\ d.map = e.map /\ d.handles = e.handles \ {"tcp"}
       /\ d.closing = e.closing /\ d.shut = e.shut /\ d.reading = e.reading
       /\ d.connectReq = e.connectReq /\ d.shutReq = e.shutReq /\ d.timer = e.timer
       /\ d.writes = e.writes /\ d.written = e.written /\ d.dropped = e.dropped
       /\ d.started = e.started /\ d.stopped = e.stopped
       /\ d.obj = IF d.handles = {} THEN "freed" ELSE e.obj
  BY <1>7, <1>11 DEF HandleClosed, Conn
<1>13. HeldBy(d) = HeldBy(c)
  BY <1>10, <1>12 DEF HeldBy
<1>14. Fate(d.writes, d.written, d.dropped)
  BY <1>9, <1>12
<1>15. Outcome(c, d)
  BY <1>1, <1>7, <1>12, <1>13, <1>14, ClosingOutcome, ZenonT(60)
<1> QED
  BY <1>6, <1>11, <1>15

LEMMA TimerClosedOutcome ==
    ASSUME NEW c, Sound(c), c.closing, "timer" \in c.handles
    PROVE  Outcome(c, HandleClosed(c, "timer"))
<1>1. c \in Conn /\ Owned(c) /\ c.obj = "live" /\ Fate(c.writes, c.written, c.dropped)
  BY DEF Sound, Owned, Conn
<1>2. PICK d : d = HandleClosed(c, "timer")
  OBVIOUS
<1>3. /\ d \in Conn /\ d.map = c.map /\ d.handles = c.handles \ {"timer"}
      /\ d.closing = c.closing /\ d.shut = c.shut /\ d.reading = c.reading
      /\ d.connectReq = c.connectReq /\ d.shutReq = c.shutReq /\ d.timer = c.timer
      /\ d.writes = c.writes /\ d.written = c.written /\ d.dropped = c.dropped
      /\ d.started = c.started /\ d.stopped = c.stopped
      /\ d.obj = IF d.handles = {} THEN "freed" ELSE c.obj
  BY <1>1, <1>2 DEF HandleClosed, Conn
<1>4. HeldBy(d) = HeldBy(c)
  BY <1>3 DEF HeldBy
<1>5. Owned(d) /\ Timed(d)
  BY <1>1, <1>3 DEF Owned, Timed
<1> QED
  BY <1>1, <1>2, <1>3, <1>4, <1>5 DEF Outcome, Later, Sound, Owned

-----------------------------------------------------------------------------
(* The steps.                                                              *)

LEMMA NoConnSound == Sound(NoConn) /\ HeldBy(NoConn) = {}
<1>1. NoConn \in Conn
  BY DEF NoConn, Conn
<1>2. Owned(NoConn) /\ Timed(NoConn)
  BY DEF NoConn, Owned, Timed
<1>3. Fate(NoConn.writes, NoConn.written, NoConn.dropped) /\ HeldBy(NoConn) = {}
  BY DEF NoConn, Fate, HeldBy, Held, Names
<1> QED
  BY <1>1, <1>2, <1>3 DEF Sound

LEMMA InitIInv == Init => IInv
<1> SUFFICES ASSUME Init PROVE IInv
  OBVIOUS
<1>1. \A s \in Ids : conn[s] = NoConn
  BY DEF Init
<1>2. Sound(NoConn) /\ HeldBy(NoConn) = {} /\ NoConn \in Conn /\ ~NoConn.stopped
  BY NoConnSound DEF Sound, NoConn
<1>3. TypeOK
  <2>1. socketIdCounter \in 0 .. MaxId
    BY MaxIdAssumption DEF Init
  <2>2. conn \in [Ids -> Conn]
    BY <1>2 DEF Init
  <2>3. exited \in BOOLEAN
    BY DEF Init
  <2> QED
    BY <1>1, <2>1, <2>2, <2>3 DEF TypeOK
<1> QED
  BY <1>1, <1>2, <1>3 DEF IInv

LEMMA HeldIsUsed ==
    ASSUME NEW s \in Ids
    PROVE  Fresh(conn[s])
<1>1. HeldBy(conn[s]) = Writing(conn[s]) \union conn[s].written \union conn[s].dropped
  BY DEF HeldBy, Held, Names, Writing
<1> QED
  BY <1>1 DEF Fresh, Unused, Used

\* A step of the connection s, be it new or not.
Moves(s) == /\ \E d : Outcome(conn[s], d) /\ conn' = [conn EXCEPT ![s] = d]
            /\ exited' = exited

LEMMA BecomesMoves ==
    ASSUME NEW s \in Ids, NEW outcomes, Becomes(s, outcomes), exited' = exited,
           \A d \in outcomes : Outcome(conn[s], d)
    PROVE  Moves(s)
  BY DEF Becomes, Moves

LEMMA NewConnMoves ==
    ASSUME IInv, Accept \/ Connect
    PROVE  /\ NextId \in Ids /\ socketIdCounter' = NextId
           /\ Moves(NextId)
<1>1. NextId \in Ids /\ socketIdCounter' = NextId /\ exited' = exited
  BY DEF Accept, Connect
<1>2. conn[NextId] = NoConn
  BY <1>1 DEF IInv, TypeOK, NextId, Ids
<1>3. /\ Sound(NoConn) /\ HeldBy(NoConn) = {} /\ ~NoConn.stopped /\ NoConn.obj = "none"
      /\ ~NoConn.shut
  BY NoConnSound DEF NoConn
<1>4. \A d : Sound(d) /\ HeldBy(d) \subseteq Unused /\ ~d.stopped => Outcome(conn[NextId], d)
  BY <1>2, <1>3 DEF Outcome, Later, Sound, Conn
<1>5. \A d \in FailedTcps : Outcome(conn[NextId], d)
  BY <1>4, FailedOutcomes
<1>6. Opened(NewTcp) /\ HeldBy(NewTcp) = {} /\ Fresh(NewTcp) /\ ~NewTcp.stopped
  BY NewTcpOpened DEF Fresh, Opened
<1>7. \A d \in StartReading(NewTcp) : Outcome(conn[NextId], d)
  <2> SUFFICES ASSUME NEW d \in StartReading(NewTcp) PROVE Outcome(conn[NextId], d)
    OBVIOUS
  <2>1. Sound(d) /\ HeldBy(d) \subseteq Unused /\ d.stopped = NewTcp.stopped
    BY <1>6, StartReadingOutcomes
  <2> QED
    BY <1>4, <1>6, <2>1
<1>8. Outcome(conn[NextId], CloseTcp(NewTcp))
  <2>1. Closed(NewTcp, CloseTcp(NewTcp))
    BY <1>6, CloseTcpCloses DEF Opened
  <2> QED
    BY <1>4, <1>6, <2>1 DEF Closed
<1>9. \A d : d = [SetTimeout(NewTcp, "connect") EXCEPT !.map = "connecting", !.connectReq = TRUE]
             => Outcome(conn[NextId], d)
  BY <1>4, ConnectingSound
<1>10. CASE Accept
  BY <1>1, <1>5, <1>7, <1>10, BecomesMoves DEF Accept
<1>11. CASE Connect
  <2> DEFINE e == [SetTimeout(NewTcp, "connect") EXCEPT !.map = "connecting", !.connectReq = TRUE]
  <2>1. Outcome(conn[NextId], e)
    BY <1>9
  <2>2. Becomes(NextId, FailedTcps \union {CloseTcp(NewTcp), e})
    BY <1>11 DEF Connect
  <2> HIDE DEF e
  <2> QED
    BY <1>1, <1>5, <1>8, <2>1, <2>2, BecomesMoves
<1> QED
  BY <1>1, <1>10, <1>11

LEMMA LoopMoves ==
    ASSUME IInv, NEW s \in Ids, LoopOwes(s) \/ Environment(s)
    PROVE  /\ socketIdCounter' = socketIdCounter
           /\ conn[s].obj # "none"
           /\ Moves(s)
<1>1. PICK c : c = conn[s]
  OBVIOUS
<1>2. Sound(c) /\ Fresh(c)
  BY <1>1, HeldIsUsed DEF IInv
<1>3. c.obj = "none" =>
        /\ c.map = "none" /\ ~c.connectReq /\ ~c.shutReq /\ ~c.closing /\ ~c.reading
        /\ c.writes = <<>> /\ c.timer = "off"
  BY <1>2 DEF Sound, Owned, NoConn
<1> USE BecomesMoves
<1>4. CASE WriteCallback(s)
  <2>1. CASE Head(c.writes).state = "taken"
    BY <1>1, <1>2, <1>3, <1>4, <2>1, WriteSucceedsOutcomes DEF WriteCallback
  <2>2. CASE Head(c.writes).state # "taken"
    BY <1>1, <1>2, <1>3, <1>4, <2>2, WriteFailsOutcomes DEF WriteCallback
  <2> QED
    BY <2>1, <2>2
<1>5. CASE ShutdownCallback(s)
  BY <1>1, <1>2, <1>3, <1>5, ShutdownCallbackOutcome DEF ShutdownCallback
<1>6. CASE TimerFires(s)
  <2> DEFINE outcomes(kill) == {IF kill THEN ShutdownTcp([a EXCEPT !.killed = TRUE]) ELSE a :
                                  a \in UserActs([c EXCEPT !.timer = "spent"])}
  <2>1. PICK kill \in BOOLEAN : Becomes(s, outcomes(kill))
    BY <1>1, <1>6 DEF TimerFires
  <2>2. c.timer \in {"connect", "idle", "send"} /\ exited' = exited
        /\ socketIdCounter' = socketIdCounter
    BY <1>1, <1>6 DEF TimerFires
  <2>3. \A d \in outcomes(kill) : Outcome(c, d)
    BY <1>2, <2>2, TimerFiresOutcomes
  <2> HIDE DEF outcomes
  <2>4. Moves(s)
    BY <1>1, <2>1, <2>2, <2>3
  <2> QED
    BY <1>1, <1>3, <2>2, <2>4
<1>7. CASE TcpClosed(s)
  BY <1>1, <1>2, <1>3, <1>7, TcpClosedOutcome DEF TcpClosed
<1>8. CASE TimerClosed(s)
  BY <1>1, <1>2, <1>3, <1>8, TimerClosedOutcome DEF TimerClosed
<1>9. CASE \E b \in Bufs : Send(s, b)
  BY <1>1, <1>2, <1>3, <1>9, SendOutcomes DEF Send
<1>10. CASE CloseGracefully(s)
  BY <1>1, <1>2, <1>3, <1>10, CloseByForceOutcome, CloseGracefullyOutcomes DEF CloseGracefully
<1>11. CASE CloseByForce(s)
  BY <1>1, <1>2, <1>3, <1>11, CloseByForceOutcome DEF CloseByForce
<1>12. CASE ConnectCallback(s)
  <2> DEFINE e == [c EXCEPT !.connectReq = FALSE, !.map = "none"]
  <2>1. /\ c.connectReq /\ ~c.closing /\ exited' = exited /\ socketIdCounter' = socketIdCounter
    BY <1>1, <1>12 DEF ConnectCallback
  <2>2. c.map = "connecting" /\ c \in Conn
    BY <1>2, <2>1 DEF Sound, Owned
  <2>3. [[c EXCEPT !.connectReq = FALSE] EXCEPT !.map = "none"] = e
        /\ [c EXCEPT !.connectReq = FALSE].map = "connecting"
    BY <2>2 DEF Conn
  <2>4. Becomes(s, StartReading(e))
    BY <1>1, <1>12, <2>3 DEF ConnectCallback
  <2>5. \A d \in StartReading(e) : Outcome(c, d)
    BY <1>2, <2>1, ConnectCallbackOutcomes
  <2> HIDE DEF e
  <2> QED
    BY <1>1, <1>3, <2>1, <2>4, <2>5
<1>13. CASE ReadData(s)
  <2>1. \A d \in UNION {RestartIdle(a) : a \in UserActs(c)} : c.reading => Outcome(c, d)
    BY <1>2, ReadDataOutcomes
  <2> QED
    BY <1>1, <1>3, <1>13, <2>1 DEF ReadData
<1>14. CASE ReadEnds(s)
  BY <1>1, <1>2, <1>3, <1>14, ReadEndsOutcome DEF ReadEnds
<1>15. CASE KernelWrites(s)
  <2>1. PICK i \in DOMAIN c.writes, result \in {"taken", "failed"} :
           /\ c.writes[i].state = "queued"
           /\ conn' = [conn EXCEPT ![s].writes[i].state = result]
    BY <1>1, <1>15 DEF KernelWrites
  <2>2. PICK d : d = [c EXCEPT !.writes[i].state = result]
    OBVIOUS
  <2>3. conn' = [conn EXCEPT ![s] = d]
    BY <1>1, <2>1, <2>2
  <2>4. ~c.closing /\ exited' = exited /\ socketIdCounter' = socketIdCounter
    BY <1>1, <1>15 DEF KernelWrites
  <2>5. Outcome(c, d)
    BY <1>2, <2>1, <2>2, <2>4, KernelWritesOutcome
  <2>6. Moves(s)
    BY <1>1, <2>3, <2>4, <2>5 DEF Moves
  <2>7. c.writes # <<>>
    BY <2>1
  <2> QED
    BY <1>1, <1>3, <2>4, <2>6, <2>7
<1> QED
  BY <1>4, <1>5, <1>6, <1>7, <1>8, <1>9, <1>10, <1>11, <1>12, <1>13, <1>14, <1>15
     DEF LoopOwes, Environment

\* The exit branch closes what is in a map.
LEMMA ExitOutcome ==
    ASSUME NEW c, Sound(c)
    PROVE  /\ Sound(ExitConn(c)) /\ Later(c, ExitConn(c)) /\ HeldBy(ExitConn(c)) = HeldBy(c)
           /\ c = NoConn => ExitConn(c) = NoConn
<1>1. CASE c.map = "stream"
  <2>1. PICK e : e = [c EXCEPT !.stopped = TRUE]
    OBVIOUS
  <2>2. Alive(c) /\ Owned(c) /\ ~c.shut /\ c # NoConn
    BY <1>1, InMapAlive DEF NoConn
  <2>3. /\ e \in Conn /\ e.obj = c.obj /\ e.handles = c.handles /\ e.closing = c.closing
        /\ e.shut = c.shut /\ e.shutReq = c.shutReq
        /\ e.writes = c.writes /\ e.written = c.written /\ e.dropped = c.dropped
        /\ e.started = c.started
    BY <2>1, <2>2 DEF Alive, Conn
  <2>4. Alive(e) /\ HeldBy(e) = HeldBy(c)
    BY <1>1, <2>2, <2>3 DEF Alive, Owned, HeldBy
  <2>5. [e EXCEPT !.map = "none"] = [c EXCEPT !.map = "none", !.stopped = TRUE]
    BY <2>1, <2>2 DEF Alive, Conn
  <2>6. ExitConn(c) = CloseTcp([e EXCEPT !.map = "none"])
    BY <1>1, <2>5 DEF ExitConn
  <2>7. Sound(ExitConn(c)) /\ HeldBy(ExitConn(c)) = HeldBy(c)
    BY <2>4, <2>6, ClosedIsSound
  <2> QED
    BY <1>1, <2>2, <2>7 DEF Later
<1>2. CASE c.map = "connecting"
  <2>1. Alive(c) /\ Owned(c) /\ ~c.shut /\ c # NoConn
    BY <1>2, InMapAlive DEF NoConn
  <2>2. ExitConn(c) = CloseTcp([c EXCEPT !.map = "none"])
    BY <1>2 DEF ExitConn
  <2>3. Sound(ExitConn(c)) /\ HeldBy(ExitConn(c)) = HeldBy(c)
    BY <2>1, <2>2, ClosedIsSound
  <2> QED
    BY <1>2, <2>1, <2>3 DEF Later
<1>3. CASE c.map = "none"
  <2>1. ExitConn(c) = c
    BY <1>3 DEF ExitConn
  <2> QED
    BY <2>1 DEF Later
<1> QED
  BY <1>1, <1>2, <1>3 DEF Sound, Conn

LEMMA MovesKeep ==
    ASSUME IInv, NEW s \in Ids, Moves(s), socketIdCounter' \in 0 .. MaxId,
           socketIdCounter <= socketIdCounter', s <= socketIdCounter'
    PROVE  IInv' /\ \A t \in Ids : Later(conn[t], conn'[t])
<1>1. PICK d : Outcome(conn[s], d) /\ conn' = [conn EXCEPT ![s] = d]
  BY DEF Moves
<1>2. /\ conn \in [Ids -> Conn] /\ socketIdCounter \in Nat /\ socketIdCounter' \in Nat
      /\ Sound(d) /\ Later(conn[s], d) /\ d \in Conn /\ d.stopped = conn[s].stopped
      /\ exited' = exited
  BY <1>1, MaxIdAssumption DEF IInv, TypeOK, Outcome, Sound, Moves
<1>3. conn'[s] = d /\ \A t \in Ids \ {s} : conn'[t] = conn[t]
  BY <1>1, <1>2
<1>4. TypeOK'
  <2>1. conn' \in [Ids -> Conn]
    BY <1>1, <1>2
  <2>2. \A t \in Ids : t > socketIdCounter' => conn'[t] = NoConn
    <3> SUFFICES ASSUME NEW t \in Ids, t > socketIdCounter' PROVE conn'[t] = NoConn
      OBVIOUS
    <3>1. t # s /\ t > socketIdCounter
      BY <1>2 DEF Ids
    <3> QED
      BY <1>3, <3>1 DEF IInv, TypeOK
  <2> QED
    BY <1>2, <2>1, <2>2 DEF IInv, TypeOK
<1>5. \A t \in Ids : Sound(conn'[t]) /\ (conn'[t].stopped => exited')
  BY <1>2, <1>3 DEF IInv
<1>6. \A t \in Ids \ {s} : HeldBy(d) \intersect HeldBy(conn[t]) = {}
  <2> SUFFICES ASSUME NEW t \in Ids \ {s} PROVE HeldBy(d) \intersect HeldBy(conn[t]) = {}
    OBVIOUS
  <2>1. HeldBy(d) \subseteq HeldBy(conn[s]) \union Unused
    BY <1>1 DEF Outcome
  <2>2. HeldBy(conn[t]) \intersect Unused = {}
    BY HeldIsUsed DEF Fresh
  <2>3. HeldBy(conn[s]) \intersect HeldBy(conn[t]) = {}
    BY DEF IInv
  <2> QED
    BY <2>1, <2>2, <2>3
<1>7. \A t, u \in Ids : t # u => HeldBy(conn'[t]) \intersect HeldBy(conn'[u]) = {}
  <2> SUFFICES ASSUME NEW t \in Ids, NEW u \in Ids, t # u
               PROVE  HeldBy(conn'[t]) \intersect HeldBy(conn'[u]) = {}
    OBVIOUS
  <2>1. CASE t = s
    BY <1>3, <1>6, <2>1
  <2>2. CASE u = s
    BY <1>3, <1>6, <2>2
  <2>3. CASE t # s /\ u # s
    BY <1>3, <2>3 DEF IInv
  <2> QED
    BY <2>1, <2>2, <2>3
<1>8. \A t \in Ids : Later(conn[t], conn'[t])
  BY <1>2, <1>3 DEF Later
<1> QED
  BY <1>4, <1>5, <1>7, <1>8 DEF IInv

LEMMA NextKeeps ==
    ASSUME IInv, [Next]_vars
    PROVE  IInv' /\ \A t \in Ids : Later(conn[t], conn'[t])
<1>1. socketIdCounter \in Nat /\ socketIdCounter \in 0 .. MaxId /\ conn \in [Ids -> Conn]
  BY MaxIdAssumption DEF IInv, TypeOK
<1>2. CASE Accept \/ Connect
  <2>1. NextId \in Ids /\ socketIdCounter' = NextId /\ Moves(NextId)
    BY <1>2, NewConnMoves
  <2>2. socketIdCounter' \in 0 .. MaxId /\ socketIdCounter <= socketIdCounter'
        /\ NextId <= socketIdCounter'
    BY <1>1, <2>1, MaxIdAssumption DEF NextId, Ids
  <2> QED
    BY <2>1, <2>2, MovesKeep
<1>3. CASE \E s \in Ids : LoopOwes(s) \/ Environment(s)
  <2>1. PICK s \in Ids : LoopOwes(s) \/ Environment(s)
    BY <1>3
  <2>2. socketIdCounter' = socketIdCounter /\ conn[s].obj # "none" /\ Moves(s)
    BY <2>1, LoopMoves
  <2>3. s <= socketIdCounter
    BY <1>1, <2>2 DEF IInv, TypeOK, NoConn, Ids
  <2>4. socketIdCounter' \in 0 .. MaxId /\ socketIdCounter <= socketIdCounter'
        /\ s <= socketIdCounter'
    BY <1>1, <2>2, <2>3
  <2> QED
    BY <2>2, <2>4, MovesKeep
<1>4. CASE Exit
  <2>1. /\ conn' = [s \in Ids |-> ExitConn(conn[s])] /\ exited' = TRUE
        /\ socketIdCounter' = socketIdCounter
    BY <1>4 DEF Exit
  <2>2. ASSUME NEW s \in Ids
        PROVE  /\ conn'[s] = ExitConn(conn[s]) /\ conn'[s] \in Conn
               /\ Sound(conn'[s]) /\ Later(conn[s], conn'[s])
               /\ HeldBy(conn'[s]) = HeldBy(conn[s])
               /\ conn[s] = NoConn => conn'[s] = NoConn
    <3>1. conn'[s] = ExitConn(conn[s])
      BY <2>1
    <3>2. Sound(conn[s])
      BY DEF IInv
    <3>3. /\ Sound(conn'[s]) /\ Later(conn[s], conn'[s])
          /\ HeldBy(conn'[s]) = HeldBy(conn[s])
          /\ conn[s] = NoConn => conn'[s] = NoConn
      BY <3>1, <3>2, ExitOutcome
    <3> QED
      BY <3>1, <3>3 DEF Sound
  <2>3. conn' \in [Ids -> Conn]
    <3>1. conn' = [s \in Ids |-> conn'[s]]
      BY <2>1
    <3>2. \A s \in Ids : conn'[s] \in Conn
      BY <2>2
    <3> QED
      BY <3>1, <3>2
  <2>4. \A s \in Ids : s > socketIdCounter' => conn'[s] = NoConn
    <3> SUFFICES ASSUME NEW s \in Ids, s > socketIdCounter' PROVE conn'[s] = NoConn
      OBVIOUS
    <3>1. conn[s] = NoConn
      BY <2>1 DEF IInv, TypeOK
    <3> QED
      BY <2>2, <3>1
  <2>5. TypeOK'
    BY <1>1, <2>1, <2>3, <2>4 DEF TypeOK
  <2>6. \A s, t \in Ids : s # t => HeldBy(conn'[s]) \intersect HeldBy(conn'[t]) = {}
    <3> SUFFICES ASSUME NEW s \in Ids, NEW t \in Ids, s # t
                 PROVE  HeldBy(conn'[s]) \intersect HeldBy(conn'[t]) = {}
      OBVIOUS
    <3>1. HeldBy(conn'[s]) = HeldBy(conn[s]) /\ HeldBy(conn'[t]) = HeldBy(conn[t])
      BY <2>2
    <3> QED
      BY <3>1 DEF IInv
  <2>7. \A s \in Ids : Sound(conn'[s]) /\ (conn'[s].stopped => exited')
    BY <2>1, <2>2
  <2>8. \A s \in Ids : Later(conn[s], conn'[s])
    BY <2>2
  <2> QED
    BY <2>5, <2>6, <2>7, <2>8 DEF IInv
<1>5. CASE AllocFails \/ LoopEnded \/ UNCHANGED vars
  <2>1. conn' = conn /\ exited' = exited /\ socketIdCounter' \in 0 .. MaxId
        /\ socketIdCounter <= socketIdCounter'
    BY <1>1, <1>5, MaxIdAssumption DEF AllocFails, LoopEnded, vars, NextId, Ids
  <2>2. TypeOK'
    <3>1. \A s \in Ids : s > socketIdCounter' => s > socketIdCounter
      BY <1>1, <2>1, MaxIdAssumption DEF Ids
    <3> QED
      BY <2>1, <3>1 DEF IInv, TypeOK
  <2>3. IInv'
    BY <2>1, <2>2 DEF IInv
  <2> QED
    BY <2>1, <2>3 DEF Later
<1> QED
  BY <1>2, <1>3, <1>4, <1>5 DEF Next

-----------------------------------------------------------------------------
(* The buffers that all connections together have been given, which is     *)
(* what a module that hands them out needs to know of a step.              *)

LEMMA UsedAfter ==
    ASSUME conn \in [Ids -> Conn], NEW s \in Ids, NEW d, NEW B,
           conn' = [conn EXCEPT ![s] = d], HeldBy(d) = HeldBy(conn[s]) \union B
    PROVE  Used' = Used \union B
<1>1. Used = UNION {HeldBy(conn[t]) : t \in Ids} /\ Used' = UNION {HeldBy(conn'[t]) : t \in Ids}
  BY DEF Used, HeldBy, Held, Names, Writing
<1>2. conn'[s] = d /\ \A t \in Ids \ {s} : conn'[t] = conn[t]
  OBVIOUS
<1>3. \A t \in Ids : HeldBy(conn'[t]) = IF t = s THEN HeldBy(conn[s]) \union B ELSE HeldBy(conn[t])
  BY <1>2
<1> QED
  BY <1>1, <1>3

LEMMA SendUses ==
    ASSUME IInv, NEW s \in Ids, NEW b, Send(s, b)
    PROVE  Used' = Used \union {b}
<1>1. PICK d \in WriteOutcomes(conn[s], b) : conn' = [conn EXCEPT ![s] = d]
  BY DEF Send, Becomes
<1>2. Sound(conn[s]) /\ Fresh(conn[s]) /\ conn[s].map = "stream" /\ b \in Unused
  BY HeldIsUsed DEF IInv, Send
<1>3. b \in Bufs /\ b \notin HeldBy(conn[s])
  BY <1>2 DEF Fresh, Unused
<1>4. Sends(conn[s], d, b)
  BY <1>1, <1>2, <1>3, InMapAlive, WriteSends
<1> QED
  BY <1>1, <1>4, UsedAfter DEF Sends, IInv, TypeOK

LEMMA CloseUsesNothing ==
    ASSUME IInv, NEW s \in Ids, CloseGracefully(s) \/ CloseByForce(s)
    PROVE  Used' = Used
<1>1. conn[s].map = "stream" /\ Alive(conn[s]) /\ ~conn[s].closing
  BY InMapAlive DEF IInv, CloseGracefully, CloseByForce, Alive
<1>2. PICK d : /\ conn' = [conn EXCEPT ![s] = d]
               /\ \/ d = ShutdownTcp(conn[s])
                  \/ d \in ShutdownTcpGracefully(SetTimeout(conn[s], "send"))
  BY DEF CloseGracefully, CloseByForce, Becomes
<1>3. ASSUME d = ShutdownTcp(conn[s]) PROVE HeldBy(d) = HeldBy(conn[s])
  BY <1>1, <1>3, ShutdownTcpCloses DEF Closed
<1>4. ASSUME d \in ShutdownTcpGracefully(SetTimeout(conn[s], "send"))
      PROVE  HeldBy(d) = HeldBy(conn[s])
  <2>1. PICK e : e = SetTimeout(conn[s], "send")
    OBVIOUS
  <2>2. Alive(e) /\ HeldBy(e) = HeldBy(conn[s]) /\ e.map = "stream"
    BY <1>1, <2>1, SetTimeoutAlive, SetTimeoutFields DEF Alive
  <2>3. PICK f : f = [e EXCEPT !.map = "none"]
    OBVIOUS
  <2>4. f \in Conn /\ f.writes = e.writes /\ f.written = e.written /\ f.dropped = e.dropped
    BY <2>2, <2>3 DEF Alive, Conn
  <2>5. d \in ShutdownAndClose(f)
    BY <1>4, <2>1, <2>2, <2>3 DEF ShutdownTcpGracefully
  <2>6. \/ d = CloseTcp(f) \/ d = f
        \/ d = [f EXCEPT !.shut = TRUE, !.shutReq = TRUE]
    BY <2>5 DEF ShutdownAndClose
  <2>7. CASE d = CloseTcp(f)
    BY <2>2, <2>3, <2>7, ClosedIsSound
  <2>8. CASE d = f \/ d = [f EXCEPT !.shut = TRUE, !.shutReq = TRUE]
    <3>1. d.writes = f.writes /\ d.written = f.written /\ d.dropped = f.dropped
      BY <2>4, <2>8 DEF Conn
    <3> QED
      BY <2>2, <2>4, <3>1 DEF HeldBy
  <2> QED
    BY <2>2, <2>6, <2>7, <2>8
<1>5. HeldBy(d) = HeldBy(conn[s])
  BY <1>2, <1>3, <1>4
<1>6. HeldBy(d) = HeldBy(conn[s]) \union {} /\ conn \in [Ids -> Conn]
  BY <1>5 DEF IInv, TypeOK
<1>7. Used' = Used \union {}
  BY <1>2, <1>6, UsedAfter
<1> QED
  BY <1>7

LEMMA ConnectUsesNothing ==
    ASSUME IInv, Connect \/ AllocFails
    PROVE  Used' = Used
<1>1. CASE AllocFails
  BY <1>1 DEF AllocFails, Used
<1>2. CASE Connect
  <2>1. PICK e : e = [SetTimeout(NewTcp, "connect") EXCEPT !.map = "connecting",
                                                           !.connectReq = TRUE]
    OBVIOUS
  <2>2. PICK d : /\ conn' = [conn EXCEPT ![NextId] = d]
                 /\ d \in FailedTcps \/ d = CloseTcp(NewTcp) \/ d = e
    BY <1>2, <2>1 DEF Connect, Becomes
  <2>3. HeldBy(NewTcp) = {} /\ Alive(NewTcp) /\ NewTcp.map = "none"
    BY NewTcpOpened DEF Opened
  <2>4. HeldBy(d) = {}
    BY <2>1, <2>2, <2>3, FailedOutcomes, CloseTcpCloses, ConnectingSound DEF Closed
  <2>5. NextId \in Ids /\ conn[NextId] = NoConn
    BY <1>2 DEF Connect, IInv, TypeOK, NextId, Ids
  <2>6. HeldBy(d) = HeldBy(conn[NextId]) \union {} /\ conn \in [Ids -> Conn]
    BY <2>4, <2>5, NoConnSound DEF IInv, TypeOK
  <2>7. Used' = Used \union {}
    BY <2>2, <2>5, <2>6, UsedAfter
  <2> QED
    BY <2>7
<1> QED
  BY <1>1, <1>2

LEMMA ExitUsesNothing ==
    ASSUME IInv, Exit
    PROVE  Used' = Used
<1>1. Used = UNION {HeldBy(conn[t]) : t \in Ids} /\ Used' = UNION {HeldBy(conn'[t]) : t \in Ids}
  BY DEF Used, HeldBy, Held, Names, Writing
<1>2. ASSUME NEW t \in Ids PROVE HeldBy(conn'[t]) = HeldBy(conn[t])
  <2>1. conn'[t] = ExitConn(conn[t]) /\ Sound(conn[t])
    BY DEF Exit, IInv
  <2> QED
    BY <2>1, ExitOutcome
<1> QED
  BY <1>1, <1>2

LEMMA FateFollows == IInv => BufferFate
<1> SUFFICES ASSUME IInv PROVE BufferFate
  OBVIOUS
<1>1. \A s \in Ids :
         /\ Fate(conn[s].writes, conn[s].written, conn[s].dropped)
         /\ Names(conn[s].writes) = Writing(conn[s])
         /\ HeldBy(conn[s]) = Writing(conn[s]) \union conn[s].written \union conn[s].dropped
  BY DEF IInv, Sound, Names, Writing, HeldBy, Held
<1>2. \A s, t \in Ids : s # t =>
       (Writing(conn[s]) \union conn[s].written \union conn[s].dropped)
         \intersect (Writing(conn[t]) \union conn[t].written \union conn[t].dropped)
       = {}
  BY <1>1 DEF IInv
<1>3. \A s \in Ids :
       /\ Writing(conn[s]) \intersect (conn[s].written \union conn[s].dropped) = {}
       /\ conn[s].written \intersect conn[s].dropped = {}
       /\ \A i, j \in DOMAIN conn[s].writes :
             conn[s].writes[i].buf = conn[s].writes[j].buf => i = j
  BY <1>1 DEF Fate
<1> QED
  BY <1>2, <1>3 DEF BufferFate

-----------------------------------------------------------------------------
(* The theorems.                                                           *)

\* The invariant holds: of every connection Sound, across connections that no
\* buffer is in two.
LEMMA Inductive == Spec => []IInv
<1>1. IInv /\ [Next]_vars => IInv'
  BY NextKeeps
<1> QED
  BY InitIInv, <1>1, PTL DEF Spec

\* What m_connecting or m_socketId2stream holds may be used as sendTcp, close
\* and the connect callback use it, untested: it lives, both handles are open,
\* and it is neither closing nor shutting down.  And no Ctcp is forgotten: one
\* that is not closing is in a map or awaits the callback of uv_shutdown.
THEOREM ConnectionsOwned == Spec => []Ownership
<1>1. IInv => Ownership
  <2> SUFFICES ASSUME IInv PROVE Ownership
    OBVIOUS
  <2>1. \A s \in Ids : Sound(conn[s])
    BY DEF IInv
  <2>2. MapsUsable
    BY <2>1 DEF MapsUsable, Sound, Owned, Conn, BothHandles
  <2>3. NoOrphan
    BY <2>1 DEF NoOrphan, Sound, Owned
  <2> QED
    BY <2>2, <2>3 DEF Ownership, IInv
<1> QED
  BY <1>1, Inductive, PTL

\* No callback of libuv finds its Ctcp deleted: on_close deletes it when both
\* handles are closed, by when the connect, shutdown and write requests have
\* been called back, and Ctcp::close has stopped reads and the timer.
THEOREM CallbacksAlive == Spec => []NoDanglingCallback
<1>1. IInv => NoDanglingCallback
  BY DEF IInv, NoDanglingCallback, Sound, Owned
<1> QED
  BY <1>1, Inductive, PTL

\* Data given to sendTcp is in one place: one write request of one connection,
\* or written, or reported by drop(); so tcpWriteWithTimeout and the write
\* callback free it once.
THEOREM BuffersAccounted == Spec => []BufferFate
  BY FateFollows, Inductive, PTL

\* The one timer of a connection, which setTcpTimeout hands from connecting to
\* idling to sending and back, always watches what it was set for.
THEOREM TimersRight == Spec => []TimerMatches
<1>1. IInv => TimerMatches
  BY DEF IInv, TimerMatches, Sound, Timed
<1> QED
  BY <1>1, Inductive, PTL

\* A connection taken out of its map is in no map again, is not started up and
\* gets no new timeout: none of the callbacks that may still come, connect and
\* write callbacks among them, revives it.
THEOREM NoWayBack == Spec => GoneForGood
<1>1. IInv /\ [Next]_vars =>
        [\A s \in Ids :
           conn[s].obj # "none" /\ conn[s].map = "none" =>
              /\ conn'[s].map = "none"
              /\ conn'[s].started = conn[s].started
              /\ conn'[s].timer \in {conn[s].timer, "off", "spent"}
              /\ conn[s].closing => conn'[s].closing
              /\ conn[s].obj = "freed" => conn'[s] = conn[s]]_vars
  BY NextKeeps DEF Later
<1> QED
  BY <1>1, Inductive, PTL DEF Spec, GoneForGood

\* shutdown_and_close does not close over pending writes: a connection that is
\* shutting down begins to close only when its write queue is empty, or when its
\* timer fires and timeout() asks to kill it.
THEOREM GracefulCloseWaitsForWrites == Spec => GracefulCloseWaits
<1>1. IInv /\ [Next]_vars =>
        [\A s \in Ids :
           conn[s].shut /\ ~conn[s].closing /\ conn'[s].closing =>
              conn[s].writes = <<>> \/ (TimerFires(s) /\ conn'[s].killed)]_vars
  BY NextKeeps DEF Later
<1> QED
  BY <1>1, Inductive, PTL DEF Spec, GracefulCloseWaits
=============================================================================
