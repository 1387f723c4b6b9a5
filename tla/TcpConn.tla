------------------------------ MODULE TcpConn ------------------------------
(***************************************************************************)
(* The life of a TCP connection on the loop thread: the Ctcp object with   *)
(* its two libuv handles (uv_wrapper.h), the maps m_connecting and         *)
(* m_socketId2stream that own it, its timer and its write requests         *)
(* (network_pool.cpp).                                                     *)
(*                                                                         *)
(* The loop runs one libuv callback or one queued request at a time, so    *)
(* each action below is a whole callback, with the calls back into the     *)
(* pool that the user's own callback may make on the way.  Everything a    *)
(* step does happens to one connection: it is described as the set of      *)
(* records that the connection's record may become.  libuv, the kernel and *)
(* the peer are modelled from how the code uses them: a function may fail  *)
(* where the code tests its result, and every request gets its callback.   *)
(***************************************************************************)
EXTENDS Integers, Sequences

CONSTANTS
    MaxId,          \* bound: sockets created in a behaviour
    Bufs,           \* data buffers, each sent at most once
    Timeouts        \* the timeouts that the user's settings do not set to 0

ASSUME MaxIdAssumption == MaxId \in Nat
ASSUME TimeoutsAssumption == Timeouts \subseteq {"connect", "idle", "send"}

Ids == 1 .. MaxId

VARIABLES
    socketIdCounter,    \* m_socketIdCounter
    exited,             \* the exit branch of the wakeup callback has run
    conn                \* the Ctcp that was given each socket id

vars == <<socketIdCounter, exited, conn>>

(***************************************************************************)
(* A connection.                                                           *)
(*   obj        the Ctcp: not allocated, allocated, or deleted             *)
(*   map        the map whose unique_ptr owns it                           *)
(*   handles    m_tcpInited, m_timerInited                                 *)
(*   closing, shut    m_closing, m_shutdown                                *)
(*   timer      why m_timer runs, "off", or "spent" after it has fired     *)
(*   reading    uv_read_start is in effect                                 *)
(*   connectReq uv_tcp_connect owes a callback                             *)
(*   shutReq    uv_shutdown owes a callback (and its memory is allocated)  *)
(*   writes     the write requests that await their callback, oldest       *)
(*              first: queued in libuv, taken by the kernel, or failed     *)
(*   written, dropped   history: buffers written, or reported by drop()    *)
(*   started, stopped   history: startup() and shutdown() were called      *)
(*   killed     history: timeout() returned true                           *)
(***************************************************************************)
WriteStates == {"queued", "taken", "failed"}

Conn == [obj : {"none", "live", "freed"},
         map : {"none", "connecting", "stream"},
         handles : SUBSET {"tcp", "timer"},
         closing : BOOLEAN, shut : BOOLEAN,
         timer : {"off", "connect", "idle", "send", "spent"},
         reading : BOOLEAN,
         connectReq : BOOLEAN, shutReq : BOOLEAN,
         writes : Seq([buf : Bufs, state : WriteStates]),
         written : SUBSET Bufs, dropped : SUBSET Bufs,
         started : BOOLEAN, stopped : BOOLEAN, killed : BOOLEAN]

NoConn == [obj |-> "none", map |-> "none", handles |-> {},
           closing |-> FALSE, shut |-> FALSE, timer |-> "off",
           reading |-> FALSE, connectReq |-> FALSE,
           shutReq |-> FALSE, writes |-> <<>>, written |-> {}, dropped |-> {},
           started |-> FALSE, stopped |-> FALSE, killed |-> FALSE]

Init ==
    /\ socketIdCounter = 0
    /\ exited = FALSE
    /\ conn = [s \in Ids |-> NoConn]

Writing(c) == {c.writes[i].buf : i \in DOMAIN c.writes}
Used       == UNION {Writing(conn[s]) \union conn[s].written \union conn[s].dropped :
                        s \in Ids}
Unused     == Bufs \ Used

\* uv_stream_get_write_queue_size is 0: a request counts until the kernel took
\* its data or its failure is called back.
WriteQueueEmpty(c) == \A i \in DOMAIN c.writes : c.writes[i].state = "taken"

-----------------------------------------------------------------------------
(* Ctcp.                                                                   *)

\* new Ctcp with both handles initialised.
NewTcp == [NoConn EXCEPT !.obj = "live", !.handles = {"tcp", "timer"}]

\* Ctcp::close, also the deleter of Ctcp::ptr: closing a handle stops it, and
\* the last close callback deletes the object.
CloseTcp(c) ==
    IF c.handles = {} THEN [c EXCEPT !.obj = "freed"]
    ELSE IF c.closing THEN c
    ELSE [c EXCEPT !.closing = TRUE, !.reading = FALSE, !.timer = "off"]

\* Ctcp::alloc when uv_tcp_init or uv_timer_init fails.
FailedTcps == {CloseTcp([NewTcp EXCEPT !.handles = {}]),
               CloseTcp([NewTcp EXCEPT !.handles = {"tcp"}])}

\* Mutant of ShutdownAndClose: when uv_shutdown fails nobody closes.
ShutdownOrForget(c) ==
    IF c.closing \/ c.shut THEN {c}
    ELSE {c, [c EXCEPT !.shut = TRUE, !.shutReq = TRUE]}

\* Ctcp::shutdown_and_close on a connection just taken out of its map.
ShutdownAndClose(c) ==
    IF c.closing \/ c.shut THEN {c}
    ELSE {CloseTcp(c), [c EXCEPT !.shut = TRUE, !.shutReq = TRUE]}

\* CnetworkPool::shutdownTcpConnection: it acts on what it finds in
\* m_socketId2stream, and on nothing else.
ShutdownTcp(c) ==
    IF c.map = "stream" THEN CloseTcp([c EXCEPT !.map = "none"]) ELSE c
\* Mutant of ShutdownTcpGracefully: the connection stays in its map.
ShutdownTcpInMap(c) ==
    IF c.map = "stream" THEN ShutdownAndClose(c) ELSE {c}

ShutdownTcpGracefully(c) ==
    IF c.map = "stream" THEN ShutdownAndClose([c EXCEPT !.map = "none"]) ELSE {c}

\* CnetworkPool::setTcpTimeout when it succeeds.
SetTimeout(c, why) ==
    [c EXCEPT !.timer = IF why \in Timeouts THEN why ELSE "off"]

\* Mutants of RestartIdle: while data is queued; while shutting down.
RestartIdleAlways(c) ==
    IF ~c.closing /\ ~c.shut THEN {SetTimeout(c, "idle"), ShutdownTcp(c)} ELSE {c}
RestartIdleInShutdown(c) ==
    IF ~c.closing /\ WriteQueueEmpty(c)
    THEN {SetTimeout(c, "idle"), ShutdownTcp(c)} ELSE {c}

\* The idle timer is restarted, or that fails and the connection is closed.
RestartIdle(c) ==
    IF ~c.closing /\ ~c.shut /\ WriteQueueEmpty(c)
    THEN {SetTimeout(c, "idle"), ShutdownTcp(c)}
    ELSE {c}

\* Mutant of WriteOutcomes: a refused write is not reported.
WriteOutcomesSilent(c, b) ==
    {ShutdownTcp(c), [SetTimeout(c, "send") EXCEPT
         !.writes = Append(@, [buf |-> b, state |-> "queued"])]}

\* tcpWriteWithTimeout, and what its callers do when it fails: no memory or no
\* timer, uv_write refuses, or the request is queued.
WriteOutcomes(c, b) ==
    LET drop == [c EXCEPT !.dropped = @ \union {b}]
    IN  {ShutdownTcp(drop), ShutdownTcp(SetTimeout(drop, "send")),
         [SetTimeout(c, "send") EXCEPT
             !.writes = Append(@, [buf |-> b, state |-> "queued"])]}

\* sendTcp called on the loop thread by a callback of the connection.  The
\* bound: a callback sends one buffer.
UserActs(c) ==
    {c} \union (IF c.map = "stream"
                THEN UNION {WriteOutcomes(c, b) : b \in Unused} ELSE {})

\* tcpReadWithTimeout and startupTcpConnection, at the end of both ways to
\* get a connection; what fails before lets the unique_ptr close it.
StartReading(c) ==
    LET up == [SetTimeout(c, "idle") EXCEPT !.reading = TRUE,
                  !.map = "stream", !.started = TRUE]
    IN  {CloseTcp(c)} \union UserActs(up)

Becomes(s, outcomes) == \E c \in outcomes : conn' = [conn EXCEPT ![s] = c]

-----------------------------------------------------------------------------
(* New connections.                                                        *)

NextId == socketIdCounter + 1

\* Mutant of Accept: the counter does not keep the id it gave out.
AcceptUncounted ==
    /\ ~exited
    /\ NextId \in Ids
    /\ Becomes(NextId, FailedTcps \union StartReading(NewTcp))
    /\ UNCHANGED <<exited, socketIdCounter>>

\* The callback of uv_listen: a client socket is created, accepted,
\* customised and started up.
Accept ==
    /\ ~exited
    /\ NextId \in Ids
    /\ socketIdCounter' = NextId
    /\ Becomes(NextId, FailedTcps \union StartReading(NewTcp))
    /\ UNCHANGED exited

\* A queued connect: Ctcp::alloc, setTcpTimeout or uv_tcp_connect may fail.
Connect ==
    /\ ~exited
    /\ NextId \in Ids
    /\ socketIdCounter' = NextId
    /\ Becomes(NextId,
         FailedTcps \union {CloseTcp(NewTcp),
             [SetTimeout(NewTcp, "connect") EXCEPT !.map = "connecting",
                 !.connectReq = TRUE]})
    /\ UNCHANGED exited

\* Ctcp::alloc evaluates ++m_socketIdCounter before operator new fails.
AllocFails ==
    /\ ~exited
    /\ NextId \in Ids
    /\ socketIdCounter' = NextId
    /\ UNCHANGED <<exited, conn>>

\* The callback of uv_tcp_connect, with success or failure.
ConnectCallback(s) ==
    /\ conn[s].connectReq
    /\ ~conn[s].closing
    /\ LET c == [conn[s] EXCEPT !.connectReq = FALSE]
           taken == [c EXCEPT !.map = "none"]
       IN  Becomes(s, IF c.map # "connecting" THEN {c} ELSE StartReading(taken))
    /\ UNCHANGED <<socketIdCounter, exited>>

-----------------------------------------------------------------------------
(* Queued requests.                                                        *)

\* sendTcp, from the queue or directly from a callback of something else.
Send(s, b) ==
    /\ conn[s].map = "stream"
    /\ b \in Unused
    /\ Becomes(s, WriteOutcomes(conn[s], b))
    /\ UNCHANGED <<socketIdCounter, exited>>

\* close without force: the send timer watches the shutdown; when it cannot
\* be set the connection is closed at once.
CloseGracefully(s) ==
    /\ conn[s].map = "stream"
    /\ Becomes(s, {ShutdownTcp(conn[s])}
                  \union ShutdownTcpGracefully(SetTimeout(conn[s], "send")))
    /\ UNCHANGED <<socketIdCounter, exited>>

CloseByForce(s) ==
    /\ conn[s].map = "stream"
    /\ Becomes(s, {ShutdownTcp(conn[s])})
    /\ UNCHANGED <<socketIdCounter, exited>>

\* Mutant of ExitConn: m_connecting is not cleared.
ExitConnStreams(c) ==
    IF c.map = "stream" THEN CloseTcp([c EXCEPT !.map = "none", !.stopped = TRUE])
    ELSE c

\* The exit branch: shutdown() and close for the connections in
\* m_socketId2stream, close for those in m_connecting.
ExitConn(c) ==
    IF c.map = "stream" THEN CloseTcp([c EXCEPT !.map = "none", !.stopped = TRUE])
    ELSE IF c.map = "connecting" THEN CloseTcp([c EXCEPT !.map = "none"])
    ELSE c

Exit ==
    /\ ~exited
    /\ exited' = TRUE
    /\ conn' = [s \in Ids |-> ExitConn(conn[s])]
    /\ UNCHANGED socketIdCounter

-----------------------------------------------------------------------------
(* Callbacks of a connection that is up.                                   *)

\* uv_read's callback with data: packet(), and the idle timer.
ReadData(s) ==
    /\ conn[s].reading
    /\ Becomes(s, UNION {RestartIdle(c) : c \in UserActs(conn[s])})
    /\ UNCHANGED <<socketIdCounter, exited>>

\* Mutant of ReadEnds: it closes whatever state the connection is in.
ReadEndsAndCloses(s) ==
    /\ conn[s].reading
    /\ Becomes(s, {CloseTcp([conn[s] EXCEPT !.map = "none"])})
    /\ UNCHANGED <<socketIdCounter, exited>>

\* End of stream or an error; libuv reads no further.
ReadEnds(s) ==
    /\ conn[s].reading
    /\ Becomes(s, {ShutdownTcp([conn[s] EXCEPT !.reading = FALSE])})
    /\ UNCHANGED <<socketIdCounter, exited>>

\* The kernel takes, or refuses, the data of the oldest request in libuv.
KernelWrites(s) ==
    /\ ~conn[s].closing
    /\ \E i \in DOMAIN conn[s].writes, result \in {"taken", "failed"} :
          /\ conn[s].writes[i].state = "queued"
          /\ \A j \in 1 .. (i - 1) : conn[s].writes[j].state # "queued"
          /\ conn' = [conn EXCEPT ![s].writes[i].state = result]
    /\ UNCHANGED <<socketIdCounter, exited>>

\* uv_write's callback with status 0: the buffer is freed, and when nothing
\* else is queued the idle timer takes over.
WriteSucceeds(c) ==
    RestartIdle([c EXCEPT !.writes = Tail(@),
                          !.written = @ \union {Head(c.writes).buf}])

\* With an error: drop(), and the connection is closed.
WriteFails(c) ==
    {ShutdownTcp(d) : d \in
        UserActs([c EXCEPT !.writes = Tail(@),
                           !.dropped = @ \union {Head(c.writes).buf}])}

WriteCallback(s) ==
    /\ ~conn[s].closing
    /\ conn[s].writes # <<>>
    /\ Head(conn[s].writes).state # "queued"
    /\ Becomes(s, IF Head(conn[s].writes).state = "taken"
                  THEN WriteSucceeds(conn[s]) ELSE WriteFails(conn[s]))
    /\ UNCHANGED <<socketIdCounter, exited>>

\* The one-shot timer fires; timeout() may send, and says whether the
\* connection is to be killed.
TimerFires(s) ==
    /\ conn[s].timer \in {"connect", "idle", "send"}
    /\ \E kill \in BOOLEAN :
          Becomes(s, {IF kill THEN ShutdownTcp([c EXCEPT !.killed = TRUE]) ELSE c :
                         c \in UserActs([conn[s] EXCEPT !.timer = "spent"])})
    /\ UNCHANGED <<socketIdCounter, exited>>

\* uv_shutdown's callback, once every write has had its own.
ShutdownCallback(s) ==
    /\ conn[s].shutReq
    /\ ~conn[s].closing
    /\ conn[s].writes = <<>>
    /\ Becomes(s, {CloseTcp([conn[s] EXCEPT !.shutReq = FALSE])})
    /\ UNCHANGED <<socketIdCounter, exited>>

-----------------------------------------------------------------------------
(* Closing.                                                                *)

\* Mutant of Cancelled: drop() for all requests, taken ones included.
CancelledAll(c) ==
    [c EXCEPT !.connectReq = FALSE, !.shutReq = FALSE, !.writes = <<>>,
              !.written = @ \union {c.writes[i].buf : i \in {j \in DOMAIN c.writes :
                                        c.writes[j].state = "taken"}},
              !.dropped = @ \union Writing(c)]

\* libuv ends a closing stream by cancelling its requests: the connect
\* callback finds nothing in m_connecting and returns before it frees the
\* request, the write callbacks drop what the kernel did not take, the
\* shutdown callback finds the connection closing and frees its request.
\* Then comes the close callback, which deletes the object if it is the last.
Cancelled(c) ==
    LET taken == {c.writes[i].buf : i \in {j \in DOMAIN c.writes :
                                              c.writes[j].state = "taken"}}
    IN  [c EXCEPT !.connectReq = FALSE, !.shutReq = FALSE, !.writes = <<>>,
                  !.written = @ \union taken,
                  !.dropped = @ \union (Writing(c) \ taken)]

\* Mutants of HandleClosed: any close callback deletes the object; only the
\* stream's does.
FirstCloseDeletes(c, h) == [c EXCEPT !.handles = @ \ {h}, !.obj = "freed"]
TcpCloseDeletes(c, h) ==
    LET d == [c EXCEPT !.handles = @ \ {h}]
    IN  IF h = "tcp" /\ d.handles = {} THEN [d EXCEPT !.obj = "freed"] ELSE d

HandleClosed(c, h) ==
    LET d == [c EXCEPT !.handles = @ \ {h}]
    IN  IF d.handles = {} THEN [d EXCEPT !.obj = "freed"] ELSE d

TcpClosed(s) ==
    /\ conn[s].closing
    /\ "tcp" \in conn[s].handles
    /\ Becomes(s, {HandleClosed(Cancelled(conn[s]), "tcp")})
    /\ UNCHANGED <<socketIdCounter, exited>>

TimerClosed(s) ==
    /\ conn[s].closing
    /\ "timer" \in conn[s].handles
    /\ Becomes(s, {HandleClosed(conn[s], "timer")})
    /\ UNCHANGED <<socketIdCounter, exited>>

-----------------------------------------------------------------------------
\* Callbacks that the loop delivers without help from the kernel or the peer.
LoopOwes(s) == \/ WriteCallback(s) \/ ShutdownCallback(s) \/ TimerFires(s)
               \/ TcpClosed(s) \/ TimerClosed(s)

\* Requests, and events that the kernel and the peer decide on.
Environment(s) == \/ \E b \in Bufs : Send(s, b)
                  \/ CloseGracefully(s) \/ CloseByForce(s)
                  \/ ConnectCallback(s) \/ ReadData(s) \/ ReadEnds(s)
                  \/ KernelWrites(s)

\* uv_run has returned: no handle is left.
LoopEnded == /\ exited
             /\ \A s \in Ids : conn[s].obj # "live"
             /\ UNCHANGED vars

Next == \/ Accept \/ Connect \/ AllocFails \/ Exit
        \/ \E s \in Ids : LoopOwes(s) \/ Environment(s)
        \/ LoopEnded

Spec == Init /\ [][Next]_vars

\* The loop delivers the callbacks it has in hand.  A timer fires if nothing
\* restarts it: nothing does once the connection is being shut down, while
\* packets may restart the idle timer for ever.
LoopFairness(s) ==
    /\ WF_vars(WriteCallback(s))
    /\ WF_vars(ShutdownCallback(s))
    /\ WF_vars(conn[s].shut /\ TimerFires(s))
    /\ WF_vars(TcpClosed(s))
    /\ WF_vars(TimerClosed(s))

FairSpec == Spec /\ \A s \in Ids : LoopFairness(s)

\* Besides, the kernel sooner or later takes or refuses what is queued: the
\* peer reads, or the connection breaks.
PeerFairSpec == FairSpec /\ \A s \in Ids : WF_vars(KernelWrites(s))

-----------------------------------------------------------------------------
(* Properties.                                                             *)

\* Every variable has its type, and sockets have the ids given out so far.
TypeOK ==
    /\ socketIdCounter \in 0 .. MaxId
    /\ exited \in BOOLEAN
    /\ conn \in [Ids -> Conn]
    /\ \A s \in Ids : s > socketIdCounter => conn[s] = NoConn

MapsUsable ==
    \A s \in Ids : conn[s].map # "none" =>
        /\ conn[s].obj = "live"
        /\ conn[s].handles = {"tcp", "timer"}
        /\ ~conn[s].closing /\ ~conn[s].shut
        /\ conn[s].map = "stream" <=> conn[s].started
        /\ conn[s].map = "stream" <=> conn[s].reading
        /\ conn[s].map = "connecting" <=> conn[s].connectReq

NoOrphan ==
    \A s \in Ids : conn[s].obj = "live" /\ ~conn[s].closing =>
        conn[s].map # "none" \/ conn[s].shutReq

\* The types, and what the code finds in a map it may use: the object lives, its
\* handles are open, and it is neither closing nor shutting down.  (Send, close and the
\* connect callback do not test for it.)  And no connection is forgotten: while
\* it is not closing, a map owns it or the callback of uv_shutdown will close it.
Ownership == TypeOK /\ MapsUsable /\ NoOrphan

\* Nothing calls back into an object that is gone: a closing connection is in
\* no map, reads nothing and has no timer, and when it is deleted both handles
\* are closed and libuv has called back every request.  shutdown() is called
\* on sessions that were started up, and only by the exit branch.
NoDanglingCallback ==
    \A s \in Ids :
        /\ conn[s].closing => /\ conn[s].map = "none"
                              /\ ~conn[s].reading
                              /\ conn[s].timer = "off"
        /\ conn[s].obj = "freed" => /\ conn[s].handles = {}
                                    /\ ~conn[s].connectReq /\ ~conn[s].shutReq
                                    /\ conn[s].writes = <<>>
        /\ conn[s].obj = "live" => conn[s].handles # {}
        /\ conn[s].stopped => conn[s].started /\ exited

\* A buffer given to a connection is in one write request, or was written, or
\* was reported by drop(), and only one of these, in one connection.
BufferFate ==
    /\ \A s \in Ids :
         /\ Writing(conn[s]) \intersect (conn[s].written \union conn[s].dropped) = {}
         /\ conn[s].written \intersect conn[s].dropped = {}
         /\ \A i, j \in DOMAIN conn[s].writes :
               conn[s].writes[i].buf = conn[s].writes[j].buf => i = j
    /\ \A s, t \in Ids : s # t =>
         (Writing(conn[s]) \union conn[s].written \union conn[s].dropped)
           \intersect (Writing(conn[t]) \union conn[t].written \union conn[t].dropped)
         = {}

\* The one timer of a connection watches what it should: the idle timeout
\* never runs while data waits to be written, the send timeout never runs when
\* nothing was sent, the connect timeout never outlives the connecting, and a
\* connection that is up is not left unwatched unless timeout() let it live.
TimerMatches ==
    \A s \in Ids :
        /\ conn[s].timer = "idle" => WriteQueueEmpty(conn[s])
        /\ conn[s].timer = "send" => conn[s].writes # <<>> \/ conn[s].shut
        /\ conn[s].timer = "connect" => conn[s].map = "connecting"
        /\ conn[s].map = "stream" /\ conn[s].timer = "off" =>
               \/ "idle" \notin Timeouts
               \/ "send" \notin Timeouts /\ conn[s].writes # <<>>

\* A connection that has left its map never comes back to life: it is in no
\* map again, is not started up (not after the exit branch either), and no
\* timeout is started for it.
GoneForGood ==
    [][\A s \in Ids :
         conn[s].obj # "none" /\ conn[s].map = "none" =>
            /\ conn'[s].map = "none"
            /\ conn'[s].started = conn[s].started
            /\ conn'[s].timer \in {conn[s].timer, "off", "spent"}
            /\ conn[s].closing => conn'[s].closing
            /\ conn[s].obj = "freed" => conn'[s] = conn[s]]_vars

\* A close without force "waits for pending write requests to complete"
\* (network_pool.h, above close): it does not close over them.  A timeout() that
\* asks to kill may, as a "timeout when shutdown will force close"
\* (network_pool.cpp, where a close is handled); TimeoutKills is about that.
GracefulCloseWaits ==
    [][\A s \in Ids :
         conn[s].shut /\ ~conn[s].closing /\ conn'[s].closing =>
            conn[s].writes = <<>> \/ (TimerFires(s) /\ conn'[s].killed)]_vars

\* A connection that begins to close is deleted.
Reclaimed == \A s \in Ids : conn[s].closing ~> (conn[s].obj = "freed")

\* After the exit branch no handle stays, so uv_run returns and the destructor
\* of the pool can join its thread.
ExitFinishes == exited ~> (\A s \in Ids : conn[s].obj # "live")

\* "Timeout notify. Return true to kill connection." (network_callback.h): the
\* connection is closed in the same callback, be it up, connecting, or in the
\* graceful close that "timeout when shutdown will force close"
\* (network_pool.cpp, where a close is handled).
TimeoutKills ==
    [][\A s \in Ids : ~conn[s].killed /\ conn'[s].killed => conn'[s].closing]_vars
=============================================================================
