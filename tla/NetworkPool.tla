---------------------------- MODULE NetworkPool ----------------------------
(***************************************************************************)
(* RequestQueue and TcpConn as one program: the requests that the threads  *)
(* push are what the loop does to the connections, the callbacks of the    *)
(* connections run on the loop thread when it is in neither the wakeup     *)
(* callback nor another, the exit branch is the one step that tears both   *)
(* down, and uv_run returns when libuv has closed every handle.            *)
(*                                                                         *)
(* A request to send carries one buffer, which has the request's name.     *)
(* Callbacks call the pool through the queue; what they send directly is   *)
(* left to TcpConn.  Listening sockets are those of SocketServers; here a  *)
(* bind that was handled lets connections come in.                         *)
(***************************************************************************)
EXTENDS Integers, Sequences, FiniteSets

CONSTANTS
    Clients, Requests, KindOf, InitMayFail,     \* of RequestQueue
    MaxId, Timeouts,                            \* of TcpConn
    SocketOf        \* the socket that each request to send or close is for

VARIABLES
    lock, pending, signalled, wakeup, poolState, wantExit, loop, batch, client,
    owner, clock, stamp, handled, discarded,    \* of RequestQueue
    socketIdCounter, exited, conn,              \* of TcpConn
    lost            \* history: requests to send that found no connection

Queue == INSTANCE RequestQueue

SendsTcp == {r \in Requests : KindOf[r] = Queue!SendTcp}

Tcp == INSTANCE TcpConn WITH Bufs <- SendsTcp

\* What the two components assume, and that a request names a socket id.
ASSUME QueueAssumption  == KindOf \in [Requests -> Queue!Kinds] /\ InitMayFail \in BOOLEAN
ASSUME TcpAssumption    == MaxId \in Nat /\ Timeouts \subseteq {"connect", "idle", "send"}
ASSUME SocketAssumption == SocketOf \in [Requests -> 1 .. MaxId]

queueVars == <<lock, pending, signalled, wakeup, poolState, wantExit, loop, batch,
               client, owner, clock, stamp, handled, discarded>>
tcpVars   == <<socketIdCounter, exited, conn>>
vars      == <<queueVars, tcpVars, lost>>

Init == Queue!Init /\ Tcp!Init /\ lost = {}

-----------------------------------------------------------------------------
(* The batch.                                                              *)

Ups(s) == conn[s].map = "stream"

\* tcpWriteWithTimeout for a connection that is up; else the data is freed
\* with the batch, and nobody is told.
SendsOrLoses(r) ==
    IF Ups(SocketOf[r]) THEN Tcp!Send(SocketOf[r], r) /\ UNCHANGED lost
    ELSE lost' = lost \union {r} /\ UNCHANGED tcpVars

ClosesOrNot(r) ==
    /\ IF Ups(SocketOf[r])
       THEN Tcp!CloseGracefully(SocketOf[r]) \/ Tcp!CloseByForce(SocketOf[r])
       ELSE UNCHANGED tcpVars
    /\ UNCHANGED lost

DoesNothing == UNCHANGED <<tcpVars, lost>>

\* The bound: there is no memory for more than MaxId connections.
Connects ==
    IF Tcp!NextId \in Tcp!Ids
    THEN (Tcp!Connect \/ Tcp!AllocFails) /\ UNCHANGED lost
    ELSE DoesNothing

Handle(r) ==
    CASE KindOf[r] = Queue!SendTcp -> SendsOrLoses(r)
      [] KindOf[r] = Queue!Connect -> Connects
      [] KindOf[r] = Queue!Close -> ClosesOrNot(r)
      [] OTHER -> DoesNothing

Dispatch == \E k \in Queue!Kinds : Queue!Dispatch(k) /\ Handle(Head(batch[k]))

-----------------------------------------------------------------------------
(* The rest of the loop thread.                                            *)

Exit == Queue!Exit /\ Tcp!Exit /\ UNCHANGED lost

LoopReturns ==
    /\ \A s \in Tcp!Ids : conn[s].obj # "live"
    /\ Queue!LoopReturns
    /\ DoesNothing

LoopStep ==
    \/ Dispatch \/ Exit \/ LoopReturns
    \/ DoesNothing /\ (\/ Queue!LoopStarts \/ Queue!LoopFailsToStart \/ Queue!LoopSend
                       \/ Queue!Wake \/ Queue!TryLockFails \/ Queue!TakeBatch
                       \/ Queue!ReadWantExit \/ Queue!DispatchEnds)

\* The step that comes before this is a callback of libuv, or what libuv does in
\* between: the queue is left alone.
Callback ==
    /\ loop \in {"poll", "drain"}
    /\ Tcp!Used' = Tcp!Used
    /\ UNCHANGED <<queueVars, lost>>

Listening == \E r \in handled : KindOf[r] = Queue!Bind

Accept == Listening /\ (Tcp!Accept \/ Tcp!AllocFails) /\ Callback

LoopOwes(s) == Tcp!LoopOwes(s) /\ Callback
Events(s) == (\/ Tcp!ConnectCallback(s) \/ Tcp!ReadData(s) \/ Tcp!ReadEnds(s)
              \/ Tcp!KernelWrites(s)) /\ Callback

\* The other threads touch the queue only.
Threads == \/ Queue!CallStep \/ Queue!OwnerStep \/ Queue!Destroy
           \/ \E c \in Clients, r \in Requests : Queue!Submit(c, r)

Next == \/ DoesNothing /\ (Threads \/ \E r \in Requests : Queue!LoopSubmit(r))
        \/ LoopStep \/ Accept
        \/ \E s \in Tcp!Ids : LoopOwes(s) \/ Events(s)
        \/ Queue!Ended /\ DoesNothing

Spec == Init /\ [][Next]_vars

\* The threads of the process run, libuv delivers the callbacks it has, and the
\* kernel sooner or later takes or refuses what is queued.  Without the last,
\* the end of the pool depends on the peers (tcp_exit_hang).
Fairness ==
    /\ \A c \in Clients : WF_vars(DoesNothing /\ (Queue!Unlock(c) \/ Queue!Send(c)))
    /\ WF_vars(LoopStep)
    /\ WF_vars(DoesNothing /\ Queue!OwnerStep)
    /\ \A s \in Tcp!Ids :
         /\ WF_vars(Tcp!WriteCallback(s) /\ Callback)
         /\ WF_vars(Tcp!ShutdownCallback(s) /\ Callback)
         /\ WF_vars(conn[s].shut /\ Tcp!TimerFires(s) /\ Callback)
         /\ WF_vars(Tcp!TcpClosed(s) /\ Callback)
         /\ WF_vars(Tcp!TimerClosed(s) /\ Callback)
         /\ WF_vars(Tcp!KernelWrites(s) /\ Callback)

FairSpec == Spec /\ Fairness

-----------------------------------------------------------------------------
(* Properties.                                                             *)

\* The data of a request to send is in one place from the call to its end: in
\* the queue, with a connection (waiting, written, or reported by drop()), or freed
\* because there was none when its turn came; a connection has no data of a
\* request that has not had its turn.
DataFate ==
    /\ Tcp!BufferFate /\ Queue!OnePlace
    /\ lost \intersect Tcp!Used = {}
    /\ handled \intersect SendsTcp = lost \union Tcp!Used

\* The destructor returns, whoever holds the lock, wherever the loop is when it
\* starts and whatever the connections are in the middle of.
DestructorReturns == Queue!DestructorReturns

\* A connection that begins to close is deleted, although its callbacks have to
\* wait for the batches, and its close may come from one.
Reclaimed == Tcp!Reclaimed
=============================================================================
