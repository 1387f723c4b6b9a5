------------------------- MODULE NetworkPoolProofs -------------------------
(***************************************************************************)
(* Proofs about NetworkPool: every behaviour of the pool is one of its     *)
(* request queue and one of its connections, so what is proved of the two  *)
(* (RequestQueueProofs and TcpConnProofs) holds in the pool; and the data  *)
(* of a request passes from the one to the other.                          *)
(*                                                                         *)
(* The second part is about NetworkNode: what the comparisons and hashes   *)
(* of the addresses and pairs in the pool's interface are worth as keys.   *)
(***************************************************************************)
EXTENDS NetworkPool, NetworkNode, TLAPS

QP == INSTANCE RequestQueueProofs
TP == INSTANCE TcpConnProofs WITH Bufs <- SendsTcp

-----------------------------------------------------------------------------
(* The components under their two names.                                   *)

LEMMA SameQueue ==
    /\ Queue!Init <=> QP!Init
    /\ Queue!Next <=> QP!Next
    /\ Queue!vars = QP!vars
    /\ Queue!TypeOK <=> QP!TypeOK
    /\ Queue!OnePlace <=> QP!OnePlace
    /\ Queue!Kinds = QP!Kinds /\ Queue!Batched = QP!Batched
    /\ \A k : Queue!Dispatch(k) <=> QP!Dispatch(k)
<1>1. Queue!Init <=> QP!Init
  BY DEF Queue!Init, QP!Init, Queue!NoRequests, QP!NoRequests, Queue!Kinds, QP!Kinds,
         Queue!Bind, QP!Bind, Queue!Close, QP!Close
<1>2. Queue!Next <=> QP!Next
  BY DEF Queue!Next, QP!Next, Queue!Submit, QP!Submit, Queue!Push, QP!Push,
         Queue!LoopSubmit, QP!LoopSubmit, Queue!Destroy, QP!Destroy,
         Queue!CallStep, QP!CallStep, Queue!Unlock, QP!Unlock, Queue!Send, QP!Send,
         Queue!LoopStep, QP!LoopStep, Queue!LoopStarts, QP!LoopStarts,
         Queue!LoopFailsToStart, QP!LoopFailsToStart, Queue!LoopSend, QP!LoopSend,
         Queue!Wake, QP!Wake, Queue!TryLockFails, QP!TryLockFails,
         Queue!TakeBatch, QP!TakeBatch, Queue!ReadWantExit, QP!ReadWantExit,
         Queue!Dispatch, QP!Dispatch, Queue!First, QP!First,
         Queue!DispatchEnds, QP!DispatchEnds, Queue!Exit, QP!Exit,
         Queue!LoopReturns, QP!LoopReturns, Queue!OwnerStep, QP!OwnerStep,
         Queue!Constructed, QP!Constructed, Queue!ConstructorThrows, QP!ConstructorThrows,
         Queue!DestroyLocks, QP!DestroyLocks, Queue!DestroyTests, QP!DestroyTests,
         Queue!DestroySends, QP!DestroySends, Queue!DestroyUnlocks, QP!DestroyUnlocks,
         Queue!Join, QP!Join, Queue!Ended, QP!Ended, Queue!vars, QP!vars,
         Queue!NoRequests, QP!NoRequests, Queue!Members, QP!Members,
         Queue!Kinds, QP!Kinds, Queue!Bind, QP!Bind, Queue!Close, QP!Close,
         Queue!Connect, QP!Connect
<1>3. Queue!vars = QP!vars
  BY DEF Queue!vars, QP!vars
<1>4. Queue!TypeOK <=> QP!TypeOK
  BY DEF Queue!TypeOK, QP!TypeOK, Queue!Kinds, QP!Kinds, Queue!Bind, QP!Bind,
         Queue!Close, QP!Close, Queue!LoopPlaces, QP!LoopPlaces,
         Queue!ClientPlaces, QP!ClientPlaces, Queue!OwnerPlaces, QP!OwnerPlaces
<1>5. Queue!OnePlace <=> QP!OnePlace
  BY DEF Queue!OnePlace, QP!OnePlace, Queue!Submitted, QP!Submitted, Queue!Queued, QP!Queued,
         Queue!Batched, QP!Batched, Queue!Members, QP!Members
<1>6. Queue!Kinds = QP!Kinds /\ Queue!Batched = QP!Batched
  BY DEF Queue!Kinds, QP!Kinds, Queue!Bind, QP!Bind, Queue!Close, QP!Close,
         Queue!Batched, QP!Batched, Queue!Members, QP!Members
<1>7. \A k : Queue!Dispatch(k) <=> QP!Dispatch(k)
  BY DEF Queue!Dispatch, QP!Dispatch, Queue!First, QP!First, Queue!Kinds, QP!Kinds,
         Queue!Bind, QP!Bind, Queue!Close, QP!Close
<1> QED
  BY <1>1, <1>2, <1>3, <1>4, <1>5, <1>6, <1>7

LEMMA SameConnections ==
    /\ Tcp!Init <=> TP!Init
    /\ Tcp!Next <=> TP!Next
    /\ Tcp!vars = TP!vars
    /\ Tcp!BufferFate <=> TP!BufferFate
    /\ Tcp!Used = TP!Used
    /\ Tcp!Connect <=> TP!Connect
    /\ Tcp!AllocFails <=> TP!AllocFails
    /\ Tcp!Exit <=> TP!Exit
    /\ \A s, b : Tcp!Send(s, b) <=> TP!Send(s, b)
    /\ \A s : Tcp!CloseGracefully(s) <=> TP!CloseGracefully(s)
    /\ \A s : Tcp!CloseByForce(s) <=> TP!CloseByForce(s)
    /\ Tcp!Ids = TP!Ids
<1> USE DEF Tcp!Ids, TP!Ids, Tcp!NoConn, TP!NoConn, Tcp!NewTcp, TP!NewTcp, Tcp!Writing, TP!Writing,
            Tcp!Used, TP!Used, Tcp!Unused, TP!Unused, Tcp!WriteQueueEmpty, TP!WriteQueueEmpty,
            Tcp!CloseTcp, TP!CloseTcp, Tcp!FailedTcps, TP!FailedTcps,
            Tcp!ShutdownAndClose, TP!ShutdownAndClose, Tcp!ShutdownTcp, TP!ShutdownTcp,
            Tcp!ShutdownTcpGracefully, TP!ShutdownTcpGracefully, Tcp!SetTimeout, TP!SetTimeout,
            Tcp!RestartIdle, TP!RestartIdle, Tcp!WriteOutcomes, TP!WriteOutcomes,
            Tcp!UserActs, TP!UserActs, Tcp!StartReading, TP!StartReading,
            Tcp!Becomes, TP!Becomes, Tcp!NextId, TP!NextId
<1>1. Tcp!Init <=> TP!Init
  BY DEF Tcp!Init, TP!Init
<1>2. Tcp!Connect <=> TP!Connect
  BY DEF Tcp!Connect, TP!Connect
<1>3. Tcp!AllocFails <=> TP!AllocFails
  BY DEF Tcp!AllocFails, TP!AllocFails
<1>4. Tcp!Exit <=> TP!Exit
  BY DEF Tcp!Exit, TP!Exit, Tcp!ExitConn, TP!ExitConn
<1>5. \A s, b : Tcp!Send(s, b) <=> TP!Send(s, b)
  BY DEF Tcp!Send, TP!Send
<1>6. \A s : /\ Tcp!CloseGracefully(s) <=> TP!CloseGracefully(s)
             /\ Tcp!CloseByForce(s) <=> TP!CloseByForce(s)
  BY DEF Tcp!CloseGracefully, TP!CloseGracefully, Tcp!CloseByForce, TP!CloseByForce
<1>7. Tcp!vars = TP!vars
  BY DEF Tcp!vars, TP!vars
<1>8. Tcp!Next <=> TP!Next
  <2>1. Tcp!Accept <=> TP!Accept
    BY DEF Tcp!Accept, TP!Accept
  <2>2. \A s : Tcp!LoopOwes(s) <=> TP!LoopOwes(s)
    BY DEF Tcp!LoopOwes, TP!LoopOwes, Tcp!WriteCallback, TP!WriteCallback,
           Tcp!WriteSucceeds, TP!WriteSucceeds, Tcp!WriteFails, TP!WriteFails,
           Tcp!ShutdownCallback, TP!ShutdownCallback, Tcp!TimerFires, TP!TimerFires,
           Tcp!TcpClosed, TP!TcpClosed, Tcp!TimerClosed, TP!TimerClosed,
           Tcp!Cancelled, TP!Cancelled, Tcp!HandleClosed, TP!HandleClosed
  <2>3. \A s : Tcp!Environment(s) <=> TP!Environment(s)
    BY DEF Tcp!Environment, TP!Environment, Tcp!Send, TP!Send,
           Tcp!CloseGracefully, TP!CloseGracefully, Tcp!CloseByForce, TP!CloseByForce,
           Tcp!ConnectCallback, TP!ConnectCallback, Tcp!ReadData, TP!ReadData,
           Tcp!ReadEnds, TP!ReadEnds, Tcp!KernelWrites, TP!KernelWrites
  <2>4. Tcp!LoopEnded <=> TP!LoopEnded
    BY DEF Tcp!LoopEnded, TP!LoopEnded, Tcp!vars, TP!vars
  <2> QED
    BY <1>2, <1>3, <1>4, <2>1, <2>2, <2>3, <2>4 DEF Tcp!Next, TP!Next
<1>9. (Tcp!BufferFate <=> TP!BufferFate) /\ Tcp!Used = TP!Used /\ Tcp!Ids = TP!Ids
  BY DEF Tcp!BufferFate, TP!BufferFate
<1> QED
  BY <1>1, <1>2, <1>3, <1>4, <1>5, <1>6, <1>7, <1>8, <1>9

-----------------------------------------------------------------------------
(* A step of the pool, seen from each component.                           *)

LEMMA QueueSteps ==
    ASSUME [Next]_vars
    PROVE  [Queue!Next]_(Queue!vars)
<1>1. CASE UNCHANGED vars
  BY <1>1 DEF vars, queueVars, Queue!vars
<1>2. CASE UNCHANGED queueVars
  BY <1>2 DEF queueVars, Queue!vars
<1>3. CASE Threads \/ \E r \in Requests : Queue!LoopSubmit(r)
  BY <1>3 DEF Threads, Queue!Next
<1>4. CASE LoopStep
  <2>1. Queue!LoopStep
    BY <1>4 DEF LoopStep, Dispatch, Exit, LoopReturns, Queue!LoopStep
  <2> QED
    BY <2>1 DEF Queue!Next
<1>5. CASE Queue!Ended
  BY <1>5 DEF Queue!Next
<1>6. Callback => UNCHANGED queueVars
  BY DEF Callback
<1> QED
  BY <1>1, <1>2, <1>3, <1>4, <1>5, <1>6 DEF Next, Accept, LoopOwes, Events

\* The request that a batch comes to.
LEMMA DispatchedRequest ==
    ASSUME QP!IInv, NEW k \in Queue!Kinds, Queue!Dispatch(k),
           NEW r, r = Head(batch[k])
    PROVE  r \in Requests /\ r \notin handled /\ handled' = handled \union {r}
<1>1. QP!Dispatch(k) /\ k \in QP!Kinds
  BY SameQueue
<1>2. r \in Requests /\ r \in QP!Batched
  BY <1>1, QueueAssumption, SameQueue, QP!DispatchedIsNext
<1>3. QP!OnePlace
  BY DEF QP!IInv
<1>4. r \notin handled
  BY <1>2, <1>3 DEF QP!OnePlace
<1>5. handled' = handled \union {r}
  BY DEF Queue!Dispatch
<1> QED
  BY <1>2, <1>4, <1>5

LEMMA HandleCases ==
    ASSUME NEW r, Handle(r)
    PROVE  \/ KindOf[r] = Queue!SendTcp /\ SendsOrLoses(r)
           \/ KindOf[r] = Queue!Connect /\ Connects
           \/ KindOf[r] = Queue!Close /\ ClosesOrNot(r)
           \/ KindOf[r] \notin {Queue!SendTcp, Queue!Connect, Queue!Close} /\ DoesNothing
  BY DEF Handle, Queue!SendTcp, Queue!Connect, Queue!Close

LEMMA TcpSteps ==
    ASSUME QP!IInv, [Next]_vars
    PROVE  [Tcp!Next]_(Tcp!vars)
<1>1. CASE UNCHANGED tcpVars
  BY <1>1 DEF tcpVars, Tcp!vars
<1>2. CASE UNCHANGED vars
  BY <1>2 DEF vars, tcpVars, Tcp!vars
<1>3. DoesNothing => UNCHANGED tcpVars
  BY DEF DoesNothing
<1>4. CASE Dispatch
  <2>1. PICK k \in Queue!Kinds : Queue!Dispatch(k) /\ Handle(Head(batch[k]))
    BY <1>4 DEF Dispatch
  <2>2. PICK r : r = Head(batch[k])
    OBVIOUS
  <2>3. Handle(r) /\ r \in Requests
    BY <2>1, <2>2, DispatchedRequest
  <2>4. SocketOf[r] \in Tcp!Ids
    BY <2>3, SocketAssumption DEF Tcp!Ids
  <2>5. CASE KindOf[r] = Queue!SendTcp /\ SendsOrLoses(r)
    <3>1. r \in SendsTcp
      BY <2>3, <2>5 DEF SendsTcp
    <3>2. Tcp!Send(SocketOf[r], r) \/ UNCHANGED tcpVars
      BY <2>5 DEF SendsOrLoses
    <3> QED
      BY <1>1, <2>4, <3>1, <3>2 DEF Tcp!Next, Tcp!Environment
  <2>6. CASE Connects
    BY <1>1, <1>3, <2>6 DEF Connects, Tcp!Next
  <2>7. CASE ClosesOrNot(r)
    BY <1>1, <2>4, <2>7 DEF ClosesOrNot, Tcp!Next, Tcp!Environment
  <2> QED
    BY <1>1, <1>3, <2>3, <2>5, <2>6, <2>7, HandleCases
<1>5. CASE Exit
  BY <1>5 DEF Exit, Tcp!Next
<1>6. CASE LoopReturns
  BY <1>1, <1>3, <1>6 DEF LoopReturns
<1>7. CASE Accept
  BY <1>7 DEF Accept, Tcp!Next
<1>8. CASE \E s \in Tcp!Ids : LoopOwes(s) \/ Events(s)
  BY <1>8 DEF LoopOwes, Events, Tcp!Next, Tcp!Environment
<1> QED
  BY <1>1, <1>2, <1>3, <1>4, <1>5, <1>6, <1>7, <1>8 DEF Next, LoopStep

-----------------------------------------------------------------------------
(* The data of the requests.                                               *)

\* The data that the batches have come to are with a connection, or lost.
Accounted == /\ lost \intersect TP!Used = {}
             /\ handled \intersect SendsTcp = lost \union TP!Used

IInv == QP!IInv /\ TP!IInv /\ Accounted

LEMMA InitIInv == Init => IInv
<1> SUFFICES ASSUME Init PROVE IInv
  OBVIOUS
<1>1. QP!IInv
  <2>1. QP!Init
    BY SameQueue DEF Init
  <2> QED
    BY <2>1, QueueAssumption, SameQueue, QP!TypeInit, QP!ControlInit, QP!NoticeInit, QP!QueueInit
       DEF QP!IInv
<1>2. TP!IInv
  <2>1. TP!Init
    BY SameConnections DEF Init
  <2> QED
    BY <2>1, TcpAssumption, TP!InitIInv
<1>3. Accounted
  <2>1. handled = {} /\ lost = {}
    BY DEF Init, Queue!Init
  <2>2. TP!Used = {}
    BY DEF Init, Tcp!Init, Tcp!NoConn, TP!Used, TP!Writing, Tcp!Ids, TP!Ids
  <2> QED
    BY <2>1, <2>2 DEF Accounted
<1> QED
  BY <1>1, <1>2, <1>3 DEF IInv

LEMMA AccountedKept ==
    ASSUME IInv, [Next]_vars
    PROVE  Accounted'
<1>0. QP!IInv /\ TP!IInv /\ Accounted
  BY DEF IInv
<1>1. CASE UNCHANGED <<handled, lost>> /\ TP!Used' = TP!Used
  BY <1>0, <1>1 DEF Accounted
<1>2. UNCHANGED tcpVars => TP!Used' = TP!Used
  BY DEF tcpVars, TP!Used
<1>3. CASE UNCHANGED vars
  BY <1>1, <1>2, <1>3 DEF vars, queueVars, tcpVars
<1>4. CASE Dispatch
  <2>1. PICK k \in Queue!Kinds : Queue!Dispatch(k) /\ Handle(Head(batch[k]))
    BY <1>4 DEF Dispatch
  <2>2. PICK r : r = Head(batch[k])
    OBVIOUS
  <2>3. Handle(r) /\ r \in Requests /\ r \notin handled /\ handled' = handled \union {r}
    BY <1>0, <2>1, <2>2, DispatchedRequest
  <2>4. SocketOf[r] \in TP!Ids
    BY <2>3, SocketAssumption DEF TP!Ids
  <2>5. CASE KindOf[r] = Queue!SendTcp /\ SendsOrLoses(r)
    <3>1. r \in SendsTcp
      BY <2>3, <2>5 DEF SendsTcp
    <3>2. r \notin TP!Used /\ r \notin lost
      BY <1>0, <2>3, <3>1 DEF Accounted
    <3>3. \/ lost' = lost /\ TP!Used' = TP!Used \union {r}
          \/ lost' = lost \union {r} /\ TP!Used' = TP!Used
      <4>1. CASE Tcp!Send(SocketOf[r], r) /\ UNCHANGED lost
        BY <1>0, <2>4, <4>1, TcpAssumption, SameConnections, TP!SendUses
      <4>2. CASE lost' = lost \union {r} /\ UNCHANGED tcpVars
        BY <1>2, <4>2
      <4> QED
        BY <2>5, <4>1, <4>2 DEF SendsOrLoses
    <3> QED
      BY <1>0, <2>3, <3>1, <3>2, <3>3 DEF Accounted
  <2>6. CASE KindOf[r] # Queue!SendTcp /\ UNCHANGED lost /\ TP!Used' = TP!Used
    <3>1. r \notin SendsTcp
      BY <2>6 DEF SendsTcp
    <3> QED
      BY <1>0, <2>3, <2>6, <3>1 DEF Accounted
  <2>7. CASE KindOf[r] = Queue!Connect /\ Connects
    <3>1. UNCHANGED lost /\ TP!Used' = TP!Used
      BY <1>0, <1>2, <2>7, TcpAssumption, SameConnections, TP!ConnectUsesNothing
         DEF Connects, DoesNothing
    <3> QED
      BY <2>6, <2>7, <3>1 DEF Queue!SendTcp, Queue!Connect
  <2>8. CASE KindOf[r] = Queue!Close /\ ClosesOrNot(r)
    <3>1. UNCHANGED lost /\ TP!Used' = TP!Used
      BY <1>0, <1>2, <2>4, <2>8, TcpAssumption, SameConnections, TP!CloseUsesNothing
         DEF ClosesOrNot
    <3> QED
      BY <2>6, <2>8, <3>1 DEF Queue!SendTcp, Queue!Close
  <2>9. CASE KindOf[r] \notin {Queue!SendTcp, Queue!Connect, Queue!Close} /\ DoesNothing
    BY <1>2, <2>6, <2>9 DEF DoesNothing
  <2> QED
    BY <2>3, <2>5, <2>7, <2>8, <2>9, HandleCases
<1>5. CASE Exit
  <2>1. TP!Used' = TP!Used
    BY <1>0, <1>5, TcpAssumption, SameConnections, TP!ExitUsesNothing DEF Exit
  <2>2. UNCHANGED <<handled, lost>>
    BY <1>5 DEF Exit, Queue!Exit
  <2> QED
    BY <1>1, <2>1, <2>2
<1>6. CASE Callback
  BY <1>1, <1>6 DEF Callback, queueVars, Tcp!Used, TP!Used, Tcp!Writing, TP!Writing,
                    Tcp!Ids, TP!Ids
<1>7. ASSUME DoesNothing, UNCHANGED handled PROVE Accounted'
  BY <1>1, <1>2, <1>7 DEF DoesNothing
<1>8. CASE LoopReturns
  BY <1>7, <1>8 DEF LoopReturns, Queue!LoopReturns
<1>9. CASE DoesNothing /\ (\/ Queue!LoopStarts \/ Queue!LoopFailsToStart \/ Queue!LoopSend
                           \/ Queue!Wake \/ Queue!TryLockFails \/ Queue!TakeBatch
                           \/ Queue!ReadWantExit \/ Queue!DispatchEnds)
  BY <1>7, <1>9 DEF Queue!LoopStarts, Queue!LoopFailsToStart, Queue!LoopSend, Queue!Wake,
     Queue!TryLockFails, Queue!TakeBatch, Queue!ReadWantExit, Queue!DispatchEnds
<1>10. CASE DoesNothing /\ (Threads \/ \E r \in Requests : Queue!LoopSubmit(r))
  BY <1>7, <1>10 DEF Threads, Queue!CallStep, Queue!Unlock, Queue!Send, Queue!OwnerStep,
     Queue!Constructed, Queue!ConstructorThrows, Queue!DestroyLocks, Queue!DestroyTests,
     Queue!DestroySends, Queue!DestroyUnlocks, Queue!Join, Queue!Destroy, Queue!Submit,
     Queue!LoopSubmit
<1>11. CASE Queue!Ended /\ DoesNothing
  BY <1>7, <1>11 DEF Queue!Ended, Queue!vars
<1> QED
  BY <1>3, <1>4, <1>5, <1>6, <1>8, <1>9, <1>10, <1>11
     DEF Next, LoopStep, Accept, LoopOwes, Events

LEMMA NextKeeps == IInv /\ [Next]_vars => IInv'
<1> SUFFICES ASSUME IInv, [Next]_vars PROVE IInv'
  OBVIOUS
<1>1. QP!IInv'
  <2>1. [QP!Next]_(QP!vars)
    BY QueueSteps, SameQueue DEF Queue!vars, QP!vars
  <2> QED
    BY <2>1, QueueAssumption, SameQueue, QP!TypeStep, QP!LockStep, QP!PhaseStep, QP!NoticeStep,
       QP!QueueStep DEF IInv, QP!IInv
<1>2. TP!IInv'
  <2>1. [TP!Next]_(TP!vars)
    BY TcpSteps, SameConnections DEF IInv, Tcp!vars, TP!vars
  <2> QED
    BY <2>1, TcpAssumption, TP!NextKeeps DEF IInv
<1> QED
  BY <1>1, <1>2, AccountedKept DEF IInv

-----------------------------------------------------------------------------
(* The theorems.                                                           *)

LEMMA Inductive == Spec => []IInv
  BY InitIInv, NextKeeps, PTL DEF Spec

\* In the pool the queue behaves as RequestQueue says it does: the loop, busy
\* with its connections between the batches (network_pool.cpp), never does
\* anything else to it.
THEOREM PoolRunsTheQueue == Spec => Queue!Spec
<1>1. Init => Queue!Init
  BY DEF Init
<1>2. [Next]_vars => [Queue!Next]_(Queue!vars)
  BY QueueSteps
<1> QED
  BY <1>1, <1>2, PTL DEF Spec, Queue!Spec

\* And the connections behave as TcpConn says they do, whatever batches the
\* requests come in.
THEOREM PoolRunsTheConnections == Spec => Tcp!Spec
<1>1. Init => Tcp!Init
  BY DEF Init
<1>2. IInv /\ [Next]_vars => [Tcp!Next]_(Tcp!vars)
  BY TcpSteps DEF IInv
<1> QED
  BY <1>1, <1>2, Inductive, PTL DEF Spec, Tcp!Spec

\* The data of a request to send is in one place, from the deque to the
\* connection, for any set of requests and any number of connections.
THEOREM DataInOnePlace == Spec => []DataFate
<1>1. IInv => DataFate
  <2> SUFFICES ASSUME IInv PROVE DataFate
    OBVIOUS
  <2>1. Queue!OnePlace
    BY SameQueue DEF IInv, QP!IInv
  <2>2. Tcp!BufferFate
    BY SameConnections, TcpAssumption, TP!FateFollows DEF IInv
  <2> QED
    BY <2>1, <2>2, SameConnections DEF IInv, Accounted, DataFate
<1> QED
  BY <1>1, Inductive, PTL

-----------------------------------------------------------------------------
(* Addresses, nodes and pairs as keys.                                     *)

Widths == {Width32, Width64}

-----------------------------------------------------------------------------
(* Equality and order of addresses.                                        *)

\* An address is unset, of IPv4 or of IPv6, as its family says.
LEMMA Addresses ==
    ASSUME NEW a \in Csockaddr
    PROVE  /\ a.family \in {0, AF_INET, AF_INET6}
           /\ a.family = 0 => a = Unset
           /\ a.family = AF_INET => a \in IPv4
           /\ a.family = AF_INET6 => a \in IPv6
  BY SMT DEF Csockaddr, Unset, IPv4, IPv6, AF_INET, AF_INET6

\* Ports, words and the fields of an address are integers.
LEMMA PortsArePlain == Port \subseteq Int
<1>1. MaxPort \in Int
  BY SMT DEF MaxPort
<1> QED
  BY <1>1, SMT DEF Port

LEMMA WordsArePlain == Word \subseteq Int
<1>1. MaxWord \in Int
  BY SMT DEF MaxWord
<1> QED
  BY <1>1, SMT DEF Word

LEMMA Fields ==
    ASSUME NEW a \in Csockaddr
    PROVE  /\ a.family = AF_INET => a.port \in Port /\ a.addr \in Int
           /\ a.family = AF_INET6 => /\ a.port \in Port /\ a.addr \in [0 .. 3 -> Int]
                                    /\ a.flowinfo \in Int /\ a.scope \in Int
<1>1. Word \subseteq Int
  BY WordsArePlain
<1>2. ASSUME a \in IPv4 PROVE a.port \in Port /\ a.addr \in Word
  BY <1>2 DEF IPv4
<1>3. ASSUME a \in IPv6
      PROVE  /\ a.port \in Port /\ a.addr \in [0 .. 3 -> Word]
             /\ a.flowinfo \in Word /\ a.scope \in Word
  BY <1>3 DEF IPv6
<1>4. [0 .. 3 -> Word] \subseteq [0 .. 3 -> Int]
  BY <1>1
<1> QED
  BY <1>1, <1>2, <1>3, <1>4, Addresses

\* Equal addresses have the same fields.
LEMMA EqualIsIdentity ==
    ASSUME NEW a \in Csockaddr, NEW b \in Csockaddr
    PROVE  Equal(a, b) <=> a = b
<1>1. ASSUME a = b PROVE Equal(a, b)
  BY <1>1 DEF Equal
<1>2. ASSUME Equal(a, b) PROVE a = b
  <2>1. a.family = b.family
    BY <1>2 DEF Equal
  <2>2. CASE a.family = 0
    BY <2>1, <2>2, Addresses
  <2>3. CASE a.family = AF_INET
    <3>1. a \in IPv4 /\ b \in IPv4
      BY <2>1, <2>3, Addresses
    <3>2. a.port = b.port /\ a.addr = b.addr
      BY <1>2, <2>3 DEF Equal
    <3> QED
      BY <2>1, <3>1, <3>2 DEF IPv4
  <2>4. CASE a.family = AF_INET6
    <3>1. a \in IPv6 /\ b \in IPv6
      BY <2>1, <2>4, Addresses
    <3>2. a.addr = b.addr
      BY <1>2, <2>4, <3>1, SMT DEF Equal, IPv6
    <3> QED
      BY <1>2, <2>4, <3>1, <3>2, SMT DEF Equal, IPv6
  <2> QED
    BY <2>2, <2>3, <2>4, Addresses
<1> QED
  BY <1>1, <1>2

\* Of two different addresses of IPv6 one is less, and only one.
LEMMA FirstDifference ==
    ASSUME NEW x \in [0 .. 3 -> Int], NEW y \in [0 .. 3 -> Int],
           \E i \in 0 .. 3 : x[i] # y[i]
    PROVE  /\ AddrLess(x, y) \/ AddrLess(y, x)
           /\ ~(AddrLess(x, y) /\ AddrLess(y, x))
<1> DEFINE First(i) == x[i] # y[i] /\ \A j \in 0 .. 3 : j < i => x[j] = y[j]
<1>1. PICK i \in 0 .. 3 : First(i)
  <2>1. First(0) \/ First(1) \/ First(2) \/ First(3)
    BY SMT
  <2> QED
    BY <2>1
<1>2. x[i] \in Int /\ y[i] \in Int
  OBVIOUS
<1>3. x[i] < y[i] => AddrLess(x, y)
  BY <1>1 DEF AddrLess
<1>4. y[i] < x[i] => AddrLess(y, x)
  BY <1>1 DEF AddrLess
<1>5. AddrLess(x, y) => x[i] < y[i]
  BY <1>1, SMT DEF AddrLess
<1>6. AddrLess(y, x) => y[i] < x[i]
  BY <1>1, SMT DEF AddrLess
<1> QED
  BY <1>1, <1>2, <1>3, <1>4, <1>5, <1>6, SMT

\* The order of the words of an address is transitive.
LEMMA AddrLessTransitive ==
    ASSUME NEW x \in [0 .. 3 -> Int], NEW y \in [0 .. 3 -> Int], NEW z \in [0 .. 3 -> Int],
           AddrLess(x, y), AddrLess(y, z)
    PROVE  AddrLess(x, z)
<1>1. PICK i \in 0 .. 3 : x[i] < y[i] /\ \A j \in 0 .. 3 : j < i => x[j] = y[j]
  BY DEF AddrLess
<1>2. PICK k \in 0 .. 3 : y[k] < z[k] /\ \A j \in 0 .. 3 : j < k => y[j] = z[j]
  BY DEF AddrLess
<1>3. CASE i <= k
  BY <1>1, <1>2, <1>3, SMT DEF AddrLess
<1>4. CASE k < i
  BY <1>1, <1>2, <1>4, SMT DEF AddrLess
<1> QED
  BY <1>3, <1>4, SMT

\* Of two different addresses one is less, and only one.
LEMMA LessConnected ==
    ASSUME NEW a \in Csockaddr, NEW b \in Csockaddr
    PROVE  /\ a # b => Less(a, b) \/ Less(b, a)
           /\ ~(Less(a, b) /\ Less(b, a))
<1>1. CASE a.family # b.family
  <2>1. a.family \in Int /\ b.family \in Int
    BY Addresses, SMT DEF AF_INET, AF_INET6
  <2> QED
    BY <1>1, <2>1, SMT DEF Less
<1>2. CASE a.family = b.family /\ a.family = 0
  <2>1. a = b
    BY <1>2, Addresses
  <2>2. ~Less(a, b) /\ ~Less(b, a)
    BY <1>2, SMT DEF Less, AF_INET, AF_INET6
  <2> QED
    BY <2>1, <2>2
<1>3. CASE a.family = b.family /\ a.family = AF_INET
  <2>1. a.port \in Int /\ a.addr \in Int /\ b.port \in Int /\ b.addr \in Int
    BY <1>3, Fields, PortsArePlain
  <2>2. (Less(a, b) <=> Less4(a, b)) /\ (Less(b, a) <=> Less4(b, a))
    BY <1>3, SMT DEF Less, AF_INET, AF_INET6
  <2>3. a # b => a.port # b.port \/ a.addr # b.addr
    <3>1. a.port = b.port /\ a.addr = b.addr => Equal(a, b)
      BY <1>3, SMT DEF Equal, AF_INET, AF_INET6
    <3> QED
      BY <3>1, EqualIsIdentity
  <2> QED
    BY <2>1, <2>2, <2>3, SMT DEF Less4
<1>4. CASE a.family = b.family /\ a.family = AF_INET6
  <2>1. /\ a.port \in Int /\ a.flowinfo \in Int /\ a.scope \in Int
        /\ b.port \in Int /\ b.flowinfo \in Int /\ b.scope \in Int
    BY <1>4, Fields, PortsArePlain
  <2>2. a.addr \in [0 .. 3 -> Int] /\ b.addr \in [0 .. 3 -> Int]
    BY <1>4, Fields
  <2>3. (Less(a, b) <=> Less6(a, b)) /\ (Less(b, a) <=> Less6(b, a))
    BY <1>4, SMT DEF Less, AF_INET, AF_INET6
  <2>4. CASE \E i \in 0 .. 3 : a.addr[i] # b.addr[i]
    BY <2>1, <2>2, <2>3, <2>4, FirstDifference, SMT DEF Less6
  <2>5. CASE ~\E i \in 0 .. 3 : a.addr[i] # b.addr[i]
    <3>1. a.addr = b.addr
      BY <2>2, <2>5, SMT
    <3> QED
      <4>1. a # b => a.flowinfo # b.flowinfo \/ a.scope # b.scope \/ a.port # b.port
        <5>1. a.port = b.port /\ a.flowinfo = b.flowinfo /\ a.scope = b.scope => Equal(a, b)
          BY <1>4, <3>1, SMT DEF Equal, AF_INET, AF_INET6
        <5> QED
          BY <5>1, EqualIsIdentity
      <4> QED
        BY <2>1, <2>3, <2>5, <4>1, SMT DEF Less6
  <2> QED
    BY <2>4, <2>5
<1> QED
  BY <1>1, <1>2, <1>3, <1>4, Addresses

\* The order of addresses is transitive.
LEMMA LessTransitive ==
    ASSUME NEW a \in Csockaddr, NEW b \in Csockaddr, NEW c \in Csockaddr,
           Less(a, b), Less(b, c)
    PROVE  Less(a, c)
<1>1. CASE ~(a.family = b.family /\ b.family = c.family)
  <2>1. a.family \in Int /\ b.family \in Int /\ c.family \in Int
    BY Addresses, SMT DEF AF_INET, AF_INET6
  <2>2. a.family <= b.family /\ b.family <= c.family
    BY <2>1, SMT DEF Less
  <2> QED
    BY <1>1, <2>1, <2>2, SMT DEF Less
<1>2. CASE a.family = b.family /\ b.family = c.family /\ a.family = 0
  BY <1>2, SMT DEF Less, AF_INET, AF_INET6
<1>3. CASE a.family = b.family /\ b.family = c.family /\ a.family = AF_INET
  <2>1. /\ a.port \in Int /\ a.addr \in Int /\ b.port \in Int /\ b.addr \in Int
        /\ c.port \in Int /\ c.addr \in Int
    BY <1>3, Fields, PortsArePlain
  <2>2. Less4(a, b) /\ Less4(b, c) /\ (Less4(a, c) => Less(a, c))
    BY <1>3, SMT DEF Less, AF_INET, AF_INET6
  <2> QED
    BY <2>1, <2>2, SMT DEF Less4
<1>4. CASE a.family = b.family /\ b.family = c.family /\ a.family = AF_INET6
  <2>1. /\ a.port \in Int /\ a.flowinfo \in Int /\ a.scope \in Int
        /\ b.port \in Int /\ b.flowinfo \in Int /\ b.scope \in Int
        /\ c.port \in Int /\ c.flowinfo \in Int /\ c.scope \in Int
    BY <1>4, Fields, PortsArePlain
  <2>2. /\ a.addr \in [0 .. 3 -> Int] /\ b.addr \in [0 .. 3 -> Int]
        /\ c.addr \in [0 .. 3 -> Int]
    BY <1>4, Fields
  <2>3. Less6(a, b) /\ Less6(b, c) /\ (Less6(a, c) => Less(a, c))
    BY <1>4, SMT DEF Less, AF_INET, AF_INET6
  <2>4. CASE ~(a.port = b.port /\ b.port = c.port)
    BY <2>1, <2>3, <2>4, SMT DEF Less6
  <2>5. CASE a.port = b.port /\ b.port = c.port
    <3>1. CASE a.addr = b.addr /\ b.addr = c.addr
      BY <2>1, <2>3, <2>5, <3>1, SMT DEF Less6
    <3>2. CASE a.addr = b.addr /\ b.addr # c.addr
      BY <2>2, <2>3, <2>5, <3>2, SMT DEF Less6
    <3>3. CASE a.addr # b.addr /\ b.addr = c.addr
      BY <2>2, <2>3, <2>5, <3>3, SMT DEF Less6
    <3>4. CASE a.addr # b.addr /\ b.addr # c.addr
      <4>1. /\ \E i \in 0 .. 3 : a.addr[i] # b.addr[i]
            /\ \E i \in 0 .. 3 : b.addr[i] # c.addr[i]
        BY <2>2, <3>4, SMT
      <4>2. AddrLess(a.addr, b.addr) /\ AddrLess(b.addr, c.addr)
        BY <2>3, <2>5, <4>1, SMT DEF Less6
      <4>3. AddrLess(a.addr, c.addr)
        BY <2>2, <4>2, AddrLessTransitive
      <4>4. \E i \in 0 .. 3 : a.addr[i] # c.addr[i]
        BY <2>2, <4>3, SMT DEF AddrLess
      <4> QED
        BY <2>3, <2>5, <4>3, <4>4, SMT DEF Less6
    <3> QED
      BY <3>1, <3>2, <3>3, <3>4
  <2> QED
    BY <2>4, <2>5
<1> QED
  BY <1>1, <1>2, <1>3, <1>4, Addresses

-----------------------------------------------------------------------------
(* The hash is linear in what it starts from, up to multiples of the width. *)

Congruent(x, y, w) == \E n \in Int : x = y + n * w

\* All that is used of the numbers 65536 and 65535: their size, and that one is even
\* and the other odd.
LEMMA SixteenBits ==
    /\ Two16 \in Int /\ Two16 > 0 /\ MaxPort \in Int /\ MaxPort < Two16
    /\ Mix \in Int
    /\ \E b \in Int : Two16 = 2 * b
    /\ \E c \in Int : Mix = 2 * c + 1
<1>1. Two16 \in Int /\ Two16 > 0 /\ MaxPort \in Int /\ MaxPort < Two16 /\ Mix \in Int
  BY SMT DEF Two16, MaxPort, Mix
<1>2. 32768 \in Int /\ Two16 = 2 * 32768
  BY SMT DEF Two16
<1>3. 32767 \in Int /\ Mix = 2 * 32767 + 1
  BY SMT DEF Mix
<1> QED
  BY <1>1, <1>2, <1>3

\* A width is a multiple of 65536.
LEMMA WidthsArePlain ==
    ASSUME NEW w \in Widths
    PROVE  w \in Int /\ w > 0 /\ \E u \in Int : u > 0 /\ w = u * Two16
<1>1. Width32 \in Int /\ Width32 > 0
  BY SixteenBits, SMT DEF Width32
<1>2. Width64 \in Int /\ Width64 > 0
  BY <1>1, SMT DEF Width64
<1> DEFINE v == Width32 * Two16
<1>3. v \in Int /\ v > 0 /\ Width64 = v * Two16
  BY <1>1, SixteenBits, SMT DEF Width64, Width32
<1>4. CASE w = Width32
  BY <1>1, <1>4, SixteenBits DEF Width32
<1>5. CASE w = Width64
  <2> HIDE DEF v
  <2> QED
    BY <1>2, <1>3, <1>5
<1> QED
  BY <1>4, <1>5 DEF Widths

\* A remainder is below the width and congruent to what it is taken of.
LEMMA Remainder ==
    ASSUME NEW w \in Int, w > 0, NEW x \in Int
    PROVE  x % w \in Int /\ 0 <= x % w /\ x % w < w /\ Congruent(x % w, x, w)
<1> DEFINE q == x \div w
           r == x % w
<1>1. q \in Int /\ r \in Int /\ 0 <= r /\ r < w /\ x = q * w + r
  BY SMT
<1> HIDE DEF q, r
<1>2. 0 - q \in Int /\ r = x + (0 - q) * w
  BY <1>1, SMT
<1> QED
  BY <1>1, <1>2 DEF Congruent, r

\* Congruence is transitive, and may be scaled.
LEMMA CongruentSteps ==
    ASSUME NEW w \in Int, NEW x \in Int, NEW y \in Int, NEW z \in Int,
           Congruent(x, y, w), Congruent(y, z, w)
    PROVE  Congruent(x, z, w)
<1>1. PICK m \in Int : x = y + m * w
  BY DEF Congruent
<1>2. PICK n \in Int : y = z + n * w
  BY DEF Congruent
<1>3. m + n \in Int /\ x = z + (m + n) * w
  BY <1>1, <1>2, SMT
<1> QED
  BY <1>3 DEF Congruent

LEMMA CongruentScaled ==
    ASSUME NEW w \in Int, NEW x \in Int, NEW y \in Int, NEW c \in Int, Congruent(x, y, w)
    PROVE  Congruent(x * c, y * c, w)
<1>1. PICK n \in Int : x = y + n * w
  BY DEF Congruent
<1>2. n * c \in Int /\ x * c = (y * c) + (n * c) * w
  BY <1>1, SMT
<1> QED
  BY <1>2 DEF Congruent

\* Below the width, congruent numbers are equal.
LEMMA CongruentIsEqual ==
    ASSUME NEW w \in Int, NEW x \in Int, NEW y \in Int, Congruent(x, y, w),
           0 <= x, x < w, 0 <= y, y < w
    PROVE  x = y
<1>1. PICK n \in Int : x = y + n * w
  BY DEF Congruent
<1>2. n < 1 /\ n > -1
  BY <1>1, SMT
<1> QED
  BY <1>1, <1>2, SMT

\* What a remainder is computed from counts only up to multiples of the width.
LEMMA CongruentReduced ==
    ASSUME NEW w \in Int, w > 0, NEW x \in Int, NEW y \in Int, Congruent(x, y, w)
    PROVE  x % w \in Int /\ Congruent(x % w, y, w)
<1>1. Congruent(x % w, x, w) /\ x % w \in Int
  BY Remainder
<1> QED
  BY <1>1, CongruentSteps

\* A shifted remainder leaves room for the bits that were shifted in.
LEMMA ShiftedRemainder ==
    ASSUME NEW b \in Int, b > 0, NEW u \in Int, u > 0, NEW x \in Int
    PROVE  (x * b) % (u * b) <= (u * b) - b
<1> DEFINE w == u * b
           r == (x * b) % w
<1>1. w \in Int /\ w > 0 /\ x * b \in Int
  BY SMT
<1>2. r \in Int /\ r < w /\ Congruent(r, x * b, w)
  <2> DEFINE xs == x * b
  <2>1. xs \in Int /\ r = xs % w
    BY <1>1
  <2> HIDE DEF w, r, xs
  <2>2. r \in Int /\ r < w /\ Congruent(r, xs, w)
    BY <1>1, <2>1, Remainder
  <2> QED
    BY <2>2 DEF xs
<1> HIDE DEF r
<1>3. PICK n \in Int : r = x * b + n * w
  BY <1>2 DEF Congruent
<1> DEFINE t == x + n * u
<1>4. t \in Int /\ r = t * b
  BY <1>3, SMT
<1> HIDE DEF t
<1>5. t < u
  <2>1. ASSUME t >= u PROVE FALSE
    <3>1. t * b >= u * b
      BY <1>4, <2>1, SMT
    <3> QED
      BY <1>1, <1>2, <1>4, <3>1, SMT
  <2> QED
    BY <1>4, <2>1, SMT
<1>6. t * b <= (u - 1) * b
  BY <1>4, <1>5, SMT
<1>7. (u - 1) * b = (u * b) - b
  BY SMT
<1> QED
  BY <1>4, <1>6, <1>7 DEF r

\* The steps of getHash: what they are given counts only up to the width.
LEMMA PortSteps ==
    ASSUME NEW w \in Widths, NEW x \in Int, NEW y \in Int, NEW port \in Port,
           Congruent(x, y, w)
    PROVE  /\ WithPort(x, port, w) \in Int
           /\ 0 <= WithPort(x, port, w) /\ WithPort(x, port, w) < w
           /\ Congruent(WithPort(x, port, w), (y * Two16) + port, w)
<1>1. /\ w \in Int /\ w > 0 /\ Two16 \in Int /\ Two16 > 0
      /\ port \in Int /\ 0 <= port /\ port < Two16
  BY WidthsArePlain, SixteenBits, SMT DEF Port
<1> DEFINE xs == x * Two16
           ys == y * Two16
           r  == xs % w
<1>2. xs \in Int /\ ys \in Int /\ r <= w - Two16
  <2>1. PICK u \in Int : u > 0 /\ w = u * Two16
    BY WidthsArePlain
  <2>2. (x * Two16) % (u * Two16) <= (u * Two16) - Two16
    BY <1>1, <2>1, ShiftedRemainder, Zenon
  <2>3. r = (x * Two16) % w
    OBVIOUS
  <2>4. r <= w - Two16
    BY <2>1, <2>2, <2>3, Zenon
  <2>5. xs \in Int /\ ys \in Int
    BY <1>1, SMT
  <2> QED
    BY <2>4, <2>5, Zenon
<1>3. Congruent(xs, ys, w)
  BY <1>1, CongruentScaled
<1>4. WithPort(x, port, w) = r + port /\ (y * Two16) + port = ys + port
  BY DEF WithPort
<1> HIDE DEF xs, ys
<1>5. r \in Int /\ 0 <= r /\ Congruent(r, ys, w)
  BY <1>1, <1>2, <1>3, Remainder, CongruentReduced
<1> HIDE DEF r
<1>6. r + port \in Int /\ 0 <= r + port /\ r + port < w
  BY <1>1, <1>2, <1>5, SMT
<1>7. PICK n \in Int : r = ys + n * w
  BY <1>5 DEF Congruent
<1>8. r + port = (ys + port) + n * w
  BY <1>1, <1>2, <1>7, SMT
<1> QED
  BY <1>4, <1>6, <1>8 DEF Congruent

LEMMA AddSteps ==
    ASSUME NEW w \in Int, w > 0, NEW x \in Int, NEW y \in Int, NEW word \in Int,
           Congruent(x, y, w)
    PROVE  /\ (x + word) % w \in Int /\ 0 <= (x + word) % w /\ (x + word) % w < w
           /\ Congruent((x + word) % w, y + word, w)
<1> DEFINE xs == x + word
           ys == y + word
<1>1. xs \in Int /\ ys \in Int
  OBVIOUS
<1>2. PICK n \in Int : x = y + n * w
  BY DEF Congruent
<1>3. xs = ys + n * w
  BY <1>2, SMT
<1>4. Congruent(xs, ys, w)
  BY <1>3 DEF Congruent
<1> HIDE DEF xs, ys
<1>5. xs % w \in Int /\ 0 <= xs % w /\ xs % w < w /\ Congruent(xs % w, ys, w)
  BY <1>1, <1>4, Remainder, CongruentReduced
<1> QED
  BY <1>5 DEF xs, ys

LEMMA MixSteps ==
    ASSUME NEW w \in Int, w > 0, NEW x \in Int, NEW y \in Int, NEW word \in Int,
           Congruent(x, y, w)
    PROVE  Mixed(x, word, w) \in Int /\ Congruent(Mixed(x, word, w), (y * Mix) + word, w)
<1> DEFINE xs == x * Mix
           ys == y * Mix
<1>1. xs \in Int /\ ys \in Int /\ Congruent(xs, ys, w)
  <2>1. Mix \in Int /\ xs \in Int /\ ys \in Int
    BY SixteenBits, SMT
  <2> QED
    BY <2>1, CongruentScaled
<1>2. Mixed(x, word, w) = (xs + word) % w
  BY DEF Mixed
<1>3. ys + word = (y * Mix) + word
  OBVIOUS
<1> HIDE DEF xs, ys
<1>4. (xs + word) % w \in Int /\ Congruent((xs + word) % w, ys + word, w)
  BY <1>1, AddSteps
<1> QED
  BY <1>2, <1>3, <1>4

\* What a hash is multiplied by when an address is mixed in.
Factor(a) == CASE a.family = AF_INET  -> Two16
               [] a.family = AF_INET6 -> (Mix * Mix * Mix) * Two16
               [] OTHER -> 1

\* A factor is an integer.
LEMMA FactorIsPlain ==
    ASSUME NEW a \in Csockaddr
    PROVE  Factor(a) \in Int
  BY SixteenBits, SMT DEF Factor

\* getHash(a, h) is Factor(a) times h, and something that depends on a only.
LEMMA HashIsLinear ==
    ASSUME NEW w \in Widths, NEW a \in Csockaddr
    PROVE  \E base \in Int : \A h \in Int, k \in Int : Congruent(h, k, w) =>
               /\ getHash(a, h, w) \in Int
               /\ 0 <= getHash(a, h, w) /\ getHash(a, h, w) < w
               /\ Congruent(getHash(a, h, w), (k * Factor(a)) + base, w)
<1>1. w \in Int /\ w > 0
  BY WidthsArePlain
<1>2. CASE a.family = AF_INET
  <2>1. a.addr \in Int /\ a.port \in Port /\ a.port \in Int
    BY <1>2, Fields, PortsArePlain
  <2> DEFINE addr == a.addr
             base == (addr * Two16) + a.port
  <2>2. addr \in Int /\ base \in Int
    BY <2>1, SixteenBits, SMT
  <2>3. ASSUME NEW h \in Int, NEW k \in Int, Congruent(h, k, w)
        PROVE  /\ getHash(a, h, w) \in Int
               /\ 0 <= getHash(a, h, w) /\ getHash(a, h, w) < w
               /\ Congruent(getHash(a, h, w), (k * Factor(a)) + base, w)
    <3> DEFINE h0 == (h + addr) % w
               k0 == k + addr
    <3>1. getHash(a, h, w) = WithPort(h0, a.port, w)
      BY <1>2, SMT DEF getHash, AF_INET, AF_INET6
    <3>2. Factor(a) = Two16
      BY <1>2, SMT DEF Factor, AF_INET, AF_INET6
    <3> HIDE DEF addr
    <3>3. (k0 * Two16) + a.port = (k * Factor(a)) + base
      BY <2>1, <2>2, <3>2, SixteenBits, SMT
    <3>4. k0 \in Int
      BY <2>2, SMT
    <3>5. addr \in Int
      BY <2>2
    <3> HIDE DEF base
    <3>6. h0 \in Int /\ Congruent(h0, k0, w)
      BY <1>1, <2>3, <3>5, AddSteps
    <3> HIDE DEF h0, k0
    <3> QED
      BY <2>1, <3>1, <3>3, <3>4, <3>6, PortSteps
  <2> QED
    BY <2>2, <2>3
<1>3. CASE a.family = AF_INET6
  <2>1. a.addr \in [0 .. 3 -> Int] /\ a.port \in Port /\ a.port \in Int
    BY <1>3, Fields, PortsArePlain
  <2> DEFINE a0 == a.addr[0]
             a1 == a.addr[1]
             a2 == a.addr[2]
             a3 == a.addr[3]
             c1 == (a0 * Mix) + a1
             c2 == (c1 * Mix) + a2
             c3 == (c2 * Mix) + a3
             base == (c3 * Two16) + a.port
  <2>2. a0 \in Int /\ a1 \in Int /\ a2 \in Int /\ a3 \in Int
    BY <2>1, SMT
  <2> HIDE DEF a0, a1, a2, a3
  <2>3. base \in Int
    BY <2>1, <2>2, SixteenBits, SMT
  <2>4. ASSUME NEW h \in Int, NEW k \in Int, Congruent(h, k, w)
        PROVE  /\ getHash(a, h, w) \in Int
               /\ 0 <= getHash(a, h, w) /\ getHash(a, h, w) < w
               /\ Congruent(getHash(a, h, w), (k * Factor(a)) + base, w)
    <3> DEFINE h0 == (h + a0) % w
               h1 == Mixed(h0, a1, w)
               h2 == Mixed(h1, a2, w)
               h3 == Mixed(h2, a3, w)
               k0 == k + a0
               k1 == (k0 * Mix) + a1
               k2 == (k1 * Mix) + a2
               k3 == (k2 * Mix) + a3
    <3>1. getHash(a, h, w) = WithPort(h3, a.port, w)
      BY <1>3, SMT DEF getHash, AF_INET, AF_INET6, a0, a1, a2, a3
    <3>2. (k3 * Two16) + a.port = (k * Factor(a)) + base
      <4>1. Factor(a) = (Mix * Mix * Mix) * Two16
        BY <1>3, SMT DEF Factor, AF_INET, AF_INET6
      <4>2. k1 = (k * Mix) + c1 /\ c1 \in Int
        BY <2>2, SixteenBits, SMT
      <4> HIDE DEF c1, k1
      <4>3. k2 = (k * (Mix * Mix)) + c2 /\ c2 \in Int
        BY <2>2, <4>2, SixteenBits, SMT
      <4> HIDE DEF c2, k2
      <4>4. k3 = (k * (Mix * Mix * Mix)) + c3 /\ c3 \in Int
        BY <2>2, <4>3, SixteenBits, SMT
      <4> HIDE DEF c3, k3
      <4> DEFINE m == Mix * Mix * Mix
      <4>5. m \in Int /\ k3 = (k * m) + c3 /\ Factor(a) = m * Two16 /\ c3 \in Int
        BY <4>1, <4>4, SixteenBits, SMT
      <4> HIDE DEF m
      <4>6. Two16 \in Int /\ a.port \in Int
        BY <2>1, SixteenBits
      <4>7. ((k * m) + c3) * Two16 = (k * (m * Two16)) + (c3 * Two16)
        BY <4>5, <4>6, SMT
      <4> QED
        BY <4>5, <4>6, <4>7, SMT
    <3>3. k0 \in Int /\ k1 \in Int /\ k2 \in Int /\ k3 \in Int
      BY <2>2, SixteenBits, SMT
    <3>4. h0 \in Int /\ Congruent(h0, k0, w)
      BY <1>1, <2>2, <2>4, AddSteps
    <3> HIDE DEF h0, k0
    <3>5. h1 \in Int /\ Congruent(h1, k1, w)
      BY <1>1, <2>2, <3>3, <3>4, MixSteps
    <3> HIDE DEF h1, k1
    <3>6. h2 \in Int /\ Congruent(h2, k2, w)
      BY <1>1, <2>2, <3>3, <3>5, MixSteps
    <3> HIDE DEF h2, k2
    <3>7. h3 \in Int /\ Congruent(h3, k3, w)
      BY <1>1, <2>2, <3>3, <3>6, MixSteps
    <3> HIDE DEF h3, k3
    <3> QED
      BY <2>1, <3>1, <3>2, <3>3, <3>7, PortSteps
  <2> QED
    BY <2>3, <2>4
<1>4. CASE a.family = 0
  <2>1. ASSUME NEW h \in Int, NEW k \in Int, Congruent(h, k, w)
        PROVE  /\ getHash(a, h, w) \in Int
               /\ 0 <= getHash(a, h, w) /\ getHash(a, h, w) < w
               /\ Congruent(getHash(a, h, w), (k * Factor(a)) + 0, w)
    <3>1. getHash(a, h, w) = h % w /\ Factor(a) = 1
      BY <1>4, SMT DEF getHash, Factor, AF_INET, AF_INET6
    <3>2. (k * Factor(a)) + 0 = k
      BY <3>1, SMT
    <3>3. h % w \in Int /\ 0 <= h % w /\ h % w < w /\ Congruent(h % w, k, w)
      BY <1>1, <2>1, Remainder, CongruentReduced
    <3> QED
      BY <3>1, <3>2, <3>3, Zenon
  <2> QED
    BY <2>1
<1> QED
  BY <1>2, <1>3, <1>4, Addresses

-----------------------------------------------------------------------------
(* What the hash of a pair says of its protocol.                           *)

\* The hashes of the two pairs that differ in their protocol only.
LEMMA ProtocolsApart ==
    ASSUME NEW w \in Widths, NEW l \in Csockaddr, NEW r \in Csockaddr
    PROVE  /\ \A p \in Protocols : /\ PairHash(p, l, r, w) \in Int
                                   /\ 0 <= PairHash(p, l, r, w)
                                   /\ PairHash(p, l, r, w) < w
           /\ Congruent(PairHash(1, l, r, w),
                        PairHash(0, l, r, w) + 31 * (Factor(l) * Factor(r)), w)
<1> DEFINE f == Factor(l)
           g == Factor(r)
<1>1. w \in Int /\ w > 0 /\ f \in Int /\ g \in Int
  BY WidthsArePlain, FactorIsPlain
<1>2. PICK b \in Int : \A h \in Int, k \in Int : Congruent(h, k, w) =>
          /\ getHash(l, h, w) \in Int
          /\ 0 <= getHash(l, h, w) /\ getHash(l, h, w) < w
          /\ Congruent(getHash(l, h, w), (k * f) + b, w)
  BY HashIsLinear
<1>3. PICK c \in Int : \A h \in Int, k \in Int : Congruent(h, k, w) =>
          /\ getHash(r, h, w) \in Int
          /\ 0 <= getHash(r, h, w) /\ getHash(r, h, w) < w
          /\ Congruent(getHash(r, h, w), (k * g) + c, w)
  BY HashIsLinear
<1> HIDE DEF f, g
<1>4. ASSUME NEW p \in {0, 31}
      PROVE  /\ getHash(r, getHash(l, p, w), w) \in Int
             /\ 0 <= getHash(r, getHash(l, p, w), w) /\ getHash(r, getHash(l, p, w), w) < w
             /\ Congruent(getHash(r, getHash(l, p, w), w), (((p * f) + b) * g) + c, w)
  <2> DEFINE h == getHash(l, p, w)
             k == (p * f) + b
  <2>1. p \in Int /\ k \in Int
    BY <1>1, SMT
  <2>2. Congruent(p, p, w)
    <3>1. 0 \in Int /\ p = p + 0 * w
      BY <1>1, <2>1, SMT
    <3> QED
      BY <3>1 DEF Congruent
  <2>3. h \in Int /\ Congruent(h, k, w)
    BY <1>2, <2>1, <2>2
  <2> HIDE DEF h, k
  <2>4. /\ getHash(r, h, w) \in Int
        /\ 0 <= getHash(r, h, w) /\ getHash(r, h, w) < w
        /\ Congruent(getHash(r, h, w), (k * g) + c, w)
    BY <1>3, <2>1, <2>3
  <2> QED
    BY <2>4 DEF h, k
<1>5. /\ PairHash(0, l, r, w) = getHash(r, getHash(l, 0, w), w)
      /\ PairHash(1, l, r, w) = getHash(r, getHash(l, 31, w), w)
  <2>1. 0 * 31 = 0 /\ 1 * 31 = 31
    BY SMT
  <2> QED
    BY <2>1, Zenon DEF PairHash
<1> DEFINE x == (((0 * f) + b) * g) + c
           y == (((31 * f) + b) * g) + c
<1>6. /\ PairHash(0, l, r, w) \in Int
      /\ 0 <= PairHash(0, l, r, w) /\ PairHash(0, l, r, w) < w
      /\ Congruent(PairHash(0, l, r, w), x, w)
  BY <1>4, <1>5, Zenon
<1>7. /\ PairHash(1, l, r, w) \in Int
      /\ 0 <= PairHash(1, l, r, w) /\ PairHash(1, l, r, w) < w
      /\ Congruent(PairHash(1, l, r, w), y, w)
  BY <1>4, <1>5, Zenon
<1>8. x \in Int /\ y = x + 31 * (f * g)
  BY <1>1, SMT
<1> HIDE DEF x, y
<1>9. PICK m \in Int : PairHash(0, l, r, w) = x + m * w
  BY <1>6 DEF Congruent
<1>10. PICK n \in Int : PairHash(1, l, r, w) = y + n * w
  BY <1>7 DEF Congruent
<1>11. \A p \in Protocols : /\ PairHash(p, l, r, w) \in Int
                            /\ 0 <= PairHash(p, l, r, w) /\ PairHash(p, l, r, w) < w
  BY <1>6, <1>7 DEF Protocols
<1>12. PairHash(1, l, r, w) = (PairHash(0, l, r, w) + 31 * (f * g)) + (n - m) * w /\ n - m \in Int
  BY <1>1, <1>8, <1>9, <1>10, SMT
<1>13. Congruent(PairHash(1, l, r, w), PairHash(0, l, r, w) + 31 * (f * g), w)
  BY <1>12 DEF Congruent
<1> QED
  BY <1>11, <1>13, Zenon DEF f, g

Odd(x) == \E c \in Int : x = 2 * c + 1

\* The product of odd numbers is odd.
LEMMA OddTimesOdd ==
    ASSUME NEW x \in Int, NEW y \in Int, Odd(x), Odd(y)
    PROVE  Odd(x * y)
<1>1. PICK c \in Int : x = 2 * c + 1
  BY DEF Odd
<1>2. PICK d \in Int : y = 2 * d + 1
  BY DEF Odd
<1>3. x * y = 2 * (2 * (c * d) + c + d) + 1
  BY <1>1, <1>2, SMT
<1>4. 2 * (c * d) + c + d \in Int
  BY SMT
<1> QED
  BY <1>3, <1>4 DEF Odd

\* A factor is odd, or Two16 times an odd number, and the latter when valid.
LEMMA FactorIsOddAndShifted ==
    ASSUME NEW a \in Csockaddr
    PROVE  \E o \in Int : /\ Odd(o)
                          /\ Factor(a) = o \/ Factor(a) = o * Two16
                          /\ valid(a) => Factor(a) = o * Two16
<1>1. Odd(1)
  <2>1. 0 \in Int /\ 1 = 2 * 0 + 1
    BY SMT
  <2> QED
    BY <2>1 DEF Odd
<1>2. CASE a.family = AF_INET
  <2>1. Factor(a) = Two16
    BY <1>2, SMT DEF Factor, AF_INET, AF_INET6
  <2>2. Two16 = 1 * Two16 /\ 1 \in Int
    BY SixteenBits, SMT
  <2> QED
    BY <1>1, <2>1, <2>2, Zenon
<1>3. CASE a.family = AF_INET6
  <2> DEFINE o == Mix * Mix * Mix
  <2>1. Odd(Mix * Mix) /\ Mix * Mix \in Int
    <3>1. Odd(Mix) /\ Mix \in Int
      BY SixteenBits DEF Odd
    <3>2. Mix * Mix \in Int
      BY <3>1, SMT
    <3> QED
      BY <3>1, <3>2, OddTimesOdd, Zenon
  <2>2. o \in Int /\ Odd(o)
    <3> DEFINE m == Mix * Mix
    <3>1. m \in Int /\ Odd(m)
      BY <2>1
    <3>2. o = m * Mix
      OBVIOUS
    <3> HIDE DEF m, o
    <3>3. Odd(m * Mix) /\ m * Mix \in Int
      <4>1. Odd(Mix) /\ Mix \in Int
        BY SixteenBits DEF Odd
      <4>2. m * Mix \in Int
        BY <3>1, <4>1, SMT
      <4> QED
        BY <3>1, <4>1, <4>2, OddTimesOdd, Zenon
    <3> QED
      BY <3>2, <3>3, Zenon
  <2>3. Factor(a) = o * Two16
    BY <1>3, SMT DEF Factor, AF_INET, AF_INET6
  <2> HIDE DEF o
  <2> QED
    BY <2>2, <2>3
<1>4. CASE a.family = 0
  <2>1. Factor(a) = 1 /\ ~valid(a)
    BY <1>4, SMT DEF Factor, valid, AF_INET, AF_INET6
  <2> QED
    BY <1>1, <2>1
<1> QED
  BY <1>2, <1>3, <1>4, Addresses

\* The two protocols are apart in 64 bits: 31 times two odd numbers, shifted by
\* 32 at most, is no multiple of 2^64.
LEMMA NeverAMultipleOf64 ==
    ASSUME NEW l \in Csockaddr, NEW r \in Csockaddr, NEW n \in Int
    PROVE  31 * (Factor(l) * Factor(r)) # n * Width64
<1> DEFINE t == Two16
           v == t * t
<1>1. t \in Int /\ t > 0 /\ v \in Int /\ v > 0
  BY SixteenBits, SMT
<1>2. PICK b \in Int : t = 2 * b
  BY SixteenBits
<1>3. Width64 = v * v
  BY DEF Width64, Width32
<1>4. PICK o \in Int : Odd(o) /\ (Factor(l) = o \/ Factor(l) = o * t)
  BY FactorIsOddAndShifted
<1>5. PICK p \in Int : Odd(p) /\ (Factor(r) = p \/ Factor(r) = p * t)
  BY FactorIsOddAndShifted
<1> HIDE DEF t
<1>6. Odd(31 * (o * p))
  <2>1. o * p \in Int /\ 31 \in Int /\ 15 \in Int /\ 31 = 2 * 15 + 1
    BY SMT
  <2>2. Odd(31) /\ Odd(o * p)
    BY <1>4, <1>5, <2>1, OddTimesOdd, Zenon DEF Odd
  <2> QED
    BY <2>1, <2>2, OddTimesOdd, Zenon
<1>7. PICK c \in Int : 31 * (o * p) = 2 * c + 1
  BY <1>6 DEF Odd
<1>8. CASE Factor(l) = o /\ Factor(r) = p
  <2>1. v * v = 2 * (b * t * v) /\ b * t * v \in Int
    BY <1>1, <1>2, SMT
  <2>2. n * (v * v) = 2 * (n * (b * t * v)) /\ n * (b * t * v) \in Int
    BY <2>1, SMT
  <2>3. 2 * c + 1 # 2 * (n * (b * t * v))
    BY <2>2, SMT
  <2> QED
    BY <1>3, <1>7, <1>8, <2>2, <2>3, Zenon
<1>9. CASE (Factor(l) = o * t /\ Factor(r) = p) \/ (Factor(l) = o /\ Factor(r) = p * t)
  <2>1. Factor(l) * Factor(r) = (o * p) * t
    BY <1>1, <1>9, SMT
  <2>2. 31 * ((o * p) * t) = (31 * (o * p)) * t
    BY <1>1, SMT
  <2>3. n * (v * v) = (2 * (n * (b * v))) * t /\ n * (b * v) \in Int
    BY <1>1, <1>2, SMT
  <2>4. 2 * c + 1 # 2 * (n * (b * v)) /\ 2 * c + 1 \in Int /\ 2 * (n * (b * v)) \in Int
    BY <2>3, SMT
  <2>5. (2 * c + 1) * t # (2 * (n * (b * v))) * t
    BY <1>1, <2>4, SMT
  <2> QED
    BY <1>3, <1>7, <2>1, <2>2, <2>3, <2>5, Zenon
<1>10. CASE Factor(l) = o * t /\ Factor(r) = p * t
  <2>1. Factor(l) * Factor(r) = (o * p) * v
    BY <1>1, <1>10, SMT
  <2>2. 31 * ((o * p) * v) = (31 * (o * p)) * v
    BY <1>1, SMT
  <2>3. n * (v * v) = (2 * (n * (b * t))) * v /\ n * (b * t) \in Int
    BY <1>1, <1>2, SMT
  <2>4. 2 * c + 1 # 2 * (n * (b * t)) /\ 2 * c + 1 \in Int /\ 2 * (n * (b * t)) \in Int
    BY <2>3, SMT
  <2> HIDE DEF v
  <2>5. (2 * c + 1) * v # (2 * (n * (b * t))) * v
    BY <1>1, <2>4, SMT
  <2> QED
    BY <1>3, <1>7, <2>1, <2>2, <2>3, <2>5, Zenon
<1> QED
  BY <1>4, <1>5, <1>8, <1>9, <1>10, Zenon

\* In 32 bits each valid address shifts by 16, so that nothing is left.
LEMMA AMultipleOf32 ==
    ASSUME NEW l \in Csockaddr, NEW r \in Csockaddr, valid(l), valid(r)
    PROVE  \E n \in Int : 31 * (Factor(l) * Factor(r)) = n * Width32
<1>1. PICK o \in Int : Factor(l) = o * Two16
  BY FactorIsOddAndShifted
<1>2. PICK p \in Int : Factor(r) = p * Two16
  BY FactorIsOddAndShifted
<1>3. /\ 31 * (Factor(l) * Factor(r)) = (31 * (o * p)) * Width32
      /\ 31 * (o * p) \in Int
  BY <1>1, <1>2, SixteenBits, SMT DEF Width32
<1> QED
  BY <1>3

-----------------------------------------------------------------------------
(* The values as keys.                                                     *)

\* Addresses: operator== is equality and operator< a strict total order, so an
\* address is found under itself and under no other key (network_node.h:187-261).
THEOREM SockaddrKeys ==
    ASSUME NEW a \in Csockaddr, NEW b \in Csockaddr, NEW c \in Csockaddr
    PROVE  /\ Equal(a, b) <=> a = b
           /\ a = b \/ Less(a, b) \/ Less(b, a)
           /\ ~(Less(a, b) /\ Less(b, a))
           /\ Less(a, b) /\ Less(b, c) => Less(a, c)
  BY EqualIsIdentity, LessConnected, LessTransitive

\* A sockaddr of a known family that is as long as its family needs: 8 bytes
\* for what init reads of a sockaddr_in, a whole sockaddr_in6.
Complete(raw, size) == \/ raw.family = AF_INET /\ size >= 8
                       \/ raw.family = AF_INET6 /\ size >= 28

\* init takes over what is complete, makes the one unset address of everything
\* else, and valid tells the two apart; so two sockaddrs of any lengths become
\* the same key exactly when both are incomplete or they are complete and hold
\* the same address (network_node.h:50-98, 225-260, 342-345).
THEOREM InitMakesAddress ==
    ASSUME NEW raw \in Raw, NEW size \in Nat, NEW other \in Raw, NEW length \in Nat
    PROVE  /\ init(raw, size) \in Csockaddr
           /\ Complete(raw, size) => init(raw, size) = raw /\ valid(init(raw, size))
           /\ ~Complete(raw, size) => init(raw, size) = Unset /\ ~valid(init(raw, size))
           /\ Equal(init(raw, size), init(other, length)) <=>
                 \/ ~Complete(raw, size) /\ ~Complete(other, length)
                 \/ Complete(raw, size) /\ Complete(other, length) /\ raw = other
<1>1. ~valid(Unset)
  BY SMT DEF valid, Unset, AF_INET, AF_INET6
<1>2. ASSUME NEW r \in Raw, NEW n \in Nat
      PROVE  /\ init(r, n) \in Csockaddr
             /\ Complete(r, n) => init(r, n) = r /\ valid(r)
             /\ ~Complete(r, n) => init(r, n) = Unset
  <2>1. /\ r.family = AF_INET => r \in IPv4
        /\ r.family = AF_INET6 => r \in IPv6
    BY SMT DEF Raw, IPv4, IPv6, AF_INET, AF_INET6
  <2>2. CASE Complete(r, n)
    <3>1. init(r, n) = r BY <2>2 DEF init, Complete
    <3>2. valid(r) BY <2>2 DEF valid, Complete
    <3> QED BY <2>1, <2>2, <3>1, <3>2 DEF Complete, Csockaddr
  <2>3. CASE ~Complete(r, n)
    <3>1. init(r, n) = Unset BY <2>3 DEF init, Complete
    <3> QED BY <2>3, <3>1 DEF Csockaddr
  <2> QED BY <2>2, <2>3
<1>3. Equal(init(raw, size), init(other, length)) <=> init(raw, size) = init(other, length)
  BY <1>2, EqualIsIdentity
<1>4. \A r \in Raw, n \in Nat : Complete(r, n) => r # Unset
  BY <1>1, <1>2
<1> QED
  BY <1>1, <1>2, <1>3, <1>4

Nodes == [protocol : Protocols, sockaddr : Csockaddr, hash : Nat]

\* Nodes: whatever the hashes are, the comparisons are an equality and a strict
\* total order: they test the hash, but not instead of the rest
\* (network_node.h:395-406).
THEOREM NodeKeys ==
    ASSUME NEW m \in Nodes, NEW n \in Nodes, NEW k \in Nodes
    PROVE  /\ NodeEqual(m, n) <=> m = n
           /\ m = n \/ NodeLess(m, n) \/ NodeLess(n, m)
           /\ ~(NodeLess(m, n) /\ NodeLess(n, m))
           /\ NodeLess(m, n) /\ NodeLess(n, k) => NodeLess(m, k)
<1>1. \A x \in Nodes : /\ x.protocol \in Int /\ x.hash \in Int /\ x.sockaddr \in Csockaddr
  <2>1. Protocols \subseteq Int
    BY SMT DEF Protocols
  <2>2. \A x \in Nodes : x.protocol \in Protocols /\ x.hash \in Nat /\ x.sockaddr \in Csockaddr
    BY DEF Nodes
  <2>3. Nat \subseteq Int
    BY SMT
  <2> QED
    BY <2>1, <2>2, <2>3, Zenon
<1>2. NodeEqual(m, n) <=> m = n
  <2>1. m.protocol = n.protocol /\ m.sockaddr = n.sockaddr /\ m.hash = n.hash => m = n
    BY DEF Nodes
  <2>2. Equal(m.sockaddr, n.sockaddr) <=> m.sockaddr = n.sockaddr
    BY <1>1, EqualIsIdentity
  <2> QED
    BY <2>1, <2>2 DEF NodeEqual
<1>3. m = n \/ NodeLess(m, n) \/ NodeLess(n, m)
  <2>1. m.sockaddr = n.sockaddr \/ Less(m.sockaddr, n.sockaddr) \/ Less(n.sockaddr, m.sockaddr)
    BY <1>1, LessConnected
  <2>2. m.protocol = n.protocol /\ m.sockaddr = n.sockaddr /\ m.hash = n.hash => m = n
    BY DEF Nodes
  <2>3. CASE m.hash # n.hash
    BY <1>1, <2>3, SMT DEF NodeLess
  <2>4. CASE m.hash = n.hash /\ m.protocol # n.protocol
    BY <1>1, <2>4, SMT DEF NodeLess
  <2>5. CASE m.hash = n.hash /\ m.protocol = n.protocol
    BY <2>1, <2>2, <2>5 DEF NodeLess
  <2> QED
    BY <2>3, <2>4, <2>5
<1>4. ~(NodeLess(m, n) /\ NodeLess(n, m))
  <2>1. ~(Less(m.sockaddr, n.sockaddr) /\ Less(n.sockaddr, m.sockaddr))
    BY <1>1, LessConnected
  <2> QED
    BY <1>1, <2>1, SMT DEF NodeLess
<1>5. NodeLess(m, n) /\ NodeLess(n, k) => NodeLess(m, k)
  <2>1. Less(m.sockaddr, n.sockaddr) /\ Less(n.sockaddr, k.sockaddr)
            => Less(m.sockaddr, k.sockaddr)
    BY <1>1, LessTransitive
  <2> QED
    BY <1>1, <2>1, SMT DEF NodeLess
<1> QED
  BY <1>2, <1>3, <1>4, <1>5

\* Pairs do not compare the protocol (network_node.h:486-497).  In 64 bits they
\* need not: the hash, while it is fresh, tells the two protocols apart.
FreshPairs(w) == {q \in [protocol : Protocols, local : Csockaddr, remote : Csockaddr, hash : Int] :
                      q.hash = PairHash(q.protocol, q.local, q.remote, w)}

\* The default constructor, the other constructors and the setters leave the
\* hash fresh; operator= is the operation that is missing here.
THEOREM HashesAreFresh ==
    ASSUME NEW w \in Widths, NEW p \in FreshPairs(w), NEW protocol \in Protocols,
           NEW a \in Csockaddr, NEW b \in Csockaddr
    PROVE  /\ DefaultPair \in FreshPairs(w)
           /\ Pair(protocol, a, b, w) \in FreshPairs(w)
           /\ setProtocol(p, protocol, w) \in FreshPairs(w)
           /\ setLocal(p, a, w) \in FreshPairs(w)
           /\ setRemote(p, b, w) \in FreshPairs(w)
<1>1. ASSUME NEW x \in Protocols, NEW l \in Csockaddr, NEW r \in Csockaddr
      PROVE  Pair(x, l, r, w) \in FreshPairs(w)
  <2>1. PairHash(x, l, r, w) \in Int
    BY ProtocolsApart
  <2> QED
    BY <2>1 DEF Pair, FreshPairs
<1>2. p.protocol \in Protocols /\ p.local \in Csockaddr /\ p.remote \in Csockaddr
  BY DEF FreshPairs
<1>3. DefaultPair = Pair(0, Unset, Unset, w)
  <2>1. w \in Int /\ w > 0
    BY WidthsArePlain
  <2>2. 0 % w = 0 /\ (0 + 0) % w = 0 /\ 0 * 31 = 0
    BY <2>1, SMT
  <2>3. \A h \in Int : getHash(Unset, h, w) = (h + 0) % w
    BY SMT DEF getHash, Unset, AF_INET, AF_INET6
  <2>4. getHash(Unset, 0, w) = 0
    BY <2>2, <2>3
  <2> QED
    BY <2>2, <2>4 DEF DefaultPair, Pair, PairHash
<1>4. 0 \in Protocols /\ Unset \in Csockaddr
  BY DEF Protocols, Csockaddr
<1>5. /\ setProtocol(p, protocol, w) = Pair(protocol, p.local, p.remote, w)
      /\ setLocal(p, a, w) = Pair(p.protocol, a, p.remote, w)
      /\ setRemote(p, b, w) = Pair(p.protocol, p.local, b, w)
  BY DEF setProtocol, setLocal, setRemote, rehash, FreshPairs
<1> QED
  BY <1>1, <1>2, <1>3, <1>4, <1>5

\* In 64 bits the hash of a pair differs with the protocol.
LEMMA HashTellsProtocol ==
    ASSUME NEW l \in Csockaddr, NEW r \in Csockaddr
    PROVE  PairHash(0, l, r, Width64) # PairHash(1, l, r, Width64)
<1> DEFINE w == Width64
           d == 31 * (Factor(l) * Factor(r))
<1>1. w \in Int /\ d \in Int /\ w \in Widths
  BY WidthsArePlain, FactorIsPlain, SMT DEF Widths
<1>2. Congruent(PairHash(1, l, r, w), PairHash(0, l, r, w) + d, w)
  BY <1>1, ProtocolsApart
<1>3. PairHash(0, l, r, w) \in Int
  BY <1>1, ProtocolsApart DEF Protocols
<1>4. \A j \in Int : d # j * w
  BY NeverAMultipleOf64
<1> DEFINE x == PairHash(0, l, r, w)
<1>5. x = PairHash(0, l, r, w)
  OBVIOUS
<1> HIDE DEF w, d, x
<1>6. SUFFICES ASSUME x = PairHash(1, l, r, w) PROVE FALSE
  BY <1>5 DEF w
<1>7. PICK j \in Int : x = (x + d) + j * w
  BY <1>2, <1>5, <1>6 DEF Congruent
<1>8. d = (0 - j) * w /\ 0 - j \in Int
  BY <1>1, <1>3, <1>5, <1>7, SMT
<1> QED
  BY <1>4, <1>8

\* Pairs as keys in 64 bits, while the hashes are fresh: operator== is equality,
\* of the protocols too, and operator< a strict total order
\* (network_node.h:486-497).
THEOREM PairKeys ==
    ASSUME NEW p \in FreshPairs(Width64), NEW q \in FreshPairs(Width64),
           NEW s \in FreshPairs(Width64)
    PROVE  /\ PairEqual(p, q) <=> p = q
           /\ p = q \/ PairLess(p, q) \/ PairLess(q, p)
           /\ ~(PairLess(p, q) /\ PairLess(q, p))
           /\ PairLess(p, q) /\ PairLess(q, s) => PairLess(p, s)
<1> DEFINE Records == [protocol : Protocols, local : Csockaddr, remote : Csockaddr, hash : Int]
<1>1. \A x \in FreshPairs(Width64) :
          /\ x \in Records /\ x.hash = PairHash(x.protocol, x.local, x.remote, Width64)
  BY DEF FreshPairs
<1>2. \A x \in FreshPairs(Width64) :
          x.protocol \in Protocols /\ x.local \in Csockaddr /\ x.remote \in Csockaddr /\ x.hash \in Int
  BY <1>1
<1>3. ASSUME NEW x \in FreshPairs(Width64), NEW y \in FreshPairs(Width64),
             x.hash = y.hash, x.local = y.local, x.remote = y.remote
      PROVE  x = y
  <2>1. x.protocol \in {0, 1} /\ y.protocol \in {0, 1}
    BY <1>2 DEF Protocols
  <2>2. x.protocol = y.protocol
    BY <1>1, <1>2, <1>3, <2>1, HashTellsProtocol, Zenon
  <2>3. x \in Records /\ y \in Records
    BY <1>1
  <2> QED
    BY <1>3, <2>2, <2>3
<1>4. \A x \in FreshPairs(Width64), y \in FreshPairs(Width64) :
          /\ Equal(x.local, y.local) <=> x.local = y.local
          /\ Equal(x.remote, y.remote) <=> x.remote = y.remote
  BY <1>2, EqualIsIdentity
<1>5. PairEqual(p, q) <=> p = q
  BY <1>3, <1>4 DEF PairEqual
<1>6. p = q \/ PairLess(p, q) \/ PairLess(q, p)
  <2>1. /\ p.local = q.local \/ Less(p.local, q.local) \/ Less(q.local, p.local)
        /\ p.remote = q.remote \/ Less(p.remote, q.remote) \/ Less(q.remote, p.remote)
    BY <1>2, LessConnected
  <2>2. CASE p.hash # q.hash
    BY <1>2, <2>2, SMT DEF PairLess
  <2>3. CASE p.hash = q.hash /\ p.remote # q.remote
    BY <1>4, <2>1, <2>3 DEF PairLess
  <2>4. CASE p.hash = q.hash /\ p.remote = q.remote
    BY <1>3, <1>4, <2>1, <2>4 DEF PairLess
  <2> QED
    BY <2>2, <2>3, <2>4
<1>7. ~(PairLess(p, q) /\ PairLess(q, p))
  <2>1. /\ ~(Less(p.local, q.local) /\ Less(q.local, p.local))
        /\ ~(Less(p.remote, q.remote) /\ Less(q.remote, p.remote))
    BY <1>2, LessConnected
  <2> QED
    BY <1>2, <1>4, <2>1, SMT DEF PairLess
<1>8. PairLess(p, q) /\ PairLess(q, s) => PairLess(p, s)
  <2>1. /\ Less(p.local, q.local) /\ Less(q.local, s.local) => Less(p.local, s.local)
        /\ Less(p.remote, q.remote) /\ Less(q.remote, s.remote) => Less(p.remote, s.remote)
    BY <1>2, LessTransitive
  <2>2. ~(Less(p.remote, q.remote) /\ Less(q.remote, p.remote))
    BY <1>2, LessConnected
  <2>3. p.hash \in Int /\ q.hash \in Int /\ s.hash \in Int
    BY <1>2
  <2> QED
    BY <1>4, <2>1, <2>2, <2>3, SMT DEF PairLess
<1> QED
  BY <1>5, <1>6, <1>7, <1>8

\* In 32 bits the protocol is shifted out: two pairs of valid addresses that
\* differ in the protocol only are one key (network_node.h:279, 451-454, 494-497).
THEOREM PairKeysNarrow ==
    ASSUME NEW l \in Csockaddr, NEW r \in Csockaddr, valid(l), valid(r)
    PROVE  /\ PairEqual(Pair(0, l, r, Width32), Pair(1, l, r, Width32))
           /\ ~PairLess(Pair(0, l, r, Width32), Pair(1, l, r, Width32))
           /\ ~PairLess(Pair(1, l, r, Width32), Pair(0, l, r, Width32))
<1> DEFINE w == Width32
           x0 == PairHash(0, l, r, w)
           x1 == PairHash(1, l, r, w)
           d == 31 * (Factor(l) * Factor(r))
<1>1. w \in Int /\ w > 0 /\ d \in Int /\ w \in Widths
  BY WidthsArePlain, FactorIsPlain, SMT DEF Widths
<1>2. Congruent(x1, x0 + d, w)
  BY <1>1, ProtocolsApart
<1>3. PICK j \in Int : d = j * w
  BY AMultipleOf32
<1>4. x0 \in Int /\ 0 <= x0 /\ x0 < w /\ x1 \in Int /\ 0 <= x1 /\ x1 < w
  <2>1. 0 \in Protocols /\ 1 \in Protocols
    BY DEF Protocols
  <2> QED
    BY <1>1, <2>1, ProtocolsApart
<1>5. ~Less(l, l) /\ ~Less(r, r) /\ Equal(l, l) /\ Equal(r, r)
  BY LessConnected, EqualIsIdentity
<1> HIDE DEF w, x0, x1, d
<1>6. PICK n \in Int : x1 = (x0 + d) + n * w
  BY <1>2 DEF Congruent
<1>7. j + n \in Int /\ x1 = x0 + (j + n) * w
  BY <1>1, <1>3, <1>4, <1>6, SMT
<1>8. x1 = x0
  <2>1. Congruent(x1, x0, w)
    BY <1>7 DEF Congruent
  <2> QED
    BY <1>1, <1>4, <2>1, CongruentIsEqual
<1>9. PairHash(0, l, r, Width32) = PairHash(1, l, r, Width32)
  BY <1>8 DEF x0, x1, w
<1> QED
  BY <1>5, <1>9 DEF PairEqual, PairLess, Pair

\* operator= does not assign the protocol (network_node.h:472-485): afterwards
\* the pair equals what was assigned to it, but is of the other protocol, and the
\* same call of a setter makes the two unequal.
THEOREM AssignedForgetsProtocol ==
    ASSUME NEW p \in FreshPairs(Width64), NEW q \in FreshPairs(Width64),
           p.protocol # q.protocol
    PROVE  LET a == Assigned(p, q)
           IN  /\ PairEqual(a, q) /\ a.protocol # q.protocol
               /\ \A local \in Csockaddr :
                      ~PairEqual(setLocal(a, local, Width64), setLocal(q, local, Width64))
<1> DEFINE a == Assigned(p, q)
<1>1. /\ p.protocol \in {0, 1} /\ q.protocol \in {0, 1}
      /\ q.local \in Csockaddr /\ q.remote \in Csockaddr
  BY DEF FreshPairs, Protocols
<1>2. /\ a.protocol = p.protocol /\ a.local = q.local
      /\ a.remote = q.remote /\ a.hash = q.hash
  BY DEF Assigned, FreshPairs
<1>3. PairEqual(a, q)
  BY <1>1, <1>2, EqualIsIdentity DEF PairEqual
<1>4. ASSUME NEW local \in Csockaddr
      PROVE  ~PairEqual(setLocal(a, local, Width64), setLocal(q, local, Width64))
  <2>1. /\ setLocal(a, local, Width64).hash = PairHash(p.protocol, local, q.remote, Width64)
        /\ setLocal(q, local, Width64).hash = PairHash(q.protocol, local, q.remote, Width64)
    BY <1>2 DEF setLocal, rehash, Pair, FreshPairs, Assigned
  <2>2. PairHash(0, local, q.remote, Width64) # PairHash(1, local, q.remote, Width64)
    BY <1>1, HashTellsProtocol
  <2>3. PairHash(p.protocol, local, q.remote, Width64) # PairHash(q.protocol, local, q.remote, Width64)
    BY <1>1, <2>2, Zenon
  <2> QED
    BY <2>1, <2>3 DEF PairEqual
<1> QED
  BY <1>2, <1>3, <1>4
=============================================================================
