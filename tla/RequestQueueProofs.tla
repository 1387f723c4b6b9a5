------------------------- MODULE RequestQueueProofs -------------------------
(***************************************************************************)
(* Proofs about RequestQueue, for any set of clients and requests.         *)
(*                                                                         *)
(* The inductive invariant IInv adds to the properties what makes them     *)
(* hold: who holds the lock (LockInv), which phases of the constructor,    *)
(* the destructor and the loop can coincide (PhaseInv), that the deques    *)
(* are sorted by the time of submission and that everything in the batch   *)
(* is older than everything still pending (QueueInv).                      *)
(***************************************************************************)
EXTENDS RequestQueue, TLAPS

LockInv ==
    /\ lock = "client" <=> \E c \in Clients : client[c] = "locked"
    /\ \A c, d \in Clients : client[c] = "locked" /\ client[d] = "locked" => c = d
    /\ lock = "owner" <=> owner \in {"test", "send", "unlock"}

PhaseInv ==
    /\ (\E c \in Clients : client[c] # "idle") => owner = "run"
    /\ wantExit <=> owner \in {"lock", "test", "send", "unlock", "join", "done"}
    /\ wantExit \/ owner = "run" => poolState = "good"
    /\ loop = "start" <=> poolState = "initializing"
    /\ poolState = "bad" => loop = "returned"
    /\ loop = "start" => pending = NoRequests
    /\ wakeup = "null" <=> poolState # "good"
    /\ wakeup = "reset" => loop \in {"drain", "returned"}
    /\ wakeup = "open" => loop \notin {"drain", "returned"}
    /\ loop \in {"exit", "drain"} => wantExit
    /\ wakeup = "reset" => wantExit
    /\ owner = "send" => wakeup = "open"
    /\ discarded # {} => wakeup = "reset"

\* The requests on these deques are filed under their kind, in the order of
\* their submission, and none has been dealt with.
Sorted(deques) ==
    \A k \in Kinds :
        /\ \A i \in DOMAIN deques[k] :
               /\ KindOf[deques[k][i]] = k
               /\ stamp[deques[k][i]] > 0
               /\ deques[k][i] \notin handled \union discarded
        /\ \A i, j \in DOMAIN deques[k] :
               i < j => stamp[deques[k][i]] < stamp[deques[k][j]]

QueueInv ==
    /\ \A r \in Requests : stamp[r] <= clock
    /\ \A r \in handled \union discarded : stamp[r] > 0
    /\ Sorted(pending)
    /\ Sorted(batch)
    /\ \A j, k \in Kinds : \A m \in DOMAIN batch[j], n \in DOMAIN pending[k] :
           stamp[batch[j][m]] < stamp[pending[k][n]]
    /\ loop \notin {"taken", "dispatch", "dispatchSend", "exit"} =>
           batch = NoRequests

IInv == /\ TypeOK /\ LockInv /\ PhaseInv /\ QueueInv
        /\ NoLostWakeup /\ OnePlace /\ OrderKept

-----------------------------------------------------------------------------
(* The types, the lock and the phases.                                     *)

LEMMA NoRequestsType == NoRequests \in [Kinds -> Seq(Requests)]
  BY DEF NoRequests

LEMMA TypeInit == Init => TypeOK
<1> SUFFICES ASSUME Init PROVE TypeOK
  OBVIOUS
<1>1. pending \in [Kinds -> Seq(Requests)] /\ batch \in [Kinds -> Seq(Requests)]
  BY NoRequestsType DEF Init
<1>2. client \in [Clients -> ClientPlaces] /\ stamp \in [Requests -> Nat]
  BY DEF Init, ClientPlaces
<1> QED
  BY <1>1, <1>2 DEF Init, TypeOK, LoopPlaces, OwnerPlaces

LEMMA TypeStep == TypeOK /\ [Next]_vars => TypeOK'
<1> SUFFICES ASSUME TypeOK, [Next]_vars PROVE TypeOK'
  OBVIOUS
<1> USE KindAssumption DEF LoopPlaces, ClientPlaces, OwnerPlaces
<1>1. TypeOK'
  <2>1. ASSUME NEW c \in Clients, NEW r \in Requests, Submit(c, r) PROVE TypeOK'
      BY <2>1 DEF Submit, Push, TypeOK, NoRequests, Members
  <2>2. ASSUME NEW r \in Requests, LoopSubmit(r) PROVE TypeOK'
      BY <2>2 DEF LoopSubmit, Push, TypeOK, NoRequests, Members
  <2>3. ASSUME NEW c \in Clients, Unlock(c) PROVE TypeOK'
      BY <2>3 DEF Unlock, TypeOK, NoRequests, Members
  <2>4. ASSUME NEW c \in Clients, Send(c) PROVE TypeOK'
      BY <2>4 DEF Send, TypeOK, NoRequests, Members
  <2>5. ASSUME NEW k \in Kinds, Dispatch(k) PROVE TypeOK'
      BY <2>5 DEF Dispatch, First, TypeOK, NoRequests, Members
  <2>6. CASE LoopStarts
      BY <2>6 DEF LoopStarts, TypeOK, NoRequests, Members
  <2>7. CASE LoopFailsToStart
      BY <2>7 DEF LoopFailsToStart, TypeOK, NoRequests, Members
  <2>8. CASE LoopSend
      BY <2>8 DEF LoopSend, TypeOK, NoRequests, Members
  <2>9. CASE Wake
      BY <2>9 DEF Wake, TypeOK, NoRequests, Members
  <2>10. CASE TryLockFails
      BY <2>10 DEF TryLockFails, TypeOK, NoRequests, Members
  <2>11. CASE TakeBatch
      BY <2>11 DEF TakeBatch, TypeOK, NoRequests, Members
  <2>12. CASE ReadWantExit
      BY <2>12 DEF ReadWantExit, TypeOK, NoRequests, Members
  <2>13. CASE DispatchEnds
      BY <2>13 DEF DispatchEnds, TypeOK, NoRequests, Members
  <2>14. CASE Exit
      BY <2>14 DEF Exit, TypeOK, NoRequests, Members
  <2>15. CASE LoopReturns
      BY <2>15 DEF LoopReturns, TypeOK, NoRequests, Members
  <2>16. CASE Constructed
      BY <2>16 DEF Constructed, TypeOK, NoRequests, Members
  <2>17. CASE ConstructorThrows
      BY <2>17 DEF ConstructorThrows, TypeOK, NoRequests, Members
  <2>18. CASE DestroyLocks
      BY <2>18 DEF DestroyLocks, TypeOK, NoRequests, Members
  <2>19. CASE DestroyTests
      BY <2>19 DEF DestroyTests, TypeOK, NoRequests, Members
  <2>20. CASE DestroySends
      BY <2>20 DEF DestroySends, TypeOK, NoRequests, Members
  <2>21. CASE DestroyUnlocks
      BY <2>21 DEF DestroyUnlocks, TypeOK, NoRequests, Members
  <2>22. CASE Join
      BY <2>22 DEF Join, TypeOK, NoRequests, Members
  <2>23. CASE Destroy
      BY <2>23 DEF Destroy, TypeOK, NoRequests, Members
  <2>24. CASE UNCHANGED vars
      BY <2>24 DEF vars, TypeOK, NoRequests, Members
  <2>25. QED
      BY <2>1, <2>2, <2>3, <2>4, <2>5, <2>6, <2>7, <2>8, <2>9, <2>10, <2>11, <2>12, <2>13, <2>14, <2>15, <2>16, <2>17, <2>18, <2>19, <2>20, <2>21, <2>22, <2>23, <2>24 DEF Next, CallStep, LoopStep, OwnerStep, Ended
<1> QED
  BY <1>1

LEMMA ControlInit == Init => LockInv /\ PhaseInv
  BY DEF Init, LockInv, PhaseInv

LEMMA LockStep == TypeOK /\ LockInv /\ PhaseInv /\ [Next]_vars => LockInv'
<1> SUFFICES ASSUME TypeOK, LockInv, PhaseInv, [Next]_vars PROVE LockInv'
  OBVIOUS
<1>1. LockInv'
  <2>1. ASSUME NEW c \in Clients, NEW r \in Requests, Submit(c, r) PROVE LockInv'
      BY <2>1 DEF Submit, Push, TypeOK, LockInv, PhaseInv
  <2>2. ASSUME NEW r \in Requests, LoopSubmit(r) PROVE LockInv'
      BY <2>2 DEF LoopSubmit, Push, TypeOK, LockInv, PhaseInv
  <2>3. ASSUME NEW c \in Clients, Unlock(c) PROVE LockInv'
      BY <2>3 DEF Unlock, TypeOK, LockInv, PhaseInv
  <2>4. ASSUME NEW c \in Clients, Send(c) PROVE LockInv'
      BY <2>4 DEF Send, TypeOK, LockInv, PhaseInv
  <2>5. ASSUME NEW k \in Kinds, Dispatch(k) PROVE LockInv'
      BY <2>5 DEF Dispatch, First, TypeOK, LockInv, PhaseInv
  <2>6. CASE LoopStarts
      BY <2>6 DEF LoopStarts, TypeOK, LockInv, PhaseInv
  <2>7. CASE LoopFailsToStart
      BY <2>7 DEF LoopFailsToStart, TypeOK, LockInv, PhaseInv
  <2>8. CASE LoopSend
      BY <2>8 DEF LoopSend, TypeOK, LockInv, PhaseInv
  <2>9. CASE Wake
      BY <2>9 DEF Wake, TypeOK, LockInv, PhaseInv
  <2>10. CASE TryLockFails
      BY <2>10 DEF TryLockFails, TypeOK, LockInv, PhaseInv
  <2>11. CASE TakeBatch
      BY <2>11 DEF TakeBatch, TypeOK, LockInv, PhaseInv
  <2>12. CASE ReadWantExit
      BY <2>12 DEF ReadWantExit, TypeOK, LockInv, PhaseInv
  <2>13. CASE DispatchEnds
      BY <2>13 DEF DispatchEnds, TypeOK, LockInv, PhaseInv
  <2>14. CASE Exit
      BY <2>14 DEF Exit, TypeOK, LockInv, PhaseInv
  <2>15. CASE LoopReturns
      BY <2>15 DEF LoopReturns, TypeOK, LockInv, PhaseInv
  <2>16. CASE Constructed
      BY <2>16 DEF Constructed, TypeOK, LockInv, PhaseInv
  <2>17. CASE ConstructorThrows
      BY <2>17 DEF ConstructorThrows, TypeOK, LockInv, PhaseInv
  <2>18. CASE DestroyLocks
      BY <2>18 DEF DestroyLocks, TypeOK, LockInv, PhaseInv
  <2>19. CASE DestroyTests
      BY <2>19 DEF DestroyTests, TypeOK, LockInv, PhaseInv
  <2>20. CASE DestroySends
      BY <2>20 DEF DestroySends, TypeOK, LockInv, PhaseInv
  <2>21. CASE DestroyUnlocks
      BY <2>21 DEF DestroyUnlocks, TypeOK, LockInv, PhaseInv
  <2>22. CASE Join
      BY <2>22 DEF Join, TypeOK, LockInv, PhaseInv
  <2>23. CASE Destroy
      BY <2>23 DEF Destroy, TypeOK, LockInv, PhaseInv
  <2>24. CASE UNCHANGED vars
      BY <2>24 DEF vars, TypeOK, LockInv, PhaseInv
  <2>25. QED
      BY <2>1, <2>2, <2>3, <2>4, <2>5, <2>6, <2>7, <2>8, <2>9, <2>10, <2>11, <2>12, <2>13, <2>14, <2>15, <2>16, <2>17, <2>18, <2>19, <2>20, <2>21, <2>22, <2>23, <2>24 DEF Next, CallStep, LoopStep, OwnerStep, Ended
<1> QED
  BY <1>1

LEMMA PhaseStep == TypeOK /\ LockInv /\ PhaseInv /\ [Next]_vars => PhaseInv'
<1> SUFFICES ASSUME TypeOK, LockInv, PhaseInv, [Next]_vars PROVE PhaseInv'
  OBVIOUS
<1>1. PhaseInv'
  <2>1. ASSUME NEW c \in Clients, NEW r \in Requests, Submit(c, r) PROVE PhaseInv'
      BY <2>1 DEF Submit, Push, TypeOK, LockInv, PhaseInv
  <2>2. ASSUME NEW r \in Requests, LoopSubmit(r) PROVE PhaseInv'
      BY <2>2 DEF LoopSubmit, Push, TypeOK, LockInv, PhaseInv
  <2>3. ASSUME NEW c \in Clients, Unlock(c) PROVE PhaseInv'
      BY <2>3 DEF Unlock, TypeOK, LockInv, PhaseInv
  <2>4. ASSUME NEW c \in Clients, Send(c) PROVE PhaseInv'
      BY <2>4 DEF Send, TypeOK, LockInv, PhaseInv
  <2>5. ASSUME NEW k \in Kinds, Dispatch(k) PROVE PhaseInv'
      BY <2>5 DEF Dispatch, First, TypeOK, LockInv, PhaseInv
  <2>6. CASE LoopStarts
      BY <2>6 DEF LoopStarts, TypeOK, LockInv, PhaseInv
  <2>7. CASE LoopFailsToStart
      BY <2>7 DEF LoopFailsToStart, TypeOK, LockInv, PhaseInv
  <2>8. CASE LoopSend
      BY <2>8 DEF LoopSend, TypeOK, LockInv, PhaseInv
  <2>9. CASE Wake
      BY <2>9 DEF Wake, TypeOK, LockInv, PhaseInv
  <2>10. CASE TryLockFails
      BY <2>10 DEF TryLockFails, TypeOK, LockInv, PhaseInv
  <2>11. CASE TakeBatch
      BY <2>11 DEF TakeBatch, TypeOK, LockInv, PhaseInv
  <2>12. CASE ReadWantExit
      BY <2>12 DEF ReadWantExit, TypeOK, LockInv, PhaseInv
  <2>13. CASE DispatchEnds
      BY <2>13 DEF DispatchEnds, TypeOK, LockInv, PhaseInv
  <2>14. CASE Exit
      BY <2>14 DEF Exit, TypeOK, LockInv, PhaseInv
  <2>15. CASE LoopReturns
      BY <2>15 DEF LoopReturns, TypeOK, LockInv, PhaseInv
  <2>16. CASE Constructed
      BY <2>16 DEF Constructed, TypeOK, LockInv, PhaseInv
  <2>17. CASE ConstructorThrows
      BY <2>17 DEF ConstructorThrows, TypeOK, LockInv, PhaseInv
  <2>18. CASE DestroyLocks
      BY <2>18 DEF DestroyLocks, TypeOK, LockInv, PhaseInv
  <2>19. CASE DestroyTests
      BY <2>19 DEF DestroyTests, TypeOK, LockInv, PhaseInv
  <2>20. CASE DestroySends
      BY <2>20 DEF DestroySends, TypeOK, LockInv, PhaseInv
  <2>21. CASE DestroyUnlocks
      BY <2>21 DEF DestroyUnlocks, TypeOK, LockInv, PhaseInv
  <2>22. CASE Join
      BY <2>22 DEF Join, TypeOK, LockInv, PhaseInv
  <2>23. CASE Destroy
      BY <2>23 DEF Destroy, TypeOK, LockInv, PhaseInv
  <2>24. CASE UNCHANGED vars
      BY <2>24 DEF vars, TypeOK, LockInv, PhaseInv
  <2>25. QED
      BY <2>1, <2>2, <2>3, <2>4, <2>5, <2>6, <2>7, <2>8, <2>9, <2>10, <2>11, <2>12, <2>13, <2>14, <2>15, <2>16, <2>17, <2>18, <2>19, <2>20, <2>21, <2>22, <2>23, <2>24 DEF Next, CallStep, LoopStep, OwnerStep, Ended
<1> QED
  BY <1>1

-----------------------------------------------------------------------------
(* The members of the deques.                                              *)

LEMMA MembersOfNone == Members(NoRequests) = {}
  BY KindAssumption DEF Members, NoRequests

LEMMA MembersAfterPush ==
  ASSUME NEW q \in [Kinds -> Seq(Requests)], NEW r \in Requests
  PROVE  Members([q EXCEPT ![KindOf[r]] = Append(@, r)]) = Members(q) \union {r}
<1> DEFINE k == KindOf[r]
           p == [q EXCEPT ![k] = Append(@, r)]
<1>1. k \in Kinds /\ q[k] \in Seq(Requests)
  BY KindAssumption
<1>2. p[k] = Append(q[k], r) /\ \A j \in Kinds : j # k => p[j] = q[j]
  BY <1>1
<1>3. /\ DOMAIN p[k] = 1 .. Len(q[k]) + 1
      /\ \A i \in DOMAIN q[k] : i \in DOMAIN p[k] /\ p[k][i] = q[k][i]
      /\ p[k][Len(q[k]) + 1] = r
      /\ \A i \in DOMAIN p[k] : i \in DOMAIN q[k] \/ i = Len(q[k]) + 1
  BY <1>1, <1>2
<1>4. ASSUME NEW s \in Requests
      PROVE  s \in Members(p) <=> s \in Members(q) \/ s = r
  <2>1. CASE KindOf[s] # k
    <3>1. p[KindOf[s]] = q[KindOf[s]]
      BY <1>2, <2>1, KindAssumption
    <3> HIDE DEF p
    <3> QED
      BY <2>1, <3>1 DEF Members
  <2>2. CASE KindOf[s] = k
    <3> HIDE DEF p
    <3>1. CASE s = r
      BY <1>1, <1>3, <2>2, <3>1 DEF Members
    <3>2. CASE s # r
      BY <1>1, <1>3, <2>2, <3>2 DEF Members
    <3> QED
      BY <3>1, <3>2
  <2> QED
    BY <2>1, <2>2
<1> QED
  <2> HIDE DEF p
  <2>1. Members(p) \subseteq Requests /\ Members(q) \subseteq Requests
    BY DEF Members
  <2>2. Members(p) = Members(q) \union {r}
    BY <1>4, <2>1
  <2> QED
    BY <2>2 DEF p

LEMMA MembersAfterPop ==
  ASSUME TypeOK, Sorted(batch), NEW k \in Kinds, batch[k] # <<>>
  PROVE  /\ Head(batch[k]) \in Members(batch)
         /\ KindOf[Head(batch[k])] = k
         /\ Members([batch EXCEPT ![k] = Tail(@)])
              = Members(batch) \ {Head(batch[k])}
<1> DEFINE r == Head(batch[k])
           p == [batch EXCEPT ![k] = Tail(@)]
<1>1. /\ batch[k] \in Seq(Requests) /\ Len(batch[k]) >= 1
      /\ r = batch[k][1] /\ r \in Requests /\ 1 \in DOMAIN batch[k]
  BY DEF TypeOK
<1>2. KindOf[r] = k /\ r \in Members(batch)
  BY <1>1 DEF Sorted, Members
<1>3. /\ \A j \in Kinds : j # k => p[j] = batch[j]
      /\ \A i \in DOMAIN p[k] : /\ i + 1 \in DOMAIN batch[k]
                                /\ i + 1 # 1
                                /\ p[k][i] = batch[k][i + 1]
      /\ \A i \in DOMAIN batch[k] :
             i # 1 => i - 1 \in DOMAIN p[k] /\ p[k][i - 1] = batch[k][i]
  BY <1>1 DEF TypeOK
<1>4. \A i \in DOMAIN batch[k] : i # 1 => batch[k][i] # r
  <2>1. SUFFICES ASSUME NEW i \in DOMAIN batch[k], i # 1
                 PROVE  stamp[batch[k][1]] < stamp[batch[k][i]]
    BY <1>1 DEF TypeOK
  <2>2. 1 < i
    BY <1>1, <2>1
  <2> QED
    BY <1>1, <2>2 DEF Sorted
<1>5. ASSUME NEW s \in Requests
      PROVE  s \in Members(p) <=> s \in Members(batch) /\ s # r
  <2>1. CASE KindOf[s] # k
    <3>1. p[KindOf[s]] = batch[KindOf[s]]
      BY <1>3, <2>1, KindAssumption
    <3> HIDE DEF p
    <3> QED
      BY <1>2, <2>1, <3>1 DEF Members
  <2>2. CASE KindOf[s] = k
    <3> HIDE DEF p
    <3>1. ASSUME s \in Members(p) PROVE s \in Members(batch) /\ s # r
      <4>1. PICK i \in DOMAIN p[k] : p[k][i] = s
        BY <2>2, <3>1 DEF Members
      <4>2. i + 1 \in DOMAIN batch[k] /\ batch[k][i + 1] = s /\ i + 1 # 1
        BY <1>3, <4>1
      <4>3. s # r
        BY <1>4, <4>2
      <4> QED
        BY <2>2, <4>2, <4>3 DEF Members
    <3>2. ASSUME s \in Members(batch), s # r PROVE s \in Members(p)
      <4>1. PICK i \in DOMAIN batch[k] : batch[k][i] = s
        BY <2>2, <3>2 DEF Members
      <4>2. i # 1
        BY <1>1, <3>2, <4>1
      <4> QED
        BY <1>3, <2>2, <4>1, <4>2 DEF Members
    <3> QED
      BY <3>1, <3>2
  <2> QED
    BY <2>1, <2>2
<1> QED
  <2> HIDE DEF p, r
  <2>1. Members(p) \subseteq Requests /\ Members(batch) \subseteq Requests
    BY DEF Members
  <2>2. Members(p) = Members(batch) \ {r}
    BY <1>5, <2>1
  <2> QED
    BY <1>2, <2>2 DEF p, r

-----------------------------------------------------------------------------
(* No wakeup is lost.                                                      *)

LEMMA NoticeInit == Init => NoLostWakeup
  BY DEF Init, NoLostWakeup

LEMMA NoticeStep ==
  IInv /\ [Next]_vars => NoLostWakeup'
<1> SUFFICES ASSUME IInv, [Next]_vars PROVE NoLostWakeup'
  OBVIOUS
<1> USE DEF IInv
<1>1. NoLostWakeup'
  <2>1. ASSUME NEW c \in Clients, NEW r \in Requests, Submit(c, r) PROVE NoLostWakeup'
    BY <2>1 DEF Submit, Push, NoLostWakeup, LockInv, PhaseInv, Queued, TypeOK
  <2>2. ASSUME NEW r \in Requests, LoopSubmit(r) PROVE NoLostWakeup'
    BY <2>2 DEF LoopSubmit, Push, NoLostWakeup, LockInv, PhaseInv, Queued, TypeOK
  <2>3. ASSUME NEW c \in Clients, Unlock(c) PROVE NoLostWakeup'
    BY <2>3 DEF Unlock, NoLostWakeup, LockInv, PhaseInv, Queued, TypeOK
  <2>4. ASSUME NEW c \in Clients, Send(c) PROVE NoLostWakeup'
    BY <2>4 DEF Send, NoLostWakeup, LockInv, PhaseInv, Queued, TypeOK
  <2>5. ASSUME NEW k \in Kinds, Dispatch(k) PROVE NoLostWakeup'
    BY <2>5 DEF Dispatch, NoLostWakeup, PhaseInv, Queued, TypeOK
  <2>6. CASE LoopStarts
    BY <2>6, MembersOfNone DEF LoopStarts, NoLostWakeup, PhaseInv, Queued, TypeOK
  <2>7. CASE LoopFailsToStart
    BY <2>7 DEF LoopFailsToStart, NoLostWakeup, LockInv, PhaseInv, Queued, TypeOK
  <2>8. CASE LoopSend
    BY <2>8 DEF LoopSend, NoLostWakeup, LockInv, PhaseInv, Queued, TypeOK
  <2>9. CASE Wake
    BY <2>9 DEF Wake, NoLostWakeup, LockInv, PhaseInv, Queued, TypeOK
  <2>10. CASE TryLockFails
    BY <2>10 DEF TryLockFails, NoLostWakeup, LockInv, PhaseInv, Queued, TypeOK
  <2>11. CASE TakeBatch
    BY <2>11, MembersOfNone DEF TakeBatch, NoLostWakeup, PhaseInv, Queued, TypeOK
  <2>12. CASE ReadWantExit
    BY <2>12 DEF ReadWantExit, NoLostWakeup, LockInv, PhaseInv, Queued, TypeOK
  <2>13. CASE DispatchEnds
    BY <2>13 DEF DispatchEnds, NoLostWakeup, LockInv, PhaseInv, Queued, TypeOK
  <2>14. CASE Exit
    BY <2>14 DEF Exit, NoLostWakeup, LockInv, PhaseInv, Queued, TypeOK
  <2>15. CASE LoopReturns
    BY <2>15 DEF LoopReturns, NoLostWakeup, LockInv, PhaseInv, Queued, TypeOK
  <2>16. CASE Constructed
    BY <2>16 DEF Constructed, NoLostWakeup, LockInv, PhaseInv, Queued, TypeOK
  <2>17. CASE ConstructorThrows
    BY <2>17 DEF ConstructorThrows, NoLostWakeup, LockInv, PhaseInv, Queued, TypeOK
  <2>18. CASE DestroyLocks
    BY <2>18 DEF DestroyLocks, NoLostWakeup, LockInv, PhaseInv, Queued, TypeOK
  <2>19. CASE DestroyTests
    BY <2>19 DEF DestroyTests, NoLostWakeup, LockInv, PhaseInv, Queued, TypeOK
  <2>20. CASE DestroySends
    BY <2>20 DEF DestroySends, NoLostWakeup, LockInv, PhaseInv, Queued, TypeOK
  <2>21. CASE DestroyUnlocks
    BY <2>21 DEF DestroyUnlocks, NoLostWakeup, LockInv, PhaseInv, Queued, TypeOK
  <2>22. CASE Join
    BY <2>22 DEF Join, NoLostWakeup, LockInv, PhaseInv, Queued, TypeOK
  <2>23. CASE Destroy
    BY <2>23 DEF Destroy, NoLostWakeup, LockInv, PhaseInv, Queued, TypeOK
  <2>24. CASE UNCHANGED vars
    BY <2>24 DEF vars, NoLostWakeup, LockInv, PhaseInv, Queued, TypeOK
  <2>25. QED
    BY <2>1, <2>2, <2>3, <2>4, <2>5, <2>6, <2>7, <2>8, <2>9, <2>10, <2>11, <2>12, <2>13, <2>14, <2>15, <2>16, <2>17, <2>18, <2>19, <2>20, <2>21, <2>22, <2>23, <2>24
       DEF Next, CallStep, LoopStep, OwnerStep, Ended
<1> QED
  BY <1>1

-----------------------------------------------------------------------------
(* The deques and the batch.                                               *)

\* Only these steps touch the deques, the batch or the histories.
queueState == <<pending, batch, clock, stamp, handled, discarded>>

LEMMA QueueUnchanged ==
  ASSUME IInv, UNCHANGED queueState,
         batch = NoRequests
           \/ loop' \in {"taken", "dispatch", "dispatchSend", "exit"}
  PROVE  QueueInv' /\ OnePlace' /\ OrderKept'
<1>1. QueueInv'
  BY DEF IInv, QueueInv, Sorted, queueState
<1>2. OnePlace'
  BY DEF IInv, OnePlace, Submitted, Queued, Batched, Members, queueState
<1>3. OrderKept'
  BY DEF IInv, OrderKept, Submitted, queueState
<1> QED
  BY <1>1, <1>2, <1>3

LEMMA QueuePush ==
  ASSUME IInv, NEW r \in Requests, Push(r),
         UNCHANGED <<batch, handled, discarded>>,
         batch = NoRequests
           \/ loop' \in {"taken", "dispatch", "dispatchSend", "exit"}
  PROVE  QueueInv' /\ OnePlace' /\ OrderKept'
<1> DEFINE kr == KindOf[r]
<1>1. /\ TypeOK /\ QueueInv /\ OnePlace /\ OrderKept
      /\ kr \in Kinds /\ pending[kr] \in Seq(Requests)
  BY KindAssumption DEF IInv, TypeOK
<1>2. /\ \A j \in Kinds : j # kr => pending'[j] = pending[j]
      /\ \A i \in DOMAIN pending[kr] : i \in DOMAIN pending'[kr]
                                      /\ pending'[kr][i] = pending[kr][i]
      /\ Len(pending[kr]) + 1 \in DOMAIN pending'[kr]
      /\ pending'[kr][Len(pending[kr]) + 1] = r
      /\ \A i \in DOMAIN pending'[kr] : i \in DOMAIN pending[kr]
                                       \/ i = Len(pending[kr]) + 1
      /\ \A i \in DOMAIN pending[kr] : i \in Nat /\ i < Len(pending[kr]) + 1
  <2> DEFINE old == pending[kr]
             new == pending'[kr]
  <2>1. /\ \A j \in Kinds : j # kr => pending'[j] = pending[j]
        /\ new = Append(old, r)
    BY <1>1 DEF TypeOK, Push
  <2>2. old \in Seq(Requests)
    BY <1>1
  <2> HIDE DEF old, new
  <2>3. /\ Len(old) \in Nat /\ DOMAIN old = 1 .. Len(old)
        /\ new \in Seq(Requests) /\ Len(new) = Len(old) + 1
        /\ DOMAIN new = 1 .. Len(new)
        /\ \A i \in 1 .. Len(old) : new[i] = old[i]
        /\ new[Len(old) + 1] = r
    BY <2>1, <2>2
  <2>4. \A i \in DOMAIN old : i \in DOMAIN new /\ new[i] = old[i]
    BY <2>3
  <2>5. Len(old) + 1 \in DOMAIN new /\ new[Len(old) + 1] = r
    BY <2>3
  <2>6. \A i \in DOMAIN new : i \in DOMAIN old \/ i = Len(old) + 1
    BY <2>3
  <2>7. \A i \in DOMAIN old : i \in Nat /\ i < Len(old) + 1
    BY <2>3
  <2> QED
    BY <2>1, <2>4, <2>5, <2>6, <2>7 DEF old, new
<1>3. /\ stamp' \in [Requests -> Nat] /\ clock' = clock + 1 /\ clock \in Nat
      /\ stamp'[r] = clock + 1 /\ stamp[r] = 0
      /\ \A q \in Requests : q # r => stamp'[q] = stamp[q]
      /\ \A q \in Requests : stamp[q] <= clock /\ stamp[q] \in Nat
  BY <1>1 DEF TypeOK, QueueInv, Push
<1>4. \A k \in Kinds : \A i \in DOMAIN pending[k] :
        pending[k][i] \in Requests /\ pending[k][i] # r
  <2>1. \A k \in Kinds : \A i \in DOMAIN pending[k] : pending[k][i] \in Requests
    BY <1>1 DEF TypeOK
  <2> QED
    BY <1>1, <1>3, <2>1 DEF QueueInv, Sorted
<1>5. \A k \in Kinds : \A i \in DOMAIN batch[k] :
        batch[k][i] \in Requests /\ batch[k][i] # r
  <2>1. \A k \in Kinds : \A i \in DOMAIN batch[k] : batch[k][i] \in Requests
    BY <1>1 DEF TypeOK
  <2> QED
    BY <1>1, <1>3, <2>1 DEF QueueInv, Sorted
<1>6. r \notin handled /\ r \notin discarded
  BY <1>1, <1>3 DEF QueueInv
<1>7. \A k \in Kinds : \A i \in DOMAIN pending'[k] :
        \/ i \in DOMAIN pending[k] /\ pending'[k][i] = pending[k][i]
        \/ k = kr /\ i = Len(pending[kr]) + 1 /\ pending'[k][i] = r
  BY <1>2
<1>8. Sorted(pending)'
  <2> SUFFICES ASSUME NEW k \in Kinds
               PROVE  /\ \A i \in DOMAIN pending'[k] :
                            /\ KindOf[pending'[k][i]] = k
                            /\ stamp'[pending'[k][i]] > 0
                            /\ pending'[k][i] \notin handled' \union discarded'
                      /\ \A i, j \in DOMAIN pending'[k] :
                            i < j => stamp'[pending'[k][i]] < stamp'[pending'[k][j]]
    BY DEF Sorted
  <2>1. ASSUME NEW i \in DOMAIN pending'[k]
        PROVE  /\ KindOf[pending'[k][i]] = k
               /\ stamp'[pending'[k][i]] > 0
               /\ pending'[k][i] \notin handled' \union discarded'
    <3>1. CASE i \in DOMAIN pending[k] /\ pending'[k][i] = pending[k][i]
      BY <1>1, <1>3, <1>4, <1>5, <3>1 DEF QueueInv, Sorted
    <3>2. CASE k = kr /\ pending'[k][i] = r
      BY <1>3, <1>6, <3>2
    <3> QED
      BY <1>7, <3>1, <3>2
  <2>2. ASSUME NEW i \in DOMAIN pending'[k], NEW j \in DOMAIN pending'[k], i < j
        PROVE  stamp'[pending'[k][i]] < stamp'[pending'[k][j]]
    <3>1. CASE /\ i \in DOMAIN pending[k] /\ pending'[k][i] = pending[k][i]
               /\ j \in DOMAIN pending[k] /\ pending'[k][j] = pending[k][j]
      <4>1. stamp[pending[k][i]] < stamp[pending[k][j]]
        BY <1>1, <2>2, <3>1 DEF QueueInv, Sorted
      <4> QED
        BY <1>3, <1>4, <1>5, <3>1, <4>1
    <3>2. CASE /\ i \in DOMAIN pending[k] /\ pending'[k][i] = pending[k][i]
               /\ k = kr /\ pending'[k][j] = r
      BY <1>3, <1>4, <1>5, <3>2
    <3>3. CASE k = kr /\ i = Len(pending[kr]) + 1
      <4>1. j \in DOMAIN pending[kr] \/ j = Len(pending[kr]) + 1
        BY <1>2, <3>3
      <4> QED
        BY <1>1, <1>2, <2>2, <3>3, <4>1
    <3> QED
      BY <1>7, <3>1, <3>2, <3>3
  <2> QED
    BY <2>1, <2>2
<1>9. Sorted(batch)'
  BY <1>1, <1>3, <1>4, <1>5 DEF QueueInv, Sorted
<1>10. \A j, k \in Kinds : \A m \in DOMAIN batch'[j], n \in DOMAIN pending'[k] :
          stamp'[batch'[j][m]] < stamp'[pending'[k][n]]
  <2> SUFFICES ASSUME NEW j \in Kinds, NEW k \in Kinds,
                      NEW m \in DOMAIN batch[j], NEW n \in DOMAIN pending'[k]
               PROVE  stamp'[batch[j][m]] < stamp'[pending'[k][n]]
    OBVIOUS
  <2>1. stamp'[batch[j][m]] = stamp[batch[j][m]] /\ stamp[batch[j][m]] <= clock
        /\ stamp[batch[j][m]] \in Nat
    <3>1. batch[j][m] \in Requests /\ batch[j][m] # r
      BY <1>4, <1>5
    <3> QED
      BY <1>3, <3>1
  <2>2. CASE n \in DOMAIN pending[k] /\ pending'[k][n] = pending[k][n]
    <3>1. stamp[batch[j][m]] < stamp[pending[k][n]]
      BY <1>1, <2>2 DEF QueueInv
    <3> QED
      BY <1>3, <1>4, <1>5, <2>1, <2>2, <3>1
  <2>3. CASE pending'[k][n] = r
    BY <1>3, <2>1, <2>3
  <2> QED
    BY <1>7, <2>2, <2>3
<1>11. QueueInv'
  <2>1. \A q \in Requests : stamp'[q] <= clock'
    BY <1>3
  <2>2. \A q \in handled' \union discarded' : stamp'[q] > 0
    BY <1>1, <1>3, <1>6 DEF QueueInv, TypeOK
  <2> QED
    BY <1>8, <1>9, <1>10, <2>1, <2>2 DEF QueueInv
<1>12. OnePlace'
  <2>1. Queued' = Queued \union {r}
    BY <1>1, MembersAfterPush DEF TypeOK, Queued, Push
  <2>2. Batched' = Batched
    BY DEF Batched, Members
  <2>3. r \notin Batched
    <3>1. \A i \in DOMAIN batch[kr] : batch[kr][i] # r
      BY <1>1, <1>5
    <3> QED
      BY <3>1 DEF Batched, Members
  <2>4. Submitted' = Submitted \union {r}
    BY <1>3 DEF Submitted
  <2> QED
    BY <1>1, <1>6, <2>1, <2>2, <2>3, <2>4 DEF OnePlace
<1>13. OrderKept'
  <2> SUFFICES ASSUME NEW h \in handled, NEW q \in Submitted',
                      stamp'[q] < stamp'[h], KindOf[q] <= KindOf[h]
               PROVE  q \in handled
    BY DEF OrderKept
  <2>1. h # r /\ h \in Requests /\ q \in Requests
    BY <1>1, <1>6 DEF TypeOK, Submitted
  <2>2. q # r
    BY <1>3, <2>1
  <2> QED
    BY <1>1, <1>3, <2>1, <2>2 DEF OrderKept, Submitted
<1> QED
  BY <1>11, <1>12, <1>13

LEMMA QueueTake ==
  ASSUME IInv, TakeBatch
  PROVE  QueueInv' /\ OnePlace' /\ OrderKept'
<1> USE DEF IInv, TakeBatch
<1>1. batch = NoRequests
  BY DEF QueueInv
<1>2. \A k \in Kinds : pending'[k] = <<>> /\ DOMAIN pending'[k] = {}
  BY DEF NoRequests
<1>3. Queued' = {} /\ Batched' = Queued /\ Batched = {}
  BY <1>1, MembersOfNone DEF Queued, Batched, Members
<1>4. QueueInv'
  BY <1>2 DEF QueueInv, Sorted
<1>5. OnePlace'
  BY <1>3 DEF OnePlace, Submitted
<1>6. OrderKept'
  BY DEF OrderKept, Submitted
<1> QED
  BY <1>4, <1>5, <1>6

\* What Dispatch hands to the loop: a batched request that everything it may
\* not overtake has preceded.
LEMMA DispatchedIsNext ==
  ASSUME IInv, NEW k \in Kinds, Dispatch(k)
  PROVE  LET r == Head(batch[k])
         IN  /\ r \in Batched /\ r \in Requests
             /\ \A q \in Submitted :
                    stamp[q] < stamp[r] /\ KindOf[q] <= KindOf[r] => q \in handled
<1> DEFINE r == Head(batch[k])
<1>1. /\ TypeOK /\ PhaseInv /\ QueueInv /\ OnePlace
      /\ batch[k] # <<>> /\ \A j \in Kinds : j < k => batch[j] = <<>>
      /\ loop = "dispatch"
  BY DEF IInv, Dispatch, First
<1>2. r \in Batched /\ KindOf[r] = k
  BY <1>1, MembersAfterPop DEF QueueInv, Batched
<1>3. r \in Requests /\ 1 \in DOMAIN batch[k] /\ r = batch[k][1]
      /\ batch[k] \in Seq(Requests)
  BY <1>1 DEF TypeOK
<1>4. discarded = {}
  BY <1>1 DEF PhaseInv, TypeOK, LoopPlaces
<1>5. SUFFICES ASSUME NEW q \in Submitted,
                      stamp[q] < stamp[r], KindOf[q] <= KindOf[r]
               PROVE  q \in handled
  BY <1>2, <1>3
<1>6. q \in Requests /\ KindOf[q] \in Kinds /\ stamp[q] \in Nat /\ stamp[r] \in Nat
  BY <1>1, <1>3, KindAssumption DEF Submitted, TypeOK
<1> HIDE DEF r
<1>7. q \notin Queued
  <2>1. \A n \in DOMAIN pending[KindOf[q]] :
          stamp[batch[k][1]] < stamp[pending[KindOf[q]][n]]
    BY <1>1, <1>3, <1>6 DEF QueueInv
  <2>2. \A n \in DOMAIN pending[KindOf[q]] : pending[KindOf[q]][n] # q
    BY <1>3, <1>5, <1>6, <2>1
  <2> QED
    BY <2>2 DEF Queued, Members
<1>8. q \notin Batched
  <2>1. CASE KindOf[q] < k
    <3>1. DOMAIN batch[KindOf[q]] = {}
      BY <1>1, <1>6, <2>1
    <3> QED
      BY <3>1 DEF Batched, Members
  <2>2. CASE KindOf[q] = k
    <3>1. ASSUME NEW n \in DOMAIN batch[k] PROVE batch[k][n] # q
      <4>1. CASE n = 1
        BY <1>3, <1>5, <1>6, <4>1
      <4>2. CASE n # 1
        <5>1. 1 < n
          BY <1>3, <4>2
        <5>2. stamp[batch[k][1]] < stamp[batch[k][n]]
          BY <1>1, <1>3, <5>1 DEF QueueInv, Sorted
        <5> QED
          BY <1>3, <1>5, <1>6, <5>2
      <4> QED
        BY <4>1, <4>2
    <3> QED
      BY <2>2, <3>1 DEF Batched, Members
  <2> QED
    BY <1>2, <1>5, <1>6, <2>1, <2>2 DEF Kinds, Bind, Close
<1> QED
  BY <1>1, <1>4, <1>7, <1>8 DEF OnePlace

LEMMA QueueDispatch ==
  ASSUME IInv, NEW k \in Kinds, Dispatch(k)
  PROVE  QueueInv' /\ OnePlace' /\ OrderKept'
<1> DEFINE r == Head(batch[k])
<1>1. /\ TypeOK /\ QueueInv /\ OnePlace /\ OrderKept
      /\ batch[k] # <<>> /\ loop' = "dispatch" /\ loop = "dispatch"
      /\ handled' = handled \union {r} /\ batch' = [batch EXCEPT ![k] = Tail(@)]
      /\ UNCHANGED <<pending, clock, stamp, discarded>>
  BY DEF IInv, Dispatch, First
<1>2. /\ r \in Batched /\ r \in Requests
      /\ \A q \in Submitted :
            stamp[q] < stamp[r] /\ KindOf[q] <= KindOf[r] => q \in handled
  BY DispatchedIsNext
<1>3. KindOf[r] = k /\ Batched' = Batched \ {r}
  BY <1>1, MembersAfterPop DEF QueueInv, Batched
<1>4. batch[k] \in Seq(Requests) /\ r = batch[k][1] /\ 1 \in DOMAIN batch[k]
  BY <1>1 DEF TypeOK
<1>5. /\ \A j \in Kinds : j # k => batch'[j] = batch[j]
      /\ \A i \in DOMAIN batch'[k] : /\ i + 1 \in DOMAIN batch[k]
                                    /\ i + 1 > 1 /\ i \in Nat
                                    /\ batch'[k][i] = batch[k][i + 1]
  BY <1>1, <1>4 DEF TypeOK
<1>6. stamp[r] > 0 /\ stamp \in [Requests -> Nat]
  BY <1>1, <1>4 DEF QueueInv, Sorted, TypeOK
<1> HIDE DEF r
<1>7. \A i \in DOMAIN batch'[k] : stamp[r] < stamp[batch'[k][i]]
  BY <1>1, <1>4, <1>5 DEF QueueInv, Sorted
<1>8. Sorted(batch)'
  <2> SUFFICES ASSUME NEW j \in Kinds
               PROVE  /\ \A i \in DOMAIN batch'[j] :
                            /\ KindOf[batch'[j][i]] = j
                            /\ stamp[batch'[j][i]] > 0
                            /\ batch'[j][i] \notin handled' \union discarded
                      /\ \A i, n \in DOMAIN batch'[j] :
                            i < n => stamp[batch'[j][i]] < stamp[batch'[j][n]]
    BY <1>1 DEF Sorted
  <2>1. CASE j = k
    <3>1. ASSUME NEW i \in DOMAIN batch'[k]
          PROVE  /\ KindOf[batch'[k][i]] = k
                 /\ stamp[batch'[k][i]] > 0
                 /\ batch'[k][i] \notin handled' \union discarded
      <4>1. /\ KindOf[batch'[k][i]] = k
            /\ stamp[batch'[k][i]] > 0
            /\ batch'[k][i] \notin handled \union discarded
        BY <1>1, <1>5 DEF QueueInv, Sorted
      <4>2. batch'[k][i] # r
        BY <1>6, <1>7, <1>2
      <4> QED
        BY <1>1, <4>1, <4>2
    <3>2. ASSUME NEW i \in DOMAIN batch'[k], NEW n \in DOMAIN batch'[k], i < n
          PROVE  stamp[batch'[k][i]] < stamp[batch'[k][n]]
      <4>1. i + 1 < n + 1
        BY <1>5, <3>2
      <4> QED
        BY <1>1, <1>5, <4>1 DEF QueueInv, Sorted
    <3> QED
      BY <2>1, <3>1, <3>2
  <2>2. CASE j # k
    <3>1. batch'[j] = batch[j]
      BY <1>5, <2>2
    <3>2. \A i \in DOMAIN batch[j] : batch[j][i] # r
      BY <1>1, <1>3, <2>2 DEF QueueInv, Sorted
    <3>3. \A i \in DOMAIN batch[j] :
            /\ KindOf[batch[j][i]] = j
            /\ stamp[batch[j][i]] > 0
            /\ batch[j][i] \notin handled \union discarded
      BY <1>1 DEF QueueInv, Sorted
    <3>4. \A i, n \in DOMAIN batch[j] :
            i < n => stamp[batch[j][i]] < stamp[batch[j][n]]
      BY <1>1 DEF QueueInv, Sorted
    <3>5. \A i \in DOMAIN batch[j] : batch[j][i] \notin handled' \union discarded
      BY <1>1, <3>2, <3>3
    <3> QED
      BY <3>1, <3>3, <3>4, <3>5
  <2> QED
    BY <2>1, <2>2
<1>9. \A j, l \in Kinds : \A m \in DOMAIN batch'[j], n \in DOMAIN pending[l] :
         stamp[batch'[j][m]] < stamp[pending[l][n]]
  <2> SUFFICES ASSUME NEW j \in Kinds, NEW l \in Kinds,
                      NEW m \in DOMAIN batch'[j], NEW n \in DOMAIN pending[l]
               PROVE  stamp[batch'[j][m]] < stamp[pending[l][n]]
    OBVIOUS
  <2>1. PICK i \in DOMAIN batch[j] : batch'[j][m] = batch[j][i]
    BY <1>5
  <2> QED
    BY <1>1, <2>1 DEF QueueInv
<1>10. Sorted(pending)'
  <2>1. \A j \in Kinds : \A i \in DOMAIN pending[j] : pending[j][i] # r
    <3> SUFFICES ASSUME NEW j \in Kinds, NEW i \in DOMAIN pending[j],
                        pending[j][i] = r
                 PROVE  FALSE
      OBVIOUS
    <3>1. stamp[batch[k][1]] < stamp[pending[j][i]]
      BY <1>1, <1>4 DEF QueueInv
    <3> QED
      BY <1>2, <1>4, <1>6, <3>1
  <2> QED
    BY <1>1, <2>1 DEF QueueInv, Sorted
<1>11. QueueInv'
  BY <1>1, <1>2, <1>6, <1>8, <1>9, <1>10 DEF QueueInv
<1>12. OnePlace'
  <2>1. Queued' = Queued /\ Submitted' = Submitted
    BY <1>1 DEF Queued, Members, Submitted
  <2> QED
    BY <1>1, <1>2, <1>3, <2>1 DEF OnePlace
<1>13. OrderKept'
  BY <1>1, <1>2 DEF OrderKept, Submitted
<1> QED
  BY <1>11, <1>12, <1>13

LEMMA QueueExit ==
  ASSUME IInv, Exit
  PROVE  QueueInv' /\ OnePlace' /\ OrderKept'
<1>1. /\ TypeOK /\ QueueInv /\ OnePlace /\ OrderKept
      /\ discarded' = discarded \union Batched /\ batch' = NoRequests
      /\ UNCHANGED <<pending, clock, stamp, handled>>
  BY DEF IInv, Exit, Batched
<1>2. \A k \in Kinds : batch'[k] = <<>> /\ DOMAIN batch'[k] = {}
  BY <1>1 DEF NoRequests
<1>3. Batched' = {} /\ Queued' = Queued /\ Submitted' = Submitted
  BY <1>1, MembersOfNone DEF Batched, Queued, Submitted, Members
<1>4. Batched \subseteq Submitted /\ Queued \intersect Batched = {}
  BY <1>1 DEF OnePlace
<1>5. \A k \in Kinds : \A i \in DOMAIN pending[k] : pending[k][i] \notin Batched
  <2> SUFFICES ASSUME NEW k \in Kinds, NEW i \in DOMAIN pending[k]
               PROVE  pending[k][i] \in Queued
    BY <1>4
  <2>1. pending[k][i] \in Requests /\ KindOf[pending[k][i]] = k
    BY <1>1 DEF QueueInv, Sorted, TypeOK
  <2> QED
    BY <2>1 DEF Queued, Members
<1>6. QueueInv'
  <2>1. Sorted(pending)'
    BY <1>1, <1>5 DEF QueueInv, Sorted
  <2>2. Sorted(batch)'
    BY <1>2 DEF Sorted
  <2> QED
    BY <1>1, <1>2, <1>4, <2>1, <2>2 DEF QueueInv, Submitted
<1>7. OnePlace'
  BY <1>1, <1>3, <1>4 DEF OnePlace
<1>8. OrderKept'
  BY <1>1 DEF OrderKept, Submitted
<1> QED
  BY <1>6, <1>7, <1>8

LEMMA QueueInit == Init => QueueInv /\ OnePlace /\ OrderKept
<1> SUFFICES ASSUME Init PROVE QueueInv /\ OnePlace /\ OrderKept
  OBVIOUS
<1>1. \A k \in Kinds : DOMAIN pending[k] = {} /\ DOMAIN batch[k] = {}
  BY DEF Init, NoRequests
<1>2. QueueInv
  BY <1>1 DEF Init, QueueInv, Sorted
<1>3. Queued = {} /\ Batched = {} /\ Submitted = {}
  BY MembersOfNone DEF Init, Queued, Batched, Submitted
<1> QED
  BY <1>2, <1>3 DEF Init, OnePlace, OrderKept

LEMMA QueueStep ==
  ASSUME IInv, [Next]_vars
  PROVE  QueueInv' /\ OnePlace' /\ OrderKept'
<1>1. batch = NoRequests \/ loop \in {"taken", "dispatch", "dispatchSend", "exit"}
  BY DEF IInv, QueueInv
<1> DEFINE Goal == QueueInv' /\ OnePlace' /\ OrderKept'
<1>2. Goal
  <2>1. ASSUME NEW c \in Clients, NEW r \in Requests, Submit(c, r) PROVE Goal
    BY <2>1, <1>1, QueuePush DEF Submit
  <2>2. ASSUME NEW r \in Requests, LoopSubmit(r) PROVE Goal
    BY <2>2, <1>1, QueuePush DEF LoopSubmit
  <2>3. ASSUME NEW c \in Clients, Unlock(c) PROVE Goal
    BY <2>3, <1>1, QueueUnchanged DEF Unlock, queueState
  <2>4. ASSUME NEW c \in Clients, Send(c) PROVE Goal
    BY <2>4, <1>1, QueueUnchanged DEF Send, queueState
  <2>5. ASSUME NEW k \in Kinds, Dispatch(k) PROVE Goal
    BY <2>5, QueueDispatch
  <2>6. CASE LoopStarts
    BY <2>6, <1>1, QueueUnchanged DEF LoopStarts, queueState
  <2>7. CASE LoopFailsToStart
    BY <2>7, <1>1, QueueUnchanged DEF LoopFailsToStart, queueState
  <2>8. CASE LoopSend
    BY <2>8, <1>1, QueueUnchanged DEF LoopSend, queueState
  <2>9. CASE Wake
    BY <2>9, <1>1, QueueUnchanged DEF Wake, queueState
  <2>10. CASE TryLockFails
    BY <2>10, <1>1, QueueUnchanged DEF TryLockFails, queueState
  <2>11. CASE TakeBatch
    BY <2>11, QueueTake
  <2>12. CASE ReadWantExit
    BY <2>12, <1>1, QueueUnchanged DEF ReadWantExit, queueState
  <2>13. CASE DispatchEnds
    BY <2>13, <1>1, QueueUnchanged DEF DispatchEnds, queueState
  <2>14. CASE Exit
    BY <2>14, QueueExit
  <2>15. CASE LoopReturns
    BY <2>15, <1>1, QueueUnchanged DEF LoopReturns, queueState
  <2>16. CASE Constructed
    BY <2>16, <1>1, QueueUnchanged DEF Constructed, queueState
  <2>17. CASE ConstructorThrows
    BY <2>17, <1>1, QueueUnchanged DEF ConstructorThrows, queueState
  <2>18. CASE DestroyLocks
    BY <2>18, <1>1, QueueUnchanged DEF DestroyLocks, queueState
  <2>19. CASE DestroyTests
    BY <2>19, <1>1, QueueUnchanged DEF DestroyTests, queueState
  <2>20. CASE DestroySends
    BY <2>20, <1>1, QueueUnchanged DEF DestroySends, queueState
  <2>21. CASE DestroyUnlocks
    BY <2>21, <1>1, QueueUnchanged DEF DestroyUnlocks, queueState
  <2>22. CASE Join
    BY <2>22, <1>1, QueueUnchanged DEF Join, queueState
  <2>23. CASE Destroy
    BY <2>23, <1>1, QueueUnchanged DEF Destroy, queueState
  <2>24. CASE UNCHANGED vars
    BY <2>24, <1>1, QueueUnchanged DEF vars, queueState
  <2>25. QED
    BY <2>1, <2>2, <2>3, <2>4, <2>5, <2>6, <2>7, <2>8, <2>9, <2>10, <2>11, <2>12, <2>13, <2>14, <2>15, <2>16, <2>17, <2>18, <2>19, <2>20, <2>21, <2>22, <2>23, <2>24
       DEF Next, CallStep, LoopStep, OwnerStep, Ended
<1> QED
  BY <1>2

LEMMA Inductive == Spec => []IInv
<1>1. Init => IInv
  BY TypeInit, ControlInit, NoticeInit, QueueInit DEF IInv
<1>2. IInv /\ [Next]_vars => IInv'
  BY TypeStep, LockStep, PhaseStep, NoticeStep, QueueStep DEF IInv
<1> QED
  BY <1>1, <1>2, PTL DEF Spec

-----------------------------------------------------------------------------
(* The theorems.                                                           *)

\* Every variable of the request queue keeps its type.
THEOREM TypeCorrect == Spec => []TypeOK
<1>1. IInv => TypeOK
  BY DEF IInv
<1> QED
  BY <1>1, Inductive, PTL

\* However many threads call the pool, a request that was pushed and a
\* destructor that has begun always have a wakeup of the loop under way.
THEOREM WakeupsAreNotLost == Spec => []NoLostWakeup
<1>1. IInv => NoLostWakeup
  BY DEF IInv
<1> QED
  BY <1>1, Inductive, PTL

\* No call and no destructor ever dereferences m_wakeup after the loop reset it.
THEOREM WakeupIsAlive == Spec => []WakeupAlive
<1>1. IInv => WakeupAlive
  BY DEF IInv, TypeOK, PhaseInv, WakeupAlive, LoopPlaces, OwnerPlaces
<1> QED
  BY <1>1, Inductive, PTL

\* No request is lost or handled twice on its way through the deques.
THEOREM EveryRequestInOnePlace == Spec => []OnePlace
<1>1. IInv => OnePlace
  BY DEF IInv
<1> QED
  BY <1>1, Inductive, PTL

\* A request never overtakes one that it must come after.
THEOREM OrderIsKept == Spec => []OrderKept
<1>1. IInv => OrderKept
  BY DEF IInv
<1> QED
  BY <1>1, Inductive, PTL

\* The threads, the lock and the five deques implement the mailbox.
THEOREM ImplementsMailbox == Spec => MailboxImplemented
<1>1. Init => Mailbox!Init
  BY DEF Init, Mailbox!Init
<1>2. IInv /\ IInv' /\ [Next]_vars => [Mailbox!Next]_(Mailbox!vars)
  <2> SUFFICES ASSUME IInv, IInv', [Next]_vars
               PROVE  [Mailbox!Next]_(Mailbox!vars)
    OBVIOUS
  <2>1. ASSUME NEW r \in Requests, Push(r), UNCHANGED <<handled, wakeup>>,
               wakeup # "reset"
        PROVE  Mailbox!Submit(r)
    BY <2>1 DEF Push, Mailbox!Submit
  <2>2. ASSUME NEW c \in Clients, NEW r \in Requests, Submit(c, r)
        PROVE  Mailbox!Submit(r)
    BY <2>1, <2>2 DEF Submit, IInv, PhaseInv
  <2>3. ASSUME NEW r \in Requests, LoopSubmit(r)
        PROVE  Mailbox!Submit(r)
    BY <2>1, <2>3 DEF LoopSubmit, IInv, PhaseInv
  <2>4. ASSUME NEW k \in Kinds, Dispatch(k)
        PROVE  \E r \in Requests : Mailbox!Handle(r)
    <3> DEFINE r == Head(batch[k])
    <3>1. /\ r \in Batched /\ r \in Requests
          /\ \A q \in Submitted :
                stamp[q] < stamp[r] /\ KindOf[q] <= KindOf[r] => q \in handled
      BY <2>4, DispatchedIsNext
    <3>2. stamp[r] > 0 /\ r \notin handled
      BY <3>1 DEF IInv, OnePlace, Submitted
    <3>3. wakeup # "reset"
      BY <2>4 DEF Dispatch, IInv, PhaseInv
    <3>4. Mailbox!Before(r) \subseteq handled
      BY <3>1 DEF Mailbox!Before, Submitted, IInv, TypeOK
    <3>5. Mailbox!Handle(r)
      BY <2>4, <3>2, <3>3, <3>4 DEF Dispatch, Mailbox!Handle
    <3> QED
      BY <3>1, <3>5
  <2>5. ASSUME Exit PROVE Mailbox!CloseBox
    BY <2>5 DEF Exit, IInv, PhaseInv, Mailbox!CloseBox
  <2>6. CASE \/ LoopStep /\ ~Exit /\ ~(\E k \in Kinds : Dispatch(k))
             \/ CallStep \/ OwnerStep \/ Destroy \/ Ended \/ UNCHANGED vars
    <3>1. UNCHANGED <<clock, stamp, handled>>
      BY <2>6 DEF LoopStep, CallStep, OwnerStep, LoopStarts, LoopFailsToStart,
           LoopSend, Wake, TryLockFails, TakeBatch, ReadWantExit, DispatchEnds,
           LoopReturns, Unlock, Send, Constructed, ConstructorThrows, Destroy,
           DestroyLocks, DestroyTests, DestroySends, DestroyUnlocks, Join,
           Ended, vars
    <3>2. (wakeup = "reset") = (wakeup = "reset")'
      BY <2>6 DEF LoopStep, CallStep, OwnerStep, LoopStarts, LoopFailsToStart,
           LoopSend, Wake, TryLockFails, TakeBatch, ReadWantExit, DispatchEnds,
           LoopReturns, Unlock, Send, Constructed, ConstructorThrows, Destroy,
           DestroyLocks, DestroyTests, DestroySends, DestroyUnlocks, Join,
           Ended, vars, IInv, PhaseInv
    <3> QED
      BY <3>1, <3>2 DEF Mailbox!vars
  <2>7. \/ \E c \in Clients, r \in Requests : Submit(c, r)
        \/ \E r \in Requests : LoopSubmit(r)
        \/ \E k \in Kinds : Dispatch(k)
        \/ Exit
        \/ LoopStep /\ ~Exit /\ ~(\E k \in Kinds : Dispatch(k))
        \/ CallStep \/ OwnerStep \/ Destroy \/ Ended \/ UNCHANGED vars
    BY DEF Next
  <2> QED
    BY <2>2, <2>3, <2>4, <2>5, <2>6, <2>7 DEF Mailbox!Next
<1> QED
  BY <1>1, <1>2, Inductive, PTL DEF Spec, MailboxImplemented, Mailbox!Spec
=============================================================================
