-------------------------- MODULE WorkQueueProofs --------------------------
(***************************************************************************)
(* Proofs about WorkQueue, for any finite set of workers and any tasks.    *)
(*                                                                         *)
(* NoLostNotify counts the workers that are on the way to the lock, so its *)
(* proof follows how each step changes Contending.  NeverDeserted is not   *)
(* inductive: it follows from NoLostNotify, and from an account of the     *)
(* workers that have ended (WorkersStay) and of those not started.         *)
(***************************************************************************)
EXTENDS WorkQueue, FiniteSetTheorems, SequenceTheorems, TLAPS

\* Only a null task ends a worker of a queue in service, and it ends one.
WorkersStay == ~exit => Cardinality(In("dead")) = Cardinality(NullsTaken)

\* A client finds all the workers started.
AllStarted == owner = "built" => In("unborn") = {}

IInv == /\ TypeOK
        /\ NoLostNotify /\ TakenInOrder /\ NobodySleepsThroughExit
        /\ WorkersStay /\ AllStarted

\* A step of one worker.
Moves(w, place) == worker' = [worker EXCEPT ![w] = place]

-----------------------------------------------------------------------------
(* Counting the workers on the way to the lock.                            *)

LEMMA ContendingFinite ==
    /\ IsFiniteSet(Contending)
    /\ Cardinality(Contending) \in Nat
<1>1. Contending \subseteq Workers BY DEF Contending, In
<1>2. IsFiniteSet(Contending) BY <1>1, WorkersAssumption, FS_Subset
<1> QED BY <1>2, FS_CardinalityType

\* A worker that was elsewhere is now on its way to the lock.
LEMMA Arrives ==
    ASSUME TypeOK, NEW w \in Workers, worker[w] # "contending", Moves(w, "contending")
    PROVE  /\ Contending' = Contending \union {w}
           /\ Cardinality(Contending') = Cardinality(Contending) + 1
           /\ Waiting' \subseteq Waiting
<1>1. Contending' = Contending \union {w} BY DEF TypeOK, Moves, Contending, In
<1>2. w \notin Contending BY DEF Contending, In
<1>3. Waiting' \subseteq Waiting BY DEF TypeOK, Moves, Waiting, In
<1> QED BY <1>1, <1>2, <1>3, ContendingFinite, FS_AddElement

\* A worker that had the lock goes elsewhere.
LEMMA Leaves ==
    ASSUME TypeOK, NEW w \in Workers, NEW place, place # "contending",
           worker[w] = "contending", Moves(w, place)
    PROVE  Cardinality(Contending') = Cardinality(Contending) - 1
<1>1. Contending' = Contending \ {w} BY DEF TypeOK, Moves, Contending, In
<1>2. w \in Contending BY DEF Contending, In
<1> QED BY <1>1, <1>2, ContendingFinite, FS_RemoveElement

\* pushTask wakes a worker if one sleeps, and nothing else happens to them.
LEMMA PushWakes ==
    ASSUME TypeOK, NEW t \in Tasks, PushTask(t)
    PROVE  /\ Waiting' \subseteq Waiting
           /\ Waiting # {} =>
                Cardinality(Contending') = Cardinality(Contending) + 1
           /\ worker' \in [Workers -> Places]
           /\ In("dead")' = In("dead") /\ In("unborn")' = In("unborn")
<1>1. CASE \E w \in Waiting : worker' = [worker EXCEPT ![w] = "contending"]
  <2>1. PICK w \in Waiting : worker' = [worker EXCEPT ![w] = "contending"] BY <1>1
  <2>2. w \in Workers /\ worker[w] = "waiting" BY DEF Waiting, In
  <2>3. /\ Cardinality(Contending') = Cardinality(Contending) + 1
        /\ Waiting' \subseteq Waiting
    BY <2>1, <2>2, Arrives DEF Moves
  <2>4. worker' \in [Workers -> Places] BY <2>1 DEF TypeOK, Places
  <2>5. In("dead")' = In("dead") /\ In("unborn")' = In("unborn")
    BY <2>1, <2>2 DEF TypeOK, In
  <2> QED BY <2>3, <2>4, <2>5
<1>2. CASE Waiting = {} /\ worker' = worker
  <2>1. Waiting' = Waiting BY <1>2 DEF Waiting, In
  <2>2. In("dead")' = In("dead") /\ In("unborn")' = In("unborn") BY <1>2 DEF In
  <2> QED BY <1>2, <2>1, <2>2 DEF TypeOK
<1> QED BY <1>1, <1>2 DEF PushTask

-----------------------------------------------------------------------------
(* Sequences.                                                              *)

LEMMA AppendToSecond ==
    \A s, t \in Seq(Tasks), e \in Tasks : s \o Append(t, e) = Append(s \o t, e)
<1> SUFFICES ASSUME NEW s \in Seq(Tasks), NEW t \in Seq(Tasks), NEW e \in Tasks
             PROVE  s \o Append(t, e) = Append(s \o t, e)
  OBVIOUS
<1>1. s \o t \in Seq(Tasks) /\ <<e>> \in Seq(Tasks) BY ConcatProperties
<1>2. Append(s \o t, e) = (s \o t) \o <<e>> BY <1>1, AppendIsConcat
<1>3. Append(t, e) = t \o <<e>> BY AppendIsConcat
<1> QED BY <1>1, <1>2, <1>3, ConcatAssociative

LEMMA MoveHead ==
    ASSUME NEW S, NEW s \in Seq(S), NEW t \in Seq(S), t # <<>>
    PROVE  Append(s, Head(t)) \o Tail(t) = s \o t
<1>1. Head(t) \in S /\ Tail(t) \in Seq(S) BY HeadTailProperties
<1>2. <<Head(t)>> \in Seq(S) BY <1>1
<1>3. Append(s, Head(t)) = s \o <<Head(t)>> BY <1>1, AppendIsConcat
<1>4. <<Head(t)>> \o Tail(t) = t
  <2>1. /\ <<Head(t)>> \o Tail(t) \in Seq(S)
        /\ Len(<<Head(t)>> \o Tail(t)) = 1 + Len(Tail(t))
        /\ \A i \in 1 .. 1 + Len(Tail(t)) :
              (<<Head(t)>> \o Tail(t))[i] = IF i <= 1 THEN <<Head(t)>>[i]
                                                      ELSE Tail(t)[i - 1]
    BY <1>1, <1>2, ConcatProperties
  <2>2. /\ Len(t) \in Nat /\ Len(t) > 0 /\ Len(Tail(t)) = Len(t) - 1
        /\ \A i \in 1 .. Len(Tail(t)) : Tail(t)[i] = t[i + 1]
    BY HeadTailProperties, EmptySeq
  <2>3. Head(t) = t[1] OBVIOUS
  <2>4. \A i \in 1 .. Len(t) : (<<Head(t)>> \o Tail(t))[i] = t[i]
    <3> SUFFICES ASSUME NEW i \in 1 .. Len(t)
                 PROVE  (<<Head(t)>> \o Tail(t))[i] = t[i]
      OBVIOUS
    <3>1. CASE i = 1 BY <3>1, <2>1, <2>2, <2>3
    <3>2. CASE i # 1
      <4>1. i - 1 \in 1 .. Len(Tail(t)) BY <3>2, <2>2
      <4>2. (<<Head(t)>> \o Tail(t))[i] = Tail(t)[i - 1] BY <3>2, <2>1, <2>2
      <4>3. Tail(t)[i - 1] = t[(i - 1) + 1] BY <4>1, <2>2
      <4> QED BY <4>2, <4>3
    <3> QED BY <3>1, <3>2
  <2> QED BY <2>1, <2>2, <2>4, SeqEqual
<1> QED BY <1>1, <1>2, <1>3, <1>4, ConcatAssociative

-----------------------------------------------------------------------------
(* Init and the steps.                                                     *)

LEMMA InitIInv == Init => IInv
<1> SUFFICES ASSUME Init PROVE IInv
  OBVIOUS
<1>1. TypeOK
  BY EmptySeq DEF Init, TypeOK, Places, OwnerPlaces
<1>2. Waiting = {} BY DEF Init, Waiting, In
<1>3. TakenInOrder BY ConcatEmptySeq, EmptySeq DEF Init, TakenInOrder
<1>4. In("dead") = {} BY DEF Init, In
<1>5. NullsTaken = {} BY EmptySeq DEF Init, NullsTaken
<1>6. WorkersStay BY <1>4, <1>5 DEF WorkersStay
<1>7. AllStarted BY DEF Init, AllStarted
<1> QED BY <1>1, <1>2, <1>3, <1>6, <1>7 DEF IInv, NoLostNotify, NobodySleepsThroughExit

\* setExit leaves nobody asleep and nobody new alive.
LEMMA SetExitWakes ==
    ASSUME TypeOK, SetExit
    PROVE  exit' = TRUE /\ worker' \in [Workers -> Places] /\ Waiting' = {}
  BY DEF TypeOK, SetExit, Places, Waiting, In

LEMMA TypeStep == IInv /\ [Next]_vars => TypeOK'
<1> SUFFICES ASSUME TypeOK, [Next]_vars PROVE TypeOK'
  BY DEF IInv
<1>0. CASE UNCHANGED vars BY <1>0 DEF vars, TypeOK
<1>1. ASSUME NEW w \in Workers, GetNext(w) \/ RunReturns(w) \/ WakesForNothing(w)
      PROVE  TypeOK'
  <2>1. CASE GetNextTakes(w)
    <3>1. Head(tasks) \in Tasks /\ Tail(tasks) \in Seq(Tasks)
      BY <2>1, HeadTailProperties DEF GetNextTakes, TypeOK
    <3>2. Append(taken, Head(tasks)) \in Seq(Tasks)
      BY <3>1, AppendProperties DEF TypeOK
    <3>3. worker' \in [Workers -> Places]
      BY <2>1 DEF GetNextTakes, TypeOK, Places
    <3> QED BY <2>1, <3>1, <3>2, <3>3 DEF GetNextTakes, TypeOK
  <2>2. CASE GetNextExits(w) BY <2>2 DEF GetNextExits, TypeOK, Places
  <2>3. CASE GetNextWaits(w) BY <2>3 DEF GetNextWaits, TypeOK, Places
  <2>4. CASE RunReturns(w) BY <2>4 DEF RunReturns, TypeOK, Places
  <2>5. CASE WakesForNothing(w) BY <2>5 DEF WakesForNothing, TypeOK, Places
  <2> QED BY <1>1, <2>1, <2>2, <2>3, <2>4, <2>5 DEF GetNext
<1>2. ASSUME NEW t \in Tasks, PushTask(t), UNCHANGED <<exit, owner, taken>>
      PROVE  TypeOK'
  <2>1. worker' \in [Workers -> Places] BY <1>2, PushWakes
  <2>2. tasks' \in Seq(Tasks) /\ pushed' \in Seq(Tasks)
    BY <1>2, AppendProperties DEF PushTask, TypeOK
  <2> QED BY <1>2, <2>1, <2>2 DEF TypeOK
<1>3. ASSUME NEW w \in Workers, Spawn(w) PROVE TypeOK'
  BY <1>3 DEF Spawn, TypeOK, Places
<1>4. CASE Constructed BY <1>4 DEF Constructed, TypeOK, OwnerPlaces
<1>5. CASE Destroyed BY <1>5 DEF Destroyed, TypeOK, OwnerPlaces
<1>6. CASE Rethrows BY <1>6 DEF Rethrows, TypeOK, OwnerPlaces
<1>7. CASE SpawnFails BY <1>7, SetExitWakes DEF SpawnFails, TypeOK, OwnerPlaces
<1>8. CASE SpawnTerminates BY <1>8 DEF SpawnTerminates, TypeOK, OwnerPlaces
<1>9. CASE Destroy BY <1>9, SetExitWakes DEF Destroy, TypeOK, OwnerPlaces
<1> QED BY <1>0, <1>1, <1>2, <1>3, <1>4, <1>5, <1>6, <1>7, <1>8, <1>9
        DEF Next, TaskPushes, ClientPushes, OwnerStep

\* A step that adds no task and takes no worker from the way to the lock.
LEMMA NotifyKept ==
    ASSUME TypeOK, NoLostNotify, tasks' = tasks, exit' = exit,
           Waiting' \subseteq Waiting,
           Cardinality(Contending') \in Nat,
           Cardinality(Contending) <= Cardinality(Contending')
    PROVE  NoLostNotify'
<1>1. Cardinality(Contending) \in Nat BY ContendingFinite
<1>2. Len(tasks) \in Nat BY LenProperties DEF TypeOK
<1> QED BY <1>1, <1>2 DEF NoLostNotify

LEMMA NotifyStep == IInv /\ [Next]_vars => NoLostNotify'
<1> SUFFICES ASSUME TypeOK, NoLostNotify, [Next]_vars PROVE NoLostNotify'
  BY DEF IInv
<1>a. Cardinality(Contending) \in Nat BY ContendingFinite
<1>b. Len(tasks) \in Nat BY LenProperties DEF TypeOK
<1>0. ASSUME worker' = worker, tasks' = tasks, exit' = exit PROVE NoLostNotify'
  <2>1. Waiting' = Waiting /\ Contending' = Contending
    BY <1>0 DEF Waiting, Contending, In
  <2> QED BY <1>0, <1>a, <2>1, NotifyKept
<1>1. ASSUME NEW w \in Workers, worker[w] # "contending", Moves(w, "contending"),
             tasks' = tasks, exit' = exit
      PROVE  NoLostNotify'
  <2>1. /\ Cardinality(Contending') = Cardinality(Contending) + 1
        /\ Waiting' \subseteq Waiting
    BY <1>1, Arrives
  <2> QED BY <1>1, <1>a, <2>1, NotifyKept
<1>2. ASSUME NEW w \in Workers, GetNextTakes(w) PROVE NoLostNotify'
  <2> DEFINE place == IF Head(tasks) \in Nulls THEN "dead" ELSE "running"
  <2>1. place # "contending" /\ place # "waiting" OBVIOUS
  <2>2. worker[w] = "contending" /\ Moves(w, place) /\ exit' = exit
    BY <1>2 DEF GetNextTakes, Moves
  <2> HIDE DEF place
  <2>3. Cardinality(Contending') = Cardinality(Contending) - 1
    BY <2>1, <2>2, Leaves
  <2>4. Waiting' = Waiting
    BY <2>1, <2>2 DEF Moves, TypeOK, Waiting, In
  <2>5. Len(tasks') = Len(tasks) - 1
    BY <1>2, HeadTailProperties DEF GetNextTakes, TypeOK
  <2> QED BY <1>a, <1>b, <2>2, <2>3, <2>4, <2>5 DEF NoLostNotify
<1>3. ASSUME NEW w \in Workers, GetNextWaits(w) PROVE NoLostNotify'
  <2>1. worker[w] = "contending" /\ Moves(w, "waiting") /\ tasks' = <<>>
    BY <1>3 DEF GetNextWaits, Moves
  <2>2. Contending' \subseteq Workers /\ IsFiniteSet(Contending')
    <3>1. Contending' \subseteq Workers BY DEF Contending, In
    <3> QED BY <3>1, WorkersAssumption, FS_Subset
  <2>3. Cardinality(Contending') \in Nat BY <2>2, FS_CardinalityType
  <2>4. Len(tasks') = 0 BY <2>1, EmptySeq
  <2> QED BY <2>3, <2>4 DEF NoLostNotify
<1>4. ASSUME NEW t \in Tasks, PushTask(t), exit' = exit PROVE NoLostNotify'
  <2>1. /\ Waiting' \subseteq Waiting
        /\ Waiting # {} => Cardinality(Contending') = Cardinality(Contending) + 1
    BY <1>4, PushWakes
  <2>2. Len(tasks') = Len(tasks) + 1
    BY <1>4, AppendProperties DEF PushTask, TypeOK
  <2> QED BY <1>4, <1>a, <1>b, <2>1, <2>2 DEF NoLostNotify
<1>5. ASSUME SetExit PROVE NoLostNotify'
  BY <1>5, SetExitWakes DEF NoLostNotify
<1>6. ASSUME NEW w \in Workers, GetNextExits(w) PROVE NoLostNotify'
  BY <1>6 DEF GetNextExits, NoLostNotify
<1>7. ASSUME NEW w \in Workers, GetNext(w) \/ RunReturns(w) \/ WakesForNothing(w) \/ Spawn(w)
      PROVE  NoLostNotify'
  BY <1>1, <1>2, <1>3, <1>6, <1>7
     DEF GetNext, RunReturns, WakesForNothing, Spawn, Moves
<1>8. CASE UNCHANGED vars BY <1>8, <1>0 DEF vars
<1>9. CASE Constructed \/ Destroyed \/ Rethrows \/ SpawnTerminates
  BY <1>9, <1>0 DEF Constructed, Destroyed, Rethrows, SpawnTerminates
<1> QED BY <1>4, <1>5, <1>7, <1>8, <1>9
        DEF Next, TaskPushes, ClientPushes, OwnerStep, SpawnFails, Destroy

LEMMA OrderStep == IInv /\ [Next]_vars => TakenInOrder'
<1> SUFFICES ASSUME TypeOK, TakenInOrder, [Next]_vars PROVE TakenInOrder'
  BY DEF IInv
<1>0. ASSUME UNCHANGED <<tasks, pushed, taken>> PROVE TakenInOrder'
  BY <1>0 DEF TakenInOrder
<1>1. ASSUME NEW w \in Workers, GetNextTakes(w) PROVE TakenInOrder'
  BY <1>1, MoveHead DEF GetNextTakes, TakenInOrder, TypeOK
<1>2. ASSUME NEW t \in Tasks, PushTask(t), taken' = taken PROVE TakenInOrder'
  <2>1. /\ taken \in Seq(Tasks) /\ tasks \in Seq(Tasks) /\ pushed = taken \o tasks
        /\ tasks' = Append(tasks, t) /\ pushed' = Append(pushed, t)
    BY <1>2 DEF PushTask, TakenInOrder, TypeOK
  <2>2. Append(taken \o tasks, t) = taken \o Append(tasks, t)
    BY <2>1, AppendToSecond
  <2> QED BY <1>2, <2>1, <2>2 DEF TakenInOrder
<1> QED BY <1>0, <1>1, <1>2
        DEF Next, vars, TaskPushes, ClientPushes, OwnerStep, Constructed, Destroyed,
            Rethrows, SpawnFails, SpawnTerminates, Destroy, Spawn, GetNext, GetNextExits,
            GetNextWaits, RunReturns, WakesForNothing

LEMMA SleepStep == IInv /\ [Next]_vars => NobodySleepsThroughExit'
<1> SUFFICES ASSUME TypeOK, NobodySleepsThroughExit, [Next]_vars
             PROVE  NobodySleepsThroughExit'
  BY DEF IInv
<1>0. ASSUME Waiting' \subseteq Waiting, exit' = exit PROVE NobodySleepsThroughExit'
  BY <1>0 DEF NobodySleepsThroughExit
<1>1. ASSUME NEW w \in Workers, NEW place, place # "waiting", Moves(w, place), exit' = exit
      PROVE  NobodySleepsThroughExit'
  <2>1. Waiting' \subseteq Waiting BY <1>1 DEF Moves, TypeOK, Waiting, In
  <2> QED BY <1>0, <1>1, <2>1
<1>2. ASSUME NEW w \in Workers, GetNextWaits(w) PROVE NobodySleepsThroughExit'
  BY <1>2 DEF GetNextWaits, NobodySleepsThroughExit
<1>3. ASSUME NEW t \in Tasks, PushTask(t), exit' = exit PROVE NobodySleepsThroughExit'
  BY <1>0, <1>3, PushWakes
<1>4. ASSUME SetExit PROVE NobodySleepsThroughExit'
  BY <1>4, SetExitWakes DEF NobodySleepsThroughExit
<1>5. ASSUME worker' = worker, exit' = exit PROVE NobodySleepsThroughExit'
  <2>1. Waiting' = Waiting BY <1>5 DEF Waiting, In
  <2> QED BY <1>0, <1>5, <2>1
<1>6. ASSUME NEW w \in Workers, GetNextTakes(w) PROVE NobodySleepsThroughExit'
  <2> DEFINE place == IF Head(tasks) \in Nulls THEN "dead" ELSE "running"
  <2>1. place # "waiting" OBVIOUS
  <2>2. Moves(w, place) /\ exit' = exit BY <1>6 DEF GetNextTakes, Moves
  <2> HIDE DEF place
  <2> QED BY <1>1, <2>1, <2>2
<1>7. ASSUME NEW w \in Workers, GetNext(w) \/ RunReturns(w) \/ WakesForNothing(w) \/ Spawn(w)
      PROVE  NobodySleepsThroughExit'
  BY <1>1, <1>2, <1>6, <1>7
     DEF GetNext, GetNextExits, RunReturns, WakesForNothing, Spawn, Moves
<1>8. CASE UNCHANGED vars \/ Constructed \/ Destroyed \/ Rethrows \/ SpawnTerminates
  BY <1>8, <1>5 DEF vars, Constructed, Destroyed, Rethrows, SpawnTerminates
<1> QED BY <1>3, <1>4, <1>7, <1>8
        DEF Next, TaskPushes, ClientPushes, OwnerStep, SpawnFails, Destroy

\* A task is taken, and the account of the null ones follows.
LEMMA TakesNull ==
    ASSUME TypeOK, NEW t \in Tasks, taken' = Append(taken, t)
    PROVE  /\ IsFiniteSet(NullsTaken) /\ Cardinality(NullsTaken) \in Nat
           /\ t \in Nulls => Cardinality(NullsTaken') = Cardinality(NullsTaken) + 1
           /\ t \notin Nulls => NullsTaken' = NullsTaken
<1> DEFINE n == Len(taken)
<1>1. n \in Nat /\ DOMAIN taken = 1 .. n BY LenProperties DEF TypeOK
<1>2. /\ DOMAIN taken' = 1 .. n + 1
      /\ \A i \in 1 .. n : taken'[i] = taken[i]
      /\ taken'[n + 1] = t
  <2>1. /\ Append(taken, t) \in Seq(Tasks)
        /\ Len(Append(taken, t)) = n + 1
        /\ \A i \in 1 .. n : Append(taken, t)[i] = taken[i]
        /\ Append(taken, t)[n + 1] = t
    BY AppendProperties DEF TypeOK
  <2> QED BY <2>1, LenProperties
<1> HIDE DEF n
<1>3. n + 1 \notin 1 .. n /\ 1 .. n + 1 = (1 .. n) \union {n + 1} BY <1>1
<1>4. NullsTaken = {i \in 1 .. n : taken[i] \in Nulls} BY <1>1 DEF NullsTaken
<1>5. NullsTaken' = {i \in (1 .. n) \union {n + 1} : taken'[i] \in Nulls}
  BY <1>2, <1>3 DEF NullsTaken
<1>6. IsFiniteSet(NullsTaken)
  <2>1. IsFiniteSet(1 .. n) BY <1>1, FS_Interval
  <2>2. NullsTaken \subseteq 1 .. n BY <1>4
  <2> QED BY <2>1, <2>2, FS_Subset
<1>7. Cardinality(NullsTaken) \in Nat BY <1>6, FS_CardinalityType
<1>8. ASSUME t \in Nulls PROVE Cardinality(NullsTaken') = Cardinality(NullsTaken) + 1
  <2>1. NullsTaken' = NullsTaken \union {n + 1} BY <1>2, <1>4, <1>5, <1>8
  <2>2. n + 1 \notin NullsTaken BY <1>3, <1>4
  <2> QED BY <1>6, <2>1, <2>2, FS_AddElement
<1>9. ASSUME t \notin Nulls PROVE NullsTaken' = NullsTaken
  BY <1>2, <1>3, <1>4, <1>5, <1>9
<1> QED BY <1>6, <1>7, <1>8, <1>9

LEMMA StayStep == IInv /\ [Next]_vars => WorkersStay'
<1> SUFFICES ASSUME TypeOK, WorkersStay, [Next]_vars PROVE WorkersStay'
  BY DEF IInv
<1>0. ASSUME In("dead")' = In("dead"), taken' = taken, exit' = exit PROVE WorkersStay'
  <2>1. NullsTaken' = NullsTaken BY <1>0 DEF NullsTaken
  <2> QED BY <1>0, <2>1 DEF WorkersStay
<1>1. ASSUME exit' = TRUE PROVE WorkersStay' BY <1>1 DEF WorkersStay
<1>2. ASSUME NEW w \in Workers, NEW place, place # "dead", worker[w] # "dead",
             Moves(w, place), taken' = taken, exit' = exit
      PROVE  WorkersStay'
  <2>1. In("dead")' = In("dead") BY <1>2 DEF Moves, TypeOK, In
  <2> QED BY <1>0, <1>2, <2>1
<1>3. ASSUME NEW w \in Workers, GetNextTakes(w) PROVE WorkersStay'
  <2> DEFINE t == Head(tasks)
  <2>1. t \in Tasks BY <1>3, HeadTailProperties DEF GetNextTakes, TypeOK
  <2>2. /\ worker[w] = "contending" /\ ~exit /\ exit' = exit
        /\ taken' = Append(taken, t)
        /\ Moves(w, IF t \in Nulls THEN "dead" ELSE "running")
    BY <1>3 DEF GetNextTakes, Moves
  <2> HIDE DEF t
  <2>3. Cardinality(In("dead")) = Cardinality(NullsTaken) BY <2>2 DEF WorkersStay
  <2>4. IsFiniteSet(In("dead"))
    <3>1. In("dead") \subseteq Workers BY DEF In
    <3> QED BY <3>1, WorkersAssumption, FS_Subset
  <2>5. CASE t \in Nulls
    <3>1. Cardinality(NullsTaken') = Cardinality(NullsTaken) + 1
      BY <2>1, <2>2, <2>5, TakesNull
    <3>2. Moves(w, "dead") BY <2>2, <2>5
    <3>3. In("dead")' = In("dead") \union {w} BY <3>2 DEF Moves, TypeOK, In
    <3>4. w \notin In("dead") BY <2>2 DEF In
    <3>5. Cardinality(In("dead")') = Cardinality(In("dead")) + 1
      BY <2>4, <3>3, <3>4, FS_AddElement
    <3> QED BY <2>3, <3>1, <3>5 DEF WorkersStay
  <2>6. CASE t \notin Nulls
    <3>1. NullsTaken' = NullsTaken BY <2>1, <2>2, <2>6, TakesNull
    <3>2. Moves(w, "running") BY <2>2, <2>6
    <3>3. In("dead")' = In("dead") BY <2>2, <3>2 DEF Moves, TypeOK, In
    <3> QED BY <2>3, <3>1, <3>3 DEF WorkersStay
  <2> QED BY <2>5, <2>6
<1>4. ASSUME NEW w \in Workers, GetNextExits(w) PROVE WorkersStay'
  BY <1>4 DEF GetNextExits, WorkersStay
<1>5. ASSUME NEW t \in Tasks, PushTask(t), UNCHANGED <<exit, taken>> PROVE WorkersStay'
  BY <1>0, <1>5, PushWakes
<1>6. ASSUME NEW w \in Workers, GetNext(w) \/ RunReturns(w) \/ WakesForNothing(w) \/ Spawn(w)
      PROVE  WorkersStay'
  BY <1>2, <1>3, <1>4, <1>6
     DEF GetNext, GetNextWaits, RunReturns, WakesForNothing, Spawn, Moves
<1>7. ASSUME worker' = worker, taken' = taken, exit' = exit PROVE WorkersStay'
  <2>1. In("dead")' = In("dead") BY <1>7 DEF In
  <2> QED BY <1>0, <1>7, <2>1
<1>8. CASE UNCHANGED vars \/ Constructed \/ Destroyed \/ Rethrows \/ SpawnTerminates
  BY <1>7, <1>8 DEF vars, Constructed, Destroyed, Rethrows, SpawnTerminates
<1>9. ASSUME SetExit PROVE WorkersStay' BY <1>1, <1>9, SetExitWakes
<1> QED BY <1>5, <1>6, <1>8, <1>9
        DEF Next, TaskPushes, ClientPushes, OwnerStep, SpawnFails, Destroy

LEMMA StartedStep == IInv /\ [Next]_vars => AllStarted'
<1> SUFFICES ASSUME TypeOK, AllStarted, [Next]_vars PROVE AllStarted'
  BY DEF IInv
<1>1. ASSUME NEW w \in Workers, NEW place, place # "unborn", Moves(w, place), owner' = owner
      PROVE  AllStarted'
  <2>1. In("unborn")' \subseteq In("unborn") BY <1>1 DEF Moves, TypeOK, In
  <2> QED BY <1>1, <2>1 DEF AllStarted
<1>2. ASSUME NEW w \in Workers, GetNextTakes(w) PROVE AllStarted'
  <2> DEFINE place == IF Head(tasks) \in Nulls THEN "dead" ELSE "running"
  <2>1. place # "unborn" OBVIOUS
  <2>2. Moves(w, place) /\ owner' = owner BY <1>2 DEF GetNextTakes, Moves
  <2> HIDE DEF place
  <2> QED BY <1>1, <2>1, <2>2
<1>3. ASSUME NEW w \in Workers, GetNext(w) \/ RunReturns(w) \/ WakesForNothing(w) \/ Spawn(w)
      PROVE  AllStarted'
  BY <1>1, <1>2, <1>3
     DEF GetNext, GetNextExits, GetNextWaits, RunReturns, WakesForNothing, Spawn, Moves
<1>4. ASSUME NEW t \in Tasks, PushTask(t), owner' = owner PROVE AllStarted'
  BY <1>4, PushWakes DEF AllStarted
<1>5. ASSUME owner' # "built" PROVE AllStarted' BY <1>5 DEF AllStarted
<1>6. CASE Constructed
  BY <1>6 DEF Constructed, AllStarted, In
<1>7. CASE UNCHANGED vars BY <1>7 DEF vars, AllStarted, In
<1> QED BY <1>3, <1>4, <1>5, <1>6, <1>7
        DEF Next, TaskPushes, ClientPushes, OwnerStep, Destroyed, Rethrows, SpawnFails,
            SpawnTerminates, Destroy

\* If nobody is on the way to a task then nobody sleeps either, and all the
\* workers have ended.
LEMMA Deserted == IInv => NeverDeserted
<1> SUFFICES ASSUME TypeOK, NoLostNotify, WorkersStay, AllStarted,
                    owner = "built", tasks # <<>>, Contending = {}, In("running") = {}
             PROVE  Cardinality(NullsTaken) = Cardinality(Workers)
  BY DEF IInv, NeverDeserted
<1>1. ~exit BY DEF TypeOK
<1>2. Len(tasks) \in Nat /\ Len(tasks) > 0 BY EmptySeq, LenProperties DEF TypeOK
<1>3. Cardinality(Contending) = 0 BY FS_EmptySet
<1>4. Waiting = {} BY <1>1, <1>2, <1>3 DEF NoLostNotify
<1>5. In("unborn") = {} BY DEF AllStarted
<1>6. In("dead") = Workers
  BY <1>4, <1>5 DEF TypeOK, Places, Waiting, Contending, In
<1> QED BY <1>1, <1>6 DEF WorkersStay

LEMMA Inductive == Spec => []IInv
<1>1. IInv /\ [Next]_vars => IInv'
  BY TypeStep, NotifyStep, OrderStep, SleepStep, StayStep, StartedStep DEF IInv
<1> QED BY <1>1, InitIInv, PTL DEF Spec

-----------------------------------------------------------------------------
(* The theorems.                                                           *)

\* The deque, the flag, the workers and the owner keep their types, and
\* m_exit is set exactly from the start of the end of the queue.
THEOREM TypeCorrect == Spec => []TypeOK
<1>1. IInv => TypeOK BY DEF IInv
<1> QED BY <1>1, Inductive, PTL

\* However many workers there are, no task waits on the deque behind a
\* worker that sleeps: pushTask may use notify_one.
THEOREM NotifyIsNotLost == Spec => []NoLostNotify
<1>1. IInv => NoLostNotify BY DEF IInv
<1> QED BY <1>1, Inductive, PTL

\* However many threads push and take, getNext hands the tasks out in the
\* order of pushTask, each one once.
THEOREM OrderOfTasks == Spec => []TakenInOrder
<1>1. IInv => TakenInOrder BY DEF IInv
<1> QED BY <1>1, Inductive, PTL

\* setExit leaves no worker asleep, so that the join can return.
THEOREM ExitWakesAll == Spec => []NobodySleepsThroughExit
<1>1. IInv => NobodySleepsThroughExit BY DEF IInv
<1> QED BY <1>1, Inductive, PTL

\* However many workers there are, and whatever wakeups for nothing and
\* overtakings there were, a task on the deque has a worker that will come to
\* it unless a null task was taken for every worker.
THEOREM TasksAreServed == Spec => []NeverDeserted
<1> QED BY Deserted, Inductive, PTL
=============================================================================
