----------------------------- MODULE WorkQueue -----------------------------
(***************************************************************************)
(* CworkQueue of work_queue.h: a deque of tasks under m_lock, a condition  *)
(* variable, and the workers that take tasks from the front and run them.  *)
(*                                                                         *)
(* Everything a thread does while it has m_lock is one step here: the      *)
(* deque, m_exit and the waiters change only under it.  A worker that is   *)
(* woken has to take the lock again, so it may find that another worker    *)
(* was faster, or that m_exit has been set.                                *)
(***************************************************************************)
EXTENDS Integers, Sequences, FiniteSets

CONSTANTS
    Workers,        \* the nThread threads of m_threads
    Tasks,          \* tasks, each one pushed at most once
    Nulls           \* the tasks that are null pointers

ASSUME WorkersAssumption == IsFiniteSet(Workers)
ASSUME NullsAssumption   == Nulls \subseteq Tasks

VARIABLES
    tasks,          \* m_tasks
    exit,           \* m_exit
    worker,         \* where each worker is
    owner,          \* where the thread that constructs and destroys the queue is
    pushed,         \* history: the tasks in the order of their pushTask
    taken           \* history: the tasks in the order getNext returned them

vars == <<tasks, exit, worker, owner, pushed, taken>>

Init ==
    /\ tasks = <<>>
    /\ exit = FALSE
    /\ worker = [w \in Workers |-> "unborn"]
    /\ owner = "spawning"
    /\ pushed = <<>>
    /\ taken = <<>>

In(place)  == {w \in Workers : worker[w] = place}
Waiting    == In("waiting")                 \* inside m_cv.wait
Contending == In("contending")              \* on the way to m_lock in getNext
Alive      == Waiting \union Contending \union In("running")

-----------------------------------------------------------------------------
(* The constructor.                                                        *)

Spawn(w) ==
    /\ owner = "spawning"
    /\ worker[w] = "unborn"
    /\ worker' = [worker EXCEPT ![w] = "contending"]
    /\ UNCHANGED <<tasks, exit, owner, pushed, taken>>

Constructed ==
    /\ owner = "spawning"
    /\ In("unborn") = {}
    /\ owner' = "built"
    /\ UNCHANGED <<tasks, exit, worker, pushed, taken>>

\* Mutant of SetExit: the flag without the notification.
SetExitSilently ==
    /\ exit' = TRUE
    /\ worker' = worker

\* Mutant of SetExit: the notification without the flag.
SetExitForgetsFlag ==
    /\ exit' = exit
    /\ worker' = [w \in Workers |-> IF w \in Waiting THEN "contending" ELSE worker[w]]

\* Mutant of SetExit: notify_one for notify_all.
SetExitNotifiesOne ==
    /\ exit' = TRUE
    /\ \/ \E w \in Waiting : worker' = [worker EXCEPT ![w] = "contending"]
       \/ Waiting = {} /\ worker' = worker

SetExit ==
    /\ exit' = TRUE
    /\ worker' = [w \in Workers |-> IF w \in Waiting THEN "contending" ELSE worker[w]]

\* std::thread cannot start another thread.
SpawnFails ==
    /\ owner = "spawning"
    /\ In("unborn") # {}
    /\ owner' = "unwinding"
    /\ SetExit
    /\ UNCHANGED <<tasks, pushed, taken>>

\* The thread has started and the vector cannot grow: the temporary is
\* destroyed while joinable.
SpawnTerminates ==
    /\ owner = "spawning"
    /\ In("unborn") # {}
    /\ owner' = "terminated"
    /\ UNCHANGED <<tasks, exit, worker, pushed, taken>>

-----------------------------------------------------------------------------
(* pushTask, by a client of the queue or by a task that runs.              *)

\* Mutant of PushTask: the last arrival is served first.
PushTaskInFront(t) ==
    /\ \A i \in DOMAIN pushed : pushed[i] # t
    /\ tasks' = <<t>> \o tasks
    /\ pushed' = Append(pushed, t)
    /\ \/ \E w \in Waiting : worker' = [worker EXCEPT ![w] = "contending"]
       \/ Waiting = {} /\ worker' = worker

\* Mutant of PushTask: only the push that finds the deque empty notifies.
PushTaskNotifiesFirst(t) ==
    /\ \A i \in DOMAIN pushed : pushed[i] # t
    /\ tasks' = Append(tasks, t)
    /\ pushed' = Append(pushed, t)
    /\ \/ tasks = <<>> /\ \E w \in Waiting : worker' = [worker EXCEPT ![w] = "contending"]
       \/ (tasks # <<>> \/ Waiting = {}) /\ worker' = worker

PushTask(t) ==
    /\ \A i \in DOMAIN pushed : pushed[i] # t
    /\ tasks' = Append(tasks, t)
    /\ pushed' = Append(pushed, t)
    /\ \/ \E w \in Waiting : worker' = [worker EXCEPT ![w] = "contending"]
       \/ Waiting = {} /\ worker' = worker

\* A client may call between the constructor and the destructor.
ClientPushes(t) ==
    /\ owner = "built"
    /\ PushTask(t)
    /\ UNCHANGED <<exit, owner, taken>>

TaskPushes(w, t) ==
    /\ worker[w] = "running"
    /\ PushTask(t)
    /\ UNCHANGED <<exit, owner, taken>>

-----------------------------------------------------------------------------
(* worker and getNext.                                                     *)

GetNextExits(w) ==
    /\ worker[w] = "contending"
    /\ exit
    /\ worker' = [worker EXCEPT ![w] = "dead"]
    /\ UNCHANGED <<tasks, exit, owner, pushed, taken>>

\* Mutant of GetNextWaits: the deque was tested before m_lock was taken.
GetNextWaitsAnyway(w) ==
    /\ worker[w] = "contending"
    /\ worker' = [worker EXCEPT ![w] = "waiting"]
    /\ UNCHANGED <<tasks, exit, owner, pushed, taken>>

GetNextWaits(w) ==
    /\ worker[w] = "contending"
    /\ ~exit
    /\ tasks = <<>>
    /\ worker' = [worker EXCEPT ![w] = "waiting"]
    /\ UNCHANGED <<tasks, exit, owner, pushed, taken>>

\* Mutant of GetNextTakes: the task is moved from, and stays on the deque.
GetNextPeeks(w) ==
    /\ worker[w] = "contending"
    /\ ~exit
    /\ tasks # <<>>
    /\ taken' = Append(taken, Head(tasks))
    /\ worker' = [worker EXCEPT ![w] = IF Head(tasks) \in Nulls THEN "dead" ELSE "running"]
    /\ UNCHANGED <<tasks, exit, owner, pushed>>

\* A null task ends the worker that takes it.
GetNextTakes(w) ==
    /\ worker[w] = "contending"
    /\ ~exit
    /\ tasks # <<>>
    /\ taken' = Append(taken, Head(tasks))
    /\ tasks' = Tail(tasks)
    /\ worker' = [worker EXCEPT ![w] = IF Head(tasks) \in Nulls THEN "dead" ELSE "running"]
    /\ UNCHANGED <<exit, owner, pushed>>

\* Mutant of WakesForNothing: the wait is not in a loop, and getNext returns
\* a null task to the worker.
WakesForGood(w) ==
    /\ worker[w] = "waiting"
    /\ worker' = [worker EXCEPT ![w] = "dead"]
    /\ UNCHANGED <<tasks, exit, owner, pushed, taken>>

WakesForNothing(w) ==
    /\ worker[w] = "waiting"
    /\ worker' = [worker EXCEPT ![w] = "contending"]
    /\ UNCHANGED <<tasks, exit, owner, pushed, taken>>

RunReturns(w) ==
    /\ worker[w] = "running"
    /\ worker' = [worker EXCEPT ![w] = "contending"]
    /\ UNCHANGED <<tasks, exit, owner, pushed, taken>>

-----------------------------------------------------------------------------
(* The destructor, and the end of a constructor that failed.               *)

Destroy ==
    /\ owner = "built"
    /\ owner' = "joining"
    /\ SetExit
    /\ UNCHANGED <<tasks, pushed, taken>>

AllJoined == Alive = {}

\* m_tasks is destroyed, with the tasks that nobody took.
Destroyed ==
    /\ owner = "joining"
    /\ AllJoined
    /\ owner' = "gone"
    /\ UNCHANGED <<tasks, exit, worker, pushed, taken>>

Rethrows ==
    /\ owner = "unwinding"
    /\ AllJoined
    /\ owner' = "thrown"
    /\ UNCHANGED <<tasks, exit, worker, pushed, taken>>

-----------------------------------------------------------------------------
GetNext(w) == GetNextExits(w) \/ GetNextWaits(w) \/ GetNextTakes(w)
OwnerStep  == Constructed \/ Destroyed \/ Rethrows \/ \E w \in Workers : Spawn(w)

\* std::terminate ends every thread.
Next ==
    /\ owner # "terminated"
    /\ \/ \E w \in Workers : GetNext(w) \/ RunReturns(w) \/ WakesForNothing(w)
       \/ \E w \in Workers, t \in Tasks : TaskPushes(w, t)
       \/ \E t \in Tasks : ClientPushes(t)
       \/ OwnerStep \/ SpawnFails \/ SpawnTerminates \/ Destroy

Spec == Init /\ [][Next]_vars

\* The scheduler runs every thread, and tasks return; a push, a spurious
\* wakeup and the destructor may never come.
Fairness == /\ \A w \in Workers : WF_vars(GetNext(w)) /\ WF_vars(RunReturns(w))
            /\ WF_vars(OwnerStep)
FairSpec == Spec /\ Fairness

-----------------------------------------------------------------------------
(* Properties.                                                             *)

Places      == {"unborn", "contending", "waiting", "running", "dead"}
OwnerPlaces == {"spawning", "built", "joining", "gone", "unwinding", "thrown", "terminated"}

\* Every variable has its type, and m_exit is set from the moment the owner
\* begins to end the queue.
TypeOK ==
    /\ tasks \in Seq(Tasks)
    /\ exit \in BOOLEAN
    /\ worker \in [Workers -> Places]
    /\ owner \in OwnerPlaces
    /\ exit <=> owner \in {"joining", "gone", "unwinding", "thrown"}
    /\ pushed \in Seq(Tasks)
    /\ taken \in Seq(Tasks)

\* notify_one is enough: as long as a worker sleeps and the queue is in
\* service, every task on the deque has a worker of its own on the way to
\* it, however many pushes, spurious wakeups and overtakings there were.
NoLostNotify ==
    Waiting # {} /\ ~exit => Len(tasks) <= Cardinality(Contending)

\* A task is taken once and in the order of the pushes, whichever thread
\* pushes and whichever worker takes; what was not taken is on the deque.
TakenInOrder == pushed = taken \o tasks

\* After m_exit is set no worker is asleep, or ever sleeps again: this is
\* what the join of the destructor relies on.
NobodySleepsThroughExit == exit => Waiting = {}

\* A task on the deque of a queue in service has a worker that will come to
\* it, on the way to the lock or in a task after which it goes there, unless
\* clients have pushed a null task for every worker: no worker is lost to a
\* wakeup for nothing, nor to one after which another worker was faster.
NullsTaken    == {i \in DOMAIN taken : taken[i] \in Nulls}
NeverDeserted ==
    owner = "built" /\ tasks # <<>> =>
        \/ Contending # {}
        \/ In("running") # {}
        \/ Cardinality(NullsTaken) = Cardinality(Workers)

\* Every task that is pushed is taken by a worker, when tasks return, unless
\* the queue is being destroyed or null tasks have ended all the workers.
EveryTaskTaken ==
    \A t \in Tasks : (\E i \in DOMAIN pushed : pushed[i] = t)
                       ~> \/ exit \/ In("dead") = Workers
                          \/ \E i \in DOMAIN taken : taken[i] = t

\* The constructor of the queue ends, and so does the destructor once it has
\* been called.
OwnerReturns == owner \in {"spawning", "unwinding", "joining"}
                  ~> owner \in {"built", "gone", "thrown", "terminated"}
=============================================================================
