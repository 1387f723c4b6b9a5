---------------------------- MODULE RequestQueue ----------------------------
(***************************************************************************)
(* The handoff between the threads that call CnetworkPool and the internal *)
(* thread that runs its libuv loop (network_pool.h, network_pool.cpp).     *)
(*                                                                         *)
(* A call pushes its request on one of five deques under m_lock, unlocks,  *)
(* and then sends the uv_async_t m_wakeup.  The async callback never       *)
(* blocks: it try_locks, and when the lock is taken it sends the async to  *)
(* itself.  Otherwise it moves all five deques away, unlocks, reads        *)
(* m_bWantExit, and either handles the batch (all binds, then all TCP      *)
(* sends, UDP sends, connects and closes) or tears the pool down.          *)
(*                                                                         *)
(* What a request does once it is handled is the subject of TcpConn.       *)
(***************************************************************************)
EXTENDS Integers, Sequences

CONSTANTS
    Clients,        \* threads that call the pool
    Requests,       \* requests, each one submitted at most once
    KindOf,         \* the deque each request belongs to
    InitMayFail     \* may uv_loop_init or the allocation of m_wakeup fail?

\* The five deques, numbered in the order in which a batch is handled.
Bind    == 1
SendTcp == 2
SendUdp == 3
Connect == 4
Close   == 5
Kinds   == Bind .. Close

ASSUME KindAssumption == KindOf \in [Requests -> Kinds]
ASSUME InitAssumption == InitMayFail \in BOOLEAN

VARIABLES
    lock,           \* holder of m_lock: "free", "client" or "owner"
    pending,        \* m_pendingBind .. m_pendingClose
    signalled,      \* the async was sent and its callback has not started
    wakeup,         \* m_wakeup: "null", "open", or "reset" (null again)
    poolState,      \* m_state
    wantExit,       \* m_bWantExit
    loop,           \* where the internal thread is
    batch,          \* bindCopy .. closeCopy
    client,         \* where each client is inside a call
    owner,          \* where the thread that constructs and destroys the pool is
    clock, stamp,   \* history: number of requests, and when each was pushed
    handled,        \* history: requests the loop acted on
    discarded       \* history: requests in the batch freed by the exit branch

queueVars   == <<pending, clock, stamp>>
outcomeVars == <<handled, discarded>>
vars == <<lock, pending, signalled, wakeup, poolState, wantExit, loop, batch,
          client, owner, clock, stamp, handled, discarded>>

NoRequests == [k \in Kinds |-> <<>>]

\* The requests on five deques.
Members(deques) == {r \in Requests : \E i \in DOMAIN deques[KindOf[r]] :
                                        deques[KindOf[r]][i] = r}

Init ==
    /\ lock = "free"
    /\ pending = NoRequests
    /\ signalled = FALSE
    /\ wakeup = "null"
    /\ poolState = "initializing"
    /\ wantExit = FALSE
    /\ loop = "start"
    /\ batch = NoRequests
    /\ client = [c \in Clients |-> "idle"]
    /\ owner = "construct"
    /\ clock = 0
    /\ stamp = [r \in Requests |-> 0]
    /\ handled = {}
    /\ discarded = {}

-----------------------------------------------------------------------------
(* The internal thread starts; the constructor waits for its verdict.      *)

LoopStarts ==
    /\ loop = "start"
    /\ wakeup' = "open"
    /\ poolState' = "good"
    /\ loop' = "poll"
    /\ UNCHANGED <<lock, pending, signalled, wantExit, batch, client, owner,
                   clock, stamp, handled, discarded>>

LoopFailsToStart ==
    /\ InitMayFail
    /\ loop = "start"
    /\ poolState' = "bad"
    /\ loop' = "returned"
    /\ UNCHANGED <<lock, pending, signalled, wakeup, wantExit, batch, client,
                   owner, clock, stamp, handled, discarded>>

Constructed ==
    /\ owner = "construct"
    /\ poolState = "good"
    /\ owner' = "run"
    /\ UNCHANGED <<lock, pending, signalled, wakeup, poolState, wantExit, loop,
                   batch, client, clock, stamp, handled, discarded>>

\* throw(-1) leaves the constructor: ~CnetworkPool does not run, m_thread is
\* destroyed while it is joinable, and ~thread calls std::terminate.
ConstructorThrows ==
    /\ owner = "construct"
    /\ poolState = "bad"
    /\ owner' = "terminated"
    /\ UNCHANGED <<lock, pending, signalled, wakeup, poolState, wantExit, loop,
                   batch, client, clock, stamp, handled, discarded>>

-----------------------------------------------------------------------------
(* A call of bindTcp, unbindTcp, bindUdp, unbindUdp, sendTcp, sendUdp,     *)
(* connect or close.                                                       *)

\* Mutant of Push: what is queued is not the request.
PushMovedFrom(r) ==
    /\ stamp[r] = 0
    /\ pending' = [pending EXCEPT ![KindOf[r]] = Append(@, "moved from")]
    /\ clock' = clock + 1
    /\ stamp' = [stamp EXCEPT ![r] = clock + 1]

Push(r) ==
    /\ stamp[r] = 0
    /\ pending' = [pending EXCEPT ![KindOf[r]] = Append(@, r)]
    /\ clock' = clock + 1
    /\ stamp' = [stamp EXCEPT ![r] = clock + 1]

\* lock_guard and push_back.  A call may not overlap the destructor: that is
\* the caller's side of the bargain for every C++ object.
Submit(c, r) ==
    /\ owner = "run"
    /\ client[c] = "idle"
    /\ lock = "free"
    /\ lock' = "client"
    /\ Push(r)
    /\ client' = [client EXCEPT ![c] = "locked"]
    /\ UNCHANGED <<signalled, wakeup, poolState, wantExit, loop, batch, owner,
                   handled, discarded>>

Unlock(c) ==
    /\ client[c] = "locked"
    /\ lock' = "free"
    /\ client' = [client EXCEPT ![c] = "send"]
    /\ UNCHANGED <<pending, signalled, wakeup, poolState, wantExit, loop, batch,
                   owner, clock, stamp, handled, discarded>>

\* Mutant of Send: no uv_async_send.
SendNothing(c) ==
    /\ client[c] = "send"
    /\ client' = [client EXCEPT ![c] = "idle"]
    /\ UNCHANGED <<lock, pending, signalled, wakeup, poolState, wantExit, loop,
                   batch, owner, clock, stamp, handled, discarded>>

\* uv_async_send(m_wakeup->getAsync()), outside the lock.
Send(c) ==
    /\ client[c] = "send"
    /\ signalled' = TRUE
    /\ client' = [client EXCEPT ![c] = "idle"]
    /\ UNCHANGED <<lock, pending, wakeup, poolState, wantExit, loop, batch,
                   owner, clock, stamp, handled, discarded>>

\* The same call made by a user callback on the loop thread, between libuv
\* callbacks or while a batch is handled; nobody but the loop try_locks, so
\* its own lock, push and unlock are one step.  There is a callback only once
\* a bind or a connect was handled, and none may call the pool again after
\* the exit branch has reset m_wakeup.
LoopSubmit(r) ==
    /\ loop \in {"poll", "dispatch"}
    /\ \E q \in handled : KindOf[q] \in {Bind, Connect}
    /\ lock = "free"
    /\ Push(r)
    /\ loop' = IF loop = "poll" THEN "pollSend" ELSE "dispatchSend"
    /\ UNCHANGED <<lock, signalled, wakeup, poolState, wantExit, batch, client,
                   owner, handled, discarded>>

LoopSend ==
    /\ loop \in {"pollSend", "dispatchSend"}
    /\ signalled' = TRUE
    /\ loop' = IF loop = "pollSend" THEN "poll" ELSE "dispatch"
    /\ UNCHANGED <<lock, pending, wakeup, poolState, wantExit, batch, client,
                   owner, clock, stamp, handled, discarded>>

-----------------------------------------------------------------------------
(* The callback of m_wakeup.                                               *)

\* libuv clears the pending flag of the async before it calls back.
Wake ==
    /\ loop = "poll"
    /\ wakeup = "open"
    /\ signalled
    /\ signalled' = FALSE
    /\ loop' = "callback"
    /\ UNCHANGED <<lock, pending, wakeup, poolState, wantExit, batch, client,
                   owner, clock, stamp, handled, discarded>>

\* Mutant of TryLockFails: it returns without sending the async again.
TryLockGivesUp ==
    /\ loop = "callback"
    /\ lock # "free"
    /\ loop' = "poll"
    /\ UNCHANGED <<lock, pending, signalled, wakeup, poolState, wantExit, batch,
                   client, owner, clock, stamp, handled, discarded>>

TryLockFails ==
    /\ loop = "callback"
    /\ lock # "free"
    /\ signalled' = TRUE
    /\ loop' = "poll"
    /\ UNCHANGED <<lock, pending, wakeup, poolState, wantExit, batch, client,
                   owner, clock, stamp, handled, discarded>>

\* Mutant of TakeBatch: the deques are copied and not cleared.
TakeCopy ==
    /\ loop = "callback"
    /\ lock = "free"
    /\ batch' = pending
    /\ loop' = "taken"
    /\ UNCHANGED <<lock, pending, signalled, wakeup, poolState, wantExit, client,
                   owner, clock, stamp, handled, discarded>>

TakeBatch ==
    /\ loop = "callback"
    /\ lock = "free"
    /\ batch' = pending
    /\ pending' = NoRequests
    /\ loop' = "taken"
    /\ UNCHANGED <<lock, signalled, wakeup, poolState, wantExit, client, owner,
                   clock, stamp, handled, discarded>>

\* m_bWantExit is read after the unlock.
ReadWantExit ==
    /\ loop = "taken"
    /\ loop' = IF wantExit THEN "exit" ELSE "dispatch"
    /\ UNCHANGED <<lock, pending, signalled, wakeup, poolState, wantExit, batch,
                   client, owner, clock, stamp, handled, discarded>>

\* Mutants of First: the closes come first; the order of the kinds is free.
LastFirst(k) == batch[k] # <<>> /\ \A j \in Kinds : j > k => batch[j] = <<>>
AnyFirst(k)  == batch[k] # <<>>

First(k) == batch[k] # <<>> /\ \A j \in Kinds : j < k => batch[j] = <<>>

Dispatch(k) ==
    /\ loop = "dispatch"
    /\ First(k)
    /\ handled' = handled \union {Head(batch[k])}
    /\ batch' = [batch EXCEPT ![k] = Tail(@)]
    /\ UNCHANGED <<lock, pending, signalled, wakeup, poolState, wantExit, loop,
                   client, owner, clock, stamp, discarded>>

DispatchEnds ==
    /\ loop = "dispatch"
    /\ batch = NoRequests
    /\ loop' = "poll"
    /\ UNCHANGED <<lock, pending, signalled, wakeup, poolState, wantExit, batch,
                   client, owner, clock, stamp, handled, discarded>>

\* The exit branch: m_wakeup is reset under the lock, every map is cleared,
\* and the requests of the batch are freed unhandled.
Exit ==
    /\ loop = "exit"
    /\ lock = "free"
    /\ wakeup' = "reset"
    /\ discarded' = discarded \union Members(batch)
    /\ batch' = NoRequests
    /\ loop' = "drain"
    /\ UNCHANGED <<lock, pending, signalled, poolState, wantExit, client, owner,
                   clock, stamp, handled>>

\* uv_run returns when the last handle is closed.
LoopReturns ==
    /\ loop = "drain"
    /\ loop' = "returned"
    /\ UNCHANGED <<lock, pending, signalled, wakeup, poolState, wantExit, batch,
                   client, owner, clock, stamp, handled, discarded>>

-----------------------------------------------------------------------------
(* ~CnetworkPool.                                                          *)

Destroy ==
    /\ owner = "run"
    /\ \A c \in Clients : client[c] = "idle"
    /\ wantExit' = TRUE
    /\ owner' = "lock"
    /\ UNCHANGED <<lock, pending, signalled, wakeup, poolState, loop, batch,
                   client, clock, stamp, handled, discarded>>

\* Mutant of DestroyLocks: m_wakeup is tested and used outside the lock.
DestroyDoesNotLock ==
    /\ owner = "lock"
    /\ lock = "free"
    /\ owner' = "test"
    /\ UNCHANGED <<lock, pending, signalled, wakeup, poolState, wantExit, loop,
                   batch, client, clock, stamp, handled, discarded>>

DestroyLocks ==
    /\ owner = "lock"
    /\ lock = "free"
    /\ lock' = "owner"
    /\ owner' = "test"
    /\ UNCHANGED <<pending, signalled, wakeup, poolState, wantExit, loop, batch,
                   client, clock, stamp, handled, discarded>>

\* if (m_wakeup)
DestroyTests ==
    /\ owner = "test"
    /\ owner' = IF wakeup = "open" THEN "send" ELSE "unlock"
    /\ UNCHANGED <<lock, pending, signalled, wakeup, poolState, wantExit, loop,
                   batch, client, clock, stamp, handled, discarded>>

\* Mutant of DestroySends: the loop is not told of m_bWantExit.
DestroySendsNothing ==
    /\ owner = "send"
    /\ owner' = "unlock"
    /\ UNCHANGED <<lock, pending, signalled, wakeup, poolState, wantExit, loop,
                   batch, client, clock, stamp, handled, discarded>>

DestroySends ==
    /\ owner = "send"
    /\ signalled' = TRUE
    /\ owner' = "unlock"
    /\ UNCHANGED <<lock, pending, wakeup, poolState, wantExit, loop, batch,
                   client, clock, stamp, handled, discarded>>

DestroyUnlocks ==
    /\ owner = "unlock"
    /\ lock' = "free"
    /\ owner' = "join"
    /\ UNCHANGED <<pending, signalled, wakeup, poolState, wantExit, loop, batch,
                   client, clock, stamp, handled, discarded>>

Join ==
    /\ owner = "join"
    /\ loop = "returned"
    /\ owner' = "done"
    /\ UNCHANGED <<lock, pending, signalled, wakeup, poolState, wantExit, loop,
                   batch, client, clock, stamp, handled, discarded>>

\* The pool is gone, or the process is.
Ended == owner \in {"done", "terminated"} /\ UNCHANGED vars

-----------------------------------------------------------------------------
CallStep    == \E c \in Clients : Unlock(c) \/ Send(c)
LoopStep    == \/ LoopStarts \/ LoopFailsToStart \/ LoopSend
               \/ Wake \/ TryLockFails \/ TakeBatch \/ ReadWantExit
               \/ \E k \in Kinds : Dispatch(k)
               \/ DispatchEnds \/ Exit \/ LoopReturns
OwnerStep   == \/ Constructed \/ ConstructorThrows
               \/ DestroyLocks \/ DestroyTests \/ DestroySends \/ DestroyUnlocks
               \/ Join

Next == \/ \E c \in Clients, r \in Requests : Submit(c, r)
        \/ \E r \in Requests : LoopSubmit(r)
        \/ Destroy
        \/ CallStep \/ LoopStep \/ OwnerStep
        \/ Ended

Spec == Init /\ [][Next]_vars

\* A thread that runs is scheduled; nobody has to make a call or to destroy
\* the pool.
Fairness == /\ \A c \in Clients : WF_vars(Unlock(c) \/ Send(c))
            /\ WF_vars(LoopStep)
            /\ WF_vars(OwnerStep)

FairSpec == Spec /\ Fairness

-----------------------------------------------------------------------------
(* Properties.                                                             *)

Submitted == {r \in Requests : stamp[r] > 0}
Queued    == Members(pending)
Batched   == Members(batch)

LoopPlaces   == {"start", "poll", "pollSend", "callback", "taken", "dispatch",
                 "dispatchSend", "exit", "drain", "returned"}
ClientPlaces == {"idle", "locked", "send"}
OwnerPlaces  == {"construct", "run", "lock", "test", "send", "unlock", "join",
                 "done", "terminated"}

\* Every variable has its type: the queues hold requests, the threads are at
\* places of their code.
TypeOK ==
    /\ lock \in {"free", "client", "owner"}
    /\ pending \in [Kinds -> Seq(Requests)]
    /\ signalled \in BOOLEAN
    /\ wakeup \in {"null", "open", "reset"}
    /\ poolState \in {"initializing", "good", "bad"}
    /\ wantExit \in BOOLEAN
    /\ loop \in LoopPlaces
    /\ batch \in [Kinds -> Seq(Requests)]
    /\ client \in [Clients -> ClientPlaces]
    /\ owner \in OwnerPlaces
    /\ clock \in Nat
    /\ stamp \in [Requests -> Nat]
    /\ handled \subseteq Requests
    /\ discarded \subseteq Requests

\* No request is left behind: while the async lives, a request in a deque has
\* a wakeup under way, even when the callback gave up on the lock, and so has
\* the destructor's m_bWantExit.  (The async is sent after the unlock, and a
\* failed try_lock sends it again.)
NoLostWakeup ==
    wakeup = "open" =>
        /\ Queued # {} => \/ signalled
                          \/ \E c \in Clients : client[c] \in {"locked", "send"}
                          \/ loop \in {"callback", "pollSend", "dispatchSend"}
        /\ wantExit => \/ signalled
                       \/ owner \in {"lock", "test", "send"}
                       \/ loop \in {"callback", "taken", "exit"}

\* Whoever is about to dereference m_wakeup finds it: the calls, which do so
\* outside the lock, and the destructor, which tests it under the lock while
\* the loop may be resetting it.
WakeupAlive ==
    \/ \E c \in Clients : client[c] = "send"
    \/ owner = "send"
    \/ loop \in {"pollSend", "dispatchSend"}
    => wakeup = "open"

\* A request is in exactly one place from the push on: in its deque, in the
\* batch, handled, or freed by the exit branch, and never handled twice.
OnePlace ==
    /\ Submitted = Queued \union Batched \union handled \union discarded
    /\ Queued \intersect Batched = {}
    /\ (Queued \union Batched) \intersect (handled \union discarded) = {}
    /\ handled \intersect discarded = {}

\* Splitting the requests over five deques never lets a request overtake an
\* earlier one that it must come after: a close never overtakes a send that
\* was queued before it, and two requests of one kind keep their order.
OrderKept ==
    \A r \in handled, q \in Submitted :
        stamp[q] < stamp[r] /\ KindOf[q] <= KindOf[r] => q \in handled

\* A request that was pushed is handled, unless the pool is being destroyed.
Answered == \A r \in Requests :
                (stamp[r] > 0) ~> (r \in handled \/ wantExit)

\* The destructor returns, whoever holds the lock and wherever the loop is
\* when it starts.
DestructorReturns == (owner = "lock") ~> (owner = "done")

\* "Throw when fail." (network_pool.h, above the constructor): a pool that
\* cannot start tells its owner by an exception, it does not end the process.
FailureIsThrown == owner # "terminated"

\* The promise the queue makes to its users.
Mailbox == INSTANCE Mailbox WITH closed <- wakeup = "reset"
MailboxImplemented == Mailbox!Spec
=============================================================================
