# network_pool2 in TLA+

network_pool2 is a C++ library over libuv: `CnetworkPool` runs one event loop
on a thread of its own and lets any thread bind, connect, send and close by
socket id.  Beside it stand a caching allocator, a work queue, and HTTP and
JSON servers that use them.  This directory models the parts whose state is
touched by several actors, checks them with TLC, and proves the central ones
with TLAPS.  Source paths below are relative to `src/src/`.

## Inventory

| Component | Source | State | Operations | What is hard, and what makes it correct |
|---|---|---|---|---|
| Request queue | `network_pool.h`, `network_pool.cpp` 384-558 | five deques, `m_lock`, `m_wakeup`, `m_state`, `m_bWantExit` | bind, unbind, send, connect, close; the async callback; start and end of the loop thread | unlock before send, `try_lock` in the callback, exit flag outside the lock: no request without a wakeup, one fate per request, order per kind, the async alive when sent, the destructor returns |
| TCP connections | `network_pool.cpp` 36-157, 189-286, 511-581, `uv_wrapper.h` 214-393 | `m_connecting`, `m_socketId2stream`, `Ctcp` with two handles and one timer, write requests | accept, connect, read, write, timeouts, close by force or gracefully, exit | callbacks of cancelled requests, two close callbacks, user callbacks that send: one owner, no callback into a deleted object, one fate per buffer, the timer watches the right thing |
| Listening TCP sockets, UDP sockets | `network_pool.cpp` 159-230, 288-382, 423-437, 455-527, `uv_wrapper.h` 121-212, 396-482 | `m_tcpServers`, `m_udpServers`, `CtcpServer`, `Cudp`, send requests | bind, unbind, accept, receive, send, exit | binding and accepting that fail half way, sends pending at unbind, sends that a batch handles after a later unbind: one fate per datagram, `startup()` and `shutdown()` in pairs, nothing but `sendError()` after them, all handles closed in the end |
| Cached allocator | `cached_allocator.cpp` | lists of free blocks per size, limits, usage | `__alloc`, `__free`, `__dynamic_set_cache` | probes outside the lock: one holder per block, right size, bounded lists, exact usage |
| Work queue | `work_queue.h` | deque of tasks, `m_exit`, condition variable | `pushTask`, `getNext`, constructor, destructor | `notify_one` with several workers, wakeups for nothing, threads that cannot be started: no task overlooked, none reordered, no worker lost, and constructor and destructor return |
| JSON server | `json_server.h`, `json_context.h` | the context and its lock | `packet`, `CjsonTask::run`, `analysis`, `restart`, `clear`, `shutdown` | several tasks of one session at once, messages cut anywhere: what is handled is the framing of the stream |
| Receive buffer | `recv_buffer.h`, `buffer.h` | raw packets, merged bytes, overflow flag | `pushBuffer`, `merge` | filled by the loop, drained by workers: nothing lost below the limit, no access outside the buffer |
| Shared pointer | `mt_shared_ptr.h` | atomic counter | copy, move, assign, `reset`, `unique` | handles let go of by several threads at once: the counter is the number of holders, the object is deleted once, by the last, and who finds `unique()` true stays alone |
| HTTP server | `http_server.h`, `http_context.h` | parser state, lines, chunks | `packet`, `ChttpTask::run`, `analysis`, `clear`, `extract`, `reinitForNext` | as for JSON, and a parser that resumes at any byte of headers, bodies and chunks: requests are answered once, in order, with their whole body, and the socket is closed exactly when the stream asks for it |
| Addresses | `network_node.h` | values with a cached hash | `init`, comparison, hash, setters, assignment, text conversion | comparisons test the cached hash first and pairs leave the protocol to it: equality must be equality, the order an order, and the hash fresh |
| Callbacks, settings, types, debug output | `network_callback.h`, `network_setting.h`, `network_type.h`, `np_dbg.h` | none | interfaces and constants | - |

How they interact: every call of the pool from another thread becomes a request
on a deque and an async; the loop thread takes requests in batches and turns
them into libuv calls, whose callbacks run on the same thread and call the
user's callback objects, which may call the pool again (directly for sends).
Server sessions file packets in a receive buffer and push a task to the work
queue; workers merge and parse under the context's lock and call the pool.  All
objects come from the allocator.

`PROJECT.json` lists the hazards, each at its line, with the properties that
watch it.

## Modules

| Module | What it is |
|---|---|
| `RequestQueue` | the queue between the callers and the loop thread |
| `Mailbox` | what the queue promises: an abstract specification that `RequestQueue` implements |
| `RequestQueueProofs` | proofs about `RequestQueue` |
| `TcpConn`, `TcpConnProofs` | the life of TCP connections on the loop thread, and proofs about it |
| `SocketServers`, `SocketServersProofs` | listening TCP sockets and UDP sockets on the loop thread, and proofs about them |
| `NetworkPool`, `NetworkPoolProofs` | `RequestQueue` and `TcpConn` composed into one program, and proofs that it is both; `NetworkPoolProofs` also holds the proofs about `NetworkNode` |
| `CachedAllocator`, `CachedAllocatorProofs` | `__alloc` and `__free`, and proofs about them |
| `WorkQueue`, `WorkQueueProofs` | `CworkQueue`, and proofs about it |
| `RecvBuffer` | `CrecvBuffer` and `Cbuffer::resize` as operators |
| `ServerSession` | what JSON and HTTP connections have in common: packets, tasks, the context's lock, `unique()` |
| `JsonSession`, `JsonSessionProofs` | a JSON connection: `ServerSession` with `CjsonContext`, and proofs about it |
| `HttpContext`, `HttpSession` | `ChttpContext` as operators, and an HTTP connection: `ServerSession` with it |
| `SharedPtr`, `SharedPtrProofs` | `CmtSharedPtr`, and proofs about it |
| `NetworkNode` | `Csockaddr`, `CnetworkNode` and `CnetworkPair` as values |
| `MC...` | instances for TLC |

Definitions called "Mutant of X" are plausible wrong versions of X.  Nothing
uses them; putting one in the place of X must break the property that
`PROJECT.json` pairs it with.

### RequestQueue

`pending` is the five deques by kind, numbered in the order in which a batch is
handled; `lock` is `m_lock`; `signalled` says that the async was sent and its
callback has not started (libuv merges sends).  `client`, `loop` and `owner`
say where each thread is in its code.  A call is `Submit` (lock and push),
`Unlock`, `Send`; on the loop thread, from a callback, `LoopSubmit` and
`LoopSend`.  The callback is `Wake`, then `TryLockFails` or `TakeBatch` (all
five deques, unlock), `ReadWantExit`, then `Dispatch` per request or `Exit`,
which resets `m_wakeup` under the lock.  The destructor is `Destroy` (the flag,
without the lock), `DestroyLocks`, `DestroyTests`, `DestroySends`,
`DestroyUnlocks`, `Join`.  `clock`, `stamp`, `handled` and `discarded` are
history variables.  What a request does is left to `TcpConn`.

Contracts taken from the code's use: no call of the pool overlaps its
destructor, and no callback calls it once the exit branch has begun (`m_wakeup`
is null then, and `bind`, `sendTcp`, ... do not test it).  `std::mutex::try_lock`
fails only when the lock is held.  `LoopReturns` takes it that the other handles
of the loop close; `NetworkPool` does not.

### TcpConn

`conn[s]` is the `Ctcp` with socket id `s`: its owner (`map`), handles, flags,
timer, pending libuv requests and write queue.  A library call on a connection
is an operator from record to record (`CloseTcp`, `ShutdownAndClose`,
`SetTimeout`, ...), and where it can fail, or runs a user callback, an operator
to the set of outcomes (`WriteOutcomes`, `UserActs`, `StartReading`).  Every
action is one callback, from its entry to its return, as libuv calls them one at
a time.  `KernelWrites` and `Cancelled` model what libuv does with the write
queue.  User callbacks may send one buffer each; `drop()` of a refused write does
not send again.  At most `MaxId` connections are made in a run.

### SocketServers

`pendingBind` and `pendingSendUdp` are the two deques of requests that concern
these sockets, and `batch` what the wakeup callback has taken: all binds and
unbinds, then all sends.  `sock[s]` is the `CtcpServer` or `Cudp` with id `s`;
operators from record to record, or to sets of outcomes, are the calls on it, as
in `TcpConn`.  `Bound` is `bindAndListenTcp` or `bindAndListenUdp` with every
step that may fail; `startup()` is called before the insertion into the map, so
a UDP socket that sends from `startup()` is not found and its datagram is freed
(`discarded`).  So is a datagram submitted before the `unbindUdp` of its socket
and taken in the same batch.  `AcceptGivesUp` is the listen callback that
returns without `uv_accept`: libuv stops polling the socket (`stalled`), and
nothing in the code starts it again.  `last` and `stopped` record what the
user's callback object heard.  Ids come from the same counter as those of
connections.

### CachedAllocator

Both functions are cut where other threads can see the difference: the probe
outside the lock, each critical section, each atomic.  `header` is the word in
front of a block, the size while the block is in use, `Link` while it is kept.
`malloc` takes from a finite `heap` and may fail.  A block may be freed by
another thread than the one that asked for it.  Sizes are so small that
`allocSize` does not overflow: for one near the top of `size_t` the code ends the
process (`cached_allocator.cpp:95-99`).

### WorkQueue

Steps are critical sections of `m_lock`.  `notify_one` moves any one waiter back
to the way to the lock, where it competes with all others; `WakesForNothing` is
the spurious wakeup.  A constructor that cannot start a thread ends and joins
the others and throws; one whose vector cannot grow ends the process, as the
thread just made is destroyed while joinable.  A null task ends the worker that
takes it, so `NeverDeserted` and `EveryTaskTaken` except the queue whose workers
have all taken one.  Contracts: clients push between
constructor and destructor, and `run` does not throw.

### NetworkPool

`Queue` and `Tcp` are instances of `RequestQueue` and `TcpConn` over the same
variables as they have alone; a buffer of `TcpConn` is the request that sends
it.  Each request gets its effect when the batch reaches it (`Handle`):
`SendsOrLoses`, `ClosesOrNot` and `Connects` look a socket up in
`m_socketId2stream` and do nothing when it is not there.  Callbacks of
connections run only when the loop is in neither the wakeup callback nor
another one (`Callback`); the exit branch is one step of both; `uv_run` returns
only when every handle of every connection is closed, which `RequestQueue` alone
takes on trust.  So the destructor returns for reasons that span both modules.
Sends that a callback makes directly are left to `TcpConn`, listening sockets to
`SocketServers`.

### RecvBuffer, ServerSession

A buffer is a record: the bytes up to `m_nowIndex`, `m_length`, the overflow
flag.  `Merged` is `merge`, with the doubling of the size and the copy by
`Cbuffer::resize`; packets that do not fit are dropped together.
`ServerSession` is the half of both servers that is alike: `Packet` files a
packet, `PushTask` pushes its task, `Release` is `shutdown()` or the end of the
session; a worker takes a task, looks at `unique()`, locks, merges, looks again,
and lets go of the task and its reference (`Drops`) some time after the lock.
Who holds the context is counted as `SharedPtr` shows it may be.  Tasks of one
session are alike, so the queue is a number; the order in which the work queue
runs them is free here.

### JsonSession

`context` is what `m_contextLock` protects: the merged bytes and the members of
`CjsonContext`.  `Scan` is one turn of the loops of `analysis`; a task that holds
the lock goes through merge, analysis and `jsonRpc` until nothing is left.
Bytes are the brackets, one white space and one other byte, which is all that
`analysis` distinguishes.  `Framed` and `Malformed` define the messages of a
stream without any of the machinery, and the properties compare.

After an overflow `CrecvBuffer` has dropped packets and `CjsonContext`, unlike
`ChttpContext`, does not look at the flag: it goes on with what comes next, and
may hand `jsonRpc` a message made of both sides of the hole.  The properties
speak of the time before.

### HttpContext, HttpSession

`HttpContext` is `ChttpContext`: `Turned` is what `analysis` does from one look
for bytes to the next, by state, and `Waits` says when it returns to be called
with more.  A header field is one byte with the meaning that `kvDecoder` gives to
its name and value; blanks and line ends are themselves.  Lines and chunks are
the pairs the code keeps, and sizes have the width `SizeRange` of a `size_t`.
The sum `m_nowChunkSize + 2`, which `Waits` compares with what has come, wraps for
the two largest sizes (`ChunkNeed`), and such a chunk is taken before it is
there; `InBounds` claims chunks of all other sizes (`Fits`).
`HttpSession` is `ChttpTask::run`: `Answers` clears the context and goes on,
`AnswersLast` closes and leaves the context done, so that every packet that
still comes is answered with the same response; `AnswersInOrder` says that this
is the only repetition.  `First` and `Framed` define the requests of a stream by
positions of line ends and sizes, without the machine.

### SharedPtr

Handles are places, each used by one thread at a time; a handle that goes into a
task and is used by a worker is a handle that changes its thread (`HandOver`).
`LetGo` is the decrement with which destructor, `reset` and both assignments
begin; what the handle gets afterwards is its gift.  Between the copy of the
pointers and the increment (`Count`), and between decrement, `delete m_count`
and `delete m_ptr`, other threads run.  Not in the model: a handle assigned to
itself (`operator=` would read the counter it has just deleted; nothing in
`src/` does it), and the `return` that both assignments lack (neither is
instantiated in `src/`).

### NetworkNode

No state: addresses, nodes and pairs are records, each method an operator on
them, and the width of a `size_t` is a parameter of the hash.  `AF_INET6` is 10,
as on Linux.  There is no run, because TLC does not count to 2^64 and a
smaller width would be another function; what the module says is proved.

## What the runs check

| Run | Question | Bounds |
|---|---|---|
| `queue` | does any interleaving of two clients, callbacks and destructor lose a wakeup, a request, or an order? is every request answered, is `Mailbox` implemented? | 2 clients, 4 requests: two of a kind and one each of two others; the loop may fail to start |
| `tcp` | owners, callbacks, buffers, timers and ends of connections | 2 connections, 2 buffers |
| `pool` | with the queue and connections together: is data in one place from the call to its end, are closing connections deleted, does the destructor return? | 1 client and callbacks, 4 requests (bind, connect, send, close), 1 connection, a send timeout; the loop may fail to start |
| `sockets` | fates of datagrams, what callback objects hear, does all that is under way end? | 2 ids, 6 requests: a bind and an unbind of each kind, 2 datagrams |
| `allocator` | holders, sizes, limits, usage | 2 threads, 3 blocks, a size cached from the start, one cached on demand, one never |
| `work_queue` | lost notifications, order, lost workers; are all tasks taken, do constructor and destructor return? | 3 workers, 5 tasks, 3 of them null |
| `json` | is what is handled the framing of the stream, is every complete message handled? | 2 workers, 3 packets out of 5, buffer 2 growing to 7 |
| `http` | is what is answered the framing of the stream, is the socket closed when the stream asks for it and only then, do lines and chunks stay in the buffer, is every complete request answered? | 2 workers, 3 packets out of 5 that cut headers, line ends, bodies and chunks, buffer 4 growing to 26, `SizeRange` 32, chunk sizes up to 29 |
| `shared_ptr` | is the counter exact, is an object deleted once and by its last holder, does `unique()` stay true? | 2 threads, 4 handles, 2 objects |

The bounds let the interesting cases happen: a failed `try_lock` needs one
client in the critical section while the loop wakes, an overtaking in the queue
two requests of different kinds, a callback that sends over a write under way
two buffers, an unbind that overtakes a datagram one request of each, a full
list one block more than its limit, a lost notification two pushes for two
sleepers, a queue without workers a null task for each, an overflow three packets, a race for the last reference two threads
with a handle each while a third handle is being copied.  Symmetry is used for buffers and blocks in
the runs `tcp` and `allocator`, which check safety only.

In `pool` one connection is enough because connections meet only in the queue
and in the exit branch; `MaxId` there stands for memory that has run out.  The
run `http` goes up to the largest chunk size for which `m_nowChunkSize + 2` is a
`size_t`; for the two above it there is nothing to check, as no property claims
such a chunk.

Three runs show where the code does not do what it says, and are expected to
fail: `queue_start_failure` (the constructor "throws when fail", but the
exception meets a joinable thread and ends the process), `tcp_timeouts` (a
`timeout()` that asks to kill does nothing while the socket connects or is being
closed gracefully: the timer callback looks for the connection in the one map
where it is not), and `tcp_exit_hang` (a graceful close to a peer that does not
read keeps the loop, and the destructor, waiting).  The lines they contradict
are quoted under "findings" in `PROJECT.json`.

Not a contradiction of any line, but worth knowing: a connection is told of its
`shutdown()` only by the exit branch, so most connections that were started up
never hear it, while listening and UDP sockets always do (`CallbackProtocol`).  The
connect callback that finds `m_connecting` empty after the exit branch returns
without freeing its request (`network_pool.cpp:254`).  `CnetworkPair::operator=`
copies the hash but not the protocol, and in a 32-bit build two pairs that
differ in the protocol only are one key (`AssignedForgetsProtocol`,
`PairKeysNarrow`); nothing in `src/` keeps pairs.

### Fairness

Threads are scheduled: weak fairness per thread (`RequestQueue`, `WorkQueue`,
`JsonSession`, `HttpSession`), on the whole thread and never on the choice of one branch.
A mutex is taken in the same step as the guard that finds it free; starvation
by an unfair mutex is impossible in these runs because the others finish.  No
user call, packet, timeout or spurious wakeup has to happen.  In `TcpConn`
libuv delivers the callbacks it owes; a timer fires for certain only when
nothing restarts it; the kernel takes or refuses queued writes only under
`PeerFairSpec`, and `tcp_exit_hang` shows what happens without; `NetworkPool` assumes both
halves, with the kernel's part; datagrams
(`SocketServers`) it takes or refuses without waiting for a peer.  Tasks return
(`RunReturns`).

## What is proved

`RequestQueueProofs`, for every set of clients and requests: the type
invariant, `NoLostWakeup`, `WakeupAlive`, `OnePlace`, `OrderKept`, and that
every step of `RequestQueue` is a step of `Mailbox` or a stutter.  None is
inductive alone.  `IInv` adds `LockInv` (who can hold the lock), `PhaseInv`
(which phases of constructor, destructor and loop go together: a wakeup is reset
only when the destructor has begun, a client is in a call only while the owner
runs) and `QueueInv` (deques are sorted by time of submission, and all that is
in the batch is older than all that is pending, which is what keeps the order
across batches).  The refinement follows from `OrderKept`'s reason: the first
request of the batch has all that it may not overtake behind it.

`WorkQueueProofs`, for every finite set of workers and any tasks, null or not:
the four invariants of the run `work_queue`, and `NobodySleepsThroughExit`.
`NoLostNotify` counts the workers on the way to the lock; each step changes the
count by one at most, and `Arrives`, `Leaves` and `PushWakes` say how.
`NeverDeserted` is not inductive.  If nobody were on the way to a task, nobody
could sleep either, by `NoLostNotify`, and all are started (`AllStarted`); so all
have ended, and `WorkersStay` says that as many null tasks were taken.

`CachedAllocatorProofs`, for any threads, finitely many blocks, any sizes and any
limits: the five invariants of the run `allocator`.  `IInv` is `TypeOK`,
`OneHolder`, `RightSize`, `ListsBounded`, `CallsInv` (a thread inside a call works on a size that was asked for, and a
block on its way to a caller has the header of that size) and `InitInv` (until
`initStoreNumber` is done nobody is inside a call and nothing is kept: it is the
only code that could lower a limit below the length of a list).  The step that
matters is `FreeKeepsStep`: the limit is tested again under the lock, so what the
probe saw is not used.  `UsageExact` is preserved on top of `IInv`: each step moves
one block into or out of one of the two sets that are accounted for, and
`WorkedOn` says that no other thread has that block.  Its sum is the fold of the
community modules, a recursive function that takes blocks in an arbitrary order.
`TableExists` shows that the recursion defines something, `TotalTakes` that any
block may be taken first; both look at a least counterexample (`LeastSet`,
from the library's `WFMin`), which is an induction that needs no operator
parameter.

`NetworkPoolProofs` on `NetworkNode`, for all addresses: `init` takes over exactly what is long
enough for its family and makes the unset address of everything else;
`operator==` of addresses and nodes is equality and `operator<` a strict total
order; constructors and setters leave the hash of a pair fresh.  The comparisons
of pairs do not test the protocol, and yet are right in 64 bits while the hash
is fresh.  The reason is that the hash is linear in what it starts from: for each
address it multiplies by 65536 and an odd number, so the two protocols give
hashes 31 * f * g apart, where f and g hold at most sixteen factors of two each, too few
for a multiple of 2^64.  In 32 bits they are enough, and the protocol is gone.
The proof needs only that 65536 is even and 65535 odd, and never writes a width
out, as the prover's literals have to stay small.

`TcpConnProofs`, for any finite numbers of connections and any set of buffers: the four
invariants and both action properties of the run `tcp`.  `GracefulCloseWaits` exempts a
timer whose `timeout()` asks to kill, which may close over queued writes; that the
code does not even then is the finding of `tcp_timeouts`.  `IInv` says of each
connection that it is `Sound`: its fields have their types, and `Owned`, `Timed`
and `Fate` hold of it.  They are the three invariants of the run cut to one
record, with what makes them inductive: which handles are open in which state,
that a request to connect or to shut down is under way only on an open stream,
that the timer of a closing connection is off for good.  Between connections it
says only that no two hold the same buffer.  Because every library call of the
model is an operator from record to record, each has one lemma (a sound record
gives sound records, and what may differ), and a callback that makes several
calls chains them, user callbacks that send, and lose their own connection,
included.  The action properties follow from `Later`, the same relation between a
record and what any step makes of it.

`SocketServersProofs`, for any numbers of ids and datagrams: `TypeOK`, `DatagramFate`
and `CallbackProtocol`.  The invariant has the same form: `Sound` of each socket
(what its callback object heard against where the socket is; each datagram once),
requests that name each datagram once, and no datagram in two of the places.
`CallbackProtocol` follows from `Hears`, which relates a socket before and after
each call; it is transitive enough for the callbacks that make several.

`NetworkPoolProofs`: every step of the composed program is a step of
`RequestQueue` or leaves it alone, and the same of `TcpConn` (so what is proved of
each holds in the program: `PoolRunsTheQueue`, `PoolRunsTheConnections`), and
`DataFate`.  That the two halves agree about data needs one link, `Accounted`: a
request to send that was handled is lost or with a connection, and no connection
has the data of one that was not.

`SharedPtrProofs`, for any threads, handles and objects: `CountExact` and
`UniqueStays`.  Every access to the counter is a step of its own, so between two
steps of one call the pointer of a handle and the counter disagree.  `IInv` says
who is in between: a thread that has copied a pointer and not counted it leans on
another handle that holds the object (`CountingInv`); the thread that takes the
counter to zero is the only one to delete (`DeleteInv`, `ReclaimInv`); an object
nobody was given has no handle (`UnusedInv`).

`JsonSessionProofs`, for any finite set of workers, any packets that are not
empty and any limits: `InBounds`, `MessagesInOrder` and `NothingForgotten`, all
the safety properties of the run `json`.

- `InBounds`: `Shape` has the types, the lock (one worker past the guard) and
  `Bounded`, which is about one context record: the bytes fit, `start <= index <=
  Len(bytes)`, the depth is positive exactly inside a message.  `merge`, one
  look of `analysis`, `restart` and `clear` are operators from record to record, and
  each has a lemma that says what it leaves.  That merge grows the buffer enough
  needs the doubling to end (`DoubledUnfolds`, `DoubledFits`).
- `MessagesInOrder`: the properties define the messages of a stream by positions
  (`Framed`), the code finds them a byte at a time and is interrupted anywhere.
  The invariant that joins the two is `Ahead`: for every continuation `t`, the
  messages of `Stream \o t` are those that were handled followed by those of
  `Waiting \o t`, where `Waiting` is what the context has from the message on
  that it looks for, and the packets not merged yet.  Because it speaks of every
  continuation, a packet preserves it whatever it cuts.  `Analysed` says what
  the state of the analysis knows of the bytes it has looked at: `Excess`, the
  depth by counting brackets, is positive up to here.  The context may be left
  with a message found and not handled only by a task that nobody waits for
  (`Left`), after which nothing happens but that workers drop their tasks
  (`FinalStays`).
- `NothingForgotten`: a packet that is filed has a task that will merge it
  (`Expected`), and a task gives up the lock only with nothing left to decode or at
  what is no message (`Exhausted`, `Closed`).  At rest `Waiting` is what is pending
  in the context, `FramedAtEnd` says that it holds no whole message, and `Ahead`
  with nothing to follow gives the equality.

TLC found no state of the instance that breaks these parts, with `Ahead` over all
continuations of up to two packets.

`FlattenSeq`, the doubling, `Framed` and `Malformed` are recursive functions, and a
definition by recursion says something only if a function satisfies it:
`RecursionExists` shows it for every recursion whose argument gets smaller, and
`Descent` that it is the only one, both by a least counterexample.

The assumptions are those named in the modules: requests have a kind, workers,
blocks and handles are finitely many, `"nobody"`, which stands for a free lock, is no
worker, null tasks are tasks, packets are not empty,
the initial size of a buffer is not 0 (`merge` would double it for ever), sizes,
limits and numbers of ids are natural numbers; and for the composition, that the
requests to send, connect and close of `NetworkPool` are requests of the queue.

Model-checked only: all liveness, as fairness and ENABLED are beyond the prover;
and the safety properties of `HttpSession`.  These are not theorems for every
value of the constants: `First`, which does not wrap, agrees with the analysis
only for chunk sizes below `SizeRange - 2`, which are those of the run; `InBounds`
states that condition.

## Not modelled

libuv itself, the kernel and the peers, beyond the order in which their
callbacks come; the conversions from and to text in `network_node.h`, which call
libuv; `getInfo` and `getParameter` of `ChttpContext`, which only read and have no
caller; the copies, moves and assignments of `Cbuffer`, which in `src/` carry the
values of requests, where `RequestQueue` and `TcpConn` follow the data; the
settings of sockets; debug output.  Memory exhaustion is modelled where the code
tests for it; an exception of `operator new` inside the loop thread ends the
process.

## Plan

Done: every component that keeps state has its module, the queue and the
connections are composed, and all safety properties but those of `HttpSession`
are proved.  What is left:

1. `HttpSession`, for streams whose chunk sizes fit: `InBounds` from what `Waits`
   compares, then `AnswersInOrder` with `Ahead` as in `JsonSession`, where `Analysed`
   has a case for each state of the analysis.
2. One more module: the products of the timeouts, `timeout * 1000` in 32 bits
   (`network_pool.cpp:48`).
