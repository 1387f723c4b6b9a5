-------------------------- MODULE CachedAllocator --------------------------
(***************************************************************************)
(* __alloc and __free of cached_allocator.cpp: freed blocks of a cached    *)
(* size are kept on a list per size and handed out again.                  *)
(*                                                                         *)
(* A block is preceded by a header that holds its size while it is in use  *)
(* and the link of the list while it is kept.  The lists and their counts  *)
(* change under s_globalLock; whether a size is cached at all is probed    *)
(* before, without it, and s_count and s_size are two separate atomics.    *)
(***************************************************************************)
EXTENDS Integers, Sequences, FiniteSets, FiniteSetsExt

CONSTANTS
    Threads,
    Blocks,         \* what malloc can return; finite, so it may fail
    Sizes,          \* the sizes that are asked for
    SlotLimit,      \* s_maxAllocatorSlot: larger blocks are never kept
    HeaderSize,     \* sizeof(size_t)
    InitialMax,     \* what initStoreNumber wants in s_maxAllocatorStoreNumber
    CacheNumbers    \* the arguments that __dynamic_set_cache is called with

ASSUME SizeAssumption == Sizes \subseteq Nat /\ SlotLimit \in Nat /\ HeaderSize \in Nat
ASSUME MaxAssumption == InitialMax \in [Sizes -> Nat] /\ CacheNumbers \subseteq Nat
ASSUME BlocksFinite == IsFiniteSet(Blocks) /\ "no block" \notin Blocks

VARIABLES
    init,           \* how far initStoreNumber got with each size
    store,          \* s_allocatorStore: the kept blocks, the next one first
    storeCount,     \* s_allocatorStoreCount
    maxStore,       \* s_maxAllocatorStoreNumber
    sCount, sSize,  \* s_count, s_size
    heap,           \* blocks that malloc may return
    capacity,       \* the size each block was malloc'ed for
    header,         \* the first word of a block: its size with the header, or Link
    held,           \* blocks in the hands of the callers
    at,             \* where each thread is in __alloc or __free
    size,           \* the argument of __alloc, or orgSize in __free
    block           \* the block a thread works on

vars == <<init, store, storeCount, maxStore, sCount, sSize, heap, capacity, header,
          held, at, size, block>>

NoBlock == "no block"
Link    == -1       \* no size is negative

Init ==
    /\ init = [n \in Sizes |-> "todo"]
    /\ store = [n \in Sizes |-> <<>>]
    /\ storeCount = [n \in Sizes |-> 0]
    /\ maxStore = [n \in Sizes |-> 0]
    /\ sCount = 0 /\ sSize = 0
    /\ heap = Blocks
    /\ capacity = [b \in Blocks |-> 0]
    /\ header = [b \in Blocks |-> 0]
    /\ held = {}
    /\ at = [t \in Threads |-> "idle"]
    /\ size = [t \in Threads |-> 0]
    /\ block = [t \in Threads |-> NoBlock]

Goes(t, from, to) == at[t] = from /\ at' = [at EXCEPT ![t] = to]

-----------------------------------------------------------------------------
(* initStoreNumber, run once, without the lock, by the first __alloc; the  *)
(* others wait for it in call_once.  It tests a number, then writes it.    *)

InitTests(n) ==
    /\ init[n] = "todo"
    /\ init' = [init EXCEPT ![n] = IF n < SlotLimit /\ InitialMax[n] > maxStore[n]
                                  THEN "write" ELSE "done"]
    /\ UNCHANGED <<store, storeCount, maxStore, sCount, sSize, heap, capacity,
                   header, held, at, size, block>>

InitWrites(n) ==
    /\ init[n] = "write"
    /\ init' = [init EXCEPT ![n] = "done"]
    /\ maxStore' = [maxStore EXCEPT ![n] = InitialMax[n]]
    /\ UNCHANGED <<store, storeCount, sCount, sSize, heap, capacity, header, held,
                   at, size, block>>

-----------------------------------------------------------------------------
(* __alloc                                                                 *)

Alloc(t, n) ==
    /\ \A m \in Sizes : init[m] = "done"
    /\ Goes(t, "idle", "probe")
    /\ size' = [size EXCEPT ![t] = n]
    /\ UNCHANGED <<init, store, storeCount, maxStore, sCount, sSize, heap, capacity,
                   header, held, block>>

\* Without the lock: "Just a prob".
AllocProbes(t) ==
    LET n == size[t]
    IN  /\ Goes(t, "probe",
                IF n >= SlotLimit \/ (maxStore[n] = 0 /\ storeCount[n] = 0)
                THEN "malloc" ELSE "pop")
        /\ UNCHANGED <<init, store, storeCount, maxStore, sCount, sSize, heap,
                       capacity, header, held, size, block>>

\* Mutant of AllocPops: the block stays on the list.
AllocPeeks(t) ==
    LET n == size[t]
    IN  /\ Goes(t, "pop", "header")
        /\ store[n] # <<>>
        /\ block' = [block EXCEPT ![t] = Head(store[n])]
        /\ UNCHANGED <<init, store, storeCount, maxStore, sCount, sSize, heap,
                       capacity, header, held, size>>

AllocPops(t) ==
    LET n == size[t]
    IN  /\ Goes(t, "pop", "header")
        /\ store[n] # <<>>
        /\ block' = [block EXCEPT ![t] = Head(store[n])]
        /\ store' = [store EXCEPT ![n] = Tail(@)]
        /\ storeCount' = [storeCount EXCEPT ![n] = @ - 1]
        /\ UNCHANGED <<init, maxStore, sCount, sSize, heap, capacity, header, held, size>>

AllocFindsNone(t) ==
    /\ Goes(t, "pop", "malloc")
    /\ store[size[t]] = <<>>
    /\ UNCHANGED <<init, store, storeCount, maxStore, sCount, sSize, heap, capacity,
                   header, held, size, block>>

AllocMallocs(t) ==
    /\ Goes(t, "malloc", "header")
    /\ \E b \in heap :
          /\ heap' = heap \ {b}
          /\ capacity' = [capacity EXCEPT ![b] = size[t]]
          /\ block' = [block EXCEPT ![t] = b]
    /\ UNCHANGED <<init, store, storeCount, maxStore, sCount, sSize, header, held, size>>

\* Mutant of AllocFails: nullptr is not tested.
AllocUsesNull(t) ==
    /\ Goes(t, "malloc", "header")
    /\ UNCHANGED <<init, store, storeCount, maxStore, sCount, sSize, heap, capacity,
                   header, held, size, block>>

\* malloc returns nullptr, and so does __alloc.
AllocFails(t) ==
    /\ Goes(t, "malloc", "idle")
    /\ UNCHANGED <<init, store, storeCount, maxStore, sCount, sSize, heap, capacity,
                   header, held, size, block>>

\* Mutant of AllocCounts: the header is written only by malloc's path, so a
\* block from a list keeps its link there.
AllocKeepsHeader(t) ==
    /\ Goes(t, "header", "counted")
    /\ header' = [header EXCEPT ![block[t]] = IF @ = Link THEN @ ELSE HeaderSize + size[t]]
    /\ sCount' = sCount + 1
    /\ UNCHANGED <<init, store, storeCount, maxStore, sSize, heap, capacity, held,
                   size, block>>

AllocCounts(t) ==
    /\ Goes(t, "header", "counted")
    /\ header' = [header EXCEPT ![block[t]] = HeaderSize + size[t]]
    /\ sCount' = sCount + 1
    /\ UNCHANGED <<init, store, storeCount, maxStore, sSize, heap, capacity, held, size,
                   block>>

\* Mutant of AllocReturns: the header is not counted.
AllocCountsNoHeader(t) ==
    /\ Goes(t, "counted", "idle")
    /\ sSize' = sSize + size[t]
    /\ held' = held \union {block[t]}
    /\ block' = [block EXCEPT ![t] = NoBlock]
    /\ UNCHANGED <<init, store, storeCount, maxStore, sCount, heap, capacity,
                   header, size>>

AllocReturns(t) ==
    /\ Goes(t, "counted", "idle")
    /\ sSize' = sSize + HeaderSize + size[t]
    /\ held' = held \union {block[t]}
    /\ block' = [block EXCEPT ![t] = NoBlock]
    /\ UNCHANGED <<init, store, storeCount, maxStore, sCount, heap, capacity, header, size>>

-----------------------------------------------------------------------------
(* __free, by whichever thread has the block.                              *)

Free(t, b) ==
    /\ Goes(t, "idle", "free")
    /\ held' = held \ {b}
    /\ block' = [block EXCEPT ![t] = b]
    /\ size' = [size EXCEPT ![t] = header[b] - HeaderSize]
    /\ UNCHANGED <<init, store, storeCount, maxStore, sCount, sSize, heap, capacity, header>>

FreeCounts(t) ==
    /\ Goes(t, "free", "uncounted")
    /\ sCount' = sCount - 1
    /\ UNCHANGED <<init, store, storeCount, maxStore, sSize, heap, capacity, header, held,
                   size, block>>

FreeSizes(t) ==
    /\ Goes(t, "uncounted", "freeProbe")
    /\ sSize' = sSize - (HeaderSize + size[t])
    /\ UNCHANGED <<init, store, storeCount, maxStore, sCount, heap, capacity, header, held,
                   size, block>>

FreeProbes(t) ==
    LET n == size[t]
    IN  /\ Goes(t, "freeProbe",
                IF n >= SlotLimit \/ maxStore[n] = 0 THEN "release" ELSE "push")
        /\ UNCHANGED <<init, store, storeCount, maxStore, sCount, sSize, heap, capacity,
                       header, held, size, block>>

\* Mutant of HasRoom: one block too many.
HasRoomForOneMore(n) == storeCount[n] <= maxStore[n]

HasRoom(n) == storeCount[n] < maxStore[n]

FreeKeeps(t) ==
    LET n == size[t]
        b == block[t]
    IN  /\ Goes(t, "push", "idle")
        /\ HasRoom(n)
        /\ header' = [header EXCEPT ![b] = Link]
        /\ store' = [store EXCEPT ![n] = <<b>> \o @]
        /\ storeCount' = [storeCount EXCEPT ![n] = @ + 1]
        /\ block' = [block EXCEPT ![t] = NoBlock]
        /\ UNCHANGED <<init, maxStore, sCount, sSize, heap, capacity, held, size>>

FreeFindsFull(t) ==
    /\ Goes(t, "push", "release")
    /\ ~HasRoom(size[t])
    /\ UNCHANGED <<init, store, storeCount, maxStore, sCount, sSize, heap, capacity,
                   header, held, size, block>>

FreeReleases(t) ==
    /\ Goes(t, "release", "idle")
    /\ heap' = heap \union {block[t]}
    /\ block' = [block EXCEPT ![t] = NoBlock]
    /\ UNCHANGED <<init, store, storeCount, maxStore, sCount, sSize, capacity, header,
                   held, size>>

-----------------------------------------------------------------------------
\* __dynamic_set_cache, all of it under the lock.
SetCache(n, number) ==
    /\ n < SlotLimit
    /\ number > maxStore[n]
    /\ maxStore' = [maxStore EXCEPT ![n] = number]
    /\ UNCHANGED <<init, store, storeCount, sCount, sSize, heap, capacity, header, held,
                   at, size, block>>

AllocStep(t) == \/ AllocProbes(t) \/ AllocPops(t) \/ AllocFindsNone(t)
                \/ AllocMallocs(t) \/ AllocFails(t) \/ AllocCounts(t)
                \/ AllocReturns(t)
FreeStep(t)  == \/ FreeCounts(t) \/ FreeSizes(t) \/ FreeProbes(t) \/ FreeKeeps(t)
                \/ FreeFindsFull(t) \/ FreeReleases(t)

Next == \/ \E t \in Threads :
             \/ \E n \in Sizes : Alloc(t, n)
             \/ \E b \in held : Free(t, b)
             \/ AllocStep(t) \/ FreeStep(t)
        \/ \E n \in Sizes : InitTests(n) \/ InitWrites(n)
        \/ \E n \in Sizes, number \in CacheNumbers : SetCache(n, number)

Spec == Init /\ [][Next]_vars

-----------------------------------------------------------------------------
(* Properties.                                                             *)

Places == {"idle", "probe", "pop", "malloc", "header", "counted",
           "free", "uncounted", "freeProbe", "push", "release"}

\* The threads that have a block in their hands.
Busy == {t \in Threads : at[t] \in {"header", "counted", "free", "uncounted",
                                    "freeProbe", "push", "release"}}

\* Every variable has its type, and a thread has a block where its code does.
TypeOK ==
    /\ init \in [Sizes -> {"todo", "write", "done"}]
    /\ store \in [Sizes -> Seq(Blocks)]
    /\ storeCount \in [Sizes -> Int]
    /\ maxStore \in [Sizes -> Nat]
    /\ sCount \in Int /\ sSize \in Int
    /\ heap \subseteq Blocks /\ held \subseteq Blocks
    /\ capacity \in [Blocks -> Nat]
    /\ header \in [Blocks -> Nat \union {Link}]
    /\ at \in [Threads -> Places]
    /\ size \in [Threads -> Int]
    /\ block \in [Threads -> Blocks \union {NoBlock}]
    /\ \A t \in Threads : t \in Busy <=> block[t] # NoBlock

Kept == UNION {{store[n][i] : i \in DOMAIN store[n]} : n \in Sizes}

\* A block is with the system, on one list and once, with one caller, or in
\* the hands of one thread inside __alloc or __free: no two callers are ever
\* given the same memory, and none is lost.
OneHolder ==
    /\ Blocks = heap \union held \union Kept \union {block[t] : t \in Busy}
    /\ heap \intersect held = {}
    /\ (heap \union held) \intersect Kept = {}
    /\ \A t \in Busy : block[t] \notin heap \union held \union Kept
    /\ \A t, u \in Busy : block[t] = block[u] => t = u
    /\ \A m, n \in Sizes : \A i \in DOMAIN store[m], j \in DOMAIN store[n] :
          store[m][i] = store[n][j] => m = n /\ i = j

\* A caller's block is as large as what he asked for, whatever was in it
\* before: a list holds blocks of its size only, and the header that __free
\* reads is that of the block's own malloc, not a link.
RightSize ==
    /\ \A n \in Sizes : \A i \in DOMAIN store[n] : capacity[store[n][i]] = n
    /\ \A t \in Busy : capacity[block[t]] = size[t]
    /\ \A b \in held : header[b] = HeaderSize + capacity[b]

\* The counts under the lock are the lengths of the lists, and no list grows
\* beyond its limit, although limits are raised and probed meanwhile.
ListsBounded ==
    \A n \in Sizes : /\ storeCount[n] = Len(store[n])
                     /\ storeCount[n] <= maxStore[n]

\* s_count and s_size account for the callers' blocks and for what the
\* threads inside __alloc and __free have counted so far; so they are exact
\* when no thread is inside, and never negative.
UsageExact ==
    LET Bytes(b) == HeaderSize + capacity[b]
        inCount  == {block[t] : t \in {u \in Busy : at[u] \in {"counted", "free"}}}
        inSize   == {block[t] : t \in {u \in Busy : at[u] \in {"free", "uncounted"}}}
    IN  /\ sCount = Cardinality(held \union inCount)
        /\ sSize = MapThenSumSet(Bytes, held \union inSize)
=============================================================================
