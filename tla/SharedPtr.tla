----------------------------- MODULE SharedPtr -----------------------------
(***************************************************************************)
(* CmtSharedPtr (mt_shared_ptr.h): handles of several threads on objects   *)
(* that are reclaimed with their last handle.  Each access to the atomic   *)
(* counter is a step, and what comes before and after it others.           *)
(*                                                                         *)
(* The class asks of its users what every C++ object does: a handle is     *)
(* used by one thread at a time.  The servers hand a handle from thread to *)
(* thread inside a task.  No handle is assigned to itself, and an object   *)
(* is adopted by one handle only.  The return that both assignments lack   *)
(* is left out.                                                            *)
(***************************************************************************)
EXTENDS Integers, FiniteSets

CONSTANTS
    Threads,
    Handles,    \* places for a handle: an empty one stands for no handle too
    Objects     \* what new returns, each at most once

Null == "null"

ASSUME NullAssumption == Null \notin Objects /\ IsFiniteSet(Handles)

VARIABLES
    user,       \* the thread that may use each handle
    ptr,        \* m_ptr, and with it m_count, of each handle
    count,      \* the counter of each object
    life,       \* of each object and its counter
    doing       \* where each thread is in an operation, on which handle, and
                \* what the handle gets when it has let go of its object

vars == <<user, ptr, count, life, doing>>

Nothing == [get |-> "nothing"]
Idle == [at |-> "idle"]

Init ==
    /\ user \in [Handles -> Threads]
    /\ ptr = [h \in Handles |-> Null]
    /\ count = [o \in Objects |-> 0]
    /\ life = [o \in Objects |-> "unused"]
    /\ doing = [t \in Threads |-> Idle]

Uses(t, h) == doing[t] = Idle /\ user[h] = t

-----------------------------------------------------------------------------
(* What a handle can get.                                                  *)

\* A new counter, and 1 in it before anyone else knows of it.
Adopt(h, o) == /\ count' = [count EXCEPT ![o] = 1]
               /\ ptr' = [ptr EXCEPT ![h] = o]

New(o) == life[o] = "unused" /\ life' = [life EXCEPT ![o] = "live"]

Clear(h) == ptr' = [ptr EXCEPT ![h] = Null] /\ UNCHANGED count

\* The pointers are copied before the counter counts them.
CopyPointers(h, from) ==
    ptr' = [ptr EXCEPT ![h] = ptr[from]] /\ UNCHANGED count

\* Mutant of MovePointers: the source keeps its object.
MoveKeeps(h, from) == CopyPointers(h, from)

MovePointers(h, from) ==
    /\ ptr' = [ptr EXCEPT ![h] = ptr[from], ![from] = Null]
    /\ UNCHANGED count

\* Mutant of Counting: a copy is not counted.
CountingNothing(h, from) == Idle

\* What a thread that copied the pointers has still to do.
Counting(h, from) == IF ptr[from] = Null THEN Idle ELSE [at |-> "count", handle |-> h]

-----------------------------------------------------------------------------
(* The constructors.                                                       *)

Construct(t, h, o) ==
    /\ Uses(t, h) /\ ptr[h] = Null
    /\ New(o) /\ Adopt(h, o)
    /\ UNCHANGED <<user, doing>>

CopyConstruct(t, h, from) ==
    /\ Uses(t, h) /\ user[from] = t
    /\ ptr[h] = Null
    /\ CopyPointers(h, from)
    /\ doing' = [doing EXCEPT ![t] = Counting(h, from)]
    /\ UNCHANGED <<user, life>>

\* ++*m_count.
Count(t) ==
    /\ doing[t].at = "count"
    /\ count' = [count EXCEPT ![ptr[doing[t].handle]] = @ + 1]
    /\ doing' = [doing EXCEPT ![t] = Idle]
    /\ UNCHANGED <<user, ptr, life>>

MoveConstruct(t, h, from) ==
    /\ Uses(t, h) /\ user[from] = t
    /\ ptr[h] = Null
    /\ MovePointers(h, from)
    /\ UNCHANGED <<user, life, doing>>

-----------------------------------------------------------------------------
(* The destructor, reset and both assignments: the old object first.       *)

Gifts(t, h) ==
    {Nothing} \union [get : {"new"}, object : Objects]
              \union [get : {"copy", "move"}, from : {f \in Handles \ {h} : user[f] = t}]

LastOne(h) == ptr[h] # Null /\ count[ptr[h]] = 1

\* m_count != nullptr && 0 == --*m_count.
Decrement(h) ==
    count' = IF ptr[h] = Null THEN count ELSE [count EXCEPT ![ptr[h]] = @ - 1]

\* The new object of reset exists before the call.
LetGo(t, h, gift) ==
    /\ Uses(t, h)
    /\ gift \in Gifts(t, h)
    /\ Decrement(h)
    /\ doing' = [doing EXCEPT ![t] =
                    [at |-> IF LastOne(h) THEN "delete counter" ELSE "get",
                     handle |-> h, gift |-> gift]]
    /\ IF gift.get = "new" THEN New(gift.object) ELSE UNCHANGED life
    /\ UNCHANGED <<user, ptr>>

DeleteCounter(t) ==
    /\ doing[t].at = "delete counter"
    /\ life' = [life EXCEPT ![ptr[doing[t].handle]] = "uncounted"]
    /\ doing' = [doing EXCEPT ![t].at = "delete object"]
    /\ UNCHANGED <<user, ptr, count>>

DeleteObject(t) ==
    /\ doing[t].at = "delete object"
    /\ life' = [life EXCEPT ![ptr[doing[t].handle]] = "deleted"]
    /\ doing' = [doing EXCEPT ![t].at = "get"]
    /\ UNCHANGED <<user, ptr, count>>

\* Then the new one.
Get(t) ==
    /\ doing[t].at = "get"
    /\ LET h == doing[t].handle
           gift == doing[t].gift
       IN  /\ CASE gift.get = "nothing" -> Clear(h)
                [] gift.get = "new" -> Adopt(h, gift.object)
                [] gift.get = "copy" -> CopyPointers(h, gift.from)
                [] gift.get = "move" -> MovePointers(h, gift.from)
           /\ doing' = [doing EXCEPT ![t] =
                           IF gift.get = "copy" THEN Counting(h, gift.from) ELSE Idle]
    /\ UNCHANGED <<user, life>>

-----------------------------------------------------------------------------
\* A handle goes to another thread, as the handle in a task does.
HandOver(t, h, u) ==
    /\ Uses(t, h)
    /\ user' = [user EXCEPT ![h] = u]
    /\ UNCHANGED <<ptr, count, life, doing>>

Finish(t) == Count(t) \/ DeleteCounter(t) \/ DeleteObject(t) \/ Get(t)

Begin(t, h) ==
    \/ \E o \in Objects : Construct(t, h, o)
    \/ \E from \in Handles \ {h} : CopyConstruct(t, h, from) \/ MoveConstruct(t, h, from)
    \/ \E gift \in Gifts(t, h) : LetGo(t, h, gift)
    \/ \E u \in Threads \ {t} : HandOver(t, h, u)

Next == \E t \in Threads : Finish(t) \/ \E h \in Handles : Begin(t, h)

Spec == Init /\ [][Next]_vars

-----------------------------------------------------------------------------
(* Properties.                                                             *)

Busy(h) == doing[user[h]] # Idle /\ doing[user[h]].handle = h

\* The handles that the counter should count: not one that has let go of the
\* object and still points to it, nor one that is about to be counted.
Holders(o) == {h \in Handles : ptr[h] = o /\ ~Busy(h)}

Promised(o) == \E t \in Threads : doing[t] # Idle /\ doing[t].at # "count"
                                   /\ doing[t].gift = [get |-> "new", object |-> o]

Forgotten(o) == life[o] = "live" /\ Holders(o) = {} /\ ~Promised(o)

Deleting(t) == doing[t].at \in {"delete counter", "delete object"}
Deleters(o) == {t \in Threads : Deleting(t) /\ ptr[doing[t].handle] = o}

\* Every variable has its type, and handles and objects agree: the counter is
\* the number of handles that hold the object, whatever other threads are in
\* the middle of; whoever holds an object or is about to be counted finds it
\* alive; and what nobody holds any more is being deleted, by one thread.
CountExact ==
    /\ user \in [Handles -> Threads]
    /\ ptr \in [Handles -> Objects \union {Null}]
    /\ life \in [Objects -> {"unused", "live", "uncounted", "deleted"}]
    /\ \A o \in Objects : life[o] = "live" => count[o] = Cardinality(Holders(o))
    /\ \A o \in Objects : Holders(o) # {} => life[o] = "live"
    /\ \A t \in Threads : doing[t].at = "count" => life[ptr[doing[t].handle]] = "live"
    /\ \A t \in Threads : Deleting(t) => life[ptr[doing[t].handle]] =
           IF doing[t].at = "delete counter" THEN "live" ELSE "uncounted"
    /\ \A o \in Objects : Cardinality(Deleters(o)) =
           IF life[o] = "uncounted" \/ Forgotten(o) THEN 1 ELSE 0

\* A thread that finds unique() true stays alone with the object until it does
\* something about it itself: the servers' tasks give up a connection on that.
UniqueStays ==
    [][\A h \in Handles :
         /\ ptr[h] # Null /\ ~Busy(h) /\ count[ptr[h]] = 1
         /\ ptr'[h] = ptr[h] /\ user'[h] = user[h]
         /\ doing'[user[h]] = doing[user[h]]
         => count'[ptr[h]] = 1 /\ life'[ptr[h]] = "live"]_vars
=============================================================================
