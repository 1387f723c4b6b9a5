-------------------------- MODULE SharedPtrProofs --------------------------
(***************************************************************************)
(* Proofs about SharedPtr, for any threads and objects and finitely many   *)
(* handles.                                                                *)
(*                                                                         *)
(* CountExact is not inductive: it does not say why a thread that is about *)
(* to count still finds the object alive (another handle of this thread    *)
(* holds it), nor that an object on its way into a handle is pointed to by *)
(* nobody.  IInv says both.                                                *)
(***************************************************************************)
EXTENDS SharedPtr, FiniteSetTheorems, TLAPS

Lives == {"unused", "live", "uncounted", "deleted"}
Work  == {"delete counter", "delete object", "get"}

AnyGift == {Nothing} \union [get : {"new"}, object : Objects]
                     \union [get : {"copy", "move"}, from : Handles]

Doings == {Idle} \union [at : {"count"}, handle : Handles]
                 \union [at : Work, handle : Handles, gift : AnyGift]

TypeInv ==
    /\ user \in [Handles -> Threads]
    /\ ptr \in [Handles -> Objects \union {Null}]
    /\ count \in [Objects -> Int]
    /\ life \in [Objects -> Lives]
    /\ doing \in [Threads -> Doings]

\* A thread in an operation uses the handles it is about.
UserInv ==
    \A t \in Threads :
        /\ doing[t] # Idle => user[doing[t].handle] = t
        /\ doing[t].at \in Work /\ doing[t].gift.get \in {"copy", "move"} =>
               user[doing[t].gift.from] = t /\ doing[t].gift.from # doing[t].handle

CountInv == \A o \in Objects : life[o] = "live" => count[o] = Cardinality(Holders(o))

HeldInv == \A h \in Handles : ptr[h] # Null /\ ~Busy(h) => life[ptr[h]] = "live"

\* Who is about to count has the object in another handle too.
Counts(t, o) == doing[t].at = "count" /\ ptr[doing[t].handle] = o

CountingInv ==
    \A t \in Threads, o \in Objects \union {Null} : Counts(t, o) =>
        /\ o # Null
        /\ \E f \in Handles \ {doing[t].handle} : user[f] = t /\ ptr[f] = o

UnusedInv ==
    \A o \in Objects : life[o] = "unused" => count[o] = 0 /\ \A h \in Handles : ptr[h] # o

Promises(t, o) ==
    doing[t].at \in Work /\ doing[t].gift.get = "new" /\ doing[t].gift.object = o

PromiseInv ==
    \A t \in Threads, o \in Objects : Promises(t, o) =>
        /\ life[o] = "live"
        /\ \A h \in Handles : ptr[h] # o
        /\ \A u \in Threads : Promises(u, o) => u = t

Deletes(t, o) == Deleting(t) /\ ptr[doing[t].handle] = o

DeleteInv ==
    \A t \in Threads, o \in Objects \union {Null} : Deletes(t, o) =>
        /\ o # Null
        /\ life[o] = IF doing[t].at = "delete counter" THEN "live" ELSE "uncounted"
        /\ Holders(o) = {}
        /\ \A u \in Threads : Deletes(u, o) => u = t

ReclaimInv ==
    \A o \in Objects :
        life[o] = "uncounted" \/ (life[o] = "live" /\ Holders(o) = {}
                                  /\ \A t \in Threads : ~Promises(t, o))
        => \E t \in Threads : Deletes(t, o)

IInv == /\ TypeInv /\ UserInv /\ CountInv /\ HeldInv /\ CountingInv
        /\ UnusedInv /\ PromiseInv /\ DeleteInv /\ ReclaimInv

-----------------------------------------------------------------------------
(* Types, and who uses which handle.                                       *)

\* What TypeInv says of one thread.
LEMMA Shape ==
    ASSUME TypeInv, NEW t \in Threads
    PROVE  /\ doing[t].at \in {"idle", "count"} \union Work
           /\ doing[t] # Idle <=> doing[t].at # "idle"
           /\ doing[t].at # "idle" => doing[t].handle \in Handles
           /\ doing[t].at \in Work => doing[t].gift \in AnyGift
           /\ doing[t].at \in Work =>
                  doing[t] \in [at : Work, handle : Handles, gift : AnyGift]
<1>1. doing[t] \in Doings
  BY DEF TypeInv
<1>0. Idle.at = "idle" /\ "idle" \notin Work /\ "count" \notin Work
  BY DEF Idle, Work
<1>2. CASE doing[t] = Idle
  BY <1>0, <1>2
<1>3. CASE doing[t] \in [at : {"count"}, handle : Handles]
  <2>1. doing[t].at = "count" /\ doing[t].handle \in Handles
    BY <1>3
  <2> QED
    BY <1>0, <2>1
<1>4. CASE doing[t] \in [at : Work, handle : Handles, gift : AnyGift]
  <2>1. doing[t].at \in Work /\ doing[t].handle \in Handles /\ doing[t].gift \in AnyGift
    BY <1>4
  <2>2. doing[t].at # "idle" /\ doing[t] # Idle
    BY <1>0, <2>1
  <2> QED
    BY <1>4, <2>1, <2>2
<1> QED
  BY <1>1, <1>2, <1>3, <1>4 DEF Doings

LEMMA GiftShape ==
    ASSUME NEW g \in AnyGift
    PROVE  /\ g.get \in {"nothing", "new", "copy", "move"}
           /\ g.get = "new" => g.object \in Objects
           /\ g.get \in {"copy", "move"} => g.from \in Handles
  BY DEF AnyGift, Nothing

LEMMA GiftsAreGifts ==
    ASSUME NEW t \in Threads, NEW h \in Handles, NEW g \in Gifts(t, h)
    PROVE  /\ g \in AnyGift
           /\ g.get \in {"copy", "move"} => user[g.from] = t /\ g.from # h
  BY DEF Gifts, AnyGift, Nothing

\* What the counting of a copy leaves a thread to do.
LEMMA CountingShape ==
    ASSUME TypeInv, NEW h \in Handles, NEW f \in Handles
    PROVE  /\ Counting(h, f) \in Doings
           /\ Counting(h, f) # Idle => ptr[f] # Null
           /\ Counting(h, f) # Idle => /\ Counting(h, f).at = "count"
                                       /\ Counting(h, f).handle = h
           /\ ptr[f] # Null => Counting(h, f) # Idle
  BY DEF Counting, Doings, Idle

\* A step leaves the thread t idle, or in an operation on h.
LEMMA UserStep ==
    ASSUME TypeInv, UserInv, NEW t \in Threads, NEW d \in Doings,
           doing' = [doing EXCEPT ![t] = d], user' = user,
           d # Idle => user[d.handle] = t,
           d.at \in Work /\ d.gift.get \in {"copy", "move"} =>
               user[d.gift.from] = t /\ d.gift.from # d.handle
    PROVE  UserInv' /\ doing' \in [Threads -> Doings]
<1>1. doing' \in [Threads -> Doings]
  BY DEF TypeInv
<1>2. \A u \in Threads : doing'[u] = IF u = t THEN d ELSE doing[u]
  BY DEF TypeInv
<1> QED
  BY <1>1, <1>2 DEF UserInv

LEMMA ConstructKeepsTypes ==
    ASSUME TypeInv, UserInv, NEW t \in Threads, NEW h \in Handles, NEW o \in Objects,
           Construct(t, h, o)
    PROVE  TypeInv' /\ UserInv'
  BY DEF TypeInv, UserInv, Construct, New, Adopt, Lives

LEMMA CopyConstructKeepsTypes ==
    ASSUME TypeInv, UserInv, NEW t \in Threads, NEW h \in Handles, NEW f \in Handles,
           CopyConstruct(t, h, f)
    PROVE  TypeInv' /\ UserInv'
<1>1. UserInv' /\ doing' \in [Threads -> Doings]
  <2>1. Counting(h, f).at \notin Work
    BY DEF Counting, Idle, Work
  <2>2. Counting(h, f) # Idle => user[Counting(h, f).handle] = t
    BY CountingShape DEF CopyConstruct, Uses
  <2> QED
    BY <2>1, <2>2, CountingShape, UserStep DEF CopyConstruct
<1> QED
  BY <1>1 DEF TypeInv, CopyConstruct, CopyPointers

LEMMA CountKeepsTypes ==
    ASSUME TypeInv, UserInv, CountingInv, NEW t \in Threads, Count(t)
    PROVE  TypeInv' /\ UserInv'
<1>1. UserInv' /\ doing' \in [Threads -> Doings]
  <2>1. Idle \in Doings /\ Idle.at \notin Work
    BY DEF Doings, Idle, Work
  <2> QED
    BY <2>1, UserStep DEF Count
<1>2. ptr[doing[t].handle] \in Objects
  <2>1. doing[t].handle \in Handles
    BY Shape DEF Count
  <2> QED
    BY <2>1 DEF Count, CountingInv, Counts, TypeInv
<1> QED
  BY <1>1, <1>2 DEF TypeInv, Count

LEMMA MoveConstructKeepsTypes ==
    ASSUME TypeInv, UserInv, NEW t \in Threads, NEW h \in Handles, NEW f \in Handles,
           MoveConstruct(t, h, f)
    PROVE  TypeInv' /\ UserInv'
  BY DEF TypeInv, UserInv, MoveConstruct, MovePointers

LEMMA LetGoKeepsTypes ==
    ASSUME TypeInv, UserInv, NEW t \in Threads, NEW h \in Handles, NEW g \in Gifts(t, h),
           LetGo(t, h, g)
    PROVE  TypeInv' /\ UserInv'
<1> DEFINE d == [at |-> IF LastOne(h) THEN "delete counter" ELSE "get",
                 handle |-> h, gift |-> g]
<1>1. d \in Doings /\ d.handle = h /\ d.gift = g
  BY GiftsAreGifts DEF Doings, Work
<1>2. user[h] = t /\ doing' = [doing EXCEPT ![t] = d] /\ user' = user
  BY DEF LetGo, Uses
<1> HIDE DEF d
<1>3. g.get \in {"copy", "move"} => user[g.from] = t /\ g.from # h
  BY GiftsAreGifts
<1>6. UserInv' /\ doing' \in [Threads -> Doings]
  BY <1>1, <1>2, <1>3, UserStep
<1>4. count' \in [Objects -> Int]
  <2>1. CASE ptr[h] = Null
    BY <2>1 DEF TypeInv, LetGo, Decrement
  <2>2. CASE ptr[h] # Null
    <3>1. ptr[h] \in Objects /\ count \in [Objects -> Int]
      BY <2>2 DEF TypeInv
    <3>2. count[ptr[h]] - 1 \in Int
      BY <3>1
    <3>3. count' = [count EXCEPT ![ptr[h]] = count[ptr[h]] - 1]
      BY <2>2 DEF LetGo, Decrement
    <3> QED
      BY <3>1, <3>2, <3>3
  <2> QED
    BY <2>1, <2>2
<1>5. life' \in [Objects -> Lives]
  <2>1. CASE g.get = "new"
    BY <2>1, GiftsAreGifts, GiftShape, ZenonT(60) DEF TypeInv, LetGo, New, Lives
  <2>2. CASE g.get # "new"
    BY <2>2 DEF TypeInv, LetGo
  <2> QED
    BY <2>1, <2>2
<1> QED
  BY <1>6, <1>4, <1>5 DEF TypeInv, LetGo

LEMMA DeleteCounterKeepsTypes ==
    ASSUME TypeInv, UserInv, DeleteInv, NEW t \in Threads, DeleteCounter(t)
    PROVE  TypeInv' /\ UserInv'
<1> DEFINE d == [doing[t] EXCEPT !.at = "delete object"]
<1>1. doing[t] \in [at : Work, handle : Handles, gift : AnyGift]
  BY Shape DEF DeleteCounter, Work
<1>2. d \in Doings /\ d.handle = doing[t].handle /\ d.gift = doing[t].gift /\ d # Idle
  BY <1>1 DEF Doings, Work, Idle
<1>3. doing' = [doing EXCEPT ![t] = d] /\ user' = user
  BY DEF DeleteCounter
<1> HIDE DEF d
<1>4. doing[t] # Idle /\ doing[t].at \in Work
  BY Shape DEF DeleteCounter, Work
<1>5. UserInv' /\ doing' \in [Threads -> Doings]
  BY <1>2, <1>3, <1>4, UserStep DEF UserInv
<1> QED
  BY <1>5 DEF TypeInv, DeleteCounter, Lives

LEMMA DeleteObjectKeepsTypes ==
    ASSUME TypeInv, UserInv, DeleteInv, NEW t \in Threads, DeleteObject(t)
    PROVE  TypeInv' /\ UserInv'
<1> DEFINE d == [doing[t] EXCEPT !.at = "get"]
<1>1. doing[t] \in [at : Work, handle : Handles, gift : AnyGift]
  BY Shape DEF DeleteObject, Work
<1>2. d \in Doings /\ d.handle = doing[t].handle /\ d.gift = doing[t].gift /\ d # Idle
  BY <1>1 DEF Doings, Work, Idle
<1>3. doing' = [doing EXCEPT ![t] = d] /\ user' = user
  BY DEF DeleteObject
<1> HIDE DEF d
<1>4. doing[t] # Idle /\ doing[t].at \in Work
  BY Shape DEF DeleteObject, Work
<1>5. UserInv' /\ doing' \in [Threads -> Doings]
  BY <1>2, <1>3, <1>4, UserStep DEF UserInv
<1> QED
  BY <1>5 DEF TypeInv, DeleteObject, Lives

\* The four ways of Get, of which one is taken.
GetsNothing(t) == doing[t].gift.get = "nothing" /\ Clear(doing[t].handle)
GetsNew(t)  == doing[t].gift.get = "new" /\ Adopt(doing[t].handle, doing[t].gift.object)
GetsCopy(t) == doing[t].gift.get = "copy" /\ CopyPointers(doing[t].handle, doing[t].gift.from)
GetsMove(t) == doing[t].gift.get = "move" /\ MovePointers(doing[t].handle, doing[t].gift.from)

LEMMA GetCases ==
    ASSUME TypeInv, UserInv, NEW t \in Threads, Get(t)
    PROVE  /\ doing[t].at = "get" /\ doing[t] # Idle
           /\ doing[t].handle \in Handles /\ user[doing[t].handle] = t
           /\ user' = user /\ life' = life
           /\ GetsNothing(t) \/ GetsNew(t) \/ GetsCopy(t) \/ GetsMove(t)
           /\ doing[t].gift.get = "new" => doing[t].gift.object \in Objects
           /\ doing[t].gift.get \in {"copy", "move"} =>
                  /\ doing[t].gift.from \in Handles
                  /\ user[doing[t].gift.from] = t
                  /\ doing[t].gift.from # doing[t].handle
           /\ doing' = [doing EXCEPT ![t] =
                           IF doing[t].gift.get = "copy"
                           THEN Counting(doing[t].handle, doing[t].gift.from) ELSE Idle]
<1>1. doing[t].at = "get" /\ doing[t].at \in Work /\ doing[t].at # "idle"
  BY DEF Get, Work
<1>2. doing[t] # Idle /\ doing[t].handle \in Handles /\ doing[t].gift \in AnyGift
  BY <1>1, Shape
<1>3. /\ doing[t].gift.get \in {"nothing", "new", "copy", "move"}
      /\ doing[t].gift.get = "new" => doing[t].gift.object \in Objects
      /\ doing[t].gift.get \in {"copy", "move"} => doing[t].gift.from \in Handles
  BY <1>2, GiftShape
<1>4. GetsNothing(t) \/ GetsNew(t) \/ GetsCopy(t) \/ GetsMove(t)
  BY <1>3 DEF Get, GetsNothing, GetsNew, GetsCopy, GetsMove
<1> QED
  BY <1>1, <1>2, <1>3, <1>4 DEF Get, UserInv

LEMMA GetKeepsTypes ==
    ASSUME TypeInv, UserInv, NEW t \in Threads, Get(t)
    PROVE  TypeInv' /\ UserInv'
<1> DEFINE h == doing[t].handle
           g == doing[t].gift
           d == IF g.get = "copy" THEN Counting(h, g.from) ELSE Idle
<1>1. h \in Handles /\ user[h] = t /\ user' = user
  BY GetCases
<1>2. d \in Doings /\ d.at \notin Work /\ (d # Idle => d.handle = h)
  <2>1. CASE g.get = "copy"
    <3>1. g.from \in Handles
      BY <2>1, GetCases
    <3>2. d = Counting(h, g.from)
      BY <2>1
    <3> QED
      BY <1>1, <3>1, <3>2, CountingShape DEF Counting, Idle, Work
  <2>2. CASE g.get # "copy"
    BY <2>2 DEF Doings, Idle, Work
  <2> QED
    BY <2>1, <2>2
<1>3. doing' = [doing EXCEPT ![t] = d]
  BY GetCases
<1> HIDE DEF d
<1>4. UserInv' /\ doing' \in [Threads -> Doings]
  BY <1>1, <1>2, <1>3, UserStep
<1>5. ptr' \in [Handles -> Objects \union {Null}] /\ count' \in [Objects -> Int]
  BY <1>1, GetCases DEF TypeInv, GetsNothing, GetsNew, GetsCopy, GetsMove,
                        Clear, Adopt, CopyPointers, MovePointers
<1> QED
  BY <1>4, <1>5, GetCases DEF TypeInv

LEMMA HandOverKeepsTypes ==
    ASSUME TypeInv, UserInv, NEW t \in Threads, NEW h \in Handles, NEW u \in Threads,
           HandOver(t, h, u)
    PROVE  TypeInv' /\ UserInv'
<1>1. \A k \in Handles : user'[k] # user[k] => k = h /\ user[k] = t
  BY DEF TypeInv, HandOver, Uses
<1>2. TypeInv'
  BY DEF TypeInv, HandOver
<1>3. ASSUME NEW v \in Threads
      PROVE  /\ doing[v] # Idle => user'[doing[v].handle] = v
             /\ doing[v].at \in Work /\ doing[v].gift.get \in {"copy", "move"} =>
                    user'[doing[v].gift.from] = v /\ doing[v].gift.from # doing[v].handle
  <2>1. CASE v = t
    <3>1. doing[v] = Idle /\ doing[v].at = "idle"
      BY <2>1 DEF HandOver, Uses, Idle
    <3> QED
      BY <3>1 DEF Work
  <2>2. CASE v # t
    <3>1. doing[v] # Idle => doing[v].handle \in Handles /\ user[doing[v].handle] = v
      BY Shape DEF UserInv
    <3>2. doing[v].at \in Work /\ doing[v].gift.get \in {"copy", "move"} =>
              /\ doing[v].gift.from \in Handles
              /\ user[doing[v].gift.from] = v /\ doing[v].gift.from # doing[v].handle
      BY Shape, GiftShape DEF UserInv
    <3> QED
      BY <1>1, <2>2, <3>1, <3>2
  <2> QED
    BY <2>1, <2>2
<1> QED
  BY <1>2, <1>3 DEF UserInv, HandOver

-----------------------------------------------------------------------------
(* Which handles hold, before and after a step.                            *)

\* The threads in the middle of something, with what TypeInv and UserInv say.
LEMMA Workers ==
    ASSUME TypeInv, UserInv
    PROVE  \A u \in Threads : doing[u] # Idle =>
               /\ doing[u].handle \in Handles /\ user[doing[u].handle] = u
               /\ Busy(doing[u].handle)
  BY Shape DEF UserInv, Busy

LEMMA AtWork ==
    ASSUME TypeInv
    PROVE  \A u \in Threads : doing[u].at = "count" \/ doing[u].at \in Work \/ Deleting(u)
                              => doing[u] # Idle
  BY Shape DEF Work, Deleting

\* A handle that an idle thread may use is in no operation.
LEMMA FreeHandle ==
    ASSUME TypeInv, UserInv, NEW t \in Threads, NEW h \in Handles,
           doing[t] = Idle, user[h] = t
    PROVE  /\ ~Busy(h)
           /\ \A u \in Threads : doing[u] # Idle => doing[u].handle # h
<1>1. ~Busy(h)
  BY DEF Busy
<1> QED
  BY <1>1, Workers

\* After a step of t that leaves the users alone.
LEMMA BusyStep ==
    ASSUME TypeInv, UserInv, NEW t \in Threads, NEW d,
           doing' = [doing EXCEPT ![t] = d], user' = user
    PROVE  \A k \in Handles :
               Busy(k)' <=> IF user[k] = t THEN d # Idle /\ d.handle = k ELSE Busy(k)
<1>1. \A u \in Threads : doing'[u] = IF u = t THEN d ELSE doing[u]
  BY DEF TypeInv
<1>2. \A k \in Handles : user[k] \in Threads
  BY DEF TypeInv
<1> QED
  BY <1>1, <1>2 DEF Busy, Idle

-----------------------------------------------------------------------------
(* Construction.                                                           *)

Rest == /\ CountInv /\ HeldInv /\ CountingInv /\ UnusedInv
        /\ PromiseInv /\ DeleteInv /\ ReclaimInv

LEMMA ConstructStep ==
    ASSUME IInv, NEW t \in Threads, NEW h \in Handles, NEW o \in Objects,
           Construct(t, h, o)
    PROVE  Rest'
<1> USE DEF IInv
<1>1. /\ doing[t] = Idle /\ user[h] = t /\ ptr[h] = Null /\ life[o] = "unused"
      /\ ptr' = [ptr EXCEPT ![h] = o] /\ count' = [count EXCEPT ![o] = 1]
      /\ life' = [life EXCEPT ![o] = "live"] /\ user' = user /\ doing' = doing
  BY DEF Construct, Uses, New, Adopt
<1>2. /\ \A k \in Handles : ptr'[k] = IF k = h THEN o ELSE ptr[k]
      /\ \A x \in Objects : count'[x] = IF x = o THEN 1 ELSE count[x]
      /\ \A x \in Objects : life'[x] = IF x = o THEN "live" ELSE life[x]
      /\ o # Null
  BY <1>1, NullAssumption DEF TypeInv
<1>3. ~Busy(h) /\ \A u \in Threads : doing[u] # Idle => doing[u].handle # h
  BY <1>1, FreeHandle
<1>4. \A k \in Handles : Busy(k)' <=> Busy(k)
  BY <1>1 DEF Busy
<1>5. \A k \in Handles : ptr[k] # o
  BY <1>1 DEF UnusedInv
<1>6. \A x \in Objects : Holders(x)' = IF x = o THEN {h} ELSE Holders(x)
  BY <1>1, <1>2, <1>3, <1>4, <1>5, NullAssumption DEF Holders
<1>7. \A u \in Threads : doing[u] # Idle => /\ doing[u].handle \in Handles
                                            /\ ptr'[doing[u].handle] = ptr[doing[u].handle]
  BY <1>2, <1>3, Workers
<1>8. CountInv'
  BY <1>2, <1>6, FS_Singleton, ZenonT(60) DEF CountInv
<1>9. HeldInv'
  BY <1>1, <1>2, <1>4, <1>5 DEF HeldInv, TypeInv
<1>11. UnusedInv'
  BY <1>1, <1>2 DEF UnusedInv
<1>12. PromiseInv'
  BY <1>1, <1>2 DEF PromiseInv, Promises
<1>13. \A u \in Threads, x \in Objects \union {Null} :
           (Deletes(u, x)' <=> Deletes(u, x)) /\ (Counts(u, x)' <=> Counts(u, x))
  BY <1>1, <1>7, AtWork DEF Deletes, Deleting, Counts
<1>10. CountingInv'
  BY <1>1, <1>2, <1>13 DEF CountingInv
<1>14. DeleteInv'
  <2>1. \A u \in Threads : ~Deletes(u, o)
    BY <1>5, Workers, AtWork DEF Deletes
  <2>2. \A u \in Threads : doing'[u] = doing[u]
    BY <1>1
  <2> QED
    <3> SUFFICES ASSUME NEW u \in Threads, NEW x \in Objects \union {Null}, Deletes(u, x)
                 PROVE  /\ x \in Objects /\ x # o
                        /\ life[x] = IF doing[u].at = "delete counter" THEN "live" ELSE "uncounted"
                        /\ Holders(x) = {}
                        /\ \A v \in Threads : Deletes(v, x) => v = u
      BY <1>2, <1>6, <1>13, <2>2, ZenonT(60) DEF DeleteInv
    <3> QED
      BY <2>1 DEF DeleteInv
<1>15. ReclaimInv'
  BY <1>1, <1>2, <1>6, <1>13 DEF ReclaimInv, Promises
<1> QED
  BY <1>8, <1>9, <1>10, <1>11, <1>12, <1>14, <1>15 DEF Rest

-----------------------------------------------------------------------------
(* A handle that holds nothing gets something, in a constructor or after   *)
(* its thread has let go of what it held.                                  *)

Vacant(t, h, get) ==
    /\ user[h] = t
    /\ \/ doing[t] = Idle /\ ptr[h] = Null
       \/ doing[t].at = "get" /\ doing[t].handle = h /\ doing[t].gift.get = get

LEMMA VacantIsQuiet ==
    ASSUME TypeInv, UserInv, NEW t \in Threads, NEW h \in Handles, NEW get, Vacant(t, h, get)
    PROVE  /\ h \notin UNION {Holders(x) : x \in Objects}
           /\ \A u \in Threads : doing[u] # Idle /\ u # t => doing[u].handle # h
           /\ \A f \in Handles : f # h /\ user[f] = t => ~Busy(f)
           /\ ~Deleting(t) /\ doing[t].at # "count"
           /\ \A x \in Objects : Promises(t, x) => get = "new"
<1>1. \/ doing[t] = Idle /\ doing[t].at = "idle" /\ ptr[h] = Null
      \/ doing[t] # Idle /\ doing[t].at = "get" /\ doing[t].handle = h
  BY Shape DEF Vacant, Idle
<1>2. Busy(h) \/ ptr[h] = Null
  BY <1>1 DEF Vacant, Busy
<1>3. h \notin UNION {Holders(x) : x \in Objects}
  BY <1>2, NullAssumption DEF Holders
<1>4. \A u \in Threads : doing[u] # Idle /\ u # t => doing[u].handle # h
  BY DEF UserInv, Vacant
<1>5. \A f \in Handles : f # h /\ user[f] = t => ~Busy(f)
  BY <1>1 DEF Busy
<1>6. doing[t].at = "idle" \/ doing[t].at = "get"
  BY <1>1
<1>7. ~Deleting(t) /\ doing[t].at # "count"
  BY <1>6 DEF Deleting
<1>8. \A x \in Objects : Promises(t, x) => get = "new"
  <2>1. "idle" \notin Work
    BY DEF Work
  <2> QED
    BY <2>1, <1>6 DEF Promises, Vacant, Idle
<1> QED
  BY <1>3, <1>4, <1>5, <1>7, <1>8

\* What a thread does that is not in a step stays as it is, while the handles
\* that others work on stay as they are.
OthersAlike(t) ==
    \A u \in Threads, x \in Objects \union {Null} : u # t =>
        /\ doing'[u] = doing[u]
        /\ Deletes(u, x)' <=> Deletes(u, x)
        /\ Counts(u, x)' <=> Counts(u, x)
        /\ Promises(u, x)' <=> Promises(u, x)

LEMMA OthersStay ==
    ASSUME TypeInv, UserInv, NEW t \in Threads, NEW d,
           doing' = [doing EXCEPT ![t] = d], user' = user,
           \A k \in Handles : user[k] # t => ptr'[k] = ptr[k]
    PROVE  OthersAlike(t)
<1>1. \A u \in Threads : doing'[u] = IF u = t THEN d ELSE doing[u]
  BY DEF TypeInv
<1>2. \A u \in Threads : u # t /\ doing[u] # Idle => ptr'[doing[u].handle] = ptr[doing[u].handle]
  BY Workers
<1>3. ASSUME NEW u \in Threads, NEW x \in Objects \union {Null}, u # t
      PROVE  /\ doing'[u] = doing[u]
             /\ Deletes(u, x)' <=> Deletes(u, x)
             /\ Counts(u, x)' <=> Counts(u, x)
             /\ Promises(u, x)' <=> Promises(u, x)
  <2>1. doing'[u] = doing[u]
    BY <1>1, <1>3
  <2>2. Deletes(u, x)' <=> Deletes(u, x)
    BY <2>1, <1>2, <1>3, AtWork DEF Deletes, Deleting
  <2>3. Counts(u, x)' <=> Counts(u, x)
    BY <2>1, <1>2, <1>3, AtWork DEF Counts
  <2> QED
    BY <2>1, <2>2, <2>3 DEF Promises
<1> QED
  BY <1>3 DEF OthersAlike

LEMMA ClearStep ==
    ASSUME IInv, NEW t \in Threads, NEW h \in Handles, NEW get, Vacant(t, h, get),
           get # "new",
           ptr' = [ptr EXCEPT ![h] = Null],
           doing' = [doing EXCEPT ![t] = Idle], UNCHANGED <<user, count, life>>
    PROVE  Rest'
<1> USE DEF IInv
<1>1. /\ \A k \in Handles : ptr'[k] = IF k = h THEN Null ELSE ptr[k]
      /\ doing'[t] = Idle
  BY DEF TypeInv
<1>2. OthersAlike(t)
  <2>1. \A k \in Handles : user[k] # t => ptr'[k] = ptr[k]
    BY <1>1 DEF Vacant
  <2> QED
    BY <2>1, OthersStay
<1>3. \A x \in Objects \union {Null} : /\ ~Deletes(t, x) /\ ~Counts(t, x) /\ (x # Null => ~Promises(t, x))
                                       /\ ~Deletes(t, x)' /\ ~Counts(t, x)' /\ ~Promises(t, x)'
  <2>1. "idle" \notin Work /\ doing'[t].at = "idle"
    BY <1>1 DEF Work, Idle
  <2>2. ~Deleting(t) /\ doing[t].at # "count" /\ \A x \in Objects : ~Promises(t, x)
    BY VacantIsQuiet
  <2>3. \A x \in Objects \union {Null} : ~Deletes(t, x) /\ ~Counts(t, x)
    BY <2>2 DEF Deletes, Counts
  <2>4. \A x \in Objects \union {Null} : ~Deletes(t, x)' /\ ~Counts(t, x)' /\ ~Promises(t, x)'
    BY <2>1 DEF Deletes, Counts, Promises, Deleting
  <2> QED
    BY <2>2, <2>3, <2>4
<1>4. \A k \in Handles : k # h => (Busy(k)' <=> Busy(k))
  BY VacantIsQuiet, BusyStep
<1>5. \A x \in Objects : Holders(x)' = Holders(x)
  BY <1>1, <1>4, VacantIsQuiet, NullAssumption DEF Holders
<1>6. CountInv'
  BY <1>5 DEF CountInv
<1>7. HeldInv'
  BY <1>1, <1>4 DEF HeldInv
<1>8. CountingInv'
  BY <1>1, <1>2, <1>3 DEF CountingInv, Vacant, OthersAlike
<1>9. UnusedInv'
  BY <1>1, NullAssumption DEF UnusedInv
<1>10. PromiseInv'
  BY <1>1, <1>2, <1>3, NullAssumption DEF PromiseInv, OthersAlike
<1>11. DeleteInv'
  <2> SUFFICES ASSUME NEW u \in Threads, NEW x \in Objects \union {Null}, Deletes(u, x)'
               PROVE  /\ x # Null
                      /\ life'[x] = IF doing'[u].at = "delete counter" THEN "live" ELSE "uncounted"
                      /\ Holders(x)' = {}
                      /\ \A v \in Threads : Deletes(v, x)' => v = u
    BY DEF DeleteInv
  <2>1. u # t /\ doing'[u] = doing[u] /\ Deletes(u, x)
    BY <1>2, <1>3 DEF OthersAlike
  <2>2. /\ x # Null /\ Holders(x) = {}
        /\ life[x] = IF doing[u].at = "delete counter" THEN "live" ELSE "uncounted"
    BY <2>1 DEF DeleteInv
  <2>3. Holders(x)' = {}
    BY <1>5, <2>2
  <2>4. ASSUME NEW v \in Threads, Deletes(v, x)' PROVE v = u
    <3>1. v # t /\ Deletes(v, x)
      BY <1>2, <1>3, <2>4 DEF OthersAlike
    <3> QED
      BY <2>1, <3>1 DEF DeleteInv
  <2>5. life'[x] = life[x]
    BY <1>1
  <2> QED
    BY <2>1, <2>2, <2>3, <2>4, <2>5
<1>12. ReclaimInv'
  BY <1>2, <1>3, <1>5, NullAssumption DEF ReclaimInv, OthersAlike
<1> QED
  BY <1>6, <1>7, <1>8, <1>9, <1>10, <1>11, <1>12 DEF Rest

LEMMA NewStep ==
    ASSUME IInv, NEW t \in Threads, NEW h \in Handles, NEW o \in Objects,
           Vacant(t, h, "new"), Promises(t, o),
           ptr' = [ptr EXCEPT ![h] = o], count' = [count EXCEPT ![o] = 1],
           doing' = [doing EXCEPT ![t] = Idle], UNCHANGED <<user, life>>
    PROVE  Rest'
<1> USE DEF IInv
<1>1. /\ \A k \in Handles : ptr'[k] = IF k = h THEN o ELSE ptr[k]
      /\ \A x \in Objects : count'[x] = IF x = o THEN 1 ELSE count[x]
      /\ doing'[t] = Idle
  BY DEF TypeInv
<1>2. OthersAlike(t)
  <2>1. \A k \in Handles : user[k] # t => ptr'[k] = ptr[k]
    BY <1>1 DEF Vacant
  <2> QED
    BY <2>1, OthersStay
<1>3. \A x \in Objects \union {Null} : /\ ~Deletes(t, x) /\ ~Counts(t, x)
                                       /\ ~Deletes(t, x)' /\ ~Counts(t, x)' /\ ~Promises(t, x)'
  <2>1. "idle" \notin Work /\ doing'[t].at = "idle"
    BY <1>1 DEF Work, Idle
  <2>2. ~Deleting(t) /\ doing[t].at # "count"
    BY VacantIsQuiet
  <2>3. \A x \in Objects \union {Null} : ~Deletes(t, x) /\ ~Counts(t, x)
    BY <2>2 DEF Deletes, Counts
  <2>4. \A x \in Objects \union {Null} : ~Deletes(t, x)' /\ ~Counts(t, x)' /\ ~Promises(t, x)'
    BY <2>1 DEF Deletes, Counts, Promises, Deleting
  <2> QED
    BY <2>3, <2>4
<1>4. \A k \in Handles : k # h => (Busy(k)' <=> Busy(k))
  BY VacantIsQuiet, BusyStep
<1>a. /\ life[o] = "live" /\ o # Null
      /\ \A k \in Handles : ptr[k] # o
      /\ \A u \in Threads : Promises(u, o) => u = t
      /\ \A u \in Threads : ~Deletes(u, o) /\ ~Counts(u, o)
      /\ \A x \in Objects : Promises(t, x) => x = o
  <2>1. life[o] = "live" /\ o # Null /\ \A k \in Handles : ptr[k] # o
    BY NullAssumption DEF PromiseInv
  <2>2. \A u \in Threads : ~Deletes(u, o) /\ ~Counts(u, o)
    BY <2>1, Workers, AtWork DEF Deletes, Counts
  <2> QED
    BY <2>1, <2>2 DEF PromiseInv, Promises
<1>b. ~Busy(h)'
  BY VacantIsQuiet, BusyStep DEF Vacant
<1>5. \A x \in Objects : Holders(x)' = IF x = o THEN {h} ELSE Holders(x)
  BY <1>1, <1>4, <1>a, <1>b, VacantIsQuiet, NullAssumption DEF Holders
<1>6. CountInv'
  BY <1>1, <1>5, FS_Singleton DEF CountInv
<1>7. HeldInv'
  BY <1>1, <1>4, <1>a DEF HeldInv
<1>8. CountingInv'
  BY <1>1, <1>2, <1>3 DEF CountingInv, Vacant, OthersAlike
<1>9. UnusedInv'
  BY <1>1, <1>a DEF UnusedInv
<1>10. PromiseInv'
  BY <1>1, <1>2, <1>3, <1>a, NullAssumption DEF PromiseInv, OthersAlike
<1>11. DeleteInv'
  <2> SUFFICES ASSUME NEW u \in Threads, NEW x \in Objects \union {Null}, Deletes(u, x)'
               PROVE  /\ x # Null
                      /\ life'[x] = IF doing'[u].at = "delete counter" THEN "live" ELSE "uncounted"
                      /\ Holders(x)' = {}
                      /\ \A v \in Threads : Deletes(v, x)' => v = u
    BY DEF DeleteInv
  <2>1. u # t /\ Deletes(u, x) /\ x # o /\ doing'[u] = doing[u]
    BY <1>2, <1>3, <1>a DEF OthersAlike
  <2>2. \A v \in Threads : Deletes(v, x)' => Deletes(v, x)
    BY <1>2, <1>3 DEF OthersAlike
  <2> QED
    BY <1>5, <2>1, <2>2 DEF DeleteInv
<1>12. ReclaimInv'
  BY <1>2, <1>3, <1>5, <1>a, NullAssumption DEF ReclaimInv, OthersAlike
<1> QED
  BY <1>6, <1>7, <1>8, <1>9, <1>10, <1>11, <1>12 DEF Rest

LEMMA CopyStep ==
    ASSUME IInv, NEW t \in Threads, NEW h \in Handles, NEW f \in Handles, NEW get,
           Vacant(t, h, get), get # "new", f # h, user[f] = t,
           ptr' = [ptr EXCEPT ![h] = ptr[f]],
           doing' = [doing EXCEPT ![t] = Counting(h, f)], UNCHANGED <<user, count, life>>
    PROVE  Rest'
<1> USE DEF IInv
<1>0. user' = user /\ count' = count /\ life' = life /\ user[h] = t
  BY DEF Vacant
<1>1. CASE ptr[f] = Null
  <2>1. Counting(h, f) = Idle
    BY <1>1 DEF Counting
  <2> QED
    BY <1>1, <2>1, ClearStep
<1>2. CASE ptr[f] # Null
  <2> DEFINE o == ptr[f]
  <2>1. /\ \A k \in Handles : ptr'[k] = IF k = h THEN o ELSE ptr[k]
        /\ doing'[t] = Counting(h, f) /\ o \in Objects
    BY <1>2 DEF TypeInv
  <2>2. /\ doing'[t].at = "count" /\ doing'[t].handle = h /\ doing'[t] # Idle
        /\ Counting(h, f) # Idle /\ Counting(h, f).handle = h
    BY <1>2, <2>1, CountingShape
  <2>3. ~Busy(f) /\ f \in Holders(o) /\ life[o] = "live"
    BY <1>2, VacantIsQuiet DEF Holders, HeldInv
  <2> HIDE DEF o
  <2>4. OthersAlike(t)
    <3>1. \A k \in Handles : user[k] # t => ptr'[k] = ptr[k]
      BY <1>0, <2>1
    <3> QED
      BY <1>0, <3>1, OthersStay
  <2>5. \A x \in Objects \union {Null} :
            /\ ~Deletes(t, x) /\ ~Counts(t, x) /\ (x # Null => ~Promises(t, x))
            /\ ~Deletes(t, x)' /\ (Counts(t, x)' <=> x = o) /\ ~Promises(t, x)'
    <3>1. "count" \notin Work
      BY DEF Work
    <3>2. ~Deleting(t) /\ doing[t].at # "count" /\ \A x \in Objects : ~Promises(t, x)
      BY VacantIsQuiet
    <3>3. \A x \in Objects \union {Null} : ~Deletes(t, x) /\ ~Counts(t, x)
      BY <3>2 DEF Deletes, Counts
    <3>4. ptr'[h] = o
      BY <2>1
    <3>5. \A x \in Objects \union {Null} :
              ~Deletes(t, x)' /\ (Counts(t, x)' <=> x = o) /\ ~Promises(t, x)'
      BY <2>2, <3>1, <3>4 DEF Deletes, Counts, Promises, Deleting
    <3> QED
      BY <3>2, <3>3, <3>5
  <2>6. /\ \A k \in Handles : k # h => (Busy(k)' <=> Busy(k))
        /\ Busy(h)'
    BY <1>0, <2>2, VacantIsQuiet, BusyStep
  <2>7. \A x \in Objects : Holders(x)' = Holders(x)
    BY <2>1, <2>6, VacantIsQuiet DEF Holders
  <2>8. CountInv'
    BY <1>0, <2>7 DEF CountInv
  <2>9. HeldInv'
    BY <1>0, <2>1, <2>6 DEF HeldInv
  <2>10. CountingInv'
    <3> SUFFICES ASSUME NEW u \in Threads, NEW x \in Objects \union {Null}, Counts(u, x)'
                 PROVE  /\ x # Null
                        /\ \E k \in Handles \ {doing'[u].handle} : user[k] = u /\ ptr'[k] = x
      BY <1>0 DEF CountingInv
    <3>1. CASE u = t
      <4>1. x = o /\ ptr'[f] = o /\ doing'[t].handle = h
        BY <2>1, <2>2, <2>5, <3>1 DEF o
      <4> QED
        BY <1>2, <3>1, <4>1 DEF o
    <3>2. CASE u # t
      BY <1>0, <2>1, <2>4, <3>2 DEF CountingInv, OthersAlike
    <3> QED
      BY <3>1, <3>2
  <2>11. UnusedInv'
    BY <1>0, <2>1, <2>3 DEF UnusedInv
  <2>12. PromiseInv'
    BY <1>0, <2>1, <2>4, <2>5, NullAssumption DEF PromiseInv, OthersAlike, o
  <2>13. DeleteInv'
    BY <1>0, <2>4, <2>5, <2>7, ZenonT(60) DEF DeleteInv, OthersAlike
  <2>14. ReclaimInv'
    BY <1>0, <2>4, <2>5, <2>7, NullAssumption DEF ReclaimInv, OthersAlike
  <2> QED
    BY <2>8, <2>9, <2>10, <2>11, <2>12, <2>13, <2>14 DEF Rest
<1> QED
  BY <1>1, <1>2

LEMMA MoveStep ==
    ASSUME IInv, NEW t \in Threads, NEW h \in Handles, NEW f \in Handles, NEW get,
           Vacant(t, h, get), get # "new", f # h, user[f] = t,
           ptr' = [ptr EXCEPT ![h] = ptr[f], ![f] = Null],
           doing' = [doing EXCEPT ![t] = Idle], UNCHANGED <<user, count, life>>
    PROVE  Rest'
<1> USE DEF IInv
<1>0. user' = user /\ count' = count /\ life' = life /\ user[h] = t
  BY DEF Vacant
<1>1. CASE ptr[f] = Null
  <2>1. ptr' = [ptr EXCEPT ![h] = Null]
    BY <1>1 DEF TypeInv
  <2> QED
    BY <2>1, ClearStep
<1>2. CASE ptr[f] # Null
  <2> DEFINE o == ptr[f]
  <2>1. /\ \A k \in Handles : ptr'[k] = IF k = f THEN Null ELSE IF k = h THEN o ELSE ptr[k]
        /\ doing'[t] = Idle /\ o \in Objects
    BY <1>2 DEF TypeInv
  <2>3. ~Busy(f) /\ f \in Holders(o) /\ life[o] = "live" /\ ptr[f] = o
    BY <1>2, VacantIsQuiet DEF Holders, HeldInv
  <2> HIDE DEF o
  <2>4. OthersAlike(t)
    <3>1. \A k \in Handles : user[k] # t => ptr'[k] = ptr[k]
      BY <1>0, <2>1
    <3> QED
      BY <1>0, <3>1, OthersStay
  <2>5. \A x \in Objects \union {Null} :
            /\ ~Deletes(t, x) /\ ~Counts(t, x) /\ (x # Null => ~Promises(t, x))
            /\ ~Deletes(t, x)' /\ ~Counts(t, x)' /\ ~Promises(t, x)'
    <3>1. "idle" \notin Work /\ doing'[t].at = "idle"
      BY <2>1 DEF Work, Idle
    <3>2. ~Deleting(t) /\ doing[t].at # "count" /\ \A x \in Objects : ~Promises(t, x)
      BY VacantIsQuiet
    <3>3. \A x \in Objects \union {Null} : ~Deletes(t, x) /\ ~Counts(t, x)
      BY <3>2 DEF Deletes, Counts
    <3>4. \A x \in Objects \union {Null} : ~Deletes(t, x)' /\ ~Counts(t, x)' /\ ~Promises(t, x)'
      BY <3>1 DEF Deletes, Counts, Promises, Deleting
    <3> QED
      BY <3>2, <3>3, <3>4
  <2>6. /\ \A k \in Handles : k # h => (Busy(k)' <=> Busy(k))
        /\ ~Busy(h)'
    BY <1>0, VacantIsQuiet, BusyStep
  <2>a. /\ ptr'[f] = Null /\ ptr'[h] = o /\ o # Null
        /\ \A k \in Handles : k # f /\ k # h => ptr'[k] = ptr[k]
    BY <2>1, NullAssumption
  <2>b. /\ \A x \in Objects : h \notin Holders(x)
        /\ \A x \in Objects, k \in Handles : ptr'[k] = x <=>
               \/ k = h /\ x = o
               \/ k # f /\ k # h /\ ptr[k] = x
    BY <2>a, VacantIsQuiet, NullAssumption
  <2>7. \A x \in Objects :
            Holders(x)' = IF x = o THEN (Holders(o) \ {f}) \union {h} ELSE Holders(x)
    <3> SUFFICES ASSUME NEW x \in Objects, NEW k \in Handles
                 PROVE  k \in Holders(x)' <=>
                            IF x = o THEN (k \in Holders(o) /\ k # f) \/ k = h ELSE k \in Holders(x)
      <4>1. \A x \in Objects : Holders(x)' \subseteq Handles /\ Holders(x) \subseteq Handles
        BY DEF Holders
      <4> QED
        BY <2>1, <4>1
    <3>0. k \in Holders(x)' <=> ptr'[k] = x /\ ~Busy(k)'
      BY DEF Holders
    <3>1. \A y \in Objects : k \in Holders(y) <=> ptr[k] = y /\ ~Busy(k)
      BY DEF Holders
    <3>2. CASE k = h
      BY <2>a, <2>b, <2>6, <3>2, <3>0, NullAssumption
    <3>3. CASE k = f
      BY <2>a, <2>b, <2>3, <3>1, <3>3, <3>0, NullAssumption
    <3>4. CASE k # f /\ k # h
      BY <2>1, <2>a, <2>6, <3>1, <3>4, <3>0, NullAssumption
    <3> QED
      BY <3>2, <3>3, <3>4
  <2>8. Cardinality((Holders(o) \ {f}) \union {h}) = Cardinality(Holders(o))
    <3>1. IsFiniteSet(Holders(o)) /\ h \notin Holders(o) \ {f}
      BY <2>1, FS_Subset, NullAssumption, VacantIsQuiet DEF Holders
    <3>2. IsFiniteSet(Holders(o) \ {f})
          /\ Cardinality(Holders(o) \ {f}) = Cardinality(Holders(o)) - 1
      BY <2>3, <3>1, FS_RemoveElement
    <3>3. Cardinality((Holders(o) \ {f}) \union {h}) = Cardinality(Holders(o) \ {f}) + 1
      BY <3>1, <3>2, FS_AddElement
    <3>4. Cardinality(Holders(o)) \in Nat
      BY <3>1, FS_CardinalityType
    <3> QED
      BY <3>2, <3>3, <3>4
  <2>9. CountInv'
    BY <1>0, <2>7, <2>8 DEF CountInv
  <2>10. HeldInv'
    BY <1>0, <2>1, <2>3, <2>6 DEF HeldInv
  <2>11. CountingInv'
    <3> SUFFICES ASSUME NEW u \in Threads, NEW x \in Objects \union {Null}, Counts(u, x)'
                 PROVE  /\ x # Null
                        /\ \E k \in Handles \ {doing'[u].handle} : user'[k] = u /\ ptr'[k] = x
      BY DEF CountingInv
    <3>1. Counts(u, x) /\ doing'[u] = doing[u] /\ u # t
      BY <2>4, <2>5 DEF OthersAlike
    <3>2. PICK k \in Handles \ {doing[u].handle} : user[k] = u /\ ptr[k] = x
      BY <3>1 DEF CountingInv
    <3>3. k \in Handles /\ k # h /\ k # f
      BY <1>0, <3>1, <3>2
    <3>4. ptr'[k] = x
      BY <2>a, <3>2, <3>3
    <3> QED
      BY <1>0, <3>1, <3>2, <3>4 DEF CountingInv
  <2>12. UnusedInv'
    BY <1>0, <2>b, <2>3, ZenonT(60) DEF UnusedInv
  <2>13. PromiseInv'
    <3>1. \A u \in Threads, x \in Objects : Promises(u, x)' => Promises(u, x) /\ x # o
      BY <2>3, <2>4, <2>5 DEF PromiseInv, OthersAlike
    <3> SUFFICES ASSUME NEW u \in Threads, NEW x \in Objects, Promises(u, x)'
                 PROVE  /\ life[x] = "live"
                        /\ \A k \in Handles : ptr'[k] # x
                        /\ \A v \in Threads : Promises(v, x)' => v = u
      BY <1>0 DEF PromiseInv
    <3> QED
      BY <2>b, <3>1 DEF PromiseInv
  <2>14. DeleteInv'
    <3> SUFFICES ASSUME NEW u \in Threads, NEW x \in Objects \union {Null}, Deletes(u, x)'
                 PROVE  /\ x # Null
                        /\ life[x] = IF doing'[u].at = "delete counter" THEN "live" ELSE "uncounted"
                        /\ Holders(x)' = {}
                        /\ \A v \in Threads : Deletes(v, x)' => v = u
      BY <1>0 DEF DeleteInv
    <3>1. u # t /\ Deletes(u, x) /\ doing'[u] = doing[u]
      BY <2>4, <2>5 DEF OthersAlike
    <3>2. x # Null /\ x # o
      BY <2>3, <3>1 DEF DeleteInv
    <3> QED
      BY <2>4, <2>5, <2>7, <3>1, <3>2, ZenonT(60) DEF DeleteInv, OthersAlike
  <2>15. ReclaimInv'
    <3>1. \A x \in Objects : Holders(x)' = {} => x # o /\ Holders(x) = {}
      BY <2>7
    <3> QED
      BY <1>0, <2>3, <2>4, <2>5, <3>1, NullAssumption DEF ReclaimInv, OthersAlike
  <2> QED
    BY <2>9, <2>10, <2>11, <2>12, <2>13, <2>14, <2>15 DEF Rest
<1> QED
  BY <1>1, <1>2

-----------------------------------------------------------------------------
(* The other steps.                                                        *)

LEMMA HoldersFinite ==
    ASSUME NEW o
    PROVE  IsFiniteSet(Holders(o)) /\ Cardinality(Holders(o)) \in Nat
  BY FS_Subset, FS_CardinalityType, NullAssumption DEF Holders

LEMMA CountStep ==
    ASSUME IInv, NEW t \in Threads, Count(t)
    PROVE  Rest'
<1> USE DEF IInv
<1> DEFINE h == doing[t].handle
           o == ptr[h]
<1>0. /\ user' = user /\ ptr' = ptr /\ life' = life /\ doing[t].at = "count"
      /\ doing' = [doing EXCEPT ![t] = Idle] /\ doing'[t] = Idle
      /\ count' = [count EXCEPT ![o] = count[o] + 1]
  BY DEF Count, TypeInv
<1>1. doing[t] # Idle /\ h \in Handles /\ user[h] = t /\ Busy(h) /\ doing[t].handle = h
  BY <1>0, AtWork, Workers
<1>2. Counts(t, o) /\ ptr[h] = o
  BY <1>0 DEF Counts
<1> HIDE DEF o, h
<1>3. o \in Objects \union {Null}
  BY <1>1, <1>2 DEF TypeInv
<1>4. o \in Objects /\ o # Null
  BY <1>2, <1>3 DEF CountingInv
<1>5. PICK f \in Handles \ {h} : user[f] = t /\ ptr[f] = o
  BY <1>1, <1>2, <1>3 DEF CountingInv
<1>6. ~Busy(f) /\ life[o] = "live" /\ f \in Holders(o)
  <2>1. ~Busy(f)
    BY <1>1, <1>5 DEF Busy
  <2> QED
    BY <1>4, <1>5, <2>1 DEF HeldInv, Holders
<1>7. \A k \in Handles : Busy(k)' <=> Busy(k) /\ k # h
  <2>1. \A k \in Handles : user[k] = t => (Busy(k) <=> k = h)
    BY <1>1 DEF Busy
  <2> QED
    BY <1>0, <1>1, <2>1, BusyStep
<1>8. \A x \in Objects : Holders(x)' = IF x = o THEN Holders(o) \union {h} ELSE Holders(x)
  <2> SUFFICES ASSUME NEW x \in Objects, NEW k \in Handles
               PROVE  k \in Holders(x)' <=>
                          IF x = o THEN k \in Holders(o) \/ k = h ELSE k \in Holders(x)
    <3>1. \A x \in Objects : Holders(x)' \subseteq Handles /\ Holders(x) \subseteq Handles
      BY DEF Holders
    <3> QED
      BY <1>1, <1>4, <3>1
  <2> QED
    BY <1>0, <1>1, <1>2, <1>7 DEF Holders
<1>9. OthersAlike(t)
  BY <1>0, OthersStay
<1>10. \A x \in Objects \union {Null} :
           /\ ~Deletes(t, x) /\ (x # Null => ~Promises(t, x))
           /\ ~Deletes(t, x)' /\ ~Counts(t, x)' /\ ~Promises(t, x)'
  <2>1. "idle" \notin Work /\ "count" \notin Work /\ doing'[t].at = "idle"
    BY <1>0 DEF Work, Idle
  <2> QED
    BY <2>1, <1>0 DEF Deletes, Deleting, Counts, Promises
<1>11. CountInv'
  <2>1. h \notin Holders(o)
    BY <1>1 DEF Holders
  <2>2. Cardinality(Holders(o) \union {h}) = Cardinality(Holders(o)) + 1
    BY <2>1, HoldersFinite, FS_AddElement
  <2>3. count[o] = Cardinality(Holders(o))
    BY <1>4, <1>6 DEF CountInv
  <2>4. \A x \in Objects : count'[x] = IF x = o THEN count[o] + 1 ELSE count[x]
    BY <1>0, <1>4 DEF TypeInv
  <2> QED
    BY <1>0, <1>8, <2>2, <2>3, <2>4 DEF CountInv
<1>12. HeldInv'
  BY <1>0, <1>2, <1>6, <1>7 DEF HeldInv
<1>13. CountingInv'
  BY <1>0, <1>9, <1>10 DEF CountingInv, OthersAlike
<1>14. UnusedInv'
  <2>1. \A x \in Objects : x # o => count'[x] = count[x]
    BY <1>0 DEF TypeInv
  <2> QED
    BY <1>0, <1>6, <2>1 DEF UnusedInv
<1>15. PromiseInv'
  <2>1. \A u \in Threads, x \in Objects : Promises(u, x)' => Promises(u, x)
    BY <1>9, <1>10 DEF OthersAlike
  <2> QED
    BY <1>0, <2>1 DEF PromiseInv
<1>16. DeleteInv'
  <2> SUFFICES ASSUME NEW u \in Threads, NEW x \in Objects \union {Null}, Deletes(u, x)'
               PROVE  /\ x # Null
                      /\ life[x] = IF doing'[u].at = "delete counter" THEN "live" ELSE "uncounted"
                      /\ Holders(x)' = {}
                      /\ \A v \in Threads : Deletes(v, x)' => v = u
    BY <1>0 DEF DeleteInv
  <2>1. u # t /\ Deletes(u, x) /\ doing'[u] = doing[u]
    BY <1>9, <1>10 DEF OthersAlike
  <2>2. /\ x # Null /\ x # o /\ Holders(x) = {} /\ \A v \in Threads : Deletes(v, x) => v = u
        /\ life[x] = IF doing[u].at = "delete counter" THEN "live" ELSE "uncounted"
    BY <1>6, <2>1 DEF DeleteInv
  <2>3. \A v \in Threads : Deletes(v, x)' => Deletes(v, x)
    BY <1>9, <1>10 DEF OthersAlike
  <2>4. Holders(x)' = {}
    BY <1>8, <2>2
  <2> QED
    BY <2>1, <2>2, <2>3, <2>4
<1>17. ReclaimInv'
  <2>1. \A x \in Objects : Holders(x)' = {} => x # o /\ Holders(x) = {}
    BY <1>8
  <2> QED
    BY <1>0, <1>6, <1>9, <1>10, <2>1, NullAssumption DEF ReclaimInv, OthersAlike
<1> QED
  BY <1>11, <1>12, <1>13, <1>14, <1>15, <1>16, <1>17 DEF Rest

\* The steps of a deletion: what is being deleted is held by nobody.
LEMMA DeletesOne ==
    ASSUME IInv, NEW t \in Threads, Deleting(t)
    PROVE  /\ doing[t] # Idle /\ doing[t].handle \in Handles
           /\ ptr[doing[t].handle] \in Objects
           /\ Deletes(t, ptr[doing[t].handle])
           /\ \A x \in Objects : Deletes(t, x) => x = ptr[doing[t].handle]
<1>1. doing[t] # Idle /\ doing[t].handle \in Handles
  BY AtWork, Workers DEF IInv
<1>2. Deletes(t, ptr[doing[t].handle]) /\ ptr[doing[t].handle] \in Objects \union {Null}
  BY <1>1 DEF Deletes, IInv, TypeInv
<1>3. ptr[doing[t].handle] \in Objects
  BY <1>2 DEF IInv, DeleteInv
<1> QED
  BY <1>1, <1>2, <1>3 DEF Deletes

LEMMA DeleteCounterStep ==
    ASSUME IInv, NEW t \in Threads, DeleteCounter(t)
    PROVE  Rest'
<1> USE DEF IInv
<1> DEFINE o == ptr[doing[t].handle]
<1>0. Deleting(t) /\ doing[t].at = "delete counter"
  BY DEF DeleteCounter, Deleting
<1>1. /\ user' = user /\ ptr' = ptr /\ count' = count
      /\ life' = [life EXCEPT ![o] = "uncounted"]
  BY DEF DeleteCounter
<1>2. o \in Objects /\ Deletes(t, o) /\ doing[t] # Idle
  BY <1>0, DeletesOne
<1>3. \E k \in Handles : ptr[k] = o
  BY <1>0, DeletesOne
<1> HIDE DEF o
<1>4. /\ life[o] = "live" /\ Holders(o) = {} /\ \A u \in Threads : Deletes(u, o) => u = t
      /\ \A u \in Threads : ~Promises(u, o)
  BY <1>0, <1>2, <1>3 DEF DeleteInv, PromiseInv
<1>5. \A x \in Objects : life'[x] = IF x = o THEN "uncounted" ELSE life[x]
  BY <1>1, <1>2 DEF TypeInv
<1>6. /\ \A u \in Threads : u # t => doing'[u] = doing[u]
      /\ doing'[t].at = "delete object" /\ doing'[t].handle = doing[t].handle
      /\ doing'[t] # Idle /\ doing'[t].gift = doing[t].gift
  <2>1. doing[t] \in [at : Work, handle : Handles, gift : AnyGift]
    BY <1>0, Shape DEF Work
  <2>2. doing' = [doing EXCEPT ![t] = [doing[t] EXCEPT !.at = "delete object"]]
    BY DEF DeleteCounter
  <2>3. doing'[t] = [doing[t] EXCEPT !.at = "delete object"]
    BY <2>2 DEF TypeInv
  <2>4. /\ doing'[t].at = "delete object" /\ doing'[t].handle = doing[t].handle
        /\ doing'[t].gift = doing[t].gift
    BY <2>1, <2>3
  <2>5. Idle.at = "idle"
    BY DEF Idle
  <2> QED
    BY <2>2, <2>4, <2>5 DEF TypeInv
<1>7. \A k \in Handles : Busy(k)' <=> Busy(k)
  <2>1. \A u \in Threads : (doing'[u] # Idle <=> doing[u] # Idle)
                           /\ (doing[u] # Idle => doing'[u].handle = doing[u].handle)
    BY <1>2, <1>6
  <2>2. \A k \in Handles : user[k] \in Threads
    BY DEF TypeInv
  <2> QED
    BY <1>1, <2>1, <2>2 DEF Busy
<1>8. \A x \in Objects : Holders(x)' = Holders(x)
  BY <1>1, <1>7 DEF Holders
<1>9. \A u \in Threads, x \in Objects \union {Null} :
          /\ Deletes(u, x)' <=> Deletes(u, x)
          /\ Counts(u, x)' <=> Counts(u, x)
  BY <1>0, <1>1, <1>6 DEF Deletes, Counts, Deleting
<1>10. \A u \in Threads, x \in Objects : Promises(u, x)' <=> Promises(u, x)
  <2>3. doing[t].at \in Work /\ doing'[t].at \in Work
    BY <1>0, <1>6 DEF Work
  <2> QED
    BY <1>6, <2>3 DEF Promises
<1>11. CountInv'
  BY <1>1, <1>5, <1>8 DEF CountInv
<1>12. HeldInv'
  BY <1>1, <1>4, <1>5, <1>7 DEF HeldInv, Holders, TypeInv
<1>13. CountingInv'
  <2>1. \A u \in Threads : doing'[u].handle = doing[u].handle
    BY <1>6
  <2> QED
    BY <1>1, <1>9, <2>1 DEF CountingInv
<1>14. UnusedInv'
  BY <1>1, <1>5 DEF UnusedInv
<1>15. PromiseInv'
  BY <1>1, <1>4, <1>5, <1>10 DEF PromiseInv
<1>16. DeleteInv'
  <2> SUFFICES ASSUME NEW u \in Threads, NEW x \in Objects \union {Null}, Deletes(u, x)
               PROVE  /\ x # Null
                      /\ life'[x] = IF doing'[u].at = "delete counter" THEN "live" ELSE "uncounted"
                      /\ Holders(x)' = {}
                      /\ \A v \in Threads : Deletes(v, x) => v = u
    BY <1>9 DEF DeleteInv
  <2>1. /\ x # Null /\ Holders(x) = {} /\ \A v \in Threads : Deletes(v, x) => v = u
        /\ life[x] = IF doing[u].at = "delete counter" THEN "live" ELSE "uncounted"
    BY DEF DeleteInv
  <2>2. CASE x = o
    BY <1>4, <1>5, <1>6, <1>8, <2>1, <2>2
  <2>3. CASE x # o
    <3>1. u # t
      BY <2>3, <1>2 DEF Deletes
    <3> QED
      BY <1>5, <1>6, <1>8, <2>1, <2>3, <3>1
  <2> QED
    BY <2>2, <2>3
<1>17. ReclaimInv'
  BY <1>2, <1>5, <1>8, <1>9, <1>10 DEF ReclaimInv
<1> QED
  BY <1>11, <1>12, <1>13, <1>14, <1>15, <1>16, <1>17 DEF Rest

LEMMA DeleteObjectStep ==
    ASSUME IInv, NEW t \in Threads, DeleteObject(t)
    PROVE  Rest'
<1> USE DEF IInv
<1> DEFINE o == ptr[doing[t].handle]
<1>0. Deleting(t) /\ doing[t].at = "delete object"
  BY DEF DeleteObject, Deleting
<1>1. /\ user' = user /\ ptr' = ptr /\ count' = count
      /\ life' = [life EXCEPT ![o] = "deleted"]
  BY DEF DeleteObject
<1>2. o \in Objects /\ Deletes(t, o) /\ doing[t] # Idle
  BY <1>0, DeletesOne
<1>3. \E k \in Handles : ptr[k] = o
  BY <1>0, DeletesOne
<1> HIDE DEF o
<1>4. /\ life[o] = "uncounted" /\ Holders(o) = {} /\ \A u \in Threads : Deletes(u, o) => u = t
      /\ \A u \in Threads : ~Promises(u, o)
  BY <1>0, <1>2, <1>3 DEF DeleteInv, PromiseInv
<1>5. \A x \in Objects : life'[x] = IF x = o THEN "deleted" ELSE life[x]
  BY <1>1, <1>2 DEF TypeInv
<1>6. /\ \A u \in Threads : u # t => doing'[u] = doing[u]
      /\ doing'[t].at = "get" /\ doing'[t].handle = doing[t].handle
      /\ doing'[t] # Idle /\ doing'[t].gift = doing[t].gift
  <2>1. doing[t] \in [at : Work, handle : Handles, gift : AnyGift]
    BY <1>0, Shape DEF Work
  <2>2. doing' = [doing EXCEPT ![t] = [doing[t] EXCEPT !.at = "get"]]
    BY DEF DeleteObject
  <2>3. doing'[t] = [doing[t] EXCEPT !.at = "get"]
    BY <2>2 DEF TypeInv
  <2>4. /\ doing'[t].at = "get" /\ doing'[t].handle = doing[t].handle
        /\ doing'[t].gift = doing[t].gift
    BY <2>1, <2>3
  <2>5. Idle.at = "idle"
    BY DEF Idle
  <2> QED
    BY <2>2, <2>4, <2>5 DEF TypeInv
<1>7. \A k \in Handles : Busy(k)' <=> Busy(k)
  <2>1. \A u \in Threads : (doing'[u] # Idle <=> doing[u] # Idle)
                           /\ (doing[u] # Idle => doing'[u].handle = doing[u].handle)
    BY <1>2, <1>6
  <2>2. \A k \in Handles : user[k] \in Threads
    BY DEF TypeInv
  <2> QED
    BY <1>1, <2>1, <2>2 DEF Busy
<1>8. \A x \in Objects : Holders(x)' = Holders(x)
  BY <1>1, <1>7 DEF Holders
<1>9. \A u \in Threads, x \in Objects \union {Null} :
          /\ Deletes(u, x)' <=> Deletes(u, x) /\ u # t
          /\ Counts(u, x)' <=> Counts(u, x)
  BY <1>0, <1>1, <1>6 DEF Deletes, Counts, Deleting
<1>10. \A u \in Threads, x \in Objects : Promises(u, x)' <=> Promises(u, x)
  <2>3. doing[t].at \in Work /\ doing'[t].at \in Work
    BY <1>0, <1>6 DEF Work
  <2> QED
    BY <1>6, <2>3 DEF Promises
<1>11. CountInv'
  BY <1>1, <1>5, <1>8 DEF CountInv
<1>12. HeldInv'
  BY <1>1, <1>4, <1>5, <1>7 DEF HeldInv, Holders, TypeInv
<1>13. CountingInv'
  <2>1. \A u \in Threads : doing'[u].handle = doing[u].handle
    BY <1>6
  <2> QED
    BY <1>1, <1>9, <2>1 DEF CountingInv
<1>14. UnusedInv'
  BY <1>1, <1>5 DEF UnusedInv
<1>15. PromiseInv'
  BY <1>1, <1>4, <1>5, <1>10 DEF PromiseInv
<1>16. DeleteInv'
  <2> SUFFICES ASSUME NEW u \in Threads, NEW x \in Objects \union {Null}, Deletes(u, x), u # t
               PROVE  /\ x # Null
                      /\ life'[x] = IF doing'[u].at = "delete counter" THEN "live" ELSE "uncounted"
                      /\ Holders(x)' = {}
                      /\ \A v \in Threads : Deletes(v, x) => v = u
    BY <1>9 DEF DeleteInv
  <2>1. /\ x # Null /\ Holders(x) = {} /\ \A v \in Threads : Deletes(v, x) => v = u
        /\ life[x] = IF doing[u].at = "delete counter" THEN "live" ELSE "uncounted"
    BY DEF DeleteInv
  <2>2. x # o /\ doing'[u] = doing[u]
    BY <1>4, <1>6
  <2> QED
    BY <1>5, <1>8, <2>1, <2>2
<1>17. ReclaimInv'
  <2>1. \A x \in Objects : Deletes(t, x) => x = o
    BY <1>2 DEF Deletes
  <2>2. "deleted" # "live" /\ "deleted" # "uncounted"
    OBVIOUS
  <2> QED
    BY <1>5, <1>8, <1>9, <1>10, <2>1, <2>2 DEF ReclaimInv
<1> QED
  BY <1>11, <1>12, <1>13, <1>14, <1>15, <1>16, <1>17 DEF Rest

LEMMA HandOverStep ==
    ASSUME IInv, NEW t \in Threads, NEW h \in Handles, NEW u \in Threads, HandOver(t, h, u)
    PROVE  Rest'
<1> USE DEF IInv
<1>0. /\ doing[t] = Idle /\ user[h] = t
      /\ ptr' = ptr /\ count' = count /\ life' = life /\ doing' = doing
      /\ user' = [user EXCEPT ![h] = u]
  BY DEF HandOver, Uses
<1>1. /\ \A k \in Handles : k # h => user'[k] = user[k]
      /\ user'[h] = u
  BY <1>0 DEF TypeInv
<1>2. ~Busy(h) /\ \A v \in Threads : doing[v] # Idle => doing[v].handle # h
  BY <1>0, FreeHandle
<1>3. \A k \in Handles : Busy(k)' <=> Busy(k)
  <2>1. ~Busy(h)'
    BY <1>0, <1>1, <1>2 DEF Busy
  <2>2. \A k \in Handles : k # h => (Busy(k)' <=> Busy(k))
    BY <1>0, <1>1 DEF Busy
  <2> QED
    BY <1>2, <2>1, <2>2
<1>4. \A x \in Objects : Holders(x)' = Holders(x)
  BY <1>0, <1>3 DEF Holders
<1>5. \A v \in Threads, x \in Objects \union {Null} :
          /\ Deletes(v, x)' <=> Deletes(v, x)
          /\ Counts(v, x)' <=> Counts(v, x)
          /\ Promises(v, x)' <=> Promises(v, x)
  BY <1>0 DEF Deletes, Deleting, Counts, Promises
<1>6. CountInv' /\ HeldInv' /\ UnusedInv'
  BY <1>0, <1>3, <1>4 DEF CountInv, HeldInv, UnusedInv
<1>7. CountingInv'
  <2> SUFFICES ASSUME NEW v \in Threads, NEW x \in Objects \union {Null}, Counts(v, x)
               PROVE  /\ x # Null
                      /\ \E k \in Handles \ {doing[v].handle} : user'[k] = v /\ ptr[k] = x
    BY <1>0, <1>5 DEF CountingInv
  <2>1. PICK k \in Handles \ {doing[v].handle} : user[k] = v /\ ptr[k] = x
    BY DEF CountingInv
  <2>2. doing[v] # Idle
    BY AtWork DEF Counts
  <2>3. k # h
    BY <1>0, <2>1, <2>2
  <2> QED
    BY <1>1, <2>1, <2>3 DEF CountingInv
<1>8. PromiseInv' /\ DeleteInv' /\ ReclaimInv'
  BY <1>0, <1>4, <1>5, ZenonT(60) DEF PromiseInv, DeleteInv, ReclaimInv
<1> QED
  BY <1>6, <1>7, <1>8 DEF Rest

LEMMA LetGoStep ==
    ASSUME IInv, NEW t \in Threads, NEW h \in Handles, NEW g \in Gifts(t, h), LetGo(t, h, g)
    PROVE  Rest'
<1> USE DEF IInv
<1> DEFINE d == [at |-> IF LastOne(h) THEN "delete counter" ELSE "get",
                 handle |-> h, gift |-> g]
<1>0. /\ doing[t] = Idle /\ user[h] = t
      /\ ptr' = ptr /\ user' = user /\ doing' = [doing EXCEPT ![t] = d] /\ doing'[t] = d
      /\ IF g.get = "new" THEN New(g.object) ELSE life' = life
      /\ Decrement(h)
  BY DEF LetGo, Uses, TypeInv
<1>1. /\ d.at = IF LastOne(h) THEN "delete counter" ELSE "get"
      /\ d.handle = h /\ d.gift = g
  OBVIOUS
<1> HIDE DEF d
<1>2. d # Idle /\ d.at \in Work /\ d.at # "count"
  <2>1. Idle.at = "idle" /\ "idle" \notin Work /\ "count" \notin Work
    BY DEF Idle, Work
  <2>2. d.at \in Work
    BY <1>1 DEF Work
  <2> QED
    BY <2>1, <2>2
<1>3. g.get = "new" => g.object \in Objects
  BY GiftsAreGifts, GiftShape
<1>4. ~Busy(h)
  BY <1>0, FreeHandle
<1>5. \A k \in Handles : Busy(k)' <=> Busy(k) \/ k = h
  <2>1. \A k \in Handles : user[k] = t => ~Busy(k)
    BY <1>0 DEF Busy
  <2> QED
    BY <1>0, <1>1, <1>2, <2>1, BusyStep
<1>6. \A x \in Objects : Holders(x)' = Holders(x) \ {h}
  <2> SUFFICES ASSUME NEW x \in Objects, NEW k \in Handles
               PROVE  k \in Holders(x)' <=> k \in Holders(x) /\ k # h
    <3>1. \A x \in Objects : Holders(x)' \subseteq Handles /\ Holders(x) \subseteq Handles
      BY DEF Holders
    <3> QED
      BY <3>1
  <2> QED
    BY <1>0, <1>5 DEF Holders
<1>7. OthersAlike(t)
  BY <1>0, OthersStay
<1>8. \A x \in Objects \union {Null} :
          /\ ~Deletes(t, x) /\ ~Counts(t, x) /\ ~Promises(t, x) /\ ~Counts(t, x)'
          /\ Deletes(t, x)' <=> LastOne(h) /\ x = ptr[h]
          /\ Promises(t, x)' <=> g.get = "new" /\ x = g.object
  <2>1. "idle" \notin Work /\ doing[t].at = "idle"
    BY <1>0 DEF Work, Idle
  <2>2. \A x \in Objects \union {Null} :
            /\ ~Deletes(t, x) /\ ~Counts(t, x) /\ ~Promises(t, x) /\ ~Counts(t, x)'
            /\ Promises(t, x)' <=> g.get = "new" /\ x = g.object
    BY <2>1, <1>0, <1>1, <1>2 DEF Deletes, Deleting, Counts, Promises
  <2>3. Deleting(t)' <=> LastOne(h)
    BY <1>0, <1>1 DEF Deleting
  <2>4. \A x \in Objects \union {Null} : Deletes(t, x)' <=> LastOne(h) /\ x = ptr[h]
    BY <1>0, <1>1, <2>3 DEF Deletes
  <2> QED
    BY <2>2, <2>4
\* The life of the objects: a new one is promised.
<1>9. /\ \A x \in Objects : life'[x] = IF g.get = "new" /\ x = g.object THEN "live" ELSE life[x]
      /\ g.get = "new" => /\ life[g.object] = "unused" /\ count[g.object] = 0
                          /\ \A k \in Handles : ptr[k] # g.object
  <2>1. CASE g.get = "new"
    BY <1>0, <1>3, <2>1 DEF New, UnusedInv, TypeInv
  <2>2. CASE g.get # "new"
    BY <1>0, <2>2
  <2> QED
    BY <2>1, <2>2
<1>10. \A x \in Objects : count'[x] = IF x = ptr[h] THEN count[x] - 1 ELSE count[x]
  BY <1>0, NullAssumption DEF Decrement, TypeInv
<1>11. ptr[h] # Null => ptr[h] \in Objects /\ h \in Holders(ptr[h]) /\ life[ptr[h]] = "live"
  BY <1>4 DEF HeldInv, Holders, TypeInv
<1>12. LastOne(h) <=> ptr[h] # Null /\ Holders(ptr[h]) = {h}
  <2>1. CASE ptr[h] = Null
    BY <2>1 DEF LastOne
  <2>2. CASE ptr[h] # Null
    <3>1. count[ptr[h]] = Cardinality(Holders(ptr[h]))
      BY <1>11, <2>2 DEF CountInv
    <3>2. Cardinality(Holders(ptr[h])) = 1 <=> \E k : Holders(ptr[h]) = {k}
      BY HoldersFinite, FS_Singleton
    <3> QED
      BY <1>11, <2>2, <3>1, <3>2 DEF LastOne
  <2> QED
    BY <2>1, <2>2
<1>13. CountInv'
  <2> SUFFICES ASSUME NEW x \in Objects, life'[x] = "live"
               PROVE  count'[x] = Cardinality(Holders(x) \ {h})
    BY <1>6 DEF CountInv
  <2>1. CASE g.get = "new" /\ x = g.object
    <3>1. Holders(x) \ {h} = {}
      BY <1>9, <2>1 DEF Holders
    <3> QED
      BY <1>9, <1>10, <2>1, <3>1, FS_EmptySet
  <2>2. CASE ~(g.get = "new" /\ x = g.object)
    <3>1. count[x] = Cardinality(Holders(x)) /\ Cardinality(Holders(x)) \in Nat
      BY <1>9, <2>2, HoldersFinite DEF CountInv
    <3>2. Cardinality(Holders(x) \ {h}) = IF h \in Holders(x) THEN Cardinality(Holders(x)) - 1
                                          ELSE Cardinality(Holders(x))
      BY HoldersFinite, FS_RemoveElement
    <3>3. h \in Holders(x) <=> x = ptr[h]
      BY <1>4 DEF Holders
    <3> QED
      BY <1>10, <3>1, <3>2, <3>3
  <2> QED
    BY <2>1, <2>2
<1>14. HeldInv'
  <2> SUFFICES ASSUME NEW k \in Handles, ptr[k] # Null, ~Busy(k)
               PROVE  life'[ptr[k]] = "live"
    BY <1>0, <1>5 DEF HeldInv
  <2>1. ptr[k] \in Objects /\ life[ptr[k]] = "live"
    BY DEF HeldInv, TypeInv
  <2> QED
    BY <1>9, <2>1
<1>15. CountingInv'
  BY <1>0, <1>7, <1>8 DEF CountingInv, OthersAlike
<1>16. UnusedInv'
  BY <1>0, <1>9, <1>10, <1>11 DEF UnusedInv
<1>17. PromiseInv'
  <2> SUFFICES ASSUME NEW u \in Threads, NEW x \in Objects, Promises(u, x)'
               PROVE  /\ life'[x] = "live"
                      /\ \A k \in Handles : ptr[k] # x
                      /\ \A v \in Threads : Promises(v, x)' => v = u
    BY <1>0 DEF PromiseInv
  <2>1. CASE u = t
    <3>1. g.get = "new" /\ x = g.object
      BY <1>8, <2>1
    <3>2. \A v \in Threads : v # t => ~Promises(v, x)'
      BY <1>7, <1>9, <3>1 DEF OthersAlike, PromiseInv
    <3> QED
      BY <1>9, <2>1, <3>1, <3>2
  <2>2. CASE u # t
    <3>1. Promises(u, x) /\ life[x] = "live"
      BY <1>7, <2>2 DEF OthersAlike, PromiseInv
    <3>2. ~(g.get = "new" /\ x = g.object)
      BY <1>9, <3>1
    <3> QED
      BY <1>7, <1>8, <1>9, <3>1, <3>2 DEF OthersAlike, PromiseInv
  <2> QED
    BY <2>1, <2>2
<1>18. DeleteInv'
  <2> SUFFICES ASSUME NEW u \in Threads, NEW x \in Objects \union {Null}, Deletes(u, x)'
               PROVE  /\ x # Null
                      /\ life'[x] = IF doing'[u].at = "delete counter" THEN "live" ELSE "uncounted"
                      /\ Holders(x)' = {}
                      /\ \A v \in Threads : Deletes(v, x)' => v = u
    BY DEF DeleteInv
  <2>1. CASE u = t
    <3>1. LastOne(h) /\ x = ptr[h] /\ x # Null /\ x \in Objects /\ Holders(x) = {h}
      BY <1>8, <1>11, <1>12, <2>1
    <3>2. life'[x] = "live" /\ doing'[t].at = "delete counter" /\ Holders(x)' = {}
      BY <1>0, <1>1, <1>6, <1>9, <1>11, <3>1
    <3>3. \A v \in Threads : v # t => ~Deletes(v, x)'
      BY <1>7, <3>1 DEF OthersAlike, DeleteInv
    <3> QED
      BY <2>1, <3>1, <3>2, <3>3
  <2>2. CASE u # t
    <3>1. /\ x # Null /\ x \in Objects /\ Holders(x) = {} /\ doing'[u] = doing[u]
          /\ life[x] = IF doing[u].at = "delete counter" THEN "live" ELSE "uncounted"
          /\ \A v \in Threads : Deletes(v, x) => v = u
      BY <1>7, <2>2 DEF OthersAlike, DeleteInv
    <3>2. x # ptr[h]
      BY <1>11, <3>1
    <3>3. \A v \in Threads : Deletes(v, x)' => v = u
      BY <1>7, <1>8, <3>1, <3>2 DEF OthersAlike
    <3>4. life'[x] = life[x]
      BY <1>9, <3>1
    <3> QED
      BY <1>6, <3>1, <3>3, <3>4
  <2> QED
    BY <2>1, <2>2
<1>19. ReclaimInv'
  <2> SUFFICES ASSUME NEW x \in Objects,
                      life'[x] = "uncounted" \/ (life'[x] = "live" /\ Holders(x)' = {}
                                                 /\ \A u \in Threads : ~Promises(u, x)')
               PROVE  \E u \in Threads : Deletes(u, x)'
    BY DEF ReclaimInv
  <2>1. life'[x] = life[x]
    BY <1>8, <1>9
  <2>2. CASE Holders(x) = {h}
    <3>1. x = ptr[h] /\ x # Null
      BY <2>2, NullAssumption DEF Holders
    <3> QED
      BY <1>8, <1>12, <2>2, <3>1
  <2>3. CASE Holders(x) # {h}
    <3>1. Holders(x)' = {} => Holders(x) = {}
      BY <1>6, <2>3
    <3>2. \A u \in Threads : Promises(u, x) => Promises(u, x)'
      BY <1>7, <1>8 DEF OthersAlike
    <3>3. PICK u \in Threads : Deletes(u, x)
      BY <2>1, <3>1, <3>2 DEF ReclaimInv
    <3> QED
      BY <1>7, <1>8, <3>3 DEF OthersAlike
  <2> QED
    BY <2>2, <2>3
<1> QED
  BY <1>13, <1>14, <1>15, <1>16, <1>17, <1>18, <1>19 DEF Rest

-----------------------------------------------------------------------------
(* The invariant.                                                          *)

\* Each way of Get is one of the steps above.
LEMMA GetStep ==
    ASSUME IInv, NEW t \in Threads, Get(t)
    PROVE  Rest'
<1> DEFINE h == doing[t].handle
           g == doing[t].gift
<1>1. /\ doing[t].at = "get" /\ h \in Handles /\ user[h] = t
      /\ user' = user /\ life' = life
      /\ g.get = "new" => g.object \in Objects
      /\ g.get \in {"copy", "move"} => g.from \in Handles /\ user[g.from] = t /\ g.from # h
      /\ GetsNothing(t) \/ GetsNew(t) \/ GetsCopy(t) \/ GetsMove(t)
      /\ doing' = [doing EXCEPT ![t] = IF g.get = "copy" THEN Counting(h, g.from) ELSE Idle]
  BY GetCases DEF IInv
<1>2. Vacant(t, h, g.get)
  BY <1>1 DEF Vacant
<1>3. CASE GetsNothing(t)
  <2>1. /\ ptr' = [ptr EXCEPT ![h] = Null] /\ count' = count /\ g.get = "nothing"
        /\ doing' = [doing EXCEPT ![t] = Idle]
    BY <1>1, <1>3 DEF GetsNothing, Clear
  <2> QED
    BY <1>1, <1>2, <2>1, ClearStep
<1>4. CASE GetsNew(t)
  <2>1. /\ ptr' = [ptr EXCEPT ![h] = g.object] /\ count' = [count EXCEPT ![g.object] = 1]
        /\ doing' = [doing EXCEPT ![t] = Idle] /\ g.get = "new"
    BY <1>1, <1>4 DEF GetsNew, Adopt
  <2>2. Promises(t, g.object)
    BY <1>1, <2>1 DEF Promises, Work
  <2> QED
    BY <1>1, <1>2, <2>1, <2>2, NewStep
<1>5. CASE GetsCopy(t)
  <2>1. /\ ptr' = [ptr EXCEPT ![h] = ptr[g.from]] /\ count' = count /\ g.get = "copy"
        /\ doing' = [doing EXCEPT ![t] = Counting(h, g.from)]
    BY <1>1, <1>5 DEF GetsCopy, CopyPointers
  <2> QED
    BY <1>1, <1>2, <2>1, CopyStep
<1>6. CASE GetsMove(t)
  <2>1. /\ ptr' = [ptr EXCEPT ![h] = ptr[g.from], ![g.from] = Null] /\ count' = count
        /\ g.get = "move" /\ doing' = [doing EXCEPT ![t] = Idle]
    BY <1>1, <1>6 DEF GetsMove, MovePointers
  <2> QED
    BY <1>1, <1>2, <2>1, MoveStep
<1> QED
  BY <1>1, <1>3, <1>4, <1>5, <1>6

LEMMA CopyConstructStep ==
    ASSUME IInv, NEW t \in Threads, NEW h \in Handles, NEW f \in Handles, f # h,
           CopyConstruct(t, h, f)
    PROVE  Rest'
<1>1. /\ user[f] = t /\ ptr' = [ptr EXCEPT ![h] = ptr[f]]
      /\ doing' = [doing EXCEPT ![t] = Counting(h, f)] /\ UNCHANGED <<user, count, life>>
  BY DEF CopyConstruct, CopyPointers
<1>2. Vacant(t, h, "copy")
  BY DEF CopyConstruct, Uses, Vacant
<1> QED
  BY <1>1, <1>2, CopyStep

LEMMA MoveConstructStep ==
    ASSUME IInv, NEW t \in Threads, NEW h \in Handles, NEW f \in Handles, f # h,
           MoveConstruct(t, h, f)
    PROVE  Rest'
<1>1. /\ user[f] = t /\ doing[t] = Idle /\ ptr' = [ptr EXCEPT ![h] = ptr[f], ![f] = Null]
      /\ doing' = doing /\ UNCHANGED <<user, count, life>>
  BY DEF MoveConstruct, MovePointers, Uses
<1>2. doing' = [doing EXCEPT ![t] = Idle]
  BY <1>1 DEF IInv, TypeInv
<1>3. Vacant(t, h, "move")
  BY DEF MoveConstruct, Uses, Vacant
<1> QED
  BY <1>1, <1>2, <1>3, MoveStep

LEMMA InitIInv == Init => IInv
<1> SUFFICES ASSUME Init PROVE IInv
  OBVIOUS
<1>1. /\ user \in [Handles -> Threads] /\ \A h \in Handles : ptr[h] = Null
      /\ \A o \in Objects : count[o] = 0 /\ life[o] = "unused"
      /\ \A t \in Threads : doing[t] = Idle
  BY DEF Init
<1>2. \A t \in Threads : doing[t].at = "idle"
  BY <1>1 DEF Idle
<1>3. "idle" \notin Work
  BY DEF Work
<1>4. TypeInv
  BY DEF Init, TypeInv, Doings, Lives
<1>5. UserInv
  BY <1>1, <1>2, <1>3 DEF UserInv
<1>6. CountInv /\ HeldInv /\ UnusedInv
  BY <1>1, NullAssumption DEF CountInv, HeldInv, UnusedInv
<1>7. CountingInv /\ PromiseInv /\ DeleteInv /\ ReclaimInv
  BY <1>1, <1>2, <1>3 DEF CountingInv, Counts, PromiseInv, Promises, DeleteInv, Deletes,
                          Deleting, ReclaimInv
<1> QED
  BY <1>4, <1>5, <1>6, <1>7 DEF IInv

LEMMA StutterIInv == ASSUME IInv, UNCHANGED vars PROVE IInv'
<1>1. user' = user /\ ptr' = ptr /\ count' = count /\ life' = life /\ doing' = doing
  BY DEF vars
<1>2. /\ \A h \in Handles : Busy(h)' <=> Busy(h)
      /\ \A o \in Objects \union {Null} : Holders(o)' = Holders(o)
  BY <1>1 DEF Busy, Holders
<1>3. \A t \in Threads, o \in Objects \union {Null} :
          /\ Deletes(t, o)' <=> Deletes(t, o)
          /\ Counts(t, o)' <=> Counts(t, o)
          /\ Promises(t, o)' <=> Promises(t, o)
  BY <1>1 DEF Deletes, Deleting, Counts, Promises
<1>4. TypeInv' /\ UserInv'
  BY <1>1 DEF IInv, TypeInv, UserInv
<1>5. CountInv' /\ HeldInv' /\ UnusedInv' /\ CountingInv'
  BY <1>1, <1>2, <1>3 DEF IInv, CountInv, HeldInv, UnusedInv, CountingInv
<1>6. PromiseInv' /\ DeleteInv' /\ ReclaimInv'
  BY <1>1, <1>2, <1>3 DEF IInv, PromiseInv, DeleteInv, ReclaimInv
<1> QED
  BY <1>4, <1>5, <1>6 DEF IInv

LEMMA NextIInv == IInv /\ [Next]_vars => IInv'
<1> SUFFICES ASSUME IInv, [Next]_vars PROVE IInv'
  OBVIOUS
<1>0. TypeInv /\ UserInv /\ CountingInv /\ DeleteInv
  BY DEF IInv
<1>1. TypeInv' /\ UserInv' /\ Rest' => IInv'
  BY DEF IInv, Rest
<1>2. ASSUME NEW t \in Threads, Finish(t) PROVE IInv'
  <2>1. CASE Count(t)
    BY <1>0, <1>1, <2>1, CountKeepsTypes, CountStep
  <2>2. CASE DeleteCounter(t)
    BY <1>0, <1>1, <2>2, DeleteCounterKeepsTypes, DeleteCounterStep
  <2>3. CASE DeleteObject(t)
    BY <1>0, <1>1, <2>3, DeleteObjectKeepsTypes, DeleteObjectStep
  <2>4. CASE Get(t)
    BY <1>0, <1>1, <2>4, GetKeepsTypes, GetStep
  <2> QED
    BY <1>2, <2>1, <2>2, <2>3, <2>4 DEF Finish
<1>3. ASSUME NEW t \in Threads, NEW h \in Handles, Begin(t, h) PROVE IInv'
  <2>1. ASSUME NEW o \in Objects, Construct(t, h, o) PROVE IInv'
    BY <1>0, <1>1, <2>1, ConstructKeepsTypes, ConstructStep
  <2>2. ASSUME NEW f \in Handles \ {h}, CopyConstruct(t, h, f) PROVE IInv'
    BY <1>0, <1>1, <2>2, CopyConstructKeepsTypes, CopyConstructStep
  <2>3. ASSUME NEW f \in Handles \ {h}, MoveConstruct(t, h, f) PROVE IInv'
    BY <1>0, <1>1, <2>3, MoveConstructKeepsTypes, MoveConstructStep
  <2>4. ASSUME NEW g \in Gifts(t, h), LetGo(t, h, g) PROVE IInv'
    BY <1>0, <1>1, <2>4, LetGoKeepsTypes, LetGoStep
  <2>5. ASSUME NEW u \in Threads \ {t}, HandOver(t, h, u) PROVE IInv'
    BY <1>0, <1>1, <2>5, HandOverKeepsTypes, HandOverStep
  <2> QED
    BY <1>3, <2>1, <2>2, <2>3, <2>4, <2>5 DEF Begin
<1>4. CASE UNCHANGED vars
  BY <1>4, StutterIInv
<1> QED
  BY <1>2, <1>3, <1>4 DEF Next

LEMMA Inductive == Spec => []IInv
  BY InitIInv, NextIInv, PTL DEF Spec

-----------------------------------------------------------------------------
(* The properties.                                                         *)

LEMMA CountIsExact == IInv => CountExact
<1> SUFFICES ASSUME IInv PROVE CountExact
  OBVIOUS
<1> USE DEF IInv
<1>1. /\ user \in [Handles -> Threads]
      /\ ptr \in [Handles -> Objects \union {Null}]
      /\ life \in [Objects -> {"unused", "live", "uncounted", "deleted"}]
  BY DEF TypeInv, Lives
<1>2. \A o \in Objects : life[o] = "live" => count[o] = Cardinality(Holders(o))
  BY DEF CountInv
<1>3. \A o \in Objects : Holders(o) # {} => life[o] = "live"
  BY NullAssumption DEF HeldInv, Holders
<1>4. ASSUME NEW t \in Threads, doing[t].at = "count"
      PROVE  life[ptr[doing[t].handle]] = "live"
  <2> DEFINE h == doing[t].handle
             o == ptr[h]
  <2>1. doing[t] # Idle /\ h \in Handles /\ user[h] = t /\ o \in Objects \union {Null}
    BY <1>4, AtWork, Workers DEF TypeInv
  <2>2. PICK f \in Handles \ {h} : user[f] = t /\ ptr[f] = o /\ o # Null
    BY <1>4, <2>1 DEF CountingInv, Counts
  <2>3. ~Busy(f)
    BY <2>1, <2>2 DEF Busy
  <2> QED
    BY <2>2, <2>3 DEF HeldInv
<1>5. ASSUME NEW t \in Threads, Deleting(t)
      PROVE  life[ptr[doing[t].handle]] =
                 IF doing[t].at = "delete counter" THEN "live" ELSE "uncounted"
  BY <1>5, DeletesOne DEF DeleteInv
<1>6. ASSUME NEW o \in Objects
      PROVE  Cardinality(Deleters(o)) =
                 IF life[o] = "uncounted" \/ Forgotten(o) THEN 1 ELSE 0
  <2>1. Deleters(o) = {t \in Threads : Deletes(t, o)}
    BY DEF Deleters, Deletes
  <2>2. \A t \in Threads : Promises(t, o) <=> doing[t] # Idle /\ doing[t].at # "count"
                                /\ doing[t].gift = [get |-> "new", object |-> o]
    <3> SUFFICES ASSUME NEW t \in Threads
                 PROVE  Promises(t, o) <=> doing[t] # Idle /\ doing[t].at # "count"
                            /\ doing[t].gift = [get |-> "new", object |-> o]
      OBVIOUS
    <3>1. doing[t].at \in Work <=> doing[t] # Idle /\ doing[t].at # "count"
      BY Shape DEF Work
    <3>2. CASE doing[t].at \in Work
      <4>1. doing[t].gift \in AnyGift
        BY <3>2, Shape
      <4>2. doing[t].gift.get = "new" /\ doing[t].gift.object = o
                <=> doing[t].gift = [get |-> "new", object |-> o]
        BY <4>1 DEF AnyGift, Nothing
      <4> QED
        BY <3>1, <3>2, <4>2 DEF Promises
    <3> QED
      BY <3>1, <3>2 DEF Promises
  <2>3. Forgotten(o) <=> life[o] = "live" /\ Holders(o) = {} /\ \A t \in Threads : ~Promises(t, o)
    BY <2>2 DEF Forgotten, Promised
  <2>4. CASE life[o] = "uncounted" \/ Forgotten(o)
    <3>1. PICK t \in Threads : Deletes(t, o)
      BY <2>3, <2>4 DEF ReclaimInv
    <3>2. Deleters(o) = {t}
      BY <2>1, <3>1, ZenonT(60) DEF DeleteInv
    <3> QED
      BY <2>4, <3>2, FS_Singleton
  <2>5. CASE ~(life[o] = "uncounted" \/ Forgotten(o))
    <3>1. ASSUME NEW t \in Threads, Deletes(t, o) PROVE FALSE
      <4>1. life[o] = "live" /\ Holders(o) = {}
        BY <2>5, <3>1 DEF DeleteInv
      <4>2. PICK u \in Threads : Promises(u, o)
        BY <2>3, <2>5, <4>1
      <4>3. doing[t].handle \in Handles /\ ptr[doing[t].handle] = o
        BY <3>1, DeletesOne DEF Deletes
      <4> QED
        BY <4>2, <4>3 DEF PromiseInv
    <3>2. Deleters(o) = {}
      BY <2>1, <3>1
    <3> QED
      BY <2>5, <3>2, FS_EmptySet
  <2> QED
    BY <2>4, <2>5
<1> QED
  BY <1>1, <1>2, <1>3, <1>4, <1>5, <1>6 DEF CountExact

\* The counter is the number of handles that hold the object, however the steps
\* of the threads interleave, and an object nobody holds is deleted by exactly
\* one thread (mt_shared_ptr.h:37-153).
THEOREM CounterIsExact == Spec => []CountExact
  BY Inductive, CountIsExact, PTL

\* The count of an object with one holder changes only by what its thread does.
LEMMA CountMoves ==
    ASSUME IInv, Next, NEW h \in Handles, NEW o \in Objects, ptr[h] = o, ~Busy(h),
           count[o] = 1, ptr'[h] = o, doing'[user[h]] = doing[user[h]]
    PROVE  count'[o] = 1
<1> USE DEF IInv
<1>1. h \in Holders(o) /\ o # Null /\ life[o] = "live"
  BY NullAssumption DEF Holders, HeldInv
<1>2. Holders(o) = {h}
  <2>1. Cardinality(Holders(o)) = 1
    BY <1>1 DEF CountInv
  <2> QED
    BY <1>1, <2>1, HoldersFinite, FS_Singleton
<1>3. \A k \in Handles : ptr[k] = o /\ ~Busy(k) => k = h
  BY <1>2 DEF Holders
<1>4. \A x \in Objects : life[x] = "unused" \/ (\E u \in Threads : Promises(u, x)) => x # o
  BY <1>1 DEF PromiseInv
<1>5. ASSUME NEW x \in Objects, x # o, NEW n, count' = [count EXCEPT ![x] = n]
      PROVE  count'[o] = 1
  BY <1>5 DEF TypeInv
<1>6. count' = count => count'[o] = 1
  OBVIOUS
<1>7. ASSUME NEW t \in Threads, Finish(t) PROVE count'[o] = 1
  <2>1. CASE Count(t)
    <3> DEFINE k == doing[t].handle
    <3>1. /\ doing[t].at = "count" /\ doing'[t] = Idle
          /\ count' = [count EXCEPT ![ptr[k]] = count[ptr[k]] + 1]
      BY <2>1 DEF Count, TypeInv
    <3>2. doing[t] # Idle /\ k \in Handles /\ user[k] = t
      BY <3>1, AtWork, Workers
    <3>3. user[h] # t
      BY <3>1, <3>2
    <3>4. ptr[k] \in Objects \union {Null} /\ Counts(t, ptr[k])
      BY <3>1, <3>2 DEF TypeInv, Counts
    <3>5. PICK f \in Handles \ {k} : user[f] = t /\ ptr[f] = ptr[k] /\ ptr[k] # Null
      BY <3>4 DEF CountingInv
    <3>6. ~Busy(f)
      BY <3>2, <3>5 DEF Busy
    <3>7. ptr[k] # o
      BY <1>3, <3>3, <3>5, <3>6
    <3> HIDE DEF k
    <3> QED
      BY <1>5, <3>1, <3>4, <3>5, <3>7
  <2>2. CASE DeleteCounter(t) \/ DeleteObject(t)
    BY <1>6, <2>2 DEF DeleteCounter, DeleteObject
  <2>3. CASE Get(t)
    <3>1. CASE GetsNew(t)
      <4> DEFINE x == doing[t].gift.object
      <4>1. doing[t].at \in Work /\ doing[t].gift.get = "new" /\ x \in Objects
        BY <2>3, <3>1, GetCases DEF GetsNew, Work
      <4>2. Promises(t, x)
        BY <4>1 DEF Promises
      <4>3. count' = [count EXCEPT ![x] = 1]
        BY <3>1 DEF GetsNew, Adopt
      <4> HIDE DEF x
      <4> QED
        BY <1>4, <1>5, <4>1, <4>2, <4>3
    <3>2. CASE GetsNothing(t) \/ GetsCopy(t) \/ GetsMove(t)
      BY <1>6, <3>2 DEF GetsNothing, GetsCopy, GetsMove, Clear, CopyPointers, MovePointers
    <3> QED
      BY <2>3, <3>1, <3>2, GetCases
  <2> QED
    BY <1>7, <2>1, <2>2, <2>3 DEF Finish
<1>8. ASSUME NEW t \in Threads, NEW k \in Handles, Begin(t, k) PROVE count'[o] = 1
  <2>1. ASSUME NEW x \in Objects, Construct(t, k, x) PROVE count'[o] = 1
    BY <1>4, <1>5, <2>1 DEF Construct, New, Adopt
  <2>2. ASSUME NEW f \in Handles \ {k}, CopyConstruct(t, k, f) \/ MoveConstruct(t, k, f)
        PROVE  count'[o] = 1
    BY <1>6, <2>2 DEF CopyConstruct, CopyPointers, MoveConstruct, MovePointers
  <2>3. ASSUME NEW g \in Gifts(t, k), LetGo(t, k, g) PROVE count'[o] = 1
    <3>1. /\ doing[t] = Idle /\ user[k] = t /\ Decrement(k) /\ doing'[t].at # "idle"
      BY <2>3 DEF LetGo, Uses, TypeInv
    <3>2. user[h] # t
      BY <3>1 DEF Idle
    <3>3. ~Busy(k)
      BY <3>1, FreeHandle
    <3>4. ptr[k] # o
      BY <1>3, <3>1, <3>2, <3>3
    <3>5. ptr[k] \in Objects \union {Null}
      BY DEF TypeInv
    <3> QED
      BY <1>5, <1>6, <3>1, <3>4, <3>5 DEF Decrement
  <2>4. ASSUME NEW u \in Threads, HandOver(t, k, u) PROVE count'[o] = 1
    BY <1>6, <2>4 DEF HandOver
  <2> QED
    BY <1>8, <2>1, <2>2, <2>3, <2>4 DEF Begin
<1> QED
  BY <1>7, <1>8 DEF Next

LEMMA UniqueStep ==
    ASSUME IInv, IInv', Next, NEW h \in Handles,
           ptr[h] # Null, ~Busy(h), count[ptr[h]] = 1,
           ptr'[h] = ptr[h], user'[h] = user[h], doing'[user[h]] = doing[user[h]]
    PROVE  count'[ptr[h]] = 1 /\ life'[ptr[h]] = "live"
<1>1. ptr[h] \in Objects
  BY DEF IInv, TypeInv
<1>2. count'[ptr[h]] = 1
  BY <1>1, CountMoves
<1>3. ~Busy(h)'
  BY DEF Busy
<1>4. HeldInv'
  BY DEF IInv
<1>5. life'[ptr[h]] = "live"
  BY <1>3, <1>4 DEF HeldInv
<1> QED
  BY <1>2, <1>5

\* A thread that finds unique() true stays alone with the object until it does
\* something about it itself (mt_shared_ptr.h:128-131): no other thread has a
\* handle to copy, nor is one in the middle of counting one.
THEOREM UniqueIsStable == Spec => UniqueStays
<1> DEFINE Step == \A h \in Handles :
         /\ ptr[h] # Null /\ ~Busy(h) /\ count[ptr[h]] = 1
         /\ ptr'[h] = ptr[h] /\ user'[h] = user[h]
         /\ doing'[user[h]] = doing[user[h]]
         => count'[ptr[h]] = 1 /\ life'[ptr[h]] = "live"
<1>1. IInv /\ IInv' /\ Next => Step
  BY UniqueStep
<1>2. IInv /\ IInv' /\ [Next]_vars => [Step]_vars
  BY <1>1
<1> QED
  BY <1>2, Inductive, PTL DEF Spec, UniqueStays
=============================================================================
