----------------------- MODULE CachedAllocatorProofs -----------------------
(***************************************************************************)
(* Proofs about CachedAllocator, for any threads, finitely many blocks and *)
(* any sizes and limits: the type invariant; that a block has one holder,  *)
(* is of the size its holder asked for, and is kept on a list that does    *)
(* not exceed its limit; and that the usage adds up.                       *)
(*                                                                         *)
(* The first four are inductive together with CallsInv, which says what a  *)
(* thread inside __alloc or __free works with, and InitInv, which says     *)
(* that nothing was allocated while the limits are being initialised (and  *)
(* may be lowered).  The usage rests on them and on sums over finite sets, *)
(* whose laws are proved here from the well-foundedness of inclusion.      *)
(***************************************************************************)
EXTENDS CachedAllocator, SequenceTheorems, FiniteSetTheorems, WellFoundedInduction, TLAPS

\* A thread inside a call works on a size that is asked for, after the
\* initialisation; blocks of the callers have such a size too; and a block
\* whose header was written is about to be handed out with that header.
CallsInv ==
    /\ \A t \in Threads : at[t] # "idle" => size[t] \in Sizes
    /\ \A b \in held : capacity[b] \in Sizes
    /\ \A t \in Threads : at[t] = "counted" => header[block[t]] = HeaderSize + size[t]

InitInv ==
    \A n \in Sizes : init[n] # "done" =>
        /\ \A t \in Threads : at[t] = "idle"
        /\ held = {}
        /\ \A m \in Sizes : store[m] = <<>>

IInv == TypeOK /\ OneHolder /\ RightSize /\ ListsBounded /\ CallsInv /\ InitInv

-----------------------------------------------------------------------------
(* Lists.                                                                  *)

LEMMA TailEntries ==
    ASSUME NEW s \in Seq(Blocks), s # <<>>
    PROVE  /\ Head(s) \in Blocks /\ 1 \in DOMAIN s /\ Head(s) = s[1]
           /\ Tail(s) \in Seq(Blocks) /\ Len(Tail(s)) = Len(s) - 1
           /\ \A i \in DOMAIN Tail(s) :
                 i \in Nat /\ i + 1 # 1 /\ i + 1 \in DOMAIN s /\ Tail(s)[i] = s[i + 1]
           /\ \A i \in DOMAIN s : i = 1 \/ (i - 1 \in DOMAIN Tail(s)
                                            /\ s[i] = Tail(s)[i - 1])
OBVIOUS

LEMMA PushEntries ==
    ASSUME NEW s \in Seq(Blocks), NEW b \in Blocks
    PROVE  LET r == <<b>> \o s
           IN  /\ r \in Seq(Blocks) /\ Len(r) = Len(s) + 1
               /\ 1 \in DOMAIN r /\ r[1] = b
               /\ \A i \in DOMAIN s : i + 1 \in DOMAIN r /\ r[i + 1] = s[i]
               /\ \A i \in DOMAIN r : i = 1 \/ (i - 1 \in DOMAIN s /\ r[i] = s[i - 1])
OBVIOUS

-----------------------------------------------------------------------------
(* Types.                                                                  *)

\* A thread goes to another place.
LEMMA GoesTyped ==
    ASSUME TypeOK, NEW t \in Threads, NEW from, NEW to \in Places, Goes(t, from, to)
    PROVE  /\ at[t] = from /\ at'[t] = to /\ at' \in [Threads -> Places]
           /\ \A u \in Threads : u # t => at'[u] = at[u]
BY DEF TypeOK, Goes

LEMMA InitHolds == Init => IInv
<1> SUFFICES ASSUME Init PROVE IInv OBVIOUS
<1>1. TypeOK
  <2>1. /\ init \in [Sizes -> {"todo", "write", "done"}]
        /\ store \in [Sizes -> Seq(Blocks)]
        /\ storeCount \in [Sizes -> Int] /\ maxStore \in [Sizes -> Nat]
    BY DEF Init
  <2>2. /\ sCount \in Int /\ sSize \in Int
        /\ heap \subseteq Blocks /\ held \subseteq Blocks
        /\ capacity \in [Blocks -> Nat] /\ header \in [Blocks -> Nat \union {Link}]
    BY DEF Init
  <2>3. at \in [Threads -> Places] /\ size \in [Threads -> Int]
    BY DEF Init, Places
  <2>4. block \in [Threads -> Blocks \union {NoBlock}]
    BY DEF Init
  <2>5. \A t \in Threads : t \in Busy <=> block[t] # NoBlock
    BY DEF Init, Busy
  <2> QED BY <2>1, <2>2, <2>3, <2>4, <2>5 DEF TypeOK
<1>2. OneHolder BY DEF Init, OneHolder, Busy, Kept
<1>3. RightSize BY DEF Init, RightSize, Busy
<1>4. ListsBounded BY DEF Init, ListsBounded
<1>5. CallsInv BY DEF Init, CallsInv
<1>6. InitInv BY DEF Init, InitInv
<1> QED BY <1>1, <1>2, <1>3, <1>4, <1>5, <1>6 DEF IInv

-----------------------------------------------------------------------------
(* What a step leaves alone.                                               *)

BusyPlaces == {"header", "counted", "free", "uncounted", "freeProbe", "push", "release"}

LEMMA BusyAt == \A t \in Threads : t \in Busy <=> at[t] \in BusyPlaces
BY DEF Busy, BusyPlaces

\* A thread that stays outside, or inside, with its block.
LEMMA BusyStays ==
    ASSUME TypeOK, NEW t \in Threads, NEW from, NEW to \in Places, Goes(t, from, to),
           from \in BusyPlaces <=> to \in BusyPlaces
    PROVE  Busy' = Busy
BY GoesTyped DEF Busy, BusyPlaces

\* A thread that gets a block, and one that gives it away.
LEMMA BusyEnters ==
    ASSUME TypeOK, NEW t \in Threads, NEW from, NEW to \in Places, Goes(t, from, to),
           from \notin BusyPlaces, to \in BusyPlaces
    PROVE  t \notin Busy /\ Busy' = Busy \union {t}
BY GoesTyped DEF Busy, BusyPlaces

LEMMA BusyLeaves ==
    ASSUME TypeOK, NEW t \in Threads, NEW from, NEW to \in Places, Goes(t, from, to),
           from \in BusyPlaces, to \notin BusyPlaces
    PROVE  t \in Busy /\ Busy' = Busy \ {t}
BY GoesTyped DEF Busy, BusyPlaces

\* Whoever is inside, or has a block, came after the initialisation.
LEMMA Initialised ==
    ASSUME InitInv, (\E t \in Threads : at[t] # "idle") \/ held # {}
    PROVE  \A n \in Sizes : init[n] = "done"
BY DEF InitInv

LEMMA InitFrame ==
    ASSUME \A n \in Sizes : init[n] = "done", UNCHANGED init
    PROVE  InitInv'
BY DEF InitInv

LEMMA HolderFrame ==
    ASSUME OneHolder, UNCHANGED <<store, heap, held, block>>, Busy' = Busy
    PROVE  OneHolder'
BY DEF OneHolder, Kept

LEMMA SizeFrame ==
    ASSUME RightSize, UNCHANGED <<store, capacity, held, block>>, Busy' = Busy,
           \A t \in Busy : size'[t] = size[t],
           \A b \in held : header'[b] = header[b]
    PROVE  RightSize'
BY DEF RightSize

LEMMA BoundFrame ==
    ASSUME ListsBounded, UNCHANGED <<store, storeCount, maxStore>>
    PROVE  ListsBounded'
BY DEF ListsBounded

\* A step in which nothing but the place of a thread and the counters change.
LEMMA QuietStep ==
    ASSUME IInv, NEW t \in Threads, NEW from, NEW to \in Places, Goes(t, from, to),
           from # "idle", to # "counted", from \in BusyPlaces <=> to \in BusyPlaces,
           UNCHANGED <<init, store, storeCount, maxStore, heap, capacity, header, held,
                       size, block>>,
           sCount' \in Int, sSize' \in Int
    PROVE  IInv'
<1> USE DEF IInv
<1>1. /\ at[t] = from /\ at'[t] = to /\ at' \in [Threads -> Places]
      /\ \A u \in Threads : u # t => at'[u] = at[u]
  BY GoesTyped
<1>2. Busy' = Busy BY BusyStays
<1>3. TypeOK' BY <1>1, <1>2 DEF TypeOK
<1>4. OneHolder' BY <1>2, HolderFrame
<1>5. RightSize' BY <1>2, SizeFrame
<1>6. ListsBounded' BY BoundFrame
<1>7. CallsInv' BY <1>1 DEF CallsInv
<1>8. InitInv' BY <1>1, Initialised, InitFrame
<1> QED BY <1>3, <1>4, <1>5, <1>6, <1>7, <1>8

-----------------------------------------------------------------------------
(* The initialisation and the limits.                                      *)

LEMMA InitTestsStep == ASSUME IInv, NEW n \in Sizes, InitTests(n) PROVE IInv'
<1> USE DEF IInv, InitTests
<1>1. Busy' = Busy BY DEF Busy
<1>2. TypeOK' BY <1>1 DEF TypeOK
<1>3. OneHolder' BY <1>1, HolderFrame
<1>4. RightSize' BY <1>1, SizeFrame
<1>5. ListsBounded' BY BoundFrame
<1>6. CallsInv' BY DEF CallsInv
<1>7. InitInv'
  <2>1. init[n] # "done" OBVIOUS
  <2> QED BY <2>1 DEF InitInv
<1> QED BY <1>2, <1>3, <1>4, <1>5, <1>6, <1>7

\* A limit may become lower than it was, but then every list is empty.
LEMMA InitWritesStep == ASSUME IInv, NEW n \in Sizes, InitWrites(n) PROVE IInv'
<1> USE DEF IInv, InitWrites
<1>1. Busy' = Busy BY DEF Busy
<1>2. TypeOK' BY <1>1, MaxAssumption DEF TypeOK
<1>3. OneHolder' BY <1>1, HolderFrame
<1>4. RightSize' BY <1>1, SizeFrame
<1>5. ListsBounded'
  <2>1. init[n] # "done" OBVIOUS
  <2>2. \A m \in Sizes : store[m] = <<>> BY <2>1 DEF InitInv
  <2>3. \A m \in Sizes : storeCount[m] = 0 BY <2>2 DEF ListsBounded
  <2>4. maxStore' \in [Sizes -> Nat] BY <1>2 DEF TypeOK
  <2> QED BY <2>2, <2>3, <2>4 DEF ListsBounded
<1>6. CallsInv' BY DEF CallsInv
<1>7. InitInv'
  <2>1. init[n] # "done" OBVIOUS
  <2> QED BY <2>1 DEF InitInv
<1> QED BY <1>2, <1>3, <1>4, <1>5, <1>6, <1>7

LEMMA SetCacheStep ==
    ASSUME IInv, NEW n \in Sizes, NEW number \in CacheNumbers, SetCache(n, number)
    PROVE  IInv'
<1> USE DEF IInv, SetCache
<1>1. Busy' = Busy BY DEF Busy
<1>2. TypeOK' BY <1>1, MaxAssumption DEF TypeOK
<1>3. OneHolder' BY <1>1, HolderFrame
<1>4. RightSize' BY <1>1, SizeFrame
<1>5. ListsBounded'
  <2>1. number \in Nat BY MaxAssumption
  <2>2. \A m \in Sizes : maxStore[m] \in Nat /\ maxStore'[m] \in Nat
                         /\ maxStore[m] <= maxStore'[m] /\ storeCount[m] \in Int
    BY <2>1 DEF TypeOK
  <2> QED BY <2>2 DEF ListsBounded
<1>6. CallsInv' BY DEF CallsInv
<1>7. InitInv' BY DEF InitInv
<1> QED BY <1>2, <1>3, <1>4, <1>5, <1>6, <1>7

-----------------------------------------------------------------------------
(* __alloc                                                                 *)

LEMMA AllocStarts == ASSUME IInv, NEW t \in Threads, NEW n \in Sizes, Alloc(t, n) PROVE IInv'
<1> USE DEF IInv
<1>1. /\ at[t] = "idle" /\ at'[t] = "probe" /\ at' \in [Threads -> Places]
      /\ \A u \in Threads : u # t => at'[u] = at[u]
  BY GoesTyped DEF Alloc, Places
<1>2. Busy' = Busy BY BusyStays DEF Alloc, Places, BusyPlaces
<1>3. size' \in [Threads -> Int] /\ size'[t] = n
      /\ \A u \in Threads : u # t => size'[u] = size[u]
  BY SizeAssumption DEF Alloc, TypeOK
<1>4. TypeOK' BY <1>1, <1>2, <1>3 DEF TypeOK, Alloc
<1>5. OneHolder' BY <1>2, HolderFrame DEF Alloc
<1>6. RightSize'
  <2>1. t \notin Busy BY <1>1 DEF Busy
  <2>2. \A u \in Busy : size'[u] = size[u] BY <2>1, <1>3 DEF Busy
  <2> QED BY <2>2, <1>2, SizeFrame DEF Alloc
<1>7. ListsBounded' BY BoundFrame DEF Alloc
<1>8. CallsInv' BY <1>1, <1>3 DEF CallsInv, Alloc
<1>9. InitInv' BY InitFrame DEF Alloc
<1> QED BY <1>4, <1>5, <1>6, <1>7, <1>8, <1>9

\* The first block of the list goes from the list to the thread.
LEMMA AllocPopsStep == ASSUME IInv, NEW t \in Threads, AllocPops(t) PROVE IInv'
<1> USE DEF IInv
<1> DEFINE n == size[t]
           b == Head(store[n])
<1>1. /\ at[t] = "pop" /\ at'[t] = "header" /\ at' \in [Threads -> Places]
      /\ \A u \in Threads : u # t => at'[u] = at[u]
  BY GoesTyped DEF AllocPops, Places
<1>2. t \notin Busy /\ Busy' = Busy \union {t}
  BY BusyEnters DEF AllocPops, Places, BusyPlaces
<1>3. n \in Sizes BY <1>1 DEF CallsInv
<1>4. store[n] \in Seq(Blocks) /\ store[n] # <<>> BY <1>3 DEF TypeOK, AllocPops
<1>5. /\ b \in Blocks /\ 1 \in DOMAIN store[n] /\ b = store[n][1]
      /\ Tail(store[n]) \in Seq(Blocks) /\ Len(Tail(store[n])) = Len(store[n]) - 1
      /\ \A i \in DOMAIN Tail(store[n]) :
            /\ i \in Nat /\ i + 1 # 1 /\ i + 1 \in DOMAIN store[n]
            /\ Tail(store[n])[i] = store[n][i + 1]
      /\ \A i \in DOMAIN store[n] :
            i = 1 \/ (i - 1 \in DOMAIN Tail(store[n])
                      /\ store[n][i] = Tail(store[n])[i - 1])
  BY <1>4, TailEntries
<1>6. /\ store' = [store EXCEPT ![n] = Tail(store[n])]
      /\ store'[n] = Tail(store[n])
      /\ \A m \in Sizes : m # n => store'[m] = store[m]
  BY <1>3 DEF AllocPops, TypeOK
<1>7. /\ block' \in [Threads -> Blocks \union {NoBlock}]
      /\ block'[t] = b /\ \A u \in Threads : u # t => block'[u] = block[u]
  BY <1>5 DEF AllocPops, TypeOK
<1>8. UNCHANGED <<init, maxStore, sCount, sSize, heap, capacity, header, held, size>>
  BY DEF AllocPops
<1>9. b # NoBlock BY <1>5, BlocksFinite DEF NoBlock
<1>10. TypeOK'
  <2>1. store' \in [Sizes -> Seq(Blocks)] BY <1>3, <1>5, <1>6 DEF TypeOK
  <2>2. storeCount' \in [Sizes -> Int] BY <1>3 DEF TypeOK, AllocPops
  <2>3. \A u \in Threads : u \in Busy' <=> block'[u] # NoBlock
    BY <1>2, <1>7, <1>9 DEF TypeOK
  <2> QED BY <2>1, <2>2, <2>3, <1>1, <1>7, <1>8 DEF TypeOK
<1>11. b \in Kept /\ b \notin heap /\ b \notin held /\ \A u \in Busy : block[u] # b
  <2>1. b \in Kept BY <1>3, <1>5 DEF Kept
  <2> QED BY <2>1 DEF OneHolder
<1>12. Kept' = Kept \ {b}
  <2>1. ASSUME NEW c \in Kept' PROVE c \in Kept /\ c # b
    <3>0. PICK m \in Sizes : \E i \in DOMAIN store'[m] : c = store'[m][i] BY <2>1 DEF Kept
    <3>1. PICK i \in DOMAIN store'[m] : c = store'[m][i] BY <3>0
    <3>2. CASE m # n BY <3>1, <3>2, <1>3, <1>5, <1>6 DEF Kept, OneHolder
    <3>3. CASE m = n
      <4>0. i \in DOMAIN Tail(store[n]) /\ c = Tail(store[n])[i] BY <3>1, <3>3, <1>6
      <4>1. i + 1 \in DOMAIN store[n] /\ c = store[n][i + 1] /\ i + 1 # 1
        BY <4>0, <1>5
      <4> QED BY <4>1, <1>3, <1>5 DEF Kept, OneHolder
    <3> QED BY <3>2, <3>3
  <2>2. ASSUME NEW c \in Kept, c # b PROVE c \in Kept'
    <3>0. PICK m \in Sizes : \E i \in DOMAIN store[m] : c = store[m][i] BY <2>2 DEF Kept
    <3>1. PICK i \in DOMAIN store[m] : c = store[m][i] BY <3>0
    <3>2. CASE m # n BY <3>1, <3>2, <1>6 DEF Kept
    <3>3. CASE m = n
      <4>1. i - 1 \in DOMAIN Tail(store[n]) /\ c = Tail(store[n])[i - 1]
        BY <3>1, <3>3, <2>2, <1>5
      <4> QED BY <4>1, <1>3, <1>6 DEF Kept
    <3> QED BY <3>2, <3>3
  <2> QED BY <2>1, <2>2
<1>13. OneHolder'
  <2>1. Blocks = heap \union held \union Kept' \union {block'[u] : u \in Busy'}
    <3>1. {block'[u] : u \in Busy'} = {block[v] : v \in Busy} \union {b}
      BY <1>2, <1>7 DEF Busy
    <3>2. Blocks = heap \union held \union Kept \union {block[u] : u \in Busy}
      BY DEF OneHolder
    <3> QED BY <3>1, <3>2, <1>5, <1>12
  <2>2. \A u \in Busy' : block'[u] \notin heap \union held \union Kept'
    BY <1>2, <1>7, <1>11, <1>12 DEF OneHolder, Busy
  <2>3. \A u, v \in Busy' : block'[u] = block'[v] => u = v
    BY <1>2, <1>7, <1>11 DEF OneHolder, Busy
  <2>4. \A m, k \in Sizes : \A i \in DOMAIN store'[m], j \in DOMAIN store'[k] :
           store'[m][i] = store'[k][j] => m = k /\ i = j
    <3> SUFFICES ASSUME NEW m \in Sizes, NEW k \in Sizes,
                        NEW i \in DOMAIN store'[m], NEW j \in DOMAIN store'[k],
                        store'[m][i] = store'[k][j]
                 PROVE  m = k /\ i = j
      OBVIOUS
    <3>1. CASE m # n /\ k # n BY <3>1, <1>6 DEF OneHolder
    <3>2. CASE m = n /\ k # n BY <3>2, <1>5, <1>6 DEF OneHolder
    <3>3. CASE m # n /\ k = n BY <3>3, <1>5, <1>6 DEF OneHolder
    <3>4. CASE m = n /\ k = n
      <4>0. /\ i \in DOMAIN Tail(store[n]) /\ j \in DOMAIN Tail(store[n])
            /\ Tail(store[n])[i] = Tail(store[n])[j]
        BY <3>4, <1>6
      <4>1. /\ i \in Nat /\ j \in Nat
            /\ i + 1 \in DOMAIN store[n] /\ j + 1 \in DOMAIN store[n]
            /\ store[n][i + 1] = store[n][j + 1]
        BY <4>0, <1>5
      <4>2. i + 1 = j + 1 BY <4>1, <1>3 DEF OneHolder
      <4> QED BY <4>1, <4>2, <3>4
    <3> QED BY <3>1, <3>2, <3>3, <3>4
  <2>5. heap \intersect held = {} /\ (heap \union held) \intersect Kept' = {}
    BY <1>12 DEF OneHolder
  <2> QED BY <2>1, <2>2, <2>3, <2>4, <2>5, <1>8 DEF OneHolder
<1>14. RightSize'
  <2>1. capacity[b] = n BY <1>3, <1>5 DEF RightSize
  <2>2. \A m \in Sizes : \A i \in DOMAIN store'[m] : capacity[store'[m][i]] = m
    BY <1>5, <1>6 DEF RightSize
  <2>3. \A u \in Busy' : capacity[block'[u]] = size[u]
    BY <2>1, <1>2, <1>7 DEF RightSize, Busy
  <2> QED BY <2>2, <2>3, <1>8 DEF RightSize
<1>15. ListsBounded'
  <2>1. storeCount'[n] = storeCount[n] - 1
        /\ \A m \in Sizes : m # n => storeCount'[m] = storeCount[m]
    BY <1>3 DEF AllocPops, TypeOK
  <2>2. \A m \in Sizes : storeCount[m] \in Int /\ maxStore[m] \in Nat BY DEF TypeOK
  <2>3. \A m \in Sizes : storeCount[m] = Len(store[m]) /\ storeCount[m] <= maxStore[m]
    BY DEF ListsBounded
  <2>4. storeCount'[n] = Len(store'[n]) /\ storeCount'[n] <= maxStore[n]
    <3>1. /\ storeCount[n] \in Int /\ maxStore[n] \in Nat
          /\ storeCount[n] = Len(store[n]) /\ storeCount[n] <= maxStore[n]
      BY <2>2, <2>3, <1>3
    <3>2. Len(store'[n]) = Len(store[n]) - 1 /\ storeCount'[n] = storeCount[n] - 1
      BY <2>1, <1>5, <1>6
    <3> HIDE DEF n
    <3> QED BY <3>1, <3>2
  <2> QED BY <2>1, <2>3, <2>4, <1>6, <1>8 DEF ListsBounded
<1>16. CallsInv' BY <1>1, <1>7, <1>8, <1>3 DEF CallsInv
<1>17. InitInv' BY <1>1, <1>8, Initialised, InitFrame
<1> QED BY <1>10, <1>13, <1>14, <1>15, <1>16, <1>17

\* A block goes from the heap to the thread.
LEMMA AllocMallocsStep == ASSUME IInv, NEW t \in Threads, AllocMallocs(t) PROVE IInv'
<1> USE DEF IInv
<1>1. /\ at[t] = "malloc" /\ at'[t] = "header" /\ at' \in [Threads -> Places]
      /\ \A u \in Threads : u # t => at'[u] = at[u]
  BY GoesTyped DEF AllocMallocs, Places
<1>2. t \notin Busy /\ Busy' = Busy \union {t}
  BY BusyEnters DEF AllocMallocs, Places, BusyPlaces
<1>3. size[t] \in Sizes /\ size[t] \in Nat BY <1>1, SizeAssumption DEF CallsInv
<1>4. PICK b \in heap : /\ heap' = heap \ {b}
                        /\ capacity' = [capacity EXCEPT ![b] = size[t]]
                        /\ block' = [block EXCEPT ![t] = b]
  BY DEF AllocMallocs
<1>5. b \in Blocks /\ b # NoBlock BY BlocksFinite DEF TypeOK, NoBlock
<1>6. /\ block' \in [Threads -> Blocks \union {NoBlock}]
      /\ block'[t] = b /\ \A u \in Threads : u # t => block'[u] = block[u]
  BY <1>4, <1>5 DEF TypeOK
<1>7. /\ capacity' \in [Blocks -> Nat] /\ capacity'[b] = size[t]
      /\ \A c \in Blocks : c # b => capacity'[c] = capacity[c]
  BY <1>3, <1>4, <1>5 DEF TypeOK
<1>8. UNCHANGED <<init, store, storeCount, maxStore, sCount, sSize, header, held, size>>
  BY DEF AllocMallocs
<1>9. b \notin held /\ b \notin Kept /\ \A u \in Busy : block[u] # b
  BY <1>4 DEF OneHolder
<1>10. TypeOK'
  <2>1. \A u \in Threads : u \in Busy' <=> block'[u] # NoBlock
    BY <1>2, <1>5, <1>6 DEF TypeOK
  <2> QED BY <2>1, <1>1, <1>4, <1>6, <1>7, <1>8 DEF TypeOK
<1>11. Kept' = Kept BY <1>8 DEF Kept
<1>12. OneHolder'
  <2>1. {block'[u] : u \in Busy'} = {block[v] : v \in Busy} \union {b}
    BY <1>2, <1>6 DEF Busy
  <2>2. Blocks = heap \union held \union Kept \union {block[u] : u \in Busy}
    BY DEF OneHolder
  <2>3. Blocks = heap' \union held \union Kept \union {block'[u] : u \in Busy'}
    BY <2>1, <2>2, <1>4, <1>5
  <2>4. \A u \in Busy' : block'[u] \notin heap' \union held \union Kept
    BY <1>2, <1>4, <1>6, <1>9 DEF OneHolder, Busy
  <2>5. \A u, v \in Busy' : block'[u] = block'[v] => u = v
    BY <1>2, <1>6, <1>9 DEF OneHolder, Busy
  <2> QED BY <2>3, <2>4, <2>5, <1>4, <1>8, <1>11 DEF OneHolder
<1>13. RightSize'
  <2>1. \A m \in Sizes : \A i \in DOMAIN store[m] :
           store[m][i] \in Blocks /\ store[m][i] # b
    BY <1>9 DEF Kept, TypeOK
  <2>2. \A m \in Sizes : \A i \in DOMAIN store[m] : capacity'[store[m][i]] = m
    BY <2>1, <1>7 DEF RightSize
  <2>3. \A u \in Busy : block[u] \in Blocks BY DEF TypeOK, Busy
  <2>4. \A u \in Busy' : capacity'[block'[u]] = size[u]
    BY <2>3, <1>2, <1>6, <1>7, <1>9 DEF RightSize, Busy
  <2>5. \A c \in held : header[c] = HeaderSize + capacity'[c]
    BY <1>7, <1>9 DEF RightSize, TypeOK
  <2> QED BY <2>2, <2>4, <2>5, <1>8 DEF RightSize
<1>14. ListsBounded' BY <1>8, BoundFrame
<1>15. CallsInv'
  <2>1. \A c \in held : capacity'[c] \in Sizes BY <1>7, <1>9 DEF CallsInv, TypeOK
  <2> QED BY <2>1, <1>1, <1>3, <1>6, <1>8 DEF CallsInv
<1>16. InitInv' BY <1>1, <1>8, Initialised, InitFrame
<1> QED BY <1>10, <1>12, <1>13, <1>14, <1>15, <1>16

\* The header is written.
LEMMA AllocCountsStep == ASSUME IInv, NEW t \in Threads, AllocCounts(t) PROVE IInv'
<1> USE DEF IInv
<1>1. /\ at[t] = "header" /\ at'[t] = "counted" /\ at' \in [Threads -> Places]
      /\ \A u \in Threads : u # t => at'[u] = at[u]
  BY GoesTyped DEF AllocCounts, Places
<1>2. Busy' = Busy BY BusyStays DEF AllocCounts, Places, BusyPlaces
<1>3. size[t] \in Sizes /\ HeaderSize + size[t] \in Nat
  <2>1. size[t] \in Sizes BY <1>1 DEF CallsInv
  <2>2. size[t] \in Nat /\ HeaderSize \in Nat BY <2>1, SizeAssumption
  <2> QED BY <2>1, <2>2
<1>4. t \in Busy /\ block[t] \in Blocks BY <1>1, BusyAt DEF BusyPlaces, TypeOK
<1>5. /\ header' \in [Blocks -> Nat \union {Link}]
      /\ header'[block[t]] = HeaderSize + size[t]
      /\ \A c \in Blocks : c # block[t] => header'[c] = header[c]
  BY <1>3, <1>4 DEF AllocCounts, TypeOK
<1>6. UNCHANGED <<init, store, storeCount, maxStore, sSize, heap, capacity, held, size,
                  block>>
  BY DEF AllocCounts
<1>7. TypeOK'
  <2>1. sCount' \in Int BY DEF AllocCounts, TypeOK
  <2> QED BY <2>1, <1>1, <1>2, <1>5, <1>6 DEF TypeOK
<1>8. OneHolder' BY <1>2, <1>6, HolderFrame
<1>9. RightSize'
  <2>1. block[t] \notin held BY <1>4 DEF OneHolder
  <2>2. \A c \in held : header'[c] = header[c] BY <2>1, <1>5 DEF TypeOK
  <2> QED BY <2>2, <1>2, <1>6, SizeFrame
<1>10. ListsBounded' BY <1>6, BoundFrame
<1>11. CallsInv'
  <2>1. ASSUME NEW u \in Threads, at'[u] = "counted"
        PROVE  header'[block'[u]] = HeaderSize + size'[u]
    <3>1. CASE u = t BY <3>1, <1>5, <1>6
    <3>2. CASE u # t
      <4>1. at[u] = "counted" BY <2>1, <3>2, <1>1
      <4>2. u \in Busy /\ block[u] \in Blocks BY <4>1, BusyAt DEF BusyPlaces, TypeOK
      <4>3. block[u] # block[t] BY <4>2, <3>2, <1>4 DEF OneHolder
      <4> QED BY <4>1, <4>2, <4>3, <1>5, <1>6 DEF CallsInv
    <3> QED BY <3>1, <3>2
  <2> QED BY <2>1, <1>1, <1>3, <1>6 DEF CallsInv
<1>12. InitInv' BY <1>1, <1>6, Initialised, InitFrame
<1> QED BY <1>7, <1>8, <1>9, <1>10, <1>11, <1>12

\* The block goes from the thread to the caller.
LEMMA AllocReturnsStep == ASSUME IInv, NEW t \in Threads, AllocReturns(t) PROVE IInv'
<1> USE DEF IInv
<1> DEFINE b == block[t]
<1>1. /\ at[t] = "counted" /\ at'[t] = "idle" /\ at' \in [Threads -> Places]
      /\ \A u \in Threads : u # t => at'[u] = at[u]
  BY GoesTyped DEF AllocReturns, Places
<1>2. t \in Busy /\ Busy' = Busy \ {t}
  BY BusyLeaves DEF AllocReturns, Places, BusyPlaces
<1>3. size[t] \in Sizes /\ header[b] = HeaderSize + size[t]
      /\ capacity[b] = size[t]
  BY <1>1, <1>2 DEF CallsInv, RightSize
<1>4. b \in Blocks BY <1>2 DEF TypeOK, Busy
<1>5. /\ held' = held \union {b}
      /\ block' = [block EXCEPT ![t] = NoBlock]
      /\ UNCHANGED <<init, store, storeCount, maxStore, sCount, heap, capacity, header, size>>
  BY DEF AllocReturns
<1>6. /\ block' \in [Threads -> Blocks \union {NoBlock}]
      /\ block'[t] = NoBlock /\ \A u \in Threads : u # t => block'[u] = block[u]
  BY <1>5 DEF TypeOK
<1>7. \A u \in Busy' : u \in Busy /\ u \in Threads /\ u # t /\ block'[u] = block[u]
                       /\ block[u] # b
  BY <1>2, <1>6 DEF OneHolder, Busy
<1>8. TypeOK'
  <2>1. \A u \in Threads : u \in Busy' <=> block'[u] # NoBlock
    BY <1>2, <1>6 DEF TypeOK
  <2>2. sSize' \in Int
    <3>1. size[t] \in Nat /\ HeaderSize \in Nat /\ sSize \in Int
      BY <1>3, SizeAssumption DEF TypeOK
    <3> QED BY <3>1 DEF AllocReturns
  <2> QED BY <2>1, <2>2, <1>1, <1>4, <1>5, <1>6 DEF TypeOK
<1>9. Kept' = Kept BY <1>5 DEF Kept
<1>10. OneHolder'
  <2>1. {block[u] : u \in Busy} = {block'[v] : v \in Busy'} \union {b}
    BY <1>2, <1>7
  <2>2. Blocks = heap \union held \union Kept \union {block[u] : u \in Busy}
    BY DEF OneHolder
  <2>3. Blocks = heap \union held' \union Kept \union {block'[u] : u \in Busy'}
    BY <2>1, <2>2, <1>5
  <2>4. b \notin heap /\ b \notin Kept BY <1>2 DEF OneHolder
  <2>5. \A u \in Busy' : block'[u] \notin heap \union held' \union Kept
    BY <1>5, <1>7 DEF OneHolder
  <2>6. \A u, v \in Busy' : block'[u] = block'[v] => u = v
    BY <1>7 DEF OneHolder
  <2> QED BY <2>3, <2>4, <2>5, <2>6, <1>5, <1>9 DEF OneHolder
<1>11. RightSize' BY <1>3, <1>5, <1>7 DEF RightSize
<1>12. ListsBounded' BY <1>5, BoundFrame
<1>13. CallsInv'
  <2>1. \A u \in Threads : at'[u] = "counted" => u # t BY <1>1
  <2> QED BY <2>1, <1>1, <1>3, <1>5, <1>6 DEF CallsInv
<1>14. InitInv' BY <1>1, <1>5, Initialised, InitFrame
<1> QED BY <1>8, <1>10, <1>11, <1>12, <1>13, <1>14

-----------------------------------------------------------------------------
(* __free                                                                  *)

\* The block goes from the caller to the thread, which reads its size.
LEMMA FreeStarts == ASSUME IInv, NEW t \in Threads, NEW b \in held, Free(t, b) PROVE IInv'
<1> USE DEF IInv
<1>1. /\ at[t] = "idle" /\ at'[t] = "free" /\ at' \in [Threads -> Places]
      /\ \A u \in Threads : u # t => at'[u] = at[u]
  BY GoesTyped DEF Free, Places
<1>2. t \notin Busy /\ Busy' = Busy \union {t}
  BY BusyEnters DEF Free, Places, BusyPlaces
<1>3. b \in Blocks /\ b # NoBlock BY BlocksFinite DEF TypeOK, NoBlock
<1>4. /\ held' = held \ {b}
      /\ block' = [block EXCEPT ![t] = b]
      /\ size' = [size EXCEPT ![t] = header[b] - HeaderSize]
      /\ UNCHANGED <<init, store, storeCount, maxStore, sCount, sSize, heap, capacity, header>>
  BY DEF Free
<1>5. /\ block' \in [Threads -> Blocks \union {NoBlock}]
      /\ block'[t] = b /\ \A u \in Threads : u # t => block'[u] = block[u]
  BY <1>3, <1>4 DEF TypeOK
<1>6. header[b] - HeaderSize = capacity[b] /\ capacity[b] \in Sizes /\ capacity[b] \in Nat
  <2>1. header[b] = HeaderSize + capacity[b] BY DEF RightSize
  <2>2. capacity[b] \in Sizes BY DEF CallsInv
  <2>3. capacity[b] \in Nat /\ HeaderSize \in Nat BY <2>2, SizeAssumption
  <2> QED BY <2>1, <2>2, <2>3
<1>7. /\ size' \in [Threads -> Int] /\ size'[t] = capacity[b]
      /\ \A u \in Threads : u # t => size'[u] = size[u]
  BY <1>4, <1>6 DEF TypeOK
<1>8. b \notin heap /\ b \notin Kept /\ \A u \in Busy : block[u] # b
  BY DEF OneHolder
<1>9. TypeOK'
  <2>1. \A u \in Threads : u \in Busy' <=> block'[u] # NoBlock
    BY <1>2, <1>3, <1>5 DEF TypeOK
  <2> QED BY <2>1, <1>1, <1>4, <1>5, <1>7 DEF TypeOK
<1>10. Kept' = Kept BY <1>4 DEF Kept
<1>11. OneHolder'
  <2>1. {block'[u] : u \in Busy'} = {block[v] : v \in Busy} \union {b}
    BY <1>2, <1>5 DEF Busy
  <2>2. Blocks = heap \union held \union Kept \union {block[u] : u \in Busy}
    BY DEF OneHolder
  <2>3. Blocks = heap \union held' \union Kept \union {block'[u] : u \in Busy'}
    BY <2>1, <2>2, <1>3, <1>4
  <2>4. \A u \in Busy' : block'[u] \notin heap \union held' \union Kept
    BY <1>2, <1>4, <1>5, <1>8 DEF OneHolder, Busy
  <2>5. \A u, v \in Busy' : block'[u] = block'[v] => u = v
    BY <1>2, <1>5, <1>8 DEF OneHolder, Busy
  <2> QED BY <2>3, <2>4, <2>5, <1>4, <1>10 DEF OneHolder
<1>12. RightSize'
  <2>1. \A u \in Busy' : capacity[block'[u]] = size'[u]
    BY <1>2, <1>5, <1>7 DEF RightSize, Busy
  <2> QED BY <2>1, <1>4 DEF RightSize
<1>13. ListsBounded' BY <1>4, BoundFrame
<1>14. CallsInv'
  <2>1. \A u \in Threads : at'[u] = "counted" => u # t BY <1>1
  <2> QED BY <2>1, <1>1, <1>4, <1>5, <1>6, <1>7 DEF CallsInv
<1>15. InitInv' BY <1>4, Initialised, InitFrame
<1> QED BY <1>9, <1>11, <1>12, <1>13, <1>14, <1>15

\* What a thread that gives its block away leaves behind.
LEMMA GivesAway ==
    ASSUME IInv, NEW t \in Threads, NEW from, NEW to \in Places, Goes(t, from, to),
           from \in BusyPlaces, to \notin BusyPlaces,
           block' = [block EXCEPT ![t] = NoBlock]
    PROVE  /\ at[t] = from /\ at'[t] = to /\ at' \in [Threads -> Places]
           /\ \A u \in Threads : u # t => at'[u] = at[u]
           /\ t \in Busy /\ Busy' = Busy \ {t}
           /\ block[t] \in Blocks
           /\ block[t] \notin heap /\ block[t] \notin held /\ block[t] \notin Kept
           /\ block' \in [Threads -> Blocks \union {NoBlock}]
           /\ \A u \in Threads : u # t => block'[u] = block[u]
           /\ \A u \in Busy' : /\ u \in Busy /\ u \in Threads /\ u # t
                               /\ block'[u] = block[u] /\ block[u] # block[t]
           /\ \A u \in Threads : u \in Busy' <=> block'[u] # NoBlock
           /\ Blocks = heap \union held \union Kept
                         \union {block'[u] : u \in Busy'} \union {block[t]}
<1> USE DEF IInv
<1>1. /\ at[t] = from /\ at'[t] = to /\ at' \in [Threads -> Places]
      /\ \A u \in Threads : u # t => at'[u] = at[u]
  BY GoesTyped
<1>2. t \in Busy /\ Busy' = Busy \ {t} BY BusyLeaves
<1>3. block[t] \in Blocks BY <1>2 DEF TypeOK, Busy
<1>4. block[t] \notin heap /\ block[t] \notin held /\ block[t] \notin Kept
  BY <1>2 DEF OneHolder
<1>5. /\ block' \in [Threads -> Blocks \union {NoBlock}]
      /\ block'[t] = NoBlock /\ \A u \in Threads : u # t => block'[u] = block[u]
  BY DEF TypeOK
<1>6. \A u \in Busy' : /\ u \in Busy /\ u \in Threads /\ u # t
                       /\ block'[u] = block[u] /\ block[u] # block[t]
  BY <1>2, <1>5 DEF OneHolder, Busy
<1>7. \A u \in Threads : u \in Busy' <=> block'[u] # NoBlock
  BY <1>2, <1>5 DEF TypeOK
<1>8. {block[u] : u \in Busy} = {block'[v] : v \in Busy'} \union {block[t]}
  BY <1>2, <1>6
<1>9. Blocks = heap \union held \union Kept \union {block[u] : u \in Busy}
  BY DEF OneHolder
<1>10. Blocks = heap \union held \union Kept
                  \union {block'[u] : u \in Busy'} \union {block[t]}
  BY <1>8, <1>9
<1> QED BY <1>1, <1>2, <1>3, <1>4, <1>5, <1>6, <1>7, <1>10

\* To the system.
LEMMA FreeReleasesStep == ASSUME IInv, NEW t \in Threads, FreeReleases(t) PROVE IInv'
<1> USE DEF IInv
<1>1. /\ at[t] = "release" /\ at'[t] = "idle" /\ at' \in [Threads -> Places]
      /\ \A u \in Threads : u # t => at'[u] = at[u]
      /\ block[t] \in Blocks
      /\ block[t] \notin held /\ block[t] \notin Kept
      /\ block' \in [Threads -> Blocks \union {NoBlock}]
      /\ \A u \in Threads : u # t => block'[u] = block[u]
      /\ \A u \in Busy' : /\ u \in Busy /\ u \in Threads /\ u # t
                          /\ block'[u] = block[u] /\ block[u] # block[t]
      /\ \A u \in Threads : u \in Busy' <=> block'[u] # NoBlock
      /\ Blocks = heap \union held \union Kept
                    \union {block'[u] : u \in Busy'} \union {block[t]}
  BY GivesAway DEF FreeReleases, Places, BusyPlaces
<1>2. /\ heap' = heap \union {block[t]}
      /\ UNCHANGED <<init, store, storeCount, maxStore, sCount, sSize, capacity, header,
                     held, size>>
  BY DEF FreeReleases
<1>3. TypeOK' BY <1>1, <1>2 DEF TypeOK
<1>4. Kept' = Kept BY <1>2 DEF Kept
<1>5. OneHolder'
  <2>1. Blocks = heap' \union held \union Kept \union {block'[u] : u \in Busy'}
    BY <1>1, <1>2
  <2>2. \A u \in Busy' : block'[u] \notin heap' \union held \union Kept
    BY <1>1, <1>2 DEF OneHolder
  <2>3. \A u, v \in Busy' : block'[u] = block'[v] => u = v
    BY <1>1 DEF OneHolder
  <2> QED BY <2>1, <2>2, <2>3, <1>1, <1>2, <1>4 DEF OneHolder
<1>6. RightSize' BY <1>1, <1>2 DEF RightSize
<1>7. ListsBounded' BY <1>2, BoundFrame
<1>8. CallsInv'
  <2>1. \A u \in Threads : at'[u] = "counted" => u # t BY <1>1
  <2> QED BY <2>1, <1>1, <1>2 DEF CallsInv
<1>9. InitInv' BY <1>1, <1>2, Initialised, InitFrame
<1> QED BY <1>3, <1>5, <1>6, <1>7, <1>8, <1>9

\* To the list of its size, which has room.
LEMMA FreeKeepsStep == ASSUME IInv, NEW t \in Threads, FreeKeeps(t) PROVE IInv'
<1> USE DEF IInv
<1> DEFINE n == size[t]
           b == block[t]
           r == <<b>> \o store[n]
<1>1. /\ at[t] = "push" /\ at'[t] = "idle" /\ at' \in [Threads -> Places]
      /\ \A u \in Threads : u # t => at'[u] = at[u]
      /\ t \in Busy
      /\ b \in Blocks
      /\ b \notin heap /\ b \notin held /\ b \notin Kept
      /\ block' \in [Threads -> Blocks \union {NoBlock}]
      /\ \A u \in Threads : u # t => block'[u] = block[u]
      /\ \A u \in Busy' : /\ u \in Busy /\ u \in Threads /\ u # t
                          /\ block'[u] = block[u] /\ block[u] # b
      /\ \A u \in Threads : u \in Busy' <=> block'[u] # NoBlock
      /\ Blocks = heap \union held \union Kept
                    \union {block'[u] : u \in Busy'} \union {b}
  BY GivesAway DEF FreeKeeps, Places, BusyPlaces
<1>2. n \in Sizes /\ store[n] \in Seq(Blocks) BY <1>1 DEF CallsInv, TypeOK
<1>3. /\ r \in Seq(Blocks) /\ Len(r) = Len(store[n]) + 1
      /\ 1 \in DOMAIN r /\ r[1] = b
      /\ \A i \in DOMAIN store[n] : i + 1 \in DOMAIN r /\ r[i + 1] = store[n][i]
      /\ \A i \in DOMAIN r : i = 1 \/ (i - 1 \in DOMAIN store[n] /\ r[i] = store[n][i - 1])
  BY <1>1, <1>2, PushEntries
<1>4. /\ store' = [store EXCEPT ![n] = r]
      /\ store'[n] = r
      /\ \A m \in Sizes : m # n => store'[m] = store[m]
  BY <1>2 DEF FreeKeeps, TypeOK
<1>5. UNCHANGED <<init, maxStore, sCount, sSize, heap, capacity, held, size>>
  BY DEF FreeKeeps
<1>6. /\ header' \in [Blocks -> Nat \union {Link}]
      /\ \A c \in Blocks : c # b => header'[c] = header[c]
  BY <1>1 DEF FreeKeeps, TypeOK
<1>7. /\ storeCount' \in [Sizes -> Int]
      /\ storeCount'[n] = storeCount[n] + 1
      /\ \A m \in Sizes : m # n => storeCount'[m] = storeCount[m]
  BY <1>2 DEF FreeKeeps, TypeOK
<1>8. TypeOK'
  <2>1. store' \in [Sizes -> Seq(Blocks)] BY <1>3, <1>4 DEF TypeOK
  <2> QED BY <2>1, <1>1, <1>5, <1>6, <1>7 DEF TypeOK
<1>9. Kept' = Kept \union {b}
  <2>1. ASSUME NEW c \in Kept' PROVE c \in Kept \/ c = b
    <3>1. PICK m \in Sizes : \E i \in DOMAIN store'[m] : c = store'[m][i]
      BY <2>1 DEF Kept
    <3>2. PICK i \in DOMAIN store'[m] : c = store'[m][i] BY <3>1
    <3>3. CASE m # n BY <3>2, <3>3, <1>4 DEF Kept
    <3>4. CASE m = n
      <4>1. i \in DOMAIN r /\ c = r[i] BY <3>2, <3>4, <1>4
      <4>2. i = 1 \/ (i - 1 \in DOMAIN store[n] /\ c = store[n][i - 1]) BY <4>1, <1>3
      <4> QED BY <4>1, <4>2, <1>2, <1>3 DEF Kept
    <3> QED BY <3>3, <3>4
  <2>2. ASSUME NEW c \in Kept PROVE c \in Kept'
    <3>1. PICK m \in Sizes : \E i \in DOMAIN store[m] : c = store[m][i] BY <2>2 DEF Kept
    <3>2. PICK i \in DOMAIN store[m] : c = store[m][i] BY <3>1
    <3>3. CASE m # n BY <3>2, <3>3, <1>4 DEF Kept
    <3>4. CASE m = n
      <4>1. i + 1 \in DOMAIN r /\ c = r[i + 1] BY <3>2, <3>4, <1>3
      <4> QED BY <4>1, <1>2, <1>4 DEF Kept
    <3> QED BY <3>3, <3>4
  <2>3. b \in Kept'
    <3>1. 1 \in DOMAIN store'[n] /\ store'[n][1] = b BY <1>3, <1>4
    <3> QED BY <3>1, <1>2 DEF Kept
  <2> QED BY <2>1, <2>2, <2>3
<1>10. OneHolder'
  <2>1. Blocks = heap \union held \union Kept' \union {block'[u] : u \in Busy'}
    BY <1>1, <1>9
  <2>2. \A u \in Busy' : block'[u] \notin heap \union held \union Kept'
    BY <1>1, <1>9 DEF OneHolder
  <2>3. \A u, v \in Busy' : block'[u] = block'[v] => u = v
    BY <1>1 DEF OneHolder
  <2>4. heap \intersect held = {} /\ (heap \union held) \intersect Kept' = {}
    BY <1>1, <1>9 DEF OneHolder
  <2>5. \A m, k \in Sizes : \A i \in DOMAIN store'[m], j \in DOMAIN store'[k] :
           store'[m][i] = store'[k][j] => m = k /\ i = j
    <3>1. \A m \in Sizes : \A i \in DOMAIN store[m] : store[m][i] # b
      BY <1>1 DEF Kept
    <3>2. \A i, j \in DOMAIN r : r[i] = r[j] => i = j
      <4> SUFFICES ASSUME NEW i \in DOMAIN r, NEW j \in DOMAIN r, r[i] = r[j]
                   PROVE  i = j
        OBVIOUS
      <4>1. i \in Nat /\ j \in Nat BY <1>3
      <4>2. CASE i = 1 \/ j = 1 BY <4>2, <3>1, <1>2, <1>3
      <4>3. CASE i # 1 /\ j # 1
        <5>1. /\ i - 1 \in DOMAIN store[n] /\ j - 1 \in DOMAIN store[n]
              /\ store[n][i - 1] = store[n][j - 1]
          BY <4>3, <1>3
        <5>2. i - 1 = j - 1 BY <5>1, <1>2 DEF OneHolder
        <5> QED BY <4>1, <5>2
      <4> QED BY <4>2, <4>3
    <3>3. \A m \in Sizes : m # n =>
             \A i \in DOMAIN store[m], j \in DOMAIN r : store[m][i] # r[j]
      BY <3>1, <1>2, <1>3 DEF OneHolder
    <3> HIDE DEF r
    <3> QED BY <3>2, <3>3, <1>4 DEF OneHolder
  <2> QED BY <2>1, <2>2, <2>3, <2>4, <2>5, <1>5 DEF OneHolder
<1>11. RightSize'
  <2>1. capacity[b] = n BY <1>1 DEF RightSize
  <2>2. \A i \in DOMAIN r : capacity[r[i]] = n BY <2>1, <1>2, <1>3 DEF RightSize
  <2>3. \A m \in Sizes : \A i \in DOMAIN store'[m] : capacity[store'[m][i]] = m
    BY <2>2, <1>4 DEF RightSize
  <2>4. \A u \in Busy' : capacity[block'[u]] = size[u] BY <1>1 DEF RightSize
  <2>5. \A c \in held : header'[c] = HeaderSize + capacity[c]
    BY <1>1, <1>6 DEF RightSize, TypeOK
  <2> QED BY <2>3, <2>4, <2>5, <1>5 DEF RightSize
<1>12. ListsBounded'
  <2>1. /\ storeCount[n] \in Int /\ maxStore[n] \in Nat
        /\ storeCount[n] = Len(store[n]) /\ storeCount[n] < maxStore[n]
    BY <1>2 DEF TypeOK, ListsBounded, FreeKeeps, HasRoom
  <2>2. Len(store'[n]) = Len(store[n]) + 1 BY <1>3, <1>4
  <2> HIDE DEF n, r, b
  <2>3. storeCount'[n] = Len(store'[n]) /\ storeCount'[n] <= maxStore[n]
    BY <2>1, <2>2, <1>7
  <2> QED BY <2>3, <1>4, <1>5, <1>7 DEF ListsBounded
<1>13. CallsInv'
  <2>1. ASSUME NEW u \in Threads, at'[u] = "counted"
        PROVE  header'[block'[u]] = HeaderSize + size[u]
    <3>1. u # t /\ at[u] = "counted" BY <2>1, <1>1
    <3>2. u \in Busy BY <3>1, BusyAt DEF BusyPlaces
    <3>3. block[u] # b /\ block[u] \in Blocks /\ block'[u] = block[u]
      BY <3>1, <3>2, <1>1 DEF OneHolder, TypeOK
    <3> QED BY <3>1, <3>3, <1>6 DEF CallsInv
  <2> QED BY <2>1, <1>1, <1>5 DEF CallsInv
<1>14. InitInv'
  <2>1. \A m \in Sizes : init[m] = "done" BY <1>1, Initialised
  <2> QED BY <2>1, <1>5, InitFrame
<1> QED BY <1>8, <1>10, <1>11, <1>12, <1>13, <1>14

-----------------------------------------------------------------------------
(* The steps in which only the place of a thread and the counters change.  *)

LEMMA QuietSteps ==
    ASSUME IInv, NEW t \in Threads,
           \/ AllocProbes(t) \/ AllocFindsNone(t) \/ AllocFails(t) \/ FreeCounts(t)
           \/ FreeSizes(t) \/ FreeProbes(t) \/ FreeFindsFull(t)
    PROVE  IInv'
<1>1. CASE AllocProbes(t)
  <2>1. \E to \in {"malloc", "pop"} : Goes(t, "probe", to) BY <1>1 DEF AllocProbes
  <2> QED BY <1>1, <2>1, QuietStep DEF AllocProbes, Places, BusyPlaces, IInv, TypeOK
<1>2. CASE AllocFindsNone(t)
  BY <1>2, QuietStep DEF AllocFindsNone, Places, BusyPlaces, IInv, TypeOK
<1>3. CASE AllocFails(t)
  BY <1>3, QuietStep DEF AllocFails, Places, BusyPlaces, IInv, TypeOK
<1>4. CASE FreeCounts(t)
  BY <1>4, QuietStep DEF FreeCounts, Places, BusyPlaces, IInv, TypeOK
<1>5. CASE FreeSizes(t)
  <2>1. sSize' \in Int
    <3>1. sSize \in Int /\ HeaderSize \in Int /\ size[t] \in Int
      BY SizeAssumption DEF IInv, TypeOK
    <3> QED BY <3>1, <1>5 DEF FreeSizes
  <2> QED BY <2>1, <1>5, QuietStep DEF FreeSizes, Places, BusyPlaces, IInv, TypeOK
<1>6. CASE FreeProbes(t)
  <2>1. \E to \in {"release", "push"} : Goes(t, "freeProbe", to) BY <1>6 DEF FreeProbes
  <2> QED BY <1>6, <2>1, QuietStep DEF FreeProbes, Places, BusyPlaces, IInv, TypeOK
<1>7. CASE FreeFindsFull(t)
  BY <1>7, QuietStep DEF FreeFindsFull, Places, BusyPlaces, IInv, TypeOK
<1> QED BY <1>1, <1>2, <1>3, <1>4, <1>5, <1>6, <1>7

LEMMA StutterStep == ASSUME IInv, UNCHANGED vars PROVE IInv'
<1> USE DEF IInv, vars
<1>1. Busy' = Busy BY DEF Busy
<1>2. TypeOK' BY <1>1 DEF TypeOK
<1>3. OneHolder' BY <1>1, HolderFrame
<1>4. RightSize' BY <1>1, SizeFrame
<1>5. ListsBounded' BY BoundFrame
<1>6. CallsInv' BY DEF CallsInv
<1>7. InitInv' BY DEF InitInv
<1> QED BY <1>2, <1>3, <1>4, <1>5, <1>6, <1>7

LEMMA StepHolds == IInv /\ [Next]_vars => IInv'
<1> SUFFICES ASSUME IInv, [Next]_vars PROVE IInv' OBVIOUS
<1>1. CASE UNCHANGED vars BY <1>1, StutterStep
<1>2. ASSUME NEW t \in Threads, NEW n \in Sizes, Alloc(t, n) PROVE IInv'
  BY <1>2, AllocStarts
<1>3. ASSUME NEW t \in Threads, NEW b \in held, Free(t, b) PROVE IInv'
  BY <1>3, FreeStarts
<1>4. ASSUME NEW t \in Threads, AllocStep(t) PROVE IInv'
  BY <1>4, QuietSteps, AllocPopsStep, AllocMallocsStep, AllocCountsStep, AllocReturnsStep
     DEF AllocStep
<1>5. ASSUME NEW t \in Threads, FreeStep(t) PROVE IInv'
  BY <1>5, QuietSteps, FreeKeepsStep, FreeReleasesStep DEF FreeStep
<1>6. ASSUME NEW n \in Sizes, InitTests(n) \/ InitWrites(n) PROVE IInv'
  BY <1>6, InitTestsStep, InitWritesStep
<1>7. ASSUME NEW n \in Sizes, NEW number \in CacheNumbers, SetCache(n, number) PROVE IInv'
  BY <1>7, SetCacheStep
<1> QED BY <1>1, <1>2, <1>3, <1>4, <1>5, <1>6, <1>7 DEF Next

LEMMA Inductive == Spec => []IInv
BY InitHolds, StepHolds, PTL DEF Spec

-----------------------------------------------------------------------------
(* The properties.                                                         *)

\* Every variable of __alloc and __free keeps its type.
THEOREM TypeCorrect == Spec => []TypeOK
<1>1. IInv => TypeOK BY DEF IInv
<1> QED BY <1>1, Inductive, PTL

\* __alloc and __free never give the same memory to two holders, nor lose any.
THEOREM MemoryHasOneHolder == Spec => []OneHolder
<1>1. IInv => OneHolder BY DEF IInv
<1> QED BY <1>1, Inductive, PTL

\* The memory a caller has is of the size he asked for, and its header says
\* so when __free reads it.
THEOREM MemoryHasRightSize == Spec => []RightSize
<1>1. IInv => RightSize BY DEF IInv
<1> QED BY <1>1, Inductive, PTL

\* No list of __free grows beyond the limit of its size.
THEOREM ListsAreBounded == Spec => []ListsBounded
<1>1. IInv => ListsBounded BY DEF IInv
<1> QED BY <1>1, Inductive, PTL

-----------------------------------------------------------------------------
(* Sums over blocks.                                                       *)

\* What MapThenSumSet adds up: a table of the sums over the subsets of S.
Pick(s) == CHOOSE x \in s : TRUE
Row(w, g, s) == IF s = {} THEN 0 ELSE HeaderSize + w[Pick(s)] + g[s \ {Pick(s)}]
Tabulates(g, w, S) == g = [s \in SUBSET S |-> Row(w, g, s)]
Table(w, S) == CHOOSE g : Tabulates(g, w, S)
Total(w, S) == Table(w, S)[S]

\* Induction over sets of blocks: what is wrong of one is wrong of a least one.
LEMMA LeastSet ==
    ASSUME NEW Wrong \in SUBSET (SUBSET Blocks), Wrong # {}
    PROVE  \E S \in Wrong : \A T \in SUBSET S : T # S => T \notin Wrong
<1>1. FiniteSubsetsOf(Blocks) = SUBSET Blocks
  BY FS_FiniteSubsetsOfFinite, BlocksFinite
<1>2. IsWellFoundedOn(StrictSubsetOrdering(Blocks), SUBSET Blocks)
  BY <1>1, FS_StrictSubsetOrderingWellFounded
<1>3. PICK S \in Wrong : \A T \in Wrong : ~(<<T, S>> \in StrictSubsetOrdering(Blocks))
  BY <1>2, WFMin, Zenon
<1>4. ASSUME NEW T \in SUBSET S, T # S, T \in Wrong PROVE FALSE
  <2>1. <<T, S>> \in (SUBSET Blocks) \X (SUBSET Blocks)
    BY <1>4
  <2>2. <<T, S>> \in StrictSubsetOrdering(Blocks)
    BY <1>4, <2>1 DEF StrictSubsetOrdering
  <2> QED
    BY <1>3, <1>4, <2>2
<1> QED
  BY <1>4

LEMMA PickIn == ASSUME NEW s, s # {} PROVE Pick(s) \in s /\ s \ {Pick(s)} \subseteq s /\ s \ {Pick(s)} # s
  BY DEF Pick

\* Tables agree where the weights do.
LEMMA TablesAgree ==
    ASSUME NEW S \in SUBSET Blocks, NEW T \in SUBSET Blocks, NEW v, NEW w, NEW g, NEW h,
           Tabulates(g, v, S), Tabulates(h, w, T),
           NEW U \in SUBSET (S \intersect T), \A b \in U : v[b] = w[b]
    PROVE  g[U] = h[U]
<1> DEFINE Wrong == {s \in SUBSET U : g[s] # h[s]}
<1>1. SUFFICES ASSUME Wrong # {} PROVE FALSE
  BY <1>1
<1>2. PICK s \in Wrong : \A t \in SUBSET s : t # s => t \notin Wrong
  <2>1. Wrong \in SUBSET (SUBSET Blocks)
    OBVIOUS
  <2> HIDE DEF Wrong
  <2> QED
    BY <1>1, <2>1, LeastSet
<1>3. s \in SUBSET S /\ s \in SUBSET T /\ s \in SUBSET U
  OBVIOUS
<1>4. g[s] = Row(v, g, s) /\ h[s] = Row(w, h, s)
  BY <1>3 DEF Tabulates
<1>5. CASE s = {}
  BY <1>2, <1>4, <1>5 DEF Row
<1>6. CASE s # {}
  <2>1. Pick(s) \in s /\ s \ {Pick(s)} \in SUBSET s /\ s \ {Pick(s)} # s
    BY <1>6, PickIn
  <2>2. g[s \ {Pick(s)}] = h[s \ {Pick(s)}]
    BY <1>2, <1>3, <2>1
  <2> QED
    BY <1>2, <1>3, <1>4, <1>6, <2>1, <2>2 DEF Row
<1> QED
  BY <1>5, <1>6

LEMMA PartOfTable ==
    ASSUME NEW S \in SUBSET Blocks, NEW T \in SUBSET S, NEW w,
           Tabulates(Table(w, S), w, S), Tabulates(Table(w, T), w, T)
    PROVE  Table(w, S)[T] = Total(w, T)
<1>1. T \in SUBSET Blocks /\ T \in SUBSET (S \intersect T)
  OBVIOUS
<1>2. Table(w, S)[T] = Table(w, T)[T]
  BY <1>1, TablesAgree
<1> QED
  BY <1>2 DEF Total

\* There is a table of each set, by gluing those of its subsets.
LEMMA TableExists ==
    ASSUME NEW S \in SUBSET Blocks, NEW w
    PROVE  Tabulates(Table(w, S), w, S)
<1> DEFINE Wrong == {s \in SUBSET Blocks : ~ \E g : Tabulates(g, w, s)}
<1>1. SUFFICES ASSUME Wrong # {} PROVE FALSE
  <2>1. \E g : Tabulates(g, w, S)
    BY <1>1
  <2> QED
    BY <2>1, Zenon DEF Table
<1>2. PICK s \in Wrong : \A t \in SUBSET s : t # s => t \notin Wrong
  BY <1>1, LeastSet
<1>3. \A t \in SUBSET s : t # s => Tabulates(Table(w, t), w, t)
  <2>1. ASSUME NEW t \in SUBSET s, t # s PROVE Tabulates(Table(w, t), w, t)
    <3>1. \E g : Tabulates(g, w, t)
      BY <1>2, <2>1
    <3> QED
      BY <3>1, Zenon DEF Table
  <2> QED
    BY <2>1
<1> DEFINE k == [t \in SUBSET s |-> IF t # s THEN Total(w, t)
                                    ELSE IF s = {} THEN 0
                                    ELSE HeaderSize + w[Pick(s)] + Total(w, s \ {Pick(s)})]
<1>4. ASSUME NEW t \in SUBSET s PROVE k[t] = Row(w, k, t)
  <2>1. CASE t = {}
    <3>1. CASE t = s
      BY <2>1, <3>1 DEF Row
    <3>2. CASE t # s
      <4>1. Total(w, t) = Row(w, Table(w, t), t)
        BY <1>3, <3>2 DEF Tabulates, Total
      <4> QED
        BY <2>1, <3>2, <4>1 DEF Row
    <3> QED
      BY <3>1, <3>2
  <2>2. CASE t # {}
    <3> DEFINE u == t \ {Pick(t)}
    <3>1. Pick(t) \in t /\ u \in SUBSET t /\ u # t
      BY <2>2, PickIn
    <3>2. u \in SUBSET s /\ u # s
      BY <3>1
    <3>3. k[u] = Total(w, u)
      BY <3>2
    <3>4. CASE t = s
      BY <2>2, <3>3, <3>4 DEF Row
    <3>5. CASE t # s
      <4>1. Tabulates(Table(w, t), w, t) /\ Tabulates(Table(w, u), w, u)
        BY <1>3, <3>2, <3>5
      <4>2. Table(w, t)[u] = Total(w, u)
        <5>1. t \in SUBSET Blocks /\ u \in SUBSET t
          BY <3>1
        <5> HIDE DEF u
        <5> QED
          BY <4>1, <5>1, PartOfTable
      <4>3. Total(w, t) = Row(w, Table(w, t), t)
        BY <4>1 DEF Tabulates, Total
      <4>4. Row(w, Table(w, t), t) = HeaderSize + w[Pick(t)] + Total(w, u)
        BY <2>2, <4>2 DEF Row
      <4>5. k[t] = Total(w, t)
        BY <3>5
      <4>6. Row(w, k, t) = HeaderSize + w[Pick(t)] + k[u]
        BY <2>2 DEF Row
      <4> QED
        BY <3>3, <4>3, <4>4, <4>5, <4>6
    <3> QED
      BY <3>4, <3>5
  <2> QED
    BY <2>1, <2>2
<1>5. Tabulates(k, w, s)
  <2>1. k = [t \in SUBSET s |-> k[t]]
    OBVIOUS
  <2> HIDE DEF k
  <2>2. k = [t \in SUBSET s |-> Row(w, k, t)]
    BY <1>4, <2>1
  <2> QED
    BY <2>2 DEF Tabulates
<1> QED
  BY <1>2, <1>5

\* The sum of no blocks, and of some; the first taken is an arbitrary one.
LEMMA TotalUnfolds ==
    ASSUME NEW S \in SUBSET Blocks, NEW w
    PROVE  /\ S = {} => Total(w, S) = 0
           /\ S # {} => Total(w, S) = HeaderSize + w[Pick(S)] + Total(w, S \ {Pick(S)})
<1>1. Tabulates(Table(w, S), w, S)
  BY TableExists
<1>2. Total(w, S) = Row(w, Table(w, S), S)
  BY <1>1 DEF Tabulates, Total
<1>3. CASE S = {}
  BY <1>2, <1>3 DEF Row
<1>4. CASE S # {}
  <2> DEFINE T == S \ {Pick(S)}
  <2>1. T \in SUBSET Blocks /\ T \in SUBSET S
    OBVIOUS
  <2>2. Tabulates(Table(w, T), w, T)
    BY <2>1, TableExists
  <2>3. Table(w, S)[T] = Total(w, T)
    <3> HIDE DEF T
    <3> QED
      BY <1>1, <2>1, <2>2, PartOfTable
  <2> QED
    BY <1>2, <1>4, <2>3 DEF Row
<1> QED
  BY <1>3, <1>4

\* The sum depends on the blocks it is over.
LEMMA TotalAgrees ==
    ASSUME NEW S \in SUBSET Blocks, NEW v, NEW w, \A b \in S : v[b] = w[b]
    PROVE  Total(v, S) = Total(w, S)
<1>1. Tabulates(Table(v, S), v, S) /\ Tabulates(Table(w, S), w, S)
  BY TableExists
<1>2. S \in SUBSET (S \intersect S)
  OBVIOUS
<1> QED
  BY <1>1, <1>2, TablesAgree DEF Total

LEMMA TotalType ==
    ASSUME NEW S \in SUBSET Blocks, NEW w \in [Blocks -> Nat]
    PROVE  Total(w, S) \in Nat
<1> DEFINE Wrong == {s \in SUBSET Blocks : Total(w, s) \notin Nat}
<1>1. SUFFICES ASSUME Wrong # {} PROVE FALSE
  BY <1>1
<1>2. PICK s \in Wrong : \A t \in SUBSET s : t # s => t \notin Wrong
  BY <1>1, LeastSet
<1>3. s # {}
  <2>1. Total(w, {}) = 0
    BY TotalUnfolds
  <2> QED
    BY <1>2, <2>1
<1>4. Pick(s) \in s /\ s \ {Pick(s)} \in SUBSET s /\ s \ {Pick(s)} # s
  BY <1>3, PickIn
<1>5. Total(w, s \ {Pick(s)}) \in Nat
  BY <1>2, <1>4
<1>6. Total(w, s) = HeaderSize + w[Pick(s)] + Total(w, s \ {Pick(s)})
  BY <1>3, TotalUnfolds
<1>7. w[Pick(s)] \in Nat
  BY <1>4
<1> QED
  BY <1>2, <1>5, <1>6, <1>7, SizeAssumption

\* The order does not matter: any block may be taken first.
LEMMA TotalTakes ==
    ASSUME NEW S \in SUBSET Blocks, NEW x \in S, NEW w \in [Blocks -> Nat]
    PROVE  Total(w, S) = HeaderSize + w[x] + Total(w, S \ {x})
<1> DEFINE Wrong == {s \in SUBSET Blocks :
                       \E z \in s : Total(w, s) # HeaderSize + w[z] + Total(w, s \ {z})}
<1>1. SUFFICES ASSUME Wrong # {} PROVE FALSE
  BY <1>1
<1>2. PICK s \in Wrong : \A t \in SUBSET s : t # s => t \notin Wrong
  BY <1>1, LeastSet
<1>3. PICK z \in s : Total(w, s) # HeaderSize + w[z] + Total(w, s \ {z})
  BY <1>2
<1> DEFINE y == Pick(s)
<1>4. y \in s /\ s \in SUBSET Blocks
  BY PickIn
<1>5. Total(w, s) = HeaderSize + w[y] + Total(w, s \ {y})
  BY <1>4, TotalUnfolds
<1> HIDE DEF y
<1>6. y # z
  BY <1>3, <1>5
<1> DEFINE r == (s \ {y}) \ {z}
<1>7. Total(w, s \ {y}) = HeaderSize + w[z] + Total(w, r)
  <2>1. s \ {y} \in SUBSET s /\ s \ {y} # s /\ z \in s \ {y}
    BY <1>4, <1>6
  <2> QED
    BY <1>2, <2>1
<1>8. Total(w, s \ {z}) = HeaderSize + w[y] + Total(w, r)
  <2>1. s \ {z} \in SUBSET s /\ s \ {z} # s /\ y \in s \ {z}
    BY <1>4, <1>6
  <2>2. (s \ {z}) \ {y} = r
    OBVIOUS
  <2>3. Total(w, s \ {z}) = HeaderSize + w[y] + Total(w, (s \ {z}) \ {y})
    BY <1>2, <2>1
  <2> QED
    BY <2>2, <2>3
<1>9. w[y] \in Nat /\ w[z] \in Nat /\ Total(w, r) \in Nat
  BY <1>4, TotalType
<1> QED
  BY <1>3, <1>5, <1>7, <1>8, <1>9, SizeAssumption

\* A block more.
LEMMA TotalAdds ==
    ASSUME NEW S \in SUBSET Blocks, NEW x \in Blocks \ S, NEW w \in [Blocks -> Nat]
    PROVE  Total(w, S \union {x}) = HeaderSize + w[x] + Total(w, S)
<1> DEFINE T == S \union {x}
<1>1. T \in SUBSET Blocks /\ x \in T /\ T \ {x} = S
  OBVIOUS
<1> HIDE DEF T
<1>2. Total(w, T) = HeaderSize + w[x] + Total(w, T \ {x})
  BY <1>1, TotalTakes
<1> QED
  BY <1>1, <1>2 DEF T

-----------------------------------------------------------------------------
(* What s_count and s_size account for.                                    *)

\* The blocks of the threads that are in P.
Inside(P) == {block[t] : t \in {u \in Threads : at[u] \in P}}

Counted == held \union Inside({"counted", "free"})
Sized   == held \union Inside({"free", "uncounted"})

Usage == sCount = Cardinality(Counted) /\ sSize = Total(capacity, Sized)

LEMMA UsageMeans == Usage <=> UsageExact
<1> DEFINE Bytes(b) == HeaderSize + capacity[b]
<1>1. ASSUME NEW P \in SUBSET BusyPlaces
      PROVE  {block[t] : t \in {u \in Busy : at[u] \in P}} = Inside(P)
  BY DEF Busy, BusyPlaces, Inside
<1>2. /\ {block[t] : t \in {u \in Busy : at[u] \in {"counted", "free"}}} = Inside({"counted", "free"})
      /\ {block[t] : t \in {u \in Busy : at[u] \in {"free", "uncounted"}}} = Inside({"free", "uncounted"})
  <2>1. {"counted", "free"} \in SUBSET BusyPlaces /\ {"free", "uncounted"} \in SUBSET BusyPlaces
    BY DEF BusyPlaces
  <2> QED
    BY <1>1, <2>1
<1>3. MapThenSumSet(Bytes, Sized) = Total(capacity, Sized)
  BY Zenon DEF MapThenSumSet, MapThenFoldSet, Total, Table, Tabulates, Row, Pick
<1>4. UsageExact <=> sCount = Cardinality(Counted) /\ sSize = MapThenSumSet(Bytes, Sized)
  BY <1>2, Zenon DEF UsageExact, Counted, Sized
<1> QED
  BY <1>3, <1>4 DEF Usage

\* The thread t moves alone.
Alone(t) == \A u \in Threads : u # t => at'[u] = at[u] /\ block'[u] = block[u]

LEMMA InsideStays ==
    ASSUME NEW t \in Threads, NEW P, Alone(t),
           \/ at[t] \notin P /\ at'[t] \notin P
           \/ at[t] \in P /\ at'[t] \in P /\ block'[t] = block[t]
    PROVE  Inside(P)' = Inside(P)
  BY DEF Alone, Inside

LEMMA InsideEnters ==
    ASSUME NEW t \in Threads, NEW P, Alone(t), at[t] \notin P, at'[t] \in P
    PROVE  Inside(P)' = Inside(P) \union {block'[t]}
  BY DEF Alone, Inside

LEMMA InsideLeaves ==
    ASSUME NEW t \in Threads, NEW P, Alone(t), at[t] \in P, at'[t] \notin P,
           \A u \in Threads : u # t /\ at[u] \in P => block[u] # block[t]
    PROVE  Inside(P)' = Inside(P) \ {block[t]} /\ block[t] \in Inside(P)
  BY DEF Alone, Inside

\* A block that a thread works on is with it alone.
LEMMA WorkedOn ==
    ASSUME IInv, NEW t \in Threads, at[t] \in BusyPlaces
    PROVE  /\ block[t] \in Blocks /\ block[t] \notin held /\ block[t] \notin heap
           /\ capacity[block[t]] = size[t] /\ size[t] \in Nat
           /\ \A u \in Threads : u # t /\ at[u] \in BusyPlaces => block[u] # block[t]
<1>1. t \in Busy
  BY BusyAt
<1>2. block[t] \in Blocks
  BY <1>1 DEF IInv, TypeOK
<1>3. block[t] \notin held /\ block[t] \notin heap
  BY <1>1 DEF IInv, OneHolder
<1>4. capacity[block[t]] = size[t]
  BY <1>1 DEF IInv, RightSize
<1>5. size[t] \in Nat
  BY <1>2, <1>4 DEF IInv, TypeOK
<1>6. ASSUME NEW u \in Threads, u # t, at[u] \in BusyPlaces PROVE block[u] # block[t]
  <2>1. u \in Busy
    BY <1>6, BusyAt
  <2> QED
    BY <1>1, <1>6, <2>1 DEF IInv, OneHolder
<1> QED
  BY <1>2, <1>3, <1>4, <1>5, <1>6

LEMMA InsideType ==
    ASSUME IInv, NEW P \in SUBSET BusyPlaces
    PROVE  Inside(P) \subseteq Blocks \ heap
  BY WorkedOn DEF Inside

LEMMA UsageType ==
    ASSUME IInv
    PROVE  /\ Counted \in SUBSET Blocks /\ Sized \in SUBSET Blocks /\ Sized \intersect heap = {}
           /\ IsFiniteSet(Counted) /\ capacity \in [Blocks -> Nat]
           /\ sCount \in Int /\ sSize \in Int
<1>1. Inside({"counted", "free"}) \subseteq Blocks /\ Inside({"free", "uncounted"}) \subseteq Blocks \ heap
  BY InsideType DEF BusyPlaces
<1>2. held \subseteq Blocks /\ held \intersect heap = {}
  BY DEF IInv, TypeOK, OneHolder
<1>3. Counted \in SUBSET Blocks /\ Sized \in SUBSET Blocks /\ Sized \intersect heap = {}
  BY <1>1, <1>2 DEF Counted, Sized
<1>4. IsFiniteSet(Counted)
  BY <1>3, BlocksFinite, FS_Subset
<1> QED
  BY <1>3, <1>4 DEF IInv, TypeOK

\* Nothing is accounted for anew.
LEMMA UsageFrame ==
    ASSUME Usage, Counted' = Counted, Sized' = Sized,
           UNCHANGED <<sCount, sSize, capacity>>
    PROVE  Usage'
  BY DEF Usage

\* A step of a thread that is outside what is counted, before and after.
LEMMA UsageAside ==
    ASSUME Usage, NEW t \in Threads, Alone(t), UNCHANGED <<sCount, sSize, capacity, held>>,
           at[t] \notin {"counted", "free", "uncounted"},
           at'[t] \notin {"counted", "free", "uncounted"}
    PROVE  Usage'
<1>1. /\ Inside({"counted", "free"})' = Inside({"counted", "free"})
      /\ Inside({"free", "uncounted"})' = Inside({"free", "uncounted"})
  BY InsideStays
<1> QED
  BY <1>1, UsageFrame DEF Counted, Sized

\* The thread t goes, and may take or leave a block.
LEMMA GoesAlone ==
    ASSUME IInv, NEW t \in Threads, NEW from, NEW to, Goes(t, from, to),
           \/ UNCHANGED block
           \/ \E b : block' = [block EXCEPT ![t] = b]
    PROVE  Alone(t) /\ at[t] = from /\ at'[t] = to
  BY DEF IInv, TypeOK, Goes, Alone

LEMMA NotBusyUsage ==
    ASSUME IInv, Usage, NEW t \in Threads,
           \/ AllocProbes(t) \/ AllocPops(t) \/ AllocFindsNone(t) \/ AllocFails(t)
           \/ FreeProbes(t) \/ FreeKeeps(t) \/ FreeFindsFull(t) \/ FreeReleases(t)
           \/ \E n \in Sizes : Alloc(t, n)
    PROVE  Usage'
<1>1. CASE AllocProbes(t)
  BY <1>1, GoesAlone, UsageAside DEF AllocProbes
<1>2. CASE AllocPops(t)
  <2>1. Alone(t) /\ at[t] = "pop" /\ at'[t] = "header"
    BY <1>2, GoesAlone DEF AllocPops
  <2> QED
    BY <1>2, <2>1, UsageAside DEF AllocPops
<1>3. CASE AllocFindsNone(t)
  BY <1>3, GoesAlone, UsageAside DEF AllocFindsNone
<1>4. CASE AllocFails(t)
  BY <1>4, GoesAlone, UsageAside DEF AllocFails
<1>5. CASE FreeProbes(t)
  BY <1>5, GoesAlone, UsageAside DEF FreeProbes
<1>6. CASE FreeKeeps(t)
  <2>1. Alone(t) /\ at[t] = "push" /\ at'[t] = "idle"
    BY <1>6, GoesAlone DEF FreeKeeps
  <2> QED
    BY <1>6, <2>1, UsageAside DEF FreeKeeps
<1>7. CASE FreeFindsFull(t)
  BY <1>7, GoesAlone, UsageAside DEF FreeFindsFull
<1>8. CASE FreeReleases(t)
  <2>1. Alone(t) /\ at[t] = "release" /\ at'[t] = "idle"
    BY <1>8, GoesAlone DEF FreeReleases
  <2> QED
    BY <1>8, <2>1, UsageAside DEF FreeReleases
<1>9. CASE \E n \in Sizes : Alloc(t, n)
  BY <1>9, GoesAlone, UsageAside DEF Alloc
<1> QED
  BY <1>1, <1>2, <1>3, <1>4, <1>5, <1>6, <1>7, <1>8, <1>9

\* malloc writes the size of a block that nothing is accounted for.
LEMMA MallocUsage == ASSUME IInv, Usage, NEW t \in Threads, AllocMallocs(t) PROVE Usage'
<1>1. PICK b \in heap : /\ capacity' = [capacity EXCEPT ![b] = size[t]]
                        /\ block' = [block EXCEPT ![t] = b]
  BY DEF AllocMallocs
<1>2. Alone(t) /\ at[t] = "malloc" /\ at'[t] = "header"
  BY <1>1, GoesAlone DEF AllocMallocs
<1>3. Counted' = Counted /\ Sized' = Sized
  BY <1>2, InsideStays DEF AllocMallocs, Counted, Sized
<1>4. \A a \in Sized : capacity'[a] = capacity[a]
  BY <1>1, UsageType
<1>5. Total(capacity', Sized) = Total(capacity, Sized)
  BY <1>4, UsageType, TotalAgrees
<1> QED
  BY <1>3, <1>5 DEF Usage, AllocMallocs

LEMMA CountsUsage == ASSUME IInv, Usage, NEW t \in Threads, AllocCounts(t) PROVE Usage'
<1>1. Alone(t) /\ at[t] = "header" /\ at'[t] = "counted" /\ UNCHANGED block
  BY GoesAlone DEF AllocCounts
<1>2. Inside({"counted", "free"})' = Inside({"counted", "free"}) \union {block[t]}
  BY <1>1, InsideEnters
<1>3. Inside({"free", "uncounted"})' = Inside({"free", "uncounted"})
  BY <1>1, InsideStays
<1>4. Counted' = Counted \union {block[t]} /\ Sized' = Sized
  BY <1>2, <1>3 DEF AllocCounts, Counted, Sized
<1>5. block[t] \notin Counted
  BY <1>1, WorkedOn DEF Counted, Inside, BusyPlaces
<1>6. Cardinality(Counted \union {block[t]}) = Cardinality(Counted) + 1
  BY <1>5, UsageType, FS_AddElement
<1> QED
  BY <1>4, <1>6 DEF Usage, AllocCounts

LEMMA ReturnsUsage == ASSUME IInv, Usage, NEW t \in Threads, AllocReturns(t) PROVE Usage'
<1>1. Alone(t) /\ at[t] = "counted" /\ at'[t] = "idle"
  BY GoesAlone DEF AllocReturns
<1> DEFINE b == block[t]
<1>2. /\ b \in Blocks /\ capacity[b] = size[t] /\ size[t] \in Nat
      /\ b \notin held /\ \A u \in Threads : u # t /\ at[u] \in BusyPlaces => block[u] # b
  BY <1>1, WorkedOn DEF BusyPlaces
<1>3. /\ Inside({"counted", "free"})' = Inside({"counted", "free"}) \ {b}
      /\ b \in Inside({"counted", "free"})
  BY <1>1, <1>2, InsideLeaves DEF BusyPlaces
<1>4. Inside({"free", "uncounted"})' = Inside({"free", "uncounted"})
  BY <1>1, InsideStays
<1>5. Counted' = Counted /\ Sized' = Sized \union {b}
  BY <1>3, <1>4 DEF AllocReturns, Counted, Sized
<1>6. b \notin Sized
  BY <1>1, <1>2 DEF Sized, Inside, BusyPlaces
<1>7. Total(capacity, Sized \union {b}) = HeaderSize + capacity[b] + Total(capacity, Sized)
  BY <1>2, <1>6, UsageType, TotalAdds
<1>8. Total(capacity, Sized) \in Nat
  BY UsageType, TotalType
<1> QED
  BY <1>2, <1>5, <1>7, <1>8, SizeAssumption DEF Usage, AllocReturns

LEMMA FreeUsage == ASSUME IInv, Usage, NEW t \in Threads, NEW b \in held, Free(t, b) PROVE Usage'
<1>1. Alone(t) /\ at[t] = "idle" /\ at'[t] = "free" /\ block'[t] = b
  BY GoesAlone DEF Free, IInv, TypeOK
<1>2. /\ Inside({"counted", "free"})' = Inside({"counted", "free"}) \union {b}
      /\ Inside({"free", "uncounted"})' = Inside({"free", "uncounted"}) \union {b}
  BY <1>1, InsideEnters
<1>3. Counted' = Counted /\ Sized' = Sized
  BY <1>2 DEF Free, Counted, Sized
<1> QED
  BY <1>3, UsageFrame DEF Free

LEMMA UncountsUsage == ASSUME IInv, Usage, NEW t \in Threads, FreeCounts(t) PROVE Usage'
<1>1. Alone(t) /\ at[t] = "free" /\ at'[t] = "uncounted" /\ UNCHANGED block
  BY GoesAlone DEF FreeCounts
<1>2. /\ block[t] \notin held
      /\ \A u \in Threads : u # t /\ at[u] \in BusyPlaces => block[u] # block[t]
  BY <1>1, WorkedOn DEF BusyPlaces
<1>3. /\ Inside({"counted", "free"})' = Inside({"counted", "free"}) \ {block[t]}
      /\ block[t] \in Inside({"counted", "free"})
  BY <1>1, <1>2, InsideLeaves DEF BusyPlaces
<1>4. Inside({"free", "uncounted"})' = Inside({"free", "uncounted"})
  BY <1>1, InsideStays
<1>5. Counted' = Counted \ {block[t]} /\ block[t] \in Counted /\ Sized' = Sized
  BY <1>2, <1>3, <1>4 DEF FreeCounts, Counted, Sized
<1>6. Cardinality(Counted \ {block[t]}) = Cardinality(Counted) - 1
  <2>1. \A S, x : IsFiniteSet(S) /\ x \in S => Cardinality(S \ {x}) = Cardinality(S) - 1
    BY FS_RemoveElement
  <2> QED
    BY <1>5, <2>1, UsageType
<1> QED
  BY <1>5, <1>6 DEF Usage, FreeCounts

LEMMA UnsizesUsage == ASSUME IInv, Usage, NEW t \in Threads, FreeSizes(t) PROVE Usage'
<1>1. Alone(t) /\ at[t] = "uncounted" /\ at'[t] = "freeProbe" /\ UNCHANGED block
  BY GoesAlone DEF FreeSizes
<1> DEFINE b == block[t]
<1>2. /\ b \in Blocks /\ capacity[b] = size[t] /\ size[t] \in Nat
      /\ b \notin held /\ \A u \in Threads : u # t /\ at[u] \in BusyPlaces => block[u] # b
  BY <1>1, WorkedOn DEF BusyPlaces
<1>3. /\ Inside({"free", "uncounted"})' = Inside({"free", "uncounted"}) \ {b}
      /\ b \in Inside({"free", "uncounted"})
  BY <1>1, <1>2, InsideLeaves DEF BusyPlaces
<1>4. Inside({"counted", "free"})' = Inside({"counted", "free"})
  BY <1>1, InsideStays
<1>5. Counted' = Counted /\ Sized' = Sized \ {b} /\ b \in Sized
  BY <1>2, <1>3, <1>4 DEF FreeSizes, Counted, Sized
<1>6. Total(capacity, Sized) = HeaderSize + capacity[b] + Total(capacity, Sized \ {b})
  BY <1>5, UsageType, TotalTakes
<1>7. Total(capacity, Sized \ {b}) \in Nat
  BY UsageType, TotalType
<1> QED
  BY <1>2, <1>5, <1>6, <1>7, SizeAssumption DEF Usage, FreeSizes

\* What moves no thread.
LEMMA NobodyUsage ==
    ASSUME Usage, UNCHANGED <<sCount, sSize, capacity, held, at, block>>
    PROVE  Usage'
<1>1. Counted' = Counted /\ Sized' = Sized
  BY DEF Counted, Sized, Inside
<1> QED
  BY <1>1, UsageFrame

LEMMA UsageHolds == IInv /\ Usage /\ [Next]_vars => Usage'
<1> SUFFICES ASSUME IInv, Usage, [Next]_vars PROVE Usage' OBVIOUS
<1>1. CASE UNCHANGED vars BY <1>1, NobodyUsage DEF vars
<1>2. ASSUME NEW t \in Threads, NEW n \in Sizes, Alloc(t, n) PROVE Usage'
  BY <1>2, NotBusyUsage
<1>3. ASSUME NEW t \in Threads, NEW b \in held, Free(t, b) PROVE Usage'
  BY <1>3, FreeUsage
<1>4. ASSUME NEW t \in Threads, AllocStep(t) PROVE Usage'
  BY <1>4, NotBusyUsage, MallocUsage, CountsUsage, ReturnsUsage DEF AllocStep
<1>5. ASSUME NEW t \in Threads, FreeStep(t) PROVE Usage'
  BY <1>5, NotBusyUsage, UncountsUsage, UnsizesUsage DEF FreeStep
<1>6. ASSUME NEW n \in Sizes, InitTests(n) \/ InitWrites(n) PROVE Usage'
  BY <1>6, NobodyUsage DEF InitTests, InitWrites
<1>7. ASSUME NEW n \in Sizes, NEW number \in CacheNumbers, SetCache(n, number) PROVE Usage'
  BY <1>7, NobodyUsage DEF SetCache
<1> QED BY <1>1, <1>2, <1>3, <1>4, <1>5, <1>6, <1>7 DEF Next

\* What __usage reads is right up to the calls that are under way: s_count and
\* s_size change in steps of their own, in an order that differs between
\* __alloc and __free, and neither forgets a block nor counts one twice.
THEOREM UsageIsExact == Spec => []UsageExact
<1>1. Init => Usage
  <2> SUFFICES ASSUME Init PROVE Usage OBVIOUS
  <2>1. Counted = {} /\ Sized = {}
    BY DEF Init, Counted, Sized, Inside
  <2>2. Total(capacity, {}) = 0
    BY TotalUnfolds
  <2> QED
    BY <2>1, <2>2, FS_EmptySet DEF Usage, Init
<1>2. IInv /\ Usage /\ [Next]_vars => Usage'
  BY UsageHolds
<1>3. Usage => UsageExact
  BY UsageMeans
<1> QED
  BY <1>1, <1>2, <1>3, Inductive, PTL DEF Spec
=============================================================================
