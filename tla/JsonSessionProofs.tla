------------------------- MODULE JsonSessionProofs -------------------------
(***************************************************************************)
(* Proofs about JsonSession, for all packets, limits and finite sets of    *)
(* workers: the bytes stay in the buffer (InBounds), the messages of the   *)
(* stream are handled in their order (MessagesInOrder), and none that has  *)
(* come is left when all tasks are done (NothingForgotten).                *)
(*                                                                         *)
(* First what the recursive definitions are worth: FlattenSeq, the         *)
(* doubling of Grown, Framed and Malformed.  Then the invariants: Shape    *)
(* for the bounds; Order, which says that the messages of the stream are   *)
(* those that were handled and then those of the bytes that are left,      *)
(* whatever still comes; and three more for what is left at rest.          *)
(***************************************************************************)
EXTENDS JsonSession, SequenceTheorems, FiniteSetTheorems, WellFoundedInduction, TLAPS

-----------------------------------------------------------------------------
(* Recursive functions.  A definition f[s \in S] == ... says something     *)
(* only if there is a function that satisfies it.                          *)

\* A set of numbers that is not empty has a least element.
LEMMA LeastNumber ==
    ASSUME NEW Wrong \in SUBSET Nat, Wrong # {}
    PROVE  \E n \in Wrong : \A m \in Wrong : n <= m
<1>1. IsWellFoundedOn(OpToRel(<, Nat), Nat)
  BY NatLessThanWellFounded
<1>2. PICK n \in Wrong : \A m \in Wrong : ~(<<m, n>> \in OpToRel(<, Nat))
  BY <1>1, WFMin, Zenon
<1>3. ASSUME NEW m \in Wrong PROVE n <= m
  <2>1. m \in Nat /\ n \in Nat
    OBVIOUS
  <2>2. ~(m < n)
    BY <1>2, <2>1 DEF OpToRel
  <2> QED
    BY <2>1, <2>2
<1> QED
  BY <1>3

\* What is wrong of one is wrong of a smaller one: then it is wrong of none.
LEMMA Descent ==
    ASSUME NEW S, NEW size \in [S -> Nat], NEW Wrong \in SUBSET S,
           \A s \in Wrong : \E r \in Wrong : size[r] < size[s]
    PROVE  Wrong = {}
<1> DEFINE Sizes == {size[s] : s \in Wrong}
<1>1. SUFFICES ASSUME Wrong # {} PROVE FALSE
  OBVIOUS
<1>2. Sizes \in SUBSET Nat /\ Sizes # {}
  BY <1>1
<1> HIDE DEF Sizes
<1>3. PICK n \in Sizes : \A m \in Sizes : n <= m
  BY <1>2, LeastNumber
<1>4. PICK s \in Wrong : n = size[s]
  BY <1>3 DEF Sizes
<1>5. PICK r \in Wrong : size[r] < size[s]
  BY <1>4
<1>6. size[r] \in Sizes /\ size[r] \in Nat /\ size[s] \in Nat
  BY DEF Sizes
<1> QED
  BY <1>3, <1>4, <1>5, <1>6

\* The body of a definition by recursion: the value at s comes from s alone if s
\* is in stop, and else from the value at next[s].
Body(f, s, stop, base, next, G) == IF s \in stop THEN base[s] ELSE G[<<s, f[next[s]]>>]

\* f is defined that way on T, with values in V.
Solves(f, T, V, stop, base, next, G) ==
    /\ f \in [T -> V]
    /\ \A s \in T : f[s] = Body(f, s, stop, base, next, G)

\* If next makes a measure smaller, then the definition defines a function.
LEMMA RecursionExists ==
    ASSUME NEW S, NEW V, NEW size \in [S -> Nat], NEW stop, NEW base, NEW next, NEW G,
           \A s \in S \intersect stop : base[s] \in V,
           \A s \in S \ stop : next[s] \in S /\ size[next[s]] < size[s],
           \A s \in S \ stop : \A v \in V : G[<<s, v>>] \in V
    PROVE  \E f : Solves(f, S, V, stop, base, next, G)
<1> DEFINE Below(n) == {s \in S : size[s] < n}
           Sol(f, n) == Solves(f, Below(n), V, stop, base, next, G)
           Pick(n) == CHOOSE f : Sol(f, n)
<1>0. ASSUME NEW s \in S PROVE size[s] \in Nat
  OBVIOUS
<1>1. ASSUME NEW m \in Nat, NEW n \in Nat, NEW f, NEW g, Sol(f, m), Sol(g, n),
             NEW t \in Below(m) \intersect Below(n)
      PROVE  f[t] = g[t]
  <2> DEFINE Differ == {s \in Below(m) \intersect Below(n) : f[s] # g[s]}
             Sizes == {size[s] : s \in Differ}
  <2>1. SUFFICES ASSUME Differ # {} PROVE FALSE
    BY <2>1
  <2>2. PICK s \in Differ : \A r \in Differ : size[s] <= size[r]
    <3>1. Sizes \in SUBSET Nat /\ Sizes # {}
      BY <1>0, <2>1
    <3> HIDE DEF Sizes
    <3>2. PICK k \in Sizes : \A l \in Sizes : k <= l
      BY <3>1, LeastNumber
    <3> QED
      BY <3>2 DEF Sizes
  <2>3. s \in S /\ s \in Below(m) /\ s \in Below(n) /\ f[s] # g[s]
    OBVIOUS
  <2>4. f[s] = Body(f, s, stop, base, next, G) /\ g[s] = Body(g, s, stop, base, next, G)
    BY <1>1, <2>3 DEF Solves
  <2>5. s \notin stop
    BY <2>3, <2>4 DEF Body
  <2>6. next[s] \in S /\ size[next[s]] < size[s]
    BY <2>3, <2>5
  <2>7. size[next[s]] \in Nat /\ size[s] \in Nat /\ size[s] < m /\ size[s] < n
    BY <2>3, <2>6
  <2>8. next[s] \in Below(m) \intersect Below(n)
    BY <2>6, <2>7
  <2>9. f[next[s]] = g[next[s]]
    BY <2>2, <2>6, <2>7, <2>8
  <2> QED
    BY <2>3, <2>4, <2>9 DEF Body
<1>2. ASSUME NEW n \in Nat PROVE \E f : Sol(f, n)
  <2> DEFINE Wrong == {k \in Nat : ~ \E f : Sol(f, k)}
  <2>1. SUFFICES ASSUME Wrong # {} PROVE FALSE
    BY <2>1
  <2>2. PICK k \in Wrong : \A m \in Wrong : k <= m
    <3>1. Wrong \in SUBSET Nat
      OBVIOUS
    <3> HIDE DEF Wrong
    <3> QED
      BY <2>1, <3>1, LeastNumber
  <2>3. k \in Nat /\ ~ \E f : Sol(f, k)
    OBVIOUS
  <2>4. CASE k = 0
    <3> DEFINE none == [s \in {} |-> CHOOSE v \in V : TRUE]
    <3>1. Below(0) = {}
      BY <1>0
    <3>2. Sol(none, 0)
      <4> HIDE DEF Below
      <4> QED
        BY <3>1 DEF Solves
    <3> QED
      BY <2>3, <2>4, <3>2
  <2>5. CASE k # 0
    <3> DEFINE j == k - 1
    <3>1. j \in Nat /\ j \notin Wrong
      <4>1. j \in Nat /\ ~(k <= j)
        BY <2>3, <2>5
      <4> HIDE DEF Wrong, j
      <4> QED
        BY <2>2, <4>1
    <3>2. PICK g : Sol(g, j)
      BY <3>1
    <3> DEFINE f == [s \in Below(k) |-> Body(g, s, stop, base, next, G)]
    <3>3. ASSUME NEW s \in Below(k), s \notin stop
          PROVE  next[s] \in Below(j) /\ next[s] \in Below(k)
      <4>1. s \in S /\ size[s] < k /\ size[s] \in Nat
        OBVIOUS
      <4>2. next[s] \in S /\ size[next[s]] < size[s] /\ size[next[s]] \in Nat
        BY <3>3, <4>1
      <4> QED
        BY <2>3, <4>1, <4>2
    <3>4. ASSUME NEW s \in Below(k) PROVE f[s] \in V
      <4>1. CASE s \in stop
        BY <4>1 DEF Body
      <4>2. CASE s \notin stop
        <5>1. next[s] \in Below(j)
          BY <3>3, <4>2
        <5>2. g[next[s]] \in V
          <6> HIDE DEF Below
          <6> QED
            BY <3>2, <5>1 DEF Solves
        <5> QED
          BY <4>2, <5>2 DEF Body
      <4> QED
        BY <4>1, <4>2
    <3>5. ASSUME NEW s \in Below(k) PROVE f[s] = Body(f, s, stop, base, next, G)
      <4>1. CASE s \in stop
        BY <4>1 DEF Body
      <4>2. CASE s \notin stop
        <5>1. next[s] \in Below(j) /\ next[s] \in Below(k)
          BY <3>3, <4>2
        <5>2. f[next[s]] = Body(g, next[s], stop, base, next, G)
          BY <5>1
        <5>3. g[next[s]] = Body(g, next[s], stop, base, next, G)
          <6> HIDE DEF Below
          <6> QED
            BY <3>2, <5>1 DEF Solves
        <5> QED
          BY <4>2, <5>2, <5>3 DEF Body
      <4> QED
        BY <4>1, <4>2
    <3>6. Sol(f, k)
      <4>1. f = [s \in Below(k) |-> f[s]]
        OBVIOUS
      <4> HIDE DEF f, Below
      <4> QED
        BY <3>4, <3>5, <4>1 DEF Solves
    <3> QED
      BY <2>3, <3>6
  <2> QED
    BY <2>4, <2>5
<1>3. ASSUME NEW n \in Nat PROVE Sol(Pick(n), n)
  <2>1. \E f : Sol(f, n)
    BY <1>2
  <2> QED
    BY <2>1, Zenon
<1> DEFINE h == [s \in S |-> Pick(size[s] + 1)[s]]
<1>4. ASSUME NEW s \in S PROVE h[s] \in V /\ h[s] = Body(h, s, stop, base, next, G)
  <2> DEFINE n == size[s] + 1
  <2>1. size[s] \in Nat /\ n \in Nat /\ s \in Below(n)
    OBVIOUS
  <2>2. Sol(Pick(n), n)
    BY <1>3, <2>1
  <2>3. h[s] = Pick(n)[s]
    OBVIOUS
  <2>4. Pick(n)[s] \in V /\ Pick(n)[s] = Body(Pick(n), s, stop, base, next, G)
    <3> HIDE DEF Below, Pick, n
    <3> QED
      BY <2>1, <2>2 DEF Solves
  <2>5. CASE s \in stop
    BY <2>3, <2>4, <2>5 DEF Body
  <2>6. CASE s \notin stop
    <3> DEFINE r == next[s]
               m == size[r] + 1
    <3>1. r \in S /\ size[r] \in Nat /\ m \in Nat /\ size[r] < size[s]
      BY <2>6
    <3>2. r \in Below(m) \intersect Below(n)
      BY <2>1, <3>1
    <3>3. Sol(Pick(m), m)
      BY <1>3, <3>1
    <3>4. Pick(m)[r] = Pick(n)[r]
      <4> HIDE DEF Below, Pick, n, m, r, Sol
      <4> QED
        BY <1>1, <2>1, <2>2, <3>1, <3>2, <3>3
    <3>5. h[r] = Pick(m)[r]
      BY <3>1
    <3> QED
      BY <2>3, <2>4, <2>6, <3>4, <3>5 DEF Body
  <2> QED
    BY <2>3, <2>4, <2>5, <2>6
<1>5. Solves(h, S, V, stop, base, next, G)
  <2>1. h = [s \in S |-> h[s]]
    OBVIOUS
  <2> HIDE DEF h
  <2> QED
    BY <1>4, <2>1 DEF Solves
<1> QED
  BY <1>5

-----------------------------------------------------------------------------
(* FlattenSeq: all packets, one after the other.                           *)

Flat(ss) == CHOOSE f : f = [i \in 1 .. Len(ss) |->
                                IF i = 1 THEN ss[i] ELSE f[i - 1] \o ss[i]]

\* FlattenSeq is the last value of a function of the number of sequences ...
LEMMA FlattenIsFlat ==
    ASSUME NEW ss
    PROVE  FlattenSeq(ss) = IF Len(ss) = 0 THEN ss ELSE Flat(ss)[Len(ss)]
BY DEF FlattenSeq, Flat

\* ... that appends them one by one.
LEMMA FlatUnfolds ==
    ASSUME NEW X, NEW ss \in Seq(Seq(X))
    PROVE  /\ Flat(ss) \in [1 .. Len(ss) -> Seq(X)]
           /\ \A i \in 1 .. Len(ss) :
                 Flat(ss)[i] = IF i = 1 THEN ss[i] ELSE Flat(ss)[i - 1] \o ss[i]
<1> DEFINE D == 1 .. Len(ss)
           V == Seq(X)
           size == [i \in D |-> i]
           next == [i \in D |-> i - 1]
           G == [a \in D \X V |-> a[2] \o ss[a[1]]]
<1>1. Len(ss) \in Nat /\ \A i \in D : ss[i] \in V
  OBVIOUS
<1>2. size \in [D -> Nat]
  BY <1>1
<1>3. \A i \in D \intersect {1} : ss[i] \in V
  BY <1>1
<1>4. \A i \in D \ {1} : next[i] \in D /\ size[next[i]] < size[i]
  BY <1>1
<1>5. \A i \in D : \A v \in V : G[<<i, v>>] = v \o ss[i] /\ G[<<i, v>>] \in V
  <2>1. ASSUME NEW i \in D, NEW v \in V PROVE G[<<i, v>>] = v \o ss[i] /\ v \o ss[i] \in V
    <3>1. G[<<i, v>>] = v \o ss[i]
      <4> HIDE DEF D, V
      <4> QED
        OBVIOUS
    <3> QED
      BY <1>1, <3>1, ConcatProperties
  <2> QED
    BY <2>1
<1>6. PICK f : Solves(f, D, V, {1}, ss, next, G)
  <2> HIDE DEF D, V, size, next, G
  <2> QED
    BY <1>2, <1>3, <1>4, <1>5, RecursionExists
<1>7. f \in [D -> V]
  BY <1>6 DEF Solves
<1>8. ASSUME NEW i \in D PROVE f[i] = IF i = 1 THEN ss[i] ELSE f[i - 1] \o ss[i]
  <2>1. f[i] = Body(f, i, {1}, ss, next, G)
    BY <1>6 DEF Solves
  <2>2. CASE i = 1
    BY <2>1, <2>2 DEF Body
  <2>3. CASE i # 1
    <3>1. next[i] = i - 1 /\ i - 1 \in D
      BY <1>1, <2>3
    <3>2. f[i - 1] \in V
      BY <1>7, <3>1
    <3>3. G[<<i, f[i - 1]>>] = f[i - 1] \o ss[i]
      BY <1>5, <3>2
    <3> QED
      BY <2>1, <2>3, <3>1, <3>3 DEF Body
  <2> QED
    BY <2>2, <2>3
<1>9. f = [i \in D |-> IF i = 1 THEN ss[i] ELSE f[i - 1] \o ss[i]]
  <2> HIDE DEF D, V
  <2> QED
    BY <1>7, <1>8
<1>10. Flat(ss) = [i \in D |-> IF i = 1 THEN ss[i] ELSE Flat(ss)[i - 1] \o ss[i]]
  BY <1>9 DEF Flat
<1>11. \A i \in D : Flat(ss)[i] = IF i = 1 THEN ss[i] ELSE Flat(ss)[i - 1] \o ss[i]
  <2> HIDE DEF D
  <2> QED
    BY <1>10, Zenon
<1>12. ASSUME NEW i \in D PROVE Flat(ss)[i] = f[i]
  <2> DEFINE Differ == {k \in D : Flat(ss)[k] # f[k]}
  <2>1. SUFFICES ASSUME Differ # {} PROVE FALSE
    BY <2>1
  <2>2. PICK k \in Differ : \A l \in Differ : k <= l
    <3>1. Differ \in SUBSET Nat
      BY <1>1
    <3> HIDE DEF Differ
    <3> QED
      BY <2>1, <3>1, LeastNumber
  <2>3. k \in D /\ Flat(ss)[k] # f[k]
    OBVIOUS
  <2>4. k # 1
    BY <1>8, <1>11, <2>3
  <2>5. k - 1 \in D /\ ~(k <= k - 1)
    BY <1>1, <2>3, <2>4
  <2>6. Flat(ss)[k - 1] = f[k - 1]
    BY <2>2, <2>5
  <2> QED
    BY <1>8, <1>11, <2>3, <2>4, <2>6
<1>13. Flat(ss) = f
  <2>1. Flat(ss) = [i \in D |-> Flat(ss)[i]]
    <3> HIDE DEF D
    <3> QED
      BY <1>10
  <2> HIDE DEF D, V
  <2> QED
    BY <1>7, <1>12, <2>1
<1> QED
  BY <1>7, <1>11, <1>13

\* No packets, no bytes.
LEMMA FlattenEmpty == FlattenSeq(<<>>) = <<>>
BY DEF FlattenSeq

\* Packets of bytes make bytes.
LEMMA FlattenType ==
    ASSUME NEW X, NEW ss \in Seq(Seq(X))
    PROVE  FlattenSeq(ss) \in Seq(X)
<1>1. CASE ss = <<>>
  BY <1>1, FlattenEmpty, EmptySeq
<1>2. CASE ss # <<>>
  <2>1. Len(ss) \in 1 .. Len(ss) /\ Len(ss) # 0
    BY <1>2
  <2> QED
    <3>1. FlattenSeq(ss) = Flat(ss)[Len(ss)]
      BY <2>1, FlattenIsFlat
    <3>2. Flat(ss) \in [1 .. Len(ss) -> Seq(X)]
      BY FlatUnfolds
    <3> QED
      BY <2>1, <3>1, <3>2
<1> QED
  BY <1>1, <1>2

\* One more packet appends its bytes.
LEMMA FlattenAppend ==
    ASSUME NEW X, NEW ss \in Seq(Seq(X)), NEW p \in Seq(X)
    PROVE  FlattenSeq(Append(ss, p)) = FlattenSeq(ss) \o p
<1> DEFINE tt == Append(ss, p)
           n == Len(ss)
<1>1. /\ tt \in Seq(Seq(X)) /\ n \in Nat /\ Len(tt) = n + 1 /\ tt[n + 1] = p
      /\ \A i \in 1 .. n : tt[i] = ss[i]
  OBVIOUS
<1>2. FlattenSeq(tt) = Flat(tt)[n + 1]
  <2>1. Len(tt) # 0
    BY <1>1
  <2> HIDE DEF tt
  <2> QED
    BY <1>1, <2>1, FlattenIsFlat
<1>3. \A i \in 1 .. n + 1 :
         Flat(tt)[i] = IF i = 1 THEN tt[i] ELSE Flat(tt)[i - 1] \o tt[i]
  <2> HIDE DEF tt
  <2> QED
    BY <1>1, FlatUnfolds
<1>4. \A i \in 1 .. n :
         Flat(ss)[i] = IF i = 1 THEN ss[i] ELSE Flat(ss)[i - 1] \o ss[i]
  BY FlatUnfolds
<1>5. CASE n = 0
  <2>1. ss = <<>>
    BY <1>5
  <2>2. FlattenSeq(tt) = p
    BY <1>1, <1>2, <1>3, <1>5
  <2> QED
    BY <2>1, <2>2, FlattenEmpty
<1>6. CASE n # 0
  <2> DEFINE Differ == {k \in 1 .. n : Flat(tt)[k] # Flat(ss)[k]}
  <2>1. Differ = {}
    <3>1. SUFFICES ASSUME Differ # {} PROVE FALSE
      OBVIOUS
    <3>2. PICK k \in Differ : \A l \in Differ : k <= l
      <4>1. Differ \in SUBSET Nat
        BY <1>1
      <4> HIDE DEF Differ
      <4> QED
        BY <3>1, <4>1, LeastNumber
    <3>3. k \in 1 .. n /\ k \in 1 .. n + 1 /\ Flat(tt)[k] # Flat(ss)[k] /\ tt[k] = ss[k]
      BY <1>1
    <3>4. k # 1
      BY <1>3, <1>4, <3>3
    <3>5. k - 1 \in 1 .. n /\ ~(k <= k - 1)
      BY <1>1, <3>3, <3>4
    <3>6. Flat(tt)[k - 1] = Flat(ss)[k - 1]
      BY <3>2, <3>5
    <3> QED
      BY <1>3, <1>4, <3>3, <3>4, <3>6
  <2>2. n \in 1 .. n /\ n + 1 \in 1 .. n + 1 /\ n + 1 # 1 /\ n + 1 - 1 = n
    BY <1>1, <1>6
  <2>3. Flat(tt)[n] = Flat(ss)[n]
    BY <2>1, <2>2
  <2>4. Flat(tt)[n + 1] = Flat(tt)[n] \o p
    <3>1. ASSUME NEW k \in 1 .. n + 1, k # 1
          PROVE  Flat(tt)[k] = Flat(tt)[k - 1] \o tt[k]
      <4> HIDE DEF tt, n
      <4> QED
        BY <1>3, <3>1
    <3> DEFINE k == n + 1
    <3>2. k \in 1 .. n + 1 /\ k # 1 /\ k - 1 = n /\ tt[k] = p
      BY <1>1, <2>2
    <3>3. Flat(tt)[k] = Flat(tt)[k - 1] \o tt[k]
      <4> HIDE DEF tt, n, k
      <4> QED
        BY <3>1, <3>2
    <3> QED
      BY <3>2, <3>3
  <2>5. FlattenSeq(ss) = Flat(ss)[n]
    BY <1>6, FlattenIsFlat
  <2> QED
    BY <1>2, <2>3, <2>4, <2>5
<1> QED
  BY <1>5, <1>6

-----------------------------------------------------------------------------
(* The buffer: it grows until the packets fit, and stays in its limit.     *)

Doubled(used, more) ==
    CHOOSE f : f = [n \in Nat \ {0} |-> IF n - used >= more THEN n ELSE f[2 * n]]

\* The doublings end, because the size is not 0 ...
LEMMA DoubledUnfolds ==
    ASSUME NEW used \in Nat, NEW more \in Nat, NEW n \in Nat \ {0}
    PROVE  Doubled(used, more)[n] =
               IF n - used >= more THEN n ELSE Doubled(used, more)[2 * n]
<1> DEFINE D == Nat \ {0}
           stop == {l \in D : l - used >= more}
           lack == [l \in D |-> IF l - used >= more THEN 0 ELSE used + more - l]
           same == [l \in D |-> l]
           twice == [l \in D |-> 2 * l]
           G == [a \in D \X D |-> a[2]]
<1>1. lack \in [D -> Nat]
  OBVIOUS
<1>2. \A l \in D \intersect stop : same[l] \in D
  OBVIOUS
<1>3. \A l \in D \ stop : twice[l] \in D /\ lack[twice[l]] < lack[l]
  OBVIOUS
<1>4. \A l \in D : \A v \in D : G[<<l, v>>] = v
  OBVIOUS
<1>5. PICK f : Solves(f, D, D, stop, same, twice, G)
  <2> HIDE DEF D, stop, lack, same, twice, G
  <2> QED
    BY <1>1, <1>2, <1>3, <1>4, RecursionExists
<1>6. f \in [D -> D]
  BY <1>5 DEF Solves
<1>7. ASSUME NEW l \in D PROVE f[l] = IF l - used >= more THEN l ELSE f[2 * l]
  <2>1. f[l] = Body(f, l, stop, same, twice, G)
    BY <1>5 DEF Solves
  <2>2. CASE l - used >= more
    BY <2>1, <2>2 DEF Body
  <2>3. CASE ~(l - used >= more)
    <3>1. twice[l] = 2 * l /\ 2 * l \in D /\ l \notin stop
      BY <2>3
    <3>2. f[2 * l] \in D
      BY <1>6, <3>1
    <3>3. G[<<l, f[2 * l]>>] = f[2 * l]
      BY <1>4, <3>2
    <3> QED
      BY <2>1, <2>3, <3>1, <3>3 DEF Body
  <2> QED
    BY <2>2, <2>3
<1>8. f = [l \in D |-> IF l - used >= more THEN l ELSE f[2 * l]]
  <2> HIDE DEF D
  <2> QED
    BY <1>6, <1>7
<1>9. Doubled(used, more) = [l \in D |-> IF l - used >= more THEN l
                                         ELSE Doubled(used, more)[2 * l]]
  BY <1>8 DEF Doubled
<1>10. n \in D
  OBVIOUS
<1> HIDE DEF D
<1> QED
  BY <1>9, <1>10, Zenon

\* ... at a size that has room for more bytes.
LEMMA DoubledFits ==
    ASSUME NEW used \in Nat, NEW more \in Nat, NEW n \in Nat \ {0}
    PROVE  Doubled(used, more)[n] \in Nat /\ Doubled(used, more)[n] >= used + more
<1> DEFINE d == Doubled(used, more)
           Lack(l) == IF l - used >= more THEN 0 ELSE used + more - l
           Short == {l \in Nat \ {0} : ~(d[l] \in Nat /\ d[l] >= used + more)}
           Lacks == {Lack(l) : l \in Short}
<1>1. SUFFICES ASSUME Short # {} PROVE FALSE
  BY <1>1
<1>2. PICK l \in Short : \A k \in Short : Lack(l) <= Lack(k)
  <2>1. Lacks \in SUBSET Nat /\ Lacks # {}
    BY <1>1
  <2> HIDE DEF Lacks
  <2>2. PICK a \in Lacks : \A b \in Lacks : a <= b
    BY <2>1, LeastNumber
  <2> QED
    BY <2>2 DEF Lacks
<1>3. l \in Nat \ {0} /\ ~(d[l] \in Nat /\ d[l] >= used + more)
  OBVIOUS
<1>4. d[l] = IF l - used >= more THEN l ELSE d[2 * l]
  BY <1>3, DoubledUnfolds
<1>5. ~(l - used >= more)
  BY <1>3, <1>4
<1>6. 2 * l \in Short
  <2> HIDE DEF d
  <2> QED
    BY <1>3, <1>4, <1>5
<1>7. ~(Lack(l) <= Lack(2 * l))
  BY <1>3, <1>5
<1> HIDE DEF Lack, Short
<1> QED
  BY <1>2, <1>6, <1>7

\* merge resizes to what holds the packets, within the limit.
LEMMA GrownFits ==
    ASSUME NEW length \in Nat \ {0}, NEW used \in Nat, NEW more \in Nat,
           used + more <= MaxSize
    PROVE  /\ Grown(length, used, more) \in Nat
           /\ used + more <= Grown(length, used, more)
           /\ Grown(length, used, more) <= MaxSize
<1>1. Grown(length, used, more) =
         IF Doubled(used, more)[length] > MaxSize THEN MaxSize
         ELSE Doubled(used, more)[length]
  BY DEF Grown, Doubled
<1>2. MaxSize \in Nat
  BY SizeAssumption DEF MaxSize
<1>3. /\ Doubled(used, more)[length] \in Nat
      /\ Doubled(used, more)[length] >= used + more
  BY DoubledFits
<1> QED
  BY <1>1, <1>2, <1>3

-----------------------------------------------------------------------------
(* The context, record by record.                                          *)

Bytes  == Seq(STRING)
States == {"start", "object", "array", "done", "bad"}

Contexts == [bytes : Bytes, length : Nat, overflow : BOOLEAN, index : Nat,
             state : States, depth : Nat, start : Nat]

Bounded(c) ==
    /\ c \in Contexts
    /\ Len(c.bytes) <= c.length /\ c.length <= MaxSize
    /\ c.start <= c.index /\ c.index <= Len(c.bytes)
    /\ c.depth > 0 <=> c.state \in {"object", "array"}

\* What merge makes of the buffer.
LEMMA MergedBuffer ==
    ASSUME NEW c \in Contexts, Bounded(c), NEW packets \in Seq(Bytes)
    PROVE  LET m == Merged(c, packets) IN
           /\ m \in Contexts
           /\ m.index = c.index /\ m.state = c.state
           /\ m.depth = c.depth /\ m.start = c.start
           /\ Len(m.bytes) <= m.length /\ m.length <= MaxSize
           /\ Len(c.bytes) <= Len(m.bytes)
           /\ c.overflow => m.overflow
           /\ ~m.overflow => m.bytes = c.bytes \o FlattenSeq(packets)
<1> DEFINE m == Merged(c, packets)
           flat == FlattenSeq(packets)
           first == IF c.length = 0 THEN Resized(c, InitialBufferSize, 0) ELSE c
           used == Len(c.bytes)
           more == Len(flat)
           size == Grown(first.length, used, more)
           Same(d) == /\ d \in Contexts
                      /\ d.index = c.index /\ d.state = c.state
                      /\ d.depth = c.depth /\ d.start = c.start
<1>1. /\ flat \in Bytes /\ more \in Nat
      /\ packets = <<>> => flat = <<>>
  BY FlattenType, FlattenEmpty DEF Bytes
<1>2. /\ c \in Contexts /\ c.bytes \in Bytes /\ used \in Nat /\ c.length \in Nat
      /\ c.overflow \in BOOLEAN
      /\ used <= c.length /\ c.length <= MaxSize
      /\ MaxSize \in Nat /\ InitialBufferSize \in Nat \ {0}
      /\ InitialBufferSize <= MaxSize
  BY SizeAssumption DEF Bounded, Contexts, MaxSize, Bytes
<1>3. c.bytes \o <<>> = c.bytes
  BY <1>2, ConcatEmptySeq DEF Bytes
<1>4. /\ Same(first) /\ first.bytes = c.bytes /\ first.overflow = c.overflow
      /\ first.length \in Nat \ {0} /\ first.length <= MaxSize /\ used <= first.length
  <2>1. CASE c.length = 0
    <3>1. c.bytes = <<>> /\ SubSeq(c.bytes, 1, 0) = <<>>
      BY <1>2, <2>1, EmptySeq DEF Bytes
    <3>2. ~(InitialBufferSize <= c.length) /\ ~(0 > c.length)
      BY <1>2, <2>1
    <3> DEFINE e == [c EXCEPT !.length = InitialBufferSize, !.bytes = <<>>]
    <3>3. first = e
      BY <2>1, <3>1, <3>2 DEF Resized
    <3>4. /\ e \in Contexts /\ e.index = c.index /\ e.state = c.state
          /\ e.depth = c.depth /\ e.start = c.start /\ e.bytes = <<>>
          /\ e.overflow = c.overflow /\ e.length = InitialBufferSize
      <4>1. <<>> \in Bytes /\ InitialBufferSize \in Nat
        BY <1>2, EmptySeq DEF Bytes
      <4> QED
        BY <4>1 DEF Contexts
    <3> HIDE DEF first, e
    <3> QED
      BY <1>2, <2>1, <3>1, <3>3, <3>4
  <2>2. CASE c.length # 0
    <3>1. first = c
      BY <2>2
    <3> HIDE DEF first
    <3> QED
      BY <1>2, <2>2, <3>1
  <2> QED
    BY <2>1, <2>2
<1>5. CASE packets = <<>>
  <2>1. m = first
    BY <1>5 DEF Merged
  <2> HIDE DEF first, flat, m
  <2>2. /\ Same(m) /\ m.bytes = c.bytes /\ m.overflow = c.overflow
        /\ used <= m.length /\ m.length <= MaxSize
    BY <1>4, <2>1
  <2>3. c.bytes = c.bytes \o flat
    BY <1>1, <1>3, <1>5
  <2> QED
    BY <1>2, <2>2, <2>3 DEF flat, m
<1>6. CASE packets # <<>> /\ more + used > MaxSize
  <2>1. m = [first EXCEPT !.overflow = TRUE]
    BY <1>6 DEF Merged
  <2> HIDE DEF first, flat, used
  <2>2. /\ m \in Contexts /\ m.overflow = TRUE
        /\ m.bytes = first.bytes /\ m.length = first.length
        /\ m.index = first.index /\ m.state = first.state
        /\ m.depth = first.depth /\ m.start = first.start
    BY <1>4, <2>1 DEF Contexts
  <2> QED
    BY <1>2, <1>4, <2>2 DEF used
<1>7. CASE packets # <<>> /\ ~(more + used > MaxSize)
  <2> DEFINE big == Resized(first, size, used)
  <2>1. m = [big EXCEPT !.bytes = big.bytes \o flat]
    BY <1>7 DEF Merged
  <2>2. size \in Nat /\ used + more <= size /\ size <= MaxSize
    <3>1. used + more <= MaxSize
      BY <1>1, <1>2, <1>7
    <3> HIDE DEF first, flat
    <3> QED
      BY <1>1, <1>2, <1>4, <3>1, GrownFits
  <2>3. SubSeq(c.bytes, 1, used) = c.bytes
    BY <1>2, SubSeqFull DEF Bytes
  <2>4. /\ Same(big) /\ big.bytes = c.bytes /\ big.length = size
        /\ big.overflow = c.overflow
    <3> HIDE DEF first, size, used
    <3>1. ~(used > first.length)
      BY <1>2, <1>4
    <3>2. CASE size <= first.length
      <4>1. big = [first EXCEPT !.length = size]
        BY <3>2 DEF Resized
      <4> HIDE DEF big
      <4> QED
        BY <1>4, <2>2, <4>1 DEF Contexts
    <3>3. CASE ~(size <= first.length)
      <4>1. big = [first EXCEPT !.length = size, !.bytes = SubSeq(first.bytes, 1, used)]
        BY <3>1, <3>3 DEF Resized
      <4>2. SubSeq(first.bytes, 1, used) = c.bytes
        BY <1>4, <2>3
      <4> HIDE DEF big
      <4> QED
        BY <1>2, <1>4, <2>2, <4>1, <4>2 DEF Contexts
    <3> QED
      BY <3>2, <3>3
  <2>5. c.bytes \o flat \in Bytes /\ Len(c.bytes \o flat) = used + more
    BY <1>1, <1>2, ConcatProperties DEF Bytes
  <2> HIDE DEF big, flat, size, used
  <2>6. /\ m \in Contexts /\ m.bytes = c.bytes \o flat /\ m.length = size
        /\ m.overflow = c.overflow /\ m.index = c.index /\ m.state = c.state
        /\ m.depth = c.depth /\ m.start = c.start
    BY <2>1, <2>4, <2>5, <2>2 DEF Contexts
  <2> QED
    BY <1>1, <1>2, <2>2, <2>5, <2>6 DEF flat, used
<1> QED
  BY <1>5, <1>6, <1>7

\* ... and the bytes stay inside the buffer.
LEMMA MergedBounded ==
    ASSUME NEW c \in Contexts, Bounded(c), NEW packets \in Seq(Bytes)
    PROVE  Bounded(Merged(c, packets))
<1> DEFINE m == Merged(c, packets)
<1>1. /\ m \in Contexts
      /\ m.index = c.index /\ m.state = c.state
      /\ m.depth = c.depth /\ m.start = c.start
      /\ Len(m.bytes) <= m.length /\ m.length <= MaxSize
      /\ Len(c.bytes) <= Len(m.bytes)
  BY MergedBuffer
<1> HIDE DEF m
<1>2. c.index \in Nat /\ Len(c.bytes) \in Nat /\ Len(m.bytes) \in Nat
  BY <1>1 DEF Bounded, Contexts, Bytes
<1>3. Bounded(m)
  BY <1>1, <1>2 DEF Bounded
<1> QED
  BY <1>3 DEF m

\* White space is no bracket.
LEMMA SpaceOpensNothing == Space \notin Openers
BY Zenon DEF Space, Openers

\* What one look of the analysis makes of the context.
LEMMA ScannedFields ==
    ASSUME NEW c \in Contexts, Bounded(c), ~Ended(c), ~AtEnd(c)
    PROVE  LET d == Scanned(c)
               b == c.bytes[c.index + 1]
           IN
           /\ d \in Contexts /\ d.bytes = c.bytes /\ d.length = c.length
           /\ d.overflow = c.overflow
           /\ c.state = "start" /\ b = Space =>
                /\ d.state = "start" /\ d.start = c.start
                /\ d.index = c.index + 1 /\ d.depth = 0
           /\ c.state = "start" /\ b \in Openers =>
                /\ d.state = Kind(b) /\ d.start = c.index
                /\ d.index = c.index + 1 /\ d.depth = 1
           /\ c.state = "start" /\ b \notin Openers \union {Space} =>
                /\ d.state = "bad" /\ d.start = c.start
                /\ d.index = c.index /\ d.depth = 0
           /\ c.state # "start" =>
                LET open == IF c.state = "object" THEN "{" ELSE "["
                IN  /\ c.state \in {"object", "array"} /\ c.depth > 0
                    /\ d.start = c.start /\ d.index = c.index + 1
                    /\ d.depth = IF b = open THEN c.depth + 1
                                 ELSE IF b = Closer(open) THEN c.depth - 1 ELSE c.depth
                    /\ d.state = IF d.depth = 0 THEN "done" ELSE c.state
<1>1. /\ c \in Contexts /\ c.index \in Nat /\ c.start \in Nat /\ c.depth \in Nat
      /\ c.state \in {"start", "object", "array"}
  BY DEF Bounded, Contexts, States, Ended
<1> DEFINE d == Scanned(c)
           b == c.bytes[c.index + 1]
<1>2. CASE c.state = "start"
  <2>1. c.depth = 0
    BY <1>1, <1>2 DEF Bounded
  <2>2. CASE b = Space
    <3> DEFINE e == [c EXCEPT !.index = @ + 1]
    <3>1. b \notin Openers
      BY <2>2, SpaceOpensNothing
    <3>2. d = e
      BY <1>2, <2>2, <3>1 DEF Scanned
    <3>3. /\ e \in Contexts /\ e.bytes = c.bytes /\ e.length = c.length
          /\ e.overflow = c.overflow /\ e.state = c.state /\ e.start = c.start
          /\ e.index = c.index + 1 /\ e.depth = c.depth
      BY DEF Contexts
    <3> HIDE DEF d, e, b
    <3>4. /\ d \in Contexts /\ d.bytes = c.bytes /\ d.length = c.length
          /\ d.overflow = c.overflow /\ d.state = "start" /\ d.start = c.start
          /\ d.index = c.index + 1 /\ d.depth = 0
      BY <1>2, <2>1, <3>2, <3>3
    <3> QED
      BY <1>2, <2>2, <3>1, <3>4 DEF d, b
  <2>3. CASE b \in Openers
    <3>1. b # Space
      BY <2>3, SpaceOpensNothing
    <3> DEFINE kind == Kind(b)
               e == [c EXCEPT !.state = kind, !.depth = @ + 1,
                              !.start = c.index, !.index = @ + 1]
    <3>2. d = e
      BY <1>2, <2>3, <3>1 DEF Scanned
    <3>3. kind \in States
      BY DEF Kind, States
    <3> HIDE DEF kind
    <3>4. /\ e \in Contexts /\ e.bytes = c.bytes /\ e.length = c.length
          /\ e.overflow = c.overflow /\ e.state = kind /\ e.start = c.index
          /\ e.index = c.index + 1 /\ e.depth = c.depth + 1
      <4>1. c.depth + 1 \in Nat /\ c.index + 1 \in Nat /\ c.index \in Nat
        BY <1>1
      <4> QED
        BY <3>3, <4>1 DEF Contexts
    <3> HIDE DEF d, e, b
    <3>5. /\ d \in Contexts /\ d.bytes = c.bytes /\ d.length = c.length
          /\ d.overflow = c.overflow /\ d.state = kind /\ d.start = c.index
          /\ d.index = c.index + 1 /\ d.depth = 1
      BY <2>1, <3>2, <3>4
    <3> QED
      BY <1>2, <2>3, <3>1, <3>5 DEF d, b, kind
  <2>4. CASE b # Space /\ b \notin Openers
    <3> DEFINE e == [c EXCEPT !.state = "bad"]
    <3>1. d = e
      BY <1>2, <2>4 DEF Scanned
    <3>2. /\ e \in Contexts /\ e.bytes = c.bytes /\ e.length = c.length
          /\ e.overflow = c.overflow /\ e.state = "bad" /\ e.start = c.start
          /\ e.index = c.index /\ e.depth = c.depth
      BY DEF Contexts, States
    <3> HIDE DEF d, e, b
    <3>3. /\ d \in Contexts /\ d.bytes = c.bytes /\ d.length = c.length
          /\ d.overflow = c.overflow /\ d.state = "bad" /\ d.start = c.start
          /\ d.index = c.index /\ d.depth = 0
      BY <2>1, <3>1, <3>2
    <3> QED
      BY <1>2, <2>4, <3>3 DEF d, b
  <2> QED
    BY <2>2, <2>3, <2>4
<1>3. CASE c.state # "start"
  <2> DEFINE open == IF c.state = "object" THEN "{" ELSE "["
             depth == IF b = open THEN c.depth + 1
                      ELSE IF b = Closer(open) THEN c.depth - 1 ELSE c.depth
             state == IF depth = 0 THEN "done" ELSE c.state
  <2>1. c.depth > 0 /\ c.state \in {"object", "array"}
    BY <1>1, <1>3 DEF Bounded
  <2>2. depth \in Nat
    <3>1. c.depth \in Nat /\ c.depth > 0
      BY <1>1, <2>1
    <3> HIDE DEF open
    <3> QED
      BY <3>1
  <2>3. d = [c EXCEPT !.depth = depth, !.index = c.index + 1, !.state = state]
    <3>1. Closer(open) # open
      BY DEF Closer
    <3>2. depth = CASE b = open -> c.depth + 1
                    [] b = Closer(open) -> c.depth - 1
                    [] OTHER -> c.depth
      <4> HIDE DEF open
      <4> QED
        BY <3>1
    <3> HIDE DEF depth
    <3> QED
      BY <1>3, <3>2 DEF Scanned
  <2>4. state \in States
    BY <2>1 DEF States
  <2> DEFINE e == [c EXCEPT !.depth = depth, !.index = c.index + 1, !.state = state]
  <2>5. d = e
    BY <2>3
  <2> HIDE DEF depth, state
  <2>6. /\ e \in Contexts /\ e.bytes = c.bytes /\ e.length = c.length
        /\ e.overflow = c.overflow /\ e.start = c.start /\ e.index = c.index + 1
        /\ e.depth = depth /\ e.state = state
    <3>1. c.index + 1 \in Nat
      BY <1>1
    <3> HIDE DEF open
    <3> QED
      BY <2>2, <2>4, <3>1 DEF Contexts
  <2> HIDE DEF d, e
  <2>7. /\ d \in Contexts /\ d.bytes = c.bytes /\ d.length = c.length
        /\ d.overflow = c.overflow /\ d.start = c.start /\ d.index = c.index + 1
        /\ d.depth = depth /\ d.state = state
    BY <2>5, <2>6
  <2> QED
    BY <1>3, <2>1, <2>7 DEF depth, state, d
<1> QED
  BY <1>2, <1>3

\* The analysis looks at bytes that are there.
LEMMA ScannedBounded ==
    ASSUME NEW c \in Contexts, Bounded(c), ~Ended(c), ~AtEnd(c)
    PROVE  Bounded(Scanned(c))
<1> DEFINE d == Scanned(c)
           b == c.bytes[c.index + 1]
<1>1. /\ Len(c.bytes) \in Nat /\ c.index < Len(c.bytes) /\ c.index \in Nat
      /\ c.start \in Nat /\ c.depth \in Nat /\ c.start <= c.index
      /\ Len(c.bytes) <= c.length /\ c.length <= MaxSize
  BY DEF Bounded, Contexts, Bytes, AtEnd
<1>2. d \in Contexts /\ d.bytes = c.bytes /\ d.length = c.length
  BY ScannedFields
<1>3. c.state = "start" /\ b = Space =>
         /\ d.state = "start" /\ d.start = c.start
         /\ d.index = c.index + 1 /\ d.depth = 0
  BY ScannedFields
<1>4. c.state = "start" /\ b \in Openers =>
         /\ d.state = Kind(b) /\ d.start = c.index
         /\ d.index = c.index + 1 /\ d.depth = 1
  BY ScannedFields
<1>5. c.state = "start" /\ b \notin Openers \union {Space} =>
         /\ d.state = "bad" /\ d.start = c.start
         /\ d.index = c.index /\ d.depth = 0
  BY ScannedFields
<1>6. c.state # "start" =>
         /\ c.state \in {"object", "array"}
         /\ d.start = c.start /\ d.index = c.index + 1
         /\ d.state = IF d.depth = 0 THEN "done" ELSE c.state
  BY ScannedFields
<1>7. d.depth \in Nat
  BY <1>2 DEF Contexts
<1> HIDE DEF d, b
<1>8. /\ d.start <= d.index /\ d.index <= Len(d.bytes)
      /\ d.depth > 0 <=> d.state \in {"object", "array"}
  <2>1. CASE c.state = "start" /\ b = Space
    <3>1. d.state = "start" /\ d.start = c.start /\ d.index = c.index + 1 /\ d.depth = 0
      BY <1>3, <2>1, Zenon
    <3> QED
      BY <1>1, <1>2, <3>1
  <2>2. CASE c.state = "start" /\ b \in Openers
    <3>1. d.state = Kind(b) /\ d.start = c.index /\ d.index = c.index + 1 /\ d.depth = 1
      BY <1>4, <2>2, Zenon
    <3>2. Kind(b) \in {"object", "array"}
      BY DEF Kind
    <3> QED
      BY <1>1, <1>2, <3>1, <3>2
  <2>3. CASE c.state = "start" /\ b \notin Openers \union {Space}
    <3>1. d.state = "bad" /\ d.start = c.start /\ d.index = c.index /\ d.depth = 0
      BY <1>5, <2>3, Zenon
    <3> QED
      BY <1>1, <1>2, <3>1
  <2>4. CASE c.state # "start"
    <3>1. /\ c.state \in {"object", "array"}
          /\ d.start = c.start /\ d.index = c.index + 1
          /\ d.state = IF d.depth = 0 THEN "done" ELSE c.state
      BY <1>6, <2>4, Zenon
    <3>2. d.depth > 0 <=> d.state \in {"object", "array"}
      BY <1>7, <3>1
    <3> QED
      BY <1>1, <1>2, <3>1, <3>2
  <2> QED
    BY <2>1, <2>2, <2>3, <2>4
<1>10. Bounded(d)
  BY <1>1, <1>2, <1>8 DEF Bounded
<1> QED
  BY <1>10 DEF d

\* What restart and clear make of it.
LEMMA RestartedFields ==
    ASSUME NEW c \in Contexts, Bounded(c)
    PROVE  LET d == Restarted(c) IN
           /\ d \in Contexts /\ d.bytes = c.bytes /\ d.length = c.length
           /\ d.overflow = c.overflow /\ d.index = c.index /\ d.start = c.index
           /\ d.state = "start" /\ d.depth = 0
BY DEF Contexts, States, Restarted

\* restart forgets the message, not the place.
LEMMA RestartedBounded ==
    ASSUME NEW c \in Contexts, Bounded(c)
    PROVE  Bounded(Restarted(c))
<1> DEFINE d == Restarted(c)
<1>1. /\ d \in Contexts /\ d.bytes = c.bytes /\ d.length = c.length
      /\ d.index = c.index /\ d.start = c.index /\ d.state = "start" /\ d.depth = 0
  BY RestartedFields
<1> HIDE DEF d
<1>2. c.index \in Nat /\ c.index <= Len(c.bytes) /\ Len(c.bytes) <= c.length
      /\ c.length <= MaxSize
  BY DEF Bounded, Contexts
<1>3. Bounded(d)
  BY <1>1, <1>2 DEF Bounded
<1> QED
  BY <1>3 DEF d

\* clear shifts what was not handled to the front of the buffer.
LEMMA ClearedFields ==
    ASSUME NEW c \in Contexts, Bounded(c)
    PROVE  LET d == Cleared(c) IN
           /\ d \in Contexts /\ d.length = c.length /\ d.overflow = c.overflow
           /\ c.state = "done" =>
                /\ d.bytes = Rest(c, c.index) /\ Len(d.bytes) = Len(c.bytes) - c.index
                /\ d.index = 0 /\ d.start = 0 /\ d.state = "start" /\ d.depth = 0
           /\ c.state \notin {"done", "bad"} =>
                /\ d.bytes = Rest(c, c.start) /\ Len(d.bytes) = Len(c.bytes) - c.start
                /\ d.index = c.index - c.start /\ d.start = 0
                /\ d.state = c.state /\ d.depth = c.depth
           /\ c.state = "bad" => d = c
<1> DEFINE d == Cleared(c)
<1>1. /\ c \in Contexts /\ c.bytes \in Bytes /\ Len(c.bytes) \in Nat
      /\ c.index \in Nat /\ c.start \in Nat /\ c.start <= c.index
      /\ c.index <= Len(c.bytes)
  BY DEF Bounded, Contexts, Bytes
<1>2. ASSUME NEW k \in {c.index, c.start}
      PROVE  Rest(c, k) \in Bytes /\ Len(Rest(c, k)) = Len(c.bytes) - k
  <2>1. k \in Nat /\ k <= Len(c.bytes)
    BY <1>1
  <2>2. \A i \in k + 1 .. Len(c.bytes) : c.bytes[i] \in STRING
    BY <1>1, <2>1 DEF Bytes
  <2>3. k + 1 \in Int /\ Len(c.bytes) \in Int
    BY <1>1, <2>1
  <2>4. /\ SubSeq(c.bytes, k + 1, Len(c.bytes)) \in Seq(STRING)
        /\ Len(SubSeq(c.bytes, k + 1, Len(c.bytes))) =
             IF k + 1 <= Len(c.bytes) THEN Len(c.bytes) - (k + 1) + 1 ELSE 0
    BY <2>2, <2>3, SubSeqProperties
  <2> QED
    BY <1>1, <2>1, <2>4 DEF Rest, Bytes
<1>3. CASE c.state = "done"
  <2> DEFINE rest == Rest(c, c.index)
             e == [c EXCEPT !.bytes = rest, !.index = 0, !.state = "start",
                            !.depth = 0, !.start = 0]
  <2>1. d = e
    BY <1>3 DEF Cleared
  <2>2. rest \in Bytes /\ Len(rest) = Len(c.bytes) - c.index
    BY <1>2
  <2> HIDE DEF rest
  <2>3. /\ e \in Contexts /\ e.length = c.length /\ e.overflow = c.overflow
        /\ e.bytes = rest /\ e.index = 0 /\ e.state = "start" /\ e.depth = 0
        /\ e.start = 0
    BY <2>2 DEF Contexts, States
  <2> HIDE DEF d, e
  <2>4. /\ d \in Contexts /\ d.length = c.length /\ d.overflow = c.overflow
        /\ d.bytes = rest /\ d.index = 0 /\ d.state = "start" /\ d.depth = 0
        /\ d.start = 0
    BY <2>1, <2>3
  <2> QED
    BY <1>3, <2>2, <2>4 DEF d, rest
<1>4. CASE c.state \notin {"done", "bad"} /\ c.start # 0
  <2> DEFINE rest == Rest(c, c.start)
             e == [c EXCEPT !.bytes = rest, !.index = @ - c.start, !.start = 0]
  <2>1. d = e
    BY <1>4 DEF Cleared
  <2>2. /\ rest \in Bytes /\ Len(rest) = Len(c.bytes) - c.start
        /\ c.index - c.start \in Nat
    BY <1>1, <1>2
  <2> HIDE DEF rest
  <2>3. /\ e \in Contexts /\ e.length = c.length /\ e.overflow = c.overflow
        /\ e.bytes = rest /\ e.index = c.index - c.start /\ e.state = c.state
        /\ e.depth = c.depth /\ e.start = 0
    BY <2>2 DEF Contexts
  <2> HIDE DEF d, e
  <2>4. /\ d \in Contexts /\ d.length = c.length /\ d.overflow = c.overflow
        /\ d.bytes = rest /\ d.index = c.index - c.start /\ d.state = c.state
        /\ d.depth = c.depth /\ d.start = 0
    BY <2>1, <2>3
  <2> QED
    BY <1>4, <2>2, <2>4 DEF d, rest
<1>5. CASE c.state \notin {"done", "bad"} /\ c.start = 0
  <2>1. d = c
    BY <1>5 DEF Cleared
  <2>2. Rest(c, c.start) = c.bytes
    BY <1>1, <1>5, SubSeqFull DEF Rest, Bytes
  <2> QED
    BY <1>1, <1>5, <2>1, <2>2 DEF Contexts
<1>6. CASE c.state = "bad"
  <2>1. d = c
    BY <1>6 DEF Cleared
  <2> QED
    BY <1>1, <1>6, <2>1
<1> QED
  BY <1>3, <1>4, <1>5, <1>6

\* ... with the places that point into it.
LEMMA ClearedBounded ==
    ASSUME NEW c \in Contexts, Bounded(c)
    PROVE  Bounded(Cleared(c))
<1> DEFINE d == Cleared(c)
<1>1. d \in Contexts /\ d.length = c.length
  BY ClearedFields
<1>2. c.state = "done" =>
         /\ Len(d.bytes) = Len(c.bytes) - c.index
         /\ d.index = 0 /\ d.start = 0 /\ d.state = "start" /\ d.depth = 0
  BY ClearedFields
<1>3. c.state \notin {"done", "bad"} =>
         /\ Len(d.bytes) = Len(c.bytes) - c.start
         /\ d.index = c.index - c.start /\ d.start = 0
         /\ d.state = c.state /\ d.depth = c.depth
  BY ClearedFields
<1>4. c.state = "bad" => d = c
  BY ClearedFields
<1> HIDE DEF d
<1>5. /\ Len(c.bytes) \in Nat /\ c.index \in Nat /\ c.start \in Nat
      /\ c.start <= c.index /\ c.index <= Len(c.bytes) /\ c.length \in Nat
      /\ Len(c.bytes) <= c.length /\ c.length <= MaxSize
      /\ c.depth > 0 <=> c.state \in {"object", "array"}
  BY DEF Bounded, Contexts, Bytes
<1>6. CASE c.state = "bad"
  BY <1>4, <1>6 DEF d
<1>7. CASE c.state # "bad"
  <2>1. /\ Len(d.bytes) <= d.length /\ d.length <= MaxSize
        /\ d.start <= d.index /\ d.index <= Len(d.bytes)
    BY <1>1, <1>2, <1>3, <1>5, <1>7
  <2>2. d.depth > 0 <=> d.state \in {"object", "array"}
    BY <1>2, <1>3, <1>5, <1>7
  <2> QED
    BY <1>1, <2>1, <2>2 DEF Bounded, d
<1> QED
  BY <1>6, <1>7

-----------------------------------------------------------------------------
(* InBounds.                                                               *)

Guarded == {"merge", "analysis", "scan", "found", "end"}

Shape ==
    /\ SessionTypeOK
    /\ needClear \in [Workers -> BOOLEAN]
    /\ raw \in Seq(Bytes) /\ received \in Seq(Bytes) /\ handled \in Seq(Bytes)
    /\ Bounded(context)

\* A worker moves, the others stay.
LEMMA GoesPlace ==
    ASSUME SessionTypeOK, NEW w \in Workers, NEW from, NEW to, Goes(w, from, to)
    PROVE  /\ at[w] = from /\ at' = [at EXCEPT ![w] = to] /\ at'[w] = to
           /\ \A x \in Workers \ {w} : at'[x] = at[x]
           /\ to \in Places => at' \in [Workers -> Places]
BY DEF SessionTypeOK, Goes

\* A step of a task that leaves the lock alone.
LEMMA TaskSession ==
    ASSUME SessionTypeOK, NEW w \in Workers, NEW from, NEW to \in Places,
           Goes(w, from, to), from \in Guarded <=> to \in Guarded,
           lock' = lock, session' = session, callback' = callback,
           queued' \in Nat, closes' \in BOOLEAN
    PROVE  SessionTypeOK'
<1>1. at' \in [Workers -> Places]
  BY GoesPlace
<1>2. ASSUME NEW x \in Workers PROVE at'[x] \in Guarded <=> at[x] \in Guarded
  BY GoesPlace
<1>3. \A x \in Workers : at'[x] \in Guarded <=> lock = x
  BY <1>2 DEF SessionTypeOK, Guarded
<1> QED
  BY <1>1, <1>3 DEF SessionTypeOK, Guarded

\* One worker at a time is past the guard, through every step.
LEMMA SessionStep ==
    ASSUME SessionTypeOK, [Next]_vars
    PROVE  SessionTypeOK'
<1>1. CASE \E p \in Packets : Packet(p)
  BY <1>1 DEF Packet, SessionTypeOK
<1>2. CASE PushTask
  BY <1>2 DEF PushTask, SessionTypeOK
<1>3. CASE Release
  BY <1>3 DEF Release, SessionTypeOK
<1>4. ASSUME NEW w \in Workers, Step(w) PROVE SessionTypeOK'
  <2>1. CASE TakeTask(w)
    <3>1. queued' \in Nat
      BY <2>1 DEF TakeTask, SessionTypeOK
    <3>2. Goes(w, "idle", "started") /\ lock' = lock /\ session' = session
          /\ callback' = callback /\ closes' = closes
      BY <2>1 DEF TakeTask
    <3> QED
      BY <3>1, <3>2, TaskSession DEF Places, Guarded, SessionTypeOK
  <2>2. CASE ReturnsAtOnce(w)
    BY <2>2, TaskSession DEF ReturnsAtOnce, Places, Guarded, SessionTypeOK
  <2>3. CASE WantsLock(w)
    BY <2>3, TaskSession DEF WantsLock, Places, Guarded, SessionTypeOK
  <2>4. CASE LocksForJson(w)
    <3>1. /\ Goes(w, "want", "merge") /\ lock = Nobody /\ lock' = w
          /\ session' = session /\ callback' = callback /\ queued' = queued
          /\ closes' = closes
      BY <2>4 DEF LocksForJson, Locks
    <3>2. /\ at' \in [Workers -> Places] /\ at'[w] = "merge"
          /\ \A x \in Workers \ {w} : at'[x] = at[x]
      BY <3>1, GoesPlace DEF Places
    <3>3. \A x \in Workers : at[x] \notin Guarded
      BY <3>1, WorkersAssumption DEF SessionTypeOK, Guarded, Nobody
    <3>4. \A x \in Workers : at'[x] \in Guarded <=> lock' = x
      BY <3>1, <3>2, <3>3 DEF Guarded
    <3> QED
      BY <3>1, <3>2, <3>4 DEF SessionTypeOK, Guarded
  <2>5. CASE Merge(w)
    BY <2>5, TaskSession DEF Merge, Places, Guarded, SessionTypeOK
  <2>6. CASE Analyses(w)
    <3> DEFINE to == IF Unique THEN "end" ELSE "scan"
    <3>1. to \in Places /\ to \in Guarded
      BY DEF Places, Guarded
    <3>2. /\ Goes(w, "analysis", to) /\ lock' = lock /\ session' = session
          /\ callback' = callback /\ closes' = closes /\ queued' = queued
      BY <2>6 DEF Analyses
    <3> HIDE DEF to
    <3> QED
      BY <3>1, <3>2, TaskSession DEF Guarded, SessionTypeOK
  <2>7. CASE FindsEnd(w)
    BY <2>7, TaskSession DEF FindsEnd, Places, Guarded, SessionTypeOK
  <2>8. CASE NeedsMore(w)
    BY <2>8, TaskSession DEF NeedsMore, Places, Guarded, SessionTypeOK
  <2>9. CASE Scan(w)
    BY <2>9 DEF Scan, SessionTypeOK
  <2>10. CASE Handles(w)
    BY <2>10, TaskSession DEF Handles, Places, Guarded, SessionTypeOK
  <2>11. CASE Closes(w)
    BY <2>11, TaskSession DEF Closes, Places, Guarded, SessionTypeOK
  <2>12. CASE Ends(w)
    <3>1. /\ Goes(w, "end", "return") /\ lock' = Nobody
          /\ session' = session /\ callback' = callback /\ queued' = queued
          /\ closes' = closes
      BY <2>12 DEF Ends
    <3>2. /\ at[w] = "end" /\ at' \in [Workers -> Places] /\ at'[w] = "return"
          /\ \A x \in Workers \ {w} : at'[x] = at[x]
      BY <3>1, GoesPlace DEF Places
    <3>3. lock = w
      BY <3>2 DEF SessionTypeOK
    <3>4. \A x \in Workers : at'[x] \notin Guarded
      BY <3>2, <3>3 DEF SessionTypeOK, Guarded
    <3>5. \A x \in Workers : lock' # x
      BY <3>1, WorkersAssumption DEF Nobody
    <3> QED
      BY <3>1, <3>2, <3>4, <3>5 DEF SessionTypeOK, Guarded
  <2>13. CASE Drops(w)
    BY <2>13, TaskSession DEF Drops, Places, Guarded, SessionTypeOK
  <2> QED
    BY <1>4, <2>1, <2>2, <2>3, <2>4, <2>5, <2>6, <2>7, <2>8, <2>9, <2>10, <2>11, <2>12, <2>13
       DEF Step, CommonStep
<1>5. CASE UNCHANGED vars
  BY <1>5 DEF vars, sessionVars, SessionTypeOK
<1> QED
  BY <1>1, <1>2, <1>3, <1>4, <1>5 DEF Next, LoopThread

\* What the analysis looks at.
LEMMA ContextStep ==
    ASSUME Shape, [Next]_vars
    PROVE  \/ context' = context
           \/ context' = Merged(context, raw)
           \/ ~Ended(context) /\ ~AtEnd(context) /\ context' = Scanned(context)
           \/ context' = Restarted(context)
           \/ context' = Cleared(context)
BY DEF Next, LoopThread, Packet, PushTask, Release, Step, CommonStep, TakeTask,
       ReturnsAtOnce, WantsLock, Merge, Analyses, LocksForJson, Locks, FindsEnd,
       NeedsMore, Scan, Handles, Closes, Ends, Drops, vars, sessionVars

\* A message is a sequence of bytes.
LEMMA ContentType ==
    ASSUME NEW c \in Contexts, Bounded(c)
    PROVE  Content(c) \in Bytes
<1>1. /\ c.bytes \in Seq(STRING) /\ c.start + 1 \in Int /\ c.index \in Int
      /\ c.start \in Nat /\ c.index \in Nat /\ c.index <= Len(c.bytes)
  BY DEF Bounded, Contexts, Bytes
<1>2. \A i \in c.start + 1 .. c.index : c.bytes[i] \in STRING
  BY <1>1
<1> QED
  BY <1>1, <1>2, SubSeqProperties DEF Content, Bytes

\* The types and bounds of every variable hold at first ...
LEMMA ShapeInit ==
    ASSUME Init
    PROVE  Shape
<1>1. SessionTypeOK
  BY WorkersAssumption DEF Init, InitSession, SessionTypeOK, Places, Nobody
<1> DEFINE fresh == [bytes |-> <<>>, length |-> 0, overflow |-> FALSE,
                     index |-> 0, state |-> "start", depth |-> 0, start |-> 0]
<1>2. Bounded(fresh)
  <2>1. <<>> \in Bytes /\ Len(<<>>) = 0 /\ MaxSize \in Nat
    BY EmptySeq, SizeAssumption DEF Bytes, MaxSize
  <2>2. fresh \in Contexts
    BY <2>1 DEF Contexts, States
  <2> QED
    BY <2>1, <2>2 DEF Bounded
<1> HIDE DEF fresh
<1> QED
  BY <1>1, <1>2, EmptySeq DEF Shape, Init, InitSession, fresh

\* ... and through every step ...
LEMMA ShapeStep ==
    ASSUME Shape, [Next]_vars
    PROVE  Shape'
<1>1. SessionTypeOK'
  BY SessionStep DEF Shape
<1>2. context \in Contexts /\ Bounded(context) /\ raw \in Seq(Bytes)
  BY DEF Shape, Bounded
<1>3. Bounded(context')
  <2>1. CASE context' = context
    BY <1>2, <2>1
  <2>2. CASE context' = Merged(context, raw)
    BY <1>2, <2>2, MergedBounded
  <2>3. CASE ~Ended(context) /\ ~AtEnd(context) /\ context' = Scanned(context)
    BY <1>2, <2>3, ScannedBounded
  <2>4. CASE context' = Restarted(context)
    BY <1>2, <2>4, RestartedBounded
  <2>5. CASE context' = Cleared(context)
    BY <1>2, <2>5, ClearedBounded
  <2> QED
    BY <2>1, <2>2, <2>3, <2>4, <2>5, ContextStep
<1>4. needClear' \in [Workers -> BOOLEAN]
  BY DEF Shape, Next, LoopThread, Step, CommonStep, LocksForJson, FindsEnd,
         NeedsMore, Scan, Handles, Closes, Ends, Drops, vars
<1>5. raw' \in Seq(Bytes) /\ received' \in Seq(Bytes)
  <2>1. CASE \E p \in Packets : Packet(p)
    <3>1. PICK p \in Packets : raw' = Append(raw, p) /\ received' = Append(received, p)
      BY <2>1 DEF Packet
    <3>2. p \in Bytes
      BY PacketAssumption DEF Bytes
    <3> QED
      BY <3>1, <3>2, AppendProperties DEF Shape
  <2>2. CASE ~ \E p \in Packets : Packet(p)
    <3>1. received' = received /\ (raw' = raw \/ raw' = <<>>)
      BY <2>2 DEF Next, LoopThread, PushTask, Release, Step, CommonStep, TakeTask,
         ReturnsAtOnce, WantsLock, Merge, Analyses, LocksForJson, Locks, FindsEnd,
         NeedsMore, Scan, Handles, Closes, Ends, Drops, vars, sessionVars
    <3> QED
      BY <3>1, EmptySeq DEF Shape
  <2> QED
    BY <2>1, <2>2
<1>6. handled' \in Seq(Bytes)
  <2>1. handled' = handled \/ handled' = Append(handled, Content(context))
    BY DEF Next, LoopThread, Packet, PushTask, Release, Step, CommonStep, TakeTask,
       ReturnsAtOnce, WantsLock, Merge, Analyses, LocksForJson, Locks, FindsEnd,
       NeedsMore, Scan, Handles, Closes, Ends, Drops, vars, sessionVars
  <2>2. Content(context) \in Bytes
    BY <1>2, ContentType
  <2>3. handled \in Seq(Bytes)
    BY DEF Shape
  <2>4. Append(handled, Content(context)) \in Seq(Bytes)
    BY <2>2, <2>3, AppendProperties
  <2> QED
    BY <2>1, <2>3, <2>4
<1> QED
  BY <1>1, <1>3, <1>4, <1>5, <1>6 DEF Shape

\* ... and are what InBounds asks for ...
LEMMA ShapeInBounds ==
    ASSUME Shape
    PROVE  InBounds
<1>1. /\ context \in Contexts /\ context.depth \in Nat /\ context.start \in Nat
      /\ context.state \in States /\ context.overflow \in BOOLEAN
  BY DEF Shape, Bounded, Contexts
<1>2. TypeOK
  BY <1>1 DEF Shape, TypeOK, States
<1> QED
  BY <1>1, <1>2 DEF Shape, Bounded, InBounds

\* ... always.
LEMMA ShapeAlways == Spec => []Shape
<1>1. Init => Shape
  BY ShapeInit
<1>2. Shape /\ [Next]_vars => Shape'
  BY ShapeStep
<1> QED
  BY <1>1, <1>2, PTL DEF Spec

\* The bytes, the message among them and the place of the analysis stay inside
\* the buffer, and the buffer inside its limit, for all packets, limits and workers.
THEOREM BytesInBounds == Spec => []InBounds
<1>1. Shape => InBounds
  BY ShapeInBounds
<1> QED
  BY <1>1, ShapeAlways, PTL

-----------------------------------------------------------------------------
(* The messages of a stream.                                               *)

\* What Min chooses.
LEMMA MinIn ==
    ASSUME NEW S \in SUBSET Nat, S # {}
    PROVE  Min(S) \in S /\ \A i \in S : Min(S) <= i
<1>1. \E n \in S : \A i \in S : n <= i
  BY LeastNumber
<1> QED
  BY <1>1, Zenon DEF Min

\* A part of a sequence of bytes.
LEMMA PartOfBytes ==
    ASSUME NEW s \in Bytes, NEW i \in Nat \ {0}, NEW j \in Nat, j <= Len(s)
    PROVE  /\ SubSeq(s, i, j) \in Bytes
           /\ Len(SubSeq(s, i, j)) = IF i <= j THEN j - i + 1 ELSE 0
           /\ \A k \in 1 .. j - i + 1 : SubSeq(s, i, j)[k] = s[i + k - 1]
<1>1. \A k \in i .. j : s[k] \in STRING
  BY DEF Bytes
<1>2. i \in Int /\ j \in Int
  OBVIOUS
<1> QED
  BY <1>1, <1>2, SubSeqProperties DEF Bytes

From(s)    == CHOOSE i \in Starts(s) : TRUE
HasNone(s) == Starts(s) = {} \/ s[From(s)] \notin Openers \/ EndsOf(s, From(s)) = {}
Message(s) == SubSeq(s, From(s), Min(EndsOf(s, From(s))))
After(s)   == SubSeq(s, Min(EndsOf(s, From(s))) + 1, Len(s))

\* What follows a message is shorter than what it was taken from.
LEMMA AfterShorter ==
    ASSUME NEW s \in Bytes, ~HasNone(s)
    PROVE  /\ After(s) \in Bytes /\ Len(After(s)) \in Nat /\ Len(After(s)) < Len(s)
           /\ Message(s) \in Bytes
<1> DEFINE from == From(s)
           to == Min(EndsOf(s, from))
<1>1. Len(s) \in Nat
  BY DEF Bytes
<1>2. from \in Starts(s)
  <2>1. \E i \in Starts(s) : TRUE
    BY DEF HasNone
  <2> QED
    BY <2>1, Zenon DEF From
<1>3. from \in Nat \ {0} /\ from <= Len(s)
  <2>1. DOMAIN s = 1 .. Len(s)
    BY DEF Bytes
  <2> HIDE DEF from
  <2>2. from \in DOMAIN s
    BY <1>2, Zenon DEF Starts
  <2> QED
    BY <1>1, <2>1, <2>2
<1> HIDE DEF from
<1>4. to \in EndsOf(s, from)
  <2>1. EndsOf(s, from) # {}
    BY DEF HasNone, from
  <2>2. EndsOf(s, from) \in SUBSET Nat
    BY <1>1, <1>3 DEF EndsOf
  <2> QED
    BY <2>1, <2>2, MinIn
<1>5. to \in Nat /\ from <= to /\ to <= Len(s)
  BY <1>1, <1>3, <1>4 DEF EndsOf
<1> HIDE DEF to
<1>6. /\ SubSeq(s, to + 1, Len(s)) \in Bytes
      /\ Len(SubSeq(s, to + 1, Len(s))) =
           IF to + 1 <= Len(s) THEN Len(s) - (to + 1) + 1 ELSE 0
  <2>1. to + 1 \in Nat \ {0} /\ Len(s) <= Len(s)
    BY <1>1, <1>5
  <2> QED
    BY <1>1, <2>1, PartOfBytes
<1>7. SubSeq(s, from, to) \in Bytes
  BY <1>3, <1>5, PartOfBytes
<1> QED
  BY <1>1, <1>3, <1>5, <1>6, <1>7 DEF After, Message, from, to

\* The definition of Framed defines a function ...
LEMMA FramedUnfolds ==
    ASSUME NEW s \in Bytes
    PROVE  /\ Framed[s] = IF HasNone(s) THEN <<>> ELSE <<Message(s)>> \o Framed[After(s)]
           /\ Framed[s] \in Seq(Bytes)
<1> DEFINE V == Seq(Bytes)
           size == [u \in Bytes |-> Len(u)]
           stop == {u \in Bytes : HasNone(u)}
           none == [u \in Bytes |-> <<>>]
           after == [u \in Bytes |-> After(u)]
           G == [a \in Bytes \X V |-> <<Message(a[1])>> \o a[2]]
<1>1. size \in [Bytes -> Nat]
  BY DEF Bytes
<1>2. \A u \in Bytes \intersect stop : none[u] \in V
  BY EmptySeq
<1>3. \A u \in Bytes \ stop : after[u] \in Bytes /\ size[after[u]] < size[u]
  BY AfterShorter
<1>4. ASSUME NEW u \in Bytes \ stop, NEW v \in V
      PROVE  G[<<u, v>>] = <<Message(u)>> \o v /\ G[<<u, v>>] \in V
  <2>1. G[<<u, v>>] = <<Message(u)>> \o v
    OBVIOUS
  <2>2. <<Message(u)>> \in V
    BY AfterShorter
  <2>3. <<Message(u)>> \o v \in V
    BY <2>2, ConcatProperties
  <2> QED
    BY <2>1, <2>3
<1>5. PICK f : Solves(f, Bytes, V, stop, none, after, G)
  <2> HIDE DEF V, size, stop, none, after, G
  <2> QED
    BY <1>1, <1>2, <1>3, <1>4, RecursionExists
<1>6. f \in [Bytes -> V]
  BY <1>5 DEF Solves
<1>7. ASSUME NEW u \in Bytes
      PROVE  f[u] = IF HasNone(u) THEN <<>> ELSE <<Message(u)>> \o f[After(u)]
  <2>1. f[u] = Body(f, u, stop, none, after, G)
    BY <1>5 DEF Solves
  <2>2. CASE HasNone(u)
    BY <2>1, <2>2 DEF Body
  <2>3. CASE ~HasNone(u)
    <3>1. After(u) \in Bytes /\ after[u] = After(u) /\ u \in Bytes \ stop
      BY <2>3, AfterShorter
    <3>2. f[After(u)] \in V
      BY <1>6, <3>1
    <3>3. G[<<u, f[After(u)]>>] = <<Message(u)>> \o f[After(u)]
      BY <1>4, <3>1, <3>2
    <3> QED
      BY <2>1, <2>3, <3>1, <3>3 DEF Body
  <2> QED
    BY <2>2, <2>3
<1> DEFINE Row(g, u) == IF HasNone(u) THEN <<>> ELSE <<Message(u)>> \o g[After(u)]
           Def(g, u) ==
               IF Starts(u) = {} THEN <<>>
               ELSE LET from == CHOOSE i \in Starts(u) : TRUE
                    IN  IF u[from] \notin Openers \/ EndsOf(u, from) = {} THEN <<>>
                        ELSE LET to == Min(EndsOf(u, from))
                             IN  <<SubSeq(u, from, to)>> \o g[SubSeq(u, to + 1, Len(u))]
<1>8. \A g : \A u \in Bytes : Def(g, u) = Row(g, u)
  BY DEF HasNone, From, Message, After
<1>9. Framed = CHOOSE g : g = [u \in Bytes |-> Def(g, u)]
  BY Zenon DEF Framed, Bytes
<1> HIDE DEF Row, Def
<1>10. f = [u \in Bytes |-> Def(f, u)]
  <2> HIDE DEF V
  <2>1. \A u \in Bytes : f[u] = Def(f, u)
    BY <1>7, <1>8 DEF Row
  <2> QED
    BY <1>6, <2>1
<1>11. Framed = [u \in Bytes |-> Def(Framed, u)]
  BY <1>9, <1>10, Zenon
<1>12. ASSUME NEW u \in Bytes PROVE Framed[u] = Row(Framed, u)
  <2>1. Framed[u] = Def(Framed, u)
    BY <1>11, Zenon
  <2> QED
    BY <1>8, <2>1
<1> DEFINE Differ == {u \in Bytes : Framed[u] # f[u]}
<1>13. Differ = {}
  <2>1. ASSUME NEW u \in Differ PROVE After(u) \in Differ /\ size[After(u)] < size[u]
    <3>1. u \in Bytes /\ Framed[u] # f[u]
      OBVIOUS
    <3>2. ~HasNone(u)
      BY <1>7, <1>12, <3>1 DEF Row
    <3>3. After(u) \in Bytes /\ Len(After(u)) < Len(u)
      BY <3>1, <3>2, AfterShorter
    <3>4. Framed[After(u)] # f[After(u)]
      BY <1>7, <1>12, <3>1, <3>2 DEF Row
    <3> QED
      BY <3>1, <3>3, <3>4
  <2>2. \A u \in Differ : \E v \in Differ : size[v] < size[u]
    BY <2>1
  <2>3. Differ \in SUBSET Bytes
    OBVIOUS
  <2> HIDE DEF Differ, size
  <2> QED
    BY <1>1, <2>2, <2>3, Descent
<1>14. Framed[s] = f[s] /\ f[s] \in Seq(Bytes)
  BY <1>6, <1>13
<1> QED
  BY <1>12, <1>14 DEF Row

\* ... and so does that of Malformed.
LEMMA MalformedUnfolds ==
    ASSUME NEW s \in Bytes
    PROVE  Malformed[s] = IF HasNone(s) THEN Starts(s) # {} /\ s[From(s)] \notin Openers
                          ELSE Malformed[After(s)]
<1> DEFINE size == [u \in Bytes |-> Len(u)]
           stop == {u \in Bytes : HasNone(u)}
           base == [u \in Bytes |-> Starts(u) # {} /\ u[From(u)] \notin Openers]
           after == [u \in Bytes |-> After(u)]
           G == [a \in Bytes \X BOOLEAN |-> a[2]]
<1>1. size \in [Bytes -> Nat]
  BY DEF Bytes
<1>2. \A u \in Bytes \intersect stop : base[u] \in BOOLEAN
  OBVIOUS
<1>3. \A u \in Bytes \ stop : after[u] \in Bytes /\ size[after[u]] < size[u]
  BY AfterShorter
<1>4. \A u \in Bytes : \A v \in BOOLEAN : G[<<u, v>>] = v
  OBVIOUS
<1>5. PICK f : Solves(f, Bytes, BOOLEAN, stop, base, after, G)
  <2> HIDE DEF size, stop, base, after, G
  <2> QED
    BY <1>1, <1>2, <1>3, <1>4, RecursionExists
<1>6. f \in [Bytes -> BOOLEAN]
  BY <1>5 DEF Solves
<1> DEFINE Row(g, u) == IF HasNone(u) THEN Starts(u) # {} /\ u[From(u)] \notin Openers
                        ELSE g[After(u)]
           Def(g, u) ==
               IF Starts(u) = {} THEN FALSE
               ELSE LET from == CHOOSE i \in Starts(u) : TRUE
                    IN  \/ u[from] \notin Openers
                        \/ /\ EndsOf(u, from) # {}
                           /\ g[SubSeq(u, Min(EndsOf(u, from)) + 1, Len(u))]
<1>7. ASSUME NEW u \in Bytes PROVE f[u] = Row(f, u)
  <2>1. f[u] = Body(f, u, stop, base, after, G)
    BY <1>5 DEF Solves
  <2>2. CASE HasNone(u)
    BY <2>1, <2>2 DEF Body
  <2>3. CASE ~HasNone(u)
    <3>1. After(u) \in Bytes /\ after[u] = After(u) /\ u \in Bytes \ stop
      BY <2>3, AfterShorter
    <3>2. f[After(u)] \in BOOLEAN
      BY <1>6, <3>1
    <3>3. G[<<u, f[After(u)]>>] = f[After(u)]
      BY <1>4, <3>1, <3>2
    <3>4. f[u] = f[After(u)]
      <4> HIDE DEF stop, base, after, G
      <4> QED
        BY <2>1, <3>1, <3>3 DEF Body
    <3> QED
      BY <2>3, <3>4
  <2> QED
    BY <2>2, <2>3
<1>8. ASSUME NEW u \in Bytes, NEW g PROVE Def(g, u) <=> Row(g, u)
  BY DEF HasNone, From, After
<1>9. Malformed = CHOOSE g : g = [u \in Bytes |-> Def(g, u)]
  BY Zenon DEF Malformed, Bytes
<1>10. f = [u \in Bytes |-> Def(f, u)]
  <2>1. ASSUME NEW u \in Bytes PROVE f[u] = Def(f, u)
    <3>1. f[u] \in BOOLEAN /\ Def(f, u) \in BOOLEAN
      BY <1>6
    <3> QED
      BY <1>7, <1>8, <3>1
  <2> HIDE DEF Def
  <2> QED
    BY <1>6, <2>1
<1>11. Malformed = [u \in Bytes |-> Def(Malformed, u)]
  <2> HIDE DEF Def
  <2> QED
    BY <1>9, <1>10, Zenon
<1>12. ASSUME NEW u \in Bytes
       PROVE  Malformed[u] \in BOOLEAN /\ Malformed[u] = Def(Malformed, u)
  <2>1. Malformed[u] = Def(Malformed, u)
    <3> HIDE DEF Def
    <3> QED
      BY <1>11, Zenon
  <2>2. Def(Malformed, u) \in BOOLEAN
    OBVIOUS
  <2> HIDE DEF Def
  <2> QED
    BY <2>1, <2>2
<1>13. CASE HasNone(s)
  <2>1. Row(Malformed, s) \in BOOLEAN
    BY <1>13
  <2> HIDE DEF Row, Def
  <2>2. Malformed[s] = Row(Malformed, s)
    BY <1>8, <1>12, <2>1
  <2> QED
    BY <2>2 DEF Row
<1>14. CASE ~HasNone(s)
  <2>1. Row(Malformed, s) = Malformed[After(s)] /\ After(s) \in Bytes
    BY <1>14, AfterShorter
  <2>2. Malformed[After(s)] \in BOOLEAN
    <3> HIDE DEF Row, Def
    <3> QED
      BY <1>12, <2>1
  <2> HIDE DEF Row, Def
  <2>3. Malformed[s] = Row(Malformed, s)
    BY <1>8, <1>12, <2>1, <2>2
  <2> QED
    BY <1>14, <2>1, <2>3
<1> QED
  BY <1>13, <1>14

-----------------------------------------------------------------------------
(* Brackets.                                                               *)

\* How many of the first j bytes of u are b.
Occur(b, u, j) == Cardinality({i \in 1 .. j : u[i] = b})

\* Count of a part is Occur up to its end.
LEMMA CountIsOccur ==
    ASSUME NEW b, NEW u \in Bytes, NEW j \in 0 .. Len(u)
    PROVE  Count(b, SubSeq(u, 1, j)) = Occur(b, u, j)
<1> DEFINE p == SubSeq(u, 1, j)
<1>1. /\ Len(u) \in Nat /\ j \in Nat /\ j <= Len(u)
  BY DEF Bytes
<1>2. p \in Bytes /\ Len(p) = j /\ \A k \in 1 .. j : p[k] = u[k]
  <2>1. /\ p \in Bytes /\ Len(p) = IF 1 <= j THEN j - 1 + 1 ELSE 0
        /\ \A k \in 1 .. j - 1 + 1 : p[k] = u[1 + k - 1]
    BY <1>1, PartOfBytes
  <2> HIDE DEF p
  <2> QED
    BY <1>1, <2>1
<1>3. DOMAIN p = 1 .. j
  <2> HIDE DEF p
  <2> QED
    BY <1>2 DEF Bytes
<1>4. {i \in DOMAIN p : p[i] = b} = {i \in 1 .. j : u[i] = b}
  <2> HIDE DEF p
  <2> QED
    BY <1>2, <1>3
<1> QED
  BY <1>4 DEF Count, Occur

\* The next byte is counted if it is b.
LEMMA OccurNext ==
    ASSUME NEW b, NEW u, NEW j \in Nat
    PROVE  /\ Occur(b, u, j) \in Nat /\ Occur(b, u, 0) = 0
           /\ Occur(b, u, j + 1) = IF u[j + 1] = b THEN Occur(b, u, j) + 1
                                   ELSE Occur(b, u, j)
<1> DEFINE S(k) == {i \in 1 .. k : u[i] = b}
<1>1. \A k \in Nat : IsFiniteSet(S(k))
  <2>1. ASSUME NEW k \in Nat PROVE IsFiniteSet(S(k))
    <3>1. IsFiniteSet(1 .. k) /\ S(k) \subseteq 1 .. k
      BY FS_Interval
    <3> QED
      BY <3>1, FS_Subset
  <2> QED
    BY <2>1
<1>2. IsFiniteSet(S(j)) /\ Cardinality(S(j)) \in Nat
  BY <1>1, FS_CardinalityType
<1>3. S(0) = {}
  OBVIOUS
<1>4. CASE u[j + 1] = b
  <2>1. S(j + 1) = S(j) \union {j + 1} /\ j + 1 \notin S(j)
    BY <1>4
  <2>2. Cardinality(S(j) \union {j + 1}) = Cardinality(S(j)) + 1
    <3> HIDE DEF S
    <3> QED
      BY <1>2, <2>1, FS_AddElement
  <2> QED
    BY <1>2, <1>3, <1>4, <2>1, <2>2, FS_EmptySet DEF Occur
<1>5. CASE u[j + 1] # b
  <2>1. S(j + 1) = S(j)
    BY <1>5
  <2> QED
    BY <1>2, <1>3, <1>5, <2>1, FS_EmptySet DEF Occur
<1> QED
  BY <1>4, <1>5

\* By how many the brackets that open exceed those that close, of the kind of
\* the first byte and among the first j bytes.
Excess(u, j) == Occur(u[1], u, j) - Occur(Closer(u[1]), u, j)

\* The depth of the analysis goes up and down as Scanned has it.
LEMMA ExcessNext ==
    ASSUME NEW u, u[1] \in Openers, NEW j \in Nat
    PROVE  /\ Excess(u, j) \in Int
           /\ Excess(u, 1) = 1
           /\ Excess(u, j + 1) = IF u[j + 1] = u[1] THEN Excess(u, j) + 1
                                 ELSE IF u[j + 1] = Closer(u[1]) THEN Excess(u, j) - 1
                                 ELSE Excess(u, j)
<1> DEFINE a == u[1]
           b == Closer(u[1])
<1>1. a # b
  BY DEF Closer, Openers
<1> HIDE DEF a, b
<1>2. /\ Occur(a, u, j) \in Nat /\ Occur(b, u, j) \in Nat
      /\ Occur(a, u, 0) = 0 /\ Occur(b, u, 0) = 0
      /\ Occur(a, u, j + 1) = IF u[j + 1] = a THEN Occur(a, u, j) + 1 ELSE Occur(a, u, j)
      /\ Occur(b, u, j + 1) = IF u[j + 1] = b THEN Occur(b, u, j) + 1 ELSE Occur(b, u, j)
  BY OccurNext
<1>3. /\ Occur(a, u, 0 + 1) = IF u[0 + 1] = a THEN Occur(a, u, 0) + 1 ELSE Occur(a, u, 0)
      /\ Occur(b, u, 0 + 1) = IF u[0 + 1] = b THEN Occur(b, u, 0) + 1 ELSE Occur(b, u, 0)
  <2>1. 0 \in Nat
    OBVIOUS
  <2> QED
    BY <2>1, OccurNext
<1>4. u[1] = a /\ u[1] # b
  BY <1>1 DEF a
<1>5. Occur(a, u, 1) = 1 /\ Occur(b, u, 1) = 0
  BY <1>2, <1>3, <1>4
<1>6. \A k : Excess(u, k) = Occur(a, u, k) - Occur(b, u, k)
  BY DEF Excess, a, b
<1>7. /\ Excess(u, j) = Occur(a, u, j) - Occur(b, u, j)
      /\ Excess(u, j + 1) = Occur(a, u, j + 1) - Occur(b, u, j + 1)
      /\ Excess(u, 1) = Occur(a, u, 1) - Occur(b, u, 1)
  BY <1>6
<1>8. Excess(u, j + 1) = IF u[j + 1] = a THEN Excess(u, j) + 1
                         ELSE IF u[j + 1] = b THEN Excess(u, j) - 1 ELSE Excess(u, j)
  BY <1>1, <1>2, <1>7
<1> QED
  BY <1>2, <1>5, <1>7, <1>8 DEF a, b

\* Where the excess is 0, the message that begins with the first byte may end.
LEMMA EndsOfExcess ==
    ASSUME NEW u \in Bytes, u # <<>>
    PROVE  EndsOf(u, 1) = {j \in 1 .. Len(u) : Excess(u, j) = 0}
<1>1. Len(u) \in Nat
  BY DEF Bytes
<1>2. ASSUME NEW j \in 1 .. Len(u)
      PROVE  Count(u[1], SubSeq(u, 1, j)) = Count(Closer(u[1]), SubSeq(u, 1, j))
                <=> Excess(u, j) = 0
  <2>1. j \in Nat /\ j \in 0 .. Len(u)
    BY <1>1
  <2>2. /\ Count(u[1], SubSeq(u, 1, j)) = Occur(u[1], u, j)
        /\ Count(Closer(u[1]), SubSeq(u, 1, j)) = Occur(Closer(u[1]), u, j)
    BY <2>1, CountIsOccur
  <2>3. Occur(u[1], u, j) \in Nat /\ Occur(Closer(u[1]), u, j) \in Nat
    BY <2>1, OccurNext
  <2> QED
    BY <2>2, <2>3 DEF Excess
<1> QED
  BY <1>2 DEF EndsOf

\* What comes later does not count.
LEMMA ExcessPrefix ==
    ASSUME NEW u \in Bytes, NEW v \in Bytes, NEW j \in 1 .. Len(u), j <= Len(v),
           \A i \in 1 .. j : v[i] = u[i]
    PROVE  Excess(v, j) = Excess(u, j)
<1>1. j \in Nat /\ 1 \in 1 .. j
  BY DEF Bytes
<1>2. u[1] = v[1]
  BY <1>1
<1>3. \A b : {i \in 1 .. j : u[i] = b} = {i \in 1 .. j : v[i] = b}
  OBVIOUS
<1> QED
  BY <1>2, <1>3 DEF Excess, Occur

-----------------------------------------------------------------------------
(* What a stream that begins in some way is divided into.                  *)

Spaces(u, k) == \A i \in 1 .. k : u[i] = Space

\* The first byte that is no space is the only place where a message may start.
LEMMA StartsAfterSpaces ==
    ASSUME NEW u \in Bytes, NEW k \in 0 .. Len(u), Spaces(u, k)
    PROVE  /\ k = Len(u) => Starts(u) = {}
           /\ k < Len(u) /\ u[k + 1] # Space => Starts(u) = {k + 1} /\ From(u) = k + 1
<1>1. Len(u) \in Nat /\ DOMAIN u = 1 .. Len(u) /\ k \in Nat /\ k <= Len(u)
  BY DEF Bytes
<1>2. ASSUME k = Len(u) PROVE Starts(u) = {}
  BY <1>1, <1>2 DEF Starts, Spaces
<1>3. ASSUME k < Len(u) /\ u[k + 1] # Space
      PROVE  Starts(u) = {k + 1} /\ From(u) = k + 1
  <2>1. ASSUME NEW i \in Starts(u) PROVE i = k + 1
    <3>1. i \in 1 .. Len(u) /\ u[i] # Space /\ \A j \in 1 .. i - 1 : u[j] = Space
      BY <1>1 DEF Starts
    <3>2. ~(i <= k)
      BY <1>1, <3>1 DEF Spaces
    <3>3. ~(k + 1 <= i - 1)
      BY <1>1, <1>3, <3>1
    <3> QED
      BY <1>1, <3>1, <3>2, <3>3
  <2>2. k + 1 \in Starts(u)
    <3>1. k + 1 \in DOMAIN u /\ \A j \in 1 .. k + 1 - 1 : u[j] = Space
      BY <1>1, <1>3 DEF Spaces
    <3> QED
      BY <1>3, <3>1 DEF Starts
  <2>3. Starts(u) = {k + 1}
    BY <2>1, <2>2
  <2>4. From(u) = k + 1
    BY <2>3 DEF From
  <2> QED
    BY <2>3, <2>4
<1> QED
  BY <1>2, <1>3

\* Nothing but space: there is no message.
LEMMA FramedSpaces ==
    ASSUME NEW u \in Bytes, Spaces(u, Len(u))
    PROVE  Framed[u] = <<>> /\ Malformed[u] = FALSE
<1>1. Len(u) \in 0 .. Len(u)
  BY DEF Bytes
<1>2. Starts(u) = {}
  BY <1>1, StartsAfterSpaces
<1> QED
  BY <1>2, FramedUnfolds, MalformedUnfolds DEF HasNone

\* Something that begins no message.
LEMMA FramedBad ==
    ASSUME NEW u \in Bytes, NEW k \in Nat, k < Len(u), Spaces(u, k),
           u[k + 1] \notin Openers \union {Space}
    PROVE  Framed[u] = <<>> /\ Malformed[u] = TRUE
<1>1. k \in 0 .. Len(u)
  BY DEF Bytes
<1>2. Starts(u) = {k + 1} /\ From(u) = k + 1
  BY <1>1, StartsAfterSpaces
<1>3. HasNone(u) /\ Starts(u) # {} /\ u[From(u)] \notin Openers
  BY <1>2 DEF HasNone
<1> QED
  BY <1>3, FramedUnfolds, MalformedUnfolds

\* A message that has begun ...
LEMMA BeginsAtOnce ==
    ASSUME NEW u \in Bytes, u # <<>>, u[1] \in Openers
    PROVE  Starts(u) = {1} /\ From(u) = 1
<1>1. 0 \in 0 .. Len(u) /\ Spaces(u, 0) /\ 0 < Len(u)
  BY DEF Spaces, Bytes
<1>2. u[0 + 1] # Space
  BY SpaceOpensNothing
<1>3. Starts(u) = {0 + 1} /\ From(u) = 0 + 1
  BY <1>1, <1>2, StartsAfterSpaces
<1> QED
  BY <1>3

\* ... and has not ended ...
LEMMA FramedOpen ==
    ASSUME NEW u \in Bytes, u # <<>>, u[1] \in Openers,
           \A j \in 1 .. Len(u) : Excess(u, j) > 0
    PROVE  Framed[u] = <<>> /\ Malformed[u] = FALSE
<1>1. Starts(u) = {1} /\ From(u) = 1
  BY BeginsAtOnce
<1>2. ASSUME NEW j \in 1 .. Len(u) PROVE Excess(u, j) # 0
  <2>1. j \in Nat
    BY DEF Bytes
  <2>2. Excess(u, j) \in Int /\ Excess(u, j) > 0
    BY <2>1, ExcessNext
  <2> QED
    BY <2>2
<1>3. EndsOf(u, 1) = {}
  BY <1>2, EndsOfExcess
<1>4. HasNone(u) /\ u[From(u)] \in Openers
  BY <1>1, <1>3 DEF HasNone
<1> QED
  BY <1>4, FramedUnfolds, MalformedUnfolds

\* ... and one that has ended.
LEMMA FramedMessage ==
    ASSUME NEW u \in Bytes, NEW k \in 1 .. Len(u), u[1] \in Openers,
           Excess(u, k) = 0, \A j \in 1 .. k - 1 : Excess(u, j) > 0
    PROVE  /\ Framed[u] = <<SubSeq(u, 1, k)>> \o Framed[SubSeq(u, k + 1, Len(u))]
           /\ Malformed[u] = Malformed[SubSeq(u, k + 1, Len(u))]
<1>1. u # <<>> /\ Len(u) \in Nat /\ k \in Nat
  BY DEF Bytes
<1>2. Starts(u) = {1} /\ From(u) = 1
  BY <1>1, BeginsAtOnce
<1>3. EndsOf(u, 1) = {j \in 1 .. Len(u) : Excess(u, j) = 0}
  BY <1>1, EndsOfExcess
<1>4. EndsOf(u, 1) \in SUBSET Nat /\ k \in EndsOf(u, 1)
  BY <1>1, <1>3
<1>5. Min(EndsOf(u, 1)) \in EndsOf(u, 1) /\ Min(EndsOf(u, 1)) <= k
  BY <1>4, MinIn
<1>6. Min(EndsOf(u, 1)) = k
  <2> DEFINE m == Min(EndsOf(u, 1))
  <2>1. m \in 1 .. Len(u) /\ Excess(u, m) = 0 /\ m <= k
    BY <1>3, <1>5
  <2> HIDE DEF m
  <2>2. ~(m \in 1 .. k - 1)
    <3>1. ~(Excess(u, m) > 0)
      BY <2>1
    <3> QED
      BY <3>1
  <2>3. m = k
    BY <1>1, <2>1, <2>2
  <2> QED
    BY <2>3 DEF m
<1>7. /\ ~HasNone(u) /\ Message(u) = SubSeq(u, 1, k)
      /\ After(u) = SubSeq(u, k + 1, Len(u))
  BY <1>2, <1>4, <1>6 DEF HasNone, Message, After
<1> QED
  BY <1>7, FramedUnfolds, MalformedUnfolds

\* v is u without its first k bytes.
Shifted(v, u, k) == Len(v) = Len(u) - k /\ \A i \in 1 .. Len(v) : v[i] = u[k + i]

\* The rest of s from k on, as Shifted has it ...
LEMMA RestShifted ==
    ASSUME NEW u \in Bytes, NEW k \in Nat, k <= Len(u)
    PROVE  /\ SubSeq(u, k + 1, Len(u)) \in Bytes
           /\ Shifted(SubSeq(u, k + 1, Len(u)), u, k)
<1> DEFINE v == SubSeq(u, k + 1, Len(u))
<1>1. Len(u) \in Nat
  BY DEF Bytes
<1>2. k + 1 \in Nat \ {0} /\ Len(u) <= Len(u)
  BY <1>1
<1>3. /\ v \in Bytes
      /\ Len(v) = IF k + 1 <= Len(u) THEN Len(u) - (k + 1) + 1 ELSE 0
      /\ \A i \in 1 .. Len(u) - (k + 1) + 1 : v[i] = u[(k + 1) + i - 1]
  BY <1>1, <1>2, PartOfBytes
<1> HIDE DEF v
<1>4. Len(v) = Len(u) - k /\ \A i \in 1 .. Len(v) : v[i] = u[k + i]
  BY <1>1, <1>3
<1> QED
  BY <1>3, <1>4 DEF Shifted, v

\* Space before a message makes no difference.
LEMMA FramedAfterSpaces ==
    ASSUME NEW u \in Bytes, NEW k \in Nat, k < Len(u), Spaces(u, k), u[k + 1] \in Openers,
           NEW v \in Bytes, Shifted(v, u, k)
    PROVE  Framed[u] = Framed[v] /\ Malformed[u] = Malformed[v]
<1>1. /\ v \in Bytes /\ Len(v) = Len(u) - k /\ \A i \in 1 .. Len(v) : v[i] = u[k + i]
      /\ Len(u) \in Nat /\ Len(v) \in Nat
  BY DEF Shifted, Bytes
<1>2. Starts(u) = {k + 1} /\ From(u) = k + 1
  <2>1. k \in 0 .. Len(u) /\ u[k + 1] # Space
    BY <1>1, SpaceOpensNothing
  <2> QED
    BY <2>1, StartsAfterSpaces
<1>3. v # <<>> /\ v[1] = u[k + 1] /\ v[1] \in Openers
  <2>1. 1 \in 1 .. Len(v) /\ Len(v) # 0
    BY <1>1
  <2>2. v[1] = u[k + 1]
    BY <1>1, <2>1
  <2> QED
    BY <2>1, <2>2
<1>4. Starts(v) = {1} /\ From(v) = 1
  BY <1>1, <1>3, BeginsAtOnce
\* The same part of both.
<1>5. ASSUME NEW i \in 1 .. Len(v) + 1, NEW j \in 0 .. Len(v)
      PROVE  SubSeq(u, k + i, k + j) = SubSeq(v, i, j)
  <2> DEFINE p == SubSeq(u, k + i, k + j)
             q == SubSeq(v, i, j)
  <2>1. /\ k + i \in Nat \ {0} /\ k + j \in Nat /\ k + j <= Len(u)
        /\ i \in Nat \ {0} /\ j \in Nat /\ j <= Len(v)
    BY <1>1
  <2>2. /\ p \in Bytes
        /\ Len(p) = IF k + i <= k + j THEN k + j - (k + i) + 1 ELSE 0
        /\ \A n \in 1 .. k + j - (k + i) + 1 : p[n] = u[k + i + n - 1]
    BY <2>1, PartOfBytes
  <2>3. /\ q \in Bytes
        /\ Len(q) = IF i <= j THEN j - i + 1 ELSE 0
        /\ \A n \in 1 .. j - i + 1 : q[n] = v[i + n - 1]
    BY <1>1, <2>1, PartOfBytes
  <2> HIDE DEF p, q
  <2>4. Len(p) = Len(q)
    BY <2>1, <2>2, <2>3
  <2>5. ASSUME NEW n \in 1 .. Len(p) PROVE p[n] = q[n]
    <3>1. n \in 1 .. j - i + 1 /\ n \in 1 .. k + j - (k + i) + 1 /\ i + n - 1 \in 1 .. Len(v)
      BY <2>1, <2>2
    <3>2. p[n] = u[k + i + n - 1] /\ q[n] = v[i + n - 1]
      BY <2>2, <2>3, <3>1
    <3>3. v[i + n - 1] = u[k + (i + n - 1)]
      BY <1>1, <3>1
    <3>4. k + (i + n - 1) = k + i + n - 1
      BY <2>1, <3>1
    <3> QED
      BY <3>2, <3>3, <3>4
  <2> QED
    BY <2>2, <2>3, <2>4, <2>5, SeqEqual DEF Bytes, p, q
<1>6. ASSUME NEW j \in Int
      PROVE  k + j \in EndsOf(u, k + 1) <=> j \in EndsOf(v, 1)
  <2>1. k + j \in k + 1 .. Len(u) <=> j \in 1 .. Len(v)
    BY <1>1
  <2>2. ASSUME j \in 1 .. Len(v) PROVE SubSeq(u, k + 1, k + j) = SubSeq(v, 1, j)
    <3>1. 1 \in 1 .. Len(v) + 1 /\ j \in 0 .. Len(v)
      BY <1>1, <2>2
    <3> QED
      BY <1>5, <3>1
  <2> QED
    BY <1>3, <2>1, <2>2, Zenon DEF EndsOf
<1>7. EndsOf(v, 1) \in SUBSET Nat /\ EndsOf(u, k + 1) \in SUBSET Nat
  BY <1>1 DEF EndsOf
<1>8. CASE EndsOf(v, 1) = {}
  <2>1. EndsOf(u, k + 1) = {}
    <3>1. ASSUME NEW m \in EndsOf(u, k + 1) PROVE FALSE
      <4>1. m \in Nat /\ m - k \in Int /\ k + (m - k) = m
        BY <1>7
      <4>2. m - k \in EndsOf(v, 1)
        BY <1>6, <4>1
      <4> QED
        BY <1>8, <4>2
    <3> QED
      BY <3>1
  <2>2. HasNone(u) /\ HasNone(v)
    BY <1>2, <1>4, <1>8, <2>1 DEF HasNone
  <2> QED
    BY <1>1, <1>2, <1>3, <1>4, <2>2, FramedUnfolds, MalformedUnfolds
<1>9. CASE EndsOf(v, 1) # {}
  <2> DEFINE m == Min(EndsOf(v, 1))
             n == Min(EndsOf(u, k + 1))
  <2>1. m \in EndsOf(v, 1) /\ m \in Nat /\ \A j \in EndsOf(v, 1) : m <= j
    BY <1>7, <1>9, MinIn
  <2> HIDE DEF m
  <2>2. k + m \in EndsOf(u, k + 1)
    BY <1>6, <2>1
  <2>3. n \in EndsOf(u, k + 1) /\ n \in Nat /\ \A j \in EndsOf(u, k + 1) : n <= j
    BY <1>7, <2>2, MinIn
  <2> HIDE DEF n
  <2>4. n - k \in EndsOf(v, 1)
    <3>1. n - k \in Int /\ k + (n - k) = n
      BY <2>3
    <3> QED
      BY <1>6, <2>3, <3>1
  <2>5. n <= k + m /\ m <= n - k
    BY <2>1, <2>2, <2>3, <2>4
  <2>6. n = k + m
    BY <2>1, <2>3, <2>5
  <2>7. m \in 1 .. Len(v)
    BY <2>1 DEF EndsOf
  <2>8. /\ ~HasNone(u) /\ ~HasNone(v)
        /\ Message(v) = SubSeq(v, 1, m) /\ After(v) = SubSeq(v, m + 1, Len(v))
        /\ Message(u) = SubSeq(u, k + 1, k + m) /\ After(u) = SubSeq(u, k + m + 1, Len(u))
    BY <1>2, <1>3, <1>4, <1>9, <2>2, <2>6 DEF HasNone, Message, After, m, n
  <2>9. Message(u) = Message(v)
    <3>1. 1 \in 1 .. Len(v) + 1 /\ m \in 0 .. Len(v)
      BY <1>1, <2>7
    <3> QED
      BY <1>5, <2>8, <3>1
  <2>10. After(u) = After(v)
    <3>1. m + 1 \in 1 .. Len(v) + 1 /\ Len(v) \in 0 .. Len(v)
      BY <1>1, <2>7
    <3>2. SubSeq(u, k + (m + 1), k + Len(v)) = SubSeq(v, m + 1, Len(v))
      BY <1>5, <3>1
    <3>3. k + (m + 1) = k + m + 1 /\ k + Len(v) = Len(u)
      BY <1>1, <2>1
    <3> QED
      BY <2>8, <3>2, <3>3
  <2> QED
    BY <1>1, <2>8, <2>9, <2>10, FramedUnfolds, MalformedUnfolds
<1> QED
  BY <1>8, <1>9

-----------------------------------------------------------------------------
(* What the analysis has found out.                                        *)

\* ... is the only one.
LEMMA ShiftedIsRest ==
    ASSUME NEW u \in Bytes, NEW v \in Bytes, NEW k \in Nat, k <= Len(u), Shifted(v, u, k)
    PROVE  v = SubSeq(u, k + 1, Len(u))
<1> DEFINE w == SubSeq(u, k + 1, Len(u))
<1>1. w \in Bytes /\ Shifted(w, u, k)
  BY RestShifted
<1> HIDE DEF w
<1>2. Len(v) = Len(w) /\ \A i \in 1 .. Len(v) : v[i] = w[i]
  BY <1>1 DEF Shifted
<1>3. v = w
  BY <1>1, <1>2, SeqEqual DEF Bytes
<1> QED
  BY <1>3 DEF w

\* It stays so when both are prolonged.
LEMMA ShiftedLonger ==
    ASSUME NEW u \in Bytes, NEW v \in Bytes, NEW t \in Bytes, NEW k \in Nat, k <= Len(u),
           Shifted(v, u, k)
    PROVE  /\ u \o t \in Bytes /\ v \o t \in Bytes /\ k <= Len(u \o t)
           /\ Shifted(v \o t, u \o t, k)
<1> DEFINE uu == u \o t
           vv == v \o t
<1>1. /\ Len(u) \in Nat /\ Len(v) \in Nat /\ Len(t) \in Nat
      /\ Len(v) = Len(u) - k /\ \A i \in 1 .. Len(v) : v[i] = u[k + i]
  BY DEF Bytes, Shifted
<1>2. /\ uu \in Bytes /\ Len(uu) = Len(u) + Len(t)
      /\ \A i \in 1 .. Len(u) + Len(t) : uu[i] = IF i <= Len(u) THEN u[i] ELSE t[i - Len(u)]
  BY ConcatProperties DEF Bytes
<1>3. /\ vv \in Bytes /\ Len(vv) = Len(v) + Len(t)
      /\ \A i \in 1 .. Len(v) + Len(t) : vv[i] = IF i <= Len(v) THEN v[i] ELSE t[i - Len(v)]
  BY ConcatProperties DEF Bytes
<1> HIDE DEF uu, vv
<1>4. ASSUME NEW i \in 1 .. Len(vv) PROVE vv[i] = uu[k + i]
  <2>1. k + i \in 1 .. Len(u) + Len(t) /\ i \in 1 .. Len(v) + Len(t)
    BY <1>1, <1>3
  <2>2. CASE i <= Len(v)
    <3>1. i \in 1 .. Len(v) /\ k + i <= Len(u)
      BY <1>1, <2>1, <2>2
    <3> QED
      BY <1>1, <1>2, <1>3, <2>1, <2>2, <3>1
  <2>3. CASE ~(i <= Len(v))
    <3>1. ~(k + i <= Len(u)) /\ k + i - Len(u) = i - Len(v)
      BY <1>1, <2>1, <2>3
    <3>2. uu[k + i] = t[k + i - Len(u)] /\ vv[i] = t[i - Len(v)]
      BY <1>2, <1>3, <2>1, <2>3, <3>1
    <3> QED
      BY <3>1, <3>2
  <2> QED
    BY <2>2, <2>3
<1>5. Len(vv) = Len(uu) - k /\ k <= Len(uu)
  BY <1>1, <1>2, <1>3
<1>6. Shifted(vv, uu, k)
  BY <1>4, <1>5 DEF Shifted
<1> QED
  BY <1>2, <1>3, <1>5, <1>6 DEF uu, vv

\* The rest of one rest is another.
LEMMA ShiftedTwice ==
    ASSUME NEW u \in Bytes, NEW v \in Bytes, NEW w \in Bytes, NEW k \in Nat, NEW l \in Nat,
           k <= l, l <= Len(u), Shifted(v, u, k), Shifted(w, u, l)
    PROVE  Shifted(w, v, l - k)
<1>1. /\ Len(u) \in Nat /\ Len(v) = Len(u) - k /\ Len(w) = Len(u) - l
      /\ \A i \in 1 .. Len(v) : v[i] = u[k + i]
      /\ \A i \in 1 .. Len(w) : w[i] = u[l + i]
  BY DEF Bytes, Shifted
<1>2. ASSUME NEW i \in 1 .. Len(w) PROVE w[i] = v[(l - k) + i]
  <2> DEFINE j == (l - k) + i
  <2>1. j \in 1 .. Len(v) /\ k + j = l + i
    BY <1>1
  <2>2. v[j] = u[k + j] /\ w[i] = u[l + i]
    <3> HIDE DEF j
    <3> QED
      BY <1>1, <2>1
  <2> QED
    BY <2>1, <2>2
<1>3. Len(w) = Len(v) - (l - k)
  BY <1>1
<1> QED
  BY <1>2, <1>3 DEF Shifted

\* The first k bytes of u were looked at.
Looked(u, k, state, depth) ==
    /\ k \in Nat /\ k <= Len(u)
    /\ state = "start" => Spaces(u, k)
    /\ state \in {"object", "array", "done"} =>
         /\ 1 <= k /\ u[1] \in Openers /\ Excess(u, k) = depth
         /\ \A j \in 1 .. k - 1 : Excess(u, j) > 0
    /\ state \in {"object", "array"} => state = Kind(u[1])
    /\ state = "bad" => k < Len(u) /\ Spaces(u, k) /\ u[k + 1] \notin Openers \union {Space}

\* What the analysis has found out is not changed by what follows.
LEMMA LookedLonger ==
    ASSUME NEW u \in Bytes, NEW t \in Bytes, NEW k, NEW state, NEW depth,
           Looked(u, k, state, depth)
    PROVE  Looked(u \o t, k, state, depth)
<1> DEFINE uu == u \o t
<1>1. Len(u) \in Nat /\ Len(t) \in Nat /\ k \in Nat /\ k <= Len(u)
  BY DEF Looked, Bytes
<1>2. /\ uu \in Bytes /\ Len(uu) = Len(u) + Len(t)
      /\ \A i \in 1 .. Len(u) + Len(t) : uu[i] = IF i <= Len(u) THEN u[i] ELSE t[i - Len(u)]
  BY ConcatProperties DEF Bytes
<1> HIDE DEF uu
<1>3. \A i \in 1 .. Len(u) : uu[i] = u[i]
  BY <1>1, <1>2
<1>4. Spaces(u, k) => Spaces(uu, k)
  BY <1>1, <1>3 DEF Spaces
<1>5. ASSUME NEW j \in 1 .. Len(u) PROVE Excess(uu, j) = Excess(u, j)
  <2>1. j <= Len(uu) /\ \A i \in 1 .. j : uu[i] = u[i]
    BY <1>1, <1>2, <1>3
  <2> QED
    BY <1>2, <2>1, ExcessPrefix
<1>6. ASSUME 1 <= k
      PROVE  /\ uu[1] = u[1] /\ Excess(uu, k) = Excess(u, k)
             /\ \A j \in 1 .. k - 1 : Excess(uu, j) = Excess(u, j)
  <2>1. 1 \in 1 .. Len(u) /\ k \in 1 .. Len(u) /\ \A j \in 1 .. k - 1 : j \in 1 .. Len(u)
    BY <1>1, <1>6
  <2> QED
    BY <1>3, <1>5, <2>1
<1>7. ASSUME k < Len(u) PROVE k < Len(uu) /\ uu[k + 1] = u[k + 1]
  <2>1. k + 1 \in 1 .. Len(u)
    BY <1>1, <1>7
  <2> QED
    BY <1>1, <1>2, <1>3, <1>7, <2>1
<1>8. k <= Len(uu)
  BY <1>1, <1>2
<1>9. Looked(uu, k, state, depth)
  BY <1>1, <1>4, <1>6, <1>7, <1>8 DEF Looked
<1> QED
  BY <1>9 DEF uu

\* The end of what has come.
LEMMA FramedAtEnd ==
    ASSUME NEW u \in Bytes, NEW k, NEW state, NEW depth \in Nat,
           Looked(u, k, state, depth),
           \/ state \in {"start", "object", "array"} /\ k = Len(u)
           \/ state = "bad",
           depth > 0 <=> state \in {"object", "array"}
    PROVE  Framed[u] = <<>> /\ Malformed[u] = (state = "bad")
<1>1. Len(u) \in Nat /\ k \in Nat
  BY DEF Looked, Bytes
<1>2. CASE state = "start"
  <2>1. Spaces(u, Len(u))
    BY <1>2 DEF Looked
  <2> QED
    BY <1>2, <2>1, FramedSpaces
<1>3. CASE state \in {"object", "array"}
  <2>1. /\ k = Len(u) /\ 1 <= k /\ u[1] \in Openers /\ Excess(u, k) > 0
        /\ \A j \in 1 .. k - 1 : Excess(u, j) > 0
    BY <1>3 DEF Looked
  <2>2. u # <<>> /\ \A j \in 1 .. Len(u) : Excess(u, j) > 0
    <3>1. \A j \in 1 .. Len(u) : j = k \/ j \in 1 .. k - 1
      BY <1>1, <2>1
    <3>2. u # <<>>
      BY <2>1
    <3> QED
      BY <2>1, <3>1, <3>2
  <2> QED
    BY <1>3, <2>1, <2>2, FramedOpen
<1>4. CASE state = "bad"
  <2>1. k < Len(u) /\ Spaces(u, k) /\ u[k + 1] \notin Openers \union {Space}
    BY <1>4 DEF Looked
  <2> QED
    BY <1>1, <1>4, <2>1, FramedBad
<1> QED
  BY <1>2, <1>3, <1>4

\* A message that is found, before v.
LEMMA FramedFound ==
    ASSUME NEW u \in Bytes, NEW v \in Bytes, NEW k, Looked(u, k, "done", 0),
           Shifted(v, u, k), NEW t \in Bytes
    PROVE  /\ Framed[u \o t] = <<SubSeq(u, 1, k)>> \o Framed[v \o t]
           /\ Malformed[u \o t] = Malformed[v \o t]
<1> DEFINE uu == u \o t
           vv == v \o t
<1>1. Looked(uu, k, "done", 0)
  BY LookedLonger
<1>2. k \in Nat /\ k <= Len(u) /\ 1 <= k /\ Len(u) \in Nat
  BY DEF Looked, Bytes
<1>3. uu \in Bytes /\ vv \in Bytes /\ k <= Len(uu) /\ Shifted(vv, uu, k)
  BY <1>2, ShiftedLonger
<1>4. SubSeq(uu, 1, k) = SubSeq(u, 1, k)
  <2>1. 1 \in 1 .. Len(u) /\ k \in 1 .. Len(u)
    BY <1>2
  <2> QED
    BY <2>1, SubSeqOfConcat1 DEF Bytes
<1> HIDE DEF uu, vv
<1>5. vv = SubSeq(uu, k + 1, Len(uu))
  BY <1>2, <1>3, ShiftedIsRest
<1>6. /\ k \in 1 .. Len(uu) /\ uu[1] \in Openers /\ Excess(uu, k) = 0
      /\ \A j \in 1 .. k - 1 : Excess(uu, j) > 0
  <2>1. Len(uu) \in Nat
    BY <1>3 DEF Bytes
  <2> QED
    BY <1>1, <1>2, <1>3, <2>1 DEF Looked
<1>7. /\ Framed[uu] = <<SubSeq(uu, 1, k)>> \o Framed[SubSeq(uu, k + 1, Len(uu))]
      /\ Malformed[uu] = Malformed[SubSeq(uu, k + 1, Len(uu))]
  BY <1>3, <1>6, FramedMessage
<1> QED
  BY <1>4, <1>5, <1>7 DEF uu, vv

\* Space that is skipped, before v.
LEMMA FramedSkipped ==
    ASSUME NEW u \in Bytes, NEW v \in Bytes, NEW k \in Nat, k < Len(u), Spaces(u, k),
           u[k + 1] \in Openers, Shifted(v, u, k), NEW t \in Bytes
    PROVE  Framed[u \o t] = Framed[v \o t] /\ Malformed[u \o t] = Malformed[v \o t]
<1> DEFINE uu == u \o t
           vv == v \o t
<1>1. Len(u) \in Nat /\ Len(t) \in Nat
  BY DEF Bytes
<1>2. uu \in Bytes /\ vv \in Bytes /\ k <= Len(uu) /\ Shifted(vv, uu, k)
  <2>1. k <= Len(u)
    BY <1>1
  <2> QED
    BY <2>1, ShiftedLonger
<1>3. /\ Len(uu) = Len(u) + Len(t)
      /\ \A i \in 1 .. Len(u) + Len(t) : uu[i] = IF i <= Len(u) THEN u[i] ELSE t[i - Len(u)]
  BY ConcatProperties DEF Bytes
<1> HIDE DEF uu, vv
<1>4. k < Len(uu) /\ uu[k + 1] \in Openers /\ Spaces(uu, k)
  <2>1. k + 1 \in 1 .. Len(u) /\ \A i \in 1 .. k : i \in 1 .. Len(u)
    BY <1>1
  <2>2. \A i \in 1 .. Len(u) : uu[i] = u[i]
    BY <1>1, <1>3
  <2>3. k < Len(uu)
    BY <1>1, <1>3
  <2> QED
    BY <2>1, <2>2, <2>3 DEF Spaces
<1>5. Framed[uu] = Framed[vv] /\ Malformed[uu] = Malformed[vv]
  BY <1>2, <1>4, FramedAfterSpaces
<1> QED
  BY <1>5 DEF uu, vv

\* The bytes of the context from the message on that is looked for.
Pending(c) == SubSeq(c.bytes, c.start + 1, Len(c.bytes))

Analysed(c) == Looked(Pending(c), c.index - c.start, c.state, c.depth)

\* The types and bounds of the places in a context.
LEMMA PendingType ==
    ASSUME NEW c \in Contexts, Bounded(c)
    PROVE  /\ c.bytes \in Bytes /\ Len(c.bytes) \in Nat /\ c.start \in Nat /\ c.index \in Nat
           /\ c.depth \in Nat /\ c.start <= c.index /\ c.index <= Len(c.bytes)
           /\ Pending(c) \in Bytes /\ Shifted(Pending(c), c.bytes, c.start)
           /\ Len(Pending(c)) = Len(c.bytes) - c.start
<1>1. /\ c.bytes \in Bytes /\ Len(c.bytes) \in Nat /\ c.start \in Nat /\ c.index \in Nat
      /\ c.depth \in Nat /\ c.start <= c.index /\ c.index <= Len(c.bytes)
      /\ c.start <= Len(c.bytes)
  BY DEF Bounded, Contexts, Bytes
<1>2. Pending(c) \in Bytes /\ Shifted(Pending(c), c.bytes, c.start)
  BY <1>1, RestShifted DEF Pending
<1> QED
  BY <1>1, <1>2 DEF Shifted

\* merge prolongs what is pending, and what was looked at stays so.
LEMMA MergedAnalysed ==
    ASSUME NEW c \in Contexts, Bounded(c), Analysed(c), NEW packets \in Seq(Bytes),
           NEW m \in Contexts, Bounded(m), ~m.overflow,
           m.index = c.index, m.state = c.state, m.depth = c.depth, m.start = c.start,
           m.bytes = c.bytes \o FlattenSeq(packets)
    PROVE  Pending(m) = Pending(c) \o FlattenSeq(packets) /\ Analysed(m)
<1> DEFINE flat == FlattenSeq(packets)
           u == Pending(c)
           v == Pending(m)
<1>1. /\ c.bytes \in Bytes /\ c.start \in Nat /\ c.start <= Len(c.bytes)
      /\ u \in Bytes /\ Shifted(u, c.bytes, c.start)
  <2>1. Len(c.bytes) \in Nat /\ c.index \in Nat /\ c.start <= c.index /\ c.index <= Len(c.bytes)
    BY PendingType
  <2> QED
    BY <2>1, PendingType
<1>2. flat \in Bytes
  BY FlattenType DEF Bytes
<1>3. v \in Bytes /\ v = SubSeq(m.bytes, c.start + 1, Len(m.bytes))
  BY PendingType DEF Pending
<1> HIDE DEF flat, u, v
<1>4. /\ c.bytes \o flat \in Bytes /\ u \o flat \in Bytes /\ c.start <= Len(c.bytes \o flat)
      /\ Shifted(u \o flat, c.bytes \o flat, c.start)
  BY <1>1, <1>2, ShiftedLonger
<1>5. u \o flat = SubSeq(m.bytes, c.start + 1, Len(m.bytes))
  BY <1>1, <1>4, ShiftedIsRest DEF flat
<1>6. v = u \o flat
  BY <1>3, <1>5
<1>7. Looked(u \o flat, c.index - c.start, c.state, c.depth)
  BY <1>1, <1>2, LookedLonger DEF Analysed, u
<1> QED
  BY <1>6, <1>7 DEF Analysed, u, v, flat

\* One look of the analysis: no message of what is pending is lost or made.
LEMMA ScannedAnalysed ==
    ASSUME NEW c \in Contexts, Bounded(c), Analysed(c), ~Ended(c), ~AtEnd(c),
           NEW d \in Contexts, d = Scanned(c), Bounded(d)
    PROVE  /\ Analysed(d)
           /\ \A t \in Bytes : /\ Framed[Pending(c) \o t] = Framed[Pending(d) \o t]
                               /\ Malformed[Pending(c) \o t] = Malformed[Pending(d) \o t]
<1> DEFINE u == Pending(c)
           v == Pending(d)
           k == c.index - c.start
           b == c.bytes[c.index + 1]
<1>1. /\ c.bytes \in Bytes /\ Len(c.bytes) \in Nat /\ c.start \in Nat /\ c.index \in Nat
      /\ c.depth \in Nat /\ c.start <= c.index
      /\ u \in Bytes /\ Shifted(u, c.bytes, c.start) /\ Len(u) = Len(c.bytes) - c.start
  BY PendingType
<1>2. c.index < Len(c.bytes)
  BY <1>1 DEF AtEnd
<1>3. v \in Bytes /\ Shifted(v, d.bytes, d.start)
  BY PendingType
<1>4. d.bytes = c.bytes
  BY ScannedFields
<1>5. Looked(u, k, c.state, c.depth)
  BY DEF Analysed
<1>6. k \in Nat /\ k < Len(u) /\ k + 1 <= Len(u) /\ u[k + 1] = b
  <2>1. k \in Nat /\ k < Len(u) /\ k + 1 \in 1 .. Len(u) /\ c.start + (k + 1) = c.index + 1
    BY <1>1, <1>2
  <2>2. u[k + 1] = c.bytes[c.start + (k + 1)]
    <3> HIDE DEF u, k
    <3> QED
      BY <1>1, <2>1 DEF Shifted
  <2> QED
    BY <2>1, <2>2
<1>7. ASSUME d.start = c.start PROVE v = u
  BY <1>4, <1>7 DEF Pending
<1>8. CASE c.state = "start" /\ b = Space
  <2>1. d.state = "start" /\ d.start = c.start /\ d.index = c.index + 1 /\ d.depth = 0
    BY <1>8, ScannedFields, Zenon
  <2>2. v = u /\ d.index - d.start = k + 1
    BY <1>1, <1>7, <2>1
  <2> HIDE DEF u, v, k, b
  <2>3. Spaces(u, k + 1)
    <3>1. Spaces(u, k)
      BY <1>5, <1>8 DEF Looked
    <3>2. \A i \in 1 .. k + 1 : i = k + 1 \/ i \in 1 .. k
      BY <1>6
    <3> QED
      BY <1>6, <1>8, <3>1, <3>2 DEF Spaces
  <2>4. Looked(u, k + 1, "start", 0)
    BY <1>6, <2>3 DEF Looked
  <2> QED
    BY <2>1, <2>2, <2>4 DEF Analysed, u, v
<1>9. CASE c.state = "start" /\ b \in Openers
  <2>1. d.state = Kind(b) /\ d.start = c.index /\ d.index = c.index + 1 /\ d.depth = 1
    BY <1>9, ScannedFields, Zenon
  <2>2. Shifted(v, u, k)
    <3>1. c.start <= c.index /\ c.index <= Len(c.bytes) /\ Shifted(v, c.bytes, c.index)
      BY <1>1, <1>2, <1>3, <1>4, <2>1
    <3> HIDE DEF u, v
    <3> QED
      BY <1>1, <1>3, <3>1, ShiftedTwice
  <2>3. d.index - d.start = 1
    BY <1>1, <2>1
  <2> HIDE DEF u, v, k, b
  <2>4. 1 <= Len(v) /\ v[1] = b
    <3>1. Len(v) = Len(u) - k /\ 1 \in 1 .. Len(v)
      BY <1>1, <1>6, <2>2 DEF Shifted
    <3>2. v[1] = u[k + 1]
      BY <2>2, <3>1 DEF Shifted
    <3> QED
      BY <1>6, <3>1, <3>2
  <2>5. Excess(v, 1) = 1
    BY <1>9, <2>4, ExcessNext
  <2>6. Looked(v, 1, Kind(b), 1)
    <3>1. Kind(b) # "start" /\ Kind(b) # "bad" /\ Kind(b) # "done"
      BY DEF Kind
    <3> QED
      BY <1>9, <2>4, <2>5, <3>1 DEF Looked
  <2>7. Spaces(u, k) /\ u[k + 1] \in Openers
    BY <1>5, <1>6, <1>9 DEF Looked
  <2>8. \A t \in Bytes : /\ Framed[u \o t] = Framed[v \o t]
                         /\ Malformed[u \o t] = Malformed[v \o t]
    BY <1>1, <1>3, <1>6, <2>2, <2>7, FramedSkipped
  <2> QED
    BY <2>1, <2>3, <2>6, <2>8 DEF Analysed, u, v
<1>10. CASE c.state = "start" /\ b \notin Openers \union {Space}
  <2>1. d.state = "bad" /\ d.start = c.start /\ d.index = c.index /\ d.depth = 0
    BY <1>10, ScannedFields, Zenon
  <2>2. v = u /\ d.index - d.start = k
    BY <1>7, <2>1
  <2> HIDE DEF u, v, k, b
  <2>3. Spaces(u, k)
    BY <1>5, <1>10 DEF Looked
  <2>4. Looked(u, k, "bad", 0)
    BY <1>5, <1>6, <1>10, <2>3 DEF Looked
  <2> QED
    BY <2>1, <2>2, <2>4 DEF Analysed, u, v
<1>11. CASE c.state # "start"
  <2>0. d.start = c.start /\ d.index = c.index + 1
    BY <1>11, ScannedFields, Zenon
  <2>2. v = u /\ d.index - d.start = k + 1
    <3>1. v = u
      BY <1>7, <2>0
    <3>2. \A x, y, z, e \in Nat : x = y /\ z = e + 1 => z - x = e - y + 1
      OBVIOUS
    <3>3. d.start \in Nat /\ d.index \in Nat
      BY DEF Contexts
    <3>4. d.index - d.start = c.index - c.start + 1
      BY <1>1, <2>0, <3>2, <3>3
    <3> QED
      BY <3>1, <3>4
  <2> DEFINE open == IF c.state = "object" THEN "{" ELSE "["
  <2>1. /\ c.state \in {"object", "array"} /\ c.depth > 0
        /\ d.start = c.start /\ d.index = c.index + 1
        /\ d.depth = IF b = open THEN c.depth + 1
                     ELSE IF b = Closer(open) THEN c.depth - 1 ELSE c.depth
        /\ d.state = IF d.depth = 0 THEN "done" ELSE c.state
    BY <1>11, ScannedFields, Zenon
  <2>3. d.depth \in Nat
    BY DEF Contexts
  <2>4. /\ 1 <= k /\ u[1] \in Openers /\ Excess(u, k) = c.depth
        /\ \A j \in 1 .. k - 1 : Excess(u, j) > 0
        /\ c.state = Kind(u[1])
    <3> HIDE DEF u, k
    <3> QED
      BY <1>5, <2>1 DEF Looked
  <2>5. open = u[1]
    <3> HIDE DEF u
    <3>1. c.state = Kind(u[1]) /\ u[1] \in {"{", "["}
      BY <2>4 DEF Openers
    <3> QED
      BY <3>1, Zenon DEF Kind
  <2> HIDE DEF u, v, k, b, open
  <2>6. Excess(u, k + 1) = d.depth
    <3>1. Excess(u, k + 1) = IF u[k + 1] = u[1] THEN Excess(u, k) + 1
                             ELSE IF u[k + 1] = Closer(u[1]) THEN Excess(u, k) - 1
                             ELSE Excess(u, k)
      BY <1>6, <2>4, ExcessNext
    <3> QED
      BY <1>6, <2>1, <2>4, <2>5, <3>1
  <2>7. \A j \in 1 .. (k + 1) - 1 : Excess(u, j) > 0
    <3>1. Excess(u, k) > 0
      BY <2>1, <2>4
    <3>2. \A j \in 1 .. (k + 1) - 1 : j = k \/ j \in 1 .. k - 1
      BY <1>6
    <3> QED
      BY <2>4, <3>1, <3>2
  <2>8. d.state \in {c.state, "done"} /\ d.state # "start" /\ d.state # "bad"
    BY <2>1
  <2>9. Looked(u, k + 1, d.state, d.depth)
    <3>1. k + 1 \in Nat /\ k + 1 <= Len(u) /\ 1 <= k + 1
      BY <1>6
    <3>2. d.state \in {"object", "array"} => d.state = Kind(u[1])
      BY <2>1, <2>4
    <3> QED
      BY <2>4, <2>6, <2>7, <2>8, <3>1, <3>2 DEF Looked
  <2> QED
    BY <2>2, <2>9 DEF Analysed, u, v
<1> QED
  <2> HIDE DEF b, u, v, k
  <2> QED
    BY <1>8, <1>9, <1>10, <1>11

\* The message that was found is what stands before the place of the analysis.
LEMMA ContentIsPrefix ==
    ASSUME NEW c \in Contexts, Bounded(c)
    PROVE  SubSeq(Pending(c), 1, c.index - c.start) = Content(c)
<1> DEFINE u == Pending(c)
           k == c.index - c.start
           p == SubSeq(u, 1, k)
           q == SubSeq(c.bytes, c.start + 1, c.index)
<1>1. /\ c.bytes \in Bytes /\ Len(c.bytes) \in Nat /\ c.start \in Nat /\ c.index \in Nat
      /\ c.depth \in Nat /\ c.start <= c.index /\ c.index <= Len(c.bytes)
      /\ u \in Bytes /\ Shifted(u, c.bytes, c.start) /\ Len(u) = Len(c.bytes) - c.start
  BY PendingType
<1> HIDE DEF u
<1>2. /\ k \in Nat /\ k <= Len(u) /\ 1 \in Nat \ {0} /\ c.start + 1 \in Nat \ {0}
      /\ c.index \in Nat
  BY <1>1
<1>3. /\ p \in Bytes /\ Len(p) = (IF 1 <= k THEN k - 1 + 1 ELSE 0)
      /\ \A n \in 1 .. k - 1 + 1 : p[n] = u[1 + n - 1]
  <2> HIDE DEF k
  <2> QED
    BY <1>1, <1>2, PartOfBytes
<1>4. /\ q \in Bytes
      /\ Len(q) = (IF c.start + 1 <= c.index THEN c.index - (c.start + 1) + 1 ELSE 0)
      /\ \A n \in 1 .. c.index - (c.start + 1) + 1 : q[n] = c.bytes[c.start + 1 + n - 1]
  <2> DEFINE from == c.start + 1
             to == c.index
             B == c.bytes
  <2>1. B \in Bytes /\ from \in Nat \ {0} /\ to \in Nat /\ to <= Len(B)
    BY <1>1, <1>2
  <2> HIDE DEF from, to, B
  <2>2. /\ SubSeq(B, from, to) \in Bytes
        /\ Len(SubSeq(B, from, to)) = (IF from <= to THEN to - from + 1 ELSE 0)
        /\ \A n \in 1 .. to - from + 1 : SubSeq(B, from, to)[n] = B[from + n - 1]
    BY <2>1, PartOfBytes
  <2> QED
    BY <2>2 DEF from, to, B
<1>5. \A i \in 1 .. Len(u) : u[i] = c.bytes[c.start + i]
  BY <1>1 DEF Shifted
<1> HIDE DEF p, q
<1>6. Len(p) = Len(q) /\ Len(p) = k
  <2> DEFINE a == c.index
             b == c.start
  <2>1. a \in Nat /\ b \in Nat /\ b <= a /\ k = a - b
    BY <1>1
  <2>2. Len(p) = (IF 1 <= k THEN k - 1 + 1 ELSE 0)
    BY <1>3
  <2>3. Len(q) = (IF b + 1 <= a THEN a - (b + 1) + 1 ELSE 0)
    BY <1>4
  <2> HIDE DEF a, b, k
  <2>4. Len(p) = k
    BY <2>1, <2>2
  <2>5. Len(q) = a - b
    BY <2>1, <2>3
  <2> QED
    BY <2>1, <2>4, <2>5
<1>7. ASSUME NEW n \in 1 .. Len(p) PROVE p[n] = q[n]
  <2>1. n \in 1 .. Len(u) /\ n \in 1 .. k - 1 + 1 /\ n \in 1 .. c.index - (c.start + 1) + 1
    BY <1>1, <1>2, <1>6
  <2>2. p[n] = u[n]
    <3>1. p[n] = u[1 + n - 1]
      BY <1>3, <2>1
    <3>2. 1 + n - 1 = n
      BY <2>1
    <3> QED
      BY <3>1, <3>2
  <2>3. q[n] = c.bytes[c.start + n]
    <3>1. q[n] = c.bytes[c.start + 1 + n - 1]
      BY <1>4, <2>1
    <3>2. c.start + 1 + n - 1 = c.start + n
      BY <1>1, <2>1
    <3> QED
      BY <3>1, <3>2
  <2> QED
    BY <1>5, <2>1, <2>2, <2>3
<1>8. p = q
  BY <1>3, <1>4, <1>6, <1>7, SeqEqual DEF Bytes
<1> QED
  BY <1>8 DEF Content, p, q, u

\* restart takes the message that was found, and leaves the others.
LEMMA RestartedAnalysed ==
    ASSUME NEW c \in Contexts, Bounded(c), Analysed(c), c.state = "done",
           NEW d \in Contexts, d = Restarted(c), Bounded(d)
    PROVE  /\ Analysed(d)
           /\ \A t \in Bytes :
                /\ Framed[Pending(c) \o t] = <<Content(c)>> \o Framed[Pending(d) \o t]
                /\ Malformed[Pending(c) \o t] = Malformed[Pending(d) \o t]
<1> DEFINE u == Pending(c)
           v == Pending(d)
           k == c.index - c.start
<1>1. /\ c.bytes \in Bytes /\ Len(c.bytes) \in Nat /\ c.start \in Nat /\ c.index \in Nat
      /\ c.depth \in Nat /\ c.start <= c.index /\ c.index <= Len(c.bytes)
      /\ u \in Bytes /\ Shifted(u, c.bytes, c.start) /\ Len(u) = Len(c.bytes) - c.start
  BY PendingType
<1>2. /\ v \in Bytes /\ Shifted(v, d.bytes, d.start)
  BY PendingType
<1>3. /\ d.bytes = c.bytes /\ d.index = c.index /\ d.start = c.index
      /\ d.state = "start" /\ d.depth = 0
  BY RestartedFields
<1>4. Looked(u, k, "done", 0)
  <2>1. c.depth = 0
    BY <1>1 DEF Bounded
  <2> QED
    BY <2>1 DEF Analysed
<1>5. Shifted(v, u, k)
  <2>1. Shifted(v, c.bytes, c.index)
    BY <1>2, <1>3
  <2> HIDE DEF u, v
  <2> QED
    BY <1>1, <1>2, <2>1, ShiftedTwice
<1>6. SubSeq(u, 1, k) = Content(c)
  BY ContentIsPrefix
<1>7. \A t \in Bytes : /\ Framed[u \o t] = <<SubSeq(u, 1, k)>> \o Framed[v \o t]
                       /\ Malformed[u \o t] = Malformed[v \o t]
  <2> HIDE DEF u, v, k
  <2> QED
    BY <1>1, <1>2, <1>4, <1>5, FramedFound
<1>8. Looked(v, 0, "start", 0)
  <2>1. Len(v) \in Nat
    BY <1>2 DEF Bytes
  <2> HIDE DEF v
  <2> QED
    BY <2>1 DEF Looked, Spaces
<1>9. d.index - d.start = 0
  BY <1>1, <1>3
<1> QED
  BY <1>3, <1>6, <1>7, <1>8, <1>9 DEF Analysed

\* clear leaves all that is pending, and what was looked at.
LEMMA ClearedAnalysed ==
    ASSUME NEW c \in Contexts, Bounded(c), Analysed(c), c.state # "done",
           NEW d \in Contexts, d = Cleared(c), Bounded(d)
    PROVE  Analysed(d) /\ Pending(d) = Pending(c)
<1>1. CASE c.state = "bad"
  <2>1. d = c
    BY <1>1, ClearedFields
  <2> QED
    BY <2>1
<1>2. CASE c.state # "bad"
  <2>1. /\ d.bytes = Rest(c, c.start) /\ d.index = c.index - c.start /\ d.start = 0
        /\ d.state = c.state /\ d.depth = c.depth
    BY <1>2, ClearedFields
  <2>2. d.bytes \in Bytes /\ d.index \in Nat
    BY PendingType
  <2>3. Pending(d) = d.bytes
    <3>1. SubSeq(d.bytes, 1, Len(d.bytes)) = d.bytes
      BY <2>2, SubSeqFull DEF Bytes
    <3>2. 0 + 1 = 1
      OBVIOUS
    <3> QED
      BY <2>1, <3>1, <3>2 DEF Pending
  <2>4. Pending(d) = Pending(c)
    BY <2>1, <2>3 DEF Pending, Rest
  <2>5. d.index - d.start = c.index - c.start
    BY <2>1, <2>2
  <2> QED
    BY <2>1, <2>4, <2>5 DEF Analysed
<1> QED
  BY <1>1, <1>2
-----------------------------------------------------------------------------
(* MessagesInOrder.                                                        *)

\* Whatever follows, the messages of s are those of h and then those of d: d is
\* what is left of s when h was handled.
Ahead(s, h, d) ==
    \A t \in Bytes : /\ Framed[s \o t] = h \o Framed[d \o t]
                     /\ Malformed[s \o t] = Malformed[d \o t]

\* Bytes are appended in any order.
LEMMA BytesAssociative ==
    ASSUME NEW a \in Bytes, NEW b \in Bytes, NEW c \in Bytes
    PROVE  (a \o b) \o c = a \o (b \o c)
<1>1. a \in Seq(STRING) /\ b \in Seq(STRING) /\ c \in Seq(STRING)
  BY DEF Bytes
<1> QED
  BY <1>1, ConcatAssociative

\* A packet prolongs both the stream and what is left of it.
LEMMA AheadLonger ==
    ASSUME NEW s \in Bytes, NEW h \in Seq(Bytes), NEW d \in Bytes, NEW p \in Bytes
    PROVE  Ahead(s, h, d) => Ahead(s \o p, h, d \o p)
<1>1. \A t \in Bytes : (s \o p) \o t = s \o (p \o t)
  BY BytesAssociative
<1>2. \A t \in Bytes : (d \o p) \o t = d \o (p \o t)
  BY BytesAssociative
<1>3. \A t \in Bytes : p \o t \in Bytes
  BY ConcatProperties DEF Bytes
<1>4. ASSUME Ahead(s, h, d), NEW t \in Bytes
      PROVE  /\ Framed[(s \o p) \o t] = h \o Framed[(d \o p) \o t]
             /\ Malformed[(s \o p) \o t] = Malformed[(d \o p) \o t]
  <2>1. /\ Framed[s \o (p \o t)] = h \o Framed[d \o (p \o t)]
        /\ Malformed[s \o (p \o t)] = Malformed[d \o (p \o t)]
    BY <1>3, <1>4 DEF Ahead
  <2>2. (s \o p) \o t = s \o (p \o t)
    BY <1>1, Zenon
  <2>3. (d \o p) \o t = d \o (p \o t)
    BY <1>2, Zenon
  <2> QED
    BY <2>1, <2>2, <2>3, Zenon
<1> QED
  BY <1>4 DEF Ahead

\* The analysis goes on from u to v, with r behind both.
LEMMA AheadSkipped ==
    ASSUME NEW s \in Bytes, NEW h \in Seq(Bytes), NEW u \in Bytes, NEW v \in Bytes,
           NEW r \in Bytes
    PROVE  /\ Ahead(s, h, u \o r)
           /\ \A t \in Bytes : /\ Framed[u \o t] = Framed[v \o t]
                               /\ Malformed[u \o t] = Malformed[v \o t]
           => Ahead(s, h, v \o r)
<1>1. \A t \in Bytes : (u \o r) \o t = u \o (r \o t)
  BY BytesAssociative
<1>2. \A t \in Bytes : (v \o r) \o t = v \o (r \o t)
  BY BytesAssociative
<1>3. \A t \in Bytes : r \o t \in Bytes
  BY ConcatProperties DEF Bytes
<1> SUFFICES ASSUME Ahead(s, h, u \o r),
                    \A t \in Bytes : /\ Framed[u \o t] = Framed[v \o t]
                                     /\ Malformed[u \o t] = Malformed[v \o t]
             PROVE  Ahead(s, h, v \o r)
  OBVIOUS
<1>4. ASSUME NEW t \in Bytes
      PROVE  /\ Framed[s \o t] = h \o Framed[(v \o r) \o t]
             /\ Malformed[s \o t] = Malformed[(v \o r) \o t]
  <2>1. /\ Framed[s \o t] = h \o Framed[(u \o r) \o t]
        /\ Malformed[s \o t] = Malformed[(u \o r) \o t]
    BY DEF Ahead
  <2>2. /\ Framed[u \o (r \o t)] = Framed[v \o (r \o t)]
        /\ Malformed[u \o (r \o t)] = Malformed[v \o (r \o t)]
    BY <1>3
  <2>3. (u \o r) \o t = u \o (r \o t)
    BY <1>1, Zenon
  <2>4. (v \o r) \o t = v \o (r \o t)
    BY <1>2, Zenon
  <2> QED
    BY <2>1, <2>2, <2>3, <2>4, Zenon
<1> QED
  BY <1>4 DEF Ahead

\* ... and past the message m, which is handled.
LEMMA AheadHandled ==
    ASSUME NEW s \in Bytes, NEW h \in Seq(Bytes), NEW u \in Bytes, NEW v \in Bytes,
           NEW r \in Bytes, NEW m \in Bytes
    PROVE  /\ Ahead(s, h, u \o r)
           /\ \A t \in Bytes : /\ Framed[u \o t] = <<m>> \o Framed[v \o t]
                               /\ Malformed[u \o t] = Malformed[v \o t]
           => Ahead(s, Append(h, m), v \o r)
<1>1. \A t \in Bytes : (u \o r) \o t = u \o (r \o t)
  BY BytesAssociative
<1>2. \A t \in Bytes : (v \o r) \o t = v \o (r \o t)
  BY BytesAssociative
<1>3. \A t \in Bytes : r \o t \in Bytes /\ v \o (r \o t) \in Bytes
  <2>1. \A a, b \in Bytes : a \o b \in Bytes
    BY ConcatProperties DEF Bytes
  <2> QED
    BY <2>1, Zenon
<1>4. <<m>> \in Seq(Bytes) /\ Append(h, m) = h \o <<m>>
  BY AppendIsConcat
<1>5. \A rest \in Seq(Bytes) : h \o (<<m>> \o rest) = Append(h, m) \o rest
  <2>1. \A rest \in Seq(Bytes) : (h \o <<m>>) \o rest = h \o (<<m>> \o rest)
    BY <1>4, ConcatAssociative
  <2> QED
    BY <1>4, <2>1, Zenon
<1> SUFFICES ASSUME Ahead(s, h, u \o r),
                    \A t \in Bytes : /\ Framed[u \o t] = <<m>> \o Framed[v \o t]
                                     /\ Malformed[u \o t] = Malformed[v \o t]
             PROVE  Ahead(s, Append(h, m), v \o r)
  OBVIOUS
<1>6. ASSUME NEW t \in Bytes
      PROVE  /\ Framed[s \o t] = Append(h, m) \o Framed[(v \o r) \o t]
             /\ Malformed[s \o t] = Malformed[(v \o r) \o t]
  <2> DEFINE rt == r \o t
  <2>1. rt \in Bytes /\ v \o rt \in Bytes
    BY <1>3, Zenon
  <2>2. (u \o r) \o t = u \o rt
    BY <1>1, Zenon
  <2>3. (v \o r) \o t = v \o rt
    BY <1>2, Zenon
  <2> HIDE DEF rt
  <2>4. /\ Framed[s \o t] = h \o Framed[(u \o r) \o t]
        /\ Malformed[s \o t] = Malformed[(u \o r) \o t]
    BY DEF Ahead
  <2>5. /\ Framed[u \o rt] = <<m>> \o Framed[v \o rt]
        /\ Malformed[u \o rt] = Malformed[v \o rt]
    BY <2>1
  <2>6. Framed[v \o rt] \in Seq(Bytes)
    BY <2>1, FramedUnfolds
  <2>7. h \o (<<m>> \o Framed[v \o rt]) = Append(h, m) \o Framed[v \o rt]
    BY <1>5, <2>6, Zenon
  <2>8. Framed[s \o t] = h \o (<<m>> \o Framed[v \o rt])
    BY <2>2, <2>4, <2>5, Zenon
  <2> QED
    BY <2>2, <2>3, <2>4, <2>5, <2>7, <2>8, Zenon
<1> QED
  BY <1>6 DEF Ahead

\* The case that nothing follows.
LEMMA AheadNow ==
    ASSUME NEW s \in Bytes, NEW h \in Seq(Bytes), NEW d \in Bytes, Ahead(s, h, d)
    PROVE  /\ Framed[s] = h \o Framed[d] /\ Malformed[s] = Malformed[d]
           /\ IsPrefix(h, Framed[s])
<1>1. s \o <<>> = s /\ d \o <<>> = d /\ <<>> \in Bytes
  BY ConcatEmptySeq, EmptySeq DEF Bytes
<1>2. Framed[s] = h \o Framed[d] /\ Malformed[s] = Malformed[d]
  <2>1. Framed[s \o <<>>] = h \o Framed[d \o <<>>] /\ Malformed[s \o <<>>] = Malformed[d \o <<>>]
    BY <1>1 DEF Ahead
  <2> QED
    BY <1>1, <2>1
<1>3. Framed[d] \in Seq(Bytes)
  BY FramedUnfolds
<1> DEFINE rest == Framed[d]
<1> HIDE DEF rest
<1>4. IsPrefix(h, h \o rest)
  <2>1. Len(h) \in Nat /\ Len(rest) \in Nat /\ Len(h \o rest) = Len(h) + Len(rest)
    BY <1>3 DEF rest
  <2>2. CASE h = <<>>
    <3>1. SubSeq(h, 1, Len(h)) = <<>> /\ SubSeq(h \o rest, 1, Len(h)) = <<>>
      BY <2>2, SubSeqEmpty
    <3> QED
      BY <2>1, <3>1 DEF IsPrefix
  <2>3. CASE h # <<>>
    <3>1. 1 \in 1 .. Len(h) /\ Len(h) \in 1 .. Len(h)
      BY <2>1, <2>3
    <3>2. SubSeq(h \o rest, 1, Len(h)) = SubSeq(h, 1, Len(h))
      BY <1>3, <3>1, SubSeqOfConcat1 DEF rest
    <3> QED
      BY <2>1, <3>2 DEF IsPrefix
  <2> QED
    BY <2>2, <2>3
<1> QED
  BY <1>2, <1>4 DEF rest


\* No task is left but what has run, and none will come.
Final == ~session /\ queued = 0 /\ \A w \in Workers : at[w] \in {"idle", "return"}

\* The bytes that no message was taken from yet.
Waiting == Pending(context) \o FlattenSeq(raw)

Idle == ~session => callback = "idle"

\* Only a task that nobody waits for leaves a message behind.
Left == \A w \in Workers : at[w] = "end" /\ context.state = "done" => Unique

Order ==
    /\ Idle
    /\ Left
    /\ ~context.overflow /\ ~Final => Analysed(context) /\ Ahead(Stream, handled, Waiting)
    /\ MessagesInOrder

\* When no task is left and none will come, nothing happens any more but that
\* workers let go of what has run.
LEMMA FinalStays ==
    ASSUME Shape, Idle, Final, [Next]_vars
    PROVE  Final' /\ UNCHANGED <<context, raw, received, handled>>
<1>1. ~session /\ callback = "idle" /\ queued = 0 /\ at \in [Workers -> Places]
  BY DEF Final, Idle, Shape, SessionTypeOK
<1>2. ~LoopThread
  BY <1>1 DEF LoopThread, Packet, PushTask, Release
<1>3. ASSUME NEW w \in Workers, Step(w) PROVE Drops(w)
  <2>1. at[w] \in {"idle", "return"}
    BY DEF Final
  <2>2. ~(queued > 0)
    BY <1>1
  <2> QED
    BY <1>3, <2>1, <2>2
       DEF Step, CommonStep, TakeTask, ReturnsAtOnce, WantsLock, Merge, Analyses,
           LocksForJson, Locks, FindsEnd, NeedsMore, Scan, Handles, Closes, Ends, Goes
<1>4. CASE UNCHANGED vars
  BY <1>4 DEF vars, sessionVars, Final
<1>5. ASSUME NEW w \in Workers, Drops(w)
      PROVE  Final' /\ UNCHANGED <<context, raw, received, handled>>
  BY <1>1, <1>5 DEF Drops, Goes, Final
<1> QED
  BY <1>2, <1>3, <1>4, <1>5 DEF Next

\* The flag is never reset.
LEMMA OverflowStays ==
    ASSUME Shape, [Next]_vars, context.overflow
    PROVE  context'.overflow
<1>1. context \in Contexts /\ Bounded(context) /\ raw \in Seq(Bytes)
  BY DEF Shape, Bounded
<1>2. CASE context' = context
  BY <1>2
<1>3. CASE context' = Merged(context, raw)
  BY <1>1, <1>3, MergedBuffer
<1>4. CASE ~Ended(context) /\ ~AtEnd(context) /\ context' = Scanned(context)
  BY <1>1, <1>4, ScannedFields
<1>5. CASE context' = Restarted(context)
  BY <1>1, <1>5, RestartedFields
<1>6. CASE context' = Cleared(context)
  BY <1>1, <1>6, ClearedFields
<1> QED
  BY <1>2, <1>3, <1>4, <1>5, <1>6, ContextStep

\* The only holder of the context is the only worker that runs a task.
LEMMA UniqueAlone ==
    ASSUME Unique, NEW w \in Workers, at[w] # "idle"
    PROVE  Running = {w} /\ \A x \in Workers \ {w} : at[x] = "idle"
<1>1. w \in Running
  BY DEF Running
<1>2. IsFiniteSet(Running)
  BY WorkersAssumption, FS_Subset DEF Running
<1>3. PICK x : Running = {x}
  BY <1>2, FS_Singleton DEF Unique
<1>4. Running = {w}
  BY <1>1, <1>3
<1> QED
  BY <1>4 DEF Running

\* A task that has come to its end is the only one past the guard, and while it
\* is the only one at all nothing but its end can follow.
LEMMA LeftStep ==
    ASSUME Shape, Idle, Left, [Next]_vars
    PROVE  Left'
<1>1. ASSUME NEW w \in Workers, at'[w] = "end", (context').state = "done"
      PROVE  Unique'
  <2>1. CASE UNCHANGED vars
    <3>1. at' = at /\ context' = context /\ session' = session /\ queued' = queued
      BY <2>1 DEF vars, sessionVars
    <3> QED
      BY <1>1, <3>1 DEF Left, Unique, Running
  <2>2. CASE LoopThread
    <3>1. at' = at /\ context' = context
      BY <2>2 DEF LoopThread, Packet, PushTask, Release
    <3>2. Unique
      BY <1>1, <3>1 DEF Left
    <3>3. ~session /\ callback = "idle"
      BY <3>2 DEF Idle, Unique
    <3> QED
      BY <2>2, <3>3 DEF LoopThread, Packet, PushTask, Release
  <2>3. ASSUME NEW x \in Workers, Step(x) PROVE Unique'
    <3>1. CASE x = w
      <4>1. \/ Goes(w, "scan", "end") /\ NeedsMore(w)
            \/ Goes(w, "found", "end") /\ Closes(w)
            \/ at[w] = "analysis" /\ at' = [at EXCEPT ![w] = "end"] /\ Unique /\ Analyses(w)
        <5>1. at \in [Workers -> Places]
          BY DEF Shape, SessionTypeOK
        <5> QED
          BY <1>1, <2>3, <3>1, <5>1
             DEF Step, CommonStep, TakeTask, ReturnsAtOnce, WantsLock, Merge, Analyses,
                 LocksForJson, Locks, FindsEnd, NeedsMore, Scan, Handles, Closes, Ends, Drops, Goes
      <4>2. context' = context /\ session' = session /\ queued' = queued
        BY <4>1 DEF NeedsMore, Closes, Analyses
      <4>3. ~NeedsMore(w)
        BY <1>1, <4>2 DEF NeedsMore, Ended
      <4>4. Unique
        BY <1>1, <4>1, <4>2, <4>3 DEF Closes
      <4>5. at[w] # "idle" /\ at' = [at EXCEPT ![w] = "end"]
        BY <4>1, <4>3 DEF Goes
      <4>6. Running' = Running
        BY <4>5 DEF Running, Shape, SessionTypeOK
      <4> QED
        BY <4>2, <4>4, <4>6 DEF Unique
    <3>2. CASE x # w
      <4>1. at[w] = "end"
        BY <1>1, <2>3, <3>2
           DEF Step, CommonStep, TakeTask, ReturnsAtOnce, WantsLock, Merge, Analyses,
               LocksForJson, Locks, FindsEnd, NeedsMore, Scan, Handles, Closes, Ends, Drops, Goes,
               Shape, SessionTypeOK
      <4>2. lock = w
        BY <4>1 DEF Shape, SessionTypeOK
      <4>3. at[x] \notin Guarded
        BY <3>2, <4>2 DEF Shape, SessionTypeOK, Guarded
      <4>4. context' = context
        BY <2>3, <4>3
           DEF Step, CommonStep, TakeTask, ReturnsAtOnce, WantsLock, Merge, Analyses,
               LocksForJson, Locks, FindsEnd, NeedsMore, Scan, Handles, Closes, Ends, Drops, Goes,
               Guarded
      <4>5. Unique
        BY <1>1, <4>1, <4>4 DEF Left
      <4>6. at[x] = "idle" /\ queued = 0
        BY <3>2, <4>1, <4>5, UniqueAlone DEF Unique
      <4>7. ~(queued > 0)
        BY <4>6
      <4> QED
        BY <2>3, <4>6, <4>7
           DEF Step, CommonStep, TakeTask, ReturnsAtOnce, WantsLock, Merge, Analyses,
               LocksForJson, Locks, FindsEnd, NeedsMore, Scan, Handles, Closes, Ends, Drops, Goes
    <3> QED
      BY <3>1, <3>2
  <2> QED
    BY <2>1, <2>2, <2>3 DEF Next
<1> QED
  BY <1>1 DEF Left

\* The session is not released while packet runs.
LEMMA IdleStep ==
    ASSUME Idle, [Next]_vars
    PROVE  Idle'
BY DEF Idle, Next, LoopThread, Packet, PushTask, Release, Step, CommonStep, TakeTask,
       ReturnsAtOnce, WantsLock, Merge, Analyses, LocksForJson, Locks, FindsEnd,
       NeedsMore, Scan, Handles, Closes, Ends, Drops, vars, sessionVars

\* The stream and what is left of it are sequences of bytes.
LEMMA StreamTypes ==
    ASSUME Shape
    PROVE  /\ context \in Contexts /\ Bounded(context)
           /\ raw \in Seq(Bytes) /\ received \in Seq(Bytes) /\ handled \in Seq(Bytes)
           /\ Stream \in Bytes /\ FlattenSeq(raw) \in Bytes
           /\ Pending(context) \in Bytes /\ Waiting \in Bytes
<1>1. /\ context \in Contexts /\ Bounded(context)
      /\ raw \in Seq(Bytes) /\ received \in Seq(Bytes) /\ handled \in Seq(Bytes)
  BY DEF Shape, Bounded
<1>2. Stream \in Bytes /\ FlattenSeq(raw) \in Bytes
  BY <1>1, FlattenType DEF Stream, Bytes
<1>3. Pending(context) \in Bytes
  BY <1>1, PendingType
<1>4. Waiting \in Bytes
  BY <1>2, <1>3, ConcatProperties DEF Waiting, Bytes
<1> QED
  BY <1>1, <1>2, <1>3, <1>4

\* A packet: it is the last of the stream and the last of what is left.
LEMMA PacketOrder ==
    ASSUME Shape, NEW p \in Packets, Packet(p),
           Analysed(context), Ahead(Stream, handled, Waiting)
    PROVE  Analysed(context)' /\ Ahead(Stream, handled, Waiting)'
<1> DEFINE s == Stream
           u == Pending(context)
           r == FlattenSeq(raw)
<1>1. /\ received' = Append(received, p) /\ raw' = Append(raw, p)
      /\ context' = context /\ handled' = handled
  BY DEF Packet
<1>2. /\ s \in Bytes /\ u \in Bytes /\ r \in Bytes /\ Waiting \in Bytes
      /\ handled \in Seq(Bytes) /\ raw \in Seq(Bytes) /\ received \in Seq(Bytes)
  BY StreamTypes
<1>3. p \in Bytes
  BY PacketAssumption DEF Bytes
<1>4. FlattenSeq(Append(received, p)) = s \o p /\ FlattenSeq(Append(raw, p)) = r \o p
  BY <1>2, <1>3, FlattenAppend DEF Bytes, Stream
<1>5. Stream' = s \o p
  BY <1>1, <1>4 DEF Stream
<1>6. Waiting' = u \o (r \o p)
  BY <1>1, <1>4 DEF Waiting, Pending
<1> DEFINE d == Waiting
<1>7. u \o (r \o p) = d \o p
  <2>1. (u \o r) \o p = u \o (r \o p)
    <3> HIDE DEF u, r
    <3> QED
      BY <1>2, <1>3, BytesAssociative, ZenonT(60)
  <2> QED
    BY <2>1 DEF Waiting
<1>8. Ahead(s \o p, handled, d \o p)
  <2> HIDE DEF s, d
  <2>1. Ahead(s, handled, d)
    BY DEF s, d
  <2> QED
    BY <1>2, <1>3, <2>1, AheadLonger DEF d
<1>9. Ahead(Stream, handled, Waiting)'
  BY <1>1, <1>5, <1>6, <1>7, <1>8 DEF Ahead
<1>10. Analysed(context)'
  BY <1>1 DEF Analysed, Pending
<1> QED
  BY <1>9, <1>10

\* Merge moves bytes from m_rawBuffers to the context, and leaves none out.
LEMMA MergeOrder ==
    ASSUME Shape, Shape', NEW w \in Workers, Merge(w), ~(context').overflow,
           Analysed(context), Ahead(Stream, handled, Waiting)
    PROVE  Analysed(context)' /\ Ahead(Stream, handled, Waiting)'
<1> DEFINE c == context
           m == Merged(context, raw)
           r == FlattenSeq(raw)
<1>1. context' = m /\ raw' = <<>> /\ received' = received /\ handled' = handled
  BY DEF Merge
<1>2. /\ c \in Contexts /\ Bounded(c) /\ raw \in Seq(Bytes) /\ Analysed(c)
      /\ Waiting \in Bytes
  BY StreamTypes
<1>3. context' \in Contexts /\ Bounded(context')
  BY DEF Shape, Bounded
<1>4. m \in Contexts /\ Bounded(m) /\ ~m.overflow
  BY <1>1, <1>3
<1>5. /\ m.index = c.index /\ m.state = c.state /\ m.depth = c.depth /\ m.start = c.start
      /\ m.bytes = c.bytes \o r
  BY <1>2, <1>4, MergedBuffer
<1> HIDE DEF m, c
<1>6. Pending(m) = Pending(c) \o r /\ Analysed(m)
  BY <1>2, <1>4, <1>5, MergedAnalysed
<1>7. Waiting = Pending(m)
  BY <1>6 DEF Waiting, c
<1>8. Waiting' = Pending(m) \o <<>>
  BY <1>1, FlattenEmpty DEF Waiting, Pending
<1>9. Pending(m) \o <<>> = Pending(m)
  <2>1. Pending(m) \in Seq(STRING)
    BY <1>2, <1>7 DEF Bytes
  <2> QED
    BY <2>1, ConcatEmptySeq
<1>10. Waiting' = Waiting /\ Stream' = Stream
  BY <1>1, <1>7, <1>8, <1>9 DEF Stream
<1>11. Ahead(Stream, handled, Waiting)'
  BY <1>1, <1>10 DEF Ahead
<1>12. Analysed(context)'
  BY <1>1, <1>6 DEF Analysed, Pending
<1> QED
  BY <1>11, <1>12

\* One look of the analysis changes no message.
LEMMA ScanOrder ==
    ASSUME Shape, Shape', NEW w \in Workers, Scan(w),
           Analysed(context), Ahead(Stream, handled, Waiting)
    PROVE  Analysed(context)' /\ Ahead(Stream, handled, Waiting)'
<1> DEFINE c == context
           d == Scanned(context)
           r == FlattenSeq(raw)
           u == Pending(c)
           v == Pending(d)
<1>1. /\ context' = d /\ raw' = raw /\ received' = received /\ handled' = handled
      /\ ~Ended(c) /\ ~AtEnd(c)
  BY DEF Scan
<1>2. /\ c \in Contexts /\ Bounded(c) /\ Analysed(c) /\ u \in Bytes /\ r \in Bytes
      /\ Stream \in Bytes /\ handled \in Seq(Bytes)
  BY StreamTypes
<1>3. context' \in Contexts /\ Bounded(context')
  BY DEF Shape, Bounded
<1>4. d \in Contexts /\ Bounded(d)
  BY <1>1, <1>3
<1>5. /\ Analysed(d)
      /\ \A t \in Bytes : /\ Framed[u \o t] = Framed[v \o t]
                          /\ Malformed[u \o t] = Malformed[v \o t]
  BY <1>1, <1>2, <1>4, ScannedAnalysed
<1>6. v \in Bytes
  BY <1>4, PendingType
<1>7. Ahead(Stream, handled, u \o r)
  BY DEF Waiting
<1>8. Ahead(Stream, handled, v \o r)
  <2> DEFINE s == Stream
  <2> HIDE DEF u, v, r, s
  <2>1. Ahead(s, handled, u \o r) /\ s \in Bytes
    BY <1>2, <1>7 DEF s
  <2>2. Ahead(s, handled, v \o r)
    BY <1>2, <1>5, <1>6, <2>1, AheadSkipped
  <2> QED
    BY <2>2 DEF s
<1> HIDE DEF d
<1>9. Waiting' = v \o r /\ Stream' = Stream
  BY <1>1 DEF Waiting, Stream, Pending
<1>10. Ahead(Stream, handled, Waiting)'
  BY <1>1, <1>8, <1>9 DEF Ahead
<1>11. Analysed(context)'
  BY <1>1, <1>5 DEF Analysed, Pending
<1> QED
  BY <1>10, <1>11

\* The message that is handled is the first of those that are left.
LEMMA HandlesOrder ==
    ASSUME Shape, Shape', NEW w \in Workers, Handles(w),
           Analysed(context), Ahead(Stream, handled, Waiting)
    PROVE  Analysed(context)' /\ Ahead(Stream, handled, Waiting)'
<1> DEFINE c == context
           d == Restarted(context)
           r == FlattenSeq(raw)
           u == Pending(c)
           v == Pending(d)
           m == Content(c)
<1>1. /\ context' = d /\ raw' = raw /\ received' = received
      /\ handled' = Append(handled, m) /\ c.state = "done"
  BY DEF Handles
<1>2. /\ c \in Contexts /\ Bounded(c) /\ Analysed(c) /\ u \in Bytes /\ r \in Bytes
      /\ Stream \in Bytes /\ handled \in Seq(Bytes)
  BY StreamTypes
<1>3. context' \in Contexts /\ Bounded(context')
  BY DEF Shape, Bounded
<1>4. d \in Contexts /\ Bounded(d)
  BY <1>1, <1>3
<1>5. /\ Analysed(d)
      /\ \A t \in Bytes : /\ Framed[u \o t] = <<m>> \o Framed[v \o t]
                          /\ Malformed[u \o t] = Malformed[v \o t]
  BY <1>1, <1>2, <1>4, RestartedAnalysed
<1>6. v \in Bytes /\ m \in Bytes
  BY <1>2, <1>4, PendingType, ContentType
<1>7. Ahead(Stream, handled, u \o r)
  BY DEF Waiting
<1>8. Ahead(Stream, Append(handled, m), v \o r)
  <2> DEFINE s == Stream
  <2> HIDE DEF u, v, r, s, m
  <2>1. Ahead(s, handled, u \o r) /\ s \in Bytes
    BY <1>2, <1>7 DEF s
  <2>2. Ahead(s, Append(handled, m), v \o r)
    BY <1>2, <1>5, <1>6, <2>1, AheadHandled
  <2> QED
    BY <2>2 DEF s
<1> HIDE DEF d, m
<1>9. Waiting' = v \o r /\ Stream' = Stream
  BY <1>1 DEF Waiting, Stream, Pending
<1>10. Ahead(Stream, handled, Waiting)'
  BY <1>1, <1>8, <1>9 DEF Ahead
<1>11. Analysed(context)'
  BY <1>1, <1>5 DEF Analysed, Pending
<1> QED
  BY <1>10, <1>11

\* clear, after the last message.
LEMMA EndsOrder ==
    ASSUME Shape, Shape', Left, NEW w \in Workers, Ends(w), ~Final',
           Analysed(context), Ahead(Stream, handled, Waiting)
    PROVE  Analysed(context)' /\ Ahead(Stream, handled, Waiting)'
<1> DEFINE c == context
           d == Cleared(context)
<1>1. /\ raw' = raw /\ received' = received /\ handled' = handled
      /\ context' = IF needClear[w] THEN d ELSE c
      /\ at[w] = "end" /\ at' = [at EXCEPT ![w] = "return"]
      /\ session' = session /\ queued' = queued
  BY DEF Ends, Goes
<1>2. c \in Contexts /\ Bounded(c) /\ Analysed(c)
  BY StreamTypes
<1>3. c.state # "done"
  <2>1. SUFFICES ASSUME c.state = "done" PROVE FALSE
    OBVIOUS
  <2>2. Unique
    BY <1>1, <2>1 DEF Left
  <2>3. \A x \in Workers \ {w} : at[x] = "idle"
    BY <1>1, <2>2, UniqueAlone
  <2>4. \A x \in Workers : at'[x] \in {"idle", "return"}
    BY <1>1, <2>3 DEF Shape, SessionTypeOK
  <2>5. Final'
    BY <1>1, <2>2, <2>4 DEF Final, Unique
  <2> QED
    BY <2>5
<1>4. context' \in Contexts /\ Bounded(context')
  BY DEF Shape, Bounded
<1>5. Analysed(context') /\ Pending(context') = Pending(c)
  <2>1. CASE needClear[w]
    <3>1. context' = d
      BY <1>1, <2>1
    <3>2. d \in Contexts /\ Bounded(d)
      BY <1>4, <3>1
    <3>3. Analysed(d) /\ Pending(d) = Pending(c)
      BY <1>2, <1>3, <3>2, ClearedAnalysed
    <3> QED
      BY <3>1, <3>3
  <2>2. CASE ~needClear[w]
    BY <1>1, <1>2, <2>2
  <2> QED
    BY <2>1, <2>2
<1>6. Waiting' = Waiting /\ Stream' = Stream
  BY <1>1, <1>5 DEF Waiting, Stream, Pending
<1>7. Ahead(Stream, handled, Waiting)'
  BY <1>1, <1>6 DEF Ahead
<1>8. Analysed(context)'
  BY <1>5 DEF Analysed, Pending
<1> QED
  BY <1>7, <1>8

\* Every step of a task but four leaves alone what the order of the messages
\* depends on.
LEMMA QuietStep ==
    ASSUME [Next]_vars
    PROVE  \/ UNCHANGED <<context, raw, received, handled>>
           \/ \E p \in Packets : Packet(p)
           \/ \E w \in Workers : Merge(w) \/ Scan(w) \/ Handles(w) \/ Ends(w)
BY DEF Next, LoopThread, PushTask, Release, Step, CommonStep, TakeTask,
       ReturnsAtOnce, WantsLock, Analyses, LocksForJson, Locks, FindsEnd,
       NeedsMore, Closes, Drops, vars, sessionVars

\* At first nothing has come and nothing was handled.
LEMMA OrderInit ==
    ASSUME Init
    PROVE  Order
<1>1. Shape
  BY ShapeInit
<1>2. /\ received = <<>> /\ raw = <<>> /\ handled = <<>> /\ session /\ callback = "idle"
      /\ context.bytes = <<>> /\ context.index = 0 /\ context.start = 0
      /\ context.state = "start" /\ context.depth = 0
      /\ \A w \in Workers : at[w] = "idle"
  BY DEF Init, InitSession
<1>3. Stream = <<>> /\ FlattenSeq(raw) = <<>>
  BY <1>2, FlattenEmpty DEF Stream
<1>4. Pending(context) = <<>>
  <2>1. Pending(context) = SubSeq(<<>>, 0 + 1, Len(<<>>))
    BY <1>2 DEF Pending
  <2>2. SubSeq(<<>>, 0 + 1, Len(<<>>)) = <<>>
    BY SubSeqEmpty
  <2> QED
    BY <2>1, <2>2
<1>5. Waiting = <<>>
  BY <1>3, <1>4 DEF Waiting
<1>6. Analysed(context)
  <2>1. Looked(<<>>, 0, "start", 0)
    BY DEF Looked, Spaces
  <2>2. context.index - context.start = 0
    BY <1>2
  <2> QED
    BY <1>2, <1>4, <2>1, <2>2 DEF Analysed
<1>7. Ahead(<<>>, <<>>, <<>>)
  <2>1. ASSUME NEW t \in Bytes
        PROVE  /\ Framed[<<>> \o t] = <<>> \o Framed[<<>> \o t]
               /\ Malformed[<<>> \o t] = Malformed[<<>> \o t]
    <3>1. <<>> \o t \in Bytes
      BY ConcatEmptySeq DEF Bytes
    <3> DEFINE f == Framed[<<>> \o t]
    <3>2. f \in Seq(Bytes)
      BY <3>1, FramedUnfolds
    <3> HIDE DEF f
    <3>3. <<>> \o f = f
      BY <3>2, ConcatEmptySeq
    <3> QED
      BY <3>3 DEF f
  <2> QED
    BY <2>1 DEF Ahead
<1>8. Ahead(Stream, handled, Waiting)
  BY <1>2, <1>3, <1>5, <1>7
<1>9. MessagesInOrder
  BY <1>1, <1>8, StreamTypes, AheadNow DEF MessagesInOrder
<1>10. Idle /\ Left
  BY <1>2 DEF Idle, Left
<1> QED
  BY <1>6, <1>8, <1>9, <1>10 DEF Order

\* Every step keeps the order of the messages.
LEMMA OrderStep ==
    ASSUME Shape, Order, [Next]_vars
    PROVE  Order'
<1>1. Shape' /\ Idle' /\ Left'
  BY ShapeStep, IdleStep, LeftStep DEF Order
<1>2. CASE Final
  <2>2. UNCHANGED <<context, received, handled>>
    BY <1>2, FinalStays DEF Order
  <2>3. Final'
    BY <1>2, FinalStays DEF Order
  <2>4. Stream' = Stream
    BY <2>2 DEF Stream
  <2>5. MessagesInOrder'
    BY <2>2, <2>4 DEF Order, MessagesInOrder
  <2> QED
    BY <1>1, <2>3, <2>5 DEF Order
<1>3. CASE ~Final /\ ~(context').overflow
  <2>1. ~context.overflow
    BY <1>3, OverflowStays
  <2>2. Analysed(context) /\ Ahead(Stream, handled, Waiting) /\ Left
    BY <1>3, <2>1 DEF Order
  <2>3. ASSUME ~Final' PROVE Analysed(context)' /\ Ahead(Stream, handled, Waiting)'
    <3>1. CASE UNCHANGED <<context, raw, received, handled>>
      <4>1. Stream' = Stream /\ Waiting' = Waiting /\ handled' = handled
        BY <3>1 DEF Stream, Waiting, Pending
      <4> QED
        BY <2>2, <3>1, <4>1 DEF Analysed, Pending, Ahead
    <3>2. CASE \E p \in Packets : Packet(p)
      BY <2>2, <3>2, PacketOrder
    <3>3. ASSUME NEW w \in Workers, Merge(w)
          PROVE  Analysed(context)' /\ Ahead(Stream, handled, Waiting)'
      BY <1>1, <1>3, <2>2, <3>3, MergeOrder
    <3>4. ASSUME NEW w \in Workers, Scan(w)
          PROVE  Analysed(context)' /\ Ahead(Stream, handled, Waiting)'
      BY <1>1, <2>2, <3>4, ScanOrder
    <3>5. ASSUME NEW w \in Workers, Handles(w)
          PROVE  Analysed(context)' /\ Ahead(Stream, handled, Waiting)'
      BY <1>1, <2>2, <3>5, HandlesOrder
    <3>6. ASSUME NEW w \in Workers, Ends(w)
          PROVE  Analysed(context)' /\ Ahead(Stream, handled, Waiting)'
      BY <1>1, <2>2, <2>3, <3>6, EndsOrder
    <3> QED
      BY <3>1, <3>2, <3>3, <3>4, <3>5, <3>6, QuietStep
  <2>4. MessagesInOrder'
    <3>1. CASE ~Final'
      <4>1. Ahead(Stream', handled', Waiting')
        BY <2>3, <3>1 DEF Ahead
      <4>2. Stream' \in Bytes /\ handled' \in Seq(Bytes) /\ Waiting' \in Bytes
        <5>1. /\ context' \in Contexts /\ Bounded(context')
              /\ raw' \in Seq(Bytes) /\ received' \in Seq(Bytes) /\ handled' \in Seq(Bytes)
          BY <1>1 DEF Shape, Bounded
        <5>2. FlattenSeq(received') \in Bytes /\ FlattenSeq(raw') \in Bytes
          BY <5>1, FlattenType DEF Bytes
        <5>3. Pending(context') \in Bytes
          BY <5>1, PendingType
        <5>4. Pending(context') \o FlattenSeq(raw') \in Bytes
          BY <5>2, <5>3, ConcatProperties DEF Bytes
        <5> QED
          BY <5>1, <5>2, <5>4 DEF Stream, Waiting, Pending
      <4>3. IsPrefix(handled', Framed[Stream'])
        BY <4>1, <4>2, AheadNow
      <4> QED
        BY <4>3 DEF MessagesInOrder, Framed
    <3>2. CASE Final'
      <4>1. received' = received /\ handled' = handled
        <5>1. ~ \E p \in Packets : Packet(p)
          BY <3>2 DEF Packet, Final
        <5>2. ASSUME NEW w \in Workers PROVE ~Handles(w)
          BY <1>1, <3>2 DEF Final, Handles, Goes, Shape, SessionTypeOK
        <5> QED
          BY <5>1, <5>2, QuietStep DEF Merge, Scan, Ends
      <4>2. Stream' = Stream
        BY <4>1 DEF Stream
      <4> QED
        BY <2>1, <4>1, <4>2 DEF Order, MessagesInOrder
    <3> QED
      BY <3>1, <3>2
  <2> QED
    BY <1>1, <2>3, <2>4 DEF Order
<1>4. CASE (context').overflow
  BY <1>1, <1>4 DEF Order, MessagesInOrder
<1> QED
  BY <1>2, <1>3, <1>4

\* The invariant behind MessagesInOrder.
LEMMA OrderAlways == Spec => [](Shape /\ Order)
<1>1. Init => Shape /\ Order
  BY ShapeInit, OrderInit
<1>2. (Shape /\ Order) /\ [Next]_vars => (Shape /\ Order)'
  BY ShapeStep, OrderStep
<1> QED
  BY <1>1, <1>2, PTL DEF Spec

\* However the stream is cut into packets, and whichever workers run, jsonRpc
\* is called with the messages of the stream, once each and in their order, for
\* all packets, limits and workers.
THEOREM JsonMessagesInOrder == Spec => []MessagesInOrder
<1>1. Shape /\ Order => MessagesInOrder
  BY DEF Order
<1> QED
  BY <1>1, OrderAlways, PTL

-----------------------------------------------------------------------------
(* NothingForgotten.                                                       *)

Coming == {"started", "want", "merge"}

\* A packet that was filed has a task that will merge it ...
Expected ==
    session /\ raw # <<>> =>
        \/ callback = "pushing" \/ queued > 0
        \/ \E w \in Workers : at[w] \in Coming

\* ... and a task ends with nothing left to decode, or at what is no message.
Exhausted ==
    session /\ ~context.overflow /\ (lock = Nobody \/ \E w \in Workers : at[w] = "end") =>
        \/ context.state \notin {"done", "bad"} /\ AtEnd(context)
        \/ context.state = "bad" /\ closes

Closed == closes /\ session => context.state = "bad"

\* Only a merge, and only the end of the session, leaves a packet without a task.
LEMMA ExpectedStep ==
    ASSUME Shape, Expected, [Next]_vars
    PROVE  Expected'
<1>1. SUFFICES ASSUME session', raw' # <<>>
               PROVE  \/ callback' = "pushing" \/ queued' > 0
                      \/ \E w \in Workers : at'[w] \in Coming
  BY DEF Expected
<1>2. queued \in Nat /\ at \in [Workers -> Places]
  BY DEF Shape, SessionTypeOK
<1>3. CASE \E p \in Packets : Packet(p)
  BY <1>3 DEF Packet
<1>4. CASE PushTask
  BY <1>2, <1>4 DEF PushTask
<1>5. CASE Release
  BY <1>1, <1>5 DEF Release
<1>6. CASE UNCHANGED vars
  BY <1>1, <1>6 DEF Expected, vars, sessionVars
<1>7. ASSUME NEW w \in Workers, Step(w)
      PROVE  \/ callback' = "pushing" \/ queued' > 0 \/ \E x \in Workers : at'[x] \in Coming
  <2>1. CASE TakeTask(w)
    <3>1. at'[w] = "started"
      BY <1>2, <2>1 DEF TakeTask, Goes
    <3> QED
      BY <3>1 DEF Coming
  <2>2. CASE WantsLock(w)
    <3>1. at'[w] = "want"
      BY <1>2, <2>2 DEF WantsLock, Goes
    <3> QED
      BY <3>1 DEF Coming
  <2>3. CASE LocksForJson(w)
    <3>1. at'[w] = "merge"
      BY <1>2, <2>3 DEF LocksForJson, Locks, Goes
    <3> QED
      BY <3>1 DEF Coming
  <2>4. CASE Merge(w)
    BY <1>1, <2>4 DEF Merge
  <2>5. CASE ReturnsAtOnce(w)
    BY <1>1, <2>5 DEF ReturnsAtOnce, Unique
  <2>6. CASE Analyses(w) \/ FindsEnd(w) \/ NeedsMore(w) \/ Scan(w) \/ Handles(w)
             \/ Closes(w) \/ Ends(w) \/ Drops(w)
    <3>1. session' = session /\ raw' = raw /\ callback' = callback /\ queued' = queued
      BY <2>6 DEF Analyses, FindsEnd, NeedsMore, Scan, Handles, Closes, Ends, Drops
    <3>2. at[w] \notin Coming
      BY <2>6 DEF Analyses, FindsEnd, NeedsMore, Scan, Handles, Closes, Ends, Drops, Goes, Coming
    <3>3. \A x \in Workers \ {w} : at'[x] = at[x]
      BY <1>2, <2>6 DEF Analyses, FindsEnd, NeedsMore, Scan, Handles, Closes, Ends, Drops, Goes
    <3>4. \A x \in Workers : at[x] \in Coming => at'[x] \in Coming
      BY <3>2, <3>3
    <3>5. \/ callback = "pushing" \/ queued > 0 \/ \E x \in Workers : at[x] \in Coming
      BY <1>1, <3>1 DEF Expected
    <3> QED
      BY <3>1, <3>4, <3>5
  <2> QED
    BY <1>7, <2>1, <2>2, <2>3, <2>4, <2>5, <2>6 DEF Step, CommonStep
<1> QED
  BY <1>3, <1>4, <1>5, <1>6, <1>7 DEF Next, LoopThread

\* A bad context stays bad.
LEMMA ClosedStep ==
    ASSUME Shape, Closed, [Next]_vars
    PROVE  Closed'
<1>1. SUFFICES ASSUME closes', session' PROVE (context').state = "bad"
  BY DEF Closed
<1>2. session
  BY <1>1 DEF Next, LoopThread, Packet, PushTask, Release, Step, CommonStep, TakeTask,
       ReturnsAtOnce, WantsLock, Merge, Analyses, LocksForJson, Locks, FindsEnd,
       NeedsMore, Scan, Handles, Closes, Ends, Drops, vars, sessionVars
<1>3. CASE \E w \in Workers : Closes(w)
  BY <1>2, <1>3 DEF Closes, Unique
<1>4. CASE ~ \E w \in Workers : Closes(w)
  <2>1. closes' = closes
    BY <1>4 DEF Next, LoopThread, Packet, PushTask, Release, Step, CommonStep, TakeTask,
       ReturnsAtOnce, WantsLock, Merge, Analyses, LocksForJson, Locks, FindsEnd,
       NeedsMore, Scan, Handles, Ends, Drops, vars, sessionVars
  <2>2. context.state = "bad"
    BY <1>1, <1>2, <2>1 DEF Closed
  <2>3. context \in Contexts /\ Bounded(context) /\ raw \in Seq(Bytes)
    BY DEF Shape, Bounded
  <2>4. \/ context' = context \/ context' = Merged(context, raw) \/ context' = Cleared(context)
    BY <2>2 DEF Next, LoopThread, Packet, PushTask, Release, Step, CommonStep, TakeTask,
       ReturnsAtOnce, WantsLock, Merge, Analyses, LocksForJson, Locks, FindsEnd,
       NeedsMore, Scan, Handles, Closes, Ends, Drops, vars, sessionVars, Ended
  <2>5. CASE context' = Merged(context, raw)
    BY <2>2, <2>3, <2>5, MergedBuffer
  <2>6. CASE context' = Cleared(context)
    BY <2>2, <2>3, <2>6, ClearedFields
  <2> QED
    BY <2>2, <2>4, <2>5, <2>6
<1> QED
  BY <1>3, <1>4

\* clear leaves nothing more to decode than there was.
LEMMA ClearedAtEnd ==
    ASSUME NEW c \in Contexts, Bounded(c), NEW d \in Contexts, d = Cleared(c),
           c.state \notin {"done", "bad"}, AtEnd(c)
    PROVE  AtEnd(d) /\ d.state = c.state
<1>1. /\ Len(d.bytes) = Len(c.bytes) - c.start /\ d.index = c.index - c.start
      /\ d.state = c.state
  BY ClearedFields
<1>2. c.index \in Nat /\ c.start \in Nat /\ Len(c.bytes) \in Nat /\ Len(c.bytes) <= c.index
  BY PendingType DEF AtEnd
<1> QED
  BY <1>1, <1>2 DEF AtEnd

\* A task gives up the lock only when there is nothing left to decode.
LEMMA ExhaustedStep ==
    ASSUME Shape, Shape', Exhausted, [Next]_vars
    PROVE  Exhausted'
<1> DEFINE Free(a, l) == l = Nobody \/ \E w \in Workers : a[w] = "end"
           Good(c, b) == \/ c.state \notin {"done", "bad"} /\ AtEnd(c)
                         \/ c.state = "bad" /\ b
<1>1. SUFFICES ASSUME session', ~(context').overflow, Free(at', lock')
               PROVE  Good(context', closes')
  BY DEF Exhausted, AtEnd
<1>2. ~context.overflow
  BY <1>1, OverflowStays
<1>3. session /\ Free(at, lock) => Good(context, closes)
  BY <1>2 DEF Exhausted
<1>4. /\ at \in [Workers -> Places]
      /\ \A w \in Workers : at[w] \in Guarded <=> lock = w
      /\ \A w \in Workers : at'[w] \in Guarded <=> lock' = w
  BY DEF Shape, SessionTypeOK, Guarded
<1>5. context \in Contexts /\ Bounded(context) /\ context' \in Contexts
  BY DEF Shape, Bounded
<1>6. CASE LoopThread \/ UNCHANGED vars
  <2>1. at' = at /\ lock' = lock /\ context' = context /\ closes' = closes
        /\ (session' => session)
    BY <1>6 DEF LoopThread, Packet, PushTask, Release, vars, sessionVars
  <2> QED
    BY <1>1, <1>3, <2>1
<1>7. ASSUME NEW w \in Workers, Step(w) PROVE Good(context', closes')
  <2>1. CASE TakeTask(w) \/ ReturnsAtOnce(w) \/ WantsLock(w) \/ Drops(w)
    <3>1. lock' = lock /\ context' = context /\ closes' = closes /\ session' = session
      BY <2>1 DEF TakeTask, ReturnsAtOnce, WantsLock, Drops
    <3>2. /\ \A x \in Workers \ {w} : at'[x] = at[x]
          /\ at'[w] # "end"
      BY <1>4, <2>1 DEF TakeTask, ReturnsAtOnce, WantsLock, Drops, Goes
    <3>3. Free(at, lock)
      BY <1>1, <3>1, <3>2
    <3> QED
      BY <1>1, <1>3, <3>1, <3>3
  <2>2. ASSUME at'[w] \in Guarded, at'[w] # "end" PROVE FALSE
    <3>1. lock' = w
      BY <1>4, <2>2
    <3>2. w # Nobody
      BY WorkersAssumption DEF Nobody
    <3>3. PICK x \in Workers : at'[x] = "end"
      BY <1>1, <3>1, <3>2
    <3>4. lock' = x
      BY <1>4, <3>3 DEF Guarded
    <3> QED
      BY <2>2, <3>1, <3>3, <3>4
  <2>3. CASE LocksForJson(w) \/ Merge(w) \/ FindsEnd(w) \/ Handles(w)
    <3>1. at'[w] \in {"merge", "analysis", "found"}
      BY <1>4, <2>3 DEF LocksForJson, Locks, Merge, FindsEnd, Handles, Goes
    <3> QED
      BY <2>2, <3>1 DEF Guarded
  <2>4. CASE Scan(w)
    <3>1. at'[w] = "scan"
      BY <2>4 DEF Scan
    <3> QED
      BY <2>2, <3>1 DEF Guarded
  <2>5. CASE Analyses(w)
    <3>1. session' = session /\ at' = [at EXCEPT ![w] = IF Unique THEN "end" ELSE "scan"]
      BY <2>5 DEF Analyses, Goes
    <3>2. ~Unique
      BY <1>1, <3>1 DEF Unique
    <3>3. at'[w] = "scan"
      BY <1>4, <3>1, <3>2
    <3> QED
      BY <2>2, <3>3 DEF Guarded
  <2>6. CASE NeedsMore(w)
    BY <2>6 DEF NeedsMore, Ended, AtEnd
  <2>7. CASE Closes(w)
    <3>1. session' = session /\ context' = context /\ closes'
          /\ (Unique \/ context.state = "bad")
      BY <2>7 DEF Closes
    <3>2. ~Unique
      BY <1>1, <3>1 DEF Unique
    <3> QED
      BY <3>1, <3>2
  <2>8. CASE Ends(w)
    <3>1. /\ at[w] = "end" /\ session' = session /\ closes' = closes
          /\ context' = IF needClear[w] THEN Cleared(context) ELSE context
      BY <2>8 DEF Ends, Goes
    <3>2. Good(context, closes)
      BY <1>1, <1>3, <3>1
    <3>3. CASE context' = context
      BY <3>1, <3>2, <3>3
    <3>4. CASE context' = Cleared(context) /\ context.state = "bad"
      <4>1. context' = context
        BY <1>5, <3>4, ClearedFields
      <4> QED
        BY <3>3, <4>1
    <3>5. CASE context' = Cleared(context) /\ context.state # "bad"
      <4>1. context.state \notin {"done", "bad"} /\ AtEnd(context)
        BY <3>2, <3>5
      <4>2. AtEnd(context') /\ (context').state = context.state
        BY <1>5, <3>5, <4>1, ClearedAtEnd
      <4> QED
        BY <4>1, <4>2
    <3> QED
      BY <3>1, <3>3, <3>4, <3>5
  <2> QED
    BY <1>7, <2>1, <2>3, <2>4, <2>5, <2>6, <2>7, <2>8 DEF Step, CommonStep
<1> QED
  BY <1>6, <1>7 DEF Next

\* With nothing under way, what is pending holds no whole message.
LEMMA ForgottenNothing ==
    ASSUME Shape, Order, Expected, Exhausted, Closed
    PROVE  NothingForgotten
<1>1. SUFFICES ASSUME Quiet, ~context.overflow
               PROVE  handled = Framed[Stream] /\ closes = Malformed[Stream]
  BY DEF NothingForgotten
<1>2. session /\ callback = "idle" /\ queued = 0 /\ \A w \in Workers : at[w] = "idle"
  BY <1>1 DEF Quiet, Running
<1>3. ~Final
  BY <1>2 DEF Final
<1>4. raw = <<>>
  BY <1>2 DEF Expected, Coming
<1>5. lock = Nobody
  BY <1>2 DEF Shape, SessionTypeOK
<1> DEFINE c == context
           u == Pending(context)
           k == context.index - context.start
<1>6. \/ c.state \notin {"done", "bad"} /\ AtEnd(c)
      \/ c.state = "bad" /\ closes
  BY <1>1, <1>2, <1>5 DEF Exhausted
<1>7. /\ Stream \in Bytes /\ handled \in Seq(Bytes) /\ u \in Bytes
      /\ c \in Contexts /\ Bounded(c) /\ Waiting \in Bytes
  BY StreamTypes
<1>8. Waiting = u
  <2>1. u \o <<>> = u
    <3> HIDE DEF u
    <3> QED
      BY <1>7, ConcatEmptySeq DEF Bytes
  <2> QED
    BY <1>4, <2>1, FlattenEmpty DEF Waiting
<1>9. Framed[Stream] = handled \o Framed[u] /\ Malformed[Stream] = Malformed[u]
  <2>1. Ahead(Stream, handled, Waiting)
    BY <1>1, <1>3 DEF Order
  <2>2. /\ Framed[Stream] = handled \o Framed[Waiting]
        /\ Malformed[Stream] = Malformed[Waiting]
    BY <1>7, <2>1, AheadNow
  <2> QED
    BY <1>8, <2>2
<1>10. Framed[u] = <<>> /\ Malformed[u] = (c.state = "bad")
  <2>1. Looked(u, k, c.state, c.depth)
    BY <1>1, <1>3 DEF Order, Analysed
  <2>2. c.depth \in Nat /\ (c.depth > 0 <=> c.state \in {"object", "array"})
        /\ c.state \in States
    BY <1>7 DEF Bounded, Contexts
  <2>3. ASSUME AtEnd(c) PROVE k = Len(u)
    <3>1. /\ Len(c.bytes) \in Nat /\ c.start \in Nat /\ c.index \in Nat
          /\ c.index <= Len(c.bytes) /\ Len(u) = Len(c.bytes) - c.start
      BY <1>7, PendingType
    <3>2. c.index = Len(c.bytes)
      BY <2>3, <3>1 DEF AtEnd
    <3> QED
      BY <3>1, <3>2
  <2>4. \/ c.state \in {"start", "object", "array"} /\ k = Len(u)
        \/ c.state = "bad"
    BY <1>6, <2>2, <2>3 DEF States
  <2> HIDE DEF u, k
  <2> QED
    BY <1>7, <2>1, <2>2, <2>4, FramedAtEnd
<1>11. handled \o <<>> = handled
  BY <1>7, ConcatEmptySeq
<1>12. closes = (c.state = "bad")
  <2>1. closes \in BOOLEAN
    BY DEF Shape, SessionTypeOK
  <2>2. closes => c.state = "bad"
    BY <1>2 DEF Closed
  <2>3. c.state = "bad" => closes
    BY <1>6
  <2> QED
    BY <2>1, <2>2, <2>3
<1> QED
  BY <1>9, <1>10, <1>11, <1>12

\* The invariant behind NothingForgotten.
LEMMA ExpectedAlways == Spec => [](Shape /\ Order /\ Expected /\ Exhausted /\ Closed)
<1>1. Init => Shape /\ Order /\ Expected /\ Exhausted /\ Closed
  <2>1. ASSUME Init PROVE Expected /\ Exhausted /\ Closed
    BY <2>1 DEF Init, InitSession, Expected, Exhausted, Closed, AtEnd
  <2> QED
    BY <2>1, ShapeInit, OrderInit
<1>2. (Shape /\ Order /\ Expected /\ Exhausted /\ Closed) /\ [Next]_vars
        => (Shape /\ Order /\ Expected /\ Exhausted /\ Closed)'
  BY ShapeStep, OrderStep, ExpectedStep, ExhaustedStep, ClosedStep
<1> QED
  BY <1>1, <1>2, PTL DEF Spec

\* When no task is left, nothing is left to do, although a task may have found
\* the lock taken or its packets merged by another: all messages that have come
\* were handled, and the socket was asked to close if and only if the stream is
\* bad; for all packets, limits and workers.
THEOREM JsonNothingForgotten == Spec => []NothingForgotten
<1>1. Shape /\ Order /\ Expected /\ Exhausted /\ Closed => NothingForgotten
  BY ForgottenNothing
<1> QED
  BY <1>1, ExpectedAlways, PTL
=============================================================================
