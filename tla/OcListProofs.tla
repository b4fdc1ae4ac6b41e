---------------------------- MODULE OcListProofs -----------------------------
(***************************************************************************)
(* What is left of a list: the items that are not removed, each as often   *)
(* and in the same order as before.                                        *)
(***************************************************************************)
EXTENDS OcList, SequencesExt, FiniteSetTheorems, TLAPS

-----------------------------------------------------------------------------
(* Induction on natural numbers, for a set in place of a predicate.        *)

LEMMA LeastOf ==
  ASSUME NEW T, T \subseteq Nat, T # {}
  PROVE  \E n \in T : \A m \in T : n <= m
<1> DEFINE less == OpToRel(<, Nat)
<1>1. IsWellFoundedOn(less, Nat)
  BY NatLessThanWellFounded
<1>2. PICK n \in T : \A m \in T : ~ (<<m, n>> \in less)
  <2> HIDE DEF less
  <2> QED
    BY <1>1, WFMin
<1>3. \A m \in T : ~ (m < n)
  BY <1>2 DEF OpToRel
<1> QED
  BY <1>3

LEMMA SetInduction ==
  ASSUME NEW N \in Nat, NEW P, 0 \in P,
         \A n \in 1 .. N : n - 1 \in P => n \in P
  PROVE  0 .. N \subseteq P
<1> DEFINE T == (0 .. N) \ P
<1> SUFFICES ASSUME T # {}
             PROVE  FALSE
  OBVIOUS
<1>1. PICK n \in T : \A m \in T : n <= m
  <2>1. T \subseteq Nat
    OBVIOUS
  <2> HIDE DEF T
  <2> QED
    BY <2>1, LeastOf
<1>2. n \in 1 .. N /\ n - 1 \notin T /\ n - 1 \in 0 .. N
  BY <1>1
<1> QED
  BY <1>2

\* A walk that starts with w and takes the step g[n] at every n exists: what
\* a definition f[n \in 0 .. N] == IF n = 0 THEN w ELSE g[n][f[n - 1]] defines.
Steps(W, N) == [1 .. N -> [W -> W]]
Walks(f, W, N, w, g) ==
  /\ f \in [0 .. N -> W]
  /\ f[0] = w
  /\ \A n \in 1 .. N : f[n] = g[n][f[n - 1]]

LEMMA WalkExists ==
  ASSUME NEW W, NEW N \in Nat, NEW w \in W, NEW g \in Steps(W, N)
  PROVE  \E f : Walks(f, W, N, w, g)
<1> DEFINE Good(f, n) == f[0] = w /\ \A k \in 1 .. n : f[k] = g[k][f[k - 1]]
<1> DEFINE P == {n \in Nat : \E f \in [0 .. n -> W] : Good(f, n)}
<1>1. 0 \in P
  <2>1. Good([k \in 0 .. 0 |-> w], 0)
    OBVIOUS
  <2>2. [k \in 0 .. 0 |-> w] \in [0 .. 0 -> W]
    OBVIOUS
  <2> QED
    BY <2>1, <2>2
<1>2. ASSUME NEW n \in 1 .. N, n - 1 \in P
      PROVE  n \in P
  <2>1. PICK f \in [0 .. n - 1 -> W] : Good(f, n - 1)
    BY <1>2
  <2> DEFINE h == [k \in 0 .. n |-> IF k = n THEN g[n][f[n - 1]] ELSE f[k]]
  <2>2. h \in [0 .. n -> W]
    <3>1. f[n - 1] \in W /\ g[n] \in [W -> W]
      BY DEF Steps
    <3> QED
      BY <3>1
  <2>3. Good(h, n)
    <3>1. h[0] = w
      BY <2>1
    <3>2. ASSUME NEW k \in 1 .. n
          PROVE  h[k] = g[k][h[k - 1]]
      <4>1. k - 1 \in 0 .. n - 1 /\ h[k - 1] = f[k - 1]
        OBVIOUS
      <4>2. CASE k = n
        BY <4>1, <4>2
      <4>3. CASE k # n
        <5>1. k \in 1 .. n - 1 /\ h[k] = f[k]
          BY <4>3
        <5> QED
          BY <2>1, <4>1, <5>1
      <4> QED
        BY <4>2, <4>3
    <3> QED
      BY <3>1, <3>2
  <2>4. \E k \in [0 .. n -> W] : Good(k, n)
    <3> HIDE DEF h, Good
    <3> QED
      BY <2>2, <2>3
  <2> HIDE DEF h, Good
  <2> QED
    BY <2>4
<1>3. N \in P
  <2> HIDE DEF P
  <2>1. \A n \in 1 .. N : n - 1 \in P => n \in P
    BY <1>2
  <2>2. 0 .. N \subseteq P
    BY <1>1, <2>1, SetInduction
  <2> QED
    BY <2>2
<1> QED
  BY <1>3 DEF Walks

-----------------------------------------------------------------------------
(* Without.                                                                *)

\* The positions of list that are left, and one step of the walk that builds
\* the new list.
Left(list, S) == {i \in 1 .. Len(list) : list[i] \notin S}
KeptStep(list, S, before, n) ==
  IF list[n] \in S THEN before ELSE Append(before, list[n])

IsWalk(f, X, list, S) ==
  /\ f \in [0 .. Len(list) -> Seq(X)]
  /\ f[0] = << >>
  /\ \A n \in 1 .. Len(list) : f[n] = KeptStep(list, S, f[n - 1], n)

\* There is a function that the recursive definition in Without defines.
LEMMA KeptExists ==
  ASSUME NEW X, NEW list \in Seq(X), NEW S
  PROVE  \E f : IsWalk(f, X, list, S)
<1> DEFINE g == [n \in 1 .. Len(list) |->
                   [before \in Seq(X) |-> KeptStep(list, S, before, n)]]
<1>1. g \in [1 .. Len(list) -> [Seq(X) -> Seq(X)]]
  <2>1. ASSUME NEW n \in 1 .. Len(list), NEW before \in Seq(X)
        PROVE  KeptStep(list, S, before, n) \in Seq(X)
    <3>1. list[n] \in X
      OBVIOUS
    <3> QED
      BY <3>1 DEF KeptStep
  <2> QED
    BY <2>1
<1>2. Len(list) \in Nat /\ << >> \in Seq(X)
  OBVIOUS
<1>3. PICK f : Walks(f, Seq(X), Len(list), << >>, g)
  <2>1. g \in Steps(Seq(X), Len(list))
    BY <1>1 DEF Steps
  <2> HIDE DEF g
  <2> QED
    BY <1>2, <2>1, WalkExists, Zenon
<1>4. ASSUME NEW n \in 1 .. Len(list)
      PROVE  f[n] = KeptStep(list, S, f[n - 1], n)
  <2>1. f[n - 1] \in Seq(X) /\ f[n] = g[n][f[n - 1]]
    <3> HIDE DEF g
    <3> QED
      BY <1>2, <1>3 DEF Walks
  <2> QED
    BY <2>1
<1> QED
  BY <1>3, <1>4 DEF IsWalk, Walks

LEMMA KeptIs ==
  ASSUME NEW X, NEW list \in Seq(X), NEW S
  PROVE  \E f : IsWalk(f, X, list, S) /\ Without(list, S) = f[Len(list)]
<1>1. PICK g : IsWalk(g, X, list, S)
  BY KeptExists, Zenon
<1> DEFINE Def(f) == [n \in 0 .. Len(list) |->
                        IF n = 0 THEN << >>
                        ELSE IF list[n] \in S THEN f[n - 1]
                        ELSE Append(f[n - 1], list[n])]
<1>2. g = Def(g)
  <2>1. ASSUME NEW n \in 0 .. Len(list)
        PROVE  g[n] = Def(g)[n]
    <3>1. CASE n = 0
      BY <1>1, <3>1 DEF IsWalk
    <3>2. CASE n # 0
      <4>1. n \in 1 .. Len(list)
        BY <3>2
      <4>2. g[n] = KeptStep(list, S, g[n - 1], n)
        BY <1>1, <4>1 DEF IsWalk
      <4> QED
        BY <3>2, <4>2 DEF KeptStep
    <3> QED
      BY <3>1, <3>2
  <2> QED
    BY <1>1, <2>1 DEF IsWalk
<1>3. Without(list, S) = (CHOOSE f : f = Def(f))[Len(list)]
  BY Zenon DEF Without
<1> DEFINE h == CHOOSE f : f = Def(f)
<1>4. h = Def(h)
  <2> HIDE DEF Def
  <2> QED
    BY <1>2
<1>5. ASSUME NEW n \in 1 .. Len(list)
      PROVE  h[n] = KeptStep(list, S, h[n - 1], n)
  <2>1. Def(h)[n] = KeptStep(list, S, h[n - 1], n)
    BY DEF KeptStep
  <2> HIDE DEF Def, h
  <2> QED
    BY <1>4, <2>1
<1>6. h[0] = << >> /\ DOMAIN h = 0 .. Len(list)
  <2>1. Def(h)[0] = << >> /\ DOMAIN Def(h) = 0 .. Len(list)
    OBVIOUS
  <2> HIDE DEF Def, h
  <2> QED
    BY <1>4, <2>1
<1>7. h = [n \in 0 .. Len(list) |-> h[n]]
  <2>1. Def(h) = [n \in DOMAIN Def(h) |-> Def(h)[n]]
    OBVIOUS
  <2> HIDE DEF Def, h
  <2> QED
    BY <1>4, <1>6, <2>1
<1> HIDE DEF h
<1> DEFINE P == {n \in 0 .. Len(list) : h[n] \in Seq(X)}
<1>8. Len(list) \in Nat
  OBVIOUS
<1>9. 0 .. Len(list) \subseteq P
  <2>1. 0 \in P
    BY <1>6
  <2>2. ASSUME NEW n \in 1 .. Len(list), n - 1 \in P
        PROVE  n \in P
    <3>1. h[n - 1] \in Seq(X) /\ list[n] \in X
      BY <2>2
    <3>2. KeptStep(list, S, h[n - 1], n) \in Seq(X)
      BY <3>1 DEF KeptStep
    <3> QED
      BY <1>5, <3>2
  <2> HIDE DEF P
  <2> QED
    BY <1>8, <2>1, <2>2, SetInduction
<1>10. IsWalk(h, X, list, S)
  BY <1>5, <1>6, <1>7, <1>9 DEF IsWalk
<1> QED
  BY <1>3, <1>10, Zenon DEF h

\* h lists the positions of list that are left, up to n, in order.
Enumerates(h, new, list, S, n) ==
  /\ h \in [1 .. Len(new) -> {i \in Left(list, S) : i <= n}]
  /\ \A j, k \in 1 .. Len(new) : j < k => h[j] < h[k]
  /\ \A i \in Left(list, S) : i <= n => \E k \in 1 .. Len(new) : h[k] = i
  /\ \A k \in 1 .. Len(new) : new[k] = list[h[k]]

\* The main lemma: the new list consists of the items that are left, each
\* once, in their order.
LEMMA WithoutSelects ==
  ASSUME NEW X, NEW list \in Seq(X), NEW S
  PROVE  /\ Without(list, S) \in Seq(X)
         /\ \E h : Enumerates(h, Without(list, S), list, S, Len(list))
<1>1. PICK f : IsWalk(f, X, list, S) /\ Without(list, S) = f[Len(list)]
  BY KeptIs, Zenon
<1>2. Len(list) \in Nat
  OBVIOUS
<1> DEFINE P == {n \in 0 .. Len(list) : \E h : Enumerates(h, f[n], list, S, n)}
<1>3. 0 \in P
  <2>1. f[0] = << >>
    BY <1>1 DEF IsWalk
  <2>2. Enumerates(<< >>, << >>, list, S, 0)
    BY DEF Enumerates, Left
  <2> QED
    BY <1>2, <2>1, <2>2
<1>4. ASSUME NEW n \in 1 .. Len(list), n - 1 \in P
      PROVE  n \in P
  <2>1. PICK h : Enumerates(h, f[n - 1], list, S, n - 1)
    BY <1>4
  <2>2. /\ f[n] = KeptStep(list, S, f[n - 1], n)
        /\ f[n - 1] \in Seq(X) /\ list[n] \in X
    BY <1>1 DEF IsWalk
  <2> DEFINE old == f[n - 1]
             L == Len(old)
  <2>3. CASE list[n] \in S
    <3>1. f[n] = old /\ n \notin Left(list, S)
      BY <2>2, <2>3 DEF KeptStep, Left
    <3>2. \A i \in Left(list, S) : i <= n - 1 <=> i <= n
      BY <3>1 DEF Left
    <3>3. Enumerates(h, f[n], list, S, n)
      <4>1. {i \in Left(list, S) : i <= n} = {i \in Left(list, S) : i <= n - 1}
        BY <3>2
      <4> QED
        BY <2>1, <3>1, <3>2, <4>1 DEF Enumerates
    <3> QED
      BY <3>3
  <2>4. CASE list[n] \notin S
    <3>1. f[n] = Append(old, list[n]) /\ n \in Left(list, S)
      BY <2>2, <2>4 DEF KeptStep, Left
    <3>2. /\ L \in Nat /\ Len(f[n]) = L + 1 /\ f[n][L + 1] = list[n]
          /\ \A k \in 1 .. L : f[n][k] = old[k]
      BY <2>2, <3>1
    <3> DEFINE g == [k \in 1 .. L + 1 |-> IF k = L + 1 THEN n ELSE h[k]]
    <3>3. L \in Nat /\ g[L + 1] = n /\ \A k \in 1 .. L : g[k] = h[k]
      BY <3>2
    <3>4. \A k \in 1 .. L : h[k] \in Left(list, S) /\ h[k] <= n - 1
      BY <2>1 DEF Enumerates
    <3>5. \A i \in Left(list, S) : i \in Nat
      BY DEF Left
    <3>6. ASSUME NEW k \in 1 .. L + 1
          PROVE  g[k] \in Left(list, S) /\ g[k] <= n
      <4> HIDE DEF g, L
      <4>1. CASE k = L + 1
        BY <3>1, <3>3, <4>1
      <4>2. CASE k # L + 1
        <5>1. k \in 1 .. L
          BY <3>3, <4>2
        <5> QED
          BY <3>3, <3>4, <3>5, <5>1
      <4> QED
        BY <4>1, <4>2
    <3>7. g \in [1 .. L + 1 -> {i \in Left(list, S) : i <= n}]
      BY <3>6
    <3> HIDE DEF g, L
    <3>8. ASSUME NEW j \in 1 .. L + 1, NEW k \in 1 .. L + 1, j < k
          PROVE  g[j] < g[k]
      <4>1. j \in 1 .. L
        BY <3>3, <3>8
      <4>2. g[j] = h[j] /\ h[j] <= n - 1 /\ h[j] \in Nat
        BY <3>3, <3>4, <3>5, <4>1
      <4>3. CASE k = L + 1
        BY <3>3, <4>2, <4>3
      <4>4. CASE k # L + 1
        <5>1. k \in 1 .. L
          BY <3>3, <4>4
        <5>2. h[j] < h[k]
          BY <2>1, <3>8, <4>1, <5>1 DEF Enumerates, L
        <5> QED
          BY <3>3, <4>2, <5>1, <5>2
      <4> QED
        BY <4>3, <4>4
    <3>9. ASSUME NEW i \in Left(list, S), i <= n
          PROVE  \E k \in 1 .. L + 1 : g[k] = i
      <4>1. CASE i = n
        BY <3>3, <4>1
      <4>2. CASE i # n
        <5>1. i <= n - 1
          BY <3>5, <3>9, <4>2
        <5>2. PICK k \in 1 .. L : h[k] = i
          BY <2>1, <5>1 DEF Enumerates, L
        <5>3. k \in 1 .. L + 1 /\ g[k] = i
          BY <3>3, <5>2
        <5> QED
          BY <5>3
      <4> QED
        BY <4>1, <4>2
    <3>10. ASSUME NEW k \in 1 .. L + 1
           PROVE  f[n][k] = list[g[k]]
      <4>1. CASE k = L + 1
        BY <3>2, <3>3, <4>1
      <4>2. CASE k # L + 1
        <5>1. k \in 1 .. L
          BY <3>3, <4>2
        <5>2. old[k] = list[h[k]]
          BY <2>1, <5>1 DEF Enumerates, L
        <5> QED
          BY <3>2, <3>3, <5>1, <5>2
      <4> QED
        BY <4>1, <4>2
    <3>11. Enumerates(g, f[n], list, S, n)
      BY <3>2, <3>7, <3>8, <3>9, <3>10 DEF Enumerates
    <3> QED
      BY <3>11
  <2> QED
    BY <2>3, <2>4
<1>5. Len(list) \in P
  <2> HIDE DEF P
  <2>1. 0 .. Len(list) \subseteq P
    BY <1>2, <1>3, <1>4, SetInduction
  <2> QED
    BY <1>2, <2>1
<1>6. f[Len(list)] \in Seq(X)
  BY <1>1, <1>2 DEF IsWalk
<1> QED
  BY <1>1, <1>5, <1>6

\* The items of a list.
ItemsOf(list) == {list[i] : i \in 1 .. Len(list)}

\* The items that are left are those that are not in S.
LEMMA WithoutItems ==
  ASSUME NEW X, NEW list \in Seq(X), NEW S
  PROVE  ItemsOf(Without(list, S)) = ItemsOf(list) \ S
<1> DEFINE new == Without(list, S)
<1>1. PICK h : Enumerates(h, new, list, S, Len(list))
  BY WithoutSelects, Zenon
<1> HIDE DEF new
<1>2. ASSUME NEW k \in 1 .. Len(new)
      PROVE  new[k] \in ItemsOf(list) \ S
  BY <1>1 DEF Enumerates, Left, ItemsOf
<1>3. ASSUME NEW i \in 1 .. Len(list), list[i] \notin S
      PROVE  \E k \in 1 .. Len(new) : new[k] = list[i]
  <2>1. i \in Left(list, S) /\ i <= Len(list)
    BY <1>3 DEF Left
  <2> QED
    BY <1>1, <2>1 DEF Enumerates
<1>4. ItemsOf(new) = ItemsOf(list) \ S
  BY <1>2, <1>3 DEF ItemsOf
<1> QED
  BY <1>4 DEF new

\* A list without repetitions stays one.
LEMMA WithoutDistinct ==
  ASSUME NEW X, NEW list \in Seq(X), NEW S,
         \A i, j \in 1 .. Len(list) : list[i] = list[j] => i = j
  PROVE  \A i, j \in 1 .. Len(Without(list, S)) :
           Without(list, S)[i] = Without(list, S)[j] => i = j
<1> DEFINE new == Without(list, S)
<1>1. PICK h : Enumerates(h, new, list, S, Len(list))
  BY WithoutSelects, Zenon
<1>2. new \in Seq(X)
  BY WithoutSelects, Zenon
<1> HIDE DEF new
<1>3. ASSUME NEW i \in 1 .. Len(new), NEW j \in 1 .. Len(new), new[i] = new[j],
             i < j
      PROVE  FALSE
  <2>1. h[i] < h[j] /\ h[i] \in 1 .. Len(list) /\ h[j] \in 1 .. Len(list)
    BY <1>1, <1>3 DEF Enumerates, Left
  <2>2. list[h[i]] = list[h[j]]
    BY <1>1, <1>3 DEF Enumerates
  <2> QED
    BY <2>1, <2>2
<1>4. ASSUME NEW i \in 1 .. Len(new), NEW j \in 1 .. Len(new), new[i] = new[j]
      PROVE  i = j
  BY <1>2, <1>3, <1>4
<1> QED
  BY <1>4 DEF new

\* The positions of the items of list that are in T.
Positions(list, T) == {i \in 1 .. Len(list) : list[i] \in T}

\* Those of them that are left.
LeftOf(list, S, T) == {i \in Left(list, S) : list[i] \in T}

\* The positions of the items of T, before and after, are equally many.
LEMMA WithoutCount ==
  ASSUME NEW X, NEW list \in Seq(X), NEW S, NEW T
  PROVE  Cardinality(Positions(Without(list, S), T)) =
           Cardinality(LeftOf(list, S, T))
<1> DEFINE new == Without(list, S)
           A == {k \in 1 .. Len(new) : new[k] \in T}
           B == {i \in Left(list, S) : list[i] \in T}
<1>1. PICK h : Enumerates(h, new, list, S, Len(list))
  BY WithoutSelects, Zenon
<1>2. new \in Seq(X)
  BY WithoutSelects, Zenon
<1> HIDE DEF new
<1> DEFINE g == [k \in A |-> h[k]]
<1>3. g \in [A -> B]
  BY <1>1 DEF Enumerates
<1>4. ASSUME NEW i \in A, NEW j \in A, g[i] = g[j]
      PROVE  i = j
  <2>1. i \in 1 .. Len(new) /\ j \in 1 .. Len(new) /\ h[i] = h[j]
    BY <1>4
  <2>2. Len(new) \in Nat /\ h[i] \in Nat /\ h[j] \in Nat
    BY <1>1, <1>2, <2>1 DEF Enumerates, Left
  <2>3. ~(i < j) /\ ~(j < i)
    BY <1>1, <2>1, <2>2 DEF Enumerates
  <2> QED
    BY <2>1, <2>2, <2>3
<1>5. ASSUME NEW i \in B
      PROVE  \E k \in A : g[k] = i
  <2>1. i \in Left(list, S) /\ i <= Len(list) /\ list[i] \in T
    BY DEF Left
  <2>2. PICK k \in 1 .. Len(new) : h[k] = i
    BY <1>1, <2>1 DEF Enumerates
  <2>3. new[k] = list[i]
    BY <1>1, <2>2 DEF Enumerates
  <2> QED
    BY <2>1, <2>2, <2>3
<1>6. IsFiniteSet(A)
  <2>1. IsFiniteSet(1 .. Len(new))
    BY <1>2, FS_Interval
  <2> QED
    BY <2>1, FS_Subset
<1>7. ExistsBijection(A, B)
  <2> HIDE DEF A, B, g
  <2>1. g \in Bijection(A, B)
    BY <1>3, <1>4, <1>5 DEF Bijection, Injection, Surjection, IsInjective
  <2> QED
    BY <2>1 DEF ExistsBijection
<1>8. Cardinality(A) = Cardinality(B)
  <2> HIDE DEF A, B
  <2> QED
    BY <1>6, <1>7, FS_Bijection
<1> QED
  BY <1>8 DEF new, Positions, LeftOf

LEMMA PositionsAreFinite ==
  ASSUME NEW X, NEW list \in Seq(X), NEW T
  PROVE  /\ IsFiniteSet(Positions(list, T))
         /\ Cardinality(Positions(list, T)) \in 0 .. Len(list)
<1>1. Len(list) \in Nat
  OBVIOUS
<1>2. IsFiniteSet(1 .. Len(list)) /\ Cardinality(1 .. Len(list)) = Len(list)
  BY <1>1, FS_Interval
<1>3. Positions(list, T) \in SUBSET (1 .. Len(list))
  BY DEF Positions
<1> QED
  BY <1>2, <1>3, FS_Subset, FS_CardinalityType

\* What is left of the items in T: all of them but those that were in S.
LEMMA WithoutLeaves ==
  ASSUME NEW X, NEW list \in Seq(X), NEW S, NEW T
  PROVE  Cardinality(Positions(Without(list, S), T)) =
           Cardinality(Positions(list, T))
             - Cardinality(Positions(list, S \cap T))
<1> DEFINE before == Positions(list, T)
           removed == Positions(list, S \cap T)
           rest == LeftOf(list, S, T)
<1>1. /\ removed \cap rest = {}
      /\ removed \cup rest = before
      /\ rest \in SUBSET before
  BY DEF Left, LeftOf, Positions
<1>2. Cardinality(Positions(Without(list, S), T)) = Cardinality(rest)
  BY WithoutCount
<1>3. /\ IsFiniteSet(before) /\ IsFiniteSet(removed)
      /\ Cardinality(before) \in Nat /\ Cardinality(removed) \in Nat
  BY PositionsAreFinite
<1> HIDE DEF before, removed, rest
<1>4. IsFiniteSet(rest)
  BY <1>1, <1>3, FS_Subset
<1>5. Cardinality(removed \cup rest) =
        Cardinality(removed) + Cardinality(rest)
          - Cardinality(removed \cap rest)
  BY <1>3, <1>4, FS_Union, Zenon
<1>6. Cardinality(rest) \in Nat /\ Cardinality(removed \cap rest) = 0
  BY <1>1, <1>4, FS_CardinalityType, FS_EmptySet
<1>7. Cardinality(removed \cup rest) = Cardinality(before)
  BY <1>1, Zenon
<1>8. Cardinality(rest) = Cardinality(before) - Cardinality(removed)
  BY <1>3, <1>5, <1>6, <1>7
<1> QED
  BY <1>2, <1>8 DEF before, removed

\* No list gets longer when items are removed from it.
LEMMA WithoutShortens ==
  ASSUME NEW X, NEW list \in Seq(X), NEW S
  PROVE  Len(Without(list, S)) \in 0 .. Len(list)
<1> DEFINE new == Without(list, S)
<1>1. new \in Seq(X)
  BY WithoutSelects, Zenon
<1> HIDE DEF new
<1>2. Positions(list, X) = 1 .. Len(list) /\ Positions(new, X) = 1 .. Len(new)
  BY <1>1 DEF Positions
<1>3. Len(list) \in Nat /\ Len(new) \in Nat
  BY <1>1
<1>4. /\ Cardinality(Positions(list, X)) = Len(list)
      /\ Cardinality(Positions(new, X)) = Len(new)
  <2>1. ASSUME NEW n \in Nat
        PROVE  Cardinality(1 .. n) = n
    BY FS_Interval
  <2> QED
    BY <1>2, <1>3, <2>1
<1>5. Cardinality(Positions(new, X)) =
        Cardinality(Positions(list, X)) - Cardinality(Positions(list, S \cap X))
  BY WithoutLeaves DEF new
<1>6. Cardinality(Positions(list, S \cap X)) \in 0 .. Len(list)
  BY PositionsAreFinite
<1> QED
  BY <1>3, <1>4, <1>5, <1>6 DEF new

-----------------------------------------------------------------------------
(* Lists as sets of items, with and without repetitions.                   *)

Distinct(list) == \A i, j \in 1 .. Len(list) : list[i] = list[j] => i = j

LEMMA ItemsAreToSet ==
  ASSUME NEW X, NEW list \in Seq(X)
  PROVE  ItemsOf(list) = ToSet(list) /\ ToSet(list) \subseteq X
  BY DEF ItemsOf, ToSet

LEMMA WithoutList ==
  ASSUME NEW X, NEW list \in Seq(X), NEW S
  PROVE  /\ Without(list, S) \in Seq(X)
         /\ ToSet(Without(list, S)) = ToSet(list) \ S
         /\ Distinct(list) => Distinct(Without(list, S))
<1> DEFINE new == Without(list, S)
<1>1. new \in Seq(X)
  BY WithoutSelects, Zenon
<1>2. ItemsOf(new) = ItemsOf(list) \ S
  BY WithoutItems, Zenon
<1>3. ASSUME Distinct(list)
      PROVE  Distinct(new)
  BY <1>3, WithoutDistinct, Zenon DEF Distinct
<1> HIDE DEF new
<1>4. ToSet(new) = ToSet(list) \ S
  BY <1>1, <1>2, ItemsAreToSet
<1> QED
  BY <1>1, <1>3, <1>4 DEF new

LEMMA AppendList ==
  ASSUME NEW X, NEW list \in Seq(X), NEW s \in X
  PROVE  /\ Append(list, s) \in Seq(X)
         /\ ToSet(Append(list, s)) = ToSet(list) \cup {s}
         /\ Distinct(list) /\ s \notin ToSet(list) => Distinct(Append(list, s))
<1> DEFINE new == Append(list, s)
<1>1. /\ new \in Seq(X) /\ Len(new) = Len(list) + 1
      /\ Len(list) \in Nat
      /\ new[Len(list) + 1] = s
      /\ \A i \in 1 .. Len(list) : new[i] = list[i]
  OBVIOUS
<1> HIDE DEF new
<1>2. ToSet(new) = ToSet(list) \cup {s}
  <2>1. ItemsOf(new) = ItemsOf(list) \cup {s}
    <3>1. ASSUME NEW i \in 1 .. Len(new)
          PROVE  new[i] \in ItemsOf(list) \cup {s}
      BY <1>1 DEF ItemsOf
    <3>2. ASSUME NEW i \in 1 .. Len(list)
          PROVE  list[i] \in ItemsOf(new)
      BY <1>1 DEF ItemsOf
    <3>3. s \in ItemsOf(new)
      BY <1>1 DEF ItemsOf
    <3> QED
      BY <3>1, <3>2, <3>3 DEF ItemsOf
  <2> QED
    BY <1>1, <2>1, ItemsAreToSet
<1>3. ASSUME Distinct(list), s \notin ToSet(list)
      PROVE  Distinct(new)
  <2>1. \A i \in 1 .. Len(list) : list[i] # s
    BY <1>3, ItemsAreToSet DEF ItemsOf
  <2> QED
    BY <1>1, <1>3, <2>1 DEF Distinct
<1> QED
  BY <1>1, <1>2, <1>3 DEF new

LEMMA ConcatIsInjective ==
  ASSUME NEW X, NEW a \in Seq(X), NEW b \in Seq(X)
  PROVE  IsInjective(a \o b) <=>
           /\ Distinct(a) /\ Distinct(b)
           /\ ToSet(a) \cap ToSet(b) = {}
<1> DEFINE c == a \o b
<1>1. /\ c \in Seq(X) /\ Len(c) = Len(a) + Len(b)
      /\ DOMAIN c = 1 .. Len(c)
      /\ Len(a) \in Nat /\ Len(b) \in Nat
      /\ \A i \in 1 .. Len(a) : c[i] = a[i]
      /\ \A i \in 1 .. Len(b) : c[Len(a) + i] = b[i]
      /\ \A i \in Len(a) + 1 .. Len(c) : c[i] = b[i - Len(a)]
  OBVIOUS
<1> HIDE DEF c
<1>2. IsInjective(c) <=> \A i, j \in 1 .. Len(c) : c[i] = c[j] => i = j
  BY <1>1 DEF IsInjective
<1>3. ASSUME Distinct(a), Distinct(b), ToSet(a) \cap ToSet(b) = {},
             NEW i \in 1 .. Len(c), NEW j \in 1 .. Len(c), c[i] = c[j]
      PROVE  i = j
  <2>1. \A k \in 1 .. Len(a), l \in 1 .. Len(b) : a[k] # b[l]
    <3>1. ItemsOf(a) \cap ItemsOf(b) = {}
      BY <1>3, ItemsAreToSet
    <3> QED
      BY <3>1 DEF ItemsOf
  <2>2. CASE i <= Len(a) /\ j <= Len(a)
    BY <1>1, <1>3, <2>2 DEF Distinct
  <2>3. CASE i > Len(a) /\ j > Len(a)
    <3>1. i - Len(a) \in 1 .. Len(b) /\ j - Len(a) \in 1 .. Len(b)
      BY <1>1, <2>3
    <3>2. c[i] = b[i - Len(a)] /\ c[j] = b[j - Len(a)]
      BY <1>1, <2>3
    <3>3. i - Len(a) = j - Len(a)
      BY <1>3, <3>1, <3>2 DEF Distinct
    <3> QED
      BY <1>1, <3>3
  <2>4. CASE i <= Len(a) /\ j > Len(a)
    <3>1. j - Len(a) \in 1 .. Len(b) /\ i \in 1 .. Len(a)
      BY <1>1, <2>4
    <3>2. c[i] = a[i] /\ c[j] = b[j - Len(a)]
      BY <1>1, <2>4
    <3> QED
      BY <1>3, <2>1, <3>1, <3>2
  <2>5. CASE i > Len(a) /\ j <= Len(a)
    <3>1. /\ i - Len(a) \in 1 .. Len(b) /\ j \in 1 .. Len(a)
          /\ i \in Len(a) + 1 .. Len(c)
      BY <1>1, <2>5
    <3>2. c[j] = a[j] /\ c[i] = b[i - Len(a)]
      BY <1>1, <3>1
    <3> QED
      BY <1>3, <2>1, <3>1, <3>2
  <2> QED
    BY <1>1, <2>2, <2>3, <2>4, <2>5
<1>4. ASSUME \A i, j \in 1 .. Len(c) : c[i] = c[j] => i = j
      PROVE  Distinct(a) /\ Distinct(b) /\ ToSet(a) \cap ToSet(b) = {}
  <2>1. Distinct(a)
    BY <1>1, <1>4 DEF Distinct
  <2>2. Distinct(b)
    <3>1. ASSUME NEW i \in 1 .. Len(b), NEW j \in 1 .. Len(b), b[i] = b[j]
          PROVE  i = j
      <4>1. Len(a) + i \in 1 .. Len(c) /\ Len(a) + j \in 1 .. Len(c)
        BY <1>1
      <4>2. c[Len(a) + i] = c[Len(a) + j]
        BY <1>1, <3>1
      <4>3. Len(a) + i = Len(a) + j
        BY <1>4, <4>1, <4>2
      <4> QED
        BY <1>1, <4>3
    <3> QED
      BY <3>1 DEF Distinct
  <2>3. ASSUME NEW i \in 1 .. Len(a), NEW j \in 1 .. Len(b), a[i] = b[j]
        PROVE  FALSE
    <3>1. i \in 1 .. Len(c) /\ Len(a) + j \in 1 .. Len(c)
      BY <1>1
    <3>2. i = Len(a) + j
      BY <1>1, <1>4, <2>3, <3>1
    <3> QED
      BY <1>1, <3>2
  <2> QED
    BY <2>1, <2>2, <2>3, ItemsAreToSet DEF ItemsOf
<1> QED
  BY <1>2, <1>3, <1>4 DEF c

-----------------------------------------------------------------------------
(* Without, item by item.                                                  *)

\* The new list depends on the items passed so far only.
LEMMA WithoutAppend ==
  ASSUME NEW X, NEW list \in Seq(X), NEW x \in X, NEW S
  PROVE  Without(Append(list, x), S) =
           IF x \in S THEN Without(list, S) ELSE Append(Without(list, S), x)
<1> DEFINE longer == Append(list, x)
           N == Len(list)
<1>1. /\ longer \in Seq(X) /\ N \in Nat /\ Len(longer) = N + 1
      /\ longer[N + 1] = x
      /\ \A i \in 1 .. N : longer[i] = list[i]
  OBVIOUS
<1>2. PICK f : IsWalk(f, X, list, S) /\ Without(list, S) = f[N]
  BY KeptIs, Zenon
<1> HIDE DEF longer
<1>3. PICK g : IsWalk(g, X, longer, S) /\ Without(longer, S) = g[N + 1]
  <2>1. \E g : IsWalk(g, X, longer, S) /\ Without(longer, S) = g[Len(longer)]
    BY <1>1, KeptIs, Zenon
  <2> QED
    BY <1>1, <2>1
<1> DEFINE P == {n \in 0 .. N : g[n] = f[n]}
<1>4. 0 .. N \subseteq P
  <2>1. 0 \in P
    BY <1>1, <1>2, <1>3 DEF IsWalk
  <2>2. ASSUME NEW n \in 1 .. N, n - 1 \in P
        PROVE  n \in P
    <3>1. n \in 1 .. Len(longer) /\ longer[n] = list[n]
      BY <1>1
    <3>2. f[n] = KeptStep(list, S, f[n - 1], n)
      BY <1>2 DEF IsWalk
    <3>3. g[n] = KeptStep(longer, S, g[n - 1], n)
      BY <1>3, <3>1 DEF IsWalk
    <3> QED
      BY <2>2, <3>1, <3>2, <3>3 DEF KeptStep
  <2> HIDE DEF P
  <2> QED
    BY <1>1, <2>1, <2>2, SetInduction
<1>5. g[N] = f[N]
  BY <1>1, <1>4
<1>6. g[N + 1] = KeptStep(longer, S, g[N], N + 1)
  <2>1. N + 1 \in 1 .. Len(longer) /\ (N + 1) - 1 = N
    BY <1>1
  <2> HIDE DEF N
  <2>2. g[N + 1] = KeptStep(longer, S, g[(N + 1) - 1], N + 1)
    BY <1>3, <2>1 DEF IsWalk
  <2> QED
    BY <2>1, <2>2
<1> QED
  BY <1>1, <1>2, <1>3, <1>5, <1>6 DEF KeptStep, longer

LEMMA WithoutEmpty ==
  ASSUME NEW S
  PROVE  Without(<< >>, S) = << >>
<1> DEFINE e == << >>
<1>1. e \in Seq({}) /\ Len(e) = 0
  OBVIOUS
<1> HIDE DEF e
<1>2. PICK f : IsWalk(f, {}, e, S) /\ Without(e, S) = f[Len(e)]
  BY <1>1, KeptIs, Zenon
<1> QED
  BY <1>1, <1>2 DEF IsWalk, e

\* The first n items of a list.
LEMMA FirstItems ==
  ASSUME NEW X, NEW list \in Seq(X), NEW n \in 1 .. Len(list)
  PROVE  /\ SubSeq(list, 1, n - 1) \in Seq(X) /\ list[n] \in X
         /\ SubSeq(list, 1, n) = Append(SubSeq(list, 1, n - 1), list[n])
  OBVIOUS

LEMMA AllItems ==
  ASSUME NEW X, NEW list \in Seq(X)
  PROVE  /\ Len(list) \in Nat
         /\ SubSeq(list, 1, Len(list)) = list
         /\ SubSeq(list, 1, 0) = << >>
  OBVIOUS

LEMMA ConcatAppend ==
  ASSUME NEW X, NEW a \in Seq(X), NEW b \in Seq(X), NEW x \in X
  PROVE  a \o Append(b, x) = Append(a \o b, x) /\ a \o b \in Seq(X)
  OBVIOUS

LEMMA ConcatEmpty ==
  ASSUME NEW X, NEW a \in Seq(X)
  PROVE  a \o << >> = a /\ << >> \o a = a
  OBVIOUS

LEMMA WithoutConcat ==
  ASSUME NEW X, NEW a \in Seq(X), NEW b \in Seq(X), NEW S
  PROVE  Without(a \o b, S) = Without(a, S) \o Without(b, S)
<1> DEFINE first(n) == SubSeq(b, 1, n)
           P == {n \in 0 .. Len(b) :
                   Without(a \o first(n), S) =
                     Without(a, S) \o Without(first(n), S)}
<1>1. first(0) = << >> /\ first(Len(b)) = b /\ Len(b) \in Nat
  BY AllItems
<1>2. 0 .. Len(b) \subseteq P
  <2>1. 0 \in P
    <3>1. a \o << >> = a
      BY ConcatEmpty
    <3>2. Without(a, S) \in Seq(X)
      BY WithoutSelects, Zenon
    <3>3. Without(a, S) \o << >> = Without(a, S)
      BY <3>2, ConcatEmpty, Zenon
    <3>4. Without(a \o first(0), S) = Without(a, S) \o Without(first(0), S)
      <4> HIDE DEF first
      <4> QED
        BY <1>1, <3>1, <3>3, WithoutEmpty
    <3> QED
      BY <1>1, <3>4
  <2>2. ASSUME NEW n \in 1 .. Len(b), n - 1 \in P
        PROVE  n \in P
    <3> DEFINE c == first(n - 1)
               x == b[n]
    <3>1. c \in Seq(X) /\ x \in X /\ first(n) = Append(c, x)
      BY FirstItems
    <3>2. Without(a \o c, S) = Without(a, S) \o Without(c, S)
      BY <2>2
    <3> HIDE DEF first, c, x
    <3>3. a \o first(n) = Append(a \o c, x) /\ a \o c \in Seq(X)
      BY <3>1, ConcatAppend
    <3>4. Without(a \o first(n), S) =
            IF x \in S THEN Without(a \o c, S) ELSE Append(Without(a \o c, S), x)
      <4>1. ASSUME NEW l \in Seq(X)
            PROVE  Without(Append(l, x), S) =
                     IF x \in S THEN Without(l, S) ELSE Append(Without(l, S), x)
        BY <3>1, WithoutAppend
      <4> DEFINE l == a \o c
      <4>2. l \in Seq(X) /\ a \o first(n) = Append(l, x)
        BY <3>3
      <4> HIDE DEF l
      <4>3. Without(a \o first(n), S) =
              IF x \in S THEN Without(l, S) ELSE Append(Without(l, S), x)
        BY <4>1, <4>2
      <4> QED
        BY <4>3 DEF l
    <3>5. Without(first(n), S) =
            IF x \in S THEN Without(c, S) ELSE Append(Without(c, S), x)
      BY <3>1, WithoutAppend
    <3>6. Without(a, S) \in Seq(X) /\ Without(c, S) \in Seq(X)
      BY <3>1, WithoutSelects, Zenon
    <3>7. Without(a, S) \o Append(Without(c, S), x) =
            Append(Without(a, S) \o Without(c, S), x)
      BY <3>1, <3>6, ConcatAppend
    <3>8. Without(a \o first(n), S) = Without(a, S) \o Without(first(n), S)
      BY <3>2, <3>4, <3>5, <3>7
    <3> QED
      BY <3>8
  <2> HIDE DEF P
  <2> QED
    BY <1>1, <2>1, <2>2, SetInduction
<1>3. Len(b) \in P
  <2> HIDE DEF P
  <2> QED
    BY <1>1, <1>2
<1> QED
  BY <1>1, <1>3

\* Nothing is removed, or everything.
LEMMA WithoutNone ==
  ASSUME NEW X, NEW b \in Seq(X), NEW S, \A i \in 1 .. Len(b) : b[i] \notin S
  PROVE  Without(b, S) = b
<1> DEFINE first(n) == SubSeq(b, 1, n)
           P == {n \in 0 .. Len(b) : Without(first(n), S) = first(n)}
<1>1. first(0) = << >> /\ first(Len(b)) = b /\ Len(b) \in Nat
  BY AllItems
<1>2. 0 .. Len(b) \subseteq P
  <2>1. 0 \in P
    <3>1. Without(first(0), S) = first(0)
      <4> HIDE DEF first
      <4> QED
        BY <1>1, WithoutEmpty
    <3> QED
      BY <1>1, <3>1
  <2>2. ASSUME NEW n \in 1 .. Len(b), n - 1 \in P
        PROVE  n \in P
    <3>1. /\ first(n - 1) \in Seq(X) /\ b[n] \in X
          /\ first(n) = Append(first(n - 1), b[n])
      BY FirstItems
    <3>2. Without(first(n - 1), S) = first(n - 1)
      BY <2>2
    <3> HIDE DEF first
    <3>3. Without(first(n), S) = first(n)
      BY <3>1, <3>2, WithoutAppend
    <3> QED
      BY <3>3
  <2> HIDE DEF P
  <2> QED
    BY <1>1, <2>1, <2>2, SetInduction
<1>3. Len(b) \in P
  <2> HIDE DEF P
  <2> QED
    BY <1>1, <1>2
<1> QED
  BY <1>1, <1>3

LEMMA WithoutAll ==
  ASSUME NEW X, NEW b \in Seq(X), NEW S, \A i \in 1 .. Len(b) : b[i] \in S
  PROVE  Without(b, S) = << >>
<1> DEFINE new == Without(b, S)
<1>1. new \in Seq(X) /\ ItemsOf(new) = ItemsOf(b) \ S
  BY WithoutSelects, WithoutItems, Zenon
<1>2. ItemsOf(b) \ S = {}
  BY DEF ItemsOf
<1> HIDE DEF new
<1>3. Len(new) = 0
  <2>1. Len(new) # 0 => new[1] \in ItemsOf(new)
    BY <1>1 DEF ItemsOf
  <2> QED
    BY <1>1, <1>2, <2>1
<1>4. new = << >>
  BY <1>1, <1>3
<1> QED
  BY <1>4 DEF new

\* The first item is removed or stays the first one.
LEMMA WithoutHead ==
  ASSUME NEW X, NEW list \in Seq(X), list # << >>, NEW S
  PROVE  Without(list, S) =
           IF Head(list) \in S THEN Without(Tail(list), S)
           ELSE <<Head(list)>> \o Without(Tail(list), S)
<1> DEFINE h == <<Head(list)>>
           t == Tail(list)
<1>1. /\ h \in Seq(X) /\ t \in Seq(X) /\ list = h \o t
      /\ Len(h) = 1 /\ h[1] = Head(list)
  OBVIOUS
<1> HIDE DEF h, t
<1>2. Without(list, S) = Without(h, S) \o Without(t, S)
  BY <1>1, WithoutConcat
<1>3. Without(t, S) \in Seq(X)
  BY <1>1, WithoutSelects, Zenon
<1>4. CASE Head(list) \in S
  <2>1. Without(h, S) = << >>
    BY <1>1, <1>4, WithoutAll
  <2>2. << >> \o Without(t, S) = Without(t, S)
    BY <1>3, ConcatEmpty, Zenon
  <2> QED
    BY <1>2, <1>4, <2>1, <2>2 DEF t
<1>5. CASE Head(list) \notin S
  <2>1. Without(h, S) = h
    BY <1>1, <1>5, WithoutNone
  <2> QED
    BY <1>2, <1>5, <2>1 DEF h, t
<1> QED
  BY <1>4, <1>5

LEMMA ConcatItems ==
  ASSUME NEW X, NEW a \in Seq(X), NEW b \in Seq(X)
  PROVE  /\ a \o b \in Seq(X) /\ Len(a \o b) = Len(a) + Len(b)
         /\ Len(a) \in Nat /\ Len(b) \in Nat
         /\ \A k \in 1 .. Len(a) : (a \o b)[k] = a[k]
         /\ \A k \in 1 .. Len(b) : (a \o b)[Len(a) + k] = b[k]
  OBVIOUS

\* Lists with the same items at the same places are the same.
LEMMA SameItems ==
  ASSUME NEW X, NEW a \in Seq(X), NEW b \in Seq(X), Len(a) = Len(b),
         \A k \in 1 .. Len(a) : a[k] = b[k]
  PROVE  a = b
  OBVIOUS

\* A list around one of its items.
LEMMA SplitAt ==
  ASSUME NEW X, NEW list \in Seq(X), NEW i \in 1 .. Len(list)
  PROVE  /\ SubSeq(list, 1, i - 1) \in Seq(X)
         /\ SubSeq(list, i + 1, Len(list)) \in Seq(X)
         /\ list = (SubSeq(list, 1, i - 1) \o <<list[i]>>)
                     \o SubSeq(list, i + 1, Len(list))
<1> DEFINE a == SubSeq(list, 1, i - 1)
           o == <<list[i]>>
           b == SubSeq(list, i + 1, Len(list))
           c == a \o o
           d == c \o b
<1>1. /\ a \in Seq(X) /\ Len(a) = i - 1
      /\ \A k \in 1 .. i - 1 : a[k] = list[k]
  OBVIOUS
<1>2. /\ b \in Seq(X) /\ Len(b) = Len(list) - i
      /\ \A k \in 1 .. Len(list) - i : b[k] = list[k + i]
  OBVIOUS
<1>3. o \in Seq(X) /\ Len(o) = 1 /\ o[1] = list[i]
  OBVIOUS
<1>4. Len(list) \in Nat
  OBVIOUS
<1> HIDE DEF a, o, b
<1>5. /\ c \in Seq(X) /\ Len(c) = Len(a) + Len(o)
      /\ \A k \in 1 .. Len(a) : c[k] = a[k]
      /\ \A k \in 1 .. Len(o) : c[Len(a) + k] = o[k]
  <2>1. a \in Seq(X) /\ o \in Seq(X)
    BY <1>1, <1>3
  <2> QED
    BY <2>1, ConcatItems
<1> HIDE DEF c
<1>6. /\ d \in Seq(X) /\ Len(d) = Len(c) + Len(b)
      /\ \A k \in 1 .. Len(c) : d[k] = c[k]
      /\ \A k \in 1 .. Len(b) : d[Len(c) + k] = b[k]
  <2>1. c \in Seq(X) /\ b \in Seq(X)
    BY <1>2, <1>5
  <2> QED
    BY <2>1, ConcatItems
<1> HIDE DEF d
<1>7. Len(c) = i /\ Len(d) = Len(list)
  BY <1>1, <1>2, <1>3, <1>4, <1>5, <1>6
<1>8. ASSUME NEW k \in 1 .. Len(list)
      PROVE  list[k] = d[k]
  <2>1. CASE k < i
    BY <1>1, <1>4, <1>5, <1>6, <1>7, <2>1
  <2>2. CASE k = i
    <3>1. c[Len(a) + 1] = o[1]
      BY <1>3, <1>5
    <3>2. Len(a) + 1 = i
      BY <1>1
    <3> QED
      BY <1>3, <1>6, <1>7, <2>2, <3>1, <3>2
  <2>3. CASE i < k
    <3>1. k - i \in 1 .. Len(b) /\ k - i \in 1 .. Len(list) - i
          /\ Len(c) + (k - i) = k /\ (k - i) + i = k
      BY <1>2, <1>4, <1>7, <2>3
    <3>2. d[Len(c) + (k - i)] = b[k - i] /\ b[k - i] = list[(k - i) + i]
      BY <1>2, <1>6, <3>1, Zenon
    <3> QED
      BY <3>1, <3>2
  <2> QED
    BY <2>1, <2>2, <2>3
<1>9. list = d
  BY <1>6, <1>7, <1>8, SameItems
<1> QED
  BY <1>1, <1>2, <1>9 DEF a, b, c, d, o

\* One item is removed: those behind it move up.
LEMMA WithoutOne ==
  ASSUME NEW X, NEW list \in Seq(X), NEW S, NEW i \in 1 .. Len(list),
         list[i] \in S, \A j \in 1 .. Len(list) : j # i => list[j] \notin S
  PROVE  /\ Without(list, S) \in Seq(X)
         /\ Len(Without(list, S)) = Len(list) - 1
         /\ \A k \in 1 .. Len(list) - 1 :
              Without(list, S)[k] = IF k < i THEN list[k] ELSE list[k + 1]
<1> DEFINE a == SubSeq(list, 1, i - 1)
           o == <<list[i]>>
           b == SubSeq(list, i + 1, Len(list))
<1>1. /\ a \in Seq(X) /\ Len(a) = i - 1
      /\ \A k \in 1 .. i - 1 : a[k] = list[k]
  OBVIOUS
<1>2. /\ b \in Seq(X) /\ Len(b) = Len(list) - i
      /\ \A k \in 1 .. Len(list) - i : b[k] = list[k + i]
  OBVIOUS
<1>3. o \in Seq(X) /\ Len(o) = 1 /\ o[1] = list[i]
  OBVIOUS
<1>4. list = (a \o o) \o b
  BY SplitAt, Zenon
<1> HIDE DEF a, o, b
<1>5. a \o o \in Seq(X)
  BY <1>1, <1>3, ConcatItems
<1>6. Without(a, S) = a
  BY <1>1, WithoutNone
<1>7. Without(o, S) = << >>
  BY <1>3, WithoutAll
<1>8. Without(b, S) = b
  <2>1. ASSUME NEW k \in 1 .. Len(b)
        PROVE  b[k] \notin S
    <3>1. b[k] = list[k + i] /\ k + i \in 1 .. Len(list) /\ k + i # i
      BY <1>2
    <3> QED
      BY <3>1
  <2> QED
    BY <1>2, <2>1, WithoutNone
<1>9. Without(list, S) = (a \o << >>) \o b
  <2> DEFINE c == a \o o
  <2>1. c \in Seq(X) /\ Without(c, S) = Without(a, S) \o Without(o, S)
    BY <1>1, <1>3, <1>5, WithoutConcat
  <2> HIDE DEF c
  <2>2. Without(c \o b, S) = Without(c, S) \o Without(b, S)
    <3>1. b \in Seq(X) /\ c \in Seq(X)
      BY <1>2, <2>1
    <3> QED
      BY <3>1, WithoutConcat
  <2> QED
    BY <1>4, <1>6, <1>7, <1>8, <2>1, <2>2 DEF c
<1>10. Without(list, S) = a \o b
  BY <1>1, <1>9, ConcatEmpty
<1>11. /\ a \o b \in Seq(X) /\ Len(a \o b) = Len(list) - 1
       /\ \A k \in 1 .. Len(list) - 1 :
            (a \o b)[k] = IF k < i THEN list[k] ELSE list[k + 1]
  <2>1. a \o b \in Seq(X) /\ Len(a \o b) = Len(list) - 1
    BY <1>1, <1>2
  <2>2. ASSUME NEW k \in 1 .. Len(list) - 1, k < i
        PROVE  (a \o b)[k] = list[k]
    BY <1>1, <1>2, <2>2
  <2>3. ASSUME NEW k \in 1 .. Len(list) - 1, ~(k < i)
        PROVE  (a \o b)[k] = list[k + 1]
    <3>1. (a \o b)[k] = b[k - (i - 1)]
      BY <1>1, <1>2, <2>3
    <3>2. k - (i - 1) \in 1 .. Len(list) - i
      BY <2>3
    <3>3. b[k - (i - 1)] = list[(k - (i - 1)) + i]
      BY <1>2, <3>2
    <3> QED
      BY <2>3, <3>1, <3>3
  <2> QED
    BY <2>1, <2>2, <2>3
<1> QED
  BY <1>10, <1>11
=============================================================================
