-------------------------- MODULE Backtest_proofs --------------------------
(***************************************************************************)
(* Proofs about Backtest for every table, batch and request.  What folds   *)
(* and recursive functions compute is proved by induction, which the least *)
(* element of a set of numbers (WFMin) gives for sets in place of          *)
(* predicates.                                                             *)
(***************************************************************************)
EXTENDS Backtest, WalkForward_proofs, FiniteSetTheorems

-----------------------------------------------------------------------------
(* Induction *)

LEMMA Least ==
    ASSUME NEW S, S \subseteq Nat, S # {}
    PROVE  \E m \in S : \A n \in S : m <= n
<1>1. IsWellFoundedOn(OpToRel(<, Nat), Nat)
  BY NatLessThanWellFounded
<1>2. PICK m \in S : \A n \in S : ~ (<<n, m>> \in OpToRel(<, Nat))
  BY <1>1, WFMin
<1>3. ASSUME NEW n \in S PROVE m <= n
  <2>1. ~ (n < m)
    BY <1>2, <1>3 DEF OpToRel
  <2>2. QED
    BY <2>1
<1>4. QED
  BY <1>3

LEMMA Induction ==
    ASSUME NEW S, 0 \in S, \A n \in Nat : n \in S => n + 1 \in S
    PROVE  Nat \subseteq S
<1> SUFFICES ASSUME Nat \ S # {} PROVE FALSE
  OBVIOUS
<1>1. PICK m \in Nat \ S : \A n \in Nat \ S : m <= n
  BY Least
<1>2. m # 0 /\ m - 1 \in Nat /\ ~ (m <= m - 1)
  BY <1>1
<1>3. m - 1 \in S
  BY <1>1, <1>2
<1>4. (m - 1) + 1 = m
  BY <1>1
<1>5. QED
  BY <1>1, <1>2, <1>3, <1>4

LEMMA InductionUpTo ==
    ASSUME NEW n \in Nat, NEW S, 0 \in S, \A k \in 1 .. n : k - 1 \in S => k \in S
    PROVE  0 .. n \subseteq S
<1> DEFINE T == S \cup {k \in Nat : k > n}
<1>1. 0 \in T
  OBVIOUS
<1>2. ASSUME NEW k \in Nat, k \in T PROVE k + 1 \in T
  <2>1. CASE k + 1 > n
    BY <2>1
  <2>2. CASE ~ (k + 1 > n)
    <3>1. k \in S /\ k + 1 \in 1 .. n /\ (k + 1) - 1 = k
      BY <1>2, <2>2
    <3>2. QED
      BY <3>1
  <2>3. QED
    BY <2>1, <2>2
<1>3. Nat \subseteq T
  <2> HIDE DEF T
  <2>1. QED
    BY <1>1, <1>2, Induction
<1>4. QED
  BY <1>3

\* The largest of a finite set of numbers, and of numbers up to a bound.
LEMMA Largest ==
    ASSUME NEW n \in Nat, NEW S, S \subseteq 0 .. n, S # {}
    PROVE  Max(S) \in S /\ \A x \in S : Max(S) >= x
<1>1. PICK d \in {n - x : x \in S} : \A e \in {n - x : x \in S} : d <= e
  <2>1. \A x \in S : n - x \in Nat
    OBVIOUS
  <2>2. {n - x : x \in S} \subseteq Nat
    BY <2>1
  <2>3. {n - x : x \in S} # {}
    OBVIOUS
  <2>4. QED
    BY <2>2, <2>3, Least
<1>2. PICK x \in S : d = n - x
  BY <1>1
<1>3. \A y \in S : x >= y
  <2> SUFFICES ASSUME NEW y \in S PROVE x >= y
    OBVIOUS
  <2>1. n - x <= n - y
    BY <1>1, <1>2
  <2>2. QED
    BY <2>1
<1>4. QED
  BY <1>3 DEF Max

-----------------------------------------------------------------------------
(* Folds: a function that takes one element after the other off a finite set *)

Picks(pick, S) == \A s \in SUBSET S : s # {} => pick[s] \in s

IsFold(h, S, V, base, step, pick) ==
    /\ h \in [SUBSET S -> V]
    /\ \A s \in SUBSET S : h[s] = IF s = {} THEN base ELSE step[pick[s]][h[s \ {pick[s]}]]

\* An element is taken off a subset of S.
OneLess(s, S, pick) ==
    /\ IsFiniteSet(s) /\ Cardinality(s) \in Nat
    /\ Cardinality(s) = 0 <=> s = {}
    /\ Cardinality(s) <= Cardinality(S)
    /\ s # {} => /\ pick[s] \in S /\ s \ {pick[s]} \in SUBSET S
                 /\ Cardinality(s \ {pick[s]}) = Cardinality(s) - 1

LEMMA TakenOff ==
    ASSUME NEW S, IsFiniteSet(S), NEW pick, Picks(pick, S), NEW s \in SUBSET S
    PROVE  OneLess(s, S, pick)
<1>1. IsFiniteSet(s) /\ Cardinality(s) <= Cardinality(S)
  BY FS_Subset
<1>2. Cardinality(s) \in Nat /\ (Cardinality(s) = 0 <=> s = {})
  BY <1>1, FS_CardinalityType, FS_EmptySet
<1>3. ASSUME s # {} PROVE Cardinality(s \ {pick[s]}) = Cardinality(s) - 1
  <2>1. pick[s] \in s
    BY <1>3 DEF Picks
  <2>2. QED
    BY <1>1, <2>1, FS_RemoveElement
<1>4. QED
  BY <1>1, <1>2, <1>3 DEF Picks, OneLess

LEMMA FoldExists ==
    ASSUME NEW S, IsFiniteSet(S), NEW V, NEW base \in V, NEW step \in [S -> [V -> V]],
           NEW pick, Picks(pick, S)
    PROVE  \E h : IsFold(h, S, V, base, step, pick)
<1> DEFINE Below(n) == {s \in SUBSET S : Cardinality(s) <= n}
           Folds(n, h) == \A s \in Below(n) :
                             h[s] = IF s = {} THEN base ELSE step[pick[s]][h[s \ {pick[s]}]]
           N0 == {n \in Nat : \E h \in [Below(n) -> V] : Folds(n, h)}
<1>1. ASSUME NEW s \in SUBSET S
      PROVE  /\ IsFiniteSet(s) /\ Cardinality(s) \in Nat
             /\ Cardinality(s) = 0 <=> s = {}
             /\ Cardinality(s) <= Cardinality(S)
             /\ s # {} => /\ pick[s] \in S /\ s \ {pick[s]} \in SUBSET S
                          /\ Cardinality(s \ {pick[s]}) = Cardinality(s) - 1
  <2> HIDE DEF Below, Folds, N0
  <2>1. OneLess(s, S, pick)
    BY TakenOff, Zenon
  <2>2. QED
    BY <2>1 DEF OneLess
<1>a. ASSUME NEW n \in Nat, NEW s
      PROVE  s \in Below(n) <=> s \in SUBSET S /\ Cardinality(s) <= n
  OBVIOUS
<1> HIDE DEF Below
<1>2. 0 \in N0
  <2> DEFINE h == [s \in Below(0) |-> base]
  <2>1. ASSUME NEW s \in Below(0) PROVE s = {}
    <3>1. s \in SUBSET S /\ Cardinality(s) <= 0
      BY <1>a
    <3>2. Cardinality(s) \in Nat /\ (Cardinality(s) = 0 <=> s = {})
      BY <1>1, <3>1
    <3>3. QED
      BY <3>1, <3>2
  <2>2. h \in [Below(0) -> V] /\ Folds(0, h)
    BY <2>1
  <2>3. QED
    BY <2>2
<1>3. ASSUME NEW n \in Nat, n \in N0 PROVE n + 1 \in N0
  <2>1. PICK g \in [Below(n) -> V] : Folds(n, g)
    BY <1>3
  <2> DEFINE Value(s) == IF s = {} THEN base ELSE step[pick[s]][g[s \ {pick[s]}]]
             h == [s \in Below(n + 1) |-> Value(s)]
  <2>2. ASSUME NEW s \in Below(n + 1), s # {} PROVE s \ {pick[s]} \in Below(n) /\ pick[s] \in S
    <3>1. s \in SUBSET S /\ Cardinality(s) <= n + 1
      BY <1>a
    <3>2. /\ pick[s] \in S /\ s \ {pick[s]} \in SUBSET S /\ Cardinality(s) \in Nat
          /\ Cardinality(s \ {pick[s]}) = Cardinality(s) - 1
      BY <1>1, <2>2, <3>1
    <3>3. Cardinality(s \ {pick[s]}) <= n
      BY <3>1, <3>2
    <3>4. QED
      BY <1>a, <3>2, <3>3
  <2>3. \A s \in Below(n) : s \in Below(n + 1) /\ h[s] = g[s]
    <3> SUFFICES ASSUME NEW s \in Below(n) PROVE s \in Below(n + 1) /\ h[s] = g[s]
      OBVIOUS
    <3>1. s \in Below(n + 1)
      <4>1. s \in SUBSET S /\ Cardinality(s) <= n
        BY <1>a
      <4>2. Cardinality(s) \in Nat
        BY <1>1, <4>1
      <4>3. Cardinality(s) <= n + 1
        BY <4>1, <4>2
      <4>4. QED
        BY <1>a, <4>1, <4>3
    <3>2. g[s] = Value(s)
      BY <2>1
    <3>3. QED
      BY <3>1, <3>2
  <2>4. h \in [Below(n + 1) -> V]
    <3>1. ASSUME NEW s \in Below(n + 1) PROVE Value(s) \in V
      <4>1. CASE s = {}
        BY <4>1
      <4>2. CASE s # {}
        <5>1. g[s \ {pick[s]}] \in V /\ step[pick[s]] \in [V -> V]
          BY <2>2, <4>2
        <5>2. QED
          BY <4>2, <5>1
      <4>3. QED
        BY <4>1, <4>2
    <3>2. QED
      BY <3>1
  <2>5. Folds(n + 1, h)
    <3> SUFFICES ASSUME NEW s \in Below(n + 1)
                 PROVE  h[s] = IF s = {} THEN base ELSE step[pick[s]][h[s \ {pick[s]}]]
      OBVIOUS
    <3>1. s # {} => h[s \ {pick[s]}] = g[s \ {pick[s]}]
      BY <2>2, <2>3
    <3>2. h[s] = Value(s)
      OBVIOUS
    <3> HIDE DEF h
    <3>3. QED
      BY <3>1, <3>2
  <2> HIDE DEF h
  <2>6. \E f \in [Below(n + 1) -> V] : Folds(n + 1, f)
    BY <2>4, <2>5
  <2> HIDE DEF Folds
  <2>7. QED
    BY <2>6
<1>4. Cardinality(S) \in N0
  <2> HIDE DEF N0
  <2>1. Nat \subseteq N0
    BY <1>2, <1>3, Induction
  <2>2. QED
    BY <2>1, FS_CardinalityType
<1>5. PICK h \in [Below(Cardinality(S)) -> V] : Folds(Cardinality(S), h)
  BY <1>4
<1>6. Below(Cardinality(S)) = SUBSET S
  <2>1. Cardinality(S) \in Nat
    BY FS_CardinalityType
  <2>2. \A s : s \in Below(Cardinality(S)) <=> s \in SUBSET S /\ Cardinality(s) <= Cardinality(S)
    BY <1>a, <2>1
  <2>3. \A s : s \in Below(Cardinality(S)) <=> s \in SUBSET S
    BY <1>1, <2>2
  <2>4. QED
    BY <2>3
<1>7. IsFold(h, S, V, base, step, pick)
  BY <1>5, <1>6 DEF IsFold
<1>8. QED
  BY <1>7

\* What holds of the empty set and with every element put back holds of the whole set.
LEMMA FoldTyped ==
    ASSUME NEW S, IsFiniteSet(S), NEW pick, Picks(pick, S), NEW V, NEW g, g[{}] \in V,
           \A s \in SUBSET S : s # {} /\ g[s \ {pick[s]}] \in V => g[s] \in V
    PROVE  g[S] \in V
<1> DEFINE N0 == {n \in Nat : \A s \in SUBSET S : Cardinality(s) = n => g[s] \in V}
<1>1. 0 \in N0
  <2> SUFFICES ASSUME NEW s \in SUBSET S, Cardinality(s) = 0 PROVE g[s] \in V
    OBVIOUS
  <2> HIDE DEF N0
  <2>1. OneLess(s, S, pick)
    BY TakenOff, Zenon
  <2>2. QED
    BY <2>1 DEF OneLess
<1>2. ASSUME NEW n \in Nat, n \in N0 PROVE n + 1 \in N0
  <2> SUFFICES ASSUME NEW s \in SUBSET S, Cardinality(s) = n + 1 PROVE g[s] \in V
    OBVIOUS
  <2> HIDE DEF N0
  <2>0. OneLess(s, S, pick)
    BY TakenOff, Zenon
  <2>1. /\ s # {} /\ s \ {pick[s]} \in SUBSET S /\ Cardinality(s \ {pick[s]}) = n
    BY <2>0 DEF OneLess
  <2>2. g[s \ {pick[s]}] \in V
    BY <1>2, <2>1 DEF N0
  <2>3. QED
    BY <2>1, <2>2
<1> HIDE DEF N0
<1>3. Nat \subseteq N0
  BY <1>1, <1>2, Induction
<1>4. Cardinality(S) \in N0 /\ S \in SUBSET S
  BY <1>3, FS_CardinalityType
<1>5. QED
  BY <1>4 DEF N0

LEMMA Prefix ==
    ASSUME NEW n \in Nat, NEW k \in 1 .. n
    PROVE  /\ 1 .. k \in SUBSET (1 .. n) /\ 1 .. k # {} /\ Max(1 .. k) = k
           /\ (1 .. k) \ {k} = 1 .. (k - 1)
<1>1. 1 .. k \in SUBSET (1 .. n) /\ (1 .. k) \ {k} = 1 .. (k - 1) /\ k \in 1 .. k
  OBVIOUS
<1>2. Max(1 .. k) \in 1 .. k /\ Max(1 .. k) >= k
  <2>1. 1 .. k \subseteq 0 .. k /\ k \in Nat /\ 1 .. k # {}
    OBVIOUS
  <2>2. Max(1 .. k) \in 1 .. k /\ \A x \in 1 .. k : Max(1 .. k) >= x
    BY <2>1, Largest
  <2>3. QED
    BY <1>1, <2>2
<1>3. Max(1 .. k) = k
  BY <1>2
<1>4. QED
  BY <1>1, <1>3

\* FoldLeft over n elements: a function from what is folded so far, and the values after each.
IsFoldLeft(h, n, V, base, step) ==
    /\ h \in [SUBSET (1 .. n) -> V]
    /\ \A s \in SUBSET (1 .. n) :
          h[s] = IF s = {} THEN base ELSE step[Max(s)][h[s \ {Max(s)}]]
    /\ \A s \in SUBSET (1 .. n) : s # {} => Max(s) \in 1 .. n

LEMMA FoldLeftExists ==
    ASSUME NEW n \in Nat, NEW V, NEW base \in V, NEW step \in [1 .. n -> [V -> V]]
    PROVE  \E h : IsFoldLeft(h, n, V, base, step)
<1> DEFINE pick == [s \in SUBSET (1 .. n) |-> Max(s)]
<1>1. ASSUME NEW s \in SUBSET (1 .. n), s # {} PROVE pick[s] \in s
  <2>1. s \subseteq 0 .. n
    OBVIOUS
  <2>2. QED
    BY <1>1, <2>1, Largest
<1>2. IsFiniteSet(1 .. n)
  BY FS_Interval
<1>3. \A s \in SUBSET (1 .. n) : pick[s] = Max(s)
  OBVIOUS
<1>4. Picks(pick, 1 .. n)
  BY <1>1 DEF Picks
<1> HIDE DEF pick
<1>5. PICK h : IsFold(h, 1 .. n, V, base, step, pick)
  BY <1>2, <1>4, FoldExists
<1>6. \A s \in SUBSET (1 .. n) : h[s] = IF s = {} THEN base ELSE step[Max(s)][h[s \ {Max(s)}]]
  BY <1>3, <1>5 DEF IsFold
<1>7. \A s \in SUBSET (1 .. n) : s # {} => Max(s) \in 1 .. n
  BY <1>1, <1>3
<1>8. IsFoldLeft(h, n, V, base, step)
  BY <1>5, <1>6, <1>7 DEF IsFold, IsFoldLeft
<1>9. QED
  BY <1>8

RunsLeft(h, n, V, base, step) ==
    /\ h[1 .. 0] = base
    /\ \A k \in 1 .. n : /\ h[1 .. k] \in V /\ h[1 .. (k - 1)] \in V
                         /\ h[1 .. k] = step[k][h[1 .. (k - 1)]]

LEMMA FoldLeftRuns ==
    ASSUME NEW n \in Nat, NEW V, NEW base \in V, NEW step \in [1 .. n -> [V -> V]],
           NEW h, IsFoldLeft(h, n, V, base, step)
    PROVE  RunsLeft(h, n, V, base, step)
<1>1. h[1 .. 0] = base
  <2>1. 1 .. 0 = {} /\ 1 .. 0 \in SUBSET (1 .. n)
    OBVIOUS
  <2>2. QED
    BY <2>1 DEF IsFoldLeft
<1>2. ASSUME NEW k \in 1 .. n
      PROVE  h[1 .. k] \in V /\ h[1 .. (k - 1)] \in V /\ h[1 .. k] = step[k][h[1 .. (k - 1)]]
  <2>1. 1 .. k \in SUBSET (1 .. n) /\ 1 .. k # {} /\ Max(1 .. k) = k
        /\ (1 .. k) \ {k} = 1 .. (k - 1) /\ 1 .. (k - 1) \in SUBSET (1 .. n)
    BY Prefix
  <2>2. h[1 .. k] = step[Max(1 .. k)][h[(1 .. k) \ {Max(1 .. k)}]]
    BY <2>1 DEF IsFoldLeft
  <2>3. h[1 .. k] \in V /\ h[1 .. (k - 1)] \in V
    BY <2>1 DEF IsFoldLeft
  <2>4. QED
    BY <2>1, <2>2, <2>3
<1>3. QED
  BY <1>1, <1>2 DEF RunsLeft

-----------------------------------------------------------------------------
(* Total *)

LEMMA TotalRuns ==
    ASSUME NEW n \in Nat, NEW f \in [1 .. n -> Int]
    PROVE  \E run \in [0 .. n -> Int] :
              /\ run[0] = 0 /\ Total(f) = run[n]
              /\ \A k \in 1 .. n : run[k] = run[k - 1] + f[k]
<1> DEFINE step == [k \in 1 .. n |-> [x \in Int |-> x + f[k]]]
           iter == CHOOSE g : g = [s \in SUBSET (1 .. n) |->
                                      IF s = {} THEN 0 ELSE g[s \ {Max(s)}] + f[Max(s)]]
<1>1. step \in [1 .. n -> [Int -> Int]] /\ \A k \in 1 .. n : \A x \in Int : step[k][x] = x + f[k]
  OBVIOUS
<1> HIDE DEF step
<1>2. PICK h : IsFoldLeft(h, n, Int, 0, step)
  <2>1. 0 \in Int /\ step \in [1 .. n -> [Int -> Int]]
    BY <1>1
  <2>2. QED
    BY <2>1, FoldLeftExists, Zenon
<1>3. h = [s \in SUBSET (1 .. n) |-> IF s = {} THEN 0 ELSE h[s \ {Max(s)}] + f[Max(s)]]
  <2>1. ASSUME NEW s \in SUBSET (1 .. n)
        PROVE  h[s] = IF s = {} THEN 0 ELSE h[s \ {Max(s)}] + f[Max(s)]
    <3>1. CASE s = {}
      BY <1>2, <3>1 DEF IsFoldLeft
    <3>2. CASE s # {}
      <4>1. Max(s) \in 1 .. n /\ h[s \ {Max(s)}] \in Int /\ h[s] = step[Max(s)][h[s \ {Max(s)}]]
        BY <1>2, <3>2 DEF IsFoldLeft
      <4>2. QED
        BY <1>1, <3>2, <4>1
    <3>3. QED
      BY <3>1, <3>2
  <2>2. h \in [SUBSET (1 .. n) -> Int]
    BY <1>2 DEF IsFoldLeft
  <2>3. QED
    BY <2>1, <2>2
<1>4. iter = [s \in SUBSET (1 .. n) |-> IF s = {} THEN 0 ELSE iter[s \ {Max(s)}] + f[Max(s)]]
  BY <1>3
<1>5. Total(f) = iter[1 .. n]
  <2>1. DOMAIN f = 1 .. n
    OBVIOUS
  <2>2. QED
    BY <2>1 DEF Total, FoldLeft, MapThenFoldSet
<1> HIDE DEF iter
<1>6. iter[1 .. 0] = 0
  <2>1. 1 .. 0 = {} /\ 1 .. 0 \in SUBSET (1 .. n)
    OBVIOUS
  <2>2. QED
    BY <1>4, <2>1
<1>7. ASSUME NEW k \in 1 .. n PROVE iter[1 .. k] = iter[1 .. (k - 1)] + f[k]
  <2>1. 1 .. k \in SUBSET (1 .. n) /\ 1 .. k # {} /\ Max(1 .. k) = k
        /\ (1 .. k) \ {k} = 1 .. (k - 1)
    BY Prefix
  <2>2. iter[1 .. k] = iter[(1 .. k) \ {Max(1 .. k)}] + f[Max(1 .. k)]
    BY <1>4, <2>1
  <2>3. QED
    BY <2>1, <2>2
<1> DEFINE run == [k \in 0 .. n |-> iter[1 .. k]]
           Typed == {k \in 0 .. n : iter[1 .. k] \in Int}
<1>8. 0 .. n \subseteq Typed
  <2>1. 0 \in Typed
    BY <1>6
  <2>2. ASSUME NEW k \in 1 .. n, k - 1 \in Typed PROVE k \in Typed
    BY <1>7, <2>2
  <2> HIDE DEF Typed
  <2>3. QED
    BY <2>1, <2>2, InductionUpTo
<1>9. run \in [0 .. n -> Int]
  BY <1>8
<1>10. run[0] = 0 /\ Total(f) = run[n]
  BY <1>5, <1>6
<1>11. ASSUME NEW k \in 1 .. n PROVE run[k] = run[k - 1] + f[k]
  <2>1. k \in 0 .. n /\ k - 1 \in 0 .. n
    OBVIOUS
  <2>2. QED
    BY <1>7, <2>1
<1> HIDE DEF run
<1>12. QED
  BY <1>9, <1>10, <1>11

LEMMA TotalType ==
    ASSUME NEW n \in Nat, NEW f \in [1 .. n -> Int]
    PROVE  Total(f) \in Int /\ (n = 0 => Total(f) = 0)
<1>1. PICK run \in [0 .. n -> Int] : run[0] = 0 /\ Total(f) = run[n]
  BY TotalRuns
<1>2. QED
  BY <1>1

\* The first n amounts.
First(f, n) == [k \in 1 .. n |-> f[k]]

\* The last amount comes on top of the others.
LEMMA TotalStep ==
    ASSUME NEW n \in Nat, NEW f \in [1 .. n + 1 -> Int]
    PROVE  First(f, n) \in [1 .. n -> Int] /\ Total(f) = Total(First(f, n)) + f[n + 1]
<1> DEFINE g == First(f, n)
<1>1. g \in [1 .. n -> Int] /\ \A k \in 1 .. n : g[k] = f[k]
  BY DEF First
<1>2. n + 1 \in Nat
  OBVIOUS
<1>3. PICK r \in [0 .. n + 1 -> Int] :
         /\ r[0] = 0 /\ Total(f) = r[n + 1]
         /\ \A k \in 1 .. n + 1 : r[k] = r[k - 1] + f[k]
  BY <1>2, TotalRuns
<1> HIDE DEF g
<1>4. PICK s \in [0 .. n -> Int] :
         /\ s[0] = 0 /\ Total(g) = s[n]
         /\ \A k \in 1 .. n : s[k] = s[k - 1] + g[k]
  BY <1>1, TotalRuns
<1> DEFINE Same == {k \in 0 .. n : r[k] = s[k]}
<1>5. 0 .. n \subseteq Same
  <2>1. 0 \in Same
    BY <1>3, <1>4
  <2>2. ASSUME NEW k \in 1 .. n, k - 1 \in Same PROVE k \in Same
    <3>1. k \in 1 .. n + 1 /\ k \in 0 .. n /\ r[k - 1] = s[k - 1]
      BY <2>2
    <3>2. r[k] = r[k - 1] + f[k] /\ s[k] = s[k - 1] + g[k] /\ g[k] = f[k]
      BY <1>1, <1>3, <1>4, <3>1
    <3>3. QED
      BY <3>1, <3>2
  <2> HIDE DEF Same
  <2>3. QED
    BY <2>1, <2>2, InductionUpTo
<1>6. r[n] = s[n]
  BY <1>5
<1>7. n + 1 \in 1 .. n + 1 /\ (n + 1) - 1 = n
  OBVIOUS
<1>8. Total(f) = Total(g) + f[n + 1]
  BY <1>3, <1>4, <1>6, <1>7
<1>9. QED
  BY <1>1, <1>8 DEF g

\* The same for the first amounts of a longer sequence.
LEMMA TotalFirst ==
    ASSUME NEW n \in Nat, NEW f \in [1 .. n -> Int], NEW k \in 1 .. n
    PROVE  /\ Total(First(f, k)) = Total(First(f, k - 1)) + f[k]
           /\ Total(First(f, k)) \in Int /\ Total(First(f, k - 1)) \in Int
<1>1. k - 1 \in Nat /\ k \in Nat /\ (k - 1) + 1 = k
  OBVIOUS
<1>2. First(f, k) \in [1 .. k -> Int] /\ First(f, k - 1) \in [1 .. k - 1 -> Int]
      /\ First(First(f, k), k - 1) = First(f, k - 1) /\ First(f, k)[k] = f[k]
  BY <1>1 DEF First
<1>3. Total(First(f, k)) = Total(First(f, k - 1)) + f[k]
  <2>1. First(f, k) \in [1 .. (k - 1) + 1 -> Int]
    BY <1>1, <1>2
  <2>2. Total(First(f, k)) = Total(First(First(f, k), k - 1)) + First(f, k)[(k - 1) + 1]
    BY <1>1, <2>1, TotalStep
  <2>3. QED
    BY <1>1, <1>2, <2>2
<1>4. QED
  BY <1>1, <1>2, <1>3, TotalType

LEMMA FirstEnds ==
    ASSUME NEW n \in Nat, NEW f \in [1 .. n -> Int]
    PROVE  First(f, n) = f /\ Total(First(f, 0)) = 0
<1>1. First(f, n) = f
  BY DEF First
<1>2. First(f, 0) \in [1 .. 0 -> Int]
  BY DEF First
<1>3. QED
  BY <1>1, <1>2, TotalType

\* A constant on top of every amount.
LEMMA TotalRaised ==
    ASSUME NEW n \in Nat, NEW c \in Nat, NEW f \in [1 .. n -> Int], NEW g \in [1 .. n -> Int],
           \A k \in 1 .. n : g[k] = c + f[k]
    PROVE  Total(g) = n * c + Total(f)
<1> DEFINE Good == {k \in 0 .. n : Total(First(g, k)) = k * c + Total(First(f, k))}
<1>1. 0 .. n \subseteq Good
  <2>1. 0 \in Good
    <3>1. 0 * c = 0
      OBVIOUS
    <3>2. QED
      BY <3>1, FirstEnds
  <2>2. ASSUME NEW k \in 1 .. n, k - 1 \in Good PROVE k \in Good
    <3>1. k - 1 \in Nat /\ (k - 1) + 1 = k /\ k \in 0 .. n
      OBVIOUS
    <3>2. k * c = (k - 1) * c + c /\ k * c \in Nat /\ (k - 1) * c \in Nat
      <4>1. k - 1 <= k - 1
        BY <3>1
      <4>2. ((k - 1) + 1) * c = (k - 1) * c + c /\ (k - 1) * c \in Nat
        BY <3>1, <4>1, Products
      <4>3. QED
        BY <3>1, <4>2
    <3>3. /\ Total(First(f, k)) = Total(First(f, k - 1)) + f[k]
          /\ Total(First(f, k - 1)) \in Int /\ Total(First(f, k)) \in Int
      BY TotalFirst
    <3>4. /\ Total(First(g, k)) = Total(First(g, k - 1)) + g[k]
      BY TotalFirst
    <3>5. Total(First(g, k - 1)) = (k - 1) * c + Total(First(f, k - 1))
      BY <2>2
    <3>6. g[k] = c + f[k] /\ f[k] \in Int
      OBVIOUS
    <3>7. Total(First(g, k)) = k * c + Total(First(f, k))
      BY <3>2, <3>3, <3>4, <3>5, <3>6
    <3>8. QED
      BY <3>1, <3>7
  <2> HIDE DEF Good
  <2>3. QED
    BY <2>1, <2>2, InductionUpTo
<1>2. Total(First(g, n)) = n * c + Total(First(f, n))
  BY <1>1
<1>3. QED
  BY <1>2, FirstEnds

\* One amount replaced.
LEMMA TotalChanged ==
    ASSUME NEW n \in Nat, NEW f \in [1 .. n -> Int], NEW g \in [1 .. n -> Int], NEW i \in 1 .. n,
           \A k \in 1 .. n : k # i => g[k] = f[k]
    PROVE  Total(g) = Total(f) + g[i] - f[i]
<1> DEFINE Change(k) == IF k < i THEN 0 ELSE g[i] - f[i]
           Good == {k \in 0 .. n : Total(First(g, k)) = Total(First(f, k)) + Change(k)}
<1>1. 0 .. n \subseteq Good
  <2>1. 0 \in Good
    BY FirstEnds
  <2>2. ASSUME NEW k \in 1 .. n, k - 1 \in Good PROVE k \in Good
    <3>1. Total(First(g, k - 1)) = Total(First(f, k - 1)) + Change(k - 1) /\ k \in 0 .. n
      BY <2>2
    <3>2. /\ Total(First(f, k)) = Total(First(f, k - 1)) + f[k]
          /\ Total(First(f, k - 1)) \in Int /\ Total(First(f, k)) \in Int
      BY TotalFirst
    <3>3. /\ Total(First(g, k)) = Total(First(g, k - 1)) + g[k]
          /\ Total(First(g, k - 1)) \in Int /\ Total(First(g, k)) \in Int
      BY TotalFirst
    <3>4. f[k] \in Int /\ g[k] \in Int /\ f[i] \in Int /\ g[i] \in Int /\ (k # i => g[k] = f[k])
      OBVIOUS
    <3>5. Total(First(g, k)) = Total(First(f, k)) + Change(k)
      BY <3>1, <3>2, <3>3, <3>4
    <3>6. QED
      BY <3>1, <3>5
  <2> HIDE DEF Good
  <2>3. QED
    BY <2>1, <2>2, InductionUpTo
<1>2. Total(First(g, n)) = Total(First(f, n)) + Change(n)
  BY <1>1
<1>3. Total(g) = Total(f) + (g[i] - f[i])
  BY <1>2, FirstEnds
<1>4. Total(f) \in Int /\ f[i] \in Int /\ g[i] \in Int
  BY TotalType
<1>5. QED
  BY <1>3, <1>4

\* An order of n things reaches each of them.
LEMMA OrderReaches ==
    ASSUME NEW n \in Nat, NEW p \in [1 .. n -> 1 .. n], IsInjective(p), NEW j \in 1 .. n
    PROVE  \E i \in 1 .. n : p[i] = j
<1>1. IsFiniteSet(1 .. n) /\ p \in Injection(1 .. n, 1 .. n)
  BY FS_Interval DEF Injection
<1>2. p \in Surjection(1 .. n, 1 .. n)
  BY <1>1, FS_Injection
<1>3. QED
  BY <1>2 DEF Surjection

OrdersOf(n) == {p \in [1 .. n -> 1 .. n] : IsInjective(p)}
Reordered(f, p, n) == [k \in 1 .. n |-> f[p[k]]]
OrdersAgree(n) ==
    \A f \in [1 .. n -> Int] : \A p \in OrdersOf(n) : Total(Reordered(f, p, n)) = Total(f)

\* One step of the induction: the amount of the last place changes places with the last amount.
LEMMA ReorderStep ==
    ASSUME NEW n \in Nat, NEW f \in [1 .. n + 1 -> Int], NEW p \in OrdersOf(n + 1),
           OrdersAgree(n)
    PROVE  Total(Reordered(f, p, n + 1)) = Total(f)
<1> DEFINE g == First(f, n)
           m == p[n + 1]
           r == Reordered(f, p, n + 1)
<1>1. p \in [1 .. n + 1 -> 1 .. n + 1] /\ \A a, b \in 1 .. n + 1 : p[a] = p[b] => a = b
  BY DEF OrdersOf, IsInjective
<1>2. g \in [1 .. n -> Int] /\ Total(f) = Total(g) + f[n + 1] /\ \A k \in 1 .. n : g[k] = f[k]
  BY TotalStep DEF First
<1>3. n + 1 \in Nat /\ n + 1 \in 1 .. n + 1 /\ m \in 1 .. n + 1 /\ f[n + 1] \in Int /\ f[m] \in Int
  BY <1>1
<1>4. r \in [1 .. n + 1 -> Int] /\ \A k \in 1 .. n + 1 : r[k] = f[p[k]]
  <2>1. \A k \in 1 .. n + 1 : f[p[k]] \in Int
    BY <1>1
  <2>2. QED
    BY <2>1 DEF Reordered
<1> HIDE DEF r, g
<1>5. /\ First(r, n) \in [1 .. n -> Int] /\ Total(r) = Total(First(r, n)) + f[m]
      /\ \A k \in 1 .. n : First(r, n)[k] = f[p[k]]
  <2>1. First(r, n) \in [1 .. n -> Int] /\ Total(r) = Total(First(r, n)) + r[n + 1]
    BY <1>4, TotalStep
  <2>2. r[n + 1] = f[m]
    BY <1>3, <1>4
  <2>3. \A k \in 1 .. n : First(r, n)[k] = f[p[k]]
    BY <1>4 DEF First
  <2>4. QED
    BY <2>1, <2>2, <2>3
<1>6. CASE m = n + 1
  <2> DEFINE q == [k \in 1 .. n |-> p[k]]
  <2>1. \A k \in 1 .. n : k \in 1 .. n + 1 /\ k # n + 1 /\ p[k] \in 1 .. n
    <3> SUFFICES ASSUME NEW k \in 1 .. n PROVE k \in 1 .. n + 1 /\ k # n + 1 /\ p[k] \in 1 .. n
      OBVIOUS
    <3>1. k \in 1 .. n + 1 /\ k # n + 1
      OBVIOUS
    <3>2. p[k] \in 1 .. n + 1 /\ p[k] # n + 1
      BY <1>1, <1>3, <1>6, <3>1
    <3>3. QED
      BY <3>1, <3>2
  <2>2. q \in [1 .. n -> 1 .. n] /\ IsInjective(q)
    BY <1>1, <2>1 DEF IsInjective
  <2>3. First(r, n) = Reordered(g, q, n)
    <3>1. \A k \in 1 .. n : First(r, n)[k] = g[q[k]]
      BY <1>2, <1>5, <2>1
    <3>2. First(r, n) = [k \in 1 .. n |-> g[q[k]]]
      BY <1>5, <3>1
    <3>3. QED
      BY <3>2 DEF Reordered
  <2>4. q \in OrdersOf(n)
    BY <2>2 DEF OrdersOf
  <2> HIDE DEF q
  <2>5. Total(First(r, n)) = Total(g)
    BY <1>2, <2>3, <2>4 DEF OrdersAgree
  <2>6. QED
    BY <1>2, <1>5, <1>6, <2>5 DEF r
<1>7. CASE m # n + 1
  <2>1. PICK i \in 1 .. n + 1 : p[i] = n + 1
    <3>1. p \in [1 .. n + 1 -> 1 .. n + 1] /\ IsInjective(p)
      BY DEF OrdersOf
    <3>2. QED
      BY <1>3, <3>1, OrderReaches
  <2>2. i \in 1 .. n /\ m \in 1 .. n
    BY <1>3, <1>7, <2>1
  <2> DEFINE q == [k \in 1 .. n |-> IF k = i THEN m ELSE p[k]]
  <2>3. \A k \in 1 .. n : /\ k \in 1 .. n + 1 /\ k # n + 1 /\ p[k] # m
                          /\ k # i => p[k] \in 1 .. n
    <3> SUFFICES ASSUME NEW k \in 1 .. n
                 PROVE  k \in 1 .. n + 1 /\ k # n + 1 /\ p[k] # m /\ (k # i => p[k] \in 1 .. n)
      OBVIOUS
    <3>1. k \in 1 .. n + 1 /\ k # n + 1
      OBVIOUS
    <3>2. p[k] \in 1 .. n + 1 /\ p[k] # m
      BY <1>1, <1>3, <3>1
    <3>3. k # i => p[k] # n + 1
      BY <1>1, <2>1, <3>1
    <3>4. QED
      BY <3>1, <3>2, <3>3
  <2>4. q \in [1 .. n -> 1 .. n]
    BY <2>2, <2>3
  <2>5. IsInjective(q)
    <3> SUFFICES ASSUME NEW a \in 1 .. n, NEW b \in 1 .. n, q[a] = q[b] PROVE a = b
      BY <2>4 DEF IsInjective
    <3>1. a \in 1 .. n + 1 /\ b \in 1 .. n + 1 /\ p[a] # m /\ p[b] # m
      BY <2>3
    <3>2. q[a] = (IF a = i THEN m ELSE p[a]) /\ q[b] = (IF b = i THEN m ELSE p[b])
      OBVIOUS
    <3>3. QED
      BY <1>1, <3>1, <3>2
  <2>6. q \in OrdersOf(n)
    BY <2>4, <2>5 DEF OrdersOf
  <2> DEFINE s == Reordered(g, q, n)
  <2>7. s \in [1 .. n -> Int] /\ \A k \in 1 .. n : s[k] = g[q[k]]
    <3>1. \A k \in 1 .. n : g[q[k]] \in Int
      BY <1>2, <2>4
    <3>2. QED
      BY <3>1 DEF Reordered
  <2>8. Total(s) = Total(g)
    BY <1>2, <2>6 DEF OrdersAgree
  <2> HIDE DEF s
  <2>9. s[i] = f[m]
    BY <1>2, <2>2, <2>7
  <2>10. \A k \in 1 .. n : k # i => First(r, n)[k] = s[k]
    <3> SUFFICES ASSUME NEW k \in 1 .. n, k # i PROVE First(r, n)[k] = s[k]
      OBVIOUS
    <3>1. q[k] = p[k] /\ p[k] \in 1 .. n
      BY <2>3
    <3>2. s[k] = g[q[k]] /\ First(r, n)[k] = f[p[k]]
      BY <1>5, <2>7
    <3> HIDE DEF q
    <3>3. QED
      BY <1>2, <3>1, <3>2
  <2>11. First(r, n)[i] = f[n + 1]
    BY <1>5, <2>1, <2>2
  <2>12. Total(First(r, n)) = Total(s) + f[n + 1] - f[m]
    <3> DEFINE u == First(r, n)
    <3>1. u \in [1 .. n -> Int] /\ s \in [1 .. n -> Int] /\ i \in 1 .. n
      BY <1>5, <2>2, <2>7
    <3>2. \A k \in 1 .. n : k # i => u[k] = s[k]
      BY <2>10
    <3>3. u[i] = f[n + 1]
      BY <2>11
    <3> HIDE DEF u
    <3>4. Total(u) = Total(s) + u[i] - s[i]
      BY <3>1, <3>2, TotalChanged
    <3>5. QED
      BY <2>9, <3>3, <3>4 DEF u
  <2>13. Total(g) \in Int
    BY <1>2, TotalType
  <2>14. QED
    BY <1>2, <1>3, <1>5, <2>8, <2>12, <2>13 DEF r
<1>8. QED
  BY <1>6, <1>7

\* Amounts add up to the same in every order.
LEMMA TotalReordered ==
    ASSUME NEW n \in Nat, NEW f \in [1 .. n -> Int], NEW p \in [1 .. n -> 1 .. n], IsInjective(p)
    PROVE  Total(Reordered(f, p, n)) = Total(f)
<1> DEFINE Good == {k \in Nat : OrdersAgree(k)}
<1>1. 0 \in Good
  <2> SUFFICES ASSUME NEW g \in [1 .. 0 -> Int], NEW q \in OrdersOf(0)
               PROVE  Total(Reordered(g, q, 0)) = Total(g)
    BY DEF OrdersAgree
  <2>1. Reordered(g, q, 0) \in [1 .. 0 -> Int]
    BY DEF Reordered
  <2>2. QED
    BY <2>1, TotalType
<1>2. ASSUME NEW k \in Nat, k \in Good PROVE k + 1 \in Good
  <2>1. OrdersAgree(k)
    BY <1>2
  <2>2. ASSUME NEW g \in [1 .. k + 1 -> Int], NEW q \in OrdersOf(k + 1)
        PROVE  Total(Reordered(g, q, k + 1)) = Total(g)
    BY <2>1, ReorderStep
  <2>3. OrdersAgree(k + 1)
    BY <2>2 DEF OrdersAgree
  <2>4. QED
    BY <2>3
<1>3. n \in Good
  <2> HIDE DEF Good
  <2>1. QED
    BY <1>1, <1>2, Induction
<1>4. p \in OrdersOf(n)
  BY DEF OrdersOf
<1>5. QED
  BY <1>3, <1>4 DEF OrdersAgree

\* Amounts after amounts.
LEMMA TotalJoined ==
    ASSUME NEW n \in Nat, NEW m \in Nat, NEW f \in [1 .. n -> Int], NEW g \in [1 .. m -> Int],
           NEW h \in [1 .. n + m -> Int],
           \A k \in 1 .. n : h[k] = f[k], \A k \in 1 .. m : h[n + k] = g[k]
    PROVE  Total(h) = Total(f) + Total(g)
<1>1. n + m \in Nat
  OBVIOUS
<1>2. First(h, n) = f
  <2>1. First(h, n) = [k \in 1 .. n |-> h[k]]
    BY DEF First
  <2>2. QED
    BY <2>1
<1>3. Total(f) \in Int
  BY TotalType
<1> DEFINE Good == {k \in 0 .. m : Total(First(h, n + k)) = Total(f) + Total(First(g, k))}
<1>4. 0 .. m \subseteq Good
  <2>1. 0 \in Good
    <3>1. Total(First(g, 0)) = 0 /\ n + 0 = n /\ 0 \in 0 .. m
      BY FirstEnds
    <3>2. QED
      BY <1>2, <1>3, <3>1
  <2>2. ASSUME NEW k \in 1 .. m, k - 1 \in Good PROVE k \in Good
    <3>1. n + k \in 1 .. n + m /\ (n + k) - 1 = n + (k - 1) /\ k \in 0 .. m
      OBVIOUS
    <3>2. Total(First(h, n + k)) = Total(First(h, (n + k) - 1)) + h[n + k]
      BY <1>1, <3>1, TotalFirst
    <3>3. /\ Total(First(g, k)) = Total(First(g, k - 1)) + g[k]
          /\ Total(First(g, k - 1)) \in Int /\ Total(First(g, k)) \in Int /\ g[k] \in Int
      BY TotalFirst
    <3>4. Total(First(h, n + (k - 1))) = Total(f) + Total(First(g, k - 1))
      BY <2>2
    <3>5. h[n + k] = g[k]
      OBVIOUS
    <3>6. Total(First(h, n + k)) = Total(f) + Total(First(g, k))
      BY <1>3, <3>1, <3>2, <3>3, <3>4, <3>5
    <3>7. QED
      BY <3>1, <3>6
  <2> HIDE DEF Good
  <2>3. QED
    BY <2>1, <2>2, InductionUpTo
<1>5. m \in 0 .. m
  OBVIOUS
<1>6. Total(First(h, n + m)) = Total(f) + Total(First(g, m))
  BY <1>4, <1>5
<1>7. QED
  BY <1>1, <1>6, FirstEnds

-----------------------------------------------------------------------------
(* Trades *)

TradeType == [round : Round, entry : Bars, exit : Bars, units : Nat, pnl : Int]

Pnls(trades) == [k \in 1 .. Len(trades) |-> trades[k].pnl]

LEMMA PnlType ==
    ASSUME NEW trades \in Seq(TradeType)
    PROVE  /\ Len(trades) \in Nat /\ Pnls(trades) \in [1 .. Len(trades) -> Int]
           /\ Pnl(trades) = Total(Pnls(trades)) /\ Pnl(trades) \in Int
           /\ trades = <<>> => Pnl(trades) = 0
<1>1. Len(trades) \in Nat /\ \A k \in 1 .. Len(trades) : trades[k] \in TradeType
  OBVIOUS
<1>2. ASSUME NEW k \in 1 .. Len(trades) PROVE trades[k].pnl \in Int
  <2>1. trades[k] \in TradeType
    BY <1>1
  <2>2. QED
    BY <2>1 DEF TradeType
<1>3. Pnls(trades) \in [1 .. Len(trades) -> Int]
  BY <1>2 DEF Pnls
<1>4. Pnl(trades) = Total(Pnls(trades))
  BY DEF Pnl, Pnls
<1>5. Pnl(trades) \in Int /\ (Len(trades) = 0 => Pnl(trades) = 0)
  BY <1>1, <1>3, <1>4, TotalType
<1>6. QED
  BY <1>1, <1>3, <1>4, <1>5

LEMMA PnlJoined ==
    ASSUME NEW a \in Seq(TradeType), NEW b \in Seq(TradeType)
    PROVE  a \o b \in Seq(TradeType) /\ Pnl(a \o b) = Pnl(a) + Pnl(b)
<1>1. a \o b \in Seq(TradeType) /\ Len(a \o b) = Len(a) + Len(b)
      /\ Len(a) \in Nat /\ Len(b) \in Nat
  OBVIOUS
<1>2. \A k \in 1 .. Len(a) : (a \o b)[k] = a[k]
  OBVIOUS
<1>3. \A k \in 1 .. Len(b) : (a \o b)[Len(a) + k] = b[k]
  OBVIOUS
<1> DEFINE c == a \o b
           f == Pnls(a)
           g == Pnls(b)
           h == Pnls(c)
<1>4. /\ f \in [1 .. Len(a) -> Int] /\ Pnl(a) = Total(f)
      /\ g \in [1 .. Len(b) -> Int] /\ Pnl(b) = Total(g)
      /\ h \in [1 .. Len(a) + Len(b) -> Int] /\ Pnl(c) = Total(h)
  BY <1>1, PnlType
<1>5. \A k \in 1 .. Len(a) : h[k] = f[k]
  <2> SUFFICES ASSUME NEW k \in 1 .. Len(a) PROVE h[k] = f[k]
    OBVIOUS
  <2>1. k \in 1 .. Len(c) /\ c[k] = a[k]
    BY <1>1, <1>2
  <2> HIDE DEF c
  <2>2. QED
    BY <2>1 DEF Pnls
<1>6. \A k \in 1 .. Len(b) : h[Len(a) + k] = g[k]
  <2> SUFFICES ASSUME NEW k \in 1 .. Len(b) PROVE h[Len(a) + k] = g[k]
    OBVIOUS
  <2>1. Len(a) + k \in 1 .. Len(c) /\ c[Len(a) + k] = b[k]
    BY <1>1, <1>3
  <2> HIDE DEF c
  <2>2. QED
    BY <2>1 DEF Pnls
<1> HIDE DEF f, g, h
<1>7. Total(h) = Total(f) + Total(g)
  BY <1>1, <1>4, <1>5, <1>6, TotalJoined
<1>8. QED
  BY <1>1, <1>4, <1>7

\* The trades of all columns: their profits add up to the columns'.
LEMMA Flattened ==
    ASSUME NEW seqs \in Seq(Seq(TradeType)), Len(seqs) > 0
    PROVE  /\ FlattenSeq(seqs) \in Seq(TradeType)
           /\ [c \in 1 .. Len(seqs) |-> Pnl(seqs[c])] \in [1 .. Len(seqs) -> Int]
           /\ Pnl(FlattenSeq(seqs)) = Total([c \in 1 .. Len(seqs) |-> Pnl(seqs[c])])
<1> DEFINE n == Len(seqs)
           V == Seq(TradeType)
           step == [k \in 1 .. n |-> [x \in V |-> IF k = 1 THEN seqs[k] ELSE x \o seqs[k]]]
           flat == CHOOSE g : g = [i \in 1 .. n |-> IF i = 1 THEN seqs[i] ELSE g[i - 1] \o seqs[i]]
           P == [c \in 1 .. n |-> Pnl(seqs[c])]
<1>1. n \in Nat /\ n > 0 /\ <<>> \in V /\ \A k \in 1 .. n : seqs[k] \in V
  OBVIOUS
<1>2. FlattenSeq(seqs) = flat[n]
  <2>1. Len(seqs) # 0
    BY <1>1
  <2>2. QED
    BY <2>1 DEF FlattenSeq
<1> HIDE DEF n
<1>3. step \in [1 .. n -> [V -> V]]
  <2>1. ASSUME NEW k \in 1 .. n, NEW x \in V PROVE (IF k = 1 THEN seqs[k] ELSE x \o seqs[k]) \in V
    <3>1. seqs[k] \in V
      BY <1>1
    <3> HIDE DEF V
    <3>2. x \o seqs[k] \in V
      BY <3>1, PnlJoined DEF V
    <3>3. QED
      BY <3>1, <3>2
  <2> HIDE DEF V
  <2>2. QED
    BY <2>1
<1>4. \A k \in 1 .. n : \A x \in V : step[k][x] = IF k = 1 THEN seqs[k] ELSE x \o seqs[k]
  OBVIOUS
<1> HIDE DEF V, step
<1>5. PICK fold : IsFoldLeft(fold, n, V, <<>>, step)
  BY <1>1, <1>3, FoldLeftExists, Zenon
<1>6. \A k \in 1 .. n : /\ fold[1 .. k] \in V /\ fold[1 .. (k - 1)] \in V
                        /\ fold[1 .. k] = step[k][fold[1 .. (k - 1)]]
  <2>1. n \in Nat /\ <<>> \in V /\ step \in [1 .. n -> [V -> V]]
    BY <1>1, <1>3
  <2>2. QED
    <3>1. RunsLeft(fold, n, V, <<>>, step)
      BY <2>1, <1>5, FoldLeftRuns, Zenon
    <3>2. QED
      BY <3>1 DEF RunsLeft
<1> DEFINE h == [i \in 1 .. n |-> fold[1 .. i]]
<1>7. h = [i \in 1 .. n |-> IF i = 1 THEN seqs[i] ELSE h[i - 1] \o seqs[i]]
  <2>1. ASSUME NEW i \in 1 .. n PROVE h[i] = IF i = 1 THEN seqs[i] ELSE h[i - 1] \o seqs[i]
    <3>1. fold[1 .. i] = IF i = 1 THEN seqs[i] ELSE fold[1 .. (i - 1)] \o seqs[i]
      BY <1>4, <1>6
    <3>2. i # 1 => i - 1 \in 1 .. n
      BY <1>1
    <3>3. h[i] = fold[1 .. i] /\ (i # 1 => h[i - 1] = fold[1 .. (i - 1)])
      BY <3>2
    <3>4. QED
      BY <3>1, <3>3
  <2>2. h = [i \in 1 .. n |-> h[i]]
    OBVIOUS
  <2> HIDE DEF h
  <2>3. QED
    BY <2>1, <2>2
<1>8. flat = [i \in 1 .. n |-> IF i = 1 THEN seqs[i] ELSE flat[i - 1] \o seqs[i]]
  <2> HIDE DEF h
  <2>1. QED
    BY <1>7
<1> HIDE DEF flat
<1>9. P \in [1 .. n -> Int] /\ \A c \in 1 .. n : P[c] = Pnl(seqs[c])
  <2>1. \A c \in 1 .. n : Pnl(seqs[c]) \in Int
    BY <1>1, PnlType DEF V
  <2>2. QED
    BY <2>1
<1> HIDE DEF P
<1>10. Total(First(P, 0)) = 0 /\ First(P, n) = P
  <2>1. n \in Nat /\ P \in [1 .. n -> Int]
    BY <1>1, <1>9
  <2>2. QED
    BY <2>1, FirstEnds
<1> DEFINE Good == {i \in 0 .. n : i > 0 => flat[i] \in V /\ Pnl(flat[i]) = Total(First(P, i))}
<1>11. 0 .. n \subseteq Good
  <2>1. 0 \in Good
    BY <1>1
  <2>2. ASSUME NEW i \in 1 .. n, i - 1 \in Good PROVE i \in Good
    <3>1. Total(First(P, i)) = Total(First(P, i - 1)) + Pnl(seqs[i]) /\ Pnl(seqs[i]) \in Int
          /\ seqs[i] \in V
      BY <1>1, <1>9, TotalFirst
    <3>2. flat[i] = IF i = 1 THEN seqs[i] ELSE flat[i - 1] \o seqs[i]
      BY <1>8
    <3>3. CASE i = 1
      <4>1. Total(First(P, i - 1)) = 0
        BY <1>10, <3>3
      <4>2. QED
        BY <3>1, <3>2, <3>3, <4>1
    <3>4. CASE i # 1
      <4>1. flat[i - 1] \in V /\ Pnl(flat[i - 1]) = Total(First(P, i - 1))
        BY <1>1, <2>2, <3>4
      <4>2. flat[i] \in V /\ Pnl(flat[i]) = Pnl(flat[i - 1]) + Pnl(seqs[i])
        BY <3>1, <3>2, <3>4, <4>1, PnlJoined DEF V
      <4>3. QED
        BY <3>1, <4>1, <4>2
    <3>5. QED
      BY <3>3, <3>4
  <2> HIDE DEF Good
  <2>3. QED
    BY <1>1, <2>1, <2>2, InductionUpTo
<1>12. flat[n] \in V /\ Pnl(flat[n]) = Total(P)
  BY <1>1, <1>10, <1>11
<1>13. QED
  BY <1>2, <1>9, <1>12 DEF V, n, P

\* After the last bar a column is worth its cash and what its trades made.
LEMMA ColumnEnds ==
    ASSUME NEW trades \in Seq(TradeType), \A k \in 1 .. Len(trades) : trades[k].entry <= trades[k].exit
    PROVE  ColumnValue(trades, N - 1) = Cash + Pnl(trades)
<1>1. ASSUME NEW k \in 1 .. Len(trades) PROVE Earned(trades[k], N - 1) = trades[k].pnl
  <2>1. trades[k] \in TradeType
    OBVIOUS
  <2>2. trades[k].entry \in Bars /\ trades[k].exit \in Bars
    BY <2>1 DEF TradeType
  <2>3. trades[k].entry \in 0 .. N - 1 /\ trades[k].exit \in 0 .. N - 1 /\ N \in Nat
    BY <2>2, EngineAssumption DEF Bars
  <2>4. ~ (N - 1 < trades[k].entry) /\ N - 1 >= trades[k].exit
    BY <2>3
  <2>5. QED
    BY <2>4 DEF Earned
<1>2. [k \in 1 .. Len(trades) |-> Earned(trades[k], N - 1)] = [k \in 1 .. Len(trades) |-> trades[k].pnl]
  BY <1>1
<1>3. QED
  BY <1>2 DEF ColumnValue, Pnl

LEMMA ValueIsProfit ==
    ASSUME bt.trades \in Seq(Seq(TradeType)), Len(bt.trades) > 0,
           \A c \in 1 .. Len(bt.trades) : \A k \in 1 .. Len(bt.trades[c]) :
              bt.trades[c][k].entry <= bt.trades[c][k].exit
    PROVE  /\ AllTrades \in Seq(TradeType) /\ Pnl(AllTrades) \in Int
           /\ PortfolioValue(N - 1) \in Int /\ PortfolioValue(N - 1) - Cash = Pnl(AllTrades)
<1> DEFINE n == Len(bt.trades)
           P == [c \in 1 .. n |-> Pnl(bt.trades[c])]
           C == [c \in 1 .. n |-> ColumnValue(bt.trades[c], N - 1)]
<1>1. n \in Nat /\ n > 0 /\ Cash \in Nat
  BY EngineAssumption
<1>2. AllTrades \in Seq(TradeType) /\ P \in [1 .. n -> Int] /\ Pnl(AllTrades) = Total(P)
  BY Flattened DEF AllTrades
<1>3. ASSUME NEW c \in 1 .. n PROVE C[c] = Cash + P[c] /\ C[c] \in Int
  <2>1. bt.trades[c] \in Seq(TradeType)
    OBVIOUS
  <2>2. ColumnValue(bt.trades[c], N - 1) = Cash + Pnl(bt.trades[c]) /\ Pnl(bt.trades[c]) \in Int
    BY <2>1, ColumnEnds, PnlType
  <2>3. QED
    BY <1>1, <2>2
<1>4. C \in [1 .. n -> Int]
  BY <1>3
<1>5. PortfolioValue(N - 1) = Total(C) - (n - 1) * Cash
  BY DEF PortfolioValue
<1> HIDE DEF n, P, C
<1>6. Total(C) = n * Cash + Total(P)
  BY <1>1, <1>2, <1>3, <1>4, TotalRaised
<1>7. n * Cash = (n - 1) * Cash + Cash /\ (n - 1) * Cash \in Nat
  <2>1. n - 1 \in Nat /\ (n - 1) + 1 = n /\ n - 1 <= n - 1
    BY <1>1
  <2>2. ((n - 1) + 1) * Cash = (n - 1) * Cash + Cash /\ (n - 1) * Cash \in Nat
    BY <1>1, <2>1, Products
  <2>3. QED
    BY <2>1, <2>2
<1>8. Total(P) \in Int
  BY <1>1, <1>2, TotalType
<1>9. QED
  BY <1>1, <1>2, <1>5, <1>6, <1>7, <1>8

-----------------------------------------------------------------------------
(* One column *)

LEMMA LesserOf ==
    ASSUME NEW a \in Int, NEW b \in Int
    PROVE  Min({a, b}) \in {a, b} /\ Min({a, b}) <= a /\ Min({a, b}) <= b
<1>1. \E x \in {a, b} : \A y \in {a, b} : x =< y
  OBVIOUS
<1>2. Min({a, b}) \in {a, b} /\ \A y \in {a, b} : Min({a, b}) =< y
  BY <1>1 DEF Min
<1>3. QED
  BY <1>2

LEMMA LesserNat ==
    ASSUME NEW a \in Nat, NEW b \in Nat
    PROVE  Min({a, b}) \in Nat
<1>1. a \in Int /\ b \in Int
  OBVIOUS
<1>2. Min({a, b}) \in {a, b}
  BY <1>1, LesserOf
<1>3. QED
  BY <1>2

LEMMA ProductType ==
    /\ \A a, b \in Int : a * b \in Int
    /\ \A a, b \in Nat : a * b \in Nat
OBVIOUS

LEMMA UnitsType ==
    ASSUME NEW r \in Round, EntryBar(r) \in Bars, NEW cash \in Int
    PROVE  Units(r, cash) \in Nat
<1> DEFINE price == OpenPrice[EntryBar(r)]
           dist == IF price >= r.stop THEN price - r.stop ELSE r.stop - price
<1>1. price \in Nat \ {0} /\ PositionSize \in Nat
  BY EngineAssumption
<1>2. r.stop \in Nat /\ dist \in Nat
  BY <1>1 DEF Round
<1>3. Units(r, cash) =
         IF cash <= 0 THEN 0
         ELSE IF bt.request.sizing = "RISK"
              THEN IF dist = 0 THEN 0
                   ELSE Min({AllIn(cash, price), (PositionSize * cash) \div (100 * dist)})
              ELSE IF r.side = 1 THEN Min({AllIn(cash, price), PositionSize}) ELSE PositionSize
  BY DEF Units
<1> HIDE DEF price, dist
<1>4. ASSUME cash > 0 PROVE AllIn(cash, price) \in Nat
  <2>1. cash \in Nat
    BY <1>4
  <2>2. cash \div price \in Nat
    BY <1>1, <2>1, DivBounds
  <2>3. QED
    BY <2>2 DEF AllIn
<1>5. ASSUME cash > 0, dist # 0 PROVE (PositionSize * cash) \div (100 * dist) \in Nat
  <2>1. PositionSize * cash \in Nat /\ 100 * dist \in Nat \ {0}
    BY <1>1, <1>2, <1>5
  <2>2. QED
    BY <2>1, DivBounds
<1>6. ASSUME cash > 0, dist # 0
      PROVE  Min({AllIn(cash, price), (PositionSize * cash) \div (100 * dist)}) \in Nat
  <2>1. AllIn(cash, price) \in Nat /\ (PositionSize * cash) \div (100 * dist) \in Nat
    BY <1>4, <1>5, <1>6
  <2>2. QED
    BY <2>1, LesserNat, Zenon
<1>7. ASSUME cash > 0 PROVE Min({AllIn(cash, price), PositionSize}) \in Nat
  <2>1. AllIn(cash, price) \in Nat /\ PositionSize \in Nat
    BY <1>1, <1>4, <1>7
  <2>2. QED
    BY <2>1, LesserNat, Zenon
<1>8. QED
  BY <1>1, <1>3, <1>6, <1>7

\* A trade is entered after its signal and left after that, at the latest with the last bar.
Timely(t) ==
    /\ t.round.signal < t.entry /\ t.entry <= t.exit
    /\ t.exit = t.entry => t.exit = N - 1

LEMMA TradeOf ==
    ASSUME NEW r \in Round, r.exit > r.signal, NEW entry, Executed(r, entry), NEW cash \in Int
    PROVE  /\ Trade(r, cash) \in TradeType /\ Timely(Trade(r, cash))
           /\ Trade(r, cash).entry = r.signal + 1 /\ Trade(r, cash).exit <= r.exit
<1> DEFINE price == IF r.exit \in Bars THEN r.price ELSE ClosePrice[N - 1]
           units == Units(r, cash)
           exit == Min({r.exit, N - 1})
           pnl == r.side * units * (price - OpenPrice[EntryBar(r)])
<1>1. /\ r.signal \in 0 .. N - 1 /\ r.exit \in 0 .. N /\ r.side \in {1, -1} /\ r.price \in Nat
      /\ N \in Nat \ {0} /\ EntryBar(r) \in Bars /\ EntryBar(r) = r.signal + 1
      /\ r.exit # EntryBar(r)
  BY EngineAssumption DEF Round, Bars, Executed, EntryBar
<1>2. EntryBar(r) \in 0 .. N - 1
  BY <1>1 DEF Bars
<1>3. units \in Nat
  BY <1>1, UnitsType
<1>4. price \in Nat /\ OpenPrice[EntryBar(r)] \in Nat
  <2>1. N - 1 \in Bars
    BY <1>1 DEF Bars
  <2>2. ClosePrice[N - 1] \in Nat /\ OpenPrice[EntryBar(r)] \in Nat
    BY <1>1, <2>1, EngineAssumption
  <2>3. QED
    BY <1>1, <2>2
<1>5. Trade(r, cash) = [round |-> r, entry |-> EntryBar(r), exit |-> exit, units |-> units, pnl |-> pnl]
  BY DEF Trade
<1> HIDE DEF units, price
<1>6. pnl \in Int
  <2>1. r.side * units \in Int
    BY <1>1, <1>3
  <2>2. price - OpenPrice[EntryBar(r)] \in Int
    BY <1>4
  <2>3. QED
    BY <2>1, <2>2, ProductType
<1>7. exit \in {r.exit, N - 1} /\ exit <= r.exit /\ exit <= N - 1
  <2>1. r.exit \in Int /\ N - 1 \in Int
    BY <1>1
  <2>2. QED
    BY <2>1, LesserOf
<1> HIDE DEF exit, pnl
<1>8. EntryBar(r) <= exit /\ (exit = EntryBar(r) => exit = N - 1) /\ exit \in 0 .. N - 1
  BY <1>1, <1>2, <1>7
<1>9. Trade(r, cash) \in TradeType
  <2>1. exit \in Bars
    BY <1>8 DEF Bars
  <2>2. QED
    BY <1>1, <1>3, <1>5, <1>6, <2>1 DEF TradeType
<1>10. /\ Trade(r, cash).round = r /\ Trade(r, cash).entry = EntryBar(r)
       /\ Trade(r, cash).exit = exit
  BY <1>5
<1>11. Timely(Trade(r, cash))
  <2>1. r.signal < EntryBar(r)
    BY <1>1
  <2>2. QED
    BY <1>8, <1>10, <2>1 DEF Timely
<1>12. QED
  BY <1>1, <1>7, <1>9, <1>10, <1>11

\* The trades of a column are timely, and each is left before the next is entered.
Proper(trades) ==
    /\ trades \in Seq(TradeType)
    /\ \A k \in 1 .. Len(trades) : Timely(trades[k])
    /\ \A k \in 2 .. Len(trades) : trades[k - 1].exit < trades[k].entry

LEMMA ProperAppended ==
    ASSUME NEW trades, Proper(trades), NEW t \in TradeType, Timely(t),
           Len(trades) > 0 => trades[Len(trades)].exit < t.entry
    PROVE  Proper(Append(trades, t))
<1> DEFINE n == Len(trades)
           more == Append(trades, t)
<1>1. trades \in Seq(TradeType) /\ n \in Nat
  BY DEF Proper
<1>2. more \in Seq(TradeType) /\ Len(more) = n + 1 /\ more[n + 1] = t
      /\ \A k \in 1 .. n : more[k] = trades[k]
  BY <1>1
<1> HIDE DEF more
<1>3. ASSUME NEW k \in 1 .. n + 1 PROVE Timely(more[k])
  <2>1. CASE k = n + 1
    BY <1>2, <2>1
  <2>2. CASE k # n + 1
    <3>1. k \in 1 .. n /\ more[k] = trades[k]
      BY <1>1, <1>2, <2>2
    <3>2. QED
      BY <3>1 DEF Proper
  <2>3. QED
    BY <2>1, <2>2
<1>4. ASSUME NEW k \in 2 .. n + 1 PROVE more[k - 1].exit < more[k].entry
  <2>1. k - 1 \in 1 .. n /\ more[k - 1] = trades[k - 1]
    BY <1>1, <1>2
  <2>2. CASE k = n + 1
    <3>1. n > 0 /\ k - 1 = n /\ more[k] = t
      BY <1>1, <1>2, <2>2
    <3>2. QED
      BY <2>1, <3>1
  <2>3. CASE k # n + 1
    <3>1. k \in 2 .. n /\ k \in 1 .. n /\ more[k] = trades[k]
      BY <1>1, <1>2, <2>3
    <3>2. QED
      BY <2>1, <3>1 DEF Proper
  <2>4. QED
    BY <2>2, <2>3
<1>5. QED
  BY <1>2, <1>3, <1>4 DEF more, Proper

\* The trades after round k: the last of them is left no later than the round.
ProperAfter(trades, batch, k) ==
    /\ Proper(trades)
    /\ Len(trades) > 0 => k > 0 /\ trades[Len(trades)].exit <= batch[k].exit

LEMMA RoundsOf ==
    ASSUME NEW batch \in Batches, NEW k \in 1 .. Len(batch)
    PROVE  /\ Len(batch) \in Nat /\ batch[k] \in Round /\ batch[k].exit > batch[k].signal
           /\ batch[k].exit \in Nat /\ batch[k].signal \in Nat
           /\ k > 1 => batch[k - 1] \in Round /\ batch[k - 1].exit <= batch[k].signal
                       /\ batch[k - 1].exit \in Nat
<1>1. batch \in Seq(Round) /\ \A j \in 1 .. Len(batch) : batch[j].exit > batch[j].signal
  BY EngineAssumption
<1>2. \A j \in 1 .. Len(batch) - 1 : batch[j + 1].signal >= batch[j].exit
  BY EngineAssumption
<1>3. Len(batch) \in Nat /\ \A j \in 1 .. Len(batch) : batch[j] \in Round
  BY <1>1
<1>4. ASSUME NEW r \in Round PROVE r.exit \in Nat /\ r.signal \in Nat
  BY EngineAssumption DEF Round, Bars
<1>5. batch[k].exit \in Nat /\ batch[k].signal \in Nat
  BY <1>3, <1>4
<1>6. ASSUME k > 1
      PROVE  batch[k - 1] \in Round /\ batch[k - 1].exit <= batch[k].signal /\ batch[k - 1].exit \in Nat
  <2>1. k - 1 \in 1 .. Len(batch) /\ k - 1 \in 1 .. Len(batch) - 1 /\ (k - 1) + 1 = k
    BY <1>3, <1>6
  <2>2. batch[k - 1] \in Round /\ batch[(k - 1) + 1].signal >= batch[k - 1].exit
    BY <1>2, <1>3, <2>1
  <2>3. batch[k - 1].exit \in Nat
    BY <1>4, <2>2
  <2>4. QED
    BY <1>5, <2>1, <2>2, <2>3
<1>7. QED
  BY <1>1, <1>3, <1>5, <1>6

LEMMA AfterRoundProper ==
    ASSUME NEW batch \in Batches, NEW column, column.batch = batch,
           NEW k \in 1 .. Len(batch), NEW trades, ProperAfter(trades, batch, k - 1)
    PROVE  ProperAfter(AfterRound(column, k, trades), batch, k)
<1> DEFINE r == batch[k]
           n == Len(trades)
           cash == Cash + Pnl(trades)
<1>1. trades \in Seq(TradeType) /\ n \in Nat /\ Proper(trades)
  BY DEF ProperAfter, Proper
<1>2. cash \in Int
  <2>1. Pnl(trades) \in Int
    BY <1>1, PnlType
  <2>2. QED
    BY <2>1, EngineAssumption
<1>3. r \in Round /\ r.exit > r.signal /\ r.exit \in Nat /\ r.signal \in Nat /\ k \in Nat /\ k > 0
  BY RoundsOf
<1>4. n > 0 => trades[n].exit \in Int /\ trades[n].exit <= r.signal
  <2> SUFFICES ASSUME n > 0 PROVE trades[n].exit \in Int /\ trades[n].exit <= r.signal
    OBVIOUS
  <2>1. k - 1 > 0 /\ trades[n].exit <= batch[k - 1].exit
    BY DEF ProperAfter
  <2>2. batch[k - 1].exit <= r.signal /\ batch[k - 1].exit \in Nat
    BY <2>1, RoundsOf
  <2>3. trades[n] \in TradeType
    BY <1>1
  <2>4. trades[n].exit \in Int
    BY <2>3, EngineAssumption DEF TradeType, Bars
  <2>5. QED
    BY <1>3, <2>1, <2>2, <2>4
<1>5. AfterRound(column, k, trades) =
         IF Executed(r, column.entries[k]) /\ Units(r, cash) > 0
         THEN Append(trades, Trade(r, cash)) ELSE trades
  BY DEF AfterRound
<1> HIDE DEF r, cash
<1>6. ProperAfter(trades, batch, k)
  <2>1. n > 0 => trades[n].exit <= batch[k].exit
    BY <1>3, <1>4 DEF r
  <2>2. QED
    BY <1>1, <1>3, <2>1 DEF ProperAfter
<1>7. ASSUME Executed(r, column.entries[k]) PROVE ProperAfter(Append(trades, Trade(r, cash)), batch, k)
  <2> DEFINE t == Trade(r, cash)
  <2>1. t \in TradeType /\ Timely(t) /\ t.entry = r.signal + 1 /\ t.exit <= r.exit
    BY <1>2, <1>3, <1>7, TradeOf
  <2> HIDE DEF t
  <2>2. n > 0 => trades[n].exit < t.entry
    BY <1>3, <1>4, <2>1
  <2>3. Proper(Append(trades, t))
    BY <1>1, <2>1, <2>2, ProperAppended
  <2>4. Len(Append(trades, t)) = n + 1 /\ Append(trades, t)[n + 1] = t
    BY <1>1, <2>1
  <2>5. t.exit <= batch[k].exit
    BY <2>1 DEF r
  <2>6. QED
    BY <1>3, <2>3, <2>4, <2>5 DEF ProperAfter, t
<1>8. QED
  BY <1>5, <1>6, <1>7

LEMMA AfterRoundType ==
    ASSUME NEW column, column.batch \in Batches, NEW k \in 1 .. Len(column.batch),
           NEW trades \in Seq(TradeType)
    PROVE  AfterRound(column, k, trades) \in Seq(TradeType)
<1> DEFINE r == column.batch[k]
           cash == Cash + Pnl(trades)
<1>1. cash \in Int
  <2>1. Pnl(trades) \in Int
    BY PnlType
  <2>2. QED
    BY <2>1, EngineAssumption
<1>2. r \in Round /\ r.exit > r.signal
  BY RoundsOf
<1>3. AfterRound(column, k, trades) =
         IF Executed(r, column.entries[k]) /\ Units(r, cash) > 0
         THEN Append(trades, Trade(r, cash)) ELSE trades
  BY DEF AfterRound
<1> HIDE DEF r, cash
<1>4. ASSUME Executed(r, column.entries[k]) PROVE Append(trades, Trade(r, cash)) \in Seq(TradeType)
  <2>1. Trade(r, cash) \in TradeType
    BY <1>1, <1>2, <1>4, TradeOf
  <2>2. QED
    BY <2>1
<1>5. QED
  BY <1>3, <1>4

\* Whatever the batch and the filter left of it, from_signals makes proper trades of it.
LEMMA FromSignalsProper ==
    ASSUME NEW column, column.batch \in Batches
    PROVE  Proper(FromSignals(column))
<1> DEFINE n == Len(column.batch)
           V == Seq(TradeType)
           places == [k \in 1 .. n |-> k]
           step == [k \in 1 .. n |-> [x \in V |-> AfterRound(column, k, x)]]
           iter == CHOOSE g : g = [s \in SUBSET (1 .. n) |->
                      IF s = {} THEN <<>>
                      ELSE AfterRound(column, places[Max(s)], g[s \ {Max(s)}])]
<1>1. n \in Nat /\ <<>> \in V
  <2>1. column.batch \in Seq(Round)
    BY EngineAssumption
  <2>2. QED
    BY <2>1
<1>2. FromSignals(column) = iter[1 .. n]
  <2>1. DOMAIN places = 1 .. n
    OBVIOUS
  <2>2. QED
    BY <2>1 DEF FromSignals, FoldLeft, MapThenFoldSet
<1>3. step \in [1 .. n -> [V -> V]] /\ \A k \in 1 .. n : \A x \in V : step[k][x] = AfterRound(column, k, x)
  <2>1. \A k \in 1 .. n : \A x \in V : AfterRound(column, k, x) \in V
    BY AfterRoundType
  <2> HIDE DEF n, V
  <2>2. QED
    BY <2>1
<1>4. \A k \in 1 .. n : places[k] = k
  OBVIOUS
<1> HIDE DEF n, V, step, places
<1>5. PICK h : IsFoldLeft(h, n, V, <<>>, step)
  <2>1. <<>> \in V /\ step \in [1 .. n -> [V -> V]] /\ n \in Nat
    BY <1>1, <1>3
  <2>2. QED
    BY <2>1, FoldLeftExists, Zenon
<1>6. h = [s \in SUBSET (1 .. n) |-> IF s = {} THEN <<>>
              ELSE AfterRound(column, places[Max(s)], h[s \ {Max(s)}])]
  <2>1. ASSUME NEW s \in SUBSET (1 .. n)
        PROVE  h[s] = IF s = {} THEN <<>> ELSE AfterRound(column, places[Max(s)], h[s \ {Max(s)}])
    <3>1. CASE s = {}
      BY <1>5, <3>1 DEF IsFoldLeft
    <3>2. CASE s # {}
      <4>1. Max(s) \in 1 .. n /\ h[s \ {Max(s)}] \in V /\ h[s] = step[Max(s)][h[s \ {Max(s)}]]
        BY <1>5, <3>2 DEF IsFoldLeft
      <4>2. QED
        BY <1>3, <1>4, <3>2, <4>1
    <3>3. QED
      BY <3>1, <3>2
  <2>2. h \in [SUBSET (1 .. n) -> V]
    BY <1>5 DEF IsFoldLeft
  <2>3. QED
    BY <2>1, <2>2
<1>7. iter = [s \in SUBSET (1 .. n) |-> IF s = {} THEN <<>>
                 ELSE AfterRound(column, places[Max(s)], iter[s \ {Max(s)}])]
  BY <1>6
<1> HIDE DEF iter
<1>8. iter[1 .. 0] = <<>>
  <2>1. 1 .. 0 = {} /\ 1 .. 0 \in SUBSET (1 .. n)
    OBVIOUS
  <2>2. QED
    BY <1>7, <2>1
<1>9. ASSUME NEW k \in 1 .. n PROVE iter[1 .. k] = AfterRound(column, k, iter[1 .. (k - 1)])
  <2>1. 1 .. k \in SUBSET (1 .. n) /\ 1 .. k # {} /\ Max(1 .. k) = k
        /\ (1 .. k) \ {k} = 1 .. (k - 1)
    BY <1>1, Prefix
  <2>2. iter[1 .. k] = AfterRound(column, places[Max(1 .. k)], iter[(1 .. k) \ {Max(1 .. k)}])
    BY <1>7, <2>1
  <2>3. QED
    BY <1>4, <2>1, <2>2
<1> DEFINE Good == {k \in 0 .. n : ProperAfter(iter[1 .. k], column.batch, k)}
<1>10. 0 .. n \subseteq Good
  <2>1. 0 \in Good
    <3>1. Proper(<<>>) /\ Len(<<>>) = 0
      BY DEF Proper
    <3>2. ProperAfter(<<>>, column.batch, 0)
      BY <3>1 DEF ProperAfter
    <3>3. QED
      BY <1>1, <1>8, <3>2
  <2>2. ASSUME NEW k \in 1 .. n, k - 1 \in Good PROVE k \in Good
    <3>1. ProperAfter(iter[1 .. (k - 1)], column.batch, k - 1) /\ k \in 0 .. n
      BY <1>1, <2>2
    <3>2. k \in 1 .. Len(column.batch)
      BY DEF n
    <3>3. ProperAfter(AfterRound(column, k, iter[1 .. (k - 1)]), column.batch, k)
      BY <3>1, <3>2, AfterRoundProper
    <3>4. QED
      BY <1>9, <3>1, <3>3
  <2> HIDE DEF Good
  <2>3. QED
    BY <1>1, <2>1, <2>2, InductionUpTo
<1>11. ProperAfter(iter[1 .. n], column.batch, n)
  BY <1>1, <1>10
<1>12. QED
  BY <1>2, <1>11 DEF ProperAfter

-----------------------------------------------------------------------------
(* Monte Carlo *)

LEMMA LargestOf ==
    ASSUME NEW n \in Nat, NEW e \in [0 .. n -> Int]
    PROVE  /\ Max({e[i] : i \in 0 .. n}) \in Int
           /\ \A j \in 0 .. n : Max({e[i] : i \in 0 .. n}) >= e[j]
<1> DEFINE Good == {k \in 0 .. n : \E i \in 0 .. k : \A j \in 0 .. k : e[i] >= e[j]}
<1>1. 0 .. n \subseteq Good
  <2>1. 0 \in Good
    <3>1. 0 \in 0 .. 0 /\ \A j \in 0 .. 0 : e[0] >= e[j]
      OBVIOUS
    <3>2. QED
      BY <3>1
  <2>2. ASSUME NEW k \in 1 .. n, k - 1 \in Good PROVE k \in Good
    <3>1. PICK i \in 0 .. k - 1 : \A j \in 0 .. k - 1 : e[i] >= e[j]
      BY <2>2
    <3>2. e[i] \in Int /\ e[k] \in Int /\ \A j \in 0 .. k : j \in 0 .. k - 1 \/ j = k
      OBVIOUS
    <3>3. CASE e[i] >= e[k]
      <4>1. i \in 0 .. k /\ \A j \in 0 .. k : e[i] >= e[j]
        BY <3>1, <3>2, <3>3
      <4>2. QED
        BY <4>1
    <3>4. CASE e[k] > e[i]
      <4>1. ASSUME NEW j \in 0 .. k PROVE e[k] >= e[j]
        <5>1. e[j] \in Int
          OBVIOUS
        <5>2. QED
          BY <3>1, <3>2, <3>4, <5>1
      <4>2. k \in 0 .. k
        OBVIOUS
      <4>3. QED
        BY <4>1, <4>2
    <3>5. QED
      BY <3>2, <3>3, <3>4
  <2> HIDE DEF Good
  <2>3. QED
    BY <2>1, <2>2, InductionUpTo
<1>2. PICK i \in 0 .. n : \A j \in 0 .. n : e[i] >= e[j]
  <2>1. n \in 0 .. n
    OBVIOUS
  <2>2. n \in Good
    BY <1>1, <2>1
  <2>3. QED
    BY <2>2
<1> DEFINE S == {e[j] : j \in 0 .. n}
<1>3. e[i] \in S /\ \A y \in S : e[i] >= y
  BY <1>2
<1>4. Max(S) \in S /\ \A y \in S : Max(S) >= y
  <2> HIDE DEF S
  <2>1. QED
    BY <1>3 DEF Max
<1>5. \A y \in S : y \in Int
  OBVIOUS
<1>6. QED
  BY <1>4, <1>5

\* The largest fall of a curve is at least its fall from the first to the last value.
LEMMA DrawdownOf ==
    ASSUME NEW n \in Nat, NEW e \in [0 .. n -> Int]
    PROVE  Drawdown(e) \in Nat /\ Drawdown(e) >= e[0] - e[n]
<1> DEFINE Peak(j) == Max({e[i] : i \in 0 .. j})
           d == [j \in 0 .. n |-> Peak(j) - e[j]]
<1>1. ASSUME NEW j \in 0 .. n PROVE Peak(j) \in Int /\ Peak(j) >= e[0] /\ Peak(j) >= e[j]
  <2> DEFINE f == [i \in 0 .. j |-> e[i]]
  <2>1. j \in Nat /\ f \in [0 .. j -> Int] /\ 0 \in 0 .. j /\ j \in 0 .. j
    OBVIOUS
  <2>2. {e[i] : i \in 0 .. j} = {f[i] : i \in 0 .. j}
    OBVIOUS
  <2>3. f[0] = e[0] /\ f[j] = e[j]
    BY <2>1
  <2> HIDE DEF f
  <2>4. Max({f[i] : i \in 0 .. j}) \in Int /\ \A k \in 0 .. j : Max({f[i] : i \in 0 .. j}) >= f[k]
    BY <2>1, LargestOf
  <2>5. QED
    BY <2>1, <2>2, <2>3, <2>4
<1> HIDE DEF Peak
<1>2. d \in [0 .. n -> Int] /\ d[0] >= 0 /\ d[n] >= e[0] - e[n] /\ d[0] \in Int /\ d[n] \in Int
  <2>1. \A j \in 0 .. n : e[j] \in Int /\ d[j] = Peak(j) - e[j] /\ d[j] \in Int
    BY <1>1
  <2>2. 0 \in 0 .. n /\ n \in 0 .. n
    OBVIOUS
  <2>3. QED
    BY <1>1, <2>1, <2>2
<1>3. Drawdown(e) = Max({d[j] : j \in 0 .. n})
  <2>1. DOMAIN e = 0 .. n
    OBVIOUS
  <2>2. {Peak(j) - e[j] : j \in 0 .. n} = {d[j] : j \in 0 .. n}
    OBVIOUS
  <2>3. Drawdown(e) = Max({Peak(j) - e[j] : j \in DOMAIN e})
    BY DEF Drawdown, Peak
  <2>4. QED
    BY <2>1, <2>2, <2>3
<1> HIDE DEF d
<1>4. Max({d[j] : j \in 0 .. n}) \in Int /\ \A k \in 0 .. n : Max({d[j] : j \in 0 .. n}) >= d[k]
  BY <1>2, LargestOf
<1>5. 0 \in 0 .. n /\ n \in 0 .. n /\ e[0] \in Int /\ e[n] \in Int
  OBVIOUS
<1>6. QED
  BY <1>2, <1>3, <1>4, <1>5

LEMMA CurveOf ==
    ASSUME NEW n \in Nat, NEW pnls \in [1 .. n -> Int]
    PROVE  /\ EquityCurve(pnls) \in [0 .. n -> Int]
           /\ EquityCurve(pnls)[0] = Cash /\ EquityCurve(pnls)[n] = Cash + Total(pnls)
<1>1. pnls \in Seq(Int) /\ Len(pnls) = n /\ Cash \in Nat
  <2>1. pnls \in Seq(Int) /\ DOMAIN pnls = 1 .. n
    OBVIOUS
  <2>2. Len(pnls) = n
    BY <2>1
  <2>3. QED
    BY <2>1, <2>2, EngineAssumption
<1>2. ASSUME NEW k \in 0 .. n
      PROVE  SubSeq(pnls, 1, k) = First(pnls, k) /\ Total(First(pnls, k)) \in Int
  <2>1. SubSeq(pnls, 1, k) = First(pnls, k)
    BY <1>1 DEF First
  <2>2. First(pnls, k) \in [1 .. k -> Int] /\ k \in Nat
    BY DEF First
  <2>3. QED
    BY <2>1, <2>2, TotalType
<1>3. EquityCurve(pnls) = [k \in 0 .. n |-> Cash + Total(First(pnls, k))]
  BY <1>1, <1>2 DEF EquityCurve
<1>4. Total(First(pnls, 0)) = 0 /\ First(pnls, n) = pnls
  BY FirstEnds
<1>5. QED
  BY <1>1, <1>2, <1>3, <1>4

\* A simulated curve ends where the trades lead in any order, and falls at least as far.
LEMMA Simulated ==
    ASSUME AllTrades \in Seq(TradeType), NEW order \in Orders
    PROVE  LET equity == EquityCurve([k \in 1 .. Len(AllTrades) |-> AllTrades[order[k]].pnl])
               final == equity[Len(AllTrades)]
           IN  /\ final \in Int /\ final = Cash + Pnl(AllTrades)
               /\ Drawdown(equity) \in Nat /\ Drawdown(equity) >= Cash - final
<1> DEFINE n == Len(AllTrades)
           f == Pnls(AllTrades)
           pnls == [k \in 1 .. n |-> AllTrades[order[k]].pnl]
<1>1. n \in Nat /\ f \in [1 .. n -> Int] /\ Pnl(AllTrades) = Total(f) /\ Pnl(AllTrades) \in Int
  BY PnlType
<1>2. order \in [1 .. n -> 1 .. n] /\ IsInjective(order)
  BY DEF Orders
<1>3. pnls = Reordered(f, order, n)
  BY <1>2 DEF Reordered, Pnls
<1> HIDE DEF n, f
<1>4. pnls \in [1 .. n -> Int] /\ Total(pnls) = Total(f)
  <2>1. Reordered(f, order, n) \in [1 .. n -> Int]
    BY <1>1, <1>2 DEF Reordered
  <2>2. QED
    BY <1>1, <1>2, <1>3, <2>1, TotalReordered
<1> HIDE DEF pnls
<1> DEFINE equity == EquityCurve(pnls)
<1>5. equity \in [0 .. n -> Int] /\ equity[0] = Cash /\ equity[n] = Cash + Total(pnls)
  BY <1>1, <1>4, CurveOf
<1> HIDE DEF equity
<1>6. Drawdown(equity) \in Nat /\ Drawdown(equity) >= equity[0] - equity[n]
  BY <1>1, <1>5, DrawdownOf
<1>7. equity[n] \in Int
  BY <1>1, <1>5
<1>8. QED
  BY <1>1, <1>4, <1>5, <1>6, <1>7 DEF equity, pnls, n

-----------------------------------------------------------------------------
(* The invariant of a backtest                                               *)

PCs == {"load", "metrics", "monte carlo", "report", "done", "no report", "empty", "crashed"}
HasTrades == {"metrics", "monte carlo", "report", "done", "no report"}
Measured == {"monte carlo", "report", "done", "no report"}

ColumnType == [label : Label, batch : Batches, entries : Seq(BOOLEAN)]
MetricsType == [profit : Int, value : Int, count : Nat]
McType == [final : Int, drawdown : Int]
BtType == [pc : PCs, request : Requests, label : Nat, found : BOOLEAN,
           columns : Seq(ColumnType), trades : Seq(Seq(TradeType)),
           metrics : MetricsType, mc : McType]

BLoaded ==
    /\ bt.label \in 1 .. Len(bt.request.labels) + 1 /\ Len(bt.columns) < bt.label
    /\ Len(bt.trades) \in {0, Len(bt.columns)}
    /\ bt.pc \in {"load", "empty"} => bt.trades = <<>>
    /\ bt.pc \in HasTrades => Len(bt.trades) = Len(bt.columns) /\ Len(bt.columns) > 0
BTraded == \A c \in 1 .. Len(bt.trades) : Proper(bt.trades[c])
BMeasured ==
    bt.pc \in Measured =>
        /\ bt.metrics.profit = Pnl(AllTrades)
        /\ bt.metrics.value - Cash = bt.metrics.profit
BShuffled ==
    /\ bt.pc \in {"load", "metrics"} => bt.mc = NoMonteCarlo
    /\ bt.mc = NoMonteCarlo \/ bt.mc.drawdown \in Nat
    /\ ShufflesAgree

BInv == bt \in BtType /\ BLoaded /\ BTraded /\ BMeasured /\ BShuffled

LEMMA BInitially == BtInit => BInv
<1> SUFFICES ASSUME BtInit PROVE BInv
  OBVIOUS
<1>1. PICK q \in Requests :
         bt = [pc |-> "load", request |-> q, label |-> 1, found |-> FALSE,
               columns |-> <<>>, trades |-> <<>>,
               metrics |-> [profit |-> 0, value |-> 0, count |-> 0],
               mc |-> NoMonteCarlo]
  BY DEF BtInit
<1>2. NoMonteCarlo \in McType
  BY DEF NoMonteCarlo, McType
<1>3. /\ bt.pc = "load" /\ bt.request = q /\ bt.label = 1 /\ bt.columns = <<>> /\ bt.trades = <<>>
      /\ bt.mc = NoMonteCarlo
  BY <1>1
<1>4. bt \in BtType
  <2>1. <<>> \in Seq(ColumnType) /\ <<>> \in Seq(Seq(TradeType))
        /\ [profit |-> 0, value |-> 0, count |-> 0] \in MetricsType
    BY DEF MetricsType
  <2>2. QED
    BY <1>1, <1>2, <2>1 DEF BtType, PCs
<1>5. BLoaded
  <2>1. q.labels \in Seq(Label)
    BY EngineAssumption
  <2>2. Len(q.labels) \in Nat /\ Len(<<>>) = 0
    BY <2>1
  <2>3. QED
    BY <1>3, <2>2 DEF BLoaded, HasTrades
<1>6. BTraded /\ BMeasured
  BY <1>3 DEF BTraded, BMeasured, Measured
<1>7. BShuffled
  BY <1>3 DEF BShuffled, ShufflesAgree
<1>8. QED
  BY <1>4, <1>5, <1>6, <1>7 DEF BInv

LEMMA BLabels ==
    ASSUME BInv
    PROVE  /\ bt.request.labels \in Seq(Label) /\ Len(bt.request.labels) \in Nat
           /\ bt.columns \in Seq(ColumnType) /\ Len(bt.columns) \in Nat
           /\ bt.label \in Nat /\ bt.trades \in Seq(Seq(TradeType)) /\ Len(bt.trades) \in Nat
<1>1. bt.request \in Requests /\ bt.columns \in Seq(ColumnType) /\ bt.label \in Nat
      /\ bt.trades \in Seq(Seq(TradeType))
  BY DEF BInv, BtType
<1>2. bt.request.labels \in Seq(Label)
  BY <1>1, EngineAssumption
<1>3. QED
  BY <1>1, <1>2

LEMMA LoadNothingB == BInv /\ LoadNothing => BInv'
<1> SUFFICES ASSUME BInv, LoadNothing PROVE BInv'
  OBVIOUS
<1>1. /\ bt.pc = "load" /\ bt.label <= Len(bt.request.labels)
      /\ bt' = [bt EXCEPT !.label = bt.label + 1, !.found = FALSE]
      /\ bt \in BtType /\ bt.label \in Nat
  BY DEF LoadNothing, BInv, BtType
<1>2. /\ bt' \in BtType /\ bt'.pc = "load" /\ bt'.request = bt.request /\ bt'.label = bt.label + 1
      /\ bt'.columns = bt.columns /\ bt'.trades = bt.trades /\ bt'.metrics = bt.metrics /\ bt'.mc = bt.mc
  <2>1. bt.label + 1 \in Nat
    BY <1>1
  <2>2. bt' \in BtType
    BY <1>1, <2>1 DEF BtType
  <2>3. /\ bt'.pc = bt.pc /\ bt'.request = bt.request /\ bt'.label = bt.label + 1
        /\ bt'.columns = bt.columns /\ bt'.trades = bt.trades /\ bt'.metrics = bt.metrics /\ bt'.mc = bt.mc
    BY <1>1 DEF BtType
  <2>4. QED
    BY <1>1, <2>2, <2>3
<1>3. BLoaded'
  <2>1. /\ bt.label \in 1 .. Len(bt.request.labels) + 1 /\ Len(bt.columns) < bt.label
        /\ Len(bt.trades) \in {0, Len(bt.columns)} /\ bt.trades = <<>>
    BY <1>1 DEF BInv, BLoaded
  <2>2. /\ Len(bt.request.labels) \in Nat /\ Len(bt.columns) \in Nat /\ bt.label \in Nat
    BY BLabels
  <2>3. /\ bt'.label \in 1 .. Len(bt'.request.labels) + 1 /\ Len(bt'.columns) < bt'.label
    BY <1>1, <1>2, <2>1, <2>2
  <2>4. Len(bt'.trades) \in {0, Len(bt'.columns)} /\ bt'.trades = <<>> /\ bt'.pc \notin HasTrades
    BY <1>2, <2>1 DEF HasTrades
  <2>5. QED
    BY <2>3, <2>4 DEF BLoaded
<1>4. BTraded' /\ BMeasured'
  BY <1>2 DEF BInv, BTraded, BMeasured, Measured
<1>5. BShuffled'
  BY <1>1, <1>2 DEF BInv, BShuffled, ShufflesAgree
<1>6. QED
  BY <1>2, <1>3, <1>4, <1>5 DEF BInv

LEMMA FilteredType ==
    ASSUME NEW batch \in Batches
    PROVE  Filtered(batch) \subseteq Seq(BOOLEAN)
<1>1. Len(batch) \in Nat
  <2>1. batch \in Seq(Round)
    BY EngineAssumption
  <2>2. QED
    BY <2>1
<1> SUFFICES ASSUME NEW entries \in Filtered(batch) PROVE entries \in Seq(BOOLEAN)
  OBVIOUS
<1>2. PICK f : entries = [k \in 1 .. Len(batch) |-> f[k]] /\ \A k \in 1 .. Len(batch) : f[k] \in BOOLEAN
  <2>1. CASE bt.request.ml
    <3>1. PICK kept : entries = [k \in 1 .. Len(batch) |-> (batch[k].side = -1) \/ k \in kept]
      BY <2>1 DEF Filtered
    <3> DEFINE f == [k \in 1 .. Len(batch) |-> (batch[k].side = -1) \/ k \in kept]
    <3>2. \A k \in 1 .. Len(batch) : f[k] \in BOOLEAN
      OBVIOUS
    <3>3. f = [k \in 1 .. Len(batch) |-> f[k]]
      OBVIOUS
    <3>4. entries = f
      BY <3>1
    <3> HIDE DEF f
    <3>5. QED
      BY <3>2, <3>3, <3>4
  <2>2. CASE ~bt.request.ml
    BY <2>2 DEF Filtered
  <2>3. QED
    BY <2>1, <2>2
<1>3. QED
  BY <1>1, <1>2

LEMMA AddColumnB == BInv /\ AddColumn => BInv'
<1> SUFFICES ASSUME BInv, AddColumn PROVE BInv'
  OBVIOUS
<1>0. PICK batch \in Batches : \E entries \in Filtered(batch) :
          bt' = [bt EXCEPT !.label = bt.label + 1, !.found = TRUE,
                     !.columns = Append(bt.columns,
                         [label |-> bt.request.labels[bt.label], batch |-> batch, entries |-> entries])]
  BY DEF AddColumn
<1>1. PICK entries \in Filtered(batch) :
          bt' = [bt EXCEPT !.label = bt.label + 1, !.found = TRUE,
                     !.columns = Append(bt.columns,
                         [label |-> bt.request.labels[bt.label], batch |-> batch, entries |-> entries])]
  BY <1>0
<1> DEFINE column == [label |-> bt.request.labels[bt.label], batch |-> batch, entries |-> entries]
<1>2. /\ bt.pc = "load" /\ bt.label <= Len(bt.request.labels)
      /\ bt \in BtType /\ bt.label \in Nat /\ bt.label \in 1 .. Len(bt.request.labels)
  BY BLabels DEF AddColumn, BInv, BtType, BLoaded
<1>3. column \in ColumnType
  <2>1. bt.request.labels[bt.label] \in Label
    BY <1>2, BLabels
  <2>2. entries \in Seq(BOOLEAN)
    BY FilteredType
  <2>3. QED
    BY <2>1, <2>2 DEF ColumnType
<1>4. bt' = [bt EXCEPT !.label = bt.label + 1, !.found = TRUE, !.columns = Append(bt.columns, column)]
  BY <1>1
<1> HIDE DEF column
<1>5. /\ Append(bt.columns, column) \in Seq(ColumnType)
      /\ Len(Append(bt.columns, column)) = Len(bt.columns) + 1
  BY <1>3, BLabels
<1>6. /\ bt' \in BtType /\ bt'.pc = "load" /\ bt'.request = bt.request /\ bt'.label = bt.label + 1
      /\ bt'.columns = Append(bt.columns, column) /\ bt'.trades = bt.trades
      /\ bt'.metrics = bt.metrics /\ bt'.mc = bt.mc
  <2>1. bt.label + 1 \in Nat
    BY <1>2
  <2>2. bt' \in BtType
    BY <1>2, <1>4, <1>5, <2>1 DEF BtType
  <2>3. /\ bt'.pc = bt.pc /\ bt'.request = bt.request /\ bt'.label = bt.label + 1
        /\ bt'.columns = Append(bt.columns, column) /\ bt'.trades = bt.trades
        /\ bt'.metrics = bt.metrics /\ bt'.mc = bt.mc
    BY <1>2, <1>4 DEF BtType
  <2>4. QED
    BY <1>2, <2>2, <2>3
<1>7. BLoaded'
  <2>1. bt.trades = <<>> /\ Len(bt.trades) = 0
    BY <1>2 DEF BInv, BLoaded
  <2>2. QED
    BY <1>2, <1>5, <1>6, <2>1, BLabels DEF BInv, BLoaded, HasTrades
<1>8. BTraded' /\ BMeasured'
  BY <1>6 DEF BInv, BTraded, BMeasured, Measured
<1>9. BShuffled'
  BY <1>2, <1>6 DEF BInv, BShuffled, ShufflesAgree
<1>10. QED
  BY <1>6, <1>7, <1>8, <1>9 DEF BInv

\* A step that changes the control point only.
LEMMA MovedB ==
    ASSUME BInv, NEW p \in PCs, bt' = [bt EXCEPT !.pc = p],
           p \notin {"load", "metrics"}, p = "empty" => bt.pc = "load",
           p \in HasTrades => bt.pc \in Measured
    PROVE  BInv'
<1>1. bt \in BtType
  BY DEF BInv
<1>2. bt' \in BtType
  BY <1>1 DEF BtType
<1>3. /\ bt'.pc = p /\ bt'.request = bt.request /\ bt'.label = bt.label /\ bt'.columns = bt.columns
      /\ bt'.trades = bt.trades /\ bt'.metrics = bt.metrics /\ bt'.mc = bt.mc
  BY <1>1 DEF BtType
<1>4. Measured \subseteq HasTrades
  BY DEF Measured, HasTrades
<1>5. BLoaded'
  BY <1>3, <1>4 DEF BInv, BLoaded
<1>6. BTraded'
  BY <1>3 DEF BInv, BTraded
<1>7. BMeasured'
  BY <1>3, <1>4 DEF BInv, BMeasured, AllTrades
<1>8. BShuffled'
  BY <1>3 DEF BInv, BShuffled, ShufflesAgree
<1>9. QED
  BY <1>2, <1>5, <1>6, <1>7, <1>8 DEF BInv

LEMMA EmptyB == BInv /\ Empty => BInv'
BY MovedB DEF Empty, PCs, HasTrades

LEMMA CrashOnFrequencyB == BInv /\ CrashOnFrequency => BInv'
BY MovedB DEF CrashOnFrequency, PCs, HasTrades

LEMMA GenerateReportB == BInv /\ GenerateReport => BInv'
<1> SUFFICES ASSUME BInv, GenerateReport PROVE BInv'
  OBVIOUS
<1>1. bt.pc = "report" /\ bt.pc \in Measured
  BY DEF GenerateReport, Measured
<1>2. PICK p \in {"done", "crashed", "no report"} : bt' = [bt EXCEPT !.pc = p]
  BY DEF GenerateReport
<1>3. p \in PCs /\ p \notin {"load", "metrics"} /\ p # "empty"
  BY <1>2 DEF PCs
<1>4. QED
  BY <1>1, <1>2, <1>3, MovedB

\* The simulation reports an order's outcome, or none.
LEMMA ReportedB ==
    ASSUME BInv, bt.pc = "monte carlo", NEW mc \in McType,
           bt' = [bt EXCEPT !.pc = "report", !.mc = mc],
           mc = NoMonteCarlo \/ /\ mc.drawdown \in Nat /\ mc.final = Cash + bt.metrics.profit
                                /\ mc.drawdown >= Cash - mc.final
    PROVE  BInv'
<1>1. bt \in BtType
  BY DEF BInv
<1>2. bt' \in BtType
  BY <1>1 DEF BtType, PCs
<1>3. /\ bt'.pc = "report" /\ bt'.request = bt.request /\ bt'.label = bt.label
      /\ bt'.columns = bt.columns /\ bt'.trades = bt.trades /\ bt'.metrics = bt.metrics /\ bt'.mc = mc
  BY <1>1 DEF BtType
<1>4. BLoaded'
  BY <1>3 DEF BInv, BLoaded, HasTrades
<1>5. BTraded'
  BY <1>3 DEF BInv, BTraded
<1>6. BMeasured'
  BY <1>3 DEF BInv, BMeasured, AllTrades, Measured
<1>7. BShuffled'
  BY <1>3 DEF BShuffled, ShufflesAgree
<1>8. QED
  BY <1>2, <1>4, <1>5, <1>6, <1>7 DEF BInv

LEMMA SkipMonteCarloB == BInv /\ SkipMonteCarlo => BInv'
<1>1. NoMonteCarlo \in McType
  BY DEF NoMonteCarlo, McType
<1>2. QED
  BY <1>1, ReportedB DEF SkipMonteCarlo

LEMMA TradesOf ==
    ASSUME BInv, bt.pc \in HasTrades
    PROVE  /\ AllTrades \in Seq(TradeType) /\ Pnl(AllTrades) \in Int
           /\ PortfolioValue(N - 1) \in Int /\ PortfolioValue(N - 1) - Cash = Pnl(AllTrades)
<1>1. bt.trades \in Seq(Seq(TradeType)) /\ Len(bt.trades) > 0
  BY BLabels DEF BInv, BLoaded
<1>2. \A c \in 1 .. Len(bt.trades) : \A k \in 1 .. Len(bt.trades[c]) :
         bt.trades[c][k].entry <= bt.trades[c][k].exit
  BY DEF BInv, BTraded, Proper, Timely
<1>3. QED
  BY <1>1, <1>2, ValueIsProfit

LEMMA RunMonteCarloB == BInv /\ RunMonteCarlo => BInv'
<1> SUFFICES ASSUME BInv, RunMonteCarlo PROVE BInv'
  OBVIOUS
<1> DEFINE Curve(order) == EquityCurve([k \in 1 .. Len(AllTrades) |-> AllTrades[order[k]].pnl])
           Outcome(order) == [final |-> Curve(order)[Len(AllTrades)],
                              drawdown |-> Drawdown(Curve(order))]
<1>1. bt.pc = "monte carlo" /\ bt.pc \in HasTrades /\ bt.pc \in Measured
  BY DEF RunMonteCarlo, HasTrades, Measured
<1>2. AllTrades \in Seq(TradeType) /\ bt.metrics.profit = Pnl(AllTrades)
  BY <1>1, TradesOf DEF BInv, BMeasured
<1>3. PICK order \in Orders : bt' = [bt EXCEPT !.pc = "report", !.mc = Outcome(order)]
  BY DEF RunMonteCarlo
<1>4. /\ Curve(order)[Len(AllTrades)] \in Int
      /\ Curve(order)[Len(AllTrades)] = Cash + bt.metrics.profit
      /\ Drawdown(Curve(order)) \in Nat
      /\ Drawdown(Curve(order)) >= Cash - Curve(order)[Len(AllTrades)]
  BY <1>2, Simulated
<1> HIDE DEF Curve
<1>5. /\ Outcome(order) \in McType /\ Outcome(order).drawdown \in Nat
      /\ Outcome(order).final = Cash + bt.metrics.profit
      /\ Outcome(order).drawdown >= Cash - Outcome(order).final
  BY <1>4 DEF McType
<1> HIDE DEF Outcome
<1>6. QED
  BY <1>1, <1>3, <1>5, ReportedB

LEMMA CalculateMetricsB == BInv /\ CalculateMetrics => BInv'
<1> SUFFICES ASSUME BInv, CalculateMetrics PROVE BInv'
  OBVIOUS
<1> DEFINE m == [profit |-> Pnl(AllTrades), value |-> PortfolioValue(N - 1), count |-> Len(AllTrades)]
<1>1. bt \in BtType /\ bt.pc = "metrics" /\ bt.pc \in HasTrades
  BY DEF BInv, CalculateMetrics, HasTrades
<1>2. /\ AllTrades \in Seq(TradeType) /\ Pnl(AllTrades) \in Int
      /\ PortfolioValue(N - 1) \in Int /\ PortfolioValue(N - 1) - Cash = Pnl(AllTrades)
  BY <1>1, TradesOf
<1>3. bt' = [bt EXCEPT !.pc = "monte carlo", !.metrics = m]
  BY DEF CalculateMetrics
<1>4. m \in MetricsType
  <2>1. Len(AllTrades) \in Nat
    BY <1>2
  <2>2. QED
    BY <1>2, <2>1 DEF MetricsType
<1>5. m.profit = Pnl(AllTrades) /\ m.value - Cash = m.profit
  BY <1>2
<1> HIDE DEF m
<1>6. bt' \in BtType
  BY <1>1, <1>3, <1>4 DEF BtType, PCs
<1>7. /\ bt'.pc = "monte carlo" /\ bt'.request = bt.request /\ bt'.label = bt.label
      /\ bt'.columns = bt.columns /\ bt'.trades = bt.trades /\ bt'.metrics = m /\ bt'.mc = bt.mc
  BY <1>1, <1>3 DEF BtType
<1>8. BLoaded' /\ BTraded'
  BY <1>1, <1>7 DEF BInv, BLoaded, BTraded, HasTrades
<1>9. BMeasured'
  BY <1>5, <1>7 DEF BMeasured, AllTrades
<1>10. BShuffled'
  BY <1>1, <1>7 DEF BInv, BShuffled, ShufflesAgree
<1>11. QED
  BY <1>6, <1>8, <1>9, <1>10 DEF BInv

LEMMA SimulateB == BInv /\ Simulate => BInv'
<1> SUFFICES ASSUME BInv, Simulate PROVE BInv'
  OBVIOUS
<1> DEFINE n == Len(bt.columns)
           trades == [c \in 1 .. n |-> FromSignals(bt.columns[c])]
<1>1. bt \in BtType /\ bt.pc = "load" /\ bt.columns # <<>> /\ bt.columns \in Seq(ColumnType) /\ n \in Nat
  BY BLabels DEF BInv, Simulate
<1>2. n > 0
  BY <1>1
<1>3. ASSUME NEW c \in 1 .. n PROVE Proper(FromSignals(bt.columns[c]))
  <2>1. bt.columns[c] \in ColumnType
    BY <1>1
  <2>2. bt.columns[c].batch \in Batches
    BY <2>1 DEF ColumnType
  <2>3. QED
    BY <2>2, FromSignalsProper
<1>4. trades \in Seq(Seq(TradeType)) /\ Len(trades) = n
  <2>1. \A c \in 1 .. n : FromSignals(bt.columns[c]) \in Seq(TradeType)
    BY <1>3 DEF Proper
  <2>2. QED
    BY <1>1, <2>1
<1>5. \A c \in 1 .. n : Proper(trades[c])
  BY <1>3
<1>6. bt' = [bt EXCEPT !.pc = "metrics", !.trades = trades]
  BY DEF Simulate
<1> HIDE DEF trades
<1>7. bt' \in BtType
  BY <1>1, <1>4, <1>6 DEF BtType, PCs
<1>8. /\ bt'.pc = "metrics" /\ bt'.request = bt.request /\ bt'.label = bt.label
      /\ bt'.columns = bt.columns /\ bt'.trades = trades /\ bt'.metrics = bt.metrics /\ bt'.mc = bt.mc
  BY <1>1, <1>6 DEF BtType
<1>9. BLoaded'
  BY <1>2, <1>4, <1>8 DEF BInv, BLoaded
<1>10. BTraded'
  BY <1>4, <1>5, <1>8 DEF BTraded
<1>11. BMeasured' /\ BShuffled'
  BY <1>1, <1>8 DEF BInv, BMeasured, BShuffled, ShufflesAgree, Measured
<1>12. QED
  BY <1>7, <1>9, <1>10, <1>11 DEF BInv

LEMMA EngineB == BInv /\ (RunBacktest \/ Analyze) => BInv'
BY LoadNothingB, AddColumnB, EmptyB, CrashOnFrequencyB, SimulateB, CalculateMetricsB,
   RunMonteCarloB, SkipMonteCarloB, GenerateReportB DEF RunBacktest, Analyze

LEMMA IdleB == BInv /\ bt' = bt => BInv'
BY DEF BInv, BLoaded, BTraded, BMeasured, BShuffled, ShufflesAgree, AllTrades

\* What the invariant says of a backtest.
LEMMA BHolds == BInv => BtTypeOK /\ NoLookAhead /\ ProfitIsValue /\ ShufflesAgree
<1> SUFFICES ASSUME BInv PROVE BtTypeOK /\ NoLookAhead /\ ProfitIsValue /\ ShufflesAgree
  OBVIOUS
<1>1. BtTypeOK
  <2>1. /\ bt \in BtType /\ Len(bt.request.labels) \in Nat /\ Len(bt.columns) \in Nat /\ bt.label \in Nat
    BY BLabels DEF BInv
  <2>2. /\ bt.pc \in PCs /\ bt.request \in Requests /\ bt.found \in BOOLEAN
        /\ bt.metrics \in MetricsType /\ bt.mc \in McType
    BY <2>1 DEF BtType
  <2>3. /\ bt.label \in 1 .. Len(bt.request.labels) + 1 /\ Len(bt.columns) \in 0 .. Len(bt.request.labels)
        /\ Len(bt.trades) \in {0, Len(bt.columns)}
    BY <2>1 DEF BInv, BLoaded
  <2>4. bt.mc \in {NoMonteCarlo} \cup [final : Int, drawdown : Nat]
    BY <2>2 DEF McType, BInv, BShuffled
  <2>5. QED
    BY <2>2, <2>3, <2>4 DEF BtTypeOK, PCs, MetricsType
<1>2. NoLookAhead
  <2> SUFFICES ASSUME NEW c \in 1 .. Len(bt.trades), NEW k \in 1 .. Len(bt.trades[c])
               PROVE  /\ Timely(bt.trades[c][k])
                      /\ k > 1 => bt.trades[c][k - 1].exit < bt.trades[c][k].entry
    BY DEF NoLookAhead, Timely
  <2>1. Proper(bt.trades[c])
    BY DEF BInv, BTraded
  <2>2. Len(bt.trades[c]) \in Nat
    BY <2>1 DEF Proper
  <2>3. k > 1 => k \in 2 .. Len(bt.trades[c])
    BY <2>2
  <2>4. QED
    BY <2>1, <2>3 DEF Proper
<1>3. ProfitIsValue
  BY DEF BInv, BMeasured, ProfitIsValue, Measured
<1>4. ShufflesAgree
  BY DEF BInv, BShuffled
<1>5. QED
  BY <1>1, <1>2, <1>3, <1>4

-----------------------------------------------------------------------------
(* The audit                                                                 *)

LiveType == [deal : STRING, entry : Nat, side : {1, -1}, price : Nat]

LEMMA DistanceType ==
    ASSUME NEW live \in LiveType, NEW t \in TradeType
    PROVE  Distance(live, t) \in Nat
<1>1. live.entry \in Nat /\ t.entry \in Nat /\ BarHours \in Nat
  BY EngineAssumption, AuditAssumption DEF LiveType, TradeType, Bars
<1>2. t.entry * BarHours \in Nat
  BY <1>1, ProductType
<1>3. QED
  BY <1>1, <1>2 DEF Distance

\* A trade that is near enough has a nearest one beside it.
LEMMA NearestFound ==
    ASSUME NEW live \in LiveType, NEW trades \in Seq(TradeType),
           NEW i \in 1 .. Len(trades), Distance(live, trades[i]) < MatchHours
    PROVE  NearestTrade(live, trades) # {}
<1> DEFINE n == Len(trades)
           far == [j \in 1 .. n |-> Distance(live, trades[j])]
           Fars == {far[j] : j \in 1 .. n}
<1>1. n \in Nat /\ far \in [1 .. n -> Nat] /\ MatchHours \in Nat
  BY DistanceType, AuditAssumption
<1>2. \A j \in 1 .. n : far[j] = Distance(live, trades[j])
  OBVIOUS
<1>3. Fars \subseteq Nat /\ Fars # {}
  BY <1>1
<1> HIDE DEF far
<1>4. PICK m \in Fars : \A d \in Fars : m <= d
  BY <1>3, Least
<1> DEFINE Firsts == {j \in 1 .. n : far[j] = m}
<1>5. Firsts \subseteq Nat /\ Firsts # {}
  BY <1>1, <1>4
<1>6. PICK k \in Firsts : \A j \in Firsts : k <= j
  BY <1>5, Least
<1>7. k \in 1 .. n /\ far[k] = m /\ \A j \in 1 .. n : far[j] >= far[k]
  BY <1>1, <1>4, <1>6
<1>8. far[k] < MatchHours
  BY <1>1, <1>2, <1>7
<1>9. \A j \in 1 .. k - 1 : far[j] > far[k]
  <2> SUFFICES ASSUME NEW j \in 1 .. k - 1 PROVE far[j] > far[k]
    OBVIOUS
  <2>1. j \in 1 .. n /\ j < k /\ far[j] \in Nat /\ far[k] \in Nat
    BY <1>1, <1>7
  <2>2. j \notin Firsts
    BY <1>6, <2>1
  <2>3. QED
    BY <1>7, <2>1, <2>2
<1>10. \A j \in 1 .. k - 1 : j \in 1 .. n
  BY <1>1, <1>7
<1>11. k \in NearestTrade(live, trades)
  BY <1>2, <1>7, <1>8, <1>9, <1>10 DEF NearestTrade
<1>12. QED
  BY <1>11

\* The result of one live trade.
Matched(r, live, trades) ==
    /\ r.deal = live.deal
    /\ \A j \in 1 .. Len(trades) :
          Distance(live, trades[j]) >= (IF r.match = 0 THEN MatchHours ELSE Distance(live, trades[r.match]))

LEMMA Compared ==
    ASSUME NEW live \in LiveType, bt.trades[1] \in Seq(TradeType)
    PROVE  Matched(Compare(live), live, bt.trades[1])
<1> DEFINE trades == bt.trades[1]
           nearest == NearestTrade(live, trades)
<1>1. CASE nearest = {}
  <2>1. Compare(live) = [deal |-> live.deal, match |-> 0, slippage |-> 0]
    BY <1>1 DEF Compare
  <2>2. Compare(live).deal = live.deal /\ Compare(live).match = 0
    BY <2>1
  <2>3. ASSUME NEW j \in 1 .. Len(trades) PROVE Distance(live, trades[j]) >= MatchHours
    <3>1. Distance(live, trades[j]) \in Nat /\ MatchHours \in Nat
      BY DistanceType, AuditAssumption
    <3>2. ~(Distance(live, trades[j]) < MatchHours)
      BY <1>1, NearestFound
    <3>3. QED
      BY <3>1, <3>2
  <2>4. QED
    BY <2>2, <2>3 DEF Matched
<1>2. CASE nearest # {}
  <2> DEFINE k == CHOOSE k \in nearest : TRUE
  <2>1. k \in nearest
    BY <1>2
  <2>2. Compare(live) = [deal |-> live.deal, match |-> k,
                         slippage |-> live.side * (live.price - OpenPrice[trades[k].entry])]
    BY <1>2 DEF Compare
  <2>3. Compare(live).deal = live.deal /\ Compare(live).match = k
    BY <2>2
  <2> HIDE DEF k
  <2>4. k \in 1 .. Len(trades) /\ \A j \in 1 .. Len(trades) : Distance(live, trades[j]) >= Distance(live, trades[k])
    BY <2>1 DEF NearestTrade
  <2>5. k # 0
    BY <2>4
  <2>6. QED
    BY <2>3, <2>4, <2>5 DEF Matched
<1>3. QED
  BY <1>1, <1>2

AuditPCs == {"fetch", "none", "sync", "syncing", "backtest", "synced", "report", "done", "crashed"}
Reported == {"report", "done", "crashed"}
Results(live) == [k \in 1 .. Len(live) |-> Compare(live[k])]

\* The results are those of the live trades and of a finished backtest.
AReported ==
    IF audit.pc \in Reported
    THEN bt.pc = "metrics" /\ audit.results = Results(audit.live)
    ELSE audit.results = <<>>

AType ==
    /\ audit = [pc |-> audit.pc, live |-> audit.live, missing |-> audit.missing, results |-> audit.results]
    /\ audit.pc \in AuditPCs /\ audit.live \in LiveTrades \cup {<<>>} /\ audit.missing \subseteq Days
    /\ costs \subseteq Costs

AInv == AType /\ AReported

LEMMA LiveOf ==
    ASSUME AType
    PROVE  audit.live \in Seq(LiveType) /\ Len(audit.live) \in Nat
<1>1. audit.live \in LiveTrades \cup {<<>>}
  BY DEF AType
<1>2. audit.live \in Seq(LiveType)
  <2>1. CASE audit.live \in LiveTrades
    BY <2>1, AuditAssumption DEF LiveType
  <2>2. CASE audit.live = <<>>
    BY <2>2
  <2>3. QED
    BY <1>1, <2>1, <2>2
<1>3. QED
  BY <1>2

LEMMA AInitially == AuditInit => AInv
BY DEF AuditInit, AInv, AType, AReported, AuditPCs, Reported

\* A step of the audit that leaves the backtest alone.
LEMMA AMoved ==
    ASSUME AInv, bt' = bt, costs' \subseteq Costs, NEW p \in AuditPCs, NEW live \in LiveTrades \cup {<<>>},
           NEW missing \in SUBSET Days, NEW results,
           audit' = [pc |-> p, live |-> live, missing |-> missing, results |-> results],
           IF p \in Reported THEN bt.pc = "metrics" /\ results = Results(live) ELSE results = <<>>
    PROVE  AInv'
<1>1. /\ audit'.pc = p /\ audit'.live = live /\ audit'.missing = missing /\ audit'.results = results
  OBVIOUS
<1>2. AType'
  BY <1>1 DEF AType
<1>3. Results(live)' = Results(live)
  BY DEF Results, Compare
<1>4. Results(audit.live)' = Results(live)
  BY <1>1, <1>3 DEF Results, Compare
<1>5. AReported'
  BY <1>1, <1>4 DEF AReported
<1>6. QED
  BY <1>2, <1>5 DEF AInv

LEMMA AFinished ==
    ASSUME AInv, bt' = bt, bt.pc = "metrics", costs' \subseteq Costs, NEW p \in Reported, p \in AuditPCs,
           NEW live \in LiveTrades \cup {<<>>}, NEW missing \in SUBSET Days,
           audit' = [pc |-> p, live |-> live, missing |-> missing, results |-> Results(live)]
    PROVE  AInv'
<1> DEFINE results == Results(live)
<1>1. results = Results(live) /\ audit' = [pc |-> p, live |-> live, missing |-> missing, results |-> results]
  OBVIOUS
<1> HIDE DEF results
<1>2. QED
  BY <1>1, AMoved

LEMMA SyncDayA == AInv /\ SyncDay => AInv'
<1> SUFFICES ASSUME AInv, SyncDay PROVE AInv'
  OBVIOUS
<1> DEFINE d == Min(audit.missing)
           a == audit
<1>1. PICK records \in FetchCosts(d) :
          /\ costs' = UpsertTradeCosts(records, LiveDeals)
          /\ audit' = [audit EXCEPT !.missing = audit.missing \ {d}]
  BY DEF SyncDay
<1>2. costs' \subseteq Costs
  <2>1. records \subseteq Costs
    BY DEF FetchCosts
  <2>2. QED
    BY <1>1, <2>1 DEF UpsertTradeCosts, AInv, AType
<1>3. /\ a = [pc |-> a.pc, live |-> a.live, missing |-> a.missing, results |-> a.results]
      /\ a.pc \in AuditPCs /\ a.live \in LiveTrades \cup {<<>>} /\ a.missing \subseteq Days
      /\ a.pc = "syncing" /\ a.results = <<>> /\ a.pc \notin Reported /\ bt' = bt
  BY DEF AInv, AType, AReported, SyncDay, Reported
<1>4. audit' = [pc |-> a.pc, live |-> a.live, missing |-> a.missing \ {d}, results |-> a.results]
  BY <1>1, <1>3
<1>5. a.missing \ {d} \in SUBSET Days
  BY <1>3
<1>6. QED
  BY <1>2, <1>3, <1>4, <1>5, AMoved

LEMMA FetchLiveA == AInv /\ FetchLive => AInv'
<1> SUFFICES ASSUME AInv, FetchLive PROVE AInv'
  OBVIOUS
<1> DEFINE a == audit
<1>1. PICK live \in LiveTrades \cup {<<>>} :
          audit' = [audit EXCEPT !.live = live, !.pc = IF live = <<>> THEN "none" ELSE "sync"]
  BY DEF FetchLive
<1>2. PICK p \in {"none", "sync"} : audit' = [audit EXCEPT !.live = live, !.pc = p]
  BY <1>1
<1>3. /\ a = [pc |-> a.pc, live |-> a.live, missing |-> a.missing, results |-> a.results]
      /\ a.missing \in SUBSET Days /\ costs' \subseteq Costs
      /\ a.results = <<>> /\ p \notin Reported /\ p \in AuditPCs /\ bt' = bt
  BY DEF AInv, AType, AReported, FetchLive, Reported, AuditPCs
<1>4. audit' = [pc |-> p, live |-> live, missing |-> a.missing, results |-> a.results]
  BY <1>2, <1>3
<1>5. QED
  BY <1>3, <1>4, AMoved

LEMMA SyncA == AInv /\ (SkipSync \/ StartSync \/ EndSync) => AInv'
<1> SUFFICES ASSUME AInv, SkipSync \/ StartSync \/ EndSync PROVE AInv'
  OBVIOUS
<1> DEFINE a == audit
<1>1. /\ a = [pc |-> a.pc, live |-> a.live, missing |-> a.missing, results |-> a.results]
      /\ a.pc \in {"sync", "syncing"} /\ a.live \in LiveTrades \cup {<<>>}
      /\ a.missing \in SUBSET Days /\ costs' \subseteq Costs /\ a.results = <<>> /\ bt' = bt
  BY DEF AInv, AType, AReported, Reported, SkipSync, StartSync, EndSync
<1>2. PICK p \in {"backtest", "syncing", "synced"}, missing \in SUBSET Days :
          audit' = [pc |-> p, live |-> a.live, missing |-> missing, results |-> a.results]
  <2>1. CASE SkipSync
    BY <1>1, <2>1 DEF SkipSync
  <2>2. CASE StartSync
    <3>1. Days \ CoveredCostDates \in SUBSET Days
      OBVIOUS
    <3>2. audit' = [audit EXCEPT !.pc = "syncing", !.missing = Days \ CoveredCostDates]
      BY <2>2 DEF StartSync
    <3>3. audit' = [pc |-> "syncing", live |-> a.live, missing |-> Days \ CoveredCostDates,
                    results |-> a.results]
      BY <1>1, <3>2
    <3>4. QED
      BY <3>1, <3>3
  <2>3. CASE EndSync
    BY <1>1, <2>3 DEF EndSync
  <2>4. QED
    BY <2>1, <2>2, <2>3
<1>3. p \in AuditPCs /\ p \notin Reported
  BY DEF AuditPCs, Reported
<1>4. QED
  BY <1>1, <1>2, <1>3, AMoved

LEMMA AuditBacktestA == AInv /\ AuditBacktest => AInv'
<1> SUFFICES ASSUME AInv, AuditBacktest PROVE AInv'
  OBVIOUS
<1>1. audit' = audit /\ costs' = costs /\ audit.pc \notin Reported /\ audit.results = <<>>
  BY DEF AuditBacktest, AInv, AReported, Reported
<1>2. AType'
  BY <1>1 DEF AInv, AType
<1>3. AReported'
  BY <1>1 DEF AReported
<1>4. QED
  BY <1>2, <1>3 DEF AInv

LEMMA NoPortfolioA == AInv /\ NoPortfolio => AInv'
<1> SUFFICES ASSUME AInv, NoPortfolio PROVE AInv'
  OBVIOUS
<1> DEFINE a == audit
<1>1. /\ a = [pc |-> a.pc, live |-> a.live, missing |-> a.missing, results |-> a.results]
      /\ a.live \in LiveTrades \cup {<<>>} /\ a.missing \in SUBSET Days /\ costs' \subseteq Costs
      /\ a.results = <<>> /\ bt' = bt /\ audit' = [a EXCEPT !.pc = "none"]
  BY DEF AInv, AType, AReported, Reported, NoPortfolio
<1>2. audit' = [pc |-> "none", live |-> a.live, missing |-> a.missing, results |-> a.results]
  BY <1>1
<1>3. "none" \in AuditPCs /\ "none" \notin Reported
  BY DEF AuditPCs, Reported
<1>4. QED
  BY <1>1, <1>2, <1>3, AMoved

LEMMA CompareTradesA == AInv /\ CompareTrades => AInv'
<1> SUFFICES ASSUME AInv, CompareTrades PROVE AInv'
  OBVIOUS
<1> DEFINE a == audit
<1>1. /\ a = [pc |-> a.pc, live |-> a.live, missing |-> a.missing, results |-> a.results]
      /\ a.live \in LiveTrades \cup {<<>>} /\ a.missing \in SUBSET Days /\ costs' \subseteq Costs
      /\ bt.pc = "metrics" /\ bt' = bt /\ audit' = [a EXCEPT !.pc = "report", !.results = Results(a.live)]
  BY DEF AInv, AType, CompareTrades, Results
<1>2. audit' = [pc |-> "report", live |-> a.live, missing |-> a.missing, results |-> Results(a.live)]
  BY <1>1
<1>3. "report" \in AuditPCs /\ "report" \in Reported
  BY DEF AuditPCs, Reported
<1> HIDE DEF a
<1>4. QED
  BY <1>1, <1>2, <1>3, AFinished

LEMMA AuditReportA == AInv /\ AuditReport => AInv'
<1> SUFFICES ASSUME AInv, AuditReport PROVE AInv'
  OBVIOUS
<1> DEFINE a == audit
<1>1. PICK p \in {"done", "crashed"} : audit' = [a EXCEPT !.pc = p]
  BY DEF AuditReport
<1>2. /\ a = [pc |-> a.pc, live |-> a.live, missing |-> a.missing, results |-> a.results]
      /\ a.live \in LiveTrades \cup {<<>>} /\ a.missing \in SUBSET Days /\ costs' \subseteq Costs
      /\ bt.pc = "metrics" /\ bt' = bt /\ a.results = Results(a.live)
  BY DEF AInv, AType, AReported, AuditReport, Reported
<1>3. audit' = [pc |-> p, live |-> a.live, missing |-> a.missing, results |-> a.results]
  BY <1>1, <1>2
<1>4. p \in AuditPCs /\ p \in Reported
  BY DEF AuditPCs, Reported
<1>5. audit' = [pc |-> p, live |-> a.live, missing |-> a.missing, results |-> Results(a.live)]
  BY <1>2, <1>3
<1> HIDE DEF a
<1>6. QED
  BY <1>2, <1>4, <1>5, AFinished

LEMMA AuditA == AInv /\ AuditNext => AInv'
BY FetchLiveA, SyncA, SyncDayA, AuditBacktestA, NoPortfolioA, CompareTradesA, AuditReportA
   DEF AuditNext

LEMMA IdleA == AInv /\ UNCHANGED <<bt, costs, audit>> => AInv'
<1> SUFFICES ASSUME AInv, UNCHANGED <<bt, costs, audit>> PROVE AInv'
  OBVIOUS
<1>1. bt' = bt /\ costs' = costs /\ audit' = audit
  OBVIOUS
<1>2. AType'
  BY <1>1 DEF AInv, AType
<1>3. Results(audit.live)' = Results(audit.live)
  BY <1>1 DEF Results, Compare
<1>4. AReported'
  BY <1>1, <1>3 DEF AInv, AReported
<1>5. QED
  BY <1>2, <1>4 DEF AInv

LEMMA AHolds == BInv /\ AInv => AuditTypeOK /\ MatchesAreNearest
<1> SUFFICES ASSUME BInv, AInv PROVE AuditTypeOK /\ MatchesAreNearest
  OBVIOUS
<1>1. audit.live \in Seq(LiveType) /\ Len(audit.live) \in Nat
  BY LiveOf DEF AInv
<1>2. AuditTypeOK
  <2>1. Len(audit.results) \in {0, Len(audit.live)}
    BY <1>1 DEF AInv, AReported, Results
  <2>2. QED
    BY <2>1 DEF AInv, AType, AuditTypeOK, AuditPCs
<1>3. MatchesAreNearest
  <2> SUFFICES ASSUME audit.pc \in {"report", "done"}, NEW k \in 1 .. Len(audit.live)
               PROVE  Matched(audit.results[k], audit.live[k], bt.trades[1])
    BY DEF MatchesAreNearest, Matched
  <2>1. bt.pc = "metrics" /\ audit.results = Results(audit.live)
    BY DEF AInv, AReported, Reported
  <2>2. bt.trades[1] \in Seq(TradeType)
    <3>1. bt.trades \in Seq(Seq(TradeType)) /\ Len(bt.trades) \in Nat /\ Len(bt.trades) > 0
      BY <2>1, BLabels DEF BInv, BLoaded, HasTrades
    <3>2. QED
      BY <3>1
  <2>3. audit.live[k] \in LiveType
    BY <1>1
  <2>4. audit.results[k] = Compare(audit.live[k])
    BY <2>1 DEF Results
  <2>5. QED
    BY <2>2, <2>3, <2>4, Compared
<1>4. QED
  BY <1>2, <1>3

-----------------------------------------------------------------------------
(* The walk forward                                                          *)

\* What the engine's own strategy earns up to the end of a test is a number.
LEMMA TestReturnType ==
    ASSUME args \in Ranges, gain \in Gains, NEW i \in 0 .. args.splits - 1, WindowSize \in Nat,
           SplitEnd(i) \in Int, SplitEnd(i) <= args.bars
    PROVE  TestReturn(i) \in Int
<1> DEFINE S == (-args.before) .. (SplitEnd(i) - 1)
           pick == [s \in SUBSET S |-> CHOOSE x \in s : TRUE]
           step == [x \in S |-> [v \in Int |-> gain[Default][x].all + v]]
           iter == CHOOSE g : g = [s \in SUBSET S |->
                      IF s = {} THEN 0
                      ELSE gain[Default][CHOOSE x \in s : TRUE].all + g[s \ {CHOOSE x \in s : TRUE}]]
<1>1. args.before \in Nat /\ args.bars \in Nat
  BY RangesAssumption DEF RangeSet
<1>2. IsFiniteSet(S)
  <2>1. -args.before \in Int /\ SplitEnd(i) - 1 \in Int
    BY <1>1
  <2>2. QED
    BY <2>1, FS_Interval
<1>3. Picks(pick, S)
  BY DEF Picks
<1>4. \A x \in S : gain[Default][x].all \in Int
  <2> SUFFICES ASSUME NEW x \in S PROVE gain[Default][x].all \in Int
    OBVIOUS
  <2>1. x \in -args.before .. args.bars - 1
    BY <1>1
  <2>2. gain[Default][x] \in [all : Int, long : Int]
    BY <2>1, GainsAssumption, ParamsAssumption
  <2>3. QED
    BY <2>2
<1>5. /\ step \in [S -> [Int -> Int]]
      /\ \A x \in S : \A v \in Int : step[x][v] = gain[Default][x].all + v
  BY <1>4
<1>6. \A s \in SUBSET S : pick[s] = CHOOSE x \in s : TRUE
  OBVIOUS
<1>7. TestReturn(i) = iter[S]
  BY DEF TestReturn, MapThenSumSet, MapThenFoldSet
<1> HIDE DEF S, pick, step
<1>8. PICK h : IsFold(h, S, Int, 0, step, pick)
  <2>1. 0 \in Int
    OBVIOUS
  <2>2. QED
    BY <1>2, <1>3, <1>5, <2>1, FoldExists, Zenon
<1>9. \A s \in SUBSET S : s # {} => pick[s] \in S /\ s \ {pick[s]} \in SUBSET S
  BY <1>3 DEF Picks
<1>10. h = [s \in SUBSET S |->
              IF s = {} THEN 0
              ELSE gain[Default][CHOOSE x \in s : TRUE].all + h[s \ {CHOOSE x \in s : TRUE}]]
  <2>1. ASSUME NEW s \in SUBSET S
        PROVE  h[s] = IF s = {} THEN 0
                      ELSE gain[Default][CHOOSE x \in s : TRUE].all + h[s \ {CHOOSE x \in s : TRUE}]
    <3>1. CASE s = {}
      BY <1>8, <3>1 DEF IsFold
    <3>2. CASE s # {}
      <4>1. pick[s] \in S /\ h[s \ {pick[s]}] \in Int /\ h[s] = step[pick[s]][h[s \ {pick[s]}]]
        BY <1>8, <1>9, <3>2 DEF IsFold
      <4>2. h[s] = gain[Default][pick[s]].all + h[s \ {pick[s]}]
        BY <1>5, <4>1
      <4>3. QED
        BY <1>6, <3>2, <4>2
    <3>3. QED
      BY <3>1, <3>2
  <2>2. h \in [SUBSET S -> Int]
    BY <1>8 DEF IsFold
  <2>3. QED
    BY <2>1, <2>2
<1>11. iter = [s \in SUBSET S |->
                 IF s = {} THEN 0
                 ELSE gain[Default][CHOOSE x \in s : TRUE].all + iter[s \ {CHOOSE x \in s : TRUE}]]
  BY <1>10
<1> HIDE DEF iter
<1>12. iter[{}] \in Int
  BY <1>11
<1>13. ASSUME NEW s \in SUBSET S, s # {}, iter[s \ {pick[s]}] \in Int PROVE iter[s] \in Int
  <2>1. pick[s] \in S /\ gain[Default][pick[s]].all \in Int
    BY <1>4, <1>9, <1>13
  <2>2. iter[s] = gain[Default][pick[s]].all + iter[s \ {pick[s]}]
    BY <1>6, <1>11, <1>13
  <2>3. QED
    BY <1>13, <2>1, <2>2
<1>14. \A s \in SUBSET S : s # {} /\ iter[s \ {pick[s]}] \in Int => iter[s] \in Int
  BY <1>13
<1>15. iter[S] \in Int
  BY <1>2, <1>3, <1>12, <1>14, FoldTyped, Zenon
<1>16. QED
  BY <1>7, <1>15

WindowType == [train : Stretch, test : Stretch, best : Params, return : Int]
WTyped == gain \in Gains /\ wfo.best \in Params /\ wfo.windows \in Seq(WindowType)

LEMMA WTypedInit == WfoInit => WTyped
BY ParamsAssumption DEF WfoInit, WTyped

LEMMA WTypedStep == WInv /\ WTyped /\ WfoNext => WTyped'
<1> SUFFICES ASSUME WInv, WTyped, WfoNext PROVE WTyped'
  OBVIOUS
<1>1. args' = args /\ gain' = gain
  BY DEF WfoNext, Refuse, Accept, SkipSplit, OptimizeTrain, BacktestTest, Summarize
<1>2. WindowType' = WindowType
  BY <1>1 DEF WindowType, Stretch
<1>3. wfo = [pc |-> wfo.pc, split |-> wfo.split, best |-> wfo.best, windows |-> wfo.windows]
  BY DEF WInv
<1>4. CASE Refuse \/ Accept \/ SkipSplit \/ Summarize
  <2>1. wfo'.best = wfo.best /\ wfo'.windows = wfo.windows
    BY <1>3, <1>4 DEF Refuse, Accept, SkipSplit, Summarize
  <2>2. QED
    BY <1>1, <1>2, <2>1 DEF WTyped
<1>5. CASE OptimizeTrain
  <2>1. PICK p \in Params : wfo' = [wfo EXCEPT !.pc = "test", !.best = p]
    BY <1>5 DEF OptimizeTrain, Best
  <2>2. wfo'.best = p /\ wfo'.windows = wfo.windows
    BY <1>3, <2>1
  <2>3. QED
    BY <1>1, <1>2, <2>2 DEF WTyped
<1>6. CASE BacktestTest
  <2> DEFINE i == wfo.split
             Window(r) == [train |-> Train(i), test |-> Test(i), best |-> wfo.best, return |-> r]
  <2>1. PICK r \in {TestReturn(i), 0} :
            wfo' = [wfo EXCEPT !.pc = "train", !.split = wfo.split + 1,
                        !.windows = Append(wfo.windows, Window(r))]
    BY <1>6 DEF BacktestTest
  <2>2. /\ args \in Ranges /\ Accepted /\ args.splits \in Nat /\ i \in 0 .. args.splits - 1
        /\ args.bars \in Nat /\ WindowSize \in Nat /\ TrainSize \in Nat
    <3>1. args \in Ranges /\ wfo.pc = "test" /\ wfo.split \in 0 .. args.splits
          /\ Accepted /\ wfo.split < args.splits
      BY <1>6 DEF BacktestTest, WInv
    <3>2. args.splits \in Nat /\ args.bars \in Nat /\ WindowSize \in Nat /\ TrainSize \in Nat
      BY <3>1, SizeTypes
    <3>3. QED
      BY <3>1, <3>2
  <2>3. Train(i) \in Stretch /\ Test(i) \in Stretch
    <3>1. \A b \in Train(i) \cup Test(i) : b \in 0 .. args.bars - 1
      BY <2>2, Stretches
    <3>2. QED
      BY <3>1 DEF Stretch
  <2>4. TestReturn(i) \in Int
    <3>1. SplitEnd(i) \in Nat /\ SplitEnd(i) <= args.bars
      BY <2>2, Splits
    <3>2. QED
      BY <2>2, <3>1, TestReturnType DEF WTyped
  <2>5. Window(r) \in WindowType
    BY <2>3, <2>4 DEF WindowType, WTyped
  <2> HIDE DEF Window
  <2>6. wfo'.best = wfo.best /\ wfo'.windows = Append(wfo.windows, Window(r))
    BY <1>3, <2>1
  <2>7. wfo'.windows \in Seq(WindowType)
    BY <2>5, <2>6 DEF WTyped
  <2>8. QED
    BY <1>1, <1>2, <2>6, <2>7 DEF WTyped
<1>7. QED
  BY <1>4, <1>5, <1>6 DEF WfoNext

LEMMA WHolds == WInv /\ WTyped => WfoTypeOK
BY DEF WInv, WTyped, WindowType, WfoTypeOK

LEMMA IdleW == WInv /\ WTyped /\ UNCHANGED wfoVars => WInv' /\ WTyped'
<1> SUFFICES ASSUME WInv, WTyped, UNCHANGED wfoVars PROVE WInv' /\ WTyped'
  OBVIOUS
<1>1. WInv'
  BY WStep
<1>2. WTyped'
  BY DEF WTyped, WindowType, Stretch, wfoVars
<1>3. QED
  BY <1>1, <1>2

\* The optimizer alone leaves the windows and changes the best combination only.
LEMMA OptimizedW ==
    ASSUME WInv, WTyped, UNCHANGED <<args, gain>>, NEW p \in Params, wfo' = [wfo EXCEPT !.best = p]
    PROVE  WInv' /\ WTyped'
<1>1. /\ args' = args /\ gain' = gain /\ WindowSize' = WindowSize /\ TrainSize' = TrainSize
      /\ TestSize' = TestSize /\ Accepted' = Accepted
      /\ \A i : Train(i)' = Train(i) /\ Test(i)' = Test(i)
  BY DEF WindowSize, TrainSize, TestSize, Accepted, Train, Test, SplitEnd
<1>2. wfo = [pc |-> wfo.pc, split |-> wfo.split, best |-> wfo.best, windows |-> wfo.windows]
  BY DEF WInv
<1>3. /\ wfo'.pc = wfo.pc /\ wfo'.split = wfo.split /\ wfo'.best = p /\ wfo'.windows = wfo.windows
      /\ wfo' = [pc |-> wfo'.pc, split |-> wfo'.split, best |-> wfo'.best, windows |-> wfo'.windows]
  BY <1>2
<1>4. WInv'
  BY <1>1, <1>3 DEF WInv
<1>5. WTyped'
  BY <1>1, <1>3 DEF WTyped, WindowType, Stretch
<1>6. QED
  BY <1>4, <1>5

-----------------------------------------------------------------------------
(* The parameters of the strategies                                          *)

LEMMA ParamsPlace ==
    ASSUME NEW places, places # {}
    PROVE  \E k \in places : ParamsAt(places) = given[k].params
BY DEF ParamsAt

\* Of the groups of a name there is a last one.
LEMMA LastFound ==
    ASSUME given \in Groups, NEW name, Named(name) # {}
    PROVE  LastNamed(name) # {}
<1>1. Len(given) \in Nat
  BY GroupsAssumption
<1>2. Named(name) \subseteq 0 .. Len(given)
  BY <1>1 DEF Named
<1>3. Max(Named(name)) \in Named(name) /\ \A l \in Named(name) : Max(Named(name)) >= l
  BY <1>1, <1>2, Largest
<1>4. \A l \in Named(name) : l <= Max(Named(name))
  BY <1>1, <1>2, <1>3
<1>5. QED
  BY <1>3, <1>4 DEF LastNamed

\* Where the parameters of a strategy come from.
Source(i, l) ==
    /\ l \in 1 .. Len(given) /\ ParamsOf(i) = given[l].params
    /\ IF Named(Strategies[i]) # {} THEN l \in LastNamed(Strategies[i]) ELSE given[l].name = NoName

LEMMA SourceFound ==
    ASSUME given \in Groups, NEW i
    PROVE  ParamsOf(i) = NoParams \/ \E l : Source(i, l)
<1>1. CASE Named(Strategies[i]) # {}
  <2>1. LastNamed(Strategies[i]) # {}
    BY <1>1, LastFound
  <2>2. PICK l \in LastNamed(Strategies[i]) : ParamsAt(LastNamed(Strategies[i])) = given[l].params
    BY <2>1, ParamsPlace
  <2>3. ParamsOf(i) = given[l].params
    BY <1>1, <2>2 DEF ParamsOf
  <2>4. l \in 1 .. Len(given)
    BY DEF LastNamed, Named
  <2>5. QED
    BY <1>1, <2>3, <2>4 DEF Source
<1>2. CASE Named(Strategies[i]) = {}
  <2>1. ASSUME NEW j, Positional(j) # {}, ParamsOf(i) = ParamsAt(Positional(j)) PROVE \E l : Source(i, l)
    <3>1. PICK l \in Positional(j) : ParamsAt(Positional(j)) = given[l].params
      BY <2>1, ParamsPlace
    <3>2. l \in 1 .. Len(given) /\ given[l].name = NoName
      BY DEF Positional, Named
    <3>3. QED
      BY <1>2, <2>1, <3>1, <3>2 DEF Source
  <2>2. QED
    BY <1>2, <2>1 DEF ParamsOf
<1>3. QED
  BY <1>1, <1>2

Modes == {"parse", "exit", "backtest", "optimize", "wfo", "audit"}

\* The parameters were read from the groups; the audit begins in its own mode.
PInv ==
    /\ mode \in Modes /\ given \in Groups /\ DOMAIN params = 1 .. Len(Strategies)
    /\ mode \notin {"parse", "exit"} => \A i \in 1 .. Len(Strategies) : params[i] = ParamsOf(i)
    /\ audit.pc # "fetch" => mode = "audit"

LEMMA PInitially == Init => PInv
BY DEF Init, AuditInit, PInv, Modes

LEMMA PStep == PInv /\ [Next]_vars => PInv'
<1> SUFFICES ASSUME PInv, [Next]_vars PROVE PInv'
  OBVIOUS
<1>1. given' = given
  BY DEF Next, vars, UnknownStrategy, SetupEngine, BacktestMode, OptimizeMode, NoGrid, WfoMode, AuditMode
<1>2. \A i : ParamsOf(i)' = ParamsOf(i)
  BY <1>1 DEF ParamsOf, ParamsAt, Named, LastNamed, Positional
<1>3. CASE SetupEngine
  <2>1. /\ params' = [i \in 1 .. Len(Strategies) |-> ParamsOf(i)] /\ audit' = audit /\ mode = "parse"
        /\ mode' \in {"backtest", "optimize", "wfo", "audit"}
    BY <1>3 DEF SetupEngine
  <2>2. QED
    BY <1>1, <1>2, <2>1 DEF PInv, Modes
<1>4. CASE UnknownStrategy \/ OptimizeMode \/ NoGrid
  <2>1. mode \in {"parse", "optimize", "wfo"} /\ mode' = "exit" /\ params' = params /\ audit' = audit
    BY <1>4 DEF UnknownStrategy, OptimizeMode, NoGrid
  <2>2. QED
    BY <1>1, <2>1 DEF PInv, Modes
<1>5. CASE BacktestMode \/ WfoMode \/ UNCHANGED vars
  <2>1. mode' = mode /\ params' = params /\ audit' = audit
    BY <1>5 DEF BacktestMode, WfoMode, vars
  <2>2. QED
    BY <1>1, <1>2, <2>1 DEF PInv
<1>6. CASE AuditMode
  <2>1. mode' = mode /\ params' = params /\ mode = "audit"
    BY <1>6 DEF AuditMode
  <2>2. QED
    BY <1>1, <1>2, <2>1 DEF PInv
<1>7. QED
  BY <1>3, <1>4, <1>5, <1>6 DEF Next

LEMMA PHolds == PInv => OwnParams
<1> SUFFICES ASSUME PInv, mode \in {"backtest", "audit"},
                    NEW k \in 1 .. Len(given), given[k].name # NoName, NEW i \in 1 .. Len(Strategies)
             PROVE  /\ Strategies[i] = given[k].name =>
                          \E l \in k .. Len(given) :
                              given[l].name = given[k].name /\ params[i] = given[l].params
                    /\ params[i] = given[k].params =>
                          \E l \in 1 .. Len(given) :
                              given[l].params = given[k].params /\ given[l].name \in {Strategies[i], NoName}
  BY DEF OwnParams
<1>1. given \in Groups /\ params[i] = ParamsOf(i) /\ Len(given) \in Nat
  BY GroupsAssumption DEF PInv
<1>2. given[k].params # NoParams
  BY <1>1, GroupsAssumption
<1>3. ASSUME Strategies[i] = given[k].name
      PROVE  \E l \in k .. Len(given) : given[l].name = given[k].name /\ params[i] = given[l].params
  <2>1. k \in Named(Strategies[i])
    BY <1>3 DEF Named
  <2>2. LastNamed(Strategies[i]) # {}
    BY <1>1, <2>1, LastFound
  <2>3. PICK l \in LastNamed(Strategies[i]) : ParamsAt(LastNamed(Strategies[i])) = given[l].params
    BY <2>2, ParamsPlace
  <2>4. l \in 1 .. Len(given) /\ given[l].name = Strategies[i] /\ k <= l
    BY <2>1, <2>3 DEF LastNamed, Named
  <2>5. ParamsOf(i) = given[l].params
    BY <2>1, <2>3 DEF ParamsOf
  <2>6. l \in k .. Len(given)
    BY <1>1, <2>4
  <2>7. QED
    BY <1>1, <1>3, <2>4, <2>5, <2>6
<1>4. ASSUME params[i] = given[k].params
      PROVE  \E l \in 1 .. Len(given) :
                given[l].params = given[k].params /\ given[l].name \in {Strategies[i], NoName}
  <2>1. PICK l : Source(i, l)
    BY <1>1, <1>2, <1>4, SourceFound
  <2>2. l \in 1 .. Len(given) /\ given[l].params = given[k].params
    BY <1>1, <1>4, <2>1 DEF Source
  <2>3. given[l].name \in {Strategies[i], NoName}
    BY <2>1 DEF Source, LastNamed, Named
  <2>4. QED
    BY <2>2, <2>3
<1>5. QED
  BY <1>3, <1>4

-----------------------------------------------------------------------------
(* The whole program                                                         *)

IInv == BInv /\ AInv /\ WInv /\ WTyped /\ PInv

LEMMA Initially == Init => IInv
BY BInitially, AInitially, WInit, WTypedInit, PInitially DEF Init, IInv

LEMMA Stepwise == IInv /\ [Next]_vars => IInv'
<1> SUFFICES ASSUME IInv, [Next]_vars PROVE IInv'
  OBVIOUS
<1>1. BInv /\ AInv /\ WInv /\ WTyped /\ PInv
  BY DEF IInv
<1>2. PInv'
  BY <1>1, PStep
<1>3. CASE UnknownStrategy \/ SetupEngine \/ NoGrid \/ UNCHANGED vars
  <2>1. UNCHANGED <<bt, costs, audit, args, gain, wfo>>
    BY <1>3 DEF UnknownStrategy, SetupEngine, NoGrid, vars
  <2>2. BInv' /\ AInv'
    BY <1>1, <2>1, IdleB, IdleA
  <2>3. WInv' /\ WTyped'
    BY <1>1, <2>1, IdleW DEF wfoVars
  <2>4. QED
    BY <1>2, <2>2, <2>3 DEF IInv
<1>4. CASE BacktestMode
  <2>1. /\ RunBacktest \/ Analyze
        /\ UNCHANGED <<costs, audit, args, gain, wfo>> /\ mode = "backtest"
    BY <1>4 DEF BacktestMode
  <2>2. BInv'
    BY <1>1, <2>1, EngineB
  <2>3. AInv'
    <3>1. audit.pc = "fetch" /\ audit.results = <<>> /\ audit' = audit /\ costs' = costs
      BY <1>1, <2>1 DEF PInv, AInv, AReported, Reported
    <3>2. AType'
      BY <1>1, <3>1 DEF AInv, AType
    <3>3. AReported'
      BY <3>1 DEF AReported, Reported
    <3>4. QED
      BY <3>2, <3>3 DEF AInv
  <2>4. WInv' /\ WTyped'
    BY <1>1, <2>1, IdleW DEF wfoVars
  <2>5. QED
    BY <1>2, <2>2, <2>3, <2>4 DEF IInv
<1>5. CASE OptimizeMode
  <2>1. UNCHANGED <<bt, costs, audit, args, gain>>
    BY <1>5 DEF OptimizeMode
  <2>2. BInv' /\ AInv'
    BY <1>1, <2>1, IdleB, IdleA
  <2>3. CASE wfo' = wfo
    BY <1>1, <1>2, <2>1, <2>2, <2>3, IdleW DEF IInv, wfoVars
  <2>4. CASE \E p \in Params : wfo' = [wfo EXCEPT !.best = p]
    BY <1>1, <1>2, <2>1, <2>2, <2>4, OptimizedW DEF IInv
  <2>5. QED
    BY <1>5, <2>3, <2>4 DEF OptimizeMode, Best
<1>6. CASE WfoMode
  <2>1. WfoNext /\ UNCHANGED <<bt, costs, audit>>
    BY <1>6 DEF WfoMode
  <2>2. BInv' /\ AInv'
    BY <1>1, <2>1, IdleB, IdleA
  <2>3. WInv' /\ WTyped'
    BY <1>1, <2>1, WStep, WTypedStep
  <2>4. QED
    BY <1>2, <2>2, <2>3 DEF IInv
<1>7. CASE AuditMode
  <2>1. AuditNext /\ UNCHANGED <<args, gain, wfo>>
    BY <1>7 DEF AuditMode
  <2>2. bt' = bt \/ RunBacktest
    BY <2>1 DEF AuditNext, FetchLive, SkipSync, StartSync, SyncDay, EndSync, AuditBacktest,
                NoPortfolio, CompareTrades, AuditReport
  <2>3. BInv'
    BY <1>1, <2>2, IdleB, EngineB
  <2>4. AInv'
    BY <1>1, <2>1, AuditA
  <2>5. WInv' /\ WTyped'
    BY <1>1, <2>1, IdleW DEF wfoVars
  <2>6. QED
    BY <1>2, <2>3, <2>4, <2>5 DEF IInv
<1>8. QED
  BY <1>3, <1>4, <1>5, <1>6, <1>7 DEF Next

LEMMA Invariant == Spec => []IInv
<1>1. QED
  BY Initially, Stepwise, PTL DEF Spec

\* Whatever the tables, batches, labels, command lines and groups: the state of a backtest, an
\* audit and a walk forward keeps its types (run.py:60).
THEOREM ResearchTypes == Spec => []TypeOK
<1>1. IInv => TypeOK
  BY BHolds, AHolds, WHolds DEF IInv, TypeOK, PInv, Modes
<1>2. QED
  BY <1>1, Invariant, PTL

\* No trade of any column is entered on the bar of its signal or before, and none overlaps the
\* next, for every batch and number of bars (engine.py:94).
THEOREM NoTradeLooksAhead == Spec => []NoLookAhead
<1>1. IInv => NoLookAhead
  BY BHolds DEF IInv
<1>2. QED
  BY <1>1, Invariant, PTL

\* The profit summed over the trades of all columns is what the combined equity curve gained,
\* for every number of columns and trades (metrics.py:23).
THEOREM ProfitMatchesValue == Spec => []ProfitIsValue
<1>1. IInv => ProfitIsValue
  BY BHolds DEF IInv
<1>2. QED
  BY <1>1, Invariant, PTL

\* Every order of any number of trades ends with the same cash, and its drawdown is at least the
\* loss (monte_carlo.py:59).
THEOREM ShufflesEndAlike == Spec => []ShufflesAgree
<1>1. IInv => ShufflesAgree
  BY BHolds DEF IInv
<1>2. QED
  BY <1>1, Invariant, PTL

\* Every live trade of an audit is matched with the nearest backtest trade, or there is none
\* near enough (audit_action.py:128).
THEOREM AuditMatchesNearest == Spec => []MatchesAreNearest
<1>1. IInv => MatchesAreNearest
  BY AHolds DEF IInv
<1>2. QED
  BY <1>1, Invariant, PTL

\* However many groups --params has: a strategy's own group reaches it, a named group no other
\* strategy (run.py:106).
THEOREM ParamsReachTheirStrategy == Spec => []OwnParams
<1>1. IInv => OwnParams
  BY PHolds DEF IInv
<1>2. QED
  BY <1>1, Invariant, PTL

\* The windows of a walk forward, in whatever mode and after whatever grid: each is trained before
\* it is tested, and they follow each other without a common bar (walk_forward.py:75).
THEOREM WalkForwardFollows == Spec => []TestFollowsTrain
<1>1. IInv => TestFollowsTrain
  BY Following DEF IInv
<1>2. QED
  BY <1>1, Invariant, PTL

\* A walk forward of the program that completes has covered every loaded bar
\* (walk_forward.py:77).
THEOREM WalkForwardCovers == Spec => []NoBarLost
<1>1. IInv => NoBarLost
  BY Covering DEF IInv
<1>2. QED
  BY <1>1, Invariant, PTL
=============================================================================
