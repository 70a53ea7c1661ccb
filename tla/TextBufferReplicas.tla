------------------------- MODULE TextBufferReplicas -------------------------
(***************************************************************************)
(* Proofs about the replicas of a text buffer, for any number of replicas, *)
(* operations, ranges and characters.  The inductive invariant IInv says   *)
(* that a version vector stands for a set of operations: what a replica    *)
(* has, its fragments and its undo map, is what the operations its version *)
(* names made, whatever order and batches they came in.  Type correctness, *)
(* causality, the cached visibility, the queue of deferred operations and  *)
(* the undo stacks follow from it.                                         *)
(*                                                                         *)
(* Induction is done with Least: a set of numbers that is not empty has a  *)
(* least member, so a least counterexample exists if there is any.         *)
(***************************************************************************)
EXTENDS TextBuffer, TLAPS, FiniteSetTheorems, FunctionTheorems, SequenceTheorems

-----------------------------------------------------------------------------
(* Numbers, orders and folds *)

\* A set of numbers that is not empty has a least member: what the proofs by
\* induction below rest on.
LEMMA Least ==
  ASSUME NEW T \in SUBSET Nat, T # {}
  PROVE  \E x \in T : \A y \in T : x <= y
<1> DEFINE R == OpToRel(<, Nat)
<1>1. IsWellFoundedOn(R, Nat)
  BY NatLessThanWellFounded
<1>2. \A y, x \in Nat : y < x => <<y, x>> \in R
  BY DEF OpToRel
<1> HIDE DEF R
<1>3. PICK x \in T : \A y \in T : ~(<<y, x>> \in R)
  BY <1>1, WFMin
<1>4. ASSUME NEW y \in T PROVE x <= y
  <2>1. x \in Nat /\ y \in Nat
    OBVIOUS
  <2>2. ~(y < x)
    BY <1>2, <1>3, <2>1, Zenon
  <2> QED
    BY <2>1, <2>2
<1> QED
  BY <1>4

\* What holds of 0 and passes from every number to the next holds up to n.
LEMMA UpTo ==
  ASSUME NEW n \in Nat, NEW T, 0 \in T, \A i \in 0 .. n : i \in T /\ i < n => i + 1 \in T
  PROVE  \A i \in 0 .. n : i \in T
<1> DEFINE U == {i \in 0 .. n : i \notin T}
<1> SUFFICES ASSUME U # {} PROVE FALSE
  OBVIOUS
<1>0. U \in SUBSET Nat
  OBVIOUS
<1>1. PICK x \in U : \A y \in U : x <= y
  BY <1>0, Least
<1>2. x \in 1 .. n
  <2>1. x \in 0 .. n /\ x # 0
    OBVIOUS
  <2> QED
    BY <2>1
<1>3. x - 1 \in 0 .. n /\ x - 1 < n /\ (x - 1) + 1 = x /\ ~(x <= x - 1)
  BY <1>2
<1>4. x - 1 \in T
  BY <1>1, <1>3
<1> QED
  BY <1>3, <1>4

\* A strict total order.
Orders(R, S) ==
  /\ \A x \in S : <<x, x>> \notin R
  /\ \A x, y, z \in S : <<x, y>> \in R /\ <<y, z>> \in R => <<x, z>> \in R
  /\ \A x, y \in S : x = y \/ <<x, y>> \in R \/ <<y, x>> \in R

Below(S, R, x) == {y \in S : <<y, x>> \in R}

\* The members of a finite set have different ranks in an order, and every rank
\* is taken.
LEMMA Ranks ==
  ASSUME NEW S, IsFiniteSet(S), NEW R, Orders(R, S)
  PROVE  /\ Cardinality(S) \in Nat
         /\ \A x \in S : Cardinality(Below(S, R, x)) \in 0 .. Cardinality(S) - 1
         /\ \A x, y \in S : <<x, y>> \in R =>
              Cardinality(Below(S, R, x)) < Cardinality(Below(S, R, y))
         /\ \A n \in 1 .. Cardinality(S) : \E x \in S : Cardinality(Below(S, R, x)) = n - 1
<1>1. Cardinality(S) \in Nat
  BY FS_CardinalityType
<1>2. ASSUME NEW x \in S
      PROVE  /\ IsFiniteSet(Below(S, R, x)) /\ Cardinality(Below(S, R, x)) \in Nat
             /\ Cardinality(Below(S, R, x)) < Cardinality(S)
  <2>1. Below(S, R, x) \in SUBSET S /\ x \notin Below(S, R, x)
    BY DEF Below, Orders
  <2>2. /\ IsFiniteSet(Below(S, R, x)) /\ Cardinality(Below(S, R, x)) <= Cardinality(S)
        /\ Cardinality(S) = Cardinality(Below(S, R, x)) => S = Below(S, R, x)
    BY <2>1, FS_Subset
  <2>3. Cardinality(Below(S, R, x)) \in Nat
    BY <2>2, FS_CardinalityType
  <2>4. Cardinality(S) # Cardinality(Below(S, R, x))
    BY <2>1, <2>2
  <2> QED
    BY <1>1, <2>2, <2>3, <2>4
<1>3. ASSUME NEW x \in S, NEW y \in S, <<x, y>> \in R
      PROVE  Cardinality(Below(S, R, x)) < Cardinality(Below(S, R, y))
  <2>1. /\ Below(S, R, x) \in SUBSET Below(S, R, y)
        /\ x \in Below(S, R, y) /\ x \notin Below(S, R, x)
    BY <1>3, Zenon DEF Below, Orders
  <2>2. /\ Cardinality(Below(S, R, x)) <= Cardinality(Below(S, R, y))
        /\ Cardinality(Below(S, R, y)) = Cardinality(Below(S, R, x))
             => Below(S, R, y) = Below(S, R, x)
    BY <1>2, <2>1, FS_Subset
  <2>3. Cardinality(Below(S, R, y)) # Cardinality(Below(S, R, x))
    BY <2>1, <2>2
  <2> QED
    BY <1>2, <2>2, <2>3
<1>4. ASSUME NEW n \in 1 .. Cardinality(S)
      PROVE  \E x \in S : Cardinality(Below(S, R, x)) = n - 1
  <2> DEFINE f == [x \in S |-> Cardinality(Below(S, R, x)) + 1]
             N == Cardinality(S)
  <2>1. f \in [S -> 1 .. N]
    BY <1>1, <1>2
  <2>2. ASSUME NEW x \in S, NEW y \in S, f[x] = f[y] PROVE x = y
    <3>1. Cardinality(Below(S, R, x)) = Cardinality(Below(S, R, y))
      BY <1>2, <2>2
    <3>2. ~(<<x, y>> \in R) /\ ~(<<y, x>> \in R)
      BY <1>2, <1>3, <3>1
    <3> QED
      BY <3>2 DEF Orders
  <2>3. f \in Injection(S, 1 .. N)
    BY <2>1, <2>2, Zenon DEF Injection, IsInjective
  <2>4. IsFiniteSet(1 .. N) /\ Cardinality(1 .. N) = N
    BY <1>1, FS_Interval
  <2> HIDE DEF f
  <2>5. f \in Surjection(S, 1 .. N)
    BY <2>3, <2>4, FS_Injection
  <2>6. PICK x \in S : f[x] = n
    BY <2>5 DEF Surjection
  <2> QED
    BY <1>2, <2>6 DEF f
<1> QED
  BY <1>1, <1>2, <1>3, <1>4

\* InOrder lists every member of a set once, in the order.
LEMMA InOrderLists ==
  ASSUME NEW S, IsFiniteSet(S), NEW R, Orders(R, S)
  PROVE  /\ Cardinality(S) \in Nat
         /\ InOrder(S, R) \in [1 .. Cardinality(S) -> S]
         /\ \A x \in S : \E n \in 1 .. Cardinality(S) : InOrder(S, R)[n] = x
         /\ \A m, n \in 1 .. Cardinality(S) :
              m < n <=> <<InOrder(S, R)[m], InOrder(S, R)[n]>> \in R
<1> DEFINE N == Cardinality(S)
           s == InOrder(S, R)
           rank(x) == Cardinality(Below(S, R, x))
<1>1. /\ N \in Nat
      /\ \A x \in S : rank(x) \in 0 .. N - 1
      /\ \A x, y \in S : <<x, y>> \in R => rank(x) < rank(y)
      /\ \A n \in 1 .. N : \E x \in S : rank(x) = n - 1
  BY Ranks
<1>2. s = [n \in 1 .. N |-> CHOOSE x \in S : rank(x) = n - 1]
  BY DEF InOrder, Below
<1> HIDE DEF rank, s
<1>3. ASSUME NEW n \in 1 .. N PROVE s[n] \in S /\ rank(s[n]) = n - 1
  BY <1>1, <1>2
<1>4. s \in [1 .. N -> S]
  BY <1>2, <1>3
<1>5. \A x, y \in S : rank(x) = rank(y) => x = y
  <2> SUFFICES ASSUME NEW x \in S, NEW y \in S, rank(x) = rank(y) PROVE x = y
    OBVIOUS
  <2>1. ~(<<x, y>> \in R) /\ ~(<<y, x>> \in R)
    BY <1>1
  <2> QED
    BY <2>1 DEF Orders
<1>6. ASSUME NEW x \in S PROVE \E n \in 1 .. N : s[n] = x
  <2>1. rank(x) + 1 \in 1 .. N /\ (rank(x) + 1) - 1 = rank(x)
    BY <1>1
  <2>2. s[rank(x) + 1] \in S /\ rank(s[rank(x) + 1]) = rank(x)
    BY <1>3, <2>1
  <2> QED
    BY <1>5, <2>1, <2>2
<1>7. ASSUME NEW m \in 1 .. N, NEW n \in 1 .. N PROVE m < n <=> <<s[m], s[n]>> \in R
  <2>1. /\ s[m] \in S /\ s[n] \in S /\ rank(s[m]) = m - 1 /\ rank(s[n]) = n - 1
    BY <1>3
  <2>2. CASE s[m] = s[n]
    <3>1. m = n
      BY <1>1, <2>1, <2>2
    <3> QED
      BY <1>1, <2>1, <2>2, <3>1 DEF Orders
  <2>3. CASE <<s[m], s[n]>> \in R
    BY <1>1, <2>1, <2>3
  <2>4. CASE <<s[n], s[m]>> \in R
    <3>1. n < m
      BY <1>1, <2>1, <2>4
    <3>2. ~(<<s[m], s[n]>> \in R)
      BY <1>1, <2>1, <3>1
    <3> QED
      BY <3>1, <3>2
  <2> QED
    BY <2>1, <2>2, <2>3, <2>4 DEF Orders
<1> QED
  BY <1>1, <1>4, <1>6, <1>7 DEF s

\* The greatest and the least member of a bounded set of numbers.
LEMMA MaxOf ==
  ASSUME NEW T \in SUBSET Nat, T # {}, NEW n \in Nat, \A y \in T : y <= n
  PROVE  Max(T) \in T /\ \A y \in T : y <= Max(T)
<1> DEFINE U == {k \in Nat : \A y \in T : y <= k}
<1>0. U \in SUBSET Nat /\ U # {}
  OBVIOUS
<1>1. PICK k \in U : \A j \in U : k <= j
  BY <1>0, Least
<1>2. k \in Nat /\ \A y \in T : y <= k
  OBVIOUS
<1>3. k \in T
  <2> SUFFICES ASSUME k \notin T PROVE FALSE
    OBVIOUS
  <2>1. \A y \in T : y <= k - 1
    <3> SUFFICES ASSUME NEW y \in T PROVE y <= k - 1
      OBVIOUS
    <3>1. y \in Nat /\ y <= k /\ y # k
      BY <1>2
    <3> QED
      BY <1>2, <3>1
  <2>2. k - 1 \in Nat
    <3>1. PICK y \in T : TRUE
      OBVIOUS
    <3>2. y \in Nat /\ y <= k - 1
      BY <2>1
    <3> QED
      BY <1>2, <3>2
  <2>3. k - 1 \in U
    BY <2>1, <2>2
  <2> QED
    BY <1>1, <1>2, <2>3
<1>4. \E x \in T : \A y \in T : x >= y
  BY <1>2, <1>3
<1>5. Max(T) \in T /\ \A y \in T : Max(T) >= y
  BY <1>4, Zenon DEF Max
<1> QED
  BY <1>5

\* The least member of a set of numbers.
LEMMA MinOf ==
  ASSUME NEW T \in SUBSET Nat, T # {}
  PROVE  Min(T) \in T /\ \A y \in T : Min(T) <= y
<1>1. \E x \in T : \A y \in T : x <= y
  BY Least
<1> QED
  BY <1>1, Zenon DEF Min

\* g is the function that FoldLeft computes with, for the first m members of s.
IsFold(g, b, s, m) ==
  g = [t \in SUBSET (1 .. m) |->
         IF t = {} THEN b ELSE apply_or_defer(g[t \ {Max(t)}], s[Max(t)])]

\* There is such a function.
LEMMA FoldExists ==
  ASSUME NEW b, NEW s, NEW n \in Nat
  PROVE  \E g : IsFold(g, b, s, n)
<1> DEFINE T == {m \in 0 .. n : \E g : IsFold(g, b, s, m)}
<1>1. 0 \in T
  <2> DEFINE g == [t \in SUBSET (1 .. 0) |-> b]
  <2>0. SUBSET (1 .. 0) = {{}}
    <3>1. 1 .. 0 = {}
      OBVIOUS
    <3> QED
      BY <3>1
  <2>1. IsFold(g, b, s, 0)
    BY <2>0 DEF IsFold
  <2> QED
    BY <2>1
<1>2. ASSUME NEW m \in 0 .. n, m \in T, m < n PROVE m + 1 \in T
  <2>1. PICK g : IsFold(g, b, s, m)
    BY <1>2
  <2> DEFINE h == [t \in SUBSET (1 .. m + 1) |->
                     IF m + 1 \in t THEN apply_or_defer(g[t \ {m + 1}], s[m + 1]) ELSE g[t]]
  <2>2. ASSUME NEW t \in SUBSET (1 .. m + 1)
        PROVE  h[t] = IF t = {} THEN b ELSE apply_or_defer(h[t \ {Max(t)}], s[Max(t)])
    <3>0. m \in Nat /\ m + 1 \in 1 .. m + 1
      OBVIOUS
    <3>1. CASE t = {}
      <4>1. h[t] = g[t] /\ t \in SUBSET (1 .. m)
        BY <3>1
      <4> QED
        BY <2>1, <3>1, <4>1 DEF IsFold
    <3>2. CASE t # {} /\ m + 1 \in t
      <4>1. t \in SUBSET Nat /\ \A y \in t : y <= m + 1
        BY <3>0
      <4>2. Max(t) \in t /\ \A y \in t : y <= Max(t)
        BY <3>0, <3>2, <4>1, MaxOf
      <4>3. Max(t) = m + 1
        <5>1. m + 1 <= Max(t) /\ Max(t) <= m + 1 /\ Max(t) \in Nat
          BY <3>2, <4>1, <4>2, Zenon
        <5> QED
          BY <3>0, <5>1
      <4>4. t \ {m + 1} \in SUBSET (1 .. m + 1) /\ m + 1 \notin t \ {m + 1}
        OBVIOUS
      <4>5. h[t \ {m + 1}] = g[t \ {m + 1}]
        BY <4>4
      <4> QED
        BY <3>2, <4>3, <4>5
    <3>3. CASE t # {} /\ m + 1 \notin t
      <4>1. t \in SUBSET (1 .. m) /\ t \in SUBSET Nat /\ \A y \in t : y <= m
        BY <3>0, <3>3
      <4>2. Max(t) \in t
        BY <3>0, <3>3, <4>1, MaxOf
      <4>3. t \ {Max(t)} \in SUBSET (1 .. m + 1) /\ m + 1 \notin t \ {Max(t)}
        BY <3>3
      <4>4. h[t \ {Max(t)}] = g[t \ {Max(t)}] /\ h[t] = g[t]
        BY <3>3, <4>3
      <4>5. g[t] = apply_or_defer(g[t \ {Max(t)}], s[Max(t)])
        BY <2>1, <3>3, <4>1, Zenon DEF IsFold
      <4> QED
        BY <3>3, <4>4, <4>5
    <3> QED
      BY <3>1, <3>2, <3>3
  <2>3. h = [t \in SUBSET (1 .. m + 1) |-> h[t]]
    OBVIOUS
  <2> HIDE DEF h
  <2>4. IsFold(h, b, s, m + 1)
    BY <2>2, <2>3 DEF IsFold
  <2>5. m + 1 \in 0 .. n
    BY <1>2
  <2> QED
    BY <2>4, <2>5
<1> HIDE DEF T
<1>3. \A i \in 0 .. n : i \in T
  BY <1>1, <1>2, UpTo
<1> QED
  BY <1>3 DEF T

\* The states of a buffer while the operations of s are applied one by one.
IsRun(run, b, s, n) ==
  /\ run[0] = b
  /\ \A i \in 1 .. n : run[i] = apply_or_defer(run[i - 1], s[i])

\* FoldLeft(apply_or_defer, b, s) is the last state of a run of s from b.
LEMMA FoldRuns ==
  ASSUME NEW b, NEW n \in Nat, NEW s, DOMAIN s = 1 .. n
  PROVE  \E run : IsRun(run, b, s, n) /\ FoldLeft(apply_or_defer, b, s) = run[n]
<1> DEFINE iter == CHOOSE g : g = [t \in SUBSET DOMAIN s |->
                     IF t = {} THEN b ELSE apply_or_defer(g[t \ {Max(t)}], s[Max(t)])]
<1>1. FoldLeft(apply_or_defer, b, s) = iter[DOMAIN s]
  BY DEF FoldLeft, MapThenFoldSet
<1>2. \E g : g = [t \in SUBSET DOMAIN s |->
                     IF t = {} THEN b ELSE apply_or_defer(g[t \ {Max(t)}], s[Max(t)])]
  <2>1. PICK g : IsFold(g, b, s, n)
    BY FoldExists
  <2> QED
    BY <2>1, Zenon DEF IsFold
<1>3. IsFold(iter, b, s, n)
  BY <1>2, Zenon DEF IsFold
<1> HIDE DEF iter
<1> DEFINE run == [i \in 0 .. n |-> iter[1 .. i]]
<1>4. 1 .. 0 = {} /\ 1 .. 0 \in SUBSET (1 .. n)
  OBVIOUS
<1>5. run[0] = b
  BY <1>3, <1>4 DEF IsFold
<1>6. ASSUME NEW i \in 1 .. n PROVE run[i] = apply_or_defer(run[i - 1], s[i])
  <2>1. /\ 1 .. i \in SUBSET (1 .. n) /\ 1 .. i # {} /\ 1 .. i \in SUBSET Nat
        /\ i \in 1 .. i /\ i \in Nat /\ \A y \in 1 .. i : y <= i
    OBVIOUS
  <2>2. Max(1 .. i) \in 1 .. i /\ \A y \in 1 .. i : y <= Max(1 .. i)
    BY <2>1, MaxOf
  <2>3. Max(1 .. i) = i
    BY <2>1, <2>2
  <2>4. (1 .. i) \ {i} = 1 .. i - 1 /\ i - 1 \in 0 .. n /\ i \in 0 .. n
    OBVIOUS
  <2>5. iter[1 .. i] = apply_or_defer(iter[1 .. i - 1], s[i])
    BY <1>3, <2>1, <2>3, <2>4, Zenon DEF IsFold
  <2> QED
    BY <2>4, <2>5
<1>7. FoldLeft(apply_or_defer, b, s) = run[n]
  BY <1>1
<1> HIDE DEF run
<1> QED
  BY <1>5, <1>6, <1>7 DEF IsRun

-----------------------------------------------------------------------------
(* What an edit makes of the fragments *)

Stamps == Nat \X Replicas

FragmentType ==
  [timestamp : Stamps, offset : Nat, deletions : SUBSET Stamps, visible : BOOLEAN]

RangeType == [start : Nat, end : Nat, len : Nat]

\* The members of a function on a finite set are finitely many.
LEMMA ImageFinite ==
  ASSUME NEW S, IsFiniteSet(S), NEW f, DOMAIN f = S, f = [x \in S |-> f[x]]
  PROVE  IsFiniteSet({f[x] : x \in S})
<1> DEFINE T == {f[x] : x \in S}
<1>1. f \in [S -> T]
  OBVIOUS
<1>2. f \in Surjection(S, T)
  BY <1>1 DEF Surjection
<1> QED
  BY <1>2, FS_Surjection

\* An edit inserts finitely many characters.
LEMMA NewTextFinite ==
  ASSUME NEW ranges \in Seq(RangeType)
  PROVE  /\ IsFiniteSet(NewText(ranges))
         /\ \A x \in NewText(ranges) :
              /\ x = <<x[1], x[2]>> /\ x[1] \in DOMAIN ranges /\ x[2] \in 1 .. ranges[x[1]].len
              /\ x[1] \in Nat \ {0} /\ x[2] \in Nat \ {0}
<1> DEFINE n == Len(ranges)
           f == [k \in 1 .. n |-> {k} \X (1 .. ranges[k].len)]
<1>0. DOMAIN ranges = 1 .. n /\ n \in Nat /\ \A k \in 1 .. n : ranges[k] \in RangeType
  OBVIOUS
<1>1. DOMAIN ranges = 1 .. n /\ n \in Nat /\ \A k \in 1 .. n : ranges[k].len \in Nat
  BY <1>0 DEF RangeType
<1>2. IsFiniteSet(1 .. n)
  BY <1>1, FS_Interval
<1>3. IsFiniteSet({f[k] : k \in 1 .. n})
  <2>1. DOMAIN f = 1 .. n /\ f = [k \in 1 .. n |-> f[k]]
    OBVIOUS
  <2> HIDE DEF f
  <2> QED
    BY <1>2, <2>1, ImageFinite
<1>4. ASSUME NEW T \in {f[k] : k \in 1 .. n} PROVE IsFiniteSet(T)
  <2>1. PICK k \in 1 .. n : T = {k} \X (1 .. ranges[k].len)
    OBVIOUS
  <2>2. IsFiniteSet({k})
    BY FS_Singleton
  <2>3. IsFiniteSet(1 .. ranges[k].len)
    <3>1. ranges[k].len \in Int /\ 1 \in Int
      BY <1>1
    <3> QED
      BY <3>1, FS_Interval
  <2> QED
    BY <2>1, <2>2, <2>3, FS_Product
<1>5. NewText(ranges) = UNION {f[k] : k \in 1 .. n}
  BY <1>1 DEF NewText
<1>6. IsFiniteSet(NewText(ranges))
  BY <1>3, <1>4, <1>5, FS_UNION
<1>7. ASSUME NEW x \in NewText(ranges)
      PROVE  /\ x = <<x[1], x[2]>> /\ x[1] \in DOMAIN ranges /\ x[2] \in 1 .. ranges[x[1]].len
             /\ x[1] \in Nat \ {0} /\ x[2] \in Nat \ {0}
  <2>1. PICK k \in 1 .. n : x \in {k} \X (1 .. ranges[k].len)
    BY <1>1 DEF NewText
  <2>2. x = <<x[1], x[2]>> /\ x[1] = k /\ x[2] \in 1 .. ranges[k].len
    BY <2>1
  <2> QED
    BY <1>1, <2>2
<1> QED
  BY <1>6, <1>7

\* Characters of an edit have different offsets, in the order of the text.
LEMMA OffsetsDiffer ==
  ASSUME NEW ranges \in Seq(RangeType)
  PROVE  /\ \A x \in NewText(ranges) : insertion_offset(ranges, x[1], x[2]) \in Nat
         /\ \A x, y \in NewText(ranges) :
              x[1] < y[1] \/ (x[1] = y[1] /\ x[2] < y[2]) <=>
                insertion_offset(ranges, x[1], x[2]) < insertion_offset(ranges, y[1], y[2])
         /\ \A x, y \in NewText(ranges) :
              insertion_offset(ranges, x[1], x[2]) = insertion_offset(ranges, y[1], y[2]) => x = y
<1> DEFINE S == NewText(ranges)
           Less(x, y) == x[1] < y[1] \/ (x[1] = y[1] /\ x[2] < y[2])
           R == {z \in S \X S : Less(z[1], z[2])}
           off(x) == insertion_offset(ranges, x[1], x[2])
<1>1. /\ IsFiniteSet(S)
      /\ \A x \in S : x = <<x[1], x[2]>> /\ x[1] \in Nat /\ x[2] \in Nat
  BY NewTextFinite
<1> HIDE DEF S
<1>2. \A x, y \in S : <<x, y>> \in R <=> Less(x, y)
  OBVIOUS
<1>3. /\ \A x \in S : ~Less(x, x)
      /\ \A x, y, z \in S : Less(x, y) /\ Less(y, z) => Less(x, z)
      /\ \A x, y \in S : x = y \/ Less(x, y) \/ Less(y, x)
  <2>1. \A x \in S : ~Less(x, x)
    BY <1>1
  <2>2. \A x, y, z \in S : Less(x, y) /\ Less(y, z) => Less(x, z)
    BY <1>1
  <2>3. \A x, y \in S : x = y \/ Less(x, y) \/ Less(y, x)
    <3> SUFFICES ASSUME NEW x \in S, NEW y \in S, ~Less(x, y), ~Less(y, x) PROVE x = y
      OBVIOUS
    <3>1. x[1] \in Nat /\ x[2] \in Nat /\ y[1] \in Nat /\ y[2] \in Nat
      BY <1>1
    <3>2. x[1] = y[1] /\ x[2] = y[2]
      BY <3>1
    <3> QED
      BY <1>1, <3>2, Zenon
  <2> QED
    BY <2>1, <2>2, <2>3
<1> HIDE DEF R
<1>4. Orders(R, S)
  BY <1>2, <1>3, Zenon DEF Orders
<1>5. ASSUME NEW x \in S PROVE Below(S, R, x) = {y \in S : Less(y, x)}
  BY <1>2 DEF Below
<1>6. ASSUME NEW x \in S PROVE off(x) = Cardinality(Below(S, R, x))
  BY <1>5 DEF insertion_offset, S
<1>7. /\ Cardinality(S) \in Nat
      /\ \A x \in S : Cardinality(Below(S, R, x)) \in 0 .. Cardinality(S) - 1
      /\ \A x, y \in S : <<x, y>> \in R =>
           Cardinality(Below(S, R, x)) < Cardinality(Below(S, R, y))
  BY <1>1, <1>4, Ranks
<1>8. \A x \in S : off(x) \in Nat
  <2> SUFFICES ASSUME NEW x \in S PROVE off(x) \in Nat
    OBVIOUS
  <2>1. Cardinality(Below(S, R, x)) \in 0 .. Cardinality(S) - 1
    BY <1>7
  <2> QED
    BY <1>6, <1>7, <2>1
<1>9. \A x, y \in S : Less(x, y) => off(x) < off(y)
  BY <1>2, <1>6, <1>7, Zenon
<1> HIDE DEF off, Less
<1>10. \A x, y \in S : off(x) = off(y) => x = y
  <2> SUFFICES ASSUME NEW x \in S, NEW y \in S, off(x) = off(y), x # y PROVE FALSE
    OBVIOUS
  <2>1. off(x) < off(y) \/ off(y) < off(x)
    BY <1>3, <1>9
  <2> QED
    BY <1>8, <2>1
<1>11. \A x, y \in S : Less(x, y) <=> off(x) < off(y)
  <2> SUFFICES ASSUME NEW x \in S, NEW y \in S, off(x) < off(y) PROVE Less(x, y)
    BY <1>9
  <2>1. ~(off(y) < off(x)) /\ off(x) # off(y)
    BY <1>8
  <2> QED
    BY <1>3, <1>9, <2>1
<1> QED
  BY <1>8, <1>10, <1>11 DEF off, Less, S

\* A place is that of a fragment or that of a new character.
LEMMA PlaceKinds ==
  ASSUME NEW fs \in Seq(FragmentType), NEW ranges \in Seq(RangeType),
         NEW gaps \in [DOMAIN ranges -> 0 .. Len(fs)]
  PROVE  /\ \A x \in Places(fs, ranges, gaps) :
              /\ x = <<x[1], x[2], x[3]>> /\ x[1] \in Nat /\ x[2] \in Nat /\ x[3] \in Nat
              /\ \/ x[1] \in DOMAIN fs /\ x = <<x[1], 0, 0>>
                 \/ /\ <<x[2], x[3]>> \in NewText(ranges) /\ x[1] = gaps[x[2]] /\ x[2] > 0
         /\ \A i \in DOMAIN fs : <<i, 0, 0>> \in Places(fs, ranges, gaps)
         /\ \A y \in NewText(ranges) : <<gaps[y[1]], y[1], y[2]>> \in Places(fs, ranges, gaps)
         /\ IsFiniteSet(Places(fs, ranges, gaps))
<1>0. /\ DOMAIN fs = 1 .. Len(fs) /\ Len(fs) \in Nat
  OBVIOUS
<1>1. /\ IsFiniteSet(NewText(ranges))
      /\ \A y \in NewText(ranges) :
            /\ y = <<y[1], y[2]>> /\ y[1] \in DOMAIN ranges
            /\ y[1] \in Nat \ {0} /\ y[2] \in Nat \ {0}
  BY NewTextFinite
<1> DEFINE f == [i \in DOMAIN fs |-> <<i, 0, 0>>]
           g == [y \in NewText(ranges) |-> <<gaps[y[1]], y[1], y[2]>>]
           F == {f[i] : i \in DOMAIN fs}
           G == {g[y] : y \in NewText(ranges)}
<1>2. Places(fs, ranges, gaps) = F \cup G
  BY DEF Places
<1>3. ASSUME NEW x \in F
      PROVE  /\ x = <<x[1], x[2], x[3]>> /\ x[1] \in Nat /\ x[2] \in Nat /\ x[3] \in Nat
             /\ x[1] \in DOMAIN fs /\ x = <<x[1], 0, 0>>
  <2>1. PICK i \in DOMAIN fs : x = <<i, 0, 0>>
    OBVIOUS
  <2> QED
    BY <1>0, <2>1
<1>4. ASSUME NEW x \in G
      PROVE  /\ x = <<x[1], x[2], x[3]>> /\ x[1] \in Nat /\ x[2] \in Nat /\ x[3] \in Nat
             /\ <<x[2], x[3]>> \in NewText(ranges) /\ x[1] = gaps[x[2]] /\ x[2] > 0
  <2>1. PICK y \in NewText(ranges) : x = <<gaps[y[1]], y[1], y[2]>>
    OBVIOUS
  <2>2. gaps[y[1]] \in 0 .. Len(fs)
    BY <1>1
  <2>3. y = <<x[2], x[3]>> /\ x[1] = gaps[x[2]] /\ x[2] = y[1] /\ x[3] = y[2]
    BY <1>1, <2>1
  <2> QED
    BY <1>0, <1>1, <2>1, <2>2, <2>3
<1>5. IsFiniteSet(F)
  <2>1. IsFiniteSet(DOMAIN fs)
    BY <1>0, FS_Interval
  <2>2. DOMAIN f = DOMAIN fs /\ f = [i \in DOMAIN fs |-> f[i]]
    OBVIOUS
  <2> HIDE DEF f
  <2> QED
    BY <2>1, <2>2, ImageFinite
<1>6. IsFiniteSet(G)
  <2>2. DOMAIN g = NewText(ranges) /\ g = [y \in NewText(ranges) |-> g[y]]
    OBVIOUS
  <2> HIDE DEF g
  <2> QED
    BY <1>1, <2>2, ImageFinite
<1>7. IsFiniteSet(F \cup G)
  BY <1>5, <1>6, FS_Union
<1>8. /\ \A i \in DOMAIN fs : <<i, 0, 0>> \in F
      /\ \A y \in NewText(ranges) : <<gaps[y[1]], y[1], y[2]>> \in G
  OBVIOUS
<1> HIDE DEF F, G
<1> QED
  BY <1>2, <1>3, <1>4, <1>7, <1>8

\* Places are in order.
LEMMA PlacesOrdered ==
  ASSUME NEW S, \A x \in S : /\ x = <<x[1], x[2], x[3]>>
                            /\ x[1] \in Nat /\ x[2] \in Nat /\ x[3] \in Nat,
         NEW R, R = {z \in S \X S : PlaceBefore(z[1], z[2])}
  PROVE  /\ Orders(R, S)
         /\ \A x, y \in S : <<x, y>> \in R <=> PlaceBefore(x, y)
<1>1. \A x, y \in S : <<x, y>> \in R <=> PlaceBefore(x, y)
  OBVIOUS
<1>2. \A x \in S : ~PlaceBefore(x, x)
  BY DEF PlaceBefore
<1>3. \A x, y, z \in S : PlaceBefore(x, y) /\ PlaceBefore(y, z) => PlaceBefore(x, z)
  BY DEF PlaceBefore
<1>4. ASSUME NEW x \in S, NEW y \in S, ~PlaceBefore(x, y), ~PlaceBefore(y, x) PROVE x = y
  <2>1. x[1] = y[1] /\ x[2] = y[2] /\ x[3] = y[3]
    BY <1>4 DEF PlaceBefore
  <2> QED
    BY <2>1, Zenon
<1> QED
  BY <1>1, <1>2, <1>3, <1>4, Zenon DEF Orders

\* Where the fragments of the result come from.
IsPlacing(place, res, fs, t, ranges, gaps, dels) ==
  /\ place \in [DOMAIN res -> Places(fs, ranges, gaps)]
  /\ \A x \in Places(fs, ranges, gaps) : \E n \in DOMAIN res : place[n] = x
  /\ \A m, n \in DOMAIN res : m < n <=> PlaceBefore(place[m], place[n])
  /\ \A n \in DOMAIN res : res[n] = FragmentAt(place[n], fs, t, ranges, dels)

\* An edit keeps every fragment, at most marks it deleted, and puts the new ones where
\* they belong.
LEMMA SplicedShape ==
  ASSUME NEW fs \in Seq(FragmentType), NEW t \in Stamps, NEW ranges \in Seq(RangeType),
         NEW gaps \in [DOMAIN ranges -> 0 .. Len(fs)], NEW dels
  PROVE  /\ Spliced(fs, t, ranges, gaps, dels) \in Seq(FragmentType)
         /\ \E place : IsPlacing(place, Spliced(fs, t, ranges, gaps, dels),
                                fs, t, ranges, gaps, dels)
<1> DEFINE S == Places(fs, ranges, gaps)
           R == {z \in S \X S : PlaceBefore(z[1], z[2])}
           order == InOrder(S, R)
           res == Spliced(fs, t, ranges, gaps, dels)
           N == Cardinality(S)
<1>1. /\ \A x \in S :
           /\ x = <<x[1], x[2], x[3]>> /\ x[1] \in Nat /\ x[2] \in Nat /\ x[3] \in Nat
           /\ \/ x[1] \in DOMAIN fs /\ x = <<x[1], 0, 0>>
              \/ /\ <<x[2], x[3]>> \in NewText(ranges) /\ x[1] = gaps[x[2]] /\ x[2] > 0
      /\ IsFiniteSet(S)
  BY PlaceKinds
<1>2. res = [n \in DOMAIN order |-> FragmentAt(order[n], fs, t, ranges, dels)]
  BY DEF Spliced
<1> HIDE DEF S, res
<1>3. Orders(R, S) /\ \A x, y \in S : <<x, y>> \in R <=> PlaceBefore(x, y)
  BY <1>1, PlacesOrdered
<1> HIDE DEF R
<1>4. /\ N \in Nat /\ order \in [1 .. N -> S]
      /\ \A x \in S : \E n \in 1 .. N : order[n] = x
      /\ \A m, n \in 1 .. N : m < n <=> <<order[m], order[n]>> \in R
  BY <1>1, <1>3, InOrderLists
<1> HIDE DEF order
<1>5. ASSUME NEW x \in S PROVE FragmentAt(x, fs, t, ranges, dels) \in FragmentType
  <2>1. CASE x[1] \in DOMAIN fs /\ x = <<x[1], 0, 0>>
    <3>1. fs[x[1]] \in FragmentType /\ ~(x[2] > 0)
      BY <2>1
    <3>2. delete(fs[x[1]], t) \in FragmentType
      BY <3>1 DEF delete, FragmentType
    <3> QED
      BY <3>1, <3>2, Zenon DEF FragmentAt
  <2>2. CASE <<x[2], x[3]>> \in NewText(ranges) /\ x[2] > 0
    <3>1. insertion_offset(ranges, x[2], x[3]) \in Nat
      <4> DEFINE y == <<x[2], x[3]>>
      <4>1. y \in NewText(ranges) /\ y[1] = x[2] /\ y[2] = x[3]
        BY <2>2
      <4> HIDE DEF y
      <4> QED
        BY <4>1, OffsetsDiffer
    <3>2. push_fragments_for_insertion(t, ranges, x[2], x[3]) \in FragmentType
      BY <3>1 DEF push_fragments_for_insertion, Fragment, FragmentType
    <3> QED
      BY <2>2, <3>2, Zenon DEF FragmentAt
  <2> QED
    BY <1>1, <2>1, <2>2
<1>6. DOMAIN order = 1 .. N /\ DOMAIN res = 1 .. N
  BY <1>2, <1>4
<1>7. \A n \in 1 .. N : res[n] = FragmentAt(order[n], fs, t, ranges, dels) /\ order[n] \in S
  BY <1>2, <1>4, <1>6
<1>8. res \in [1 .. N -> FragmentType]
  <2>1. res = [n \in 1 .. N |-> FragmentAt(order[n], fs, t, ranges, dels)]
    BY <1>2, <1>6
  <2> QED
    BY <1>5, <1>7, <2>1
<1>9. res \in Seq(FragmentType)
  <2> HIDE DEF N
  <2> QED
    BY <1>4, <1>8
<1>10. IsPlacing(order, res, fs, t, ranges, gaps, dels)
  <2>1. order \in [DOMAIN res -> S]
    BY <1>4, <1>6
  <2>2. \A x \in S : \E n \in DOMAIN res : order[n] = x
    BY <1>4, <1>6
  <2>3. \A m, n \in DOMAIN res : m < n <=> PlaceBefore(order[m], order[n])
    BY <1>3, <1>4, <1>6, <1>7
  <2>4. \A n \in DOMAIN res : res[n] = FragmentAt(order[n], fs, t, ranges, dels)
    BY <1>6, <1>7
  <2> QED
    BY <2>1, <2>2, <2>3, <2>4 DEF IsPlacing, S
<1> QED
  BY <1>9, <1>10 DEF res

-----------------------------------------------------------------------------
(* Versions, and the operations they stand for *)

Versions == [Replicas -> Nat]

\* The version of the text every replica starts with.
BaseVersion == [q \in Replicas |-> IF q = 0 /\ BaseLength > 0 THEN 1 ELSE 0]

\* A version names operations that were made, and with an operation everything that it
\* depends on.  os are the operations made so far.
Cut(os, v) ==
  /\ v \in Versions
  /\ \A q \in Replicas : v[q] >= BaseVersion[q]
  /\ \A q \in Replicas : v[q] = BaseVersion[q] \/ \E o \in os : o.timestamp = <<v[q], q>>
  /\ \A o \in os : observed(v, o.timestamp) => observed_all(v, o.version)

\* An operation is later than what its replica knew, and an undo is one of edits that
\* its replica made.
OpType(o) ==
  /\ o.timestamp \in Stamps /\ o.timestamp[1] > 1
  /\ o.version \in Versions
  /\ \A q \in Replicas : o.version[q] < o.timestamp[1]
  /\ o.kind \in {"Edit", "Undo"}
  /\ o.kind = "Edit" => o.ranges \in Seq(RangeType)
  /\ o.kind = "Undo" => \A c \in o.counts :
       /\ c.edit \in Stamps /\ c.count \in Nat
       /\ observed(o.version, c.edit) /\ c.edit[2] = o.timestamp[2]

\* A replica makes one operation at a time, and knows the ones it made before.
OpsOK(os) ==
  /\ IsFiniteSet(os)
  /\ \A o \in os : OpType(o) /\ Cut(os, o.version)
  /\ \A o, p \in os : o.timestamp = p.timestamp => o = p
  /\ \A o, p \in os : o.timestamp[2] = p.timestamp[2] /\ o.timestamp[1] < p.timestamp[1]
                        => observed(p.version, o.timestamp)

\* What observing an operation does to a version.
LEMMA ObserveIs ==
  ASSUME NEW v \in Versions, NEW t \in Stamps
  PROVE  /\ observe(v, t) \in Versions
         /\ \A q \in Replicas : observe(v, t)[q] = IF q = t[2] /\ v[q] < t[1] THEN t[1] ELSE v[q]
         /\ ~observed(v, t) => observe(v, t)[t[2]] = t[1]
<1>1. t[1] \in Nat /\ t[2] \in Replicas /\ v[t[2]] \in Nat
  BY DEF Stamps, Versions
<1> DEFINE T == {v[t[2]], t[1]}
           m == IF v[t[2]] < t[1] THEN t[1] ELSE v[t[2]]
<1>2. T \in SUBSET Nat /\ T # {} /\ m \in Nat /\ m \in T /\ \A y \in T : y <= m
  BY <1>1
<1>3. Max(T) \in T /\ \A y \in T : y <= Max(T)
  BY <1>2, MaxOf
<1>4. Max(T) = m
  BY <1>1, <1>3
<1> HIDE DEF m
<1>5. observe(v, t) = [v EXCEPT ![t[2]] = m]
  BY <1>4 DEF observe
<1> QED
  BY <1>1, <1>5 DEF m, Versions, observed

\* Applying an operation after all it depends on adds just that operation to a cut.
LEMMA ObserveOne ==
  ASSUME NEW os, OpsOK(os), NEW v, Cut(os, v), NEW o \in os,
         observed_all(v, o.version), ~observed(v, o.timestamp)
  PROVE  /\ Cut(os, observe(v, o.timestamp))
         /\ \A p \in os : observed(observe(v, o.timestamp), p.timestamp) <=>
                           observed(v, p.timestamp) \/ p = o
         /\ observed_all(observe(v, o.timestamp), v)
<1> DEFINE t == o.timestamp
           w == observe(v, t)
<1>1. /\ t \in Stamps /\ t[1] \in Nat /\ t[2] \in Replicas /\ v \in Versions
      /\ o.version \in Versions /\ OpType(o)
  BY DEF OpsOK, OpType, Cut, Stamps
<1>2. /\ w \in Versions
      /\ \A q \in Replicas : w[q] = IF q = t[2] /\ v[q] < t[1] THEN t[1] ELSE v[q]
      /\ w[t[2]] = t[1]
  BY <1>1, ObserveIs
<1>3. v[t[2]] < t[1] /\ v[t[2]] \in Nat
  BY <1>1 DEF observed, Versions
<1> HIDE DEF w
<1>4. \A q \in Replicas : w[q] >= v[q] /\ w[q] \in Nat /\ v[q] \in Nat
  BY <1>1, <1>2, <1>3 DEF Versions
<1>5. ASSUME NEW p \in os PROVE observed(w, p.timestamp) <=> observed(v, p.timestamp) \/ p = o
  <2>1. p.timestamp \in Stamps /\ p.timestamp[1] \in Nat /\ p.timestamp[2] \in Replicas
    BY DEF OpsOK, OpType, Stamps
  <2>2. ASSUME observed(v, p.timestamp) PROVE observed(w, p.timestamp)
    BY <1>4, <2>1, <2>2 DEF observed
  <2>3. ASSUME p = o PROVE observed(w, p.timestamp)
    BY <1>1, <1>2, <2>3 DEF observed
  <2>4. ASSUME observed(w, p.timestamp), ~observed(v, p.timestamp) PROVE p = o
    <3>1. p.timestamp[2] = t[2] /\ p.timestamp[1] <= t[1] /\ v[t[2]] < p.timestamp[1]
      BY <1>2, <1>3, <1>4, <2>1, <2>4 DEF observed
    <3>2. CASE p.timestamp[1] = t[1]
      <4>1. p.timestamp = t
        BY <1>1, <2>1, <3>1, <3>2 DEF Stamps
      <4> QED
        BY <4>1 DEF OpsOK
    <3>3. CASE p.timestamp[1] < t[1]
      <4>1. observed(o.version, p.timestamp)
        BY <3>1, <3>3 DEF OpsOK
      <4>2. o.version[t[2]] >= p.timestamp[1] /\ v[t[2]] >= o.version[t[2]]
        BY <1>1, <3>1, <4>1 DEF observed, observed_all
      <4>3. o.version[t[2]] \in Nat
        BY <1>1 DEF Versions
      <4> QED
        BY <1>3, <2>1, <3>1, <4>2, <4>3
    <3> QED
      BY <1>1, <2>1, <3>1, <3>2, <3>3
  <2> QED
    BY <2>2, <2>3, <2>4
<1>6. observed_all(w, v)
  BY <1>4 DEF observed_all
<1>7. Cut(os, w)
  <2>1. \A q \in Replicas : w[q] >= BaseVersion[q]
    <3> SUFFICES ASSUME NEW q \in Replicas PROVE w[q] >= BaseVersion[q]
      OBVIOUS
    <3>1. v[q] >= BaseVersion[q] /\ BaseVersion[q] \in Nat
      BY DEF Cut, BaseVersion
    <3> QED
      BY <1>4, <3>1
  <2>2. ASSUME NEW q \in Replicas
        PROVE  w[q] = BaseVersion[q] \/ \E p \in os : p.timestamp = <<w[q], q>>
    <3>1. CASE q = t[2]
      <4>1. t = <<w[q], q>>
        BY <1>1, <1>2, <3>1 DEF Stamps
      <4> QED
        BY <4>1
    <3>2. CASE q # t[2]
      <4>1. w[q] = v[q]
        BY <1>2, <3>2
      <4> QED
        BY <4>1 DEF Cut
    <3> QED
      BY <3>1, <3>2
  <2>3. ASSUME NEW p \in os, observed(w, p.timestamp) PROVE observed_all(w, p.version)
    <3>1. observed_all(v, p.version)
      BY <1>5, <2>3 DEF Cut
    <3>2. \A q \in Replicas : p.version[q] \in Nat
      BY DEF OpsOK, OpType, Versions
    <3> QED
      BY <1>4, <3>1, <3>2 DEF observed_all
  <2> QED
    BY <1>2, <2>1, <2>2, <2>3 DEF Cut
<1> QED
  BY <1>5, <1>6, <1>7 DEF w

\* A new operation of a replica that knows its own earlier ones is in no cut yet.
LEMMA Grow ==
  ASSUME NEW os, OpsOK(os), NEW n, OpType(n), Cut(os, n.version),
         \A o \in os : o.timestamp[2] = n.timestamp[2] =>
           o.timestamp[1] < n.timestamp[1] /\ observed(n.version, o.timestamp)
  PROVE  /\ OpsOK(os \cup {n})
         /\ \A v : Cut(os, v) => Cut(os \cup {n}, v) /\ ~observed(v, n.timestamp)
<1> DEFINE t == n.timestamp
<1>1. t \in Stamps /\ t[1] \in Nat /\ t[2] \in Replicas /\ t[1] > 1
  BY DEF OpType, Stamps
<1>2. ASSUME NEW v, Cut(os, v) PROVE ~observed(v, t)
  <2>1. v[t[2]] = BaseVersion[t[2]] \/ \E o \in os : o.timestamp = <<v[t[2]], t[2]>>
    BY <1>1, <1>2 DEF Cut
  <2>2. BaseVersion[t[2]] < t[1] /\ BaseVersion[t[2]] \in Nat
    BY <1>1 DEF BaseVersion
  <2>3. \A o \in os : o.timestamp = <<v[t[2]], t[2]>> => v[t[2]] < t[1]
    OBVIOUS
  <2>4. v[t[2]] \in Nat
    BY <1>1, <1>2 DEF Cut, Versions
  <2>5. v[t[2]] < t[1]
    BY <2>1, <2>2, <2>3
  <2> QED
    BY <1>1, <2>4, <2>5 DEF observed
<1>3. ASSUME NEW v, Cut(os, v) PROVE Cut(os \cup {n}, v)
  <2>1. ~observed(v, t)
    BY <1>2, <1>3
  <2> QED
    BY <1>3, <2>1, Zenon DEF Cut
<1>4. OpsOK(os \cup {n})
  <2>1. IsFiniteSet(os \cup {n})
    BY FS_AddElement DEF OpsOK
  <2>2. \A o \in os \cup {n} : OpType(o) /\ Cut(os \cup {n}, o.version)
    BY <1>3 DEF OpsOK
  <2>3. \A o \in os : o.timestamp # t
    <3> SUFFICES ASSUME NEW o \in os, o.timestamp = t PROVE FALSE
      OBVIOUS
    <3>1. t[1] < t[1]
      OBVIOUS
    <3> QED
      BY <1>1, <3>1
  <2>4. \A o, p \in os \cup {n} : o.timestamp = p.timestamp => o = p
    BY <2>3, Zenon DEF OpsOK
  <2>5. ASSUME NEW o \in os \cup {n}, NEW p \in os \cup {n},
               o.timestamp[2] = p.timestamp[2], o.timestamp[1] < p.timestamp[1]
        PROVE  observed(p.version, o.timestamp)
    <3>1. CASE o \in os /\ p \in os
      BY <2>5, <3>1 DEF OpsOK
    <3>2. CASE o \in os /\ p = n
      BY <2>5, <3>2
    <3>3. CASE o = n /\ p \in os
      <4>1. p.timestamp[1] < t[1] /\ t[1] < p.timestamp[1] /\ p.timestamp[1] \in Nat
        BY <2>5, <3>3 DEF OpsOK, OpType, Stamps
      <4> QED
        BY <1>1, <4>1
    <3>4. CASE o = n /\ p = n
      BY <1>1, <2>5, <3>4
    <3> QED
      BY <3>1, <3>2, <3>3, <3>4
  <2> QED
    BY <2>1, <2>2, <2>4, <2>5 DEF OpsOK
<1> QED
  BY <1>2, <1>3, <1>4

\* The operations a version stands for, the characters they insert, the undo counts they
\* leave and the edits among them.
Seen(os, v) == {o \in os : observed(v, o.timestamp)}

BaseText == {<<<<1, 0>>, n>> : n \in 0 .. BaseLength - 1}
Chars(o) ==
  {<<o.timestamp, insertion_offset(o.ranges, x[1], x[2])>> : x \in NewText(o.ranges)}
Known(S) == BaseText \cup UNION {Chars(o) : o \in {p \in S : p.kind = "Edit"}}

Entries(o) == {[edit |-> c.edit, undo |-> o.timestamp, count |-> c.count] : c \in o.counts}
UndosOf(S) == UNION {Entries(o) : o \in {p \in S : p.kind = "Undo"}}

EditStamps(S) == {o.timestamp : o \in {p \in S : p.kind = "Edit"}}

\* What an operation adds.
LEMMA OneMore ==
  ASSUME NEW S, NEW o
  PROVE  /\ o.kind = "Edit" => /\ Known(S \cup {o}) = Known(S) \cup Chars(o)
                               /\ UndosOf(S \cup {o}) = UndosOf(S)
                               /\ EditStamps(S \cup {o}) = EditStamps(S) \cup {o.timestamp}
         /\ o.kind = "Undo" => /\ Known(S \cup {o}) = Known(S)
                               /\ UndosOf(S \cup {o}) = UndosOf(S) \cup Entries(o)
                               /\ EditStamps(S \cup {o}) = EditStamps(S)
<1>1. ASSUME o.kind = "Edit"
      PROVE  /\ {p \in S \cup {o} : p.kind = "Edit"} = {p \in S : p.kind = "Edit"} \cup {o}
             /\ {p \in S \cup {o} : p.kind = "Undo"} = {p \in S : p.kind = "Undo"}
  BY <1>1
<1>2. ASSUME o.kind = "Undo"
      PROVE  /\ {p \in S \cup {o} : p.kind = "Undo"} = {p \in S : p.kind = "Undo"} \cup {o}
             /\ {p \in S \cup {o} : p.kind = "Edit"} = {p \in S : p.kind = "Edit"}
  BY <1>2
<1>3. ASSUME NEW A PROVE
        /\ UNION {Chars(p) : p \in A \cup {o}} = (UNION {Chars(p) : p \in A}) \cup Chars(o)
        /\ UNION {Entries(p) : p \in A \cup {o}} = (UNION {Entries(p) : p \in A}) \cup Entries(o)
        /\ {p.timestamp : p \in A \cup {o}} = {p.timestamp : p \in A} \cup {o.timestamp}
  OBVIOUS
<1>4. ASSUME o.kind = "Edit"
      PROVE  /\ Known(S \cup {o}) = Known(S) \cup Chars(o)
             /\ UndosOf(S \cup {o}) = UndosOf(S)
             /\ EditStamps(S \cup {o}) = EditStamps(S) \cup {o.timestamp}
  <2>1. Known(S \cup {o}) = Known(S) \cup Chars(o)
    BY <1>1, <1>3, <1>4 DEF Known
  <2> QED
    BY <1>1, <1>3, <1>4, <2>1 DEF UndosOf, EditStamps
<1>5. ASSUME o.kind = "Undo"
      PROVE  /\ Known(S \cup {o}) = Known(S)
             /\ UndosOf(S \cup {o}) = UndosOf(S) \cup Entries(o)
             /\ EditStamps(S \cup {o}) = EditStamps(S)
  BY <1>2, <1>3, <1>5 DEF Known, UndosOf, EditStamps
<1> QED
  BY <1>4, <1>5

\* Which operations are seen after one more.
LEMMA SeenMore ==
  /\ \A os, v, o : OpsOK(os) /\ Cut(os, v) /\ o \in os /\ observed_all(v, o.version)
                     /\ ~observed(v, o.timestamp)
                       => Seen(os, observe(v, o.timestamp)) = Seen(os, v) \cup {o}
  /\ \A os, v, n : ~observed(v, n.timestamp) => Seen(os \cup {n}, v) = Seen(os, v)
<1>1. ASSUME NEW os, NEW v, NEW o, OpsOK(os), Cut(os, v), o \in os,
             observed_all(v, o.version), ~observed(v, o.timestamp)
      PROVE  Seen(os, observe(v, o.timestamp)) = Seen(os, v) \cup {o}
  <2>1. \A p \in os : observed(observe(v, o.timestamp), p.timestamp) <=>
                           observed(v, p.timestamp) \/ p = o
    BY <1>1, ObserveOne
  <2> QED
    BY <1>1, <2>1 DEF Seen
<1>2. ASSUME NEW os, NEW v, NEW n, ~observed(v, n.timestamp)
      PROVE  Seen(os \cup {n}, v) = Seen(os, v)
  BY <1>2 DEF Seen
<1> QED
  BY <1>1, <1>2

-----------------------------------------------------------------------------
(* The text of a replica *)

Id(f) == <<f.timestamp, f.offset>>

\* Every fragment of the result of an edit is one from before it or a new one, every one
\* of those is there, and no two are the same.
Items(place, res, fs, t, ranges, gaps, dels) ==
  /\ \A n \in DOMAIN res :
       \/ \E i \in DOMAIN fs : place[n] = <<i, 0, 0>>
       \/ \E x \in NewText(ranges) : place[n] = <<gaps[x[1]], x[1], x[2]>>
  /\ \A i \in DOMAIN fs : \E n \in DOMAIN res : place[n] = <<i, 0, 0>>
  /\ \A x \in NewText(ranges) : \E n \in DOMAIN res : place[n] = <<gaps[x[1]], x[1], x[2]>>
  /\ \A n \in DOMAIN res : \A i \in DOMAIN fs :
       place[n] = <<i, 0, 0>> => res[n] = IF i \in dels THEN delete(fs[i], t) ELSE fs[i]
  /\ \A n \in DOMAIN res : \A x \in NewText(ranges) :
       place[n] = <<gaps[x[1]], x[1], x[2]>> =>
         res[n] = Fragment(t, insertion_offset(ranges, x[1], x[2]))
  /\ \A m, n \in DOMAIN res : place[m] = place[n] => m = n

\* What Spliced returns: the fragments so far, the deleted ones marked, and the new ones.
LEMMA SplicedItems ==
  ASSUME NEW fs \in Seq(FragmentType), NEW t \in Stamps, NEW ranges \in Seq(RangeType),
         NEW gaps \in [DOMAIN ranges -> 0 .. Len(fs)], NEW dels, NEW res, NEW place,
         IsPlacing(place, res, fs, t, ranges, gaps, dels), res \in Seq(FragmentType)
  PROVE  Items(place, res, fs, t, ranges, gaps, dels)
<1> DEFINE S == Places(fs, ranges, gaps)
<1>1. /\ \A x \in S :
           /\ x = <<x[1], x[2], x[3]>> /\ x[1] \in Nat /\ x[2] \in Nat /\ x[3] \in Nat
           /\ \/ x[1] \in DOMAIN fs /\ x = <<x[1], 0, 0>>
              \/ /\ <<x[2], x[3]>> \in NewText(ranges) /\ x[1] = gaps[x[2]] /\ x[2] > 0
      /\ \A i \in DOMAIN fs : <<i, 0, 0>> \in S
      /\ \A y \in NewText(ranges) : <<gaps[y[1]], y[1], y[2]>> \in S
  BY PlaceKinds
<1>2. \A x \in NewText(ranges) : x[1] \in Nat \ {0}
  BY NewTextFinite
<1> HIDE DEF S
<1>3. /\ place \in [DOMAIN res -> S]
      /\ \A x \in S : \E n \in DOMAIN res : place[n] = x
      /\ \A m, n \in DOMAIN res : m < n <=> PlaceBefore(place[m], place[n])
      /\ \A n \in DOMAIN res : res[n] = FragmentAt(place[n], fs, t, ranges, dels)
  BY DEF IsPlacing, S
<1>4. ASSUME NEW n \in DOMAIN res
      PROVE  \/ \E i \in DOMAIN fs : place[n] = <<i, 0, 0>>
             \/ \E x \in NewText(ranges) : place[n] = <<gaps[x[1]], x[1], x[2]>>
  <2> DEFINE p == place[n]
  <2>1. p \in S
    BY <1>3
  <2> HIDE DEF p
  <2>2. CASE p[1] \in DOMAIN fs /\ p = <<p[1], 0, 0>>
    BY <2>2 DEF p
  <2>3. CASE <<p[2], p[3]>> \in NewText(ranges) /\ p[1] = gaps[p[2]]
    <3> DEFINE x == <<p[2], p[3]>>
    <3>1. x[1] = p[2] /\ x[2] = p[3]
      OBVIOUS
    <3>2. p = <<p[1], p[2], p[3]>>
      BY <1>1, <2>1
    <3> HIDE DEF x
    <3>3. p = <<gaps[x[1]], x[1], x[2]>>
      BY <2>3, <3>1, <3>2
    <3> QED
      BY <2>3, <3>3 DEF x, p
  <2> QED
    BY <1>1, <2>1, <2>2, <2>3
<1>5. ASSUME NEW n \in DOMAIN res, NEW i \in DOMAIN fs, place[n] = <<i, 0, 0>>
      PROVE  res[n] = IF i \in dels THEN delete(fs[i], t) ELSE fs[i]
  <2>1. place[n][1] = i /\ ~(place[n][2] > 0)
    BY <1>5
  <2> QED
    BY <1>3, <2>1, Zenon DEF FragmentAt
<1>6. ASSUME NEW n \in DOMAIN res, NEW x \in NewText(ranges),
             place[n] = <<gaps[x[1]], x[1], x[2]>>
      PROVE  res[n] = Fragment(t, insertion_offset(ranges, x[1], x[2]))
  <2>1. place[n][2] = x[1] /\ place[n][3] = x[2] /\ place[n][2] > 0
    BY <1>2, <1>6
  <2> QED
    BY <1>3, <2>1, Zenon DEF FragmentAt, push_fragments_for_insertion
<1>7. ASSUME NEW m \in DOMAIN res, NEW n \in DOMAIN res, place[m] = place[n] PROVE m = n
  <2>1. place[m] \in S
    BY <1>3
  <2>0. \A x \in S : x[1] \in Nat /\ x[2] \in Nat /\ x[3] \in Nat
    BY <1>1
  <2>2. \A x \in S : ~PlaceBefore(x, x)
    BY <2>0 DEF PlaceBefore
  <2>3. ~(m < n) /\ ~(n < m)
    BY <1>3, <1>7, <2>1, <2>2, Zenon
  <2> QED
    BY <2>3
<1>8. /\ \A i \in DOMAIN fs : \E n \in DOMAIN res : place[n] = <<i, 0, 0>>
      /\ \A x \in NewText(ranges) :
           \E n \in DOMAIN res : place[n] = <<gaps[x[1]], x[1], x[2]>>
  BY <1>1, <1>3
<1> QED
  BY <1>4, <1>5, <1>6, <1>7, <1>8 DEF Items

\* The fragments of a replica that has applied the operations S: one for every character
\* that is known, deleted by edits in S, with the visibility that follows.
TextOK(S, fs, undos) ==
  /\ fs \in Seq(FragmentType)
  /\ \A i \in DOMAIN fs : Id(fs[i]) \in Known(S)
  /\ \A c \in Known(S) : \E i \in DOMAIN fs : Id(fs[i]) = c
  /\ \A i, j \in DOMAIN fs : Id(fs[i]) = Id(fs[j]) => i = j
  /\ \A i \in DOMAIN fs : fs[i].deletions \subseteq EditStamps(S)
  /\ \A i \in DOMAIN fs : fs[i].visible = is_visible(fs[i], undos)

\* An edit without an undo is not undone.
LEMMA NotUndone ==
  ASSUME NEW undos, NEW e, \A u \in undos : u.edit # e
  PROVE  ~is_undone(undos, e)
<1>1. {u \in undos : u.edit = e} = {}
  OBVIOUS
<1>2. {0} \cup {u.count : u \in {}} = {0}
  OBVIOUS
<1>3. {0} \in SUBSET Nat /\ {0} # {} /\ 0 \in Nat /\ \A y \in {0} : y <= 0
  OBVIOUS
<1>4. Max({0}) \in {0}
  BY <1>3, MaxOf
<1>5. undo_count(undos, e) = 0
  BY <1>1, <1>2, <1>4 DEF undo_count, MaxCount
<1> QED
  BY <1>5 DEF is_undone

\* Inserting and deleting text.
LEMMA EditText ==
  ASSUME NEW S, NEW fs, NEW undos, TextOK(S, fs, undos),
         NEW o, o.kind = "Edit", o.timestamp \in Stamps, o.ranges \in Seq(RangeType),
         \A c \in Known(S) : c[1] # o.timestamp,
         \A u \in undos : u.edit # o.timestamp,
         NEW ranges \in Seq(RangeType), NewText(ranges) = NewText(o.ranges),
         NEW gaps \in [DOMAIN ranges -> 0 .. Len(fs)], NEW dels
  PROVE  TextOK(S \cup {o}, Spliced(fs, o.timestamp, ranges, gaps, dels), undos)
<1> DEFINE t == o.timestamp
           res == Spliced(fs, t, ranges, gaps, dels)
           off(x) == insertion_offset(ranges, x[1], x[2])
<1>1. fs \in Seq(FragmentType)
  BY DEF TextOK
<1>2. /\ res \in Seq(FragmentType)
      /\ \E place : IsPlacing(place, res, fs, t, ranges, gaps, dels)
  BY <1>1, SplicedShape
<1>3. PICK place : IsPlacing(place, res, fs, t, ranges, gaps, dels)
  BY <1>2
<1>30. t \in Stamps
  OBVIOUS
<1> HIDE DEF res, t
<1>4. /\ \A n \in DOMAIN res :
           \/ \E i \in DOMAIN fs : place[n] = <<i, 0, 0>>
           \/ \E x \in NewText(ranges) : place[n] = <<gaps[x[1]], x[1], x[2]>>
      /\ \A i \in DOMAIN fs : \E n \in DOMAIN res : place[n] = <<i, 0, 0>>
      /\ \A x \in NewText(ranges) : \E n \in DOMAIN res : place[n] = <<gaps[x[1]], x[1], x[2]>>
      /\ \A n \in DOMAIN res : \A i \in DOMAIN fs : place[n] = <<i, 0, 0>> =>
           res[n] = IF i \in dels THEN delete(fs[i], t) ELSE fs[i]
      /\ \A n \in DOMAIN res : \A x \in NewText(ranges) :
           place[n] = <<gaps[x[1]], x[1], x[2]>> => res[n] = Fragment(t, off(x))
      /\ \A m, n \in DOMAIN res : place[m] = place[n] => m = n
  <2>1. Items(place, res, fs, t, ranges, gaps, dels)
    BY <1>1, <1>2, <1>3, <1>30, SplicedItems
  <2> QED
    BY <2>1, Zenon DEF Items
<1>5. /\ Known(S \cup {o}) = Known(S) \cup Chars(o)
      /\ EditStamps(S \cup {o}) = EditStamps(S) \cup {t}
  BY OneMore DEF t
<1>6. Chars(o) = {<<t, off(x)>> : x \in NewText(ranges)}
  BY DEF Chars, insertion_offset, t
<1>7. \A x, y \in NewText(ranges) : off(x) = off(y) => x = y
  BY OffsetsDiffer
<1>8. ~is_undone(undos, t)
  BY NotUndone DEF t
<1> HIDE DEF off
<1>9. ASSUME NEW n \in DOMAIN res, NEW i \in DOMAIN fs, place[n] = <<i, 0, 0>>
      PROVE  /\ Id(res[n]) = Id(fs[i])
             /\ res[n].deletions \subseteq EditStamps(S) \cup {t}
             /\ res[n].visible = is_visible(res[n], undos)
  <2>1. fs[i] \in FragmentType /\ fs[i].deletions \subseteq EditStamps(S)
        /\ fs[i].visible = is_visible(fs[i], undos)
    BY <1>1 DEF TextOK
  <2>2. CASE i \notin dels
    <3>1. res[n] = fs[i]
      BY <1>4, <1>9, <2>2
    <3> QED
      BY <2>1, <3>1
  <2>3. CASE i \in dels
    <3>1. res[n] = delete(fs[i], t)
      BY <1>4, <1>9, <2>3
    <3>2. /\ res[n].timestamp = fs[i].timestamp /\ res[n].offset = fs[i].offset
          /\ res[n].deletions = fs[i].deletions \cup {t} /\ res[n].visible = FALSE
      BY <2>1, <3>1 DEF delete, FragmentType
    <3>3. ~is_visible(res[n], undos)
      BY <1>8, <3>2, Zenon DEF is_visible
    <3>4. res[n].visible = is_visible(res[n], undos)
      BY <3>2, <3>3, Zenon DEF is_visible
    <3> QED
      BY <2>1, <3>2, <3>4 DEF Id
  <2> QED
    BY <2>2, <2>3
<1>10. ASSUME NEW n \in DOMAIN res, NEW x \in NewText(ranges),
              place[n] = <<gaps[x[1]], x[1], x[2]>>
       PROVE  /\ Id(res[n]) = <<t, off(x)>>
              /\ res[n].deletions \subseteq EditStamps(S) \cup {t}
              /\ res[n].visible = is_visible(res[n], undos)
  <2>1. res[n] = Fragment(t, off(x))
    BY <1>4, <1>10
  <2>2. /\ res[n].timestamp = t /\ res[n].offset = off(x) /\ res[n].deletions = {}
        /\ res[n].visible = TRUE
    BY <2>1 DEF Fragment
  <2>3. is_visible(res[n], undos)
    BY <1>8, <2>2, Zenon DEF is_visible
  <2>4. res[n].visible = is_visible(res[n], undos)
    BY <2>2, <2>3, Zenon DEF is_visible
  <2> QED
    BY <2>2, <2>4 DEF Id
<1>11. ASSUME NEW i \in DOMAIN fs, NEW x \in NewText(ranges) PROVE Id(fs[i]) # <<t, off(x)>>
  <2>1. Id(fs[i]) \in Known(S)
    BY DEF TextOK
  <2>2. Id(fs[i])[1] # t
    BY <2>1 DEF t
  <2> QED
    BY <2>2
<1>12. ASSUME NEW n \in DOMAIN res
       PROVE  /\ Id(res[n]) \in Known(S) \cup Chars(o)
              /\ res[n].deletions \subseteq EditStamps(S) \cup {t}
              /\ res[n].visible = is_visible(res[n], undos)
  <2>1. CASE \E i \in DOMAIN fs : place[n] = <<i, 0, 0>>
    <3>1. PICK i \in DOMAIN fs : place[n] = <<i, 0, 0>>
      BY <2>1
    <3>2. Id(fs[i]) \in Known(S)
      BY DEF TextOK
    <3> QED
      BY <1>9, <3>1, <3>2
  <2>2. CASE \E x \in NewText(ranges) : place[n] = <<gaps[x[1]], x[1], x[2]>>
    <3>1. PICK x \in NewText(ranges) : place[n] = <<gaps[x[1]], x[1], x[2]>>
      BY <2>2
    <3>2. <<t, off(x)>> \in Chars(o)
      BY <1>6
    <3> QED
      BY <1>10, <3>1, <3>2
  <2> QED
    BY <1>4, <2>1, <2>2
<1>13. ASSUME NEW c \in Known(S) \cup Chars(o) PROVE \E n \in DOMAIN res : Id(res[n]) = c
  <2>1. CASE c \in Known(S)
    <3>1. PICK i \in DOMAIN fs : Id(fs[i]) = c
      BY <2>1 DEF TextOK
    <3>2. PICK n \in DOMAIN res : place[n] = <<i, 0, 0>>
      BY <1>4
    <3> QED
      BY <1>9, <3>1, <3>2
  <2>2. CASE c \in Chars(o)
    <3>1. PICK x \in NewText(ranges) : c = <<t, off(x)>>
      BY <1>6, <2>2
    <3>2. PICK n \in DOMAIN res : place[n] = <<gaps[x[1]], x[1], x[2]>>
      BY <1>4
    <3> QED
      BY <1>10, <3>1, <3>2
  <2> QED
    BY <2>1, <2>2
<1>14. ASSUME NEW m \in DOMAIN res, NEW n \in DOMAIN res, Id(res[m]) = Id(res[n]) PROVE m = n
  <2>1. CASE \E i \in DOMAIN fs : place[m] = <<i, 0, 0>>
    <3>1. PICK i \in DOMAIN fs : place[m] = <<i, 0, 0>>
      BY <2>1
    <3>2. Id(res[m]) = Id(fs[i])
      BY <1>9, <3>1
    <3>3. ~\E x \in NewText(ranges) : place[n] = <<gaps[x[1]], x[1], x[2]>>
      BY <1>10, <1>11, <1>14, <3>2
    <3>4. PICK j \in DOMAIN fs : place[n] = <<j, 0, 0>>
      BY <1>4, <3>3
    <3>5. Id(fs[i]) = Id(fs[j])
      BY <1>9, <1>14, <3>2, <3>4
    <3>6. i = j
      BY <3>5 DEF TextOK
    <3> QED
      BY <1>4, <3>1, <3>4, <3>6
  <2>2. CASE \E x \in NewText(ranges) : place[m] = <<gaps[x[1]], x[1], x[2]>>
    <3>1. PICK x \in NewText(ranges) : place[m] = <<gaps[x[1]], x[1], x[2]>>
      BY <2>2
    <3>2. Id(res[m]) = <<t, off(x)>>
      BY <1>10, <3>1
    <3>3. ~\E i \in DOMAIN fs : place[n] = <<i, 0, 0>>
      BY <1>9, <1>11, <1>14, <3>2
    <3>4. PICK y \in NewText(ranges) : place[n] = <<gaps[y[1]], y[1], y[2]>>
      BY <1>4, <3>3
    <3>5. <<t, off(x)>> = <<t, off(y)>>
      BY <1>10, <1>14, <3>2, <3>4
    <3>6. x = y
      BY <1>7, <3>5
    <3> QED
      BY <1>4, <3>1, <3>4, <3>6
  <2> QED
    BY <1>4, <2>1, <2>2
<1>15. TextOK(S \cup {o}, res, undos)
  BY <1>2, <1>5, <1>12, <1>13, <1>14, Zenon DEF TextOK
<1> QED
  BY <1>15 DEF res, t

\* Undoing edits.
LEMMA UndoText ==
  ASSUME NEW S, NEW fs, NEW undos, TextOK(S, fs, undos), NEW o, o.kind = "Undo"
  PROVE  /\ UndoMapInsert(undos, o) = undos \cup Entries(o)
         /\ TextOK(S \cup {o}, apply_undo(fs, UndoMapInsert(undos, o), o), UndoMapInsert(undos, o))
<1> DEFINE now == UndoMapInsert(undos, o)
           res == apply_undo(fs, now, o)
           edits == {c.edit : c \in o.counts}
           Hit(f) == f.timestamp \in edits \/ f.deletions \cap edits # {}
<1>1. now = undos \cup Entries(o)
  BY DEF UndoMapInsert, Entries
<1>2. Known(S \cup {o}) = Known(S) /\ EditStamps(S \cup {o}) = EditStamps(S)
  BY OneMore
<1>3. fs \in Seq(FragmentType) /\ \A i \in DOMAIN fs : fs[i] \in FragmentType
  BY DEF TextOK
<1> HIDE DEF now
<1>4. res = [i \in DOMAIN fs |->
               IF Hit(fs[i]) THEN [fs[i] EXCEPT !.visible = is_visible(fs[i], now)] ELSE fs[i]]
  BY DEF apply_undo
<1> HIDE DEF res
<1>5. ASSUME NEW e, e \notin edits PROVE is_undone(now, e) = is_undone(undos, e)
  <2>1. \A u \in Entries(o) : u.edit \in edits
    BY DEF Entries
  <2>2. {u \in now : u.edit = e} = {u \in undos : u.edit = e}
    BY <1>1, <1>5, <2>1
  <2> QED
    BY <2>2 DEF is_undone, undo_count
<1>6. ASSUME NEW i \in DOMAIN fs
      PROVE  /\ res[i] \in FragmentType /\ Id(res[i]) = Id(fs[i])
             /\ res[i].deletions = fs[i].deletions
             /\ res[i].visible = is_visible(res[i], now)
  <2>1. CASE Hit(fs[i])
    <3>1. res[i] = [fs[i] EXCEPT !.visible = is_visible(fs[i], now)]
      BY <1>4, <2>1
    <3>2. is_visible(fs[i], now) \in BOOLEAN
      BY DEF is_visible
    <3>3. /\ res[i] \in FragmentType /\ res[i].timestamp = fs[i].timestamp
          /\ res[i].offset = fs[i].offset
          /\ res[i].deletions = fs[i].deletions /\ res[i].visible = is_visible(fs[i], now)
      BY <1>3, <3>1, <3>2 DEF FragmentType
    <3>4. is_visible(res[i], now) = is_visible(fs[i], now)
      BY <3>3, Zenon DEF is_visible
    <3> QED
      BY <3>3, <3>4, Zenon DEF Id
  <2>2. CASE ~Hit(fs[i])
    <3>1. res[i] = fs[i]
      BY <1>4, <2>2
    <3>2. fs[i].timestamp \notin edits /\ \A d \in fs[i].deletions : d \notin edits
      BY <2>2
    <3> HIDE DEF edits
    <3>3. is_visible(fs[i], now) = is_visible(fs[i], undos)
      BY <1>5, <3>2, Zenon DEF is_visible
    <3>4. fs[i].visible = is_visible(fs[i], undos)
      BY DEF TextOK
    <3> QED
      BY <1>3, <3>1, <3>3, <3>4, Zenon
  <2> QED
    BY <2>1, <2>2
<1>7. res \in Seq(FragmentType) /\ DOMAIN res = DOMAIN fs
  <2>1. DOMAIN fs = 1 .. Len(fs) /\ Len(fs) \in Nat
    BY <1>3
  <2>2. res \in [1 .. Len(fs) -> FragmentType]
    BY <1>4, <1>6, <2>1
  <2> QED
    BY <2>1, <2>2
<1> HIDE DEF edits
<1>8. TextOK(S \cup {o}, res, now)
  <2>1. \A i \in DOMAIN res : Id(res[i]) \in Known(S)
    BY <1>6, <1>7 DEF TextOK
  <2>2. \A c \in Known(S) : \E i \in DOMAIN res : Id(res[i]) = c
    BY <1>6, <1>7 DEF TextOK
  <2>3. \A i, j \in DOMAIN res : Id(res[i]) = Id(res[j]) => i = j
    BY <1>6, <1>7 DEF TextOK
  <2>4. \A i \in DOMAIN res : res[i].deletions \subseteq EditStamps(S)
    BY <1>6, <1>7 DEF TextOK
  <2>5. \A i \in DOMAIN res : res[i].visible = is_visible(res[i], now)
    BY <1>6, <1>7
  <2> QED
    BY <1>2, <1>7, <2>1, <2>2, <2>3, <2>4, <2>5, Zenon DEF TextOK
<1> QED
  BY <1>1, <1>8 DEF res, now

-----------------------------------------------------------------------------
(* Applying operations *)

\* The gap of a remote edit: the first one with the right text before it, then past the
\* text of later operations, and no further.
LEMMA RemoteGapIs ==
  ASSUME NEW fs \in Seq(FragmentType), NEW v, NEW t, NEW start
  PROVE  /\ RemoteGap(fs, v, t, start) \in 0 .. Len(fs)
         /\ \E first \in 0 .. RemoteGap(fs, v, t, start) :
              /\ FullOffset(fs, v, first) = start \/ first = Len(fs)
              /\ \A i \in 0 .. Len(fs) : i < first => FullOffset(fs, v, i) # start
              /\ \A j \in first + 1 .. RemoteGap(fs, v, t, start) : Later(fs[j].timestamp, t)
              /\ RemoteGap(fs, v, t, start) < Len(fs) =>
                   ~Later(fs[RemoteGap(fs, v, t, start) + 1].timestamp, t)
<1> DEFINE n == Len(fs)
           F == {i \in 0 .. n : FullOffset(fs, v, i) = start \/ i = n}
           first == Min(F)
           G == {i \in first .. n : \A j \in first + 1 .. i : Later(fs[j].timestamp, t)}
           gap == Max(G)
<1>0. n \in Nat
  OBVIOUS
<1>1. F \in SUBSET Nat /\ F # {}
  <2>1. n \in F
    BY <1>0
  <2> QED
    BY <2>1
<1>2. first \in F /\ \A y \in F : first <= y
  BY <1>1, MinOf
<1>3. RemoteGap(fs, v, t, start) = gap
  BY DEF RemoteGap
<1>4. first \in 0 .. n /\ (FullOffset(fs, v, first) = start \/ first = n)
  BY <1>2
<1>5. \A i \in 0 .. n : i < first => FullOffset(fs, v, i) # start
  <2> SUFFICES ASSUME NEW i \in 0 .. n, i < first, FullOffset(fs, v, i) = start PROVE FALSE
    OBVIOUS
  <2>1. i \in F
    OBVIOUS
  <2>2. first <= i
    BY <1>2, <2>1
  <2> QED
    BY <1>4, <2>2
<1> HIDE DEF first
<1>6. G \in SUBSET Nat /\ G # {} /\ \A y \in G : y <= n
  <2>1. first \in first .. n /\ first + 1 .. first = {}
    BY <1>4
  <2>2. first \in G
    BY <2>1
  <2> QED
    BY <1>4, <2>2
<1>7. gap \in G /\ \A y \in G : y <= gap
  BY <1>0, <1>6, MaxOf
<1>8. gap \in first .. n /\ \A j \in first + 1 .. gap : Later(fs[j].timestamp, t)
  BY <1>7
<1>9. ASSUME gap < n PROVE ~Later(fs[gap + 1].timestamp, t)
  <2> SUFFICES ASSUME Later(fs[gap + 1].timestamp, t) PROVE FALSE
    OBVIOUS
  <2>1. gap + 1 \in first .. n /\ ~(gap + 1 <= gap)
    BY <1>4, <1>8, <1>9
  <2>2. \A j \in first + 1 .. gap + 1 : j \in first + 1 .. gap \/ j = gap + 1
    BY <1>4, <1>8
  <2>3. \A j \in first + 1 .. gap + 1 : Later(fs[j].timestamp, t)
    BY <1>8, <2>2
  <2> HIDE DEF gap
  <2>4. gap + 1 \in G
    BY <2>1, <2>3
  <2> QED
    BY <1>7, <2>1, <2>4
<1> HIDE DEF gap
<1>10. gap \in 0 .. n /\ first \in 0 .. gap
  BY <1>0, <1>4, <1>8
<1> QED
  BY <1>3, <1>4, <1>5, <1>8, <1>9, <1>10

UndoType == [edit : Stamps, undo : Stamps, count : Nat]

BufType(os) ==
  [fragments : Seq(FragmentType), version : Versions, clock : Nat, undos : SUBSET UndoType,
   deferred : SUBSET os, late : SUBSET Replicas, edits : SUBSET Stamps,
   versions : SUBSET Versions]

\* The buffer of a replica while the operations made so far are os.  Its version stands
\* for what it has applied: the text and the undo map are those of the operations the
\* version names.
BufOK(os, b) ==
  /\ b \in BufType(os)
  /\ Cut(os, b.version)
  /\ \A q \in Replicas : b.version[q] < b.clock
  /\ b.undos = UndosOf(Seen(os, b.version))
  /\ b.late = {d.timestamp[2] : d \in b.deferred}
  /\ b.edits \subseteq {o.timestamp : o \in os}
  /\ TextOK(Seen(os, b.version), b.fragments, b.undos)

\* No text and no undo is of an operation that a version does not name.
LEMMA Fresh ==
  ASSUME NEW os, OpsOK(os), NEW v, Cut(os, v), NEW t, t \in Stamps, t[1] > 1, ~observed(v, t)
  PROVE  /\ \A c \in Known(Seen(os, v)) : c[1] # t
         /\ \A u \in UndosOf(Seen(os, v)) : u.edit # t
<1>1. ASSUME NEW c \in Known(Seen(os, v)) PROVE c[1] # t
  <2>1. CASE c \in BaseText
    <3>1. c[1] = <<1, 0>>
      BY <2>1 DEF BaseText
    <3>2. c[1][1] = 1
      BY <3>1
    <3> QED
      BY <3>2
  <2>2. CASE \E o \in Seen(os, v) : c \in Chars(o)
    <3>1. PICK o \in Seen(os, v) : c \in Chars(o)
      BY <2>2
    <3>2. c[1] = o.timestamp /\ observed(v, o.timestamp)
      BY <3>1 DEF Chars, Seen
    <3> QED
      BY <3>2
  <2> QED
    BY <2>1, <2>2 DEF Known
<1>2. ASSUME NEW u \in UndosOf(Seen(os, v)) PROVE u.edit # t
  <2>1. PICK o \in Seen(os, v) : o.kind = "Undo" /\ u \in Entries(o)
    BY DEF UndosOf
  <2>2. PICK c \in o.counts : u.edit = c.edit
    BY <2>1 DEF Entries
  <2>3. o \in os /\ observed(v, o.timestamp) /\ OpType(o)
    BY DEF Seen, OpsOK
  <2>4. observed(o.version, c.edit) /\ c.edit \in Stamps /\ o.version \in Versions
    BY <2>1, <2>3 DEF OpType
  <2>5. observed_all(v, o.version) /\ v \in Versions
    BY <2>3 DEF Cut
  <2>6. /\ c.edit[2] \in Replicas /\ c.edit[1] \in Nat
        /\ o.version[c.edit[2]] \in Nat /\ v[c.edit[2]] \in Nat
    BY <2>4, <2>5 DEF Stamps, Versions
  <2>7. observed(v, c.edit)
    BY <2>4, <2>5, <2>6 DEF observed, observed_all
  <2> QED
    BY <2>2, <2>7
<1> QED
  BY <1>1, <1>2

\* The clock moves past what it meets.
LEMMA ClockMoves ==
  ASSUME NEW k \in Nat, NEW m \in Nat
  PROVE  Max({k, m}) \in Nat /\ Max({k, m}) >= k /\ Max({k, m}) >= m
<1>1. {k, m} \in SUBSET Nat /\ {k, m} # {} /\ k + m \in Nat /\ \A y \in {k, m} : y <= k + m
  OBVIOUS
<1>2. Max({k, m}) \in {k, m} /\ \A y \in {k, m} : y <= Max({k, m})
  BY <1>1, MaxOf
<1> QED
  BY <1>2

\* An operation is applied.
LEMMA AppliedOK ==
  ASSUME NEW os, OpsOK(os), NEW b, BufOK(os, b), NEW o \in os,
         observed_all(b.version, o.version), ~observed(b.version, o.timestamp)
  PROVE  /\ BufOK(os, Applied(b, o))
         /\ Applied(b, o).version = observe(b.version, o.timestamp)
         /\ Applied(b, o).deferred = b.deferred
         /\ Applied(b, o).clock >= b.clock
<1> DEFINE c == Applied(b, o)
           undos == IF o.kind = "Undo" THEN UndoMapInsert(b.undos, o) ELSE b.undos
           fs == IF o.kind = "Undo" THEN apply_undo(b.fragments, undos, o)
                                    ELSE apply_remote_edit(b.fragments, undos, o)
           edits == IF o.kind = "Edit" THEN b.edits \ {o.timestamp} ELSE b.edits
           v == observe(b.version, o.timestamp)
           k == Max({b.clock, o.timestamp[1]}) + 1
           S == Seen(os, b.version)
<1>1. b \in BufType(os)
  BY DEF BufOK
<1>2. c = [b EXCEPT !.fragments = fs, !.undos = undos, !.version = v, !.clock = k,
                    !.edits = edits]
  BY Zenon DEF Applied
<1>3. /\ b.version \in Versions /\ b.clock \in Nat /\ b.undos \in SUBSET UndoType
      /\ b.deferred \in SUBSET os /\ b.late \in SUBSET Replicas /\ b.edits \in SUBSET Stamps
      /\ b.versions \in SUBSET Versions /\ b.fragments \in Seq(FragmentType)
  BY <1>1 DEF BufType
<1>4. OpType(o) /\ o.timestamp \in Stamps /\ o.timestamp[1] \in Nat /\ o.timestamp[1] > 1
  BY DEF OpsOK, OpType, Stamps
<1>5. Cut(os, b.version)
  BY DEF BufOK
<1>6. Cut(os, v) /\ Seen(os, v) = S \cup {o}
  <2>1. Cut(os, v)
    BY <1>5, ObserveOne
  <2>2. Seen(os, v) = S \cup {o}
    BY <1>5, SeenMore
  <2> QED
    BY <2>1, <2>2
<1>7. k \in Nat /\ k >= b.clock /\ \A q \in Replicas : v[q] < k
  <2>1. /\ Max({b.clock, o.timestamp[1]}) \in Nat /\ Max({b.clock, o.timestamp[1]}) >= b.clock
        /\ Max({b.clock, o.timestamp[1]}) >= o.timestamp[1]
    BY <1>3, <1>4, ClockMoves
  <2>2. k \in Nat /\ b.clock < k /\ o.timestamp[1] < k
    BY <1>3, <1>4, <2>1
  <2>3. \A q \in Replicas :
          v[q] = IF q = o.timestamp[2] /\ b.version[q] < o.timestamp[1]
                 THEN o.timestamp[1] ELSE b.version[q]
    BY <1>3, <1>4, ObserveIs
  <2> HIDE DEF k, v
  <2>4. ASSUME NEW q \in Replicas PROVE v[q] < k
    <3>1. b.version[q] < b.clock /\ b.version[q] \in Nat
      BY <1>3 DEF BufOK, Versions
    <3>2. v[q] = o.timestamp[1] \/ v[q] = b.version[q]
      BY <2>3
    <3> QED
      BY <1>3, <1>4, <2>2, <3>1, <3>2
  <2> QED
    BY <1>3, <2>2, <2>4
<1>8. TextOK(S, b.fragments, b.undos) /\ b.undos = UndosOf(S)
  BY DEF BufOK
<1>9. /\ undos = UndosOf(S \cup {o})
      /\ TextOK(S \cup {o}, fs, undos)
  <2>1. CASE o.kind = "Edit"
    <3>1. undos = b.undos /\ fs = apply_remote_edit(b.fragments, b.undos, o)
      BY <2>1
    <3>2. UndosOf(S \cup {o}) = UndosOf(S)
      BY <2>1, OneMore
    <3>3. o.ranges \in Seq(RangeType)
      BY <1>4, <2>1 DEF OpType
    <3> DEFINE gaps == [j \in DOMAIN o.ranges |->
                 RemoteGap(b.fragments, o.version, o.timestamp, o.ranges[j].start)]
    <3>4. \E dels : fs = Spliced(b.fragments, o.timestamp, o.ranges, gaps, dels)
      BY <3>1, Zenon DEF apply_remote_edit
    <3>5. PICK dels : fs = Spliced(b.fragments, o.timestamp, o.ranges, gaps, dels)
      BY <3>4
    <3>6. gaps \in [DOMAIN o.ranges -> 0 .. Len(b.fragments)]
      BY <1>3, RemoteGapIs
    <3>7. /\ \A x \in Known(S) : x[1] # o.timestamp
          /\ \A u \in b.undos : u.edit # o.timestamp
      BY <1>4, <1>5, <1>8, Fresh
    <3> HIDE DEF gaps, S, fs, undos
    <3>8. TextOK(S \cup {o}, fs, b.undos)
      BY <1>4, <1>8, <2>1, <3>3, <3>5, <3>6, <3>7, EditText
    <3> QED
      BY <1>8, <3>1, <3>2, <3>8
  <2>2. CASE o.kind = "Undo"
    <3>1. undos = UndoMapInsert(b.undos, o) /\ fs = apply_undo(b.fragments, undos, o)
      BY <2>2
    <3>2. UndosOf(S \cup {o}) = UndosOf(S) \cup Entries(o)
      BY <2>2, OneMore
    <3> HIDE DEF undos, fs, S
    <3>3. undos = b.undos \cup Entries(o) /\ TextOK(S \cup {o}, fs, undos)
      BY <1>8, <2>2, <3>1, UndoText
    <3> QED
      BY <1>8, <3>2, <3>3
  <2> QED
    BY <1>4, <2>1, <2>2 DEF OpType
<1>10. undos \in SUBSET UndoType
  <2>1. CASE o.kind = "Undo"
    <3>1. undos = b.undos \cup Entries(o)
      BY <2>1 DEF UndoMapInsert, Entries
    <3>2. \A x \in o.counts : x.edit \in Stamps /\ x.count \in Nat
      BY <1>4, <2>1 DEF OpType
    <3>3. Entries(o) \in SUBSET UndoType
      BY <1>4, <3>2 DEF Entries, UndoType
    <3> QED
      BY <1>3, <3>1, <3>3
  <2> QED
    BY <1>3, <2>1
<1> HIDE DEF c, fs, undos, edits, k, v
<1>11. edits \subseteq b.edits
  BY DEF edits
<1>12. /\ c.fragments = fs /\ c.version = v /\ c.clock = k /\ c.undos = undos
       /\ c.deferred = b.deferred /\ c.late = b.late /\ c.edits = edits
       /\ c.versions = b.versions
       /\ fs \in Seq(FragmentType) /\ v \in Versions /\ k \in Nat /\ undos \in SUBSET UndoType
            /\ edits \in SUBSET Stamps => c \in BufType(os)
  BY <1>1, <1>2 DEF BufType
<1>13. c \in BufType(os)
  <2>1. v \in Versions /\ fs \in Seq(FragmentType)
    BY <1>6, <1>9 DEF Cut, TextOK
  <2>2. edits \in SUBSET Stamps
    BY <1>3, <1>11
  <2> QED
    BY <1>7, <1>10, <1>12, <2>1, <2>2
<1>14. BufOK(os, c)
  <2>1. b.late = {d.timestamp[2] : d \in b.deferred} /\ b.edits \subseteq {p.timestamp : p \in os}
    BY DEF BufOK
  <2> HIDE DEF S
  <2> QED
    BY <1>6, <1>7, <1>9, <1>11, <1>12, <1>13, <2>1 DEF BufOK
<1> QED
  BY <1>7, <1>12, <1>14 DEF c, v

\* The waits for versions do not matter to the rest of a buffer.
LEMMA VersionsAside ==
  ASSUME NEW os, NEW b, BufOK(os, b), NEW W \in SUBSET Versions
  PROVE  /\ BufOK(os, [b EXCEPT !.versions = W])
         /\ [b EXCEPT !.versions = W].version = b.version
         /\ [b EXCEPT !.versions = W].deferred = b.deferred
         /\ [b EXCEPT !.versions = W].clock = b.clock
<1> DEFINE c == [b EXCEPT !.versions = W]
<1>1. b \in BufType(os)
  BY DEF BufOK
<1>2. /\ c \in BufType(os)
      /\ c.fragments = b.fragments /\ c.version = b.version /\ c.clock = b.clock
      /\ c.undos = b.undos /\ c.deferred = b.deferred /\ c.late = b.late /\ c.edits = b.edits
  BY <1>1 DEF BufType
<1> HIDE DEF c
<1>3. BufOK(os, c)
  BY <1>2, Zenon DEF BufOK
<1> QED
  BY <1>2, <1>3 DEF c

\* What becomes of an operation that arrives: it is applied, known already, or deferred.
Step(b, o, c) ==
  \/ /\ can_apply_op(b, o) /\ ~observed(b.version, o.timestamp)
     /\ c.version = observe(b.version, o.timestamp) /\ c.deferred = b.deferred
  \/ /\ can_apply_op(b, o) /\ observed(b.version, o.timestamp)
     /\ c.version = b.version /\ c.deferred = b.deferred
  \/ ~can_apply_op(b, o) /\ c.version = b.version /\ c.deferred = b.deferred \cup {o}

\* apply_or_defer keeps a buffer in order and does one of the three things of Step.
LEMMA StepOK ==
  ASSUME NEW os, OpsOK(os), NEW b, BufOK(os, b), NEW o \in os
  PROVE  /\ BufOK(os, apply_or_defer(b, o))
         /\ Step(b, o, apply_or_defer(b, o))
         /\ apply_or_defer(b, o).clock >= b.clock
<1> DEFINE c == apply_or_defer(b, o)
<1>1. b \in BufType(os)
  BY DEF BufOK
<1>2. /\ b.version \in Versions /\ b.clock \in Nat /\ b.versions \in SUBSET Versions
      /\ b.deferred \in SUBSET os /\ b.late \in SUBSET Replicas
  BY <1>1 DEF BufType
<1>3. CASE can_apply_op(b, o) /\ ~observed(b.version, o.timestamp)
  <2> DEFINE a == Applied(b, o)
             W == {w \in a.versions : ~observed_all(a.version, w)}
  <2>1. c = [a EXCEPT !.versions = W]
    BY <1>3, Zenon DEF apply_or_defer, apply_op
  <2>2. /\ BufOK(os, a) /\ a.version = observe(b.version, o.timestamp)
        /\ a.deferred = b.deferred /\ a.clock >= b.clock
    BY <1>3, AppliedOK DEF can_apply_op
  <2> HIDE DEF a
  <2>3. W \in SUBSET Versions
    BY <2>2 DEF BufOK, BufType
  <2> HIDE DEF W, c
  <2>4. BufOK(os, c) /\ c.version = a.version /\ c.deferred = a.deferred /\ c.clock = a.clock
    BY <2>1, <2>2, <2>3, VersionsAside, Zenon
  <2> QED
    BY <1>3, <2>2, <2>4 DEF Step, c
<1>4. CASE can_apply_op(b, o) /\ observed(b.version, o.timestamp)
  <2> DEFINE W == {w \in b.versions : ~observed_all(b.version, w)}
  <2>1. c = [b EXCEPT !.versions = W]
    BY <1>4, Zenon DEF apply_or_defer, apply_op
  <2>2. W \in SUBSET Versions
    BY <1>2
  <2> HIDE DEF W, c
  <2>3. BufOK(os, c) /\ c.version = b.version /\ c.deferred = b.deferred /\ c.clock = b.clock
    BY <2>1, <2>2, VersionsAside, Zenon
  <2> QED
    BY <1>2, <1>4, <2>3 DEF Step, c
<1>5. CASE ~can_apply_op(b, o)
  <2> DEFINE L == b.late \cup {o.timestamp[2]}
             D == b.deferred \cup {o}
  <2>1. c = [b EXCEPT !.late = L, !.deferred = D]
    BY <1>5, Zenon DEF apply_or_defer
  <2>2. o.timestamp[2] \in Replicas
    BY DEF OpsOK, OpType, Stamps
  <2>3. L \in SUBSET Replicas /\ D \in SUBSET os
    BY <1>2, <2>2
  <2>4. L = {d.timestamp[2] : d \in D}
    BY DEF BufOK
  <2> HIDE DEF L, D, c
  <2>5. /\ c \in BufType(os)
        /\ c.fragments = b.fragments /\ c.version = b.version /\ c.clock = b.clock
        /\ c.undos = b.undos /\ c.deferred = D /\ c.late = L /\ c.edits = b.edits
    BY <1>1, <2>1, <2>3 DEF BufType
  <2>6. BufOK(os, c)
    BY <2>4, <2>5, Zenon DEF BufOK
  <2>7. c.clock >= b.clock
    BY <1>2, <2>5
  <2> QED
    BY <1>5, <2>5, <2>6, <2>7 DEF Step, c, D
<1> QED
  BY <1>3, <1>4, <1>5

\* A version that observes more.
LEMMA ObserveMore ==
  ASSUME NEW v \in Versions, NEW w \in Versions, observed_all(w, v), NEW t \in Stamps,
         observed(v, t)
  PROVE  observed(w, t)
<1>1. t[2] \in Replicas /\ t[1] \in Nat /\ v[t[2]] \in Nat /\ w[t[2]] \in Nat
  BY DEF Stamps, Versions
<1> QED
  BY <1>1 DEF observed, observed_all

\* What a step does to a version.
LEMMA StepGrows ==
  ASSUME NEW os, OpsOK(os), NEW b, BufOK(os, b), NEW o \in os, NEW c, BufOK(os, c), Step(b, o, c)
  PROVE  /\ observed_all(c.version, b.version)
         /\ observed(c.version, o.timestamp) \/ o \in c.deferred
<1>1. Cut(os, b.version) /\ b.version \in Versions /\ o.timestamp \in Stamps
  BY DEF BufOK, Cut, OpsOK, OpType
<1>2. CASE can_apply_op(b, o) /\ ~observed(b.version, o.timestamp)
            /\ c.version = observe(b.version, o.timestamp)
  BY <1>1, <1>2, ObserveOne DEF can_apply_op
<1>3. observed_all(b.version, b.version)
  BY <1>1 DEF observed_all, Versions
<1> QED
  BY <1>2, <1>3 DEF Step

\* Operations that arrive one after the other.
LEMMA RunOK ==
  ASSUME NEW os, OpsOK(os), NEW b, BufOK(os, b), NEW n \in Nat, NEW s \in [1 .. n -> os],
         NEW run, IsRun(run, b, s, n)
  PROVE  \A i \in 0 .. n :
           /\ BufOK(os, run[i]) /\ run[i].clock >= b.clock
           /\ observed_all(run[i].version, b.version)
           /\ b.deferred \subseteq run[i].deferred
           /\ run[i].deferred \subseteq b.deferred \cup {s[j] : j \in 1 .. i}
           /\ \A j \in 1 .. i : observed(run[i].version, s[j].timestamp) \/ s[j] \in run[i].deferred
<1> DEFINE Good(i) ==
             /\ BufOK(os, run[i]) /\ run[i].clock >= b.clock
             /\ observed_all(run[i].version, b.version)
             /\ b.deferred \subseteq run[i].deferred
             /\ run[i].deferred \subseteq b.deferred \cup {s[j] : j \in 1 .. i}
             /\ \A j \in 1 .. i :
                  observed(run[i].version, s[j].timestamp) \/ s[j] \in run[i].deferred
           T == {i \in 0 .. n : Good(i)}
<1>0. \A c : BufOK(os, c) => c.version \in Versions /\ c.clock \in Nat
  BY DEF BufOK, BufType
<1>1. 0 \in T
  <2>1. run[0] = b /\ 1 .. 0 = {}
    BY DEF IsRun
  <2>2. observed_all(b.version, b.version) /\ b.clock >= b.clock
    BY <1>0 DEF observed_all, Versions
  <2> QED
    BY <2>1, <2>2
<1>2. ASSUME NEW i \in 0 .. n, i \in T, i < n PROVE i + 1 \in T
  <2> DEFINE a == run[i]
             o == s[i + 1]
             c == run[i + 1]
  <2>1. i + 1 \in 1 .. n /\ i + 1 \in 0 .. n /\ (i + 1) - 1 = i
    BY <1>2
  <2>2. c = apply_or_defer(a, o) /\ o \in os
    BY <2>1 DEF IsRun
  <2>3. /\ BufOK(os, a) /\ a.clock >= b.clock
        /\ observed_all(a.version, b.version)
        /\ b.deferred \subseteq a.deferred
        /\ a.deferred \subseteq b.deferred \cup {s[j] : j \in 1 .. i}
        /\ \A j \in 1 .. i : observed(a.version, s[j].timestamp) \/ s[j] \in a.deferred
    BY <1>2
  <2>4. \A j \in 1 .. i + 1 : j \in 1 .. i \/ j = i + 1
    BY <1>2
  <2>5. {s[j] : j \in 1 .. i + 1} = {s[j] : j \in 1 .. i} \cup {o}
    <3>1. \A j \in 1 .. i : j \in 1 .. i + 1
      BY <1>2
    <3>2. i + 1 \in 1 .. i + 1
      BY <1>2
    <3> QED
      BY <2>4, <3>1, <3>2
  <2> HIDE DEF a, o, c
  <2>6. BufOK(os, c) /\ Step(a, o, c) /\ c.clock >= a.clock
    BY <2>2, <2>3, StepOK
  <2>7. /\ observed_all(c.version, a.version)
        /\ observed(c.version, o.timestamp) \/ o \in c.deferred
    BY <2>2, <2>3, <2>6, StepGrows
  <2>8. a.deferred \subseteq c.deferred /\ c.deferred \subseteq a.deferred \cup {o}
    BY <2>6 DEF Step
  <2>9. c.clock >= b.clock
    BY <1>0, <2>3, <2>6
  <2>10. observed_all(c.version, b.version)
    BY <1>0, <2>3, <2>6, <2>7 DEF observed_all, Versions
  <2>11. ASSUME NEW j \in 1 .. i + 1
         PROVE  observed(c.version, s[j].timestamp) \/ s[j] \in c.deferred
    <3>1. CASE j = i + 1
      BY <2>7, <3>1 DEF o
    <3>2. CASE j \in 1 .. i
      <4>1. observed(a.version, s[j].timestamp) \/ s[j] \in a.deferred
        BY <2>3, <3>2
      <4>2. s[j] \in os
        BY <1>2, <3>2
      <4>3. s[j].timestamp \in Stamps
        BY <4>2 DEF OpsOK, OpType
      <4>4. observed(a.version, s[j].timestamp) => observed(c.version, s[j].timestamp)
        BY <1>0, <2>3, <2>6, <2>7, <4>3, ObserveMore
      <4> QED
        BY <2>8, <4>1, <4>4
    <3> QED
      BY <2>4, <3>1, <3>2
  <2>12. Good(i + 1)
    BY <2>3, <2>5, <2>6, <2>8, <2>9, <2>10, <2>11 DEF c
  <2> QED
    BY <2>1, <2>12
<1> HIDE DEF T
<1>3. \A i \in 0 .. n : i \in T
  BY <1>1, <1>2, UpTo
<1> QED
  BY <1>3 DEF T

\* The queue is in the order of the timestamps.
LEMMA QueueOrder ==
  ASSUME NEW os, OpsOK(os), NEW D \in SUBSET os
  PROVE  \E n \in Nat :
           /\ OperationQueue(D) \in [1 .. n -> D]
           /\ DOMAIN OperationQueue(D) = 1 .. n
           /\ \A d \in D : \E i \in 1 .. n : OperationQueue(D)[i] = d
           /\ \A i, j \in 1 .. n : i < j <=>
                Later(OperationQueue(D)[j].timestamp, OperationQueue(D)[i].timestamp)
<1> DEFINE R == {z \in D \X D : Later(z[2].timestamp, z[1].timestamp)}
           q == OperationQueue(D)
<1>1. q = InOrder(D, R)
  BY DEF OperationQueue
<1>2. IsFiniteSet(D)
  BY FS_Subset DEF OpsOK
<1>3. \A x, y \in D : <<x, y>> \in R <=> Later(y.timestamp, x.timestamp)
  OBVIOUS
<1>4. \A x \in D : /\ x.timestamp \in Stamps /\ x.timestamp[1] \in Nat /\ x.timestamp[2] \in Nat
                   /\ x.timestamp = <<x.timestamp[1], x.timestamp[2]>>
  <2>1. \A x \in D : x.timestamp \in Stamps
    BY DEF OpsOK, OpType
  <2>2. \A t \in Stamps : t[1] \in Nat /\ t[2] \in Nat /\ t = <<t[1], t[2]>>
    <3> SUFFICES ASSUME NEW t \in Stamps PROVE t[1] \in Nat /\ t[2] \in Nat /\ t = <<t[1], t[2]>>
      OBVIOUS
    <3>1. PICK n \in Nat, r \in Replicas : t = <<n, r>>
      BY DEF Stamps
    <3>2. r \in Nat
      BY ReplicasAssumption
    <3> QED
      BY <3>1, <3>2
  <2> QED
    BY <2>1, <2>2
<1> HIDE DEF R, q
<1>5. \A x \in D : ~Later(x.timestamp, x.timestamp)
  BY <1>4 DEF Later
<1>6. \A x, y, z \in D : Later(y.timestamp, x.timestamp) /\ Later(z.timestamp, y.timestamp)
                            => Later(z.timestamp, x.timestamp)
  BY <1>4 DEF Later
<1>7. ASSUME NEW x \in D, NEW y \in D,
             ~Later(y.timestamp, x.timestamp), ~Later(x.timestamp, y.timestamp)
      PROVE  x = y
  <2>1. x.timestamp[1] = y.timestamp[1] /\ x.timestamp[2] = y.timestamp[2]
    BY <1>4, <1>7 DEF Later
  <2>2. x.timestamp = y.timestamp
    BY <1>4, <2>1
  <2> QED
    BY <2>2 DEF OpsOK
<1>8. Orders(R, D)
  BY <1>3, <1>5, <1>6, <1>7, Zenon DEF Orders
<1>9. /\ Cardinality(D) \in Nat
      /\ q \in [1 .. Cardinality(D) -> D]
      /\ \A x \in D : \E n \in 1 .. Cardinality(D) : q[n] = x
      /\ \A m, n \in 1 .. Cardinality(D) : m < n <=> <<q[m], q[n]>> \in R
  BY <1>1, <1>2, <1>8, InOrderLists
<1>10. \A m, n \in 1 .. Cardinality(D) : m < n <=> Later(q[n].timestamp, q[m].timestamp)
  BY <1>3, <1>9
<1>11. DOMAIN q = 1 .. Cardinality(D)
  BY <1>9
<1> QED
  BY <1>9, <1>10, <1>11 DEF q

\* An operation that is not met waits on after a later one was applied: had it waited for
\* that one, it would be the later of the two.
LEMMA StillUnmet ==
  ASSUME NEW os, OpsOK(os), NEW v, Cut(os, v), NEW d \in os, NEW p \in os,
         ~observed_all(v, d.version), observed_all(v, p.version),
         ~Later(d.timestamp, p.timestamp)
  PROVE  ~observed_all(observe(v, p.timestamp), d.version)
<1> DEFINE t == p.timestamp
           w == observe(v, t)
<1>1. /\ v \in Versions /\ d.version \in Versions /\ p.version \in Versions
      /\ t \in Stamps /\ t[1] \in Nat /\ t[2] \in Replicas /\ t[2] \in Nat
      /\ d.timestamp[1] \in Nat /\ d.timestamp[2] \in Nat
      /\ Cut(os, d.version) /\ OpType(d)
  BY ReplicasAssumption DEF Cut, OpsOK, OpType, Stamps
<1>2. \A q \in Replicas : w[q] = IF q = t[2] /\ v[q] < t[1] THEN t[1] ELSE v[q]
  BY <1>1, ObserveIs
<1>3. PICK q \in Replicas : ~(v[q] >= d.version[q])
  BY DEF observed_all
<1>4. v[q] \in Nat /\ d.version[q] \in Nat /\ p.version[q] \in Nat /\ v[q] < d.version[q]
  BY <1>1, <1>3 DEF Versions
<1> HIDE DEF w
<1>5. CASE w[q] = v[q]
  BY <1>3, <1>5 DEF observed_all, w
<1>6. CASE q = t[2] /\ w[q] = t[1]
  <2>1. d.version[q] < d.timestamp[1] /\ d.timestamp[1] <= t[1]
    BY <1>1 DEF OpType, Later
  <2>2. v[q] >= BaseVersion[q] /\ BaseVersion[q] \in Nat
    BY DEF Cut, BaseVersion
  <2>3. d.version[q] # BaseVersion[q]
    BY <1>4, <2>2
  <2>4. PICK x \in os : x.timestamp = <<d.version[q], q>>
    BY <1>1, <2>3 DEF Cut
  <2>5. x.timestamp[1] = d.version[q] /\ x.timestamp[2] = t[2] /\ x.timestamp[1] < t[1]
    BY <1>1, <1>4, <1>6, <2>1, <2>4
  <2>6. observed(p.version, x.timestamp)
    BY <2>5 DEF OpsOK
  <2>7. p.version[q] >= d.version[q]
    BY <1>6, <2>5, <2>6 DEF observed
  <2>8. v[q] >= p.version[q]
    BY DEF observed_all
  <2> QED
    BY <1>4, <2>7, <2>8
<1> QED
  BY <1>2, <1>5, <1>6

\* What follows an operation of its replica that is not met is not met either.
LEMMA LateUnmet ==
  ASSUME NEW os, OpsOK(os), NEW v, Cut(os, v), NEW d \in os, NEW p \in os,
         ~observed_all(v, d.version), d.timestamp[2] = p.timestamp[2],
         Later(p.timestamp, d.timestamp)
  PROVE  ~observed_all(v, p.version)
<1>1. /\ v \in Versions /\ d.version \in Versions /\ p.version \in Versions
      /\ p.timestamp[1] \in Nat /\ d.timestamp[1] \in Nat /\ p.timestamp[2] \in Nat
      /\ Cut(os, p.version)
  BY ReplicasAssumption DEF Cut, OpsOK, OpType, Stamps
<1>2. d.timestamp[1] < p.timestamp[1]
  BY <1>1 DEF Later
<1>3. observed_all(p.version, d.version)
  BY <1>1, <1>2 DEF OpsOK, Cut
<1> QED
  BY <1>1, <1>3 DEF observed_all, Versions

\* Draining the queue once, in its order, applies all that can be applied.
LEMMA FlushOK ==
  ASSUME NEW os, OpsOK(os), NEW b, BufOK(os, b), NEW c, c = flush_deferred_ops(b)
  PROVE  /\ BufOK(os, c) /\ c.clock >= b.clock
         /\ observed_all(c.version, b.version)
         /\ \A d \in b.deferred : observed(c.version, d.timestamp) \/ d \in c.deferred
         /\ \A d \in c.deferred : ~observed_all(c.version, d.version)
<1> DEFINE start == [b EXCEPT !.late = {}, !.deferred = {}]
           D == b.deferred
           s == OperationQueue(D)
<1>1. b \in BufType(os)
  BY DEF BufOK
<1>2. D \in SUBSET os
  BY <1>1 DEF BufType
<1>3. /\ start \in BufType(os)
      /\ start.fragments = b.fragments /\ start.version = b.version /\ start.clock = b.clock
      /\ start.undos = b.undos /\ start.deferred = {} /\ start.late = {}
      /\ start.edits = b.edits
  BY <1>1 DEF BufType
<1>4. {} = {d.timestamp[2] : d \in {}}
  OBVIOUS
<1>5. c = FoldLeft(apply_or_defer, start, s)
  BY DEF flush_deferred_ops
<1> HIDE DEF start, s
<1>6. BufOK(os, start)
  BY <1>3, <1>4, Zenon DEF BufOK
<1>7. PICK n \in Nat :
        /\ s \in [1 .. n -> D] /\ DOMAIN s = 1 .. n
        /\ \A d \in D : \E i \in 1 .. n : s[i] = d
        /\ \A i, j \in 1 .. n : i < j <=> Later(s[j].timestamp, s[i].timestamp)
  BY <1>2, QueueOrder DEF s
<1>8. PICK run : IsRun(run, start, s, n) /\ c = run[n]
  BY <1>5, <1>7, FoldRuns
<1> HIDE DEF D
<1>9. s \in [1 .. n -> os]
  BY <1>2, <1>7
<1>10. \A i \in 0 .. n :
         /\ BufOK(os, run[i]) /\ run[i].clock >= start.clock
         /\ observed_all(run[i].version, start.version)
         /\ run[i].deferred \subseteq start.deferred \cup {s[j] : j \in 1 .. i}
         /\ \A j \in 1 .. i : observed(run[i].version, s[j].timestamp) \/ s[j] \in run[i].deferred
  BY <1>6, <1>8, <1>9, RunOK
<1> DEFINE T == {i \in 0 .. n : \A d \in run[i].deferred : ~observed_all(run[i].version, d.version)}
<1>11. 0 \in T
  <2>1. run[0] = start
    BY <1>8 DEF IsRun
  <2> QED
    BY <1>3, <2>1
<1>12. ASSUME NEW i \in 0 .. n, i \in T, i < n PROVE i + 1 \in T
  <2> DEFINE a == run[i]
             p == s[i + 1]
             e == run[i + 1]
  <2>1. i + 1 \in 1 .. n /\ i + 1 \in 0 .. n /\ (i + 1) - 1 = i
    BY <1>12
  <2>2. e = apply_or_defer(a, p)
    BY <1>8, <2>1 DEF IsRun
  <2>3. p \in os
    BY <1>9, <2>1
  <2>4. BufOK(os, a)
    BY <1>10
  <2>5. \A d \in a.deferred : d \in os /\ Later(p.timestamp, d.timestamp)
                              /\ ~Later(d.timestamp, p.timestamp)
    <3> SUFFICES ASSUME NEW d \in a.deferred
                 PROVE  d \in os /\ Later(p.timestamp, d.timestamp)
                        /\ ~Later(d.timestamp, p.timestamp)
      OBVIOUS
    <3>1. PICK j \in 1 .. i : d = s[j]
      BY <1>3, <1>10
    <3>2. j \in 1 .. n /\ j < i + 1 /\ ~(i + 1 < j)
      BY <1>12
    <3> QED
      BY <1>7, <1>9, <2>1, <3>1, <3>2
  <2>6. \A d \in a.deferred : ~observed_all(a.version, d.version)
    BY <1>12
  <2> HIDE DEF a, p, e
  <2>7. Step(a, p, e) /\ Cut(os, a.version)
    BY <2>2, <2>3, <2>4, StepOK DEF BufOK
  <2>8. ASSUME NEW d \in e.deferred PROVE ~observed_all(e.version, d.version)
    <3>1. CASE can_apply_op(a, p) /\ e.version = observe(a.version, p.timestamp)
               /\ e.deferred = a.deferred
      <4>1. d \in a.deferred /\ observed_all(a.version, p.version)
        BY <3>1 DEF can_apply_op
      <4>2. ~observed_all(observe(a.version, p.timestamp), d.version)
        BY <2>3, <2>5, <2>6, <2>7, <4>1, StillUnmet
      <4> QED
        BY <3>1, <4>2
    <3>2. CASE e.version = a.version /\ e.deferred = a.deferred
      BY <2>6, <3>2
    <3>3. CASE ~can_apply_op(a, p) /\ e.version = a.version /\ e.deferred = a.deferred \cup {p}
      <4>1. CASE d \in a.deferred
        BY <2>6, <3>3, <4>1
      <4>2. CASE d = p /\ ~observed_all(a.version, p.version)
        BY <3>3, <4>2
      <4>3. CASE d = p /\ p.timestamp[2] \in a.late
        <5>1. PICK f \in a.deferred : f.timestamp[2] = p.timestamp[2]
          BY <2>4, <4>3 DEF BufOK
        <5>2. ~observed_all(a.version, p.version)
          BY <2>3, <2>5, <2>6, <2>7, <5>1, LateUnmet
        <5> QED
          BY <3>3, <4>3, <5>2
      <4> QED
        BY <3>3, <4>1, <4>2, <4>3 DEF can_apply_op
    <3> QED
      BY <2>7, <3>1, <3>2, <3>3 DEF Step
  <2> QED
    BY <2>1, <2>8 DEF e
<1> HIDE DEF T
<1>13. \A i \in 0 .. n : i \in T
  BY <1>11, <1>12, UpTo
<1>14. n \in 0 .. n
  OBVIOUS
<1>15. \A d \in c.deferred : ~observed_all(c.version, d.version)
  BY <1>8, <1>13, <1>14 DEF T
<1>16. /\ BufOK(os, c) /\ c.clock >= b.clock /\ observed_all(c.version, b.version)
       /\ \A j \in 1 .. n : observed(c.version, s[j].timestamp) \/ s[j] \in c.deferred
  BY <1>3, <1>8, <1>10, <1>14
<1>17. \A d \in b.deferred : observed(c.version, d.timestamp) \/ d \in c.deferred
  BY <1>7, <1>16 DEF D
<1> QED
  BY <1>15, <1>16, <1>17

\* A batch of operations arrives: each of them is applied or deferred, what was deferred
\* too, and what is left in the queue cannot be applied.
LEMMA ApplyOpsOK ==
  ASSUME NEW os, OpsOK(os), NEW b, BufOK(os, b), NEW n \in Nat, NEW batch \in [1 .. n -> os],
         NEW c, c = apply_ops(b, batch)
  PROVE  /\ BufOK(os, c) /\ c.clock >= b.clock
         /\ observed_all(c.version, b.version)
         /\ \A d \in b.deferred : observed(c.version, d.timestamp) \/ d \in c.deferred
         /\ \A i \in 1 .. n : observed(c.version, batch[i].timestamp) \/ batch[i] \in c.deferred
         /\ \A d \in c.deferred : ~observed_all(c.version, d.version)
<1> DEFINE a == FoldLeft(apply_or_defer, b, batch)
<1>0. DOMAIN batch = 1 .. n /\ n \in 0 .. n
  OBVIOUS
<1>1. c = flush_deferred_ops(a)
  BY DEF apply_ops
<1>2. PICK run : IsRun(run, b, batch, n) /\ a = run[n]
  BY <1>0, FoldRuns
<1> HIDE DEF a
<1>3. /\ BufOK(os, a) /\ a.clock >= b.clock
      /\ observed_all(a.version, b.version)
      /\ b.deferred \subseteq a.deferred
      /\ \A j \in 1 .. n : observed(a.version, batch[j].timestamp) \/ batch[j] \in a.deferred
  BY <1>0, <1>2, RunOK
<1>4. /\ BufOK(os, c) /\ c.clock >= a.clock
      /\ observed_all(c.version, a.version)
      /\ \A d \in a.deferred : observed(c.version, d.timestamp) \/ d \in c.deferred
      /\ \A d \in c.deferred : ~observed_all(c.version, d.version)
  BY <1>1, <1>3, FlushOK
<1>5. /\ a.version \in Versions /\ b.version \in Versions /\ c.version \in Versions
      /\ a.clock \in Nat /\ b.clock \in Nat /\ c.clock \in Nat
  BY <1>3, <1>4 DEF BufOK, BufType
<1>6. c.clock >= b.clock /\ observed_all(c.version, b.version)
  BY <1>3, <1>4, <1>5 DEF observed_all, Versions
<1>7. ASSUME NEW i \in 1 .. n
      PROVE  observed(c.version, batch[i].timestamp) \/ batch[i] \in c.deferred
  <2>1. batch[i].timestamp \in Stamps
    BY DEF OpsOK, OpType
  <2>2. observed(a.version, batch[i].timestamp) => observed(c.version, batch[i].timestamp)
    BY <1>4, <1>5, <2>1, ObserveMore
  <2> QED
    BY <1>3, <1>4, <2>2
<1> QED
  BY <1>3, <1>4, <1>6, <1>7

-----------------------------------------------------------------------------
(* The undo and redo stacks *)

\* The edits of the transactions on a stack, and that no edit is in two of them.
Effects(s) == UNION {s[i] : i \in DOMAIN s}

Apart(s) == \A i, j \in DOMAIN s : i # j => s[i] \cap s[j] = {}

Stacks == Seq(SUBSET Stamps)

\* A transaction is pushed.
LEMMA StackAppend ==
  ASSUME NEW s \in Stacks, NEW T \in SUBSET Stamps
  PROVE  /\ Append(s, T) \in Stacks /\ Append(s, T) # <<>>
         /\ Effects(Append(s, T)) = Effects(s) \cup T
         /\ Apart(s) /\ T \cap Effects(s) = {} => Apart(Append(s, T))
<1> DEFINE a == Append(s, T)
           n == Len(s)
<1>1. a \in Seq(SUBSET Stamps) /\ n \in Nat /\ Len(a) = n + 1 /\ DOMAIN s = 1 .. n
      /\ DOMAIN a = 1 .. n + 1
  BY DEF Stacks
<1>2. (\A i \in 1 .. n : a[i] = s[i]) /\ a[n + 1] = T
  BY DEF Stacks
<1>3. a # <<>>
  BY <1>1
<1> HIDE DEF a
<1>4. \A i \in 1 .. n + 1 : i \in 1 .. n \/ i = n + 1
  BY <1>1
<1>5. n + 1 \in 1 .. n + 1 /\ \A i \in 1 .. n : i \in 1 .. n + 1
  BY <1>1
<1> HIDE DEF n
<1>6. Effects(a) = Effects(s) \cup T
  BY <1>1, <1>2, <1>4, <1>5 DEF Effects
<1>7. ASSUME Apart(s), T \cap Effects(s) = {} PROVE Apart(a)
  <2>1. \A i \in 1 .. n : s[i] \cap T = {}
    BY <1>1, <1>7 DEF Effects
  <2> QED
    BY <1>1, <1>2, <1>4, <1>7, <2>1 DEF Apart
<1> QED
  BY <1>1, <1>3, <1>6, <1>7 DEF a, Stacks

\* A transaction is taken out.
LEMMA StackRemove ==
  ASSUME NEW s \in Stacks, NEW k \in DOMAIN s
  PROVE  /\ RemoveAt(s, k) \in Stacks
         /\ Effects(RemoveAt(s, k)) \subseteq Effects(s)
         /\ Apart(s) => Apart(RemoveAt(s, k)) /\ s[k] \cap Effects(RemoveAt(s, k)) = {}
<1> DEFINE n == Len(s)
           front == SubSeq(s, 1, k - 1)
           back == SubSeq(s, k + 1, n)
           a == RemoveAt(s, k)
           at(i) == IF i < k THEN i ELSE i + 1
<1>1. n \in Nat /\ DOMAIN s = 1 .. n /\ k \in 1 .. n
  BY DEF Stacks
<1>2. /\ front \in Seq(SUBSET Stamps) /\ Len(front) = k - 1
      /\ \A i \in 1 .. k - 1 : front[i] = s[i]
  BY <1>1 DEF Stacks
<1>3. /\ back \in Seq(SUBSET Stamps) /\ Len(back) = n - k
      /\ \A i \in 1 .. n - k : back[i] = s[k + i]
  BY <1>1 DEF Stacks
<1>4. a = front \o back
  BY DEF RemoveAt
<1> HIDE DEF front, back, a, n
<1>5. a \in Seq(SUBSET Stamps) /\ DOMAIN a = 1 .. n - 1 /\ Len(a) = n - 1
  <2>1. /\ a \in Seq(SUBSET Stamps) /\ DOMAIN a = 1 .. Len(a)
        /\ Len(a) = Len(front) + Len(back)
    <3>1. a \in Seq(SUBSET Stamps) /\ Len(a) = Len(front) + Len(back)
      BY <1>2, <1>3, <1>4, ConcatProperties
    <3> QED
      BY <3>1
  <2>2. Len(a) = n - 1
    BY <1>1, <1>2, <1>3, <2>1
  <2> QED
    BY <2>1, <2>2
<1>6. ASSUME NEW i \in 1 .. n - 1 PROVE a[i] = s[at(i)] /\ at(i) \in 1 .. n /\ at(i) # k
  <2>1. CASE i < k
    <3>1. i \in 1 .. k - 1 /\ at(i) = i
      BY <1>1, <2>1
    <3>2. a[i] = front[i]
      <4>1. i <= Len(front) /\ i \in 1 .. Len(front) + Len(back)
        BY <1>1, <1>2, <1>3, <3>1
      <4> QED
        BY <1>2, <1>3, <1>4, <4>1, ConcatProperties
    <3> QED
      BY <1>1, <1>2, <2>1, <3>1, <3>2
  <2>2. CASE ~(i < k)
    <3>1. i - (k - 1) \in 1 .. n - k /\ at(i) = i + 1 /\ k + (i - (k - 1)) = i + 1
      BY <1>1, <2>2
    <3>2. a[i] = back[i - (k - 1)]
      <4>1. ~(i <= Len(front)) /\ i \in 1 .. Len(front) + Len(back)
        BY <1>1, <1>2, <1>3, <2>2
      <4> QED
        BY <1>2, <1>3, <1>4, <4>1, ConcatProperties
    <3>3. back[i - (k - 1)] = s[k + (i - (k - 1))]
      BY <1>3, <3>1
    <3>4. i + 1 \in 1 .. n /\ i + 1 # k
      BY <1>1, <2>2
    <3> QED
      BY <3>1, <3>2, <3>3, <3>4
  <2> QED
    BY <2>1, <2>2
<1>7. \A i, j \in 1 .. n - 1 : i # j => at(i) # at(j)
  BY <1>1
<1> HIDE DEF at
<1>8. Effects(a) \subseteq Effects(s)
  BY <1>1, <1>5, <1>6 DEF Effects
<1>9. ASSUME Apart(s) PROVE Apart(a) /\ s[k] \cap Effects(a) = {}
  <2>1. Apart(a)
    BY <1>1, <1>5, <1>6, <1>7, <1>9 DEF Apart
  <2>2. \A i \in 1 .. n - 1 : s[k] \cap a[i] = {}
    BY <1>1, <1>6, <1>9 DEF Apart
  <2>3. s[k] \cap Effects(a) = {}
    BY <1>5, <2>2 DEF Effects
  <2> QED
    BY <2>1, <2>3
<1> QED
  BY <1>5, <1>8, <1>9 DEF a, Stacks

\* The last transaction is taken out.
LEMMA StackFront ==
  ASSUME NEW s \in Stacks, s # <<>>
  PROVE  /\ Len(s) \in DOMAIN s /\ Last(s) = s[Len(s)] /\ Last(s) \in SUBSET Stamps
         /\ Front(s) \in Stacks
         /\ Effects(Front(s)) \subseteq Effects(s) /\ Last(s) \subseteq Effects(s)
         /\ Apart(s) => Apart(Front(s)) /\ Last(s) \cap Effects(Front(s)) = {}
<1> DEFINE n == Len(s)
           a == Front(s)
<1>1. n \in Nat /\ DOMAIN s = 1 .. n /\ n \in 1 .. n /\ s \in Seq(SUBSET Stamps)
  BY DEF Stacks
<1>2. /\ a \in Seq(SUBSET Stamps) /\ DOMAIN a = 1 .. n - 1
      /\ \A i \in 1 .. n - 1 : a[i] = s[i]
  BY <1>1 DEF Front
<1>3. Last(s) = s[n]
  BY DEF Last
<1> HIDE DEF a, n
<1>4. \A i \in 1 .. n - 1 : i \in 1 .. n /\ i # n
  BY <1>1
<1>5. Effects(a) \subseteq Effects(s) /\ s[n] \subseteq Effects(s)
  BY <1>1, <1>2, <1>4 DEF Effects
<1>6. ASSUME Apart(s) PROVE Apart(a) /\ s[n] \cap Effects(a) = {}
  <2>1. Apart(a)
    BY <1>1, <1>2, <1>4, <1>6 DEF Apart
  <2>2. \A i \in 1 .. n - 1 : s[n] \cap a[i] = {}
    BY <1>1, <1>2, <1>4, <1>6 DEF Apart
  <2> QED
    BY <1>2, <2>1, <2>2 DEF Effects
<1>7. s[n] \in SUBSET Stamps
  BY <1>1
<1> QED
  BY <1>1, <1>2, <1>3, <1>5, <1>6, <1>7 DEF a, n, Stacks

\* An edit is added to the last transaction.
LEMMA StackPush ==
  ASSUME NEW s \in Stacks, s # <<>>, NEW t \in Stamps,
         NEW a \in [DOMAIN s -> SUBSET Stamps], a[Len(s)] = s[Len(s)] \cup {t},
         \A i \in DOMAIN s : i # Len(s) => a[i] = s[i]
  PROVE  /\ a \in Stacks /\ Len(a) = Len(s) /\ a # <<>> /\ t \in Last(a)
         /\ Effects(a) = Effects(s) \cup {t}
         /\ Apart(s) /\ t \notin Effects(s) => Apart(a)
<1> DEFINE n == Len(s)
<1>1. n \in Nat /\ DOMAIN s = 1 .. n /\ n \in 1 .. n /\ s \in Seq(SUBSET Stamps)
  BY DEF Stacks
<1>2. DOMAIN a = 1 .. n /\ a[n] = s[n] \cup {t} /\ \A i \in 1 .. n : i # n => a[i] = s[i]
  BY <1>1
<1>3. a \in [1 .. n -> SUBSET Stamps]
  BY <1>1
<1> HIDE DEF n
<1>4. a \in Seq(SUBSET Stamps) /\ Len(a) = n /\ a # <<>>
  <2>1. a \in Seq(SUBSET Stamps) /\ Len(a) = n
    BY <1>1, <1>2, <1>3
  <2>2. n # 0
    BY <1>1
  <2> QED
    BY <2>1, <2>2
<1>5. t \in Last(a)
  BY <1>2, <1>4 DEF Last
<1>6. Effects(a) = Effects(s) \cup {t}
  BY <1>1, <1>2 DEF Effects
<1>7. ASSUME Apart(s), t \notin Effects(s) PROVE Apart(a)
  <2>1. \A i \in 1 .. n : t \notin s[i]
    BY <1>1, <1>7 DEF Effects
  <2> QED
    BY <1>1, <1>2, <1>7, <2>1 DEF Apart
<1> QED
  BY <1>4, <1>5, <1>6, <1>7 DEF n, Stacks

\* The last transactions become one.
LEMMA StackGroup ==
  ASSUME NEW s \in Stacks, NEW n \in Nat, n < Len(s)
  PROVE  /\ group_trailing(s, n) \in Stacks
         /\ Effects(group_trailing(s, n)) \subseteq Effects(s)
         /\ Apart(s) => Apart(group_trailing(s, n))
<1> DEFINE keep == Len(s) - n
           front == SubSeq(s, 1, keep - 1)
           T == UNION {s[i] : i \in keep .. Len(s)}
<1>1. /\ Len(s) \in Nat /\ DOMAIN s = 1 .. Len(s) /\ s \in Seq(SUBSET Stamps)
      /\ keep \in 1 .. Len(s)
  BY DEF Stacks
<1>2. /\ front \in Seq(SUBSET Stamps) /\ DOMAIN front = 1 .. keep - 1
      /\ \A i \in 1 .. keep - 1 : front[i] = s[i]
  BY <1>1
<1>3. group_trailing(s, n) = Append(front, T)
  BY DEF group_trailing
<1>4. /\ \A i \in 1 .. keep - 1 : i \in 1 .. Len(s)
      /\ \A i \in keep .. Len(s) : i \in 1 .. Len(s)
      /\ \A i \in 1 .. keep - 1 : \A j \in keep .. Len(s) : i # j
  BY <1>1
<1> HIDE DEF front, keep
<1>5. T \in SUBSET Stamps
  BY <1>1, <1>4
<1>6. Effects(front) \subseteq Effects(s) /\ T \subseteq Effects(s)
  BY <1>1, <1>2, <1>4 DEF Effects
<1>7. ASSUME Apart(s) PROVE Apart(front) /\ T \cap Effects(front) = {}
  <2>1. Apart(front)
    BY <1>1, <1>2, <1>4, <1>7 DEF Apart
  <2>2. \A i \in 1 .. keep - 1 : \A j \in keep .. Len(s) : front[i] \cap s[j] = {}
    BY <1>1, <1>2, <1>4, <1>7 DEF Apart
  <2> QED
    BY <1>2, <2>1, <2>2 DEF Effects
<1> HIDE DEF T
<1>8. front \in Stacks
  BY <1>2 DEF Stacks
<1>9. /\ Append(front, T) \in Stacks
      /\ Effects(Append(front, T)) = Effects(front) \cup T
      /\ Apart(front) /\ T \cap Effects(front) = {} => Apart(Append(front, T))
  BY <1>5, <1>8, StackAppend
<1> QED
  BY <1>3, <1>6, <1>7, <1>9

\* The undo counts of the operations made so far have a bound.
Bounded(os) == \E m \in Nat : \A u \in UndosOf(os) : u.count <= m

\* The count that decides is the greatest one.
LEMMA CountIs ==
  ASSUME NEW U, NEW m \in Nat, \A u \in U : u.count \in Nat /\ u.count <= m
  PROVE  /\ MaxCount(U) \in 0 .. m
         /\ \A u \in U : u.count <= MaxCount(U)
         /\ MaxCount(U) = 0 \/ \E u \in U : u.count = MaxCount(U)
<1> DEFINE C == {0} \cup {u.count : u \in U}
<1>1. C \in SUBSET Nat /\ C # {} /\ \A y \in C : y <= m
  OBVIOUS
<1>2. MaxCount(U) = Max(C)
  BY DEF MaxCount
<1> HIDE DEF C
<1>3. Max(C) \in C /\ \A y \in C : y <= Max(C)
  BY <1>1, MaxOf
<1>4. Max(C) \in Nat /\ Max(C) <= m
  BY <1>1, <1>3
<1> QED
  BY <1>2, <1>3, <1>4 DEF C

\* Entries of an undo map come from the operations that undo.
LEMMA UndoEntry ==
  ASSUME NEW os, OpsOK(os), NEW S \in SUBSET os, NEW u \in UndosOf(S)
  PROVE  /\ u.count \in Nat /\ u.edit \in Stamps
         /\ \E o \in S : /\ o.kind = "Undo" /\ u \in Entries(o) /\ u.edit[2] = o.timestamp[2]
                         /\ observed(o.version, u.edit)
<1>1. PICK o \in S : o.kind = "Undo" /\ u \in Entries(o)
  BY DEF UndosOf
<1>2. PICK c \in o.counts : u.edit = c.edit /\ u.count = c.count
  BY <1>1 DEF Entries
<1>3. OpType(o)
  BY DEF OpsOK
<1>4. /\ c.edit \in Stamps /\ c.count \in Nat /\ observed(o.version, c.edit)
      /\ c.edit[2] = o.timestamp[2]
  BY <1>1, <1>3 DEF OpType
<1> QED
  BY <1>1, <1>2, <1>4

\* A replica that knows all it has done knows all undos of its edits: only the replica
\* that made an edit undoes it.
LEMMA OwnUndos ==
  ASSUME NEW os, OpsOK(os), NEW v, NEW r,
         \A o \in os : o.timestamp[2] = r => observed(v, o.timestamp),
         NEW e, e[2] = r
  PROVE  /\ undo_count(UndosOf(Seen(os, v)), e) = undo_count(UndosOf(os), e)
         /\ is_undone(UndosOf(Seen(os, v)), e) = is_undone(UndosOf(os), e)
<1> DEFINE A == UndosOf(Seen(os, v))
           B == UndosOf(os)
<1>1. A \subseteq B
  BY DEF UndosOf, Seen
<1>2. ASSUME NEW u \in B, u.edit = e PROVE u \in A
  <2>1. PICK o \in os : o.kind = "Undo" /\ u \in Entries(o) /\ u.edit[2] = o.timestamp[2]
    BY UndoEntry
  <2>2. o \in Seen(os, v)
    BY <1>2, <2>1 DEF Seen
  <2> QED
    BY <2>1, <2>2 DEF UndosOf
<1>3. {u \in A : u.edit = e} = {u \in B : u.edit = e}
  BY <1>1, <1>2
<1>4. undo_count(A, e) = undo_count(B, e)
  BY <1>3 DEF undo_count
<1> QED
  BY <1>4 DEF is_undone

HistoryType == [undo_stack : Stacks, redo_stack : Stacks, depth : 0 .. 1, opened : Nat]

\* The history of replica r holds its own edits, in effect on the one stack and undone on
\* the other, and never twice.
HistOK(os, r, h) ==
  /\ h \in HistoryType
  /\ h.depth > 0 => h.undo_stack # <<>>
  /\ Apart(h.undo_stack) /\ Apart(h.redo_stack)
  /\ \A e \in Effects(h.undo_stack) :
       e \in EditStamps(os) /\ e[2] = r /\ ~is_undone(UndosOf(os), e)
  /\ \A e \in Effects(h.redo_stack) :
       e \in EditStamps(os) /\ e[2] = r /\ is_undone(UndosOf(os), e)

\* The condition under which a replica makes the operation n (Grow).
NewOp(os, n) ==
  /\ OpType(n) /\ Cut(os, n.version)
  /\ \A o \in os : o.timestamp[2] = n.timestamp[2] =>
       o.timestamp[1] < n.timestamp[1] /\ observed(n.version, o.timestamp)

\* Nothing is known of an operation that is new.
LEMMA NewIsFresh ==
  ASSUME NEW os, OpsOK(os), NEW n, NewOp(os, n)
  PROVE  /\ OpsOK(os \cup {n})
         /\ \A v : Cut(os, v) => /\ Cut(os \cup {n}, v) /\ ~observed(v, n.timestamp)
                                 /\ Seen(os \cup {n}, v) = Seen(os, v)
         /\ n.timestamp \notin EditStamps(os)
         /\ \A u \in UndosOf(os) : u.edit # n.timestamp
<1>1. /\ OpsOK(os \cup {n})
      /\ \A v : Cut(os, v) => Cut(os \cup {n}, v) /\ ~observed(v, n.timestamp)
  BY Grow DEF NewOp
<1>2. ASSUME NEW v, Cut(os, v) PROVE Seen(os \cup {n}, v) = Seen(os, v)
  BY <1>1, <1>2, SeenMore
<1>3. n.timestamp \notin EditStamps(os)
  <2> SUFFICES ASSUME NEW o \in os, o.timestamp = n.timestamp PROVE FALSE
    BY DEF EditStamps
  <2>1. n.timestamp[1] < n.timestamp[1] /\ n.timestamp[1] \in Nat
    BY DEF NewOp, OpType, Stamps
  <2> QED
    BY <2>1
<1>4. ASSUME NEW u \in UndosOf(os) PROVE u.edit # n.timestamp
  <2>1. PICK o \in os : observed(o.version, u.edit)
    BY UndoEntry
  <2>2. Cut(os, o.version)
    BY DEF OpsOK
  <2> QED
    BY <1>1, <2>1, <2>2
<1> QED
  BY <1>1, <1>2, <1>3, <1>4

\* The operations of other replicas leave a history alone.
LEMMA HistOther ==
  ASSUME NEW os, OpsOK(os), NEW n, NewOp(os, n), NEW r, n.timestamp[2] # r,
         NEW h, HistOK(os, r, h)
  PROVE  HistOK(os \cup {n}, r, h)
<1>1. EditStamps(os) \subseteq EditStamps(os \cup {n})
  BY DEF EditStamps
<1>2. OpsOK(os \cup {n})
  BY NewIsFresh
<1>3. ASSUME NEW e, e[2] = r PROVE is_undone(UndosOf(os \cup {n}), e) = is_undone(UndosOf(os), e)
  <2> DEFINE A == UndosOf(os)
             B == UndosOf(os \cup {n})
  <2>1. A \subseteq B
    BY DEF UndosOf
  <2>2. ASSUME NEW u \in B, u.edit = e PROVE u \in A
    <3>1. PICK o \in os \cup {n} : o.kind = "Undo" /\ u \in Entries(o)
                                   /\ u.edit[2] = o.timestamp[2]
      BY <1>2, UndoEntry
    <3>2. o \in os
      BY <1>3, <2>2, <3>1
    <3> QED
      BY <3>1, <3>2 DEF UndosOf
  <2>3. {u \in A : u.edit = e} = {u \in B : u.edit = e}
    BY <2>1, <2>2
  <2> QED
    BY <2>3 DEF is_undone, undo_count
<1> QED
  BY <1>1, <1>3, Zenon DEF HistOK

\* An edit joins the transaction that is open, or is one of its own that may be grouped
\* with those before it.
LEMMA HistEdit ==
  ASSUME NEW os, OpsOK(os), NEW n, NewOp(os, n), n.kind = "Edit", NEW r, n.timestamp[2] = r,
         NEW h, HistOK(os, r, h), NEW k \in 0 .. Len(h.undo_stack), h.depth > 0 => k = 0
  PROVE  HistOK(os \cup {n}, r, end_transaction(push_undo(start_transaction(h), n.timestamp), k))
<1> DEFINE t == n.timestamp
           a == start_transaction(h)
           b == push_undo(a, t)
           c == end_transaction(b, k)
           s == IF h.depth = 0 THEN Append(h.undo_stack, {}) ELSE h.undo_stack
           z == [s EXCEPT ![Len(s)] = @ \cup {t}]
<1>1. /\ h \in HistoryType /\ h.undo_stack \in Stacks /\ h.redo_stack \in Stacks
      /\ h.depth \in 0 .. 1 /\ h.opened \in Nat /\ t \in Stamps
  BY DEF HistOK, HistoryType, NewOp, OpType
<1>2. /\ UndosOf(os \cup {n}) = UndosOf(os)
      /\ EditStamps(os \cup {n}) = EditStamps(os) \cup {t}
  BY OneMore
<1>3. t \notin EditStamps(os) /\ ~is_undone(UndosOf(os), t)
  BY NewIsFresh, NotUndone
<1>4. s \in Stacks /\ s # <<>> /\ Apart(s) /\ Effects(s) = Effects(h.undo_stack)
      /\ Len(s) \in Nat /\ k < Len(s)
  <2>1. CASE h.depth = 0
    <3>1. s = Append(h.undo_stack, {}) /\ {} \in SUBSET Stamps
      BY <2>1
    <3>2. Apart(h.undo_stack)
      BY DEF HistOK
    <3>3. Len(s) = Len(h.undo_stack) + 1 /\ Len(h.undo_stack) \in Nat
      BY <1>1, <3>1 DEF Stacks
    <3> HIDE DEF s
    <3>4. s \in Stacks /\ s # <<>> /\ Apart(s) /\ Effects(s) = Effects(h.undo_stack)
      BY <1>1, <3>1, <3>2, StackAppend
    <3> QED
      BY <3>3, <3>4
  <2>2. CASE h.depth > 0
    <3>1. s = h.undo_stack /\ s # <<>> /\ k = 0
      BY <1>1, <2>2 DEF HistOK
    <3>2. Len(s) \in Nat /\ Len(s) > 0
      BY <1>1, <3>1 DEF Stacks
    <3> QED
      BY <1>1, <3>1, <3>2 DEF HistOK
  <2> QED
    BY <1>1, <2>1, <2>2
<1>5. /\ a.undo_stack = s /\ a.redo_stack = h.redo_stack /\ a.depth = h.depth + 1
      /\ a.opened = h.opened /\ DOMAIN a = {"undo_stack", "redo_stack", "depth", "opened"}
  BY <1>1 DEF start_transaction, HistoryType
<1> HIDE DEF a, s
<1>6. b = [a EXCEPT !.undo_stack = z]
  BY <1>5 DEF push_undo
<1> HIDE DEF b, z
<1>7. /\ b.undo_stack = z /\ b.redo_stack = h.redo_stack /\ b.depth = h.depth + 1
      /\ b.opened = h.opened /\ DOMAIN b = {"undo_stack", "redo_stack", "depth", "opened"}
  BY <1>5, <1>6
<1>8. t \notin Effects(s)
  BY <1>3, <1>4 DEF HistOK
<1>9. /\ z \in Stacks /\ Len(z) = Len(s) /\ z # <<>> /\ t \in Last(z)
      /\ Effects(z) = Effects(s) \cup {t} /\ Apart(z)
  <2>1. t \in Stamps
    BY <1>1
  <2>0. Len(s) \in DOMAIN s /\ s \in [DOMAIN s -> SUBSET Stamps]
    BY <1>4 DEF Stacks
  <2>2. /\ z \in [DOMAIN s -> SUBSET Stamps] /\ z[Len(s)] = s[Len(s)] \cup {t}
        /\ \A i \in DOMAIN s : i # Len(s) => z[i] = s[i]
    BY <2>0, <2>1 DEF z
  <2> HIDE DEF t
  <2> QED
    BY <1>4, <1>8, <2>1, <2>2, StackPush
<1>10. \A e \in Effects(z) : e \in EditStamps(os) \cup {t} /\ e[2] = r
                                /\ ~is_undone(UndosOf(os), e)
  <2>1. \A e \in Effects(h.undo_stack) : e \in EditStamps(os) /\ e[2] = r
                                            /\ ~is_undone(UndosOf(os), e)
    BY DEF HistOK
  <2> QED
    BY <1>3, <1>4, <1>9, <2>1
<1>11. /\ Apart(h.redo_stack)
       /\ \A e \in Effects(h.redo_stack) : e \in EditStamps(os) \cup {t} /\ e[2] = r
                                            /\ is_undone(UndosOf(os), e)
  <2>1. \A e \in Effects(h.redo_stack) : e \in EditStamps(os) /\ e[2] = r
                                            /\ is_undone(UndosOf(os), e)
    BY DEF HistOK
  <2> QED
    BY <2>1 DEF HistOK
<1> HIDE DEF t
<1>13. CASE h.depth = 1
  <2>1. c = [b EXCEPT !.depth = @ - 1]
    BY <1>7, <1>13 DEF end_transaction
  <2>2. /\ c.undo_stack = z /\ c.redo_stack = h.redo_stack /\ c.depth = 1
        /\ c.opened = h.opened /\ c \in HistoryType
    BY <1>1, <1>7, <1>9, <1>13, <2>1 DEF HistoryType
  <2> HIDE DEF c
  <2>3. HistOK(os \cup {n}, r, c)
    BY <1>2, <1>9, <1>10, <1>11, <2>2, Zenon DEF HistOK
  <2> QED
    BY <2>3 DEF c, t, b, a
<1>14. CASE h.depth = 0
  <2> DEFINE g == group_trailing(z, k)
             d == [b EXCEPT !.depth = @ - 1]
  <2>1. /\ d.undo_stack = z /\ d.redo_stack = h.redo_stack /\ d.depth = 0
        /\ d.opened = h.opened /\ d \in HistoryType
    BY <1>1, <1>7, <1>9, <1>14 DEF HistoryType
  <2>2. ~(d.depth > 0) /\ Last(d.undo_stack) # {}
    BY <1>9, <2>1
  <2>3. c = [d EXCEPT !.redo_stack = <<>>, !.undo_stack = g]
    BY <2>1, <2>2, Zenon DEF end_transaction
  <2>4. k \in Nat /\ k < Len(z)
    BY <1>4, <1>9
  <2> HIDE DEF g, d, c
  <2>5. g \in Stacks /\ Effects(g) \subseteq Effects(z) /\ Apart(g)
    BY <1>9, <2>4, StackGroup DEF g
  <2>6. <<>> \in Stacks /\ Effects(<<>>) = {} /\ Apart(<<>>)
    BY DEF Stacks, Effects, Apart
  <2>7. /\ c.undo_stack = g /\ c.redo_stack = <<>> /\ c.depth = 0 /\ c \in HistoryType
    BY <2>1, <2>3, <2>5, <2>6 DEF HistoryType
  <2>8. /\ \A e \in Effects(g) : e \in EditStamps(os) \cup {t} /\ e[2] = r
                                  /\ ~is_undone(UndosOf(os), e)
        /\ ~(c.depth > 0)
    BY <1>10, <2>5, <2>7
  <2>9. HistOK(os \cup {n}, r, c)
    BY <1>2, <2>5, <2>6, <2>7, <2>8 DEF HistOK
  <2> QED
    BY <2>9 DEF c, t, b, a
<1> QED
  BY <1>1, <1>13, <1>14 DEF t

\* One more undo of each edit of a transaction.
CountsOf(undos, T) == {[edit |-> e, count |-> undo_count(undos, e) + 1] : e \in T}

\* Undoing once more turns every edit of a transaction over, and no other.
LEMMA Flip ==
  ASSUME NEW os, OpsOK(os), Bounded(os), NEW n, NewOp(os, n), n.kind = "Undo",
         NEW r, n.timestamp[2] = r, NEW T, \A e \in T : e[2] = r,
         n.counts = CountsOf(UndosOf(Seen(os, n.version)), T)
  PROVE  /\ Bounded(os \cup {n})
         /\ \A e \in T : is_undone(UndosOf(os \cup {n}), e) <=> ~is_undone(UndosOf(os), e)
         /\ \A e : e \notin T => is_undone(UndosOf(os \cup {n}), e) = is_undone(UndosOf(os), e)
<1> DEFINE A == UndosOf(os)
           B == UndosOf(os \cup {n})
           t == n.timestamp
           old(e) == undo_count(A, e)
           new(e) == [edit |-> e, undo |-> t, count |-> old(e) + 1]
<1>1. B = A \cup Entries(n)
  BY OneMore
<1>2. \A o \in os : o.timestamp[2] = r => observed(n.version, o.timestamp)
  BY DEF NewOp
<1>3. \A e \in T : undo_count(UndosOf(Seen(os, n.version)), e) = old(e)
  BY <1>2, OwnUndos
<1>4. n.counts = {[edit |-> e, count |-> old(e) + 1] : e \in T}
  BY <1>3 DEF CountsOf
<1> HIDE DEF old
<1>5. Entries(n) = {new(e) : e \in T}
  <2>1. ASSUME NEW c \in n.counts
        PROVE  \E e \in T : [edit |-> c.edit, undo |-> t, count |-> c.count] = new(e)
    <3>1. PICK e \in T : c = [edit |-> e, count |-> old(e) + 1]
      BY <1>4
    <3>2. c.edit = e /\ c.count = old(e) + 1
      BY <3>1
    <3> QED
      BY <3>2
  <2>2. ASSUME NEW e \in T
        PROVE  \E c \in n.counts : [edit |-> c.edit, undo |-> t, count |-> c.count] = new(e)
    <3> DEFINE c == [edit |-> e, count |-> old(e) + 1]
    <3>1. c \in n.counts
      BY <1>4
    <3>2. c.edit = e /\ c.count = old(e) + 1
      OBVIOUS
    <3> QED
      BY <3>1, <3>2
  <2> HIDE DEF new
  <2> QED
    BY <2>1, <2>2 DEF Entries
<1>6. PICK m \in Nat : \A u \in A : u.count <= m
  BY DEF Bounded
<1>7. \A u \in A : u.count \in Nat
  BY UndoEntry
<1> HIDE DEF A, B
<1>8. ASSUME NEW e PROVE old(e) \in 0 .. m /\ \A u \in A : u.edit = e => u.count <= old(e)
  <2> DEFINE U == {u \in A : u.edit = e}
  <2>1. \A u \in U : u.count \in Nat /\ u.count <= m
    BY <1>6, <1>7
  <2>2. MaxCount(U) \in 0 .. m /\ \A u \in U : u.count <= MaxCount(U)
    BY <2>1, CountIs
  <2> QED
    BY <2>2 DEF undo_count, old
<1>9. ASSUME NEW e \in T PROVE undo_count(B, e) = old(e) + 1
  <2> DEFINE U == {u \in B : u.edit = e}
  <2>1. \A u \in U : (u \in A /\ u.edit = e) \/ u = new(e)
    BY <1>1, <1>5
  <2>2. new(e) \in U /\ new(e).count = old(e) + 1
    BY <1>1, <1>5
  <2>3. old(e) \in Nat /\ old(e) + 1 \in Nat
    BY <1>8
  <2>4. \A u \in U : u.count \in Nat /\ u.count <= old(e) + 1
    <3> SUFFICES ASSUME NEW u \in U PROVE u.count \in Nat /\ u.count <= old(e) + 1
      OBVIOUS
    <3>1. CASE u \in A /\ u.edit = e
      <4>1. u.count <= old(e) /\ u.count \in Nat
        BY <1>7, <1>8, <3>1
      <4> QED
        BY <2>3, <4>1
    <3>2. CASE u = new(e)
      BY <2>2, <2>3, <3>2
    <3> QED
      BY <2>1, <3>1, <3>2
  <2> HIDE DEF U
  <2>5. MaxCount(U) \in 0 .. old(e) + 1 /\ \A u \in U : u.count <= MaxCount(U)
    BY <2>3, <2>4, CountIs
  <2>6. old(e) + 1 <= MaxCount(U)
    BY <2>2, <2>5
  <2>7. MaxCount(U) = old(e) + 1
    BY <2>3, <2>5, <2>6
  <2> QED
    BY <2>7 DEF undo_count, U
<1>10. ASSUME NEW e \in T PROVE is_undone(B, e) <=> ~is_undone(A, e)
  <2>1. old(e) \in Nat
    BY <1>8
  <2>2. (old(e) + 1) % 2 = 1 <=> ~(old(e) % 2 = 1)
    BY <2>1
  <2> QED
    BY <1>9, <2>2 DEF is_undone, old
<1>11. ASSUME NEW e, e \notin T PROVE is_undone(B, e) = is_undone(A, e)
  <2>1. {u \in B : u.edit = e} = {u \in A : u.edit = e}
    BY <1>1, <1>5, <1>11
  <2> QED
    BY <2>1 DEF is_undone, undo_count
<1>12. Bounded(os \cup {n})
  <2>1. \A u \in B : u.count <= m + 1
    <3> SUFFICES ASSUME NEW u \in B PROVE u.count <= m + 1
      OBVIOUS
    <3>1. CASE u \in A
      BY <1>6, <1>7, <3>1
    <3>2. CASE \E e \in T : u = new(e)
      <4>1. PICK e \in T : u = new(e)
        BY <3>2
      <4>2. u.count = old(e) + 1
        BY <4>1
      <4> QED
        BY <1>8, <4>2
    <3> QED
      BY <1>1, <1>5, <3>1, <3>2
  <2>2. m + 1 \in Nat
    OBVIOUS
  <2> QED
    BY <2>1, <2>2 DEF Bounded, B
<1> QED
  BY <1>10, <1>11, <1>12 DEF A, B

\* A transaction is undone and goes to the redo stack.
LEMMA HistUndo ==
  ASSUME NEW os, OpsOK(os), Bounded(os), NEW n, NewOp(os, n), n.kind = "Undo",
         NEW r, n.timestamp[2] = r, NEW h, HistOK(os, r, h),
         NEW i \in DOMAIN h.undo_stack, h.depth = 0,
         n.counts = CountsOf(UndosOf(Seen(os, n.version)), h.undo_stack[i])
  PROVE  /\ Bounded(os \cup {n})
         /\ HistOK(os \cup {n}, r, [h EXCEPT !.undo_stack = RemoveAt(@, i),
                                             !.redo_stack = Append(@, h.undo_stack[i])])
<1> DEFINE T == h.undo_stack[i]
           s == RemoveAt(h.undo_stack, i)
           z == Append(h.redo_stack, T)
           c == [h EXCEPT !.undo_stack = s, !.redo_stack = z]
           Is(e) == is_undone(UndosOf(os), e)
           Now(e) == is_undone(UndosOf(os \cup {n}), e)
           Mine(e) == e \in EditStamps(os) /\ e[2] = r
<1>1. h \in HistoryType /\ h.undo_stack \in Stacks /\ h.redo_stack \in Stacks
  BY DEF HistOK, HistoryType
<1>2. /\ Apart(h.undo_stack) /\ Apart(h.redo_stack)
      /\ \A e \in Effects(h.undo_stack) : Mine(e) /\ ~Is(e)
      /\ \A e \in Effects(h.redo_stack) : Mine(e) /\ Is(e)
  BY DEF HistOK
<1>3. T \in SUBSET Stamps /\ T \subseteq Effects(h.undo_stack)
  BY <1>1 DEF Stacks, Effects
<1>4. EditStamps(os \cup {n}) = EditStamps(os)
  BY OneMore
<1>5. \A e \in T : e[2] = r
  BY <1>2, <1>3
<1> HIDE DEF T
<1>6. /\ Bounded(os \cup {n})
      /\ \A e \in T : Now(e) <=> ~Is(e)
      /\ \A e : e \notin T => Now(e) = Is(e)
  <2>1. n.counts = CountsOf(UndosOf(Seen(os, n.version)), T)
    BY DEF T
  <2> QED
    BY <1>5, <2>1, Flip
<1>7. /\ s \in Stacks /\ Effects(s) \subseteq Effects(h.undo_stack) /\ Apart(s)
      /\ T \cap Effects(s) = {}
  BY <1>1, <1>2, StackRemove DEF T
<1>8. T \cap Effects(h.redo_stack) = {}
  BY <1>2, <1>3
<1>9. z \in Stacks /\ Effects(z) = Effects(h.redo_stack) \cup T /\ Apart(z)
  BY <1>1, <1>2, <1>3, <1>8, StackAppend
<1> HIDE DEF s, z, Is, Now
<1>10. /\ c \in HistoryType /\ c.undo_stack = s /\ c.redo_stack = z /\ ~(c.depth > 0)
  <2>1. /\ c \in HistoryType /\ c.undo_stack = s /\ c.redo_stack = z /\ c.depth = h.depth
    BY <1>1, <1>7, <1>9 DEF HistoryType
  <2> QED
    BY <2>1
<1>11. \A e \in Effects(s) : Mine(e) /\ ~Now(e)
  BY <1>2, <1>6, <1>7
<1>12. \A e \in Effects(z) : Mine(e) /\ Now(e)
  BY <1>2, <1>3, <1>6, <1>8, <1>9
<1> HIDE DEF c
<1>13. HistOK(os \cup {n}, r, c)
  BY <1>4, <1>7, <1>9, <1>10, <1>11, <1>12, Zenon DEF HistOK, Now
<1> QED
  BY <1>6, <1>13, Zenon DEF c, s, z, T

\* The last transaction of the redo stack is redone and goes back to the undo stack.
LEMMA HistRedo ==
  ASSUME NEW os, OpsOK(os), Bounded(os), NEW n, NewOp(os, n), n.kind = "Undo",
         NEW r, n.timestamp[2] = r, NEW h, HistOK(os, r, h),
         h.redo_stack # <<>>, h.depth = 0,
         n.counts = CountsOf(UndosOf(Seen(os, n.version)), Last(h.redo_stack))
  PROVE  /\ Bounded(os \cup {n})
         /\ HistOK(os \cup {n}, r, [h EXCEPT !.redo_stack = Front(@),
                                             !.undo_stack = Append(@, Last(h.redo_stack))])
<1> DEFINE T == Last(h.redo_stack)
           s == Front(h.redo_stack)
           z == Append(h.undo_stack, T)
           c == [h EXCEPT !.redo_stack = s, !.undo_stack = z]
           Is(e) == is_undone(UndosOf(os), e)
           Now(e) == is_undone(UndosOf(os \cup {n}), e)
           Mine(e) == e \in EditStamps(os) /\ e[2] = r
<1>1. h \in HistoryType /\ h.undo_stack \in Stacks /\ h.redo_stack \in Stacks
  BY DEF HistOK, HistoryType
<1>2. /\ Apart(h.undo_stack) /\ Apart(h.redo_stack)
      /\ \A e \in Effects(h.undo_stack) : Mine(e) /\ ~Is(e)
      /\ \A e \in Effects(h.redo_stack) : Mine(e) /\ Is(e)
  BY DEF HistOK
<1>3. /\ T \in SUBSET Stamps /\ T \subseteq Effects(h.redo_stack)
      /\ s \in Stacks /\ Effects(s) \subseteq Effects(h.redo_stack) /\ Apart(s)
      /\ T \cap Effects(s) = {}
  BY <1>1, <1>2, StackFront
<1>4. EditStamps(os \cup {n}) = EditStamps(os)
  BY OneMore
<1>5. \A e \in T : e[2] = r
  BY <1>2, <1>3
<1> HIDE DEF T
<1>6. /\ Bounded(os \cup {n})
      /\ \A e \in T : Now(e) <=> ~Is(e)
      /\ \A e : e \notin T => Now(e) = Is(e)
  <2>1. n.counts = CountsOf(UndosOf(Seen(os, n.version)), T)
    BY DEF T
  <2> QED
    BY <1>5, <2>1, Flip
<1>8. T \cap Effects(h.undo_stack) = {}
  BY <1>2, <1>3
<1>9. z \in Stacks /\ Effects(z) = Effects(h.undo_stack) \cup T /\ Apart(z)
  BY <1>1, <1>2, <1>3, <1>8, StackAppend
<1> HIDE DEF s, z, Is, Now
<1>10. /\ c \in HistoryType /\ c.undo_stack = z /\ c.redo_stack = s /\ ~(c.depth > 0)
  <2>1. /\ c \in HistoryType /\ c.undo_stack = z /\ c.redo_stack = s /\ c.depth = h.depth
    BY <1>1, <1>3, <1>9 DEF HistoryType
  <2> QED
    BY <2>1
<1>11. \A e \in Effects(s) : Mine(e) /\ Now(e)
  BY <1>2, <1>3, <1>6
<1>12. \A e \in Effects(z) : Mine(e) /\ ~Now(e)
  BY <1>2, <1>3, <1>6, <1>8, <1>9
<1> HIDE DEF c
<1>13. HistOK(os \cup {n}, r, c)
  BY <1>3, <1>4, <1>9, <1>10, <1>11, <1>12, Zenon DEF HistOK, Now
<1> QED
  BY <1>6, <1>13, Zenon DEF c, s, z, T

\* A transaction is opened.
LEMMA HistStart ==
  ASSUME NEW os, NEW r, NEW h, HistOK(os, r, h), h.depth = 0
  PROVE  HistOK(os, r, [start_transaction(h) EXCEPT !.opened = @ + 1])
<1> DEFINE a == start_transaction(h)
           s == Append(h.undo_stack, {})
           c == [a EXCEPT !.opened = @ + 1]
<1>1. h \in HistoryType /\ h.undo_stack \in Stacks /\ h.redo_stack \in Stacks
  BY DEF HistOK, HistoryType
<1>2. s \in Stacks /\ s # <<>> /\ Apart(s) /\ Effects(s) = Effects(h.undo_stack)
  <2>1. {} \in SUBSET Stamps /\ Apart(h.undo_stack)
    BY DEF HistOK
  <2> QED
    BY <1>1, <2>1, StackAppend
<1>3. a = [h EXCEPT !.undo_stack = s, !.depth = @ + 1]
  BY DEF start_transaction
<1> HIDE DEF s, a
<1>4. a \in HistoryType /\ a.undo_stack = s /\ a.redo_stack = h.redo_stack /\ a.depth = 1
  <2>1. h.depth + 1 = 1 /\ 1 \in 0 .. 1
    OBVIOUS
  <2>2. a = [h EXCEPT !.undo_stack = s, !.depth = 1]
    BY <1>3, <2>1
  <2> QED
    BY <1>1, <1>2, <2>1, <2>2 DEF HistoryType
<1>5. c \in HistoryType /\ c.undo_stack = s /\ c.redo_stack = h.redo_stack
  BY <1>4 DEF HistoryType
<1> HIDE DEF c
<1>6. HistOK(os, r, c)
  BY <1>2, <1>5, Zenon DEF HistOK
<1> QED
  BY <1>6 DEF c, a

\* A transaction is closed: dropped when it is empty, else perhaps grouped.
LEMMA HistEnd ==
  ASSUME NEW os, NEW r, NEW h, HistOK(os, r, h), h.depth > 0,
         NEW k \in 0 .. Len(h.undo_stack) - 1
  PROVE  HistOK(os, r, end_transaction(h, k))
<1> DEFINE d == [h EXCEPT !.depth = @ - 1]
           c == end_transaction(h, k)
           s == h.undo_stack
           Mine(e) == e \in EditStamps(os) /\ e[2] = r
           Is(e) == is_undone(UndosOf(os), e)
<1>1. h \in HistoryType /\ s \in Stacks /\ h.redo_stack \in Stacks /\ s # <<>>
  BY DEF HistOK, HistoryType
<1>2. /\ Apart(s) /\ Apart(h.redo_stack)
      /\ \A e \in Effects(s) : Mine(e) /\ ~Is(e)
      /\ \A e \in Effects(h.redo_stack) : Mine(e) /\ Is(e)
  BY DEF HistOK
<1>3. /\ d \in HistoryType /\ d.undo_stack = s /\ d.redo_stack = h.redo_stack
      /\ d.depth = 0
  BY <1>1 DEF HistoryType
<1>4. ~(d.depth > 0)
  BY <1>3
<1>5. CASE Last(s) = {}
  <2> DEFINE f == Front(s)
  <2>1. Last(d.undo_stack) = {}
    BY <1>3, <1>5
  <2>2. c = [d EXCEPT !.undo_stack = f]
    BY <1>3, <1>4, <2>1, Zenon DEF end_transaction
  <2>3. f \in Stacks /\ Effects(f) \subseteq Effects(s) /\ Apart(f)
    BY <1>1, <1>2, StackFront
  <2> HIDE DEF f, c, d
  <2>4. /\ c \in HistoryType /\ c.undo_stack = f /\ c.redo_stack = h.redo_stack
        /\ ~(c.depth > 0)
    BY <1>3, <2>2, <2>3 DEF HistoryType
  <2>5. \A e \in Effects(f) : Mine(e) /\ ~Is(e)
    BY <1>2, <2>3
  <2>6. HistOK(os, r, c)
    BY <1>2, <2>3, <2>4, <2>5, Zenon DEF HistOK
  <2> QED
    BY <2>6 DEF c
<1>6. CASE Last(s) # {}
  <2> DEFINE g == group_trailing(s, k)
  <2>1. Last(d.undo_stack) # {}
    BY <1>3, <1>6
  <2>2. c = [d EXCEPT !.redo_stack = <<>>, !.undo_stack = g]
    BY <1>3, <1>4, <2>1, Zenon DEF end_transaction
  <2>3. Len(s) \in Nat
    BY <1>1 DEF Stacks
  <2>4. k \in Nat /\ k < Len(s)
    BY <2>3
  <2>5. g \in Stacks /\ Effects(g) \subseteq Effects(s) /\ Apart(g)
    BY <1>1, <1>2, <2>4, StackGroup
  <2>6. <<>> \in Stacks /\ Effects(<<>>) = {} /\ Apart(<<>>)
    BY DEF Stacks, Effects, Apart
  <2> HIDE DEF g, c, d
  <2>7. /\ c \in HistoryType /\ c.undo_stack = g /\ c.redo_stack = <<>> /\ ~(c.depth > 0)
    <3>1. /\ c \in HistoryType /\ c.undo_stack = g /\ c.redo_stack = <<>> /\ c.depth = d.depth
      BY <1>3, <2>2, <2>5, <2>6 DEF HistoryType
    <3> QED
      BY <1>4, <3>1
  <2>8. \A e \in Effects(g) : Mine(e) /\ ~Is(e)
    BY <1>2, <2>5
  <2>9. HistOK(os, r, c)
    BY <2>5, <2>6, <2>7, <2>8 DEF HistOK
  <2> QED
    BY <2>9 DEF c
<1> QED
  BY <1>5, <1>6

-----------------------------------------------------------------------------
(* What a replica does by itself *)

\* A new operation leaves the buffers that do not have it as they were.
LEMMA BufGrow ==
  ASSUME NEW os, OpsOK(os), NEW n, NewOp(os, n), NEW b, BufOK(os, b)
  PROVE  BufOK(os \cup {n}, b)
<1>1. b \in BufType(os \cup {n})
  BY DEF BufOK, BufType
<1>2. Cut(os, b.version)
  BY DEF BufOK
<1>3. Cut(os \cup {n}, b.version) /\ Seen(os \cup {n}, b.version) = Seen(os, b.version)
  BY <1>2, NewIsFresh
<1>4. b.edits \subseteq {o.timestamp : o \in os \cup {n}}
  BY DEF BufOK
<1> QED
  BY <1>1, <1>3, <1>4, Zenon DEF BufOK

\* A replica makes an operation n and applies it at once.
LEMMA LocalOK ==
  ASSUME NEW os, OpsOK(os), NEW n, NewOp(os, n), NEW b, BufOK(os, b), n.version = b.version,
         NEW fs, NEW undos,
         \/ /\ n.kind = "Undo" /\ undos = UndoMapInsert(b.undos, n)
            /\ fs = apply_undo(b.fragments, undos, n)
         \/ /\ n.kind = "Edit" /\ undos = b.undos
            /\ \E ranges \in Seq(RangeType) :
                 /\ NewText(ranges) = NewText(n.ranges)
                 /\ \E gaps \in [DOMAIN ranges -> 0 .. Len(b.fragments)] : \E dels :
                      fs = Spliced(b.fragments, n.timestamp, ranges, gaps, dels),
         NEW c, c = [fragments |-> fs, version |-> observe(b.version, n.timestamp),
                     clock |-> n.timestamp[1] + 1, undos |-> undos, deferred |-> b.deferred,
                     late |-> b.late, edits |-> b.edits, versions |-> b.versions]
  PROVE  BufOK(os \cup {n}, c)
<1> DEFINE on == os \cup {n}
           t == n.timestamp
           v == observe(b.version, t)
           S == Seen(on, b.version)
<1>1. OpsOK(on) /\ BufOK(on, b) /\ Cut(os, b.version) /\ n \in on
  <2>1. BufOK(on, b)
    BY BufGrow
  <2>2. OpsOK(on)
    BY NewIsFresh
  <2> QED
    BY <2>1, <2>2 DEF BufOK
<1>2. Cut(on, b.version) /\ ~observed(b.version, t)
  BY <1>1, NewIsFresh
<1>3. /\ OpType(n) /\ t \in Stamps /\ t[1] \in Nat /\ t[1] > 1
      /\ \A q \in Replicas : b.version[q] < t[1]
  BY DEF NewOp, OpType, Stamps
<1>4. /\ b \in BufType(on) /\ b.version \in Versions /\ b.fragments \in Seq(FragmentType)
  BY <1>1 DEF BufOK, BufType
<1> HIDE DEF on
<1>5. observed_all(b.version, n.version)
  BY <1>4 DEF observed_all, Versions
<1>6. Cut(on, v) /\ Seen(on, v) = S \cup {n}
  <2>1. /\ Cut(on, v)
        /\ \A p \in on : observed(v, p.timestamp) <=> observed(b.version, p.timestamp) \/ p = n
    BY <1>1, <1>2, <1>5, ObserveOne
  <2> HIDE DEF v
  <2>2. Seen(on, v) = S \cup {n}
    BY <1>1, <2>1 DEF Seen
  <2> QED
    BY <2>1, <2>2
<1>7. \A q \in Replicas : v[q] < t[1] + 1
  <2>1. \A q \in Replicas : v[q] = IF q = t[2] /\ b.version[q] < t[1] THEN t[1] ELSE b.version[q]
    BY <1>3, <1>4, ObserveIs
  <2>2. \A q \in Replicas : b.version[q] \in Nat
    BY <1>4 DEF Versions
  <2> HIDE DEF v, t
  <2> QED
    BY <1>3, <2>1, <2>2
<1>8. TextOK(S, b.fragments, b.undos) /\ b.undos = UndosOf(S)
  BY <1>1 DEF BufOK
<1> HIDE DEF S, v
<1>9. undos = UndosOf(S \cup {n}) /\ TextOK(S \cup {n}, fs, undos)
  <2>1. CASE n.kind = "Undo"
    <3>1. undos = UndoMapInsert(b.undos, n) /\ fs = apply_undo(b.fragments, undos, n)
      BY <2>1
    <3>2. UndosOf(S \cup {n}) = UndosOf(S) \cup Entries(n)
      BY <2>1, OneMore
    <3>3. undos = b.undos \cup Entries(n) /\ TextOK(S \cup {n}, fs, undos)
      BY <1>8, <2>1, <3>1, UndoText
    <3> QED
      BY <1>8, <3>2, <3>3
  <2>2. CASE n.kind = "Edit"
    <3>1. undos = b.undos
      BY <2>2
    <3>2. PICK ranges \in Seq(RangeType) :
            /\ NewText(ranges) = NewText(n.ranges)
            /\ \E gaps \in [DOMAIN ranges -> 0 .. Len(b.fragments)] : \E dels :
                 fs = Spliced(b.fragments, n.timestamp, ranges, gaps, dels)
      BY <2>2
    <3>g. PICK gaps \in [DOMAIN ranges -> 0 .. Len(b.fragments)] :
            \E dels : fs = Spliced(b.fragments, n.timestamp, ranges, gaps, dels)
      BY <3>2
    <3>3. PICK dels : fs = Spliced(b.fragments, n.timestamp, ranges, gaps, dels)
      BY <3>g
    <3>4. UndosOf(S \cup {n}) = UndosOf(S)
      BY <2>2, OneMore
    <3>5. /\ \A x \in Known(S) : x[1] # t
          /\ \A u \in b.undos : u.edit # t
      BY <1>1, <1>2, <1>3, <1>8, Fresh DEF S
    <3>6. n.ranges \in Seq(RangeType)
      BY <1>3, <2>2 DEF OpType
    <3>7. TextOK(S \cup {n}, fs, b.undos)
      BY <1>3, <1>8, <2>2, <3>2, <3>3, <3>5, <3>6, EditText
    <3> QED
      BY <1>8, <3>1, <3>4, <3>7
  <2> QED
    BY <2>1, <2>2
<1>10. undos \in SUBSET UndoType
  <2> SUFFICES ASSUME NEW u \in undos PROVE u \in UndoType
    OBVIOUS
  <2>1. CASE u \in b.undos
    BY <1>4, <2>1 DEF BufType
  <2>2. CASE u \in Entries(n) /\ n.kind = "Undo"
    <3>1. \A x \in n.counts : x.edit \in Stamps /\ x.count \in Nat
      BY <1>3, <2>2 DEF OpType
    <3> QED
      BY <1>3, <2>2, <3>1 DEF Entries, UndoType
  <2> QED
    BY <2>1, <2>2 DEF UndoMapInsert, Entries
<1>11. /\ c.fragments = fs /\ c.version = v /\ c.clock = t[1] + 1 /\ c.undos = undos
       /\ c.deferred = b.deferred /\ c.late = b.late /\ c.edits = b.edits
  BY DEF v
<1>12. c \in BufType(on)
  <2>1. v \in Versions /\ fs \in Seq(FragmentType) /\ t[1] + 1 \in Nat
    BY <1>3, <1>6, <1>9 DEF Cut, TextOK
  <2>2. /\ b.deferred \in SUBSET on /\ b.late \in SUBSET Replicas /\ b.edits \in SUBSET Stamps
        /\ b.versions \in SUBSET Versions
    BY <1>4 DEF BufType
  <2>3. c = [fragments |-> fs, version |-> v, clock |-> t[1] + 1, undos |-> undos,
             deferred |-> b.deferred, late |-> b.late, edits |-> b.edits,
             versions |-> b.versions]
    BY DEF v
  <2> HIDE DEF t
  <2> QED
    BY <1>10, <2>1, <2>2, <2>3 DEF BufType
<1>13. /\ b.late = {d.timestamp[2] : d \in b.deferred}
       /\ b.edits \subseteq {o.timestamp : o \in on}
  BY <1>1 DEF BufOK
<1> HIDE DEF t
<1>14. BufOK(on, c)
  BY <1>6, <1>7, <1>9, <1>11, <1>12, <1>13 DEF BufOK
<1> QED
  BY <1>14 DEF on

\* What waits at a replica does not wait for what the replica has just made.
LEMMA LocalUnmet ==
  ASSUME NEW os, OpsOK(os), NEW v, Cut(os, v), NEW t \in Stamps,
         \A o \in os : o.timestamp[2] = t[2] => observed(v, o.timestamp),
         NEW d \in os, ~observed_all(v, d.version)
  PROVE  ~observed_all(observe(v, t), d.version)
<1>1. /\ v \in Versions /\ d.version \in Versions /\ Cut(os, d.version)
      /\ t[1] \in Nat /\ t[2] \in Replicas
  BY DEF Cut, OpsOK, OpType, Stamps
<1>2. \A q \in Replicas : observe(v, t)[q] = IF q = t[2] /\ v[q] < t[1] THEN t[1] ELSE v[q]
  BY <1>1, ObserveIs
<1>3. PICK q \in Replicas : ~(v[q] >= d.version[q])
  BY DEF observed_all
<1>4. v[q] \in Nat /\ d.version[q] \in Nat
  BY <1>1 DEF Versions
<1>5. q # t[2]
  <2> SUFFICES ASSUME q = t[2] PROVE FALSE
    OBVIOUS
  <2>1. v[q] >= BaseVersion[q] /\ BaseVersion[q] \in Nat
    BY DEF Cut, BaseVersion
  <2>2. d.version[q] # BaseVersion[q]
    BY <1>3, <2>1
  <2>3. PICK x \in os : x.timestamp = <<d.version[q], q>>
    BY <1>1, <2>2 DEF Cut
  <2>4. x.timestamp[1] = d.version[q] /\ x.timestamp[2] = q
    BY <2>3
  <2>5. observed(v, x.timestamp)
    BY <2>4
  <2> QED
    BY <1>3, <2>4, <2>5 DEF observed
<1>6. observe(v, t)[q] = v[q]
  BY <1>2, <1>5
<1> QED
  BY <1>3, <1>6 DEF observed_all

-----------------------------------------------------------------------------
(* The invariant *)

WaitType == [edits : SUBSET Stamps, versions : SUBSET Versions]

Shape ==
  /\ fragments \in [Replicas -> Seq(FragmentType)]
  /\ version \in [Replicas -> Versions]
  /\ lamport_clock \in [Replicas -> Nat]
  /\ undo_map \in [Replicas -> SUBSET UndoType]
  /\ deferred_ops \in [Replicas -> SUBSET ops]
  /\ deferred_replicas \in [Replicas -> SUBSET Replicas]
  /\ history \in [Replicas -> HistoryType]
  /\ waits \in [Replicas -> WaitType]
  /\ delivered \in [Replicas -> SUBSET ops]

QueueOK(r) ==
  /\ \A o \in delivered[r] : observed(version[r], o.timestamp) \/ o \in deferred_ops[r]
  /\ \A o \in deferred_ops[r] : ~observed_all(version[r], o.version)

\* Timestamp 1 is kept for the text a replica starts with.
ClockOK(r) ==
  /\ lamport_clock[r] >= 1
  /\ history[r].undo_stack # <<>> \/ history[r].redo_stack # <<>> => lamport_clock[r] >= 2

\* A replica has applied what it made.
Own == \A o \in ops : observed(version[o.timestamp[2]], o.timestamp)

IInv ==
  /\ Shape
  /\ OpsOK(ops) /\ Bounded(ops) /\ Own
  /\ \A r \in Replicas :
       BufOK(ops, Buffer(r)) /\ HistOK(ops, r, history[r]) /\ QueueOK(r) /\ ClockOK(r)

\* The operation a replica makes next.
LEMMA NewOpOK ==
  ASSUME IInv, NEW r \in Replicas, NEW n, NEW value \in Nat, n.timestamp = <<value, r>>,
         value >= lamport_clock[r], value > 1, n.version = version[r],
         \/ n.kind = "Edit" /\ n.ranges \in Seq(RangeType)
         \/ /\ n.kind = "Undo"
            /\ \A c \in n.counts : /\ c.edit \in EditStamps(ops) /\ c.count \in Nat
                                   /\ c.edit[2] = r
  PROVE  NewOp(ops, n)
<1>1. /\ BufOK(ops, Buffer(r)) /\ OpsOK(ops) /\ version[r] \in Versions
      /\ lamport_clock[r] \in Nat
  BY DEF IInv, Shape
<1>2. /\ Buffer(r).version = version[r] /\ Buffer(r).clock = lamport_clock[r]
  BY DEF Buffer
<1>3. Cut(ops, version[r]) /\ \A q \in Replicas : version[r][q] < lamport_clock[r]
  BY <1>1, <1>2 DEF BufOK
<1>4. \A q \in Replicas : version[r][q] < value /\ version[r][q] \in Nat
  BY <1>1, <1>3 DEF Versions
<1>5. n.timestamp \in Stamps /\ n.timestamp[1] = value /\ n.timestamp[2] = r
  BY DEF Stamps
<1>6. \A o \in ops : o.timestamp \in Stamps /\ o.timestamp[1] \in Nat
  BY <1>1 DEF OpsOK, OpType, Stamps
<1>7. ASSUME NEW o \in ops, o.timestamp[2] = r
      PROVE  o.timestamp[1] < value /\ observed(version[r], o.timestamp)
  <2>1. observed(version[r], o.timestamp)
    BY <1>7 DEF IInv, Own
  <2>2. version[r][r] >= o.timestamp[1]
    BY <1>7, <2>1 DEF observed
  <2> QED
    BY <1>4, <1>6, <2>1, <2>2
<1>8. ASSUME n.kind = "Undo", NEW c \in n.counts
      PROVE  c.edit \in Stamps /\ observed(n.version, c.edit)
  <2>1. PICK o \in ops : o.timestamp = c.edit
    BY <1>8 DEF EditStamps
  <2> QED
    BY <1>6, <1>7, <1>8, <2>1
<1>9. OpType(n)
  BY <1>1, <1>4, <1>5, <1>8 DEF OpType
<1> QED
  BY <1>3, <1>5, <1>7, <1>9 DEF NewOp

\* A replica makes an operation and nothing else of the state changes.
LEMMA MakesOK ==
  ASSUME IInv, NEW r \in Replicas, NEW n, NewOp(ops, n), n.timestamp[2] = r,
         n.version = version[r], n.timestamp[1] >= 2,
         ops' = ops \cup {n}, Shape', Bounded(ops'),
         version'[r] = observe(version[r], n.timestamp),
         lamport_clock'[r] = n.timestamp[1] + 1,
         BufOK(ops', Buffer(r)'), HistOK(ops', r, history'[r]),
         \A q \in Replicas : q # r => /\ Buffer(q)' = Buffer(q) /\ history'[q] = history[q]
                                      /\ version'[q] = version[q]
                                      /\ lamport_clock'[q] = lamport_clock[q],
         UNCHANGED <<deferred_ops, delivered>>
  PROVE  IInv'
<1> DEFINE t == n.timestamp
<1>1. /\ Shape /\ OpsOK(ops) /\ Bounded(ops) /\ Own /\ version \in [Replicas -> Versions]
      /\ lamport_clock \in [Replicas -> Nat] /\ version[r] \in Versions
  BY DEF IInv, Shape
<1>2. OpsOK(ops')
  BY <1>1, NewIsFresh
<1>3. t \in Stamps /\ t[1] \in Nat /\ Cut(ops, version[r])
  BY DEF NewOp, OpType, Stamps
<1>4. ASSUME NEW q \in Replicas
      PROVE  version'[q] \in Versions /\ observed_all(version'[q], version[q])
  <2>0. version[q] \in Versions
    BY <1>1
  <2>1. CASE q = r
    <3>1. version'[q] = observe(version[r], t)
      BY <1>1, <2>1
    <3>2. /\ observe(version[r], t) \in Versions
          /\ \A s \in Replicas : observe(version[r], t)[s] =
               IF s = t[2] /\ version[r][s] < t[1] THEN t[1] ELSE version[r][s]
      BY <1>1, <1>3, ObserveIs
    <3>3. \A s \in Replicas : version[r][s] \in Nat
      BY <1>1 DEF Versions
    <3> QED
      BY <1>3, <2>1, <3>1, <3>2, <3>3 DEF observed_all
  <2>2. CASE q # r
    <3>1. version'[q] = version[q]
      BY <1>1, <2>2
    <3> QED
      BY <2>0, <3>1 DEF observed_all, Versions
  <2> QED
    BY <2>1, <2>2
<1>5. version'[r] = observe(version[r], t)
  BY <1>1
<1>6. Own'
  <2> SUFFICES ASSUME NEW o \in ops' PROVE observed(version'[o.timestamp[2]], o.timestamp)
    BY DEF Own
  <2>1. CASE o \in ops
    <3>1. o.timestamp \in Stamps /\ o.timestamp[2] \in Replicas
      BY <1>1, <2>1 DEF OpsOK, OpType, Stamps
    <3>2. observed(version[o.timestamp[2]], o.timestamp) /\ version[o.timestamp[2]] \in Versions
      BY <1>1, <2>1, <3>1 DEF Own
    <3> QED
      BY <1>4, <3>1, <3>2, ObserveMore
  <2>2. CASE o = n
    <3>1. observe(version[r], t)[r] >= t[1]
      <4>1. observe(version[r], t)[r] = IF version[r][r] < t[1] THEN t[1] ELSE version[r][r]
        BY <1>1, <1>3, ObserveIs
      <4>2. version[r][r] \in Nat
        BY <1>1 DEF Versions
      <4> QED
        BY <1>3, <4>1, <4>2
    <3> QED
      BY <1>5, <2>2, <3>1 DEF observed
  <2> QED
    BY <2>1, <2>2
<1>7. ASSUME NEW q \in Replicas
      PROVE  (BufOK(ops, Buffer(q)) /\ HistOK(ops, q, history[q]) /\ QueueOK(q) /\ ClockOK(q))'
  <2>1. BufOK(ops, Buffer(q)) /\ HistOK(ops, q, history[q]) /\ QueueOK(q) /\ ClockOK(q)
    BY DEF IInv
  <2>2. BufOK(ops', Buffer(q)')
    <3>1. CASE q # r
      <4>1. BufOK(ops \cup {n}, Buffer(q))
        BY <1>1, <2>1, BufGrow
      <4> QED
        BY <3>1, <4>1
    <3> QED
      BY <3>1
  <2>3. HistOK(ops', q, history'[q])
    <3>1. CASE q # r
      <4>1. HistOK(ops \cup {n}, q, history[q])
        BY <1>1, <2>1, <3>1, HistOther
      <4> QED
        BY <3>1, <4>1
    <3> QED
      BY <3>1
  <2>4. QueueOK(q)'
    <3>1. \A o \in ops : o.timestamp \in Stamps
      BY <1>1 DEF OpsOK, OpType
    <3>2. deferred_ops[q] \subseteq ops /\ delivered[q] \subseteq ops /\ version[q] \in Versions
      BY <1>1 DEF Shape
    <3>3. \A o \in delivered'[q] : observed(version'[q], o.timestamp) \/ o \in deferred_ops'[q]
      <4> SUFFICES ASSUME NEW o \in delivered[q]
                   PROVE  observed(version'[q], o.timestamp) \/ o \in deferred_ops[q]
        OBVIOUS
      <4>1. observed(version[q], o.timestamp) \/ o \in deferred_ops[q]
        BY <2>1 DEF QueueOK
      <4>2. observed(version[q], o.timestamp) => observed(version'[q], o.timestamp)
        BY <1>4, <3>1, <3>2, ObserveMore
      <4> QED
        BY <4>1, <4>2
    <3>4. ASSUME NEW d \in deferred_ops[q] PROVE ~observed_all(version'[q], d.version)
      <4>1. ~observed_all(version[q], d.version) /\ d \in ops
        BY <2>1, <3>2 DEF QueueOK
      <4>2. CASE q # r
        <5>1. version'[q] = version[q]
          BY <1>1, <4>2
        <5> QED
          BY <4>1, <5>1
      <4>3. CASE q = r
        <5>1. \A o \in ops : o.timestamp[2] = t[2] => observed(version[r], o.timestamp)
          BY <1>1 DEF Own
        <5>2. ~observed_all(observe(version[r], t), d.version)
          BY <1>1, <1>3, <4>1, <4>3, <5>1, LocalUnmet
        <5> QED
          BY <1>5, <4>3, <5>2
      <4> QED
        BY <4>2, <4>3
    <3> QED
      BY <3>3, <3>4 DEF QueueOK
  <2>5. ClockOK(q)'
    <3>1. CASE q = r
      <4>1. lamport_clock'[q] = t[1] + 1
        BY <1>1, <3>1
      <4> QED
        BY <1>3, <4>1 DEF ClockOK
    <3>2. CASE q # r
      <4>1. lamport_clock'[q] = lamport_clock[q] /\ history'[q] = history[q]
        BY <1>1, <3>2
      <4> QED
        BY <2>1, <4>1 DEF ClockOK
    <3> QED
      BY <3>1, <3>2
  <2> QED
    BY <2>2, <2>3, <2>4, <2>5
<1> QED
  BY <1>2, <1>6, <1>7 DEF IInv

\* The effect of undo_or_redo on everything but the history, which the caller changes.
LEMMA UndoOrRedo ==
  ASSUME IInv, NEW r \in Replicas, NEW T \in SUBSET EditStamps(ops), \A e \in T : e[2] = r,
         lamport_clock[r] >= 2, undo_or_redo(r, T), NEW h \in HistoryType,
         history' = [history EXCEPT ![r] = h],
         \A n : NewOp(ops, n) /\ n.kind = "Undo" /\ n.timestamp[2] = r /\
                n.counts = CountsOf(UndosOf(Seen(ops, n.version)), T)
                  => Bounded(ops \cup {n}) /\ HistOK(ops \cup {n}, r, h)
  PROVE  IInv'
<1> DEFINE t == <<lamport_clock[r], r>>
           n == [kind |-> "Undo", timestamp |-> t, version |-> version[r],
                 counts |-> CountsOf(undo_map[r], T)]
           undos == UndoMapInsert(undo_map[r], n)
           fs == apply_undo(fragments[r], undos, n)
<1>1. /\ lamport_clock' = [lamport_clock EXCEPT ![r] = lamport_clock[r] + 1]
      /\ version' = [version EXCEPT ![r] = observe(version[r], t)]
      /\ undo_map' = [undo_map EXCEPT ![r] = undos]
      /\ fragments' = [fragments EXCEPT ![r] = fs]
      /\ ops' = ops \cup {n}
      /\ UNCHANGED <<deferred_ops, deferred_replicas, waits, delivered>>
  BY DEF undo_or_redo, CountsOf
<1>2. /\ Shape /\ OpsOK(ops) /\ Bounded(ops) /\ Own /\ BufOK(ops, Buffer(r))
      /\ lamport_clock[r] \in Nat /\ version[r] \in Versions
  BY DEF IInv, Shape
<1>3. /\ n.kind = "Undo" /\ n.timestamp = t /\ n.version = version[r]
      /\ n.counts = CountsOf(undo_map[r], T) /\ t[1] = lamport_clock[r] /\ t[2] = r
  OBVIOUS
<1>4. /\ Buffer(r).version = version[r] /\ Buffer(r).undos = undo_map[r]
      /\ Buffer(r).fragments = fragments[r] /\ Buffer(r).deferred = deferred_ops[r]
      /\ Buffer(r).late = deferred_replicas[r] /\ Buffer(r).edits = waits[r].edits
      /\ Buffer(r).versions = waits[r].versions
  BY DEF Buffer
<1>5. undo_map[r] = UndosOf(Seen(ops, version[r]))
  BY <1>2, <1>4 DEF BufOK
<1> HIDE DEF n
<1>6. \A c \in n.counts : c.edit \in EditStamps(ops) /\ c.count \in Nat /\ c.edit[2] = r
  <2> SUFFICES ASSUME NEW e \in T PROVE undo_count(undo_map[r], e) + 1 \in Nat
    BY <1>3 DEF CountsOf
  <2>1. \A o \in ops : o.timestamp[2] = r => observed(version[r], o.timestamp)
    BY <1>2 DEF Own
  <2>2. PICK m \in Nat : \A u \in UndosOf(ops) : u.count <= m
    BY <1>2 DEF Bounded
  <2> DEFINE U == {u \in undo_map[r] : u.edit = e}
  <2>3. U \subseteq UndosOf(ops)
    BY <1>5 DEF UndosOf, Seen
  <2>4. \A u \in U : u.count \in Nat /\ u.count <= m
    BY <1>2, <2>2, <2>3, UndoEntry
  <2>5. MaxCount(U) \in 0 .. m
    BY <2>4, CountIs
  <2> QED
    BY <2>5 DEF undo_count
<1>7. NewOp(ops, n)
  <2>1. lamport_clock[r] > 1 /\ lamport_clock[r] >= lamport_clock[r]
    BY <1>2
  <2> HIDE DEF t
  <2>2. t = <<lamport_clock[r], r>>
    BY DEF t
  <2> QED
    BY <1>2, <1>3, <1>6, <2>1, <2>2, NewOpOK
<1>8. Bounded(ops') /\ HistOK(ops', r, h)
  BY <1>1, <1>3, <1>5, <1>7
<1> DEFINE c == [fragments |-> fs, version |-> observe(version[r], t),
                 clock |-> lamport_clock[r] + 1, undos |-> undos,
                 deferred |-> deferred_ops[r], late |-> deferred_replicas[r],
                 edits |-> waits[r].edits, versions |-> waits[r].versions]
<1>9. BufOK(ops', c)
  <2> DEFINE b == Buffer(r)
  <2>1. /\ n.version = b.version /\ undos = UndoMapInsert(b.undos, n)
        /\ fs = apply_undo(b.fragments, undos, n)
    BY <1>3, <1>4
  <2>2. c = [fragments |-> fs, version |-> observe(b.version, n.timestamp),
             clock |-> n.timestamp[1] + 1, undos |-> undos, deferred |-> b.deferred,
             late |-> b.late, edits |-> b.edits, versions |-> b.versions]
    BY <1>3, <1>4
  <2> HIDE DEF c, fs, undos, b
  <2>3. BufOK(ops \cup {n}, c)
    BY <1>2, <1>3, <1>7, <2>1, <2>2, LocalOK DEF b
  <2> QED
    BY <1>1, <2>3
<1> HIDE DEF fs, undos
<1>10. /\ fs \in Seq(FragmentType) /\ undos \in SUBSET UndoType
       /\ observe(version[r], t) \in Versions
  <2>1. c.fragments = fs /\ c.undos = undos /\ c.version = observe(version[r], t)
    OBVIOUS
  <2> HIDE DEF c
  <2> QED
    BY <1>9, <2>1 DEF BufOK, BufType
<1>11. Shape'
  <2>1. deferred_ops' \in [Replicas -> SUBSET ops'] /\ delivered' \in [Replicas -> SUBSET ops']
    <3>1. deferred_ops \in [Replicas -> SUBSET ops] /\ delivered \in [Replicas -> SUBSET ops]
      BY <1>2 DEF Shape
    <3> QED
      BY <1>1, <3>1
  <2>2. /\ fragments' \in [Replicas -> Seq(FragmentType)]
        /\ version' \in [Replicas -> Versions]
        /\ lamport_clock' \in [Replicas -> Nat]
        /\ undo_map' \in [Replicas -> SUBSET UndoType]
        /\ history' \in [Replicas -> HistoryType]
    BY <1>1, <1>2, <1>10 DEF Shape
  <2>3. deferred_replicas' \in [Replicas -> SUBSET Replicas] /\ waits' \in [Replicas -> WaitType]
    BY <1>1, <1>2 DEF Shape
  <2> QED
    BY <2>1, <2>2, <2>3 DEF Shape
<1>12. Buffer(r)' = c
  BY <1>1, <1>2 DEF Buffer, Shape
<1>13. \A q \in Replicas : q # r => /\ Buffer(q)' = Buffer(q) /\ history'[q] = history[q]
                                     /\ version'[q] = version[q]
                                     /\ lamport_clock'[q] = lamport_clock[q]
  BY <1>1, <1>2 DEF Buffer, Shape
<1>14. history'[r] = h
  BY <1>2 DEF Shape
<1> HIDE DEF c
<1>15. /\ n.timestamp[1] >= 2 /\ n.timestamp[2] = r
       /\ version'[r] = observe(version[r], n.timestamp)
       /\ lamport_clock'[r] = n.timestamp[1] + 1
  BY <1>1, <1>2, <1>3 DEF Shape
<1> QED
  BY <1>1, <1>3, <1>7, <1>8, <1>9, <1>11, <1>12, <1>13, <1>14, <1>15, MakesOK

\* Undoing a transaction preserves the invariant.
LEMMA UndoPreserves ==
  ASSUME IInv, NEW r \in Replicas, NEW i \in DOMAIN history[r].undo_stack,
         undo_transaction(r, i)
  PROVE  IInv'
<1> DEFINE h == history[r]
           T == h.undo_stack[i]
           g == [h EXCEPT !.undo_stack = RemoveAt(@, i), !.redo_stack = Append(@, T)]
<1>1. /\ h.depth = 0 /\ undo_or_redo(r, T) /\ history' = [history EXCEPT ![r] = g]
  BY DEF undo_transaction
<1>2. /\ OpsOK(ops) /\ Bounded(ops) /\ HistOK(ops, r, h) /\ ClockOK(r)
      /\ h \in HistoryType /\ h.undo_stack \in Stacks /\ h.redo_stack \in Stacks
  BY DEF IInv, HistOK, HistoryType
<1>3. T \in SUBSET Stamps /\ T \subseteq Effects(h.undo_stack) /\ h.undo_stack # <<>>
  BY <1>2 DEF Stacks, Effects
<1>4. T \in SUBSET EditStamps(ops) /\ \A e \in T : e[2] = r
  BY <1>2, <1>3 DEF HistOK
<1>5. lamport_clock[r] >= 2
  BY <1>2, <1>3 DEF ClockOK
<1>6. g \in HistoryType
  <2>1. RemoveAt(h.undo_stack, i) \in Stacks /\ Append(h.redo_stack, T) \in Stacks
    BY <1>2, <1>3, StackRemove, StackAppend
  <2> QED
    BY <1>2, <2>1 DEF HistoryType
<1>7. ASSUME NEW n, NewOp(ops, n), n.kind = "Undo", n.timestamp[2] = r,
             n.counts = CountsOf(UndosOf(Seen(ops, n.version)), T)
      PROVE  Bounded(ops \cup {n}) /\ HistOK(ops \cup {n}, r, g)
  BY <1>1, <1>2, <1>7, HistUndo
<1> HIDE DEF g, T
<1> QED
  BY <1>1, <1>4, <1>5, <1>6, <1>7, UndoOrRedo

\* So does redoing one.
LEMMA RedoPreserves ==
  ASSUME IInv, NEW r \in Replicas, redo(r)
  PROVE  IInv'
<1> DEFINE h == history[r]
           T == Last(h.redo_stack)
           g == [h EXCEPT !.redo_stack = Front(@), !.undo_stack = Append(@, T)]
<1>1. /\ h.depth = 0 /\ h.redo_stack # <<>> /\ undo_or_redo(r, T)
      /\ history' = [history EXCEPT ![r] = g]
  BY DEF redo
<1>2. /\ OpsOK(ops) /\ Bounded(ops) /\ HistOK(ops, r, h) /\ ClockOK(r)
      /\ h \in HistoryType /\ h.undo_stack \in Stacks /\ h.redo_stack \in Stacks
  BY DEF IInv, HistOK, HistoryType
<1>3. T \in SUBSET Stamps /\ T \subseteq Effects(h.redo_stack) /\ Front(h.redo_stack) \in Stacks
  BY <1>1, <1>2, StackFront
<1>4. T \in SUBSET EditStamps(ops) /\ \A e \in T : e[2] = r
  BY <1>2, <1>3 DEF HistOK
<1>5. lamport_clock[r] >= 2
  BY <1>1, <1>2 DEF ClockOK
<1>6. g \in HistoryType
  <2>1. Append(h.undo_stack, T) \in Stacks
    BY <1>2, <1>3, StackAppend
  <2> HIDE DEF T
  <2> QED
    BY <1>2, <1>3, <2>1 DEF HistoryType
<1>7. ASSUME NEW n, NewOp(ops, n), n.kind = "Undo", n.timestamp[2] = r,
             n.counts = CountsOf(UndosOf(Seen(ops, n.version)), T)
      PROVE  Bounded(ops \cup {n}) /\ HistOK(ops \cup {n}, r, g)
  BY <1>1, <1>2, <1>7, HistRedo
<1> HIDE DEF g, T
<1> QED
  BY <1>1, <1>4, <1>5, <1>6, <1>7, UndoOrRedo

\* What a caller may ask for are ranges.
LEMMA EditsAreRanges ==
  ASSUME NEW fs, NEW e \in Edits(fs)
  PROVE  e \in Seq(RangeType)
<1>1. PICK k \in 1 .. MaxRanges : e \in [1 .. k -> EditRange(fs)]
  BY DEF Edits
<1>2. EditRange(fs) \subseteq RangeType
  BY DEF EditRange, RangeType
<1>3. e \in [1 .. k -> RangeType] /\ k \in Nat
  BY <1>1, <1>2
<1> QED
  BY <1>3

\* The ranges of the operation an edit sends: the characters it inserts are those the
\* caller gave.
Sent(e, gaps, ends) ==
  [k \in DOMAIN e |-> [start |-> gaps[k], end |-> ends[k], len |-> e[k].len]]

\* The ranges an edit sends insert the same characters as those the caller gave.
LEMMA SentRanges ==
  ASSUME NEW e \in Seq(RangeType), NEW gaps, NEW ends,
         \A k \in DOMAIN e : gaps[k] \in Nat /\ ends[k] \in Nat
  PROVE  Sent(e, gaps, ends) \in Seq(RangeType) /\ NewText(e) = NewText(Sent(e, gaps, ends))
<1> DEFINE sent == Sent(e, gaps, ends)
<1>0. sent = [k \in DOMAIN e |-> [start |-> gaps[k], end |-> ends[k], len |-> e[k].len]]
  BY DEF Sent
<1> HIDE DEF sent
<1> DEFINE n == Len(e)
<1>1. DOMAIN e = 1 .. n /\ n \in Nat /\ \A k \in 1 .. n : e[k] \in RangeType
  OBVIOUS
<1>2. \A k \in 1 .. n : sent[k] \in RangeType /\ sent[k].len = e[k].len
  <2> SUFFICES ASSUME NEW k \in 1 .. n PROVE sent[k] \in RangeType /\ sent[k].len = e[k].len
    OBVIOUS
  <2>1. e[k].len \in Nat /\ gaps[k] \in Nat /\ ends[k] \in Nat
    BY <1>1 DEF RangeType
  <2>2. sent[k] = [start |-> gaps[k], end |-> ends[k], len |-> e[k].len]
    BY <1>0, <1>1
  <2> QED
    BY <2>1, <2>2 DEF RangeType
<1>3. DOMAIN sent = 1 .. n /\ sent = [k \in 1 .. n |-> sent[k]]
  BY <1>0, <1>1
<1>4. sent \in [1 .. n -> RangeType]
  BY <1>2, <1>3
<1>5. sent \in Seq(RangeType)
  BY <1>1, <1>4
<1>6. NewText(e) = NewText(sent)
  BY <1>1, <1>2, <1>3 DEF NewText
<1> QED
  BY <1>5, <1>6 DEF sent

\* The operation that an edit of replica r makes, and where it leaves the fragments.
EditMade(r, e, gaps, ends, dels, t, n) ==
  /\ n = [kind |-> "Edit", timestamp |-> t, version |-> version[r],
          ranges |-> Sent(e, gaps, ends)]
  /\ fragments' = [fragments EXCEPT ![r] = Spliced(fragments[r], t, e, gaps, dels)]
  /\ ops' = ops \cup {n}

\* The text a local edit deletes.
LocalDels(fs, e) ==
  {i \in DOMAIN fs : fs[i].visible /\ \E k \in DOMAIN e :
                       VisibleBefore(fs, i - 1) \in e[k].start .. e[k].end - 1}

\* An edit, taken apart.
EditParts(r, e, k, value, gaps, ends, n) ==
  /\ EditMade(r, e, gaps, ends, LocalDels(fragments[r], e), <<value, r>>, n)
  /\ \A j \in DOMAIN e :
       gaps[j] \in {RightGap(fragments[r], e[j].start), LeftGap(fragments[r], e[j].start)}
  /\ \A j \in DOMAIN e : ends[j] = Max({gaps[j]} \cup
       {i \in LocalDels(fragments[r], e) : VisibleBefore(fragments[r], i) <= e[j].end})
  /\ value > 1 /\ value >= lamport_clock[r]
  /\ history[r].depth > 0 => k = 0
  /\ lamport_clock' = [lamport_clock EXCEPT ![r] = value + 1]
  /\ version' = [version EXCEPT ![r] = observe(@, <<value, r>>)]
  /\ history' = [history EXCEPT ![r] =
       end_transaction(push_undo(start_transaction(@), <<value, r>>), k)]
  /\ UNCHANGED <<undo_map, deferred_ops, deferred_replicas, waits, delivered>>

\* Every edit of a replica has such parts.
LEMMA EditIs ==
  ASSUME IInv, NEW r \in Replicas, edit(r)
  PROVE  \E e \in Edits(fragments[r]), k \in 0 .. Len(history[r].undo_stack), value \in Nat :
           \E gaps \in [DOMAIN e -> 0 .. Len(fragments[r])], ends \in [DOMAIN e -> Nat] : \E n :
             EditParts(r, e, k, value, gaps, ends, n)
<1> DEFINE fs == fragments[r]
           value == lamport_clock[r] + (IF history[r].depth = 0 THEN 1 ELSE 0)
           t == <<value, r>>
           RangeEnd(e, j, gap) == Max({gap} \cup
              {i \in LocalDels(fs, e) : VisibleBefore(fs, i) <= e[j].end})
           Ends(e, gaps) == [j \in DOMAIN e |-> RangeEnd(e, j, gaps[j])]
           Rest(k) == /\ history[r].depth > 0 => k = 0
                      /\ lamport_clock' = [lamport_clock EXCEPT ![r] = value + 1]
                      /\ version' = [version EXCEPT ![r] = observe(@, t)]
                      /\ history' = [history EXCEPT ![r] =
                           end_transaction(push_undo(start_transaction(@), t), k)]
                      /\ UNCHANGED <<undo_map, deferred_ops, deferred_replicas, waits, delivered>>
           Gaps(e, j) == IF j = 1 THEN {RightGap(fs, e[j].start)}
                         ELSE {RightGap(fs, e[j].start), LeftGap(fs, e[j].start)}
<1>0. PICK e \in Edits(fs), k \in 0 .. Len(history[r].undo_stack) :
        \E gaps \in [DOMAIN e -> 0 .. Len(fs)] :
        /\ \A j \in DOMAIN e : gaps[j] \in Gaps(e, j)
        /\ fragments' = [fragments EXCEPT ![r] = Spliced(fs, t, e, gaps, LocalDels(fs, e))]
        /\ ops' = ops \cup
             {[kind |-> "Edit", timestamp |-> t, version |-> version[r],
               ranges |-> [j \in DOMAIN e |->
                  [start |-> gaps[j], end |-> RangeEnd(e, j, gaps[j]), len |-> e[j].len]]]}
        /\ Rest(k)
  BY Zenon DEF edit, LocalDels
<1>1. PICK gaps \in [DOMAIN e -> 0 .. Len(fs)] :
        /\ \A j \in DOMAIN e : gaps[j] \in Gaps(e, j)
        /\ fragments' = [fragments EXCEPT ![r] = Spliced(fs, t, e, gaps, LocalDels(fs, e))]
        /\ ops' = ops \cup
             {[kind |-> "Edit", timestamp |-> t, version |-> version[r],
               ranges |-> [j \in DOMAIN e |->
                  [start |-> gaps[j], end |-> RangeEnd(e, j, gaps[j]), len |-> e[j].len]]]}
        /\ Rest(k)
  BY <1>0
<1>2. /\ lamport_clock[r] \in Nat /\ history[r] \in HistoryType /\ ClockOK(r)
      /\ HistOK(ops, r, history[r]) /\ fs \in Seq(FragmentType)
  BY DEF IInv, Shape
<1>3. value \in Nat /\ value > 1 /\ value >= lamport_clock[r]
  <2>1. CASE history[r].depth = 0
    <3>1. value = lamport_clock[r] + 1
      BY <2>1
    <3> QED
      BY <1>2, <3>1 DEF ClockOK
  <2>2. CASE history[r].depth > 0
    <3>1. value = lamport_clock[r] + 0 /\ lamport_clock[r] >= 2
      BY <1>2, <2>2 DEF ClockOK, HistOK, HistoryType
    <3> QED
      BY <1>2, <3>1
  <2> QED
    BY <1>2, <2>1, <2>2 DEF HistoryType
<1>4. ASSUME NEW j \in DOMAIN e PROVE RangeEnd(e, j, gaps[j]) \in Nat
  <2> DEFINE W == {gaps[j]} \cup {i \in LocalDels(fs, e) : VisibleBefore(fs, i) <= e[j].end}
  <2>1. gaps[j] \in 0 .. Len(fs) /\ Len(fs) \in Nat /\ LocalDels(fs, e) \subseteq 1 .. Len(fs)
    BY <1>2 DEF LocalDels
  <2>2. W \in SUBSET Nat /\ W # {} /\ \A y \in W : y <= Len(fs)
    BY <2>1
  <2> HIDE DEF W
  <2>3. Max(W) \in W
    BY <2>1, <2>2, MaxOf
  <2>4. Max(W) \in Nat
    BY <2>2, <2>3
  <2> QED
    BY <2>4 DEF W
<1> DEFINE ends == Ends(e, gaps)
           n == [kind |-> "Edit", timestamp |-> t, version |-> version[r],
                 ranges |-> [j \in DOMAIN e |->
                               [start |-> gaps[j], end |-> ends[j], len |-> e[j].len]]]
<1>5. ends \in [DOMAIN e -> Nat] /\ \A j \in DOMAIN e : ends[j] = RangeEnd(e, j, gaps[j])
  BY <1>4
<1>6. [j \in DOMAIN e |-> [start |-> gaps[j], end |-> RangeEnd(e, j, gaps[j]), len |-> e[j].len]]
      = [j \in DOMAIN e |-> [start |-> gaps[j], end |-> ends[j], len |-> e[j].len]]
  OBVIOUS
<1>7. EditMade(r, e, gaps, ends, LocalDels(fs, e), t, n)
  <2>0. n = [kind |-> "Edit", timestamp |-> t, version |-> version[r],
             ranges |-> Sent(e, gaps, ends)]
    BY DEF Sent
  <2> HIDE DEF ends, t, RangeEnd
  <2>1. ops' = ops \cup {n}
    BY <1>1, <1>6
  <2> HIDE DEF n
  <2> QED
    BY <1>1, <2>0, <2>1, Zenon DEF EditMade
<1>8. \A j \in DOMAIN e : gaps[j] \in {RightGap(fs, e[j].start), LeftGap(fs, e[j].start)}
  BY <1>1
<1> HIDE DEF ends, n, value
<1>9. EditParts(r, e, k, value, gaps, ends, n)
  BY <1>1, <1>3, <1>5, <1>7, <1>8, Zenon DEF EditParts
<1> QED
  BY <1>3, <1>5, <1>9

\* An edit preserves the invariant.
LEMMA EditPreserves ==
  ASSUME IInv, NEW r \in Replicas, edit(r)
  PROVE  IInv'
<1>0. PICK e \in Edits(fragments[r]), k \in 0 .. Len(history[r].undo_stack), value \in Nat :
        \E gaps \in [DOMAIN e -> 0 .. Len(fragments[r])], ends \in [DOMAIN e -> Nat] : \E n :
          EditParts(r, e, k, value, gaps, ends, n)
  BY EditIs
<1>p. PICK gaps \in [DOMAIN e -> 0 .. Len(fragments[r])], ends \in [DOMAIN e -> Nat] :
        \E n : EditParts(r, e, k, value, gaps, ends, n)
  BY <1>0
<1>1. PICK n : EditParts(r, e, k, value, gaps, ends, n)
  BY <1>p
<1> DEFINE t == <<value, r>>
           fs == Spliced(fragments[r], t, e, gaps, LocalDels(fragments[r], e))
           sent == Sent(e, gaps, ends)
           h == end_transaction(push_undo(start_transaction(history[r]), t), k)
<1>2. /\ n = [kind |-> "Edit", timestamp |-> t, version |-> version[r], ranges |-> sent]
      /\ fragments' = [fragments EXCEPT ![r] = fs]
      /\ ops' = ops \cup {n}
      /\ value > 1 /\ value >= lamport_clock[r]
      /\ history[r].depth > 0 => k = 0
      /\ lamport_clock' = [lamport_clock EXCEPT ![r] = value + 1]
      /\ version' = [version EXCEPT ![r] = observe(version[r], t)]
      /\ history' = [history EXCEPT ![r] = h]
      /\ UNCHANGED <<undo_map, deferred_ops, deferred_replicas, waits, delivered>>
  BY <1>1, Zenon DEF EditParts, EditMade
<1>3. /\ Shape /\ OpsOK(ops) /\ Bounded(ops) /\ BufOK(ops, Buffer(r))
      /\ HistOK(ops, r, history[r])
      /\ fragments[r] \in Seq(FragmentType) /\ version[r] \in Versions
  BY DEF IInv, Shape
<1>4. e \in Seq(RangeType) /\ sent \in Seq(RangeType) /\ NewText(e) = NewText(sent)
  <2>1. e \in Seq(RangeType)
    BY EditsAreRanges
  <2>2. \A j \in DOMAIN e : gaps[j] \in Nat /\ ends[j] \in Nat
    BY <1>3
  <2> QED
    BY <2>1, <2>2, SentRanges
<1> HIDE DEF sent
<1>5. /\ n.kind = "Edit" /\ n.timestamp = t /\ n.version = version[r] /\ n.ranges = sent
  BY <1>2
<1>6. n.timestamp[1] = value /\ n.timestamp[2] = r
  BY <1>5
<1>7. NewOp(ops, n)
  BY <1>2, <1>4, <1>5, NewOpOK
<1>8. Bounded(ops') /\ HistOK(ops', r, h)
  <2>1. UndosOf(ops') = UndosOf(ops)
    BY <1>2, <1>5, OneMore
  <2>2. Bounded(ops')
    BY <1>3, <2>1 DEF Bounded
  <2>3. HistOK(ops \cup {n}, r,
               end_transaction(push_undo(start_transaction(history[r]), n.timestamp), k))
    BY <1>2, <1>3, <1>5, <1>6, <1>7, HistEdit
  <2> QED
    BY <1>2, <1>5, <2>2, <2>3
<1> DEFINE c == [fragments |-> fs, version |-> observe(version[r], t),
                 clock |-> value + 1, undos |-> undo_map[r],
                 deferred |-> deferred_ops[r], late |-> deferred_replicas[r],
                 edits |-> waits[r].edits, versions |-> waits[r].versions]
<1>9. BufOK(ops', c)
  <2> DEFINE b == Buffer(r)
             dels == LocalDels(fragments[r], e)
  <2>1. /\ b.version = version[r] /\ b.undos = undo_map[r]
        /\ b.fragments = fragments[r] /\ b.deferred = deferred_ops[r]
        /\ b.late = deferred_replicas[r] /\ b.edits = waits[r].edits
        /\ b.versions = waits[r].versions
    BY DEF Buffer
  <2> HIDE DEF b, dels
  <2>2. c = [fragments |-> fs, version |-> observe(b.version, n.timestamp),
             clock |-> n.timestamp[1] + 1, undos |-> undo_map[r], deferred |-> b.deferred,
             late |-> b.late, edits |-> b.edits, versions |-> b.versions]
    BY <1>5, <1>6, <2>1
  <2>3. fs = Spliced(b.fragments, n.timestamp, e, gaps, dels)
    BY <1>5, <2>1 DEF dels
  <2>4. gaps \in [DOMAIN e -> 0 .. Len(b.fragments)]
    BY <2>1
  <2> HIDE DEF c, fs, t
  <2>5. \E ranges \in Seq(RangeType) :
          /\ NewText(ranges) = NewText(n.ranges)
          /\ \E gs \in [DOMAIN ranges -> 0 .. Len(b.fragments)] : \E ds :
               fs = Spliced(b.fragments, n.timestamp, ranges, gs, ds)
    BY <1>4, <1>5, <2>3, <2>4
  <2>6. BufOK(ops, b) /\ n.version = b.version /\ undo_map[r] = b.undos
    BY <1>3, <1>5, <2>1 DEF b
  <2>7. BufOK(ops \cup {n}, c)
    BY <1>3, <1>5, <1>7, <2>2, <2>5, <2>6, LocalOK
  <2> QED
    BY <1>2, <2>7
<1> HIDE DEF fs
<1>10. fs \in Seq(FragmentType) /\ observe(version[r], t) \in Versions
  <2>1. c.fragments = fs /\ c.version = observe(version[r], t)
    OBVIOUS
  <2> HIDE DEF c
  <2> QED
    BY <1>9, <2>1 DEF BufOK, BufType
<1> HIDE DEF h
<1>11. Shape'
  <2>1. deferred_ops' \in [Replicas -> SUBSET ops'] /\ delivered' \in [Replicas -> SUBSET ops']
    <3>1. deferred_ops \in [Replicas -> SUBSET ops] /\ delivered \in [Replicas -> SUBSET ops]
      BY <1>3 DEF Shape
    <3> QED
      BY <1>2, <3>1
  <2>2. h \in HistoryType
    BY <1>8 DEF HistOK
  <2>3. /\ fragments' \in [Replicas -> Seq(FragmentType)]
        /\ version' \in [Replicas -> Versions]
        /\ lamport_clock' \in [Replicas -> Nat]
        /\ history' \in [Replicas -> HistoryType]
    BY <1>2, <1>3, <1>10, <2>2 DEF Shape
  <2>4. /\ deferred_replicas' \in [Replicas -> SUBSET Replicas]
        /\ waits' \in [Replicas -> WaitType] /\ undo_map' \in [Replicas -> SUBSET UndoType]
    BY <1>2, <1>3 DEF Shape
  <2> QED
    BY <2>1, <2>3, <2>4 DEF Shape
<1>12. Buffer(r)' = c
  BY <1>2, <1>3 DEF Buffer, Shape
<1>13. \A q \in Replicas : q # r => /\ Buffer(q)' = Buffer(q) /\ history'[q] = history[q]
                                     /\ version'[q] = version[q]
                                     /\ lamport_clock'[q] = lamport_clock[q]
  BY <1>2, <1>3 DEF Buffer, Shape
<1>14. history'[r] = h
  BY <1>2, <1>3 DEF Shape
<1> HIDE DEF c
<1>15. /\ n.timestamp[1] >= 2
       /\ version'[r] = observe(version[r], n.timestamp)
       /\ lamport_clock'[r] = n.timestamp[1] + 1
  BY <1>2, <1>3, <1>5, <1>6 DEF Shape
<1> QED
  BY <1>2, <1>5, <1>6, <1>7, <1>8, <1>9, <1>11, <1>12, <1>13, <1>14, <1>15, MakesOK

\* A step that leaves the text and the operations alone.
LEMMA AsideOK ==
  ASSUME IInv, Shape',
         UNCHANGED <<fragments, version, undo_map, deferred_ops, deferred_replicas, ops,
                     delivered>>,
         \A q \in Replicas : /\ lamport_clock'[q] >= lamport_clock[q]
                             /\ waits'[q].edits \subseteq {o.timestamp : o \in ops}
                             /\ HistOK(ops, q, history'[q]) /\ ClockOK(q)'
  PROVE  IInv'
<1>1. /\ Shape /\ OpsOK(ops) /\ Bounded(ops) /\ Own
  BY DEF IInv
<1>2. OpsOK(ops') /\ Bounded(ops') /\ Own'
  BY <1>1 DEF Own
<1>3. ASSUME NEW q \in Replicas
      PROVE  (BufOK(ops, Buffer(q)) /\ HistOK(ops, q, history[q]) /\ QueueOK(q) /\ ClockOK(q))'
  <2>1. BufOK(ops, Buffer(q)) /\ QueueOK(q)
    BY DEF IInv
  <2> DEFINE b == Buffer(q)
             c == Buffer(q)'
  <2>2. /\ c.fragments = b.fragments /\ c.version = b.version /\ c.undos = b.undos
        /\ c.deferred = b.deferred /\ c.late = b.late
        /\ b.clock = lamport_clock[q] /\ c.clock = lamport_clock'[q] /\ c.edits = waits'[q].edits
    BY DEF Buffer
  <2>3. c \in BufType(ops)
    BY <1>1 DEF Buffer, BufType, Shape, WaitType
  <2>4. lamport_clock[q] \in Nat /\ lamport_clock'[q] \in Nat
    BY <1>1 DEF Shape
  <2> HIDE DEF b, c
  <2>5. BufOK(ops, b) /\ b.version \in Versions
    BY <2>1 DEF b, BufOK, BufType
  <2>6. \A p \in Replicas : c.version[p] < c.clock
    BY <2>2, <2>4, <2>5 DEF BufOK, Versions
  <2>7. BufOK(ops, c)
    BY <2>2, <2>3, <2>5, <2>6, Zenon DEF BufOK
  <2>8. QueueOK(q)'
    BY <2>1 DEF QueueOK
  <2> QED
    BY <2>7, <2>8 DEF c
<1> QED
  BY <1>2, <1>3 DEF IInv

\* Opening and closing a transaction.
LEMMA StartPreserves ==
  ASSUME IInv, NEW r \in Replicas, StartTransaction(r)
  PROVE  IInv'
<1> DEFINE h == [start_transaction(history[r]) EXCEPT !.opened = @ + 1]
<1>1. /\ history[r].depth = 0
      /\ history' = [history EXCEPT ![r] = h]
      /\ lamport_clock' = [lamport_clock EXCEPT ![r] = lamport_clock[r] + 1]
      /\ UNCHANGED <<fragments, version, undo_map, deferred_ops, deferred_replicas, waits,
                     ops, delivered>>
  BY Zenon DEF StartTransaction
<1>2. Shape /\ \A q \in Replicas : HistOK(ops, q, history[q]) /\ ClockOK(q) /\ BufOK(ops, Buffer(q))
  BY DEF IInv
<1>3. HistOK(ops, r, h)
  BY <1>1, <1>2, HistStart
<1> HIDE DEF h
<1>4. h \in HistoryType
  BY <1>3 DEF HistOK
<1>5. Shape'
  BY <1>1, <1>2, <1>4 DEF Shape
<1>6. ASSUME NEW q \in Replicas
      PROVE  /\ lamport_clock'[q] >= lamport_clock[q]
             /\ waits'[q].edits \subseteq {o.timestamp : o \in ops}
             /\ HistOK(ops, q, history'[q]) /\ ClockOK(q)'
  <2>1. waits'[q].edits \subseteq {o.timestamp : o \in ops}
    BY <1>1, <1>2 DEF BufOK, Buffer
  <2>2. CASE q = r
    <3>1. history'[q] = h /\ lamport_clock'[q] = lamport_clock[q] + 1 /\ lamport_clock[q] \in Nat
      BY <1>1, <1>2, <2>2 DEF Shape
    <3> QED
      BY <1>2, <1>3, <2>1, <2>2, <3>1 DEF ClockOK
  <2>3. CASE q # r
    <3>1. /\ history'[q] = history[q] /\ lamport_clock'[q] = lamport_clock[q]
          /\ lamport_clock[q] \in Nat
      BY <1>1, <1>2, <2>3 DEF Shape
    <3> QED
      BY <1>2, <2>1, <3>1 DEF ClockOK
  <2> QED
    BY <2>2, <2>3
<1> QED
  BY <1>1, <1>5, <1>6, AsideOK

\* end_transaction keeps the invariant.
LEMMA EndPreserves ==
  ASSUME IInv, NEW r \in Replicas, EndTransaction(r)
  PROVE  IInv'
<1>1. PICK n \in 0 .. Len(history[r].undo_stack) - 1 :
        history' = [history EXCEPT ![r] = end_transaction(history[r], n)]
  BY DEF EndTransaction
<1> DEFINE h == end_transaction(history[r], n)
<1>2. /\ history[r].depth > 0
      /\ UNCHANGED <<fragments, version, lamport_clock, undo_map, deferred_ops,
                     deferred_replicas, waits, ops, delivered>>
  BY DEF EndTransaction
<1>3. Shape /\ \A q \in Replicas : HistOK(ops, q, history[q]) /\ ClockOK(q) /\ BufOK(ops, Buffer(q))
  BY DEF IInv
<1>4. HistOK(ops, r, h)
  BY <1>2, <1>3, HistEnd
<1>5. history[r].undo_stack # <<>> /\ lamport_clock[r] >= 2
  BY <1>2, <1>3 DEF HistOK, ClockOK
<1> HIDE DEF h
<1>6. h \in HistoryType
  BY <1>4 DEF HistOK
<1>7. Shape'
  BY <1>1, <1>2, <1>3, <1>6 DEF Shape, h
<1>8. ASSUME NEW q \in Replicas
      PROVE  /\ lamport_clock'[q] >= lamport_clock[q]
             /\ waits'[q].edits \subseteq {o.timestamp : o \in ops}
             /\ HistOK(ops, q, history'[q]) /\ ClockOK(q)'
  <2>1. waits'[q].edits \subseteq {o.timestamp : o \in ops}
    BY <1>2, <1>3 DEF BufOK, Buffer
  <2>2. lamport_clock'[q] = lamport_clock[q] /\ lamport_clock[q] \in Nat
    BY <1>2, <1>3 DEF Shape
  <2>3. CASE q = r
    <3>1. history'[q] = h
      BY <1>1, <1>3, <2>3 DEF Shape, h
    <3> QED
      BY <1>4, <1>5, <2>1, <2>2, <2>3, <3>1 DEF ClockOK
  <2>4. CASE q # r
    <3>1. history'[q] = history[q]
      BY <1>1, <1>3, <2>4 DEF Shape
    <3> QED
      BY <1>3, <2>1, <2>2, <3>1 DEF ClockOK
  <2> QED
    BY <2>3, <2>4
<1> QED
  BY <1>2, <1>7, <1>8, AsideOK

\* Waiting for operations, and giving up.
LEMMA WaitPreserves ==
  ASSUME IInv, NEW r \in Replicas,
         \/ \E o \in ops : o.kind = "Edit" /\ wait_for_edits(r, o.timestamp)
         \/ \E q \in Replicas : wait_for_version(r, version[q])
         \/ give_up_waiting(r)
  PROVE  IInv'
<1>1. Shape /\ OpsOK(ops) /\ \A q \in Replicas : /\ HistOK(ops, q, history[q]) /\ ClockOK(q)
                                                 /\ BufOK(ops, Buffer(q))
  BY DEF IInv
<1>2. /\ waits \in [Replicas -> WaitType] /\ version \in [Replicas -> Versions]
      /\ \A q \in Replicas : waits[q].edits \subseteq {o.timestamp : o \in ops}
      /\ \A o \in ops : o.timestamp \in Stamps
  BY <1>1 DEF Shape, BufOK, Buffer, OpsOK, OpType
<1>3. UNCHANGED <<fragments, version, lamport_clock, undo_map, deferred_ops,
                  deferred_replicas, history, ops, delivered>>
  BY DEF wait_for_edits, wait_for_version, give_up_waiting
<1>4. /\ waits' \in [Replicas -> WaitType]
      /\ \A q \in Replicas : waits'[q].edits \subseteq {o.timestamp : o \in ops}
  <2>0. /\ waits[r] \in WaitType /\ waits[r].edits \in SUBSET Stamps
        /\ waits[r].versions \in SUBSET Versions
    BY <1>2 DEF WaitType
  <2>1. CASE \E o \in ops : o.kind = "Edit" /\ wait_for_edits(r, o.timestamp)
    <3>1. PICK o \in ops : waits' = [waits EXCEPT ![r].edits = waits[r].edits \cup {o.timestamp}]
      BY <2>1 DEF wait_for_edits
    <3> DEFINE E == waits[r].edits \cup {o.timestamp}
               w == [waits[r] EXCEPT !.edits = E]
    <3>2. E \in SUBSET Stamps /\ E \subseteq {p.timestamp : p \in ops}
      BY <1>2, <2>0
    <3> HIDE DEF E
    <3>3. w \in WaitType /\ w.edits = E
      BY <2>0, <3>2 DEF WaitType
    <3>4. waits' = [waits EXCEPT ![r] = w]
      BY <3>1 DEF E
    <3> HIDE DEF w
    <3> QED
      BY <1>2, <3>2, <3>3, <3>4
  <2>2. CASE \E q \in Replicas : wait_for_version(r, version[q])
    <3>1. PICK q \in Replicas :
            waits' = [waits EXCEPT ![r].versions = waits[r].versions \cup {version[q]}]
      BY <2>2 DEF wait_for_version
    <3> DEFINE V == waits[r].versions \cup {version[q]}
               w == [waits[r] EXCEPT !.versions = V]
    <3>2. V \in SUBSET Versions
      BY <1>2, <2>0
    <3> HIDE DEF V
    <3>3. w \in WaitType /\ w.edits = waits[r].edits
      BY <2>0, <3>2 DEF WaitType
    <3>4. waits' = [waits EXCEPT ![r] = w]
      BY <3>1 DEF V
    <3> HIDE DEF w
    <3> QED
      BY <1>2, <3>2, <3>3, <3>4
  <2>3. CASE give_up_waiting(r)
    <3> DEFINE w == [waits[r] EXCEPT !.edits = {}, !.versions = {}]
    <3>1. waits' = [waits EXCEPT ![r].edits = {}, ![r].versions = {}]
      BY <2>3 DEF give_up_waiting
    <3>2. w \in WaitType /\ w.edits = {}
      BY <2>0 DEF WaitType
    <3>3. waits'[r] = w /\ \A q \in Replicas : q # r => waits'[q] = waits[q]
      BY <1>2, <3>1
    <3>4. waits' = [q \in Replicas |-> waits'[q]]
      BY <1>2, <3>1
    <3> HIDE DEF w
    <3> QED
      BY <1>2, <3>2, <3>3, <3>4
  <2> QED
    BY <2>1, <2>2, <2>3
<1>6. Shape'
  BY <1>1, <1>3, <1>4 DEF Shape
<1>7. ASSUME NEW q \in Replicas
      PROVE  /\ lamport_clock'[q] >= lamport_clock[q]
             /\ waits'[q].edits \subseteq {o.timestamp : o \in ops}
             /\ HistOK(ops, q, history'[q]) /\ ClockOK(q)'
  <2>1. waits'[q].edits \subseteq {o.timestamp : o \in ops}
    BY <1>4
  <2>2. lamport_clock'[q] = lamport_clock[q] /\ lamport_clock[q] \in Nat
    BY <1>1, <1>3 DEF Shape
  <2> QED
    BY <1>1, <1>3, <2>1, <2>2 DEF ClockOK
<1> QED
  BY <1>3, <1>6, <1>7, AsideOK

\* A batch arrives.
LEMMA DeliverPreserves ==
  ASSUME IInv, NEW r \in Replicas, NEW n \in Nat, NEW batch \in [1 .. n -> ops],
         Deliver(r, batch)
  PROVE  IInv'
<1> DEFINE b == Buffer(r)
           c == apply_ops(b, batch)
           D == ToSet(batch)
<1>1. /\ fragments' = [fragments EXCEPT ![r] = c.fragments]
      /\ version' = [version EXCEPT ![r] = c.version]
      /\ lamport_clock' = [lamport_clock EXCEPT ![r] = c.clock]
      /\ undo_map' = [undo_map EXCEPT ![r] = c.undos]
      /\ deferred_ops' = [deferred_ops EXCEPT ![r] = c.deferred]
      /\ deferred_replicas' = [deferred_replicas EXCEPT ![r] = c.late]
      /\ waits' = [waits EXCEPT ![r].edits = c.edits, ![r].versions = c.versions]
      /\ delivered' = [delivered EXCEPT ![r] = delivered[r] \cup D]
      /\ UNCHANGED <<history, ops>>
  BY DEF Deliver
<1>2. /\ Shape /\ OpsOK(ops) /\ Bounded(ops) /\ Own
      /\ \A q \in Replicas : /\ BufOK(ops, Buffer(q)) /\ HistOK(ops, q, history[q])
                             /\ QueueOK(q) /\ ClockOK(q)
  BY DEF IInv
<1>3. BufOK(ops, b)
  BY <1>2
<1>4. /\ b.version = version[r] /\ b.clock = lamport_clock[r] /\ b.deferred = deferred_ops[r]
  BY DEF Buffer
<1> HIDE DEF b
<1>5. /\ BufOK(ops, c) /\ c.clock >= b.clock
      /\ observed_all(c.version, b.version)
      /\ \A d \in b.deferred : observed(c.version, d.timestamp) \/ d \in c.deferred
      /\ \A i \in 1 .. n : observed(c.version, batch[i].timestamp) \/ batch[i] \in c.deferred
      /\ \A d \in c.deferred : ~observed_all(c.version, d.version)
  <2>1. c = apply_ops(b, batch)
    OBVIOUS
  <2> HIDE DEF c
  <2> QED
    BY <1>2, <1>3, <2>1, ApplyOpsOK
<1> HIDE DEF c
<1>6. /\ c \in BufType(ops) /\ c.fragments \in Seq(FragmentType) /\ c.version \in Versions
      /\ c.clock \in Nat /\ c.undos \in SUBSET UndoType /\ c.deferred \in SUBSET ops
      /\ c.late \in SUBSET Replicas /\ c.edits \in SUBSET Stamps
      /\ c.versions \in SUBSET Versions
  <2>1. c \in BufType(ops)
    BY <1>5 DEF BufOK
  <2> QED
    BY <2>1 DEF BufType
<1>7. D = {batch[i] : i \in 1 .. n}
  BY DEF ToSet
<1> HIDE DEF D
<1>8. /\ waits' \in [Replicas -> WaitType]
      /\ waits'[r].edits = c.edits /\ waits'[r].versions = c.versions
      /\ \A q \in Replicas : q # r => waits'[q] = waits[q]
  <2> DEFINE w == [waits[r] EXCEPT !.edits = c.edits, !.versions = c.versions]
  <2>0. waits \in [Replicas -> WaitType]
    BY <1>2 DEF Shape
  <2>1. w \in WaitType /\ w.edits = c.edits /\ w.versions = c.versions
    BY <1>6, <2>0 DEF WaitType
  <2>2. waits'[r] = w /\ \A q \in Replicas : q # r => waits'[q] = waits[q]
    BY <1>1, <2>0
  <2>3. waits' = [q \in Replicas |-> waits'[q]]
    BY <1>1, <2>0
  <2> HIDE DEF w
  <2> QED
    BY <2>0, <2>1, <2>2, <2>3
<1>9. Shape'
  <2>1. /\ fragments' \in [Replicas -> Seq(FragmentType)]
        /\ version' \in [Replicas -> Versions]
        /\ lamport_clock' \in [Replicas -> Nat]
        /\ undo_map' \in [Replicas -> SUBSET UndoType]
        /\ deferred_replicas' \in [Replicas -> SUBSET Replicas]
        /\ history' \in [Replicas -> HistoryType]
    BY <1>1, <1>2, <1>6 DEF Shape
  <2>2. deferred_ops' \in [Replicas -> SUBSET ops']
    BY <1>1, <1>2, <1>6 DEF Shape
  <2>3. delivered' \in [Replicas -> SUBSET ops']
    <3>1. delivered \in [Replicas -> SUBSET ops] /\ delivered[r] \cup D \in SUBSET ops
      BY <1>2, <1>7 DEF Shape
    <3> QED
      BY <1>1, <3>1
  <2> QED
    BY <1>8, <2>1, <2>2, <2>3 DEF Shape
<1>10. /\ version'[r] = c.version /\ lamport_clock'[r] = c.clock
       /\ deferred_ops'[r] = c.deferred /\ delivered'[r] = delivered[r] \cup D
  BY <1>1, <1>2 DEF Shape
<1>11. \A q \in Replicas : q # r =>
         /\ version'[q] = version[q] /\ lamport_clock'[q] = lamport_clock[q]
         /\ deferred_ops'[q] = deferred_ops[q] /\ delivered'[q] = delivered[q]
         /\ Buffer(q)' = Buffer(q)
  <2>1. \A q \in Replicas : q # r =>
         /\ version'[q] = version[q] /\ lamport_clock'[q] = lamport_clock[q]
         /\ deferred_ops'[q] = deferred_ops[q] /\ delivered'[q] = delivered[q]
    BY <1>1, <1>2 DEF Shape
  <2>2. \A q \in Replicas : q # r => Buffer(q)' = Buffer(q)
    BY <1>1, <1>2, <1>8, <2>1 DEF Shape, Buffer
  <2> QED
    BY <2>1, <2>2
<1>12. Buffer(r)' = c
  <2>1. /\ fragments'[r] = c.fragments /\ undo_map'[r] = c.undos
        /\ deferred_replicas'[r] = c.late
    BY <1>1, <1>2 DEF Shape
  <2> QED
    BY <1>6, <1>8, <1>10, <2>1 DEF Buffer, BufType
<1>13. \A o \in ops : o.timestamp \in Stamps /\ o.timestamp[2] \in Replicas
  BY <1>2 DEF OpsOK, OpType, Stamps
<1>14. version \in [Replicas -> Versions] /\ \A q \in Replicas : version[q] \in Versions
  BY <1>2 DEF Shape
<1>15. ASSUME NEW o \in ops, observed(version[r], o.timestamp)
       PROVE  observed(version'[r], o.timestamp)
  BY <1>4, <1>5, <1>6, <1>10, <1>13, <1>14, <1>15, ObserveMore
<1>16. Own'
  <2> SUFFICES ASSUME NEW o \in ops PROVE observed(version'[o.timestamp[2]], o.timestamp)
    BY <1>1 DEF Own
  <2>1. observed(version[o.timestamp[2]], o.timestamp)
    BY <1>2 DEF Own
  <2>2. CASE o.timestamp[2] = r
    BY <1>15, <2>1, <2>2
  <2>3. CASE o.timestamp[2] # r
    BY <1>11, <1>13, <2>1, <2>3
  <2> QED
    BY <2>2, <2>3
<1>17. ASSUME NEW q \in Replicas
       PROVE  (BufOK(ops, Buffer(q)) /\ HistOK(ops, q, history[q]) /\ QueueOK(q) /\ ClockOK(q))'
  <2>1. HistOK(ops', q, history'[q])
    BY <1>1, <1>2
  <2>2. CASE q # r
    <3>1. BufOK(ops', Buffer(q)')
      BY <1>1, <1>2, <1>11, <2>2
    <3>2. QueueOK(q)'
      BY <1>2, <1>11, <2>2 DEF QueueOK
    <3>3. ClockOK(q)'
      BY <1>1, <1>2, <1>11, <2>2 DEF ClockOK
    <3> QED
      BY <2>1, <3>1, <3>2, <3>3
  <2>3. CASE q = r
    <3>1. BufOK(ops', Buffer(q)')
      BY <1>1, <1>5, <1>12, <2>3
    <3>2. ASSUME NEW o \in delivered'[r]
          PROVE  observed(version'[r], o.timestamp) \/ o \in deferred_ops'[r]
      <4>1. CASE o \in delivered[r]
        <5>1. o \in ops
          BY <1>2, <4>1 DEF Shape
        <5>2. observed(version[r], o.timestamp) \/ o \in deferred_ops[r]
          BY <1>2, <4>1 DEF QueueOK
        <5> QED
          BY <1>4, <1>5, <1>10, <1>15, <5>1, <5>2
      <4>2. CASE o \in D
        BY <1>5, <1>7, <1>10, <4>2
      <4> QED
        BY <1>10, <4>1, <4>2
    <3>3. QueueOK(r)'
      BY <1>5, <1>10, <3>2 DEF QueueOK
    <3>4. ClockOK(r)'
      <4>1. lamport_clock'[r] >= lamport_clock[r] /\ history'[r] = history[r]
            /\ lamport_clock[r] \in Nat /\ lamport_clock'[r] \in Nat
        BY <1>1, <1>2, <1>4, <1>5, <1>6, <1>10 DEF Shape
      <4> QED
        BY <1>2, <4>1 DEF ClockOK
    <3> QED
      BY <2>1, <2>3, <3>1, <3>3, <3>4
  <2> QED
    BY <2>2, <2>3
<1> QED
  BY <1>1, <1>2, <1>9, <1>16, <1>17 DEF IInv

\* A batch of operations, one or two, keeps the invariant.
LEMMA ReceivePreserves ==
  ASSUME IInv, NEW r \in Replicas, Receive(r)
  PROVE  IInv'
<1>1. PICK o \in ops, p \in ops : Deliver(r, IF o = p THEN <<o>> ELSE <<o, p>>)
  BY Zenon DEF Receive
<1>2. CASE o = p
  <2>1. Deliver(r, <<o>>)
    BY <1>1, <1>2
  <2>2. <<o>> \in [1 .. 1 -> ops] /\ 1 \in Nat
    OBVIOUS
  <2> QED
    BY <2>1, <2>2, DeliverPreserves
<1>3. CASE o # p
  <2>1. Deliver(r, <<o, p>>)
    BY <1>1, <1>3
  <2>2. <<o, p>> \in [1 .. 2 -> ops] /\ 2 \in Nat
    OBVIOUS
  <2> QED
    BY <2>1, <2>2, DeliverPreserves
<1> QED
  BY <1>2, <1>3

\* The text every replica starts with.
LEMMA StartText ==
  ASSUME NEW fs, fs = [i \in 1 .. BaseLength |-> Fragment(<<1, 0>>, i - 1)]
  PROVE  TextOK({}, fs, {})
<1>1. BaseLength \in Nat /\ <<1, 0>> \in Stamps
  BY BoundsAssumption, ReplicasAssumption DEF Stamps
<1>2. DOMAIN fs = 1 .. BaseLength /\ \A i \in DOMAIN fs : fs[i] = Fragment(<<1, 0>>, i - 1)
  OBVIOUS
<1>3. \A i \in DOMAIN fs : /\ fs[i].timestamp = <<1, 0>> /\ fs[i].offset = i - 1
                           /\ fs[i].deletions = {} /\ fs[i].visible = TRUE
  BY <1>2 DEF Fragment
<1>4. fs \in Seq(FragmentType)
  <2>1. \A i \in 1 .. BaseLength : Fragment(<<1, 0>>, i - 1) \in FragmentType
    BY <1>1 DEF Fragment, FragmentType
  <2>2. fs \in [1 .. BaseLength -> FragmentType]
    BY <2>1
  <2> QED
    BY <1>1, <2>2
<1>5. Known({}) = BaseText
  BY DEF Known
<1>6. \A i \in DOMAIN fs : Id(fs[i]) = <<<<1, 0>>, i - 1>>
  BY <1>3 DEF Id
<1>7. \A i \in DOMAIN fs : Id(fs[i]) \in Known({})
  BY <1>1, <1>2, <1>5, <1>6 DEF BaseText
<1>8. ASSUME NEW c \in Known({}) PROVE \E i \in DOMAIN fs : Id(fs[i]) = c
  <2>1. PICK n \in 0 .. BaseLength - 1 : c = <<<<1, 0>>, n>>
    BY <1>5, <1>8 DEF BaseText
  <2>2. n + 1 \in DOMAIN fs /\ (n + 1) - 1 = n
    BY <1>1, <1>2
  <2> QED
    BY <1>6, <2>1, <2>2
<1>9. \A i, j \in DOMAIN fs : Id(fs[i]) = Id(fs[j]) => i = j
  <2> SUFFICES ASSUME NEW i \in DOMAIN fs, NEW j \in DOMAIN fs, Id(fs[i]) = Id(fs[j])
               PROVE  i = j
    OBVIOUS
  <2>1. i - 1 = j - 1
    BY <1>6
  <2> QED
    BY <1>1, <1>2, <2>1
<1>10. ~is_undone({}, <<1, 0>>)
  BY NotUndone
<1>11. \A i \in DOMAIN fs : fs[i].visible = is_visible(fs[i], {})
  BY <1>3, <1>10 DEF is_visible
<1> HIDE DEF Id
<1> QED
  BY <1>3, <1>4, <1>7, <1>8, <1>9, <1>11 DEF TextOK

\* The invariant holds at the start.
LEMMA StartOK ==
  ASSUME Init
  PROVE  IInv
<1> DEFINE start == IF BaseLength = 0 THEN NoVersion ELSE observe(NoVersion, <<1, 0>>)
           base == [i \in 1 .. BaseLength |-> Fragment(<<1, 0>>, i - 1)]
           h == [undo_stack |-> <<>>, redo_stack |-> <<>>, depth |-> 0, opened |-> 0]
           clock == IF BaseLength = 0 THEN 1 ELSE 2
<1>1. /\ fragments = [r \in Replicas |-> base]
      /\ version = [r \in Replicas |-> start]
      /\ lamport_clock = [r \in Replicas |-> clock]
      /\ undo_map = [r \in Replicas |-> {}]
      /\ deferred_ops = [r \in Replicas |-> {}]
      /\ deferred_replicas = [r \in Replicas |-> {}]
      /\ history = [r \in Replicas |-> h]
      /\ waits = [r \in Replicas |-> [edits |-> {}, versions |-> {}]]
      /\ ops = {}
      /\ delivered = [r \in Replicas |-> {}]
  BY DEF Init
<1>2. BaseLength \in Nat /\ <<1, 0>> \in Stamps /\ 0 \in Replicas /\ Replicas \subseteq Nat
  BY BoundsAssumption, ReplicasAssumption DEF Stamps
<1>3. start \in Versions /\ \A q \in Replicas : start[q] = BaseVersion[q]
  <2>1. NoVersion \in Versions /\ \A q \in Replicas : NoVersion[q] = 0
    BY DEF NoVersion, Versions
  <2>2. CASE BaseLength = 0
    BY <2>1, <2>2 DEF BaseVersion
  <2>3. CASE BaseLength # 0
    <3>1. start = observe(NoVersion, <<1, 0>>)
      BY <2>3
    <3>2. /\ observe(NoVersion, <<1, 0>>) \in Versions
          /\ \A q \in Replicas : observe(NoVersion, <<1, 0>>)[q] =
               IF q = <<1, 0>>[2] /\ NoVersion[q] < <<1, 0>>[1] THEN <<1, 0>>[1] ELSE NoVersion[q]
      BY <1>2, <2>1, ObserveIs
    <3>3. BaseLength > 0
      BY <1>2, <2>3
    <3> QED
      BY <1>2, <2>1, <3>1, <3>2, <3>3 DEF BaseVersion
  <2> QED
    BY <2>2, <2>3
<1>4. /\ clock \in Nat /\ clock >= 1 /\ \A q \in Replicas : BaseVersion[q] < clock
  BY <1>2 DEF BaseVersion
<1>5. TextOK({}, base, {})
  BY StartText
<1> HIDE DEF start, base, clock
<1>6. OpsOK({}) /\ Bounded({}) /\ UndosOf({}) = {}
  <2>1. UndosOf({}) = {}
    BY DEF UndosOf
  <2>2. OpsOK({})
    BY FS_EmptySet DEF OpsOK
  <2> QED
    BY <2>1, <2>2 DEF Bounded
<1>7. \A r \in Replicas : HistOK({}, r, h)
  <2>1. <<>> \in Stacks /\ Effects(<<>>) = {} /\ Apart(<<>>)
    BY DEF Stacks, Effects, Apart
  <2>2. /\ h \in HistoryType /\ h.undo_stack = <<>> /\ h.redo_stack = <<>> /\ ~(h.depth > 0)
    BY <2>1 DEF HistoryType
  <2> HIDE DEF h
  <2> QED
    BY <2>1, <2>2 DEF HistOK
<1>8. Cut({}, start)
  BY <1>3 DEF Cut, BaseVersion
<1>9. base \in Seq(FragmentType) /\ h \in HistoryType
  BY <1>5, <1>7, <1>2 DEF TextOK, HistOK
<1>10. Shape
  <2>1. waits \in [Replicas -> WaitType]
    BY <1>1 DEF WaitType
  <2> HIDE DEF h
  <2> QED
    BY <1>1, <1>3, <1>4, <1>9, <2>1 DEF Shape
<1>11. ASSUME NEW r \in Replicas
       PROVE  BufOK(ops, Buffer(r)) /\ HistOK(ops, r, history[r]) /\ QueueOK(r) /\ ClockOK(r)
  <2> DEFINE b == Buffer(r)
  <2>1. /\ b.fragments = base /\ b.version = start /\ b.clock = clock /\ b.undos = {}
        /\ b.deferred = {} /\ b.late = {} /\ b.edits = {}
    BY <1>1 DEF Buffer
  <2>2. b \in BufType(ops)
    BY <1>10 DEF Shape, Buffer, BufType, WaitType
  <2>3. Seen({}, start) = {}
    BY DEF Seen
  <2>4. \A q \in Replicas : start[q] < clock
    BY <1>3, <1>4
  <2> HIDE DEF b
  <2>5. b.late = {d.timestamp[2] : d \in b.deferred}
    BY <2>1
  <2>6. BufOK(ops, b)
    BY <1>1, <1>5, <1>6, <1>8, <2>1, <2>2, <2>3, <2>4, <2>5 DEF BufOK
  <2>7. HistOK(ops, r, history[r])
    BY <1>1, <1>7
  <2>8. QueueOK(r)
    BY <1>1 DEF QueueOK
  <2>9. history[r].undo_stack = <<>> /\ history[r].redo_stack = <<>> /\ lamport_clock[r] = clock
    BY <1>1
  <2>10. ClockOK(r)
    BY <1>4, <2>9 DEF ClockOK
  <2> QED
    BY <2>6, <2>7, <2>8, <2>10 DEF b
<1>12. Own
  BY <1>1 DEF Own
<1> QED
  BY <1>1, <1>6, <1>10, <1>11, <1>12 DEF IInv

\* Every step preserves the invariant.
LEMMA StepPreserves ==
  ASSUME IInv, [Next]_vars
  PROVE  IInv'
<1>1. CASE UNCHANGED vars
  <2>1. UNCHANGED <<fragments, version, lamport_clock, undo_map, deferred_ops,
                    deferred_replicas, history, waits, ops, delivered>>
    BY <1>1 DEF vars
  <2>2. /\ Shape /\ OpsOK(ops) /\ Bounded(ops) /\ Own
        /\ \A q \in Replicas : /\ BufOK(ops, Buffer(q)) /\ HistOK(ops, q, history[q])
                               /\ QueueOK(q) /\ ClockOK(q)
    BY DEF IInv
  <2>3. Shape'
    BY <2>1, <2>2 DEF Shape
  <2>4. \A q \in Replicas : ClockOK(q)' /\ lamport_clock[q] \in Nat
    BY <2>1, <2>2 DEF ClockOK, Shape
  <2>5. \A q \in Replicas : waits'[q].edits \subseteq {o.timestamp : o \in ops}
    BY <2>1, <2>2 DEF BufOK, Buffer
  <2> QED
    BY <2>1, <2>2, <2>3, <2>4, <2>5, AsideOK
<1>2. CASE Next
  <2>1. PICK r \in Replicas :
          \/ edit(r)
          \/ StartTransaction(r)
          \/ EndTransaction(r)
          \/ undo(r)
          \/ \E i \in DOMAIN history[r].undo_stack :
                i < Len(history[r].undo_stack) /\ undo_transaction(r, i)
          \/ redo(r)
          \/ Receive(r)
          \/ \E o \in ops : o.kind = "Edit" /\ wait_for_edits(r, o.timestamp)
          \/ \E q \in Replicas : wait_for_version(r, version[q])
          \/ give_up_waiting(r)
    BY <1>2 DEF Next
  <2>2. CASE edit(r)
    BY <2>2, EditPreserves
  <2>3. CASE StartTransaction(r)
    BY <2>3, StartPreserves
  <2>4. CASE EndTransaction(r)
    BY <2>4, EndPreserves
  <2>5. CASE undo(r)
    <3> DEFINE i == Len(history[r].undo_stack)
    <3>1. history[r].undo_stack # <<>> /\ undo_transaction(r, i)
      BY <2>5 DEF undo
    <3>2. history[r].undo_stack \in Seq(SUBSET Stamps)
      BY DEF IInv, Shape, HistoryType, Stacks
    <3>3. i \in DOMAIN history[r].undo_stack
      BY <3>1, <3>2
    <3> QED
      BY <3>1, <3>3, UndoPreserves
  <2>6. CASE \E i \in DOMAIN history[r].undo_stack :
                i < Len(history[r].undo_stack) /\ undo_transaction(r, i)
    BY <2>6, UndoPreserves
  <2>7. CASE redo(r)
    BY <2>7, RedoPreserves
  <2>8. CASE Receive(r)
    BY <2>8, ReceivePreserves
  <2>9. CASE \/ \E o \in ops : o.kind = "Edit" /\ wait_for_edits(r, o.timestamp)
             \/ \E q \in Replicas : wait_for_version(r, version[q])
             \/ give_up_waiting(r)
    BY <2>9, WaitPreserves
  <2> QED
    BY <2>1, <2>2, <2>3, <2>4, <2>5, <2>6, <2>7, <2>8, <2>9
<1> QED
  BY <1>1, <1>2

\* The invariant holds in every state the replicas reach.
THEOREM Invariant == Spec => []IInv
<1>1. Init => IInv
  BY StartOK
<1>2. IInv /\ [Next]_vars => IInv'
  BY StepPreserves
<1> QED
  BY <1>1, <1>2, PTL DEF Spec

-----------------------------------------------------------------------------
(* The properties *)

\* The state has the shape the code's types give it and the clock of a replica is ahead
\* of all it has applied: TypeOK, for all replicas and bounds (Lamport::observe).
THEOREM Typing == Spec => []TypeOK
<1>1. IInv => TypeOK
  <2> SUFFICES ASSUME IInv, NEW r \in Replicas
               PROVE  /\ \A i \in DOMAIN fragments[r] :
                            /\ fragments[r][i].timestamp \in Timestamps
                            /\ fragments[r][i].deletions \subseteq Timestamps
                            /\ fragments[r][i].visible \in BOOLEAN
                      /\ \A q \in Replicas : version[r][q] < lamport_clock[r]
                      /\ deferred_ops[r] \subseteq ops
                      /\ history[r].depth \in 0 .. 1
                      /\ waits[r].edits \subseteq Timestamps
    BY DEF TypeOK
  <2> DEFINE S == Seen(ops, version[r])
  <2>1. BufOK(ops, Buffer(r)) /\ Shape
    BY DEF IInv
  <2>2. /\ TextOK(S, fragments[r], undo_map[r])
        /\ \A q \in Replicas : version[r][q] < lamport_clock[r]
        /\ waits[r].edits \subseteq {o.timestamp : o \in ops}
    BY <2>1 DEF BufOK, Buffer
  <2>3. EditStamps(S) \subseteq Timestamps /\ waits[r].edits \subseteq Timestamps
    BY <2>2 DEF EditStamps, Seen, Timestamps
  <2>4. ASSUME NEW c \in Known(S) PROVE c[1] \in Timestamps
    <3>1. CASE c \in BaseText
      BY <3>1 DEF BaseText, Timestamps
    <3>2. CASE \E o \in S : c \in Chars(o)
      BY <3>2 DEF Chars, Timestamps, Seen
    <3> QED
      BY <3>1, <3>2 DEF Known
  <2>5. ASSUME NEW i \in DOMAIN fragments[r]
        PROVE  /\ fragments[r][i].timestamp \in Timestamps
               /\ fragments[r][i].deletions \subseteq Timestamps
               /\ fragments[r][i].visible \in BOOLEAN
    <3>1. Id(fragments[r][i]) \in Known(S) /\ fragments[r][i].deletions \subseteq EditStamps(S)
      BY <2>2 DEF TextOK
    <3>2. fragments[r][i].timestamp \in Timestamps
      BY <2>4, <3>1 DEF Id
    <3>3. fragments[r][i] \in FragmentType
      BY <2>1 DEF Shape
    <3> QED
      BY <2>3, <3>1, <3>2, <3>3 DEF FragmentType
  <2>6. deferred_ops[r] \subseteq ops /\ history[r].depth \in 0 .. 1
    BY <2>1 DEF Shape, HistoryType
  <2> QED
    BY <2>2, <2>3, <2>5, <2>6
<1> QED
  BY <1>1, Invariant, PTL

\* The characters of an edit a replica has applied.
Offsets(fs, t) == {fs[i].offset : i \in {j \in DOMAIN fs : fs[j].timestamp = t}}

\* They are those the operation inserts.
LEMMA OffsetsOf ==
  ASSUME NEW os, OpsOK(os), NEW S \in SUBSET os, NEW fs, NEW undos, TextOK(S, fs, undos),
         NEW o \in S, o.kind = "Edit"
  PROVE  Offsets(fs, o.timestamp) = {c[2] : c \in Chars(o)}
<1>1. ASSUME NEW c \in Known(S), c[1] = o.timestamp PROVE c \in Chars(o)
  <2>1. o.timestamp[1] > 1 /\ o.timestamp[1] \in Nat
    BY DEF OpsOK, OpType, Stamps
  <2>2. c \notin BaseText
    <3> SUFFICES ASSUME c \in BaseText PROVE FALSE
      OBVIOUS
    <3>1. c[1] = <<1, 0>>
      BY DEF BaseText
    <3>2. o.timestamp[1] = 1
      BY <1>1, <3>1
    <3> QED
      BY <2>1, <3>2
  <2>3. PICK p \in S : c \in Chars(p)
    BY <2>2 DEF Known
  <2>4. c[1] = p.timestamp
    BY <2>3 DEF Chars
  <2>5. p = o
    BY <1>1, <2>4 DEF OpsOK
  <2> QED
    BY <2>3, <2>5
<1>2. \A c \in Chars(o) : c \in Known(S) /\ c[1] = o.timestamp
  BY DEF Known, Chars
<1>3. ASSUME NEW i \in DOMAIN fs, fs[i].timestamp = o.timestamp
      PROVE  fs[i].offset \in {c[2] : c \in Chars(o)}
  <2>1. Id(fs[i]) \in Known(S) /\ Id(fs[i])[1] = o.timestamp /\ Id(fs[i])[2] = fs[i].offset
    BY <1>3 DEF TextOK, Id
  <2>2. Id(fs[i]) \in Chars(o)
    BY <1>1, <2>1
  <2> QED
    BY <2>1, <2>2
<1>4. ASSUME NEW c \in Chars(o)
      PROVE  \E i \in DOMAIN fs : fs[i].timestamp = o.timestamp /\ fs[i].offset = c[2]
  <2>1. PICK i \in DOMAIN fs : Id(fs[i]) = c
    BY <1>2 DEF TextOK
  <2>2. fs[i].timestamp = c[1] /\ fs[i].offset = c[2]
    BY <2>1 DEF Id
  <2> QED
    BY <1>2, <2>2
<1> QED
  BY <1>3, <1>4 DEF Offsets

\* A version names only operations that have left their mark, and all that they depend
\* on: Causal (can_apply_op, deferred_replicas, Global::observe).
THEOREM VersionsAreCausal == Spec => []Causal
<1>1. IInv => Causal
  <2> SUFFICES ASSUME IInv, NEW r \in Replicas, NEW o \in ops,
                      observed(version[r], o.timestamp)
               PROVE  /\ observed_all(version[r], o.version)
                      /\ o.kind = "Edit" =>
                           Offsets(fragments[r], o.timestamp)
                             = Offsets(fragments[o.timestamp[2]], o.timestamp)
                      /\ o.kind = "Undo" =>
                           \A c \in o.counts :
                             [edit |-> c.edit, undo |-> o.timestamp, count |-> c.count]
                               \in undo_map[r]
    BY Zenon DEF Causal, Offsets
  <2> DEFINE q == o.timestamp[2]
  <2>1. /\ OpsOK(ops) /\ Own /\ \A s \in Replicas : BufOK(ops, Buffer(s))
    BY DEF IInv
  <2>2. q \in Replicas /\ observed(version[q], o.timestamp)
    BY <2>1 DEF OpsOK, OpType, Stamps, Own
  <2>3. ASSUME NEW s \in Replicas
        PROVE  /\ TextOK(Seen(ops, version[s]), fragments[s], undo_map[s])
               /\ Cut(ops, version[s])
               /\ undo_map[s] = UndosOf(Seen(ops, version[s]))
    BY <2>1 DEF BufOK, Buffer
  <2>4. observed_all(version[r], o.version)
    BY <2>3 DEF Cut
  <2>5. ASSUME o.kind = "Edit", NEW s \in Replicas, observed(version[s], o.timestamp)
        PROVE  Offsets(fragments[s], o.timestamp) = {c[2] : c \in Chars(o)}
    <3>1. o \in Seen(ops, version[s]) /\ Seen(ops, version[s]) \in SUBSET ops
      BY <2>5 DEF Seen
    <3> QED
      BY <2>1, <2>3, <2>5, <3>1, OffsetsOf
  <2>6. ASSUME o.kind = "Undo", NEW c \in o.counts
        PROVE  [edit |-> c.edit, undo |-> o.timestamp, count |-> c.count] \in undo_map[r]
    <3>1. o \in Seen(ops, version[r])
      BY DEF Seen
    <3>2. [edit |-> c.edit, undo |-> o.timestamp, count |-> c.count] \in Entries(o)
      BY DEF Entries
    <3> QED
      BY <2>3, <2>6, <3>1, <3>2 DEF UndosOf
  <2> QED
    BY <2>2, <2>4, <2>5, <2>6
<1> QED
  BY <1>1, Invariant, PTL

\* The cached visibility of a fragment is the one its deletions and the undo map give:
\* VisibleAgrees (apply_remote_edit, apply_undo).
THEOREM VisibilityIsCurrent == Spec => []VisibleAgrees
<1>1. IInv => VisibleAgrees
  <2> SUFFICES ASSUME IInv, NEW r \in Replicas, NEW i \in DOMAIN fragments[r]
               PROVE  fragments[r][i].visible = is_visible(fragments[r][i], undo_map[r])
    BY DEF VisibleAgrees
  <2>1. TextOK(Seen(ops, version[r]), fragments[r], undo_map[r])
    BY DEF IInv, BufOK, Buffer
  <2> QED
    BY <2>1 DEF TextOK
<1> QED
  BY <1>1, Invariant, PTL

\* What arrived is applied or queued, and nothing in the queue could be applied:
\* QueueIsLate (apply_ops, flush_deferred_ops).
THEOREM QueueHoldsTheLate == Spec => []QueueIsLate
<1>1. IInv => QueueIsLate
  <2> SUFFICES ASSUME IInv, NEW r \in Replicas
               PROVE  /\ \A o \in delivered[r] : \/ observed(version[r], o.timestamp)
                                                 \/ o \in deferred_ops[r]
                      /\ \A o \in deferred_ops[r] : ~observed_all(version[r], o.version)
                      /\ deferred_replicas[r] = {o.timestamp[2] : o \in deferred_ops[r]}
    BY DEF QueueIsLate
  <2>1. BufOK(ops, Buffer(r)) /\ QueueOK(r)
    BY DEF IInv
  <2>2. deferred_replicas[r] = {o.timestamp[2] : o \in deferred_ops[r]}
    BY <2>1 DEF BufOK, Buffer
  <2> QED
    BY <2>1, <2>2 DEF QueueOK
<1> QED
  BY <1>1, Invariant, PTL

\* What is on the undo stack is in effect, and what is on the redo stack is undone:
\* StacksAgree (undo_or_redo, end_transaction, group_trailing).
THEOREM StacksAreRight == Spec => []StacksAgree
<1>1. IInv => StacksAgree
  <2> SUFFICES ASSUME IInv, NEW r \in Replicas
               PROVE  /\ \A T \in ToSet(history[r].undo_stack) :
                            \A e \in T : ~is_undone(undo_map[r], e)
                      /\ \A T \in ToSet(history[r].redo_stack) :
                            \A e \in T : is_undone(undo_map[r], e)
    BY DEF StacksAgree
  <2> DEFINE h == history[r]
  <2>1. OpsOK(ops) /\ Own /\ BufOK(ops, Buffer(r)) /\ HistOK(ops, r, h)
    BY DEF IInv
  <2>2. undo_map[r] = UndosOf(Seen(ops, version[r]))
    BY <2>1 DEF BufOK, Buffer
  <2>3. \A o \in ops : o.timestamp[2] = r => observed(version[r], o.timestamp)
    BY <2>1 DEF Own
  <2>4. ASSUME NEW e, e[2] = r PROVE is_undone(undo_map[r], e) = is_undone(UndosOf(ops), e)
    <3> DEFINE v == version[r]
    <3>1. \A o \in ops : o.timestamp[2] = r => observed(v, o.timestamp)
      BY <2>3
    <3>2. undo_map[r] = UndosOf(Seen(ops, v))
      BY <2>2
    <3> HIDE DEF v
    <3>3. is_undone(UndosOf(Seen(ops, v)), e) = is_undone(UndosOf(ops), e)
      BY <2>1, <2>4, <3>1, OwnUndos, Zenon
    <3> QED
      BY <3>2, <3>3
  <2>5. ASSUME NEW T \in ToSet(h.undo_stack), NEW e \in T PROVE ~is_undone(undo_map[r], e)
    <3>1. e \in Effects(h.undo_stack)
      BY DEF Effects, ToSet
    <3>2. e[2] = r /\ ~is_undone(UndosOf(ops), e)
      BY <2>1, <3>1 DEF HistOK
    <3> QED
      BY <2>4, <3>2
  <2>6. ASSUME NEW T \in ToSet(h.redo_stack), NEW e \in T PROVE is_undone(undo_map[r], e)
    <3>1. e \in Effects(h.redo_stack)
      BY DEF Effects, ToSet
    <3>2. e[2] = r /\ is_undone(UndosOf(ops), e)
      BY <2>1, <3>1 DEF HistOK
    <3> QED
      BY <2>4, <3>2
  <2> QED
    BY <2>5, <2>6
<1> QED
  BY <1>1, Invariant, PTL
=============================================================================
