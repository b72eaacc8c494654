-------------------------- MODULE CpuManagerProofs --------------------------
(***************************************************************************)
(* The rand_normal schedule, what Schedule() measures and what it asks of  *)
(* the workers, proved for every number of points and workers, every       *)
(* shuffle, every pace of the ticks and every load of the others.          *)
(*                                                                         *)
(* The points of a schedule, capped or not, average to the load asked for  *)
(* (PointsKeepTheAverage): rounding by largest remainders leaves nothing   *)
(* over (LargestRemainders), and the rounds of the water-filling end with  *)
(* every point that its share takes beyond the cap clipped to it           *)
(* (AtCapIsSettled).                                                       *)
(*                                                                         *)
(* PeriodInv is the invariant of the walk: its points add up to the load   *)
(* asked for, and a period uses them in the order they stand in.           *)
(* ControlInv adds that busy time and the time it took were collected      *)
(* together (Measured), and the types, among them that a ring's running    *)
(* sum is that of its samples (SamplerOK).                                 *)
(***************************************************************************)
EXTENDS CpuManager, FiniteSetTheorems, WellFoundedInduction, TLAPS

-----------------------------------------------------------------------------
(* Sums over finite sets, as the folds make them up.                       *)

\* The elements in the order that a fold takes them, and a fold that adds f up.
Some(T) == CHOOSE x \in T : TRUE

Total(f, S) == MapThenFoldSet(+, 0, LAMBDA x : f[x], LAMBDA T : CHOOSE x \in T : TRUE, S)

\* What holds of 0, and of the next of each, holds up to n.
LEMMA UpTo ==
  ASSUME NEW n \in Nat, NEW B, 0 \in B, \A k \in 0 .. n - 1 : k \in B => k + 1 \in B
  PROVE  n \in B
<1> DEFINE Out == {k \in 0 .. n : k \notin B}
<1> SUFFICES ASSUME n \notin B PROVE FALSE
  OBVIOUS
<1>1. Out # {} /\ Out \subseteq Nat
  OBVIOUS
<1>2. PICK k \in Out : \A j \in Out : ~(<<j, k>> \in OpToRel(<, Nat))
  <2> HIDE DEF Out
  <2> QED
    BY <1>1, WFMin, NatLessThanWellFounded
<1>3. k # 0 /\ k - 1 \in 0 .. n - 1 /\ k \in Nat
  OBVIOUS
<1>4. k - 1 \in Out
  BY <1>3
<1>5. <<k - 1, k>> \in OpToRel(<, Nat)
  BY <1>3 DEF OpToRel
<1>6. QED
  BY <1>2, <1>4, <1>5

\* What holds of the empty set, and of a set where it holds of those with an
\* element less, holds of every finite set.
LEMMA SubsetInduction ==
  ASSUME NEW S, IsFiniteSet(S), NEW B, {} \in B,
         \A T \in SUBSET S : T # {} /\ (\A x \in T : T \ {x} \in B) => T \in B
  PROVE  \A T \in SUBSET S : T \in B
<1> DEFINE n == Cardinality(S)
           C == {k \in 0 .. n : \A T \in SUBSET S : Cardinality(T) = k => T \in B}
<1>0. n \in Nat
  BY FS_CardinalityType
<1>1. \A T \in SUBSET S : IsFiniteSet(T) /\ Cardinality(T) \in 0 .. n
  BY <1>0, FS_Subset, FS_CardinalityType
<1>2. 0 \in C
  <2>1. \A T \in SUBSET S : Cardinality(T) = 0 => T = {}
    BY <1>1, FS_EmptySet
  <2> HIDE DEF n
  <2> QED
    BY <2>1, <1>0
<1>3. ASSUME NEW k \in 0 .. n - 1, k \in C PROVE k + 1 \in C
  <2>1. ASSUME NEW T \in SUBSET S, Cardinality(T) = k + 1
      PROVE  T \in B
    <3>1. T # {}
      <4>1. Cardinality(T) # 0
        BY <2>1, <1>0
      <4> QED
        BY <4>1, FS_EmptySet
    <3>2. ASSUME NEW x \in T PROVE T \ {x} \in B
      <4>1. Cardinality(T \ {x}) = k
        BY <2>1, <1>1, FS_RemoveElement
      <4> QED
        BY <4>1, <1>3
    <3> QED
      BY <3>1, <3>2
  <2>2. k + 1 \in 0 .. n
    BY <1>0
  <2> HIDE DEF n
  <2> QED
    BY <2>1, <2>2
<1>4. n \in C
  <2> HIDE DEF n, C
  <2> QED
    BY <1>0, <1>2, <1>3, UpTo
<1>5. \A k \in 0 .. n : k \in C
  <2> TAKE m \in 0 .. n
  <2>0. \A k \in 0 .. m - 1 : k \in C => k + 1 \in C
    BY <1>0, <1>3
  <2> HIDE DEF n, C
  <2> QED
    BY <2>0, <1>0, <1>2, UpTo
<1> QED
  BY <1>1, <1>5

\* The partial totals that the fold is made of.
IsTotal(t, f, S) ==
  /\ t \in [SUBSET S -> Nat]
  /\ \A T \in SUBSET S : t[T] = IF T = {} THEN 0 ELSE f[Some(T)] + t[T \ {Some(T)}]

LEMMA TotalsExist ==
  ASSUME NEW S, IsFiniteSet(S), NEW f \in [S -> Nat]
  PROVE  \E t : IsTotal(t, f, S)
<1> DEFINE n == Cardinality(S)
           Small(k) == {T \in SUBSET S : Cardinality(T) <= k}
           Totals(t, k) == \A T \in Small(k) :
                             t[T] = IF T = {} THEN 0 ELSE f[Some(T)] + t[T \ {Some(T)}]
           B == {k \in 0 .. n : \E t \in [Small(k) -> Nat] : Totals(t, k)}
<1>0. n \in Nat
  BY FS_CardinalityType
<1>1. \A T \in SUBSET S : IsFiniteSet(T) /\ Cardinality(T) \in 0 .. n
  BY <1>0, FS_Subset, FS_CardinalityType
<1>2. \A T \in SUBSET S : T # {} =>
        /\ Some(T) \in T /\ f[Some(T)] \in Nat /\ T \ {Some(T)} \in SUBSET S
        /\ Cardinality(T \ {Some(T)}) = Cardinality(T) - 1
  <2> SUFFICES ASSUME NEW T \in SUBSET S, T # {}
               PROVE  /\ Some(T) \in T /\ f[Some(T)] \in Nat /\ T \ {Some(T)} \in SUBSET S
                      /\ Cardinality(T \ {Some(T)}) = Cardinality(T) - 1
    OBVIOUS
  <2>1. Some(T) \in T
    BY DEF Some
  <2> QED
    BY <2>1, <1>1, FS_RemoveElement
<1>3. 0 \in B
  <2> DEFINE e == [T \in Small(0) |-> 0]
  <2>1. \A T \in Small(0) : T = {}
    <3> SUFFICES ASSUME NEW T \in SUBSET S, Cardinality(T) <= 0 PROVE T = {}
      OBVIOUS
    <3>1. Cardinality(T) = 0
      BY <1>0, <1>1
    <3> QED
      BY <3>1, <1>1, FS_EmptySet
  <2>2. e \in [Small(0) -> Nat] /\ Totals(e, 0)
    BY <2>1
  <2>3. 0 \in 0 .. n
    BY <1>0
  <2> HIDE DEF e, Totals, n, Small
  <2> QED
    BY <2>2, <2>3
<1>4. ASSUME NEW k \in 0 .. n - 1, k \in B PROVE k + 1 \in B
  <2>1. PICK t \in [Small(k) -> Nat] : Totals(t, k)
    BY <1>4
  <2> DEFINE h == [T \in Small(k + 1) |->
                     IF T \in Small(k) THEN t[T] ELSE f[Some(T)] + t[T \ {Some(T)}]]
  <2>0. k \in Nat /\ k + 1 \in 0 .. n /\ {} \in Small(k)
    <3>1. Cardinality({}) = 0
      BY FS_EmptySet
    <3>2. k \in Nat /\ k + 1 \in 0 .. n
      BY <1>0
    <3> QED
      BY <3>1, <3>2
  <2>2. \A T \in Small(k + 1) : T # {} => T \ {Some(T)} \in Small(k) /\ f[Some(T)] \in Nat
    <3> SUFFICES ASSUME NEW T \in Small(k + 1), T # {}
                 PROVE  T \ {Some(T)} \in Small(k) /\ f[Some(T)] \in Nat
      OBVIOUS
    <3>1. Cardinality(T) \in Int /\ Cardinality(T) <= k + 1
      BY <1>0, <1>1
    <3>2. Cardinality(T) - 1 <= k
      BY <3>1, <2>0
    <3>3. T \in SUBSET S /\ T # {}
      OBVIOUS
    <3>4. /\ f[Some(T)] \in Nat /\ T \ {Some(T)} \in SUBSET S
          /\ Cardinality(T \ {Some(T)}) = Cardinality(T) - 1
      BY <3>3, <1>2
    <3> QED
      BY <3>2, <3>4
  <2>3. \A T \in Small(k) : T \in Small(k + 1)
    <3> SUFFICES ASSUME NEW T \in Small(k) PROVE Cardinality(T) <= k + 1
      OBVIOUS
    <3> QED
      BY <1>0, <1>1, <2>0
  <2>4. h \in [Small(k + 1) -> Nat]
    <3>1. ASSUME NEW T \in Small(k + 1)
          PROVE  (IF T \in Small(k) THEN t[T] ELSE f[Some(T)] + t[T \ {Some(T)}]) \in Nat
      <4>1. CASE T \in Small(k)
        <5> HIDE DEF Small
        <5> QED
          BY <4>1
      <4>2. CASE T \notin Small(k)
        <5>1. T # {}
          <6> HIDE DEF Small
          <6> QED
            BY <4>2, <2>0
        <5>2. T \ {Some(T)} \in Small(k) /\ f[Some(T)] \in Nat
          BY <5>1, <2>2
        <5> HIDE DEF Small
        <5> QED
          BY <4>2, <5>2
      <4> QED
        BY <4>1, <4>2
    <3> HIDE DEF Small
    <3> QED
      BY <3>1
  <2>5. Totals(h, k + 1)
    <3> SUFFICES ASSUME NEW T \in Small(k + 1)
                 PROVE  h[T] = IF T = {} THEN 0 ELSE f[Some(T)] + h[T \ {Some(T)}]
      OBVIOUS
    <3>1. T # {} => h[T \ {Some(T)}] = t[T \ {Some(T)}]
      <4> HIDE DEF Small
      <4> QED
        BY <2>2, <2>3
    <3>2. CASE T \in Small(k)
      <4>1. t[T] = IF T = {} THEN 0 ELSE f[Some(T)] + t[T \ {Some(T)}]
        BY <3>2, <2>1
      <4> HIDE DEF Small
      <4> QED
        BY <3>1, <3>2, <4>1
    <3>3. CASE T \notin Small(k)
      <4>1. T # {}
        <5> HIDE DEF Small
        <5> QED
          BY <3>3, <2>0
      <4> HIDE DEF Small
      <4> QED
        BY <3>1, <3>3, <4>1
    <3> QED
      BY <3>2, <3>3
  <2> HIDE DEF h, Totals, n, Small
  <2> QED
    BY <2>0, <2>4, <2>5
<1>5. n \in B
  <2> HIDE DEF B, n
  <2> QED
    BY <1>0, <1>3, <1>4, UpTo
<1>6. PICK t \in [Small(n) -> Nat] : Totals(t, n)
  BY <1>5
<1>7. Small(n) = SUBSET S
  <2>1. \A T \in SUBSET S : Cardinality(T) <= n
    BY <1>0, <1>1
  <2> HIDE DEF n
  <2> QED
    BY <2>1
<1> HIDE DEF Small
<1> QED
  BY <1>6, <1>7 DEF IsTotal

\* What a fold makes up is one of them.
LEMMA FoldIsTotal ==
  ASSUME NEW S, IsFiniteSet(S), NEW f \in [S -> Nat], NEW iter,
         iter = [T \in SUBSET S |-> IF T = {} THEN 0 ELSE f[Some(T)] + iter[T \ {Some(T)}]]
  PROVE  IsTotal(iter, f, S)
<1>1. \A T \in SUBSET S : iter[T] = IF T = {} THEN 0 ELSE f[Some(T)] + iter[T \ {Some(T)}]
  OBVIOUS
<1> DEFINE B == {T \in SUBSET S : iter[T] \in Nat}
<1>2. {} \in B
  <2>1. {} \in SUBSET S
    OBVIOUS
  <2> QED
    BY <2>1, <1>1
<1>3. ASSUME NEW T \in SUBSET S, T # {}, \A x \in T : T \ {x} \in B
      PROVE  T \in B
  <2>1. Some(T) \in T
    BY <1>3 DEF Some
  <2>2. iter[T] = f[Some(T)] + iter[T \ {Some(T)}]
    BY <1>1, <1>3
  <2>3. f[Some(T)] \in Nat /\ iter[T \ {Some(T)}] \in Nat
    BY <2>1, <1>3
  <2> QED
    BY <2>2, <2>3
<1>4. \A T \in SUBSET S : T \in B
  <2> HIDE DEF B
  <2> QED
    BY <1>2, <1>3, SubsetInduction
<1>5. iter \in [SUBSET S -> Nat]
  BY <1>4
<1> QED
  BY <1>1, <1>5 DEF IsTotal

LEMMA TotalIsLast ==
  ASSUME NEW S, IsFiniteSet(S), NEW f \in [S -> Nat]
  PROVE  \E t : IsTotal(t, f, S) /\ Total(f, S) = t[S]
<1> DEFINE iter == CHOOSE t : t = [T \in SUBSET S |-> IF T = {} THEN 0 ELSE f[Some(T)] + t[T \ {Some(T)}]]
<1>1. PICK g : IsTotal(g, f, S)
  BY TotalsExist
<1>2. g = [T \in SUBSET S |-> IF T = {} THEN 0 ELSE f[Some(T)] + g[T \ {Some(T)}]]
  BY <1>1 DEF IsTotal
<1>3. iter = [T \in SUBSET S |-> IF T = {} THEN 0 ELSE f[Some(T)] + iter[T \ {Some(T)}]]
  BY <1>2, Zenon
<1>4. Total(f, S) = iter[S]
  BY DEF Total, MapThenFoldSet, Some
<1> HIDE DEF iter
<1> QED
  BY <1>3, <1>4, FoldIsTotal

\* A total is the same whatever element is added last.
AddsAny(t, f, S) == \A T \in SUBSET S : \A x \in T : t[T] = f[x] + t[T \ {x}]

LEMMA TotalWithout ==
  ASSUME NEW S, IsFiniteSet(S), NEW f \in [S -> Nat]
  PROVE  \A t : IsTotal(t, f, S) => AddsAny(t, f, S)
<1> SUFFICES ASSUME NEW t, IsTotal(t, f, S)
             PROVE  \A T \in SUBSET S : \A x \in T : t[T] = f[x] + t[T \ {x}]
  BY DEF AddsAny
<1> DEFINE B == {T \in SUBSET S : \A x \in T : t[T] = f[x] + t[T \ {x}]}
<1>0. \A T \in SUBSET S : t[T] \in Nat /\ (T # {} => t[T] = f[Some(T)] + t[T \ {Some(T)}])
  BY DEF IsTotal
<1>1. {} \in B
  OBVIOUS
<1>2. ASSUME NEW T \in SUBSET S, T # {}, \A x \in T : T \ {x} \in B
      PROVE  T \in B
  <2> SUFFICES ASSUME NEW x \in T PROVE t[T] = f[x] + t[T \ {x}]
    OBVIOUS
  <2> DEFINE y == Some(T)
  <2>1. y \in T
    BY <1>2 DEF Some
  <2>2. t[T] = f[y] + t[T \ {y}]
    BY <1>0, <1>2
  <2> HIDE DEF y
  <2>3. CASE x = y
    BY <2>2, <2>3
  <2>4. CASE x # y
    <3>1. t[T \ {y}] = f[x] + t[(T \ {y}) \ {x}]
      BY <1>2, <2>1, <2>4
    <3>2. t[T \ {x}] = f[y] + t[(T \ {x}) \ {y}]
      BY <1>2, <2>1, <2>4
    <3>3. (T \ {y}) \ {x} = (T \ {x}) \ {y}
      OBVIOUS
    <3>4. f[x] \in Nat /\ f[y] \in Nat /\ t[(T \ {x}) \ {y}] \in Nat
      BY <1>0, <2>1
    <3> DEFINE rest == t[(T \ {x}) \ {y}]
    <3>5. t[T] = f[y] + (f[x] + rest) /\ t[T \ {x}] = f[y] + rest /\ rest \in Nat
      BY <2>2, <3>1, <3>2, <3>3, <3>4
    <3> HIDE DEF rest
    <3> QED
      BY <3>4, <3>5
  <2> QED
    BY <2>3, <2>4
<1>3. \A T \in SUBSET S : T \in B
  <2> HIDE DEF B
  <2> QED
    BY <1>1, <1>2, SubsetInduction
<1> QED
  BY <1>3

LEMMA TotalIsNat ==
  ASSUME NEW S, IsFiniteSet(S), NEW f \in [S -> Nat]
  PROVE  Total(f, S) \in Nat
<1>1. PICK t : IsTotal(t, f, S) /\ Total(f, S) = t[S]
  BY TotalIsLast
<1> QED
  BY <1>1 DEF IsTotal

\* Totals of functions that agree on a set are the same within it.
LEMMA SameTotals ==
  ASSUME NEW S, NEW Q, NEW f, NEW g, NEW t, NEW u, IsTotal(t, f, S), IsTotal(u, g, Q),
         NEW R, IsFiniteSet(R), R \subseteq S, R \subseteq Q, \A x \in R : f[x] = g[x]
  PROVE  t[R] = u[R]
<1> DEFINE B == {T \in SUBSET R : t[T] = u[T]}
<1>1. {} \in B
  BY DEF IsTotal
<1>2. ASSUME NEW T \in SUBSET R, T # {}, \A x \in T : T \ {x} \in B
      PROVE  T \in B
  <2>1. Some(T) \in T
    BY <1>2 DEF Some
  <2>2. t[T] = f[Some(T)] + t[T \ {Some(T)}] /\ u[T] = g[Some(T)] + u[T \ {Some(T)}]
    BY <1>2 DEF IsTotal
  <2> QED
    BY <1>2, <2>1, <2>2
<1>3. \A T \in SUBSET R : T \in B
  <2> HIDE DEF B
  <2> QED
    BY <1>1, <1>2, SubsetInduction
<1> QED
  BY <1>3

\* A total is one part and the total of the rest.
LEMMA TotalOfRest ==
  ASSUME NEW S, IsFiniteSet(S), NEW f \in [S -> Nat], NEW k \in S
  PROVE  Total(f, S) = f[k] + Total([x \in S \ {k} |-> f[x]], S \ {k})
<1> DEFINE R == S \ {k}
           g == [x \in R |-> f[x]]
<1>1. IsFiniteSet(R) /\ g \in [R -> Nat]
  BY FS_RemoveElement
<1>2. PICK t : IsTotal(t, f, S) /\ Total(f, S) = t[S]
  BY TotalIsLast
<1>3. PICK u : IsTotal(u, g, R) /\ Total(g, R) = u[R]
  <2> HIDE DEF g, R
  <2> QED
    BY <1>1, TotalIsLast
<1>4. t[S] = f[k] + t[R]
  BY <1>2, TotalWithout DEF AddsAny
<1>5. t[R] = u[R]
  <2>1. R \subseteq S /\ \A x \in R : f[x] = g[x]
    OBVIOUS
  <2> HIDE DEF g, R
  <2> QED
    BY <1>1, <1>2, <1>3, <2>1, SameTotals
<1> QED
  BY <1>2, <1>3, <1>4, <1>5

\* A total of sums is the sum of the totals.
IsSum(h, f, g, S) == \A x \in S : h[x] = f[x] + g[x]

LEMMA TotalOfSums ==
  ASSUME NEW S, IsFiniteSet(S), NEW f \in [S -> Nat], NEW g \in [S -> Nat], NEW h \in [S -> Nat],
         IsSum(h, f, g, S)
  PROVE  Total(h, S) = Total(f, S) + Total(g, S)
<1>1. PICK t : IsTotal(t, f, S) /\ Total(f, S) = t[S]
  BY TotalIsLast
<1>2. PICK u : IsTotal(u, g, S) /\ Total(g, S) = u[S]
  BY TotalIsLast
<1>3. PICK v : IsTotal(v, h, S) /\ Total(h, S) = v[S]
  BY TotalIsLast
<1>4. AddsAny(t, f, S) /\ AddsAny(u, g, S) /\ AddsAny(v, h, S)
  BY <1>1, <1>2, <1>3, TotalWithout
<1> DEFINE B == {T \in SUBSET S : v[T] = t[T] + u[T]}
<1>5. {} \in B
  <2>1. t[{}] = 0 /\ u[{}] = 0 /\ v[{}] = 0
    BY <1>1, <1>2, <1>3 DEF IsTotal
  <2> QED
    BY <2>1
<1>6. ASSUME NEW T \in SUBSET S, T # {}, \A x \in T : T \ {x} \in B
      PROVE  T \in B
  <2>1. PICK x \in T : TRUE
    BY <1>6
  <2> DEFINE R == T \ {x}
  <2>2. v[T] = h[x] + v[R] /\ t[T] = f[x] + t[R] /\ u[T] = g[x] + u[R]
    BY <1>4 DEF AddsAny
  <2>3. t[R] \in Nat /\ u[R] \in Nat
    BY <1>1, <1>2 DEF IsTotal
  <2>4. v[R] = t[R] + u[R] /\ h[x] = f[x] + g[x] /\ f[x] \in Nat /\ g[x] \in Nat
    BY <1>6 DEF IsSum
  <2> HIDE DEF R
  <2>5. v[T] = t[T] + u[T]
    BY <2>2, <2>3, <2>4
  <2> QED
    BY <2>5
<1>7. \A T \in SUBSET S : T \in B
  <2> HIDE DEF B
  <2> QED
    BY <1>5, <1>6, SubsetInduction
<1> QED
  BY <1>1, <1>2, <1>3, <1>7

\* A total of multiples is the multiple of the total.
IsMultiple(h, c, f, S) == \A x \in S : h[x] = c * f[x]

LEMMA TotalOfMultiples ==
  ASSUME NEW S, IsFiniteSet(S), NEW f \in [S -> Nat], NEW h \in [S -> Nat], NEW c \in Nat,
         IsMultiple(h, c, f, S)
  PROVE  Total(h, S) = c * Total(f, S)
<1>1. PICK t : IsTotal(t, f, S) /\ Total(f, S) = t[S]
  BY TotalIsLast
<1>2. PICK v : IsTotal(v, h, S) /\ Total(h, S) = v[S]
  BY TotalIsLast
<1>3. AddsAny(t, f, S) /\ AddsAny(v, h, S)
  BY <1>1, <1>2, TotalWithout
<1> DEFINE B == {T \in SUBSET S : v[T] = c * t[T]}
<1>4. {} \in B
  <2>1. t[{}] = 0 /\ v[{}] = 0
    BY <1>1, <1>2 DEF IsTotal
  <2> QED
    BY <2>1
<1>5. ASSUME NEW T \in SUBSET S, T # {}, \A x \in T : T \ {x} \in B
      PROVE  T \in B
  <2>1. PICK x \in T : TRUE
    BY <1>5
  <2> DEFINE R == T \ {x}
  <2>2. v[T] = h[x] + v[R] /\ t[T] = f[x] + t[R]
    BY <1>3 DEF AddsAny
  <2>3. t[R] \in Nat
    BY <1>1 DEF IsTotal
  <2>4. v[R] = c * t[R] /\ h[x] = c * f[x] /\ f[x] \in Nat
    BY <1>5 DEF IsMultiple
  <2> HIDE DEF R
  <2>5. v[T] = c * t[T]
    BY <2>2, <2>3, <2>4
  <2> QED
    BY <2>5
<1>6. \A T \in SUBSET S : T \in B
  <2> HIDE DEF B
  <2> QED
    BY <1>4, <1>5, SubsetInduction
<1> QED
  BY <1>1, <1>2, <1>6

\* What is added up of a set is in total at most its bound for each of them.
LEMMA TotalBounded ==
  ASSUME NEW S, IsFiniteSet(S), NEW f \in [S -> Nat], NEW c \in Nat, \A x \in S : f[x] <= c
  PROVE  Total(f, S) <= c * Cardinality(S)
<1>1. PICK t : IsTotal(t, f, S) /\ Total(f, S) = t[S]
  BY TotalIsLast
<1>2. AddsAny(t, f, S)
  BY <1>1, TotalWithout
<1> DEFINE B == {T \in SUBSET S : t[T] <= c * Cardinality(T)}
<1>3. {} \in B
  <2>1. t[{}] = 0 /\ Cardinality({}) = 0
    BY <1>1, FS_EmptySet DEF IsTotal
  <2> QED
    BY <2>1
<1>4. ASSUME NEW T \in SUBSET S, T # {}, \A x \in T : T \ {x} \in B
      PROVE  T \in B
  <2>1. PICK x \in T : TRUE
    BY <1>4
  <2> DEFINE R == T \ {x}
             n == Cardinality(T)
  <2>2. t[T] = f[x] + t[R]
    BY <1>2 DEF AddsAny
  <2>3. IsFiniteSet(T) /\ n \in Nat /\ Cardinality(R) = n - 1
    BY FS_Subset, FS_CardinalityType, FS_RemoveElement
  <2>4. t[R] \in Nat /\ t[R] <= c * Cardinality(R) /\ f[x] \in Nat /\ f[x] <= c
    BY <1>1, <1>4 DEF IsTotal
  <2> HIDE DEF n, R
  <2>5. c * (n - 1) = c * n - c /\ c * n \in Int
    BY <2>3
  <2>6. t[T] <= c * n
    BY <2>2, <2>3, <2>4, <2>5
  <2> QED
    BY <2>6 DEF n
<1>5. \A T \in SUBSET S : T \in B
  <2> HIDE DEF B
  <2> QED
    BY <1>3, <1>4, SubsetInduction
<1> QED
  BY <1>1, <1>5

\* One for each of some is how many they are.
LEMMA TotalOfOnes ==
  ASSUME NEW S, IsFiniteSet(S), NEW R \in SUBSET S, NEW f \in [S -> Nat],
         \A x \in S : f[x] = IF x \in R THEN 1 ELSE 0
  PROVE  Total(f, S) = Cardinality(R)
<1>1. PICK t : IsTotal(t, f, S) /\ Total(f, S) = t[S]
  BY TotalIsLast
<1>2. AddsAny(t, f, S)
  BY <1>1, TotalWithout
<1> DEFINE B == {T \in SUBSET S : t[T] = Cardinality(T \cap R)}
<1>3. {} \in B
  <2>1. {} \cap R = {}
    OBVIOUS
  <2> QED
    BY <1>1, <2>1, FS_EmptySet DEF IsTotal
<1>4. ASSUME NEW T \in SUBSET S, T # {}, \A x \in T : T \ {x} \in B
      PROVE  T \in B
  <2>1. PICK x \in T : TRUE
    BY <1>4
  <2>2. t[T] = f[x] + t[T \ {x}] /\ t[T \ {x}] = Cardinality((T \ {x}) \cap R)
    BY <1>2, <1>4 DEF AddsAny
  <2>3. IsFiniteSet(T \cap R) /\ Cardinality(T \cap R) \in Nat
    BY FS_Subset, FS_CardinalityType
  <2>4. CASE x \in R
    <3>1. (T \ {x}) \cap R = (T \cap R) \ {x} /\ x \in T \cap R
      BY <2>4
    <3>2. Cardinality((T \cap R) \ {x}) = Cardinality(T \cap R) - 1
      BY <2>3, <3>1, FS_RemoveElement
    <3>3. f[x] = 1
      BY <2>4
    <3> DEFINE n == Cardinality(T \cap R)
    <3>4. t[T] = 1 + (n - 1) /\ n \in Nat
      BY <2>2, <2>3, <3>1, <3>2, <3>3, Zenon
    <3> HIDE DEF n
    <3>5. t[T] = n
      BY <3>4
    <3> USE DEF n
    <3> QED
      BY <3>5
  <2>5. CASE x \notin R
    <3>1. (T \ {x}) \cap R = T \cap R
      BY <2>5
    <3>2. t[T] = Cardinality(T \cap R)
      BY <2>2, <2>3, <2>5, <3>1
    <3> QED
      BY <3>2
  <2> QED
    BY <2>4, <2>5
<1>5. \A T \in SUBSET S : T \in B
  <2> HIDE DEF B
  <2> QED
    BY <1>3, <1>4, SubsetInduction
<1>6. S \cap R = R
  OBVIOUS
<1> QED
  BY <1>1, <1>5, <1>6

\* A total is the same in any order.
IsReordered(g, f, p, S) ==
  /\ \A i \in S : g[i] = f[p[i]]
  /\ \A i, j \in S : p[i] = p[j] => i = j

LEMMA TotalInOrder ==
  ASSUME NEW S, IsFiniteSet(S), NEW p \in [S -> S],
         NEW f \in [S -> Nat], NEW g \in [S -> Nat], IsReordered(g, f, p, S)
  PROVE  Total(g, S) = Total(f, S)
<1>1. PICK t : IsTotal(t, f, S) /\ Total(f, S) = t[S]
  BY TotalIsLast
<1>2. PICK u : IsTotal(u, g, S) /\ Total(g, S) = u[S]
  BY TotalIsLast
<1>3. AddsAny(t, f, S) /\ AddsAny(u, g, S)
  BY <1>1, <1>2, TotalWithout
<1> DEFINE Image(T) == {p[i] : i \in T}
           B == {T \in SUBSET S : u[T] = t[Image(T)]}
<1>4. {} \in B
  <2>1. Image({}) = {}
    OBVIOUS
  <2> HIDE DEF Image
  <2> QED
    BY <1>1, <1>2, <2>1 DEF IsTotal
<1>5. ASSUME NEW T \in SUBSET S, T # {}, \A x \in T : T \ {x} \in B
      PROVE  T \in B
  <2>1. PICK x \in T : TRUE
    BY <1>5
  <2>2. /\ Image(T) \in SUBSET S /\ p[x] \in Image(T)
        /\ Image(T \ {x}) = Image(T) \ {p[x]}
    BY DEF IsReordered
  <2>3. u[T \ {x}] = t[Image(T \ {x})]
    BY <1>5
  <2> HIDE DEF Image
  <2>4. u[T] = g[x] + u[T \ {x}] /\ t[Image(T)] = f[p[x]] + t[Image(T) \ {p[x]}]
    BY <1>3, <2>2 DEF AddsAny
  <2>5. u[T] = t[Image(T)]
    BY <2>2, <2>3, <2>4 DEF IsReordered
  <2> QED
    BY <2>5
<1>6. \A T \in SUBSET S : T \in B
  <2> HIDE DEF B
  <2> QED
    BY <1>4, <1>5, SubsetInduction
<1>7. Image(S) = S
  <2>1. p \in Injection(S, S)
    BY DEF Injection, IsInjective, IsReordered
  <2>2. p \in Surjection(S, S)
    BY <2>1, FS_Injection
  <2> QED
    BY <2>2 DEF Surjection
<1> HIDE DEF Image
<1> QED
  BY <1>1, <1>2, <1>6, <1>7

\* The fold over a part of a function's domain is the partial total there.
LEMMA TotalOfPart ==
  ASSUME NEW S, IsFiniteSet(S), NEW f \in [S -> Nat], NEW T \in SUBSET S, NEW t, IsTotal(t, f, S)
  PROVE  Total(f, T) = t[T]
<1> DEFINE g    == [x \in T |-> f[x]]
           iter == CHOOSE u : u = [U \in SUBSET T |-> IF U = {} THEN 0 ELSE f[Some(U)] + u[U \ {Some(U)}]]
<1>1. IsFiniteSet(T) /\ g \in [T -> Nat]
  BY FS_Subset
<1>2. \A U \in SUBSET T : U # {} => f[Some(U)] = g[Some(U)]
  <2> SUFFICES ASSUME NEW U \in SUBSET T, U # {} PROVE f[Some(U)] = g[Some(U)]
    OBVIOUS
  <2>1. Some(U) \in U
    BY DEF Some
  <2> QED
    BY <2>1
<1> HIDE DEF g
<1>3. PICK h : IsTotal(h, g, T)
  BY <1>1, TotalsExist
<1>4. h = [U \in SUBSET T |-> IF U = {} THEN 0 ELSE f[Some(U)] + h[U \ {Some(U)}]]
  BY <1>2, <1>3 DEF IsTotal
<1>5. iter = [U \in SUBSET T |-> IF U = {} THEN 0 ELSE f[Some(U)] + iter[U \ {Some(U)}]]
  BY <1>4, Zenon
<1>6. Total(f, T) = iter[T]
  BY DEF Total, MapThenFoldSet, Some
<1> HIDE DEF iter
<1>7. iter = [U \in SUBSET T |-> IF U = {} THEN 0 ELSE g[Some(U)] + iter[U \ {Some(U)}]]
  BY <1>2, <1>5
<1>8. IsTotal(iter, g, T)
  BY <1>1, <1>7, FoldIsTotal
<1>9. \A x \in T : f[x] = g[x]
  BY DEF g
<1>10. iter[T] = t[T]
  BY <1>1, <1>8, <1>9, SameTotals
<1> QED
  BY <1>6, <1>10

\* A total is that of a part and that of the rest.
LEMMA TotalOfParts ==
  ASSUME NEW S, IsFiniteSet(S), NEW f \in [S -> Nat], NEW t, IsTotal(t, f, S),
         NEW P \in SUBSET S, NEW Q \in SUBSET S, P \cap Q = {}
  PROVE  t[P \cup Q] = t[P] + t[Q]
<1> DEFINE B == {U \in SUBSET Q : t[P \cup U] = t[P] + t[U]}
<1>1. IsFiniteSet(Q) /\ AddsAny(t, f, S)
  BY FS_Subset, TotalWithout
<1>2. {} \in B
  <2>1. t[{}] = 0 /\ t[P] \in Nat /\ P \cup {} = P
    BY DEF IsTotal
  <2> QED
    BY <2>1
<1>3. ASSUME NEW U \in SUBSET Q, U # {}, \A x \in U : U \ {x} \in B
      PROVE  U \in B
  <2>1. PICK x \in U : TRUE
    BY <1>3
  <2> DEFINE V == U \ {x}
  <2>2. (P \cup U) \ {x} = P \cup V /\ P \cup U \in SUBSET S /\ x \in P \cup U /\ U \in SUBSET S
        /\ V \in SUBSET S /\ x \in S
    OBVIOUS
  <2>3. t[P \cup U] = f[x] + t[P \cup V] /\ t[U] = f[x] + t[V]
    BY <1>1, <2>2 DEF AddsAny
  <2>4. t[P \cup V] = t[P] + t[V]
    BY <1>3
  <2>5. f[x] \in Nat /\ t[P] \in Nat /\ t[V] \in Nat
    BY <2>2 DEF IsTotal
  <2> HIDE DEF V
  <2>6. t[P \cup U] = t[P] + t[U]
    BY <2>3, <2>4, <2>5
  <2> QED
    BY <2>6
<1>4. \A U \in SUBSET Q : U \in B
  <2> HIDE DEF B
  <2> QED
    BY <1>1, <1>2, <1>3, SubsetInduction
<1> QED
  BY <1>4

\* A total of equal parts is their number of times one of them.
LEMMA TotalOfEqual ==
  ASSUME NEW S, IsFiniteSet(S), NEW f \in [S -> Nat], NEW t, IsTotal(t, f, S), NEW c \in Nat
  PROVE  \A T \in SUBSET S : (\A x \in T : f[x] = c) => t[T] = c * Cardinality(T)
<1> SUFFICES ASSUME NEW T \in SUBSET S, \A x \in T : f[x] = c
             PROVE  t[T] = c * Cardinality(T)
  OBVIOUS
<1> DEFINE B == {U \in SUBSET T : t[U] = c * Cardinality(U)}
<1>1. IsFiniteSet(T) /\ AddsAny(t, f, S)
  BY FS_Subset, TotalWithout
<1>2. {} \in B
  <2>1. t[{}] = 0 /\ Cardinality({}) = 0
    BY FS_EmptySet DEF IsTotal
  <2> QED
    BY <2>1
<1>3. ASSUME NEW U \in SUBSET T, U # {}, \A x \in U : U \ {x} \in B
      PROVE  U \in B
  <2>1. PICK x \in U : TRUE
    BY <1>3
  <2>2. IsFiniteSet(U) /\ Cardinality(U) \in Nat /\ Cardinality(U \ {x}) = Cardinality(U) - 1
    BY <1>1, FS_Subset, FS_CardinalityType, FS_RemoveElement
  <2>3. t[U] = c + t[U \ {x}] /\ t[U \ {x}] = c * Cardinality(U \ {x})
    BY <1>1, <1>3 DEF AddsAny
  <2> DEFINE k == Cardinality(U)
  <2>4. t[U] = c + c * (k - 1) /\ k \in Nat
    BY <2>2, <2>3
  <2> HIDE DEF k
  <2>5. t[U] = c * k
    BY <2>4
  <2> QED
    BY <2>5 DEF k
<1>4. \A U \in SUBSET T : U \in B
  <2> HIDE DEF B
  <2> QED
    BY <1>1, <1>2, <1>3, SubsetInduction
<1> QED
  BY <1>4

LEMMA TotalRestricted ==
  ASSUME NEW S, IsFiniteSet(S), NEW f \in [S -> Nat], NEW T \in SUBSET S
  PROVE  Total([x \in T |-> f[x]], T) = Total(f, T)
<1> DEFINE g == [x \in T |-> f[x]]
<1>1. IsFiniteSet(T) /\ g \in [T -> Nat] /\ \A x \in T : f[x] = g[x]
  BY FS_Subset
<1> HIDE DEF g
<1>2. PICK t : IsTotal(t, f, S)
  BY TotalsExist
<1>3. PICK u : IsTotal(u, g, T) /\ Total(g, T) = u[T]
  BY <1>1, TotalIsLast
<1>4. t[T] = u[T]
  BY <1>1, <1>2, <1>3, SameTotals
<1>5. Total(f, T) = t[T]
  BY <1>2, TotalOfPart
<1> QED
  BY <1>3, <1>4, <1>5 DEF g

\* A total of parts that are more than nothing, and where each is at least, or
\* is less than, a share of it.
LEMMA TotalIsPositive ==
  ASSUME NEW S, IsFiniteSet(S), NEW f \in [S -> Nat \ {0}], NEW t, IsTotal(t, f, S),
         NEW T \in SUBSET S, T # {}
  PROVE  t[T] \in Nat /\ t[T] > 0
<1>1. f \in [S -> Nat]
  OBVIOUS
<1>2. AddsAny(t, f, S)
  BY <1>1, TotalWithout
<1>3. PICK x \in T : TRUE
  OBVIOUS
<1>4. t[T] = f[x] + t[T \ {x}]
  BY <1>2 DEF AddsAny
<1>5. f[x] \in Nat /\ f[x] > 0 /\ t[T \ {x}] \in Nat
  BY DEF IsTotal
<1> QED
  BY <1>4, <1>5

AtLeast(f, k, c, T) == \A x \in T : f[x] * k >= c

LEMMA TotalAtLeast ==
  ASSUME NEW S, IsFiniteSet(S), NEW f \in [S -> Nat], NEW t, IsTotal(t, f, S),
         NEW k \in Nat, NEW c \in Nat, NEW T \in SUBSET S, AtLeast(f, k, c, T)
  PROVE  t[T] * k >= c * Cardinality(T)
<1> DEFINE B == {U \in SUBSET T : t[U] * k >= c * Cardinality(U)}
<1>1. IsFiniteSet(T) /\ AddsAny(t, f, S)
  BY FS_Subset, TotalWithout
<1>2. {} \in B
  <2>1. t[{}] = 0 /\ Cardinality({}) = 0
    BY FS_EmptySet DEF IsTotal
  <2> QED
    BY <2>1
<1>3. ASSUME NEW U \in SUBSET T, U # {}, \A x \in U : U \ {x} \in B
      PROVE  U \in B
  <2>1. PICK x \in U : TRUE
    BY <1>3
  <2>2. IsFiniteSet(U) /\ Cardinality(U) \in Nat /\ Cardinality(U \ {x}) = Cardinality(U) - 1
    BY <1>1, FS_Subset, FS_CardinalityType, FS_RemoveElement
  <2>3. t[U] = f[x] + t[U \ {x}] /\ t[U \ {x}] * k >= c * Cardinality(U \ {x})
    BY <1>1, <1>3 DEF AddsAny
  <2>4. f[x] \in Nat /\ t[U \ {x}] \in Nat /\ f[x] * k >= c
    BY DEF IsTotal, AtLeast
  <2> DEFINE n == Cardinality(U)
             a == f[x]
             b == t[U \ {x}]
  <2>5. /\ n \in Nat /\ a \in Nat /\ b \in Nat /\ t[U] = a + b
        /\ b * k >= c * (n - 1) /\ a * k >= c
    BY <2>2, <2>3, <2>4
  <2> HIDE DEF n, a, b
  <2>6. (a + b) * k = a * k + b * k /\ c * (n - 1) = c * n - c
    BY <2>5
  <2>7. a * k \in Nat /\ b * k \in Nat /\ c * n \in Nat
    BY <2>5
  <2>8. t[U] * k >= c * n
    BY <2>5, <2>6, <2>7
  <2> QED
    BY <2>8 DEF n
<1>4. \A U \in SUBSET T : U \in B
  <2> HIDE DEF B
  <2> QED
    BY <1>1, <1>2, <1>3, SubsetInduction
<1> QED
  BY <1>4

Below(f, k, c, T) == \A x \in T : f[x] * k < c

LEMMA TotalBelow ==
  ASSUME NEW S, IsFiniteSet(S), NEW f \in [S -> Nat], NEW t, IsTotal(t, f, S),
         NEW k \in Nat, NEW c \in Nat, NEW T \in SUBSET S, T # {}, Below(f, k, c, T)
  PROVE  t[T] * k < c * Cardinality(T)
<1> DEFINE B == {U \in SUBSET T : t[U] * k + Cardinality(U) <= c * Cardinality(U)}
<1>1. IsFiniteSet(T) /\ AddsAny(t, f, S)
  BY FS_Subset, TotalWithout
<1>2. {} \in B
  <2>1. t[{}] = 0 /\ Cardinality({}) = 0
    BY FS_EmptySet DEF IsTotal
  <2> QED
    BY <2>1
<1>3. ASSUME NEW U \in SUBSET T, U # {}, \A x \in U : U \ {x} \in B
      PROVE  U \in B
  <2>1. PICK x \in U : TRUE
    BY <1>3
  <2>2. IsFiniteSet(U) /\ Cardinality(U) \in Nat /\ Cardinality(U \ {x}) = Cardinality(U) - 1
    BY <1>1, FS_Subset, FS_CardinalityType, FS_RemoveElement
  <2>3. /\ t[U] = f[x] + t[U \ {x}]
        /\ t[U \ {x}] * k + Cardinality(U \ {x}) <= c * Cardinality(U \ {x})
    BY <1>1, <1>3 DEF AddsAny
  <2>4. f[x] \in Nat /\ t[U \ {x}] \in Nat /\ f[x] * k < c
    BY DEF IsTotal, Below
  <2> DEFINE n == Cardinality(U)
             a == f[x]
             b == t[U \ {x}]
  <2>5. /\ n \in Nat /\ a \in Nat /\ b \in Nat /\ t[U] = a + b
        /\ b * k + (n - 1) <= c * (n - 1) /\ a * k < c
    BY <2>2, <2>3, <2>4
  <2> HIDE DEF n, a, b
  <2>6. (a + b) * k = a * k + b * k /\ c * (n - 1) = c * n - c
    BY <2>5
  <2>7. a * k \in Nat /\ b * k \in Nat /\ c * n \in Nat
    BY <2>5
  <2>8. t[U] * k + n <= c * n
    BY <2>5, <2>6, <2>7
  <2> QED
    BY <2>8 DEF n
<1>4. T \in B
  <2>1. \A U \in SUBSET T : U \in B
    <3> HIDE DEF B
    <3> QED
      BY <1>1, <1>2, <1>3, SubsetInduction
  <2> QED
    BY <2>1
<1>5. Cardinality(T) \in Nat /\ Cardinality(T) # 0 /\ t[T] \in Nat
  BY <1>1, FS_CardinalityType, FS_EmptySet DEF IsTotal
<1> DEFINE n == Cardinality(T)
           a == t[T]
<1>6. n \in Nat /\ n # 0 /\ a \in Nat /\ a * k + n <= c * n
  BY <1>4, <1>5
<1> HIDE DEF n, a
<1>7. a * k \in Nat /\ c * n \in Nat
  BY <1>6
<1>8. a * k < c * n
  BY <1>6, <1>7
<1> QED
  BY <1>8 DEF n, a

-----------------------------------------------------------------------------
(* The points of a rand_normal schedule: rounding by largest remainders,   *)
(* and the water-filling below a cap.                                      *)

\* Of those in a strict total order as many have fewer than m ahead of them as
\* m says.
LEMMA FirstOnes ==
  ASSUME NEW S, IsFiniteSet(S), NEW ahead \in [S -> SUBSET S],
         \A i \in S : i \notin ahead[i],
         \A i, j \in S : i # j => i \in ahead[j] \/ j \in ahead[i],
         \A i \in S : \A j \in ahead[i] : ahead[j] \subseteq ahead[i],
         NEW m \in 0 .. Cardinality(S)
  PROVE  Cardinality({i \in S : Cardinality(ahead[i]) < m}) = m
<1> DEFINE n     == Cardinality(S)
           rank  == [i \in S |-> Cardinality(ahead[i])]
           First == {i \in S : Cardinality(ahead[i]) < m}
<1>1. n \in Nat /\ m \in Nat /\ m <= n
  BY FS_CardinalityType
<1>2. \A i \in S : IsFiniteSet(ahead[i]) /\ rank[i] \in 0 .. n - 1
  <2> SUFFICES ASSUME NEW i \in S PROVE IsFiniteSet(ahead[i]) /\ rank[i] \in 0 .. n - 1
    OBVIOUS
  <2>1. ahead[i] \subseteq S \ {i}
    OBVIOUS
  <2>2. IsFiniteSet(S \ {i}) /\ Cardinality(S \ {i}) = n - 1
    BY FS_RemoveElement
  <2>3. /\ IsFiniteSet(ahead[i]) /\ Cardinality(ahead[i]) \in Nat
        /\ Cardinality(ahead[i]) <= Cardinality(S \ {i})
    BY <2>1, <2>2, FS_Subset, FS_CardinalityType
  <2> HIDE DEF n
  <2> QED
    BY <1>1, <2>2, <2>3
<1>3. \A i \in S : \A j \in ahead[i] : rank[j] < rank[i]
  <2> SUFFICES ASSUME NEW i \in S, NEW j \in ahead[i] PROVE rank[j] < rank[i]
    OBVIOUS
  <2>1. j \in S /\ ahead[j] \subseteq ahead[i] /\ ahead[j] # ahead[i]
    OBVIOUS
  <2>2. /\ Cardinality(ahead[j]) <= Cardinality(ahead[i])
        /\ Cardinality(ahead[j]) # Cardinality(ahead[i])
    BY <1>2, <2>1, FS_Subset
  <2>3. rank[j] \in Int /\ rank[i] \in Int
    BY <1>2, <2>1
  <2> QED
    BY <2>1, <2>2, <2>3
<1>4. \A i, j \in S : rank[i] = rank[j] => i = j
  <2> SUFFICES ASSUME NEW i \in S, NEW j \in S, i # j PROVE rank[i] # rank[j]
    OBVIOUS
  <2>1. rank[i] \in Int /\ rank[j] \in Int
    BY <1>2
  <2>2. rank[i] < rank[j] \/ rank[j] < rank[i]
    BY <1>3
  <2> QED
    BY <2>1, <2>2
<1>5. \A r \in 0 .. n - 1 : \E i \in S : rank[i] = r
  <2>1. rank \in [S -> 0 .. n - 1]
    BY <1>2
  <2>2. rank \in Injection(S, 0 .. n - 1)
    BY <1>4, <2>1 DEF Injection, IsInjective
  <2>3. IsFiniteSet(0 .. n - 1) /\ Cardinality(0 .. n - 1) = n
    <3> HIDE DEF n
    <3>1. n - 1 \in Int /\ 0 \in Int
      BY <1>1
    <3>2. /\ IsFiniteSet(0 .. n - 1)
          /\ Cardinality(0 .. n - 1) = IF 0 > n - 1 THEN 0 ELSE (n - 1) - 0 + 1
      BY <3>1, FS_Interval
    <3> QED
      BY <1>1, <3>2
  <2>4. rank \in Surjection(S, 0 .. n - 1)
    <3> HIDE DEF rank
    <3> QED
      BY <2>2, <2>3, FS_Injection
  <2> QED
    BY <2>4 DEF Surjection
<1>6. First \in SUBSET S /\ IsFiniteSet(First) /\ \A i \in S : i \in First <=> rank[i] < m
  BY FS_Subset
<1> DEFINE place == [i \in First |-> rank[i]]
<1> HIDE DEF n, rank, First
<1>7. place \in [First -> 0 .. m - 1]
  <2> SUFFICES ASSUME NEW i \in First PROVE rank[i] \in 0 .. m - 1
    OBVIOUS
  <2> QED
    BY <1>1, <1>2, <1>6
<1>8. place \in Injection(First, 0 .. m - 1)
  BY <1>4, <1>6, <1>7 DEF Injection, IsInjective
<1>9. place \in Surjection(First, 0 .. m - 1)
  <2>1. ASSUME NEW r \in 0 .. m - 1 PROVE \E i \in First : place[i] = r
    <3>1. r \in 0 .. n - 1 /\ r < m
      BY <1>1
    <3>2. PICK i \in S : rank[i] = r
      BY <1>5, <3>1
    <3>3. i \in First
      BY <1>6, <3>1, <3>2
    <3> QED
      BY <3>2, <3>3
  <2> QED
    BY <1>7, <2>1 DEF Surjection
<1>10. Cardinality(0 .. m - 1) = m
  <2>1. m - 1 \in Int /\ 0 \in Int
    BY <1>1
  <2>2. Cardinality(0 .. m - 1) = IF 0 > m - 1 THEN 0 ELSE (m - 1) - 0 + 1
    BY <2>1, FS_Interval
  <2> QED
    BY <1>1, <2>2
<1>11. Cardinality(0 .. m - 1) = Cardinality(First)
  <2> HIDE DEF place
  <2> QED
    BY <1>6, <1>8, <1>9, FS_Surjection
<1> QED
  BY <1>10, <1>11 DEF First

\* What divides each part divides the total, but for the rests.
IsDivided(parts, weight, floors, rest, S) ==
  \A i \in S : parts[i] = weight * floors[i] + rest[i]

LEMMA DividedTotal ==
  ASSUME NEW S, IsFiniteSet(S), NEW weight \in Nat, NEW parts \in [S -> Nat],
         NEW floors \in [S -> Nat], NEW rest \in [S -> Nat],
         IsDivided(parts, weight, floors, rest, S)
  PROVE  Total(parts, S) = weight * Total(floors, S) + Total(rest, S)
<1> DEFINE whole == [i \in S |-> weight * floors[i]]
<1>1. whole \in [S -> Nat]
  <2> SUFFICES ASSUME NEW i \in S PROVE weight * floors[i] \in Nat
    OBVIOUS
  <2>1. floors[i] \in Nat
    OBVIOUS
  <2> QED
    BY <2>1
<1>2. IsMultiple(whole, weight, floors, S)
  BY DEF IsMultiple
<1>3. IsSum(parts, whole, rest, S)
  BY DEF IsSum, IsDivided
<1> HIDE DEF whole
<1>4. Total(parts, S) = Total(whole, S) + Total(rest, S)
  BY <1>1, <1>3, TotalOfSums
<1>5. Total(whole, S) = weight * Total(floors, S)
  BY <1>1, <1>2, TotalOfMultiples
<1> QED
  BY <1>4, <1>5

\* Rounding by largest remainders: what is split in proportion to m, by floors,
\* and as many raised as are missing, those with the most left over first.
Leftover(m, total, S, i) == (m[i] * total) % Total(m, S)

Ahead(m, total, S, i) ==
  {j \in S : \/ Leftover(m, total, S, j) > Leftover(m, total, S, i)
             \/ Leftover(m, total, S, j) = Leftover(m, total, S, i) /\ j < i}

RoundsOff(m, total, S, floors, raised) ==
  /\ floors = [i \in S |-> (m[i] * total) \div Total(m, S)]
  /\ raised = {i \in S : Cardinality(Ahead(m, total, S, i)) < total - Total(floors, S)}

\* The floors fall short of the total by at most one each.
LEMMA FloorsFallShort ==
  ASSUME NEW S, IsFiniteSet(S), NEW m \in [S -> Nat], Total(m, S) > 0, NEW total \in Nat
  PROVE  \A floors :
           floors = [i \in S |-> (m[i] * total) \div Total(m, S)]
             => /\ floors \in [S -> Nat] /\ Total(floors, S) \in Nat
                /\ total - Total(floors, S) \in 0 .. Cardinality(S)
<1> TAKE floors
<1> HAVE floors = [i \in S |-> (m[i] * total) \div Total(m, S)]
<1> DEFINE weight  == Total(m, S)
           parts   == [i \in S |-> m[i] * total]
           rest    == [i \in S |-> (m[i] * total) % Total(m, S)]
           missing == total - Total(floors, S)
           count   == Cardinality(S)
<1>1. /\ count \in Nat /\ IsFiniteSet(S) /\ total \in Nat
      /\ weight \in Nat /\ weight > 0
      /\ m \in [S -> Nat] /\ \A i \in S : m[i] \in Nat
  BY FS_CardinalityType, TotalIsNat
<1>2. /\ floors = [i \in S |-> (m[i] * total) \div weight]
      /\ rest = [i \in S |-> (m[i] * total) % weight]
  OBVIOUS
<1> HIDE DEF weight
<1>3. /\ parts \in [S -> Nat] /\ floors \in [S -> Nat] /\ rest \in [S -> Nat]
      /\ \A i \in S : parts[i] = weight * floors[i] + rest[i] /\ rest[i] <= weight
  <2>1. \A i \in S : m[i] * total \in Nat
    BY <1>1
  <2>2. \A x \in Nat : /\ x \div weight \in Nat /\ x % weight \in Nat /\ x % weight <= weight
                       /\ x = weight * (x \div weight) + (x % weight)
    BY <1>1
  <2>3. floors \in [S -> Nat] /\ rest \in [S -> Nat]
    BY <1>2, <2>1, <2>2
  <2> HIDE DEF rest
  <2> QED
    BY <1>2, <2>1, <2>2, <2>3
<1>4. Total(parts, S) = total * weight
  <2>1. IsMultiple(parts, total, m, S)
    BY <1>1 DEF IsMultiple
  <2>2. IsFiniteSet(S) /\ m \in [S -> Nat] /\ parts \in [S -> Nat] /\ total \in Nat
    BY <1>1, <1>3
  <2>3. \A h \in [S -> Nat], f \in [S -> Nat], c \in Nat :
          IsMultiple(h, c, f, S) => Total(h, S) = c * Total(f, S)
    BY TotalOfMultiples
  <2> HIDE DEF parts
  <2>4. Total(parts, S) = total * Total(m, S)
    BY <2>1, <2>2, <2>3
  <2> QED
    BY <2>4 DEF weight
<1>5. Total(parts, S) = weight * Total(floors, S) + Total(rest, S)
  <2>1. IsDivided(parts, weight, floors, rest, S)
    BY <1>3 DEF IsDivided
  <2>2. /\ IsFiniteSet(S) /\ weight \in Nat
        /\ parts \in [S -> Nat] /\ floors \in [S -> Nat] /\ rest \in [S -> Nat]
    BY <1>1, <1>3
  <2> HIDE DEF parts, rest
  <2> QED
    BY <2>1, <2>2, DividedTotal
<1>6. Total(floors, S) \in Nat /\ missing \in 0 .. count
  <2> HIDE DEF rest, parts, count
  <2>1. Total(floors, S) \in Nat /\ Total(rest, S) \in Nat
    BY <1>1, <1>3, TotalIsNat
  <2>2. Total(rest, S) <= weight * count
    BY <1>1, <1>3, TotalBounded DEF count
  <2> DEFINE d == missing
  <2>3. weight * d = Total(rest, S) /\ d \in Int
    <3>1. weight * (total - Total(floors, S)) = weight * total - weight * Total(floors, S)
      BY <1>1, <2>1
    <3>2. total * weight = weight * total
      BY <1>1
    <3>3. weight * total \in Int /\ weight * Total(floors, S) \in Int
      BY <1>1, <2>1
    <3> QED
      <4>1. weight * d = weight * (total - Total(floors, S)) /\ d \in Int
        BY <1>1, <2>1
      <4> HIDE DEF d
      <4> QED
        BY <1>4, <1>5, <2>1, <3>1, <3>2, <3>3, <4>1
  <2> HIDE DEF d
  <2>4. d >= 0
    <3> SUFFICES ASSUME d + 1 <= 0 PROVE FALSE
      BY <2>3
    <3>1. weight * (d + 1) <= 0 /\ weight * (d + 1) = weight * d + weight
      BY <1>1, <2>3
    <3> QED
      BY <1>1, <2>1, <2>3, <3>1
  <2>5. d <= count
    <3> SUFFICES ASSUME count + 1 <= d PROVE FALSE
      BY <1>1, <2>3
    <3>1. weight * (d - (count + 1)) >= 0
      BY <1>1, <2>3
    <3>2. weight * (d - (count + 1)) = weight * d - weight * count - weight
      BY <1>1, <2>3
    <3>3. weight * count \in Int
      BY <1>1
    <3> QED
      BY <1>1, <2>1, <2>2, <2>3, <3>1, <3>2, <3>3
  <2> QED
    BY <1>1, <2>1, <2>3, <2>4, <2>5 DEF d
<1> QED
  BY <1>3, <1>6

Indices(S) == S \subseteq Nat

\* It leaves nothing over.
LEMMA LargestRemainders ==
  ASSUME NEW S, Indices(S), IsFiniteSet(S), NEW m \in [S -> Nat], Total(m, S) > 0,
         NEW total \in Nat, NEW floors, NEW raised, RoundsOff(m, total, S, floors, raised)
  PROVE  /\ floors \in [S -> Nat] /\ raised \in SUBSET S
         /\ Total(floors, S) \in Nat
         /\ Total(floors, S) + Cardinality(raised) = total
<1> DEFINE weight  == Total(m, S)
           rest    == [i \in S |-> Leftover(m, total, S, i)]
           missing == total - Total(floors, S)
           ahead   == [i \in S |-> Ahead(m, total, S, i)]
           count   == Cardinality(S)
<1>1. /\ count \in Nat /\ IsFiniteSet(S) /\ total \in Nat
      /\ weight \in Nat /\ weight > 0
      /\ m \in [S -> Nat] /\ \A i \in S : m[i] \in Nat /\ i \in Nat
  BY FS_CardinalityType, TotalIsNat DEF Indices
<1>2. /\ floors = [i \in S |-> (m[i] * total) \div weight]
      /\ rest = [i \in S |-> (m[i] * total) % weight]
      /\ raised \in SUBSET S
      /\ raised = {i \in S : Cardinality(ahead[i]) < missing}
  <2>1. \A i \in S : rest[i] = (m[i] * total) % weight
    BY DEF Leftover
  <2>2. \A i \in S : ahead[i] = Ahead(m, total, S, i)
    OBVIOUS
  <2> HIDE DEF ahead
  <2>3. raised = {i \in S : Cardinality(ahead[i]) < missing}
    BY <2>2 DEF RoundsOff
  <2>4. floors = [i \in S |-> (m[i] * total) \div weight]
    BY Zenon DEF RoundsOff
  <2> QED
    BY <2>1, <2>3, <2>4
<1> HIDE DEF weight
<1>3. /\ rest \in [S -> Nat]
      /\ floors \in [S -> Nat] /\ Total(floors, S) \in Nat /\ missing \in 0 .. count
  <2>1. \A i \in S : m[i] * total \in Nat
    BY <1>1
  <2>2. \A x \in Nat : x % weight \in Nat
    BY <1>1
  <2>3. rest \in [S -> Nat]
    BY <1>2, <2>1, <2>2
  <2>4. floors = [i \in S |-> (m[i] * total) \div Total(m, S)]
    BY <1>2 DEF weight
  <2>5. floors \in [S -> Nat] /\ Total(floors, S) \in Nat /\ total - Total(floors, S) \in 0 .. Cardinality(S)
    <3>1. /\ IsFiniteSet(S) /\ m \in [S -> Nat] /\ total \in Nat /\ Total(m, S) > 0
      OBVIOUS
    <3>2. \A f : f = [i \in S |-> (m[i] * total) \div Total(m, S)]
                  => /\ f \in [S -> Nat] /\ Total(f, S) \in Nat
                     /\ total - Total(f, S) \in 0 .. Cardinality(S)
      BY <3>1, FloorsFallShort
    <3> QED
      BY <2>4, <3>2
  <2> QED
    BY <2>3, <2>5
<1>4. Cardinality(raised) = missing
  <2>1. ahead \in [S -> SUBSET S]
    BY DEF Ahead
  <2>2. \A i \in S : rest[i] \in Int /\ i \in Int
    <3> HIDE DEF rest
    <3> QED
      BY <1>1, <1>3
  <2>3. \A i, j \in S : j \in ahead[i] <=> rest[j] > rest[i] \/ (rest[j] = rest[i] /\ j < i)
    BY DEF Ahead
  <2> HIDE DEF ahead, rest, missing
  <2>4. \A i \in S : i \notin ahead[i]
    BY <2>2, <2>3
  <2>5. \A i, j \in S : i # j => i \in ahead[j] \/ j \in ahead[i]
    <3> SUFFICES ASSUME NEW i \in S, NEW j \in S, i # j, i \notin ahead[j]
                 PROVE  j \in ahead[i]
      OBVIOUS
    <3>1. /\ rest[i] \in Int /\ rest[j] \in Int /\ i \in Int /\ j \in Int
          /\ ~(rest[i] > rest[j]) /\ ~(rest[i] = rest[j] /\ i < j)
      BY <2>2, <2>3
    <3>2. rest[j] > rest[i] \/ (rest[j] = rest[i] /\ j < i)
      BY <3>1
    <3> QED
      BY <2>3, <3>2
  <2>6. \A i \in S : \A j \in ahead[i] : ahead[j] \subseteq ahead[i]
    <3> SUFFICES ASSUME NEW i \in S, NEW j \in ahead[i], NEW k \in ahead[j] PROVE k \in ahead[i]
      OBVIOUS
    <3>1. j \in S /\ k \in S
      BY <2>1
    <3> QED
      BY <2>2, <2>3, <3>1
  <2>7. missing \in 0 .. Cardinality(S)
    BY <1>3 DEF count
  <2> QED
    BY <1>1, <1>2, <2>7, <2>1, <2>4, <2>5, <2>6, FirstOnes
<1>5. Total(floors, S) + (total - Total(floors, S)) = total
  BY <1>1, <1>3
<1> QED
  BY <1>2, <1>3, <1>4, <1>5

\* The sums of the schedule are totals.
LEMMA MassIsTotal ==
  ASSUME NEW f, NEW S
  PROVE  Walk!Mass(f, S) = Total(f, S)
BY Zenon DEF Walk!Mass, Walk!FoldFunctionOnSet, Walk!MapThenFoldSet, FoldFunctionOnSet, Total, MapThenFoldSet

LEMMA SameCardinality ==
  ASSUME NEW S
  PROVE  Walk!Cardinality(S) = Cardinality(S)
BY Zenon DEF Walk!Cardinality, Cardinality

\* The points once those at the cap are known: what these leave is split among
\* the others, and nothing is left over.
Rounded(m, S, full, left, max, goal) ==
  LET floors == Walk!Floors(m, full, left, max)
      raised == Walk!Raised(m, full, left, goal - Walk!Mass(floors, S))
  IN  [i \in S |-> floors[i] + (IF i \in raised THEN 1 ELSE 0)]

Apportions(schedule, m, S, full, left, max, goal) ==
  /\ schedule \in [S -> Nat]
  /\ Total(schedule, S) = goal
  /\ \A i \in full : schedule[i] = max
  /\ \A i \in S \ full :
       LET q == (m[i] * left) \div Total(m, S \ full)
       IN  q \in Nat /\ schedule[i] \in {q, q + 1}
  /\ \A i, j \in S \ full : m[i] > m[j] => schedule[i] >= schedule[j]

LEMMA RoundedPoints ==
  ASSUME NEW S, Indices(S), IsFiniteSet(S), NEW m \in [S -> Nat], NEW full \in SUBSET S,
         Total(m, S \ full) > 0, NEW left \in Nat, NEW max \in Nat,
         NEW goal, goal = max * Cardinality(full) + left
  PROVE  Apportions(Rounded(m, S, full, left, max, goal), m, S, full, left, max, goal)
<1> DEFINE floors  == Walk!Floors(m, full, left, max)
           missing == goal - Walk!Mass(floors, S)
           raised  == Walk!Raised(m, full, left, missing)
           below   == S \ full
           mb     == [i \in below |-> m[i]]
           fb     == [i \in below |-> floors[i]]
           ones   == [i \in S |-> IF i \in raised THEN 1 ELSE 0]
           points1 == [i \in S |-> floors[i] + (IF i \in raised THEN 1 ELSE 0)]
           weight == Total(m, below)
<1>1. /\ IsFiniteSet(below) /\ Indices(below) /\ IsFiniteSet(full)
      /\ mb \in [below -> Nat] /\ Total(mb, below) = weight
      /\ weight \in Nat /\ weight > 0 /\ DOMAIN m = S
  <2>1. IsFiniteSet(below) /\ below \in SUBSET S /\ mb \in [below -> Nat] /\ IsFiniteSet(full)
    BY FS_Subset
  <2>2. Total(mb, below) = weight
    <3>1. \A T \in SUBSET S : Total([x \in T |-> m[x]], T) = Total(m, T)
      BY TotalRestricted
    <3> QED
      BY <3>1
  <2>3. Total(mb, below) \in Nat
    <3> HIDE DEF mb, below
    <3> QED
      BY <2>1, TotalIsNat
  <2> QED
    BY <2>1, <2>2, <2>3 DEF Indices
<1>2. floors = [i \in S |-> IF i \in full THEN max ELSE (m[i] * left) \div weight]
  <2>1. Walk!Mass(m, S \ full) = Total(m, S \ full)
    BY MassIsTotal
  <2> QED
    BY <1>1, <2>1 DEF Walk!Floors
<1> HIDE DEF floors
<1>3. \A i \in S : floors[i] = IF i \in full THEN max ELSE (m[i] * left) \div weight
  BY <1>2
<1>4. fb = [i \in below |-> (mb[i] * left) \div Total(mb, below)]
  <2>1. \A i \in below : floors[i] = (m[i] * left) \div weight
    BY <1>3
  <2> HIDE DEF weight
  <2> QED
    BY <1>1, <2>1
<1>5. fb \in [below -> Nat] /\ Total(fb, below) \in Nat
  <2> HIDE DEF fb, mb, below
  <2> QED
    BY <1>1, <1>4, FloorsFallShort
<1>6. floors \in [S -> Nat]
  <2>1. \A i \in S : floors[i] \in Nat
    <3> SUFFICES ASSUME NEW i \in S PROVE floors[i] \in Nat
      OBVIOUS
    <3>1. CASE i \in full
      BY <1>3, <3>1
    <3>2. CASE i \notin full
      BY <1>5, <3>2
    <3> QED
      BY <3>1, <3>2
  <2> QED
    BY <1>2, <2>1
<1>7. Total(floors, S) = max * Cardinality(full) + Total(fb, below)
  <2>1. PICK t : IsTotal(t, floors, S) /\ Total(floors, S) = t[S]
    BY <1>6, TotalIsLast
  <2>2. t[full \cup below] = t[full] + t[below]
    <3>1. below \in SUBSET S /\ full \cap below = {}
      OBVIOUS
    <3> HIDE DEF below
    <3> QED
      BY <1>6, <2>1, <3>1, TotalOfParts
  <2>3. full \cup below = S
    OBVIOUS
  <2>4. t[full] = max * Cardinality(full)
    BY <1>3, <1>6, <2>1, TotalOfEqual
  <2>5. Total(floors, below) = t[below]
    BY <1>6, <2>1, TotalOfPart
  <2>6. Total(fb, below) = Total(floors, below)
    <3>1. below \in SUBSET S
      OBVIOUS
    <3> HIDE DEF below
    <3> QED
      BY <1>6, <3>1, TotalRestricted
  <2> HIDE DEF fb, below
  <2> QED
    BY <2>1, <2>2, <2>3, <2>4, <2>5, <2>6
<1>8. missing = left - Total(fb, below)
  <2>1. Walk!Mass(floors, S) = Total(floors, S)
    BY MassIsTotal
  <2>2. max * Cardinality(full) \in Nat
    BY <1>1, FS_CardinalityType
  <2> HIDE DEF fb, below
  <2> QED
    BY <1>5, <1>7, <2>1, <2>2
<1> HIDE DEF missing
<1>9. raised = {i \in below : Cardinality(Ahead(mb, left, below, i)) < missing}
  <2> DEFINE r == [i \in below |-> (m[i] * left) % Walk!Mass(m, below)]
             A(i) == {j \in below : r[j] > r[i] \/ (r[j] = r[i] /\ j < i)}
  <2>1. raised = {i \in below : Walk!Cardinality(A(i)) < missing}
    <3> HIDE DEF missing
    <3> QED
      BY <1>1, Zenon DEF Walk!Raised
  <2>2. \A i \in below : r[i] = Leftover(mb, left, below, i)
    <3>1. Walk!Mass(m, below) = Total(mb, below)
      BY <1>1, MassIsTotal
    <3> QED
      BY <3>1 DEF Leftover
  <2> HIDE DEF r
  <2>3. \A i \in below : A(i) = Ahead(mb, left, below, i)
    BY <2>2 DEF Ahead
  <2>4. \A i \in below : Walk!Cardinality(A(i)) = Cardinality(A(i))
    BY SameCardinality
  <2> HIDE DEF A
  <2> QED
    BY <2>1, <2>3, <2>4
<1> HIDE DEF raised
<1>10. RoundsOff(mb, left, below, fb, raised)
  <2> HIDE DEF fb, mb, below
  <2> QED
    BY <1>4, <1>8, <1>9 DEF RoundsOff
<1>11. Total(fb, below) + Cardinality(raised) = left /\ raised \in SUBSET below
  <2> HIDE DEF fb, mb, below
  <2> QED
    BY <1>1, <1>10, LargestRemainders
<1>12. Total(points1, S) = Total(floors, S) + Cardinality(raised)
  <2>1. ones \in [S -> Nat] /\ raised \in SUBSET S /\ (\A i \in S : ones[i] = IF i \in raised THEN 1 ELSE 0)
    BY <1>11
  <2>2. points1 \in [S -> Nat] /\ IsSum(points1, floors, ones, S)
    BY <1>6 DEF IsSum
  <2> HIDE DEF ones, points1
  <2>4. Total(points1, S) = Total(floors, S) + Total(ones, S)
    BY <1>6, <2>1, <2>2, TotalOfSums
  <2>5. Total(ones, S) = Cardinality(raised)
    BY <2>1, TotalOfOnes, Zenon
  <2> QED
    BY <2>4, <2>5
<1>13. Total(points1, S) = goal
  <2>1. max * Cardinality(full) \in Nat /\ Cardinality(raised) \in Nat
    <3>1. IsFiniteSet(raised)
      BY <1>1, <1>11, FS_Subset
    <3> QED
      BY <1>1, <3>1, FS_CardinalityType
  <2> HIDE DEF fb, below, points1
  <2> QED
    BY <1>5, <1>7, <1>11, <1>12, <2>1
<1>14. Rounded(m, S, full, left, max, goal) = points1
  BY DEF Rounded, floors, raised, missing
<1>15. points1 \in [S -> Nat] /\ \A i \in full : points1[i] = max
  BY <1>3, <1>6, <1>11
<1>16. ASSUME NEW i \in S \ full, NEW q, q = (m[i] * left) \div weight
       PROVE  q \in Nat /\ points1[i] \in {q, q + 1}
  <2>1. floors[i] = q
    BY <1>3, <1>16
  <2>2. floors[i] \in Nat
    BY <1>6
  <2> HIDE DEF raised
  <2> QED
    BY <2>1, <2>2
<1>17. ASSUME NEW i \in below, NEW j \in below, m[i] > m[j]
       PROVE  points1[i] >= points1[j]
  <2> DEFINE a == m[i]
             b == m[j]
             p == floors[i]
             q == floors[j]
  <2>1. /\ a \in Nat /\ b \in Nat /\ a > b /\ p \in Nat /\ q \in Nat
        /\ p = (a * left) \div weight /\ q = (b * left) \div weight
    BY <1>3, <1>6, <1>17
  <2>2. /\ points1[i] = p + (IF i \in raised THEN 1 ELSE 0)
        /\ points1[j] = q + (IF j \in raised THEN 1 ELSE 0)
    OBVIOUS
  <2>3. /\ Leftover(mb, left, below, i) = (a * left) % weight
        /\ Leftover(mb, left, below, j) = (b * left) % weight
    BY <1>1 DEF Leftover
  <2> DEFINE r == (a * left) % weight
             s == (b * left) % weight
  <2> HIDE DEF weight, a, b
  <2>4. /\ a * left \in Nat /\ b * left \in Nat
        /\ a * left = weight * p + r /\ b * left = weight * q + s
        /\ r \in Nat /\ s \in Nat /\ r < weight /\ s < weight
    <3>1. a * left \in Nat /\ b * left \in Nat
      BY <2>1
    <3>2. \A x \in Nat : /\ x % weight \in Nat /\ x % weight < weight
                         /\ x = weight * (x \div weight) + (x % weight)
      BY <1>1
    <3> QED
      BY <2>1, <3>1, <3>2
  <2>5. a * left - b * left >= 0 /\ (left > 0 => a * left - b * left > 0)
    <3>1. (a - b) * left = a * left - b * left /\ (a - b) * left >= 0
          /\ (left > 0 => (a - b) * left > 0)
      BY <2>1
    <3> QED
      BY <3>1
  <2> HIDE DEF p, q, r, s
  <2>6. p >= q
    <3> SUFFICES ASSUME p + 1 <= q PROVE FALSE
      BY <2>1
    <3>1. weight * (q - p - 1) >= 0 /\ weight * (q - p - 1) = weight * q - weight * p - weight
      BY <1>1, <2>1
    <3>2. weight * q \in Nat /\ weight * p \in Nat
      BY <1>1, <2>1
    <3> QED
      BY <1>1, <2>4, <2>5, <3>1, <3>2
  <2>7. CASE i \in raised \/ j \notin raised \/ p > q
    <3> HIDE DEF points1
    <3> QED
      BY <2>1, <2>2, <2>6, <2>7
  <2>8. CASE i \notin raised /\ j \in raised /\ p = q
    <3>1. left > 0
      <4>1. Cardinality(raised) \in Nat /\ Cardinality(raised) # 0
        <5>1. IsFiniteSet(raised) /\ raised # {}
          BY <1>1, <1>11, <2>8, FS_Subset
        <5> QED
          BY <5>1, FS_CardinalityType, FS_EmptySet
      <4> HIDE DEF fb, below
      <4> QED
        BY <1>5, <1>11, <4>1
    <3>2. r > s
      <4>1. weight * p = weight * q /\ weight * p \in Nat
        BY <1>1, <2>1, <2>8
      <4> QED
        BY <2>4, <2>5, <3>1, <4>1
    <3>3. Leftover(mb, left, below, i) = r /\ Leftover(mb, left, below, j) = s
      BY <2>3 DEF r, s
    <3>4. \A k \in below : Leftover(mb, left, below, k) \in Nat
      <4> SUFFICES ASSUME NEW k \in below PROVE Leftover(mb, left, below, k) \in Nat
        OBVIOUS
      <4>1. mb[k] \in Nat /\ Total(mb, below) \in Nat /\ Total(mb, below) > 0
        BY <1>1
      <4> DEFINE d == Total(mb, below)
                 e == mb[k]
      <4>2. d \in Nat /\ d > 0 /\ e \in Nat
        BY <4>1
      <4> HIDE DEF d, e
      <4>3. e * left \in Nat
        BY <4>2
      <4>4. (e * left) % d \in Nat
        BY <4>2, <4>3
      <4> QED
        BY <4>4 DEF Leftover, d, e
    <3>5. Ahead(mb, left, below, i) \subseteq Ahead(mb, left, below, j)
      <4> SUFFICES ASSUME NEW k \in below,
                          \/ Leftover(mb, left, below, k) > r
                          \/ Leftover(mb, left, below, k) = r /\ k < i
                   PROVE  Leftover(mb, left, below, k) > s
        BY <3>3 DEF Ahead
      <4> DEFINE l == Leftover(mb, left, below, k)
      <4>1. l \in Nat /\ (l > r \/ l = r)
        BY <3>4
      <4> HIDE DEF l
      <4>2. l > s
        BY <2>4, <3>2, <4>1
      <4> QED
        BY <4>2 DEF l
    <3>6. /\ IsFiniteSet(Ahead(mb, left, below, j)) /\ IsFiniteSet(Ahead(mb, left, below, i))
          /\ Cardinality(Ahead(mb, left, below, i)) <= Cardinality(Ahead(mb, left, below, j))
      <4>1. Ahead(mb, left, below, j) \in SUBSET below
        BY DEF Ahead
      <4> HIDE DEF mb, below
      <4>2. IsFiniteSet(Ahead(mb, left, below, j))
        BY <1>1, <4>1, FS_Subset
      <4> QED
        BY <3>5, <4>2, FS_Subset
    <3>7. /\ Cardinality(Ahead(mb, left, below, i)) \in Nat
          /\ Cardinality(Ahead(mb, left, below, j)) \in Nat
      BY <3>6, FS_CardinalityType
    <3>8. missing \in Int
      <4> HIDE DEF fb, below
      <4> QED
        BY <1>5, <1>8
    <3>9. Cardinality(Ahead(mb, left, below, j)) < missing
      BY <1>9, <2>8
    <3>10. ~(Cardinality(Ahead(mb, left, below, i)) < missing)
      <4> HIDE DEF mb
      <4> QED
        BY <1>9, <2>8
    <3> QED
      BY <3>6, <3>7, <3>8, <3>9, <3>10
  <2> QED
    BY <2>1, <2>6, <2>7, <2>8
<1> HIDE DEF points1
<1> QED
  BY <1>13, <1>14, <1>15, <1>16, <1>17 DEF Apportions

\* Without a cap, the points are numbers, add up to the total and keep the bell.
LEMMA UncappedPoints ==
  ASSUME NEW m \in Seq(Nat), Total(m, 1 .. Len(m)) > 0, NEW meanLoad \in Nat
  PROVE  /\ Walk!BuildNormalSchedulePoints(m, meanLoad, 0) \in [1 .. Len(m) -> Nat]
         /\ Total(Walk!BuildNormalSchedulePoints(m, meanLoad, 0), 1 .. Len(m)) = meanLoad * Len(m)
         /\ \A i, j \in 1 .. Len(m) :
              m[i] > m[j] => Walk!BuildNormalSchedulePoints(m, meanLoad, 0)[i]
                               >= Walk!BuildNormalSchedulePoints(m, meanLoad, 0)[j]
<1> DEFINE n     == Len(m)
           S     == 1 .. n
           total == meanLoad * n
<1>1. /\ n \in Nat /\ total \in Nat /\ m \in [S -> Nat] /\ DOMAIN m = S
      /\ IsFiniteSet(S) /\ Indices(S) /\ S \ {} = S /\ {} \in SUBSET S
      /\ total = 0 * Cardinality({}) + total
  <2>1. n \in Nat /\ m \in [S -> Nat] /\ DOMAIN m = S
    OBVIOUS
  <2>2. IsFiniteSet(S) /\ Indices(S) /\ S \ {} = S /\ {} \in SUBSET S
    BY <2>1, FS_Interval DEF Indices
  <2> HIDE DEF n, S
  <2>3. total \in Nat
    BY <2>1
  <2>4. total = 0 * Cardinality({}) + total
    BY <2>3, FS_EmptySet
  <2> QED
    BY <2>1, <2>2, <2>3, <2>4
<1>2. Walk!BuildNormalSchedulePoints(m, meanLoad, 0) = Rounded(m, S, {}, total, 0, total)
  BY <1>1 DEF Walk!BuildNormalSchedulePoints, Rounded
<1>3. Total(m, S \ {}) > 0
  BY <1>1
<1> HIDE DEF S, n, total
<1>4. /\ Rounded(m, S, {}, total, 0, total) \in [S -> Nat]
      /\ Total(Rounded(m, S, {}, total, 0, total), S) = total
      /\ \A i, j \in S : m[i] > m[j] => Rounded(m, S, {}, total, 0, total)[i]
                                         >= Rounded(m, S, {}, total, 0, total)[j]
  <2>1. Apportions(Rounded(m, S, {}, total, 0, total), m, S, {}, total, 0, total)
    BY <1>1, <1>3, RoundedPoints
  <2> QED
    BY <1>1, <2>1 DEF Apportions
<1> QED
  BY <1>2, <1>4 DEF S, n, total

\* What a step makes of what it made before, from a on, exists for n steps.
IsIterated(c, n, P, F, a) ==
  /\ c \in [0 .. n -> P]
  /\ c = [k \in 0 .. n |-> IF k = 0 THEN a ELSE F[c[k - 1]]]

LEMMA IteratesExist ==
  ASSUME NEW n \in Nat, NEW P, NEW F \in [P -> P], NEW a \in P
  PROVE  \E c : IsIterated(c, n, P, F, a)
<1> DEFINE Steps(c, k) == c[0] = a /\ \A j \in 1 .. k : c[j] = F[c[j - 1]]
           B == {k \in 0 .. n : \E c \in [0 .. k -> P] : Steps(c, k)}
<1>1. 0 \in B
  <2> DEFINE c == [k \in 0 .. 0 |-> a]
  <2>1. c \in [0 .. 0 -> P] /\ Steps(c, 0) /\ 0 \in 0 .. n
    OBVIOUS
  <2> HIDE DEF c, Steps
  <2> QED
    BY <2>1
<1>2. ASSUME NEW k \in 0 .. n - 1, k \in B PROVE k + 1 \in B
  <2>1. PICK c \in [0 .. k -> P] : Steps(c, k)
    BY <1>2
  <2> DEFINE d == [j \in 0 .. k + 1 |-> IF j = k + 1 THEN F[c[k]] ELSE c[j]]
  <2>2. k \in Nat /\ k + 1 \in 0 .. n /\ \A j \in 0 .. k + 1 : j # k + 1 => j \in 0 .. k
    OBVIOUS
  <2>3. d \in [0 .. k + 1 -> P]
    BY <2>2
  <2>4. d[0] = a
    BY <2>1, <2>2
  <2>5. ASSUME NEW j \in 1 .. k + 1 PROVE d[j] = F[d[j - 1]]
    <3>1. j - 1 \in 0 .. k + 1 /\ j - 1 # k + 1 /\ j \in 0 .. k + 1
      BY <2>2
    <3>2. d[j - 1] = c[j - 1]
      BY <3>1
    <3>3. CASE j = k + 1
      <4>1. d[j] = F[c[k]] /\ j - 1 = k
        BY <2>2, <3>1, <3>3
      <4> QED
        BY <3>2, <4>1
    <3>4. CASE j # k + 1
      <4>1. d[j] = c[j] /\ j \in 1 .. k
        BY <2>2, <3>1, <3>4
      <4> QED
        BY <2>1, <3>2, <4>1
    <3> QED
      BY <3>3, <3>4
  <2>6. Steps(d, k + 1)
    BY <2>4, <2>5
  <2> HIDE DEF d, Steps
  <2> QED
    BY <2>2, <2>3, <2>6
<1>3. n \in B
  <2> HIDE DEF B
  <2> QED
    BY <1>1, <1>2, UpTo
<1>4. PICK c \in [0 .. n -> P] : Steps(c, n)
  BY <1>3
<1>5. \A k \in 0 .. n : c[k] = IF k = 0 THEN a ELSE F[c[k - 1]]
  BY <1>4
<1>6. c = [k \in 0 .. n |-> IF k = 0 THEN a ELSE F[c[k - 1]]]
  BY <1>5
<1> QED
  BY <1>6 DEF IsIterated

\* One round of the water-filling, from the points that are at the cap.
Clipped(m, S, total, cap, T) ==
  T \cup {i \in S \ T : m[i] * (total - cap * Cardinality(T)) >= cap * Total(m, S \ T)}

AreRounds(c, m, S, total, cap) ==
  /\ c \in [0 .. Len(m) -> SUBSET S]
  /\ c[0] = {}
  /\ \A k \in 1 .. Len(m) : c[k] = Clipped(m, S, total, cap, c[k - 1])

LEMMA RoundsOfTheCap ==
  ASSUME NEW m \in Seq(Nat), NEW S, S = DOMAIN m, NEW total, NEW cap
  PROVE  \E c : AreRounds(c, m, S, total, cap) /\ Walk!AtCap(m, total, cap) = c[Len(m)]
<1> DEFINE n == Len(m)
           F == [T \in SUBSET S |-> Clipped(m, S, total, cap, T)]
           Round(T) == LET left   == total - cap * Walk!Cardinality(T)
                           weight == Walk!Mass(m, DOMAIN m \ T)
                       IN  T \cup {i \in DOMAIN m \ T : m[i] * left >= cap * weight}
           iter == CHOOSE c : c = [round \in 0 .. n |-> IF round = 0 THEN {} ELSE Round(c[round - 1])]
<1>1. n \in Nat /\ DOMAIN m = S /\ {} \in SUBSET S
  OBVIOUS
<1>2. F \in [SUBSET S -> SUBSET S]
  BY DEF Clipped
<1>3. \A T : Round(T) = Clipped(m, S, total, cap, T)
  <2> TAKE T
  <2>1. Walk!Cardinality(T) = Cardinality(T) /\ Walk!Mass(m, S \ T) = Total(m, S \ T)
    BY SameCardinality, MassIsTotal
  <2> QED
    BY <1>1, <2>1 DEF Clipped
<1>4. Walk!AtCap(m, total, cap) = iter[n]
  BY Zenon DEF Walk!AtCap
<1> HIDE DEF F, n, Round
<1>5. PICK c : /\ \A k \in 0 .. n : c[k] \in SUBSET S
               /\ c = [k \in 0 .. n |-> IF k = 0 THEN {} ELSE F[c[k - 1]]]
  <2> DEFINE P == SUBSET S
  <2>1. F \in [P -> P] /\ {} \in P
    BY <1>1, <1>2
  <2> HIDE DEF P
  <2>2. PICK c : IsIterated(c, n, P, F, {})
    BY <1>1, <2>1, IteratesExist
  <2> QED
    BY <2>2 DEF P, IsIterated
<1>6. c = [round \in 0 .. n |-> IF round = 0 THEN {} ELSE Round(c[round - 1])]
  <2>1. \A k \in 0 .. n : k # 0 => c[k - 1] \in SUBSET S
    <3> SUFFICES ASSUME NEW k \in 0 .. n, k # 0 PROVE c[k - 1] \in SUBSET S
      OBVIOUS
    <3>1. k - 1 \in 0 .. n
      BY <1>1
    <3> QED
      BY <1>5, <3>1
  <2>2. \A T \in SUBSET S : F[T] = Round(T)
    BY <1>3 DEF F
  <2> QED
    BY <1>5, <2>1, <2>2
<1>7. iter = [round \in 0 .. n |-> IF round = 0 THEN {} ELSE Round(iter[round - 1])]
  BY <1>6, Zenon
<1> HIDE DEF iter
<1>8. /\ iter[0] = {}
      /\ \A k \in 1 .. n : iter[k] = Clipped(m, S, total, cap, iter[k - 1])
  <2>1. 0 \in 0 .. n /\ \A k \in 1 .. n : k \in 0 .. n /\ k # 0
    BY <1>1
  <2> QED
    BY <1>3, <1>7, <2>1
<1>9. \A k \in 0 .. n : iter[k] \in SUBSET S
  <2> DEFINE B == {k \in 0 .. n : iter[k] \in SUBSET S}
  <2>1. 0 \in B
    BY <1>1, <1>8
  <2>2. \A k \in 0 .. n - 1 : k \in B => k + 1 \in B
    <3> SUFFICES ASSUME NEW k \in 0 .. n - 1, k \in B PROVE k + 1 \in B
      OBVIOUS
    <3>1. k + 1 \in 1 .. n /\ k + 1 - 1 = k /\ k + 1 \in 0 .. n
      BY <1>1
    <3>2. iter[k + 1] = Clipped(m, S, total, cap, iter[k])
      BY <1>8, <3>1
    <3> QED
      BY <3>1, <3>2 DEF Clipped
  <2>3. ASSUME NEW l \in 0 .. n PROVE l \in B
    <3>1. l \in Nat /\ \A k \in 0 .. l - 1 : k \in 0 .. n - 1
      BY <1>1
    <3>2. \A k \in 0 .. l - 1 : k \in B => k + 1 \in B
      BY <2>2, <3>1
    <3> HIDE DEF B
    <3> QED
      BY <2>1, <3>1, <3>2, UpTo
  <2> QED
    BY <2>3
<1>10. iter \in [0 .. n -> SUBSET S]
  BY <1>7, <1>9
<1> QED
  BY <1>4, <1>8, <1>10 DEF n, AreRounds

\* A round clips no more than there is to share out.
LEMMA ClipLeavesEnough ==
  ASSUME NEW S, IsFiniteSet(S), NEW m \in [S -> Nat \ {0}], NEW total \in Nat, NEW cap \in Nat,
         NEW T \in SUBSET S, total - cap * Cardinality(T) >= 0
  PROVE  /\ Clipped(m, S, total, cap, T) \in SUBSET S
         /\ total - cap * Cardinality(Clipped(m, S, total, cap, T)) >= 0
<1> DEFINE left  == total - cap * Cardinality(T)
           below == S \ T
           w     == Total(m, below)
           N     == {i \in below : m[i] * left >= cap * w}
<1>1. /\ Clipped(m, S, total, cap, T) = T \cup N /\ T \cup N \in SUBSET S
      /\ N \in SUBSET below /\ below \in SUBSET S
  BY DEF Clipped
<1>2. /\ IsFiniteSet(T) /\ IsFiniteSet(N) /\ T \cap N = {}
      /\ Cardinality(T) \in Nat /\ Cardinality(N) \in Nat
      /\ Cardinality(T \cup N) = Cardinality(T) + Cardinality(N)
  <2>1. IsFiniteSet(T) /\ IsFiniteSet(N) /\ T \cap N = {}
    BY <1>1, FS_Subset
  <2> HIDE DEF N
  <2>2. Cardinality(T) \in Nat /\ Cardinality(N) \in Nat
    BY <2>1, FS_CardinalityType
  <2>3. Cardinality(T \cup N) = Cardinality(T) + Cardinality(N)
    <3>1. Cardinality(T \cup N) = Cardinality(T) + Cardinality(N) - Cardinality(T \cap N)
      BY <2>1, FS_Union
    <3>2. Cardinality(T \cap N) = 0
      BY <2>1, FS_EmptySet
    <3> QED
      BY <2>2, <3>1, <3>2
  <2> QED
    BY <2>1, <2>2, <2>3
<1>3. left \in Nat /\ m \in [S -> Nat]
  <2>1. cap * Cardinality(T) \in Nat
    BY <1>2
  <2> QED
    BY <2>1
<1>4. left >= cap * Cardinality(N)
  <2>1. CASE N = {}
    <3>1. Cardinality(N) = 0
      BY <2>1, FS_EmptySet
    <3> HIDE DEF left, N
    <3> QED
      BY <1>3, <3>1
  <2>2. CASE N # {}
    <3>1. PICK t : IsTotal(t, m, S)
      BY <1>3, TotalsExist
    <3>2. w = t[below] /\ below # {}
      <4>1. Total(m, below) = t[below]
        <5> HIDE DEF below
        <5> QED
          BY <1>1, <1>3, <3>1, TotalOfPart
      <4> QED
        BY <2>2, <4>1
    <3>3. w \in Nat /\ w > 0
      <4> HIDE DEF below, w
      <4> QED
        BY <1>1, <3>1, <3>2, TotalIsPositive
    <3>4. AtLeast(m, left, cap * w, N) /\ cap * w \in Nat
      <4>1. \A i \in N : m[i] * left >= cap * w
        OBVIOUS
      <4>2. cap * w \in Nat
        BY <3>3
      <4> HIDE DEF N, w, left
      <4> QED
        BY <4>1, <4>2 DEF AtLeast
    <3>5. t[below] = t[N] + t[below \ N]
      <4>1. N \cup (below \ N) = below /\ N \cap (below \ N) = {} /\ N \in SUBSET S /\ below \ N \in SUBSET S
        BY <1>1
      <4> HIDE DEF N, below
      <4> QED
        BY <1>3, <3>1, <4>1, TotalOfParts
    <3>6. N \in SUBSET S /\ t[N] \in Nat /\ t[below \ N] \in Nat
      BY <3>1 DEF IsTotal
    <3> HIDE DEF N, w, left, below
    <3> DEFINE c == cap * w
    <3>7. c \in Nat /\ AtLeast(m, left, c, N)
      BY <3>4
    <3> HIDE DEF c
    <3>8. t[N] * left >= c * Cardinality(N)
      BY <1>3, <3>1, <3>6, <3>7, TotalAtLeast
    <3> DEFINE a == t[N]
               b == t[below \ N]
               k == Cardinality(N)
    <3>9. /\ a \in Nat /\ b \in Nat /\ k \in Nat /\ w = a + b /\ left \in Nat /\ w > 0 /\ w \in Nat
          /\ a * left >= c * k /\ c = cap * w
      BY <1>2, <1>3, <3>2, <3>3, <3>5, <3>6, <3>8 DEF c
    <3> HIDE DEF a, b, k
    <3>10. w * left >= w * (cap * k)
      <4>1. w * left = a * left + b * left /\ b * left \in Nat /\ a * left \in Nat
        BY <3>9
      <4>2. c * k = w * (cap * k) /\ c * k \in Nat
        BY <3>9
      <4> QED
        BY <3>9, <4>1, <4>2
    <3>11. left >= cap * k
      <4> DEFINE p == cap * k
      <4>1. p \in Nat /\ w * left >= w * p
        BY <3>9, <3>10
      <4> HIDE DEF p
      <4>2. left >= p
        <5> SUFFICES ASSUME left + 1 <= p PROVE FALSE
          BY <3>9, <4>1
        <5>1. w * (p - left) >= w
          BY <3>9, <4>1
        <5>2. w * (p - left) = w * p - w * left /\ w * p \in Nat /\ w * left \in Nat
          BY <3>9, <4>1
        <5> QED
          BY <3>9, <4>1, <5>1, <5>2
      <4> QED
        BY <4>2 DEF p
    <3> QED
      BY <3>11 DEF k
  <2> QED
    BY <2>1, <2>2
<1>5. total - cap * (Cardinality(T) + Cardinality(N)) >= 0
  <2>1. cap * (Cardinality(T) + Cardinality(N)) = cap * Cardinality(T) + cap * Cardinality(N)
    BY <1>2
  <2>2. cap * Cardinality(T) \in Nat /\ cap * Cardinality(N) \in Nat
    BY <1>2
  <2>3. total - cap * Cardinality(T) >= cap * Cardinality(N)
    BY <1>4
  <2> HIDE DEF N
  <2> QED
    BY <2>1, <2>2, <2>3
<1> HIDE DEF N
<1> QED
  BY <1>1, <1>2, <1>5

\* With a point it clips every larger one.
LargestFirst(m, S, T) == \A i, j \in S : m[i] > m[j] /\ j \in T => i \in T

LEMMA ClipsLargestFirst ==
  ASSUME NEW S, IsFiniteSet(S), NEW m \in [S -> Nat], NEW total \in Nat, NEW cap \in Nat,
         NEW T \in SUBSET S, total - cap * Cardinality(T) >= 0, LargestFirst(m, S, T)
  PROVE  LargestFirst(m, S, Clipped(m, S, total, cap, T))
<1> DEFINE left == total - cap * Cardinality(T)
           w    == cap * Total(m, S \ T)
<1>1. left \in Nat
  <2>1. Cardinality(T) \in Nat
    BY FS_Subset, FS_CardinalityType
  <2>2. cap * Cardinality(T) \in Nat
    BY <2>1
  <2> QED
    BY <2>2
<1>2. w \in Nat
  <2>1. Total(m, S \ T) \in Nat
    <3>1. PICK t : IsTotal(t, m, S)
      BY TotalsExist
    <3>2. S \ T \in SUBSET S
      OBVIOUS
    <3>3. Total(m, S \ T) = t[S \ T]
      BY <3>1, <3>2, TotalOfPart
    <3> QED
      BY <3>1, <3>2, <3>3 DEF IsTotal
  <2> QED
    BY <2>1
<1>3. Clipped(m, S, total, cap, T) = T \cup {i \in S \ T : m[i] * left >= w}
  BY DEF Clipped
<1> HIDE DEF left, w
<1> SUFFICES ASSUME NEW i \in S, NEW j \in S, m[i] > m[j],
                    j \in Clipped(m, S, total, cap, T), i \notin T
             PROVE  m[i] * left >= w
  BY <1>3 DEF LargestFirst
<1>4. j \notin T /\ m[j] * left >= w
  BY <1>3 DEF LargestFirst
<1>5. m[i] \in Nat /\ m[j] \in Nat
  OBVIOUS
<1> DEFINE a == m[i]
           b == m[j]
<1>6. a \in Nat /\ b \in Nat /\ a > b /\ b * left >= w
  BY <1>4, <1>5
<1> HIDE DEF a, b
<1>7. (a - b) * left >= 0 /\ (a - b) * left = a * left - b * left
  BY <1>1, <1>6
<1>8. a * left \in Nat /\ b * left \in Nat
  BY <1>1, <1>6
<1>9. a * left >= w
  BY <1>2, <1>6, <1>7, <1>8
<1> QED
  BY <1>9 DEF a

\* The rounds end where another would clip nothing more.
LEMMA AtCapIsSettled ==
  ASSUME NEW m \in Seq(Nat \ {0}), NEW S, S = DOMAIN m, IsFiniteSet(S), Cardinality(S) = Len(m),
         NEW total \in Nat, NEW cap \in Nat,
         NEW full, full = Walk!AtCap(m, total, cap)
  PROVE  /\ full \in SUBSET S /\ total - cap * Cardinality(full) >= 0
         /\ LargestFirst(m, S, full)
         /\ Clipped(m, S, total, cap, full) = full
<1> DEFINE n == Len(m)
           Clip(T) == Clipped(m, S, total, cap, T)
           Good(T) == T \in SUBSET S /\ total - cap * Cardinality(T) >= 0 /\ LargestFirst(m, S, T)
           Far(T, k) == Clip(T) = T \/ Cardinality(T) >= k
<1>1. n \in Nat /\ m \in Seq(Nat) /\ m \in [S -> Nat \ {0}] /\ m \in [S -> Nat]
  OBVIOUS
<1>2. PICK c \in [0 .. n -> SUBSET S] :
        /\ c[0] = {}
        /\ \A k \in 1 .. n : c[k] = Clip(c[k - 1])
        /\ full = c[n]
  <2>1. PICK c : AreRounds(c, m, S, total, cap) /\ Walk!AtCap(m, total, cap) = c[Len(m)]
    BY <1>1, RoundsOfTheCap
  <2> QED
    BY <2>1 DEF AreRounds
<1>3. Good({}) /\ Far({}, 0)
  <2>1. Cardinality({}) = 0
    BY FS_EmptySet
  <2> HIDE DEF Clip
  <2> QED
    BY <2>1 DEF LargestFirst
<1>4. ASSUME NEW T, Good(T) PROVE Good(Clip(T))
  BY <1>1, <1>4, ClipLeavesEnough, ClipsLargestFirst
<1>5. ASSUME NEW T \in SUBSET S, NEW k \in Nat, Far(T, k) PROVE Far(Clip(T), k + 1)
  <2>1. CASE Clip(T) = T
    <3> HIDE DEF Clip
    <3> QED
      BY <2>1
  <2>2. CASE Clip(T) # T
    <3>1. PICK x \in Clip(T) : x \notin T
      BY <2>2 DEF Clipped
    <3>2. T \in SUBSET (Clip(T) \ {x}) /\ Clip(T) \in SUBSET S
      BY <3>1 DEF Clipped
    <3> HIDE DEF Clip
    <3>3. IsFiniteSet(Clip(T)) /\ IsFiniteSet(Clip(T) \ {x}) /\ IsFiniteSet(T)
      BY <3>2, FS_Subset
    <3>4. Cardinality(T) <= Cardinality(Clip(T) \ {x})
      BY <3>2, <3>3, FS_Subset
    <3>5. Cardinality(Clip(T) \ {x}) = Cardinality(Clip(T)) - 1
      BY <3>1, <3>3, FS_RemoveElement
    <3>6. Cardinality(T) \in Nat /\ Cardinality(Clip(T)) \in Nat
      BY <3>3, FS_CardinalityType
    <3>7. Cardinality(T) >= k
      BY <1>5, <2>2
    <3>8. Cardinality(Clip(T)) >= k + 1
      BY <3>4, <3>5, <3>6, <3>7
    <3> QED
      BY <3>8
  <2> QED
    BY <2>1, <2>2
<1> HIDE DEF Clip, Good, Far, n
<1>6. Good(c[n]) /\ Far(c[n], n)
  <2> DEFINE B == {k \in 0 .. n : Good(c[k]) /\ Far(c[k], k)}
  <2>1. 0 \in B
    BY <1>1, <1>2, <1>3
  <2>2. ASSUME NEW k \in 0 .. n - 1, k \in B PROVE k + 1 \in B
    <3>1. k \in Nat /\ k \in 0 .. n /\ k + 1 \in 1 .. n /\ k + 1 \in 0 .. n /\ k + 1 - 1 = k
      BY <1>1
    <3>2. c[k + 1] = Clip(c[k]) /\ c[k] \in SUBSET S
      BY <1>2, <3>1
    <3>3. Good(Clip(c[k])) /\ Far(Clip(c[k]), k + 1)
      BY <1>4, <1>5, <2>2, <3>1, <3>2
    <3> QED
      BY <3>1, <3>2, <3>3
  <2>3. n \in B
    <3> HIDE DEF B
    <3> QED
      BY <1>1, <2>1, <2>2, UpTo
  <2> QED
    BY <2>3
<1>7. full \in SUBSET S /\ total - cap * Cardinality(full) >= 0 /\ LargestFirst(m, S, full)
  BY <1>2, <1>6 DEF Good
<1>8. Clip(full) = full
  <2>1. CASE Clip(full) = full
    BY <2>1
  <2>2. CASE Cardinality(full) >= n
    <3>1. IsFiniteSet(full) /\ Cardinality(full) <= Cardinality(S) /\ Cardinality(full) \in Nat
      BY <1>7, FS_Subset, FS_CardinalityType
    <3>2. Cardinality(S) = Cardinality(full)
      BY <1>1, <2>2, <3>1 DEF n
    <3>3. full = S
      BY <1>7, <3>2, FS_Subset
    <3> QED
      BY <3>3 DEF Clip, Clipped
  <2> QED
    BY <1>2, <1>6, <2>1, <2>2 DEF Far
<1> QED
  BY <1>7, <1>8 DEF Clip

\* A product grows with its factor.
LEMMA Products ==
  ASSUME NEW a \in Nat, NEW b \in Nat, NEW c \in Nat, a <= b
  PROVE  a * c <= b * c
<1>1. PICK d \in Nat : b = a + d
  <2>1. b - a \in Nat /\ b = a + (b - a)
    OBVIOUS
  <2> QED
    BY <2>1
<1>2. b * c = a * c + d * c /\ d * c \in Nat /\ a * c \in Nat
  BY <1>1
<1> QED
  BY <1>2

\* With a cap too: they add up to the total or lie all at the cap, and none is
\* beyond it.
LEMMA CappedPoints ==
  ASSUME NEW m \in Seq(Nat \ {0}), Len(m) > 0, NEW meanLoad \in Nat, NEW cap \in Nat, cap > 0,
         NEW schedule, schedule = Walk!BuildNormalSchedulePoints(m, meanLoad, cap)
  PROVE  /\ schedule \in [1 .. Len(m) -> 0 .. cap]
         /\ Total(schedule, 1 .. Len(m)) = Smaller(meanLoad, cap) * Len(m)
         /\ \A i, j \in 1 .. Len(m) : m[i] > m[j] => schedule[i] >= schedule[j]
<1> DEFINE n     == Len(m)
           S     == 1 .. n
           total == meanLoad * n
           full  == Walk!AtCap(m, total, cap)
           left  == total - cap * Cardinality(full)
           goal  == IF cap * n < total THEN cap * n ELSE total
           below == S \ full
           w     == Total(m, below)
<1>1. /\ n \in Nat /\ n > 0 /\ S = DOMAIN m /\ m \in [S -> Nat \ {0}] /\ m \in [S -> Nat]
      /\ IsFiniteSet(S) /\ Cardinality(S) = n /\ Indices(S) /\ total \in Nat
  <2>1. n \in Nat /\ n > 0 /\ S = DOMAIN m /\ m \in [S -> Nat \ {0}] /\ m \in [S -> Nat]
    OBVIOUS
  <2>2. IsFiniteSet(S) /\ Cardinality(S) = n /\ Indices(S)
    <3>1. Indices(S)
      BY DEF Indices
    <3> HIDE DEF n
    <3> QED
      BY <2>1, <3>1, FS_Interval
  <2> HIDE DEF n, S
  <2>3. total \in Nat
    BY <2>1
  <2> QED
    BY <2>1, <2>2, <2>3
<1>2. schedule = Rounded(m, S, full, left, cap, goal)
  <2>1. Walk!Cardinality(full) = Cardinality(full)
    BY SameCardinality
  <2> HIDE DEF full, total
  <2> QED
    BY <1>1, <2>1 DEF Walk!BuildNormalSchedulePoints, Rounded, full, total
<1> HIDE DEF n, S, total
<1>3. /\ full \in SUBSET S /\ total - cap * Cardinality(full) >= 0
      /\ LargestFirst(m, S, full) /\ Clipped(m, S, total, cap, full) = full
  BY <1>1, AtCapIsSettled DEF n
<1> HIDE DEF full
<1>4. /\ IsFiniteSet(full) /\ IsFiniteSet(below) /\ below \in SUBSET S
      /\ Cardinality(full) \in Nat /\ Cardinality(below) \in Nat
      /\ Cardinality(full) + Cardinality(below) = n
  <2>1. IsFiniteSet(full) /\ IsFiniteSet(below) /\ below \in SUBSET S
    BY <1>1, <1>3, FS_Subset
  <2>2. full \cap below = {} /\ full \cup below = S
    BY <1>3
  <2> HIDE DEF below
  <2>3. Cardinality(S) = Cardinality(full) + Cardinality(below) - Cardinality(full \cap below)
    BY <2>1, <2>2, FS_Union
  <2>4. Cardinality(full \cap below) = 0
    BY <2>2, FS_EmptySet
  <2>5. Cardinality(full) \in Nat /\ Cardinality(below) \in Nat
    BY <2>1, FS_CardinalityType
  <2> QED
    BY <1>1, <2>1, <2>3, <2>4, <2>5
<1>5. left \in Nat
  <2>1. cap * Cardinality(full) \in Nat
    BY <1>4
  <2> QED
    BY <1>1, <1>3, <2>1
<1>6. \A i \in S \ full : m[i] * left < cap * w /\ m[i] \in Nat
  <2> SUFFICES ASSUME NEW i \in S \ full PROVE m[i] * left < cap * w /\ m[i] \in Nat
    OBVIOUS
  <2>1. ~(m[i] * left >= cap * w)
    BY <1>3 DEF Clipped
  <2>2. w \in Nat
    <3>1. PICK t : IsTotal(t, m, S)
      BY <1>1, TotalsExist
    <3>2. w = t[below]
      <4> HIDE DEF below
      <4> QED
        BY <1>1, <1>4, <3>1, TotalOfPart
    <3> QED
      BY <1>4, <3>1, <3>2 DEF IsTotal
  <2>3. m[i] \in Nat
    BY <1>1
  <2> DEFINE a == m[i]
  <2>4. a \in Nat /\ ~(a * left >= cap * w)
    BY <2>1, <2>3
  <2> HIDE DEF w, left, a
  <2>5. a * left \in Nat /\ cap * w \in Nat
    BY <1>5, <2>2, <2>4
  <2>6. a * left < cap * w
    BY <2>4, <2>5
  <2> QED
    BY <2>3, <2>6 DEF a
<1>7. CASE below = {}
  <2>1. full = S /\ Cardinality(full) = n
    BY <1>1, <1>3, <1>7
  <2>2. total >= cap * n /\ cap * n \in Nat /\ goal = cap * n
    <3>1. cap * n \in Nat
      BY <1>1
    <3>2. total - cap * n >= 0
      BY <1>3, <2>1
    <3> QED
      BY <1>1, <3>1, <3>2
  <2>3. schedule = [i \in S |-> cap]
    <3>1. \A i \in S : Walk!Floors(m, S, left, cap)[i] = cap
      BY <1>1 DEF Walk!Floors
    <3>2. Walk!Raised(m, S, left, goal - Walk!Mass(Walk!Floors(m, S, left, cap), S)) = {}
      BY <1>1 DEF Walk!Raised
    <3> HIDE DEF left, goal
    <3>3. schedule = [i \in S |-> Walk!Floors(m, S, left, cap)[i] + 0]
      BY <1>2, <2>1, <3>2 DEF Rounded
    <3> QED
      BY <3>1, <3>3
  <2>4. Total(schedule, S) = cap * n
    <3>1. schedule \in [S -> Nat] /\ \A i \in S : schedule[i] = cap
      BY <2>3
    <3>2. PICK t : IsTotal(t, schedule, S) /\ Total(schedule, S) = t[S]
      BY <1>1, <3>1, TotalIsLast
    <3>3. t[S] = cap * Cardinality(S)
      BY <1>1, <3>1, <3>2, TotalOfEqual
    <3> QED
      BY <1>1, <3>2, <3>3
  <2>5. Smaller(meanLoad, cap) = cap
    <3>1. meanLoad >= cap
      <4> SUFFICES ASSUME meanLoad + 1 <= cap PROVE FALSE
        OBVIOUS
      <4> DEFINE d == cap - meanLoad - 1
      <4>1. d \in Nat /\ cap = meanLoad + d + 1 /\ n \in Nat
        BY <1>1
      <4> HIDE DEF d
      <4>3. (meanLoad + d + 1) * n = meanLoad * n + d * n + n
        BY <4>1
      <4>4. d * n \in Nat
        BY <4>1
      <4>2. meanLoad * n \in Nat /\ meanLoad * n >= cap * n
        BY <1>1, <2>2 DEF total
      <4> QED
        <5>1. cap * n = meanLoad * n + d * n + n
          BY <4>1, <4>3
        <5>2. cap * n \in Nat
          BY <2>2
        <5> QED
          BY <1>1, <4>2, <4>4, <5>1, <5>2
    <3> QED
      BY <3>1 DEF Smaller
  <2>6. schedule \in [S -> 0 .. cap] /\ \A i, j \in S : schedule[i] >= schedule[j]
    BY <2>3
  <2>7. Total(schedule, S) = Smaller(meanLoad, cap) * n
    BY <2>4, <2>5
  <2> QED
    BY <2>6, <2>7 DEF S, n
<1>8. CASE below # {}
  <2>1. w \in Nat /\ w > 0 /\ w * left < cap * w * Cardinality(below)
    <3>1. PICK t : IsTotal(t, m, S)
      BY <1>1, TotalsExist
    <3>2. w = t[below]
      <4> HIDE DEF below
      <4> QED
        BY <1>1, <1>4, <3>1, TotalOfPart
    <3>3. w \in Nat /\ w > 0
      <4> HIDE DEF below, w
      <4> QED
        BY <1>1, <1>4, <1>8, <3>1, <3>2, TotalIsPositive
    <3> DEFINE c == cap * w
    <3>4. Below(m, left, c, below) /\ c \in Nat
      <4>1. c \in Nat
        BY <3>3
      <4> HIDE DEF w, left
      <4> QED
        BY <1>6, <4>1 DEF Below
    <3> HIDE DEF c, left, w, below
    <3>5. t[below] * left < c * Cardinality(below)
      BY <1>1, <1>4, <1>5, <1>8, <3>1, <3>4, TotalBelow
    <3> QED
      BY <3>2, <3>3, <3>5 DEF c
  <2> HIDE DEF w
  <2>2. left < cap * Cardinality(below)
    <3> DEFINE p == cap * Cardinality(below)
    <3>1. p \in Nat /\ cap * w * Cardinality(below) = w * p
      BY <1>4, <2>1
    <3> HIDE DEF p, left, below
    <3>2. left < p
      <4> SUFFICES ASSUME p <= left PROVE FALSE
        BY <1>5, <3>1
      <4>1. w * (left - p) >= 0 /\ w * (left - p) = w * left - w * p
        BY <1>5, <2>1, <3>1
      <4>2. w * left \in Nat /\ w * p \in Nat
        BY <1>5, <2>1, <3>1
      <4> QED
        BY <2>1, <3>1, <4>1, <4>2
    <3> QED
      BY <3>2 DEF p
  <2>3. total < cap * n /\ goal = total /\ total = cap * Cardinality(full) + left
    <3> DEFINE p == cap * Cardinality(below)
               f == cap * Cardinality(full)
    <3>1. cap * n = f + p /\ p \in Nat /\ f \in Nat /\ cap * n \in Nat
      <4> DEFINE inside  == Cardinality(below)
                 clipped == Cardinality(full)
      <4>1. inside \in Nat /\ clipped \in Nat /\ clipped + inside = n
        BY <1>4
      <4> HIDE DEF inside, clipped
      <4>2. /\ cap * (clipped + inside) = cap * clipped + cap * inside
            /\ cap * inside \in Nat /\ cap * clipped \in Nat
        BY <1>1, <4>1
      <4>3. cap * n = cap * clipped + cap * inside /\ cap * n \in Nat
        <5> HIDE DEF n
        <5>1. cap * n = cap * (clipped + inside)
          BY <4>1
        <5> QED
          BY <4>1, <4>2, <5>1
      <4> QED
        BY <4>2, <4>3 DEF inside, clipped
    <3>2. left = total - f /\ left < p
      BY <2>2
    <3> HIDE DEF p, f, left
    <3>3. total < cap * n /\ total = f + left
      BY <1>1, <1>5, <3>1, <3>2
    <3> QED
      BY <1>1, <3>1, <3>3 DEF f
  <2>4. Smaller(meanLoad, cap) = meanLoad
    <3>1. meanLoad < cap
      <4> SUFFICES ASSUME cap <= meanLoad PROVE FALSE
        OBVIOUS
      <4>1. cap * n <= meanLoad * n
        BY <1>1, Products
      <4>2. meanLoad * n \in Nat /\ cap * n \in Nat /\ meanLoad * n < cap * n
        BY <1>1, <2>3 DEF total
      <4> QED
        BY <4>1, <4>2
    <3> QED
      BY <3>1 DEF Smaller
  <2>5. Apportions(schedule, m, S, full, left, cap, total)
    <3>1. Total(m, S \ full) > 0
      BY <2>1 DEF w
    <3>2. Apportions(Rounded(m, S, full, left, cap, total), m, S, full, left, cap, total)
      <4> HIDE DEF left, below
      <4> QED
        BY <1>1, <1>3, <1>5, <2>3, <3>1, RoundedPoints
    <3> HIDE DEF left, goal
    <3> QED
      BY <1>2, <2>3, <3>2
  <2>6. ASSUME NEW i \in S PROVE schedule[i] \in 0 .. cap
    <3>1. CASE i \in full
      BY <2>5, <3>1 DEF Apportions
    <3>2. CASE i \notin full
      <4> DEFINE q == (m[i] * left) \div w
                 a == m[i] * left
      <4>1. q \in Nat /\ schedule[i] \in {q, q + 1}
        <5> HIDE DEF left
        <5> QED
          BY <2>5, <3>2 DEF Apportions, w
      <4>2. a \in Nat /\ a < cap * w
        <5>1. m[i] \in Nat
          BY <1>1
        <5> HIDE DEF left
        <5> QED
          BY <1>5, <1>6, <3>2, <5>1
      <4>3. \A x \in Nat : w * (x \div w) <= x
        BY <2>1
      <4>4. w * q <= a
        BY <4>2, <4>3
      <4> HIDE DEF q, a, left
      <4>5. q < cap
        <5> SUFFICES ASSUME cap <= q PROVE FALSE
          BY <4>1
        <5>1. w * (q - cap) >= 0 /\ w * (q - cap) = w * q - cap * w
          BY <2>1, <4>1
        <5>2. w * q \in Nat /\ cap * w \in Nat
          BY <2>1, <4>1
        <5> QED
          BY <4>2, <4>4, <5>1, <5>2
      <4> QED
        BY <4>1, <4>5
    <3> QED
      BY <3>1, <3>2
  <2>7. ASSUME NEW i \in S, NEW j \in S, m[i] > m[j] PROVE schedule[i] >= schedule[j]
    <3>1. CASE i \in full
      BY <2>5, <2>6, <3>1 DEF Apportions
    <3>2. CASE i \notin full
      <4>1. j \notin full
        BY <1>3, <2>7, <3>2 DEF LargestFirst
      <4> QED
        BY <2>5, <2>7, <3>2, <4>1 DEF Apportions
    <3> QED
      BY <3>1, <3>2
  <2>8. schedule \in [S -> 0 .. cap] /\ Total(schedule, S) = total
    BY <2>5, <2>6 DEF Apportions
  <2>9. Total(schedule, S) = Smaller(meanLoad, cap) * n
    BY <2>4, <2>8 DEF total
  <2> HIDE DEF goal, left, below
  <2> QED
    BY <2>7, <2>8, <2>9 DEF S, n
<1> QED
  BY <1>7, <1>8

\* BuildNormalSchedulePoints: the points average to exactly the load asked for,
\* or lie all at the cap when that is less; none is beyond the cap, and the
\* rounding keeps the bell, whatever the masses of its bins
\* (normal_schedule.h:12-20).
THEOREM PointsKeepTheAverage ==
  ASSUME NEW masses \in Seq(Nat \ {0}), Len(masses) > 0, NEW mean \in Nat, NEW cap \in Nat
  PROVE  LET schedule == Walk!BuildNormalSchedulePoints(masses, mean, cap)
             reached  == IF cap > 0 THEN Smaller(mean, cap) ELSE mean
         IN  /\ SumFunction(schedule) = reached * Len(masses)
             /\ \A i \in DOMAIN schedule : schedule[i] >= 0 /\ (cap > 0 => schedule[i] <= cap)
             /\ \A i, j \in DOMAIN schedule : masses[i] > masses[j] => schedule[i] >= schedule[j]
<1> DEFINE schedule == Walk!BuildNormalSchedulePoints(masses, mean, cap)
           reached  == IF cap > 0 THEN Smaller(mean, cap) ELSE mean
           S        == 1 .. Len(masses)
<1>1. /\ schedule \in [S -> Nat]
      /\ Total(schedule, S) = reached * Len(masses)
      /\ cap > 0 => \A i \in S : schedule[i] <= cap
      /\ \A i, j \in S : masses[i] > masses[j] => schedule[i] >= schedule[j]
  <2>1. CASE cap > 0
    <3> HIDE DEF schedule
    <3>1. /\ schedule \in [S -> 0 .. cap]
          /\ Total(schedule, S) = Smaller(mean, cap) * Len(masses)
          /\ \A i, j \in S : masses[i] > masses[j] => schedule[i] >= schedule[j]
      BY <2>1, CappedPoints DEF schedule
    <3> HIDE DEF S
    <3>2. /\ schedule \in [S -> Nat]
          /\ \A i \in S : schedule[i] <= cap
      <4> HIDE DEF reached
      <4>1. schedule \in [S -> 0 .. cap] /\ 0 .. cap \subseteq Nat
        BY <3>1
      <4> QED
        BY <4>1
    <3> QED
      BY <2>1, <3>1, <3>2
  <2>2. CASE cap = 0
    <3>1. masses \in Seq(Nat) /\ masses \in [S -> Nat \ {0}] /\ masses \in [S -> Nat] /\ S # {}
      <4>1. masses \in [S -> Nat \ {0}]
        OBVIOUS
      <4>2. masses \in [S -> Nat] /\ masses \in Seq(Nat)
        OBVIOUS
      <4>3. 1 \in S
        OBVIOUS
      <4> QED
        BY <4>1, <4>2, <4>3
    <3>2. Total(masses, S) > 0
      <4>1. IsFiniteSet(S)
        BY FS_Interval
      <4> HIDE DEF S
      <4>2. PICK t : IsTotal(t, masses, S) /\ Total(masses, S) = t[S]
        BY <3>1, <4>1, TotalIsLast
      <4>3. S \in SUBSET S
        OBVIOUS
      <4> QED
        BY <3>1, <4>1, <4>2, <4>3, TotalIsPositive
    <3>3. /\ schedule \in [S -> Nat]
          /\ Total(schedule, S) = mean * Len(masses)
          /\ \A i, j \in S : masses[i] > masses[j] => schedule[i] >= schedule[j]
      BY <2>2, <3>1, <3>2, UncappedPoints
    <3> HIDE DEF schedule, S
    <3> QED
      BY <2>2, <3>3
  <2> QED
    BY <2>1, <2>2
<1> HIDE DEF schedule
<1>2. DOMAIN schedule = S
  BY <1>1
<1>3. SumFunction(schedule) = Total(schedule, DOMAIN schedule)
  BY Zenon DEF SumFunction, SumFunctionOnSet, FoldFunctionOnSet, Total
<1>4. \A i \in S : schedule[i] >= 0
  BY <1>1
<1> HIDE DEF S, reached
<1>5. /\ SumFunction(schedule) = reached * Len(masses)
      /\ \A i \in DOMAIN schedule : schedule[i] >= 0 /\ (cap > 0 => schedule[i] <= cap)
      /\ \A i, j \in DOMAIN schedule : masses[i] > masses[j] => schedule[i] >= schedule[j]
  BY <1>1, <1>2, <1>3, <1>4
<1> QED
  BY <1>5 DEF schedule, reached

-----------------------------------------------------------------------------
(* The walk over the points of a rand_normal schedule.                     *)

\* The constants of the walk as numbers.
LEMMA WalkNumbers ==
  /\ Count \in Nat /\ Count > 0
  /\ WalkInterval \in Nat
BY WalkAssumption

\* The constants of the points, and what is made of them.
LEMMA WeightNumbers ==
  /\ Masses \in Seq(Nat) /\ Len(Masses) = Count
  /\ Total(Masses, 1 .. Count) \in Nat \ {0}
  /\ IsFiniteSet(1 .. Count) /\ Cardinality(1 .. Count) = Count
<1>1. Walk!Mass(Masses, 1 .. Count) = Total(Masses, 1 .. Count)
  BY MassIsTotal
<1>2. IsFiniteSet(1 .. Count) /\ Cardinality(1 .. Count) = Count
  BY WalkNumbers, FS_Interval
<1> QED
  BY <1>1, <1>2, MassesAssumption

LEMMA PointsOfTheWalk ==
  ASSUME NEW meanLoad \in Nat
  PROVE  /\ Walk!BuildNormalSchedulePoints(Masses, meanLoad, 0) \in [1 .. Count -> Nat]
         /\ Total(Walk!BuildNormalSchedulePoints(Masses, meanLoad, 0), 1 .. Count) = meanLoad * Count
<1>1. Total(Masses, 1 .. Len(Masses)) > 0
  BY WeightNumbers
<1> QED
  BY <1>1, WeightNumbers, UncappedPoints

\* The walk before it starts.
LEMMA InitWalkInv ==
  ASSUME NEW meanLoad \in Nat, Walk!Init(meanLoad, 0)
  PROVE  Walk!WalkInv
<1>1. Walk!TypeOK
  <2>1. pointIdx \in 0 .. Count - 1 /\ target \in Nat /\ age \in 0 .. WalkInterval
    BY WalkNumbers DEF Walk!Init
  <2>2. used \in Seq(1 .. Count)
    BY DEF Walk!Init
  <2>3. points \in [1 .. Count -> Nat]
    BY PointsOfTheWalk DEF Walk!Init
  <2> QED BY <2>1, <2>2, <2>3 DEF Walk!Init, Walk!TypeOK
<1>2. Walk!UsedInOrder
  BY DEF Walk!Init, Walk!UsedInOrder
<1> QED BY <1>1, <1>2 DEF Walk!WalkInv

\* Waiting changes nothing the walk's invariant is about.
LEMMA ElapseKeepsWalkInv ==
  ASSUME Walk!WalkInv, NEW gap \in Nat, Walk!Elapse(gap)
  PROVE  Walk!WalkInv'
<1>1. age' \in 0 .. WalkInterval
  BY WalkNumbers DEF Walk!WalkInv, Walk!TypeOK, Walk!Elapse
<1>2. UNCHANGED <<points, order, pointIdx, target, started, used>>
  BY DEF Walk!Elapse
<1> QED BY <1>1, <1>2 DEF Walk!WalkInv, Walk!TypeOK, Walk!UsedInOrder

\* A move in the middle of a period uses the point after those used; one at a
\* boundary begins a period with the first of a new order.
LEMMA MoveKeepsWalkInv ==
  ASSUME Walk!WalkInv, Walk!MoveTarget
  PROVE  Walk!WalkInv'
<1>0. /\ Count \in Nat /\ Count > 0
      /\ points \in [1 .. Count -> Nat]
      /\ WalkInterval \in Nat
  BY WalkNumbers DEF Walk!WalkInv, Walk!TypeOK
<1>1. /\ pointIdx \in 0 .. Count - 1
      /\ order \in Walk!Shuffles
      /\ used \in Seq(1 .. Count)
  BY DEF Walk!WalkInv, Walk!TypeOK
<1>2. order' \in Walk!Shuffles
  BY <1>1 DEF Walk!MoveTarget, Walk!ShuffledAt
<1>3. /\ order' \in [1 .. Count -> 1 .. Count]
      /\ order'[pointIdx + 1] \in 1 .. Count
  <2>1. order' \in [1 .. Count -> 1 .. Count]
    BY <1>2 DEF Walk!Shuffles
  <2>2. pointIdx + 1 \in 1 .. Count
    BY <1>0, <1>1
  <2> QED BY <2>1, <2>2
<1>4. /\ pointIdx' = IF pointIdx + 1 = Count THEN 0 ELSE pointIdx + 1
      /\ started' = TRUE
      /\ age' = 0
      /\ target' = points[order'[pointIdx + 1]]
      /\ points' = points
  BY DEF Walk!MoveTarget, Walk!IncreasePointIndex
<1>5. pointIdx' \in 0 .. Count - 1
  BY <1>0, <1>1, <1>4
<1>6. target' \in Nat
  BY <1>0, <1>3, <1>4
<1>7. /\ used' \in Seq(1 .. Count)
      /\ Len(used') = pointIdx + 1
      /\ \A i \in 1 .. Len(used') : used'[i] = order'[i]
  <2>1. CASE pointIdx = 0
    <3>1. used' = <<order'[1]>>
      BY <2>1 DEF Walk!MoveTarget
    <3> QED BY <1>3, <2>1, <3>1
  <2>2. CASE pointIdx # 0
    <3>1. order' = order /\ used' = Append(used, order'[pointIdx + 1])
      BY <2>2 DEF Walk!MoveTarget, Walk!ShuffledAt
    <3>2. Len(used) = pointIdx /\ \A i \in 1 .. Len(used) : used[i] = order[i]
      BY <2>2 DEF Walk!WalkInv, Walk!UsedInOrder
    <3> QED BY <1>1, <1>3, <3>1, <3>2
  <2> QED BY <2>1, <2>2
<1>8. Walk!TypeOK'
  BY <1>0, <1>2, <1>4, <1>5, <1>6, <1>7 DEF Walk!TypeOK
<1>9. Walk!UsedInOrder'
  <2>1. Len(used') = IF started' /\ pointIdx' = 0 THEN Count ELSE pointIdx'
    BY <1>0, <1>1, <1>4, <1>7
  <2> QED BY <1>7, <2>1 DEF Walk!UsedInOrder
<1> QED BY <1>8, <1>9 DEF Walk!WalkInv

\* The invariant says what a period promises.
LEMMA WalkInvIsEnough == Walk!WalkInv => Walk!EachPointOncePerPeriod
<1> SUFFICES ASSUME Walk!WalkInv PROVE Walk!EachPointOncePerPeriod
  OBVIOUS
<1>1. /\ Count \in Nat
      /\ pointIdx \in 0 .. Count - 1
      /\ order \in Walk!Shuffles
      /\ Len(used) = IF started /\ pointIdx = 0 THEN Count ELSE pointIdx
      /\ \A i \in 1 .. Len(used) : used[i] = order[i]
  BY WalkNumbers DEF Walk!WalkInv, Walk!TypeOK, Walk!UsedInOrder
<1>2. Len(used) \in 0 .. Count
  BY <1>1
<1>3. \A i, j \in 1 .. Len(used) : used[i] = used[j] => i = j
  BY <1>1, <1>2 DEF Walk!Shuffles
<1> QED BY <1>1, <1>3 DEF Walk!EachPointOncePerPeriod

-----------------------------------------------------------------------------

\* The points are those for the load asked for.
PointsForLoad ==
  /\ cpuLoad \in Nat
  /\ Total(points, 1 .. Count) = cpuLoad * Count

\* No point is beyond the workers; nor, then, is the target.
Reachable ==
  /\ Capacity \in Nat
  /\ mode = "rand_normal" => /\ \A i \in 1 .. Count : points[i] <= Capacity
                             /\ target <= Capacity

PeriodInv == Walk!WalkInv /\ PointsForLoad /\ Reachable

\* All a step may do to the schedule: nothing, let time pass, or move on.
LEMMA StepsOfTheSchedule ==
  ASSUME Next
  PROVE  /\ Workers' = Workers
         /\ mode' = mode /\ cpuLoad' = cpuLoad
         /\ \/ UNCHANGED walk
            \/ \E gap \in Nat : Walk!Elapse(gap)
            \/ Walk!MoveTarget
<1>1. ASSUME NEW gap \in Gaps, NEW taken \in OtherLoads, Work(gap, taken)
      PROVE  loads' = loads /\ mode' = mode /\ cpuLoad' = cpuLoad /\ gap \in Nat /\ Walk!Elapse(gap)
  BY <1>1, MachineAssumption DEF Work, options
<1>2. CASE FailedRead \/ FirstRead
  BY <1>2 DEF FailedRead, FirstRead, options, Workers
<1>3. ASSUME NEW readable \in BOOLEAN, GoodRead(readable)
      PROVE  /\ Workers' = Workers
             /\ mode' = mode /\ cpuLoad' = cpuLoad
             /\ UNCHANGED walk \/ Walk!MoveTarget
  <2>1. mode' = mode /\ cpuLoad' = cpuLoad
    BY <1>3 DEF GoodRead, options
  <2>2. CASE UNCHANGED <<sysSampler, integral, loads, walk>>
    BY <2>1, <2>2 DEF Workers
  <2>3. CASE AdjustWorkerLoad
    <3>1. Workers' = Workers
      BY <2>3 DEF AdjustWorkerLoad, Split, Workers
    <3>2. UNCHANGED walk \/ Walk!UpdateLoadTarget
      BY <2>3 DEF AdjustWorkerLoad
    <3>3. UNCHANGED walk \/ Walk!MoveTarget
      BY <3>2 DEF Walk!UpdateLoadTarget, Walk!KeepTarget, Walk!walk, walk
    <3> QED BY <2>1, <3>1, <3>3
  <2> QED BY <1>3, <2>2, <2>3 DEF GoodRead
<1> QED BY <1>1, <1>2, <1>3 DEF Next, Workers, FailedRead, FirstRead

LEMMA InitPeriodInv == Init => PeriodInv
<1> SUFFICES ASSUME Init PROVE PeriodInv
  OBVIOUS
<1>1. Walk!WalkInv
  BY InitWalkInv, CpuLoadsAssumption DEF Init
<1>2. PICK count \in 1 .. Cores :
        /\ loads = [w \in 1 .. count |-> 0]
        /\ mode = "rand_normal" => \A i \in 1 .. Count : points[i] <= count * PerCore
  BY DEF Init, InitSucceeds
<1>3. Capacity = count * PerCore /\ count * PerCore \in Nat
  <2>1. count \in Nat /\ count >= 1 /\ PerCore \in Nat
    BY <1>2, CoresAssumption, PerCoreAssumption
  <2>2. Workers = 1 .. count
    BY <1>2 DEF Workers
  <2>3. Cardinality(1 .. count) = count
    BY <2>1, FS_Interval
  <2> QED BY <2>1, <2>2, <2>3 DEF Capacity
<1>4. target = 0
  BY DEF Init, Walk!Init
<1>5. PointsForLoad
  <2>1. cpuLoad \in Nat /\ points = Walk!BuildNormalSchedulePoints(Masses, cpuLoad, 0)
    BY CpuLoadsAssumption DEF Init, Walk!Init
  <2> QED BY <2>1, PointsOfTheWalk DEF PointsForLoad
<1> QED BY <1>1, <1>2, <1>3, <1>4, <1>5 DEF PeriodInv, Reachable

LEMMA NextPeriodInv == PeriodInv /\ [Next]_vars => PeriodInv'
<1> SUFFICES ASSUME PeriodInv, [Next]_vars PROVE PeriodInv'
  OBVIOUS
<1>1. CASE UNCHANGED vars
  BY <1>1 DEF vars, options, walk, PeriodInv, PointsForLoad, Reachable, Capacity, Workers,
              Walk!WalkInv, Walk!TypeOK, Walk!UsedInOrder
<1>2. CASE Next
  <2>1. Capacity' = Capacity /\ mode' = mode /\ cpuLoad' = cpuLoad
    BY <1>2, StepsOfTheSchedule DEF Capacity
  <2>2. CASE UNCHANGED walk
    BY <2>1, <2>2 DEF walk, PeriodInv, PointsForLoad, Reachable,
                      Walk!WalkInv, Walk!TypeOK, Walk!UsedInOrder
  <2>3. CASE \E gap \in Nat : Walk!Elapse(gap)
    <3>1. Walk!WalkInv'
      BY <2>3, ElapseKeepsWalkInv DEF PeriodInv
    <3>2. target' = target /\ points' = points
      BY <2>3 DEF Walk!Elapse
    <3> QED BY <2>1, <3>1, <3>2 DEF PeriodInv, PointsForLoad, Reachable
  <2>4. CASE Walk!MoveTarget
    <3>1. Walk!WalkInv'
      BY <2>4, MoveKeepsWalkInv DEF PeriodInv
    <3>2. PICK i \in 1 .. Count : target' = points[i] /\ points' = points
      <4>1. order' \in [1 .. Count -> 1 .. Count]
        BY <3>1 DEF Walk!WalkInv, Walk!TypeOK, Walk!Shuffles
      <4>2. pointIdx + 1 \in 1 .. Count
        BY WalkNumbers DEF PeriodInv, Walk!WalkInv, Walk!TypeOK
      <4> QED BY <2>4, <4>1, <4>2 DEF Walk!MoveTarget
    <3> QED BY <2>1, <3>1, <3>2 DEF PeriodInv, PointsForLoad, Reachable
  <2> QED BY <1>2, <2>2, <2>3, <2>4, StepsOfTheSchedule
<1> QED BY <1>1, <1>2

\* The inductive invariant of the schedule.
THEOREM ScheduleInvariant == Spec => []PeriodInv
  BY InitPeriodInv, NextPeriodInv, PTL DEF Spec

\* What a whole period used are all the points, in some order.
LEMMA PeriodAddsUp ==
  ASSUME PeriodInv, started, pointIdx = 0
  PROVE  SumFunction([i \in 1 .. Count |-> points[used[i]]]) = cpuLoad * Count
<1> DEFINE S == 1 .. Count
           f == [i \in S |-> points[used[i]]]
<1>1. /\ points \in [S -> Nat] /\ order \in [S -> S]
      /\ \A i, j \in S : order[i] = order[j] => i = j
      /\ Len(used) = Count /\ (\A i \in S : used[i] = order[i])
      /\ IsFiniteSet(S)
  BY WeightNumbers DEF PeriodInv, Walk!WalkInv, Walk!TypeOK, Walk!Shuffles, Walk!UsedInOrder
<1>2. f \in [S -> Nat] /\ IsReordered(f, points, order, S)
  <2> HIDE DEF S
  <2> QED BY <1>1 DEF IsReordered
<1>3. DOMAIN f = S
  OBVIOUS
<1> HIDE DEF f, S
<1>4. Total(f, S) = Total(points, S)
  <2>1. IsFiniteSet(S) /\ order \in [S -> S] /\ points \in [S -> Nat] /\ f \in [S -> Nat]
    BY <1>1, <1>2
  <2>2. IsReordered(f, points, order, S)
    BY <1>2
  <2> QED BY <2>1, <2>2, TotalInOrder
<1>5. SumFunction(f) = Total(f, S)
  BY <1>3, Zenon DEF SumFunction, SumFunctionOnSet, FoldFunctionOnSet, Total
<1> QED
  BY <1>4, <1>5 DEF PeriodInv, PointsForLoad, f, S

\* Whatever the masses, the shuffles and the pace of the ticks, a period uses
\* each point once, its targets add up to exactly the load asked for, and none
\* is beyond what the workers can burn (BuildNormalSchedulePoints,
\* UpdateLoadTarget, Init).
THEOREM PeriodsKeepTheAverage == Spec => []PeriodKeepsAverage
<1>1. PeriodInv => PeriodKeepsAverage
  BY WalkInvIsEnough, PeriodAddsUp DEF PeriodInv, Reachable, PeriodKeepsAverage
<1> QED BY <1>1, ScheduleInvariant, PTL

-----------------------------------------------------------------------------

\* The controller never asks for less than nothing or more than the workers
\* have (LoadController::Update).
THEOREM DemandIsPossible ==
  ASSUME NEW goal \in Int, NEW system \in Int, NEW process \in Int,
         integral' \in Int, Capacity \in Nat
  PROVE  Demand(goal, system, process) \in 0 .. Capacity
<1> DEFINE parts == Clamp(Feedforward(goal, system, process) + integral', 0, Capacity * Scale)
<1>1. Scale \in Nat /\ Scale > 0
  BY ControlAssumption
<1>2. Feedforward(goal, system, process) \in Int
  BY <1>1 DEF Feedforward, Larger
<1>3. Capacity * Scale \in Nat
  BY <1>1
<1>4. parts \in Int /\ 0 <= parts /\ parts <= Capacity * Scale
  BY <1>2, <1>3 DEF Clamp
<1> HIDE DEF parts
<1>5. Nearest(parts) \in Int /\ 0 <= Nearest(parts) /\ Nearest(parts) <= Capacity
  BY <1>1, <1>4 DEF Nearest
<1> QED BY <1>5 DEF Demand, parts

\* A load is split without loss: each worker has the base load or one more,
\* and as many have one more as the division leaves; every budget fits the
\* period (SetWorkerLoadWithTotalLoad; kScheduleIntervalMS = kCpuMaxLoadPerCore).
THEOREM SplitIsFair ==
  ASSUME NEW n \in Nat \ {0}, Workers = 1 .. n, Interval = PerCore,
         NEW total \in 0 .. n * PerCore
  PROVE  \E base \in 0 .. PerCore, rest \in 0 .. n - 1 :
           /\ base * n + rest = total
           /\ \A w \in 1 .. n : Split(total)[w] = IF w <= rest THEN base + 1 ELSE base
           /\ \A w \in 1 .. n : Split(total)[w] \in 0 .. Interval
<1>1. PerCore \in Nat /\ PerCore > 0
  BY PerCoreAssumption
<1>2. Cardinality(Workers) = n
  BY FS_Interval
<1>3. Clamp(total, 0, Capacity) = total
  BY <1>1, <1>2 DEF Clamp, Capacity
<1> DEFINE base == total \div n
           rest == total % n
<1>4. /\ base \in Int /\ rest \in 0 .. n - 1
      /\ base * n + rest = total
  OBVIOUS
<1>5. base \in 0 .. PerCore /\ (rest > 0 => base < PerCore)
  BY <1>1, <1>4
<1> HIDE DEF base, rest
<1>6. \A x \in Nat : (x * PerCore) \div PerCore = x
  BY <1>1
<1>7. \A w \in 1 .. n : Split(total)[w] = IF w <= rest THEN base + 1 ELSE base
  <2>1. Split(total) =
          [w \in 1 .. n |-> ((base + (IF w <= rest THEN 1 ELSE 0)) * PerCore) \div PerCore]
    BY <1>2, <1>3 DEF Split, base, rest
  <2>2. ASSUME NEW w \in 1 .. n
        PROVE  Split(total)[w] = base + (IF w <= rest THEN 1 ELSE 0)
    <3>1. base + (IF w <= rest THEN 1 ELSE 0) \in Nat
      BY <1>4, <1>5
    <3>2. Split(total)[w] = ((base + (IF w <= rest THEN 1 ELSE 0)) * PerCore) \div PerCore
      BY <2>1
    <3> QED BY <1>6, <3>1, <3>2
  <2> QED BY <1>4, <1>5, <2>2
<1> QED BY <1>1, <1>4, <1>5, <1>7

-----------------------------------------------------------------------------
(* What the machine does and what Schedule() measures of it.               *)

LEMMA Numbers ==
  /\ PerCore \in Nat /\ PerCore > 0 /\ Interval \in Nat /\ Interval > 0
  /\ Cores \in Nat /\ Cores > 0 /\ Cores * PerCore \in Nat
  /\ Window \in Nat /\ Window > 0 /\ ProcInterval \in Nat /\ ProcInterval > 0
  /\ Scale \in Nat /\ Scale > 0 /\ KiInverse \in Nat /\ KiInverse > 0
  /\ MaxAge \in Nat /\ MaxDisturbances \in Nat
  /\ OtherLoads \subseteq 0 .. Cores * PerCore /\ Shortfalls \subseteq Nat
  /\ Gaps \subseteq Nat \ {0} /\ CpuLoads \subseteq Nat \ {0}
BY PerCoreAssumption, CoresAssumption, ControlAssumption, MachineAssumption, CpuLoadsAssumption

\* The workers burn what others leave them, whatever their budgets are.
LEMMA BurntFacts ==
  ASSUME NEW n \in Nat, loads \in [1 .. n -> Nat], shortfall \in Nat,
         NEW taken \in 0 .. Cores * PerCore
  PROVE  Burnt(taken) \in 0 .. Cores * PerCore - taken
<1> DEFINE f     == [w \in Workers |-> (loads[w] * PerCore) \div Interval]
           asked == FoldFunction(+, 0, f)
<1>1. Workers = 1 .. n /\ IsFiniteSet(1 .. n)
  BY FS_Interval DEF Workers
<1>2. f \in [1 .. n -> Nat]
  <2>1. \A w \in 1 .. n : loads[w] * PerCore \in Nat
    BY Numbers
  <2>2. \A x \in Nat : x \div Interval \in Nat
    BY Numbers
  <2> QED
    BY <1>1, <2>1, <2>2
<1>3. asked = Total(f, 1 .. n)
  BY <1>1 DEF Total, FoldFunction, FoldFunctionOnSet
<1>4. asked \in Nat
  <2> HIDE DEF f, asked
  <2> QED
    BY <1>1, <1>2, <1>3, TotalIsNat
<1>5. Burnt(taken) = Smaller(Clamp(asked - shortfall, 0, asked), Cores * PerCore - taken)
  BY DEF Burnt
<1> HIDE DEF asked
<1> QED
  BY <1>4, <1>5, Numbers DEF Smaller, Clamp

-----------------------------------------------------------------------------
(* The ring of samples.                                                    *)

SumOf(values) == FoldSeq(+, 0, values)

\* A ring that is not full yet is filled from its start.
SamplerOK(s) ==
  /\ s \in Samplers
  /\ Len(s.values) <= Window
  /\ s.sum = SumOf(s.values)
  /\ Len(s.values) < Window => s.index = 0

LEMMA SumIsTotal ==
  ASSUME NEW values \in Seq(Nat)
  PROVE  SumOf(values) = Total(values, 1 .. Len(values))
<1>1. SumOf(values) = Total(values, DOMAIN values)
  BY DEF SumOf, FoldSeq, FoldFunction, FoldFunctionOnSet, Total
<1>2. DOMAIN values = 1 .. Len(values)
  OBVIOUS
<1> QED
  BY <1>1, <1>2

LEMMA NoSamplesOK == SamplerOK(NoSamples)
<1>1. NoSamples \in Samplers /\ Len(NoSamples.values) = 0 /\ NoSamples.index = 0
  BY Numbers DEF NoSamples, Samplers
<1>2. SumOf(<<>>) = Total(<<>>, {})
  <2>1. <<>> \in Seq(Nat) /\ 1 .. Len(<<>>) = {}
    OBVIOUS
  <2> QED
    BY <2>1, SumIsTotal
<1>3. Total(<<>>, {}) = 0
  <2>1. <<>> \in [{} -> Nat] /\ IsFiniteSet({})
    BY FS_EmptySet
  <2>2. PICK t : IsTotal(t, <<>>, {}) /\ Total(<<>>, {}) = t[{}]
    BY <2>1, TotalIsLast
  <2> QED
    BY <2>2 DEF IsTotal
<1> QED
  BY <1>1, <1>2, <1>3, Numbers DEF SamplerOK, NoSamples

\* The newest sample takes the place of the oldest, and the sum follows.
LEMMA InsertFacts ==
  ASSUME NEW s, SamplerOK(s), NEW v \in Nat
  PROVE  SamplerOK(Insert(s, v, Window)) /\ Newest(Insert(s, v, Window)) = v
<1> DEFINE values == s.values
           r      == Insert(s, v, Window)
<1>0. /\ values \in Seq(Nat) /\ Len(values) \in Nat /\ values \in [1 .. Len(values) -> Nat]
      /\ s.index \in 0 .. Window - 1 /\ s.sum \in Nat
      /\ s.sum = Total(values, 1 .. Len(values)) /\ IsFiniteSet(1 .. Len(values))
      /\ DOMAIN s = {"values", "index", "sum"}
      /\ s = [values |-> s.values, index |-> s.index, sum |-> s.sum]
  <2>1. s \in Samplers /\ s.sum = SumOf(values)
    BY DEF SamplerOK
  <2>2. /\ values \in Seq(Nat) /\ s.index \in 0 .. Window - 1 /\ s.sum \in Nat
        /\ DOMAIN s = {"values", "index", "sum"}
        /\ s = [values |-> s.values, index |-> s.index, sum |-> s.sum]
    BY <2>1 DEF Samplers
  <2>3. Len(values) \in Nat /\ values \in [1 .. Len(values) -> Nat]
    BY <2>2
  <2>4. IsFiniteSet(1 .. Len(values))
    BY <2>3, FS_Interval
  <2>5. SumOf(values) = Total(values, 1 .. Len(values))
    BY <2>2, SumIsTotal
  <2> QED
    BY <2>1, <2>2, <2>3, <2>4, <2>5
<1>1. CASE Len(values) < Window
  <2> DEFINE longer == Append(values, v)
             n      == Len(values) + 1
  <2>1. r = [values |-> longer, index |-> 0, sum |-> s.sum + v]
    BY <1>0, <1>1 DEF Insert, SamplerOK
  <2>2. /\ longer \in Seq(Nat) /\ Len(longer) = n /\ longer \in [1 .. n -> Nat]
        /\ n \in 1 .. n /\ longer[n] = v /\ (1 .. n) \ {n} = 1 .. Len(values)
        /\ IsFiniteSet(1 .. n)
    <3>1. longer \in Seq(Nat) /\ Len(longer) = n /\ longer[n] = v
      BY <1>0
    <3>2. n \in 1 .. n /\ (1 .. n) \ {n} = 1 .. Len(values)
      BY <1>0
    <3>3. n \in Int
      BY <1>0
    <3>4. IsFiniteSet(1 .. n)
      BY <3>3, FS_Interval
    <3>5. longer \in [1 .. n -> Nat]
      <4> HIDE DEF longer, n
      <4> QED
        BY <3>1
    <3> QED
      BY <3>1, <3>2, <3>4, <3>5
  <2>3. [x \in 1 .. Len(values) |-> longer[x]] = values
    BY <1>0
  <2>4. SumOf(longer) = Total(longer, 1 .. n)
    BY <2>2, SumIsTotal
  <2>5. Total(longer, 1 .. n) = v + s.sum
    <3> HIDE DEF longer, n, values
    <3>1. Total(longer, 1 .. n)
            = longer[n] + Total([x \in (1 .. n) \ {n} |-> longer[x]], (1 .. n) \ {n})
      <4>1. IsFiniteSet(1 .. n) /\ longer \in [1 .. n -> Nat] /\ n \in 1 .. n
        BY <2>2
      <4> QED
        BY <4>1, TotalOfRest
    <3> QED
      BY <1>0, <2>2, <2>3, <3>1
  <2>6. r.values = longer /\ r.index = 0 /\ r.sum = s.sum + v
    BY <2>1
  <2>7. r \in Samplers
    <3>1. s.sum + v \in Nat /\ 0 \in 0 .. Window - 1
      <4>1. s.sum \in Nat
        BY <1>0
      <4>2. Window \in Nat \ {0}
        BY ControlAssumption
      <4> QED
        BY <4>1, <4>2
    <3> HIDE DEF longer, r
    <3> QED
      BY <2>1, <2>2, <3>1 DEF Samplers
  <2>8. Newest(r) = v
    BY <2>2, <2>6 DEF Newest
  <2>9. Len(r.values) <= Window /\ r.sum = SumOf(r.values)
    <3>1. n <= Window /\ v + s.sum = s.sum + v
      <4>1. Len(values) \in Nat /\ s.sum \in Nat
        BY <1>0
      <4>2. Window \in Nat \ {0}
        BY ControlAssumption
      <4> HIDE DEF values
      <4> QED
        BY <1>1, <4>1, <4>2
    <3> HIDE DEF longer, n, r, values
    <3> QED
      BY <2>2, <2>4, <2>5, <2>6, <3>1
  <2> QED
    BY <2>6, <2>7, <2>8, <2>9 DEF SamplerOK
<1>2. CASE ~(Len(values) < Window)
  <2> DEFINE k     == s.index + 1
             other == [values EXCEPT ![k] = v]
             next  == IF k >= Window THEN 0 ELSE k
             rest  == (1 .. Window) \ {k}
  <2>0. Len(values) = Window
    BY <1>0, <1>2, Numbers DEF SamplerOK
  <2>1. r = [values |-> other, sum |-> s.sum - values[k] + v, index |-> next]
    BY <1>2 DEF Insert
  <2>2. /\ k \in 1 .. Window /\ values[k] \in Nat
        /\ other \in Seq(Nat) /\ Len(other) = Window /\ other \in [1 .. Window -> Nat]
        /\ other[k] = v /\ next \in 0 .. Window - 1
    <3>1. k \in 1 .. Window /\ next \in 0 .. Window - 1
      <4>1. s.index \in 0 .. Window - 1
        BY <1>0
      <4>2. Window \in Nat \ {0}
        BY ControlAssumption
      <4> QED
        BY <4>1, <4>2
    <3>2. values \in [1 .. Window -> Nat]
      BY <1>0, <2>0
    <3> HIDE DEF k, values, next
    <3>3. other \in [1 .. Window -> Nat] /\ other[k] = v /\ values[k] \in Nat
      BY <3>1, <3>2
    <3>4. other \in Seq(Nat) /\ Len(other) = Window
      BY <3>3, Numbers
    <3> QED
      BY <3>1, <3>3, <3>4
  <2>3. [x \in rest |-> other[x]] = [x \in rest |-> values[x]]
    BY <1>0, <2>0
  <2>4. SumOf(other) = Total(other, 1 .. Window)
    BY <2>2, SumIsTotal
  <2>5. PICK m \in Nat : s.sum = values[k] + m /\ Total(other, 1 .. Window) = v + m
    <3>1. rest \subseteq 1 .. Window /\ IsFiniteSet(rest) /\ [x \in rest |-> values[x]] \in [rest -> Nat]
      BY <1>0, <2>0, FS_Subset
    <3>0. values \in [1 .. Window -> Nat] /\ IsFiniteSet(1 .. Window)
      BY <1>0, <2>0
    <3> HIDE DEF k, other, next, values
    <3>2. Total([x \in rest |-> values[x]], rest) \in Nat
      BY <3>1, TotalIsNat
    <3>5. k \in 1 .. Window /\ other \in [1 .. Window -> Nat]
      BY <2>2
    <3>3. Total(values, 1 .. Window) = values[k] + Total([x \in rest |-> values[x]], rest)
      BY <3>0, <3>5, TotalOfRest DEF rest
    <3>4. Total(other, 1 .. Window) = other[k] + Total([x \in rest |-> other[x]], rest)
      BY <3>0, <3>5, TotalOfRest DEF rest
    <3> QED
      BY <1>0, <2>0, <2>2, <2>3, <3>2, <3>3, <3>4
  <2>6. r.values = other /\ r.index = next /\ r.sum = v + m
    <3>1. r.values = other /\ r.index = next /\ r.sum = s.sum - values[k] + v
      BY <2>1
    <3>2. values[k] \in Nat /\ s.sum = values[k] + m
      BY <2>2, <2>5
    <3> HIDE DEF values, k, other, next, r
    <3> QED
      BY <3>1, <3>2
  <2>7. r \in Samplers
    <3>1. v + m \in Nat
      OBVIOUS
    <3>2. r = [values |-> other, sum |-> v + m, index |-> next]
      BY <2>1, <2>6
    <3> HIDE DEF other, next, r
    <3> QED
      BY <2>2, <3>1, <3>2 DEF Samplers
  <2>8. Newest(r) = v
    BY <2>2, <2>6, Numbers DEF Newest
  <2>9. Len(r.values) = Window /\ r.sum = SumOf(r.values)
    <3> HIDE DEF other
    <3> QED
      BY <2>2, <2>4, <2>5, <2>6
  <2> QED
    BY <2>7, <2>8, <2>9, Numbers DEF SamplerOK
<1> QED
  BY <1>1, <1>2

LEMMA MeanIsNat ==
  ASSUME NEW s, SamplerOK(s)
  PROVE  Mean(s) \in Nat
<1>1. s.values \in Seq(Nat) /\ s.sum \in Nat
  BY DEF SamplerOK, Samplers
<1>2. s.values # <<>> => Len(s.values) \in Nat /\ Len(s.values) > 0
  BY <1>1
<1>3. \A a \in Nat, b \in Nat : b > 0 => a \div b \in Nat
  OBVIOUS
<1> QED
  BY <1>1, <1>2, <1>3 DEF Mean

-----------------------------------------------------------------------------
(* The invariant of the measurements.                                      *)

\* The values of the variables, those of the walk aside.
Types ==
  /\ mode \in {"default", "rand_normal"} /\ cpuLoad \in CpuLoads
  /\ others \in OtherLoads /\ shortfall \in Shortfalls
  /\ \E n \in 1 .. Cores : loads \in [1 .. n -> 0 .. Interval]
  /\ due \in BOOLEAN
  /\ sys \in [known : BOOLEAN, busy : Nat, age : 0 .. MaxAge]
  /\ proc \in [known : BOOLEAN, busy : Nat, age : 0 .. MaxAge, load : Nat]
  /\ SamplerOK(sysSampler) /\ SamplerOK(procSampler)
  /\ integral \in -(Capacity * Scale) .. Capacity * Scale
  /\ disturbances \in 0 .. MaxDisturbances

\* What was counted since a baseline, in a time of such loads.
Between(count, range) ==
  /\ range.least * count.age <= count.busy
  /\ count.busy <= range.greatest * count.age

\* Counters are read against baselines of the same time: busy time and time
\* were collected together, also over failed reads; and a tick takes time.
Measured ==
  /\ sysRange \in [least : Nat, greatest : Nat]
  /\ procRange \in [least : Nat, greatest : Nat]
  /\ sys.known => Between(sys, sysRange)
  /\ proc.known => Between(proc, procRange)
  /\ due /\ sys.known => sys.age > 0

ControlInv == PeriodInv /\ Types /\ Measured

\* Busy time that goes on at a load within the range stays within the range.
LEMMA GoesOn ==
  ASSUME NEW count, NEW range, NEW load \in Nat, NEW gap \in Nat,
         count.busy \in Nat, count.age \in Nat, range \in [least : Nat, greatest : Nat],
         Between(count, range), NEW next,
         next.busy = count.busy + gap * load, next.age = count.age + gap
  PROVE  Between(next, Widen(range, load))
<1> DEFINE least    == Widen(range, load).least
           greatest == Widen(range, load).greatest
<1>1. /\ least \in Nat /\ greatest \in Nat /\ range.least \in Nat /\ range.greatest \in Nat
      /\ least <= range.least /\ least <= load
      /\ range.greatest <= greatest /\ load <= greatest
  BY DEF Widen, Smaller, Larger
<1> HIDE DEF least, greatest
<1>2. least * count.age <= range.least * count.age /\ least * gap <= load * gap
  BY <1>1, Products
<1>3. range.greatest * count.age <= greatest * count.age /\ load * gap <= greatest * gap
  BY <1>1, Products
<1>4. /\ range.least * count.age <= count.busy
      /\ count.busy <= range.greatest * count.age
  BY DEF Between
<1>5. /\ least * (count.age + gap) = least * count.age + least * gap
      /\ greatest * (count.age + gap) = greatest * count.age + greatest * gap
      /\ gap * load = load * gap
  BY <1>1
<1>6. /\ least * count.age \in Nat /\ least * gap \in Nat /\ load * gap \in Nat
      /\ greatest * count.age \in Nat /\ greatest * gap \in Nat
      /\ range.least * count.age \in Nat /\ range.greatest * count.age \in Nat
  BY <1>1
<1>7. least * next.age <= next.busy /\ next.busy <= greatest * next.age
  BY <1>2, <1>3, <1>4, <1>5, <1>6
<1> QED
  BY <1>7 DEF Between, least, greatest

LEMMA DivBetween ==
  ASSUME NEW x \in Nat, NEW a \in Nat, a > 0, NEW lo \in Nat, NEW hi \in Nat,
         lo * a <= x, x <= hi * a
  PROVE  x \div a \in lo .. hi
<1> DEFINE q == x \div a
           r == x % a
<1>1. q \in Int /\ r \in 0 .. a - 1 /\ x = q * a + r
  OBVIOUS
<1> HIDE DEF q, r
<1>2. q >= lo
  <2> SUFFICES ASSUME q + 1 <= lo PROVE FALSE
    BY <1>1
  <2>1. (lo - (q + 1)) * a >= 0
    BY <1>1
  <2>2. (lo - (q + 1)) * a = lo * a - q * a - a
    BY <1>1
  <2> QED
    BY <1>1, <2>1, <2>2
<1>3. q <= hi
  <2> SUFFICES ASSUME hi + 1 <= q PROVE FALSE
    BY <1>1
  <2>1. (q - (hi + 1)) * a >= 0
    BY <1>1
  <2>2. (q - (hi + 1)) * a = q * a - hi * a - a
    BY <1>1
  <2> QED
    BY <1>1, <2>1, <2>2
<1> QED
  BY <1>1, <1>2, <1>3 DEF q

\* The quotient of busy time and time lies between the loads there were.
LEMMA SampleWithin ==
  ASSUME NEW count, NEW range, count.busy \in Nat, count.age \in Nat, count.age > 0,
         range \in [least : Nat, greatest : Nat], Between(count, range)
  PROVE  /\ (count.busy * Scale) \div count.age \in Nat
         /\ IsWithin((count.busy * Scale) \div count.age, range)
<1> DEFINE b  == count.busy
           a  == count.age
           lo == range.least
           hi == range.greatest
<1>1. /\ b \in Nat /\ a \in Nat /\ a > 0 /\ lo \in Nat /\ hi \in Nat /\ Scale \in Nat
      /\ lo * a <= b /\ b <= hi * a
  BY Numbers DEF Between
<1> HIDE DEF a, b, lo, hi
<1>2. lo * a \in Nat /\ hi * a \in Nat
  BY <1>1
<1>3. (lo * a) * Scale <= b * Scale /\ b * Scale <= (hi * a) * Scale
  BY <1>1, <1>2, Products
<1>4. (lo * a) * Scale = (lo * Scale) * a /\ (hi * a) * Scale = (hi * Scale) * a
  BY <1>1
<1>5. lo * Scale \in Nat /\ hi * Scale \in Nat /\ b * Scale \in Nat
  BY <1>1
<1>6. (b * Scale) \div a \in lo * Scale .. hi * Scale
  BY <1>1, <1>3, <1>4, <1>5, DivBetween
<1> QED
  BY <1>5, <1>6 DEF IsWithin, a, b, lo, hi

\* Budgets fit the period, whatever is demanded.
LEMMA SplitFits ==
  ASSUME NEW n \in Nat, n > 0, Workers = 1 .. n, NEW total \in Int
  PROVE  Split(total) \in [1 .. n -> 0 .. Interval]
<1> DEFINE c    == Clamp(total, 0, Capacity)
           base == c \div n
           rest == c % n
<1>1. Cardinality(Workers) = n
  BY FS_Interval
<1>2. n * PerCore \in Nat /\ Capacity = n * PerCore
  BY <1>1, Numbers DEF Capacity
<1>3. c \in 0 .. n * PerCore
  BY <1>2 DEF Clamp
<1>4. Split(total) =
        [w \in 1 .. n |-> ((base + (IF w <= rest THEN 1 ELSE 0)) * Interval) \div PerCore]
  BY <1>1 DEF Split
<1> HIDE DEF c
<1>5. base \in Int /\ rest \in 0 .. n - 1 /\ c = base * n + rest
  BY <1>2, <1>3
<1> HIDE DEF base, rest
<1>6. base >= 0
  <2> SUFFICES ASSUME base + 1 <= 0 PROVE FALSE
    BY <1>5
  <2>1. (base + 1) * n <= 0
    BY <1>5
  <2> QED
    BY <1>3, <1>5, <2>1
<1>7. base <= PerCore /\ (rest > 0 => base < PerCore)
  <2>1. base > PerCore => base * n >= PerCore * n + n
    <3> SUFFICES ASSUME base > PerCore PROVE base * n >= PerCore * n + n
      OBVIOUS
    <3>1. PerCore + 1 \in Nat /\ base \in Nat /\ PerCore + 1 <= base /\ PerCore \in Nat
      BY <1>5, <1>6, Numbers
    <3>2. (PerCore + 1) * n <= base * n
      BY <3>1, Products
    <3> QED
      BY <3>1, <3>2
  <2>2. base = PerCore => base * n = PerCore * n
    OBVIOUS
  <2>3. n * PerCore = PerCore * n /\ PerCore * n \in Nat
    BY Numbers
  <2> QED
    BY <1>3, <1>5, <2>1, <2>2, <2>3, Numbers
<1>8. ASSUME NEW b \in 0 .. PerCore
      PROVE  (b * Interval) \div PerCore \in 0 .. Interval
  <2>1. b * Interval <= PerCore * Interval
    BY Numbers, Products
  <2>2. PerCore * Interval = Interval * PerCore /\ b * Interval \in Nat /\ 0 * PerCore = 0
    BY Numbers
  <2> QED
    BY <2>1, <2>2, Numbers, DivBetween
<1>9. ASSUME NEW w \in 1 .. n PROVE base + (IF w <= rest THEN 1 ELSE 0) \in 0 .. PerCore
  BY <1>5, <1>6, <1>7, Numbers
<1> QED
  BY <1>4, <1>8, <1>9

LEMMA InitControlInv == Init => ControlInv
<1> SUFFICES ASSUME Init PROVE ControlInv
  OBVIOUS
<1>1. PeriodInv
  BY InitPeriodInv
<1>2. Types
  <2>1. \E n \in 1 .. Cores : loads \in [1 .. n -> 0 .. Interval]
    <3>1. PICK count \in 1 .. Cores : loads = [w \in 1 .. count |-> 0]
      BY DEF Init, InitSucceeds
    <3>2. 0 \in 0 .. Interval
      BY Numbers
    <3> QED
      BY <3>1, <3>2
  <2>2. integral \in -(Capacity * Scale) .. Capacity * Scale
    <3>1. Capacity * Scale \in Nat
      BY <1>1, Numbers DEF PeriodInv, Reachable
    <3> QED
      BY <3>1 DEF Init
  <2>3. /\ sys \in [known : BOOLEAN, busy : Nat, age : 0 .. MaxAge]
        /\ proc \in [known : BOOLEAN, busy : Nat, age : 0 .. MaxAge, load : Nat]
        /\ disturbances \in 0 .. MaxDisturbances
    BY Numbers DEF Init
  <2>4. SamplerOK(sysSampler) /\ SamplerOK(procSampler)
    BY NoSamplesOK DEF Init
  <2> QED
    BY <2>1, <2>2, <2>3, <2>4 DEF Init, Types
<1>3. Measured
  <2>1. Unread \in [least : Nat, greatest : Nat]
    BY Numbers DEF Unread
  <2> QED
    BY <2>1 DEF Init, Measured
<1> QED
  BY <1>1, <1>2, <1>3 DEF ControlInv

LEMMA CountsDisturbance ==
  ASSUME ControlInv, \E isOne : Disturbed(isOne)
  PROVE  disturbances' \in 0 .. MaxDisturbances
<1>1. disturbances \in 0 .. MaxDisturbances
  BY DEF ControlInv, Types
<1>2. \/ disturbances' = disturbances + 1 /\ disturbances' <= MaxDisturbances
      \/ disturbances' = disturbances + 0 /\ disturbances' <= MaxDisturbances
  BY Zenon DEF Disturbed
<1> QED
  BY <1>1, <1>2, Numbers

\* The counters go on at what the workers and the others took.
LEMMA WorkKeepsControlInv ==
  ASSUME ControlInv, NEW gap \in Gaps, NEW taken \in OtherLoads, Work(gap, taken)
  PROVE  Types' /\ Measured'
<1> DEFINE ours   == Burnt(taken)
           system == taken + ours
<1>1. gap \in Nat /\ gap > 0 /\ taken \in 0 .. Cores * PerCore /\ taken \in Nat
  BY Numbers
<1>2. ours \in Nat /\ system \in Nat
  <2>1. PICK n \in 1 .. Cores : loads \in [1 .. n -> 0 .. Interval]
    BY DEF ControlInv, Types
  <2>2. n \in Nat /\ loads \in [1 .. n -> Nat]
    BY <2>1, Numbers
  <2>3. shortfall \in Nat
    BY Numbers DEF ControlInv, Types
  <2>4. ours \in 0 .. Cores * PerCore - taken
    BY <1>1, <2>2, <2>3, BurntFacts
  <2> HIDE DEF ours
  <2> QED
    BY <1>1, <2>4, Numbers
<1>3. /\ ~due /\ due' = TRUE /\ others' = taken
      /\ sys'  = IF sys.known  THEN [sys EXCEPT !.busy = @ + gap * system, !.age = @ + gap]
                               ELSE sys
      /\ proc' = IF proc.known THEN [proc EXCEPT !.busy = @ + gap * ours, !.age = @ + gap]
                               ELSE proc
      /\ sys'.age <= MaxAge /\ proc'.age <= MaxAge
      /\ sysRange'  = Widen(sysRange, system)
      /\ procRange' = Widen(procRange, ours)
      /\ Disturbed(gap # 1 \/ taken # others)
      /\ UNCHANGED <<options, loads, samplers, integral>>
  BY DEF Work
<1> HIDE DEF ours, system
<1>4. /\ sys \in [known : BOOLEAN, busy : Nat, age : 0 .. MaxAge]
      /\ proc \in [known : BOOLEAN, busy : Nat, age : 0 .. MaxAge, load : Nat]
      /\ sysRange \in [least : Nat, greatest : Nat]
      /\ procRange \in [least : Nat, greatest : Nat]
      /\ sys.known => Between(sys, sysRange)
      /\ proc.known => Between(proc, procRange)
  BY DEF ControlInv, Types, Measured
<1>5. gap * system \in Nat /\ gap * ours \in Nat
  BY <1>1, <1>2
<1>6. /\ sys' \in [known : BOOLEAN, busy : Nat, age : 0 .. MaxAge]
      /\ sys'.known = sys.known
      /\ sys.known => sys'.busy = sys.busy + gap * system /\ sys'.age = sys.age + gap
  <2>1. CASE sys.known
    <3>1. sys' = [sys EXCEPT !.busy = @ + gap * system, !.age = @ + gap]
      BY <1>3, <2>1
    <3>2. /\ sys'.busy = sys.busy + gap * system /\ sys'.age = sys.age + gap
          /\ sys'.known = sys.known /\ DOMAIN sys' = {"known", "busy", "age"}
          /\ sys' = [known |-> sys'.known, busy |-> sys'.busy, age |-> sys'.age]
      BY <1>4, <3>1
    <3>3. sys'.busy \in Nat /\ sys'.age \in 0 .. MaxAge /\ sys'.known \in BOOLEAN
      BY <1>1, <1>3, <1>4, <1>5, <3>2, Numbers
    <3> QED
      BY <3>2, <3>3
  <2>2. CASE ~sys.known
    BY <1>3, <1>4, <2>2
  <2> QED
    BY <2>1, <2>2
<1>7. /\ proc' \in [known : BOOLEAN, busy : Nat, age : 0 .. MaxAge, load : Nat]
      /\ proc'.known = proc.known
      /\ proc.known => proc'.busy = proc.busy + gap * ours /\ proc'.age = proc.age + gap
  <2>1. CASE proc.known
    <3>1. proc' = [proc EXCEPT !.busy = @ + gap * ours, !.age = @ + gap]
      BY <1>3, <2>1
    <3>2. /\ proc'.busy = proc.busy + gap * ours /\ proc'.age = proc.age + gap
          /\ proc'.known = proc.known /\ proc'.load = proc.load
          /\ DOMAIN proc' = {"known", "busy", "age", "load"}
          /\ proc' = [known |-> proc'.known, busy |-> proc'.busy, age |-> proc'.age, load |-> proc'.load]
      BY <1>4, <3>1
    <3>3. proc'.busy \in Nat /\ proc'.age \in 0 .. MaxAge /\ proc'.known \in BOOLEAN /\ proc'.load \in Nat
      BY <1>1, <1>3, <1>4, <1>5, <3>2, Numbers
    <3> QED
      BY <3>2, <3>3
  <2>2. CASE ~proc.known
    BY <1>3, <1>4, <2>2
  <2> QED
    BY <2>1, <2>2
<1>8. Types'
  <2>1. disturbances' \in 0 .. MaxDisturbances
    BY <1>3, CountsDisturbance
  <2>2. UNCHANGED <<mode, cpuLoad, shortfall, loads, sysSampler, procSampler, integral>>
    BY <1>3 DEF options, samplers
  <2>3. Capacity' = Capacity
    BY <2>2 DEF Capacity, Workers
  <2> QED
    BY <1>3, <1>6, <1>7, <2>1, <2>2, <2>3 DEF ControlInv, Types
<1>9. Measured'
  <2>1. sysRange' \in [least : Nat, greatest : Nat] /\ procRange' \in [least : Nat, greatest : Nat]
    BY <1>2, <1>3, <1>4 DEF Widen, Smaller, Larger
  <2>2. sys.known => Between(sys', sysRange')
    <3> SUFFICES ASSUME sys.known PROVE Between(sys', sysRange')
      OBVIOUS
    <3>1. /\ sys.busy \in Nat /\ sys.age \in Nat /\ Between(sys, sysRange)
          /\ sys'.busy = sys.busy + gap * system /\ sys'.age = sys.age + gap
      BY <1>4, <1>6, Numbers
    <3>2. Between(sys', Widen(sysRange, system))
      BY <1>1, <1>2, <1>4, <3>1, GoesOn
    <3> QED
      BY <1>3, <3>2
  <2>3. proc.known => Between(proc', procRange')
    <3> SUFFICES ASSUME proc.known PROVE Between(proc', procRange')
      OBVIOUS
    <3>1. /\ proc.busy \in Nat /\ proc.age \in Nat /\ Between(proc, procRange)
          /\ proc'.busy = proc.busy + gap * ours /\ proc'.age = proc.age + gap
      BY <1>4, <1>7, Numbers
    <3>2. Between(proc', Widen(procRange, ours))
      BY <1>1, <1>2, <1>4, <3>1, GoesOn
    <3> QED
      BY <1>3, <3>2
  <2>4. sys.known => sys'.age > 0
    BY <1>1, <1>4, <1>6
  <2>5. Between(sys', sysRange') = Between(sys, sysRange)' /\ Between(proc', procRange') = Between(proc, procRange)'
    BY DEF Between
  <2> QED
    BY <1>3, <1>6, <1>7, <2>1, <2>2, <2>3, <2>4, <2>5 DEF Measured
<1> QED
  BY <1>8, <1>9

\* A read that failed leaves baseline and time; the first good one sets both.
LEMMA ReadsKeepControlInv ==
  ASSUME ControlInv, FailedRead \/ FirstRead
  PROVE  Types' /\ Measured'
<1>1. /\ UNCHANGED <<mode, cpuLoad, shortfall, others, loads, proc, sysSampler, procSampler,
                     integral, procRange>>
      /\ due' = FALSE
  BY DEF FailedRead, FirstRead, options, samplers
<1>2. \/ sys' = sys /\ sysRange' = sysRange
      \/ sys' = [known |-> TRUE, busy |-> 0, age |-> 0] /\ sysRange' = Unread
  BY DEF FailedRead, FirstRead
<1>3. disturbances' \in 0 .. MaxDisturbances
  <2>1. Disturbed(TRUE) \/ Disturbed(FALSE)
    BY DEF FailedRead, FirstRead
  <2> QED
    BY <2>1, CountsDisturbance
<1>4. sys' \in [known : BOOLEAN, busy : Nat, age : 0 .. MaxAge]
  <2>1. 0 \in 0 .. MaxAge /\ 0 \in Nat
    BY Numbers
  <2>2. sys \in [known : BOOLEAN, busy : Nat, age : 0 .. MaxAge]
    BY DEF ControlInv, Types
  <2>3. [known |-> TRUE, busy |-> 0, age |-> 0] \in [known : BOOLEAN, busy : Nat, age : 0 .. MaxAge]
    BY <2>1
  <2> QED
    BY <1>2, <2>2, <2>3, Zenon
<1>5. Types'
  <2>1. Capacity' = Capacity
    BY <1>1 DEF Capacity, Workers
  <2> QED
    BY <1>1, <1>3, <1>4, <2>1 DEF ControlInv, Types
<1>6. Measured'
  <2>1. sysRange' \in [least : Nat, greatest : Nat] /\ (sys'.known => Between(sys, sysRange)')
    <3>1. CASE sys' = sys /\ sysRange' = sysRange
      BY <3>1 DEF ControlInv, Measured, Between
    <3>2. CASE sys' = [known |-> TRUE, busy |-> 0, age |-> 0] /\ sysRange' = Unread
      <4>1. sys'.busy = 0 /\ sys'.age = 0
        BY <3>2
      <4>2. sysRange' \in [least : Nat, greatest : Nat]
        BY <3>2, Numbers DEF Unread
      <4>3. sysRange'.least * 0 = 0 /\ sysRange'.greatest * 0 = 0
        BY <4>2
      <4> QED
        BY <4>1, <4>2, <4>3 DEF Between
    <3> QED
      BY <1>2, <3>1, <3>2
  <2>2. procRange' \in [least : Nat, greatest : Nat] /\ (proc'.known => Between(proc, procRange)')
    BY <1>1 DEF ControlInv, Measured, Between
  <2> QED
    BY <1>1, <2>1, <2>2 DEF Measured
<1> QED
  BY <1>5, <1>6

\* A good read starts both measurements anew, where they are taken, and adds a
\* sample of each that lies within what was measured.
LEMMA StatFacts ==
  ASSUME ControlInv, NEW readable \in BOOLEAN, UpdateCpuStat(readable)
  PROVE  /\ proc' \in [known : BOOLEAN, busy : Nat, age : 0 .. MaxAge, load : Nat]
         /\ procRange' \in [least : Nat, greatest : Nat]
         /\ proc'.known => Between(proc', procRange')
         /\ proc.known /\ proc' # proc => IsWithin(proc'.load, procRange)
<1>1. /\ proc \in [known : BOOLEAN, busy : Nat, age : 0 .. MaxAge, load : Nat]
      /\ procRange \in [least : Nat, greatest : Nat]
      /\ proc.known => Between(proc, procRange)
  BY DEF ControlInv, Types, Measured
<1>2. CASE IsThrottled \/ ~readable
  BY <1>1, <1>2 DEF UpdateCpuStat
<1>3. CASE ~(IsThrottled \/ ~readable)
  <2> DEFINE load == IF proc.known /\ proc.age > 0 THEN (proc.busy * Scale) \div proc.age
                                                  ELSE proc.load
  <2>1. proc' = [known |-> TRUE, busy |-> 0, age |-> 0, load |-> load] /\ procRange' = Unread
    BY <1>3 DEF UpdateCpuStat
  <2>2. proc.known => proc.age > 0 /\ proc.age \in Nat
    BY <1>1, <1>3, Numbers DEF IsThrottled
  <2>3. load \in Nat /\ (proc.known => IsWithin(load, procRange))
    <3>1. CASE proc.known
      <4>1. proc.busy \in Nat /\ proc.age \in Nat /\ proc.age > 0 /\ Between(proc, procRange)
        BY <1>1, <2>2, <3>1
      <4>2. /\ (proc.busy * Scale) \div proc.age \in Nat
            /\ IsWithin((proc.busy * Scale) \div proc.age, procRange)
        BY <1>1, <4>1, SampleWithin
      <4> QED
        BY <3>1, <4>1, <4>2
    <3>2. CASE ~proc.known
      BY <1>1, <3>2
    <3> QED
      BY <3>1, <3>2
  <2> HIDE DEF load
  <2>4. proc'.busy = 0 /\ proc'.age = 0 /\ proc'.load = load
    BY <2>1
  <2>5. procRange' \in [least : Nat, greatest : Nat]
    BY <2>1, Numbers DEF Unread
  <2>6. procRange'.least * 0 = 0 /\ procRange'.greatest * 0 = 0
    BY <2>5
  <2>7. proc' \in [known : BOOLEAN, busy : Nat, age : 0 .. MaxAge, load : Nat]
    <3>1. 0 \in Nat /\ 0 \in 0 .. MaxAge /\ TRUE \in BOOLEAN
      BY Numbers
    <3> QED
      BY <2>1, <2>3, <3>1
  <2> QED
    BY <2>3, <2>4, <2>5, <2>6, <2>7 DEF Between
<1> QED
  BY <1>2, <1>3

\* The controller's step leaves the integral within the capacity and each
\* worker a budget that fits.
LEMMA AdjustFacts ==
  ASSUME ControlInv, PeriodInv', SamplerOK(sysSampler'), SamplerOK(procSampler'),
         mode' = mode, AdjustWorkerLoad
  PROVE  /\ Workers' = Workers
         /\ integral' \in -(Capacity * Scale) .. Capacity * Scale
         /\ \E n \in 1 .. Cores : loads' \in [1 .. n -> 0 .. Interval]
<1> DEFINE goal    == IF mode = "default" THEN cpuLoad ELSE target'
           system  == Mean(sysSampler')
           process == Mean(procSampler')
           cap     == Capacity * Scale
<1>1. integral' = NewIntegral(goal, system, process) /\ loads' = Split(Demand(goal, system, process))
  BY DEF AdjustWorkerLoad
<1>2. goal \in Nat /\ system \in Nat /\ process \in Nat
  <2>1. cpuLoad \in Nat
    BY Numbers DEF ControlInv, Types
  <2>2. target' \in Nat
    BY DEF PeriodInv, Walk!WalkInv, Walk!TypeOK
  <2>3. system \in Nat /\ process \in Nat
    BY MeanIsNat
  <2> QED
    BY <2>1, <2>2, <2>3
<1>3. Capacity \in Nat /\ cap \in Nat /\ integral \in -cap .. cap
  BY Numbers DEF ControlInv, PeriodInv, Reachable, Types
<1> HIDE DEF goal, system, process
<1>4. integral' \in -cap .. cap
  <2>1. Candidate(goal, system) \in Int
    <3>1. goal * Scale - system \in Int
      BY <1>2, Numbers
    <3>2. (goal * Scale - system) \div KiInverse \in Int
      BY <3>1, Numbers
    <3> QED
      BY <1>3, <3>2 DEF Candidate
  <2>2. integral' = integral \/ integral' = Clamp(Candidate(goal, system), -cap, cap)
    BY <1>1 DEF NewIntegral
  <2> HIDE DEF cap
  <2>3. Clamp(Candidate(goal, system), -cap, cap) \in -cap .. cap
    BY <1>3, <2>1 DEF Clamp
  <2> QED
    BY <1>3, <2>2, <2>3
<1>5. Demand(goal, system, process) \in Int
  <2>1. integral' \in Int
    BY <1>3, <1>4
  <2> QED
    BY <1>2, <1>3, <2>1, DemandIsPossible
<1>6. PICK n \in 1 .. Cores : loads \in [1 .. n -> 0 .. Interval]
  BY DEF ControlInv, Types
<1>7. loads' \in [1 .. n -> 0 .. Interval]
  <2>1. n \in Nat /\ n > 0 /\ Workers = 1 .. n
    BY <1>6, Numbers DEF Workers
  <2> QED
    BY <1>1, <1>5, <2>1, SplitFits
<1>8. Workers' = Workers
  BY <1>6, <1>7 DEF Workers
<1> QED
  BY <1>4, <1>7, <1>8

LEMMA GoodReadFacts ==
  ASSUME ControlInv, PeriodInv', NEW readable \in BOOLEAN, GoodRead(readable)
  PROVE  /\ Types' /\ Measured'
         /\ IsWithin(Newest(sysSampler'), sysRange)
         /\ proc.known /\ proc' # proc => IsWithin(proc'.load, procRange)
<1>1. /\ due /\ sys.known /\ due' = FALSE
      /\ UpdateCpuStat(readable)
      /\ procSampler' = Insert(procSampler, proc'.load, Window)
      /\ sys' = [sys EXCEPT !.busy = 0, !.age = 0]
      /\ sysRange' = Unread
      /\ \E isOne : Disturbed(isOne)
      /\ UNCHANGED <<mode, cpuLoad, shortfall, others>>
  BY DEF GoodRead, options
<1>2. /\ sys \in [known : BOOLEAN, busy : Nat, age : 0 .. MaxAge]
      /\ sysRange \in [least : Nat, greatest : Nat]
      /\ Between(sys, sysRange) /\ sys.age > 0
      /\ SamplerOK(sysSampler) /\ SamplerOK(procSampler)
  BY <1>1 DEF ControlInv, Types, Measured
<1>3. /\ sysSampler' = Insert(sysSampler, (sys.busy * Scale) \div sys.age, Window)
      /\ AdjustWorkerLoad
  <2>1. ~(sys.age <= 0)
    BY <1>2, Numbers
  <2> QED
    BY <2>1 DEF GoodRead
<1>4. /\ (sys.busy * Scale) \div sys.age \in Nat
      /\ IsWithin((sys.busy * Scale) \div sys.age, sysRange)
  <2>1. sys.busy \in Nat /\ sys.age \in Nat
    BY <1>2, Numbers
  <2> QED
    BY <1>2, <2>1, SampleWithin
<1>5. SamplerOK(sysSampler') /\ Newest(sysSampler') = (sys.busy * Scale) \div sys.age
  BY <1>2, <1>3, <1>4, InsertFacts
<1>6. /\ proc' \in [known : BOOLEAN, busy : Nat, age : 0 .. MaxAge, load : Nat]
      /\ procRange' \in [least : Nat, greatest : Nat]
      /\ proc'.known => Between(proc', procRange')
      /\ proc.known /\ proc' # proc => IsWithin(proc'.load, procRange)
  BY <1>1, StatFacts
<1>7. SamplerOK(procSampler')
  <2>1. proc'.load \in Nat
    BY <1>6
  <2> QED
    BY <1>1, <1>2, <2>1, InsertFacts
<1>8. /\ Workers' = Workers
      /\ integral' \in -(Capacity * Scale) .. Capacity * Scale
      /\ \E n \in 1 .. Cores : loads' \in [1 .. n -> 0 .. Interval]
  BY <1>1, <1>3, <1>5, <1>7, AdjustFacts
<1>9. /\ sys' \in [known : BOOLEAN, busy : Nat, age : 0 .. MaxAge]
      /\ sys'.busy = 0 /\ sys'.age = 0
  <2>1. sys' = [known |-> sys.known, busy |-> 0, age |-> 0] /\ sys.known \in BOOLEAN
    BY <1>1, <1>2
  <2>2. 0 \in Nat /\ 0 \in 0 .. MaxAge
    BY Numbers
  <2> QED
    BY <2>1, <2>2
<1>10. Types'
  <2>1. Capacity' = Capacity
    BY <1>8 DEF Capacity
  <2>2. disturbances' \in 0 .. MaxDisturbances
    BY <1>1, CountsDisturbance
  <2>3. SamplerOK(sysSampler)' /\ SamplerOK(procSampler)'
    BY <1>5, <1>7 DEF SamplerOK, Samplers
  <2> QED
    BY <1>1, <1>6, <1>8, <1>9, <2>1, <2>2, <2>3 DEF ControlInv, Types
<1>11. Measured'
  <2>1. sysRange' \in [least : Nat, greatest : Nat]
    BY <1>1, Numbers DEF Unread
  <2>2. sysRange'.least * 0 = 0 /\ sysRange'.greatest * 0 = 0
    BY <2>1
  <2>3. Between(sys, sysRange)' /\ (proc'.known => Between(proc, procRange)')
    BY <1>6, <1>9, <2>2 DEF Between
  <2> QED
    BY <1>1, <1>6, <2>1, <2>3 DEF Measured
<1> QED
  BY <1>4, <1>5, <1>6, <1>10, <1>11

LEMMA NextControlInv == ControlInv /\ [Next]_vars => ControlInv'
<1> SUFFICES ASSUME ControlInv, [Next]_vars PROVE ControlInv'
  OBVIOUS
<1>1. PeriodInv'
  BY NextPeriodInv DEF ControlInv
<1>2. CASE UNCHANGED vars
  <2>1. UNCHANGED <<mode, cpuLoad, shortfall, others, loads, due, sys, proc, sysSampler, procSampler,
                    integral, disturbances, sysRange, procRange>>
    BY <1>2 DEF vars, options, samplers
  <2>2. Types'
    BY <2>1 DEF ControlInv, Types, Capacity, Workers
  <2>3. Measured'
    BY <2>1 DEF ControlInv, Measured, Between
  <2> QED
    BY <1>1, <2>2, <2>3 DEF ControlInv
<1>3. ASSUME NEW gap \in Gaps, NEW taken \in OtherLoads, Work(gap, taken) PROVE Types' /\ Measured'
  BY <1>3, WorkKeepsControlInv
<1>4. CASE FailedRead \/ FirstRead
  BY <1>1, <1>4, ReadsKeepControlInv DEF ControlInv
<1>5. ASSUME NEW readable \in BOOLEAN, GoodRead(readable) PROVE Types' /\ Measured'
  BY <1>1, <1>5, GoodReadFacts
<1> QED
  BY <1>1, <1>2, <1>3, <1>4, <1>5 DEF Next, ControlInv

LEMMA ControlInvHolds == Spec => []ControlInv
  BY InitControlInv, NextControlInv, PTL DEF Spec

\* The controller keeps to its bounds, for any machine and any noise: budgets
\* fit the scheduling period, the integral never winds up beyond the capacity,
\* and the ring's running sum is that of the samples in it, however often they
\* were replaced (TypeOK; load_controller.cc, util/rolling_sampler.h).
THEOREM ControllerKeepsItsBounds == Spec => []TypeOK
<1>1. ControlInv => TypeOK
  <2> SUFFICES ASSUME ControlInv PROVE TypeOK
    OBVIOUS
  <2>1. Walk!TypeOK
    BY DEF ControlInv, PeriodInv, Walk!WalkInv
  <2>2. ASSUME NEW s, SamplerOK(s)
        PROVE  s \in Samplers /\ Len(s.values) <= Window /\ s.sum = FoldSeq(+, 0, s.values)
    BY <2>2, Zenon DEF SamplerOK, SumOf
  <2>3. /\ {sysSampler, procSampler} \subseteq Samplers
        /\ \A s \in {sysSampler, procSampler} :
             Len(s.values) <= Window /\ s.sum = FoldSeq(+, 0, s.values)
    BY <2>2, Zenon DEF ControlInv, Types
  <2> QED
    BY <2>1, <2>3, Zenon DEF ControlInv, Types, TypeOK
<1> QED
  BY <1>1, ControlInvHolds, PTL

\* Every sample lies between the least and the greatest load of the time it
\* stands for, for any loads of the others, late ticks and failed reads
\* (SamplesMatchTheLoad; AdjustWorkerLoad, ProcStat::UpdateCpuStat).
THEOREM SamplesAreOfTheirTime == Spec => SamplesMatchTheLoad
<1>1. ControlInv /\ ControlInv' /\ [Next]_vars
        => [\A readable \in BOOLEAN : GoodRead(readable) =>
              /\ IsWithin(Newest(sysSampler'), sysRange)
              /\ proc.known /\ proc' # proc => IsWithin(proc'.load, procRange)]_vars
  <2> SUFFICES ASSUME ControlInv, ControlInv', NEW readable \in BOOLEAN, GoodRead(readable)
               PROVE  /\ IsWithin(Newest(sysSampler'), sysRange)
                      /\ proc.known /\ proc' # proc => IsWithin(proc'.load, procRange)
    OBVIOUS
  <2>1. PeriodInv'
    BY DEF ControlInv
  <2> QED
    BY <2>1, GoodReadFacts
<1> QED
  BY <1>1, ControlInvHolds, PTL DEF Spec, SamplesMatchTheLoad
=============================================================================
