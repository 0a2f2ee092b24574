------------------------------ MODULE Induction ------------------------------
(***************************************************************************)
(* Induction on the natural numbers, stated with a set of numbers where    *)
(* one would say a predicate, so that a proof that cites it names the set; *)
(* what it gives for functions that are defined step by step; the same for *)
(* finite sets, and the sums over them.                                    *)
(***************************************************************************)
EXTENDS Integers, FiniteSets, FiniteSetTheorems, WellFoundedInduction, TLAPS

Less == {ss \in Nat \X Nat : ss[1] < ss[2]}

\* The order of the natural numbers is well founded.
LEMMA LessIsWellFounded == IsWellFoundedOn(Less, Nat)
  BY NatLessThanWellFounded DEF OpToRel, Less

\* A set of numbers that is not empty has a least one.
LEMMA LeastNumber ==
  ASSUME NEW S \in SUBSET Nat, S # {}
  PROVE  \E x \in S : \A y \in S : x <= y
<1>1. PICK x \in S : \A y \in S : ~(<<y, x>> \in Less)
  BY LessIsWellFounded, WFMin
<1>2. ASSUME NEW y \in S, y < x
      PROVE  FALSE
  <2>1. <<y, x>> \in Nat \X Nat /\ <<y, x>>[1] < <<y, x>>[2]
    BY <1>2
  <2>2. <<y, x>> \in Less
    BY <2>1 DEF Less
  <2> QED BY <1>1, <2>2
<1> QED BY <1>1, <1>2

\* A set that has 0, and the next of each of its numbers up to n, has the numbers
\* up to n.
LEMMA InductionUpTo ==
  ASSUME NEW n \in Nat, NEW S, 0 \in S, \A i \in 0 .. n - 1 : i \in S => i + 1 \in S
  PROVE  \A i \in 0 .. n : i \in S
<1> DEFINE Missed == {i \in 0 .. n : i \notin S}
<1>1. SUFFICES ASSUME Missed # {}
               PROVE  FALSE
  OBVIOUS
<1>2. Missed \in SUBSET Nat
  OBVIOUS
<1>3. PICK x \in Missed : \A y \in Missed : x <= y
  BY <1>1, <1>2, LeastNumber
<1>4. x # 0 /\ x - 1 \in 0 .. n - 1 /\ x = (x - 1) + 1
  BY <1>3
<1>5. x - 1 \in S
  BY <1>3, <1>4
<1> QED BY <1>3, <1>4, <1>5

\* A function can be defined step by step: there is one that begins with `first`
\* and continues as `step` says.
IsStepByStep(f, n, S, first, step) ==
  f \in [0 .. n -> S] /\ f[0] = first /\ \A i \in 1 .. n : f[i] = step[i][f[i - 1]]

\* What is computed step by step, n times, exists.
LEMMA StepByStep ==
  ASSUME NEW n \in Nat, NEW S, NEW first \in S, NEW step \in [1 .. n -> [S -> S]]
  PROVE  \E f : IsStepByStep(f, n, S, first, step)
<1> DEFINE Begun(f, k) == f \in [0 .. k -> S] /\ f[0] = first /\ \A i \in 1 .. k : f[i] = step[i][f[i - 1]]
           T == {k \in 0 .. n : \E f : Begun(f, k)}
<1>1. 0 \in T
  <2> DEFINE f0 == [i \in 0 .. 0 |-> first]
  <2>1. Begun(f0, 0)
    OBVIOUS
  <2>2. \E h : Begun(h, 0)
    BY <2>1, Zenon
  <2> QED BY <2>2
<1>2. ASSUME NEW k \in 0 .. n - 1, k \in T
      PROVE  k + 1 \in T
  <2>1. PICK f : Begun(f, k)
    BY <1>2
  <2>2. k + 1 \in 1 .. n /\ f[k] \in S
    BY <2>1
  <2>3. step[k + 1] \in [S -> S]
    BY <2>2
  <2>4. step[k + 1][f[k]] \in S
    BY <2>2, <2>3
  <2> DEFINE g == [i \in 0 .. k + 1 |-> IF i = k + 1 THEN step[k + 1][f[k]] ELSE f[i]]
  <2>5. g \in [0 .. k + 1 -> S] /\ g[0] = first
    BY <2>1, <2>4
  <2>6. ASSUME NEW i \in 1 .. k + 1
        PROVE  g[i] = step[i][g[i - 1]]
    <3>1. CASE i = k + 1
      BY <3>1
    <3>2. CASE i \in 1 .. k
      BY <3>2, <2>1
    <3> QED BY <3>1, <3>2
  <2>7. Begun(g, k + 1)
    <3> HIDE DEF g
    <3> QED BY <2>5, <2>6
  <2>8. k + 1 \in 0 .. n
    BY <2>2
  <2>9. \E h : Begun(h, k + 1)
    BY <2>7, Zenon
  <2> QED BY <2>8, <2>9
<1>3. n \in T
  <2> HIDE DEF T
  <2>1. \A k \in 0 .. n - 1 : k \in T => k + 1 \in T
    BY <1>2
  <2>2. \A k \in 0 .. n : k \in T
    BY <1>1, <2>1, InductionUpTo
  <2> QED BY <2>2
<1>4. PICK f : Begun(f, n)
  BY <1>3
<1>5. IsStepByStep(f, n, S, first, step)
  BY <1>4 DEF IsStepByStep
<1> QED BY <1>5

-----------------------------------------------------------------------------
\* A set of subsets of S has them all when it has each one that it has all of less one
\* element.
LEMMA FiniteInduction ==
  ASSUME NEW S, IsFiniteSet(S), NEW P,
         \A T \in SUBSET S : (\A x \in T : T \ {x} \in P) => T \in P
  PROVE  \A T \in SUBSET S : T \in P
<1> DEFINE Missed == {T \in SUBSET S : T \notin P}
           Sizes == {Cardinality(T) : T \in Missed}
<1>1. \A T \in SUBSET S : IsFiniteSet(T) /\ Cardinality(T) \in Nat
  BY FS_Subset, FS_CardinalityType
<1>2. SUFFICES ASSUME Missed # {}
               PROVE  FALSE
  OBVIOUS
<1>3. Sizes \in SUBSET Nat /\ Sizes # {}
  BY <1>1, <1>2
<1>4. PICK n \in Sizes : \A m \in Sizes : n <= m
  <2> HIDE DEF Sizes
  <2> QED BY <1>3, LeastNumber
<1>5. PICK T \in Missed : Cardinality(T) = n
  OBVIOUS
<1>6. ASSUME NEW x \in T
      PROVE  T \ {x} \in P
  <2>1. Cardinality(T \ {x}) = Cardinality(T) - 1 /\ Cardinality(T) \in Nat
    BY <1>1, <1>5, FS_RemoveElement
  <2>2. T \ {x} \in Missed => Cardinality(T \ {x}) \in Sizes
    OBVIOUS
  <2>3. T \ {x} \notin Missed
    <3> HIDE DEF Sizes, Missed
    <3> QED BY <1>4, <1>5, <2>1, <2>2
  <2> QED BY <1>5, <2>3
<1> QED BY <1>5, <1>6

\* What MapThenSumSet of FiniteSetsExt counts with: the sums of f over the subsets of S.
First(T) == CHOOSE x \in T : TRUE
AreSums(sum, f, S) ==
  sum = [T \in SUBSET S |-> IF T = {} THEN 0 ELSE f[First(T)] + sum[T \ {First(T)}]]

\* Sums over the subsets of a finite set exist.
LEMMA SumsExist ==
  ASSUME NEW S, IsFiniteSet(S), NEW f \in [S -> Nat]
  PROVE  \E sum : AreSums(sum, f, S) /\ sum \in [SUBSET S -> Nat]
<1> DEFINE Small(n) == {T \in SUBSET S : Cardinality(T) <= n}
           Sums(g, n) == /\ g \in [Small(n) -> Nat]
                         /\ \A T \in Small(n) : g[T] = IF T = {} THEN 0 ELSE f[First(T)] + g[T \ {First(T)}]
           Reached == {n \in Nat : \E g : Sums(g, n)}
<1>1. \A T \in SUBSET S : IsFiniteSet(T) /\ Cardinality(T) \in Nat /\ Cardinality(T) <= Cardinality(S)
  BY FS_Subset, FS_CardinalityType
<1>2. \A T \in SUBSET S : T # {} => First(T) \in T /\ f[First(T)] \in Nat
  BY DEF First
<1>3. \A T \in SUBSET S : T # {} => T \ {First(T)} \in SUBSET S /\ Cardinality(T \ {First(T)}) = Cardinality(T) - 1
  BY <1>1, <1>2, FS_RemoveElement
<1>4. \A T \in SUBSET S : Cardinality(T) = 0 <=> T = {}
  BY <1>1, FS_EmptySet
<1>5. 0 \in Reached
  <2> DEFINE g == [T \in Small(0) |-> 0]
  <2>1. \A T \in Small(0) : T = {}
    BY <1>1, <1>4
  <2>2. Sums(g, 0)
    BY <2>1
  <2>3. \E h : Sums(h, 0)
    BY <2>2, Zenon
  <2> QED BY <2>3
<1>6. ASSUME NEW n \in Nat, n \in Reached
      PROVE  n + 1 \in Reached
  <2>1. PICK g : Sums(g, n)
    BY <1>6
  <2> DEFINE Value(T) == IF T = {} THEN 0 ELSE f[First(T)] + g[T \ {First(T)}]
             h == [T \in Small(n + 1) |-> Value(T)]
  <2>2. \A T \in Small(n + 1) : T # {} => T \ {First(T)} \in Small(n)
    BY <1>1, <1>3
  <2>3. \A T \in Small(n + 1) : Value(T) \in Nat
    BY <1>2, <2>1, <2>2
  <2>4. \A T \in Small(n) : T \in Small(n + 1) /\ h[T] = g[T]
    <3>1. \A T \in Small(n) : T \in Small(n + 1)
      BY <1>1
    <3>2. \A T \in Small(n) : g[T] = Value(T)
      BY <2>1
    <3> HIDE DEF Small, Value
    <3> QED BY <3>1, <3>2
  <2>5. h \in [Small(n + 1) -> Nat]
    <3> HIDE DEF Small, Value
    <3> QED BY <2>3
  <2>6. \A T \in Small(n + 1) : h[T] = IF T = {} THEN 0 ELSE f[First(T)] + h[T \ {First(T)}]
    <3> SUFFICES ASSUME NEW T \in Small(n + 1)
                 PROVE  h[T] = IF T = {} THEN 0 ELSE f[First(T)] + h[T \ {First(T)}]
      OBVIOUS
    <3>1. h[T] = Value(T)
      OBVIOUS
    <3>2. T # {} => h[T \ {First(T)}] = g[T \ {First(T)}]
      <4> HIDE DEF h, Small
      <4> QED BY <2>2, <2>4
    <3> HIDE DEF h, Small
    <3> QED BY <3>1, <3>2
  <2>7. \E k : Sums(k, n + 1)
    <3>1. Sums(h, n + 1)
      <4> HIDE DEF h, Small
      <4> QED BY <2>5, <2>6
    <3> HIDE DEF h, Sums
    <3> QED BY <3>1
  <2>8. n + 1 \in Nat
    OBVIOUS
  <2> HIDE DEF Sums
  <2> QED BY <2>7, <2>8
<1>7. Cardinality(S) \in Nat /\ Cardinality(S) \in Reached
  <2>1. Cardinality(S) \in Nat
    BY <1>1
  <2>2. \A i \in 0 .. Cardinality(S) - 1 : i \in Reached => i + 1 \in Reached
    BY <1>6, <2>1
  <2> HIDE DEF Reached
  <2>3. \A i \in 0 .. Cardinality(S) : i \in Reached
    BY <1>5, <2>1, <2>2, InductionUpTo
  <2> QED BY <2>1, <2>3
<1>8. Small(Cardinality(S)) = SUBSET S
  BY <1>1
<1>9. PICK g : Sums(g, Cardinality(S))
  BY <1>7
<1>10. g \in [SUBSET S -> Nat] /\ \A T \in SUBSET S : g[T] = IF T = {} THEN 0 ELSE f[First(T)] + g[T \ {First(T)}]
  <2> HIDE DEF Small
  <2> QED BY <1>8, <1>9
<1>11. AreSums(g, f, S)
  <2>1. g = [T \in SUBSET S |-> g[T]]
    BY <1>10
  <2> QED BY <1>10, <2>1 DEF AreSums
<1> QED BY <1>10, <1>11

\* Any element may be counted last.
LEMMA SumsSplit ==
  ASSUME NEW S, IsFiniteSet(S), NEW f \in [S -> Nat], NEW sum, AreSums(sum, f, S)
  PROVE  /\ sum[{}] = 0
         /\ \A T \in SUBSET S : sum[T] \in Nat /\ \A x \in T : sum[T] = f[x] + sum[T \ {x}]
<1> DEFINE P == {T \in SUBSET S : sum[T] \in Nat /\ \A x \in T : sum[T] = f[x] + sum[T \ {x}]}
<1>1. \A T \in SUBSET S : sum[T] = IF T = {} THEN 0 ELSE f[First(T)] + sum[T \ {First(T)}]
  BY DEF AreSums
<1> DEFINE Numbers == {T \in SUBSET S : sum[T] \in Nat}
<1>0. \A T \in SUBSET S : sum[T] \in Nat
  <2>1. ASSUME NEW T \in SUBSET S, \A x \in T : T \ {x} \in Numbers
        PROVE  T \in Numbers
    <3>1. T # {} => First(T) \in T
      BY DEF First
    <3>2. CASE T = {}
      BY <1>1, <3>2
    <3>3. CASE T # {}
      <4>1. First(T) \in T /\ First(T) \in S
        BY <3>1, <3>3
      <4>2. f[First(T)] \in Nat /\ sum[T \ {First(T)}] \in Nat
        BY <2>1, <4>1
      <4>3. sum[T] = f[First(T)] + sum[T \ {First(T)}]
        BY <1>1, <3>3
      <4> QED BY <4>2, <4>3
    <3> QED BY <3>2, <3>3
  <2>2. \A T \in SUBSET S : T \in Numbers
    <3> HIDE DEF Numbers
    <3> QED BY <2>1, FiniteInduction
  <2> QED BY <2>2
<1>2. ASSUME NEW T \in SUBSET S, \A x \in T : T \ {x} \in P
      PROVE  T \in P
  <2>1. CASE T = {}
    BY <1>1, <2>1
  <2>2. CASE T # {}
    <3> DEFINE y == First(T)
    <3>1. y \in T
      BY <2>2 DEF First
    <3>2. sum[T] = f[y] + sum[T \ {y}] /\ T \ {y} \in P
      BY <1>1, <1>2, <2>2, <3>1
    <3> HIDE DEF y
    <3>3. sum[T] \in Nat /\ f[y] \in Nat
      BY <3>1, <3>2
    <3>4. ASSUME NEW x \in T, x # y
          PROVE  sum[T] = f[x] + sum[T \ {x}]
      <4>1. sum[T \ {y}] = f[x] + sum[(T \ {y}) \ {x}]
        BY <3>2, <3>4
      <4>2. sum[T \ {x}] = f[y] + sum[(T \ {x}) \ {y}]
        BY <1>2, <3>1, <3>4
      <4>3. (T \ {y}) \ {x} = (T \ {x}) \ {y} /\ (T \ {x}) \ {y} \in SUBSET S
        OBVIOUS
      <4>4. f[x] \in Nat /\ sum[(T \ {x}) \ {y}] \in Nat
        BY <1>0, <4>3
      <4>5. sum[T] = f[y] + (f[x] + sum[(T \ {x}) \ {y}])
        BY <3>2, <4>1, <4>3
      <4> QED BY <3>3, <4>2, <4>4, <4>5
    <3> QED BY <3>2, <3>3, <3>4
  <2> QED BY <2>1, <2>2
<1>3. \A T \in SUBSET S : T \in P
  <2> HIDE DEF P
  <2> QED BY <1>2, FiniteInduction
<1> QED BY <1>1, <1>3

\* Sums of the same numbers are the same.
LEMMA SumsAgree ==
  ASSUME NEW S, NEW f, NEW sum, AreSums(sum, f, S),
         NEW R, NEW g, NEW tot, AreSums(tot, g, R),
         NEW T, IsFiniteSet(T), T \subseteq S, T \subseteq R, \A x \in T : f[x] = g[x]
  PROVE  sum[T] = tot[T]
<1> DEFINE P == {U \in SUBSET T : sum[U] = tot[U]}
<1>1. ASSUME NEW U \in SUBSET T, \A x \in U : U \ {x} \in P
      PROVE  U \in P
  <2>1. /\ sum[U] = IF U = {} THEN 0 ELSE f[First(U)] + sum[U \ {First(U)}]
        /\ tot[U] = IF U = {} THEN 0 ELSE g[First(U)] + tot[U \ {First(U)}]
    BY DEF AreSums
  <2>2. U # {} => First(U) \in U
    BY DEF First
  <2> QED BY <1>1, <2>1, <2>2
<1>2. \A U \in SUBSET T : U \in P
  <2> HIDE DEF P
  <2> QED BY <1>1, FiniteInduction
<1> QED BY <1>2
=============================================================================
