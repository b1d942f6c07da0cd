------------------------------ MODULE Recursion ------------------------------
(***************************************************************************)
(* What the proofs need to know of folds.  A fold takes a set apart one    *)
(* element at a time, the one that Pick gives: the last position of a      *)
(* sequence, or any element of a set.  That there is a function which does *)
(* it holds for every Step, but the provers cannot use a theorem about an  *)
(* operator that they are to fill in themselves.  So Step and Pick are     *)
(* constants here, and a module that folds puts its own in their place.    *)
(***************************************************************************)
EXTENDS Integers, FiniteSetTheorems, WellFoundedInduction, TLAPS

CONSTANTS Step(_, _, _), Pick(_)

Less == {p \in Nat \X Nat : p[1] < p[2]}

LEMMA LessIsWellFounded == IsWellFoundedOn(Less, Nat)
<1>1. OpToRel(<, Nat) = Less
  BY DEF OpToRel, Less
<1>2. IsWellFoundedOn(OpToRel(<, Nat), Nat)
  BY NatLessThanWellFounded
<1>3. QED  BY <1>1, <1>2

\* A set of natural numbers has a least one.
LEMMA Least ==
  ASSUME NEW S \in SUBSET Nat, S # {}
  PROVE  \E m \in S : \A k \in S : m <= k
<1>1. PICK m \in S : \A k \in S : ~(<<k, m>> \in Less)
  BY LessIsWellFounded, WFMin
<1>2. ASSUME NEW k \in S PROVE m <= k
  <2>1. k \in Nat /\ m \in Nat /\ ~(<<k, m>> \in Less)
    BY <1>1
  <2>2. <<k, m>> \in Less <=> k < m
    BY <2>1 DEF Less
  <2>3. QED  BY <2>1, <2>2
<1>3. QED  BY <1>1, <1>2

\* A set of natural numbers up to n has a greatest one.
LEMMA Greatest ==
  ASSUME NEW n \in Nat, NEW S \in SUBSET (0 .. n), S # {}
  PROVE  \E m \in S : \A k \in S : k <= m
<1> DEFINE Rest == {n - k : k \in S}
<1>1. PICK r \in Rest : \A k \in Rest : r <= k
  <2>1. \A k \in S : n - k \in Nat
    OBVIOUS
  <2>2. Rest \in SUBSET Nat /\ Rest # {}
    BY <2>1
  <2> HIDE DEF Rest
  <2>3. QED  BY <2>2, Least
<1>2. PICK m \in S : r = n - m
  BY <1>1
<1>3. ASSUME NEW k \in S PROVE k <= m
  <2>1. n - m <= n - k
    BY <1>1, <1>2
  <2>2. QED  BY <2>1
<1>4. QED  BY <1>3

\* Counting up from 0 one gets to every number up to n.
LEMMA CountUp ==
  ASSUME NEW n \in Nat, NEW G, 0 \in G, \A k \in 0 .. n - 1 : k \in G => k + 1 \in G
  PROVE  \A k \in 0 .. n : k \in G
<1> DEFINE Bad == {k \in 0 .. n : k \notin G}
<1>1. SUFFICES ASSUME Bad # {} PROVE FALSE
  OBVIOUS
<1>2. PICK m \in Bad : \A k \in Bad : m <= k
  <2>1. Bad \in SUBSET Nat
    OBVIOUS
  <2> HIDE DEF Bad
  <2>2. QED  BY <1>1, <2>1, Least
<1>3. m # 0 /\ m - 1 \in 0 .. n - 1 /\ (m - 1) + 1 = m
  BY <1>2
<1>4. m - 1 \notin Bad
  BY <1>2, <1>3
<1>5. QED  BY <1>2, <1>3, <1>4

\* The subsets of S have sizes: S is finite.
Sized(S) ==
  \E n \in Nat : \E size \in [SUBSET S -> 0 .. n] :
    \A s \in SUBSET S : \A x \in s : size[s \ {x}] < size[s]

LEMMA FiniteSetsAreSized ==
  ASSUME NEW S, IsFiniteSet(S)
  PROVE  Sized(S)
<1> DEFINE size == [s \in SUBSET S |-> Cardinality(s)]
<1>1. Cardinality(S) \in Nat
  BY FS_CardinalityType
<1>2. ASSUME NEW s \in SUBSET S
      PROVE  size[s] \in 0 .. Cardinality(S) /\ \A x \in s : size[s \ {x}] < size[s]
  <2>1. IsFiniteSet(s) /\ Cardinality(s) \in Nat /\ Cardinality(s) <= Cardinality(S)
    BY FS_Subset, FS_CardinalityType
  <2>2. \A x \in s : Cardinality(s \ {x}) = Cardinality(s) - 1
    BY <2>1, FS_RemoveElement
  <2>3. QED  BY <1>1, <2>1, <2>2
<1>3. size \in [SUBSET S -> 0 .. Cardinality(S)]
  BY <1>2
<1> HIDE DEF size
<1>4. QED  BY <1>1, <1>2, <1>3 DEF Sized

\* What holds of a set when it holds of the set without one of its elements
\* holds of every finite set.
LEMMA SetsUp ==
  ASSUME NEW S, Sized(S), NEW G, \A s \in SUBSET S : (\A x \in s : s \ {x} \in G) => s \in G
  PROVE  \A s \in SUBSET S : s \in G
<1>1. PICK n \in Nat : \E size \in [SUBSET S -> 0 .. n] :
                         \A s \in SUBSET S : \A x \in s : size[s \ {x}] < size[s]
  BY DEF Sized
<1>2. PICK size \in [SUBSET S -> 0 .. n] :
             \A s \in SUBSET S : \A x \in s : size[s \ {x}] < size[s]
  BY <1>1
<1> DEFINE Bad == {s \in SUBSET S : s \notin G}
           Sizes == {size[s] : s \in Bad}
<1>3. SUFFICES ASSUME Bad # {} PROVE FALSE
  OBVIOUS
<1>4. PICK m \in Sizes : \A k \in Sizes : m <= k
  <2>1. \A s \in Bad : size[s] \in Nat
    OBVIOUS
  <2>2. Sizes \in SUBSET Nat /\ Sizes # {}
    <3> HIDE DEF Bad
    <3>1. QED  BY <1>3, <2>1
  <2> HIDE DEF Sizes
  <2>3. QED  BY <2>2, Least
<1>5. PICK s \in Bad : m = size[s]
  BY <1>4
<1>6. ASSUME NEW x \in s PROVE s \ {x} \in G
  <2>1. s \ {x} \in SUBSET S /\ size[s \ {x}] < size[s] /\ size[s \ {x}] \in Nat /\ size[s] \in Nat
    BY <1>5, <1>2
  <2>2. s \ {x} \in Bad => m <= size[s \ {x}]
    BY <1>4
  <2>3. QED  BY <1>5, <2>1, <2>2
<1>7. QED  BY <1>5, <1>6

\* iter folds Step over each subset of S, from base on.
Iterates(iter, a, base, S) ==
  iter = [s \in SUBSET S |-> IF s = {} THEN base ELSE Step(a, Pick(s), iter[s \ {Pick(s)}])]

\* There is such a function when every set gets smaller by what Pick takes out
\* of it.
THEOREM IterationExists ==
  ASSUME NEW a, NEW base, NEW S, Sized(S), \A s \in SUBSET S : s # {} => Pick(s) \in s
  PROVE  \E iter : Iterates(iter, a, base, S)
<1>1. PICK n \in Nat : \E size \in [SUBSET S -> 0 .. n] :
                         \A s \in SUBSET S : \A x \in s : size[s \ {x}] < size[s]
  BY DEF Sized
<1>2. PICK size \in [SUBSET S -> 0 .. n] :
             \A s \in SUBSET S : \A x \in s : size[s \ {x}] < size[s]
  BY <1>1
<1>3. \A s \in SUBSET S : s # {} => size[s \ {Pick(s)}] < size[s]
  BY <1>2
<1> DEFINE D(k) == {s \in SUBSET S : size[s] <= k}
           Fold(g, d) == [s \in d |-> IF s = {} THEN base ELSE Step(a, Pick(s), g[s \ {Pick(s)}])]
           G == {k \in 0 .. n : \E g : g = Fold(g, D(k))}
<1>4. D(n) = SUBSET S
  OBVIOUS
<1>5. \A k \in Nat : \A s \in D(k + 1) : s # {} => s \ {Pick(s)} \in D(k)
  BY <1>3
<1>6. 0 \in G
  <2>1. ASSUME NEW s \in D(0), s # {} PROVE FALSE
    <3>1. s \ {Pick(s)} \in SUBSET S /\ s \in SUBSET S
      OBVIOUS
    <3>2. size[s \ {Pick(s)}] \in 0 .. n /\ size[s] \in 0 .. n /\ size[s] <= 0
      BY <3>1
    <3>3. QED  BY <1>3, <2>1, <3>1, <3>2
  <2> DEFINE g == [s \in D(0) |-> base]
  <2>2. g = Fold(g, D(0))
    <3> HIDE DEF D
    <3>1. QED  BY <2>1
  <2> HIDE DEF Fold, D, g
  <2>3. QED  BY <2>2
<1>7. ASSUME NEW k \in 0 .. n - 1, k \in G PROVE k + 1 \in G
  <2>1. PICK g : g = Fold(g, D(k))
    BY <1>7
  <2> DEFINE h == Fold(g, D(k + 1))
  <2>2. D(k) \subseteq D(k + 1)
    OBVIOUS
  <2>3. ASSUME NEW s \in D(k) PROVE h[s] = g[s]
    <3>1. s \in D(k + 1)
      BY <2>2
    <3>2. h[s] = IF s = {} THEN base ELSE Step(a, Pick(s), g[s \ {Pick(s)}])
      BY <3>1
    <3>3. g[s] = IF s = {} THEN base ELSE Step(a, Pick(s), g[s \ {Pick(s)}])
      BY <2>1
    <3>4. QED  BY <3>2, <3>3
  <2>4. \A s \in D(k + 1) : s # {} => h[s \ {Pick(s)}] = g[s \ {Pick(s)}]
    <3> HIDE DEF D, h
    <3>1. QED  BY <1>5, <2>3
  <2>5. h = Fold(h, D(k + 1))
    <3> HIDE DEF D
    <3>1. QED  BY <2>4
  <2>6. k + 1 \in 0 .. n
    OBVIOUS
  <2> HIDE DEF Fold, D, h
  <2>7. QED  BY <2>5, <2>6
<1>8. n \in G
  <2> HIDE DEF G
  <2>1. QED  BY <1>6, <1>7, CountUp
<1>9. PICK g : g = Fold(g, D(n))
  BY <1>8
<1>10. g = Fold(g, SUBSET S)
  BY <1>4, <1>9
<1>11. QED  BY <1>10 DEF Iterates

\* What holds at the start of an iteration and is kept by a step holds of it
\* throughout; G is the sets of elements after which it holds.
LEMMA IterationKeeps ==
  ASSUME NEW S, Sized(S), \A s \in SUBSET S : s # {} => Pick(s) \in s,
         NEW G, {} \in G,
         \A s \in SUBSET S : s # {} /\ s \ {Pick(s)} \in G => s \in G
  PROVE  \A s \in SUBSET S : s \in G
<1>1. ASSUME NEW s \in SUBSET S, \A x \in s : s \ {x} \in G PROVE s \in G
  BY <1>1
<1>2. QED  BY <1>1, SetsUp

\* A fold that takes the last position first goes through a list in order: run
\* holds what there is after each position.
LEMMA RunExists ==
  ASSUME NEW a, NEW base, NEW len \in Nat, \A k \in 1 .. len : Pick(1 .. k) = k,
         NEW iter, Iterates(iter, a, base, 1 .. len)
  PROVE  \E run : /\ run[0] = base /\ run[len] = iter[1 .. len]
                  /\ \A k \in 1 .. len : run[k] = Step(a, k, run[k - 1])
<1> DEFINE run == [k \in 0 .. len |-> iter[1 .. k]]
<1>1. run[0] = base
  <2>1. 1 .. 0 = {} /\ 0 \in 0 .. len
    OBVIOUS
  <2>2. QED  BY <2>1 DEF Iterates
<1>2. ASSUME NEW k \in 1 .. len PROVE run[k] = Step(a, k, run[k - 1])
  <2>1. 1 .. k \in SUBSET (1 .. len) /\ 1 .. k # {}
    OBVIOUS
  <2>2. (1 .. k) \ {k} = 1 .. k - 1
    OBVIOUS
  <2>3. iter[1 .. k] = Step(a, Pick(1 .. k), iter[(1 .. k) \ {Pick(1 .. k)}])
    BY <2>1 DEF Iterates
  <2>4. iter[1 .. k] = Step(a, k, iter[1 .. k - 1])
    BY <2>2, <2>3
  <2>5. run[k] = iter[1 .. k] /\ run[k - 1] = iter[1 .. k - 1]
    OBVIOUS
  <2> HIDE DEF run
  <2>6. QED  BY <2>4, <2>5
<1>3. run[len] = iter[1 .. len]
  OBVIOUS
<1> HIDE DEF run
<1>4. QED  BY <1>1, <1>2, <1>3
------------------------------------------------------------------------------
(* Sums over sets, as MapThenSumSet takes them.                            *)

Any(s) == CHOOSE x \in s : TRUE

\* f gives the sum of the values v over each subset of S.
IsSum(f, v, S) ==
  f = [s \in SUBSET S |-> IF s = {} THEN 0 ELSE v[Any(s)] + f[s \ {Any(s)}]]

\* It makes no difference which element is taken out of a sum.
TakesAny(f, v, S) ==
  \A s \in SUBSET S : f[s] \in Int /\ \A x \in s : f[s] = v[x] + f[s \ {x}]

LEMMA SumTakesAny ==
  ASSUME NEW S, Sized(S), NEW v \in [S -> Int], NEW f, IsSum(f, v, S)
  PROVE  TakesAny(f, v, S)
<1> DEFINE Taken(s) ==
             f[s] \in Int /\ \A x \in s : f[s \ {x}] \in Int /\ f[s] = v[x] + f[s \ {x}]
           G == {s \in SUBSET S : Taken(s)}
<1>1. ASSUME NEW s \in SUBSET S, \A x \in s : s \ {x} \in G PROVE s \in G
  <2>1. CASE s = {}
    BY <2>1 DEF IsSum
  <2>2. CASE s # {}
    <3> DEFINE y == Any(s)
    <3>1. y \in s
      BY <2>2 DEF Any
    <3>2. f[s] = v[y] + f[s \ {y}]
      BY <2>2 DEF IsSum
    <3>3. v[y] \in Int /\ f[s \ {y}] \in Int
      BY <1>1, <3>1
    <3>4. ASSUME NEW x \in s, x # y PROVE f[s] = v[x] + f[s \ {x}]
      <4> DEFINE rest == (s \ {x}) \ {y}
      <4>1. (s \ {y}) \ {x} = rest
        OBVIOUS
      <4>2. f[s \ {y}] = v[x] + f[rest]
        <5>1. f[s \ {y}] = v[x] + f[(s \ {y}) \ {x}]
          BY <1>1, <3>1, <3>4
        <5>2. QED  BY <4>1, <5>1
      <4>3. f[s \ {x}] = v[y] + f[rest]
        BY <1>1, <3>1, <3>4
      <4>4. v[x] \in Int
        OBVIOUS
      <4>5. f[rest] \in Int
        <5>1. s \ {x} \in G /\ y \in s \ {x}
          BY <1>1, <3>1, <3>4
        <5>2. f[(s \ {x}) \ {y}] \in Int
          BY <5>1
        <5>3. QED  BY <5>2
      <4> HIDE DEF rest, y
      <4>6. QED  BY <3>2, <3>3, <4>2, <4>3, <4>4, <4>5
    <3>5. \A x \in s : f[s \ {x}] \in Int
      BY <1>1
    <3>6. \A x \in s : f[s] = v[x] + f[s \ {x}]
      <4> HIDE DEF y
      <4>1. QED  BY <3>2, <3>4
    <3>7. f[s] \in Int
      <4> HIDE DEF y
      <4>1. QED  BY <3>2, <3>3
    <3>8. QED  BY <3>5, <3>6, <3>7
  <2>3. QED  BY <2>1, <2>2
<1>2. \A s \in SUBSET S : s \in G
  <2> HIDE DEF G
  <2>1. QED  BY <1>1, SetsUp
<1>3. QED  BY <1>2 DEF TakesAny

\* Two sums over the same set of the same values are the same.
LEMMA SumsAgree ==
  ASSUME NEW U, Sized(U),
         NEW S, U \subseteq S, NEW v, NEW f, IsSum(f, v, S),
         NEW T, U \subseteq T, NEW w, NEW g, IsSum(g, w, T),
         \A x \in U : v[x] = w[x]
  PROVE  f[U] = g[U]
<1> DEFINE G == {s \in SUBSET U : f[s] = g[s]}
<1>1. ASSUME NEW s \in SUBSET U, \A x \in s : s \ {x} \in G PROVE s \in G
  <2>0. s \in SUBSET S /\ s \in SUBSET T
    OBVIOUS
  <2>1. CASE s = {}
    BY <2>0, <2>1 DEF IsSum
  <2>2. CASE s # {}
    <3>1. Any(s) \in s
      BY <2>2 DEF Any
    <3>2. f[s] = v[Any(s)] + f[s \ {Any(s)}] /\ g[s] = w[Any(s)] + g[s \ {Any(s)}]
      BY <2>0, <2>2 DEF IsSum
    <3>3. QED  BY <1>1, <3>1, <3>2
  <2>3. QED  BY <2>1, <2>2
<1>2. \A s \in SUBSET U : s \in G
  <2> HIDE DEF G
  <2>1. QED  BY <1>1, SetsUp
<1>3. QED  BY <1>2
==============================================================================
