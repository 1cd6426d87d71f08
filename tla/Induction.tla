------------------------------ MODULE Induction -----------------------------
(***************************************************************************)
(* Induction and recursion over the natural numbers, stated of sets and    *)
(* functions instead of operators, and their products and quotients.       *)
(***************************************************************************)
EXTENDS Integers, FiniteSetsExt, FiniteSetTheorems, WellFoundedInduction, TLAPS

(* A set of natural numbers has a least one: the initial segments of the   *)
(* numbers are well-founded under inclusion.                               *)
LEMMA LeastNumber ==
    ASSUME NEW T \in SUBSET Nat, T # {}
    PROVE  \E m \in T : \A k \in T : m <= k
<1>1. PICK n \in T : TRUE
  OBVIOUS
<1> DEFINE S == 0..n
           U == {0..k : k \in T \cap S}
<1>2. IsWellFoundedOn(StrictSubsetOrdering(S), FiniteSubsetsOf(S))
  BY FS_StrictSubsetOrderingWellFounded
<1>3. n \in Nat /\ U # {}
  BY <1>1
<1>4. U \subseteq FiniteSubsetsOf(S)
  <2> SUFFICES ASSUME NEW k \in T \cap S
               PROVE  0..k \in FiniteSubsetsOf(S)
    OBVIOUS
  <2>1. IsFiniteSet(0..k)
    BY FS_Interval
  <2>2. 0..k \in SUBSET S
    BY <1>3
  <2> QED
    BY <2>1, <2>2 DEF FiniteSubsetsOf
<1> HIDE DEF U
<1>5. PICK x \in U : \A y \in U : <<y, x>> \notin StrictSubsetOrdering(S)
  BY <1>2, <1>3, <1>4, WFMin
<1>6. PICK m \in T \cap S : x = 0..m
  BY DEF U
<1>7. ASSUME NEW k \in T
      PROVE  m <= k
  <2> SUFFICES ASSUME k < m
               PROVE  FALSE
    BY <1>7
  <2>1. k \in T \cap S /\ 0..k \in U
    BY <1>3, <1>7 DEF U
  <2>2. 0..k \in SUBSET S /\ 0..m \in SUBSET S
    BY <2>1, <1>3
  <2>3. 0..k \subseteq 0..m /\ m \in 0..m /\ m \notin 0..k
    BY <1>7
  <2>4. <<0..k, 0..m>> \in StrictSubsetOrdering(S)
    BY <2>2, <2>3 DEF StrictSubsetOrdering
  <2> QED
    BY <1>5, <1>6, <2>1, <2>4
<1> QED
  BY <1>6, <1>7

(* A non-empty set of numbers up to n has a greatest one.                  *)
LEMMA MaxIsGreatest ==
    ASSUME NEW n \in Nat, NEW A \in SUBSET (1..n), A # {}
    PROVE  Max(A) \in A /\ \A j \in A : j <= Max(A)
<1> DEFINE T == {n - i : i \in A}
<1>1. T \in SUBSET Nat /\ T # {}
  <2>1. \A i \in A : n - i \in Nat
    OBVIOUS
  <2> QED
    BY <2>1
<1>2. PICK m \in T : \A k \in T : m <= k
  BY <1>1, LeastNumber
<1>3. PICK i \in A : m = n - i
  BY <1>2
<1>4. ASSUME NEW j \in A
      PROVE  i >= j
  <2>1. m <= n - j
    BY <1>2, <1>4
  <2> QED
    BY <1>3, <1>4, <2>1
<1> QED
  BY <1>3, <1>4 DEF Max

(* Induction: a set with 0 and every successor holds all numbers.          *)
LEMMA AllNumbers ==
    ASSUME NEW T, 0 \in T, \A n \in Nat : n \in T => n + 1 \in T
    PROVE  \A n \in Nat : n \in T
<1> DEFINE U == {n \in Nat : n \notin T}
<1> SUFFICES ASSUME U # {}
             PROVE  FALSE
  OBVIOUS
<1>1. PICK m \in U : \A k \in U : m <= k
  BY LeastNumber
<1>2. m \in Nat /\ m # 0 /\ m - 1 \in Nat
  BY <1>1
<1>3. m - 1 \notin U
  BY <1>1, <1>2
<1>4. m - 1 \in T
  BY <1>2, <1>3
<1>5. (m - 1) + 1 \in T
  BY <1>2, <1>4
<1> QED
  BY <1>1, <1>2, <1>5

(* The same up to a bound.                                                 *)
LEMMA NumbersUpTo ==
    ASSUME NEW N \in Nat, NEW T, 0 \in T, \A n \in 0..(N - 1) : n \in T => n + 1 \in T
    PROVE  \A n \in 0..N : n \in T
<1> DEFINE U == {n \in Nat : n <= N => n \in T}
<1>1. 0 \in U
  OBVIOUS
<1>2. \A n \in Nat : n \in U => n + 1 \in U
  OBVIOUS
<1>3. \A n \in Nat : n \in U
  <2> HIDE DEF U
  <2> QED
    BY <1>1, <1>2, AllNumbers
<1> QED
  BY <1>3

(* Recursion: a step that keeps within S can be taken N times.             *)
Recursive(g, S, b, N, D) ==
    g \in [0..N -> S] /\ g[0] = b /\ \A i \in 1..N : g[i] = D[i][g[i - 1]]

LEMMA RecursionExists ==
    ASSUME NEW S, NEW b \in S, NEW N \in Nat, NEW D \in [1..N -> [S -> S]]
    PROVE  \E g : Recursive(g, S, b, N, D)
<1> DEFINE Is(g, n) == g[0] = b /\ \A i \in 1..n : g[i] = D[i][g[i - 1]]
           T == {n \in Nat : \E g \in [0..n -> S] : Is(g, n)}
<1>1. 0 \in T
  <2> DEFINE g == [i \in 0..0 |-> b]
  <2>1. g \in [0..0 -> S] /\ Is(g, 0)
    OBVIOUS
  <2> QED
    BY <2>1
<1>2. ASSUME NEW n \in 0..(N - 1), n \in T
      PROVE  n + 1 \in T
  <2>1. PICK g \in [0..n -> S] : Is(g, n)
    BY <1>2
  <2> DEFINE h == [i \in 0..(n + 1) |-> IF i = n + 1 THEN D[n + 1][g[n]] ELSE g[i]]
  <2>2. g[n] \in S /\ n + 1 \in 1..N
    BY <1>2
  <2>3. D[n + 1][g[n]] \in S
    BY <2>2
  <2>a. n \in Nat /\ (n + 1) - 1 = n /\ n + 1 \in 0..(n + 1) /\ n \in 0..(n + 1) /\ 0 \in 0..(n + 1) /\ n # n + 1 /\ 0 # n + 1
    OBVIOUS
  <2>b. \A i \in 0..(n + 1) : i = n + 1 \/ i \in 0..n
    OBVIOUS
  <2>c. \A i \in 0..(n + 1) : h[i] \in S
    BY <2>1, <2>3, <2>b
  <2>4. h \in [0..(n + 1) -> S] /\ h[0] = b /\ h[n + 1] = D[n + 1][h[(n + 1) - 1]]
    BY <2>1, <2>a, <2>c
  <2>5. ASSUME NEW i \in 1..n
        PROVE  h[i] = D[i][h[i - 1]]
    BY <2>1
  <2>6. \A i \in 1..(n + 1) : i = n + 1 \/ i \in 1..n
    OBVIOUS
  <2>7. Is(h, n + 1)
    BY <2>4, <2>5, <2>6
  <2> HIDE DEF h, Is
  <2> QED
    BY <2>4, <2>7, <2>a
<1>3. N \in T
  <2> HIDE DEF T
  <2>1. \A n \in 0..N : n \in T
    BY <1>1, <1>2, NumbersUpTo
  <2> QED
    BY <2>1
<1> QED
  BY <1>3 DEF Recursive

(* Multiples of a number are that number apart.                            *)
LEMMA Products ==
    ASSUME NEW m \in Nat, NEW n \in Nat, NEW k \in Nat, m < n
    PROVE  m * k \in Nat /\ n * k \in Nat /\ (m + 1) * k = m * k + k /\ (m + 1) * k <= n * k
<1>1. PICK d \in Nat : n = m + 1 + d
  <2>1. n - m - 1 \in Nat /\ n = m + 1 + (n - m - 1)
    OBVIOUS
  <2> QED
    BY <2>1
<1>2. m * k \in Nat /\ d * k \in Nat /\ n * k \in Nat
  OBVIOUS
<1>3. n * k = m * k + k + d * k /\ (m + 1) * k = m * k + k
  BY <1>1
<1> HIDE <1>1
<1> DEFINE x == m * k
           y == d * k
           z == n * k
           u == (m + 1) * k
<1>4. x \in Nat /\ y \in Nat /\ z = x + k + y /\ u = x + k
  BY <1>2, <1>3
<1> HIDE DEF x, y, z, u
<1>5. u <= z
  BY <1>4
<1> QED
  BY <1>2, <1>3, <1>5 DEF u, z

(* A number and its quotient.                                              *)
LEMMA Quotient ==
    ASSUME NEW x \in Nat, NEW k \in Nat, k > 0
    PROVE  /\ x \div k \in Nat /\ (x \div k) * k <= x /\ x < (x \div k) * k + k
           /\ \A y \in Nat : x <= y => x \div k <= y \div k
<1>1. \A z \in Nat : z \div k \in Int /\ k * (z \div k) <= z /\ z < k * (z \div k) + k
  <2> TAKE z \in Nat
  <2>1. z \div k \in Int
    OBVIOUS
  <2>2. k * (z \div k) <= z
    OBVIOUS
  <2>3. z < k * (z \div k) + k
    OBVIOUS
  <2> QED
    BY <2>1, <2>2, <2>3
<1>2. \A z \in Nat : z \div k \in Nat
  <2> TAKE z \in Nat
  <2> DEFINE d == z \div k
  <2>1. d \in Int /\ z < k * d + k
    BY <1>1
  <2> HIDE DEF d
  <2>2. d >= 0
    <3> SUFFICES ASSUME d <= -1
                 PROVE  FALSE
      BY <2>1
    <3> DEFINE c == -d - 1
    <3>1. c \in Nat /\ d = -c - 1
      BY <2>1
    <3> HIDE DEF c
    <3>2. k * d = -(k * c) - k /\ k * c \in Nat
      BY <3>1
    <3> QED
      BY <2>1, <3>2
  <2> QED
    BY <2>1, <2>2 DEF d
<1>3. ASSUME NEW y \in Nat, x <= y
      PROVE  x \div k <= y \div k
  <2> DEFINE a == x \div k
             b == y \div k
  <2>1. a \in Nat /\ b \in Nat /\ k * a <= x /\ y < k * b + k
    BY <1>1, <1>2
  <2> HIDE DEF a, b
  <2>2. ~(b < a)
    <3> SUFFICES ASSUME b < a
                 PROVE  FALSE
      OBVIOUS
    <3>1. b * k \in Nat /\ a * k \in Nat /\ (b + 1) * k = b * k + k /\ (b + 1) * k <= a * k
      BY <2>1, Products
    <3>2. b * k = k * b /\ a * k = k * a
      BY <2>1
    <3> QED
      BY <1>3, <2>1, <3>1, <3>2
  <2> QED
    BY <2>1, <2>2 DEF a, b
<1>4. (x \div k) * k <= x /\ x < (x \div k) * k + k
  <2> DEFINE a == x \div k
  <2>1. a \in Nat /\ k * a <= x /\ x < k * a + k
    BY <1>1, <1>2
  <2> HIDE DEF a
  <2>2. a * k = k * a
    BY <2>1
  <2> QED
    BY <2>1, <2>2 DEF a
<1> QED
  BY <1>2, <1>3, <1>4
=============================================================================
