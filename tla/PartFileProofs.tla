---------------------------- MODULE PartFileProofs ---------------------------
(***************************************************************************)
(* The bytes of a download: the part file they are written to (PartFile),  *)
(* and a transfer that brings them (Blocks).                               *)
(***************************************************************************)
EXTENDS PartFile, Blocks, Induction, SequenceTheorems

-----------------------------------------------------------------------------
(* PartFile implements PartFileAbs, for any file and chunk size: whatever  *)
(* is written, punched, saved, lost and resumed, the gap list stands for   *)
(* the set of missing offsets, and is the canonical list of that set.      *)

Gap == (0 .. TotalSize) \X (0 .. TotalSize)

(* The offsets in a gap, and in the gaps of a set.                         *)
Inside(g) == g[1] .. g[2] - 1
CoveredBy(S) == UNION {Inside(g) : g \in S}

(* Of some ranges one comes before all others.                             *)
LEMMA EarliestRange ==
    ASSUME NEW S \in SUBSET (Nat \X Nat), S # {}
    PROVE  \E x \in S : \A y \in S : y = x \/ Earlier(x, y)
<1> DEFINE A == {x[1] : x \in S}
<1>1. A \in SUBSET Nat /\ A # {}
  OBVIOUS
<1>2. PICK a \in A : \A k \in A : a <= k
  <2> HIDE DEF A
  <2> QED
    BY <1>1, LeastNumber
<1> DEFINE B == {x[2] : x \in {y \in S : y[1] = a}}
<1>3. B \in SUBSET Nat /\ B # {}
  OBVIOUS
<1>4. PICK b \in B : \A k \in B : b <= k
  <2> HIDE DEF B
  <2> QED
    BY <1>3, LeastNumber
<1>5. PICK x \in S : x[1] = a /\ x[2] = b
  OBVIOUS
<1>6. ASSUME NEW y \in S
      PROVE  y = x \/ Earlier(x, y)
  <2>1. y[1] \in Nat /\ y[2] \in Nat /\ a \in Nat /\ b \in Nat /\ x = <<a, b>> /\ y = <<y[1], y[2]>>
    BY <1>1, <1>3, <1>5
  <2>2. a <= y[1] /\ (y[1] = a => b <= y[2])
    BY <1>2, <1>4
  <2> QED
    BY <1>5, <2>1, <2>2 DEF Earlier
<1> QED
  BY <1>6

(* sorted() names every range once, in order.                              *)
LEMMA SortedIs ==
    ASSUME NEW S \in SUBSET (Nat \X Nat), IsFiniteSet(S)
    PROVE  LET s == Sorted(S)
               n == Cardinality(S)
           IN  /\ n \in Nat /\ s \in [1 .. n -> S]
               /\ \A i, j \in 1 .. n : i < j => Earlier(s[i], s[j])
               /\ \A x \in S : \E i \in 1 .. n : s[i] = x
<1> DEFINE n == Cardinality(S)
           InOrder(e, k) == \A i, j \in 1 .. k : i < j => Earlier(e[i], e[j])
           First(e, k) == \A x \in S : (\E i \in 1 .. k : e[i] = x) \/ \A i \in 1 .. k : Earlier(e[i], x)
           K == {k \in Nat : \E e \in [1 .. k -> S] : InOrder(e, k) /\ First(e, k)}
<1>1. n \in Nat
  BY FS_CardinalityType
<1>2. 0 \in K
  <2> DEFINE e == [i \in 1 .. 0 |-> <<0, 0>>]
  <2>1. e \in [1 .. 0 -> S] /\ InOrder(e, 0) /\ First(e, 0)
    OBVIOUS
  <2> QED
    BY <2>1
<1>3. \A x, y \in S : ~(Earlier(x, y) /\ Earlier(y, x)) /\ ~Earlier(x, x)
  <2> TAKE x, y \in S
  <2>1. x[1] \in Nat /\ x[2] \in Nat /\ y[1] \in Nat /\ y[2] \in Nat
    OBVIOUS
  <2> QED
    BY <2>1 DEF Earlier
<1>4. ASSUME NEW k \in 0 .. (n - 1), k \in K
      PROVE  k + 1 \in K
  <2>0. k \in Nat /\ k < n
    BY <1>1
  <2>1. PICK e \in [1 .. k -> S] : InOrder(e, k) /\ First(e, k)
    BY <1>4
  <2> DEFINE rest == {x \in S : ~\E i \in 1 .. k : e[i] = x}
  <2>2. rest # {}
    <3> SUFFICES ASSUME rest = {}
                 PROVE  FALSE
      OBVIOUS
    <3>1. e \in Surjection(1 .. k, S)
      BY DEF Surjection
    <3>2. ExistsSurjection(1 .. k, S)
      BY <3>1 DEF ExistsSurjection
    <3>3. Cardinality(S) <= k
      BY <2>0, <3>2, FS_SurjCardinalityBound
    <3> QED
      BY <1>1, <2>0, <3>3
  <2>3. rest \in SUBSET (Nat \X Nat)
    OBVIOUS
  <2>4. PICK x \in rest : \A y \in rest : y = x \/ Earlier(x, y)
    <3> HIDE DEF rest
    <3> QED
      BY <2>2, <2>3, EarliestRange
  <2> DEFINE f == [i \in 1 .. k + 1 |-> IF i = k + 1 THEN x ELSE e[i]]
  <2>5. \A i \in 1 .. k + 1 : i = k + 1 \/ i \in 1 .. k
    BY <2>0
  <2>6. f \in [1 .. k + 1 -> S] /\ f[k + 1] = x /\ \A i \in 1 .. k : f[i] = e[i]
    <3>1. \A i \in 1 .. k : i # k + 1 /\ i \in 1 .. k + 1
      BY <2>0
    <3>2. k + 1 \in 1 .. k + 1
      BY <2>0
    <3> QED
      BY <2>5, <3>1, <3>2
  <2>7. \A i \in 1 .. k : Earlier(e[i], x)
    BY <2>1
  <2> HIDE DEF f
  <2>8. InOrder(f, k + 1)
    <3> SUFFICES ASSUME NEW i \in 1 .. k + 1, NEW j \in 1 .. k + 1, i < j
                 PROVE  Earlier(f[i], f[j])
      OBVIOUS
    <3>1. i \in 1 .. k
      BY <2>0
    <3>2. CASE j = k + 1
      BY <2>6, <2>7, <3>1, <3>2
    <3>3. CASE j \in 1 .. k
      BY <2>1, <2>6, <3>1, <3>3
    <3> QED
      BY <2>5, <3>2, <3>3
  <2>9. First(f, k + 1)
    <3> SUFFICES ASSUME NEW y \in S, ~\E i \in 1 .. k + 1 : f[i] = y
                 PROVE  \A i \in 1 .. k + 1 : Earlier(f[i], y)
      OBVIOUS
    <3>1. y # x /\ \A i \in 1 .. k : e[i] # y
      <4>1. k + 1 \in 1 .. k + 1 /\ \A i \in 1 .. k : i \in 1 .. k + 1
        BY <2>0
      <4> QED
        BY <2>6, <4>1
    <3>2. Earlier(x, y)
      BY <2>4, <3>1
    <3>3. \A i \in 1 .. k : Earlier(e[i], y)
      BY <2>1, <3>1
    <3> QED
      BY <2>5, <2>6, <3>2, <3>3
  <2>10. k + 1 \in Nat
    BY <2>0
  <2> QED
    BY <2>6, <2>8, <2>9, <2>10
<1>5. n \in K
  <2> HIDE DEF K, n
  <2>1. \A k \in 0 .. n : k \in K
    BY <1>1, <1>2, <1>4, NumbersUpTo
  <2> QED
    BY <1>1, <2>1
<1> DEFINE s == Sorted(S)
<1>6. s \in [1 .. n -> S] /\ \A i, j \in 1 .. n : i < j => Earlier(s[i], s[j])
  BY <1>5 DEF Sorted
<1> HIDE DEF s, n
<1>7. s \in Injection(1 .. n, S)
  <2> SUFFICES ASSUME NEW i \in 1 .. n, NEW j \in 1 .. n, s[i] = s[j], i # j
               PROVE  FALSE
    BY <1>6 DEF Injection, IsInjective
  <2>1. Earlier(s[i], s[j]) \/ Earlier(s[j], s[i])
    BY <1>1, <1>6
  <2>2. s[i] \in S /\ s[j] \in S
    BY <1>6
  <2> QED
    BY <1>3, <2>1, <2>2
<1>8. IsFiniteSet(1 .. n) /\ Cardinality(1 .. n) = n
  BY <1>1, FS_Interval
<1>9. s \in Surjection(1 .. n, S)
  BY <1>7, <1>8, FS_Injection DEF n
<1>10. \A x \in S : \E i \in 1 .. n : s[i] = x
  BY <1>9 DEF Surjection
<1> QED
  BY <1>1, <1>6, <1>10 DEF s, n

-----------------------------------------------------------------------------
(* A list of gaps in order, none empty and no two touching.                *)
Canonical(gs) ==
    /\ gs \in Seq(Gap)
    /\ \A i \in 1 .. Len(gs) : gs[i][1] < gs[i][2]
    /\ \A i \in 1 .. Len(gs) - 1 : gs[i][2] < gs[i + 1][1]

(* One step of merging: the list stays canonical and covers the gap too.   *)
Merged(m, g, r) ==
    /\ Canonical(r) /\ r # << >> /\ Last(r)[1] <= g[1]
    /\ Covered(r) = Covered(m) \cup Inside(g)

LEMMA MergeStep ==
    ASSUME PartFileAssumption, NEW m, Canonical(m), NEW g \in Gap, g[1] < g[2],
           m # << >> => Last(m)[1] <= g[1]
    PROVE  Merged(m, g, MergeInto(m, g))
<1> DEFINE n == Len(m)
           r == MergeInto(m, g)
<1>1. /\ m \in Seq(Gap) /\ n \in Nat /\ DOMAIN m = 1 .. n
      /\ \A i \in 1 .. n : m[i] \in Gap /\ m[i][1] < m[i][2]
      /\ \A i \in 1 .. n - 1 : m[i][2] < m[i + 1][1]
  BY DEF Canonical
<1>0. n \in Nat
  BY <1>1
<1>2. \A h \in Gap : h[1] \in Nat /\ h[2] \in Nat /\ h[1] <= TotalSize /\ h[2] <= TotalSize
  BY DEF Gap, PartFileAssumption
<1>3. Covered(m) = UNION {Inside(m[i]) : i \in 1 .. n}
  BY <1>1 DEF Covered, Inside
<1>4. CASE m # << >> /\ g[1] <= Last(m)[2]
  <2>1. n > 0
    BY <1>1, <1>4
  <2> DEFINE l == m[n]
             e == IF g[2] > l[2] THEN g[2] ELSE l[2]
             h == <<l[1], e>>
  <2>2. /\ n \in 1 .. n /\ l \in Gap /\ l[1] < l[2] /\ l[1] <= g[1] /\ g[1] <= l[2]
        /\ l[1] \in Nat /\ l[2] \in Nat /\ g[1] \in Nat /\ g[2] \in Nat
        /\ l[1] <= TotalSize /\ l[2] <= TotalSize /\ g[2] <= TotalSize
    BY <1>1, <1>2, <1>4, <2>1 DEF Last
  <2>3. r = [m EXCEPT ![n] = h]
    BY <1>1, <1>4, <2>1 DEF MergeInto, Last
  <2> HIDE DEF r, l
  <2>4. h \in Gap /\ h[1] = l[1] /\ h[2] = e /\ h[1] < h[2]
    BY <2>2 DEF Gap, PartFileAssumption
  <2>5. Inside(h) = Inside(l) \cup Inside(g)
    <3>1. e \in Nat /\ l[2] <= e /\ g[2] <= e /\ (e = l[2] \/ e = g[2])
      BY <2>2
    <3>2. l[1] \in Nat /\ l[2] \in Nat /\ g[1] \in Nat /\ l[1] <= g[1] /\ g[1] <= l[2]
          /\ g[2] \in Nat
      BY <2>2
    <3>3. h[1] = l[1] /\ h[2] = e
      BY <2>4
    <3> HIDE DEF e, h
    <3>4. Inside(h) = l[1] .. e - 1 /\ Inside(l) = l[1] .. l[2] - 1
          /\ Inside(g) = g[1] .. g[2] - 1
      BY <3>3 DEF Inside
    <3>5. l[1] .. e - 1 \subseteq (l[1] .. l[2] - 1) \cup (g[1] .. g[2] - 1)
      BY <3>1, <3>2
    <3>6. (l[1] .. l[2] - 1) \subseteq l[1] .. e - 1
      BY <3>1, <3>2
    <3>7. (g[1] .. g[2] - 1) \subseteq l[1] .. e - 1
      BY <3>1, <3>2
    <3> QED
      BY <3>4, <3>5, <3>6, <3>7
  <2> HIDE DEF h
  <2>6. /\ r \in Seq(Gap) /\ Len(r) = n /\ DOMAIN r = 1 .. n /\ r[n] = h
        /\ \A i \in 1 .. n : i # n => r[i] = m[i]
    <3>1. r \in [1 .. n -> Gap] /\ r[n] = h /\ \A i \in 1 .. n : i # n => r[i] = m[i]
      BY <1>1, <2>2, <2>3, <2>4
    <3> HIDE DEF n
    <3>2. r \in Seq(Gap) /\ Len(r) = n
      BY <1>0, <3>1
    <3> QED
      BY <3>1, <3>2
  <2>7. \A i \in 1 .. n : r[i][1] < r[i][2] /\ r[i][1] = m[i][1]
    BY <1>1, <2>4, <2>6 DEF l
  <2>8. \A i \in 1 .. n - 1 : r[i][2] < r[i + 1][1]
    <3> TAKE i \in 1 .. n - 1
    <3>1. i \in 1 .. n /\ i # n /\ i + 1 \in 1 .. n
      <4> HIDE DEF n
      <4>1. i \in Nat /\ 1 <= i /\ i <= n - 1
        OBVIOUS
      <4> QED
        BY <1>0, <4>1
    <3> QED
      BY <1>1, <2>6, <2>7, <3>1
  <2>9. Canonical(r)
    BY <2>6, <2>7, <2>8 DEF Canonical
  <2>10. r # << >> /\ Last(r)[1] <= g[1]
    <3> HIDE DEF n
    <3>1. Len(r) # 0
      BY <1>0, <2>1, <2>6
    <3>2. r # << >>
      BY <3>1
    <3>3. Last(r) = h
      BY <2>6 DEF Last
    <3> QED
      BY <2>2, <2>4, <3>2, <3>3
  <2>11. Covered(r) = Covered(m) \cup Inside(g)
    <3>1. Covered(r) = UNION {Inside(r[i]) : i \in 1 .. n}
      BY <2>6 DEF Covered, Inside
    <3>2. Inside(r[n]) = Inside(m[n]) \cup Inside(g)
      BY <2>5, <2>6 DEF l
    <3>3. \A i \in 1 .. n : i # n => Inside(r[i]) = Inside(m[i])
      BY <2>6
    <3>4. n \in 1 .. n
      BY <2>2
    <3> HIDE DEF n
    <3>5. \A i \in 1 .. n : Inside(r[i]) \subseteq Inside(m[i]) \cup Inside(g)
      BY <3>2, <3>3
    <3>6. Covered(r) \subseteq Covered(m) \cup Inside(g)
      BY <1>3, <3>1, <3>5
    <3>7. \A i \in 1 .. n : Inside(m[i]) \subseteq Inside(r[i])
      BY <3>2, <3>3
    <3>8. Covered(m) \subseteq Covered(r)
      BY <1>3, <3>1, <3>7
    <3>9. Inside(g) \subseteq Covered(r)
      BY <3>1, <3>2, <3>4
    <3> QED
      BY <3>6, <3>8, <3>9
  <2> QED
    BY <2>9, <2>10, <2>11 DEF Merged, r
<1>5. CASE ~(m # << >> /\ g[1] <= Last(m)[2])
  <2>1. r = Append(m, g)
    BY <1>5 DEF MergeInto
  <2> HIDE DEF r
  <2>2. /\ r \in Seq(Gap) /\ Len(r) = n + 1 /\ r[n + 1] = g
        /\ \A i \in 1 .. n : r[i] = m[i]
    BY <1>1, <2>1, AppendProperties
  <2>3. \A i \in 1 .. n + 1 : i = n + 1 \/ i \in 1 .. n
    BY <1>1
  <2>4. \A i \in 1 .. n + 1 : r[i][1] < r[i][2]
    BY <1>1, <2>2, <2>3
  <2>5. \A i \in 1 .. (n + 1) - 1 : r[i][2] < r[i + 1][1]
    <3> TAKE i \in 1 .. (n + 1) - 1
    <3>1. i \in 1 .. n
      BY <1>1
    <3>2. CASE i = n
      <4>1. m # << >> /\ Last(m) = m[n] /\ m[n] \in Gap
        BY <1>1, <3>1, <3>2 DEF Last
      <4>2. ~(g[1] <= m[n][2])
        BY <1>5, <4>1
      <4>3. m[n][2] < g[1]
        BY <1>2, <4>1, <4>2
      <4> QED
        BY <2>2, <3>1, <3>2, <4>3
    <3>3. CASE i # n
      <4>1. i \in 1 .. n - 1 /\ i + 1 \in 1 .. n
        <5> HIDE DEF n
        <5> QED
          BY <1>0, <3>1, <3>3
      <4> QED
        BY <1>1, <2>2, <3>1, <4>1
    <3> QED
      BY <3>2, <3>3
  <2>6. Canonical(r)
    BY <2>2, <2>4, <2>5 DEF Canonical
  <2>7. r # << >> /\ Last(r) = g
    <3>1. Len(r) # 0
      BY <1>1, <2>2
    <3> QED
      BY <2>2, <3>1 DEF Last
  <2>8. Covered(r) = Covered(m) \cup Inside(g)
    <3>1. Covered(r) = UNION {Inside(r[i]) : i \in 1 .. n + 1}
      <4>1. DOMAIN r = 1 .. n + 1
        BY <2>2
      <4> QED
        BY <4>1 DEF Covered, Inside
    <3>2. n + 1 \in 1 .. n + 1 /\ \A i \in 1 .. n : i \in 1 .. n + 1
      BY <1>1
    <3> QED
      BY <1>3, <2>2, <2>3, <3>1, <3>2
  <2>9. g[1] <= g[1]
    BY <1>2
  <2> QED
    BY <2>6, <2>7, <2>8, <2>9 DEF Merged, r
<1> QED
  BY <1>4, <1>5

(* What _normalize_gaps sorts: the gaps, clipped, without the empty ones.  *)
Clipped(S) ==
    {g \in {<<ClampTo(h[1]), ClampTo(h[2])>> : h \in S} : g[1] < g[2]}

LEMMA ClippedAre ==
    ASSUME PartFileAssumption, NEW S \in SUBSET (Int \X Int)
    PROVE  /\ Clipped(S) \in SUBSET Gap /\ Clipped(S) \in SUBSET (Nat \X Nat) /\ IsFiniteSet(Clipped(S))
           /\ CoveredBy(Clipped(S)) = CoveredBy(S) \cap Offsets
<1>1. TotalSize \in Nat
  BY DEF PartFileAssumption
<1>2. \A x \in Int : ClampTo(x) \in 0 .. TotalSize /\ ClampTo(x) \in Nat
  BY <1>1 DEF ClampTo
<1>3. ASSUME NEW h \in S
      PROVE  /\ h[1] \in Int /\ h[2] \in Int
             /\ Inside(<<ClampTo(h[1]), ClampTo(h[2])>>) = Inside(h) \cap Offsets
             /\ ~(ClampTo(h[1]) < ClampTo(h[2])) => Inside(h) \cap Offsets = {}
  <2>1. h[1] \in Int /\ h[2] \in Int
    OBVIOUS
  <2> QED
    BY <1>1, <2>1 DEF ClampTo, Inside, Offsets
<1>4. Clipped(S) \in SUBSET Gap /\ Clipped(S) \in SUBSET (Nat \X Nat)
  <2> SUFFICES ASSUME NEW g \in Clipped(S)
               PROVE  g \in Gap /\ g \in Nat \X Nat
    OBVIOUS
  <2>1. PICK h \in S : g = <<ClampTo(h[1]), ClampTo(h[2])>>
    BY DEF Clipped
  <2>2. ClampTo(h[1]) \in 0 .. TotalSize /\ ClampTo(h[2]) \in 0 .. TotalSize
        /\ ClampTo(h[1]) \in Nat /\ ClampTo(h[2]) \in Nat
    BY <1>2, <1>3
  <2> QED
    BY <2>1, <2>2 DEF Gap
<1>5. IsFiniteSet(Clipped(S))
  <2>1. IsFiniteSet(0 .. TotalSize)
    BY <1>1, FS_Interval
  <2>2. IsFiniteSet(Gap)
    BY <2>1, FS_Product DEF Gap
  <2> QED
    BY <1>4, <2>2, FS_Subset
<1>6. ASSUME NEW o \in CoveredBy(Clipped(S))
      PROVE  o \in CoveredBy(S) \cap Offsets
  <2>1. PICK g \in Clipped(S) : o \in Inside(g)
    BY DEF CoveredBy
  <2>2. PICK h \in S : g = <<ClampTo(h[1]), ClampTo(h[2])>>
    BY DEF Clipped
  <2>3. o \in Inside(h) \cap Offsets
    BY <1>3, <2>1, <2>2
  <2> QED
    BY <2>3 DEF CoveredBy
<1>7. ASSUME NEW o \in CoveredBy(S), o \in Offsets
      PROVE  o \in CoveredBy(Clipped(S))
  <2>1. PICK h \in S : o \in Inside(h)
    BY DEF CoveredBy
  <2> DEFINE g == <<ClampTo(h[1]), ClampTo(h[2])>>
  <2>2. g \in Clipped(S)
    BY <1>3, <1>7, <2>1 DEF Clipped
  <2>3. o \in Inside(g)
    BY <1>3, <1>7, <2>1
  <2> QED
    BY <2>2, <2>3 DEF CoveredBy
<1> QED
  BY <1>4, <1>5, <1>6, <1>7

(* Merging makes lists of gaps from lists of gaps.                         *)
LEMMA MergeTyped ==
    ASSUME PartFileAssumption, NEW m \in Seq(Gap), NEW g \in Gap
    PROVE  MergeInto(m, g) \in Seq(Gap)
<1>1. CASE m # << >> /\ g[1] <= Last(m)[2]
  <2> DEFINE n == Len(m)
             h == <<m[n][1], IF g[2] > m[n][2] THEN g[2] ELSE m[n][2]>>
  <2>1. n \in 1 .. n /\ m[n] \in Gap
    BY <1>1
  <2>2. h \in Gap
    BY <2>1 DEF Gap
  <2>3. MergeInto(m, g) = [m EXCEPT ![n] = h]
    BY <1>1, <2>1 DEF MergeInto
  <2> HIDE DEF h
  <2> QED
    BY <2>1, <2>2, <2>3
<1>2. CASE ~(m # << >> /\ g[1] <= Last(m)[2])
  <2>1. MergeInto(m, g) = Append(m, g)
    BY <1>2 DEF MergeInto
  <2> QED
    BY <2>1
<1> QED
  BY <1>1, <1>2

(* _normalize_gaps makes the canonical list of what the gaps cover.        *)
LEMMA NormalizeIs ==
    ASSUME PartFileAssumption, NEW S \in SUBSET (Int \X Int)
    PROVE  Canonical(NormalizeGaps(S)) /\ Covered(NormalizeGaps(S)) = CoveredBy(S) \cap Offsets
<1> DEFINE C == Clipped(S)
           list == Sorted(C)
           N == Len(list)
           b == << >>
           merged == CHOOSE f : f = [k \in 0 .. N |-> IF k = 0 THEN b ELSE MergeInto(f[k - 1], list[k])]
           L == Seq(Gap)
           D == [k \in 1 .. N |-> [m \in L |-> MergeInto(m, list[k])]]
<1>1. /\ C \in SUBSET Gap /\ C \in SUBSET (Nat \X Nat) /\ IsFiniteSet(C)
      /\ CoveredBy(C) = CoveredBy(S) \cap Offsets
  BY ClippedAre
<1>2. /\ N \in Nat /\ list \in [1 .. N -> C]
      /\ \A i, j \in 1 .. N : i < j => Earlier(list[i], list[j])
      /\ \A x \in C : \E i \in 1 .. N : list[i] = x
  <2> DEFINE n == Cardinality(C)
  <2> HIDE DEF C
  <2>1. /\ n \in Nat /\ list \in [1 .. n -> C]
        /\ \A i, j \in 1 .. n : i < j => Earlier(list[i], list[j])
        /\ \A x \in C : \E i \in 1 .. n : list[i] = x
    BY <1>1, SortedIs
  <2> HIDE DEF list, n
  <2>2. Len(list) = n
    BY <2>1
  <2> QED
    BY <2>1, <2>2
<1>3. NormalizeGaps(S) = merged[N]
  BY DEF NormalizeGaps, Clipped
<1> HIDE DEF C, list
<1>4. \A k \in 1 .. N : list[k] \in C /\ list[k] \in Gap /\ list[k][1] < list[k][2]
  BY <1>1, <1>2 DEF C, Clipped
<1>5. b \in L
  OBVIOUS
<1>6. D \in [1 .. N -> [L -> L]]
  <2> SUFFICES ASSUME NEW k \in 1 .. N, NEW m \in L
               PROVE  MergeInto(m, list[k]) \in L
    OBVIOUS
  <2> QED
    BY <1>4, MergeTyped
<1> HIDE DEF N, L, b
<1>7. PICK g : Recursive(g, L, b, N, D)
  <2> HIDE DEF D
  <2> QED
    BY <1>2, <1>5, <1>6, RecursionExists
<1>8. g \in [0 .. N -> L] /\ g[0] = b /\ \A k \in 1 .. N : g[k] = D[k][g[k - 1]]
  BY <1>7 DEF Recursive
<1>9. ASSUME NEW k \in 1 .. N
      PROVE  k - 1 \in 0 .. N /\ g[k] = MergeInto(g[k - 1], list[k])
  <2>1. k - 1 \in 0 .. N
    BY <1>2
  <2>2. g[k - 1] \in L /\ g[k] = D[k][g[k - 1]]
    BY <1>8, <2>1
  <2>3. \A m \in L : D[k][m] = MergeInto(m, list[k])
    OBVIOUS
  <2> HIDE DEF D
  <2> QED
    BY <2>1, <2>2, <2>3
<1>10. g = [k \in 0 .. N |-> IF k = 0 THEN b ELSE MergeInto(g[k - 1], list[k])]
  <2> HIDE DEF D
  <2>1. \A k \in 0 .. N : k = 0 \/ k \in 1 .. N
    BY <1>2
  <2> QED
    BY <1>8, <1>9, <2>1
<1>11. merged = [k \in 0 .. N |-> IF k = 0 THEN b ELSE MergeInto(merged[k - 1], list[k])]
  BY <1>10
<1> HIDE DEF merged
<1>12. merged[0] = b /\ \A k \in 1 .. N : merged[k] = MergeInto(merged[k - 1], list[k])
  <2>1. 0 \in 0 .. N /\ \A k \in 1 .. N : k \in 0 .. N /\ k # 0
    BY <1>2
  <2> QED
    BY <1>11, <2>1
<1> DEFINE Done(k) == UNION {Inside(list[i]) : i \in 1 .. k}
           Good(k) == /\ Canonical(merged[k]) /\ Covered(merged[k]) = Done(k)
                      /\ merged[k] # << >> => k # 0 /\ Last(merged[k])[1] <= list[k][1]
           T == {k \in 0 .. N : Good(k)}
<1>13. 0 \in T
  <2>1. Canonical(<< >>) /\ Covered(<< >>) = {}
    BY DEF Canonical, Covered
  <2>2. Done(0) = {}
    OBVIOUS
  <2> QED
    BY <1>2, <1>12, <2>1, <2>2 DEF b
<1>14. ASSUME NEW k \in 0 .. (N - 1), k \in T
       PROVE  k + 1 \in T
  <2>1. k + 1 \in 1 .. N /\ k + 1 \in 0 .. N /\ (k + 1) - 1 = k /\ k \in Nat /\ k + 1 # 0
    BY <1>2
  <2> DEFINE m == merged[k]
             h == list[k + 1]
             r == merged[k + 1]
  <2>2. r = MergeInto(m, h)
    BY <1>12, <2>1
  <2>3. h \in Gap /\ h[1] < h[2]
    BY <1>4, <2>1
  <2>4. m # << >> => Last(m)[1] <= h[1]
    <3> SUFFICES ASSUME m # << >>
                 PROVE  Last(m)[1] <= h[1]
      OBVIOUS
    <3>1. k # 0 /\ Last(m)[1] <= list[k][1]
      BY <1>14
    <3>2. k \in 1 .. N /\ k < k + 1
      BY <1>2, <1>14, <2>1, <3>1
    <3>3. Earlier(list[k], h)
      BY <1>2, <2>1, <3>2
    <3>4. list[k][1] \in Nat /\ h[1] \in Nat
      BY <1>1, <1>4, <2>1, <3>2
    <3>5. list[k][1] <= h[1]
      BY <3>3, <3>4 DEF Earlier
    <3>6. Last(m)[1] \in Nat
      <4> HIDE DEF m
      <4>1. m \in Seq(Gap) /\ m # << >>
        BY <1>14 DEF Canonical, m
      <4>2. Last(m) \in Gap
        BY <4>1 DEF Last
      <4> QED
        BY <4>2 DEF Gap
    <3> QED
      BY <3>1, <3>4, <3>5, <3>6
  <2>5. Canonical(m) /\ Covered(m) = Done(k)
    BY <1>14
  <2>6. Merged(m, h, r)
    <3> HIDE DEF m, h, r
    <3> QED
      BY <2>2, <2>3, <2>4, <2>5, MergeStep
  <2>7. Done(k + 1) = Done(k) \cup Inside(h)
    <3>1. 1 .. k + 1 = (1 .. k) \cup {k + 1}
      BY <2>1
    <3> QED
      BY <3>1
  <2>8. Covered(r) = Done(k + 1)
    <3> HIDE DEF Done
    <3> QED
      BY <2>5, <2>6, <2>7 DEF Merged
  <2> QED
    BY <2>1, <2>6, <2>8 DEF Merged
<1>15. N \in T
  <2> HIDE DEF T
  <2>1. \A k \in 0 .. N : k \in T
    BY <1>2, <1>13, <1>14, NumbersUpTo
  <2> QED
    BY <1>2, <2>1
<1>16. Done(N) = CoveredBy(C)
  <2>1. \A i \in 1 .. N : Inside(list[i]) \subseteq CoveredBy(C)
    BY <1>4 DEF CoveredBy
  <2>2. ASSUME NEW x \in C
        PROVE  Inside(x) \subseteq Done(N)
    <3>1. PICK i \in 1 .. N : list[i] = x
      BY <1>2
    <3> QED
      BY <3>1
  <2> QED
    BY <2>1, <2>2 DEF CoveredBy
<1> HIDE DEF Done
<1> QED
  BY <1>1, <1>3, <1>15, <1>16

-----------------------------------------------------------------------------
(* A canonical list is in the shape that the methods expect.               *)
LEMMA CanonicalShape ==
    ASSUME PartFileAssumption, NEW gs, Canonical(gs)
    PROVE  /\ DOMAIN gs = 1 .. Len(gs) /\ Len(gs) \in Nat
           /\ \A i \in DOMAIN gs : gs[i] \in Gap /\ gs[i][1] \in Nat /\ gs[i][2] \in Nat /\ gs[i][1] < gs[i][2]
           /\ Covered(gs) \subseteq Offsets /\ Covered(gs) = CoveredBy(ToSet(gs))
           /\ ToSet(gs) \in SUBSET (Int \X Int)
<1>1. gs \in Seq(Gap) /\ DOMAIN gs = 1 .. Len(gs) /\ Len(gs) \in Nat
  BY DEF Canonical
<1>2. \A h \in Gap : h[1] \in Nat /\ h[2] \in Nat /\ h[1] <= TotalSize /\ h[2] <= TotalSize /\ h \in Int \X Int
  BY DEF Gap, PartFileAssumption
<1>3. \A i \in DOMAIN gs : gs[i] \in Gap /\ gs[i][1] \in Nat /\ gs[i][2] \in Nat /\ gs[i][1] < gs[i][2]
  BY <1>1, <1>2 DEF Canonical
<1>4. \A h \in Gap : Inside(h) \subseteq Offsets
  <2> TAKE h \in Gap
  <2>1. h[1] \in Nat /\ h[2] \in Nat /\ h[2] <= TotalSize /\ TotalSize \in Nat
    BY <1>2 DEF PartFileAssumption
  <2> QED
    BY <2>1 DEF Inside, Offsets
<1>5. ToSet(gs) = {gs[i] : i \in DOMAIN gs}
  BY <1>1 DEF ToSet
<1>6. Covered(gs) = CoveredBy(ToSet(gs))
  BY <1>5 DEF Covered, CoveredBy, Inside
<1>7. ToSet(gs) \in SUBSET (Int \X Int) /\ CoveredBy(ToSet(gs)) \subseteq Offsets
  BY <1>2, <1>3, <1>4, <1>5 DEF CoveredBy
<1> QED
  BY <1>1, <1>3, <1>6, <1>7

(* A written range is taken out of the gaps.                               *)
LEMMA FillIs ==
    ASSUME PartFileAssumption, NEW gs, Canonical(gs), NEW from \in Int, NEW to \in Int, from <= to
    PROVE  /\ Canonical(ApplyGapFill(gs, from, to))
           /\ Covered(ApplyGapFill(gs, from, to)) = Covered(gs) \ (from .. to - 1)
<1> DEFINE S == UNION {CutGap(gs[i], from, to) : i \in DOMAIN gs}
<1>1. \A i \in DOMAIN gs : gs[i] \in Gap /\ gs[i][1] \in Nat /\ gs[i][2] \in Nat /\ gs[i][1] < gs[i][2]
  BY CanonicalShape
<1>2. ASSUME NEW i \in DOMAIN gs
      PROVE  /\ CutGap(gs[i], from, to) \in SUBSET (Int \X Int)
             /\ CoveredBy(CutGap(gs[i], from, to)) = Inside(gs[i]) \ (from .. to - 1)
  <2> DEFINE g == gs[i]
             a == g[1]
             c == g[2]
  <2>1. a \in Int /\ c \in Int /\ a < c /\ g \in Int \X Int
    BY <1>1 DEF Gap, PartFileAssumption
  <2>2. CASE to <= a \/ from >= c
    <3>1. CutGap(g, from, to) = {g}
      BY <2>2 DEF CutGap
    <3>2. Inside(g) \cap (from .. to - 1) = {}
      BY <2>1, <2>2 DEF Inside
    <3> QED
      BY <2>1, <3>1, <3>2 DEF CoveredBy
  <2>3. CASE ~(to <= a \/ from >= c)
    <3> DEFINE h1 == <<a, from>>
               h2 == <<to, c>>
    <3>1. CutGap(g, from, to) = {h \in {h1, h2} : h[1] < h[2]}
      BY <2>3 DEF CutGap
    <3>2. h1 \in Int \X Int /\ h2 \in Int \X Int
      BY <2>1
    <3>3. Inside(g) \ (from .. to - 1) = Inside(h1) \cup Inside(h2)
      BY <2>1, <2>3 DEF Inside
    <3>4. \A h \in {h1, h2} : ~(h[1] < h[2]) => Inside(h) = {}
      BY <2>1 DEF Inside
    <3> HIDE DEF h1, h2
    <3>5. CoveredBy({h \in {h1, h2} : h[1] < h[2]}) = Inside(h1) \cup Inside(h2)
      BY <3>4 DEF CoveredBy
    <3> QED
      BY <3>1, <3>2, <3>3, <3>5
  <2> QED
    BY <2>2, <2>3
<1>3. S \in SUBSET (Int \X Int)
  BY <1>2
<1>4. CoveredBy(S) = Covered(gs) \ (from .. to - 1)
  <2>1. Covered(gs) = UNION {Inside(gs[i]) : i \in DOMAIN gs}
    BY DEF Covered, Inside
  <2>2. ASSUME NEW o \in CoveredBy(S)
        PROVE  o \in Covered(gs) \ (from .. to - 1)
    <3>1. PICK h \in S : o \in Inside(h)
      BY DEF CoveredBy
    <3>2. PICK i \in DOMAIN gs : h \in CutGap(gs[i], from, to)
      BY <3>1
    <3>3. o \in CoveredBy(CutGap(gs[i], from, to))
      BY <3>1, <3>2 DEF CoveredBy
    <3> QED
      BY <1>2, <2>1, <3>2, <3>3
  <2>3. ASSUME NEW o \in Covered(gs), o \notin from .. to - 1
        PROVE  o \in CoveredBy(S)
    <3>1. PICK i \in DOMAIN gs : o \in Inside(gs[i])
      BY <2>1
    <3>2. o \in CoveredBy(CutGap(gs[i], from, to))
      BY <1>2, <2>3, <3>1
    <3> QED
      BY <3>2 DEF CoveredBy
  <2> QED
    BY <2>2, <2>3
<1>5. Covered(gs) \subseteq Offsets
  BY CanonicalShape
<1>6. ApplyGapFill(gs, from, to) = NormalizeGaps(S)
  BY DEF ApplyGapFill
<1> HIDE DEF S
<1>7. Canonical(NormalizeGaps(S)) /\ Covered(NormalizeGaps(S)) = CoveredBy(S) \cap Offsets
  BY <1>3, NormalizeIs
<1> QED
  BY <1>4, <1>5, <1>6, <1>7

(* A punched range, as far as it is in the file, is a gap again.           *)
LEMMA PunchIs ==
    ASSUME PartFileAssumption, NEW gs, Canonical(gs), NEW from \in Int, NEW to \in Int
    PROVE  LET s == IF from < 0 THEN 0 ELSE from
               e == IF to > TotalSize THEN TotalSize ELSE to
           IN  /\ Canonical(Punched(gs, from, to))
               /\ e <= s => Punched(gs, from, to) = gs
               /\ e > s => s \in Offsets /\ e \in s + 1 .. TotalSize
               /\ e > s => Covered(Punched(gs, from, to)) = Covered(gs) \cup (s .. e - 1)
<1> DEFINE s == IF from < 0 THEN 0 ELSE from
           e == IF to > TotalSize THEN TotalSize ELSE to
           g == <<s, e>>
           S == ToSet(gs) \cup {g}
<1>1. TotalSize \in Nat /\ s \in Int /\ e \in Int /\ 0 <= s /\ e <= TotalSize
  BY DEF PartFileAssumption
<1>2. Punched(gs, from, to) = IF e <= s THEN gs ELSE NormalizeGaps(S)
  BY DEF Punched
<1> HIDE DEF s, e
<1>3. CASE e <= s
  BY <1>1, <1>2, <1>3 DEF s, e
<1>4. CASE ~(e <= s)
  <2>1. s \in Offsets /\ e \in s + 1 .. TotalSize /\ Inside(g) = s .. e - 1 /\ Inside(g) \subseteq Offsets
    BY <1>1, <1>4 DEF Inside, Offsets
  <2>2. Covered(gs) \subseteq Offsets /\ Covered(gs) = CoveredBy(ToSet(gs)) /\ ToSet(gs) \in SUBSET (Int \X Int)
    BY CanonicalShape
  <2>3. S \in SUBSET (Int \X Int)
    BY <1>1, <2>2
  <2>4. CoveredBy(S) = Covered(gs) \cup Inside(g)
    <3> HIDE DEF g
    <3> QED
      BY <2>2 DEF CoveredBy
  <2> HIDE DEF S, g
  <2>5. Canonical(NormalizeGaps(S)) /\ Covered(NormalizeGaps(S)) = CoveredBy(S) \cap Offsets
    BY <2>3, NormalizeIs
  <2>6. Punched(gs, from, to) = NormalizeGaps(S)
    BY <1>2, <1>4
  <2>7. Covered(Punched(gs, from, to)) = Covered(gs) \cup (s .. e - 1)
    BY <2>1, <2>2, <2>4, <2>5, <2>6
  <2> QED
    BY <1>4, <2>1, <2>5, <2>6, <2>7 DEF s, e
<1> QED
  BY <1>3, <1>4

-----------------------------------------------------------------------------
(* The list in memory and the one in the sidecar are both canonical.       *)
PartInv ==
    /\ Canonical(gaps) /\ Canonical(sidecar)
    /\ disk \subseteq Offsets
    /\ size \in 0 .. TotalSize
    /\ handle \in BOOLEAN

(* The gap list of a new file is canonical and misses every offset.        *)
LEMMA NewFile ==
    ASSUME PartFileAssumption
    PROVE  Canonical(WholeFile) /\ Covered(WholeFile) = Offsets
<1>1. TotalSize \in Nat \ {0}
  BY DEF PartFileAssumption
<1>2. WholeFile \in Seq(Gap) /\ Len(WholeFile) = 1 /\ DOMAIN WholeFile = {1} /\ WholeFile[1] = <<0, TotalSize>>
  BY <1>1 DEF WholeFile, Gap
<1>3. Covered(WholeFile) = WholeFile[1][1] .. WholeFile[1][2] - 1
  BY <1>2 DEF Covered
<1> QED
  BY <1>1, <1>2, <1>3 DEF Canonical, Offsets

(* Reading a canonical list back changes neither its shape nor what it     *)
(* stands for.                                                             *)
LEMMA ReadBack ==
    ASSUME PartFileAssumption, NEW gs, Canonical(gs)
    PROVE  /\ Canonical(NormalizeGaps(ToSet(gs)))
           /\ Covered(NormalizeGaps(ToSet(gs))) = Covered(gs)
<1> DEFINE S == ToSet(gs)
<1>1. Covered(gs) \subseteq Offsets /\ Covered(gs) = CoveredBy(S) /\ S \in SUBSET (Int \X Int)
  BY CanonicalShape
<1> HIDE DEF S
<1>2. Canonical(NormalizeGaps(S)) /\ Covered(NormalizeGaps(S)) = CoveredBy(S) \cap Offsets
  BY <1>1, NormalizeIs
<1> QED
  BY <1>1, <1>2 DEF S

LEMMA PartInvInit ==
    ASSUME PartFileAssumption, PartInit
    PROVE  PartInv
<1>1. TotalSize \in Nat
  BY DEF PartFileAssumption
<1> QED
  BY <1>1, NewFile DEF PartInit, PartInv

LEMMA PartInvStep ==
    ASSUME PartFileAssumption, PartInv, [PartNext]_fileVars
    PROVE  PartInv'
<1>0. TotalSize \in Nat
  BY DEF PartFileAssumption
<1> USE DEF PartInv
<1>1. ASSUME NEW sparse \in BOOLEAN, OpenNew(sparse)
      PROVE  PartInv'
  BY <1>0, <1>1, NewFile DEF OpenNew
<1>2. CASE ResumePart
  BY <1>2, ReadBack DEF ResumePart
<1>3. ASSUME NEW from \in Offsets, NEW len \in 1 .. TotalSize, WriteBlock(from, len)
      PROVE  PartInv'
  <2> DEFINE to == from + len
  <2>1. from \in Int /\ to \in Int /\ from <= to /\ 0 <= to /\ to <= TotalSize /\ 0 <= from
    BY <1>0, <1>3 DEF Offsets, WriteBlock
  <2>2. (from .. to - 1) \subseteq Offsets
    BY <1>0, <2>1 DEF Offsets
  <2>3. size' \in 0 .. TotalSize
    BY <1>0, <1>3, <2>1 DEF WriteBlock
  <2>4. disk' \subseteq Offsets
    <3>0. from + (len - 1) = to - 1
      BY <1>0 DEF Offsets
    <3>1. disk' = disk \cup (from .. to - 1)
      <4>1. disk' = disk \cup (from .. from + (len - 1))
        BY <1>3, Zenon DEF WriteBlock
      <4> QED
        BY <3>0, <4>1, Zenon
    <3> HIDE DEF to
    <3> QED
      BY <2>2, <3>1
  <2>5. gaps' = ApplyGapFill(gaps, from, to) /\ sidecar' = sidecar /\ handle' = handle
    BY <1>3 DEF WriteBlock
  <2> HIDE DEF to
  <2>6. Canonical(ApplyGapFill(gaps, from, to))
    BY <2>1, FillIs
  <2> QED
    BY <2>3, <2>4, <2>5, <2>6
<1>4. ASSUME NEW from \in -1 .. TotalSize, NEW to \in 0 .. TotalSize + 1, Punch(from, to)
      PROVE  PartInv'
  <2>1. from \in Int /\ to \in Int
    BY <1>0
  <2>2. Canonical(Punched(gaps, from, to))
    BY <2>1, PunchIs
  <2> QED
    BY <1>4, <2>2 DEF Punch
<1>5. CASE Save
  BY <1>5 DEF Save
<1>6. CASE Close
  BY <1>6 DEF Close
<1>7. CASE UNCHANGED fileVars
  BY <1>7 DEF fileVars
<1> QED
  BY <1>1, <1>2, <1>3, <1>4, <1>5, <1>6, <1>7 DEF PartNext

THEOREM PartInvHolds ==
    ASSUME PartFileAssumption
    PROVE  PartSpec => []PartInv
<1>1. PartInit => PartInv
  BY PartInvInit
<1>2. PartInv /\ [PartNext]_fileVars => PartInv'
  BY PartInvStep
<1> QED
  BY <1>1, <1>2, PTL DEF PartSpec

(* write_block, punch and resume keep every gap inside the file.           *)
THEOREM PartTypeCorrect ==
    ASSUME PartFileAssumption
    PROVE  PartSpec => []PartTypeOK
<1>1. PartInv => PartTypeOK
  BY CanonicalShape DEF PartInv, PartTypeOK, IsGapList, Gap
<1> QED
  BY <1>1, PartInvHolds, PTL

(* _normalize_gaps leaves an ordered list without overlapping, touching or *)
(* empty gaps after any sequence of writes, punches and resumes.           *)
THEOREM GapsCanonical ==
    ASSUME PartFileAssumption
    PROVE  PartSpec => []CanonicalGaps
<1>1. PartInv => CanonicalGaps
  BY DEF PartInv, Canonical, CanonicalGaps
<1> QED
  BY <1>1, PartInvHolds, PTL

-----------------------------------------------------------------------------
LEMMA AbsInit ==
    ASSUME PartFileAssumption, PartInit
    PROVE  Abs!Init
BY NewFile DEF PartInit, Abs!Init, Abs!Offsets, Offsets

LEMMA AbsStep ==
    ASSUME PartFileAssumption, PartInv, [PartNext]_fileVars
    PROVE  [Abs!Next]_(Abs!vars)
<1>0. TotalSize \in Nat /\ Abs!Offsets = Offsets
  BY DEF PartFileAssumption, Abs!Offsets, Offsets
<1> USE DEF PartInv
<1>1. ASSUME NEW sparse \in BOOLEAN, OpenNew(sparse)
      PROVE  Abs!Recreate
  BY <1>0, <1>1, NewFile DEF OpenNew, Abs!Recreate
<1>2. CASE ResumePart
  <2>1. Covered(gaps') = Covered(sidecar) /\ sidecar' = sidecar /\ handle' /\ ~handle /\ disk' = disk
    BY <1>2, ReadBack DEF ResumePart
  <2> QED
    BY <2>1 DEF Abs!vars
<1>3. ASSUME NEW from \in Offsets, NEW len \in 1 .. TotalSize, WriteBlock(from, len)
      PROVE  Abs!Next
  <2> DEFINE to == from + len
  <2>1. from \in Int /\ to \in Int /\ from <= to /\ to \in from + 1 .. TotalSize
    BY <1>0, <1>3 DEF Offsets, WriteBlock
  <2>2. /\ disk' = disk \cup (from .. to - 1) /\ gaps' = ApplyGapFill(gaps, from, to)
        /\ sidecar' = sidecar /\ handle /\ handle'
    <3>0. from + (len - 1) = to - 1
      BY <1>0 DEF Offsets
    <3>1. disk' = disk \cup (from .. to - 1)
      <4>1. disk' = disk \cup (from .. from + (len - 1))
        BY <1>3, Zenon DEF WriteBlock
      <4> QED
        BY <3>0, <4>1, Zenon
    <3>2. gaps' = ApplyGapFill(gaps, from, to)
      BY <1>3 DEF WriteBlock
    <3>3. sidecar' = sidecar /\ handle /\ handle'
      BY <1>3 DEF WriteBlock
    <3> QED
      BY <3>1, <3>2, <3>3
  <2> HIDE DEF to
  <2>3. Covered(ApplyGapFill(gaps, from, to)) = Covered(gaps) \ (from .. to - 1)
    BY <2>1, FillIs
  <2>4. Abs!Fill(from, to)
    BY <2>2, <2>3 DEF Abs!Fill
  <2> QED
    BY <1>0, <2>1, <2>4 DEF Abs!Next
<1>4. ASSUME NEW from \in -1 .. TotalSize, NEW to \in 0 .. TotalSize + 1, Punch(from, to)
      PROVE  [Abs!Next]_(Abs!vars)
  <2> DEFINE s == IF from < 0 THEN 0 ELSE from
             e == IF to > TotalSize THEN TotalSize ELSE to
  <2>1. from \in Int /\ to \in Int /\ s \in Int /\ e \in Int
    BY <1>0
  <2>2. /\ gaps' = Punched(gaps, from, to) /\ disk' = disk /\ sidecar' = sidecar
        /\ handle /\ handle'
    BY <1>4 DEF Punch
  <2>3. /\ e <= s => Punched(gaps, from, to) = gaps
        /\ e > s => s \in Offsets /\ e \in s + 1 .. TotalSize
        /\ e > s => Covered(Punched(gaps, from, to)) = Covered(gaps) \cup (s .. e - 1)
    BY <2>1, PunchIs
  <2> HIDE DEF s, e
  <2>4. CASE e <= s
    BY <2>2, <2>3, <2>4 DEF Abs!vars
  <2>5. CASE e > s
    <3>1. Abs!Reopen(s, e)
      BY <2>2, <2>3, <2>5 DEF Abs!Reopen
    <3> QED
      BY <1>0, <2>3, <2>5, <3>1 DEF Abs!Next
  <2> QED
    BY <2>1, <2>4, <2>5
<1>5. CASE Save
  BY <1>5 DEF Save, Abs!Checkpoint, Abs!Next
<1>6. CASE Close
  BY <1>6 DEF Close, Abs!Restart, Abs!Next
<1>7. CASE UNCHANGED fileVars
  BY <1>7 DEF fileVars, Abs!vars
<1> QED
  BY <1>1, <1>2, <1>3, <1>4, <1>5, <1>6, <1>7 DEF PartNext, Abs!Next

(* write_block, punch, save, close, resume and open_new do, to the set of  *)
(* missing offsets, what the abstract part file allows.                    *)
THEOREM ImplementsPartFile ==
    ASSUME PartFileAssumption
    PROVE  PartSpec => AbsSpec
<1>1. PartInit => Abs!Init
  BY AbsInit
<1>2. PartInv /\ [PartNext]_fileVars => [Abs!Next]_(Abs!vars)
  BY AbsStep
<1> QED
  BY <1>1, <1>2, PartInvHolds, PTL DEF PartSpec, AbsSpec, Abs!Spec

-----------------------------------------------------------------------------
(* The abstract part file never counts an offset as downloaded, now or     *)
(* after a restart, whose bytes are not in the data file; so neither does  *)
(* the program, whatever the order of writes, saves, closes and resumes.   *)
THEOREM NothingPhantom ==
    ASSUME PartFileAssumption
    PROVE  PartSpec => []Abs!NoPhantomBytes
<1>1. Abs!Init => Abs!NoPhantomBytes
  BY DEF Abs!Init, Abs!NoPhantomBytes
<1>2. ASSUME Abs!NoPhantomBytes, [Abs!Next]_(Abs!vars)
      PROVE  Abs!NoPhantomBytes'
  <2> USE DEF Abs!NoPhantomBytes
  <2>1. ASSUME NEW from, NEW to, Abs!Fill(from, to) \/ Abs!Reopen(from, to)
        PROVE  Abs!NoPhantomBytes'
    BY <1>2, <2>1 DEF Abs!Fill, Abs!Reopen
  <2>2. CASE Abs!Checkpoint
    BY <1>2, <2>2 DEF Abs!Checkpoint
  <2>3. CASE Abs!Restart
    BY <1>2, <2>3 DEF Abs!Restart
  <2>4. CASE Abs!Recreate
    BY <1>2, <2>4 DEF Abs!Recreate
  <2>5. CASE UNCHANGED Abs!vars
    BY <1>2, <2>5 DEF Abs!vars
  <2> QED
    BY <1>2, <2>1, <2>2, <2>3, <2>4, <2>5 DEF Abs!Next
<1> QED
  BY <1>1, <1>2, ImplementsPartFile, PTL DEF AbsSpec, Abs!Spec

-----------------------------------------------------------------------------
(* Blocks, for any sizes of blocks, pieces and offset fields, and any      *)
(* file: every byte is written at its place, and with a selector or with   *)
(* AmuleD's engine once, whatever is split, compressed or cut off.         *)
(*                                                                         *)
(* The argument: an answer to a request is about the bytes the request     *)
(* asks for (RequestAnswered), in pieces that are in order and end to end; *)
(* so what has not been served, what is on the wire, what is held of a     *)
(* compressed block and what has been written stay apart (Separate), what  *)
(* is held is the beginning of a block that the next piece continues       *)
(* (Running), and a round waits for as many bytes as are on their way      *)
(* (Balanced).                                                             *)

(* The pieces of n bytes lie end to end, from the first byte to the last.  *)
LEMMA PiecesMeet ==
    ASSUME BlocksAssumption, NEW n \in Nat \ {0}
    PROVE  /\ PieceCount(n) \in Nat \ {0}
           /\ PieceStart(1) = 0 /\ PieceEnd(n, PieceCount(n)) = n
           /\ \A i \in 1..PieceCount(n) :
                 PieceStart(i) \in Nat /\ PieceEnd(n, i) \in Nat /\ PieceStart(i) < PieceEnd(n, i) /\ PieceEnd(n, i) <= n
           /\ \A i \in 1..(PieceCount(n) - 1) : PieceEnd(n, i) = PieceStart(i + 1)
           /\ \A i, j \in 1..PieceCount(n) : i < j => PieceEnd(n, i) <= PieceStart(j)
           /\ \A x \in 0..(n - 1) : \E i \in 1..PieceCount(n) : PieceStart(i) <= x /\ x < PieceEnd(n, i)
<1> DEFINE C == SPLIT_CHUNK_SIZE
           T == SPLIT_THRESHOLD
           c == PieceCount(n)
<1>1. C \in Nat \ {0} /\ T \in Nat /\ C <= T
  BY DEF BlocksAssumption
<1>2. c \in Nat \ {0} /\ (c - 1) \in Nat /\ (c - 1) * C \in Nat /\ (c - 1) * C < n
  <2>1. CASE n <= T
    BY <1>1, <2>1 DEF PieceCount
  <2>2. CASE n > T
    <3> DEFINE a == n - T - 1
               q == a \div C
    <3>1. a \in Nat /\ c = 2 + q
      BY <1>1, <2>2 DEF PieceCount
    <3>2. q \in Nat /\ q * C <= a
      BY <1>1, <3>1, Quotient
    <3>3. (q + 1) * C = q * C + C /\ q * C \in Nat
      BY <1>1, <3>2
    <3>4. c - 1 = q + 1
      BY <3>1, <3>2
    <3>5. q * C + C < n
      <4> DEFINE y == q * C
      <4>1. y \in Nat /\ y <= a
        BY <3>2, <3>3
      <4> HIDE DEF y
      <4>2. y + C < n
        BY <4>1, <1>1, <2>2
      <4> QED
        BY <4>2 DEF y
    <3>6. (c - 1) * C = q * C + C /\ q * C + C \in Nat
      BY <1>1, <3>3, <3>4
    <3>7. c \in Nat \ {0} /\ c - 1 \in Nat
      BY <3>1, <3>2
    <3> QED
      BY <3>5, <3>6, <3>7
  <2> QED
    BY <1>1, <2>1, <2>2
<1> HIDE DEF c
<1>3. ASSUME NEW i \in 1..c, NEW j \in 1..c, i < j
      PROVE  i * C \in Nat /\ i * C <= (j - 1) * C /\ (j - 1) * C \in Nat
  <2>1. i \in Nat /\ j \in Nat /\ j - 1 \in Nat /\ i <= j - 1
    BY <1>2, <1>3
  <2>2. CASE i = j - 1
    BY <1>1, <2>1, <2>2
  <2>3. CASE i < j - 1
    <3>1. i * C \in Nat /\ (j - 1) * C \in Nat /\ (i + 1) * C = i * C + C /\ (i + 1) * C <= (j - 1) * C
      BY <1>1, <2>1, <2>3, Products
    <3> DEFINE x == i * C
               y == (j - 1) * C
               z == (i + 1) * C
    <3>2. x \in Nat /\ y \in Nat /\ z = x + C /\ z <= y
      BY <3>1
    <3> HIDE DEF x, y, z
    <3>3. x <= y
      BY <3>2, <1>1
    <3> QED
      BY <3>1, <3>3 DEF x, y
  <2> QED
    BY <2>1, <2>2, <2>3
<1>4. ASSUME NEW i \in 1..c
      PROVE  /\ PieceStart(i) \in Nat /\ PieceStart(i) = (i - 1) * C
             /\ PieceEnd(n, i) = IF i = c THEN n ELSE i * C
             /\ PieceEnd(n, i) \in Nat /\ PieceStart(i) < PieceEnd(n, i) /\ PieceEnd(n, i) <= n
  <2>1. PieceStart(i) = (i - 1) * C /\ PieceEnd(n, i) = IF i = c THEN n ELSE i * C
    BY DEF PieceStart, PieceEnd, c
  <2>2. i \in Nat /\ i - 1 \in Nat /\ c \in Nat /\ c \in 1..c
    BY <1>2
  <2>3. CASE i = c
    BY <1>2, <2>1, <2>3
  <2>4. CASE i # c
    <3>1. i < c
      BY <2>2, <2>4
    <3>2. i * C \in Nat /\ i * C <= (c - 1) * C
      BY <1>3, <2>2, <3>1
    <3>3. (i - 1) * C \in Nat /\ i * C = (i - 1) * C + C
      <4>1. (i - 1) * C \in Nat /\ ((i - 1) + 1) * C = (i - 1) * C + C
        BY <2>2, <1>1, Products
      <4>2. (i - 1) + 1 = i
        BY <2>2
      <4> QED
        BY <4>1, <4>2
    <3> DEFINE x == i * C
               y == (i - 1) * C
               z == (c - 1) * C
    <3>4. x \in Nat /\ y \in Nat /\ z \in Nat /\ x = y + C /\ x <= z /\ z < n
      BY <3>2, <3>3, <1>2
    <3>5. PieceStart(i) = y /\ PieceEnd(n, i) = x
      BY <2>1, <2>4
    <3> HIDE DEF x, y, z
    <3>6. y < x /\ x <= n
      BY <3>4, <1>1
    <3> QED
      BY <2>1, <3>4, <3>5, <3>6
  <2> QED
    BY <2>3, <2>4
<1>5. 1 \in 1..c /\ c \in 1..c /\ PieceStart(1) = 0 /\ PieceEnd(n, c) = n
  <2>1. 1 \in 1..c /\ c \in 1..c
    BY <1>2
  <2>2. (1 - 1) * C = 0
    BY <1>1
  <2> QED
    BY <1>4, <2>1, <2>2
<1>6. ASSUME NEW i \in 1..(c - 1)
      PROVE  PieceEnd(n, i) = PieceStart(i + 1)
  <2>1. i \in 1..c /\ i + 1 \in 1..c /\ i # c /\ (i + 1) - 1 = i
    BY <1>2
  <2> QED
    BY <1>4, <2>1
<1>7. ASSUME NEW i \in 1..c, NEW j \in 1..c, i < j
      PROVE  PieceEnd(n, i) <= PieceStart(j)
  <2>1. i # c
    BY <1>2, <1>7
  <2> QED
    BY <1>3, <1>4, <1>7, <2>1
<1>8. ASSUME NEW x \in 0..(n - 1)
      PROVE  \E i \in 1..c : PieceStart(i) <= x /\ x < PieceEnd(n, i)
  <2>1. CASE (c - 1) * C <= x
    BY <1>4, <1>5, <2>1
  <2>2. CASE x < (c - 1) * C
    <3> DEFINE q == x \div C
    <3>1. q \in Nat /\ q * C <= x /\ x < q * C + C
      BY <1>1, Quotient
    <3>2. q < c - 1
      <4> SUFFICES ASSUME c - 1 <= q
                   PROVE  FALSE
        BY <1>2, <3>1
      <4>1. (c - 1) * C <= q * C
        <5>1. CASE c - 1 = q
          BY <5>1, <1>1, <1>2, <3>1
        <5>2. CASE c - 1 < q
          <6>1. (c - 1) * C \in Nat /\ q * C \in Nat /\ ((c - 1) + 1) * C = (c - 1) * C + C /\ ((c - 1) + 1) * C <= q * C
            BY <1>1, <1>2, <3>1, <5>2, Products
          <6> HIDE DEF q
          <6> QED
            BY <6>1, <1>1
        <5> QED
          BY <5>1, <5>2, <1>2, <3>1
      <4>2. q * C \in Nat
        BY <1>1, <3>1
      <4> QED
        BY <4>1, <4>2, <3>1, <2>2, <1>2
    <3>3. q + 1 \in 1..c /\ q + 1 # c /\ (q + 1) - 1 = q
      BY <1>2, <3>1, <3>2
    <3>4. PieceStart(q + 1) = q * C /\ PieceEnd(n, q + 1) = (q + 1) * C
      BY <1>4, <3>3
    <3>5. (q + 1) * C = q * C + C
      BY <1>1, <3>1
    <3> QED
      BY <3>1, <3>3, <3>4, <3>5
  <2> QED
    BY <1>2, <2>1, <2>2
<1> QED
  BY <1>2, <1>4, <1>5, <1>6, <1>7, <1>8 DEF c

-----------------------------------------------------------------------------
(* The sub-packets of a transfer, and the piece of a block each one is.    *)
Marks == {"outofparts", "rank", "end"}
SubPackets ==
    [op : {"part"}, start : Nat, end : Nat, data : Seq(Int)]
    \cup [op : {"packed"}, start : Nat, end : Nat, data : Seq(Nat \X Nat \X Nat)]
    \cup [op : Marks]

Stop(p) == p.data[1][2]
From(p) == p.data[1][3] - 1
To(p) == From(p) + Len(p.data)
Block(p) == [s |-> p.start, e |-> Stop(p)]

Plain(p) == p.op = "part" /\ p.start < p.end /\ p.data = BytesOf(p.start, p.end)
Packed(p) ==
    /\ p.op = "packed" /\ p.start < Stop(p) /\ p.data # <<>>
    /\ From(p) \in Nat /\ To(p) <= p.end /\ p.data = Compressed(Block(p), From(p), To(p))
Sound(p) == p.op \in Marks \/ Plain(p) \/ Packed(p)

(* The bytes of the file a packet is about.                                *)
Span(r) == r.s..(r.e - 1)
Region(p) ==
    IF p.op = "part" THEN p.start..(p.end - 1)
    ELSE IF p.op = "packed" THEN p.start..(Stop(p) - 1)
    ELSE {}
Cover(q) == {o \in Nat : \E i \in DOMAIN q : o \in Region(q[i])}

(* Packets are about bytes of their own, or are pieces of one block in     *)
(* their order; a later piece comes after the one it continues.            *)
SameBlock(p, q) == p.op = "packed" /\ q.op = "packed" /\ Key(p) = Key(q) /\ Stop(p) = Stop(q)
After(q, p) == Region(p) \cap Region(q) = {} \/ (SameBlock(p, q) /\ To(p) <= From(q))
Ordered(q) == \A i, j \in DOMAIN q : i < j => After(q[j], q[i])
Begins(p) == p.op = "packed" => From(p) = 0
Led(q, i) == \E j \in DOMAIN q : j < i /\ SameBlock(q[j], q[i]) /\ To(q[j]) = From(q[i])
Orderly(q) == (\A i \in DOMAIN q : Sound(q[i])) /\ Ordered(q) /\ \A i \in DOMAIN q : Begins(q[i]) \/ Led(q, i)

(* Every block is sent to its end.                                         *)
Followed(q, i) == \E j \in DOMAIN q : i < j /\ SameBlock(q[i], q[j])
Complete(q) == \A i \in DOMAIN q : q[i].op = "packed" => (To(q[i]) = q[i].end \/ Followed(q, i))

(* A stretch of a compressed block has the bytes it is made of.            *)
LEMMA StretchIs ==
    ASSUME NEW r, r.s \in Nat, r.e \in Nat, NEW from \in Nat, NEW to \in Nat, from < to
    PROVE  /\ Compressed(r, from, to) \in Seq(Nat \X Nat \X Nat)
           /\ Len(Compressed(r, from, to)) = to - from
           /\ Compressed(r, from, to)[1] = <<r.s, r.e, from + 1>>
           /\ \A i \in 1..(to - from) : Compressed(r, from, to)[i] = <<r.s, r.e, from + i>>
<1>1. to - from \in Nat \ {0} /\ 1 \in 1..(to - from)
  OBVIOUS
<1>2. \A i \in 1..(to - from) : <<r.s, r.e, from + i>> \in Nat \X Nat \X Nat
  OBVIOUS
<1>3. Compressed(r, from, to) \in [1..(to - from) -> Nat \X Nat \X Nat]
  BY <1>2 DEF Compressed
<1> QED
  BY <1>1, <1>3 DEF Compressed

(* The bytes of a stretch of the file.                                     *)
LEMMA BytesAre ==
    ASSUME NEW a \in Nat, NEW b \in Nat, a < b
    PROVE  /\ BytesOf(a, b) \in Seq(Int) /\ Len(BytesOf(a, b)) = b - a /\ DOMAIN BytesOf(a, b) = 1..(b - a)
           /\ \A i \in 1..(b - a) : BytesOf(a, b)[i] = a + i - 1
<1>1. b - a \in Nat
  OBVIOUS
<1>2. BytesOf(a, b) \in [1..(b - a) -> Int]
  BY DEF BytesOf
<1> QED
  BY <1>1, <1>2 DEF BytesOf

(* A field is wide enough for what the family it is in was chosen for.     *)
LEMMA FieldHolds ==
    ASSUME BlocksAssumption, NEW v \in Nat, NEW w \in Nat, v <= w
    PROVE  Field(IF w > U32 THEN 64 ELSE 32, v) = v
<1>1. U32 \in Nat
  BY DEF BlocksAssumption
<1>2. CASE w > U32
  BY <1>2 DEF Field
<1>3. CASE ~(w > U32)
  <2>1. v \in 0..U32 /\ v % (U32 + 1) = v
    BY <1>1, <1>3
  <2> QED
    BY <1>3, <2>1 DEF Field
<1> QED
  BY <1>2, <1>3

(* A block sent as it is.                                                  *)
LEMMA SentPlain ==
    ASSUME BlocksAssumption, NEW r \in [s : Nat, e : Nat], r.s < r.e
    PROVE  LET q == SendingParts(r) IN
           q \in Seq(SubPackets) /\ Orderly(q) /\ Complete(q) /\ Cover(q) = Span(r) /\ \A i \in DOMAIN q : q[i].op # "packed" /\ q[i].op \notin Marks
<1> DEFINE q == SendingParts(r)
           n == r.e - r.s
           c == PieceCount(n)
<1>1. r.s \in Nat /\ r.e \in Nat /\ n \in Nat \ {0}
  OBVIOUS
<1>2. /\ c \in Nat \ {0}
      /\ \A i \in 1..c : PieceStart(i) \in Nat /\ PieceEnd(n, i) \in Nat /\ PieceStart(i) < PieceEnd(n, i) /\ PieceEnd(n, i) <= n
      /\ \A i, j \in 1..c : i < j => PieceEnd(n, i) <= PieceStart(j)
      /\ \A x \in 0..(n - 1) : \E i \in 1..c : PieceStart(i) <= x /\ x < PieceEnd(n, i)
  BY <1>1, PiecesMeet
<1>3. q = [i \in 1..c |-> SendingPart(r.s + PieceStart(i), r.s + PieceEnd(n, i))]
  BY DEF SendingParts
<1> HIDE DEF q, n, c
<1>4. ASSUME NEW i \in 1..c
      PROVE  LET a == r.s + PieceStart(i)
                 b == r.s + PieceEnd(n, i)
             IN  /\ q[i] = [op |-> "part", start |-> a, end |-> b, data |-> BytesOf(a, b)]
                 /\ a \in Nat /\ b \in Nat /\ a < b /\ q[i] \in SubPackets /\ Plain(q[i])
                 /\ Region(q[i]) = a..(b - 1) /\ q[i].op = "part"
  <2> DEFINE a == r.s + PieceStart(i)
             b == r.s + PieceEnd(n, i)
  <2>1. a \in Nat /\ b \in Nat /\ a < b
    BY <1>1, <1>2
  <2>2. q[i] = SendingPart(a, b)
    BY <1>3
  <2> HIDE DEF a, b
  <2>3. Field(PieceFamily(a, b), a) = a /\ Field(PieceFamily(a, b), b) = b
    BY <2>1, FieldHolds DEF PieceFamily
  <2>4. q[i] = [op |-> "part", start |-> a, end |-> b, data |-> BytesOf(a, b)]
    BY <2>2, <2>3 DEF SendingPart
  <2>5. BytesOf(a, b) \in Seq(Int)
    BY <2>1, BytesAre
  <2>6. q[i] \in SubPackets
    BY <2>1, <2>4, <2>5 DEF SubPackets
  <2>7. Plain(q[i]) /\ Region(q[i]) = a..(b - 1) /\ q[i].op = "part"
    BY <2>1, <2>4 DEF Plain, Region
  <2> QED
    BY <2>1, <2>4, <2>6, <2>7 DEF a, b
<1>a. \A i \in 1..c : Region(q[i]) = (r.s + PieceStart(i))..((r.s + PieceEnd(n, i)) - 1)
  BY <1>4, Zenon
<1>5. q \in Seq(SubPackets) /\ DOMAIN q = 1..c
  <2>1. q \in [1..c -> SubPackets]
    BY <1>3, <1>4
  <2> QED
    BY <1>2, <2>1
<1>6. ASSUME NEW i \in 1..c, NEW j \in 1..c, i < j
      PROVE  Region(q[i]) \cap Region(q[j]) = {}
  <2>1. PieceEnd(n, i) <= PieceStart(j) /\ PieceEnd(n, i) \in Nat /\ PieceStart(j) \in Nat
    BY <1>2, <1>6
  <2>2. Region(q[i]) = (r.s + PieceStart(i))..((r.s + PieceEnd(n, i)) - 1)
        /\ Region(q[j]) = (r.s + PieceStart(j))..((r.s + PieceEnd(n, j)) - 1)
    BY <1>a
  <2> QED
    BY <1>1, <2>1, <2>2
<1>7. Orderly(q)
  BY <1>4, <1>5, <1>6 DEF Orderly, Sound, Ordered, After, Begins
<1>8. Complete(q)
  BY <1>4, <1>5 DEF Complete
<1>9. Cover(q) = Span(r)
  <2>1. ASSUME NEW o \in Cover(q)
        PROVE  o \in Span(r)
    <3>1. PICK i \in 1..c : o \in Region(q[i])
      BY <1>5, <2>1 DEF Cover
    <3>2. o \in (r.s + PieceStart(i))..((r.s + PieceEnd(n, i)) - 1)
      BY <1>a, <3>1
    <3>3. PieceStart(i) \in Nat /\ PieceEnd(n, i) \in Nat /\ PieceEnd(n, i) <= n
      BY <1>2
    <3> QED
      BY <1>1, <3>2, <3>3 DEF Span, n
  <2>2. ASSUME NEW o \in Span(r)
        PROVE  o \in Cover(q)
    <3>1. o - r.s \in 0..(n - 1) /\ o \in Nat
      BY <1>1 DEF Span, n
    <3>2. PICK i \in 1..c : PieceStart(i) <= o - r.s /\ o - r.s < PieceEnd(n, i)
      BY <1>2, <3>1
    <3>3. Region(q[i]) = (r.s + PieceStart(i))..((r.s + PieceEnd(n, i)) - 1)
      BY <1>a
    <3>4. PieceStart(i) \in Nat /\ PieceEnd(n, i) \in Nat
      BY <1>2
    <3>5. o \in Region(q[i])
      BY <1>1, <3>1, <3>2, <3>3, <3>4
    <3> QED
      BY <1>5, <3>1, <3>5 DEF Cover
  <2> QED
    BY <2>1, <2>2
<1>10. \A i \in DOMAIN q : q[i].op # "packed" /\ q[i].op \notin Marks
  BY <1>4, <1>5 DEF Marks
<1> QED
  BY <1>5, <1>7, <1>8, <1>9, <1>10 DEF q

(* A block sent compressed to n bytes.                                     *)
LEMMA SentPacked ==
    ASSUME BlocksAssumption, NEW r \in [s : Nat, e : Nat], r.s < r.e, NEW n \in Nat \ {0}
    PROVE  LET q == CompressedParts(r, n) IN
           q \in Seq(SubPackets) /\ Orderly(q) /\ Complete(q) /\ Cover(q) = Span(r) /\ \A i \in DOMAIN q : q[i].op \notin Marks
<1> DEFINE q == CompressedParts(r, n)
           c == PieceCount(n)
<1>1. r.s \in Nat /\ r.e \in Nat
  OBVIOUS
<1>2. /\ c \in Nat \ {0} /\ PieceStart(1) = 0 /\ PieceEnd(n, c) = n
      /\ \A i \in 1..c : PieceStart(i) \in Nat /\ PieceEnd(n, i) \in Nat /\ PieceStart(i) < PieceEnd(n, i) /\ PieceEnd(n, i) <= n
      /\ \A i \in 1..(c - 1) : PieceEnd(n, i) = PieceStart(i + 1)
      /\ \A i, j \in 1..c : i < j => PieceEnd(n, i) <= PieceStart(j)
  BY PiecesMeet
<1>3. q = [i \in 1..c |-> CompressedPart(r, n, PieceStart(i), PieceEnd(n, i))]
  BY DEF CompressedParts
<1> HIDE DEF q, c
<1>4. ASSUME NEW i \in 1..c
      PROVE  /\ q[i] \in SubPackets /\ Packed(q[i]) /\ q[i].op = "packed" /\ q[i].end = n /\ Region(q[i]) = Span(r)
             /\ Key(q[i]) = <<r.s, n>> /\ Stop(q[i]) = r.e /\ From(q[i]) = PieceStart(i) /\ To(q[i]) = PieceEnd(n, i)
  <2> DEFINE a == PieceStart(i)
             b == PieceEnd(n, i)
  <2>1. a \in Nat /\ b \in Nat /\ a < b /\ b <= n
    BY <1>2
  <2>2. q[i] = CompressedPart(r, n, a, b)
    BY <1>3
  <2> HIDE DEF a, b
  <2>3. Field(IF r.e > U32 THEN 64 ELSE 32, r.s) = r.s
    BY <1>1, FieldHolds
  <2>4. q[i] = [op |-> "packed", start |-> r.s, end |-> n, data |-> Compressed(r, a, b)]
    BY <2>2, <2>3 DEF CompressedPart
  <2>5. /\ Compressed(r, a, b) \in Seq(Nat \X Nat \X Nat) /\ Len(Compressed(r, a, b)) = b - a
        /\ Compressed(r, a, b)[1] = <<r.s, r.e, a + 1>>
    BY <1>1, <2>1, StretchIs
  <2>6. q[i] \in SubPackets
    BY <1>1, <2>4, <2>5 DEF SubPackets
  <2>7. Stop(q[i]) = r.e /\ From(q[i]) = a /\ To(q[i]) = b /\ q[i].data # <<>>
    <3>1. q[i].data = Compressed(r, a, b) /\ Len(q[i].data) = b - a /\ q[i].data[1] = <<r.s, r.e, a + 1>>
      BY <2>4, <2>5
    <3>2. q[i].data[1][2] = r.e /\ q[i].data[1][3] = a + 1
      BY <3>1
    <3>3. q[i].data # <<>>
      BY <2>1, <3>1
    <3>4. Stop(q[i]) = r.e
      BY <3>2 DEF Stop
    <3>5. From(q[i]) = a
      BY <2>1, <3>2 DEF From
    <3>6. To(q[i]) = b
      BY <2>1, <3>1, <3>5 DEF To
    <3> QED
      BY <3>3, <3>4, <3>5, <3>6
  <2>8. Block(q[i]).s = r.s /\ Block(q[i]).e = r.e /\ q[i].start = r.s
    BY <2>4, <2>7 DEF Block
  <2>9. q[i].data = Compressed(Block(q[i]), a, b)
    <3> DEFINE k == Block(q[i])
    <3>1. k.s = r.s /\ k.e = r.e
      BY <2>8
    <3> HIDE DEF k
    <3>2. Compressed(k, a, b) = Compressed(r, a, b)
      BY <3>1 DEF Compressed
    <3> QED
      BY <2>4, <3>2 DEF k
  <2>10. q[i].op = "packed" /\ q[i].end = n /\ Key(q[i]) = <<r.s, n>> /\ Region(q[i]) = Span(r)
    BY <2>4, <2>7 DEF Key, Region, Span
  <2>11. Packed(q[i])
    BY <2>1, <2>7, <2>8, <2>9, <2>10 DEF Packed
  <2> QED
    BY <2>6, <2>7, <2>10, <2>11 DEF a, b
<1>5. q \in Seq(SubPackets) /\ DOMAIN q = 1..c
  <2>1. q \in [1..c -> SubPackets]
    BY <1>3, <1>4
  <2> QED
    BY <1>2, <2>1
<1>6. \A i, j \in 1..c : SameBlock(q[i], q[j])
  BY <1>4 DEF SameBlock
<1>7. Ordered(q)
  <2> SUFFICES ASSUME NEW i \in 1..c, NEW j \in 1..c, i < j
               PROVE  After(q[j], q[i])
    BY <1>5 DEF Ordered
  <2>1. To(q[i]) <= From(q[j])
    BY <1>2, <1>4
  <2> QED
    BY <1>6, <2>1 DEF After
<1>8. ASSUME NEW i \in 1..c
      PROVE  Begins(q[i]) \/ Led(q, i)
  <2>1. CASE i = 1
    BY <1>2, <1>4, <2>1 DEF Begins
  <2>2. CASE i # 1
    <3>1. i - 1 \in 1..c /\ i - 1 \in 1..(c - 1) /\ (i - 1) + 1 = i /\ i - 1 < i
      BY <1>2, <2>2
    <3>2. PieceEnd(n, i - 1) = PieceStart(i)
      BY <1>2, <3>1
    <3>3. To(q[i - 1]) = From(q[i])
      BY <1>4, <3>1, <3>2
    <3> QED
      BY <1>5, <1>6, <3>1, <3>3 DEF Led
  <2> QED
    BY <2>1, <2>2
<1>9. Orderly(q)
  BY <1>4, <1>5, <1>7, <1>8 DEF Orderly, Sound
<1>10. Complete(q)
  <2> SUFFICES ASSUME NEW i \in 1..c
               PROVE  To(q[i]) = q[i].end \/ Followed(q, i)
    BY <1>5 DEF Complete
  <2>1. CASE i = c
    BY <1>2, <1>4, <2>1
  <2>2. CASE i # c
    <3>1. i + 1 \in 1..c /\ i < i + 1
      BY <1>2, <2>2
    <3> QED
      BY <1>5, <1>6, <3>1 DEF Followed
  <2> QED
    BY <2>1, <2>2
<1>11. Cover(q) = Span(r)
  <2>1. 1 \in 1..c
    BY <1>2
  <2>2. Span(r) \subseteq Nat
    BY <1>1 DEF Span
  <2> QED
    BY <1>4, <1>5, <2>1, <2>2 DEF Cover
<1>12. \A i \in DOMAIN q : q[i].op \notin Marks
  BY <1>4, <1>5 DEF Marks
<1> QED
  BY <1>5, <1>9, <1>10, <1>11, <1>12 DEF q

(* What a block of a request is answered with.                             *)
Answer(q, S) ==
    /\ q \in Seq(SubPackets) /\ Orderly(q) /\ Complete(q) /\ Cover(q) = S
    /\ \A i \in DOMAIN q : q[i].op \notin Marks

LEMMA BlockSent ==
    ASSUME BlocksAssumption, NEW r \in [s : Nat, e : Nat], NEW q \in SendBlock(r)
    PROVE  Answer(q, Span(r))
<1>1. CASE r.s >= r.e
  <2>1. q = <<>> /\ Span(r) = {}
    BY <1>1 DEF SendBlock, Span
  <2> QED
    BY <2>1 DEF Answer, Orderly, Complete, Ordered, Cover
<1>2. CASE ~(r.s >= r.e)
  <2>1. r.s < r.e
    BY <1>2
  <2>2. q = SendingParts(r) \/ \E n \in CompressedSizes \cap 1..(r.e - r.s - 1) : q = CompressedParts(r, n)
    BY <1>2 DEF SendBlock
  <2>3. CASE q = SendingParts(r)
    BY <2>1, <2>3, SentPlain DEF Answer
  <2>4. CASE \E n \in CompressedSizes \cap 1..(r.e - r.s - 1) : q = CompressedParts(r, n)
    <3>1. PICK n \in Nat \ {0} : q = CompressedParts(r, n)
      BY <2>4
    <3> QED
      BY <2>1, <3>1, SentPacked DEF Answer
  <2> QED
    BY <2>2, <2>3, <2>4
<1> QED
  BY <1>1, <1>2

(* Sequences end to end.                                                   *)
LEMMA EndToEnd ==
    ASSUME NEW S, NEW a \in Seq(S), NEW b \in Seq(S)
    PROVE  /\ a \o b \in Seq(S) /\ Len(a \o b) = Len(a) + Len(b) /\ Len(a) \in Nat /\ Len(b) \in Nat
           /\ DOMAIN a = 1..Len(a) /\ DOMAIN b = 1..Len(b) /\ DOMAIN (a \o b) = 1..(Len(a) + Len(b))
           /\ \A i \in DOMAIN a : i \in DOMAIN (a \o b) /\ (a \o b)[i] = a[i]
           /\ \A i \in DOMAIN b : Len(a) + i \in DOMAIN (a \o b) /\ (a \o b)[Len(a) + i] = b[i]
           /\ \A k \in DOMAIN (a \o b) : k \in DOMAIN a \/ (k > Len(a) /\ k - Len(a) \in DOMAIN b /\ (a \o b)[k] = b[k - Len(a)])
<1>1. a \o b \in Seq(S) /\ Len(a \o b) = Len(a) + Len(b) /\ Len(a) \in Nat /\ Len(b) \in Nat
  OBVIOUS
<1>2. DOMAIN a = 1..Len(a) /\ DOMAIN b = 1..Len(b) /\ DOMAIN (a \o b) = 1..(Len(a) + Len(b))
  BY <1>1
<1>3. \A k \in 1..(Len(a) + Len(b)) : (a \o b)[k] = IF k <= Len(a) THEN a[k] ELSE b[k - Len(a)]
  OBVIOUS
<1> QED
  BY <1>1, <1>2, <1>3

LEMMA CoverJoins ==
    ASSUME NEW a \in Seq(SubPackets), NEW b \in Seq(SubPackets)
    PROVE  Cover(a \o b) = Cover(a) \cup Cover(b)
<1>1. ASSUME NEW o \in Cover(a \o b)
      PROVE  o \in Cover(a) \cup Cover(b)
  <2>1. PICK k \in DOMAIN (a \o b) : o \in Region((a \o b)[k])
    BY <1>1 DEF Cover
  <2>2. o \in Nat
    BY DEF Cover
  <2> QED
    BY <2>1, <2>2, EndToEnd DEF Cover
<1>2. ASSUME NEW o \in Cover(a)
      PROVE  o \in Cover(a \o b)
  BY EndToEnd DEF Cover
<1>3. ASSUME NEW o \in Cover(b)
      PROVE  o \in Cover(a \o b)
  <2>1. PICK i \in DOMAIN b : o \in Region(b[i])
    BY DEF Cover
  <2>2. Len(a) + i \in DOMAIN (a \o b) /\ (a \o b)[Len(a) + i] = b[i]
    BY EndToEnd
  <2> QED
    BY <2>1, <2>2 DEF Cover
<1> QED
  BY <1>1, <1>2, <1>3

LEMMA RegionCovered ==
    ASSUME NEW q \in Seq(SubPackets), NEW i \in DOMAIN q
    PROVE  q[i] \in SubPackets /\ Region(q[i]) \subseteq Cover(q) /\ Region(q[i]) \subseteq Nat
<1>1. q[i] \in SubPackets
  OBVIOUS
<1>2. Region(q[i]) \subseteq Nat
  <2>1. CASE q[i].op = "part"
    <3>1. q[i].start \in Nat
      BY <1>1, <2>1 DEF SubPackets, Marks
    <3> QED
      BY <2>1, <3>1 DEF Region
  <2>2. CASE q[i].op = "packed"
    <3>1. q[i].start \in Nat
      BY <1>1, <2>2 DEF SubPackets, Marks
    <3> QED
      BY <2>2, <3>1 DEF Region
  <2> QED
    BY <2>1, <2>2 DEF Region
<1> QED
  BY <1>1, <1>2 DEF Cover

(* Packets about other bytes can follow.                                   *)
LEMMA OrderJoins ==
    ASSUME NEW a \in Seq(SubPackets), NEW b \in Seq(SubPackets), Cover(a) \cap Cover(b) = {}, Ordered(a), Ordered(b)
    PROVE  Ordered(a \o b)
<1> DEFINE q == a \o b
<1>1. /\ Len(a) \in Nat /\ DOMAIN a = 1..Len(a)
      /\ \A i \in DOMAIN a : q[i] = a[i]
      /\ \A k \in DOMAIN q : k \in DOMAIN a \/ (k > Len(a) /\ k - Len(a) \in DOMAIN b /\ q[k] = b[k - Len(a)])
      /\ DOMAIN q \subseteq Nat
  BY EndToEnd
<1> HIDE DEF q
<1> SUFFICES ASSUME NEW i \in DOMAIN q, NEW j \in DOMAIN q, i < j
             PROVE  After(q[j], q[i])
  BY DEF Ordered, q
<1>2. i \in Nat /\ j \in Nat
  BY <1>1
<1>3. CASE j \in DOMAIN a
  <2>1. i \in DOMAIN a
    BY <1>1, <1>2, <1>3
  <2> QED
    BY <1>1, <1>3, <2>1 DEF Ordered
<1>4. CASE j \notin DOMAIN a /\ i \in DOMAIN a
  <2>1. q[i] = a[i] /\ q[j] = b[j - Len(a)] /\ j - Len(a) \in DOMAIN b
    BY <1>1, <1>4
  <2>2. Region(q[i]) \subseteq Cover(a) /\ Region(q[j]) \subseteq Cover(b)
    BY <1>4, <2>1, RegionCovered
  <2> QED
    BY <2>2 DEF After
<1>5. CASE j \notin DOMAIN a /\ i \notin DOMAIN a
  <2>1. q[i] = b[i - Len(a)] /\ q[j] = b[j - Len(a)] /\ j - Len(a) \in DOMAIN b /\ i - Len(a) \in DOMAIN b
    BY <1>1, <1>5
  <2>2. i - Len(a) < j - Len(a)
    BY <1>1, <1>2
  <2> QED
    BY <2>1, <2>2 DEF Ordered
<1> QED
  BY <1>3, <1>4, <1>5

LEMMA LedJoins ==
    ASSUME NEW a \in Seq(SubPackets), NEW b \in Seq(SubPackets)
    PROVE  /\ \A i \in DOMAIN a : Led(a, i) => Led(a \o b, i)
           /\ \A i \in DOMAIN b : Led(b, i) => Led(a \o b, Len(a) + i)
<1> DEFINE q == a \o b
<1>1. /\ Len(a) \in Nat /\ DOMAIN b \subseteq Nat
      /\ \A i \in DOMAIN a : i \in DOMAIN q /\ q[i] = a[i]
      /\ \A i \in DOMAIN b : Len(a) + i \in DOMAIN q /\ q[Len(a) + i] = b[i]
  BY EndToEnd
<1> HIDE DEF q
<1>2. ASSUME NEW i \in DOMAIN a, Led(a, i)
      PROVE  Led(q, i)
  BY <1>1, <1>2 DEF Led
<1>3. ASSUME NEW i \in DOMAIN b, Led(b, i)
      PROVE  Led(q, Len(a) + i)
  <2>1. PICK j \in DOMAIN b : j < i /\ SameBlock(b[j], b[i]) /\ To(b[j]) = From(b[i])
    BY <1>3 DEF Led
  <2>2. Len(a) + j \in DOMAIN q /\ Len(a) + j < Len(a) + i /\ q[Len(a) + j] = b[j] /\ q[Len(a) + i] = b[i]
    BY <1>1, <2>1
  <2> QED
    BY <2>1, <2>2 DEF Led
<1> QED
  BY <1>2, <1>3 DEF q

LEMMA CompleteJoins ==
    ASSUME NEW a \in Seq(SubPackets), NEW b \in Seq(SubPackets), Complete(a), Complete(b)
    PROVE  Complete(a \o b)
<1> DEFINE q == a \o b
<1>1. /\ Len(a) \in Nat /\ DOMAIN b \subseteq Nat
      /\ \A i \in DOMAIN a : i \in DOMAIN q /\ q[i] = a[i]
      /\ \A i \in DOMAIN b : Len(a) + i \in DOMAIN q /\ q[Len(a) + i] = b[i]
      /\ \A k \in DOMAIN q : k \in DOMAIN a \/ (k > Len(a) /\ k - Len(a) \in DOMAIN b /\ q[k] = b[k - Len(a)])
      /\ DOMAIN q \subseteq Nat
  BY EndToEnd
<1> HIDE DEF q
<1> SUFFICES ASSUME NEW k \in DOMAIN q, q[k].op = "packed", To(q[k]) # q[k].end
             PROVE  Followed(q, k)
  BY DEF Complete, q
<1>2. CASE k \in DOMAIN a
  <2>1. Followed(a, k)
    BY <1>1, <1>2 DEF Complete
  <2> QED
    BY <1>1, <1>2, <2>1 DEF Followed
<1>3. CASE k \notin DOMAIN a
  <2> DEFINE i == k - Len(a)
  <2>1. i \in DOMAIN b /\ q[k] = b[i] /\ k \in Nat
    BY <1>1, <1>3
  <2>2. PICK j \in DOMAIN b : i < j /\ SameBlock(b[i], b[j])
    BY <2>1 DEF Complete, Followed
  <2>3. Len(a) + j \in DOMAIN q /\ k < Len(a) + j /\ q[Len(a) + j] = b[j]
    BY <1>1, <2>1, <2>2
  <2> QED
    BY <2>1, <2>2, <2>3 DEF Followed
<1> QED
  BY <1>2, <1>3

LEMMA SoundJoins ==
    ASSUME NEW a \in Seq(SubPackets), NEW b \in Seq(SubPackets),
           \A i \in DOMAIN a : Sound(a[i]), \A i \in DOMAIN b : Sound(b[i])
    PROVE  \A k \in DOMAIN (a \o b) : Sound((a \o b)[k])
<1>1. /\ \A i \in DOMAIN a : (a \o b)[i] = a[i]
      /\ \A k \in DOMAIN (a \o b) : k \in DOMAIN a \/ (k > Len(a) /\ k - Len(a) \in DOMAIN b /\ (a \o b)[k] = b[k - Len(a)])
  BY EndToEnd
<1> QED
  BY <1>1

LEMMA OrderlyJoins ==
    ASSUME NEW a \in Seq(SubPackets), NEW b \in Seq(SubPackets), Cover(a) \cap Cover(b) = {}, Orderly(a), Orderly(b)
    PROVE  Orderly(a \o b)
<1> DEFINE q == a \o b
<1>1. /\ Len(a) \in Nat
      /\ \A i \in DOMAIN a : q[i] = a[i]
      /\ \A k \in DOMAIN q : k \in DOMAIN a \/ (k > Len(a) /\ k - Len(a) \in DOMAIN b /\ q[k] = b[k - Len(a)])
      /\ DOMAIN q \subseteq Nat
  BY EndToEnd
<1>2. \A k \in DOMAIN q : Sound(q[k])
  BY SoundJoins DEF Orderly
<1>3. Ordered(q)
  BY OrderJoins DEF Orderly
<1>4. /\ \A i \in DOMAIN a : Led(a, i) => Led(q, i)
      /\ \A i \in DOMAIN b : Led(b, i) => Led(q, Len(a) + i)
  BY LedJoins
<1> HIDE DEF q
<1>5. ASSUME NEW k \in DOMAIN q
      PROVE  Begins(q[k]) \/ Led(q, k)
  <2>1. CASE k \in DOMAIN a
    BY <1>1, <1>4, <2>1 DEF Orderly
  <2>2. CASE k \notin DOMAIN a
    <3>1. k - Len(a) \in DOMAIN b /\ q[k] = b[k - Len(a)] /\ Len(a) + (k - Len(a)) = k
      BY <1>1, <2>2
    <3> QED
      BY <1>4, <3>1 DEF Orderly
  <2> QED
    BY <2>1, <2>2
<1> QED
  BY <1>2, <1>3, <1>5 DEF Orderly, q

LEMMA AnswersJoin ==
    ASSUME NEW S, NEW T, NEW a, NEW b, Answer(a, S), Answer(b, T), S \cap T = {}
    PROVE  Answer(a \o b, S \cup T)
<1>1. a \in Seq(SubPackets) /\ b \in Seq(SubPackets)
  BY DEF Answer
<1>2. a \o b \in Seq(SubPackets)
  BY <1>1
<1>3. Cover(a \o b) = S \cup T
  BY <1>1, CoverJoins DEF Answer
<1>4. Orderly(a \o b)
  BY <1>1, OrderlyJoins DEF Answer
<1>5. Complete(a \o b)
  BY <1>1, CompleteJoins DEF Answer
<1>6. \A k \in DOMAIN (a \o b) : (a \o b)[k].op \notin Marks
  <2>1. /\ \A i \in DOMAIN a : (a \o b)[i] = a[i]
        /\ \A k \in DOMAIN (a \o b) : k \in DOMAIN a \/ (k > Len(a) /\ k - Len(a) \in DOMAIN b /\ (a \o b)[k] = b[k - Len(a)])
    BY <1>1, EndToEnd
  <2> QED
    BY <2>1 DEF Answer
<1> QED
  BY <1>2, <1>3, <1>4, <1>5, <1>6 DEF Answer

(* The first packets of an answer.                                         *)
LEMMA AnswerCut ==
    ASSUME NEW q \in Seq(SubPackets), Orderly(q), NEW k \in 0..Len(q)
    PROVE  LET p == SubSeq(q, 1, k) IN p \in Seq(SubPackets) /\ Orderly(p) /\ Cover(p) \subseteq Cover(q)
<1> DEFINE p == SubSeq(q, 1, k)
<1>1. Len(q) \in Nat /\ DOMAIN q = 1..Len(q) /\ k \in Nat /\ k <= Len(q)
  OBVIOUS
<1>2. p \in Seq(SubPackets) /\ Len(p) = k
  BY <1>1, SubSeqProperties
<1>3. DOMAIN p = 1..k /\ \A i \in 1..k : p[i] = q[i] /\ i \in DOMAIN q
  BY <1>1, <1>2, SubSeqProperties
<1> HIDE DEF p
<1>4. Orderly(p)
  <2>1. ASSUME NEW i \in 1..k, Led(q, i)
        PROVE  Led(p, i)
    <3>1. PICK j \in DOMAIN q : j < i /\ SameBlock(q[j], q[i]) /\ To(q[j]) = From(q[i])
      BY <2>1 DEF Led
    <3>2. j \in 1..k
      BY <1>1, <3>1
    <3> QED
      BY <1>3, <3>1, <3>2 DEF Led
  <2>2. Ordered(p)
    BY <1>3 DEF Orderly, Ordered
  <2> QED
    BY <1>3, <2>1, <2>2 DEF Orderly
<1>5. Cover(p) \subseteq Cover(q)
  BY <1>3 DEF Cover
<1> QED
  BY <1>2, <1>4, <1>5 DEF p

-----------------------------------------------------------------------------
(* A request whose ranges are in the region, no larger than a block, and   *)
(* apart is sent, parsed and trimmed as it is.                             *)
Pair == [s : Nat, e : Nat]
GoodSlot(r) == r = Unused \/ (job.base <= r.s /\ r.s < r.e /\ r.e <= job.bound /\ r.e - r.s <= EMBLOCK)
GoodRequest(q) ==
    /\ q \in [Slots -> Pair]
    /\ \A i \in Slots : GoodSlot(q[i])
    /\ \A i, j \in Slots : i # j => Span(q[i]) \cap Span(q[j]) = {}

LEMMA JobIs ==
    ASSUME BlocksAssumption, job \in Jobs
    PROVE  /\ job.size \in Nat /\ job.base \in Nat /\ job.bound \in Nat /\ job.base <= job.bound /\ job.bound <= job.size
           /\ job.selector \in BOOLEAN /\ EMBLOCK \in Nat \ {0} /\ U32 \in Nat
BY DEF BlocksAssumption

LEMMA RequestExact ==
    ASSUME BlocksAssumption, job \in Jobs, NEW q, GoodRequest(q)
    PROVE  BuildRequestParts(q) = q
<1>1. q \in [Slots -> Pair] /\ \A i \in Slots : q[i] \in Pair /\ q[i].s \in Nat /\ q[i].e \in Nat
  BY DEF GoodRequest, Pair
<1>2. ASSUME NEW i \in Slots
      PROVE  Field(RequestFamily(q), q[i].s) = q[i].s /\ Field(RequestFamily(q), q[i].e) = q[i].e
  <2>1. CASE \E j \in Slots : q[j].s > U32 \/ q[j].e > U32
    BY <2>1 DEF RequestFamily, Field
  <2>2. CASE ~\E j \in Slots : q[j].s > U32 \/ q[j].e > U32
    <3>1. RequestFamily(q) = 32
      BY <2>2 DEF RequestFamily
    <3>2. ~(q[i].s > U32) /\ ~(q[i].e > U32)
      BY <2>2
    <3>3. Field(32, q[i].s) = q[i].s /\ Field(32, q[i].e) = q[i].e
      BY <1>1, <3>2, FieldHolds
    <3> QED
      BY <3>1, <3>3
  <2> QED
    BY <2>1, <2>2
<1>3. ASSUME NEW i \in Slots
      PROVE  [s |-> q[i].s, e |-> q[i].e] = q[i]
  BY <1>1 DEF Pair
<1>4. BuildRequestParts(q) = [i \in Slots |-> q[i]]
  BY <1>2, <1>3 DEF BuildRequestParts
<1> QED
  BY <1>1, <1>4

(* What comes for it: every byte of its ranges, in order.                  *)
Wanting(q) == Span(q[1]) \cup Span(q[2]) \cup Span(q[3])

LEMMA RequestAnswered ==
    ASSUME BlocksAssumption, job \in Jobs, NEW q, GoodRequest(q), NEW sent \in HandleRequestParts(q)
    PROVE  Answer(sent, Wanting(q))
<1>1. q \in [Slots -> Pair] /\ \A i \in Slots : q[i] \in Pair /\ q[i].s \in Nat /\ q[i].e \in Nat
  BY DEF GoodRequest, Pair
<1>2. 1 \in Slots /\ 2 \in Slots /\ 3 \in Slots
  BY DEF Slots
<1>3. ASSUME NEW i \in Slots
      PROVE  q[i].s <= q[i].e /\ Trimmed(q[i]) = q[i]
  <2>1. GoodSlot(q[i])
    BY DEF GoodRequest
  <2>2. CASE q[i] = Unused
    BY <2>2, JobIs DEF Unused, Trimmed, Capped
  <2>3. CASE q[i] # Unused
    <3>1. q[i].s < q[i].e /\ q[i].e <= job.bound /\ q[i].e - q[i].s <= EMBLOCK
      BY <2>1, <2>3 DEF GoodSlot
    <3>2. q[i].e <= job.size /\ q[i].e <= q[i].s + 3 * EMBLOCK
      BY <1>1, <3>1, JobIs
    <3>3. Capped(Capped(q[i].e, job.size), q[i].s + 3 * EMBLOCK) = q[i].e
      BY <1>1, <3>2, JobIs DEF Capped
    <3>4. [s |-> q[i].s, e |-> q[i].e] = q[i]
      BY <1>1 DEF Pair
    <3> QED
      BY <1>1, <3>1, <3>3, <3>4 DEF Trimmed
  <2> QED
    BY <2>2, <2>3
<1>4. ParseRequestParts(q) = q
  BY <1>1, <1>3 DEF ParseRequestParts
<1>5. PICK a \in SendBlock(q[1]), b \in SendBlock(q[2]), c \in SendBlock(q[3]) : sent = a \o b \o c
  BY <1>2, <1>3, <1>4 DEF HandleRequestParts
<1>6. Answer(a, Span(q[1])) /\ Answer(b, Span(q[2])) /\ Answer(c, Span(q[3]))
  BY <1>1, <1>2, BlockSent DEF Pair
<1>7. /\ Span(q[1]) \cap Span(q[2]) = {}
      /\ (Span(q[1]) \cup Span(q[2])) \cap Span(q[3]) = {}
  <2>1. Span(q[1]) \cap Span(q[2]) = {} /\ Span(q[1]) \cap Span(q[3]) = {} /\ Span(q[2]) \cap Span(q[3]) = {}
    BY <1>2 DEF GoodRequest
  <2> QED
    BY <2>1
<1>8. Answer(a \o b, Span(q[1]) \cup Span(q[2]))
  BY <1>6, <1>7, AnswersJoin
<1>9. Answer((a \o b) \o c, Wanting(q))
  BY <1>6, <1>7, <1>8, AnswersJoin DEF Wanting
<1> QED
  BY <1>5, <1>9

-----------------------------------------------------------------------------
(* Windows of a selector and blocks of a linear round are apart.           *)
LEMMA WindowsApart ==
    ASSUME BlocksAssumption, job \in Jobs, NEW k \in Nat, NEW m \in Nat, k # m
    PROVE  Span(Window(k)) \cap Span(Window(m)) = {}
<1>0. job.base \in Nat /\ job.bound \in Nat /\ EMBLOCK \in Nat \ {0}
  BY JobIs
<1>1. ASSUME NEW i \in Nat, NEW j \in Nat, i < j
      PROVE  Span(Window(i)) \cap Span(Window(j)) = {}
  <2>1. i * EMBLOCK \in Nat /\ j * EMBLOCK \in Nat /\ (i + 1) * EMBLOCK = i * EMBLOCK + EMBLOCK
        /\ (i + 1) * EMBLOCK <= j * EMBLOCK
    BY <1>0, <1>1, Products
  <2> DEFINE x == i * EMBLOCK
             y == j * EMBLOCK
             z == (i + 1) * EMBLOCK
  <2>2. x \in Nat /\ y \in Nat /\ z = x + EMBLOCK /\ z <= y
    BY <2>1
  <2>3. Window(i) = [s |-> job.base + x, e |-> Capped(job.base + x + EMBLOCK, job.bound)]
        /\ Window(j).s = job.base + y
    BY DEF Window
  <2> HIDE DEF x, y, z
  <2>4. Capped(job.base + x + EMBLOCK, job.bound) \in Nat
        /\ Capped(job.base + x + EMBLOCK, job.bound) <= job.base + x + EMBLOCK
    BY <1>0, <2>2 DEF Capped
  <2>5. Window(i).e \in Nat /\ Window(i).e <= Window(j).s /\ Window(j).s \in Nat
    BY <1>0, <2>2, <2>3, <2>4
  <2> HIDE <2>3
  <2> QED
    BY <2>5 DEF Span
<1>2. k < m \/ m < k
  OBVIOUS
<1> QED
  BY <1>1, <1>2

LEMMA WindowGood ==
    ASSUME BlocksAssumption, job \in Jobs, NEW k \in Nat, job.base + k * EMBLOCK < job.bound
    PROVE  Window(k) \in Pair /\ GoodSlot(Window(k)) /\ Window(k) # Unused
           /\ Span(Window(k)) \subseteq job.base..(job.bound - 1) /\ Window(k).s \in Span(Window(k))
<1>0. job.base \in Nat /\ job.bound \in Nat /\ EMBLOCK \in Nat \ {0}
  BY JobIs
<1> DEFINE x == k * EMBLOCK
<1>1. x \in Nat /\ job.base + x < job.bound
  BY <1>0
<1>2. Window(k) = [s |-> job.base + x, e |-> Capped(job.base + x + EMBLOCK, job.bound)]
  BY DEF Window
<1> HIDE DEF x
<1> DEFINE w == Window(k)
<1>3. w.s \in Nat /\ w.e \in Nat /\ job.base <= w.s /\ w.s < w.e /\ w.e <= job.bound /\ w.e - w.s <= EMBLOCK /\ w \in Pair
  BY <1>0, <1>1, <1>2 DEF Capped, Pair
<1> HIDE DEF w
<1>4. w # Unused
  BY <1>3 DEF Unused
<1> QED
  BY <1>0, <1>3, <1>4 DEF GoodSlot, Span, w

-----------------------------------------------------------------------------
(* Bytes that were asked for and not served, that wait for the rest of     *)
(* their block, that have been written, and all that were ever asked for.  *)
Asked(qs) == {o \in Nat : \E i \in DOMAIN qs : o \in Wanting(qs[i])}
HeldSpan(k) == k[1]..(pendingCompressed[k][1][2] - 1)
Held == {o \in Nat : \E k \in DOMAIN pendingCompressed : o \in HeldSpan(k)}
Filled == {o \in DOMAIN file : file[o] # -1}
Territory ==
    IF job.selector THEN {o \in Nat : \E w \in issuedRanges : o \in Span(w)}
    ELSE job.base..(job.base + receivedBytes + expectedBytes - 1)

BlocksTypeOK ==
    /\ job \in Jobs /\ pc \in {"ask", "read", "done", "failed"}
    /\ receivedBytes \in Nat /\ receivedBlocks \in Nat /\ expectedBytes \in Int /\ outOfPartRetries \in Nat
    /\ issuedRanges \subseteq Pair
    /\ \A k \in DOMAIN pendingCompressed :
          k \in Nat \X Nat /\ pendingCompressed[k] \in Seq(Nat \X Nat \X Nat) /\ pendingCompressed[k] # <<>>
    /\ partRequests \in Seq([Slots -> Pair]) /\ packets \in Seq(SubPackets)
    /\ file \in [0..(job.size - 1) -> Int] /\ rewritten \in BOOLEAN

(* With any peer: packets and requests say what they are, and a byte is    *)
(* written at its place.                                                   *)
Placed ==
    /\ \A i \in DOMAIN packets : Sound(packets[i])
    /\ \A i \in DOMAIN partRequests : GoodRequest(partRequests[i])
    /\ \A k \in DOMAIN pendingCompressed : \A i \in DOMAIN pendingCompressed[k] :
          pendingCompressed[k][i][1] = k[1] /\ k[1] < pendingCompressed[k][i][2]
    /\ \A o \in DOMAIN file : file[o] \in {-1, o}
    /\ \A w \in issuedRanges : \E k \in Nat : w = Window(k) /\ job.base + k * EMBLOCK < job.bound

(* What is held is the beginning of a block whose next piece, if any, is   *)
(* the first of that block on the wire.                                    *)
Stretch(k) ==
    /\ pendingCompressed[k] = Compressed([s |-> k[1], e |-> pendingCompressed[k][1][2]], 0, Len(pendingCompressed[k]))
    /\ Len(pendingCompressed[k]) < k[2] /\ k[1] < pendingCompressed[k][1][2]
Resumes(p) == Key(p) \in DOMAIN pendingCompressed /\ Len(pendingCompressed[Key(p)]) = From(p)
Fits(p, k) ==
    p.op = "packed" /\ Key(p) = k /\ Stop(p) = pendingCompressed[k][1][2] /\ Len(pendingCompressed[k]) <= From(p)
Running ==
    /\ Ordered(packets)
    /\ \A i \in DOMAIN packets : Begins(packets[i]) \/ Led(packets, i) \/ Resumes(packets[i])
    /\ \A k \in DOMAIN pendingCompressed : Stretch(k)
    /\ \A k \in DOMAIN pendingCompressed : \A i \in DOMAIN packets :
          Region(packets[i]) \cap HeldSpan(k) = {} \/ Fits(packets[i], k)

(* A byte is asked for once and is in one place until it is written.       *)
Separate ==
    /\ Asked(partRequests) \cap Cover(packets) = {} /\ Asked(partRequests) \cap Held = {}
    /\ (Asked(partRequests) \cup Cover(packets)) \cap Filled = {}
    /\ \A i, j \in DOMAIN partRequests : i # j => Wanting(partRequests[i]) \cap Wanting(partRequests[j]) = {}
    /\ Asked(partRequests) \cup Cover(packets) \cup Held \cup Filled \subseteq Territory
    /\ Asked(partRequests) \cup Cover(packets) \cup Filled \subseteq job.base..(job.bound - 1)

Accounted == ~rewritten /\ pc # "failed" /\ Cardinality(Filled) = receivedBytes

(* With AmuleD's engine a round waits for just what is on its way.         *)
Balanced ==
    /\ Complete(packets) /\ \A i \in DOMAIN packets : packets[i].op \notin Marks
    /\ pc \in {"ask", "read"} =>
          /\ expectedBytes = Cardinality(Asked(partRequests) \cup Cover(packets))
          /\ (pc = "ask" <=> expectedBytes = 0)

BlocksInv ==
    /\ BlocksTypeOK /\ Placed
    /\ (job.selector \/ job.server = "amuled") => (Running /\ Separate /\ Accounted)
    /\ job.server = "amuled" => Balanced

-----------------------------------------------------------------------------
(* What a request wants, counted.                                          *)
LEMMA SpanSize ==
    ASSUME NEW r \in Pair
    PROVE  IsFiniteSet(Span(r)) /\ Cardinality(Span(r)) = Size(r) /\ Size(r) \in Nat
<1>1. r.s \in Nat /\ r.e \in Nat
  BY DEF Pair
<1>2. IsFiniteSet(r.s..(r.e - 1)) /\ Cardinality(r.s..(r.e - 1)) = IF r.s > r.e - 1 THEN 0 ELSE (r.e - 1) - r.s + 1
  <2>1. r.s \in Int /\ r.e - 1 \in Int
    BY <1>1
  <2> QED
    BY <2>1, FS_Interval
<1> QED
  BY <1>1, <1>2 DEF Span, Size

LEMMA ApartSize ==
    ASSUME NEW S, NEW T, IsFiniteSet(S), IsFiniteSet(T), S \cap T = {}
    PROVE  IsFiniteSet(S \cup T) /\ Cardinality(S \cup T) = Cardinality(S) + Cardinality(T)
<1>1. IsFiniteSet(S \cup T) /\ Cardinality(S \cup T) = Cardinality(S) + Cardinality(T) - Cardinality(S \cap T)
  BY FS_Union
<1>2. Cardinality(S \cap T) = 0
  BY FS_EmptySet
<1>3. Cardinality(S) \in Nat /\ Cardinality(T) \in Nat
  BY FS_CardinalityType
<1> QED
  BY <1>1, <1>2, <1>3

LEMMA WantingSize ==
    ASSUME NEW q, GoodRequest(q)
    PROVE  /\ IsFiniteSet(Wanting(q)) /\ Cardinality(Wanting(q)) = Size(q[1]) + Size(q[2]) + Size(q[3])
           /\ Size(q[1]) \in Nat /\ Size(q[2]) \in Nat /\ Size(q[3]) \in Nat
<1>1. 1 \in Slots /\ 2 \in Slots /\ 3 \in Slots
  BY DEF Slots
<1>2. q[1] \in Pair /\ q[2] \in Pair /\ q[3] \in Pair
  BY <1>1 DEF GoodRequest
<1>3. Span(q[1]) \cap Span(q[2]) = {} /\ Span(q[1]) \cap Span(q[3]) = {} /\ Span(q[2]) \cap Span(q[3]) = {}
  BY <1>1 DEF GoodRequest
<1>4. /\ IsFiniteSet(Span(q[1])) /\ Cardinality(Span(q[1])) = Size(q[1]) /\ Size(q[1]) \in Nat
      /\ IsFiniteSet(Span(q[2])) /\ Cardinality(Span(q[2])) = Size(q[2]) /\ Size(q[2]) \in Nat
      /\ IsFiniteSet(Span(q[3])) /\ Cardinality(Span(q[3])) = Size(q[3]) /\ Size(q[3]) \in Nat
  BY <1>2, SpanSize
<1>5. IsFiniteSet(Span(q[1]) \cup Span(q[2])) /\ Cardinality(Span(q[1]) \cup Span(q[2])) = Size(q[1]) + Size(q[2])
  <2>1. Cardinality(Span(q[1]) \cup Span(q[2])) = Cardinality(Span(q[1])) + Cardinality(Span(q[2]))
        /\ IsFiniteSet(Span(q[1]) \cup Span(q[2]))
    BY <1>3, <1>4, ApartSize, Zenon
  <2> QED
    BY <1>4, <2>1
<1>6. (Span(q[1]) \cup Span(q[2])) \cap Span(q[3]) = {}
  BY <1>3
<1>7. /\ IsFiniteSet((Span(q[1]) \cup Span(q[2])) \cup Span(q[3]))
      /\ Cardinality((Span(q[1]) \cup Span(q[2])) \cup Span(q[3])) = Cardinality(Span(q[1]) \cup Span(q[2])) + Cardinality(Span(q[3]))
  BY <1>4, <1>5, <1>6, ApartSize
<1> QED
  BY <1>4, <1>5, <1>7 DEF Wanting

LEMMA WantingInside ==
    ASSUME BlocksAssumption, job \in Jobs, NEW q, GoodRequest(q)
    PROVE  Wanting(q) \subseteq job.base..(job.bound - 1) /\ Wanting(q) \subseteq Nat
<1>1. 1 \in Slots /\ 2 \in Slots /\ 3 \in Slots
  BY DEF Slots
<1>2. job.base \in Nat /\ job.bound \in Nat
  BY JobIs
<1>3. ASSUME NEW i \in Slots
      PROVE  Span(q[i]) \subseteq job.base..(job.bound - 1)
  <2>1. q[i] \in Pair /\ q[i].s \in Nat /\ q[i].e \in Nat /\ GoodSlot(q[i])
    BY DEF GoodRequest, Pair
  <2>2. CASE q[i] = Unused
    BY <2>2 DEF Unused, Span
  <2>3. CASE q[i] # Unused
    <3>1. job.base <= q[i].s /\ q[i].e <= job.bound
      BY <2>1, <2>3 DEF GoodSlot
    <3> QED
      BY <1>2, <2>1, <3>1 DEF Span
  <2> QED
    BY <2>2, <2>3
<1> QED
  BY <1>1, <1>2, <1>3 DEF Wanting

(* What a selector returns is windows that were not asked for.             *)
LEMMA SelectedGood ==
    ASSUME BlocksAssumption, BlocksTypeOK, Placed, NEW q \in SelectedRanges, q[1] # Unused
    PROVE  /\ GoodRequest(q) /\ Size(q[1]) > 0
           /\ \A i \in Slots : q[i] # Unused => q[i] \notin issuedRanges /\ \E k \in Nat : q[i] = Window(k) /\ job.base + k * EMBLOCK < job.bound
<1> DEFINE left == {Window(k) : k \in {i \in 0..(job.bound - job.base) : job.base + i * EMBLOCK < job.bound}} \ issuedRanges
<1>0. job \in Jobs /\ 1 \in Slots
  BY DEF BlocksTypeOK, Slots
<1>1. /\ q \in [Slots -> left \cup {Unused}]
      /\ \A i, j \in Slots : i < j => IF q[i] = Unused THEN q[j] = Unused ELSE q[i] # q[j]
  BY DEF SelectedRanges
<1>2. ASSUME NEW w \in left
      PROVE  w \notin issuedRanges /\ \E k \in Nat : w = Window(k) /\ job.base + k * EMBLOCK < job.bound
  OBVIOUS
<1> HIDE DEF left
<1>3. ASSUME NEW i \in Slots
      PROVE  q[i] \in Pair /\ GoodSlot(q[i])
             /\ (q[i] # Unused => q[i] \notin issuedRanges /\ \E k \in Nat : q[i] = Window(k) /\ job.base + k * EMBLOCK < job.bound)
  <2>1. CASE q[i] = Unused
    BY <2>1 DEF Unused, Pair, GoodSlot
  <2>2. CASE q[i] # Unused
    <3>1. q[i] \in left
      BY <1>1, <2>2
    <3>2. PICK k \in Nat : q[i] = Window(k) /\ job.base + k * EMBLOCK < job.bound
      BY <1>2, <3>1
    <3>3. q[i] \in Pair /\ GoodSlot(q[i])
      BY <1>0, <3>2, WindowGood
    <3> QED
      BY <1>2, <3>1, <3>2, <3>3
  <2> QED
    BY <2>1, <2>2
<1>4. ASSUME NEW i \in Slots, NEW j \in Slots, i < j
      PROVE  Span(q[i]) \cap Span(q[j]) = {}
  <2>1. CASE q[i] = Unused \/ q[j] = Unused
    BY <2>1 DEF Unused, Span
  <2>2. CASE q[i] # Unused /\ q[j] # Unused
    <3>1. PICK k \in Nat : q[i] = Window(k)
      BY <1>3, <2>2
    <3>2. PICK m \in Nat : q[j] = Window(m)
      BY <1>3, <2>2
    <3>3. k # m
      BY <1>1, <1>4, <2>2, <3>1, <3>2
    <3> QED
      BY <1>0, <3>1, <3>2, <3>3, WindowsApart
  <2> QED
    BY <2>1, <2>2
<1>5. \A i, j \in Slots : i # j => Span(q[i]) \cap Span(q[j]) = {}
  <2> SUFFICES ASSUME NEW i \in Slots, NEW j \in Slots, i # j
               PROVE  Span(q[i]) \cap Span(q[j]) = {}
    OBVIOUS
  <2>1. i < j \/ j < i
    BY DEF Slots
  <2> QED
    BY <1>4, <2>1
<1>6. GoodRequest(q)
  <2>1. q \in [Slots -> Pair]
    BY <1>1, <1>3
  <2> QED
    BY <1>3, <1>5, <2>1 DEF GoodRequest
<1>7. Size(q[1]) > 0
  <2>1. q[1] \in Pair /\ q[1].s < q[1].e
    BY <1>0, <1>3 DEF GoodSlot
  <2>2. q[1].s \in Nat /\ q[1].e \in Nat
    BY <2>1 DEF Pair
  <2> QED
    BY <2>1, <2>2 DEF Size
<1> QED
  BY <1>3, <1>6, <1>7

(* They are apart from all that were.                                      *)
LEMMA SelectedNew ==
    ASSUME BlocksAssumption, BlocksTypeOK, Placed, job.selector, NEW q \in SelectedRanges, q[1] # Unused
    PROVE  Wanting(q) \cap Territory = {}
<1> SUFFICES ASSUME NEW o \in Wanting(q), o \in Territory
             PROVE  FALSE
  OBVIOUS
<1>0. job \in Jobs
  BY DEF BlocksTypeOK
<1>1. PICK i \in Slots : o \in Span(q[i])
  BY DEF Wanting, Slots
<1>2. PICK w \in issuedRanges : o \in Span(w)
  BY DEF Territory
<1>3. q[i] # Unused
  BY <1>1 DEF Unused, Span
<1>4. PICK k \in Nat : q[i] = Window(k)
  BY <1>3, SelectedGood
<1>5. PICK m \in Nat : w = Window(m)
  BY <1>2 DEF Placed
<1>6. q[i] \notin issuedRanges
  BY <1>3, SelectedGood
<1>7. k # m
  BY <1>4, <1>5, <1>6
<1> QED
  BY <1>0, <1>1, <1>2, <1>4, <1>5, <1>7, WindowsApart

(* A linear round asks for the next bytes.                                 *)
LEMMA LinearGood ==
    ASSUME BlocksAssumption, BlocksTypeOK, job.base + receivedBytes < job.bound
    PROVE  LET q == LinearRanges
               from == job.base + receivedBytes
           IN  /\ GoodRequest(q) /\ Size(q[1]) > 0
               /\ Wanting(q) \subseteq from..(from + (Size(q[1]) + Size(q[2]) + Size(q[3])) - 1)
<1> DEFINE q == LinearRanges
           L == job.base + receivedBytes
           E == EMBLOCK
           B == job.bound
<1>1. L \in Nat /\ E \in Nat \ {0} /\ B \in Nat /\ L < B /\ job.base \in Nat /\ job.base <= L
  BY JobIs DEF BlocksTypeOK
<1>2. /\ q = [i \in Slots |-> q[i]]
      /\ q[1] = [s |-> L, e |-> Capped(L + E, B)]
      /\ q[2] = IF L + E >= B THEN Unused ELSE [s |-> L + E, e |-> Capped(L + E + E, B)]
      /\ q[3] = IF L + E + E >= B THEN Unused ELSE [s |-> L + E + E, e |-> Capped(L + E + E + E, B)]
  <2>1. (1 - 1) * E = 0 /\ (2 - 1) * E = E /\ (3 - 1) * E = E + E
    BY <1>1
  <2>2. L + (1 - 1) * E = L /\ L + (2 - 1) * E = L + E /\ L + (3 - 1) * E = L + E + E
    BY <1>1, <2>1
  <2>3. ~(L >= B)
    BY <1>1
  <2>4. q = [i \in Slots |-> IF L + (i - 1) * E >= B THEN Unused
                             ELSE [s |-> L + (i - 1) * E, e |-> Capped(L + (i - 1) * E + E, B)]]
    BY DEF LinearRanges
  <2> HIDE DEF q, L, E, B
  <2> QED
    BY <2>2, <2>3, <2>4 DEF Slots
<1> HIDE DEF q
<1>3. \A i \in Slots : i = 1 \/ i = 2 \/ i = 3
  BY DEF Slots
<1>4. /\ q[1] \in Pair /\ q[1].s = L /\ q[1].s < q[1].e /\ q[1].e <= B /\ q[1].e <= L + E
      /\ (L + E >= B => q[1].e = B) /\ (L + E < B => q[1].e = L + E)
  BY <1>1, <1>2 DEF Capped, Pair
<1>5. \/ q[2] = Unused /\ L + E >= B
      \/ /\ q[2] \in Pair /\ L + E < B /\ q[2].s = L + E /\ q[2].s < q[2].e /\ q[2].e <= B /\ q[2].e <= L + E + E
         /\ (L + E + E >= B => q[2].e = B) /\ (L + E + E < B => q[2].e = L + E + E)
  BY <1>1, <1>2 DEF Capped, Pair
<1>6. \/ q[3] = Unused /\ L + E + E >= B
      \/ /\ q[3] \in Pair /\ L + E + E < B /\ q[3].s = L + E + E /\ q[3].s < q[3].e /\ q[3].e <= B /\ q[3].e <= L + E + E + E
  BY <1>1, <1>2 DEF Capped, Pair
<1>7. Unused \in Pair /\ Span(Unused) = {} /\ Size(Unused) = 0
  BY DEF Unused, Pair, Span, Size
<1>8. /\ q[1].s \in Nat /\ q[1].e \in Nat
      /\ q[2] \in Pair /\ q[2].s \in Nat /\ q[2].e \in Nat
      /\ q[3] \in Pair /\ q[3].s \in Nat /\ q[3].e \in Nat
  <2>1. q[2] \in Pair /\ q[3] \in Pair
    BY <1>5, <1>6, <1>7
  <2> QED
    BY <1>4, <2>1 DEF Pair
<1> HIDE DEF L, E, B
<1>9. /\ Span(q[1]) = L..(q[1].e - 1)
      /\ Span(q[2]) = {} \/ (Span(q[2]) = (L + E)..(q[2].e - 1) /\ L + E < B)
      /\ Span(q[3]) = {} \/ (Span(q[3]) = (L + E + E)..(q[3].e - 1) /\ L + E + E < B)
  BY <1>4, <1>5, <1>6, <1>7 DEF Span
<1>10. Span(q[1]) \cap Span(q[2]) = {}
  <2> SUFFICES ASSUME NEW o \in Span(q[1]), o \in Span(q[2])
               PROVE  FALSE
    OBVIOUS
  <2>1. o \in L..(q[1].e - 1) /\ o \in (L + E)..(q[2].e - 1)
    BY <1>9
  <2> QED
    BY <1>1, <1>4, <1>8, <2>1
<1>11. Span(q[1]) \cap Span(q[3]) = {}
  <2> SUFFICES ASSUME NEW o \in Span(q[1]), o \in Span(q[3])
               PROVE  FALSE
    OBVIOUS
  <2>1. o \in L..(q[1].e - 1) /\ o \in (L + E + E)..(q[3].e - 1)
    BY <1>9
  <2> QED
    BY <1>1, <1>4, <1>8, <2>1
<1>12. Span(q[2]) \cap Span(q[3]) = {}
  <2> SUFFICES ASSUME NEW o \in Span(q[2]), o \in Span(q[3])
               PROVE  FALSE
    OBVIOUS
  <2>1. o \in (L + E)..(q[2].e - 1) /\ o \in (L + E + E)..(q[3].e - 1)
    BY <1>9
  <2>2. q[2].e <= L + E + E
    BY <1>5, <1>7
  <2> QED
    BY <1>1, <1>8, <2>1, <2>2
<1>13. GoodSlot(q[1]) /\ GoodSlot(q[2]) /\ GoodSlot(q[3])
  <2>1. GoodSlot(q[1])
    BY <1>1, <1>4, <1>8 DEF GoodSlot, E, B
  <2>2. GoodSlot(q[2])
    BY <1>1, <1>5, <1>8 DEF GoodSlot, E, B
  <2>3. GoodSlot(q[3])
    BY <1>1, <1>6, <1>8 DEF GoodSlot, E, B
  <2> QED
    BY <2>1, <2>2, <2>3
<1>14. GoodRequest(q)
  <2>1. \A i, j \in Slots : i # j => Span(q[i]) \cap Span(q[j]) = {}
    BY <1>3, <1>10, <1>11, <1>12
  <2>2. q \in [Slots -> Pair]
    BY <1>2, <1>3, <1>4, <1>8
  <2> QED
    BY <1>3, <1>13, <2>1, <2>2 DEF GoodRequest
<1>15. /\ Size(q[1]) = q[1].e - L /\ Size(q[1]) > 0
       /\ Size(q[2]) = IF q[2] = Unused THEN 0 ELSE q[2].e - (L + E)
       /\ Size(q[3]) = IF q[3] = Unused THEN 0 ELSE q[3].e - (L + E + E)
  BY <1>1, <1>4, <1>5, <1>6, <1>7, <1>8 DEF Size
<1>16. ASSUME NEW o \in Wanting(q)
       PROVE  o \in L..(L + (Size(q[1]) + Size(q[2]) + Size(q[3])) - 1)
  <2>0. Size(q[1]) \in Nat /\ Size(q[2]) \in Nat /\ Size(q[3]) \in Nat
    BY <1>14, WantingSize
  <2>1. o \in Int /\ L <= o
    <3>1. CASE o \in Span(q[1])
      <4>1. o \in L..(q[1].e - 1)
        BY <1>9, <3>1
      <4> QED
        BY <1>1, <1>8, <4>1
    <3>2. CASE o \in Span(q[2])
      <4>1. o \in (L + E)..(q[2].e - 1)
        BY <1>9, <3>2
      <4> QED
        BY <1>1, <1>8, <4>1
    <3>3. CASE o \in Span(q[3])
      <4>1. o \in (L + E + E)..(q[3].e - 1)
        BY <1>9, <3>3
      <4> QED
        BY <1>1, <1>8, <4>1
    <3> QED
      BY <3>1, <3>2, <3>3 DEF Wanting
  <2>2. CASE o \in Span(q[1])
    <3>1. o \in L..(q[1].e - 1) /\ q[1].e - L = Size(q[1])
      BY <1>9, <1>15, <2>2
    <3> QED
      BY <1>1, <1>8, <2>0, <3>1
  <2>3. CASE o \in Span(q[2])
    <3>1. q[2] # Unused /\ L + E < B
      BY <1>5, <1>7, <2>3
    <3>2. o < q[2].e
      <4>1. o \in (L + E)..(q[2].e - 1)
        BY <1>9, <2>3
      <4> QED
        BY <1>1, <1>8, <4>1
    <3>3. Size(q[1]) = E
      BY <1>1, <1>4, <1>15, <3>1
    <3>4. Size(q[2]) = q[2].e - (L + E)
      BY <1>15, <3>1
    <3> QED
      BY <1>1, <1>8, <2>0, <2>1, <3>2, <3>3, <3>4
  <2>4. CASE o \in Span(q[3])
    <3>1. q[3] # Unused /\ L + E + E < B /\ L + E < B
      BY <1>1, <1>6, <1>7, <2>4
    <3>2. q[2] # Unused /\ q[2].e = L + E + E
      <4>1. q[2].s < q[2].e /\ q[2].e <= L + E + E /\ (L + E + E < B => q[2].e = L + E + E)
        BY <1>1, <1>5, <3>1
      <4> QED
        BY <3>1, <4>1 DEF Unused
    <3>3. o < q[3].e
      <4>1. o \in (L + E + E)..(q[3].e - 1)
        BY <1>9, <2>4
      <4> QED
        BY <1>1, <1>8, <4>1
    <3>4. Size(q[1]) = E
      BY <1>1, <1>4, <1>15, <3>1
    <3>5. Size(q[2]) = E
      BY <1>1, <1>15, <3>2
    <3>6. Size(q[3]) = q[3].e - (L + E + E)
      BY <1>15, <3>1
    <3> QED
      BY <1>1, <1>8, <2>0, <2>1, <3>3, <3>4, <3>5, <3>6
  <2> QED
    BY <2>2, <2>3, <2>4 DEF Wanting
<1> QED
  BY <1>14, <1>15, <1>16 DEF q, L

-----------------------------------------------------------------------------
(* The invariant holds at the start and is kept by every step.             *)
LEMMA AskedGrows ==
    ASSUME NEW S, NEW qs \in Seq(S), NEW q, Wanting(q) \subseteq Nat
    PROVE  Asked(Append(qs, q)) = Asked(qs) \cup Wanting(q)
<1>1. /\ Len(qs) \in Nat /\ DOMAIN qs = 1..Len(qs) /\ DOMAIN Append(qs, q) = 1..(Len(qs) + 1)
      /\ \A i \in 1..Len(qs) : Append(qs, q)[i] = qs[i]
      /\ Append(qs, q)[Len(qs) + 1] = q
  OBVIOUS
<1>2. \A i \in 1..(Len(qs) + 1) : i \in 1..Len(qs) \/ i = Len(qs) + 1
  BY <1>1
<1>3. Len(qs) + 1 \in 1..(Len(qs) + 1) /\ 1..Len(qs) \subseteq 1..(Len(qs) + 1)
  BY <1>1
<1> DEFINE r == Append(qs, q)
           n == Len(qs)
<1>4. /\ DOMAIN qs = 1..n /\ DOMAIN r = 1..(n + 1) /\ \A i \in 1..n : r[i] = qs[i]
      /\ r[n + 1] = q
  BY <1>1
<1> HIDE DEF r, n
<1>5. ASSUME NEW o \in Asked(r)
      PROVE  o \in Asked(qs) \cup Wanting(q)
  BY <1>2, <1>4 DEF Asked, n
<1>6. ASSUME NEW o \in Asked(qs)
      PROVE  o \in Asked(r)
  BY <1>3, <1>4 DEF Asked, n
<1>7. ASSUME NEW o \in Wanting(q)
      PROVE  o \in Asked(r)
  BY <1>3, <1>4 DEF Asked, n
<1> QED
  BY <1>5, <1>6, <1>7 DEF r

LEMMA TailIs ==
    ASSUME NEW S, NEW q \in Seq(S), q # <<>>
    PROVE  /\ Tail(q) \in Seq(S) /\ Head(q) = q[1] /\ Head(q) \in S /\ 1 \in DOMAIN q /\ DOMAIN q \subseteq Nat
           /\ \A i \in DOMAIN Tail(q) : i + 1 \in DOMAIN q /\ Tail(q)[i] = q[i + 1] /\ i \in Nat
           /\ \A i \in DOMAIN q : i = 1 \/ (i - 1 \in DOMAIN Tail(q) /\ Tail(q)[i - 1] = q[i] /\ i > 1)
<1>1. Tail(q) \in Seq(S) /\ Len(Tail(q)) = Len(q) - 1 /\ Len(q) \in Nat \ {0} /\ Head(q) = q[1]
  OBVIOUS
<1>2. \A i \in 1..Len(Tail(q)) : Tail(q)[i] = q[i + 1]
  BY <1>1
<1>3. DOMAIN q = 1..Len(q) /\ DOMAIN Tail(q) = 1..(Len(q) - 1)
  BY <1>1
<1>4. 1 \in DOMAIN q /\ q[1] \in S
  BY <1>1, <1>3
<1>5. ASSUME NEW i \in DOMAIN q, i # 1
      PROVE  i - 1 \in DOMAIN Tail(q) /\ Tail(q)[i - 1] = q[i] /\ i > 1
  <2>1. i - 1 \in 1..(Len(q) - 1) /\ (i - 1) + 1 = i /\ i > 1
    BY <1>1, <1>3, <1>5
  <2> QED
    BY <1>1, <1>2, <1>3, <2>1
<1> QED
  BY <1>1, <1>2, <1>3, <1>4, <1>5

LEMMA AskedTail ==
    ASSUME NEW S, NEW qs \in Seq(S), qs # <<>>
    PROVE  /\ Asked(Tail(qs)) \subseteq Asked(qs)
           /\ Wanting(Head(qs)) \subseteq Nat => Asked(qs) = Wanting(Head(qs)) \cup Asked(Tail(qs))
<1> DEFINE t == Tail(qs)
<1>1. /\ Head(qs) = qs[1] /\ 1 \in DOMAIN qs
      /\ \A i \in DOMAIN t : i + 1 \in DOMAIN qs /\ t[i] = qs[i + 1]
      /\ \A i \in DOMAIN qs : i = 1 \/ (i - 1 \in DOMAIN t /\ t[i - 1] = qs[i])
  BY TailIs
<1> HIDE DEF t
<1>2. Asked(t) \subseteq Asked(qs)
  BY <1>1 DEF Asked
<1>3. \A o \in Asked(qs) : o \in Wanting(Head(qs)) \/ o \in Asked(t)
  BY <1>1 DEF Asked
<1>4. Wanting(Head(qs)) \subseteq Nat => Wanting(Head(qs)) \subseteq Asked(qs)
  BY <1>1 DEF Asked
<1> QED
  BY <1>2, <1>3, <1>4 DEF t

LEMMA CoverTail ==
    ASSUME NEW q \in Seq(SubPackets), q # <<>>
    PROVE  Cover(q) = Region(Head(q)) \cup Cover(Tail(q))
<1> DEFINE t == Tail(q)
<1>1. /\ Head(q) = q[1] /\ 1 \in DOMAIN q
      /\ \A i \in DOMAIN t : i + 1 \in DOMAIN q /\ t[i] = q[i + 1]
      /\ \A i \in DOMAIN q : i = 1 \/ (i - 1 \in DOMAIN t /\ t[i - 1] = q[i])
  BY TailIs
<1>2. Region(q[1]) \subseteq Cover(q)
  BY <1>1, RegionCovered
<1> HIDE DEF t
<1>3. Cover(t) \subseteq Cover(q)
  BY <1>1 DEF Cover
<1>4. \A o \in Cover(q) : o \in Region(q[1]) \/ o \in Cover(t)
  BY <1>1 DEF Cover
<1> QED
  BY <1>1, <1>2, <1>3, <1>4 DEF t

LEMMA BlocksInvInit ==
    ASSUME BlocksAssumption, BlocksInit
    PROVE  BlocksInv
<1>0. job \in Jobs /\ job.size \in Nat /\ job.base \in Nat /\ job.bound \in Nat
  BY JobIs DEF BlocksInit
<1>1. DOMAIN pendingCompressed = {} /\ DOMAIN packets = {} /\ DOMAIN partRequests = {} /\ DOMAIN file = 0..(job.size - 1)
  BY DEF BlocksInit
<1>2. /\ packets \in Seq(SubPackets) /\ partRequests \in Seq([Slots -> Pair])
      /\ file \in [0..(job.size - 1) -> Int] /\ \A o \in DOMAIN file : file[o] = -1
  BY DEF BlocksInit
<1>3. BlocksTypeOK
  <2>1. \A k \in DOMAIN pendingCompressed :
           k \in Nat \X Nat /\ pendingCompressed[k] \in Seq(Nat \X Nat \X Nat) /\ pendingCompressed[k] # <<>>
    BY <1>1
  <2>2. /\ pc = "ask" /\ receivedBytes = 0 /\ receivedBlocks = 0 /\ expectedBytes = 0 /\ outOfPartRetries = 0
        /\ issuedRanges = {} /\ rewritten = FALSE
    BY DEF BlocksInit
  <2>3. /\ pc \in {"ask", "read", "done", "failed"} /\ issuedRanges \subseteq Pair
        /\ receivedBytes \in Nat /\ receivedBlocks \in Nat /\ expectedBytes \in Int /\ outOfPartRetries \in Nat
    BY <2>2
  <2>4. rewritten \in BOOLEAN
    BY <2>2, Zenon
  <2> QED
    BY <1>0, <1>2, <2>1, <2>3, <2>4, Zenon DEF BlocksTypeOK
<1>4. Placed
  BY <1>1, <1>2 DEF Placed, BlocksInit
<1>5. Running
  BY <1>1 DEF Running, Ordered
<1>6. Asked(partRequests) = {} /\ Cover(packets) = {} /\ Held = {} /\ Filled = {}
  BY <1>1, <1>2 DEF Asked, Cover, Held, Filled
<1>7. Separate
  BY <1>1, <1>6 DEF Separate
<1>8. Accounted
  BY <1>6, FS_EmptySet DEF Accounted, BlocksInit
<1>9. Balanced
  <2>1. Asked(partRequests) \cup Cover(packets) = {}
    BY <1>6
  <2>2. Cardinality(Asked(partRequests) \cup Cover(packets)) = 0
    BY <2>1, FS_EmptySet
  <2> QED
    BY <1>1, <2>2 DEF Balanced, Complete, BlocksInit
<1> QED
  BY <1>3, <1>4, <1>5, <1>7, <1>8, <1>9 DEF BlocksInv

(* What does not change.                                                   *)
LEMMA RunningStays ==
    ASSUME Running, UNCHANGED <<pendingCompressed, packets>>
    PROVE  Running'
<1>1. \A k \in DOMAIN pendingCompressed : Stretch(k)'
  BY DEF Running, Stretch
<1>2. \A i \in DOMAIN packets : Begins(packets[i]) \/ Led(packets, i) \/ Resumes(packets[i])'
  BY DEF Running, Resumes
<1>3. \A k \in DOMAIN pendingCompressed : \A i \in DOMAIN packets :
          Region(packets[i]) \cap HeldSpan(k)' = {} \/ Fits(packets[i], k)'
  BY DEF Running, HeldSpan, Fits
<1> QED
  BY <1>1, <1>2, <1>3 DEF Running

LEMMA SeparateStays ==
    ASSUME Separate, UNCHANGED <<job, receivedBytes, expectedBytes, issuedRanges, pendingCompressed, partRequests, packets, file>>
    PROVE  Separate'
<1>1. Held' = Held /\ Filled' = Filled /\ Territory' = Territory
  BY DEF Held, HeldSpan, Filled, Territory
<1> QED
  BY <1>1 DEF Separate

(* A transfer that is over.                                                *)
LEMMA OverKept ==
    ASSUME BlocksAssumption, BlocksInv, pc' = "done",
           UNCHANGED <<job, receivedBytes, receivedBlocks, expectedBytes, outOfPartRetries, issuedRanges,
                       pendingCompressed, partRequests, packets, file, rewritten>>
    PROVE  BlocksInv'
<1>1. BlocksTypeOK'
  BY DEF BlocksInv, BlocksTypeOK
<1>2. Placed'
  BY DEF BlocksInv, Placed, GoodRequest, GoodSlot, Window
<1>3. ASSUME job.selector \/ job.server = "amuled"
      PROVE  Running' /\ Separate' /\ Accounted'
  <2>1. Running' /\ Separate'
    BY <1>3, RunningStays, SeparateStays DEF BlocksInv
  <2>2. Accounted'
    BY <1>3 DEF BlocksInv, Accounted, Filled
  <2> QED
    BY <2>1, <2>2
<1>4. ASSUME job.server = "amuled"
      PROVE  Balanced'
  BY <1>4 DEF BlocksInv, Balanced
<1> QED
  BY <1>1, <1>2, <1>3, <1>4 DEF BlocksInv

(* A request is sent.                                                      *)
LEMMA AskingKept ==
    ASSUME BlocksAssumption, BlocksInv, pc = "ask", ~Finished,
           NEW q \in IF job.selector THEN SelectedRanges ELSE {LinearRanges}, q[1] # Unused,
           pc' = "read", partRequests' = Append(partRequests, BuildRequestParts(q)),
           expectedBytes' = Size(q[1]) + Size(q[2]) + Size(q[3]),
           issuedRanges' = IF job.selector THEN (issuedRanges \cup {q[i] : i \in Slots}) \ {Unused} ELSE issuedRanges,
           UNCHANGED <<job, receivedBytes, receivedBlocks, outOfPartRetries, pendingCompressed, packets, file, rewritten>>
    PROVE  BlocksInv'
<1>0. /\ BlocksTypeOK /\ Placed /\ job \in Jobs /\ job.selector \in BOOLEAN /\ job.base \in Nat /\ job.bound \in Nat
      /\ receivedBytes \in Nat
  BY JobIs DEF BlocksInv, BlocksTypeOK
<1>1. job.base + receivedBytes < job.bound
  BY <1>0 DEF Finished
<1>2. GoodRequest(q) /\ Size(q[1]) > 0
  <2>1. CASE job.selector
    BY <1>0, <2>1, SelectedGood
  <2>2. CASE ~job.selector
    BY <1>0, <1>1, <2>2, LinearGood
  <2> QED
    BY <2>1, <2>2
<1>3. partRequests' = Append(partRequests, q)
  BY <1>0, <1>2, RequestExact
<1>4. /\ IsFiniteSet(Wanting(q)) /\ Cardinality(Wanting(q)) = expectedBytes' /\ expectedBytes' \in Nat \ {0}
      /\ Wanting(q) \subseteq job.base..(job.bound - 1) /\ Wanting(q) \subseteq Nat
  <2>1. /\ IsFiniteSet(Wanting(q)) /\ Cardinality(Wanting(q)) = Size(q[1]) + Size(q[2]) + Size(q[3])
        /\ Size(q[1]) \in Nat /\ Size(q[2]) \in Nat /\ Size(q[3]) \in Nat
    BY <1>2, WantingSize
  <2>2. Wanting(q) \subseteq job.base..(job.bound - 1) /\ Wanting(q) \subseteq Nat
    BY <1>0, <1>2, WantingInside
  <2> QED
    BY <1>2, <2>1, <2>2
<1>5. /\ q \in [Slots -> Pair] /\ partRequests' \in Seq([Slots -> Pair])
      /\ DOMAIN partRequests = 1..Len(partRequests) /\ Len(partRequests) \in Nat
      /\ DOMAIN partRequests' = 1..(Len(partRequests) + 1)
      /\ \A i \in DOMAIN partRequests' :
            (i \in DOMAIN partRequests /\ partRequests'[i] = partRequests[i])
            \/ (i = Len(partRequests) + 1 /\ i \notin DOMAIN partRequests /\ partRequests'[i] = q)
  <2>1. q \in [Slots -> Pair] /\ partRequests \in Seq([Slots -> Pair])
    BY <1>0, <1>2 DEF GoodRequest, BlocksTypeOK
  <2> QED
    BY <1>3, <2>1
<1>6. /\ issuedRanges' \subseteq Pair
      /\ \A w \in issuedRanges' : \E k \in Nat : w = Window(k) /\ job.base + k * EMBLOCK < job.bound
  <2>1. CASE job.selector
    <3>1. \A i \in Slots : q[i] \in Pair
      BY <1>5
    <3>2. \A i \in Slots : q[i] # Unused => \E k \in Nat : q[i] = Window(k) /\ job.base + k * EMBLOCK < job.bound
      BY <1>0, <2>1, SelectedGood
    <3>3. \A w \in issuedRanges' : w \in issuedRanges \/ \E i \in Slots : w = q[i] /\ q[i] # Unused
      BY <2>1
    <3>4. issuedRanges \subseteq Pair /\ \A w \in issuedRanges : \E k \in Nat : w = Window(k) /\ job.base + k * EMBLOCK < job.bound
      BY <1>0 DEF BlocksTypeOK, Placed
    <3> QED
      BY <3>1, <3>2, <3>3, <3>4
  <2>2. CASE ~job.selector
    BY <1>0, <2>2 DEF BlocksTypeOK, Placed
  <2> QED
    BY <2>1, <2>2
<1>7. BlocksTypeOK'
  BY <1>0, <1>4, <1>5, <1>6 DEF BlocksTypeOK
<1>8. Placed'
  <2>1. \A i \in DOMAIN partRequests' : GoodRequest(partRequests'[i])
    BY <1>0, <1>2, <1>5 DEF Placed
  <2>2. \A r : GoodRequest(r)' <=> GoodRequest(r)
    BY DEF GoodRequest, GoodSlot
  <2>3. \A i \in DOMAIN partRequests' : GoodRequest(partRequests[i])'
    BY <2>1, <2>2
  <2>4. \A k : Window(k)' = Window(k)
    BY DEF Window
  <2> QED
    BY <1>0, <1>6, <2>3, <2>4 DEF Placed
<1>9. Asked(partRequests') = Asked(partRequests) \cup Wanting(q)
  BY <1>0, <1>3, <1>4, AskedGrows DEF BlocksTypeOK
<1>10. ASSUME job.selector \/ job.server = "amuled"
       PROVE  Running' /\ Separate' /\ Accounted'
  <2>0. Running /\ Separate /\ Accounted /\ (job.server = "amuled" => Balanced)
    BY <1>10 DEF BlocksInv
  <2>1. Running'
    BY <2>0, RunningStays
  <2>2. Accounted'
    BY <2>0 DEF Accounted, Filled
  <2>3. Wanting(q) \cap Territory = {} /\ Territory \cup Wanting(q) \subseteq Territory'
    <3>1. CASE job.selector
      <4>1. Wanting(q) \cap Territory = {}
        BY <1>0, <3>1, SelectedNew
      <4>2. \A w \in issuedRanges : w \in issuedRanges'
        <5>1. \A w \in issuedRanges : w # Unused
          <6> SUFFICES ASSUME NEW w \in issuedRanges
                       PROVE  w # Unused
            OBVIOUS
          <6>1. PICK k \in Nat : w = Window(k) /\ job.base + k * EMBLOCK < job.bound
            BY <1>0 DEF Placed
          <6> QED
            BY <1>0, <6>1, WindowGood
        <5> QED
          BY <3>1, <5>1
      <4>3. \A i \in Slots : q[i] \in issuedRanges' \/ Span(q[i]) = {}
        <5>1. Span(Unused) = {}
          BY DEF Span, Unused
        <5> QED
          BY <3>1, <5>1
      <4>4. Territory \subseteq Territory'
        BY <3>1, <4>2 DEF Territory
      <4>5. Wanting(q) \subseteq Territory'
        BY <1>4, <3>1, <4>3 DEF Territory, Wanting, Slots
      <4> QED
        BY <4>1, <4>4, <4>5
    <3>2. CASE ~job.selector
      <4>1. expectedBytes = 0 /\ q = LinearRanges
        BY <1>10, <2>0, <3>2 DEF Balanced
      <4> DEFINE from == job.base + receivedBytes
      <4>2. Wanting(q) \subseteq from..(from + expectedBytes' - 1)
        BY <1>0, <1>1, <4>1, LinearGood
      <4>3. Territory = job.base..(from - 1) /\ Territory' = job.base..(from + expectedBytes' - 1)
        BY <1>0, <3>2, <4>1 DEF Territory
      <4>4. from \in Nat /\ job.base <= from
        BY <1>0
      <4> HIDE DEF from
      <4> QED
        BY <1>0, <1>4, <4>2, <4>3, <4>4
    <3> QED
      BY <3>1, <3>2
  <2>4. Held' = Held /\ Filled' = Filled
    BY DEF Held, HeldSpan, Filled
  <2>5. Separate'
    <3>1. Asked(partRequests) \cup Cover(packets) \cup Held \cup Filled \subseteq Territory
      BY <2>0 DEF Separate
    <3>2. Asked(partRequests') \cap Cover(packets) = {} /\ Asked(partRequests') \cap Held = {}
          /\ (Asked(partRequests') \cup Cover(packets)) \cap Filled = {}
      BY <1>9, <2>0, <2>3, <3>1 DEF Separate
    <3>3. Asked(partRequests') \cup Cover(packets) \cup Held \cup Filled \subseteq Territory'
      BY <1>9, <2>3, <3>1
    <3>4. Asked(partRequests') \cup Cover(packets) \cup Filled \subseteq job.base..(job.bound - 1)
      BY <1>4, <1>9, <2>0 DEF Separate
    <3>5. \A i \in DOMAIN partRequests : Wanting(partRequests[i]) \cap Wanting(q) = {}
      <4> SUFFICES ASSUME NEW i \in DOMAIN partRequests, NEW o \in Wanting(partRequests[i]), o \in Wanting(q)
                   PROVE  FALSE
        OBVIOUS
      <4>1. o \in Asked(partRequests)
        BY <1>4 DEF Asked
      <4> QED
        BY <2>3, <3>1, <4>1
    <3>6. \A i, j \in DOMAIN partRequests' : i # j => Wanting(partRequests'[i]) \cap Wanting(partRequests'[j]) = {}
      <4> SUFFICES ASSUME NEW i \in DOMAIN partRequests', NEW j \in DOMAIN partRequests', i # j
                   PROVE  Wanting(partRequests'[i]) \cap Wanting(partRequests'[j]) = {}
        OBVIOUS
      <4>1. CASE i \in DOMAIN partRequests /\ j \in DOMAIN partRequests
        BY <1>5, <2>0, <4>1 DEF Separate
      <4>2. CASE i \in DOMAIN partRequests /\ j \notin DOMAIN partRequests
        BY <1>5, <3>5, <4>2
      <4>3. CASE i \notin DOMAIN partRequests /\ j \in DOMAIN partRequests
        BY <1>5, <3>5, <4>3
      <4> QED
        BY <1>5, <4>1, <4>2, <4>3
    <3> QED
      BY <2>4, <3>2, <3>3, <3>4, <3>6 DEF Separate
  <2> QED
    BY <2>1, <2>2, <2>5
<1>11. ASSUME job.server = "amuled"
       PROVE  Balanced'
  <2>0. Balanced
    BY <1>11 DEF BlocksInv
  <2>1. Cardinality(Asked(partRequests) \cup Cover(packets)) = 0
    BY <2>0 DEF Balanced
  <2>2. Asked(partRequests) \cup Cover(packets) = {}
    <3>1. IsFiniteSet(Asked(partRequests) \cup Cover(packets))
      <4>1. Asked(partRequests) \cup Cover(packets) \in SUBSET (job.base..(job.bound - 1))
        BY <1>11 DEF BlocksInv, Separate
      <4>2. IsFiniteSet(job.base..(job.bound - 1))
        <5>1. job.base \in Int /\ job.bound - 1 \in Int
          BY <1>0
        <5> QED
          BY <5>1, FS_Interval
      <4> QED
        BY <4>1, <4>2, FS_Subset
    <3> QED
      BY <2>1, <3>1, FS_EmptySet
  <2>3. Asked(partRequests') \cup Cover(packets) = Wanting(q)
    BY <1>9, <2>2
  <2> QED
    BY <1>4, <2>0, <2>3 DEF Balanced
<1> QED
  BY <1>7, <1>8, <1>10, <1>11 DEF BlocksInv

(* A request is answered, or the beginning of the answer is sent.          *)
LEMMA SendingKept ==
    ASSUME BlocksAssumption, BlocksInv, partRequests # <<>>,
           NEW sent \in Seq(SubPackets), Orderly(sent), Cover(sent) \subseteq Wanting(Head(partRequests)),
           job.server = "amuled" => Answer(sent, Wanting(Head(partRequests))),
           partRequests' = Tail(partRequests), packets' = packets \o sent,
           UNCHANGED <<job, pc, receivedBytes, receivedBlocks, expectedBytes, outOfPartRetries, issuedRanges,
                       pendingCompressed, file, rewritten>>
    PROVE  BlocksInv'
<1> DEFINE h == Head(partRequests)
           Requests == [Slots -> Pair]
<1>0. /\ BlocksTypeOK /\ Placed /\ job \in Jobs /\ packets \in Seq(SubPackets) /\ partRequests \in Seq(Requests)
  BY DEF BlocksInv, BlocksTypeOK
<1>1. /\ partRequests' \in Seq(Requests) /\ h = partRequests[1] /\ 1 \in DOMAIN partRequests
      /\ \A i \in DOMAIN partRequests' : i + 1 \in DOMAIN partRequests /\ partRequests'[i] = partRequests[i + 1] /\ i \in Nat
  BY <1>0, TailIs
<1>2. GoodRequest(h) /\ Wanting(h) \subseteq Nat
  <2>1. GoodRequest(h)
    BY <1>0, <1>1 DEF Placed
  <2> QED
    BY <1>0, <2>1, WantingInside
<1>3. /\ packets' \in Seq(SubPackets) /\ Cover(packets') = Cover(packets) \cup Cover(sent)
      /\ \A i \in DOMAIN packets' : Sound(packets'[i])
  <2>1. Cover(packets') = Cover(packets) \cup Cover(sent)
    BY <1>0, CoverJoins
  <2>2. \A i \in DOMAIN packets' : Sound(packets'[i])
    BY <1>0, SoundJoins DEF Placed, Orderly
  <2> QED
    BY <1>0, <2>1, <2>2
<1>4. Asked(partRequests) = Wanting(h) \cup Asked(partRequests')
  BY <1>0, <1>2, AskedTail
<1>5. BlocksTypeOK'
  BY <1>0, <1>1, <1>3 DEF BlocksTypeOK
<1>6. Placed'
  <2>1. \A i \in DOMAIN partRequests' : GoodRequest(partRequests'[i])
    BY <1>0, <1>1 DEF Placed
  <2>2. \A r : GoodRequest(r)' <=> GoodRequest(r)
    BY DEF GoodRequest, GoodSlot
  <2>3. \A i \in DOMAIN partRequests' : GoodRequest(partRequests[i])'
    BY <2>1, <2>2
  <2>4. \A k : Window(k)' = Window(k)
    BY DEF Window
  <2> QED
    BY <1>0, <1>3, <2>3, <2>4 DEF Placed
<1> HIDE DEF h
<1>7. ASSUME job.selector \/ job.server = "amuled"
      PROVE  Running' /\ Separate' /\ Accounted'
  <2>0. Running /\ Separate /\ Accounted
    BY <1>7 DEF BlocksInv
  <2>1. Held' = Held /\ Filled' = Filled /\ Territory' = Territory
    BY DEF Held, HeldSpan, Filled, Territory
  <2>2. Asked(partRequests') \cap Wanting(h) = {}
    <3> SUFFICES ASSUME NEW o \in Asked(partRequests'), o \in Wanting(h)
                 PROVE  FALSE
      OBVIOUS
    <3>1. PICK i \in DOMAIN partRequests' : o \in Wanting(partRequests'[i])
      BY DEF Asked
    <3>2. i + 1 \in DOMAIN partRequests /\ partRequests'[i] = partRequests[i + 1] /\ i + 1 # 1
      BY <1>1
    <3> QED
      BY <1>1, <2>0, <3>1, <3>2 DEF Separate
  <2>3. Separate'
    <3>1. Cover(sent) \subseteq Asked(partRequests) /\ Asked(partRequests') \subseteq Asked(partRequests)
      BY <1>4 DEF h
    <3>2. Asked(partRequests') \cap Cover(packets') = {}
      BY <1>3, <1>4, <2>0, <2>2, <3>1 DEF Separate, h
    <3>3. \A i, j \in DOMAIN partRequests' : i # j => Wanting(partRequests'[i]) \cap Wanting(partRequests'[j]) = {}
      <4> SUFFICES ASSUME NEW i \in DOMAIN partRequests', NEW j \in DOMAIN partRequests', i # j
                   PROVE  Wanting(partRequests'[i]) \cap Wanting(partRequests'[j]) = {}
        OBVIOUS
      <4>1. i + 1 \in DOMAIN partRequests /\ j + 1 \in DOMAIN partRequests /\ i + 1 # j + 1
            /\ partRequests'[i] = partRequests[i + 1] /\ partRequests'[j] = partRequests[j + 1]
        BY <1>1
      <4> QED
        BY <2>0, <4>1 DEF Separate
    <3>4. Asked(partRequests') \cup Cover(packets') \subseteq Asked(partRequests) \cup Cover(packets)
      BY <1>3, <3>1
    <3> QED
      BY <2>0, <2>1, <3>1, <3>2, <3>3, <3>4 DEF Separate
  <2>4. Accounted'
    BY <2>0, <2>1 DEF Accounted
  <2>5. Cover(packets) \cap Cover(sent) = {} /\ Held \cap Cover(sent) = {}
    BY <1>4, <2>0 DEF Separate, h
  <2>6. Ordered(packets')
    BY <1>0, <2>0, <2>5, OrderJoins DEF Running, Orderly
  <2>7. ASSUME NEW i \in DOMAIN packets'
        PROVE  Begins(packets'[i]) \/ Led(packets', i) \/ Resumes(packets'[i])
    <3>1. /\ \A k \in DOMAIN packets : packets'[k] = packets[k]
          /\ i \in DOMAIN packets \/ (i - Len(packets) \in DOMAIN sent /\ packets'[i] = sent[i - Len(packets)])
          /\ i \in Int /\ Len(packets) \in Nat
      BY <1>0, EndToEnd
    <3>2. /\ \A k \in DOMAIN packets : Led(packets, k) => Led(packets', k)
          /\ \A k \in DOMAIN sent : Led(sent, k) => Led(packets', Len(packets) + k)
      BY <1>0, LedJoins
    <3>3. CASE i \in DOMAIN packets
      BY <2>0, <3>1, <3>2, <3>3 DEF Running
    <3>4. CASE i \notin DOMAIN packets
      <4>1. i - Len(packets) \in DOMAIN sent /\ packets'[i] = sent[i - Len(packets)] /\ Len(packets) + (i - Len(packets)) = i
        BY <3>1, <3>4
      <4>2. Begins(sent[i - Len(packets)]) \/ Led(sent, i - Len(packets))
        BY <4>1 DEF Orderly
      <4> QED
        BY <3>2, <4>1, <4>2
    <3> QED
      BY <3>3, <3>4
  <2>8. \A p : (Resumes(p)' <=> Resumes(p)) /\ \A k : (Fits(p, k)' <=> Fits(p, k))
    BY DEF Resumes, Fits
  <2>9. \A k : (Stretch(k)' <=> Stretch(k)) /\ HeldSpan(k)' = HeldSpan(k)
    BY DEF Stretch, HeldSpan
  <2>10. ASSUME NEW k \in DOMAIN pendingCompressed, NEW i \in DOMAIN packets'
         PROVE  Region(packets'[i]) \cap HeldSpan(k) = {} \/ Fits(packets'[i], k)
    <3>1. /\ i \in DOMAIN packets => packets'[i] = packets[i]
          /\ i \in DOMAIN packets \/ (i - Len(packets) \in DOMAIN sent /\ packets'[i] = sent[i - Len(packets)])
      BY <1>0, EndToEnd
    <3>2. CASE i \in DOMAIN packets
      BY <2>0, <3>1, <3>2 DEF Running
    <3>3. CASE i \notin DOMAIN packets
      <4>1. i - Len(packets) \in DOMAIN sent /\ packets'[i] = sent[i - Len(packets)]
        BY <3>1, <3>3
      <4>2. Region(packets'[i]) \subseteq Cover(sent) /\ Region(packets'[i]) \subseteq Nat
        BY <4>1, RegionCovered
      <4>3. HeldSpan(k) \cap Nat \subseteq Held
        BY DEF Held
      <4> QED
        BY <2>5, <4>2, <4>3
    <3> QED
      BY <3>2, <3>3
  <2>11. Running'
    <3>1. \A k \in DOMAIN pendingCompressed : Stretch(k)
      BY <2>0 DEF Running
    <3>2. \A i \in DOMAIN packets' : Begins(packets'[i]) \/ Led(packets', i) \/ Resumes(packets[i])'
      BY <2>7, <2>8
    <3>3. \A k \in DOMAIN pendingCompressed : \A i \in DOMAIN packets' :
             Region(packets'[i]) \cap HeldSpan(k)' = {} \/ Fits(packets[i], k)'
      BY <2>8, <2>9, <2>10
    <3>4. \A k \in DOMAIN pendingCompressed : Stretch(k)'
      BY <2>9, <3>1
    <3> QED
      BY <2>6, <3>2, <3>3, <3>4 DEF Running
  <2> QED
    BY <2>3, <2>4, <2>11
<1>8. ASSUME job.server = "amuled"
      PROVE  Balanced'
  <2>0. Balanced /\ Answer(sent, Wanting(h))
    BY <1>8 DEF BlocksInv, h
  <2>1. Complete(packets')
    BY <1>0, <2>0, CompleteJoins DEF Balanced, Answer
  <2>2. \A i \in DOMAIN packets' : packets'[i].op \notin Marks
    <3>1. /\ \A i \in DOMAIN packets : packets'[i] = packets[i]
          /\ \A i \in DOMAIN packets' : i \in DOMAIN packets \/ (i - Len(packets) \in DOMAIN sent /\ packets'[i] = sent[i - Len(packets)])
      BY <1>0, EndToEnd
    <3> QED
      BY <2>0, <3>1 DEF Balanced, Answer
  <2>3. Asked(partRequests') \cup Cover(packets') = Asked(partRequests) \cup Cover(packets)
    BY <1>3, <1>4, <2>0 DEF Answer
  <2> QED
    BY <2>0, <2>1, <2>2, <2>3 DEF Balanced
<1> QED
  BY <1>5, <1>6, <1>7, <1>8 DEF BlocksInv

LEMMA ServeKept ==
    ASSUME BlocksAssumption, BlocksInv, Serve
    PROVE  BlocksInv'
<1>1. PICK sent \in HandleRequestParts(Head(partRequests)) : packets' = packets \o sent
  BY DEF Serve
<1>2. job \in Jobs /\ partRequests # <<>> /\ GoodRequest(Head(partRequests))
  <2>1. partRequests \in Seq([Slots -> Pair]) /\ partRequests # <<>>
    BY DEF Serve, Answering, BlocksInv, BlocksTypeOK
  <2>2. Head(partRequests) = partRequests[1] /\ 1 \in DOMAIN partRequests
    BY <2>1, TailIs
  <2> QED
    BY <2>1, <2>2 DEF BlocksInv, BlocksTypeOK, Placed
<1>3. Answer(sent, Wanting(Head(partRequests)))
  BY <1>2, RequestAnswered
<1>4. sent \in Seq(SubPackets) /\ Orderly(sent) /\ Cover(sent) \subseteq Wanting(Head(partRequests))
  BY <1>3 DEF Answer
<1> QED
  BY <1>1, <1>2, <1>3, <1>4, SendingKept DEF Serve, Answering

LEMMA ServeBrieflyKept ==
    ASSUME BlocksAssumption, BlocksInv, ServeBriefly
    PROVE  BlocksInv'
<1> DEFINE Lasts == {<<>>} \cup {<<[op |-> op]>> : op \in {"outofparts", "rank", "end"}}
<1>0. PICK sent \in HandleRequestParts(Head(partRequests)) :
         \E k \in 0..Len(sent), last \in Lasts : packets' = packets \o (SubSeq(sent, 1, k) \o last)
  BY DEF ServeBriefly
<1>1. PICK k \in 0..Len(sent), last \in Lasts : packets' = packets \o (SubSeq(sent, 1, k) \o last)
  BY <1>0
<1>2. job \in Jobs /\ partRequests # <<>> /\ GoodRequest(Head(partRequests))
  <2>1. partRequests \in Seq([Slots -> Pair]) /\ partRequests # <<>>
    BY DEF ServeBriefly, Answering, BlocksInv, BlocksTypeOK
  <2>2. Head(partRequests) = partRequests[1] /\ 1 \in DOMAIN partRequests
    BY <2>1, TailIs
  <2> QED
    BY <2>1, <2>2 DEF BlocksInv, BlocksTypeOK, Placed
<1>3. Answer(sent, Wanting(Head(partRequests)))
  BY <1>2, RequestAnswered
<1> DEFINE p == SubSeq(sent, 1, k)
<1>4. p \in Seq(SubPackets) /\ Orderly(p) /\ Cover(p) \subseteq Wanting(Head(partRequests))
  BY <1>3, AnswerCut DEF Answer
<1>5. last \in Seq(SubPackets) /\ Orderly(last) /\ Cover(last) = {}
  <2>1. CASE last = <<>>
    BY <2>1 DEF Orderly, Ordered, Cover
  <2>2. CASE last # <<>>
    <3>1. PICK op \in Marks : last = <<[op |-> op]>>
      BY <1>1, <2>2 DEF Marks
    <3>2. [op |-> op] \in SubPackets
      BY DEF SubPackets
    <3>3. last \in Seq(SubPackets) /\ DOMAIN last = {1} /\ last[1] = [op |-> op] /\ last[1].op = op
      BY <3>1, <3>2
    <3>4. op # "part" /\ op # "packed"
      BY DEF Marks
    <3>5. Region(last[1]) = {} /\ Sound(last[1]) /\ Begins(last[1])
      BY <3>3, <3>4 DEF Region, Sound, Begins
    <3> QED
      BY <3>3, <3>5 DEF Orderly, Ordered, Cover
  <2> QED
    BY <2>1, <2>2
<1> HIDE DEF p
<1>6. p \o last \in Seq(SubPackets) /\ Orderly(p \o last) /\ Cover(p \o last) \subseteq Wanting(Head(partRequests))
  <2>1. Cover(p) \cap Cover(last) = {}
    BY <1>5
  <2>2. Orderly(p \o last)
    BY <1>4, <1>5, <2>1, OrderlyJoins
  <2>3. Cover(p \o last) = Cover(p) \cup Cover(last)
    BY <1>4, <1>5, CoverJoins
  <2> QED
    BY <1>4, <1>5, <2>2, <2>3
<1>7. packets' = packets \o (p \o last)
  BY <1>1 DEF p
<1>8. job.server # "amuled"
  BY DEF ServeBriefly
<1> QED
  BY <1>2, <1>6, <1>7, <1>8, SendingKept DEF ServeBriefly, Answering

(* What is still on its way when a packet has been taken off the wire.     *)
LEMMA Rest ==
    ASSUME BlocksTypeOK, Running, packets # <<>>
    PROVE  LET h == Head(packets) t == Tail(packets) IN
           /\ Ordered(t) /\ (Begins(h) \/ Resumes(h))
           /\ \A i \in DOMAIN t : After(t[i], h)
           /\ \A i \in DOMAIN t :
                 Begins(t[i]) \/ Led(t, i) \/ (SameBlock(h, t[i]) /\ To(h) = From(t[i])) \/ Resumes(t[i])
           /\ \A k \in DOMAIN pendingCompressed : \A i \in DOMAIN t :
                 Region(t[i]) \cap HeldSpan(k) = {} \/ Fits(t[i], k)
<1> DEFINE h == Head(packets)
           t == Tail(packets)
<1>1. /\ h = packets[1] /\ 1 \in DOMAIN packets /\ DOMAIN packets \subseteq Nat
      /\ \A i \in DOMAIN t : i + 1 \in DOMAIN packets /\ t[i] = packets[i + 1] /\ i \in Nat
      /\ \A i \in DOMAIN packets : i = 1 \/ (i - 1 \in DOMAIN t /\ t[i - 1] = packets[i] /\ i > 1)
      /\ \A i \in DOMAIN packets : i >= 1
  <2>1. packets \in Seq(SubPackets)
    BY DEF BlocksTypeOK
  <2>2. \A i \in DOMAIN packets : i >= 1
    BY <2>1
  <2> QED
    BY <2>1, <2>2, TailIs
<1> HIDE DEF h, t
<1>2. Ordered(t)
  <2> SUFFICES ASSUME NEW i \in DOMAIN t, NEW j \in DOMAIN t, i < j
               PROVE  After(t[j], t[i])
    BY DEF Ordered
  <2>1. i + 1 < j + 1
    BY <1>1
  <2> QED
    BY <1>1, <2>1 DEF Running, Ordered
<1>3. Begins(h) \/ Resumes(h)
  <2>1. ~Led(packets, 1)
    BY <1>1 DEF Led
  <2> QED
    BY <1>1, <2>1 DEF Running
<1>4. ASSUME NEW i \in DOMAIN t
      PROVE  After(t[i], h)
  <2>1. 1 < i + 1
    <3>1. t \in Seq(SubPackets)
      BY DEF BlocksTypeOK, t
    <3> QED
      BY <3>1
  <2> QED
    BY <1>1, <2>1 DEF Running, Ordered
<1>5. ASSUME NEW i \in DOMAIN t
      PROVE  Begins(t[i]) \/ Led(t, i) \/ (SameBlock(h, t[i]) /\ To(h) = From(t[i])) \/ Resumes(t[i])
  <2>1. i + 1 \in DOMAIN packets /\ t[i] = packets[i + 1] /\ i \in Nat
    BY <1>1
  <2>2. CASE Led(packets, i + 1)
    <3>1. PICK j \in DOMAIN packets : j < i + 1 /\ SameBlock(packets[j], t[i]) /\ To(packets[j]) = From(t[i])
      BY <2>1, <2>2 DEF Led
    <3>2. CASE j = 1
      BY <1>1, <3>1, <3>2
    <3>3. CASE j # 1
      <4>1. j - 1 \in DOMAIN t /\ t[j - 1] = packets[j] /\ j \in Nat
        BY <1>1, <3>3
      <4>2. j - 1 < i
        BY <2>1, <3>1, <4>1
      <4> QED
        BY <3>1, <4>1, <4>2 DEF Led
    <3> QED
      BY <3>2, <3>3
  <2> QED
    BY <2>1, <2>2 DEF Running
<1>6. ASSUME NEW k \in DOMAIN pendingCompressed, NEW i \in DOMAIN t
      PROVE  Region(t[i]) \cap HeldSpan(k) = {} \/ Fits(t[i], k)
  BY <1>1 DEF Running
<1> QED
  BY <1>2, <1>3, <1>4, <1>5, <1>6 DEF h, t

LEMMA CompleteTail ==
    ASSUME NEW q \in Seq(SubPackets), q # <<>>, Complete(q)
    PROVE  Complete(Tail(q))
<1> DEFINE t == Tail(q)
<1>1. /\ DOMAIN q \subseteq Nat
      /\ \A i \in DOMAIN t : i + 1 \in DOMAIN q /\ t[i] = q[i + 1] /\ i \in Nat
      /\ \A i \in DOMAIN q : i = 1 \/ (i - 1 \in DOMAIN t /\ t[i - 1] = q[i] /\ i > 1)
  BY TailIs
<1> HIDE DEF t
<1> SUFFICES ASSUME NEW i \in DOMAIN t, t[i].op = "packed", To(t[i]) # t[i].end
             PROVE  Followed(t, i)
  BY DEF Complete, t
<1>2. PICK j \in DOMAIN q : i + 1 < j /\ SameBlock(q[i + 1], q[j])
  BY <1>1 DEF Complete, Followed
<1>3. j - 1 \in DOMAIN t /\ t[j - 1] = q[j] /\ i < j - 1
  BY <1>1, <1>2
<1> QED
  BY <1>1, <1>2, <1>3 DEF Followed

(* A packet that ends the round or the transfer.                           *)
LEMMA MarkKept ==
    ASSUME BlocksAssumption, BlocksInv, packets # <<>>, Head(packets).op \in Marks, packets' = Tail(packets),
           pc' \in {"ask", "done"}, expectedBytes' \in Int, outOfPartRetries' \in Nat,
           UNCHANGED <<job, receivedBytes, receivedBlocks, issuedRanges, pendingCompressed, partRequests, file, rewritten>>
    PROVE  BlocksInv'
<1> DEFINE h == Head(packets)
<1>0. /\ BlocksTypeOK /\ Placed /\ packets \in Seq(SubPackets)
  BY DEF BlocksInv, BlocksTypeOK
<1>1. /\ packets' \in Seq(SubPackets) /\ h = packets[1] /\ 1 \in DOMAIN packets
      /\ \A i \in DOMAIN packets' : i + 1 \in DOMAIN packets /\ packets'[i] = packets[i + 1]
  BY <1>0, TailIs
<1>2. BlocksTypeOK'
  BY <1>0, <1>1 DEF BlocksTypeOK
<1>3. Placed'
  BY <1>0, <1>1 DEF Placed, GoodRequest, GoodSlot, Window
<1>4. job.server # "amuled"
  BY <1>1 DEF BlocksInv, Balanced
<1>5. Region(h) = {} /\ ~ (h.op = "packed")
  BY DEF Region, Marks
<1>6. Cover(packets') = Cover(packets)
  BY <1>0, <1>5, CoverTail
<1>7. ASSUME job.selector
      PROVE  Running' /\ Separate' /\ Accounted'
  <2>0. Running /\ Separate /\ Accounted
    BY <1>7 DEF BlocksInv
  <2>1. /\ Ordered(packets')
        /\ \A i \in DOMAIN packets' :
              Begins(packets'[i]) \/ Led(packets', i) \/ (SameBlock(h, packets'[i]) /\ To(h) = From(packets'[i])) \/ Resumes(packets'[i])
        /\ \A k \in DOMAIN pendingCompressed : \A i \in DOMAIN packets' :
              Region(packets'[i]) \cap HeldSpan(k) = {} \/ Fits(packets'[i], k)
    <3>1. LET t == Tail(packets) IN
          /\ Ordered(t)
          /\ \A i \in DOMAIN t : Begins(t[i]) \/ Led(t, i) \/ (SameBlock(h, t[i]) /\ To(h) = From(t[i])) \/ Resumes(t[i])
          /\ \A k \in DOMAIN pendingCompressed : \A i \in DOMAIN t :
                Region(t[i]) \cap HeldSpan(k) = {} \/ Fits(t[i], k)
      BY <1>0, <2>0, Rest
    <3> QED
      BY <3>1
  <2> HIDE DEF h
  <2>2. \A p : ~SameBlock(h, p)
    BY <1>5 DEF SameBlock
  <2>3. Running'
    <3>1. \A p : (Resumes(p)' <=> Resumes(p)) /\ \A k : (Fits(p, k)' <=> Fits(p, k))
      BY DEF Resumes, Fits
    <3>2. \A k : (Stretch(k)' <=> Stretch(k)) /\ HeldSpan(k)' = HeldSpan(k)
      BY DEF Stretch, HeldSpan
    <3>3. \A i \in DOMAIN packets' : Begins(packets'[i]) \/ Led(packets', i) \/ Resumes(packets[i])'
      BY <2>1, <2>2, <3>1
    <3>4. \A k \in DOMAIN pendingCompressed : \A i \in DOMAIN packets' :
             Region(packets'[i]) \cap HeldSpan(k)' = {} \/ Fits(packets[i], k)'
      BY <2>1, <3>1, <3>2
    <3>5. \A k \in DOMAIN pendingCompressed : Stretch(k)'
      BY <2>0, <3>2 DEF Running
    <3> QED
      BY <2>1, <3>3, <3>4, <3>5 DEF Running
  <2>4. Held' = Held /\ Filled' = Filled /\ Territory' = Territory
    BY <1>7 DEF Held, HeldSpan, Filled, Territory
  <2>5. Separate'
    BY <1>6, <2>0, <2>4 DEF Separate
  <2>6. Accounted'
    BY <2>0, <2>4 DEF Accounted
  <2> QED
    BY <2>3, <2>5, <2>6
<1> QED
  BY <1>2, <1>3, <1>4, <1>7 DEF BlocksInv

(* What is written is there, and nothing else has changed.                 *)
LEMMA WriteIs ==
    ASSUME BlocksTypeOK, NEW a \in Nat, NEW b \in Nat, a < b, Written(a, BytesOf(a, b))
    PROVE  /\ file' \in [0..(job.size - 1) -> Int]
           /\ \A o \in DOMAIN file : file'[o] = IF o \in a..(b - 1) THEN o ELSE file[o]
           /\ receivedBytes' = receivedBytes + (b - a) /\ receivedBlocks' = receivedBlocks + 1
           /\ expectedBytes' = expectedBytes - (b - a)
           /\ pc' = IF expectedBytes - (b - a) > 0 THEN "read" ELSE "ask"
           /\ rewritten' \in BOOLEAN
           /\ (~rewritten /\ \A o \in a..(b - 1) : o \in DOMAIN file /\ file[o] = -1) => ~rewritten'
<1> DEFINE d == BytesOf(a, b)
<1>1. Len(d) = b - a /\ DOMAIN d = 1..(b - a) /\ \A i \in 1..(b - a) : d[i] = a + i - 1
  BY BytesAre
<1> HIDE DEF d
<1>2. Written(a, d)
  BY DEF d
<1>3. file \in [0..(job.size - 1) -> Int] /\ DOMAIN file = 0..(job.size - 1)
  BY DEF BlocksTypeOK
<1>4. \A o \in DOMAIN file : (o >= a /\ o < a + (b - a) <=> o \in a..(b - 1)) /\ (o \in a..(b - 1) => d[o - a + 1] = o)
  <2> SUFFICES ASSUME NEW o \in DOMAIN file
               PROVE  (o >= a /\ o < a + (b - a) <=> o \in a..(b - 1)) /\ (o \in a..(b - 1) => d[o - a + 1] = o)
    OBVIOUS
  <2>1. o \in Int
    BY <1>3
  <2>2. o \in a..(b - 1) => o - a + 1 \in 1..(b - a)
    BY <2>1
  <2> QED
    BY <1>1, <2>1, <2>2
<1>5. file' = [o \in DOMAIN file |-> IF o >= a /\ o < a + (b - a) THEN d[o - a + 1] ELSE file[o]]
  BY <1>1, <1>2 DEF Written
<1>6. \A o \in DOMAIN file : file'[o] = IF o \in a..(b - 1) THEN o ELSE file[o]
  BY <1>4, <1>5
<1>7. file' \in [0..(job.size - 1) -> Int]
  <2>1. \A o \in DOMAIN file : (IF o >= a /\ o < a + (b - a) THEN d[o - a + 1] ELSE file[o]) \in Int
    BY <1>3, <1>4
  <2> QED
    BY <1>3, <1>5, <2>1
<1>8. /\ receivedBytes' = receivedBytes + (b - a) /\ receivedBlocks' = receivedBlocks + 1
      /\ expectedBytes' = expectedBytes - (b - a)
      /\ pc' = IF expectedBytes - (b - a) > 0 THEN "read" ELSE "ask"
  BY <1>1, <1>2 DEF Written
<1>9. rewritten' = (rewritten \/ \E i \in 1..(b - a) : a + i - 1 \notin DOMAIN file \/ file[a + i - 1] # -1)
  BY <1>1, <1>2 DEF Written
<1>10. rewritten' \in BOOLEAN
  <2>1. (rewritten \/ \E i \in 1..(b - a) : a + i - 1 \notin DOMAIN file \/ file[a + i - 1] # -1) \in BOOLEAN
    BY Zenon
  <2> QED
    BY <1>9, <2>1, Zenon
<1>11. (~rewritten /\ \A o \in a..(b - 1) : o \in DOMAIN file /\ file[o] = -1) => ~rewritten'
  <2> SUFFICES ASSUME ~rewritten, \A o \in a..(b - 1) : o \in DOMAIN file /\ file[o] = -1
               PROVE  ~rewritten'
    OBVIOUS
  <2>1. \A i \in 1..(b - a) : a + i - 1 \in a..(b - 1)
    OBVIOUS
  <2>2. ~ \E i \in 1..(b - a) : a + i - 1 \notin DOMAIN file \/ file[a + i - 1] # -1
    BY <2>1
  <2> QED
    BY <1>9, <2>2, Zenon
<1> QED
  BY <1>6, <1>7, <1>8, <1>10, <1>11

(* A stretch of the file that has arrived whole is written.                *)
LEMMA WrittenKept ==
    ASSUME BlocksAssumption, BlocksInv, pc = "read", packets # <<>>, packets' = Tail(packets),
           NEW a \in Nat, NEW b \in Nat, a < b, Written(a, BytesOf(a, b)),
           NEW D, D \subseteq DOMAIN pendingCompressed, DOMAIN pendingCompressed' = D,
           \A k \in D : pendingCompressed'[k] = pendingCompressed[k],
           (job.selector \/ job.server = "amuled") =>
              /\ Region(Head(packets)) = a..(b - 1) /\ Region(Head(packets)) \cap Cover(packets') = {}
              /\ \A i \in DOMAIN packets' :
                    \/ Begins(packets'[i]) \/ Led(packets', i)
                    \/ (Key(packets'[i]) \in D /\ Resumes(packets'[i])),
           UNCHANGED <<job, issuedRanges, partRequests, outOfPartRetries>>
    PROVE  BlocksInv'
<1> DEFINE R == a..(b - 1)
<1>0. /\ BlocksTypeOK /\ Placed /\ packets \in Seq(SubPackets) /\ job \in Jobs
      /\ job.size \in Nat /\ job.base \in Nat /\ job.bound \in Nat /\ job.bound <= job.size
  BY JobIs DEF BlocksInv, BlocksTypeOK
<1>1. /\ packets' \in Seq(SubPackets)
      /\ \A i \in DOMAIN packets' : i + 1 \in DOMAIN packets /\ packets'[i] = packets[i + 1]
  BY <1>0, TailIs
<1>2. /\ file' \in [0..(job.size - 1) -> Int] /\ DOMAIN file = 0..(job.size - 1) /\ DOMAIN file' = DOMAIN file
      /\ \A o \in DOMAIN file : file'[o] = IF o \in R THEN o ELSE file[o]
      /\ receivedBytes' = receivedBytes + (b - a) /\ receivedBlocks' = receivedBlocks + 1
      /\ expectedBytes' = expectedBytes - (b - a)
      /\ pc' = IF expectedBytes - (b - a) > 0 THEN "read" ELSE "ask"
      /\ rewritten' \in BOOLEAN
      /\ (~rewritten /\ \A o \in R : o \in DOMAIN file /\ file[o] = -1) => ~rewritten'
  <2>1. file \in [0..(job.size - 1) -> Int]
    BY <1>0 DEF BlocksTypeOK
  <2> QED
    BY <1>0, <2>1, WriteIs
<1>3. Cover(packets) = Region(Head(packets)) \cup Cover(packets')
  BY <1>0, CoverTail
<1> HIDE DEF R
<1>4. b - a \in Nat \ {0} /\ IsFiniteSet(R) /\ Cardinality(R) = b - a
  <2>1. [s |-> a, e |-> b] \in Pair /\ Span([s |-> a, e |-> b]) = R /\ Size([s |-> a, e |-> b]) = b - a
    BY DEF Pair, Span, Size, R
  <2> QED
    BY <2>1, SpanSize
<1>5. BlocksTypeOK'
  <2>1. receivedBytes' \in Nat /\ receivedBlocks' \in Nat /\ expectedBytes' \in Int /\ pc' \in {"ask", "read", "done", "failed"}
    BY <1>0, <1>2, <1>4 DEF BlocksTypeOK
  <2>2. \A k \in DOMAIN pendingCompressed' :
           k \in Nat \X Nat /\ pendingCompressed'[k] \in Seq(Nat \X Nat \X Nat) /\ pendingCompressed'[k] # <<>>
    BY <1>0 DEF BlocksTypeOK
  <2>3. /\ job' \in Jobs /\ outOfPartRetries' \in Nat /\ issuedRanges' \subseteq Pair
        /\ partRequests' \in Seq([Slots -> Pair])
    BY <1>0 DEF BlocksTypeOK
  <2>4. file' \in [0..(job'.size - 1) -> Int]
    BY <1>2
  <2> QED
    BY <1>1, <1>2, <2>1, <2>2, <2>3, <2>4, Zenon DEF BlocksTypeOK
<1>6. Placed'
  <2>1. \A i \in DOMAIN packets' : Sound(packets'[i])
    BY <1>0, <1>1 DEF Placed
  <2>2. \A i \in DOMAIN partRequests : GoodRequest(partRequests[i])'
    BY <1>0 DEF Placed, GoodRequest, GoodSlot
  <2>3. \A k \in DOMAIN pendingCompressed' : \A i \in DOMAIN pendingCompressed'[k] :
           pendingCompressed'[k][i][1] = k[1] /\ k[1] < pendingCompressed'[k][i][2]
    BY <1>0 DEF Placed
  <2>4. \A o \in DOMAIN file' : file'[o] \in {-1, o}
    BY <1>0, <1>2 DEF Placed
  <2>5. \A w \in issuedRanges : \E k \in Nat : w = Window(k)' /\ job.base + k * EMBLOCK < job.bound
    <3>1. \A k : Window(k)' = Window(k)
      BY DEF Window
    <3> QED
      BY <1>0, <3>1 DEF Placed
  <2> QED
    BY <2>1, <2>2, <2>3, <2>4, <2>5 DEF Placed
<1>7. ASSUME job.selector \/ job.server = "amuled"
      PROVE  /\ Running' /\ Separate' /\ Accounted'
             /\ Asked(partRequests) \cap R = {} /\ Cover(packets') \cap R = {}
  <2>0. /\ Running /\ Separate /\ Accounted
        /\ Region(Head(packets)) = R /\ R \cap Cover(packets') = {}
    BY <1>7 DEF BlocksInv, R
  <2>1. /\ Ordered(packets')
        /\ \A k \in DOMAIN pendingCompressed : \A i \in DOMAIN packets' :
              Region(packets'[i]) \cap HeldSpan(k) = {} \/ Fits(packets'[i], k)
    <3>1. LET t == Tail(packets) IN
          /\ Ordered(t)
          /\ \A k \in DOMAIN pendingCompressed : \A i \in DOMAIN t :
                Region(t[i]) \cap HeldSpan(k) = {} \/ Fits(t[i], k)
      BY <1>0, <2>0, Rest
    <3> QED
      BY <3>1
  <2>2. R \subseteq job.base..(job.bound - 1) /\ R \subseteq DOMAIN file /\ R \cap Filled = {} /\ R \subseteq Territory
    <3>1. R \subseteq job.base..(job.bound - 1) /\ R \cap Filled = {} /\ R \subseteq Territory
      BY <1>3, <2>0 DEF Separate
    <3>2. job.base..(job.bound - 1) \subseteq 0..(job.size - 1)
      BY <1>0
    <3> QED
      BY <1>2, <3>1, <3>2
  <2>3. Filled' = Filled \cup R
    <3>1. \A o \in R : o # -1
      BY DEF R
    <3> QED
      BY <1>2, <2>2, <3>1 DEF Filled
  <2>4. Held' \subseteq Held
    <3>1. \A k \in D : HeldSpan(k)' = HeldSpan(k)
      BY DEF HeldSpan
    <3> QED
      BY <3>1 DEF Held
  <2>5. Territory' = Territory
    <3>1. receivedBytes \in Nat /\ expectedBytes \in Int /\ job.base \in Nat
      BY <1>0 DEF BlocksTypeOK
    <3>2. job.base + (receivedBytes + (b - a)) + (expectedBytes - (b - a)) - 1 = job.base + receivedBytes + expectedBytes - 1
      <4>1. \A x, y \in Nat : \A z \in Int : x + (y + (b - a)) + (z - (b - a)) - 1 = x + y + z - 1
        OBVIOUS
      <4> QED
        BY <3>1, <4>1
    <3> QED
      BY <1>2, <3>2 DEF Territory
  <2>6. Separate'
    <3>1. Asked(partRequests) \cap R = {}
      BY <1>3, <2>0 DEF Separate
    <3>2. Cover(packets') \subseteq Cover(packets)
      BY <1>3
    <3> QED
      BY <2>0, <2>2, <2>3, <2>4, <2>5, <3>1, <3>2 DEF Separate
  <2>7. Accounted'
    <3>1. IsFiniteSet(Filled)
      <4>1. 0 \in Int /\ job.size - 1 \in Int
        BY <1>0
      <4>2. IsFiniteSet(0..(job.size - 1))
        BY <4>1, FS_Interval
      <4> QED
        BY <1>2, <4>2, FS_Subset DEF Filled
    <3>2. Cardinality(Filled \cup R) = Cardinality(Filled) + Cardinality(R)
      BY <1>4, <2>2, <3>1, ApartSize
    <3>3. \A o \in R : o \in DOMAIN file /\ file[o] = -1
      BY <2>2 DEF Filled
    <3>4. ~rewritten' /\ pc' # "failed"
      BY <1>2, <2>0, <3>3 DEF Accounted
    <3>5. Cardinality(Filled') = receivedBytes'
      BY <1>2, <1>4, <2>0, <2>3, <3>2 DEF Accounted
    <3> QED
      BY <3>4, <3>5 DEF Accounted
  <2>8. Running'
    <3>1. \A i \in DOMAIN packets' : Begins(packets'[i]) \/ Led(packets', i) \/ Resumes(packets[i])'
      <4> SUFFICES ASSUME NEW i \in DOMAIN packets', ~Begins(packets'[i]), ~Led(packets', i)
                   PROVE  Resumes(packets[i])'
        OBVIOUS
      <4>1. Key(packets'[i]) \in D /\ Resumes(packets'[i])
        BY <1>7
      <4> QED
        BY <4>1 DEF Resumes
    <3>2. \A k \in D : (\A p : Fits(p, k)' <=> Fits(p, k)) /\ HeldSpan(k)' = HeldSpan(k) /\ (Stretch(k)' <=> Stretch(k))
      BY DEF Fits, HeldSpan, Stretch
    <3>3. \A k \in D : \A i \in DOMAIN packets' : Region(packets'[i]) \cap HeldSpan(k)' = {} \/ Fits(packets[i], k)'
      BY <2>1, <3>2
    <3>4. \A k \in D : Stretch(k)'
      BY <2>0, <3>2 DEF Running
    <3> QED
      BY <2>1, <3>1, <3>3, <3>4 DEF Running
  <2> QED
    BY <1>3, <2>0, <2>6, <2>7, <2>8 DEF Separate
<1>8. ASSUME job.server = "amuled"
      PROVE  Balanced'
  <2>0. Balanced /\ Separate /\ Region(Head(packets)) = R
    BY <1>8 DEF BlocksInv, R
  <2>1. Asked(partRequests) \cap R = {} /\ Cover(packets') \cap R = {}
    BY <1>7, <1>8
  <2> DEFINE W == Asked(partRequests) \cup Cover(packets')
  <2>2. Asked(partRequests) \cup Cover(packets) = W \cup R /\ W \cap R = {}
    BY <1>3, <2>0, <2>1
  <2>3. IsFiniteSet(W)
    <3>0. job.base \in Int /\ job.bound - 1 \in Int
      BY <1>0
    <3>1. IsFiniteSet(job.base..(job.bound - 1))
      BY <3>0, FS_Interval
    <3>2. W \subseteq job.base..(job.bound - 1)
      BY <1>3, <2>0 DEF Separate
    <3> QED
      BY <3>1, <3>2, FS_Subset
  <2> HIDE DEF W
  <2>4. Cardinality(W \cup R) = Cardinality(W) + Cardinality(R) /\ Cardinality(W) \in Nat
    BY <1>4, <2>2, <2>3, ApartSize, FS_CardinalityType
  <2>5. expectedBytes' = Cardinality(W) /\ (pc' = "ask" <=> expectedBytes' = 0)
    <3>1. expectedBytes = Cardinality(W) + (b - a)
      BY <1>4, <2>0, <2>2, <2>4 DEF Balanced
    <3>2. expectedBytes - (b - a) = Cardinality(W)
      BY <1>4, <2>4, <3>1
    <3> QED
      BY <1>2, <2>4, <3>2
  <2>6. Complete(packets')
    BY <1>0, <2>0, CompleteTail DEF Balanced
  <2>7. \A i \in DOMAIN packets' : packets'[i].op \notin Marks
    BY <1>1, <2>0 DEF Balanced
  <2> QED
    BY <2>5, <2>6, <2>7 DEF Balanced, W
<1> QED
  BY <1>5, <1>6, <1>7, <1>8 DEF BlocksInv

(* A piece that was sent as it is.                                         *)
LEMMA ReceivePartKept ==
    ASSUME BlocksAssumption, BlocksInv, ReceivePart
    PROVE  BlocksInv'
<1> DEFINE h == Head(packets)
<1>0. /\ BlocksTypeOK /\ Placed /\ packets \in Seq(SubPackets) /\ packets # <<>> /\ pc = "read" /\ h.op = "part"
      /\ packets' = Tail(packets)
  BY DEF BlocksInv, BlocksTypeOK, ReceivePart, ReceivePacket
<1>1. /\ h = packets[1] /\ 1 \in DOMAIN packets /\ h \in SubPackets /\ packets' \in Seq(SubPackets)
  BY <1>0, TailIs
<1>2. Plain(h) /\ h.start \in Nat /\ h.end \in Nat
  <2>1. Sound(h)
    BY <1>0, <1>1 DEF Placed
  <2>2. Plain(h)
    BY <1>0, <2>1 DEF Sound, Packed, Marks
  <2>3. h.start \in Nat /\ h.end \in Nat
    BY <1>0, <1>1 DEF SubPackets, Marks
  <2> QED
    BY <2>2, <2>3
<1>3. Len(h.data) = h.end - h.start
  BY <1>2, BytesAre DEF Plain
<1>4. Written(h.start, BytesOf(h.start, h.end)) /\ UNCHANGED <<job, issuedRanges, partRequests, outOfPartRetries, pendingCompressed>>
  BY <1>2, <1>3 DEF ReceivePart, ReceivePacket, ParseSendingPart, Plain
<1>5. Region(h) = h.start..(h.end - 1)
  BY <1>0 DEF Region
<1> HIDE DEF h
<1>6. ASSUME job.selector \/ job.server = "amuled"
      PROVE  /\ Region(h) \cap Cover(packets') = {}
             /\ \A i \in DOMAIN packets' :
                   \/ Begins(packets'[i]) \/ Led(packets', i)
                   \/ (Key(packets'[i]) \in DOMAIN pendingCompressed /\ Resumes(packets'[i]))
  <2>1. Running
    BY <1>6 DEF BlocksInv
  <2>2. LET t == Tail(packets) IN
        /\ \A i \in DOMAIN t : After(t[i], h)
        /\ \A i \in DOMAIN t : Begins(t[i]) \/ Led(t, i) \/ (SameBlock(h, t[i]) /\ To(h) = From(t[i])) \/ Resumes(t[i])
    BY <1>0, <2>1, Rest DEF h
  <2>3. \A p : ~SameBlock(h, p)
    BY <1>0 DEF SameBlock, h
  <2>4. \A i \in DOMAIN packets' : Region(packets'[i]) \cap Region(h) = {}
    BY <1>0, <2>2, <2>3 DEF After
  <2>5. Region(h) \cap Cover(packets') = {}
    BY <2>4 DEF Cover
  <2>6. \A i \in DOMAIN packets' : Begins(packets'[i]) \/ Led(packets', i) \/ Resumes(packets'[i])
    BY <1>0, <2>2, <2>3
  <2> QED
    BY <2>5, <2>6 DEF Resumes
<1>7. h.start < h.end
  BY <1>2 DEF Plain
<1> QED
  BY <1>0, <1>2, <1>4, <1>5, <1>6, <1>7, WrittenKept DEF h

(* What a piece of a compressed block consists of.                         *)
LEMMA PieceOf ==
    ASSUME NEW p \in SubPackets, Packed(p)
    PROVE  /\ p.start \in Nat /\ p.end \in Nat /\ Stop(p) \in Nat /\ p.start < Stop(p)
           /\ From(p) \in Nat /\ To(p) \in Nat /\ From(p) < To(p) /\ To(p) <= p.end /\ Len(p.data) = To(p) - From(p)
           /\ Block(p).s = p.start /\ Block(p).e = Stop(p)
           /\ p.data \in Seq(Nat \X Nat \X Nat) /\ p.data = Compressed(Block(p), From(p), To(p))
           /\ \A i \in 1..(To(p) - From(p)) : p.data[i] = <<p.start, Stop(p), From(p) + i>>
<1> DEFINE S == Nat \X Nat \X Nat
<1>1. p.start \in Nat /\ p.end \in Nat /\ p.data \in Seq(S) /\ p.data # <<>>
  BY DEF SubPackets, Marks, Packed
<1>2. p.data[1] \in S /\ Len(p.data) \in Nat \ {0}
  <2> HIDE DEF S
  <2> QED
    BY <1>1
<1>3. p.data[1][2] \in Nat
  BY <1>2
<1>4. Stop(p) \in Nat /\ p.start < Stop(p)
  BY <1>3 DEF Stop, Packed
<1>5. From(p) \in Nat /\ To(p) <= p.end /\ p.data = Compressed(Block(p), From(p), To(p))
  BY DEF Packed
<1>6. To(p) = From(p) + Len(p.data)
  BY DEF To
<1>7. To(p) \in Nat /\ From(p) < To(p) /\ Len(p.data) = To(p) - From(p)
  BY <1>2, <1>5, <1>6
<1>8. Block(p).s = p.start /\ Block(p).e = Stop(p)
  BY DEF Block
<1>9. \A i \in 1..(To(p) - From(p)) : Compressed(Block(p), From(p), To(p))[i] = <<Block(p).s, Block(p).e, From(p) + i>>
  BY <1>1, <1>4, <1>5, <1>7, <1>8, StretchIs
<1>10. \A i \in 1..(To(p) - From(p)) : p.data[i] = <<p.start, Stop(p), From(p) + i>>
  BY <1>5, <1>8, <1>9
<1> QED
  BY <1>1, <1>4, <1>5, <1>7, <1>8, <1>10

(* A stretch of a compressed block and the next one are one stretch.       *)
LEMMA StretchesMeet ==
    ASSUME NEW r, r.s \in Nat, r.e \in Nat, NEW from \in Nat, from # 0, NEW to \in Nat, from < to
    PROVE  Compressed(r, 0, from) \o Compressed(r, from, to) = Compressed(r, 0, to)
<1> DEFINE a == Compressed(r, 0, from)
           b == Compressed(r, from, to)
           c == Compressed(r, 0, to)
           l == a \o b
           S == Nat \X Nat \X Nat
<1>1. 0 < from /\ 0 < to /\ 0 \in Nat /\ from - 0 = from /\ to - 0 = to /\ to - from \in Nat
  OBVIOUS
<1>2. a \in Seq(S) /\ Len(a) = from - 0 /\ \A i \in 1..(from - 0) : a[i] = <<r.s, r.e, 0 + i>>
  BY <1>1, StretchIs
<1>3. b \in Seq(S) /\ Len(b) = to - from /\ \A i \in 1..(to - from) : b[i] = <<r.s, r.e, from + i>>
  BY StretchIs
<1>4. c \in Seq(S) /\ Len(c) = to - 0 /\ \A i \in 1..(to - 0) : c[i] = <<r.s, r.e, 0 + i>>
  BY <1>1, StretchIs
<1> HIDE DEF a, b, c, S
<1>5. l \in Seq(S) /\ Len(l) = to
  <2>1. l \in Seq(S) /\ Len(l) = Len(a) + Len(b)
    BY <1>2, <1>3, EndToEnd
  <2>2. (from - 0) + (to - from) = to
    OBVIOUS
  <2> QED
    BY <1>2, <1>3, <2>1, <2>2
<1>6. ASSUME NEW i \in 1..to
      PROVE  l[i] = c[i]
  <2>1. c[i] = <<r.s, r.e, 0 + i>>
    BY <1>1, <1>4
  <2>2. CASE i <= from
    <3>1. i \in 1..(from - 0) /\ i \in 1..Len(a)
      BY <1>1, <1>2, <2>2
    <3>2. l[i] = a[i]
      BY <1>2, <1>3, <3>1
    <3> QED
      BY <1>2, <2>1, <3>1, <3>2
  <2>3. CASE ~(i <= from)
    <3>1. i - from \in 1..(to - from) /\ from + (i - from) = 0 + i
      BY <2>3
    <3>2. l[i] = b[i - from]
      <4>1. i \in 1..(Len(a) + Len(b)) /\ ~(i <= Len(a)) /\ i - Len(a) = i - from
        BY <1>1, <1>2, <1>3, <2>3
      <4>2. i \in DOMAIN l /\ i \notin DOMAIN a
        BY <1>2, <1>3, <4>1, EndToEnd
      <4>3. l[i] = b[i - Len(a)]
        BY <1>2, <1>3, <4>2, EndToEnd
      <4> QED
        BY <4>1, <4>3
    <3> QED
      BY <1>3, <2>1, <3>1, <3>2
  <2> QED
    BY <2>2, <2>3
<1> HIDE DEF l
<1>7. l = c
  BY <1>1, <1>4, <1>5, <1>6
<1> QED
  BY <1>7 DEF l, a, b, c

(* What has arrived of a block makes one stretch of it, and the pieces of  *)
(* that block on the wire come after it.                                   *)
LEMMA ArrivedSoFar ==
    ASSUME BlocksTypeOK, Running, packets # <<>>, Packed(Head(packets)), Head(packets).start \in Nat, Head(packets).end \in Nat,
           Stop(Head(packets)) \in Nat
    PROVE  LET h == Head(packets) t == Tail(packets) IN
           /\ Gathered(h) = Compressed(Block(h), 0, To(h)) /\ From(h) < To(h)
           /\ \/ From(h) = 0 /\ Key(h) \notin DOMAIN pendingCompressed
              \/ /\ Key(h) \in DOMAIN pendingCompressed /\ Len(pendingCompressed[Key(h)]) = From(h)
                 /\ pendingCompressed[Key(h)][1][2] = Stop(h)
<1> DEFINE h == Head(packets)
           k == Key(h)
           r == Block(h)
           from == From(h)
           to == To(h)
<1>1. /\ packets \in Seq(SubPackets) /\ h = packets[1] /\ 1 \in DOMAIN packets
  BY TailIs DEF BlocksTypeOK
<1>2. /\ h.op = "packed" /\ h.start < Stop(h) /\ from \in Nat /\ h.data = Compressed(r, from, to) /\ h.data # <<>>
      /\ k[1] = h.start /\ r.s = h.start /\ r.e = Stop(h)
  BY DEF Packed, Key, Block
<1>3. to \in Nat /\ from < to
  <2>1. h.data \in Seq(Nat \X Nat \X Nat)
    BY <1>1, <1>2 DEF SubPackets, Marks
  <2>2. Len(h.data) \in Nat \ {0}
    BY <1>2, <2>1
  <2> QED
    BY <1>2, <2>2 DEF To
<1>4. Begins(h) \/ Resumes(h)
  BY Rest
<1>5. k \in DOMAIN pendingCompressed => Fits(h, k) /\ Stretch(k)
  <2> SUFFICES ASSUME k \in DOMAIN pendingCompressed
               PROVE  Fits(h, k) /\ Stretch(k)
    OBVIOUS
  <2>1. Stretch(k) /\ (Region(h) \cap HeldSpan(k) = {} \/ Fits(h, k))
    BY <1>1 DEF Running
  <2>2. pendingCompressed[k][1][2] \in Nat
    <3>1. pendingCompressed[k] \in Seq(Nat \X Nat \X Nat) /\ pendingCompressed[k] # <<>>
      BY DEF BlocksTypeOK
    <3> QED
      BY <3>1
  <2>3. h.start \in Region(h) /\ h.start \in HeldSpan(k)
    BY <1>2, <2>1, <2>2 DEF Region, HeldSpan, Stretch
  <2> QED
    BY <2>1, <2>3
<1>6. k \in DOMAIN pendingCompressed => Len(pendingCompressed[k]) \in Nat \ {0}
  BY DEF BlocksTypeOK
<1> HIDE DEF h, k, r, from, to
<1>7. \/ from = 0 /\ k \notin DOMAIN pendingCompressed
      \/ k \in DOMAIN pendingCompressed /\ Len(pendingCompressed[k]) = from /\ pendingCompressed[k][1][2] = Stop(h)
  BY <1>2, <1>4, <1>5, <1>6 DEF Begins, Resumes, Fits, k, from
<1>8. Gathered(h) = Compressed(r, 0, to)
  <2>1. CASE from = 0 /\ k \notin DOMAIN pendingCompressed
    <3>1. h.data \in Seq(Nat \X Nat \X Nat)
      BY <1>1, <1>2 DEF SubPackets, Marks, h
    <3>2. <<>> \o h.data = h.data
      BY <3>1
    <3> QED
      BY <1>2, <2>1, <3>2 DEF Gathered, k
  <2>2. CASE k \in DOMAIN pendingCompressed /\ Len(pendingCompressed[k]) = from /\ pendingCompressed[k][1][2] = Stop(h)
    <3>1. from # 0 /\ Gathered(h) = pendingCompressed[k] \o h.data
      BY <1>6, <2>2 DEF Gathered, k
    <3>2. pendingCompressed[k] = Compressed(r, 0, from)
      BY <1>2, <1>5, <2>2 DEF Stretch, r, Block, k
    <3>3. Compressed(r, 0, from) \o Compressed(r, from, to) = Compressed(r, 0, to)
      <4>1. r.s \in Nat /\ r.e \in Nat
        BY <1>2 DEF h
      <4> QED
        BY <1>2, <1>3, <3>1, <4>1, StretchesMeet
    <3> QED
      BY <1>2, <3>1, <3>2, <3>3
  <2> QED
    BY <1>7, <2>1, <2>2
<1> QED
  BY <1>3, <1>7, <1>8 DEF h, k, r, from, to

(* A piece of a compressed block, the last one or not.                     *)
LEMMA PackedIs ==
    ASSUME BlocksTypeOK, Placed, packets # <<>>, Head(packets).op = "packed"
    PROVE  LET h == Head(packets) IN
           /\ Packed(h) /\ h.start \in Nat /\ h.end \in Nat /\ Stop(h) \in Nat /\ Key(h) \in Nat \X Nat
           /\ Gathered(h) \in Seq(Nat \X Nat \X Nat) /\ Gathered(h) # <<>>
           /\ \A i \in DOMAIN Gathered(h) : Gathered(h)[i][1] = h.start /\ h.start < Gathered(h)[i][2]
<1> DEFINE h == Head(packets)
           S == Nat \X Nat \X Nat
           k == Key(h)
           old == IF k \in DOMAIN pendingCompressed THEN pendingCompressed[k] ELSE <<>>
<1>1. /\ packets \in Seq(SubPackets) /\ h = packets[1] /\ 1 \in DOMAIN packets /\ h \in SubPackets
  BY TailIs DEF BlocksTypeOK
<1>2. Packed(h)
  <2>1. Sound(h)
    BY <1>1 DEF Placed
  <2> QED
    BY <2>1 DEF Sound, Plain, Marks
<1>3. /\ h.start \in Nat /\ h.end \in Nat /\ h.data \in Seq(S) /\ Stop(h) \in Nat /\ h.start < Stop(h)
      /\ From(h) \in Nat /\ To(h) \in Nat /\ From(h) < To(h) /\ Len(h.data) = To(h) - From(h)
      /\ \A i \in 1..(To(h) - From(h)) : h.data[i] = <<h.start, Stop(h), From(h) + i>>
  BY <1>1, <1>2, PieceOf
<1>4. Len(h.data) \in Nat \ {0} /\ DOMAIN h.data = 1..(To(h) - From(h))
  BY <1>3
<1>5. k \in Nat \X Nat /\ k[1] = h.start
  BY <1>3 DEF Key
<1>6. \A i \in DOMAIN h.data : h.data[i][1] = h.start /\ h.start < h.data[i][2]
  <2>1. \A i \in DOMAIN h.data : h.data[i] = <<h.start, Stop(h), From(h) + i>>
    BY <1>3, <1>4
  <2>2. h.start < Stop(h)
    BY <1>3
  <2> HIDE DEF h
  <2>3. ASSUME NEW i \in DOMAIN h.data
        PROVE  h.data[i][1] = h.start /\ h.data[i][2] = Stop(h)
    BY <2>1
  <2> QED
    BY <2>2, <2>3
<1>7. old \in Seq(S) /\ \A i \in DOMAIN old : old[i][1] = h.start /\ h.start < old[i][2]
  <2>1. CASE k \in DOMAIN pendingCompressed
    <3>1. pendingCompressed[k] \in Seq(S)
      BY <2>1 DEF BlocksTypeOK
    <3>2. \A i \in DOMAIN pendingCompressed[k] : pendingCompressed[k][i][1] = k[1] /\ k[1] < pendingCompressed[k][i][2]
      BY <2>1 DEF Placed
    <3> QED
      BY <1>5, <2>1, <3>1, <3>2
  <2>2. CASE k \notin DOMAIN pendingCompressed
    BY <2>2
  <2> QED
    BY <2>1, <2>2
<1>8. Gathered(h) = old \o h.data
  BY DEF Gathered
<1> HIDE DEF h, S, k, old
<1> DEFINE g == Gathered(h)
<1>9. /\ g \in Seq(S) /\ Len(g) = Len(old) + Len(h.data) /\ Len(old) \in Nat
      /\ \A i \in DOMAIN old : g[i] = old[i]
      /\ \A i \in DOMAIN g : i \in DOMAIN old \/ (i - Len(old) \in DOMAIN h.data /\ g[i] = h.data[i - Len(old)])
  <2>1. h.data \in Seq(S) /\ old \in Seq(S)
    BY <1>3, <1>7
  <2> HIDE DEF g
  <2>2. g = old \o h.data
    BY <1>8 DEF g
  <2> QED
    BY <2>1, <2>2, EndToEnd
<1> HIDE DEF g
<1>10. g # <<>>
  BY <1>4, <1>9
<1>11. \A i \in DOMAIN g : g[i][1] = h.start /\ h.start < g[i][2]
  BY <1>6, <1>7, <1>9
<1> QED
  BY <1>2, <1>3, <1>5, <1>9, <1>10, <1>11 DEF h, g, S, k

(* Later pieces of the same block come after this one.                     *)
LEMMA LaterPieces ==
    ASSUME BlocksTypeOK, Placed, Running, packets # <<>>, Head(packets).op = "packed"
    PROVE  LET h == Head(packets) t == Tail(packets) IN
           /\ \A i \in DOMAIN t : t[i].op = "packed" /\ Key(t[i]) = Key(h) => SameBlock(h, t[i]) /\ To(h) <= From(t[i])
           /\ \A i \in DOMAIN t : t[i].op = "packed" => From(t[i]) < To(t[i]) /\ To(t[i]) <= t[i].end /\ From(t[i]) \in Nat
           /\ \A i \in DOMAIN t : SameBlock(h, t[i]) \/ Region(t[i]) \cap Region(h) = {}
<1> DEFINE h == Head(packets)
           t == Tail(packets)
<1>1. /\ packets \in Seq(SubPackets) /\ h = packets[1] /\ 1 \in DOMAIN packets /\ t \in Seq(SubPackets)
      /\ \A i \in DOMAIN t : i + 1 \in DOMAIN packets /\ t[i] = packets[i + 1]
  BY TailIs DEF BlocksTypeOK
<1>2. Packed(h) /\ h.start \in Nat /\ Stop(h) \in Nat
  BY PackedIs
<1>3. \A i \in DOMAIN t : After(t[i], h)
  BY Rest
<1> HIDE DEF h, t
<1>4. ASSUME NEW i \in DOMAIN t, t[i].op = "packed"
      PROVE  Packed(t[i]) /\ Stop(t[i]) \in Nat /\ From(t[i]) < To(t[i]) /\ To(t[i]) <= t[i].end /\ From(t[i]) \in Nat
  <2>1. t[i] \in SubPackets /\ Sound(t[i])
    BY <1>1 DEF Placed
  <2>2. Packed(t[i])
    BY <1>4, <2>1 DEF Sound, Plain, Marks
  <2> QED
    BY <2>1, <2>2, PieceOf
<1>5. ASSUME NEW i \in DOMAIN t, t[i].op = "packed", Key(t[i]) = Key(h)
      PROVE  SameBlock(h, t[i]) /\ To(h) <= From(t[i])
  <2>1. t[i].start = h.start
    BY <1>5 DEF Key
  <2>2. h.start \in Region(t[i])
    BY <1>2, <1>4, <1>5, <2>1 DEF Region, Packed
  <2>3. h.start \in Region(h)
    BY <1>2 DEF Region, Packed
  <2> QED
    BY <1>3, <2>2, <2>3 DEF After
<1>6. \A i \in DOMAIN t : SameBlock(h, t[i]) \/ Region(t[i]) \cap Region(h) = {}
  BY <1>3 DEF After
<1> QED
  BY <1>4, <1>5, <1>6 DEF h, t

(* A whole block is written.                                               *)
LEMMA LastPieceKept ==
    ASSUME BlocksAssumption, BlocksInv, ReceiveCompressed, ~(Len(Gathered(Head(packets))) < Head(packets).end)
    PROVE  BlocksInv'
<1> DEFINE h == Head(packets)
           buf == Gathered(h)
           D == DOMAIN pendingCompressed \ {Key(h)}
<1>0. /\ BlocksTypeOK /\ Placed /\ packets \in Seq(SubPackets) /\ packets # <<>> /\ pc = "read" /\ h.op = "packed"
      /\ packets' = Tail(packets) /\ UNCHANGED <<job, issuedRanges, partRequests, outOfPartRetries>>
  BY DEF BlocksInv, BlocksTypeOK, ReceiveCompressed, ReceivePacket
<1>1. /\ Packed(h) /\ h.start \in Nat /\ h.end \in Nat /\ Stop(h) \in Nat
      /\ buf \in Seq(Nat \X Nat \X Nat) /\ buf # <<>>
      /\ \A i \in DOMAIN buf : buf[i][1] = h.start /\ h.start < buf[i][2]
  BY <1>0, PackedIs
<1>2. /\ pendingCompressed' = [k \in D |-> pendingCompressed[k]]
      /\ IF Decompresses(buf) THEN Written(h.start, BytesOf(buf[1][1], buf[1][2]))
         ELSE pc' = "failed" /\ NothingWritten /\ UNCHANGED expectedBytes
  BY DEF ReceiveCompressed
<1>3. DOMAIN pendingCompressed' = D /\ (\A k \in D : pendingCompressed'[k] = pendingCompressed[k]) /\ D \subseteq DOMAIN pendingCompressed
  BY <1>2
<1>4. 1 \in DOMAIN buf /\ buf[1][1] = h.start /\ h.start < buf[1][2] /\ buf[1][2] \in Nat
  <2>1. 1 \in DOMAIN buf /\ buf[1] \in Nat \X Nat \X Nat
    BY <1>1
  <2> QED
    BY <1>1, <2>1
<1>5. ~(Len(buf) < h.end)
  OBVIOUS
<1> HIDE DEF h, buf, D
<1>6. ASSUME job.selector \/ job.server = "amuled"
      PROVE  /\ Decompresses(buf) /\ Region(h) = h.start..(buf[1][2] - 1) /\ Region(h) \cap Cover(packets') = {}
             /\ \A i \in DOMAIN packets' :
                   \/ Begins(packets'[i]) \/ Led(packets', i)
                   \/ (Key(packets'[i]) \in D /\ Resumes(packets'[i]))
  <2>1. Running
    BY <1>6 DEF BlocksInv
  <2>2. buf = Compressed(Block(h), 0, To(h)) /\ From(h) < To(h)
    BY <1>0, <1>1, <2>1, ArrivedSoFar DEF h, buf
  <2>3. From(h) \in Nat /\ To(h) \in Nat /\ To(h) <= h.end /\ Block(h).s = h.start /\ Block(h).e = Stop(h)
    <3>1. h \in SubPackets
      BY <1>0, TailIs DEF h
    <3> QED
      BY <1>1, <3>1, PieceOf
  <2>4. Len(buf) = To(h) /\ buf[1] = <<h.start, Stop(h), 0 + 1>>
    <3>1. 0 < To(h) /\ 0 \in Nat
      BY <2>2, <2>3
    <3>2. Block(h).s \in Nat /\ Block(h).e \in Nat
      BY <1>1, <2>3
    <3>3. Len(Compressed(Block(h), 0, To(h))) = To(h) - 0
          /\ Compressed(Block(h), 0, To(h))[1] = <<Block(h).s, Block(h).e, 0 + 1>>
      BY <2>3, <3>1, <3>2, StretchIs
    <3> QED
      BY <2>2, <2>3, <3>3
  <2>5. To(h) = h.end /\ buf[1][2] = Stop(h)
    BY <1>1, <1>5, <2>3, <2>4
  <2>6. Decompresses(buf)
    <3>1. [s |-> buf[1][1], e |-> buf[1][2]] = Block(h)
      BY <1>4, <2>5 DEF Block
    <3> QED
      BY <2>2, <2>4, <3>1 DEF Decompresses
  <2>7. LET t == Tail(packets) IN
        /\ \A i \in DOMAIN t : t[i].op = "packed" /\ Key(t[i]) = Key(h) => SameBlock(h, t[i]) /\ To(h) <= From(t[i])
        /\ \A i \in DOMAIN t : t[i].op = "packed" => From(t[i]) < To(t[i]) /\ To(t[i]) <= t[i].end /\ From(t[i]) \in Nat
        /\ \A i \in DOMAIN t : SameBlock(h, t[i]) \/ Region(t[i]) \cap Region(h) = {}
    BY <1>0, <2>1, LaterPieces DEF h
  <2>8. \A i \in DOMAIN packets' : packets'[i].op = "packed" => Key(packets'[i]) # Key(h)
    <3> SUFFICES ASSUME NEW i \in DOMAIN packets', packets'[i].op = "packed", Key(packets'[i]) = Key(h)
                 PROVE  FALSE
      OBVIOUS
    <3>1. packets'[i] \in SubPackets
      <4>1. packets' \in Seq(SubPackets)
        BY <1>0, TailIs
      <4> QED
        BY <4>1
    <3>2. packets'[i].end \in Nat /\ packets'[i].end = h.end /\ packets'[i].data \in Seq(Nat \X Nat \X Nat)
      BY <3>1 DEF SubPackets, Marks, Key
    <3>3. Len(packets'[i].data) \in Nat
      BY <3>2
    <3>4. To(h) <= From(packets'[i]) /\ From(packets'[i]) < To(packets'[i]) /\ To(packets'[i]) <= h.end /\ From(packets'[i]) \in Nat
      BY <1>0, <2>7, <3>2
    <3> QED
      BY <2>3, <2>5, <3>3, <3>4 DEF To
  <2>9. \A i \in DOMAIN packets' : ~SameBlock(h, packets'[i])
    BY <2>8 DEF SameBlock
  <2>10. Region(h) \cap Cover(packets') = {}
    <3>1. \A i \in DOMAIN packets' : Region(packets'[i]) \cap Region(h) = {}
      BY <1>0, <2>7, <2>9
    <3> QED
      BY <3>1 DEF Cover
  <2>11. \A i \in DOMAIN packets' : Begins(packets'[i]) \/ Led(packets', i) \/ Resumes(packets'[i])
    <3>1. LET t == Tail(packets) IN
          \A i \in DOMAIN t : Begins(t[i]) \/ Led(t, i) \/ (SameBlock(h, t[i]) /\ To(h) = From(t[i])) \/ Resumes(t[i])
      BY <1>0, <2>1, Rest DEF h
    <3> QED
      BY <1>0, <2>9, <3>1
  <2>12. \A i \in DOMAIN packets' : Begins(packets'[i]) \/ Led(packets', i) \/ (Key(packets'[i]) \in D /\ Resumes(packets'[i]))
    <3> SUFFICES ASSUME NEW i \in DOMAIN packets', ~Begins(packets'[i]), ~Led(packets', i)
                 PROVE  Key(packets'[i]) \in D /\ Resumes(packets'[i])
      OBVIOUS
    <3>1. Resumes(packets'[i]) /\ packets'[i].op = "packed"
      BY <2>11 DEF Begins
    <3> QED
      BY <2>8, <3>1 DEF D, Resumes
  <2>13. Region(h) = h.start..(buf[1][2] - 1)
    BY <1>0, <2>5 DEF Region
  <2> QED
    BY <2>6, <2>10, <2>12, <2>13
<1>7. CASE Decompresses(buf)
  <2>1. Written(h.start, BytesOf(h.start, buf[1][2]))
    BY <1>2, <1>4, <1>7
  <2>2. /\ pc = "read" /\ packets # <<>> /\ packets' = Tail(packets)
        /\ UNCHANGED <<job, issuedRanges, partRequests, outOfPartRetries>>
    BY <1>0
  <2>3. (job.selector \/ job.server = "amuled") =>
           /\ Region(Head(packets)) = h.start..(buf[1][2] - 1) /\ Region(Head(packets)) \cap Cover(packets') = {}
           /\ \A i \in DOMAIN packets' :
                 \/ Begins(packets'[i]) \/ Led(packets', i)
                 \/ (Key(packets'[i]) \in D /\ Resumes(packets'[i]))
    BY <1>6 DEF h
  <2> DEFINE a == h.start
             b == buf[1][2]
  <2>4. a \in Nat /\ b \in Nat /\ a < b
    BY <1>1, <1>4
  <2> HIDE DEF a, b
  <2>5. Written(a, BytesOf(a, b))
    BY <2>1 DEF a, b
  <2>6. (job.selector \/ job.server = "amuled") =>
           /\ Region(Head(packets)) = a..(b - 1) /\ Region(Head(packets)) \cap Cover(packets') = {}
           /\ \A i \in DOMAIN packets' :
                 \/ Begins(packets'[i]) \/ Led(packets', i)
                 \/ (Key(packets'[i]) \in D /\ Resumes(packets'[i]))
    BY <2>3 DEF a, b
  <2> QED
    BY <1>3, <2>2, <2>4, <2>5, <2>6, WrittenKept
<1>8. CASE ~Decompresses(buf)
  <2>1. ~job.selector /\ job.server # "amuled"
    BY <1>6, <1>8
  <2>2. pc' = "failed" /\ UNCHANGED <<file, rewritten, receivedBytes, receivedBlocks, expectedBytes>>
    BY <1>2, <1>8 DEF NothingWritten
  <2>3. /\ packets' \in Seq(SubPackets)
        /\ \A i \in DOMAIN packets' : i + 1 \in DOMAIN packets /\ packets'[i] = packets[i + 1]
    BY <1>0, TailIs
  <2>4. BlocksTypeOK'
    <3>1. \A k \in DOMAIN pendingCompressed' :
             k \in Nat \X Nat /\ pendingCompressed'[k] \in Seq(Nat \X Nat \X Nat) /\ pendingCompressed'[k] # <<>>
      BY <1>0, <1>3 DEF BlocksTypeOK
    <3> QED
      BY <1>0, <2>2, <2>3, <3>1 DEF BlocksTypeOK
  <2>5. Placed'
    <3>1. \A i \in DOMAIN partRequests : GoodRequest(partRequests[i])'
      BY <1>0 DEF Placed, GoodRequest, GoodSlot
    <3>2. \A k : Window(k)' = Window(k)
      BY <1>0 DEF Window
    <3> QED
      BY <1>0, <1>3, <2>2, <2>3, <3>1, <3>2 DEF Placed
  <2> QED
    BY <1>0, <2>1, <2>4, <2>5 DEF BlocksInv
<1> QED
  BY <1>7, <1>8

(* A piece that is not the last is kept until the rest of its block comes. *)
LEMMA NextPieceKept ==
    ASSUME BlocksAssumption, BlocksInv, ReceiveCompressed, Len(Gathered(Head(packets))) < Head(packets).end
    PROVE  BlocksInv'
<1> DEFINE h == Head(packets)
           buf == Gathered(h)
<1>k. PICK k : k = Key(h)
  OBVIOUS
<1> DEFINE D == DOMAIN pendingCompressed \ {k}
<1>0. /\ BlocksTypeOK /\ Placed /\ packets \in Seq(SubPackets) /\ packets # <<>> /\ pc = "read" /\ h.op = "packed"
      /\ packets' = Tail(packets) /\ UNCHANGED <<job, issuedRanges, partRequests, outOfPartRetries>>
  BY DEF BlocksInv, BlocksTypeOK, ReceiveCompressed, ReceivePacket
<1>1. /\ Packed(h) /\ h.start \in Nat /\ h.end \in Nat /\ Stop(h) \in Nat /\ k \in Nat \X Nat
      /\ k[1] = h.start /\ k[2] = h.end
      /\ buf \in Seq(Nat \X Nat \X Nat) /\ buf # <<>>
      /\ \A i \in DOMAIN buf : buf[i][1] = h.start /\ h.start < buf[i][2]
  BY <1>0, <1>k, PackedIs DEF Key
<1>2. /\ pendingCompressed' = [x \in D \cup {k} |-> IF x = k THEN buf ELSE pendingCompressed[x]]
      /\ UNCHANGED <<file, rewritten, receivedBytes, receivedBlocks, pc, expectedBytes>>
  BY <1>k DEF ReceiveCompressed, NothingWritten
<1>3. /\ DOMAIN pendingCompressed' = D \cup {k} /\ pendingCompressed'[k] = buf
      /\ \A x \in D : x \in DOMAIN pendingCompressed /\ x # k /\ pendingCompressed'[x] = pendingCompressed[x]
  BY <1>2
<1>4. /\ packets' \in Seq(SubPackets)
      /\ \A i \in DOMAIN packets' : i + 1 \in DOMAIN packets /\ packets'[i] = packets[i + 1]
  BY <1>0, TailIs
<1>5. Len(buf) < h.end
  OBVIOUS
<1>6. h = packets[1] /\ 1 \in DOMAIN packets /\ h \in SubPackets
  BY <1>0, TailIs
<1>7. Cover(packets) = Region(h) \cup Cover(packets')
  BY <1>0, CoverTail
<1> HIDE DEF h, buf, D
<1>8. BlocksTypeOK'
  <2>1. \A x \in DOMAIN pendingCompressed' :
           x \in Nat \X Nat /\ pendingCompressed'[x] \in Seq(Nat \X Nat \X Nat) /\ pendingCompressed'[x] # <<>>
    <3> SUFFICES ASSUME NEW x \in DOMAIN pendingCompressed'
                 PROVE  x \in Nat \X Nat /\ pendingCompressed'[x] \in Seq(Nat \X Nat \X Nat) /\ pendingCompressed'[x] # <<>>
      OBVIOUS
    <3>1. CASE x = k
      BY <1>1, <1>3, <3>1
    <3>2. CASE x # k
      BY <1>0, <1>3, <3>2 DEF BlocksTypeOK
    <3> QED
      BY <3>1, <3>2
  <2> QED
    BY <1>0, <1>2, <1>4, <2>1 DEF BlocksTypeOK
<1>9. Placed'
  <2>1. \A i \in DOMAIN partRequests : GoodRequest(partRequests[i])'
    BY <1>0 DEF Placed, GoodRequest, GoodSlot
  <2>2. \A i : Window(i)' = Window(i)
    BY <1>0 DEF Window
  <2>3. \A x \in DOMAIN pendingCompressed' : \A i \in DOMAIN pendingCompressed'[x] :
           pendingCompressed'[x][i][1] = x[1] /\ x[1] < pendingCompressed'[x][i][2]
    <3> SUFFICES ASSUME NEW x \in D \cup {k}
                 PROVE  \A i \in DOMAIN pendingCompressed'[x] :
                           pendingCompressed'[x][i][1] = x[1] /\ x[1] < pendingCompressed'[x][i][2]
      BY <1>3
    <3>1. CASE x = k
      BY <1>1, <1>3, <3>1
    <3>2. CASE x # k
      BY <1>0, <1>3, <3>2 DEF Placed
    <3> QED
      BY <3>1, <3>2
  <2> QED
    BY <1>0, <1>2, <1>4, <2>1, <2>2, <2>3 DEF Placed
<1>10. ASSUME job.selector \/ job.server = "amuled"
       PROVE  /\ Running' /\ Separate' /\ Accounted'
              /\ Len(buf) = To(h)
  <2>0. Running /\ Separate /\ Accounted
    BY <1>10 DEF BlocksInv
  <2>1. /\ buf = Compressed(Block(h), 0, To(h)) /\ From(h) < To(h)
        /\ \/ From(h) = 0 /\ k \notin DOMAIN pendingCompressed
           \/ k \in DOMAIN pendingCompressed /\ Len(pendingCompressed[k]) = From(h)
    BY <1>0, <1>1, <1>k, <2>0, ArrivedSoFar DEF h, buf
  <2>2. From(h) \in Nat /\ To(h) \in Nat /\ Block(h).s = h.start /\ Block(h).e = Stop(h) /\ h.start < Stop(h)
    BY <1>1, <1>6, PieceOf
  <2>3. Len(buf) = To(h) /\ buf[1] = <<h.start, Stop(h), 0 + 1>> /\ buf[1][2] = Stop(h)
    <3>1. 0 < To(h) /\ 0 \in Nat
      BY <2>1, <2>2
    <3>2. Block(h).s \in Nat /\ Block(h).e \in Nat
      BY <1>1, <2>2
    <3>3. Len(Compressed(Block(h), 0, To(h))) = To(h) - 0
          /\ Compressed(Block(h), 0, To(h))[1] = <<Block(h).s, Block(h).e, 0 + 1>>
      BY <2>2, <3>1, <3>2, StretchIs
    <3>4. buf[1] = <<h.start, Stop(h), 0 + 1>>
      BY <2>1, <2>2, <3>3
    <3> QED
      BY <2>1, <2>2, <3>3, <3>4
  <2>4. HeldSpan(k)' = Region(h)
    BY <1>0, <1>1, <1>3, <2>3 DEF HeldSpan, Region
  <2>5. Stretch(k)'
    <3>1. [s |-> k[1], e |-> Stop(h)] = Block(h)
      BY <1>1 DEF Block
    <3>2. buf = Compressed([s |-> k[1], e |-> buf[1][2]], 0, Len(buf))
      BY <2>1, <2>3, <3>1
    <3> QED
      BY <1>1, <1>3, <1>5, <2>2, <2>3, <3>2 DEF Stretch
  <2>6. \A x \in D : (\A p : Fits(p, x)' <=> Fits(p, x)) /\ HeldSpan(x)' = HeldSpan(x) /\ (Stretch(x)' <=> Stretch(x))
    BY <1>3 DEF Fits, HeldSpan, Stretch
  <2>7. /\ Ordered(packets')
        /\ \A i \in DOMAIN packets' :
              Begins(packets'[i]) \/ Led(packets', i) \/ (SameBlock(h, packets'[i]) /\ To(h) = From(packets'[i])) \/ Resumes(packets'[i])
        /\ \A x \in DOMAIN pendingCompressed : \A i \in DOMAIN packets' :
              Region(packets'[i]) \cap HeldSpan(x) = {} \/ Fits(packets'[i], x)
    <3>1. LET t == Tail(packets) IN
          /\ Ordered(t)
          /\ \A i \in DOMAIN t : Begins(t[i]) \/ Led(t, i) \/ (SameBlock(h, t[i]) /\ To(h) = From(t[i])) \/ Resumes(t[i])
          /\ \A x \in DOMAIN pendingCompressed : \A i \in DOMAIN t :
                Region(t[i]) \cap HeldSpan(x) = {} \/ Fits(t[i], x)
      BY <1>0, <2>0, Rest DEF h
    <3> QED
      BY <1>0, <3>1
  <2>8. /\ \A i \in DOMAIN packets' :
              packets'[i].op = "packed" /\ Key(packets'[i]) = k => SameBlock(h, packets'[i]) /\ To(h) <= From(packets'[i])
        /\ \A i \in DOMAIN packets' : packets'[i].op = "packed" => From(packets'[i]) \in Nat
        /\ \A i \in DOMAIN packets' : SameBlock(h, packets'[i]) \/ Region(packets'[i]) \cap Region(h) = {}
    <3>1. LET t == Tail(packets) IN
          /\ \A i \in DOMAIN t : t[i].op = "packed" /\ Key(t[i]) = k => SameBlock(h, t[i]) /\ To(h) <= From(t[i])
          /\ \A i \in DOMAIN t : t[i].op = "packed" => From(t[i]) < To(t[i]) /\ To(t[i]) <= t[i].end /\ From(t[i]) \in Nat
          /\ \A i \in DOMAIN t : SameBlock(h, t[i]) \/ Region(t[i]) \cap Region(h) = {}
      BY <1>0, <1>k, <2>0, LaterPieces DEF h
    <3> QED
      BY <1>0, <3>1
  <2>9. ASSUME NEW i \in DOMAIN packets'
        PROVE  Begins(packets'[i]) \/ Led(packets', i) \/ Resumes(packets[i])'
    <3> SUFFICES ASSUME ~Begins(packets'[i]), ~Led(packets', i)
                 PROVE  Resumes(packets[i])'
      OBVIOUS
    <3>1. packets'[i].op = "packed"
      BY DEF Begins
    <3>2. CASE SameBlock(h, packets'[i]) /\ To(h) = From(packets'[i])
      <4>1. Key(packets'[i]) = k
        BY <1>k, <3>2 DEF SameBlock
      <4> QED
        BY <1>3, <2>3, <3>2, <4>1 DEF Resumes
    <3>3. CASE Resumes(packets'[i])
      <4>1. Key(packets'[i]) # k
        <5> SUFFICES ASSUME Key(packets'[i]) = k
                     PROVE  FALSE
          OBVIOUS
        <5>1. k \in DOMAIN pendingCompressed /\ Len(pendingCompressed[k]) = From(packets'[i]) /\ To(h) <= From(packets'[i])
              /\ From(packets'[i]) \in Nat
          BY <2>8, <3>1, <3>3 DEF Resumes
        <5> QED
          BY <2>1, <2>2, <5>1
      <4> QED
        BY <1>3, <3>3, <4>1 DEF Resumes, D
    <3> QED
      BY <2>7, <3>2, <3>3
  <2>10. ASSUME NEW x \in D \cup {k}, NEW i \in DOMAIN packets'
         PROVE  Region(packets'[i]) \cap HeldSpan(x)' = {} \/ Fits(packets[i], x)'
    <3>1. CASE x \in D
      BY <1>3, <2>6, <2>7, <3>1
    <3>2. CASE x = k
      <4>1. CASE SameBlock(h, packets'[i])
        <5>1. packets'[i].op = "packed" /\ Key(packets'[i]) = k /\ Stop(packets'[i]) = Stop(h)
          BY <1>k, <4>1 DEF SameBlock
        <5> QED
          BY <1>3, <2>3, <2>8, <3>2, <5>1 DEF Fits
      <4>2. CASE Region(packets'[i]) \cap Region(h) = {}
        BY <2>4, <3>2, <4>2
      <4> QED
        BY <2>8, <4>1, <4>2
    <3> QED
      BY <3>1, <3>2
  <2>11. \A x \in D \cup {k} : Stretch(x)'
    BY <1>3, <2>0, <2>5, <2>6 DEF Running
  <2>12. Running'
    BY <1>3, <2>7, <2>9, <2>10, <2>11 DEF Running
  <2>13. Filled' = Filled /\ Territory' = Territory
    BY <1>0, <1>2 DEF Filled, Territory
  <2>14. Held' \subseteq Held \cup Region(h)
    BY <1>3, <2>4, <2>6 DEF Held
  <2>15. Separate'
    BY <1>0, <1>2, <1>7, <2>0, <2>13, <2>14 DEF Separate
  <2>16. Accounted'
    BY <1>2, <2>0, <2>13 DEF Accounted
  <2> QED
    BY <2>3, <2>12, <2>15, <2>16
<1>11. ASSUME job.server = "amuled"
       PROVE  Balanced'
  <2>0. Balanced
    BY <1>11 DEF BlocksInv
  <2>1. To(h) # h.end
    BY <1>1, <1>5, <1>10, <1>11
  <2>2. PICK j \in DOMAIN packets : 1 < j /\ SameBlock(h, packets[j])
    BY <1>0, <1>6, <2>0, <2>1 DEF Balanced, Complete, Followed
  <2>3. Region(packets[j]) = Region(h)
    BY <2>2 DEF SameBlock, Region, Key
  <2>4. j - 1 \in DOMAIN packets' /\ packets'[j - 1] = packets[j]
    BY <1>0, <2>2, TailIs
  <2>5. Region(h) \subseteq Cover(packets')
    BY <1>4, <2>3, <2>4, RegionCovered
  <2>6. Cover(packets') = Cover(packets)
    BY <1>7, <2>5
  <2>7. Complete(packets')
    BY <1>0, <2>0, CompleteTail DEF Balanced
  <2>8. \A i \in DOMAIN packets' : packets'[i].op \notin Marks
    BY <1>4, <2>0 DEF Balanced
  <2> QED
    BY <1>0, <1>2, <2>0, <2>6, <2>7, <2>8 DEF Balanced
<1> QED
  BY <1>0, <1>8, <1>9, <1>10, <1>11 DEF BlocksInv

(* Every step keeps the invariant.                                         *)
LEMMA BlocksInvStep ==
    ASSUME BlocksAssumption, BlocksInv, [BlocksNext]_blocksVars
    PROVE  BlocksInv'
<1>1. CASE AskForParts
  <2>1. /\ pc = "ask" /\ ~Finished
        /\ UNCHANGED <<job, receivedBytes, receivedBlocks, outOfPartRetries, pendingCompressed, packets, file, rewritten>>
    BY <1>1 DEF AskForParts
  <2>2. PICK q \in IF job.selector THEN SelectedRanges ELSE {LinearRanges} :
           IF q[1] = Unused
           THEN pc' = "done" /\ UNCHANGED <<expectedBytes, issuedRanges, partRequests>>
           ELSE /\ pc' = "read"
                /\ partRequests' = Append(partRequests, BuildRequestParts(q))
                /\ expectedBytes' = Size(q[1]) + Size(q[2]) + Size(q[3])
                /\ issuedRanges' = IF job.selector THEN (issuedRanges \cup {q[i] : i \in Slots}) \ {Unused} ELSE issuedRanges
    BY <1>1 DEF AskForParts
  <2>3. CASE q[1] = Unused
    BY <2>1, <2>2, <2>3, OverKept
  <2>4. CASE q[1] # Unused
    BY <2>1, <2>2, <2>4, AskingKept
  <2> QED
    BY <2>3, <2>4
<1>2. CASE TransferOver
  BY <1>2, OverKept DEF TransferOver
<1>3. CASE Serve
  BY <1>3, ServeKept
<1>4. CASE ServeBriefly
  BY <1>4, ServeBrieflyKept
<1>5. CASE ReceivePart
  BY <1>5, ReceivePartKept
<1>6. CASE ReceiveCompressed
  BY <1>6, LastPieceKept, NextPieceKept
<1>7. CASE ReceiveOutOfParts
  <2>1. expectedBytes \in Int /\ outOfPartRetries \in Nat
    BY DEF BlocksInv, BlocksTypeOK
  <2> QED
    BY <1>7, <2>1, MarkKept DEF ReceiveOutOfParts, ReceivePacket, NothingWritten, Marks
<1>8. CASE ReceiveEnd
  <2>1. expectedBytes \in Int /\ outOfPartRetries \in Nat
    BY DEF BlocksInv, BlocksTypeOK
  <2> QED
    BY <1>8, <2>1, MarkKept DEF ReceiveEnd, ReceivePacket, NothingWritten, Marks
<1>9. CASE IdleTimeout
  BY <1>9, OverKept DEF IdleTimeout
<1>10. CASE UNCHANGED blocksVars
  <2>1. UNCHANGED <<job, pc, receivedBytes, receivedBlocks, expectedBytes, outOfPartRetries, issuedRanges,
                    pendingCompressed, partRequests, packets, file, rewritten>>
    BY <1>10 DEF blocksVars
  <2>2. BlocksTypeOK'
    BY <2>1 DEF BlocksInv, BlocksTypeOK
  <2>3. Placed'
    BY <2>1 DEF BlocksInv, Placed, GoodRequest, GoodSlot, Window
  <2>4. ASSUME job.selector \/ job.server = "amuled"
        PROVE  Running' /\ Separate' /\ Accounted'
    <3>1. Running' /\ Separate'
      BY <2>1, <2>4, RunningStays, SeparateStays DEF BlocksInv
    <3>2. Accounted'
      BY <2>1, <2>4 DEF BlocksInv, Accounted, Filled
    <3> QED
      BY <3>1, <3>2
  <2>5. ASSUME job.server = "amuled"
        PROVE  Balanced'
    BY <2>1, <2>5 DEF BlocksInv, Balanced
  <2> QED
    BY <2>1, <2>2, <2>3, <2>4, <2>5 DEF BlocksInv
<1> QED
  BY <1>1, <1>2, <1>3, <1>4, <1>5, <1>6, <1>7, <1>8, <1>9, <1>10 DEF BlocksNext

(* With it, what a transfer promises: a region all of whose bytes have     *)
(* been counted is filled, and a round waits only for what is on its way.  *)
LEMMA BlocksInvServes ==
    ASSUME BlocksAssumption, BlocksInv
    PROVE  ServedAsAsked
<1>0. job \in Jobs /\ job.base \in Nat /\ job.bound \in Nat /\ job.base <= job.bound /\ job.bound <= job.size /\ job.size \in Nat
  BY JobIs DEF BlocksInv, BlocksTypeOK
<1>1. \A o \in DOMAIN file : file[o] \in {-1, o}
  BY DEF BlocksInv, Placed
<1>2. ASSUME job.selector \/ job.server = "amuled"
      PROVE  ~rewritten /\ pc # "failed"
  BY <1>2 DEF BlocksInv, Accounted
<1>3. ASSUME job.selector \/ job.server = "amuled", job.base + receivedBytes >= job.bound
      PROVE  \A o \in job.base..(job.bound - 1) : file[o] = o
  <2> DEFINE All == job.base..(job.bound - 1)
  <2>1. Filled \subseteq All /\ Cardinality(Filled) = receivedBytes /\ receivedBytes \in Nat
    BY <1>3 DEF BlocksInv, Separate, Accounted, BlocksTypeOK
  <2>2. IsFiniteSet(All) /\ Cardinality(All) = job.bound - job.base
    <3>1. [s |-> job.base, e |-> job.bound] \in Pair /\ Span([s |-> job.base, e |-> job.bound]) = All
          /\ Size([s |-> job.base, e |-> job.bound]) = job.bound - job.base
      BY <1>0 DEF Pair, Span, Size
    <3> QED
      BY <3>1, SpanSize
  <2>3. Filled = All
    <3>1. Cardinality(Filled) <= Cardinality(All) /\ (Cardinality(Filled) = Cardinality(All) => Filled = All)
      BY <2>1, <2>2, FS_Subset
    <3> QED
      BY <1>0, <1>3, <2>1, <2>2, <3>1
  <2>4. \A o \in Filled : o \in DOMAIN file /\ file[o] # -1
    BY DEF Filled
  <2> QED
    BY <1>1, <2>3, <2>4
<1>4. ASSUME job.server = "amuled", pc = "read", partRequests = <<>>
      PROVE  packets # <<>>
  <2> SUFFICES ASSUME packets = <<>>
               PROVE  FALSE
    OBVIOUS
  <2>1. Asked(partRequests) \cup Cover(packets) = {}
    BY <1>4 DEF Asked, Cover
  <2>2. Cardinality(Asked(partRequests) \cup Cover(packets)) = 0
    BY <2>1, FS_EmptySet
  <2> QED
    BY <1>4, <2>2 DEF BlocksInv, Balanced
<1> QED
  BY <1>1, <1>2, <1>3, <1>4 DEF ServedAsAsked

(* PeerClient.transfer and UploadSession._send_block count the same bytes: *)
(* whatever is asked for, split, compressed and cut off, every byte that   *)
(* is written is the file's at that place; with AmuleD's engine or a       *)
(* selector no byte comes twice, no packet fails and a transfer that says  *)
(* it is complete has its whole region, and with AmuleD's engine no round  *)
(* waits for bytes that will not come.                                     *)
THEOREM TransferServesAsAsked ==
    ASSUME BlocksAssumption
    PROVE  BlocksSpec => []ServedAsAsked
<1>1. BlocksInit => BlocksInv
  BY BlocksInvInit
<1>2. BlocksInv /\ [BlocksNext]_blocksVars => BlocksInv'
  BY BlocksInvStep
<1>3. BlocksInv => ServedAsAsked
  BY BlocksInvServes
<1> QED
  BY <1>1, <1>2, <1>3, PTL DEF BlocksSpec
=============================================================================
