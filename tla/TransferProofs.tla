---------------------------- MODULE TransferProofs ---------------------------
(***************************************************************************)
(* What the sessions of a download ask for (Ics), and the stream that      *)
(* carries it through a NAT (Natt).                                        *)
(***************************************************************************)
EXTENDS Ics, Natt, Induction, SequenceTheorems

-----------------------------------------------------------------------------
(* Ics, for any file, part and block size, any sessions and any parts they *)
(* have: no byte is asked for twice, the registry of requested ranges is   *)
(* exact, and the selector finds a free block when there is one.           *)
(*                                                                         *)
(* The argument: the ranges in flight are windows that were cut from the   *)
(* gaps, and gaps only shrink.  So a later window is inside such a range   *)
(* or apart from it (InsideOrApart), and shrink_to_avoid, which could cut  *)
(* a window, gives it whole or not at all (ShrinkIs).                      *)

(* A block of a part: the offsets of one EMBLOCK cell.                     *)
Cell(p, c) == {o \in PartBytes(p) : (o - p * PartSize) \div EmblockSize = c}
Cells == 0 .. PartSize \div EmblockSize

(* A range that the gaps of its block do not stick out of: gaps only       *)
(* shrink, so a window is inside such a range or apart from it.            *)
ClosedIn(r, p, c) ==
    /\ Bytes(r) \subseteq Cell(p, c)
    /\ r[1] - 1 \notin missing \cap Cell(p, c)
    /\ r[2] + 1 \notin missing \cap Cell(p, c)
Closed(r) == r \in Ranges /\ \E p \in Parts : \E c \in Cells : ClosedIn(r, p, c)

Within(w, r) == r[1] <= w[1] /\ w[2] <= r[2]
Apart(w, r) == w[2] < r[1] \/ r[2] < w[1]

-----------------------------------------------------------------------------
(* The offsets of a part.                                                  *)
LEMMA PartBytesAre ==
    ASSUME NEW p \in Parts, IcsAssumption
    PROVE  /\ p \in Nat /\ p * PartSize \in Nat
           /\ \A o \in PartBytes(p) : o \in Nat /\ o < TotalSize /\ p * PartSize <= o /\ o < p * PartSize + PartSize
<1>1. p \in Nat /\ PartSize \in Nat /\ TotalSize \in Nat
  BY DEF Parts, IcsAssumption
<1>2. p * PartSize \in Nat /\ (p + 1) * PartSize = p * PartSize + PartSize
  BY <1>1
<1> DEFINE a == p * PartSize
           b == (p + 1) * PartSize
           m == Min({b, TotalSize})
<1>3. a \in Nat /\ b = a + PartSize
  BY <1>2
<1>4. PartBytes(p) = a .. (m - 1)
  BY DEF PartBytes
<1> HIDE DEF a, b
<1>5. m \in {b, TotalSize} /\ m <= b /\ m <= TotalSize
  <2>1. b \in Nat
    BY <1>1, <1>3
  <2>2. \E x \in {b, TotalSize} : \A y \in {b, TotalSize} : x <= y
    <3>1. CASE b <= TotalSize
      BY <1>1, <2>1, <3>1
    <3>2. CASE TotalSize <= b
      BY <1>1, <2>1, <3>2
    <3> QED
      BY <1>1, <2>1, <3>1, <3>2
  <2> QED
    BY <2>2 DEF Min
<1> HIDE DEF m
<1>6. \A o \in a .. (m - 1) : o \in Nat /\ o < TotalSize /\ a <= o /\ o < a + PartSize
  BY <1>1, <1>3, <1>5
<1> QED
  BY <1>1, <1>3, <1>4, <1>6 DEF a

(* An offset is in one block.                                              *)
LEMMA CellsApart ==
    ASSUME IcsAssumption, NEW p \in Parts, NEW q \in Parts, NEW c, NEW d, NEW o \in Cell(p, c), o \in Cell(q, d)
    PROVE  p = q /\ c = d
<1>1. PartSize \in Nat
  BY DEF IcsAssumption
<1>2. /\ p \in Nat /\ q \in Nat /\ o \in Nat /\ p * PartSize \in Nat /\ q * PartSize \in Nat
      /\ p * PartSize <= o /\ o < p * PartSize + PartSize /\ q * PartSize <= o /\ o < q * PartSize + PartSize
  BY PartBytesAre DEF Cell
<1>3. ~(p < q)
  <2> SUFFICES ASSUME p < q
               PROVE  FALSE
    OBVIOUS
  <2>1. (p + 1) * PartSize = p * PartSize + PartSize /\ (p + 1) * PartSize <= q * PartSize
    BY <1>1, <1>2, Products
  <2> QED
    BY <1>1, <1>2, <2>1
<1>4. ~(q < p)
  <2> SUFFICES ASSUME q < p
               PROVE  FALSE
    OBVIOUS
  <2>1. (q + 1) * PartSize = q * PartSize + PartSize /\ (q + 1) * PartSize <= p * PartSize
    BY <1>1, <1>2, Products
  <2> QED
    BY <1>1, <1>2, <2>1
<1>5. p = q
  BY <1>2, <1>3, <1>4
<1> QED
  BY <1>5 DEF Cell

(* A window is a run of gaps in one block.                                 *)
LEMMA WindowIs ==
    ASSUME NEW p \in Parts, NEW w
    PROVE  w \in Windows(p) <=> \E c \in Cells : w \in Runs(missing \cap Cell(p, c))
<1>1. \A c : {o \in missing \cap PartBytes(p) : (o - p * PartSize) \div EmblockSize = c} = missing \cap Cell(p, c)
  BY DEF Cell
<1> QED
  BY <1>1 DEF Windows, Cells

(* A window is a range of gaps of its part, and closed.                    *)
LEMMA WindowBytes ==
    ASSUME IcsAssumption, NEW p \in Parts, NEW w \in Windows(p)
    PROVE  /\ w \in Ranges /\ w[1] \in Nat /\ w[2] \in Nat
           /\ Bytes(w) \subseteq missing \cap PartBytes(p)
           /\ Closed(w)
<1>1. PICK c \in Cells : w \in Runs(missing \cap Cell(p, c))
  BY WindowIs
<1>2. /\ w \in (missing \cap Cell(p, c)) \X (missing \cap Cell(p, c)) /\ w[1] <= w[2]
      /\ Bytes(w) \subseteq missing \cap Cell(p, c)
      /\ w[1] - 1 \notin missing \cap Cell(p, c) /\ w[2] + 1 \notin missing \cap Cell(p, c)
  BY <1>1 DEF Runs
<1>3. Cell(p, c) \subseteq PartBytes(p) /\ Cell(p, c) \subseteq Offsets
  <2>1. Cell(p, c) \subseteq PartBytes(p)
    BY DEF Cell
  <2>2. \A o \in PartBytes(p) : o \in Offsets
    <3> SUFFICES ASSUME NEW o \in PartBytes(p)
                 PROVE  o \in Offsets
      OBVIOUS
    <3>1. o \in Nat /\ o < TotalSize /\ TotalSize \in Nat
      BY PartBytesAre DEF IcsAssumption
    <3> QED
      BY <3>1 DEF Offsets
  <2> QED
    BY <2>1, <2>2
<1>4. w \in Offsets \X Offsets /\ w[1] \in Offsets /\ w[2] \in Offsets
  BY <1>2, <1>3
<1>5. w \in Ranges /\ w[1] \in Nat /\ w[2] \in Nat
  BY <1>2, <1>4 DEF Ranges, Offsets
<1>6. ClosedIn(w, p, c)
  BY <1>2 DEF ClosedIn
<1>7. Bytes(w) \subseteq missing \cap PartBytes(p)
  BY <1>2, <1>3
<1> QED
  BY <1>5, <1>6, <1>7 DEF Closed

(* A range that was a window of its block either holds a window or none of *)
(* its bytes.                                                              *)
LEMMA InsideOrApart ==
    ASSUME IcsAssumption, NEW p \in Parts, NEW w \in Windows(p), NEW r, Closed(r)
    PROVE  Within(w, r) \/ Apart(w, r)
<1> SUFFICES ASSUME ~Apart(w, r)
             PROVE  Within(w, r)
  OBVIOUS
<1>1. w \in Ranges /\ w[1] \in Nat /\ w[2] \in Nat /\ w[1] <= w[2]
  BY WindowBytes DEF Ranges
<1>2. r[1] \in Int /\ r[2] \in Int /\ r[1] <= r[2]
  BY DEF Closed, Ranges, Offsets
<1>3. PICK c \in Cells : w \in Runs(missing \cap Cell(p, c))
  BY WindowIs
<1>4. Bytes(w) \subseteq missing \cap Cell(p, c)
  BY <1>3 DEF Runs
<1>5. PICK q \in Parts, d \in Cells : ClosedIn(r, q, d)
  BY DEF Closed
<1>6. PICK o \in Int : w[1] <= o /\ o <= w[2] /\ r[1] <= o /\ o <= r[2]
  <2>1. w[1] <= r[2] /\ r[1] <= w[2]
    BY <1>1, <1>2 DEF Apart
  <2>2. CASE w[1] <= r[1]
    BY <1>1, <1>2, <2>1, <2>2
  <2>3. CASE r[1] <= w[1]
    BY <1>1, <1>2, <2>1, <2>3
  <2> QED
    BY <1>1, <1>2, <2>2, <2>3
<1>7. o \in Bytes(w) /\ o \in Bytes(r)
  BY <1>1, <1>2, <1>6 DEF Bytes
<1>8. p = q /\ c = d
  BY <1>4, <1>5, <1>7, CellsApart DEF ClosedIn
<1>9. r[1] - 1 \notin Bytes(w) /\ r[2] + 1 \notin Bytes(w)
  BY <1>4, <1>5, <1>8 DEF ClosedIn
<1>10. r[1] <= w[1]
  <2> SUFFICES ASSUME w[1] < r[1]
               PROVE  FALSE
    BY <1>1, <1>2
  <2>1. r[1] - 1 \in w[1] .. w[2]
    BY <1>1, <1>2, <1>6
  <2> QED
    BY <1>9, <2>1 DEF Bytes
<1>11. w[2] <= r[2]
  <2> SUFFICES ASSUME r[2] < w[2]
               PROVE  FALSE
    BY <1>1, <1>2
  <2>1. r[2] + 1 \in w[1] .. w[2]
    BY <1>1, <1>2, <1>6
  <2> QED
    BY <1>9, <2>1 DEF Bytes
<1> QED
  BY <1>10, <1>11 DEF Within

(* A range that is not longer than a block.                                *)
LEMMA BlockSize ==
    ASSUME IcsAssumption, NEW p \in Parts, NEW w \in Windows(p)
    PROVE  Cardinality(Bytes(w)) <= EmblockSize
<1>1. PICK c \in Cells : w \in Runs(missing \cap Cell(p, c))
  BY WindowIs
<1>2. Bytes(w) \subseteq Cell(p, c)
  BY <1>1 DEF Runs
<1>3. EmblockSize \in Nat \ {0} /\ PartSize \in Nat /\ c \in Nat
  BY DEF IcsAssumption, Cells
<1> DEFINE a == p * PartSize + c * EmblockSize
           b == a + EmblockSize - 1
<1>4. p * PartSize \in Nat /\ c * EmblockSize \in Nat
  BY <1>3, PartBytesAre
<1>5. ASSUME NEW o \in Cell(p, c)
      PROVE  o \in a .. b
  <2> DEFINE x == o - p * PartSize
  <2>1. x \in Nat /\ o \in Nat /\ x \div EmblockSize = c
    BY <1>4, PartBytesAre DEF Cell
  <2>2. c * EmblockSize <= x /\ x < c * EmblockSize + EmblockSize
    <3> HIDE DEF x
    <3>1. x \in Int /\ EmblockSize \in Int /\ EmblockSize > 0
      BY <1>3, <2>1
    <3>2. EmblockSize * (x \div EmblockSize) <= x
      BY <3>1
    <3>3. x < EmblockSize * (x \div EmblockSize) + EmblockSize
      BY <3>1
    <3>4. EmblockSize * c = c * EmblockSize
      BY <1>3
    <3> QED
      BY <2>1, <3>2, <3>3, <3>4
  <2> DEFINE y == c * EmblockSize
             z == p * PartSize
  <2>3. z \in Nat /\ y \in Nat /\ y <= o - z /\ o - z < y + EmblockSize
    BY <1>4, <2>2
  <2> HIDE DEF y, z
  <2>4. o \in (z + y) .. (z + y + EmblockSize - 1)
    BY <1>3, <2>1, <2>3
  <2> QED
    BY <2>4 DEF y, z
<1>6. a \in Nat /\ b \in Int /\ b - a + 1 = EmblockSize
  <2> DEFINE y == c * EmblockSize
             z == p * PartSize
  <2> HIDE DEF y, z
  <2>1. y \in Nat /\ z \in Nat
    BY <1>4 DEF y, z
  <2>2. z + y \in Nat /\ z + y + EmblockSize - 1 \in Int /\ (z + y + EmblockSize - 1) - (z + y) + 1 = EmblockSize
    BY <1>3, <2>1
  <2> QED
    BY <2>2 DEF y, z
<1> HIDE DEF a, b
<1>7. Bytes(w) \subseteq a .. b
  BY <1>2, <1>5
<1>8. IsFiniteSet(a .. b) /\ Cardinality(a .. b) = EmblockSize
  <2>1. IsFiniteSet(a .. b) /\ Cardinality(a .. b) = IF a > b THEN 0 ELSE b - a + 1
    BY <1>6, FS_Interval
  <2>2. a <= b
    BY <1>3, <1>6
  <2> QED
    BY <1>6, <2>1, <2>2
<1> QED
  BY <1>7, <1>8, FS_Subset

IsRange(r) == r \in Int \X Int /\ r[1] <= r[2]
Blocked(w, ranges) == \E i \in 1 .. Len(ranges) : Within(w, ranges[i])

(* A range is not None.                                                    *)
LEMMA RangeIsNotNone == ASSUME NEW w, IsRange(w) PROVE w # << >>
BY DEF IsRange

(* A range that holds a window takes all of it, one apart from it nothing. *)
LEMMA ClipIs ==
    ASSUME NEW w, NEW r, IsRange(w), IsRange(r), Within(w, r) \/ Apart(w, r)
    PROVE  /\ Clip(w, r) = IF Within(w, r) THEN << >> ELSE w
           /\ Clip(<< >>, r) = << >>
           /\ w # << >>
<1>1. w # << >>
  BY DEF IsRange
<1>2. w[1] \in Int /\ w[2] \in Int /\ w[1] <= w[2] /\ r[1] \in Int /\ r[2] \in Int /\ r[1] <= r[2]
  BY DEF IsRange
<1>3. CASE Within(w, r)
  BY <1>1, <1>2, <1>3 DEF Clip, Within
<1>4. CASE Apart(w, r)
  <2>1. ~(w[2] < w[1]) /\ ~(r[1] <= w[1] /\ w[2] <= r[2]) /\ ~(r[1] <= w[1] /\ w[1] <= r[2])
        /\ ~(r[1] <= w[2] /\ w[2] <= r[2])
    BY <1>2, <1>4 DEF Apart
  <2>2. ~Within(w, r)
    BY <2>1 DEF Within
  <2>3. Clip(w, r) = w
    BY <1>1, <2>1 DEF Clip
  <2> QED
    BY <1>1, <2>2, <2>3 DEF Clip
<1> QED
  BY <1>3, <1>4

(* A window that every range holds or leaves alone is given or refused as  *)
(* a whole.                                                                *)
LEMMA PassIs ==
    ASSUME NEW w, IsRange(w), NEW ranges, Len(ranges) \in Nat,
           \A i \in 1 .. Len(ranges) : IsRange(ranges[i]) /\ (Within(w, ranges[i]) \/ Apart(w, ranges[i])),
           NEW v \in {w, << >>}
    PROVE  Pass(v, ranges) = IF v = << >> \/ Blocked(w, ranges) THEN << >> ELSE w
<1> DEFINE N == Len(ranges)
           Gone(i) == v = << >> \/ \E j \in 1 .. i : Within(w, ranges[j])
           At(i) == IF Gone(i) THEN << >> ELSE w
           g == [i \in 0 .. N |-> At(i)]
           clipped == CHOOSE f : f = [i \in 0 .. N |-> IF i = 0 THEN v ELSE Clip(f[i - 1], ranges[i])]
<1>1. At(0) = v
  OBVIOUS
<1>2. ASSUME NEW i \in 1 .. N
      PROVE  At(i) = Clip(At(i - 1), ranges[i])
  <2>0. i - 1 \in Nat /\ \A j \in Int : j \in 1 .. i <=> j \in 1 .. (i - 1) \/ j = i
    OBVIOUS
  <2>1. Gone(i) <=> Gone(i - 1) \/ Within(w, ranges[i])
    BY <2>0
  <2>2. Clip(w, ranges[i]) = (IF Within(w, ranges[i]) THEN << >> ELSE w) /\ Clip(<< >>, ranges[i]) = << >>
    BY ClipIs
  <2> HIDE DEF Gone
  <2> QED
    BY <2>1, <2>2
<1> HIDE DEF At
<1>3. g = [i \in 0 .. N |-> IF i = 0 THEN v ELSE Clip(g[i - 1], ranges[i])]
  <2> SUFFICES ASSUME NEW i \in 0 .. N
               PROVE  At(i) = IF i = 0 THEN v ELSE Clip(g[i - 1], ranges[i])
    OBVIOUS
  <2>1. CASE i = 0
    BY <1>1, <2>1
  <2>2. CASE i # 0
    <3>1. i \in 1 .. N /\ i - 1 \in 0 .. N
      BY <2>2
    <3>2. g[i - 1] = At(i - 1)
      BY <3>1
    <3> QED
      BY <1>2, <2>2, <3>1, <3>2
  <2> QED
    BY <2>1, <2>2
<1>4. clipped = [i \in 0 .. N |-> IF i = 0 THEN v ELSE Clip(clipped[i - 1], ranges[i])]
  BY <1>3
<1> HIDE DEF clipped
<1> DEFINE T == {i \in 0 .. N : clipped[i] = At(i)}
<1>5. 0 \in T
  BY <1>1, <1>4
<1>6. ASSUME NEW i \in 0 .. (N - 1), i \in T
      PROVE  i + 1 \in T
  <2>1. i + 1 \in 1 .. N /\ i + 1 \in 0 .. N /\ (i + 1) - 1 = i /\ i + 1 # 0
    OBVIOUS
  <2>2. clipped[i + 1] = Clip(clipped[i], ranges[i + 1])
    BY <1>4, <2>1
  <2>3. At(i + 1) = Clip(At(i), ranges[i + 1])
    BY <1>2, <2>1
  <2> QED
    BY <1>6, <2>1, <2>2, <2>3
<1>7. \A i \in 0 .. N : i \in T
  <2> HIDE DEF T
  <2> QED
    BY <1>5, <1>6, NumbersUpTo
<1>8. clipped[N] = At(N)
  BY <1>7
<1>9. Pass(v, ranges) = clipped[N]
  BY DEF Pass, clipped
<1> QED
  BY <1>8, <1>9 DEF At, Blocked

(* The passes of shrink_to_avoid end where the first one does.             *)
LEMMA ShrinkIs ==
    ASSUME NEW w, IsRange(w), NEW ranges, Len(ranges) \in Nat,
           \A i \in 1 .. Len(ranges) : IsRange(ranges[i]) /\ (Within(w, ranges[i]) \/ Apart(w, ranges[i]))
    PROVE  ShrinkToAvoid(w, ranges) = IF Blocked(w, ranges) THEN << >> ELSE w
<1> DEFINE N == Len(ranges) + 1
           At(k) == IF k # 0 /\ Blocked(w, ranges) THEN << >> ELSE w
           g == [k \in 0 .. N |-> At(k)]
           passed == CHOOSE f : f = [k \in 0 .. N |-> IF k = 0 THEN w ELSE Pass(f[k - 1], ranges)]
<1>a. w # << >> /\ ~(w[2] < w[1])
  BY DEF IsRange
<1>1. At(0) = w
  OBVIOUS
<1>2. ASSUME NEW k \in 1 .. N
      PROVE  At(k) = Pass(At(k - 1), ranges)
  <2>1. Pass(w, ranges) = (IF Blocked(w, ranges) THEN << >> ELSE w) /\ Pass(<< >>, ranges) = << >>
    BY <1>a, PassIs
  <2> QED
    BY <2>1
<1> HIDE DEF At
<1>3. g = [k \in 0 .. N |-> IF k = 0 THEN w ELSE Pass(g[k - 1], ranges)]
  <2> SUFFICES ASSUME NEW k \in 0 .. N
               PROVE  At(k) = IF k = 0 THEN w ELSE Pass(g[k - 1], ranges)
    OBVIOUS
  <2>1. CASE k = 0
    BY <1>1, <2>1
  <2>2. CASE k # 0
    <3>1. k \in 1 .. N /\ k - 1 \in 0 .. N
      BY <2>2
    <3>2. g[k - 1] = At(k - 1)
      BY <3>1
    <3> QED
      BY <1>2, <2>2, <3>1, <3>2
  <2> QED
    BY <2>1, <2>2
<1>4. passed = [k \in 0 .. N |-> IF k = 0 THEN w ELSE Pass(passed[k - 1], ranges)]
  BY <1>3
<1> HIDE DEF passed
<1> DEFINE T == {k \in 0 .. N : passed[k] = At(k)}
<1>5. 0 \in T
  BY <1>1, <1>4
<1>6. ASSUME NEW k \in 0 .. (N - 1), k \in T
      PROVE  k + 1 \in T
  <2>1. k + 1 \in 1 .. N /\ k + 1 \in 0 .. N /\ (k + 1) - 1 = k /\ k + 1 # 0
    OBVIOUS
  <2>2. passed[k + 1] = Pass(passed[k], ranges)
    BY <1>4, <2>1
  <2>3. At(k + 1) = Pass(At(k), ranges)
    BY <1>2, <2>1
  <2> QED
    BY <1>6, <2>1, <2>2, <2>3
<1>7. \A k \in 0 .. N : k \in T
  <2>1. N \in Nat
    OBVIOUS
  <2> HIDE DEF T, N
  <2> QED
    BY <1>5, <1>6, <2>1, NumbersUpTo
<1>8. passed[N] = At(N) /\ N # 0
  BY <1>7
<1>9. ShrinkToAvoid(w, ranges) = IF passed[N] = << >> \/ passed[N][2] < passed[N][1] THEN << >> ELSE passed[N]
  BY DEF ShrinkToAvoid, passed
<1> QED
  BY <1>8, <1>9, <1>a DEF At

(* The list of a finite set names its elements and nothing else.           *)
LEMMA ListOfSet ==
    ASSUME NEW S, IsFiniteSet(S)
    PROVE  /\ SetToSeq(S) \in Seq(S)
           /\ \A x \in S : \E i \in 1 .. Len(SetToSeq(S)) : SetToSeq(S)[i] = x
<1> DEFINE n == Cardinality(S)
           f == SetToSeq(S)
<1>1. n \in Nat /\ ExistsBijection(1 .. n, S)
  BY FS_CardinalityType
<1>2. PICK g \in [1 .. n -> S] : IsInjective(g)
  <2>1. PICK g : g \in Bijection(1 .. n, S)
    BY <1>1 DEF ExistsBijection
  <2>2. g \in [1 .. n -> S] /\ IsInjective(g)
    BY <2>1 DEF Bijection, Injection, IsInjective
  <2> QED
    BY <2>2
<1>3. f \in [1 .. n -> S] /\ IsInjective(f)
  BY <1>2 DEF SetToSeq
<1> HIDE DEF n, f
<1>4. f \in Injection(1 .. n, S)
  BY <1>3 DEF Injection, IsInjective
<1>5. IsFiniteSet(1 .. n) /\ Cardinality(1 .. n) = n
  <2>1. IsFiniteSet(1 .. n) /\ Cardinality(1 .. n) = IF 1 > n THEN 0 ELSE n - 1 + 1
    BY <1>1, FS_Interval
  <2> QED
    BY <1>1, <2>1
<1>6. f \in Surjection(1 .. n, S)
  BY <1>4, <1>5, FS_Injection DEF n
<1>7. f \in Seq(S) /\ Len(f) = n
  BY <1>1, <1>3
<1> QED
  BY <1>6, <1>7 DEF Surjection, f

(* next_block_in_part returns a window that is not asked for, if there is  *)
(* one.                                                                    *)
LEMMA NextBlockIs ==
    ASSUME IcsAssumption, NEW p \in Parts, NEW ranges, Len(ranges) \in Nat,
           \A i \in 1 .. Len(ranges) : Closed(ranges[i])
    PROVE  /\ \/ NextBlockInPart(p, ranges) = << >>
              \/ NextBlockInPart(p, ranges) \in Windows(p) /\ ~Blocked(NextBlockInPart(p, ranges), ranges)
           /\ NextBlockInPart(p, ranges) = << >> => \A w \in Windows(p) : Blocked(w, ranges)
<1>1. ASSUME NEW w \in Windows(p)
      PROVE  /\ IsRange(w) /\ w[1] \in Nat /\ w # << >>
             /\ ShrinkToAvoid(w, ranges) = IF Blocked(w, ranges) THEN << >> ELSE w
  <2>1. IsRange(w) /\ w[1] \in Nat
    BY WindowBytes DEF IsRange, Ranges
  <2>2. w # << >>
    BY <2>1, RangeIsNotNone
  <2>3. \A i \in 1 .. Len(ranges) : IsRange(ranges[i]) /\ (Within(w, ranges[i]) \/ Apart(w, ranges[i]))
    <3> SUFFICES ASSUME NEW i \in 1 .. Len(ranges)
                 PROVE  IsRange(ranges[i]) /\ (Within(w, ranges[i]) \/ Apart(w, ranges[i]))
      OBVIOUS
    <3> DEFINE r == ranges[i]
    <3>1. Closed(r)
      OBVIOUS
    <3> HIDE DEF r
    <3>2. Within(w, r) \/ Apart(w, r)
      BY <3>1, InsideOrApart
    <3>3. IsRange(r)
      BY <3>1 DEF Closed, Ranges, Offsets, IsRange
    <3> QED
      BY <3>2, <3>3 DEF r
  <2> QED
    BY <2>1, <2>2, <2>3, ShrinkIs
<1> DEFINE free == {w \in Windows(p) : ShrinkToAvoid(w, ranges) # << >>}
<1>2. \A w \in Windows(p) : w \in free <=> ~Blocked(w, ranges)
  BY <1>1
<1>3. CASE free = {}
  <2>1. NextBlockInPart(p, ranges) = << >>
    BY <1>3 DEF NextBlockInPart
  <2> QED
    BY <1>2, <1>3, <2>1
<1>4. CASE free # {}
  <2> DEFINE T == {w[1] : w \in free}
  <2>1. T \in SUBSET Nat /\ T # {}
    BY <1>1, <1>4
  <2>2. PICK m \in T : \A k \in T : m <= k
    <3> HIDE DEF T
    <3> QED
      BY <2>1, LeastNumber
  <2>3. \E w \in free : \A v \in free : w[1] <= v[1]
    BY <2>2
  <2> DEFINE b == CHOOSE w \in free : \A v \in free : w[1] <= v[1]
  <2>4. b \in free
    BY <2>3
  <2>5. NextBlockInPart(p, ranges) = ShrinkToAvoid(b, ranges)
    BY <1>4 DEF NextBlockInPart
  <2> HIDE DEF b
  <2>6. b \in Windows(p) /\ ~Blocked(b, ranges) /\ b # << >> /\ NextBlockInPart(p, ranges) = b
    BY <1>1, <1>2, <2>4, <2>5
  <2> QED
    BY <2>6
<1> QED
  BY <1>3, <1>4

-----------------------------------------------------------------------------
(* The ranges that transfers hold are windows that were cut from the gaps, *)
(* no two transfers hold the same bytes, and the registry knows them all.  *)
IcsInv ==
    /\ missing \subseteq Offsets
    /\ issued \in [Peers -> SUBSET Ranges]
    /\ \A p \in Peers : \A r \in issued[p] : Closed(r)
    /\ RegistryExact

(* The registry is finite and all its ranges were windows.                 *)
LEMMA RequestedAre ==
    ASSUME IcsAssumption, IcsInv
    PROVE  requested \subseteq Ranges /\ IsFiniteSet(requested) /\ \A r \in requested : Closed(r)
<1>1. requested \subseteq Ranges /\ \A r \in requested : Closed(r)
  BY DEF IcsInv, RegistryExact
<1>2. IsFiniteSet(Ranges)
  <2>1. IsFiniteSet(Offsets)
    BY FS_Interval DEF Offsets, IcsAssumption
  <2>2. IsFiniteSet(Offsets \X Offsets)
    BY <2>1, FS_Product
  <2>3. Ranges \in SUBSET (Offsets \X Offsets)
    BY DEF Ranges
  <2> QED
    BY <2>2, <2>3, FS_Subset
<1> QED
  BY <1>1, <1>2, FS_Subset

(* What select_blocks may hold: windows of parts the peer has, of which    *)
(* nothing is requested.                                                   *)
Free(peer, w) ==
    /\ \E part \in Available(peer) : part \in Parts /\ w \in Windows(part)
    /\ \A r \in requested : Apart(w, r)
Selections(peer) ==
    {sel \in [blocks : Seq(Ranges), last : {lastPart[peer]} \cup Parts, gapParts : SUBSET Parts] :
        \A i \in 1 .. Len(sel.blocks) : Free(peer, sel.blocks[i])}

(* A peer has parts of the file.                                           *)
LEMMA AvailableParts ==
    ASSUME IcsAssumption, NEW peer \in Peers
    PROVE  Available(peer) \subseteq Parts
BY DEF IcsAssumption, Available

(* A turn avoids what is requested and what it has selected so far.        *)
LEMMA TurnRanges ==
    ASSUME IcsAssumption, IcsInv, NEW peer \in Peers, NEW sel \in Selections(peer)
    PROVE  LET ranges == SetToSeq(requested) \o sel.blocks
           IN  /\ Len(ranges) \in Nat
               /\ \A i \in 1 .. Len(ranges) : Closed(ranges[i])
               /\ \A r \in requested : \E i \in 1 .. Len(ranges) : ranges[i] = r
               /\ \A i \in 1 .. Len(ranges) : ranges[i] \in requested \/ \E j \in 1 .. Len(sel.blocks) : ranges[i] = sel.blocks[j]
<1> DEFINE a == SetToSeq(requested)
           b == sel.blocks
<1>1. a \in Seq(requested) /\ \A r \in requested : \E i \in 1 .. Len(a) : a[i] = r
  BY RequestedAre, ListOfSet
<1>2. b \in Seq(Ranges) /\ \A i \in 1 .. Len(b) : Free(peer, b[i])
  BY DEF Selections
<1>3. \A i \in 1 .. Len(a) : a[i] \in requested /\ Closed(a[i])
  <2> HIDE DEF a
  <2>1. \A i \in 1 .. Len(a) : a[i] \in requested
    BY <1>1
  <2> QED
    BY <2>1, RequestedAre
<1>4. \A i \in 1 .. Len(b) : Closed(b[i])
  <2> SUFFICES ASSUME NEW i \in 1 .. Len(b)
               PROVE  Closed(b[i])
    OBVIOUS
  <2>1. PICK part \in Parts : b[i] \in Windows(part)
    BY <1>2 DEF Free
  <2> DEFINE w == b[i]
  <2>2. w \in Windows(part)
    BY <2>1
  <2> HIDE DEF w
  <2>3. Closed(w)
    BY <2>2, WindowBytes
  <2> QED
    BY <2>3 DEF w
<1>5. a \in Seq(Ranges)
  BY <1>1, RequestedAre
<1> HIDE DEF a, b
<1>6. /\ Len(a \o b) = Len(a) + Len(b) /\ Len(a) \in Nat /\ Len(b) \in Nat
      /\ \A i \in 1 .. Len(a) + Len(b) : (a \o b)[i] = IF i <= Len(a) THEN a[i] ELSE b[i - Len(a)]
  <2>1. Len(a) \in Nat /\ Len(b) \in Nat
    BY <1>2, <1>5
  <2> QED
    BY <1>2, <1>5, <2>1, ConcatProperties
<1>7. \A i \in 1 .. Len(a \o b) : (i \in 1 .. Len(a) /\ (a \o b)[i] = a[i])
                                  \/ \E j \in 1 .. Len(b) : (a \o b)[i] = b[j]
  <2> SUFFICES ASSUME NEW i \in 1 .. Len(a) + Len(b)
               PROVE  (i \in 1 .. Len(a) /\ (a \o b)[i] = a[i]) \/ \E j \in 1 .. Len(b) : (a \o b)[i] = b[j]
    BY <1>6
  <2>1. CASE i <= Len(a)
    <3>1. i \in 1 .. Len(a)
      BY <1>6, <2>1
    <3> QED
      BY <1>6, <2>1, <3>1
  <2>2. CASE ~(i <= Len(a))
    <3>1. i - Len(a) \in 1 .. Len(b)
      BY <1>6, <2>2
    <3>2. (a \o b)[i] = b[i - Len(a)]
      BY <1>6, <2>2
    <3> QED
      BY <3>1, <3>2
  <2> QED
    BY <2>1, <2>2
<1>8. \A i \in 1 .. Len(a) : i \in 1 .. Len(a \o b) /\ (a \o b)[i] = a[i]
  BY <1>6
<1>9. Len(a \o b) \in Nat
  BY <1>6
<1> DEFINE ranges == a \o b
<1>10. /\ \A i \in 1 .. Len(ranges) : Closed(ranges[i])
       /\ \A i \in 1 .. Len(ranges) : ranges[i] \in requested \/ \E j \in 1 .. Len(b) : ranges[i] = b[j]
  <2> HIDE DEF ranges
  <2> QED
    BY <1>3, <1>4, <1>7 DEF ranges
<1>11. \A r \in requested : \E i \in 1 .. Len(ranges) : ranges[i] = r
  <2> SUFFICES ASSUME NEW r \in requested
               PROVE  \E i \in 1 .. Len(ranges) : ranges[i] = r
    OBVIOUS
  <2>1. PICK i \in 1 .. Len(a) : a[i] = r
    BY <1>1 DEF a
  <2>2. i \in 1 .. Len(ranges) /\ ranges[i] = r
    BY <1>8, <2>1
  <2> QED
    BY <2>2
<1>12. ranges = SetToSeq(requested) \o sel.blocks
  BY DEF a, b
<1> HIDE DEF ranges
<1>13. /\ Len(ranges) \in Nat
  BY <1>9 DEF ranges
<1> QED
  BY <1>10, <1>11, <1>12, <1>13 DEF b

(* One turn of select_blocks: what is chosen, and what becomes of it.      *)
LEMMA ChosenAre ==
    ASSUME NEW peer, NEW gapParts, NEW last
    PROVE  ChoosePart(peer, gapParts, last) \subseteq gapParts \cap Available(peer)
BY DEF ChoosePart

(* A turn finds nothing, gives up a part whose windows are all asked for,  *)
(* or adds a free window.                                                  *)
LEMMA TurnIs ==
    ASSUME IcsAssumption, IcsInv, NEW peer \in Peers, NEW sel \in Selections(peer), NEW next \in SelectTurn(peer, sel)
    PROVE  /\ next \in Selections(peer)
           /\ \/ next = sel /\ ChoosePart(peer, sel.gapParts, sel.last) = {}
              \/ /\ next.blocks = sel.blocks
                 /\ \E part \in sel.gapParts \cap Available(peer) :
                       /\ next.gapParts = sel.gapParts \ {part}
                       /\ sel.blocks = << >> => \A w \in Windows(part) : \E r \in requested : Within(w, r)
              \/ next.blocks # << >>
<1> DEFINE ranges == SetToSeq(requested) \o sel.blocks
           chosen == ChoosePart(peer, sel.gapParts, sel.last)
           block(part) == NextBlockInPart(part, ranges)
           turn(part) == IF block(part) = << >>
                         THEN [sel EXCEPT !.gapParts = @ \ {part}, !.last = part]
                         ELSE [sel EXCEPT !.blocks = Append(@, block(part)), !.last = part]
<1>1. /\ Len(ranges) \in Nat
      /\ \A i \in 1 .. Len(ranges) : Closed(ranges[i])
      /\ \A r \in requested : \E i \in 1 .. Len(ranges) : ranges[i] = r
      /\ \A i \in 1 .. Len(ranges) : ranges[i] \in requested \/ \E j \in 1 .. Len(sel.blocks) : ranges[i] = sel.blocks[j]
  BY TurnRanges
<1>2. sel \in [blocks : Seq(Ranges), last : {lastPart[peer]} \cup Parts, gapParts : SUBSET Parts]
      /\ \A i \in 1 .. Len(sel.blocks) : Free(peer, sel.blocks[i])
  BY DEF Selections
<1>3. next \in IF chosen = {} THEN {sel} ELSE {turn(part) : part \in chosen}
  BY DEF SelectTurn
<1>4. chosen \subseteq sel.gapParts \cap Available(peer)
  BY ChosenAre
<1> HIDE DEF chosen
<1>5. CASE chosen = {}
  <2>1. next = sel
    BY <1>3, <1>5
  <2> QED
    BY <1>5, <2>1 DEF chosen
<1>6. CASE chosen # {}
  <2>1. PICK part \in chosen : next = turn(part)
    BY <1>3, <1>6
  <2>2. part \in sel.gapParts /\ part \in Available(peer) /\ part \in Parts
    BY <1>2, <1>4
  <2> DEFINE b == block(part)
  <2>3. /\ b = << >> \/ (b \in Windows(part) /\ ~Blocked(b, ranges))
        /\ b = << >> => \A w \in Windows(part) : Blocked(w, ranges)
    <3> HIDE DEF ranges
    <3> QED
      BY <1>1, <2>2, NextBlockIs
  <2> HIDE DEF ranges, block
  <2>4. CASE b = << >>
    <3>1. next = [sel EXCEPT !.gapParts = @ \ {part}, !.last = part]
      BY <2>1, <2>4
    <3>2. next.blocks = sel.blocks /\ next.gapParts = sel.gapParts \ {part}
          /\ next \in [blocks : Seq(Ranges), last : {lastPart[peer]} \cup Parts, gapParts : SUBSET Parts]
      BY <1>2, <2>2, <3>1
    <3>3. next \in Selections(peer)
      BY <1>2, <3>2 DEF Selections
    <3>4. ASSUME sel.blocks = << >>, NEW w \in Windows(part)
          PROVE  \E r \in requested : Within(w, r)
      <4>1. PICK i \in 1 .. Len(ranges) : Within(w, ranges[i])
        BY <2>3, <2>4 DEF Blocked
      <4>2. ranges[i] \in requested
        <5>1. Len(sel.blocks) = 0
          BY <3>4
        <5>2. ~\E j \in 1 .. Len(sel.blocks) : TRUE
          BY <5>1
        <5> QED
          BY <1>1, <5>2
      <4> QED
        BY <4>1, <4>2
    <3> QED
      BY <2>2, <3>2, <3>3, <3>4
  <2>5. CASE b # << >>
    <3>1. next = [sel EXCEPT !.blocks = Append(@, b), !.last = part]
      BY <2>1, <2>5
    <3> HIDE DEF b
    <3>2. b \in Ranges
      BY <2>2, <2>3, <2>5, WindowBytes
    <3>3. Free(peer, b)
      <4>1. b \in Windows(part) /\ ~Blocked(b, ranges)
        BY <2>3, <2>5
      <4>2. ASSUME NEW r \in requested
            PROVE  Apart(b, r)
        <5>1. ~Within(b, r)
          BY <1>1, <4>1 DEF Blocked
        <5>2. Closed(r)
          BY RequestedAre
        <5>3. Within(b, r) \/ Apart(b, r)
          BY <2>2, <4>1, <5>2, InsideOrApart
        <5> QED
          BY <5>1, <5>3
      <4> QED
        BY <2>2, <4>1, <4>2 DEF Free
    <3> DEFINE s == sel.blocks
    <3>4. s \in Seq(Ranges) /\ \A i \in 1 .. Len(s) : Free(peer, s[i])
      BY <1>2
    <3>5. Append(s, b) \in Seq(Ranges) /\ Append(s, b) # << >> /\ \A i \in 1 .. Len(Append(s, b)) : Free(peer, Append(s, b)[i])
      <4> HIDE DEF s
      <4>1. Append(s, b) \in Seq(Ranges) /\ Len(Append(s, b)) = Len(s) + 1 /\ Len(s) \in Nat
            /\ Append(s, b)[Len(s) + 1] = b /\ \A i \in 1 .. Len(s) : Append(s, b)[i] = s[i]
        BY <3>2, <3>4, AppendProperties
      <4> DEFINE t == Append(s, b)
      <4> HIDE DEF t
      <4>2. Len(t) = Len(s) + 1 /\ t[Len(s) + 1] = b /\ \A i \in 1 .. Len(s) : t[i] = s[i]
        BY <4>1 DEF t
      <4>3. ASSUME NEW i \in 1 .. Len(t)
            PROVE  Free(peer, t[i])
        <5>1. i = Len(s) + 1 \/ i \in 1 .. Len(s)
          BY <4>1, <4>2
        <5>2. CASE i = Len(s) + 1
          BY <3>3, <4>2, <5>2
        <5>3. CASE i \in 1 .. Len(s)
          BY <3>4, <4>2, <5>3
        <5> QED
          BY <5>1, <5>2, <5>3
      <4>4. t # << >>
        <5>1. Len(t) # 0
          BY <4>1, <4>2
        <5> QED
          BY <5>1
      <4> QED
        BY <4>1, <4>3, <4>4 DEF t
    <3>6. next.blocks = Append(s, b)
          /\ next \in [blocks : Seq(Ranges), last : {lastPart[peer]} \cup Parts, gapParts : SUBSET Parts]
      BY <1>2, <2>2, <3>1, <3>5
    <3>7. next \in Selections(peer)
      BY <3>5, <3>6 DEF Selections
    <3> QED
      BY <3>5, <3>6, <3>7
  <2> QED
    BY <2>4, <2>5
<1> QED
  BY <1>5, <1>6

Start(peer) ==
    [blocks |-> << >>, last |-> lastPart[peer], gapParts |-> {part \in Parts : GapSize(part) > 0}]

(* The turns of select_blocks, one after the other.                        *)
Turns(peer, t) ==
    /\ t \in [0 .. MaxBlocks -> SUBSET Selections(peer)]
    /\ t[0] = {Start(peer)}
    /\ \A k \in 1 .. MaxBlocks : t[k] = UNION {SelectTurn(peer, sel) : sel \in t[k - 1]}
    /\ SelectBlocks(peer) = t[MaxBlocks]

(* The turns of select_blocks can be taken.                                *)
LEMMA TurnsAre ==
    ASSUME IcsAssumption, IcsInv, NEW peer \in Peers
    PROVE  \E t : Turns(peer, t)
<1> DEFINE S == SUBSET Selections(peer)
           b == {Start(peer)}
           N == MaxBlocks
           Step(X) == UNION {SelectTurn(peer, sel) : sel \in X}
           D == [k \in 1 .. N |-> [X \in S |-> Step(X)]]
           turns == CHOOSE f : f = [k \in 0 .. N |-> IF k = 0 THEN b ELSE Step(f[k - 1])]
<1>1. N \in Nat
  BY DEF IcsAssumption
<1>2. Start(peer) \in Selections(peer)
  <2> DEFINE none == << >>
             gapParts == {part \in Parts : GapSize(part) > 0}
  <2>1. none \in Seq(Ranges) /\ Len(none) = 0 /\ gapParts \in SUBSET Parts
    OBVIOUS
  <2> HIDE DEF none, gapParts
  <2>2. Start(peer) = [blocks |-> none, last |-> lastPart[peer], gapParts |-> gapParts]
    BY DEF Start, none, gapParts
  <2>3. \A i \in 1 .. Len(none) : Free(peer, none[i])
    BY <2>1
  <2> QED
    BY <2>1, <2>2, <2>3 DEF Selections
<1>3. ASSUME NEW X \in S
      PROVE  Step(X) \in S
  BY TurnIs
<1> HIDE DEF Step, S, b
<1>4. b \in S
  BY <1>2 DEF b, S
<1>5. D \in [1 .. N -> [S -> S]]
  BY <1>3
<1>6. PICK g : Recursive(g, S, b, N, D)
  <2> HIDE DEF D, N
  <2> QED
    BY <1>1, <1>4, <1>5, RecursionExists
<1>7. g \in [0 .. N -> S] /\ g[0] = b /\ \A k \in 1 .. N : g[k] = D[k][g[k - 1]]
  BY <1>6 DEF Recursive
<1>8. ASSUME NEW k \in 1 .. N
      PROVE  k - 1 \in 0 .. N /\ g[k - 1] \in S /\ g[k] = Step(g[k - 1])
  <2>1. k - 1 \in 0 .. N
    BY <1>1
  <2>2. g[k - 1] \in S /\ g[k] = D[k][g[k - 1]]
    BY <1>7, <2>1
  <2>3. \A X \in S : D[k][X] = Step(X)
    OBVIOUS
  <2> HIDE DEF D
  <2> QED
    BY <2>1, <2>2, <2>3
<1>9. g = [k \in 0 .. N |-> IF k = 0 THEN b ELSE Step(g[k - 1])]
  <2> HIDE DEF D, N
  <2>1. \A k \in 0 .. N : k = 0 \/ k \in 1 .. N
    BY <1>1
  <2> QED
    BY <1>7, <1>8, <2>1
<1>10. turns = [k \in 0 .. N |-> IF k = 0 THEN b ELSE Step(turns[k - 1])]
  BY <1>9
<1> HIDE DEF turns
<1>11. SelectBlocks(peer) = turns[N]
  BY DEF SelectBlocks, turns, Step, b, Start
<1> HIDE DEF N
<1>12. turns[0] = b /\ \A k \in 1 .. N : turns[k] = Step(turns[k - 1])
  <2>1. 0 \in 0 .. N /\ \A k \in 1 .. N : k \in 0 .. N /\ k # 0
    BY <1>1
  <2> QED
    BY <1>10, <2>1
<1> DEFINE T == {k \in 0 .. N : turns[k] \in S}
<1>13. \A k \in 0 .. N : k \in T
  <2>1. 0 \in T
    BY <1>1, <1>4, <1>12
  <2>2. ASSUME NEW k \in 0 .. (N - 1), k \in T
        PROVE  k + 1 \in T
    <3>1. k + 1 \in 1 .. N /\ k + 1 \in 0 .. N /\ (k + 1) - 1 = k
      BY <1>1
    <3>2. turns[k + 1] = Step(turns[k])
      BY <1>12, <3>1
    <3> QED
      BY <1>3, <2>2, <3>1, <3>2
  <2> HIDE DEF T
  <2> QED
    BY <1>1, <2>1, <2>2, NumbersUpTo
<1>14. turns \in [0 .. N -> S]
  BY <1>10, <1>13
<1> QED
  BY <1>11, <1>12, <1>14 DEF Turns, N, S, Step, b

(* What select_blocks returns is free.                                     *)
LEMMA SelectedAre ==
    ASSUME IcsAssumption, IcsInv, NEW peer \in Peers, NEW sel \in SelectBlocks(peer), NEW w \in ToSet(sel.blocks)
    PROVE  w \in Ranges /\ Closed(w) /\ Free(peer, w)
<1>1. PICK t : Turns(peer, t)
  BY TurnsAre
<1>2. sel \in Selections(peer)
  <2>1. MaxBlocks \in 0 .. MaxBlocks
    BY DEF IcsAssumption
  <2> QED
    BY <1>1, <2>1 DEF Turns
<1>3. PICK i \in 1 .. Len(sel.blocks) : w = sel.blocks[i]
  <2>1. sel.blocks \in Seq(Ranges)
    BY <1>2 DEF Selections
  <2> QED
    BY <2>1 DEF ToSet
<1>4. Free(peer, w)
  BY <1>2, <1>3 DEF Selections
<1>5. PICK part \in Parts : w \in Windows(part)
  BY <1>4 DEF Free
<1> QED
  BY <1>4, <1>5, WindowBytes

(* Two ranges apart share no byte.                                         *)
LEMMA ApartShareNothing ==
    ASSUME NEW w \in Ranges, NEW r \in Ranges, Apart(w, r)
    PROVE  Bytes(w) \cap Bytes(r) = {}
<1>1. w[1] \in Int /\ w[2] \in Int /\ r[1] \in Int /\ r[2] \in Int
  BY DEF Ranges, Offsets
<1> QED
  BY <1>1 DEF Apart, Bytes

(* A range has its first byte.                                             *)
LEMMA RangeHasBytes ==
    ASSUME NEW w \in Ranges
    PROVE  w[1] \in Bytes(w)
<1>1. w[1] \in Int /\ w[2] \in Int /\ w[1] <= w[2]
  BY DEF Ranges, Offsets
<1> QED
  BY <1>1 DEF Bytes

(* What is free overlaps nothing that anyone has asked for.                *)
LEMMA FreeIsNew ==
    ASSUME IcsAssumption, IcsInv, NEW peer \in Peers, NEW w \in Ranges, Free(peer, w)
    PROVE  /\ Bytes(w) \subseteq missing \ AllBytes(requested)
           /\ \E part \in Available(peer) : Bytes(w) \subseteq PartBytes(part)
           /\ Cardinality(Bytes(w)) <= EmblockSize
<1>1. PICK part \in Available(peer) : part \in Parts /\ w \in Windows(part)
  BY DEF Free
<1>2. Bytes(w) \subseteq missing /\ Bytes(w) \subseteq PartBytes(part) /\ Cardinality(Bytes(w)) <= EmblockSize
  BY <1>1, WindowBytes, BlockSize
<1>3. \A r \in requested : Bytes(w) \cap Bytes(r) = {}
  BY RequestedAre, ApartShareNothing DEF Free
<1>4. Bytes(w) \cap AllBytes(requested) = {}
  BY <1>3 DEF AllBytes
<1> QED
  BY <1>1, <1>2, <1>4

(* Gaps that shrink leave closed ranges closed.                            *)
LEMMA ClosedStays ==
    ASSUME missing' \subseteq missing, NEW r, Closed(r)
    PROVE  Closed(r)'
BY DEF Closed, ClosedIn, Cell, Cells, Ranges, Offsets, Bytes, PartBytes, Parts, PartCount

(* Nothing is requested at first.                                          *)
LEMMA IcsStart ==
    ASSUME IcsAssumption, IcsInit
    PROVE  IcsInv
<1>1. missing \subseteq Offsets
  BY DEF IcsInit, IcsAssumption
<1>2. issued \in [Peers -> SUBSET Ranges] /\ \A p \in Peers : issued[p] = {}
  BY DEF IcsInit
<1>3. RegistryExact
  BY <1>2 DEF IcsInit, RegistryExact, AllBytes
<1> QED
  BY <1>1, <1>2, <1>3 DEF IcsInv

(* Without new ranges the windows only lose gaps.                          *)
LEMMA GapsShrink ==
    ASSUME IcsInv, missing' \subseteq missing, UNCHANGED <<requested, issued>>
    PROVE  IcsInv'
<1>1. missing' \subseteq Offsets /\ issued' \in [Peers -> SUBSET Ranges]
  BY DEF IcsInv
<1>2. ASSUME NEW p \in Peers, NEW r \in issued'[p]
      PROVE  Closed(r)'
  BY <1>2, ClosedStays DEF IcsInv
<1>3. RegistryExact'
  BY DEF IcsInv, RegistryExact, AllBytes, Bytes
<1> QED
  BY <1>1, <1>2, <1>3 DEF IcsInv, Ranges, Offsets

(* A transfer that ends takes its own ranges from the registry.            *)
LEMMA LeaveOn ==
    ASSUME IcsInv, NEW p \in Peers, Leave(p)
    PROVE  IcsInv' /\ \A q \in Peers : issued'[q] \subseteq issued[q]
<1>1. /\ issued' = [issued EXCEPT ![p] = {}] /\ requested' = requested \ issued[p] /\ missing' = missing
  BY DEF Leave
<1>2. /\ issued \in [Peers -> SUBSET Ranges] /\ requested = UNION {issued[q] : q \in Peers}
      /\ \A x, y \in Peers : x # y => AllBytes(issued[x]) \cap AllBytes(issued[y]) = {}
      /\ missing \subseteq Offsets
  BY DEF IcsInv, RegistryExact
<1>3. /\ issued' \in [Peers -> SUBSET Ranges] /\ issued'[p] = {}
      /\ \A q \in Peers : q # p => issued'[q] = issued[q]
  BY <1>1, <1>2
<1>4. ASSUME NEW q \in Peers, NEW r \in issued'[q]
      PROVE  Closed(r)'
  <2>1. r \in issued[q]
    BY <1>3, <1>4
  <2> QED
    BY <1>1, <2>1, ClosedStays DEF IcsInv
<1>5. ASSUME NEW q \in Peers, q # p, NEW r \in issued[q]
      PROVE  r \notin issued[p]
  <2> SUFFICES ASSUME r \in issued[p]
               PROVE  FALSE
    OBVIOUS
  <2>1. r \in Ranges
    BY <1>2
  <2>2. r[1] \in Bytes(r)
    BY <2>1, RangeHasBytes
  <2>3. r[1] \in AllBytes(issued[q]) /\ r[1] \in AllBytes(issued[p])
    BY <1>5, <2>2 DEF AllBytes
  <2> QED
    BY <1>2, <1>5, <2>3
<1>6. requested' = UNION {issued'[q] : q \in Peers}
  <2>1. ASSUME NEW r \in requested'
        PROVE  \E q \in Peers : r \in issued'[q]
    <3>1. PICK q \in Peers : r \in issued[q]
      BY <1>1, <1>2
    <3> QED
      BY <1>1, <1>3, <3>1
  <2>2. ASSUME NEW q \in Peers, NEW r \in issued'[q]
        PROVE  r \in requested'
    <3>1. q # p /\ r \in issued[q]
      BY <1>3, <2>2
    <3> QED
      BY <1>1, <1>2, <1>5, <3>1
  <2> QED
    BY <2>1, <2>2
<1>7. \A x, y \in Peers : x # y => AllBytes(issued'[x]) \cap AllBytes(issued'[y]) = {}
  BY <1>2, <1>3 DEF AllBytes
<1>8. RegistryExact'
  BY <1>6, <1>7 DEF RegistryExact, AllBytes, Bytes
<1>9. missing' \subseteq Offsets
  BY <1>1, <1>2
<1> QED
  BY <1>3, <1>4, <1>8, <1>9 DEF IcsInv, Ranges, Offsets

(* What a new request asks for is free.                                    *)
LEMMA AskOn ==
    ASSUME IcsAssumption, IcsInv, NEW p \in Peers, Ask(p)
    PROVE  /\ IcsInv' /\ \A q \in Peers : q # p => issued'[q] = issued[q]
           /\ \A r \in issued'[p] \ issued[p] : r \in Ranges /\ Free(p, r)
<1>1. PICK sel \in SelectBlocks(p) : /\ requested' = requested \cup ToSet(sel.blocks)
                                     /\ issued' = [issued EXCEPT ![p] = @ \cup ToSet(sel.blocks)]
  BY DEF Ask
<1>2. missing' = missing
  BY DEF Ask
<1> DEFINE B == ToSet(sel.blocks)
<1>3. \A w \in B : w \in Ranges /\ Closed(w) /\ Free(p, w)
  BY SelectedAre
<1> HIDE DEF B
<1>4. /\ issued \in [Peers -> SUBSET Ranges] /\ requested = UNION {issued[q] : q \in Peers}
      /\ \A x, y \in Peers : x # y => AllBytes(issued[x]) \cap AllBytes(issued[y]) = {}
      /\ missing \subseteq Offsets
  BY DEF IcsInv, RegistryExact
<1>5. /\ issued' \in [Peers -> SUBSET Ranges] /\ issued'[p] = issued[p] \cup B
      /\ \A q \in Peers : q # p => issued'[q] = issued[q]
  BY <1>1, <1>3, <1>4 DEF B
<1>6. ASSUME NEW q \in Peers, NEW r \in issued'[q]
      PROVE  Closed(r)'
  <2>1. Closed(r)
    BY <1>3, <1>5, <1>6 DEF IcsInv
  <2> QED
    BY <1>2, <2>1, ClosedStays
<1>7. requested' = UNION {issued'[q] : q \in Peers}
  <2>1. ASSUME NEW r \in requested'
        PROVE  \E q \in Peers : r \in issued'[q]
    BY <1>1, <1>4, <1>5 DEF B
  <2>2. ASSUME NEW q \in Peers, NEW r \in issued'[q]
        PROVE  r \in requested'
    BY <1>1, <1>4, <1>5 DEF B
  <2> QED
    BY <2>1, <2>2
<1>8. ASSUME NEW q \in Peers, q # p
      PROVE  AllBytes(B) \cap AllBytes(issued[q]) = {}
  <2>1. ASSUME NEW w \in B, NEW r \in issued[q]
        PROVE  Bytes(w) \cap Bytes(r) = {}
    <3>1. r \in requested /\ r \in Ranges
      BY <1>4
    <3>2. w \in Ranges /\ Apart(w, r)
      BY <1>3, <3>1 DEF Free
    <3> QED
      BY <3>1, <3>2, ApartShareNothing
  <2> QED
    BY <2>1 DEF AllBytes
<1>9. AllBytes(issued[p] \cup B) = AllBytes(issued[p]) \cup AllBytes(B)
  BY DEF AllBytes
<1>10. ASSUME NEW x \in Peers, NEW y \in Peers, x # y
       PROVE  AllBytes(issued'[x]) \cap AllBytes(issued'[y]) = {}
  <2>0. AllBytes(issued[x]) \cap AllBytes(issued[y]) = {}
    BY <1>4, <1>10
  <2>1. CASE x = p
    <3>1. AllBytes(issued'[x]) = AllBytes(issued[x]) \cup AllBytes(B) /\ issued'[y] = issued[y]
      BY <1>5, <1>9, <1>10, <2>1
    <3>2. AllBytes(B) \cap AllBytes(issued[y]) = {}
      BY <1>8, <1>10, <2>1
    <3> QED
      BY <2>0, <3>1, <3>2
  <2>2. CASE y = p
    <3>1. AllBytes(issued'[y]) = AllBytes(issued[y]) \cup AllBytes(B) /\ issued'[x] = issued[x]
      BY <1>5, <1>9, <1>10, <2>2
    <3>2. AllBytes(B) \cap AllBytes(issued[x]) = {}
      BY <1>8, <1>10, <2>2
    <3> QED
      BY <2>0, <3>1, <3>2
  <2>3. CASE x # p /\ y # p
    BY <1>5, <2>0, <2>3
  <2> QED
    BY <2>1, <2>2, <2>3
<1>11. RegistryExact'
  BY <1>7, <1>10 DEF RegistryExact, AllBytes, Bytes
<1>12. missing' \subseteq Offsets
  BY <1>2, <1>4
<1>13. IcsInv'
  BY <1>5, <1>6, <1>11, <1>12 DEF IcsInv, Ranges, Offsets
<1> QED
  BY <1>3, <1>5, <1>13

(* Every step keeps the ranges apart and asks for nothing twice.           *)
LEMMA IcsStep ==
    ASSUME IcsAssumption, IcsInv, [IcsNext]_icsVars
    PROVE  IcsInv' /\ \A p \in Peers : \A r \in issued'[p] \ issued[p] : r \in Ranges /\ Free(p, r)
<1>1. ASSUME missing' \subseteq missing, UNCHANGED <<requested, issued>>
      PROVE  IcsInv' /\ \A p \in Peers : \A r \in issued'[p] \ issued[p] : r \in Ranges /\ Free(p, r)
  BY <1>1, GapsShrink
<1>2. ASSUME NEW p \in Peers, Leave(p)
      PROVE  IcsInv' /\ \A q \in Peers : \A r \in issued'[q] \ issued[q] : r \in Ranges /\ Free(q, r)
  BY <1>2, LeaveOn
<1>3. CASE UNCHANGED icsVars
  BY <1>1, <1>3 DEF icsVars
<1>4. CASE IcsNext
  <2>1. PICK p \in Peers :
        \/ Join(p) \/ Gate(p) \/ Ask(p) \/ Finish(p)
        \/ \E r \in Offsets \X Offsets : r[1] <= r[2] /\ DataPacket(p, r)
        \/ EndOfDownload(p) \/ OutOfPartReqs(p) \/ Drop(p)
    BY <1>4 DEF IcsNext
  <2>2. CASE Join(p)
    BY <1>1, <2>2 DEF Join
  <2>3. CASE Gate(p)
    BY <1>1, <2>3 DEF Gate
  <2>4. CASE Ask(p)
    <3>1. IcsInv' /\ (\A q \in Peers : q # p => issued'[q] = issued[q])
          /\ \A r \in issued'[p] \ issued[p] : r \in Ranges /\ Free(p, r)
      BY <2>4, AskOn
    <3> QED
      BY <3>1
  <2>5. CASE Finish(p)
    BY <1>2, <2>5 DEF Finish
  <2>6. CASE \E r \in Offsets \X Offsets : r[1] <= r[2] /\ DataPacket(p, r)
    <3>1. PICK r \in Offsets \X Offsets : DataPacket(p, r)
      BY <2>6
    <3>2. missing' \subseteq missing /\ UNCHANGED <<requested, issued>>
      BY <3>1 DEF DataPacket
    <3> QED
      BY <1>1, <3>2
  <2>7. CASE EndOfDownload(p)
    BY <1>1, <2>7 DEF EndOfDownload
  <2>8. CASE OutOfPartReqs(p)
    BY <1>1, <2>8 DEF OutOfPartReqs
  <2>9. CASE Drop(p)
    BY <1>2, <2>9 DEF Drop
  <2> QED
    BY <2>1, <2>2, <2>3, <2>4, <2>5, <2>6, <2>7, <2>8, <2>9
<1> QED
  BY <1>3, <1>4

(* The registry of requested ranges holds exactly what live transfers hold,*)
(* and no two of them hold the same byte (runner.py:374-377).              *)
THEOREM RegistryIsExact == ASSUME IcsAssumption PROVE IcsSpec => []RegistryExact
<1>1. IcsInv /\ [IcsNext]_icsVars => IcsInv'
  BY IcsStep
<1>2. IcsInv => RegistryExact
  BY DEF IcsInv
<1>3. IcsInit => IcsInv
  BY IcsStart
<1> QED
  BY <1>1, <1>2, <1>3, PTL DEF IcsSpec

(* A session asks only for missing bytes of a part its peer has that no    *)
(* session has asked for.                                                  *)
THEOREM NothingAskedTwice == ASSUME IcsAssumption PROVE IcsSpec => NoDuplicateRequest
<1> DEFINE New == \A p \in Peers : \A r \in issued'[p] \ issued[p] :
                     /\ Bytes(r) \subseteq missing \ AllBytes(requested)
                     /\ \E part \in Available(p) : Bytes(r) \subseteq PartBytes(part)
                     /\ Cardinality(Bytes(r)) <= EmblockSize
<1>1. IcsInv /\ [IcsNext]_icsVars => IcsInv' /\ [New]_icsVars
  <2> SUFFICES ASSUME IcsInv, [IcsNext]_icsVars
               PROVE  IcsInv' /\ New
    OBVIOUS
  <2> QED
    BY IcsStep, FreeIsNew
<1>2. NoDuplicateRequest <=> [][New]_icsVars
  BY DEF NoDuplicateRequest
<1>3. IcsInit => IcsInv
  BY IcsStart
<1> HIDE DEF New
<1> QED
  BY <1>1, <1>2, <1>3, PTL DEF IcsSpec

(* Among finitely many scores one is not beaten.                           *)
LEMMA BestExists ==
    ASSUME NEW C, IsFiniteSet(C), C # {}, NEW f \in [C -> Int \X Int]
    PROVE  \E x \in C : \A y \in C : ~Lower(f[y], f[x])
<1> DEFINE n == Cardinality(C)
<1>1. n \in Nat /\ ExistsBijection(1 .. n, C)
  BY FS_CardinalityType
<1>2. PICK e \in Bijection(1 .. n, C) : TRUE
  BY <1>1 DEF ExistsBijection
<1>3. e \in [1 .. n -> C] /\ \A x \in C : \E i \in 1 .. n : e[i] = x
  BY <1>2 DEF Bijection, Surjection
<1>4. n # 0
  BY <1>3
<1> HIDE DEF n
<1>5. \A x, y, z \in C : ~Lower(f[y], f[x]) /\ ~Lower(f[z], f[y]) => ~Lower(f[z], f[x])
  <2> TAKE x, y, z \in C
  <2>1. /\ f[x][1] \in Int /\ f[x][2] \in Int /\ f[y][1] \in Int /\ f[y][2] \in Int
        /\ f[z][1] \in Int /\ f[z][2] \in Int
    OBVIOUS
  <2> QED
    BY <2>1 DEF Lower
<1>6. \A x, y \in C : ~Lower(f[x], f[x]) /\ (~Lower(f[y], f[x]) \/ ~Lower(f[x], f[y]))
  <2> TAKE x, y \in C
  <2>1. f[x][1] \in Int /\ f[x][2] \in Int /\ f[y][1] \in Int /\ f[y][2] \in Int
    OBVIOUS
  <2> QED
    BY <2>1 DEF Lower
<1> DEFINE T == {k \in Nat : k = 0 \/ \E i \in 1 .. n : \A j \in 1 .. k : ~Lower(f[e[j]], f[e[i]])}
<1>7. 0 \in T
  OBVIOUS
<1>8. ASSUME NEW k \in 0 .. (n - 1), k \in T
      PROVE  k + 1 \in T
  <2>1. k \in Nat /\ k + 1 \in Nat /\ k + 1 \in 1 .. n
    BY <1>1
  <2>2. \A j \in 1 .. k + 1 : j \in 1 .. k \/ j = k + 1
    BY <2>1
  <2>3. CASE k = 0
    <3>1. \A j \in 1 .. k + 1 : ~Lower(f[e[j]], f[e[k + 1]])
      BY <1>3, <1>6, <2>1, <2>2, <2>3
    <3> QED
      BY <2>1, <3>1
  <2>4. CASE k # 0
    <3>1. PICK i \in 1 .. n : \A j \in 1 .. k : ~Lower(f[e[j]], f[e[i]])
      BY <1>8, <2>4
    <3>2. \A j \in 1 .. k : j \in 1 .. n
      BY <1>1, <2>1
    <3>3. e[i] \in C /\ e[k + 1] \in C /\ \A j \in 1 .. k : e[j] \in C
      BY <1>3, <2>1, <3>2
    <3>4. CASE ~Lower(f[e[k + 1]], f[e[i]])
      BY <2>1, <2>2, <3>1, <3>4
    <3>5. CASE ~Lower(f[e[i]], f[e[k + 1]])
      <4>1. \A j \in 1 .. k + 1 : ~Lower(f[e[j]], f[e[k + 1]])
        BY <1>5, <1>6, <2>2, <3>1, <3>3, <3>5
      <4> QED
        BY <2>1, <4>1
    <3> QED
      BY <1>6, <3>3, <3>4, <3>5
  <2> QED
    BY <2>3, <2>4
<1>9. n \in T
  <2> HIDE DEF T
  <2>1. \A k \in 0 .. n : k \in T
    BY <1>1, <1>7, <1>8, NumbersUpTo
  <2> QED
    BY <1>1, <2>1
<1>10. PICK i \in 1 .. n : \A j \in 1 .. n : ~Lower(f[e[j]], f[e[i]])
  BY <1>4, <1>9
<1>11. \A y \in C : ~Lower(f[y], f[e[i]])
  BY <1>3, <1>10
<1> QED
  BY <1>3, <1>11

(* choose_part finds a part as long as one is wanted that the peer has.    *)
LEMMA SomePartChosen ==
    ASSUME IcsAssumption, IcsInv, NEW peer \in Peers, NEW gapParts \in SUBSET Parts, NEW last,
           gapParts \cap Available(peer) # {}
    PROVE  ChoosePart(peer, gapParts, last) # {}
<1> DEFINE C == gapParts \cap Available(peer)
           mode == IcsMode(gapParts)
           pref == [part \in C |-> Pref(mode, peer, part)]
<1>1. IsFiniteSet(C)
  <2>1. PartCount \in Int
    BY DEF PartCount, IcsAssumption
  <2>2. IsFiniteSet(Parts)
    BY <2>1, FS_Interval DEF Parts
  <2>3. C \in SUBSET Parts
    OBVIOUS
  <2> QED
    BY <2>2, <2>3, FS_Subset
<1> HIDE DEF mode
<1>2. ASSUME NEW part \in C
      PROVE  Pref(mode, peer, part) \in Int \X Int
  <2> DEFINE size2transfer == PartSize - GapSize(part)
             pd == Downloading(peer, part)
             x == (size2transfer + (PartSize * pd) \div MaxSrcChunk) \div PrefShift
             shifted == Min({65535, x})
             crowded == pd >= (GapSize(part) * 3 + PartSize - 1) \div PartSize
  <2>1. size2transfer \in Int
    <3>1. IsFiniteSet(Offsets)
      <4>1. TotalSize - 1 \in Int
        BY DEF IcsAssumption
      <4> QED
        BY <4>1, FS_Interval DEF Offsets
    <3>2. missing \cap PartBytes(part) \in SUBSET Offsets
      BY DEF IcsInv
    <3>3. GapSize(part) \in Nat
      BY <3>1, <3>2, FS_Subset, FS_CardinalityType DEF GapSize
    <3> QED
      BY <3>3 DEF IcsAssumption
  <2>2. pd \in Nat
    <3> DEFINE R == {r \in requested \ issued[peer] : r[1] \div PartSize <= part /\ part <= r[2] \div PartSize}
    <3>1. IsFiniteSet(requested) /\ R \in SUBSET requested
      BY RequestedAre
    <3> HIDE DEF R
    <3>2. Cardinality(R) \in Nat
      BY <3>1, FS_Subset, FS_CardinalityType
    <3> QED
      BY <3>2 DEF Downloading, R
  <2>3. PartSize \in Nat \ {0} /\ MaxSrcChunk \in Nat \ {0} /\ PrefShift \in Nat \ {0}
    BY DEF IcsAssumption
  <2> HIDE DEF size2transfer, pd
  <2>4. PartSize * pd \in Int
    BY <2>2, <2>3
  <2>5. (PartSize * pd) \div MaxSrcChunk \in Int
    BY <2>3, <2>4
  <2>6. x \in Int
    BY <2>1, <2>3, <2>5
  <2> HIDE DEF x
  <2>7. shifted \in Int
    <3>1. \E m \in {65535, x} : \A y \in {65535, x} : m <= y
      BY <2>6
    <3>2. shifted \in {65535, x}
      BY <3>1 DEF Min
    <3> QED
      BY <2>6, <3>2
  <2> HIDE DEF shifted, crowded
  <2>8. Pref(mode, peer, part) = IF mode = "release"
        THEN <<IF crowded THEN 255 ELSE 0, size2transfer>>
        ELSE <<IF crowded THEN 255 ELSE shifted \div 256, shifted % 256>>
    BY DEF Pref, size2transfer, pd, x, shifted, crowded
  <2>9. shifted \div 256 \in Int /\ shifted % 256 \in Int
    BY <2>7
  <2>10. CASE mode = "release"
    BY <2>1, <2>8, <2>10
  <2>11. CASE mode # "release"
    BY <2>8, <2>9, <2>11
  <2> QED
    BY <2>10, <2>11
<1>3. pref \in [C -> Int \X Int] /\ C # {}
  BY <1>2
<1>4. PICK part \in C : \A q \in C : ~Lower(pref[q], pref[part])
  <2> HIDE DEF pref, C
  <2> QED
    BY <1>1, <1>3, BestExists
<1>5. ChoosePart(peer, gapParts, last) =
        IF last \in C THEN {last} ELSE {r \in C : \A q \in C : ~Lower(pref[q], pref[r])}
  BY DEF ChoosePart, mode
<1> QED
  BY <1>4, <1>5

(* Every offset of a set is in one of its runs.                            *)
LEMMA RunExists ==
    ASSUME NEW n \in Nat, NEW S \in SUBSET (0 .. n), NEW o \in S
    PROVE  \E r \in Runs(S) : o \in Bytes(r)
<1> DEFINE Down == {s \in 0 .. n : s <= o /\ s .. o \subseteq S}
           Up == {e \in 0 .. n : o <= e /\ o .. e \subseteq S}
           Back == {n - e : e \in Up}
<1>1. o \in Int /\ 0 <= o /\ o <= n /\ o .. o = {o}
  OBVIOUS
<1>2. Down \in SUBSET Nat /\ o \in Down
  BY <1>1
<1>3. PICK s \in Down : \A k \in Down : s <= k
  <2> HIDE DEF Down
  <2> QED
    BY <1>2, LeastNumber
<1>4. Back \in SUBSET Nat /\ o \in Up
  BY <1>1
<1>5. PICK m \in Back : \A k \in Back : m <= k
  <2>1. Back # {}
    BY <1>4
  <2> HIDE DEF Back
  <2> QED
    BY <1>4, <2>1, LeastNumber
<1>6. PICK e \in Up : m = n - e
  OBVIOUS
<1>7. s \in Int /\ e \in Int /\ 0 <= s /\ s <= o /\ o <= e /\ e <= n /\ s .. o \subseteq S /\ o .. e \subseteq S
  BY <1>3, <1>6
<1>8. s .. e \subseteq S
  <2>1. \A x \in s .. e : x \in s .. o \/ x \in o .. e
    BY <1>1, <1>7
  <2> QED
    BY <1>7, <2>1
<1>9. s - 1 \notin S
  <2> SUFFICES ASSUME s - 1 \in S
               PROVE  FALSE
    OBVIOUS
  <2>1. s - 1 \in 0 .. n
    OBVIOUS
  <2>2. \A x \in (s - 1) .. o : x = s - 1 \/ x \in s .. o
    BY <1>1, <1>7
  <2>3. s - 1 \in Down
    BY <1>7, <2>1, <2>2
  <2> QED
    BY <1>3, <1>7, <2>3
<1>10. e + 1 \notin S
  <2> SUFFICES ASSUME e + 1 \in S
               PROVE  FALSE
    OBVIOUS
  <2>1. e + 1 \in 0 .. n
    OBVIOUS
  <2>2. \A x \in o .. (e + 1) : x = e + 1 \/ x \in o .. e
    BY <1>1, <1>7
  <2>3. e + 1 \in Up
    BY <1>1, <1>7, <2>1, <2>2
  <2>4. n - (e + 1) \in Back
    BY <2>3
  <2>5. n - e <= n - (e + 1)
    BY <1>5, <1>6, <2>4
  <2> QED
    BY <1>7, <2>5
<1>11. s \in S /\ e \in S
  BY <1>1, <1>7
<1> DEFINE r == <<s, e>>
<1>12. r \in Runs(S) /\ o \in Bytes(r)
  BY <1>1, <1>7, <1>8, <1>9, <1>10, <1>11 DEF Runs, Bytes
<1> QED
  BY <1>12

(* A missing byte of a part is in one of its windows.                      *)
LEMMA SomeWindow ==
    ASSUME IcsAssumption, IcsInv, NEW p \in Parts, NEW o \in missing \cap PartBytes(p)
    PROVE  \E w \in Windows(p) : o \in Bytes(w)
<1> DEFINE c == (o - p * PartSize) \div EmblockSize
           S == missing \cap Cell(p, c)
<1>1. /\ PartSize \in Nat /\ EmblockSize \in Nat /\ EmblockSize > 0 /\ TotalSize \in Nat /\ TotalSize > 0
      /\ missing \subseteq Offsets
  BY DEF IcsAssumption, IcsInv
<1>2. o \in Nat /\ p * PartSize \in Nat /\ p * PartSize <= o /\ o < p * PartSize + PartSize
  BY PartBytesAre
<1>3. c \in Cells
  <2> DEFINE d == o - p * PartSize
  <2>1. d \in Nat /\ d <= PartSize
    BY <1>1, <1>2
  <2> HIDE DEF d
  <2>2. d \div EmblockSize \in Nat /\ d \div EmblockSize <= PartSize \div EmblockSize
    BY <1>1, <2>1, Quotient
  <2>3. PartSize \div EmblockSize \in Nat
    BY <1>1, Quotient
  <2> QED
    BY <2>2, <2>3 DEF Cells, d
<1>4. o \in S
  BY DEF Cell
<1>5. TotalSize - 1 \in Nat /\ S \in SUBSET (0 .. (TotalSize - 1))
  <2>1. TotalSize - 1 \in Nat
    BY <1>1
  <2>2. S \subseteq missing
    OBVIOUS
  <2> HIDE DEF S
  <2> QED
    BY <1>1, <2>1, <2>2 DEF Offsets
<1> HIDE DEF S
<1>6. PICK r \in Runs(S) : o \in Bytes(r)
  BY <1>4, <1>5, RunExists
<1>7. r \in Windows(p)
  BY <1>3, <1>6, WindowIs DEF S
<1> QED
  BY <1>6, <1>7

(* A part whose windows are all requested has no free byte.                *)
LEMMA AllRequested ==
    ASSUME IcsAssumption, IcsInv, NEW peer \in Peers, NEW part \in Parts \cap Available(peer), GapSize(part) > 0,
           \A w \in Windows(part) : \E r \in requested : Within(w, r)
    PROVE  part \in Saturated(peer)
<1>1. ASSUME NEW o \in PartBytes(part), o \in missing
      PROVE  o \in AllBytes(requested)
  <2>1. PICK w \in Windows(part) : o \in Bytes(w)
    BY <1>1, SomeWindow
  <2>2. PICK r \in requested : Within(w, r)
    OBVIOUS
  <2>3. w[1] \in Nat /\ w[2] \in Nat /\ r[1] \in Int /\ r[2] \in Int
    BY <2>1, WindowBytes, RequestedAre DEF Ranges, Offsets
  <2>4. o \in Bytes(r)
    BY <2>1, <2>2, <2>3 DEF Within, Bytes
  <2> QED
    BY <2>2, <2>4 DEF AllBytes
<1> QED
  BY <1>1 DEF Saturated, FreeBytes

(* A free byte is in a part that is wanted and not saturated.              *)
LEMMA FreePart ==
    ASSUME IcsAssumption, IcsInv, NEW peer \in Peers, FreeBytes(peer) # {}
    PROVE  \E part \in Parts \cap Available(peer) : GapSize(part) > 0 /\ part \notin Saturated(peer)
<1>1. PICK o \in FreeBytes(peer) : TRUE
  OBVIOUS
<1> DEFINE part == o \div PartSize
<1>2. o \in missing /\ part \in Available(peer) /\ part \in Parts
  BY <1>1, AvailableParts DEF FreeBytes
<1>3. PartSize \in Nat /\ PartSize > 0 /\ TotalSize \in Nat /\ o \in Nat /\ o < TotalSize
  BY <1>2 DEF IcsAssumption, IcsInv, Offsets
<1>4. part \in Nat /\ part * PartSize <= o /\ o < part * PartSize + PartSize
  BY <1>3, Quotient
<1> HIDE DEF part
<1>5. o \in PartBytes(part)
  <2> DEFINE a == part * PartSize
             b == (part + 1) * PartSize
             m == Min({b, TotalSize})
  <2>1. a \in Nat /\ b = a + PartSize /\ a <= o /\ o < a + PartSize
    BY <1>3, <1>4
  <2> HIDE DEF a, b
  <2>2. m \in {b, TotalSize}
    <3>1. b \in Nat
      BY <1>3, <2>1
    <3>2. \E x \in {b, TotalSize} : \A y \in {b, TotalSize} : x <= y
      <4>1. CASE b <= TotalSize
        BY <1>3, <3>1, <4>1
      <4>2. CASE TotalSize <= b
        BY <1>3, <3>1, <4>2
      <4> QED
        BY <1>3, <3>1, <4>1, <4>2
    <3> QED
      BY <3>2 DEF Min
  <2>3. PartBytes(part) = a .. (m - 1)
    BY DEF PartBytes, a, b
  <2> HIDE DEF m
  <2> QED
    BY <1>3, <2>1, <2>2, <2>3
<1>6. GapSize(part) > 0
  <2> DEFINE S == missing \cap PartBytes(part)
  <2>1. S \subseteq missing /\ o \in S
    BY <1>2, <1>5
  <2> HIDE DEF S
  <2>2. IsFiniteSet(S)
    <3>1. TotalSize - 1 \in Int
      BY <1>3
    <3>2. IsFiniteSet(Offsets)
      BY <3>1, FS_Interval DEF Offsets
    <3>3. S \in SUBSET Offsets
      BY <2>1 DEF IcsInv
    <3> QED
      BY <3>2, <3>3, FS_Subset
  <2>3. Cardinality(S) \in Nat /\ Cardinality(S) # 0
    BY <2>1, <2>2, FS_CardinalityType, FS_EmptySet
  <2> QED
    BY <2>3 DEF GapSize, S
<1>7. part \notin Saturated(peer)
  BY <1>1, <1>5 DEF Saturated
<1> QED
  BY <1>2, <1>6, <1>7

(* As long as nothing is found, every turn has taken away one saturated    *)
(* part.                                                                   *)
Wanted == {part \in Parts : GapSize(part) > 0}
Wasted(peer, sel, k) ==
    /\ sel.gapParts \subseteq Wanted
    /\ Wanted \ sel.gapParts \subseteq Saturated(peer)
    /\ Cardinality(Wanted \ sel.gapParts) = k

(* With a free byte left, a selection without a block has spent every turn *)
(* on a saturated part.                                                    *)
LEMMA TurnsWasted ==
    ASSUME IcsAssumption, IcsInv, NEW peer \in Peers, FreeBytes(peer) # {}, NEW t, Turns(peer, t),
           NEW sel \in t[MaxBlocks], sel.blocks = << >>
    PROVE  Wasted(peer, sel, MaxBlocks)
<1>0. MaxBlocks \in Nat
  BY DEF IcsAssumption
<1>1. /\ t \in [0 .. MaxBlocks -> SUBSET Selections(peer)]
      /\ t[0] = {Start(peer)}
      /\ \A k \in 1 .. MaxBlocks : t[k] = UNION {SelectTurn(peer, s) : s \in t[k - 1]}
  BY DEF Turns
<1>2. IsFiniteSet(Wanted)
  <2>1. PartCount \in Int
    BY DEF PartCount, IcsAssumption
  <2>2. IsFiniteSet(Parts) /\ Wanted \in SUBSET Parts
    BY <2>1, FS_Interval DEF Parts, Wanted
  <2> QED
    BY <2>2, FS_Subset
<1> DEFINE K == {k \in 0 .. MaxBlocks : \A s \in t[k] : s.blocks = << >> => Wasted(peer, s, k)}
<1>3. 0 \in K
  <2>1. Start(peer).gapParts = Wanted
    BY DEF Start, Wanted
  <2>2. Wanted \ Wanted = {} /\ Cardinality({}) = 0
    BY FS_EmptySet
  <2>3. Wasted(peer, Start(peer), 0)
    BY <2>1, <2>2 DEF Wasted
  <2> QED
    BY <1>0, <1>1, <2>3
<1>4. ASSUME NEW k \in 0 .. (MaxBlocks - 1), k \in K
      PROVE  k + 1 \in K
  <2>1. k + 1 \in 1 .. MaxBlocks /\ k + 1 \in 0 .. MaxBlocks /\ (k + 1) - 1 = k /\ k \in 0 .. MaxBlocks /\ k \in Nat
    BY <1>0
  <2>2. ASSUME NEW s \in t[k + 1], s.blocks = << >>
        PROVE  Wasted(peer, s, k + 1)
    <3>1. PICK b \in t[k] : s \in SelectTurn(peer, b)
      BY <1>1, <2>1, <2>2
    <3>2. b \in Selections(peer)
      BY <1>1, <2>1
    <3>3. /\ s \in Selections(peer)
          /\ \/ s = b /\ ChoosePart(peer, b.gapParts, b.last) = {}
             \/ /\ s.blocks = b.blocks
                /\ \E part \in b.gapParts \cap Available(peer) :
                      /\ s.gapParts = b.gapParts \ {part}
                      /\ b.blocks = << >> => \A w \in Windows(part) : \E r \in requested : Within(w, r)
             \/ s.blocks # << >>
      BY <3>1, <3>2, TurnIs
    <3>4. b.blocks = << >> /\ Wasted(peer, b, k)
      BY <1>4, <2>2, <3>1, <3>3
    <3>5. b.gapParts \in SUBSET Parts
      BY <3>2 DEF Selections
    <3>6. b.gapParts \cap Available(peer) # {}
      <4>1. PICK part \in Parts \cap Available(peer) : GapSize(part) > 0 /\ part \notin Saturated(peer)
        BY FreePart
      <4> QED
        BY <3>4, <4>1 DEF Wasted, Wanted
    <3>7. ChoosePart(peer, b.gapParts, b.last) # {}
      BY <3>5, <3>6, SomePartChosen
    <3>8. PICK part \in b.gapParts \cap Available(peer) :
             /\ s.gapParts = b.gapParts \ {part}
             /\ \A w \in Windows(part) : \E r \in requested : Within(w, r)
      BY <2>2, <3>3, <3>4, <3>7
    <3>9. part \in Parts /\ part \in Wanted /\ GapSize(part) > 0
      BY <3>4, <3>8 DEF Wasted, Wanted
    <3>10. part \in Saturated(peer)
      BY <3>8, <3>9, AllRequested
    <3> DEFINE old == Wanted \ b.gapParts
               new == Wanted \ s.gapParts
    <3>11. new = old \cup {part} /\ part \notin old
      BY <3>8, <3>9
    <3>12. IsFiniteSet(old) /\ old \subseteq Saturated(peer) /\ Cardinality(old) = k
      <4>1. old \in SUBSET Wanted
        OBVIOUS
      <4> QED
        BY <1>2, <3>4, <4>1, FS_Subset DEF Wasted
    <3> HIDE DEF old, new
    <3>13. Cardinality(new) = k + 1
      BY <3>11, <3>12, FS_AddElement
    <3>14. s.gapParts \subseteq Wanted
      BY <3>4, <3>8 DEF Wasted
    <3> QED
      BY <3>10, <3>11, <3>12, <3>13, <3>14 DEF Wasted, new
  <2> QED
    BY <2>1, <2>2
<1>5. MaxBlocks \in K
  <2> HIDE DEF K
  <2>1. \A k \in 0 .. MaxBlocks : k \in K
    BY <1>0, <1>3, <1>4, NumbersUpTo
  <2> QED
    BY <1>0, <2>1
<1> QED
  BY <1>5

(* The selector comes back empty-handed only when nothing that the peer    *)
(* has is left to ask for, or when it met a saturated part in every turn   *)
(* (ics.py:354 "Stops at max_blocks or no candidates").                    *)
THEOREM SelectorFindsFree == ASSUME IcsAssumption PROVE IcsSpec => []SelectorExhaustive
<1>1. IcsInv => SelectorExhaustive
  <2> SUFFICES ASSUME IcsInv, NEW p \in Peers, FreeBytes(p) # {}, Cardinality(Saturated(p)) < MaxBlocks,
                      NEW sel \in SelectBlocks(p), sel.blocks = << >>
               PROVE  FALSE
    BY DEF SelectorExhaustive
  <2>1. PICK t : Turns(p, t)
    BY TurnsAre
  <2>2. Wasted(p, sel, MaxBlocks)
    BY <2>1, TurnsWasted DEF Turns
  <2>3. IsFiniteSet(Saturated(p))
    <3>1. PartCount \in Int
      BY DEF PartCount, IcsAssumption
    <3>2. IsFiniteSet(Parts) /\ Saturated(p) \in SUBSET Parts
      BY <3>1, FS_Interval, AvailableParts DEF Parts, Saturated
    <3> QED
      BY <3>2, FS_Subset
  <2>4. Wanted \ sel.gapParts \in SUBSET Saturated(p) /\ Cardinality(Wanted \ sel.gapParts) = MaxBlocks
    BY <2>2 DEF Wasted
  <2>5. MaxBlocks <= Cardinality(Saturated(p))
    BY <2>3, <2>4, FS_Subset
  <2>6. MaxBlocks \in Nat /\ Cardinality(Saturated(p)) \in Nat
    BY <2>3, FS_CardinalityType DEF IcsAssumption
  <2> QED
    BY <2>5, <2>6
<1>2. IcsInv /\ [IcsNext]_icsVars => IcsInv'
  BY IcsStep
<1>3. IcsInit => IcsInv
  BY IcsStart
<1> QED
  BY <1>1, <1>2, <1>3, PTL DEF IcsSpec

(* What a transfer waits for is still missing and is its own, and what it  *)
(* has received is missing no more.                                        *)
Flow ==
    /\ \A p \in Peers : due[p] \subseteq missing \cap AllBytes(issued[p])
    /\ due \in [Peers -> SUBSET Offsets]
    /\ lastPart \in [Peers -> 0 .. PartCount]
    /\ retries \in [Peers -> 0 .. MaxRetries]
    /\ received \in [Peers -> Nat]
    /\ \A p \in Peers : received[p] + Cardinality(missing) <= TotalSize
    /\ stage \in [Peers -> {"out", "asking", "waiting", "nns"}]

(* The sizes that the bounds are stated with.                              *)
LEMMA Sizes ==
    ASSUME IcsAssumption
    PROVE  /\ TotalSize \in Nat /\ MaxRetries \in Nat
           /\ \A S \in SUBSET Offsets : IsFiniteSet(S) /\ Cardinality(S) \in Nat /\ Cardinality(S) <= TotalSize
           /\ PartCount \in Nat /\ Parts \subseteq 0 .. PartCount
<1>1. TotalSize \in Nat /\ TotalSize > 0 /\ PartSize \in Nat /\ PartSize > 0 /\ MaxRetries \in Nat
  BY DEF IcsAssumption
<1>2. TotalSize - 1 \in Int /\ TotalSize - 1 >= 0
  BY <1>1
<1>3. IsFiniteSet(Offsets) /\ Cardinality(Offsets) = TotalSize
  BY <1>1, <1>2, FS_Interval DEF Offsets
<1>4. ASSUME NEW S \in SUBSET Offsets
      PROVE  IsFiniteSet(S) /\ Cardinality(S) \in Nat /\ Cardinality(S) <= TotalSize
  BY <1>3, FS_Subset, FS_CardinalityType
<1>5. PartCount \in Nat
  <2>1. TotalSize + PartSize - 1 \in Nat
    BY <1>1
  <2> QED
    BY <1>1, <2>1, Quotient DEF PartCount
<1>6. Parts \subseteq 0 .. PartCount
  BY <1>5 DEF Parts
<1> QED
  BY <1>1, <1>4, <1>5, <1>6

(* A transfer starts with nothing received.                                *)
LEMMA FlowStart ==
    ASSUME IcsAssumption, IcsInit
    PROVE  Flow
<1>1. missing \in SUBSET Offsets
  BY DEF IcsInit, IcsAssumption
<1>2. Cardinality(missing) \in Nat /\ Cardinality(missing) <= TotalSize /\ TotalSize \in Nat
      /\ 0 \in 0 .. MaxRetries /\ PartCount \in 0 .. PartCount
  BY <1>1, Sizes
<1>3. \A p \in Peers : due[p] = {} /\ received[p] = 0
  BY DEF IcsInit
<1>4. /\ due \in [Peers -> SUBSET Offsets] /\ received \in [Peers -> Nat]
      /\ stage \in [Peers -> {"out", "asking", "waiting", "nns"}]
  BY DEF IcsInit
<1>5. lastPart \in [Peers -> 0 .. PartCount] /\ retries \in [Peers -> 0 .. MaxRetries]
  BY <1>2 DEF IcsInit
<1>6. \A p \in Peers : received[p] + Cardinality(missing) <= TotalSize
  BY <1>2, <1>3
<1> QED
  BY <1>3, <1>4, <1>5, <1>6 DEF Flow

(* Bytes are counted as they leave the gaps.                               *)
LEMMA FlowStep ==
    ASSUME IcsAssumption, IcsInv, Flow, [IcsNext]_icsVars
    PROVE  Flow'
<1>1. /\ missing \in SUBSET Offsets
      /\ issued \in [Peers -> SUBSET Ranges]
      /\ \A x, y \in Peers : x # y => AllBytes(issued[x]) \cap AllBytes(issued[y]) = {}
  BY DEF IcsInv, RegistryExact
<1>2. /\ \A p \in Peers : due[p] \subseteq missing /\ due[p] \subseteq AllBytes(issued[p])
      /\ due \in [Peers -> SUBSET Offsets]
      /\ lastPart \in [Peers -> 0 .. PartCount]
      /\ retries \in [Peers -> 0 .. MaxRetries]
      /\ received \in [Peers -> Nat]
      /\ \A p \in Peers : received[p] + Cardinality(missing) <= TotalSize
      /\ stage \in [Peers -> {"out", "asking", "waiting", "nns"}]
  BY DEF Flow
<1>3. /\ TotalSize \in Nat /\ MaxRetries \in Nat /\ PartCount \in Nat /\ Parts \subseteq 0 .. PartCount
      /\ Cardinality(missing) \in Nat /\ Cardinality(missing) <= TotalSize
  BY <1>1, Sizes
<1>4. CASE UNCHANGED icsVars
  BY <1>2, <1>4 DEF icsVars, Flow, AllBytes, Bytes, PartCount, Offsets
<1>5. ASSUME NEW p \in Peers, Leave(p)
      PROVE  Flow'
  <2>1. /\ stage' \in [Peers -> {"out", "asking", "waiting", "nns"}]
        /\ due' = [due EXCEPT ![p] = {}] /\ issued' = [issued EXCEPT ![p] = {}]
        /\ UNCHANGED <<missing, lastPart, retries, received>>
    BY <1>2, <1>5 DEF Leave
  <2>2. due' \in [Peers -> SUBSET Offsets]
    BY <1>2, <2>1
  <2>3. \A q \in Peers : due'[q] \subseteq missing \cap AllBytes(issued'[q])
    <3> TAKE q \in Peers
    <3>1. CASE q = p
      BY <1>2, <2>1, <3>1
    <3>2. CASE q # p
      BY <1>1, <1>2, <2>1, <3>2
    <3> QED
      BY <3>1, <3>2
  <2> QED
    BY <1>2, <2>1, <2>2, <2>3 DEF Flow, AllBytes, Bytes, PartCount, Offsets
<1>6. CASE IcsNext
  <2>1. PICK p \in Peers :
        \/ Join(p) \/ Gate(p) \/ Ask(p) \/ Finish(p)
        \/ \E r \in Offsets \X Offsets : r[1] <= r[2] /\ DataPacket(p, r)
        \/ EndOfDownload(p) \/ OutOfPartReqs(p) \/ Drop(p)
    BY <1>6 DEF IcsNext
  <2>2. CASE Join(p)
    <3>1. /\ stage' \in [Peers -> {"out", "asking", "waiting", "nns"}]
          /\ retries' \in [Peers -> 0 .. MaxRetries]
          /\ lastPart' \in [Peers -> 0 .. PartCount]
          /\ received' \in [Peers -> Nat]
          /\ UNCHANGED <<missing, requested, issued, due>>
      BY <1>2, <1>3, <2>2 DEF Join
    <3>2. \A q \in Peers : received'[q] = received[q] \/ received'[q] = 0
      BY <1>2, <2>2 DEF Join
    <3>3. \A q \in Peers : received'[q] + Cardinality(missing) <= TotalSize
      BY <1>2, <1>3, <3>2
    <3> QED
      BY <1>2, <3>1, <3>3 DEF Flow, AllBytes, Bytes, PartCount, Offsets
  <2>3. CASE Gate(p)
    <3>1. /\ stage' \in [Peers -> {"out", "asking", "waiting", "nns"}]
          /\ UNCHANGED <<missing, requested, issued, due, lastPart, retries, received>>
      BY <1>2, <2>3 DEF Gate
    <3> QED
      BY <1>2, <3>1 DEF Flow, AllBytes, Bytes, PartCount, Offsets
  <2>4. CASE Ask(p)
    <3>1. PICK sel \in SelectBlocks(p) :
             /\ issued' = [issued EXCEPT ![p] = @ \cup ToSet(sel.blocks)]
             /\ due' = [due EXCEPT ![p] = AllBytes(ToSet(sel.blocks))]
             /\ lastPart' = [lastPart EXCEPT ![p] = sel.last]
      BY <2>4 DEF Ask
    <3>2. /\ stage' \in [Peers -> {"out", "asking", "waiting", "nns"}]
          /\ UNCHANGED <<missing, retries, received>>
      BY <1>2, <2>4 DEF Ask
    <3>3. sel.last \in 0 .. PartCount
      <4>1. PICK t : Turns(p, t)
        BY TurnsAre
      <4>2. MaxBlocks \in 0 .. MaxBlocks
        BY DEF IcsAssumption
      <4>3. sel \in Selections(p)
        BY <4>1, <4>2 DEF Turns
      <4> QED
        BY <1>2, <1>3, <4>3 DEF Selections
    <3> DEFINE B == ToSet(sel.blocks)
    <3>4. \A w \in B : w \in Ranges /\ Bytes(w) \subseteq missing
      BY SelectedAre, FreeIsNew
    <3> HIDE DEF B
    <3>5. AllBytes(B) \subseteq missing
      BY <3>4 DEF AllBytes
    <3>6. due'[p] = AllBytes(B) /\ issued'[p] = issued[p] \cup B
          /\ \A q \in Peers : q # p => due'[q] = due[q] /\ issued'[q] = issued[q]
      BY <1>1, <1>2, <3>1 DEF B
    <3>7. \A q \in Peers : due'[q] \subseteq missing \cap AllBytes(issued'[q])
      <4> TAKE q \in Peers
      <4>1. CASE q = p
        BY <3>5, <3>6, <4>1 DEF AllBytes
      <4>2. CASE q # p
        BY <1>2, <3>6, <4>2
      <4> QED
        BY <4>1, <4>2
    <3>8. due' \in [Peers -> SUBSET Offsets]
      BY <1>1, <1>2, <3>1, <3>5 DEF B
    <3>9. lastPart' \in [Peers -> 0 .. PartCount]
      BY <1>2, <3>1, <3>3
    <3> QED
      BY <1>2, <3>2, <3>7, <3>8, <3>9 DEF Flow, AllBytes, Bytes, PartCount, Offsets
  <2>5. CASE Finish(p)
    BY <1>5, <2>5 DEF Finish
  <2>6. CASE \E r \in Offsets \X Offsets : r[1] <= r[2] /\ DataPacket(p, r)
    <3>1. PICK r \in Offsets \X Offsets : r[1] <= r[2] /\ DataPacket(p, r)
      BY <2>6
    <3>2. /\ Bytes(r) \subseteq due[p]
          /\ missing' = missing \ Bytes(r)
          /\ received' = [received EXCEPT ![p] = @ + Cardinality(Bytes(r))]
          /\ due' = [due EXCEPT ![p] = @ \ Bytes(r)]
          /\ UNCHANGED <<requested, issued, lastPart, retries>>
          /\ stage' \in [Peers -> {"out", "asking", "waiting", "nns"}]
      BY <1>2, <3>1 DEF DataPacket
    <3> DEFINE D == Bytes(r)
    <3>3. D \subseteq missing /\ D \in SUBSET Offsets
      BY <1>1, <1>2, <3>2
    <3> HIDE DEF D
    <3>4. /\ Cardinality(D) \in Nat /\ Cardinality(missing \ D) \in Nat
          /\ Cardinality(missing \ D) + Cardinality(D) = Cardinality(missing)
      <4>1. IsFiniteSet(missing) /\ IsFiniteSet(D) /\ IsFiniteSet(missing \ D)
            /\ Cardinality(D) \in Nat /\ Cardinality(missing \ D) \in Nat
        BY <1>1, <3>3, Sizes
      <4> DEFINE X == missing \ D
      <4>2. X \cup D = missing /\ X \cap D = {}
        BY <3>3
      <4> HIDE DEF X
      <4>3. IsFiniteSet(X) /\ Cardinality(X) \in Nat
        BY <4>1 DEF X
      <4>4. Cardinality(X \cup D) = Cardinality(X) + Cardinality(D) - Cardinality(X \cap D)
        BY <4>1, <4>3, FS_Union
      <4>5. Cardinality(X \cap D) = 0
        BY <4>2, FS_EmptySet
      <4> DEFINE m == Cardinality(X \cup D)
                 x == Cardinality(X)
                 d == Cardinality(D)
                 z == Cardinality(X \cap D)
      <4>6. m = Cardinality(missing) /\ z = 0 /\ x \in Nat /\ d \in Nat /\ m = x + d - z
        BY <4>1, <4>2, <4>3, <4>4, <4>5
      <4> HIDE DEF m, x, d, z
      <4>7. m = x + d
        BY <4>6
      <4> QED
        BY <4>6, <4>7 DEF X, x, d
    <3>5. received' \in [Peers -> Nat]
      BY <1>2, <3>2, <3>4 DEF D
    <3>6. \A q \in Peers : received'[q] + Cardinality(missing') <= TotalSize
      <4> TAKE q \in Peers
      <4>1. received[q] \in Nat /\ received[q] + Cardinality(missing) <= TotalSize
        BY <1>2
      <4>2. received'[q] = received[q] + Cardinality(D) \/ received'[q] = received[q]
        BY <1>2, <3>2 DEF D
      <4>3. missing' = missing \ D
        BY <3>2 DEF D
      <4> QED
        BY <1>3, <3>4, <4>1, <4>2, <4>3
    <3>7. due' \in [Peers -> SUBSET Offsets]
      BY <1>2, <3>2
    <3>8. \A q \in Peers : due'[q] \subseteq missing' \cap AllBytes(issued[q])
      <4> TAKE q \in Peers
      <4>1. CASE q = p
        BY <1>2, <3>2, <4>1
      <4>2. CASE q # p
        <5>1. D \cap due[q] = {}
          BY <1>1, <1>2, <3>2, <4>2 DEF D
        <5> QED
          BY <1>2, <3>2, <4>2, <5>1 DEF D
      <4> QED
        BY <4>1, <4>2
    <3> QED
      BY <1>2, <3>2, <3>5, <3>6, <3>7, <3>8 DEF Flow, AllBytes, Bytes, PartCount, Offsets
  <2>7. CASE EndOfDownload(p)
    <3>1. /\ stage' \in [Peers -> {"out", "asking", "waiting", "nns"}]
          /\ due' = [due EXCEPT ![p] = {}]
          /\ UNCHANGED <<missing, requested, issued, lastPart, retries, received>>
      BY <1>2, <2>7 DEF EndOfDownload
    <3>2. due' \in [Peers -> SUBSET Offsets] /\ \A q \in Peers : due'[q] \subseteq due[q]
      BY <1>2, <3>1
    <3> QED
      BY <1>2, <3>1, <3>2 DEF Flow, AllBytes, Bytes, PartCount, Offsets
  <2>8. CASE OutOfPartReqs(p)
    <3>1. /\ stage' \in [Peers -> {"out", "asking", "waiting", "nns"}]
          /\ due' = [due EXCEPT ![p] = {}]
          /\ UNCHANGED <<missing, requested, issued, lastPart, received>>
      BY <1>2, <2>8 DEF OutOfPartReqs
    <3>2. due' \in [Peers -> SUBSET Offsets] /\ \A q \in Peers : due'[q] \subseteq due[q]
      BY <1>2, <3>1
    <3>3. retries[p] \in 0 .. MaxRetries /\ retries[p] < MaxRetries
      BY <1>2, <2>8 DEF OutOfPartReqs
    <3>4. retries' \in [Peers -> 0 .. MaxRetries]
      <4>1. retries[p] + 1 \in 0 .. MaxRetries
        BY <1>3, <3>3
      <4>2. retries' = [retries EXCEPT ![p] = retries[p] + 1]
        BY <2>8 DEF OutOfPartReqs
      <4> QED
        BY <1>2, <4>1, <4>2
    <3> QED
      BY <1>2, <3>1, <3>2, <3>4 DEF Flow, AllBytes, Bytes, PartCount, Offsets
  <2>9. CASE Drop(p)
    BY <1>5, <2>9 DEF Drop
  <2> QED
    BY <2>1, <2>2, <2>3, <2>4, <2>5, <2>6, <2>7, <2>8, <2>9
<1> QED
  BY <1>4, <1>6

(* Ranges, parts, retries and counters keep their bounds; that a transfer  *)
(* never counts more bytes than the file has follows from Flow.            *)
THEOREM IcsTypeCorrect == ASSUME IcsAssumption PROVE IcsSpec => []IcsTypeOK
<1>1. IcsInv /\ Flow => IcsTypeOK
  <2> SUFFICES ASSUME IcsInv, Flow
               PROVE  IcsTypeOK
    OBVIOUS
  <2>1. TotalSize \in Nat /\ Cardinality(missing) \in Nat
    BY Sizes DEF IcsInv
  <2>2. received \in [Peers -> 0 .. TotalSize]
    <3>1. \A p \in Peers : received[p] \in 0 .. TotalSize
      BY <2>1 DEF Flow
    <3> QED
      BY <3>1 DEF Flow
  <2>3. requested \subseteq Ranges
    BY RequestedAre
  <2> QED
    BY <2>2, <2>3 DEF Flow, IcsInv, IcsTypeOK
<1>2. (IcsInv /\ Flow) /\ [IcsNext]_icsVars => (IcsInv /\ Flow)'
  BY IcsStep, FlowStep
<1>3. IcsInit => IcsInv /\ Flow
  BY IcsStart, FlowStart
<1> QED
  BY <1>1, <1>2, <1>3, PTL DEF IcsSpec

-----------------------------------------------------------------------------
(* Natt: what an end of a uTP stream reads is what the other wrote.        *)

(* The states of a stream.                                                 *)
StreamType ==
    [here : BOOLEAN, open : BOOLEAN, up : BOOLEAN, seq : Nat, ack : Nat,
     sent : SUBSET ({"syn", "data", "fin"} \X Nat \X Nat), early : SUBSET (Nat \X Nat), got : Seq(Nat),
     fin : BOOLEAN, wrote : Nat, closing : BOOLEAN]

(* The number of the first packet after the SYN of the downloader, or      *)
(* after its acknowledgement.                                              *)
FirstSeq(e) == IF e = "req" THEN 2 ELSE 1

(* A packet of a stream that starts at number k, of which w chunks were    *)
(* written and that was closed or not.                                     *)
OfStream(k, w, closed, seq, chunk) ==
    \/ chunk \in 1..w /\ seq = k - 1 + chunk
    \/ chunk = 0 /\ closed /\ seq = k + w

UpTo(n) == [i \in 1..n |-> i]
Smaller(m, n) == IF m < n THEN m ELSE n

(* What s has heard of such a stream: everything up to its ack, with what  *)
(* came too early kept aside.                                              *)
Heard(s, k, w, closed) ==
    /\ k - 1 <= s.ack /\ s.ack <= k + w
    /\ s.ack = k + w => closed
    /\ s.got = UpTo(Smaller(s.ack - k + 1, w))
    /\ \A x \in s.early : OfStream(k, w, closed, x[1], x[2])
    /\ s.fin => s.ack = k + w

(* Another chunk, or the FIN, takes nothing from what was heard.           *)
LEMMA MoreIsWritten ==
    ASSUME NEW s \in StreamType, NEW k \in {1, 2}, NEW w \in Nat, Heard(s, k, w, FALSE)
    PROVE  Heard(s, k, w + 1, FALSE) /\ Heard(s, k, w, TRUE)
<1>1. s.ack \in Nat /\ k - 1 <= s.ack /\ s.ack < k + w
  BY DEF Heard, StreamType
<1>3. Smaller(s.ack - k + 1, w) = Smaller(s.ack - k + 1, w + 1)
  BY <1>1 DEF Smaller
<1>4. s.ack <= k + w /\ s.ack <= k + (w + 1) /\ s.ack # k + w /\ s.ack # k + (w + 1)
  BY <1>1
<1>5. ~s.fin /\ s.got = UpTo(Smaller(s.ack - k + 1, w))
  BY <1>4 DEF Heard
<1>2. \A x \in s.early : OfStream(k, w + 1, FALSE, x[1], x[2]) /\ OfStream(k, w, TRUE, x[1], x[2])
  BY DEF Heard, OfStream
<1> QED
  BY <1>1, <1>2, <1>3, <1>4, <1>5 DEF Heard

(* The numbers up to n, one after the other.                               *)
LEMMA UpToIs ==
    ASSUME NEW n \in Nat
    PROVE  UpTo(n) \in Seq(Nat) /\ Len(UpTo(n)) = n /\ UpTo(n) \o <<n + 1>> = UpTo(n + 1)
<1>1. UpTo(n) \in Seq(Nat) /\ Len(UpTo(n)) = n
  <2>1. \A i \in 1..n : i \in Nat
    OBVIOUS
  <2> QED
    BY <2>1 DEF UpTo
<1>2. <<n + 1>> \in Seq(Nat) /\ Len(<<n + 1>>) = 1 /\ <<n + 1>>[1] = n + 1
  OBVIOUS
<1> DEFINE a == UpTo(n)
           b == <<n + 1>>
<1> HIDE DEF a, b
<1>3. a \o b \in Seq(Nat) /\ Len(a \o b) = n + 1
      /\ \A i \in 1..(n + 1) : (a \o b)[i] = IF i <= n THEN a[i] ELSE b[i - n]
  BY <1>1, <1>2, ConcatProperties DEF a, b
<1>4. UpTo(n + 1) \in Seq(Nat) /\ Len(UpTo(n + 1)) = n + 1
  <2>1. \A i \in 1..(n + 1) : i \in Nat
    OBVIOUS
  <2> QED
    BY <2>1 DEF UpTo
<1>5. ASSUME NEW i \in 1..(n + 1)
      PROVE  (a \o b)[i] = UpTo(n + 1)[i]
  <2>1. UpTo(n + 1)[i] = i
    BY DEF UpTo
  <2>2. CASE i <= n
    <3>1. i \in 1..n
      BY <2>2
    <3>2. a[i] = i
      BY <3>1 DEF a, UpTo
    <3> QED
      BY <1>3, <2>1, <2>2, <3>2
  <2>3. CASE i = n + 1
    <3>1. b[i - n] = n + 1
      BY <1>2, <2>3 DEF b
    <3> QED
      BY <1>3, <2>1, <2>3, <3>1
  <2> QED
    BY <2>2, <2>3, i <= n \/ i = n + 1
<1>6. a \o b = UpTo(n + 1)
  <2> DEFINE t == UpTo(n + 1)
  <2> HIDE DEF t
  <2>1. a \o b \in Seq(Nat) /\ t \in Seq(Nat) /\ Len(a \o b) = Len(t) /\ \A i \in 1..Len(t) : (a \o b)[i] = t[i]
    BY <1>3, <1>4, <1>5 DEF t
  <2>2. a \o b = t
    BY <2>1, SeqEqual
  <2> QED
    BY <2>2 DEF t
<1> QED
  BY <1>1, <1>6 DEF a, b

(* What is handed on next takes the reader from m chunks to n.             *)
Continues(m, part, n) == part \in Seq(Nat) /\ UpTo(m) \o part = UpTo(n)

(* The next packet in order adds the next chunk, or is the end.            *)
LEMMA NextPayload ==
    ASSUME NEW k \in {1, 2}, NEW w \in Nat, NEW closed \in BOOLEAN, NEW seq \in Nat, NEW chunk \in Nat,
           OfStream(k, w, closed, seq, chunk)
    PROVE  /\ Continues(Smaller(seq - k, w), Payload(chunk), Smaller(seq - k + 1, w))
           /\ k <= seq /\ seq <= k + w
           /\ seq = k + w <=> chunk = 0
           /\ chunk = 0 => closed
<1>0. Payload(chunk) \in Seq(Nat)
  BY DEF Payload
<1> USE DEF Continues
<1>1. CASE chunk = 0
  <2>1. seq = k + w /\ closed /\ Payload(chunk) = <<>> /\ Smaller(seq - k, w) = w /\ Smaller(seq - k + 1, w) = w
    BY <1>1 DEF OfStream, Payload, Smaller
  <2>2. UpTo(w) \o <<>> = UpTo(w)
    BY UpToIs, ConcatEmptySeq
  <2>3. k <= seq /\ seq <= k + w
    BY <2>1
  <2> QED
    BY <1>0, <1>1, <2>1, <2>2, <2>3
<1>2. CASE chunk \in 1..w
  <2>1. seq = k - 1 + chunk /\ Payload(chunk) = <<chunk>> /\ chunk # 0
    BY <1>2 DEF OfStream, Payload
  <2>2. Smaller(seq - k, w) = chunk - 1 /\ Smaller(seq - k + 1, w) = chunk /\ chunk - 1 \in Nat /\ (chunk - 1) + 1 = chunk
    BY <1>2, <2>1 DEF Smaller
  <2>3. UpTo(chunk - 1) \o <<chunk>> = UpTo(chunk)
    BY <2>2, UpToIs
  <2>4. k <= seq /\ seq < k + w
    BY <1>2, <2>1
  <2> QED
    BY <1>0, <2>1, <2>2, <2>3, <2>4
<1> QED
  BY <1>1, <1>2 DEF OfStream

(* Draining stops at the first number that is not kept.                    *)
LEMMA DrainedIs ==
    ASSUME NEW early \in SUBSET (Nat \X Nat), NEW seq \in Nat, NEW m \in Nat, seq <= m, m <= Modulus,
           Modulus \in Nat, \A x \in early : x[1] <= m
    PROVE  /\ Drained(early, seq) \in seq..m
           /\ \A k \in (seq + 1)..Drained(early, seq) : \E x \in early : x[1] = k
           /\ ~\E x \in early : x[1] = Drained(early, seq) + 1
<1> DEFINE T == {n \in Nat : seq <= n /\ ~\E x \in early : x[1] = n + 1}
           Fits(n) == /\ \A k \in (seq + 1)..n : \E x \in early : x[1] = k
                      /\ ~\E x \in early : x[1] = n + 1
<1>1. m \in T
  <2>1. \A x \in early : x[1] \in Nat /\ x[1] # m + 1
    OBVIOUS
  <2> QED
    BY <2>1
<1>2. PICK n \in T : \A i \in T : n <= i
  <2> HIDE DEF T
  <2>1. T \in SUBSET Nat
    BY DEF T
  <2> QED
    BY <1>1, <2>1, LeastNumber
<1>3. n \in seq..m
  BY <1>1, <1>2
<1>4. ASSUME NEW k \in (seq + 1)..n
      PROVE  \E x \in early : x[1] = k
  <2>1. k - 1 \in Nat /\ seq <= k - 1 /\ k - 1 < n /\ (k - 1) + 1 = k
    OBVIOUS
  <2>2. k - 1 \notin T
    BY <1>2, <2>1
  <2> QED
    BY <2>1, <2>2
<1>5. Fits(n) /\ n \in seq..Modulus
  BY <1>2, <1>3, <1>4
<1>6. Drained(early, seq) \in seq..Modulus /\ Fits(Drained(early, seq))
  <2> HIDE DEF Fits
  <2>1. Drained(early, seq) = CHOOSE i \in seq..Modulus : Fits(i)
    BY DEF Drained, Fits
  <2> QED
    BY <1>5, <2>1
<1>7. Drained(early, seq) <= m
  <2> DEFINE d == Drained(early, seq)
  <2>1. d \in Nat /\ d \in seq..Modulus
    BY <1>6
  <2> HIDE DEF d
  <2>2. SUFFICES ASSUME d > m
                 PROVE  FALSE
    BY <2>1 DEF d
  <2>3. d \in (seq + 1)..d
    BY <2>1, <2>2
  <2>4. \E x \in early : x[1] = d
    BY <1>6, <2>3 DEF d
  <2> QED
    BY <2>1, <2>2, <2>4
<1> QED
  BY <1>6, <1>7

(* Sequences can be joined one after the other.                            *)
LEMMA Joining ==
    ASSUME NEW N \in Nat, NEW P \in [1..N -> Seq(Nat)]
    PROVE  \E g \in [0..N -> Seq(Nat)] : g[0] = <<>> /\ \A i \in 1..N : g[i] = g[i - 1] \o P[i]
<1> DEFINE S == Seq(Nat)
           b == <<>>
           D == [i \in 1..N |-> [s \in S |-> s \o P[i]]]
<1>1. b \in S
  OBVIOUS
<1>2. D \in [1..N -> [S -> S]]
  <2>1. \A i \in 1..N : \A s \in S : s \o P[i] \in S
    BY ConcatProperties
  <2> QED
    BY <2>1
<1>a. PICK g : Recursive(g, S, b, N, D)
  <2> HIDE DEF S, b, D
  <2> QED
    BY <1>1, <1>2, RecursionExists
<1>3. g \in [0..N -> S] /\ g[0] = b /\ \A i \in 1..N : g[i] = D[i][g[i - 1]]
  BY <1>a DEF Recursive
<1>4. ASSUME NEW i \in 1..N
      PROVE  g[i] = g[i - 1] \o P[i]
  <2>1. g[i - 1] \in S
    BY <1>3
  <2>2. D[i][g[i - 1]] = g[i - 1] \o P[i]
    BY <2>1
  <2> QED
    BY <1>3, <2>2
<1> QED
  BY <1>3, <1>4

(* What is drained continues what was received.                            *)
LEMMA ChunksAre ==
    ASSUME NEW k \in {1, 2}, NEW w \in Nat, NEW closed \in BOOLEAN,
           NEW early \in SUBSET (Nat \X Nat), \A x \in early : OfStream(k, w, closed, x[1], x[2]),
           NEW seq \in Nat, NEW n \in Nat, k <= seq, seq <= n,
           \A i \in (seq + 1)..n : \E x \in early : x[1] = i
    PROVE  Continues(Smaller(seq - k + 1, w), ChunksOf(early, seq, n), Smaller(n - k + 1, w))
<1> DEFINE N == n - seq
           Piece(i) == Payload(ChunkAt(early, seq + i))
           P == [i \in 1..N |-> Piece(i)]
           taken == CHOOSE f : f = [i \in 0..N |-> IF i = 0 THEN <<>> ELSE f[i - 1] \o Piece(i)]
<1>1. N \in Nat
  OBVIOUS
<1>2. ASSUME NEW i \in 1..N
      PROVE  /\ Piece(i) \in Seq(Nat)
             /\ UpTo(Smaller((seq + i) - k, w)) \o Piece(i) = UpTo(Smaller((seq + i) - k + 1, w))
  <2>1. seq + i \in (seq + 1)..n
    OBVIOUS
  <2>2. PICK x \in early : x = CHOOSE y \in early : y[1] = seq + i
    BY <2>1
  <2>3. x[1] = seq + i /\ x[2] \in Nat /\ ChunkAt(early, seq + i) = x[2]
    BY <2>1, <2>2 DEF ChunkAt
  <2>4. OfStream(k, w, closed, seq + i, x[2])
    BY <2>3
  <2> DEFINE q == seq + i
             c == x[2]
  <2>5. Piece(i) = Payload(c) /\ q \in Nat /\ c \in Nat /\ OfStream(k, w, closed, q, c)
    BY <2>3, <2>4
  <2> HIDE DEF Piece, q, c
  <2>6. Continues(Smaller(q - k, w), Payload(c), Smaller(q - k + 1, w))
    BY <2>5, NextPayload
  <2> QED
    BY <2>5, <2>6 DEF q, Continues
<1>3. P \in [1..N -> Seq(Nat)]
  <2> HIDE DEF Piece, N
  <2> QED
    BY <1>2
<1>4. PICK g \in [0..N -> Seq(Nat)] : g[0] = <<>> /\ \A i \in 1..N : g[i] = g[i - 1] \o P[i]
  <2> HIDE DEF P, N
  <2> QED
    BY <1>1, <1>3, Joining
<1>5. g = [i \in 0..N |-> IF i = 0 THEN <<>> ELSE g[i - 1] \o Piece(i)]
  <2> HIDE DEF Piece
  <2>1. \A i \in 1..N : g[i] = g[i - 1] \o Piece(i)
    BY <1>4
  <2>2. \A i \in 0..N : i = 0 \/ i \in 1..N
    BY <1>1
  <2> QED
    BY <1>4, <2>1, <2>2
<1>6. taken = [i \in 0..N |-> IF i = 0 THEN <<>> ELSE taken[i - 1] \o Piece(i)]
  <2> HIDE DEF N, Piece
  <2> QED
    BY <1>5
<1>7. ChunksOf(early, seq, n) = taken[N]
  BY DEF ChunksOf
<1> HIDE DEF taken, P
<1> DEFINE T == {i \in 0..N : /\ taken[i] \in Seq(Nat)
                              /\ UpTo(Smaller(seq - k + 1, w)) \o taken[i] = UpTo(Smaller((seq + i) - k + 1, w))}
<1>8. 0 \in T
  <2>1. taken[0] = <<>> /\ Smaller(seq - k + 1, w) \in Nat /\ (seq + 0) - k + 1 = seq - k + 1
    BY <1>1, <1>6 DEF Smaller
  <2>2. UpTo(Smaller(seq - k + 1, w)) \in Seq(Nat)
    BY <2>1, UpToIs
  <2>3. UpTo(Smaller(seq - k + 1, w)) \o <<>> = UpTo(Smaller(seq - k + 1, w)) /\ <<>> \in Seq(Nat)
    BY <2>2, ConcatEmptySeq
  <2>4. 0 \in 0..N
    BY <1>1
  <2> HIDE DEF N
  <2> QED
    BY <2>1, <2>3, <2>4
<1>9. ASSUME NEW i \in 0..(N - 1), i \in T
      PROVE  i + 1 \in T
  <2>1. i + 1 \in 1..N /\ (i + 1) - 1 = i /\ (seq + (i + 1)) - k = (seq + i) - k + 1
    BY <1>1
  <2>2. taken[i + 1] = taken[i] \o Piece(i + 1)
    <3> HIDE DEF Piece, N
    <3>1. i + 1 \in 0..N /\ i + 1 # 0
      BY <1>1, <2>1
    <3> QED
      BY <1>6, <2>1, <3>1
  <2>3. Piece(i + 1) \in Seq(Nat) /\ UpTo(Smaller((seq + i) - k + 1, w)) \o Piece(i + 1) = UpTo(Smaller((seq + (i + 1)) - k + 1, w))
    <3> HIDE DEF Piece, N
    <3> QED
      BY <1>2, <2>1
  <2>4. Smaller(seq - k + 1, w) \in Nat
    BY DEF Smaller
  <2> DEFINE a == UpTo(Smaller(seq - k + 1, w))
             b == taken[i]
             c == Piece(i + 1)
  <2>5. a \in Seq(Nat) /\ b \in Seq(Nat) /\ c \in Seq(Nat)
    BY <1>9, <2>3, <2>4, UpToIs
  <2> HIDE DEF a, b, c
  <2>6. (a \o b) \o c = a \o (b \o c) /\ b \o c \in Seq(Nat)
    <3> DEFINE S == Nat
    <3>1. a \in Seq(S) /\ b \in Seq(S) /\ c \in Seq(S)
      BY <2>5
    <3> HIDE DEF S
    <3>2. (a \o b) \o c = a \o (b \o c)
      BY <3>1, ConcatAssociative
    <3>3. b \o c \in Seq(S)
      BY <3>1, ConcatProperties
    <3> QED
      BY <3>2, <3>3 DEF S
  <2>7. a \o b = UpTo(Smaller((seq + i) - k + 1, w))
    BY <1>9 DEF a, b
  <2>8. taken[i + 1] \in Seq(Nat) /\ a \o taken[i + 1] = UpTo(Smaller((seq + (i + 1)) - k + 1, w))
    BY <2>2, <2>3, <2>6, <2>7 DEF b, c
  <2>9. i + 1 \in 0..N
    BY <2>1
  <2> HIDE DEF N
  <2> QED
    BY <2>8, <2>9 DEF a
<1>10. N \in T
  <2> HIDE DEF T, N
  <2>1. \A i \in 0..N : i \in T
    BY <1>1, <1>8, <1>9, NumbersUpTo
  <2> QED
    BY <1>1, <2>1
<1>11. seq + N = n
  OBVIOUS
<1> QED
  BY <1>7, <1>10, <1>11 DEF Continues

(* A packet of the stream is either next, and brings what waited for it,   *)
(* or early, or old.                                                       *)
LEMMA ReceivedIs ==
    ASSUME NEW s \in StreamType, NEW k \in {1, 2}, NEW w \in Nat, NEW closed \in BOOLEAN,
           Modulus \in Nat, k + w <= Modulus, Heard(s, k, w, closed),
           NEW type, NEW seq \in Nat, NEW chunk \in Nat, OfStream(k, w, closed, seq, chunk),
           type = "fin" <=> chunk = 0
    PROVE  LET t == Received(s, type, seq, chunk)
           IN  /\ t \in StreamType /\ Heard(t, k, w, closed)
               /\ t.here = s.here /\ t.open = s.open /\ t.up = s.up /\ t.seq = s.seq
               /\ t.sent = s.sent /\ t.wrote = s.wrote /\ t.closing = s.closing
<1> DEFINE n == Drained(s.early, seq)
           early == {x \in s.early : x[1] > n}
           got == s.got \o Payload(chunk) \o ChunksOf(s.early, seq, n)
           next == [s EXCEPT !.ack = n, !.early = early, !.got = got]
           kept == IF \E x \in s.early : x[1] = seq THEN s.early ELSE s.early \cup {<<seq, chunk>>}
           held == [s EXCEPT !.early = kept]
           t == CASE seq = s.ack + 1 -> next [] seq > s.ack + 1 -> held [] OTHER -> s
           Stays(u) == /\ u.here = s.here /\ u.open = s.open /\ u.up = s.up /\ u.seq = s.seq
                       /\ u.sent = s.sent /\ u.wrote = s.wrote /\ u.closing = s.closing
           Goal(u) == u \in StreamType /\ Heard(u, k, w, closed) /\ Stays(u)
<1>0. /\ s.ack \in Nat /\ s.early \in SUBSET (Nat \X Nat) /\ s.got \in Seq(Nat)
      /\ \A x \in s.early : OfStream(k, w, closed, x[1], x[2])
      /\ k - 1 <= s.ack /\ s.ack <= k + w /\ s.got = UpTo(Smaller(s.ack - k + 1, w))
      /\ s.fin => s.ack = k + w
      /\ s.ack = k + w => closed
  BY DEF StreamType, Heard
<1>1. k <= seq /\ seq <= k + w /\ Continues(Smaller(seq - k, w), Payload(chunk), Smaller(seq - k + 1, w))
      /\ (seq = k + w <=> chunk = 0) /\ (chunk = 0 => closed)
  BY NextPayload
<1>2. \A x \in s.early : x[1] \in Nat /\ x[2] \in Nat /\ x[1] <= k + w /\ (x[1] = k + w => closed)
  <2> SUFFICES ASSUME NEW x \in s.early
               PROVE  x[1] \in Nat /\ x[2] \in Nat /\ x[1] <= k + w /\ (x[1] = k + w => closed)
    OBVIOUS
  <2>1. x[1] \in Nat /\ x[2] \in Nat /\ OfStream(k, w, closed, x[1], x[2])
    BY <1>0
  <2> QED
    BY <2>1 DEF OfStream
<1>3. ASSUME seq = s.ack + 1
      PROVE  Goal(next)
  <2>1. /\ n \in seq..(k + w) /\ \A i \in (seq + 1)..n : \E x \in s.early : x[1] = i
    <3>1. k + w \in Nat /\ \A x \in s.early : x[1] <= k + w
      BY <1>2
    <3> HIDE DEF n
    <3> QED
      BY <1>0, <1>1, <3>1, DrainedIs DEF n
  <2> HIDE DEF n
  <2>2. n \in Nat /\ seq <= n /\ n <= k + w
    BY <2>1
  <2>3. Continues(Smaller(seq - k + 1, w), ChunksOf(s.early, seq, n), Smaller(n - k + 1, w))
    BY <1>0, <1>1, <2>1, <2>2, ChunksAre
  <2>4. got = UpTo(Smaller(n - k + 1, w)) /\ got \in Seq(Nat)
    <3>1. s.got \o Payload(chunk) = UpTo(Smaller(seq - k + 1, w))
      <4>1. s.ack - k + 1 = seq - k
        BY <1>0, <1>3
      <4> QED
        BY <1>0, <1>1, <4>1 DEF Continues
    <3>2. Smaller(n - k + 1, w) \in Nat
      BY <1>1, <2>2 DEF Smaller
    <3> QED
      BY <2>3, <3>1, <3>2, UpToIs DEF Continues
  <2>5. early \in SUBSET (Nat \X Nat)
    BY <1>0
  <2>6. n = k + w => closed
    <3>1. CASE n = seq
      BY <1>1, <3>1
    <3>2. CASE n # seq
      <4>1. n \in (seq + 1)..n
        BY <2>2, <3>2
      <4> QED
        BY <1>2, <2>1, <4>1
    <3> QED
      BY <3>1, <3>2
  <2>7. ~s.fin
    BY <1>0, <1>1, <1>3
  <2> HIDE DEF early, got
  <2>8. next \in StreamType /\ Stays(next) /\ next.ack = n /\ next.early = early /\ next.got = got /\ next.fin = s.fin
    BY <2>2, <2>4, <2>5 DEF StreamType
  <2>9. \A x \in early : OfStream(k, w, closed, x[1], x[2])
    BY <1>0 DEF early
  <2>10. k - 1 <= n
    BY <1>1, <2>2
  <2> HIDE DEF next
  <2>11. Heard(next, k, w, closed)
    BY <2>2, <2>4, <2>6, <2>7, <2>8, <2>9, <2>10 DEF Heard
  <2> QED
    BY <2>8, <2>11
<1>4. Goal(held)
  <2>1. kept \in SUBSET (Nat \X Nat) /\ \A x \in kept : OfStream(k, w, closed, x[1], x[2])
    BY <1>0
  <2> HIDE DEF kept
  <2>2. held \in StreamType /\ Stays(held) /\ held.ack = s.ack /\ held.early = kept /\ held.got = s.got /\ held.fin = s.fin
    BY <2>1 DEF StreamType
  <2> HIDE DEF held
  <2>3. Heard(held, k, w, closed)
    BY <1>0, <2>1, <2>2 DEF Heard
  <2> QED
    BY <2>2, <2>3
<1>5. Goal(s)
  OBVIOUS
<1>6. Goal(t) /\ (t = next \/ t = held \/ t = s)
  <2> HIDE DEF next, held, Goal
  <2>1. CASE seq = s.ack + 1
    <3>1. t = next
      BY <1>0, <2>1
    <3> QED
      BY <1>3, <2>1, <3>1
  <2>2. CASE seq > s.ack + 1
    <3>1. t = held
      BY <1>0, <2>2
    <3> QED
      BY <1>4, <3>1
  <2>3. CASE seq < s.ack + 1
    <3>1. t = s
      BY <1>0, <2>3
    <3> QED
      BY <1>5, <3>1
  <2> QED
    BY <1>0, <2>1, <2>2, <2>3
<1> DEFINE u == [t EXCEPT !.fin = @ \/ (type = "fin" /\ seq <= t.ack)]
<1>7. u = Received(s, type, seq, chunk)
  BY DEF Received
<1> HIDE DEF t
<1>8. u \in StreamType /\ Stays(u) /\ u.ack = t.ack /\ u.early = t.early /\ u.got = t.got
      /\ u.fin = (t.fin \/ (type = "fin" /\ seq <= t.ack))
  BY <1>6 DEF StreamType
<1>9. u.fin => u.ack = k + w
  <2>1. CASE t.fin
    BY <1>6, <1>8, <2>1 DEF Heard
  <2>2. CASE type = "fin" /\ seq <= t.ack
    <3>1. seq = k + w /\ t.ack <= k + w /\ t.ack \in Nat
      BY <1>1, <1>6, <2>2 DEF Heard, StreamType
    <3> QED
      BY <1>8, <2>2, <3>1
  <2> QED
    BY <1>8, <2>1, <2>2
<1> HIDE DEF u
<1>10. Heard(u, k, w, closed)
  BY <1>6, <1>8, <1>9 DEF Heard
<1> QED
  BY <1>7, <1>8, <1>10

(* A packet that end e may send, in the state s of its stream.             *)
PacketOf(e, s, type, seq, chunk) ==
    /\ type \in {"data", "fin"} /\ seq \in Nat /\ chunk \in Nat
    /\ type = "fin" <=> chunk = 0
    /\ OfStream(FirstSeq(e), s.wrote, s.closing, seq, chunk)

Ended(s) == IF s.closing THEN 1 ELSE 0

(* The next number of each end follows what it has written.                *)
Numbered ==
    /\ \A e \in Sides : st[e].wrote <= Chunks[e]
    /\ st["src"].seq = 1 + st["src"].wrote + Ended(st["src"])
    /\ phase = "connected" => st["req"].seq = 2 + st["req"].wrote + Ended(st["req"])
    /\ phase # "connected" => st["req"].seq = 1 /\ st["req"].wrote = 0 /\ ~st["req"].closing

(* The stream of the source starts when it is accepted.                    *)
Accepted ==
    /\ pending => ~st["src"].here
    /\ ~st["src"].here =>
         /\ st["src"].ack = 0 /\ st["src"].got = <<>> /\ st["src"].early = {}
         /\ ~st["src"].fin /\ ~st["src"].up /\ st["src"].wrote = 0 /\ ~st["src"].closing

Hears(e) == Heard(st[e], FirstSeq(Far(e)), st[Far(e)].wrote, st[Far(e)].closing)

(* Nothing is made up on the way, and what is sent again was sent before.  *)
Carried ==
    \A p \in air : p[1] \in Sides /\ p[2] \in {"data", "fin"} =>
        PacketOf(Far(p[1]), st[Far(p[1])], p[2], p[3], p[5])
Resent ==
    \A e \in Sides : \A x \in st[e].sent : x = <<"syn", 1, 0>> \/ PacketOf(e, st[e], x[1], x[2], x[3])

NattInv ==
    /\ st \in [Sides -> StreamType]
    /\ Numbered /\ Accepted
    /\ Hears("req") /\ (st["src"].here => Hears("src"))
    /\ Carried /\ Resent

(* There are no streams to begin with.                                     *)
LEMMA NattStart == NattInit => NattInv
<1> SUFFICES ASSUME NattInit
             PROVE  NattInv
  OBVIOUS
<1>1. \A e \in Sides : st[e] = NewStream
  BY DEF NattInit
<1>2. NewStream \in StreamType
  BY DEF NewStream, StreamType
<1>3. st \in [Sides -> StreamType]
  BY <1>1, <1>2 DEF NattInit
<1>4. st["req"] = NewStream /\ st["src"] = NewStream /\ "req" \in Sides /\ "src" \in Sides
  BY <1>1 DEF Sides
<1>5. Numbered
  BY <1>1, <1>4, NattAssumption DEF Numbered, Ended, NewStream, NattInit
<1>6. Accepted
  BY <1>4 DEF Accepted, NewStream, NattInit
<1>7. Hears("req")
  <2>1. UpTo(Smaller(0 - 1 + 1, 0)) = <<>>
    <3>1. Smaller(0 - 1 + 1, 0) = 0
      BY DEF Smaller
    <3>2. UpTo(0) \in Seq(Nat) /\ Len(UpTo(0)) = 0
      BY UpToIs, 0 \in Nat
    <3> QED
      BY <3>1, <3>2, EmptySeq
  <2>2. Far("req") = "src" /\ FirstSeq("src") = 1
    BY DEF Far, FirstSeq
  <2> QED
    BY <1>4, <2>1, <2>2 DEF Hears, Heard, NewStream
<1>8. Carried /\ Resent /\ ~st["src"].here
  BY <1>1, <1>4 DEF Carried, Resent, NattInit, NewStream
<1> QED
  BY <1>3, <1>5, <1>6, <1>7, <1>8 DEF NattInv

(* What the ends know of each other.                                       *)
Knows(s) == <<s.ack, s.early, s.got, s.fin, s.wrote, s.closing>>

(* A step of the rendezvous, of a timer or of a retransmission.            *)
LEMMA QuietOn ==
    ASSUME NattInv, NEW sent, air' \subseteq air \cup sent,
           \A p \in sent : \/ p[2] \notin {"data", "fin"}
                           \/ \E e \in Sides : \E x \in st[e].sent : p = Packet(e, x[1], x[2], x[3]),
           st' \in [Sides -> StreamType], \A e \in Sides : Knows(st'[e]) = Knows(st[e]) /\ st'[e].seq = st[e].seq,
           \A e \in Sides : st'[e].sent \subseteq st[e].sent \cup {<<"syn", 1, 0>>},
           st'["src"].here = st["src"].here, st["src"].here \/ st'["src"].up = st["src"].up,
           phase' = "connected" <=> phase = "connected", pending' => pending \/ ~st["src"].here
    PROVE  NattInv'
<1>1. \A e \in Sides : /\ st'[e].ack = st[e].ack /\ st'[e].early = st[e].early /\ st'[e].got = st[e].got
                       /\ st'[e].fin = st[e].fin /\ st'[e].wrote = st[e].wrote
                       /\ st'[e].closing = st[e].closing /\ st'[e].seq = st[e].seq
  BY DEF Knows
<1>2. "req" \in Sides /\ "src" \in Sides /\ \A e \in Sides : Far(e) \in Sides
  BY DEF Sides, Far
<1>3. Numbered'
  BY <1>1, <1>2 DEF NattInv, Numbered, Ended
<1>4. Accepted'
  BY <1>1, <1>2 DEF NattInv, Accepted
<1>5. Hears("req")' /\ (st["src"].here => Hears("src"))'
  BY <1>1, <1>2 DEF NattInv, Hears, Heard
<1>6. \A e \in Sides : \A type, seq, chunk : PacketOf(e, st[e], type, seq, chunk) => PacketOf(e, st'[e], type, seq, chunk)
  BY <1>1 DEF PacketOf
<1>7. ASSUME NEW p \in sent, p[1] \in Sides, p[2] \in {"data", "fin"}
      PROVE  PacketOf(Far(p[1]), st[Far(p[1])], p[2], p[3], p[5])
  <2>0. PICK e \in Sides : \E x \in st[e].sent : p = Packet(e, x[1], x[2], x[3])
    BY <1>7
  <2>1. PICK x \in st[e].sent : p = Packet(e, x[1], x[2], x[3])
    BY <2>0
  <2>2. p[1] = Far(e) /\ p[2] = x[1] /\ p[3] = x[2] /\ p[5] = x[3]
    BY <2>1 DEF Packet
  <2>3. Far(p[1]) = e
    BY <2>2 DEF Far, Sides
  <2>4. x # <<"syn", 1, 0>>
    BY <1>7, <2>2
  <2> QED
    BY <2>2, <2>3, <2>4 DEF NattInv, Resent
<1>8. Carried'
  <2> SUFFICES ASSUME NEW p \in air', p[1] \in Sides, p[2] \in {"data", "fin"}
               PROVE  PacketOf(Far(p[1]), st'[Far(p[1])], p[2], p[3], p[5])
    BY DEF Carried
  <2>1. PacketOf(Far(p[1]), st[Far(p[1])], p[2], p[3], p[5])
    BY <1>7 DEF NattInv, Carried
  <2> QED
    BY <1>2, <1>6, <2>1
<1>9. Resent'
  BY <1>6 DEF NattInv, Resent
<1> QED
  BY <1>3, <1>4, <1>5, <1>8, <1>9 DEF NattInv

(* The two ends.                                                           *)
LEMMA SidesAre ==
    /\ "req" \in Sides /\ "src" \in Sides /\ \A e \in Sides : e = "req" \/ e = "src"
    /\ \A e \in Sides : Far(e) \in Sides /\ Far(Far(e)) = e /\ Far(e) # e /\ FirstSeq(e) \in {1, 2}
    /\ Far("req") = "src" /\ Far("src") = "req" /\ FirstSeq("req") = 2 /\ FirstSeq("src") = 1
BY DEF Sides, Far, FirstSeq

(* A packet or a FIN is added to a stream that was not closed.             *)
LEMMA MoreOn ==
    ASSUME NattInv, NumbersSuffice, NEW e \in Sides, NEW type, NEW chunk \in Nat,
           e = "src" => st[e].here, ~st[e].closing, e = "req" => phase = "connected",
           \/ type = "data" /\ chunk = st[e].wrote + 1 /\ chunk <= Chunks[e]
           \/ type = "fin" /\ chunk = 0,
           LET s == [st[e] EXCEPT !.seq = (@ + 1) % Modulus, !.sent = @ \cup {<<type, st[e].seq, chunk>>}]
           IN  st' = [st EXCEPT ![e] = IF type = "data" THEN [s EXCEPT !.wrote = chunk]
                                       ELSE [s EXCEPT !.closing = TRUE]],
           Carries({Packet(e, type, st[e].seq, chunk)}), UNCHANGED <<phase, pending>>
    PROVE  NattInv'
<1> DEFINE q == st[e].seq
           k == FirstSeq(e)
           s == st'[e]
<1>0. st[e] \in StreamType /\ Modulus \in Nat /\ Chunks[e] \in Nat /\ Chunks[e] + 3 < Modulus /\ st[e].wrote \in Nat
      /\ st[e].wrote <= Chunks[e] /\ k \in {1, 2} /\ q \in Nat /\ st \in [Sides -> StreamType]
  BY NattAssumption, SidesAre DEF NattInv, NumbersSuffice, StreamType, Numbered
<1>1. q = k + st[e].wrote
  <2>1. Ended(st[e]) = 0
    BY DEF Ended
  <2>2. CASE e = "req"
    <3>1. st["req"].seq = 2 + st["req"].wrote + Ended(st["req"])
      BY <2>2 DEF NattInv, Numbered
    <3> QED
      BY <1>0, <2>1, <2>2, <3>1, SidesAre
  <2>3. CASE e = "src"
    <3>1. st["src"].seq = 1 + st["src"].wrote + Ended(st["src"])
      BY DEF NattInv, Numbered
    <3> QED
      BY <1>0, <2>1, <2>3, <3>1, SidesAre
  <2> QED
    BY <2>2, <2>3, SidesAre
<1>2. (q + 1) % Modulus = q + 1
  <2>1. q + 1 \in 0..(Modulus - 1)
    BY <1>0, <1>1
  <2> HIDE DEF q
  <2> QED
    BY <1>0, <2>1
<1> HIDE DEF q, k
<1>a. type \in {"data", "fin"} /\ type \in {"syn", "data", "fin"}
  <2>1. CASE type = "data"
    BY <2>1
  <2>2. CASE type = "fin"
    BY <2>2
  <2> QED
    BY <2>1, <2>2
<1> DEFINE n == (st[e].seq + 1) % Modulus
           sent == st[e].sent \cup {<<type, st[e].seq, chunk>>}
           r == [st[e] EXCEPT !.seq = n, !.sent = sent]
<1>b. n \in Nat /\ n = q + 1
  BY <1>0, <1>2 DEF q
<1>c. sent \in SUBSET ({"syn", "data", "fin"} \X Nat \X Nat) /\ sent = st[e].sent \cup {<<type, q, chunk>>}
  BY <1>0, <1>a DEF StreamType, q
<1>d. s = IF type = "data" THEN [r EXCEPT !.wrote = chunk] ELSE [r EXCEPT !.closing = TRUE]
  BY <1>0
<1> HIDE DEF n, sent, s
<1>e. r \in StreamType /\ r.seq = n /\ r.sent = sent /\ r.wrote = st[e].wrote /\ r.closing = st[e].closing
      /\ r.ack = st[e].ack /\ r.early = st[e].early /\ r.got = st[e].got /\ r.fin = st[e].fin
      /\ r.here = st[e].here /\ r.up = st[e].up
  BY <1>0, <1>b, <1>c DEF StreamType
<1> HIDE DEF r
<1>f. /\ s \in StreamType /\ s.seq = n /\ s.sent = sent
      /\ s.wrote = IF type = "data" THEN chunk ELSE r.wrote
      /\ s.closing = IF type = "data" THEN r.closing ELSE TRUE
      /\ s.ack = r.ack /\ s.early = r.early /\ s.got = r.got /\ s.fin = r.fin
      /\ s.here = r.here /\ s.up = r.up
  <2>1. CASE type = "data"
    BY <1>d, <1>e, <2>1 DEF StreamType
  <2>2. CASE type = "fin"
    BY <1>d, <1>e, <2>2 DEF StreamType
  <2> QED
    BY <2>1, <2>2, <1>a
<1>g. st[e].closing = FALSE
  BY <1>0 DEF StreamType
<1>3. /\ s.seq = q + 1 /\ s.sent = st[e].sent \cup {<<type, q, chunk>>}
      /\ s.wrote = IF type = "data" THEN st[e].wrote + 1 ELSE st[e].wrote
      /\ s.closing = (type = "fin")
      /\ s.ack = st[e].ack /\ s.early = st[e].early /\ s.got = st[e].got /\ s.fin = st[e].fin
      /\ s.here = st[e].here /\ s.up = st[e].up /\ s \in StreamType
  BY <1>a, <1>b, <1>c, <1>e, <1>f, <1>g
<1>4. st' \in [Sides -> StreamType] /\ \A d \in Sides : d # e => st'[d] = st[d]
  BY <1>0, <1>3 DEF s
<1>5. \A ty, sq, ch : PacketOf(e, st[e], ty, sq, ch) => PacketOf(e, s, ty, sq, ch)
  BY <1>0, <1>3 DEF PacketOf, OfStream
<1>6. PacketOf(e, s, type, q, chunk)
  <2>1. CASE type = "data" /\ chunk = st[e].wrote + 1
    <3>1. s.wrote = chunk /\ chunk \in 1..chunk /\ q = k - 1 + chunk /\ chunk # 0
      BY <1>0, <1>1, <1>3, <2>1
    <3> QED
      BY <1>0, <2>1, <3>1 DEF PacketOf, OfStream, k
  <2>2. CASE type = "fin" /\ chunk = 0
    <3>1. s.wrote = st[e].wrote /\ s.closing /\ q = k + s.wrote
      BY <1>0, <1>1, <1>3, <2>2
    <3> QED
      BY <1>0, <2>2, <3>1 DEF PacketOf, OfStream, k
  <2> QED
    BY <2>1, <2>2
<1>7. Numbered'
  <2>1. s.wrote <= Chunks[e] /\ s.seq = k + s.wrote + Ended(s)
    <3>1. CASE type = "data" /\ chunk <= Chunks[e]
      <4>1. Ended(s) = 0 /\ s.wrote = st[e].wrote + 1 /\ s.wrote = chunk
        BY <1>3, <1>f, <3>1 DEF Ended
      <4> QED
        BY <1>0, <1>1, <1>3, <3>1, <4>1
    <3>2. CASE type = "fin"
      <4>1. Ended(s) = 1 /\ s.wrote = st[e].wrote
        BY <1>3, <3>2 DEF Ended
      <4> QED
        BY <1>0, <1>1, <1>3, <4>1
    <3> QED
      BY <3>1, <3>2
  <2>2. \A d \in Sides : st'[d].wrote <= Chunks[d]
    BY <1>4, <2>1 DEF NattInv, Numbered, s
  <2>3. CASE e = "req"
    BY <1>4, <2>1, <2>2, <2>3, SidesAre DEF NattInv, Numbered, s, k
  <2>4. CASE e = "src"
    BY <1>4, <2>1, <2>2, <2>4, SidesAre DEF NattInv, Numbered, s, k
  <2> QED
    BY <2>3, <2>4, SidesAre
<1>8. Accepted'
  <2>1. CASE e = "req"
    BY <1>4, <2>1, SidesAre DEF NattInv, Accepted
  <2>2. CASE e = "src"
    BY <1>3, <2>2 DEF NattInv, Accepted, s
  <2> QED
    BY <2>1, <2>2, SidesAre
<1>9. ASSUME NEW d \in Sides, d = "src" => st'["src"].here
      PROVE  Hears(d)'
  <2>0. Hears(d)
    BY <1>3, <1>4, <1>9, SidesAre DEF NattInv, s
  <2>1. CASE d = e
    <3>1. Far(d) # e /\ Far(d) \in Sides
      BY <2>1, SidesAre
    <3>2. st'[Far(d)] = st[Far(d)]
      BY <1>4, <3>1
    <3>3. st'[e].ack = st[e].ack /\ st'[e].early = st[e].early /\ st'[e].got = st[e].got
          /\ st'[e].fin = st[e].fin
      BY <1>3 DEF s
    <3>4. \A j, w, over : Heard(st[e], j, w, over) => Heard(st'[e], j, w, over)
      BY <3>3 DEF Heard
    <3> QED
      BY <2>0, <2>1, <3>2, <3>4 DEF Hears
  <2>2. CASE d # e
    <3>1. Far(d) = e /\ st'[d] = st[d] /\ st[d] \in StreamType
      BY <1>0, <1>4, <2>2, SidesAre
    <3>2. Heard(st[d], k, st[e].wrote, FALSE)
      BY <2>0, <3>1, st[e].closing = FALSE, <1>0 DEF Hears, k, StreamType
    <3>3. Heard(st[d], k, st[e].wrote + 1, FALSE) /\ Heard(st[d], k, st[e].wrote, TRUE)
      BY <1>0, <3>1, <3>2, MoreIsWritten
    <3>4. Heard(st[d], k, s.wrote, s.closing)
      BY <1>3, <3>3
    <3> QED
      BY <3>1, <3>4 DEF Hears, k, s
  <2> QED
    BY <2>1, <2>2
<1>10. Carried'
  <2> SUFFICES ASSUME NEW p \in air', p[1] \in Sides, p[2] \in {"data", "fin"}
               PROVE  PacketOf(Far(p[1]), st'[Far(p[1])], p[2], p[3], p[5])
    BY DEF Carried
  <2>1. CASE p \in air
    <3>1. PacketOf(Far(p[1]), st[Far(p[1])], p[2], p[3], p[5])
      BY <2>1 DEF NattInv, Carried
    <3>2. Far(p[1]) \in Sides
      BY SidesAre
    <3> QED
      BY <1>4, <1>5, <3>1, <3>2 DEF s
  <2>2. CASE p = Packet(e, type, q, chunk)
    <3>1. p[1] = Far(e) /\ p[2] = type /\ p[3] = q /\ p[5] = chunk /\ Far(Far(e)) = e
      BY <2>2, SidesAre DEF Packet
    <3> QED
      BY <1>6, <3>1 DEF s
  <2> QED
    BY <2>1, <2>2 DEF Carries, q
<1>11. Resent'
  <2> SUFFICES ASSUME NEW d \in Sides, NEW x \in st'[d].sent
               PROVE  x = <<"syn", 1, 0>> \/ PacketOf(d, st'[d], x[1], x[2], x[3])
    BY DEF Resent
  <2>1. CASE d = e
    BY <1>3, <1>5, <1>6, <2>1 DEF NattInv, Resent, s
  <2>2. CASE d # e
    BY <1>4, <2>2 DEF NattInv, Resent
  <2> QED
    BY <2>1, <2>2
<1> QED
  BY <1>4, <1>7, <1>8, <1>9, <1>10, <1>11, SidesAre DEF NattInv

(* Hearing a packet: what is acknowledged is not sent again, and what      *)
(* arrives is put in its place.                                            *)
LEMMA HearOn ==
    ASSUME NattInv, NumbersSuffice, NEW e \in Sides, NEW p \in air, OnWirePacket(e, p)
    PROVE  NattInv'
<1> DEFINE up == st[e].up \/ p[2] = "state"
           sent == Unacked(st[e], p[4])
           s == [st[e] EXCEPT !.sent = sent, !.up = up]
           d == Far(e)
           k == FirstSeq(d)
           w == st[d].wrote
           closed == st[d].closing
           t == IF p[2] = "state" THEN s ELSE Received(s, p[2], p[3], p[5])
           answer == {<<Far(e), "state", t.seq, t.ack, 0>>}
<1>0. st[e] \in StreamType /\ st \in [Sides -> StreamType]
  BY DEF NattInv
<1>1. /\ d \in Sides /\ d # e /\ Far(d) = e /\ k \in {1, 2} /\ st[d] \in StreamType
      /\ w \in Nat /\ closed \in BOOLEAN
      /\ Modulus \in Nat /\ k + w <= Modulus
  <2>1. d \in Sides /\ d # e /\ Far(d) = e /\ k \in {1, 2} /\ st[d] \in StreamType
    BY <1>0, SidesAre
  <2>2. w \in Nat /\ closed \in BOOLEAN /\ w <= Chunks[d]
    BY <2>1 DEF StreamType, NattInv, Numbered
  <2>3. Modulus \in Nat /\ Chunks[d] \in Nat /\ Chunks[d] + 3 < Modulus
    BY <2>1, NattAssumption DEF NumbersSuffice
  <2> HIDE DEF d, k, w
  <2> QED
    BY <2>1, <2>2, <2>3
<1>2. /\ p[1] = e /\ p[2] \in {"state", "data", "fin"} /\ st[e].here /\ UNCHANGED <<phase, requests, pending>>
      /\ st' = [st EXCEPT ![e] = t]
      /\ air' \subseteq air \cup (IF p[2] = "state" THEN {} ELSE answer)
  BY DEF OnWirePacket, Carries
<1>3. sent \subseteq st[e].sent /\ up \in BOOLEAN
  BY <1>0 DEF Unacked, StreamType
<1> HIDE DEF sent, up
<1>4. /\ s \in StreamType /\ s.here = st[e].here /\ s.up = up /\ s.open = st[e].open
      /\ s.seq = st[e].seq /\ s.ack = st[e].ack /\ s.early = st[e].early /\ s.got = st[e].got
      /\ s.fin = st[e].fin /\ s.wrote = st[e].wrote /\ s.closing = st[e].closing /\ s.sent = sent
  <2>1. sent \in SUBSET ({"syn", "data", "fin"} \X Nat \X Nat)
    BY <1>0, <1>3 DEF StreamType
  <2> QED
    BY <1>0, <1>3, <2>1 DEF StreamType
<1> HIDE DEF s
<1>5. Hears(e)
  BY <1>2, SidesAre DEF NattInv
<1>6. Heard(s, k, w, closed)
  BY <1>4, <1>5 DEF Hears, Heard
<1>7. p[2] # "state" => PacketOf(d, st[d], p[2], p[3], p[5])
  BY <1>2 DEF NattInv, Carried
<1>8. /\ t \in StreamType /\ Heard(t, k, w, closed) /\ t.here = st[e].here /\ t.seq = st[e].seq
      /\ t.wrote = st[e].wrote /\ t.closing = st[e].closing /\ t.sent = sent
  <2>1. CASE p[2] = "state"
    <3>1. t = s
      BY <2>1
    <3> HIDE DEF t
    <3> QED
      BY <1>4, <1>6, <3>1
  <2>2. CASE p[2] # "state"
    <3> DEFINE type == p[2]
               seq == p[3]
               chunk == p[5]
    <3>1. seq \in Nat /\ chunk \in Nat /\ OfStream(k, w, closed, seq, chunk) /\ (type = "fin" <=> chunk = 0)
      BY <1>7, <2>2 DEF PacketOf
    <3>2. t = Received(s, type, seq, chunk)
      BY <2>2
    <3> HIDE DEF t, type, seq, chunk, d, k, w, closed
    <3>3. LET u == Received(s, type, seq, chunk)
          IN  /\ u \in StreamType /\ Heard(u, k, w, closed)
              /\ u.here = s.here /\ u.seq = s.seq
              /\ u.sent = s.sent /\ u.wrote = s.wrote /\ u.closing = s.closing
      BY <1>1, <1>4, <1>6, <3>1, ReceivedIs
    <3> QED
      BY <1>4, <3>2, <3>3
  <2> QED
    BY <2>1, <2>2
<1> HIDE DEF t
<1>9. st' \in [Sides -> StreamType] /\ st'[e] = t /\ st'[d] = st[d]
  BY <1>0, <1>1, <1>2, <1>8
<1>10. \A x \in Sides : x = e \/ x = d
  BY SidesAre
<1> HIDE DEF d, k, w, closed
<1>11. \A x \in Sides : st'[x].wrote = st[x].wrote /\ st'[x].closing = st[x].closing /\ st'[x].seq = st[x].seq
                        /\ st'[x].here = st[x].here /\ st'[x].sent \subseteq st[x].sent
  BY <1>3, <1>8, <1>9, <1>10
<1>12. Numbered'
  BY <1>2, <1>11, SidesAre DEF NattInv, Numbered, Ended
<1>13. Accepted'
  <2>1. CASE e = "src"
    BY <1>2, <1>11, <2>1, SidesAre DEF NattInv, Accepted
  <2>2. CASE d = "src"
    BY <1>2, <1>9, <2>2 DEF NattInv, Accepted
  <2> QED
    BY <1>10, <2>1, <2>2, SidesAre
<1>14. Hears(e)'
  BY <1>1, <1>8, <1>9 DEF Hears, d, k, w, closed
<1>15. ASSUME Hears(d)
       PROVE  Hears(d)'
  BY <1>1, <1>9, <1>11, <1>15 DEF Hears
<1>16. Hears("req")' /\ (st["src"].here => Hears("src"))'
  <2>1. CASE e = "src"
    <3>1. d = "req"
      BY <2>1, SidesAre DEF d
    <3> QED
      BY <1>14, <1>15, <2>1, <3>1 DEF NattInv
  <2>2. CASE e = "req"
    <3>1. d = "src"
      BY <2>2, SidesAre DEF d
    <3> QED
      BY <1>9, <1>14, <1>15, <2>2, <3>1 DEF NattInv
  <2> QED
    BY <2>1, <2>2, SidesAre
<1>17. \A x \in Sides : \A type, seq, chunk : PacketOf(x, st[x], type, seq, chunk) => PacketOf(x, st'[x], type, seq, chunk)
  BY <1>11 DEF PacketOf
<1>18. Carried'
  <2> SUFFICES ASSUME NEW q \in air', q[1] \in Sides, q[2] \in {"data", "fin"}
               PROVE  PacketOf(Far(q[1]), st'[Far(q[1])], q[2], q[3], q[5])
    BY DEF Carried
  <2>1. q \in air
    BY <1>2
  <2>2. PacketOf(Far(q[1]), st[Far(q[1])], q[2], q[3], q[5])
    BY <2>1 DEF NattInv, Carried
  <2> QED
    BY <1>17, <2>2, SidesAre
<1>19. Resent'
  BY <1>11, <1>17 DEF NattInv, Resent
<1> QED
  BY <1>9, <1>12, <1>13, <1>16, <1>18, <1>19 DEF NattInv

(* The downloader starts to write after its SYN.                           *)
LEMMA ConnectedOn == NattInv /\ NumbersSuffice /\ Connected => NattInv'
<1> SUFFICES ASSUME NattInv, NumbersSuffice, Connected
             PROVE  NattInv'
  OBVIOUS
<1> DEFINE n == (st["req"].seq + 1) % Modulus
<1>0. st \in [Sides -> StreamType] /\ st["req"] \in StreamType
  BY SidesAre DEF NattInv
<1>1. st["req"].seq = 1 /\ st["req"].wrote = 0 /\ ~st["req"].closing /\ phase' = "connected"
  BY DEF NattInv, Numbered, Connected
<1>2. n = 2
  <2>1. Modulus \in Nat /\ Modulus > 3
    <3>1. Chunks["req"] \in Nat /\ Chunks["req"] + 3 < Modulus /\ Modulus \in Nat
      BY NattAssumption, SidesAre DEF NumbersSuffice
    <3> QED
      BY <3>1
  <2>2. 2 % Modulus = 2
    BY <2>1
  <2> QED
    BY <1>1, <2>2
<1>3. st' = [st EXCEPT !["req"] = [st["req"] EXCEPT !.seq = n]] /\ air' = air /\ pending' = pending
  BY <1>0 DEF Connected
<1> HIDE DEF n
<1> DEFINE r == [st["req"] EXCEPT !.seq = n]
<1>4. /\ r \in StreamType /\ r.seq = 2 /\ r.wrote = 0 /\ ~r.closing /\ Knows(r) = Knows(st["req"])
      /\ r.sent = st["req"].sent
  BY <1>0, <1>1, <1>2 DEF StreamType, Knows
<1> HIDE DEF r
<1>5. st' \in [Sides -> StreamType] /\ st'["req"] = r /\ st'["src"] = st["src"]
  BY <1>0, <1>3, <1>4, SidesAre DEF r
<1>6. \A e \in Sides : /\ st'[e].ack = st[e].ack /\ st'[e].early = st[e].early /\ st'[e].got = st[e].got
                       /\ st'[e].fin = st[e].fin /\ st'[e].wrote = st[e].wrote
                       /\ st'[e].closing = st[e].closing /\ st'[e].sent = st[e].sent
  BY <1>4, <1>5, SidesAre DEF Knows
<1>7. Numbered'
  <2>1. Ended(r) = 0
    BY <1>4 DEF Ended
  <2>2. \A e \in Sides : st'[e].wrote <= Chunks[e]
    BY <1>6 DEF NattInv, Numbered
  <2> QED
    BY <1>1, <1>4, <1>5, <2>1, <2>2 DEF NattInv, Numbered
<1>8. Accepted'
  BY <1>3, <1>5 DEF NattInv, Accepted
<1>9. Hears("req")' /\ (st["src"].here => Hears("src"))'
  BY <1>5, <1>6, SidesAre DEF NattInv, Hears, Heard
<1>10. Carried' /\ Resent'
  <2>1. \A e \in Sides : \A type, seq, chunk : PacketOf(e, st[e], type, seq, chunk) => PacketOf(e, st'[e], type, seq, chunk)
    BY <1>6 DEF PacketOf
  <2> QED
    BY <1>3, <1>6, <2>1, SidesAre DEF NattInv, Carried, Resent
<1> QED
  BY <1>5, <1>7, <1>8, <1>9, <1>10 DEF NattInv

(* The source starts to hear after the SYN.                                *)
LEMMA AcceptOn == NattInv /\ Accept => NattInv'
<1> SUFFICES ASSUME NattInv, Accept
             PROVE  NattInv'
  OBVIOUS
<1> DEFINE r == [st["src"] EXCEPT !.here = TRUE, !.ack = 1, !.up = TRUE]
<1>0. st \in [Sides -> StreamType] /\ st["src"] \in StreamType /\ st["req"] \in StreamType
  BY SidesAre DEF NattInv
<1>1. /\ ~st["src"].here /\ st["src"].got = <<>> /\ st["src"].early = {} /\ ~st["src"].fin
      /\ st["src"].wrote = 0 /\ ~st["src"].closing
  BY DEF NattInv, Accepted, Accept
<1>2. /\ st' = [st EXCEPT !["src"] = r] /\ ~pending' /\ phase' = phase
      /\ air' \subseteq air \cup {<<"req", "state", st["src"].seq, 1, 0>>}
  BY <1>0 DEF Accept, Carries
<1>3. /\ r \in StreamType /\ r.seq = st["src"].seq /\ r.wrote = 0 /\ r.closing = st["src"].closing /\ r.here
      /\ r.sent = st["src"].sent /\ r.ack = 1 /\ r.got = <<>> /\ r.early = {} /\ ~r.fin
  BY <1>0, <1>1 DEF StreamType
<1> HIDE DEF r
<1>5. st' \in [Sides -> StreamType] /\ st'["src"] = r /\ st'["req"] = st["req"]
  BY <1>0, <1>2, <1>3, SidesAre
<1>6. \A e \in Sides : /\ st'[e].wrote = st[e].wrote /\ st'[e].closing = st[e].closing
                       /\ st'[e].sent = st[e].sent /\ st'[e].seq = st[e].seq
  BY <1>1, <1>3, <1>5, SidesAre
<1>7. Numbered'
  BY <1>2, <1>6, SidesAre DEF NattInv, Numbered, Ended
<1>8. Accepted'
  BY <1>2, <1>3, <1>5 DEF Accepted
<1>9. Hears("req")'
  BY <1>5, <1>6, SidesAre DEF NattInv, Hears
<1>10. Hears("src")'
  <2> DEFINE w == st["req"].wrote
  <2>1. w \in Nat
    BY <1>0 DEF StreamType
  <2> HIDE DEF w
  <2>2. UpTo(Smaller(1 - 2 + 1, w)) = <<>>
    <3>1. Smaller(1 - 2 + 1, w) = 0
      BY <2>1 DEF Smaller
    <3>2. UpTo(0) \in Seq(Nat) /\ Len(UpTo(0)) = 0
      BY UpToIs, 0 \in Nat
    <3> QED
      BY <3>1, <3>2, EmptySeq
  <2>3. 2 - 1 <= 1 /\ 1 <= 2 + w /\ 1 # 2 + w
    BY <2>1
  <2>4. Heard(r, 2, w, st["req"].closing)
    BY <1>3, <2>2, <2>3 DEF Heard
  <2> QED
    BY <1>5, <2>4, SidesAre DEF Hears, w
<1>11. Carried' /\ Resent'
  <2>1. \A e \in Sides : \A type, seq, chunk : PacketOf(e, st[e], type, seq, chunk) => PacketOf(e, st'[e], type, seq, chunk)
    BY <1>6 DEF PacketOf
  <2>2. ASSUME NEW q \in air', q[1] \in Sides, q[2] \in {"data", "fin"}
        PROVE  PacketOf(Far(q[1]), st'[Far(q[1])], q[2], q[3], q[5])
    <3>1. q \in air
      BY <1>2, <2>2
    <3> QED
      BY <2>1, <2>2, <3>1, SidesAre DEF NattInv, Carried
  <2> QED
    BY <1>6, <2>1, <2>2 DEF NattInv, Carried, Resent
<1> QED
  BY <1>5, <1>7, <1>8, <1>9, <1>10, <1>11 DEF NattInv

(* Only the network and the rendezvous change.                             *)
LEMMA SentOn ==
    ASSUME NattInv, NEW sent, air' \subseteq air \cup sent, st' = st,
           \A p \in sent : \/ p[2] \notin {"data", "fin"}
                           \/ \E e \in Sides : \E x \in st[e].sent : p = Packet(e, x[1], x[2], x[3]),
           phase' = "connected" <=> phase = "connected", pending' => pending \/ ~st["src"].here
    PROVE  NattInv'
<1>1. st' \in [Sides -> StreamType] /\ \A e \in Sides : st'[e].sent \subseteq st[e].sent \cup {<<"syn", 1, 0>>}
  BY DEF NattInv
<1>2. \A e \in Sides : Knows(st'[e]) = Knows(st[e]) /\ st'[e].seq = st[e].seq
  OBVIOUS
<1>3. st'["src"].here = st["src"].here /\ (st["src"].here \/ st'["src"].up = st["src"].up)
  OBVIOUS
<1> QED
  BY <1>1, <1>2, <1>3, QuietOn

(* A stream is opened for sending, or is over.                             *)
LEMMA TurnsOn ==
    ASSUME NattInv, NEW e \in Sides, NEW s \in StreamType, st' = [st EXCEPT ![e] = s],
           Knows(s) = Knows(st[e]), s.seq = st[e].seq, s.up = st[e].up, s.sent \subseteq st[e].sent \cup {<<"syn", 1, 0>>},
           e = "src" => s.here = st[e].here,
           air' \subseteq air \cup {Packet("req", "syn", 1, 0)},
           phase' = "connected" <=> phase = "connected", pending' = pending
    PROVE  NattInv'
<1>0. st \in [Sides -> StreamType]
  BY DEF NattInv
<1>1. st' \in [Sides -> StreamType] /\ st'[e] = s /\ \A d \in Sides : d # e => st'[d] = st[d]
  BY <1>0
<1>2. \A d \in Sides : /\ Knows(st'[d]) = Knows(st[d]) /\ st'[d].seq = st[d].seq /\ st'[d].up = st[d].up
                       /\ st'[d].sent \subseteq st[d].sent \cup {<<"syn", 1, 0>>}
                       /\ d = "src" => st'[d].here = st[d].here
  <2> SUFFICES ASSUME NEW d \in Sides
               PROVE  /\ Knows(st'[d]) = Knows(st[d]) /\ st'[d].seq = st[d].seq /\ st'[d].up = st[d].up
                      /\ st'[d].sent \subseteq st[d].sent \cup {<<"syn", 1, 0>>}
                      /\ d = "src" => st'[d].here = st[d].here
    OBVIOUS
  <2>1. CASE d = e
    BY <1>1, <2>1
  <2>2. CASE d # e
    BY <1>1, <2>2
  <2> QED
    BY <2>1, <2>2
<1> DEFINE sent == {Packet("req", "syn", 1, 0)}
<1>3. \A p \in sent : p[2] \notin {"data", "fin"}
  BY DEF Packet
<1> HIDE DEF sent
<1>4. air' \subseteq air \cup sent
  BY DEF sent
<1>5. st'["src"].here = st["src"].here /\ (st["src"].here \/ st'["src"].up = st["src"].up)
  BY <1>2, SidesAre
<1> QED
  BY <1>1, <1>2, <1>3, <1>4, <1>5, QuietOn

(* A stream fails, is closed, or its attempt is over.                      *)
LEMMA ClosedOn ==
    ASSUME NattInv, NEW e \in Sides, st' = [st EXCEPT ![e].open = FALSE], air' = air,
           phase' = "connected" <=> phase = "connected", pending' = pending
    PROVE  NattInv'
<1> DEFINE s == [st[e] EXCEPT !.open = FALSE]
<1>0. st \in [Sides -> StreamType] /\ st[e] \in StreamType
  BY DEF NattInv
<1>1. s \in StreamType /\ Knows(s) = Knows(st[e]) /\ s.seq = st[e].seq /\ s.up = st[e].up /\ s.sent = st[e].sent
      /\ s.here = st[e].here
  BY <1>0 DEF StreamType, Knows
<1>2. st' = [st EXCEPT ![e] = s]
  BY <1>0
<1> HIDE DEF s
<1> QED
  BY <1>1, <1>2, TurnsOn

(* The rendezvous carries no data; it starts the stream of the downloader. *)
LEMMA RendezvousOn == NattInv /\ NumbersSuffice /\ Rendezvous => NattInv'
<1> SUFFICES ASSUME NattInv, NumbersSuffice, Rendezvous
             PROVE  NattInv'
  OBVIOUS
<1> DEFINE Plain(sent) == \A p \in sent : p[2] \notin {"data", "fin"}
<1>0. ASSUME NEW sent, Plain(sent), Carries(sent), UNCHANGED <<pending, st>>,
             phase' = "connected" <=> phase = "connected"
      PROVE  NattInv'
  <2>1. air' \subseteq air \cup sent
    BY <1>0 DEF Carries
  <2> QED
    BY <1>0, <2>1, SentOn
<1>1. CASE Request
  <2>1. PICK way \in {"hint", "known", "direct"} :
          /\ phase' = IF way = "direct" THEN "hinted" ELSE "hint"
          /\ Carries({<<"buddy", "reask">>} \cup IF way = "hint" THEN {} ELSE {<<"src", "punch">>})
    BY <1>1 DEF Request
  <2> DEFINE sent == {<<"buddy", "reask">>} \cup IF way = "hint" THEN {} ELSE {<<"src", "punch">>}
  <2>2. Plain(sent)
    OBVIOUS
  <2>3. phase = "idle" /\ phase' # "connected" /\ UNCHANGED <<pending, st>>
    BY <1>1, <2>1 DEF Request
  <2> HIDE DEF Plain
  <2> QED
    BY <1>0, <2>1, <2>2, <2>3
<1>2. CASE BuddyRelays
  <2>1. Plain({<<"req", "hint">>, <<"req", "punch">>})
    OBVIOUS
  <2> HIDE DEF Plain
  <2> QED
    BY <1>0, <1>2, <2>1 DEF BuddyRelays
<1>3. CASE OnEndpointHint
  <2>1. phase = "hint" /\ phase' = "hinted" /\ UNCHANGED <<air, pending, st>>
    BY <1>3 DEF OnEndpointHint
  <2> DEFINE none == {}
  <2>2. air' \subseteq air \cup none /\ \A p \in none : p[2] \notin {"data", "fin"}
    BY <2>1
  <2>3. phase' = "connected" <=> phase = "connected"
    BY <2>1
  <2> HIDE DEF none
  <2> QED
    BY <2>1, <2>2, <2>3, SentOn
<1>4. CASE AskAgain
  <2>1. Plain({<<"buddy", "reask">>})
    OBVIOUS
  <2> HIDE DEF Plain
  <2> QED
    BY <1>0, <1>4, <2>1 DEF AskAgain
<1>5. CASE Punch
  <2>1. Plain({<<"src", "punch">>, <<"src", "caps">>})
    OBVIOUS
  <2> HIDE DEF Plain
  <2> QED
    BY <1>0, <1>5, <2>1 DEF Punch
<1>6. CASE OnHolepunch
  <2>1. Plain({<<"req", "caps">>})
    OBVIOUS
  <2> HIDE DEF Plain
  <2> QED
    BY <1>0, <1>6, <2>1 DEF OnHolepunch
<1>7. CASE Connect
  <2> DEFINE s == [st["req"] EXCEPT !.here = TRUE, !.sent = {<<"syn", 1, 0>>}]
  <2>0. st \in [Sides -> StreamType] /\ st["req"] \in StreamType /\ "req" \in Sides
    BY SidesAre DEF NattInv
  <2>1. /\ phase = "offered" /\ phase' = "connecting" /\ pending' = pending
        /\ air' \subseteq {Packet("req", "syn", 1, 0)}
        /\ st' = [st EXCEPT !["req"] = s]
    BY <1>7, <2>0 DEF Connect
  <2>2. s \in StreamType /\ Knows(s) = Knows(st["req"]) /\ s.seq = st["req"].seq /\ s.up = st["req"].up
        /\ s.sent = {<<"syn", 1, 0>>}
    <3>1. {<<"syn", 1, 0>>} \in SUBSET ({"syn", "data", "fin"} \X Nat \X Nat)
      OBVIOUS
    <3> DEFINE sent == {<<"syn", 1, 0>>}
    <3> HIDE DEF sent
    <3> QED
      BY <2>0, <3>1 DEF StreamType, Knows, sent
  <2> HIDE DEF s
  <2>3. air' \subseteq air \cup {Packet("req", "syn", 1, 0)} /\ (phase' = "connected" <=> phase = "connected")
    BY <2>1
  <2>4. "req" # "src" /\ s.sent \subseteq st["req"].sent \cup {<<"syn", 1, 0>>}
    BY <2>2
  <2> QED
    BY <2>0, <2>1, <2>2, <2>3, <2>4, TurnsOn
<1>8. CASE NoUtp
  BY <1>8, ClosedOn, SidesAre DEF NoUtp
<1>9. CASE Connected
  BY <1>9, ConnectedOn
<1>10. CASE TimesOut
  <2>1. phase \in {"hint", "caps", "connecting"} /\ phase' = "failed"
    BY <1>10 DEF TimesOut
  <2> QED
    BY <1>10, <2>1, ClosedOn, SidesAre DEF TimesOut
<1>11. CASE \E e \in Sides, kind \in {"caps", "capsack"} : OnCaps(e, kind)
  <2>1. PICK e \in Sides, kind \in {"caps", "capsack"} : OnCaps(e, kind)
    BY <1>11
  <2> DEFINE sent == IF kind = "caps" THEN {<<Far(e), "capsack">>} ELSE {}
  <2>2. Plain(sent) /\ Carries(sent) /\ UNCHANGED <<pending, st>>
    BY <2>1 DEF OnCaps
  <2>3. phase' = "connected" <=> phase = "connected"
    BY <2>1 DEF OnCaps
  <2> HIDE DEF sent, Plain
  <2> QED
    BY <1>0, <2>2, <2>3
<1> QED
  BY <1>1, <1>2, <1>3, <1>4, <1>5, <1>6, <1>7, <1>8, <1>9, <1>10, <1>11 DEF Rendezvous

(* What the ends do once they have streams.                                *)
LEMMA StreamOn == ASSUME NattInv, NumbersSuffice, NEW e \in Sides, Stream(e) PROVE NattInv'
<1>1. CASE Deliver(e)
  BY <1>1, HearOn DEF Deliver
<1>a. ASSUME Write(e) \/ BeginClose(e), e = "src"
      PROVE  st[e].here
  BY <1>a DEF Write, BeginClose, NattInv, Accepted
<1>0. st \in [Sides -> StreamType] /\ st[e] \in StreamType
  BY DEF NattInv
<1> DEFINE s == [st[e] EXCEPT !.seq = (@ + 1) % Modulus]
<1>2. CASE Write(e)
  <2> DEFINE n == st[e].wrote + 1
             t == [st[e] EXCEPT !.seq = (@ + 1) % Modulus, !.sent = @ \cup {<<"data", st[e].seq, n>>}]
  <2>1. /\ st' = [st EXCEPT ![e].wrote = n, ![e].seq = (@ + 1) % Modulus,
                            ![e].sent = @ \cup {<<"data", st[e].seq, n>>}]
        /\ Carries({Packet(e, "data", st[e].seq, n)}) /\ UNCHANGED <<phase, pending>>
        /\ ~st[e].closing /\ st[e].wrote < Chunks[e] /\ (e = "req" => phase = "connected")
    BY <1>2 DEF Write
  <2>2. st' = [st EXCEPT ![e] = [t EXCEPT !.wrote = n]]
    BY <1>0, <2>1 DEF StreamType
  <2>3. n \in Nat /\ n <= Chunks[e]
    <3>1. st[e].wrote \in Nat /\ Chunks[e] \in Nat
      BY <1>0, NattAssumption DEF StreamType
    <3> QED
      BY <2>1, <3>1
  <2>4. LET r == [st[e] EXCEPT !.seq = (@ + 1) % Modulus, !.sent = @ \cup {<<"data", st[e].seq, n>>}]
        IN  st' = [st EXCEPT ![e] = IF "data" = "data" THEN [r EXCEPT !.wrote = n] ELSE [r EXCEPT !.closing = TRUE]]
    BY <2>2
  <2>5. n = st[e].wrote + 1 /\ (e = "src" => st[e].here)
    BY <1>2, <1>a
  <2> HIDE DEF n
  <2> QED
    BY <2>1, <2>3, <2>4, <2>5, MoreOn
<1>3. CASE BeginClose(e)
  <2> DEFINE t == [st[e] EXCEPT !.seq = (@ + 1) % Modulus, !.sent = @ \cup {<<"fin", st[e].seq, 0>>}]
  <2>1. /\ st' = [st EXCEPT ![e].closing = TRUE, ![e].seq = (@ + 1) % Modulus,
                            ![e].sent = @ \cup {<<"fin", st[e].seq, 0>>}]
        /\ Carries({Packet(e, "fin", st[e].seq, 0)}) /\ UNCHANGED <<phase, pending>>
        /\ ~st[e].closing /\ (e = "req" => phase = "connected")
    BY <1>3 DEF BeginClose
  <2>2. st' = [st EXCEPT ![e] = [t EXCEPT !.closing = TRUE]]
    BY <1>0, <2>1 DEF StreamType
  <2>4. LET r == [st[e] EXCEPT !.seq = (@ + 1) % Modulus, !.sent = @ \cup {<<"fin", st[e].seq, 0>>}]
        IN  st' = [st EXCEPT ![e] = IF "fin" = "data" THEN [r EXCEPT !.wrote = 0] ELSE [r EXCEPT !.closing = TRUE]]
    BY <2>2
  <2>5. e = "src" => st[e].here
    BY <1>3, <1>a
  <2> QED
    BY <2>1, <2>4, <2>5, MoreOn
<1>4. CASE EndClose(e)
  BY <1>4, ClosedOn DEF EndClose
<1>5. CASE Retransmit(e)
  <2> DEFINE sent == {Packet(e, x[1], x[2], x[3]) : x \in st[e].sent}
  <2>1. air' \subseteq air \cup sent /\ UNCHANGED <<phase, pending, st>>
    BY <1>5 DEF Retransmit, Carries
  <2>2. \A p \in sent : \E x \in st[e].sent : p = Packet(e, x[1], x[2], x[3])
    OBVIOUS
  <2> HIDE DEF sent
  <2> QED
    BY <2>1, <2>2, SentOn
<1>6. CASE GiveUp(e)
  BY <1>6, ClosedOn DEF GiveUp
<1> QED
  BY <1>1, <1>2, <1>3, <1>4, <1>5, <1>6 DEF Stream

(* Every step keeps what the ends know of each other.                      *)
LEMMA NattStep == NattInv /\ NumbersSuffice /\ [NattNext]_nattVars => NattInv'
<1> SUFFICES ASSUME NattInv, NumbersSuffice, [NattNext]_nattVars
             PROVE  NattInv'
  OBVIOUS
<1>0. ASSUME air' = air, st' = st, phase' = phase, pending' => pending \/ ~st["src"].here
      PROVE  NattInv'
  <2> DEFINE none == {}
  <2>1. air' \subseteq air \cup none /\ \A p \in none : p[2] \notin {"data", "fin"}
    BY <1>0
  <2> HIDE DEF none
  <2> QED
    BY <1>0, <2>1, SentOn
<1>1. CASE Rendezvous
  BY <1>1, RendezvousOn
<1>2. CASE OnSyn
  BY <1>0, <1>2 DEF OnSyn
<1>3. CASE Accept
  BY <1>3, AcceptOn
<1>4. CASE \E e \in Sides : Stream(e)
  BY <1>4, StreamOn
<1>5. CASE Done \/ UNCHANGED nattVars
  BY <1>0, <1>5 DEF Done, nattVars
<1> QED
  BY <1>1, <1>2, <1>3, <1>4, <1>5 DEF NattNext

(* What an end holds is a beginning of what the other wrote.               *)
LEMMA ReadSoFar == NattInv => ReadIsWritten
<1> SUFFICES ASSUME NattInv, NEW e \in Sides
             PROVE  /\ IsPrefix(st[e].got, [n \in 1..st[Far(e)].wrote |-> n])
                    /\ st[e].fin => Len(st[e].got) = st[Far(e)].wrote
  BY DEF ReadIsWritten
<1> DEFINE w == st[Far(e)].wrote
           got == st[e].got
<1>0. w \in Nat /\ st[e] \in StreamType
  BY SidesAre DEF NattInv, StreamType
<1>1. \E m \in 0..w : got = UpTo(m) /\ (st[e].fin => m = w)
  <2>1. CASE Hears(e)
    <3> DEFINE k == FirstSeq(Far(e))
               m == Smaller(st[e].ack - k + 1, w)
    <3>1. k \in {1, 2} /\ st[e].ack \in Nat /\ k - 1 <= st[e].ack /\ got = UpTo(m) /\ (st[e].fin => st[e].ack = k + w)
      BY <1>0, <2>1, SidesAre DEF Hears, Heard, StreamType
    <3> HIDE DEF k, w, got
    <3>2. m \in 0..w /\ (st[e].ack = k + w => m = w)
      BY <1>0, <3>1 DEF Smaller
    <3> QED
      BY <3>1, <3>2
  <2>2. CASE ~Hears(e)
    <3>1. e = "src" /\ ~st["src"].here
      BY <2>2, SidesAre DEF NattInv
    <3>2. got = <<>> /\ ~st[e].fin
      BY <3>1 DEF NattInv, Accepted
    <3>3. UpTo(0) = <<>>
      <4>1. UpTo(0) \in Seq(Nat) /\ Len(UpTo(0)) = 0
        BY UpToIs, 0 \in Nat
      <4> QED
        BY <4>1, EmptySeq
    <3> QED
      BY <1>0, <3>2, <3>3
  <2> QED
    BY <2>1, <2>2
<1>2. PICK m \in 0..w : got = UpTo(m) /\ (st[e].fin => m = w)
  BY <1>1
<1> HIDE DEF w, got
<1>3. m \in Nat /\ m <= w /\ Len(got) = m /\ Len(UpTo(w)) = w /\ got \in Seq(Nat) /\ UpTo(w) \in Seq(Nat)
  <2>1. m \in Nat /\ m <= w
    BY <1>0
  <2>2. \A n \in Nat : UpTo(n) \in Seq(Nat) /\ Len(UpTo(n)) = n
    BY UpToIs
  <2> QED
    BY <1>0, <1>2, <2>1, <2>2
<1>4. SubSeq(got, 1, m) = SubSeq(UpTo(w), 1, m)
  BY <1>0, <1>2, <1>3 DEF UpTo
<1>5. IsPrefix(got, UpTo(w))
  BY <1>3, <1>4 DEF IsPrefix
<1>6. UpTo(w) = [n \in 1..w |-> n]
  BY DEF UpTo
<1> QED
  BY <1>2, <1>3, <1>5, <1>6 DEF w, got

(* The uTP stream hands on what was written, in order and without holes or *)
(* repetitions, and reports its end only behind the last chunk, whatever the *)
(* network loses, duplicates or reorders, for streams of any length that do *)
(* not use up the sequence numbers (utp.py:152-182).                       *)
THEOREM StreamIsFaithful == ASSUME NumbersSuffice PROVE NattSpec => []ReadIsWritten
<1>1. NattInv /\ [NattNext]_nattVars => NattInv'
  BY NattStep
<1> QED
  BY <1>1, NattStart, ReadSoFar, PTL DEF NattSpec
=============================================================================
