---------------------------- MODULE LayoutProofs ----------------------------
(***************************************************************************)
(* The chunk layout for every request: sorting by index keeps the chunks   *)
(* and depends on nothing but them, and the running sums of the code       *)
(* accept exactly the layouts that partition the artifact.                 *)
(***************************************************************************)
EXTENDS ChunkLayout, FiniteSetTheorems, TLAPS

Chunk == [index : Int, offset : Int, size : Int]

\* A nonempty set of naturals has a least element: every argument below that
\* looks at the first place where something goes wrong rests on it.
LEMMA LeastNatural ==
  ASSUME NEW T \in SUBSET Nat, T # {}
  PROVE  \E m \in T : \A n \in T : m <= n
<1> DEFINE Family == {0 .. t : t \in T}
           R == StrictSubsetOrdering(Nat)
<1>1. IsWellFoundedOn(R, FiniteSubsetsOf(Nat))
  BY FS_StrictSubsetOrderingWellFounded
<1>2. Family \subseteq FiniteSubsetsOf(Nat) /\ Family # {}
  <2>1. \A t \in T : IsFiniteSet(0 .. t)
    BY FS_Interval
  <2>2. \A t \in T : 0 .. t \in SUBSET Nat
    OBVIOUS
  <2> QED BY <2>1, <2>2 DEF FiniteSubsetsOf
<1>3. PICK least \in Family : \A other \in Family : ~ (<<other, least>> \in R)
  BY <1>1, <1>2, WFMin
<1>4. PICK m \in T : least = 0 .. m
  OBVIOUS
<1>5. ASSUME NEW n \in T
      PROVE  m <= n
  <2>1. SUFFICES ASSUME n < m
                 PROVE  FALSE
    OBVIOUS
  <2>2. 0 .. n \subseteq 0 .. m /\ m \in 0 .. m /\ m \notin 0 .. n
    BY <2>1
  <2>3. 0 .. n \in SUBSET Nat /\ 0 .. m \in SUBSET Nat
    OBVIOUS
  <2>4. <<0 .. n, 0 .. m>> \in R
    BY <2>2, <2>3 DEF StrictSubsetOrdering
  <2> QED BY <1>3, <1>4, <2>4
<1> QED BY <1>5

-----------------------------------------------------------------------------
(* Running sums. *)

\* The recursion of SizeBefore has a solution for every sequence of chunks.
LEMMA SumExists ==
  ASSUME NEW c \in Seq(Chunk)
  PROVE  \E g : g = [n \in 0 .. Len(c) |-> IF n = 0 THEN 0 ELSE g[n - 1] + c[n].size]
<1> DEFINE Sums(g, m) == g = [n \in 0 .. m |-> IF n = 0 THEN 0 ELSE g[n - 1] + c[n].size]
           Bad == {m \in 0 .. Len(c) : ~ \E g : Sums(g, m)}
<1>1. SUFFICES ASSUME Bad # {}
               PROVE  FALSE
  <2>1. Len(c) \in Nat
    OBVIOUS
  <2> QED BY <2>1
<1>2. PICK m \in Bad : \A n \in Bad : m <= n
  <2>1. Bad \in SUBSET Nat
    OBVIOUS
  <2> HIDE DEF Bad
  <2> QED BY <1>1, <2>1, LeastNatural
<1>3. m # 0
  <2>1. Sums([n \in 0 .. 0 |-> 0], 0)
    OBVIOUS
  <2> QED BY <2>1
<1>4. m - 1 \in 0 .. Len(c) /\ m - 1 \notin Bad
  <2>1. m \in 0 .. Len(c)
    OBVIOUS
  <2>2. m - 1 \in 0 .. Len(c) /\ ~ m <= m - 1
    BY <1>3, <2>1
  <2> HIDE DEF Bad
  <2> QED BY <1>2, <2>2
<1>5. PICK g : Sums(g, m - 1)
  BY <1>4
<1> DEFINE h == [n \in 0 .. m |-> IF n = m THEN g[m - 1] + c[m].size ELSE g[n]]
<1>6. Sums(h, m)
  <2>1. ASSUME NEW n \in 0 .. m
        PROVE  h[n] = IF n = 0 THEN 0 ELSE h[n - 1] + c[n].size
    <3>1. CASE n = 0
      BY <1>3, <1>4, <1>5, <3>1
    <3>2. CASE n # 0 /\ n # m
      <4>1. n \in 0 .. (m - 1) /\ n - 1 \in 0 .. m /\ n - 1 # m
        BY <1>4, <3>2
      <4>2. g[n] = g[n - 1] + c[n].size
        BY <1>5, <3>2, <4>1
      <4> QED BY <3>2, <4>1, <4>2
    <3>3. CASE n = m
      <4>1. n - 1 \in 0 .. m /\ n - 1 # m
        BY <1>3, <1>4, <3>3
      <4> QED BY <1>3, <3>3, <4>1
    <3> QED BY <3>1, <3>2, <3>3
  <2> HIDE DEF h
  <2>2. h = [n \in 0 .. m |-> h[n]]
    BY DEF h
  <2> QED BY <2>1, <2>2
<1> QED BY <1>2, <1>6

\* What the running sums are.
LEMMA SumEquations ==
  ASSUME NEW c \in Seq(Chunk)
  PROVE  /\ SizeBefore(c)[0] = 0
         /\ \A n \in 1 .. Len(c) : SizeBefore(c)[n] = SizeBefore(c)[n - 1] + c[n].size
<1> DEFINE Sum == SizeBefore(c)
<1>1. Sum = [n \in 0 .. Len(c) |-> IF n = 0 THEN 0 ELSE Sum[n - 1] + c[n].size]
  BY SumExists DEF SizeBefore
<1> HIDE DEF Sum
<1>2. Sum[0] = 0 /\ \A n \in 1 .. Len(c) : Sum[n] = Sum[n - 1] + c[n].size
  BY <1>1
<1> QED BY <1>2 DEF Sum

LEMMA SumType ==
  ASSUME NEW c \in Seq(Chunk)
  PROVE  \A n \in 0 .. Len(c) : SizeBefore(c)[n] \in Int
<1> DEFINE Bad == {n \in 0 .. Len(c) : SizeBefore(c)[n] \notin Int}
<1>1. SUFFICES ASSUME Bad # {}
               PROVE  FALSE
  OBVIOUS
<1>2. PICK m \in Bad : \A n \in Bad : m <= n
  <2>1. Bad \in SUBSET Nat
    OBVIOUS
  <2> HIDE DEF Bad
  <2> QED BY <1>1, <2>1, LeastNatural
<1>3. m # 0
  BY SumEquations
<1>4. m - 1 \in 0 .. Len(c) /\ m - 1 \notin Bad /\ m \in 1 .. Len(c)
  BY <1>2, <1>3
<1>5. SizeBefore(c)[m - 1] \in Int /\ c[m] \in Chunk
  BY <1>4
<1>6. SizeBefore(c)[m] = SizeBefore(c)[m - 1] + c[m].size
  BY <1>4, SumEquations
<1> QED BY <1>5, <1>6 DEF Chunk

\* Chunks are not empty, so the running sums grow.
LEMMA SumGrows ==
  ASSUME NEW c \in Seq(Chunk), WellFormed(c),
         NEW i \in 0 .. Len(c), NEW j \in 0 .. Len(c), i < j
  PROVE  SizeBefore(c)[i] < SizeBefore(c)[j]
<1> DEFINE Bad == {n \in 0 .. Len(c) : i < n /\ ~ SizeBefore(c)[i] < SizeBefore(c)[n]}
<1>1. SUFFICES ASSUME Bad # {}
               PROVE  FALSE
  OBVIOUS
<1>2. PICK m \in Bad : \A n \in Bad : m <= n
  <2>1. Bad \in SUBSET Nat
    OBVIOUS
  <2> HIDE DEF Bad
  <2> QED BY <1>1, <2>1, LeastNatural
<1>3. m - 1 \in 0 .. Len(c) /\ m - 1 \notin Bad /\ m \in 1 .. Len(c)
  BY <1>2
<1>4. SizeBefore(c)[m] = SizeBefore(c)[m - 1] + c[m].size /\ c[m].size > 0
  BY <1>3, SumEquations DEF WellFormed
<1>5. /\ SizeBefore(c)[m] \in Int /\ SizeBefore(c)[m - 1] \in Int
      /\ SizeBefore(c)[i] \in Int /\ c[m].size \in Int
  <2>1. c[m] \in Chunk
    BY <1>3
  <2> QED BY <1>3, <2>1, SumType DEF Chunk
<1>6. i = m - 1 \/ SizeBefore(c)[i] < SizeBefore(c)[m - 1]
  BY <1>3
<1>7. ~ SizeBefore(c)[i] < SizeBefore(c)[m]
  BY <1>2
<1> HIDE DEF Bad
<1>8. SizeBefore(c)[m - 1] < SizeBefore(c)[m]
  BY <1>4, <1>5
<1> QED BY <1>5, <1>6, <1>7, <1>8

\* Every byte below a running sum lies in one of the chunks it adds up.
LEMMA SumCovers ==
  ASSUME NEW c \in Seq(Chunk), WellFormed(c), NEW n \in 0 .. Len(c), NEW x \in Nat,
         x < SizeBefore(c)[n]
  PROVE  \E k \in 1 .. n : SizeBefore(c)[k - 1] <= x /\ x < SizeBefore(c)[k]
<1> DEFINE Above == {k \in 0 .. n : x < SizeBefore(c)[k]}
<1>1. n \in Above
  OBVIOUS
<1>2. PICK m \in Above : \A k \in Above : m <= k
  <2>1. Above \in SUBSET Nat
    OBVIOUS
  <2> HIDE DEF Above
  <2> QED BY <1>1, <2>1, LeastNatural
<1>3. m # 0
  BY SumEquations
<1>4. m - 1 \in 0 .. n /\ m - 1 \notin Above /\ m \in 1 .. n /\ m - 1 \in 0 .. Len(c)
  BY <1>2, <1>3
<1>5. SizeBefore(c)[m - 1] \in Int
  BY <1>4, SumType
<1> QED BY <1>4, <1>5

-----------------------------------------------------------------------------
(* Sums and bytes. *)

Ascending(c) == \A i, j \in DOMAIN c : i < j => c[i].index < c[j].index

Laid(c, n) == \A i \in 1 .. n : c[i].offset = SizeBefore(c)[i - 1]

\* Where the first n chunks are laid end to end, a byte lies in one of them exactly
\* when it is below their sum.
LEMMA LaidCovers ==
  ASSUME NEW c \in Seq(Chunk), WellFormed(c), NEW n \in 0 .. Len(c), Laid(c, n)
  PROVE  /\ \A k \in 1 .. n : \A x \in Bytes(c[k]) :
              SizeBefore(c)[k - 1] <= x /\ x < SizeBefore(c)[k] /\ x < SizeBefore(c)[n]
         /\ \A x \in Nat : x < SizeBefore(c)[n] => \E k \in 1 .. n : x \in Bytes(c[k])
<1>1. ASSUME NEW k \in 1 .. n
      PROVE  Bytes(c[k]) = SizeBefore(c)[k - 1] .. (SizeBefore(c)[k] - 1)
  <2>1. c[k] \in Chunk /\ k \in 1 .. Len(c) /\ k - 1 \in 0 .. Len(c)
    OBVIOUS
  <2>2. SizeBefore(c)[k] = SizeBefore(c)[k - 1] + c[k].size
    BY <2>1, SumEquations
  <2>3. c[k].offset = SizeBefore(c)[k - 1]
    BY DEF Laid
  <2>4. SizeBefore(c)[k - 1] \in Int /\ c[k].size \in Int
    BY <2>1, SumType DEF Chunk
  <2>5. c[k].offset + c[k].size - 1 = SizeBefore(c)[k] - 1
    BY <2>2, <2>3, <2>4
  <2> QED BY <2>3, <2>5 DEF Bytes
<1>2. ASSUME NEW k \in 1 .. n
      PROVE  /\ SizeBefore(c)[k - 1] \in Int /\ SizeBefore(c)[k] \in Int
             /\ SizeBefore(c)[n] \in Int /\ SizeBefore(c)[k] <= SizeBefore(c)[n]
  <2>1. k \in 0 .. Len(c) /\ k - 1 \in 0 .. Len(c)
    OBVIOUS
  <2>2. k = n \/ SizeBefore(c)[k] < SizeBefore(c)[n]
    BY <2>1, SumGrows
  <2> QED BY <2>1, <2>2, SumType
<1>3. ASSUME NEW k \in 1 .. n, NEW x \in Bytes(c[k])
      PROVE  SizeBefore(c)[k - 1] <= x /\ x < SizeBefore(c)[k] /\ x < SizeBefore(c)[n]
  BY <1>1, <1>2
<1>4. ASSUME NEW x \in Nat, x < SizeBefore(c)[n]
      PROVE  \E k \in 1 .. n : x \in Bytes(c[k])
  <2>1. PICK k \in 1 .. n : SizeBefore(c)[k - 1] <= x /\ x < SizeBefore(c)[k]
    BY <1>4, SumCovers
  <2> QED BY <1>1, <1>2, <2>1
<1> QED BY <1>3, <1>4

\* Chunks laid end to end up to the total partition the artifact.
LEMMA LaidPartitions ==
  ASSUME NEW c \in Seq(Chunk), WellFormed(c), Ascending(c), NEW size \in Nat,
         Laid(c, Len(c)), SizeBefore(c)[Len(c)] = size
  PROVE  Partitions(c, size)
<1>1. Len(c) \in 0 .. Len(c) /\ DOMAIN c = 1 .. Len(c)
  OBVIOUS
<1>2. ASSUME NEW i \in DOMAIN c, NEW x \in Bytes(c[i])
      PROVE  x \in 0 .. (size - 1)
  <2>1. c[i] \in Chunk /\ c[i].offset >= 0
    BY <1>1 DEF WellFormed
  <2>2. x \in Int /\ c[i].offset <= x
    BY <2>1 DEF Bytes, Chunk
  <2>3. x < size
    BY <1>1, LaidCovers
  <2> QED BY <2>1, <2>2, <2>3 DEF Chunk
<1>3. ASSUME NEW x \in 0 .. (size - 1)
      PROVE  \E i \in DOMAIN c : x \in Bytes(c[i])
  BY <1>1, LaidCovers
<1>4. ASSUME NEW i \in DOMAIN c, NEW j \in DOMAIN c, c[i].index < c[j].index,
             NEW x \in Bytes(c[i]), NEW y \in Bytes(c[j])
      PROVE  x < y
  <2>1. c[i] \in Chunk /\ c[j] \in Chunk
    BY <1>1
  <2>2. i < j
    <3>1. ~ i = j /\ ~ c[j].index < c[i].index
      BY <1>4, <2>1 DEF Chunk
    <3> QED BY <1>1, <3>1 DEF Ascending
  <2>3. x < SizeBefore(c)[i] /\ SizeBefore(c)[j - 1] <= y
    BY <1>1, LaidCovers
  <2>4. i = j - 1 \/ SizeBefore(c)[i] < SizeBefore(c)[j - 1]
    BY <1>1, <2>2, SumGrows
  <2>5. x \in Int /\ y \in Int
    BY <2>1 DEF Bytes, Chunk
  <2>6. SizeBefore(c)[i] \in Int /\ SizeBefore(c)[j - 1] \in Int
    BY <1>1, SumType
  <2> QED BY <2>3, <2>4, <2>5, <2>6
<1>5. UNION {Bytes(c[i]) : i \in DOMAIN c} = 0 .. (size - 1)
  BY <1>2, <1>3
<1> QED BY <1>4, <1>5 DEF Partitions

\* And a partition is laid end to end up to the total.
LEMMA PartitionIsLaid ==
  ASSUME NEW c \in Seq(Chunk), WellFormed(c), Ascending(c), NEW size \in Nat,
         Partitions(c, size)
  PROVE  Laid(c, Len(c)) /\ SizeBefore(c)[Len(c)] = size
<1>1. DOMAIN c = 1 .. Len(c) /\ Len(c) \in Nat /\ Len(c) > 0
  BY DEF WellFormed
<1>2. /\ \A i \in 1 .. Len(c) : \A x \in Bytes(c[i]) : x \in 0 .. (size - 1)
      /\ \A x \in 0 .. (size - 1) : \E i \in 1 .. Len(c) : x \in Bytes(c[i])
  BY <1>1 DEF Partitions
<1>3. ASSUME NEW i \in 1 .. Len(c), NEW j \in 1 .. Len(c), i < j,
             NEW x \in Bytes(c[i]), NEW y \in Bytes(c[j])
      PROVE  x < y
  BY <1>1, <1>3 DEF Partitions, Ascending
<1>4. ASSUME NEW i \in 1 .. Len(c)
      PROVE  /\ c[i].offset \in Nat /\ c[i].size \in Nat \ {0}
             /\ c[i].offset \in Bytes(c[i])
  <2>1. c[i] \in Chunk /\ c[i].size > 0 /\ c[i].offset >= 0
    BY <1>1 DEF WellFormed
  <2> QED BY <2>1 DEF Bytes, Chunk
<1>5. Laid(c, Len(c))
  <2> DEFINE Bad == {i \in 1 .. Len(c) : c[i].offset # SizeBefore(c)[i - 1]}
  <2>1. SUFFICES ASSUME Bad # {}
                 PROVE  FALSE
    BY DEF Laid
  <2>2. PICK i \in Bad : \A n \in Bad : i <= n
    <3>1. Bad \in SUBSET Nat
      OBVIOUS
    <3> HIDE DEF Bad
    <3> QED BY <2>1, <3>1, LeastNatural
  <2> DEFINE p == SizeBefore(c)[i - 1]
             o == c[i].offset
  <2>3. i \in 1 .. Len(c) /\ i - 1 \in 0 .. Len(c) /\ o # p
    OBVIOUS
  <2>4. Laid(c, i - 1)
    <3>1. ASSUME NEW k \in 1 .. (i - 1)
          PROVE  c[k].offset = SizeBefore(c)[k - 1]
      <4>1. k \in 1 .. Len(c) /\ ~ i <= k
        BY <2>3
      <4> QED BY <2>2, <4>1
    <3> QED BY <3>1 DEF Laid
  <2>5. /\ \A k \in 1 .. (i - 1) : \A x \in Bytes(c[k]) : x < p
        /\ \A x \in Nat : x < p => \E k \in 1 .. (i - 1) : x \in Bytes(c[k])
    BY <2>3, <2>4, LaidCovers
  <2>6. o \in Nat /\ o \in Bytes(c[i]) /\ o \in 0 .. (size - 1)
    BY <1>2, <1>4, <2>3
  <2>7. p \in Int /\ p >= 0
    <3>1. i - 1 = 0 \/ SizeBefore(c)[0] < p
      BY <1>1, <2>3, SumGrows
    <3>2. p \in Int
      BY <2>3, SumType
    <3> QED BY <3>1, <3>2, SumEquations
  <2> HIDE DEF p, o, Bad
  <2>8. ~ o < p
    <3>1. SUFFICES ASSUME o < p
                   PROVE  FALSE
      OBVIOUS
    <3>2. PICK k \in 1 .. (i - 1) : o \in Bytes(c[k])
      BY <2>5, <2>6, <3>1
    <3>3. k \in 1 .. Len(c) /\ k < i
      BY <2>3
    <3>4. o < o
      BY <1>3, <2>3, <2>6, <3>2, <3>3
    <3> QED BY <2>6, <3>4
  <2>9. p < o
    BY <2>3, <2>6, <2>7, <2>8
  <2>10. PICK k \in 1 .. Len(c) : p \in Bytes(c[k])
    <3>1. p \in 0 .. (size - 1)
      BY <2>6, <2>7, <2>9
    <3> QED BY <1>2, <3>1
  <2>11. CASE k < i
    <3>1. k \in 1 .. (i - 1)
      BY <2>3, <2>11
    <3>2. p < p
      BY <2>5, <2>10, <3>1
    <3> QED BY <2>7, <3>2
  <2>12. CASE k = i
    <3>1. o <= p
      BY <1>4, <2>3, <2>10, <2>12 DEF Bytes, o
    <3> QED BY <2>6, <2>7, <2>9, <3>1
  <2>13. CASE i < k
    <3>1. o < p
      BY <1>3, <2>3, <2>6, <2>10, <2>13
    <3> QED BY <2>6, <2>7, <2>8, <3>1
  <2> QED BY <2>3, <2>11, <2>12, <2>13
<1>6. SizeBefore(c)[Len(c)] = size
  <2> DEFINE sum == SizeBefore(c)[Len(c)]
  <2>1. /\ \A x \in Nat : x < sum => \E k \in 1 .. Len(c) : x \in Bytes(c[k])
        /\ \A k \in 1 .. Len(c) : \A x \in Bytes(c[k]) : x < sum
    <3>1. Len(c) \in 0 .. Len(c)
      BY <1>1
    <3> QED BY <1>5, <3>1, LaidCovers
  <2>2. sum \in Int /\ sum > 0
    <3>1. Len(c) \in 0 .. Len(c) /\ 0 \in 0 .. Len(c) /\ 0 < Len(c)
      BY <1>1
    <3>2. sum \in Int /\ SizeBefore(c)[0] < sum
      BY <3>1, SumGrows, SumType
    <3> QED BY <3>2, SumEquations
  <2> HIDE DEF sum
  <2>3. sum - 1 \in 0 .. (size - 1)
    <3>1. sum - 1 \in Nat /\ sum - 1 < sum
      BY <2>2
    <3>2. PICK k \in 1 .. Len(c) : sum - 1 \in Bytes(c[k])
      BY <2>1, <3>1
    <3> QED BY <1>2, <3>2
  <2>4. ~ sum < size
    <3>1. SUFFICES ASSUME sum < size
                   PROVE  FALSE
      OBVIOUS
    <3>2. sum \in 0 .. (size - 1)
      BY <2>2, <3>1
    <3>3. PICK k \in 1 .. Len(c) : sum \in Bytes(c[k])
      BY <1>2, <3>2
    <3>4. sum < sum
      BY <2>1, <3>3
    <3> QED BY <2>2, <3>4
  <2> QED BY <2>2, <2>3, <2>4 DEF sum
<1> QED BY <1>5, <1>6

-----------------------------------------------------------------------------
(* Sorting. *)

Ahead(c, j, i) == c[j].index < c[i].index \/ (c[j].index = c[i].index /\ j < i)

LEMMA AheadOrder ==
  ASSUME NEW c \in Seq(Chunk), NEW i \in DOMAIN c, NEW j \in DOMAIN c
  PROVE  /\ ~ Ahead(c, i, i)
         /\ i = j \/ Ahead(c, i, j) \/ Ahead(c, j, i)
         /\ \A k \in DOMAIN c : Ahead(c, i, j) /\ Ahead(c, j, k) => Ahead(c, i, k)
<1>1. \A k \in DOMAIN c : k \in Nat /\ c[k] \in Chunk
  OBVIOUS
<1>2. \A k \in DOMAIN c : k \in Nat /\ c[k].index \in Int
  BY <1>1 DEF Chunk
<1> QED BY <1>2 DEF Ahead

\* A chunk's place counts the chunks ahead of it.
LEMMA PlaceCounts ==
  ASSUME NEW c \in Seq(Chunk), NEW i \in DOMAIN c
  PROVE  LET ahead == {j \in DOMAIN c : Ahead(c, j, i)}
         IN  /\ IsFiniteSet(ahead) /\ Cardinality(ahead) \in Nat
             /\ Place(c, i) = Cardinality(ahead) + 1
             /\ Place(c, i) \in 1 .. Len(c)
<1> DEFINE ahead == {j \in DOMAIN c : Ahead(c, j, i)}
<1>1. Len(c) \in Nat /\ DOMAIN c = 1 .. Len(c)
  OBVIOUS
<1>2. IsFiniteSet(DOMAIN c) /\ Cardinality(DOMAIN c) = Len(c)
  <2>1. IsFiniteSet(1 .. Len(c)) /\ Cardinality(1 .. Len(c)) = IF 1 > Len(c) THEN 0 ELSE Len(c) - 1 + 1
    BY <1>1, FS_Interval
  <2> QED BY <1>1, <2>1
<1>3. ahead \in SUBSET (DOMAIN c \ {i})
  BY AheadOrder
<1>4. IsFiniteSet(DOMAIN c \ {i}) /\ Cardinality(DOMAIN c \ {i}) = Len(c) - 1
  BY <1>2, FS_RemoveElement
<1>5. IsFiniteSet(ahead) /\ Cardinality(ahead) <= Len(c) - 1
  BY <1>3, <1>4, FS_Subset
<1>6. Cardinality(ahead) \in Nat
  BY <1>5, FS_CardinalityType
<1>7. Place(c, i) = Cardinality(ahead) + 1
  BY <1>6 DEF Place, Ahead
<1> QED BY <1>1, <1>5, <1>6, <1>7

LEMMA PlaceFollowsOrder ==
  ASSUME NEW c \in Seq(Chunk), NEW i \in DOMAIN c, NEW j \in DOMAIN c, Ahead(c, i, j)
  PROVE  Place(c, i) < Place(c, j)
<1> DEFINE Of(k) == {l \in DOMAIN c : Ahead(c, l, k)}
<1>1. /\ IsFiniteSet(Of(i)) /\ Cardinality(Of(i)) \in Nat /\ Place(c, i) = Cardinality(Of(i)) + 1
      /\ IsFiniteSet(Of(j)) /\ Cardinality(Of(j)) \in Nat /\ Place(c, j) = Cardinality(Of(j)) + 1
  BY PlaceCounts
<1>2. i \notin Of(i) /\ Of(i) \cup {i} \in SUBSET Of(j)
  BY AheadOrder
<1>3. Cardinality(Of(i) \cup {i}) = Cardinality(Of(i)) + 1
  BY <1>1, <1>2, FS_AddElement
<1>4. Cardinality(Of(i) \cup {i}) <= Cardinality(Of(j))
  BY <1>1, <1>2, FS_Subset
<1> QED BY <1>1, <1>3, <1>4

\* Every place is taken by exactly one chunk.
LEMMA PlacesAreTaken ==
  ASSUME NEW c \in Seq(Chunk)
  PROVE  /\ \A i, j \in DOMAIN c : Place(c, i) = Place(c, j) => i = j
         /\ \A n \in DOMAIN c : \E i \in DOMAIN c : Place(c, i) = n
<1> DEFINE places == [i \in DOMAIN c |-> Place(c, i)]
<1>1. DOMAIN c = 1 .. Len(c) /\ Len(c) \in Nat
  OBVIOUS
<1>2. \A i \in DOMAIN c : Place(c, i) \in DOMAIN c
  BY <1>1, PlaceCounts
<1>3. ASSUME NEW i \in DOMAIN c, NEW j \in DOMAIN c, Place(c, i) = Place(c, j)
      PROVE  i = j
  <2>1. ~ Place(c, i) < Place(c, j) /\ ~ Place(c, j) < Place(c, i)
    BY <1>1, <1>2, <1>3
  <2> QED BY <2>1, PlaceFollowsOrder, AheadOrder
<1>4. places \in Injection(DOMAIN c, DOMAIN c)
  BY <1>2, <1>3 DEF Injection, IsInjective
<1>5. IsFiniteSet(DOMAIN c)
  BY <1>1, FS_Interval
<1>6. places \in Surjection(DOMAIN c, DOMAIN c)
  BY <1>4, <1>5, FS_Injection
<1>7. \A n \in DOMAIN c : \E i \in DOMAIN c : Place(c, i) = n
  BY <1>6 DEF Surjection
<1> QED BY <1>3, <1>7

\* Sorting moves every chunk to its place and drops or repeats none.
LEMMA SortingMoves ==
  ASSUME NEW c \in Seq(Chunk)
  PROVE  /\ SortedByIndex(c) \in Seq(Chunk)
         /\ Len(SortedByIndex(c)) = Len(c) /\ DOMAIN SortedByIndex(c) = DOMAIN c
         /\ \A i \in DOMAIN c : Place(c, i) \in DOMAIN c /\ SortedByIndex(c)[Place(c, i)] = c[i]
         /\ \A n \in DOMAIN c :
              \E i \in DOMAIN c : Place(c, i) = n /\ SortedByIndex(c)[n] = c[i]
<1> DEFINE At(n) == CHOOSE i \in DOMAIN c : Place(c, i) = n
           s == SortedByIndex(c)
<1>1. Len(c) \in Nat /\ DOMAIN c = 1 .. Len(c) /\ \A i \in DOMAIN c : c[i] \in Chunk
  OBVIOUS
<1>2. \A n \in DOMAIN c : At(n) \in DOMAIN c /\ Place(c, At(n)) = n
  BY PlacesAreTaken
<1>3. s = [n \in DOMAIN c |-> c[At(n)]]
  BY DEF SortedByIndex
<1> HIDE DEF At, s
<1>4. s \in [1 .. Len(c) -> Chunk]
  BY <1>1, <1>2, <1>3
<1>5. s \in Seq(Chunk) /\ Len(s) = Len(c) /\ DOMAIN s = DOMAIN c
  BY <1>1, <1>4
<1>6. ASSUME NEW i \in DOMAIN c
      PROVE  Place(c, i) \in DOMAIN c /\ s[Place(c, i)] = c[i]
  <2>1. Place(c, i) \in DOMAIN c
    BY <1>1, PlaceCounts
  <2>2. At(Place(c, i)) = i
    BY <1>2, <2>1, PlacesAreTaken
  <2> QED BY <1>3, <2>1, <2>2
<1>7. \A n \in DOMAIN c : \E i \in DOMAIN c : Place(c, i) = n /\ s[n] = c[i]
  BY <1>2, <1>3
<1> QED BY <1>5, <1>6, <1>7 DEF s

\* Sorted chunks with distinct indexes ascend.
LEMMA SortedAscends ==
  ASSUME NEW c \in Seq(Chunk), WellFormed(c)
  PROVE  WellFormed(SortedByIndex(c)) /\ Ascending(SortedByIndex(c))
<1> DEFINE s == SortedByIndex(c)
<1>1. /\ s \in Seq(Chunk) /\ Len(s) = Len(c) /\ DOMAIN s = DOMAIN c
      /\ \A n \in DOMAIN c : \E i \in DOMAIN c : Place(c, i) = n /\ s[n] = c[i]
  BY SortingMoves
<1> HIDE DEF s
<1>2. \A i \in DOMAIN c : Place(c, i) \in Nat /\ c[i].index \in Int
  <2>1. \A i \in DOMAIN c : c[i] \in Chunk
    OBVIOUS
  <2>2. \A i \in DOMAIN c : Place(c, i) \in 1 .. Len(c)
    BY PlaceCounts
  <2> QED BY <2>1, <2>2 DEF Chunk
<1>3. ASSUME NEW m \in DOMAIN s, NEW n \in DOMAIN s, m < n
      PROVE  s[m].index < s[n].index
  <2>1. PICK i \in DOMAIN c : Place(c, i) = m /\ s[m] = c[i]
    BY <1>1
  <2>2. PICK j \in DOMAIN c : Place(c, j) = n /\ s[n] = c[j]
    BY <1>1
  <2>3. i # j /\ ~ Place(c, j) < Place(c, i)
    BY <1>2, <1>3, <2>1, <2>2
  <2>4. Ahead(c, i, j)
    BY <2>3, AheadOrder, PlaceFollowsOrder
  <2>5. c[i].index # c[j].index
    BY <2>3 DEF WellFormed
  <2> QED BY <2>1, <2>2, <2>4, <2>5 DEF Ahead
<1>4. ASSUME NEW m \in DOMAIN s, NEW n \in DOMAIN s, s[m].index = s[n].index
      PROVE  m = n
  <2>1. m \in Nat /\ n \in Nat /\ s[m].index \in Int
    BY <1>1, <1>2
  <2>2. ~ m < n /\ ~ n < m
    BY <1>3, <1>4, <2>1
  <2> QED BY <2>1, <2>2
<1>5. \A m \in DOMAIN s : s[m].index >= 0 /\ s[m].size > 0 /\ s[m].offset >= 0
  BY <1>1 DEF WellFormed
<1>6. Len(s) > 0
  BY <1>1 DEF WellFormed
<1>7. WellFormed(s)
  BY <1>4, <1>5, <1>6 DEF WellFormed
<1>8. Ascending(s)
  BY <1>3 DEF Ascending
<1> QED BY <1>7, <1>8 DEF s

\* Whether chunks partition the artifact does not depend on their order.
LEMMA PartitionIgnoresOrder ==
  ASSUME NEW c \in Seq(Chunk), NEW size
  PROVE  Partitions(SortedByIndex(c), size) <=> Partitions(c, size)
<1> DEFINE s == SortedByIndex(c)
<1>1. /\ DOMAIN s = DOMAIN c
      /\ \A i \in DOMAIN c : \E n \in DOMAIN c : s[n] = c[i]
      /\ \A n \in DOMAIN c : \E i \in DOMAIN c : s[n] = c[i]
  BY SortingMoves
<1> HIDE DEF s
<1>2. {Bytes(s[i]) : i \in DOMAIN s} = {Bytes(c[i]) : i \in DOMAIN c}
  BY <1>1
<1> DEFINE Apart(d) == \A i, j \in DOMAIN d : d[i].index < d[j].index =>
                          \A x \in Bytes(d[i]), y \in Bytes(d[j]) : x < y
<1>3. Apart(s) <=> Apart(c)
  <2>1. ASSUME Apart(s), NEW i \in DOMAIN c, NEW j \in DOMAIN c, c[i].index < c[j].index
        PROVE  \A x \in Bytes(c[i]), y \in Bytes(c[j]) : x < y
    <3>1. PICK m \in DOMAIN s, n \in DOMAIN s : s[m] = c[i] /\ s[n] = c[j]
      BY <1>1
    <3> QED BY <2>1, <3>1
  <2>2. ASSUME Apart(c), NEW m \in DOMAIN s, NEW n \in DOMAIN s, s[m].index < s[n].index
        PROVE  \A x \in Bytes(s[m]), y \in Bytes(s[n]) : x < y
    <3>1. PICK i \in DOMAIN c, j \in DOMAIN c : s[m] = c[i] /\ s[n] = c[j]
      BY <1>1
    <3> QED BY <2>2, <3>1
  <2> QED BY <2>1, <2>2
<1> HIDE DEF Apart
<1>4. \A d : Partitions(d, size) <=> UNION {Bytes(d[i]) : i \in DOMAIN d} = 0 .. (size - 1) /\ Apart(d)
  BY DEF Partitions, Apart
<1> QED BY <1>2, <1>3, <1>4 DEF s

\* The checks of the code accept a well formed request that is numbered from zero
\* exactly when it partitions the artifact.
LEMMA AcceptsPartitions ==
  ASSUME NEW c \in Seq(Chunk), NEW size \in Nat, WellFormed(c),
         \E i \in DOMAIN c : c[i].index = 0
  PROVE  Acceptable(c, size) <=> Partitions(c, size)
<1> DEFINE s == SortedByIndex(c)
<1>1. /\ s \in Seq(Chunk) /\ Len(s) = Len(c) /\ DOMAIN s = DOMAIN c
      /\ \A i \in DOMAIN c : \E n \in DOMAIN c : s[n] = c[i]
  BY SortingMoves
<1>2. WellFormed(s) /\ Ascending(s)
  BY SortedAscends
<1>3. Partitions(s, size) <=> Partitions(c, size)
  BY PartitionIgnoresOrder
<1> HIDE DEF s
<1>4. DOMAIN s = 1 .. Len(s) /\ Len(s) \in Nat /\ 1 \in DOMAIN s
  BY <1>1, <1>2 DEF WellFormed
<1>5. s[1].index = 0
  <2>1. PICK n \in DOMAIN s : s[n].index = 0
    BY <1>1
  <2>2. n = 1 \/ s[1].index < 0
    BY <1>2, <1>4, <2>1 DEF Ascending
  <2>3. s \in Seq(Chunk) /\ 1 \in 1 .. Len(s)
    BY <1>1, <1>4
  <2>4. s[1] \in Chunk
    BY <2>3
  <2>5. s[1].index \in Int
    BY <2>4 DEF Chunk
  <2>6. s[1].index >= 0
    BY <1>2, <1>4 DEF WellFormed
  <2> QED BY <2>1, <2>2, <2>5, <2>6
<1>6. Contiguous(s, size) <=> Laid(s, Len(s)) /\ SizeBefore(s)[Len(s)] = size
  BY <1>4, <1>5 DEF Contiguous, Laid
<1>7. Contiguous(s, size) <=> Partitions(s, size)
  BY <1>1, <1>2, <1>6, LaidPartitions, PartitionIsLaid
<1> QED BY <1>3, <1>7 DEF Acceptable, s

\* Ascending sequences of the same chunks are equal.
LEMMA AscendingIsUnique ==
  ASSUME NEW s \in Seq(Chunk), NEW u \in Seq(Chunk), Ascending(s), Ascending(u),
         Len(s) = Len(u), ToSet(s) = ToSet(u)
  PROVE  s = u
<1>1. /\ DOMAIN s = 1 .. Len(s) /\ DOMAIN u = DOMAIN s /\ Len(s) \in Nat
      /\ s = [i \in DOMAIN s |-> s[i]] /\ u = [i \in DOMAIN u |-> u[i]]
  OBVIOUS
<1>2. \A i \in DOMAIN s : s[i].index \in Int /\ u[i].index \in Int
  <2>1. \A i \in DOMAIN s : s[i] \in Chunk /\ u[i] \in Chunk
    BY <1>1
  <2> QED BY <2>1 DEF Chunk
<1> DEFINE Bad == {i \in DOMAIN s : s[i] # u[i]}
<1>3. SUFFICES ASSUME Bad # {}
               PROVE  FALSE
  BY <1>1
<1>4. PICK m \in Bad : \A n \in Bad : m <= n
  <2>1. Bad \in SUBSET Nat
    BY <1>1
  <2> HIDE DEF Bad
  <2> QED BY <1>3, <2>1, LeastNatural
<1>5. m \in DOMAIN s /\ s[m] # u[m]
  OBVIOUS
<1>6. \A i \in DOMAIN s : i \in Nat
  BY <1>1
<1>7. ASSUME NEW i \in DOMAIN s, i < m
      PROVE  s[i] = u[i]
  <2>1. ~ m <= i
    BY <1>5, <1>6, <1>7
  <2> QED BY <1>4, <2>1
<1> HIDE DEF Bad
<1>8. PICK k \in DOMAIN s : s[m] = u[k]
  BY <1>1, <1>5 DEF ToSet
<1>9. PICK l \in DOMAIN s : u[m] = s[l]
  <2>1. m \in DOMAIN u
    BY <1>1, <1>5
  <2>2. u[m] \in ToSet(u)
    BY <2>1 DEF ToSet
  <2> QED BY <2>2 DEF ToSet
<1>10. m < k
  <2>1. SUFFICES ASSUME k < m
                 PROVE  FALSE
    BY <1>5, <1>6, <1>8
  <2>2. s[k].index = s[m].index
    BY <1>7, <1>8, <2>1
  <2>3. s[k].index < s[m].index
    BY <1>5, <2>1 DEF Ascending
  <2>4. s[m].index \in Int
    BY <1>2, <1>5
  <2> QED BY <2>2, <2>3, <2>4
<1>11. m < l
  <2>1. SUFFICES ASSUME l < m
                 PROVE  FALSE
    BY <1>5, <1>6, <1>9
  <2>2. u[l].index = u[m].index
    BY <1>7, <1>9, <2>1
  <2>3. u[l].index < u[m].index
    BY <1>1, <1>5, <2>1 DEF Ascending
  <2>4. u[m].index \in Int
    BY <1>2, <1>5
  <2> QED BY <2>2, <2>3, <2>4
<1>12. u[m].index < s[m].index
  BY <1>1, <1>5, <1>8, <1>10 DEF Ascending
<1>13. s[m].index < u[m].index
  BY <1>5, <1>9, <1>11 DEF Ascending
<1>14. s[m].index \in Int /\ u[m].index \in Int
  BY <1>2, <1>5
<1> QED BY <1>12, <1>13, <1>14

\* A sequence that lists the chunks of a well formed request, as many of them and no
\* others, is well formed: it lists each of them once.
LEMMA SameListing ==
  ASSUME NEW c \in Seq(Chunk), WellFormed(c), NEW q \in Seq(Chunk),
         Len(q) = Len(c), ToSet(q) = ToSet(c)
  PROVE  WellFormed(q)
<1> DEFINE E == ToSet(c)
<1>1. /\ DOMAIN c = 1 .. Len(c) /\ DOMAIN q = 1 .. Len(c) /\ Len(c) \in Nat
      /\ E = {c[i] : i \in DOMAIN c} /\ E = {q[i] : i \in DOMAIN q}
      /\ c \in [1 .. Len(c) -> E] /\ q \in [1 .. Len(c) -> E]
  <2>1. DOMAIN c = 1 .. Len(c) /\ DOMAIN q = 1 .. Len(c) /\ Len(c) \in Nat
    OBVIOUS
  <2>2. c = [i \in DOMAIN c |-> c[i]] /\ q = [i \in DOMAIN q |-> q[i]]
    OBVIOUS
  <2>3. E = {c[i] : i \in DOMAIN c} /\ E = {q[i] : i \in DOMAIN q}
    BY DEF ToSet
  <2> HIDE DEF E
  <2>4. c \in [1 .. Len(c) -> E] /\ q \in [1 .. Len(c) -> E]
    BY <2>1, <2>2, <2>3
  <2> QED BY <2>1, <2>3, <2>4
<1> HIDE DEF E
<1>2. IsFiniteSet(1 .. Len(c))
  <2>1. Len(c) \in Int /\ 1 \in Int
    BY <1>1
  <2> QED BY <2>1, FS_Interval
<1>3. c \in Surjection(1 .. Len(c), E) /\ q \in Surjection(1 .. Len(c), E)
  BY <1>1 DEF Surjection
<1>4. c \in Injection(1 .. Len(c), E)
  BY <1>1 DEF Injection, IsInjective, WellFormed
<1>5. IsFiniteSet(E) /\ Cardinality(E) = Cardinality(1 .. Len(c))
  BY <1>2, <1>3, <1>4, FS_Surjection
<1>6. q \in Injection(1 .. Len(c), E)
  BY <1>2, <1>3, <1>5, FS_SurjSameCardinalityImpliesInj
<1>7. \A i \in DOMAIN q : \E j \in DOMAIN c : q[i] = c[j]
  BY <1>1
<1>8. ASSUME NEW i \in DOMAIN q, NEW j \in DOMAIN q, q[i].index = q[j].index
      PROVE  i = j
  <2>1. PICK k \in DOMAIN c, l \in DOMAIN c : q[i] = c[k] /\ q[j] = c[l]
    BY <1>7
  <2>2. q[i] = q[j]
    BY <1>8, <2>1 DEF WellFormed
  <2> QED BY <1>1, <1>6, <2>2 DEF Injection, IsInjective
<1>9. \A i \in DOMAIN q : q[i].index >= 0 /\ q[i].size > 0 /\ q[i].offset >= 0
  BY <1>7 DEF WellFormed
<1>10. Len(q) > 0
  BY DEF WellFormed
<1> QED BY <1>8, <1>9, <1>10 DEF WellFormed

\* Of the sequences over a well formed request's chunks, those that sort to what it
\* sorts to are its reorderings.
LEMMA SortsAlike ==
  ASSUME NEW c \in Seq(Chunk), WellFormed(c), NEW q \in Seq(Chunk)
  PROVE  SortedByIndex(c) = SortedByIndex(q) <=> Len(q) = Len(c) /\ ToSet(q) = ToSet(c)
<1> DEFINE s == SortedByIndex(c)
           u == SortedByIndex(q)
<1>1. /\ s \in Seq(Chunk) /\ Len(s) = Len(c) /\ DOMAIN s = DOMAIN c
      /\ \A i \in DOMAIN c : \E n \in DOMAIN s : s[n] = c[i]
      /\ \A n \in DOMAIN s : \E i \in DOMAIN c : s[n] = c[i]
  BY SortingMoves
<1>2. /\ u \in Seq(Chunk) /\ Len(u) = Len(q) /\ DOMAIN u = DOMAIN q
      /\ \A i \in DOMAIN q : \E n \in DOMAIN u : u[n] = q[i]
      /\ \A n \in DOMAIN u : \E i \in DOMAIN q : u[n] = q[i]
  BY SortingMoves
<1>3. Ascending(s)
  BY SortedAscends
<1>4. WellFormed(q) => Ascending(u)
  BY SortedAscends
<1> HIDE DEF s, u
<1>5. ToSet(s) = ToSet(c) /\ ToSet(u) = ToSet(q)
  <2>1. {s[n] : n \in DOMAIN s} = {c[i] : i \in DOMAIN c}
    BY <1>1
  <2>2. {u[n] : n \in DOMAIN u} = {q[i] : i \in DOMAIN q}
    BY <1>2
  <2> QED BY <2>1, <2>2 DEF ToSet
<1>6. ASSUME Len(q) = Len(c), ToSet(q) = ToSet(c)
      PROVE  s = u
  <2>1. Ascending(u)
    BY <1>4, <1>6, SameListing
  <2>2. ToSet(s) = ToSet(u)
    BY <1>5, <1>6
  <2> QED BY <1>1, <1>2, <1>3, <1>6, <2>1, <2>2, AscendingIsUnique
<1>7. s = u => Len(q) = Len(c) /\ ToSet(q) = ToSet(c)
  BY <1>1, <1>2, <1>5
<1> QED BY <1>6, <1>7 DEF s, u

-----------------------------------------------------------------------------
(* The theorems. *)

\* What Normalize has decided, at every later moment.
LayoutInv ==
  /\ request \in Seq(Chunk)
  /\ total \in Nat
  /\ stage \in {"open", "published"} =>
       Acceptable(request, total) /\ layout = SortedByIndex(request)
  /\ stage = "rejected" => ~ Acceptable(request, total)

LEMMA LayoutInvariant == LayoutSpec => []LayoutInv
<1>1. LayoutInit => LayoutInv
  <2> SUFFICES ASSUME LayoutInit
               PROVE  LayoutInv
    OBVIOUS
  <2>1. ChunkSpec \subseteq Chunk /\ total \in Nat
    BY LayoutAssumption DEF LayoutInit, ChunkSpec, Chunk
  <2>2. request \in Seq(ChunkSpec)
    BY LayoutAssumption DEF LayoutInit, SeqOf
  <2>3. request \in Seq(Chunk)
    BY <2>1, <2>2
  <2> QED BY <2>1, <2>3 DEF LayoutInit, LayoutInv
<1>2. LayoutInv /\ [LayoutNext]_layoutVars => LayoutInv'
  <2> SUFFICES ASSUME LayoutInv, [LayoutNext]_layoutVars
               PROVE  LayoutInv'
    OBVIOUS
  <2> USE DEF LayoutInv
  <2>1. CASE Normalize
    BY <2>1 DEF Normalize
  <2>2. CASE CompleteLayout
    BY <2>2 DEF CompleteLayout
  <2>3. CASE UNCHANGED layoutVars
    BY <2>3 DEF layoutVars
  <2> QED BY <2>1, <2>2, <2>3 DEF LayoutNext
<1> QED BY <1>1, <1>2, PTL DEF LayoutSpec

\* For every request and total: a layout numbered from zero is accepted exactly when
\* it partitions the artifact (normalizeChunks).
THEOREM AcceptedLayoutsPartition == LayoutSpec => []ZeroBasedAcceptedIffPartition
<1>1. LayoutInv => ZeroBasedAcceptedIffPartition
  BY AcceptsPartitions DEF LayoutInv, ZeroBasedAcceptedIffPartition
<1> QED BY <1>1, LayoutInvariant, PTL

\* For every request: a repeated create request matches its session whatever order it
\* lists the chunks in, and only then (sameParams).
THEOREM RepeatsMatchInAnyOrder == LayoutSpec => []OrderOfRequestIgnored
<1>1. LayoutInv => OrderOfRequestIgnored
  <2> SUFFICES ASSUME LayoutInv, stage = "open",
                      NEW q \in SeqOf({request[i] : i \in DOMAIN request}, Len(request))
               PROVE  SameChunks(layout, q) <=> Len(q) = Len(request) /\ ToSet(q) = ToSet(request)
    BY DEF OrderOfRequestIgnored
  <2>1. request \in Seq(Chunk) /\ layout = SortedByIndex(request) /\ WellFormed(request)
    BY DEF LayoutInv, Acceptable
  <2>2. q \in Seq(Chunk)
    <3>1. {request[i] : i \in DOMAIN request} \subseteq Chunk
      BY <2>1
    <3>2. q \in Seq({request[i] : i \in DOMAIN request})
      BY <2>1 DEF SeqOf
    <3> QED BY <3>1, <3>2
  <2>3. SortedByIndex(request) = SortedByIndex(q)
          <=> Len(q) = Len(request) /\ ToSet(q) = ToSet(request)
    BY <2>1, <2>2, SortsAlike
  <2> QED BY <2>1, <2>3 DEF SameChunks
<1> QED BY <1>1, LayoutInvariant, PTL
=============================================================================
