----------------------------- MODULE ChunkLemmas -----------------------------
(***************************************************************************)
(* What both file transfers, lab 8 and lab 10, rely on when they compare a *)
(* byte count with the size of the blob: S bytes cut in chunks of D bytes, *)
(* the last one perhaps partial, where chunk k starts at byte (k-1) * D.   *)
(* And what the unpacker relies on when it sums a file by segments.        *)
(***************************************************************************)
EXTENDS Integers, Sequences, FiniteSetTheorems, FunctionTheorems, WellFoundedInduction, TLAPS

ChunksOf(S, D) == {k \in 1..S : (k - 1) * D < S}

(* A product grows with its factor.                                        *)
LEMMA MulMono == \A a, b, d \in Nat : a <= b => a * d <= b * d
<1> SUFFICES ASSUME NEW a \in Nat, NEW b \in Nat, NEW d \in Nat, a <= b
             PROVE  a * d <= b * d
    OBVIOUS
<1>1. PICK e \in Nat : b = a + e
    <2>1. b - a \in Nat /\ b = a + (b - a)
        OBVIOUS
    <2> QED BY <2>1
<1>2. b * d = a * d + e * d
    BY <1>1
<1>3. e * d \in Nat /\ a * d \in Nat
    OBVIOUS
<1> QED BY <1>2, <1>3

(* The chunks are numbered from 1 on without a gap; one chunk fewer than   *)
(* their number is too short for the blob, their number is enough.         *)
LEMMA ChunksInterval ==
    ASSUME NEW S \in Nat \ {0}, NEW D \in Nat \ {0}
    PROVE  \E n \in Nat : /\ ChunksOf(S, D) = 1..n
                          /\ n # 0
                          /\ (n - 1) * D < S
                          /\ S <= n * D
<1> DEFINE T == {m \in Nat : S <= m * D}
<1>1. D \in Nat /\ 1 <= D /\ S \in Nat /\ 1 <= S
    OBVIOUS
<1>2. \A m \in Nat : m * D \in Nat /\ m <= m * D
  <2> TAKE m \in Nat
  <2>1. 1 * m <= D * m
      BY <1>1, MulMono
  <2> QED BY <1>1, <2>1
<1>3. S \in T
    BY <1>1, <1>2
<1>4. PICK n \in T : \A m \in T : <<m, n>> \notin OpToRel(<, Nat)
    BY <1>3, WFMin, NatLessThanWellFounded, Zenon
<1>5. \A m \in T : n <= m
  <2>1. ASSUME NEW m \in T PROVE n <= m
    <3>1. <<m, n>> \in Nat \X Nat /\ <<m, n>>[1] = m /\ <<m, n>>[2] = n
        OBVIOUS
    <3>2. ~(m < n)
        BY <1>4, <3>1, Zenon DEF OpToRel
    <3> QED BY <3>2
  <2> QED BY <2>1
<1>6. n \in Nat /\ S <= n * D /\ n # 0
  <2>1. n \in T
      BY <1>4, Zenon
  <2> QED BY <1>1, <2>1
<1>7. (n - 1) * D < S
  <2>1. n - 1 \in Nat /\ ~(n <= n - 1)
      BY <1>6
  <2>2. n - 1 \notin T
      BY <1>5, <2>1
  <2>3. (n - 1) * D \in Nat
      BY <1>2, <2>1
  <2> QED BY <1>1, <2>1, <2>2, <2>3
<1>8. \A k \in Nat \ {0} : (k - 1) * D < S <=> k <= n
  <2> TAKE k \in Nat \ {0}
  <2>1. k - 1 \in Nat /\ n - 1 \in Nat
      BY <1>6
  <2>2. (k - 1) * D \in Nat /\ (n - 1) * D \in Nat /\ n * D \in Nat
      BY <1>2, <1>6, <2>1
  <2>3. CASE k <= n
    <3>1. k - 1 <= n - 1
        BY <1>6, <2>3
    <3>2. (k - 1) * D <= (n - 1) * D
        BY <1>1, <2>1, <3>1, MulMono
    <3> QED BY <1>1, <1>7, <2>2, <2>3, <3>2
  <2>4. CASE n <= k - 1
    <3>1. n * D <= (k - 1) * D
        BY <1>1, <1>6, <2>1, <2>4, MulMono
    <3> QED BY <1>1, <1>6, <2>1, <2>2, <2>4, <3>1
  <2> QED BY <1>6, <2>3, <2>4
<1>9. n <= S
  <2>1. n - 1 <= (n - 1) * D /\ (n - 1) * D \in Nat /\ n - 1 \in Nat
      BY <1>2, <1>6
  <2> QED BY <1>1, <1>6, <1>7, <2>1
<1>10. \A k : k \in ChunksOf(S, D) <=> k \in 1..n
    BY <1>1, <1>6, <1>8, <1>9 DEF ChunksOf
<1> QED BY <1>6, <1>7, <1>10

(* A set of chunks covers the size in bytes exactly when it is all of them.*)
LEMMA CoverIsAll ==
    ASSUME NEW S \in Nat \ {0}, NEW D \in Nat \ {0}, NEW K \in SUBSET ChunksOf(S, D)
    PROVE  /\ IsFiniteSet(K)
           /\ D * Cardinality(K) >= S <=> K = ChunksOf(S, D)
<1>1. PICK n \in Nat : /\ ChunksOf(S, D) = 1..n /\ n # 0
                       /\ (n - 1) * D < S
                       /\ S <= n * D
    BY ChunksInterval
<1>2. IsFiniteSet(ChunksOf(S, D)) /\ Cardinality(ChunksOf(S, D)) = n
    BY <1>1, FS_Interval
<1>3. IsFiniteSet(K) /\ Cardinality(K) <= n /\ Cardinality(K) \in Nat
    BY <1>2, FS_Subset, FS_CardinalityType
<1>4. Cardinality(K) = n => K = ChunksOf(S, D)
    BY <1>2, FS_Subset
<1>5. D \in Nat /\ S \in Nat
    OBVIOUS
<1>6. CASE K = ChunksOf(S, D)
    BY <1>1, <1>2, <1>3, <1>5, <1>6
<1>7. CASE K # ChunksOf(S, D)
  <2>1. Cardinality(K) <= n - 1
      BY <1>1, <1>3, <1>4, <1>7
  <2>2. Cardinality(K) * D <= (n - 1) * D
      BY <1>1, <1>3, <1>5, <2>1, MulMono
  <2>3. D * Cardinality(K) < S
      BY <1>1, <1>3, <1>5, <2>2
  <2>4. D * Cardinality(K) \in Int
      BY <1>3, <1>5
  <2> QED BY <1>3, <1>5, <1>7, <2>3, <2>4
<1> QED BY <1>3, <1>6, <1>7

(* Of a times d bytes s are enough for a whole chunks.                     *)
LEMMA DivBound ==
    ASSUME NEW a \in Nat, NEW s \in Nat, NEW d \in Nat \ {0}, a * d <= s
    PROVE  a <= s \div d
<1>1. s \div d \in Nat /\ s < d * ((s \div d) + 1)
    OBVIOUS
<1>2. CASE s \div d + 1 <= a
  <2>1. (s \div d + 1) * d <= a * d
      BY <1>1, <1>2, MulMono
  <2> QED BY <1>1, <2>1
<1> QED BY <1>1, <1>2

(* There are at most as many chunks as there are whole ones, and one.      *)
LEMMA ChunkCount ==
    ASSUME NEW S \in Nat \ {0}, NEW D \in Nat \ {0}
    PROVE  /\ IsFiniteSet(ChunksOf(S, D)) /\ S \div D \in Nat
           /\ Cardinality(ChunksOf(S, D)) <= (S \div D) + 1
<1>1. PICK n \in Nat : ChunksOf(S, D) = 1..n /\ n # 0 /\ (n - 1) * D < S
    BY ChunksInterval
<1>2. IsFiniteSet(ChunksOf(S, D)) /\ Cardinality(ChunksOf(S, D)) = n
    BY <1>1, FS_Interval
<1>3. n - 1 <= S \div D
  <2>1. n - 1 \in Nat /\ (n - 1) * D <= S
      BY <1>1
  <2> QED BY <2>1, DivBound
<1>4. S \div D \in Nat
    OBVIOUS
<1> QED BY <1>2, <1>3, <1>4

(* Division with a rest.                                                   *)
LEMMA DivMod ==
    ASSUME NEW d \in Nat \ {0}
    PROVE  /\ \A a \in Nat : /\ a % d \in 0..(d - 1) /\ a \div d \in Nat
                             /\ a = (a \div d) * d + (a % d)
           /\ \A n \in Nat, r \in 0..(d - 1) : (n * d + r) % d = r
<1>1. ASSUME NEW a \in Nat
      PROVE  /\ a % d \in 0..(d - 1) /\ a \div d \in Nat
             /\ a = (a \div d) * d + (a % d)
  OBVIOUS
<1>2. ASSUME NEW n \in Nat, NEW r \in 0..(d - 1)
      PROVE  (n * d + r) % d = r
  OBVIOUS
<1>3. QED
  BY <1>1, <1>2

(* A buffer b of full segments of d bytes with the content c of a file of  *)
(* f bytes at its start; the segments with a one in byte k; the bytes of   *)
(* the file that are byte k of a segment and one.                          *)
Holds(b, c, f, d) ==
    \A j \in 1..(f + d - (f % d)) : b[j] = IF j <= Len(c) THEN c[j] ELSE 0
SegmentOnes(b, f, d, k) == {n \in 0..(f \div d) : b[n * d + k] = 1}
ByteOnes(c, d, k) == {j \in 1..Len(c) : (j - 1) % d = k - 1 /\ c[j] = 1}

(* What the sum counts of byte k of all segments is what the file has in   *)
(* its bytes k, k + d, and so on: the zeros behind the file count nothing, *)
(* and no byte is in two segments or in none.                              *)
LEMMA SegmentsAreTheBytes ==
    ASSUME NEW d \in Nat \ {0}, NEW f \in Nat, NEW c \in Seq({0, 1}), Len(c) <= f,
           NEW b, Holds(b, c, f, d), NEW k \in 1..d
    PROVE  Cardinality(SegmentOnes(b, f, d, k)) = Cardinality(ByteOnes(c, d, k))
<1> DEFINE N == {n \in 0..(f \div d) : b[n * d + k] = 1}
           J == {j \in 1..Len(c) : (j - 1) % d = k - 1 /\ c[j] = 1}
           g == [n \in N |-> n * d + k]
<1>1. /\ d \in Nat /\ f \div d \in Nat /\ f % d \in 0..(d - 1) /\ f = (f \div d) * d + (f % d)
      /\ Len(c) \in Nat
  <2>1. Len(c) \in Nat
    OBVIOUS
  <2>2. f % d \in 0..(d - 1) /\ f \div d \in Nat /\ f = (f \div d) * d + (f % d)
    BY DivMod
  <2>3. QED
    BY <2>1, <2>2
<1>2. ASSUME NEW n \in 0..(f \div d)
      PROVE  /\ n * d + k \in 1..(f + d - (f % d))
             /\ (n * d + k - 1) % d = k - 1
  <2>1. n \in Nat /\ n * d \in Nat /\ n * d <= (f \div d) * d /\ (f \div d) * d \in Nat
    BY <1>1, MulMono
  <2>2. n * d + k \in 1..(f + d - (f % d))
    BY <1>1, <2>1
  <2>3. k - 1 \in 0..(d - 1) /\ n * d + k - 1 = n * d + (k - 1)
    BY <2>1
  <2>4. QED
    BY <2>1, <2>2, <2>3, DivMod
<1>3. g \in [N -> J]
  <2>1. ASSUME NEW n \in N
        PROVE  n * d + k \in J
    <3>1. b[n * d + k] = 1 /\ n * d + k \in 1..(f + d - (f % d)) /\ (n * d + k - 1) % d = k - 1
      BY <1>2
    <3>2. n * d + k <= Len(c) /\ c[n * d + k] = 1
      BY <3>1 DEF Holds
    <3>3. n * d + k \in 1..Len(c)
      BY <1>1, <3>1, <3>2
    <3>4. QED
      BY <3>1, <3>2, <3>3
  <2>2. QED
    BY <2>1
<1>4. ASSUME NEW n \in N, NEW m \in N, g[n] = g[m]
      PROVE  n = m
  <2>1. n \in Nat /\ m \in Nat /\ n * d + k = m * d + k
    <3>1. n \in Nat /\ m \in Nat /\ g[n] = n * d + k /\ g[m] = m * d + k
      BY <1>1
    <3>2. QED
      BY <1>4, <3>1, Zenon
  <2>2. n * d = m * d
    <3>1. n * d \in Nat /\ m * d \in Nat
      BY <1>1, <2>1
    <3>2. QED
      BY <2>1, <3>1
  <2>3. QED
    BY <2>1, <2>2
<1>5. ASSUME NEW j \in J
      PROVE  \E n \in N : g[n] = j
  <2>1. j \in 1..Len(c) /\ (j - 1) % d = k - 1 /\ c[j] = 1
    OBVIOUS
  <2>2. PICK n \in Nat : n = (j - 1) \div d /\ j - 1 = n * d + (k - 1)
    <3>1. j - 1 \in Nat
      BY <1>1, <2>1
    <3>2. /\ (j - 1) \div d \in Nat
          /\ j - 1 = ((j - 1) \div d) * d + ((j - 1) % d)
      BY <3>1, DivMod
    <3>3. QED
      BY <2>1, <3>2
  <2>3. n * d + k = j /\ n * d <= f
    BY <1>1, <2>1, <2>2
  <2>4. n \in 0..(f \div d)
    <3>1. n <= f \div d
      BY <2>3, DivBound
    <3>2. QED
      BY <1>1, <3>1
  <2>5. b[n * d + k] = 1
    <3>1. j \in 1..(f + d - (f % d)) /\ j <= Len(c)
      BY <1>1, <1>2, <2>1, <2>3, <2>4
    <3>2. QED
      BY <2>1, <2>3, <3>1 DEF Holds
  <2>6. n \in N
    BY <2>4, <2>5
  <2>7. QED
    BY <2>3, <2>6
<1>6. IsFiniteSet(N)
  <2>1. 0 \in Int /\ f \div d \in Int
    BY <1>1
  <2>2. IsFiniteSet(0..(f \div d)) /\ N \subseteq 0..(f \div d)
    BY <2>1, FS_Interval
  <2>3. QED
    BY <2>2, FS_Subset
<1> HIDE DEF N, J, g
<1>7. ExistsBijection(N, J)
  <2>1. g \in Bijection(N, J)
    BY <1>3, <1>4, <1>5, Fun_IsBij
  <2>2. QED
    BY <2>1, Fun_ExistsBij
<1>8. Cardinality(N) = Cardinality(J)
  BY <1>6, <1>7, FS_Bijection
<1>9. QED
  BY <1>8 DEF N, J, SegmentOnes, ByteOnes
=============================================================================
