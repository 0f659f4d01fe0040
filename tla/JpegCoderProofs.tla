--------------------------- MODULE JpegCoderProofs ---------------------------
(***************************************************************************)
(* The x86 and the ARM build code every unit the same, and the picture is  *)
(* as close to the DCT's output as its quantiser allows, for any pictures, *)
(* any size of the bit buffer and any number of units.                     *)
(*                                                                         *)
(* The first is about runs of zeroes: the SSE2 build counts them in groups *)
(* of 16 places and carries them over.  The second is about division: a    *)
(* lane multiplies by a rounded reciprocal, whose error, after up to 16383 *)
(* multiples, must still be too small to reach the next level.             *)
(***************************************************************************)
EXTENDS JpegCoder, SequenceTheorems, WellFoundedInduction, TLAPS

-----------------------------------------------------------------------------
(* the two builds *)

\* Every set of naturals that is not empty has a least element.
LEMMA LeastNat ==
  ASSUME NEW T, T \subseteq Nat, T # {}
  PROVE  \E n \in T : \A m \in T : n <= m
<1> DEFINE R == OpToRel(<, Nat)
<1>1. IsWellFoundedOn(R, Nat)
  BY NatLessThanWellFounded
<1>2. \E n \in T : \A m \in T : <<m, n>> \notin R
  <2> HIDE DEF R
  <2> QED BY <1>1, WFMin
<1>3. \A m, n \in T : m < n => <<m, n>> \in R
  BY DEF OpToRel
<1>4. QED
  <2> HIDE DEF R
  <2>1. PICK n \in T : \A m \in T : <<m, n>> \notin R
    BY <1>2
  <2>2. \A m \in T : ~ (m < n)
    BY <1>3, <2>1
  <2>3. QED
    BY <2>2

\* And one that does not go beyond n a greatest.
LEMMA GreatestTo ==
  ASSUME NEW n \in Nat, NEW S, S \subseteq 0 .. n, S # {}
  PROVE  \E k \in S : \A j \in S : j <= k
<1> DEFINE T == {m \in 0 .. n : n - m \in S}
<1>1. T \subseteq Nat /\ \A k \in S : n - k \in T /\ k \in 0 .. n
  OBVIOUS
<1>2. PICK m \in T : \A i \in T : m <= i
  <2> HIDE DEF T
  <2> QED BY <1>1, LeastNat
<1>3. n - m \in S /\ m \in 0 .. n
  OBVIOUS
<1> HIDE DEF T
<1>4. \A j \in S : j <= n - m
  BY <1>1, <1>2, <1>3
<1>5. QED
  BY <1>3, <1>4

\* Place s starts the run of zeroes that ends before k.
StartsRun(ZDU, first, k, s) ==
    /\ \A j \in s .. k - 1 : ZDU[j] = 0
    /\ s = first \/ ZDU[s - 1] # 0

LEMMA RunExists ==
  ASSUME NEW ZDU, NEW first \in Nat, NEW k \in Nat, first <= k
  PROVE  \E s \in first .. k : StartsRun(ZDU, first, k, s)
<1> DEFINE T == {s \in first .. k : \A j \in s .. k - 1 : ZDU[j] = 0}
<1>1. T \subseteq Nat /\ k \in T
  OBVIOUS
<1>2. PICK s \in T : \A m \in T : s <= m
  <2> HIDE DEF T
  <2> QED BY <1>1, LeastNat
<1>3. CASE s = first
  BY <1>2, <1>3 DEF StartsRun
<1>4. CASE s # first
  <2>1. s - 1 \in first .. k /\ s - 1 \notin T
    BY <1>2, <1>4
  <2>2. PICK j \in s - 1 .. k - 1 : ZDU[j] # 0
    BY <2>1
  <2>3. j = s - 1
    BY <1>2, <2>2
  <2>4. QED
    BY <1>2, <2>2, <2>3 DEF StartsRun
<1>5. QED
  BY <1>3, <1>4

\* There is one such place.
LEMMA RunStartIs ==
  ASSUME NEW ZDU, NEW first \in Nat, NEW k \in Nat, NEW s \in first .. k,
         StartsRun(ZDU, first, k, s)
  PROVE  RunStart(ZDU, first, k) = s
<1>1. ASSUME NEW t \in first .. k, StartsRun(ZDU, first, k, t), s < t PROVE FALSE
  <2>1. t - 1 \in s .. k - 1 /\ t # first
    BY <1>1
  <2>2. QED
    BY <1>1, <2>1 DEF StartsRun
<1>2. ASSUME NEW t \in first .. k, StartsRun(ZDU, first, k, t), t < s PROVE FALSE
  <2>1. s - 1 \in t .. k - 1 /\ s # first
    BY <1>2
  <2>2. QED
    BY <1>2, <2>1 DEF StartsRun
<1>3. \A t \in first .. k : StartsRun(ZDU, first, k, t) => t = s
  BY <1>1, <1>2
<1>4. RunStart(ZDU, first, k) = CHOOSE t \in first .. k : StartsRun(ZDU, first, k, t)
  BY DEF RunStart, StartsRun
<1>5. QED
  BY <1>3, <1>4

LEMMA RunStartStarts ==
  ASSUME NEW ZDU, NEW first \in Nat, NEW k \in Nat, first <= k
  PROVE  RunStart(ZDU, first, k) \in first .. k /\ StartsRun(ZDU, first, k, RunStart(ZDU, first, k))
<1>1. PICK s \in first .. k : StartsRun(ZDU, first, k, s)
  BY RunExists
<1>2. QED
  BY <1>1, RunStartIs

\* With the zeroes before a group carried into it, the run is the same as without
\* groups.
LEMMA CarriedRun ==
  ASSUME NEW ZDU, NEW mid \in Nat, NEW k \in Nat, 1 <= mid, mid <= k, NEW carried,
         carried = mid - RunStart(ZDU, 1, mid)
  PROVE  GroupZeroes(ZDU, mid, carried, k) = k - RunStart(ZDU, 1, k)
<1> DEFINE s == RunStart(ZDU, mid, k)
           t == RunStart(ZDU, 1, mid)
<1>1. /\ s \in mid .. k /\ StartsRun(ZDU, mid, k, s)
      /\ t \in 1 .. mid /\ StartsRun(ZDU, 1, mid, t)
  BY RunStartStarts
<1>2. GroupZeroes(ZDU, mid, carried, k) = k - s + IF s = mid THEN carried ELSE 0
  BY DEF GroupZeroes
<1>3. carried = mid - t
  OBVIOUS
<1> HIDE DEF s, t
<1>4. CASE s = mid
  <2>1. t \in 1 .. k /\ StartsRun(ZDU, 1, k, t)
    BY <1>1, <1>4 DEF StartsRun
  <2>2. RunStart(ZDU, 1, k) = t
    BY <2>1, RunStartIs
  <2>3. QED
    BY <1>1, <1>2, <1>3, <1>4, <2>2
<1>5. CASE s # mid
  <2>1. s \in 1 .. k /\ StartsRun(ZDU, 1, k, s)
    BY <1>1, <1>5 DEF StartsRun
  <2>2. RunStart(ZDU, 1, k) = s
    BY <2>1, RunStartIs
  <2>3. QED
    BY <1>1, <1>2, <1>5, <2>2
<1>6. QED
  BY <1>4, <1>5

\* The first group has no zeroes before it.
LEMMA FirstRun ==
  ASSUME NEW ZDU, NEW k \in Nat, 1 <= k
  PROVE  GroupZeroes(ZDU, 1, 0, k) = k - RunStart(ZDU, 1, k)
<1> DEFINE s == RunStart(ZDU, 1, k)
<1>1. s \in 1 .. k
  BY RunStartStarts
<1>2. GroupZeroes(ZDU, 1, 0, k) = k - s + IF s = 1 THEN 0 ELSE 0
  BY DEF GroupZeroes
<1> HIDE DEF s
<1>3. GroupZeroes(ZDU, 1, 0, k) = k - s
  BY <1>1, <1>2
<1>4. QED
  BY <1>3 DEF s

\* process_DU of both builds (jpeg_enc.c, Optimize_SSE2.h) writes the same codes
\* for every block and any Huffman tables: the masks of the SSE2 version find the
\* coefficients and the runs that the loop of the portable one does.
THEOREM SameCodes ==
  ASSUME NEW ZDU, NEW diff, NEW HT
  PROVE  ProcessDU(ZDU, diff, HT) = ProcessPlain(ZDU, diff, HT)
<1> DEFINE to16 == GroupZeroes(ZDU, 1, 0, 16)
           to32 == GroupZeroes(ZDU, 16, to16, 32)
           to48 == GroupZeroes(ZDU, 32, to32, 48)
           zeroes(k) == CASE k < 16 -> GroupZeroes(ZDU, 1, 0, k)
                          [] k \in 16 .. 31 -> GroupZeroes(ZDU, 16, to16, k)
                          [] k \in 32 .. 47 -> GroupZeroes(ZDU, 32, to32, k)
                          [] k >= 48 -> GroupZeroes(ZDU, 48, to48, k)
           end0pos == IF \A k \in 1 .. 63 : ZDU[k] = 0 THEN 0
                      ELSE CHOOSE k \in 1 .. 63 : ZDU[k] # 0 /\ \A j \in k + 1 .. 63 : ZDU[j] = 0
           plain == [k \in 1 .. 63 |-> k - RunStart(ZDU, 1, k)]
           grouped == [k \in 1 .. 63 |-> zeroes(k)]
<1>1. to16 = 16 - RunStart(ZDU, 1, 16)
  BY FirstRun
<1>2. to32 = 32 - RunStart(ZDU, 1, 32)
  <2> HIDE DEF to16
  <2> QED BY <1>1, CarriedRun
<1>3. to48 = 48 - RunStart(ZDU, 1, 48)
  <2> HIDE DEF to32
  <2> QED BY <1>2, CarriedRun
<1>4. ASSUME NEW k \in 1 .. 63 PROVE zeroes(k) = k - RunStart(ZDU, 1, k)
  <2> HIDE DEF to16, to32, to48
  <2>1. CASE k < 16
    <3>1. zeroes(k) = GroupZeroes(ZDU, 1, 0, k)
      BY <2>1
    <3>2. QED
      BY <3>1, FirstRun
  <2>2. CASE k \in 16 .. 31
    <3>1. zeroes(k) = GroupZeroes(ZDU, 16, to16, k)
      BY <2>2
    <3>2. QED
      BY <1>1, <2>2, <3>1, CarriedRun
  <2>3. CASE k \in 32 .. 47
    <3>1. zeroes(k) = GroupZeroes(ZDU, 32, to32, k)
      BY <2>3
    <3>2. QED
      BY <1>2, <2>3, <3>1, CarriedRun
  <2>4. CASE k >= 48
    <3>1. zeroes(k) = GroupZeroes(ZDU, 48, to48, k)
      BY <2>4
    <3>2. QED
      BY <1>3, <2>4, <3>1, CarriedRun
  <2>5. QED
    BY <2>1, <2>2, <2>3, <2>4
<1>5. grouped = plain
  <2> HIDE DEF zeroes
  <2> QED BY <1>4
<1>6. end0pos = 63 <=> ZDU[63] # 0
  <2>1. CASE ZDU[63] # 0
    <3> DEFINE Ends(k) == ZDU[k] # 0 /\ \A j \in k + 1 .. 63 : ZDU[j] = 0
    <3>1. Ends(63) /\ \A k \in 1 .. 63 : Ends(k) => k = 63
      BY <2>1
    <3>2. end0pos = CHOOSE k \in 1 .. 63 : Ends(k)
      BY <2>1
    <3> HIDE DEF end0pos, Ends
    <3>3. QED
      BY <2>1, <3>1, <3>2
  <2>2. CASE ZDU[63] = 0
    <3> SUFFICES ASSUME end0pos = 63, ~ \A k \in 1 .. 63 : ZDU[k] = 0 PROVE FALSE
      BY <2>2
    <3> DEFINE S == {k \in 1 .. 63 : ZDU[k] # 0}
    <3>1. S # {} /\ S \subseteq 0 .. 63
      OBVIOUS
    <3>2. PICK k \in S : \A j \in S : j <= k
      <4> HIDE DEF S
      <4> QED BY <3>1, GreatestTo
    <3>3. k \in 1 .. 63 /\ ZDU[k] # 0
      OBVIOUS
    <3>4. \A j \in k + 1 .. 63 : ZDU[j] = 0
      BY <3>2
    <3>5. ZDU[end0pos] # 0
      BY <3>3, <3>4
    <3>6. QED
      BY <2>2, <3>5
  <2>3. QED
    BY <2>1, <2>2
<1> HIDE DEF plain, end0pos, grouped
<1>7. ProcessDU(ZDU, diff, HT) =
         CodeDC(diff, HT) \o CodeRuns(ZDU, grouped, HT)
            \o IF ZDU[63] = 0 THEN <<HT.AC[EOB]>> ELSE <<>>
  BY DEF ProcessDU, grouped
<1>8. ProcessPlain(ZDU, diff, HT) =
         CodeDC(diff, HT) \o CodeRuns(ZDU, plain, HT)
            \o IF end0pos = 63 THEN <<>> ELSE <<HT.AC[EOB]>>
  BY DEF ProcessPlain, plain, end0pos
<1>9. QED
  BY <1>5, <1>6, <1>7, <1>8

LEMMA SameSamples ==
  ASSUME NEW byte \in 0 .. 255, NEW lane \in Nat
  PROVE  Sample(byte, lane) = SamplePlain(byte)
<1>1. 2 ^ (8 - 1) = 128 /\ 2 ^ 8 = 256 /\ 2 ^ (16 - 1) = 32768 /\ 2 ^ 16 = 65536
  OBVIOUS
<1> DEFINE low == lane % 2
<1>2. low \in {0, 1}
  OBVIOUS
<1>3. /\ SamplePlain(byte) = IF (byte + 128) % 256 < 128
                             THEN (byte + 128) % 256 ELSE ((byte + 128) % 256) - 256
      /\ Sample(byte, lane) =
            (IF (256 * byte + 128 * low + 32768) % 65536 < 32768
             THEN (256 * byte + 128 * low + 32768) % 65536
             ELSE ((256 * byte + 128 * low + 32768) % 65536) - 65536) \div 256
  BY <1>1 DEF Sample, SamplePlain, Signed
<1> HIDE DEF low
<1>4. QED
  BY <1>2, <1>3

\* x86 and ARM write the same codes and load the same samples (the SSE2 functions
\* and the ones they replace), in every state of every scan.
THEOREM BuildsAgree == Spec => []SameOnBothBuilds
<1>1. \A byte \in 0 .. 255, lane \in 0 .. 7 : Sample(byte, lane) = SamplePlain(byte)
  BY SameSamples
<1>2. \A ZDU, HT : ProcessDU(ZDU, ZDU[0], HT) = ProcessPlain(ZDU, ZDU[0], HT)
  BY SameCodes
<1>3. SameOnBothBuilds
  BY <1>1, <1>2 DEF SameOnBothBuilds
<1>4. QED
  BY <1>3, PTL

-----------------------------------------------------------------------------
(* quotients, and multiplication by a reciprocal *)

\* What a quotient is.
LEMMA Quotient ==
  ASSUME NEW a \in Nat, NEW d \in Nat \ {0}
  PROVE  /\ a \div d \in Nat /\ a % d \in 0 .. d - 1
         /\ a = (a \div d) * d + (a % d)
OBVIOUS

LEMMA IsQuotient ==
  ASSUME NEW a \in Nat, NEW d \in Nat \ {0}, NEW n \in Nat, n * d <= a, a < (n + 1) * d
  PROVE  a \div d = n
<1> DEFINE m == a \div d
<1>1. m \in Nat /\ m * d <= a /\ a < (m + 1) * d
  BY Quotient
<1> HIDE DEF m
<1>2. ASSUME m < n PROVE FALSE
  <2>1. m + 1 <= n
    BY <1>1, <1>2
  <2>2. (m + 1) * d <= n * d
    BY <1>1, <2>1
  <2>3. QED
    BY <1>1, <2>2
<1>3. ASSUME n < m PROVE FALSE
  <2>1. n + 1 <= m
    BY <1>1, <1>3
  <2>2. (n + 1) * d <= m * d
    BY <1>1, <2>1
  <2>3. QED
    BY <1>1, <2>2
<1>4. QED
  BY <1>1, <1>2, <1>3 DEF m

\* A reciprocal that is a little too small, and one that is a little too large.
LEMMA TooSmall ==
  ASSUME NEW P \in Nat \ {0}, NEW d \in Nat \ {0}, NEW y \in Nat, NEW recip \in Nat,
         NEW e \in Nat \ {0}, recip * d = P - e,
         NEW n \in Nat, n * d < y, y <= (n + 1) * d, y * e <= P
  PROVE  (y * recip) \div P = n
<1> DEFINE T == y * recip
           Y == y * P
           E == y * e
           N == n * d
<1>1. T \in Nat /\ Y \in Nat /\ E \in Nat /\ N \in Nat /\ E > 0 /\ E <= P
  OBVIOUS
<1>2. T * d = Y - E
  <2>1. T * d = y * (recip * d)
    OBVIOUS
  <2>2. y * (P - e) = y * P - y * e
    OBVIOUS
  <2>3. QED
    BY <2>1, <2>2
<1>3. (N + 1) * P <= Y
  <2>1. N + 1 <= y
    BY <1>1
  <2>2. \A i, j, k \in Nat : i <= j => i * k <= j * k
    OBVIOUS
  <2> HIDE DEF N
  <2>3. QED
    BY <1>1, <2>1, <2>2
<1>4. Y <= (N + d) * P
  <2>1. y <= N + d
    OBVIOUS
  <2>2. \A i, j, k \in Nat : i <= j => i * k <= j * k
    OBVIOUS
  <2> HIDE DEF N
  <2>3. QED
    BY <1>1, <2>1, <2>2
<1>5. /\ (N + 1) * P = (n * P) * d + P
      /\ (N + d) * P = ((n + 1) * P) * d
  OBVIOUS
<1> DEFINE L == n * P
           H == (n + 1) * P
<1>6. L \in Nat /\ H \in Nat
  OBVIOUS
<1> HIDE DEF T, Y, E, N, L, H
<1>7. L * d <= T * d /\ T * d < H * d
  BY <1>1, <1>2, <1>3, <1>4, <1>5 DEF L, H
<1>8. L <= T /\ T < H
  <2>1. \A i, j, k \in Nat : i <= j => i * k <= j * k
    OBVIOUS
  <2>2. QED
    BY <1>1, <1>6, <1>7, <2>1
<1>9. QED
  BY <1>1, <1>8, IsQuotient DEF T, L, H

LEMMA TooLarge ==
  ASSUME NEW P \in Nat \ {0}, NEW d \in Nat \ {0}, NEW y \in Nat, NEW recip \in Nat,
         NEW e \in Nat, recip * d = P + e,
         NEW n \in Nat, n * d <= y, y < (n + 1) * d, y * e < P
  PROVE  (y * recip) \div P = n
<1> DEFINE T == y * recip
           Y == y * P
           E == y * e
           N == n * d
<1>1. T \in Nat /\ Y \in Nat /\ E \in Nat /\ N \in Nat /\ E < P
  OBVIOUS
<1>2. T * d = Y + E
  <2>1. T * d = y * (recip * d)
    OBVIOUS
  <2>2. y * (P + e) = y * P + y * e
    OBVIOUS
  <2>3. QED
    BY <2>1, <2>2
<1>3. N * P <= Y
  <2>1. N <= y
    BY <1>1
  <2>2. \A i, j, k \in Nat : i <= j => i * k <= j * k
    OBVIOUS
  <2> HIDE DEF N
  <2>3. QED
    BY <1>1, <2>1, <2>2
<1>4. Y + P <= (N + d) * P
  <2>1. y + 1 <= N + d
    OBVIOUS
  <2>2. \A i, j, k \in Nat : i <= j => i * k <= j * k
    OBVIOUS
  <2>3. (y + 1) * P <= (N + d) * P
    <3> HIDE DEF N
    <3> QED BY <1>1, <2>1, <2>2
  <2>4. (y + 1) * P = Y + P
    OBVIOUS
  <2>5. QED
    BY <2>3, <2>4
<1>5. /\ N * P = (n * P) * d
      /\ (N + d) * P = ((n + 1) * P) * d
  OBVIOUS
<1> DEFINE L == n * P
           H == (n + 1) * P
<1>6. L \in Nat /\ H \in Nat
  OBVIOUS
<1> HIDE DEF T, Y, E, N, L, H
<1>7. L * d <= T * d /\ T * d < H * d
  BY <1>1, <1>2, <1>3, <1>4, <1>5 DEF L, H
<1>8. L <= T /\ T < H
  <2>1. \A i, j, k \in Nat : i <= j => i * k <= j * k
    OBVIOUS
  <2>2. QED
    BY <1>1, <1>6, <1>7, <2>1
<1>9. QED
  BY <1>1, <1>8, IsQuotient DEF T, L, H

-----------------------------------------------------------------------------
(* the reciprocal of a divisor: compute_reciprocal *)

\* The powers of two as a function, which the provers can apply to what is not a
\* number.
Power == [k \in 0 .. 27 |-> 2 ^ k]

LEMMA Powers ==
  /\ Power[0] = 1 /\ Power[1] = 2 /\ Power[2] = 4 /\ Power[3] = 8 /\ Power[4] = 16
  /\ Power[5] = 32 /\ Power[6] = 64 /\ Power[7] = 128 /\ Power[8] = 256 /\ Power[9] = 512
  /\ Power[10] = 1024 /\ Power[11] = 2048 /\ Power[12] = 4096 /\ Power[13] = 8192
  /\ Power[14] = 16384 /\ Power[15] = 32768 /\ Power[16] = 65536
BY DEF Power

LEMMA IsPower == ASSUME NEW k \in 0 .. 27 PROVE 2 ^ k = Power[k]
BY DEF Power

\* flss
LEMMA CategoryIs ==
  ASSUME NEW c \in 1 .. 16, NEW n \in Nat, Power[c - 1] <= n, n < Power[c]
  PROVE  Category(n) = c
<1> DEFINE Fits(k) == n < 2 ^ k /\ (k = 0 \/ n >= 2 ^ (k - 1))
<1>1. \A k \in 0 .. 16 : k = 0 \/ k - 1 \in 0 .. 27
  OBVIOUS
<1>2. ASSUME NEW k \in 0 .. 16
      PROVE  Fits(k) <=> n < Power[k] /\ (k = 0 \/ n >= Power[k - 1])
  <2>1. 2 ^ k = Power[k]
    <3>1. k \in 0 .. 27
      OBVIOUS
    <3>2. QED
      BY <3>1, IsPower
  <2>2. CASE k = 0
    BY <2>1, <2>2
  <2>3. CASE k # 0
    <3>1. 2 ^ (k - 1) = Power[k - 1]
      <4> DEFINE j == k - 1
      <4>1. j \in 0 .. 27
        BY <2>3
      <4> HIDE DEF j
      <4>2. 2 ^ j = Power[j]
        BY <4>1, IsPower
      <4>3. QED
        BY <4>2 DEF j
    <3>2. QED
      BY <2>1, <2>3, <3>1
  <2>4. QED
    BY <2>2, <2>3
<1>3. Category(n) = CHOOSE k \in 0 .. 16 : Fits(k)
  BY DEF Category
<1> HIDE DEF Fits
<1>4. \A k \in 0 .. 16 : Power[k] \in Nat
  BY Powers
<1>5. \A k \in 0 .. 15 : Power[k] <= Power[k + 1]
  BY Powers
<1>6. \A k, j \in 0 .. 16 : k <= j => Power[k] <= Power[j]
  BY Powers
<1>7. \A k \in 0 .. 16 : Fits(k) => k = c
  <2> SUFFICES ASSUME NEW k \in 0 .. 16, Fits(k) PROVE k = c
    OBVIOUS
  <2>1. CASE k < c
    <3>1. k <= c - 1 /\ c - 1 \in 0 .. 16
      BY <2>1
    <3>2. Power[k] <= Power[c - 1] /\ n < Power[k]
      BY <1>2, <1>6, <3>1
    <3>3. QED
      BY <1>4, <3>1, <3>2
  <2>2. CASE c < k
    <3>1. c <= k - 1 /\ k - 1 \in 0 .. 16
      BY <2>2
    <3>2. Power[c] <= Power[k - 1] /\ n >= Power[k - 1]
      BY <1>2, <1>6, <2>2, <3>1
    <3>3. QED
      BY <1>4, <3>1, <3>2
  <2>3. QED
    BY <2>1, <2>2
<1>8. Fits(c)
  BY <1>2
<1>9. QED
  BY <1>3, <1>7, <1>8

\* The highest bits of the divisors.
Sizes == {2, 4, 8, 16, 32, 64, 128, 256, 512, 1024, 2048}

\* compute_reciprocal of a divisor whose highest bit is M.
Reciprocal(d, M) ==
    LET fq == (65536 * M) \div d
        fr == (65536 * M) % d
        c  == d \div 2
        Fields(f, corr, scale) ==
            [reciprocal |-> f % 65536, correction |-> corr, scale |-> scale % 65536]
    IN  IF fr = 0 THEN Fields(fq \div 2, c, 131072 \div M)
        ELSE IF fr <= c THEN Fields(fq, c + 1, 65536 \div M)
        ELSE Fields(fq + 1, c, 65536 \div M)

LEMMA ReciprocalIs ==
  ASSUME NEW d \in Nat, 3 <= d, d <= 4095
  PROVE  \E M \in Sizes : M <= d /\ d < 2 * M /\ compute_reciprocal(d) = Reciprocal(d, M)
<1> DEFINE Found == \E M \in Sizes : M <= d /\ d < 2 * M /\ compute_reciprocal(d) = Reciprocal(d, M)
<1>1. 2 <= d /\ d <= 3 => Found
  <2> SUFFICES ASSUME 2 <= d, d <= 3 PROVE Found
    OBVIOUS
  <2>1. Power[1] = 2 /\ Power[2] = 4
    BY Powers
  <2>2. Category(d) = 2
    BY <2>1, CategoryIs
  <2>3. compute_reciprocal(d) = Reciprocal(d, 2)
    BY <2>2 DEF compute_reciprocal, Reciprocal
  <2>4. QED
    BY <2>3 DEF Sizes, Found
<1>2. 4 <= d /\ d <= 7 => Found
  <2> SUFFICES ASSUME 4 <= d, d <= 7 PROVE Found
    OBVIOUS
  <2>1. Power[2] = 4 /\ Power[3] = 8
    BY Powers
  <2>2. Category(d) = 3
    BY <2>1, CategoryIs
  <2>3. compute_reciprocal(d) = Reciprocal(d, 4)
    BY <2>2 DEF compute_reciprocal, Reciprocal
  <2>4. QED
    BY <2>3 DEF Sizes, Found
<1>3. 8 <= d /\ d <= 15 => Found
  <2> SUFFICES ASSUME 8 <= d, d <= 15 PROVE Found
    OBVIOUS
  <2>1. Power[3] = 8 /\ Power[4] = 16
    BY Powers
  <2>2. Category(d) = 4
    BY <2>1, CategoryIs
  <2>3. compute_reciprocal(d) = Reciprocal(d, 8)
    BY <2>2 DEF compute_reciprocal, Reciprocal
  <2>4. QED
    BY <2>3 DEF Sizes, Found
<1>4. 16 <= d /\ d <= 31 => Found
  <2> SUFFICES ASSUME 16 <= d, d <= 31 PROVE Found
    OBVIOUS
  <2>1. Power[4] = 16 /\ Power[5] = 32
    BY Powers
  <2>2. Category(d) = 5
    BY <2>1, CategoryIs
  <2>3. compute_reciprocal(d) = Reciprocal(d, 16)
    BY <2>2 DEF compute_reciprocal, Reciprocal
  <2>4. QED
    BY <2>3 DEF Sizes, Found
<1>5. 32 <= d /\ d <= 63 => Found
  <2> SUFFICES ASSUME 32 <= d, d <= 63 PROVE Found
    OBVIOUS
  <2>1. Power[5] = 32 /\ Power[6] = 64
    BY Powers
  <2>2. Category(d) = 6
    BY <2>1, CategoryIs
  <2>3. compute_reciprocal(d) = Reciprocal(d, 32)
    BY <2>2 DEF compute_reciprocal, Reciprocal
  <2>4. QED
    BY <2>3 DEF Sizes, Found
<1>6. 64 <= d /\ d <= 127 => Found
  <2> SUFFICES ASSUME 64 <= d, d <= 127 PROVE Found
    OBVIOUS
  <2>1. Power[6] = 64 /\ Power[7] = 128
    BY Powers
  <2>2. Category(d) = 7
    BY <2>1, CategoryIs
  <2>3. compute_reciprocal(d) = Reciprocal(d, 64)
    BY <2>2 DEF compute_reciprocal, Reciprocal
  <2>4. QED
    BY <2>3 DEF Sizes, Found
<1>7. 128 <= d /\ d <= 255 => Found
  <2> SUFFICES ASSUME 128 <= d, d <= 255 PROVE Found
    OBVIOUS
  <2>1. Power[7] = 128 /\ Power[8] = 256
    BY Powers
  <2>2. Category(d) = 8
    BY <2>1, CategoryIs
  <2>3. compute_reciprocal(d) = Reciprocal(d, 128)
    BY <2>2 DEF compute_reciprocal, Reciprocal
  <2>4. QED
    BY <2>3 DEF Sizes, Found
<1>8. 256 <= d /\ d <= 511 => Found
  <2> SUFFICES ASSUME 256 <= d, d <= 511 PROVE Found
    OBVIOUS
  <2>1. Power[8] = 256 /\ Power[9] = 512
    BY Powers
  <2>2. Category(d) = 9
    BY <2>1, CategoryIs
  <2>3. compute_reciprocal(d) = Reciprocal(d, 256)
    BY <2>2 DEF compute_reciprocal, Reciprocal
  <2>4. QED
    BY <2>3 DEF Sizes, Found
<1>9. 512 <= d /\ d <= 1023 => Found
  <2> SUFFICES ASSUME 512 <= d, d <= 1023 PROVE Found
    OBVIOUS
  <2>1. Power[9] = 512 /\ Power[10] = 1024
    BY Powers
  <2>2. Category(d) = 10
    BY <2>1, CategoryIs
  <2>3. compute_reciprocal(d) = Reciprocal(d, 512)
    BY <2>2 DEF compute_reciprocal, Reciprocal
  <2>4. QED
    BY <2>3 DEF Sizes, Found
<1>10. 1024 <= d /\ d <= 2047 => Found
  <2> SUFFICES ASSUME 1024 <= d, d <= 2047 PROVE Found
    OBVIOUS
  <2>1. Power[10] = 1024 /\ Power[11] = 2048
    BY Powers
  <2>2. Category(d) = 11
    BY <2>1, CategoryIs
  <2>3. compute_reciprocal(d) = Reciprocal(d, 1024)
    BY <2>2 DEF compute_reciprocal, Reciprocal
  <2>4. QED
    BY <2>3 DEF Sizes, Found
<1>11. 2048 <= d /\ d <= 4095 => Found
  <2> SUFFICES ASSUME 2048 <= d, d <= 4095 PROVE Found
    OBVIOUS
  <2>1. Power[11] = 2048 /\ Power[12] = 4096
    BY Powers
  <2>2. Category(d) = 12
    BY <2>1, CategoryIs
  <2>3. compute_reciprocal(d) = Reciprocal(d, 2048)
    BY <2>2 DEF compute_reciprocal, Reciprocal
  <2>4. QED
    BY <2>3 DEF Sizes, Found
<1> HIDE DEF Found
<1>12. Found
  BY <1>1, <1>2, <1>3, <1>4, <1>5, <1>6, <1>7, <1>8, <1>9, <1>10, <1>11
<1>13. QED
  BY <1>12 DEF Found

\* The whole quotient of y by d.
Floor(n, d, y) == n * d <= y /\ y < (n + 1) * d

LEMMA FloorOf ==
  ASSUME NEW y \in Nat, NEW d \in Nat \ {0}
  PROVE  y \div d \in Nat /\ Floor(y \div d, d, y)
<1> DEFINE n == y \div d
           r == y % d
<1>1. n \in Nat /\ r \in 0 .. d - 1 /\ y = n * d + r
  BY Quotient
<1> HIDE DEF n, r
<1>2. (n + 1) * d = n * d + d /\ n * d \in Nat
  BY <1>1
<1>3. Floor(n, d, y)
  BY <1>1, <1>2 DEF Floor
<1>4. QED
  BY <1>1, <1>3 DEF n
\* Two divisions by 65536, with a scale between, are one.
Scales(K, M) == K * M = 65536
Shifted(T, K) == ((T \div 65536) * K) \div 65536

LEMMA TwoShifts ==
  ASSUME NEW T \in Nat, NEW M \in Nat \ {0}, NEW K \in Nat, Scales(K, M),
         NEW P \in Nat \ {0}, P = 65536 * M
  PROVE  Shifted(T, K) = T \div P
<1>0. K * M = 65536
  BY DEF Scales
<1> DEFINE u == T \div 65536
           v == u \div M
<1>1. u \in Nat /\ u * 65536 <= T /\ T < (u + 1) * 65536
  OBVIOUS
<1> HIDE DEF u
<1>2. v \in Nat /\ Floor(v, M, u)
  BY <1>1, FloorOf
<1> HIDE DEF v
<1>3. v * M <= u /\ u < (v + 1) * M
  BY <1>2 DEF Floor
<1>4. (u * K) \div 65536 = v
  <2>1. K > 0
    BY <1>0
  <2>2. \A i, j \in Nat : i <= j => i * K <= j * K
    BY <2>1
  <2>3. \A i, j \in Nat : i < j => i * K < j * K
    BY <2>1
  <2>4. (v * M) * K <= u * K
    BY <1>1, <1>2, <1>3, <2>2
  <2>5. u * K < ((v + 1) * M) * K
    BY <1>1, <1>2, <1>3, <2>3
  <2>6. (v * M) * K = v * 65536 /\ ((v + 1) * M) * K = (v + 1) * 65536
    <3>1. \A i \in Nat : (i * M) * K = i * (K * M)
      OBVIOUS
    <3>2. QED
      BY <1>0, <1>2, <3>1
  <2> DEFINE w == u * K
  <2>7. w \in Nat /\ v * 65536 <= w /\ w < (v + 1) * 65536
    BY <1>1, <2>4, <2>5, <2>6
  <2> HIDE DEF w
  <2>8. 65536 \in Nat \ {0}
    OBVIOUS
  <2>9. w \div 65536 = v
    BY <1>2, <2>7, <2>8, IsQuotient
  <2>10. QED
    BY <2>9 DEF w
<1>5. T \div P = v
  <2>1. v * P = 65536 * (v * M)
    BY <1>2
  <2>2. (v + 1) * P = 65536 * ((v + 1) * M)
    BY <1>2
  <2>3. v * P <= T
    <3> DEFINE w == v * M
    <3>1. w \in Nat /\ w <= u
      BY <1>2, <1>3
    <3> HIDE DEF w
    <3>2. 65536 * w <= T
      BY <1>1, <3>1
    <3>3. QED
      BY <2>1, <3>2 DEF w
  <2>4. T < (v + 1) * P
    <3> DEFINE w == (v + 1) * M
    <3>1. w \in Nat /\ u < w
      BY <1>2, <1>3
    <3> HIDE DEF w
    <3>2. T < 65536 * w
      BY <1>1, <3>1
    <3>3. QED
      BY <2>2, <3>2 DEF w
  <2>5. QED
    BY ONLY <1>2, <2>3, <2>4, T \in Nat, P \in Nat \ {0}, IsQuotient
<1>6. QED
  BY <1>4, <1>5 DEF u, Shifted

\* What is left of an even number is even.
LEMMA EvenRest ==
  ASSUME NEW z \in Nat, NEW d \in Nat, NEW N \in Nat, 2 * z + d = 2 * N
  PROVE  N - z \in Nat /\ d = 2 * (N - z)
OBVIOUS

\* An odd number divides a multiple of 16 only by a multiple of 16.
Odd(f) == f % 2 = 1
Doubles(f, d, N) == f * d = 2 * N
HasHalf(f, d, N) == \E e \in Nat : d = 2 * e /\ f * e = N
SixteenTimes(f, d, N) == f * d = 16 * N
HasSixteenth(f, d, N) == \E e \in Nat : d = 16 * e /\ f * e = N

LEMMA OddHalf ==
  ASSUME NEW f \in Nat, Odd(f), NEW d \in Nat, NEW N \in Nat, Doubles(f, d, N)
  PROVE  HasHalf(f, d, N)
<1> DEFINE a == f \div 2
<1>1. a \in Nat /\ f = 2 * a + 1
  BY DEF Odd
<1> HIDE DEF a
<1> DEFINE z == a * d
<1>2. z \in Nat /\ 2 * z + d = 2 * N
  BY <1>1 DEF Doubles
<1> HIDE DEF z
<1> DEFINE e == N - z
<1>3. e \in Nat /\ d = 2 * e
  BY <1>2, EvenRest
<1> HIDE DEF e
<1>4. f * e \in Nat /\ f * d = 2 * (f * e)
  BY <1>3
<1>5. f * e = N
  BY <1>4 DEF Doubles
<1>6. QED
  BY <1>3, <1>5 DEF HasHalf

LEMMA OddSixteenth ==
  ASSUME NEW f \in Nat, Odd(f), NEW d \in Nat, NEW N \in Nat, SixteenTimes(f, d, N)
  PROVE  HasSixteenth(f, d, N)
<1> DEFINE N1 == 2 * N
           N2 == 2 * N1
           N3 == 2 * N2
<1>1. N1 \in Nat /\ N2 \in Nat /\ N3 \in Nat /\ Doubles(f, d, N3)
  BY DEF Doubles, SixteenTimes
<1>2. N3 = 2 * N2 /\ N2 = 2 * N1 /\ N1 = 2 * N
  OBVIOUS
<1> HIDE DEF N1, N2, N3
<1>3. PICK e1 \in Nat : d = 2 * e1 /\ f * e1 = N3
  <2>1. HasHalf(f, d, N3)
    BY <1>1, OddHalf
  <2>2. QED
    BY <2>1 DEF HasHalf
<1>4. Doubles(f, e1, N2)
  BY <1>2, <1>3 DEF Doubles
<1>5. PICK e2 \in Nat : e1 = 2 * e2 /\ f * e2 = N2
  <2>1. HasHalf(f, e1, N2)
    BY <1>1, <1>4, OddHalf
  <2>2. QED
    BY <2>1 DEF HasHalf
<1>6. Doubles(f, e2, N1)
  BY <1>2, <1>5 DEF Doubles
<1>7. PICK e3 \in Nat : e2 = 2 * e3 /\ f * e3 = N1
  <2>1. HasHalf(f, e2, N1)
    BY <1>1, <1>6, OddHalf
  <2>2. QED
    BY <2>1 DEF HasHalf
<1>8. Doubles(f, e3, N)
  BY <1>2, <1>7 DEF Doubles
<1>9. PICK e4 \in Nat : e3 = 2 * e4 /\ f * e4 = N
  <2>1. HasHalf(f, e3, N)
    BY <1>8, OddHalf
  <2>2. QED
    BY <2>1 DEF HasHalf
<1>10. d = 16 * e4
  BY <1>3, <1>5, <1>7, <1>9
<1>11. QED
  BY <1>9, <1>10 DEF HasSixteenth

\* The quotient of 65536 * M by a divisor without a rest is even.
Exact(f, d, M) == f * d = 65536 * M

LEMMA EvenQuotient ==
  ASSUME NEW f \in Nat, NEW d \in Nat, 1 <= d, d <= 4095, NEW M \in Nat, Exact(f, d, M)
  PROVE  \E g \in Nat : f = 2 * g
<1>0. f % 2 = 1 => Odd(f)
  BY DEF Odd
<1> SUFFICES ASSUME Odd(f) PROVE FALSE
  <2>1. f % 2 = 0 \/ f % 2 = 1
    OBVIOUS
  <2>2. f % 2 = 0 => f = 2 * (f \div 2) /\ f \div 2 \in Nat
    OBVIOUS
  <2>3. QED
    BY <1>0, <2>1, <2>2
<1> DEFINE N1 == 16 * M
           N2 == 16 * N1
           N3 == 16 * N2
<1>1. N1 \in Nat /\ N2 \in Nat /\ N3 \in Nat /\ SixteenTimes(f, d, N3) /\ d \in Nat
  BY DEF SixteenTimes, Exact
<1>2. N3 = 16 * N2 /\ N2 = 16 * N1 /\ N1 = 16 * M
  OBVIOUS
<1> HIDE DEF N1, N2, N3
<1>3. PICK e1 \in Nat : d = 16 * e1 /\ f * e1 = N3
  <2>1. HasSixteenth(f, d, N3)
    BY <1>1, OddSixteenth
  <2>2. QED
    BY <2>1 DEF HasSixteenth
<1>4. SixteenTimes(f, e1, N2)
  BY <1>2, <1>3 DEF SixteenTimes
<1>5. PICK e2 \in Nat : e1 = 16 * e2 /\ f * e2 = N2
  <2>1. HasSixteenth(f, e1, N2)
    BY <1>1, <1>4, OddSixteenth
  <2>2. QED
    BY <2>1 DEF HasSixteenth
<1>6. SixteenTimes(f, e2, N1)
  BY <1>2, <1>5 DEF SixteenTimes
<1>7. PICK e3 \in Nat : e2 = 16 * e3 /\ f * e3 = N1
  <2>1. HasSixteenth(f, e2, N1)
    BY <1>1, <1>6, OddSixteenth
  <2>2. QED
    BY <2>1 DEF HasSixteenth
<1>8. SixteenTimes(f, e3, M)
  BY <1>2, <1>7 DEF SixteenTimes
<1>9. PICK e4 \in Nat : e3 = 16 * e4 /\ f * e4 = M
  <2>1. HasSixteenth(f, e3, M)
    BY <1>8, OddSixteenth
  <2>2. QED
    BY <2>1 DEF HasSixteenth
<1>10. d = 65536 * e4
  BY ONLY <1>3, <1>5, <1>7, <1>9
<1>11. e4 > 0
  BY <1>10
<1>12. QED
  BY ONLY <1>9, <1>10, <1>11, d <= 4095

-----------------------------------------------------------------------------
(* a lane of jsimd_quantize *)

\* The product of which the quotient by P is kept.
Shift(y, recip, P) == (y * recip) \div P
Above(recip, d, P, y) == \E e \in Nat : recip * d = P + e /\ y * e < P
Below(recip, d, P, y) == \E e \in Nat \ {0} : recip * d = P - e /\ y * e <= P

LEMMA ShiftAbove ==
  ASSUME NEW P \in Nat \ {0}, NEW d \in Nat \ {0}, NEW y \in Nat, NEW recip \in Nat,
         NEW n \in Nat, Above(recip, d, P, y), Floor(n, d, y)
  PROVE  Shift(y, recip, P) = n
<1>1. PICK e \in Nat : recip * d = P + e /\ y * e < P
  BY DEF Above
<1>2. n * d <= y /\ y < (n + 1) * d
  BY DEF Floor
<1>3. (y * recip) \div P = n
  BY <1>1, <1>2, TooLarge
<1>4. QED
  BY <1>3 DEF Shift

LEMMA ShiftBelow ==
  ASSUME NEW P \in Nat \ {0}, NEW d \in Nat \ {0}, NEW y \in Nat, NEW z \in Nat, z = y + 1,
         NEW recip \in Nat, NEW n \in Nat, Below(recip, d, P, z), Floor(n, d, y)
  PROVE  Shift(z, recip, P) = n
<1>1. PICK e \in Nat \ {0} : recip * d = P - e /\ z * e <= P
  BY DEF Below
<1>2. n * d < z /\ z <= (n + 1) * d
  BY DEF Floor
<1>3. (z * recip) \div P = n
  BY ONLY P \in Nat \ {0}, d \in Nat \ {0}, z \in Nat, recip \in Nat, n \in Nat,
          <1>1, <1>2, TooSmall
<1>4. QED
  BY <1>3 DEF Shift

LEMMA QuantiseIs ==
  ASSUME NEW x \in Nat, x <= 16383, NEW corr \in Nat, corr <= 4095, NEW recip \in Nat,
         NEW K \in Nat, NEW M \in Nat \ {0}, Scales(K, M), NEW z, z = x + corr,
         NEW P, P = 65536 * M
  PROVE  Quantise(x, [reciprocal |-> recip, correction |-> corr, scale |-> K])
            = Shift(z, recip, P)
<1> DEFINE T == z * recip
           f == [reciprocal |-> recip, correction |-> corr, scale |-> K]
<1>1. z \in Nat /\ z < 65536
  OBVIOUS
<1>2. T \in Nat
  BY <1>1
<1>3. z % 65536 = z
  BY <1>1
<1>4. f.correction = corr /\ f.reciprocal = recip /\ f.scale = K
  OBVIOUS
<1> HIDE DEF f
<1>5. Quantise(x, f) = Shifted(T, K)
  <2>1. 2 ^ 16 = 65536
    OBVIOUS
  <2>2. ~ (x < 0)
    OBVIOUS
  <2>3. x + f.correction = z
    BY <1>4
  <2>4. ((x + f.correction) % (2 ^ 16)) * f.reciprocal = T
    BY ONLY <1>3, <1>4, <2>1, <2>3
  <2> HIDE DEF T
  <2> DEFINE High(a, b) == (a * b) \div 2 ^ 16
  <2>5. Quantise(x, f) = High(High((x + f.correction) % (2 ^ 16), f.reciprocal), f.scale)
    BY ONLY <2>2 DEF Quantise
  <2>6. High((x + f.correction) % (2 ^ 16), f.reciprocal) = T \div 65536
    BY ONLY <2>1, <2>4
  <2>7. QED
    BY ONLY <1>4, <2>1, <2>5, <2>6 DEF Shifted
<1> HIDE DEF T
<1>6. P \in Nat \ {0}
  OBVIOUS
<1>7. Shifted(T, K) = T \div P
  BY <1>2, <1>6, TwoShifts
<1>8. QED
  BY ONLY <1>5, <1>7 DEF T, f, Shift

LEMMA SizeOf ==
  ASSUME NEW M \in Sizes
  PROVE  M \in Nat /\ 2 <= M /\ M <= 2048
BY DEF Sizes

LEMMA ScaleOf ==
  ASSUME NEW M \in Sizes
  PROVE  65536 \div M \in Nat /\ 65536 \div M <= 32768
BY DEF Sizes

LEMMA ScalesOf ==
  ASSUME NEW M \in Sizes
  PROVE  Scales(65536 \div M, M)
BY DEF Sizes, Scales

LEMMA HalfOf ==
  ASSUME NEW M \in Sizes, M # 2
  PROVE  M \div 2 \in Nat /\ 2 <= M \div 2 /\ M \div 2 <= 1024
BY DEF Sizes

LEMMA TwiceHalf ==
  ASSUME NEW M \in Sizes
  PROVE  M = 2 * (M \div 2)
BY DEF Sizes

LEMMA DoubleScale ==
  ASSUME NEW M \in Sizes, M # 2
  PROVE  131072 \div M \in Nat /\ 131072 \div M <= 32768
BY DEF Sizes

LEMMA DoubleScales ==
  ASSUME NEW M \in Sizes, M # 2
  PROVE  Scales(131072 \div M, M \div 2)
BY DEF Sizes, Scales

\* The quotient of the highest power of two by the divisor, and its rest.
IsRatio(f, r, d, M) == f \in Nat /\ r \in 0 .. d - 1 /\ 65536 * M = f * d + r

LEMMA Ratio ==
  ASSUME NEW d \in Nat, 3 <= d, d <= 4095, NEW M \in Sizes
  PROVE  IsRatio((65536 * M) \div d, (65536 * M) % d, d, M)
<1> DEFINE P == 65536 * M
           f == P \div d
           r == P % d
<1>1. M \in Nat /\ 2 <= M /\ M <= 2048
  BY SizeOf
<1>2. P \in Nat
  BY <1>1
<1> HIDE DEF P
<1>3. f \in Nat
  BY <1>2
<1>4. r \in 0 .. d - 1
  BY <1>2
<1>5. P = f * d + r
  <2>1. d \in Nat \ {0}
    OBVIOUS
  <2>2. QED
    BY ONLY <1>2, <2>1, Quotient
<1> HIDE DEF f, r
<1>6. IsRatio(f, r, d, M)
  BY ONLY <1>3, <1>4, <1>5 DEF IsRatio, P
<1>7. QED
  BY ONLY <1>6 DEF f, r, P

\* Without a rest the quotient is halved.
LEMMA NoRest ==
  ASSUME NEW d \in Nat, 3 <= d, d <= 4095, NEW h \in Nat, 1 <= h, h <= 1024,
         NEW M, M = 2 * h, M <= d,
         NEW f, IsRatio(f, 0, d, M), NEW Q, Q = 65536 * h, NEW y \in Nat
  PROVE  \E g \in Nat : g < 65536 /\ f = 2 * g /\ Above(g, d, Q, y)
<1>1. M \in Nat /\ f \in Nat
  BY DEF IsRatio
<1>2. Exact(f, d, M)
  <2>1. f * d \in Nat
    BY <1>1
  <2>2. QED
    BY <2>1 DEF IsRatio, Exact
<1>3. PICK g \in Nat : f = 2 * g
  BY ONLY <1>1, <1>2, d \in Nat, 1 <= d, d <= 4095, EvenQuotient
<1>4. g * d \in Nat /\ f * d = 2 * (g * d)
  BY ONLY <1>3, d \in Nat, 3 <= d, d <= 4095
<1>5. g * d = Q
  BY ONLY <1>2, <1>4, M = 2 * h, h \in Nat, 1 <= h, h <= 1024, Q = 65536 * h DEF Exact
<1>6. ASSUME g >= 65536 PROVE FALSE
  <2>1. g * d >= 65536 * d
    BY ONLY <1>3, <1>6, d \in Nat, 3 <= d, d <= 4095
  <2>2. d > h
    OBVIOUS
  <2>3. QED
    BY ONLY <1>5, <2>1, <2>2, h \in Nat, 1 <= h, h <= 1024, Q = 65536 * h,
            d \in Nat, 3 <= d, d <= 4095
<1>7. Above(g, d, Q, y)
  <2>1. g * d = Q + 0 /\ y * 0 < Q
    BY ONLY <1>5, h \in Nat, 1 <= h, h <= 1024, Q = 65536 * h, y \in Nat
  <2>2. QED
    BY ONLY <2>1 DEF Above
<1>8. g < 65536
  <2>1. g \in Nat
    OBVIOUS
  <2>2. QED
    BY ONLY <1>6, <2>1
<1>9. QED
  BY ONLY <1>3, <1>7, <1>8

\* The bound of what is multiplied with the error of a reciprocal.
Within(y, e, P) == y * e < P

LEMMA ErrorBound ==
  ASSUME NEW y \in Nat, y <= 20000, NEW M \in Nat, 2 <= M, M <= 2048, NEW e \in Nat, e <= M,
         NEW P \in Nat, P = 65536 * M
  PROVE  Within(y, e, P)
<1> DEFINE T == y * e
<1>1. T <= 20000 * e
  BY ONLY y \in Nat, y <= 20000, e \in Nat
<1>2. T \in Nat
  BY ONLY y \in Nat, y <= 20000, e \in Nat
<1> HIDE DEF T
<1>3. T < P
  BY <1>1, <1>2
<1>4. QED
  BY ONLY <1>3 DEF Within, T

\* A small rest is left out.
LEMMA SmallRest ==
  ASSUME NEW d \in Nat, 3 <= d, d <= 4095, NEW M \in Nat, 2 <= M, M <= 2048, M <= d, d < 2 * M,
         NEW f, NEW r, IsRatio(f, r, d, M), r # 0, r <= d \div 2,
         NEW P \in Nat, P = 65536 * M, NEW y \in Nat, y <= 20000
  PROVE  f < 65536 /\ Below(f, d, P, y)
<1>1. f \in Nat
  BY DEF IsRatio
<1>2. r \in Nat \ {0} /\ r <= M
  BY DEF IsRatio
<1> DEFINE T == f * d
<1>3. T \in Nat
  BY ONLY <1>1, d \in Nat, 3 <= d, d <= 4095
<1>4. T = P - r
  <2>1. P = T + r
    BY DEF IsRatio
  <2> HIDE DEF T
  <2>2. QED
    BY ONLY <1>2, <1>3, <2>1, P \in Nat
<1>5. Within(y, r, P)
  BY <1>2, ErrorBound
<1>6. Below(f, d, P, y)
  <2>1. y * r <= P
    BY ONLY <1>2, <1>5, y \in Nat, y <= 20000, P \in Nat DEF Within
  <2>2. QED
    BY ONLY <1>2, <1>4, <2>1 DEF Below
<1>7. ASSUME f >= 65536 PROVE FALSE
  <2>1. T >= 65536 * d
    BY ONLY <1>1, <1>7, d \in Nat, 3 <= d, d <= 4095
  <2> HIDE DEF T
  <2>2. QED
    BY ONLY <1>2, <1>3, <1>4, <2>1, M <= d, P = 65536 * M, M \in Nat, 2 <= M, M <= 2048,
            d \in Nat, 3 <= d, d <= 4095
<1>8. f < 65536
  BY ONLY <1>1, <1>7
<1>9. QED
  BY ONLY <1>6, <1>8

\* And a large one is rounded up.
LEMMA LargeRest ==
  ASSUME NEW d \in Nat, 3 <= d, d <= 4095, NEW M \in Nat, 2 <= M, M <= 2048, M <= d, d < 2 * M,
         NEW f, NEW r, IsRatio(f, r, d, M), ~ (r <= d \div 2), NEW g, g = f + 1,
         NEW P \in Nat, P = 65536 * M, NEW y \in Nat, y <= 20000
  PROVE  g < 65536 /\ Above(g, d, P, y)
<1> DEFINE e == d - r
           T == g * d
<1>1. f \in Nat /\ r \in 0 .. d - 1
  BY DEF IsRatio
<1>2. e \in Nat \ {0} /\ e <= M /\ e < d
  BY <1>1
<1>3. g \in Nat
  BY <1>1
<1>4. T = P + e
  <2>1. P = f * d + r
    BY DEF IsRatio
  <2>2. T = f * d + d /\ f * d \in Nat
    BY ONLY <1>1, d \in Nat, 3 <= d, d <= 4095, g = f + 1
  <2>3. QED
    BY ONLY <1>1, <2>1, <2>2, d \in Nat, 3 <= d, d <= 4095
<1> HIDE DEF e
<1>5. Within(y, e, P)
  BY <1>2, ErrorBound
<1>6. Above(g, d, P, y)
  BY ONLY <1>2, <1>4, <1>5 DEF Above, Within
<1> DEFINE D == 65536 * (d - M)
<1>7. D \in Nat /\ 65536 * d = D + P
  BY ONLY M <= d, P = 65536 * M, M \in Nat, 2 <= M, M <= 2048, d \in Nat, 3 <= d, d <= 4095
<1>8. ASSUME g >= 65536 PROVE FALSE
  <2>1. CASE g = 65536
    <3>1. 65536 * d = P + e
      BY ONLY <1>4, <2>1
    <3>2. QED
      BY ONLY <1>2, <3>1, M <= d, P = 65536 * M, M \in Nat, 2 <= M, M <= 2048,
              d \in Nat, 3 <= d, d <= 4095
  <2>2. CASE g >= 65537
    <3>1. T >= 65537 * d
      BY ONLY <1>3, <2>2, d \in Nat, 3 <= d, d <= 4095
    <3> HIDE DEF T, D
    <3>2. QED
      BY ONLY <1>2, <1>4, <1>7, <3>1, P \in Nat, d \in Nat, 3 <= d, d <= 4095
  <2>3. QED
    BY ONLY <1>3, <1>8, <2>1, <2>2
<1>9. g < 65536
  BY ONLY <1>3, <1>8
<1>10. QED
  BY ONLY <1>6, <1>9

\* m is x / d, rounded.
Rounded(m, x, d) == m = (x + d \div 2) \div d

\* The division by multiplication of jsimd_quantize, with the fields that
\* compute_reciprocal makes, is exact for every coefficient the DCT can hand over
\* and every divisor from 3 up: the quotient is rounded to the nearest integer.
\* 4095 is more than the largest divisor.  The scale of 1 and 2 needs 17 bits.
THEOREM DivisionIsExact ==
  ASSUME NEW d \in Nat, 3 <= d, d <= 4095, NEW x \in Nat, x <= 16383,
         NEW m, Rounded(m, x, d)
  PROVE  Quantise(x, compute_reciprocal(d)) = m
<1>1. PICK M \in Sizes : M <= d /\ d < 2 * M /\ compute_reciprocal(d) = Reciprocal(d, M)
  BY ReciprocalIs
<1>2. M \in Nat /\ 2 <= M /\ M <= 2048
  BY SizeOf
<1> DEFINE P  == 65536 * M
           fq == P \div d
           fr == P % d
           c  == d \div 2
           y  == x + c
           n  == y \div d
           K  == 65536 \div M
<1>3. IsRatio(fq, fr, d, M)
  BY Ratio
<1>4. c \in Nat /\ 1 <= c /\ c <= 2047
  OBVIOUS
<1>5. y \in Nat /\ y <= 19000
  BY <1>4
<1>6. P \in Nat \ {0}
  BY <1>2
<1>7. K \in Nat /\ K <= 32768 /\ Scales(K, M)
  BY ScaleOf, ScalesOf
<1>8. K % 65536 = K
  BY <1>7
<1>9. Reciprocal(d, M) =
        IF fr = 0
        THEN [reciprocal |-> (fq \div 2) % 65536, correction |-> c,
              scale |-> (131072 \div M) % 65536]
        ELSE IF fr <= c
        THEN [reciprocal |-> fq % 65536, correction |-> c + 1, scale |-> K % 65536]
        ELSE [reciprocal |-> (fq + 1) % 65536, correction |-> c, scale |-> K % 65536]
  BY DEF Reciprocal
<1>10. n \in Nat /\ Floor(n, d, y)
  <2> HIDE DEF y
  <2>1. d \in Nat \ {0}
    OBVIOUS
  <2>2. QED
    BY <1>5, <2>1, FloorOf
<1> DEFINE A == Quantise(x, compute_reciprocal(d))
<1>11. P = 65536 * M /\ y = x + c
  OBVIOUS
<1>12. d \in Nat \ {0} /\ fq \in Nat
  BY <1>3 DEF IsRatio
<1> HIDE DEF P, fq, fr, c, y, n, K
<1>13. ASSUME fr = 0 PROVE A = n
  <2> DEFINE h == M \div 2
             L == 131072 \div M
             Q == 65536 * h
  <2>1. IsRatio(fq, 0, d, M)
    BY <1>3, <1>13
  <2>2. M # 2
    <3> SUFFICES ASSUME M = 2 PROVE FALSE
      OBVIOUS
    <3>1. d = 3
      BY <1>1
    <3>2. 131072 = fq * 3
      BY <2>1, <3>1 DEF IsRatio
    <3>3. QED
      BY <1>12, <3>2
  <2>3. h \in Nat /\ 2 <= h /\ h <= 1024 /\ M = 2 * h
    BY <2>2, HalfOf, TwiceHalf
  <2>4. L \in Nat /\ L <= 32768 /\ Scales(L, h)
    BY <2>2, DoubleScale, DoubleScales
  <2>5. L % 65536 = L
    BY <2>4
  <2>6. Q \in Nat \ {0} /\ Q = 65536 * h /\ h \in Nat \ {0}
    BY <2>3
  <2> HIDE DEF h, L, Q
  <2>7. PICK g \in Nat : g < 65536 /\ fq = 2 * g /\ Above(g, d, Q, y)
    BY <1>1, <1>5, <2>1, <2>3, <2>6, NoRest
  <2>8. (fq \div 2) % 65536 = g
    BY <2>7
  <2>9. compute_reciprocal(d) = [reciprocal |-> g, correction |-> c, scale |-> L]
    BY <1>1, <1>9, <1>13, <2>5, <2>8 DEF L
  <2>10. A = Shift(y, g, Q)
    BY <1>4, <1>11, <2>4, <2>6, <2>9, QuantiseIs
  <2>11. Shift(y, g, Q) = n
    BY <1>5, <1>10, <1>12, <2>6, <2>7, ShiftAbove
  <2>12. QED
    BY <2>10, <2>11
<1>14. ASSUME fr # 0, fr <= c PROVE A = n
  <2> DEFINE z == y + 1
             b == c + 1
  <2>1. z \in Nat /\ z <= 20000 /\ z = y + 1 /\ b \in Nat /\ b <= 4095 /\ z = x + b
    BY <1>4, <1>5, <1>11
  <2> HIDE DEF z
  <2>2. fq < 65536 /\ Below(fq, d, P, z)
    BY <1>1, <1>2, <1>3, <1>6, <1>11, <1>14, <2>1, SmallRest DEF c
  <2>3. fq % 65536 = fq
    BY <1>12, <2>2
  <2>4. compute_reciprocal(d) = [reciprocal |-> fq, correction |-> b, scale |-> K]
    BY <1>1, <1>8, <1>9, <1>14, <2>3
  <2> HIDE DEF b
  <2>5. A = Shift(z, fq, P)
    BY <1>2, <1>7, <1>11, <1>12, <2>1, <2>4, QuantiseIs
  <2>6. Shift(z, fq, P) = n
    BY <1>5, <1>6, <1>10, <1>12, <2>1, <2>2, ShiftBelow
  <2>7. QED
    BY <2>5, <2>6
<1>15. ASSUME fr # 0, ~ (fr <= c) PROVE A = n
  <2> DEFINE g == fq + 1
  <2>1. g \in Nat /\ g = fq + 1 /\ y <= 20000
    BY <1>5, <1>12
  <2>2. g < 65536 /\ Above(g, d, P, y)
    <3> HIDE DEF g
    <3>1. ~ (fr <= d \div 2)
      BY <1>15 DEF c
    <3>2. QED
      BY <1>1, <1>2, <1>3, <1>5, <1>6, <1>11, <2>1, <3>1, LargeRest
  <2>3. g % 65536 = g
    BY <2>1, <2>2
  <2>4. compute_reciprocal(d) = [reciprocal |-> g, correction |-> c, scale |-> K]
    BY <1>1, <1>8, <1>9, <1>15, <2>3
  <2> HIDE DEF g
  <2>5. A = Shift(y, g, P)
    BY <1>2, <1>4, <1>7, <1>11, <2>1, <2>4, QuantiseIs
  <2>6. Shift(y, g, P) = n
    BY <1>5, <1>6, <1>10, <1>12, <2>1, <2>2, ShiftAbove
  <2>7. QED
    BY <2>5, <2>6
<1>16. A = n
  BY <1>13, <1>14, <1>15
<1>17. QED
  BY <1>16 DEF n, y, c, Rounded

-----------------------------------------------------------------------------
(* the tables: set_quant_table and prepare_quant_tables *)

\* The place of each coefficient in the block: the inverse of zigzag.
unzigzag == <<
     0,  1,  8, 16,  9,  2,  3, 10,
    17, 24, 32, 25, 18, 11,  4,  5,
    12, 19, 26, 33, 40, 48, 41, 34,
    27, 20, 13,  6,  7, 14, 21, 28,
    35, 42, 49, 56, 57, 50, 43, 36,
    29, 22, 15, 23, 30, 37, 44, 51,
    58, 59, 52, 45, 38, 31, 39, 46,
    53, 60, 61, 54, 47, 55, 62, 63 >>

LEMMA Places ==
  ASSUME NEW i \in Coefficients
  PROVE  At(zigzag, i) \in Coefficients
BY DEF At, zigzag, Coefficients

LEMMA PlacesDiffer ==
  ASSUME NEW i \in Coefficients
  PROVE  At(unzigzag, At(zigzag, i)) = i
BY DEF At, zigzag, unzigzag, Coefficients

LEMMA UnzigzagIs ==
  ASSUME NEW i \in Coefficients
  PROVE  Unzigzag[At(zigzag, i)] = i
<1> DEFINE k == At(zigzag, i)
<1>1. k \in Coefficients
  BY Places
<1>2. \A j \in Coefficients : At(zigzag, j) = k => j = i
  <2> SUFFICES ASSUME NEW j \in Coefficients, At(zigzag, j) = k PROVE j = i
    OBVIOUS
  <2>1. At(unzigzag, At(zigzag, j)) = j /\ At(unzigzag, At(zigzag, i)) = i
    BY PlacesDiffer
  <2>2. QED
    BY <2>1
<1>3. At(zigzag, i) = k
  OBVIOUS
<1> HIDE DEF k
<1>4. Unzigzag[k] = CHOOSE j \in Coefficients : At(zigzag, j) = k
  BY <1>1 DEF Unzigzag
<1>5. QED
  BY <1>2, <1>3, <1>4 DEF k

-----------------------------------------------------------------------------
(* the divisors of a quality *)

LEMMA ScaleFactors ==
  ASSUME NEW i \in Coefficients
  PROVE  At(aanscales, i) \in Nat /\ 1247 <= At(aanscales, i) /\ At(aanscales, i) <= 31521
BY DEF At, aanscales, Coefficients

LEMMA LuminanceTable ==
  ASSUME NEW i \in Coefficients
  PROVE  At(std_luminance_qt, i) \in Nat
BY DEF At, std_luminance_qt, Coefficients

LEMMA ChrominanceTable ==
  ASSUME NEW i \in Coefficients
  PROVE  At(std_chrominance_qt, i) \in Nat
BY DEF At, std_chrominance_qt, Coefficients

\* The smallest quantisers that are used, those of quality 97.
LEMMA SmallestLuminance ==
  ASSUME NEW i \in Coefficients
  PROVE  ((At(std_luminance_qt, i) * 6 + 50) \div 100) * At(aanscales, i) >= 5120
BY DEF At, aanscales, std_luminance_qt, Coefficients

LEMMA SmallestChrominance ==
  ASSUME NEW i \in Coefficients
  PROVE  ((At(std_chrominance_qt, i) * 6 + 50) \div 100) * At(aanscales, i) >= 5120
BY DEF At, aanscales, std_chrominance_qt, Coefficients

\* The quantiser of a coefficient times its scale factor.
Step(table, i) == table[At(zigzag, i)] * At(aanscales, i)
Fits(S) == S \in Nat /\ 5120 <= S /\ S <= 8100000

LEMMA StepFits ==
  ASSUME NEW basic, NEW s \in Nat, s >= 6, NEW i \in Coefficients, At(basic, i) \in Nat,
         ((At(basic, i) * 6 + 50) \div 100) * At(aanscales, i) >= 5120
  PROVE  Fits(Step(set_quant_table(basic, s), i))
<1> DEFINE b == At(basic, i)
           a == At(aanscales, i)
           low == (b * 6 + 50) \div 100
           m == (b * s + 50) \div 100
           e == Clamp(1, 255, m)
<1>1. a \in Nat /\ 1247 <= a /\ a <= 31521 /\ b \in Nat
  BY ScaleFactors
<1>2. set_quant_table(basic, s)[At(zigzag, i)] = e
  <2>1. At(zigzag, i) \in Coefficients /\ Unzigzag[At(zigzag, i)] = i
    BY Places, UnzigzagIs
  <2>2. QED
    BY <2>1 DEF set_quant_table
<1>3. low * a >= 5120
  OBVIOUS
<1> HIDE DEF b, a
<1>4. low \in Nat /\ m \in Nat /\ low <= m
  <2> DEFINE p == b * s
  <2>1. p \in Nat /\ b * 6 <= p
    BY <1>1
  <2> HIDE DEF p
  <2>2. low <= (p + 50) \div 100
    BY <1>1, <2>1
  <2>3. QED
    BY <1>1, <2>1, <2>2 DEF p
<1> HIDE DEF low, m
<1>5. e \in Nat /\ e >= 1 /\ e <= 255 /\ (low <= e \/ e = 255)
  BY <1>4 DEF Clamp
<1> HIDE DEF e
<1> DEFINE S == e * a
<1>6. S \in Nat /\ S <= 255 * 31521
  <2>1. S \in Nat /\ S <= 255 * a
    BY <1>1, <1>5
  <2>2. QED
    BY <1>1, <2>1
<1>7. S >= 5120
  <2>1. CASE low <= e
    <3>1. low * a <= e * a
      BY <1>1, <1>4, <1>5, <2>1
    <3> DEFINE L == low * a
    <3>2. L \in Nat
      BY <1>1, <1>4
    <3> HIDE DEF L, S
    <3>3. QED
      BY <1>3, <1>6, <3>1, <3>2 DEF L, S
  <2>2. CASE e = 255
    BY <1>1, <2>2
  <2>3. QED
    BY <1>5, <2>1, <2>2
<1>8. QED
  BY <1>2, <1>6, <1>7 DEF Fits, Step, a

\* The divisor d that comes of the step S.
OfStep(d, S) == 2048 * d <= S + 1024 /\ S < 2048 * d + 1024

LEMMA DivisorFits ==
  ASSUME NEW S, Fits(S), NEW d, d = (S + 1024) \div 2048
  PROVE  d \in Nat /\ 3 <= d /\ d <= 4095 /\ OfStep(d, S)
BY DEF Fits, OfStep

LEMMA TablesFit ==
  ASSUME NEW q \in Qualities, q <= 97, NEW i \in Coefficients
  PROVE  Fits(Step(DQTinfo[q].Ytable, i)) /\ Fits(Step(DQTinfo[q].Cbtable, i))
<1> DEFINE s == (100 - q) * 2
<1>1. s \in Nat /\ s >= 6
  <2>1. q \in 0 .. 100
    BY CoderAssumption
  <2>2. QED
    BY <2>1
<1>2. /\ DQTinfo[q].Ytable = set_quant_table(std_luminance_qt, s)
      /\ DQTinfo[q].Cbtable = set_quant_table(std_chrominance_qt, s)
  BY DEF DQTinfo, set_DQTinfo
<1> HIDE DEF s
<1>3. Fits(Step(set_quant_table(std_luminance_qt, s), i))
  BY <1>1, LuminanceTable, SmallestLuminance, StepFits
<1>4. Fits(Step(set_quant_table(std_chrominance_qt, s), i))
  BY <1>1, ChrominanceTable, SmallestChrominance, StepFits
<1>5. QED
  BY <1>2, <1>3, <1>4

\* A lane treats a coefficient below zero as its size.
LEMMA QuantiseNegative ==
  ASSUME NEW x \in Int, x < 0, NEW f, Quantise(-x, f) \in Nat
  PROVE  Quantise(x, f) = -Quantise(-x, f)
<1>1. ~ (-x < 0)
  OBVIOUS
<1>2. QED
  BY <1>1 DEF Quantise

\* The size of a number.
Size(x) == IF x < 0 THEN -x ELSE x

\* The size of a level.
LEMMA LevelIs ==
  ASSUME NEW d \in Nat, 3 <= d, d <= 4095, NEW x \in Int, Size(x) <= 16383,
         NEW m, Rounded(m, Size(x), d)
  PROVE  /\ m \in Nat
         /\ Quantise(x, compute_reciprocal(d)) = IF x < 0 THEN -m ELSE m
<1> DEFINE f == compute_reciprocal(d)
           a == Size(x)
<1>1. a \in Nat /\ a <= 16383
  BY DEF Size
<1>2. m \in Nat
  BY <1>1 DEF Rounded
<1> HIDE DEF a
<1>3. Quantise(a, f) = m
  <2>1. Rounded(m, a, d)
    BY DEF a
  <2>2. QED
    BY ONLY <1>1, <2>1, d \in Nat, 3 <= d, d <= 4095, DivisionIsExact
<1> HIDE DEF f
<1>4. CASE x < 0
  <2>1. a = -x
    BY <1>4 DEF a, Size
  <2>2. QED
    BY <1>2, <1>3, <1>4, <2>1, QuantiseNegative DEF f
<1>5. CASE ~ (x < 0)
  <2>1. a = x
    BY <1>5 DEF a, Size
  <2>2. QED
    BY <1>2, <1>3, <1>5, <2>1 DEF f
<1>6. QED
  BY <1>4, <1>5

\* How far the level times the step is from the coefficient, in units of 1 / 4096.
Near(x, level, S) ==
    2 * Size(2048 * x - level * S) <= S + 1024 * (1 + 2 * Size(level))

\* The same for sizes.
Close(a, m, S) == 2 * Size(2048 * a - m * S) <= S + 1024 * (1 + 2 * m)

Middle(y, a, d) == y = a + d \div 2

LEMMA DistanceOf ==
  ASSUME NEW a \in Nat, NEW d \in Nat, NEW m \in Nat, NEW S \in Nat, OfStep(d, S),
         NEW y, Middle(y, a, d), Floor(m, d, y)
  PROVE  Close(a, m, S)
<1> DEFINE D == m * d
           R == m * (S - 2048 * d)
           T == m * S
<1>1. D \in Nat /\ R \in Int /\ T \in Nat
  OBVIOUS
<1>2. T = 2048 * D + R
  OBVIOUS
<1>3. R <= 1024 * m /\ R >= -(1024 * m)
  <2> DEFINE r == S - 2048 * d
  <2>1. r \in Int /\ r <= 1024 /\ r >= -1024
    BY DEF OfStep
  <2> HIDE DEF r
  <2>2. m * r <= m * 1024 /\ m * r >= m * (-1024)
    BY <2>1
  <2>3. QED
    BY <2>2 DEF r
<1>4. D <= a + d \div 2 /\ a + d \div 2 < D + d
  <2>1. (m + 1) * d = D + d
    OBVIOUS
  <2>2. QED
    BY <2>1 DEF Floor, Middle
<1> HIDE DEF D, R, T
<1>5. 2 * (2048 * a - T) <= S + 1024 * (1 + 2 * m)
  BY <1>1, <1>2, <1>3, <1>4 DEF OfStep
<1>6. 2 * (T - 2048 * a) <= S + 1024 * (1 + 2 * m)
  BY <1>1, <1>2, <1>3, <1>4 DEF OfStep
<1>7. QED
  BY <1>1, <1>5, <1>6 DEF Size, T, Close

LEMMA LevelIsNear ==
  ASSUME NEW S, Fits(S), NEW d, d = (S + 1024) \div 2048, NEW x \in Int, Size(x) <= 16383
  PROVE  Near(x, Quantise(x, compute_reciprocal(d)), S)
<1> DEFINE a == Size(x)
           y == a + d \div 2
           m == y \div d
           l == Quantise(x, compute_reciprocal(d))
<1>1. d \in Nat /\ 3 <= d /\ d <= 4095 /\ OfStep(d, S) /\ S \in Nat
  <2>1. S \in Nat
    BY DEF Fits
  <2>2. QED
    BY <2>1, DivisorFits
<1>2. m \in Nat /\ l = IF x < 0 THEN -m ELSE m
  <2>1. Rounded(m, Size(x), d)
    BY DEF Rounded
  <2> HIDE DEF m
  <2>2. QED
    BY <1>1, <2>1, LevelIs
<1>3. a \in Nat
  BY DEF Size
<1>4. Middle(y, a, d) /\ Floor(m, d, y)
  <2>0. Middle(y, a, d)
    BY DEF Middle
  <2>1. y \in Nat /\ d \in Nat \ {0}
    BY <1>1, <1>3
  <2> HIDE DEF y
  <2>2. Floor(m, d, y)
    BY ONLY <2>1, FloorOf
  <2>3. QED
    BY <2>0, <2>2
<1> HIDE DEF a, m, l, y
<1>5. Close(a, m, S)
  BY ONLY <1>1, <1>2, <1>3, <1>4, DistanceOf
<1> DEFINE T == m * S
<1>6. T \in Nat
  BY <1>1, <1>2
<1>7. Size(l) = m
  BY <1>2 DEF Size
<1>8. Size(2048 * x - l * S) = Size(2048 * a - m * S)
  <2>1. CASE x < 0
    <3>1. l * S = -T /\ a = -x
      BY <1>1, <1>2, <2>1 DEF a, Size
    <3> HIDE DEF T
    <3>2. Size(2048 * x - (-T)) = Size(2048 * (-x) - T)
      BY <1>6, <2>1 DEF Size
    <3>3. QED
      BY <3>1, <3>2 DEF T
  <2>2. CASE ~ (x < 0)
    BY <1>2, <2>2 DEF a, Size
  <2>3. QED
    BY <2>1, <2>2
<1>9. QED
  BY <1>5, <1>7, <1>8 DEF Near, Close, l

-----------------------------------------------------------------------------
(* what the display was sent: GetDQTinfo *)

\* Sequences by their lengths.
Has(k, n) == k \in Nat /\ 1 <= k /\ k <= n
Later(j, n, k) == j = n + k
IsRow(s, n) == s \in Seq(Nat) /\ Len(s) = n

LEMMA ConcatLength ==
  ASSUME NEW s, NEW t, NEW n \in Nat, NEW m \in Nat, IsRow(s, n), IsRow(t, m), NEW l, l = n + m
  PROVE  IsRow(s \o t, l)
BY ConcatProperties DEF IsRow

LEMMA ConcatLeft ==
  ASSUME NEW s, NEW t, NEW n, NEW m, IsRow(s, n), IsRow(t, m),
         NEW k, Has(k, n)
  PROVE  (s \o t)[k] = s[k]
BY DEF IsRow, Has

\* GetDQTinfo with the rows it joins: a marker, a length, and the two tables in the
\* order of the block.
Natural(table) == [k \in 1 .. 64 |-> table[At(zigzag, k - 1)]]
Sent(W, V, Y, C) == W \o V \o <<0>> \o Y \o W \o V \o <<1>> \o C

LEMMA SentIs ==
  ASSUME NEW dqt
  PROVE GetDQTinfo(dqt) = Sent(Word(65499), Word(67), Natural(dqt.Ytable), Natural(dqt.Cbtable))
BY DEF GetDQTinfo, Natural, Sent

LEMMA SentAt ==
  ASSUME NEW W, IsRow(W, 2), NEW V, IsRow(V, 2), NEW Y, IsRow(Y, 64), NEW C, IsRow(C, 64),
         NEW k, Has(k, 64), NEW a, Later(a, 5, k), NEW b, Later(b, 74, k)
  PROVE  Sent(W, V, Y, C)[a] = Y[k] /\ Sent(W, V, Y, C)[b] = C[k]
<1>1. IsRow(<<0>>, 1) /\ IsRow(<<1>>, 1)
  BY DEF IsRow
<1>2. PICK h0 : h0 = W \o V
  OBVIOUS
<1>3. IsRow(h0, 4)
  BY <1>2, ConcatLength
<1>4. PICK h1 : h1 = h0 \o <<0>>
  OBVIOUS
<1>5. IsRow(h1, 5)
  BY <1>1, <1>3, <1>4, ConcatLength
<1>6. PICK h2 : h2 = h1 \o Y
  OBVIOUS
<1>7. IsRow(h2, 69)
  BY <1>5, <1>6, ConcatLength
<1>8. h2[a] = Y[k]
  <2>1. (h1 \o Y)[a] = Y[k]
    <3>1. PICK n, m : n = 5 /\ m = 64
      OBVIOUS
    <3>2. IsRow(h1, n) /\ IsRow(Y, m) /\ Has(k, m) /\ Later(a, n, k)
      BY ONLY <1>5, <3>1, IsRow(Y, 64), Has(k, 64), Later(a, 5, k)
    <3>3. QED
      BY ONLY <3>2 DEF IsRow, Has, Later
  <2>2. QED
    BY <1>6, <2>1
<1>9. PICK h3 : h3 = h2 \o W
  OBVIOUS
<1>10. IsRow(h3, 71)
  BY <1>7, <1>9, ConcatLength
<1>11. h3[a] = h2[a]
  <2>1. Has(a, 69)
    BY DEF Has, Later
  <2>2. QED
    BY <1>7, <1>9, <2>1, ConcatLeft, Zenon
<1>12. PICK h4 : h4 = h3 \o V
  OBVIOUS
<1>13. IsRow(h4, 73)
  BY <1>10, <1>12, ConcatLength
<1>14. h4[a] = h3[a]
  <2>1. Has(a, 71)
    BY DEF Has, Later
  <2>2. QED
    BY <1>10, <1>12, <2>1, ConcatLeft, Zenon
<1>15. PICK h5 : h5 = h4 \o <<1>>
  OBVIOUS
<1>16. IsRow(h5, 74)
  BY <1>1, <1>13, <1>15, ConcatLength
<1>17. h5[a] = h4[a]
  <2>1. Has(a, 73)
    BY DEF Has, Later
  <2>2. QED
    BY <1>1, <1>13, <1>15, <2>1, ConcatLeft, Zenon
<1>18. PICK h6 : h6 = h5 \o C
  OBVIOUS
<1>19. h6[a] = h5[a]
  <2>1. Has(a, 74)
    BY DEF Has, Later
  <2>2. QED
    BY <1>16, <1>18, <2>1, ConcatLeft, Zenon
<1>20. h6[b] = C[k]
  <2>1. (h5 \o C)[b] = C[k]
    <3>1. PICK n, m : n = 74 /\ m = 64
      OBVIOUS
    <3>2. IsRow(h5, n) /\ IsRow(C, m) /\ Has(k, m) /\ Later(b, n, k)
      BY ONLY <1>16, <3>1, IsRow(C, 64), Has(k, 64), Later(b, 74, k)
    <3>3. QED
      BY ONLY <3>2 DEF IsRow, Has, Later
  <2>2. QED
    BY <1>18, <2>1
<1>21. Sent(W, V, Y, C) = h6
  BY <1>2, <1>4, <1>6, <1>9, <1>12, <1>15, <1>18 DEF Sent
<1>22. QED
  BY <1>8, <1>11, <1>14, <1>17, <1>19, <1>20, <1>21

LEMMA EntryFits ==
  ASSUME NEW basic, NEW s \in Nat, NEW i \in Coefficients, At(basic, i) \in Nat
  PROVE  set_quant_table(basic, s)[At(zigzag, i)] \in Nat
<1> DEFINE m == (At(basic, i) * s + 50) \div 100
<1>1. set_quant_table(basic, s)[At(zigzag, i)] = Clamp(1, 255, m)
  <2>1. At(zigzag, i) \in Coefficients /\ Unzigzag[At(zigzag, i)] = i
    BY Places, UnzigzagIs
  <2>2. QED
    BY <2>1 DEF set_quant_table
<1>2. m \in Nat
  <2> DEFINE p == At(basic, i) * s
  <2>1. p \in Nat
    OBVIOUS
  <2> HIDE DEF p
  <2>2. (p + 50) \div 100 \in Nat
    BY <2>1
  <2>3. QED
    BY <2>2 DEF p
<1> HIDE DEF m
<1>3. Clamp(1, 255, m) \in Nat
  BY <1>2 DEF Clamp
<1>4. QED
  BY <1>1, <1>3

LEMMA EntriesFit ==
  ASSUME NEW q \in Qualities, NEW i \in Coefficients
  PROVE  DQTinfo[q].Ytable[At(zigzag, i)] \in Nat /\ DQTinfo[q].Cbtable[At(zigzag, i)] \in Nat
<1> DEFINE s == (100 - q) * 2
<1>1. s \in Nat
  <2>1. q \in 0 .. 100
    BY CoderAssumption
  <2>2. QED
    BY <2>1
<1>2. /\ DQTinfo[q].Ytable = set_quant_table(std_luminance_qt, s)
      /\ DQTinfo[q].Cbtable = set_quant_table(std_chrominance_qt, s)
  BY DEF DQTinfo, set_DQTinfo
<1> HIDE DEF s
<1>3. QED
  BY <1>1, <1>2, LuminanceTable, ChrominanceTable, EntryFits

LEMMA RowOf ==
  ASSUME NEW n \in Nat, NEW f \in [1 .. n -> Nat]
  PROVE  IsRow(f, n)
<1>1. f \in Seq(Nat)
  OBVIOUS
<1>2. Len(f) = n
  OBVIOUS
<1>3. QED
  BY <1>1, <1>2 DEF IsRow

LEMMA NaturalRow ==
  ASSUME NEW table, \A i \in Coefficients : table[At(zigzag, i)] \in Nat
  PROVE  IsRow(Natural(table), 64)
<1>1. \A k \in 1 .. 64 : k - 1 \in Coefficients
  BY DEF Coefficients
<1>2. Natural(table) \in [1 .. 64 -> Nat]
  BY <1>1 DEF Natural
<1>3. 64 \in Nat
  OBVIOUS
<1>4. QED
  BY ONLY <1>2, <1>3, RowOf

\* The entry of a table that a display reads for a coefficient.
LEMMA SentEntry ==
  ASSUME NEW q \in Qualities, NEW i \in Coefficients
  PROVE  /\ GetDQTinfo(DQTinfo[q])[5 + i + 1] = DQTinfo[q].Ytable[At(zigzag, i)]
         /\ GetDQTinfo(DQTinfo[q])[74 + i + 1] = DQTinfo[q].Cbtable[At(zigzag, i)]
<1> DEFINE Y == Natural(DQTinfo[q].Ytable)
           C == Natural(DQTinfo[q].Cbtable)
           W == Word(65499)
           V == Word(67)
           k == i + 1
           a == 5 + i + 1
           b == 74 + i + 1
<1>1. IsRow(Y, 64) /\ IsRow(C, 64)
  BY EntriesFit, NaturalRow
<1>2. IsRow(W, 2) /\ IsRow(V, 2)
  BY DEF Word, IsRow
<1>3. Has(k, 64) /\ Later(a, 5, k) /\ Later(b, 74, k)
  BY DEF Has, Later, Coefficients
<1>4. GetDQTinfo(DQTinfo[q]) = Sent(W, V, Y, C)
  BY SentIs
<1>5. Y[k] = DQTinfo[q].Ytable[At(zigzag, i)] /\ C[k] = DQTinfo[q].Cbtable[At(zigzag, i)]
  BY DEF Natural, Coefficients
<1> HIDE DEF Y, C, W, V, k, a, b
<1>6. Sent(W, V, Y, C)[a] = Y[k] /\ Sent(W, V, Y, C)[b] = C[k]
  BY <1>1, <1>2, <1>3, SentAt
<1>7. QED
  BY <1>4, <1>5, <1>6 DEF a, b

-----------------------------------------------------------------------------
(* the units of a scan *)

\* What the units of a scan are.
Raw == [Coefficients -> -LargestCoefficient .. LargestCoefficient]
Coding == quality \in Qualities /\ units \in Seq(Raw)

LEMMA CodingInit == Init => Coding
<1>1. <<>> \in Seq(Raw)
  OBVIOUS
<1>2. QED
  BY <1>1 DEF Init, Coding

LEMMA CodingNext == Coding /\ [Next]_vars => Coding'
<1> SUFFICES ASSUME Coding, [Next]_vars PROVE Coding'
  OBVIOUS
<1>1. ASSUME NEW raw \in Inputs(quality, Len(units) + 1), CodeUnit(raw) PROVE Coding'
  <2> DEFINE n == Len(units) + 1
  <2>1. quality \in Qualities /\ units \in Seq(Raw) /\ Mcus \in Nat
    BY CoderAssumption DEF Coding
  <2>2. n \in 1 .. 3 * Mcus
    BY <1>1, <2>1 DEF CodeUnit
  <2>3. Inputs(quality, n) \subseteq Raw
    BY <2>1, <2>2, InputsAssumption DEF Raw
  <2>4. raw \in Raw
    BY <1>1, <2>3
  <2>5. units' = Append(units, raw) /\ quality' = quality
    BY <1>1 DEF CodeUnit
  <2>6. units' \in Seq(Raw)
    BY ONLY <2>1, <2>4, <2>5
  <2>7. QED
    BY <2>1, <2>5, <2>6 DEF Coding
<1>2. CASE Finish
  BY <1>2 DEF Coding, Finish
<1>3. CASE UNCHANGED vars
  BY <1>3 DEF Coding, vars
<1>4. QED
  BY <1>1, <1>2, <1>3 DEF Next

\* The level of a coefficient of a unit.
LEMMA LevelOf ==
  ASSUME NEW q \in Qualities, q <= 97, NEW c \in Components, NEW raw \in Raw,
         NEW i \in Coefficients,
         NEW table, table = IF c = 0 THEN DQTinfo[q].Ytable ELSE DQTinfo[q].Cbtable
  PROVE  Levels(q, c, raw)[At(zigzag, i)]
            = Quantise(raw[i], compute_reciprocal(Divisor(table, i)))
<1> DEFINE z == At(zigzag, i)
<1>1. z \in Coefficients /\ Unzigzag[z] = i
  BY Places, UnzigzagIs
<1> HIDE DEF z
<1>2. /\ Divisors[q].divisor_Y[i] = compute_reciprocal(Divisor(DQTinfo[q].Ytable, i))
      /\ Divisors[q].divisor_Cb[i] = compute_reciprocal(Divisor(DQTinfo[q].Cbtable, i))
  BY DEF Divisors, prepare_quant_tables
<1> DEFINE D == IF c = 0 THEN Divisors[q].divisor_Y ELSE Divisors[q].divisor_Cb
<1>3. Levels(q, c, raw)[z] = Quantise(raw[i], D[i])
  BY <1>1 DEF Levels
<1>4. D[i] = compute_reciprocal(Divisor(table, i))
  BY <1>2
<1>5. QED
  BY <1>3, <1>4 DEF z

LEMMA SizeFits ==
  ASSUME NEW x \in -LargestCoefficient .. LargestCoefficient
  PROVE  x \in Int /\ Size(x) <= 16383
BY DEF Size, LargestCoefficient

LEMMA UnitIsNear ==
  ASSUME NEW q \in Qualities, q <= 97, NEW c \in Components, NEW raw \in Raw, NEW i \in Coefficients
  PROVE  Near(raw[i], Levels(q, c, raw)[At(zigzag, i)],
              GetDQTinfo(DQTinfo[q])[(IF c = 0 THEN 5 ELSE 74) + i + 1] * At(aanscales, i))
<1> DEFINE table == IF c = 0 THEN DQTinfo[q].Ytable ELSE DQTinfo[q].Cbtable
           S == Step(table, i)
           d == Divisor(table, i)
           x == raw[i]
           l == Levels(q, c, raw)[At(zigzag, i)]
           sent == GetDQTinfo(DQTinfo[q])[(IF c = 0 THEN 5 ELSE 74) + i + 1]
<1>1. Fits(S)
  BY TablesFit
<1>2. d = (S + 1024) \div 2048
  BY DEF Divisor, Step
<1>3. x \in Int /\ Size(x) <= 16383
  <2>1. x \in -LargestCoefficient .. LargestCoefficient
    BY DEF Raw
  <2>2. QED
    BY <2>1, SizeFits
<1>4. l = Quantise(x, compute_reciprocal(d))
  BY LevelOf
<1>5. sent = table[At(zigzag, i)]
  BY SentEntry
<1>6. sent * At(aanscales, i) = S
  BY <1>5 DEF Step
<1> HIDE DEF table, S, d, x, l, sent
<1>7. Near(x, Quantise(x, compute_reciprocal(d)), S)
  BY <1>1, <1>2, <1>3, LevelIsNear
<1>8. Near(x, l, sent * At(aanscales, i))
  BY <1>4, <1>6, <1>7
<1>9. QED
  BY <1>8 DEF x, l, sent

LEMMA CloseFromCoding ==
  ASSUME \A q \in Qualities : q <= 97, Coding
  PROVE  DisplayIsClose
<1> SUFFICES ASSUME units # <<>>,
                    NEW n, n = Len(units), NEW c, c = ComponentOf(n - 1),
                    NEW i \in Coefficients,
                    NEW sent, sent = GetDQTinfo(DQTinfo[quality]),
                    NEW l, l = Levels(quality, c, units[n])[At(zigzag, i)],
                    NEW S, S = sent[(IF c = 0 THEN 5 ELSE 74) + i + 1] * At(aanscales, i)
             PROVE  Near(units[n][i], l, S)
  BY DEF DisplayIsClose, Near, Size
<1>1. quality \in Qualities /\ quality <= 97 /\ units \in Seq(Raw)
  BY DEF Coding
<1>2. n \in Nat /\ n >= 1 /\ units[n] \in Raw
  BY <1>1
<1>3. c \in Components
  BY <1>2 DEF ComponentOf, Components
<1>4. QED
  BY <1>1, <1>2, <1>3, UnitIsNear

LEMMA RoundsFromCoding ==
  ASSUME \A q \in Qualities : q <= 97, Coding
  PROVE  RoundsToNearest
<1> SUFFICES ASSUME NEW table \in {DQTinfo[quality].Ytable, DQTinfo[quality].Cbtable},
                    NEW i \in Coefficients, NEW x \in 0 .. LargestCoefficient,
                    NEW d, d = Divisor(table, i)
             PROVE  Quantise(x, compute_reciprocal(d)) = (x + d \div 2) \div d
  BY DEF RoundsToNearest
<1>1. quality \in Qualities /\ quality <= 97
  BY DEF Coding
<1>2. Fits(Step(table, i)) /\ d = (Step(table, i) + 1024) \div 2048
  BY <1>1, TablesFit DEF Divisor, Step
<1>3. d \in Nat /\ 3 <= d /\ d <= 4095
  BY <1>2, DivisorFits
<1>4. x \in Nat /\ x <= 16383
  BY DEF LargestCoefficient
<1> DEFINE m == (x + d \div 2) \div d
<1>5. Rounded(m, x, d)
  BY DEF Rounded
<1> HIDE DEF m
<1>6. Quantise(x, compute_reciprocal(d)) = m
  BY <1>3, <1>4, <1>5, DivisionIsExact
<1>7. QED
  BY <1>6 DEF m

\* Every level is the nearest one to its coefficient, and the tables that
\* GetDQTinfo sends in another order scale it back to within half a step, for all
\* pictures and every quality up to 97.  BlockEncoder sets up 90, 95 and 98 and
\* codes at 95; from 98 on some divisors are 1 or 2 and do not fit.
THEOREM PicturesAreClose ==
  ASSUME \A q \in Qualities : q <= 97
  PROVE  Spec => []PictureIsClose
<1>1. Coding => PictureIsClose
  BY CloseFromCoding, RoundsFromCoding DEF PictureIsClose
<1>2. QED
  BY <1>1, CodingInit, CodingNext, PTL DEF Spec
=============================================================================
