--------------------------- MODULE LiveQuality_proofs ---------------------------
(***************************************************************************)
(* The advice of the preview and the frame of a burst, for every set of    *)
(* pictures, every size of a burst and every threshold of the bundle.      *)
(***************************************************************************)
EXTENDS LiveQualityInv, FiniteSetTheorems, SequenceTheorems, WellFoundedInduction, TLAPS

-------------------------------------------------------------------------------
(* Smallest and largest numbers.                                                *)

LEMMA SmallestNumber ==
  ASSUME NEW S \in SUBSET Nat, S # {}
  PROVE  \E m \in S : \A x \in S : m <= x
<1> DEFINE R == {ss \in Nat \X Nat : ss[1] < ss[2]}
<1>1. IsWellFoundedOn(R, Nat)
  BY NatLessThanWellFounded DEF OpToRel
<1>2. PICK m \in S : \A x \in S : ~(<<x, m>> \in R)
  <2> HIDE DEF R
  <2>1. QED
    BY <1>1, WFMin
<1>3. ASSUME NEW x \in S PROVE m <= x
  <2>1. m \in Nat /\ x \in Nat /\ <<x, m>> \notin R
    BY <1>2
  <2>2. QED
    BY <2>1
<1>4. QED
  BY <1>3

\* A function with integer values that are bounded below has a smallest one.
LEMMA SmallestValue ==
  ASSUME NEW T, T # {}, NEW f \in [T -> Int], NEW b \in Int, \A i \in T : b <= f[i]
  PROVE  \E i \in T : \A j \in T : f[i] <= f[j]
<1> DEFINE S == {f[i] - b : i \in T}
<1>1. S \in SUBSET Nat /\ S # {}
  OBVIOUS
<1>2. PICK m \in S : \A x \in S : m <= x
  <2> HIDE DEF S
  <2>1. QED
    BY <1>1, SmallestNumber
<1>3. PICK i \in T : m = f[i] - b
  BY <1>2
<1>4. ASSUME NEW j \in T PROVE f[i] <= f[j]
  <2>1. m <= f[j] - b
    BY <1>2
  <2>2. f[i] \in Int /\ f[j] \in Int
    OBVIOUS
  <2>3. QED
    BY <1>3, <2>1, <2>2
<1>5. QED
  BY <1>4

\* Of the smallest values, one has the first index.
LEMMA FirstSmallest ==
  ASSUME NEW T \in SUBSET Nat, T # {}, NEW f \in [T -> Int], NEW b \in Int,
         \A i \in T : b <= f[i]
  PROVE  \E i \in T : \A j \in T : f[i] < f[j] \/ (f[i] = f[j] /\ i <= j)
<1> DEFINE S == {i \in T : \A j \in T : f[i] <= f[j]}
<1>1. S # {} /\ S \in SUBSET Nat
  BY SmallestValue
<1>2. PICK i \in S : \A x \in S : i <= x
  <2> HIDE DEF S
  <2>1. QED
    BY <1>1, SmallestNumber
<1>3. ASSUME NEW j \in T PROVE f[i] < f[j] \/ (f[i] = f[j] /\ i <= j)
  <2>1. f[i] \in Int /\ f[j] \in Int /\ f[i] <= f[j]
    BY <1>2
  <2>2. CASE f[i] = f[j]
    <3>1. j \in S
      BY <1>2, <2>2
    <3>2. QED
      BY <1>2, <2>2, <3>1
  <2>3. CASE f[i] # f[j]
    BY <2>1, <2>3
  <2>4. QED
    BY <2>2, <2>3
<1>4. QED
  BY <1>2, <1>3

LEMMA LeastIsSmallest ==
  ASSUME NEW S \in SUBSET Int, S # {}, NEW b \in Int, \A x \in S : b <= x
  PROVE  Least(S) \in S /\ \A x \in S : Least(S) <= x
<1>1. PICK i \in S : \A j \in S : [x \in S |-> x][i] <= [x \in S |-> x][j]
  BY SmallestValue
<1>2. \A j \in S : i <= j
  BY <1>1
<1>3. QED
  BY <1>2 DEF Least

\* The values of a finite sequence of numbers are bounded: a shortest sequence whose
\* values are not would have a shorter one.
LEMMA BoundedValues ==
  ASSUME NEW n \in Nat, NEW f \in [1..n -> Nat]
  PROVE  \E b \in Nat : \A i \in 1..n : f[i] <= b
<1> DEFINE Bounded(k) == \A g \in [1..k -> Nat] : \E b \in Nat : \A i \in 1..k : g[i] <= b
           S == {k \in Nat : ~Bounded(k)}
<1>1. S = {}
  <2> SUFFICES ASSUME S # {} PROVE FALSE
    OBVIOUS
  <2>1. PICK m \in S : \A k \in S : m <= k
    <3>1. S \in SUBSET Nat
      OBVIOUS
    <3> HIDE DEF S
    <3>2. QED
      BY <3>1, SmallestNumber
  <2>2. m \in Nat /\ ~Bounded(m)
    BY <2>1
  <2>3. PICK g \in [1..m -> Nat] : ~\E b \in Nat : \A i \in 1..m : g[i] <= b
    BY <2>2
  <2>4. m # 0
    <3>1. m = 0 => \A i \in 1..m : g[i] <= 0
      OBVIOUS
    <3>2. QED
      BY <2>3, <3>1
  <2>5. m - 1 \in Nat /\ m - 1 \notin S
    <3>1. m - 1 \in Nat /\ ~(m <= m - 1)
      BY <2>2, <2>4
    <3> HIDE DEF S
    <3>2. QED
      BY <2>1, <3>1
  <2>6. Bounded(m - 1)
    BY <2>5
  <2>7. [i \in 1..(m - 1) |-> g[i]] \in [1..(m - 1) -> Nat]
    <3>1. 1..(m - 1) \subseteq 1..m
      BY <2>2
    <3>2. QED
      BY <3>1
  <2>8. PICK b \in Nat : \A i \in 1..(m - 1) : g[i] <= b
    <3>1. PICK b \in Nat : \A i \in 1..(m - 1) : [j \in 1..(m - 1) |-> g[j]][i] <= b
      BY <2>6, <2>7
    <3>2. QED
      BY <3>1
  <2>9. PICK v \in Nat : v = g[m]
    BY <2>2, <2>4
  <2>10. ASSUME NEW i \in 1..m PROVE g[i] <= b + v
    <3> HIDE DEF Bounded, S
    <3>1. i = m \/ i \in 1..(m - 1)
      BY <2>2
    <3>2. g[i] \in Nat
      OBVIOUS
    <3>3. CASE i = m
      BY <2>9, <3>3
    <3>4. CASE i \in 1..(m - 1)
      <4>1. g[i] <= b /\ b <= b + v
        BY <2>8, <3>4
      <4>2. b \in Nat /\ v \in Nat /\ b + v \in Nat
        OBVIOUS
      <4>3. \A x, y, z \in Nat : x <= y /\ y <= z => x <= z
        OBVIOUS
      <4>4. QED
        BY <3>2, <4>1, <4>2, <4>3
    <3>5. QED
      BY <3>1, <3>3, <3>4
  <2>11. b + v \in Nat
    OBVIOUS
  <2>12. QED
    BY <2>3, <2>10, <2>11
<1>2. Bounded(n)
  BY <1>1
<1>3. QED
  BY <1>2

-------------------------------------------------------------------------------
(* The primary face and the order of the ranking.                               *)

\* Among the faces there is a largest one; the first of the largest is the primary.
LEMMA PrimaryIsAFace ==
  ASSUME NEW faces \in Seq(Faces), faces # <<>>
  PROVE  Primary(faces) \in DOMAIN faces
<1> DEFINE n == Len(faces)
           candidates == {i \in DOMAIN faces : faces[i].confidence >= MinConfidence
                                               /\ faces[i].coverage >= MinCoverage}
           pool == IF candidates # {} THEN candidates ELSE DOMAIN faces
<1>1. n \in Nat \ {0} /\ DOMAIN faces = 1..n /\ \A i \in 1..n : faces[i] \in Faces
  OBVIOUS
<1>2. pool \subseteq 1..n /\ pool # {}
  BY <1>1
<1>3. [i \in 1..n |-> faces[i].coverage] \in [1..n -> Nat]
  BY <1>1 DEF Faces
<1>4. PICK b \in Nat : \A i \in 1..n : faces[i].coverage <= b
  <2>1. PICK b \in Nat : \A i \in 1..n : [j \in 1..n |-> faces[j].coverage][i] <= b
    BY <1>1, <1>3, BoundedValues
  <2>2. QED
    BY <2>1
<1> HIDE DEF pool
<1>5. \A i \in pool : -faces[i].coverage \in Int /\ -b <= -faces[i].coverage
  BY <1>1, <1>2, <1>4 DEF Faces
<1>6. pool \in SUBSET Nat
  BY <1>1, <1>2
<1> DEFINE g == [i \in pool |-> -faces[i].coverage]
<1>7. g \in [pool -> Int] /\ -b \in Int /\ \A i \in pool : -b <= g[i]
  BY <1>4, <1>5
<1>8. PICK i \in pool : \A j \in pool : g[i] < g[j] \/ (g[i] = g[j] /\ i <= j)
  <2> HIDE DEF g
  <2>1. QED
    BY <1>2, <1>6, <1>7, FirstSmallest
<1>9. i \in pool
  OBVIOUS
<1>10. \A j \in pool : \/ faces[i].coverage > faces[j].coverage
                       \/ faces[i].coverage = faces[j].coverage /\ i <= j
  <2>1. \A j \in pool : faces[i].coverage \in Nat /\ faces[j].coverage \in Nat
    BY <1>1, <1>2, <1>9 DEF Faces
  <2>2. QED
    BY <1>8, <2>1
<1>11. Primary(faces) \in pool
  <2>1. Primary(faces) = CHOOSE x \in pool : \A j \in pool :
          \/ faces[x].coverage > faces[j].coverage
          \/ faces[x].coverage = faces[j].coverage /\ x <= j
    BY DEF Primary, pool
  <2>2. QED
    BY <1>9, <1>10, <2>1
<1>12. QED
  BY <1>1, <1>2, <1>11

\* The elements of T whose n-th key is the smallest.
Minimal(K, T, n) == {i \in T : \A j \in T : K[i][n] <= K[j][n]}

\* There are such elements, and every other one has a larger key.
LEMMA MinimalValues ==
  ASSUME NEW K, NEW T, T # {}, NEW n, NEW b \in Int,
         \A i \in T : K[i][n] \in Int /\ b <= K[i][n]
  PROVE  /\ Minimal(K, T, n) # {} /\ Minimal(K, T, n) \subseteq T
         /\ \A i \in Minimal(K, T, n) : \A j \in T :
              j \in Minimal(K, T, n) \/ K[i][n] < K[j][n]
         /\ \A i, j \in Minimal(K, T, n) : K[i][n] = K[j][n]
<1> DEFINE g == [i \in T |-> K[i][n]]
<1>1. g \in [T -> Int] /\ \A i \in T : b <= g[i]
  OBVIOUS
<1>2. \E i \in T : \A j \in T : g[i] <= g[j]
  <2> HIDE DEF g
  <2>1. QED
    BY <1>1, SmallestValue
<1>3. Minimal(K, T, n) # {} /\ Minimal(K, T, n) \subseteq T
  BY <1>2 DEF Minimal
<1>4. ASSUME NEW i \in Minimal(K, T, n), NEW j \in T
      PROVE  j \in Minimal(K, T, n) \/ K[i][n] < K[j][n]
  <2>1. i \in T /\ \A x \in T : K[i][n] <= K[x][n]
    BY DEF Minimal
  <2>2. CASE K[j][n] <= K[i][n]
    <3>1. \A x \in T : K[j][n] <= K[x][n]
      BY <2>1, <2>2
    <3>2. QED
      BY <3>1 DEF Minimal
  <2>3. CASE ~(K[j][n] <= K[i][n])
    BY <2>1, <2>3
  <2>4. QED
    BY <2>2, <2>3
<1>5. ASSUME NEW i \in Minimal(K, T, n), NEW j \in Minimal(K, T, n) PROVE K[i][n] = K[j][n]
  <2>1. /\ K[i][n] <= K[j][n] /\ K[j][n] <= K[i][n]
        /\ K[i][n] \in Int /\ K[j][n] \in Int
    BY DEF Minimal
  <2>2. QED
    BY <2>1
<1>6. QED
  BY <1>3, <1>4, <1>5

\* A set that is ordered by five numbers, the last of which tells its elements apart,
\* has a first element.
LEMMA FirstInOrder ==
  ASSUME NEW E, E # {}, NEW K, NEW b \in Int,
         \A i \in E : DOMAIN K[i] = 1..5 /\ \A n \in 1..5 : K[i][n] \in Int /\ b <= K[i][n],
         \A i, j \in E : K[i][5] = K[j][5] => i = j
  PROVE  \E i \in E : \A j \in E \ {i} : Before(K[i], K[j])
<1>1. ASSUME NEW T \in SUBSET E, T # {}, NEW n \in 1..5
      PROVE  /\ Minimal(K, T, n) # {} /\ Minimal(K, T, n) \subseteq T
             /\ \A i \in Minimal(K, T, n) : \A j \in T :
                  j \in Minimal(K, T, n) \/ K[i][n] < K[j][n]
             /\ \A i, j \in Minimal(K, T, n) : K[i][n] = K[j][n]
  <2>1. \A i \in T : K[i][n] \in Int /\ b <= K[i][n]
    BY <1>1
  <2>2. QED
    BY <1>1, <2>1, MinimalValues
<1> DEFINE T1 == Minimal(K, E, 1)
           T2 == Minimal(K, T1, 2)
           T3 == Minimal(K, T2, 3)
           T4 == Minimal(K, T3, 4)
           T5 == Minimal(K, T4, 5)
<1>2. /\ T1 # {} /\ T1 \subseteq E
      /\ \A i \in T1 : \A j \in E : j \in T1 \/ K[i][1] < K[j][1]
      /\ \A i, j \in T1 : K[i][1] = K[j][1]
  BY <1>1
<1>3. /\ T2 # {} /\ T2 \subseteq E /\ T2 \subseteq T1
      /\ \A i \in T2 : \A j \in T1 : j \in T2 \/ K[i][2] < K[j][2]
      /\ \A i, j \in T2 : K[i][2] = K[j][2]
  <2> HIDE DEF T1
  <2>1. QED
    BY <1>1, <1>2
<1>4. /\ T3 # {} /\ T3 \subseteq E /\ T3 \subseteq T2
      /\ \A i \in T3 : \A j \in T2 : j \in T3 \/ K[i][3] < K[j][3]
      /\ \A i, j \in T3 : K[i][3] = K[j][3]
  <2> HIDE DEF T1, T2
  <2>1. QED
    BY <1>1, <1>3
<1>5. /\ T4 # {} /\ T4 \subseteq E /\ T4 \subseteq T3
      /\ \A i \in T4 : \A j \in T3 : j \in T4 \/ K[i][4] < K[j][4]
      /\ \A i, j \in T4 : K[i][4] = K[j][4]
  <2> HIDE DEF T1, T2, T3
  <2>1. QED
    BY <1>1, <1>4
<1>6. /\ T5 # {} /\ T5 \subseteq T4
      /\ \A i \in T5 : \A j \in T4 : j \in T5 \/ K[i][5] < K[j][5]
      /\ \A i, j \in T5 : K[i][5] = K[j][5]
  <2> HIDE DEF T1, T2, T3, T4
  <2>1. QED
    BY <1>1, <1>5
<1> HIDE DEF T1, T2, T3, T4, T5
<1>7. PICK i \in T5 : TRUE
  BY <1>6
<1>8. i \in T1 /\ i \in T2 /\ i \in T3 /\ i \in T4 /\ i \in E /\ DOMAIN K[i] = 1..5
  BY <1>2, <1>3, <1>4, <1>5, <1>6, <1>7
<1>9. ASSUME NEW j \in E \ {i} PROVE Before(K[i], K[j])
  <2>1. CASE j \notin T1
    <3>1. K[i][1] < K[j][1]
      BY <1>2, <1>8, <2>1
    <3>2. QED
      BY <1>8, <3>1 DEF Before
  <2>2. CASE j \in T1 /\ j \notin T2
    <3>1. K[i][2] < K[j][2] /\ \A m \in 1..1 : K[i][m] = K[j][m]
      BY <1>2, <1>3, <1>8, <2>2
    <3>2. QED
      BY <1>8, <3>1 DEF Before
  <2>3. CASE j \in T2 /\ j \notin T3
    <3>1. K[i][1] = K[j][1] /\ K[i][2] = K[j][2] /\ K[i][3] < K[j][3]
      BY <1>2, <1>3, <1>4, <1>8, <2>3
    <3>2. \A m \in 1..2 : m = 1 \/ m = 2
      OBVIOUS
    <3>3. QED
      BY <1>8, <3>1, <3>2 DEF Before
  <2>4. CASE j \in T3 /\ j \notin T4
    <3>1. /\ K[i][1] = K[j][1] /\ K[i][2] = K[j][2] /\ K[i][3] = K[j][3]
          /\ K[i][4] < K[j][4]
      BY <1>2, <1>3, <1>4, <1>5, <1>8, <2>4
    <3>2. \A m \in 1..3 : m = 1 \/ m = 2 \/ m = 3
      OBVIOUS
    <3>3. QED
      BY <1>8, <3>1, <3>2 DEF Before
  <2>5. CASE j \in T4
    <3>1. j \notin T5
      BY <1>6, <1>7, <1>8
    <3>2. /\ K[i][1] = K[j][1] /\ K[i][2] = K[j][2] /\ K[i][3] = K[j][3]
          /\ K[i][4] = K[j][4] /\ K[i][5] < K[j][5]
      BY <1>2, <1>3, <1>4, <1>5, <1>6, <1>7, <1>8, <2>5, <3>1
    <3>3. \A m \in 1..4 : m = 1 \/ m = 2 \/ m = 3 \/ m = 4
      OBVIOUS
    <3>4. QED
      BY <1>8, <3>2, <3>3 DEF Before
  <2>6. QED
    BY <2>1, <2>2, <2>3, <2>4, <2>5
<1>10. QED
  BY <1>8, <1>9

\* The frame that is selected is eligible and before every other eligible one.
LEMMA SelectedIsFirst ==
  ASSUME NEW frames \in Seq(Assessments), Eligible(frames) # {}
  PROVE  /\ Selected(frames) \in Eligible(frames)
         /\ \A j \in Eligible(frames) \ {Selected(frames)} : Before(Keys(frames, Selected(frames)), Keys(frames, j))
<1> DEFINE E == Eligible(frames)
           n == Len(frames)
<1>1. n \in Nat /\ DOMAIN frames = 1..n /\ \A i \in 1..n : frames[i] \in Assessments
  <2>1. n \in Nat
    OBVIOUS
  <2>2. DOMAIN frames = 1..n
    OBVIOUS
  <2>3. \A i \in 1..n : frames[i] \in Assessments
    OBVIOUS
  <2>4. QED
    BY <2>1, <2>2, <2>3
<1>2. E \subseteq 1..n
  BY <1>1 DEF Eligible
<1>3. \A i \in E : i \in Nat /\ 0 <= i /\ -n <= -i
  <2>1. n \in Nat /\ E \subseteq 1..n
    BY <1>1, <1>2
  <2> HIDE DEF E, n
  <2>2. QED
    BY <2>1
<1>4. \A i \in E : frames[i] \in Assessments
  BY <1>1, <1>2
<1> HIDE DEF E, n
<1>5. Least(E) \in Nat
  <2>1. E # {}
    BY DEF E
  <2>2. E \in SUBSET Int
    BY <1>3
  <2>3. Least(E) \in E
    BY <1>3, <2>1, <2>2, LeastIsSmallest
  <2>4. QED
    BY <1>3, <2>3
<1> DEFINE Last == CHOOSE m \in E : \A j \in E : m >= j
<1>6. Last \in Nat
  <2> DEFINE g == [i \in E |-> -i]
  <2>1. g \in [E -> Int] /\ -n \in Int /\ \A i \in E : -n <= g[i]
    BY <1>1, <1>3
  <2>2. \E i \in E : \A j \in E : g[i] <= g[j]
    <3>1. E # {}
      BY DEF E
    <3> HIDE DEF g
    <3>2. QED
      BY <2>1, <3>1, SmallestValue
  <2>3. \E m \in E : \A j \in E : m >= j
    BY <1>3, <2>2
  <2>4. Last \in E
    BY <2>3
  <2> HIDE DEF Last
  <2>5. QED
    BY <1>3, <2>4
<1>7. ASSUME NEW i \in E PROVE OffMiddle(frames, i) \in Nat
  <2>1. OffMiddle(frames, i) = IF 2 * i - Least(E) - Last < 0 THEN -(2 * i - Least(E) - Last)
                           ELSE 2 * i - Least(E) - Last
    BY DEF OffMiddle, E
  <2> HIDE DEF Last
  <2>2. QED
    BY <1>3, <1>5, <1>6, <2>1
<1> DEFINE K == [i \in E |-> Keys(frames, i)]
<1>8. ASSUME NEW i \in E
      PROVE  /\ DOMAIN K[i] = 1..5 /\ K[i][5] = i
             /\ \A m \in 1..5 : K[i][m] \in Int /\ 0 - 100 <= K[i][m]
  <2>1. /\ -frames[i].overall \in Int /\ 0 - 100 <= -frames[i].overall
        /\ -frames[i].confidence \in Int /\ 0 - 100 <= -frames[i].confidence
        /\ frames[i].distance2 \in Nat
    <3>1. frames[i].overall \in 0..100 /\ frames[i].confidence \in 0..100 /\ frames[i].distance2 \in Nat
      BY <1>4 DEF Assessments
    <3>2. \A x \in 0..100 : -x \in Int /\ 0 - 100 <= -x
      OBVIOUS
    <3>3. QED
      BY <3>1, <3>2
  <2>2. i \in Nat /\ OffMiddle(frames, i) \in Nat
    BY <1>3, <1>7
  <2>3. K[i] = <<-frames[i].overall, -frames[i].confidence, frames[i].distance2, OffMiddle(frames, i), i>>
    BY DEF Keys
  <2> HIDE DEF K
  <2>4. DOMAIN K[i] = 1..5 /\ K[i][5] = i
    BY <2>3
  <2>5. ASSUME NEW m \in 1..5 PROVE K[i][m] \in Int /\ 0 - 100 <= K[i][m]
    <3>1. m = 1 \/ m = 2 \/ m = 3 \/ m = 4 \/ m = 5
      OBVIOUS
    <3>2. CASE m = 1
      BY <2>1, <2>3, <3>2
    <3>3. CASE m = 2
      BY <2>1, <2>3, <3>3
    <3>4. CASE m = 3
      BY <2>1, <2>3, <3>4
    <3>5. CASE m = 4
      BY <2>2, <2>3, <3>5
    <3>6. CASE m = 5
      BY <2>2, <2>3, <3>6
    <3>7. QED
      BY <3>1, <3>2, <3>3, <3>4, <3>5, <3>6
  <2>6. QED
    BY <2>4, <2>5
<1>9. \E i \in E : \A j \in E \ {i} : Before(K[i], K[j])
  <2>1. E # {}
    BY DEF E
  <2> HIDE DEF K
  <2>2. \A i, j \in E : K[i][5] = K[j][5] => i = j
    BY <1>8
  <2>3. \A i \in E : DOMAIN K[i] = 1..5 /\ \A m \in 1..5 : K[i][m] \in Int /\ 0 - 100 <= K[i][m]
    BY <1>8
  <2>4. PICK b \in Int : b = 0 - 100
    OBVIOUS
  <2>5. \A i \in E : DOMAIN K[i] = 1..5 /\ \A m \in 1..5 : K[i][m] \in Int /\ b <= K[i][m]
    BY <2>3, <2>4
  <2>6. QED
    BY <2>1, <2>2, <2>5, FirstInOrder
<1>10. \E i \in E : \A j \in E \ {i} : Before(Keys(frames, i), Keys(frames, j))
  BY <1>9
<1>11. QED
  BY <1>10 DEF Selected, E

-------------------------------------------------------------------------------
(* The scores and the assessment of a picture.                                  *)

LEMMA LeastScore ==
  ASSUME NEW S \in SUBSET (0..100), S # {}
  PROVE  Least(S) \in 0..100
<1>1. S \in SUBSET Int /\ \A x \in S : 0 <= x
  OBVIOUS
<1>2. Least(S) \in S
  BY <1>1, LeastIsSmallest
<1>3. QED
  BY <1>2

LEMMA PercentRange ==
  ASSUME NEW a \in Int, NEW b \in {8, 15, 25, 35, 40, 50, 100}
  PROVE  Percent(a, b) \in 0..100
<1>1. CASE a <= 0
  BY <1>1 DEF Percent
<1>2. CASE a > 0
  <2> DEFINE q == (100 * a) \div b
  <2>1. q \in Nat
    BY <1>2
  <2> HIDE DEF q
  <2>2. {100, q} \in SUBSET Int /\ \A x \in {100, q} : 0 <= x
    BY <2>1
  <2>3. Least({100, q}) \in {100, q} /\ Least({100, q}) <= 100
    BY <2>2, LeastIsSmallest
  <2>4. Percent(a, b) = Least({100, q})
    BY <1>2 DEF Percent, q
  <2>5. QED
    BY <2>1, <2>3, <2>4
<1>3. QED
  BY <1>1, <1>2

LEMMA SquareType ==
  ASSUME NEW n \in Int
  PROVE  Square(n) \in Nat
BY DEF Square

LEMMA DistanceType ==
  ASSUME NEW face \in Faces
  PROVE  Distance2(face) \in Nat
<1>1. face.x - 50 \in Int /\ face.y - 50 \in Int
  BY DEF Faces
<1>2. Square(face.x - 50) \in Nat /\ Square(face.y - 50) \in Nat
  BY <1>1, SquareType
<1>3. QED
  BY <1>2 DEF Distance2

\* The distance to the center has a score: the largest one that is not too high.
LEMMA CenterScoreRange ==
  ASSUME NEW face \in Faces
  PROVE  CenterScore(face) \in 0..100
<1> DEFINE D == Distance2(face)
           P(s) == /\ Square(100 - s) * MaxDistance2 >= 10000 * D
                   /\ s = 100 \/ Square(99 - s) * MaxDistance2 < 10000 * D
<1>1. D \in Nat /\ MaxDistance2 = 1525
  BY DistanceType DEF MaxDistance2
<1> HIDE DEF D
<1>2. CASE D >= MaxDistance2
  BY <1>2 DEF CenterScore, D
<1>3. CASE ~(D >= MaxDistance2)
  <2> DEFINE S == {t \in 0..100 : Square(t) * 1525 >= 10000 * D}
  <2>1. 100 \in S
    <3>1. Square(100) = 10000
      BY DEF Square
    <3>2. QED
      BY <1>1, <1>3, <3>1
  <2>2. PICK m \in S : \A t \in S : m <= t
    <3>1. S \in SUBSET Nat /\ S # {}
      BY <2>1
    <3> HIDE DEF S
    <3>2. QED
      BY <3>1, SmallestNumber
  <2>3. m \in 0..100 /\ Square(m) * 1525 >= 10000 * D
    BY <2>2
  <2>4. m = 0 \/ Square(m - 1) * 1525 < 10000 * D
    <3>1. CASE m = 0
      BY <3>1
    <3>2. CASE m # 0
      <4>1. m - 1 \in 0..100 /\ ~(m <= m - 1)
        BY <2>3, <3>2
      <4>2. m - 1 \notin S
        <5> HIDE DEF S
        <5>1. QED
          BY <2>2, <4>1
      <4>3. ~(Square(m - 1) * 1525 >= 10000 * D)
        BY <4>1, <4>2
      <4>4. Square(m - 1) \in Nat
        BY <4>1, SquareType
      <4>5. QED
        BY <1>1, <4>3, <4>4
    <3>3. QED
      BY <3>1, <3>2
  <2>5. 100 - m \in 0..100 /\ 100 - (100 - m) = m /\ 99 - (100 - m) = m - 1
        /\ (m = 0 => 100 - m = 100)
    BY <2>3
  <2>6. P(100 - m)
    BY <1>1, <2>3, <2>4, <2>5
  <2>7. (CHOOSE s \in 0..100 : P(s)) \in 0..100
    <3> HIDE DEF P
    <3>1. QED
      BY <2>5, <2>6
  <2>8. CenterScore(face) = CHOOSE s \in 0..100 : P(s)
    BY <1>3 DEF CenterScore, D
  <2>9. QED
    BY <2>7, <2>8
<1>4. QED
  BY <1>2, <1>3

LEMMA ExposureScoreRange ==
  ASSUME NEW f \in Pictures
  PROVE  ExposureScore(f) \in 0..100
<1>1. f.mean \in 0..100 /\ f.dark \in 0..100 /\ f.bright \in 0..100
  BY DEF Pictures
<1>2. /\ Percent(f.mean, MinMean) \in 0..100
      /\ Percent(100 - f.mean, 100 - MaxMean) \in 0..100
      /\ Percent(f.dark, MaxDark) \in 0..100
      /\ Percent(f.bright, MaxBright) \in 0..100
  <2>1. /\ MinMean = 25 /\ 100 - MaxMean = 15 /\ MaxDark = 40 /\ MaxBright = 35
        /\ f.mean \in Int /\ 100 - f.mean \in Int /\ f.dark \in Int /\ f.bright \in Int
    BY <1>1 DEF MinMean, MaxMean, MaxDark, MaxBright
  <2>2. QED
    BY <2>1, PercentRange
<1> DEFINE mean == IF f.mean < MinMean THEN Percent(f.mean, MinMean)
                   ELSE IF f.mean > MaxMean THEN Percent(100 - f.mean, 100 - MaxMean)
                   ELSE 100
           S == {mean, 100 - Percent(f.dark, MaxDark), 100 - Percent(f.bright, MaxBright)}
<1>3. S \in SUBSET (0..100) /\ S # {}
  BY <1>2
<1>4. ExposureScore(f) = Least(S)
  BY DEF ExposureScore
<1> HIDE DEF S
<1>5. QED
  BY <1>3, <1>4, LeastScore

LEMMA FaceScoreRange ==
  ASSUME NEW face \in Faces
  PROVE  FaceScore(face) \in 0..100
<1>1. face.confidence \in Int /\ face.coverage \in Int /\ 100 - face.coverage \in Int
  BY DEF Faces
<1>2. MinConfidence = 50 /\ MinCoverage = 8 /\ 100 - MaxCoverage = 40
  BY DEF MinConfidence, MinCoverage, MaxCoverage
<1>3. /\ Percent(face.confidence, MinConfidence) \in 0..100
      /\ Percent(face.coverage, MinCoverage) \in 0..100
      /\ Percent(100 - face.coverage, 100 - MaxCoverage) \in 0..100
  BY <1>1, <1>2, PercentRange
<1>4. CenterScore(face) \in 0..100
  BY CenterScoreRange
<1> DEFINE S == {CenterScore(face), Percent(face.confidence, MinConfidence),
                 IF face.coverage < MinCoverage THEN Percent(face.coverage, MinCoverage)
                 ELSE IF face.coverage > MaxCoverage
                 THEN Percent(100 - face.coverage, 100 - MaxCoverage) ELSE 100}
<1>5. S \in SUBSET (0..100) /\ S # {}
  BY <1>3, <1>4
<1>6. FaceScore(face) = Least(S)
  BY DEF FaceScore
<1> HIDE DEF S
<1>7. QED
  BY <1>5, <1>6, LeastScore

LEMMA OverallQualityRange ==
  ASSUME NEW f \in Pictures
  PROVE  OverallQuality(f) \in 0..100
<1>1. f.contrast \in Int /\ f.sharpness \in Int /\ f.faces \in Seq(Faces)
  BY DEF Pictures
<1>2. MinContrast = 8 /\ BlurThreshold = 100
  BY DEF MinContrast, BlurThreshold
<1>3. Percent(f.contrast, MinContrast) \in 0..100 /\ Percent(f.sharpness, BlurThreshold) \in 0..100
  BY <1>1, <1>2, PercentRange
<1>4. Len(f.faces) = 1 => FaceScore(f.faces[1]) \in 0..100
  <2>1. Len(f.faces) = 1 => f.faces[1] \in Faces
    BY <1>1
  <2>2. QED
    BY <2>1, FaceScoreRange
<1> DEFINE S == {ExposureScore(f), Percent(f.contrast, MinContrast),
                 Percent(f.sharpness, BlurThreshold)}
                \cup IF Len(f.faces) = 1 THEN {FaceScore(f.faces[1])} ELSE {}
<1>5. S \in SUBSET (0..100) /\ S # {}
  BY <1>3, <1>4, ExposureScoreRange
<1>6. OverallQuality(f) = Least(S)
  BY DEF OverallQuality
<1> HIDE DEF S
<1>7. QED
  BY <1>5, <1>6, LeastScore

LEMMA ReasonsAreCodes ==
  ASSUME NEW f
  PROVE  Reasons(f) \subseteq ReasonCodes
<1>1. FaceReasons(f.faces) \subseteq ReasonCodes
  BY DEF FaceReasons, ReasonCodes
<1>2. ImageReasons(f) \subseteq ReasonCodes
  BY DEF ImageReasons, ReasonCodes
<1>3. EyeReasons(f) \subseteq ReasonCodes
  BY DEF EyeReasons, ReasonCodes
<1>4. QED
  BY <1>1, <1>2, <1>3 DEF Reasons, ReasonCodes

LEMMA AssessmentType ==
  ASSUME NEW f \in Pictures
  PROVE  Assessment(f) \in Assessments
<1>1. Reasons(f) \in SUBSET ReasonCodes
  BY ReasonsAreCodes
<1>2. Disposition(f) \in {"ELIGIBLE", "INELIGIBLE", "ANALYSIS_UNAVAILABLE"}
  BY DEF Disposition
<1>3. Disposition(f) = "INELIGIBLE" => Reasons(f) # {}
  BY DEF Disposition
<1>4. f.faces # <<>> =>
        /\ f.faces[Primary(f.faces)].confidence \in 0..100
        /\ Distance2(f.faces[Primary(f.faces)]) \in Nat
  <2> SUFFICES ASSUME f.faces # <<>>
               PROVE  /\ f.faces[Primary(f.faces)].confidence \in 0..100
                      /\ Distance2(f.faces[Primary(f.faces)]) \in Nat
    OBVIOUS
  <2>1. f.faces \in Seq(Faces)
    BY DEF Pictures
  <2>2. Primary(f.faces) \in DOMAIN f.faces
    BY <2>1, PrimaryIsAFace
  <2>3. f.faces[Primary(f.faces)] \in Faces
    BY <2>1, <2>2
  <2>4. QED
    BY <2>3, DistanceType DEF Faces
<1>5. OverallQuality(f) \in 0..100
  BY OverallQualityRange
<1>6. QED
  BY <1>1, <1>2, <1>3, <1>4, <1>5 DEF Assessment, Assessments

LEMMA UnavailableType == UnavailableAssessment \in Assessments
BY DEF UnavailableAssessment, Assessments, ReasonCodes

-------------------------------------------------------------------------------
(* The reasons of a burst.                                                      *)

\* A burst in which some frame was found wanting, and none eligible, names a reason.
LEMMA AggregateIsNotEmpty ==
  ASSUME NEW frames \in Seq(Assessments), Eligible(frames) = {},
         NEW e \in DOMAIN frames, frames[e].disposition # "ANALYSIS_UNAVAILABLE"
  PROVE  AggregateReasons(frames) # {}
<1> DEFINE all == AllReasons(frames)
           common == {r \in all : CountOf(frames, r) >= ReasonAggregationMinimum}
           frequent == {r \in all : \A s \in all : CountOf(frames, s) <= CountOf(frames, r)}
<1>1. all # {}
  <2>1. frames[e] \in Assessments
    OBVIOUS
  <2>2. frames[e].disposition = "INELIGIBLE"
    BY <2>1 DEF Assessments, Eligible
  <2>3. PICK r \in frames[e].reasons : TRUE
    BY <2>1, <2>2 DEF Assessments
  <2>4. QED
    BY <2>3 DEF AllReasons
<1> HIDE DEF all
<1>2. ASSUME NEW r PROVE CountOf(frames, r) \in 0..Len(frames)
  <2> DEFINE n == Len(frames)
             S == {i \in 1..n : r \in frames[i].reasons}
  <2>1. n \in Nat /\ DOMAIN frames = 1..n
    OBVIOUS
  <2>2. CountOf(frames, r) = Cardinality(S)
    BY <2>1 DEF CountOf
  <2> HIDE DEF n
  <2>3. IsFiniteSet(1..n) /\ Cardinality(1..n) = n
    BY <2>1, FS_Interval
  <2>4. IsFiniteSet(S) /\ Cardinality(S) <= n
    BY <2>3, FS_Subset
  <2>5. Cardinality(S) \in Nat
    BY <2>4, FS_CardinalityType
  <2>6. QED
    BY <2>1, <2>2, <2>4, <2>5 DEF n
<1>3. frequent # {}
  <2> DEFINE g == [r \in all |-> -CountOf(frames, r)]
             b == -Len(frames)
  <2>1. Len(frames) \in Nat
    OBVIOUS
  <2>2. \A r \in all : CountOf(frames, r) \in Nat /\ CountOf(frames, r) <= Len(frames)
    BY <1>2, <2>1
  <2>3. g \in [all -> Int] /\ b \in Int /\ \A r \in all : b <= g[r]
    BY <2>1, <2>2
  <2>4. \E r \in all : \A s \in all : g[r] <= g[s]
    <3> HIDE DEF g, b
    <3>1. QED
      BY <1>1, <2>3, SmallestValue
  <2>5. \E r \in all : \A s \in all : CountOf(frames, s) <= CountOf(frames, r)
    BY <2>2, <2>4
  <2>6. QED
    BY <2>5
<1>4. AggregateReasons(frames) = IF common # {} \/ Eligible(frames) # {} \/ frequent = {} THEN common
                                 ELSE {CHOOSE r \in frequent : TRUE}
  BY DEF AggregateReasons, all
<1> HIDE DEF common, frequent
<1>5. QED
  BY <1>3, <1>4

-------------------------------------------------------------------------------
(* The invariant.                                                               *)

LEMMA LastOnesProperties ==
  ASSUME NEW S, NEW s \in Seq(S), s # <<>>
  PROVE  /\ LastOnes(s) \in Seq(S)
         /\ Len(LastOnes(s)) \in Nat /\ 1 <= Len(LastOnes(s))
         /\ Len(LastOnes(s)) <= Len(s) /\ Len(LastOnes(s)) <= Stabilization
         /\ Len(LastOnes(s)) = Len(s) \/ Len(LastOnes(s)) = Stabilization
         /\ \A i \in 1..Len(LastOnes(s)) :
              LastOnes(s)[i] = s[Len(s) - Len(LastOnes(s)) + i]
<1> DEFINE n == Len(s)
           k == Least({n, Stabilization})
<1>1. n \in Nat \ {0} /\ \A i \in 1..n : s[i] \in S
  OBVIOUS
<1>2. Stabilization \in Nat \ {0}
  BY LiveAssumption
<1>3. LastOnes(s) = SubSeq(s, n - k + 1, n)
  BY DEF LastOnes
<1> HIDE DEF n
<1>4. k = Least({n, Stabilization})
  OBVIOUS
<1> HIDE DEF k
<1>5. {n, Stabilization} \in SUBSET Int /\ \A x \in {n, Stabilization} : 0 <= x
  BY <1>1, <1>2
<1>6. k \in {n, Stabilization} /\ k <= n /\ k <= Stabilization
  <2> DEFINE T == {n, Stabilization}
  <2>1. T \in SUBSET Int /\ T # {} /\ \A x \in T : 0 <= x
    BY <1>5
  <2>2. k = Least(T)
    BY <1>4
  <2>3. n \in T /\ Stabilization \in T
    OBVIOUS
  <2> HIDE DEF T
  <2>4. k \in T /\ k <= n /\ k <= Stabilization
    BY <2>1, <2>2, <2>3, LeastIsSmallest
  <2>5. QED
    BY <2>4 DEF T
<1>7. k \in Nat /\ 1 <= k
  BY <1>1, <1>2, <1>6
<1> DEFINE m == n - k + 1
<1>8. m \in Int /\ n \in Int /\ m <= n /\ n - m + 1 = k /\ 1 <= m
  BY <1>1, <1>6, <1>7
<1>9. \A i \in 1..k : m + i - 1 = n - k + i
  BY <1>1, <1>7
<1> HIDE DEF m
<1>10. \A i \in m..n : s[i] \in S
  BY <1>1, <1>8
<1>11. /\ SubSeq(s, m, n) \in Seq(S)
       /\ Len(SubSeq(s, m, n)) = IF m <= n THEN n - m + 1 ELSE 0
       /\ \A i \in 1..(n - m + 1) : SubSeq(s, m, n)[i] = s[m + i - 1]
  <2>1. m \in Int /\ n \in Int
    BY <1>8
  <2>2. QED
    BY <2>1, <1>10, SubSeqProperties
<1>12. /\ SubSeq(s, m, n) \in Seq(S) /\ Len(SubSeq(s, m, n)) = k
       /\ \A i \in 1..k : SubSeq(s, m, n)[i] = s[m + i - 1]
  BY <1>8, <1>11
<1>13. LastOnes(s) = SubSeq(s, m, n)
  BY <1>3 DEF m
<1>14. /\ LastOnes(s) \in Seq(S) /\ Len(LastOnes(s)) = k
       /\ \A i \in 1..k : LastOnes(s)[i] = s[n - k + i]
  BY <1>9, <1>12, <1>13
<1>15. n = Len(s) /\ (k = n \/ k = Stabilization)
  BY <1>6 DEF n
<1>16. QED
  BY <1>6, <1>7, <1>14, <1>15

LEMMA InitQuality == Init => QualityInv
<1> SUFFICES ASSUME Init PROVE QualityInv
  OBVIOUS
<1>1. Stabilization \in Nat
  BY LiveAssumption
<1>2. RunInv
  BY <1>1 DEF Init, RunInv, Initial
<1>3. QED
  BY <1>2 DEF Init, QualityInv, BurstInv, PreviewInv, NoFrame

LEMMA DisableKeeps ==
  ASSUME RunInv, Disable
  PROVE  PreviewInv' /\ RunInv'
<1>1. Stabilization \in Nat
  BY LiveAssumption
<1>2. latest' = NoFrame /\ stabilizer' = Initial /\ recent' = <<>> /\ met' = met
  BY DEF Disable
<1>3. RunInv'
  BY <1>1, <1>2 DEF RunInv, Initial
<1>4. QED
  BY <1>2, <1>3 DEF PreviewInv

LEMMA AnalysedKeeps ==
  ASSUME PreviewInv, RunInv, NEW f \in Frames, Analysed(f)
  PROVE  PreviewInv' /\ RunInv'
<1> DEFINE category == CategoryOf[f]
           s == Append(recent, category)
           k == Len(LastOnes(s))
           count == stabilizer'.count
<1>1. Stabilization \in Nat \ {0} /\ stabilizer.count \in 0..Stabilization
      /\ recent \in Seq(Categories) /\ category \in Categories
  BY LiveAssumption DEF RunInv, Categories
<1>2. stabilizer' = Updated(category) /\ Available(f)
  BY DEF Analysed
<1>3. stabilizer'.category = category
  BY <1>2 DEF Updated
<1>4. /\ count \in 1..Stabilization
      /\ count = 1 \/ (category = stabilizer.category /\ count <= stabilizer.count + 1)
  <2>1. CASE category # stabilizer.category
    <3>1. count = 1
      BY <1>2, <2>1 DEF Updated
    <3>2. QED
      BY <1>1, <3>1
  <2>2. CASE category = stabilizer.category
    <3> DEFINE c == stabilizer.count + 1
    <3>1. count = Least({c, Stabilization})
      BY <1>2, <2>2 DEF Updated
    <3>2. c \in Nat /\ 1 <= c
      BY <1>1
    <3> HIDE DEF c, count
    <3>3. {c, Stabilization} \in SUBSET Int /\ \A x \in {c, Stabilization} : 0 <= x
      BY <1>1, <3>2
    <3>4. count \in {c, Stabilization} /\ count <= c /\ count <= Stabilization
      BY <3>1, <3>3, LeastIsSmallest
    <3>5. count \in 1..Stabilization
      BY <1>1, <3>2, <3>4
    <3>6. QED
      BY <2>2, <3>4, <3>5 DEF c
  <2>3. QED
    BY <2>1, <2>2
<1>5. CASE running = "late"
  <2>1. latest' = latest /\ recent' = recent /\ met' = met \cup {"lateAnalysis"}
    BY <1>5 DEF Analysed
  <2>2. count \in 0..Stabilization
    BY <1>1, <1>4
  <2>3. RunInv'
    BY <1>1, <2>1, <2>2 DEF RunInv, Categories
  <2>4. QED
    BY <2>1, <2>3 DEF PreviewInv
<1>6. CASE running # "late"
  <2>1. latest' = f /\ recent' = LastOnes(s) /\ met' = met
    BY <1>6 DEF Analysed
  <2> DEFINE n == Len(recent)
  <2>2. /\ n \in Nat /\ s \in Seq(Categories) /\ s # <<>> /\ Len(s) = n + 1
        /\ \A i \in 1..n : s[i] = recent[i]
        /\ s[n + 1] = category
    BY <1>1, AppendProperties
  <2>3. /\ k \in Nat /\ 1 <= k /\ k <= Len(s) /\ k <= Stabilization
        /\ (k = Len(s) \/ k = Stabilization)
        /\ LastOnes(s) \in Seq(Categories) /\ Len(LastOnes(s)) = k
        /\ \A i \in 1..k : LastOnes(s)[i] = s[Len(s) - k + i]
    <3>1. s \in Seq(Categories) /\ s # <<>>
      BY <2>2
    <3> HIDE DEF s, n
    <3>2. QED
      BY <3>1, LastOnesProperties
  <2> HIDE DEF s, k, count, category
  <2>4. ASSUME met = {}
        PROVE  /\ count <= k
               /\ \A i \in 1..k : i > k - count => LastOnes(s)[i] = category
    <3>1. /\ stabilizer.count <= n
          /\ \A i \in 1..n : i > n - stabilizer.count => recent[i] = stabilizer.category
      BY <2>4 DEF RunInv, n
    <3> HIDE DEF n
    <3>2. count <= k
      <4>1. count <= n + 1
        BY <1>1, <1>4, <2>2, <3>1
      <4>2. QED
        BY <1>1, <1>4, <2>2, <2>3, <4>1
    <3>3. ASSUME NEW i \in 1..k, i > k - count
          PROVE  LastOnes(s)[i] = category
      <4> DEFINE p == n + 1 - k + i
      <4>1. p \in 1..(n + 1) /\ p > n + 1 - count /\ LastOnes(s)[i] = s[p]
        <5>1. p \in 1..(n + 1) /\ p > n + 1 - count
          BY <1>1, <1>4, <2>2, <2>3, <3>3
        <5>2. LastOnes(s)[i] = s[p]
          BY <2>2, <2>3
        <5>3. QED
          BY <5>1, <5>2
      <4> HIDE DEF p
      <4>2. CASE p = n + 1
        BY <2>2, <4>1, <4>2
      <4>3. CASE p # n + 1
        <5>1. p \in 1..n /\ count # 1
          BY <1>1, <1>4, <2>2, <4>1, <4>3
        <5>2. category = stabilizer.category /\ p > n - stabilizer.count
          BY <1>1, <1>4, <2>2, <4>1, <5>1
        <5>3. QED
          BY <2>2, <3>1, <4>1, <5>1, <5>2
      <4>4. QED
        BY <4>2, <4>3
    <3>4. QED
      BY <3>2, <3>3
  <2>5. RunInv'
    <3>1. count \in 0..Stabilization /\ recent' \in Seq(Categories) /\ Len(recent') = k
      BY <1>1, <1>4, <2>1, <2>3
    <3>2. met' = {} => /\ count <= Len(recent') /\ Len(recent') <= Stabilization
                       /\ \A i \in 1..Len(recent') :
                            i > Len(recent') - count => recent'[i] = stabilizer'.category
      BY <1>3, <2>1, <2>3, <2>4, <3>1
    <3>3. Categories' = Categories
      BY DEF Categories
    <3>4. QED
      BY <3>1, <3>2, <3>3 DEF RunInv, count
  <2>6. PreviewInv'
    BY <1>2, <2>1 DEF PreviewInv
  <2>7. QED
    BY <2>5, <2>6
<1>7. QED
  BY <1>5, <1>6

LEMMA QualityNext == QualityInv /\ [Next]_vars => QualityInv'
<1> SUFFICES ASSUME QualityInv, [Next]_vars PROVE QualityInv'
  OBVIOUS
<1> USE DEF QualityInv
<1>1. ASSUME UNCHANGED <<burst, bundle>> PROVE BurstInv'
  BY <1>1 DEF BurstInv
<1>2. ASSUME UNCHANGED <<stabilizer, latest, recent, met>> PROVE PreviewInv' /\ RunInv'
  BY <1>2 DEF PreviewInv, RunInv, Categories
<1>3. ASSUME burst' = <<>>, bundle' \in {"none", "analyzing"} PROVE BurstInv'
  BY <1>3 DEF BurstInv
<1>4. CASE DetectorLoads
  BY <1>1, <1>2, <1>4 DEF DetectorLoads
<1>5. CASE StartPreview
  BY <1>2, <1>3, <1>5 DEF StartPreview, live
<1>6. CASE StopPreview
  BY <1>1, <1>6, DisableKeeps DEF StopPreview
<1>7. CASE Capture
  BY <1>3, <1>7, DisableKeeps DEF Capture
<1>8. CASE Tick
  BY <1>1, <1>2, <1>8 DEF Tick
<1>9. ASSUME NEW f \in Frames, Analysed(f) PROVE QualityInv'
  <2>1. UNCHANGED <<burst, bundle>>
    BY <1>9 DEF Analysed
  <2>2. QED
    BY <1>1, <1>9, <2>1, AnalysedKeeps
<1>10. CASE AnalysisFails
  BY <1>1, <1>2, <1>10 DEF AnalysisFails
<1>11. CASE AssessBurstFrame
  <2>1. PICK a \in BurstAssessments : burst' = Append(burst, a)
    BY <1>11 DEF AssessBurstFrame
  <2>2. a \in Assessments
    <3>1. \A f \in BurstFrames : f \in Pictures
      BY FramesAssumption
    <3>2. QED
      BY <3>1, AssessmentType, UnavailableType DEF BurstAssessments
  <2>3. burst' \in Seq(Assessments)
    BY <2>1, <2>2, AppendProperties DEF BurstInv
  <2>4. bundle' = "analyzing"
    BY <1>11 DEF AssessBurstFrame
  <2>5. BurstInv'
    BY <2>3, <2>4 DEF BurstInv
  <2>6. QED
    BY <1>2, <1>11, <2>5 DEF AssessBurstFrame, live
<1>12. CASE FinishBurst
  <2>1. burst' = burst /\ bundle' = BundleDisposition(burst)
    BY <1>12 DEF FinishBurst
  <2>2. BundleDisposition(burst') = BundleDisposition(burst)
    BY <2>1
  <2>3. BurstInv'
    BY <2>1, <2>2 DEF BurstInv
  <2>4. QED
    BY <1>2, <1>12, <2>3 DEF FinishBurst, live
<1>13. CASE UNCHANGED vars
  BY <1>1, <1>2, <1>13 DEF vars
<1>14. QED
  BY <1>4, <1>5, <1>6, <1>7, <1>8, <1>9, <1>10, <1>11, <1>12, <1>13 DEF Next

\* The inductive invariant: the assessments of a burst and what they come to, and the
\* run of equal categories behind the advice (useLiveQuality.ts:73,
\* bundleAnalyzer.ts).
THEOREM QualityInvariant == Spec => []QualityInv
BY InitQuality, QualityNext, PTL DEF Spec

-------------------------------------------------------------------------------
(* What the invariant is for.                                                   *)

LEMMA LivePriorities ==
  /\ DOMAIN LivePriority = 1..11
  /\ LivePriority[1] = "NO_FACE" /\ LivePriority[2] = "MULTIPLE_FACES"
  /\ LivePriority[3] = "FACE_TOO_SMALL" /\ LivePriority[4] = "FACE_TOO_LARGE"
  /\ LivePriority[5] = "UNDEREXPOSED" /\ LivePriority[6] = "OVEREXPOSED"
  /\ LivePriority[7] = "BLURRED" /\ LivePriority[8] = "LOW_CONTRAST"
  /\ LivePriority[9] = "FACE_OFF_CENTER" /\ LivePriority[10] = "EYES_CLOSED"
  /\ LivePriority[11] = "EYE_STATE_UNKNOWN"
BY DEF LivePriority

\* A picture of which "ready" is said has none of the reasons of the live advice.
LEMMA ReadyHasNoHit ==
  ASSUME NEW a, CategoryFromAssessment(a) = "READY"
  PROVE  \A i \in DOMAIN LivePriority : LivePriority[i] \notin a.reasons
<1> DEFINE hits == {i \in DOMAIN LivePriority : LivePriority[i] \in a.reasons}
<1>1. DOMAIN LivePriority = 1..11
  BY LivePriorities
<1>2. \A i \in 1..11 : LivePriority[i] \in ReasonCodes
  BY LivePriorities DEF ReasonCodes
<1>3. \A r \in ReasonCodes : AdviceOf(r) # "READY"
  BY DEF AdviceOf, ReasonCodes
<1>4. CASE hits # {}
  <2>1. hits \in SUBSET (1..11)
    BY <1>1
  <2>2. CategoryFromAssessment(a) = AdviceOf(LivePriority[Least(hits)])
    BY <1>4 DEF CategoryFromAssessment
  <2> HIDE DEF hits
  <2>3. hits \in SUBSET Int /\ \A i \in hits : 0 <= i
    BY <2>1
  <2>4. Least(hits) \in hits
    BY <1>4, <2>3, LeastIsSmallest
  <2>5. QED
    BY <1>2, <1>3, <2>1, <2>2, <2>4
<1>5. CASE hits = {}
  BY <1>5
<1>6. QED
  BY <1>4, <1>5

\* Every reason that an available picture is refused for is one of the live advice,
\* but for the size of the picture.
LEMMA AdvisedReasons ==
  ASSUME NEW f, Available(f), NEW r \in Reasons(f), r # "RESOLUTION_TOO_LOW"
  PROVE  \E i \in DOMAIN LivePriority : LivePriority[i] = r
<1>1. r \in FaceReasons(f.faces) \cup ImageReasons(f) \cup EyeReasons(f)
  BY DEF Reasons
<1>2. r \in {"NO_FACE", "MULTIPLE_FACES", "FACE_TOO_SMALL", "FACE_TOO_LARGE", "UNDEREXPOSED",
             "OVEREXPOSED", "BLURRED", "LOW_CONTRAST", "FACE_OFF_CENTER", "EYES_CLOSED",
             "EYE_STATE_UNKNOWN"}
  BY <1>1 DEF FaceReasons, ImageReasons, EyeReasons
<1>3. QED
  BY <1>2, LivePriorities

\* The landmarker's face whose eyes decide is one of those it sees.
LEMMA EyesOfALandmark ==
  ASSUME NEW f \in Pictures, f.faces # <<>>, f.landmarks # <<>>
  PROVE  FaceOfEyes(f) \in DOMAIN f.landmarks
<1> DEFINE D == DOMAIN f.landmarks
           primary == f.faces[Primary(f.faces)]
           d(i) == EyeDistance2(f.landmarks[i], primary)
           P(i) == \A j \in D : d(i) < d(j) \/ (d(i) = d(j) /\ i <= j)
<1>1. f.faces \in Seq(Faces) /\ f.landmarks \in Seq(Landmarks)
  BY DEF Pictures
<1>2. D \in SUBSET Nat /\ D # {} /\ \A i \in D : f.landmarks[i] \in Landmarks
  <2> DEFINE n == Len(f.landmarks)
  <2>1. n \in Nat \ {0} /\ D = 1..n /\ \A i \in 1..n : f.landmarks[i] \in Landmarks
    BY <1>1
  <2>2. QED
    BY <2>1
<1>3. primary \in Faces
  <2>1. Primary(f.faces) \in DOMAIN f.faces
    BY <1>1, PrimaryIsAFace
  <2>2. QED
    BY <1>1, <2>1
<1> HIDE DEF D, primary
<1>4. ASSUME NEW i \in D PROVE d(i) \in Nat
  <2>1. f.landmarks[i].x \in Int /\ f.landmarks[i].y \in Int
    BY <1>2 DEF Landmarks
  <2>2. primary.x * Width \in Int /\ primary.y * Height \in Int
    BY <1>3 DEF Faces, Width, Height
  <2>3. /\ f.landmarks[i].x - primary.x * Width \in Int
        /\ f.landmarks[i].y - primary.y * Height \in Int
    BY <2>1, <2>2
  <2>4. QED
    BY <2>3, SquareType DEF EyeDistance2
<1> DEFINE g == [i \in D |-> d(i)]
<1>5. \E i \in D : P(i)
  <2>1. g \in [D -> Int] /\ \A i \in D : 0 <= g[i]
    <3> HIDE DEF d
    <3>1. QED
      BY <1>4
  <2>2. PICK i \in D : \A j \in D : g[i] < g[j] \/ (g[i] = g[j] /\ i <= j)
    <3>1. 0 \in Int
      OBVIOUS
    <3> HIDE DEF g
    <3>2. QED
      BY <1>2, <2>1, <3>1, FirstSmallest
  <2> HIDE DEF d
  <2>3. QED
    BY <2>2
<1>6. FaceOfEyes(f) = CHOOSE i \in D : P(i)
  BY DEF FaceOfEyes, D, primary
<1> HIDE DEF P
<1>7. QED
  BY <1>5, <1>6 DEF D

LEMMA ReadyPicture ==
  ASSUME NEW f \in Pictures, Available(f), CategoryFromAssessment(Assessment(f)) = "READY",
         f.large
  PROVE  /\ Disposition(f) = "ELIGIBLE"
         /\ Participating(f.faces) <= 1
         /\ \E i \in DOMAIN f.landmarks : f.landmarks[i].eyes = "open"
<1>1. Reasons(f) = {}
  <2>1. \A i \in DOMAIN LivePriority : LivePriority[i] \notin Assessment(f).reasons
    BY ReadyHasNoHit
  <2>2. Assessment(f).reasons = Reasons(f)
    BY DEF Assessment
  <2>3. "RESOLUTION_TOO_LOW" \notin Reasons(f)
    BY DEF Available, Reasons, ImageReasons, FaceReasons, EyeReasons
  <2>4. QED
    BY <2>1, <2>2, <2>3, AdvisedReasons
<1>2. FaceReasons(f.faces) = {} /\ EyeReasons(f) = {}
  BY <1>1 DEF Reasons
<1>3. f.faces # <<>> /\ f.faces \in Seq(Faces)
  BY <1>2 DEF FaceReasons, Pictures
<1>4. Participating(f.faces) <= 1
  <2> DEFINE n == Len(f.faces)
             S == {i \in 1..n : Participates(f.faces[i])}
  <2>1. ~(Participating(f.faces) >= 2)
    BY <1>2, <1>3 DEF FaceReasons
  <2>2. n \in Nat /\ DOMAIN f.faces = 1..n
    BY <1>3
  <2>3. Participating(f.faces) = Cardinality(S)
    BY <2>2 DEF Participating
  <2> HIDE DEF n
  <2>4. IsFiniteSet(1..n)
    BY <2>2, FS_Interval
  <2>5. IsFiniteSet(S)
    BY <2>4, FS_Subset
  <2>6. Cardinality(S) \in Nat
    BY <2>5, FS_CardinalityType
  <2>7. QED
    BY <2>1, <2>3, <2>6
<1>5. \E i \in DOMAIN f.landmarks : f.landmarks[i].eyes = "open"
  <2>1. f.landmarks # <<>>
    BY <1>2, <1>3 DEF EyeReasons
  <2>2. FaceOfEyes(f) \in DOMAIN f.landmarks
    BY <1>3, <2>1, EyesOfALandmark
  <2>3. f.landmarks[FaceOfEyes(f)].eyes \in {"open", "closed", "unknown"}
    <3>1. f.landmarks \in Seq(Landmarks)
      BY DEF Pictures
    <3>2. f.landmarks[FaceOfEyes(f)] \in Landmarks
      BY <2>2, <3>1
    <3>3. QED
      BY <3>2 DEF Landmarks
  <2>4. f.landmarks[FaceOfEyes(f)].eyes = "open"
    BY <1>2, <1>3, <2>1, <2>3 DEF EyeReasons
  <2>5. QED
    BY <2>2, <2>4
<1>6. QED
  BY <1>1, <1>4, <1>5 DEF Disposition

\* "Ready to capture" is never advised for a picture that a burst would refuse, but
\* for the size of the picture (guidance.ts, qualityEngine.ts).
THEOREM ReadyPreview == Spec => []ReadyIsEligible
<1>1. ASSUME QualityInv PROVE ReadyIsEligible
  <2> SUFFICES ASSUME latest # NoFrame, CategoryOf[latest] = "READY", latest.large
               PROVE  /\ Disposition(latest) = "ELIGIBLE"
                      /\ Participating(latest.faces) <= 1
                      /\ \E i \in DOMAIN latest.landmarks : latest.landmarks[i].eyes = "open"
    BY DEF ReadyIsEligible
  <2>1. latest \in Frames /\ Available(latest)
    BY <1>1 DEF QualityInv, PreviewInv
  <2>2. latest \in Pictures
    BY <2>1, FramesAssumption
  <2>3. CategoryFromAssessment(Assessment(latest)) = "READY"
    BY <2>1 DEF CategoryOf
  <2>4. QED
    BY <2>1, <2>2, <2>3, ReadyPicture
<1>2. QED
  BY <1>1, QualityInvariant, PTL

\* No other frame has a higher quality than the first, or the same and a surer face.
LEMMA FirstIsBest ==
  ASSUME NEW frames \in Seq(Assessments), NEW i \in Eligible(frames), NEW j \in Eligible(frames),
         Before(Keys(frames, i), Keys(frames, j))
  PROVE  /\ frames[j].overall <= frames[i].overall
         /\ frames[j].overall = frames[i].overall => frames[j].confidence <= frames[i].confidence
<1>1. /\ frames[i].overall \in Nat /\ frames[j].overall \in Nat
      /\ frames[i].confidence \in Nat /\ frames[j].confidence \in Nat
  <2>1. frames[i] \in Assessments /\ frames[j] \in Assessments
    BY DEF Eligible
  <2>2. \A a \in Assessments : a.overall \in 0..100 /\ a.confidence \in 0..100
    BY DEF Assessments
  <2>3. \A x \in 0..100 : x \in Nat
    OBVIOUS
  <2>4. QED
    BY <2>1, <2>2, <2>3
<1>2. \A x, y \in Nat : (-x < -y => y < x) /\ (-x = -y => x = y)
  OBVIOUS
<1> DEFINE k == Keys(frames, i)
           l == Keys(frames, j)
<1>3. /\ DOMAIN k = 1..5
      /\ k[1] = -frames[i].overall /\ k[2] = -frames[i].confidence
      /\ l[1] = -frames[j].overall /\ l[2] = -frames[j].confidence
  BY DEF Keys
<1> HIDE DEF k, l
<1>4. PICK n \in 1..5 : k[n] < l[n] /\ \A m \in 1..(n - 1) : k[m] = l[m]
  BY <1>3 DEF Before, k, l
<1>5. CASE n = 1
  <2>1. frames[j].overall < frames[i].overall
    BY <1>1, <1>2, <1>3, <1>4, <1>5
  <2>2. QED
    BY <1>1, <2>1
<1>6. CASE n = 2
  <2>1. k[1] = l[1] /\ k[2] < l[2]
    BY <1>4, <1>6
  <2>2. frames[j].overall = frames[i].overall /\ frames[j].confidence < frames[i].confidence
    BY <1>1, <1>2, <1>3, <2>1
  <2>3. QED
    BY <1>1, <2>2
<1>7. CASE n > 2
  <2>1. k[1] = l[1] /\ k[2] = l[2]
    BY <1>4, <1>7
  <2>2. frames[j].overall = frames[i].overall /\ frames[j].confidence = frames[i].confidence
    BY <1>1, <1>2, <1>3, <2>1
  <2>3. QED
    BY <1>1, <2>2
<1>8. QED
  BY <1>4, <1>5, <1>6, <1>7

\* A burst that is ready has an eligible frame.
LEMMA ReadyHasEligible ==
  ASSUME NEW frames, BundleDisposition(frames) = "QUALITY_READY"
  PROVE  Eligible(frames) # {}
<1>1. Cardinality(Eligible(frames)) >= MinimumEligibleFrames
  BY DEF BundleDisposition
<1>2. MinimumEligibleFrames \in Nat \ {0} /\ Cardinality({}) = 0
  BY BundleConfigAssumption, FS_EmptySet
<1>3. QED
  BY <1>1, <1>2

\* A ready burst submits one of its best eligible frames, a refused one names a reason
\* and saw a frame (frameRanking.ts:43, bundleAnalyzer.ts).
THEOREM BestSelection == Spec => []SelectionIsBest
<1>1. ASSUME QualityInv PROVE SelectionIsBest
  <2>1. burst \in Seq(Assessments)
    BY <1>1 DEF QualityInv, BurstInv
  <2>2. bundle \notin {"none", "analyzing"} => bundle = BundleDisposition(burst)
    BY <1>1 DEF QualityInv, BurstInv
  <2>3. ASSUME bundle = "QUALITY_READY"
        PROVE  /\ Selected(burst) \in Eligible(burst)
               /\ \A i \in Eligible(burst) :
                    /\ burst[i].overall <= burst[Selected(burst)].overall
                    /\ burst[i].overall = burst[Selected(burst)].overall =>
                         burst[i].confidence <= burst[Selected(burst)].confidence
    <3>1. Eligible(burst) # {}
      BY <2>2, <2>3, ReadyHasEligible
    <3>2. /\ Selected(burst) \in Eligible(burst)
          /\ \A j \in Eligible(burst) \ {Selected(burst)} :
               Before(Keys(burst, Selected(burst)), Keys(burst, j))
      BY <2>1, <3>1, SelectedIsFirst
    <3>3. ASSUME NEW i \in Eligible(burst)
          PROVE  /\ burst[i].overall <= burst[Selected(burst)].overall
                 /\ burst[i].overall = burst[Selected(burst)].overall =>
                      burst[i].confidence <= burst[Selected(burst)].confidence
      <4>1. CASE i = Selected(burst)
        <5>1. burst[i] \in Assessments
          BY <2>1 DEF Eligible
        <5>2. burst[i].overall \in Nat /\ burst[i].confidence \in Nat
          BY <5>1 DEF Assessments
        <5>3. QED
          BY <4>1, <5>2
      <4>2. CASE i # Selected(burst)
        BY <2>1, <3>2, <4>2, FirstIsBest
      <4>3. QED
        BY <4>1, <4>2
    <3>4. QED
      BY <3>2, <3>3
  <2>4. ASSUME bundle = "QUALITY_RETRY"
        PROVE  \E i \in DOMAIN burst : burst[i].disposition # "ANALYSIS_UNAVAILABLE"
    BY <2>2, <2>4 DEF BundleDisposition
  <2>5. bundle = "QUALITY_RETRY" /\ Eligible(burst) = {} => AggregateReasons(burst) # {}
    BY <2>1, <2>4, AggregateIsNotEmpty
  <2>6. QED
    BY <2>3, <2>4, <2>5 DEF SelectionIsBest
<1>2. QED
  BY <1>1, QualityInvariant, PTL

\* The advice changes only to a category that the last analyses, as many as the
\* stabilization asks for, all saw (useLiveQuality.ts:73, guidance.ts).
THEOREM SeenGuidance == Spec => GuidanceWasSeen
<1>1. ASSUME QualityInv, QualityInv', [Next]_vars, guidance' \notin {guidance, "none"}, met' = {}
      PROVE  /\ Len(recent') = Stabilization
             /\ \A i \in DOMAIN recent' : recent'[i] = guidance'
  <2>1. PICK f \in Frames : Analysed(f)
    BY <1>1 DEF Next, DetectorLoads, StartPreview, StopPreview, Capture, Disable, Tick,
                AnalysisFails, AssessBurstFrame, FinishBurst, live, vars
  <2>2. /\ stabilizer' = Updated(CategoryOf[f])
        /\ guidance' = IF stabilizer'.count >= Stabilization THEN CategoryOf[f] ELSE guidance
    BY <2>1 DEF Analysed
  <2>3. stabilizer'.count >= Stabilization /\ guidance' = CategoryOf[f]
    BY <1>1, <2>2
  <2>4. stabilizer'.category = guidance'
    BY <2>2, <2>3 DEF Updated
  <2> DEFINE n == Len(recent')
  <2>5. /\ stabilizer'.count \in 0..Stabilization
        /\ stabilizer'.count <= n /\ n <= Stabilization
        /\ \A i \in 1..n : i > n - stabilizer'.count => recent'[i] = stabilizer'.category
    BY <1>1 DEF QualityInv, RunInv
  <2>6. Stabilization \in Nat /\ n \in Nat /\ DOMAIN recent' = 1..n
    BY <1>1, LiveAssumption DEF QualityInv, RunInv
  <2> HIDE DEF n
  <2>7. n = Stabilization /\ stabilizer'.count = n
    BY <2>3, <2>5, <2>6
  <2>8. \A i \in 1..n : recent'[i] = guidance'
    BY <2>4, <2>5, <2>6, <2>7
  <2>9. QED
    BY <2>6, <2>7, <2>8 DEF n
<1>2. QualityInv /\ QualityInv' /\ [Next]_vars =>
        [guidance' \notin {guidance, "none"} /\ met' = {} =>
           /\ Len(recent') = Stabilization
           /\ \A i \in DOMAIN recent' : recent'[i] = guidance']_vars
  BY <1>1
<1>3. QED
  BY <1>2, QualityInvariant, PTL DEF Spec, GuidanceWasSeen
================================================================================
