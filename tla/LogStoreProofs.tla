--------------------------- MODULE LogStoreProofs ---------------------------
(***************************************************************************)
(* Proofs about LogStore, for every set of lines, files and contents, every *)
(* query and command line, every capacity and number of failures.           *)
(***************************************************************************)
EXTENDS LogStore, BasicLemmas, FiniteSetTheorems

-----------------------------------------------------------------------------
(***************************************************************************)
(* Increasing lists of positions.                                          *)
(***************************************************************************)

IsIncreasing(f) == \A i, j \in DOMAIN f : i < j => f[i] < f[j]

\* A set of positions has a list: its least element before the list of the others.
LEMMA IncreasingExists ==
    ASSUME NEW S \in SUBSET Nat, IsFiniteSet(S)
    PROVE  \E f \in [1 .. Cardinality(S) -> S] : IsIncreasing(f)
<1> DEFINE Lacks(R) == ~\E f \in [1 .. Cardinality(R) -> R] : IsIncreasing(f)
           Sizes == {n \in Nat : \E R \in SUBSET Nat :
                                     IsFiniteSet(R) /\ Cardinality(R) = n /\ Lacks(R)}
<1>1. SUFFICES Sizes = {}
  BY FS_CardinalityType
<1>2. SUFFICES ASSUME Sizes # {}  PROVE FALSE
  OBVIOUS
<1>3. PICK n \in Sizes : \A k \in Sizes : n <= k
  BY <1>2, FirstExists
<1>4. PICK R \in SUBSET Nat : IsFiniteSet(R) /\ Cardinality(R) = n /\ Lacks(R)
  BY <1>3
<1>5. CASE R = {}
  <2>1. Cardinality(R) = 0
    BY <1>5, FS_EmptySet
  <2>2. [i \in 1 .. 0 |-> 0] \in [1 .. Cardinality(R) -> R]
    BY <2>1
  <2>3. IsIncreasing([i \in 1 .. 0 |-> 0])
    BY DEF IsIncreasing
  <2> QED  BY <1>4, <2>2, <2>3
<1>6. CASE R # {}
  <2>1. PICK m \in R : \A x \in R : m <= x
    BY <1>6, FirstExists
  <2> DEFINE Q == R \ {m}
  <2>2. /\ IsFiniteSet(Q) /\ Cardinality(Q) \in Nat
        /\ Cardinality(Q) = n - 1 /\ n \in Nat
    BY <1>3, <1>4, <2>1, FS_RemoveElement, FS_CardinalityType
  <2>3. ~Lacks(Q)
    <3>1. Cardinality(Q) \notin Sizes
      BY <1>3, <2>2
    <3> QED  BY <2>2, <3>1
  <2>4. PICK g \in [1 .. n - 1 -> Q] : IsIncreasing(g)
    BY <2>2, <2>3
  <2> DEFINE f == [i \in 1 .. n |-> IF i = 1 THEN m ELSE g[i - 1]]
  <2>5. \A i \in 1 .. n : i # 1 => i - 1 \in 1 .. n - 1
    BY <2>2
  <2>6. f \in [1 .. n -> R]
    BY <2>1, <2>4, <2>5
  <2>7. ASSUME NEW i \in 1 .. n, NEW j \in 1 .. n, i < j
        PROVE  f[i] < f[j]
    <3>1. j # 1 /\ g[j - 1] \in Q /\ f[j] = g[j - 1]
      BY <2>4, <2>5, <2>7
    <3>2. CASE i = 1
      <4>1. f[i] = m
        BY <3>2
      <4>2. m <= g[j - 1] /\ m # g[j - 1] /\ m \in Nat /\ g[j - 1] \in Nat
        BY <2>1, <3>1
      <4> HIDE DEF f
      <4>3. m < g[j - 1]
        BY <4>2
      <4> QED  BY <3>1, <4>1, <4>3
    <3>3. CASE i # 1
      <4>1. i - 1 < j - 1
        BY <2>7
      <4>2. g[i - 1] < g[j - 1]
        BY <2>4, <2>5, <3>1, <3>3, <4>1 DEF IsIncreasing
      <4> QED  BY <3>1, <3>3, <4>2
    <3> QED  BY <3>2, <3>3
  <2>8. IsIncreasing(f)
    BY <2>7 DEF IsIncreasing
  <2> HIDE DEF f
  <2> QED  BY <1>4, <2>6, <2>8
<1> QED  BY <1>5, <1>6

LEMMA IncreasingList ==
    ASSUME NEW S \in SUBSET Nat, IsFiniteSet(S)
    PROVE  /\ Increasing(S) \in [1 .. Cardinality(S) -> S]
           /\ Increasing(S) \in Seq(S)
           /\ Len(Increasing(S)) = Cardinality(S)
           /\ IsIncreasing(Increasing(S))
           /\ ToSet(Increasing(S)) = S
<1> DEFINE n == Cardinality(S)
           f == Increasing(S)
<1>0. n \in Nat
  BY FS_CardinalityType
<1>1. f \in [1 .. n -> S] /\ IsIncreasing(f)
  BY IncreasingExists DEF IsIncreasing, Increasing
<1>2. f \in Injection(1 .. n, S)
  <2>1. \A i, j \in 1 .. n : i # j => i < j \/ j < i
    OBVIOUS
  <2>2. \A i \in 1 .. n : f[i] \in Nat
    BY <1>1
  <2>3. \A i, j \in 1 .. n : f[i] = f[j] => i = j
    BY <1>1, <2>1, <2>2 DEF IsIncreasing
  <2> QED  BY <1>1, <2>3 DEF Injection, IsInjective
<1>3. IsFiniteSet(1 .. n) /\ Cardinality(1 .. n) = n
  <2>1. 1 \in Int /\ n \in Int
    BY <1>0
  <2>2. IsFiniteSet(1 .. n) /\ Cardinality(1 .. n) = IF 1 > n THEN 0 ELSE n - 1 + 1
    BY <2>1, FS_Interval, Zenon
  <2> QED  BY <1>0, <2>2
<1>4. f \in Surjection(1 .. n, S)
  BY <1>2, <1>3, FS_Injection
<1>5. f \in Seq(S) /\ Len(f) = n
  BY <1>0, <1>1, SeqDef
<1>6. ToSet(f) = S
  BY <1>1, <1>4 DEF ToSet, Surjection
<1> QED  BY <1>1, <1>5, <1>6

\* It has only one.
LEMMA IncreasingDetermined ==
    ASSUME NEW s \in Seq(Nat), IsIncreasing(s)
    PROVE  /\ IsFiniteSet(ToSet(s)) /\ ToSet(s) \in SUBSET Nat
           /\ Cardinality(ToSet(s)) = Len(s)
           /\ s = Increasing(ToSet(s))
<1> DEFINE S == ToSet(s)
           n == Len(s)
           g == Increasing(S)
<1>0. n \in Nat /\ s \in [1 .. n -> S] /\ DOMAIN s = 1 .. n /\ S \in SUBSET Nat
  BY LenProperties, ElementOfSeq DEF ToSet
<1>1. s \in Injection(1 .. n, S)
  <2>1. \A i, j \in 1 .. n : i # j => i < j \/ j < i
    BY <1>0
  <2>2. \A i \in 1 .. n : s[i] \in Nat
    BY <1>0
  <2>3. \A i, j \in 1 .. n : s[i] = s[j] => i = j
    BY <1>0, <2>1, <2>2 DEF IsIncreasing
  <2> QED  BY <1>0, <2>3 DEF Injection, IsInjective
<1>2. s \in Surjection(1 .. n, S)
  BY <1>0 DEF Surjection, ToSet
<1>3. IsFiniteSet(1 .. n) /\ Cardinality(1 .. n) = n
  <2>1. 1 \in Int /\ n \in Int
    BY <1>0
  <2>2. IsFiniteSet(1 .. n) /\ Cardinality(1 .. n) = IF 1 > n THEN 0 ELSE n - 1 + 1
    BY <2>1, FS_Interval, Zenon
  <2> QED  BY <1>0, <2>2
<1>4. IsFiniteSet(S) /\ Cardinality(S) = n
  BY <1>1, <1>2, <1>3, FS_Surjection
<1>5. g \in [1 .. n -> S] /\ IsIncreasing(g) /\ ToSet(g) = S
  BY <1>0, <1>4, IncreasingList
<1>6. s = g
  <2> DEFINE Differ == {k \in 1 .. n : s[k] # g[k]}
  <2>1. SUFFICES ASSUME Differ # {}  PROVE FALSE
    BY <1>0, <1>5
  <2>2. PICK k \in Differ : \A j \in Differ : k <= j
    <3>1. Differ \subseteq Nat
      BY <1>0
    <3> QED  BY <2>1, <3>1, FirstExists
  <2>3. k \in 1 .. n /\ s[k] # g[k] /\ s[k] \in S /\ g[k] \in S /\ s[k] \in Nat /\ g[k] \in Nat
    BY <1>0, <1>5, <2>2
  <2>4. \A j \in 1 .. n : j < k => s[j] = g[j]
    BY <1>0, <2>2
  <2>5. CASE s[k] < g[k]
    <3>1. PICK m \in 1 .. n : g[m] = s[k]
      BY <1>5, <2>3 DEF ToSet
    <3>2. m < k
      <4>1. k < m => g[k] < g[m]
        BY <1>5, <2>3 DEF IsIncreasing
      <4> QED  BY <1>0, <2>3, <2>5, <3>1, <4>1
    <3>3. s[m] = s[k] /\ s[m] < s[k]
      BY <1>0, <2>3, <2>4, <3>1, <3>2 DEF IsIncreasing
    <3> QED  BY <2>3, <3>3
  <2>6. CASE g[k] < s[k]
    <3>1. PICK m \in 1 .. n : s[m] = g[k]
      BY <1>0, <2>3 DEF ToSet
    <3>2. m < k
      <4>1. k < m => s[k] < s[m]
        BY <1>0, <2>3 DEF IsIncreasing
      <4> QED  BY <1>0, <2>3, <2>6, <3>1, <4>1
    <3>3. g[m] = g[k] /\ g[m] < g[k]
      BY <1>5, <2>3, <2>4, <3>1, <3>2 DEF IsIncreasing
    <3> QED  BY <2>3, <3>3
  <2> QED  BY <2>3, <2>5, <2>6
<1> QED  BY <1>0, <1>4, <1>6

\* A smaller element goes in front, and the list without its first element is
\* that of the others.
LEMMA IncreasingCons ==
    ASSUME NEW S \in SUBSET Nat, IsFiniteSet(S), NEW x \in Nat, \A y \in S : x < y
    PROVE  <<x>> \o Increasing(S) = Increasing({x} \cup S)
<1> DEFINE g == Increasing(S)
           s == <<x>> \o g
<1>1. g \in Seq(S) /\ g \in Seq(Nat) /\ Len(g) \in Nat /\ IsIncreasing(g) /\ ToSet(g) = S
  <2>1. g \in Seq(S) /\ IsIncreasing(g) /\ ToSet(g) = S
    BY IncreasingList
  <2> HIDE DEF g
  <2>2. g \in Seq(Nat) /\ Len(g) \in Nat
    BY <2>1, SeqMonotonic, LenProperties
  <2> QED  BY <2>1, <2>2
<1>2. \A i \in 1 .. Len(g) : g[i] \in S /\ g[i] \in Nat /\ x < g[i]
  BY <1>1
<1> HIDE DEF g
<1>3. /\ s \in Seq(Nat)
      /\ Len(s) = Len(g) + 1
      /\ \A i \in 1 .. Len(s) : s[i] = IF i = 1 THEN x ELSE g[i - 1]
  BY <1>1
<1> HIDE DEF s
<1>4. ASSUME NEW i \in 1 .. Len(s), NEW j \in 1 .. Len(s), i < j
      PROVE  s[i] < s[j]
  <2>1. j - 1 \in 1 .. Len(g) /\ s[j] = g[j - 1]
    BY <1>1, <1>3, <1>4
  <2>2. CASE i = 1
    BY <1>2, <1>3, <2>1, <2>2
  <2>3. CASE i # 1
    <3>1. i - 1 \in 1 .. Len(g) /\ s[i] = g[i - 1] /\ i - 1 < j - 1
      BY <1>1, <1>3, <1>4, <2>3
    <3> QED  BY <1>1, <2>1, <3>1 DEF IsIncreasing
  <2> QED  BY <2>2, <2>3
<1>5. DOMAIN s = 1 .. Len(s) /\ DOMAIN g = 1 .. Len(g)
  BY <1>1, <1>3
<1>6. IsIncreasing(s)
  BY <1>4, <1>5 DEF IsIncreasing
<1>7. ToSet(s) = {x} \cup S
  <2>1. ASSUME NEW y \in S  PROVE y \in ToSet(s)
    <3>1. PICK i \in 1 .. Len(g) : g[i] = y
      BY <1>1, <1>5 DEF ToSet
    <3>2. i + 1 \in 1 .. Len(s) /\ s[i + 1] = g[i]
      BY <1>1, <1>3
    <3> QED  BY <1>5, <3>1, <3>2 DEF ToSet
  <2>2. x \in ToSet(s)
    BY <1>1, <1>3, <1>5 DEF ToSet
  <2>3. ASSUME NEW i \in 1 .. Len(s)  PROVE s[i] \in {x} \cup S
    <3>1. i # 1 => i - 1 \in 1 .. Len(g)
      BY <1>1, <1>3
    <3> QED  BY <1>2, <1>3, <3>1
  <2> QED  BY <1>5, <2>1, <2>2, <2>3 DEF ToSet
<1> QED  BY <1>3, <1>6, <1>7, IncreasingDetermined DEF s, g

\* What an increasing list has from position i on.
From(a, i) == {a[k] : k \in i .. Len(a)}

LEMMA FromStep ==
    ASSUME NEW a \in Seq(Nat), IsIncreasing(a), NEW i \in 1 .. Len(a) + 1
    PROVE  /\ From(a, i) \in SUBSET Nat
           /\ IsFiniteSet(From(a, i))
           /\ SubSeq(a, i, Len(a)) = Increasing(From(a, i))
           /\ i > Len(a) => From(a, i) = {}
           /\ i <= Len(a) => /\ a[i] \in Nat
                             /\ i + 1 \in 1 .. Len(a) + 1
                             /\ From(a, i) = {a[i]} \cup From(a, i + 1)
                             /\ \A y \in From(a, i + 1) : a[i] < y
<1> DEFINE n == Len(a)
           b == SubSeq(a, i, n)
<1>0. n \in Nat /\ DOMAIN a = 1 .. n /\ \A k \in 1 .. n : a[k] \in Nat
  BY LenProperties, ElementOfSeq
<1>1. /\ b \in Seq(Nat)
      /\ Len(b) = n - i + 1
      /\ \A k \in 1 .. n - i + 1 : b[k] = a[i + k - 1]
  BY <1>0, SubSeqProperties
<1> HIDE DEF b
<1>2. DOMAIN b = 1 .. n - i + 1
  BY <1>1, LenProperties
<1>3. IsIncreasing(b)
  <2> SUFFICES ASSUME NEW k \in 1 .. n - i + 1, NEW m \in 1 .. n - i + 1, k < m
               PROVE  b[k] < b[m]
    BY <1>2 DEF IsIncreasing
  <2>1. i + k - 1 \in 1 .. n /\ i + m - 1 \in 1 .. n /\ i + k - 1 < i + m - 1
    BY <1>0
  <2> QED  BY <1>0, <1>1, <2>1 DEF IsIncreasing
<1>4. ToSet(b) = From(a, i)
  <2>1. ASSUME NEW k \in i .. n  PROVE a[k] \in ToSet(b)
    <3>1. k - i + 1 \in 1 .. n - i + 1 /\ i + (k - i + 1) - 1 = k
      BY <1>0
    <3>2. b[k - i + 1] = a[k]
      BY <1>1, <3>1
    <3> QED  BY <1>2, <3>1, <3>2 DEF ToSet
  <2>2. ASSUME NEW k \in 1 .. n - i + 1  PROVE b[k] \in From(a, i)
    <3>1. i + k - 1 \in i .. n
      BY <1>0
    <3> QED  BY <1>1, <3>1 DEF From
  <2> QED  BY <1>2, <2>1, <2>2 DEF ToSet, From
<1>5. From(a, i) \in SUBSET Nat /\ IsFiniteSet(From(a, i)) /\ b = Increasing(From(a, i))
  BY <1>1, <1>3, <1>4, IncreasingDetermined
<1>6. i > n => From(a, i) = {}
  BY <1>0 DEF From
<1>7. ASSUME i <= n
      PROVE  /\ a[i] \in Nat
             /\ i + 1 \in 1 .. n + 1
             /\ From(a, i) = {a[i]} \cup From(a, i + 1)
             /\ \A y \in From(a, i + 1) : a[i] < y
  <2>1. i \in 1 .. n /\ i .. n = {i} \cup ((i + 1) .. n) /\ i + 1 \in 1 .. n + 1
    BY <1>0, <1>7
  <2>2. \A k \in (i + 1) .. n : k \in 1 .. n /\ i < k
    BY <1>0, <2>1
  <2> QED  BY <1>0, <2>1, <2>2 DEF From, IsIncreasing
<1> QED  BY <1>5, <1>6, <1>7 DEF b

LEMMA IncreasingEmpty == Increasing({}) = <<>>
<1>1. {} \in SUBSET Nat /\ IsFiniteSet({}) /\ Cardinality({}) = 0
  BY FS_EmptySet
<1>2. Increasing({}) \in Seq({}) /\ Len(Increasing({})) = 0
  BY <1>1, IncreasingList
<1> QED  BY <1>2, EmptySeq

\* Two lists run against each other: of some pairs of places, one is the last.
LEMMA LastPair ==
    ASSUME NEW m \in Nat, NEW n \in Nat, NEW W \in SUBSET ((1 .. m + 1) \X (1 .. n + 1)), W # {}
    PROVE  \E i \in 1 .. m + 1, j \in 1 .. n + 1 :
              /\ <<i, j>> \in W
              /\ \A k \in 1 .. m + 1, l \in 1 .. n + 1 : k + l > i + j => <<k, l>> \notin W
<1> DEFINE T == {d \in Nat : \E i \in 1 .. m + 1, j \in 1 .. n + 1 :
                                <<i, j>> \in W /\ d = (m + 1 - i) + (n + 1 - j)}
<1>1. T # {}
  <2>1. PICK i \in 1 .. m + 1, j \in 1 .. n + 1 : <<i, j>> \in W
    OBVIOUS
  <2>2. (m + 1 - i) + (n + 1 - j) \in Nat
    OBVIOUS
  <2> QED  BY <2>1, <2>2
<1>2. PICK d \in T : \A c \in T : d <= c
  BY <1>1, FirstExists
<1>3. PICK i \in 1 .. m + 1, j \in 1 .. n + 1 : <<i, j>> \in W /\ d = (m + 1 - i) + (n + 1 - j)
  BY <1>2
<1>4. ASSUME NEW k \in 1 .. m + 1, NEW l \in 1 .. n + 1, k + l > i + j
      PROVE  <<k, l>> \notin W
  <2> DEFINE c == (m + 1 - k) + (n + 1 - l)
  <2>1. c \in Nat /\ d \in Nat
    BY <1>2
  <2>2. c < d
    BY <1>3, <1>4
  <2>3. ~(d <= c)
    BY <2>1, <2>2
  <2>4. c \notin T
    BY <1>2, <2>3
  <2> QED  BY <2>1, <2>4
<1> QED  BY <1>3, <1>4

\* Running two increasing lists against each other gives the list of what is in
\* both: at every pair of places, that of what both have from there on.
LEMMA IntersectLists ==
    ASSUME NEW S \in SUBSET Nat, IsFiniteSet(S), NEW T \in SUBSET Nat, IsFiniteSet(T)
    PROVE  Intersect(Increasing(S), Increasing(T)) = Increasing(S \cap T)
<1> DEFINE a == Increasing(S)
           b == Increasing(T)
           D == (1 .. Len(a) + 1) \X (1 .. Len(b) + 1)
           M(i, j) == Increasing(From(a, i) \cap From(b, j))
           Step(g, i, j) == IF i > Len(a) \/ j > Len(b) THEN <<>>
                            ELSE IF a[i] = b[j] THEN <<a[i]>> \o g[<<i + 1, j + 1>>]
                            ELSE IF a[i] < b[j] THEN g[<<i + 1, j>>]
                            ELSE g[<<i, j + 1>>]
           Rule(g) == g = [p \in D |-> Step(g, p[1], p[2])]
           F == [p \in D |-> M(p[1], p[2])]
<1>0. Intersect(a, b) = (CHOOSE g : Rule(g))[<<1, 1>>]
  BY DEF Intersect
<1>1. /\ a \in Seq(Nat) /\ IsIncreasing(a) /\ Len(a) \in Nat /\ From(a, 1) = S
      /\ b \in Seq(Nat) /\ IsIncreasing(b) /\ Len(b) \in Nat /\ From(b, 1) = T
  <2>1. a \in Seq(S) /\ IsIncreasing(a) /\ ToSet(a) = S
    BY IncreasingList
  <2>2. b \in Seq(T) /\ IsIncreasing(b) /\ ToSet(b) = T
    BY IncreasingList
  <2> HIDE DEF a, b
  <2> QED  BY <2>1, <2>2, SeqMonotonic, LenProperties DEF From, ToSet
<1> HIDE DEF a, b
<1>2. \A i \in 1 .. Len(a) + 1, j \in 1 .. Len(b) + 1 : F[<<i, j>>] = M(i, j)
  OBVIOUS
\* The rule reads later places only.
<1>3. ASSUME NEW i \in 1 .. Len(a) + 1, NEW j \in 1 .. Len(b) + 1, NEW g,
             \A k \in 1 .. Len(a) + 1, l \in 1 .. Len(b) + 1 :
                 k + l > i + j => g[<<k, l>>] = M(k, l)
      PROVE  Step(g, i, j) = M(i, j)
  <2> USE <1>1
  <2>1. CASE i > Len(a) \/ j > Len(b)
    <3>1. From(a, i) \cap From(b, j) = {}
      BY <2>1, FromStep
    <3> QED  BY <2>1, <3>1, IncreasingEmpty
  <2>2. CASE ~(i > Len(a) \/ j > Len(b))
    <3> DEFINE k == i + 1
               l == j + 1
               A == From(a, k)
               B == From(b, l)
    <3>0. i <= Len(a) /\ j <= Len(b)
      BY <2>2
    <3>1. /\ a[i] \in Nat /\ k \in 1 .. Len(a) + 1
          /\ From(a, i) = {a[i]} \cup A
          /\ \A y \in A : a[i] < y
      BY <3>0, FromStep
    <3>2. /\ b[j] \in Nat /\ l \in 1 .. Len(b) + 1
          /\ From(b, j) = {b[j]} \cup B
          /\ \A y \in B : b[j] < y
      BY <3>0, FromStep
    <3>3. k + l > i + j /\ k + j > i + j /\ i + l > i + j
      OBVIOUS
    <3> HIDE DEF k, l
    <3>4. /\ A \in SUBSET Nat /\ IsFiniteSet(A) /\ From(a, i) \in SUBSET Nat
          /\ B \in SUBSET Nat /\ IsFiniteSet(B) /\ From(b, j) \in SUBSET Nat
          /\ IsFiniteSet(From(a, i)) /\ IsFiniteSet(From(b, j))
      BY <3>1, <3>2, FromStep
    <3> HIDE DEF A, B
    <3>5. g[<<k, l>>] = M(k, l) /\ g[<<k, j>>] = M(k, j) /\ g[<<i, l>>] = M(i, l)
      BY <1>3, <3>1, <3>2, <3>3
    <3>6. Step(g, i, j) = IF a[i] = b[j] THEN <<a[i]>> \o g[<<k, l>>]
                          ELSE IF a[i] < b[j] THEN g[<<k, j>>]
                          ELSE g[<<i, l>>]
      BY <2>2 DEF k, l
    <3> HIDE DEF Step
    <3>7. CASE a[i] = b[j]
      <4>1. From(a, i) \cap From(b, j) = {a[i]} \cup (A \cap B)
        BY <3>1, <3>2, <3>7
      <4>2. A \cap B \in SUBSET Nat /\ IsFiniteSet(A \cap B) /\ \A y \in A \cap B : a[i] < y
        BY <3>1, <3>4, FS_Intersection
      <4>3. <<a[i]>> \o Increasing(A \cap B) = Increasing({a[i]} \cup (A \cap B))
        BY <3>1, <4>2, IncreasingCons
      <4>4. M(k, l) = Increasing(A \cap B)
        BY DEF A, B
      <4> QED  BY <3>5, <3>6, <3>7, <4>1, <4>3, <4>4
    <3>8. CASE a[i] < b[j]
      <4>1. a[i] \notin From(b, j)
        BY <3>1, <3>2, <3>4, <3>8
      <4>2. From(a, i) \cap From(b, j) = A \cap From(b, j)
        BY <3>1, <4>1
      <4>3. M(k, j) = Increasing(A \cap From(b, j))
        BY DEF A
      <4>4. a[i] # b[j]
        BY <3>1, <3>8
      <4>5. Step(g, i, j) = g[<<k, j>>]
        BY <3>6, <3>8, <4>4
      <4> QED  BY <3>5, <4>2, <4>3, <4>5
    <3>9. CASE b[j] < a[i]
      <4>1. b[j] \notin From(a, i)
        BY <3>1, <3>2, <3>4, <3>9
      <4>2. From(a, i) \cap From(b, j) = From(a, i) \cap B
        BY <3>2, <4>1
      <4>3. M(i, l) = Increasing(From(a, i) \cap B)
        BY DEF B
      <4>4. a[i] # b[j] /\ ~(a[i] < b[j])
        BY <3>1, <3>2, <3>9
      <4>5. Step(g, i, j) = g[<<i, l>>]
        BY <3>6, <3>9, <4>4
      <4> QED  BY <3>5, <4>2, <4>3, <4>5
    <3> QED  BY <3>1, <3>2, <3>7, <3>8, <3>9
  <2> QED  BY <2>1, <2>2
<1> HIDE DEF M
<1>4. Rule(F)
  <2>1. \A i \in 1 .. Len(a) + 1, j \in 1 .. Len(b) + 1 : Step(F, i, j) = F[<<i, j>>]
    <3> HIDE DEF F, Step
    <3> QED  BY <1>2, <1>3
  <2> HIDE DEF Step
  <2>2. \A p \in D : Step(F, p[1], p[2]) = M(p[1], p[2])
    <3> HIDE DEF F
    <3> QED  BY <1>2, <2>1
  <2> QED  BY <2>2
<1>5. ASSUME NEW g, Rule(g)  PROVE g[<<1, 1>>] = M(1, 1)
  <2> DEFINE Wrong == {p \in D : g[p] # M(p[1], p[2])}
  <2>0. \A i \in 1 .. Len(a) + 1, j \in 1 .. Len(b) + 1 : g[<<i, j>>] = Step(g, i, j)
    <3> HIDE DEF Step
    <3> QED  BY <1>5
  <2> HIDE DEF Step
  <2>1. ASSUME Wrong # {}  PROVE FALSE
    <3>1. /\ Len(a) \in Nat /\ Len(b) \in Nat
          /\ Wrong \in SUBSET ((1 .. Len(a) + 1) \X (1 .. Len(b) + 1))
      BY <1>1
    <3>2. PICK i \in 1 .. Len(a) + 1, j \in 1 .. Len(b) + 1 :
              /\ <<i, j>> \in Wrong
              /\ \A k \in 1 .. Len(a) + 1, l \in 1 .. Len(b) + 1 :
                     k + l > i + j => <<k, l>> \notin Wrong
      <4> HIDE DEF Wrong
      <4> QED  BY <2>1, <3>1, LastPair
    <3>3. /\ g[<<i, j>>] # M(i, j)
          /\ \A k \in 1 .. Len(a) + 1, l \in 1 .. Len(b) + 1 :
                 k + l > i + j => g[<<k, l>>] = M(k, l)
      BY <3>2
    <3>4. Step(g, i, j) = M(i, j)
      BY <1>3, <3>3
    <3> QED  BY <2>0, <3>3, <3>4
  <2>2. 1 \in 1 .. Len(a) + 1 /\ 1 \in 1 .. Len(b) + 1
    BY <1>1
  <2> QED  BY <2>1, <2>2
<1> HIDE DEF F, Rule
<1>6. Rule(CHOOSE g : Rule(g))
  BY <1>4
<1>7. Intersect(a, b) = M(1, 1)
  BY <1>0, <1>5, <1>6
<1> QED  BY <1>1, <1>7 DEF M, a, b

LEMMA UniteLists ==
    ASSUME NEW S \in SUBSET Nat, IsFiniteSet(S), NEW T \in SUBSET Nat, IsFiniteSet(T)
    PROVE  Unite(Increasing(S), Increasing(T)) = Increasing(S \cup T)
<1> DEFINE a == Increasing(S)
           b == Increasing(T)
           D == (1 .. Len(a) + 1) \X (1 .. Len(b) + 1)
           M(i, j) == Increasing(From(a, i) \cup From(b, j))
           Step(g, i, j) == IF i > Len(a) THEN SubSeq(b, j, Len(b))
                            ELSE IF j > Len(b) THEN SubSeq(a, i, Len(a))
                            ELSE IF a[i] = b[j] THEN <<a[i]>> \o g[<<i + 1, j + 1>>]
                            ELSE IF a[i] < b[j] THEN <<a[i]>> \o g[<<i + 1, j>>]
                            ELSE <<b[j]>> \o g[<<i, j + 1>>]
           Rule(g) == g = [p \in D |-> Step(g, p[1], p[2])]
           F == [p \in D |-> M(p[1], p[2])]
<1>0. Unite(a, b) = (CHOOSE g : Rule(g))[<<1, 1>>]
  BY DEF Unite
<1>1. /\ a \in Seq(Nat) /\ IsIncreasing(a) /\ Len(a) \in Nat /\ From(a, 1) = S
      /\ b \in Seq(Nat) /\ IsIncreasing(b) /\ Len(b) \in Nat /\ From(b, 1) = T
  <2>1. a \in Seq(S) /\ IsIncreasing(a) /\ ToSet(a) = S
    BY IncreasingList
  <2>2. b \in Seq(T) /\ IsIncreasing(b) /\ ToSet(b) = T
    BY IncreasingList
  <2> HIDE DEF a, b
  <2> QED  BY <2>1, <2>2, SeqMonotonic, LenProperties DEF From, ToSet
<1> HIDE DEF a, b
<1>2. \A i \in 1 .. Len(a) + 1, j \in 1 .. Len(b) + 1 : F[<<i, j>>] = M(i, j)
  OBVIOUS
\* The rule reads later places only.
<1>3. ASSUME NEW i \in 1 .. Len(a) + 1, NEW j \in 1 .. Len(b) + 1, NEW g,
             \A k \in 1 .. Len(a) + 1, l \in 1 .. Len(b) + 1 :
                 k + l > i + j => g[<<k, l>>] = M(k, l)
      PROVE  Step(g, i, j) = M(i, j)
  <2> USE <1>1
  <2>1. CASE i > Len(a)
    <3>1. From(a, i) \cup From(b, j) = From(b, j)
      BY <2>1, FromStep
    <3> QED  BY <2>1, <3>1, FromStep
  <2>2. CASE ~(i > Len(a)) /\ j > Len(b)
    <3>1. From(a, i) \cup From(b, j) = From(a, i)
      BY <2>2, FromStep
    <3>2. SubSeq(a, i, Len(a)) = Increasing(From(a, i))
      BY FromStep
    <3> QED  BY <2>2, <3>1, <3>2
  <2>3. CASE ~(i > Len(a)) /\ ~(j > Len(b))
    <3> DEFINE k == i + 1
               l == j + 1
               A == From(a, k)
               B == From(b, l)
    <3>0. i <= Len(a) /\ j <= Len(b)
      BY <2>3
    <3>1. /\ a[i] \in Nat /\ k \in 1 .. Len(a) + 1
          /\ From(a, i) = {a[i]} \cup A
          /\ \A y \in A : a[i] < y
      BY <3>0, FromStep
    <3>2. /\ b[j] \in Nat /\ l \in 1 .. Len(b) + 1
          /\ From(b, j) = {b[j]} \cup B
          /\ \A y \in B : b[j] < y
      BY <3>0, FromStep
    <3>3. k + l > i + j /\ k + j > i + j /\ i + l > i + j
      OBVIOUS
    <3> HIDE DEF k, l
    <3>4. /\ A \in SUBSET Nat /\ IsFiniteSet(A) /\ From(a, i) \in SUBSET Nat
          /\ B \in SUBSET Nat /\ IsFiniteSet(B) /\ From(b, j) \in SUBSET Nat
          /\ IsFiniteSet(From(a, i)) /\ IsFiniteSet(From(b, j))
      BY <3>1, <3>2, FromStep
    <3> HIDE DEF A, B
    <3>5. g[<<k, l>>] = M(k, l) /\ g[<<k, j>>] = M(k, j) /\ g[<<i, l>>] = M(i, l)
      BY <1>3, <3>1, <3>2, <3>3
    <3>6. Step(g, i, j) = IF a[i] = b[j] THEN <<a[i]>> \o g[<<k, l>>]
                          ELSE IF a[i] < b[j] THEN <<a[i]>> \o g[<<k, j>>]
                          ELSE <<b[j]>> \o g[<<i, l>>]
      BY <2>3 DEF k, l
    <3> HIDE DEF Step
    <3>7. CASE a[i] = b[j]
      <4>1. From(a, i) \cup From(b, j) = {a[i]} \cup (A \cup B)
        BY <3>1, <3>2, <3>7
      <4>2. A \cup B \in SUBSET Nat /\ IsFiniteSet(A \cup B) /\ \A y \in A \cup B : a[i] < y
        BY <3>1, <3>2, <3>4, <3>7, FS_Union
      <4>3. <<a[i]>> \o Increasing(A \cup B) = Increasing({a[i]} \cup (A \cup B))
        BY <3>1, <4>2, IncreasingCons
      <4>4. M(k, l) = Increasing(A \cup B)
        BY DEF A, B
      <4> QED  BY <3>5, <3>6, <3>7, <4>1, <4>3, <4>4
    <3>8. CASE a[i] < b[j]
      <4>1. From(a, i) \cup From(b, j) = {a[i]} \cup (A \cup From(b, j))
        BY <3>1
      <4>2. \A y \in B : y \in Nat /\ b[j] < y
        BY <3>2, <3>4
      <4>3. \A y \in B : a[i] < y
        BY <3>1, <3>2, <3>8, <4>2
      <4>4. \A y \in A \cup From(b, j) : a[i] < y
        BY <3>1, <3>2, <3>8, <4>3
      <4>5. A \cup From(b, j) \in SUBSET Nat /\ IsFiniteSet(A \cup From(b, j))
        BY <3>4, FS_Union
      <4>6. <<a[i]>> \o Increasing(A \cup From(b, j)) = Increasing({a[i]} \cup (A \cup From(b, j)))
        BY <3>1, <4>4, <4>5, IncreasingCons
      <4>7. M(k, j) = Increasing(A \cup From(b, j))
        BY DEF A
      <4>8. a[i] # b[j]
        BY <3>1, <3>8
      <4>9. Step(g, i, j) = <<a[i]>> \o g[<<k, j>>]
        BY <3>6, <3>8, <4>8
      <4> QED  BY <3>5, <4>1, <4>6, <4>7, <4>9
    <3>9. CASE b[j] < a[i]
      <4>1. From(a, i) \cup From(b, j) = {b[j]} \cup (From(a, i) \cup B)
        BY <3>2
      <4>2. \A y \in A : y \in Nat /\ a[i] < y
        BY <3>1, <3>4
      <4>3. \A y \in A : b[j] < y
        BY <3>1, <3>2, <3>9, <4>2
      <4>4. \A y \in From(a, i) \cup B : b[j] < y
        BY <3>1, <3>2, <3>9, <4>3
      <4>5. From(a, i) \cup B \in SUBSET Nat /\ IsFiniteSet(From(a, i) \cup B)
        BY <3>4, FS_Union
      <4>6. <<b[j]>> \o Increasing(From(a, i) \cup B) = Increasing({b[j]} \cup (From(a, i) \cup B))
        BY <3>2, <4>4, <4>5, IncreasingCons
      <4>7. M(i, l) = Increasing(From(a, i) \cup B)
        BY DEF B
      <4>8. a[i] # b[j] /\ ~(a[i] < b[j])
        BY <3>1, <3>2, <3>9
      <4>9. Step(g, i, j) = <<b[j]>> \o g[<<i, l>>]
        BY <3>6, <3>9, <4>8
      <4> QED  BY <3>5, <4>1, <4>6, <4>7, <4>9
    <3> QED  BY <3>1, <3>2, <3>7, <3>8, <3>9
  <2> QED  BY <2>1, <2>2, <2>3
<1> HIDE DEF M
<1>4. Rule(F)
  <2>1. \A i \in 1 .. Len(a) + 1, j \in 1 .. Len(b) + 1 : Step(F, i, j) = F[<<i, j>>]
    <3> HIDE DEF F, Step
    <3> QED  BY <1>2, <1>3
  <2> HIDE DEF Step
  <2>2. \A p \in D : Step(F, p[1], p[2]) = M(p[1], p[2])
    <3> HIDE DEF F
    <3> QED  BY <1>2, <2>1
  <2> QED  BY <2>2
<1>5. ASSUME NEW g, Rule(g)  PROVE g[<<1, 1>>] = M(1, 1)
  <2> DEFINE Wrong == {p \in D : g[p] # M(p[1], p[2])}
  <2>0. \A i \in 1 .. Len(a) + 1, j \in 1 .. Len(b) + 1 : g[<<i, j>>] = Step(g, i, j)
    <3> HIDE DEF Step
    <3> QED  BY <1>5
  <2> HIDE DEF Step
  <2>1. ASSUME Wrong # {}  PROVE FALSE
    <3>1. /\ Len(a) \in Nat /\ Len(b) \in Nat
          /\ Wrong \in SUBSET ((1 .. Len(a) + 1) \X (1 .. Len(b) + 1))
      BY <1>1
    <3>2. PICK i \in 1 .. Len(a) + 1, j \in 1 .. Len(b) + 1 :
              /\ <<i, j>> \in Wrong
              /\ \A k \in 1 .. Len(a) + 1, l \in 1 .. Len(b) + 1 :
                     k + l > i + j => <<k, l>> \notin Wrong
      <4> HIDE DEF Wrong
      <4> QED  BY <2>1, <3>1, LastPair
    <3>3. /\ g[<<i, j>>] # M(i, j)
          /\ \A k \in 1 .. Len(a) + 1, l \in 1 .. Len(b) + 1 :
                 k + l > i + j => g[<<k, l>>] = M(k, l)
      BY <3>2
    <3>4. Step(g, i, j) = M(i, j)
      BY <1>3, <3>3
    <3> QED  BY <2>0, <3>3, <3>4
  <2>2. 1 \in 1 .. Len(a) + 1 /\ 1 \in 1 .. Len(b) + 1
    BY <1>1
  <2> QED  BY <2>1, <2>2
<1> HIDE DEF F, Rule
<1>6. Rule(CHOOSE g : Rule(g))
  BY <1>4
<1>7. Unite(a, b) = M(1, 1)
  BY <1>0, <1>5, <1>6
<1> QED  BY <1>1, <1>7 DEF M, a, b

-----------------------------------------------------------------------------
(***************************************************************************)
(* What main reads from its arguments.                                     *)
(***************************************************************************)

LEMMA GreatestExists ==
    ASSUME NEW n \in Nat, NEW T \in SUBSET (0 .. n), T # {}
    PROVE  Max(T) \in T /\ \A y \in T : y <= Max(T)
<1> DEFINE Below == {d \in Nat : n - d \in T}
<1>1. Below # {}
  <2>1. PICK y \in T : TRUE
    OBVIOUS
  <2>2. n - y \in Nat /\ n - (n - y) = y
    BY <2>1
  <2> QED  BY <2>1, <2>2
<1>2. PICK d \in Below : \A c \in Below : d <= c
  BY <1>1, FirstExists
<1>3. \A y \in T : n - d >= y
  <2> SUFFICES ASSUME NEW y \in T  PROVE n - d >= y
    OBVIOUS
  <2>1. n - y \in Nat /\ n - (n - y) = y /\ y \in Nat
    OBVIOUS
  <2>2. n - y \in Below
    BY <2>1
  <2>3. d <= n - y
    BY <1>2, <2>2
  <2> QED  BY <1>2, <2>1, <2>3
<1>4. \E x \in T : \A y \in T : x >= y
  BY <1>2, <1>3
<1>5. Max(T) \in T /\ \A y \in T : Max(T) >= y
  BY <1>4 DEF Max
<1> QED  BY <1>5

OptionsOK(o) ==
    /\ DOMAIN o = DOMAIN Defaults
    /\ o.keyword \in Keywords \cup {<<>>}
    /\ o.max \in Nat \ {0}
    /\ o.sort \in {"causal", "time", "node"}

LEMMA ReadOptionOK ==
    ASSUME NEW o, OptionsOK(o), NEW a,
           a.opt = "-k" /\ a.arg # <<>> => a.arg[1] \in Keywords,
           a.opt = "-c" /\ a.arg # <<>> => a.arg[1] \in Int
    PROVE  OptionsOK(ReadOption(o, a))
<1> DEFINE v == a.arg[1]
           r == ReadOption(o, a)
<1>0. DOMAIN o = {"dir", "keyword", "all", "node", "level", "from", "to", "max", "sort",
                  "stats", "dot", "exit"}
  BY DEF OptionsOK, Defaults
<1>1. ASSUME DOMAIN r = DOMAIN o, r.keyword = o.keyword, r.max = o.max, r.sort = o.sort
      PROVE  OptionsOK(r)
  BY <1>1 DEF OptionsOK
<1>2. CASE o.exit \/ (a.opt \in WithArgument /\ a.arg = <<>>)
  <2>1. r = [o EXCEPT !.exit = TRUE]
    BY <1>2 DEF ReadOption
  <2> QED  BY <1>0, <1>1, <2>1
<1>3. CASE ~(o.exit \/ (a.opt \in WithArgument /\ a.arg = <<>>))
  <2>1. a.opt = "-k" => v \in Keywords
    BY <1>3 DEF WithArgument
  <2>2. a.opt = "-c" => v \in Int
    BY <1>3 DEF WithArgument
  <2>3. r = CASE a.opt = "-d" -> [o EXCEPT !.dir = TRUE]
              [] a.opt = "-k" -> [o EXCEPT !.keyword = v]
              [] a.opt = "-n" -> [o EXCEPT !.node = v]
              [] a.opt = "-l" -> [o EXCEPT !.level = v]
              [] a.opt = "-s" -> [o EXCEPT !.from = v]
              [] a.opt = "-e" -> [o EXCEPT !.to = v]
              [] a.opt = "-c" -> [o EXCEPT !.max = IF v <= 0 THEN Defaults.max ELSE v]
              [] a.opt = "--sort" /\ v \in {"causal", "time", "node"} -> [o EXCEPT !.sort = v]
              [] a.opt = "--stats" -> [o EXCEPT !.stats = TRUE]
              [] a.opt = "--or" -> [o EXCEPT !.all = FALSE]
              [] a.opt = "--dot" -> [o EXCEPT !.dot = @ \/ a.arg # <<>>]
              [] OTHER -> [o EXCEPT !.exit = TRUE]
    BY <1>3 DEF ReadOption
  <2> HIDE DEF v
  <2>4. CASE a.opt = "-d"
    BY <1>0, <1>1, <2>3, <2>4
  <2>5. CASE a.opt = "-n"
    BY <1>0, <1>1, <2>3, <2>5
  <2>6. CASE a.opt = "-l"
    BY <1>0, <1>1, <2>3, <2>6
  <2>7. CASE a.opt = "-s"
    BY <1>0, <1>1, <2>3, <2>7
  <2>8. CASE a.opt = "-e"
    BY <1>0, <1>1, <2>3, <2>8
  <2>9. CASE a.opt = "-k"
    <3>1. r = [o EXCEPT !.keyword = v]
      BY <2>3, <2>9
    <3> QED  BY <1>0, <2>1, <2>9, <3>1 DEF OptionsOK
  <2>10. CASE a.opt = "-c"
    <3>1. r = [o EXCEPT !.max = IF v <= 0 THEN Defaults.max ELSE v]
      BY <2>3, <2>10
    <3>2. (IF v <= 0 THEN Defaults.max ELSE v) \in Nat \ {0}
      BY <2>2, <2>10 DEF Defaults
    <3> QED  BY <1>0, <3>1, <3>2 DEF OptionsOK
  <2>11. CASE a.opt = "--sort" /\ v \in {"causal", "time", "node"}
    <3>1. r = [o EXCEPT !.sort = v]
      BY <2>3, <2>11
    <3> QED  BY <1>0, <2>11, <3>1 DEF OptionsOK
  <2>12. CASE a.opt = "--stats"
    BY <1>0, <1>1, <2>3, <2>12
  <2>13. CASE a.opt = "--or"
    BY <1>0, <1>1, <2>3, <2>13
  <2>14. CASE a.opt = "--dot"
    BY <1>0, <1>1, <2>3, <2>14
  <2>15. CASE /\ a.opt \notin {"-d", "-k", "-n", "-l", "-s", "-e", "-c", "--stats", "--or", "--dot"}
              /\ ~(a.opt = "--sort" /\ v \in {"causal", "time", "node"})
    <3>1. r = [o EXCEPT !.exit = TRUE]
      BY <2>3, <2>15
    <3> QED  BY <1>0, <1>1, <3>1
  <2> QED  BY <2>4, <2>5, <2>6, <2>7, <2>8, <2>9, <2>10, <2>11, <2>12, <2>13, <2>14, <2>15
<1> QED  BY <1>2, <1>3

\* main's loop over its arguments leaves usable options: it has a value for every
\* subset of the arguments, built up by their number, and each is usable.
LEMMA OptionsRead ==
    ASSUME NEW args \in CommandLines
    PROVE  OptionsOK(ReadOptions(args))
<1> DEFINE n == Len(args)
           D == DOMAIN args
           Rule(g, T) == g = [s \in T |-> IF s = {} THEN Defaults
                                          ELSE ReadOption(g[s \ {Max(s)}], args[Max(s)])]
           Small(k) == {s \in SUBSET D : Cardinality(s) <= k}
<1>1. /\ n \in Nat /\ D = 1 .. n
      /\ \A i \in D : /\ args[i].opt = "-k" /\ args[i].arg # <<>> => args[i].arg[1] \in Keywords
                      /\ args[i].opt = "-c" /\ args[i].arg # <<>> => args[i].arg[1] \in Int
  <2>1. args \in Seq(ToSet(args))
    BY StoreAssumption
  <2>2. \A i \in D : args[i] \in ToSet(args)
    BY DEF ToSet
  <2> QED  BY <2>1, <2>2, StoreAssumption, LenProperties
<1>2. IsFiniteSet(D) /\ Cardinality(D) \in Nat
  <2>1. 1 \in Int /\ n \in Int
    BY <1>1
  <2>2. IsFiniteSet(1 .. n)
    BY <2>1, FS_Interval, Zenon
  <2> QED  BY <1>1, <2>2, FS_CardinalityType
<1>3. ASSUME NEW s \in SUBSET D
      PROVE  IsFiniteSet(s) /\ Cardinality(s) \in Nat /\ Cardinality(s) <= Cardinality(D)
  BY <1>2, FS_Subset, FS_CardinalityType
<1>4. ASSUME NEW s \in SUBSET D, s # {}
      PROVE  /\ Max(s) \in s /\ s \ {Max(s)} \in SUBSET D
             /\ Cardinality(s \ {Max(s)}) = Cardinality(s) - 1
  <2>1. s \in SUBSET (0 .. n)
    BY <1>1
  <2>2. Max(s) \in s
    BY <1>1, <1>4, <2>1, GreatestExists
  <2>3. Cardinality(s \ {Max(s)}) = Cardinality(s) - 1
    BY <1>3, <2>2, FS_RemoveElement
  <2> QED  BY <2>2, <2>3
<1> HIDE DEF D, n
<1>5. \E g : Rule(g, SUBSET D)
  <2> DEFINE Lacking == {k \in Nat : ~\E g : Rule(g, Small(k))}
  <2>1. ASSUME Lacking # {}  PROVE FALSE
    <3>1. PICK k \in Lacking : \A j \in Lacking : k <= j
      BY <2>1, FirstExists
    <3>2. k \in Nat /\ ~\E g : Rule(g, Small(k))
      BY <3>1
    <3>3. CASE k = 0
      <4> DEFINE g == [s \in Small(k) |-> Defaults]
      <4>1. \A s \in Small(k) : s = {}
        <5> SUFFICES ASSUME NEW s \in Small(k)  PROVE s = {}
          OBVIOUS
        <5>1. IsFiniteSet(s) /\ Cardinality(s) = 0
          BY <1>3, <3>3
        <5> QED  BY <5>1, FS_EmptySet
      <4> HIDE DEF Small
      <4>2. Rule(g, Small(k))
        BY <4>1
      <4> HIDE DEF Rule
      <4> QED  BY <3>2, <4>2
    <3>4. CASE k # 0
      <4> DEFINE j == k - 1
      <4>1. j \in Nat /\ j < k /\ k = j + 1
        BY <3>2, <3>4
      <4> HIDE DEF j
      <4>2. PICK h : Rule(h, Small(j))
        <5>1. ~(k <= j)
          BY <4>1
        <5> HIDE DEF Rule, Small
        <5>2. j \notin Lacking
          BY <3>1, <5>1
        <5> QED  BY <4>1, <5>2
      <4> DEFINE Value(f, s) == IF s = {} THEN Defaults
                                ELSE ReadOption(f[s \ {Max(s)}], args[Max(s)])
                 g == [s \in Small(k) |-> Value(h, s)]
      <4>3. \A s \in Small(k) : s # {} => s \ {Max(s)} \in Small(j)
        BY <1>3, <1>4, <4>1
      <4>4. \A s \in Small(j) : s \in Small(k)
        BY <1>3, <4>1
      <4> HIDE DEF Small
      <4>5. \A s \in Small(j) : h[s] = Value(h, s)
        BY <4>2
      <4>6. \A s \in Small(k) : g[s] = Value(h, s)
        BY DEF g
      <4> HIDE DEF g
      <4>7. \A s \in Small(j) : g[s] = h[s]
        <5> HIDE DEF Value
        <5> QED  BY <4>4, <4>5, <4>6
      <4>8. \A s \in Small(k) : Value(g, s) = Value(h, s)
        BY <4>3, <4>7
      <4>9. g = [s \in Small(k) |-> Value(g, s)]
        <5> HIDE DEF Value
        <5> QED  BY <4>8 DEF g
      <4>10. Rule(g, Small(k))
        BY <4>9
      <4> HIDE DEF Rule
      <4> QED  BY <3>2, <4>10
    <3> QED  BY <3>3, <3>4
  <2>2. Small(Cardinality(D)) = SUBSET D
    BY <1>3
  <2> HIDE DEF Small, Rule
  <2>3. \E g : Rule(g, Small(Cardinality(D)))
    BY <1>2, <2>1
  <2> QED  BY <2>2, <2>3
<1>6. ASSUME NEW g, Rule(g, SUBSET D)
      PROVE  OptionsOK(g[D])
  <2> DEFINE Bad == {k \in Nat : \E s \in SUBSET D : Cardinality(s) = k /\ ~OptionsOK(g[s])}
  <2>1. ASSUME Bad # {}  PROVE FALSE
    <3>1. PICK k \in Bad : \A j \in Bad : k <= j
      BY <2>1, FirstExists
    <3>2. PICK s \in SUBSET D : Cardinality(s) = k /\ ~OptionsOK(g[s])
      BY <3>1
    <3>3. CASE s = {}
      <4>1. g[s] = Defaults
        BY <1>6, <3>3
      <4> QED  BY <3>2, <4>1 DEF OptionsOK, Defaults
    <3>4. CASE s # {}
      <4> DEFINE x == Max(s)
                 q == s \ {x}
                 j == Cardinality(q)
      <4>1. x \in s /\ q \in SUBSET D /\ j = k - 1 /\ j \in Nat /\ k \in Nat
        BY <1>3, <1>4, <3>1, <3>2, <3>4
      <4>2. g[s] = ReadOption(g[q], args[x])
        BY <1>6, <3>4
      <4> HIDE DEF x, q
      <4>3. ~(k <= j)
        BY <4>1
      <4>4. j \notin Bad
        BY <3>1, <4>3
      <4>5. OptionsOK(g[q])
        BY <4>1, <4>4
      <4>6. x \in D
        BY <4>1
      <4>7. OptionsOK(ReadOption(g[q], args[x]))
        BY <1>1, <4>5, <4>6, ReadOptionOK
      <4> QED  BY <3>2, <4>2, <4>7
    <3> QED  BY <3>3, <3>4
  <2>2. D \in SUBSET D /\ Cardinality(D) \in Nat
    BY <1>2
  <2> QED  BY <2>1, <2>2
<1> DEFINE o == FoldLeft(ReadOption, Defaults, args)
<1>7. o = (CHOOSE g : Rule(g, SUBSET D))[D]
  BY DEF FoldLeft, MapThenFoldSet, D
<1>8. Rule(CHOOSE g : Rule(g, SUBSET D), SUBSET D)
  <2> HIDE DEF Rule
  <2> QED  BY <1>5
<1>9. OptionsOK(o)
  <2> HIDE DEF Rule, o
  <2> QED  BY <1>6, <1>7, <1>8
<1>10. ReadOptions(args) = [o EXCEPT !.exit = o.exit \/ ~o.dir]
  BY DEF ReadOptions
<1> HIDE DEF o
<1>11. DOMAIN o = {"dir", "keyword", "all", "node", "level", "from", "to", "max", "sort",
                   "stats", "dot", "exit"}
  BY <1>9 DEF OptionsOK, Defaults
<1> QED  BY <1>9, <1>10, <1>11 DEF OptionsOK

-----------------------------------------------------------------------------
(***************************************************************************)
(* Looking up keywords.                                                    *)
(***************************************************************************)

\* Every posting list is that of a set of positions of the array.
IndexOK(n) == \A t \in DOMAIN index : \E S \in SUBSET (1 .. n) : index[t] = Increasing(S)

\* The positions the index has for a word.
Places(w) == ToSet(PostingList(w))

LEMMA PostingPlaces ==
    ASSUME NEW n \in Nat, IndexOK(n), NEW w
    PROVE  /\ Places(w) \in SUBSET (1 .. n) /\ Places(w) \in SUBSET Nat
           /\ IsFiniteSet(Places(w))
           /\ PostingList(w) = Increasing(Places(w))
<1>1. PICK S \in SUBSET (1 .. n) : PostingList(w) = Increasing(S)
  <2>1. CASE Term(w) \in DOMAIN index
    BY <2>1 DEF IndexOK, PostingList
  <2>2. CASE Term(w) \notin DOMAIN index
    BY <2>2, IncreasingEmpty DEF PostingList
  <2> QED  BY <2>1, <2>2
<1>2. IsFiniteSet(S)
  <2>1. 1 \in Int /\ n \in Int
    OBVIOUS
  <2>2. IsFiniteSet(1 .. n)
    BY <2>1, FS_Interval, Zenon
  <2> QED  BY <2>2, FS_Subset
<1>3. S \in SUBSET Nat
  OBVIOUS
<1>4. Places(w) = S
  BY <1>1, <1>2, <1>3, IncreasingList DEF Places
<1> QED  BY <1>1, <1>2, <1>3, <1>4

\* The words of a text are a sequence.
LEMMA TokensAreSequence ==
    ASSUME NEW text, text \in Seq(ToSet(text)), NEW seps
    PROVE  Tokens(text, seps) \in Seq(ToSet(Tokens(text, seps)))
<1> DEFINE Starts == {i \in DOMAIN text : text[i] \notin seps /\ (i = 1 \/ text[i - 1] \in seps)}
           start == Increasing(Starts)
           words == Tokens(text, seps)
<1>1. Len(text) \in Nat /\ DOMAIN text = 1 .. Len(text)
  BY LenProperties
<1>2. Starts \in SUBSET Nat /\ IsFiniteSet(Starts)
  <2>1. Starts \in SUBSET (1 .. Len(text))
    BY <1>1
  <2>2. IsFiniteSet(1 .. Len(text))
    <3>1. 1 \in Int /\ Len(text) \in Int
      BY <1>1
    <3> QED  BY <3>1, FS_Interval, Zenon
  <2>3. \A i \in 1 .. Len(text) : i \in Nat
    BY <1>1
  <2> HIDE DEF Starts
  <2>4. IsFiniteSet(Starts)
    BY <2>1, <2>2, FS_Subset
  <2> QED  BY <2>1, <2>3, <2>4
<1>3. DOMAIN start = 1 .. Cardinality(Starts) /\ Cardinality(Starts) \in Nat
  <2> HIDE DEF Starts
  <2> QED  BY <1>2, IncreasingList, FS_CardinalityType
<1>4. words = [m \in DOMAIN start |-> Token(text, seps, start[m])]
  BY DEF Tokens
<1> HIDE DEF start, Starts, words
<1> DEFINE n == Cardinality(Starts)
<1>5. n \in Nat /\ DOMAIN words = 1 .. n /\ words = [m \in 1 .. n |-> words[m]]
  BY <1>3, <1>4
<1> HIDE DEF n
<1>6. words \in [1 .. n -> ToSet(words)]
  BY <1>5 DEF ToSet
<1> QED  BY <1>5, <1>6, SeqDef DEF words

\* What a query asks for is a sequence of words.
LEMMA WordsAreSequence ==
    ASSUME NEW query \in Keywords
    PROVE  Words(query) \in Seq(ToSet(Words(query)))
<1> DEFINE text == Cut(query, QUERY_MAX)
           n == Len(query)
           k == Min({QUERY_MAX, n})
<1>1. query \in Seq(ToSet(query))
  BY StoreAssumption
<1>2. n \in Nat /\ QUERY_MAX \in Nat
  BY <1>1, LenProperties, StoreAssumption
<1>3. k \in Nat /\ k <= n
  <2> DEFINE x == QUERY_MAX
             T == {x, n}
  <2> HIDE DEF x, n
  <2>1. x \in Nat /\ n \in Nat
    BY <1>2 DEF x
  <2>2. \E z \in T : \A w \in T : z =< w
    BY <2>1
  <2>3. Min(T) \in T /\ \A w \in T : Min(T) =< w
    <3> HIDE DEF T
    <3> QED  BY <2>2 DEF Min
  <2> QED  BY <2>1, <2>3 DEF x
<1>4. text = SubSeq(query, 1, k)
  BY DEF Cut
<1> HIDE DEF k, n
<1>5. text \in Seq(ToSet(query)) /\ Len(text) \in Nat
  <2>1. SubSeq(query, 1, k) \in Seq(ToSet(query))
    BY <1>1, <1>2, <1>3, SubSeqProperties DEF n
  <2> QED  BY <1>4, <2>1, LenProperties
<1> HIDE DEF text
<1>6. text \in Seq(ToSet(text))
  <2>1. text \in [1 .. Len(text) -> ToSet(query)] /\ DOMAIN text = 1 .. Len(text)
    BY <1>5, LenProperties
  <2>2. text \in [1 .. Len(text) -> ToSet(text)]
    BY <2>1 DEF ToSet
  <2> QED  BY <1>5, <2>2, SeqDef
<1>7. Words(query) = Tokens(text, {" "})
  BY DEF Words, text
<1> QED  BY <1>6, <1>7, TokensAreSequence

\* AND and OR over the keywords: the increasing list of the positions that every
\* keyword, or some keyword, has.
LEMMA LookupAnswers ==
    ASSUME NEW n \in Nat, IndexOK(n), NEW query \in Keywords, NEW words,
           words = Words(query), words # <<>>, NEW all
    PROVE  Lookup(query, all) =
               Increasing({i \in 1 .. n : IF all THEN \A w \in ToSet(words) : i \in Places(w)
                                          ELSE \E w \in ToSet(words) : i \in Places(w)})
<1> DEFINE tail == Tail(words)
           D == DOMAIN tail
           first == Places(Head(words))
           P(k) == Places(tail[k])
           Hits(s) == {i \in 1 .. n : IF all THEN i \in first /\ \A k \in s : i \in P(k)
                                      ELSE i \in first \/ \E k \in s : i \in P(k)}
           Both(found, w) == IF all THEN Intersect(found, PostingList(w))
                             ELSE Unite(found, PostingList(w))
           Step(g, s) == IF s = {} THEN PostingList(Head(words))
                         ELSE Both(g[s \ {Max(s)}], tail[Max(s)])
           Rule(g) == g = [s \in SUBSET D |-> Step(g, s)]
           F == [s \in SUBSET D |-> Increasing(Hits(s))]
<1>1. /\ Len(tail) \in Nat /\ D = 1 .. Len(tail)
      /\ ToSet(words) = {Head(words)} \cup {tail[k] : k \in D}
  <2>1. words \in Seq(ToSet(words))
    BY WordsAreSequence
  <2>2. Len(words) \in Nat /\ DOMAIN words = 1 .. Len(words) /\ Len(words) # 0
    BY <2>1, LenProperties, EmptySeq
  <2>3. /\ Head(words) = words[1]
        /\ tail \in Seq(ToSet(words)) /\ Len(tail) = Len(words) - 1
        /\ \A k \in 1 .. Len(tail) : tail[k] = words[k + 1]
    BY <2>1, <2>2, HeadTailProperties
  <2> HIDE DEF tail
  <2>4. D = 1 .. Len(tail) /\ Len(tail) \in Nat
    BY <2>3, LenProperties
  <2>5. ASSUME NEW j \in 1 .. Len(words)
        PROVE  words[j] \in {Head(words)} \cup {tail[k] : k \in D}
    <3>1. CASE j = 1
      BY <2>3, <3>1
    <3>2. CASE j # 1
      <4>1. j - 1 \in 1 .. Len(tail) /\ (j - 1) + 1 = j
        BY <2>2, <2>3, <3>2
      <4>2. tail[j - 1] = words[j]
        BY <2>3, <4>1
      <4> QED  BY <2>4, <4>1, <4>2
    <3> QED  BY <3>1, <3>2
  <2>6. ASSUME NEW k \in 1 .. Len(tail)  PROVE tail[k] \in ToSet(words)
    <3>1. k + 1 \in 1 .. Len(words)
      BY <2>2, <2>3
    <3> QED  BY <2>2, <2>3, <3>1 DEF ToSet
  <2>7. Head(words) \in ToSet(words)
    <3>1. 1 \in DOMAIN words
      BY <2>2
    <3> QED  BY <2>3, <3>1 DEF ToSet
  <2> QED  BY <2>2, <2>4, <2>5, <2>6, <2>7 DEF ToSet
<1> HIDE DEF tail, D
<1>2. /\ first \in SUBSET (1 .. n)
      /\ PostingList(Head(words)) = Increasing(first)
      /\ \A k : /\ P(k) \in SUBSET (1 .. n)  /\ P(k) \in SUBSET Nat
                /\ IsFiniteSet(P(k))
                /\ PostingList(tail[k]) = Increasing(P(k))
  BY PostingPlaces
<1>3. ASSUME NEW s  PROVE Hits(s) \in SUBSET Nat /\ IsFiniteSet(Hits(s))
  <2>1. 1 \in Int /\ n \in Int
    OBVIOUS
  <2>2. IsFiniteSet(1 .. n)
    BY <2>1, FS_Interval, Zenon
  <2>3. Hits(s) \in SUBSET (1 .. n)
    OBVIOUS
  <2> HIDE DEF Hits
  <2> QED  BY <2>2, <2>3, FS_Subset
<1>4. ASSUME NEW s \in SUBSET D, s # {}
      PROVE  Max(s) \in s /\ s \ {Max(s)} \in SUBSET D
  <2>1. s \in SUBSET (0 .. Len(tail))
    BY <1>1
  <2> QED  BY <1>1, <1>4, <2>1, GreatestExists
\* One more keyword: what was found and the keyword's list are run together.
<1>5. ASSUME NEW g, NEW s \in SUBSET D, s # {} => g[s \ {Max(s)}] = Increasing(Hits(s \ {Max(s)}))
      PROVE  Step(g, s) = Increasing(Hits(s))
  <2>1. CASE s = {}
    <3>1. Hits({}) = first
      BY <1>2
    <3> HIDE DEF Hits, first
    <3>2. Step(g, s) = PostingList(Head(words))
      BY <2>1
    <3> QED  BY <1>2, <2>1, <3>1, <3>2
  <2>2. CASE s # {}
    <3> DEFINE x == Max(s)
               q == s \ {x}
    <3>1. x \in s /\ s = q \cup {x}
      BY <1>4, <2>2
    <3>2. g[q] = Increasing(Hits(q)) /\ Step(g, s) = Both(g[q], tail[x])
      BY <1>5, <2>2
    <3> HIDE DEF x, q, Step
    <3>3. CASE all
      <4>1. Hits(s) = Hits(q) \cap P(x)
        BY <1>2, <3>1, <3>3
      <4> HIDE DEF Hits, P
      <4>2. Intersect(Increasing(Hits(q)), Increasing(P(x))) = Increasing(Hits(q) \cap P(x))
        BY <1>2, <1>3, IntersectLists
      <4>3. Both(g[q], tail[x]) = Intersect(g[q], PostingList(tail[x]))
        BY <3>3
      <4> QED  BY <1>2, <3>2, <4>1, <4>2, <4>3
    <3>4. CASE ~all
      <4>1. Hits(s) = Hits(q) \cup P(x)
        BY <1>2, <3>1, <3>4
      <4> HIDE DEF Hits, P
      <4>2. Unite(Increasing(Hits(q)), Increasing(P(x))) = Increasing(Hits(q) \cup P(x))
        BY <1>2, <1>3, UniteLists
      <4>3. Both(g[q], tail[x]) = Unite(g[q], PostingList(tail[x]))
        BY <3>4
      <4> QED  BY <1>2, <3>2, <4>1, <4>2, <4>3
    <3> QED  BY <3>3, <3>4
  <2> QED  BY <2>1, <2>2
<1>6. Rule(F)
  <2> HIDE DEF Hits, Step
  <2>1. \A s \in SUBSET D : F[s] = Increasing(Hits(s))
    OBVIOUS
  <2> HIDE DEF F
  <2>2. \A s \in SUBSET D : s # {} => F[s \ {Max(s)}] = Increasing(Hits(s \ {Max(s)}))
    BY <1>4, <2>1
  <2>3. \A s \in SUBSET D : Step(F, s) = Increasing(Hits(s))
    BY <1>5, <2>2
  <2> QED  BY <2>3 DEF F
<1>7. ASSUME NEW g, Rule(g)
      PROVE  g[D] = Increasing(Hits(D))
  <2> HIDE DEF Hits, Step
  <2> DEFINE Bad == {k \in Nat : \E s \in SUBSET D :
                                     Cardinality(s) = k /\ g[s] # Increasing(Hits(s))}
  <2>0. IsFiniteSet(D)
    <3>1. 1 \in Int /\ Len(tail) \in Int
      BY <1>1
    <3> QED  BY <1>1, <3>1, FS_Interval, Zenon
  <2>1. ASSUME Bad # {}  PROVE FALSE
    <3>1. PICK k \in Bad : \A j \in Bad : k <= j
      BY <2>1, FirstExists
    <3>2. PICK s \in SUBSET D : Cardinality(s) = k /\ g[s] # Increasing(Hits(s))
      BY <3>1
    <3>3. g[s] = Step(g, s)
      BY <1>7
    <3>4. ASSUME s # {}  PROVE g[s \ {Max(s)}] = Increasing(Hits(s \ {Max(s)}))
      <4> DEFINE q == s \ {Max(s)}
                 j == Cardinality(q)
      <4>1. q \in SUBSET D /\ Max(s) \in s
        BY <1>4, <3>4
      <4>2. IsFiniteSet(s) /\ IsFiniteSet(q)
        BY <2>0, <4>1, FS_Subset
      <4>3. j = k - 1 /\ j \in Nat /\ k \in Nat
        BY <3>1, <3>2, <4>1, <4>2, FS_RemoveElement, FS_CardinalityType
      <4> HIDE DEF q
      <4>4. ~(k <= j)
        BY <4>3
      <4>5. j \notin Bad
        BY <3>1, <4>4
      <4>6. g[q] = Increasing(Hits(q))
        BY <4>1, <4>3, <4>5
      <4> QED  BY <4>6 DEF q
    <3>5. Step(g, s) = Increasing(Hits(s))
      BY <1>5, <3>4
    <3> QED  BY <3>2, <3>3, <3>5
  <2>2. D \in SUBSET D /\ Cardinality(D) \in Nat
    BY <2>0, FS_CardinalityType
  <2> QED  BY <2>1, <2>2
<1>8. Lookup(query, all) = (CHOOSE g : Rule(g))[D]
  BY DEF Lookup, FoldLeft, MapThenFoldSet, D, tail
<1>9. Hits(D) = {i \in 1 .. n : IF all THEN \A w \in ToSet(words) : i \in Places(w)
                                ELSE \E w \in ToSet(words) : i \in Places(w)}
  BY <1>1
<1> HIDE DEF Rule, F, Hits
<1>10. Rule(CHOOSE g : Rule(g))
  BY <1>6
<1> QED  BY <1>7, <1>8, <1>9, <1>10

-----------------------------------------------------------------------------
(***************************************************************************)
(* Type correctness.                                                       *)
(***************************************************************************)

\* The three sorts rearrange the array.
LEMMA SortArranges ==
    ASSUME NEW args \in CommandLines, Sort(args)
    PROVE  \E p \in Bijection(DOMAIN entries, DOMAIN entries) :
               entries' = [i \in DOMAIN entries |-> entries[p[i]]]
<1>1. OptionsOK(ReadOptions(args))
  BY OptionsRead
<1>2. \/ entries' \in Sorted(entries, CausallyLess)
      \/ entries' \in Sorted(entries, ByTime)
      \/ entries' \in Sorted(entries, ByNode)
  <2> DEFINE sort == ReadOptions(args).sort
  <2>1. sort \in {"causal", "time", "node"}
    BY <1>1 DEF OptionsOK
  <2>2. entries' \in CASE sort = "causal" -> Sorted(entries, CausallyLess)
                       [] sort = "time"   -> Sorted(entries, ByTime)
                       [] sort = "node"   -> Sorted(entries, ByNode)
    BY DEF Sort
  <2> HIDE DEF sort
  <2>3. CASE sort = "causal"
    BY <2>2, <2>3
  <2>4. CASE sort = "time"
    BY <2>2, <2>4
  <2>5. CASE sort = "node"
    BY <2>2, <2>5
  <2> QED  BY <2>1, <2>3, <2>4, <2>5
<1> DEFINE A == {[i \in DOMAIN entries |-> entries[p[i]]] :
                    p \in Bijection(DOMAIN entries, DOMAIN entries)}
<1>3. entries' \in A
  <2>1. CASE entries' \in Sorted(entries, CausallyLess)
    BY <2>1 DEF Sorted
  <2>2. CASE entries' \in Sorted(entries, ByTime)
    BY <2>2 DEF Sorted
  <2>3. CASE entries' \in Sorted(entries, ByNode)
    BY <2>3 DEF Sorted
  <2> QED  BY <1>2, <2>1, <2>2, <2>3
<1> QED  BY <1>3

LEMMA ArrangedElements ==
    ASSUME NEW S, NEW s \in Seq(S), NEW p \in Bijection(DOMAIN s, DOMAIN s), NEW r,
           r = [i \in DOMAIN s |-> s[p[i]]]
    PROVE  /\ r \in Seq(S) /\ Len(r) = Len(s)
           /\ DOMAIN r = DOMAIN s
           /\ ToSet(r) = ToSet(s)
<1>1. Len(s) \in Nat /\ DOMAIN s = 1 .. Len(s) /\ \A i \in DOMAIN s : s[i] \in S
  BY LenProperties, ElementOfSeq
<1>2. /\ p \in [DOMAIN s -> DOMAIN s]
      /\ \A k \in DOMAIN s : \E i \in DOMAIN s : p[i] = k
  BY DEF Bijection, Surjection
<1>3. r \in [1 .. Len(s) -> S]
  BY <1>1, <1>2
<1>4. r \in Seq(S) /\ Len(r) = Len(s)
  BY <1>1, <1>3, SeqDef
<1>5. ToSet(r) = ToSet(s)
  BY <1>2 DEF ToSet
<1> QED  BY <1>1, <1>3, <1>4, <1>5

LEMMA Bounds == MaxFailures \in Nat /\ InitCapacity \in Nat \ {0}
BY StoreAssumption

\* What the type needs to be kept: posting lists are increasing, options usable, and
\* nothing is answered before it is asked.
StoreInv ==
    /\ TypeOK
    /\ capacity \in Nat \ {0}
    /\ IndexOK(Len(entries))
    /\ OptionsOK(opts)
    /\ at \in {"start", "dir", "load", "index"} => DOMAIN index = {}
    /\ at \in {"start", "dir", "load", "index", "sort", "query", "export"} =>
            edges = {} /\ DOMAIN clusters = {}
    /\ at \in {"start", "dir", "load", "index", "sort", "query"} => results = <<>>

LEMMA NoElements == DOMAIN <<>> = {} /\ ToSet(<<>>) = {}
<1>1. \A S : <<>> \in Seq(S) /\ Len(<<>>) = 0
  BY EmptySeq
<1>2. DOMAIN <<>> = 1 .. 0
  BY <1>1, LenProperties
<1> QED  BY <1>2 DEF ToSet

LEMMA StoreInit == Init => StoreInv
<1> SUFFICES ASSUME Init  PROVE StoreInv
  OBVIOUS
<1>1. /\ entries \in Seq(Lines) /\ Len(entries) = 0
      /\ rest \in Seq(Lines \cup {Malformed})
      /\ ToSet(results) = {} /\ DOMAIN stats = {} /\ DOMAIN clusters = {} /\ DOMAIN index = {}
  BY EmptySeq, NoElements DEF Init
<1>2. InitCapacity \in Nat \ {0} /\ MaxFailures \in Nat
  BY StoreAssumption
<1>3. TypeOK
  BY <1>1, <1>2 DEF Init, TypeOK
<1>4. OptionsOK(Defaults)
  BY DEF OptionsOK, Defaults
<1> QED  BY <1>1, <1>2, <1>3, <1>4 DEF Init, StoreInv, IndexOK

\* What the array and the index are made of stays.
LEMMA StoreElements ==
    ASSUME StoreInv
    PROVE  /\ entries \in Seq(Lines) /\ Len(entries) \in Nat
           /\ DOMAIN entries = 1 .. Len(entries)
           /\ ToSet(entries) \in SUBSET Lines
<1>1. entries \in Seq(Lines)
  BY DEF StoreInv, TypeOK
<1> QED  BY <1>1, LenProperties, ElementOfSeq DEF ToSet

\* The steps before there is an array to look at.
LEMMA LoadStep ==
    ASSUME StoreInv, NextLine,
           \/ Head(rest) = Malformed /\ UNCHANGED <<loaded, entries, capacity, keys, failures>>
           \/ DropRepeated
           \/ \E remembered, room \in BOOLEAN : StoreLine(remembered, room)
    PROVE  StoreInv'
<1>1. /\ at = "load" /\ at' = "load" /\ rest # <<>> /\ rest' = Tail(rest)
      /\ UNCHANGED <<dir, unread, index, opts, results, stats, edges, clusters>>
  BY DEF NextLine, outVars
<1>2. rest \in Seq(Lines \cup {Malformed}) /\ rest' \in Seq(Lines \cup {Malformed})
      /\ Head(rest) \in Lines \cup {Malformed}
  <2>1. rest \in Seq(Lines \cup {Malformed})
    BY DEF StoreInv, TypeOK
  <2> QED  BY <1>1, <2>1, HeadTailProperties
<1>3. /\ DOMAIN index = {} /\ edges = {} /\ DOMAIN clusters = {} /\ results = <<>>
      /\ entries \in Seq(Lines) /\ Len(entries) \in Nat /\ Len(entries) <= capacity
      /\ capacity \in Nat \ {0} /\ loaded \in Nat /\ failures \in 0 .. MaxFailures
      /\ keys \subseteq {Key(e) : e \in Lines}
  BY <1>1, StoreElements DEF StoreInv, TypeOK
<1>4. /\ entries' \in Seq(Lines) /\ Len(entries') <= capacity'
      /\ capacity' \in Nat \ {0} /\ loaded' \in Nat /\ failures' \in 0 .. MaxFailures
      /\ keys' \subseteq {Key(e) : e \in Lines}
  <2>1. CASE Head(rest) = Malformed /\ UNCHANGED <<loaded, entries, capacity, keys, failures>>
    BY <1>3, <2>1
  <2>2. CASE DropRepeated
    BY <1>3, <2>2 DEF DropRepeated
  <2>3. ASSUME NEW remembered \in BOOLEAN, NEW room \in BOOLEAN, StoreLine(remembered, room)
        PROVE  /\ entries' \in Seq(Lines) /\ Len(entries') <= capacity'
               /\ capacity' \in Nat \ {0} /\ loaded' \in Nat /\ failures' \in 0 .. MaxFailures
               /\ keys' \subseteq {Key(e) : e \in Lines}
    <3>1. Head(rest) \in Lines
      BY <1>2, <2>3 DEF StoreLine
    <3>2. Append(entries, Head(rest)) \in Seq(Lines)
          /\ Len(Append(entries, Head(rest))) = Len(entries) + 1
      BY <1>3, <3>1, AppendProperties
    <3>3. /\ keys' = IF remembered THEN keys \cup {Key(Head(rest))} ELSE keys
          /\ capacity' = IF Len(entries) >= capacity /\ room THEN 2 * capacity ELSE capacity
          /\ entries' = IF room THEN Append(entries, Head(rest)) ELSE entries
          /\ loaded' = IF room THEN loaded + 1 ELSE loaded
      BY <2>3 DEF StoreLine
    <3>4. failures' \in 0 .. MaxFailures
      <4> DEFINE lost == {i \in 1 .. 2 : ~<<remembered, room>>[i]}
      <4>1. Cardinality(lost) \in Nat
        <5>1. IsFiniteSet(1 .. 2)
          <6>1. 1 \in Int /\ 2 \in Int
            OBVIOUS
          <6> QED  BY <6>1, FS_Interval, Zenon
        <5> HIDE DEF lost
        <5>2. lost \in SUBSET (1 .. 2)
          BY DEF lost
        <5> QED  BY <5>1, <5>2, FS_Subset, FS_CardinalityType
      <4>2. failures' = failures + Cardinality(lost) /\ failures' <= MaxFailures
        BY <2>3 DEF StoreLine
      <4> HIDE DEF lost
      <4> QED  BY <1>3, <4>1, <4>2, Bounds
    <3>5. capacity' \in Nat \ {0} /\ Len(entries') <= capacity'
      BY <1>3, <3>2, <3>3
    <3>6. entries' \in Seq(Lines) /\ loaded' \in Nat /\ keys' \subseteq {Key(e) : e \in Lines}
      BY <1>3, <3>1, <3>2, <3>3
    <3> QED  BY <3>4, <3>5, <3>6
  <2> QED  BY <2>1, <2>2, <2>3
<1>5. TypeOK'
  <2>1. ToSet(results') = {} /\ DOMAIN stats' \subseteq StatsSlots /\ edges' = {}
        /\ DOMAIN clusters' = {} /\ DOMAIN index' = {}
    BY <1>1, <1>3, NoElements DEF StoreInv, TypeOK
  <2> QED  BY <1>1, <1>2, <1>4, <2>1 DEF StoreInv, TypeOK
<1> QED  BY <1>1, <1>3, <1>4, <1>5 DEF StoreInv, IndexOK

\* What is read of a file is lines.
LEMMA LinesOfFile ==
    ASSUME NEW c \in Contents
    PROVE  FileLines(c) \in Seq(Lines \cup {Malformed})
<1>1. CASE c.form \in {"plain", "lz4"}
  <2>1. c.lines \in Seq(Lines \cup {Malformed})
    BY StoreAssumption
  <2> QED  BY <1>1, <2>1 DEF FileLines
<1>2. CASE c.form \notin {"plain", "lz4"}
  <2>1. c.text \in Seq({"{", "other"}) /\ Zero \in Lines
    BY StoreAssumption
  <2>2. DOMAIN c.text = 1 .. Len(c.text) /\ Len(c.text) \in Nat
    BY <2>1, LenProperties
  <2>3. FileLines(c) = [i \in 1 .. Len(c.text) |-> IF c.text[i] = "{" THEN Zero ELSE Malformed]
    BY <1>2, <2>2 DEF FileLines
  <2>4. FileLines(c) \in [1 .. Len(c.text) -> Lines \cup {Malformed}]
    BY <2>1, <2>3
  <2> QED  BY <2>2, <2>4, SeqDef
<1> QED  BY <1>1, <1>2

LEMMA OpenStep ==
    ASSUME StoreInv, NEW f \in Files, OpenFile(f)
    PROVE  StoreInv'
<1>1. /\ at = "dir" /\ at' = "load" /\ unread' = unread \ {f}
      /\ rest' = FileLines(dir[f])
      /\ UNCHANGED <<dir, loaded, entries, capacity, keys, index, opts, failures>>
      /\ UNCHANGED <<results, stats, edges, clusters>>
  BY DEF OpenFile, outVars
<1>2. rest' \in Seq(Lines \cup {Malformed})
  <2>1. dir[f] \in Contents
    BY DEF StoreInv, TypeOK
  <2> QED  BY <1>1, <2>1, LinesOfFile
<1>3. TypeOK'
  BY <1>1, <1>2 DEF StoreInv, TypeOK, Pairs
<1> QED  BY <1>1, <1>3 DEF StoreInv, IndexOK

\* Steps that only move main on.
LEMMA MoveOn ==
    ASSUME StoreInv, Begin \/ CloseFile \/ LoadDone \/ NoExport
    PROVE  StoreInv'
<1>1. UNCHANGED <<dir, entries, index, opts, results, stats, edges, clusters,
                  unread, rest, loaded, capacity, keys, failures>>
  BY DEF Begin, CloseFile, LoadDone, NoExport, outVars, loadVars
<1>2. \/ at = "start" /\ at' \in {"done", "dir"}
      \/ at = "load" /\ at' = "dir"
      \/ at = "dir" /\ at' \in {"done", "index"}
      \/ at = "export" /\ at' = "done"
  BY DEF Begin, CloseFile, LoadDone, NoExport
<1>3. TypeOK'
  BY <1>1, <1>2 DEF StoreInv, TypeOK, Pairs
<1> QED  BY <1>1, <1>2, <1>3 DEF StoreInv, IndexOK

LEMMA PositionsFinite ==
    ASSUME NEW n \in Nat, NEW S \in SUBSET (1 .. n)
    PROVE  S \in SUBSET Nat /\ IsFiniteSet(S) /\ Cardinality(S) \in Nat
<1>1. 1 \in Int /\ n \in Int
  OBVIOUS
<1>2. IsFiniteSet(1 .. n)
  BY <1>1, FS_Interval, Zenon
<1>3. IsFiniteSet(S)
  BY <1>2, FS_Subset
<1> QED  BY <1>3, FS_CardinalityType

\* The index as built: for every term, the positions it occurs at.
LEMMA IndexStep ==
    ASSUME StoreInv, BuildIndex
    PROVE  StoreInv'
<1>1. /\ at = "index" /\ at' = "sort" /\ index' = Postings(entries)
      /\ UNCHANGED <<dir, entries, opts, results, stats, edges, clusters,
                     unread, rest, loaded, capacity, keys, failures>>
  BY DEF BuildIndex, outVars, loadVars
<1>2. Len(entries) \in Nat /\ DOMAIN entries = 1 .. Len(entries)
  BY StoreElements
<1>3. ASSUME NEW t \in DOMAIN index'
      PROVE  \E S \in SUBSET (1 .. Len(entries)) : index'[t] = Increasing(S) /\ ToSet(index'[t]) = S
  <2> DEFINE S == {i \in DOMAIN entries : t \in Terms(entries[i])}
  <2>1. index'[t] = Increasing(S)
    BY <1>1 DEF Postings
  <2>2. S \in SUBSET (1 .. Len(entries))
    BY <1>2
  <2> HIDE DEF S
  <2>3. ToSet(Increasing(S)) = S
    BY <1>2, <2>2, PositionsFinite, IncreasingList
  <2> QED  BY <2>1, <2>2, <2>3
<1>4. IndexOK(Len(entries))'
  BY <1>1, <1>3 DEF IndexOK
<1>5. \A t \in DOMAIN index' : ToSet(index'[t]) \subseteq DOMAIN entries
  BY <1>2, <1>3
<1>6. TypeOK'
  BY <1>1, <1>5 DEF StoreInv, TypeOK, Pairs
<1> QED  BY <1>1, <1>4, <1>6 DEF StoreInv

LEMMA SortStep ==
    ASSUME StoreInv, NEW args \in CommandLines, Sort(args)
    PROVE  StoreInv'
<1>1. /\ at = "sort" /\ at' = "query" /\ opts' = ReadOptions(args)
      /\ UNCHANGED <<dir, index, results, stats, edges, clusters,
                     unread, rest, loaded, capacity, keys, failures>>
  BY DEF Sort, outVars, loadVars
<1>2. entries' \in Seq(Lines) /\ Len(entries') = Len(entries)
      /\ DOMAIN entries' = DOMAIN entries
  BY StoreElements, SortArranges, ArrangedElements
<1>3. /\ edges = {} /\ DOMAIN clusters = {} /\ results = <<>>
  BY <1>1 DEF StoreInv
<1>4. OptionsOK(opts')
  BY <1>1, OptionsRead
<1>5. TypeOK'
  BY <1>1, <1>2, <1>3, NoElements DEF StoreInv, TypeOK, Pairs
<1> QED  BY <1>1, <1>2, <1>3, <1>4, <1>5 DEF StoreInv, IndexOK

LEMMA StatsStep ==
    ASSUME StoreInv, StatsOnly
    PROVE  StoreInv'
<1>1. /\ at = "query" /\ at' = "done" /\ stats' = Counts(entries)
      /\ UNCHANGED <<dir, entries, index, opts, results, edges, clusters,
                     unread, rest, loaded, capacity, keys, failures>>
  BY DEF StatsOnly, loadVars
<1>2. GreatestSlot(entries) \in 0 .. 31
  <2> DEFINE T == {0} \cup ({Slot(e.node) : e \in ToSet(entries)} \cap StatsSlots)
  <2>1. T \in SUBSET (0 .. 31) /\ T # {} /\ 31 \in Nat
    BY DEF StatsSlots
  <2> HIDE DEF T
  <2>2. Max(T) \in T
    BY <2>1, GreatestExists
  <2> QED  BY <2>1, <2>2 DEF GreatestSlot, T
<1>3. DOMAIN stats' \subseteq StatsSlots
  BY <1>1, <1>2 DEF Counts, StatsSlots
<1>4. TypeOK'
  BY <1>1, <1>3 DEF StoreInv, TypeOK, Pairs
<1> QED  BY <1>1, <1>4 DEF StoreInv, IndexOK

\* The positions of an answer: an increasing list of positions of the array.
Found(f) == \E S \in SUBSET (1 .. Len(entries)) : f = Increasing(S)

LEMMA QueryFound ==
    ASSUME StoreInv, QueryIndex \/ QueryFilter
    PROVE  \E f : Found(f) /\ Answer(f)
<1>1. Len(entries) \in Nat /\ DOMAIN entries = 1 .. Len(entries)
  BY StoreElements
<1>2. CASE QueryIndex
  <2>1. opts.keyword \in Keywords /\ IndexOK(Len(entries))
        /\ Answer(Lookup(opts.keyword, opts.all))
    BY <1>2 DEF QueryIndex, StoreInv, OptionsOK
  <2>2. ASSUME NEW words, words = Words(opts.keyword), words # <<>>
        PROVE  \E f : Found(f) /\ Answer(f)
    <3> DEFINE S == {i \in 1 .. Len(entries) :
                        IF opts.all THEN \A w \in ToSet(words) : i \in Places(w)
                        ELSE \E w \in ToSet(words) : i \in Places(w)}
    <3>1. Lookup(opts.keyword, opts.all) = Increasing(S)
      BY <1>1, <2>1, <2>2, LookupAnswers
    <3>2. S \in SUBSET (1 .. Len(entries))
      OBVIOUS
    <3> QED  BY <2>1, <3>1, <3>2 DEF Found
  <2>3. CASE Words(opts.keyword) = <<>>
    <3>1. Lookup(opts.keyword, opts.all) = Increasing({})
      BY <2>3, IncreasingEmpty DEF Lookup
    <3> QED  BY <2>1, <3>1 DEF Found
  <2> QED  BY <2>2, <2>3
<1>3. CASE QueryFilter
  <2> DEFINE S == {i \in DOMAIN entries : Match(entries[i], opts)}
  <2>1. S \in SUBSET (1 .. Len(entries))
    BY <1>1
  <2>2. Answer(Increasing(S))
    BY <1>3 DEF QueryFilter
  <2> QED  BY <2>1, <2>2 DEF Found
<1> QED  BY <1>2, <1>3

\* What is printed: at most max of the positions found, in their order.
LEMMA AnswerElements ==
    ASSUME StoreInv, NEW f, Found(f), Answer(f)
    PROVE  /\ DOMAIN results' \in SUBSET Nat
           /\ \A m \in DOMAIN results' : /\ m \in DOMAIN f /\ f[m] \in DOMAIN entries
                                         /\ results'[m] = entries[f[m]]
           /\ \A m, k \in DOMAIN results' : m < k => f[m] < f[k]
<1>1. PICK S \in SUBSET (1 .. Len(entries)) : f = Increasing(S)
  BY DEF Found
<1>2. Len(entries) \in Nat /\ DOMAIN entries = 1 .. Len(entries)
  BY StoreElements
<1>3. /\ f \in [1 .. Cardinality(S) -> S] /\ Len(f) = Cardinality(S) /\ Cardinality(S) \in Nat
      /\ IsIncreasing(f)
  BY <1>1, <1>2, PositionsFinite, IncreasingList
<1> DEFINE n == Min({opts.max, Len(f)})
<1>4. n \in Nat /\ n <= Len(f)
  <2>1. opts.max \in Nat
    BY DEF StoreInv, OptionsOK
  <2> DEFINE x == opts.max
             y == Len(f)
             T == {x, y}
  <2>2. x \in Nat /\ y \in Nat
    BY <1>3, <2>1
  <2> HIDE DEF x, y
  <2>3. \E z \in T : \A w \in T : z =< w
    BY <2>2
  <2>4. Min(T) \in T /\ \A w \in T : Min(T) =< w
    <3> HIDE DEF T
    <3> QED  BY <2>3 DEF Min
  <2> QED  BY <2>2, <2>4 DEF x, y
<1>5. results' = [m \in 1 .. n |-> entries[f[m]]]
  BY DEF Answer
<1> HIDE DEF n
<1>6. 1 .. n \subseteq 1 .. Len(f) /\ DOMAIN f = 1 .. Len(f)
  BY <1>3, <1>4
<1>7. \A m \in 1 .. n : m \in DOMAIN f /\ f[m] \in DOMAIN entries
  BY <1>2, <1>3, <1>6
<1> QED  BY <1>3, <1>4, <1>5, <1>6, <1>7 DEF IsIncreasing

LEMMA QueryStep ==
    ASSUME StoreInv, QueryIndex \/ QueryFilter
    PROVE  StoreInv'
<1>1. PICK f : Found(f) /\ Answer(f)
  BY QueryFound
<1>2. /\ at = "query" /\ at' = "export"
      /\ UNCHANGED <<dir, entries, index, opts, stats, edges, clusters,
                     unread, rest, loaded, capacity, keys, failures>>
  BY <1>1 DEF Answer, loadVars
<1>3. ToSet(results') \subseteq ToSet(entries)
  BY <1>1, AnswerElements DEF ToSet
<1>4. TypeOK'
  BY <1>2, <1>3 DEF StoreInv, TypeOK, Pairs
<1> QED  BY <1>2, <1>4 DEF StoreInv, IndexOK

LEMMA ExportStep ==
    ASSUME StoreInv, Export
    PROVE  StoreInv'
<1>1. /\ at = "export" /\ at' = "exported"
      /\ edges' = {p \in Pairs : Before(p[1], p[2]) /\ Direct(p[1], p[2])}
      /\ clusters' = [i \in DOMAIN entries |-> Cluster(i)]
      /\ UNCHANGED <<dir, entries, index, opts, results, stats,
                     unread, rest, loaded, capacity, keys, failures>>
  BY DEF Export, loadVars
<1>2. edges' \subseteq Pairs' /\ DOMAIN clusters' = DOMAIN entries'
  BY <1>1 DEF Pairs
<1>3. TypeOK'
  BY <1>1, <1>2 DEF StoreInv, TypeOK
<1> QED  BY <1>1, <1>3 DEF StoreInv, IndexOK

LEMMA StoreNext == StoreInv /\ [Next]_vars => StoreInv'
<1> SUFFICES ASSUME StoreInv, [Next]_vars  PROVE StoreInv'
  OBVIOUS
<1>1. CASE Begin \/ CloseFile \/ LoadDone \/ NoExport
  BY <1>1, MoveOn
<1>2. ASSUME NEW f \in Files, OpenFile(f)  PROVE StoreInv'
  BY <1>2, OpenStep
<1>3. CASE SkipMalformed
  BY <1>3, LoadStep DEF SkipMalformed
<1>4. CASE DropRepeated
  <2>1. NextLine
    BY <1>4 DEF DropRepeated
  <2> QED  BY <1>4, <2>1, LoadStep
<1>5. ASSUME NEW remembered \in BOOLEAN, NEW room \in BOOLEAN, StoreLine(remembered, room)
      PROVE  StoreInv'
  <2>1. NextLine
    BY <1>5 DEF StoreLine
  <2> QED  BY <1>5, <2>1, LoadStep
<1>6. CASE BuildIndex
  BY <1>6, IndexStep
<1>7. ASSUME NEW args \in CommandLines, Sort(args)  PROVE StoreInv'
  BY <1>7, SortStep
<1>8. CASE StatsOnly
  BY <1>8, StatsStep
<1>9. CASE QueryIndex \/ QueryFilter
  BY <1>9, QueryStep
<1>10. CASE Export
  BY <1>10, ExportStep
<1>11. CASE UNCHANGED vars
  <2>1. UNCHANGED <<dir, at, unread, rest, loaded, entries, capacity, keys, index, opts,
                    results, stats, edges, clusters, failures>>
    BY <1>11 DEF vars
  <2>2. TypeOK'
    BY <2>1 DEF StoreInv, TypeOK, Pairs
  <2> QED  BY <2>1, <2>2 DEF StoreInv, IndexOK
<1> QED  BY <1>1, <1>2, <1>3, <1>4, <1>5, <1>6, <1>7, <1>8, <1>9, <1>10, <1>11 DEF Next

\* Every variable keeps its type: an index position is always one of the array, and
\* what is printed is in the store.
THEOREM StoreTypeCorrect == Spec => []TypeOK
<1>1. StoreInv => TypeOK
  BY DEF StoreInv
<1> QED  BY <1>1, StoreInit, StoreNext, PTL DEF Spec

-----------------------------------------------------------------------------
(***************************************************************************)
(* What the sorts leave.                                                   *)
(***************************************************************************)

HonestIn(S) == \A x, y \in S : HappensBefore(x.vc, y.vc) => x.timestamp < y.timestamp

\* With honest timestamps the clocks never overrule them.
LEMMA HonestLines ==
    ASSUME NEW S \in SUBSET Lines, HonestIn(S), NEW x \in S, NEW y \in S
    PROVE  CausallyLess(x, y) <=> ByTime(x, y)
<1>1. x.timestamp \in Nat /\ y.timestamp \in Nat
  BY StoreAssumption
<1>2. CASE vc_compare(x.vc, y.vc) = "BEFORE"
  BY <1>2 DEF CausallyLess, ByTime, HonestIn, HappensBefore
<1>3. CASE vc_compare(x.vc, y.vc) = "AFTER"
  <2>1. HappensBefore(y.vc, x.vc)
    BY <1>3 DEF vc_compare, HappensBefore
  <2>2. y.timestamp < x.timestamp
    BY <2>1 DEF HonestIn
  <2> QED  BY <1>1, <1>3, <2>2 DEF CausallyLess, ByTime
<1>4. CASE vc_compare(x.vc, y.vc) \in {"EQUAL", "CONCURRENT"}
  BY <1>4 DEF CausallyLess
<1> QED  BY <1>2, <1>3, <1>4 DEF vc_compare

\* Timestamps and nodes are orders qsort can sort by, and so are, where timestamps
\* are honest, the clocks before them.
LEMMA WeakOrders ==
    ASSUME NEW S \in SUBSET Lines
    PROVE  /\ WeakOrder(S, ByTime)
           /\ WeakOrder(S, ByNode)
           /\ HonestIn(S) => WeakOrder(S, CausallyLess)
<1>1. \A x \in S : x.timestamp \in Nat /\ x.node \in Nat
  BY StoreAssumption
<1>2. \A x, y, z \in S : /\ ByTime(x, y) /\ ByTime(y, z) => ByTime(x, z)
                         /\ ByTime(x, z) => ByTime(x, y) \/ ByTime(y, z)
  BY <1>1 DEF ByTime
<1>3. \A x, y, z \in S : /\ ByNode(x, y) /\ ByNode(y, z) => ByNode(x, z)
                         /\ ByNode(x, z) => ByNode(x, y) \/ ByNode(y, z)
  BY <1>1 DEF ByNode
<1>4. ASSUME HonestIn(S)  PROVE WeakOrder(S, CausallyLess)
  <2>1. \A x, y \in S : CausallyLess(x, y) <=> ByTime(x, y)
    BY <1>4, HonestLines
  <2> QED  BY <1>2, <2>1 DEF WeakOrder
<1> QED  BY <1>2, <1>3, <1>4 DEF WeakOrder

\* The orders the array is in once it is sorted.
InOrder ==
    at \in {"query", "export", "exported"} =>
        /\ opts.sort = "causal" /\ Honest =>
               \A i, j \in DOMAIN entries : i < j => ~CausallyLess(entries[j], entries[i])
        /\ opts.sort = "node" =>
               \A i, j \in DOMAIN entries : i < j => ~ByNode(entries[j], entries[i])

LEMMA SortOrders ==
    ASSUME StoreInv, NEW args \in CommandLines, Sort(args)
    PROVE  InOrder'
<1> DEFINE sort == ReadOptions(args).sort
<1>1. /\ opts' = ReadOptions(args)
      /\ entries' \in CASE sort = "causal" -> Sorted(entries, CausallyLess)
                        [] sort = "time"   -> Sorted(entries, ByTime)
                        [] sort = "node"   -> Sorted(entries, ByNode)
  BY DEF Sort
<1>2. ToSet(entries) \in SUBSET Lines /\ ToSet(entries') = ToSet(entries)
  BY StoreElements, SortArranges, ArrangedElements
<1>3. ASSUME sort = "causal", Honest', NEW i \in DOMAIN entries', NEW j \in DOMAIN entries', i < j
      PROVE  ~CausallyLess(entries'[j], entries'[i])
  <2>1. HonestIn(ToSet(entries))
    BY <1>2, <1>3 DEF Honest, HonestIn
  <2>2. WeakOrder(ToSet(entries), CausallyLess)
    BY <1>2, <2>1, WeakOrders
  <2>3. entries' \in Sorted(entries, CausallyLess)
    BY <1>1, <1>3
  <2> QED  BY <1>3, <2>2, <2>3 DEF Sorted
<1>4. ASSUME sort = "node", NEW i \in DOMAIN entries', NEW j \in DOMAIN entries', i < j
      PROVE  ~ByNode(entries'[j], entries'[i])
  <2>1. WeakOrder(ToSet(entries), ByNode)
    BY <1>2, WeakOrders
  <2>2. entries' \in Sorted(entries, ByNode)
    <3> HIDE DEF sort
    <3> QED  BY <1>1, <1>4
  <2> QED  BY <1>4, <2>1, <2>2 DEF Sorted
<1> QED  BY <1>1, <1>3, <1>4 DEF InOrder

LEMMA OrderedNext == StoreInv /\ InOrder /\ [Next]_vars => InOrder'
<1> SUFFICES ASSUME StoreInv, InOrder, [Next]_vars  PROVE InOrder'
  OBVIOUS
<1>1. ASSUME NEW args \in CommandLines, Sort(args)  PROVE InOrder'
  BY <1>1, SortOrders
<1>2. CASE QueryIndex \/ QueryFilter \/ Export \/ UNCHANGED vars
  <2>1. UNCHANGED <<entries, opts>>
    BY <1>2 DEF QueryIndex, QueryFilter, Answer, Export, vars
  <2>2. at' \in {"query", "export", "exported"} => at \in {"query", "export", "exported"}
    BY <1>2 DEF QueryIndex, QueryFilter, Answer, Export, vars
  <2> QED  BY <2>1, <2>2 DEF InOrder, Honest
<1>3. CASE \/ Begin \/ (\E f \in Files : OpenFile(f)) \/ SkipMalformed \/ DropRepeated
           \/ (\E remembered, room \in BOOLEAN : StoreLine(remembered, room))
           \/ CloseFile \/ LoadDone \/ BuildIndex \/ StatsOnly \/ NoExport
  <2>1. at' \notin {"query", "export", "exported"}
    BY <1>3 DEF Begin, OpenFile, SkipMalformed, DropRepeated, StoreLine, NextLine, CloseFile,
                LoadDone, BuildIndex, StatsOnly, NoExport
  <2> QED  BY <2>1 DEF InOrder
<1> QED  BY <1>1, <1>2, <1>3 DEF Next

LEMMA OrderedInit == Init => InOrder
BY DEF Init, InOrder

\* --sort causal on honest timestamps leaves no effect before its cause, whatever
\* qsort does with entries that compare equal.
THEOREM CausalSort == Spec => []SortIsCausal
<1>1. StoreInv /\ InOrder => SortIsCausal
  <2> SUFFICES ASSUME InOrder, at \in {"query", "export", "exported"}, opts.sort = "causal",
                      Honest, NEW i \in DOMAIN entries, NEW j \in DOMAIN entries, i < j,
                      Before(j, i)
               PROVE  FALSE
    BY DEF SortIsCausal
  <2> QED  BY DEF InOrder, Before, HappensBefore, CausallyLess
<1> QED  BY <1>1, StoreInit, StoreNext, OrderedInit, OrderedNext, PTL DEF Spec

\* Sorted by node, the cluster that is open is the one of the event: between the
\* first event of a node and this one there are only events of that node.
LEMMA ClusterOfNode ==
    ASSUME StoreInv, \A i, j \in DOMAIN entries : i < j => ~ByNode(entries[j], entries[i]),
           NEW i \in DOMAIN entries
    PROVE  Cluster(i) = entries[i].node
<1> DEFINE node(k) == entries[k].node
           First == {k \in 1 .. i : \A j \in 1 .. k - 1 : node(j) # node(k)}
           Same == {k \in 1 .. i : node(k) = node(i)}
<1>1. /\ DOMAIN entries = 1 .. Len(entries) /\ Len(entries) \in Nat
      /\ \A k \in DOMAIN entries : node(k) \in Nat
  <2>1. \A k \in DOMAIN entries : entries[k] \in Lines
    BY StoreElements DEF ToSet
  <2> QED  BY <2>1, StoreElements, StoreAssumption
<1>2. i \in Nat /\ i \in 1 .. i /\ \A k \in 1 .. i : k \in DOMAIN entries
  BY <1>1
<1>3. \A k, j \in DOMAIN entries : k < j => node(k) <= node(j)
  <2> SUFFICES ASSUME NEW k \in DOMAIN entries, NEW j \in DOMAIN entries, k < j
               PROVE  node(k) <= node(j)
    OBVIOUS
  <2>1. ~ByNode(entries[j], entries[k])
    OBVIOUS
  <2>2. ~(entries[j].node < entries[k].node)
    BY <2>1 DEF ByNode
  <2> QED  BY <1>1, <2>2
<1> HIDE DEF node
<1>4. PICK p \in Same : \A k \in Same : p <= k
  <2>1. Same \subseteq Nat /\ i \in Same
    BY <1>2
  <2> HIDE DEF Same
  <2> QED  BY <2>1, FirstExists
<1>5. p \in First
  <2> SUFFICES ASSUME NEW j \in 1 .. p - 1, node(j) = node(p)  PROVE FALSE
    BY <1>4
  <2>1. j \in 1 .. i /\ j < p
    BY <1>2, <1>4
  <2>2. j \in Same
    BY <1>4, <2>1
  <2>3. ~(p <= j)
    BY <1>4, <2>1
  <2> QED  BY <1>4, <2>2, <2>3
<1> DEFINE m == Max(First)
<1>6. m \in First /\ p <= m
  <2>1. First \in SUBSET (0 .. i) /\ First # {} /\ i \in Nat
    BY <1>2, <1>5
  <2> HIDE DEF First
  <2> QED  BY <1>5, <2>1, GreatestExists
<1>7. m \in 1 .. i /\ p \in 1 .. i /\ node(p) = node(i)
  BY <1>4, <1>6
<1>8. Cluster(i) = node(m)
  BY DEF Cluster, node
<1> HIDE DEF m
<1>9. node(p) <= node(m) /\ node(m) <= node(i)
  <2>1. p = m \/ p < m
    BY <1>2, <1>6, <1>7
  <2>2. m = i \/ m < i
    BY <1>2, <1>7
  <2> QED  BY <1>1, <1>2, <1>3, <1>7, <2>1, <2>2
<1>10. node(m) = node(i)
  BY <1>1, <1>2, <1>7, <1>9
<1> QED  BY <1>8, <1>10 DEF node

\* In the graph of a store sorted by node every event is in the cluster of its node.
THEOREM ClustersOfNodes == Spec => []ClustersAreNodes
<1> DEFINE Inv == StoreInv /\ InOrder /\ ClustersAreNodes
<1>1. Init => Inv
  BY StoreInit, OrderedInit DEF Init, ClustersAreNodes
<1>2. Inv /\ [Next]_vars => ClustersAreNodes'
  <2> SUFFICES ASSUME StoreInv, InOrder, ClustersAreNodes, [Next]_vars, at' = "exported",
                      opts'.sort = "node", NEW i \in DOMAIN entries'
               PROVE  clusters'[i] = entries'[i].node
    BY DEF ClustersAreNodes
  <2>1. CASE Export
    <3>1. /\ at = "export" /\ UNCHANGED <<entries, opts>>
          /\ clusters' = [k \in DOMAIN entries |-> Cluster(k)]
      BY <2>1 DEF Export
    <3>2. \A k, j \in DOMAIN entries : k < j => ~ByNode(entries[j], entries[k])
      BY <3>1 DEF InOrder
    <3> QED  BY <3>1, <3>2, ClusterOfNode
  <2>2. CASE UNCHANGED vars
    BY <2>2 DEF vars, ClustersAreNodes
  <2>3. ~Export /\ ~UNCHANGED vars => at' # "exported"
    BY DEF Next, Begin, OpenFile, SkipMalformed, DropRepeated, StoreLine, NextLine, CloseFile,
           LoadDone, BuildIndex, Sort, StatsOnly, QueryIndex, QueryFilter, Answer, NoExport
  <2> QED  BY <2>1, <2>2, <2>3
<1>3. Inv /\ [Next]_vars => Inv'
  BY <1>2, StoreNext, OrderedNext
<1> QED  BY <1>1, <1>3, PTL DEF Spec

-----------------------------------------------------------------------------
(***************************************************************************)
(* What is loaded.                                                         *)
(***************************************************************************)

\* The entries the files give, their keys and those of the array, the lines still to be read and
\* their keys.
Stored == (UNION {ToSet(FileLines(dir[f])) : f \in Files}) \ {Malformed}
Wanted == {Key(e) : e \in Stored}
Got == {Key(e) : e \in ToSet(entries)}
Unseen == ToSet(rest) \cup UNION {ToSet(FileLines(dir[f])) : f \in unread}
Ahead == {Key(e) : e \in Unseen \ {Malformed}}

\* The keys that cannot come any more: not stored, and remembered or not ahead.
Lost(G, K, V) == {k \in Wanted : k \notin G /\ (k \in K \/ k \notin V)}

\* What failures have cost: the keys lost, the entries there are twice, and the
\* keys that are stored but not remembered, whose next line will be stored again.
Cost(n, G, K, V) == Cardinality(Lost(G, K, V)) + (n - Cardinality(G)) + Cardinality(G \ K)

\* A failed allocation costs one at most, and nothing else costs anything.
DirInv ==
    /\ at \in {"start", "dir"} => rest = <<>>
    /\ at \in {"start", "dir", "load"} =>
            /\ ToSet(entries) \subseteq Stored
            /\ keys \subseteq Wanted
            /\ Unseen \subseteq Stored \cup {Malformed}
            /\ Cost(Len(entries), Got, keys, Ahead) <= failures

LEMMA SequenceFinite ==
    ASSUME NEW S, NEW s \in Seq(S)
    PROVE  /\ IsFiniteSet(ToSet(s)) /\ Len(s) \in Nat
           /\ s \in Surjection(1 .. Len(s), ToSet(s))
           /\ IsFiniteSet(1 .. Len(s)) /\ Cardinality(1 .. Len(s)) = Len(s)
<1> DEFINE n == Len(s)
<1>1. n \in Nat /\ DOMAIN s = 1 .. n /\ s \in [1 .. n -> S]
  BY LenProperties
<1>2. IsFiniteSet(1 .. n) /\ Cardinality(1 .. n) = n
  <2>1. 1 \in Int /\ n \in Int
    BY <1>1
  <2>2. IsFiniteSet(1 .. n) /\ Cardinality(1 .. n) = IF 1 > n THEN 0 ELSE n - 1 + 1
    BY <2>1, FS_Interval, Zenon
  <2> QED  BY <1>1, <2>2
<1>3. s \in Surjection(1 .. n, ToSet(s))
  BY <1>1 DEF Surjection, ToSet
<1>4. IsFiniteSet(ToSet(s))
  BY <1>2, <1>3, FS_Surjection
<1> QED  BY <1>1, <1>2, <1>3, <1>4

\* The directory is finite.
LEMMA WantedFinite ==
    ASSUME dir \in [Files -> Contents]
    PROVE  IsFiniteSet(Stored) /\ IsFiniteSet(Wanted)
<1> DEFINE Texts == {ToSet(FileLines(dir[f])) : f \in Files}
<1>1. IsFiniteSet(Files)
  BY StoreAssumption
<1>2. \A f \in Files : IsFiniteSet(ToSet(FileLines(dir[f])))
  BY LinesOfFile, SequenceFinite
<1>3. IsFiniteSet(Texts)
  <2> DEFINE g == [f \in Files |-> ToSet(FileLines(dir[f]))]
  <2>1. g \in Surjection(Files, Texts)
    BY DEF Surjection
  <2> HIDE DEF g, Texts
  <2> QED  BY <1>1, <2>1, FS_Surjection
<1>4. \A T \in Texts : IsFiniteSet(T)
  BY <1>2
<1>5. IsFiniteSet(UNION Texts)
  <2> HIDE DEF Texts
  <2> QED  BY <1>3, <1>4, FS_UNION
<1>6. IsFiniteSet(Stored)
  <2>1. Stored \in SUBSET UNION Texts
    BY DEF Stored
  <2> HIDE DEF Texts
  <2> QED  BY <1>5, <2>1, FS_Subset
<1>7. IsFiniteSet(Wanted)
  <2> DEFINE g == [e \in Stored |-> Key(e)]
  <2>1. g \in Surjection(Stored, Wanted)
    BY DEF Surjection, Wanted
  <2> HIDE DEF g
  <2> QED  BY <1>6, <2>1, FS_Surjection
<1> QED  BY <1>6, <1>7

\* The key k of the next line is read: what every outcome costs.
LEMMA CostSteps ==
    ASSUME NEW n \in Nat, NEW m \in Nat, m = n + 1, IsFiniteSet(Wanted),
           NEW G \in SUBSET Wanted, NEW K \in SUBSET Wanted, NEW V, NEW W, NEW k \in Wanted,
           V \ {k} \subseteq W, W \subseteq V
    PROVE  /\ Cost(n, G, K, V) \in Int
           /\ k \in K => Cost(n, G, K, W) <= Cost(n, G, K, V)
           /\ k \notin K =>
                 /\ Cost(m, G \cup {k}, K \cup {k}, W) <= Cost(n, G, K, V)
                 /\ Cost(m, G \cup {k}, K, W) <= Cost(n, G, K, V) + 1
                 /\ Cost(n, G, K \cup {k}, W) <= Cost(n, G, K, V) + 1
                 /\ Cost(n, G, K, W) <= Cost(n, G, K, V) + 1
<1> DEFINE L == Lost(G, K, V)
<1>1. /\ IsFiniteSet(G) /\ IsFiniteSet(L) /\ IsFiniteSet(G \ K)
      /\ Cardinality(G) \in Nat /\ Cardinality(L) \in Nat /\ Cardinality(G \ K) \in Nat
  <2>1. L \in SUBSET Wanted /\ G \ K \in SUBSET Wanted
    BY DEF Lost
  <2> HIDE DEF L
  <2>2. IsFiniteSet(G) /\ IsFiniteSet(L) /\ IsFiniteSet(G \ K)
    BY <2>1, FS_Subset
  <2> QED  BY <2>2, FS_CardinalityType
<1>2. /\ IsFiniteSet(L \cup {k}) /\ Cardinality(L \cup {k}) \in Nat
      /\ Cardinality(L \cup {k}) <= Cardinality(L) + 1
      /\ \A X \in SUBSET L : Cardinality(X) \in Nat /\ Cardinality(X) <= Cardinality(L)
      /\ \A X \in SUBSET (L \cup {k}) : Cardinality(X) \in Nat /\ Cardinality(X) <= Cardinality(L) + 1
  <2> HIDE DEF L
  <2>1. /\ IsFiniteSet(L \cup {k})
        /\ Cardinality(L \cup {k}) = IF k \in L THEN Cardinality(L) ELSE Cardinality(L) + 1
    BY <1>1, FS_AddElement
  <2>2. Cardinality(L \cup {k}) \in Nat /\ Cardinality(L \cup {k}) <= Cardinality(L) + 1
    BY <1>1, <2>1
  <2>3. \A X \in SUBSET L : IsFiniteSet(X) /\ Cardinality(X) <= Cardinality(L)
    BY <1>1, FS_Subset
  <2>4. \A X \in SUBSET (L \cup {k}) : IsFiniteSet(X) /\ Cardinality(X) <= Cardinality(L \cup {k})
    BY <2>1, FS_Subset
  <2>5. \A X \in SUBSET L : Cardinality(X) \in Nat
    BY <2>3, FS_CardinalityType
  <2>6. \A X \in SUBSET (L \cup {k}) : Cardinality(X) \in Nat
    BY <2>4, FS_CardinalityType
  <2> QED  BY <1>1, <2>1, <2>2, <2>3, <2>4, <2>5, <2>6
<1>3. /\ Cardinality(G \cup {k}) = IF k \in G THEN Cardinality(G) ELSE Cardinality(G) + 1
      /\ Cardinality((G \ K) \cup {k}) = IF k \in G \ K THEN Cardinality(G \ K)
                                         ELSE Cardinality(G \ K) + 1
      /\ Cardinality((G \ K) \ {k}) = IF k \in G \ K THEN Cardinality(G \ K) - 1
                                      ELSE Cardinality(G \ K)
  BY <1>1, FS_AddElement, FS_RemoveElement
<1>4. ASSUME k \in K  PROVE Cost(n, G, K, W) <= Cost(n, G, K, V)
  <2>1. Lost(G, K, W) \in SUBSET L
    BY <1>4 DEF Lost
  <2> HIDE DEF L
  <2> QED  BY <1>1, <1>2, <2>1 DEF Cost, L
<1>5. ASSUME k \notin K
      PROVE  Cost(m, G \cup {k}, K \cup {k}, W) <= Cost(n, G, K, V)
  <2>1. Lost(G \cup {k}, K \cup {k}, W) \in SUBSET L
    BY DEF Lost
  <2>2. (G \cup {k}) \ (K \cup {k}) = (G \ K) \ {k}
    OBVIOUS
  <2> DEFINE x == Cardinality(Lost(G \cup {k}, K \cup {k}, W))
             y == Cardinality(G \cup {k})
             z == Cardinality((G \ K) \ {k})
  <2>3. Cost(m, G \cup {k}, K \cup {k}, W) = x + (m - y) + z
    BY <2>2 DEF Cost
  <2>4. x \in Nat /\ x <= Cardinality(L)
    BY <1>2, <2>1
  <2>5. \/ y = Cardinality(G) + 1 /\ z = Cardinality(G \ K)
        \/ y = Cardinality(G) /\ z = Cardinality(G \ K) - 1
    BY <1>3, <1>5
  <2>6. Cost(n, G, K, V) = Cardinality(L) + (n - Cardinality(G)) + Cardinality(G \ K)
    BY DEF Cost
  <2> HIDE DEF x, y, z, L
  <2> QED  BY <1>1, <2>3, <2>4, <2>5, <2>6
<1>6. ASSUME k \notin K
      PROVE  Cost(m, G \cup {k}, K, W) <= Cost(n, G, K, V) + 1
  <2>1. Lost(G \cup {k}, K, W) \in SUBSET L
    BY DEF Lost
  <2>2. (G \cup {k}) \ K = (G \ K) \cup {k}
    BY <1>6
  <2> DEFINE x == Cardinality(Lost(G \cup {k}, K, W))
             y == Cardinality(G \cup {k})
             z == Cardinality((G \ K) \cup {k})
  <2>3. Cost(m, G \cup {k}, K, W) = x + (m - y) + z
    BY <2>2 DEF Cost
  <2>4. x \in Nat /\ x <= Cardinality(L)
    BY <1>2, <2>1
  <2>5. \/ y = Cardinality(G) + 1 /\ z = Cardinality(G \ K) + 1
        \/ y = Cardinality(G) /\ z = Cardinality(G \ K)
    BY <1>3, <1>6
  <2>6. Cost(n, G, K, V) = Cardinality(L) + (n - Cardinality(G)) + Cardinality(G \ K)
    BY DEF Cost
  <2> HIDE DEF x, y, z, L
  <2> QED  BY <1>1, <2>3, <2>4, <2>5, <2>6
<1>7. ASSUME k \notin K
      PROVE  Cost(n, G, K \cup {k}, W) <= Cost(n, G, K, V) + 1
  <2>1. Lost(G, K \cup {k}, W) \in SUBSET (L \cup {k})
    BY DEF Lost
  <2>2. G \ (K \cup {k}) = (G \ K) \ {k}
    OBVIOUS
  <2> DEFINE x == Cardinality(Lost(G, K \cup {k}, W))
             z == Cardinality((G \ K) \ {k})
  <2>3. Cost(n, G, K \cup {k}, W) = x + (n - Cardinality(G)) + z
    BY <2>2 DEF Cost
  <2>4. x \in Nat /\ x <= Cardinality(L) + 1
    BY <1>2, <2>1
  <2>5. z = Cardinality(G \ K) \/ z = Cardinality(G \ K) - 1
    BY <1>3
  <2>6. Cost(n, G, K, V) = Cardinality(L) + (n - Cardinality(G)) + Cardinality(G \ K)
    BY DEF Cost
  <2> HIDE DEF x, z, L
  <2> QED  BY <1>1, <2>3, <2>4, <2>5, <2>6
<1>8. Cost(n, G, K, W) <= Cost(n, G, K, V) + 1
  <2>1. Lost(G, K, W) \in SUBSET (L \cup {k})
    BY DEF Lost
  <2> HIDE DEF L
  <2> QED  BY <1>1, <1>2, <2>1 DEF Cost, L
<1>9. Cost(n, G, K, V) \in Int
  <2> HIDE DEF L
  <2> QED  BY <1>1 DEF Cost, L
<1> QED  BY <1>4, <1>5, <1>6, <1>7, <1>8, <1>9

\* The directory does not change.
LEMMA SameDirectory ==
    ASSUME UNCHANGED dir
    PROVE  /\ Stored' = Stored /\ Wanted' = Wanted
           /\ Cost(Len(entries), Got, keys, Ahead)' = Cost(Len(entries'), Got', keys', Ahead')
<1>1. Stored' = Stored
  BY DEF Stored
<1>2. Wanted' = Wanted
  BY <1>1 DEF Wanted
<1> QED  BY <1>1, <1>2 DEF Cost, Lost

\* Reading a line takes it from what is ahead.
LEMMA ReadsOne ==
    ASSUME StoreInv, NextLine
    PROVE  LET h == Head(rest)
           IN  /\ h \in Unseen /\ h \in Lines \cup {Malformed}
               /\ Unseen' \subseteq Unseen
               /\ Ahead' \subseteq Ahead
               /\ h = Malformed => Ahead' = Ahead
               /\ h # Malformed => Ahead \ {Key(h)} \subseteq Ahead'
<1> DEFINE h == Head(rest)
<1>1. /\ rest \in Seq(Lines \cup {Malformed}) /\ rest # <<>> /\ rest' = Tail(rest)
      /\ UNCHANGED <<dir, unread>>
  BY DEF StoreInv, TypeOK, NextLine
<1>2. /\ h \in Lines \cup {Malformed} /\ ToSet(rest) = {h} \cup ToSet(rest')
  <2>1. /\ Len(rest) \in Nat \ {0} /\ DOMAIN rest = 1 .. Len(rest)
        /\ \A i \in 1 .. Len(rest) : rest[i] \in Lines \cup {Malformed}
    BY <1>1, LenProperties, EmptySeq
  <2>2. h = rest[1] /\ 1 \in 1 .. Len(rest)
    BY <1>1, <2>1, HeadTailProperties
  <2>3. /\ rest' \in Seq(Lines \cup {Malformed}) /\ Len(rest') = Len(rest) - 1
        /\ \A i \in 1 .. Len(rest') : rest'[i] = rest[i + 1]
    BY <1>1, HeadTailProperties
  <2>4. DOMAIN rest' = 1 .. Len(rest')
    BY <2>3, LenProperties
  <2>5. ASSUME NEW i \in 1 .. Len(rest)  PROVE rest[i] \in {h} \cup ToSet(rest')
    <3>1. CASE i = 1
      BY <2>2, <3>1
    <3>2. CASE i # 1
      <4>1. i - 1 \in 1 .. Len(rest') /\ (i - 1) + 1 = i
        BY <2>1, <2>3, <3>2
      <4>2. rest'[i - 1] = rest[i]
        BY <2>3, <4>1
      <4> QED  BY <2>4, <4>1, <4>2 DEF ToSet
    <3> QED  BY <3>1, <3>2
  <2>6. ASSUME NEW i \in 1 .. Len(rest')  PROVE rest'[i] \in ToSet(rest)
    <3>1. i + 1 \in 1 .. Len(rest)
      BY <2>1, <2>3
    <3> QED  BY <2>1, <2>3, <3>1 DEF ToSet
  <2> QED  BY <2>1, <2>2, <2>4, <2>5, <2>6 DEF ToSet
<1> HIDE DEF h
<1>3. Unseen = {h} \cup Unseen'
  BY <1>1, <1>2 DEF Unseen
<1>4. h = Malformed => Ahead' = Ahead
  BY <1>3 DEF Ahead
<1>5. Ahead' \subseteq Ahead
  BY <1>3 DEF Ahead
<1>6. h # Malformed => Ahead \ {Key(h)} \subseteq Ahead'
  BY <1>3 DEF Ahead
<1> QED  BY <1>2, <1>3, <1>4, <1>5, <1>6 DEF h

LEMMA SkipKeeps == StoreInv /\ DirInv /\ SkipMalformed => DirInv'
<1> SUFFICES ASSUME StoreInv, DirInv, SkipMalformed  PROVE DirInv'
  OBVIOUS
<1>1. NextLine /\ Head(rest) = Malformed /\ UNCHANGED <<entries, keys, failures, dir, at>> /\ at = "load"
  BY DEF SkipMalformed, NextLine
<1>2. Unseen' \subseteq Unseen /\ Ahead' = Ahead
  BY <1>1, ReadsOne
<1>3. /\ Stored' = Stored /\ Wanted' = Wanted
      /\ Cost(Len(entries), Got, keys, Ahead)' = Cost(Len(entries'), Got', keys', Ahead')
  BY <1>1, SameDirectory
<1>4. Got' = Got
  BY <1>1 DEF Got
<1> QED  BY <1>1, <1>2, <1>3, <1>4 DEF DirInv

\* What is stored and remembered while the directory is read.
LEMMA Loading ==
    ASSUME StoreInv, DirInv, at \in {"start", "dir", "load"}
    PROVE  /\ Len(entries) \in Nat /\ entries \in Seq(Lines)
           /\ IsFiniteSet(Wanted)
           /\ Got \in SUBSET Wanted /\ keys \in SUBSET Wanted
           /\ failures \in Nat
           /\ Cost(Len(entries), Got, keys, Ahead) <= failures
<1>1. /\ dir \in [Files -> Contents] /\ entries \in Seq(Lines) /\ failures \in 0 .. MaxFailures
      /\ MaxFailures \in Nat
  BY StoreAssumption DEF StoreInv, TypeOK
<1>2. Len(entries) \in Nat /\ IsFiniteSet(Wanted)
  BY <1>1, LenProperties, WantedFinite
<1>3. Got \in SUBSET Wanted
  BY DEF DirInv, Got, Wanted
<1> QED  BY <1>1, <1>2, <1>3 DEF DirInv

LEMMA DropKeeps == StoreInv /\ DirInv /\ DropRepeated => DirInv'
<1> SUFFICES ASSUME StoreInv, DirInv, DropRepeated  PROVE DirInv'
  OBVIOUS
<1> DEFINE k == Key(Head(rest))
           n == Len(entries)
<1>1. /\ NextLine /\ Head(rest) # Malformed /\ k \in keys
      /\ UNCHANGED <<entries, keys, failures, dir, at>> /\ at = "load"
  BY DEF DropRepeated, NextLine
<1>2. Unseen' \subseteq Unseen /\ Ahead' \subseteq Ahead /\ Ahead \ {k} \subseteq Ahead'
  BY <1>1, ReadsOne
<1>3. /\ Stored' = Stored /\ Wanted' = Wanted
      /\ Cost(Len(entries), Got, keys, Ahead)' = Cost(Len(entries'), Got', keys', Ahead')
  BY <1>1, SameDirectory
<1>4. Got' = Got
  BY <1>1 DEF Got
<1>5. /\ n \in Nat /\ IsFiniteSet(Wanted) /\ Got \in SUBSET Wanted /\ keys \in SUBSET Wanted
      /\ failures \in Nat /\ Cost(n, Got, keys, Ahead) <= failures
  BY <1>1, Loading
<1> HIDE DEF k, n
<1>6. k \in Wanted
  BY <1>1, <1>5
<1>7. /\ Cost(n, Got, keys, Ahead) \in Int /\ Cost(n, Got, keys, Ahead') \in Int
      /\ Cost(n, Got, keys, Ahead') <= Cost(n, Got, keys, Ahead)
  <2> DEFINE m == n + 1
  <2>1. m \in Nat /\ m = n + 1
    BY <1>5
  <2> HIDE DEF m
  <2>2. Cost(n, Got, keys, Ahead) \in Int /\ Cost(n, Got, keys, Ahead') <= Cost(n, Got, keys, Ahead)
    BY <1>1, <1>2, <1>5, <1>6, <2>1, CostSteps
  <2>3. Ahead' \ {k} \subseteq Ahead' /\ Ahead' \subseteq Ahead'
    OBVIOUS
  <2>4. Cost(n, Got, keys, Ahead') \in Int
    BY <1>5, <1>6, <2>1, <2>3, CostSteps
  <2> QED  BY <2>2, <2>4
<1>8. Cost(n, Got, keys, Ahead') <= failures
  BY <1>5, <1>7
<1> QED  BY <1>1, <1>2, <1>3, <1>4, <1>8 DEF DirInv, n

LEMMA OpenKeeps ==
    ASSUME StoreInv, DirInv, NEW f \in Files, OpenFile(f)
    PROVE  DirInv'
<1>1. /\ at = "dir" /\ at' = "load" /\ f \in unread /\ unread' = unread \ {f}
      /\ rest = <<>> /\ rest' = FileLines(dir[f])
      /\ UNCHANGED <<entries, keys, failures, dir>>
  BY DEF OpenFile, DirInv
<1>2. Unseen' = Unseen
  BY <1>1, NoElements DEF Unseen
<1>3. /\ Stored' = Stored /\ Wanted' = Wanted
      /\ Cost(Len(entries), Got, keys, Ahead)' = Cost(Len(entries'), Got', keys', Ahead')
  BY <1>1, SameDirectory
<1>4. Got' = Got /\ Ahead' = Ahead
  BY <1>1, <1>2 DEF Got, Ahead
<1> QED  BY <1>1, <1>2, <1>3, <1>4 DEF DirInv

LEMMA MoveKeeps ==
    ASSUME StoreInv, DirInv, Begin \/ CloseFile \/ LoadDone \/ NoExport
    PROVE  DirInv'
<1>1. /\ UNCHANGED <<dir, unread, rest, entries, keys, failures>>
      /\ at' \in {"dir"} => rest = <<>>
      /\ at' \in {"start", "dir", "load"} => at' = "dir" /\ at \in {"start", "load"}
  BY DEF Begin, CloseFile, LoadDone, NoExport, loadVars, DirInv
<1>2. Unseen' = Unseen
  BY <1>1 DEF Unseen
<1>3. /\ Stored' = Stored /\ Wanted' = Wanted
      /\ Cost(Len(entries), Got, keys, Ahead)' = Cost(Len(entries'), Got', keys', Ahead')
  BY <1>1, SameDirectory
<1>4. Got' = Got /\ Ahead' = Ahead
  BY <1>1, <1>2 DEF Got, Ahead
<1> QED  BY <1>1, <1>2, <1>3, <1>4 DEF DirInv

\* How many of two allocations failed.
LEMMA FailureCount ==
    /\ Cardinality({i \in 1 .. 2 : ~<<TRUE, TRUE>>[i]}) = 0
    /\ Cardinality({i \in 1 .. 2 : ~<<TRUE, FALSE>>[i]}) = 1
    /\ Cardinality({i \in 1 .. 2 : ~<<FALSE, TRUE>>[i]}) = 1
    /\ Cardinality({i \in 1 .. 2 : ~<<FALSE, FALSE>>[i]}) = 2
<1>1. /\ {i \in 1 .. 2 : ~<<TRUE, TRUE>>[i]} = {}
      /\ {i \in 1 .. 2 : ~<<TRUE, FALSE>>[i]} = {2}
      /\ {i \in 1 .. 2 : ~<<FALSE, TRUE>>[i]} = {1}
      /\ {i \in 1 .. 2 : ~<<FALSE, FALSE>>[i]} = {1} \cup {2}
  <2>1. 1 .. 2 = {1} \cup {2} /\ 1 # 2
    OBVIOUS
  <2>2. /\ <<TRUE, TRUE>>[1] = TRUE /\ <<TRUE, TRUE>>[2] = TRUE
        /\ <<TRUE, FALSE>>[1] = TRUE /\ <<TRUE, FALSE>>[2] = FALSE
        /\ <<FALSE, TRUE>>[1] = FALSE /\ <<FALSE, TRUE>>[2] = TRUE
        /\ <<FALSE, FALSE>>[1] = FALSE /\ <<FALSE, FALSE>>[2] = FALSE
    OBVIOUS
  <2>3. {i \in 1 .. 2 : ~<<TRUE, TRUE>>[i]} = {}
    BY <2>1, <2>2, Zenon
  <2>4. {i \in 1 .. 2 : ~<<TRUE, FALSE>>[i]} = {2}
    BY <2>1, <2>2, Zenon
  <2>5. {i \in 1 .. 2 : ~<<FALSE, TRUE>>[i]} = {1}
    BY <2>1, <2>2, Zenon
  <2>6. {i \in 1 .. 2 : ~<<FALSE, FALSE>>[i]} = {1} \cup {2}
    BY <2>1, <2>2, Zenon
  <2> QED  BY <2>3, <2>4, <2>5, <2>6
<1>2. /\ Cardinality({}) = 0
      /\ Cardinality({1}) = 1 /\ Cardinality({2}) = 1 /\ IsFiniteSet({1})
  BY FS_EmptySet, FS_Singleton
<1>3. Cardinality({1} \cup {2}) = 2
  <2>1. 2 \notin {1}
    OBVIOUS
  <2>2. Cardinality({1} \cup {2}) = Cardinality({1}) + 1
    BY <1>2, <2>1, FS_AddElement, Zenon
  <2> QED  BY <1>2, <2>2
<1> QED  BY <1>1, <1>2, <1>3

LEMMA CostInteger ==
    ASSUME NEW n \in Nat, IsFiniteSet(Wanted),
           NEW G \in SUBSET Wanted, NEW K \in SUBSET Wanted, NEW V
    PROVE  Cost(n, G, K, V) \in Int
<1>1. Lost(G, K, V) \in SUBSET Wanted /\ G \ K \in SUBSET Wanted
  BY DEF Lost
<1>2. IsFiniteSet(G) /\ IsFiniteSet(Lost(G, K, V)) /\ IsFiniteSet(G \ K)
  BY <1>1, FS_Subset
<1>3. /\ Cardinality(G) \in Nat /\ Cardinality(Lost(G, K, V)) \in Nat
      /\ Cardinality(G \ K) \in Nat
  BY <1>2, FS_CardinalityType
<1> QED  BY <1>3 DEF Cost

\* Whatever fails while a new line is stored, the cost grows by no more than the
\* failures do.
LEMMA StoreKeeps ==
    ASSUME StoreInv, DirInv, NEW remembered \in BOOLEAN, NEW room \in BOOLEAN,
           StoreLine(remembered, room)
    PROVE  DirInv'
<1> DEFINE e == Head(rest)
           k == Key(e)
           n == Len(entries)
           m == n + 1
           c == Cardinality({i \in 1 .. 2 : ~<<remembered, room>>[i]})
<1>1. /\ NextLine /\ e # Malformed /\ k \notin keys /\ UNCHANGED dir
      /\ at = "load" /\ at' = "load"
      /\ failures' = failures + c
      /\ keys' = IF remembered THEN keys \cup {k} ELSE keys
      /\ entries' = IF room THEN Append(entries, e) ELSE entries
  BY DEF StoreLine, NextLine
<1>2. /\ e \in Unseen /\ e \in Lines
      /\ Unseen' \subseteq Unseen /\ Ahead' \subseteq Ahead /\ Ahead \ {k} \subseteq Ahead'
  BY <1>1, ReadsOne
<1>3. /\ Stored' = Stored /\ Wanted' = Wanted
      /\ Cost(Len(entries), Got, keys, Ahead)' = Cost(Len(entries'), Got', keys', Ahead')
  BY <1>1, SameDirectory
<1>4. /\ n \in Nat /\ entries \in Seq(Lines)
      /\ IsFiniteSet(Wanted) /\ Got \in SUBSET Wanted /\ keys \in SUBSET Wanted
      /\ failures \in Nat /\ Cost(n, Got, keys, Ahead) <= failures
  BY <1>1, Loading
<1>5. e \in Stored
  BY <1>1, <1>2 DEF DirInv
<1>6. k \in Wanted
  BY <1>5 DEF Wanted
<1>7. m \in Nat /\ m = n + 1
  BY <1>4
<1>8. ASSUME room
      PROVE  Len(entries') = m /\ ToSet(entries') = ToSet(entries) \cup {e} /\ Got' = Got \cup {k}
  <2>1. entries' = Append(entries, e)
    BY <1>1, <1>8
  <2>2. /\ Len(entries') = m
        /\ entries' \in Seq(Lines)
        /\ \A i \in 1 .. m : entries'[i] = IF i <= n THEN entries[i] ELSE e
    BY <1>2, <1>4, <2>1, AppendProperties
  <2>3. DOMAIN entries = 1 .. n /\ DOMAIN entries' = 1 .. m
    BY <1>4, <2>2, LenProperties
  <2> HIDE DEF e
  <2>4. ToSet(entries') = ToSet(entries) \cup {e}
    <3>1. m \in 1 .. m /\ ~(m <= n) /\ \A i \in 1 .. m : i \in 1 .. n \/ i = m
      BY <1>4
    <3>2. \A i \in 1 .. n : i \in 1 .. m /\ i <= n
      BY <1>4
    <3> HIDE DEF n, m
    <3> QED  BY <2>2, <2>3, <3>1, <3>2 DEF ToSet
  <2>5. Got' = Got \cup {k}
    BY <2>4 DEF Got
  <2> QED  BY <2>2, <2>4, <2>5
<1>9. ASSUME ~room
      PROVE  Len(entries') = n /\ ToSet(entries') = ToSet(entries) /\ Got' = Got
  BY <1>1, <1>9 DEF Got
<1> HIDE DEF e, k, n, m, c
<1>10. /\ Cost(n, Got, keys, Ahead) \in Int
       /\ Cost(m, Got \cup {k}, keys \cup {k}, Ahead') <= Cost(n, Got, keys, Ahead)
       /\ Cost(m, Got \cup {k}, keys, Ahead') <= Cost(n, Got, keys, Ahead) + 1
       /\ Cost(n, Got, keys \cup {k}, Ahead') <= Cost(n, Got, keys, Ahead) + 1
       /\ Cost(n, Got, keys, Ahead') <= Cost(n, Got, keys, Ahead) + 1
  BY <1>1, <1>2, <1>4, <1>6, <1>7, CostSteps
<1>11. Got \cup {k} \in SUBSET Wanted /\ keys \cup {k} \in SUBSET Wanted
  BY <1>4, <1>6
<1>12. /\ Cost(m, Got \cup {k}, keys \cup {k}, Ahead') \in Int
       /\ Cost(m, Got \cup {k}, keys, Ahead') \in Int
       /\ Cost(n, Got, keys \cup {k}, Ahead') \in Int
       /\ Cost(n, Got, keys, Ahead') \in Int
  BY <1>4, <1>7, <1>11, CostInteger
<1>13. Cost(Len(entries'), Got', keys', Ahead') <= failures'
  <2>1. CASE remembered /\ room
    <3>1. c = 0
      BY <2>1, FailureCount DEF c
    <3>2. /\ Cost(Len(entries'), Got', keys', Ahead') = Cost(m, Got \cup {k}, keys \cup {k}, Ahead')
          /\ failures' = failures + 0
      BY <1>1, <1>8, <2>1, <3>1
    <3>3. Cost(m, Got \cup {k}, keys \cup {k}, Ahead') <= failures + 0
      BY <1>4, <1>10, <1>12
    <3> QED  BY <3>2, <3>3
  <2>2. CASE ~remembered /\ room
    <3>1. c = 1
      BY <2>2, FailureCount DEF c
    <3>2. /\ Cost(Len(entries'), Got', keys', Ahead') = Cost(m, Got \cup {k}, keys, Ahead')
          /\ failures' = failures + 1
      BY <1>1, <1>8, <2>2, <3>1
    <3>3. Cost(m, Got \cup {k}, keys, Ahead') <= failures + 1
      BY <1>4, <1>10, <1>12
    <3> QED  BY <3>2, <3>3
  <2>3. CASE remembered /\ ~room
    <3>1. c = 1
      BY <2>3, FailureCount DEF c
    <3> QED  BY <1>1, <1>4, <1>9, <1>10, <1>12, <2>3, <3>1
  <2>4. CASE ~remembered /\ ~room
    <3>1. c = 2
      BY <2>4, FailureCount DEF c
    <3> QED  BY <1>1, <1>4, <1>9, <1>10, <1>12, <2>4, <3>1
  <2> QED  BY <2>1, <2>2, <2>3, <2>4
<1>14. ToSet(entries') \subseteq Stored
  <2>1. ToSet(entries) \subseteq Stored
    BY <1>1 DEF DirInv
  <2> QED  BY <1>5, <1>8, <1>9, <2>1
<1>15. keys' \subseteq Wanted
  BY <1>1, <1>4, <1>11
<1>16. Unseen' \subseteq Stored \cup {Malformed}
  BY <1>1, <1>2 DEF DirInv
<1> QED  BY <1>1, <1>3, <1>13, <1>14, <1>15, <1>16 DEF DirInv

LEMMA DirectoryInit == Init => DirInv
<1> SUFFICES ASSUME Init  PROVE DirInv
  OBVIOUS
<1>1. /\ dir \in [Files -> Contents] /\ at = "start" /\ unread = Files /\ rest = <<>>
      /\ entries = <<>> /\ keys = {} /\ failures = 0
  BY DEF Init
<1>2. Unseen \subseteq Stored \cup {Malformed}
  BY <1>1, NoElements DEF Unseen, Stored
<1>3. Wanted \subseteq Ahead
  BY <1>1 DEF Wanted, Ahead, Unseen, Stored
<1>4. Got = {} /\ Len(entries) = 0
  BY <1>1, NoElements, EmptySeq DEF Got
<1>5. Lost(Got, keys, Ahead) = {} /\ Got \ keys = {}
  BY <1>1, <1>3, <1>4 DEF Lost
<1>6. Cardinality({}) = 0
  BY FS_EmptySet
<1>7. Cost(Len(entries), Got, keys, Ahead) <= failures
  BY <1>1, <1>4, <1>5, <1>6 DEF Cost
<1> QED  BY <1>1, <1>2, <1>7, NoElements DEF DirInv

LEMMA DirectoryNext == StoreInv /\ DirInv /\ [Next]_vars => DirInv'
<1> SUFFICES ASSUME StoreInv, DirInv, [Next]_vars  PROVE DirInv'
  OBVIOUS
<1>1. CASE Begin \/ CloseFile \/ LoadDone \/ NoExport
  BY <1>1, MoveKeeps
<1>2. ASSUME NEW f \in Files, OpenFile(f)  PROVE DirInv'
  BY <1>2, OpenKeeps
<1>3. CASE SkipMalformed
  BY <1>3, SkipKeeps
<1>4. CASE DropRepeated
  BY <1>4, DropKeeps
<1>5. ASSUME NEW remembered \in BOOLEAN, NEW room \in BOOLEAN, StoreLine(remembered, room)
      PROVE  DirInv'
  BY <1>5, StoreKeeps
<1>6. CASE \/ BuildIndex \/ \E args \in CommandLines : Sort(args)
           \/ StatsOnly \/ QueryIndex \/ QueryFilter \/ Export
  <2>1. at' \in {"sort", "query", "export", "exported", "done"}
    BY <1>6 DEF BuildIndex, Sort, StatsOnly, QueryIndex, QueryFilter, Answer, Export
  <2> QED  BY <2>1 DEF DirInv
<1>7. CASE UNCHANGED vars
  <2>1. UNCHANGED <<dir, at, unread, rest, entries, keys, failures>>
    BY <1>7 DEF vars
  <2>2. Unseen' = Unseen /\ Got' = Got
    BY <2>1 DEF Unseen, Got
  <2>3. Ahead' = Ahead
    BY <2>2 DEF Ahead
  <2>4. /\ Stored' = Stored /\ Wanted' = Wanted
        /\ Cost(Len(entries), Got, keys, Ahead)' = Cost(Len(entries'), Got', keys', Ahead')
    BY <2>1, SameDirectory
  <2> QED  BY <2>1, <2>2, <2>3, <2>4 DEF DirInv
<1> QED  BY <1>1, <1>2, <1>3, <1>4, <1>5, <1>6, <1>7 DEF Next

\* Once loaded, the array has the entries the files give.
AllRead ==
    at \in {"index", "sort", "query", "export", "exported"} =>
        /\ Got \subseteq Wanted
        /\ Cardinality(Wanted \ Got) + (Len(entries) - Cardinality(Got)) <= failures

\* What a file gives: its lines if it is whole, and at most Zero if it is not.
LEMMA EntriesOfFile ==
    ASSUME dir \in [Files -> Contents]
    PROVE  /\ Logs \subseteq Stored
           /\ \A e \in Stored \ Logs :
                  e = Zero /\ \E f \in Cuts : "{" \in ToSet(dir[f].text)
<1>1. ASSUME NEW e \in Logs  PROVE e \in Stored
  <2>1. PICK f \in Files : dir[f].form # "cut" /\ e \in ToSet(dir[f].lines) /\ e # Malformed
    BY DEF Logs
  <2>2. dir[f].form \in {"plain", "lz4"}
    BY <2>1, StoreAssumption
  <2> QED  BY <2>1, <2>2 DEF Stored, FileLines
<1>2. ASSUME NEW e \in Stored, e \notin Logs
      PROVE  e = Zero /\ \E f \in Cuts : "{" \in ToSet(dir[f].text)
  <2>1. PICK f \in Files : e \in ToSet(FileLines(dir[f])) /\ e # Malformed
    BY <1>2 DEF Stored
  <2>2. CASE dir[f].form \in {"plain", "lz4"}
    <3>1. e \in ToSet(dir[f].lines) /\ dir[f].form # "cut"
      BY <2>1, <2>2 DEF FileLines
    <3> QED  BY <1>2, <2>1, <3>1 DEF Logs
  <2>3. CASE dir[f].form \notin {"plain", "lz4"}
    <3>1. f \in Cuts
      BY <2>3, StoreAssumption DEF Cuts
    <3>2. FileLines(dir[f]) =
              [i \in DOMAIN dir[f].text |-> IF dir[f].text[i] = "{" THEN Zero ELSE Malformed]
      BY <2>3 DEF FileLines
    <3>3. PICK i \in DOMAIN dir[f].text : e = IF dir[f].text[i] = "{" THEN Zero ELSE Malformed
      BY <2>1, <3>2 DEF ToSet
    <3>4. dir[f].text[i] = "{" /\ e = Zero
      BY <2>1, <3>3
    <3> QED  BY <3>1, <3>3, <3>4 DEF ToSet
  <2> QED  BY <2>2, <2>3
<1> QED  BY <1>1, <1>2

\* StoreIsDirectory in the words of this section.
LEMMA DirectoryMeaning ==
    ASSUME StoreInv, AllRead
    PROVE  StoreIsDirectory
<1> DEFINE Kept == {Key(e) : e \in Logs}
           zero == Key(Zero)
<1> SUFFICES ASSUME at \in {"index", "sort", "query", "export", "exported"}
             PROVE  /\ Got \subseteq Kept \cup {zero}
                    /\ zero \in Got \ Kept => \E f \in Cuts : "{" \in ToSet(dir[f].text)
                    /\ Cardinality(Kept \ Got) + (Len(entries) - Cardinality(Got)) <= failures
  BY DEF StoreIsDirectory, Got, Key
<1>1. /\ dir \in [Files -> Contents] /\ Len(entries) \in Nat
      /\ failures \in 0 .. MaxFailures /\ MaxFailures \in Nat
  BY StoreElements, StoreAssumption DEF StoreInv, TypeOK
<1>2. /\ Logs \subseteq Stored
      /\ \A e \in Stored \ Logs :
             e = Zero /\ \E f \in Cuts : "{" \in ToSet(dir[f].text)
  BY <1>1, EntriesOfFile
<1>3. /\ Got \subseteq Wanted
      /\ Cardinality(Wanted \ Got) + (Len(entries) - Cardinality(Got)) <= failures
  BY DEF AllRead
<1>4. Got \subseteq Kept \cup {zero}
  <2>1. ASSUME NEW e \in Stored  PROVE Key(e) \in Kept \cup {zero}
    <3>1. CASE e \in Logs
      BY <3>1
    <3>2. CASE e \notin Logs
      BY <1>2, <3>2
    <3> QED  BY <3>1, <3>2
  <2> HIDE DEF Kept, zero
  <2> QED  BY <1>3, <2>1 DEF Wanted
<1>5. ASSUME zero \in Got \ Kept  PROVE \E f \in Cuts : "{" \in ToSet(dir[f].text)
  <2>1. PICK e \in Stored : Key(e) = zero
    BY <1>3, <1>5 DEF Wanted
  <2>2. e \notin Logs
    BY <1>5, <2>1
  <2> QED  BY <1>2, <2>1, <2>2
<1>6. Kept \ Got \in SUBSET (Wanted \ Got)
  BY <1>2 DEF Wanted
<1> HIDE DEF Kept, zero
<1>7. /\ Cardinality(Kept \ Got) \in Nat /\ Cardinality(Wanted \ Got) \in Nat
      /\ Cardinality(Kept \ Got) <= Cardinality(Wanted \ Got)
      /\ Cardinality(Got) \in Nat
  <2>1. IsFiniteSet(Wanted) /\ Wanted \ Got \in SUBSET Wanted
    BY <1>1, WantedFinite
  <2>2. IsFiniteSet(Wanted \ Got) /\ IsFiniteSet(Got)
    BY <1>3, <2>1, FS_Subset
  <2>3. IsFiniteSet(Kept \ Got) /\ Cardinality(Kept \ Got) <= Cardinality(Wanted \ Got)
    BY <1>6, <2>2, FS_Subset
  <2> QED  BY <2>2, <2>3, FS_CardinalityType
<1>8. Cardinality(Kept \ Got) + (Len(entries) - Cardinality(Got)) <= failures
  BY <1>1, <1>3, <1>7
<1> QED  BY <1>4, <1>5, <1>8

\* With nothing ahead any more, what is lost is what is not stored.
LEMMA LoadedDirectory == StoreInv /\ DirInv /\ LoadDone => AllRead'
<1> SUFFICES ASSUME StoreInv, DirInv, LoadDone  PROVE AllRead'
  OBVIOUS
<1>1. at = "dir" /\ unread = {} /\ rest = <<>> /\ UNCHANGED <<dir, entries, failures>>
  BY DEF LoadDone, loadVars, DirInv
<1>2. Ahead = {}
  <2>1. Unseen = {}
    BY <1>1, NoElements DEF Unseen
  <2> QED  BY <2>1 DEF Ahead
<1>3. /\ Len(entries) \in Nat /\ IsFiniteSet(Wanted)
      /\ Got \in SUBSET Wanted /\ keys \in SUBSET Wanted /\ failures \in Nat
      /\ Cost(Len(entries), Got, keys, Ahead) <= failures
  BY <1>1, Loading
<1>4. Lost(Got, keys, Ahead) = Wanted \ Got
  BY <1>2 DEF Lost
<1>5. /\ Cardinality(Got) \in Nat /\ Cardinality(Wanted \ Got) \in Nat
      /\ Cardinality(Got \ keys) \in Nat
  <2>1. Wanted \ Got \in SUBSET Wanted /\ Got \ keys \in SUBSET Wanted
    BY <1>3
  <2>2. IsFiniteSet(Got) /\ IsFiniteSet(Wanted \ Got) /\ IsFiniteSet(Got \ keys)
    BY <1>3, <2>1, FS_Subset
  <2> QED  BY <2>2, FS_CardinalityType
<1>6. Cardinality(Wanted \ Got) + (Len(entries) - Cardinality(Got)) <= failures
  BY <1>3, <1>4, <1>5 DEF Cost
<1>7. Wanted' = Wanted /\ Got' = Got
  BY <1>1, SameDirectory DEF Got
<1> QED  BY <1>1, <1>3, <1>6, <1>7 DEF AllRead

LEMMA KeepsDirectory == StoreInv /\ DirInv /\ AllRead /\ [Next]_vars => AllRead'
<1> SUFFICES ASSUME StoreInv, DirInv, AllRead, [Next]_vars,
                    at' \in {"index", "sort", "query", "export", "exported"}
             PROVE  AllRead'
  BY DEF AllRead
<1>1. CASE LoadDone
  BY <1>1, LoadedDirectory
<1>2. CASE ~LoadDone
  <2>1. /\ at \in {"index", "sort", "query", "export", "exported"}
        /\ UNCHANGED <<dir, failures>>
        /\ \/ UNCHANGED entries
           \/ \E args \in CommandLines : Sort(args)
    BY <1>2 DEF Next, Begin, OpenFile, SkipMalformed, DropRepeated, StoreLine, NextLine, CloseFile,
           LoadDone, BuildIndex, Sort, StatsOnly, QueryIndex, QueryFilter, Answer, Export,
           NoExport, loadVars, vars
  <2>2. Len(entries') = Len(entries) /\ ToSet(entries') = ToSet(entries)
    BY <2>1, StoreElements, SortArranges, ArrangedElements
  <2>3. Got' = Got /\ Wanted' = Wanted
    BY <2>1, <2>2, SameDirectory DEF Got
  <2>4. /\ Got \subseteq Wanted
        /\ Cardinality(Wanted \ Got) + (Len(entries) - Cardinality(Got)) <= failures
    BY <2>1 DEF AllRead
  <2> QED  BY <2>1, <2>2, <2>3, <2>4 DEF AllRead
<1> QED  BY <1>1, <1>2

\* The loaded store is the directory, for any files, read in any order: no log twice,
\* none missing, but for one a failed allocation, and none of another place, but for
\* the entry without members that the bytes of a cut container can make.
THEOREM DirectoryIsLoaded == Spec => []StoreIsDirectory
<1>1. Init => AllRead
  BY DEF Init, AllRead
<1> QED
  BY <1>1, StoreInit, StoreNext, DirectoryInit, DirectoryNext, KeepsDirectory, DirectoryMeaning,
     PTL DEF Spec

-----------------------------------------------------------------------------
(***************************************************************************)
(* What is answered.                                                       *)
(***************************************************************************)

\* Where no allocation failed every entry has a key of its own.
LEMMA NoEntryTwice ==
    ASSUME StoreInv, AllRead, failures = 0,
           at \in {"index", "sort", "query", "export", "exported"},
           NEW i \in DOMAIN entries, NEW j \in DOMAIN entries, i # j
    PROVE  entries[i] # entries[j]
<1> DEFINE n == Len(entries)
           g == [k \in 1 .. n |-> Key(entries[k])]
<1>1. n \in Nat /\ DOMAIN entries = 1 .. n /\ dir \in [Files -> Contents]
  BY StoreElements DEF StoreInv, TypeOK
<1>2. IsFiniteSet(1 .. n) /\ Cardinality(1 .. n) = n
  <2>1. 1 \in Int /\ n \in Int
    BY <1>1
  <2>2. IsFiniteSet(1 .. n) /\ Cardinality(1 .. n) = IF 1 > n THEN 0 ELSE n - 1 + 1
    BY <2>1, FS_Interval, Zenon
  <2> QED  BY <1>1, <2>2
<1>3. g \in Surjection(1 .. n, Got)
  BY <1>1 DEF Surjection, Got, ToSet
<1>4. /\ Got \subseteq Wanted
      /\ Cardinality(Wanted \ Got) + (n - Cardinality(Got)) <= 0
  BY DEF AllRead
<1> HIDE DEF g
<1>5. IsFiniteSet(Got) /\ Cardinality(Got) <= n
  BY <1>2, <1>3, FS_Surjection
<1>6. IsFiniteSet(Wanted \ Got)
  <2>1. IsFiniteSet(Wanted) /\ Wanted \ Got \in SUBSET Wanted
    BY <1>1, WantedFinite
  <2> QED  BY <2>1, FS_Subset
<1>7. Cardinality(Got) \in Nat /\ Cardinality(Wanted \ Got) \in Nat
  BY <1>5, <1>6, FS_CardinalityType
<1>8. Cardinality(Got) = n
  BY <1>1, <1>4, <1>5, <1>7
<1>9. g \in Injection(1 .. n, Got)
  BY <1>2, <1>3, <1>5, <1>8, FS_SurjSameCardinalityImpliesInj
<1>10. g[i] # g[j]
  BY <1>1, <1>9 DEF Injection, IsInjective
<1> QED  BY <1>1, <1>10 DEF g

\* What is printed comes in the order of the array.
LEMMA KeepsAnswer ==
    StoreInv /\ SortIsCausal /\ AllRead /\ AnswerIsCausal /\ [Next]_vars => AnswerIsCausal'
<1> SUFFICES ASSUME StoreInv, SortIsCausal, AllRead, AnswerIsCausal, [Next]_vars,
                    at' = "export", opts'.sort = "causal", Honest',
                    NEW i \in DOMAIN results', NEW j \in DOMAIN results', i < j
             PROVE  /\ ~HappensBefore(results'[j].vc, results'[i].vc)
                    /\ failures' = 0 => results'[i] # results'[j]
  BY DEF AnswerIsCausal
<1>1. CASE QueryIndex \/ QueryFilter
  <2>1. PICK f : Found(f) /\ Answer(f)
    BY <1>1, QueryFound
  <2>2. /\ at = "query" /\ UNCHANGED <<entries, opts, failures>>
    BY <2>1 DEF Answer, loadVars
  <2>3. /\ f[i] \in DOMAIN entries /\ f[j] \in DOMAIN entries /\ f[i] < f[j]
        /\ results'[i] = entries[f[i]] /\ results'[j] = entries[f[j]]
    BY <2>1, AnswerElements
  <2>4. Honest
    BY <2>2 DEF Honest
  <2>5. ~HappensBefore(entries[f[j]].vc, entries[f[i]].vc)
    BY <2>2, <2>3, <2>4 DEF SortIsCausal, Before
  <2>6. f[i] # f[j]
    <3>1. f[i] \in Nat /\ f[j] \in Nat
      BY <2>3, StoreElements
    <3> QED  BY <2>3, <3>1
  <2>7. failures = 0 => entries[f[i]] # entries[f[j]]
    BY <2>2, <2>3, <2>6, NoEntryTwice
  <2> QED  BY <2>2, <2>3, <2>5, <2>7
<1>2. CASE UNCHANGED vars
  BY <1>2 DEF vars, AnswerIsCausal, Honest
<1>3. CASE ~(QueryIndex \/ QueryFilter) /\ ~UNCHANGED vars
  BY <1>3 DEF Next, Begin, OpenFile, SkipMalformed, DropRepeated, StoreLine, NextLine, CloseFile,
           LoadDone, BuildIndex, Sort, StatsOnly, Export, NoExport
<1> QED  BY <1>1, <1>2, <1>3

\* After --sort causal on honest timestamps what is printed has no effect before its
\* cause, and no entry twice unless an allocation failed; by index or by filter.
THEOREM CausalAnswer == Spec => []AnswerIsCausal
<1>1. Init => AnswerIsCausal
  BY DEF Init, AnswerIsCausal
<1>2. Init => AllRead
  BY DEF Init, AllRead
<1>3. StoreInv /\ InOrder => SortIsCausal
  <2> SUFFICES ASSUME InOrder, at \in {"query", "export", "exported"}, opts.sort = "causal",
                      Honest, NEW i \in DOMAIN entries, NEW j \in DOMAIN entries, i < j,
                      Before(j, i)
               PROVE  FALSE
    BY DEF SortIsCausal
  <2> QED  BY DEF InOrder, Before, HappensBefore, CausallyLess
<1> QED
  BY <1>1, <1>2, <1>3, StoreInit, StoreNext, OrderedInit, OrderedNext, DirectoryInit,
     DirectoryNext, KeepsDirectory, KeepsAnswer, PTL DEF Spec

\* The array as the index was built from it.
IndexBuilt == at = "sort" => index = Postings(entries)

\* As built, the index has for a word the positions of the messages that have it.
LEMMA TermsAreWords ==
    ASSUME NEW e, NEW w
    PROVE  Term(w) \in Terms(e) <=> HasWord(e, w)
BY DEF Terms, HasWord

LEMMA BuiltPlaces ==
    ASSUME StoreInv, at = "sort", IndexBuilt, NEW w
    PROVE  Places(w) = {i \in DOMAIN entries : HasWord(entries[i], w)}
<1> DEFINE t == Term(w)
           S == {i \in DOMAIN entries : t \in Terms(entries[i])}
<1>1. DOMAIN entries = 1 .. Len(entries) /\ Len(entries) \in Nat
  BY StoreElements
<1>2. S \in SUBSET Nat /\ IsFiniteSet(S)
  <2>1. S \in SUBSET (1 .. Len(entries))
    BY <1>1
  <2> HIDE DEF S
  <2>2. IsFiniteSet(S)
    BY <1>1, <2>1, PositionsFinite
  <2> QED  BY <1>1, <2>1, <2>2
<1>3. ASSUME \E i \in DOMAIN entries : t \in Terms(entries[i])
      PROVE  Places(w) = S
  <2>1. t \in UNION {Terms(e) : e \in ToSet(entries)}
    BY <1>3 DEF ToSet
  <2>2. t \in DOMAIN index /\ index[t] = Increasing(S)
    BY <2>1 DEF IndexBuilt, Postings
  <2> HIDE DEF S
  <2>3. ToSet(Increasing(S)) = S
    BY <1>2, IncreasingList
  <2>4. PostingList(w) = Increasing(S)
    BY <2>2 DEF PostingList
  <2> QED  BY <2>3, <2>4 DEF Places
<1>4. ASSUME ~\E i \in DOMAIN entries : t \in Terms(entries[i])
      PROVE  Places(w) = S
  <2>1. t \notin UNION {Terms(e) : e \in ToSet(entries)}
    BY <1>4 DEF ToSet
  <2>2. t \notin DOMAIN index
    BY <2>1 DEF IndexBuilt, Postings
  <2>3. PostingList(w) = <<>>
    BY <2>2 DEF PostingList
  <2>4. S = {}
    BY <1>4
  <2> QED  BY <2>3, <2>4, NoElements DEF Places
<1>5. Places(w) = S
  BY <1>3, <1>4
<1> QED  BY <1>5, TermsAreWords

\* As built, the index answers AND and OR queries of any number of words exactly:
\* what it finds for a word are the messages that have a word of the same letters and
\* digits, as far as a term goes, of the words in the part of the query that q_copy has
\* room for; user-42 is user42.
THEOREM IndexIsExact == Spec => []IndexAnswersQuery
<1>1. Init => IndexBuilt
  BY DEF Init, IndexBuilt
<1>2. IndexBuilt /\ [Next]_vars => IndexBuilt'
  BY DEF Next, Begin, OpenFile, SkipMalformed, DropRepeated, StoreLine, NextLine, CloseFile,
         LoadDone, BuildIndex, Sort, StatsOnly, QueryIndex, QueryFilter, Answer, Export,
         NoExport, vars, IndexBuilt
<1>3. StoreInv /\ IndexBuilt => IndexAnswersQuery
  <2> SUFFICES ASSUME StoreInv, IndexBuilt, at = "sort", NEW query \in Keywords,
                      NEW all \in BOOLEAN
               PROVE  ToSet(Lookup(query, all)) =
                          {i \in DOMAIN entries :
                              IF all THEN /\ Words(query) # <<>>
                                          /\ \A w \in ToSet(Words(query)) : HasWord(entries[i], w)
                              ELSE \E w \in ToSet(Words(query)) : HasWord(entries[i], w)}
    BY DEF IndexAnswersQuery
  <2> DEFINE words == Words(query)
             n == Len(entries)
             S == {i \in 1 .. n : IF all THEN \A w \in ToSet(words) : i \in Places(w)
                                  ELSE \E w \in ToSet(words) : i \in Places(w)}
  <2>1. n \in Nat /\ DOMAIN entries = 1 .. n /\ IndexOK(n)
    BY StoreElements DEF StoreInv
  <2>2. CASE words # <<>>
    <3>1. Lookup(query, all) = Increasing(S)
      <4> HIDE DEF words
      <4> QED  BY <2>1, <2>2, LookupAnswers DEF words
    <3>2. ToSet(Increasing(S)) = S
      <4>1. S \in SUBSET (1 .. n)
        OBVIOUS
      <4> HIDE DEF S
      <4>2. IsFiniteSet(S) /\ S \in SUBSET Nat
        BY <2>1, <4>1, PositionsFinite
      <4> QED  BY <4>2, IncreasingList
    <3>3. \A w, i : i \in Places(w) <=> i \in 1 .. n /\ HasWord(entries[i], w)
      BY <2>1, BuiltPlaces
    <3> HIDE DEF words
    <3>4. S = {i \in 1 .. n : IF all THEN \A w \in ToSet(words) : HasWord(entries[i], w)
                              ELSE \E w \in ToSet(words) : HasWord(entries[i], w)}
      BY <3>3
    <3> QED  BY <2>1, <2>2, <3>1, <3>2, <3>4 DEF words
  <2>3. CASE words = <<>>
    <3>1. ToSet(words) = {} /\ Lookup(query, all) = <<>>
      BY <2>3, NoElements DEF Lookup
    <3> QED  BY <2>3, <3>1, NoElements
  <2> QED  BY <2>2, <2>3
<1> QED  BY <1>1, <1>2, <1>3, StoreInit, StoreNext, PTL DEF Spec

-----------------------------------------------------------------------------
(***************************************************************************)
(* The graph of causes.  D is the set of events, E and B are sets of pairs  *)
(* of it.                                                                  *)
(***************************************************************************)

\* The pairs that P connects or one more edge of E does, and the levels of what can
\* be reached: at level k, by at most k edges after the first.
Longer(P, E, D) ==
    P \cup {p \in D \X D : \E l \in D : <<p[1], l>> \in P /\ <<l, p[2]>> \in E}

IsReach(R, E, D, n) ==
    R = [k \in 0 .. n |-> IF k = 0 THEN E ELSE Longer(R[k - 1], E, D)]

LEMMA ReachExists ==
    ASSUME NEW E, NEW D, NEW n \in Nat
    PROVE  \E R : IsReach(R, E, D, n)
<1> DEFINE Bad == {m \in Nat : ~\E R : IsReach(R, E, D, m)}
<1>1. SUFFICES ASSUME Bad # {}  PROVE FALSE
  OBVIOUS
<1>2. PICK m \in Bad : \A j \in Bad : m <= j
  BY <1>1, FirstExists
<1>3. CASE m = 0
  <2> DEFINE R == [k \in 0 .. 0 |-> E]
  <2>1. R = [k \in 0 .. m |-> IF k = 0 THEN E ELSE Longer(R[k - 1], E, D)]
    BY <1>3
  <2> QED  BY <1>2, <2>1 DEF IsReach
<1>4. CASE m # 0
  <2> DEFINE j == m - 1
  <2>1. j \in Nat /\ ~(m <= j) /\ m \in Nat
    BY <1>2, <1>4
  <2>2. PICK R : IsReach(R, E, D, j)
    BY <1>2, <2>1
  <2> DEFINE S == [k \in 0 .. m |-> IF k = m THEN Longer(R[j], E, D) ELSE R[k]]
  <2>3. \A k \in 0 .. j : R[k] = IF k = 0 THEN E ELSE Longer(R[k - 1], E, D)
    BY <2>2 DEF IsReach
  <2>4. ASSUME NEW k \in 0 .. m
        PROVE  S[k] = IF k = 0 THEN E ELSE Longer(S[k - 1], E, D)
    <3>1. CASE k = m
      <4>1. S[k] = Longer(R[j], E, D) /\ k # 0
        BY <1>4, <3>1
      <4>2. S[k - 1] = R[j]
        BY <2>1, <3>1
      <4> QED  BY <4>1, <4>2
    <3>2. CASE k # m
      <4>1. k \in 0 .. j /\ S[k] = R[k]
        BY <2>1, <3>2
      <4>2. k # 0 => S[k - 1] = R[k - 1]
        BY <2>1, <3>2
      <4> QED  BY <2>3, <4>1, <4>2
    <3> QED  BY <3>1, <3>2
  <2>5. S = [k \in 0 .. m |-> IF k = 0 THEN E ELSE Longer(S[k - 1], E, D)]
    BY <2>4
  <2> HIDE DEF S
  <2>6. IsReach(S, E, D, m)
    BY <2>5 DEF IsReach
  <2> QED  BY <1>2, <2>6
<1> QED  BY <1>3, <1>4

\* Every level holds the ones before it.
LEMMA ReachGrows ==
    ASSUME NEW E, NEW D, NEW n \in Nat, NEW R, IsReach(R, E, D, n),
           NEW k \in 0 .. n, NEW i \in 0 .. k
    PROVE  R[i] \subseteq R[k]
<1> DEFINE Bad == {m \in Nat : m \in i .. n /\ ~(R[i] \subseteq R[m])}
<1>1. ASSUME Bad # {}  PROVE FALSE
  <2>1. PICK m \in Bad : \A j \in Bad : m <= j
    BY <1>1, FirstExists
  <2>2. m # i /\ m \in 1 .. n /\ m - 1 \in i .. n /\ m - 1 \in Nat /\ ~(m <= m - 1)
    BY <2>1
  <2>3. R[i] \subseteq R[m - 1]
    BY <2>1, <2>2
  <2>4. R[m] = Longer(R[m - 1], E, D)
    BY <2>2 DEF IsReach
  <2> QED  BY <2>1, <2>3, <2>4 DEF Longer
<1>2. k \in i .. n /\ k \in Nat
  OBVIOUS
<1> QED  BY <1>1, <1>2

\* Edges of a transitive B lead to pairs of B, and a pair that is no edge has an event
\* between.
LEMMA ReachStays ==
    ASSUME NEW D, NEW B, NEW E \in SUBSET B, NEW n \in Nat, NEW R, IsReach(R, E, D, n),
           \A i, j, k \in D : <<i, j>> \in B /\ <<j, k>> \in B => <<i, k>> \in B,
           B \subseteq D \X D, NEW k \in 0 .. n, NEW p \in R[k]
    PROVE  /\ p \in B
           /\ p \in E \/ \E l \in D : <<p[1], l>> \in B /\ <<l, p[2]>> \in B
<1> DEFINE Good(q) == q \in B /\ (q \in E \/ \E l \in D : <<q[1], l>> \in B /\ <<l, q[2]>> \in B)
           Bad == {m \in Nat : m \in 0 .. n /\ \E q \in R[m] : ~Good(q)}
<1>1. ASSUME Bad # {}  PROVE FALSE
  <2>1. PICK m \in Bad : \A j \in Bad : m <= j
    BY <1>1, FirstExists
  <2>2. PICK q \in R[m] : ~Good(q)
    BY <2>1
  <2>3. m # 0
    <3>1. m = 0 => R[m] = E
      BY <2>1 DEF IsReach
    <3> QED  BY <2>2, <3>1
  <2>4. m \in 0 .. n /\ m - 1 \in 0 .. n /\ m - 1 \in Nat /\ ~(m <= m - 1)
    BY <2>1, <2>3
  <2>5. \A r \in R[m - 1] : r \in B
    BY <2>1, <2>4
  <2>6. R[m] = Longer(R[m - 1], E, D)
    BY <2>3, <2>4 DEF IsReach
  <2>7. q \notin R[m - 1]
    BY <2>1, <2>2, <2>4
  <2>8. PICK l \in D : q \in D \X D /\ <<q[1], l>> \in R[m - 1] /\ <<l, q[2]>> \in E
    BY <2>2, <2>6, <2>7 DEF Longer
  <2>9. <<q[1], l>> \in B /\ <<l, q[2]>> \in B
    BY <2>5, <2>8
  <2>10. <<q[1], q[2]>> \in B /\ q = <<q[1], q[2]>>
    BY <2>8, <2>9
  <2> QED  BY <2>2, <2>9, <2>10
<1>2. k \in Nat
  OBVIOUS
<1> QED  BY <1>1, <1>2

\* Where B is a strict order the pairs without an event between reach all of it: with
\* c events between, level c does.
LEMMA ReachAll ==
    ASSUME NEW n \in Nat, NEW B, B \subseteq (1 .. n) \X (1 .. n),
           \A i, j, k \in 1 .. n : <<i, j>> \in B /\ <<j, k>> \in B => <<i, k>> \in B,
           \A i \in 1 .. n : <<i, i>> \notin B,
           NEW E, E = {p \in B : ~\E l \in 1 .. n : <<p[1], l>> \in B /\ <<l, p[2]>> \in B},
           NEW R, IsReach(R, E, 1 .. n, n)
    PROVE  B \subseteq R[n]
<1> DEFINE D == 1 .. n
           Between(i, j) == {l \in D : <<i, l>> \in B /\ <<l, j>> \in B}
           Count(i, j) == Cardinality(Between(i, j))
           Bad == {c \in Nat : \E i, j \in D : /\ <<i, j>> \in B /\ Count(i, j) = c
                                               /\ <<i, j>> \notin R[c]}
<1>1. \A i, j : /\ Between(i, j) \in SUBSET D
                /\ IsFiniteSet(Between(i, j)) /\ Count(i, j) \in Nat
                /\ Count(i, j) <= n
  <2> TAKE i, j
  <2>1. 1 \in Int /\ n \in Int
    OBVIOUS
  <2>2. IsFiniteSet(D) /\ Cardinality(D) = IF 1 > n THEN 0 ELSE n - 1 + 1
    BY <2>1, FS_Interval, Zenon
  <2>3. Between(i, j) \in SUBSET D
    OBVIOUS
  <2> HIDE DEF Between
  <2>4. IsFiniteSet(Between(i, j)) /\ Count(i, j) <= Cardinality(D)
    BY <2>2, <2>3, FS_Subset
  <2>5. Count(i, j) \in Nat
    BY <2>4, FS_CardinalityType
  <2> QED  BY <2>2, <2>3, <2>4, <2>5
\* Fewer events between.
<1>2. ASSUME NEW i \in D, NEW j \in D, NEW k \in D, NEW l \in D, NEW x \in Between(k, l),
             Between(i, j) \subseteq Between(k, l), x \notin Between(i, j)
      PROVE  Count(i, j) < Count(k, l)
  <2> HIDE DEF Between
  <2>1. Between(i, j) \in SUBSET (Between(k, l) \ {x})
    BY <1>2
  <2>2. IsFiniteSet(Between(k, l)) /\ Count(k, l) \in Nat
    BY <1>1
  <2>3. IsFiniteSet(Between(k, l) \ {x}) /\ Cardinality(Between(k, l) \ {x}) = Count(k, l) - 1
    BY <1>2, <2>2, FS_RemoveElement
  <2>4. Count(i, j) <= Cardinality(Between(k, l) \ {x})
    BY <2>1, <2>3, FS_Subset
  <2> QED  BY <1>1, <2>2, <2>3, <2>4
<1>3. ASSUME Bad # {}  PROVE FALSE
  <2>1. PICK c \in Bad : \A d \in Bad : c <= d
    BY <1>3, FirstExists
  <2>2. PICK i \in D, j \in D : <<i, j>> \in B /\ Count(i, j) = c /\ <<i, j>> \notin R[c]
    BY <2>1
  <2>3. c \in 0 .. n
    <3> HIDE DEF Between, Count
    <3> QED  BY <1>1, <2>2
  <2>4. R[0] = E /\ 0 \in 0 .. c
    BY <2>3 DEF IsReach
  <2>5. E \subseteq R[c]
    BY <2>3, <2>4, ReachGrows
  <2>6. <<i, j>> \notin E
    BY <2>2, <2>5
  <2>7. Between(i, j) # {}
    BY <2>2, <2>6
\* Of the events between, one has no other between itself and j.
  <2> DEFINE T == {Count(l, j) : l \in Between(i, j)}
  <2>8. PICK k \in Between(i, j) : \A l \in Between(i, j) : Count(k, j) <= Count(l, j)
    <3>1. T \subseteq Nat /\ T # {}
      <4> HIDE DEF Count, Between
      <4> QED  BY <1>1, <2>7
    <3> HIDE DEF T
    <3>2. PICK t \in T : \A u \in T : t <= u
      BY <3>1, FirstExists
    <3> HIDE DEF Count, Between
    <3> QED  BY <3>2 DEF T
  <2>9. k \in D /\ <<i, k>> \in B /\ <<k, j>> \in B
    BY <2>8
  <2>10. Between(k, j) = {}
    <3> SUFFICES ASSUME NEW l \in Between(k, j)  PROVE FALSE
      OBVIOUS
    <3>1. l \in D /\ <<k, l>> \in B /\ <<l, j>> \in B
      OBVIOUS
    <3>2. l \in Between(i, j)
      BY <2>9, <3>1
    <3>3. Between(l, j) \subseteq Between(k, j) /\ l \notin Between(l, j)
      BY <2>2, <2>9, <3>1
    <3> HIDE DEF Between, Count
    <3>4. Count(l, j) < Count(k, j)
      BY <1>2, <2>2, <2>9, <3>1, <3>3
    <3> QED  BY <1>1, <2>8, <3>2, <3>4
  <2>11. <<k, j>> \in E
    BY <2>9, <2>10
  <2>12. Between(i, k) \subseteq Between(i, j) /\ k \notin Between(i, k)
    BY <2>2, <2>9
  <2> DEFINE d == Count(i, k)
  <2>13. d \in Nat /\ d < c
    <3> HIDE DEF Between, Count
    <3> QED  BY <1>1, <1>2, <2>2, <2>8, <2>9, <2>12
  <2>14. <<i, k>> \in R[d]
    <3>1. ~(c <= d)
      BY <2>3, <2>13
    <3>2. d \notin Bad
      BY <2>1, <3>1
    <3> HIDE DEF Between, Count
    <3> QED  BY <2>2, <2>9, <2>13, <3>2
  <2> HIDE DEF d, Between, Count, T, Bad
  <2>15. c - 1 \in 0 .. n /\ d \in 0 .. c - 1 /\ c # 0
    BY <2>3, <2>13
  <2> DEFINE b == c - 1
  <2>16. b \in 0 .. n /\ d \in 0 .. b
    BY <2>15
  <2> HIDE DEF b
  <2>17. R[d] \subseteq R[b]
    BY <2>16, ReachGrows
  <2>18. R[c] = Longer(R[b], E, D)
    BY <2>3, <2>15 DEF IsReach, b
  <2>19. <<i, j>> \in R[c]
    <3>1. <<i, j>> \in D \X D /\ <<i, j>>[1] = i /\ <<i, j>>[2] = j
      BY <2>2
    <3>2. <<i, k>> \in R[b]
      BY <2>14, <2>17
    <3> QED  BY <2>9, <2>11, <2>18, <3>1, <3>2 DEF Longer
  <2> QED  BY <2>2, <2>19
<1>4. ASSUME NEW p \in B  PROVE p \in R[n]
  <2>1. PICK i \in D, j \in D : p = <<i, j>>
    OBVIOUS
  <2> DEFINE c == Count(i, j)
  <2>2. c \in Nat /\ c <= n
    <3> HIDE DEF Between, Count
    <3> QED  BY <1>1
  <2>3. p \in R[c]
    <3> HIDE DEF Count
    <3> QED  BY <1>3, <1>4, <2>1, <2>2
  <2> HIDE DEF c
  <2>4. c \in 0 .. n /\ n \in 0 .. n
    BY <2>2
  <2>5. R[c] \subseteq R[n]
    BY <2>4, ReachGrows
  <2> QED  BY <2>3, <2>5
<1> QED  BY <1>4

\* Happened-before between the events of the array.
Causes == {p \in Pairs : Before(p[1], p[2])}

LEMMA CausesAreOrdered ==
    ASSUME StoreInv
    PROVE  LET D == 1 .. Len(entries)
           IN  /\ Causes \subseteq D \X D /\ Pairs = D \X D
               /\ \A i, j, k \in D : <<i, j>> \in Causes /\ <<j, k>> \in Causes => <<i, k>> \in Causes
               /\ \A i \in D : <<i, i>> \notin Causes
<1> DEFINE D == 1 .. Len(entries)
<1>1. DOMAIN entries = D /\ \A i \in D : entries[i] \in Lines
  BY StoreElements, ElementOfSeq
<1> HIDE DEF D
<1>2. Pairs = D \X D
  BY <1>1 DEF Pairs
<1>3. \A i, j \in D : <<i, j>> \in Causes <=> HappensBefore(entries[i].vc, entries[j].vc)
  BY <1>2 DEF Causes, Before
<1>4. \A i \in D : \E n \in Nat : entries[i].vc \in Clock(n)
  <2>1. VC_MAX_NODES \in Nat
    BY DEF VC_MAX_NODES
  <2>2. \A e \in Lines : \E n \in 0 .. VC_MAX_NODES : e.vc \in Clock(n)
    BY StoreAssumption
  <2> QED  BY <1>1, <2>1, <2>2
<1>5. ASSUME NEW i \in D, NEW j \in D, NEW k \in D, <<i, j>> \in Causes, <<j, k>> \in Causes
      PROVE  <<i, k>> \in Causes
  <2>1. HappensBefore(entries[i].vc, entries[j].vc) /\ HappensBefore(entries[j].vc, entries[k].vc)
    BY <1>3, <1>5
  <2>2. HappensBefore(entries[i].vc, entries[k].vc)
    BY <1>4, <2>1, HappensBeforeIsStrictOrder
  <2> QED  BY <1>3, <2>2
<1>6. ASSUME NEW i \in D  PROVE <<i, i>> \notin Causes
  BY <1>3, <1>4, HappensBeforeIsStrictOrder
<1> QED  BY <1>2, <1>5, <1>6 DEF D, Causes

\* What the export draws.
Drawn == at = "exported" => edges = {p \in Pairs : Before(p[1], p[2]) /\ Direct(p[1], p[2])}

LEMMA DrawnNext == Drawn /\ [Next]_vars => Drawn'
<1> SUFFICES ASSUME Drawn, [Next]_vars, at' = "exported"  PROVE Drawn'
  BY DEF Drawn
<1>1. CASE Export
  <2>1. /\ edges' = {p \in Pairs : Before(p[1], p[2]) /\ Direct(p[1], p[2])}
        /\ UNCHANGED entries
    BY <1>1 DEF Export
  <2> QED  BY <2>1 DEF Drawn, Pairs, Before, Direct
<1>2. CASE UNCHANGED vars
  BY <1>2 DEF Drawn, Pairs, Before, Direct, vars
<1>3. ~Export /\ ~UNCHANGED vars => at' # "exported"
  BY DEF Next, Begin, OpenFile, SkipMalformed, DropRepeated, StoreLine, NextLine, CloseFile,
         LoadDone, BuildIndex, Sort, StatsOnly, QueryIndex, QueryFilter, Answer, NoExport
<1> QED  BY <1>1, <1>2, <1>3

\* The pairs the edges E connect, as EdgesGenerateOrder has them.
Path(E) ==
    LET reach[n \in 0 .. Len(entries)] ==
            IF n = 0 THEN E
            ELSE reach[n - 1] \cup
                 {p \in Pairs : \E k \in DOMAIN entries :
                     <<p[1], k>> \in reach[n - 1] /\ <<k, p[2]>> \in E}
    IN  reach[Len(entries)]

LEMMA PathReaches ==
    ASSUME StoreInv, NEW E
    PROVE  \E R : /\ IsReach(R, E, 1 .. Len(entries), Len(entries))
                  /\ Path(E) = R[Len(entries)]
<1> DEFINE n == Len(entries)
           D == 1 .. n
           Rule(R) == R = [k \in 0 .. n |->
                              IF k = 0 THEN E
                              ELSE R[k - 1] \cup
                                   {p \in Pairs : \E l \in DOMAIN entries :
                                       <<p[1], l>> \in R[k - 1] /\ <<l, p[2]>> \in E}]
<1>1. n \in Nat /\ DOMAIN entries = D /\ Pairs = D \X D
  BY StoreElements DEF Pairs
<1>2. \A R : Rule(R) <=> IsReach(R, E, D, n)
  <2> HIDE DEF n, D
  <2> QED  BY <1>1 DEF IsReach, Longer
<1>3. \E R : IsReach(R, E, D, n)
  <2> HIDE DEF n
  <2> QED  BY <1>1, ReachExists
<1>4. Path(E) = (CHOOSE R : Rule(R))[n]
  BY DEF Path
<1> HIDE DEF Rule
<1>5. Rule(CHOOSE R : Rule(R))
  BY <1>2, <1>3
<1> QED  BY <1>2, <1>4, <1>5

\* The exported graph is the least that generates happened-before: paths of edges
\* connect all of it and nothing else, and without an edge its two events are not
\* connected; for any number of events and clocks of any lengths.
THEOREM EdgesAreTheReduction == Spec => []EdgesGenerateOrder
<1>1. Init => Drawn
  BY DEF Init, Drawn
<1>2. StoreInv /\ Drawn => EdgesGenerateOrder
  <2> SUFFICES ASSUME StoreInv, Drawn, at = "exported"
               PROVE  /\ Path(edges) = Causes
                      /\ \A e \in edges : e \notin Path(edges \ {e})
    BY DEF EdgesGenerateOrder, Path, Causes
  <2> DEFINE n == Len(entries)
             D == 1 .. n
             Between(p) == \E l \in D : <<p[1], l>> \in Causes /\ <<l, p[2]>> \in Causes
  <2>1. /\ n \in Nat /\ n \in 0 .. n /\ DOMAIN entries = D
        /\ Causes \subseteq D \X D /\ Pairs = D \X D
        /\ \A i, j, k \in D : <<i, j>> \in Causes /\ <<j, k>> \in Causes => <<i, k>> \in Causes
        /\ \A i \in D : <<i, i>> \notin Causes
    BY StoreElements, CausesAreOrdered
  <2>2. edges = {p \in Causes : ~Between(p)}
    <3>1. edges = {p \in Pairs : Before(p[1], p[2]) /\ Direct(p[1], p[2])}
      BY DEF Drawn
    <3>2. \A i, j \in D : <<i, j>> \in Causes <=> Before(i, j)
      BY <2>1 DEF Causes
    <3>3. ASSUME NEW p \in Causes  PROVE Direct(p[1], p[2]) <=> ~Between(p)
      <4>1. p[1] \in D /\ p[2] \in D
        BY <2>1
      <4>2. \A l \in D : <<p[1], l>> \in Causes /\ <<l, p[2]>> \in Causes => l \notin {p[1], p[2]}
        BY <2>1, <4>1
      <4> HIDE DEF D
      <4>3. ASSUME NEW x \in D, NEW y \in D
            PROVE  Direct(x, y) <=>
                       ~\E l \in D \ {x, y} : <<x, l>> \in Causes /\ <<l, y>> \in Causes
        <5>1. \A l \in D : /\ <<x, l>> \in Causes <=> Before(x, l)
                           /\ <<l, y>> \in Causes <=> Before(l, y)
          BY <3>2
        <5>2. Direct(x, y) <=> ~\E l \in D \ {x, y} : Before(x, l) /\ Before(l, y)
          BY <2>1, Zenon DEF Direct
        <5> QED  BY <5>1, <5>2
      <4> QED  BY <4>1, <4>2, <4>3
    <3> HIDE DEF Between
    <3> QED  BY <3>1, <3>3 DEF Causes
  <2>3. edges \subseteq Causes
    BY <2>2
  <2>4. Path(edges) = Causes
    <3>1. PICK R : IsReach(R, edges, D, n) /\ Path(edges) = R[n]
      BY PathReaches
    <3>2. Causes \subseteq R[n]
      BY <2>1, <2>2, <3>1, ReachAll
    <3>3. \A p \in R[n] : p \in Causes
      BY <2>1, <2>3, <3>1, ReachStays
    <3> QED  BY <3>1, <3>2, <3>3
  <2>5. ASSUME NEW e \in edges  PROVE e \notin Path(edges \ {e})
    <3>1. PICK R : IsReach(R, edges \ {e}, D, n) /\ Path(edges \ {e}) = R[n]
      BY PathReaches
    <3>2. ASSUME e \in R[n]  PROVE e \in edges \ {e} \/ Between(e)
      <4> DEFINE F == edges \ {e}
      <4>1. F \in SUBSET Causes /\ IsReach(R, F, D, n)
        BY <2>3, <3>1
      <4> HIDE DEF D, n, F
      <4> QED  BY <2>1, <3>2, <4>1, ReachStays DEF F
    <3> HIDE DEF Between
    <3> QED  BY <2>2, <3>1, <3>2
  <2> QED  BY <2>4, <2>5
<1> QED  BY <1>1, <1>2, StoreInit, StoreNext, DrawnNext, PTL DEF Spec

-----------------------------------------------------------------------------
(***************************************************************************)
(* The counts of --stats.                                                  *)
(***************************************************************************)

\* What --stats prints, added up.
SumOf(g) == FoldFunction(+, 0, g)

\* The sum of the counts of some values is how many positions have one of them.
LEMMA SumOfCounts ==
    ASSUME NEW n \in Nat, NEW node \in [1 .. n -> Int], NEW g, IsFiniteSet(DOMAIN g),
           \A x \in DOMAIN g : g[x] = Cardinality({i \in 1 .. n : node[i] = x})
    PROVE  SumOf(g) = Cardinality({i \in 1 .. n : node[i] \in DOMAIN g})
<1> DEFINE T == DOMAIN g
           pick(s) == CHOOSE x \in s : TRUE
           Having(s) == {i \in 1 .. n : node[i] \in s}
           Rule(f) == f = [s \in SUBSET T |-> IF s = {} THEN 0
                                              ELSE g[pick(s)] + f[s \ {pick(s)}]]
           F == [s \in SUBSET T |-> Cardinality(Having(s))]
<1>1. SumOf(g) = (CHOOSE f : Rule(f))[T]
  BY DEF SumOf, FoldFunction, FoldFunctionOnSet, MapThenFoldSet
<1>2. \A s : IsFiniteSet(Having(s)) /\ Cardinality(Having(s)) \in Nat
  <2> TAKE s
  <2>1. Having(s) \in SUBSET (1 .. n)
    OBVIOUS
  <2> HIDE DEF Having
  <2> QED  BY <2>1, PositionsFinite
\* One more value: its positions are none of the others'.
<1>3. ASSUME NEW s \in SUBSET T, s # {}
      PROVE  /\ pick(s) \in s /\ s \ {pick(s)} \in SUBSET T
             /\ g[pick(s)] + Cardinality(Having(s \ {pick(s)})) = Cardinality(Having(s))
  <2> DEFINE x == pick(s)
             q == s \ {x}
  <2>1. x \in s /\ s = q \cup {x} /\ q \in SUBSET T /\ x \in T /\ x \notin q
    BY <1>3
  <2> HIDE DEF x, q
  <2>2. g[x] = Cardinality(Having({x}))
    <3>1. Having({x}) = {i \in 1 .. n : node[i] = x}
      OBVIOUS
    <3> HIDE DEF Having
    <3> QED  BY <2>1, <3>1
  <2>3. Having(s) = Having({x}) \cup Having(q) /\ Having({x}) \cap Having(q) = {}
    BY <2>1
  <2> HIDE DEF Having, T
  <2>4. Cardinality(Having({x}) \cup Having(q)) = Cardinality(Having({x})) + Cardinality(Having(q))
    <3>1. Cardinality({}) = 0
      BY FS_EmptySet
    <3> DEFINE A == Having({x})
               B == Having(q)
    <3>2. IsFiniteSet(A) /\ IsFiniteSet(B) /\ A \cap B = {}
      BY <1>2, <2>3
    <3>3. Cardinality(A) \in Nat /\ Cardinality(B) \in Nat
      BY <1>2
    <3> HIDE DEF A, B
    <3>4. Cardinality(A \cup B) = Cardinality(A) + Cardinality(B) - Cardinality(A \cap B)
      BY <3>2, FS_Union
    <3>5. Cardinality(A \cap B) = 0
      BY <3>1, <3>2
    <3>6. Cardinality(A \cup B) = Cardinality(A) + Cardinality(B)
      <4> DEFINE x1 == Cardinality(A)
                 x2 == Cardinality(B)
                 x3 == Cardinality(A \cap B)
                 x4 == Cardinality(A \cup B)
      <4>1. x1 \in Nat /\ x2 \in Nat /\ x3 = 0 /\ x4 = x1 + x2 - x3
        BY <3>3, <3>4, <3>5
      <4> HIDE DEF x1, x2, x3, x4
      <4>2. x4 = x1 + x2
        BY <4>1
      <4> QED  BY <4>2 DEF x1, x2, x4
    <3> QED  BY <3>6 DEF A, B
  <2> QED  BY <2>1, <2>2, <2>3, <2>4 DEF x, q
<1> HIDE DEF pick
<1>4. Cardinality(Having({})) = 0
  <2>1. Having({}) = {}
    OBVIOUS
  <2> QED  BY <2>1, FS_EmptySet
<1> HIDE DEF Having
<1>5. Rule(F)
  <2>1. \A s \in SUBSET T : F[s] = Cardinality(Having(s))
    OBVIOUS
  <2>2. ASSUME NEW s \in SUBSET T
        PROVE  Cardinality(Having(s)) = IF s = {} THEN 0 ELSE g[pick(s)] + F[s \ {pick(s)}]
    BY <1>3, <1>4, <2>1
  <2> QED  BY <2>2
<1>6. ASSUME NEW f, Rule(f)
      PROVE  f[T] = Cardinality(Having(T))
  <2> DEFINE Bad == {k \in Nat : \E s \in SUBSET T :
                                     Cardinality(s) = k /\ f[s] # Cardinality(Having(s))}
  <2>1. ASSUME Bad # {}  PROVE FALSE
    <3>1. PICK k \in Bad : \A j \in Bad : k <= j
      BY <2>1, FirstExists
    <3>2. PICK s \in SUBSET T : Cardinality(s) = k /\ f[s] # Cardinality(Having(s))
      BY <3>1
    <3>3. f[s] = IF s = {} THEN 0 ELSE g[pick(s)] + f[s \ {pick(s)}]
      BY <1>6
    <3>4. s # {}
      BY <1>4, <3>2, <3>3
    <3> DEFINE q == s \ {pick(s)}
               j == Cardinality(q)
    <3>5. q \in SUBSET T /\ pick(s) \in s
      BY <1>3, <3>4
    <3>6. IsFiniteSet(s) /\ IsFiniteSet(q)
      BY <3>5, FS_Subset
    <3>7. j = k - 1 /\ j \in Nat /\ k \in Nat
      BY <3>1, <3>2, <3>5, <3>6, FS_RemoveElement, FS_CardinalityType
    <3> HIDE DEF q
    <3>8. ~(k <= j)
      BY <3>7
    <3>9. j \notin Bad
      BY <3>1, <3>8
    <3>10. f[q] = Cardinality(Having(q))
      BY <3>5, <3>7, <3>9
    <3>11. f[s] = Cardinality(Having(s))
      BY <1>3, <3>3, <3>4, <3>10 DEF q
    <3> QED  BY <3>2, <3>11
  <2>2. T \in SUBSET T /\ Cardinality(T) \in Nat
    BY FS_CardinalityType
  <2> QED  BY <2>1, <2>2
<1> HIDE DEF Rule, F
<1>7. Rule(CHOOSE f : Rule(f))
  BY <1>5
<1>8. SumOf(g) = Cardinality(Having(T))
  BY <1>1, <1>6, <1>7
<1> QED  BY <1>8 DEF Having

\* What the tool counted, and that it does so only where it ends.
Counted ==
    /\ at \in {"start", "dir", "load", "index", "sort"} => ~opts.stats
    /\ at \in {"export", "exported"} => ~opts.stats
    /\ at = "done" /\ opts.stats => stats = Counts(entries)

LEMMA CountedInit == Init => Counted
BY DEF Init, Counted, Defaults

LEMMA CountedNext == Counted /\ [Next]_vars => Counted'
<1> SUFFICES ASSUME Counted, [Next]_vars  PROVE Counted'
  OBVIOUS
<1>1. CASE StatsOnly
  BY <1>1 DEF StatsOnly, Counted
<1>2. CASE Begin \/ CloseFile \/ LoadDone \/ BuildIndex \/ NoExport \/ Export
  BY <1>2 DEF Begin, CloseFile, LoadDone, BuildIndex, NoExport, Export, outVars, Counted
<1>3. CASE \/ \E f \in Files : OpenFile(f)
           \/ SkipMalformed \/ DropRepeated
           \/ \E remembered, room \in BOOLEAN : StoreLine(remembered, room)
  BY <1>3 DEF OpenFile, SkipMalformed, DropRepeated, StoreLine, NextLine, Counted
<1>4. CASE QueryIndex \/ QueryFilter
  BY <1>4 DEF QueryIndex, QueryFilter, Answer, Counted
<1>5. CASE \E args \in CommandLines : Sort(args)
  BY <1>5 DEF Sort, Counted
<1>6. CASE UNCHANGED vars
  BY <1>6 DEF vars, Counted
<1> QED  BY <1>1, <1>2, <1>3, <1>4, <1>5, <1>6 DEF Next

LEMMA Remainder ==
    ASSUME NEW x \in Int
    PROVE  Rem(x, 32) \in -31 .. 31 /\ (x >= 0 => Rem(x, 32) \in 0 .. 31)
<1>1. \A y \in Nat : y % 32 \in 0 .. 31
  OBVIOUS
<1>2. CASE x >= 0
  BY <1>1, <1>2 DEF Rem
<1>3. CASE ~(x >= 0)
  <2>1. -x \in Nat
    BY <1>3
  <2>2. (-x) % 32 \in 0 .. 31
    BY <1>1, <2>1
  <2> QED  BY <1>3, <2>2 DEF Rem
<1> QED  BY <1>2, <1>3

\* The hash of a name without negative chars is a slot.
LEMMA HashIsSlot ==
    ASSUME NEW chars, chars \in Seq(-128 .. 127)
    PROVE  /\ Hash(chars) \in -31 .. 31
           /\ (\A c \in ToSet(chars) : ~(c < 0)) => Hash(chars) \in 0 .. 31
<1> DEFINE n == Len(chars)
           Plain == \A c \in ToSet(chars) : ~(c < 0)
           Next1(x, k) == Rem(x * 31 + chars[k], 32)
           Step(g, k) == IF k = 0 THEN 0 ELSE Next1(g[k - 1], k)
           Rule(g, m) == g = [k \in 0 .. m |-> Step(g, k)]
           InRange(x) == x \in -31 .. 31 /\ (Plain => x \in 0 .. 31)
<1>1. n \in Nat /\ DOMAIN chars = 1 .. n
  BY LenProperties
<1>2. ASSUME NEW k \in 1 .. n, NEW x, InRange(x)
      PROVE  InRange(Next1(x, k))
  <2>1. chars[k] \in -128 .. 127 /\ (Plain => chars[k] >= 0)
    <3>1. chars[k] \in -128 .. 127
      BY <1>1, ElementOfSeq
    <3>2. chars[k] \in ToSet(chars)
      BY <1>1 DEF ToSet
    <3>3. Plain => ~(chars[k] < 0)
      BY <3>2
    <3> DEFINE d == chars[k]
    <3>4. d \in -128 .. 127 /\ (Plain => ~(d < 0))
      BY <3>1, <3>3
    <3> HIDE DEF Plain, d
    <3>5. d \in -128 .. 127 /\ (Plain => d >= 0)
      BY <3>4
    <3> QED  BY <3>5 DEF d
  <2> DEFINE c == chars[k]
             y == x * 31 + c
  <2>2. y \in Int /\ (Plain => y >= 0)
    <3> HIDE DEF Plain
    <3>1. c \in -128 .. 127 /\ (Plain => c >= 0)
      BY <2>1
    <3>2. x \in -31 .. 31 /\ (Plain => x \in 0 .. 31)
      BY <1>2
    <3> HIDE DEF c
    <3>3. c \in Int /\ x \in Int
      BY <3>1, <3>2
    <3>4. x * 31 \in Int /\ (Plain => x * 31 >= 0)
      BY <3>2, <3>3
    <3> QED  BY <3>1, <3>3, <3>4
  <2> HIDE DEF y
  <2>3. Rem(y, 32) \in -31 .. 31 /\ (Plain => Rem(y, 32) \in 0 .. 31)
    <3> HIDE DEF Plain
    <3> QED  BY <2>2, Remainder
  <2> QED  BY <2>3 DEF y, c
<1>3. InRange(0)
  OBVIOUS
<1> HIDE DEF n, Next1, InRange
<1>4. \A m \in Nat : \E g : Rule(g, m)
  <2> DEFINE Lacking == {m \in Nat : ~\E g : Rule(g, m)}
  <2>1. ASSUME Lacking # {}  PROVE FALSE
    <3>1. PICK m \in Lacking : \A j \in Lacking : m <= j
      BY <2>1, FirstExists
    <3>2. m \in Nat /\ ~\E g : Rule(g, m)
      BY <3>1
    <3>3. CASE m = 0
      <4> DEFINE g == [k \in 0 .. m |-> 0]
      <4>1. \A k \in 0 .. m : Step(g, k) = 0
        BY <3>3
      <4>2. Rule(g, m)
        <5> HIDE DEF Step
        <5> QED  BY <4>1
      <4> HIDE DEF Rule
      <4> QED  BY <3>2, <4>2
    <3>4. CASE m # 0
      <4> DEFINE j == m - 1
      <4>1. j \in Nat /\ ~(m <= j) /\ 0 .. j = (0 .. m) \ {m} /\ m \in Nat
        BY <3>2, <3>4
      <4> HIDE DEF j
      <4>2. PICK h : Rule(h, j)
        <5> HIDE DEF Rule
        <5>1. j \notin Lacking
          BY <3>1, <4>1
        <5> QED  BY <4>1, <5>1
      <4> DEFINE g == [k \in 0 .. m |-> Step(h, k)]
      <4>3. \A k \in 0 .. j : h[k] = Step(h, k)
        <5> HIDE DEF Step
        <5> QED  BY <4>2
      <4>4. \A k \in 0 .. j : g[k] = h[k]
        <5>1. \A k \in 0 .. m : g[k] = Step(h, k)
          <6> HIDE DEF Step
          <6> QED  OBVIOUS
        <5> HIDE DEF g, Step
        <5> QED  BY <4>1, <4>3, <5>1
      <4>5. \A k \in 0 .. m : Step(g, k) = Step(h, k)
        <5> HIDE DEF g
        <5>1. \A k \in 0 .. m : k # 0 => k - 1 \in 0 .. j
          BY <4>1 DEF j
        <5> QED  BY <4>4, <5>1
      <4>6. Rule(g, m)
        <5> HIDE DEF Step
        <5> QED  BY <4>5
      <4> HIDE DEF Rule
      <4> QED  BY <3>2, <4>6
    <3> QED  BY <3>3, <3>4
  <2> HIDE DEF Rule
  <2> QED  BY <2>1
<1>5. ASSUME NEW g, Rule(g, n)  PROVE InRange(g[n])
  <2> DEFINE Bad == {k \in 0 .. n : ~InRange(g[k])}
  <2>0. \A k \in 0 .. n : g[k] = Step(g, k)
    <3> HIDE DEF Step
    <3> QED  BY <1>5
  <2> HIDE DEF Rule
  <2>1. ASSUME Bad # {}  PROVE FALSE
    <3>1. PICK k \in Bad : \A j \in Bad : k <= j
      <4>1. Bad \subseteq Nat
        BY <1>1
      <4> HIDE DEF Bad
      <4> QED  BY <2>1, <4>1, FirstExists
    <3>2. k \in 0 .. n /\ ~InRange(g[k])
      BY <3>1
    <3>3. k # 0
      BY <1>3, <2>0, <3>2
    <3>4. k \in 1 .. n /\ k - 1 \in 0 .. n /\ ~(k <= k - 1)
      BY <1>1, <3>2, <3>3
    <3>5. InRange(g[k - 1])
      BY <3>1, <3>4
    <3>6. g[k] = Next1(g[k - 1], k)
      BY <2>0, <3>2, <3>3
    <3> QED  BY <1>2, <3>2, <3>4, <3>5, <3>6
  <2> QED  BY <1>1, <2>1
<1>6. Hash(chars) = (CHOOSE g : Rule(g, n))[n]
  BY DEF Hash, n, Next1
<1> HIDE DEF Rule
<1>7. Rule(CHOOSE g : Rule(g, n), n)
  BY <1>1, <1>4
<1>8. InRange(Hash(chars))
  BY <1>5, <1>6, <1>7
<1> QED  BY <1>8 DEF InRange

\* --stats counts every entry once, but for those of a node-X beyond the slots and of
\* names whose hash their characters beyond ASCII make negative.
THEOREM StatsAreComplete == Spec => []StatsCountNodes
<1>1. StoreInv /\ Counted => StatsCountNodes
  <2> DEFINE n == Len(entries)
             Name(i) == Names[entries[i].node]
             Beyond == {i \in DOMAIN entries : Name(i).numbered /\ Name(i).number \notin 0 .. 31}
             Foreign == {i \in DOMAIN entries :
                            ~Name(i).numbered /\ \E c \in ToSet(Name(i).chars) : c < 0}
  <2> SUFFICES ASSUME StoreInv, Counted, at = "done", opts.stats
               PROVE  /\ SumOf(stats) + Cardinality(Beyond) <= n
                      /\ n <= SumOf(stats) + Cardinality(Beyond) + Cardinality(Foreign)
    BY DEF StatsCountNodes, SumOf
  <2> DEFINE slot == [i \in 1 .. n |-> Slot(entries[i].node)]
             Slots == {Slot(e.node) : e \in ToSet(entries)} \cap StatsSlots
             In == {i \in 1 .. n : slot[i] \in DOMAIN stats}
             Out == {i \in 1 .. n : slot[i] \notin 0 .. 31}
  <2>0. n \in Nat /\ DOMAIN entries = 1 .. n /\ stats = Counts(entries)
    BY StoreElements DEF Counted
  <2>1. \A i \in 1 .. n :
            /\ slot[i] = Slot(entries[i].node)
            /\ slot[i] \in Int
            /\ slot[i] \notin 0 .. 31 => i \in Beyond \cup Foreign
            /\ i \in Beyond => slot[i] \notin 0 .. 31
    <3> SUFFICES ASSUME NEW i \in 1 .. n
                 PROVE  /\ Slot(entries[i].node) \in Int
                        /\ Slot(entries[i].node) \notin 0 .. 31 => i \in Beyond \cup Foreign
                        /\ i \in Beyond => Slot(entries[i].node) \notin 0 .. 31
      OBVIOUS
    <3>1. entries[i] \in Lines
      BY <2>0, StoreElements, ElementOfSeq
    <3>2. /\ Name(i).numbered \in BOOLEAN /\ Name(i).number \in Int
          /\ Name(i).chars \in Seq(-128 .. 127)
      BY <3>1, StoreAssumption
    <3>3. CASE Name(i).numbered
      <4>1. Slot(entries[i].node) = Name(i).number
        BY <3>3 DEF Slot
      <4> QED  BY <2>0, <3>2, <3>3, <4>1
    <3>4. CASE ~Name(i).numbered
      <4> DEFINE chars == Name(i).chars
      <4>1. Slot(entries[i].node) = Hash(chars)
        BY <3>4 DEF Slot
      <4>2. i \notin Beyond
        BY <3>4
      <4>3. i \notin Foreign => \A c \in ToSet(chars) : ~(c < 0)
        BY <2>0, <3>4
      <4>4. chars \in Seq(-128 .. 127)
        BY <3>2
      <4> HIDE DEF chars, Beyond, Foreign
      <4>5. /\ Hash(chars) \in -31 .. 31
            /\ (\A c \in ToSet(chars) : ~(c < 0)) => Hash(chars) \in 0 .. 31
        BY <4>4, HashIsSlot
      <4> DEFINE h == Hash(chars)
      <4>a. h \in -31 .. 31
        BY <4>5
      <4> HIDE DEF h
      <4>b. h \in Int
        BY <4>a
      <4>6. Hash(chars) \in Int
        BY <4>b DEF h
      <4> QED  BY <4>1, <4>2, <4>3, <4>5, <4>6
    <3> QED  BY <3>3, <3>4
  <2>2. slot \in [1 .. n -> Int]
    <3>1. \A i \in 1 .. n : Slot(entries[i].node) \in Int
      BY <2>1
    <3> HIDE DEF n
    <3> QED  BY <3>1
  <2>b. Beyond \in SUBSET (1 .. n) /\ Foreign \in SUBSET (1 .. n)
    BY <2>0
  <2> HIDE DEF slot, Beyond, Foreign
  <2>3. \A m : InSlot(entries, m) = Cardinality({i \in 1 .. n : slot[i] = m})
    <3> TAKE m
    <3>1. {i \in DOMAIN entries : Slot(entries[i].node) = m} = {i \in 1 .. n : slot[i] = m}
      BY <2>0, <2>1
    <3> QED  BY <3>1 DEF InSlot
  <2>4. \A i \in 1 .. n : InSlot(entries, slot[i]) > 0
    <3> TAKE i \in 1 .. n
    <3> DEFINE S == {j \in 1 .. n : slot[j] = slot[i]}
    <3>1. S \in SUBSET (1 .. n) /\ S # {}
      OBVIOUS
    <3> HIDE DEF S, n
    <3>2. IsFiniteSet(S) /\ Cardinality(S) \in Nat
      BY <2>0, <3>1, PositionsFinite
    <3>3. Cardinality(S) # 0
      BY <3>1, <3>2, FS_EmptySet
    <3> QED  BY <2>3, <3>2, <3>3 DEF S
  <2>5. /\ GreatestSlot(entries) \in 0 .. 31
        /\ \A i \in 1 .. n : slot[i] \in 0 .. 31 => slot[i] <= GreatestSlot(entries)
    <3> DEFINE T == {0} \cup Slots
    <3>1. T \in SUBSET (0 .. 31) /\ T # {} /\ 31 \in Nat
      BY DEF StatsSlots
    <3>2. \A i \in 1 .. n : slot[i] \in 0 .. 31 => slot[i] \in T
      BY <2>0, <2>1 DEF StatsSlots, ToSet
    <3> HIDE DEF T
    <3>3. Max(T) \in T /\ \A t \in T : t <= Max(T)
      BY <3>1, GreatestExists
    <3>4. GreatestSlot(entries) = Max(T)
      BY DEF GreatestSlot, T
    <3> QED  BY <3>1, <3>2, <3>3, <3>4
  <2>6. /\ DOMAIN stats \subseteq 0 .. 31
        /\ \A i \in 1 .. n : slot[i] \in 0 .. 31 => slot[i] \in DOMAIN stats
        /\ \A x \in DOMAIN stats : stats[x] = Cardinality({i \in 1 .. n : slot[i] = x})
    <3>1. stats = [m \in {k \in 0 .. GreatestSlot(entries) : InSlot(entries, k) > 0} |->
                      InSlot(entries, m)]
      BY <2>0 DEF Counts
    <3> HIDE DEF n
    <3>2. DOMAIN stats = {k \in 0 .. GreatestSlot(entries) : InSlot(entries, k) > 0}
      BY <3>1
    <3>3. DOMAIN stats \subseteq 0 .. 31
      BY <2>5, <3>2
    <3>4. \A i \in 1 .. n : slot[i] \in 0 .. 31 => slot[i] \in DOMAIN stats
      BY <2>4, <2>5, <3>2
    <3>5. \A x \in DOMAIN stats : stats[x] = InSlot(entries, x)
      BY <3>1
    <3> QED  BY <2>3, <3>3, <3>4, <3>5
  <2>7. IsFiniteSet(DOMAIN stats)
    <3>1. 31 \in Nat /\ DOMAIN stats \in SUBSET (0 .. 31) /\ 0 \in Int /\ 31 \in Int
      BY <2>6
    <3>2. IsFiniteSet(0 .. 31)
      BY <3>1, FS_Interval, Zenon
    <3> QED  BY <3>1, <3>2, FS_Subset
  <2>8. SumOf(stats) = Cardinality(In)
    <3>1. \A x \in DOMAIN stats : stats[x] = Cardinality({i \in 1 .. n : slot[i] = x})
      BY <2>6
    <3> HIDE DEF n
    <3>2. n \in Nat
      BY <2>0
    <3>3. SumOf(stats) = Cardinality({i \in 1 .. n : slot[i] \in DOMAIN stats})
      BY <2>2, <2>7, <3>1, <3>2, SumOfCounts, Zenon
    <3> QED  BY <3>3
  <2>9. In \cup Out = 1 .. n /\ In \cap Out = {}
    <3> HIDE DEF n
    <3> QED  BY <2>6
  <2>10. In \in SUBSET (1 .. n) /\ Out \in SUBSET (1 .. n)
    OBVIOUS
  <2>11. Beyond \subseteq Out /\ Out \subseteq Beyond \cup Foreign
    BY <2>1, <2>b
  <2>12. Cardinality(1 .. n) = n
    <3>1. 1 \in Int /\ n \in Int
      BY <2>0
    <3>2. Cardinality(1 .. n) = IF 1 > n THEN 0 ELSE n - 1 + 1
      BY <3>1, FS_Interval, Zenon
    <3> QED  BY <2>0, <3>2
  <2> HIDE DEF In, Out, n
  <2>13. /\ IsFiniteSet(In) /\ Cardinality(In) \in Nat
         /\ IsFiniteSet(Out) /\ Cardinality(Out) \in Nat
         /\ IsFiniteSet(Beyond) /\ Cardinality(Beyond) \in Nat
         /\ IsFiniteSet(Foreign) /\ Cardinality(Foreign) \in Nat
    BY <2>0, <2>10, <2>b, PositionsFinite
  <2>14. Cardinality(In) + Cardinality(Out) = n
    <3>1. Cardinality({}) = 0
      BY FS_EmptySet
    <3>2. Cardinality(In \cup Out) = Cardinality(In) + Cardinality(Out) - Cardinality(In \cap Out)
      BY <2>13, FS_Union
    <3>3. Cardinality(In \cup Out) = n /\ Cardinality(In \cap Out) = 0
      BY <2>9, <2>12, <3>1
    <3> QED  BY <2>13, <3>2, <3>3
  <2>15. Cardinality(Beyond) <= Cardinality(Out)
    BY <2>11, <2>13, FS_Subset
  <2>16. Cardinality(Out) <= Cardinality(Beyond) + Cardinality(Foreign)
    <3> DEFINE U == Beyond \cup Foreign
               J == Beyond \cap Foreign
    <3>1. IsFiniteSet(U) /\ IsFiniteSet(J)
      BY <2>13, FS_Union, FS_Intersection
    <3>2. Cardinality(U) = Cardinality(Beyond) + Cardinality(Foreign) - Cardinality(J)
      BY <2>13, FS_Union
    <3>3. Cardinality(Out) <= Cardinality(U) /\ Cardinality(J) \in Nat /\ Cardinality(U) \in Nat
      BY <2>11, <3>1, FS_Subset, FS_CardinalityType
    <3> HIDE DEF U, J
    <3> QED  BY <2>13, <3>2, <3>3
  <2> DEFINE in == Cardinality(In)
             out == Cardinality(Out)
             beyond == Cardinality(Beyond)
             foreign == Cardinality(Foreign)
  <2>17. /\ in \in Nat /\ out \in Nat /\ beyond \in Nat /\ foreign \in Nat
         /\ in + out = n /\ beyond <= out /\ out <= beyond + foreign
    BY <2>13, <2>14, <2>15, <2>16
  <2> HIDE DEF in, out, beyond, foreign
  <2>18. in + beyond <= n /\ n <= in + beyond + foreign
    BY <2>17
  <2> QED  BY <2>8, <2>18 DEF in, beyond, foreign
<1> QED  BY <1>1, StoreInit, StoreNext, CountedInit, CountedNext, PTL DEF Spec

=============================================================================
