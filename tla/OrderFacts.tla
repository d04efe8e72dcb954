------------------------------ MODULE OrderFacts ------------------------------
(***************************************************************************)
(* Facts about finite sets of numbers on which the proofs about the        *)
(* schedulers rest: bitmaps are searched from the lowest bit, users and    *)
(* processes are visited in ascending order, RBGs are tried in an order of *)
(* the API's own.                                                          *)
(***************************************************************************)
EXTENDS Integers, FiniteSets, FunctionTheorems, FiniteSetTheorems, WellFoundedInduction, TLAPS

Below(S, v) == {q \in S : q <= v}

\* A finite, non-empty set of numbers has a least element: the walk over ue_db
\* always finds its next user.
LEMMA LeastExists ==
  ASSUME NEW S \in SUBSET Int, S # {}, IsFiniteSet(S)
  PROVE  \E v \in S : \A w \in S : v <= w
<1> DEFINE T == {Below(S, v) : v \in S}
<1>1. T \subseteq FiniteSubsetsOf(S)
  <2>1. T \subseteq SUBSET S
    BY DEF Below
  <2>2. QED BY <2>1, FS_FiniteSubsetsOfFinite, Zenon
<1>2. T # {}
  OBVIOUS
<1>3. IsWellFoundedOn(StrictSubsetOrdering(S), FiniteSubsetsOf(S))
  BY FS_StrictSubsetOrderingWellFounded
<1>4. \A w \in S : Below(S, w) \in T
  OBVIOUS
<1>5. \A x \in T : \E v \in S : x = Below(S, v)
  OBVIOUS
<1> HIDE DEF T
<1>6. PICK x \in T : \A y \in T : ~(<<y, x>> \in StrictSubsetOrdering(S))
  BY <1>1, <1>2, <1>3, WFMin
<1>7. PICK v \in S : x = Below(S, v)
  BY <1>5, <1>6
<1>8. ASSUME NEW w \in S, w < v PROVE FALSE
  <2>1. v \in Below(S, v) /\ v \notin Below(S, w)
    BY <1>8 DEF Below
  <2>2. Below(S, w) \subseteq Below(S, v) /\ Below(S, v) \subseteq S
    <3>1. S \subseteq Int
      OBVIOUS
    <3>2. \A q \in S : q <= w => q <= v
      BY <1>8, <3>1
    <3>3. QED BY <3>2, Zenon DEF Below
  <2>3. <<Below(S, w), Below(S, v)>> \in StrictSubsetOrdering(S)
    BY <2>1, <2>2 DEF StrictSubsetOrdering
  <2>4. QED BY <1>4, <1>6, <1>7, <2>3
<1>9. QED BY <1>8

\* Likewise a greatest one.
LEMMA GreatestExists ==
  ASSUME NEW S \in SUBSET Int, S # {}, IsFiniteSet(S)
  PROVE  \E v \in S : \A w \in S : v >= w
<1> DEFINE T == {-v : v \in S}
           f == [v \in S |-> -v]
<1>1. f \in Surjection(S, T)
  <2>1. f \in [S -> T] /\ \A t \in T : \E v \in S : f[v] = t
    OBVIOUS
  <2>2. QED BY <2>1, Fun_IsSurj
<1>2. IsFiniteSet(T)
  BY <1>1, FS_Surjection
<1>3. T \in SUBSET Int /\ T # {}
  <2>1. \A v \in S : -v \in Int
    <3>1. \A v \in Int : -v \in Int
      OBVIOUS
    <3>2. QED BY <3>1, Zenon
  <2>2. T \subseteq Int
    BY <2>1
  <2>3. QED BY <2>2
<1>4. \A v \in S : -v \in T
  OBVIOUS
<1>5. \A t \in T : \E v \in S : t = -v
  OBVIOUS
<1> HIDE DEF T, f
<1>6. PICK t \in T : \A w \in T : t <= w
  BY <1>2, <1>3, LeastExists
<1>7. PICK v \in S : t = -v
  BY <1>5
<1>8. ASSUME NEW w \in S PROVE v >= w
  <2>1. -v <= -w
    BY <1>4, <1>6, <1>7
  <2>2. v \in Int /\ w \in Int
    OBVIOUS
  <2>3. QED BY <2>1, <2>2
<1>9. QED BY <1>8

-----------------------------------------------------------------------------
(***************************************************************************)
(* The members of a finite set in a total order R, a set of pairs: how     *)
(* many are ahead of one, and the k first.                                 *)
(***************************************************************************)
Ahead(S, R, r) == {q \in S : <<q, r>> \in R}

TotalOrder(S, R) ==
  /\ \A q \in S : <<q, q>> \notin R
  /\ \A p, q, r \in S : <<p, q>> \in R /\ <<q, r>> \in R => <<p, r>> \in R
  /\ \A q, r \in S : q # r => <<q, r>> \in R \/ <<r, q>> \in R

\* Counting the members ahead is one-to-one.
LEMMA AheadCounts ==
  ASSUME NEW S, NEW R, IsFiniteSet(S), TotalOrder(S, R)
  PROVE  /\ \A r \in S : Cardinality(Ahead(S, R, r)) \in 0 .. Cardinality(S) - 1
         /\ \A q, r \in S :
               Cardinality(Ahead(S, R, q)) = Cardinality(Ahead(S, R, r)) => q = r
<1>1. ASSUME NEW r \in S
      PROVE  Cardinality(Ahead(S, R, r)) \in 0 .. Cardinality(S) - 1
  <2>1. Ahead(S, R, r) \in SUBSET S /\ Ahead(S, R, r) # S
    BY DEF Ahead, TotalOrder
  <2>2. /\ IsFiniteSet(Ahead(S, R, r)) /\ Cardinality(Ahead(S, R, r)) <= Cardinality(S)
        /\ Cardinality(S) # Cardinality(Ahead(S, R, r))
    BY <2>1, FS_Subset
  <2>3. Cardinality(Ahead(S, R, r)) \in Nat /\ Cardinality(S) \in Nat
    BY <2>2, FS_CardinalityType
  <2>4. ASSUME NEW i \in Nat, NEW n \in Nat, i <= n, n # i PROVE i \in 0 .. n - 1
    BY <2>4
  <2>5. QED BY <2>2, <2>3, <2>4
<1>2. ASSUME NEW q \in S, NEW r \in S, <<q, r>> \in R
      PROVE  Cardinality(Ahead(S, R, q)) < Cardinality(Ahead(S, R, r))
  <2>1. Ahead(S, R, q) \in SUBSET Ahead(S, R, r) /\ Ahead(S, R, r) \in SUBSET S
    BY <1>2 DEF Ahead, TotalOrder
  <2>2. q \in Ahead(S, R, r) /\ q \notin Ahead(S, R, q)
    BY <1>2 DEF Ahead, TotalOrder
  <2>3. IsFiniteSet(Ahead(S, R, r))
    BY <2>1, FS_Subset
  <2>4. /\ IsFiniteSet(Ahead(S, R, q))
        /\ Cardinality(Ahead(S, R, q)) <= Cardinality(Ahead(S, R, r))
        /\ Cardinality(Ahead(S, R, r)) # Cardinality(Ahead(S, R, q))
    BY <2>1, <2>2, <2>3, FS_Subset
  <2>5. Cardinality(Ahead(S, R, q)) \in Nat /\ Cardinality(Ahead(S, R, r)) \in Nat
    BY <2>3, <2>4, FS_CardinalityType
  <2>6. QED BY <2>4, <2>5
<1>3. ASSUME NEW q \in S, NEW r \in S, q # r
      PROVE  Cardinality(Ahead(S, R, q)) # Cardinality(Ahead(S, R, r))
  <2>1. Cardinality(Ahead(S, R, q)) \in Int /\ Cardinality(Ahead(S, R, r)) \in Int
    BY <1>1
  <2>2. <<q, r>> \in R \/ <<r, q>> \in R
    BY <1>3 DEF TotalOrder
  <2>3. QED BY <1>2, <2>1, <2>2
<1>4. QED BY <1>1, <1>3

\* ... and onto 0 .. |S| - 1.
LEMMA EachRank ==
  ASSUME NEW S, NEW R, IsFiniteSet(S), TotalOrder(S, R),
         NEW i \in 0 .. Cardinality(S) - 1
  PROVE  \E r \in S : Cardinality(Ahead(S, R, r)) = i
<1> DEFINE n == Cardinality(S)
           rank == [r \in S |-> Cardinality(Ahead(S, R, r))]
<1>1. n \in Nat
  BY FS_CardinalityType
<1>2. rank \in Injection(S, 0 .. n - 1)
  <2>1. rank \in [S -> 0 .. n - 1]
    BY AheadCounts
  <2>2. \A q, r \in S : rank[q] = rank[r] => q = r
    BY AheadCounts
  <2> HIDE DEF rank
  <2>3. QED BY <2>1, <2>2, Fun_IsInj
<1>3. IsFiniteSet(0 .. n - 1) /\ Cardinality(0 .. n - 1) = n
  <2>1. 0 \in Int /\ n - 1 \in Int
    BY <1>1
  <2> HIDE DEF n
  <2>2. QED BY <1>1, <2>1, FS_Interval
<1>4. rank \in Surjection(S, 0 .. n - 1)
  BY <1>2, <1>3, FS_Injection
<1>5. \E r \in S : rank[r] = i
  <2> HIDE DEF rank
  <2>1. QED BY <1>4 DEF Surjection
<1>6. QED BY <1>5

\* The k first members of a set of at least k are k in number.
LEMMA FirstCount ==
  ASSUME NEW S, NEW R, IsFiniteSet(S), TotalOrder(S, R),
         NEW k \in 0 .. Cardinality(S)
  PROVE  Cardinality({r \in S : Cardinality(Ahead(S, R, r)) < k}) = k
<1> DEFINE n == Cardinality(S)
           L == {r \in S : Cardinality(Ahead(S, R, r)) < k}
           low == [r \in L |-> Cardinality(Ahead(S, R, r))]
<1>1. n \in Nat
  BY FS_CardinalityType
<1>2. low \in Bijection(L, 0 .. k - 1)
  <2>1. low \in [L -> 0 .. k - 1]
    <3>1. \A r \in L : Cardinality(Ahead(S, R, r)) \in 0 .. n - 1
                      /\ Cardinality(Ahead(S, R, r)) < k
      BY AheadCounts
    <3>2. \A r \in L : Cardinality(Ahead(S, R, r)) \in 0 .. k - 1
      BY <1>1, <3>1
    <3> HIDE DEF L
    <3>3. QED BY <3>2
  <2>2. \A q, r \in L : low[q] = low[r] => q = r
    BY AheadCounts
  <2>3. \A i \in 0 .. k - 1 : \E r \in L : low[r] = i
    <3>1. TAKE i \in 0 .. k - 1
    <3>2. i \in 0 .. n - 1 /\ i < k
      BY <1>1
    <3>3. PICK r \in S : Cardinality(Ahead(S, R, r)) = i
      BY <3>2, EachRank
    <3>4. QED BY <3>2, <3>3
  <2> HIDE DEF low, L
  <2>4. QED BY <2>1, <2>2, <2>3, Fun_IsBij
<1>3. IsFiniteSet(L)
  BY FS_Subset
<1>4. Cardinality(0 .. k - 1) = k
  <2>1. 0 \in Int /\ k - 1 \in Int /\ k \in Nat
    BY <1>1
  <2>2. QED BY <2>1, FS_Interval
<1>5. ExistsBijection(L, 0 .. k - 1)
  BY <1>2, Fun_ExistsBij
<1> HIDE DEF L
<1>6. Cardinality(0 .. k - 1) = Cardinality(L)
  BY <1>3, <1>5, FS_Bijection
<1>7. QED BY <1>4, <1>6 DEF L

-----------------------------------------------------------------------------
(***************************************************************************)
(* The same for the order of the numbers.                                  *)
(***************************************************************************)
Lower(S, r) == {q \in S : q < r}
Lesser(S) == {p \in S \X S : p[1] < p[2]}

LEMMA LesserOrders ==
  ASSUME NEW S \in SUBSET Int
  PROVE  /\ TotalOrder(S, Lesser(S))
         /\ \A r \in S : Ahead(S, Lesser(S), r) = Lower(S, r)
<1>1. \A q, r \in S : <<q, r>> \in Lesser(S) <=> q < r
  BY DEF Lesser
<1>2. /\ \A q \in S : ~(q < q)
      /\ \A p, q, r \in S : p < q /\ q < r => p < r
      /\ \A q, r \in S : q # r => q < r \/ r < q
  OBVIOUS
<1>3. TotalOrder(S, Lesser(S))
  BY <1>1, <1>2, Zenon DEF TotalOrder
<1>4. QED BY <1>1, <1>3 DEF Ahead, Lower

LEMMA LowestCount ==
  ASSUME NEW S \in SUBSET Int, IsFiniteSet(S), NEW k \in 0 .. Cardinality(S)
  PROVE  Cardinality({r \in S : Cardinality(Lower(S, r)) < k}) = k
<1>1. {r \in S : Cardinality(Lower(S, r)) < k}
        = {r \in S : Cardinality(Ahead(S, Lesser(S), r)) < k}
  BY LesserOrders
<1>2. QED BY <1>1, LesserOrders, FirstCount

LEMMA EachLowerCount ==
  ASSUME NEW S \in SUBSET Int, IsFiniteSet(S), NEW i \in 0 .. Cardinality(S) - 1
  PROVE  \E r \in S : Cardinality(Lower(S, r)) = i
<1>1. \E r \in S : Cardinality(Ahead(S, Lesser(S), r)) = i
  BY LesserOrders, EachRank
<1>2. QED BY <1>1, LesserOrders

-----------------------------------------------------------------------------
(***************************************************************************)
(* Division, for the counters that wrap.                                   *)
(***************************************************************************)
\* Division with a divisor that is not a literal.
LEMMA Quotient ==
  ASSUME NEW R \in Nat \ {0}, NEW x \in Nat
  PROVE  \E q \in Nat : x = R * q + (x % R)
<1> DEFINE S == {q \in 0 .. x : R * q <= x}
<1>1. S \subseteq 0 .. x /\ 0 \in S
  OBVIOUS
<1>2. IsFiniteSet(S)
  <2> HIDE DEF S
  <2>1. IsFiniteSet(0 .. x)
    BY FS_Interval
  <2>2. QED BY <1>1, <2>1, FS_Subset
<1>3. PICK q \in S : \A p \in S : q >= p
  <2> HIDE DEF S
  <2>1. S \in SUBSET Int
    BY <1>1
  <2>2. QED BY <1>1, <1>2, <2>1, GreatestExists
<1>4. q \in Nat /\ R * q <= x
  BY <1>3
<1>5. x - R * q < R
  <2> SUFFICES ASSUME x - R * q >= R PROVE FALSE
    BY <1>4
  <2>1. R * (q + 1) <= x
    BY <1>4
  <2>2. q + 1 <= R * (q + 1)
    BY <1>4
  <2>3. q + 1 \in S
    BY <1>4, <2>1, <2>2
  <2>4. QED BY <1>3, <1>4, <2>3
<1> DEFINE c == x - R * q
<1>6. c \in 0 .. R - 1 /\ x = R * q + c
  BY <1>4, <1>5
<1> HIDE DEF c
<1>7. \A b \in Int, d \in 0 .. R - 1 : (R * b + d) % R = d
  OBVIOUS
<1>8. x % R = c
  BY <1>4, <1>6, <1>7
<1>9. QED BY <1>4, <1>6, <1>8

LEMMA IntQuotient ==
  ASSUME NEW R \in Nat \ {0}, NEW x \in Int
  PROVE  \E q \in Int : x = R * q + (x % R)
<1>1. CASE x \in Nat
  <2>1. \A y \in Nat : \E q \in Nat : y = R * q + (y % R)
    BY Quotient
  <2>2. PICK q \in Nat : x = R * q + (x % R)
    BY <1>1, <2>1
  <2>3. q \in Int
    OBVIOUS
  <2>4. QED BY <2>2, <2>3
<1>2. CASE x \notin Nat
  <2> DEFINE y == -x
             c == y % R
  <2>1. y \in Nat /\ x = -y
    BY <1>2
  <2> HIDE DEF y
  <2>2. PICK q \in Nat : y = R * q + c
    BY <2>1, Quotient
  <2>3. c \in 0 .. R - 1
    BY <2>1
  <2> HIDE DEF c
  <2>4. \A b \in Int, d \in 0 .. R - 1 : (R * b + d) % R = d
    OBVIOUS
  <2>5. CASE c = 0
    <3>1. x = R * (-q) + 0
      BY <2>1, <2>2, <2>5
    <3>2. -q \in Int /\ 0 \in 0 .. R - 1
      OBVIOUS
    <3>3. x % R = 0
      BY <2>4, <3>1, <3>2
    <3>4. QED BY <3>1, <3>2, <3>3
  <2>6. CASE c # 0
    <3>1. x = R * (-q - 1) + (R - c)
      BY <2>1, <2>2, <2>3
    <3>2. -q - 1 \in Int /\ R - c \in 0 .. R - 1
      BY <2>3, <2>6
    <3>3. x % R = R - c
      BY <2>4, <3>1, <3>2
    <3>4. QED BY <3>1, <3>2, <3>3
  <2>7. QED BY <2>5, <2>6
<1>3. QED BY <1>1, <1>2

\* It is the same to wrap before an addition.
LEMMA WrapAdd ==
  ASSUME NEW M \in Nat \ {0}, NEW x \in Int, NEW b \in Int
  PROVE  ((x % M) + b) % M = (x + b) % M
<1> DEFINE c == x % M
           d == (c + b) % M
<1>1. c \in 0 .. M - 1
  OBVIOUS
<1>2. PICK q \in Int : x = M * q + c
  BY IntQuotient
<1> HIDE DEF c
<1>3. c + b \in Int
  BY <1>1
<1>4. PICK p \in Int : c + b = M * p + d
  BY <1>3, IntQuotient
<1>5. d \in 0 .. M - 1
  BY <1>3
<1> HIDE DEF d
<1>6. x + b = M * (q + p) + d /\ q + p \in Int
  BY <1>1, <1>2, <1>4, <1>5
<1>7. \A k \in Int : (M * k + d) % M = d
  BY <1>5
<1>8. (x + b) % M = d
  BY <1>6, <1>7
<1>9. QED BY <1>8 DEF d, c

\* Numbers less than a lap apart differ.
LEMMA WrapSame ==
  ASSUME NEW M \in Nat \ {0}, NEW a \in Int, NEW b \in Int,
         a <= b, b - a < M, a % M = b % M
  PROVE  a = b
<1> DEFINE d == a % M
<1>1. PICK p \in Int : a = M * p + d
  BY IntQuotient
<1>2. PICK q \in Int : b = M * q + d
  BY IntQuotient
<1>3. d \in Int
  OBVIOUS
<1> HIDE DEF d
<1>4. M * (q - p) = b - a /\ q - p \in Int
  BY <1>1, <1>2, <1>3
<1>5. ASSUME NEW k \in Int, M * k < M, 0 <= M * k PROVE M * k = 0
  <2>1. CASE k <= -1
    <3>1. M * k <= -M
      BY <2>1
    <3>2. QED BY <1>5, <3>1
  <2>2. CASE k = 0
    BY <2>2
  <2>3. CASE k >= 1
    <3>1. M * k >= M
      BY <2>3
    <3>2. QED BY <1>5, <3>1
  <2>4. QED BY <2>1, <2>2, <2>3
<1>6. M * (q - p) = 0
  BY <1>4, <1>5
<1>7. QED BY <1>4, <1>6

\* A whole number of laps leads back.
LEMMA WrapLaps ==
  ASSUME NEW M \in Nat \ {0}, NEW x \in Int, NEW k \in Int
  PROVE  (x + M * k) % M = x % M
<1> DEFINE c == x % M
<1>1. c \in 0 .. M - 1
  OBVIOUS
<1>2. PICK q \in Int : x = M * q + c
  BY IntQuotient
<1> HIDE DEF c
<1>3. x + M * k = M * (q + k) + c /\ q + k \in Int
  BY <1>1, <1>2
<1>4. \A l \in Int : (M * l + c) % M = c
  BY <1>1
<1>5. (x + M * k) % M = c
  BY <1>3, <1>4
<1>6. QED BY <1>5 DEF c

=============================================================================
