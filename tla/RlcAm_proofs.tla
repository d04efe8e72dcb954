----------------------------- MODULE RlcAm_proofs -----------------------------
(***************************************************************************)
(* Proofs about RlcAm, for every window, every sequence of SDUs and every  *)
(* number of PDUs and statuses on the air: nothing is forgotten, and what  *)
(* comes out are the SDUs, whole and in order (SduQueue), as long as a     *)
(* grant carries at least one unit of a segment.                           *)
(*                                                                         *)
(* Sequence numbers wrap.  The proofs count PDUs without wrapping, from    *)
(* the first one ever sent, and number i has the sequence number SN(i).    *)
(***************************************************************************)
EXTENDS RlcAm, OrderFacts, SequenceTheorems

-----------------------------------------------------------------------------
(***************************************************************************)
(* Sequence numbers.                                                       *)
(***************************************************************************)
SN(i) == i % MOD

LEMMA Sizes ==
  /\ Window \in Nat \ {0} /\ MOD \in Nat \ {0} /\ MOD = Window + Window
  /\ SNs = 0 .. MOD - 1
BY RlcAssumption DEF MOD, SNs

LEMMA SnType ==
  ASSUME NEW i \in Int
  PROVE  SN(i) \in SNs
<1>1. \A M \in Nat \ {0} : i % M \in 0 .. M - 1
  OBVIOUS
<1>2. QED BY <1>1, Sizes DEF SN

LEMMA SnSmall ==
  ASSUME NEW i \in SNs
  PROVE  SN(i) = i
<1>1. \A M \in Nat \ {0} : \A x \in 0 .. M - 1 : x % M = x
  OBVIOUS
<1>2. QED BY <1>1, Sizes DEF SN

LEMMA UpSn ==
  ASSUME NEW i \in Int, NEW n \in Int
  PROVE  Up(SN(i), n) = SN(i + n)
BY Sizes, WrapAdd DEF Up, SN

\* Two PDUs less than 2 * Window apart have different SNs.
LEMMA SnDiffers ==
  ASSUME NEW i \in Int, NEW j \in Int, i - j < MOD, j - i < MOD, SN(i) = SN(j)
  PROVE  i = j
<1>1. CASE i <= j
  BY <1>1, Sizes, WrapSame DEF SN
<1>2. CASE j <= i
  BY <1>2, Sizes, WrapSame DEF SN
<1>3. QED BY <1>1, <1>2

LEMMA BaseSn ==
  ASSUME NEW i \in Int, NEW e \in Int
  PROVE  Base(SN(i), SN(e)) = SN(i - e)
<1> DEFINE c == SN(e)
<1>1. PICK q \in Int : e = MOD * q + c
  BY Sizes, IntQuotient DEF SN
<1>2. c \in Int
  BY SnType, Sizes
<1> HIDE DEF c
<1>3. (SN(i) + (-c)) % MOD = (i + (-c)) % MOD
  <2> DEFINE d == -c
  <2>1. d \in Int
    BY <1>2
  <2> HIDE DEF d
  <2>2. ((i % MOD) + d) % MOD = (i + d) % MOD
    BY <2>1, Sizes, WrapAdd
  <2>3. QED BY <2>2 DEF d, SN
<1>4. SN(i) \in Int
  BY SnType, Sizes
<1>5. SN(i) + (-c) = SN(i) - c /\ i + (-c) = (i - e) + MOD * q /\ i - e \in Int
  BY <1>1, <1>2, <1>4, Sizes
<1>6. ((i - e) + MOD * q) % MOD = (i - e) % MOD
  BY <1>5, Sizes, WrapLaps
<1>7. Base(SN(i), c) = SN(i - e)
  BY <1>3, <1>5, <1>6 DEF Base, SN
<1>8. QED BY <1>7 DEF c

\* How far a PDU is from an edge, if it is not too far.
LEMMA BaseAhead ==
  ASSUME NEW i \in Int, NEW e \in Int, e <= i, i - e < MOD
  PROVE  Base(SN(i), SN(e)) = i - e
<1>1. i - e \in SNs
  BY Sizes
<1>2. QED BY <1>1, BaseSn, SnSmall

LEMMA BaseBehind ==
  ASSUME NEW i \in Int, NEW e \in Int, i < e, e - i <= MOD
  PROVE  Base(SN(i), SN(e)) = (i - e) + MOD
<1>1. (i - e) + MOD \in SNs
  BY Sizes
<1>2. SN((i - e) + MOD) = SN(i - e)
  <2> DEFINE d == i - e
  <2>1. d \in Int /\ 1 \in Int /\ MOD * 1 = MOD
    BY Sizes
  <2> HIDE DEF d
  <2>2. (d + MOD * 1) % MOD = d % MOD
    BY ONLY <2>1, Sizes, WrapLaps
  <2>3. QED BY <2>1, <2>2 DEF d, SN
<1>3. QED BY <1>1, <1>2, BaseSn, SnSmall

\* Every SN is that of a PDU from a given one on.
LEMMA BaseReaches ==
  ASSUME NEW sn \in SNs, NEW e \in Int
  PROVE  Base(sn, SN(e)) \in SNs /\ SN(e + Base(sn, SN(e))) = sn
<1>1. SN(sn) = sn /\ sn \in Int
  BY SnSmall, Sizes
<1>2. Base(sn, SN(e)) = SN(sn - e)
  BY <1>1, BaseSn
<1>3. SN(sn - e) \in SNs
  BY <1>1, SnType
<1>4. (((sn - e) % MOD) + e) % MOD = ((sn - e) + e) % MOD
  <2> DEFINE d == sn - e
  <2>1. d \in Int
    BY <1>1
  <2> HIDE DEF d
  <2>2. ((d % MOD) + e) % MOD = (d + e) % MOD
    BY <2>1, Sizes, WrapAdd
  <2>3. QED BY <2>2 DEF d
<1>5. ((sn - e) % MOD) + e = e + ((sn - e) % MOD) /\ (sn - e) + e = sn
  BY <1>1, <1>3, Sizes DEF SN
<1>6. QED BY <1>1, <1>2, <1>3, <1>4, <1>5 DEF SN

-----------------------------------------------------------------------------
(***************************************************************************)
(* Counting, and loops over a sequence (FoldLeft).                         *)
(***************************************************************************)
LEMMA IntervalLeast ==
  ASSUME NEW n \in Int, NEW S \in SUBSET (0 .. n), S # {}
  PROVE  \E v \in S : \A w \in S : v <= w
<1>1. IsFiniteSet(0 .. n)
  BY FS_Interval
<1>2. IsFiniteSet(S)
  BY <1>1, FS_Subset, Zenon
<1>3. S \in SUBSET Int
  OBVIOUS
<1>4. QED BY <1>2, <1>3, LeastExists

\* What holds at 0 and from each number to the next, holds up to n.
LEMMA CountUp ==
  ASSUME NEW n \in Nat, NEW G, 0 \in G,
         \A k \in 0 .. n - 1 : k \in G => k + 1 \in G
  PROVE  \A k \in 0 .. n : k \in G
<1> DEFINE Bad == {k \in 0 .. n : k \notin G}
<1> SUFFICES ASSUME Bad # {} PROVE FALSE
  OBVIOUS
<1>1. PICK k \in Bad : \A l \in Bad : k <= l
  <2>1. Bad \in SUBSET (0 .. n) /\ n \in Int
    OBVIOUS
  <2> HIDE DEF Bad
  <2>2. QED BY <2>1, IntervalLeast
<1>2. k \in 1 .. n /\ k \notin G
  BY <1>1
<1>3. k - 1 \in 0 .. n - 1 /\ ~ (k <= k - 1)
  BY <1>2
<1>4. k - 1 \in G
  BY <1>1, <1>3
<1>5. (k - 1) + 1 \in G
  BY <1>3, <1>4
<1>6. (k - 1) + 1 = k
  BY <1>2
<1>7. QED BY <1>2, <1>5, <1>6

LEMMA MaxFacts ==
  ASSUME NEW n \in Nat, NEW S \in SUBSET (1 .. n), S # {}
  PROVE  /\ Max(S) \in S /\ \A k \in S : k <= Max(S)
         /\ IsFiniteSet(S) /\ IsFiniteSet(S \ {Max(S)})
         /\ Cardinality(S \ {Max(S)}) = Cardinality(S) - 1
         /\ Cardinality(S) \in Nat
<1>1. IsFiniteSet(1 .. n)
  BY FS_Interval
<1>2. IsFiniteSet(S)
  BY <1>1, FS_Subset, Zenon
<1>3. S \in SUBSET Int
  OBVIOUS
<1>4. \E v \in S : \A w \in S : v >= w
  BY <1>2, <1>3, GreatestExists
<1>5. Max(S) \in S /\ \A k \in S : Max(S) >= k
  BY <1>4 DEF Max
<1>6. IsFiniteSet(S \ {Max(S)}) /\ Cardinality(S \ {Max(S)}) = Cardinality(S) - 1
  BY <1>2, <1>5, FS_RemoveElement
<1>7. Cardinality(S) \in Nat
  BY <1>2, FS_CardinalityType
<1>8. \A k \in S : k <= Max(S)
  BY <1>3, <1>5
<1>9. QED BY <1>2, <1>5, <1>6, <1>7, <1>8

LEMMA MinFacts ==
  ASSUME NEW n \in Nat, NEW S \in SUBSET (1 .. n), S # {}
  PROVE  Min(S) \in S /\ \A k \in S : Min(S) <= k
<1>1. S \in SUBSET (0 .. n) /\ n \in Int
  OBVIOUS
<1>2. \E v \in S : \A w \in S : v <= w
  BY <1>1, IntervalLeast
<1>3. QED BY <1>2 DEF Min

\* One turn of a loop, whose body is G: from what came before to what comes after
\* element k.
Turn(G, v, g, S) == IF S = {} THEN v ELSE G[<<g[S \ {Max(S)}], Max(S)>>]
Sets(n, m) == {S \in SUBSET (1 .. n) : Cardinality(S) <= m}

\* The loop has an outcome, whatever its body.
Body(n, V, v, G) == n \in Nat /\ v \in V /\ G \in [V \X (1 .. n) -> V]
Outcome(n, V, v, G, g) ==
  /\ g \in [SUBSET (1 .. n) -> V]
  /\ \A S \in SUBSET (1 .. n) : g[S] = Turn(G, v, g, S)

LEMMA FoldExists ==
  ASSUME NEW n, NEW V, NEW v, NEW G, Body(n, V, v, G)
  PROVE  \E g : Outcome(n, V, v, G, g)
<1> USE DEF Body, Outcome
<1> DEFINE Is(g, m) == /\ g \in [Sets(n, m) -> V]
                       /\ g = [S \in Sets(n, m) |-> Turn(G, v, g, S)]
           Done == {m \in 0 .. n : \E g : Is(g, m)}
<1>1. IsFiniteSet(1 .. n) /\ Cardinality(1 .. n) = n
  BY FS_Interval
<1>2. \E g : Is(g, 0)
  <2>1. ASSUME NEW S \in Sets(n, 0) PROVE S = {}
    <3>1. S \in SUBSET (1 .. n) /\ Cardinality(S) <= 0
      BY DEF Sets
    <3>2. IsFiniteSet(S)
      BY <1>1, <3>1, FS_Subset, Zenon
    <3>3. Cardinality(S) = 0
      BY <3>1, <3>2, FS_CardinalityType
    <3>4. QED BY <3>2, <3>3, FS_EmptySet
  <2> DEFINE g == [S \in Sets(n, 0) |-> v]
  <2>2. Is(g, 0)
    BY <2>1 DEF Turn
  <2>3. QED BY <2>2
<1>3. ASSUME NEW m \in Nat, NEW g, Is(g, m)
      PROVE  \E h : Is(h, m + 1)
  <2> DEFINE h == [S \in Sets(n, m + 1) |-> Turn(G, v, g, S)]
  <2>1. ASSUME NEW S \in Sets(n, m + 1), S # {}
        PROVE  S \ {Max(S)} \in Sets(n, m) /\ Max(S) \in 1 .. n
    <3>1. S \in SUBSET (1 .. n) /\ Cardinality(S) <= m + 1
      BY DEF Sets
    <3>2. /\ Max(S) \in S /\ Cardinality(S \ {Max(S)}) = Cardinality(S) - 1
          /\ Cardinality(S) \in Nat
      BY <2>1, <3>1, MaxFacts
    <3>3. Cardinality(S \ {Max(S)}) <= m
      BY <3>1, <3>2
    <3>4. QED BY <3>1, <3>2, <3>3 DEF Sets
  <2>2. \A S \in Sets(n, m + 1) : Turn(G, v, g, S) \in V
    <3>1. ASSUME NEW S \in Sets(n, m + 1), S # {}
          PROVE  <<g[S \ {Max(S)}], Max(S)>> \in V \X (1 .. n)
      BY <1>3, <2>1, <3>1
    <3>2. QED BY <3>1 DEF Turn
  <2>3. \A S \in Sets(n, m) : S \in Sets(n, m + 1) /\ h[S] = g[S]
    <3>1. ASSUME NEW S \in Sets(n, m) PROVE S \in Sets(n, m + 1)
      <4>1. S \in SUBSET (1 .. n) /\ Cardinality(S) <= m
        BY DEF Sets
      <4>2. IsFiniteSet(S)
        BY <1>1, <4>1, FS_Subset, Zenon
      <4>3. Cardinality(S) \in Nat
        BY <4>2, FS_CardinalityType
      <4>4. QED BY <4>1, <4>3 DEF Sets
    <3>2. \A S \in Sets(n, m) : g[S] = Turn(G, v, g, S)
      BY <1>3
    <3>3. QED BY <3>1, <3>2
  <2>4. \A S \in Sets(n, m + 1) : Turn(G, v, h, S) = Turn(G, v, g, S)
    <3> HIDE DEF h
    <3>1. ASSUME NEW S \in Sets(n, m + 1), S # {}
          PROVE  h[S \ {Max(S)}] = g[S \ {Max(S)}]
      BY <2>1, <2>3, <3>1
    <3>2. QED BY <3>1 DEF Turn
  <2>5. h \in [Sets(n, m + 1) -> V]
    BY <2>2
  <2>6. h = [S \in Sets(n, m + 1) |-> Turn(G, v, h, S)]
    BY <2>4
  <2>7. Is(h, m + 1)
    BY <2>5, <2>6
  <2> HIDE DEF h
  <2>8. QED BY <2>7
<1>4. \A m \in 0 .. n : m \in Done
  <2>1. 0 \in Done
    BY <1>2
  <2>2. ASSUME NEW m \in 0 .. n - 1, m \in Done PROVE m + 1 \in Done
    <3>1. PICK g : Is(g, m)
      BY <2>2
    <3>2. m \in Nat /\ m + 1 \in 0 .. n
      OBVIOUS
    <3>3. \E h : Is(h, m + 1)
      BY <1>3, <3>1, <3>2
    <3>4. QED BY <3>2, <3>3
  <2> HIDE DEF Done
  <2>3. QED BY <2>1, <2>2, CountUp
<1>5. PICK g : Is(g, n)
  BY <1>4
<1>6. Sets(n, n) = SUBSET (1 .. n)
  <2>1. ASSUME NEW S \in SUBSET (1 .. n) PROVE Cardinality(S) <= n
    <3>1. Cardinality(S) <= Cardinality(1 .. n)
      BY <1>1, FS_Subset, Zenon
    <3>2. QED BY <1>1, <3>1
  <2>2. QED BY <2>1 DEF Sets
<1>7. QED BY <1>5, <1>6

\* What each turn makes of P[k - 1] is in P[k]: the outcome is in P[n].
Reaches(n, V, v, G, h, P) ==
  /\ Body(n, V, v, G)
  /\ h[{}] = v
  /\ \A S \in SUBSET (1 .. n) :
        S # {} /\ h[S \ {Max(S)}] \in V => h[S] = G[<<h[S \ {Max(S)}], Max(S)>>]
  /\ v \in P[0]
  /\ \A k \in 1 .. n : \A w \in V : w \in P[k - 1] => G[<<w, k>>] \in P[k]

LEMMA FoldReaches ==
  ASSUME NEW n, NEW V, NEW v, NEW G, NEW h, NEW P, Reaches(n, V, v, G, h, P)
  PROVE  h[1 .. n] \in V /\ h[1 .. n] \in P[n]
<1> USE DEF Reaches, Body
<1> DEFINE Done == {k \in 0 .. n : h[1 .. k] \in V /\ h[1 .. k] \in P[k]}
<1>1. 0 \in Done
  <2>1. 1 .. 0 = {}
    OBVIOUS
  <2>2. QED BY <2>1
<1>2. ASSUME NEW k \in 0 .. n - 1, k \in Done PROVE k + 1 \in Done
  <2> DEFINE S == 1 .. k + 1
  <2>1. S \in SUBSET (1 .. n) /\ S # {} /\ k + 1 \in S /\ \A l \in S : l <= k + 1
    OBVIOUS
  <2>2. Max(S) = k + 1
    <3>1. Max(S) \in S /\ \A l \in S : l <= Max(S)
      <4> HIDE DEF S
      <4>1. QED BY <2>1, MaxFacts
    <3>2. Max(S) <= k + 1 /\ k + 1 <= Max(S) /\ Max(S) \in Int
      BY <2>1, <3>1
    <3> HIDE DEF S
    <3>3. QED BY <3>2
  <2>3. S \ {k + 1} = 1 .. k
    OBVIOUS
  <2>4. h[1 .. k] \in V /\ h[1 .. k] \in P[(k + 1) - 1] /\ k + 1 \in 1 .. n
    <3>1. (k + 1) - 1 = k
      OBVIOUS
    <3>2. QED BY <1>2, <3>1
  <2> HIDE DEF S
  <2>5. h[S] = G[<<h[1 .. k], k + 1>>]
    BY <2>1, <2>2, <2>3, <2>4
  <2>6. h[S] \in V /\ h[S] \in P[k + 1]
    BY <2>4, <2>5
  <2>7. k + 1 \in 0 .. n
    OBVIOUS
  <2>8. QED BY <2>6, <2>7 DEF S
<1>3. n \in Done
  <2> HIDE DEF Done
  <2>1. n \in 0 .. n
    OBVIOUS
  <2>2. QED BY <1>1, <1>2, <2>1, CountUp
<1>4. QED BY <1>3

-----------------------------------------------------------------------------
(***************************************************************************)
(* Units of payload and SDUs.                                              *)
(***************************************************************************)
LEMMA UnitsFacts ==
  ASSUME NEW x \in Nat, NEW y \in Nat, x <= y
  PROVE  /\ Units(x + 1, y) \in Seq(Nat)
         /\ Len(Units(x + 1, y)) = y - x
         /\ DOMAIN Units(x + 1, y) = 1 .. y - x
         /\ \A k \in 1 .. y - x : Units(x + 1, y)[k] = x + k
<1>1. Units(x + 1, y) = [k \in 1 .. y - x |-> x + k]
  <2>1. y - (x + 1) + 1 = y - x
    OBVIOUS
  <2>2. \A k \in 1 .. y - x : (x + 1) + k - 1 = x + k
    OBVIOUS
  <2>3. QED BY <2>1, <2>2 DEF Units
<1> DEFINE n == y - x
           u == [k \in 1 .. n |-> x + k]
<1>2. n \in Nat /\ \A k \in 1 .. n : x + k \in Nat
  OBVIOUS
<1> HIDE DEF n
<1>3. u \in Seq(Nat)
  BY <1>2, IsASeq
<1>4. DOMAIN u = 1 .. n /\ \A k \in 1 .. n : u[k] = x + k
  OBVIOUS
<1>5. Len(u) = n
  <2> HIDE DEF u
  <2>1. Len(u) \in Nat /\ DOMAIN u = 1 .. Len(u)
    BY <1>3, LenProperties
  <2>2. QED BY <1>2, <1>4, <2>1
<1>6. QED BY <1>1, <1>3, <1>4, <1>5 DEF n

\* A sequence that counts on from x.
LEMMA IsUnits ==
  ASSUME NEW s \in Seq(Nat), NEW x \in Nat, \A k \in 1 .. Len(s) : s[k] = x + k
  PROVE  s = Units(x + 1, x + Len(s))
<1> DEFINE y == x + Len(s)
<1>1. Len(s) \in Nat
  BY LenProperties
<1>2. y \in Nat /\ x <= y /\ y - x = Len(s)
  BY <1>1
<1> HIDE DEF y
<1>3. Units(x + 1, y) \in Seq(Nat) /\ Len(Units(x + 1, y)) = Len(s)
  BY <1>2, UnitsFacts
<1>4. \A k \in 1 .. Len(s) : s[k] = Units(x + 1, y)[k]
  BY <1>2, UnitsFacts
<1>5. s = Units(x + 1, y)
  BY <1>3, <1>4, SeqEqual
<1>6. QED BY <1>5 DEF y

LEMMA UnitsConcat ==
  ASSUME NEW x \in Nat, NEW y \in Nat, NEW z \in Nat, x <= y, y <= z
  PROVE  Units(x + 1, y) \o Units(y + 1, z) = Units(x + 1, z)
<1> DEFINE u == Units(x + 1, y)
           w == Units(y + 1, z)
<1>1. u \in Seq(Nat) /\ Len(u) = y - x /\ \A k \in 1 .. y - x : u[k] = x + k
  BY UnitsFacts
<1>2. w \in Seq(Nat) /\ Len(w) = z - y /\ \A k \in 1 .. z - y : w[k] = y + k
  BY UnitsFacts
<1> HIDE DEF u, w
<1>3. /\ u \o w \in Seq(Nat) /\ Len(u \o w) = Len(u) + Len(w)
      /\ \A k \in 1 .. Len(u) + Len(w) : (u \o w)[k] = IF k <= Len(u) THEN u[k] ELSE w[k - Len(u)]
  BY <1>1, <1>2, ConcatProperties
<1>4. Len(u \o w) = z - x /\ x + (z - x) = z
  BY <1>1, <1>2, <1>3
<1>5. ASSUME NEW k \in 1 .. z - x PROVE (u \o w)[k] = x + k
  <2>1. (u \o w)[k] = IF k <= y - x THEN u[k] ELSE w[k - (y - x)]
    BY <1>1, <1>2, <1>3
  <2>2. CASE k <= y - x
    BY <1>1, <2>1, <2>2
  <2>3. CASE ~ (k <= y - x)
    <3>1. k - (y - x) \in 1 .. z - y
      BY <2>3
    <3>2. w[k - (y - x)] = y + (k - (y - x))
      BY <1>2, <3>1
    <3>3. QED BY <2>1, <2>3, <3>2
  <2>4. QED BY <2>2, <2>3
<1>6. u \o w = Units(x + 1, x + Len(u \o w))
  BY <1>3, <1>4, <1>5, IsUnits
<1>7. QED BY <1>4, <1>6 DEF u, w

LEMMA UnitsAppend ==
  ASSUME NEW x \in Nat, NEW y \in Nat, x <= y
  PROVE  Append(Units(x + 1, y), y + 1) = Units(x + 1, y + 1)
<1> DEFINE u == Units(x + 1, y)
<1>1. u \in Seq(Nat) /\ Len(u) = y - x /\ \A k \in 1 .. y - x : u[k] = x + k
  BY UnitsFacts
<1> HIDE DEF u
<1> DEFINE w == Append(u, y + 1)
<1>2. /\ w \in Seq(Nat) /\ Len(w) = Len(u) + 1
      /\ \A k \in 1 .. Len(u) : w[k] = u[k]
      /\ w[Len(u) + 1] = y + 1
  BY <1>1, AppendProperties
<1> HIDE DEF w
<1>3. \A k \in 1 .. Len(w) : w[k] = x + k
  BY <1>1, <1>2
<1>4. x + Len(w) = y + 1
  BY <1>1, <1>2
<1>5. w = Units(x + 1, x + Len(w))
  BY <1>2, <1>3, IsUnits
<1>6. QED BY <1>4, <1>5 DEF u, w

Within(x, y, lo, hi) ==
  x \in Nat /\ y \in Nat /\ lo \in Nat /\ hi \in Nat /\ x <= y /\ lo <= hi /\ hi <= y - x

LEMMA UnitsSub ==
  ASSUME NEW x, NEW y, NEW lo, NEW hi, Within(x, y, lo, hi)
  PROVE  SubSeq(Units(x + 1, y), lo + 1, hi) = Units(x + lo + 1, x + hi)
<1> USE DEF Within
<1> DEFINE u == Units(x + 1, y)
<1>1. u \in Seq(Nat) /\ Len(u) = y - x /\ \A k \in 1 .. y - x : u[k] = x + k
  BY UnitsFacts
<1> HIDE DEF u
<1> DEFINE w == SubSeq(u, lo + 1, hi)
<1>2. \A k \in lo + 1 .. hi : u[k] \in Nat
  BY <1>1
<1>3. /\ w \in Seq(Nat) /\ Len(w) = (IF lo + 1 <= hi THEN hi - (lo + 1) + 1 ELSE 0)
      /\ \A k \in 1 .. hi - (lo + 1) + 1 : w[k] = u[(lo + 1) + k - 1]
  BY <1>2, SubSeqProperties
<1> HIDE DEF w
<1>4. Len(w) = hi - lo
  BY <1>3
<1>5. ASSUME NEW k \in 1 .. hi - lo PROVE w[k] = (x + lo) + k
  <2>1. w[k] = u[lo + k]
    BY <1>3
  <2>2. lo + k \in 1 .. y - x
    OBVIOUS
  <2>3. QED BY <1>1, <2>1, <2>2
<1>6. x + lo \in Nat /\ (x + lo) + Len(w) = x + hi
  BY <1>4
<1>7. w = Units((x + lo) + 1, (x + lo) + Len(w))
  BY <1>3, <1>4, <1>5, <1>6, IsUnits
<1>8. QED BY <1>6, <1>7 DEF u, w

LEMMA NoUnits ==
  ASSUME NEW x \in Nat
  PROVE  Units(x + 1, x) = << >>
<1>1. Units(x + 1, x) \in Seq(Nat) /\ Len(Units(x + 1, x)) = 0
  BY UnitsFacts
<1>2. QED BY <1>1, EmptySeq

-----------------------------------------------------------------------------
LEMMA EndFacts ==
  /\ Len(SduEnds) \in Nat /\ EndOf(0) = 0
  /\ \A k \in 0 .. Len(SduEnds) : EndOf(k) \in Nat
  /\ \A k \in 1 .. Len(SduEnds) : EndOf(k - 1) < EndOf(k)
<1>1. Len(SduEnds) \in Nat /\ \A k \in 1 .. Len(SduEnds) : SduEnds[k] \in Nat \ {0}
  BY RlcAssumption, LenProperties, ElementOfSeq
<1>2. \A k \in 0 .. Len(SduEnds) : EndOf(k) \in Nat
  BY <1>1 DEF EndOf
<1>3. ASSUME NEW k \in 1 .. Len(SduEnds) PROVE EndOf(k - 1) < EndOf(k)
  <2>1. CASE k = 1
    BY <1>1, <2>1 DEF EndOf
  <2>2. CASE k # 1
    <3>1. k \in 2 .. Len(SduEnds) /\ k - 1 # 0 /\ k # 0
      BY <1>1, <2>2
    <3>2. QED BY <3>1, RlcAssumption DEF EndOf
  <2>3. QED BY <2>1, <2>2
<1>4. QED BY <1>1, <1>2, <1>3 DEF EndOf

\* The SDUs end in ascending order.
LEMMA EndsAscend ==
  ASSUME NEW j \in 0 .. Len(SduEnds), NEW k \in j .. Len(SduEnds)
  PROVE  EndOf(j) <= EndOf(k) /\ (j < k => EndOf(j) < EndOf(k))
<1> DEFINE n == Len(SduEnds) - j
           G == {i \in 0 .. n : EndOf(j) + i <= EndOf(j + i)}
<1>1. n \in Nat /\ j \in Nat /\ EndOf(j) \in Nat
  BY EndFacts
<1>2. 0 \in G
  BY <1>1
<1>3. ASSUME NEW i \in 0 .. n - 1, i \in G PROVE i + 1 \in G
  <2>1. (j + i) + 1 \in 1 .. Len(SduEnds) /\ ((j + i) + 1) - 1 = j + i /\ j + i \in 0 .. Len(SduEnds)
    BY <1>1, EndFacts
  <2>2. EndOf(j + i) < EndOf((j + i) + 1) /\ EndOf(j + i) \in Nat /\ EndOf((j + i) + 1) \in Nat
    <3> DEFINE l == (j + i) + 1
    <3>1. l \in 1 .. Len(SduEnds) /\ l - 1 = j + i /\ l \in 0 .. Len(SduEnds)
      BY <2>1
    <3> HIDE DEF l
    <3>2. EndOf(l - 1) < EndOf(l)
      BY <3>1, EndFacts
    <3>3. EndOf(j + i) < EndOf(l) /\ EndOf(j + i) \in Nat /\ EndOf(l) \in Nat
      BY <2>1, <3>1, <3>2, EndFacts
    <3>4. QED BY <3>3 DEF l
  <2>3. EndOf(j) + i <= EndOf(j + i)
    BY <1>3
  <2>4. j + (i + 1) = (j + i) + 1
    BY <1>1
  <2>5. QED BY <1>1, <2>2, <2>3, <2>4
<1>4. k - j \in 0 .. n
  BY <1>1
<1>5. k - j \in G
  <2> HIDE DEF G, n
  <2>1. QED BY <1>1, <1>2, <1>3, <1>4, CountUp
<1>6. j + (k - j) = k /\ k \in 0 .. Len(SduEnds) /\ EndOf(k) \in Nat
  BY <1>1, EndFacts
<1>7. QED BY <1>1, <1>5, <1>6

\* How many SDUs end in the first x units.
Passed(n, x) ==
  /\ n \in 0 .. Len(SduEnds) /\ EndOf(n) <= x
  /\ n < Len(SduEnds) => x < EndOf(n + 1)

LEMMA PassedNext ==
  ASSUME NEW n, NEW x \in Nat, Passed(n, x)
  PROVE  IF x + 1 \in Ends THEN Passed(n + 1, x + 1) /\ EndOf(n + 1) = x + 1 ELSE Passed(n, x + 1)
<1>1. n \in 0 .. Len(SduEnds) /\ EndOf(n) <= x /\ EndOf(n) \in Nat /\ Len(SduEnds) \in Nat
  BY EndFacts DEF Passed
<1>2. CASE x + 1 \in Ends
  <2>1. PICK k \in 1 .. Len(SduEnds) : SduEnds[k] = x + 1
    <3>1. DOMAIN SduEnds = 1 .. Len(SduEnds)
      BY RlcAssumption, LenProperties
    <3>2. QED BY <1>2, <3>1 DEF Ends
  <2>2. EndOf(k) = x + 1
    BY <2>1 DEF EndOf
  <2>3. ~ (k <= n)
    <3>1. SUFFICES ASSUME k <= n PROVE FALSE
      OBVIOUS
    <3>2. EndOf(k) <= EndOf(n)
      BY <1>1, <3>1, EndsAscend
    <3>3. QED BY <1>1, <2>2, <3>2
  <2>4. n + 1 \in 1 .. Len(SduEnds) /\ k \in n + 1 .. Len(SduEnds) /\ n < Len(SduEnds)
    BY <1>1, <2>3
  <2>5. x < EndOf(n + 1) /\ EndOf(n + 1) \in Nat
    BY <2>4, EndFacts DEF Passed
  <2>6. EndOf(n + 1) <= EndOf(k)
    BY <2>4, EndsAscend
  <2>7. EndOf(n + 1) = x + 1
    BY <2>2, <2>5, <2>6
  <2>8. ASSUME n + 1 < Len(SduEnds) PROVE x + 1 < EndOf((n + 1) + 1)
    <3>1. (n + 1) + 1 \in n + 1 .. Len(SduEnds) /\ n + 1 \in 0 .. Len(SduEnds) /\ n + 1 < (n + 1) + 1
      BY <1>1, <2>8
    <3>2. EndOf(n + 1) < EndOf((n + 1) + 1)
      BY <3>1, EndsAscend
    <3>3. QED BY <2>7, <3>2
  <2>9. QED BY <1>1, <1>2, <2>4, <2>7, <2>8 DEF Passed
<1>3. CASE x + 1 \notin Ends
  <2>1. ASSUME n < Len(SduEnds) PROVE x + 1 < EndOf(n + 1)
    <3>1. n + 1 \in 1 .. Len(SduEnds)
      BY <1>1, <2>1
    <3>2. EndOf(n + 1) = SduEnds[n + 1] /\ EndOf(n + 1) \in Nat
      BY <1>1, <3>1, EndFacts DEF EndOf
    <3>3. EndOf(n + 1) \in Ends
      <4>1. DOMAIN SduEnds = 1 .. Len(SduEnds)
        BY RlcAssumption, LenProperties
      <4>2. QED BY <3>1, <3>2, <4>1 DEF Ends
    <3>4. x < EndOf(n + 1)
      BY <2>1 DEF Passed
    <3>5. QED BY <1>3, <3>2, <3>3, <3>4
  <2>2. QED BY <1>1, <1>3, <2>1 DEF Passed
<1>4. QED BY <1>2, <1>3

\* What the receiver has put together when it has had x units in order, N SDUs of
\* which are complete.
Sdu(k) == Units(EndOf(k - 1) + 1, EndOf(k))
Sdus(n) == [k \in 1 .. n |-> Sdu(k)]
At(n, x) == [sdu |-> Units(EndOf(n) + 1, x), out |-> Sdus(n)]
Outputs == [sdu : Seq(Nat), out : Seq(Seq(Nat))]

LEMMA SdusFacts ==
  ASSUME NEW n \in 0 .. Len(SduEnds)
  PROVE  /\ Sdus(n) \in Seq(Seq(Nat)) /\ Len(Sdus(n)) = n /\ DOMAIN Sdus(n) = 1 .. n
         /\ \A k \in 1 .. n : Sdus(n)[k] = Sdu(k) /\ Sdu(k) \in Seq(Nat)
<1>1. n \in Nat
  BY EndFacts
<1>2. ASSUME NEW k \in 1 .. n PROVE Sdu(k) \in Seq(Nat)
  <2>1. k \in 1 .. Len(SduEnds) /\ k - 1 \in 0 .. Len(SduEnds) /\ k \in 0 .. Len(SduEnds)
    BY EndFacts
  <2>2. EndOf(k - 1) \in Nat /\ EndOf(k) \in Nat /\ EndOf(k - 1) <= EndOf(k)
    BY <2>1, EndFacts
  <2>3. QED BY <2>2, UnitsFacts DEF Sdu
<1> DEFINE q == [k \in 1 .. n |-> Sdu(k)]
<1>3. q \in Seq(Seq(Nat))
  BY <1>1, <1>2, IsASeq
<1>4. DOMAIN q = 1 .. n /\ \A k \in 1 .. n : q[k] = Sdu(k)
  OBVIOUS
<1> HIDE DEF q
<1>5. Len(q) \in Nat /\ DOMAIN q = 1 .. Len(q)
  BY <1>3, LenProperties
<1>6. Len(q) = n
  BY <1>1, <1>4, <1>5
<1>7. QED BY <1>2, <1>3, <1>4, <1>6 DEF q, Sdus

LEMMA SdusAppend ==
  ASSUME NEW n \in 0 .. Len(SduEnds) - 1
  PROVE  Append(Sdus(n), Sdu(n + 1)) = Sdus(n + 1)
<1>1. n \in 0 .. Len(SduEnds) /\ n + 1 \in 0 .. Len(SduEnds) /\ n + 1 \in 1 .. n + 1
  BY EndFacts
<1> DEFINE s == Sdus(n)
           t == Sdus(n + 1)
           e == Sdu(n + 1)
<1>2. /\ s \in Seq(Seq(Nat)) /\ Len(s) = n /\ \A k \in 1 .. n : s[k] = Sdu(k)
      /\ t \in Seq(Seq(Nat)) /\ Len(t) = n + 1 /\ \A k \in 1 .. n + 1 : t[k] = Sdu(k)
      /\ e \in Seq(Nat) /\ t[n + 1] = e
  BY <1>1, SdusFacts
<1> HIDE DEF s, t, e
<1>3. /\ Append(s, e) \in Seq(Seq(Nat)) /\ Len(Append(s, e)) = n + 1
      /\ \A k \in 1 .. n : Append(s, e)[k] = s[k]
      /\ Append(s, e)[n + 1] = e
  BY <1>2, AppendProperties
<1>4. ASSUME NEW k \in 1 .. n + 1 PROVE Append(s, e)[k] = t[k]
  <2>1. CASE k = n + 1
    BY <1>2, <1>3, <2>1
  <2>2. CASE k # n + 1
    <3>1. k \in 1 .. n
      BY <2>2
    <3>2. QED BY <1>2, <1>3, <3>1
  <2>3. QED BY <2>1, <2>2
<1>5. Append(s, e) = t
  BY <1>2, <1>3, <1>4, SeqEqual
<1>6. QED BY <1>5 DEF s, t, e

LEMMA AtFacts ==
  ASSUME NEW n, NEW x \in Nat, Passed(n, x)
  PROVE  At(n, x) \in Outputs
<1>1. n \in 0 .. Len(SduEnds) /\ EndOf(n) \in Nat /\ EndOf(n) <= x
  BY EndFacts DEF Passed
<1>2. Units(EndOf(n) + 1, x) \in Seq(Nat)
  BY <1>1, UnitsFacts
<1>3. Sdus(n) \in Seq(Seq(Nat))
  BY <1>1, SdusFacts
<1>4. QED BY <1>2, <1>3 DEF At, Outputs

\* The body of the loop in Deliver.
Take(rx, unit) ==
  IF unit \in Ends THEN [sdu |-> << >>, out |-> Append(rx.out, Append(rx.sdu, unit))]
                   ELSE [rx EXCEPT !.sdu = Append(@, unit)]

LEMMA TakeType ==
  ASSUME NEW rx \in Outputs, NEW unit \in Nat
  PROVE  Take(rx, unit) \in Outputs
<1>1. Append(rx.sdu, unit) \in Seq(Nat)
  BY AppendProperties DEF Outputs
<1>2. Append(rx.out, Append(rx.sdu, unit)) \in Seq(Seq(Nat))
  BY <1>1, AppendProperties DEF Outputs
<1>3. << >> \in Seq(Nat)
  BY EmptySeq
<1>4. QED BY <1>1, <1>2, <1>3 DEF Take, Outputs

LEMMA TakeNext ==
  ASSUME NEW n, NEW x \in Nat, Passed(n, x)
  PROVE  \E m : Passed(m, x + 1) /\ Take(At(n, x), x + 1) = At(m, x + 1)
<1>1. n \in 0 .. Len(SduEnds) /\ EndOf(n) \in Nat /\ EndOf(n) <= x /\ Len(SduEnds) \in Nat
  BY EndFacts DEF Passed
<1>2. Append(Units(EndOf(n) + 1, x), x + 1) = Units(EndOf(n) + 1, x + 1)
  BY <1>1, UnitsAppend
<1>3. CASE x + 1 \in Ends
  <2>1. Passed(n + 1, x + 1) /\ EndOf(n + 1) = x + 1
    BY <1>3, PassedNext
  <2>2. n \in 0 .. Len(SduEnds) - 1 /\ (n + 1) - 1 = n
    BY <1>1, <2>1 DEF Passed
  <2>3. Sdu(n + 1) = Units(EndOf(n) + 1, x + 1)
    BY <2>1, <2>2 DEF Sdu
  <2>4. Append(Sdus(n), Sdu(n + 1)) = Sdus(n + 1)
    BY <2>2, SdusAppend
  <2>5. Units((x + 1) + 1, x + 1) = << >>
    BY NoUnits
  <2>6. Take(At(n, x), x + 1) = At(n + 1, x + 1)
    BY <1>2, <1>3, <2>1, <2>3, <2>4, <2>5 DEF Take, At
  <2>7. QED BY <2>1, <2>6
<1>4. CASE x + 1 \notin Ends
  <2>1. Passed(n, x + 1)
    BY <1>4, PassedNext
  <2>2. Take(At(n, x), x + 1) = At(n, x + 1)
    BY <1>2, <1>4 DEF Take, At
  <2>3. QED BY <2>1, <2>2
<1>5. QED BY <1>3, <1>4

LEMMA DeliverIter ==
  ASSUME NEW data
  PROVE  Deliver(data) =
           LET it == CHOOSE it : it = [S \in SUBSET DOMAIN data |->
                                         IF S = {} THEN [sdu |-> rx_sdu, out |-> delivered]
                                         ELSE Take(it[S \ {Max(S)}], data[Max(S)])]
           IN  it[DOMAIN data]
BY DEF Deliver, FoldLeft, MapThenFoldSet, Take

\* The units from x to y: what was put together up to x becomes what has been put
\* together up to y.
LEMMA DeliverFacts ==
  ASSUME NEW n, NEW x \in Nat, NEW y \in Nat, x <= y, Passed(n, x),
         rx_sdu = At(n, x).sdu, delivered = At(n, x).out
  PROVE  \E m : Passed(m, y) /\ Deliver(Units(x + 1, y)) = At(m, y)
<1> DEFINE data == Units(x + 1, y)
           len == y - x
           base == [sdu |-> rx_sdu, out |-> delivered]
           D == 1 .. len
           G == [p \in Outputs \X D |-> Take(p[1], data[p[2]])]
           P == [k \in 0 .. len |-> {At(m, x + k) : m \in {l \in 0 .. Len(SduEnds) : Passed(l, x + k)}}]
           Loop(h) == h = [S \in SUBSET D |-> IF S = {} THEN base ELSE Take(h[S \ {Max(S)}], data[Max(S)])]
<1>1. len \in Nat /\ DOMAIN data = D /\ \A k \in D : data[k] = x + k /\ data[k] \in Nat
  <2>1. DOMAIN data = D /\ \A k \in D : data[k] = x + k
    <3> HIDE DEF data
    <3>1. DOMAIN data = 1 .. y - x /\ \A k \in 1 .. y - x : data[k] = x + k
      BY UnitsFacts DEF data
    <3>2. QED BY <3>1
  <2> HIDE DEF data
  <2>2. len \in Nat /\ \A k \in D : x + k \in Nat
    OBVIOUS
  <2>3. QED BY <2>1, <2>2
<1>2. base = At(n, x) /\ base \in Outputs
  <2>1. base = At(n, x)
    BY DEF At
  <2>2. QED BY <2>1, AtFacts
<1>3. G \in [Outputs \X D -> Outputs] /\ \A w \in Outputs, k \in D : G[<<w, k>>] = Take(w, data[k])
  <2>1. \A p \in Outputs \X D : Take(p[1], data[p[2]]) \in Outputs
    BY <1>1, TakeType
  <2>2. QED BY <2>1
<1>4. base \in P[0]
  <2>1. x + 0 = x /\ 0 \in 0 .. len
    BY <1>1
  <2>2. n \in {l \in 0 .. Len(SduEnds) : Passed(l, x + 0)}
    BY <2>1 DEF Passed
  <2>3. QED BY <1>2, <2>1, <2>2
<1>5. ASSUME NEW k \in D, NEW w \in Outputs, w \in P[k - 1] PROVE G[<<w, k>>] \in P[k]
  <2>1. k - 1 \in 0 .. len /\ x + (k - 1) \in Nat /\ (x + (k - 1)) + 1 = x + k /\ k \in 0 .. len
    BY <1>1
  <2>2. PICK l \in 0 .. Len(SduEnds) : Passed(l, x + (k - 1)) /\ w = At(l, x + (k - 1))
    BY <1>5, <2>1
  <2>3. PICK m : Passed(m, x + k) /\ Take(w, x + k) = At(m, x + k)
    <3> DEFINE z == x + (k - 1)
    <3>1. z \in Nat /\ z + 1 = x + k /\ Passed(l, z) /\ w = At(l, z)
      BY <2>1, <2>2
    <3> HIDE DEF z
    <3>2. \E m : Passed(m, z + 1) /\ Take(At(l, z), z + 1) = At(m, z + 1)
      BY <3>1, TakeNext
    <3>3. QED BY <3>1, <3>2
  <2>4. m \in 0 .. Len(SduEnds)
    BY <2>3 DEF Passed
  <2>5. G[<<w, k>>] = Take(w, x + k)
    BY <1>1, <1>3
  <2>6. QED BY <2>1, <2>3, <2>4, <2>5
<1> HIDE DEF data, len, base, G, P
<1>6. \E h : Loop(h)
  <2>1. PICK g \in [SUBSET D -> Outputs] : \A S \in SUBSET D : g[S] = Turn(G, base, g, S)
    <3>1. Body(len, Outputs, base, G)
      BY <1>1, <1>2, <1>3 DEF Body
    <3>2. PICK g : Outcome(len, Outputs, base, G, g)
      BY <3>1, FoldExists
    <3>3. QED BY <3>2 DEF Outcome
  <2>2. ASSUME NEW S \in SUBSET D, S # {}
        PROVE  Turn(G, base, g, S) = Take(g[S \ {Max(S)}], data[Max(S)])
    <3>1. Max(S) \in D /\ S \ {Max(S)} \in SUBSET D
      BY <1>1, <2>2, MaxFacts
    <3>2. g[S \ {Max(S)}] \in Outputs
      BY <2>1, <3>1
    <3>3. QED BY <1>3, <2>2, <3>1, <3>2 DEF Turn
  <2>3. \A S \in SUBSET D : Turn(G, base, g, S)
                              = IF S = {} THEN base ELSE Take(g[S \ {Max(S)}], data[Max(S)])
    BY <2>2 DEF Turn
  <2>4. Loop(g)
    BY <2>1, <2>3
  <2>5. QED BY <2>4
<1>7. PICK h : Loop(h) /\ Deliver(data) = h[D]
  <2>1. Deliver(data) = (CHOOSE h : Loop(h))[D]
    BY <1>1, DeliverIter DEF base
  <2> HIDE DEF Loop
  <2>2. QED BY <1>6, <2>1
<1>8. h[D] \in P[len]
  <2>1. h[{}] = base
    BY <1>7
  <2>2. ASSUME NEW S \in SUBSET D, S # {}, h[S \ {Max(S)}] \in Outputs
        PROVE  h[S] = G[<<h[S \ {Max(S)}], Max(S)>>]
    <3>1. Max(S) \in D
      BY <1>1, <2>2, MaxFacts
    <3>2. h[S] = Take(h[S \ {Max(S)}], data[Max(S)])
      BY <1>7, <2>2
    <3>3. QED BY <1>3, <2>2, <3>1, <3>2
  <2> HIDE DEF Loop
  <2>3. Reaches(len, Outputs, base, G, h, P)
    BY <1>1, <1>2, <1>3, <1>4, <1>5, <2>1, <2>2 DEF Reaches, Body
  <2>4. QED BY <2>3, FoldReaches
<1>9. x + len = y /\ len \in 0 .. len
  BY <1>1 DEF len
<1>10. h[D] \in {At(m, y) : m \in {l \in 0 .. Len(SduEnds) : Passed(l, y)}}
  BY <1>8, <1>9 DEF P
<1>11. QED BY <1>7, <1>10 DEF data

-----------------------------------------------------------------------------
(***************************************************************************)
(* How the stream has been cut: PDU i carries the units after b[i] up to   *)
(* b[i + 1], whatever becomes of it.                                       *)
(***************************************************************************)
Cut(s, b) ==
  /\ s \in Nat /\ b \in [0 .. s -> Nat] /\ b[0] = 0
  /\ \A i \in 0 .. s - 1 : b[i] < b[i + 1]
Data(b, i) == Units(b[i] + 1, b[i + 1])

LEMMA CutAscends ==
  ASSUME NEW s, NEW b, Cut(s, b), NEW i \in 0 .. s, NEW j \in i .. s
  PROVE  b[i] \in Nat /\ b[j] \in Nat /\ b[i] <= b[j]
<1> DEFINE n == s - i
           G == {k \in 0 .. n : b[i] <= b[i + k]}
<1>1. n \in Nat /\ s \in Nat /\ b[i] \in Nat /\ b[j] \in Nat
  BY DEF Cut
<1>2. 0 \in G
  BY <1>1
<1>3. ASSUME NEW k \in 0 .. n - 1, k \in G PROVE k + 1 \in G
  <2>1. i + k \in 0 .. s - 1 /\ i + (k + 1) = (i + k) + 1 /\ i + k \in 0 .. s /\ (i + k) + 1 \in 0 .. s
    BY <1>1
  <2>2. b[i + k] < b[(i + k) + 1] /\ b[i + k] \in Nat /\ b[(i + k) + 1] \in Nat
    BY <2>1 DEF Cut
  <2>3. b[i] <= b[i + k]
    BY <1>3
  <2>4. b[i] <= b[i + (k + 1)]
    BY <1>1, <2>1, <2>2, <2>3
  <2>5. k + 1 \in 0 .. n
    BY <1>1
  <2>6. QED BY <2>4, <2>5
<1>4. j - i \in 0 .. n
  BY <1>1
<1>5. j - i \in G
  <2> HIDE DEF G, n
  <2>1. QED BY <1>1, <1>2, <1>3, <1>4, CountUp
<1>6. i + (j - i) = j
  BY <1>1
<1>7. QED BY <1>1, <1>5, <1>6

LEMMA DataFacts ==
  ASSUME NEW s, NEW b, Cut(s, b), NEW i \in 0 .. s - 1
  PROVE  /\ b[i] \in Nat /\ b[i + 1] \in Nat /\ b[i] < b[i + 1] /\ b[i + 1] <= b[s]
         /\ Data(b, i) \in Seq(Nat) /\ Len(Data(b, i)) = b[i + 1] - b[i]
         /\ Len(Data(b, i)) \in Nat \ {0}
<1>1. s \in Nat /\ i + 1 \in 0 .. s /\ i \in 0 .. s /\ s \in i + 1 .. s
  BY DEF Cut
<1>2. b[i] \in Nat /\ b[i + 1] \in Nat /\ b[i] < b[i + 1]
  BY <1>1 DEF Cut
<1>3. b[i + 1] <= b[s]
  BY <1>1, CutAscends
<1>4. Data(b, i) \in Seq(Nat) /\ Len(Data(b, i)) = b[i + 1] - b[i] /\ b[i + 1] - b[i] \in Nat \ {0}
  <2> DEFINE x == b[i]
             y == b[i + 1]
  <2>1. x \in Nat /\ y \in Nat /\ x <= y /\ x < y
    BY <1>2
  <2> HIDE DEF x, y
  <2>2. Units(x + 1, y) \in Seq(Nat) /\ Len(Units(x + 1, y)) = y - x
    BY <2>1, UnitsFacts
  <2>3. y - x \in Nat \ {0}
    BY <2>1
  <2>4. QED BY <2>2, <2>3 DEF Data, x, y
<1>5. QED BY <1>2, <1>3, <1>4

\* A unit that has been cut off is in one of the PDUs.
LEMMA InSomePdu ==
  ASSUME NEW s, NEW b, Cut(s, b), NEW lo \in 0 .. s, NEW u \in Nat, b[lo] < u, u <= b[s]
  PROVE  \E i \in lo .. s - 1 : b[i] < u /\ u <= b[i + 1]
<1> DEFINE R == {i \in 0 .. s : i > lo /\ u <= b[i]}
<1>1. s \in Nat /\ s \in Int /\ lo \in Nat /\ b[lo] \in Nat /\ b[s] \in Nat
  BY DEF Cut
<1>2. s \in R
  <2>1. s # lo
    BY <1>1
  <2>2. QED BY <1>1, <2>1
<1>3. PICK j \in R : \A k \in R : j <= k
  <2>1. R \in SUBSET (0 .. s)
    OBVIOUS
  <2> HIDE DEF R
  <2>2. QED BY <1>1, <1>2, <2>1, IntervalLeast
<1>4. j - 1 \in lo .. s - 1 /\ (j - 1) + 1 = j /\ u <= b[j] /\ j - 1 \in 0 .. s
  BY <1>1, <1>3
<1>5. b[j - 1] < u
  <2>1. CASE j - 1 = lo
    BY <2>1
  <2>2. CASE j - 1 # lo
    <3>1. j - 1 > lo /\ ~ (j <= j - 1)
      BY <1>1, <1>4, <2>2
    <3>2. j - 1 \notin R
      BY <1>3, <3>1
    <3>3. ~ (u <= b[j - 1]) /\ b[j - 1] \in Nat
      BY <1>4, <3>1, <3>2 DEF Cut
    <3>4. QED BY <3>3
  <2>3. QED BY <2>1, <2>2
<1>6. QED BY <1>4, <1>5

Joined(q) ==
  LET flatten == CHOOSE flatten : flatten = [i \in 1 .. Len(q) |->
                                    IF i = 1 THEN q[i] ELSE flatten[i - 1] \o q[i]]
  IN  flatten[Len(q)]

LEMMA FlattenIter ==
  ASSUME NEW q
  PROVE  FlattenSeq(q) = IF Len(q) = 0 THEN q ELSE Joined(q)
BY DEF FlattenSeq, Joined

\* PDUs that follow each other, put together.
LEMMA Flattened ==
  ASSUME NEW s, NEW b, Cut(s, b), NEW lo \in 0 .. s, NEW n \in 0 .. s - lo,
         NEW q \in Seq(Seq(Nat)), Len(q) = n,
         \A k \in 1 .. n : q[k] = Data(b, lo + k - 1)
  PROVE  FlattenSeq(q) = Units(b[lo] + 1, b[lo + n])
<1> DEFINE E == [k \in 1 .. n |-> Units(b[lo] + 1, b[lo + k])]
           Loop(h) == h = [k \in 1 .. n |-> IF k = 1 THEN q[k] ELSE h[k - 1] \o q[k]]
<1>1. s \in Nat /\ lo \in Nat /\ n \in Nat /\ b[lo] \in Nat
  BY DEF Cut
<1>2. CASE n = 0
  <2>1. q = << >>
    BY <1>2, EmptySeq
  <2>2. lo + n = lo
    BY <1>1, <1>2
  <2>3. QED BY <1>1, <1>2, <2>1, <2>2, FlattenIter, NoUnits
<1>3. CASE n # 0
  <2>1. ASSUME NEW k \in 2 .. n PROVE E[k] = E[k - 1] \o q[k]
    <3>1. k \in 1 .. n /\ k - 1 \in 1 .. n /\ lo + k - 1 = lo + (k - 1) /\ (lo + (k - 1)) + 1 = lo + k
      BY <1>1
    <3>2. q[k] = Units(b[lo + (k - 1)] + 1, b[lo + k])
      BY <3>1 DEF Data
    <3>3. lo + (k - 1) \in lo .. s /\ lo + k \in lo + (k - 1) .. s /\ lo + (k - 1) \in 0 .. s
      BY <1>1
    <3>4. b[lo] <= b[lo + (k - 1)] /\ b[lo + (k - 1)] \in Nat
      BY <3>3, CutAscends
    <3>5. b[lo + (k - 1)] <= b[lo + k] /\ b[lo + k] \in Nat
      BY <3>3, CutAscends
    <3>6. Units(b[lo] + 1, b[lo + (k - 1)]) \o Units(b[lo + (k - 1)] + 1, b[lo + k])
            = Units(b[lo] + 1, b[lo + k])
      BY <1>1, <3>4, <3>5, UnitsConcat
    <3>7. E[k - 1] = Units(b[lo] + 1, b[lo + (k - 1)]) /\ E[k] = Units(b[lo] + 1, b[lo + k])
      BY <3>1
    <3>8. QED BY <3>2, <3>6, <3>7
  <2>2. E[1] = q[1] /\ 1 \in 1 .. n
    <3>1. 1 \in 1 .. n /\ lo + 1 - 1 = lo
      BY <1>1, <1>3
    <3>2. q[1] = Units(b[lo] + 1, b[lo + 1])
      BY <3>1 DEF Data
    <3>3. QED BY <3>1, <3>2
  <2>3. Loop(E)
    <3>1. \A k \in 1 .. n : E[k] = IF k = 1 THEN q[k] ELSE E[k - 1] \o q[k]
      <4>1. TAKE k \in 1 .. n
      <4>2. CASE k = 1
        BY <2>2, <4>2
      <4>3. CASE k # 1
        <5>1. k \in 2 .. n
          BY <4>3
        <5>2. QED BY <2>1, <4>3, <5>1
      <4>4. QED BY <4>2, <4>3
    <3>2. E = [k \in 1 .. n |-> E[k]]
      OBVIOUS
    <3> HIDE DEF E
    <3>3. QED BY <3>1, <3>2
  <2>4. PICK h : Loop(h) /\ FlattenSeq(q) = h[n]
    <3>1. FlattenSeq(q) = (CHOOSE h : Loop(h))[n]
      BY <1>3, FlattenIter DEF Joined
    <3>2. \E h : Loop(h)
      BY <2>3
    <3> HIDE DEF Loop
    <3>3. QED BY <3>1, <3>2
  <2>5. \A k \in 0 .. n : k \in {l \in 0 .. n : l = 0 \/ h[l] = E[l]}
    <3> DEFINE Same == {l \in 0 .. n : l = 0 \/ h[l] = E[l]}
    <3>1. 0 \in Same
      BY <1>1
    <3>2. ASSUME NEW k \in 0 .. n - 1, k \in Same PROVE k + 1 \in Same
      <4>1. k + 1 \in 1 .. n /\ k + 1 \in 0 .. n /\ (k + 1) - 1 = k
        BY <1>1
      <4>2. h[k + 1] = IF k + 1 = 1 THEN q[k + 1] ELSE h[(k + 1) - 1] \o q[k + 1]
        BY <2>4, <4>1
      <4>3. E[k + 1] = IF k + 1 = 1 THEN q[k + 1] ELSE E[(k + 1) - 1] \o q[k + 1]
        <5> HIDE DEF E
        <5>1. QED BY <2>3, <4>1
      <4> HIDE DEF E
      <4>4. k + 1 # 1 => h[k] = E[k]
        BY <3>2
      <4>5. h[k + 1] = E[k + 1]
        BY <4>1, <4>2, <4>3, <4>4
      <4>6. QED BY <4>1, <4>5
    <3> HIDE DEF Same, E
    <3>3. \A k \in 0 .. n : k \in Same
      BY <1>1, <3>1, <3>2, CountUp
    <3>4. QED BY <3>3 DEF Same
  <2>6. h[n] = E[n] /\ n \in 1 .. n
    <3>1. n \in 0 .. n /\ n \in 1 .. n
      BY <1>1, <1>3
    <3> HIDE DEF E
    <3>2. QED BY <1>3, <2>5, <3>1
  <2>7. E[n] = Units(b[lo] + 1, b[lo + n])
    BY <2>6
  <2>8. QED BY <2>4, <2>6, <2>7
<1>4. QED BY <1>2, <1>3

-----------------------------------------------------------------------------
(***************************************************************************)
(* Sequences.                                                              *)
(***************************************************************************)
LEMMA Retyped ==
  ASSUME NEW S, NEW T, NEW q \in Seq(S), \A k \in 1 .. Len(q) : q[k] \in T
  PROVE  q \in Seq(T)
<1>1. Len(q) \in Nat /\ DOMAIN q = 1 .. Len(q) /\ q \in [1 .. Len(q) -> S]
  BY LenProperties
<1>2. q \in [1 .. Len(q) -> T]
  BY <1>1
<1>3. QED BY <1>1, <1>2, SeqDef

LEMMA RemoveAtFacts ==
  ASSUME NEW S, NEW q \in Seq(S), NEW k \in 1 .. Len(q)
  PROVE  /\ RemoveAt(q, k) \in Seq(S) /\ Len(RemoveAt(q, k)) = Len(q) - 1
         /\ \A j \in 1 .. Len(q) - 1 : RemoveAt(q, k)[j] = IF j < k THEN q[j] ELSE q[j + 1]
<1> DEFINE u == SubSeq(q, 1, k - 1)
           w == SubSeq(q, k + 1, Len(q))
           n == Len(q)
<1>1. n \in Nat /\ \A j \in 1 .. n : q[j] \in S
  BY LenProperties, ElementOfSeq
<1>2. u \in Seq(S) /\ Len(u) = k - 1 /\ \A j \in 1 .. k - 1 : u[j] = q[j]
  <2>1. 1 \in Int /\ k - 1 \in Int /\ \A j \in 1 .. k - 1 : q[j] \in S
    BY <1>1
  <2>2. /\ u \in Seq(S) /\ Len(u) = (IF 1 <= k - 1 THEN (k - 1) - 1 + 1 ELSE 0)
        /\ \A j \in 1 .. (k - 1) - 1 + 1 : u[j] = q[1 + j - 1]
    BY <2>1, SubSeqProperties
  <2> HIDE DEF u
  <2>3. \A j \in 1 .. k - 1 : 1 + j - 1 = j
    OBVIOUS
  <2>4. QED BY <2>2, <2>3
<1>3. w \in Seq(S) /\ Len(w) = n - k /\ \A j \in 1 .. n - k : w[j] = q[k + j]
  <2>1. k + 1 \in Int /\ n \in Int /\ \A j \in k + 1 .. n : q[j] \in S
    BY <1>1
  <2>2. /\ w \in Seq(S) /\ Len(w) = (IF k + 1 <= n THEN n - (k + 1) + 1 ELSE 0)
        /\ \A j \in 1 .. n - (k + 1) + 1 : w[j] = q[(k + 1) + j - 1]
    BY <2>1, SubSeqProperties
  <2> HIDE DEF w, n
  <2>3. \A j \in 1 .. n - k : (k + 1) + j - 1 = k + j
    BY <1>1
  <2>4. n - (k + 1) + 1 = n - k /\ k <= n
    BY <1>1 DEF n
  <2>5. QED BY <1>1, <2>2, <2>3, <2>4
<1> HIDE DEF u, w
<1>4. RemoveAt(q, k) = u \o w
  BY DEF RemoveAt, u, w
<1>5. /\ u \o w \in Seq(S) /\ Len(u \o w) = Len(u) + Len(w)
      /\ \A j \in 1 .. Len(u) + Len(w) : (u \o w)[j] = IF j <= Len(u) THEN u[j] ELSE w[j - Len(u)]
  BY <1>2, <1>3, ConcatProperties
<1>6. ASSUME NEW j \in 1 .. n - 1 PROVE (u \o w)[j] = IF j < k THEN q[j] ELSE q[j + 1]
  <2>1. (u \o w)[j] = IF j <= k - 1 THEN u[j] ELSE w[j - (k - 1)]
    BY <1>1, <1>2, <1>3, <1>5
  <2>2. CASE j < k
    BY <1>2, <2>1, <2>2
  <2>3. CASE ~ (j < k)
    <3>1. j - (k - 1) \in 1 .. n - k /\ k + (j - (k - 1)) = j + 1 /\ ~ (j <= k - 1)
      BY <1>1, <2>3
    <3>2. w[j - (k - 1)] = q[j + 1]
      BY <1>3, <3>1
    <3>3. QED BY <2>1, <2>3, <3>1, <3>2
  <2>4. QED BY <2>2, <2>3
<1>7. Len(u \o w) = n - 1
  BY <1>1, <1>2, <1>3, <1>5
<1>8. QED BY <1>4, <1>5, <1>6, <1>7 DEF n

LEMMA InsertAtFacts ==
  ASSUME NEW S, NEW q \in Seq(S), NEW k \in 1 .. Len(q) + 1, NEW e \in S
  PROVE  InsertAt(q, k, e) \in Seq(S) /\ InsertAt(q, k, e) # << >>
<1> DEFINE u == SubSeq(q, 1, k - 1)
           w == SubSeq(q, k, Len(q))
<1>1. Len(q) \in Nat /\ \A j \in 1 .. Len(q) : q[j] \in S
  BY LenProperties, ElementOfSeq
<1>2. u \in Seq(S)
  <2>1. 1 \in Int /\ k - 1 \in Int /\ \A j \in 1 .. k - 1 : q[j] \in S
    BY <1>1
  <2>2. QED BY <2>1, SubSeqProperties
<1>3. w \in Seq(S)
  <2>1. k \in Int /\ Len(q) \in Int /\ \A j \in k .. Len(q) : q[j] \in S
    BY <1>1
  <2>2. QED BY <2>1, SubSeqProperties
<1> HIDE DEF u, w
<1>4. Append(u, e) \in Seq(S) /\ Append(u, e) # << >> /\ Append(u, e) = u \o <<e>>
  BY <1>2, AppendProperties, AppendIsConcat
<1>5. InsertAt(q, k, e) = Append(u, e) \o w
  BY <1>4 DEF InsertAt, u, w
<1>6. QED BY <1>3, <1>4, <1>5, ConcatProperties, ConcatEqualIffEmpty

\* How many positions of a sequence have a property.
LEMMA CountPositions ==
  ASSUME NEW n \in Nat, NEW K \in SUBSET (1 .. n)
  PROVE  Cardinality(K) \in 0 .. n
<1>1. IsFiniteSet(1 .. n) /\ Cardinality(1 .. n) = n
  BY FS_Interval
<1>2. IsFiniteSet(K) /\ Cardinality(K) <= Cardinality(1 .. n)
  BY <1>1, FS_Subset, Zenon
<1>3. Cardinality(K) \in Nat
  BY <1>2, FS_CardinalityType
<1>4. QED BY <1>1, <1>2, <1>3

-----------------------------------------------------------------------------
(***************************************************************************)
(* Segments.                                                               *)
(***************************************************************************)
\* SEG is a part of PDU i, and is marked as the last one if it is.
SegOk(seg, b, i) ==
  /\ Len(seg.data) > 0 /\ seg.so + Len(seg.data) <= Len(Data(b, i))
  /\ seg.data = Units(b[i] + seg.so + 1, b[i] + seg.so + Len(seg.data))
  /\ seg.lsf <=> seg.so + Len(seg.data) = Len(Data(b, i))

Segs == [so : Nat, data : Seq(Nat), lsf : BOOLEAN]
Parts(b, i) == {seg \in Segs : SegOk(seg, b, i)}

LEMMA InsertFacts ==
  ASSUME NEW S, NEW list \in Seq(S), NEW seg \in S
  PROVE  Insert(list, seg) \in Seq(S) /\ Insert(list, seg) # << >>
<1> DEFINE same == {k \in DOMAIN list : list[k].so = seg.so}
           K == {k \in DOMAIN list : list[k].so < seg.so}
           less == Cardinality(K)
           new == [k \in DOMAIN list |->
                     IF k \in same /\ Len(seg.data) > Len(list[k].data) THEN seg ELSE list[k]]
<1>1. Len(list) \in Nat /\ DOMAIN list = 1 .. Len(list) /\ \A k \in 1 .. Len(list) : list[k] \in S
  BY LenProperties, ElementOfSeq
<1>2. less + 1 \in 1 .. Len(list) + 1
  <2>1. K \in SUBSET (1 .. Len(list))
    BY <1>1
  <2> HIDE DEF K
  <2>2. less \in 0 .. Len(list)
    BY <1>1, <2>1, CountPositions
  <2> HIDE DEF less
  <2>3. QED BY <1>1, <2>2
<1>3. InsertAt(list, less + 1, seg) \in Seq(S) /\ InsertAt(list, less + 1, seg) # << >>
  <2> HIDE DEF less
  <2> DEFINE k == less + 1
  <2>1. k \in 1 .. Len(list) + 1
    BY <1>2
  <2> HIDE DEF k
  <2>2. InsertAt(list, k, seg) \in Seq(S) /\ InsertAt(list, k, seg) # << >>
    BY <2>1, InsertAtFacts
  <2>3. QED BY <2>2 DEF k
<1>4. same # {} => new \in Seq(S) /\ new # << >>
  <2>1. SUFFICES ASSUME same # {} PROVE new \in Seq(S) /\ new # << >>
    OBVIOUS
  <2>2. new \in [1 .. Len(list) -> S]
    BY <1>1
  <2>3. new \in Seq(S)
    BY <1>1, <2>2, SeqDef
  <2>4. DOMAIN new # {}
    BY <2>1
  <2>5. DOMAIN << >> = {}
    BY EmptySeq, LenProperties
  <2> HIDE DEF new
  <2>6. QED BY <2>3, <2>4, <2>5
<1>5. Insert(list, seg) = IF same = {} THEN InsertAt(list, less + 1, seg) ELSE new
  BY DEF Insert
<1> HIDE DEF same, less, new
<1>6. QED BY <1>3, <1>4, <1>5

\* The body of the loop in Walk.
Step(w, seg) ==
  LET end == seg.so + Len(seg.data)
  IN  IF w.gap \/ w.so < seg.so
      THEN [w EXCEPT !.gap = TRUE, !.list = Append(@, seg)]
      ELSE IF end <= w.so THEN w
      ELSE [gap |-> FALSE, so |-> end, list |-> Append(w.list, seg),
            data |-> w.data \o SubSeq(seg.data, w.so - seg.so + 1, Len(seg.data))]
Start == [gap |-> FALSE, so |-> 0, list |-> << >>, data |-> << >>]
Walks(b, i) == [gap : BOOLEAN, so : Nat, list : Seq(Parts(b, i)), data : Seq(Nat)]

LEMMA WalkIter ==
  ASSUME NEW list
  PROVE  Walk(list) =
           LET it == CHOOSE it : it = [S \in SUBSET DOMAIN list |->
                                         IF S = {} THEN Start
                                         ELSE Step(it[S \ {Max(S)}], list[Max(S)])]
           IN  it[DOMAIN list]
BY DEF Walk, FoldLeft, MapThenFoldSet, Step, Start

\* The walk has gathered the first w.so units of PDU i, and while it has met no
\* gap, the last segment it keeps reaches as far.
WalkOk(w, b, i) ==
  /\ w.so <= Len(Data(b, i)) /\ w.data = Units(b[i] + 1, b[i] + w.so)
  /\ IF w.list = << >> THEN ~w.gap /\ w.so = 0
     ELSE w.gap \/ w.so = Last(w.list).so + Len(Last(w.list).data)

\* The part of a segment that follows what is there.
Overlaps(a, so, o, h) ==
  a \in Nat /\ so \in Nat /\ o \in Nat /\ h \in Nat /\ o <= so /\ so < o + h

Extended(a, so, o, h) ==
  Units(a + 1, a + so) \o SubSeq(Units(a + o + 1, a + o + h), so - o + 1, h)

LEMMA Overlap ==
  ASSUME NEW a, NEW so, NEW o, NEW h, Overlaps(a, so, o, h)
  PROVE  Extended(a, so, o, h) = Units(a + 1, a + (o + h))
<1> DEFINE x == a + o
           y == x + h
           lo == so - o
           m == a + so
<1>1. x \in Nat /\ y \in Nat /\ x <= y /\ lo \in Nat /\ lo <= h /\ h <= y - x
  BY DEF Overlaps
<1>2. m \in Nat /\ a <= m /\ m <= y /\ x + lo = m /\ x + h = y /\ a + (o + h) = y
  BY DEF Overlaps
<1> HIDE DEF x, y, lo, m
<1>3. SubSeq(Units(x + 1, y), lo + 1, h) = Units(x + lo + 1, x + h)
  <2>1. Within(x, y, lo, h)
    BY <1>1, <1>2 DEF Overlaps, Within
  <2>2. QED BY <2>1, UnitsSub
<1>4. Units(a + 1, m) \o Units(m + 1, y) = Units(a + 1, y)
  BY <1>1, <1>2, UnitsConcat DEF Overlaps
<1>5. Units(a + 1, m) \o SubSeq(Units(x + 1, y), lo + 1, h) = Units(a + 1, y)
  <2>1. x + lo + 1 = m + 1 /\ x + h = y
    BY <1>1, <1>2
  <2>2. Units(x + lo + 1, x + h) = Units(m + 1, y)
    BY <2>1, Zenon
  <2>3. QED BY <1>3, <1>4, <2>2, Zenon
<1>6. Units(a + 1, m) \o SubSeq(Units(x + 1, y), lo + 1, h) = Units(a + 1, a + (o + h))
  BY <1>2, <1>5, Zenon
<1>7. QED BY <1>6 DEF x, y, lo, m, Extended

LEMMA NewPart ==
  ASSUME NEW s, NEW b, Cut(s, b), NEW i \in 0 .. s - 1, NEW seg \in Parts(b, i),
         NEW w \in Walks(b, i), WalkOk(w, b, i), seg.so <= w.so, w.so < seg.so + Len(seg.data)
  PROVE  w.data \o SubSeq(seg.data, w.so - seg.so + 1, Len(seg.data))
           = Units(b[i] + 1, b[i] + (seg.so + Len(seg.data)))
<1> DEFINE a == b[i]
           h == Len(seg.data)
           o == seg.so
           so == w.so
<1>1. a \in Nat /\ so \in Nat /\ o \in Nat /\ h \in Nat /\ o <= so /\ so < o + h
  BY DataFacts, LenProperties DEF Walks, Parts, Segs
<1>2. seg.data = Units(a + o + 1, a + o + h) /\ w.data = Units(a + 1, a + so)
  <2>1. SegOk(seg, b, i)
    BY DEF Parts
  <2>2. QED BY <2>1, Zenon DEF SegOk, WalkOk
<1> HIDE DEF a, h, o, so
<1>3. Overlaps(a, so, o, h)
  BY <1>1, Zenon DEF Overlaps
<1>4. Extended(a, so, o, h) = Units(a + 1, a + (o + h))
  BY <1>3, Overlap
<1>5. Extended(a, so, o, h) = w.data \o SubSeq(seg.data, so - o + 1, h)
  BY <1>2, Zenon DEF Extended
<1>6. QED BY <1>4, <1>5, Zenon DEF a, h, o, so

LEMMA StepFacts ==
  ASSUME NEW s, NEW b, Cut(s, b), NEW i \in 0 .. s - 1, NEW seg \in Parts(b, i),
         NEW w \in Walks(b, i), WalkOk(w, b, i)
  PROVE  Step(w, seg) \in Walks(b, i) /\ WalkOk(Step(w, seg), b, i) /\ Step(w, seg).list # << >>
<1> DEFINE v == Step(w, seg)
           list == Append(w.list, seg)
           end == seg.so + Len(seg.data)
           more == w.data \o SubSeq(seg.data, w.so - seg.so + 1, Len(seg.data))
<1>1. /\ w.gap \in BOOLEAN /\ w.so \in Nat /\ w.list \in Seq(Parts(b, i)) /\ w.data \in Seq(Nat)
      /\ seg.so \in Nat /\ seg.data \in Seq(Nat) /\ Len(seg.data) \in Nat /\ end \in Nat
  BY LenProperties DEF Walks, Parts, Segs
<1>2. list \in Seq(Parts(b, i)) /\ list # << >> /\ Last(list) = seg
  <2>1. /\ list \in Seq(Parts(b, i)) /\ Len(list) = Len(w.list) + 1 /\ list # << >>
        /\ list[Len(w.list) + 1] = seg
    <3> DEFINE T == Parts(b, i)
               l == w.list
    <3>1. l \in Seq(T) /\ seg \in T
      BY <1>1
    <3> HIDE DEF T, l
    <3>2. /\ Append(l, seg) \in Seq(T) /\ Len(Append(l, seg)) = Len(l) + 1
          /\ Append(l, seg) # << >> /\ Append(l, seg)[Len(l) + 1] = seg
      BY <3>1, AppendProperties
    <3>3. QED BY <3>2 DEF T, l
  <2>2. QED BY <2>1 DEF Last
<1>3. SegOk(seg, b, i) /\ end <= Len(Data(b, i))
  BY DEF Parts, SegOk
<1>4. Len(Data(b, i)) \in Nat /\ b[i] \in Nat
  BY DataFacts
<1> HIDE DEF list
<1>5. CASE w.gap \/ w.so < seg.so
  <2>1. v = [w EXCEPT !.gap = TRUE, !.list = list]
    BY <1>5 DEF Step, list
  <2>2. w = [gap |-> w.gap, so |-> w.so, list |-> w.list, data |-> w.data]
    BY DEF Walks
  <2>3. v = [gap |-> TRUE, so |-> w.so, list |-> list, data |-> w.data]
    BY <2>1, <2>2
  <2> HIDE DEF v
  <2>4. v \in Walks(b, i)
    BY <1>1, <1>2, <2>3 DEF Walks
  <2>5. WalkOk(v, b, i) /\ v.list # << >>
    BY <1>2, <2>3 DEF WalkOk
  <2>6. QED BY <2>4, <2>5 DEF v
<1>6. CASE ~ (w.gap \/ w.so < seg.so) /\ end <= w.so
  <2>1. v = w
    BY <1>6 DEF Step
  <2>2. w.list # << >>
    <3>1. Len(seg.data) > 0
      BY <1>3 DEF SegOk
    <3>2. w.so # 0
      BY <1>1, <1>6, <3>1
    <3>3. QED BY <3>2 DEF WalkOk
  <2>3. QED BY <2>1, <2>2
<1>7. CASE ~ (w.gap \/ w.so < seg.so) /\ ~ (end <= w.so)
  <2>1. v = [gap |-> FALSE, so |-> end, list |-> list, data |-> more]
    BY <1>7 DEF Step, list
  <2>2. more = Units(b[i] + 1, b[i] + end)
    <3>1. seg.so <= w.so /\ w.so < seg.so + Len(seg.data)
      BY <1>1, <1>7
    <3>2. QED BY <3>1, NewPart
  <2>3. Units(b[i] + 1, b[i] + end) \in Seq(Nat)
    <3> DEFINE x == b[i]
               y == x + end
    <3>1. x \in Nat /\ y \in Nat /\ x <= y
      BY <1>1, <1>4
    <3> HIDE DEF x, y
    <3>2. Units(x + 1, y) \in Seq(Nat)
      BY <3>1, UnitsFacts
    <3>3. QED BY <3>2 DEF x, y
  <2> HIDE DEF v, more
  <2>4. v \in Walks(b, i)
    <3>1. more \in Seq(Nat)
      BY <2>2, <2>3
    <3>2. QED BY <1>1, <1>2, <2>1, <3>1 DEF Walks
  <2>5. WalkOk(v, b, i) /\ v.list # << >>
    BY <1>2, <1>3, <2>1, <2>2 DEF WalkOk
  <2>6. QED BY <2>4, <2>5 DEF v
<1>8. QED BY <1>5, <1>6, <1>7

\* What a walk along segments of PDU i finds: without a gap, up to the segment
\* that is marked as the last one, they make up the PDU.
LEMMA WalkFacts ==
  ASSUME NEW s, NEW b, Cut(s, b), NEW i \in 0 .. s - 1,
         NEW list \in Seq(Parts(b, i)), list # << >>
  PROVE  /\ Walk(list).list \in Seq(Parts(b, i))
         /\ ~Walk(list).gap /\ Last(Walk(list).list).lsf => Walk(list).data = Data(b, i)
<1> DEFINE n == Len(list)
           D == 1 .. n
           V == {w \in Walks(b, i) : WalkOk(w, b, i)}
           G == [p \in V \X D |-> Step(p[1], list[p[2]])]
           P == [k \in 0 .. n |-> IF k = 0 THEN V ELSE {w \in V : w.list # << >>}]
           Loop(h) == h = [S \in SUBSET D |-> IF S = {} THEN Start ELSE Step(h[S \ {Max(S)}], list[Max(S)])]
<1>1. n \in Nat \ {0} /\ DOMAIN list = D /\ \A k \in D : list[k] \in Parts(b, i)
  BY LenProperties, ElementOfSeq, EmptySeq
<1>2. Start \in V
  <2>1. b[i] \in Nat /\ Len(Data(b, i)) \in Nat
    BY DataFacts
  <2>2. Units(b[i] + 1, b[i] + 0) = << >>
    <3>1. b[i] + 0 = b[i]
      BY <2>1
    <3>2. QED BY <2>1, <3>1, NoUnits
  <2>3. << >> \in Seq(Nat) /\ << >> \in Seq(Parts(b, i))
    BY EmptySeq
  <2>4. Start \in Walks(b, i)
    BY <2>3 DEF Walks, Start
  <2>5. WalkOk(Start, b, i)
    BY <2>1, <2>2 DEF WalkOk, Start
  <2>6. QED BY <2>4, <2>5
<1>3. ASSUME NEW w \in V, NEW k \in D
      PROVE  Step(w, list[k]) \in V /\ Step(w, list[k]).list # << >>
  BY <1>1, StepFacts
<1>4. G \in [V \X D -> V] /\ \A w \in V, k \in D : G[<<w, k>>] = Step(w, list[k])
  <2>1. \A p \in V \X D : Step(p[1], list[p[2]]) \in V
    BY <1>3
  <2> HIDE DEF V, D
  <2>2. QED BY <2>1
<1>5. Start \in P[0] /\ \A k \in D : P[k] = {w \in V : w.list # << >>}
  BY <1>1, <1>2
<1> HIDE DEF D, n, V, G, P
<1>6. \E h : Loop(h)
  <2>1. PICK g \in [SUBSET D -> V] : \A S \in SUBSET D : g[S] = Turn(G, Start, g, S)
    <3>1. Body(n, V, Start, G)
      BY <1>1, <1>2, <1>4 DEF Body, D
    <3>2. PICK g : Outcome(n, V, Start, G, g)
      BY <3>1, FoldExists
    <3>3. QED BY <3>2 DEF Outcome, D
  <2>2. ASSUME NEW S \in SUBSET D, S # {}
        PROVE  Turn(G, Start, g, S) = Step(g[S \ {Max(S)}], list[Max(S)])
    <3>1. Max(S) \in D /\ S \ {Max(S)} \in SUBSET D
      BY <1>1, <2>2, MaxFacts DEF D
    <3>2. g[S \ {Max(S)}] \in V
      BY <2>1, <3>1
    <3>3. QED BY <1>4, <2>2, <3>1, <3>2 DEF Turn
  <2>3. \A S \in SUBSET D : Turn(G, Start, g, S)
                              = IF S = {} THEN Start ELSE Step(g[S \ {Max(S)}], list[Max(S)])
    BY <2>2 DEF Turn
  <2>4. Loop(g)
    BY <2>1, <2>3
  <2>5. QED BY <2>4
<1>7. PICK h : Loop(h) /\ Walk(list) = h[D]
  <2>1. Walk(list) = (CHOOSE h : Loop(h))[D]
    BY <1>1, WalkIter
  <2> HIDE DEF Loop
  <2>2. QED BY <1>6, <2>1
<1>8. h[D] \in P[n]
  <2>1. h[{}] = Start
    BY <1>7
  <2>2. ASSUME NEW S \in SUBSET D, S # {}, h[S \ {Max(S)}] \in V
        PROVE  h[S] = G[<<h[S \ {Max(S)}], Max(S)>>]
    <3>1. Max(S) \in D
      BY <1>1, <2>2, MaxFacts DEF D
    <3>2. h[S] = Step(h[S \ {Max(S)}], list[Max(S)])
      BY <1>7, <2>2
    <3>3. QED BY <1>4, <2>2, <3>1, <3>2
  <2> HIDE DEF Loop
  <2>3. \A k \in D : \A w \in V : G[<<w, k>>] \in P[k]
    BY <1>3, <1>4, <1>5
  <2>4. Reaches(n, V, Start, G, h, P)
    BY <1>1, <1>2, <1>4, <1>5, <2>1, <2>2, <2>3 DEF Reaches, Body, D
  <2>5. QED BY <2>4, FoldReaches DEF D
<1>9. h[D] \in V /\ h[D].list # << >>
  <2>1. n \in D
    BY <1>1 DEF D
  <2>2. QED BY <1>5, <1>8, <2>1
<1> DEFINE w == h[D]
<1>10. w \in Walks(b, i) /\ WalkOk(w, b, i) /\ w.list # << >> /\ Walk(list) = w
  BY <1>7, <1>9 DEF V
<1> HIDE DEF w
<1>11. w.list \in Seq(Parts(b, i))
  BY <1>10 DEF Walks
<1>12. ASSUME ~w.gap, Last(w.list).lsf PROVE w.data = Data(b, i)
  <2>1. Last(w.list) \in Parts(b, i)
    <3>1. Len(w.list) \in Nat /\ Len(w.list) # 0
      BY <1>10, <1>11, LenProperties, EmptySeq
    <3>2. Len(w.list) \in 1 .. Len(w.list)
      BY <3>1
    <3>3. QED BY <1>11, <3>2, ElementOfSeq DEF Last
  <2>2. w.so = Last(w.list).so + Len(Last(w.list).data)
    BY <1>10, <1>12 DEF WalkOk
  <2>3. w.so = Len(Data(b, i))
    BY <1>12, <2>1, <2>2 DEF Parts, SegOk
  <2>4. b[i] + Len(Data(b, i)) = b[i + 1]
    <3> DEFINE x == b[i]
               y == b[i + 1]
    <3>1. x \in Nat /\ y \in Nat /\ Len(Data(b, i)) = y - x
      BY DataFacts
    <3> HIDE DEF x, y
    <3>2. x + Len(Data(b, i)) = y
      BY <3>1
    <3>3. QED BY <3>2 DEF x, y
  <2>5. w.data = Units(b[i] + 1, b[i] + w.so)
    BY <1>10 DEF WalkOk
  <2>6. QED BY <2>3, <2>4, <2>5 DEF Data
<1>13. QED BY <1>10, <1>11, <1>12

-----------------------------------------------------------------------------
(***************************************************************************)
(* The inductive invariant.  It speaks of numbers the program does not     *)
(* keep: the PDUs outstanding are those from a on, the receiver waits for  *)
(* PDU r, the next one to be sent is s, and b says how the stream has been *)
(* cut.  It ends when a status that was overtaken misleads the sender.     *)
(***************************************************************************)
Edges(a, r, s) ==
  a \in Nat /\ r \in Nat /\ s \in Nat /\ a <= r /\ r <= s /\ s <= a + Window

\* A window, seen as the PDUs it holds.
Holds(window, lo, hi, b) ==
  \A sn \in DOMAIN window : \E i \in lo .. hi - 1 : sn = SN(i) /\ window[sn] = Data(b, i)

\* An entry of retx_queue is a PDU of the last Window ones, or what is left of it.
\* When the window is full it is one of those outstanding.
RetxRecords == [sn : SNs, is_segment : BOOLEAN, so_start : Nat, so_end : Nat]
RetxOk(retx, i, s, b) ==
  /\ s - Window <= i /\ retx.sn = SN(i)
  /\ retx.so_end = Len(Data(b, i)) /\ retx.so_start < retx.so_end
  /\ retx.is_segment \/ retx.so_start = 0
Retxs(a, s, b) ==
  {retx \in RetxRecords : /\ \E i \in 0 .. s - 1 : RetxOk(retx, i, s, b)
                          /\ s = a + Window => \E i \in a .. s - 1 : retx.sn = SN(i)}

TxOk(a, s, b) ==
  /\ vt_a = SN(a) /\ vt_s = SN(s)
  /\ written \in 0 .. Len(SduEnds) /\ moved = b[s] /\ moved <= EndOf(written)
  /\ DOMAIN tx_window = {SN(i) : i \in a .. s - 1} /\ Holds(tx_window, a, s, b)
  /\ retx_queue \in Seq(Retxs(a, s, b))

\* A PDU on the air is one of the last Window ones, or a part of one.
PduRecords == [sn : SNs, rf : BOOLEAN, so : Nat, lsf : BOOLEAN, p : BOOLEAN, data : Seq(Nat)]
PduOk(pdu, i, s, b) ==
  /\ s - Window <= i /\ pdu.sn = SN(i)
  /\ IF pdu.rf THEN SegOk(pdu, b, i) ELSE pdu.data = Data(b, i)
Pdus(s, b) == {pdu \in PduRecords : \E i \in 0 .. s - 1 : PduOk(pdu, i, s, b)}

AirOk(s, b) == air \in Seq(Pdus(s, b))

\* What a status on the air does not name as missing has arrived, up to what it
\* acknowledges, unless the sender has passed that.
StatusRecords == [nacks : SUBSET SNs, ack_sn : SNs, late : BOOLEAN]
StatusOk(status, a, r, s) ==
  \E e \in a .. s : /\ status.ack_sn = SN(e)
                    /\ \A i \in r .. e - 1 : SN(i) \in status.nacks \cup DOMAIN rx_window
StatusesOk(a, r, s) ==
  /\ statuses \in Seq(StatusRecords)
  /\ \A k \in 1 .. Len(statuses) : statuses[k].late \/ StatusOk(statuses[k], a, r, s)

\* The segments kept under an SN are parts of one PDU.
SegmentsOk(segments, r, s, b) ==
  \A sn \in DOMAIN segments :
    segments[sn] = << >> \/ \E i \in r .. s - 1 : sn = SN(i) /\ segments[sn] \in Seq(Parts(b, i))

RxOk(r, s, b) ==
  /\ vr_r = SN(r) /\ Holds(rx_window, r + 1, s, b) /\ SegmentsOk(rx_segments, r, s, b)
  /\ \E n : Passed(n, b[r]) /\ rx_sdu = At(n, b[r]).sdu /\ delivered = At(n, b[r]).out

Inv(a, r, s, b) ==
  /\ Edges(a, r, s) /\ Cut(s, b)
  /\ TxOk(a, s, b) /\ AirOk(s, b) /\ StatusesOk(a, r, s)
  /\ RxOk(r, s, b)
RlcInv == misled \/ \E a, r, s, b : Inv(a, r, s, b)

-----------------------------------------------------------------------------
\* The windows are smaller than half of the sequence numbers.
LEMMA OnePdu ==
  ASSUME NEW s \in Nat, NEW i \in Int, NEW j \in Int, s - Window <= i, i <= s,
         s - Window <= j, j <= s, SN(i) = SN(j)
  PROVE  i = j
<1>1. Window \in Nat /\ MOD = Window + Window /\ Window > 0
  BY Sizes
<1>2. i - j < MOD /\ j - i < MOD
  BY <1>1
<1>3. QED BY <1>2, SnDiffers

\* The number of the PDU under an SN of a window.
LEMMA HeldPdu ==
  ASSUME NEW window, NEW lo \in Nat, NEW s \in Nat, NEW b, Holds(window, lo, s, b), s - Window <= lo,
         NEW i \in Int, s - Window <= i, i <= s, SN(i) \in DOMAIN window
  PROVE  i \in lo .. s - 1 /\ window[SN(i)] = Data(b, i)
<1>1. PICK j \in lo .. s - 1 : SN(i) = SN(j) /\ window[SN(i)] = Data(b, j)
  BY DEF Holds
<1>2. j \in Int /\ s - Window <= j /\ j <= s
  BY Sizes
<1>3. i = j
  BY <1>1, <1>2, OnePdu
<1>4. QED BY <1>1, <1>3

\* InSequence stops at the first SN that is not in the window.
LEMMA InSequenceFacts ==
  ASSUME NEW window, NEW e \in Int, NEW gap \in Int, e <= gap, gap - e <= MOD,
         SN(gap) \notin DOMAIN window
  PROVE  /\ InSequence(window, SN(e)) \in 0 .. gap - e
         /\ \A k \in 0 .. InSequence(window, SN(e)) - 1 : SN(e + k) \in DOMAIN window
         /\ SN(e + InSequence(window, SN(e))) \notin DOMAIN window
<1> DEFINE Gaps == {k \in 0 .. MOD : SN(e + k) \notin DOMAIN window}
           Is(n) == (\A k \in 0 .. n - 1 : Up(SN(e), k) \in DOMAIN window) /\ Up(SN(e), n) \notin DOMAIN window
<1>1. MOD \in Int /\ MOD \in Nat
  BY Sizes
<1>2. gap - e \in Gaps
  <2>1. e + (gap - e) = gap /\ gap - e \in 0 .. MOD
    BY <1>1
  <2>2. QED BY <2>1
<1>3. PICK m \in Gaps : \A k \in Gaps : m <= k
  <2>1. Gaps \in SUBSET (0 .. MOD) /\ Gaps # {}
    BY <1>2
  <2> HIDE DEF Gaps
  <2>2. QED BY <1>1, <2>1, IntervalLeast
<1>4. \A k \in 0 .. MOD : Up(SN(e), k) = SN(e + k)
  BY UpSn
<1>5. m \in 0 .. MOD /\ Is(m)
  <2>1. m \in 0 .. MOD /\ SN(e + m) \notin DOMAIN window
    OBVIOUS
  <2>2. ASSUME NEW k \in 0 .. m - 1 PROVE Up(SN(e), k) \in DOMAIN window
    <3>1. k \in 0 .. MOD /\ ~ (m <= k)
      BY <1>1, <2>1
    <3>2. k \notin Gaps
      BY <1>3, <3>1
    <3>3. QED BY <1>4, <3>1, <3>2
  <2>3. QED BY <1>4, <2>1, <2>2
<1> DEFINE n == InSequence(window, SN(e))
<1>6. n \in 0 .. MOD /\ Is(n)
  <2>1. n = CHOOSE l \in 0 .. MOD : Is(l)
    BY DEF InSequence
  <2> HIDE DEF Is, n
  <2>2. QED BY <1>5, <2>1
<1>7. SN(e + n) \notin DOMAIN window /\ \A k \in 0 .. n - 1 : SN(e + k) \in DOMAIN window
  <2> HIDE DEF n
  <2>1. \A k \in 0 .. n - 1 : k \in 0 .. MOD
    BY <1>1, <1>6
  <2>2. QED BY <1>4, <1>6, <2>1
<1>8. n <= gap - e
  <2>1. SUFFICES ASSUME ~ (n <= gap - e) PROVE FALSE
    OBVIOUS
  <2> HIDE DEF n
  <2>2. gap - e \in 0 .. n - 1 /\ e + (gap - e) = gap
    BY <1>1, <1>6, <2>1
  <2>3. QED BY <1>7, <2>2
<1> HIDE DEF n, Is
<1>9. n \in 0 .. gap - e
  BY <1>6, <1>8
<1>10. QED BY <1>7, <1>9 DEF n

-----------------------------------------------------------------------------
(***************************************************************************)
(* The transmitting side.                                                  *)
(***************************************************************************)
LEMMA Retransmissible ==
  ASSUME NEW a, NEW r, NEW s, NEW b, Edges(a, r, s), Cut(s, b), TxOk(a, s, b), NEW sn \in DOMAIN tx_window
  PROVE  WholeRetx(sn) \in Retxs(a, s, b)
<1>1. PICK i \in a .. s - 1 : sn = SN(i) /\ tx_window[sn] = Data(b, i)
  BY DEF TxOk, Holds
<1>2. i \in 0 .. s - 1 /\ s - Window <= i /\ i \in Int
  BY Sizes DEF Edges
<1> DEFINE n == Len(Data(b, i))
<1>3. n \in Nat \ {0}
  BY <1>2, DataFacts
<1>4. sn \in SNs
  BY <1>1, <1>2, SnType
<1>5. WholeRetx(sn) = [sn |-> sn, is_segment |-> FALSE, so_start |-> 0, so_end |-> n]
  BY <1>1 DEF WholeRetx
<1>6. RetxOk(WholeRetx(sn), i, s, b)
  <2>1. 0 < n
    BY <1>3
  <2>2. QED BY <1>1, <1>2, <1>5, <2>1 DEF RetxOk
<1>7. WholeRetx(sn) \in RetxRecords
  BY <1>3, <1>4, <1>5 DEF RetxRecords
<1>8. WholeRetx(sn).sn = SN(i)
  BY <1>1, <1>5
<1>9. QED BY <1>1, <1>2, <1>6, <1>7, <1>8 DEF Retxs

LEMMA RequeueType ==
  ASSUME NEW X, NEW queue \in Seq(X), NEW sn, NEW nacks,
         \A n \in DOMAIN tx_window : WholeRetx(n) \in X
  PROVE  Requeue(queue, sn, nacks) \in Seq(X)
<1>1. CASE sn \in DOMAIN tx_window
  <2>1. Append(queue, WholeRetx(sn)) \in Seq(X)
    BY <1>1, AppendProperties
  <2>2. QED BY <2>1 DEF Requeue
<1>2. CASE sn \notin DOMAIN tx_window
  BY <1>2 DEF Requeue
<1>3. QED BY <1>1, <1>2

\* The loop over the SNs that a status looks at.
Requeued(flushed, visited, nacks) ==
  FoldLeft(LAMBDA queue, sn : Requeue(queue, sn, nacks), flushed, visited)

LEMMA RequeuedIter ==
  ASSUME NEW flushed, NEW visited, NEW nacks
  PROVE  Requeued(flushed, visited, nacks) =
           LET it == CHOOSE it : it = [S \in SUBSET DOMAIN visited |->
                                         IF S = {} THEN flushed
                                         ELSE Requeue(it[S \ {Max(S)}], visited[Max(S)], nacks)]
           IN  it[DOMAIN visited]
BY DEF Requeued, FoldLeft, MapThenFoldSet

LEMMA RequeuedType ==
  ASSUME NEW X, NEW flushed \in Seq(X), NEW n \in Nat, NEW visited, DOMAIN visited = 1 .. n, NEW nacks,
         \A sn \in DOMAIN tx_window : WholeRetx(sn) \in X
  PROVE  Requeued(flushed, visited, nacks) \in Seq(X)
<1> DEFINE D == 1 .. n
           V == Seq(X)
           G == [p \in V \X D |-> Requeue(p[1], visited[p[2]], nacks)]
           P == [k \in 0 .. n |-> V]
           Loop(h) == h = [S \in SUBSET D |->
                             IF S = {} THEN flushed ELSE Requeue(h[S \ {Max(S)}], visited[Max(S)], nacks)]
<1>1. G \in [V \X D -> V] /\ \A w \in V, k \in D : G[<<w, k>>] = Requeue(w, visited[k], nacks)
  <2>1. \A p \in V \X D : Requeue(p[1], visited[p[2]], nacks) \in V
    BY RequeueType
  <2> HIDE DEF V, D
  <2>2. QED BY <2>1
<1>2. flushed \in V /\ \A k \in 0 .. n : P[k] = V
  OBVIOUS
<1> HIDE DEF V, G, P
<1>3. \E h : Loop(h)
  <2>1. PICK g \in [SUBSET D -> V] : \A S \in SUBSET D : g[S] = Turn(G, flushed, g, S)
    <3>1. Body(n, V, flushed, G)
      BY <1>1, <1>2 DEF Body
    <3>2. PICK g : Outcome(n, V, flushed, G, g)
      BY <3>1, FoldExists
    <3>3. QED BY <3>2 DEF Outcome
  <2>2. ASSUME NEW S \in SUBSET D, S # {}
        PROVE  Turn(G, flushed, g, S) = Requeue(g[S \ {Max(S)}], visited[Max(S)], nacks)
    <3>1. Max(S) \in D /\ S \ {Max(S)} \in SUBSET D
      BY <2>2, MaxFacts
    <3>2. g[S \ {Max(S)}] \in V
      BY <2>1, <3>1
    <3>3. QED BY <1>1, <2>2, <3>1, <3>2 DEF Turn
  <2>3. \A S \in SUBSET D : Turn(G, flushed, g, S)
          = IF S = {} THEN flushed ELSE Requeue(g[S \ {Max(S)}], visited[Max(S)], nacks)
    BY <2>2 DEF Turn
  <2>4. Loop(g)
    BY <2>1, <2>3
  <2>5. QED BY <2>4
<1>4. PICK h : Loop(h) /\ Requeued(flushed, visited, nacks) = h[D]
  <2>1. Requeued(flushed, visited, nacks) = (CHOOSE h : Loop(h))[D]
    BY RequeuedIter
  <2> HIDE DEF Loop
  <2>2. QED BY <1>3, <2>1
<1>5. h[D] \in V
  <2>1. h[{}] = flushed
    BY <1>4
  <2>2. ASSUME NEW S \in SUBSET D, S # {}, h[S \ {Max(S)}] \in V
        PROVE  h[S] = G[<<h[S \ {Max(S)}], Max(S)>>]
    <3>1. Max(S) \in D
      BY <2>2, MaxFacts
    <3>2. h[S] = Requeue(h[S \ {Max(S)}], visited[Max(S)], nacks)
      BY <1>4, <2>2
    <3>3. QED BY <1>1, <2>2, <3>1, <3>2
  <2> HIDE DEF Loop
  <2>3. \A k \in D : \A w \in V : G[<<w, k>>] \in P[k]
    BY <1>1, <1>2
  <2>4. Body(n, V, flushed, G) /\ 0 \in 0 .. n
    BY <1>1, <1>2 DEF Body
  <2>5. flushed \in P[0]
    BY <1>2, <2>4
  <2>6. Reaches(n, V, flushed, G, h, P)
    BY <2>1, <2>2, <2>3, <2>4, <2>5 DEF Reaches
  <2>7. QED BY <2>6, FoldReaches
<1>6. QED BY <1>4, <1>5 DEF V

\* How many SNs handle_control_pdu takes as acknowledged: no more than up to the
\* PDU that the receiver waited for when it made the status.
Visited(status) == From(vt_a, Smaller(Base(status.ack_sn, vt_a), Base(vt_s, vt_a)))
Acked(status) ==
  CHOOSE n \in 0 .. Len(Visited(status)) :
    /\ \A k \in 1 .. n : Visited(status)[k] \notin status.nacks
    /\ n < Len(Visited(status)) => Visited(status)[n + 1] \in status.nacks

LEMMA AckedFacts ==
  ASSUME NEW a, NEW r, NEW s, Edges(a, r, s), vt_a = SN(a), vt_s = SN(s),
         NEW status \in StatusRecords
  PROVE  /\ Acked(status) \in 0 .. s - a
         /\ StatusOk(status, a, r, s) /\ SN(r) \notin DOMAIN rx_window => Acked(status) <= r - a
         /\ \E n \in Nat : DOMAIN Visited(status) = 1 .. n
         /\ \A k \in 1 .. Acked(status) : Visited(status)[k] = SN(a + (k - 1))
<1> DEFINE v == Visited(status)
           len == Smaller(Base(status.ack_sn, vt_a), s - a)
<1>1. a \in Nat /\ s \in Nat /\ r \in Nat /\ a <= r /\ r <= s /\ a <= s /\ s - a < MOD /\ MOD \in Nat
  BY Sizes DEF Edges
<1>2. status.ack_sn \in SNs /\ Base(status.ack_sn, vt_a) \in SNs
  BY <1>1, BaseReaches DEF StatusRecords
<1>3. Base(vt_s, vt_a) = s - a
  BY <1>1, BaseAhead
<1>4. len \in Nat /\ len <= s - a /\ len <= Base(status.ack_sn, vt_a)
  BY <1>1, <1>2, Sizes DEF Smaller
<1>5. v = [k \in 1 .. len |-> Up(SN(a), k - 1)]
  BY <1>3, Zenon DEF Visited, From
<1> HIDE DEF v, len
<1>6. \A k \in 1 .. len : v[k] = SN(a + (k - 1))
  <2>1. \A k \in 1 .. len : k - 1 \in Int
    BY <1>4
  <2>2. QED BY <1>1, <1>5, <2>1, UpSn
<1>7. Len(v) = len /\ DOMAIN v = 1 .. len
  <2>1. v \in Seq(SNs)
    <3>1. \A k \in 1 .. len : Up(SN(a), k - 1) \in SNs
      <4>1. \A k \in 1 .. len : k - 1 \in Int /\ a + (k - 1) \in Int
        BY <1>1, <1>4
      <4>2. QED BY <1>1, <4>1, UpSn, SnType
    <3> DEFINE w == [k \in 1 .. len |-> Up(SN(a), k - 1)]
    <3>2. w \in Seq(SNs)
      BY <1>4, <3>1, IsASeq
    <3>3. QED BY <1>5, <3>2
  <2>2. DOMAIN v = 1 .. len
    BY <1>5
  <2>3. DOMAIN v = 1 .. Len(v) /\ Len(v) \in Nat
    BY <2>1, LenProperties
  <2>4. QED BY <1>4, <2>2, <2>3
<1> DEFINE Is(n) == /\ \A k \in 1 .. n : v[k] \notin status.nacks
                    /\ n < len => v[n + 1] \in status.nacks
<1>8. \E n \in 0 .. len : Is(n)
  <2> DEFINE Stops == {n \in 0 .. len : n < len => v[n + 1] \in status.nacks}
  <2>1. Stops \in SUBSET (0 .. len) /\ len \in Stops /\ len \in Int
    BY <1>4
  <2>2. PICK m \in Stops : \A n \in Stops : m <= n
    <3> HIDE DEF Stops
    <3>1. QED BY <2>1, IntervalLeast
  <2>3. m \in 0 .. len /\ (m < len => v[m + 1] \in status.nacks)
    OBVIOUS
  <2>4. ASSUME NEW k \in 1 .. m PROVE v[k] \notin status.nacks
    <3>1. k - 1 \in 0 .. len /\ k - 1 < len /\ (k - 1) + 1 = k /\ ~ (m <= k - 1)
      BY <1>4, <2>3
    <3>2. k - 1 \notin Stops
      BY <2>2, <3>1
    <3>3. QED BY <3>1, <3>2
  <2>5. QED BY <2>3, <2>4
<1> DEFINE n == Acked(status)
<1>9. n \in 0 .. len /\ Is(n)
  <2>1. n = CHOOSE m \in 0 .. len : Is(m)
    BY <1>7 DEF Acked, v
  <2> HIDE DEF Is, n
  <2>2. QED BY <1>8, <2>1
<1> HIDE DEF n
<1>10. ASSUME StatusOk(status, a, r, s), SN(r) \notin DOMAIN rx_window PROVE n <= r - a
  <2>1. SUFFICES ASSUME ~ (n <= r - a) PROVE FALSE
    OBVIOUS
  <2>2. PICK e \in a .. s : /\ status.ack_sn = SN(e)
                            /\ \A i \in r .. e - 1 : SN(i) \in status.nacks \cup DOMAIN rx_window
    BY <1>10 DEF StatusOk
  <2>3. Base(status.ack_sn, vt_a) = e - a
    <3>1. e \in Int /\ a <= e /\ e - a < MOD
      BY <1>1
    <3>2. QED BY <1>1, <2>2, <3>1, BaseAhead
  <2>4. /\ (r - a) + 1 \in 1 .. n /\ (r - a) + 1 \in 1 .. len /\ a + (((r - a) + 1) - 1) = r
        /\ r \in r .. e - 1
    BY <1>1, <1>4, <1>9, <2>1, <2>3
  <2>5. v[(r - a) + 1] = SN(r)
    BY <1>6, <2>4
  <2>6. SN(r) \in status.nacks
    BY <1>10, <2>2, <2>4
  <2>7. QED BY <1>9, <2>4, <2>5, <2>6
<1>11. n \in 0 .. s - a /\ \A k \in 1 .. n : k \in 1 .. len
  BY <1>1, <1>4, <1>9
<1>12. \A k \in 1 .. n : v[k] = SN(a + (k - 1))
  BY <1>6, <1>11
<1>13. QED BY <1>4, <1>7, <1>10, <1>11, <1>12 DEF n, v

\* A status moves the lower edge, and one that is right moves it to where the
\* receiver is at most.
LEMMA HandleControlSafe ==
  ASSUME NEW a, NEW r, NEW s, NEW b, Edges(a, r, s), Cut(s, b), TxOk(a, s, b),
         NEW status \in StatusRecords, SN(r) \notin DOMAIN rx_window, HandleControl(status),
         UNCHANGED written
  PROVE  \E o \in a .. s : TxOk(o, s, b)' /\ (StatusOk(status, a, r, s) => o <= r)
<1> DEFINE n == Acked(status)
           v == Visited(status)
           nacks == status.nacks
           flushed == IF nacks # {} THEN << >> ELSE retx_queue
<1>1. a \in Nat /\ s \in Nat /\ a <= s /\ s <= a + Window /\ r \in Nat
  BY DEF Edges
<1>2. /\ n \in 0 .. s - a /\ \A k \in 1 .. n : v[k] = SN(a + (k - 1))
      /\ \E m \in Nat : DOMAIN v = 1 .. m
      /\ StatusOk(status, a, r, s) => n <= r - a
  <2>1. vt_a = SN(a) /\ vt_s = SN(s)
    BY DEF TxOk
  <2>2. QED BY <2>1, AckedFacts
<1>3. /\ tx_window' = [sn \in DOMAIN tx_window \ {v[k] : k \in 1 .. n} |-> tx_window[sn]]
      /\ vt_a' = Up(vt_a, n) /\ UNCHANGED <<moved, vt_s>>
      /\ retx_queue' = Requeued(flushed, v, nacks)
  BY Zenon DEF HandleControl, Acked, Visited, Requeued
<1> HIDE DEF n, v, flushed, nacks
<1>4. PICK o \in a .. s : o = a + n /\ o \in Nat
  BY <1>1, <1>2
<1>5. {v[k] : k \in 1 .. n} = {SN(i) : i \in a .. o - 1}
  <2>1. ASSUME NEW k \in 1 .. n PROVE \E i \in a .. o - 1 : v[k] = SN(i)
    <3>1. a + (k - 1) \in a .. o - 1
      BY <1>1, <1>2, <1>4
    <3>2. QED BY <1>2, <3>1
  <2>2. ASSUME NEW i \in a .. o - 1 PROVE \E k \in 1 .. n : SN(i) = v[k]
    <3>1. (i - a) + 1 \in 1 .. n /\ a + (((i - a) + 1) - 1) = i
      BY <1>1, <1>2, <1>4
    <3>2. v[(i - a) + 1] = SN(i)
      BY <1>2, <3>1
    <3>3. QED BY <3>1, <3>2
  <2>3. QED BY <2>1, <2>2
<1>6. DOMAIN tx_window' = {SN(i) : i \in o .. s - 1} /\ Holds(tx_window', o, s, b)
  <2>1. DOMAIN tx_window = {SN(i) : i \in a .. s - 1} /\ Holds(tx_window, a, s, b)
    BY DEF TxOk
  <2>2. DOMAIN tx_window' = {SN(i) : i \in a .. s - 1} \ {SN(i) : i \in a .. o - 1}
    BY <1>3, <1>5, <2>1
  <2>3. ASSUME NEW i \in a .. s - 1, SN(i) \notin {SN(j) : j \in a .. o - 1}
        PROVE  i \in o .. s - 1
    <3>1. i \notin a .. o - 1
      BY <2>3
    <3>2. QED BY <1>1, <1>4, <3>1
  <2>4. ASSUME NEW i \in o .. s - 1 PROVE i \in a .. s - 1 /\ SN(i) \notin {SN(j) : j \in a .. o - 1}
    <3>1. i \in a .. s - 1 /\ i \in Int /\ s - Window <= i /\ i <= s
      BY <1>1, <1>4, Sizes
    <3>2. ASSUME NEW j \in a .. o - 1 PROVE SN(i) # SN(j)
      <4>1. j \in Int /\ s - Window <= j /\ j <= s /\ i # j
        BY <1>1, <1>4, Sizes
      <4>2. QED BY <1>1, <3>1, <4>1, OnePdu
    <3>3. QED BY <3>1, <3>2
  <2>5. DOMAIN tx_window' = {SN(i) : i \in o .. s - 1}
    BY <2>2, <2>3, <2>4
  <2>6. ASSUME NEW sn \in DOMAIN tx_window'
        PROVE  \E i \in o .. s - 1 : sn = SN(i) /\ tx_window'[sn] = Data(b, i)
    <3>1. sn \in DOMAIN tx_window /\ tx_window'[sn] = tx_window[sn] /\ sn \notin {SN(j) : j \in a .. o - 1}
      BY <1>3, <1>5, <2>6
    <3>2. PICK i \in a .. s - 1 : sn = SN(i) /\ tx_window[sn] = Data(b, i)
      BY <2>1, <3>1 DEF Holds
    <3>3. i \in o .. s - 1
      BY <2>3, <3>1, <3>2
    <3>4. QED BY <3>1, <3>2, <3>3
  <2>7. QED BY <2>5, <2>6 DEF Holds
<1>7. vt_a' = SN(o) /\ vt_s' = SN(s)
  <2>1. Up(SN(a), n) = SN(a + n)
    BY <1>1, <1>2, UpSn
  <2>2. QED BY <1>3, <1>4, <2>1 DEF TxOk
<1>8. retx_queue' \in Seq(Retxs(o, s, b))
  <2>1. flushed \in Seq(Retxs(a, s, b))
    BY EmptySeq DEF flushed, TxOk
  <2>2. \A sn \in DOMAIN tx_window : WholeRetx(sn) \in Retxs(a, s, b)
    BY Retransmissible
  <2>3. retx_queue' \in Seq(Retxs(a, s, b))
    BY <1>2, <1>3, <2>1, <2>2, RequeuedType
  <2>4. Retxs(a, s, b) \subseteq Retxs(o, s, b)
    <3>1. CASE o = a
      BY <3>1
    <3>2. CASE o # a
      <4>1. s # o + Window
        BY <1>1, <1>4, <3>2, Sizes
      <4>2. QED BY <4>1 DEF Retxs
    <3>3. QED BY <3>1, <3>2
  <2>5. QED BY <2>3, <2>4, SeqMonotonic
<1>9. TxOk(o, s, b)'
  BY <1>3, <1>6, <1>7, <1>8 DEF TxOk
<1>10. StatusOk(status, a, r, s) => o <= r
  BY <1>1, <1>2, <1>4
<1>11. QED BY <1>9, <1>10

\* The window is full when it spans Window PDUs.
LEMMA FullFacts ==
  ASSUME NEW a, NEW r, NEW s, NEW b, Edges(a, r, s), TxOk(a, s, b)
  PROVE  Full <=> s = a + Window
<1>1. a \in Nat /\ s \in Nat /\ a <= s /\ s <= a + Window /\ Window \in Nat
  BY Sizes DEF Edges
<1> DEFINE I == a .. s - 1
           D == {SN(i) : i \in I}
           f == [i \in I |-> SN(i)]
<1>2. IsFiniteSet(I) /\ Cardinality(I) = s - a
  <2>1. /\ IsFiniteSet(I) /\ Cardinality(I) = IF a > s - 1 THEN 0 ELSE (s - 1) - a + 1
    BY <1>1, FS_Interval
  <2>2. QED BY <1>1, <2>1
<1>3. ASSUME NEW i \in I, NEW j \in I, f[i] = f[j] PROVE i = j
  <2>1. SN(i) = SN(j) /\ i \in Int /\ j \in Int /\ s - Window <= i /\ i <= s /\ s - Window <= j /\ j <= s
    BY <1>1, <1>3
  <2>2. QED BY <1>1, <2>1, OnePdu
<1>4. f \in Bijection(I, D)
  <2>1. f \in [I -> D] /\ \A t \in D : \E i \in I : f[i] = t
    OBVIOUS
  <2>2. f \in Injection(I, D)
    BY <1>3, <2>1 DEF Injection, IsInjective
  <2>3. f \in Surjection(I, D)
    BY <2>1 DEF Surjection
  <2>4. QED BY <2>2, <2>3 DEF Bijection
<1> HIDE DEF f
<1>5. Cardinality(D) = s - a
  <2>1. ExistsBijection(I, D)
    BY <1>4 DEF ExistsBijection
  <2>2. Cardinality(D) = Cardinality(I)
    <3> HIDE DEF D, I
    <3>1. QED BY <1>2, <2>1, FS_Bijection
  <2>3. QED BY <1>2, <2>2
<1>6. DOMAIN tx_window = D
  BY DEF TxOk
<1>7. Full <=> s - a >= Window
  BY <1>5, <1>6 DEF Full
<1>8. QED BY <1>1, <1>7

\* A further PDU is cut off the stream: what was known of the others stays true.
Longer(s, b, c) == \A i \in 0 .. s : c[i] = b[i]

LEMMA CutExtends ==
  ASSUME NEW s, NEW b, Cut(s, b), NEW upto \in Nat, b[s] < upto
  PROVE  \E c : Cut(s + 1, c) /\ c[s + 1] = upto /\ Longer(s, b, c)
<1> DEFINE c == [i \in 0 .. s + 1 |-> IF i <= s THEN b[i] ELSE upto]
<1>1. s \in Nat /\ b \in [0 .. s -> Nat] /\ b[0] = 0 /\ \A i \in 0 .. s - 1 : b[i] < b[i + 1]
  BY DEF Cut
<1>2. c \in [0 .. s + 1 -> Nat]
  BY <1>1
<1>3. c[s + 1] = upto /\ c[s] = b[s] /\ \A i \in 0 .. s : c[i] = b[i]
  BY <1>1
<1> HIDE DEF c
<1>4. ASSUME NEW i \in 0 .. (s + 1) - 1 PROVE c[i] < c[i + 1]
  <2>1. CASE i = s
    BY <1>1, <1>3, <2>1
  <2>2. CASE i # s
    <3>1. i \in 0 .. s - 1 /\ i \in 0 .. s /\ i + 1 \in 0 .. s
      BY <1>1, <2>2
    <3>2. QED BY <1>1, <1>3, <3>1
  <2>3. QED BY <2>1, <2>2
<1>5. c[0] = 0 /\ s + 1 \in Nat
  BY <1>1, <1>3
<1>6. QED BY <1>2, <1>3, <1>4, <1>5 DEF Cut, Longer

LEMMA LongerFacts ==
  ASSUME NEW s \in Nat, NEW b, NEW c, Longer(s, b, c), NEW i \in 0 .. s - 1
  PROVE  /\ Data(c, i) = Data(b, i) /\ Parts(c, i) = Parts(b, i)
         /\ \A seg : SegOk(seg, c, i) <=> SegOk(seg, b, i)
<1>1. i \in 0 .. s /\ i + 1 \in 0 .. s
  OBVIOUS
<1>2. c[i] = b[i] /\ c[i + 1] = b[i + 1]
  BY <1>1 DEF Longer
<1>3. Data(c, i) = Data(b, i)
  BY <1>2 DEF Data
<1>4. \A seg : SegOk(seg, c, i) <=> SegOk(seg, b, i)
  BY <1>2, <1>3 DEF SegOk
<1>5. QED BY <1>3, <1>4 DEF Parts

LEMMA HoldsLonger ==
  ASSUME NEW s \in Nat, NEW b, NEW c, Longer(s, b, c), NEW window, NEW lo \in Nat, Holds(window, lo, s, b)
  PROVE  Holds(window, lo, s + 1, c)
<1>1. ASSUME NEW sn \in DOMAIN window
      PROVE  \E i \in lo .. (s + 1) - 1 : sn = SN(i) /\ window[sn] = Data(c, i)
  <2>1. PICK i \in lo .. s - 1 : sn = SN(i) /\ window[sn] = Data(b, i)
    BY DEF Holds
  <2>2. i \in 0 .. s - 1 /\ i \in lo .. (s + 1) - 1
    OBVIOUS
  <2>3. QED BY <2>1, <2>2, LongerFacts
<1>2. QED BY <1>1 DEF Holds

LEMMA RxLonger ==
  ASSUME NEW a, NEW r, NEW s, NEW b, NEW c, Edges(a, r, s), Longer(s, b, c), RxOk(r, s, b)
  PROVE  RxOk(r, s + 1, c)
<1>1. r \in Nat /\ s \in Nat /\ r + 1 \in Nat /\ r \in 0 .. s
  BY DEF Edges
<1>2. Holds(rx_window, r + 1, s + 1, c)
  BY <1>1, HoldsLonger DEF RxOk
<1>3. ASSUME NEW sn \in DOMAIN rx_segments
      PROVE  rx_segments[sn] = << >>
             \/ \E i \in r .. (s + 1) - 1 : sn = SN(i) /\ rx_segments[sn] \in Seq(Parts(c, i))
  <2>1. SUFFICES ASSUME rx_segments[sn] # << >>
                 PROVE \E i \in r .. (s + 1) - 1 : sn = SN(i) /\ rx_segments[sn] \in Seq(Parts(c, i))
    OBVIOUS
  <2>2. PICK i \in r .. s - 1 : sn = SN(i) /\ rx_segments[sn] \in Seq(Parts(b, i))
    BY <2>1 DEF RxOk, SegmentsOk
  <2>3. i \in 0 .. s - 1 /\ i \in r .. (s + 1) - 1
    BY <1>1
  <2>4. Parts(c, i) = Parts(b, i)
    BY <1>1, <2>3, LongerFacts
  <2>5. QED BY <2>2, <2>3, <2>4
<1>4. SegmentsOk(rx_segments, r, s + 1, c)
  BY <1>3 DEF SegmentsOk
<1>5. c[r] = b[r]
  BY <1>1 DEF Longer
<1>6. QED BY <1>2, <1>4, <1>5 DEF RxOk

LEMMA StatusesLonger ==
  ASSUME NEW a, NEW r, NEW s, Edges(a, r, s), StatusesOk(a, r, s)
  PROVE  StatusesOk(a, r, s + 1)
<1>1. \A e \in a .. s : e \in a .. s + 1
  BY DEF Edges
<1>2. ASSUME NEW status, StatusOk(status, a, r, s) PROVE StatusOk(status, a, r, s + 1)
  BY <1>1, <1>2 DEF StatusOk
<1>3. QED BY <1>2 DEF StatusesOk

LEMMA PduLonger ==
  ASSUME NEW s \in Nat, NEW b, NEW c, Longer(s, b, c), NEW pdu \in Pdus(s, b),
         Base(SN(s), pdu.sn) < Window
  PROVE  pdu \in Pdus(s + 1, c)
<1>1. PICK i \in 0 .. s - 1 : PduOk(pdu, i, s, b)
  BY DEF Pdus
<1>2. s - Window <= i /\ pdu.sn = SN(i) /\ i \in Int /\ s \in Int /\ i <= s
  BY <1>1 DEF PduOk
<1>3. s - i < MOD
  BY <1>2, Sizes
<1>4. Base(SN(s), SN(i)) = s - i
  BY <1>2, <1>3, BaseAhead
<1>5. (s + 1) - Window <= i
  BY <1>2, <1>4, Sizes
<1>6. Data(c, i) = Data(b, i) /\ (SegOk(pdu, c, i) <=> SegOk(pdu, b, i))
  BY LongerFacts
<1>7. PduOk(pdu, i, s + 1, c)
  BY <1>1, <1>5, <1>6 DEF PduOk
<1>8. i \in 0 .. (s + 1) - 1 /\ pdu \in PduRecords
  BY DEF Pdus
<1>9. QED BY <1>7, <1>8 DEF Pdus

LEMMA PollBoolean ==
  ASSUME NEW timer, NEW early \in BOOLEAN, NEW n, NEW queue
  PROVE  PollRequired(timer, early, n, queue) \in BOOLEAN
BY DEF PollRequired

\* A new PDU is sent only while the window is not full.
LEMMA BuildDataSafe ==
  ASSUME NEW a, NEW r, NEW s, NEW b, Edges(a, r, s), Cut(s, b), TxOk(a, s, b), AirOk(s, b),
         s < a + Window, NEW timer, NEW size \in Nat \ {0}, NEW early \in BOOLEAN,
         BuildData(<< >>, timer, size, early), UNCHANGED written
  PROVE  \/ TxOk(a, s, b)' /\ AirOk(s, b)'
         \/ \E c : Cut(s + 1, c) /\ Longer(s, b, c) /\ TxOk(a, s + 1, c)' /\ AirOk(s + 1, c)'
<1>1. a \in Nat /\ s \in Nat /\ a <= s /\ s <= a + Window /\ Window \in Nat \ {0}
  BY Sizes DEF Edges
<1>2. /\ vt_a = SN(a) /\ vt_s = SN(s) /\ written \in 0 .. Len(SduEnds) /\ moved = b[s]
      /\ moved <= EndOf(written) /\ DOMAIN tx_window = {SN(i) : i \in a .. s - 1}
      /\ Holds(tx_window, a, s, b)
  BY DEF TxOk
<1>3. moved \in Nat /\ EndOf(written) \in Nat
  <2>1. b[s] \in Nat
    BY <1>1 DEF Cut
  <2>2. QED BY <1>2, <2>1, EndFacts
<1>4. retx_queue' = << >>
  BY DEF BuildData
<1>5. CASE ~ (moved < EndOf(written) /\ (TxSdu \/ ~Full))
  <2>1. UNCHANGED <<air, moved, vt_a, vt_s, tx_window>>
    BY <1>5 DEF BuildData
  <2>2. << >> \in Seq(Retxs(a, s, b))
    BY EmptySeq
  <2>3. TxOk(a, s, b)'
    BY <1>2, <1>4, <2>1, <2>2 DEF TxOk
  <2>4. AirOk(s, b)'
    BY <2>1 DEF AirOk
  <2>5. QED BY <2>3, <2>4
<1>6. CASE moved < EndOf(written) /\ (TxSdu \/ ~Full)
  <2> DEFINE upto == Smaller(moved + size, EndOf(written))
             data == Units(moved + 1, upto)
             poll == PollRequired(timer, early, QueueLen(upto), << >>)
             pdu == [sn |-> vt_s, rf |-> FALSE, so |-> 0, lsf |-> FALSE, p |-> poll, data |-> data]
  <2>1. /\ \A k \in DOMAIN air : Base(vt_s, air[k].sn) < Window
        /\ air' = Append(air, pdu)
        /\ tx_window' = [sn \in DOMAIN tx_window \cup {vt_s} |-> IF sn = vt_s THEN data ELSE tx_window[sn]]
        /\ vt_s' = Up(vt_s, 1) /\ moved' = upto /\ UNCHANGED vt_a
    BY <1>6, Zenon DEF BuildData
  <2>2. upto \in Nat /\ moved < upto /\ upto <= EndOf(written)
    BY <1>3, <1>6 DEF Smaller
  <2> HIDE DEF upto
  <2>3. PICK c : Cut(s + 1, c) /\ c[s + 1] = upto /\ Longer(s, b, c)
    BY <1>2, <2>2, CutExtends
  <2>4. c[s] = moved /\ Data(c, s) = data
    BY <1>1, <1>2, <2>3 DEF Longer, Data
  <2>5. data \in Seq(Nat)
    BY <1>3, <2>2, UnitsFacts
  <2>6. poll \in BOOLEAN
    BY PollBoolean
  <2>7. SN(s) \in SNs /\ SN(s + 1) = Up(SN(s), 1)
    BY <1>1, SnType, UpSn
  <2> HIDE DEF data, poll
  <2>8. pdu \in Pdus(s + 1, c)
    <3>1. pdu \in PduRecords
      BY <1>2, <2>5, <2>6, <2>7 DEF PduRecords
    <3>2. PduOk(pdu, s, s + 1, c)
      <4>1. (s + 1) - Window <= s
        BY <1>1
      <4>2. QED BY <1>2, <2>4, <4>1 DEF PduOk
    <3>3. s \in 0 .. (s + 1) - 1
      BY <1>1
    <3> HIDE DEF pdu
    <3>4. QED BY <3>1, <3>2, <3>3 DEF Pdus
  <2> HIDE DEF pdu
  <2>9. AirOk(s + 1, c)'
    <3>1. air \in Seq(Pdus(s, b)) /\ DOMAIN air = 1 .. Len(air)
      BY LenProperties DEF AirOk
    <3>2. ASSUME NEW k \in 1 .. Len(air) PROVE air[k] \in Pdus(s + 1, c)
      <4>1. air[k] \in Pdus(s, b) /\ Base(SN(s), air[k].sn) < Window
        BY <1>2, <2>1, <3>1, ElementOfSeq
      <4>2. QED BY <1>1, <2>3, <4>1, PduLonger
    <3>3. air \in Seq(Pdus(s + 1, c))
      BY <3>1, <3>2, Retyped
    <3>4. air' \in Seq(Pdus(s + 1, c))
      BY <2>1, <2>8, <3>3, AppendProperties
    <3>5. QED BY <3>4 DEF AirOk
  <2>10. DOMAIN tx_window' = {SN(i) : i \in a .. (s + 1) - 1}
    <3>1. DOMAIN tx_window' = {SN(i) : i \in a .. s - 1} \cup {SN(s)}
      BY <1>2, <2>1
    <3>2. a .. (s + 1) - 1 = (a .. s - 1) \cup {s}
      BY <1>1
    <3>3. QED BY <3>1, <3>2
  <2>11. Holds(tx_window', a, s + 1, c)
    <3>1. Holds(tx_window, a, s + 1, c)
      BY <1>1, <1>2, <2>3, HoldsLonger
    <3>2. s \in a .. (s + 1) - 1
      BY <1>1
    <3>3. ASSUME NEW sn \in DOMAIN tx_window'
          PROVE  \E i \in a .. (s + 1) - 1 : sn = SN(i) /\ tx_window'[sn] = Data(c, i)
      <4>1. CASE sn = vt_s
        <5>1. tx_window'[sn] = data
          BY <2>1, <4>1
        <5>2. QED BY <1>2, <2>4, <3>2, <4>1, <5>1
      <4>2. CASE sn # vt_s
        <5>1. sn \in DOMAIN tx_window /\ tx_window'[sn] = tx_window[sn]
          BY <2>1, <4>2
        <5>2. QED BY <3>1, <5>1 DEF Holds
      <4>3. QED BY <4>1, <4>2
    <3>4. QED BY <3>3 DEF Holds
  <2>12. << >> \in Seq(Retxs(a, s + 1, c))
    BY EmptySeq
  <2>13. TxOk(a, s + 1, c)'
    BY <1>2, <1>4, <2>1, <2>2, <2>3, <2>7, <2>10, <2>11, <2>12 DEF TxOk
  <2>14. QED BY <2>3, <2>9, <2>13
<1>7. QED BY <1>5, <1>6

\* A retransmission carries a PDU or a part of it, and leaves in the queue what is
\* still to be sent of it.
LEMMA BuildRetxSafe ==
  ASSUME NEW a, NEW r, NEW s, NEW b, Edges(a, r, s), Cut(s, b), TxOk(a, s, b), AirOk(s, b),
         NEW queue \in Seq(Retxs(a, s, b)), queue # << >>, Head(queue).sn \in DOMAIN tx_window,
         NEW grant \in Grants, NeedsSegment(Head(queue), grant) => grant.segment > 0,
         NEW early \in BOOLEAN, BuildRetx(queue, grant, early), UNCHANGED written
  PROVE  TxOk(a, s, b)' /\ AirOk(s, b)'
<1> DEFINE retx == Head(queue)
           data == tx_window[retx.sn]
           segment == NeedsSegment(retx, grant)
           start == retx.so_start
           upto == Smaller(retx.so_end, start + grant.segment)
           last == ~segment \/ upto = Len(data)
           poll == PollRequired(poll_retx_timer, early, QueueLen(moved), queue)
           sent == IF segment THEN SubSeq(data, start + 1, upto) ELSE data
           pdu == [sn |-> retx.sn, rf |-> segment, so |-> start, lsf |-> segment /\ last,
                   p |-> poll, data |-> sent]
           rest == [retx EXCEPT !.is_segment = TRUE, !.so_start = upto]
<1>1. /\ air' = Append(air, pdu)
      /\ retx_queue' = IF last THEN Tail(queue) ELSE <<rest>> \o Tail(queue)
      /\ UNCHANGED <<moved, vt_a, vt_s, tx_window>>
  BY Zenon DEF BuildRetx
<1>2. retx \in Retxs(a, s, b) /\ Tail(queue) \in Seq(Retxs(a, s, b))
  BY HeadTailProperties
<1>3. PICK i \in 0 .. s - 1 : RetxOk(retx, i, s, b)
  BY <1>2 DEF Retxs
<1>4. retx \in RetxRecords /\ (s = a + Window => \E j \in a .. s - 1 : retx.sn = SN(j))
  BY <1>2 DEF Retxs
<1>5. a \in Nat /\ s \in Nat /\ s - Window <= a /\ i \in Int /\ i <= s /\ s - Window <= i /\ retx.sn = SN(i)
  BY <1>3, Sizes DEF Edges, RetxOk
<1>6. data = Data(b, i)
  <2>1. Holds(tx_window, a, s, b) /\ SN(i) \in DOMAIN tx_window
    BY <1>5 DEF TxOk
  <2>2. QED BY <1>5, <2>1, HeldPdu
<1> DEFINE len == Len(Data(b, i))
           x == b[i]
           y == b[i + 1]
           g == grant.segment
<1>7. /\ x \in Nat /\ y \in Nat /\ x < y /\ len = y - x /\ len \in Nat \ {0} /\ Data(b, i) \in Seq(Nat)
      /\ Data(b, i) = Units(x + 1, y)
  BY DataFacts DEF Data
<1>8. retx.so_end = len /\ start < len /\ start \in Nat /\ (retx.is_segment \/ start = 0) /\ g \in Nat
  <2>1. g \in Nat
    BY RlcAssumption
  <2>2. QED BY <1>3, <1>4, <2>1 DEF RetxOk, RetxRecords
<1>9. segment \in BOOLEAN /\ poll \in BOOLEAN /\ (segment => g > 0) /\ retx.sn \in SNs
  BY <1>4, PollBoolean DEF NeedsSegment, RetxRecords
<1> HIDE DEF len, x, y, g, retx, segment, poll
<1>10. upto \in Nat /\ upto <= len /\ start <= upto /\ (segment => start < upto)
  <2>1. upto = IF len < start + g THEN len ELSE start + g
    BY <1>8 DEF Smaller, g
  <2> HIDE DEF upto, start
  <2>2. QED BY <1>7, <1>8, <1>9, <2>1
<1>11. last <=> ~segment \/ upto = len
  BY <1>6 DEF len
<1> HIDE DEF upto, last, start, data
<1>12. segment => /\ sent \in Seq(Nat) /\ Len(sent) = upto - start
                  /\ sent = Units(x + start + 1, x + start + Len(sent))
  <2>1. SUFFICES ASSUME segment
                 PROVE  /\ sent \in Seq(Nat) /\ Len(sent) = upto - start
                        /\ sent = Units(x + start + 1, x + start + Len(sent))
    OBVIOUS
  <2>2. sent = SubSeq(Units(x + 1, y), start + 1, upto)
    BY <1>6, <1>7, <2>1, Zenon
  <2>3. Within(x, y, start, upto)
    BY <1>7, <1>8, <1>10 DEF Within
  <2>4. sent = Units(x + start + 1, x + upto)
    <3>1. SubSeq(Units(x + 1, y), start + 1, upto) = Units(x + start + 1, x + upto)
      BY <2>3, UnitsSub
    <3> HIDE DEF sent
    <3>2. QED BY <2>2, <3>1, Zenon
  <2> DEFINE lo == x + start
             hi == x + upto
  <2>5. lo \in Nat /\ hi \in Nat /\ lo <= hi /\ hi - lo = upto - start
    BY <1>7, <1>8, <1>10
  <2>6. sent = Units(lo + 1, hi)
    BY <2>4
  <2> HIDE DEF lo, hi, sent
  <2>7. sent \in Seq(Nat) /\ Len(sent) = hi - lo
    BY <2>5, <2>6, UnitsFacts
  <2>8. lo + Len(sent) = hi
    BY <2>5, <2>7
  <2>9. sent = Units(lo + 1, lo + Len(sent))
    BY <2>6, <2>8
  <2>10. QED BY <2>5, <2>7, <2>9 DEF lo
<1>13. ~segment => sent = Data(b, i)
  BY <1>6
<1> HIDE DEF sent
<1>14. pdu \in Pdus(s, b)
  <2>1. sent \in Seq(Nat)
    BY <1>7, <1>9, <1>12, <1>13
  <2>2. pdu \in PduRecords
    BY <1>8, <1>9, <2>1 DEF PduRecords, start
  <2>3. segment => SegOk(pdu, b, i)
    <3>1. SUFFICES ASSUME segment PROVE SegOk(pdu, b, i)
      OBVIOUS
    <3> DEFINE l == Len(sent)
    <3>2. l = upto - start /\ upto \in Nat /\ start \in Nat /\ start < upto /\ upto <= len /\ len \in Nat
      BY <1>7, <1>8, <1>10, <1>12, <3>1
    <3> HIDE DEF l
    <3>3. l > 0 /\ start + l <= len /\ start + l = upto
      BY <3>2
    <3>4. segment /\ last <=> start + l = len
      BY <1>11, <3>1, <3>3
    <3>5. QED BY <1>12, <3>1, <3>3, <3>4 DEF SegOk, l, len, x
  <2>4. PduOk(pdu, i, s, b)
    BY <1>5, <1>13, <2>3 DEF PduOk
  <2> HIDE DEF pdu
  <2>5. QED BY <2>2, <2>4 DEF Pdus
<1> HIDE DEF pdu
<1>15. AirOk(s, b)'
  BY <1>1, <1>14, AppendProperties DEF AirOk
<1>16. ~last => rest \in Retxs(a, s, b)
  <2>1. SUFFICES ASSUME ~last PROVE rest \in Retxs(a, s, b)
    OBVIOUS
  <2>2. upto < len
    BY <1>7, <1>10, <1>11, <2>1
  <2>3. rest \in RetxRecords
    BY <1>4, <1>10 DEF RetxRecords
  <2>4. rest.sn = retx.sn /\ rest.so_end = retx.so_end /\ rest.so_start = upto /\ rest.is_segment = TRUE
    BY <1>4 DEF RetxRecords
  <2> HIDE DEF rest
  <2>5. RetxOk(rest, i, s, b)
    BY <1>5, <1>8, <2>2, <2>4 DEF RetxOk, len
  <2>6. QED BY <1>4, <2>3, <2>4, <2>5 DEF Retxs
<1> HIDE DEF rest
<1>17. retx_queue' \in Seq(Retxs(a, s, b))
  <2>1. CASE last
    BY <1>1, <1>2, <2>1
  <2>2. CASE ~last
    <3> DEFINE X == Retxs(a, s, b)
               t == Tail(queue)
    <3>1. rest \in X /\ t \in Seq(X)
      BY <1>2, <1>16, <2>2
    <3> HIDE DEF X, t
    <3>2. <<rest>> \in Seq(X)
      BY <3>1
    <3>3. <<rest>> \o t \in Seq(X)
      BY <3>1, <3>2, ConcatProperties
    <3>4. QED BY <1>1, <2>2, <3>3 DEF X, t
  <2>3. QED BY <2>1, <2>2
<1>18. TxOk(a, s, b)'
  BY <1>1, <1>17 DEF TxOk
<1>19. QED BY <1>15, <1>18

LEMMA RandomRetxSafe ==
  ASSUME NEW a, NEW r, NEW s, NEW b, Edges(a, r, s), Cut(s, b), TxOk(a, s, b),
         NEW queue \in Seq(Retxs(a, s, b)), NEW new \in RandomRetx(queue)
  PROVE  new \in Seq(Retxs(a, s, b)) /\ (s = a + Window => new # << >>)
<1>1. CASE tx_window = << >>
  <2>1. new = queue
    BY <1>1 DEF RandomRetx
  <2>2. ASSUME s = a + Window PROVE FALSE
    <3>1. a \in a .. s - 1
      BY <2>2, Sizes DEF Edges
    <3>2. SN(a) \in DOMAIN tx_window
      BY <3>1 DEF TxOk
    <3>3. DOMAIN << >> = {}
      BY EmptySeq, LenProperties
    <3>4. QED BY <1>1, <3>2, <3>3
  <2>3. QED BY <2>1, <2>2
<1>2. CASE tx_window # << >>
  <2>1. PICK sn \in DOMAIN tx_window : new = Append(queue, WholeRetx(sn))
    BY <1>2 DEF RandomRetx
  <2>2. WholeRetx(sn) \in Retxs(a, s, b)
    BY Retransmissible
  <2> DEFINE X == Retxs(a, s, b)
             e == WholeRetx(sn)
  <2>3. queue \in Seq(X) /\ e \in X /\ new = Append(queue, e)
    BY <2>1, <2>2
  <2> HIDE DEF X, e
  <2>4. Append(queue, e) \in Seq(X) /\ Append(queue, e) # << >>
    BY <2>3, AppendProperties
  <2>5. QED BY <2>3, <2>4 DEF X
<1>3. QED BY <1>1, <1>2

\* The queue without what is no longer outstanding at its front.
LEMMA InTxWindowFacts ==
  ASSUME NEW X, NEW queue \in Seq(X)
  PROVE  /\ InTxWindow(queue) \in Seq(X)
         /\ IF InTxWindow(queue) = << >>
            THEN \A k \in 1 .. Len(queue) : queue[k].sn \notin DOMAIN tx_window
            ELSE Head(InTxWindow(queue)).sn \in DOMAIN tx_window
<1> DEFINE kept == {k \in DOMAIN queue : queue[k].sn \in DOMAIN tx_window}
           n == Len(queue)
<1>1. n \in Nat /\ DOMAIN queue = 1 .. n /\ \A k \in 1 .. n : queue[k] \in X
  BY LenProperties, ElementOfSeq
<1>2. InTxWindow(queue) = IF kept = {} THEN << >> ELSE SubSeq(queue, Min(kept), n)
  BY DEF InTxWindow
<1>3. CASE kept = {}
  <2>1. InTxWindow(queue) = << >>
    BY <1>2, <1>3
  <2>2. \A k \in 1 .. n : queue[k].sn \notin DOMAIN tx_window
    BY <1>1, <1>3
  <2>3. QED BY <2>1, <2>2, EmptySeq
<1>4. CASE kept # {}
  <2> DEFINE m == Min(kept)
             left == SubSeq(queue, m, n)
  <2>1. m \in kept
    <3>1. kept \in SUBSET (1 .. n)
      BY <1>1
    <3> HIDE DEF kept, n
    <3>2. n \in Nat /\ kept # {}
      BY <1>1, <1>4
    <3>3. Min(kept) \in kept
      BY <3>1, <3>2, MinFacts
    <3>4. QED BY <3>3
  <2>2. m \in 1 .. n /\ queue[m].sn \in DOMAIN tx_window
    BY <1>1, <2>1
  <2> HIDE DEF m, n
  <2>3. \A k \in m .. n : queue[k] \in X
    BY <1>1, <2>2
  <2>4. /\ left \in Seq(X) /\ Len(left) = (IF m <= n THEN n - m + 1 ELSE 0)
        /\ \A k \in 1 .. n - m + 1 : left[k] = queue[m + k - 1]
    <3>1. m \in Int /\ n \in Int
      BY <1>1, <2>2
    <3>2. QED BY <2>3, <3>1, SubSeqProperties
  <2> HIDE DEF left
  <2>5. left # << >> /\ 1 \in 1 .. n - m + 1 /\ m + 1 - 1 = m
    <3>1. Len(left) # 0 /\ 1 \in 1 .. n - m + 1 /\ m + 1 - 1 = m
      BY <1>1, <2>2, <2>4
    <3>2. Len(<< >>) = 0
      BY EmptySeq
    <3>3. QED BY <3>1, <3>2
  <2>6. left[1] = queue[m]
    BY <2>4, <2>5
  <2>7. Head(left) = left[1]
    BY <2>4, <2>5, HeadTailProperties
  <2>8. InTxWindow(queue) = left
    BY <1>2, <1>4 DEF left, m
  <2>9. QED BY <2>2, <2>4, <2>5, <2>6, <2>7, <2>8
<1>5. QED BY <1>3, <1>4

\* What the theorems take for granted of the opportunities MAC gives.
Segmentable == \A g \in Grants : g.segment > 0

\* When the window is full, something outstanding is always to be sent again.
LEMMA FullRetransmits ==
  ASSUME NEW a, NEW r, NEW s, NEW b, Edges(a, r, s), Cut(s, b), TxOk(a, s, b),
         NEW queue \in Seq(Retxs(a, s, b)), s = a + Window => queue # << >>,
         InTxWindow(queue) = << >>
  PROVE  s < a + Window
<1>1. SUFFICES ASSUME s = a + Window PROVE FALSE
  BY Sizes DEF Edges
<1>2. Len(queue) \in Nat /\ Len(queue) # 0
  BY <1>1, LenProperties, EmptySeq
<1>3. 1 \in 1 .. Len(queue)
  BY <1>2
<1>4. queue[1] \in Retxs(a, s, b)
  BY <1>3, ElementOfSeq
<1>5. PICK i \in a .. s - 1 : queue[1].sn = SN(i)
  BY <1>1, <1>4 DEF Retxs
<1>6. queue[1].sn \in DOMAIN tx_window
  BY <1>5 DEF TxOk
<1>7. QED BY <1>3, <1>6, InTxWindowFacts

LEMMA ReadPduSafe ==
  ASSUME Segmentable,
         NEW a, NEW r, NEW s, NEW b, Edges(a, r, s), Cut(s, b), TxOk(a, s, b), AirOk(s, b),
         NEW grant \in Grants, ReadPdu(grant)
  PROVE  \/ TxOk(a, s, b)' /\ AirOk(s, b)'
         \/ s < a + Window /\ \E c : /\ Cut(s + 1, c) /\ Longer(s, b, c)
                                     /\ TxOk(a, s + 1, c)' /\ AirOk(s + 1, c)'
<1>1. UNCHANGED written
  BY DEF ReadPdu
<1>2. grant.segment > 0 /\ grant.pdu \in Nat \ {0} /\ Early \subseteq BOOLEAN
  BY RlcAssumption DEF Segmentable
<1>3. PICK early \in Early,
           queue \in IF Full /\ retx_queue = << >> THEN RandomRetx(retx_queue) ELSE {retx_queue} :
        LET left == InTxWindow(queue)
        IN  CASE left = << >> -> BuildData(left, poll_retx_timer, grant.pdu, early)
              [] left # << >> /\ (NeedsSegment(Head(left), grant) => grant.segment > 0) ->
                   BuildRetx(left, grant, early)
              [] OTHER ->
                   LET poll == PollRequired(poll_retx_timer, early, QueueLen(moved), left)
                   IN  BuildData(left, Armed(poll_retx_timer, poll), grant.pdu, early)
  BY Zenon DEF ReadPdu
<1>4. queue \in Seq(Retxs(a, s, b)) /\ (s = a + Window => queue # << >>)
  <2>1. retx_queue \in Seq(Retxs(a, s, b)) /\ (Full <=> s = a + Window)
    BY FullFacts DEF TxOk
  <2>2. CASE Full /\ retx_queue = << >>
    <3>1. queue \in RandomRetx(retx_queue)
      BY <2>2
    <3>2. QED BY <2>1, <3>1, RandomRetxSafe
  <2>3. CASE ~ (Full /\ retx_queue = << >>)
    BY <2>1, <2>3
  <2>4. QED BY <2>2, <2>3
<1> DEFINE left == InTxWindow(queue)
<1>5. left \in Seq(Retxs(a, s, b))
  BY <1>4, InTxWindowFacts
<1>6. CASE left = << >>
  <2>1. BuildData(<< >>, poll_retx_timer, grant.pdu, early)
    BY <1>3, <1>6
  <2>2. s < a + Window
    BY <1>4, <1>6, FullRetransmits
  <2>3. QED BY <1>1, <1>2, <2>1, <2>2, BuildDataSafe
<1>7. CASE left # << >>
  <2>1. BuildRetx(left, grant, early)
    BY <1>2, <1>3, <1>7
  <2>2. Head(left).sn \in DOMAIN tx_window
    BY <1>4, <1>7, InTxWindowFacts
  <2> HIDE DEF left
  <2>3. QED BY <1>1, <1>2, <1>5, <1>7, <2>1, <2>2, BuildRetxSafe
<1>8. QED BY <1>6, <1>7

-----------------------------------------------------------------------------
(***************************************************************************)
(* The receiving side.                                                     *)
(***************************************************************************)
\* A step delivers SDUs, or none, after those that have been.
Delivers ==
  \E n \in 0 .. Len(SduEnds) : \E m \in n .. Len(SduEnds) : delivered = Sdus(n) /\ delivered' = Sdus(m)

\* What is in the window stays, from an edge on.
Keeps(o, s) == \A i \in o .. s - 1 : SN(i) \in DOMAIN rx_window => SN(i) \in DOMAIN rx_window'

\* A PDU that has been passed is never inside the receiving window, whatever its
\* SN has come to stand for.
LEMMA InsideFacts ==
  ASSUME NEW a, NEW r, NEW s, Edges(a, r, s), vr_r = SN(r), NEW i \in 0 .. s - 1, s - Window <= i
  PROVE  InsideRxWindow(SN(i)) <=> r <= i
<1>1. r \in Int /\ i \in Int /\ s \in Int /\ r <= s /\ s - Window <= r /\ Window \in Nat /\ MOD = Window + Window
  BY Sizes DEF Edges
<1>2. CASE r <= i
  <2>1. i - r < MOD /\ i - r < Window
    BY <1>1, <1>2
  <2>2. Base(SN(i), SN(r)) = i - r
    BY <1>1, <1>2, <2>1, BaseAhead
  <2>3. QED BY <1>2, <2>1, <2>2 DEF InsideRxWindow
<1>3. CASE ~ (r <= i)
  <2>1. r - i <= MOD /\ i < r /\ ~ ((i - r) + MOD < Window)
    BY <1>1, <1>3
  <2>2. Base(SN(i), SN(r)) = (i - r) + MOD
    BY <1>1, <2>1, BaseBehind
  <2>3. QED BY <1>3, <2>1, <2>2 DEF InsideRxWindow
<1>4. QED BY <1>2, <1>3

\* The next PDU to be sent is in no window.
LEMMA NextNotHeld ==
  ASSUME NEW window, NEW lo \in Nat, NEW s \in Nat, NEW b, Holds(window, lo, s, b), s - Window <= lo
  PROVE  SN(s) \notin DOMAIN window
<1>1. SUFFICES ASSUME SN(s) \in DOMAIN window PROVE FALSE
  OBVIOUS
<1>2. s - Window <= s
  BY Sizes
<1>3. s \in lo .. s - 1
  BY <1>1, <1>2, HeldPdu
<1>4. QED BY <1>3

LEMMA HandleDataSafe ==
  ASSUME NEW a, NEW r, NEW s, NEW b, Edges(a, r, s), Cut(s, b), RxOk(r, s, b),
         NEW i \in 0 .. s - 1, s - Window <= i, NEW p, NEW asked,
         NEW segments, SegmentsOk(segments, r, s, b),
         HandleData(SN(i), Data(b, i), p, segments, asked)
  PROVE  Delivers /\ \E o \in r .. s : RxOk(o, s, b)' /\ Keeps(o, s)
<1>1. /\ a \in Nat /\ r \in Nat /\ s \in Nat /\ r <= s /\ s - Window <= r /\ Window \in Nat \ {0}
      /\ MOD = Window + Window
  BY Sizes DEF Edges
<1>2. vr_r = SN(r) /\ Holds(rx_window, r + 1, s, b)
  BY DEF RxOk
<1>3. PICK n0 : Passed(n0, b[r]) /\ rx_sdu = At(n0, b[r]).sdu /\ delivered = At(n0, b[r]).out
  BY DEF RxOk
<1>4. n0 \in 0 .. Len(SduEnds) /\ delivered = Sdus(n0)
  BY <1>3 DEF Passed, At
<1> DEFINE sn == SN(i)
           data == Data(b, i)
<1>5. CASE ~InsideRxWindow(sn) \/ sn \in DOMAIN rx_window
  <2>1. rx_segments' = segments /\ UNCHANGED <<vr_r, rx_window, rx_sdu, delivered>>
    BY <1>5 DEF HandleData
  <2>2. RxOk(r, s, b)'
    BY <1>2, <1>3, <2>1 DEF RxOk
  <2> Keeps(r, s)
    BY <2>1 DEF Keeps
  <2>3. n0 \in n0 .. Len(SduEnds)
    BY <1>4
  <2>4. Delivers
    BY <1>4, <2>1, <2>3 DEF Delivers
  <2>5. QED BY <1>1, <2>2, <2>4
<1>6. CASE ~ (~InsideRxWindow(sn) \/ sn \in DOMAIN rx_window)
  <2> DEFINE window == [t \in DOMAIN rx_window \cup {sn} |-> IF t = sn THEN data ELSE rx_window[t]]
             n == InSequence(window, vr_r)
             passed == {Up(vr_r, k) : k \in 0 .. n - 1}
             pdus == [k \in 1 .. n |-> window[Up(vr_r, k - 1)]]
             rx == Deliver(FlattenSeq(pdus))
  <2>1. /\ rx_window' = [t \in DOMAIN window \ passed |-> window[t]]
        /\ rx_segments' = [t \in DOMAIN segments |-> IF t \in passed THEN << >> ELSE segments[t]]
        /\ vr_r' = Up(vr_r, n) /\ rx_sdu' = rx.sdu /\ delivered' = rx.out
    BY <1>6, Zenon DEF HandleData
  <2>2. r <= i /\ i \in r .. s - 1
    BY <1>1, <1>2, <1>6, InsideFacts
  <2>3. Holds(window, r, s, b)
    <3>1. ASSUME NEW t \in DOMAIN window PROVE \E j \in r .. s - 1 : t = SN(j) /\ window[t] = Data(b, j)
      <4>1. CASE t = sn
        BY <2>2, <4>1
      <4>2. CASE t # sn
        <5>1. t \in DOMAIN rx_window /\ window[t] = rx_window[t]
          BY <4>2
        <5>2. PICK j \in r + 1 .. s - 1 : t = SN(j) /\ rx_window[t] = Data(b, j)
          BY <1>2, <5>1 DEF Holds
        <5>3. j \in r .. s - 1
          BY <1>1
        <5>4. QED BY <5>1, <5>2, <5>3
      <4>3. QED BY <4>1, <4>2
    <3> HIDE DEF window
    <3>2. QED BY <3>1 DEF Holds
  <2> HIDE DEF window
  <2>4. SN(s) \notin DOMAIN window
    BY <1>1, <2>3, NextNotHeld
  <2>5. /\ n \in 0 .. s - r /\ \A k \in 0 .. n - 1 : SN(r + k) \in DOMAIN window
        /\ SN(r + n) \notin DOMAIN window
    <3>1. s - r <= MOD /\ r \in Int /\ s \in Int
      BY <1>1
    <3>2. QED BY <1>1, <1>2, <2>4, <3>1, InSequenceFacts
  <2> HIDE DEF n
  <2>6. PICK o \in r .. s : o = r + n
    BY <1>1, <2>5
  <2>7. \A k \in 0 .. n : Up(vr_r, k) = SN(r + k)
    BY <1>1, <1>2, UpSn
  <2>8. \A j \in r .. s : SN(j) \in DOMAIN window => window[SN(j)] = Data(b, j)
    <3>1. \A j \in r .. s : j \in Int /\ s - Window <= j /\ j <= s
      BY <1>1
    <3>2. QED BY <1>1, <2>3, <3>1, HeldPdu
  <2>9. FlattenSeq(pdus) = Units(b[r] + 1, b[o])
    <3>1. ASSUME NEW k \in 1 .. n PROVE pdus[k] = Data(b, r + k - 1) /\ pdus[k] \in Seq(Nat)
      <4> DEFINE l == k - 1
      <4>1. l \in 0 .. n - 1 /\ l \in 0 .. n /\ r + l \in r .. s /\ r + l \in 0 .. s - 1 /\ r + k - 1 = r + l
        BY <1>1, <2>5
      <4>2. pdus[k] = window[Up(vr_r, l)]
        OBVIOUS
      <4> HIDE DEF l, pdus
      <4>3. pdus[k] = Data(b, r + l)
        BY <2>5, <2>7, <2>8, <4>1, <4>2
      <4>4. Data(b, r + l) \in Seq(Nat)
        <5> DEFINE j == r + l
        <5>1. j \in 0 .. s - 1
          BY <4>1
        <5> HIDE DEF j
        <5>2. Data(b, j) \in Seq(Nat)
          BY <5>1, DataFacts
        <5>3. QED BY <5>2 DEF j
      <4>5. QED BY <4>1, <4>3, <4>4
    <3>2. n \in Nat /\ n \in 0 .. s - r /\ r \in 0 .. s
      BY <1>1, <2>5
    <3>3. pdus \in Seq(Seq(Nat))
      <4> DEFINE f(k) == window[Up(vr_r, k - 1)]
      <4>1. \A k \in 1 .. n : f(k) \in Seq(Nat)
        BY <3>1
      <4> HIDE DEF f
      <4>2. [k \in 1 .. n |-> f(k)] \in Seq(Seq(Nat))
        BY <3>2, <4>1, IsASeq
      <4>3. QED BY <4>2 DEF f
    <3>4. Len(pdus) = n
      <4>1. DOMAIN pdus = 1 .. n
        OBVIOUS
      <4> HIDE DEF pdus
      <4>2. DOMAIN pdus = 1 .. Len(pdus) /\ Len(pdus) \in Nat
        BY <3>3, LenProperties
      <4>3. QED BY <3>2, <4>1, <4>2
    <3> HIDE DEF pdus
    <3>5. FlattenSeq(pdus) = Units(b[r] + 1, b[r + n])
      BY <3>1, <3>2, <3>3, <3>4, Flattened
    <3>6. QED BY <2>6, <3>5
  <2> HIDE DEF pdus, rx, passed
  <2>10. PICK m : Passed(m, b[o]) /\ rx = At(m, b[o])
    <3> DEFINE x == b[r]
               y == b[o]
    <3>1. x \in Nat /\ y \in Nat /\ x <= y
      <4>1. r \in 0 .. s /\ o \in r .. s
        BY <1>1
      <4>2. QED BY <4>1, CutAscends
    <3>2. Passed(n0, x) /\ rx_sdu = At(n0, x).sdu /\ delivered = At(n0, x).out
      BY <1>3
    <3>3. rx = Deliver(Units(x + 1, y))
      BY <2>9 DEF rx
    <3> HIDE DEF x, y
    <3>4. \E m : Passed(m, y) /\ Deliver(Units(x + 1, y)) = At(m, y)
      BY <3>1, <3>2, DeliverFacts
    <3>5. QED BY <3>3, <3>4 DEF y
  <2>11. m \in 0 .. Len(SduEnds) /\ delivered' = Sdus(m)
    BY <2>1, <2>10 DEF Passed, At
  <2>12. n0 <= m
    <3>1. SUFFICES ASSUME ~ (n0 <= m) PROVE FALSE
      OBVIOUS
    <3>2. m + 1 \in 0 .. Len(SduEnds) /\ n0 \in m + 1 .. Len(SduEnds) /\ m < Len(SduEnds) /\ n0 \in 0 .. Len(SduEnds)
      BY <1>4, <2>11, <3>1, EndFacts
    <3> DEFINE u == EndOf(m + 1)
    <3>3. u <= EndOf(n0) /\ EndOf(n0) \in Nat /\ u \in Nat
      <4> DEFINE k == m + 1
      <4>1. k \in 0 .. Len(SduEnds) /\ n0 \in k .. Len(SduEnds)
        BY <3>2
      <4> HIDE DEF k
      <4>2. EndOf(k) <= EndOf(n0) /\ EndOf(k) \in Nat
        BY <4>1, EndsAscend, EndFacts
      <4>3. QED BY <3>2, <4>2, EndFacts DEF k
    <3>4. b[o] < u
      BY <2>10, <3>2 DEF Passed
    <3>5. EndOf(n0) <= b[r]
      BY <1>3 DEF Passed
    <3>6. b[r] <= b[o] /\ b[r] \in Nat /\ b[o] \in Nat
      <4>1. r \in 0 .. s /\ o \in r .. s
        BY <1>1
      <4>2. QED BY <4>1, CutAscends
    <3> HIDE DEF u
    <3>7. QED BY <3>3, <3>4, <3>5, <3>6
  <2>13. Delivers
    <3>1. m \in n0 .. Len(SduEnds)
      BY <1>4, <2>11, <2>12
    <3>2. QED BY <1>4, <2>11, <3>1 DEF Delivers
  <2>14. \A j \in r .. s - 1 : SN(j) \notin passed => j \in o .. s - 1
    <3>1. TAKE j \in r .. s - 1
    <3>2. HAVE SN(j) \notin passed
    <3>3. SUFFICES ASSUME j < o PROVE FALSE
      BY <1>1, <2>6
    <3>4. j - r \in 0 .. n - 1 /\ j - r \in 0 .. n /\ r + (j - r) = j
      BY <1>1, <2>5, <2>6, <3>3
    <3>5. Up(vr_r, j - r) = SN(j)
      BY <2>7, <3>4
    <3>6. SN(j) \in passed
      BY <3>4, <3>5 DEF passed
    <3>7. QED BY <3>2, <3>6
  <2>15. Holds(rx_window', o + 1, s, b)
    <3>1. ASSUME NEW t \in DOMAIN rx_window'
          PROVE  \E j \in o + 1 .. s - 1 : t = SN(j) /\ rx_window'[t] = Data(b, j)
      <4>1. t \in DOMAIN window /\ t \notin passed /\ rx_window'[t] = window[t]
        BY <2>1
      <4>2. PICK j \in r .. s - 1 : t = SN(j) /\ window[t] = Data(b, j)
        BY <2>3, <4>1 DEF Holds
      <4>3. j \in o .. s - 1
        BY <2>14, <4>1, <4>2
      <4>4. j # o
        BY <2>5, <2>6, <4>1, <4>2
      <4>5. j \in o + 1 .. s - 1
        BY <1>1, <4>3, <4>4
      <4>6. QED BY <4>1, <4>2, <4>5
    <3>2. QED BY <3>1 DEF Holds
  <2>16. SegmentsOk(rx_segments', o, s, b)
    <3>1. ASSUME NEW t \in DOMAIN rx_segments', rx_segments'[t] # << >>
          PROVE  \E j \in o .. s - 1 : t = SN(j) /\ rx_segments'[t] \in Seq(Parts(b, j))
      <4>1. t \in DOMAIN segments /\ t \notin passed /\ rx_segments'[t] = segments[t]
        BY <2>1, <3>1
      <4>2. PICK j \in r .. s - 1 : t = SN(j) /\ segments[t] \in Seq(Parts(b, j))
        BY <3>1, <4>1 DEF SegmentsOk
      <4>3. j \in o .. s - 1
        BY <2>14, <4>1, <4>2
      <4>4. QED BY <4>1, <4>2, <4>3
    <3>2. QED BY <3>1 DEF SegmentsOk
  <2>17. vr_r' = SN(o)
    <3>1. n \in 0 .. n
      BY <1>1, <2>5
    <3>2. QED BY <2>1, <2>6, <2>7, <3>1
  <2>18. rx_sdu' = At(m, b[o]).sdu /\ delivered' = At(m, b[o]).out
    BY <2>1, <2>10
  <2>19. RxOk(o, s, b)'
    BY <2>10, <2>15, <2>16, <2>17, <2>18 DEF RxOk
  <2>20. Keeps(o, s)
    <3>1. ASSUME NEW j \in o .. s - 1, SN(j) \in DOMAIN rx_window, SN(j) \in passed PROVE FALSE
      <4>1. PICK k \in 0 .. n - 1 : SN(j) = Up(vr_r, k)
        BY <3>1 DEF passed
      <4>2. k \in 0 .. n /\ SN(j) = SN(r + k)
        BY <2>5, <2>7, <4>1
      <4> DEFINE m1 == r + k
      <4>3. /\ m1 \in Int /\ s - Window <= m1 /\ m1 <= s /\ m1 # j
            /\ j \in Int /\ s - Window <= j /\ j <= s
        BY <1>1, <2>5, <2>6
      <4> HIDE DEF m1
      <4>4. SN(j) # SN(m1)
        BY <1>1, <4>3, OnePdu
      <4>5. QED BY <4>2, <4>4 DEF m1
    <3>2. \A t \in DOMAIN rx_window : t \in DOMAIN window
      BY DEF window
    <3>3. QED BY <2>1, <3>1, <3>2 DEF Keeps
  <2>21. QED BY <2>13, <2>19, <2>20
<1>7. QED BY <1>5, <1>6

\* A step that delivers nothing.
LEMMA NothingDelivered ==
  ASSUME NEW r, NEW s, NEW b, RxOk(r, s, b), UNCHANGED delivered
  PROVE  Delivers
<1>1. PICK n : Passed(n, b[r]) /\ delivered = At(n, b[r]).out
  BY DEF RxOk
<1>2. n \in 0 .. Len(SduEnds) /\ n \in n .. Len(SduEnds) /\ delivered = Sdus(n)
  BY <1>1, EndFacts DEF Passed, At
<1>3. QED BY <1>2 DEF Delivers

\* Segments are kept until they make up their PDU, which is then handled as if it
\* had come whole.
LEMMA HandleSegmentSafe ==
  ASSUME NEW a, NEW r, NEW s, NEW b, Edges(a, r, s), Cut(s, b), RxOk(r, s, b),
         NEW pdu \in PduRecords, NEW i \in 0 .. s - 1, s - Window <= i, pdu.sn = SN(i), SegOk(pdu, b, i),
         HandleSegment(pdu)
  PROVE  Delivers /\ \E o \in r .. s : RxOk(o, s, b)' /\ Keeps(o, s)
<1> DEFINE seg == [so |-> pdu.so, data |-> pdu.data, lsf |-> pdu.lsf]
           put(list) == [t \in DOMAIN rx_segments \cup {pdu.sn} |-> IF t = pdu.sn THEN list ELSE rx_segments[t]]
           without == [t \in DOMAIN rx_segments \ {pdu.sn} |-> rx_segments[t]]
           walked == Walk(Insert(rx_segments[pdu.sn], seg))
           same == UNCHANGED <<vr_r, rx_window, rx_sdu, delivered>>
<1>1. r \in Nat /\ s \in Nat /\ r <= s /\ s - Window <= r
  BY Sizes DEF Edges
<1>2. vr_r = SN(r) /\ SegmentsOk(rx_segments, r, s, b)
  BY DEF RxOk
<1>3. seg \in Parts(b, i)
  <2>1. seg \in Segs
    BY DEF PduRecords, Segs
  <2>2. SegOk(seg, b, i)
    BY DEF SegOk
  <2> HIDE DEF seg
  <2>3. QED BY <2>1, <2>2 DEF Parts
<1> HIDE DEF seg
<1>4. CASE ~InsideRxWindow(pdu.sn)
  <2>1. same /\ UNCHANGED rx_segments
    BY <1>4 DEF HandleSegment
  <2>2. RxOk(r, s, b)'
    BY <2>1 DEF RxOk
  <2>3. Keeps(r, s)
    BY <2>1 DEF Keeps
  <2>4. QED BY <1>1, <2>1, <2>2, <2>3, NothingDelivered
<1>5. ASSUME InsideRxWindow(pdu.sn), NEW list \in Seq(Parts(b, i)), rx_segments' = put(list), same
      PROVE  Delivers /\ \E o \in r .. s : RxOk(o, s, b)' /\ Keeps(o, s)
  <2>1. i \in r .. s - 1
    BY <1>1, <1>2, <1>5, InsideFacts
  <2>2. SegmentsOk(rx_segments', r, s, b)
    <3>1. ASSUME NEW t \in DOMAIN rx_segments'
          PROVE  rx_segments'[t] = << >> \/ \E j \in r .. s - 1 : t = SN(j) /\ rx_segments'[t] \in Seq(Parts(b, j))
      <4>1. CASE t = pdu.sn
        <5>1. rx_segments'[t] = list
          BY <1>5, <4>1
        <5>2. QED BY <2>1, <4>1, <5>1
      <4>2. CASE t # pdu.sn
        <5>1. t \in DOMAIN rx_segments /\ rx_segments'[t] = rx_segments[t]
          BY <1>5, <4>2
        <5>2. QED BY <1>2, <5>1 DEF SegmentsOk
      <4>3. QED BY <4>1, <4>2
    <3>2. QED BY <3>1 DEF SegmentsOk
  <2>3. RxOk(r, s, b)'
    BY <1>5, <2>2 DEF RxOk
  <2>4. Keeps(r, s)
    BY <1>5 DEF Keeps
  <2>5. QED BY <1>1, <1>5, <2>3, <2>4, NothingDelivered
<1>6. CASE InsideRxWindow(pdu.sn) /\ pdu.sn \notin DOMAIN rx_segments
  <2>1. rx_segments' = put(<<seg>>) /\ same
    BY <1>6 DEF HandleSegment, seg
  <2>2. <<seg>> \in Seq(Parts(b, i))
    BY <1>3
  <2> HIDE DEF put
  <2>3. QED BY <1>5, <1>6, <2>1, <2>2
<1>7. CASE InsideRxWindow(pdu.sn) /\ pdu.sn \in DOMAIN rx_segments
  <2>1. IF walked.gap \/ ~Last(walked.list).lsf
        THEN rx_segments' = put(walked.list) /\ same
        ELSE HandleData(pdu.sn, walked.data, FALSE, without, do_status \/ pdu.p)
    BY <1>7 DEF HandleSegment, seg
  <2>2. rx_segments[pdu.sn] \in Seq(Parts(b, i))
    <3>1. CASE rx_segments[pdu.sn] = << >>
      BY <3>1, EmptySeq
    <3>2. CASE rx_segments[pdu.sn] # << >>
      <4>1. PICK j \in r .. s - 1 : pdu.sn = SN(j) /\ rx_segments[pdu.sn] \in Seq(Parts(b, j))
        BY <1>2, <1>7, <3>2 DEF SegmentsOk
      <4>2. j \in Int /\ i \in Int /\ s - Window <= j /\ j <= s /\ i <= s
        BY <1>1, Sizes
      <4>3. i = j
        BY <1>1, <4>1, <4>2, OnePdu
      <4>4. QED BY <4>1, <4>3
    <3>3. QED BY <3>1, <3>2
  <2> DEFINE list == Insert(rx_segments[pdu.sn], seg)
  <2>3. list \in Seq(Parts(b, i)) /\ list # << >>
    BY <1>3, <2>2, InsertFacts
  <2>4. walked.list \in Seq(Parts(b, i)) /\ (~walked.gap /\ Last(walked.list).lsf => walked.data = Data(b, i))
    <3> HIDE DEF list
    <3>1. /\ Walk(list).list \in Seq(Parts(b, i))
          /\ ~Walk(list).gap /\ Last(Walk(list).list).lsf => Walk(list).data = Data(b, i)
      BY <2>3, WalkFacts
    <3>2. QED BY <3>1 DEF list
  <2> HIDE DEF walked, list
  <2>5. CASE walked.gap \/ ~Last(walked.list).lsf
    <3>1. rx_segments' = put(walked.list) /\ same
      BY <2>1, <2>5
    <3> HIDE DEF put
    <3>2. QED BY <1>5, <1>7, <2>4, <3>1
  <2>6. CASE ~ (walked.gap \/ ~Last(walked.list).lsf)
    <3>1. HandleData(SN(i), Data(b, i), FALSE, without, do_status \/ pdu.p)
      BY <2>1, <2>4, <2>6
    <3>2. SegmentsOk(without, r, s, b)
      <4>1. \A t \in DOMAIN without : t \in DOMAIN rx_segments /\ without[t] = rx_segments[t]
        OBVIOUS
      <4> HIDE DEF without
      <4>2. QED BY <1>2, <4>1 DEF SegmentsOk
    <3> HIDE DEF without
    <3>3. QED BY <3>1, <3>2, HandleDataSafe
  <2>7. QED BY <2>5, <2>6
<1>8. QED BY <1>4, <1>6, <1>7

LEMMA ReceivePduSafe ==
  ASSUME NEW a, NEW r, NEW s, NEW b, Edges(a, r, s), Cut(s, b), RxOk(r, s, b), AirOk(s, b),
         NEW k \in DOMAIN air, ReceivePdu(k)
  PROVE  Delivers /\ AirOk(s, b)' /\ \E o \in r .. s : RxOk(o, s, b)' /\ Keeps(o, s)
<1>1. air \in Seq(Pdus(s, b)) /\ k \in 1 .. Len(air)
  BY LenProperties DEF AirOk
<1>2. air' = RemoveAt(air, k)
  BY DEF ReceivePdu
<1>3. AirOk(s, b)'
  BY <1>1, <1>2, RemoveAtFacts DEF AirOk
<1> DEFINE pdu == air[k]
<1>4. pdu \in Pdus(s, b)
  BY <1>1, ElementOfSeq
<1>5. IF pdu.rf THEN HandleSegment(pdu) ELSE HandleData(pdu.sn, pdu.data, pdu.p, rx_segments, do_status)
  BY DEF ReceivePdu
<1> HIDE DEF pdu
<1>6. PICK i \in 0 .. s - 1 : PduOk(pdu, i, s, b)
  BY <1>4 DEF Pdus
<1>7. pdu \in PduRecords /\ s - Window <= i /\ pdu.sn = SN(i)
  BY <1>4, <1>6 DEF Pdus, PduOk
<1>8. CASE pdu.rf
  <2>1. SegOk(pdu, b, i) /\ HandleSegment(pdu)
    BY <1>5, <1>6, <1>8 DEF PduOk
  <2>2. QED BY <1>3, <1>7, <2>1, HandleSegmentSafe
<1>9. CASE ~pdu.rf
  <2>1. HandleData(SN(i), Data(b, i), pdu.p, rx_segments, do_status)
    BY <1>5, <1>6, <1>7, <1>9 DEF PduOk
  <2>2. SegmentsOk(rx_segments, r, s, b)
    BY DEF RxOk
  <2>3. QED BY <1>3, <1>7, <2>1, <2>2, HandleDataSafe
<1>10. QED BY <1>8, <1>9

-----------------------------------------------------------------------------
(***************************************************************************)
(* Statuses.                                                               *)
(***************************************************************************)
\* What the receiver has not got comes before the last PDU it has, or is named.
LEMMA ReceiverWaits ==
  ASSUME NEW a, NEW r, NEW s, NEW b, Edges(a, r, s), RxOk(r, s, b)
  PROVE  SN(r) \notin DOMAIN rx_window
<1>1. SUFFICES ASSUME SN(r) \in DOMAIN rx_window PROVE FALSE
  OBVIOUS
<1>2. r \in Int /\ s \in Nat /\ r <= s /\ r + 1 \in Nat /\ s - Window <= r + 1 /\ s - Window <= r
  BY Sizes DEF Edges
<1>3. Holds(rx_window, r + 1, s, b)
  BY DEF RxOk
<1>4. r \in r + 1 .. s - 1
  BY <1>1, <1>2, <1>3, HeldPdu
<1>5. QED BY <1>2, <1>4

\* A status that is built names all that is missing before what it acknowledges.
LEMMA StatusFacts ==
  ASSUME NEW a, NEW r, NEW s, NEW b, Edges(a, r, s), RxOk(r, s, b), NEW n \in Nat
  PROVE  StatusUpTo(n) \in StatusRecords /\ StatusOk(StatusUpTo(n), a, r, s)
<1> DEFINE sns == {Up(vr_r, k) : k \in 0 .. n - 1}
           had == {k \in 0 .. n - 1 : Up(vr_r, k) \in DOMAIN rx_window}
           cut == n < Base(vr_ms, vr_r)
           m == CHOOSE k \in had : \A l \in had : l <= k
           nacks == IF cut /\ had = {} THEN {} ELSE sns \ DOMAIN rx_window
           ack == IF had = {} THEN vr_r ELSE Up(vr_r, m)
<1>1. StatusUpTo(n) = [nacks |-> nacks, ack_sn |-> ack, late |-> FALSE]
  BY DEF StatusUpTo
<1>2. a \in Nat /\ r \in Nat /\ s \in Nat /\ a <= r /\ r <= s /\ s - Window <= r
  BY Sizes DEF Edges
<1>3. vr_r = SN(r) /\ Holds(rx_window, r + 1, s, b)
  BY DEF RxOk
<1>4. \A k \in 0 .. n - 1 : Up(vr_r, k) = SN(r + k) /\ SN(r + k) \in SNs
  <2>1. ASSUME NEW k \in 0 .. n - 1 PROVE Up(SN(r), k) = SN(r + k) /\ SN(r + k) \in SNs
    <3> DEFINE i == r + k
    <3>1. r \in Int /\ k \in Int /\ i \in Int
      BY <1>2
    <3>2. Up(SN(r), k) = SN(r + k)
      BY <3>1, UpSn
    <3> HIDE DEF i
    <3>3. SN(i) \in SNs
      BY <3>1, SnType
    <3>4. QED BY <3>2, <3>3 DEF i
  <2>2. QED BY <1>3, <2>1
<1>5. nacks \subseteq SNs
  BY <1>4
<1>6. CASE had = {}
  <2>1. ack = SN(r) /\ SN(r) \in SNs /\ r \in a .. s /\ r .. r - 1 = {}
    BY <1>2, <1>3, <1>6, SnType
  <2> HIDE DEF ack, nacks
  <2>2. QED BY <1>1, <1>5, <2>1 DEF StatusOk, StatusRecords
<1>7. CASE had # {}
  <2>1. m \in had
    <3>1. IsFiniteSet(0 .. n - 1) /\ had \subseteq 0 .. n - 1
      BY FS_Interval
    <3>2. IsFiniteSet(had) /\ had \in SUBSET Int
      <4> HIDE DEF had
      <4>1. IsFiniteSet(had)
        BY <3>1, FS_Subset, Zenon
      <4>2. QED BY <3>1, <4>1
    <3> HIDE DEF had
    <3>3. \E v \in had : \A w \in had : v >= w
      BY <1>7, <3>2, GreatestExists
    <3>4. \E v \in had : \A w \in had : w <= v
      BY <3>2, <3>3
    <3>5. QED BY <3>4
  <2> HIDE DEF m
  <2>2. m \in 0 .. n - 1 /\ SN(r + m) \in DOMAIN rx_window /\ ack = SN(r + m) /\ ack \in SNs
    BY <1>4, <1>7, <2>1
  <2>3. PICK j \in r + 1 .. s - 1 : SN(r + m) = SN(j)
    BY <1>3, <2>2 DEF Holds
  <2>4. j - r <= m
    <3>1. SUFFICES ASSUME m < j - r PROVE FALSE
      BY <1>2, <2>2
    <3> DEFINE i == r + m
    <3>2. /\ i \in Int /\ s - Window <= i /\ i <= s /\ i # j
          /\ j \in Int /\ s - Window <= j /\ j <= s
      BY <1>2, <2>2, <3>1, Sizes
    <3> HIDE DEF i
    <3>3. SN(i) # SN(j)
      BY <1>2, <3>2, OnePdu
    <3>4. QED BY <2>3, <3>3 DEF i
  <2>5. ASSUME NEW i \in r .. j - 1 PROVE SN(i) \in nacks \cup DOMAIN rx_window
    <3>1. i - r \in 0 .. n - 1 /\ r + (i - r) = i
      BY <1>2, <2>2, <2>4
    <3>2. SN(i) \in sns
      BY <1>4, <3>1
    <3>3. QED BY <1>7, <3>2
  <2>6. j \in a .. s
    BY <1>2
  <2> HIDE DEF ack, nacks
  <2>7. QED BY <1>1, <1>5, <2>2, <2>3, <2>5, <2>6 DEF StatusOk, StatusRecords
<1>8. QED BY <1>6, <1>7

LEMMA BuildStatusSafe ==
  ASSUME NEW a, NEW r, NEW s, NEW b, Edges(a, r, s), RxOk(r, s, b), StatusesOk(a, r, s),
         NEW n \in Nat, BuildStatus(n)
  PROVE  StatusesOk(a, r, s)'
<1> DEFINE e == StatusUpTo(n)
<1>1. e \in StatusRecords /\ StatusOk(e, a, r, s)
  BY StatusFacts
<1>2. statuses' = Append(statuses, e) /\ UNCHANGED rx_window
  BY DEF BuildStatus
<1> HIDE DEF e
<1>3. /\ statuses \in Seq(StatusRecords)
      /\ \A k \in 1 .. Len(statuses) : statuses[k].late \/ StatusOk(statuses[k], a, r, s)
  BY DEF StatusesOk
<1>4. /\ statuses' \in Seq(StatusRecords) /\ Len(statuses') = Len(statuses) + 1
      /\ \A k \in 1 .. Len(statuses) : statuses'[k] = statuses[k]
      /\ statuses'[Len(statuses) + 1] = e
  BY <1>1, <1>2, <1>3, AppendProperties
<1>5. Len(statuses) \in Nat
  BY <1>3, LenProperties
<1>6. ASSUME NEW k \in 1 .. Len(statuses') PROVE statuses'[k].late \/ StatusOk(statuses'[k], a, r, s)
  <2>1. k \in 1 .. Len(statuses) \/ k = Len(statuses) + 1
    BY <1>4, <1>5
  <2>2. QED BY <1>1, <1>3, <1>4, <2>1
<1>7. \A k \in 1 .. Len(statuses') : statuses'[k].late \/ StatusOk(statuses[k], a, r, s)'
  BY <1>2, <1>6 DEF StatusOk
<1>8. QED BY <1>4, <1>7 DEF StatusesOk

\* The statuses that are left when one has arrived or is lost.
LEMMA StatusGone ==
  ASSUME NEW a, NEW r, NEW s, StatusesOk(a, r, s), NEW k \in DOMAIN statuses
  PROVE  /\ statuses[k] \in StatusRecords /\ (statuses[k].late \/ StatusOk(statuses[k], a, r, s))
         /\ RemoveAt(statuses, k) \in Seq(StatusRecords)
         /\ \A j \in 1 .. Len(RemoveAt(statuses, k)) :
              RemoveAt(statuses, k)[j].late \/ StatusOk(RemoveAt(statuses, k)[j], a, r, s)
<1> DEFINE rest == RemoveAt(statuses, k)
<1>1. /\ statuses \in Seq(StatusRecords)
      /\ \A j \in 1 .. Len(statuses) : statuses[j].late \/ StatusOk(statuses[j], a, r, s)
  BY DEF StatusesOk
<1>2. Len(statuses) \in Nat /\ k \in 1 .. Len(statuses)
  BY <1>1, LenProperties
<1>3. /\ rest \in Seq(StatusRecords) /\ Len(rest) = Len(statuses) - 1
      /\ \A j \in 1 .. Len(statuses) - 1 : rest[j] = IF j < k THEN statuses[j] ELSE statuses[j + 1]
  BY <1>1, <1>2, RemoveAtFacts
<1>4. statuses[k] \in StatusRecords
  BY <1>1, <1>2, ElementOfSeq
<1> HIDE DEF rest
<1>5. ASSUME NEW j \in 1 .. Len(rest) PROVE rest[j].late \/ StatusOk(rest[j], a, r, s)
  <2>1. PICK l \in 1 .. Len(statuses) : rest[j] = statuses[l]
    BY <1>2, <1>3
  <2>2. QED BY <1>1, <2>1
<1>6. QED BY <1>1, <1>2, <1>3, <1>4, <1>5 DEF rest

LEMMA StatusLost ==
  ASSUME NEW a, NEW r, NEW s, StatusesOk(a, r, s), NEW k \in DOMAIN statuses,
         statuses' = RemoveAt(statuses, k), UNCHANGED rx_window
  PROVE  StatusesOk(a, r, s)'
<1>1. statuses' \in Seq(StatusRecords)
  BY StatusGone
<1>2. \A j \in 1 .. Len(statuses') : statuses'[j].late \/ StatusOk(statuses'[j], a, r, s)
  BY StatusGone
<1>3. \A j \in 1 .. Len(statuses') : statuses'[j].late \/ StatusOk(statuses[j], a, r, s)'
  BY <1>2 DEF StatusOk
<1>4. QED BY <1>1, <1>3 DEF StatusesOk

\* Those that the edge passes are late from then on.
LEMMA StatusReceived ==
  ASSUME NEW a, NEW r, NEW s, Edges(a, r, s), StatusesOk(a, r, s), NEW k \in DOMAIN statuses,
         NEW o \in a .. s, vt_a = SN(a), vt_a' = SN(o), ReceiveStatus(k)
  PROVE  StatusesOk(o, r, s)'
<1> DEFINE rest == RemoveAt(statuses, k)
           marked(j) == [rest[j] EXCEPT !.late = @ \/ Behind(rest[j].ack_sn)]
<1>1. statuses' = [j \in DOMAIN rest |-> marked(j)] /\ UNCHANGED rx_window
  BY DEF ReceiveStatus, rxVars
<1>2. /\ rest \in Seq(StatusRecords)
      /\ \A j \in 1 .. Len(rest) : rest[j].late \/ StatusOk(rest[j], a, r, s)
  BY StatusGone
<1>3. a \in Nat /\ s \in Nat /\ s - a < MOD
  BY Sizes DEF Edges
<1> HIDE DEF rest
<1>4. Len(rest) \in Nat /\ DOMAIN rest = 1 .. Len(rest) /\ \A j \in 1 .. Len(rest) : rest[j] \in StatusRecords
  BY <1>2, LenProperties, ElementOfSeq
<1>5. \A j \in 1 .. Len(rest) : marked(j) \in StatusRecords
  BY <1>4 DEF StatusRecords, Behind
<1>6. statuses' \in Seq(StatusRecords) /\ Len(statuses') = Len(rest) /\ \A j \in 1 .. Len(rest) : statuses'[j] = marked(j)
  <2> HIDE DEF marked
  <2>1. statuses' = [j \in 1 .. Len(rest) |-> marked(j)]
    BY <1>1, <1>4
  <2>2. statuses' \in Seq(StatusRecords)
    BY <1>4, <1>5, <2>1, IsASeq
  <2>3. DOMAIN statuses' = 1 .. Len(rest)
    BY <2>1
  <2>4. Len(statuses') = Len(rest)
    BY <1>4, <2>2, <2>3, LenProperties
  <2>5. QED BY <2>1, <2>2, <2>4
<1>7. ASSUME NEW j \in 1 .. Len(rest), ~ statuses'[j].late
      PROVE  StatusOk(statuses'[j], o, r, s)
  <2>1. rest[j] \in StatusRecords /\ statuses'[j] = marked(j)
    BY <1>4, <1>6
  <2>2. /\ ~ rest[j].late /\ ~ Behind(rest[j].ack_sn)
        /\ statuses'[j].ack_sn = rest[j].ack_sn /\ statuses'[j].nacks = rest[j].nacks
    BY <1>7, <2>1 DEF StatusRecords
  <2>3. PICK e \in a .. s : /\ rest[j].ack_sn = SN(e)
                            /\ \A i \in r .. e - 1 : SN(i) \in rest[j].nacks \cup DOMAIN rx_window
    BY <1>2, <2>2 DEF StatusOk
  <2>4. Base(SN(e), SN(a)) = e - a /\ Base(SN(o), SN(a)) = o - a
    <3>1. e \in Int /\ a <= e /\ e - a < MOD /\ o \in Int /\ a <= o /\ o - a < MOD
      BY <1>3, Sizes
    <3>2. QED BY <1>3, <3>1, BaseAhead
  <2>5. e \in o .. s
    BY <1>3, <2>2, <2>3, <2>4 DEF Behind
  <2>6. QED BY <2>2, <2>3, <2>5 DEF StatusOk
<1>8. \A j \in 1 .. Len(statuses') : statuses'[j].late \/ StatusOk(statuses[j], o, r, s)'
  BY <1>1, <1>6, <1>7 DEF StatusOk
<1>9. QED BY <1>6, <1>8 DEF StatusesOk

-----------------------------------------------------------------------------
(***************************************************************************)
(* Every step.                                                             *)
(***************************************************************************)
LEMMA TxSame ==
  ASSUME NEW a, NEW s, NEW b, TxOk(a, s, b), UNCHANGED <<written, txVars>>
  PROVE  TxOk(a, s, b)'
BY DEF TxOk, txVars

LEMMA RxSame ==
  ASSUME NEW r, NEW s, NEW b, RxOk(r, s, b),
         UNCHANGED <<vr_r, rx_window, rx_segments, rx_sdu, delivered>>
  PROVE  RxOk(r, s, b)' /\ Delivers
<1>1. RxOk(r, s, b)'
  BY DEF RxOk
<1>2. QED BY <1>1, NothingDelivered

LEMMA StatusesSame ==
  ASSUME NEW a, NEW r, NEW s, StatusesOk(a, r, s), UNCHANGED <<statuses, rx_window>>
  PROVE  StatusesOk(a, r, s)'
BY DEF StatusesOk, StatusOk

LEMMA StatusesAhead ==
  ASSUME NEW a, NEW r \in Nat, NEW s \in Nat, NEW o \in r .. s, StatusesOk(a, r, s), a \in Nat,
         Keeps(o, s), UNCHANGED statuses
  PROVE  StatusesOk(a, o, s)'
<1>1. ASSUME NEW status, StatusOk(status, a, r, s)
      PROVE  \E e \in a .. s : /\ status.ack_sn = SN(e)
                               /\ \A i \in o .. e - 1 : SN(i) \in status.nacks \cup DOMAIN rx_window'
  <2>1. PICK e \in a .. s : /\ status.ack_sn = SN(e)
                            /\ \A i \in r .. e - 1 : SN(i) \in status.nacks \cup DOMAIN rx_window
    BY <1>1 DEF StatusOk
  <2>2. \A i \in o .. e - 1 : i \in r .. e - 1 /\ i \in o .. s - 1
    OBVIOUS
  <2>3. QED BY <2>1, <2>2 DEF Keeps
<1>2. \A k \in 1 .. Len(statuses) : statuses[k].late \/ StatusOk(statuses[k], a, o, s)'
  BY <1>1 DEF StatusesOk, StatusOk
<1>3. QED BY <1>2 DEF StatusesOk

\* What a step does to the SDUs, as a whole.
Writes == \/ UNCHANGED written
          \/ written < Len(SduEnds) /\ written' = written + 1 /\ UNCHANGED delivered

LEMMA InitInv ==
  ASSUME Init
  PROVE  RlcInv
<1> DEFINE b == [i \in 0 .. 0 |-> 0]
<1>1. Edges(0, 0, 0)
  BY Sizes DEF Edges
<1>2. b \in [0 .. 0 -> Nat] /\ b[0] = 0 /\ Cut(0, b)
  BY DEF Cut
<1> HIDE DEF b
<1>3. SN(0) = 0
  <2>1. 0 \in SNs
    BY Sizes
  <2>2. QED BY <2>1, SnSmall
<1>4. /\ DOMAIN tx_window = {} /\ DOMAIN rx_window = {} /\ DOMAIN rx_segments = {}
      /\ DOMAIN statuses = {} /\ Len(statuses) = 0
  <2>1. DOMAIN << >> = {} /\ Len(<< >>) = 0
    BY EmptySeq, LenProperties
  <2>2. QED BY <2>1 DEF Init
<1>5. TxOk(0, 0, b)
  <2>1. 0 .. 0 - 1 = {} /\ 0 \in 0 .. Len(SduEnds) /\ EndOf(0) = 0
    BY EndFacts
  <2>2. DOMAIN tx_window = {SN(i) : i \in 0 .. 0 - 1} /\ Holds(tx_window, 0, 0, b)
    BY <1>4, <2>1 DEF Holds
  <2>3. retx_queue \in Seq(Retxs(0, 0, b))
    BY EmptySeq DEF Init
  <2>4. vt_a = SN(0) /\ vt_s = SN(0) /\ written = 0 /\ moved = 0
    BY <1>3 DEF Init
  <2>5. QED BY <1>2, <2>1, <2>2, <2>3, <2>4 DEF TxOk
<1>6. AirOk(0, b)
  BY EmptySeq DEF Init, AirOk
<1>7. StatusesOk(0, 0, 0)
  <2>1. statuses \in Seq(StatusRecords) /\ 1 .. Len(statuses) = {}
    BY <1>4, EmptySeq DEF Init
  <2>2. QED BY <2>1 DEF StatusesOk
<1>8. RxOk(0, 0, b)
  <2>1. Holds(rx_window, 0 + 1, 0, b) /\ SegmentsOk(rx_segments, 0, 0, b)
    BY <1>4 DEF Holds, SegmentsOk
  <2>2. Passed(0, b[0])
    <3>1. 0 \in 0 .. Len(SduEnds) /\ EndOf(0) <= 0
      BY EndFacts
    <3>2. 0 < Len(SduEnds) => 0 < EndOf(0 + 1)
      <4>1. SUFFICES ASSUME 0 < Len(SduEnds) PROVE 0 < EndOf(0 + 1)
        OBVIOUS
      <4>2. 1 \in 1 .. Len(SduEnds) /\ 1 - 1 = 0 /\ 0 + 1 = 1
        BY <4>1, EndFacts
      <4>3. EndOf(1 - 1) < EndOf(1)
        BY <4>2, EndFacts
      <4>4. QED BY <4>2, <4>3, EndFacts
    <3>3. QED BY <1>2, <3>1, <3>2 DEF Passed
  <2>3. At(0, b[0]).sdu = << >> /\ At(0, b[0]).out = << >>
    <3>1. EndOf(0) = 0 /\ b[0] = 0
      BY <1>2, EndFacts
    <3>2. Units(EndOf(0) + 1, b[0]) = << >>
      BY <3>1, NoUnits
    <3>3. Sdus(0) = << >>
      <4>1. 0 \in 0 .. Len(SduEnds)
        BY EndFacts
      <4>2. Sdus(0) \in Seq(Seq(Nat)) /\ Len(Sdus(0)) = 0
        BY <4>1, SdusFacts
      <4>3. QED BY <4>2, EmptySeq
    <3>4. QED BY <3>2, <3>3 DEF At
  <2>4. vr_r = SN(0) /\ rx_sdu = << >> /\ delivered = << >>
    BY <1>3 DEF Init
  <2>5. QED BY <2>1, <2>2, <2>3, <2>4 DEF RxOk
<1>9. QED BY <1>1, <1>2, <1>5, <1>6, <1>7, <1>8 DEF RlcInv, Inv

LEMMA WriteSduSafe ==
  ASSUME NEW a, NEW s, NEW b, TxOk(a, s, b), Cut(s, b), WriteSdu
  PROVE  TxOk(a, s, b)'
<1>1. written \in 0 .. Len(SduEnds) /\ moved = b[s] /\ moved <= EndOf(written)
  BY DEF TxOk
<1>2. /\ written < Len(SduEnds) /\ written' = written + 1
      /\ UNCHANGED <<moved, vt_a, vt_s, tx_window, retx_queue>>
  BY DEF WriteSdu, txVars
<1>3. moved \in Nat
  BY <1>1 DEF Cut
<1>4. moved <= EndOf(written + 1) /\ written + 1 \in 0 .. Len(SduEnds)
  <2> DEFINE k == written + 1
  <2>1. k \in written .. Len(SduEnds) /\ k \in 0 .. Len(SduEnds)
    BY <1>1, <1>2, EndFacts
  <2> HIDE DEF k
  <2>2. EndOf(written) <= EndOf(k) /\ EndOf(written) \in Nat /\ EndOf(k) \in Nat
    BY <1>1, <2>1, EndsAscend, EndFacts
  <2>3. moved <= EndOf(k)
    BY <1>1, <1>3, <2>2
  <2>4. QED BY <2>1, <2>3 DEF k
<1>5. QED BY <1>2, <1>4 DEF TxOk

LEMMA ExpirePollSafe ==
  ASSUME NEW a, NEW r, NEW s, NEW b, Edges(a, r, s), Cut(s, b), TxOk(a, s, b), ExpirePoll
  PROVE  TxOk(a, s, b)'
<1>1. retx_queue \in Seq(Retxs(a, s, b))
  BY DEF TxOk
<1>2. retx_queue' \in Seq(Retxs(a, s, b))
  <2>1. CASE retx_queue' \in RandomRetx(retx_queue)
    BY <1>1, <2>1, RandomRetxSafe
  <2>2. CASE UNCHANGED retx_queue
    BY <1>1, <2>2
  <2>3. QED BY <2>1, <2>2 DEF ExpirePoll
<1>3. UNCHANGED <<written, moved, vt_a, vt_s, tx_window>>
  BY DEF ExpirePoll
<1>4. QED BY <1>2, <1>3 DEF TxOk

\* Every step keeps the invariant, writes at most one SDU, and delivers some of those
\* that follow, or none.
LEMMA StepInv ==
  ASSUME Segmentable, RlcInv, [Next]_vars, ~misled'
  PROVE  ~misled /\ RlcInv' /\ Writes /\ Delivers
<1>0. ~misled
  <2>1. SUFFICES ASSUME misled PROVE FALSE
    OBVIOUS
  <2>2. misled'
    BY <2>1 DEF Next, vars, WriteSdu, ExpirePoll, ExpireReordering, Lose, BuildStatus, ReadPdu,
                ReceivePdu, ReceiveStatus
  <2>3. QED BY <2>2
<1> SUFFICES RlcInv' /\ Writes /\ Delivers
  BY <1>0
<1>1. PICK a, r, s, b : Inv(a, r, s, b)
  BY <1>0 DEF RlcInv
<1>2. /\ Edges(a, r, s) /\ Cut(s, b) /\ TxOk(a, s, b) /\ AirOk(s, b) /\ StatusesOk(a, r, s)
      /\ RxOk(r, s, b)
  BY <1>1 DEF Inv
<1>3. a \in Nat /\ r \in Nat /\ s \in Nat /\ a <= r /\ r <= s /\ s <= a + Window /\ Window \in Nat
  BY <1>2, Sizes DEF Edges
<1>4. ASSUME NEW o, NEW p, NEW t, NEW c, Edges(o, p, t), Cut(t, c), TxOk(o, t, c)', AirOk(t, c)',
             StatusesOk(o, p, t)', RxOk(p, t, c)'
      PROVE  RlcInv'
  BY <1>4 DEF RlcInv, Inv
<1>5. CASE WriteSdu
  <2>1. UNCHANGED <<air, statuses, vr_r, rx_window, rx_segments, rx_sdu, delivered>> /\ Writes
    BY <1>5 DEF WriteSdu, rxVars, Writes
  <2>2. TxOk(a, s, b)' /\ RxOk(r, s, b)' /\ Delivers /\ StatusesOk(a, r, s)'
    BY <1>2, <1>5, <2>1, WriteSduSafe, RxSame, StatusesSame
  <2>3. AirOk(s, b)'
    BY <1>2, <2>1 DEF AirOk
  <2>4. QED BY <1>2, <1>4, <2>1, <2>2, <2>3
<1>6. CASE ExpirePoll
  <2>1. UNCHANGED <<written, air, statuses, vr_r, rx_window, rx_segments, rx_sdu, delivered>> /\ Writes
    BY <1>6 DEF ExpirePoll, rxVars, Writes
  <2>2. TxOk(a, s, b)' /\ RxOk(r, s, b)' /\ Delivers /\ StatusesOk(a, r, s)'
    BY <1>2, <1>6, <2>1, ExpirePollSafe, RxSame, StatusesSame
  <2>3. AirOk(s, b)'
    BY <1>2, <2>1 DEF AirOk
  <2>4. QED BY <1>2, <1>4, <2>1, <2>2, <2>3
<1>7. ASSUME NEW k \in DOMAIN statuses, ReceiveStatus(k) PROVE RlcInv' /\ Writes /\ Delivers
  <2>1. /\ HandleControl(statuses[k]) /\ (statuses[k].late => vt_a' = vt_a)
        /\ UNCHANGED <<written, air, vr_r, rx_window, rx_segments, rx_sdu, delivered>> /\ Writes
    BY <1>7 DEF ReceiveStatus, rxVars, Writes
  <2>2. statuses[k] \in StatusRecords /\ (statuses[k].late \/ StatusOk(statuses[k], a, r, s))
    BY <1>2, StatusGone
  <2>3. SN(r) \notin DOMAIN rx_window
    BY <1>2, ReceiverWaits
  <2>4. PICK o \in a .. s : TxOk(o, s, b)' /\ (StatusOk(statuses[k], a, r, s) => o <= r)
    BY <1>2, <2>1, <2>2, <2>3, HandleControlSafe
  <2>5. vt_a = SN(a) /\ vt_a' = SN(o)
    BY <1>2, <2>4 DEF TxOk
  <2>6. o <= r
    <3>1. CASE statuses[k].late
      <4>1. SN(o) = SN(a)
        BY <2>1, <2>5, <3>1
      <4>2. o \in Int /\ a \in Int /\ s - Window <= o /\ o <= s /\ s - Window <= a /\ a <= s
        BY <1>3
      <4>3. o = a
        BY <1>3, <4>1, <4>2, OnePdu
      <4>4. QED BY <1>3, <4>3
    <3>2. CASE ~statuses[k].late
      BY <2>2, <2>4, <3>2
    <3>3. QED BY <3>1, <3>2
  <2>7. Edges(o, r, s)
    BY <1>3, <2>6 DEF Edges
  <2>8. StatusesOk(o, r, s)'
    BY <1>2, <1>7, <2>5, StatusReceived
  <2>9. RxOk(r, s, b)' /\ Delivers
    BY <1>2, <2>1, RxSame
  <2>10. AirOk(s, b)'
    BY <1>2, <2>1 DEF AirOk
  <2>11. QED BY <1>2, <1>4, <2>1, <2>4, <2>7, <2>8, <2>9, <2>10
<1>8. CASE ExpireReordering
  <2>1. /\ UNCHANGED <<written, txVars, air, statuses, vr_r, rx_window, rx_segments, rx_sdu, delivered>>
        /\ Writes
    BY <1>8 DEF ExpireReordering, Writes
  <2>2. TxOk(a, s, b)' /\ RxOk(r, s, b)' /\ Delivers /\ StatusesOk(a, r, s)'
    BY <1>2, <2>1, TxSame, RxSame, StatusesSame
  <2>3. AirOk(s, b)'
    BY <1>2, <2>1 DEF AirOk
  <2>4. QED BY <1>2, <1>4, <2>1, <2>2, <2>3
<1>9. CASE Lose
  <2>1. UNCHANGED <<written, txVars, vr_r, rx_window, rx_segments, rx_sdu, delivered>> /\ Writes
    BY <1>9 DEF Lose, rxVars, Writes
  <2>2. TxOk(a, s, b)' /\ RxOk(r, s, b)' /\ Delivers
    BY <1>2, <2>1, TxSame, RxSame
  <2>3. CASE \E k \in DOMAIN air : air' = RemoveAt(air, k) /\ UNCHANGED statuses
    <3>1. PICK k \in DOMAIN air : air' = RemoveAt(air, k) /\ UNCHANGED statuses
      BY <2>3
    <3>2. air \in Seq(Pdus(s, b)) /\ k \in 1 .. Len(air)
      BY <1>2, LenProperties DEF AirOk
    <3>3. AirOk(s, b)'
      BY <3>1, <3>2, RemoveAtFacts DEF AirOk
    <3>4. StatusesOk(a, r, s)'
      BY <1>2, <2>1, <3>1, StatusesSame
    <3>5. QED BY <1>2, <1>4, <2>1, <2>2, <3>3, <3>4
  <2>4. CASE \E k \in DOMAIN statuses : statuses' = RemoveAt(statuses, k) /\ UNCHANGED air
    <3>1. PICK k \in DOMAIN statuses : statuses' = RemoveAt(statuses, k) /\ UNCHANGED air
      BY <2>4
    <3>2. AirOk(s, b)'
      BY <1>2, <3>1 DEF AirOk
    <3>3. StatusesOk(a, r, s)'
      BY <1>2, <2>1, <3>1, StatusLost
    <3>4. QED BY <1>2, <1>4, <2>1, <2>2, <3>2, <3>3
  <2>5. QED BY <1>9, <2>3, <2>4 DEF Lose
<1>10. ASSUME NEW n \in 0 .. Base(vr_ms, vr_r), BuildStatus(n) PROVE RlcInv' /\ Writes /\ Delivers
  <2>1. UNCHANGED <<written, txVars, air, vr_r, rx_window, rx_segments, rx_sdu, delivered>> /\ Writes
    BY <1>10 DEF BuildStatus, Writes
  <2>2. n \in Nat
    OBVIOUS
  <2>3. StatusesOk(a, r, s)'
    BY <1>2, <1>10, <2>2, BuildStatusSafe
  <2>4. TxOk(a, s, b)' /\ RxOk(r, s, b)' /\ Delivers
    BY <1>2, <2>1, TxSame, RxSame
  <2>5. AirOk(s, b)'
    BY <1>2, <2>1 DEF AirOk
  <2>6. QED BY <1>2, <1>4, <2>1, <2>3, <2>4, <2>5
<1>11. ASSUME NEW grant \in Grants, ReadPdu(grant) PROVE RlcInv' /\ Writes /\ Delivers
  <2>1. UNCHANGED <<written, statuses, vr_r, rx_window, rx_segments, rx_sdu, delivered>> /\ Writes
    BY <1>11 DEF ReadPdu, rxVars, Writes
  <2>2. RxOk(r, s, b)' /\ Delivers /\ StatusesOk(a, r, s)'
    BY <1>2, <2>1, RxSame, StatusesSame
  <2>3. CASE TxOk(a, s, b)' /\ AirOk(s, b)'
    BY <1>2, <1>4, <2>1, <2>2, <2>3
  <2>4. CASE s < a + Window /\ \E c : /\ Cut(s + 1, c) /\ Longer(s, b, c)
                                      /\ TxOk(a, s + 1, c)' /\ AirOk(s + 1, c)'
    <3>1. PICK c : Cut(s + 1, c) /\ Longer(s, b, c) /\ TxOk(a, s + 1, c)' /\ AirOk(s + 1, c)'
      BY <2>4
    <3>2. Edges(a, r, s + 1)
      BY <1>3, <2>4 DEF Edges
    <3>3. RxOk(r, s + 1, c)
      BY <1>2, <3>1, RxLonger
    <3>4. StatusesOk(a, r, s + 1)
      BY <1>2, StatusesLonger
    <3>5. RxOk(r, s + 1, c)' /\ StatusesOk(a, r, s + 1)'
      BY <2>1, <3>3, <3>4, RxSame, StatusesSame
    <3>6. QED BY <1>4, <2>1, <2>2, <3>1, <3>2, <3>5
  <2>5. QED BY <1>2, <1>11, <2>3, <2>4, ReadPduSafe
<1>12. ASSUME NEW k \in DOMAIN air, ReceivePdu(k) PROVE RlcInv' /\ Writes /\ Delivers
  <2>1. UNCHANGED <<written, txVars, statuses>> /\ Writes
    BY <1>12 DEF ReceivePdu, Writes
  <2>2. Delivers /\ AirOk(s, b)' /\ \E o \in r .. s : RxOk(o, s, b)' /\ Keeps(o, s)
    BY <1>2, <1>12, ReceivePduSafe
  <2>3. PICK o \in r .. s : RxOk(o, s, b)' /\ Keeps(o, s)
    BY <2>2
  <2>4. Edges(a, o, s)
    BY <1>3 DEF Edges
  <2>5. StatusesOk(a, o, s)'
    BY <1>2, <1>3, <2>1, <2>3, StatusesAhead
  <2>6. TxOk(a, s, b)'
    BY <1>2, <2>1, TxSame
  <2>7. QED BY <1>2, <1>4, <2>1, <2>2, <2>3, <2>4, <2>5, <2>6
<1>13. CASE UNCHANGED vars
  <2>1. /\ UNCHANGED <<written, txVars, air, statuses, vr_r, rx_window, rx_segments, rx_sdu, delivered>>
        /\ Writes
    BY <1>13 DEF vars, rxVars, Writes
  <2>2. TxOk(a, s, b)' /\ RxOk(r, s, b)' /\ Delivers /\ StatusesOk(a, r, s)'
    BY <1>2, <2>1, TxSame, RxSame, StatusesSame
  <2>3. AirOk(s, b)'
    BY <1>2, <2>1 DEF AirOk
  <2>4. QED BY <1>2, <1>4, <2>1, <2>2, <2>3
<1>14. QED
  BY <1>5, <1>6, <1>7, <1>8, <1>9, <1>10, <1>11, <1>12, <1>13 DEF Next

LEMMA InvKept ==
  ASSUME Segmentable, RlcInv, [Next]_vars
  PROVE  RlcInv'
<1>1. CASE misled'
  BY <1>1 DEF RlcInv
<1>2. CASE ~misled'
  BY <1>2, StepInv
<1>3. QED BY <1>1, <1>2

-----------------------------------------------------------------------------
(***************************************************************************)
(* The theorems.                                                           *)
(***************************************************************************)
LEMMA AmongUnits ==
  ASSUME NEW x \in Nat, NEW y \in Nat, NEW u \in Nat, x < u, u <= y
  PROVE  \E k \in DOMAIN Units(x + 1, y) : Units(x + 1, y)[k] = u
<1>1. DOMAIN Units(x + 1, y) = 1 .. y - x /\ \A k \in 1 .. y - x : Units(x + 1, y)[k] = x + k
  BY UnitsFacts
<1>2. u - x \in 1 .. y - x /\ x + (u - x) = u
  OBVIOUS
<1>3. QED BY <1>1, <1>2

\* What has been sent and has not arrived in order is in the sending window; what
\* has is in a delivered SDU or in the one being put together.
LEMMA InvNothingForgotten ==
  ASSUME RlcInv
  PROVE  NothingForgotten
<1>0. SUFFICES ASSUME ~misled PROVE NothingForgotten
  BY DEF NothingForgotten
<1>1. PICK a, r, s, b : Inv(a, r, s, b)
  BY <1>0 DEF RlcInv
<1>2. Edges(a, r, s) /\ Cut(s, b) /\ TxOk(a, s, b) /\ RxOk(r, s, b)
  BY <1>1 DEF Inv
<1>3. a \in Nat /\ r \in Nat /\ s \in Nat /\ a <= r /\ r <= s /\ s <= a + Window
  BY <1>2 DEF Edges
<1>4. moved = b[s] /\ b[s] \in Nat /\ b[r] \in Nat
  BY <1>2, <1>3 DEF TxOk, Cut
<1>5. PICK n : Passed(n, b[r]) /\ rx_sdu = At(n, b[r]).sdu /\ delivered = At(n, b[r]).out
  BY <1>2 DEF RxOk
<1>6. n \in 0 .. Len(SduEnds) /\ EndOf(n) \in Nat /\ EndOf(n) <= b[r]
  BY <1>5, EndFacts DEF Passed
<1>7. rx_sdu = Units(EndOf(n) + 1, b[r]) /\ delivered = Sdus(n)
  BY <1>5 DEF At
<1>8. SUFFICES ASSUME NEW u \in 1 .. moved PROVE u \in Held \cup Received
  BY DEF NothingForgotten
<1>9. u \in Nat /\ u > 0 /\ u <= b[s]
  BY <1>4
<1>10. CASE b[r] < u
  <2>1. PICK i \in r .. s - 1 : b[i] < u /\ u <= b[i + 1]
    BY <1>2, <1>3, <1>9, <1>10, InSomePdu
  <2>2. i \in 0 .. s - 1 /\ i \in a .. s - 1 /\ i \in Int /\ s - Window <= i /\ i <= s /\ s - Window <= a
    BY <1>3, <2>1, Sizes
  <2>3. SN(i) \in DOMAIN tx_window /\ Holds(tx_window, a, s, b)
    BY <1>2, <2>2 DEF TxOk
  <2>4. tx_window[SN(i)] = Data(b, i)
    BY <1>3, <2>2, <2>3, HeldPdu
  <2>5. b[i] \in Nat /\ b[i + 1] \in Nat
    BY <1>2, <2>2, DataFacts
  <2>6. \E k \in DOMAIN Data(b, i) : Data(b, i)[k] = u
    <3> DEFINE x == b[i]
               y == b[i + 1]
    <3>1. x \in Nat /\ y \in Nat /\ x < u /\ u <= y
      BY <2>1, <2>5
    <3> HIDE DEF x, y
    <3>2. \E k \in DOMAIN Units(x + 1, y) : Units(x + 1, y)[k] = u
      BY <1>9, <3>1, AmongUnits
    <3>3. QED BY <3>2 DEF x, y, Data
  <2>7. u \in Held
    BY <2>3, <2>4, <2>6 DEF Held, UnitsOf
  <2>8. QED BY <2>7
<1>11. CASE EndOf(n) < u /\ u <= b[r]
  <2>1. \E k \in DOMAIN rx_sdu : rx_sdu[k] = u
    BY <1>4, <1>6, <1>7, <1>9, <1>11, AmongUnits
  <2>2. u \in Received
    BY <2>1 DEF Received, UnitsOf
  <2>3. QED BY <2>2
<1>12. CASE u <= EndOf(n)
  <2> DEFINE e == [i \in 0 .. n |-> EndOf(i)]
  <2>1. n \in Nat /\ \A i \in 0 .. n : i \in 0 .. Len(SduEnds) /\ EndOf(i) \in Nat
    BY <1>6, EndFacts
  <2>2. ASSUME NEW i \in 0 .. n - 1 PROVE EndOf(i) < EndOf(i + 1)
    <3>1. i + 1 \in 1 .. Len(SduEnds) /\ (i + 1) - 1 = i
      BY <1>6, EndFacts
    <3> DEFINE j == i + 1
    <3>2. j \in 1 .. Len(SduEnds) /\ j - 1 = i
      BY <3>1
    <3> HIDE DEF j
    <3>3. EndOf(j - 1) < EndOf(j)
      BY <3>2, EndFacts
    <3>4. QED BY <3>2, <3>3 DEF j
  <2>3. \A i \in 0 .. n - 1 : i \in 0 .. n /\ i + 1 \in 0 .. n
    BY <2>1
  <2>4. Cut(n, e) /\ e[0] = 0 /\ e[n] = EndOf(n) /\ 0 \in 0 .. n
    BY <2>1, <2>2, <2>3, EndFacts DEF Cut
  <2>5. \A i \in 0 .. n : e[i] = EndOf(i)
    OBVIOUS
  <2> HIDE DEF e
  <2>6. PICK i \in 0 .. n - 1 : e[i] < u /\ u <= e[i + 1]
    BY <1>9, <1>12, <2>4, InSomePdu
  <2>7. PICK k \in 1 .. n : k = i + 1
    BY <2>1
  <2>8. k - 1 = i /\ i \in 0 .. n /\ k \in 0 .. n
    BY <2>1, <2>7
  <2>9. EndOf(k - 1) < u /\ u <= EndOf(k) /\ EndOf(k - 1) \in Nat /\ EndOf(k) \in Nat
    BY <2>1, <2>5, <2>6, <2>7, <2>8
  <2>10. \E j \in DOMAIN Sdu(k) : Sdu(k)[j] = u
    BY <1>9, <2>9, AmongUnits DEF Sdu
  <2>11. k \in DOMAIN delivered /\ delivered[k] = Sdu(k)
    BY <1>6, <1>7, SdusFacts
  <2>12. u \in Received
    BY <2>10, <2>11 DEF Received, UnitsOf
  <2>13. QED BY <2>12
<1>13. QED BY <1>4, <1>6, <1>9, <1>10, <1>11, <1>12

\* A unit that has been put into a PDU is in the sending window until the receiver
\* has it: whatever is lost, delayed or cut into segments, and however often the
\* sequence numbers wrap, a status makes the sender let go of nothing that has not
\* arrived (handle_control_pdu, handle_data_pdu, build_data_pdu).
THEOREM SenderKeepsMissing == ASSUME Segmentable PROVE Spec => []NothingForgotten
<1>1. Init => RlcInv
  BY InitInv
<1>2. RlcInv /\ [Next]_vars => RlcInv'
  BY InvKept
<1>3. RlcInv => NothingForgotten
  BY InvNothingForgotten
<1>4. QED BY <1>1, <1>2, <1>3, PTL DEF Spec

-----------------------------------------------------------------------------
\* The SDUs a bearer is given, as those of the queue it implements.
LEMMA QueueSdus ==
  [k \in 1 .. Len(SduEnds) |-> Units(EndOf(k - 1) + 1, EndOf(k))] = Sdus(Len(SduEnds))
BY DEF Sdus, Sdu

LEMMA SdusPrefix ==
  ASSUME NEW n \in 0 .. Len(SduEnds)
  PROVE  SubSeq(Sdus(Len(SduEnds)), 1, n) = Sdus(n)
<1> DEFINE t == Sdus(Len(SduEnds))
           p == Sdus(n)
<1>1. Len(SduEnds) \in Nat /\ Len(SduEnds) \in 0 .. Len(SduEnds) /\ n \in Nat
  BY EndFacts
<1>2. /\ t \in Seq(Seq(Nat)) /\ Len(t) = Len(SduEnds) /\ \A k \in 1 .. Len(SduEnds) : t[k] = Sdu(k)
      /\ p \in Seq(Seq(Nat)) /\ Len(p) = n /\ \A k \in 1 .. n : p[k] = Sdu(k)
  BY <1>1, SdusFacts
<1> HIDE DEF t, p
<1>3. \A k \in 1 .. n : t[k] \in Seq(Nat)
  BY <1>1, <1>2, ElementOfSeq
<1>4. /\ SubSeq(t, 1, n) \in Seq(Seq(Nat)) /\ Len(SubSeq(t, 1, n)) = n
      /\ \A k \in 1 .. n : SubSeq(t, 1, n)[k] = t[k]
  BY <1>1, <1>2, SubSeqProperties
<1>5. \A k \in 1 .. n : SubSeq(t, 1, n)[k] = p[k]
  BY <1>1, <1>2, <1>4
<1>6. SubSeq(t, 1, n) = p
  BY <1>2, <1>4, <1>5, SeqEqual
<1>7. QED BY <1>6 DEF t, p

\* Only what has been written is delivered.
DeliveredWritten == \A m \in 0 .. Len(SduEnds) : delivered = Sdus(m) => m <= written

LEMMA InvDeliveredWritten ==
  ASSUME RlcInv, ~misled
  PROVE  DeliveredWritten
<1>0. SUFFICES ASSUME NEW m \in 0 .. Len(SduEnds), delivered = Sdus(m) PROVE m <= written
  BY DEF DeliveredWritten
<1>1. PICK a, r, s, b : Inv(a, r, s, b)
  BY DEF RlcInv
<1>2. Edges(a, r, s) /\ Cut(s, b) /\ TxOk(a, s, b) /\ RxOk(r, s, b)
  BY <1>1 DEF Inv
<1>3. r \in 0 .. s /\ s \in Nat /\ s \in r .. s
  BY <1>2 DEF Edges
<1>4. b[r] \in Nat /\ b[s] \in Nat /\ b[r] <= b[s]
  BY <1>2, <1>3, CutAscends
<1>5. PICK n : Passed(n, b[r]) /\ delivered = At(n, b[r]).out
  BY <1>2 DEF RxOk
<1>6. n \in 0 .. Len(SduEnds) /\ EndOf(n) <= b[r] /\ delivered = Sdus(n)
  BY <1>5 DEF Passed, At
<1>7. n = m
  BY <1>0, <1>6, SdusFacts
<1>8. written \in 0 .. Len(SduEnds) /\ b[s] <= EndOf(written)
  BY <1>2 DEF TxOk
<1>9. EndOf(m) \in Nat /\ EndOf(written) \in Nat /\ EndOf(m) <= EndOf(written)
  BY <1>4, <1>6, <1>7, <1>8, EndFacts
<1>10. Len(SduEnds) \in Nat
  BY EndFacts
<1>11. CASE written < m
  <2>1. m \in written .. Len(SduEnds)
    BY <1>8, <1>10, <1>11
  <2>2. EndOf(written) < EndOf(m)
    BY <1>8, <1>11, <2>1, EndsAscend
  <2>3. QED BY <1>9, <2>2
<1>12. QED BY <1>8, <1>10, <1>11

\* A step of the bearer is a step of the queue, or none, unless a status misleads it.
LEMMA QueueStep ==
  ASSUME Segmentable, RlcInv, ~misled' => DeliveredWritten', [Next]_vars
  PROVE  [misled' \/ Queue!Next]_(Queue!vars)
<1>0. SUFFICES ASSUME ~misled' PROVE [Queue!Write \/ Queue!Deliver]_(Queue!vars)
  BY DEF Queue!Next
<1>1. RlcInv /\ ~misled /\ Writes /\ Delivers
  BY <1>0, StepInv
<1>2. Len(SduEnds) \in Nat /\ Len(SduEnds) \in 0 .. Len(SduEnds) /\ Len(Sdus(Len(SduEnds))) = Len(SduEnds)
  BY EndFacts, SdusFacts
<1>3. CASE written < Len(SduEnds) /\ written' = written + 1 /\ UNCHANGED delivered
  BY <1>2, <1>3, QueueSdus DEF Queue!Write
<1>4. CASE UNCHANGED written
  <2>1. PICK n \in 0 .. Len(SduEnds) : \E m \in n .. Len(SduEnds) :
               delivered = Sdus(n) /\ delivered' = Sdus(m)
    BY <1>1 DEF Delivers
  <2>2. PICK m \in n .. Len(SduEnds) : delivered = Sdus(n) /\ delivered' = Sdus(m)
    BY <2>1
  <2>3. m \in 0 .. Len(SduEnds) /\ n \in Nat /\ m \in Nat /\ Len(delivered) = n
    BY <1>2, <2>2, SdusFacts
  <2>4. m <= written
    BY <1>0, <1>4, <2>2, <2>3 DEF DeliveredWritten
  <2>5. CASE n = m
    BY <1>4, <2>2, <2>5 DEF Queue!vars
  <2>6. CASE n # m
    <3>1. written \in Nat
      <4>1. PICK a, r, s, b : Inv(a, r, s, b)
        BY <1>1 DEF RlcInv
      <4>2. written \in 0 .. Len(SduEnds)
        BY <4>1 DEF Inv, TxOk
      <4>3. QED BY <4>2
    <3>2. m \in Len(delivered) + 1 .. written
      BY <2>2, <2>3, <2>4, <2>6, <3>1
    <3>3. delivered' = SubSeq(Sdus(Len(SduEnds)), 1, m)
      BY <2>2, <2>3, SdusPrefix
    <3>4. QED BY <1>4, <3>2, <3>3, QueueSdus DEF Queue!Deliver
  <2>7. QED BY <2>5, <2>6
<1>5. QED BY <1>1, <1>3, <1>4 DEF Writes

\* The bearer implements the queue: the SDUs come out whole, in the order in which
\* they were written and once each, whatever the air does to PDUs and to statuses
\* (reassemble_rx_sdus, with the windows and the segments that feed it).
THEOREM ImplementsQueue == ASSUME Segmentable PROVE Spec => InSequenceDelivery
<1>1. Init => RlcInv
  BY InitInv
<1>2. RlcInv /\ [Next]_vars => RlcInv'
  BY InvKept
<1>3. RlcInv => (~misled => DeliveredWritten)
  BY InvDeliveredWritten
<1>4. RlcInv /\ (~misled => DeliveredWritten)' /\ [Next]_vars => [misled' \/ Queue!Next]_(Queue!vars)
  BY QueueStep
<1>5. Init => Queue!Init
  BY DEF Init, Queue!Init
<1>6. QED BY <1>1, <1>2, <1>3, <1>4, <1>5, PTL DEF Spec, InSequenceDelivery
=============================================================================
