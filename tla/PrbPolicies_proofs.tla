-------------------------- MODULE PrbPolicies_proofs --------------------------
(***************************************************************************)
(* What PrbPolicies says of the two policies that share a slice, proved    *)
(* for every number of users, every request and every size of slice.       *)
(*                                                                         *)
(* The first part is about sums: nof_allocated is a fold, which picks the  *)
(* users in an order nobody knows, so that it is shown first that a user   *)
(* may be taken out of a sum anywhere.                                     *)
(***************************************************************************)
EXTENDS PrbPolicies, OrderFacts

-----------------------------------------------------------------------------
(* Sums. *)

\* What holds for a set as soon as it holds for its strict subsets, holds for every
\* part of a finite set.
LEMMA FromSubsets ==
  ASSUME NEW D, IsFiniteSet(D), NEW G,
         \A s \in SUBSET D : (\A t \in SUBSET s : t # s => t \in G) => s \in G
  PROVE  \A s \in SUBSET D : s \in G
<1> DEFINE Bad == {s \in SUBSET D : s \notin G}
           Sizes == {Cardinality(s) : s \in Bad}
<1> SUFFICES ASSUME Bad # {} PROVE FALSE
  OBVIOUS
<1>1. \A s \in SUBSET D : IsFiniteSet(s) /\ Cardinality(s) \in 0 .. Cardinality(D)
  BY FS_Subset, FS_CardinalityType
<1>2. Sizes \in SUBSET Int /\ Sizes # {} /\ IsFiniteSet(Sizes)
  <2>1. Sizes \subseteq 0 .. Cardinality(D)
    BY <1>1
  <2>2. IsFiniteSet(0 .. Cardinality(D))
    BY FS_Interval, FS_CardinalityType
  <2>3. IsFiniteSet(Sizes)
    BY <2>1, <2>2, FS_Subset, Zenon
  <2>4. Sizes # {}
    OBVIOUS
  <2>5. QED BY <2>1, <2>3, <2>4
<1>3. PICK n \in Sizes : \A m \in Sizes : n <= m
  BY <1>2, LeastExists
<1>4. PICK s \in Bad : Cardinality(s) = n
  BY <1>3
<1>5. \A t \in Bad : n <= Cardinality(t)
  BY <1>3
<1>6. s \in SUBSET D /\ s \notin G
  BY <1>4
<1>7. ASSUME NEW t \in SUBSET s, t # s PROVE t \in G
  <2>1. t \in SUBSET D /\ Cardinality(t) < Cardinality(s)
    BY <1>1, <1>6, <1>7, FS_Subset
  <2>2. ~ (n <= Cardinality(t))
    BY <1>1, <1>4, <1>6, <2>1
  <2>3. QED BY <1>5, <2>1, <2>2
<1>8. QED BY <1>6, <1>7

Pick(s) == CHOOSE x \in s : TRUE

\* One round of the fold, which sums a part of f.
Round(f, g, s) == IF s = {} THEN 0 ELSE f[Pick(s)] + g[s \ {Pick(s)}]
Iter(f) == CHOOSE g : g = [s \in SUBSET DOMAIN f |-> Round(f, g, s)]

LEMMA SumIsIter ==
  ASSUME NEW f
  PROVE  Sum(f) = Iter(f)[DOMAIN f]
BY DEF Sum, FoldFunction, FoldFunctionOnSet, MapThenFoldSet, Iter, Round, Pick

\* The parts of D with at most n elements.
Parts(D, n) == {s \in SUBSET D : Cardinality(s) <= n}

LEMMA PartsShrink ==
  ASSUME NEW D, IsFiniteSet(D), NEW n \in Nat, NEW s \in Parts(D, n), s # {}
  PROVE  Pick(s) \in s /\ s \ {Pick(s)} \in Parts(D, n - 1)
<1>1. Pick(s) \in s
  BY DEF Pick
<1>2. IsFiniteSet(s) /\ s \in SUBSET D /\ Cardinality(s) <= n
  BY FS_Subset DEF Parts
<1>3. Cardinality(s \ {Pick(s)}) = Cardinality(s) - 1 /\ Cardinality(s) \in Nat
  BY <1>1, <1>2, FS_RemoveElement, FS_CardinalityType
<1>4. QED BY <1>1, <1>2, <1>3 DEF Parts

\* The fold is defined for every finite function.
LEMMA IterExists ==
  ASSUME NEW f, IsFiniteSet(DOMAIN f)
  PROVE  Iter(f) = [s \in SUBSET DOMAIN f |-> Round(f, Iter(f), s)]
<1> DEFINE D == DOMAIN f
           Is(g, n) == g = [s \in Parts(D, n) |-> Round(f, g, s)]
           None == {n \in 0 .. Cardinality(D) : ~ \E g : Is(g, n)}
<1>1. Cardinality(D) \in Nat
  BY FS_CardinalityType
<1>2. \E g : Is(g, 0)
  <2>1. Parts(D, 0) = {{}}
    <3>1. \A s \in Parts(D, 0) : s = {}
      BY FS_Subset, FS_CardinalityType, FS_EmptySet DEF Parts
    <3>2. {} \in Parts(D, 0)
      BY FS_EmptySet DEF Parts
    <3>3. QED BY <3>1, <3>2
  <2> DEFINE g == [s \in Parts(D, 0) |-> 0]
  <2>2. \A s \in Parts(D, 0) : Round(f, g, s) = 0
    BY <2>1 DEF Round
  <2>3. Is(g, 0)
    BY <2>2
  <2>4. QED BY <2>3
<1>3. ASSUME NEW n \in Nat, NEW g, Is(g, n)
      PROVE  \E h : Is(h, n + 1)
  <2> DEFINE h == [s \in Parts(D, n + 1) |-> Round(f, g, s)]
  <2>1. \A t \in Parts(D, n) : t \in Parts(D, n + 1) /\ h[t] = g[t]
    <3>1. \A t \in Parts(D, n) : t \in Parts(D, n + 1)
      BY FS_Subset, FS_CardinalityType DEF Parts
    <3>2. \A t \in Parts(D, n) : g[t] = Round(f, g, t)
      BY <1>3
    <3>3. QED BY <3>1, <3>2
  <2>2. \A s \in Parts(D, n + 1) : Round(f, h, s) = Round(f, g, s)
    <3> HIDE DEF h
    <3>1. ASSUME NEW s \in Parts(D, n + 1), s # {}
          PROVE  h[s \ {Pick(s)}] = g[s \ {Pick(s)}]
      <4>1. n + 1 \in Nat /\ (n + 1) - 1 = n
        OBVIOUS
      <4>2. s \ {Pick(s)} \in Parts(D, n)
        BY <3>1, <4>1, PartsShrink
      <4>3. QED BY <2>1, <4>2
    <3>2. QED BY <3>1 DEF Round
  <2>3. Is(h, n + 1)
    BY <2>2
  <2>4. QED BY <2>3
<1>4. None = {}
  <2> SUFFICES ASSUME None # {} PROVE FALSE
    OBVIOUS
  <2>1. None \in SUBSET Int /\ IsFiniteSet(None)
    <3>1. None \subseteq 0 .. Cardinality(D)
      OBVIOUS
    <3>2. IsFiniteSet(0 .. Cardinality(D))
      BY <1>1, FS_Interval
    <3>3. IsFiniteSet(None)
      BY <3>1, <3>2, FS_Subset, Zenon
    <3>4. 0 .. Cardinality(D) \subseteq Int
      BY <1>1
    <3>5. QED BY <3>1, <3>3, <3>4, Zenon
  <2>2. PICK n \in None : \A m \in None : n <= m
    BY <2>1, LeastExists
  <2>3. n # 0
    BY <1>2, <2>2
  <2>4. n - 1 \in Nat /\ n - 1 \in 0 .. Cardinality(D) /\ n - 1 \notin None
    BY <1>1, <2>2, <2>3
  <2>5. \E g : Is(g, n - 1)
    BY <2>4
  <2>6. \E g : Is(g, (n - 1) + 1)
    BY <1>3, <2>4, <2>5
  <2>7. (n - 1) + 1 = n
    BY <2>2
  <2>8. QED BY <2>2, <2>6, <2>7
<1>5. \E g : Is(g, Cardinality(D))
  BY <1>1, <1>4
<1>6. Parts(D, Cardinality(D)) = SUBSET D
  BY FS_Subset DEF Parts
<1>7. \E g : g = [s \in SUBSET D |-> Round(f, g, s)]
  BY <1>5, <1>6
<1>8. QED BY <1>7 DEF Iter

\* The part s of a sum.
Part(f, s) == Iter(f)[s]

LEMMA PartRound ==
  ASSUME NEW D, IsFiniteSet(D), NEW f \in [D -> Nat]
  PROVE  /\ Part(f, {}) = 0
         /\ \A s \in SUBSET D : s # {} =>
               Pick(s) \in s /\ Part(f, s) = f[Pick(s)] + Part(f, s \ {Pick(s)})
         /\ Sum(f) = Part(f, D)
<1>1. DOMAIN f = D
  OBVIOUS
<1>2. Iter(f) = [s \in SUBSET D |-> Round(f, Iter(f), s)]
  BY <1>1, IterExists
<1>3. \A s \in SUBSET D : Iter(f)[s] = Round(f, Iter(f), s)
  BY <1>2
<1>4. \A s : s # {} => Pick(s) \in s
  BY DEF Pick
<1>5. QED BY <1>1, <1>3, <1>4, SumIsIter DEF Part, Round

\* Any element may be the one that is added last.
LEMMA PartSplits ==
  ASSUME NEW D, IsFiniteSet(D), NEW f \in [D -> Nat]
  PROVE  \A s \in SUBSET D :
            /\ Part(f, s) \in Nat
            /\ \A x \in s : Part(f, s) = f[x] + Part(f, s \ {x})
<1> DEFINE Splits(s) == /\ Part(f, s) \in Nat
                        /\ \A x \in s : Part(f, s) = f[x] + Part(f, s \ {x})
           G == {s \in SUBSET D : Splits(s)}
<1>1. ASSUME NEW s \in SUBSET D, \A t \in SUBSET s : t # s => t \in G
      PROVE  s \in G
  <2>1. CASE s = {}
    BY <2>1, PartRound
  <2>2. CASE s # {}
    <3> DEFINE p == Pick(s)
    <3>1. p \in s /\ Part(f, s) = f[p] + Part(f, s \ {p}) /\ f[p] \in Nat
      BY <2>2, PartRound
    <3> HIDE DEF p
    <3>2. Splits(s \ {p})
      <4>1. s \ {p} \in SUBSET s /\ s \ {p} # s
        BY <3>1
      <4>2. QED BY <1>1, <4>1
    <3>3. ASSUME NEW x \in s, x # p
          PROVE  Part(f, s) = f[x] + Part(f, s \ {x})
      <4>1. s \ {x} \in SUBSET s /\ s \ {x} # s
        OBVIOUS
      <4>2. Splits(s \ {x})
        BY <1>1, <4>1
      <4>3. x \in s \ {p} /\ p \in s \ {x}
        BY <3>1, <3>3
      <4>4. Part(f, s \ {p}) = f[x] + Part(f, (s \ {p}) \ {x})
        BY <3>2, <4>3
      <4>5. Part(f, s \ {x}) = f[p] + Part(f, (s \ {x}) \ {p})
        BY <4>2, <4>3
      <4>6. (s \ {p}) \ {x} = (s \ {x}) \ {p}
        OBVIOUS
      <4>7. (s \ {p}) \ {x} \in G
        <5>1. (s \ {p}) \ {x} \in SUBSET s /\ (s \ {p}) \ {x} # s
          OBVIOUS
        <5>2. QED BY <1>1, <5>1
      <4>8. f[x] \in Nat /\ f[p] \in Nat /\ Part(f, (s \ {p}) \ {x}) \in Nat
        BY <3>1, <4>7
      <4>9. QED BY <3>1, <4>4, <4>5, <4>6, <4>8
    <3>4. Part(f, s) \in Nat
      BY <3>1, <3>2
    <3>5. QED BY <3>1, <3>3, <3>4
  <2>3. QED BY <2>1, <2>2
<1> HIDE DEF G
<1>2. \A s \in SUBSET D : s \in G
  BY <1>1, FromSubsets
<1>3. QED BY <1>2 DEF G

\* A sum is at least each of its numbers, and zero only if all are.
LEMMA SumBounds ==
  ASSUME NEW D, IsFiniteSet(D), NEW f \in [D -> Nat]
  PROVE  /\ Sum(f) \in Nat
         /\ \A x \in D : f[x] <= Sum(f)
<1>1. D \in SUBSET D /\ Sum(f) = Part(f, D)
  BY PartRound
<1>2. Sum(f) \in Nat
  BY <1>1, PartSplits
<1>3. ASSUME NEW x \in D PROVE f[x] <= Sum(f)
  <2>1. Part(f, D) = f[x] + Part(f, D \ {x})
    BY <1>1, PartSplits
  <2>2. Part(f, D \ {x}) \in Nat /\ f[x] \in Nat
    BY PartSplits
  <2>3. QED BY <1>1, <2>1, <2>2
<1>4. QED BY <1>2, <1>3

LEMMA SumZero ==
  ASSUME NEW D, IsFiniteSet(D)
  PROVE  Sum([x \in D |-> 0]) = 0
<1> DEFINE f == [x \in D |-> 0]
           G == {s \in SUBSET D : Part(f, s) = 0}
<1>1. f \in [D -> Nat] /\ \A x \in D : f[x] = 0
  OBVIOUS
<1> HIDE DEF f
<1>2. ASSUME NEW s \in SUBSET D, \A t \in SUBSET s : t # s => t \in G
      PROVE  s \in G
  <2>1. CASE s = {}
    BY <1>1, <2>1, PartRound
  <2>2. CASE s # {}
    <3>1. PICK x \in s : TRUE
      BY <2>2
    <3>2. Part(f, s) = f[x] + Part(f, s \ {x})
      BY <1>1, PartSplits
    <3>3. s \ {x} \in SUBSET s /\ s \ {x} # s
      BY <3>1
    <3>4. Part(f, s \ {x}) = 0
      BY <1>2, <3>3
    <3>5. QED BY <1>1, <3>2, <3>4
  <2>3. QED BY <2>1, <2>2
<1> HIDE DEF G
<1>3. \A s \in SUBSET D : s \in G
  BY <1>2, FromSubsets
<1>4. D \in G
  BY <1>3
<1>5. Part(f, D) = 0
  BY <1>4 DEF G
<1>6. Sum(f) = 0
  BY <1>1, <1>5, PartRound
<1>7. QED BY <1>6 DEF f

\* What one number gains, the sum gains.
LEMMA SumGains ==
  ASSUME NEW D, IsFiniteSet(D), NEW f \in [D -> Nat], NEW u \in D, NEW k \in Nat,
         NEW h \in [D -> Nat], h[u] = f[u] + k, \A x \in D \ {u} : h[x] = f[x]
  PROVE  Sum(h) = Sum(f) + k
<1> DEFINE G == {s \in SUBSET D : u \notin s => Part(h, s) = Part(f, s)}
<1>1. ASSUME NEW s \in SUBSET D, \A t \in SUBSET s : t # s => t \in G
      PROVE  s \in G
  <2>1. CASE s = {}
    BY <2>1, PartRound
  <2>2. CASE u \in s
    BY <2>2
  <2>3. CASE s # {} /\ u \notin s
    <3>1. PICK x \in s : x # u
      BY <2>3
    <3>2. Part(f, s) = f[x] + Part(f, s \ {x}) /\ Part(h, s) = h[x] + Part(h, s \ {x})
      BY PartSplits
    <3>3. s \ {x} \in SUBSET s /\ s \ {x} # s
      BY <3>1
    <3>4. Part(h, s \ {x}) = Part(f, s \ {x})
      BY <1>1, <2>3, <3>3
    <3>5. h[x] = f[x]
      BY <3>1
    <3>6. QED BY <3>2, <3>4, <3>5
  <2>4. QED BY <2>1, <2>2, <2>3
<1> HIDE DEF G
<1>2. \A s \in SUBSET D : s \in G
  BY <1>1, FromSubsets
<1>3. D \ {u} \in SUBSET D
  OBVIOUS
<1>4. Part(h, D \ {u}) = Part(f, D \ {u})
  BY <1>2, <1>3 DEF G
<1>5. D \in SUBSET D
  OBVIOUS
<1>6. Part(f, D) = f[u] + Part(f, D \ {u}) /\ Part(h, D) = h[u] + Part(h, D \ {u})
  BY <1>5, PartSplits
<1>7. f[u] \in Nat /\ Part(f, D \ {u}) \in Nat
  BY <1>3, PartSplits
<1>8. Sum(h) = Part(h, D) /\ Sum(f) = Part(f, D)
  BY PartRound
<1>9. QED BY <1>4, <1>6, <1>7, <1>8

\* Shares of n in proportion to weights, each rounded down, come to at most n.
LEMMA SharesBounded ==
  ASSUME NEW D, IsFiniteSet(D), NEW w \in [D -> Nat], NEW a \in [D -> Nat], NEW n \in Nat,
         \A x \in D : a[x] * Sum(w) <= w[x] * n, Sum(w) # 0
  PROVE  Sum(a) <= n
<1> DEFINE T == Sum(w)
           G == {s \in SUBSET D : Part(a, s) * T <= Part(w, s) * n}
<1>1. T \in Nat /\ T # 0
  BY SumBounds
<1>2. \A x \in D : a[x] * T <= w[x] * n
  OBVIOUS
<1>3. D \in SUBSET D /\ Part(w, D) = T
  BY PartRound
<1> HIDE DEF T
<1>4. ASSUME NEW s \in SUBSET D, \A t \in SUBSET s : t # s => t \in G
      PROVE  s \in G
  <2>1. CASE s = {}
    <3>1. Part(a, s) = 0 /\ Part(w, s) = 0
      BY <2>1, PartRound
    <3>2. QED BY <1>1, <3>1
  <2>2. CASE s # {}
    <3>1. PICK x \in s : TRUE
      BY <2>2
    <3>2. Part(a, s) = a[x] + Part(a, s \ {x}) /\ Part(w, s) = w[x] + Part(w, s \ {x})
      BY PartSplits
    <3>3. s \ {x} \in SUBSET s /\ s \ {x} # s
      BY <3>1
    <3>4. Part(a, s \ {x}) * T <= Part(w, s \ {x}) * n
      BY <1>4, <3>3
    <3>5. a[x] * T <= w[x] * n
      BY <1>2
    <3>6. Part(a, s \ {x}) \in Nat /\ Part(w, s \ {x}) \in Nat /\ a[x] \in Nat /\ w[x] \in Nat
      BY PartSplits
    <3>7. ASSUME NEW a1 \in Nat, NEW a2 \in Nat, NEW w1 \in Nat, NEW w2 \in Nat,
                 a1 * T <= w1 * n, a2 * T <= w2 * n
          PROVE  (a1 + a2) * T <= (w1 + w2) * n
      BY ONLY <1>1, <3>7, n \in Nat
    <3>8. QED BY <3>2, <3>4, <3>5, <3>6, <3>7
  <2>3. QED BY <2>1, <2>2
<1> HIDE DEF G
<1>5. \A s \in SUBSET D : s \in G
  BY <1>4, FromSubsets
<1>6. Part(a, D) * T <= T * n
  BY <1>3, <1>5 DEF G
<1>7. Part(a, D) \in Nat
  BY <1>3, PartSplits
<1>8. ASSUME NEW x \in Nat, x * T <= T * n PROVE x <= n
  BY ONLY <1>1, <1>8, n \in Nat
<1>9. QED BY <1>6, <1>7, <1>8, PartRound

-----------------------------------------------------------------------------
(* The inductive invariant. *)

\* Users a pass has come to.
Pos(u) == IF first <= u THEN u - first ELSE u - first + NofUsers
Seen(u) == Pos(u) < count

\* Types, and that neither requests nor the slice are larger than the cell.
Sizes ==
    /\ \/ policy = "waterfilling" /\ phase \in {"pass", "done"}
       \/ policy = "proportional" /\ phase \in {"softmax", "extra", "done"}
    /\ prb_min \in 1 .. 4 /\ prbs \in SlicePrbs /\ first \in Users
    /\ \E n \in PrbMaxs : prbs <= n /\ \A u \in Users : req[u] <= n
    /\ req \in [Users -> 0 .. MaxReq]
    /\ left \in [Users -> 0 .. Word - 1]
    /\ alloc \in [Users -> Nat]
    /\ count \in 0 .. NofUsers
    /\ needing \in BOOLEAN

\* What is left of a request is what was not given, or a huge number once more was
\* given than it asked for.
Owed ==
    policy = "waterfilling" =>
        \A u \in Users :
            left[u] = IF alloc[u] <= req[u] THEN req[u] - alloc[u]
                      ELSE req[u] - alloc[u] + Word

\* Until what is left is too little to be handed out, every user that lacks PRBs is
\* served in every pass; nobody gets more than prb_min in one.
Level(b) ==
    \A u \in Users :
        /\ alloc[u] <= b + (IF Seen(u) THEN prb_min ELSE 0)
        /\ alloc[u] < req[u] =>
              alloc[u] >= b + (IF Seen(u) /\ Fits(Leftover) THEN prb_min ELSE 0)
Levels == phase = "pass" => \E b \in Nat : Level(b)

\* ue_needing_prbs is FALSE only if nobody visited needed any.
Asked == phase = "pass" /\ ~needing => \A u \in Users : Seen(u) => left[u] = 0

IInv == Sizes /\ WithinSlice /\ Owed /\ Levels /\ Asked /\ WaterLevel /\ NothingLeftOver

\* One lap of the unsigned word, and one lap over the users.
LEMMA OneLap ==
  ASSUME NEW M \in Nat \ {0}, NEW x \in (-M) .. (2 * M - 1)
  PROVE  x % M = IF x < 0 THEN x + M ELSE IF x < M THEN x ELSE x - M
<1>1. \A m \in Nat \ {0} : \A y \in (-m) .. (2 * m - 1) :
         y % m = IF y < 0 THEN y + m ELSE IF y < m THEN y ELSE y - m
  OBVIOUS
<1>2. QED BY <1>1

LEMMA UsersFinite == IsFiniteSet(Users) /\ NofUsers \in Nat \ {0}
BY SizesAssumption, FS_Interval DEF Users

\* Visit comes to the next user.
LEMMA VisitedNext ==
  ASSUME first \in Users, count \in 0 .. NofUsers - 1
  PROVE  /\ Visited \in Users /\ Pos(Visited) = count
         /\ \A u \in Users : Pos(u) \in 0 .. NofUsers - 1 /\ (Pos(u) = count => u = Visited)
<1> DEFINE x == first + count - 1
<1>1. x \in 0 .. 2 * NofUsers - 2
  BY UsersFinite DEF Users
<1>2. x % NofUsers = IF x < NofUsers THEN x ELSE x - NofUsers
  BY <1>1, OneLap, UsersFinite
<1>3. Visited = IF x < NofUsers THEN x + 1 ELSE x - NofUsers + 1
  BY <1>1, <1>2, UsersFinite DEF Visited
<1>4. QED BY <1>3, UsersFinite DEF Users, Pos

\* a - b of two words, where nothing large is subtracted.
LEMMA MinusFacts ==
  ASSUME NEW a \in 0 .. Word - 1, NEW b \in Nat, b <= Word, Word \in Nat \ {0}
  PROVE  Minus(a, b) \in 0 .. Word - 1 /\ Minus(a, b) = IF b <= a THEN a - b ELSE a - b + Word
<1>1. a - b \in (-Word) .. (2 * Word - 1)
  OBVIOUS
<1>2. Minus(a, b) = IF a - b < 0 THEN a - b + Word ELSE IF a - b < Word THEN a - b ELSE a - b - Word
  BY <1>1, OneLap DEF Minus
<1>3. QED BY <1>2

\* What the sizes imply: nothing comes near the end of the word.
LEMMA Small ==
  ASSUME Sizes, WithinSlice
  PROVE  /\ Word \in Nat \ {0} /\ prbs \in Nat \ {0} /\ 2 * prbs < Word
         /\ nof_allocated \in Nat
         /\ Leftover \in 1 .. prb_min
         /\ \A u \in Users : /\ alloc[u] \in 0 .. prbs /\ left[u] \in 0 .. Word - 1
                             /\ req[u] \in Nat /\ 2 * req[u] < Word
<1>1. PICK n \in PrbMaxs : prbs <= n /\ \A u \in Users : req[u] <= n
  BY DEF Sizes
<1>2. n \in Nat \ {0} /\ Word \in Nat /\ Word > 2 * n /\ prbs \in Nat \ {0}
  BY SizesAssumption DEF Sizes
<1>3. alloc \in [Users -> Nat] /\ req \in [Users -> 0 .. MaxReq] /\ MaxReq \in Nat
  BY SizesAssumption DEF Sizes
<1>4. Sum(alloc) \in Nat /\ \A u \in Users : alloc[u] <= Sum(alloc)
  BY <1>3, UsersFinite, SumBounds
<1>5. \A u \in Users : req[u] \in Nat /\ 2 * req[u] < Word
  BY <1>1, <1>2, <1>3
<1>6. \A u \in Users : alloc[u] \in 0 .. prbs
  BY <1>2, <1>3, <1>4 DEF WithinSlice, nof_allocated
<1>7. Leftover \in 1 .. prb_min
  BY DEF Leftover, Sizes
<1>8. QED BY <1>1, <1>2, <1>4, <1>5, <1>6, <1>7 DEF Sizes, nof_allocated

\* What one visit of waterfilling gives.
LEMMA PortionFacts ==
  ASSUME Sizes, WithinSlice, NEW u \in Users
  PROVE  /\ Portion(left[u]) \in 0 .. prb_min
         /\ nof_allocated + Portion(left[u]) <= prbs
         /\ left[u] = 0 => Portion(left[u]) = 0
         /\ left[u] > 0 /\ nof_allocated + Portion(left[u]) + Leftover <= prbs
               => Portion(left[u]) = prb_min
<1>1. /\ prbs \in Nat /\ nof_allocated \in Nat /\ nof_allocated <= prbs
      /\ Leftover \in 1 .. prb_min /\ left[u] \in Nat /\ prb_min \in 1 .. 4
  BY Small DEF Sizes, WithinSlice
<1>2. Leftover = IF prb_min = 1 THEN 1 ELSE prb_min - 1
  BY DEF Leftover
<1>3. CASE left[u] > 0 /\ Fits(prb_min)
  <2>1. Portion(left[u]) = prb_min
    BY <1>3 DEF Portion
  <2>2. QED BY <1>1, <1>3, <2>1 DEF Fits
<1>4. CASE left[u] > 0 /\ ~Fits(prb_min) /\ Fits(Leftover)
  <2>1. Portion(left[u]) = Leftover
    BY <1>4 DEF Portion
  <2>2. QED BY <1>1, <1>2, <1>4, <2>1 DEF Fits
<1>5. CASE ~(left[u] > 0 /\ (Fits(prb_min) \/ Fits(Leftover)))
  <2>1. Portion(left[u]) = 0
    BY <1>5 DEF Portion
  <2>2. QED BY <1>1, <1>5, <2>1 DEF Fits
<1>6. QED BY <1>3, <1>4, <1>5

\* One visit of a user: the sum, what is left, and the level.
LEMMA VisitInv == IInv /\ Visit => IInv'
<1> SUFFICES ASSUME IInv, Visit PROVE IInv'
  OBVIOUS
<1>1. phase = "pass" /\ policy = "waterfilling" /\ count \in 0 .. NofUsers - 1
  BY UsersFinite DEF IInv, Sizes, Visit
<1>2. PICK u \in Users :
        /\ u = Visited /\ Pos(u) = count
        /\ \A v \in Users : Pos(v) \in 0 .. NofUsers - 1 /\ (Pos(v) = count => v = u)
  BY <1>1, VisitedNext DEF IInv, Sizes
<1> DEFINE p == Portion(left[u])
<1>3. /\ alloc' = [alloc EXCEPT ![u] = @ + p]
      /\ left' = [left EXCEPT ![u] = Minus(@, p)]
      /\ needing' = (needing \/ left[u] > 0)
      /\ count' = count + 1 /\ phase' = phase
      /\ policy' = policy /\ prb_min' = prb_min /\ prbs' = prbs /\ req' = req /\ first' = first
  BY <1>2 DEF Visit, input
<1>4. /\ Word \in Nat \ {0} /\ prbs \in Nat \ {0} /\ 2 * prbs < Word
      /\ nof_allocated \in Nat /\ nof_allocated <= prbs
      /\ Leftover \in 1 .. prb_min
      /\ \A v \in Users : /\ alloc[v] \in 0 .. prbs /\ left[v] \in 0 .. Word - 1
                          /\ req[v] \in Nat /\ 2 * req[v] < Word
  BY Small DEF IInv, WithinSlice
<1>5. /\ p \in 0 .. prb_min /\ nof_allocated + p <= prbs /\ (left[u] = 0 => p = 0)
      /\ (left[u] > 0 /\ nof_allocated + p + Leftover <= prbs => p = prb_min)
  BY <1>2, PortionFacts DEF IInv
<1> HIDE DEF p
<1>6. alloc \in [Users -> Nat] /\ left \in [Users -> 0 .. Word - 1] /\ prb_min \in 1 .. 4
  BY DEF IInv, Sizes
<1>7. Minus(left[u], p) \in 0 .. Word - 1
      /\ Minus(left[u], p) = IF p <= left[u] THEN left[u] - p ELSE left[u] - p + Word
  <2>1. p \in Nat /\ p <= Word
    BY <1>4, <1>5, <1>6
  <2>2. left[u] \in 0 .. Word - 1
    BY <1>2, <1>4
  <2>3. QED BY <1>4, <2>1, <2>2, MinusFacts
<1>8. /\ alloc' \in [Users -> Nat] /\ alloc'[u] = alloc[u] + p
      /\ left' \in [Users -> 0 .. Word - 1] /\ left'[u] = Minus(left[u], p)
      /\ \A v \in Users \ {u} : alloc'[v] = alloc[v] /\ left'[v] = left[v]
  BY <1>2, <1>3, <1>5, <1>6, <1>7
<1>9. Sum(alloc') = Sum(alloc) + p
  BY <1>2, <1>5, <1>6, <1>8, UsersFinite, SumGains
<1>10. nof_allocated' = nof_allocated + p
  BY <1>9 DEF nof_allocated
<1>11. Sizes'
  <2>1. count' \in 0 .. NofUsers
    BY <1>1, <1>3, UsersFinite
  <2>2. needing' \in BOOLEAN
    BY <1>3 DEF IInv, Sizes
  <2>3. QED BY <1>3, <1>8, <2>1, <2>2 DEF IInv, Sizes
<1>12. WithinSlice'
  BY <1>3, <1>5, <1>10 DEF WithinSlice
<1>13. Owed'
  <2>1. \A v \in Users : left[v] = IF alloc[v] <= req[v] THEN req[v] - alloc[v]
                                   ELSE req[v] - alloc[v] + Word
    BY <1>1 DEF IInv, Owed
  <2>2. alloc[u] + p <= prbs
    <3>1. alloc'[u] <= Sum(alloc')
      BY <1>2, <1>8, UsersFinite, SumBounds
    <3>2. Sum(alloc) + p <= prbs
      BY <1>5 DEF nof_allocated
    <3>3. Sum(alloc) \in Nat
      BY <1>4 DEF nof_allocated
    <3>4. QED BY <1>2, <1>4, <1>5, <1>6, <1>8, <1>9, <3>1, <3>2, <3>3
  <2>3. left'[u] = IF alloc'[u] <= req[u] THEN req[u] - alloc'[u]
                   ELSE req[u] - alloc'[u] + Word
    BY <1>2, <1>4, <1>5, <1>7, <1>8, <2>1, <2>2
  <2>4. \A v \in Users : left'[v] = IF alloc'[v] <= req[v] THEN req[v] - alloc'[v]
                                    ELSE req[v] - alloc'[v] + Word
    BY <1>8, <2>1, <2>3
  <2>5. QED BY <1>3, <2>4 DEF Owed
<1>14. /\ Seen(u)' /\ ~Seen(u)
       /\ \A v \in Users \ {u} : Seen(v)' <=> Seen(v)
  <2>1. \A v \in Users : Pos(v)' = Pos(v)
    BY <1>3 DEF Pos
  <2>2. \A v \in Users : Seen(v)' <=> Pos(v) < count + 1
    BY <1>3, <2>1 DEF Seen
  <2>3. NofUsers \in Nat /\ count < count + 1
    BY <1>1, UsersFinite
  <2>4. \A v \in Users \ {u} : Pos(v) < count + 1 <=> Pos(v) < count
    BY <1>1, <1>2, <2>3
  <2>5. ~(Pos(u) < count) /\ Pos(u) < count + 1
    BY <1>1, <1>2, <2>3
  <2>6. \A v \in Users : Seen(v) <=> Pos(v) < count
    BY DEF Seen
  <2>7. QED BY <1>2, <2>2, <2>4, <2>5, <2>6
<1>15. Leftover' = Leftover /\ (Fits(Leftover)' => nof_allocated + p + Leftover <= prbs)
       /\ (nof_allocated + p + Leftover <= prbs => Fits(Leftover))
  BY <1>3, <1>4, <1>5, <1>6, <1>10 DEF Leftover, Fits
<1>16. Levels'
  <2>1. PICK b \in Nat : Level(b)
    BY <1>1 DEF IInv, Levels
  <2>2. ASSUME NEW v \in Users, v # u
        PROVE  /\ alloc'[v] <= b + (IF Seen(v)' THEN prb_min ELSE 0)
               /\ alloc'[v] < req[v] =>
                     alloc'[v] >= b + (IF Seen(v)' /\ Fits(Leftover)' THEN prb_min ELSE 0)
    BY <1>4, <1>6, <1>8, <1>14, <1>15, <2>1, <2>2 DEF Level
  <2>3. alloc'[u] <= b + prb_min
    BY <1>2, <1>4, <1>5, <1>6, <1>8, <1>14, <2>1 DEF Level
  <2>4. ASSUME alloc'[u] < req[u]
        PROVE  alloc'[u] >= b + (IF Fits(Leftover)' THEN prb_min ELSE 0)
    <3>1. alloc[u] < req[u]
      BY <1>2, <1>4, <1>5, <1>6, <1>8, <2>4
    <3>2. alloc[u] >= b
      BY <1>2, <1>14, <2>1, <3>1 DEF Level
    <3>3. left[u] > 0
      BY <1>1, <1>2, <1>4, <3>1 DEF IInv, Owed
    <3>4. QED BY <1>2, <1>4, <1>5, <1>6, <1>8, <1>15, <3>2, <3>3
  <2>5. \A v \in Users :
          /\ alloc'[v] <= b + (IF Seen(v)' THEN prb_min' ELSE 0)
          /\ alloc'[v] < req'[v] =>
                alloc'[v] >= b + (IF Seen(v)' /\ Fits(Leftover)' THEN prb_min' ELSE 0)
    <3> SUFFICES ASSUME NEW v \in Users
                 PROVE  /\ alloc'[v] <= b + (IF Seen(v)' THEN prb_min' ELSE 0)
                        /\ alloc'[v] < req'[v] =>
                              alloc'[v] >= b + (IF Seen(v)' /\ Fits(Leftover)' THEN prb_min' ELSE 0)
      OBVIOUS
    <3>1. CASE v = u
      BY <1>3, <1>14, <2>3, <2>4, <3>1
    <3>2. CASE v # u
      BY <1>3, <2>2, <3>2
    <3>3. QED BY <3>1, <3>2
  <2>7. Level(b)'
    BY <2>5 DEF Level
  <2>6. QED BY <2>7 DEF Levels
<1>17. Asked'
  <2>1. SUFFICES ASSUME ~needing' PROVE \A v \in Users : Seen(v)' => left'[v] = 0
    BY DEF Asked
  <2>2. ~needing /\ ~(left[u] > 0)
    BY <1>3, <2>1, Zenon
  <2>3. left[u] = 0 /\ p = 0
    BY <1>2, <1>4, <1>5, <2>2
  <2>4. left'[u] = 0
    BY <1>7, <1>8, <2>3
  <2>5. \A v \in Users : Seen(v) => left[v] = 0
    BY <1>1, <2>2, Zenon DEF IInv, Asked
  <2>6. QED BY <1>8, <1>14, <2>4, <2>5
<1>18. WaterLevel' /\ NothingLeftOver'
  BY <1>1, <1>3 DEF WaterLevel, NothingLeftOver
<1>19. QED BY <1>11, <1>12, <1>13, <1>16, <1>17, <1>18 DEF IInv

\* The end of a pass: everybody was visited, so that the level rises for all.
LEMMA EndOfPassInv == IInv /\ EndOfPass => IInv'
<1> SUFFICES ASSUME IInv, EndOfPass PROVE IInv'
  OBVIOUS
<1>1. /\ phase = "pass" /\ policy = "waterfilling" /\ count = NofUsers
      /\ prb_min \in 1 .. 4 /\ first \in Users
  BY DEF IInv, Sizes, EndOfPass
<1>2. /\ phase' = (IF SoldOut \/ ~needing THEN "done" ELSE "pass")
      /\ count' = 0 /\ needing' = FALSE /\ left' = left /\ alloc' = alloc
      /\ policy' = policy /\ prb_min' = prb_min /\ prbs' = prbs /\ req' = req /\ first' = first
  BY DEF EndOfPass, input
<1>3. /\ Word \in Nat \ {0} /\ prbs \in Nat \ {0} /\ 2 * prbs < Word
      /\ nof_allocated \in Nat /\ nof_allocated <= prbs
      /\ Leftover \in 1 .. prb_min
      /\ \A v \in Users : /\ alloc[v] \in 0 .. prbs /\ left[v] \in 0 .. Word - 1
                          /\ req[v] \in Nat /\ 2 * req[v] < Word
  BY Small DEF IInv, WithinSlice
<1>4. nof_allocated' = nof_allocated /\ Leftover' = Leftover /\ Needy' = Needy
  BY <1>2 DEF nof_allocated, Leftover, Needy
<1>5. \A v \in Users : Pos(v) \in 0 .. NofUsers - 1 /\ Pos(v)' = Pos(v)
  BY <1>1, <1>2, UsersFinite DEF Pos, Users
<1>6. \A v \in Users : Seen(v) /\ ~Seen(v)'
  BY <1>1, <1>2, <1>5, UsersFinite DEF Seen
<1>7. Sizes'
  <2>1. count' \in 0 .. NofUsers
    BY <1>2, UsersFinite
  <2>2. phase' \in {"pass", "done"}
    BY <1>2
  <2>3. QED BY <1>1, <1>2, <2>1, <2>2 DEF IInv, Sizes
<1>8. WithinSlice' /\ Owed'
  BY <1>2, <1>4 DEF IInv, WithinSlice, Owed
<1>9. PICK b \in Nat : Level(b)
  BY <1>1 DEF IInv, Levels
<1>10. \A v \in Users : /\ alloc[v] <= b + prb_min
                        /\ alloc[v] < req[v] =>
                              alloc[v] >= b + (IF Fits(Leftover) THEN prb_min ELSE 0)
  BY <1>6, <1>9 DEF Level
<1>11. Levels'
  <2> SUFFICES ASSUME phase' = "pass" PROVE \E c \in Nat : Level(c)'
    BY DEF Levels
  <2>1. ~SoldOut
    BY <1>2
  <2>2. Fits(Leftover)
    BY <1>3, <2>1 DEF SoldOut, Fits
  <2>3. b + prb_min \in Nat
    BY <1>1
  <2>4. \A v \in Users :
          /\ alloc'[v] <= b + prb_min + (IF Seen(v)' THEN prb_min' ELSE 0)
          /\ alloc'[v] < req'[v] =>
                alloc'[v] >= b + prb_min + (IF Seen(v)' /\ Fits(Leftover)' THEN prb_min' ELSE 0)
    BY <1>1, <1>2, <1>3, <1>6, <1>10, <2>2
  <2> DEFINE c == b + prb_min
  <2> HIDE DEF c
  <2>5. \E d \in Nat : \A v \in Users :
          /\ alloc'[v] <= d + (IF Seen(v)' THEN prb_min' ELSE 0)
          /\ alloc'[v] < req'[v] =>
                alloc'[v] >= d + (IF Seen(v)' /\ Fits(Leftover)' THEN prb_min' ELSE 0)
    BY <2>3, <2>4
  <2>6. QED BY <2>5 DEF Level
<1>12. Asked'
  BY <1>6 DEF Asked
<1>13. WaterLevel'
  <2> SUFFICES ASSUME NEW u \in Users, NEW v \in Users, alloc[v] < req[v]
               PROVE  alloc[u] <= alloc[v] + prb_min
    BY <1>2, <1>4 DEF WaterLevel, Needy
  <2>1. alloc[u] <= b + prb_min /\ alloc[v] >= b
    BY <1>1, <1>3, <1>10
  <2>2. QED BY <1>1, <1>3, <2>1
<1>14. NothingLeftOver'
  <2> SUFFICES ASSUME phase' = "done"
               PROVE  \/ \A u \in Users : alloc[u] >= req[u]
                      \/ prbs - nof_allocated < Leftover
    BY <1>1, <1>2, <1>4 DEF NothingLeftOver
  <2>1. CASE SoldOut
    BY <1>3, <2>1 DEF SoldOut
  <2>2. CASE ~needing
    <3>1. \A u \in Users : left[u] = 0
      BY <1>1, <1>6, <2>2 DEF IInv, Asked
    <3>2. \A u \in Users : left[u] = IF alloc[u] <= req[u] THEN req[u] - alloc[u]
                                     ELSE req[u] - alloc[u] + Word
      BY <1>1 DEF IInv, Owed
    <3>3. \A u \in Users : alloc[u] >= req[u]
      BY <1>3, <3>1, <3>2
    <3>4. QED BY <3>3
  <2>3. QED BY <1>2, <2>1, <2>2
<1>15. QED BY <1>7, <1>8, <1>11, <1>12, <1>13, <1>14 DEF IInv

\* The least of two.
LEMMA MinOfTwo ==
  ASSUME NEW x \in Nat, NEW y \in Nat
  PROVE  Min({x, y}) = IF x <= y THEN x ELSE y
<1>1. \E z \in {x, y} : \A w \in {x, y} : z <= w
  OBVIOUS
<1>2. Min({x, y}) \in {x, y} /\ \A w \in {x, y} : Min({x, y}) <= w
  BY <1>1 DEF Min
<1>3. QED BY <1>2

\* Division rounds down.
LEMMA Floor ==
  ASSUME NEW x \in Nat, NEW t \in Nat \ {0}
  PROVE  x \div t \in Nat /\ (x \div t) * t <= x
<1>1. \A y \in Nat, s \in Nat \ {0} : y \div s \in Nat /\ (y \div s) * s <= y
  OBVIOUS
<1>2. QED BY <1>1

\* The shares of the proportional policy come to no more than the slice.
LEMMA SoftmaxInv == IInv /\ Softmax => IInv'
<1> SUFFICES ASSUME IInv, Softmax PROVE IInv'
  OBVIOUS
<1> DEFINE w == [u \in Users |-> Weight(u)]
           total == Sum(w)
           share(u) == Min({(Weight(u) * prbs) \div total, req[u]})
<1>1. phase = "softmax" /\ policy = "proportional" /\ prbs \in Nat
  BY Small DEF IInv, Sizes, Softmax
<1>2. /\ alloc' = [u \in Users |-> IF u \in Needy THEN share(u) ELSE 0]
      /\ phase' = (IF Sum(alloc') > 0 THEN "extra" ELSE "done")
      /\ left' = left /\ count' = count /\ needing' = needing
      /\ policy' = policy /\ prb_min' = prb_min /\ prbs' = prbs /\ req' = req /\ first' = first
  BY DEF Softmax, input
<1>3. \A u \in Users : Weight(u) \in Nat /\ (u \in Needy => Weight(u) > 0)
  <2>1. \A u \in Users : req[u] \in 0 .. MaxReq
    BY DEF IInv, Sizes
  <2>2. QED BY <2>1, SizesAssumption DEF Weight, Needy
<1>4. w \in [Users -> Nat] /\ \A u \in Users : w[u] = Weight(u)
  BY <1>3
<1> HIDE DEF w
<1>5. total \in Nat /\ \A u \in Users : w[u] <= total
  BY <1>4, UsersFinite, SumBounds
<1> HIDE DEF total
<1>6. \A u \in Users : req[u] \in Nat
  BY Small DEF IInv
<1>7. ASSUME NEW u \in Needy
      PROVE  /\ share(u) \in Nat /\ share(u) <= req[u]
             /\ share(u) * total <= w[u] * prbs
  <2>1. u \in Users /\ Weight(u) \in Nat /\ total \in Nat \ {0}
    BY <1>3, <1>4, <1>5 DEF Needy
  <2> DEFINE x == Weight(u) * prbs
             q == x \div total
  <2>2. x \in Nat
    BY <1>1, <2>1
  <2> HIDE DEF x
  <2>3. q \in Nat /\ q * total <= x
    BY <2>1, <2>2, Floor
  <2>4. share(u) = Min({q, req[u]})
    BY DEF x
  <2> HIDE DEF q, share
  <2>5. share(u) = IF q <= req[u] THEN q ELSE req[u]
    BY <1>6, <2>1, <2>3, <2>4, MinOfTwo
  <2>6. share(u) \in Nat /\ share(u) <= req[u] /\ share(u) <= q
    BY <1>6, <2>1, <2>3, <2>5
  <2>7. \A a, c, t \in Nat : a <= c => a * t <= c * t
    OBVIOUS
  <2>8. share(u) * total <= q * total
    BY <2>1, <2>3, <2>6, <2>7
  <2>9. x = w[u] * prbs
    BY <1>4, <2>1 DEF x
  <2>10. share(u) * total \in Nat /\ q * total \in Nat
    BY <2>1, <2>3, <2>6
  <2>11. QED BY <2>2, <2>3, <2>6, <2>8, <2>9, <2>10
<1> HIDE DEF share
<1>8. \A u \in Users : alloc'[u] = IF u \in Needy THEN share(u) ELSE 0
  BY <1>2
<1>9. alloc' \in [Users -> Nat]
  BY <1>2, <1>7
<1>10. Sum(alloc') \in Nat /\ Sum(alloc') <= prbs
  <2>1. CASE Needy = {}
    <3>1. alloc' = [u \in Users |-> 0]
      BY <1>2, <2>1
    <3>2. QED BY <1>1, <3>1, UsersFinite, SumZero
  <2>2. CASE Needy # {}
    <3>1. PICK v \in Needy : TRUE
      BY <2>2
    <3>2. v \in Users /\ w[v] > 0 /\ w[v] \in Nat
      BY <1>3, <1>4 DEF Needy
    <3>3. total # 0
      BY <1>5, <3>2
    <3>4. ASSUME NEW u \in Users PROVE alloc'[u] * total <= w[u] * prbs
      <4>1. CASE u \in Needy
        BY <1>7, <1>8, <4>1
      <4>2. CASE u \notin Needy
        <5>1. alloc'[u] = 0 /\ w[u] \in Nat
          BY <1>4, <1>8, <4>2
        <5>2. QED BY <1>1, <1>5, <5>1
      <4>3. QED BY <4>1, <4>2
    <3>5. Sum(alloc') <= prbs
      BY <1>1, <1>4, <1>9, <3>3, <3>4, UsersFinite, SharesBounded DEF total
    <3>6. QED BY <1>9, <3>5, UsersFinite, SumBounds
  <2>3. QED BY <2>1, <2>2
<1>11. nof_allocated' = Sum(alloc')
  BY DEF nof_allocated
<1>12. Sizes'
  BY <1>1, <1>2, <1>9 DEF IInv, Sizes
<1>13. WithinSlice'
  BY <1>2, <1>10, <1>11 DEF WithinSlice
<1>14. NothingLeftOver'
  <2>1. phase' = "done" => nof_allocated' = 0
    BY <1>2, <1>10, <1>11
  <2>2. QED BY <1>1, <1>2, <2>1 DEF NothingLeftOver
<1>15. Owed' /\ Levels' /\ Asked' /\ WaterLevel'
  BY <1>1, <1>2 DEF Owed, Levels, Asked, WaterLevel
<1>16. QED BY <1>12, <1>13, <1>14, <1>15 DEF IInv

\* One more PRB for the user served worst, while there is one.
LEMMA ExtraInv == IInv /\ Extra => IInv'
<1> SUFFICES ASSUME IInv, Extra PROVE IInv'
  OBVIOUS
<1>1. /\ phase = "extra" /\ policy = "proportional"
      /\ prbs \in Nat /\ nof_allocated \in Nat /\ nof_allocated <= prbs
      /\ alloc \in [Users -> Nat]
      /\ \A u \in Users : alloc[u] \in Nat /\ req[u] \in Nat
  BY Small DEF IInv, Sizes, Extra, WithinSlice
<1>2. /\ left' = left /\ count' = count /\ needing' = needing
      /\ policy' = policy /\ prb_min' = prb_min /\ prbs' = prbs /\ req' = req /\ first' = first
  BY DEF Extra, input
<1>3. CASE Unserved = {} \/ nof_allocated >= prbs
  <2>1. phase' = "done" /\ alloc' = alloc
    BY <1>3 DEF Extra
  <2>2. nof_allocated' = nof_allocated
    BY <2>1 DEF nof_allocated
  <2>3. Sizes' /\ WithinSlice'
    BY <1>1, <1>2, <2>1, <2>2 DEF IInv, Sizes, WithinSlice
  <2>4. Owed' /\ Levels' /\ Asked' /\ WaterLevel'
    BY <1>1, <1>2, <2>1 DEF Owed, Levels, Asked, WaterLevel
  <2>5. NothingLeftOver'
    <3>1. CASE Unserved = {}
      <4>1. \A u \in Users : alloc[u] >= req[u]
        BY <1>1, <3>1 DEF Unserved, Needy
      <4>2. QED BY <1>2, <2>1, <4>1 DEF NothingLeftOver
    <3>2. CASE nof_allocated >= prbs
      <4>1. nof_allocated = prbs
        BY <1>1, <3>2
      <4>2. QED BY <1>1, <1>2, <2>2, <4>1 DEF NothingLeftOver
    <3>3. QED BY <1>3, <3>1, <3>2
  <2>6. QED BY <2>3, <2>4, <2>5 DEF IInv
<1>4. CASE ~(Unserved = {} \/ nof_allocated >= prbs)
  <2>1. phase' = phase
    BY <1>4 DEF Extra
  <2>2. PICK u \in Unserved : alloc' = [alloc EXCEPT ![u] = @ + 1]
    BY <1>4 DEF Extra
  <2>3. u \in Users
    BY DEF Unserved, Needy
  <2>4. /\ alloc' \in [Users -> Nat] /\ alloc'[u] = alloc[u] + 1
        /\ \A v \in Users \ {u} : alloc'[v] = alloc[v]
    BY <1>1, <2>2, <2>3
  <2>5. Sum(alloc') = Sum(alloc) + 1
    BY <1>1, <2>3, <2>4, UsersFinite, SumGains
  <2>6. nof_allocated' <= prbs
    <3>1. nof_allocated + 1 <= prbs
      BY <1>1, <1>4
    <3>2. QED BY <2>5, <3>1 DEF nof_allocated
  <2>7. Sizes' /\ WithinSlice'
    BY <1>1, <1>2, <2>1, <2>4, <2>6 DEF IInv, Sizes, WithinSlice
  <2>8. Owed' /\ Levels' /\ Asked' /\ WaterLevel' /\ NothingLeftOver'
    BY <1>1, <1>2, <2>1 DEF Owed, Levels, Asked, WaterLevel, NothingLeftOver
  <2>9. QED BY <2>7, <2>8 DEF IInv
<1>5. QED BY <1>3, <1>4

LEMMA InitInv == Init => IInv
<1> SUFFICES ASSUME Init PROVE IInv
  OBVIOUS
<1>1. PICK n \in PrbMaxs :
        /\ prb_min = MinPrb(n) /\ prbs \in SlicePrbs /\ prbs <= n
        /\ req \in [Users -> {0} \cup (prb_min .. Min({n, MaxReq}))]
  BY DEF Init
<1>2. n \in Nat \ {0} /\ MaxReq \in Nat /\ Word \in Nat /\ Word > 2 * n
  BY SizesAssumption
<1>3. prb_min \in 1 .. 4
  BY <1>1, <1>2 DEF MinPrb
<1>4. Min({n, MaxReq}) = IF n <= MaxReq THEN n ELSE MaxReq
  BY <1>2, MinOfTwo
<1>5. req \in [Users -> 0 .. MaxReq] /\ \A u \in Users : req[u] <= n /\ req[u] \in 0 .. Word - 1
  BY <1>1, <1>2, <1>3, <1>4
<1>6. /\ left = req /\ alloc = [u \in Users |-> 0] /\ count = 0 /\ needing = FALSE
      /\ \A u \in Users : alloc[u] = 0
      /\ policy \in {"waterfilling", "proportional"}
      /\ phase = IF policy = "waterfilling" THEN "pass" ELSE "softmax"
  BY DEF Init
<1>7. first \in Users
  BY UsersFinite DEF Init, Users
<1>8. Sizes
  <2>1. left \in [Users -> 0 .. Word - 1] /\ alloc \in [Users -> Nat]
    BY <1>5, <1>6
  <2>2. count \in 0 .. NofUsers
    BY <1>6, UsersFinite
  <2>3. QED BY <1>1, <1>3, <1>5, <1>6, <1>7, <2>1, <2>2 DEF Sizes
<1>9. WithinSlice
  <2>1. nof_allocated = 0
    BY <1>6, UsersFinite, SumZero DEF nof_allocated
  <2>2. prbs \in Nat
    BY <1>1, SizesAssumption
  <2>3. QED BY <2>1, <2>2 DEF WithinSlice
<1>10. Owed
  BY <1>5, <1>6 DEF Owed
<1>11. \A u \in Users : ~Seen(u)
  BY <1>6, <1>7, UsersFinite DEF Seen, Pos, Users
<1>12. Levels /\ Asked
  BY <1>6, <1>11 DEF Levels, Level, Asked
<1>13. WaterLevel /\ NothingLeftOver
  BY <1>6 DEF WaterLevel, NothingLeftOver
<1>14. QED BY <1>8, <1>9, <1>10, <1>12, <1>13 DEF IInv

LEMMA NextInv == IInv /\ [Next]_vars => IInv'
<1> SUFFICES ASSUME IInv, [Next]_vars PROVE IInv'
  OBVIOUS
<1>1. CASE UNCHANGED vars
  BY <1>1 DEF vars, IInv, Sizes, WithinSlice, Owed, Levels, Level, Asked, WaterLevel,
     NothingLeftOver, Seen, Pos, Fits, Leftover, nof_allocated, Needy
<1>2. QED BY <1>1, VisitInv, EndOfPassInv, SoftmaxInv, ExtraInv DEF Next

LEMMA InvHolds == Spec => []IInv
<1>1. QED BY InitInv, NextInv, PTL DEF Spec

-----------------------------------------------------------------------------
(* The theorems. *)

\* Numbers stay unsigned words, although a request may wrap around below zero, and
\* a pass never runs past its last user.
THEOREM TypeCorrect == Spec => []TypeOK
<1>1. IInv => TypeOK
  <2> SUFFICES ASSUME IInv PROVE TypeOK
    OBVIOUS
  <2>1. /\ Word \in Nat \ {0} /\ prbs \in Nat /\ 2 * prbs < Word
        /\ \A u \in Users : alloc[u] \in 0 .. prbs /\ req[u] \in Nat /\ 2 * req[u] < Word
    BY Small DEF IInv
  <2>2. \A u \in Users : alloc[u] \in 0 .. Word - 1 /\ req[u] \in 0 .. Word - 1
    BY <2>1
  <2>3. alloc \in [Users -> 0 .. Word - 1] /\ req \in [Users -> 0 .. Word - 1]
    BY <2>2 DEF IInv, Sizes
  <2>4. QED BY <2>3 DEF IInv, Sizes, TypeOK
<1>2. QED BY <1>1, InvHolds, PTL

\* Neither policy promises the users of a slice more PRBs than it has, with any
\* number of users, requests and weights, and wherever the passes start.
THEOREM SliceNotExceeded == Spec => []WithinSlice
<1>1. IInv => WithinSlice
  BY DEF IInv
<1>2. QED BY <1>1, InvHolds, PTL

\* Waterfilling: a user that still lacks PRBs when it ends is at most one round behind
\* any other, although the passes start anywhere and the slice may run out in one.
THEOREM LevelKept == Spec => []WaterLevel
<1>1. IInv => WaterLevel
  BY DEF IInv
<1>2. QED BY <1>1, InvHolds, PTL

\* Whatever a policy that ended leaves of a slice, it could not hand out.
THEOREM NothingWasted == Spec => []NothingLeftOver
<1>1. IInv => NothingLeftOver
  BY DEF IInv
<1>2. QED BY <1>1, InvHolds, PTL
===============================================================================
