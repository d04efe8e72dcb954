----------------------------- MODULE RaSched_proofs -----------------------------
(***************************************************************************)
(* Proofs about RaSched, for every set of RNTIs, ring, window and delay    *)
(* that fits: no preamble is lost or answered twice, the Msg3 of one       *)
(* subframe never collide, and, where the code's TTI arithmetic and number *)
(* of workers allow, a promised Msg3 is kept and an old RAR discarded.     *)
(***************************************************************************)
EXTENDS RaSched, OrderFacts, FiniteSetTheorems, SequenceTheorems, TLAPS

-----------------------------------------------------------------------------
(***************************************************************************)
(* The ring of sf_scheds: TTIs modulo TtiMod and modulo RingSize.          *)
(***************************************************************************)
LEMMA SlotType ==
  ASSUME NEW t \in Nat
  PROVE  Slot(t) \in 0 .. RingSize - 1
<1>1. \A R \in Nat \ {0} : t % R \in 0 .. R - 1
  OBVIOUS
<1>2. QED BY <1>1, TtiAssumption DEF Slot

\* A period of TTIs is a number of laps of the ring.
LEMMA SlotPeriod ==
  ASSUME NEW t \in Nat
  PROVE  Slot(t + TtiMod) = Slot(t)
<1>1. RingSize \in Nat \ {0} /\ TtiMod \in Nat /\ TtiMod % RingSize = 0
  BY TtiAssumption
<1>2. PICK p \in Nat : t = RingSize * p + (t % RingSize)
  BY <1>1, Quotient
<1>3. PICK q \in Nat : TtiMod = RingSize * q + 0
  BY <1>1, Quotient
<1>4. t % RingSize \in 0 .. RingSize - 1
  BY <1>1
<1> DEFINE c == t % RingSize
           M == TtiMod
           R == RingSize
<1> HIDE DEF c, M, R
<1>5. t = R * p + c /\ M = R * q /\ R \in Nat \ {0} /\ c \in 0 .. R - 1
  BY <1>1, <1>2, <1>3, <1>4 DEF c, M, R
<1>6. t + M = R * (p + q) + c /\ p + q \in Int
  BY <1>5
<1>7. \A b \in Int : (R * b + c) % R = c
  BY <1>5
<1>8. (t + M) % R = c
  BY <1>6, <1>7
<1>9. QED BY <1>8 DEF Slot, c, M, R

\* TTIs less than a lap apart have different slots.
LEMMA SlotLap ==
  ASSUME NEW x \in Nat, NEW y \in Nat, x < y, y - x < RingSize
  PROVE  Slot(x) # Slot(y)
<1> SUFFICES ASSUME Slot(x) = Slot(y) PROVE FALSE
  OBVIOUS
<1> DEFINE R == RingSize
           c == Slot(x)
<1>1. RingSize \in Nat \ {0}
  BY TtiAssumption
<1>2. PICK p \in Nat : x = R * p + (x % R)
  BY <1>1, Quotient
<1>3. PICK q \in Nat : y = R * q + (y % R)
  BY <1>1, Quotient
<1>4. x % R = c /\ y % R = c /\ c \in Int
  BY <1>1, SlotType DEF Slot
<1> HIDE DEF R, c
<1>5. R \in Nat \ {0} /\ y - x < R /\ R * (q - p) = y - x
  BY <1>1, <1>2, <1>3, <1>4 DEF R
<1>6. ASSUME NEW k \in Int, R * k < R, 0 < R * k PROVE FALSE
  <2>1. CASE k <= 0
    BY <1>5, <1>6, <2>1
  <2>2. CASE k >= 1
    BY <1>5, <1>6, <2>2
  <2>3. QED BY <2>1, <2>2
<1>7. QED BY <1>5, <1>6

\* TTIs are counted from base: those in flight are 0, 1, ...
At(j) == Add(base, j)

LEMMA AddCases ==
  ASSUME NEW t \in Ttis, NEW n \in -TtiMod .. TtiMod
  PROVE  /\ Add(t, n) \in Ttis
         /\ Add(t, n) \in {t + n, t + n - TtiMod, t + n + TtiMod}
<1>1. TtiMod \in Nat /\ TtiMod > 0
  BY TtiAssumption
<1>2. ASSUME NEW M \in Nat, M > 0, NEW x \in 0 .. M - 1, NEW k \in -M .. M
      PROVE  (x + k) % M \in 0 .. M - 1 /\ (x + k) % M \in {x + k, x + k - M, x + k + M}
  <2>1. CASE x + k < 0
    BY <1>2, <2>1
  <2>2. CASE x + k \in 0 .. M - 1
    BY <1>2, <2>2
  <2>3. CASE x + k \in M .. 2 * M - 1
    BY <1>2, <2>3
  <2>4. QED BY <1>2, <2>1, <2>2, <2>3
<1>3. t \in 0 .. TtiMod - 1 /\ Ttis = 0 .. TtiMod - 1
  BY DEF Ttis
<1>4. (t + n) % TtiMod \in 0 .. TtiMod - 1 /\ (t + n) % TtiMod \in {t + n, t + n - TtiMod, t + n + TtiMod}
  BY ONLY <1>1, <1>2, <1>3, n \in -TtiMod .. TtiMod, Zenon
<1>5. QED BY <1>3, <1>4, Zenon DEF Add

\* The slot of a TTI that wraps is that of the sum.
LEMMA SlotAdd ==
  ASSUME NEW t \in Ttis, NEW n \in 0 .. TtiMod
  PROVE  Slot(Add(t, n)) = Slot(t + n)
<1>1. TtiMod \in Nat
  BY TtiAssumption
<1>2. Add(t, n) \in Ttis /\ Add(t, n) \in {t + n, t + n - TtiMod, t + n + TtiMod}
  BY <1>1, AddCases
<1> DEFINE a == Add(t, n)
<1> HIDE DEF a
<1>3. a \in Nat /\ t + n \in Nat /\ (a = t + n \/ a + TtiMod = t + n)
  BY <1>1, <1>2 DEF a, Ttis
<1>4. QED BY <1>3, SlotPeriod DEF a

LEMMA ModType ==
  ASSUME NEW x \in Int
  PROVE  x % TtiMod \in Ttis
<1>1. \A M \in Nat \ {0} : x % M \in 0 .. M - 1
  OBVIOUS
<1>2. QED BY <1>1, TtiAssumption DEF Ttis

\* It is the same to wrap before an addition.
LEMMA ModAdd ==
  ASSUME NEW x \in Int, NEW b \in Int
  PROVE  ((x % TtiMod) + b) % TtiMod = (x + b) % TtiMod
<1> DEFINE M == TtiMod
           c == x % M
           d == (c + b) % M
<1>1. M \in Nat \ {0}
  BY TtiAssumption
<1>2. c \in 0 .. M - 1
  <2>1. \A R \in Nat \ {0} : x % R \in 0 .. R - 1
    OBVIOUS
  <2>2. QED BY <1>1, <2>1
<1>3. PICK q \in Int : x = M * q + c
  BY <1>1, IntQuotient
<1> HIDE DEF M, c
<1>4. c + b \in Int
  BY <1>2
<1>5. PICK p \in Int : c + b = M * p + d
  BY <1>1, <1>4, IntQuotient
<1>6. d \in 0 .. M - 1
  BY <1>1, <1>4
<1> HIDE DEF d
<1>7. x + b = M * (q + p) + d /\ q + p \in Int
  BY <1>1, <1>2, <1>3, <1>5, <1>6
<1>8. \A k \in Int : (M * k + d) % M = d
  BY <1>1, <1>6
<1>9. (x + b) % M = d
  BY <1>7, <1>8
<1>10. QED BY <1>9 DEF d, c, M

LEMMA AddAdd ==
  ASSUME NEW t \in Int, NEW a \in Int, NEW b \in Int
  PROVE  Add(Add(t, a), b) = Add(t, a + b)
<1>1. t + a \in Int /\ (t + a) + b = t + (a + b)
  OBVIOUS
<1>2. QED BY <1>1, ModAdd DEF Add

\* TTIs less than a period apart differ.
LEMMA AddSame ==
  ASSUME NEW t \in Int, NEW a \in Int, NEW b \in Int,
         a <= b, b - a < TtiMod, Add(t, a) = Add(t, b)
  PROVE  a = b
<1> DEFINE M == TtiMod
           d == (t + a) % M
<1>1. M \in Nat \ {0} /\ t + a \in Int /\ t + b \in Int
  BY TtiAssumption
<1>2. PICK p \in Int : t + a = M * p + d
  BY <1>1, IntQuotient
<1>3. PICK q \in Int : t + b = M * q + ((t + b) % M)
  BY <1>1, IntQuotient
<1>4. (t + b) % M = d
  BY DEF Add
<1>5. d \in Int
  BY ModType, <1>1 DEF Ttis
<1>6. b - a < M
  OBVIOUS
<1> HIDE DEF M, d
<1>7. M * (q - p) = b - a /\ q - p \in Int
  BY <1>1, <1>2, <1>3, <1>4, <1>5
<1>8. ASSUME NEW k \in Int, M * k < M, 0 <= M * k PROVE M * k = 0
  <2>1. CASE k <= -1
    <3>1. M * k <= -M
      BY <1>1, <2>1
    <3>2. QED BY <1>1, <1>8, <3>1
  <2>2. CASE k = 0
    BY <1>1, <2>2
  <2>3. CASE k >= 1
    BY <1>1, <1>8, <2>3
  <2>4. QED BY <2>1, <2>2, <2>3
<1>9. M * (q - p) = 0
  BY <1>6, <1>7, <1>8
<1>10. QED BY <1>7, <1>9

LEMMA AddZero ==
  ASSUME NEW t \in Ttis
  PROVE  Add(t, 0) = t
<1>1. \A M \in Nat \ {0} : \A x \in 0 .. M - 1 : (x + 0) % M = x
  OBVIOUS
<1>2. QED BY <1>1, TtiAssumption DEF Add, Ttis

-----------------------------------------------------------------------------
(***************************************************************************)
(* Types.                                                                  *)
(***************************************************************************)
RarType  == [prach_tti : PrachTtis, grants : Seq(Rntis) \ {<<>>}]
RingTtis == 0 .. TtiMod + Msg3Delay
SfType   == [tti_rx : RingTtis, last_msg3_prb : Nat, rars : SUBSET Grants,
             msg3 : SUBSET Grants, generated : BOOLEAN]
RingType == [0 .. RingSize - 1 -> SfType]
RachType == [fate : {"none", "waiting", "answered", "late"}, due : Ttis]

LEMMA TtiFacts ==
  /\ Ttis \subseteq Nat /\ Ttis \subseteq RingTtis /\ 0 \in Ttis /\ NoTti \in RingTtis
  /\ \A t \in Ttis : Msg3Tti(t) \in RingTtis
  /\ RingTtis \subseteq Nat
BY TtiAssumption DEF Ttis, RingTtis, NoTti, Msg3Tti

LEMMA FlightType ==
  ASSUME base \in Ttis
  PROVE  InFlight \subseteq Ttis
BY ModType, TtiAssumption DEF InFlight, Add, Ttis

LEMMA FirstType ==
  ASSUME NEW t
  PROVE  /\ FirstMsg3Prb(t) \in Nat /\ FirstMsg3Prb(t) >= NrbPucch
         /\ Add(TxUl(t), Msg3Delay) \in PrachTtis => FirstMsg3Prb(t) >= PrachOffset + PrachSize
                                                     \/ NrbPucch >= PrachOffset + PrachSize
BY PrbAssumption DEF FirstMsg3Prb

LEMMA NewTtiType ==
  ASSUME NEW t \in RingTtis
  PROVE  /\ NewTti(t) \in SfType /\ NewTti(t).tti_rx = t /\ NewTti(t).rars = {}
         /\ NewTti(t).msg3 = {} /\ NewTti(t).last_msg3_prb = FirstMsg3Prb(t)
BY FirstType DEF NewTti, SfType

\* get_sf_sched binds the slot of a TTI to it and leaves the others alone.
LEMMA GetFacts ==
  ASSUME NEW ring \in RingType, NEW t \in RingTtis
  PROVE  /\ GetSfSched(ring, t) \in RingType
         /\ GetSfSched(ring, t)[Slot(t)].tti_rx = t
         /\ \A i \in 0 .. RingSize - 1 : i # Slot(t) => GetSfSched(ring, t)[i] = ring[i]
         /\ \/ ring[Slot(t)].tti_rx = t /\ GetSfSched(ring, t)[Slot(t)] = ring[Slot(t)]
            \/ ring[Slot(t)].tti_rx # t /\ GetSfSched(ring, t)[Slot(t)] = NewTti(t)
<1>1. Slot(t) \in 0 .. RingSize - 1
  BY SlotType, TtiFacts
<1> DEFINE s == Slot(t)
           n == NewTti(t)
<1>2. n \in SfType /\ n.tti_rx = t
  BY NewTtiType
<1> HIDE DEF s, n
<1>3. GetSfSched(ring, t) = IF ring[s].tti_rx = t THEN ring ELSE [ring EXCEPT ![s] = n]
  BY DEF GetSfSched, s, n
<1>4. CASE ring[s].tti_rx = t
  BY <1>3, <1>4 DEF s
<1>5. CASE ring[s].tti_rx # t
  BY <1>1, <1>2, <1>3, <1>5 DEF s, n, RingType
<1>6. QED BY <1>4, <1>5

\* alloc_rar takes a prefix of the grants, as long as the PRBs for Msg3 last.
Fits(last, L) == {n \in 1 .. L : last + Msg3Size * n <= MaxMsg3Prb}
LEMMA FitsFacts ==
  ASSUME NEW last \in Nat, NEW L \in Nat
  PROVE  /\ Cardinality(Fits(last, L)) \in 0 .. L
         /\ \A i \in 1 .. Cardinality(Fits(last, L)) : last + Msg3Size * i <= MaxMsg3Prb
<1> DEFINE fits == {n \in 1 .. L : last + Msg3Size * n <= MaxMsg3Prb}
<1>0. Fits(last, L) = fits
  BY DEF Fits
<1>1. Msg3Size \in Nat \ {0} /\ MaxMsg3Prb \in Nat
  BY PrbAssumption
<1>2. fits \subseteq 1 .. L
  OBVIOUS
<1>3. CASE fits = {}
  <2>1. Cardinality(Fits(last, L)) = 0
    BY <1>0, <1>3, FS_EmptySet
  <2>2. 1 .. 0 = {}
    OBVIOUS
  <2>3. QED BY <2>1, <2>2
<1>4. CASE fits # {}
  <2>1. IsFiniteSet(fits)
    <3> HIDE DEF fits
    <3>1. IsFiniteSet(1 .. L)
      BY FS_Interval
    <3>2. QED BY <1>2, <3>1, FS_Subset
  <2>2. PICK k \in fits : \A v \in fits : k >= v
    <3> HIDE DEF fits
    <3>1. fits \in SUBSET Int
      BY <1>2
    <3>2. QED BY <1>4, <2>1, <3>1, GreatestExists
  <2>3. k \in 1 .. L /\ last + Msg3Size * k <= MaxMsg3Prb
    BY <2>2
  <2>4. \A i \in 1 .. k : last + Msg3Size * i <= MaxMsg3Prb
    <3>1. \A a \in Nat, i \in Nat : i <= k => a * i <= a * k
      BY <2>3
    <3>2. QED BY <1>1, <2>3, <3>1
  <2>5. fits = 1 .. k
    BY <2>2, <2>3, <2>4
  <2>6. Cardinality(1 .. k) = k
    BY <2>3, FS_Interval
  <2> HIDE DEF fits
  <2>7. Cardinality(fits) = k
    BY <2>5, <2>6
  <2>8. QED BY <1>0, <2>3, <2>4, <2>7
<1>5. QED BY <1>3, <1>4

LEMMA NofGrantsFacts ==
  ASSUME NEW sf \in SfType, NEW rar \in RarType
  PROVE  /\ NofGrants(sf, rar) \in 0 .. Len(rar.grants)
         /\ \A i \in 1 .. NofGrants(sf, rar) :
              sf.last_msg3_prb + Msg3Size * i <= MaxMsg3Prb
<1>1. sf.last_msg3_prb \in Nat /\ Len(rar.grants) \in Nat
  BY DEF SfType, RarType
<1>2. QED BY <1>1, FitsFacts DEF NofGrants, Fits

\* The grants of a RAR have the PRBs one behind the other.
LEMMA GrantFacts ==
  ASSUME NEW sf \in SfType, NEW rar \in RarType, NEW n \in 0 .. Len(rar.grants),
         \A i \in 1 .. n : sf.last_msg3_prb + Msg3Size * i <= MaxMsg3Prb
  PROVE  /\ Grant(sf, rar, n) \in SfType
         /\ Grant(sf, rar, n).tti_rx = sf.tti_rx /\ Grant(sf, rar, n).msg3 = sf.msg3
         /\ Grant(sf, rar, n).generated = sf.generated
         /\ Grant(sf, rar, n).last_msg3_prb = sf.last_msg3_prb + Msg3Size * n
         /\ Grant(sf, rar, n).rars =
              sf.rars \cup {[rnti |-> rar.grants[i],
                             prb |-> sf.last_msg3_prb + Msg3Size * (i - 1)] : i \in 1 .. n}
<1>1. Msg3Size \in Nat \ {0} /\ MaxMsg3Prb \in Nat
  BY PrbAssumption
<1> DEFINE last == sf.last_msg3_prb
           new == {[rnti |-> rar.grants[i], prb |-> last + Msg3Size * (i - 1)] : i \in 1 .. n}
           m == Msg3Size * n
<1>2. last \in Nat /\ n \in Nat
  BY DEF SfType, RarType
<1>3. new \subseteq Grants
  <2> SUFFICES ASSUME NEW i \in 1 .. n
               PROVE  rar.grants[i] \in Rntis /\ last + Msg3Size * (i - 1) \in 0 .. MaxMsg3Prb
    BY DEF Grants
  <2>1. rar.grants \in Seq(Rntis) /\ i \in 1 .. Len(rar.grants)
    BY DEF RarType
  <2>2. rar.grants[i] \in Rntis
    BY <2>1
  <2>3. \A a \in Nat : a * (i - 1) \in Nat /\ a * (i - 1) <= a * i
    OBVIOUS
  <2>4. Msg3Size * (i - 1) \in Nat /\ Msg3Size * (i - 1) <= Msg3Size * i
    BY <1>1, <2>3
  <2>5. Msg3Size * i \in Nat /\ last + Msg3Size * i <= MaxMsg3Prb
    <3>1. \A a, b \in Nat : a * b \in Nat
      OBVIOUS
    <3>2. Msg3Size \in Nat /\ i \in Nat
      BY <1>1, <1>2
    <3>3. QED BY <3>1, <3>2
  <2> DEFINE x == Msg3Size * (i - 1)
             y == Msg3Size * i
  <2> HIDE DEF x, y, last
  <2>6. x \in Nat /\ y \in Nat /\ x <= y /\ last + y <= MaxMsg3Prb
    BY <2>4, <2>5 DEF x, y
  <2>7. last + x \in 0 .. MaxMsg3Prb
    BY <1>1, <1>2, <2>6
  <2>8. QED BY <2>2, <2>7 DEF x
<1>4. m \in Nat
  BY <1>1, <1>2
<1>5. Grant(sf, rar, n) = [sf EXCEPT !.rars = @ \cup new, !.last_msg3_prb = @ + m]
  BY DEF Grant, SfType
<1> HIDE DEF new, m
<1> DEFINE g == Grant(sf, rar, n)
<1>6. g \in SfType /\ g.tti_rx = sf.tti_rx /\ g.msg3 = sf.msg3 /\ g.generated = sf.generated
  <2>1. last + m \in Nat
    BY <1>2, <1>4
  <2>2. sf.rars \cup new \in SUBSET Grants
    BY <1>3 DEF SfType
  <2> HIDE DEF g
  <2>3. g = [sf EXCEPT !.rars = sf.rars \cup new, !.last_msg3_prb = last + m]
    BY <1>5 DEF g, SfType
  <2>4. QED BY <2>1, <2>2, <2>3 DEF SfType
<1>7. g.last_msg3_prb = last + m /\ g.rars = sf.rars \cup new
  BY <1>5 DEF SfType
<1> HIDE DEF g
<1>8. QED BY <1>6, <1>7 DEF g, new, m

\* ul_sched moves the Msg3 of users that exist to the slot of a later TTI.
LEMMA UlFacts ==
  ASSUME NEW ring \in RingType, NEW t \in Ttis
  PROVE  /\ UlSched(ring, t) \in RingType
         /\ \A i \in 0 .. RingSize - 1 : i # Slot(Msg3Tti(t)) => UlSched(ring, t)[i] = ring[i]
         /\ UlSched(ring, t)[Slot(Msg3Tti(t))].tti_rx = Msg3Tti(t)
         /\ UlSched(ring, t)[Slot(Msg3Tti(t))].rars
              = GetSfSched(ring, Msg3Tti(t))[Slot(Msg3Tti(t))].rars
         /\ UlSched(ring, t)[Slot(Msg3Tti(t))].last_msg3_prb
              = GetSfSched(ring, Msg3Tti(t))[Slot(Msg3Tti(t))].last_msg3_prb
         /\ UlSched(ring, t)[Slot(Msg3Tti(t))].msg3
              \subseteq GetSfSched(ring, Msg3Tti(t))[Slot(Msg3Tti(t))].msg3 \cup ring[Slot(t)].rars
<1> DEFINE m3 == Msg3Tti(t)
           s == Slot(m3)
           to == GetSfSched(ring, m3)
           users == {g \in ring[Slot(t)].rars : g.rnti \in ue_db}
           sum == to[s].msg3 \cup users
<1>1. m3 \in RingTtis /\ t \in Nat /\ m3 \in Nat
  BY TtiFacts
<1>2. s \in 0 .. RingSize - 1 /\ Slot(t) \in 0 .. RingSize - 1
  BY <1>1, SlotType
<1>3. /\ to \in RingType /\ to[s].tti_rx = m3
      /\ \A i \in 0 .. RingSize - 1 : i # s => to[i] = ring[i]
  BY <1>1, GetFacts
<1>4. users \subseteq ring[Slot(t)].rars /\ users \in SUBSET Grants
  BY <1>2 DEF RingType, SfType
<1>5. to[s] \in SfType /\ sum \in SUBSET Grants
  BY <1>2, <1>3, <1>4 DEF RingType, SfType
<1>6. UlSched(ring, t) = IF to[s].generated THEN to
                         ELSE [to EXCEPT ![s].msg3 = sum]
  BY <1>2, <1>3 DEF UlSched, RingType
<1>7. CASE to[s].generated
  <2> HIDE DEF m3, s, to, users, sum
  <2>1. UlSched(ring, t) = to
    BY <1>6, <1>7
  <2>2. QED BY <1>3, <2>1 DEF to, m3, s
<1>8. CASE ~to[s].generated
  <2> DEFINE sf == [to[s] EXCEPT !.msg3 = sum]
  <2> HIDE DEF m3, s, to, users, sum
  <2>1. sf \in SfType
    BY <1>5 DEF SfType
  <2>2. /\ sf.tti_rx = to[s].tti_rx /\ sf.rars = to[s].rars
        /\ sf.last_msg3_prb = to[s].last_msg3_prb /\ sf.msg3 = sum
    BY <1>5 DEF SfType
  <2> HIDE DEF sf
  <2>3. UlSched(ring, t) = [to EXCEPT ![s] = sf]
    BY <1>2, <1>3, <1>6, <1>8 DEF sf, RingType
  <2>4. UlSched(ring, t)[s] = sf /\ UlSched(ring, t) \in RingType
    BY <1>2, <1>3, <2>1, <2>3 DEF RingType
  <2>5. \A i \in 0 .. RingSize - 1 : i # s => UlSched(ring, t)[i] = ring[i]
    BY <1>3, <2>3 DEF RingType
  <2>6. sum \subseteq to[s].msg3 \cup ring[Slot(t)].rars
    BY <1>4 DEF sum
  <2>7. QED BY <1>3, <2>2, <2>4, <2>5, <2>6 DEF to, m3, s
<1>9. QED BY <1>7, <1>8

-----------------------------------------------------------------------------
(***************************************************************************)
(* The queue of pending RARs.  It is orderly when no two RARs answer one   *)
(* PRACH and no two grants are for one user.                               *)
(***************************************************************************)
Places(q, i) == DOMAIN q[i].grants
Orderly(q) ==
  /\ \A i, j \in DOMAIN q : q[i].prach_tti = q[j].prach_tti => i = j
  /\ \A i, j \in DOMAIN q : \A k \in Places(q, i), l \in Places(q, j) :
       q[i].grants[k] = q[j].grants[l] => i = j /\ k = l
Holds(q, r) == \E i \in DOMAIN q : \E k \in Places(q, i) : q[i].grants[k] = r

LEMMA RarFacts ==
  ASSUME NEW q \in Seq(RarType), NEW i \in DOMAIN q
  PROVE  /\ q[i] \in RarType /\ q[i].prach_tti \in PrachTtis
         /\ q[i].grants \in Seq(Rntis) /\ Len(q[i].grants) \in Nat \ {0}
         /\ Places(q, i) = 1 .. Len(q[i].grants)
         /\ \A k \in Places(q, i) : q[i].grants[k] \in Rntis
<1>1. q[i] \in RarType
  OBVIOUS
<1>2. q[i].grants \in Seq(Rntis) /\ q[i].grants # <<>> /\ q[i].prach_tti \in PrachTtis
  BY <1>1 DEF RarType
<1>3. \A s \in Seq(Rntis) : /\ s # <<>> => Len(s) \in Nat \ {0}
                            /\ DOMAIN s = 1 .. Len(s) /\ \A k \in DOMAIN s : s[k] \in Rntis
  OBVIOUS
<1>4. QED BY <1>1, <1>2, <1>3 DEF Places

\* A RAR whose window is over, or that is answered in full, leaves with its grants.
LEMMA TailQueue ==
  ASSUME NEW q \in Seq(RarType), q # <<>>, Orderly(q)
  PROVE  /\ Tail(q) \in Seq(RarType) /\ Orderly(Tail(q))
         /\ \A r : Holds(Tail(q), r)
                     <=> Holds(q, r) /\ ~ \E k \in Places(q, 1) : q[1].grants[k] = r
<1> DEFINE p == Tail(q)
<1>1. p \in Seq(RarType) /\ Len(q) \in Nat \ {0} /\ Len(p) = Len(q) - 1
  OBVIOUS
<1>2. DOMAIN p = 1 .. Len(q) - 1 /\ DOMAIN q = 1 .. Len(q)
  BY <1>1
<1>3. \A i \in DOMAIN p : p[i] = q[i + 1] /\ i + 1 \in DOMAIN q /\ i + 1 # 1
  BY <1>1
<1> HIDE DEF p
<1>4. \A i \in DOMAIN p : Places(p, i) = Places(q, i + 1)
  BY <1>3 DEF Places
<1>5. \A i, j \in DOMAIN p : i + 1 = j + 1 => i = j
  BY <1>2
<1>6. Orderly(p)
  BY <1>3, <1>4, <1>5 DEF Orderly
<1>7. ASSUME NEW r, Holds(p, r)
      PROVE  Holds(q, r) /\ ~ \E k \in Places(q, 1) : q[1].grants[k] = r
  <2>0. PICK i \in DOMAIN p : \E k \in Places(p, i) : p[i].grants[k] = r
    BY <1>7 DEF Holds
  <2>1. PICK k \in Places(p, i) : p[i].grants[k] = r
    BY <2>0
  <2>2. i + 1 \in DOMAIN q /\ k \in Places(q, i + 1) /\ q[i + 1].grants[k] = r /\ i + 1 # 1
    BY <1>3, <1>4, <2>1
  <2>3. 1 \in DOMAIN q
    BY <1>1, <1>2
  <2>4. QED BY <2>2, <2>3 DEF Holds, Orderly
<1>8. ASSUME NEW r, Holds(q, r), ~ \E k \in Places(q, 1) : q[1].grants[k] = r
      PROVE  Holds(p, r)
  <2>0. PICK i \in DOMAIN q : \E k \in Places(q, i) : q[i].grants[k] = r
    BY <1>8 DEF Holds
  <2>1. PICK k \in Places(q, i) : q[i].grants[k] = r
    BY <2>0
  <2>2. i # 1
    BY <1>8, <2>1
  <2>3. i - 1 \in DOMAIN p /\ (i - 1) + 1 = i
    BY <1>1, <1>2, <2>2
  <2>4. QED BY <1>3, <1>4, <2>1, <2>3 DEF Holds
<1>9. QED BY <1>1, <1>6, <1>7, <1>8 DEF p

\* p is the queue q but for the first n of the L grants of its head.
Cut(p, q, n, L) ==
  /\ n \in Nat /\ L \in Nat /\ n <= L /\ 1 \in DOMAIN q /\ DOMAIN p = DOMAIN q
  /\ Places(q, 1) = 1 .. L /\ Places(p, 1) = 1 .. L - n
  /\ \A k \in 1 .. L - n : p[1].grants[k] = q[1].grants[k + n]
  /\ p[1].prach_tti = q[1].prach_tti
  /\ \A i \in DOMAIN q : i # 1 => p[i] = q[i]

LEMMA CutHead ==
  ASSUME NEW q, NEW p, NEW n, NEW L, Orderly(q), Cut(p, q, n, L)
  PROVE  /\ Orderly(p)
         /\ \A r : Holds(p, r) <=> Holds(q, r) /\ ~ \E k \in 1 .. n : q[1].grants[k] = r
<1> USE DEF Cut
<1>1. \A i \in DOMAIN q : i # 1 => Places(p, i) = Places(q, i)
  BY DEF Places
<1>2. \A i \in DOMAIN q : p[i].prach_tti = q[i].prach_tti
  OBVIOUS
<1>3. \A k \in Places(p, 1) : k + n \in Places(q, 1) /\ p[1].grants[k] = q[1].grants[k + n]
  OBVIOUS
<1>4. ASSUME NEW i \in DOMAIN q, NEW j \in DOMAIN q, NEW k \in Places(p, i), NEW l \in Places(p, j),
             p[i].grants[k] = p[j].grants[l]
      PROVE  i = j /\ k = l
  <2>1. CASE i = 1 /\ j = 1
    <3>1. k \in 1 .. L - n /\ l \in 1 .. L - n
      BY <2>1
    <3> DEFINE a == k + n
               b == l + n
    <3>2. a \in Places(q, 1) /\ b \in Places(q, 1) /\ q[1].grants[a] = q[1].grants[b]
      BY <1>3, <1>4, <2>1
    <3> HIDE DEF a, b
    <3>3. a = b
      BY <3>2 DEF Orderly
    <3>4. QED BY <2>1, <3>1, <3>3 DEF a, b
  <2>2. CASE i = 1 /\ j # 1
    <3> DEFINE a == k + n
    <3>1. a \in Places(q, 1) /\ l \in Places(q, j) /\ q[1].grants[a] = q[j].grants[l]
      BY <1>1, <1>3, <1>4, <2>2
    <3> HIDE DEF a
    <3>2. 1 = j
      BY <3>1 DEF Orderly
    <3>3. QED BY <2>2, <3>2
  <2>3. CASE i # 1 /\ j = 1
    <3> DEFINE b == l + n
    <3>1. k \in Places(q, i) /\ b \in Places(q, 1) /\ q[i].grants[k] = q[1].grants[b]
      BY <1>1, <1>3, <1>4, <2>3
    <3> HIDE DEF b
    <3>2. i = 1
      BY <3>1 DEF Orderly
    <3>3. QED BY <2>3, <3>2
  <2>4. CASE i # 1 /\ j # 1
    BY <1>1, <1>4, <2>4 DEF Orderly
  <2>5. QED BY <2>1, <2>2, <2>3, <2>4
<1>5. Orderly(p)
  BY <1>2, <1>4 DEF Orderly
<1>6. ASSUME NEW r, Holds(p, r)
      PROVE  Holds(q, r) /\ ~ \E k \in 1 .. n : q[1].grants[k] = r
  <2>0. PICK i \in DOMAIN p : \E k \in Places(p, i) : p[i].grants[k] = r
    BY <1>6 DEF Holds
  <2>1. PICK k \in Places(p, i) : p[i].grants[k] = r
    BY <2>0
  <2>2. CASE i = 1
    <3> DEFINE a == k + n
    <3>1. k \in 1 .. L - n /\ a \in Places(q, 1) /\ q[1].grants[a] = r
      BY <1>3, <2>1, <2>2
    <3> HIDE DEF a
    <3>2. ASSUME NEW m \in 1 .. n, q[1].grants[m] = r PROVE FALSE
      <4>1. m \in Places(q, 1)
        OBVIOUS
      <4>2. m = a
        BY <3>1, <3>2, <4>1 DEF Orderly
      <4>3. QED BY <3>1, <4>2 DEF a
    <3>3. QED BY <3>1, <3>2 DEF Holds
  <2>3. CASE i # 1
    <3>1. k \in Places(q, i) /\ q[i].grants[k] = r /\ 1 .. n \subseteq Places(q, 1)
      BY <1>1, <2>1, <2>3
    <3>2. QED BY <2>3, <3>1 DEF Holds, Orderly
  <2>4. QED BY <2>2, <2>3
<1>7. ASSUME NEW r, Holds(q, r), ~ \E k \in 1 .. n : q[1].grants[k] = r
      PROVE  Holds(p, r)
  <2>0. PICK i \in DOMAIN q : \E k \in Places(q, i) : q[i].grants[k] = r
    BY <1>7 DEF Holds
  <2>1. PICK k \in Places(q, i) : q[i].grants[k] = r
    BY <2>0
  <2>2. CASE i = 1
    <3> DEFINE b == k - n
    <3>1. k \in 1 .. L /\ k \notin 1 .. n
      BY <1>7, <2>1, <2>2
    <3>2. b \in 1 .. L - n /\ b + n = k
      BY <3>1
    <3> HIDE DEF b
    <3>3. b \in Places(p, 1) /\ p[1].grants[b] = r
      BY <2>1, <2>2, <3>2
    <3>4. QED BY <3>3 DEF Holds
  <2>3. CASE i # 1
    BY <1>1, <2>1, <2>3 DEF Holds
  <2>4. QED BY <2>2, <2>3
<1>8. QED BY <1>5, <1>6, <1>7

\* A RAR that is answered in part keeps the grants that have no PRBs yet.
LEMMA RestOfHead ==
  ASSUME NEW q \in Seq(RarType), q # <<>>, Orderly(q),
         NEW n \in 1 .. Len(q[1].grants), n # Len(q[1].grants),
         NEW rest, rest = SubSeq(q[1].grants, n + 1, Len(q[1].grants)),
         NEW h, h = [q[1] EXCEPT !.grants = rest]
  PROVE  /\ <<h>> \o Tail(q) \in Seq(RarType) /\ Orderly(<<h>> \o Tail(q))
         /\ \A r : Holds(<<h>> \o Tail(q), r)
                     <=> Holds(q, r) /\ ~ \E k \in 1 .. n : q[1].grants[k] = r
<1> DEFINE g == q[1].grants
           L == Len(g)
           p == <<h>> \o Tail(q)
<1>1. 1 \in DOMAIN q /\ Len(q) \in Nat \ {0} /\ DOMAIN q = 1 .. Len(q)
  OBVIOUS
<1>2. q[1] \in RarType /\ g \in Seq(Rntis) /\ L \in Nat \ {0} /\ Places(q, 1) = 1 .. L
  BY <1>1, RarFacts
<1>0. n \in Nat /\ n <= L /\ L - n # 0 /\ g = q[1].grants /\ L = Len(g)
  BY <1>2
<1>20. rest = SubSeq(g, n + 1, L)
  OBVIOUS
<1> HIDE DEF g, L
<1>3. rest \in Seq(Rntis) /\ Len(rest) = L - n /\ \A k \in 1 .. L - n : rest[k] = g[k + n]
  <2>1. n + 1 \in 1 .. Len(g) + 1 /\ L \in n .. Len(g) /\ L \in (n + 1) - 1 .. Len(g)
    BY <1>0, <1>2
  <2>2. QED BY ONLY <1>0, <1>2, <1>20, <2>1, SubSeqProperties
<1>4. DOMAIN rest = 1 .. L - n /\ rest # <<>>
  <2>1. \A e \in Seq(Rntis) : DOMAIN e = 1 .. Len(e) /\ (Len(e) # 0 => e # <<>>)
    OBVIOUS
  <2>2. QED BY ONLY <1>0, <1>3, <2>1
<1>5. h \in RarType /\ h.grants = rest /\ h.prach_tti = q[1].prach_tti
  BY <1>2, <1>3, <1>4 DEF RarType
<1>6. Tail(q) \in Seq(RarType) /\ Len(Tail(q)) = Len(q) - 1
      /\ \A i \in 1 .. Len(q) - 1 : Tail(q)[i] = q[i + 1]
  OBVIOUS
<1>7. p \in Seq(RarType) /\ Len(p) = Len(q) /\ p[1] = h /\ \A i \in 2 .. Len(q) : p[i] = q[i]
  <2> DEFINE t == Tail(q)
             u == <<h>>
  <2>1. u \in Seq(RarType) /\ Len(u) = 1 /\ u[1] = h
    BY <1>5
  <2>2. p = u \o t
    OBVIOUS
  <2>3. t \in Seq(RarType) /\ Len(t) = Len(q) - 1 /\ \A i \in 1 .. Len(q) - 1 : t[i] = q[i + 1]
    BY <1>6
  <2> HIDE DEF t, u, p
  <2>9. /\ u \o t \in Seq(RarType) /\ Len(u \o t) = Len(u) + Len(t)
        /\ \A i \in 1 .. Len(u) + Len(t) :
             (u \o t)[i] = IF i <= Len(u) THEN u[i] ELSE t[i - Len(u)]
    BY ONLY <2>1, <2>3, ConcatProperties
  <2>4. /\ p \in Seq(RarType) /\ Len(p) = Len(u) + Len(t)
        /\ \A i \in 1 .. Len(u) + Len(t) : p[i] = IF i <= Len(u) THEN u[i] ELSE t[i - Len(u)]
    BY ONLY <2>2, <2>9
  <2>5. Len(u) + Len(t) = Len(q)
    BY <1>1, <2>1, <2>3
  <2>6. p[1] = h
    <3>1. 1 \in 1 .. Len(u) + Len(t) /\ 1 <= Len(u)
      BY ONLY <1>1, <2>1, <2>5
    <3>2. QED BY ONLY <2>1, <2>4, <3>1
  <2>7. ASSUME NEW i \in 2 .. Len(q) PROVE p[i] = q[i]
    <3>1. p[i] = t[i - 1]
      BY ONLY <1>1, <2>1, <2>4, <2>5, i \in 2 .. Len(q)
    <3>2. i - 1 \in 1 .. Len(q) - 1 /\ (i - 1) + 1 = i
      BY <1>1
    <3>3. QED BY <2>3, <3>1, <3>2
  <2>8. QED BY <2>4, <2>5, <2>6, <2>7
<1> HIDE DEF p
<1>8. DOMAIN p = DOMAIN q
  BY <1>1, <1>7
<1>9. Places(p, 1) = 1 .. L - n /\ \A k \in 1 .. L - n : p[1].grants[k] = q[1].grants[k + n]
  BY <1>0, <1>3, <1>4, <1>5, <1>7 DEF Places
<1>10. \A i \in DOMAIN q : i # 1 => p[i] = q[i]
  BY <1>1, <1>7
<1>11. p[1].prach_tti = q[1].prach_tti
  BY <1>5, <1>7
<1>12. n \in Nat /\ L \in Nat
  BY <1>0, <1>2
<1>13. /\ Orderly(p)
       /\ \A r : Holds(p, r) <=> Holds(q, r) /\ ~ \E k \in 1 .. n : q[1].grants[k] = r
  <2>1. Cut(p, q, n, L)
    BY <1>0, <1>1, <1>2, <1>8, <1>9, <1>10, <1>11, <1>12 DEF Cut
  <2>2. QED BY <2>1, CutHead
<1>14. QED BY <1>7, <1>13 DEF p
\* dl_rach_info: a preamble of a new PRACH is a RAR of its own, and one of a PRACH
\* that has a RAR joins it.
LEMMA NewRar ==
  ASSUME NEW q \in Seq(RarType), Orderly(q), NEW rar \in RarType, NEW r,
         rar.grants = <<r>>, ~Holds(q, r),
         \A i \in DOMAIN q : q[i].prach_tti # rar.prach_tti
  PROVE  /\ Append(q, rar) \in Seq(RarType) /\ Orderly(Append(q, rar))
         /\ \A x : Holds(Append(q, rar), x) <=> Holds(q, x) \/ x = r
<1> DEFINE p == Append(q, rar)
           N == Len(q)
<1>1. p \in Seq(RarType) /\ N \in Nat /\ Len(p) = N + 1
      /\ p[N + 1] = rar /\ \A i \in 1 .. N : p[i] = q[i]
  OBVIOUS
<1>2. DOMAIN p = 1 .. N + 1 /\ DOMAIN q = 1 .. N
  <2>1. \A e \in Seq(RarType) : DOMAIN e = 1 .. Len(e)
    OBVIOUS
  <2>2. QED BY <1>1, <2>1
<1> HIDE DEF p, N
<1>3. \A i \in DOMAIN q : i \in DOMAIN p /\ p[i] = q[i] /\ Places(p, i) = Places(q, i) /\ i # N + 1
  BY <1>1, <1>2 DEF Places
<1>4. N + 1 \in DOMAIN p /\ Places(p, N + 1) = {1} /\ p[N + 1].grants[1] = r
      /\ p[N + 1].prach_tti = rar.prach_tti
  BY <1>1, <1>2 DEF Places
<1>5. \A i \in DOMAIN p : i \in DOMAIN q \/ i = N + 1
  BY <1>1, <1>2
<1>6. \A i \in DOMAIN q : \A k \in Places(q, i) : q[i].grants[k] # r
  BY DEF Holds
<1>7. Orderly(p)
  <2>1. ASSUME NEW i \in DOMAIN p, NEW j \in DOMAIN p, p[i].prach_tti = p[j].prach_tti
        PROVE  i = j
    BY <1>3, <1>4, <1>5, <2>1 DEF Orderly
  <2>2. ASSUME NEW i \in DOMAIN p, NEW j \in DOMAIN p, NEW k \in Places(p, i), NEW l \in Places(p, j),
               p[i].grants[k] = p[j].grants[l]
        PROVE  i = j /\ k = l
    <3>1. CASE i = N + 1 /\ j = N + 1
      BY <1>4, <3>1
    <3>2. CASE i \in DOMAIN q /\ j \in DOMAIN q
      BY <1>3, <2>2, <3>2 DEF Orderly
    <3>3. CASE i \in DOMAIN q /\ j = N + 1
      BY <1>3, <1>4, <1>6, <2>2, <3>3
    <3>4. CASE i = N + 1 /\ j \in DOMAIN q
      BY <1>3, <1>4, <1>6, <2>2, <3>4
    <3>5. QED BY <1>5, <3>1, <3>2, <3>3, <3>4
  <2>3. QED BY <2>1, <2>2 DEF Orderly
<1>8. ASSUME NEW x PROVE Holds(p, x) <=> Holds(q, x) \/ x = r
  BY <1>3, <1>4, <1>5 DEF Holds
<1>9. QED BY <1>1, <1>7, <1>8 DEF p

\* p is the queue q but for one more grant, r, of its RAR m.
Longer(p, q, m, L, r) ==
  /\ L \in Nat /\ m \in DOMAIN q /\ DOMAIN p = DOMAIN q
  /\ Places(q, m) = 1 .. L /\ Places(p, m) = 1 .. L + 1 /\ p[m].grants[L + 1] = r
  /\ \A k \in 1 .. L : p[m].grants[k] = q[m].grants[k]
  /\ \A i \in DOMAIN q : p[i].prach_tti = q[i].prach_tti
  /\ \A i \in DOMAIN q : i # m => p[i] = q[i]

LEMMA LongerRar ==
  ASSUME NEW q, NEW p, NEW m, NEW L, NEW r,
         Orderly(q), ~Holds(q, r), Longer(p, q, m, L, r)
  PROVE  Orderly(p) /\ \A x : Holds(p, x) <=> Holds(q, x) \/ x = r
<1>1. L \in Nat /\ m \in DOMAIN q /\ Places(q, m) = 1 .. L
  BY DEF Longer
<1>2. DOMAIN p = DOMAIN q /\ \A i \in DOMAIN q : i # m => p[i] = q[i]
  BY DEF Longer
<1>3. Places(p, m) = 1 .. L + 1 /\ p[m].grants[L + 1] = r
      /\ \A k \in 1 .. L : p[m].grants[k] = q[m].grants[k]
  BY DEF Longer
<1>4. \A i \in DOMAIN q : i # m => Places(p, i) = Places(q, i)
  BY <1>2 DEF Places
<1>5. \A i \in DOMAIN q : p[i].prach_tti = q[i].prach_tti
  BY DEF Longer
<1>6. \A i \in DOMAIN q : \A k \in Places(q, i) :
          k \in Places(p, i) /\ p[i].grants[k] = q[i].grants[k] /\ q[i].grants[k] # r
  <2>1. SUFFICES ASSUME NEW i \in DOMAIN q, NEW k \in Places(q, i)
                 PROVE  k \in Places(p, i) /\ p[i].grants[k] = q[i].grants[k]
    BY DEF Holds
  <2>2. CASE i = m
    BY <1>1, <1>3, <2>2
  <2>3. CASE i # m
    BY <1>2, <1>4, <2>3
  <2>4. QED BY <2>2, <2>3
<1>7. \A i \in DOMAIN q : \A k \in Places(p, i) : k \in Places(q, i) \/ (i = m /\ k = L + 1)
  <2>1. \A k \in 1 .. L + 1 : k \in 1 .. L \/ k = L + 1
    BY <1>1
  <2>2. QED BY <1>1, <1>3, <1>4, <2>1
<1>8. L + 1 \in Places(p, m)
  BY <1>1, <1>3
<1>9. Orderly(p)
  <2>1. ASSUME NEW i \in DOMAIN p, NEW j \in DOMAIN p, p[i].prach_tti = p[j].prach_tti
        PROVE  i = j
    BY <1>2, <1>5, <2>1 DEF Orderly
  <2>2. ASSUME NEW i \in DOMAIN p, NEW j \in DOMAIN p, NEW k \in Places(p, i), NEW l \in Places(p, j),
               p[i].grants[k] = p[j].grants[l]
        PROVE  i = j /\ k = l
    <3>1. CASE k \in Places(q, i) /\ l \in Places(q, j)
      BY <1>2, <1>6, <2>2, <3>1 DEF Orderly
    <3>2. CASE i = m /\ k = L + 1 /\ j = m /\ l = L + 1
      BY <3>2
    <3>3. CASE k \in Places(q, i) /\ j = m /\ l = L + 1
      <4>1. p[j].grants[l] = r
        BY <1>3, <3>3
      <4>2. p[i].grants[k] # r
        BY <1>2, <1>6, <3>3
      <4>3. QED BY <2>2, <4>1, <4>2
    <3>4. CASE l \in Places(q, j) /\ i = m /\ k = L + 1
      <4>1. p[i].grants[k] = r
        BY <1>3, <3>4
      <4>2. p[j].grants[l] # r
        BY <1>2, <1>6, <3>4
      <4>3. QED BY <2>2, <4>1, <4>2
    <3>5. QED BY <1>2, <1>7, <3>1, <3>2, <3>3, <3>4
  <2>3. QED BY <2>1, <2>2 DEF Orderly
<1>10. ASSUME NEW x PROVE Holds(p, x) <=> Holds(q, x) \/ x = r
  <2>1. ASSUME Holds(p, x) PROVE Holds(q, x) \/ x = r
    BY <1>2, <1>3, <1>6, <1>7, <2>1 DEF Holds
  <2>2. ASSUME Holds(q, x) PROVE Holds(p, x)
    BY <1>2, <1>6, <2>2 DEF Holds
  <2>3. ASSUME x = r PROVE Holds(p, x)
    <3>1. m \in DOMAIN p /\ L + 1 \in Places(p, m) /\ p[m].grants[L + 1] = x
      BY <1>1, <1>2, <1>3, <1>8, <2>3
    <3> DEFINE e == L + 1
    <3> HIDE DEF e
    <3>2. m \in DOMAIN p /\ e \in Places(p, m) /\ p[m].grants[e] = x
      BY <3>1 DEF e
    <3>3. QED BY <3>2 DEF Holds
  <2>4. QED BY <2>1, <2>2, <2>3
<1>11. QED BY <1>9, <1>10

Joined(p, q, m, r) ==
  p = [i \in DOMAIN q |-> IF i = m THEN [q[i] EXCEPT !.grants = Append(@, r)] ELSE q[i]]
LEMMA JoinRar ==
  ASSUME NEW q \in Seq(RarType), Orderly(q), NEW m \in DOMAIN q, NEW r \in Rntis,
         ~Holds(q, r),
         NEW p, Joined(p, q, m, r)
  PROVE  /\ p \in Seq(RarType) /\ Orderly(p)
         /\ \A x : Holds(p, x) <=> Holds(q, x) \/ x = r
<1> DEFINE g == q[m].grants
           L == Len(g)
           h == [q[m] EXCEPT !.grants = Append(g, r)]
<1>1. q[m] \in RarType /\ g \in Seq(Rntis) /\ L \in Nat \ {0} /\ Places(q, m) = 1 .. L
  BY RarFacts
<1>2. /\ Append(g, r) \in Seq(Rntis) /\ Append(g, r) # <<>> /\ Len(Append(g, r)) = L + 1
      /\ Append(g, r)[L + 1] = r /\ \A k \in 1 .. L : Append(g, r)[k] = g[k]
  BY <1>1
<1>3. DOMAIN Append(g, r) = 1 .. L + 1
  <2>1. \A e \in Seq(Rntis) : DOMAIN e = 1 .. Len(e)
    OBVIOUS
  <2>2. QED BY <1>2, <2>1
<1>4. h \in RarType /\ h.grants = Append(g, r) /\ h.prach_tti = q[m].prach_tti
  BY <1>1, <1>2 DEF RarType
<1>11. p = [i \in DOMAIN q |-> IF i = m THEN [q[i] EXCEPT !.grants = Append(@, r)] ELSE q[i]]
  BY DEF Joined
<1>5. DOMAIN p = DOMAIN q /\ p[m] = h /\ \A i \in DOMAIN q : i # m => p[i] = q[i]
  BY <1>11
<1>0. g = q[m].grants
  OBVIOUS
<1> HIDE DEF g, L, h
<1>6. p \in Seq(RarType)
  <2>1. Len(q) \in Nat /\ DOMAIN q = 1 .. Len(q) /\ \A i \in DOMAIN q : q[i] \in RarType
    OBVIOUS
  <2>2. p = [i \in 1 .. Len(q) |-> p[i]]
    BY <2>1, <1>11
  <2>3. \A i \in 1 .. Len(q) : p[i] \in RarType
    BY <1>4, <1>5, <2>1
  <2>4. QED BY ONLY <2>1, <2>2, <2>3, IsASeq
<1>7. Places(p, m) = 1 .. L + 1 /\ p[m].grants[L + 1] = r
      /\ \A k \in 1 .. L : p[m].grants[k] = q[m].grants[k]
  BY <1>0, <1>2, <1>3, <1>4, <1>5 DEF Places
<1>8. \A i \in DOMAIN q : p[i].prach_tti = q[i].prach_tti
  BY <1>4, <1>5
<1>9. Longer(p, q, m, L, r)
  BY <1>1, <1>5, <1>7, <1>8 DEF Longer
<1>10. QED BY <1>6, <1>9, LongerRar

LEMMA EnqueueFacts ==
  ASSUME pending_rars \in Seq(RarType), Orderly(pending_rars),
         NEW r \in Rntis, NEW tti \in PrachTtis, ~Holds(pending_rars, r)
  PROVE  /\ Enqueue(r, tti) \in Seq(RarType) /\ Orderly(Enqueue(r, tti))
         /\ \A x : Holds(Enqueue(r, tti), x) <=> Holds(pending_rars, x) \/ x = r
<1> DEFINE q == pending_rars
           same == {i \in DOMAIN q : q[i].prach_tti = tti}
           rar == [prach_tti |-> tti, grants |-> <<r>>]
           join == [i \in DOMAIN q |-> IF i \in same THEN [q[i] EXCEPT !.grants = Append(@, r)]
                                                     ELSE q[i]]
<1>1. Enqueue(r, tti) = IF same = {} THEN Append(q, rar) ELSE join
  BY DEF Enqueue
<1>2. CASE same = {}
  <2>1. Enqueue(r, tti) = Append(q, rar)
    BY <1>1, <1>2
  <2>2. <<r>> \in Seq(Rntis) \ {<<>>}
    OBVIOUS
  <2>3. rar \in RarType /\ rar.grants = <<r>> /\ rar.prach_tti = tti
    BY <2>2 DEF RarType
  <2>4. \A i \in DOMAIN q : q[i].prach_tti # tti
    BY <1>2
  <2> HIDE DEF rar
  <2>5. QED BY <2>1, <2>3, <2>4, NewRar
<1>3. CASE same # {}
  <2>1. PICK m \in DOMAIN q : q[m].prach_tti = tti
    BY <1>3
  <2>2. same = {m}
    BY <2>1 DEF Orderly
  <2>3. Enqueue(r, tti) = [i \in DOMAIN q |->
                             IF i = m THEN [q[i] EXCEPT !.grants = Append(@, r)] ELSE q[i]]
    BY <1>1, <1>3, <2>2
  <2> DEFINE p == Enqueue(r, tti)
  <2>4. Joined(p, pending_rars, m, r)
    BY <2>3 DEF Joined
  <2> HIDE DEF p
  <2>5. m \in DOMAIN pending_rars
    BY <2>1
  <2>6. /\ p \in Seq(RarType) /\ Orderly(p)
        /\ \A x : Holds(p, x) <=> Holds(pending_rars, x) \/ x = r
    BY ONLY <2>4, <2>5, JoinRar, pending_rars \in Seq(RarType), Orderly(pending_rars),
            r \in Rntis, ~Holds(pending_rars, r)
  <2>7. QED BY <2>6 DEF p
<1>4. QED BY <1>2, <1>3
-----------------------------------------------------------------------------
(***************************************************************************)
(* The inductive invariant, first part: types, and the queue of RARs.      *)
(***************************************************************************)
Types ==
  /\ base \in Ttis /\ now \in Ttis /\ done \subseteq InFlight
  /\ pc \in {"idle", "rar", "data"} /\ room \in 0 .. MaxRoom /\ lacks \in Shortages \cup {"RB"}
  /\ pc # "idle" => now \in InFlight \ done
  /\ pending_rars \in Seq(RarType) /\ sf_scheds \in RingType
  /\ ue_db \subseteq Rntis /\ rach \in [Rntis -> RachType]

Queue ==
  /\ Orderly(pending_rars)
  /\ \A r \in Rntis : rach[r].fate = "waiting" <=> Holds(pending_rars, r)

LEMMA TypesOK ==
  ASSUME Types
  PROVE  TypeOK
<1>1. done \subseteq Ttis
  BY FlightType DEF Types
<1>2. \A i \in DOMAIN pending_rars :
        /\ pending_rars[i].prach_tti \in PrachTtis
        /\ pending_rars[i].grants \in Seq(Rntis) /\ pending_rars[i].grants # <<>>
  <2> SUFFICES ASSUME NEW i \in DOMAIN pending_rars
               PROVE  /\ pending_rars[i].prach_tti \in PrachTtis
                      /\ pending_rars[i].grants \in Seq(Rntis) /\ pending_rars[i].grants # <<>>
    OBVIOUS
  <2>1. pending_rars[i] \in RarType
    BY RarFacts DEF Types
  <2>2. QED BY <2>1 DEF RarType
<1>3. /\ base \in Ttis /\ now \in Ttis /\ pc \in {"idle", "rar", "data"} /\ room \in 0 .. MaxRoom
      /\ lacks \in Shortages \cup {"RB"} /\ ue_db \subseteq Rntis /\ rach \in [Rntis -> RachType]
      /\ sf_scheds \in RingType
  BY DEF Types
<1>4. QED BY <1>1, <1>2, <1>3 DEF TypeOK, RingType, SfType, RingTtis, RachType

LEMMA HeadFacts ==
  ASSUME NEW q \in Seq(RarType), q # <<>>
  PROVE  /\ Head(q) = q[1] /\ 1 \in DOMAIN q /\ q[1] \in RarType
         /\ Places(q, 1) = DOMAIN q[1].grants /\ Places(q, 1) = 1 .. Len(q[1].grants)
<1>1. Head(q) = q[1] /\ 1 \in DOMAIN q
  OBVIOUS
<1>2. QED BY <1>1, RarFacts DEF Places

\* Queued sees every grant: no RAR has more of them than there are RNTIs.
LEMMA HeldQueued ==
  ASSUME pending_rars \in Seq(RarType), Orderly(pending_rars),
         NEW i \in DOMAIN pending_rars, NEW k \in Places(pending_rars, i)
  PROVE  <<i, k>> \in Queued
<1> DEFINE g == pending_rars[i].grants
           L == Len(g)
           C == Cardinality(Rntis)
<1>1. g \in Seq(Rntis) /\ L \in Nat /\ Places(pending_rars, i) = 1 .. L
      /\ \A l \in 1 .. L : g[l] \in Rntis
  BY RarFacts
<1>2. IsFiniteSet(Rntis) /\ C \in Nat
  BY PrbAssumption, FS_CardinalityType
<1>3. \A l, m \in 1 .. L : g[l] = g[m] => l = m
  BY <1>1 DEF Orderly
<1>4. IsFiniteSet(1 .. L) /\ Cardinality(1 .. L) = L
  BY <1>1, FS_Interval
<1>5. DOMAIN g = Places(pending_rars, i)
  BY DEF Places
<1> HIDE DEF g, L, C
<1>6. L <= C
  <2> SUFFICES ASSUME C < L PROVE FALSE
    BY <1>1, <1>2
  <2> DEFINE f == [l \in 1 .. L |-> g[l]]
  <2>1. f \in [1 .. L -> Rntis] /\ \A l \in 1 .. L : f[l] = g[l]
    BY <1>1
  <2> HIDE DEF f
  <2>2. \E l, m \in 1 .. L : l # m /\ f[l] = f[m]
    <3>1. IsFiniteSet(1 .. L) /\ Cardinality(Rntis) < Cardinality(1 .. L)
      BY <1>4 DEF C
    <3> DEFINE S == 1 .. L
    <3> HIDE DEF S
    <3>2. IsFiniteSet(S) /\ IsFiniteSet(Rntis) /\ Cardinality(Rntis) < Cardinality(S) /\ f \in [S -> Rntis]
      BY <1>2, <2>1, <3>1 DEF S
    <3>3. \E l, m \in S : l # m /\ f[l] = f[m]
      BY ONLY <3>2, FS_PigeonHole
    <3>4. QED BY <3>3 DEF S
  <2>3. QED BY <1>3, <2>1, <2>2
<1>7. k \in 1 .. C /\ k \in DOMAIN g
  BY <1>1, <1>2, <1>5, <1>6
<1>8. QED BY <1>7 DEF Queued, g, C

LEMMA UnusedHeld ==
  ASSUME pending_rars \in Seq(RarType), Orderly(pending_rars), NEW r, ~Used(r)
  PROVE  ~Holds(pending_rars, r)
<1> SUFFICES ASSUME Holds(pending_rars, r) PROVE FALSE
  OBVIOUS
<1>1. PICK i \in DOMAIN pending_rars : \E k \in Places(pending_rars, i) : pending_rars[i].grants[k] = r
  BY DEF Holds
<1>2. PICK k \in Places(pending_rars, i) : pending_rars[i].grants[k] = r
  BY <1>1
<1> DEFINE u == <<i, k>>
<1>3. u \in Queued /\ u[1] = i /\ u[2] = k
  BY HeldQueued
<1> HIDE DEF u
<1>4. u \in Queued /\ pending_rars[u[1]].grants[u[2]] = r
  BY <1>2, <1>3
<1>5. QED BY <1>4 DEF Used

\* What one turn of the loop of dl_sched does.
NofNow == NofGrants(sf_scheds[Slot(now)], Front)
LEMMA RarCases ==
  ASSUME RarStep, Types
  PROVE  /\ UNCHANGED <<base, done, now, lacks, ue_db>> /\ room' \in 0 .. MaxRoom /\ pc = "rar"
         /\ \/ LoopEnds
            \/ pending_rars # <<>> /\ Discard
            \/ pending_rars # <<>> /\ InWindow(Front, TxDl(now)) /\ NofNow > 0 /\ Answer(NofNow)
            \/ UNCHANGED <<pc, pending_rars, sf_scheds, rach>>
<1>1. room \in 0 .. MaxRoom /\ MaxRoom \in Nat
  BY PrbAssumption DEF Types
<1>2. UNCHANGED <<base, done, now, lacks, ue_db>> /\ pc = "rar"
  BY DEF RarStep
<1>3. CASE pending_rars = <<>>
  BY <1>1, <1>2, <1>3 DEF RarStep
<1>4. CASE pending_rars # <<>>
  <2>1. \/ Discard /\ UNCHANGED room
        \/ LoopEnds /\ UNCHANGED room
        \/ NoRoom /\ UNCHANGED room
        \/ InWindow(Front, TxDl(now)) /\ NofNow > 0 /\ room > 0 /\ Answer(NofNow) /\ room' = room - 1
    BY <1>4 DEF RarStep, NofNow
  <2>2. NoRoom => LoopEnds \/ UNCHANGED <<pc, pending_rars, sf_scheds, rach>>
    BY DEF NoRoom
  <2>3. room' \in 0 .. MaxRoom
    BY <1>1, <2>1
  <2>4. QED BY <1>2, <1>4, <2>1, <2>2, <2>3
<1>5. QED BY <1>3, <1>4

\* The slot of now and the first RAR, when the loop answers it.
LEMMA NowFacts ==
  ASSUME Types, pending_rars # <<>>
  PROVE  /\ Slot(now) \in 0 .. RingSize - 1 /\ sf_scheds[Slot(now)] \in SfType
         /\ Front = pending_rars[1] /\ Front \in RarType /\ Len(Front.grants) \in Nat
         /\ NofNow \in 0 .. Len(Front.grants)
         /\ Grant(sf_scheds[Slot(now)], Front, NofNow) \in SfType
<1>1. Slot(now) \in 0 .. RingSize - 1
  BY TtiFacts, SlotType DEF Types
<1>2. sf_scheds[Slot(now)] \in SfType
  BY <1>1 DEF Types, RingType
<1>3. Front = pending_rars[1] /\ Front \in RarType
  BY HeadFacts DEF Types, Front
<1>4. Len(Front.grants) \in Nat
  BY <1>3 DEF RarType
<1>5. /\ NofNow \in 0 .. Len(Front.grants)
      /\ \A i \in 1 .. NofNow : sf_scheds[Slot(now)].last_msg3_prb + Msg3Size * i <= MaxMsg3Prb
  BY <1>2, <1>3, NofGrantsFacts DEF NofNow
<1>6. Grant(sf_scheds[Slot(now)], Front, NofNow) \in SfType
  <2> DEFINE sf == sf_scheds[Slot(now)]
             rar == Front
             n == NofNow
  <2> HIDE DEF sf, rar, n
  <2>1. sf \in SfType /\ rar \in RarType /\ n \in 0 .. Len(rar.grants)
        /\ \A i \in 1 .. n : sf.last_msg3_prb + Msg3Size * i <= MaxMsg3Prb
    BY <1>2, <1>3, <1>5 DEF sf, rar, n
  <2>2. Grant(sf, rar, n) \in SfType
    BY <2>1, GrantFacts
  <2>3. QED BY <2>2 DEF sf, rar, n
<1>7. QED BY <1>1, <1>2, <1>3, <1>4, <1>5, <1>6
LEMMA InitTypes ==
  ASSUME Init
  PROVE  Types /\ Queue
<1>1. 0 \in Ttis /\ 0 \in RingTtis /\ NoTti \in RingTtis
  BY TtiFacts
<1> DEFINE sf == [NewTti(0) EXCEPT !.tti_rx = NoTti]
<1>2. sf \in SfType
  BY <1>1, NewTtiType DEF SfType
<1> HIDE DEF sf
<1>3. sf_scheds \in RingType
  BY <1>2 DEF Init, RingType, sf
<1>4. Unused \in RachType /\ Unused.fate # "waiting"
  BY <1>1 DEF Unused, RachType
<1>5. rach \in [Rntis -> RachType] /\ \A r \in Rntis : rach[r].fate # "waiting"
  BY <1>4 DEF Init
<1>6. pending_rars \in Seq(RarType) /\ DOMAIN pending_rars = {}
  BY DEF Init
<1>7. Queue
  BY <1>5, <1>6 DEF Queue, Orderly, Holds
<1>8. room \in 0 .. MaxRoom /\ base \in Ttis /\ now \in Ttis /\ lacks \in {"RB"} /\ pc = "idle"
      /\ done = {} /\ ue_db = {}
  BY <1>1, PrbAssumption DEF Init
<1>9. QED BY <1>3, <1>5, <1>6, <1>7, <1>8 DEF Types

LEMMA BeginTypes ==
  ASSUME Types, Queue, NEW t \in Ttis, BeginTti(t)
  PROVE  Types' /\ Queue'
<1>1. sf_scheds' \in RingType
  BY GetFacts, TtiFacts DEF BeginTti, Types
<1>2. Queue'
  BY DEF BeginTti, Queue, Orderly, Holds, Places
<1>3. base' = base /\ done' = done /\ now' = t /\ t \in InFlight \ done /\ InFlight' = InFlight
      /\ pending_rars' = pending_rars /\ ue_db' = ue_db /\ rach' = rach
      /\ pc' \in {"rar", "data"} /\ room' \in 0 .. MaxRoom /\ lacks' \in Shortages
  BY DEF BeginTti, InFlight
<1>4. QED BY <1>1, <1>2, <1>3 DEF Types

LEMMA RarStepTypes ==
  ASSUME Types, Queue, RarStep
  PROVE  Types' /\ Queue'
<1>1. /\ base' = base /\ done' = done /\ now' = now /\ lacks' = lacks /\ ue_db' = ue_db
      /\ room' \in 0 .. MaxRoom /\ pc = "rar" /\ InFlight' = InFlight
  BY RarCases DEF InFlight
<1>2. ASSUME pc' \in {"rar", "data"}, pending_rars' \in Seq(RarType), sf_scheds' \in RingType,
             rach' \in [Rntis -> RachType]
      PROVE  Types'
  BY <1>1, <1>2 DEF Types
<1>3. CASE LoopEnds
  <2>1. sf_scheds' \in RingType
    BY <1>3, UlFacts DEF LoopEnds, Types
  <2>2. pc' = "data" /\ pending_rars' = pending_rars /\ rach' = rach
    BY <1>3 DEF LoopEnds
  <2>3. QED BY <1>2, <2>1, <2>2 DEF Types, Queue, Orderly, Holds, Places
<1>4. CASE pending_rars # <<>> /\ Discard
  <2>1. /\ pc' = pc /\ sf_scheds' = sf_scheds /\ pending_rars' = Tail(pending_rars)
        /\ rach' = [r \in Rntis |-> IF \E i \in DOMAIN Front.grants : Front.grants[i] = r
                                    THEN Unused ELSE rach[r]]
    BY <1>4 DEF Discard
  <2>2. Unused \in RachType /\ Unused.fate # "waiting"
    BY TtiFacts DEF Unused, RachType
  <2>3. rach' \in [Rntis -> RachType]
    BY <2>1, <2>2 DEF Types
  <2>4. /\ pending_rars' \in Seq(RarType) /\ Orderly(pending_rars')
        /\ \A r : Holds(pending_rars', r)
                    <=> Holds(pending_rars, r)
                        /\ ~ \E k \in Places(pending_rars, 1) : pending_rars[1].grants[k] = r
    BY <1>4, <2>1, TailQueue DEF Types, Queue
  <2>5. Front = pending_rars[1] /\ DOMAIN Front.grants = Places(pending_rars, 1)
    BY <1>4, HeadFacts DEF Front, Types
  <2>6. ASSUME NEW r \in Rntis
        PROVE  rach'[r].fate = "waiting" <=> Holds(pending_rars', r)
    BY <2>1, <2>2, <2>4, <2>5 DEF Queue
  <2>7. Types'
    BY <1>1, <1>2, <2>1, <2>3, <2>4 DEF Types
  <2>8. QED BY <2>4, <2>6, <2>7 DEF Queue
<1>5. CASE pending_rars # <<>> /\ NofNow > 0 /\ Answer(NofNow)
  <2> DEFINE n == NofNow
             q == pending_rars
             sf == Grant(sf_scheds[Slot(now)], Front, n)
             h == [q[1] EXCEPT !.grants = SubSeq(q[1].grants, n + 1, Len(q[1].grants))]
             due == Add(now, Msg3Delay)
             ans == [fate |-> IF due \in done THEN "late" ELSE "answered", due |-> due]
  <2>1. /\ Slot(now) \in 0 .. RingSize - 1 /\ Front = q[1] /\ sf \in SfType
        /\ n \in 1 .. Len(q[1].grants)
    BY <1>5, NowFacts
  <2>2. /\ sf_scheds' = [sf_scheds EXCEPT ![Slot(now)] = sf]
        /\ q' = IF n = Len(q[1].grants) THEN Tail(q) ELSE <<h>> \o Tail(q)
        /\ rach' = [r \in Rntis |-> IF r \in {q[1].grants[i] : i \in 1 .. n} THEN ans ELSE rach[r]]
        /\ pc' = pc
    BY <1>5, <2>1 DEF Answer, NotScheduled
  <2>3. Add(now, Msg3Delay) \in Ttis
    <3>1. now + Msg3Delay \in Int
      BY TtiAssumption, TtiFacts DEF Types
    <3>2. QED BY <3>1, ModType DEF Add
  <2>4. ans \in RachType /\ ans.fate # "waiting"
    BY <2>3 DEF RachType
  <2> HIDE DEF sf, ans
  <2>5. sf_scheds' \in RingType
    BY <2>1, <2>2 DEF RingType, Types
  <2>6. rach' \in [Rntis -> RachType]
    BY <2>2, <2>4 DEF Types
  <2>7. /\ q' \in Seq(RarType) /\ Orderly(q')
        /\ \A r : Holds(q', r) <=> Holds(q, r) /\ ~ \E k \in 1 .. n : q[1].grants[k] = r
    <3>1. q \in Seq(RarType) /\ q # <<>> /\ Orderly(q)
      BY <1>5 DEF Types, Queue
    <3>2. CASE n = Len(q[1].grants)
      <4>1. Places(q, 1) = 1 .. n
        BY <3>1, <3>2, HeadFacts
      <4>2. q' = Tail(q)
        BY <2>2, <3>2
      <4>3. QED BY <3>1, <4>1, <4>2, TailQueue
    <3>3. CASE n # Len(q[1].grants)
      <4>1. q' = <<h>> \o Tail(q)
        BY <2>2, <3>3
      <4> DEFINE rest == SubSeq(q[1].grants, n + 1, Len(q[1].grants))
      <4>2. h = [q[1] EXCEPT !.grants = rest] /\ rest = SubSeq(q[1].grants, n + 1, Len(q[1].grants))
        OBVIOUS
      <4> HIDE DEF h, n, rest
      <4>3. /\ <<h>> \o Tail(q) \in Seq(RarType) /\ Orderly(<<h>> \o Tail(q))
            /\ \A r : Holds(<<h>> \o Tail(q), r)
                        <=> Holds(q, r) /\ ~ \E k \in 1 .. n : q[1].grants[k] = r
        BY ONLY <2>1, <3>1, <3>3, <4>2, RestOfHead
      <4>4. QED BY ONLY <4>1, <4>3
    <3>4. QED BY <3>2, <3>3
  <2>8. ASSUME NEW r \in Rntis
        PROVE  rach'[r].fate = "waiting" <=> Holds(q', r)
    <3>1. r \in {q[1].grants[i] : i \in 1 .. n} <=> \E k \in 1 .. n : q[1].grants[k] = r
      OBVIOUS
    <3>2. rach'[r] = IF r \in {q[1].grants[i] : i \in 1 .. n} THEN ans ELSE rach[r]
      BY <2>2
    <3> HIDE DEF n, q
    <3>3. rach[r].fate = "waiting" <=> Holds(q, r)
      BY DEF Queue, q
    <3>4. QED BY <2>4, <2>7, <3>1, <3>2, <3>3
  <2>9. Types'
    BY <1>1, <1>2, <2>2, <2>5, <2>6, <2>7
  <2>10. QED BY <2>7, <2>8, <2>9 DEF Queue
<1>6. CASE UNCHANGED <<pc, pending_rars, sf_scheds, rach>>
  BY <1>1, <1>2, <1>6 DEF Types, Queue, Orderly, Holds, Places
<1>7. QED BY <1>3, <1>4, <1>5, <1>6, RarCases

LEMMA ResultsTypes ==
  ASSUME Types, Queue, GenerateResults
  PROVE  Types' /\ Queue'
<1>1. Slot(now) \in 0 .. RingSize - 1
  BY TtiFacts, SlotType DEF Types
<1> DEFINE sf == [sf_scheds[Slot(now)] EXCEPT !.generated = TRUE]
           ans == [fate |-> "answered", due |-> now]
<1>2. sf \in SfType
  BY <1>1 DEF Types, RingType, SfType
<1>3. sf_scheds' = [sf_scheds EXCEPT ![Slot(now)] = sf]
  BY <1>1 DEF GenerateResults, Types, RingType
<1> HIDE DEF sf
<1>4. sf_scheds' \in RingType
  BY <1>1, <1>2, <1>3 DEF Types, RingType
<1>5. Unused \in RachType /\ Unused.fate # "waiting" /\ ans.fate # "waiting"
  BY TtiFacts DEF Unused, RachType
<1>6. rach' = [r \in Rntis |-> IF rach[r] = ans THEN Unused ELSE rach[r]]
  BY DEF GenerateResults
<1> HIDE DEF ans
<1>7. rach' \in [Rntis -> RachType]
      /\ \A r \in Rntis : rach'[r].fate = "waiting" <=> rach[r].fate = "waiting"
  BY <1>5, <1>6 DEF Types
<1>8. /\ base' = base /\ now' = now /\ room' = room /\ lacks' = lacks
      /\ pending_rars' = pending_rars /\ ue_db' = ue_db
      /\ pc' = "idle" /\ pc = "data" /\ done' = done \cup {now} /\ InFlight' = InFlight
  BY DEF GenerateResults, InFlight
<1>9. Types'
  BY <1>4, <1>7, <1>8 DEF Types
<1>10. Queue'
  BY <1>7, <1>8 DEF Queue, Orderly, Holds, Places
<1>11. QED BY <1>9, <1>10

\* When base moves on, what was j TTIs behind it is j - 1 behind.
LEMMA AtShift ==
  ASSUME base \in Ttis, base' = Add(base, 1), NEW j \in Int
  PROVE  At(j) = At(j - 1)'
<1>1. base \in Int /\ j - 1 \in Int /\ 1 + (j - 1) = j
  BY TtiFacts
<1>2. Add(Add(base, 1), j - 1) = Add(base, 1 + (j - 1))
  BY <1>1, AddAdd
<1>3. At(j - 1)' = Add(base', j - 1)
  BY DEF At, Add
<1>4. QED BY <1>1, <1>2, <1>3 DEF At

LEMMA EndTypes ==
  ASSUME Types, Queue, EndWorker
  PROVE  Types' /\ Queue'
<1>1. /\ base \in done /\ base' = Add(base, 1) /\ done' = done \ {base}
      /\ pc' = pc /\ now' = now /\ room' = room /\ lacks' = lacks /\ pending_rars' = pending_rars
      /\ sf_scheds' = sf_scheds /\ ue_db' = ue_db /\ rach' = rach
  BY DEF EndWorker
<1>2. base' \in Ttis
  BY <1>1, ModType, TtiFacts DEF Add, Types
<1>3. ASSUME NEW t \in InFlight, t # base
      PROVE  t \in InFlight'
  <2>1. PICK i \in 0 .. Workers - 1 : t = Add(base, i)
    BY DEF InFlight
  <2>2. i # 0
    BY <1>3, <2>1, AddZero DEF Types
  <2>3. t = Add(base', i - 1)
    <3>1. At(i) = At(i - 1)'
      BY <1>1, AtShift, i \in Int DEF Types
    <3>2. At(i - 1)' = Add(base', i - 1) /\ At(i) = Add(base, i)
      BY DEF At, Add
    <3>3. QED BY <2>1, <3>1, <3>2
  <2>4. i - 1 \in 0 .. Workers - 1
    BY <2>2, TtiAssumption
  <2>5. InFlight' = {Add(base', k) : k \in 0 .. Workers - 1}
    BY DEF InFlight, Add
  <2>6. QED BY <2>3, <2>4, <2>5
<1>4. done' \subseteq InFlight'
  BY <1>1, <1>3 DEF Types
<1>5. pc' # "idle" => now' \in InFlight' \ done'
  BY <1>1, <1>3 DEF Types
<1>6. Types'
  BY <1>1, <1>2, <1>4, <1>5 DEF Types
<1>7. Queue'
  BY <1>1 DEF Queue, Orderly, Holds, Places
<1>8. QED BY <1>6, <1>7

LEMMA RachTypes ==
  ASSUME Types, Queue, NEW r \in Rntis, NEW late \in 0 .. MaxLate, RachDetected(r, late)
  PROVE  Types' /\ Queue'
<1> DEFINE tti == (base - late) % TtiMod
           wait == [fate |-> "waiting", due |-> 0]
<1>1. /\ ~Used(r) /\ tti \in PrachTtis /\ ue_db' = ue_db \cup {r}
      /\ pending_rars' = Enqueue(r, tti) /\ rach' = [rach EXCEPT ![r] = wait]
      /\ base' = base /\ done' = done /\ pc' = pc /\ now' = now /\ room' = room /\ lacks' = lacks
      /\ sf_scheds' = sf_scheds /\ InFlight' = InFlight
  BY DEF RachDetected, InFlight
<1> HIDE DEF tti
<1>2. pending_rars \in Seq(RarType) /\ Orderly(pending_rars) /\ ~Holds(pending_rars, r)
  BY <1>1, UnusedHeld DEF Types, Queue
<1>3. /\ pending_rars' \in Seq(RarType) /\ Orderly(pending_rars')
      /\ \A x : Holds(pending_rars', x) <=> Holds(pending_rars, x) \/ x = r
  BY <1>1, <1>2, EnqueueFacts
<1>4. wait \in RachType /\ wait.fate = "waiting"
  BY TtiFacts DEF RachType
<1> HIDE DEF wait
<1>5. rach' \in [Rntis -> RachType] /\ rach'[r].fate = "waiting"
      /\ \A x \in Rntis : x # r => rach'[x] = rach[x]
  BY <1>1, <1>4 DEF Types
<1>6. Types'
  BY <1>1, <1>3, <1>5 DEF Types
<1>7. Queue'
  BY <1>3, <1>5 DEF Queue
<1>8. QED BY <1>6, <1>7

LEMMA RemTypes ==
  ASSUME Types, Queue, NEW r \in Rntis, UeRem(r)
  PROVE  Types' /\ Queue'
<1>1. /\ ue_db' \subseteq ue_db
      /\ UNCHANGED <<base, done, pc, now, room, lacks, pending_rars, sf_scheds, rach>>
  BY DEF UeRem
<1>2. Types'
  BY <1>1 DEF Types, InFlight
<1>3. Queue'
  BY <1>1 DEF Queue, Orderly, Holds, Places
<1>4. QED BY <1>2, <1>3
LEMMA NextTypes ==
  ASSUME Types, Queue, [Next]_vars
  PROVE  Types' /\ Queue'
<1>1. CASE \E t \in Ttis : BeginTti(t)
  BY <1>1, BeginTypes
<1>2. CASE RarStep
  BY <1>2, RarStepTypes
<1>3. CASE GenerateResults
  BY <1>3, ResultsTypes
<1>4. CASE EndWorker
  BY <1>4, EndTypes
<1>5. CASE \E r \in Rntis : UeRem(r)
  BY <1>5, RemTypes
<1>6. CASE \E r \in Rntis : \E late \in 0 .. MaxLate : RachDetected(r, late)
  <2>1. PICK r \in Rntis : \E late \in 0 .. MaxLate : RachDetected(r, late)
    BY <1>6
  <2>2. PICK late \in 0 .. MaxLate : RachDetected(r, late)
    BY <2>1
  <2>3. QED BY <2>2, RachTypes
<1>7. CASE UNCHANGED vars
  <2>1. Types'
    BY <1>7 DEF Types, InFlight, vars
  <2>2. QED BY <1>7, <2>1 DEF Queue, Orderly, Holds, Places, vars
<1>8. QED BY <1>1, <1>2, <1>3, <1>4, <1>5, <1>6, <1>7 DEF Next, Sched

\* Every variable keeps its type: the slots of sf_scheds hold grants inside the band
\* for Msg3, and the queue holds no RAR without grants.
THEOREM TypeCorrect == Spec => []TypeOK
<1>1. Init => Types /\ Queue
  BY InitTypes
<1>2. Types /\ Queue /\ [Next]_vars => Types' /\ Queue'
  BY NextTypes
<1>3. Types => TypeOK
  BY TypesOK
<1>4. QED BY <1>1, <1>2, <1>3, PTL DEF Spec

LEMMA HeldOnce ==
  ASSUME Types, Queue, NEW r \in Rntis
  PROVE  Cardinality({q \in Queued : pending_rars[q[1]].grants[q[2]] = r})
           = IF rach[r].fate = "waiting" THEN 1 ELSE 0
<1> DEFINE H == {q \in Queued : pending_rars[q[1]].grants[q[2]] = r}
<1>1. ASSUME NEW q \in H
      PROVE  /\ q = <<q[1], q[2]>> /\ q[1] \in DOMAIN pending_rars
             /\ q[2] \in Places(pending_rars, q[1]) /\ pending_rars[q[1]].grants[q[2]] = r
  BY DEF Queued, Places
<1>2. CASE rach[r].fate = "waiting"
  <2>1. PICK i \in DOMAIN pending_rars :
          \E k \in Places(pending_rars, i) : pending_rars[i].grants[k] = r
    BY <1>2 DEF Queue, Holds
  <2>2. PICK k \in Places(pending_rars, i) : pending_rars[i].grants[k] = r
    BY <2>1
  <2> DEFINE u == <<i, k>>
  <2>3. u \in Queued /\ u[1] = i /\ u[2] = k
    BY HeldQueued DEF Types, Queue
  <2>4. u \in H
    <3> HIDE DEF u
    <3>1. QED BY <2>2, <2>3
  <2>5. ASSUME NEW q \in H PROVE q = u
    <3>1. i = q[1] /\ k = q[2]
      <4> DEFINE a == q[1]
                 b == q[2]
      <4>1. a \in DOMAIN pending_rars /\ b \in Places(pending_rars, a)
            /\ pending_rars[a].grants[b] = r
        BY <1>1
      <4> HIDE DEF a, b
      <4>2. i = a /\ k = b
        BY <2>2, <4>1 DEF Queue, Orderly
      <4>3. QED BY <4>2 DEF a, b
    <3>2. QED BY <1>1, <3>1
  <2>6. H = {u}
    <3> HIDE DEF H, u
    <3>1. QED BY <2>4, <2>5
  <2>7. Cardinality(H) = 1
    <3> HIDE DEF H, u
    <3>1. QED BY <2>6, FS_Singleton
  <2>8. QED BY <1>2, <2>7
<1>3. CASE rach[r].fate # "waiting"
  <2>1. ~Holds(pending_rars, r)
    BY <1>3 DEF Queue
  <2>2. ASSUME NEW q \in H PROVE FALSE
    <3> DEFINE a == q[1]
               b == q[2]
    <3>1. a \in DOMAIN pending_rars /\ b \in Places(pending_rars, a)
          /\ pending_rars[a].grants[b] = r
      BY <1>1
    <3> HIDE DEF a, b
    <3>2. QED BY <2>1, <3>1 DEF Holds
  <2>3. H = {}
    <3> HIDE DEF H
    <3>1. QED BY <2>2
  <2>4. Cardinality(H) = 0
    <3> HIDE DEF H
    <3>1. QED BY <2>3, FS_EmptySet
  <2>5. QED BY <1>3, <2>4
<1>4. QED BY <1>2, <1>3

\* A preamble is waiting exactly while one pending RAR holds it, once: dl_sched, which
\* answers a RAR in parts, and dl_rach_info, which joins preambles of one PRACH, neither
\* lose nor repeat a grant.
THEOREM GrantsConserved == Spec => []Conserved
<1>1. Init => Types /\ Queue
  BY InitTypes
<1>2. Types /\ Queue /\ [Next]_vars => Types' /\ Queue'
  BY NextTypes
<1>3. Types /\ Queue => Conserved
  BY HeldOnce DEF Conserved
<1>4. QED BY <1>1, <1>2, <1>3, PTL DEF Spec
-----------------------------------------------------------------------------
(***************************************************************************)
(* The inductive invariant, second part: which TTI a slot of sf_scheds     *)
(* works for, and where its grants lie.                                    *)
(***************************************************************************)
Apart(S) ==
  \A g, h \in S : g # h => g.prb + Msg3Size <= h.prb \/ h.prb + Msg3Size <= g.prb
Between(S, lo, hi) == \A g \in S : lo <= g.prb /\ g.prb + Msg3Size <= hi

\* The TTI has passed ra_sched: its Msg3, if any, are in the ring.
Served(j) == j < 0 \/ At(j) \in done \/ (pc = "data" /\ At(j) = now)

\* A TTI that is scheduled, and still in flight, owns its slot, unless an older one
\* put Msg3 there afterwards, under a label that is not taken modulo TtiMod.
Labels(t) == {t, t + TtiMod}
Bound ==
  /\ \A t \in done : sf_scheds[Slot(t)].tti_rx \in Labels(t)
  /\ pc # "idle" => sf_scheds[Slot(now)].tti_rx = now

\* The RARs of a TTI promise PRBs one behind the other.
RarsIn(sf) ==
  /\ sf.tti_rx \in Ttis => /\ FirstMsg3Prb(sf.tti_rx) <= sf.last_msg3_prb
                           /\ Between(sf.rars, FirstMsg3Prb(sf.tti_rx), sf.last_msg3_prb)
  /\ sf.rars # {} => sf.last_msg3_prb <= MaxMsg3Prb
  /\ Apart(sf.rars)

\* The Msg3 of a slot are promises of one TTI that was served, at most two laps ago.
Oldest == -(RingSize + Msg3Delay)
Recent == Oldest .. Workers - 1
Msg3From(i, j) ==
  /\ Served(j) /\ sf_scheds[i].tti_rx = Msg3Tti(At(j)) /\ i = Slot(sf_scheds[i].tti_rx)
  /\ Between(sf_scheds[i].msg3, FirstMsg3Prb(At(j)), MaxMsg3Prb) /\ Apart(sf_scheds[i].msg3)
Slots == 0 .. RingSize - 1
Msg3s == \A i \in Slots : sf_scheds[i].msg3 # {} => \E j \in Recent : Msg3From(i, j)

Ring == Bound /\ (\A i \in Slots : RarsIn(sf_scheds[i])) /\ Msg3s

\* The sizes the arithmetic below needs.
LEMMA Sizes ==
  /\ TtiMod \in Nat /\ RingSize \in Nat /\ Msg3Delay \in Nat /\ Workers \in Nat
  /\ 0 < RingSize /\ 0 < Msg3Delay /\ 0 < Workers
  /\ Workers + Msg3Delay <= RingSize /\ RingSize + Msg3Delay + Workers <= TtiMod
BY TtiAssumption

LEMMA AtType ==
  ASSUME base \in Ttis, NEW j \in Int
  PROVE  At(j) \in Ttis
BY ModType, TtiFacts DEF At, Add

\* Slots of TTIs from base on, and of the Msg3 of those.
LEMMA SlotAt ==
  ASSUME base \in Ttis, NEW a \in 0 .. TtiMod, NEW b \in Nat
  PROVE  Slot(At(a) + b) = Slot(base + a + b) /\ base + a + b \in Nat
<1>1. TtiMod \in Nat /\ base \in Nat
  BY Sizes, TtiFacts
<1>2. At(a) \in Ttis /\ At(a) \in {base + a, base + a - TtiMod, base + a + TtiMod}
  BY <1>1, AddCases DEF At
<1> DEFINE t == At(a)
<1> HIDE DEF t
<1>3. t \in Nat /\ (t = base + a \/ t + TtiMod = base + a)
  BY <1>1, <1>2 DEF t, Ttis
<1>4. CASE t = base + a
  <2>1. t + b = base + a + b
    BY <1>4
  <2>2. QED BY <1>3, <2>1 DEF t
<1>5. CASE t + TtiMod = base + a
  <2> DEFINE x == t + b
  <2>1. x \in Nat /\ x + TtiMod = base + a + b
    BY <1>1, <1>3, <1>5
  <2> HIDE DEF x
  <2>2. Slot(x + TtiMod) = Slot(x)
    BY <2>1, SlotPeriod
  <2>3. QED BY <1>1, <2>1, <2>2 DEF x, t
<1>6. QED BY <1>3, <1>4, <1>5

LEMMA FlightAt ==
  ASSUME NEW t \in InFlight
  PROVE  \E j \in 0 .. Workers - 1 : t = At(j)
BY DEF InFlight, At

\* The slots of TTIs in flight are all different; the Msg3 of one may be in the slot
\* of another, if it is for that TTI.
LEMMA FlightSlots ==
  ASSUME base \in Ttis, NEW t \in InFlight, NEW u \in InFlight
  PROVE  /\ t # u => Slot(t) # Slot(u)
         /\ Slot(u) # Slot(Msg3Tti(u))
         /\ Slot(t) = Slot(Msg3Tti(u)) => Msg3Tti(u) \in Labels(t)
<1>1. PICK a \in 0 .. Workers - 1 : t = At(a)
  BY FlightAt
<1>2. PICK b \in 0 .. Workers - 1 : u = At(b)
  BY FlightAt
<1>3. /\ a \in 0 .. TtiMod /\ b \in 0 .. TtiMod /\ base \in Nat
      /\ a \in Nat /\ b \in Nat /\ a < Workers /\ b < Workers
  BY Sizes, TtiFacts
<1>4. t \in Nat /\ u \in Nat /\ t + 0 = t /\ u + 0 = u
  <2>1. t \in Ttis /\ u \in Ttis
    BY FlightType
  <2>2. t \in Nat /\ u \in Nat
    BY <2>1, TtiFacts
  <2>3. \A v \in Nat : v + 0 = v
    OBVIOUS
  <2>4. QED BY ONLY <2>2, <2>3
<1>5. /\ Slot(t) = Slot(base + a) /\ Slot(u) = Slot(base + b)
      /\ Slot(u + Msg3Delay) = Slot(base + b + Msg3Delay)
  <2>1. 0 \in Nat /\ base + a + 0 = base + a /\ base + b + 0 = base + b
    BY <1>3
  <2>2. Slot(At(a) + 0) = Slot(base + a + 0)
    BY <1>3, SlotAt
  <2>3. Slot(At(b) + 0) = Slot(base + b + 0)
    BY <1>3, SlotAt
  <2>4. Slot(At(b) + Msg3Delay) = Slot(base + b + Msg3Delay)
    BY <1>3, SlotAt, Sizes
  <2>5. QED BY <1>1, <1>2, <1>4, <2>1, <2>2, <2>3, <2>4
<1> DEFINE x == base + a
           y == base + b
           z == base + b + Msg3Delay
<1>6. /\ x \in Nat /\ y \in Nat /\ z \in Nat
      /\ x < y => y - x < RingSize
      /\ y < x => x - y < RingSize
      /\ y < z /\ z - y < RingSize
      /\ x < z => z - x < RingSize
      /\ z < x => x - z < RingSize
      /\ x = y => a = b
  BY <1>3, Sizes
<1>10. x = z => Msg3Tti(u) \in Labels(t)
  <2>1. /\ t \in Ttis /\ t \in {base + a, base + a - TtiMod, base + a + TtiMod}
        /\ u \in Ttis /\ u \in {base + b, base + b - TtiMod, base + b + TtiMod}
    <3>1. a \in -TtiMod .. TtiMod /\ b \in -TtiMod .. TtiMod
      BY <1>3, Sizes
    <3>2. QED BY <1>1, <1>2, <3>1, AddCases DEF At
  <2>2. TtiMod \in Nat /\ Msg3Delay \in Nat /\ Msg3Delay < TtiMod /\ base < TtiMod
        /\ t < TtiMod /\ u < TtiMod
    BY <2>1, Sizes DEF Ttis
  <2>3. x = z => u + Msg3Delay = t \/ u + Msg3Delay = t + TtiMod
    BY <1>3, <1>4, <2>1, <2>2
  <2>4. QED BY <2>3 DEF Msg3Tti, Labels
<1> HIDE DEF x, y, z
<1>7. Slot(y) # Slot(z)
  BY <1>6, SlotLap
<1>8. a # b => Slot(x) # Slot(y)
  BY <1>6, SlotLap
<1>9. x # z => Slot(x) # Slot(z)
  BY <1>6, SlotLap
<1>11. QED BY <1>1, <1>2, <1>5, <1>7, <1>8, <1>9, <1>10 DEF x, y, z, Msg3Tti

\* Those of PRACH and PUCCH are left of the first PRB for Msg3.
LEMMA FirstClear ==
  ASSUME NEW t \in Ttis
  PROVE  /\ FirstMsg3Prb(t) \in Nat /\ NrbPucch <= FirstMsg3Prb(t)
         /\ TxUl(Msg3Tti(t)) \in PrachTtis => PrachOffset + PrachSize <= FirstMsg3Prb(t)
<1>1. t \in Int /\ DlDelay + UlDelay \in Int /\ Msg3Delay \in Int
  BY TtiAssumption, TtiFacts
<1> DEFINE D == DlDelay + UlDelay
<1>2. TxUl(Msg3Tti(t)) = Add(t + Msg3Delay, D)
  BY DEF TxUl, Msg3Tti
<1>3. Add(TxUl(t), Msg3Delay) = Add(Add(t, D), Msg3Delay)
  BY DEF TxUl
<1> HIDE DEF D
<1>4. D \in Int
  BY <1>1 DEF D
<1>5. Add(Add(t, D), Msg3Delay) = Add(t, D + Msg3Delay)
  BY <1>1, <1>4, AddAdd
<1>6. (t + Msg3Delay) + D = t + (D + Msg3Delay)
  BY <1>1, <1>4
<1>7. Add(t + Msg3Delay, D) = Add(t, D + Msg3Delay)
  BY <1>6 DEF Add
<1>8. TxUl(Msg3Tti(t)) = Add(TxUl(t), Msg3Delay)
  BY <1>2, <1>3, <1>5, <1>7
<1>9. QED BY <1>8, PrbAssumption DEF FirstMsg3Prb

LEMMA RingExclusive ==
  ASSUME Types, Ring
  PROVE  Msg3Exclusive
<1> SUFFICES ASSUME NEW i \in DOMAIN sf_scheds, NEW g \in sf_scheds[i].msg3
      PROVE  /\ g.prb .. g.prb + Msg3Size - 1 \subseteq NrbPucch .. MaxMsg3Prb - 1
             /\ TxUl(sf_scheds[i].tti_rx) \in PrachTtis =>
                  (g.prb .. g.prb + Msg3Size - 1)
                    \cap (PrachOffset .. PrachOffset + PrachSize - 1) = {}
             /\ \A h \in sf_scheds[i].msg3 : g # h =>
                  (g.prb .. g.prb + Msg3Size - 1) \cap (h.prb .. h.prb + Msg3Size - 1) = {}
  BY DEF Msg3Exclusive
<1>1. i \in Slots /\ sf_scheds[i] \in SfType
  BY DEF Types, RingType, Slots
<1>2. PICK j \in Recent : Msg3From(i, j)
  BY <1>1 DEF Ring, Msg3s
<1>3. j \in Int
  BY Sizes DEF Recent, Oldest
<1>4. At(j) \in Ttis
  BY <1>3, AtType DEF Types
<1> DEFINE first == FirstMsg3Prb(At(j))
<1>5. /\ first \in Nat /\ NrbPucch <= first
      /\ TxUl(sf_scheds[i].tti_rx) \in PrachTtis => PrachOffset + PrachSize <= first
  BY <1>2, <1>4, FirstClear DEF Msg3From
<1>6. \A h \in sf_scheds[i].msg3 : h.prb \in Nat
  BY <1>1, PrbAssumption DEF SfType, Grants
<1>7. first <= g.prb /\ g.prb + Msg3Size <= MaxMsg3Prb
      /\ \A h \in sf_scheds[i].msg3 : g # h =>
           g.prb + Msg3Size <= h.prb \/ h.prb + Msg3Size <= g.prb
  BY <1>2 DEF Msg3From, Between, Apart
<1>8. /\ Msg3Size \in Nat /\ NrbPucch \in Nat /\ MaxMsg3Prb \in Nat
      /\ PrachOffset \in Nat /\ PrachSize \in Nat
  BY PrbAssumption
<1> HIDE DEF first
<1>9. g.prb .. g.prb + Msg3Size - 1 \subseteq NrbPucch .. MaxMsg3Prb - 1
  BY <1>5, <1>6, <1>7, <1>8
<1>10. TxUl(sf_scheds[i].tti_rx) \in PrachTtis =>
         (g.prb .. g.prb + Msg3Size - 1) \cap (PrachOffset .. PrachOffset + PrachSize - 1) = {}
  BY <1>5, <1>6, <1>7, <1>8
<1>11. ASSUME NEW h \in sf_scheds[i].msg3, g # h
       PROVE  (g.prb .. g.prb + Msg3Size - 1) \cap (h.prb .. h.prb + Msg3Size - 1) = {}
  BY <1>6, <1>7, <1>8, <1>11
<1>12. QED BY <1>9, <1>10, <1>11
\* A step that keeps base, and serves no fewer TTIs, keeps the claim of a slot that it
\* leaves alone.
LEMMA SameSlot ==
  ASSUME base' = base, NEW i, NEW j, sf_scheds'[i].tti_rx = sf_scheds[i].tti_rx,
         sf_scheds'[i].msg3 = sf_scheds[i].msg3,
         Served(j) => Served(j)', Msg3From(i, j)
  PROVE  Msg3From(i, j)'
<1>1. At(j)' = At(j)
  BY DEF At, Add
<1>2. QED BY <1>1 DEF Msg3From, Between, Apart, Msg3Tti, Slot, FirstMsg3Prb, TxUl, TxDl, Add

LEMMA EmptyFine ==
  ASSUME NEW t \in RingTtis
  PROVE  RarsIn(NewTti(t))
<1> DEFINE sf == NewTti(t)
<1>1. sf.tti_rx = t /\ sf.rars = {} /\ sf.last_msg3_prb = FirstMsg3Prb(t) /\ FirstMsg3Prb(t) \in Nat
  BY NewTtiType, FirstType
<1> HIDE DEF sf
<1>2. RarsIn(sf)
  BY <1>1 DEF RarsIn, Between, Apart
<1>3. QED BY <1>2 DEF sf

LEMMA InitRing ==
  ASSUME Init
  PROVE  Ring
<1> DEFINE new == NewTti(0)
           sf == [new EXCEPT !.tti_rx = NoTti]
<1>1. new \in SfType /\ new.rars = {} /\ new.msg3 = {}
  BY NewTtiType, TtiFacts
<1> HIDE DEF new
<1>2. sf.rars = {} /\ sf.msg3 = {} /\ sf.tti_rx = NoTti
  BY <1>1 DEF SfType
<1>3. NoTti \notin Ttis
  BY Sizes DEF NoTti, Ttis
<1>4. \A i \in Slots : sf_scheds[i] = sf
  BY DEF Init, Slots, new
<1> HIDE DEF sf
<1>5. RarsIn(sf)
  BY <1>2, <1>3 DEF RarsIn, Apart
<1>6. done = {} /\ pc = "idle"
  BY DEF Init
<1>7. QED BY <1>2, <1>4, <1>5, <1>6 DEF Ring, Bound, Msg3s

LEMMA BeginRing ==
  ASSUME Types, Ring, NEW t \in Ttis, BeginTti(t)
  PROVE  Ring'
<1>1. /\ pc = "idle" /\ t \in InFlight \ done /\ now' = t /\ pc' \in {"rar", "data"}
      /\ sf_scheds' = GetSfSched(sf_scheds, t) /\ base' = base /\ done' = done
  BY DEF BeginTti
<1>2. t \in RingTtis /\ t \in Nat
  BY TtiFacts
<1> DEFINE s == Slot(t)
<1>3. s \in Slots
  BY <1>2, SlotType DEF Slots
<1>4. /\ sf_scheds'[s].tti_rx = t /\ \A i \in Slots : i # s => sf_scheds'[i] = sf_scheds[i]
      /\ sf_scheds'[s] = sf_scheds[s] \/ sf_scheds'[s] = NewTti(t)
  BY <1>1, <1>2, GetFacts DEF Types, Slots
<1>5. ASSUME NEW u \in done PROVE sf_scheds'[Slot(u)].tti_rx \in Labels(u)
  <2>1. u \in InFlight /\ u # t /\ u \in Nat
    BY <1>1, FlightType, TtiFacts DEF Types
  <2>2. Slot(u) # s /\ Slot(u) \in Slots
    BY <1>1, <2>1, FlightSlots, SlotType DEF Types, Slots
  <2>3. QED BY <1>4, <2>2 DEF Ring, Bound
<1>6. Bound'
  <2>1. \A u : Slot(u)' = Slot(u)
    BY DEF Slot
  <2>2. QED BY <1>1, <1>4, <1>5, <2>1 DEF Bound, Labels
<1>7. ASSUME NEW i \in Slots PROVE RarsIn(sf_scheds'[i])
  BY <1>2, <1>4, EmptyFine DEF Ring
<1>8. ASSUME NEW i \in Slots, sf_scheds'[i].msg3 # {} PROVE \E j \in Recent : Msg3From(i, j)'
  <2>1. sf_scheds'[i] = sf_scheds[i]
    BY <1>2, <1>4, <1>8, NewTtiType
  <2>2. PICK j \in Recent : Msg3From(i, j)
    BY <1>8, <2>1 DEF Ring, Msg3s
  <2>3. Served(j) => Served(j)'
    BY <1>1 DEF Served, At, Add
  <2>4. QED BY <1>1, <2>1, <2>2, <2>3, SameSlot
<1>9. QED BY <1>6, <1>7, <1>8 DEF Ring, Msg3s, RarsIn, Between, Apart, FirstMsg3Prb, TxUl, Add,
                                  Recent, Oldest, Slots, Ttis

\* The grants of one more RAR lie behind those before.
LEMMA GrantApart ==
  ASSUME NEW sf \in SfType, NEW rar \in RarType, NEW n \in 1 .. Len(rar.grants),
         \A i \in 1 .. n : sf.last_msg3_prb + Msg3Size * i <= MaxMsg3Prb,
         sf.tti_rx \in Ttis, RarsIn(sf)
  PROVE  RarsIn(Grant(sf, rar, n))
<1> DEFINE last == sf.last_msg3_prb
           first == FirstMsg3Prb(sf.tti_rx)
           prb(i) == last + Msg3Size * (i - 1)
           new == {[rnti |-> rar.grants[i], prb |-> prb(i)] : i \in 1 .. n}
           g == Grant(sf, rar, n)
           to == last + Msg3Size * n
<1>0. n \in 0 .. Len(rar.grants)
  OBVIOUS
<1>1. g.tti_rx = sf.tti_rx /\ g.last_msg3_prb = to /\ g.rars = sf.rars \cup new
  BY <1>0, GrantFacts
<1>2. Msg3Size \in Nat \ {0} /\ MaxMsg3Prb \in Nat /\ last \in Nat /\ n \in Nat \ {0}
  BY PrbAssumption DEF SfType
<1>3. to <= MaxMsg3Prb
  <2>1. n \in 1 .. n
    BY <1>2
  <2>2. QED BY <2>1
<1>4. /\ first \in Nat /\ first <= last
      /\ \A x \in sf.rars : first <= x.prb /\ x.prb + Msg3Size <= last
      /\ \A x, y \in sf.rars : x # y => x.prb + Msg3Size <= y.prb \/ y.prb + Msg3Size <= x.prb
  BY FirstType DEF RarsIn, Between, Apart
<1>5. \A x \in sf.rars : x.prb \in Nat
  BY PrbAssumption DEF SfType, Grants
<1> HIDE DEF first, last
<1>6. ASSUME NEW i \in 1 .. n
      PROVE  /\ prb(i) \in Nat /\ last <= prb(i) /\ prb(i) + Msg3Size <= to
             /\ \A k \in 1 .. n : i < k => prb(i) + Msg3Size <= prb(k)
  <2>1. Msg3Size \in Nat /\ i \in Nat /\ i - 1 \in Nat /\ 1 <= i /\ i <= n /\ n \in Nat
    BY <1>2
  <2>2. \A a, x, y \in Nat : a * x \in Nat /\ (x <= y => a * x <= a * y)
    OBVIOUS
  <2>3. Msg3Size * (i - 1) \in Nat /\ Msg3Size * i = Msg3Size * (i - 1) + Msg3Size
        /\ Msg3Size * i <= Msg3Size * n /\ Msg3Size * i \in Nat /\ Msg3Size * n \in Nat
    BY <2>1, <2>2
  <2>4. ASSUME NEW k \in 1 .. n, i < k PROVE Msg3Size * i <= Msg3Size * (k - 1)
                                             /\ Msg3Size * (k - 1) \in Nat
    <3>1. k - 1 \in Nat /\ i <= k - 1
      BY <2>1, <2>4
    <3>2. QED BY <2>1, <2>2, <3>1
  <2>5. QED BY <1>2, <2>3, <2>4
<1> HIDE DEF prb, to
<1>7. to \in Nat /\ last <= to
  BY <1>2, <1>6 DEF to
<1>8. \A x \in new : \E i \in 1 .. n : x.prb = prb(i) /\ x = [rnti |-> rar.grants[i], prb |-> prb(i)]
  OBVIOUS
<1> HIDE DEF g, new
<1>9. ASSUME NEW x \in new PROVE x.prb \in Nat /\ last <= x.prb /\ x.prb + Msg3Size <= to
  BY <1>6, <1>8
<1>10. ASSUME NEW x \in g.rars PROVE x.prb \in Nat /\ first <= x.prb /\ x.prb + Msg3Size <= to
  <2>1. CASE x \in new
    BY <1>2, <1>4, <1>7, <1>9, <2>1
  <2>2. CASE x \in sf.rars
    BY <1>2, <1>4, <1>5, <1>7, <2>2
  <2>3. QED BY <1>1, <2>1, <2>2
<1>11. ASSUME NEW x \in g.rars, NEW y \in g.rars, x # y
       PROVE  x.prb + Msg3Size <= y.prb \/ y.prb + Msg3Size <= x.prb
  <2>1. CASE x \in sf.rars /\ y \in sf.rars
    BY <1>4, <2>1, <1>11
  <2>2. CASE x \in sf.rars /\ y \in new
    BY <1>2, <1>4, <1>5, <1>9, <2>2
  <2>3. CASE x \in new /\ y \in sf.rars
    BY <1>2, <1>4, <1>5, <1>9, <2>3
  <2>4. CASE x \in new /\ y \in new
    <3>1. PICK i \in 1 .. n : x.prb = prb(i) /\ x = [rnti |-> rar.grants[i], prb |-> prb(i)]
      BY <1>8, <2>4
    <3>2. PICK k \in 1 .. n : y.prb = prb(k) /\ y = [rnti |-> rar.grants[k], prb |-> prb(k)]
      BY <1>8, <2>4
    <3>3. i < k \/ k < i
      BY <1>11, <3>1, <3>2
    <3>4. QED BY <1>6, <3>1, <3>2, <3>3
  <2>5. QED BY <1>1, <2>1, <2>2, <2>3, <2>4
<1>12. g.tti_rx \in Ttis /\ FirstMsg3Prb(g.tti_rx) = first
  BY <1>1 DEF first
<1>13. first <= to
  BY <1>2, <1>4, <1>7
<1>14. RarsIn(g)
  BY <1>1, <1>3, <1>10, <1>11, <1>12, <1>13 DEF RarsIn, Between, Apart
<1>15. QED BY <1>14 DEF g
LEMMA LoopEndsRing ==
  ASSUME Types, Ring, pc = "rar", LoopEnds, base' = base, done' = done, now' = now
  PROVE  Ring'
<1> DEFINE m3 == Msg3Tti(now)
           s == Slot(m3)
           to == GetSfSched(sf_scheds, m3)
<1>1. now \in InFlight \ done /\ now \in Ttis /\ now \in Nat /\ m3 \in RingTtis /\ m3 \in Nat
  BY TtiFacts DEF Types
<1>2. s \in Slots /\ Slot(now) \in Slots /\ s # Slot(now)
  BY <1>1, SlotType, FlightSlots DEF Slots, Types
<1>3. sf_scheds' = UlSched(sf_scheds, now) /\ pc' = "data"
  BY DEF LoopEnds
<1>4. /\ \A i \in Slots : i # s => sf_scheds'[i] = sf_scheds[i]
      /\ sf_scheds'[s].tti_rx = m3 /\ sf_scheds'[s].rars = to[s].rars
      /\ sf_scheds'[s].last_msg3_prb = to[s].last_msg3_prb
      /\ sf_scheds'[s].msg3 \subseteq to[s].msg3 \cup sf_scheds[Slot(now)].rars
  BY <1>1, <1>3, UlFacts DEF Types, Slots
<1>5. /\ to[s].tti_rx = m3
      /\ \/ sf_scheds[s].tti_rx = m3 /\ to[s] = sf_scheds[s]
         \/ to[s] = NewTti(m3)
  BY <1>1, GetFacts DEF Types
<1> HIDE DEF m3, s, to
<1>6. RarsIn(to[s])
  BY <1>1, <1>2, <1>5, EmptyFine DEF Ring
<1>7. \A i \in Slots : RarsIn(sf_scheds'[i])
  <2>1. RarsIn(sf_scheds'[s])
    BY <1>4, <1>5, <1>6 DEF RarsIn
  <2>2. QED BY <1>4, <2>1 DEF Ring
<1>8. Bound'
  <2>1. ASSUME NEW u \in done PROVE sf_scheds'[Slot(u)].tti_rx \in Labels(u)
    <3>1. u \in InFlight /\ u \in Nat
      BY FlightType, TtiFacts DEF Types
    <3>2. Slot(u) \in Slots /\ (Slot(u) = s => m3 \in Labels(u))
      BY <1>1, <3>1, FlightSlots, SlotType DEF Types, Slots, s, m3
    <3>3. QED BY <1>4, <3>2 DEF Ring, Bound
  <2>2. sf_scheds'[Slot(now)].tti_rx = now
    BY <1>2, <1>4 DEF Ring, Bound
  <2>3. \A u : Slot(u)' = Slot(u)
    BY DEF Slot
  <2>4. QED BY <2>1, <2>2, <2>3 DEF Bound, Labels
<1>9. PICK k \in 0 .. Workers - 1 : now = At(k)
  BY <1>1, FlightAt
<1>10. to[s].msg3 = {}
  <2> SUFFICES ASSUME to[s].msg3 # {} PROVE FALSE
    OBVIOUS
  <2>1. to[s] = sf_scheds[s]
    BY <1>1, <1>5, NewTtiType
  <2>2. PICK j \in Recent : Msg3From(s, j)
    BY <1>2, <2>1 DEF Ring, Msg3s
  <2>3. Served(j) /\ Msg3Tti(At(j)) = m3
    BY <1>5, <2>1, <2>2 DEF Msg3From
  <2>4. j \in Int /\ At(j) \in Nat
    <3>1. j \in Int
      BY Sizes DEF Recent, Oldest
    <3>2. At(j) \in Ttis
      BY <3>1, AtType DEF Types
    <3>3. QED BY <3>1, <3>2, TtiFacts
  <2>5. At(j) = At(k)
    BY <1>1, <1>9, <2>3, <2>4, Sizes DEF Msg3Tti, m3
  <2>6. k \in Int /\ k >= 0 /\ (j <= k => k - j < TtiMod) /\ (k <= j => j - k < TtiMod)
    BY Sizes DEF Recent, Oldest
  <2>7. base \in Int
    BY TtiFacts DEF Types
  <2>8. j = k
    BY <2>4, <2>5, <2>6, <2>7, AddSame DEF At
  <2>9. QED BY <1>1, <1>9, <2>3, <2>6, <2>8 DEF Served
<1>11. ASSUME NEW i \in Slots, sf_scheds'[i].msg3 # {} PROVE \E j \in Recent : Msg3From(i, j)'
  <2>1. CASE i # s
    <3>1. sf_scheds'[i] = sf_scheds[i]
      BY <1>4, <2>1
    <3>2. PICK j \in Recent : Msg3From(i, j)
      BY <1>11, <3>1 DEF Ring, Msg3s
    <3>3. Served(j) => Served(j)'
      BY <1>3 DEF Served, At, Add
    <3>4. QED BY <3>1, <3>2, <3>3, SameSlot
  <2>2. CASE i = s
    <3> DEFINE ms == sf_scheds'[s].msg3
               rs == sf_scheds[Slot(now)]
    <3>1. ms \subseteq rs.rars /\ rs.rars # {}
      BY <1>4, <1>10, <1>11, <2>2
    <3>2. RarsIn(rs) /\ rs.tti_rx = now /\ rs \in SfType
      BY <1>2 DEF Ring, Bound, Types, RingType, Slots
    <3>3. \A g \in rs.rars : g.prb \in Nat
      BY <3>2, PrbAssumption DEF SfType, Grants
    <3>4. \A g \in rs.rars : FirstMsg3Prb(now) <= g.prb /\ g.prb + Msg3Size <= MaxMsg3Prb
      <4>1. rs.last_msg3_prb \in Nat /\ MaxMsg3Prb \in Nat /\ Msg3Size \in Nat
        BY <3>2, PrbAssumption DEF SfType
      <4>2. rs.last_msg3_prb <= MaxMsg3Prb
        BY <3>1, <3>2 DEF RarsIn
      <4>3. \A g \in rs.rars : FirstMsg3Prb(now) <= g.prb /\ g.prb + Msg3Size <= rs.last_msg3_prb
        BY <1>1, <3>2 DEF RarsIn, Between
      <4> HIDE DEF rs
      <4>4. QED BY <3>3, <4>1, <4>2, <4>3
    <3> HIDE DEF ms, rs
    <3>5. Between(ms, FirstMsg3Prb(now), MaxMsg3Prb) /\ Apart(ms)
      BY <3>1, <3>2, <3>4 DEF Between, Apart, RarsIn
    <3>6. k \in Recent
      BY Sizes DEF Recent, Oldest
    <3>7. At(k)' = now /\ Served(k)'
      BY <1>3, <1>9 DEF Served, At, Add
    <3>8. /\ sf_scheds'[i].tti_rx = Msg3Tti(now) /\ i = Slot(sf_scheds'[i].tti_rx)
          /\ Between(sf_scheds'[i].msg3, FirstMsg3Prb(now), MaxMsg3Prb) /\ Apart(sf_scheds'[i].msg3)
      BY <1>4, <2>2, <3>5 DEF s, m3, ms
    <3> DEFINE t == At(k)
    <3> HIDE DEF t
    <3>9. /\ sf_scheds'[i].tti_rx = Msg3Tti(t') /\ i = Slot(sf_scheds'[i].tti_rx)
          /\ Between(sf_scheds'[i].msg3, FirstMsg3Prb(t'), MaxMsg3Prb)
          /\ Apart(sf_scheds'[i].msg3) /\ t' = At(k)'
      BY <3>7, <3>8 DEF t
    <3>10. Msg3From(i, k)'
      BY <3>7, <3>9 DEF Msg3From, Msg3Tti, Slot, Between, Apart, FirstMsg3Prb, TxUl, Add
    <3>11. QED BY <3>6, <3>10
  <2>3. QED BY <2>1, <2>2
<1>12. QED BY <1>7, <1>8, <1>11 DEF Ring, Msg3s, RarsIn, Between, Apart, FirstMsg3Prb, TxUl, Add,
                                    Recent, Oldest, Slots, Ttis

\* A step that changes of a slot neither the TTI nor the Msg3.
LEMMA KeepsRing ==
  ASSUME Types, Ring, base' = base,
         \A i \in Slots : /\ sf_scheds'[i].tti_rx = sf_scheds[i].tti_rx
                          /\ sf_scheds'[i].msg3 = sf_scheds[i].msg3 /\ RarsIn(sf_scheds'[i]),
         \/ done' = done /\ pc' = pc /\ now' = now
         \/ done' = done \cup {now} /\ pc = "data" /\ pc' = "idle"
  PROVE  Ring'
<1>1. now \in Nat /\ \A u \in done : u \in Nat
  BY FlightType, TtiFacts DEF Types
<1>2. Slot(now) \in Slots /\ \A u \in done : Slot(u) \in Slots
  BY <1>1, SlotType DEF Slots
<1>3. \A u : Slot(u)' = Slot(u)
  BY DEF Slot
<1>4. Bound'
  <2>1. ASSUME NEW u \in done PROVE sf_scheds'[Slot(u)].tti_rx \in Labels(u)
    BY <1>2 DEF Ring, Bound
  <2>2. pc # "idle" => sf_scheds'[Slot(now)].tti_rx = now
    BY <1>2 DEF Ring, Bound
  <2>3. CASE done' = done /\ pc' = pc /\ now' = now
    BY <1>3, <2>1, <2>2, <2>3 DEF Bound, Labels
  <2>4. CASE done' = done \cup {now} /\ pc = "data" /\ pc' = "idle"
    BY <1>3, <2>1, <2>2, <2>4 DEF Bound, Labels
  <2>5. QED BY <2>3, <2>4
<1>5. ASSUME NEW i \in Slots, sf_scheds'[i].msg3 # {} PROVE \E j \in Recent : Msg3From(i, j)'
  <2>1. PICK j \in Recent : Msg3From(i, j)
    BY <1>5 DEF Ring, Msg3s
  <2>2. Served(j) => Served(j)'
    <3>1. At(j)' = At(j)
      BY DEF At, Add
    <3>2. QED BY <3>1 DEF Served
  <2>3. QED BY <2>1, <2>2, SameSlot
<1>6. QED BY <1>4, <1>5 DEF Ring, Msg3s, RarsIn, Between, Apart, FirstMsg3Prb, TxUl, Add,
                            Recent, Oldest, Slots, Ttis

LEMMA AnswerRing ==
  ASSUME Types, Ring, pc = "rar", pending_rars # <<>>, NofNow > 0, Answer(NofNow),
         base' = base, done' = done, now' = now
  PROVE  Ring'
<1> DEFINE n == NofNow
           sf == sf_scheds[Slot(now)]
           new == Grant(sf, Front, n)
<1>1. /\ Slot(now) \in 0 .. RingSize - 1 /\ sf \in SfType /\ Front \in RarType
      /\ n \in 0 .. Len(Front.grants) /\ Len(Front.grants) \in Nat
  BY NowFacts
<1>2. sf_scheds' = [sf_scheds EXCEPT ![Slot(now)] = new] /\ pc' = pc
  BY <1>1 DEF Answer, Types, RingType
<1>3. \A i \in 1 .. n : sf.last_msg3_prb + Msg3Size * i <= MaxMsg3Prb
  BY <1>1, NofGrantsFacts DEF NofNow
<1>4. sf.tti_rx \in Ttis /\ RarsIn(sf)
  BY <1>1 DEF Ring, Bound, Types, Slots
<1>5. n \in 1 .. Len(Front.grants)
  BY <1>1
<1> DEFINE rar == Front
<1>6. new.tti_rx = sf.tti_rx /\ new.msg3 = sf.msg3 /\ RarsIn(new)
  <2>1. sf \in SfType /\ rar \in RarType /\ n \in 0 .. Len(rar.grants) /\ n \in 1 .. Len(rar.grants)
        /\ (\A i \in 1 .. n : sf.last_msg3_prb + Msg3Size * i <= MaxMsg3Prb)
        /\ sf.tti_rx \in Ttis /\ RarsIn(sf) /\ new = Grant(sf, rar, n)
    BY <1>1, <1>3, <1>4, <1>5
  <2> HIDE DEF n, sf, rar, new
  <2>2. Grant(sf, rar, n).tti_rx = sf.tti_rx /\ Grant(sf, rar, n).msg3 = sf.msg3
    BY ONLY <2>1, GrantFacts
  <2>3. RarsIn(Grant(sf, rar, n))
    BY ONLY <2>1, GrantApart
  <2>4. QED BY ONLY <2>1, <2>2, <2>3
<1> HIDE DEF new, n, rar
<1>7. ASSUME NEW i \in Slots
      PROVE  /\ sf_scheds'[i].tti_rx = sf_scheds[i].tti_rx
             /\ sf_scheds'[i].msg3 = sf_scheds[i].msg3 /\ RarsIn(sf_scheds'[i])
  BY <1>1, <1>2, <1>6 DEF Ring, Types, RingType, Slots
<1>8. QED BY <1>2, <1>7, KeepsRing

LEMMA ResultsRing ==
  ASSUME Types, Ring, GenerateResults
  PROVE  Ring'
<1>1. Slot(now) \in Slots
  BY TtiFacts, SlotType DEF Types, Slots
<1> DEFINE sf == [sf_scheds[Slot(now)] EXCEPT !.generated = TRUE]
<1>2. /\ sf.tti_rx = sf_scheds[Slot(now)].tti_rx /\ sf.rars = sf_scheds[Slot(now)].rars
      /\ sf.msg3 = sf_scheds[Slot(now)].msg3
      /\ sf.last_msg3_prb = sf_scheds[Slot(now)].last_msg3_prb
  BY <1>1 DEF Types, RingType, SfType, Slots
<1>3. sf_scheds' = [sf_scheds EXCEPT ![Slot(now)] = sf]
  BY <1>1 DEF GenerateResults, Types, RingType, Slots
<1> HIDE DEF sf
<1>4. RarsIn(sf)
  BY <1>1, <1>2 DEF Ring, RarsIn
<1>5. ASSUME NEW i \in Slots
      PROVE  /\ sf_scheds'[i].tti_rx = sf_scheds[i].tti_rx
             /\ sf_scheds'[i].msg3 = sf_scheds[i].msg3 /\ RarsIn(sf_scheds'[i])
  BY <1>1, <1>2, <1>3, <1>4 DEF Ring, Types, RingType, Slots
<1>6. base' = base /\ done' = done \cup {now} /\ pc = "data" /\ pc' = "idle"
  BY DEF GenerateResults
<1>7. QED BY <1>5, <1>6, KeepsRing

LEMMA SlotTurn ==
  ASSUME NEW x \in Nat
  PROVE  Slot(x + RingSize) = Slot(x)
<1> DEFINE R == RingSize
           c == x % R
<1>1. R \in Nat \ {0}
  BY TtiAssumption
<1>2. PICK p \in Nat : x = R * p + (x % R)
  BY <1>1, Quotient
<1>3. c \in 0 .. R - 1
  BY <1>1
<1> HIDE DEF R, c
<1>4. \A b \in Int : (R * b + c) % R = c
  BY <1>1, <1>3
<1>5. x = R * p + c
  BY <1>2 DEF c
<1>6. x + R = R * (p + 1) + c /\ p + 1 \in Int
  BY <1>1, <1>3, <1>5
<1>7. (x + R) % R = c
  BY <1>4, <1>6
<1>8. QED BY <1>7 DEF Slot, R, c

\* When a TTI ends, the Msg3 of two laps ago are gone: it took over their slot.
LEMMA OldestGone ==
  ASSUME Types, Ring, base \in done, NEW i \in Slots
  PROVE  ~Msg3From(i, Oldest)
<1> SUFFICES ASSUME Msg3From(i, Oldest) PROVE FALSE
  OBVIOUS
<1> DEFINE t == At(Oldest)
           x == Msg3Tti(t)
<1>1. sf_scheds[i].tti_rx = x /\ i = Slot(x)
  BY DEF Msg3From
<1>2. base \in Ttis /\ base \in Nat /\ sf_scheds[Slot(base)].tti_rx \in {base, base + TtiMod}
  BY TtiFacts DEF Ring, Bound, Types, Labels
<1>3. t \in Ttis /\ t \in {base + Oldest, base + Oldest - TtiMod, base + Oldest + TtiMod}
  <2>1. Oldest \in -TtiMod .. TtiMod
    BY Sizes DEF Oldest
  <2>2. QED BY <1>2, <2>1, AddCases DEF At
<1> HIDE DEF t
<1>4. t \in 0 .. TtiMod - 1 /\ base \in 0 .. TtiMod - 1
  BY <1>2, <1>3 DEF Ttis
<1>5. x = t + Msg3Delay
  BY DEF Msg3Tti
<1> HIDE DEF x
<1>6. x \in Nat /\ (x + RingSize = base \/ x + RingSize = base + TtiMod)
  BY <1>3, <1>4, <1>5, Sizes DEF Oldest
<1>7. Slot(x + RingSize) = Slot(x) /\ Slot(base + TtiMod) = Slot(base)
  BY <1>2, <1>6, SlotTurn, SlotPeriod
<1>8. Slot(x) = Slot(base)
  BY <1>6, <1>7
<1>9. x = base \/ x = base + TtiMod
  BY <1>1, <1>2, <1>8
<1>10. QED BY <1>4, <1>6, <1>9, Sizes

LEMMA EndRing ==
  ASSUME Types, Ring, EndWorker
  PROVE  Ring'
<1>1. /\ base \in done /\ base' = Add(base, 1) /\ done' = done \ {base}
      /\ pc' = pc /\ now' = now /\ sf_scheds' = sf_scheds /\ base \in Ttis
  BY DEF EndWorker, Types
<1>2. Bound'
  <2>1. \A u : Slot(u)' = Slot(u)
    BY DEF Slot
  <2>2. QED BY <1>1, <2>1 DEF Ring, Bound, Labels
<1>3. ASSUME NEW i \in Slots, sf_scheds[i].msg3 # {} PROVE \E j \in Recent : Msg3From(i, j)'
  <2>1. PICK j \in Recent : Msg3From(i, j)
    BY <1>3 DEF Ring, Msg3s
  <2>2. j # Oldest
    BY <1>1, <2>1, OldestGone
  <2>3. j \in Int /\ j - 1 \in Recent
    BY <2>2, Sizes DEF Recent, Oldest
  <2>4. At(j) = At(j - 1)'
    BY <1>1, <2>3, AtShift
  <2>5. Served(j - 1)'
    <3>1. CASE j <= 0
      BY <2>3, <3>1 DEF Served
    <3>2. CASE j > 0
      <4>1. At(j) # base
        <5>1. At(0) = base
          BY <1>1, AddZero DEF At
        <5>2. 0 \in Int /\ base \in Int /\ 0 <= j /\ j - 0 < TtiMod
          BY <1>1, <2>3, <3>2, Sizes, TtiFacts DEF Recent, Oldest
        <5>3. At(0) = At(j) => 0 = j
          BY <2>3, <5>2, AddSame DEF At
        <5>4. QED BY <2>3, <3>2, <5>1, <5>3
      <4>2. At(j) \in done \/ (pc = "data" /\ At(j) = now)
        BY <2>1, <2>3, <3>2 DEF Msg3From, Served
      <4>3. At(j - 1)' \in done' \/ (pc' = "data" /\ At(j - 1)' = now')
        BY <1>1, <2>4, <4>1, <4>2
      <4>4. QED BY <4>3 DEF Served
    <3>3. QED BY <2>3, <3>1, <3>2
  <2>6. Msg3From(i, j - 1)'
    <3>1. /\ sf_scheds'[i].tti_rx = Msg3Tti(At(j - 1)') /\ i = Slot(sf_scheds'[i].tti_rx)
          /\ Between(sf_scheds'[i].msg3, FirstMsg3Prb(At(j - 1)'), MaxMsg3Prb)
          /\ Apart(sf_scheds'[i].msg3)
      BY <1>1, <2>1, <2>4 DEF Msg3From
    <3> DEFINE t == At(j - 1)
    <3> HIDE DEF t
    <3>2. /\ sf_scheds'[i].tti_rx = Msg3Tti(t') /\ i = Slot(sf_scheds'[i].tti_rx)
          /\ Between(sf_scheds'[i].msg3, FirstMsg3Prb(t'), MaxMsg3Prb)
          /\ Apart(sf_scheds'[i].msg3) /\ t' = At(j - 1)'
      BY <3>1 DEF t
    <3>3. QED BY <2>5, <3>2 DEF Msg3From, Msg3Tti, Slot, Between, Apart, FirstMsg3Prb, TxUl, Add
  <2>7. QED BY <2>3, <2>6
<1>4. QED BY <1>1, <1>2, <1>3 DEF Ring, Msg3s, RarsIn, Between, Apart, FirstMsg3Prb, TxUl, Add,
                                  Recent, Oldest, Slots, Ttis

LEMMA StayRing ==
  ASSUME Types, Ring, UNCHANGED <<base, done, pc, now, sf_scheds>>
  PROVE  Ring'
BY KeepsRing DEF Ring

LEMMA NextRing ==
  ASSUME Types, Ring, [Next]_vars
  PROVE  Ring'
<1>1. CASE \E t \in Ttis : BeginTti(t)
  BY <1>1, BeginRing
<1>2. CASE RarStep
  <2>1. base' = base /\ done' = done /\ now' = now /\ pc = "rar"
    BY <1>2, RarCases
  <2>2. QED BY <1>2, <2>1, RarCases, LoopEndsRing, AnswerRing, StayRing DEF Discard
<1>3. CASE GenerateResults
  BY <1>3, ResultsRing
<1>4. CASE EndWorker
  BY <1>4, EndRing
<1>5. CASE \E r \in Rntis : UeRem(r)
  BY <1>5, StayRing DEF UeRem
<1>6. CASE \E r \in Rntis : \E late \in 0 .. MaxLate : RachDetected(r, late)
  BY <1>6, StayRing DEF RachDetected
<1>7. CASE UNCHANGED vars
  BY <1>7, StayRing DEF vars
<1>8. QED BY <1>1, <1>2, <1>3, <1>4, <1>5, <1>6, <1>7 DEF Next, Sched

\* The Msg3 of one UL subframe are disjoint, and clear of its PUCCH and PRACH, though
\* workers serve the TTIs in any order and the ring is shared by a TTI and by the Msg3
\* promised to it.
THEOREM Msg3Disjoint == Spec => []Msg3Exclusive
<1>1. Init => Types /\ Queue /\ Ring
  BY InitTypes, InitRing
<1>2. Types /\ Queue /\ Ring /\ [Next]_vars => Types' /\ Queue' /\ Ring'
  BY NextTypes, NextRing
<1>3. Types /\ Ring => Msg3Exclusive
  BY RingExclusive
<1>4. QED BY <1>1, <1>2, <1>3, PTL DEF Spec

-----------------------------------------------------------------------------
(***************************************************************************)
(* The inductive invariant, third part: a Msg3 that was promised is in the *)
(* slot of its TTI until that TTI is scheduled, or, if it is of the period *)
(* after that of the RAR, until it begins: the label of the slot is then   *)
(* not that of the TTI, and the slot is emptied.                           *)
(***************************************************************************)
\* Results that were generated are those of a TTI that is over, at most a lap ago.
Generated ==
  \A i \in Slots : sf_scheds[i].generated =>
    \E j \in -RingSize .. Workers - 1 :
      sf_scheds[i].tti_rx = At(j) /\ i = Slot(At(j)) /\ (j < 0 \/ At(j) \in done)

\* A Msg3 is to come.
Promise(r) == rach[r].fate = "answered"

\* The TTI of a Msg3 is still to be scheduled.
Ahead3 == 0 .. Workers + Msg3Delay - 1
DueAhead ==
  \A r \in Rntis : Promise(r) => \E k \in Ahead3 : rach[r].due = At(k) /\ At(k) \notin done

\* The label of the slot that waits for the Msg3 of TTI d: not modulo TtiMod.
Label3(d) == IF d < Msg3Delay THEN d + TtiMod ELSE d
InRing(r) ==
  /\ sf_scheds[Slot(rach[r].due)].tti_rx = Label3(rach[r].due)
  /\ \E g \in sf_scheds[Slot(rach[r].due)].msg3 : g.rnti = r
InRars(r) ==
  /\ pc = "rar" /\ rach[r].due = Add(now, Msg3Delay)
  /\ \E g \in sf_scheds[Slot(now)].rars : g.rnti = r
\* Its TTI has begun, and the slot was emptied.
Gone(r) == pc # "idle" /\ now = rach[r].due /\ rach[r].due < Msg3Delay
Kept ==
  \A r \in ue_db :
    Promise(r) => IF Gone(r) THEN sf_scheds[Slot(now)].msg3 = {} ELSE InRing(r) \/ InRars(r)

Promised == Generated /\ DueAhead /\ Kept

\* The label that ul_sched of TTI t uses is the one that waits for its Msg3.
LEMMA Label3Add ==
  ASSUME NEW t \in Ttis
  PROVE  /\ Add(t, Msg3Delay) \in Ttis /\ Add(t, Msg3Delay) # t
         /\ Label3(Add(t, Msg3Delay)) = Msg3Tti(t)
<1> DEFINE d == Add(t, Msg3Delay)
<1>1. /\ Msg3Delay \in -TtiMod .. TtiMod /\ TtiMod \in Nat /\ Msg3Delay \in Nat
      /\ 0 < Msg3Delay /\ Msg3Delay < TtiMod
  BY Sizes
<1>2. d \in Ttis /\ d \in {t + Msg3Delay, t + Msg3Delay - TtiMod, t + Msg3Delay + TtiMod}
  BY <1>1, AddCases
<1> HIDE DEF d
<1>3. t \in Nat /\ t < TtiMod /\ d \in Nat /\ d < TtiMod
  BY <1>1, <1>2 DEF Ttis
<1>4. d = t + Msg3Delay \/ d = t + Msg3Delay - TtiMod
  BY <1>1, <1>2, <1>3
<1>5. d # t /\ (d < Msg3Delay => d + TtiMod = t + Msg3Delay)
      /\ (~(d < Msg3Delay) => d = t + Msg3Delay)
  BY <1>1, <1>3, <1>4
<1>6. QED BY <1>2, <1>5 DEF d, Label3, Msg3Tti

\* The slot of a label is that of its TTI, and the label determines the TTI.
LEMMA Label3Facts ==
  ASSUME NEW d \in Ttis
  PROVE  /\ Label3(d) \in RingTtis /\ Label3(d) % TtiMod = d
         /\ d < Msg3Delay => Label3(d) \notin Ttis
<1>1. d \in Nat /\ TtiMod \in Nat \ {0} /\ Msg3Delay \in Nat /\ d < TtiMod
  BY TtiAssumption DEF Ttis
<1>2. \A M \in Nat \ {0} : \A x \in 0 .. M - 1 : x % M = x /\ (x + M) % M = x
  OBVIOUS
<1>3. d % TtiMod = d /\ (d + TtiMod) % TtiMod = d
  BY <1>1, <1>2
<1>4. QED BY <1>1, <1>3 DEF Label3, RingTtis, Ttis

\* The TTI of a Msg3 has a slot of its own.
LEMMA DueSlots ==
  ASSUME base \in Ttis, NEW t \in InFlight, NEW k \in Ahead3
  PROVE  /\ At(k) \in Ttis
         /\ Slot(At(k)) = Slot(t) => At(k) = t
         /\ Slot(At(k)) = Slot(Msg3Tti(t)) => At(k) = Add(t, Msg3Delay)
<1>1. PICK a \in 0 .. Workers - 1 : t = At(a)
  BY FlightAt
<1>2. /\ a \in 0 .. TtiMod /\ k \in 0 .. TtiMod /\ base \in Nat
      /\ a \in Nat /\ k \in Nat /\ a < Workers /\ k < Workers + Msg3Delay
  BY Sizes, TtiFacts DEF Ahead3
<1>3. t \in Ttis /\ t \in Nat /\ At(k) \in Ttis /\ At(k) \in Nat /\ t + 0 = t /\ At(k) + 0 = At(k)
  <2>1. t \in Ttis /\ At(k) \in Ttis
    BY <1>2, FlightType, AtType
  <2>2. t \in Nat /\ At(k) \in Nat
    BY <2>1, TtiFacts
  <2>3. \A v \in Nat : v + 0 = v
    OBVIOUS
  <2>4. QED BY ONLY <2>1, <2>2, <2>3
<1>4. /\ Slot(t) = Slot(base + a) /\ Slot(At(k)) = Slot(base + k)
      /\ Slot(t + Msg3Delay) = Slot(base + a + Msg3Delay)
  <2>1. 0 \in Nat /\ base + a + 0 = base + a /\ base + k + 0 = base + k
    BY <1>2
  <2>2. Slot(At(a) + 0) = Slot(base + a + 0)
    BY <1>2, SlotAt
  <2>3. Slot(At(k) + 0) = Slot(base + k + 0)
    BY <1>2, SlotAt
  <2>4. Slot(At(a) + Msg3Delay) = Slot(base + a + Msg3Delay)
    BY <1>2, SlotAt, Sizes
  <2>5. QED BY <1>1, <1>3, <2>1, <2>2, <2>3, <2>4
<1> DEFINE x == base + a
           y == base + k
           z == base + a + Msg3Delay
<1>5. /\ x \in Nat /\ y \in Nat /\ z \in Nat
      /\ x < y => y - x < RingSize
      /\ y < x => x - y < RingSize
      /\ z < y => y - z < RingSize
      /\ y < z => z - y < RingSize
      /\ x = y => a = k
      /\ y = z => k = a + Msg3Delay
  BY <1>2, Sizes
<1> HIDE DEF x, y, z
<1>6. Slot(x) = Slot(y) => a = k
  BY <1>5, SlotLap
<1>7. Slot(y) = Slot(z) => k = a + Msg3Delay
  BY <1>5, SlotLap
<1>8. k = a + Msg3Delay => At(k) = Add(t, Msg3Delay)
  BY <1>1, <1>2, Sizes, AddAdd DEF At
<1>9. QED BY <1>1, <1>3, <1>4, <1>6, <1>7, <1>8 DEF x, y, z, Msg3Tti

\* What ul_sched adds, unless the results of that TTI were generated before.
LEMMA UlUsers ==
  ASSUME NEW ring \in RingType, NEW t \in Ttis
  PROVE  LET s  == Slot(Msg3Tti(t))
             to == GetSfSched(ring, Msg3Tti(t))
         IN /\ UlSched(ring, t)[s].generated = to[s].generated
            /\ to[s].msg3 \subseteq UlSched(ring, t)[s].msg3
            /\ ~to[s].generated => \A g \in ring[Slot(t)].rars :
                                     g.rnti \in ue_db => g \in UlSched(ring, t)[s].msg3
<1> DEFINE m3 == Msg3Tti(t)
           s == Slot(m3)
           to == GetSfSched(ring, m3)
           users == {g \in ring[Slot(t)].rars : g.rnti \in ue_db}
           sum == to[s].msg3 \cup users
<1>1. m3 \in RingTtis /\ m3 \in Nat
  BY TtiFacts
<1>2. s \in 0 .. RingSize - 1 /\ to \in RingType
  BY <1>1, SlotType, GetFacts
<1>3. UlSched(ring, t) = IF to[s].generated THEN to ELSE [to EXCEPT ![s].msg3 = sum]
  BY <1>2 DEF UlSched, RingType
<1>4. to[s] \in SfType
  BY <1>2 DEF RingType
<1> DEFINE sf == [to[s] EXCEPT !.msg3 = sum]
<1>5. sf.msg3 = sum /\ sf.generated = to[s].generated
  BY <1>4 DEF SfType
<1>6. ~to[s].generated => UlSched(ring, t) = [to EXCEPT ![s] = sf]
  BY <1>2, <1>3, <1>4 DEF RingType
<1> HIDE DEF sf
<1>7. ~to[s].generated => UlSched(ring, t)[s] = sf
  BY <1>2, <1>6 DEF RingType
<1>8. to[s].generated => UlSched(ring, t)[s] = to[s]
  BY <1>3
<1>9. QED BY <1>5, <1>7, <1>8

LEMMA NewTtiOpen == \A t : ~NewTti(t).generated
BY DEF NewTti

\* The RARs of a TTI hold what it answered.
LEMMA GrantRars ==
  ASSUME NEW sf \in SfType, NEW rar, NEW n
  PROVE  /\ sf.rars \subseteq Grant(sf, rar, n).rars
         /\ \A i \in 1 .. n : \E g \in Grant(sf, rar, n).rars : g.rnti = rar.grants[i]
<1> DEFINE new == {[rnti |-> rar.grants[i],
                    prb |-> sf.last_msg3_prb + Msg3Size * (i - 1)] : i \in 1 .. n}
<1>1. Grant(sf, rar, n).rars = sf.rars \cup new
  BY DEF Grant, SfType
<1>2. ASSUME NEW i \in 1 .. n PROVE \E g \in new : g.rnti = rar.grants[i]
  <2> DEFINE h == [rnti |-> rar.grants[i], prb |-> sf.last_msg3_prb + Msg3Size * (i - 1)]
  <2>1. h.rnti = rar.grants[i] /\ h \in new
    OBVIOUS
  <2>2. QED BY <2>1
<1>3. QED BY <1>1, <1>2

LEMMA InitPromised ==
  ASSUME Init
  PROVE  Promised
<1>1. \A r \in Rntis : rach[r].fate # "answered"
  BY DEF Init, Unused
<1>2. \A i \in Slots : ~sf_scheds[i].generated
  BY DEF Init, Slots, NewTti
<1>3. ue_db = {}
  BY DEF Init
<1>4. QED BY <1>1, <1>2, <1>3 DEF Promised, Generated, DueAhead, Kept, Promise

\* A step that keeps the labels, the results and the Msg3 of all slots, adds RARs only,
\* and promises nothing.
LEMMA KeepsPromised ==
  ASSUME Types, Promised, base' = base, done' = done, pc' = pc, now' = now,
         \A i \in Slots : /\ sf_scheds'[i].tti_rx = sf_scheds[i].tti_rx
                          /\ sf_scheds'[i].msg3 = sf_scheds[i].msg3
                          /\ sf_scheds'[i].generated = sf_scheds[i].generated
                          /\ sf_scheds[i].rars \subseteq sf_scheds'[i].rars,
         \A r \in Rntis : rach'[r].fate = "answered" => rach'[r] = rach[r],
         \A r \in ue_db' : rach'[r].fate = "answered" => r \in ue_db,
         ue_db' \subseteq Rntis
  PROVE  Promised'
<1>1. \A j : At(j)' = At(j)
  BY DEF At, Add
<1>2. Generated'
  <2>1. \A i \in Slots : sf_scheds'[i].generated =>
          \E j \in -RingSize .. Workers - 1 :
            sf_scheds'[i].tti_rx = At(j) /\ i = Slot(At(j)) /\ (j < 0 \/ At(j) \in done)
    BY DEF Promised, Generated
  <2>2. QED BY <1>1, <2>1 DEF Generated, Slot, At, Add, Slots
<1>3. DueAhead'
  <2>1. \A r \in Rntis : Promise(r)' =>
          \E k \in Ahead3 : rach'[r].due = At(k) /\ At(k) \notin done
    BY DEF Promised, DueAhead, Promise
  <2>2. QED BY <1>1, <2>1 DEF DueAhead, At, Add, Ahead3, Promise
<1>4. ASSUME NEW r \in ue_db', Promise(r)'
      PROVE  (IF Gone(r) THEN sf_scheds[Slot(now)].msg3 = {} ELSE InRing(r) \/ InRars(r))'
  <2>1. r \in ue_db /\ rach'[r] = rach[r] /\ r \in Rntis /\ rach[r] \in RachType
    BY <1>4 DEF Types, Promise
  <2>2. rach[r].due \in Nat /\ now \in Nat
    BY <2>1, TtiFacts DEF RachType, Types
  <2>3. Slot(rach[r].due) \in Slots /\ Slot(now) \in Slots
    BY <2>2, SlotType DEF Slots
  <2>4. IF Gone(r) THEN sf_scheds[Slot(now)].msg3 = {} ELSE InRing(r) \/ InRars(r)
    BY <1>4, <2>1 DEF Promised, Kept, Promise
  <2>5. InRing(r) => InRing(r)'
    BY <2>1, <2>3 DEF InRing, Slot, Label3
  <2>6. InRars(r) => InRars(r)'
    BY <2>1, <2>3 DEF InRars, Slot, Add
  <2>7. /\ Gone(r)' <=> Gone(r)
        /\ sf_scheds[Slot(now)].msg3 = {} => (sf_scheds[Slot(now)].msg3 = {})'
    BY <2>1, <2>3 DEF Gone, Slot
  <2>8. QED BY <2>4, <2>5, <2>6, <2>7
<1>5. QED BY <1>2, <1>3, <1>4 DEF Promised, Kept

LEMMA BeginPromised ==
  ASSUME Types, Promised, NEW t \in Ttis, BeginTti(t)
  PROVE  Promised'
<1>1. /\ pc = "idle" /\ t \in InFlight \ done /\ now' = t
      /\ sf_scheds' = GetSfSched(sf_scheds, t) /\ base' = base /\ done' = done
      /\ rach' = rach /\ ue_db' = ue_db
  BY DEF BeginTti
<1>2. t \in RingTtis /\ t \in Nat
  BY TtiFacts
<1> DEFINE s == Slot(t)
<1>3. s \in Slots
  BY <1>2, SlotType DEF Slots
<1>4. /\ \A i \in Slots : i # s => sf_scheds'[i] = sf_scheds[i]
      /\ \/ sf_scheds[s].tti_rx = t /\ sf_scheds'[s] = sf_scheds[s]
         \/ sf_scheds[s].tti_rx # t /\ sf_scheds'[s] = NewTti(t)
  BY <1>1, <1>2, GetFacts DEF Types, Slots
<1>5. \A j : At(j)' = At(j)
  BY <1>1 DEF At, Add
<1>6. Generated'
  <2>1. \A i \in Slots : sf_scheds'[i].generated =>
          \E j \in -RingSize .. Workers - 1 :
            sf_scheds'[i].tti_rx = At(j) /\ i = Slot(At(j)) /\ (j < 0 \/ At(j) \in done)
    BY <1>4, NewTtiOpen DEF Promised, Generated
  <2>2. QED BY <1>1, <1>5, <2>1 DEF Generated, Slot, At, Add, Slots
<1>7. DueAhead'
  BY <1>1, <1>5 DEF Promised, DueAhead, At, Add, Ahead3, Promise
<1>8. ASSUME NEW r \in ue_db, Promise(r)'
      PROVE  (IF Gone(r) THEN sf_scheds[Slot(now)].msg3 = {} ELSE InRing(r) \/ InRars(r))'
  <2>1. r \in Rntis
    BY DEF Types
  <2>2. InRing(r)
    BY <1>1, <1>8 DEF Promised, Kept, InRars, Gone, Promise
  <2>3. PICK k \in Ahead3 : rach[r].due = At(k)
    BY <1>1, <1>8, <2>1 DEF Promised, DueAhead, Promise
  <2> DEFINE d == rach[r].due
  <2>4. d \in Ttis /\ (Slot(d) = s => d = t)
    BY <1>1, <2>3, DueSlots DEF Types
  <2>5. Slot(d) \in Slots
    BY <2>4, TtiFacts, SlotType DEF Slots
  <2>6. sf_scheds[Slot(d)].tti_rx = Label3(d)
    BY <2>2 DEF InRing
  <2>7. CASE d = t /\ d < Msg3Delay
    <3>1. Label3(d) # t
      BY <1>1, <2>7, Label3Facts
    <3>2. sf_scheds'[s] = NewTti(t) /\ NewTti(t).msg3 = {}
      BY <1>2, <1>4, <2>6, <2>7, <3>1, NewTtiType
    <3>3. pc' # "idle"
      BY DEF BeginTti
    <3>4. Gone(r)' /\ (sf_scheds[Slot(now)].msg3 = {})'
      BY <1>1, <2>7, <3>2, <3>3 DEF Gone, Slot
    <3>5. QED BY <3>4
  <2>8. CASE ~(d = t /\ d < Msg3Delay)
    <3>1. ~Gone(r)'
      BY <1>1, <2>8 DEF Gone
    <3>2. d = t => Label3(d) = t
      BY <2>8 DEF Label3
    <3>3. sf_scheds'[Slot(d)] = sf_scheds[Slot(d)]
      <4> HIDE DEF d, s
      <4>1. CASE Slot(d) = s
        BY <1>4, <2>4, <2>6, <3>2, <4>1
      <4>2. CASE Slot(d) # s
        BY <1>4, <2>5, <4>2
      <4>3. QED BY <4>1, <4>2
    <3>4. InRing(r)'
      BY <1>1, <2>2, <3>3 DEF InRing, Slot, Label3
    <3>5. QED BY <3>1, <3>4
  <2>9. QED BY <2>7, <2>8
<1>9. QED BY <1>1, <1>6, <1>7, <1>8 DEF Promised, Kept

\* The end of the loop puts what it promised into the slot of the Msg3, which was not
\* scheduled yet.
LEMMA LoopEndsPromised ==
  ASSUME Types, Ring, Promised, pc = "rar", LoopEnds, base' = base, done' = done, now' = now,
         ue_db' = ue_db
  PROVE  Promised'
<1> DEFINE m3 == Msg3Tti(now)
           s == Slot(m3)
           to == GetSfSched(sf_scheds, m3)
<1>1. /\ now \in InFlight \ done /\ now \in Ttis /\ now \in Nat /\ m3 \in RingTtis /\ m3 \in Nat
      /\ sf_scheds \in RingType
  BY TtiFacts DEF Types
<1>2. s \in Slots /\ Slot(now) \in Slots
  BY <1>1, SlotType, FlightSlots DEF Slots, Types
<1>3. sf_scheds' = UlSched(sf_scheds, now) /\ pc' = "data" /\ rach' = rach
  BY DEF LoopEnds
<1>4. /\ \A i \in Slots : i # s => sf_scheds'[i] = sf_scheds[i]
      /\ sf_scheds'[s].tti_rx = m3 /\ sf_scheds'[s].generated = to[s].generated
      /\ to[s].msg3 \subseteq sf_scheds'[s].msg3
      /\ ~to[s].generated => \A g \in sf_scheds[Slot(now)].rars :
                               g.rnti \in ue_db => g \in sf_scheds'[s].msg3
  BY <1>1, <1>3, UlFacts, UlUsers DEF Types, Slots
<1>5. \/ sf_scheds[s].tti_rx = m3 /\ to[s] = sf_scheds[s]
      \/ sf_scheds[s].tti_rx # m3 /\ to[s] = NewTti(m3)
  BY <1>1, GetFacts
<1>6. \A j : At(j)' = At(j)
  BY DEF At, Add
<1> HIDE DEF to
<1>7. Generated'
  <2>1. \A i \in Slots : sf_scheds'[i].generated =>
          \E j \in -RingSize .. Workers - 1 :
            sf_scheds'[i].tti_rx = At(j) /\ i = Slot(At(j)) /\ (j < 0 \/ At(j) \in done)
    <3> SUFFICES ASSUME NEW i \in Slots, sf_scheds'[i].generated
                 PROVE  /\ sf_scheds[i].generated
                        /\ sf_scheds'[i].tti_rx = sf_scheds[i].tti_rx
      BY DEF Promised, Generated
    <3> HIDE DEF m3, s
    <3>1. CASE i # s
      BY <1>4, <3>1
    <3>2. CASE i = s
      BY <1>4, <1>5, <3>2, NewTtiOpen
    <3>3. QED BY <3>1, <3>2
  <2>2. QED BY <1>6, <2>1 DEF Generated, Slot, At, Add, Slots
<1>8. DueAhead'
  BY <1>3, <1>6 DEF Promised, DueAhead, At, Add, Ahead3, Promise
<1>9. ASSUME NEW r \in ue_db, Promise(r)', ~Gone(r) PROVE InRing(r)'
  <2>1. r \in Rntis
    BY DEF Types
  <2>2. InRing(r) \/ InRars(r)
    BY <1>3, <1>9 DEF Promised, Kept, Promise
  <2>3. PICK k \in Ahead3 : rach[r].due = At(k) /\ At(k) \notin done
    BY <1>3, <1>9, <2>1 DEF Promised, DueAhead, Promise
  <2> DEFINE d == rach[r].due
             e == Label3(d)
  <2>4. d \in Ttis /\ (Slot(d) = s => d = Add(now, Msg3Delay))
    BY <1>1, <2>3, DueSlots DEF Types
  <2>5. /\ Slot(d) = s => e = m3
        /\ d = Add(now, Msg3Delay) => e = m3 /\ Slot(d) = s
    <3>1. Msg3Delay \in 0 .. TtiMod
      BY Sizes
    <3>2. Slot(Add(now, Msg3Delay)) = s
      BY <1>1, <3>1, SlotAdd DEF Msg3Tti
    <3>3. QED BY <1>1, <2>4, <3>2, Label3Add
  <2>6. Slot(d) \in Slots
    BY <2>4, TtiFacts, SlotType DEF Slots
  <2>7. /\ InRing(r) => /\ sf_scheds[Slot(d)].tti_rx = e
                        /\ \E g \in sf_scheds[Slot(d)].msg3 : g.rnti = r
        /\ InRars(r) => /\ d = Add(now, Msg3Delay)
                        /\ \E g \in sf_scheds[Slot(now)].rars : g.rnti = r
    BY DEF InRing, InRars
  <2>8. sf_scheds[Slot(d)].tti_rx = e => ~sf_scheds[Slot(d)].generated
    <3> SUFFICES ASSUME sf_scheds[Slot(d)].tti_rx = e, sf_scheds[Slot(d)].generated PROVE FALSE
      OBVIOUS
    <3>1. PICK j \in -RingSize .. Workers - 1 :
            sf_scheds[Slot(d)].tti_rx = At(j) /\ (j < 0 \/ At(j) \in done)
      BY <2>6 DEF Promised, Generated
    <3>2. j \in Int /\ k \in Int /\ base \in Int /\ base \in Ttis /\ k - j < TtiMod /\ 0 <= k
      BY Sizes, TtiFacts DEF Ahead3, Types
    <3>3. At(j) \in Ttis
      BY <3>2, AtType
    <3>4. ~(d < Msg3Delay)
      BY <2>4, <3>1, <3>3, Label3Facts
    <3>5. At(j) = At(k) /\ j < 0
      BY <2>3, <3>1, <3>4 DEF Label3
    <3>6. j <= k /\ j # k
      BY <3>2, <3>5
    <3>7. QED BY <3>2, <3>5, <3>6, AddSame DEF At
  <2>9. CASE Slot(d) # s
    <3> HIDE DEF d, e, m3, s
    <3>1. InRing(r)
      BY <2>2, <2>5, <2>7, <2>9
    <3>2. sf_scheds'[Slot(d)] = sf_scheds[Slot(d)]
      BY <1>4, <2>6, <2>9
    <3>3. QED BY <1>3, <3>1, <3>2 DEF InRing, Slot, Label3, d
  <2>10. CASE Slot(d) = s
    <3> HIDE DEF d, e, m3, s
    <3>1. e = m3 /\ ~to[s].generated
      BY <1>5, <2>5, <2>8, <2>10, NewTtiOpen
    <3>2. \E g \in sf_scheds'[s].msg3 : g.rnti = r
      <4>1. CASE InRing(r)
        BY <1>4, <1>5, <2>7, <2>10, <3>1, <4>1
      <4>2. CASE InRars(r)
        BY <1>4, <2>7, <3>1, <4>2
      <4>3. QED BY <2>2, <4>1, <4>2
    <3>3. sf_scheds'[Slot(d)].tti_rx = e
      BY <1>4, <2>10, <3>1
    <3>4. QED BY <1>3, <2>10, <3>2, <3>3 DEF InRing, Slot, Label3, d, e
  <2>11. QED BY <2>9, <2>10
<1>10. ASSUME NEW r \in ue_db, Promise(r)'
       PROVE  (IF Gone(r) THEN sf_scheds[Slot(now)].msg3 = {} ELSE InRing(r) \/ InRars(r))'
  <2>1. Gone(r)' <=> Gone(r)
    BY <1>3 DEF Gone
  <2>2. CASE Gone(r)
    <3>1. sf_scheds[Slot(now)].msg3 = {}
      BY <1>3, <1>10, <2>2 DEF Promised, Kept, Promise
    <3>2. Slot(now) # s
      BY <1>1, FlightSlots DEF Types
    <3>3. (sf_scheds[Slot(now)].msg3 = {})'
      BY <1>2, <1>4, <3>1, <3>2 DEF Slot
    <3>4. QED BY <2>1, <2>2, <3>3
  <2>3. QED BY <1>9, <1>10, <2>1, <2>2
<1>11. QED BY <1>3, <1>7, <1>8, <1>10 DEF Promised, Kept

\* An answer promises Msg3 in a TTI that is not scheduled, and notes them.
LEMMA AnswerPromised ==
  ASSUME Types, Ring, Promised, pc = "rar",
         pending_rars # <<>>, InWindow(Front, TxDl(now)), NofNow > 0, Answer(NofNow),
         base' = base, done' = done, now' = now, ue_db' = ue_db
  PROVE  Promised'
<1> DEFINE n == NofNow
           sf == sf_scheds[Slot(now)]
           new == Grant(sf, Front, n)
           due == Add(now, Msg3Delay)
           answered == {Front.grants[i] : i \in 1 .. n}
           ans == [fate |-> IF due \in done THEN "late" ELSE "answered", due |-> due]
<1>1. /\ Slot(now) \in Slots /\ sf \in SfType /\ Front \in RarType
      /\ n \in 0 .. Len(Front.grants) /\ Len(Front.grants) \in Nat
  BY NowFacts DEF Slots
<1>2. /\ sf_scheds' = [sf_scheds EXCEPT ![Slot(now)] = new] /\ pc' = pc
      /\ rach' = [r \in Rntis |-> IF r \in answered THEN ans ELSE rach[r]]
  BY <1>1 DEF Answer, Types, RingType, Slots
<1>3. /\ new.tti_rx = sf.tti_rx /\ new.msg3 = sf.msg3 /\ new.generated = sf.generated
      /\ sf.rars \subseteq new.rars
      /\ \A r \in answered : \E g \in new.rars : g.rnti = r
  <2> DEFINE rar == Front
  <2>1. sf \in SfType /\ rar \in RarType /\ n \in 0 .. Len(rar.grants)
        /\ \A i \in 1 .. n : sf.last_msg3_prb + Msg3Size * i <= MaxMsg3Prb
    BY <1>1, NofGrantsFacts DEF NofNow
  <2>2. new = Grant(sf, rar, n) /\ answered = {rar.grants[i] : i \in 1 .. n}
    OBVIOUS
  <2> HIDE DEF n, sf, rar, new, answered
  <2>3. /\ Grant(sf, rar, n).tti_rx = sf.tti_rx /\ Grant(sf, rar, n).msg3 = sf.msg3
        /\ Grant(sf, rar, n).generated = sf.generated
    BY ONLY <2>1, GrantFacts
  <2>4. /\ sf.rars \subseteq Grant(sf, rar, n).rars
        /\ \A i \in 1 .. n : \E g \in Grant(sf, rar, n).rars : g.rnti = rar.grants[i]
    BY ONLY <2>1, GrantRars
  <2>5. QED BY <2>2, <2>3, <2>4
<1>4. now \in Ttis /\ now \in InFlight /\ due # now
  BY Label3Add DEF Types
<1>5. due \notin done => \E k \in Ahead3 : due = At(k) /\ At(k) \notin done
  <2>1. PICK a \in 0 .. Workers - 1 : now = At(a)
    BY <1>4, FlightAt
  <2> DEFINE k == a + Msg3Delay
  <2>2. base \in Int /\ a \in Int /\ k \in Ahead3
    BY <2>1, Sizes, TtiFacts DEF Ahead3, Types
  <2>3. due = At(k)
    BY <2>1, <2>2, Sizes, AddAdd DEF At
  <2>4. QED BY <2>2, <2>3
<1>6. ASSUME NEW i \in Slots
      PROVE  /\ sf_scheds'[i].tti_rx = sf_scheds[i].tti_rx
             /\ sf_scheds'[i].msg3 = sf_scheds[i].msg3
             /\ sf_scheds'[i].generated = sf_scheds[i].generated
             /\ sf_scheds[i].rars \subseteq sf_scheds'[i].rars
  BY <1>1, <1>2, <1>3 DEF Types, RingType, Slots
<1>7. sf_scheds'[Slot(now)] = new
  BY <1>1, <1>2 DEF Types, RingType, Slots
<1>8. \A r \in Rntis : rach'[r] = IF r \in answered THEN ans ELSE rach[r]
  BY <1>2
<1>9. (ans.fate = "answered" <=> due \notin done) /\ ans.due = due
  OBVIOUS
<1>10. \A j : At(j)' = At(j)
  BY DEF At, Add
<1> HIDE DEF n, sf, new, due, answered, ans
<1>11. Generated'
  <2>1. \A i \in Slots : sf_scheds'[i].generated =>
          \E j \in -RingSize .. Workers - 1 :
            sf_scheds'[i].tti_rx = At(j) /\ i = Slot(At(j)) /\ (j < 0 \/ At(j) \in done)
    BY <1>6 DEF Promised, Generated
  <2>2. QED BY <1>10, <2>1 DEF Generated, Slot, At, Add, Slots
<1>12. DueAhead'
  <2>1. \A r \in Rntis : Promise(r)' =>
          \E k \in Ahead3 : rach'[r].due = At(k) /\ At(k) \notin done
    BY <1>5, <1>8, <1>9 DEF Promised, DueAhead, Promise
  <2>2. QED BY <1>10, <2>1 DEF DueAhead, At, Add, Ahead3, Promise
<1>13. ASSUME NEW r \in ue_db, Promise(r)'
       PROVE  (IF Gone(r) THEN sf_scheds[Slot(now)].msg3 = {} ELSE InRing(r) \/ InRars(r))'
  <2>1. r \in Rntis
    BY DEF Types
  <2>2. CASE r \in answered
    <3>1. rach'[r].due = Add(now, Msg3Delay) /\ ~Gone(r)'
      BY <1>4, <1>8, <1>9, <2>1, <2>2 DEF Gone, due
    <3>2. InRars(r)'
      BY <1>2, <1>3, <1>7, <2>2, <3>1 DEF InRars, Slot, Add
    <3>3. QED BY <3>1, <3>2
  <2>3. CASE r \notin answered
    <3>1. rach'[r] = rach[r] /\ rach[r] \in RachType
      BY <1>8, <2>1, <2>3 DEF Types
    <3>2. rach[r].due \in Nat
      BY <3>1, TtiFacts DEF RachType
    <3>3. Slot(rach[r].due) \in Slots
      BY <3>2, SlotType DEF Slots
    <3>4. IF Gone(r) THEN sf_scheds[Slot(now)].msg3 = {} ELSE InRing(r) \/ InRars(r)
      BY <1>13, <3>1 DEF Promised, Kept, Promise
    <3>5. InRing(r) => InRing(r)'
      BY <1>6, <3>1, <3>3 DEF InRing, Slot, Label3
    <3>6. InRars(r) => InRars(r)'
      BY <1>1, <1>2, <1>6, <3>1 DEF InRars, Slot, Add
    <3>7. /\ Gone(r)' <=> Gone(r)
          /\ sf_scheds[Slot(now)].msg3 = {} => (sf_scheds[Slot(now)].msg3 = {})'
      BY <1>1, <1>2, <1>6, <3>1 DEF Gone, Slot
    <3>8. QED BY <3>4, <3>5, <3>6, <3>7
  <2>4. QED BY <2>2, <2>3
<1>14. QED BY <1>11, <1>12, <1>13 DEF Promised, Kept

LEMMA ResultsPromised ==
  ASSUME Types, Ring, Promised, GenerateResults
  PROVE  Promised'
<1>1. /\ pc = "data" /\ pc' = "idle" /\ done' = done \cup {now} /\ base' = base /\ now' = now
      /\ ue_db' = ue_db /\ now \in InFlight /\ now \in Ttis
      /\ rach' = [r \in Rntis |-> IF rach[r] = [fate |-> "answered", due |-> now]
                                  THEN Unused ELSE rach[r]]
  BY DEF GenerateResults, Types
<1> DEFINE s == Slot(now)
<1>2. s \in Slots
  BY <1>1, TtiFacts, SlotType DEF Slots
<1>3. ASSUME NEW i \in Slots
      PROVE  /\ sf_scheds'[i].tti_rx = sf_scheds[i].tti_rx
             /\ sf_scheds'[i].msg3 = sf_scheds[i].msg3
             /\ i # s => sf_scheds'[i].generated = sf_scheds[i].generated
  <2> DEFINE sf == [sf_scheds[s] EXCEPT !.generated = TRUE]
  <2>1. sf.tti_rx = sf_scheds[s].tti_rx /\ sf.msg3 = sf_scheds[s].msg3
    BY <1>2 DEF Types, RingType, SfType, Slots
  <2>2. sf_scheds' = [sf_scheds EXCEPT ![s] = sf]
    BY <1>2 DEF GenerateResults, Types, RingType, Slots
  <2> HIDE DEF sf, s
  <2>3. QED BY <1>2, <2>1, <2>2 DEF Types, RingType, Slots
<1>4. sf_scheds[s].tti_rx = now
  BY <1>1 DEF Ring, Bound
<1>5. \A j : At(j)' = At(j)
  BY <1>1 DEF At, Add
<1>6. Generated'
  <2>1. ASSUME NEW i \in Slots, sf_scheds'[i].generated
        PROVE  \E j \in -RingSize .. Workers - 1 :
                 sf_scheds'[i].tti_rx = At(j) /\ i = Slot(At(j)) /\ (j < 0 \/ At(j) \in done')
    <3>1. CASE i = s
      <4>1. PICK a \in 0 .. Workers - 1 : now = At(a)
        BY <1>1, FlightAt
      <4>2. a \in -RingSize .. Workers - 1
        BY Sizes
      <4>3. sf_scheds'[i].tti_rx = At(a) /\ i = Slot(At(a)) /\ At(a) \in done'
        BY <1>1, <1>3, <1>4, <3>1, <4>1
      <4>4. QED BY <4>2, <4>3
    <3>2. CASE i # s
      <4>1. PICK j \in -RingSize .. Workers - 1 :
              sf_scheds[i].tti_rx = At(j) /\ i = Slot(At(j)) /\ (j < 0 \/ At(j) \in done)
        BY <1>3, <2>1, <3>2 DEF Promised, Generated
      <4>2. sf_scheds'[i].tti_rx = At(j) /\ (j < 0 \/ At(j) \in done')
        BY <1>1, <1>3, <4>1
      <4>3. QED BY <4>1, <4>2
    <3>3. QED BY <3>1, <3>2
  <2>2. QED BY <1>5, <2>1 DEF Generated, Slot, At, Add, Slots
<1>7. ASSUME NEW r \in Rntis, rach'[r].fate = "answered"
      PROVE  rach'[r] = rach[r] /\ rach[r].due # now
  <2>1. Unused.fate # "answered"
    BY DEF Unused
  <2>2. rach'[r] = rach[r] /\ rach[r] # [fate |-> "answered", due |-> now]
    BY <1>1, <1>7, <2>1
  <2>3. rach[r] \in RachType /\ rach[r].fate = "answered"
    BY <1>7, <2>2 DEF Types
  <2>4. rach[r] = [fate |-> rach[r].fate, due |-> rach[r].due]
    BY <2>3 DEF RachType
  <2>5. QED BY <2>2, <2>3, <2>4
<1>8. DueAhead'
  <2>1. \A r \in Rntis : Promise(r)' =>
          \E k \in Ahead3 : rach'[r].due = At(k) /\ At(k) \notin done'
    BY <1>1, <1>7 DEF Promised, DueAhead, Promise
  <2>2. QED BY <1>5, <2>1 DEF DueAhead, At, Add, Ahead3, Promise
<1>9. ASSUME NEW r \in ue_db, Promise(r)' PROVE InRing(r)' /\ ~Gone(r)'
  <2>1. r \in Rntis
    BY DEF Types
  <2>2. rach'[r] = rach[r] /\ rach[r] \in RachType /\ rach[r].due # now
    BY <1>7, <1>9, <2>1 DEF Types, Promise
  <2>3. InRing(r)
    BY <1>1, <1>9, <2>2 DEF Promised, Kept, InRars, Gone, Promise
  <2>4. Slot(rach[r].due) \in Slots
    BY <2>2, TtiFacts, SlotType DEF Slots, RachType
  <2>5. ~Gone(r)'
    BY <1>1 DEF Gone
  <2>6. QED BY <1>3, <2>2, <2>3, <2>4, <2>5 DEF InRing, Slot, Label3
<1>10. QED BY <1>1, <1>6, <1>8, <1>9 DEF Promised, Kept

\* When a TTI ends, results of a lap ago are gone: it took over their slot.
LEMMA LapGone ==
  ASSUME Types, Ring, base \in done, NEW i \in Slots,
         sf_scheds[i].tti_rx = At(-RingSize), i = Slot(At(-RingSize))
  PROVE  FALSE
<1> DEFINE x == At(-RingSize)
<1>1. base \in Ttis /\ base \in Nat /\ sf_scheds[Slot(base)].tti_rx \in {base, base + TtiMod}
  BY TtiFacts DEF Ring, Bound, Types, Labels
<1>2. x \in Ttis /\ x \in {base - RingSize, base - RingSize - TtiMod, base - RingSize + TtiMod}
  <2>1. -RingSize \in -TtiMod .. TtiMod
    BY Sizes
  <2>2. Add(base, -RingSize) \in Ttis
        /\ Add(base, -RingSize) \in {base + (-RingSize), base + (-RingSize) - TtiMod,
                                      base + (-RingSize) + TtiMod}
    BY <1>1, <2>1, AddCases
  <2>3. x = Add(base, -RingSize)
    BY Zenon DEF At
  <2> DEFINE a == Add(base, -RingSize)
  <2>4. a \in Ttis /\ a \in {base + (-RingSize), base + (-RingSize) - TtiMod,
                              base + (-RingSize) + TtiMod}
    BY Zenon, <2>2
  <2> HIDE DEF a
  <2>5. a \in Ttis /\ a \in {base - RingSize, base - RingSize - TtiMod,
                              base - RingSize + TtiMod}
    BY <1>1, <2>4, Sizes
  <2>6. QED BY Zenon, <2>3, <2>5 DEF a
<1>3. sf_scheds[i].tti_rx = x /\ i = Slot(x)
  OBVIOUS
<1> HIDE DEF x
<1>4. x \in 0 .. TtiMod - 1 /\ base \in 0 .. TtiMod - 1
  BY <1>1, <1>2 DEF Ttis
<1>5. x \in Nat /\ (x + RingSize = base \/ x + RingSize = base + TtiMod)
  BY <1>2, <1>4, Sizes
<1>6. Slot(x + RingSize) = Slot(x) /\ Slot(base + TtiMod) = Slot(base)
  BY <1>1, <1>5, SlotTurn, SlotPeriod
<1>7. x = base \/ x = base + TtiMod
  BY <1>1, <1>3, <1>5, <1>6
<1>8. QED BY <1>4, <1>5, <1>7, Sizes

LEMMA EndPromised ==
  ASSUME Types, Ring, Promised, EndWorker
  PROVE  Promised'
<1>1. /\ base \in done /\ base' = Add(base, 1) /\ done' = done \ {base} /\ base \in Ttis
      /\ pc' = pc /\ now' = now /\ sf_scheds' = sf_scheds /\ ue_db' = ue_db /\ rach' = rach
  BY DEF EndWorker, Types
<1>2. At(0) = base
  BY <1>1, AddZero DEF At
<1>3. ASSUME NEW j \in Int, 0 < j, j < TtiMod PROVE At(j) # base
  <2>1. 0 \in Int /\ base \in Int /\ 0 <= j /\ j - 0 < TtiMod
    BY <1>1, <1>3, TtiFacts
  <2>2. At(0) = At(j) => 0 = j
    BY <1>3, <2>1, AddSame DEF At
  <2>3. QED BY <1>2, <1>3, <2>2
<1>4. Generated'
  <2>1. ASSUME NEW i \in Slots, sf_scheds[i].generated
        PROVE  \E j \in -RingSize .. Workers - 1 :
                 sf_scheds[i].tti_rx = At(j)' /\ i = Slot(At(j)') /\ (j < 0 \/ At(j)' \in done')
    <3>1. PICK j \in -RingSize .. Workers - 1 :
            sf_scheds[i].tti_rx = At(j) /\ i = Slot(At(j)) /\ (j < 0 \/ At(j) \in done)
      BY <2>1 DEF Promised, Generated
    <3>2. j # -RingSize
      BY <1>1, <3>1, LapGone
    <3>3. j \in Int /\ j - 1 \in -RingSize .. Workers - 1 /\ j < TtiMod
      BY <3>2, Sizes
    <3>4. At(j) = At(j - 1)'
      BY <1>1, <3>3, AtShift
    <3>5. j - 1 < 0 \/ At(j - 1)' \in done'
      <4>1. CASE j <= 0
        BY <3>3, <4>1
      <4>2. CASE j > 0
        BY <1>1, <1>3, <3>1, <3>3, <3>4, <4>2
      <4>3. QED BY <3>3, <4>1, <4>2
    <3>6. QED BY <3>1, <3>3, <3>4, <3>5
  <2>2. QED BY <1>1, <2>1 DEF Generated, Slot, At, Add, Slots
<1>5. DueAhead'
  <2>1. ASSUME NEW r \in Rntis, Promise(r)
        PROVE  \E k \in Ahead3 : rach[r].due = At(k)' /\ At(k)' \notin done'
    <3>2. PICK k \in Ahead3 : rach[r].due = At(k) /\ At(k) \notin done
      BY <2>1 DEF Promised, DueAhead
    <3>3. k # 0
      BY <1>1, <1>2, <3>2
    <3>4. k \in Int /\ k - 1 \in Ahead3
      BY <3>3, Sizes DEF Ahead3
    <3>5. At(k) = At(k - 1)'
      BY <1>1, <3>4, AtShift
    <3>6. rach[r].due = At(k - 1)' /\ At(k - 1)' \notin done'
      BY <1>1, <3>2, <3>5
    <3>7. QED BY <3>4, <3>6
  <2>2. QED BY <1>1, <2>1 DEF DueAhead, At, Add, Ahead3, Promise
<1>6. ASSUME NEW r \in ue_db, Promise(r)'
      PROVE  (IF Gone(r) THEN sf_scheds[Slot(now)].msg3 = {} ELSE InRing(r) \/ InRars(r))'
  <2>1. IF Gone(r) THEN sf_scheds[Slot(now)].msg3 = {} ELSE InRing(r) \/ InRars(r)
    BY <1>1, <1>6 DEF Promised, Kept, Promise
  <2>2. QED BY <1>1, <2>1 DEF Gone, InRing, InRars, Slot, Add, Label3
<1>7. QED BY <1>1, <1>4, <1>5, <1>6 DEF Promised, Kept

LEMMA NextPromised ==
  ASSUME Types, Ring, Promised, [Next]_vars
  PROVE  Promised'
<1>1. CASE \E t \in Ttis : BeginTti(t)
  BY <1>1, BeginPromised
<1>2. CASE RarStep
  <2>1. base' = base /\ done' = done /\ now' = now /\ ue_db' = ue_db /\ pc = "rar"
    BY <1>2, RarCases
  <2>2. CASE LoopEnds
    BY <2>1, <2>2, LoopEndsPromised
  <2>3. CASE pending_rars # <<>> /\ InWindow(Front, TxDl(now)) /\ NofNow > 0 /\ Answer(NofNow)
    BY <2>1, <2>3, AnswerPromised
  <2>4. CASE Discard
    <3>1. /\ pc' = pc /\ sf_scheds' = sf_scheds
          /\ rach' = [r \in Rntis |-> IF \E i \in DOMAIN Front.grants : Front.grants[i] = r
                                      THEN Unused ELSE rach[r]]
      BY <2>4 DEF Discard
    <3>2. \A r \in Rntis : rach'[r].fate = "answered" => rach'[r] = rach[r]
      BY <3>1 DEF Unused
    <3>3. ue_db' \subseteq Rntis
      BY <2>1 DEF Types
    <3>4. QED BY <2>1, <3>1, <3>2, <3>3, KeepsPromised
  <2>5. CASE UNCHANGED <<pc, pending_rars, sf_scheds, rach>>
    <3>1. ue_db' \subseteq Rntis
      BY <2>1 DEF Types
    <3>2. QED BY <2>1, <2>5, <3>1, KeepsPromised
  <2>6. QED BY <1>2, <2>2, <2>3, <2>4, <2>5, RarCases
<1>3. CASE GenerateResults
  BY <1>3, ResultsPromised
<1>4. CASE EndWorker
  BY <1>4, EndPromised
<1>5. CASE \E r \in Rntis : UeRem(r)
  <2>1. ue_db' \subseteq ue_db /\ UNCHANGED <<base, done, pc, now, sf_scheds, rach>>
    BY <1>5 DEF UeRem
  <2>2. ue_db' \subseteq Rntis
    BY <2>1 DEF Types
  <2>3. QED BY <2>1, <2>2, KeepsPromised
<1>6. CASE \E r \in Rntis : \E late \in 0 .. MaxLate : RachDetected(r, late)
  <2>1. PICK u \in Rntis : \E late \in 0 .. MaxLate : RachDetected(u, late)
    BY <1>6
  <2>2. /\ ue_db' = ue_db \cup {u} /\ UNCHANGED <<base, done, pc, now, sf_scheds>>
        /\ rach' = [rach EXCEPT ![u] = [fate |-> "waiting", due |-> 0]]
    BY <2>1 DEF RachDetected
  <2>3. /\ rach'[u].fate = "waiting" /\ \A r \in Rntis : r # u => rach'[r] = rach[r]
    BY <2>2 DEF Types
  <2>4. /\ \A r \in Rntis : rach'[r].fate = "answered" => rach'[r] = rach[r]
        /\ \A r \in ue_db' : rach'[r].fate = "answered" => r \in ue_db
        /\ ue_db' \subseteq Rntis
    BY <2>2, <2>3 DEF Types
  <2>5. QED BY <2>2, <2>4, KeepsPromised
<1>7. CASE UNCHANGED vars
  <2>1. UNCHANGED <<base, done, pc, now, sf_scheds, rach, ue_db>>
    BY <1>7 DEF vars
  <2>2. ue_db' \subseteq Rntis
    BY <2>1 DEF Types
  <2>3. QED BY <2>1, <2>2, KeepsPromised
<1>8. QED BY <1>1, <1>2, <1>3, <1>4, <1>5, <1>6, <1>7 DEF Next, Sched

\* A user that was sent a RAR has its Msg3 in the subframe the RAR promised until that
\* is scheduled, unless it was scheduled before the RAR; if the subframe is of the next
\* period, until it begins, and then not.
THEOREM Msg3Granted == Spec => []Msg3Kept
<1>1. Init => Types /\ Queue /\ Ring /\ Promised
  BY InitTypes, InitRing, InitPromised
<1>2. Types /\ Queue /\ Ring /\ Promised /\ [Next]_vars => Types' /\ Queue' /\ Ring' /\ Promised'
  BY NextTypes, NextRing, NextPromised
<1>3. Types /\ Ring /\ Promised => Msg3Kept
  <2> SUFFICES ASSUME Types, Ring, Promised, pc # "rar", NEW r \in ue_db, rach[r].fate = "answered"
               PROVE  HasMsg3(r) <=> ~(pc = "data" /\ now = rach[r].due /\ now < Msg3Delay)
    BY DEF Msg3Kept
  <2> DEFINE d == rach[r].due
  <2>1. d \in Ttis
    BY DEF Types, RachType
  <2>2. Gone(r) <=> pc = "data" /\ now = d /\ now < Msg3Delay
    BY DEF Gone, Types
  <2>3. IF Gone(r) THEN sf_scheds[Slot(now)].msg3 = {} ELSE InRing(r)
    BY DEF Promised, Kept, InRars, Promise
  <2>4. CASE Gone(r)
    <3>1. ~HasMsg3(r)
      BY <2>2, <2>3, <2>4 DEF HasMsg3
    <3>2. QED BY <2>2, <2>4, <3>1
  <2>5. CASE ~Gone(r)
    <3>1. sf_scheds[Slot(d)].tti_rx % TtiMod = d
      BY <2>1, <2>3, <2>5, Label3Facts DEF InRing
    <3>2. HasMsg3(r)
      BY <2>3, <2>5, <3>1 DEF HasMsg3, InRing
    <3>3. QED BY <2>2, <2>5, <3>2
  <2>6. QED BY <2>4, <2>5
<1>4. QED BY <1>1, <1>2, <1>3, PTL DEF Spec
=============================================================================
