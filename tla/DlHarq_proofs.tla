----------------------------- MODULE DlHarq_proofs -----------------------------
(***************************************************************************)
(* HARQ with any number of processes, workers and retransmissions, any     *)
(* delays, and TTIs that wrap at any period long enough: the processes and *)
(* their feedback are never confused, what the UE acknowledges it has      *)
(* delivered, and it delivers no TB twice without a reason.                *)
(***************************************************************************)
EXTENDS DlHarq, OrderFacts, FiniteSetTheorems, TLAPS

-----------------------------------------------------------------------------
(***************************************************************************)
(* TTIs modulo TtiMod.                                                     *)
(***************************************************************************)
Half == TtiMod \div 2

\* The bounds of the constants, without the division.
LEMMA Bounds ==
  /\ TtiMod \in Nat /\ Half \in Nat /\ 2 * Half <= TtiMod /\ TtiMod <= 2 * Half + 1
  /\ DlDelay \in Nat \ {0} /\ UlDelay \in Nat \ {0} /\ Rtt = DlDelay + UlDelay
  /\ Workers \in Nat \ {0} /\ OldAge \in Nat
  /\ OldAge + 2 * Workers < Half /\ Workers <= Rtt /\ Rtt + Workers <= OldAge + 1
<1>1. \A m \in Nat : LET h == m \div 2 IN h \in Nat /\ 2 * h <= m /\ m <= 2 * h + 1
  OBVIOUS
<1>2. QED BY <1>1, HarqAssumption DEF Half, Rtt

\* Adding up to one period, forth or back, wraps once at most.
LEMMA AddCases ==
  ASSUME NEW t \in Ttis, NEW n \in -TtiMod .. TtiMod
  PROVE  /\ Add(t, n) \in Ttis
         /\ Add(t, n) \in {t + n, t + n - TtiMod, t + n + TtiMod}
<1>1. TtiMod \in Nat /\ TtiMod > 0
  BY Bounds
<1>2. ASSUME NEW M \in Nat, M > 0, NEW x \in 0 .. M - 1, NEW k \in -M .. M
      PROVE  (x + k) % M \in 0 .. M - 1 /\ (x + k) % M \in {x + k, x + k - M, x + k + M}
  <2>1. CASE x + k < 0
    BY <1>2, <2>1
  <2>2. CASE x + k \in 0 .. M - 1
    BY <1>2, <2>2
  <2>3. CASE x + k \in M .. 2 * M - 1
    BY <1>2, <2>3
  <2>4. QED BY <1>2, <2>1, <2>2, <2>3
<1>3. t \in 0 .. TtiMod - 1 /\ Ttis = 0 .. TtiMod - 1
  BY DEF Ttis
<1>4. (t + n) % TtiMod \in 0 .. TtiMod - 1 /\ (t + n) % TtiMod \in {t + n, t + n - TtiMod, t + n + TtiMod}
  BY ONLY <1>1, <1>2, <1>3, n \in -TtiMod .. TtiMod, Zenon
<1>5. QED BY <1>3, <1>4, Zenon DEF Add

\* So additions can be joined.
LEMMA AddAdd ==
  ASSUME NEW t \in Ttis, NEW m \in -TtiMod .. TtiMod, NEW n \in -TtiMod .. TtiMod,
         m + n \in -TtiMod .. TtiMod
  PROVE  Add(Add(t, m), n) = Add(t, m + n)
<1> DEFINE k == m + n
           r == Add(t, m)
<1>1. k \in -TtiMod .. TtiMod
  OBVIOUS
<1>2. r \in Ttis /\ r \in {t + m, t + m - TtiMod, t + m + TtiMod}
  BY AddCases
<1> HIDE DEF k, r
<1>3. Add(t, k) \in Ttis /\ Add(t, k) \in {t + k, t + k - TtiMod, t + k + TtiMod}
  BY <1>1, AddCases
<1>4. Add(r, n) \in Ttis /\ Add(r, n) \in {r + n, r + n - TtiMod, r + n + TtiMod}
  BY <1>2, AddCases
<1>5. k = m + n
  BY DEF k
<1>6. Add(r, n) = Add(t, k)
  BY <1>1, <1>2, <1>3, <1>4, <1>5, Bounds DEF Ttis
<1>7. QED BY <1>6 DEF k, r

\* Less than a period apart, different distances are different TTIs.
LEMMA AddSame ==
  ASSUME NEW t \in Ttis, NEW m \in -TtiMod .. TtiMod, NEW n \in -TtiMod .. TtiMod,
         m - n < TtiMod, n - m < TtiMod, Add(t, m) = Add(t, n)
  PROVE  m = n
<1>1. /\ Add(t, m) \in {t + m, t + m - TtiMod, t + m + TtiMod}
      /\ Add(t, n) \in {t + n, t + n - TtiMod, t + n + TtiMod}
  BY AddCases
<1>2. QED BY <1>1, Bounds DEF Ttis

\* tti_point orders TTIs that are less than half a period apart.
LEMMA BeforeSlots ==
  ASSUME NEW t \in Ttis, NEW m \in -TtiMod .. TtiMod, NEW n \in -TtiMod .. TtiMod,
         m - n < Half, n - m < Half
  PROVE  Before(Add(t, m), Add(t, n)) <=> m < n
<1>1. /\ Add(t, m) \in Ttis /\ Add(t, m) \in {t + m, t + m - TtiMod, t + m + TtiMod}
      /\ Add(t, n) \in Ttis /\ Add(t, n) \in {t + n, t + n - TtiMod, t + n + TtiMod}
  BY AddCases
<1> DEFINE a == Add(t, m)
           b == Add(t, n)
<1> HIDE DEF a, b
<1>2. Before(a, b) <=> ((a < b) # ((IF a < b THEN b - a ELSE a - b) > Half))
  BY DEF Before, Half
<1>3. /\ a \in Ttis /\ a \in {t + m, t + m - TtiMod, t + m + TtiMod}
      /\ b \in Ttis /\ b \in {t + n, t + n - TtiMod, t + n + TtiMod}
  BY <1>1 DEF a, b
<1>4. ((a < b) # ((IF a < b THEN b - a ELSE a - b) > Half)) <=> m < n
  <2>1. CASE a < b
    BY <1>3, <2>1, Bounds DEF Ttis
  <2>2. CASE ~(a < b)
    BY <1>3, <2>2, Bounds DEF Ttis
  <2>3. QED BY <2>1, <2>2
<1>5. QED BY <1>2, <1>4 DEF a, b

-----------------------------------------------------------------------------
(***************************************************************************)
(* The inductive invariant.  All TTIs are counted from base: those in      *)
(* flight are 0, 1, ..., and "slot j" is the transmission scheduled by the *)
(* worker of TTI base + j.                                                 *)
(***************************************************************************)
At(j)   == Add(base, j)
Slot(j) == Add(base, DlDelay + j)
\* The worker of base + j has scheduled, and perhaps ended.
Scheduled(j) == j < 0 \/ (At(j) \in DOMAIN work /\ work[At(j)] = "done")
Open(j) == At(j) \in DOMAIN work => work[At(j)] = "ul"

\* The workers in flight have consecutive TTIs.
Flight ==
  \E n \in 0..Workers : DOMAIN work = {At(i) : i \in 0 .. n - 1}
\* Feedback in the air belongs to a TTI that was scheduled, and the worker that is to
\* bring it has not looked for it yet.
AirSlots ==
  \A a \in air : \E j \in -Rtt .. Workers - 1 :
    a.tti = Slot(j) /\ Scheduled(j) /\ Open(j + Rtt)
\* An active process was sent in a TTI that was scheduled, and not too long before
\* any scheduling that is over: that one would have reset it.
HarqSlots ==
  \A p \in Pids : harq[p].active =>
    \E j \in -OldAge - 1 .. Workers - 1 :
      /\ harq[p].tti = Slot(j) /\ Scheduled(j)
      /\ \A i \in 0 .. Workers - 1 :
           At(i) \in DOMAIN work /\ work[At(i)] = "done" => i <= j + OldAge
\* One transmission per TTI, and it is that of the process that bears the TTI.
OnePerTti ==
  /\ \A a, b \in air : a.tti = b.tti => a = b
  /\ \A a \in air, p \in Pids : harq[p].active /\ harq[p].tti = a.tti => a.pid = p

Times == TypeOK /\ Flight /\ AirSlots /\ HarqSlots /\ OnePerTti

\* The NDI of the UE is that of the last TB it heard of: since then an even or an odd
\* number of TBs went by.  What it acknowledges it has delivered, but where odd.
UeKnows ==
  \A p \in Pids :
    /\ ~ue[p].first => (ue[p].ndi = harq[p].ndi <=> (heard[p] # {} \/ odd[p]))
    /\ heard[p] # {} /\ ~odd[p] /\ ~ue[p].first /\ ue[p].ack => got[p] > 0
AckMeansGot ==
  \A a \in air, p \in Pids :
    harq[p].active /\ harq[p].tti = a.tti /\ a.answer = "ACK" /\ ~odd[p] => got[p] > 0
\* The UE forgets a TB it has delivered only after DupTimeout retransmissions, as long
\* as it was granted in one size.
UeCounts ==
  \A p \in Pids : harq[p].active /\ ~odd[p] =>
    /\ got[p] > 0 => heard[p] # {}
    /\ heard[p] # {} /\ ~ue[p].first => ue[p].n_retx <= harq[p].n_rtx + 1
    /\ \A s : heard[p] = {s} =>
         /\ ~ue[p].first => ue[p].size = s
         /\ got[p] > 0 => (~ue[p].first /\ ue[p].ack) \/ harq[p].n_rtx >= DupTimeout
\* Feedback in the air is that of the last transmission of its process, or that of
\* one a round trip older, which a retransmission has overtaken.
AirHeld ==
  \A a \in air :
    LET h == harq[a.pid] IN
    /\ h.active
    /\ \/ a.tti = h.tti /\ (h.n_rtx = 0 => h.ack = "NULL")
       \/ h.n_rtx > 0 /\ \E i, j \in -Rtt .. Workers - 1 :
                           a.tti = Slot(i) /\ h.tti = Slot(j) /\ i + Rtt <= j

-----------------------------------------------------------------------------
(***************************************************************************)
(* TTIs counted from base.                                                 *)
(***************************************************************************)
Near == -OldAge - 1 .. OldAge + Workers

LEMMA NearBounds ==
  ASSUME NEW j \in Near
  PROVE  j \in Int /\ j \in -TtiMod .. TtiMod /\ DlDelay + j \in -TtiMod .. TtiMod
         /\ j + 1 \in -TtiMod .. TtiMod /\ DlDelay + j + 1 \in -TtiMod .. TtiMod
BY Bounds DEF Near

\* Near TTIs, and near slots, are all different.
LEMMA SlotFacts ==
  ASSUME base \in Ttis, NEW i \in Near, NEW j \in Near
  PROVE  /\ At(j) \in Ttis /\ Slot(j) \in Ttis
         /\ At(i) = At(j) => i = j
         /\ Slot(i) = Slot(j) => i = j
<1>1. /\ i \in -TtiMod .. TtiMod /\ DlDelay + i \in -TtiMod .. TtiMod
      /\ j \in -TtiMod .. TtiMod /\ DlDelay + j \in -TtiMod .. TtiMod
  BY NearBounds
<1>2. At(j) \in Ttis /\ Slot(j) \in Ttis
  BY <1>1, AddCases DEF At, Slot
<1>3. i - j < TtiMod /\ j - i < TtiMod /\ i \in Int /\ j \in Int
  BY Bounds DEF Near
<1>4. ASSUME At(i) = At(j) PROVE i = j
  BY <1>1, <1>3, <1>4, AddSame DEF At
<1>5. ASSUME Slot(i) = Slot(j) PROVE i = j
  <2> DEFINE m == DlDelay + i
             n == DlDelay + j
  <2>1. m - n < TtiMod /\ n - m < TtiMod
    BY <1>3, Bounds
  <2>2. Add(base, m) = Add(base, n)
    BY <1>5 DEF Slot
  <2>3. m \in -TtiMod .. TtiMod /\ n \in -TtiMod .. TtiMod
    BY <1>1
  <2> HIDE DEF m, n
  <2>4. m = n
    BY <2>1, <2>2, <2>3, AddSame
  <2>5. QED BY <1>3, <2>4, Bounds DEF m, n
<1>6. QED BY <1>2, <1>4, <1>5

\* From a TTI to its slot, and from a slot to the TTI that brings its feedback.
LEMMA SlotWays ==
  ASSUME base \in Ttis, NEW j \in Near
  PROVE  /\ Add(At(j), DlDelay) = Slot(j)
         /\ j + Rtt \in Near => Add(Slot(j), UlDelay) = At(j + Rtt)
<1>1. j \in -TtiMod .. TtiMod /\ DlDelay + j \in -TtiMod .. TtiMod /\ j \in Int
  BY NearBounds
<1>2. DlDelay \in -TtiMod .. TtiMod /\ UlDelay \in -TtiMod .. TtiMod
  BY Bounds
<1>3. j + DlDelay = DlDelay + j /\ (DlDelay + j) + UlDelay = j + Rtt
  BY <1>1, Bounds
<1>4. Add(At(j), DlDelay) = Slot(j)
  BY <1>1, <1>2, <1>3, AddAdd DEF At, Slot
<1>5. ASSUME j + Rtt \in Near PROVE Add(Slot(j), UlDelay) = At(j + Rtt)
  <2>1. j + Rtt \in -TtiMod .. TtiMod
    BY <1>5, NearBounds
  <2> DEFINE m == DlDelay + j
  <2>2. m \in -TtiMod .. TtiMod /\ m + UlDelay = j + Rtt
    BY <1>1, <1>3
  <2> HIDE DEF m
  <2>3. Add(Add(base, m), UlDelay) = Add(base, m + UlDelay)
    BY <1>2, <2>1, <2>2, AddAdd
  <2>4. QED BY <2>2, <2>3 DEF At, Slot, m
<1>6. QED BY <1>4, <1>5

\* When base moves on, every distance shrinks by one.
LEMMA SlotShift ==
  ASSUME base \in Ttis, base' = Add(base, 1), NEW j \in Near, j - 1 \in Near
  PROVE  At(j - 1)' = At(j) /\ Slot(j - 1)' = Slot(j)
<1> DEFINE m == DlDelay + (j - 1)
           k == j - 1
<1>1. k \in -TtiMod .. TtiMod /\ m \in -TtiMod .. TtiMod
  BY NearBounds
<1>2. 1 + k = j /\ 1 + m = DlDelay + j /\ 1 \in -TtiMod .. TtiMod
  BY Bounds DEF Near
<1>3. j \in -TtiMod .. TtiMod /\ DlDelay + j \in -TtiMod .. TtiMod
  BY NearBounds
<1> HIDE DEF m, k
<1>4. Add(Add(base, 1), k) = Add(base, 1 + k) /\ Add(Add(base, 1), m) = Add(base, 1 + m)
  BY <1>1, <1>2, <1>3, AddAdd
<1>5. QED BY <1>2, <1>4 DEF At, Slot, m, k

\* tti_point sees the age of a transmission, and whether its round trip is over.
LEMMA SlotAges ==
  ASSUME base \in Ttis, NEW j \in -OldAge - 1 .. Workers - 1, NEW i \in 0 .. Workers - 1
  PROVE  /\ Before(Add(Slot(j), OldAge), Slot(i)) <=> j + OldAge < i
         /\ Before(Slot(i), Add(Slot(j), Rtt)) <=> i < j + Rtt
<1> DEFINE x == DlDelay + j
           y == DlDelay + i
<1>1. /\ x \in -TtiMod .. TtiMod /\ y \in -TtiMod .. TtiMod
      /\ x + OldAge \in -TtiMod .. TtiMod /\ x + Rtt \in -TtiMod .. TtiMod
      /\ OldAge \in -TtiMod .. TtiMod /\ Rtt \in -TtiMod .. TtiMod
  BY Bounds
<1>2. /\ (x + OldAge) - y < Half /\ y - (x + OldAge) < Half
      /\ (x + Rtt) - y < Half /\ y - (x + Rtt) < Half
      /\ (x + OldAge < y) <=> (j + OldAge < i)
      /\ (y < x + Rtt) <=> (i < j + Rtt)
  BY Bounds
<1>3. Slot(j) = Add(base, x) /\ Slot(i) = Add(base, y)
  BY DEF Slot
<1> HIDE DEF x, y
<1>4. Add(Slot(j), OldAge) = Add(base, x + OldAge) /\ Add(Slot(j), Rtt) = Add(base, x + Rtt)
  BY <1>1, <1>3, AddAdd
<1>5. Before(Add(base, x + OldAge), Add(base, y)) <=> x + OldAge < y
  BY <1>1, <1>2, BeforeSlots
<1>6. Before(Add(base, y), Add(base, x + Rtt)) <=> y < x + Rtt
  BY <1>1, <1>2, BeforeSlots
<1>7. QED BY <1>2, <1>3, <1>4, <1>5, <1>6

-----------------------------------------------------------------------------
(***************************************************************************)
(* Types.                                                                  *)
(***************************************************************************)
HarqProc == [active : BOOLEAN, ack : {"NULL", "ACK", "NACK"}, n_rtx : 0..NofRtx,
             tti : Ttis, ndi : BOOLEAN, size : Sizes \cup {0}]
UeProc == [first : BOOLEAN, ndi : BOOLEAN, size : Sizes \cup {0}, ack : BOOLEAN,
           n_retx : 0 .. DupTimeout + 1]

\* NofRtx is beyond both thresholds.
LEMMA RtxBound ==
  NofRtx \in Nat /\ NofRtx >= DupTimeout + 1 /\ NofRtx >= MaxRetx
BY HarqAssumption DEF NofRtx

\* What the operations of a process make of its record, field by field.
LEMMA ResetFacts ==
  ASSUME NEW h \in HarqProc
  PROVE  /\ Reset(h) \in HarqProc /\ Reset(h).ndi = h.ndi /\ ~Reset(h).active
         /\ Reset(h).n_rtx = 0
<1>1. 0 \in Ttis /\ 0 \in 0..NofRtx
  BY RtxBound, Bounds DEF Ttis
<1>2. QED BY <1>1 DEF Reset, HarqProc

LEMMA SetAckFacts ==
  ASSUME NEW h \in HarqProc, NEW ack \in BOOLEAN
  PROVE  /\ SetAck(h, ack) \in HarqProc
         /\ SetAck(h, ack).ndi = h.ndi /\ SetAck(h, ack).tti = h.tti
         /\ SetAck(h, ack).n_rtx = h.n_rtx /\ SetAck(h, ack).size = h.size
         /\ SetAck(h, ack).active => h.active /\ ~ack
         /\ SetAck(h, ack).ack = IF ack THEN "ACK" ELSE "NACK"
BY DEF SetAck, HarqProc

LEMMA NewTxFacts ==
  ASSUME NEW h \in HarqProc, NEW t \in Ttis, NEW s \in Sizes
  PROVE  /\ NewTx(h, t, s) \in HarqProc /\ NewTx(h, t, s).ndi = ~h.ndi
         /\ NewTx(h, t, s).tti = t /\ NewTx(h, t, s).active
         /\ NewTx(h, t, s).n_rtx = 0 /\ NewTx(h, t, s).ack = "NULL"
         /\ NewTx(h, t, s).size = s
<1>1. 0 \in Ttis /\ 0 \in 0..NofRtx
  BY RtxBound, Bounds DEF Ttis
<1>2. QED BY <1>1 DEF NewTx, Reset, HarqProc

More(n) == IF n < NofRtx THEN n + 1 ELSE n
LEMMA NewRetxFacts ==
  ASSUME NEW h \in HarqProc, NEW t \in Ttis, NEW s \in Sizes
  PROVE  /\ NewRetx(h, t, s) \in HarqProc /\ NewRetx(h, t, s).ndi = h.ndi
         /\ NewRetx(h, t, s).tti = t /\ NewRetx(h, t, s).active = h.active
         /\ NewRetx(h, t, s).size = s
         /\ NewRetx(h, t, s).n_rtx = More(h.n_rtx)
<1> DEFINE k == More(h.n_rtx)
<1>1. k \in 0..NofRtx
  BY RtxBound DEF HarqProc, More
<1>2. NewRetx(h, t, s) = [h EXCEPT !.ack = "NACK", !.tti = t, !.size = s, !.n_rtx = k]
  BY DEF NewRetx, More
<1> HIDE DEF k
<1>3. /\ NewRetx(h, t, s) \in HarqProc /\ NewRetx(h, t, s).ndi = h.ndi
      /\ NewRetx(h, t, s).tti = t /\ NewRetx(h, t, s).active = h.active
      /\ NewRetx(h, t, s).size = s /\ NewRetx(h, t, s).n_rtx = k
  BY <1>1, <1>2 DEF HarqProc
<1>4. QED BY <1>3 DEF k

\* The number a grant gives to its transmission at the UE.
GrantCount(u, g) == IF StartsOver(u, g) THEN 1 ELSE u.n_retx + 1

\* A grant makes one of three things of the process of the UE.
LEMMA UeOps ==
  ASSUME NEW u \in UeProc, NEW g \in HarqProc, NEW decoded \in BOOLEAN,
         NEW v, v = NewGrantDl(u, g, decoded)
  PROVE  /\ v \in UeProc
         /\ ~Duplicate(u, g) =>
              /\ ~v.first /\ v.ndi = g.ndi /\ v.ack = decoded
              /\ v.n_retx <= GrantCount(u, g) /\ v.size = g.size
         /\ Duplicate(u, g) => /\ ~u.first /\ u.ndi = g.ndi /\ u.ack /\ u.size = g.size
                               /\ GrantCount(u, g) = u.n_retx + 1
         /\ Duplicate(u, g) /\ GrantCount(u, g) > DupTimeout => v.first
         /\ Duplicate(u, g) /\ GrantCount(u, g) <= DupTimeout =>
              /\ ~v.first /\ v.ndi = u.ndi /\ v.ack /\ v.n_retx = GrantCount(u, g)
              /\ v.size = u.size
<1> DEFINE n == GrantCount(u, g)
<1>1. n \in Nat /\ DupTimeout \in Nat /\ n >= 1
  BY HarqAssumption DEF UeProc, GrantCount
<1>2. v = IF ~Duplicate(u, g)
          THEN [first |-> FALSE, ndi |-> g.ndi, size |-> g.size, ack |-> decoded,
                n_retx |-> IF n <= DupTimeout THEN n ELSE DupTimeout + 1]
          ELSE IF n > DupTimeout THEN FreshUe ELSE [u EXCEPT !.n_retx = n]
  BY DEF NewGrantDl, GrantCount
<1>3. Duplicate(u, g) => /\ ~u.first /\ u.ndi = g.ndi /\ u.ack /\ u.size = g.size
                         /\ n = u.n_retx + 1
  BY DEF Duplicate, StartsOver, IsNewTransmission, UeProc, HarqProc, GrantCount
<1> HIDE DEF n
<1>4. CASE ~Duplicate(u, g)
  <2> DEFINE k == IF n <= DupTimeout THEN n ELSE DupTimeout + 1
  <2>1. k \in 0 .. DupTimeout + 1 /\ k <= n
    BY <1>1
  <2>2. v = [first |-> FALSE, ndi |-> g.ndi, size |-> g.size, ack |-> decoded, n_retx |-> k]
    BY <1>2, <1>4
  <2> HIDE DEF k
  <2>3. /\ v \in UeProc /\ ~v.first /\ v.ndi = g.ndi /\ v.ack = decoded /\ v.n_retx = k
        /\ v.size = g.size
    BY <2>1, <2>2 DEF UeProc, HarqProc
  <2>4. QED BY <1>4, <2>1, <2>3 DEF n
<1>5. CASE Duplicate(u, g) /\ n > DupTimeout
  <2>1. v = FreshUe /\ 0 \in 0 .. DupTimeout + 1
    BY <1>1, <1>2, <1>5
  <2>2. v \in UeProc /\ v.first
    BY <2>1 DEF UeProc, FreshUe
  <2>3. QED BY <1>1, <1>3, <1>5, <2>2 DEF n
<1>6. CASE Duplicate(u, g) /\ n <= DupTimeout
  <2>1. v = [u EXCEPT !.n_retx = n] /\ n \in 0 .. DupTimeout + 1
    BY <1>1, <1>2, <1>6
  <2>2. /\ v \in UeProc /\ v.first = u.first /\ v.ndi = u.ndi /\ v.ack = u.ack
        /\ v.n_retx = n /\ v.size = u.size
    BY <2>1 DEF UeProc
  <2>3. QED BY <1>1, <1>3, <1>6, <2>2 DEF n
<1>7. QED BY <1>1, <1>4, <1>5, <1>6 DEF n

\* The processes after a scheduling: hs but for those that are given up.
LEMMA FinishFacts ==
  ASSUME NEW hs \in [Pids -> HarqProc], NEW t \in Ttis, Finish(hs, t),
         told \in [Pids -> {"nothing", "acked", "dropped"}]
  PROVE  /\ harq' \in [Pids -> HarqProc]
         /\ \A p \in Pids :
              /\ harq'[p].ndi = hs[p].ndi
              /\ harq'[p].active => harq'[p] = hs[p] /\ ~TooOld(hs[p], t)
              /\ MaxRetx # 0 /\ ~TooOld(hs[p], t) => harq'[p] = hs[p]
              /\ harq'[p].n_rtx # hs[p].n_rtx => harq'[p].n_rtx = 0
         /\ told' = [p \in Pids |-> IF hs[p].active /\ ~harq'[p].active
                                    THEN "dropped" ELSE told[p]]
         /\ told' \in [Pids -> {"nothing", "acked", "dropped"}]
<1>1. harq' = ResetPendingData(hs, t)
  BY DEF Finish
<1>2. told' = [p \in Pids |-> IF hs[p].active /\ ~harq'[p].active THEN "dropped" ELSE told[p]]
  BY DEF Finish
<1>3. ASSUME NEW p \in Pids
      PROVE  /\ harq'[p] \in HarqProc /\ harq'[p].ndi = hs[p].ndi
             /\ harq'[p].active => harq'[p] = hs[p] /\ ~TooOld(hs[p], t)
             /\ MaxRetx # 0 /\ ~TooOld(hs[p], t) => harq'[p] = hs[p]
             /\ harq'[p].n_rtx # hs[p].n_rtx => harq'[p].n_rtx = 0
  <2> DEFINE h == IF MaxRetx = 0 THEN [hs[p] EXCEPT !.active = FALSE] ELSE hs[p]
  <2>1. harq'[p] = IF TooOld(h, t) THEN Reset(h) ELSE h
    BY <1>1 DEF ResetPendingData
  <2>2. hs[p] \in HarqProc
    OBVIOUS
  <2>3. /\ h \in HarqProc /\ h.ndi = hs[p].ndi /\ (MaxRetx = 0 => ~h.active)
        /\ h.n_rtx = hs[p].n_rtx
    BY <2>2 DEF HarqProc
  <2>4. MaxRetx # 0 => h = hs[p]
    OBVIOUS
  <2> HIDE DEF h
  <2>5. /\ Reset(h) \in HarqProc /\ Reset(h).ndi = h.ndi /\ ~Reset(h).active
        /\ Reset(h).n_rtx = 0
    BY <2>3, ResetFacts
  <2>6. TooOld(h, t) => h.active
    BY DEF TooOld
  <2>7. QED BY <2>1, <2>3, <2>4, <2>5, <2>6
<1>4. harq' = [p \in Pids |-> harq'[p]]
  BY <1>1 DEF ResetPendingData
<1>5. harq' \in [Pids -> HarqProc]
  BY <1>3, <1>4
<1>6. told' \in [Pids -> {"nothing", "acked", "dropped"}]
  BY <1>2
<1>7. QED BY <1>2, <1>3, <1>5, <1>6

\* The first of a set of processes is one of them, and the only first one.
LEMMA FirstFacts ==
  ASSUME NEW P \in SUBSET Pids
  PROVE  First(P) \subseteq P /\ \A p, q \in First(P) : p = q
BY HarqAssumption DEF First

\* A scheduling retransmits, starts a TB, or does neither; the processes that come
\* out of it are hs but for those that are too old.
Resends(p, s, t, hs) ==
  /\ harq[p].active /\ harq[p].ack = "NACK" /\ ~Before(t, Add(harq[p].tti, Rtt))
  /\ Resizes \/ s = harq[p].size
  /\ hs = [harq EXCEPT ![p] = NewRetx(harq[p], t, s)]
  /\ Reach(p, t, got[p], heard[p]) /\ odd' = odd
Sends(p, s, t, hs) ==
  /\ ~harq[p].active
  /\ hs = [harq EXCEPT ![p] = NewTx(harq[p], t, s)]
  /\ Reach(p, t, 0, {}) /\ odd' = [odd EXCEPT ![p] = heard[p] = {} /\ ~odd[p]]
LEMMA ScheduleCases ==
  ASSUME TypeOK, NEW t \in DOMAIN work, Schedule(t)
  PROVE  LET x == Add(t, DlDelay) IN
         /\ t \in Ttis /\ x \in Ttis /\ work[t] = "sched"
         /\ work' = [work EXCEPT ![t] = "done"] /\ base' = base /\ astray' = FALSE
         /\ \E hs \in [Pids -> HarqProc] :
              /\ Finish(hs, x)
              /\ \/ hs = harq /\ UNCHANGED <<ue, air, got, heard, odd>>
                 \/ \E p \in Pids, s \in Sizes : Resends(p, s, x, hs) \/ Sends(p, s, x, hs)
<1> DEFINE x == Add(t, DlDelay)
<1>1. /\ t \in Ttis /\ work[t] = "sched" /\ work' = [work EXCEPT ![t] = "done"] /\ base' = base
      /\ astray' = FALSE /\ harq \in [Pids -> HarqProc]
  BY DEF Schedule, TypeOK, HarqProc
<1>2. x \in Ttis
  <2>1. DlDelay \in -TtiMod .. TtiMod
    BY Bounds
  <2>2. QED BY <1>1, <2>1, AddCases
<1>3. Retransmit(x) \/ Transmit(x) \/ Pass(x)
  BY DEF Schedule
<1> HIDE DEF x
<1>4. CASE Pass(x)
  BY <1>1, <1>2, <1>4 DEF Pass, x
<1>5. CASE Retransmit(x)
  <2>1. PICK p \in GetPendingDlHarq(x), s \in Sizes :
          /\ Resizes \/ s = harq[p].size
          /\ Finish([harq EXCEPT ![p] = NewRetx(harq[p], x, s)], x)
          /\ Reach(p, x, got[p], heard[p]) /\ odd' = odd
    BY <1>5 DEF Retransmit
  <2>2. p \in Pids /\ HasPendingRetx(harq[p], x)
    <3> DEFINE pending == {q \in Pids : HasPendingRetx(harq[q], x)}
               oldest == {q \in pending : \A r \in pending :
                            Since(x, harq[q].tti) >= Since(x, harq[r].tti)}
    <3>1. GetPendingDlHarq(x) = First(oldest)
      BY DEF GetPendingDlHarq
    <3>2. oldest \in SUBSET Pids
      OBVIOUS
    <3> HIDE DEF oldest
    <3>3. p \in oldest
      BY <2>1, <3>1, <3>2, FirstFacts
    <3>4. QED BY <3>3 DEF oldest
  <2> DEFINE hs == [harq EXCEPT ![p] = NewRetx(harq[p], x, s)]
  <2>3. NewRetx(harq[p], x, s) \in HarqProc
    BY <1>1, <1>2, <2>2, NewRetxFacts
  <2>4. hs \in [Pids -> HarqProc]
    BY <1>1, <2>3
  <2>5. Resends(p, s, x, hs)
    BY <2>1, <2>2 DEF Resends, HasPendingRetx
  <2>6. QED BY <1>1, <1>2, <2>1, <2>2, <2>4, <2>5 DEF x
<1>6. CASE Transmit(x)
  <2>1. PICK p \in GetEmptyDlHarq, s \in Sizes :
          /\ Finish([harq EXCEPT ![p] = NewTx(harq[p], x, s)], x)
          /\ Reach(p, x, 0, {}) /\ odd' = [odd EXCEPT ![p] = heard[p] = {} /\ ~odd[p]]
    BY <1>6 DEF Transmit
  <2>2. p \in Pids /\ ~harq[p].active
    <3>1. {q \in Pids : ~harq[q].active} \in SUBSET Pids
      OBVIOUS
    <3>2. QED BY <2>1, <3>1, FirstFacts DEF GetEmptyDlHarq
  <2> DEFINE hs == [harq EXCEPT ![p] = NewTx(harq[p], x, s)]
  <2>3. NewTx(harq[p], x, s) \in HarqProc
    BY <1>1, <1>2, <2>2, NewTxFacts
  <2>4. hs \in [Pids -> HarqProc]
    BY <1>1, <2>3
  <2>5. Sends(p, s, x, hs)
    BY <2>1, <2>2 DEF Sends
  <2>6. QED BY <1>1, <1>2, <2>1, <2>2, <2>4, <2>5 DEF x
<1>7. QED BY <1>3, <1>4, <1>5, <1>6

\* The UE misses a DCI, or it receives the grant and answers it.
Reply(p, t, answer) == [tti |-> t, pid |-> p, answer |-> answer]
AnswerOf(p, decoded) ==
  IF decoded \/ Duplicate(ue[p], harq'[p]) THEN "ACK" ELSE "NACK"
Delivered(p, k, decoded) ==
  IF decoded /\ ~Duplicate(ue[p], harq'[p]) /\ k < 2 THEN k + 1 ELSE k
AirOnes == [tti : Ttis, pid : Pids, answer : {"ACK", "NACK", "none"}]
SizeSets == SUBSET (Sizes \cup {0})
LEMMA ReachFacts ==
  ASSUME TypeOK, NEW p \in Pids, NEW t \in Ttis, NEW k \in 0..2, NEW S \in SizeSets,
         harq' \in [Pids -> HarqProc], Reach(p, t, k, S)
  PROVE  /\ ue' \in [Pids -> UeProc] /\ got' \in [Pids -> 0..2] /\ heard' \in [Pids -> SizeSets]
         /\ air' \subseteq AirOnes
         /\ \A q \in Pids \ {p} : ue'[q] = ue[q] /\ got'[q] = got[q] /\ heard'[q] = heard[q]
         /\ \/ DciMissed /\ ue' = ue /\ air' = air \cup {Reply(p, t, "none")}
               /\ got'[p] = k /\ heard'[p] = S
            \/ \E decoded \in BOOLEAN :
                 /\ ue'[p] = NewGrantDl(ue[p], harq'[p], decoded)
                 /\ air' = air \cup {Reply(p, t, AnswerOf(p, decoded))}
                 /\ got'[p] = Delivered(p, k, decoded)
                 /\ heard'[p] = S \cup {harq'[p].size}
<1>1. /\ ue \in [Pids -> UeProc] /\ got \in [Pids -> 0..2] /\ heard \in [Pids -> SizeSets]
      /\ air \subseteq AirOnes
  BY DEF TypeOK, UeProc, AirOnes, SizeSets
<1>2. ASSUME DciMissed, air' = air \cup {Reply(p, t, "none")}, got' = [got EXCEPT ![p] = k],
             heard' = [heard EXCEPT ![p] = S], ue' = ue
      PROVE  /\ got' \in [Pids -> 0..2] /\ heard' \in [Pids -> SizeSets] /\ air' \subseteq AirOnes
             /\ \A q \in Pids \ {p} : ue'[q] = ue[q] /\ got'[q] = got[q] /\ heard'[q] = heard[q]
             /\ got'[p] = k /\ heard'[p] = S
  <2>1. Reply(p, t, "none") \in AirOnes
    BY DEF Reply, AirOnes
  <2>2. QED BY <1>1, <1>2, <2>1
<1>3. ASSUME NEW decoded \in BOOLEAN,
             ue' = [ue EXCEPT ![p] = NewGrantDl(ue[p], harq'[p], decoded)],
             air' = air \cup {Reply(p, t, AnswerOf(p, decoded))},
             heard' = [heard EXCEPT ![p] = S \cup {harq'[p].size}],
             got' = [got EXCEPT ![p] = Delivered(p, k, decoded)]
      PROVE  /\ ue' \in [Pids -> UeProc] /\ got' \in [Pids -> 0..2] /\ heard' \in [Pids -> SizeSets]
             /\ air' \subseteq AirOnes
             /\ \A q \in Pids \ {p} : ue'[q] = ue[q] /\ got'[q] = got[q] /\ heard'[q] = heard[q]
             /\ ue'[p] = NewGrantDl(ue[p], harq'[p], decoded)
             /\ got'[p] = Delivered(p, k, decoded)
             /\ heard'[p] = S \cup {harq'[p].size}
  <2>1. NewGrantDl(ue[p], harq'[p], decoded) \in UeProc
    BY <1>1, UeOps
  <2>2. Delivered(p, k, decoded) \in 0..2
    BY DEF Delivered
  <2>3. Reply(p, t, AnswerOf(p, decoded)) \in AirOnes
    BY DEF Reply, AnswerOf, AirOnes
  <2>4. S \cup {harq'[p].size} \in SizeSets
    BY DEF SizeSets, HarqProc
  <2>5. QED BY <1>1, <1>3, <2>1, <2>2, <2>3, <2>4
<1>4. \/ /\ DciMissed /\ ue' = ue /\ air' = air \cup {Reply(p, t, "none")}
         /\ got' = [got EXCEPT ![p] = k] /\ heard' = [heard EXCEPT ![p] = S]
      \/ \E decoded \in BOOLEAN :
           /\ ue' = [ue EXCEPT ![p] = NewGrantDl(ue[p], harq'[p], decoded)]
           /\ air' = air \cup {Reply(p, t, AnswerOf(p, decoded))}
           /\ heard' = [heard EXCEPT ![p] = S \cup {harq'[p].size}]
           /\ got' = [got EXCEPT ![p] = Delivered(p, k, decoded)]
  BY DEF Reach, Expect, Reply, AnswerOf, Delivered
<1>5. QED BY <1>1, <1>2, <1>3, <1>4

\* Where the stage of one worker changes, the TTIs in flight do not.
LEMMA WorkStep ==
  ASSUME NEW t \in DOMAIN work, NEW v, work' = [work EXCEPT ![t] = v]
  PROVE  DOMAIN work' = DOMAIN work /\ \A x \in DOMAIN work : work'[x] = IF x = t THEN v ELSE work[x]
OBVIOUS

\* The scheduling of a TTI keeps the types.
LEMMA ScheduleType ==
  ASSUME TypeOK, NEW t \in DOMAIN work, Schedule(t)
  PROVE  TypeOK'
<1> DEFINE x == Add(t, DlDelay)
<1>1. /\ x \in Ttis /\ work' = [work EXCEPT ![t] = "done"] /\ base' = base
      /\ \E hs \in [Pids -> HarqProc] :
           /\ Finish(hs, x)
           /\ \/ hs = harq /\ UNCHANGED <<ue, air, got, heard, odd>>
              \/ \E p \in Pids, s \in Sizes : Resends(p, s, x, hs) \/ Sends(p, s, x, hs)
  BY ScheduleCases
<1> HIDE DEF x
<1>2. PICK hs \in [Pids -> HarqProc] :
        /\ Finish(hs, x)
        /\ \/ hs = harq /\ UNCHANGED <<ue, air, got, heard, odd>>
           \/ \E p \in Pids, s \in Sizes : Resends(p, s, x, hs) \/ Sends(p, s, x, hs)
  BY <1>1
<1>3. /\ harq' \in [Pids -> HarqProc] /\ told' \in [Pids -> {"nothing", "acked", "dropped"}]
  BY <1>1, <1>2, FinishFacts DEF TypeOK
<1>4. DOMAIN work' = DOMAIN work /\ \A y \in DOMAIN work : work'[y] \in {"ul", "sched", "done"}
  BY <1>1, WorkStep DEF TypeOK
<1>5. /\ ue' \in [Pids -> UeProc] /\ got' \in [Pids -> 0..2] /\ heard' \in [Pids -> SizeSets]
      /\ air' \subseteq AirOnes /\ odd' \in [Pids -> BOOLEAN]
  <2>1. CASE UNCHANGED <<ue, air, got, heard, odd>>
    BY <2>1 DEF TypeOK, UeProc, AirOnes, SizeSets
  <2>2. ASSUME NEW p \in Pids, NEW s \in Sizes, Resends(p, s, x, hs) \/ Sends(p, s, x, hs)
        PROVE  /\ \E k \in 0..2, S \in SizeSets : Reach(p, x, k, S)
               /\ odd' \in [Pids -> BOOLEAN]
    <3>1. /\ got[p] \in 0..2 /\ 0 \in 0..2 /\ heard[p] \in SizeSets /\ {} \in SizeSets
          /\ odd \in [Pids -> BOOLEAN]
      BY DEF TypeOK, SizeSets
    <3>2. CASE Resends(p, s, x, hs)
      BY <3>1, <3>2 DEF Resends
    <3>3. CASE Sends(p, s, x, hs)
      <4>1. Reach(p, x, 0, {}) /\ odd' = [odd EXCEPT ![p] = heard[p] = {} /\ ~odd[p]]
        BY <3>3 DEF Sends
      <4>2. (heard[p] = {} /\ ~odd[p]) \in BOOLEAN
        OBVIOUS
      <4>3. QED BY <3>1, <4>1, <4>2
    <3>4. QED BY <2>2, <3>2, <3>3
  <2>3. QED BY <1>1, <1>2, <1>3, <2>1, <2>2, ReachFacts
<1>6. base' \in Ttis /\ DOMAIN work' \subseteq Ttis
  BY <1>1, <1>4 DEF TypeOK
<1>7. astray' \in BOOLEAN
  BY ScheduleCases
<1>8. QED BY <1>3, <1>4, <1>5, <1>6, <1>7 DEF TypeOK, HarqProc, UeProc, AirOnes, SizeSets

\* The report of a transmission is an ACK or not, whatever the UE answered.
LEMMA ReceiveFacts ==
  ASSUME NEW t \in DOMAIN work, NEW a \in Due(t), ReceiveUci(t, a)
  PROVE  \E ack \in BOOLEAN :
           harq' = [p \in Pids |-> IF p \in AckedProc(t) THEN SetAck(harq[p], ack) ELSE harq[p]]
<1>1. PICK bit \in Decoded(a.answer) : \E gate \in Gates(bit) :
        harq' = [p \in Pids |-> IF p \in AckedProc(t) THEN SetAck(harq[p], GetAck(bit, gate))
                                                     ELSE harq[p]]
  BY DEF ReceiveUci
<1>2. PICK gate \in Gates(bit) :
        harq' = [p \in Pids |-> IF p \in AckedProc(t) THEN SetAck(harq[p], GetAck(bit, gate))
                                                     ELSE harq[p]]
  BY <1>1
<1>3. bit \in BOOLEAN
  <2>1. (a.answer = "ACK") \in BOOLEAN
    OBVIOUS
  <2>2. QED BY <2>1 DEF Decoded
<1>4. GetAck(bit, gate) \in BOOLEAN
  BY <1>3 DEF GetAck
<1>5. QED BY <1>2, <1>4

\* Feedback, found or not, and the coming and going of workers keep the types.
LEMMA OtherType ==
  ASSUME TypeOK,
         \/ StartWorker \/ EndWorker
         \/ \E t \in DOMAIN work : NoUci(t) \/ \E a \in Due(t) : ReceiveUci(t, a)
  PROVE  TypeOK'
<1>1. CASE StartWorker
  <2> DEFINE n == Cardinality(DOMAIN work)
             t == Add(base, n)
  <2>1. t \in Ttis
    <3>1. IsFiniteSet(Ttis)
      BY Bounds, FS_Interval DEF Ttis
    <3>2. IsFiniteSet(DOMAIN work)
      BY <3>1, FS_Subset DEF TypeOK
    <3>3. n \in Nat /\ n < Workers
      BY <1>1, <3>2, FS_CardinalityType DEF StartWorker
    <3>4. n \in -TtiMod .. TtiMod
      BY <3>3, Bounds
    <3> HIDE DEF n
    <3>5. QED BY <3>4, AddCases DEF TypeOK
  <2> HIDE DEF t
  <2>2. /\ DOMAIN work' = DOMAIN work \cup {t}
        /\ \A y \in DOMAIN work' : work'[y] = IF y = t THEN "ul" ELSE work[y]
    BY <1>1 DEF StartWorker, t
  <2>3. QED BY <1>1, <2>1, <2>2 DEF StartWorker, hist, TypeOK
<1>2. CASE EndWorker
  <2>1. base' \in Ttis
    <3>1. 1 \in -TtiMod .. TtiMod /\ base \in Ttis
      BY Bounds DEF TypeOK
    <3>2. QED BY <1>2, <3>1, AddCases DEF EndWorker
  <2>2. DOMAIN work' = DOMAIN work \ {base} /\ \A t \in DOMAIN work' : work'[t] = work[t]
    BY <1>2 DEF EndWorker
  <2>3. QED BY <1>2, <2>1, <2>2 DEF EndWorker, hist, TypeOK
<1>3. ASSUME NEW t \in DOMAIN work, NoUci(t) PROVE TypeOK'
  <2>1. DOMAIN work' = DOMAIN work /\ \A y \in DOMAIN work : work'[y] \in {"ul", "sched", "done"}
    BY <1>3, WorkStep DEF NoUci, TypeOK
  <2>2. astray' \in BOOLEAN
    BY <1>3 DEF NoUci
  <2>3. UNCHANGED <<base, harq, ue, air, got, told, heard, odd>>
    BY <1>3 DEF NoUci, hist
  <2>4. QED BY <2>1, <2>2, <2>3 DEF TypeOK
<1>4. ASSUME NEW t \in DOMAIN work, NEW a \in Due(t), ReceiveUci(t, a) PROVE TypeOK'
  <2>1. DOMAIN work' = DOMAIN work /\ \A y \in DOMAIN work : work'[y] \in {"ul", "sched", "done"}
    BY <1>4, WorkStep DEF ReceiveUci, TypeOK
  <2>2. PICK ack \in BOOLEAN :
          harq' = [p \in Pids |-> IF p \in AckedProc(t) THEN SetAck(harq[p], ack) ELSE harq[p]]
    BY <1>4, ReceiveFacts
  <2>3. harq' \in [Pids -> HarqProc]
    <3>1. \A p \in Pids : SetAck(harq[p], ack) \in HarqProc
      <4>1. TAKE p \in Pids
      <4>2. harq[p] \in HarqProc
        BY DEF TypeOK, HarqProc
      <4>3. QED BY <4>2, SetAckFacts
    <3>2. QED BY <2>2, <3>1 DEF TypeOK, HarqProc
  <2>4. told' \in [Pids -> {"nothing", "acked", "dropped"}]
    BY <1>4 DEF ReceiveUci, Ended, TypeOK
  <2>5. astray' \in BOOLEAN /\ air' \subseteq air /\ UNCHANGED <<base, ue, got, heard, odd>>
    BY <1>4 DEF ReceiveUci
  <2>6. QED BY <2>1, <2>3, <2>4, <2>5 DEF TypeOK, HarqProc
<1>5. QED BY <1>1, <1>2, <1>3, <1>4

LEMMA InitType == Init => TypeOK
<1> SUFFICES ASSUME Init PROVE TypeOK
  OBVIOUS
<1>1. 0 \in Ttis /\ 0 \in 0..NofRtx /\ 0 \in 0..DupTimeout + 1 /\ 0 \in 0..2
  BY RtxBound, Bounds, HarqAssumption DEF Ttis
<1>2. DOMAIN work = {}
  BY DEF Init
<1>3. FreshHarq \in HarqProc
  BY <1>1 DEF FreshHarq, HarqProc
<1>4. FreshUe \in UeProc
  BY <1>1 DEF FreshUe, UeProc
<1>5. harq \in [Pids -> HarqProc] /\ ue \in [Pids -> UeProc]
  BY <1>3, <1>4 DEF Init
<1>6. /\ got \in [Pids -> 0..2] /\ told \in [Pids -> {"nothing", "acked", "dropped"}]
      /\ heard \in [Pids -> SUBSET (Sizes \cup {0})] /\ odd \in [Pids -> BOOLEAN]
  BY <1>1 DEF Init
<1>7. QED BY <1>2, <1>5, <1>6 DEF Init, TypeOK, HarqProc, UeProc

-----------------------------------------------------------------------------
(***************************************************************************)
(* Times, action by action.                                                *)
(***************************************************************************)
\* The workers in flight are those of base, base + 1, ...
LEMMA FlightFacts ==
  ASSUME base \in Ttis, Flight
  PROVE  \E n \in 0..Workers :
           /\ DOMAIN work = {At(i) : i \in 0 .. n - 1} /\ Cardinality(DOMAIN work) = n
           /\ \A j \in Near : At(j) \in DOMAIN work <=> j \in 0 .. n - 1
           /\ 0 .. n - 1 \subseteq 0 .. Workers - 1 /\ 0 .. Workers - 1 \subseteq Near
<1>1. PICK n \in 0..Workers : DOMAIN work = {At(i) : i \in 0 .. n - 1}
  BY DEF Flight
<1>2. 0 .. n - 1 \subseteq 0 .. Workers - 1 /\ 0 .. Workers - 1 \subseteq Near /\ n \in Nat
  BY Bounds DEF Near
<1>3. \A j \in Near : At(j) \in DOMAIN work <=> j \in 0 .. n - 1
  BY <1>1, <1>2, SlotFacts
<1> DEFINE f == [i \in 1..n |-> At(i - 1)]
<1>4. f \in [1..n -> DOMAIN work]
  <2>1. \A i \in 1..n : i - 1 \in 0 .. n - 1
    BY <1>2
  <2>2. \A i \in 1..n : At(i - 1) \in DOMAIN work
    BY <1>1, <2>1
  <2>3. QED BY <2>2
<1>5. \A i, j \in 1..n : f[i] = f[j] => i = j
  <2>1. TAKE i, j \in 1..n
  <2>2. i - 1 \in Near /\ j - 1 \in Near
    BY <1>2
  <2>3. At(i - 1) = At(j - 1) => i - 1 = j - 1
    BY <2>2, SlotFacts
  <2>4. i \in Int /\ j \in Int
    OBVIOUS
  <2>5. QED BY <2>3, <2>4
<1>6. \A t \in DOMAIN work : \E i \in 1..n : f[i] = t
  <2>1. TAKE t \in DOMAIN work
  <2>2. PICK j \in 0 .. n - 1 : t = At(j)
    BY <1>1
  <2>3. j + 1 \in 1..n /\ (j + 1) - 1 = j
    BY <1>2
  <2>4. QED BY <2>2, <2>3
<1> HIDE DEF f
<1>7. f \in Bijection(1..n, DOMAIN work)
  BY <1>4, <1>5, <1>6, Fun_IsBij
<1>8. ExistsBijection(1..n, DOMAIN work)
  BY <1>7, Fun_ExistsBij
<1>9. Cardinality(DOMAIN work) = n
  BY <1>2, <1>8, FS_CountingElements
<1>10. QED BY <1>1, <1>2, <1>3, <1>9

\* The TTI of the oldest worker is at distance 0.
LEMMA AtZero == base \in Ttis => At(0) = base /\ 0 \in Near
<1> SUFFICES ASSUME base \in Ttis PROVE At(0) = base /\ 0 \in Near
  OBVIOUS
<1>1. 0 \in -TtiMod .. TtiMod
  BY Bounds
<1>2. At(0) \in Ttis /\ At(0) \in {base + 0, base + 0 - TtiMod, base + 0 + TtiMod}
  BY <1>1, AddCases DEF At
<1>3. QED BY <1>2, Bounds DEF Ttis, Near

\* Slots of the air, and of processes, are near.
LEMMA NearSlots ==
  /\ -Rtt .. Workers - 1 \subseteq Near /\ -OldAge - 1 .. Workers - 1 \subseteq Near
  /\ \A j \in -Rtt .. Workers - 1 : j + Rtt \in Near /\ j \in Int
  /\ \A j \in Near : j >= -Rtt /\ j <= Workers - 1 => j \in -Rtt .. Workers - 1
BY Bounds DEF Near

LEMMA InitTimes == Init => Times
<1> SUFFICES ASSUME Init PROVE Times
  OBVIOUS
<1>1. TypeOK
  BY InitType
<1>2. Flight
  <2>1. DOMAIN work = {} /\ 0 .. 0 - 1 = {} /\ 0 \in 0..Workers
    BY Bounds DEF Init
  <2>2. QED BY <2>1 DEF Flight
<1>3. AirSlots /\ HarqSlots /\ OnePerTti
  BY DEF Init, FreshHarq, AirSlots, HarqSlots, OnePerTti
<1>4. QED BY <1>1, <1>2, <1>3 DEF Times

\* A worker begins: nothing is scheduled by that.
LEMMA StartTimes == Times /\ StartWorker => Times'
<1> SUFFICES ASSUME Times, StartWorker PROVE Times'
  OBVIOUS
<1>1. TypeOK'
  BY OtherType DEF Times
<1>2. base' = base /\ harq' = harq /\ air' = air /\ base \in Ttis
  BY DEF StartWorker, Times, TypeOK
<1>3. \A j : At(j)' = At(j) /\ Slot(j)' = Slot(j)
  BY <1>2 DEF At, Slot
<1>4. PICK n \in 0..Workers :
        /\ DOMAIN work = {At(i) : i \in 0 .. n - 1} /\ Cardinality(DOMAIN work) = n
        /\ \A j \in Near : At(j) \in DOMAIN work <=> j \in 0 .. n - 1
        /\ 0 .. n - 1 \subseteq 0 .. Workers - 1 /\ 0 .. Workers - 1 \subseteq Near
  BY <1>2, FlightFacts DEF Times
<1>5. n < Workers /\ n \in Nat /\ Workers \in Nat
  BY <1>4, Bounds DEF StartWorker
<1>6. /\ DOMAIN work' = DOMAIN work \cup {At(n)}
      /\ \A t \in DOMAIN work' : work'[t] = IF t = At(n) THEN "ul" ELSE work[t]
  BY <1>4 DEF StartWorker, At
<1>7. At(n) \notin DOMAIN work
  <2>1. n \in Near /\ n \notin 0 .. n - 1
    BY <1>4, <1>5
  <2>2. QED BY <1>4, <2>1
<1>8. Flight'
  <2>1. 0 .. (n + 1) - 1 = (0 .. n - 1) \cup {n} /\ n + 1 \in 0..Workers
    BY <1>5
  <2>2. {At(i) : i \in 0 .. (n + 1) - 1} = {At(i) : i \in 0 .. n - 1} \cup {At(n)}
    BY <2>1
  <2>3. DOMAIN work' = {At(i) : i \in 0 .. (n + 1) - 1}
    BY <1>4, <1>6, <2>2
  <2>4. DOMAIN work' = {At(i)' : i \in 0 .. (n + 1) - 1}
    BY <1>3, <2>3
  <2>5. QED BY <2>1, <2>4 DEF Flight
<1>9. \A j : Scheduled(j) => Scheduled(j)'
  BY <1>3, <1>6, <1>7 DEF Scheduled
<1>10. \A j : Open(j) => Open(j)'
  BY <1>3, <1>6 DEF Open
<1>11. AirSlots'
  BY <1>2, <1>3, <1>9, <1>10 DEF Times, AirSlots
<1>12. HarqSlots'
  <2>1. \A i : At(i)' \in DOMAIN work' /\ work'[At(i)'] = "done" =>
                 At(i) \in DOMAIN work /\ work[At(i)] = "done"
    BY <1>3, <1>6
  <2>2. QED BY <1>2, <1>3, <1>9, <2>1 DEF Times, HarqSlots
<1>13. OnePerTti'
  BY <1>2 DEF Times, OnePerTti
<1>14. QED BY <1>1, <1>8, <1>11, <1>12, <1>13 DEF Times

\* A worker ends: base moves on, and with it every distance.
LEMMA EndTimes == Times /\ EndWorker => Times'
<1> SUFFICES ASSUME Times, EndWorker PROVE Times'
  OBVIOUS
<1>1. TypeOK'
  BY OtherType DEF Times
<1>2. /\ base' = Add(base, 1) /\ harq' = harq /\ air' = air /\ base \in Ttis
      /\ base \in DOMAIN work /\ work[base] = "done"
      /\ DOMAIN work' = DOMAIN work \ {base} /\ \A t \in DOMAIN work' : work'[t] = work[t]
  BY DEF EndWorker, Times, TypeOK
<1>3. PICK n \in 0..Workers :
        /\ DOMAIN work = {At(i) : i \in 0 .. n - 1} /\ Cardinality(DOMAIN work) = n
        /\ \A j \in Near : At(j) \in DOMAIN work <=> j \in 0 .. n - 1
        /\ 0 .. n - 1 \subseteq 0 .. Workers - 1 /\ 0 .. Workers - 1 \subseteq Near
  BY <1>2, FlightFacts DEF Times
<1>4. At(0) = base /\ 0 \in Near /\ n \in Nat /\ n >= 1
  <2>1. At(0) = base /\ 0 \in Near
    BY <1>2, AtZero
  <2>2. 0 \in 0 .. n - 1
    BY <1>2, <1>3, <2>1
  <2>3. QED BY <2>1, <2>2
<1>5. \A j \in Near : j - 1 \in Near => At(j - 1)' = At(j) /\ Slot(j - 1)' = Slot(j)
  BY <1>2, SlotShift
<1>6. \A j \in Near : j # 0 => At(j) # base
  BY <1>2, <1>4, SlotFacts
<1>7. Flight'
  <2>1. n - 1 \in 0..Workers
    BY <1>4, Bounds
  <2>2. \A i \in 0 .. (n - 1) - 1 : i + 1 \in 0 .. n - 1 /\ i + 1 # 0 /\ At(i)' = At(i + 1)
    <3>1. TAKE i \in 0 .. (n - 1) - 1
    <3>2. i + 1 \in 0 .. n - 1 /\ i + 1 # 0 /\ i \in 0 .. n - 1 /\ (i + 1) - 1 = i
      BY <1>4
    <3>3. i \in Near /\ i + 1 \in Near
      BY <1>3, <3>2
    <3>4. QED BY <1>5, <3>2, <3>3
  <2>3. {At(i)' : i \in 0 .. (n - 1) - 1} \subseteq DOMAIN work'
    <3>1. ASSUME NEW i \in 0 .. (n - 1) - 1 PROVE At(i)' \in DOMAIN work'
      <4>1. At(i + 1) \in DOMAIN work /\ i + 1 \in Near
        BY <1>3, <2>2
      <4>2. At(i + 1) # base
        BY <1>6, <2>2, <4>1
      <4>3. QED BY <1>2, <2>2, <4>1, <4>2
    <3>2. QED BY <3>1
  <2>4. ASSUME NEW t \in DOMAIN work' PROVE t \in {At(i)' : i \in 0 .. (n - 1) - 1}
    <3>1. PICK k \in 0 .. n - 1 : t = At(k)
      BY <1>2, <1>3
    <3>2. k # 0
      BY <1>2, <1>4, <3>1
    <3>3. k - 1 \in 0 .. (n - 1) - 1 /\ (k - 1) + 1 = k
      BY <1>4, <3>2
    <3>4. t = At(k - 1)'
      BY <2>2, <3>1, <3>3
    <3>5. QED BY <3>3, <3>4
  <2>5. DOMAIN work' = {At(i)' : i \in 0 .. (n - 1) - 1}
    BY <2>3, <2>4
  <2>6. QED BY <2>1, <2>5 DEF Flight
<1>8. ASSUME NEW j \in -OldAge .. Workers - 1, Scheduled(j)
      PROVE  Slot(j - 1)' = Slot(j) /\ Scheduled(j - 1)'
  <2>1. j \in Near /\ j - 1 \in Near /\ j \in Int
    BY Bounds DEF Near
  <2>2. CASE j <= 0
    BY <1>5, <2>1, <2>2 DEF Scheduled
  <2>3. CASE j > 0
    <3>1. At(j) \in DOMAIN work /\ work[At(j)] = "done" /\ At(j) # base
      BY <1>6, <1>8, <2>1, <2>3 DEF Scheduled
    <3>2. QED BY <1>2, <1>5, <2>1, <3>1 DEF Scheduled
  <2>4. QED BY <2>1, <2>2, <2>3
<1>9. AirSlots'
  <2> SUFFICES ASSUME NEW a \in air
               PROVE  \E j \in -Rtt .. Workers - 1 :
                        a.tti = Slot(j)' /\ Scheduled(j)' /\ Open(j + Rtt)'
    BY <1>2 DEF AirSlots
  <2>1. PICK j \in -Rtt .. Workers - 1 : a.tti = Slot(j) /\ Scheduled(j) /\ Open(j + Rtt)
    BY DEF Times, AirSlots
  <2>2. j # -Rtt
    <3>1. ASSUME j = -Rtt PROVE FALSE
      <4>1. j + Rtt = 0
        BY <3>1, Bounds
      <4>2. Open(0)
        BY <2>1, <4>1
      <4>3. QED BY <1>2, <1>4, <4>2 DEF Open
    <3>2. QED BY <3>1
  <2>3. /\ j - 1 \in -Rtt .. Workers - 1 /\ j \in -OldAge .. Workers - 1 /\ j \in Near
        /\ j + Rtt \in Near /\ (j + Rtt) - 1 \in Near /\ (j - 1) + Rtt = (j + Rtt) - 1
    BY <2>2, Bounds DEF Near
  <2>4. At((j - 1) + Rtt)' = At(j + Rtt)
    BY <1>5, <2>3
  <2>5. Open((j - 1) + Rtt)'
    BY <1>2, <2>1, <2>4 DEF Open
  <2>6. QED BY <1>8, <2>1, <2>3, <2>5
<1>10. HarqSlots'
  <2> SUFFICES ASSUME NEW p \in Pids, harq[p].active
               PROVE  \E j \in -OldAge - 1 .. Workers - 1 :
                        /\ harq[p].tti = Slot(j)' /\ Scheduled(j)'
                        /\ \A i \in 0 .. Workers - 1 :
                             At(i)' \in DOMAIN work' /\ work'[At(i)'] = "done" => i <= j + OldAge
    BY <1>2 DEF HarqSlots
  <2>1. PICK j \in -OldAge - 1 .. Workers - 1 :
          /\ harq[p].tti = Slot(j) /\ Scheduled(j)
          /\ \A i \in 0 .. Workers - 1 :
               At(i) \in DOMAIN work /\ work[At(i)] = "done" => i <= j + OldAge
    BY DEF Times, HarqSlots
  <2>2. 0 <= j + OldAge
    <3>1. 0 \in 0 .. Workers - 1
      BY Bounds
    <3>2. QED BY <1>2, <1>4, <2>1, <3>1
  <2>3. j \in -OldAge .. Workers - 1 /\ j - 1 \in -OldAge - 1 .. Workers - 1
    BY <2>2, Bounds
  <2>4. ASSUME NEW i \in 0 .. Workers - 1, At(i)' \in DOMAIN work', work'[At(i)'] = "done"
        PROVE  i <= (j - 1) + OldAge
    <3>1. i \in Near /\ i + 1 \in Near /\ (i + 1) - 1 = i
      BY Bounds DEF Near
    <3>2. At(i)' = At(i + 1)
      BY <1>5, <3>1
    <3>3. At(i + 1) \in DOMAIN work /\ work[At(i + 1)] = "done"
      BY <1>2, <2>4, <3>2
    <3>4. i + 1 \in 0 .. Workers - 1
      BY <1>3, <3>1, <3>3
    <3>5. i + 1 <= j + OldAge
      BY <2>1, <3>3, <3>4
    <3>6. QED BY <3>5, Bounds
  <2>5. QED BY <1>8, <2>1, <2>3, <2>4
<1>11. OnePerTti'
  BY <1>2 DEF Times, OnePerTti
<1>12. QED BY <1>1, <1>7, <1>9, <1>10, <1>11 DEF Times

\* Two transmissions whose feedback is due in one TTI were sent in one TTI.
LEMMA DueFacts ==
  ASSUME Times, NEW a \in air, NEW j \in -Rtt .. Workers - 1, a.tti = Slot(j)
  PROVE  /\ a \in Due(At(j + Rtt))
         /\ \A b \in Due(At(j + Rtt)) : b = a
         /\ \A x \in Ttis : Add(x, UlDelay) = At(j + Rtt) => x = a.tti
<1>1. base \in Ttis /\ j \in Near /\ j + Rtt \in Near
  BY NearSlots DEF Times, TypeOK
<1>2. Add(a.tti, UlDelay) = At(j + Rtt)
  BY <1>1, SlotWays
<1>3. a \in Due(At(j + Rtt))
  BY <1>2 DEF Due
<1>4. ASSUME NEW x \in Ttis, Add(x, UlDelay) = At(j + Rtt) PROVE x = a.tti
  <2>1. a.tti \in Ttis
    BY DEF Times, TypeOK
  <2>2. UlDelay \in -TtiMod .. TtiMod
    BY Bounds
  <2>3. /\ Add(x, UlDelay) \in {x + UlDelay, x + UlDelay - TtiMod, x + UlDelay + TtiMod}
        /\ Add(a.tti, UlDelay) \in {a.tti + UlDelay, a.tti + UlDelay - TtiMod, a.tti + UlDelay + TtiMod}
    BY <2>1, <2>2, AddCases
  <2> DEFINE y == a.tti
  <2>4. y \in Ttis /\ Add(x, UlDelay) = Add(y, UlDelay)
    BY <1>2, <1>4, <2>1
  <2>5. Add(y, UlDelay) \in {y + UlDelay, y + UlDelay - TtiMod, y + UlDelay + TtiMod}
    BY <2>3
  <2> HIDE DEF y
  <2>6. x = y
    BY <2>3, <2>4, <2>5, Bounds DEF Ttis
  <2>7. QED BY <2>6 DEF y
<1>5. \A b \in Due(At(j + Rtt)) : b = a
  <2>1. TAKE b \in Due(At(j + Rtt))
  <2>2. b \in air /\ b.tti \in Ttis /\ Add(b.tti, UlDelay) = At(j + Rtt)
    BY DEF Due, Times, TypeOK
  <2>3. b.tti = a.tti
    BY <1>4, <2>2
  <2>4. QED BY <2>2, <2>3 DEF Times, OnePerTti
<1>6. QED BY <1>3, <1>4, <1>5

\* A worker has looked for the feedback of its TTI.
LEMMA UciTimes ==
  ASSUME Times, NEW t \in DOMAIN work, work[t] = "ul", work' = [work EXCEPT ![t] = "sched"],
         base' = base, air' \subseteq air, air' \cap Due(t) = {}, TypeOK',
         \A p \in Pids : harq'[p].active => harq[p].active /\ harq'[p].tti = harq[p].tti
  PROVE  Times'
<1>1. \A j : At(j)' = At(j) /\ Slot(j)' = Slot(j)
  BY DEF At, Slot
<1>2. /\ DOMAIN work' = DOMAIN work
      /\ \A x \in DOMAIN work : work'[x] = IF x = t THEN "sched" ELSE work[x]
  BY WorkStep
<1>3. Flight'
  BY <1>1, <1>2 DEF Times, Flight
<1>4. \A j : Scheduled(j) => Scheduled(j)'
  BY <1>1, <1>2 DEF Scheduled
<1>5. AirSlots'
  <2> SUFFICES ASSUME NEW a \in air'
               PROVE  \E j \in -Rtt .. Workers - 1 :
                        a.tti = Slot(j)' /\ Scheduled(j)' /\ Open(j + Rtt)'
    BY DEF AirSlots
  <2>1. PICK j \in -Rtt .. Workers - 1 : a.tti = Slot(j) /\ Scheduled(j) /\ Open(j + Rtt)
    BY DEF Times, AirSlots
  <2>2. At(j + Rtt) # t
    BY <2>1, DueFacts
  <2>3. Open(j + Rtt)'
    BY <1>1, <1>2, <2>1, <2>2 DEF Open
  <2>4. QED BY <1>1, <1>4, <2>1, <2>3
<1>6. HarqSlots'
  <2>1. \A i : At(i)' \in DOMAIN work' /\ work'[At(i)'] = "done" =>
                 At(i) \in DOMAIN work /\ work[At(i)] = "done"
    BY <1>1, <1>2
  <2>2. QED BY <1>1, <1>4, <2>1 DEF Times, HarqSlots
<1>7. OnePerTti'
  BY DEF Times, OnePerTti
<1>8. QED BY <1>3, <1>5, <1>6, <1>7 DEF Times

\* What set_ack_info does to a process, whichever it is.
LEMMA AckOnly ==
  ASSUME TypeOK, NEW t \in DOMAIN work, NEW a \in Due(t), ReceiveUci(t, a), NEW p \in Pids
  PROVE  /\ harq[p] \in HarqProc
         /\ p \notin AckedProc(t) => harq'[p] = harq[p]
         /\ p \in AckedProc(t) => Add(harq[p].tti, UlDelay) = t
         /\ harq'[p].active => harq[p].active
         /\ harq'[p].tti = harq[p].tti /\ harq'[p].n_rtx = harq[p].n_rtx
         /\ harq'[p].ndi = harq[p].ndi /\ harq'[p].size = harq[p].size
<1>1. harq[p] \in HarqProc /\ base \in Ttis
  BY DEF TypeOK, HarqProc
<1>2. PICK ack \in BOOLEAN :
        harq' = [q \in Pids |-> IF q \in AckedProc(t) THEN SetAck(harq[q], ack) ELSE harq[q]]
  BY ReceiveFacts
<1>3. harq'[p] = IF p \in AckedProc(t) THEN SetAck(harq[p], ack) ELSE harq[p]
  BY <1>2
<1>4. LET h == SetAck(harq[p], ack)
      IN (h.active => harq[p].active) /\ h.tti = harq[p].tti /\ h.n_rtx = harq[p].n_rtx
         /\ h.ndi = harq[p].ndi /\ h.size = harq[p].size
  BY <1>1, <1>2, SetAckFacts
<1>5. p \in AckedProc(t) => Add(harq[p].tti, UlDelay) = t
  <2>1. {q \in Pids : Add(harq[q].tti, UlDelay) = t} \in SUBSET Pids
    OBVIOUS
  <2>2. QED BY <2>1, FirstFacts DEF AckedProc
<1>6. QED BY <1>1, <1>3, <1>4, <1>5

LEMMA ReceiveTimes ==
  ASSUME Times, NEW t \in DOMAIN work, NEW a \in Due(t), ReceiveUci(t, a)
  PROVE  Times'
<1>1. TypeOK'
  BY OtherType DEF Times
<1>2. /\ work[t] = "ul" /\ work' = [work EXCEPT ![t] = "sched"] /\ base' = base
      /\ air' = air \ {a} /\ a \in air /\ Add(a.tti, UlDelay) = t
  BY DEF ReceiveUci, Due
<1>3. air' \cap Due(t) = {}
  <2>1. PICK j \in -Rtt .. Workers - 1 : a.tti = Slot(j)
    BY <1>2 DEF Times, AirSlots
  <2>2. At(j + Rtt) = t
    BY <1>2, <2>1, DueFacts DEF Due
  <2>3. \A b \in Due(t) : b = a
    BY <1>2, <2>1, <2>2, DueFacts
  <2>4. QED BY <1>2, <2>3
<1>4. \A p \in Pids : harq'[p].active => harq[p].active /\ harq'[p].tti = harq[p].tti
  BY AckOnly DEF Times
<1>5. QED BY <1>1, <1>2, <1>3, <1>4, UciTimes

LEMMA NoUciTimes ==
  ASSUME Times, NEW t \in DOMAIN work, NoUci(t)
  PROVE  Times'
<1>1. TypeOK'
  BY OtherType DEF Times
<1>2. /\ work[t] = "ul" /\ work' = [work EXCEPT ![t] = "sched"] /\ base' = base
      /\ air' = air /\ Due(t) = {} /\ harq' = harq
  BY DEF NoUci
<1>3. QED BY <1>1, <1>2, UciTimes

\* A TTI that is being scheduled transmits in a slot that nothing was sent in, and
\* the worker that will look for the feedback has not begun.
LEMMA FreshSlot ==
  ASSUME Times, NEW t \in DOMAIN work, work[t] = "sched"
  PROVE  \E i \in 0 .. Workers - 1 :
           /\ t = At(i) /\ Add(t, DlDelay) = Slot(i) /\ i \in Near /\ i + Rtt \in Near
           /\ At(i + Rtt) \notin DOMAIN work
           /\ \A a \in air : a.tti # Slot(i)
           /\ \A p \in Pids : harq[p].active => harq[p].tti # Slot(i)
<1>1. base \in Ttis
  BY DEF Times, TypeOK
<1>2. PICK n \in 0..Workers :
        /\ DOMAIN work = {At(i) : i \in 0 .. n - 1} /\ Cardinality(DOMAIN work) = n
        /\ \A j \in Near : At(j) \in DOMAIN work <=> j \in 0 .. n - 1
        /\ 0 .. n - 1 \subseteq 0 .. Workers - 1 /\ 0 .. Workers - 1 \subseteq Near
  BY <1>1, FlightFacts DEF Times
<1>3. PICK i \in 0 .. n - 1 : t = At(i)
  BY <1>2
<1>4. i \in 0 .. Workers - 1 /\ i \in Near /\ i + Rtt \in Near /\ i + Rtt \notin 0 .. n - 1
  BY <1>2, Bounds DEF Near
<1>5. At(i + Rtt) \notin DOMAIN work
  BY <1>2, <1>4
<1>6. ~Scheduled(i)
  BY <1>3, <1>4 DEF Scheduled
<1>7. \A a \in air : a.tti # Slot(i)
  <2>1. TAKE a \in air
  <2>2. PICK j \in -Rtt .. Workers - 1 : a.tti = Slot(j) /\ Scheduled(j)
    BY DEF Times, AirSlots
  <2>3. j \in Near /\ j # i
    BY <1>6, <2>2, NearSlots
  <2>4. QED BY <1>1, <1>4, <2>2, <2>3, SlotFacts
<1>8. \A p \in Pids : harq[p].active => harq[p].tti # Slot(i)
  <2>1. SUFFICES ASSUME NEW p \in Pids, harq[p].active PROVE harq[p].tti # Slot(i)
    OBVIOUS
  <2>2. PICK j \in -OldAge - 1 .. Workers - 1 : harq[p].tti = Slot(j) /\ Scheduled(j)
    BY <2>1 DEF Times, HarqSlots
  <2>3. j \in Near /\ j # i
    BY <1>6, <2>2, NearSlots
  <2>4. QED BY <1>1, <1>4, <2>2, <2>3, SlotFacts
<1>9. Add(t, DlDelay) = Slot(i)
  BY <1>1, <1>3, <1>4, SlotWays
<1>10. QED BY <1>3, <1>4, <1>5, <1>7, <1>8, <1>9

\* What a scheduling in slot i does to the processes and to the air: at most one
\* process, p, has sent, and the processes that are left were not too old.
Kept(q, i) == /\ harq[q].active /\ harq'[q] = harq[q]
              /\ ~TooOld(harq[q], Slot(i))
LEMMA ScheduleFacts ==
  ASSUME Times, NEW t \in DOMAIN work, Schedule(t)
  PROVE  \E i \in 0 .. Workers - 1, p \in Pids :
           /\ t = At(i) /\ i \in Near /\ i + Rtt \in Near /\ At(i + Rtt) \notin DOMAIN work
           /\ \A a \in air : a.tti # Slot(i)
           /\ \A q \in Pids : harq[q].active => harq[q].tti # Slot(i)
           /\ work' = [work EXCEPT ![t] = "done"] /\ base' = base
           /\ \A q \in Pids : harq'[q].active => Kept(q, i) \/ (q = p /\ harq'[q].tti = Slot(i))
           /\ air' = air \/ \E a : a.tti = Slot(i) /\ a.pid = p /\ air' = air \cup {a}
<1>1. /\ TypeOK /\ harq \in [Pids -> HarqProc] /\ got \in [Pids -> 0..2]
      /\ told \in [Pids -> {"nothing", "acked", "dropped"}]
  BY DEF Times, TypeOK, HarqProc
<1>2. /\ Add(t, DlDelay) \in Ttis /\ work[t] = "sched"
      /\ work' = [work EXCEPT ![t] = "done"] /\ base' = base
      /\ \E hs \in [Pids -> HarqProc] :
           /\ Finish(hs, Add(t, DlDelay))
           /\ \/ hs = harq /\ UNCHANGED <<ue, air, got, heard, odd>>
              \/ \E p \in Pids, s \in Sizes :
                   Resends(p, s, Add(t, DlDelay), hs) \/ Sends(p, s, Add(t, DlDelay), hs)
  BY <1>1, ScheduleCases
<1>3. PICK i \in 0 .. Workers - 1 :
        /\ t = At(i) /\ Add(t, DlDelay) = Slot(i) /\ i \in Near /\ i + Rtt \in Near
        /\ At(i + Rtt) \notin DOMAIN work
        /\ \A a \in air : a.tti # Slot(i)
        /\ \A p \in Pids : harq[p].active => harq[p].tti # Slot(i)
  BY <1>2, FreshSlot
<1>4. PICK hs \in [Pids -> HarqProc] :
        /\ Finish(hs, Slot(i))
        /\ \/ hs = harq /\ UNCHANGED <<ue, air, got, heard, odd>>
           \/ \E p \in Pids, s \in Sizes : Resends(p, s, Slot(i), hs) \/ Sends(p, s, Slot(i), hs)
  BY <1>2, <1>3
<1>5. /\ Slot(i) \in Ttis /\ harq' \in [Pids -> HarqProc]
      /\ \A q \in Pids : harq'[q].active => harq'[q] = hs[q] /\ ~TooOld(hs[q], Slot(i))
  BY <1>1, <1>2, <1>3, <1>4, FinishFacts
<1>6. CASE hs = harq /\ air' = air
  <2>1. \A q \in Pids : harq'[q].active => Kept(q, i)
    BY <1>5, <1>6 DEF Kept
  <2>2. QED BY <1>2, <1>3, <1>6, <2>1, HarqAssumption
<1>7. ASSUME NEW p \in Pids, NEW s \in Sizes,
             Resends(p, s, Slot(i), hs) \/ Sends(p, s, Slot(i), hs)
      PROVE  /\ \A q \in Pids : harq'[q].active => Kept(q, i) \/ (q = p /\ harq'[q].tti = Slot(i))
             /\ air' = air \/ \E a : a.tti = Slot(i) /\ a.pid = p /\ air' = air \cup {a}
  <2>1. NewRetx(harq[p], Slot(i), s).tti = Slot(i) /\ NewTx(harq[p], Slot(i), s).tti = Slot(i)
    <3> DEFINE x == Slot(i)
               h == harq[p]
    <3>1. x \in Ttis /\ h \in HarqProc
      BY <1>1, <1>5
    <3> HIDE DEF x, h
    <3>2. NewRetx(h, x, s).tti = x /\ NewTx(h, x, s).tti = x
      BY <3>1, NewTxFacts, NewRetxFacts
    <3>3. QED BY <3>2 DEF x, h
  <2>2. \A q \in Pids : IF q = p THEN hs[q].tti = Slot(i) ELSE hs[q] = harq[q]
    BY <1>1, <1>7, <2>1 DEF Resends, Sends
  <2>3. \A q \in Pids : harq'[q].active => Kept(q, i) \/ (q = p /\ harq'[q].tti = Slot(i))
    BY <1>5, <2>2 DEF Kept
  <2>4. \E k \in 0..2, S \in SizeSets : Reach(p, Slot(i), k, S)
    <3>1. {} \in SizeSets /\ heard[p] \in SizeSets /\ got[p] \in 0..2
      BY <1>1 DEF TypeOK, SizeSets
    <3>2. QED BY <1>7, <3>1 DEF Resends, Sends
  <2>5. \E answer : air' = air \cup {Reply(p, Slot(i), answer)}
    <3>1. PICK k \in 0..2, S \in SizeSets : Reach(p, Slot(i), k, S)
      BY <2>4
    <3>2. \/ air' = air \cup {Reply(p, Slot(i), "none")}
          \/ \E decoded \in BOOLEAN : air' = air \cup {Reply(p, Slot(i), AnswerOf(p, decoded))}
      BY <1>1, <1>5, <3>1, ReachFacts
    <3>3. QED BY <3>2
  <2>6. \A answer : LET a == Reply(p, Slot(i), answer) IN a.tti = Slot(i) /\ a.pid = p
    BY DEF Reply
  <2>7. QED BY <2>3, <2>5, <2>6
<1>8. QED BY <1>2, <1>3, <1>4, <1>6, <1>7

LEMMA ScheduleTimes ==
  ASSUME Times, NEW t \in DOMAIN work, Schedule(t)
  PROVE  Times'
<1>1. TypeOK'
  BY ScheduleType DEF Times
<1>2. PICK i \in 0 .. Workers - 1, p \in Pids :
        /\ t = At(i) /\ i \in Near /\ i + Rtt \in Near /\ At(i + Rtt) \notin DOMAIN work
        /\ \A a \in air : a.tti # Slot(i)
        /\ \A q \in Pids : harq[q].active => harq[q].tti # Slot(i)
        /\ work' = [work EXCEPT ![t] = "done"] /\ base' = base
        /\ \A q \in Pids : harq'[q].active => Kept(q, i) \/ (q = p /\ harq'[q].tti = Slot(i))
        /\ air' = air \/ \E a : a.tti = Slot(i) /\ a.pid = p /\ air' = air \cup {a}
  BY ScheduleFacts
<1>3. \A j : At(j)' = At(j) /\ Slot(j)' = Slot(j)
  BY <1>2 DEF At, Slot
<1>4. /\ DOMAIN work' = DOMAIN work /\ base \in Ttis
      /\ \A x \in DOMAIN work : work'[x] = IF x = t THEN "done" ELSE work[x]
  BY <1>2, WorkStep DEF Times, TypeOK
<1>5. work[t] = "sched"
  BY ScheduleCases DEF Times
<1>6. Flight'
  BY <1>3, <1>4 DEF Times, Flight
<1>7. \A j : Scheduled(j) => Scheduled(j)'
  BY <1>3, <1>4 DEF Scheduled
<1>8. Scheduled(i)'
  BY <1>2, <1>3, <1>4 DEF Scheduled
<1>9. \A j : Open(j) => Open(j)'
  BY <1>3, <1>4, <1>5 DEF Open
<1>10. i \in -Rtt .. Workers - 1 /\ i \in -OldAge - 1 .. Workers - 1 /\ i \in Int
  BY Bounds
<1>11. AirSlots'
  <2> SUFFICES ASSUME NEW a \in air'
               PROVE  \E j \in -Rtt .. Workers - 1 :
                        a.tti = Slot(j)' /\ Scheduled(j)' /\ Open(j + Rtt)'
    BY DEF AirSlots
  <2>1. CASE a \in air
    BY <1>3, <1>7, <1>9, <2>1 DEF Times, AirSlots
  <2>2. CASE a \notin air
    <3>1. a.tti = Slot(i)
      BY <1>2, <2>2
    <3>2. Open(i + Rtt)'
      BY <1>2, <1>3, <1>4 DEF Open
    <3>3. QED BY <1>3, <1>8, <1>10, <3>1, <3>2
  <2>3. QED BY <2>1, <2>2
<1>12. HarqSlots'
  <2> SUFFICES ASSUME NEW q \in Pids, harq'[q].active
               PROVE  \E j \in -OldAge - 1 .. Workers - 1 :
                        /\ harq'[q].tti = Slot(j)' /\ Scheduled(j)'
                        /\ \A k \in 0 .. Workers - 1 :
                             At(k)' \in DOMAIN work' /\ work'[At(k)'] = "done" => k <= j + OldAge
    BY DEF HarqSlots
  <2>1. CASE Kept(q, i)
    <3>1. PICK j \in -OldAge - 1 .. Workers - 1 :
            /\ harq[q].tti = Slot(j) /\ Scheduled(j)
            /\ \A k \in 0 .. Workers - 1 :
                 At(k) \in DOMAIN work /\ work[At(k)] = "done" => k <= j + OldAge
      BY <2>1 DEF Times, HarqSlots, Kept
    <3>2. ~Before(Add(Slot(j), OldAge), Slot(i))
      BY <2>1, <3>1 DEF Kept, TooOld
    <3>3. ~(j + OldAge < i)
      BY <1>4, <3>2, SlotAges
    <3>4. i <= j + OldAge
      BY <1>10, <3>3, Bounds
    <3>5. ASSUME NEW k \in 0 .. Workers - 1, At(k)' \in DOMAIN work', work'[At(k)'] = "done"
          PROVE  k <= j + OldAge
      <4>1. CASE k = i
        BY <3>4, <4>1
      <4>2. CASE k # i
        <5>1. k \in Near
          BY NearSlots, Bounds
        <5>2. At(k) # At(i)
          BY <1>2, <1>4, <4>2, <5>1, SlotFacts
        <5>3. At(k) \in DOMAIN work /\ work[At(k)] = "done"
          BY <1>2, <1>3, <1>4, <3>5, <5>2
        <5>4. QED BY <3>1, <5>3
      <4>3. QED BY <4>1, <4>2
    <3>6. harq'[q].tti = Slot(j)' /\ Scheduled(j)'
      BY <1>3, <1>7, <2>1, <3>1 DEF Kept
    <3>7. QED BY <3>5, <3>6
  <2>2. CASE harq'[q].tti = Slot(i)
    <3>1. \A k \in 0 .. Workers - 1 : k <= i + OldAge
      BY <1>10, Bounds
    <3>2. QED BY <1>3, <1>8, <1>10, <2>2, <3>1
  <2>3. QED BY <1>2, <2>1, <2>2
<1>13. OnePerTti'
  <2>1. \A a, b \in air' : a.tti = b.tti => a = b
    BY <1>2 DEF Times, OnePerTti
  <2>2. ASSUME NEW a \in air', NEW q \in Pids, harq'[q].active, harq'[q].tti = a.tti
        PROVE  a.pid = q
    <3>1. CASE Kept(q, i)
      <4>1. harq[q].active /\ harq[q].tti = a.tti /\ a.tti # Slot(i)
        BY <1>2, <2>2, <3>1 DEF Kept
      <4>2. a \in air
        BY <1>2, <4>1
      <4>3. QED BY <4>1, <4>2 DEF Times, OnePerTti
    <3>2. CASE q = p /\ harq'[q].tti = Slot(i)
      <4>1. a \notin air
        BY <1>2, <2>2, <3>2
      <4>2. QED BY <1>2, <3>2, <4>1
    <3>3. QED BY <1>2, <2>2, <3>1, <3>2
  <2>3. QED BY <2>1, <2>2 DEF OnePerTti
<1>14. QED BY <1>1, <1>6, <1>11, <1>12, <1>13 DEF Times

LEMMA NextTimes == Times /\ [Next]_vars => Times'
<1> SUFFICES ASSUME Times, [Next]_vars PROVE Times'
  OBVIOUS
<1>1. CASE StartWorker
  BY <1>1, StartTimes
<1>2. CASE EndWorker
  BY <1>2, EndTimes
<1>3. ASSUME NEW t \in DOMAIN work, NoUci(t) PROVE Times'
  BY <1>3, NoUciTimes
<1>4. ASSUME NEW t \in DOMAIN work, Schedule(t) PROVE Times'
  BY <1>4, ScheduleTimes
<1>5. ASSUME NEW t \in DOMAIN work, NEW a \in Due(t), ReceiveUci(t, a) PROVE Times'
  BY <1>5, ReceiveTimes
<1>6. CASE UNCHANGED vars
  <2>1. UNCHANGED <<base, work, harq, ue, air, got, told, heard, odd, astray>>
    BY <1>6 DEF vars, hist
  <2>2. TypeOK'
    BY <2>1 DEF Times, TypeOK
  <2>3. \A j : /\ At(j)' = At(j) /\ Slot(j)' = Slot(j)
               /\ Scheduled(j)' = Scheduled(j) /\ Open(j)' = Open(j)
    BY <2>1 DEF At, Slot, Scheduled, Open
  <2>4. Flight'
    BY <2>1, <2>3 DEF Times, Flight
  <2>5. AirSlots' /\ HarqSlots' /\ OnePerTti'
    BY <2>1, <2>3 DEF Times, AirSlots, HarqSlots, OnePerTti
  <2>6. QED BY <2>2, <2>4, <2>5 DEF Times
<1>7. QED BY <1>1, <1>2, <1>3, <1>4, <1>5, <1>6 DEF Next

\* TTIs are kept apart, whatever is lost and whichever worker overtakes.
THEOREM Timely == Spec => []Times
<1>1. QED BY InitTimes, NextTimes, PTL DEF Spec

\* Every variable of both entities keeps its type: TypeOK of DlHarq.
THEOREM TypeCorrect == Spec => []TypeOK
<1>1. Times => TypeOK
  BY DEF Times
<1>2. QED BY <1>1, Timely, PTL

\* Feedback reaches an active process only if that one sent in the TTI it is for.
LEMMA SenderTti ==
  ASSUME Times, NEW t \in DOMAIN work, NEW a \in Due(t), NEW p \in Pids,
         harq[p].active, p \in AckedProc(t), ReceiveUci(t, a)
  PROVE  harq[p].tti = a.tti
<1>1. Add(harq[p].tti, UlDelay) = t /\ harq[p] \in HarqProc
  BY AckOnly DEF Times
<1>2. a \in air /\ Add(a.tti, UlDelay) = t /\ harq[p].tti \in Ttis
  BY <1>1 DEF Due, HarqProc
<1>3. PICK j \in -Rtt .. Workers - 1 : a.tti = Slot(j)
  BY <1>2 DEF Times, AirSlots
<1>4. base \in Ttis /\ j \in Near /\ j + Rtt \in Near
  BY NearSlots DEF Times, TypeOK
<1>5. t = At(j + Rtt)
  BY <1>2, <1>3, <1>4, SlotWays
<1>6. QED BY <1>1, <1>2, <1>3, <1>5, DueFacts

LEMMA MatchStep ==
  ASSUME Times, NEW t \in DOMAIN work, NEW a \in Due(t), ReceiveUci(t, a)
  PROVE  \A p \in Pids \ {a.pid} : harq[p].active => harq'[p] = harq[p]
<1> SUFFICES ASSUME NEW p \in Pids, p # a.pid, harq[p].active PROVE harq'[p] = harq[p]
  OBVIOUS
<1>1. SUFFICES ASSUME p \in AckedProc(t) PROVE FALSE
  BY AckOnly DEF Times
<1>2. harq[p].tti = a.tti
  BY <1>1, SenderTti
<1>3. a \in air
  BY DEF Due
<1>4. QED BY <1>2, <1>3 DEF Times, OnePerTti

\* FeedbackToSender: set_ack_info looks for a process by the TTI of its transmission
\* alone, and never finds an active process other than the sender.
THEOREM FeedbackMatched == Spec => FeedbackToSender
<1>1. Times /\ [Next]_vars =>
        [\A t \in DOMAIN work : \A a \in Due(t) :
           ReceiveUci(t, a) => \A p \in Pids \ {a.pid} :
                                 harq[p].active => harq'[p] = harq[p]]_vars
  BY MatchStep
<1>2. QED BY <1>1, Timely, PTL DEF Spec, FeedbackToSender

-----------------------------------------------------------------------------
(***************************************************************************)
(* What a scheduling does to each process, when max_retx is not 0 (RRC     *)
(* configures 1 to 28 transmissions, so that this is how the eNB runs).    *)
(***************************************************************************)
Left(q, i) ==
  IF TooOld(harq[q], Slot(i))
  THEN ~harq'[q].active /\ harq'[q].n_rtx \in {0, harq[q].n_rtx} /\ harq'[q].ndi = harq[q].ndi
  ELSE harq'[q] = harq[q]
Resent(p, s, i) ==
  /\ harq[p].active /\ harq[p].ack = "NACK" /\ ~Before(Slot(i), Add(harq[p].tti, Rtt))
  /\ Resizes \/ s = harq[p].size
  /\ harq'[p] = NewRetx(harq[p], Slot(i), s)
  /\ Reach(p, Slot(i), got[p], heard[p]) /\ odd' = odd
Sent(p, s, i) ==
  /\ ~harq[p].active
  /\ harq'[p] = NewTx(harq[p], Slot(i), s)
  /\ Reach(p, Slot(i), 0, {}) /\ odd' = [odd EXCEPT ![p] = heard[p] = {} /\ ~odd[p]]

LEMMA GrantFacts ==
  ASSUME Times, MaxRetx # 0, NEW t \in DOMAIN work, Schedule(t)
  PROVE  /\ TypeOK' /\ base' = base /\ harq' \in [Pids -> HarqProc]
         /\ told' = [q \in Pids |-> IF harq[q].active /\ ~harq'[q].active
                                    THEN "dropped" ELSE told[q]]
         /\ \E i \in 0 .. Workers - 1 :
              /\ Slot(i) \in Ttis /\ \A a \in air : a.tti # Slot(i)
              /\ \A q \in Pids : harq[q].active => harq[q].tti # Slot(i)
              /\ \/ (\A q \in Pids : Left(q, i)) /\ UNCHANGED <<ue, air, got, heard, odd>>
                 \/ \E p \in Pids, s \in Sizes :
                      /\ \A q \in Pids \ {p} : Left(q, i)
                      /\ Resent(p, s, i) \/ Sent(p, s, i)
<1>1. /\ TypeOK /\ harq \in [Pids -> HarqProc] /\ got \in [Pids -> 0..2] /\ base \in Ttis
      /\ told \in [Pids -> {"nothing", "acked", "dropped"}]
  BY DEF Times, TypeOK, HarqProc
<1>2. /\ Add(t, DlDelay) \in Ttis /\ work[t] = "sched" /\ base' = base
      /\ \E hs \in [Pids -> HarqProc] :
           /\ Finish(hs, Add(t, DlDelay))
           /\ \/ hs = harq /\ UNCHANGED <<ue, air, got, heard, odd>>
              \/ \E p \in Pids, s \in Sizes :
                   Resends(p, s, Add(t, DlDelay), hs) \/ Sends(p, s, Add(t, DlDelay), hs)
  BY <1>1, ScheduleCases
<1>3. PICK i \in 0 .. Workers - 1 :
        /\ t = At(i) /\ Add(t, DlDelay) = Slot(i)
        /\ \A a \in air : a.tti # Slot(i)
        /\ \A p \in Pids : harq[p].active => harq[p].tti # Slot(i)
  BY <1>2, FreshSlot
<1>4. PICK hs \in [Pids -> HarqProc] :
        /\ Finish(hs, Slot(i))
        /\ \/ hs = harq /\ UNCHANGED <<ue, air, got, heard, odd>>
           \/ \E p \in Pids, s \in Sizes : Resends(p, s, Slot(i), hs) \/ Sends(p, s, Slot(i), hs)
  BY <1>2, <1>3
<1>5. /\ Slot(i) \in Ttis /\ harq' \in [Pids -> HarqProc]
      /\ \A q \in Pids :
           /\ harq'[q].ndi = hs[q].ndi
           /\ harq'[q].active => ~TooOld(hs[q], Slot(i))
           /\ ~TooOld(hs[q], Slot(i)) => harq'[q] = hs[q]
           /\ harq'[q].n_rtx # hs[q].n_rtx => harq'[q].n_rtx = 0
      /\ told' = [q \in Pids |-> IF hs[q].active /\ ~harq'[q].active THEN "dropped" ELSE told[q]]
  BY <1>1, <1>2, <1>3, <1>4, FinishFacts
<1>6. \A q \in Pids : hs[q] = harq[q] => Left(q, i)
  BY <1>5 DEF Left
<1>7. TypeOK'
  BY <1>1, ScheduleType
<1>8. CASE hs = harq /\ UNCHANGED <<ue, air, got, heard, odd>>
  BY <1>2, <1>3, <1>5, <1>6, <1>7, <1>8
<1>9. ASSUME NEW p \in Pids, NEW s \in Sizes,
             Resends(p, s, Slot(i), hs) \/ Sends(p, s, Slot(i), hs)
      PROVE  /\ \A q \in Pids \ {p} : Left(q, i)
             /\ Resent(p, s, i) \/ Sent(p, s, i)
             /\ told' = [q \in Pids |-> IF harq[q].active /\ ~harq'[q].active
                                        THEN "dropped" ELSE told[q]]
  <2> DEFINE x == Slot(i)
             h == harq[p]
  <2>1. x \in Ttis /\ h \in HarqProc
    BY <1>1, <1>5
  <2> HIDE DEF x, h
  <2>2. /\ NewRetx(h, x, s).tti = x /\ NewTx(h, x, s).tti = x
        /\ NewRetx(h, x, s).active = h.active /\ NewTx(h, x, s).active
    BY <2>1, NewTxFacts, NewRetxFacts
  <2>3. /\ (hs[p] = NewRetx(h, x, s) /\ h.active) \/ (hs[p] = NewTx(h, x, s) /\ ~h.active)
        /\ \A q \in Pids \ {p} : hs[q] = harq[q]
    BY <1>1, <1>9 DEF Resends, Sends, x, h
  <2>4. hs[p].tti = Slot(i) /\ hs[p].active
    BY <2>2, <2>3 DEF x, h
  <2>5. ~TooOld(hs[p], Slot(i))
    <3>1. i \in -OldAge - 1 .. Workers - 1 /\ ~(i + OldAge < i)
      BY Bounds
    <3>2. ~Before(Add(Slot(i), OldAge), Slot(i))
      BY <1>1, <3>1, SlotAges
    <3>3. QED BY <2>4, <3>2 DEF TooOld
  <2>6. harq'[p] = hs[p] /\ harq'[p].active
    BY <1>5, <2>4, <2>5
  <2>7. Resent(p, s, i) \/ Sent(p, s, i)
    BY <1>1, <1>9, <2>6 DEF Resends, Sends, Resent, Sent
  <2>8. QED BY <1>5, <1>6, <2>3, <2>6, <2>7
<1>10. QED BY <1>2, <1>3, <1>4, <1>5, <1>7, <1>8, <1>9

\* What the eNB knows of the TB before this transmission of process p.
GotBefore(p) == IF harq[p].active THEN got[p] ELSE 0
HeardBefore(p) == IF harq[p].active THEN heard[p] ELSE {}

\* What the UE makes of the grant of process p, and what it answers.
LEMMA SenderFacts ==
  ASSUME TypeOK, NEW p \in Pids, NEW s \in Sizes, NEW i \in 0 .. Workers - 1,
         Slot(i) \in Ttis, harq' \in [Pids -> HarqProc], Resent(p, s, i) \/ Sent(p, s, i)
  PROVE  /\ harq[p] \in HarqProc /\ ue[p] \in UeProc /\ ue'[p] \in UeProc
         /\ harq'[p] \in HarqProc /\ got[p] \in 0..2 /\ got'[p] \in 0..2
         /\ odd[p] \in BOOLEAN /\ GotBefore(p) \in 0..2
         /\ harq'[p].tti = Slot(i) /\ harq'[p].active /\ harq'[p].size = s
         /\ \/ /\ harq[p].active /\ harq'[p].ndi = harq[p].ndi /\ Resent(p, s, i)
               /\ harq'[p].n_rtx = More(harq[p].n_rtx)
            \/ /\ ~harq[p].active /\ harq'[p].ndi = ~harq[p].ndi /\ Sent(p, s, i)
               /\ harq'[p].n_rtx = 0 /\ harq'[p].ack = "NULL"
         /\ odd'[p] = IF harq[p].active THEN odd[p] ELSE heard[p] = {} /\ ~odd[p]
         /\ \A q \in Pids \ {p} : ue'[q] = ue[q] /\ got'[q] = got[q] /\ heard'[q] = heard[q]
                                  /\ odd'[q] = odd[q]
         /\ \E answer : air' = air \cup {Reply(p, Slot(i), answer)}
         /\ \/ /\ ue' = ue /\ air' = air \cup {Reply(p, Slot(i), "none")}
               /\ got'[p] = GotBefore(p) /\ heard'[p] = HeardBefore(p)
            \/ \E decoded \in BOOLEAN :
                 /\ ue'[p] = NewGrantDl(ue[p], harq'[p], decoded)
                 /\ air' = air \cup {Reply(p, Slot(i), AnswerOf(p, decoded))}
                 /\ got'[p] = Delivered(p, GotBefore(p), decoded)
                 /\ heard'[p] = HeardBefore(p) \cup {harq'[p].size}
<1> DEFINE x == Slot(i)
           h == harq[p]
           g == harq'[p]
           k == GotBefore(p)
           S == HeardBefore(p)
<1>1. /\ h \in HarqProc /\ x \in Ttis /\ g \in HarqProc /\ odd \in [Pids -> BOOLEAN]
      /\ k \in 0..2 /\ S \in SizeSets /\ ue[p] \in UeProc /\ got[p] \in 0..2
  BY DEF TypeOK, HarqProc, UeProc, SizeSets, GotBefore, HeardBefore
<1>2. /\ (h.active /\ g = NewRetx(h, x, s) /\ Resent(p, s, i)) \/ (~h.active /\ g = NewTx(h, x, s) /\ Sent(p, s, i))
      /\ Reach(p, x, k, S)
  BY DEF Resent, Sent, GotBefore, HeardBefore
<1>3. /\ ue' \in [Pids -> UeProc] /\ got' \in [Pids -> 0..2]
      /\ \A q \in Pids \ {p} : ue'[q] = ue[q] /\ got'[q] = got[q] /\ heard'[q] = heard[q]
      /\ \/ /\ ue' = ue /\ air' = air \cup {Reply(p, x, "none")}
            /\ got'[p] = k /\ heard'[p] = S
         \/ \E decoded \in BOOLEAN :
              /\ ue'[p] = NewGrantDl(ue[p], harq'[p], decoded)
              /\ air' = air \cup {Reply(p, x, AnswerOf(p, decoded))}
              /\ got'[p] = Delivered(p, k, decoded)
              /\ heard'[p] = S \cup {harq'[p].size}
  <2> HIDE DEF x, k, S
  <2>1. QED BY <1>1, <1>2, ReachFacts
<1>4. /\ g.tti = x /\ g.active /\ g.size = s
      /\ \/ /\ h.active /\ g.ndi = h.ndi /\ Resent(p, s, i)
            /\ g.n_rtx = More(h.n_rtx)
         \/ ~h.active /\ g.ndi = ~h.ndi /\ Sent(p, s, i) /\ g.n_rtx = 0 /\ g.ack = "NULL"
  <2> HIDE DEF x, h, g
  <2>1. CASE h.active /\ g = NewRetx(h, x, s) /\ Resent(p, s, i)
    <3> DEFINE r == NewRetx(h, x, s)
    <3>1. /\ r.ndi = h.ndi /\ r.tti = x /\ r.active = h.active /\ r.size = s
          /\ r.n_rtx = More(h.n_rtx)
      BY <1>1, NewRetxFacts
    <3>2. g = r
      BY <2>1
    <3> HIDE DEF r
    <3>3. QED BY <2>1, <3>1, <3>2
  <2>2. CASE ~h.active /\ g = NewTx(h, x, s) /\ Sent(p, s, i)
    <3>1. /\ g.ndi = ~h.ndi /\ g.tti = x /\ g.active /\ g.size = s
          /\ g.n_rtx = 0 /\ g.ack = "NULL"
      BY <1>1, <2>2, NewTxFacts
    <3>2. QED BY <2>2, <3>1
  <2>3. QED BY <1>2, <2>1, <2>2
<1>5. /\ odd'[p] = IF harq[p].active THEN odd[p] ELSE heard[p] = {} /\ ~odd[p]
      /\ \A q \in Pids \ {p} : odd'[q] = odd[q]
  BY <1>1 DEF Resent, Sent
<1>6. QED BY <1>1, <1>3, <1>4, <1>5

-----------------------------------------------------------------------------
(***************************************************************************)
(* What the UE knows: it follows the NDI of the TBs it hears of, and       *)
(* acknowledges only what it has delivered, unless the NDI has gone round. *)
(***************************************************************************)
Knows == Times /\ UeKnows /\ AckMeansGot

\* When a TB is sent, the NDI of the UE tells whether the UE knows it already, but
\* for an odd number of TBs that it has not heard of.
LEMMA SenderNdi ==
  ASSUME TypeOK, UeKnows, NEW p \in Pids, NEW s \in Sizes,
         NEW i \in 0 .. Workers - 1, Slot(i) \in Ttis, harq' \in [Pids -> HarqProc],
         Resent(p, s, i) \/ Sent(p, s, i)
  PROVE  /\ ~ue[p].first => (ue[p].ndi = harq'[p].ndi <=> (HeardBefore(p) # {} \/ odd'[p]))
         /\ HeardBefore(p) # {} /\ ~odd'[p] /\ ~ue[p].first /\ ue[p].ack => GotBefore(p) > 0
<1>1. /\ \/ harq[p].active /\ harq'[p].ndi = harq[p].ndi
         \/ ~harq[p].active /\ harq'[p].ndi = ~harq[p].ndi
      /\ odd'[p] = IF harq[p].active THEN odd[p] ELSE heard[p] = {} /\ ~odd[p]
      /\ harq[p].ndi \in BOOLEAN /\ ue[p].ndi \in BOOLEAN /\ odd[p] \in BOOLEAN
  BY SenderFacts DEF HarqProc, UeProc
<1>2. /\ ~ue[p].first => (ue[p].ndi = harq[p].ndi <=> (heard[p] # {} \/ odd[p]))
      /\ heard[p] # {} /\ ~odd[p] /\ ~ue[p].first /\ ue[p].ack => got[p] > 0
  BY DEF UeKnows
<1>3. CASE harq[p].active
  BY <1>1, <1>2, <1>3 DEF HeardBefore, GotBefore
<1>4. CASE ~harq[p].active
  <2>1. HeardBefore(p) = {} /\ harq'[p].ndi = ~harq[p].ndi /\ odd'[p] = (heard[p] = {} /\ ~odd[p])
    BY <1>1, <1>4 DEF HeardBefore
  <2>2. ~ue[p].first => (ue[p].ndi = harq'[p].ndi <=> ~(ue[p].ndi = harq[p].ndi))
    BY <1>1, <2>1
  <2>3. QED BY <1>2, <2>1, <2>2
<1>5. QED BY <1>3, <1>4

\* A transmission keeps what the UE knows.
LEMMA SenderKnows ==
  ASSUME TypeOK, UeKnows, NEW p \in Pids, NEW s \in Sizes,
         NEW i \in 0 .. Workers - 1, Slot(i) \in Ttis, harq' \in [Pids -> HarqProc],
         Resent(p, s, i) \/ Sent(p, s, i)
  PROVE  /\ ~ue'[p].first => (ue'[p].ndi = harq'[p].ndi <=> (heard'[p] # {} \/ odd'[p]))
         /\ heard'[p] # {} /\ ~odd'[p] /\ ~ue'[p].first /\ ue'[p].ack => got'[p] > 0
         /\ \E a : /\ a.tti = Slot(i) /\ a.pid = p /\ air' = air \cup {a}
                   /\ a.answer = "ACK" /\ ~odd'[p] => got'[p] > 0
<1> DEFINE u == ue[p]
           v == ue'[p]
           g == harq'[p]
           k == GotBefore(p)
<1>1. u \in UeProc /\ g \in HarqProc /\ v \in UeProc /\ k \in 0..2
  BY SenderFacts
<1>2. /\ ~u.first => (u.ndi = g.ndi <=> (HeardBefore(p) # {} \/ odd'[p]))
      /\ HeardBefore(p) # {} /\ ~odd'[p] /\ ~u.first /\ u.ack => k > 0
  BY SenderNdi
<1>3. \A answer : LET a == Reply(p, Slot(i), answer)
                  IN a.tti = Slot(i) /\ a.pid = p /\ a.answer = answer
  BY DEF Reply
<1>4. CASE /\ ue' = ue /\ air' = air \cup {Reply(p, Slot(i), "none")}
           /\ got'[p] = k /\ heard'[p] = HeardBefore(p)
  <2>1. v = u
    BY <1>4
  <2> HIDE DEF u, v, g, k
  <2>2. QED BY <1>2, <1>3, <1>4, <2>1 DEF v, g
<1>5. ASSUME NEW decoded \in BOOLEAN, v = NewGrantDl(u, g, decoded),
             air' = air \cup {Reply(p, Slot(i), AnswerOf(p, decoded))},
             got'[p] = Delivered(p, k, decoded), heard'[p] = HeardBefore(p) \cup {g.size}
      PROVE  /\ ~v.first => v.ndi = g.ndi
             /\ ~odd'[p] /\ ~v.first /\ v.ack => got'[p] > 0
             /\ AnswerOf(p, decoded) = "ACK" /\ ~odd'[p] => got'[p] > 0
  <2>1. /\ got'[p] = IF decoded /\ ~Duplicate(u, g) /\ k < 2 THEN k + 1 ELSE k
        /\ AnswerOf(p, decoded) = IF decoded \/ Duplicate(u, g) THEN "ACK" ELSE "NACK"
    BY <1>5 DEF Delivered, AnswerOf
  <2>2. v = NewGrantDl(u, g, decoded)
    BY <1>5
  <2> HIDE DEF u, v, g, k
  <2>3. CASE ~Duplicate(u, g)
    <3>1. ~v.first /\ v.ndi = g.ndi /\ v.ack = decoded
      BY <1>1, <2>2, <2>3, UeOps
    <3>2. decoded => got'[p] > 0
      BY <1>1, <2>1, <2>3
    <3>3. QED BY <2>1, <2>3, <3>1, <3>2
  <2>4. CASE Duplicate(u, g)
    <3>1. ~u.first /\ u.ndi = g.ndi /\ u.ack /\ (~v.first => v.ndi = u.ndi)
      <4>1. /\ ~u.first /\ u.ndi = g.ndi /\ u.ack
            /\ GrantCount(u, g) > DupTimeout => v.first
            /\ GrantCount(u, g) <= DupTimeout => v.ndi = u.ndi
        BY <1>1, <2>2, <2>4, UeOps
      <4>2. GrantCount(u, g) \in Nat /\ DupTimeout \in Nat
        BY <1>1, HarqAssumption DEF GrantCount, UeProc
      <4>3. QED BY <4>1, <4>2
    <3>2. ~odd'[p] => k > 0
      BY <1>2, <3>1
    <3>3. got'[p] = k
      BY <2>1, <2>4
    <3>4. QED BY <3>1, <3>2, <3>3
  <2>5. QED BY <2>3, <2>4
<1>6. CASE \E decoded \in BOOLEAN :
             /\ v = NewGrantDl(u, g, decoded)
             /\ air' = air \cup {Reply(p, Slot(i), AnswerOf(p, decoded))}
             /\ got'[p] = Delivered(p, k, decoded)
             /\ heard'[p] = HeardBefore(p) \cup {g.size}
  <2>1. PICK decoded \in BOOLEAN :
             /\ v = NewGrantDl(u, g, decoded)
             /\ air' = air \cup {Reply(p, Slot(i), AnswerOf(p, decoded))}
             /\ got'[p] = Delivered(p, k, decoded)
             /\ heard'[p] = HeardBefore(p) \cup {g.size}
    BY <1>6
  <2>2. /\ ~v.first => v.ndi = g.ndi
        /\ ~odd'[p] /\ ~v.first /\ v.ack => got'[p] > 0
        /\ AnswerOf(p, decoded) = "ACK" /\ ~odd'[p] => got'[p] > 0
    BY <1>5, <2>1
  <2>3. heard'[p] # {}
    BY <2>1
  <2>4. QED BY <1>3, <2>1, <2>2, <2>3
<1>7. QED BY <1>4, <1>6, SenderFacts

LEMMA ScheduleKnows ==
  ASSUME Knows, MaxRetx # 0, NEW t \in DOMAIN work, Schedule(t)
  PROVE  UeKnows' /\ AckMeansGot'
<1>1. Times /\ TypeOK
  BY DEF Knows, Times
<1>2. PICK i \in 0 .. Workers - 1 :
        /\ Slot(i) \in Ttis /\ \A a \in air : a.tti # Slot(i)
        /\ \A q \in Pids : harq[q].active => harq[q].tti # Slot(i)
        /\ \/ (\A q \in Pids : Left(q, i)) /\ UNCHANGED <<ue, air, got, heard, odd>>
           \/ \E p \in Pids, s \in Sizes :
                /\ \A q \in Pids \ {p} : Left(q, i)
                /\ Resent(p, s, i) \/ Sent(p, s, i)
  BY <1>1, GrantFacts
<1>3. harq' \in [Pids -> HarqProc]
  BY <1>1, GrantFacts
<1>4. \A q \in Pids : Left(q, i) => /\ harq'[q].ndi = harq[q].ndi
                                    /\ harq'[q].active => harq[q].active /\ harq'[q] = harq[q]
  BY DEF Left
<1>5. CASE (\A q \in Pids : Left(q, i)) /\ UNCHANGED <<ue, air, got, heard, odd>>
  BY <1>4, <1>5 DEF Knows, UeKnows, AckMeansGot
<1>6. ASSUME NEW p \in Pids, NEW s \in Sizes, \A q \in Pids \ {p} : Left(q, i),
             Resent(p, s, i) \/ Sent(p, s, i)
      PROVE  UeKnows' /\ AckMeansGot'
  <2>1. UeKnows
    BY DEF Knows
  <2>2. /\ ~ue'[p].first => (ue'[p].ndi = harq'[p].ndi <=> (heard'[p] # {} \/ odd'[p]))
        /\ heard'[p] # {} /\ ~odd'[p] /\ ~ue'[p].first /\ ue'[p].ack => got'[p] > 0
        /\ \E a : /\ a.tti = Slot(i) /\ a.pid = p /\ air' = air \cup {a}
                  /\ a.answer = "ACK" /\ ~odd'[p] => got'[p] > 0
    BY <1>1, <1>2, <1>3, <1>6, <2>1, SenderKnows
  <2>3. /\ \A q \in Pids \ {p} : ue'[q] = ue[q] /\ got'[q] = got[q] /\ heard'[q] = heard[q]
                                 /\ odd'[q] = odd[q]
        /\ harq'[p].tti = Slot(i)
    BY <1>1, <1>2, <1>3, <1>6, SenderFacts
  <2>4. UeKnows'
    BY <1>4, <1>6, <2>1, <2>2, <2>3 DEF UeKnows
  <2>5. ASSUME NEW a \in air', NEW q \in Pids, harq'[q].active, harq'[q].tti = a.tti,
               a.answer = "ACK", ~odd'[q]
        PROVE  got'[q] > 0
    <3>1. CASE q = p
      <4>1. a \notin air
        BY <1>2, <2>3, <2>5, <3>1
      <4>2. QED BY <2>2, <2>5, <3>1, <4>1
    <3>2. CASE q # p
      <4>1. harq[q].active /\ harq'[q] = harq[q] /\ got'[q] = got[q] /\ odd'[q] = odd[q]
        BY <1>4, <1>6, <2>3, <2>5, <3>2
      <4>2. a \in air
        BY <1>2, <2>2, <2>5, <4>1
      <4>3. QED BY <2>5, <4>1, <4>2 DEF Knows, AckMeansGot
    <3>3. QED BY <3>1, <3>2
  <2>6. QED BY <2>4, <2>5 DEF AckMeansGot
<1>7. QED BY <1>2, <1>5, <1>6

LEMMA NextKnows ==
  ASSUME MaxRetx # 0, Knows, [Next]_vars
  PROVE  Knows'
<1>1. Times' /\ TypeOK
  BY NextTimes DEF Knows, Times
<1>2. CASE StartWorker \/ EndWorker \/ UNCHANGED vars
  BY <1>1, <1>2 DEF StartWorker, EndWorker, vars, hist, Knows, UeKnows, AckMeansGot
<1>3. ASSUME NEW t \in DOMAIN work, NoUci(t) PROVE Knows'
  BY <1>1, <1>3 DEF NoUci, hist, Knows, UeKnows, AckMeansGot
<1>4. ASSUME NEW t \in DOMAIN work, Schedule(t) PROVE Knows'
  BY <1>1, <1>4, ScheduleKnows DEF Knows
<1>5. ASSUME NEW t \in DOMAIN work, NEW a \in Due(t), ReceiveUci(t, a) PROVE Knows'
  <2>1. \A p \in Pids : /\ harq'[p].ndi = harq[p].ndi
                        /\ harq'[p].active => harq[p].active /\ harq'[p].tti = harq[p].tti
    BY <1>1, <1>5, AckOnly
  <2>2. air' \subseteq air /\ ue' = ue /\ got' = got /\ heard' = heard /\ odd' = odd
    BY <1>5 DEF ReceiveUci
  <2>3. QED BY <1>1, <2>1, <2>2 DEF Knows, UeKnows, AckMeansGot
<1>6. QED BY <1>2, <1>3, <1>4, <1>5 DEF Next

LEMMA InitKnows == Init => Knows
<1> SUFFICES ASSUME Init PROVE Knows
  OBVIOUS
<1>1. UeKnows /\ AckMeansGot
  BY DEF Init, FreshUe, FreshHarq, UeKnows, AckMeansGot
<1>2. QED BY <1>1, InitTimes DEF Knows

\* AckedIsDelivered: what the UE acknowledged it has delivered, whatever the radio
\* loses, the decoder makes of it and the workers reorder.
THEOREM AckedDelivered ==
  ASSUME MaxRetx # 0
  PROVE  Spec => AckedIsDelivered
<1> DEFINE Acked == \A t \in DOMAIN work : \A a \in Due(t) : \A p \in Pids :
                      ReceiveUci(t, a) /\ harq[p].active /\ ~harq'[p].active
                      /\ harq'[p].ack = "ACK" /\ got[p] = 0
                        => a.answer # "ACK" \/ odd[p]
<1>1. Knows => Acked
  <2> SUFFICES ASSUME Knows, NEW t \in DOMAIN work, NEW a \in Due(t), NEW p \in Pids,
                      ReceiveUci(t, a), harq[p].active, ~harq'[p].active, got[p] = 0,
                      a.answer = "ACK", ~odd[p]
               PROVE  FALSE
    OBVIOUS
  <2>1. Times /\ TypeOK /\ AckMeansGot
    BY DEF Knows, Times
  <2>2. p \in AckedProc(t)
    BY <2>1, AckOnly
  <2>3. harq[p].tti = a.tti /\ a \in air
    BY <2>1, <2>2, SenderTti DEF Due
  <2>4. got[p] > 0
    BY <2>1, <2>3 DEF AckMeansGot
  <2>5. QED BY <2>4
<1>2. Knows /\ [Next]_vars => Knows'
  BY NextKnows
<1> HIDE DEF Acked
<1>3. Spec => [][Acked]_vars
  BY <1>1, <1>2, InitKnows, PTL DEF Spec
<1>4. QED BY <1>3 DEF AckedIsDelivered, Acked

-----------------------------------------------------------------------------
(***************************************************************************)
(* How often a TB is delivered.                                            *)
(***************************************************************************)
Counts == Knows /\ UeCounts

\* What UeCounts says of process p.
Counted(p) ==
  /\ got[p] > 0 => heard[p] # {}
  /\ heard[p] # {} /\ ~ue[p].first => ue[p].n_retx <= harq[p].n_rtx + 1
  /\ \A s : heard[p] = {s} =>
       /\ ~ue[p].first => ue[p].size = s
       /\ got[p] > 0 => (~ue[p].first /\ ue[p].ack) \/ harq[p].n_rtx >= DupTimeout

\* What UeCounts and SenderNdi say of a TB, of which the UE heard in the sizes of S
\* and which it delivered k times, before the grant g.
CountedBefore(u, h, g, k, S) ==
  /\ ~u.first => (u.ndi = g.ndi <=> S # {})
  /\ k > 0 => S # {}
  /\ S # {} /\ ~u.first => u.n_retx <= h.n_rtx + 1
  /\ S = {g.size} => /\ ~u.first => u.size = g.size
                     /\ k > 0 => (~u.first /\ u.ack) \/ h.n_rtx >= DupTimeout

\* A retransmission that the UE hears keeps its count behind the eNB's.
LEMMA RetxCounts ==
  ASSUME NEW u \in UeProc, NEW h \in HarqProc, NEW g \in HarqProc, NEW v \in UeProc,
         NEW decoded \in BOOLEAN, NEW k \in 0..2, NEW m \in 0..2, NEW S,
         v = NewGrantDl(u, g, decoded), g.n_rtx = More(h.n_rtx),
         m = (IF decoded /\ ~Duplicate(u, g) /\ k < 2 THEN k + 1 ELSE k),
         CountedBefore(u, h, g, k, S)
  PROVE  /\ ~v.first => v.n_retx <= g.n_rtx + 1 /\ v.size = g.size
         /\ S \cup {g.size} = {g.size} =>
              /\ m > 0 => (~v.first /\ v.ack) \/ g.n_rtx >= DupTimeout
              /\ k = 1 /\ m = 2 => g.n_rtx > DupTimeout
<1> DEFINE n == GrantCount(u, g)
<1>1. /\ u.n_retx \in 0 .. DupTimeout + 1 /\ h.n_rtx \in 0..NofRtx /\ g.n_rtx \in 0..NofRtx
      /\ v.n_retx \in 0 .. DupTimeout + 1 /\ n \in Nat
      /\ NofRtx \in Nat /\ NofRtx >= DupTimeout + 1 /\ DupTimeout \in Nat
  BY RtxBound, HarqAssumption DEF UeProc, HarqProc, GrantCount
<1>2. g.n_rtx = h.n_rtx + 1 \/ (g.n_rtx = NofRtx /\ h.n_rtx = NofRtx)
  BY <1>1 DEF More
<1>3. /\ ~Duplicate(u, g) => ~v.first /\ v.ack = decoded /\ v.n_retx <= n /\ v.size = g.size
      /\ Duplicate(u, g) => ~u.first /\ u.ndi = g.ndi /\ u.ack /\ n = u.n_retx + 1 /\ u.size = g.size
      /\ Duplicate(u, g) /\ n > DupTimeout => v.first
      /\ Duplicate(u, g) /\ n <= DupTimeout => ~v.first /\ v.ack /\ v.n_retx = n /\ v.size = u.size
  BY UeOps
<1>4. /\ StartsOver(u, g) => n = 1
      /\ ~StartsOver(u, g) => n = u.n_retx + 1 /\ ~u.first /\ u.ndi = g.ndi /\ (u.ack => Duplicate(u, g))
      /\ StartsOver(u, g) => u.first \/ u.ndi # g.ndi \/ u.size # g.size
      /\ Duplicate(u, g) => ~StartsOver(u, g)
  BY DEF StartsOver, IsNewTransmission, Duplicate, GrantCount
<1> HIDE DEF n
<1>5. ~StartsOver(u, g) => S # {} /\ n <= h.n_rtx + 2
  BY <1>1, <1>4 DEF CountedBefore
<1>6. ~v.first => v.n_retx <= g.n_rtx + 1
  <2>1. ~v.first => v.n_retx <= n
    BY <1>1, <1>3
  <2>2. CASE g.n_rtx = NofRtx
    BY <1>1, <2>2
  <2>3. CASE g.n_rtx = h.n_rtx + 1
    BY <1>1, <1>4, <1>5, <2>1, <2>3
  <2>4. QED BY <1>2, <2>2, <2>3
<1>7. ~v.first => v.size = g.size
  BY <1>1, <1>3
<1>8. ASSUME S \cup {g.size} = {g.size}, k > 0, ~Duplicate(u, g)
      PROVE  h.n_rtx >= DupTimeout /\ g.n_rtx > DupTimeout
  <2>1. S = {g.size}
    <3>1. S # {}
      BY <1>8 DEF CountedBefore
    <3>2. \A y \in S : y = g.size
      BY <1>8
    <3>3. QED BY <3>1, <3>2
  <2>2. ~(~u.first /\ u.ack)
    <3>1. SUFFICES ASSUME ~u.first, u.ack PROVE FALSE
      OBVIOUS
    <3>2. u.ndi = g.ndi /\ u.size = g.size
      BY <2>1, <3>1 DEF CountedBefore
    <3>3. QED BY <1>4, <1>8, <3>1, <3>2
  <2>3. h.n_rtx >= DupTimeout
    BY <1>8, <2>1, <2>2 DEF CountedBefore
  <2>4. QED BY <1>1, <1>2, <2>3
<1>9. ASSUME S \cup {g.size} = {g.size}, m > 0
      PROVE  (~v.first /\ v.ack) \/ g.n_rtx >= DupTimeout
  <2>1. CASE Duplicate(u, g)
    <3>1. n <= h.n_rtx + 2
      BY <1>4, <1>5, <2>1
    <3>2. n > DupTimeout => g.n_rtx >= DupTimeout
      BY <1>1, <1>2, <3>1
    <3>3. QED BY <1>1, <1>3, <2>1, <3>2
  <2>2. CASE ~Duplicate(u, g) /\ decoded
    BY <1>3, <2>2
  <2>3. CASE ~Duplicate(u, g) /\ ~decoded
    <3>1. k > 0
      BY <1>9, <2>3
    <3>2. QED BY <1>1, <1>8, <1>9, <2>3, <3>1
  <2>4. QED BY <2>1, <2>2, <2>3
<1>10. ASSUME S \cup {g.size} = {g.size}, k = 1, m = 2 PROVE g.n_rtx > DupTimeout
  <2>1. ~Duplicate(u, g)
    BY <1>10
  <2>2. QED BY <1>8, <1>10, <2>1
<1>11. QED BY <1>6, <1>7, <1>9, <1>10

\* A transmission keeps the UE's count behind the eNB's, and what it delivered
\* remembered until then.
LEMMA SenderCounts ==
  ASSUME TypeOK, UeKnows, UeCounts, NEW p \in Pids, NEW s \in Sizes,
         NEW i \in 0 .. Workers - 1, Slot(i) \in Ttis, harq' \in [Pids -> HarqProc],
         Resent(p, s, i) \/ Sent(p, s, i)
  PROVE  /\ ~odd'[p] => Counted(p)'
         /\ got[p] = 1 /\ got'[p] = 2 =>
              harq'[p].n_rtx > DupTimeout \/ odd'[p] \/ heard'[p] # {harq'[p].size}
<1> DEFINE u == ue[p]
           v == ue'[p]
           h == harq[p]
           g == harq'[p]
           k == GotBefore(p)
           S == HeardBefore(p)
<1>1. /\ u \in UeProc /\ h \in HarqProc /\ g \in HarqProc /\ v \in UeProc
      /\ k \in 0..2 /\ got'[p] \in 0..2 /\ got[p] \in 0..2
      /\ \/ h.active /\ g.n_rtx = More(h.n_rtx)
         \/ ~h.active /\ g.n_rtx = 0
  BY SenderFacts
<1>2. /\ h.n_rtx \in 0..NofRtx /\ g.n_rtx \in 0..NofRtx /\ NofRtx \in Nat /\ DupTimeout \in Nat
      /\ u.n_retx \in 0 .. DupTimeout + 1 /\ v.n_retx \in 0 .. DupTimeout + 1
      /\ NofRtx >= DupTimeout + 1
  BY <1>1, RtxBound, HarqAssumption DEF HarqProc, UeProc
<1>3. /\ h.active => k = got[p] /\ S = heard[p]
      /\ ~h.active => k = 0 /\ S = {}
  BY DEF GotBefore, HeardBefore
<1>4. ASSUME ~odd'[p]
      PROVE  /\ ~u.first => (u.ndi = g.ndi <=> S # {})
             /\ k > 0 => S # {}
             /\ S # {} /\ ~u.first => u.n_retx <= h.n_rtx + 1
             /\ \A x : S = {x} => /\ ~u.first => u.size = x
                                  /\ k > 0 => (~u.first /\ u.ack) \/ h.n_rtx >= DupTimeout
             /\ S # {} => h.active
  <2>1. ~u.first => (u.ndi = g.ndi <=> S # {})
    BY <1>4, SenderNdi
  <2>2. h.active => ~odd[p]
    BY <1>4, SenderFacts
  <2>3. h.active => Counted(p)
    BY <2>2 DEF UeCounts, Counted
  <2>4. QED BY <1>3, <2>1, <2>3 DEF Counted
<1>5. CASE ue' = ue /\ got'[p] = k /\ heard'[p] = S
  <2>1. v = u
    BY <1>5
  <2>2. ~(got[p] = 1 /\ got'[p] = 2)
    BY <1>3, <1>5
  <2>3. S # {} /\ ~odd'[p] => g.n_rtx >= h.n_rtx
    BY <1>1, <1>2, <1>4 DEF More
  <2> HIDE DEF u, v, h, g, k, S
  <2>4. ASSUME ~odd'[p]
        PROVE  /\ got'[p] > 0 => heard'[p] # {}
               /\ heard'[p] # {} /\ ~v.first => v.n_retx <= g.n_rtx + 1
               /\ \A x : heard'[p] = {x} =>
                    /\ ~v.first => v.size = x
                    /\ got'[p] > 0 => (~v.first /\ v.ack) \/ g.n_rtx >= DupTimeout
    <3>1. heard'[p] # {} /\ ~v.first => v.n_retx <= g.n_rtx + 1
      BY <1>2, <1>4, <1>5, <2>1, <2>3, <2>4
    <3>2. ASSUME NEW x, heard'[p] = {x}, got'[p] > 0
          PROVE  (~v.first /\ v.ack) \/ g.n_rtx >= DupTimeout
      <4>1. S = {x} /\ k > 0 /\ S # {}
        BY <1>5, <3>2
      <4>2. (~u.first /\ u.ack) \/ h.n_rtx >= DupTimeout
        BY <1>4, <2>4, <4>1
      <4>3. g.n_rtx >= h.n_rtx
        BY <2>3, <2>4, <4>1
      <4>4. QED BY <1>2, <2>1, <4>2, <4>3
    <3>3. QED BY <1>4, <1>5, <2>1, <2>4, <3>1, <3>2
  <2>5. QED BY <2>2, <2>4 DEF Counted, v, g
<1>6. ASSUME NEW decoded \in BOOLEAN, v = NewGrantDl(u, g, decoded),
             got'[p] = Delivered(p, k, decoded), heard'[p] = S \cup {g.size}, ~odd'[p]
      PROVE  /\ Counted(p)'
             /\ got[p] = 1 /\ got'[p] = 2 => g.n_rtx > DupTimeout \/ heard'[p] # {g.size}
  <2>1. got'[p] = IF decoded /\ ~Duplicate(u, g) /\ k < 2 THEN k + 1 ELSE k
    BY <1>6 DEF Delivered
  <2>2. v = NewGrantDl(u, g, decoded) /\ heard'[p] = S \cup {g.size}
    BY <1>6
  <2> DEFINE m == got'[p]
             d == got[p]
  <2>3. /\ m \in 0..2 /\ m = IF decoded /\ ~Duplicate(u, g) /\ k < 2 THEN k + 1 ELSE k
        /\ d \in 0..2
    BY <1>1, <2>1
  <2>4. CountedBefore(u, h, g, k, S)
    BY <1>4, <1>6 DEF CountedBefore
  <2>5. (h.active => k = d) /\ (~h.active => k = 0 /\ S = {})
    BY <1>3
  <2> HIDE DEF u, v, h, g, k, S, m, d
  <2>6. /\ ~v.first => v.n_retx <= g.n_rtx + 1 /\ v.size = g.size
        /\ S \cup {g.size} = {g.size} =>
              /\ m > 0 => (~v.first /\ v.ack) \/ g.n_rtx >= DupTimeout
              /\ d = 1 /\ m = 2 => g.n_rtx > DupTimeout
    <3>1. CASE h.active
      <4>1. g.n_rtx = More(h.n_rtx)
        BY <1>1, <3>1
      <4>2. /\ ~v.first => v.n_retx <= g.n_rtx + 1 /\ v.size = g.size
            /\ S \cup {g.size} = {g.size} =>
                  /\ m > 0 => (~v.first /\ v.ack) \/ g.n_rtx >= DupTimeout
                  /\ k = 1 /\ m = 2 => g.n_rtx > DupTimeout
        BY <1>1, <2>2, <2>3, <2>4, <4>1, RetxCounts
      <4>3. QED BY <2>5, <3>1, <4>2
    <3>2. CASE ~h.active
      <4>1. k = 0 /\ S = {} /\ g.n_rtx = 0
        BY <1>1, <2>5, <3>2
      <4>2. StartsOver(u, g) /\ ~Duplicate(u, g) /\ GrantCount(u, g) = 1
        BY <2>4, <4>1 DEF CountedBefore, StartsOver, IsNewTransmission, Duplicate, GrantCount
      <4>3. ~v.first /\ v.ack = decoded /\ v.n_retx <= 1 /\ v.size = g.size
        BY <1>1, <2>2, <4>2, UeOps
      <4>4. m = IF decoded THEN 1 ELSE 0
        BY <2>3, <4>1, <4>2
      <4>5. QED BY <4>1, <4>3, <4>4
    <3>3. QED BY <3>1, <3>2
  <2>7. ASSUME NEW x, heard'[p] = {x} PROVE x = g.size /\ S \cup {g.size} = {g.size}
    BY <2>2, <2>7
  <2>8. heard'[p] # {}
    BY <2>2
  <2>9. /\ m > 0 => heard'[p] # {}
        /\ heard'[p] # {} /\ ~v.first => v.n_retx <= g.n_rtx + 1
        /\ \A x : heard'[p] = {x} =>
             /\ ~v.first => v.size = x
             /\ m > 0 => (~v.first /\ v.ack) \/ g.n_rtx >= DupTimeout
    BY <2>6, <2>7, <2>8
  <2>10. d = 1 /\ m = 2 => g.n_rtx > DupTimeout \/ heard'[p] # {g.size}
    BY <2>2, <2>6
  <2>11. QED BY <2>9, <2>10 DEF Counted, v, g, m, d
<1>7. ASSUME NEW decoded \in BOOLEAN, v = NewGrantDl(u, g, decoded),
             got'[p] = Delivered(p, k, decoded), heard'[p] = S \cup {g.size}
      PROVE  /\ ~odd'[p] => Counted(p)'
             /\ got[p] = 1 /\ got'[p] = 2 =>
                  g.n_rtx > DupTimeout \/ odd'[p] \/ heard'[p] # {g.size}
  BY <1>6, <1>7
<1>8. \/ ue' = ue /\ got'[p] = k /\ heard'[p] = S
      \/ \E decoded \in BOOLEAN : /\ v = NewGrantDl(u, g, decoded)
                                  /\ got'[p] = Delivered(p, k, decoded)
                                  /\ heard'[p] = S \cup {g.size}
  BY SenderFacts
<1>9. QED BY <1>5, <1>7, <1>8

LEMMA ScheduleCounts ==
  ASSUME Counts, MaxRetx # 0, NEW t \in DOMAIN work, Schedule(t)
  PROVE  /\ UeCounts'
         /\ \A p \in Pids : got[p] = 1 /\ got'[p] = 2 =>
              harq'[p].n_rtx > DupTimeout \/ odd'[p] \/ heard'[p] # {harq'[p].size}
<1>1. Times /\ TypeOK /\ UeKnows /\ UeCounts
  BY DEF Counts, Knows, Times
<1>2. PICK i \in 0 .. Workers - 1 :
        /\ Slot(i) \in Ttis
        /\ \/ (\A q \in Pids : Left(q, i)) /\ UNCHANGED <<ue, air, got, heard, odd>>
           \/ \E p \in Pids, s \in Sizes :
                /\ \A q \in Pids \ {p} : Left(q, i)
                /\ Resent(p, s, i) \/ Sent(p, s, i)
  BY <1>1, GrantFacts
<1>3. harq' \in [Pids -> HarqProc]
  BY <1>1, GrantFacts
<1>4. \A q \in Pids : Left(q, i) /\ harq'[q].active => harq[q].active /\ harq'[q] = harq[q]
  BY DEF Left
<1>5. CASE (\A q \in Pids : Left(q, i)) /\ UNCHANGED <<ue, air, got, heard, odd>>
  <2>1. ASSUME NEW q \in Pids, harq'[q].active, ~odd'[q] PROVE Counted(q)'
    <3>1. harq[q].active /\ harq'[q] = harq[q] /\ ~odd[q]
      BY <1>4, <1>5, <2>1
    <3>2. Counted(q)
      BY <1>1, <3>1 DEF UeCounts, Counted
    <3>3. QED BY <1>5, <3>1, <3>2 DEF Counted
  <2>2. UeCounts'
    BY <2>1 DEF UeCounts, Counted
  <2>3. QED BY <1>5, <2>2
<1>6. ASSUME NEW p \in Pids, NEW s \in Sizes, \A q \in Pids \ {p} : Left(q, i),
             Resent(p, s, i) \/ Sent(p, s, i)
      PROVE  /\ UeCounts'
             /\ \A q \in Pids : got[q] = 1 /\ got'[q] = 2 =>
                  harq'[q].n_rtx > DupTimeout \/ odd'[q] \/ heard'[q] # {harq'[q].size}
  <2>1. /\ ~odd'[p] => Counted(p)'
        /\ got[p] = 1 /\ got'[p] = 2 =>
             harq'[p].n_rtx > DupTimeout \/ odd'[p] \/ heard'[p] # {harq'[p].size}
    BY <1>1, <1>2, <1>3, <1>6, SenderCounts
  <2>2. \A q \in Pids \ {p} : ue'[q] = ue[q] /\ got'[q] = got[q] /\ heard'[q] = heard[q]
                              /\ odd'[q] = odd[q]
    BY <1>1, <1>2, <1>3, <1>6, SenderFacts
  <2>3. ASSUME NEW q \in Pids, harq'[q].active, ~odd'[q] PROVE Counted(q)'
    <3>1. CASE q = p
      BY <2>1, <2>3, <3>1
    <3>2. CASE q # p
      <4>1. harq[q].active /\ harq'[q] = harq[q] /\ ~odd[q]
        BY <1>4, <1>6, <2>2, <2>3, <3>2
      <4>2. Counted(q)
        BY <1>1, <4>1 DEF UeCounts, Counted
      <4>3. QED BY <2>2, <3>2, <4>1, <4>2 DEF Counted
    <3>3. QED BY <3>1, <3>2
  <2>4. UeCounts'
    BY <2>3 DEF UeCounts, Counted
  <2>5. QED BY <2>1, <2>2, <2>4
<1>7. QED BY <1>2, <1>5, <1>6

\* DeliveredOnce: a TB is delivered again only after RESET_DUPLICATE_TIMEOUT
\* retransmissions, after it changed its size, or where the NDI had gone round.
THEOREM DeliveredOnceOnly ==
  ASSUME MaxRetx # 0
  PROVE  Spec => DeliveredOnce
<1> DEFINE Once == \A p \in Pids : got[p] = 1 /\ got'[p] = 2 =>
                     \/ harq'[p].n_rtx > DupTimeout
                     \/ odd'[p]
                     \/ heard'[p] # {harq'[p].size}
<1>1. Init => Counts
  <2>1. Init => UeCounts
    BY DEF Init, FreshHarq, UeCounts
  <2>2. QED BY <2>1, InitKnows DEF Counts
<1>2. ASSUME Counts, [Next]_vars
      PROVE  Counts' /\ Once
  <2>1. Knows' /\ TypeOK
    BY <1>2, NextKnows DEF Counts, Knows, Times
  <2>2. CASE StartWorker \/ EndWorker \/ UNCHANGED vars
    BY <1>2, <2>1, <2>2 DEF StartWorker, EndWorker, vars, hist, Counts, UeCounts
  <2>3. ASSUME NEW t \in DOMAIN work, NoUci(t)
        PROVE  UeCounts' /\ got' = got
    BY <1>2, <2>3 DEF NoUci, hist, Counts, UeCounts
  <2>4. ASSUME NEW t \in DOMAIN work, NEW a \in Due(t), ReceiveUci(t, a)
        PROVE  UeCounts' /\ got' = got
    <3>1. \A p \in Pids : /\ harq'[p].active => harq[p].active
                          /\ harq'[p].n_rtx = harq[p].n_rtx /\ harq'[p].size = harq[p].size
      BY <2>1, <2>4, AckOnly
    <3>2. ue' = ue /\ got' = got /\ heard' = heard /\ odd' = odd
      BY <2>4 DEF ReceiveUci
    <3>3. QED BY <1>2, <3>1, <3>2 DEF Counts, UeCounts
  <2>5. ASSUME NEW t \in DOMAIN work, Schedule(t)
        PROVE  UeCounts' /\ Once
    BY <1>2, <2>5, ScheduleCounts
  <2>6. got' = got => Once
    OBVIOUS
  <2> HIDE DEF Once
  <2>7. QED BY <1>2, <2>1, <2>2, <2>3, <2>4, <2>5, <2>6 DEF Next, Counts
<1>3. QED BY <1>1, <1>2, PTL DEF Spec, DeliveredOnce

-----------------------------------------------------------------------------
(***************************************************************************)
(* When a TB is retransmitted.                                             *)
(***************************************************************************)
\* A transmission a, still to be answered, of the process whose record is h: its last
\* one, or one that its last one overtook.
Last(a, h) == a.tti = h.tti /\ (h.n_rtx = 0 => h.ack = "NULL")
Overtaken(a, h) ==
  h.n_rtx > 0 /\ \E i, j \in -Rtt .. Workers - 1 :
                   a.tti = Slot(i) /\ h.tti = Slot(j) /\ i + Rtt <= j

\* Feedback that is late by a round trip is late for its own worker too, so that
\* nothing else can have been answered in the meantime.
LEMMA StartHeld == AirHeld /\ StartWorker => AirHeld'
<1> SUFFICES ASSUME AirHeld, StartWorker PROVE AirHeld'
  OBVIOUS
<1>1. harq' = harq /\ air' = air /\ \A j : Slot(j)' = Slot(j)
  BY DEF StartWorker, Slot
<1>2. QED BY <1>1 DEF AirHeld

LEMMA EndHeld == Times /\ AirHeld /\ EndWorker => AirHeld'
<1> SUFFICES ASSUME Times, AirHeld, EndWorker PROVE AirHeld'
  OBVIOUS
<1>1. /\ base' = Add(base, 1) /\ harq' = harq /\ air' = air /\ base \in Ttis
      /\ base \in DOMAIN work /\ work[base] = "done"
  BY DEF EndWorker, Times, TypeOK
<1>2. \A j \in Near : j - 1 \in Near => Slot(j - 1)' = Slot(j)
  BY <1>1, SlotShift
<1> SUFFICES ASSUME NEW a \in air
             PROVE  LET h == harq[a.pid] IN
                    h.active /\ (Last(a, h) \/ Overtaken(a, h)')
  BY <1>1 DEF AirHeld, Last, Overtaken
<1>3. PICK k \in -Rtt .. Workers - 1 : a.tti = Slot(k) /\ Open(k + Rtt)
  BY DEF Times, AirSlots
<1>4. k # -Rtt
  <2>1. ASSUME k = -Rtt PROVE FALSE
    <3>1. k + Rtt = 0
      BY <2>1, Bounds
    <3>2. Open(0)
      BY <1>3, <3>1
    <3>3. QED BY <1>1, <3>2, AtZero DEF Open
  <2>2. QED BY <2>1
<1>5. harq[a.pid].active /\ (Last(a, harq[a.pid]) \/ Overtaken(a, harq[a.pid]))
  BY DEF AirHeld, Last, Overtaken
<1>6. ASSUME Overtaken(a, harq[a.pid]) PROVE Overtaken(a, harq[a.pid])'
  <2>1. PICK i, j \in -Rtt .. Workers - 1 :
          a.tti = Slot(i) /\ harq[a.pid].tti = Slot(j) /\ i + Rtt <= j
    BY <1>6 DEF Overtaken
  <2>2. i = k
    <3>1. i \in Near /\ k \in Near
      BY NearSlots
    <3>2. QED BY <1>1, <1>3, <2>1, <3>1, SlotFacts
  <2>3. /\ i - 1 \in -Rtt .. Workers - 1 /\ j - 1 \in -Rtt .. Workers - 1
        /\ i \in Near /\ j \in Near /\ i - 1 \in Near /\ j - 1 \in Near
        /\ (i - 1) + Rtt <= j - 1
    BY <1>4, <2>1, <2>2, Bounds DEF Near
  <2>4. a.tti = Slot(i - 1)' /\ harq[a.pid].tti = Slot(j - 1)'
    BY <1>2, <2>1, <2>3
  <2>5. harq[a.pid].n_rtx > 0
    BY <1>6 DEF Overtaken
  <2>6. QED BY <1>1, <2>3, <2>4, <2>5 DEF Overtaken
<1>7. QED BY <1>5, <1>6

LEMMA ReceiveHeld ==
  ASSUME Times, AirHeld, NEW t \in DOMAIN work, NEW a \in Due(t), ReceiveUci(t, a)
  PROVE  AirHeld'
<1>1. /\ air' = air \ {a} /\ a \in air /\ Add(a.tti, UlDelay) = t /\ base' = base
      /\ base \in Ttis
  BY DEF ReceiveUci, Due, Times, TypeOK
<1>2. \A j : Slot(j)' = Slot(j)
  BY <1>1 DEF Slot
<1>3. ASSUME NEW b \in air' PROVE harq'[b.pid] = harq[b.pid]
  <2>1. b \in air /\ b # a /\ b.pid \in Pids /\ harq[b.pid].active
    BY <1>1 DEF AirHeld, Times, TypeOK
  <2>2. SUFFICES ASSUME b.pid \in AckedProc(t) PROVE FALSE
    BY <2>1, AckOnly DEF Times
  <2>3. harq[b.pid].tti = a.tti
    BY <2>1, <2>2, SenderTti
  <2>4. b.tti # a.tti
    BY <1>1, <2>1 DEF Times, OnePerTti
  <2>5. PICK i, j \in -Rtt .. Workers - 1 :
          b.tti = Slot(i) /\ harq[b.pid].tti = Slot(j) /\ i + Rtt <= j
    BY <2>1, <2>3, <2>4 DEF AirHeld
  <2>6. j \in Near /\ j + Rtt \in Near
    BY NearSlots
  <2>7. At(j + Rtt) = t
    BY <1>1, <2>3, <2>5, <2>6, SlotWays
  <2>8. j + Rtt <= Workers - 1
    <3>1. PICK n \in 0..Workers : \A k \in Near : At(k) \in DOMAIN work <=> k \in 0 .. n - 1
      BY <1>1, FlightFacts DEF Times
    <3>2. j + Rtt \in 0 .. n - 1
      BY <2>6, <2>7, <3>1
    <3>3. QED BY <3>2, Bounds
  <2>9. QED BY <2>5, <2>8, Bounds
<1>4. QED BY <1>1, <1>2, <1>3 DEF AirHeld

\* A process whose feedback is in the air is not too old to be kept, and it is not
\* retransmitted before the round trip of its last transmission is over.
LEMMA HeldFacts ==
  ASSUME Times, AirHeld, NEW i \in 0 .. Workers - 1, NEW a \in air
  PROVE  /\ a.pid \in Pids /\ harq[a.pid].active
         /\ ~TooOld(harq[a.pid], Slot(i))
         /\ ~Before(Slot(i), Add(harq[a.pid].tti, Rtt)) =>
              /\ Last(a, harq[a.pid])
              /\ \E j \in -Rtt .. Workers - 1 : a.tti = Slot(j) /\ j + Rtt <= i
<1> DEFINE h == harq[a.pid]
<1>1. base \in Ttis /\ a.pid \in Pids
  BY DEF Times, TypeOK
<1>2. h.active /\ (Last(a, h) \/ Overtaken(a, h))
  BY DEF AirHeld, Last, Overtaken
<1>3. PICK k \in -Rtt .. Workers - 1 : a.tti = Slot(k)
  BY DEF Times, AirSlots
<1>4. PICK j \in -Rtt .. Workers - 1 :
        /\ h.tti = Slot(j)
        /\ Last(a, h) \/ j >= 0
  <2>1. CASE Last(a, h)
    BY <1>3, <2>1 DEF Last
  <2>2. CASE Overtaken(a, h)
    <3>1. PICK m, j \in -Rtt .. Workers - 1 : h.tti = Slot(j) /\ m + Rtt <= j
      BY <2>2 DEF Overtaken
    <3>2. j >= 0
      BY <3>1, Bounds
    <3>3. QED BY <3>1, <3>2
  <2>3. QED BY <1>2, <2>1, <2>2
<1>5. j \in -OldAge - 1 .. Workers - 1 /\ ~(j + OldAge < i) /\ j \in Near
  BY Bounds DEF Near
<1>6. ~TooOld(h, Slot(i))
  BY <1>1, <1>4, <1>5, SlotAges DEF TooOld
<1>7. ASSUME ~Before(Slot(i), Add(h.tti, Rtt))
      PROVE  Last(a, h) /\ a.tti = Slot(j) /\ j + Rtt <= i
  <2>1. ~(i < j + Rtt)
    BY <1>1, <1>4, <1>5, <1>7, SlotAges
  <2>2. j + Rtt <= i
    BY <2>1, Bounds
  <2>3. ~(j >= 0)
    BY <2>2, Bounds
  <2>4. QED BY <1>4, <2>2, <2>3 DEF Last
<1>8. QED BY <1>1, <1>2, <1>6, <1>7

LEMMA ScheduleHeld ==
  ASSUME Times, AirHeld, MaxRetx # 0, NEW t \in DOMAIN work, Schedule(t)
  PROVE  /\ AirHeld'
         /\ \A p \in Pids : harq[p].active /\ harq[p].n_rtx = 0 /\ harq'[p].n_rtx = 1
                              => \A a \in air : a.pid # p
<1>1. TypeOK /\ base' = base /\ harq' \in [Pids -> HarqProc] /\ harq \in [Pids -> HarqProc]
  BY GrantFacts DEF Times, TypeOK, HarqProc
<1>2. PICK i \in 0 .. Workers - 1 :
        /\ Slot(i) \in Ttis
        /\ \/ (\A q \in Pids : Left(q, i)) /\ UNCHANGED <<ue, air, got, heard, odd>>
           \/ \E p \in Pids, s \in Sizes :
                /\ \A q \in Pids \ {p} : Left(q, i)
                /\ Resent(p, s, i) \/ Sent(p, s, i)
  BY GrantFacts
<1>3. \A j : Slot(j)' = Slot(j)
  BY <1>1 DEF Slot
<1>4. \A q \in Pids : Left(q, i) => /\ ~TooOld(harq[q], Slot(i)) => harq'[q] = harq[q]
                                    /\ harq'[q].n_rtx \in {0, harq[q].n_rtx}
  BY DEF Left
<1>5. \A a \in air : a.pid \in Pids /\ harq[a.pid].active /\ ~TooOld(harq[a.pid], Slot(i))
  BY HeldFacts
<1>6. ASSUME NEW a \in air, Left(a.pid, i) PROVE harq'[a.pid] = harq[a.pid]
  BY <1>4, <1>5, <1>6
<1>7. CASE (\A q \in Pids : Left(q, i)) /\ UNCHANGED <<ue, air, got, heard, odd>>
  <2>1. AirHeld'
    BY <1>3, <1>5, <1>6, <1>7 DEF AirHeld
  <2>2. \A q \in Pids : harq'[q].n_rtx \in {0, harq[q].n_rtx}
    BY <1>4, <1>7
  <2>3. QED BY <2>1, <2>2
<1>8. ASSUME NEW p \in Pids, NEW s \in Sizes, \A q \in Pids \ {p} : Left(q, i),
             Resent(p, s, i) \/ Sent(p, s, i)
      PROVE  /\ AirHeld'
             /\ \A q \in Pids : harq[q].active /\ harq[q].n_rtx = 0 /\ harq'[q].n_rtx = 1
                                  => \A a \in air : a.pid # q
  <2>1. /\ harq'[p].tti = Slot(i) /\ harq'[p].active /\ harq[p] \in HarqProc
        /\ \/ harq[p].active /\ Resent(p, s, i) /\ harq'[p].n_rtx = More(harq[p].n_rtx)
           \/ ~harq[p].active /\ harq'[p].n_rtx = 0 /\ harq'[p].ack = "NULL"
    BY <1>1, <1>2, <1>8, SenderFacts
  <2>10. PICK answer : air' = air \cup {Reply(p, Slot(i), answer)}
    BY <1>1, <1>2, <1>8, SenderFacts
  <2>2. LET a == Reply(p, Slot(i), answer) IN a.tti = Slot(i) /\ a.pid = p
    BY DEF Reply
  <2>3. \A a \in air' : a \in air \/ (a.tti = Slot(i) /\ a.pid = p)
    BY <2>2, <2>10
  <2>4. harq[p].active => harq'[p].n_rtx > 0 /\ Resent(p, s, i)
    <3>1. harq[p].n_rtx \in 0..NofRtx /\ NofRtx \in Nat /\ NofRtx > 0
      BY <2>1, RtxBound, HarqAssumption DEF HarqProc
    <3>2. More(harq[p].n_rtx) > 0
      BY <3>1 DEF More
    <3>3. QED BY <2>1, <3>2
  <2>5. ASSUME NEW a \in air, a.pid = p
        PROVE  /\ Last(a, harq[p]) /\ harq[p].active /\ harq[p].ack = "NACK"
               /\ \E j \in -Rtt .. Workers - 1 : a.tti = Slot(j) /\ j + Rtt <= i
    <3>1. harq[p].active
      BY <1>5, <2>5
    <3>2. ~Before(Slot(i), Add(harq[p].tti, Rtt)) /\ harq[p].ack = "NACK"
      BY <2>4, <3>1 DEF Resent
    <3>3. QED BY <2>5, <3>1, <3>2, HeldFacts
  <2>6. ASSUME NEW a \in air'
        PROVE  LET h == harq'[a.pid] IN
               /\ h.active
               /\ \/ a.tti = h.tti /\ (h.n_rtx = 0 => h.ack = "NULL")
                  \/ h.n_rtx > 0 /\ \E m, j \in -Rtt .. Workers - 1 :
                                      a.tti = Slot(m) /\ h.tti = Slot(j) /\ m + Rtt <= j
    <3>1. CASE a \in air /\ a.pid # p
      <4>1. harq'[a.pid] = harq[a.pid]
        BY <1>5, <1>6, <1>8, <3>1
      <4>2. QED BY <3>1, <4>1 DEF AirHeld
    <3>2. CASE a \in air /\ a.pid = p
      <4>1. harq[p].active /\ \E j \in -Rtt .. Workers - 1 : a.tti = Slot(j) /\ j + Rtt <= i
        BY <2>5, <3>2
      <4>2. i \in -Rtt .. Workers - 1
        BY Bounds
      <4>3. QED BY <2>1, <2>4, <3>2, <4>1, <4>2
    <3>3. CASE a.tti = Slot(i) /\ a.pid = p
      BY <2>1, <2>4, <3>3
    <3>4. QED BY <2>3, <3>1, <3>2, <3>3
  <2>7. AirHeld'
    BY <1>3, <2>6 DEF AirHeld
  <2>8. ASSUME NEW q \in Pids, harq[q].active, harq[q].n_rtx = 0, harq'[q].n_rtx = 1,
               NEW a \in air
        PROVE  a.pid # q
    <3>1. q = p
      BY <1>4, <1>8, <2>8
    <3>2. QED BY <2>5, <2>8, <3>1 DEF Last
  <2>9. QED BY <2>7, <2>8
<1>9. QED BY <1>2, <1>7, <1>8

\* FirstRetxAnswered: a TB is not sent again before its first transmission was
\* answered, with any number of workers that is within a round trip.
THEOREM FirstAnswered ==
  ASSUME MaxRetx # 0
  PROVE  Spec => FirstRetxAnswered
<1> DEFINE Answered == \A p \in Pids : harq[p].active /\ harq[p].n_rtx = 0 /\ harq'[p].n_rtx = 1
                                        => \A a \in air : a.pid # p
<1>1. Init => Times /\ AirHeld
  BY InitTimes DEF Init, AirHeld
<1>2. ASSUME Times, AirHeld, [Next]_vars
      PROVE  Times' /\ AirHeld' /\ Answered
  <2>1. Times'
    BY <1>2, NextTimes
  <2>2. ASSUME StartWorker \/ EndWorker PROVE AirHeld' /\ Answered
    <3>1. AirHeld' /\ harq' = harq
      BY <1>2, <2>2, StartHeld, EndHeld DEF StartWorker, EndWorker
    <3>2. QED BY <3>1
  <2>3. ASSUME UNCHANGED vars PROVE AirHeld' /\ Answered
    <3>1. harq' = harq /\ air' = air /\ \A j : Slot(j)' = Slot(j)
      BY <2>3 DEF vars, Slot
    <3>2. QED BY <1>2, <3>1 DEF AirHeld
  <2>4. ASSUME NEW t \in DOMAIN work, NoUci(t) PROVE AirHeld' /\ Answered
    <3>1. harq' = harq /\ air' \subseteq air /\ \A j : Slot(j)' = Slot(j)
      BY <2>4 DEF NoUci, Slot
    <3>2. QED BY <1>2, <3>1 DEF AirHeld
  <2>5. ASSUME NEW t \in DOMAIN work, NEW a \in Due(t), ReceiveUci(t, a)
        PROVE  AirHeld' /\ Answered
    <3>1. \A p \in Pids : harq'[p].n_rtx = harq[p].n_rtx
      BY <1>2, <2>5, AckOnly DEF Times
    <3>2. QED BY <1>2, <2>5, <3>1, ReceiveHeld
  <2>6. ASSUME NEW t \in DOMAIN work, Schedule(t)
        PROVE  AirHeld' /\ Answered
    BY <1>2, <2>6, ScheduleHeld
  <2> HIDE DEF Answered
  <2>7. QED BY <1>2, <2>1, <2>2, <2>3, <2>4, <2>5, <2>6 DEF Next
<1>3. QED BY <1>1, <1>2, PTL DEF Spec, FirstRetxAnswered
=============================================================================
