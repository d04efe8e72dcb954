----------------------------- MODULE UlSched_proofs -----------------------------
(***************************************************************************)
(* Proofs about UlSched, for every cell, set of users and bound: no PRB is *)
(* granted twice, retransmissions go before new data, the one bit of the   *)
(* NDI is enough, and the UE sends as the eNB expects.                     *)
(***************************************************************************)
EXTENDS UlSched, OrderFacts, FiniteSetTheorems, TLAPS

Walking == {"retx", "newtx", "results"}
OnAir   == {"air", "crc"}
NewGrant(u) == Granted(u) /\ GrantOf(u).type = "NEWTX"
RetxMasks == UNION {Mask(g.alloc) : g \in {h \in ul_data_allocs : h.type # "NEWTX"}}

\* A range of PRBs that a grant may have.
GoodRange(a) == a.len > 0 /\ DftValid(a.len) /\ a.start + a.len <= NofPrb

\* The grid: ul_mask holds what is reserved and what is granted; during the walk of
\* the retransmissions, nothing else.
Grid ==
  /\ reserved \subseteq ul_mask
  /\ \A g \in ul_data_allocs : Mask(g.alloc) \subseteq ul_mask
  /\ UlExclusive
  /\ pc = "retx" => /\ ul_mask \subseteq reserved \cup RetxMasks
                    /\ \A g \in ul_data_allocs : g.user \notin todo /\ g.type # "NEWTX"
  /\ pc \in {"retx", "newtx"} => todo # {}

\* A grant says what its process is in need of, until its DCI is written; then
\* the process says what was granted.
Grants ==
  \A g \in ul_data_allocs :
    /\ pc \in Walking => g.type = TypeOf(g.user, g.alloc)
    /\ pc \in OnAir => /\ harq[g.user].active /\ harq[g.user].alloc = g.alloc
                       /\ g.type = "NEWTX" => harq[g.user].n_rtx = 0

\* An active process has a range and transmissions left, or is on the air.
Procs ==
  \A u \in Users : harq[u].active =>
    /\ GoodRange(harq[u].alloc)
    /\ \/ pc \in OnAir /\ Granted(u)
       \/ harq[u].nack /\ harq[u].n_rtx + 1 < MaxTx

\* A retransmission that was tried and not granted has met something that is
\* reserved or retransmitted.
Tried ==
  \A u \in Users :
    Refused(u) /\ (pc \in {"newtx", "results", "air"} \/ (pc = "retx" /\ u \notin todo))
      => Mask(harq[u].alloc) \cap (reserved \cup RetxMasks) # {}

\* The NDI of a UE with a grant is that of the process, unless it missed an odd
\* number of new TBs, the one on its way included.
Parity ==
  \A u \in Users : ue[u].grant =>
    ((ue[u].ndi = harq[u].ndi) <=> (missed[u] <=> (pc = "air" /\ NewGrant(u))))

\* The two sides of a process on which the UE sent the current TB.
SameTb(u) ==
  /\ ue[u].tb = "current" /\ ue[u].grant /\ ue[u].ndi = harq[u].ndi
  /\ ue[u].size = harq[u].size /\ ue[u].last = harq[u].size
  /\ ue[u].sent # None
\* A UE that will stop by what the PHICH says: ack, or nack of the last one.
Stops(u, ack) ==
  \/ ue[u].sent = None
  \/ ack = "ack"
  \/ ack = "nack" /\ ue[u].tx_nb >= MaxTx
\* What the two sides know of each other between a CRC and the next grants.
Settled(u, ack) ==
  IF harq[u].active
  THEN /\ SameTb(u) /\ ue[u].sent = harq[u].alloc
       /\ ue[u].tx_nb = harq[u].n_rtx + 1 /\ ack = "nack"
  ELSE Stops(u, ack)
Agreed ==
  \A u \in Users : ~astray[u] =>
    /\ pc = "phich" => Settled(u, harq[u].pending_ack)
    /\ pc \in Walking => Settled(u, phich[u])
    /\ pc = "air" /\ ~Granted(u) /\ ~harq[u].active => Stops(u, phich[u])
    /\ pc = "air" /\ Granted(u) /\ ~NewGrant(u) =>
         /\ SameTb(u) /\ phich[u] = "nack"
         /\ ue[u].tx_nb = harq[u].n_rtx /\ harq[u].n_rtx < MaxTx
         /\ GrantOf(u).type = "NOADAPT_RETX" => ue[u].sent = harq[u].alloc
    /\ pc = "crc" =>
         IF Granted(u)
         THEN SameTb(u) /\ ue[u].sent = harq[u].alloc /\ ue[u].tx_nb = harq[u].n_rtx + 1
         ELSE ue[u].sent = None /\ ~harq[u].active

\* The part that is about the eNB alone; with Parity and Agreed it is inductive too.
Core == TypeOK /\ Grid /\ Grants /\ Procs /\ Tried

-----------------------------------------------------------------------------
\* The least and the greatest of finitely many integers.
LEMMA MinFacts ==
  ASSUME NEW S \in SUBSET Int, S # {}, IsFiniteSet(S)
  PROVE  Min(S) \in S /\ \A v \in S : Min(S) <= v
BY LeastExists, Zenon DEF Min

LEMMA MaxFacts ==
  ASSUME NEW S \in SUBSET Int, S # {}, IsFiniteSet(S)
  PROVE  Max(S) \in S /\ \A v \in S : Max(S) >= v
BY GreatestExists, Zenon DEF Max

LEMMA PairMin ==
  ASSUME NEW m \in Nat, NEW n \in Nat
  PROVE  Min({m, n}) = IF m <= n THEN m ELSE n
<1>1. IsFiniteSet({m, n})
  <2>1. IsFiniteSet({n})
    BY FS_Singleton
  <2>2. QED BY <2>1, FS_AddElement, {m, n} = {n} \cup {m}
<1> DEFINE x == Min({m, n})
<1>2. x \in {m, n} /\ \A v \in {m, n} : x <= v
  BY <1>1, MinFacts
<1> HIDE DEF x
<1>3. x = IF m <= n THEN m ELSE n
  BY <1>2
<1>4. QED BY <1>3 DEF x

\* find_allocation shortens a run to a length that SC-FDMA can carry.
LEMMA FloorFacts ==
  ASSUME NEW n \in Nat \ {0}
  PROVE  DftFloor(n) \in 1 .. n /\ DftValid(DftFloor(n))
<1> DEFINE S == {k \in 1 .. n : DftValid(k)}
<1>1. S \in SUBSET Int /\ 1 \in S
  BY DEF DftValid
<1>2. IsFiniteSet(S)
  <2>1. S \in SUBSET (1 .. n)
    OBVIOUS
  <2>2. IsFiniteSet(1 .. n)
    BY FS_Interval
  <2>3. QED BY <2>1, <2>2, FS_Subset
<1>3. DftFloor(n) \in S
  <2>1. S # {}
    BY <1>1
  <2> HIDE DEF S
  <2>2. Max(S) \in S
    BY <1>1, <1>2, <2>1, MaxFacts
  <2>3. QED BY <2>2 DEF S, DftFloor
<1>4. QED BY <1>3

\* A run of free PRBs ends where a PRB in use, or the band, begins.
LEMMA RunFacts ==
  ASSUME NEW used \in SUBSET Prbs, NEW s \in Prbs
  PROVE  /\ RunEnd(used, s) \in s + 1 .. NofPrb
         /\ \A p \in Prbs : s < p /\ p < RunEnd(used, s) => p \notin used
<1> DEFINE S == {n \in used : n > s} \cup {NofPrb}
           e == Min(S)
<1>0. NofPrb \in Nat \ {0}
  BY CellAssumption
<1> USE DEF Prbs
<1>1. S \subseteq 0 .. NofPrb /\ S # {}
  <2>1. \A n \in used : n \in 0 .. NofPrb
    BY <1>0
  <2>2. NofPrb \in 0 .. NofPrb
    BY <1>0
  <2>3. QED BY <2>1, <2>2
<1>2. IsFiniteSet(S)
  <2> HIDE DEF S
  <2>1. IsFiniteSet(0 .. NofPrb)
    BY <1>0, FS_Interval
  <2>2. QED BY <1>1, <2>1, FS_Subset
<1>3. e \in S /\ \A v \in S : e <= v
  <2> HIDE DEF S
  <2>1. S \in SUBSET Int
    BY <1>0, <1>1
  <2>2. QED BY <1>1, <1>2, <2>1, MinFacts
<1>4. RunEnd(used, s) = e
  BY DEF RunEnd
<1> HIDE DEF e
<1>5. e \in s + 1 .. NofPrb
  BY <1>0, <1>3
<1>6. ASSUME NEW p \in Prbs, s < p, p < e, p \in used
      PROVE  FALSE
  <2>1. p \in S
    BY <1>6
  <2>2. e <= p
    BY <2>1, <1>3
  <2>3. QED BY <1>0, <2>2, <1>5, <1>6
<1>7. QED BY <1>4, <1>5, <1>6

\* What find_allocation returns is a free range of valid length, or empty.
LEMMA FindFacts ==
  ASSUME NEW used \in SUBSET Prbs, NEW L \in Nat
  PROVE  /\ FindAllocation(used, L) \in Allocs
         /\ FindAllocation(used, L).len > 0 =>
              /\ GoodRange(FindAllocation(used, L))
              /\ Mask(FindAllocation(used, L)) \cap used = {}
<1> DEFINE runs == {r \in RunStarts(used) : RunEnd(used, r) - r >= L \/ RunEnd(used, r) >= 3}
           s == Min(runs)
           e == RunEnd(used, s)
           n == Min({L, e - s})
           f == DftFloor(n)
<1>1. CASE L = 0 \/ runs = {}
  <2>1. FindAllocation(used, L) = None
    BY <1>1 DEF FindAllocation
  <2>2. None \in Allocs /\ ~(None.len > 0)
    BY CellAssumption DEF None, Allocs, Prbs
  <2>3. QED BY <2>1, <2>2
<1>2. CASE ~(L = 0 \/ runs = {})
  <2>0. NofPrb \in Nat \ {0}
    BY CellAssumption
  <2>1. FindAllocation(used, L) = [start |-> s, len |-> f]
    BY <1>2 DEF FindAllocation
  <2>2. runs \in SUBSET Prbs /\ Prbs \in SUBSET Int /\ IsFiniteSet(Prbs)
    BY FS_Interval, CellAssumption DEF RunStarts, Prbs
  <2>3. s \in runs
    <3>1. runs \in SUBSET Int /\ IsFiniteSet(runs) /\ runs # {}
      BY <1>2, <2>2, FS_Subset
    <3> HIDE DEF runs
    <3>2. QED BY <3>1, MinFacts
  <2>4. s \in Prbs /\ s \notin used
    BY <2>3, <2>2 DEF RunStarts
  <2> HIDE DEF s
  <2>5. e \in s + 1 .. NofPrb /\ \A p \in Prbs : s < p /\ p < e => p \notin used
    BY <2>4, RunFacts
  <2> HIDE DEF e
  <2>6. e - s \in Nat \ {0} /\ s \in Nat /\ e <= NofPrb /\ s < e
    BY <2>0, <2>4, <2>5 DEF Prbs
  <2>7. n = IF L <= e - s THEN L ELSE e - s
    BY <2>6, PairMin
  <2>8. n \in Nat \ {0} /\ n <= e - s
    BY <2>6, <2>7, <1>2
  <2> HIDE DEF n
  <2>9. f \in 1 .. n /\ DftValid(f)
    BY <2>8, FloorFacts
  <2> HIDE DEF f
  <2>10. f \in Nat /\ f > 0 /\ s + f <= e /\ s + f <= NofPrb
    <3>1. f \in Nat /\ f > 0 /\ f <= e - s /\ e \in Nat
      BY <2>0, <2>5, <2>6, <2>8, <2>9
    <3>2. s + f <= e
      BY <2>6, <3>1
    <3>3. QED BY <2>0, <2>6, <3>1, <3>2
  <2>11. [start |-> s, len |-> f] \in Allocs /\ GoodRange([start |-> s, len |-> f])
    BY <2>4, <2>6, <2>9, <2>10, CellAssumption DEF Allocs, GoodRange
  <2>12. Mask([start |-> s, len |-> f]) \cap used = {}
    <3> SUFFICES ASSUME NEW p \in s .. s + f - 1
                 PROVE  p \notin used
      BY DEF Mask
    <3>1. p \in Prbs /\ s <= p /\ p < e
      <4>1. e \in Nat
        BY <2>0, <2>5, <2>6
      <4>2. QED BY <2>0, <2>6, <2>10, <4>1 DEF Prbs
    <3>2. QED BY <3>1, <2>4, <2>5, <2>6 DEF Prbs
  <2>13. QED BY <2>1, <2>11, <2>12
<1>3. QED BY <1>1, <1>2

\* sched_users goes on with a user that is still to be visited.
LEMMA NextFacts ==
  ASSUME todo \in SUBSET Users, todo # {}, first \in Users \cup {0}
  PROVE  NextUser \in todo
<1> DEFINE R == {Rank(v) : v \in todo}
           f == [v \in todo |-> Rank(v)]
<1>0. Users \in SUBSET Nat /\ IsFiniteSet(Users)
  BY UlAssumption
<1>1. Max(Users) \in Users
  <2>1. Users \in SUBSET Int
    BY <1>0
  <2>2. Users # {}
    OBVIOUS
  <2>3. QED BY <1>0, <2>1, <2>2, MaxFacts
<1>2. \A v \in todo : Rank(v) \in Nat
  <2> DEFINE top == Max(Users)
  <2>1. top \in Nat
    BY <1>0, <1>1
  <2> HIDE DEF top
  <2>2. \A v \in todo : Rank(v) = IF v >= first THEN v ELSE v + top + 1
    BY DEF Rank, top
  <2>3. QED BY <1>0, <2>1, <2>2
<1>3. IsFiniteSet(R)
  <2>1. IsFiniteSet(todo)
    BY <1>0, FS_Subset
  <2>2. f \in Surjection(todo, R)
    <3>1. f \in [todo -> R] /\ \A r \in R : \E v \in todo : f[v] = r
      OBVIOUS
    <3>2. QED BY <3>1, Fun_IsSurj
  <2>3. QED BY <2>1, <2>2, FS_Surjection
<1>4. R \in SUBSET Int /\ R # {}
  BY <1>2
<1>5. \E r \in R : \A q \in R : r <= q
  <2> HIDE DEF R
  <2>1. QED BY <1>3, <1>4, LeastExists
<1>6. \E u \in todo : \A v \in todo : Rank(u) <= Rank(v)
  BY <1>5
<1>7. QED BY <1>6, Zenon DEF NextUser

\* A user has at most one grant: GrantOf is that one.
LEMMA GrantFacts ==
  ASSUME UlExclusive
  PROVE  /\ \A g \in ul_data_allocs : Granted(g.user) /\ GrantOf(g.user) = g
         /\ \A u \in Users : Granted(u) => GrantOf(u) \in ul_data_allocs /\ GrantOf(u).user = u
<1>1. \A u \in Users : Granted(u) => GrantOf(u) \in ul_data_allocs /\ GrantOf(u).user = u
  BY Zenon DEF Granted, GrantOf
<1>2. ASSUME NEW g \in ul_data_allocs
      PROVE  Granted(g.user) /\ GrantOf(g.user) = g
  <2>1. Granted(g.user)
    BY <1>2 DEF Granted
  <2>2. GrantOf(g.user) \in ul_data_allocs /\ GrantOf(g.user).user = g.user
    BY <2>1, Zenon DEF Granted, GrantOf
  <2>3. QED BY <2>1, <2>2 DEF UlExclusive
<1>3. QED BY <1>1, <1>2

-----------------------------------------------------------------------------
\* The grid after one visit of the walk: a grant of a good, free range to a user,
\* or no change.
Record(u, a) == [user |-> u, type |-> TypeOf(u, a), alloc |-> a]
Adds(u, a) ==
  /\ a \in Allocs /\ GoodRange(a) /\ Mask(a) \cap ul_mask = {}
  /\ ul_mask' = ul_mask \cup Mask(a)
  /\ ul_data_allocs' = ul_data_allocs \cup {Record(u, a)}
  /\ UNCHANGED reserved

\* A visit for a retransmission grants it, or finds its PRBs in use.
LEMMA RetxOutcome ==
  ASSUME TypeOK, Procs, pc = "retx", NEW u \in Users, RetxPrbs(u)
  PROVE  \/ Pending(u) /\ \E a \in Allocs : Adds(u, a)
         \/ UNCHANGED gridVars /\ (Pending(u) => Mask(harq[u].alloc) \cap ul_mask # {})
<1> DEFINE same == harq[u].alloc
           other == FindAllocation(ul_mask, same.len)
<1>1. CASE ~Pending(u)
  BY <1>1 DEF RetxPrbs
<1>2. CASE Pending(u)
  <2>1. same \in Allocs /\ GoodRange(same) /\ same.len \in Nat
    <3>1. same \in Allocs
      BY DEF TypeOK
    <3>2. GoodRange(same)
      BY <1>2 DEF Procs, Pending
    <3>3. same.len \in Nat
      BY <3>1, CellAssumption DEF Allocs
    <3>4. QED BY <3>1, <3>2, <3>3
  <2>2. ul_mask \in SUBSET Prbs
    BY DEF TypeOK
  <2>3. /\ other \in Allocs
        /\ other.len > 0 => GoodRange(other) /\ Mask(other) \cap ul_mask = {}
    <3> HIDE DEF same
    <3>1. QED BY <2>1, <2>2, FindFacts
  <2>4. Accepts(same) <=> Mask(same) \cap ul_mask = {}
    BY <2>1 DEF Accepts, GoodRange
  <2>5. Retransmit(u)
    BY <1>2 DEF RetxPrbs
  <2>6. CASE \E a \in RetxAllocs(u) : AllocUlUser(u, a)
    <3>1. PICK a \in RetxAllocs(u) : AllocUlUser(u, a)
      BY <2>6
    <3>2. a \in Allocs /\ GoodRange(a) /\ Mask(a) \cap ul_mask = {}
      <4> HIDE DEF same, other
      <4>1. (a = same /\ Accepts(same)) \/ (a = other /\ other.len = same.len)
        <5>1. a \in IF Accepts(same) THEN {same}
                    ELSE {x \in {other} : x.len = same.len /\ Accepts(x)}
          BY <3>1 DEF RetxAllocs, same, other
        <5>2. QED BY <5>1
      <4>2. QED BY <2>1, <2>3, <2>4, <4>1 DEF GoodRange
    <3>3. CASE NoDci(u, a) /\ UNCHANGED gridVars
      <4>1. a # same
        BY <1>2, <3>3 DEF NoDci, NeedsPdcch, TypeOf
      <4>2. ~Accepts(same)
        BY <3>1, <4>1 DEF RetxAllocs
      <4>3. QED BY <2>4, <3>3, <4>2
    <3>4. CASE ~NoDci(u, a)
      <4>1. Adds(u, a)
        BY <3>1, <3>2, <3>4 DEF AllocUlUser, Adds, Record
      <4>2. QED BY <1>2, <3>2, <4>1
    <3>5. QED BY <3>1, <3>3, <3>4, <3>2, <1>2 DEF AllocUlUser, Adds, Record
  <2>7. CASE RetxAllocs(u) = {} /\ UNCHANGED gridVars
    <3>1. ~Accepts(same)
      BY <2>7 DEF RetxAllocs
    <3>2. QED BY <2>4, <2>7, <3>1
  <2>8. QED BY <2>5, <2>6, <2>7 DEF Retransmit
<1>3. QED BY <1>1, <1>2

\* A visit for new data grants it to an idle process, or changes nothing.
LEMMA NewTxOutcome ==
  ASSUME TypeOK, NEW u \in Users, NewTxPrbs(u)
  PROVE  \/ ~harq[u].active /\ \E a \in Allocs : Adds(u, a)
         \/ UNCHANGED gridVars
<1>1. PICK want \in Wants :
        IF /\ ~harq[u].active /\ FindAllocation(ul_mask, want).len > 0
           /\ Accepts(FindAllocation(ul_mask, want))
        THEN AllocUlUser(u, FindAllocation(ul_mask, want)) ELSE UNCHANGED gridVars
  BY DEF NewTxPrbs
<1> DEFINE a == FindAllocation(ul_mask, want)
<1>2. ul_mask \in SUBSET Prbs /\ want \in Nat
  BY UlAssumption DEF TypeOK
<1>3. a \in Allocs /\ (a.len > 0 => GoodRange(a) /\ Mask(a) \cap ul_mask = {})
  BY <1>2, FindFacts
<1> HIDE DEF a
<1>4. CASE ~harq[u].active /\ a.len > 0 /\ AllocUlUser(u, a)
  BY <1>3, <1>4 DEF AllocUlUser, Adds, Record
<1>5. QED BY <1>1, <1>4 DEF a

\* A grant added by Adds keeps the grid exclusive.
LEMMA AddsKeeps ==
  ASSUME TypeOK, Grid, Grants, pc \in Walking, UNCHANGED harq,
         NEW u \in Users, ~Granted(u), NEW a \in Allocs, Adds(u, a)
  PROVE  /\ ul_mask' \subseteq Prbs /\ reserved' \subseteq ul_mask'
         /\ ul_data_allocs' \subseteq
              [user : Users, type : {"NEWTX", "NOADAPT_RETX", "ADAPT_RETX"}, alloc : Allocs]
         /\ \A g \in ul_data_allocs' : Mask(g.alloc) \subseteq ul_mask'
         /\ UlExclusive'
         /\ \A g \in ul_data_allocs' : g.type = TypeOf(g.user, g.alloc)'
<1> DEFINE n == Record(u, a)
<1>1. n.user = u /\ n.type = TypeOf(u, a) /\ n.alloc = a
  BY DEF Record
<1>2. n \in [user : Users, type : {"NEWTX", "NOADAPT_RETX", "ADAPT_RETX"}, alloc : Allocs]
  BY DEF Record, TypeOf
<1> HIDE DEF n
<1>3. /\ a \in Allocs /\ GoodRange(a) /\ Mask(a) \cap ul_mask = {}
      /\ ul_mask' = ul_mask \cup Mask(a)
      /\ ul_data_allocs' = ul_data_allocs \cup {n} /\ reserved' = reserved
  BY DEF Adds, n
<1>4. Mask(a) \subseteq Prbs
  <2>1. a.start \in Nat /\ a.len \in Nat /\ a.start + a.len <= NofPrb /\ NofPrb \in Nat
    BY <1>3, CellAssumption DEF Allocs, GoodRange, Prbs
  <2>2. QED BY <2>1 DEF Mask, Prbs
<1>5. ul_mask' \subseteq Prbs /\ reserved' \subseteq ul_mask'
  BY <1>3, <1>4 DEF TypeOK, Grid
<1>6. ul_data_allocs' \subseteq
        [user : Users, type : {"NEWTX", "NOADAPT_RETX", "ADAPT_RETX"}, alloc : Allocs]
  BY <1>2, <1>3 DEF TypeOK
<1>7. \A g \in ul_data_allocs' : Mask(g.alloc) \subseteq ul_mask'
  BY <1>1, <1>3 DEF Grid
<1>8. UlExclusive'
  <2>1. \A g \in ul_data_allocs : g.user # u /\ Mask(g.alloc) \cap Mask(a) = {}
    BY <1>3 DEF Granted, Grid
  <2>2. Mask(a) \subseteq Prbs \ reserved
    BY <1>3, <1>4 DEF Grid
  <2>3. a.len > 0 /\ DftValid(a.len)
    BY <1>3 DEF GoodRange
  <2> SUFFICES ASSUME NEW g \in ul_data_allocs'
               PROVE  /\ Mask(g.alloc) \subseteq Prbs \ reserved
                      /\ g.alloc.len > 0 /\ DftValid(g.alloc.len)
                      /\ \A h \in ul_data_allocs' : g # h =>
                           g.user # h.user /\ Mask(g.alloc) \cap Mask(h.alloc) = {}
    BY <1>3 DEF UlExclusive
  <2>4. CASE g = n
    BY <1>1, <1>3, <2>1, <2>2, <2>3, <2>4
  <2>5. CASE g \in ul_data_allocs
    <3>1. /\ Mask(g.alloc) \subseteq Prbs \ reserved
          /\ g.alloc.len > 0 /\ DftValid(g.alloc.len)
          /\ \A h \in ul_data_allocs : g # h =>
               g.user # h.user /\ Mask(g.alloc) \cap Mask(h.alloc) = {}
      BY <2>5 DEF Grid, UlExclusive
    <3>2. QED BY <1>1, <1>3, <2>1, <2>5, <3>1
  <2>6. QED BY <1>3, <2>4, <2>5
<1>9. \A g \in ul_data_allocs' : g.type = TypeOf(g.user, g.alloc)'
  <2>1. \A v, b : TypeOf(v, b)' = TypeOf(v, b)
    BY DEF TypeOf, Pending
  <2>2. \A g \in ul_data_allocs : g.type = TypeOf(g.user, g.alloc)
    BY DEF Grants
  <2>3. QED BY <1>1, <1>3, <2>1, <2>2
<1>10. QED BY <1>5, <1>6, <1>7, <1>8, <1>9

-----------------------------------------------------------------------------
\* The types of a process and of the UE's side of it, their sets by name.
SizeRange == AllSizes \cup {0}
RtxRange  == 0..MaxTx - 1
TxRange   == 0..MaxTx
ProcType == [active : BOOLEAN, nack : BOOLEAN, n_rtx : RtxRange, ndi : BOOLEAN,
             alloc : Allocs, size : SizeRange, pending_ack : {"none", "ack", "nack"}]
UeType == [grant : BOOLEAN, ndi : BOOLEAN, size : SizeRange, last : SizeRange,
           tx_nb : TxRange, feedback : BOOLEAN, tb : {"none", "current", "old"}, sent : Allocs]

LEMMA RangeFacts ==
  /\ \A n \in RtxRange : n \in Nat /\ n < MaxTx /\ (n + 1 < MaxTx => n + 1 \in RtxRange)
  /\ 0 \in RtxRange /\ 0 \in TxRange /\ 1 \in TxRange /\ 0 \in SizeRange
BY UlAssumption DEF RtxRange, TxRange, SizeRange

LEMMA TypeParts ==
  ASSUME TypeOK
  PROVE  harq \in [Users -> ProcType] /\ ue \in [Users -> UeType]
BY DEF TypeOK, ProcType, UeType, SizeRange, RtxRange, TxRange

LEMMA NoneType == None \in Allocs
BY CellAssumption DEF None, Allocs, Prbs

LEMMA InitCore == Init => Core
<1> SUFFICES ASSUME Init PROVE Core
  OBVIOUS
<1> USE DEF Init
<1>1. FreshProc \in ProcType
  BY NoneType, RangeFacts DEF FreshProc, ProcType
<1>2. FreshUe \in UeType
  BY NoneType, RangeFacts DEF FreshUe, UeType
<1>3. TypeOK
  BY <1>1, <1>2 DEF TypeOK, ProcType, UeType, SizeRange, RtxRange, TxRange
<1>4. Grid
  BY DEF Grid, UlExclusive
<1>5. Grants /\ Tried
  BY DEF Grants, Tried, Walking, OnAir
<1>6. Procs
  BY DEF Procs, FreshProc
<1>7. QED BY <1>3, <1>4, <1>5, <1>6 DEF Core

LEMMA StutterCore == Core /\ UNCHANGED vars => Core'
<1> SUFFICES ASSUME Core, UNCHANGED vars PROVE Core'
  OBVIOUS
<1> USE DEF Core, vars, gridVars, histVars
<1>1. TypeOK'
  BY DEF TypeOK
<1>2. \A u : Granted(u)' = Granted(u)
  BY DEF Granted
<1>3. RetxMasks' = RetxMasks
  BY DEF RetxMasks
<1>4. Grid'
  BY <1>3 DEF Grid, UlExclusive
<1>5. Grants'
  BY DEF Grants, TypeOf, Pending
<1>6. Procs'
  BY <1>2 DEF Procs
<1>7. Tried'
  BY <1>2, <1>3 DEF Tried, Refused
<1>8. QED BY <1>1, <1>4, <1>5, <1>6, <1>7

\* A CRC ends a process or leaves it with a nack and a transmission to go.
LEMMA CrcCore == Core /\ UlCrcInfo => Core'
<1> SUFFICES ASSUME Core, UlCrcInfo PROVE Core'
  OBVIOUS
<1> USE DEF Core
<1>1. pc = "crc" /\ pc' = "phich" /\ UNCHANGED <<first, todo, gridVars, phich, ue, histVars>>
  BY DEF UlCrcInfo
<1>2. PICK good \in SUBSET {u \in Users : Decodable(u)} :
        harq' = [u \in Users |-> IF Granted(u) /\ harq[u].active
                                 THEN SetAck(harq[u], u \in good) ELSE harq[u]]
  BY DEF UlCrcInfo
<1>3. ASSUME NEW u \in Users, NEW ok \in BOOLEAN
      PROVE  /\ SetAck(harq[u], ok) \in ProcType
             /\ SetAck(harq[u], ok).alloc = harq[u].alloc
             /\ SetAck(harq[u], ok).active =>
                  SetAck(harq[u], ok).nack /\ SetAck(harq[u], ok).n_rtx + 1 < MaxTx
  <2>1. harq[u] \in ProcType
    BY TypeParts
  <2>2. QED BY <2>1, RangeFacts DEF SetAck, ProcType
<1>4. harq' \in [Users -> ProcType]
  <2>1. \A u \in Users : harq[u] \in ProcType
    BY TypeParts
  <2>2. ASSUME NEW u \in Users
        PROVE  harq'[u] \in ProcType
    <3> DEFINE ok == u \in good
    <3>1. ok \in BOOLEAN
      OBVIOUS
    <3>2. harq'[u] = IF Granted(u) /\ harq[u].active THEN SetAck(harq[u], ok) ELSE harq[u]
      BY <1>2
    <3> HIDE DEF ok
    <3>3. QED BY <1>3, <2>1, <3>1, <3>2
  <2>3. harq' = [u \in Users |-> harq'[u]]
    BY <1>2
  <2>4. QED BY <2>2, <2>3
<1>5. TypeOK'
  BY <1>1, <1>4 DEF TypeOK, ProcType, SizeRange, RtxRange, gridVars, histVars
<1>6. Grid'
  BY <1>1 DEF Grid, UlExclusive, gridVars
<1>7. Grants' /\ Tried'
  BY <1>1 DEF Grants, Tried, Walking, OnAir
<1>8. Procs'
  <2> SUFFICES ASSUME NEW u \in Users, harq'[u].active
               PROVE  GoodRange(harq'[u].alloc) /\ harq'[u].nack /\ harq'[u].n_rtx + 1 < MaxTx
    BY DEF Procs
  <2>1. CASE Granted(u) /\ harq[u].active
    <3> DEFINE ok == u \in good
    <3>1. harq'[u] = SetAck(harq[u], ok)
      BY <1>2, <2>1
    <3>2. ok \in BOOLEAN
      OBVIOUS
    <3> HIDE DEF ok
    <3>3. QED BY <1>3, <2>1, <3>1, <3>2 DEF Procs
  <2>2. CASE ~(Granted(u) /\ harq[u].active)
    <3>1. harq'[u] = harq[u]
      BY <1>2, <2>2
    <3>2. QED BY <2>2, <3>1 DEF Procs
  <2>3. QED BY <2>1, <2>2
<1>9. QED BY <1>5, <1>6, <1>7, <1>8

\* A new subframe: what is reserved lies in the band.
LEMMA StartCore == Core /\ StartTti => Core'
<1> SUFFICES ASSUME Core, StartTti PROVE Core'
  OBVIOUS
<1> USE DEF Core
<1>1. /\ pc = "phich" /\ pc' = "retx" /\ phich' = [u \in Users |-> harq[u].pending_ack]
      /\ ul_mask' = reserved' /\ ul_data_allocs' = {} /\ first' \in Users /\ todo' = Users
      /\ UNCHANGED <<harq, ue, histVars>>
  BY DEF StartTti
<1>2. reserved' \subseteq Prbs
  <2>1. PICK msg3 \in Msg3Masks, prach \in {{}, PrachMask} :
          reserved' = msg3 \cup prach \cup PucchMask
    BY DEF StartTti
  <2>2. msg3 \subseteq Prbs
    BY UlAssumption
  <2>3. PrachMask \subseteq Prbs
    BY CellAssumption DEF PrachMask, Prbs
  <2>4. PucchMask \subseteq Prbs
    BY CellAssumption DEF PucchMask, Prbs
  <2>5. QED BY <2>1, <2>2, <2>3, <2>4
<1>3. TypeOK'
  <2>1. phich' \in [Users -> {"none", "ack", "nack"}]
    BY <1>1 DEF TypeOK
  <2>2. QED BY <1>1, <1>2, <2>1 DEF TypeOK, histVars
<1>4. Grid'
  BY <1>1 DEF Grid, UlExclusive
<1>5. Grants'
  BY <1>1 DEF Grants
<1>6. Procs'
  BY <1>1 DEF Procs, OnAir
<1>7. Tried'
  BY <1>1 DEF Tried
<1>8. QED BY <1>3, <1>4, <1>5, <1>6, <1>7

\* The retransmissions granted so far only grow by a grant.
LEMMA AddsRetx ==
  ASSUME NEW u, NEW a, Adds(u, a)
  PROVE  /\ RetxMasks \subseteq RetxMasks'
         /\ TypeOf(u, a) # "NEWTX" => RetxMasks \cup Mask(a) = RetxMasks'
         /\ \A v : Granted(v)' <=> Granted(v) \/ v = u
<1> DEFINE n == Record(u, a)
<1>1. n.user = u /\ n.type = TypeOf(u, a) /\ n.alloc = a
  BY DEF Record
<1> HIDE DEF n
<1>2. ul_data_allocs' = ul_data_allocs \cup {n}
  BY DEF Adds, n
<1>3. RetxMasks \subseteq RetxMasks'
  BY <1>2 DEF RetxMasks
<1>4. TypeOf(u, a) # "NEWTX" => RetxMasks \cup Mask(a) = RetxMasks'
  BY <1>1, <1>2 DEF RetxMasks
<1>5. \A v : Granted(v)' <=> Granted(v) \/ v = u
  BY <1>1, <1>2 DEF Granted
<1>6. QED BY <1>3, <1>4, <1>5

LEMMA RetxCore == Core /\ VisitRetx => Core'
<1> SUFFICES ASSUME Core, VisitRetx PROVE Core'
  OBVIOUS
<1> USE DEF Core
<1> DEFINE u == NextUser
<1>1. /\ pc = "retx" /\ todo # {} /\ RetxPrbs(u)
      /\ todo' = IF todo = {u} THEN Users ELSE todo \ {u}
      /\ pc' = IF todo = {u} THEN "newtx" ELSE "retx"
      /\ UNCHANGED <<first, phich, harq, ue, histVars>>
  BY DEF VisitRetx
<1>2. u \in todo /\ u \in Users
  BY <1>1, NextFacts DEF TypeOK
<1> HIDE DEF u
<1>3. ~Granted(u)
  BY <1>1, <1>2 DEF Grid, Granted
<1>4. \/ Pending(u) /\ \E a \in Allocs : Adds(u, a)
      \/ UNCHANGED gridVars /\ (Pending(u) => Mask(harq[u].alloc) \cap ul_mask # {})
  BY <1>1, <1>2, RetxOutcome
<1>5. todo' \subseteq Users /\ todo' # {} /\ pc' \in Walking /\ pc' \notin OnAir
  BY <1>1, <1>2 DEF TypeOK, Walking, OnAir
<1>6. Procs'
  <2>1. \A v \in Users : harq[v].active =>
          GoodRange(harq[v].alloc) /\ harq[v].nack /\ harq[v].n_rtx + 1 < MaxTx
    BY <1>1 DEF Procs, OnAir
  <2>2. QED BY <1>1, <2>1 DEF Procs
<1>7. \A v \in Users : harq[v].active => Pending(v)
  BY <1>1 DEF Procs, Pending, OnAir
<1>8. CASE Pending(u) /\ \E a \in Allocs : Adds(u, a)
  <2>1. PICK a \in Allocs : Adds(u, a)
    BY <1>8
  <2>2. TypeOf(u, a) # "NEWTX"
    BY <1>8 DEF TypeOf
  <2>3. /\ ul_mask' \subseteq Prbs /\ reserved' \subseteq ul_mask'
        /\ ul_data_allocs' \subseteq
             [user : Users, type : {"NEWTX", "NOADAPT_RETX", "ADAPT_RETX"}, alloc : Allocs]
        /\ \A g \in ul_data_allocs' : Mask(g.alloc) \subseteq ul_mask'
        /\ UlExclusive'
        /\ \A g \in ul_data_allocs' : g.type = TypeOf(g.user, g.alloc)'
    BY <1>1, <1>2, <1>3, <2>1, AddsKeeps DEF Walking
  <2>4. /\ RetxMasks \cup Mask(a) = RetxMasks'
        /\ \A v : Granted(v)' <=> Granted(v) \/ v = u
    BY <2>1, <2>2, AddsRetx
  <2>5. TypeOK'
    BY <1>1, <1>5, <2>3 DEF TypeOK, histVars, Walking
  <2>6. Grid'
    <3>1. pc' = "retx" => ul_mask' \subseteq reserved' \cup RetxMasks'
      BY <1>1, <2>1, <2>4 DEF Grid, Adds
    <3>2. pc' = "retx" => \A g \in ul_data_allocs' : g.user \notin todo' /\ g.type # "NEWTX"
      <4>1. Record(u, a).user = u /\ Record(u, a).type # "NEWTX"
        BY <2>2 DEF Record
      <4>2. QED BY <1>1, <2>1, <4>1 DEF Grid, Adds
    <3>3. QED BY <1>5, <2>3, <3>1, <3>2 DEF Grid
  <2>7. Grants'
    BY <1>5, <2>3 DEF Grants
  <2>8. Tried'
    <3> SUFFICES ASSUME NEW v \in Users, harq[v].active, ~Granted(v), v # u,
                        pc' \in {"newtx", "results", "air"} \/ (pc' = "retx" /\ v \notin todo')
                 PROVE  Mask(harq[v].alloc) \cap (reserved' \cup RetxMasks') # {}
      BY <1>1, <2>4 DEF Tried, Refused
    <3>1. v \notin todo
      BY <1>1
    <3>2. Mask(harq[v].alloc) \cap (reserved \cup RetxMasks) # {}
      BY <1>1, <3>1 DEF Tried, Refused
    <3>3. QED BY <3>2, <2>1, <2>4 DEF Adds
  <2>9. QED BY <2>5, <2>6, <1>6, <2>7, <2>8
<1>9. CASE UNCHANGED gridVars /\ (Pending(u) => Mask(harq[u].alloc) \cap ul_mask # {})
  <2>1. TypeOK'
    BY <1>1, <1>5, <1>9 DEF TypeOK, histVars, gridVars, Walking
  <2>2. RetxMasks' = RetxMasks /\ \A v : Granted(v)' = Granted(v)
    BY <1>9 DEF RetxMasks, Granted, gridVars
  <2>3. Grid'
    BY <1>1, <1>5, <1>9, <2>2 DEF Grid, UlExclusive, gridVars
  <2>4. Grants'
    <3>1. \A v, b : TypeOf(v, b)' = TypeOf(v, b)
      BY <1>1 DEF TypeOf, Pending
    <3>2. \A g \in ul_data_allocs : g.type = TypeOf(g.user, g.alloc)
      BY <1>1 DEF Grants, Walking
    <3>3. QED BY <1>5, <1>9, <3>1, <3>2 DEF Grants, gridVars
  <2>5. Tried'
    <3> SUFFICES ASSUME NEW v \in Users, harq[v].active, ~Granted(v),
                        pc' \in {"newtx", "results", "air"} \/ (pc' = "retx" /\ v \notin todo')
                 PROVE  Mask(harq[v].alloc) \cap (reserved \cup RetxMasks) # {}
      BY <1>1, <1>9, <2>2 DEF Tried, Refused, gridVars
    <3>1. CASE v = u
      BY <1>1, <1>7, <1>9, <3>1 DEF Grid
    <3>2. CASE v # u
      BY <1>1, <3>2 DEF Tried, Refused
    <3>3. QED BY <3>1, <3>2
  <2>6. QED BY <2>1, <2>3, <1>6, <2>4, <2>5
<1>10. QED BY <1>4, <1>8, <1>9

LEMMA NewTxCore == Core /\ VisitNewTx => Core'
<1> SUFFICES ASSUME Core, VisitNewTx PROVE Core'
  OBVIOUS
<1> USE DEF Core
<1> DEFINE u == NextUser
<1>1. /\ pc = "newtx" /\ (IF Granted(u) THEN UNCHANGED gridVars ELSE NewTxPrbs(u))
      /\ todo' = todo \ {u} /\ pc' = IF todo' = {} THEN "results" ELSE "newtx"
      /\ UNCHANGED <<first, phich, harq, ue, histVars>>
  BY DEF VisitNewTx
<1>2. u \in Users
  BY <1>1, NextFacts DEF TypeOK, Grid
<1> HIDE DEF u
<1>3. /\ todo' \subseteq Users /\ pc' \in {"newtx", "results"} /\ (pc' = "newtx" => todo' # {})
      /\ pc' \in Walking /\ pc' \notin OnAir /\ pc' # "retx"
  BY <1>1 DEF TypeOK, Walking, OnAir
<1>4. Procs'
  <2>1. \A v \in Users : harq[v].active =>
          GoodRange(harq[v].alloc) /\ harq[v].nack /\ harq[v].n_rtx + 1 < MaxTx
    BY <1>1 DEF Procs, OnAir
  <2>2. QED BY <1>1, <2>1 DEF Procs
<1>5. CASE ~Granted(u) /\ \E a \in Allocs : Adds(u, a)
  <2>1. PICK a \in Allocs : Adds(u, a)
    BY <1>5
  <2>2. /\ ul_mask' \subseteq Prbs /\ reserved' \subseteq ul_mask'
        /\ ul_data_allocs' \subseteq
             [user : Users, type : {"NEWTX", "NOADAPT_RETX", "ADAPT_RETX"}, alloc : Allocs]
        /\ \A g \in ul_data_allocs' : Mask(g.alloc) \subseteq ul_mask'
        /\ UlExclusive'
        /\ \A g \in ul_data_allocs' : g.type = TypeOf(g.user, g.alloc)'
    BY <1>1, <1>2, <1>5, <2>1, AddsKeeps DEF Walking
  <2>3. RetxMasks \subseteq RetxMasks' /\ \A v : Granted(v)' <=> Granted(v) \/ v = u
    BY <2>1, AddsRetx
  <2>4. TypeOK'
    BY <1>1, <1>3, <2>2 DEF TypeOK, histVars, Walking
  <2>5. Grid'
    BY <1>3, <2>2 DEF Grid
  <2>6. Grants'
    BY <1>3, <2>2 DEF Grants
  <2>7. Tried'
    <3> SUFFICES ASSUME NEW v \in Users, harq[v].active, ~Granted(v)
                 PROVE  Mask(harq[v].alloc) \cap (reserved' \cup RetxMasks') # {}
      BY <1>1, <2>3 DEF Tried, Refused
    <3>1. Mask(harq[v].alloc) \cap (reserved \cup RetxMasks) # {}
      BY <1>1 DEF Tried, Refused
    <3>2. QED BY <3>1, <2>1, <2>3 DEF Adds
  <2>8. QED BY <2>4, <2>5, <1>4, <2>6, <2>7
<1>6. CASE UNCHANGED gridVars
  <2>1. TypeOK'
    BY <1>1, <1>3, <1>6 DEF TypeOK, histVars, gridVars, Walking
  <2>2. RetxMasks' = RetxMasks /\ \A v : Granted(v)' = Granted(v)
    BY <1>6 DEF RetxMasks, Granted, gridVars
  <2>3. Grid'
    BY <1>1, <1>3, <1>6, <2>2 DEF Grid, UlExclusive, gridVars
  <2>4. Grants'
    <3>1. \A v, b : TypeOf(v, b)' = TypeOf(v, b)
      BY <1>1 DEF TypeOf, Pending
    <3>2. \A g \in ul_data_allocs : g.type = TypeOf(g.user, g.alloc)
      BY <1>1 DEF Grants, Walking
    <3>3. QED BY <1>3, <1>6, <3>1, <3>2 DEF Grants, gridVars
  <2>5. Tried'
    BY <1>1, <1>3, <1>6, <2>2 DEF Tried, Refused, gridVars
  <2>6. QED BY <2>1, <2>3, <1>4, <2>4, <2>5
<1>7. QED
  <2>1. CASE Granted(u)
    BY <1>1, <1>6, <2>1
  <2>2. CASE ~Granted(u)
    BY <1>1, <1>2, <1>5, <1>6, <2>2, NewTxOutcome
  <2>3. QED BY <2>1, <2>2

\* What the three updates of a process set, field by field.
LEMMA FinishFacts ==
  ASSUME NEW h \in ProcType
  PROVE  /\ FinishTti(h) \in ProcType
         /\ FinishTti(h).active = h.active /\ FinishTti(h).nack = h.nack
         /\ FinishTti(h).n_rtx = h.n_rtx /\ FinishTti(h).ndi = h.ndi
         /\ FinishTti(h).alloc = h.alloc /\ FinishTti(h).size = h.size
         /\ FinishTti(h).pending_ack = "none"
BY DEF FinishTti, ProcType

LEMMA NewRetxFacts ==
  ASSUME NEW h \in ProcType, NEW g, g.alloc \in Allocs, h.n_rtx + 1 \in RtxRange
  PROVE  /\ NewRetx(h, g) \in ProcType
         /\ NewRetx(h, g).active = h.active /\ NewRetx(h, g).nack
         /\ NewRetx(h, g).n_rtx = h.n_rtx + 1 /\ NewRetx(h, g).ndi = h.ndi
         /\ NewRetx(h, g).alloc = g.alloc /\ NewRetx(h, g).size = h.size
BY DEF NewRetx, ProcType

LEMMA NewTxFacts ==
  ASSUME NEW h \in ProcType, NEW g, g.alloc \in Allocs, NEW size \in SizeRange
  PROVE  /\ NewTx(h, g, size) \in ProcType
         /\ NewTx(h, g, size).active /\ NewTx(h, g, size).ndi = ~h.ndi
         /\ NewTx(h, g, size).alloc = g.alloc /\ NewTx(h, g, size).n_rtx = 0
BY RangeFacts DEF NewTx, ProcType

\* The process of a granted user after its DCI, and of another.
LEMMA ResultFacts ==
  ASSUME Core, GenerateResults, NEW u \in Users
  PROVE  /\ harq'[u] \in ProcType
         /\ harq'[u].pending_ack = "none"
         /\ Granted(u) => harq'[u].active /\ harq'[u].alloc = GrantOf(u).alloc
         /\ Granted(u) /\ harq[u].active =>
              /\ harq'[u].ndi = harq[u].ndi /\ harq'[u].size = harq[u].size
              /\ harq'[u].n_rtx = harq[u].n_rtx + 1 /\ harq'[u].nack
         /\ Granted(u) /\ ~harq[u].active => harq'[u].ndi = ~harq[u].ndi /\ harq'[u].n_rtx = 0
         /\ ~Granted(u) => harq'[u] = FinishTti(harq[u])
<1> USE DEF Core
<1>1. PICK size \in [Users -> AllSizes] :
        /\ \A v \in Users : size[v] \in Sizes[v]
        /\ harq' = [v \in Users |-> FinishTti(
             IF ~Granted(v) THEN harq[v]
             ELSE IF harq[v].active THEN NewRetx(harq[v], GrantOf(v))
                                    ELSE NewTx(harq[v], GrantOf(v), size[v]))]
  BY DEF GenerateResults
<1> DEFINE h == harq[u]
           g == GrantOf(u)
           s == size[u]
<1>2. harq'[u] = FinishTti(IF ~Granted(u) THEN h
                           ELSE IF h.active THEN NewRetx(h, g) ELSE NewTx(h, g, s))
  BY <1>1
<1>3. h \in ProcType /\ s \in SizeRange
  BY <1>1, TypeParts DEF SizeRange
<1>4. Granted(u) => g.alloc \in Allocs
  <2>1. Granted(u) => g \in ul_data_allocs
    BY GrantFacts DEF Grid
  <2>2. QED BY <2>1 DEF TypeOK
<1>5. h.active => h.n_rtx + 1 \in RtxRange
  BY <1>3, RangeFacts DEF GenerateResults, Procs, OnAir, ProcType
<1> HIDE DEF h, g, s
<1>7. CASE ~Granted(u)
  <2>1. harq'[u] = FinishTti(h)
    BY <1>2, <1>7
  <2>2. QED BY <1>3, <1>7, <2>1, FinishFacts DEF h
<1>8. CASE Granted(u) /\ h.active
  <2> DEFINE r == NewRetx(h, g)
  <2>1. harq'[u] = FinishTti(r)
    BY <1>2, <1>8
  <2>2. /\ r \in ProcType /\ r.active /\ r.nack /\ r.n_rtx = h.n_rtx + 1
        /\ r.ndi = h.ndi /\ r.alloc = g.alloc /\ r.size = h.size
    BY <1>3, <1>4, <1>5, <1>8, NewRetxFacts
  <2> HIDE DEF r
  <2>3. QED BY <1>8, <2>1, <2>2, FinishFacts DEF h, g
<1>9. CASE Granted(u) /\ ~h.active
  <2> DEFINE r == NewTx(h, g, s)
  <2>1. harq'[u] = FinishTti(r)
    BY <1>2, <1>9
  <2>2. r \in ProcType /\ r.active /\ r.ndi = ~h.ndi /\ r.alloc = g.alloc /\ r.n_rtx = 0
    BY <1>3, <1>4, <1>9, NewTxFacts
  <2> HIDE DEF r
  <2>3. QED BY <1>9, <2>1, <2>2, FinishFacts DEF h, g
<1>10. QED BY <1>7, <1>8, <1>9 DEF h

\* The range of a grant is one that a process may have.
LEMMA GrantRange ==
  ASSUME TypeOK, UlExclusive, NEW g \in ul_data_allocs
  PROVE  GoodRange(g.alloc)
<1> DEFINE b == g.alloc.start
           l == g.alloc.len
<1>1. b \in Nat /\ l \in Nat /\ l > 0 /\ NofPrb \in Nat
  BY CellAssumption DEF TypeOK, UlExclusive, Allocs, Prbs
<1>2. \A p \in b .. b + l - 1 : p \in 0 .. NofPrb - 1
  BY DEF UlExclusive, Mask, Prbs
<1> HIDE DEF b, l
<1>3. b + l - 1 \in b .. b + l - 1
  BY <1>1
<1>4. b + l - 1 \in 0 .. NofPrb - 1
  BY <1>2, <1>3
<1>5. b + l <= NofPrb
  BY <1>1, <1>4
<1>6. QED BY <1>1, <1>5 DEF GoodRange, UlExclusive, b, l

\* A grant is for new data exactly if the process was idle when it was given.
LEMMA KindFacts ==
  ASSUME Core, NEW u \in Users, Granted(u)
  PROVE  /\ GrantOf(u) \in ul_data_allocs /\ GrantOf(u).user = u
         /\ pc \in Walking =>
              /\ GrantOf(u).type = TypeOf(u, GrantOf(u).alloc)
              /\ NewGrant(u) <=> ~harq[u].active
         /\ pc \in OnAir => /\ harq[u].active /\ harq[u].alloc = GrantOf(u).alloc
                            /\ NewGrant(u) => harq[u].n_rtx = 0
         /\ GrantOf(u).type \in {"NEWTX", "NOADAPT_RETX", "ADAPT_RETX"}
<1>1. GrantOf(u) \in ul_data_allocs /\ GrantOf(u).user = u
  BY GrantFacts DEF Core, Grid
<1>2. pc \in Walking => GrantOf(u).type = TypeOf(u, GrantOf(u).alloc)
  BY <1>1 DEF Core, Grants
<1>3. pc \in Walking => (NewGrant(u) <=> ~harq[u].active)
  <2>1. pc \in Walking => (harq[u].active <=> Pending(u))
    BY DEF Core, Procs, Pending, Walking, OnAir
  <2>2. QED BY <1>2, <2>1 DEF NewGrant, TypeOf
<1>4. pc \in OnAir => /\ harq[u].active /\ harq[u].alloc = GrantOf(u).alloc
                      /\ NewGrant(u) => harq[u].n_rtx = 0
  BY <1>1 DEF Core, Grants, NewGrant
<1>5. GrantOf(u).type \in {"NEWTX", "NOADAPT_RETX", "ADAPT_RETX"}
  BY <1>1 DEF Core, TypeOK
<1>6. QED BY <1>1, <1>2, <1>3, <1>4, <1>5

LEMMA ResultsCore == Core /\ GenerateResults => Core'
<1> SUFFICES ASSUME Core, GenerateResults PROVE Core'
  OBVIOUS
<1>1. /\ pc = "results" /\ pc' = "air"
      /\ UNCHANGED <<first, todo, gridVars, phich, ue, histVars>>
  BY DEF GenerateResults
<1>2. \A u \in Users :
        /\ harq'[u] \in ProcType
        /\ Granted(u) => harq'[u].active /\ harq'[u].alloc = GrantOf(u).alloc
        /\ Granted(u) /\ ~harq[u].active => harq'[u].n_rtx = 0
        /\ ~Granted(u) => harq'[u] = FinishTti(harq[u])
  BY ResultFacts
<1> USE DEF Core
<1>3. \A u \in Users : ~Granted(u) =>
        /\ harq'[u].active = harq[u].active /\ harq'[u].alloc = harq[u].alloc
        /\ harq'[u].nack = harq[u].nack /\ harq'[u].n_rtx = harq[u].n_rtx
  <2>1. \A u \in Users : harq[u] \in ProcType
    BY TypeParts
  <2>2. QED BY <1>2, <2>1, FinishFacts
<1>4. TypeOK'
  <2>1. harq' = [u \in Users |-> harq'[u]]
    <3>1. \E size \in [Users -> AllSizes] :
            harq' = [v \in Users |-> FinishTti(
              IF ~Granted(v) THEN harq[v]
              ELSE IF harq[v].active THEN NewRetx(harq[v], GrantOf(v))
                                     ELSE NewTx(harq[v], GrantOf(v), size[v]))]
      BY DEF GenerateResults
    <3>2. QED BY <3>1
  <2>2. harq' \in [Users -> ProcType]
    BY <1>2, <2>1
  <2>3. QED BY <1>1, <2>2 DEF TypeOK, ProcType, SizeRange, RtxRange, gridVars, histVars
<1>5. RetxMasks' = RetxMasks /\ \A v : Granted(v)' = Granted(v)
  BY <1>1 DEF RetxMasks, Granted, gridVars
<1>6. Grid'
  BY <1>1 DEF Grid, UlExclusive, gridVars
<1>7. Grants'
  <2>1. \A g \in ul_data_allocs : g.user \in Users /\ Granted(g.user) /\ GrantOf(g.user) = g
    BY GrantFacts DEF Grid, TypeOK
  <2>2. \A g \in ul_data_allocs : g.type = "NEWTX" => ~harq[g.user].active
    BY <1>1, <2>1, KindFacts DEF NewGrant, Walking
  <2>3. QED BY <1>1, <1>2, <2>1, <2>2 DEF Grants, gridVars, Walking
<1>8. Procs'
  <2> SUFFICES ASSUME NEW u \in Users, harq'[u].active
               PROVE  /\ GoodRange(harq'[u].alloc)
                      /\ Granted(u) \/ (harq'[u].nack /\ harq'[u].n_rtx + 1 < MaxTx)
    BY <1>1, <1>5 DEF Procs, OnAir
  <2>1. CASE Granted(u)
    <3>1. GrantOf(u) \in ul_data_allocs
      BY <2>1, GrantFacts DEF Grid
    <3>2. GoodRange(GrantOf(u).alloc)
      BY <3>1, GrantRange DEF Grid
    <3>3. QED BY <1>2, <2>1, <3>2
  <2>2. CASE ~Granted(u)
    BY <1>1, <1>3, <2>2 DEF Procs, OnAir
  <2>3. QED BY <2>1, <2>2
<1>9. Tried'
  BY <1>1, <1>3, <1>5 DEF Tried, Refused, gridVars
<1>10. QED BY <1>4, <1>6, <1>7, <1>8, <1>9

-----------------------------------------------------------------------------
\* The UE: what it sends and what it holds keep their types.
LEMMA UeKeepsType ==
  ASSUME Core, NEW u \in Users, NEW lost \in BOOLEAN, NEW hi \in BOOLEAN
  PROVE  NewGrantUl(u, lost, hi) \in UeType
<1> DEFINE dci == Hears(u, lost)
           new == Granted(u) /\ GrantOf(u).type = "NEWTX"
           q0 == IF new /\ ue[u].tb = "current" THEN [ue[u] EXCEPT !.tb = "old"] ELSE ue[u]
           fb == Feedback(u, q0, dci, hi)
           q == AfterMaxTx(q0, hi)
<1>0. MaxTx \in Nat \ {0}
  BY UlAssumption
<1>1. q0 \in UeType
  BY TypeParts DEF Core, UeType
<1> HIDE DEF q0
<1>2. fb \in BOOLEAN
  BY <1>1 DEF Feedback, UeType
<1>3. \A p \in UeType : UeReset(p) \in UeType
  BY RangeFacts DEF UeReset, UeType
<1>4. q \in UeType
  BY <1>1, <1>3 DEF AfterMaxTx
<1> HIDE DEF q, fb, dci
<1>5. ASSUME NEW p \in UeType, NEW a \in Allocs
      PROVE  Resend(p, a) \in UeType
  <2> DEFINE t == p.tx_nb + 1
  <2>1. t \in Nat
    BY <1>0 DEF UeType, TxRange
  <2>2. Min({t, MaxTx}) \in TxRange
    BY <1>0, <2>1, PairMin DEF TxRange
  <2>3. Resend(p, a) = [p EXCEPT !.tx_nb = Min({t, MaxTx}), !.sent = a]
    BY DEF Resend, UeType
  <2> HIDE DEF t
  <2>4. QED BY <2>2, <2>3 DEF UeType
<1>6. CASE dci
  <2>1. Granted(u)
    BY <1>6 DEF dci, Hears
  <2>2. GrantOf(u).alloc \in Allocs
    BY <2>1, GrantFacts DEF Core, Grid, TypeOK
  <2>3. harq[u].ndi \in BOOLEAN
    BY DEF Core, TypeOK
  <2>4. DciSize(u) \in SizeRange
    BY DEF DciSize, Core, TypeOK, SizeRange
  <2> DEFINE p == AfterSizeChange(u, q, fb)
             r == Resend(p, GrantOf(u).alloc)
             fresh == IsNewTx(u, p)
             z == DciSize(u)
  <2>5. p \in UeType
    BY <1>3, <1>4 DEF AfterSizeChange
  <2> HIDE DEF p
  <2>6. r \in UeType
    BY <1>5, <2>2, <2>5
  <2>7. OnDci(u, q, fb) =
          [r EXCEPT !.tx_nb = IF fresh THEN 1 ELSE @, !.tb = IF fresh THEN "current" ELSE @,
                    !.grant = TRUE, !.ndi = harq[u].ndi, !.feedback = FALSE,
                    !.size = z, !.last = z]
    BY DEF OnDci, p
  <2> HIDE DEF r, fresh, z
  <2>8. z \in SizeRange
    BY <2>4 DEF z
  <2>9. OnDci(u, q, fb) \in UeType
    BY RangeFacts, <2>3, <2>6, <2>7, <2>8 DEF UeType
  <2>10. QED BY <1>6, <2>9 DEF NewGrantUl, dci, q, fb, q0
<1>7. CASE ~dci
  <2> DEFINE p == [q EXCEPT !.feedback = fb]
  <2>1. p \in UeType /\ q.sent \in Allocs
    BY <1>2, <1>4 DEF UeType
  <2> HIDE DEF p
  <2>2. Resend(p, q.sent) \in UeType
    BY <1>5, <2>1
  <2>3. Silent(p) \in UeType
    BY <2>1, NoneType DEF Silent, UeType
  <2>4. OnPhich(q, fb) \in UeType
    BY <2>2, <2>3 DEF OnPhich, p
  <2>5. QED BY <1>7, <2>4 DEF NewGrantUl, dci, q, fb, q0
<1>8. QED BY <1>6, <1>7

LEMMA AirCore == Core /\ Air => Core'
<1> SUFFICES ASSUME Core, Air PROVE Core'
  OBVIOUS
<1>1. pc = "air" /\ pc' = "crc" /\ UNCHANGED <<first, todo, gridVars, phich, harq>>
  BY DEF Air
<1>2. ue' \in [Users -> UeType] /\ missed' \in [Users -> BOOLEAN] /\ astray' \in [Users -> BOOLEAN]
  <2>1. PICK lost \in SUBSET Lossy, hi \in [Users -> BOOLEAN] :
          /\ ue' = [u \in Users |-> NewGrantUl(u, u \in lost, hi[u])]
          /\ missed' = [u \in Users |->
               IF Hears(u, u \in lost) THEN FALSE
               ELSE IF Granted(u) /\ GrantOf(u).type = "NEWTX" THEN ~missed[u]
               ELSE missed[u]]
          /\ astray' = [u \in Users |->
               IF Granted(u) /\ GrantOf(u).type = "NEWTX"
               THEN ~Hears(u, u \in lost) \/ ue'[u].tb # "current"
               ELSE \/ astray[u] \/ Refused(u)
                    \/ Granted(u) /\ NeedsPdcch(GrantOf(u).type) /\ ~Hears(u, u \in lost)]
    BY DEF Air
  <2>2. \A u \in Users : NewGrantUl(u, u \in lost, hi[u]) \in UeType
    <3>1. \A u \in Users : (u \in lost) \in BOOLEAN /\ hi[u] \in BOOLEAN
      OBVIOUS
    <3>2. QED BY <3>1, UeKeepsType
  <2>3. ue' \in [Users -> UeType]
    BY <2>1, <2>2
  <2>4. missed' \in [Users -> BOOLEAN]
    BY <2>1 DEF Core, TypeOK
  <2>5. astray' \in [Users -> BOOLEAN]
    BY <2>1 DEF Core, TypeOK
  <2>6. QED BY <2>3, <2>4, <2>5
<1> USE DEF Core
<1>3. TypeOK'
  BY <1>1, <1>2 DEF TypeOK, UeType, SizeRange, TxRange, gridVars
<1>4. RetxMasks' = RetxMasks /\ \A v : Granted(v)' = Granted(v)
  BY <1>1 DEF RetxMasks, Granted, gridVars
<1>5. Grid'
  BY <1>1 DEF Grid, UlExclusive, gridVars
<1>6. Grants'
  BY <1>1 DEF Grants, gridVars, Walking, OnAir
<1>7. Procs'
  BY <1>1, <1>4 DEF Procs, OnAir
<1>8. Tried'
  BY <1>1 DEF Tried
<1>9. QED BY <1>3, <1>5, <1>6, <1>7, <1>8

-----------------------------------------------------------------------------
LEMMA CoreStep == Core /\ [Next]_vars => Core'
BY StutterCore, CrcCore, StartCore, RetxCore, NewTxCore, ResultsCore, AirCore DEF Next

LEMMA CoreHolds == Spec => []Core
<1>1. QED BY InitCore, CoreStep, PTL DEF Spec

\* Every variable keeps its type: no TB is sent more than maxharq_tx times, and no
\* range leaves the band.
THEOREM TypeCorrect == Spec => []TypeOK
<1>1. Core => TypeOK
  BY DEF Core
<1>2. QED BY CoreHolds, <1>1, PTL

\* No PRB of an uplink subframe is granted twice, nor where PUCCH, PRACH or a Msg3
\* is, and every grant is a range that SC-FDMA can carry.
THEOREM Exclusive == Spec => []UlExclusive
<1>1. Core => UlExclusive
  BY DEF Core, Grid
<1>2. QED BY CoreHolds, <1>1, PTL

\* No retransmission gives way to new data.
THEOREM RetxFirst == Spec => []RetxBeforeNew
<1>1. Core => RetxBeforeNew
  BY DEF Core, Tried, RetxBeforeNew, RetxMasks
<1>2. QED BY CoreHolds, <1>1, PTL

-----------------------------------------------------------------------------
\* What the UE does with a DCI it hears: it sends as the grant says.
LEMMA HeardFacts ==
  ASSUME Core, NEW u \in Users, NEW lost \in BOOLEAN, NEW hi \in BOOLEAN, Hears(u, lost)
  PROVE  /\ NewGrantUl(u, lost, hi).grant
         /\ NewGrantUl(u, lost, hi).ndi = harq[u].ndi
         /\ NewGrantUl(u, lost, hi).sent = GrantOf(u).alloc
         /\ NewGrantUl(u, lost, hi).size = DciSize(u)
         /\ NewGrantUl(u, lost, hi).last = DciSize(u)
         /\ NewGrant(u) /\ (ue[u].grant => harq[u].ndi # ue[u].ndi)
              => NewGrantUl(u, lost, hi).tb = "current"
         /\ NewGrant(u) /\ NewGrantUl(u, lost, hi).tb = "current"
              => NewGrantUl(u, lost, hi).tx_nb = 1
         /\ (/\ ~NewGrant(u) /\ ue[u].grant /\ ue[u].ndi = harq[u].ndi
             /\ ue[u].tb = "current" /\ ue[u].sent # None /\ ~hi /\ ue[u].tx_nb < MaxTx)
              => /\ NewGrantUl(u, lost, hi).tb = "current"
                 /\ NewGrantUl(u, lost, hi).tx_nb = ue[u].tx_nb + 1
<1> DEFINE new == Granted(u) /\ GrantOf(u).type = "NEWTX"
           q0 == IF new /\ ue[u].tb = "current" THEN [ue[u] EXCEPT !.tb = "old"] ELSE ue[u]
           fb == Feedback(u, q0, TRUE, hi)
           q == AfterMaxTx(q0, hi)
           p == AfterSizeChange(u, q, fb)
           fresh == IsNewTx(u, p)
           a == GrantOf(u).alloc
           r == Resend(p, a)
           z == DciSize(u)
           d == harq[u].ndi
<1>1. NewGrantUl(u, lost, hi) =
        [r EXCEPT !.tx_nb = IF fresh THEN 1 ELSE @, !.tb = IF fresh THEN "current" ELSE @,
                  !.grant = TRUE, !.ndi = d, !.feedback = FALSE, !.size = z, !.last = z]
  BY DEF NewGrantUl, OnDci
<1>2. MaxTx \in Nat \ {0}
  BY UlAssumption
<1>3. ue[u] \in UeType
  BY TypeParts DEF Core
<1>4. /\ q0 \in UeType /\ q0.grant = ue[u].grant /\ q0.ndi = ue[u].ndi
      /\ new => q0.tb # "current"
      /\ ~new => q0 = ue[u]
  BY <1>3 DEF UeType
<1> HIDE DEF q0
<1>5. \A x \in UeType : /\ UeReset(x) \in UeType /\ ~UeReset(x).grant /\ UeReset(x).tb = x.tb
  BY RangeFacts DEF UeReset, UeType
<1>6. /\ q \in UeType /\ q.tb = q0.tb
      /\ q.grant => q0.grant /\ q.ndi = q0.ndi
      /\ ~hi /\ q0.tx_nb < MaxTx => q = q0
  <2>1. q = q0 \/ q = UeReset(q0)
    BY DEF AfterMaxTx
  <2>2. ~hi /\ q0.tx_nb < MaxTx => q = q0
    <3>1. q0.tx_nb \in Nat
      BY <1>2, <1>4 DEF UeType, TxRange
    <3>2. QED BY <1>2, <3>1 DEF AfterMaxTx
  <2> HIDE DEF q
  <2>3. QED BY <1>4, <1>5, <2>1, <2>2
<1>7. ~hi /\ q0.sent # None => fb = FALSE
  BY DEF Feedback
<1> HIDE DEF q, fb
<1>8. /\ p \in UeType /\ p.tb = q.tb
      /\ p.grant => q.grant /\ p.ndi = q.ndi
      /\ fb = FALSE => p = q
  <2>1. p = q \/ p = UeReset(q)
    BY DEF AfterSizeChange
  <2>2. fb = FALSE => p = q
    BY DEF AfterSizeChange
  <2> HIDE DEF p
  <2>3. QED BY <1>5, <1>6, <2>1, <2>2
<1>9. fresh <=> d # p.ndi \/ ~p.grant
  BY DEF IsNewTx
<1> HIDE DEF p, fresh
<1> DEFINE t == p.tx_nb + 1
<1>10. r = [p EXCEPT !.tx_nb = Min({t, MaxTx}), !.sent = a]
  BY <1>8 DEF Resend, UeType
<1>11. /\ t \in Nat
       /\ p.tx_nb < MaxTx => Min({t, MaxTx}) = t
  <2>1. p.tx_nb \in Nat
    BY <1>2, <1>8 DEF UeType, TxRange
  <2>2. t \in Nat /\ (p.tx_nb < MaxTx => t <= MaxTx)
    BY <1>2, <2>1
  <2> HIDE DEF t
  <2>3. QED BY <1>2, <2>2, PairMin
<1> DEFINE m == Min({t, MaxTx})
<1> HIDE DEF m, r, z, d, a
<1>12. /\ r.sent = a /\ r.tb = p.tb /\ r.tx_nb = m
       /\ DOMAIN r = {"grant", "ndi", "size", "last", "tx_nb", "feedback", "tb", "sent"}
       /\ r = [x \in DOMAIN r |-> r[x]]
  <2>1. p = [grant |-> p.grant, ndi |-> p.ndi, size |-> p.size, last |-> p.last,
             tx_nb |-> p.tx_nb, feedback |-> p.feedback, tb |-> p.tb, sent |-> p.sent]
    BY <1>8 DEF UeType
  <2>2. r = [grant |-> p.grant, ndi |-> p.ndi, size |-> p.size, last |-> p.last,
             tx_nb |-> m, feedback |-> p.feedback, tb |-> p.tb, sent |-> a]
    BY <1>10, <2>1 DEF m
  <2>3. QED BY <2>2
<1> DEFINE n == NewGrantUl(u, lost, hi)
<1>13. /\ n.grant /\ n.ndi = d /\ n.sent = a /\ n.size = z /\ n.last = z
       /\ n.tb = IF fresh THEN "current" ELSE p.tb
       /\ n.tx_nb = IF fresh THEN 1 ELSE m
  BY <1>1, <1>12
<1> HIDE DEF n
<1>14. new /\ (ue[u].grant => d # ue[u].ndi) => n.tb = "current"
  BY <1>4, <1>6, <1>8, <1>9, <1>13
<1>15. new /\ n.tb = "current" => n.tx_nb = 1
  BY <1>4, <1>6, <1>8, <1>13
<1>16. (/\ ~new /\ ue[u].grant /\ ue[u].ndi = d
        /\ ue[u].tb = "current" /\ ue[u].sent # None /\ ~hi /\ ue[u].tx_nb < MaxTx)
         => n.tb = "current" /\ n.tx_nb = ue[u].tx_nb + 1
  <2> SUFFICES ASSUME ~new, ue[u].grant, ue[u].ndi = d,
                      ue[u].tb = "current", ue[u].sent # None, ~hi, ue[u].tx_nb < MaxTx
               PROVE  n.tb = "current" /\ n.tx_nb = ue[u].tx_nb + 1
    OBVIOUS
  <2>1. p = ue[u]
    BY <1>4, <1>6, <1>7, <1>8
  <2>2. ~fresh
    BY <1>9, <2>1
  <2>3. m = ue[u].tx_nb + 1
    BY <1>11, <2>1 DEF m
  <2>4. QED BY <1>13, <2>1, <2>2, <2>3
<1>17. QED BY <1>13, <1>14, <1>15, <1>16 DEF NewGrant, n, a, z, d

\* What the UE does without a DCI: it goes by the PHICH.
LEMMA PhichFacts ==
  ASSUME Core, NEW u \in Users, NEW lost \in BOOLEAN, NEW hi \in BOOLEAN, ~Hears(u, lost)
  PROVE  /\ NewGrantUl(u, lost, hi).grant =>
              ue[u].grant /\ NewGrantUl(u, lost, hi).ndi = ue[u].ndi
         /\ ~NewGrant(u) /\ ue[u].grant /\ ue[u].sent # None /\ ~hi /\ ue[u].tx_nb < MaxTx
              => /\ NewGrantUl(u, lost, hi).grant
                 /\ NewGrantUl(u, lost, hi).sent = ue[u].sent
                 /\ NewGrantUl(u, lost, hi).tb = ue[u].tb
                 /\ NewGrantUl(u, lost, hi).size = ue[u].size
                 /\ NewGrantUl(u, lost, hi).last = ue[u].last
                 /\ NewGrantUl(u, lost, hi).tx_nb = ue[u].tx_nb + 1
         /\ ~NewGrant(u) /\ (ue[u].sent = None \/ hi \/ ue[u].tx_nb >= MaxTx)
              => NewGrantUl(u, lost, hi).sent = None
<1> DEFINE new == Granted(u) /\ GrantOf(u).type = "NEWTX"
           q0 == IF new /\ ue[u].tb = "current" THEN [ue[u] EXCEPT !.tb = "old"] ELSE ue[u]
           fb == Feedback(u, q0, FALSE, hi)
           q == AfterMaxTx(q0, hi)
           n == NewGrantUl(u, lost, hi)
<1>1. n = OnPhich(q, fb)
  <2>1. Hears(u, lost) = FALSE
    BY DEF Hears
  <2>2. n = IF Hears(u, lost)
            THEN OnDci(u, AfterMaxTx(q0, hi), Feedback(u, q0, Hears(u, lost), hi))
            ELSE OnPhich(AfterMaxTx(q0, hi), Feedback(u, q0, Hears(u, lost), hi))
    BY DEF NewGrantUl
  <2>3. QED BY ONLY <2>1, <2>2
<1>2. MaxTx \in Nat \ {0}
  BY UlAssumption
<1>3. ue[u] \in UeType
  BY TypeParts DEF Core
<1>4. /\ q0 \in UeType /\ q0.grant = ue[u].grant /\ q0.ndi = ue[u].ndi
      /\ ~new => q0 = ue[u]
  BY <1>3 DEF UeType
<1> HIDE DEF q0
<1>5. \A x \in UeType : UeReset(x) \in UeType /\ ~UeReset(x).grant
  BY RangeFacts DEF UeReset, UeType
<1>6. /\ q0.sent # None /\ ~hi => fb = FALSE
      /\ q0.sent # None /\ hi => fb = TRUE
      /\ fb \in BOOLEAN
  BY <1>4 DEF Feedback, UeType
<1>7. /\ q \in UeType
      /\ q.grant => q0.grant /\ q.ndi = q0.ndi
      /\ hi \/ q0.tx_nb < MaxTx \/ q0.sent = None => q = q0
      /\ q0.sent # None /\ ~hi /\ q0.tx_nb >= MaxTx => ~q.grant
  <2>1. q = q0 \/ q = UeReset(q0)
    BY DEF AfterMaxTx
  <2>2. q0.tx_nb \in Nat
    BY <1>2, <1>4 DEF UeType, TxRange
  <2>3. hi \/ q0.tx_nb < MaxTx \/ q0.sent = None => q = q0
    BY <1>2, <2>2 DEF AfterMaxTx
  <2>4. q0.sent # None /\ ~hi /\ q0.tx_nb >= MaxTx => q = UeReset(q0)
    BY DEF AfterMaxTx
  <2> HIDE DEF q
  <2>5. QED BY <1>4, <1>5, <2>1, <2>3, <2>4
<1> HIDE DEF q, fb, n
<1> DEFINE p == [q EXCEPT !.feedback = fb]
           t == p.tx_nb + 1
<1>8. /\ p \in UeType /\ p.grant = q.grant /\ p.ndi = q.ndi /\ p.sent = q.sent /\ p.tb = q.tb
      /\ p.size = q.size /\ p.last = q.last /\ p.tx_nb = q.tx_nb
  BY <1>6, <1>7 DEF UeType
<1>9. n = IF q.sent # None /\ q.grant /\ ~fb THEN Resend(p, q.sent) ELSE Silent(p)
  BY <1>1 DEF OnPhich
<1> HIDE DEF p
<1>10. /\ Resend(p, q.sent).sent = q.sent /\ Resend(p, q.sent).grant = p.grant
       /\ Resend(p, q.sent).ndi = p.ndi /\ Resend(p, q.sent).tb = p.tb
       /\ Resend(p, q.sent).size = p.size /\ Resend(p, q.sent).last = p.last
       /\ p.tx_nb < MaxTx => Resend(p, q.sent).tx_nb = p.tx_nb + 1
  <2>1. p.tx_nb \in Nat
    BY <1>2, <1>8 DEF UeType, TxRange
  <2>2. t \in Nat /\ (p.tx_nb < MaxTx => t <= MaxTx)
    BY <1>2, <2>1
  <2>3. Resend(p, q.sent) = [p EXCEPT !.tx_nb = Min({t, MaxTx}), !.sent = q.sent]
    BY <1>8 DEF Resend, UeType
  <2> HIDE DEF t
  <2>4. p.tx_nb < MaxTx => Min({t, MaxTx}) = t
    BY <1>2, <2>2, PairMin
  <2> DEFINE m == Min({t, MaxTx})
             s == q.sent
  <2> HIDE DEF m, s
  <2>5. Resend(p, q.sent) = [p EXCEPT !.tx_nb = m, !.sent = s]
    BY <2>3 DEF m, s
  <2>6. p.tx_nb < MaxTx => m = t
    BY <2>4 DEF m
  <2>7. QED BY <1>8, <2>5, <2>6 DEF UeType, s, t
<1>11. Silent(p).sent = None /\ Silent(p).grant = p.grant /\ Silent(p).ndi = p.ndi
  BY <1>8 DEF Silent, UeType
<1>12. n.grant => ue[u].grant /\ n.ndi = ue[u].ndi
  BY <1>4, <1>7, <1>8, <1>9, <1>10, <1>11
<1>13. ~new /\ ue[u].grant /\ ue[u].sent # None /\ ~hi /\ ue[u].tx_nb < MaxTx
         => /\ n.grant /\ n.sent = ue[u].sent /\ n.tb = ue[u].tb
            /\ n.size = ue[u].size /\ n.last = ue[u].last /\ n.tx_nb = ue[u].tx_nb + 1
  BY <1>4, <1>6, <1>7, <1>8, <1>9, <1>10
<1>14. ~new /\ (ue[u].sent = None \/ hi \/ ue[u].tx_nb >= MaxTx) => n.sent = None
  BY <1>4, <1>6, <1>7, <1>8, <1>9, <1>11
<1>15. QED BY <1>12, <1>13, <1>14 DEF NewGrant, n

-----------------------------------------------------------------------------
\* What a user gets from a step on the air.
LEMMA AirFacts ==
  ASSUME Air
  PROVE  \E lost \in SUBSET Lossy, hi \in [Users -> BOOLEAN] :
           \A u \in Users :
             /\ hi[u] \in HiValues(u)
             /\ (u \in lost) \in BOOLEAN /\ hi[u] \in BOOLEAN
             /\ ue'[u] = NewGrantUl(u, u \in lost, hi[u])
             /\ missed'[u] = IF Hears(u, u \in lost) THEN FALSE
                             ELSE IF NewGrant(u) THEN ~missed[u] ELSE missed[u]
             /\ astray'[u] = IF NewGrant(u)
                             THEN ~Hears(u, u \in lost) \/ ue'[u].tb # "current"
                             ELSE \/ astray[u] \/ Refused(u)
                                  \/ /\ Granted(u) /\ NeedsPdcch(GrantOf(u).type)
                                     /\ ~Hears(u, u \in lost)
<1>1. PICK lost \in SUBSET Lossy, hi \in [Users -> BOOLEAN] :
        /\ \A u \in Users : hi[u] \in HiValues(u)
        /\ ue' = [u \in Users |-> NewGrantUl(u, u \in lost, hi[u])]
        /\ missed' = [u \in Users |->
             IF Hears(u, u \in lost) THEN FALSE
             ELSE IF Granted(u) /\ GrantOf(u).type = "NEWTX" THEN ~missed[u]
             ELSE missed[u]]
        /\ astray' = [u \in Users |->
             IF Granted(u) /\ GrantOf(u).type = "NEWTX"
             THEN ~Hears(u, u \in lost) \/ ue'[u].tb # "current"
             ELSE \/ astray[u] \/ Refused(u)
                  \/ Granted(u) /\ NeedsPdcch(GrantOf(u).type) /\ ~Hears(u, u \in lost)]
  BY DEF Air
<1>2. ASSUME NEW u \in Users
      PROVE  /\ hi[u] \in HiValues(u)
             /\ (u \in lost) \in BOOLEAN /\ hi[u] \in BOOLEAN
             /\ ue'[u] = NewGrantUl(u, u \in lost, hi[u])
             /\ missed'[u] = IF Hears(u, u \in lost) THEN FALSE
                             ELSE IF NewGrant(u) THEN ~missed[u] ELSE missed[u]
             /\ astray'[u] = IF NewGrant(u)
                             THEN ~Hears(u, u \in lost) \/ ue'[u].tb # "current"
                             ELSE \/ astray[u] \/ Refused(u)
                                  \/ /\ Granted(u) /\ NeedsPdcch(GrantOf(u).type)
                                     /\ ~Hears(u, u \in lost)
  <2>1. hi[u] \in HiValues(u) /\ hi[u] \in BOOLEAN /\ (u \in lost) \in BOOLEAN
    BY <1>1
  <2>2. ue'[u] = NewGrantUl(u, u \in lost, hi[u])
    BY <1>1
  <2>3. missed'[u] = IF Hears(u, u \in lost) THEN FALSE
                     ELSE IF NewGrant(u) THEN ~missed[u] ELSE missed[u]
    BY <1>1 DEF NewGrant
  <2>4. astray'[u] = IF NewGrant(u)
                     THEN ~Hears(u, u \in lost) \/ ue'[u].tb # "current"
                     ELSE \/ astray[u] \/ Refused(u)
                          \/ /\ Granted(u) /\ NeedsPdcch(GrantOf(u).type)
                             /\ ~Hears(u, u \in lost)
    BY <1>1 DEF NewGrant
  <2>5. QED BY <2>1, <2>2, <2>3, <2>4
<1>3. QED BY <1>1, <1>2

\* A step that is not on the air and writes no DCI leaves the UEs alone.
Quiet == UlCrcInfo \/ StartTti \/ VisitRetx \/ VisitNewTx \/ UNCHANGED vars

LEMMA QuietFacts ==
  ASSUME Core, Quiet
  PROVE  /\ UNCHANGED <<ue, missed, astray>>
         /\ \A u \in Users : harq'[u].ndi = harq[u].ndi
         /\ pc = "air" \/ pc' = "air" => UNCHANGED vars
<1>1. CASE UlCrcInfo
  <2>1. /\ UNCHANGED <<ue, missed, astray>> /\ pc = "crc" /\ pc' = "phich"
        /\ \E good \in SUBSET {u \in Users : Decodable(u)} :
             harq' = [u \in Users |-> IF Granted(u) /\ harq[u].active
                                      THEN SetAck(harq[u], u \in good) ELSE harq[u]]
    BY <1>1 DEF UlCrcInfo, histVars
  <2>2. \A u \in Users : \A ok : SetAck(harq[u], ok).ndi = harq[u].ndi
    <3>1. \A u \in Users : harq[u] \in ProcType
      BY TypeParts DEF Core
    <3>2. QED BY <3>1 DEF SetAck, ProcType
  <2>3. \A u \in Users : harq'[u].ndi = harq[u].ndi
    BY <2>1, <2>2
  <2>4. QED BY <2>1, <2>3
<1>2. CASE StartTti
  BY <1>2 DEF StartTti, histVars
<1>3. CASE VisitRetx
  BY <1>3 DEF VisitRetx, histVars
<1>4. CASE VisitNewTx
  BY <1>4 DEF VisitNewTx, histVars
<1>5. CASE UNCHANGED vars
  BY <1>5 DEF vars, histVars
<1>6. QED BY <1>1, <1>2, <1>3, <1>4, <1>5 DEF Quiet

LEMMA StepKinds == [Next]_vars => Quiet \/ GenerateResults \/ Air
BY DEF Next, Quiet

LEMMA ParityInit == Init => Parity
BY DEF Init, Parity, FreshUe

LEMMA ParityStep == Core /\ Parity /\ [Next]_vars => Parity'
<1> SUFFICES ASSUME Core, Parity, [Next]_vars PROVE Parity'
  OBVIOUS
<1>1. CASE Quiet
  <2>1. CASE UNCHANGED vars
    <3>1. /\ ue' = ue /\ harq' = harq /\ missed' = missed /\ pc' = pc
          /\ ul_data_allocs' = ul_data_allocs
      BY <2>1 DEF vars, histVars, gridVars
    <3>2. \A u : NewGrant(u)' = NewGrant(u)
      BY <3>1 DEF NewGrant, Granted, GrantOf
    <3>3. QED BY <3>1, <3>2 DEF Parity
  <2>2. CASE pc # "air" /\ pc' # "air"
    BY <1>1, <2>2, QuietFacts DEF Parity
  <2>3. QED BY <1>1, <2>1, <2>2, QuietFacts
<1>2. CASE GenerateResults
  <2>1. pc = "results" /\ pc' = "air" /\ ue' = ue /\ missed' = missed
        /\ ul_data_allocs' = ul_data_allocs
    BY <1>2 DEF GenerateResults, histVars, gridVars
  <2>2. \A u : NewGrant(u)' = NewGrant(u)
    BY <2>1 DEF NewGrant, Granted, GrantOf
  <2>3. ASSUME NEW u \in Users
        PROVE  harq'[u].ndi = IF NewGrant(u) THEN ~harq[u].ndi ELSE harq[u].ndi
    <3>1. CASE Granted(u)
      BY <1>2, <2>1, <3>1, ResultFacts, KindFacts DEF Walking
    <3>2. CASE ~Granted(u)
      <4>1. harq'[u] = FinishTti(harq[u]) /\ harq[u] \in ProcType
        BY <1>2, <3>2, ResultFacts, TypeParts DEF Core
      <4>2. QED BY <3>2, <4>1, FinishFacts DEF NewGrant
    <3>3. QED BY <3>1, <3>2
  <2>4. ASSUME NEW u \in Users, ue[u].grant
        PROVE  (ue[u].ndi = harq'[u].ndi) <=> (missed[u] <=> NewGrant(u))
    <3>1. (ue[u].ndi = harq[u].ndi) <=> (missed[u] <=> FALSE)
      BY <2>1, <2>4 DEF Parity
    <3>2. ue[u].ndi \in BOOLEAN /\ harq[u].ndi \in BOOLEAN /\ missed[u] \in BOOLEAN
      BY DEF Core, TypeOK
    <3>3. QED BY <2>3, <3>1, <3>2
  <2>5. QED BY <2>1, <2>2, <2>4 DEF Parity
<1>3. CASE Air
  <2>1. pc = "air" /\ pc' = "crc" /\ harq' = harq
    BY <1>3 DEF Air
  <2>2. PICK lost \in SUBSET Lossy, hi \in [Users -> BOOLEAN] :
          \A u \in Users :
             /\ (u \in lost) \in BOOLEAN /\ hi[u] \in BOOLEAN
             /\ ue'[u] = NewGrantUl(u, u \in lost, hi[u])
             /\ missed'[u] = IF Hears(u, u \in lost) THEN FALSE
                             ELSE IF NewGrant(u) THEN ~missed[u] ELSE missed[u]
    BY <1>3, AirFacts
  <2>3. ASSUME NEW u \in Users, ue'[u].grant
        PROVE  (ue'[u].ndi = harq[u].ndi) <=> ~missed'[u]
    <3> DEFINE l == u \in lost
               b == hi[u]
    <3>1. /\ l \in BOOLEAN /\ b \in BOOLEAN
          /\ ue'[u] = NewGrantUl(u, l, b)
          /\ missed'[u] = IF Hears(u, l) THEN FALSE
                          ELSE IF NewGrant(u) THEN ~missed[u] ELSE missed[u]
      BY <2>2
    <3> HIDE DEF l, b
    <3>2. CASE Hears(u, l)
      <4>1. ue'[u].ndi = harq[u].ndi
        BY <3>1, <3>2, HeardFacts
      <4>2. QED BY <3>1, <3>2, <4>1
    <3>3. CASE ~Hears(u, l)
      <4>1. ue[u].grant /\ ue'[u].ndi = ue[u].ndi
        BY <2>3, <3>1, <3>3, PhichFacts
      <4>2. (ue[u].ndi = harq[u].ndi) <=> (missed[u] <=> NewGrant(u))
        BY <2>1, <4>1 DEF Parity
      <4>3. missed[u] \in BOOLEAN
        BY DEF Core, TypeOK
      <4>4. QED BY <3>1, <3>3, <4>1, <4>2, <4>3
    <3>4. QED BY <3>2, <3>3
  <2>4. QED BY <2>1, <2>3 DEF Parity
<1>4. QED BY <1>1, <1>2, <1>3, StepKinds

\* A UE that hears the grant of a new TB takes it for new.
LEMMA NewDataStep ==
  ASSUME Core, Parity, Air, NEW u \in Users,
         NewGrant(u), ~missed[u], ~missed'[u]
  PROVE  ue'[u].tb = "current"
<1>1. PICK lost \in SUBSET Lossy, hi \in [Users -> BOOLEAN] :
        /\ (u \in lost) \in BOOLEAN /\ hi[u] \in BOOLEAN
        /\ ue'[u] = NewGrantUl(u, u \in lost, hi[u])
        /\ missed'[u] = IF Hears(u, u \in lost) THEN FALSE
                        ELSE IF NewGrant(u) THEN ~missed[u] ELSE missed[u]
  BY AirFacts
<1> DEFINE l == u \in lost
           b == hi[u]
<1>2. l \in BOOLEAN /\ b \in BOOLEAN /\ ue'[u] = NewGrantUl(u, l, b) /\ Hears(u, l)
  BY <1>1
<1> HIDE DEF l, b
<1>3. pc = "air"
  BY DEF Air
<1>4. ue[u].grant => harq[u].ndi # ue[u].ndi
  BY <1>3 DEF Parity
<1>5. QED BY <1>2, <1>4, HeardFacts

\* A UE that hears the grant of a new TB sends new data, unless an odd number of
\* new TBs escaped it since the last DCI it heard.
THEOREM NewDataHeard == Spec => NewDataTaken
<1>1. Core /\ Parity /\ [Next]_vars =>
        [pc = "air" => \A u \in Users :
           Granted(u) /\ GrantOf(u).type = "NEWTX" /\ ~missed[u] /\ ~missed'[u]
             => ue'[u].tb = "current"]_vars
  <2> SUFFICES ASSUME Core, Parity, [Next]_vars, ~UNCHANGED vars, pc = "air"
               PROVE  \A u \in Users : NewGrant(u) /\ ~missed[u] /\ ~missed'[u]
                        => ue'[u].tb = "current"
    BY DEF NewGrant
  <2>1. Air
    BY StepKinds, QuietFacts DEF GenerateResults
  <2>2. QED BY <2>1, NewDataStep
<1>2. QED BY CoreHolds, ParityInit, ParityStep, CoreStep, <1>1, PTL DEF Spec, NewDataTaken

-----------------------------------------------------------------------------
LEMMA AgreedInit == Init => Agreed
BY DEF Init, Agreed, Settled, Stops, FreshProc, FreshUe, Walking

\* The CRC tells the process what the PHICH will tell the UE.
LEMMA CrcAgreed ==
  ASSUME Core, Agreed, UlCrcInfo
  PROVE  Agreed'
<1>1. /\ pc = "crc" /\ pc' = "phich" /\ ue' = ue /\ astray' = astray
      /\ \E good \in SUBSET {u \in Users : Decodable(u)} :
           harq' = [u \in Users |-> IF Granted(u) /\ harq[u].active
                                    THEN SetAck(harq[u], u \in good) ELSE harq[u]]
  BY DEF UlCrcInfo, histVars
<1>2. PICK good \in SUBSET {u \in Users : Decodable(u)} :
        harq' = [u \in Users |-> IF Granted(u) /\ harq[u].active
                                 THEN SetAck(harq[u], u \in good) ELSE harq[u]]
  BY <1>1
<1>3. ASSUME NEW u \in Users, ~astray[u]
      PROVE  Settled(u, harq[u].pending_ack)'
  <2> DEFINE ok == u \in good
  <2>1. harq'[u] = IF Granted(u) /\ harq[u].active THEN SetAck(harq[u], ok) ELSE harq[u]
    BY <1>2
  <2> HIDE DEF ok
  <2>2. IF Granted(u)
        THEN SameTb(u) /\ ue[u].sent = harq[u].alloc /\ ue[u].tx_nb = harq[u].n_rtx + 1
        ELSE ue[u].sent = None /\ ~harq[u].active
    BY <1>1, <1>3 DEF Agreed
  <2>3. CASE Granted(u)
    <3> DEFINE h == harq[u]
               s == SetAck(harq[u], ok)
    <3>1. harq'[u] = s
      BY <1>1, <2>1, <2>3, KindFacts DEF OnAir
    <3>2. h \in ProcType
      BY TypeParts DEF Core
    <3>3. /\ s.alloc = h.alloc /\ s.ndi = h.ndi /\ s.size = h.size /\ s.n_rtx = h.n_rtx
          /\ s.pending_ack = IF ok THEN "ack" ELSE "nack"
          /\ s.active <=> ~ok /\ h.n_rtx + 1 < MaxTx
      BY <3>2 DEF SetAck, ProcType
    <3> HIDE DEF s
    <3>4. CASE s.active
      <4>1. SameTb(u)'
        BY <1>1, <2>2, <2>3, <3>1, <3>3 DEF SameTb
      <4>2. QED BY <1>1, <2>2, <2>3, <3>1, <3>3, <3>4, <4>1 DEF Settled
    <3>5. CASE ~s.active
      <4>1. s.pending_ack = "ack" \/ (s.pending_ack = "nack" /\ ue[u].tx_nb >= MaxTx)
        <5>1. h.n_rtx \in Nat /\ MaxTx \in Nat
          BY <3>2, RangeFacts, UlAssumption DEF ProcType
        <5>2. QED BY <2>2, <2>3, <3>3, <3>5, <5>1
      <4>2. QED BY <1>1, <3>1, <3>5, <4>1 DEF Settled, Stops
    <3>6. QED BY <3>4, <3>5
  <2>4. CASE ~Granted(u)
    BY <1>1, <2>1, <2>2, <2>4 DEF Settled, Stops
  <2>5. QED BY <2>3, <2>4
<1>4. QED BY <1>1, <1>3 DEF Agreed, Walking

LEMMA QuietAgreed ==
  ASSUME Core, Agreed, StartTti \/ VisitRetx \/ VisitNewTx
  PROVE  Agreed'
<1>1. /\ harq' = harq /\ ue' = ue /\ astray' = astray
      /\ \/ pc = "phich" /\ phich' = [u \in Users |-> harq[u].pending_ack]
         \/ pc \in Walking /\ phich' = phich
      /\ pc' \in Walking
  BY DEF StartTti, VisitRetx, VisitNewTx, histVars, Walking
<1>2. ASSUME NEW u \in Users, ~astray[u]
      PROVE  Settled(u, phich'[u])
  BY <1>1, <1>2 DEF Agreed
<1>3. \A u \in Users : ~astray'[u] => Settled(u, phich[u])'
  BY <1>1, <1>2 DEF Settled, SameTb, Stops
<1>4. QED BY <1>1, <1>3 DEF Agreed, Walking

\* The DCI of a retransmission finds the UE where the PHICH left it.
LEMMA ResultsAgreed ==
  ASSUME Core, Agreed, GenerateResults
  PROVE  Agreed'
<1>1. /\ pc = "results" /\ pc' = "air" /\ pc \in Walking
      /\ ue' = ue /\ astray' = astray /\ phich' = phich /\ ul_data_allocs' = ul_data_allocs
  BY DEF GenerateResults, gridVars, histVars, Walking
<1>2. \A u : Granted(u)' = Granted(u) /\ GrantOf(u)' = GrantOf(u) /\ NewGrant(u)' = NewGrant(u)
  BY <1>1 DEF Granted, GrantOf, NewGrant
<1>3. ASSUME NEW u \in Users, ~astray[u], ~Granted(u), ~harq'[u].active
      PROVE  Stops(u, phich[u])
  <2>1. harq'[u] = FinishTti(harq[u]) /\ harq[u] \in ProcType
    BY <1>3, ResultFacts, TypeParts DEF Core
  <2>2. ~harq[u].active
    BY <1>3, <2>1, FinishFacts
  <2>3. QED BY <1>1, <1>3, <2>2 DEF Agreed, Settled
<1>4. ASSUME NEW u \in Users, ~astray[u], Granted(u), ~NewGrant(u)
      PROVE  /\ SameTb(u)' /\ phich[u] = "nack"
             /\ ue[u].tx_nb = harq'[u].n_rtx /\ harq'[u].n_rtx < MaxTx
             /\ GrantOf(u).type = "NOADAPT_RETX" => ue[u].sent = harq'[u].alloc
  <2>1. harq[u].active /\ GrantOf(u).type = TypeOf(u, GrantOf(u).alloc)
    BY <1>1, <1>4, KindFacts
  <2>2. /\ SameTb(u) /\ ue[u].sent = harq[u].alloc
        /\ ue[u].tx_nb = harq[u].n_rtx + 1 /\ phich[u] = "nack"
    BY <1>1, <1>4, <2>1 DEF Agreed, Settled
  <2>3. /\ harq'[u] \in ProcType /\ harq'[u].alloc = GrantOf(u).alloc
        /\ harq'[u].ndi = harq[u].ndi /\ harq'[u].size = harq[u].size
        /\ harq'[u].n_rtx = harq[u].n_rtx + 1
    BY <1>4, <2>1, ResultFacts
  <2>4. SameTb(u)'
    BY <1>1, <2>2, <2>3 DEF SameTb
  <2>5. harq'[u].n_rtx < MaxTx
    BY <2>3, RangeFacts DEF ProcType
  <2>6. GrantOf(u).type = "NOADAPT_RETX" => ue[u].sent = harq'[u].alloc
    <3>1. GrantOf(u).type = "NOADAPT_RETX" => GrantOf(u).alloc = harq[u].alloc
      BY <2>1 DEF TypeOf
    <3>2. QED BY <2>2, <2>3, <3>1
  <2>7. QED BY <2>2, <2>3, <2>4, <2>5, <2>6
<1>5. ASSUME NEW u \in Users, ~astray'[u]
      PROVE  /\ ~Granted(u)' /\ ~harq'[u].active => Stops(u, phich[u])'
             /\ Granted(u)' /\ ~NewGrant(u)' =>
                  /\ SameTb(u)' /\ phich'[u] = "nack"
                  /\ ue'[u].tx_nb = harq'[u].n_rtx /\ harq'[u].n_rtx < MaxTx
                  /\ GrantOf(u)'.type = "NOADAPT_RETX" => ue'[u].sent = harq'[u].alloc
  <2>1. ~astray[u]
    BY <1>1, <1>5
  <2>2. ~Granted(u)' /\ ~harq'[u].active => Stops(u, phich[u])'
    <3>1. Stops(u, phich[u])' <=> Stops(u, phich[u])
      BY <1>1 DEF Stops
    <3>2. QED BY <1>2, <1>3, <2>1, <3>1
  <2>3. Granted(u)' /\ ~NewGrant(u)' =>
          /\ SameTb(u)' /\ phich'[u] = "nack"
          /\ ue'[u].tx_nb = harq'[u].n_rtx /\ harq'[u].n_rtx < MaxTx
          /\ GrantOf(u)'.type = "NOADAPT_RETX" => ue'[u].sent = harq'[u].alloc
    BY <1>1, <1>2, <1>4, <2>1
  <2>4. QED BY <2>2, <2>3
<1>6. QED BY <1>1, <1>5 DEF Agreed, Walking

\* On the air the UE sends what its grant, or the PHICH, says.
LEMMA AirAgreed ==
  ASSUME Core, Agreed, Air
  PROVE  Agreed'
<1>1. /\ pc = "air" /\ pc' = "crc" /\ pc \in OnAir /\ harq' = harq
      /\ ul_data_allocs' = ul_data_allocs
  BY DEF Air, gridVars, OnAir
<1>2. \A u : Granted(u)' = Granted(u)
  BY <1>1 DEF Granted
<1>3. PICK lost \in SUBSET Lossy, hi \in [Users -> BOOLEAN] :
        \A u \in Users :
          /\ hi[u] \in HiValues(u)
          /\ (u \in lost) \in BOOLEAN /\ hi[u] \in BOOLEAN
          /\ ue'[u] = NewGrantUl(u, u \in lost, hi[u])
          /\ astray'[u] = IF NewGrant(u)
                          THEN ~Hears(u, u \in lost) \/ ue'[u].tb # "current"
                          ELSE \/ astray[u] \/ Refused(u)
                               \/ /\ Granted(u) /\ NeedsPdcch(GrantOf(u).type)
                                  /\ ~Hears(u, u \in lost)
  BY AirFacts
<1>4. ASSUME NEW u \in Users, ~astray'[u]
      PROVE  IF Granted(u)
             THEN SameTb(u)' /\ ue'[u].sent = harq[u].alloc /\ ue'[u].tx_nb = harq[u].n_rtx + 1
             ELSE ue'[u].sent = None /\ ~harq[u].active
  <2> DEFINE l == u \in lost
             b == hi[u]
  <2>1. /\ b \in HiValues(u) /\ l \in BOOLEAN /\ b \in BOOLEAN
        /\ ue'[u] = NewGrantUl(u, l, b)
        /\ astray'[u] = IF NewGrant(u)
                        THEN ~Hears(u, l) \/ ue'[u].tb # "current"
                        ELSE \/ astray[u] \/ Refused(u)
                             \/ /\ Granted(u) /\ NeedsPdcch(GrantOf(u).type)
                                /\ ~Hears(u, l)
    BY <1>3
  <2> HIDE DEF l, b
  <2>2. harq[u] \in ProcType
    BY TypeParts DEF Core
  <2>3. phich[u] = "ack" => b
    BY <2>1 DEF HiValues
  <2>4. phich[u] = "nack" => ~b
    BY <2>1 DEF HiValues
  <2>5. CASE NewGrant(u)
    <3>1. Hears(u, l) /\ ue'[u].tb = "current" /\ Granted(u)
      BY <1>4, <2>1, <2>5 DEF NewGrant
    <3>2. /\ ue'[u].grant /\ ue'[u].ndi = harq[u].ndi /\ ue'[u].sent = GrantOf(u).alloc
          /\ ue'[u].size = DciSize(u) /\ ue'[u].last = DciSize(u) /\ ue'[u].tx_nb = 1
      BY <2>1, <2>5, <3>1, HeardFacts
    <3>3. DciSize(u) = harq[u].size
      BY <2>5 DEF DciSize, NewGrant
    <3>4. harq[u].alloc = GrantOf(u).alloc /\ harq[u].active
      BY <1>1, <3>1, KindFacts
    <3>5. harq[u].n_rtx = 0
      BY <1>1, <2>5, <3>1, KindFacts
    <3>6. harq[u].alloc # None
      BY <3>4 DEF Core, Procs, GoodRange, None
    <3>7. SameTb(u)'
      BY <1>1, <3>1, <3>2, <3>3, <3>4, <3>6 DEF SameTb
    <3>8. QED BY <3>1, <3>2, <3>4, <3>5, <3>7
  <2>6. CASE Granted(u) /\ ~NewGrant(u)
    <3>1. ~astray[u] /\ (NeedsPdcch(GrantOf(u).type) => Hears(u, l))
      BY <1>4, <2>1, <2>6
    <3>2. /\ SameTb(u) /\ phich[u] = "nack"
          /\ ue[u].tx_nb = harq[u].n_rtx /\ harq[u].n_rtx < MaxTx
          /\ GrantOf(u).type = "NOADAPT_RETX" => ue[u].sent = harq[u].alloc
      BY <1>1, <2>6, <3>1 DEF Agreed
    <3>3. ~b /\ harq[u].alloc = GrantOf(u).alloc /\ harq[u].active
      BY <1>1, <2>4, <2>6, <3>2, KindFacts
    <3>4. harq[u].alloc # None
      BY <3>3 DEF Core, Procs, GoodRange, None
    <3>5. CASE Hears(u, l)
      <4>1. /\ ue'[u].grant /\ ue'[u].ndi = harq[u].ndi /\ ue'[u].sent = GrantOf(u).alloc
            /\ ue'[u].size = DciSize(u) /\ ue'[u].last = DciSize(u)
            /\ ue'[u].tb = "current" /\ ue'[u].tx_nb = ue[u].tx_nb + 1
        BY <2>1, <2>6, <3>2, <3>3, <3>5, HeardFacts DEF SameTb
      <4>2. DciSize(u) = harq[u].size
        BY <2>6, <3>2 DEF DciSize, NewGrant, SameTb
      <4>3. SameTb(u)'
        BY <1>1, <3>3, <3>4, <4>1, <4>2 DEF SameTb
      <4>4. QED BY <2>6, <3>2, <3>3, <4>1, <4>3
    <3>6. CASE ~Hears(u, l)
      <4>1. GrantOf(u).type = "NOADAPT_RETX"
        BY <3>1, <3>6 DEF NeedsPdcch
      <4>2. /\ ue'[u].grant /\ ue'[u].sent = ue[u].sent /\ ue'[u].tb = ue[u].tb
            /\ ue'[u].size = ue[u].size /\ ue'[u].last = ue[u].last
            /\ ue'[u].tx_nb = ue[u].tx_nb + 1 /\ ue'[u].ndi = ue[u].ndi
        BY <2>1, <2>6, <3>2, <3>3, <3>6, PhichFacts DEF SameTb
      <4>3. SameTb(u)'
        BY <1>1, <3>2, <4>2 DEF SameTb
      <4>4. QED BY <2>6, <3>2, <4>1, <4>2, <4>3
    <3>7. QED BY <3>5, <3>6
  <2>7. CASE ~Granted(u)
    <3>1. ~NewGrant(u) /\ ~Hears(u, l)
      BY <2>7 DEF NewGrant, Hears
    <3>2. ~astray[u] /\ ~harq[u].active
      BY <1>4, <2>1, <2>7, <3>1 DEF Refused
    <3>3. Stops(u, phich[u])
      BY <1>1, <2>7, <3>2 DEF Agreed
    <3>4. ue'[u].sent = None
      BY <2>1, <2>3, <2>4, <3>1, <3>3, PhichFacts DEF Stops
    <3>5. QED BY <2>7, <3>2, <3>4
  <2>8. QED BY <2>5, <2>6, <2>7
<1>5. QED BY <1>1, <1>2, <1>4 DEF Agreed, Walking

LEMMA AgreedStep == Core /\ Agreed /\ [Next]_vars => Agreed'
<1> SUFFICES ASSUME Core, Agreed, [Next]_vars PROVE Agreed'
  OBVIOUS
<1>1. CASE UNCHANGED vars
  <2>1. /\ pc' = pc /\ ue' = ue /\ harq' = harq /\ astray' = astray /\ phich' = phich
        /\ ul_data_allocs' = ul_data_allocs
    BY <1>1 DEF vars, gridVars, histVars
  <2>2. \A u : Granted(u)' = Granted(u) /\ GrantOf(u)' = GrantOf(u) /\ NewGrant(u)' = NewGrant(u)
    BY <2>1 DEF Granted, GrantOf, NewGrant
  <2>3. \A u : SameTb(u)' = SameTb(u)
    BY <2>1 DEF SameTb
  <2>4. ASSUME NEW u \in Users
        PROVE  /\ Settled(u, harq[u].pending_ack)' = Settled(u, harq[u].pending_ack)
               /\ Settled(u, phich[u])' = Settled(u, phich[u])
               /\ Stops(u, phich[u])' = Stops(u, phich[u])
    BY <2>1, <2>3 DEF Settled, Stops
  <2>5. QED BY <2>1, <2>2, <2>3, <2>4 DEF Agreed
<1>2. QED
  BY <1>1, CrcAgreed, QuietAgreed, ResultsAgreed, AirAgreed DEF Next

\* As long as no DCI is lost and no retransmission is refused, the UE sends on the
\* PRBs of its grant, with the TB the eNB waits for, and is silent without one.
THEOREM Obeyed == Spec => []GrantObeyed
<1>1. Core /\ Agreed => GrantObeyed
  <2> SUFFICES ASSUME Core, Agreed, pc = "crc", NEW u \in Users, ~astray[u]
               PROVE  IF Granted(u) THEN ue[u].sent = GrantOf(u).alloc /\ ue[u].tb = "current"
                                    ELSE ue[u].sent = None
    BY DEF GrantObeyed
  <2>1. Granted(u) => harq[u].alloc = GrantOf(u).alloc
    BY KindFacts DEF OnAir
  <2>2. QED BY <2>1 DEF Agreed, SameTb
<1>2. QED BY CoreHolds, AgreedInit, AgreedStep, CoreStep, <1>1, PTL DEF Spec
=============================================================================
