------------------------ MODULE SlicedDlSched_proofs ------------------------
(***************************************************************************)
(* What holds of the downlink scheduler for every cell bandwidth, number   *)
(* of users, slices and processes, every set of masks and every policy.    *)
(***************************************************************************)
EXTENDS SlicedDlSched, OrderFacts, FiniteSetTheorems, TLAPS

\* The next user of the walk is one of the users.
LEMMA NextUserInDb ==
  ASSUME ue_db \subseteq Users, ue_db # {}, NEW u
  PROVE  NextUser(u) \in ue_db
<1> DEFINE above == {v \in ue_db : v > u}
           from  == IF above = {} THEN ue_db ELSE above
<1>1. from \in SUBSET Nat /\ from # {} /\ from \subseteq ue_db /\ IsFiniteSet(from)
  BY UserAssumption, FS_Subset
<1> HIDE DEF from
<1>2. \E v \in from : \A w \in from : v <= w
  BY <1>1, LeastExists
<1>3. (CHOOSE v \in from : \A w \in from : v <= w) \in from
  BY <1>2
<1>4. QED BY <1>1, <1>3 DEF NextUser, from

\* The grid of a cell is finite, and so is every mask on it.
LEMMA MasksFinite ==
  /\ IsFiniteSet(Rbgs) /\ Cardinality(Rbgs) = NofRbgs
  /\ \A m \in SUBSET Rbgs : IsFiniteSet(m) /\ Cardinality(m) \in 0..NofRbgs
<1>1. IsFiniteSet(Rbgs) /\ Cardinality(Rbgs) = NofRbgs
  BY FS_Interval, GridAssumption DEF Rbgs
<1>2. ASSUME NEW m \in SUBSET Rbgs
      PROVE  IsFiniteSet(m) /\ Cardinality(m) \in 0..NofRbgs
  BY <1>1, FS_Subset, FS_CardinalityType, GridAssumption
<1>3. QED BY <1>1, <1>2

\* Taking a free mask lowers the count of free RBGs by its size.
LEMMA TakeCounts ==
  ASSUME NEW T \in SUBSET Rbgs, NEW m \in SUBSET Rbgs, T \cap m = {}
  PROVE  /\ Cardinality(T \cup m) = Cardinality(T) + Cardinality(m)
         /\ NofRbgs - Cardinality(T \cup m) \in 0..NofRbgs
<1>1. IsFiniteSet(T) /\ IsFiniteSet(m) /\ T \cup m \in SUBSET Rbgs
  BY MasksFinite
<1>2. Cardinality(T \cup m) = Cardinality(T) + Cardinality(m) - Cardinality({})
  BY <1>1, FS_Union
<1>3. Cardinality(T) \in 0..NofRbgs /\ Cardinality(m) \in 0..NofRbgs
      /\ Cardinality(T \cup m) \in 0..NofRbgs
  BY <1>1, MasksFinite
<1>4. QED BY <1>2, <1>3, FS_EmptySet, GridAssumption

-----------------------------------------------------------------------------
(***************************************************************************)
(* The grid.                                                               *)
(***************************************************************************)
GridType ==
  /\ dl_mask \subseteq Rbgs /\ avail_rbg \in 0..NofRbgs /\ reserved \in BOOLEAN
  /\ cfi \in MinCfi..MaxCfi
  /\ ctrl_allocs \subseteq [type : {"BC", "RAR"}, rbgs : SUBSET Rbgs]
  /\ data_allocs \subseteq [user : Users, pid : Pids, mask : SUBSET Rbgs]
GridInv == GridType /\ GridAccounts /\ GridExclusive

\* Adding a mask to a set of masks adds its RBGs.
LEMMA UnionOfOneMore ==
  ASSUME NEW A, NEW m
  PROVE  UNION (A \cup {m}) = (UNION A) \cup m
OBVIOUS

\* What is taken is part of the grid.
LEMMA TakenWithinGrid ==
  ASSUME GridType
  PROVE  CtrlTaken \in SUBSET Rbgs /\ DataTaken \in SUBSET Rbgs
BY DEF GridType, CtrlTaken, DataTaken

\* A user grant on free RBGs keeps the books of the grid.
LEMMA UserGrant ==
  ASSUME GridInv, NEW u \in Users, NEW p \in Pids, NEW m \in SUBSET Rbgs,
         m \cap dl_mask = {}, AllocDlUser(u, m, p)
  PROVE  GridInv'
<1> DEFINE a0 == [user |-> u, pid |-> p, mask |-> m]
           T == CtrlTaken \cup DataTaken
<1>1. data_allocs' = data_allocs \cup {a0} /\ ctrl_allocs' = ctrl_allocs /\ reserved' = reserved
  BY DEF AllocDlUser
<1>2. CtrlTaken' = CtrlTaken /\ DataTaken' = DataTaken \cup m
  <2>1. a0.mask = m
    OBVIOUS
  <2> HIDE DEF a0
  <2>2. {a.mask : a \in data_allocs \cup {a0}} = {a.mask : a \in data_allocs} \cup {m}
    BY <2>1
  <2>3. QED BY <1>1, <2>2, UnionOfOneMore DEF CtrlTaken, DataTaken
<1>3. T \in SUBSET Rbgs /\ T \subseteq dl_mask /\ T \cap m = {}
  BY TakenWithinGrid DEF GridInv, GridAccounts
<1>4. avail_rbg' = NofRbgs - Cardinality(T \cup m) /\ avail_rbg' \in 0..NofRbgs
  <2>1. avail_rbg' = avail_rbg - Cardinality(m) /\ avail_rbg = NofRbgs - Cardinality(T)
    BY DEF AllocDlUser, Take, GridInv, GridAccounts
  <2>2. Cardinality(m) \in 0..NofRbgs /\ Cardinality(T) \in 0..NofRbgs
    BY <1>3, MasksFinite
  <2> HIDE DEF T
  <2>3. Cardinality(T \cup m) = Cardinality(T) + Cardinality(m)
        /\ NofRbgs - Cardinality(T \cup m) \in 0..NofRbgs
    BY <1>3, TakeCounts
  <2>4. QED BY <2>1, <2>2, <2>3, GridAssumption
<1>5. GridType'
  <2>1. a0 \in [user : Users, pid : Pids, mask : SUBSET Rbgs]
    OBVIOUS
  <2>2. data_allocs' \subseteq [user : Users, pid : Pids, mask : SUBSET Rbgs]
    BY <1>1, <2>1 DEF GridInv, GridType
  <2>3. dl_mask' \subseteq Rbgs
    BY DEF AllocDlUser, Take, GridInv, GridType
  <2>4. cfi' \in MinCfi..MaxCfi
    BY GridAssumption DEF AllocDlUser, Dci, GridInv, GridType
  <2>5. QED BY <1>1, <1>4, <2>2, <2>3, <2>4 DEF GridInv, GridType
<1>6. GridAccounts'
  <2>1. dl_mask' = dl_mask \cup m
    BY DEF AllocDlUser, Take
  <2>2. CtrlTaken' \cup DataTaken' = T \cup m
    BY <1>2
  <2>3. dl_mask' = IF reserved' THEN Rbgs ELSE CtrlTaken' \cup DataTaken'
    BY <1>1, <2>1, <2>2 DEF GridInv, GridAccounts
  <2>4. QED BY <1>4, <2>2, <2>3 DEF GridAccounts
<1>7. GridExclusive'
  <2>1. \A a \in data_allocs : a.mask \subseteq DataTaken
    BY DEF DataTaken
  <2>2. \A a, b \in data_allocs' : a # b => a.mask \cap b.mask = {}
    <3> SUFFICES ASSUME NEW a \in data_allocs', NEW b \in data_allocs', a # b
                 PROVE  a.mask \cap b.mask = {}
      OBVIOUS
    <3>1. CASE a \in data_allocs /\ b \in data_allocs
      BY <3>1 DEF GridInv, GridExclusive
    <3>2. CASE a \in data_allocs /\ b = a0
      BY <3>2, <1>3, <2>1
    <3>3. CASE b \in data_allocs /\ a = a0
      BY <3>3, <1>3, <2>1
    <3>4. QED BY <1>1, <3>1, <3>2, <3>3
  <2>3. CtrlTaken' \cap DataTaken' = {}
    BY <1>2, <1>3 DEF GridInv, GridExclusive
  <2>4. \A a, b \in ctrl_allocs' : a # b => a.rbgs \cap b.rbgs = {}
    BY <1>1 DEF GridInv, GridExclusive
  <2>5. QED BY <2>2, <2>3, <2>4 DEF GridExclusive
<1>8. QED BY <1>5, <1>6, <1>7 DEF GridInv

\* So does a broadcast, paging or RAR allocation.
LEMMA CtrlGrant ==
  ASSUME GridInv, NEW type \in {"BC", "RAR"}, NEW n \in Nat \ {0}, AllocDlCtrl(type, n)
  PROVE  GridInv'
<1> DEFINE m == CtrlRange(n)
           c0 == [type |-> type, rbgs |-> m]
           T == CtrlTaken \cup DataTaken
<1>1. m \in SUBSET Rbgs
  BY GridAssumption DEF AllocDlCtrl, CtrlRange, Rbgs, GridInv, GridType
<1>2. m \cap dl_mask = {} /\ dl_mask' = dl_mask \cup m
      /\ avail_rbg' = avail_rbg - Cardinality(m)
  BY DEF AllocDlCtrl, Take
<1> HIDE DEF m
<1>3. ctrl_allocs' = ctrl_allocs \cup {c0} /\ data_allocs' = data_allocs /\ reserved' = reserved
  BY DEF AllocDlCtrl, m
<1>4. DataTaken' = DataTaken /\ CtrlTaken' = CtrlTaken \cup m
  <2>1. c0.rbgs = m
    OBVIOUS
  <2> HIDE DEF c0
  <2>2. {c.rbgs : c \in ctrl_allocs \cup {c0}} = {c.rbgs : c \in ctrl_allocs} \cup {m}
    BY <2>1
  <2>3. QED BY <1>3, <2>2, UnionOfOneMore DEF CtrlTaken, DataTaken
<1>5. T \in SUBSET Rbgs /\ T \subseteq dl_mask /\ T \cap m = {}
  BY <1>2, TakenWithinGrid DEF GridInv, GridAccounts
<1>6. avail_rbg' = NofRbgs - Cardinality(T \cup m) /\ avail_rbg' \in 0..NofRbgs
  <2>1. avail_rbg = NofRbgs - Cardinality(T)
    BY DEF GridInv, GridAccounts
  <2>2. Cardinality(m) \in 0..NofRbgs /\ Cardinality(T) \in 0..NofRbgs
    BY <1>1, <1>5, MasksFinite
  <2> HIDE DEF T
  <2>3. Cardinality(T \cup m) = Cardinality(T) + Cardinality(m)
        /\ NofRbgs - Cardinality(T \cup m) \in 0..NofRbgs
    BY <1>1, <1>5, TakeCounts
  <2>4. QED BY <1>2, <2>1, <2>2, <2>3, GridAssumption
<1>7. GridType'
  <2>1. c0 \in [type : {"BC", "RAR"}, rbgs : SUBSET Rbgs]
    BY <1>1
  <2>2. ctrl_allocs' \subseteq [type : {"BC", "RAR"}, rbgs : SUBSET Rbgs]
    BY <1>3, <2>1 DEF GridInv, GridType
  <2>3. cfi' \in MinCfi..MaxCfi
    BY GridAssumption DEF AllocDlCtrl, Dci, GridInv, GridType
  <2>4. QED BY <1>1, <1>2, <1>3, <1>6, <2>2, <2>3 DEF GridInv, GridType
<1>8. GridAccounts'
  <2>1. CtrlTaken' \cup DataTaken' = T \cup m
    BY <1>4
  <2>2. dl_mask' = IF reserved' THEN Rbgs ELSE CtrlTaken' \cup DataTaken'
    BY <1>1, <1>2, <1>3, <2>1 DEF GridInv, GridAccounts
  <2>3. QED BY <1>6, <2>1, <2>2 DEF GridAccounts
<1>9. GridExclusive'
  <2>1. \A c \in ctrl_allocs : c.rbgs \subseteq CtrlTaken
    BY DEF CtrlTaken
  <2>2. \A a, b \in ctrl_allocs' : a # b => a.rbgs \cap b.rbgs = {}
    <3> SUFFICES ASSUME NEW a \in ctrl_allocs', NEW b \in ctrl_allocs', a # b
                 PROVE  a.rbgs \cap b.rbgs = {}
      OBVIOUS
    <3>1. CASE a \in ctrl_allocs /\ b \in ctrl_allocs
      BY <3>1 DEF GridInv, GridExclusive
    <3>2. CASE a \in ctrl_allocs /\ b = c0
      BY <3>2, <1>5, <2>1
    <3>3. CASE b \in ctrl_allocs /\ a = c0
      BY <3>3, <1>5, <2>1
    <3>4. QED BY <1>3, <3>1, <3>2, <3>3
  <2>3. CtrlTaken' \cap DataTaken' = {}
    BY <1>4, <1>5 DEF GridInv, GridExclusive
  <2>4. \A a, b \in data_allocs' : a # b => a.mask \cap b.mask = {}
    BY <1>3 DEF GridInv, GridExclusive
  <2>5. QED BY <2>2, <2>3, <2>4 DEF GridExclusive
<1>10. QED BY <1>7, <1>8, <1>9 DEF GridInv

-----------------------------------------------------------------------------
(***************************************************************************)
(* What one visit of a user does to the grid and to the TTI masks.         *)
(***************************************************************************)
TtiType == tti_slicing_mask \in [Slices -> [Rbgs -> Flags]]
HarqType == harq \in [Users -> [Pids -> HarqProcs]]

\* Nothing is granted, or one mask of free RBGs; new data only inside the slice,
\* whose TTI mask stops offering it.
OneGrant(u, s) ==
  \/ UNCHANGED gridVars
  \/ \E p \in Pids : \E m \in SUBSET Rbgs :
       /\ m \cap dl_mask = {} /\ AllocDlUser(u, m, p) /\ ~Granted(u)
       /\ harq[u][p].active => harq[u][p].nack
       /\ Idle(harq[u][p]) /\ SlicingEnabled /\ s # -1 =>
            m \subseteq Ones(tti_slicing_mask[s]) /\ m \cap Ones(tti_slicing_mask'[s]) = {}
TtiShrinks ==
  TtiType' /\ \A t \in Slices : Ones(tti_slicing_mask'[t]) \subseteq Ones(tti_slicing_mask[t])

\* A mask found by find_allocation lies in the grid.
LEMMA FoundInGrid ==
  ASSUME NEW min, NEW max, NEW m \in FindAllocation(min, max)
  PROVE  m \in SUBSET Rbgs
BY DEF FindAllocation, Lowest, Free

\* Marking RBGs as taken only clears bits.
LEMMA MarkShrinks ==
  ASSUME TtiType, NEW s \in Slices, NEW max, tti_slicing_mask' = MarkTaken(s, max)
  PROVE  TtiShrinks
<1>1. CASE max = 0
  BY <1>1 DEF MarkTaken, TtiShrinks, TtiType
<1>2. CASE max # 0
  <2> DEFINE R == FindAllocationSlicing(s, max) \cup CtrlRbgs
             f == Unmark(tti_slicing_mask[s], R)
  <2>1. tti_slicing_mask' = [tti_slicing_mask EXCEPT ![s] = f]
    BY <1>2 DEF MarkTaken
  <2>2. f \in [Rbgs -> Flags] /\ \A r \in Rbgs : f[r] = 1 => tti_slicing_mask[s][r] = 1
    <3> HIDE DEF R
    <3>1. f = [r \in Rbgs |-> IF r \in R THEN 0 ELSE tti_slicing_mask[s][r]]
      BY DEF Unmark
    <3>2. tti_slicing_mask[s] \in [Rbgs -> Flags]
      BY DEF TtiType
    <3> HIDE DEF f
    <3>3. QED BY <3>1, <3>2 DEF Flags
  <2> HIDE DEF f
  <2>3. TtiType'
    BY <2>1, <2>2 DEF TtiType
  <2>4. \A t \in Slices : Ones(tti_slicing_mask'[t]) \subseteq Ones(tti_slicing_mask[t])
    <3>1. TAKE t \in Slices
    <3>2. CASE t = s
      BY <3>2, <2>1, <2>2 DEF Ones, TtiType
    <3>3. CASE t # s
      BY <3>3, <2>1 DEF Ones, TtiType
    <3>4. QED BY <3>2, <3>3
  <2>5. QED BY <2>3, <2>4 DEF TtiShrinks
<1>3. QED BY <1>1, <1>2

\* What find_allocation_slicing finds is marked as taken.
LEMMA MarkClears ==
  ASSUME TtiType, NEW s \in Slices, NEW max, tti_slicing_mask' = MarkTaken(s, max)
  PROVE  FindAllocationSlicing(s, max) \cap Ones(tti_slicing_mask'[s]) = {}
<1> DEFINE found == FindAllocationSlicing(s, max)
<1>1. CASE max = 0
  <2>1. ASSUME NEW r \in found PROVE FALSE
    <3> DEFINE S == Ones(tti_slicing_mask[s]) \ CtrlRbgs
               below == {q \in S : q < r}
    <3>1. Cardinality(below) < 0
      BY <1>1 DEF FindAllocationSlicing, Lowest
    <3>2. below \in SUBSET Rbgs
      BY DEF Ones
    <3> HIDE DEF below
    <3>3. Cardinality(below) \in 0..NofRbgs
      BY <3>2, MasksFinite
    <3>4. QED BY <3>1, <3>3, GridAssumption
  <2>2. QED BY <2>1
<1>2. CASE max # 0
  <2> DEFINE R == found \cup CtrlRbgs
  <2>1. tti_slicing_mask'[s] = Unmark(tti_slicing_mask[s], R)
    BY <1>2 DEF MarkTaken, TtiType
  <2>2. found \subseteq R
    OBVIOUS
  <2> HIDE DEF found, R
  <2>3. \A r \in R : r \notin Ones(Unmark(tti_slicing_mask[s], R))
    BY DEF Unmark, Ones
  <2>4. found \cap Ones(tti_slicing_mask'[s]) = {}
    BY <2>1, <2>2, <2>3
  <2>5. QED BY <2>4 DEF found
<1>3. QED BY <1>1, <1>2

\* An untouched TTI mask has not grown.
LEMMA TtiStays ==
  ASSUME TtiType, UNCHANGED tti_slicing_mask
  PROVE  TtiShrinks
BY DEF TtiShrinks, TtiType

\* A retransmission takes a mask that fits, or nothing.
LEMMA RetransmitGrants ==
  ASSUME TtiType, HarqType, NEW u \in Users, NEW s, NEW p \in Pending(u),
         ~Granted(u), Retransmit(u, s, p)
  PROVE  OneGrant(u, s) /\ TtiShrinks
<1>1. TtiShrinks
  BY TtiStays DEF Retransmit
<1>2. CASE UNCHANGED gridVars
  BY <1>1, <1>2 DEF OneGrant
<1>3. ASSUME NEW m \in FirstFit(u, s, p), AllocDlUser(u, m, p)
      PROVE  OneGrant(u, s)
  <2>1. p \in Pids /\ ~Idle(harq[u][p]) /\ harq[u][p].nack
    BY DEF Pending, Idle
  <2>2. harq[u][p].mask \in SUBSET Rbgs
    BY <2>1 DEF HarqType, HarqProcs
  <2>3. RetxMask(u, s, p) \in SUBSET Rbgs
    BY <2>2 DEF RetxMask, NonZero
  <2>4. m \in SUBSET Rbgs /\ Accepts(u, m)
    BY <2>3, FoundInGrid DEF FirstFit, OtherMasks
  <2>5. QED BY <1>3, <2>1, <2>4 DEF OneGrant, Accepts
<1>4. QED BY <1>1, <1>2, <1>3 DEF Retransmit

\* New data takes what its slice still offers, or what is free.
LEMMA TransmitGrants ==
  ASSUME TtiType, NEW u \in Users, NEW s \in Slices \cup {-1}, NEW min, NEW max,
         ~Granted(u), Transmit(u, s, min, max)
  PROVE  OneGrant(u, s) /\ TtiShrinks
<1> DEFINE m == NewMask(s, min, max)
<1>1. TtiShrinks
  <2>1. CASE SlicingEnabled /\ s # -1
    BY <2>1, MarkShrinks DEF Transmit
  <2>2. CASE ~(SlicingEnabled /\ s # -1)
    BY <2>2, TtiStays DEF Transmit
  <2>3. QED BY <2>1, <2>2
<1>2. CASE UNCHANGED gridVars
  BY <1>1, <1>2 DEF OneGrant
<1>3. ASSUME Accepts(u, m), NEW p \in Empty(u), AllocDlUser(u, m, p)
      PROVE  OneGrant(u, s)
  <2>1. m \in SUBSET Rbgs
    BY FoundInGrid DEF NewMask, FindAllocationSlicing, Lowest, Ones
  <2>2. SlicingEnabled /\ s # -1 =>
          m \subseteq Ones(tti_slicing_mask[s]) /\ m \cap Ones(tti_slicing_mask'[s]) = {}
    <3> SUFFICES ASSUME SlicingEnabled, s # -1
                 PROVE  m \subseteq Ones(tti_slicing_mask[s]) /\ m \cap Ones(tti_slicing_mask'[s]) = {}
      OBVIOUS
    <3>1. m = FindAllocationSlicing(s, max)
      BY DEF NewMask
    <3>2. m \cap Ones(tti_slicing_mask'[s]) = {}
      BY <3>1, MarkClears DEF Transmit
    <3>3. m \subseteq Ones(tti_slicing_mask[s])
      BY <3>1 DEF FindAllocationSlicing, Lowest
    <3>4. QED BY <3>2, <3>3
  <2>3. p \in Pids /\ ~harq[u][p].active
    BY DEF Empty, Idle
  <2>4. QED BY <1>3, <2>1, <2>2, <2>3 DEF OneGrant, Accepts
<1>4. QED BY <1>1, <1>2, <1>3 DEF Transmit

\* So allocate_user as a whole grants one mask at most.
LEMMA AllocateUserGrants ==
  ASSUME TtiType, HarqType, NEW u \in Users, NEW s \in Slices \cup {-1},
         NEW min, NEW max, AllocateUser(u, s, min, max)
  PROVE  OneGrant(u, s) /\ TtiShrinks
<1>1. ~Granted(u)
  BY DEF AllocateUser
<1>2. CASE Transmit(u, s, min, max)
  BY <1>1, <1>2, TransmitGrants
<1>3. CASE NoTransmit(u, min)
  BY <1>3, TtiStays DEF NoTransmit, OneGrant
<1>4. CASE \E p \in Pending(u) : Retransmit(u, s, p)
  BY <1>1, <1>4, RetransmitGrants
<1>5. QED BY <1>2, <1>3, <1>4 DEF AllocateUser

\* Whatever policy serves the user.
LEMMA VisitGrants ==
  ASSUME TtiType, HarqType, NEW u \in Users, NEW s \in Slices \cup {-1},
         ServeDefault(u, s) \/ ServeFixed(u, s)
  PROVE  OneGrant(u, s) /\ TtiShrinks
<1>1. CASE ServeDefault(u, s)
  BY <1>1, AllocateUserGrants DEF ServeDefault
<1>2. CASE ServeFixed(u, s)
  <2>1. CASE \E n \in 0..NofRbgs : AllocateUser(u, s, n, n)
    BY <2>1, AllocateUserGrants
  <2>2. CASE UNCHANGED <<gridVars, tti_slicing_mask>>
    BY <2>2, TtiStays DEF OneGrant
  <2>3. QED BY <1>2, <2>1, <2>2 DEF ServeFixed
<1>3. QED BY <1>1, <1>2

-----------------------------------------------------------------------------
(***************************************************************************)
(* The inductive invariant: the grid's books, the order of the walk (no    *)
(* data before it starts, none yet for those still to visit), the TTI      *)
(* masks within the slice masks and without what new data was given, and   *)
(* no data in a grid closed for a PRACH.                                   *)
(***************************************************************************)
UserType ==
  /\ pc \in {"idle", "bc", "rar", "users", "results"}
  /\ slicing_mask \in [Slices -> Masks] /\ TtiType
  /\ policy \in [Slices -> Policies]
  /\ ue_db \subseteq Users /\ todo \subseteq ue_db
  /\ todo # {} => iter \in ue_db
  /\ slice_number \in [Users -> Slices \cup {-1}]
  /\ times_scheduled \in [Users -> 0 .. SchedThreshold + 2]
  /\ need \in [Users -> Needs]
  /\ HarqType
WalkOrder ==
  /\ pc \in {"bc", "rar"} => data_allocs = {} /\ ~reserved
  /\ pc = "users" => \A a \in data_allocs : a.user \notin todo
  /\ pc # "users" => todo = {}
TtiWithin ==
  pc = "users" /\ SlicingEnabled =>
    \A s \in Slices : Ones(tti_slicing_mask[s]) \subseteq Ones(slicing_mask[s])
TtiClear ==
  pc = "users" /\ SlicingEnabled =>
    \A s \in Slices : \A a \in data_allocs :
      Idle(harq[a.user][a.pid]) /\ slice_number[a.user] = s
        => a.mask \cap Ones(tti_slicing_mask[s]) = {}
IInv ==
  /\ GridInv /\ UserType /\ WalkOrder /\ TtiWithin /\ TtiClear
  /\ NewDataInSlice /\ GrantsMatchHarq /\ PrachKeptFree

\* The two halves of the type invariant.
LEMMA TypeSplit == TypeOK <=> GridType /\ UserType
BY DEF TypeOK, GridType, UserType, TtiType, HarqType

\* A step that leaves the grid alone leaves its books alone.
LEMMA GridStays ==
  ASSUME GridInv, UNCHANGED gridVars
  PROVE  GridInv'
BY DEF GridInv, gridVars, GridType, GridAccounts, GridExclusive, CtrlTaken, DataTaken

\* A process that starts or resumes is well formed.
LEMMA ProcTypes ==
  /\ EmptyProc \in HarqProcs
  /\ \A h \in HarqProcs, m \in SUBSET Rbgs : Started(h, m) \in HarqProcs /\ Resent(h, m) \in HarqProcs
<1>1. EmptyProc \in HarqProcs
  BY GridAssumption DEF EmptyProc, HarqProcs
<1>2. ASSUME NEW h \in HarqProcs, NEW m \in SUBSET Rbgs
      PROVE  Started(h, m) \in HarqProcs /\ Resent(h, m) \in HarqProcs
  <2>1. Cardinality(m) \in 0..NofRbgs
    BY MasksFinite
  <2>2. Started(h, m) \in HarqProcs
    BY <2>1 DEF Started, HarqProcs
  <2>3. Resent(h, m) \in HarqProcs
    BY DEF Resent, HarqProcs
  <2>4. QED BY <2>2, <2>3
<1>3. QED BY <1>1, <1>2

\* The scheduler starts with an empty grid and no users.
LEMMA InitInv == Init => IInv
<1> SUFFICES ASSUME Init PROVE IInv
  OBVIOUS
<1>1. CtrlTaken = {} /\ DataTaken = {}
  BY DEF Init, CtrlTaken, DataTaken
<1>2. GridInv
  <2>1. CtrlTaken \cup DataTaken = {} /\ Cardinality({}) = 0
    BY <1>1, FS_EmptySet
  <2>2. GridType
    <3>1. MinCfi \in MinCfi..MaxCfi /\ NofRbgs \in 0..NofRbgs
      BY GridAssumption
    <3>2. QED BY <3>1 DEF Init, GridType
  <2>3. GridAccounts
    <3>1. NofRbgs - 0 = NofRbgs
      BY GridAssumption
    <3>2. QED BY <2>1, <3>1 DEF Init, GridAccounts
  <2>4. QED BY <1>1, <2>2, <2>3 DEF Init, GridInv, GridExclusive
<1>3. TtiType
  BY UserAssumption DEF Init, TtiType
<1>4. HarqType
  BY ProcTypes DEF Init, HarqType, FreshHarq
<1>5. UserType
  BY <1>3, <1>4, UserAssumption, ConfigAssumption DEF Init, UserType
<1>6. QED BY <1>2, <1>5 DEF Init, IInv, WalkOrder, TtiWithin, TtiClear, NewDataInSlice,
                      GrantsMatchHarq, PrachKeptFree, DataTaken

\* Start of a TTI and its control allocations.
LEMMA NewTtiInv == IInv /\ NewTti => IInv'
<1> SUFFICES ASSUME IInv, NewTti PROVE IInv'
  OBVIOUS
<1>1. CtrlTaken' = {} /\ DataTaken' = {}
  BY DEF NewTti, CtrlTaken, DataTaken
<1>2. GridInv'
  <2>1. CtrlTaken' \cup DataTaken' = {} /\ Cardinality({}) = 0
    BY <1>1, FS_EmptySet
  <2>2. GridType'
    <3>1. MinCfi \in MinCfi..MaxCfi /\ NofRbgs \in 0..NofRbgs
      BY GridAssumption
    <3>2. QED BY <3>1 DEF NewTti, GridType
  <2>3. GridAccounts'
    BY <2>1, GridAssumption DEF NewTti, GridAccounts
  <2>4. QED BY <1>1, <2>2, <2>3 DEF NewTti, GridInv, GridExclusive
<1>3. UserType'
  BY DEF IInv, UserType, TtiType, HarqType, NewTti, sliceVars, ueVars
<1>4. QED BY <1>2, <1>3 DEF NewTti, IInv, WalkOrder, TtiWithin, TtiClear, NewDataInSlice,
                      GrantsMatchHarq, PrachKeptFree, DataTaken

\* Broadcast, paging and RAR allocations come before any data.
LEMMA CtrlInv ==
  ASSUME IInv, AllocBc \/ AllocRar
  PROVE  IInv'
<1>1. GridInv'
  <2>1. CASE AllocBc
    BY <2>1, CtrlGrant, GridAssumption DEF AllocBc, IInv
  <2>2. CASE AllocRar
    BY <2>2, CtrlGrant, GridAssumption DEF AllocRar, IInv
  <2>3. QED BY <2>1, <2>2
<1>2. /\ pc \in {"bc", "rar"} /\ pc' \in {"bc", "rar"} /\ data_allocs' = data_allocs
      /\ reserved' = reserved /\ UNCHANGED <<sliceVars, ueVars, iter, todo>>
  BY DEF AllocBc, AllocRar, AllocDlCtrl
<1>3. UserType'
  BY <1>2 DEF IInv, UserType, TtiType, HarqType, sliceVars, ueVars
<1>4. data_allocs' = {} /\ ~reserved'
  BY <1>2 DEF IInv, WalkOrder
<1>5. QED BY <1>1, <1>2, <1>3, <1>4 DEF IInv, WalkOrder, TtiWithin, TtiClear, NewDataInSlice,
                      GrantsMatchHarq, PrachKeptFree, DataTaken

\* The head of sched_users refreshes and copies the masks.
LEMMA StartUsersInv == IInv /\ StartUsers => IInv'
<1> SUFFICES ASSUME IInv, StartUsers PROVE IInv'
  OBVIOUS
<1>1. data_allocs' = {} /\ data_allocs = {} /\ ctrl_allocs' = ctrl_allocs /\ avail_rbg' = avail_rbg
  BY DEF IInv, WalkOrder, StartUsers
<1>2. CtrlTaken' = CtrlTaken /\ DataTaken' = DataTaken
  BY <1>1 DEF CtrlTaken, DataTaken
<1>3. GridInv'
  <2>1. CtrlTaken \in SUBSET Rbgs /\ DataTaken \in SUBSET Rbgs
    BY TakenWithinGrid DEF IInv, GridInv
  <2>2. dl_mask' \subseteq Rbgs /\ reserved' \in BOOLEAN
    BY DEF StartUsers, ReserveForPrach, IInv, GridInv, GridType
  <2>3. cfi' \in MinCfi..MaxCfi
    BY GridAssumption DEF StartUsers, IInv, GridInv, GridType
  <2>4. GridType'
    BY <1>1, <2>2, <2>3 DEF IInv, GridInv, GridType
  <2>5. dl_mask' = IF reserved' THEN Rbgs ELSE CtrlTaken' \cup DataTaken'
    <3>1. CASE reserved' = TRUE /\ dl_mask' = Rbgs
      BY <3>1
    <3>2. CASE reserved' = FALSE /\ dl_mask' = dl_mask
      <4>1. ~reserved
        BY DEF IInv, WalkOrder, StartUsers
      <4>2. QED BY <3>2, <4>1, <1>2 DEF IInv, GridInv, GridAccounts
    <3>3. QED BY <3>1, <3>2 DEF StartUsers, ReserveForPrach
  <2>6. QED BY <1>1, <1>2, <2>4, <2>5 DEF IInv, GridInv, GridAccounts, GridExclusive
<1>4. slicing_mask' \in [Slices -> Masks] /\ policy' \in [Slices -> Policies]
  BY DEF IInv, UserType, StartUsers, RefreshSlices, sliceVars
<1>5. UNCHANGED ueVars
  BY DEF StartUsers
<1>6. CASE ue_db = {}
  <2>1. pc' = "results" /\ UNCHANGED <<sliceVars, iter, todo>>
    BY <1>6 DEF StartUsers
  <2>2. UserType'
    BY <1>5, <2>1 DEF IInv, UserType, TtiType, HarqType, sliceVars, ueVars
  <2>3. todo' = {}
    BY <2>1 DEF StartUsers, IInv, WalkOrder
  <2>4. QED BY <1>1, <1>3, <2>1, <2>2, <2>3 DEF IInv, WalkOrder, TtiWithin, TtiClear, NewDataInSlice,
                      GrantsMatchHarq, PrachKeptFree, DataTaken
<1>7. CASE ue_db # {}
  <2>1. /\ pc' = "users" /\ iter' \in ue_db /\ todo' = ue_db
        /\ tti_slicing_mask' = slicing_mask'
    BY <1>7 DEF StartUsers
  <2>2. TtiType'
    BY <1>4, <2>1, UserAssumption DEF TtiType
  <2>3. UserType'
    BY <1>4, <1>5, <2>1, <2>2 DEF IInv, UserType, HarqType, ueVars
  <2>4. TtiWithin'
    BY <2>1 DEF TtiWithin
  <2>5. QED BY <1>1, <1>3, <2>1, <2>3, <2>4 DEF IInv, WalkOrder, TtiClear, NewDataInSlice,
                      GrantsMatchHarq, PrachKeptFree, DataTaken
<1>8. QED BY <1>6, <1>7

\* One round of the walk over the users.
LEMMA VisitInv ==
  ASSUME IInv, NEW u \in Users, Visit(u)
  PROVE  IInv'
<1>1. PICK s \in SliceOnVisit(u) :
        /\ slice_number' = [slice_number EXCEPT ![u] = s]
        /\ ServeDefault(u, s) \/ ServeFixed(u, s)
  BY DEF Visit
<1>2. s \in Slices \cup {-1} /\ (slice_number[u] # -1 => s = slice_number[u])
  BY UserAssumption DEF SliceOnVisit, IInv, UserType
<1>3. OneGrant(u, s) /\ TtiShrinks
  BY <1>1, <1>2, VisitGrants DEF IInv, UserType
<1>4. /\ pc = "users" /\ u \in todo /\ iter' = NextUser(u) /\ todo' = todo \ {u}
      /\ pc' \in {"users", "results"} /\ (todo' # {} <=> pc' = "users")
      /\ UNCHANGED <<slicing_mask, policy, ue_db, times_scheduled, need, harq>>
  BY DEF Visit
<1>5. \A t \in Slices : slice_number[u] = -1 \/ slice_number'[u] = slice_number[u]
  BY <1>1, <1>2 DEF IInv, UserType
<1>6. GridInv'
  BY <1>3, GridStays, UserGrant DEF OneGrant, IInv
<1>7. UserType'
  <2>1. iter' \in ue_db
    BY <1>4, NextUserInDb DEF IInv, UserType
  <2>2. slice_number' \in [Users -> Slices \cup {-1}]
    BY <1>1, <1>2 DEF IInv, UserType
  <2>3. TtiType'
    BY <1>3 DEF TtiShrinks
  <2>4. HarqType'
    BY <1>4 DEF IInv, UserType, HarqType
  <2>5. todo' \subseteq ue_db'
    BY <1>4 DEF IInv, UserType
  <2>6. QED BY <1>4, <2>1, <2>2, <2>3, <2>4, <2>5 DEF IInv, UserType
<1>8. TtiWithin'
  BY <1>3, <1>4 DEF IInv, TtiWithin, TtiShrinks
<1>9. \A a \in data_allocs : a.user \in Users /\ a.user # u /\ a.user \notin todo'
                           /\ slice_number'[a.user] = slice_number[a.user]
  <2>1. \A a \in data_allocs : a.user \in Users /\ a.user \notin todo
    BY <1>4 DEF IInv, WalkOrder, GridInv, GridType
  <2>2. QED BY <1>1, <1>4, <2>1 DEF IInv, UserType
<1>10. CASE UNCHANGED gridVars
  <2>1. data_allocs' = data_allocs
    BY <1>10 DEF gridVars
  <2>2. WalkOrder'
    BY <1>4, <1>9, <2>1 DEF WalkOrder
  <2>3. NewDataInSlice'
    BY <1>4, <1>9, <2>1 DEF IInv, NewDataInSlice
  <2>4. GrantsMatchHarq'
    BY <1>4, <2>1 DEF IInv, GrantsMatchHarq
  <2>5. TtiClear'
    BY <1>3, <1>4, <1>9, <2>1 DEF IInv, TtiClear, TtiShrinks
  <2>6. PrachKeptFree'
    BY <1>10 DEF IInv, PrachKeptFree, DataTaken, gridVars
  <2>7. QED BY <1>6, <1>7, <1>8, <2>2, <2>3, <2>4, <2>5, <2>6 DEF IInv
<1>11. ASSUME NEW p \in Pids, NEW m \in SUBSET Rbgs,
              m \cap dl_mask = {}, AllocDlUser(u, m, p), ~Granted(u),
              harq[u][p].active => harq[u][p].nack,
              Idle(harq[u][p]) /\ SlicingEnabled /\ s # -1 =>
                m \subseteq Ones(tti_slicing_mask[s]) /\ m \cap Ones(tti_slicing_mask'[s]) = {}
       PROVE  IInv'
  <2> DEFINE a0 == [user |-> u, pid |-> p, mask |-> m]
  <2>1. data_allocs' = data_allocs \cup {a0} /\ a0.user = u /\ a0.pid = p /\ a0.mask = m
    BY <1>11 DEF AllocDlUser
  <2> HIDE DEF a0
  <2>2. WalkOrder'
    BY <1>4, <1>9, <2>1 DEF WalkOrder
  <2>3. NewDataInSlice'
    <3>1. slice_number'[u] = s
      BY <1>1 DEF IInv, UserType
    <3>2. SlicingEnabled /\ s # -1 => Ones(tti_slicing_mask[s]) \subseteq Ones(slicing_mask[s])
      BY <1>2, <1>4 DEF IInv, TtiWithin
    <3>3. SlicingEnabled /\ Idle(harq'[a0.user][a0.pid]) /\ slice_number'[a0.user] # -1
            => a0.mask \subseteq Ones(slicing_mask'[slice_number'[a0.user]])
      BY <1>4, <1>11, <2>1, <3>1, <3>2
    <3>4. SlicingEnabled => \A a \in data_allocs : Idle(harq'[a.user][a.pid]) /\ slice_number'[a.user] # -1
            => a.mask \subseteq Ones(slicing_mask'[slice_number'[a.user]])
      BY <1>4, <1>9 DEF IInv, NewDataInSlice
    <3>5. QED BY <2>1, <3>3, <3>4 DEF NewDataInSlice
  <2>4. GrantsMatchHarq'
    BY <1>4, <1>9, <1>11, <2>1 DEF IInv, GrantsMatchHarq
  <2>5. TtiClear'
    <3> SUFFICES ASSUME pc' = "users", SlicingEnabled, NEW t \in Slices, NEW a \in data_allocs',
                        Idle(harq'[a.user][a.pid]), slice_number'[a.user] = t
                 PROVE  a.mask \cap Ones(tti_slicing_mask'[t]) = {}
      BY DEF TtiClear
    <3>1. CASE a \in data_allocs
      BY <3>1, <1>3, <1>4, <1>9 DEF IInv, TtiClear, TtiShrinks
    <3>2. CASE a = a0
      <4>1. t = s /\ t # -1
        BY <3>2, <2>1, <1>1, UserAssumption DEF IInv, UserType
      <4>2. QED BY <3>2, <4>1, <1>4, <1>11, <2>1
    <3>3. QED BY <2>1, <3>1, <3>2
  <2>6. PrachKeptFree'
    <3> SUFFICES ASSUME reserved' PROVE DataTaken' = {}
      BY DEF PrachKeptFree
    <3>1. reserved /\ DataTaken = {}
      BY <1>11 DEF AllocDlUser, IInv, PrachKeptFree
    <3>2. dl_mask = Rbgs
      BY <3>1 DEF IInv, GridInv, GridAccounts
    <3>3. m = {}
      BY <1>11, <3>2
    <3>4. \A a \in data_allocs' : a.mask = {}
      BY <2>1, <3>1, <3>3 DEF DataTaken
    <3>5. QED BY <3>4 DEF DataTaken
  <2>7. QED BY <1>6, <1>7, <1>8, <2>2, <2>3, <2>4, <2>5, <2>6 DEF IInv
<1>12. QED BY <1>3, <1>10, <1>11 DEF OneGrant

\* The results of a TTI start and resume HARQ processes.
LEMMA ResultsInv == IInv /\ GenerateResults => IInv'
<1> SUFFICES ASSUME IInv, GenerateResults PROVE IInv'
  OBVIOUS
<1>1. PICK done \in SUBSET data_allocs :
        harq' = [u \in Users |-> [p \in Pids |->
            LET mine == {a \in done : a.user = u /\ a.pid = p} IN
            IF mine = {} THEN harq[u][p]
            ELSE LET m == (CHOOSE a \in mine : TRUE).mask IN
                 IF Idle(harq[u][p]) THEN Started(harq[u][p], m)
                                     ELSE Resent(harq[u][p], m)]]
  BY DEF GenerateResults
<1>2. HarqType'
  <2> SUFFICES ASSUME NEW u \in Users, NEW p \in Pids PROVE harq'[u][p] \in HarqProcs
    BY <1>1 DEF HarqType
  <2> DEFINE mine == {a \in done : a.user = u /\ a.pid = p}
             m == (CHOOSE a \in mine : TRUE).mask
  <2>1. harq[u][p] \in HarqProcs
    BY DEF IInv, UserType, HarqType
  <2>2. CASE mine = {}
    BY <1>1, <2>1, <2>2
  <2>3. CASE mine # {}
    <3>1. (CHOOSE a \in mine : TRUE) \in mine
      BY <2>3
    <3>2. m \in SUBSET Rbgs
      BY <3>1 DEF IInv, GridInv, GridType
    <3>3. harq'[u][p] = IF Idle(harq[u][p]) THEN Started(harq[u][p], m)
                                            ELSE Resent(harq[u][p], m)
      BY <1>1, <2>3
    <3> HIDE DEF m
    <3>4. QED BY <2>1, <3>2, <3>3, ProcTypes
  <2>4. QED BY <2>2, <2>3
<1>3. times_scheduled' \in [Users -> 0 .. SchedThreshold + 2]
  BY ConfigAssumption DEF GenerateResults, IInv, UserType
<1>4. GridInv'
  BY GridStays DEF GenerateResults, IInv
<1>5. UserType'
  BY <1>2, <1>3 DEF GenerateResults, IInv, UserType, TtiType, sliceVars
<1>6. QED BY <1>4, <1>5 DEF GenerateResults, IInv, WalkOrder, TtiWithin, TtiClear, NewDataInSlice,
                      GrantsMatchHarq, PrachKeptFree, DataTaken, gridVars

\* What happens between two TTIs touches neither the grid nor the masks.
LEMMA BetweenInv ==
  ASSUME IInv, Between, UserType'
  PROVE  IInv'
<1>1. pc = "idle" /\ pc' = "idle" /\ UNCHANGED gridVars
  BY DEF Between
<1>2. GridInv'
  BY <1>1, GridStays DEF IInv
<1>3. todo' = {}
  BY DEF Between, IInv, WalkOrder
<1>4. QED BY <1>1, <1>2, <1>3 DEF IInv, WalkOrder, TtiWithin, TtiClear, NewDataInSlice,
                      GrantsMatchHarq, PrachKeptFree, DataTaken, gridVars

\* Feedback, buffer states and user configuration keep the types.
LEMMA UserInv ==
  ASSUME IInv, NEW u \in Users,
         \/ UeCfg(u) \/ UeRem(u)
         \/ \E n \in Needs : BufferState(u, n)
         \/ \E p \in Pids : Nack(u, p) \/ Release(u, p)
  PROVE  IInv'
<1>1. Between
  BY DEF UeCfg, UeRem, BufferState, Nack, Release
<1>2. UNCHANGED <<pc, sliceVars, iter, todo>> /\ todo = todo'
  BY <1>1 DEF Between
<1>3. TtiType' /\ slicing_mask' \in [Slices -> Masks] /\ policy' \in [Slices -> Policies]
  BY <1>2 DEF IInv, UserType, TtiType, sliceVars
<1>4. FreshHarq \in [Pids -> HarqProcs]
  BY ProcTypes DEF FreshHarq
<1>5. HarqType'
  <2>1. CASE \E p \in Pids : Nack(u, p)
    <3>1. PICK p \in Pids : harq' = [harq EXCEPT ![u][p].nack = TRUE]
      BY <2>1 DEF Nack
    <3>2. \A h \in HarqProcs : [h EXCEPT !.nack = TRUE] \in HarqProcs
      BY DEF HarqProcs
    <3>3. QED BY <3>1, <3>2 DEF IInv, UserType, HarqType
  <2>2. CASE \E p \in Pids : Release(u, p)
    BY <2>2, ProcTypes DEF Release, IInv, UserType, HarqType
  <2>3. CASE UeCfg(u) \/ UeRem(u) \/ \E n \in Needs : BufferState(u, n)
    BY <2>3, <1>4 DEF UeCfg, UeRem, BufferState, IInv, UserType, HarqType
  <2>4. QED BY <2>1, <2>2, <2>3
<1>6. times_scheduled' \in [Users -> 0 .. SchedThreshold + 2]
  BY ConfigAssumption DEF UeCfg, UeRem, BufferState, Nack, Release, IInv, UserType
<1>7. need' \in [Users -> Needs]
  BY UserAssumption DEF UeCfg, UeRem, BufferState, Nack, Release, IInv, UserType
<1>8. slice_number' \in [Users -> Slices \cup {-1}]
  BY DEF UeCfg, UeRem, BufferState, Nack, Release, IInv, UserType
<1>9. ue_db' \subseteq Users /\ todo' = {}
  BY <1>1, <1>2 DEF UeCfg, UeRem, BufferState, Nack, Release, IInv, UserType, WalkOrder, Between
<1>10. UserType'
  BY <1>2, <1>3, <1>5, <1>6, <1>7, <1>8, <1>9 DEF IInv, UserType
<1>11. QED BY <1>1, <1>10, BetweenInv

\* Every step keeps the invariant.
LEMMA NextInv == IInv /\ [Next]_vars => IInv'
<1> SUFFICES ASSUME IInv, [Next]_vars PROVE IInv'
  OBVIOUS
<1>1. CASE UNCHANGED vars
  <2>1. GridInv' /\ UserType'
    BY <1>1, GridStays DEF IInv, vars, gridVars, sliceVars, ueVars, UserType, TtiType, HarqType
  <2>2. QED BY <1>1, <2>1 DEF IInv, vars, gridVars, sliceVars, ueVars, WalkOrder, TtiWithin,
                      TtiClear, NewDataInSlice, GrantsMatchHarq, PrachKeptFree, DataTaken
<1>2. CASE NewTti
  BY <1>2, NewTtiInv
<1>3. CASE AllocBc \/ AllocRar
  BY <1>3, CtrlInv
<1>4. CASE StartUsers
  BY <1>4, StartUsersInv
<1>5. CASE GenerateResults
  BY <1>5, ResultsInv
<1>6. ASSUME NEW u \in Users, Visit(u) PROVE IInv'
  BY <1>6, VisitInv
<1>7. ASSUME NEW u \in Users,
             \/ UeCfg(u) \/ UeRem(u)
             \/ \E n \in Needs : BufferState(u, n)
             \/ \E p \in Pids : Nack(u, p) \/ Release(u, p)
      PROVE  IInv'
  BY <1>7, UserInv
<1>8. QED BY <1>1, <1>2, <1>3, <1>4, <1>5, <1>6, <1>7 DEF Next

\* The inductive invariant holds in every reachable state.
THEOREM Inductive == Spec => []IInv
BY InitInv, NextInv, PTL DEF Spec

\* Every variable keeps its type.
THEOREM TypeCorrect == Spec => []TypeOK
<1>1. IInv => TypeOK
  BY TypeSplit DEF IInv, GridInv
<1>2. QED BY <1>1, Inductive, PTL

\* No RBG of any subframe is given twice, in a cell of any bandwidth.
THEOREM ExclusiveGrid == Spec => []GridExclusive
<1>1. IInv => GridExclusive
  BY DEF IInv, GridInv
<1>2. QED BY <1>1, Inductive, PTL

\* The count of free RBGs, from which control allocations take their position,
\* agrees with the mask.
THEOREM GridBooks == Spec => []GridAccounts
<1>1. IInv => GridAccounts
  BY DEF IInv, GridInv
<1>2. QED BY <1>1, Inductive, PTL

\* New data stays inside the slice, whatever the files say and when.
THEOREM SliceIsolation == Spec => []NewDataInSlice
<1>1. IInv => NewDataInSlice
  BY DEF IInv
<1>2. QED BY <1>1, Inductive, PTL

\* The per-TTI mask of a slice offers nothing beyond the slice, and nothing that its
\* new data was given.
THEOREM TtiMasks == Spec => []TtiMaskSound
<1>1. IInv => TtiMaskSound
  BY DEF IInv, TtiWithin, TtiClear, TtiMaskSound
<1>2. QED BY <1>1, Inductive, PTL

\* A grid closed for a PRACH carries no user's data.
THEOREM PrachFree == Spec => []PrachKeptFree
<1>1. IInv => PrachKeptFree
  BY DEF IInv
<1>2. QED BY <1>1, Inductive, PTL

\* The scheduler never touches a TB that awaits its feedback.
THEOREM HarqRespected == Spec => []GrantsMatchHarq
<1>1. IInv => GrantsMatchHarq
  BY DEF IInv
<1>2. QED BY <1>1, Inductive, PTL

-----------------------------------------------------------------------------
(***************************************************************************)
(* Retransmissions of users without a slice mask.  (Those of the others    *)
(* take the slice mask whatever its size: run retx_size.)                  *)
(***************************************************************************)
\* The fallback finds a mask of exactly the number of RBGs it looks for.
LEMMA OtherMaskSize ==
  ASSUME GridType, NEW m \in SUBSET Rbgs, NEW o \in OtherMasks(m)
  PROVE  Cardinality(o) = Cardinality(m)
<1>1. Free \in SUBSET Int /\ IsFiniteSet(Free)
  <2>1. Free \in SUBSET Rbgs
    BY DEF Free
  <2>2. IsFiniteSet(Free)
    BY <2>1, MasksFinite
  <2>3. QED BY <2>1, <2>2 DEF Rbgs
<1>2. /\ o = Lowest(Free, Cardinality(m))
      /\ Cardinality(Free) >= Cardinality(m)
  BY DEF OtherMasks, FindAllocation
<1>3. Cardinality(m) \in 0 .. Cardinality(Free)
  BY <1>1, <1>2, MasksFinite, FS_CardinalityType, GridAssumption
<1>4. o = {r \in Free : Cardinality(Lower(Free, r)) < Cardinality(m)}
  BY <1>2 DEF Lowest, Lower
<1>5. QED BY <1>1, <1>3, <1>4, LowestCount

\* What is on the air, and what a process holds, has the size of its TB.
SizesHeld ==
  /\ \A u \in Users, p \in Pids :
       harq[u][p].active /\ Unsliced(u) => Cardinality(harq[u][p].mask) = harq[u][p].size
  /\ UnslicedKeepsSize

\* A user whose slice is known keeps it as long as it exists.
LEMMA VisitUnsliced ==
  ASSUME NEW u \in Users, Visit(u), UserType
  PROVE  /\ \A v \in Users : Unsliced(v)' => Unsliced(v)
         /\ \A s : slice_number'[u] = s /\ Unsliced(u)' => ~(SlicingEnabled /\ s # -1)
<1>1. PICK s \in SliceOnVisit(u) : slice_number' = [slice_number EXCEPT ![u] = s]
  BY DEF Visit
<1>2. slice_number'[u] = s /\ \A v \in Users : v # u => slice_number'[v] = slice_number[v]
  BY <1>1 DEF UserType
<1>3. s = -1 => slice_number[u] = -1
  BY <1>1 DEF SliceOnVisit
<1>4. QED BY <1>2, <1>3 DEF Unsliced

\* The mask tried first has the size of the TB, and so have all others.
LEMMA RetransmitSize ==
  ASSUME GridType, HarqType, SizesHeld, NEW u \in Users, Unsliced(u),
         NEW s, ~(SlicingEnabled /\ s # -1), NEW p \in Pending(u), NEW m \in FirstFit(u, s, p)
  PROVE  Cardinality(m) = harq[u][p].size
<1>1. p \in Pids /\ harq[u][p].active
  BY DEF Pending
<1>2. RetxMask(u, s, p) = harq[u][p].mask
  BY DEF RetxMask
<1>3. harq[u][p].mask \in SUBSET Rbgs
  BY <1>1 DEF HarqType, HarqProcs
<1>4. Cardinality(harq[u][p].mask) = harq[u][p].size
  BY <1>1 DEF SizesHeld
<1>5. m = harq[u][p].mask \/ m \in OtherMasks(harq[u][p].mask)
  BY <1>2 DEF FirstFit
<1>6. QED BY <1>3, <1>4, <1>5, OtherMaskSize

\* One visit: the sizes of what was granted before, and of the new grant.
LEMMA VisitSizes ==
  ASSUME IInv, SizesHeld, NEW u \in Users, Visit(u)
  PROVE  SizesHeld'
<1> DEFINE Sized(p, m) == harq[u][p].active /\ Unsliced(u)' => Cardinality(m) = harq[u][p].size
<1>1. harq' = harq /\ pc = "users" /\ UserType
  BY DEF Visit, IInv
<1>0. \A v \in Users : Unsliced(v)' => Unsliced(v)
  BY <1>1, VisitUnsliced
<1>7. \A a \in data_allocs : a.user \in Users
  BY DEF IInv, GridInv, GridType
<1>2. SUFFICES \A a \in data_allocs' :
        harq[a.user][a.pid].active /\ Unsliced(a.user)'
          => Cardinality(a.mask) = harq[a.user][a.pid].size
  BY <1>0, <1>1 DEF SizesHeld, UnslicedKeepsSize, Unsliced
<1>3. \A a \in data_allocs :
        harq[a.user][a.pid].active /\ Unsliced(a.user)'
          => Cardinality(a.mask) = harq[a.user][a.pid].size
  BY <1>0, <1>1, <1>7 DEF SizesHeld, UnslicedKeepsSize
<1>4. ASSUME NEW s, slice_number'[u] = s, NEW min, NEW max, AllocateUser(u, s, min, max)
      PROVE  \/ data_allocs' = data_allocs
             \/ \E p \in Pids, m \in SUBSET Rbgs :
                  /\ data_allocs' = data_allocs \cup {[user |-> u, pid |-> p, mask |-> m]}
                  /\ Sized(p, m)
  <2>1. CASE NoTransmit(u, min)
    BY <2>1 DEF NoTransmit, gridVars
  <2>2. CASE Transmit(u, s, min, max)
    <3>1. CASE UNCHANGED gridVars
      BY <3>1 DEF gridVars
    <3>2. ASSUME NEW p \in Empty(u), AllocDlUser(u, NewMask(s, min, max), p)
          PROVE  \E q \in Pids, m \in SUBSET Rbgs :
                  /\ data_allocs' = data_allocs \cup {[user |-> u, pid |-> q, mask |-> m]}
                  /\ Sized(q, m)
      <4>1. p \in Pids /\ ~harq[u][p].active
        BY DEF Empty, Idle
      <4>2. NewMask(s, min, max) \in SUBSET Rbgs
        BY FoundInGrid DEF NewMask, FindAllocationSlicing, Lowest, Ones
      <4>3. QED BY <3>2, <4>1, <4>2 DEF AllocDlUser
    <3>3. QED BY <2>2, <3>1, <3>2 DEF Transmit
  <2>3. ASSUME NEW p \in Pending(u), Retransmit(u, s, p)
        PROVE  \/ data_allocs' = data_allocs
               \/ \E q \in Pids, m \in SUBSET Rbgs :
                    /\ data_allocs' = data_allocs \cup {[user |-> u, pid |-> q, mask |-> m]}
                    /\ Sized(q, m)
    <3>1. CASE UNCHANGED gridVars
      BY <3>1 DEF gridVars
    <3>2. ASSUME NEW m \in FirstFit(u, s, p), AllocDlUser(u, m, p)
          PROVE  \E q \in Pids, o \in SUBSET Rbgs :
                  /\ data_allocs' = data_allocs \cup {[user |-> u, pid |-> q, mask |-> o]}
                  /\ Sized(q, o)
      <4>1. p \in Pids
        BY DEF Pending
      <4>2. m \in SUBSET Rbgs
        <5>1. harq[u][p].mask \in SUBSET Rbgs
          BY <4>1 DEF IInv, UserType, HarqType, HarqProcs
        <5>2. RetxMask(u, s, p) \in SUBSET Rbgs
          BY <5>1 DEF RetxMask, NonZero
        <5>3. QED BY <5>2, FoundInGrid DEF FirstFit, OtherMasks
      <4>3. Sized(p, m)
        <5>1. Unsliced(u)' => Unsliced(u) /\ ~(SlicingEnabled /\ s # -1)
          BY <1>1, <1>4, VisitUnsliced
        <5>2. QED BY <5>1, RetransmitSize DEF IInv, GridInv, UserType
      <4>4. QED BY <3>2, <4>1, <4>2, <4>3 DEF AllocDlUser
    <3>3. QED BY <2>3, <3>1, <3>2 DEF Retransmit
  <2>4. QED BY <1>4, <2>1, <2>2, <2>3 DEF AllocateUser
<1>5. \/ data_allocs' = data_allocs
      \/ \E p \in Pids, m \in SUBSET Rbgs :
           /\ data_allocs' = data_allocs \cup {[user |-> u, pid |-> p, mask |-> m]}
           /\ Sized(p, m)
  <2>1. PICK s : slice_number'[u] = s /\ (ServeDefault(u, s) \/ ServeFixed(u, s))
    BY <1>1 DEF Visit, UserType
  <2>2. CASE UNCHANGED <<gridVars, tti_slicing_mask>>
    BY <2>2 DEF gridVars
  <2>3. CASE \E min, max : AllocateUser(u, s, min, max)
    BY <2>1, <2>3, <1>4
  <2>4. QED BY <2>1, <2>2, <2>3 DEF ServeDefault, ServeFixed
<1>6. QED BY <1>3, <1>5

\* A process that starts takes the size of its mask; one that resumes keeps its own.
LEMMA ResultSizes == IInv /\ SizesHeld /\ GenerateResults => SizesHeld'
<1> SUFFICES ASSUME IInv, SizesHeld, GenerateResults PROVE SizesHeld'
  OBVIOUS
<1>1. PICK done \in SUBSET data_allocs :
        harq' = [u \in Users |-> [p \in Pids |->
            LET mine == {a \in done : a.user = u /\ a.pid = p} IN
            IF mine = {} THEN harq[u][p]
            ELSE LET m == (CHOOSE a \in mine : TRUE).mask IN
                 IF Idle(harq[u][p]) THEN Started(harq[u][p], m)
                                     ELSE Resent(harq[u][p], m)]]
  BY DEF GenerateResults
<1>2. SUFFICES ASSUME NEW u \in Users, NEW p \in Pids, harq'[u][p].active
               PROVE  Unsliced(u) => Cardinality(harq'[u][p].mask) = harq'[u][p].size
  BY DEF SizesHeld, UnslicedKeepsSize, GenerateResults, Unsliced
<1> DEFINE mine == {a \in done : a.user = u /\ a.pid = p}
           c == CHOOSE a \in mine : TRUE
<1>3. CASE mine = {}
  BY <1>1, <1>2, <1>3 DEF SizesHeld
<1>4. CASE mine # {}
  <2>1. c \in data_allocs /\ c.user = u /\ c.pid = p
    BY <1>4
  <2>2. harq'[u][p] = IF Idle(harq[u][p]) THEN Started(harq[u][p], c.mask)
                                          ELSE Resent(harq[u][p], c.mask)
    BY <1>1, <1>4
  <2> HIDE DEF c
  <2>3. harq[u][p].active /\ Unsliced(u) => Cardinality(c.mask) = harq[u][p].size
    BY <2>1 DEF SizesHeld, UnslicedKeepsSize, GenerateResults
  <2>4. CASE Idle(harq[u][p])
    BY <2>2, <2>4 DEF Started
  <2>5. CASE ~Idle(harq[u][p])
    <3>1. harq[u][p] \in HarqProcs
      BY DEF IInv, UserType, HarqType
    <3>2. harq'[u][p].mask = c.mask /\ harq'[u][p].size = harq[u][p].size
      BY <2>2, <2>5, <3>1 DEF Resent, HarqProcs
    <3>3. QED BY <2>3, <2>5, <3>2 DEF Idle
  <2>6. QED BY <2>4, <2>5
<1>5. QED BY <1>3, <1>4

\* Every step keeps the sizes.
LEMMA NextSizes ==
  ASSUME IInv, SizesHeld, [Next]_vars
  PROVE  SizesHeld'
<1>1. CASE UNCHANGED vars
  BY <1>1 DEF SizesHeld, UnslicedKeepsSize, Unsliced, vars, gridVars, ueVars
<1>2. CASE NewTti
  BY <1>2 DEF NewTti, SizesHeld, UnslicedKeepsSize, Unsliced, ueVars
<1>3. CASE AllocBc \/ AllocRar
  BY <1>3 DEF AllocBc, AllocRar, SizesHeld, UnslicedKeepsSize, Unsliced, ueVars
<1>4. CASE StartUsers
  BY <1>4 DEF StartUsers, SizesHeld, UnslicedKeepsSize, Unsliced, ueVars, IInv, WalkOrder
<1>5. CASE GenerateResults
  BY <1>5, ResultSizes
<1>6. ASSUME NEW u \in Users, Visit(u) PROVE SizesHeld'
  BY <1>6, VisitSizes
<1>7. ASSUME NEW u \in Users,
             \/ UeCfg(u) \/ UeRem(u)
             \/ \E n \in Needs : BufferState(u, n)
             \/ \E p \in Pids : Nack(u, p) \/ Release(u, p)
      PROVE  SizesHeld'
  <2>1. pc' = "idle"
    BY <1>7 DEF UeCfg, UeRem, BufferState, Nack, Release, Between
  <2>0. \A v \in Users : Unsliced(v)' /\ (\E q \in Pids : harq'[v][q].active) => Unsliced(v)
    <3>1. CASE ~UeRem(u)
      BY <1>7, <3>1 DEF UeCfg, BufferState, Nack, Release, Unsliced
    <3>2. CASE UeRem(u)
      BY <3>2 DEF UeRem, Unsliced, FreshHarq, EmptyProc, IInv, UserType, HarqType
    <3>3. QED BY <3>1, <3>2
  <2>2. SUFFICES \A v \in Users, q \in Pids :
          harq'[v][q].active /\ Unsliced(v) => Cardinality(harq'[v][q].mask) = harq'[v][q].size
    BY <2>0, <2>1 DEF SizesHeld, UnslicedKeepsSize
  <2>3. \A v \in Users, q \in Pids :
          harq[v][q].active /\ Unsliced(v) => Cardinality(harq[v][q].mask) = harq[v][q].size
    BY DEF SizesHeld
  <2>4. CASE UeCfg(u) \/ \E n \in Needs : BufferState(u, n)
    BY <2>3, <2>4 DEF UeCfg, BufferState
  <2>5. CASE UeRem(u)
    BY <2>3, <2>5 DEF UeRem, FreshHarq, EmptyProc, IInv, UserType, HarqType
  <2>6. ASSUME NEW p \in Pids, Release(u, p)
        PROVE  \A v \in Users, q \in Pids :
                 harq'[v][q].active /\ Unsliced(v) => Cardinality(harq'[v][q].mask) = harq'[v][q].size
    BY <2>3, <2>6 DEF Release, EmptyProc, IInv, UserType, HarqType
  <2>7. ASSUME NEW p \in Pids, Nack(u, p)
        PROVE  \A v \in Users, q \in Pids :
                 harq'[v][q].active /\ Unsliced(v) => Cardinality(harq'[v][q].mask) = harq'[v][q].size
    <3>1. \A h \in HarqProcs : LET n == [h EXCEPT !.nack = TRUE]
                              IN n.active = h.active /\ n.mask = h.mask /\ n.size = h.size
      BY DEF HarqProcs
    <3>2. \A v \in Users, q \in Pids : harq[v][q] \in HarqProcs /\
            harq'[v][q] \in {harq[v][q], [harq[v][q] EXCEPT !.nack = TRUE]}
      BY <2>7 DEF Nack, IInv, UserType, HarqType
    <3>3. \A v \in Users, q \in Pids :
            /\ harq'[v][q].active = harq[v][q].active /\ harq'[v][q].mask = harq[v][q].mask
            /\ harq'[v][q].size = harq[v][q].size
      <4>1. TAKE v \in Users, q \in Pids
      <4>2. CASE harq'[v][q] = harq[v][q]
        BY <4>2
      <4>3. CASE harq'[v][q] = [harq[v][q] EXCEPT !.nack = TRUE]
        BY <3>1, <3>2, <4>3
      <4>4. QED BY <3>2, <4>2, <4>3
    <3>4. QED BY <2>3, <3>3
  <2>8. QED BY <1>7, <2>4, <2>5, <2>6, <2>7
<1>8. QED BY <1>1, <1>2, <1>3, <1>4, <1>5, <1>6, <1>7 DEF Next

\* Every retransmission of a user without a slice mask has the size of its TB; where
\* slicing is off, these are all users.
THEOREM RetxSize == Spec => []UnslicedKeepsSize
<1>1. Init => SizesHeld
  BY DEF Init, SizesHeld, UnslicedKeepsSize, FreshHarq, EmptyProc
<1>2. IInv /\ SizesHeld /\ [Next]_vars => SizesHeld'
  BY NextSizes
<1>3. SizesHeld => UnslicedKeepsSize
  BY DEF SizesHeld
<1>4. QED BY <1>1, <1>2, <1>3, Inductive, PTL DEF Spec

\* The visit of a user whose pending retransmissions would all fit gives it no new data,
\* whatever its slice and the policies are.
THEOREM RetxBeforeNewData == Spec => RetxFirst
<1>1. ASSUME UserType, [Next]_vars, NEW u \in Users, pc = "users", u = iter, todo' # todo,
             Pending(u) # {}, \A p \in Pending(u) : FirstFit(u, slice_number'[u], p) # {},
             NEW a \in data_allocs' \ data_allocs
      PROVE  harq[a.user][a.pid].active
  <2>1. Visit(u)
    <3>1. ~UNCHANGED vars /\ Next
      BY <1>1 DEF vars
    <3>2. \E v \in Users : Visit(v)
      BY <1>1, <3>1 DEF Next, NewTti, AllocBc, AllocRar, StartUsers, GenerateResults, UeCfg, UeRem,
                        BufferState, Nack, Release, Between
    <3>3. QED BY <1>1, <3>2 DEF Visit
  <2>2. PICK s : slice_number'[u] = s /\ (ServeDefault(u, s) \/ ServeFixed(u, s))
    BY <1>1, <2>1 DEF Visit, UserType
  <2>3. \E min, max : AllocateUser(u, s, min, max)
    BY <1>1, <2>2 DEF ServeDefault, ServeFixed, gridVars
  <2>4. PICK p \in Pending(u) : Retransmit(u, s, p)
    BY <1>1, <2>2, <2>3 DEF AllocateUser
  <2>5. PICK m \in FirstFit(u, s, p) : AllocDlUser(u, m, p)
    BY <1>1, <2>4 DEF Retransmit, gridVars
  <2>6. a = [user |-> u, pid |-> p, mask |-> m]
    BY <1>1, <2>5 DEF AllocDlUser
  <2>7. QED BY <2>6 DEF Pending
<1>2. TypeOK /\ [Next]_vars =>
        [\A u \in Users :
           /\ pc = "users" /\ u = iter /\ todo' # todo /\ Pending(u) # {}
           /\ \A p \in Pending(u) : FirstFit(u, slice_number'[u], p) # {}
           => \A a \in data_allocs' \ data_allocs : harq[a.user][a.pid].active]_vars
  BY <1>1, TypeSplit
<1>3. QED BY <1>2, TypeCorrect, PTL DEF Spec, RetxFirst
=============================================================================
