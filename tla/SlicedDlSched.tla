---------------------------- MODULE SlicedDlSched ----------------------------
(***************************************************************************)
(* The downlink half of one TTI of the eNB scheduler of one carrier:       *)
(* broadcast and RAR allocations, then the round-robin walk over the users *)
(* with SCOPE's slice masks, then the start of the HARQ processes.         *)
(* Sources: srsenb/src/stack/mac/scheduler_carrier.cc, scheduler_grid.cc,  *)
(* scheduler_metric.cc, scheduler_ue.cc.                                   *)
(*                                                                         *)
(* A TTI runs under sched_mutex, so the calls of the other layers (HARQ    *)
(* feedback, buffer state, user configuration) fall between two TTIs.      *)
(* ue_resources is written by RRC without that mutex: whether it holds the *)
(* IMSI of a user is free at every read.                                   *)
(*                                                                         *)
(* Abstractions.  The PDCCH answers each DCI request with "no space" or    *)
(* with space and a CFI that did not shrink.  Buffer sizes are the range   *)
(* of RBGs the user needs (need).  A TB is its size in RBGs.               *)
(***************************************************************************)
EXTENDS Integers, FiniteSets

CONSTANTS NofRbgs,        \* nof_rbgs of the cell
          SiNRbg,         \* si_n_rbg  = ceil(4 / P)
          RarNRbg,        \* rar_n_rbg = ceil(3 / P)
          MinCfi, MaxCfi, \* min_ and max_nof_ctrl_symbols
          ExtraSymbol,    \* 1 for cells of at most 10 PRBs, else 0
          SixPrbs,        \* the cell has 6 PRBs
          Users,          \* RNTIs, in the order of the map ue_db
          Slices,         \* tenants
          Pids,           \* DL HARQ processes
          Masks,          \* the slice masks a configuration file may hold
          Policies,       \* the scheduling policies a slice file may hold
          Needs,          \* ranges of RBGs a user may need
          SlicingEnabled, \* network_slicing_enabled
          GlobalPolicy,   \* global_scheduling_policy
          SchedThreshold, \* sched_threshold
          DciOutcomes     \* what the PDCCH may answer: TRUE = there is space

Rbgs == 0 .. NofRbgs - 1
Flags == {0, 1, 255}      \* bytes of a slice mask; 255 when no file was read

ASSUME GridAssumption ==
  /\ NofRbgs \in Nat \ {0} /\ SiNRbg \in Nat \ {0} /\ RarNRbg \in Nat \ {0}
  /\ MinCfi \in 1..3 /\ MaxCfi \in MinCfi..3 /\ ExtraSymbol \in {0, 1}
  /\ SixPrbs \in BOOLEAN
ASSUME UserAssumption ==
  /\ Users \subseteq Nat /\ IsFiniteSet(Users)
  /\ Slices \subseteq Nat /\ 0 \in Slices
  /\ Masks \subseteq [Rbgs -> Flags] /\ Policies \subseteq 0..2
  /\ Needs \subseteq Nat \X Nat /\ <<0, 0>> \in Needs
ASSUME ConfigAssumption ==
  /\ SlicingEnabled \in BOOLEAN /\ GlobalPolicy \in 0..2
  /\ SchedThreshold \in Nat /\ DciOutcomes \subseteq BOOLEAN

VARIABLES
  pc,               \* stage of the TTI
  dl_mask,          \* sf_grid_t: RBGs taken
  avail_rbg,        \* sf_grid_t: number of RBGs left
  reserved,         \* the grid was closed for a PRACH (6-PRB cells)
  cfi,              \* pdcch_grid_t: control symbols
  ctrl_allocs,      \* bc_allocs and rar_allocs
  data_allocs,      \* sf_sched::data_allocs
  slicing_mask,     \* slicing_structure[s].slicing_mask
  tti_slicing_mask, \* slicing_structure[s].tti_slicing_mask
  policy,           \* slicing_structure[s].scheduling_policy
  ue_db, iter, todo,\* users, the next one to visit, those left in this TTI
  slice_number,     \* sched_ue::slice_number
  times_scheduled,  \* sched_ue::times_scheduled
  need,             \* get_required_dl_rbgs of each user
  harq              \* the DL HARQ processes of each user

gridVars  == <<dl_mask, avail_rbg, reserved, cfi, ctrl_allocs, data_allocs>>
sliceVars == <<slicing_mask, tti_slicing_mask, policy>>
ueVars    == <<ue_db, slice_number, times_scheduled, need, harq>>
vars      == <<pc, gridVars, sliceVars, ueVars, iter, todo>>

Idle(h) == ~h.active
EmptyProc == [active |-> FALSE, nack |-> FALSE, mask |-> {}, size |-> 0]
FreshHarq == [p \in Pids |-> EmptyProc]

-----------------------------------------------------------------------------
Ones(m)    == {r \in Rbgs : m[r] = 1}
NonZero(m) == {r \in Rbgs : m[r] # 0}
Lowest(S, k) == {r \in S : Cardinality({q \in S : q < r}) < k}

NofCtrlSymbols == cfi + ExtraSymbol
Free == Rbgs \ dl_mask

\* dl_metric_rr::find_allocation: the mask it finds, if it returns true.
FindAllocation(min, max) ==
  {m \in {Lowest(Free, max)} : Free # {} /\ Cardinality(Free) >= min}

\* The RBGs find_allocation_slicing jumps over because control may be there.
CtrlRbgs == IF NofCtrlSymbols >= 2 THEN Rbgs \cap (0 .. NofCtrlSymbols - 1) ELSE {}

\* find_allocation_slicing: what it grants, and what it leaves of the mask.
FindAllocationSlicing(s, max) == Lowest(Ones(tti_slicing_mask[s]) \ CtrlRbgs, max)
Unmark(m, R) == [r \in Rbgs |-> IF r \in R THEN 0 ELSE m[r]]
Bug_MarkNothing(s, max) == tti_slicing_mask
MarkTaken(s, max) ==
  IF max = 0 THEN tti_slicing_mask
  ELSE [tti_slicing_mask EXCEPT
          ![s] = Unmark(@, FindAllocationSlicing(s, max) \cup CtrlRbgs)]

\* All that alloc_dl_user asks of a mask before it asks for a DCI:
\* no segmentation (alloc_dl_data) and no collision (alloc_dl).
Bug_AcceptsNoCollisionCheck(u, m) == need[u][1] <= Cardinality(m)
Accepts(u, m) == need[u][1] <= Cardinality(m) /\ m \cap dl_mask = {}

Granted(u) == \E a \in data_allocs : a.user = u
Bug_PendingAnyActive(u) == {p \in Pids : harq[u][p].active}
Pending(u) == {p \in Pids : harq[u][p].active /\ harq[u][p].nack}
Empty(u)   == {p \in Pids : Idle(harq[u][p])}

-----------------------------------------------------------------------------
\* alloc_dci: fails, or succeeds at a CFI it may have raised.
NoDci  == FALSE \in DciOutcomes
Dci    == TRUE \in DciOutcomes /\ cfi' \in cfi .. MaxCfi

\* The RBGs alloc_dl takes once the DCI is there.
Bug_TakeNoCount(m) == dl_mask' = dl_mask \cup m /\ avail_rbg' = avail_rbg
Take(m) == /\ dl_mask' = dl_mask \cup m
           /\ avail_rbg' = avail_rbg - Cardinality(m)

\* sf_grid_t::alloc_dl_ctrl: contiguous RBGs from the left.
CtrlRange(n) == (NofRbgs - avail_rbg) .. (NofRbgs - avail_rbg + n - 1)

AllocDlCtrl(type, n) ==
  /\ NofRbgs - avail_rbg + n <= NofRbgs
  /\ CtrlRange(n) \cap dl_mask = {}
  /\ Dci
  /\ Take(CtrlRange(n))
  /\ ctrl_allocs' = ctrl_allocs \cup {[type |-> type, rbgs |-> CtrlRange(n)]}
  /\ UNCHANGED <<reserved, data_allocs>>

\* sf_sched::alloc_dl_user, past the checks of Accepts.
AllocDlUser(u, m, p) ==
  /\ Dci
  /\ Take(m)
  /\ data_allocs' = data_allocs \cup {[user |-> u, pid |-> p, mask |-> m]}
  /\ UNCHANGED <<reserved, ctrl_allocs>>

\* The mask tried first for the retransmission of process p.
RetxMask(u, s, p) == IF SlicingEnabled /\ s # -1 THEN NonZero(slicing_mask[s])
                                                 ELSE harq[u][p].mask
Bug_FewerRbgs(m) == FindAllocation(1, Cardinality(m))
OtherMasks(m) == FindAllocation(Cardinality(m), Cardinality(m))

\* allocate_user, retransmission of process p: the same mask, else another of
\* the same number of RBGs; the empty set of masks when neither is accepted.
FirstFit(u, s, p) ==
  LET same == RetxMask(u, s, p) IN
  IF Accepts(u, same) THEN {same} ELSE {m \in OtherMasks(same) : Accepts(u, m)}
Retransmit(u, s, p) ==
  /\ \/ \E m \in FirstFit(u, s, p) : AllocDlUser(u, m, p)
     \/ FirstFit(u, s, p) # {} /\ NoDci /\ UNCHANGED gridVars
  /\ UNCHANGED tti_slicing_mask

\* allocate_user, new transmission of min..max RBGs.
Bug_NewMaskIgnoresSlice(s, min, max) == UNION FindAllocation(min, max)
NewMask(s, min, max) ==
  IF SlicingEnabled /\ s # -1 THEN FindAllocationSlicing(s, max)
                              ELSE UNION FindAllocation(min, max)
Transmit(u, s, min, max) ==
  LET m == NewMask(s, min, max)
      placed == m # {} /\ Accepts(u, m) IN
  /\ Empty(u) # {} /\ min > 0
  /\ tti_slicing_mask' = IF SlicingEnabled /\ s # -1 THEN MarkTaken(s, max)
                                                     ELSE tti_slicing_mask
  /\ \/ placed /\ \E p \in Empty(u) : AllocDlUser(u, m, p)
     \/ (~placed \/ NoDci) /\ UNCHANGED gridVars
NoTransmit(u, min) ==
  /\ Empty(u) = {} \/ min = 0
  /\ UNCHANGED <<gridVars, tti_slicing_mask>>

\* A process whose retransmission is answered by the PDCCH ends the visit; one
\* that fits nowhere gives way to new data.
Bug_NewDataFirst(u, s, min, max) ==
  /\ ~Granted(u)
  /\ \/ Transmit(u, s, min, max)
     \/ NoTransmit(u, min)
AllocateUser(u, s, min, max) ==
  LET new == Transmit(u, s, min, max) \/ NoTransmit(u, min) IN
  /\ ~Granted(u)
  /\ \/ Pending(u) = {} /\ new
     \/ \E p \in Pending(u) : \/ Retransmit(u, s, p)
                              \/ FirstFit(u, s, p) = {} /\ new

-----------------------------------------------------------------------------
Init ==
  /\ pc = "idle"
  /\ dl_mask = {} /\ avail_rbg = NofRbgs /\ reserved = FALSE /\ cfi = MinCfi
  /\ ctrl_allocs = {} /\ data_allocs = {}
  /\ slicing_mask \in [Slices -> Masks] /\ tti_slicing_mask = slicing_mask
  /\ policy \in [Slices -> Policies]
  /\ ue_db = {} /\ iter = 0 /\ todo = {}
  /\ slice_number = [u \in Users |-> -1]
  /\ times_scheduled = [u \in Users |-> 0]
  /\ need = [u \in Users |-> <<0, 0>>]
  /\ harq = [u \in Users |-> FreshHarq]

\* generate_tti_result starts a TTI in a cleared sf_sched; sf_dl_mask may
\* exclude the downlink of a subframe altogether.
NewTti ==
  /\ pc = "idle" /\ pc' \in {"bc", "results"}
  /\ dl_mask' = {} /\ avail_rbg' = NofRbgs /\ reserved' = FALSE /\ cfi' = MinCfi
  /\ ctrl_allocs' = {} /\ data_allocs' = {}
  /\ UNCHANGED <<sliceVars, ueVars, iter, todo>>

\* bc_sched::dl_sched: SIBs and paging; ra_sched::dl_sched: RARs.
AllocBc ==
  /\ pc = "bc" /\ pc' = "bc"
  /\ AllocDlCtrl("BC", SiNRbg)
  /\ UNCHANGED <<sliceVars, ueVars, iter, todo>>
AllocRar ==
  /\ pc \in {"bc", "rar"} /\ pc' = "rar"
  /\ AllocDlCtrl("RAR", RarNRbg)
  /\ UNCHANGED <<sliceVars, ueVars, iter, todo>>

\* alloc_dl_users and the head of sched_users.  On even TTIs the uplink users
\* were served before and may have raised the CFI.
Bug_ReserveShort ==
  \/ reserved' = FALSE /\ dl_mask' = dl_mask
  \/ SixPrbs /\ reserved' = TRUE /\ dl_mask' = dl_mask \cup 0 .. NofRbgs - 2
ReserveForPrach ==
  \/ reserved' = FALSE /\ dl_mask' = dl_mask
  \/ SixPrbs /\ reserved' = TRUE /\ dl_mask' = Rbgs
RefreshSlices ==
  /\ slicing_mask' \in [Slices -> Masks]
  /\ policy' \in [Slices -> Policies]
StartUsers ==
  /\ pc \in {"bc", "rar"}
  /\ ReserveForPrach
  /\ cfi' \in cfi .. MaxCfi
  /\ IF ue_db = {} THEN pc' = "results" /\ UNCHANGED <<sliceVars, iter, todo>>
     ELSE /\ pc' = "users" /\ iter' \in ue_db /\ todo' = ue_db
          /\ \/ SlicingEnabled /\ RefreshSlices
             \/ UNCHANGED <<slicing_mask, policy>>
          /\ tti_slicing_mask' = slicing_mask'
  /\ UNCHANGED <<avail_rbg, ctrl_allocs, data_allocs, ueVars>>

\* One round of the loop of sched_users.
Bug_NextUserNoWrap(u) == LET above == {v \in ue_db : v > u}
                         IN IF above = {} THEN 0
                            ELSE CHOOSE v \in above : \A w \in above : v <= w
NextUser(u) == LET above == {v \in ue_db : v > u}
                   from  == IF above = {} THEN ue_db ELSE above
               IN CHOOSE v \in from : \A w \in from : v <= w
\* The slice stays -1 while ue_resources has no IMSI for the user.
SliceOnVisit(u) ==
  IF slice_number[u] # -1 THEN {slice_number[u]}
  ELSE {-1} \cup IF SlicingEnabled THEN Slices ELSE {0}
\* Slice -1 past the threshold reads slicing_structure[-1]: any policy.
PolicyOf(s) == IF ~SlicingEnabled THEN {GlobalPolicy}
               ELSE IF s = -1 THEN 0..2 ELSE {policy[s]}
ServeDefault(u, s) ==
  /\ times_scheduled[u] < SchedThreshold \/ 0 \in PolicyOf(s)
  /\ AllocateUser(u, s, need[u][1], need[u][2])
\* The maps hold an entry only for a user with data; .at throws without one.
ServeFixed(u, s) ==
  /\ times_scheduled[u] >= SchedThreshold /\ PolicyOf(s) # {0}
  /\ \/ need[u][2] > 0 /\ \E n \in 0..NofRbgs : AllocateUser(u, s, n, n)
     \/ UNCHANGED <<gridVars, tti_slicing_mask>>
Visit(u) ==
  /\ pc = "users" /\ u \in todo /\ u = iter
  /\ \E s \in SliceOnVisit(u) :
       /\ slice_number' = [slice_number EXCEPT ![u] = s]
       /\ ServeDefault(u, s) \/ ServeFixed(u, s)
  /\ iter' = NextUser(u) /\ todo' = todo \ {u}
  /\ pc' = IF todo' = {} THEN "results" ELSE "users"
  /\ UNCHANGED <<slicing_mask, policy, ue_db, times_scheduled, need, harq>>

\* generate_sched_results.  A new TB is not started when nothing fits into it;
\* past the threshold a forced value mutes the user and leaves its process.
Started(h, m) == [active |-> TRUE, nack |-> FALSE, mask |-> m, size |-> Cardinality(m)]
Resent(h, m)  == [h EXCEPT !.nack = FALSE, !.mask = m]
GenerateResults ==
  /\ pc = "results" /\ pc' = "idle"
  /\ \E done \in SUBSET data_allocs :
       /\ \A a \in data_allocs \ done :
            Idle(harq[a.user][a.pid]) \/ times_scheduled[a.user] >= SchedThreshold
       /\ harq' = [u \in Users |-> [p \in Pids |->
            LET mine == {a \in done : a.user = u /\ a.pid = p} IN
            IF mine = {} THEN harq[u][p]
            ELSE LET m == (CHOOSE a \in mine : TRUE).mask IN
                 IF Idle(harq[u][p]) THEN Started(harq[u][p], m)
                                     ELSE Resent(harq[u][p], m)]]
  /\ times_scheduled' = [u \in Users |->
       IF Granted(u) /\ times_scheduled[u] < SchedThreshold + 2
       THEN times_scheduled[u] + 1 ELSE times_scheduled[u]]
  /\ UNCHANGED <<gridVars, sliceVars, ue_db, slice_number, need, iter, todo>>

-----------------------------------------------------------------------------
\* Between two TTIs.
Between == pc = "idle" /\ UNCHANGED <<pc, gridVars, sliceVars, iter, todo>>

\* dl_ack_info.  A retransmission whose feedback is lost pends again, like one
\* that was refused.
Nack(u, p) ==
  /\ Between /\ harq[u][p].active /\ ~harq[u][p].nack
  /\ harq' = [harq EXCEPT ![u][p].nack = TRUE]
  /\ UNCHANGED <<ue_db, slice_number, times_scheduled, need>>
\* An ACK, the last NACK allowed, or a process older than 100 TTIs.
Release(u, p) ==
  /\ Between /\ harq[u][p].active
  /\ harq' = [harq EXCEPT ![u][p] = EmptyProc]
  /\ UNCHANGED <<ue_db, slice_number, times_scheduled, need>>
\* dl_rlc_buffer_state, dl_mac_buffer_state.
BufferState(u, n) ==
  /\ Between /\ u \in ue_db /\ need' = [need EXCEPT ![u] = n]
  /\ UNCHANGED <<ue_db, slice_number, times_scheduled, harq>>
UeCfg(u) ==
  /\ Between /\ u \notin ue_db /\ ue_db' = ue_db \cup {u}
  /\ UNCHANGED <<slice_number, times_scheduled, need, harq>>
UeRem(u) ==
  /\ Between /\ u \in ue_db /\ ue_db' = ue_db \ {u}
  /\ slice_number' = [slice_number EXCEPT ![u] = -1]
  /\ times_scheduled' = [times_scheduled EXCEPT ![u] = 0]
  /\ need' = [need EXCEPT ![u] = <<0, 0>>]
  /\ harq' = [harq EXCEPT ![u] = FreshHarq]

Next ==
  \/ NewTti \/ AllocBc \/ AllocRar \/ StartUsers \/ GenerateResults
  \/ \E u \in Users :
       \/ Visit(u) \/ UeCfg(u) \/ UeRem(u)
       \/ \E n \in Needs : BufferState(u, n)
       \/ \E p \in Pids : Nack(u, p) \/ Release(u, p)

Spec == Init /\ [][Next]_vars

-----------------------------------------------------------------------------
HarqProcs == [active : BOOLEAN, nack : BOOLEAN, mask : SUBSET Rbgs, size : 0..NofRbgs]

\* Every variable keeps its type (scheduler_grid.h, scheduler_metric.h).
TypeOK ==
  /\ pc \in {"idle", "bc", "rar", "users", "results"}
  /\ dl_mask \subseteq Rbgs /\ avail_rbg \in 0..NofRbgs /\ reserved \in BOOLEAN
  /\ cfi \in MinCfi..MaxCfi
  /\ ctrl_allocs \subseteq [type : {"BC", "RAR"}, rbgs : SUBSET Rbgs]
  /\ data_allocs \subseteq [user : Users, pid : Pids, mask : SUBSET Rbgs]
  /\ slicing_mask \in [Slices -> Masks]
  /\ tti_slicing_mask \in [Slices -> [Rbgs -> Flags]]
  /\ policy \in [Slices -> Policies]
  /\ ue_db \subseteq Users /\ todo \subseteq ue_db
  /\ todo # {} => iter \in ue_db
  /\ slice_number \in [Users -> Slices \cup {-1}]
  /\ times_scheduled \in [Users -> 0 .. SchedThreshold + 2]
  /\ need \in [Users -> Needs]
  /\ harq \in [Users -> [Pids -> HarqProcs]]

CtrlTaken == UNION {a.rbgs : a \in ctrl_allocs}
DataTaken == UNION {a.mask : a \in data_allocs}

\* No RBG of a subframe carries two transmissions: not two broadcasts or RARs,
\* not control and data, not two users, whatever mixture of slice masks,
\* retransmissions and fallbacks allocated them.
GridExclusive ==
  /\ \A a, b \in ctrl_allocs : a # b => a.rbgs \cap b.rbgs = {}
  /\ \A a, b \in data_allocs : a # b => a.mask \cap b.mask = {}
  /\ CtrlTaken \cap DataTaken = {}

\* dl_mask and avail_rbg tell the same story: the count that alloc_dl_ctrl turns
\* into a position is the number of RBGs not taken, and nothing is taken that was
\* not granted (except a grid closed for a PRACH).
GridAccounts ==
  /\ dl_mask = IF reserved THEN Rbgs ELSE CtrlTaken \cup DataTaken
  /\ avail_rbg = NofRbgs - Cardinality(CtrlTaken \cup DataTaken)

\* At most one grant per user and TTI, on a process that is either empty or
\* waiting for its retransmission: a TB whose feedback is still due is neither
\* overwritten nor sent again.
GrantsMatchHarq ==
  pc \in {"bc", "rar", "users", "results"} =>
    /\ \A a, b \in data_allocs : a.user = b.user => a = b
    /\ \A a \in data_allocs : harq[a.user][a.pid].active => harq[a.user][a.pid].nack

\* New data of a user whose slice is known stays on RBGs that its slice permits,
\* though masks, policies and ownership are reread while the cell runs.
NewDataInSlice ==
  pc \in {"users", "results"} /\ SlicingEnabled =>
    \A a \in data_allocs :
      Idle(harq[a.user][a.pid]) /\ slice_number[a.user] # -1
        => a.mask \subseteq Ones(slicing_mask[slice_number[a.user]])

\* The per-TTI copy of a slice mask never offers an RBG the slice does not have,
\* nor one that new data of that slice has been given in this TTI.
TtiMaskSound ==
  pc = "users" /\ SlicingEnabled =>
    \A s \in Slices :
      /\ Ones(tti_slicing_mask[s]) \subseteq Ones(slicing_mask[s])
      /\ \A a \in data_allocs :
           Idle(harq[a.user][a.pid]) /\ slice_number[a.user] = s
             => a.mask \cap Ones(tti_slicing_mask[s]) = {}

\* In a 6-PRB cell no user gets RBGs in a subframe whose ACK would meet a PRACH
\* (scheduler_carrier.cc:372).
PrachKeptFree == reserved => DataTaken = {}

\* A retransmission has the number of RBGs its TB was coded for (the UE derives
\* the size of the TB from that number): "find another with exact same number of
\* rbgs" (scheduler_metric.cc:420).
RetxKeepsSize ==
  pc \in {"users", "results"} =>
    \A a \in data_allocs : harq[a.user][a.pid].active
       => Cardinality(a.mask) = harq[a.user][a.pid].size

\* Without a slice mask in its place, it does: a retransmission tries the mask of its
\* TB, then another of that size.
Unsliced(u) == ~SlicingEnabled \/ slice_number[u] = -1
UnslicedKeepsSize ==
  pc \in {"users", "results"} =>
    \A a \in data_allocs : harq[a.user][a.pid].active /\ Unsliced(a.user)
       => Cardinality(a.mask) = harq[a.user][a.pid].size

\* No new data is given to a user whose pending retransmissions would all fit,
\* whatever the policy, although a process may give way to new data (allocate_user).
RetxFirst ==
  [][\A u \in Users :
       /\ pc = "users" /\ u = iter /\ todo' # todo /\ Pending(u) # {}
       /\ \A p \in Pending(u) : FirstFit(u, slice_number'[u], p) # {}
       => \A a \in data_allocs' \ data_allocs : harq[a.user][a.pid].active]_vars

=============================================================================
