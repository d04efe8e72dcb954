-------------------------------- MODULE UlSched --------------------------------
(***************************************************************************)
(* The uplink of one carrier and of one synchronous HARQ process per UE:   *)
(* CRC reports, PHICH, ul_metric_rr, format 0 grants, and the UE's side of *)
(* the same process (scheduler_metric.cc, scheduler_grid.cc,               *)
(* scheduler_harq.cc; srsue ul_harq.cc).                                   *)
(*                                                                         *)
(* get_ul_harq picks the process by the TTI modulo 8, so the processes of  *)
(* a UE share nothing but its buffer, which is free here.  A round is one  *)
(* UL subframe of the process; the next is 8 TTIs later, after the worker  *)
(* of the first has reported its CRCs.                                     *)
(*                                                                         *)
(* Abstractions.  Msg3 of other users takes PRBs before the walk (RaSched).*)
(* The PDCCH answers each DCI freely.  A TB is its size class.             *)
(***************************************************************************)
EXTENDS Integers, FiniteSets, FiniteSetsExt

CONSTANTS NofPrb, NrbPucch,
          PrachOffset, PrachSize, \* prach_freq_offset, 6
          Users,                  \* RNTIs in the order of ue_db
          MaxTx,                  \* maxharq_tx of eNB and UE
          Wants,                  \* PRBs a user may ask for; 0: no data
          Sizes,                  \* sizes of the TBs of each user
          Msg3Masks,              \* PRBs Msg3 may hold in a subframe
          DciOutcomes,            \* may the PDCCH have room, or not
          Lossy                   \* the users that may miss a DCI

Prbs == 0 .. NofPrb - 1
AllSizes == UNION {Sizes[u] : u \in Users}

ASSUME CellAssumption ==
  /\ NofPrb \in Nat \ {0} /\ NrbPucch \in Nat /\ 2 * NrbPucch <= NofPrb
  /\ PrachOffset \in Nat /\ PrachSize \in Nat /\ PrachOffset + PrachSize <= NofPrb
ASSUME UlAssumption ==
  /\ Users \subseteq Nat /\ IsFiniteSet(Users) /\ MaxTx \in Nat \ {0}
  /\ Wants \subseteq Nat /\ Sizes \in [Users -> SUBSET (Nat \ {0})]
  /\ Msg3Masks \subseteq SUBSET Prbs
  /\ DciOutcomes \subseteq BOOLEAN /\ Lossy \subseteq Users

VARIABLES
  pc, first, todo, \* stage of the round, its first user, the users still to be visited
  ul_mask,         \* sf_grid_t::ul_mask
  reserved,        \* PRBs of PUCCH, PRACH and Msg3
  ul_data_allocs,  \* sf_sched::ul_data_allocs, Msg3 apart
  phich,           \* the PHICH of each user in this round
  harq,            \* ul_harq_proc
  ue,              \* ul_harq_process of the UE, and the PUSCH it sends
  missed,          \* history: an odd number of new TBs lost since the UE heard a DCI
  astray           \* history: since the UE last started a TB, a DCI was lost or
                   \* its retransmission was refused

gridVars == <<ul_mask, reserved, ul_data_allocs>>
histVars == <<missed, astray>>
vars == <<pc, first, todo, gridVars, phich, harq, ue, histVars>>

None == [start |-> 0, len |-> 0]
Mask(a) == a.start .. a.start + a.len - 1

-----------------------------------------------------------------------------
\* srslte_dft_precoding_valid_prb: a table.
DftValid(n) ==
  n \in {0, 1, 2, 3, 4, 5, 6, 8, 9, 10, 12, 15, 16, 18, 20, 24, 25, 27, 30, 32, 36, 40,
         45, 48, 50, 54, 60, 64, 72, 75, 80, 81, 90, 96, 100}
DftFloor(n) == Max({k \in 1..n : DftValid(k)})

\* ul_metric_rr::find_allocation: the first run of free PRBs, unless it ends
\* below PRB 3 before it has L of them.
RunEnd(used, s) == Min({n \in used : n > s} \cup {NofPrb})
RunStarts(used) == {s \in Prbs \ used : s = 0 \/ s - 1 \in used}
FindAllocation(used, L) ==
  LET runs == {s \in RunStarts(used) : RunEnd(used, s) - s >= L \/ RunEnd(used, s) >= 3}
      s    == Min(runs)
  IN IF L = 0 \/ runs = {} THEN None
     ELSE [start |-> s, len |-> DftFloor(Min({L, RunEnd(used, s) - s}))]

Granted(u) == \E g \in ul_data_allocs : g.user = u
GrantOf(u) == CHOOSE g \in ul_data_allocs : g.user = u
Pending(u) == harq[u].active /\ harq[u].nack

\* Bug: only the lengths are compared.
Bug_SameLength(u, a) == IF ~Pending(u) THEN "NEWTX"
                        ELSE IF a.len = harq[u].alloc.len THEN "NOADAPT_RETX"
                        ELSE "ADAPT_RETX"

\* alloc_ul_user: what kind of grant this is.
TypeOf(u, a) == IF ~Pending(u) THEN "NEWTX"
                ELSE IF a = harq[u].alloc THEN "NOADAPT_RETX" ELSE "ADAPT_RETX"
NeedsPdcch(type) == type # "NOADAPT_RETX"

\* Bug: PRBs in use are not looked at.
Bug_AcceptsInGrid(a) == a.start + a.len <= NofPrb

\* sf_grid_t::alloc_ul_data asks for the PRBs first, then for a DCI.
Accepts(a)  == a.start + a.len <= NofPrb /\ Mask(a) \cap ul_mask = {}
NoDci(u, a) == NeedsPdcch(TypeOf(u, a)) /\ FALSE \in DciOutcomes
AllocUlUser(u, a) ==
  \/ /\ NeedsPdcch(TypeOf(u, a)) => TRUE \in DciOutcomes
     /\ ul_mask' = ul_mask \cup Mask(a)
     /\ ul_data_allocs' = ul_data_allocs \cup {[user |-> u, type |-> TypeOf(u, a), alloc |-> a]}
     /\ UNCHANGED reserved
  \/ NoDci(u, a) /\ UNCHANGED gridVars

\* allocate_user_newtx_prbs.
NewTxPrbs(u) ==
  \E want \in Wants :
    LET a == FindAllocation(ul_mask, want) IN
    IF ~harq[u].active /\ a.len > 0 /\ Accepts(a)
    THEN AllocUlUser(u, a) ELSE UNCHANGED gridVars

\* allocate_user_retx_prbs: the same PRBs, else as many elsewhere.
RetxAllocs(u) ==
  LET same  == harq[u].alloc
      other == FindAllocation(ul_mask, same.len)
  IN IF Accepts(same) THEN {same}
     ELSE {a \in {other} : a.len = same.len /\ Accepts(a)}
Retransmit(u) == \/ \E a \in RetxAllocs(u) : AllocUlUser(u, a)
                 \/ RetxAllocs(u) = {} /\ UNCHANGED gridVars
\* Bug: one walk for both.
Bug_OneWalk(u) == IF Pending(u) THEN Retransmit(u) ELSE NewTxPrbs(u)
RetxPrbs(u) == IF Pending(u) THEN Retransmit(u) ELSE UNCHANGED gridVars

-----------------------------------------------------------------------------
FreshProc == [active |-> FALSE, nack |-> FALSE, n_rtx |-> 0, ndi |-> FALSE,
              alloc |-> None, size |-> 0, pending_ack |-> "none"]
\* tb: whose data the UE's buffer holds, the eNB's current TB or an earlier one.
FreshUe == [grant |-> FALSE, ndi |-> FALSE, size |-> 0, last |-> 0, tx_nb |-> 0,
            feedback |-> FALSE, tb |-> "none", sent |-> None]

Init ==
  /\ pc = "phich" /\ first = 0 /\ todo = {}
  /\ ul_mask = {} /\ reserved = {} /\ ul_data_allocs = {}
  /\ phich = [u \in Users |-> "none"]
  /\ harq = [u \in Users |-> FreshProc] /\ ue = [u \in Users |-> FreshUe]
  /\ missed = [u \in Users |-> FALSE] /\ astray = [u \in Users |-> FALSE]

\* Bug: one transmission more than maxharq_tx.
Bug_DropLate(h, ok) ==
  [h EXCEPT !.pending_ack = IF ok THEN "ack" ELSE "nack", !.nack = ~ok,
            !.active = ~ok /\ @ /\ h.n_rtx < MaxTx]

\* sched_ue::set_ul_crc for each grant of the subframe that was received.
SetAck(h, ok) ==
  [h EXCEPT !.pending_ack = IF ok THEN "ack" ELSE "nack", !.nack = ~ok,
            !.active = ~ok /\ h.n_rtx + 1 < MaxTx]
\* A PUSCH is decoded only if it was sent as the grant says.
Decodable(u) == /\ Granted(u) /\ ue[u].sent = GrantOf(u).alloc
                /\ ue[u].size = harq[u].size
UlCrcInfo ==
  /\ pc = "crc" /\ pc' = "phich"
  /\ \E good \in SUBSET {u \in Users : Decodable(u)} :
       harq' = [u \in Users |-> IF Granted(u) /\ harq[u].active
                                THEN SetAck(harq[u], u \in good) ELSE harq[u]]
  /\ UNCHANGED <<first, todo, gridVars, phich, ue, histVars>>

\* alloc_phich for all users, then the Msg3 granted before and alloc_ul_users up
\* to the walk: a subframe may have a PRACH.
PucchMask == 0 .. NrbPucch - 1 \cup NofPrb - NrbPucch .. NofPrb - 1
PrachMask == PrachOffset .. PrachOffset + PrachSize - 1
StartTti ==
  /\ pc = "phich" /\ pc' = "retx"
  /\ phich' = [u \in Users |-> harq[u].pending_ack]
  /\ \E msg3 \in Msg3Masks, prach \in {{}, PrachMask} :
       reserved' = msg3 \cup prach \cup PucchMask
  /\ ul_mask' = reserved' /\ ul_data_allocs' = {}
  /\ first' \in Users /\ todo' = Users
  /\ UNCHANGED <<harq, ue, histVars>>

\* ul_metric_rr::sched_users: one walk for retransmissions, one for new data, both
\* from the same user on.
Rank(u) == IF u >= first THEN u ELSE u + Max(Users) + 1
NextUser == CHOOSE u \in todo : \A v \in todo : Rank(u) <= Rank(v)
VisitRetx ==
  /\ pc = "retx" /\ todo # {}
  /\ RetxPrbs(NextUser)
  /\ todo' = IF todo = {NextUser} THEN Users ELSE todo \ {NextUser}
  /\ pc' = IF todo = {NextUser} THEN "newtx" ELSE "retx"
  /\ UNCHANGED <<first, phich, harq, ue, histVars>>
VisitNewTx ==
  /\ pc = "newtx"
  /\ IF Granted(NextUser) THEN UNCHANGED gridVars ELSE NewTxPrbs(NextUser)
  /\ todo' = todo \ {NextUser}
  /\ pc' = IF todo' = {} THEN "results" ELSE "newtx"
  /\ UNCHANGED <<first, phich, harq, ue, histVars>>

\* generate_format0 for each grant, then finish_tti.
NewTx(h, g, size) ==
  [h EXCEPT !.active = TRUE, !.nack = FALSE, !.n_rtx = 0, !.ndi = ~@,
            !.alloc = g.alloc, !.size = size]
NewRetx(h, g) == [h EXCEPT !.nack = TRUE, !.n_rtx = @ + 1, !.alloc = g.alloc]
FinishTti(h) == [h EXCEPT !.pending_ack = "none"]
GenerateResults ==
  /\ pc = "results" /\ pc' = "air"
  /\ \E size \in [Users -> AllSizes] :
       /\ \A u \in Users : size[u] \in Sizes[u]
       /\ harq' = [u \in Users |-> FinishTti(
                     IF ~Granted(u) THEN harq[u]
                     ELSE IF harq[u].active THEN NewRetx(harq[u], GrantOf(u))
                                            ELSE NewTx(harq[u], GrantOf(u), size[u]))]
  /\ UNCHANGED <<first, todo, gridVars, phich, ue, histVars>>

-----------------------------------------------------------------------------
\* ul_harq_process::new_grant_ul at the UE.  It looks for a PHICH only where it sent
\* a PUSCH 8 TTIs ago; hi is what it reads there.
UeReset(q) == [q EXCEPT !.grant = FALSE, !.ndi = FALSE, !.size = 0, !.tx_nb = 0]
\* An adaptive retransmission (MCS above 28) has the size of the last TB.
DciSize(u) == IF GrantOf(u).type = "NEWTX" THEN harq[u].size ELSE ue[u].last
Hears(u, lost) ==
  /\ Granted(u) /\ NeedsPdcch(GrantOf(u).type) /\ ~lost
  /\ DciSize(u) # 0
Silent(q) == [q EXCEPT !.sent = None]
\* tx_nb stops at MaxTx, where its only test is.
Resend(q, alloc) == [q EXCEPT !.tx_nb = Min({@ + 1, MaxTx}), !.sent = alloc]

Feedback(u, q, dci, hi) ==
  IF q.sent = None THEN q.feedback
  ELSE hi /\ ~(dci /\ harq[u].ndi = q.ndi)
AfterMaxTx(q, hi) ==
  IF q.sent # None /\ q.tx_nb >= MaxTx /\ ~hi THEN UeReset(q) ELSE q
AfterSizeChange(u, q, fb) ==
  IF fb /\ q.grant /\ q.size # DciSize(u) THEN UeReset(q) ELSE q
\* Bug: a UE without a grant goes by the NDI alone.
Bug_NdiOnly(u, q) == harq[u].ndi # q.ndi
IsNewTx(u, q) == harq[u].ndi # q.ndi \/ ~q.grant
OnDci(u, q, fb) ==
  LET p   == AfterSizeChange(u, q, fb)
      new == IsNewTx(u, p)
  IN [Resend(p, GrantOf(u).alloc) EXCEPT
        !.tx_nb = IF new THEN 1 ELSE @,
        !.tb = IF new THEN "current" ELSE @,
        !.grant = TRUE, !.ndi = harq[u].ndi, !.feedback = FALSE,
        !.size = DciSize(u), !.last = DciSize(u)]
OnPhich(q, fb) ==
  LET p == [q EXCEPT !.feedback = fb] IN
  IF q.sent # None /\ q.grant /\ ~fb THEN Resend(p, q.sent) ELSE Silent(p)
NewGrantUl(u, lost, hi) ==
  LET dci == Hears(u, lost)
      new == Granted(u) /\ GrantOf(u).type = "NEWTX"
      q0  == IF new /\ ue[u].tb = "current" THEN [ue[u] EXCEPT !.tb = "old"] ELSE ue[u]
      fb  == Feedback(u, q0, dci, hi)
      q   == AfterMaxTx(q0, hi)
  IN IF dci THEN OnDci(u, q, fb) ELSE OnPhich(q, fb)

\* What the UE reads as PHICH: what was sent, or noise.
HiValues(u) == CASE phich[u] = "ack"  -> {TRUE}
                 [] phich[u] = "nack" -> {FALSE}
                 [] OTHER -> BOOLEAN
Refused(u) == harq[u].active /\ ~Granted(u)
Air ==
  /\ pc = "air" /\ pc' = "crc"
  /\ \E lost \in SUBSET Lossy, hi \in [Users -> BOOLEAN] :
       /\ \A u \in Users : hi[u] \in HiValues(u)
       /\ ue' = [u \in Users |-> NewGrantUl(u, u \in lost, hi[u])]
       /\ missed' = [u \in Users |->
            IF Hears(u, u \in lost) THEN FALSE
            ELSE IF Granted(u) /\ GrantOf(u).type = "NEWTX" THEN ~missed[u]
            ELSE missed[u]]
       /\ astray' = [u \in Users |->
            IF Granted(u) /\ GrantOf(u).type = "NEWTX"
            THEN ~Hears(u, u \in lost) \/ ue'[u].tb # "current"
            ELSE \/ astray[u] \/ Refused(u)
                 \/ Granted(u) /\ NeedsPdcch(GrantOf(u).type) /\ ~Hears(u, u \in lost)]
  /\ UNCHANGED <<first, todo, gridVars, phich, harq>>

Next == UlCrcInfo \/ StartTti \/ VisitRetx \/ VisitNewTx \/ GenerateResults \/ Air

Spec == Init /\ [][Next]_vars

-----------------------------------------------------------------------------
Allocs == [start : Prbs, len : 0..NofPrb]

\* Every variable keeps its type.
TypeOK ==
  /\ pc \in {"phich", "retx", "newtx", "results", "air", "crc"}
  /\ first \in Users \cup {0} /\ todo \subseteq Users
  /\ ul_mask \subseteq Prbs /\ reserved \subseteq Prbs
  /\ ul_data_allocs \subseteq
       [user : Users, type : {"NEWTX", "NOADAPT_RETX", "ADAPT_RETX"}, alloc : Allocs]
  /\ phich \in [Users -> {"none", "ack", "nack"}]
  /\ harq \in [Users -> [active : BOOLEAN, nack : BOOLEAN, n_rtx : 0..MaxTx - 1,
       ndi : BOOLEAN, alloc : Allocs, size : AllSizes \cup {0}, pending_ack : {"none", "ack", "nack"}]]
  /\ ue \in [Users -> [grant : BOOLEAN, ndi : BOOLEAN, size : AllSizes \cup {0},
       last : AllSizes \cup {0}, tx_nb : 0..MaxTx, feedback : BOOLEAN,
       tb : {"none", "current", "old"}, sent : Allocs]]
  /\ missed \in [Users -> BOOLEAN] /\ astray \in [Users -> BOOLEAN]

\* No PRB of an uplink subframe is granted twice, nor granted where PUCCH, PRACH or
\* a Msg3 is; every grant is a range that SC-FDMA can carry (find_allocation,
\* alloc_ul_data; test_pusch_collisions).
UlExclusive ==
  \A g \in ul_data_allocs :
    /\ Mask(g.alloc) \subseteq Prbs \ reserved
    /\ g.alloc.len > 0 /\ DftValid(g.alloc.len)
    /\ \A h \in ul_data_allocs : g # h => g.user # h.user /\ Mask(g.alloc) \cap Mask(h.alloc) = {}

\* A retransmission never gives way to new data: one that is refused collides with
\* what is reserved or with other retransmissions (two walks of sched_users; the
\* same PRBs need no DCI).
RetxBeforeNew ==
  pc = "air" =>
    \A u \in Users : Refused(u) =>
      Mask(harq[u].alloc) \cap
        (reserved \cup UNION {Mask(g.alloc) : g \in {h \in ul_data_allocs : h.type # "NEWTX"}}) # {}

\* As long as no DCI is lost and no retransmission is refused, a UE sends on exactly
\* the PRBs of its grant, with the TB the eNB waits for, and is silent without one:
\* PHICH, NDI and the two counters of transmissions agree (alloc_phich,
\* alloc_ul_user, new_grant_ul).
GrantObeyed ==
  pc = "crc" => \A u \in Users : ~astray[u] =>
    IF Granted(u) THEN ue[u].sent = GrantOf(u).alloc /\ ue[u].tb = "current"
                  ELSE ue[u].sent = None

\* A UE that hears the grant of a new TB sends new data, unless an odd number of new
\* TBs escaped it since the last DCI it heard (the NDI is one bit).
NewDataTaken ==
  [][pc = "air" => \A u \in Users :
       Granted(u) /\ GrantOf(u).type = "NEWTX" /\ ~missed[u] /\ ~missed'[u]
         => ue'[u].tb = "current"]_vars
=============================================================================
