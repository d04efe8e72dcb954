-------------------------------- MODULE RaSched --------------------------------
(***************************************************************************)
(* Random access in the eNB scheduler of one carrier: ra_sched, alloc_rar  *)
(* and the ring of sf_scheds that carries Msg3 grants to a later TTI       *)
(* (scheduler_carrier.cc, scheduler_grid.cc).                              *)
(*                                                                         *)
(* The scheduling of a TTI is one critical section of sched_mutex; its     *)
(* steps are actions here so that a loop that does not end is seen.  The   *)
(* PHY workers of the TTIs in flight enter it in any order.                *)
(*                                                                         *)
(* Abstractions.  A TTI has room for some number of RARs, and then lacks   *)
(* either RBGs or a DCI position.  RNTIs are reused only after 65k others. *)
(***************************************************************************)
EXTENDS Integers, Sequences, FiniteSets

CONSTANTS Rntis,          \* temporary C-RNTIs
          TtiMod,         \* 10240
          RingSize,       \* TTIMOD_SZ
          Workers,        \* nof_phy_threads
          DlDelay,        \* FDD_HARQ_DELAY_UL_MS: from tti_rx to tti_tx_dl
          UlDelay,        \* FDD_HARQ_DELAY_DL_MS: from tti_tx_dl to tti_tx_ul
          Msg3Delay,      \* MSG3_DELAY_MS
          RarStart,       \* 3: TTIs from a PRACH to its RAR window
          RarWindow,      \* prach_rar_window
          PrachTtis,      \* UL subframes with a PRACH (prach_config)
          MbsfnTtis,      \* DL subframes closed by sf_dl_mask
          MaxLate,        \* TTIs that stack_task_queue may hold a PRACH back
          Msg3Size,       \* msg3_grant_size
          NrbPucch,       \* nrb_pucch
          PrachOffset,    \* prach_freq_offset
          PrachSize,      \* 6
          MaxMsg3Prb,     \* max_msg3_prb
          MaxRoom,        \* RARs a TTI may have room for
          Shortages       \* what it lacks then: "RB" or "DCI"

Ttis == 0 .. TtiMod - 1

ASSUME TtiAssumption ==
  /\ TtiMod \in Nat \ {0} /\ RingSize \in Nat \ {0} /\ TtiMod % RingSize = 0
  /\ Workers \in Nat \ {0} /\ DlDelay \in Nat /\ UlDelay \in Nat
  /\ Msg3Delay \in Nat \ {0} /\ Workers + Msg3Delay <= RingSize
  /\ RingSize + Msg3Delay + Workers <= TtiMod
  /\ RarStart \in Nat /\ RarWindow \in Nat /\ MaxLate \in Nat
  /\ PrachTtis \subseteq Ttis /\ MbsfnTtis \subseteq Ttis
ASSUME PrbAssumption ==
  /\ IsFiniteSet(Rntis) /\ Msg3Size \in Nat \ {0} /\ NrbPucch \in Nat /\ PrachOffset \in Nat
  /\ PrachSize \in Nat /\ MaxMsg3Prb \in Nat /\ MaxRoom \in Nat
  /\ Shortages \subseteq {"RB", "DCI"} /\ Shortages # {}

VARIABLES
  base, done,    \* TTI of the oldest worker; those in flight that are scheduled
  pc, now, room, lacks, \* the TTI being scheduled, and what its grid still holds
  pending_rars,  \* ra_sched::pending_rars
  sf_scheds,     \* the ring of sf_sched
  ue_db,         \* users of the scheduler
  rach           \* history: preambles waiting for a RAR, then for the TTI of Msg3;
                 \* late: that TTI was scheduled before the RAR was

vars == <<base, done, pc, now, room, lacks, pending_rars, sf_scheds, ue_db, rach>>

-----------------------------------------------------------------------------
Bug_AddNoWrap(t, n) == t + n
Add(t, n) == (t + n) % TtiMod
TxDl(t) == Add(t, DlDelay)
TxUl(t) == Add(t, DlDelay + UlDelay)

\* sched_utils::is_in_tti_interval
InTtiInterval(t, t1, t2) ==
  LET a == t1 % TtiMod
      b == t2 % TtiMod
  IN IF a <= b THEN a <= t /\ t <= b ELSE a <= t \/ t <= b

WindowEnd(rar) == rar.prach_tti + RarStart + RarWindow
InWindow(rar, tx) == InTtiInterval(tx, rar.prach_tti + RarStart, WindowEnd(rar))
Bug_NeverExpired(rar, tx) == FALSE
\* The TTIs of this comparison are not taken modulo TtiMod.
Expired(rar, tx) == ~InWindow(rar, tx) /\ tx >= WindowEnd(rar)

\* sf_sched::new_tti, for a tti_rx that the caller did not take modulo TtiMod.
Bug_FirstPrbNoPrach(t) == NrbPucch
FirstMsg3Prb(t) ==
  IF Add(TxUl(t), Msg3Delay) \in PrachTtis /\ PrachOffset + PrachSize > NrbPucch
  THEN PrachOffset + PrachSize ELSE NrbPucch
NewTti(t) == [tti_rx |-> t, last_msg3_prb |-> FirstMsg3Prb(t), rars |-> {},
              msg3 |-> {}, generated |-> FALSE]
NoTti == TtiMod + 1   \* 10241, the tti_rx of a slot never used

\* carrier_sched::get_sf_sched
Slot(t) == t % RingSize
GetSfSched(ring, t) ==
  IF ring[Slot(t)].tti_rx = t THEN ring ELSE [ring EXCEPT ![Slot(t)] = NewTti(t)]

\* alloc_rar: the most grants for which the Msg3 region has PRBs.
NofGrants(sf, rar) ==
  LET fits == {n \in 1..Len(rar.grants) :
                 sf.last_msg3_prb + Msg3Size * n <= MaxMsg3Prb}
  IN Cardinality(fits)
Grant(sf, rar, n) ==
  [sf EXCEPT !.rars = @ \cup {[rnti |-> rar.grants[i],
                               prb |-> sf.last_msg3_prb + Msg3Size * (i - 1)] : i \in 1..n},
             !.last_msg3_prb = @ + Msg3Size * n]
Bug_KeepLast(grants, n) == SubSeq(grants, n, Len(grants))
NotScheduled(grants, n) == SubSeq(grants, n + 1, Len(grants))

\* ra_sched::ul_sched: Msg3 of the users that still exist.  The alloc_ul of a TTI
\* whose results were generated before has no effect.
Bug_Msg3OneLate(t) == t + Msg3Delay + 1
Msg3Tti(t) == t + Msg3Delay
UlSched(ring, t) ==
  LET m3 == Msg3Tti(t)
      to == GetSfSched(ring, m3)
      users == {g \in ring[Slot(t)].rars : g.rnti \in ue_db}
  IN IF to[Slot(m3)].generated THEN to
     ELSE [to EXCEPT ![Slot(m3)].msg3 = @ \cup users]

-----------------------------------------------------------------------------
Unused == [fate |-> "none", due |-> 0]

Init ==
  /\ base \in Ttis /\ done = {}
  /\ pc = "idle" /\ now = 0 /\ room = 0 /\ lacks = "RB"
  /\ pending_rars = <<>>
  /\ sf_scheds = [i \in 0 .. RingSize - 1 |-> [NewTti(0) EXCEPT !.tti_rx = NoTti]]
  /\ ue_db = {}
  /\ rach = [r \in Rntis |-> Unused]

InFlight == {Add(base, i) : i \in 0 .. Workers - 1}

\* generate_tti_result for one of the TTIs in flight, with the DL active or not.
BeginTti(t) ==
  /\ pc = "idle" /\ t \in InFlight \ done
  /\ now' = t /\ pc' = IF TxDl(t) \in MbsfnTtis THEN "data" ELSE "rar"
  /\ sf_scheds' = GetSfSched(sf_scheds, t)
  /\ room' \in 0..MaxRoom /\ lacks' \in Shortages
  /\ UNCHANGED <<base, done, pending_rars, ue_db, rach>>

\* The loop of ra_sched::dl_sched, and ul_sched when it returns.
Front == Head(pending_rars)
LoopEnds ==
  /\ pc' = "data" /\ sf_scheds' = UlSched(sf_scheds, now)
  /\ UNCHANGED <<pending_rars, rach>>
Discard ==
  /\ Expired(Front, TxDl(now))
  /\ pending_rars' = Tail(pending_rars)
  /\ rach' = [r \in Rntis |-> IF \E i \in DOMAIN Front.grants : Front.grants[i] = r
                              THEN Unused ELSE rach[r]]
  /\ UNCHANGED <<pc, sf_scheds>>
Answer(n) ==
  LET answered == {Front.grants[i] : i \in 1..n}
      rest == NotScheduled(Front.grants, n) IN
  /\ sf_scheds' = [sf_scheds EXCEPT ![Slot(now)] = Grant(@, Front, n)]
  /\ pending_rars' = IF n = Len(Front.grants) THEN Tail(pending_rars)
                     ELSE <<[Front EXCEPT !.grants = rest]>> \o Tail(pending_rars)
  /\ LET due == Add(now, Msg3Delay) IN
     rach' = [r \in Rntis |-> IF r \in answered
                              THEN [fate |-> IF due \in done THEN "late" ELSE "answered", due |-> due]
                              ELSE rach[r]]
  /\ UNCHANGED pc
\* Without RBGs the TTI is skipped; without a DCI position the loop goes on.
NoRoom == IF lacks = "RB" THEN LoopEnds ELSE UNCHANGED <<pc, pending_rars, sf_scheds, rach>>
RarStep ==
  /\ pc = "rar"
  /\ \/ pending_rars = <<>> /\ LoopEnds /\ UNCHANGED room
     \/ /\ pending_rars # <<>>
        /\ LET in == InWindow(Front, TxDl(now))
               n  == NofGrants(sf_scheds[Slot(now)], Front) IN
           \/ ~in /\ Discard /\ UNCHANGED room
           \/ ~in /\ ~Expired(Front, TxDl(now)) /\ LoopEnds /\ UNCHANGED room
           \/ in /\ n = 0 /\ LoopEnds /\ UNCHANGED room
           \/ in /\ n > 0 /\ room = 0 /\ NoRoom /\ UNCHANGED room
           \/ in /\ n > 0 /\ room > 0 /\ Answer(n) /\ room' = room - 1
  /\ UNCHANGED <<base, done, now, lacks, ue_db>>

\* The data of the TTI, and generate_sched_results.
GenerateResults ==
  /\ pc = "data" /\ pc' = "idle" /\ done' = done \cup {now}
  /\ sf_scheds' = [sf_scheds EXCEPT ![Slot(now)].generated = TRUE]
  /\ rach' = [r \in Rntis |-> IF rach[r] = [fate |-> "answered", due |-> now]
                              THEN Unused ELSE rach[r]]
  /\ UNCHANGED <<base, now, room, lacks, pending_rars, ue_db>>

\* worker_end, and the radio goes on to another TTI.
EndWorker ==
  /\ base \in done /\ base' = Add(base, 1) /\ done' = done \ {base}
  /\ UNCHANGED <<pc, now, room, lacks, pending_rars, sf_scheds, ue_db, rach>>

\* mac::rach_detected, run by the stack thread: ue_cfg and dl_rach_info.
Enqueue(r, tti) ==
  LET same == {i \in DOMAIN pending_rars : pending_rars[i].prach_tti = tti} IN
  IF same = {} THEN Append(pending_rars, [prach_tti |-> tti, grants |-> <<r>>])
  ELSE [i \in DOMAIN pending_rars |->
          IF i \in same THEN [pending_rars[i] EXCEPT !.grants = Append(@, r)]
                        ELSE pending_rars[i]]
Queued == {q \in (DOMAIN pending_rars) \X (1 .. Cardinality(Rntis)) :
             q[2] \in DOMAIN pending_rars[q[1]].grants}
Used(r) == \/ r \in ue_db
           \/ \E q \in Queued : pending_rars[q[1]].grants[q[2]] = r
           \/ \E i \in DOMAIN sf_scheds : \E g \in sf_scheds[i].msg3 : g.rnti = r
RachDetected(r, late) ==
  LET tti == (base - late) % TtiMod IN
  /\ pc = "idle" /\ ~Used(r) /\ tti \in PrachTtis
  /\ ue_db' = ue_db \cup {r}
  /\ pending_rars' = Enqueue(r, tti)
  /\ rach' = [rach EXCEPT ![r] = [fate |-> "waiting", due |-> 0]]
  /\ UNCHANGED <<base, done, pc, now, room, lacks, sf_scheds>>

UeRem(r) ==
  /\ pc = "idle" /\ r \in ue_db /\ ue_db' = ue_db \ {r}
  /\ UNCHANGED <<base, done, pc, now, room, lacks, pending_rars, sf_scheds, rach>>

Sched == (\E t \in Ttis : BeginTti(t)) \/ RarStep \/ GenerateResults \/ EndWorker
Next ==
  \/ Sched
  \/ \E r \in Rntis : UeRem(r) \/ \E late \in 0..MaxLate : RachDetected(r, late)

Spec == Init /\ [][Next]_vars
\* The radio delivers one TTI after the other, and workers that hold sched_mutex
\* go on; nothing is assumed of the other threads.
FairSpec == Spec /\ WF_vars(Sched)

-----------------------------------------------------------------------------
Grants == [rnti : Rntis, prb : 0..MaxMsg3Prb]

\* Every variable keeps its type.
TypeOK ==
  /\ base \in Ttis /\ done \subseteq Ttis /\ now \in Ttis
  /\ pc \in {"idle", "rar", "data"} /\ room \in 0..MaxRoom /\ lacks \in Shortages \cup {"RB"}
  /\ \A i \in DOMAIN pending_rars :
       /\ pending_rars[i].prach_tti \in PrachTtis
       /\ pending_rars[i].grants \in Seq(Rntis) /\ pending_rars[i].grants # <<>>
  /\ sf_scheds \in [0 .. RingSize - 1 ->
       [tti_rx : 0 .. TtiMod + Msg3Delay, last_msg3_prb : Nat, rars : SUBSET Grants,
        msg3 : SUBSET Grants, generated : BOOLEAN]]
  /\ ue_db \subseteq Rntis
  /\ rach \in [Rntis -> [fate : {"none", "waiting", "answered", "late"}, due : Ttis]]

\* A preamble is waiting exactly while one pending RAR holds it, once: RARs that are
\* answered in parts, merged, discarded or overtaken neither lose nor repeat a grant.
Conserved ==
  \A r \in Rntis :
    Cardinality({q \in Queued : pending_rars[q[1]].grants[q[2]] = r})
      = IF rach[r].fate = "waiting" THEN 1 ELSE 0

\* The Msg3 of one UL subframe are disjoint, and clear of its PUCCH and PRACH.
Msg3Exclusive ==
  \A i \in DOMAIN sf_scheds :
    LET sf == sf_scheds[i]
        prbs(g) == g.prb .. g.prb + Msg3Size - 1
        prach == IF TxUl(sf.tti_rx) \in PrachTtis
                 THEN PrachOffset .. PrachOffset + PrachSize - 1 ELSE {}
    IN \A g \in sf.msg3 :
         /\ prbs(g) \subseteq NrbPucch .. MaxMsg3Prb - 1
         /\ prbs(g) \cap prach = {}
         /\ \A h \in sf.msg3 : g # h => prbs(g) \cap prbs(h) = {}

HasMsg3(r) == LET sf == sf_scheds[Slot(rach[r].due)]
              IN sf.tti_rx % TtiMod = rach[r].due /\ \E g \in sf.msg3 : g.rnti = r

\* A user that was sent a RAR, and still exists, has its Msg3 in the ring, in the
\* subframe the RAR promised, until that was scheduled.  The code loses it in two
\* cases, and no other: where that subframe was scheduled before the RAR ("late"), and
\* where it is of the period after the RAR, when it begins: the label of its slot was
\* not taken modulo TtiMod, and get_sf_sched clears the slot.
Msg3Kept ==
  pc # "rar" =>
    \A r \in ue_db : rach[r].fate = "answered"
      => (HasMsg3(r) <=> ~(pc = "data" /\ now = rach[r].due /\ now < Msg3Delay))

\* The tests of the scheduler demand every Msg3: "No UL msg3 alloc was made"
\* (scheduler_test_common.cc:429).  A worker that overtakes that of the RAR by
\* MSG3_DELAY_MS leaves the user without.
Msg3Promised ==
  pc # "rar" => \A r \in ue_db : rach[r].fate \in {"answered", "late"} => HasMsg3(r)

\* No RAR whose window is over heads the queue when a TTI was served: "If outside
\* the window we discard it" (scheduler_carrier.cc:145).  Where the window ends in the
\* next period the code keeps it, and with it every RAR behind.
After(rar, tx) == (tx - WindowEnd(rar)) % TtiMod \in 1 .. TtiMod \div 2
ExpiredDiscarded ==
  pc = "data" /\ pending_rars # <<>> /\ TxDl(now) \notin MbsfnTtis
    => ~After(Front, TxDl(now))

\* Unless the loop of some TTI never returns (a RAR without a DCI position is tried
\* again at once, for ever), every preamble is answered or given up in the end,
\* however scarce RBGs and Msg3 PRBs are.
RarEnds ==
  []<>(pc # "rar") => \A r \in Rntis : rach[r].fate = "waiting" ~> rach[r].fate # "waiting"
=============================================================================
