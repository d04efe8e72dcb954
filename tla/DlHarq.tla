-------------------------------- MODULE DlHarq --------------------------------
(***************************************************************************)
(* Downlink HARQ between the eNB and one UE: harq_entity of the scheduler  *)
(* (scheduler_harq.cc), the pool of PHY workers that feeds it              *)
(* (sf_worker.cc), and dl_harq_entity of the UE (srsue dl_harq.cc).        *)
(*                                                                         *)
(* A worker decodes the uplink of its TTI, HARQ feedback included, and     *)
(* then has the same TTI scheduled.  Workers run in parallel and end in    *)
(* the order of their TTIs, but nothing orders their schedulings.          *)
(*                                                                         *)
(* Between the UE's answer and the scheduler stands phy_ue_db: it writes   *)
(* an ACK for every TB that was sent (set_ack_pending), lets what was      *)
(* decoded replace it (srslte_enb_dl_get_ack), and reports the result, no  *)
(* matter whether the UE answered at all (send_uci_data).                  *)
(*                                                                         *)
(* One carrier and one TB per process (DCI format 1).  A TB is its size.   *)
(* TTIs count modulo TtiMod, and tti_point compares them over half of it.  *)
(***************************************************************************)
EXTENDS Integers, FiniteSets

CONSTANTS Pids,        \* DL HARQ processes, 0 .. 7
          TtiMod,      \* 10240
          DlDelay,     \* FDD_HARQ_DELAY_UL_MS: from tti_rx to tti_tx_dl
          UlDelay,     \* FDD_HARQ_DELAY_DL_MS: from tti_tx_dl to its feedback
          OldAge,      \* 100: TTIs after which a process is old
          MaxRetx,     \* max_retx
          DupTimeout,  \* RESET_DUPLICATE_TIMEOUT
          Sizes,       \* sizes of TBs
          Resizes,     \* a retransmission may have another size than its TB
          Workers,     \* nof_phy_threads
          DciMissed,   \* the UE may miss a DCI
          UciWrong,    \* the eNB may decode another bit than the UE sent
          KeepDrx      \* several carriers, two TBs each: enb_dl_get_ack_fdd_all_keep_drx

Ttis == 0 .. TtiMod - 1
Rtt  == DlDelay + UlDelay

ASSUME HarqAssumption ==
  /\ Pids \subseteq Nat /\ Pids # {} /\ IsFiniteSet(Pids)
  /\ DlDelay \in Nat \ {0} /\ UlDelay \in Nat \ {0} /\ MaxRetx \in Nat
  /\ TtiMod \in Nat /\ OldAge \in Nat /\ Workers \in Nat \ {0}
  /\ OldAge + 2 * Workers < TtiMod \div 2
  /\ Workers <= Rtt /\ Rtt + Workers <= OldAge + 1 \* at most 4 (enb.conf.example:272), 8 ms, 100
  /\ DupTimeout \in Nat /\ Sizes # {}
  /\ {Resizes, DciMissed, UciWrong, KeepDrx} \subseteq BOOLEAN

VARIABLES
  base,   \* TTI of the oldest worker that has not ended
  work,   \* stage of the worker of each TTI in flight
  harq,   \* dl_harqs of the eNB
  ue,     \* proc of the UE
  air,    \* pdsch_ack: transmissions not reported yet, with what the UE answers
  got,    \* history: how often the UE delivered the TB of each process
  told,   \* history: how each process last ended
  heard,  \* history: the sizes in which the UE was granted the TB of each process
  odd,    \* history: before this TB the UE heard nothing of an odd number of TBs
  astray  \* history: the last step reported feedback that found no process

hist == <<got, told, heard, odd>>
vars == <<base, work, harq, ue, air, hist, astray>>

-----------------------------------------------------------------------------
\* tti_point
Bug_AddNoWrap(t, n) == t + n
Add(t, n) == (t + n) % TtiMod
Before(a, b) == LET d == IF a < b THEN b - a ELSE a - b
                IN (a < b) # (d > TtiMod \div 2)
Since(a, b) == (a - b) % TtiMod

\* harq_proc
Reset(h) == [h EXCEPT !.active = FALSE, !.ack = "NULL", !.n_rtx = 0, !.tti = 0]
Bug_NewTxKeepsNdi(h, t, s) ==
  [Reset(h) EXCEPT !.active = TRUE, !.tti = t, !.size = s]
NewTx(h, t, s) ==
  [Reset(h) EXCEPT !.active = TRUE, !.tti = t, !.ndi = ~h.ndi, !.size = s]
\* n_rtx counts on past max_retx while feedback is lost; no test tells values
\* past NofRtx apart.
NofRtx == IF MaxRetx > DupTimeout THEN MaxRetx ELSE DupTimeout + 1
NewRetx(h, t, s) ==
  [h EXCEPT !.ack = "NACK", !.tti = t, !.size = s,
            !.n_rtx = IF @ < NofRtx THEN @ + 1 ELSE @]
Bug_NackKeepsTrying(h, ack) ==
  [h EXCEPT !.ack = IF ack THEN "ACK" ELSE "NACK", !.active = @ /\ ~ack]
SetAck(h, ack) ==
  [h EXCEPT !.ack = IF ack THEN "ACK" ELSE "NACK",
            !.active = @ /\ ~ack /\ h.n_rtx + 1 < MaxRetx]
Bug_PendingUnlessAcked(h, t) ==
  h.active /\ h.ack # "ACK" /\ ~Before(t, Add(h.tti, Rtt))
HasPendingRetx(h, t) ==
  h.active /\ h.ack = "NACK" /\ ~Before(t, Add(h.tti, Rtt))

\* harq_entity
First(P) == {p \in P : \A q \in P : p <= q}
GetEmptyDlHarq == First({p \in Pids : ~harq[p].active})
GetPendingDlHarq(t) ==
  LET pending == {p \in Pids : HasPendingRetx(harq[p], t)}
  IN First({p \in pending : \A q \in pending :
              Since(t, harq[p].tti) >= Since(t, harq[q].tti)})
Bug_AnyTti(t) == First({p \in Pids : harq[p].active})
AckedProc(t) == First({p \in Pids : Add(harq[p].tti, UlDelay) = t})

\* reset_pending_data, at the end of the TTI that transmits at t.
TooOld(h, t) == h.active /\ Before(Add(h.tti, OldAge), t)
ResetPendingData(hs, t) ==
  [p \in Pids |->
     LET h == IF MaxRetx = 0 THEN [hs[p] EXCEPT !.active = FALSE] ELSE hs[p]
     IN IF TooOld(h, t) THEN Reset(h) ELSE h]

-----------------------------------------------------------------------------
\* dl_tb_process of the UE: what a grant makes of process u.
Bug_TakesAllForNew(u, g) == TRUE
IsNewTransmission(u, g) == u.first \/ g.ndi # u.ndi
StartsOver(u, g) == IsNewTransmission(u, g) \/ u.size # g.size
Duplicate(u, g) == ~StartsOver(u, g) /\ u.ack
FreshUe == [first |-> TRUE, ndi |-> FALSE, size |-> 0, ack |-> FALSE, n_retx |-> 0]

NewGrantDl(u, g, decoded) ==
  LET n == IF StartsOver(u, g) THEN 1 ELSE u.n_retx + 1 IN
  IF ~Duplicate(u, g)
  THEN [first |-> FALSE, ndi |-> g.ndi, size |-> g.size, ack |-> decoded,
        n_retx |-> IF n <= DupTimeout THEN n ELSE DupTimeout + 1]
  ELSE IF n > DupTimeout THEN FreshUe ELSE [u EXCEPT !.n_retx = n]

-----------------------------------------------------------------------------
FreshHarq == [active |-> FALSE, ack |-> "NULL", n_rtx |-> 0, tti |-> 0,
              ndi |-> FALSE, size |-> 0]

Init ==
  /\ base \in Ttis /\ work = <<>>
  /\ harq = [p \in Pids |-> FreshHarq] /\ ue = [p \in Pids |-> FreshUe]
  /\ air = {} /\ got = [p \in Pids |-> 0] /\ told = [p \in Pids |-> "nothing"]
  /\ heard = [p \in Pids |-> {0}] /\ odd = [p \in Pids |-> FALSE]
  /\ astray = FALSE

\* txrx::run_thread hands the next TTI to a worker that is idle.
StartWorker ==
  /\ Cardinality(DOMAIN work) < Workers
  /\ LET next == Add(base, Cardinality(DOMAIN work)) IN
     work' = [t \in DOMAIN work \cup {next} |-> IF t = next THEN "ul" ELSE work[t]]
  /\ astray' = FALSE
  /\ UNCHANGED <<base, harq, ue, air, hist>>

\* worker_end waits for the workers of all earlier TTIs.
EndWorker ==
  /\ base \in DOMAIN work /\ work[base] = "done"
  /\ work' = [t \in DOMAIN work \ {base} |-> work[t]]
  /\ base' = Add(base, 1) /\ astray' = FALSE
  /\ UNCHANGED <<harq, ue, air, hist>>

Due(t) == {a \in air : Add(a.tti, UlDelay) = t}
Ended(hs) == [p \in Pids |-> IF harq[p].active /\ ~hs[p].active
                             THEN IF hs[p].ack = "ACK" THEN "acked" ELSE "dropped"
                             ELSE told[p]]

\* What the decoder makes of the UE's answer, or of the noise where none is.
Decoded(answer) == IF UciWrong \/ answer = "none" THEN BOOLEAN ELSE {answer = "ACK"}
\* The preset ACK gives way to the decoded bit only if the bit looked at first is
\* an ACK: the same bit on one carrier, that of another TB where KeepDrx.
GetAck(bit, gate) == IF gate THEN bit ELSE TRUE
Gates(bit) == IF KeepDrx THEN BOOLEAN ELSE {bit}

\* work_ul: every transmission due is reported.
ReceiveUci(t, a) ==
  /\ work[t] = "ul" /\ a \in Due(t)
  /\ \E bit \in Decoded(a.answer) : \E gate \in Gates(bit) :
       harq' = [p \in Pids |-> IF p \in AckedProc(t) THEN SetAck(harq[p], GetAck(bit, gate))
                                                     ELSE harq[p]]
  /\ told' = Ended(harq')
  /\ astray' = (a.pid \notin AckedProc(t))
  /\ air' = air \ {a}
  /\ work' = [work EXCEPT ![t] = "sched"]
  /\ UNCHANGED <<base, ue, got, heard, odd>>
NoUci(t) ==
  /\ work[t] = "ul" /\ Due(t) = {}
  /\ astray' = FALSE
  /\ work' = [work EXCEPT ![t] = "sched"]
  /\ UNCHANGED <<base, harq, ue, air, hist>>

\* The UE receives the grant in process p of harq' at t, or misses it; its
\* answer is awaited either way.
Expect(p, t, answer) == air' = air \cup {[tti |-> t, pid |-> p, answer |-> answer]}
Reach(p, t, delivered, sizes) ==
  LET g == harq'[p] IN
  \/ /\ DciMissed /\ Expect(p, t, "none")
     /\ got' = [got EXCEPT ![p] = delivered] /\ heard' = [heard EXCEPT ![p] = sizes]
     /\ UNCHANGED ue
  \/ \E decoded \in BOOLEAN :
       /\ ue' = [ue EXCEPT ![p] = NewGrantDl(@, g, decoded)]
       /\ Expect(p, t, IF decoded \/ Duplicate(ue[p], g) THEN "ACK" ELSE "NACK")
       /\ heard' = [heard EXCEPT ![p] = sizes \cup {g.size}]
       /\ got' = [got EXCEPT ![p] =
                    IF decoded /\ ~Duplicate(ue[p], g) /\ delivered < 2
                    THEN delivered + 1 ELSE delivered]

\* The scheduling of a TTI: a retransmission, new data, or nothing; then
\* finish_tti.  The retransmission that found no room gives way to new data.
Finish(hs, t) ==
  LET end == ResetPendingData(hs, t) IN
  /\ harq' = end
  /\ told' = [p \in Pids |-> IF hs[p].active /\ ~end[p].active THEN "dropped" ELSE told[p]]
Retransmit(t) ==
  \E p \in GetPendingDlHarq(t), s \in Sizes :
    /\ Resizes \/ s = harq[p].size
    /\ Finish([harq EXCEPT ![p] = NewRetx(@, t, s)], t)
    /\ Reach(p, t, got[p], heard[p]) /\ UNCHANGED odd
Transmit(t) ==
  \E p \in GetEmptyDlHarq, s \in Sizes :
    /\ Finish([harq EXCEPT ![p] = NewTx(@, t, s)], t)
    /\ Reach(p, t, 0, {})
    /\ odd' = [odd EXCEPT ![p] = heard[p] = {} /\ ~@]
Pass(t) == Finish(harq, t) /\ UNCHANGED <<ue, air, got, heard, odd>>
Schedule(t) ==
  /\ work[t] = "sched" /\ work' = [work EXCEPT ![t] = "done"]
  /\ LET tx == Add(t, DlDelay) IN Retransmit(tx) \/ Transmit(tx) \/ Pass(tx)
  /\ astray' = FALSE /\ UNCHANGED base

Next ==
  \/ StartWorker \/ EndWorker
  \/ \E t \in DOMAIN work : \/ NoUci(t) \/ Schedule(t)
                            \/ \E a \in Due(t) : ReceiveUci(t, a)

Spec == Init /\ [][Next]_vars
\* Every worker that was started comes to its end, and the radio never stops.
FairSpec == Spec /\ WF_vars(Next)

-----------------------------------------------------------------------------
\* Every variable keeps its type.
TypeOK ==
  /\ base \in Ttis /\ DOMAIN work \subseteq Ttis
  /\ \A t \in DOMAIN work : work[t] \in {"ul", "sched", "done"}
  /\ harq \in [Pids -> [active : BOOLEAN, ack : {"NULL", "ACK", "NACK"},
                       n_rtx : 0..NofRtx, tti : Ttis, ndi : BOOLEAN,
                       size : Sizes \cup {0}]]
  /\ ue \in [Pids -> [first : BOOLEAN, ndi : BOOLEAN, size : Sizes \cup {0},
                     ack : BOOLEAN, n_retx : 0 .. DupTimeout + 1]]
  /\ air \subseteq [tti : Ttis, pid : Pids, answer : {"ACK", "NACK", "none"}]
  /\ got \in [Pids -> 0..2] /\ told \in [Pids -> {"nothing", "acked", "dropped"}]
  /\ heard \in [Pids -> SUBSET (Sizes \cup {0})] /\ odd \in [Pids -> BOOLEAN]
  /\ astray \in BOOLEAN

\* The two entities deliver transport blocks (TbDelivery): nothing the eNB counts
\* as acknowledged was left undelivered.  send_uci_data reports what the UE did not
\* answer: the code does not keep this promise.
Fate(p) == IF ~harq[p].active THEN "none"
           ELSE IF got[p] = 0 THEN "trying" ELSE "delivered"
Delivery == INSTANCE TbDelivery WITH fate <- [p \in Pids |-> Fate(p)], told <- told
Delivers == Delivery!Spec

\* What the UE itself acknowledged, it has delivered: a TB that ends on an ACK the
\* UE sent was handed up, in spite of missed DCIs, processes reused after giving up
\* and workers that overtake each other.  Only where the UE heard nothing of an odd
\* number of TBs before it does the one-bit NDI make the UE take it for an old one.
AckedIsDelivered ==
  [][\A t \in DOMAIN work : \A a \in Due(t) : \A p \in Pids :
       ReceiveUci(t, a) /\ harq[p].active /\ ~harq'[p].active /\ harq'[p].ack = "ACK"
       /\ got[p] = 0
         => a.answer # "ACK" \/ odd[p]]_vars

\* The UE hands a TB up a second time only when RESET_DUPLICATE_TIMEOUT retransmissions
\* made it forget the process, when it was granted the TB in several sizes, or when
\* it took the TB for an old one: premature retransmissions, missed DCIs and reports
\* the UE did not send never deliver a TB twice.
DeliveredOnce ==
  [][\A p \in Pids : got[p] = 1 /\ got'[p] = 2
       => \/ harq'[p].n_rtx > DupTimeout
          \/ odd'[p]
          \/ heard'[p] # {harq'[p].size}]_vars

\* Feedback is matched by TTI alone (set_ack_info), with TTIs that wrap and
\* processes reset to TTI 0; still it never changes an active process other than
\* the one that sent in that TTI.
FeedbackToSender ==
  [][\A t \in DOMAIN work : \A a \in Due(t) :
       ReceiveUci(t, a) => \A p \in Pids \ {a.pid} :
                             harq[p].active => harq'[p] = harq[p]]_vars

\* A TB goes out for the second time only when its first transmission was
\* reported, even if a worker overtakes the one that brings the report.
FirstRetxAnswered ==
  [][\A p \in Pids :
       harq[p].active /\ harq[p].n_rtx = 0 /\ harq'[p].n_rtx = 1
         => \A a \in air : a.pid # p]_vars

\* No process is held for ever: once no worker overtakes the one that brings
\* feedback, every TB ends: by an ACK, by max_retx, or by its age.
TbEnds ==
  <>[]~astray => \A p \in Pids : harq[p].active ~> ~harq[p].active
=============================================================================
