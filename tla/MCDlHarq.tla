------------------------------- MODULE MCDlHarq -------------------------------
(* A small instance of DlHarq for TLC. *)
EXTENDS DlHarq

\* Process 1 is there to be mistaken for process 0.  Where the decoder may be wrong
\* the eNB never depends on the UE: once process 1 is used, only the eNB is
\* followed, with one size and a UE that hears and decodes everything.
Alone == harq[1].size = 0
Bounds == Alone \/ /\ \A p \in Pids : harq[p].size < 2
                   /\ \A a \in air : a.answer = "ACK"

\* What the next steps and the properties depend on.  Only whether the NDIs of the
\* two sides agree matters, and an idle process only by what its next TB meets.
UeState(p) == <<ue[p].first, ue[p].ndi = harq[p].ndi, ue[p].size, ue[p].ack, ue[p].n_retx>>
EnbState(p) == LET h == harq[p]
               IN IF h.active THEN <<h.ack, h.n_rtx, h.tti>> ELSE <<h.tti>>
BothState(p) == IF harq[p].active THEN <<harq[p].size, got[p], heard[p], odd[p], UeState(p)>>
                ELSE <<heard[p] = {} /\ ~odd[p], UeState(p)>>
LiveState == <<base, work, astray, air, [p \in Pids |-> EnbState(p)],
               IF Alone THEN BothState(0) ELSE <<>> >>
=============================================================================
