------------------------------- MODULE MCUlSched -------------------------------
(* Small instances of UlSched for TLC. *)
EXTENDS UlSched

\* No Msg3, or one at the right of the PRACH.
OneMsg3 == {{}, {4}}

\* The sizes of TBs change for the user that may miss DCIs.
TwoSizes == [u \in Users |-> IF u \in Lossy THEN {1, 2} ELSE {1}]

\* What the next steps depend on: not the grid between two rounds, the scratch
\* values of a process that is empty, nor what a UE forgot.
LiveProc(h) == <<h.ndi, h.pending_ack, IF h.active THEN <<h.nack, h.n_rtx, h.alloc, h.size>> ELSE <<>> >>
LiveUe(u) ==
  LET q == ue[u] IN
  <<q.ndi, q.last, q.sent, q.tb = "current" /\ (harq[u].active \/ pc = "air"),
    IF q.sent = None THEN q.feedback ELSE FALSE,
    IF q.grant THEN <<q.size, q.tx_nb>> ELSE <<>> >>
LiveGrid ==
  CASE pc = "phich" -> <<>>
    [] pc \in {"retx", "newtx"} -> <<todo, first, gridVars, phich>>
    [] pc \in {"results", "air"} -> <<reserved, ul_data_allocs, phich>>
    [] OTHER -> <<ul_data_allocs>>
LiveState ==
  <<pc, LiveGrid, [u \in Users |-> <<LiveProc(harq[u]), LiveUe(u)>>], histVars>>
=============================================================================
