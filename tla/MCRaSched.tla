------------------------------- MODULE MCRaSched -------------------------------
(* Small instances of RaSched for TLC. *)
EXTENDS RaSched

\* What the next steps depend on: not the slots of TTIs that are over, the Msg3 of
\* removed users, nor the scratch values of a TTI that was scheduled.
LiveSlot(sf) ==
  IF \E i \in 0 .. Workers + Msg3Delay - 1 : sf.tti_rx % TtiMod = Add(base, i)
  THEN <<sf.tti_rx, sf.msg3, sf.generated>> ELSE <<{g.rnti : g \in sf.msg3}>>
LiveState ==
  <<base, done, pc, pending_rars, ue_db, rach, [i \in DOMAIN sf_scheds |-> LiveSlot(sf_scheds[i])],
    IF pc = "idle" THEN <<>> ELSE <<now, sf_scheds[Slot(now)], room, lacks>> >>
=============================================================================
