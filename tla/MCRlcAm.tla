------------------------------- MODULE MCRlcAm -------------------------------
(* Small instances of RlcAm for TLC. *)
EXTENDS RlcAm

\* Only the first SDU may need two PDUs: the window is never full in the middle
\* of an SDU.
LongFirst == <<2, 3, 4>>

\* The second SDU may fill the window with its first half.
LongSecond == <<2, 4, 5>>

Grant(pdu, segment) == [pdu |-> pdu, segment |-> segment]
Two == Grant(2, 2)
OneOrTwo == {Grant(1, 1), Grant(2, 2)}
TooSmallToo == {Grant(1, 0), Grant(1, 1), Grant(2, 2)}

\* vr_x is read only while the reordering timer runs.  Nothing is said of what
\* follows once a status misled the sender.
LiveState ==
  IF misled THEN <<>>
  ELSE <<written, txVars, air, statuses, losses, vr_r, vr_ms, vr_h, IF reordering THEN vr_x ELSE vr_r,
         rx_window, rx_segments, reordering, do_status, poll_received, rx_sdu, delivered>>
=============================================================================
