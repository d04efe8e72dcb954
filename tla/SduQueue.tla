------------------------------- MODULE SduQueue -------------------------------
(***************************************************************************)
(* What an acknowledged bearer promises to PDCP: the SDUs written come out *)
(* at the other end whole, in order and once.                              *)
(***************************************************************************)
EXTENDS Naturals, Sequences

CONSTANT Sdus \* the SDUs in the order in which they are written

VARIABLES written,  \* how many have been written
          delivered \* those that have come out

vars == <<written, delivered>>

Init == written = 0 /\ delivered = << >>

Write == /\ written < Len(Sdus)
         /\ written' = written + 1
         /\ UNCHANGED delivered

\* One PDU may complete several SDUs.
Deliver ==
  /\ \E n \in Len(delivered) + 1 .. written : delivered' = SubSeq(Sdus, 1, n)
  /\ UNCHANGED written

Next == Write \/ Deliver

Spec == Init /\ [][Next]_vars
=============================================================================
