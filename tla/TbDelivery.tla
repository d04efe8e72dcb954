------------------------------ MODULE TbDelivery ------------------------------
(***************************************************************************)
(* What a set of HARQ processes promises to the layer above: a transport   *)
(* block is tried until it is delivered or given up, and one that was      *)
(* reported as acknowledged has been delivered.                            *)
(***************************************************************************)
CONSTANT Pids

VARIABLES fate, \* of the TB in each process: "none", "trying" or "delivered"
          told  \* what the scheduler holds to have become of the last one

vars == <<fate, told>>

Init == /\ fate = [p \in Pids |-> "none"]
        /\ told = [p \in Pids |-> "nothing"]

\* Blocks are started and delivered, and those of P given up.  Giving up says
\* nothing about a block: its acknowledgement may be what was lost.
Later(f) == {f} \cup CASE f = "none"   -> {"trying", "delivered"}
                       [] f = "trying" -> {"delivered"}
                       [] OTHER        -> {}
Move(P) ==
  /\ \A p \in P : fate[p] # "none"
  /\ fate' \in [Pids -> {"none", "trying", "delivered"}]
  /\ \A p \in P : fate'[p] = "none"
  /\ \A p \in Pids \ P : fate'[p] \in Later(fate[p])
  /\ told' = [p \in Pids |-> IF p \in P THEN "dropped" ELSE told[p]]

Acknowledge(p) ==
  /\ fate[p] = "delivered"
  /\ fate' = [fate EXCEPT ![p] = "none"]
  /\ told' = [told EXCEPT ![p] = "acked"]

Next == \/ \E p \in Pids : Acknowledge(p)
        \/ \E P \in SUBSET Pids : Move(P)

Spec == Init /\ [][Next]_vars
=============================================================================
