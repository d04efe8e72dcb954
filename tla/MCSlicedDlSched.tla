--------------------------- MODULE MCSlicedDlSched ---------------------------
(* Small instances of SlicedDlSched for TLC. *)
EXTENDS SlicedDlSched

SmallNeeds == {<<0, 0>>, <<2, 3>>}
\* A slice with the first RBGs, one with the last.
Left  == [r \in Rbgs |-> IF r <= 1 THEN 1 ELSE 0]
Right == [r \in Rbgs |-> IF r > 1 THEN 1 ELSE 0]
TwoMasks == {Left, Right}

\* What the next steps depend on.  Between two TTIs the grid, the TTI masks and
\* iter are rewritten before they are read, and no step reads the size of a TB.
\* The walk starts with any masks and policies, whatever they were before, and
\* leaves nothing but its grants.
Procs(u) == [p \in Pids |-> LET h == harq[u][p] IN
               IF SlicingEnabled /\ slice_number[u] # -1 THEN <<h.active, h.nack>>
                                                         ELSE <<h.active, h.nack, h.mask>>]
GrantsOf(u) == IF pc = "idle" THEN {} ELSE {<<a.pid, a.mask>> : a \in {b \in data_allocs : b.user = u}}
Turn(u) == IF pc = "users" THEN <<u = iter, u \in todo>> ELSE <<>>
UserState(u) == <<u \in ue_db, slice_number[u], times_scheduled[u] < SchedThreshold, need[u],
                  Procs(u), GrantsOf(u), Turn(u)>>
CellState ==
  <<pc, IF pc \in {"users", "results"} THEN <<slicing_mask, policy>> ELSE <<>>,
    IF pc = "idle" THEN <<>> ELSE <<dl_mask, avail_rbg, reserved, ctrl_allocs>>,
    IF pc \in {"bc", "rar", "users"} THEN <<cfi, tti_slicing_mask>> ELSE <<>> >>
\* With the sizes, for the properties that compare them; one looks only at users
\* without a slice, and a user loses its slice and its processes together.  Two
\* users may be exchanged: the walk goes round, from any of them on.
LiveSized ==
  <<CellState, {<<UserState(u), [p \in Pids |-> harq[u][p].size]>> : u \in Users}>>
LiveUnsliced ==
  <<CellState, {<<UserState(u), IF Unsliced(u) THEN [p \in Pids |-> harq[u][p].size] ELSE <<>> >> :
                u \in Users}>>

\* The second HARQ process is used while there is one user, in TTIs without control.
Busy(u, p) == harq[u][p].active \/ \E a \in data_allocs : a.user = u /\ a.pid = p
Bounds == Cardinality(ue_db) > 1 \/ ctrl_allocs # {} => \A u \in Users : ~Busy(u, 2)
=============================================================================
