---------------------------- MODULE PrbPolicies -----------------------------
(***************************************************************************)
(* The two policies of SCOPE that share the PRBs of a slice among its      *)
(* users in one TTI, compute_waterfilling_allocation and                   *)
(* compute_proportional_allocation, one loop iteration per step.           *)
(*                                                                         *)
(* Slices have disjoint users and are computed one after the other, so a   *)
(* behaviour is the computation for one slice.  A user is a position in    *)
(* the map of requests, which is ordered by RNTI.                          *)
(***************************************************************************)
EXTENDS Integers, FiniteSets, FiniteSetsExt, Functions

CONSTANTS
    NofUsers,      \* users of the slice
    PrbMaxs,       \* sizes of the cell
    SlicePrbs,     \* slice_prbs: what there is to share
    MaxReq,        \* bound on the request of a user
    Word,          \* 2^32: one more than the largest uint32_t
    Exp            \* Exp[n]: a multiple of e^n, the weight of n PRBs

Users == 1 .. NofUsers

ASSUME SizesAssumption ==
    /\ NofUsers \in Nat \ {0} /\ PrbMaxs \subseteq Nat \ {0} /\ SlicePrbs \subseteq Nat \ {0}
    /\ MaxReq \in Nat /\ Word \in Nat /\ \A n \in PrbMaxs : Word > 2 * n
    /\ \A n \in 1 .. MaxReq : Exp[n] \in Nat \ {0}

VARIABLES
    policy,        \* "waterfilling" or "proportional"
    prb_min,       \* PRBs a user gets in one round
    prbs,          \* tti_slice_prbs
    req,           \* rnti_prb_req: what each user needs
    left,          \* rnti_prb_req_cpy: what is left of it
    alloc,         \* rnti_prb_alloc
    first,         \* where a pass over the users starts
    count,         \* ue_count: users visited in this pass
    needing,       \* ue_needing_prbs
    phase

vars == <<policy, prb_min, prbs, req, left, alloc, first, count, needing, phase>>
input == <<policy, prb_min, prbs, req, first>>

-----------------------------------------------------------------------------
Sum(f) == FoldFunction(+, 0, f)
nof_allocated == Sum(alloc)

MinPrb(prb_max) ==
    CASE prb_max <= 10 -> 1 [] prb_max \in 11 .. 26 -> 2
      [] prb_max \in 27 .. 63 -> 3 [] OTHER -> 4

\* What may be handed out when a round's worth is not left.
Leftover == IF prb_min = 1 THEN 1 ELSE prb_min - 1

\* Bug: the subtraction is signed.
Bug_Signed(a, b) == a - b

\* `a - b > 0 ? a - b : 0' on unsigned numbers: below zero it wraps around.
Minus(a, b) == (a - b) % Word

-----------------------------------------------------------------------------
(* Waterfilling. *)

Fits(n) == nof_allocated + n <= prbs

\* Bug: what is handed out at the end is not compared with what is left.
Bug_NoCheck(need) ==
    CASE need = 0 -> 0 [] need > 0 /\ Fits(prb_min) -> prb_min [] OTHER -> Leftover
\* Bug: a user takes all it needs in its first round.
Bug_TakesAll(need) ==
    CASE Fits(need)                      -> need
      [] ~Fits(need) /\ Fits(Leftover)   -> Leftover
      [] OTHER                           -> 0
Portion(need) ==
    CASE need > 0 /\ Fits(prb_min)                     -> prb_min
      [] need > 0 /\ ~Fits(prb_min) /\ Fits(Leftover)  -> Leftover
      [] OTHER                                         -> 0

Visited == ((first + count - 1) % NofUsers) + 1

Visit ==
    /\ phase = "pass"
    /\ count < NofUsers
    /\ LET u == Visited
       IN /\ alloc' = [alloc EXCEPT ![u] = @ + Portion(left[u])]
          /\ left' = [left EXCEPT ![u] = Minus(@, Portion(@))]
          /\ needing' = (needing \/ left[u] > 0)
    /\ count' = count + 1
    /\ UNCHANGED phase /\ UNCHANGED input

\* Bug: a pass goes on while any PRB is left.
Bug_OnlyWhenNone == nof_allocated >= prbs

\* Less than Leftover is not handed out; without that test the passes would
\* go on for ever.
SoldOut == nof_allocated >= prbs \/ prbs - nof_allocated < Leftover

EndOfPass ==
    /\ phase = "pass"
    /\ count = NofUsers
    /\ phase' = IF SoldOut \/ ~needing THEN "done" ELSE "pass"
    /\ count' = 0
    /\ needing' = FALSE
    /\ UNCHANGED <<left, alloc>> /\ UNCHANGED input

-----------------------------------------------------------------------------
(* Proportional: floor(softmax * PRBs) each, and what is left goes, one PRB  *)
(* at a time, to the user served worst - if anybody was served at all.       *)

Needy == {u \in Users : req[u] > 0}
Weight(u) == IF u \in Needy THEN Exp[req[u]] ELSE 0

Softmax ==
    /\ phase = "softmax"
    /\ LET total == Sum([u \in Users |-> Weight(u)])
       IN alloc' = [u \in Users |->
                      IF u \in Needy THEN Min({(Weight(u) * prbs) \div total, req[u]})
                      ELSE 0]
    /\ phase' = IF Sum(alloc') > 0 THEN "extra" ELSE "done"
    /\ UNCHANGED <<left, count, needing>> /\ UNCHANGED input

Unserved == {u \in Needy : alloc[u] < req[u]}
\* u's share of its request is smaller than v's; the first one wins a tie.
Worse(u, v) == \/ alloc[u] * req[v] < alloc[v] * req[u]
               \/ alloc[u] * req[v] = alloc[v] * req[u] /\ u <= v

\* Bug: the last user in need is left out.
Bug_StopsEarly ==
    /\ phase = "extra"
    /\ IF Cardinality(Unserved) <= 1 \/ nof_allocated >= prbs
       THEN phase' = "done" /\ UNCHANGED alloc
       ELSE /\ \E u \in Unserved : /\ \A v \in Unserved : Worse(u, v)
                                   /\ alloc' = [alloc EXCEPT ![u] = @ + 1]
            /\ UNCHANGED phase
    /\ UNCHANGED <<left, count, needing>> /\ UNCHANGED input
Extra ==
    /\ phase = "extra"
    /\ IF Unserved = {} \/ nof_allocated >= prbs
       THEN phase' = "done" /\ UNCHANGED alloc
       ELSE /\ \E u \in Unserved : /\ \A v \in Unserved : Worse(u, v)
                                   /\ alloc' = [alloc EXCEPT ![u] = @ + 1]
            /\ UNCHANGED phase
    /\ UNCHANGED <<left, count, needing>> /\ UNCHANGED input

-----------------------------------------------------------------------------
\* build_user_prb_map asks for nothing or for prb_min to prb_max PRBs.
Init ==
    /\ policy \in {"waterfilling", "proportional"}
    /\ \E prb_max \in PrbMaxs :
         /\ prb_min = MinPrb(prb_max)
         /\ prbs \in {p \in SlicePrbs : p <= prb_max}
         /\ req \in [Users -> {0} \cup (prb_min .. Min({prb_max, MaxReq}))]
    /\ left = req
    /\ alloc = [u \in Users |-> 0]
    /\ first \in IF policy = "waterfilling" THEN Users ELSE {1}
    /\ count = 0
    /\ needing = FALSE
    /\ phase = IF policy = "waterfilling" THEN "pass" ELSE "softmax"

Next == Visit \/ EndOfPass \/ Softmax \/ Extra

\* The computation runs to its end inside sched_users.
Spec == Init /\ [][Next]_vars /\ WF_vars(Next)
-----------------------------------------------------------------------------
(* Properties. *)

\* Numbers stay unsigned words; a pass never runs past its last user.
TypeOK ==
    /\ policy \in {"waterfilling", "proportional"}
    /\ phase \in {"pass", "softmax", "extra", "done"}
    /\ prb_min \in 1 .. 4 /\ prbs \in SlicePrbs /\ first \in Users
    /\ req \in [Users -> 0 .. Word - 1]
    /\ left \in [Users -> 0 .. Word - 1]
    /\ alloc \in [Users -> 0 .. Word - 1]
    /\ count \in 0 .. NofUsers
    /\ needing \in BOOLEAN

\* The users of a slice are never promised more PRBs than the slice has, also
\* when a request wraps around below zero and becomes a huge one.
WithinSlice == nof_allocated <= prbs

\* Waterfilling: a user that still lacks PRBs is at most one round behind any
\* other, wherever the passes started and however the slice ran out.
WaterLevel ==
    phase = "done" /\ policy = "waterfilling" =>
        \A u, v \in Needy : alloc[v] < req[v] => alloc[u] <= alloc[v] + prb_min

\* Neither policy leaves PRBs to a slice whose users want them, save for what
\* waterfilling cannot hand out, and for a softmax that gives nobody one PRB.
NothingLeftOver ==
    phase = "done" =>
        \/ \A u \in Users : alloc[u] >= req[u]
        \/ policy = "waterfilling" /\ prbs - nof_allocated < Leftover
        \/ policy = "proportional" /\ nof_allocated \in {0, prbs}

\* The loops end: every pass hands out something or is the last one.
Ends == <>(phase = "done")
=============================================================================
