--------------------------- MODULE MCPrbPolicies ----------------------------
(* A small instance of PrbPolicies: three users that ask for at most eight  *)
(* PRBs each, slices of at most nine PRBs, and a cell of every size that    *)
(* changes the PRBs of a round.                                             *)
EXTENDS PrbPolicies

\* 100 * e^n, which gives the same floors as the doubles of the code.
Exponentials == <<272, 739, 2009, 5460, 14841, 40343, 109663, 298096>>
=============================================================================
