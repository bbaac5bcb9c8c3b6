----------------------------- MODULE MCDominators -----------------------------
(***************************************************************************)
(* Dominators on every flow graph of N nodes with MaxSuccessors edges out  *)
(* of a node, and every sequence of redirections between calls.  The last  *)
(* node has at most one edge: nothing follows it that it could fall        *)
(* through to.                                                             *)
(***************************************************************************)
EXTENDS Dominators

MCInit == Init /\ Cardinality(succ[Exit]) <= 1

MCSpec == MCInit /\ [][Next]_vars /\ Fairness
=============================================================================
