--------------------------------- MODULE MCLoops ---------------------------------
(***************************************************************************)
(* Loops on every graph of N nodes whose first node falls through to the   *)
(* second and whose other nodes have at most MaxSuccessors successors, in  *)
(* any order, with unreachable nodes and edges back to the entry.          *)
(***************************************************************************)
EXTENDS Loops

MCInit == Init /\ succ[Entry] = <<2>>

MCSpec == MCInit /\ [][Next]_vars /\ Fairness
=============================================================================
