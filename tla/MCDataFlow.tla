------------------------------- MODULE MCDataFlow -------------------------------
(***************************************************************************)
(* DataFlow on lists in which every case of moving and of removing an      *)
(* assignment occurs, and on lists with PUSHes, POPs and calls with        *)
(* parameters.                                                             *)
(***************************************************************************)
EXTENDS DataFlow

MCReg == {1, 2}
MCPlans ==
  {<<{"assign"}, {"assign", "store", "call"}, {"assign", "store"}, {"jump", "copy"}>>,
   <<{"assign"}, {"push"}, {"assign", "pop"}, {"push", "call"}, {"call"}>>,
   <<{"push"}, {"call"}, {"assign"}, {"assign", "store"}>>}
MCSources == {<<Memory>>, <<Register(1), Register(2)>>, <<Register(2), Register(2)>>}
MCCuts == {3}
MCLiveOuts == {{}, {1}}

(* A call, an assignment of its result and nothing else. *)
CallPlans == {<<{"call"}, {"assign"}, {"assign"}>>}
CallSources == {<<>>, <<Register(1)>>}
=============================================================================
