---------------------------- MODULE MCLiveRegisters ----------------------------
(***************************************************************************)
(* LiveRegisters on every flow graph of N nodes, with every assignment of  *)
(* Uses and Definitions.                                                   *)
(***************************************************************************)
EXTENDS LiveRegisters
=============================================================================
