------------------------------- MODULE MCCollate -------------------------------
(***************************************************************************)
(* Collate on every list of N blocks.                                      *)
(***************************************************************************)
EXTENDS Collate
=============================================================================
