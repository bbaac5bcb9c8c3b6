------------------------------- MODULE MCNodeList -------------------------------
(***************************************************************************)
(* NodeList on every function of M machine instructions.                   *)
(***************************************************************************)
EXTENDS NodeList
=============================================================================
