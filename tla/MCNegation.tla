------------------------------- MODULE MCNegation -------------------------------
(***************************************************************************)
(* Negation and Printing over leaves with three values.                   *)
(***************************************************************************)
EXTENDS Printing

MCValues == -1 .. 1
=============================================================================
