------------------------------- MODULE MCProc -------------------------------
(***************************************************************************)
(* Instances of Proc for TLC: which calls the programs make.               *)
(***************************************************************************)
EXTENDS Proc
=============================================================================
