---------------------------- MODULE MCHasThreads ----------------------------
(***************************************************************************)
(* A small instance of HasThreads for TLC.                                 *)
(***************************************************************************)
EXTENDS HasThreads
=============================================================================
