----------------------------- MODULE MCJoinSet -----------------------------
(***************************************************************************)
(* A small instance of JoinSet for TLC.                                    *)
(***************************************************************************)
EXTENDS JoinSet
=============================================================================
