----------------------------- MODULE MCInterval -----------------------------
(***************************************************************************)
(* Small instances of Interval for TLC.                                    *)
(***************************************************************************)
EXTENDS Interval
=============================================================================
