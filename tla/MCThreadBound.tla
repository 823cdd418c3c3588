--------------------------- MODULE MCThreadBound ---------------------------
(***************************************************************************)
(* A small instance of ThreadBound for TLC.                                *)
(***************************************************************************)
EXTENDS ThreadBound
=============================================================================
