--------------------------- MODULE MCThreadSleep ---------------------------
(***************************************************************************)
(* A small instance of ThreadSleep for TLC: a duration of zero, a short    *)
(* one, and one that never passes.                                         *)
(***************************************************************************)
EXTENDS ThreadSleep
=============================================================================
