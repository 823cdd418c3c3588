----------------------------- MODULE MCJsSleep -----------------------------
(***************************************************************************)
(* A small instance of JsSleep for TLC: three ticks per millisecond, and   *)
(* durations of no, one and several chunks, whole and broken milliseconds. *)
(***************************************************************************)
EXTENDS JsSleep
=============================================================================
