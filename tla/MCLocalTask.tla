---------------------------- MODULE MCLocalTask ----------------------------
(***************************************************************************)
(* A small instance of LocalTask for TLC: a task, and a task it spawns.    *)
(***************************************************************************)
EXTENDS LocalTask, TLC

CONSTANTS parent, child

Chain == (parent :> Root) @@ (child :> parent)
=============================================================================
