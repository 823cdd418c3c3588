-------------------------- MODULE MCSpawnBlocking --------------------------
(***************************************************************************)
(* Small instances of SpawnBlocking for TLC.                               *)
(***************************************************************************)
EXTENDS SpawnBlocking, TLC

CONSTANTS t1, t2, t3

\* No closure waits for another one.
Independent == [t \in Tasks |-> {}]
=============================================================================
