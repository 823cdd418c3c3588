---------------------------- MODULE MCThreadPool ----------------------------
(***************************************************************************)
(* Small instances of ThreadPool for TLC.                                  *)
(***************************************************************************)
EXTENDS ThreadPool, TLC

CONSTANTS t1, t2, t3, t4

\* No closure waits for another one.
Independent == [t \in Tasks |-> {}]

\* t1 returns only after t2 has returned.
FirstWaitsForSecond == [t \in Tasks |-> IF t = t1 THEN {t2} ELSE {}]
=============================================================================
