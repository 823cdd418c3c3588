------------------------------ MODULE Sleeping ------------------------------
(***************************************************************************)
(* What a sleep promises (src/src/web/time.rs:268-278): it never completes *)
(* before its duration has passed, it completes eventually, and nothing    *)
(* happens any more once it has been dropped.  Time counts in ticks.       *)
(***************************************************************************)
EXTENDS Naturals

CONSTANTS Durations,   \* the durations that may be slept for
          Horizon      \* bound of the clock

VARIABLES now,         \* the clock
          phase,       \* "none", "sleeping", "elapsed" or "dropped"
          deadline     \* when the sleep may complete at the earliest

sleepVars == <<now, phase, deadline>>

Init == now = 0 /\ phase = "none" /\ deadline = 0

Start(d) == /\ phase = "none"
            /\ phase' = "sleeping"
            /\ deadline' = now + d
            /\ UNCHANGED now

Elapse == /\ phase = "sleeping"
          /\ now >= deadline
          /\ phase' = "elapsed"
          /\ UNCHANGED <<now, deadline>>

Drop == /\ phase \in {"sleeping", "elapsed"}
        /\ phase' = "dropped"
        /\ UNCHANGED <<now, deadline>>

Tick == /\ now < Horizon
        /\ now' = now + 1
        /\ UNCHANGED <<phase, deadline>>

Next == (\E d \in Durations : Start(d)) \/ Elapse \/ Drop \/ Tick

Spec == Init /\ [][Next]_sleepVars

FairSpec == Spec /\ WF_sleepVars(Tick) /\ WF_sleepVars(Elapse)
=============================================================================
