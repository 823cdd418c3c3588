---------------------------- MODULE BlockingPool ----------------------------
(***************************************************************************)
(* What a pool of blocking threads promises, without threads, locks, idle  *)
(* counters or park tokens: submitted functions start in the order they    *)
(* were submitted, at most Size of them run at any moment, and each of     *)
(* them runs once.  ThreadPool implements it.                              *)
(***************************************************************************)
EXTENDS Naturals, Sequences

CONSTANTS Tasks,     \* the functions that may be submitted
          Size,      \* how many functions may run at the same time
          BlocksOn,  \* BlocksOn[t]: the functions t waits for before it returns
          NoTask     \* marks a free slot

VARIABLES queue,     \* functions submitted and not started, oldest first
          slot,      \* slot[s]: the function running in slot s, or NoTask
          done       \* functions that have returned

poolVars == <<queue, slot, done>>

Known == {queue[i] : i \in 1..Len(queue)} \cup {slot[s] : s \in 1..Size} \cup done

Init == /\ queue = <<>>
        /\ slot = [s \in 1..Size |-> NoTask]
        /\ done = {}

Submit(t) == /\ t \notin Known
             /\ queue' = Append(queue, t)
             /\ UNCHANGED <<slot, done>>

Start(s) == /\ queue # <<>>
            /\ slot[s] = NoTask
            /\ slot' = [slot EXCEPT ![s] = Head(queue)]
            /\ queue' = Tail(queue)
            /\ UNCHANGED done

Finish(s) == /\ slot[s] # NoTask
             /\ BlocksOn[slot[s]] \subseteq done
             /\ done' = done \cup {slot[s]}
             /\ slot' = [slot EXCEPT ![s] = NoTask]
             /\ UNCHANGED queue

Next == \/ \E t \in Tasks : Submit(t)
        \/ \E s \in 1..Size : Start(s) \/ Finish(s)

Spec == Init /\ [][Next]_poolVars
=============================================================================
