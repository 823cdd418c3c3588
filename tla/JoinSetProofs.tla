--------------------------- MODULE JoinSetProofs ---------------------------
(***************************************************************************)
(* Theorems about JoinSet, for any set of async and blocking tasks.        *)
(***************************************************************************)
EXTENDS JoinSet, TLAPS

-----------------------------------------------------------------------------
(* IInv is inductive.                                                        *)

LEMMA InitIInv == Init => IInv
BY DEF Init, IInv, Typed, TaskOK, Receiving, Senders

LEMMA SpawnKeeps ==
  ASSUME IInv, NEW t \in Tasks, Spawn(t)
  PROVE  IInv'
<1>1. Typed'
  BY DEF Spawn, jobVars, IInv, Typed
<1>2. ASSUME NEW u \in Tasks PROVE TaskOK(u)'
  BY <1>2 DEF Spawn, jobVars, IInv, Typed, TaskOK, Receiving, Senders
<1>3. QED
  BY <1>1, <1>2 DEF IInv

\* A request is kept for the receivers there are, and one that comes twice is dropped.
LEMMA TrySendKeeps ==
  ASSUME IInv, NEW S \in SUBSET Tasks, S \subseteq Senders,
         mail' = mail \cup (S \cap Receiving),
         queued' = queued \cup (S \cap armed), armed' = armed \ S,
         asked' = asked \cup (S \cap Receiving),
         alive' \in BOOLEAN, Senders \ S \subseteq Senders', Senders' \subseteq Senders,
         UNCHANGED <<members, kept, pc, watching, end, polls, jobVars>>
  PROVE  IInv'
<1>1. Typed'
  BY DEF jobVars, IInv, Typed, Receiving
<1>2. ASSUME NEW u \in Tasks PROVE TaskOK(u)'
  BY <1>2 DEF jobVars, IInv, Typed, TaskOK, Receiving
<1>3. QED
  BY <1>1, <1>2 DEF IInv

LEMMA DropSendersKeeps ==
  ASSUME IInv, NEW S \in SUBSET Tasks, NEW U \in SUBSET Tasks, DropSenders(S, U),
         UNCHANGED <<pc, mail, watching, end, asked, polls, jobVars>>
  PROVE  IInv'
<1>1. Senders' \subseteq Senders
  BY DEF DropSenders, Senders
<1>2. Typed'
  BY DEF DropSenders, jobVars, IInv, Typed
<1>3. ASSUME NEW u \in Tasks PROVE TaskOK(u)'
  BY <1>1, <1>3 DEF DropSenders, jobVars, IInv, Typed, TaskOK, Receiving
<1>4. QED
  BY <1>2, <1>3 DEF IInv

LEMMA SetStepKeeps ==
  ASSUME IInv, SetStep
  PROVE  IInv'
<1>1. CASE AbortAll
  BY <1>1, TrySendKeeps DEF AbortAll, TrySend, setVars, Senders, IInv, Typed
<1>2. CASE DetachAll
  BY <1>2, DropSendersKeeps DEF DetachAll, IInv, Typed
<1>3. CASE DropSet
  BY <1>3, TrySendKeeps DEF DropSet, AbortOnDrop, TrySend, Senders, IInv, Typed
<1>4. ASSUME NEW t \in Tasks, Abort(t) PROVE IInv'
  <2> DEFINE S == {t}
  <2>1. S \in SUBSET Tasks /\ S \subseteq Senders
    BY <1>4 DEF Abort, Senders
  <2>2. Senders' = Senders /\ alive' \in BOOLEAN
    BY <1>4 DEF Abort, setVars, Senders, IInv, Typed
  <2>3. /\ TrySend(S)
        /\ UNCHANGED <<members, kept, pc, watching, end, polls, jobVars>>
    BY <1>4 DEF Abort, setVars
  <2> HIDE DEF S
  <2>4. QED
    BY <2>1, <2>2, <2>3, TrySendKeeps DEF TrySend
<1>5. ASSUME NEW t \in Tasks, DropAbortHandle(t) PROVE IInv'
  BY <1>5, DropSendersKeeps DEF DropAbortHandle, IInv, Typed
<1>6. QED
  BY <1>1, <1>2, <1>3, <1>4, <1>5, SpawnKeeps DEF SetStep

-----------------------------------------------------------------------------
(* The polls of a task and the pool                                          *)

\* An idle task was not polled since it was asked.
LEMMA StartPollKeeps ==
  ASSUME IInv, NEW t \in Tasks, StartPoll(t)
  PROVE  IInv'
<1>1. polls[t] = 0
  BY DEF StartPoll, IInv, Typed, TaskOK
<1>2. Typed'
  BY <1>1 DEF StartPoll, setVars, jobVars, IInv, Typed
<1>3. ASSUME NEW u \in Tasks PROVE TaskOK(u)'
  BY <1>1, <1>3 DEF StartPoll, setVars, jobVars, IInv, Typed, TaskOK, Receiving, Senders
<1>4. QED
  BY <1>2, <1>3 DEF IInv

\* The closure of a blocking task changes only before and in the pool, and the task
\* ends only when the closure is over.
LEMMA JobKeeps ==
  ASSUME IInv, NEW t \in Tasks, HandOver(t) \/ RunJob(t)
  PROVE  IInv'
<1>1. /\ job[t] \in {"none", "queued"}
      /\ \E res \in {"queued", "refused", "value", "panicked"} : job' = [job EXCEPT ![t] = res]
      /\ joining' = joining \/ joining' = joining \ {t}
      /\ job[t] = "queued" => joining' = joining \ {t}
      /\ queued' \subseteq queued \cup {t}
      /\ UNCHANGED <<setVars, pc, mail, armed, watching, end, asked, polls>>
  BY DEF HandOver, RunJob
<1>2. Typed'
  BY <1>1 DEF setVars, IInv, Typed
<1>3. ASSUME NEW u \in Tasks PROVE TaskOK(u)'
  BY <1>1, <1>3 DEF setVars, IInv, Typed, TaskOK, Receiving, Senders
<1>4. QED
  BY <1>2, <1>3 DEF IInv

\* A task that ends loses its receiver, and the requests in it.
LEMMA EndTaskKeeps ==
  ASSUME IInv, NEW t \in Tasks, NEW how \in {"finished", "panicked", "aborted"}, EndTask(t, how),
         pc[t] \in {"polling", "checking"},
         how = "aborted" => t \in asked,
         t \in Blocking /\ how = "finished" => job[t] = "value",
         t \in Blocking /\ how = "panicked" => job[t] \in {"panicked", "refused"}
  PROVE  IInv'
<1>1. Typed'
  BY DEF EndTask, setVars, IInv, Typed
<1>2. ASSUME NEW u \in Tasks PROVE TaskOK(u)'
  BY <1>2 DEF EndTask, setVars, IInv, Typed, TaskOK, Receiving, Senders
<1>3. QED
  BY <1>1, <1>2 DEF IInv

LEMMA FuturePendsKeeps ==
  ASSUME IInv, NEW t \in Tasks, FuturePends(t)
  PROVE  IInv'
<1>1. Typed'
  BY DEF FuturePends, setVars, IInv, Typed
<1>2. ASSUME NEW u \in Tasks PROVE TaskOK(u)'
  BY <1>2 DEF FuturePends, setVars, IInv, Typed, TaskOK, Receiving, Senders
<1>3. QED
  BY <1>1, <1>2 DEF IInv

\* Whoever finds no message was not asked; a branch that is disabled has no sender.
LEMMA WatchKeeps ==
  ASSUME IInv, NEW t \in Tasks, StopWatching(t) \/ Suspend(t)
  PROVE  IInv'
<1>1. pc[t] = "checking" /\ pc' = [pc EXCEPT ![t] = "idle"]
  BY DEF StopWatching, Suspend
<1>2. t \notin asked /\ polls[t] = 0
  BY <1>1 DEF StopWatching, Suspend, IsSome, AnyOutput, IInv, Typed, TaskOK, Receiving
<1>3. CASE StopWatching(t)
  <2>1. Typed'
    BY <1>3 DEF StopWatching, setVars, jobVars, IInv, Typed
  <2>2. ASSUME NEW u \in Tasks PROVE TaskOK(u)'
    BY <1>2, <1>3, <2>2 DEF StopWatching, IsSome, AnyOutput, setVars, jobVars, IInv, Typed, TaskOK,
                            Receiving, Senders
  <2>3. QED
    BY <2>1, <2>2 DEF IInv
<1>4. CASE Suspend(t)
  <2>1. Typed'
    BY <1>4 DEF Suspend, Rearmed, setVars, jobVars, IInv, Typed
  <2>2. ASSUME NEW u \in Tasks PROVE TaskOK(u)'
    BY <1>2, <1>4, <2>2 DEF Suspend, Rearmed, AnyOutput, setVars, jobVars, IInv, Typed, TaskOK,
                            Receiving, Senders
  <2>3. QED
    BY <2>1, <2>2 DEF IInv
<1>5. QED
  BY <1>3, <1>4

LEMMA EventKeeps ==
  ASSUME IInv, NEW t \in Tasks, Event(t)
  PROVE  IInv'
BY DEF Event, setVars, jobVars, IInv, Typed, TaskOK, Receiving, Senders

LEMMA StepIInv == IInv /\ [Next]_vars => IInv'
<1> SUFFICES ASSUME IInv, [Next]_vars PROVE IInv'
  OBVIOUS
<1>1. CASE UNCHANGED vars
  BY <1>1 DEF vars, IInv, Typed, TaskOK, Receiving, Senders
<1>2. CASE SetStep
  BY <1>2, SetStepKeeps
<1>3. ASSUME NEW t \in Tasks, FutureReady(t) \/ FutureUnwinds(t) PROVE IInv'
  BY <1>3, EndTaskKeeps DEF FutureReady, FutureUnwinds, ClosureDone, ClosureFailed
\* The message that is seen was sent, so "aborted" was asked for.
<1>4. ASSUME NEW t \in Tasks, SeeAbort(t) PROVE IInv'
  <2>1. t \in asked
    BY <1>4 DEF SeeAbort, IsSome, IInv, TaskOK
  <2>2. QED
    BY <1>4, <2>1, EndTaskKeeps DEF SeeAbort
<1>5. ASSUME NEW t \in Tasks, PollStep(t) PROVE IInv'
  BY <1>3, <1>4, <1>5, JobKeeps, FuturePendsKeeps, WatchKeeps DEF PollStep
<1>6. QED
  BY <1>1, <1>2, <1>5, StartPollKeeps, EventKeeps, JobKeeps DEF Next

THEOREM Invariance == Spec => []IInv
BY InitIInv, StepIInv, PTL DEF Spec

-----------------------------------------------------------------------------
(* What the invariant says of every run                                      *)

\* A message is only kept for a live receiver, a waker only by a channel that may
\* still have something to tell, and a blocking task ends as its closure did
\* (task.rs:337-350, :365).
THEOREM TypesHold == Spec => []TypeOK
<1>1. IInv => TypeOK
  BY BlockingAssumption DEF IInv, Typed, TaskOK, TypeOK, Receiving
<1>2. QED
  BY <1>1, Invariance, PTL

\* A task of the set ends as aborted only if it was asked to while it existed; drops
\* of handles and of senders, detach_all() among them, are no request.
THEOREM AbortNeedsRequest == Spec => []AbortedOnlyOnRequest
<1>1. IInv => AbortedOnlyOnRequest
  BY DEF IInv, TaskOK, AbortedOnlyOnRequest
<1>2. QED
  BY <1>1, Invariance, PTL

\* A task that was asked to abort is polled at most once more.
THEOREM OneMorePoll == Spec => []AbortTakesOnePoll
<1>1. IInv => AbortTakesOnePoll
  BY DEF IInv, TaskOK, AbortTakesOnePoll
<1>2. QED
  BY <1>1, Invariance, PTL

-----------------------------------------------------------------------------
(* No wake-up is lost.                                                       *)

\* Whoever is asked has a sender, so its abort branch is enabled and its waker, if it
\* is not in the queue already, in the channel.
LEMMA TrySendWakes ==
  ASSUME IInv, WakeInv, NEW S \in SUBSET Tasks, S \subseteq Senders, TrySend(S),
         UNCHANGED <<pc, watching, jobVars>>
  PROVE  WakeInv'
<1>1. \A u \in S : u \in Receiving => u \in watching
  BY DEF IInv, TaskOK
<1>2. QED
  BY <1>1 DEF TrySend, jobVars, WakeInv, Receiving

LEMMA SetStepWakes ==
  ASSUME IInv, WakeInv, SetStep
  PROVE  WakeInv'
<1>1. CASE AbortAll
  BY <1>1, TrySendWakes DEF AbortAll, Senders, IInv, Typed
<1>2. CASE DropSet
  BY <1>2, TrySendWakes DEF DropSet, AbortOnDrop, Senders, IInv, Typed
<1>3. ASSUME NEW t \in Tasks, Abort(t) PROVE WakeInv'
  BY <1>3, TrySendWakes DEF Abort, Senders
<1>4. ASSUME NEW S, NEW U, DropSenders(S, U), UNCHANGED <<pc, watching, asked, jobVars>>
      PROVE  WakeInv'
  BY <1>4 DEF DropSenders, jobVars, WakeInv
<1>5. CASE DetachAll
  BY <1>4, <1>5 DEF DetachAll
<1>6. ASSUME NEW t \in Tasks, DropAbortHandle(t) PROVE WakeInv'
  BY <1>4, <1>6 DEF DropAbortHandle
<1>7. ASSUME NEW t \in Tasks, Spawn(t) PROVE WakeInv'
  BY <1>7 DEF Spawn, jobVars, WakeInv, IInv, Typed
<1>8. QED
  BY <1>1, <1>2, <1>3, <1>5, <1>6, <1>7 DEF SetStep

\* A task leaves the queue only to be polled, and a poll that pends leaves its waker
\* with the abort channel and, in a blocking task, with the result of the closure.
LEMMA PollWakes ==
  ASSUME IInv, WakeInv, NEW t \in Tasks, PollStep(t)
  PROVE  WakeInv'
<1> USE DEF setVars, jobVars, WakeInv, IInv, Typed
<1>1. CASE HandOver(t)
  BY <1>1 DEF HandOver
<1>2. ASSUME NEW how \in {"finished", "panicked", "aborted"}, EndTask(t, how) PROVE WakeInv'
  BY <1>2 DEF EndTask
<1>3. CASE FutureReady(t) \/ FutureUnwinds(t) \/ SeeAbort(t)
  BY <1>2, <1>3 DEF FutureReady, FutureUnwinds, SeeAbort
<1>4. CASE FuturePends(t)
  BY <1>4 DEF FuturePends
<1>5. CASE StopWatching(t)
  BY <1>5 DEF StopWatching
<1>6. CASE Suspend(t)
  <2>1. t \in watching => t \notin asked
    BY <1>6 DEF Suspend, AnyOutput, TaskOK, Receiving
  <2>2. QED
    BY <1>6, <2>1 DEF Suspend, Rearmed
<1>7. QED
  BY <1>1, <1>3, <1>4, <1>5, <1>6 DEF PollStep

LEMMA StepWakeInv == IInv /\ WakeInv /\ [Next]_vars => WakeInv'
<1> SUFFICES ASSUME IInv, WakeInv, [Next]_vars PROVE WakeInv'
  OBVIOUS
<1>1. CASE UNCHANGED vars
  BY <1>1 DEF vars, WakeInv
<1>2. ASSUME NEW t \in Tasks, StartPoll(t) PROVE WakeInv'
  BY <1>2 DEF StartPoll, jobVars, WakeInv, IInv, Typed
<1>3. ASSUME NEW t \in Tasks, Event(t) PROVE WakeInv'
  BY <1>3 DEF Event, jobVars, WakeInv
<1>4. ASSUME NEW t \in Tasks, RunJob(t) PROVE WakeInv'
  BY <1>4 DEF RunJob, WakeInv, IInv, Typed
<1>5. QED
  BY <1>1, <1>2, <1>3, <1>4, SetStepWakes, PollWakes DEF Next

\* A suspended task of the set is in the executor's queue as soon as it was asked to
\* abort or its closure is over, wherever between the two polls of the select, the
\* detaching of handles and the drop of the set that falls (task.rs:337-373): the
\* safety half of AbortEnds.
THEOREM NoWakeupLost == Spec => []NobodySleepsOn
<1>1. Init => WakeInv
  BY DEF Init, WakeInv
<1>2. IInv /\ WakeInv => NobodySleepsOn
  BY DEF IInv, TaskOK, Receiving, WakeInv, NobodySleepsOn
<1>3. QED
  BY <1>1, <1>2, StepWakeInv, Invariance, PTL DEF Spec
=============================================================================
