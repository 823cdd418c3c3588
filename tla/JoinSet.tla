------------------------------ MODULE JoinSet ------------------------------
(***************************************************************************)
(* JoinSet and AbortHandle (src/src/web/task.rs:249-373).  Each task of the *)
(* set is polled together with an mpsc channel of capacity one, whose      *)
(* senders are the AbortHandles: one in the set, one returned by spawn.    *)
(* The set may be used from any place, so its calls interleave with the    *)
(* two polls of a task.  A task of JoinSet::spawn_blocking hands a closure *)
(* to the pool when it is first polled and awaits its JoinHandle; the pool *)
(* is known here by what it promises: a closure it accepts runs to its end *)
(* on another thread.                                                      *)
(***************************************************************************)
EXTENDS Naturals

CONSTANTS Tasks,     \* the futures that are spawned, each of them once
          Blocking   \* those of them that spawn_blocking made

ASSUME BlockingAssumption == Blocking \subseteq Tasks

VARIABLES
  alive,     \* does the JoinSet exist?
  members,   \* JoinSet.tasks
  kept,      \* the tasks whose returned AbortHandle still exists
  pc,        \* pc[t]: where the task of t is
  queued,    \* the tasks in the executor's queue
  mail,      \* the tasks with a message in the abort channel
  armed,     \* the tasks whose waker the abort channel holds
  watching,  \* the tasks whose abort branch of the select is still enabled
  end,       \* end[t]: how t ended
  asked,     \* the tasks that abort() was called for before they ended
  polls,     \* polls[t]: polls of t begun since then, counted up to 2
  job,       \* job[t]: the closure of a blocking task in the pool
  joining    \* the tasks whose waker the channel of a closure's result holds

vars == <<alive, members, kept, pc, queued, mail, armed, watching, end, asked, polls, job, joining>>
setVars == <<alive, members, kept>>
jobVars == <<job, joining>>

Init ==
  /\ alive = TRUE /\ members = {} /\ kept = {}
  /\ pc = [t \in Tasks |-> "none"]
  /\ queued = {} /\ mail = {} /\ armed = {} /\ watching = {} /\ asked = {}
  /\ end = [t \in Tasks |-> "none"]
  /\ polls = [t \in Tasks |-> 0]
  /\ job = [t \in Tasks |-> "none"] /\ joining = {}

-----------------------------------------------------------------------------
(* The set and the abort handles.                                            *)

\* The tasks whose receiver exists: AbortHandle::is_finished is its negation.
Receiving == {t \in Tasks : pc[t] \in {"idle", "polling", "checking"}}

\* The tasks with at least one sender
Senders == (IF alive THEN members ELSE {}) \cup kept

\* try_send on the channels of the tasks in S: a full or closed channel drops the
\* message, another one keeps it and wakes the task.
TrySend(S) ==
  /\ mail' = mail \cup (S \cap Receiving)
  /\ queued' = queued \cup (S \cap armed)
  /\ armed' = armed \ S
  /\ asked' = asked \cup (S \cap Receiving)

\* Handles are dropped; a task that loses its last sender is woken.
DropSenders(fromSet, fromUser) ==
  /\ members' = members \ fromSet
  /\ kept' = kept \ fromUser
  /\ UNCHANGED alive
  /\ LET orphans == Senders \ Senders'
     IN queued' = queued \cup (orphans \cap armed) /\ armed' = armed \ orphans

\* JoinSet::spawn
Spawn(t) ==
  /\ alive
  /\ pc[t] = "none"
  /\ pc' = [pc EXCEPT ![t] = "idle"]
  /\ queued' = queued \cup {t}
  /\ watching' = watching \cup {t}
  /\ members' = members \cup {t}
  /\ kept' = kept \cup {t}
  /\ UNCHANGED <<alive, mail, armed, end, asked, polls, jobVars>>

\* AbortHandle::abort
Abort(t) ==
  /\ t \in kept
  /\ TrySend({t})
  /\ UNCHANGED <<setVars, pc, watching, end, polls, jobVars>>

DropAbortHandle(t) ==
  /\ t \in kept
  /\ DropSenders({}, {t})
  /\ UNCHANGED <<pc, mail, watching, end, asked, polls, jobVars>>

AbortAll ==
  /\ alive
  /\ TrySend(members)
  /\ UNCHANGED <<setVars, pc, watching, end, polls, jobVars>>

DetachAll ==
  /\ alive
  /\ DropSenders(members, {})
  /\ UNCHANGED <<pc, mail, watching, end, asked, polls, jobVars>>

DetachOnDrop(S) ==
  /\ queued' = queued \cup (S \cap armed)
  /\ armed' = armed \ S
  /\ UNCHANGED <<mail, asked>>

AbortOnDrop(S) == TrySend(S)

\* Drop of the set: abort_all(), then the handles in it are dropped, which wakes
\* nobody any more.  `members` keeps the tasks that were in the set.
DropSet ==
  /\ alive
  /\ alive' = FALSE
  /\ AbortOnDrop(members)
  /\ UNCHANGED <<members, kept, pc, watching, end, polls, jobVars>>

-----------------------------------------------------------------------------
(* The executor and the task it polls.                                       *)

\* The executor takes t from its queue.  The select is biased: the user's future is
\* polled first, also if the task was already asked to abort.
StartPoll(t) ==
  /\ pc[t] = "idle"
  /\ t \in queued
  /\ \A u \in Tasks : pc[u] \notin {"polling", "checking"}
  /\ pc' = [pc EXCEPT ![t] = "polling"]
  /\ queued' = queued \ {t}
  /\ polls' = [polls EXCEPT ![t] = IF t \in asked /\ @ < 2 THEN @ + 1 ELSE @]
  /\ UNCHANGED <<setVars, mail, armed, watching, end, asked, jobVars>>

\* The first poll of a blocking task calls spawn_blocking(f), which may fail.
HandOver(t) ==
  /\ pc[t] = "polling"
  /\ t \in Blocking
  /\ job[t] = "none"
  /\ \E res \in {"queued", "refused"} : job' = [job EXCEPT ![t] = res]
  /\ UNCHANGED <<setVars, pc, queued, mail, armed, watching, end, asked, polls, joining>>

\* A worker of the pool runs the closure and sends its result.
RunJob(t) ==
  /\ job[t] = "queued"
  /\ \E res \in {"value", "panicked"} : job' = [job EXCEPT ![t] = res]
  /\ queued' = queued \cup ({t} \cap joining)
  /\ joining' = joining \ {t}
  /\ UNCHANGED <<setVars, pc, mail, armed, watching, end, asked, polls>>

\* The select is over and the task ends: its futures and abort_rx are dropped.
EndTask(t, how) ==
  /\ pc' = [pc EXCEPT ![t] = "over"]
  /\ end' = [end EXCEPT ![t] = how]
  /\ mail' = mail \ {t}
  /\ watching' = watching \ {t}
  /\ joining' = joining \ {t}
  /\ UNCHANGED <<setVars, queued, armed, asked, polls, job>>

AnswerUnwraps(t) == t \in Blocking => job[t] \notin {"none", "queued"}

\* Does the JoinHandle of the closure yield its value?
ClosureDone(t) == t \in Blocking => job[t] = "value"

FutureReady(t) ==
  /\ pc[t] = "polling"
  /\ ClosureDone(t)
  /\ EndTask(t, "finished")

RunFailed(t) == t \in Blocking => job[t] = "panicked"

\* Does it yield an error, because the closure panicked or was refused?
ClosureFailed(t) == t \in Blocking => job[t] \in {"panicked", "refused"}

\* The future panics, a blocking task by its expect().
FutureUnwinds(t) ==
  /\ pc[t] = "polling"
  /\ ClosureFailed(t)
  /\ EndTask(t, "panicked")

FuturePends(t) ==
  /\ pc[t] = "polling"
  /\ t \in Blocking => job[t] = "queued"
  /\ pc' = [pc EXCEPT ![t] = "checking"]
  /\ joining' = joining \cup ({t} \cap Blocking)
  /\ UNCHANGED <<setVars, queued, mail, armed, watching, end, asked, polls, job>>

AnyOutput(t) == t \in mail \/ t \notin Senders

IsNone(t) == t \notin mail /\ t \notin Senders

\* Does the pattern Some(()) match the output of abort_rx.recv()?
IsSome(t) == t \in mail

\* recv() is polled after the future.
SeeAbort(t) ==
  /\ pc[t] = "checking"
  /\ t \in watching
  /\ IsSome(t)
  /\ EndTask(t, "aborted")

\* No message and no sender left: recv() yields None, which disables the branch.
StopWatching(t) ==
  /\ pc[t] = "checking"
  /\ t \in watching
  /\ ~IsSome(t)
  /\ AnyOutput(t)
  /\ watching' = watching \ {t}
  /\ pc' = [pc EXCEPT ![t] = "idle"]
  /\ UNCHANGED <<setVars, queued, mail, armed, end, asked, polls, jobVars>>

Rearmed(t) == IF t \in watching THEN armed \cup {t} ELSE armed

\* A pending recv() keeps the waker of the task.
Suspend(t) ==
  /\ pc[t] = "checking"
  /\ t \in watching => ~AnyOutput(t)
  /\ pc' = [pc EXCEPT ![t] = "idle"]
  /\ armed' = Rearmed(t)
  /\ UNCHANGED <<setVars, queued, mail, watching, end, asked, polls, jobVars>>

\* Something the suspended future waits for happens.
Event(t) ==
  /\ pc[t] = "idle"
  /\ t \notin Blocking
  /\ queued' = queued \cup {t}
  /\ UNCHANGED <<setVars, pc, mail, armed, watching, end, asked, polls, jobVars>>

-----------------------------------------------------------------------------

SetStep == \/ AbortAll \/ DetachAll \/ DropSet
           \/ \E t \in Tasks : Spawn(t) \/ Abort(t) \/ DropAbortHandle(t)

PollStep(t) == \/ HandOver(t) \/ FutureReady(t) \/ FutureUnwinds(t) \/ FuturePends(t)
               \/ SeeAbort(t) \/ StopWatching(t) \/ Suspend(t)

Next == SetStep \/ \E t \in Tasks : StartPoll(t) \/ PollStep(t) \/ Event(t) \/ RunJob(t)

Spec == Init /\ [][Next]_vars

\* The executor's queue is first in, first out, the poll of a future returns, and
\* the pool runs the closures it accepts.
FairSpec ==
  Spec /\ \A t \in Tasks : SF_vars(StartPoll(t)) /\ WF_vars(PollStep(t)) /\ WF_vars(RunJob(t))

-----------------------------------------------------------------------------
(* Properties                                                                *)

\* Types; a message is only kept for a live receiver, the waker only by a channel
\* that is empty and has a sender (task.rs:337-350), or by one whose closure is not
\* over; a blocking task ends as its closure did (task.rs:365).
TypeOK ==
  /\ alive \in BOOLEAN
  /\ {members, kept, queued, mail, armed, watching, asked, joining} \subseteq SUBSET Tasks
  /\ pc \in [Tasks -> {"none", "idle", "polling", "checking", "over"}]
  /\ end \in [Tasks -> {"none", "finished", "panicked", "aborted"}]
  /\ polls \in [Tasks -> 0..2]
  /\ job \in [Tasks -> {"none", "queued", "refused", "value", "panicked"}]
  /\ mail \subseteq Receiving
  /\ armed \cap Receiving \cap (mail \cup (Tasks \ Senders)) = {}
  /\ joining \subseteq {t \in Blocking \cap Receiving : job[t] = "queued"}
  /\ \A t \in Blocking : /\ end[t] = "finished" => job[t] = "value"
                         /\ end[t] = "panicked" => job[t] \in {"panicked", "refused"}

\* A task is aborted only on request: detach_all(), dropping the last AbortHandle
\* and a full channel are none (task.rs:320-322, :346).
AbortedOnlyOnRequest == \A t \in Tasks : end[t] = "aborted" => t \in asked

\* A request is seen by the poll that is under way or by the next one, wherever it
\* falls between the two polls of the select.
AbortTakesOnePoll == \A t \in Tasks : polls[t] <= 1

\* The inductive invariant: types, and for each task what the properties above need.
\* A request stays in the channel of a task until the task ends, only spawned tasks
\* have senders, and a branch is disabled only if no request can come any more.
Typed ==
  /\ alive \in BOOLEAN
  /\ members \subseteq Tasks /\ kept \subseteq Tasks /\ queued \subseteq Tasks
  /\ mail \subseteq Tasks /\ armed \subseteq Tasks /\ watching \subseteq Tasks
  /\ asked \subseteq Tasks /\ joining \subseteq Tasks
  /\ pc \in [Tasks -> {"none", "idle", "polling", "checking", "over"}]
  /\ end \in [Tasks -> {"none", "finished", "panicked", "aborted"}]
  /\ polls \in [Tasks -> 0..2]
  /\ job \in [Tasks -> {"none", "queued", "refused", "value", "panicked"}]

TaskOK(t) ==
  /\ t \in mail <=> t \in asked /\ t \in Receiving
  /\ t \in armed /\ t \in Receiving => t \notin mail /\ t \in Senders
  /\ t \in asked \cup members \cup kept => pc[t] # "none"
  /\ t \in Receiving /\ t \notin watching => t \notin Senders /\ t \notin mail
  /\ polls[t] # 0 => t \in asked /\ pc[t] # "idle"
  /\ polls[t] <= 1
  /\ end[t] = "aborted" => t \in asked
  /\ t \in joining => t \in Blocking /\ t \in Receiving /\ job[t] = "queued"
  /\ t \in Blocking /\ end[t] = "finished" => job[t] = "value"
  /\ t \in Blocking /\ end[t] = "panicked" => job[t] \in {"panicked", "refused"}

IInv == Typed /\ \A t \in Tasks : TaskOK(t)

\* Whatever a suspended task has to see has put it into the executor's queue: a request
\* to abort, and the end of its closure.
NobodySleepsOn ==
  \A t \in Tasks :
    /\ pc[t] = "idle" /\ t \in asked => t \in queued
    /\ pc[t] = "idle" /\ t \in Blocking /\ job[t] # "queued" => t \in queued

\* What makes that inductive: who will wake a task that is not in the queue.
WakeInv ==
  \A t \in Tasks :
    /\ pc[t] = "idle" => t \in queued \/ t \notin watching \/ (t \in armed /\ t \notin asked)
    /\ t \in Blocking /\ pc[t] \in {"idle", "checking"}
         => t \in queued \/ (t \in joining /\ job[t] = "queued")

\* Every task asked to abort ends, and so does every task of a dropped set, also
\* if its last handle goes with the set (task.rs:369-373).
AbortEnds ==
  \A t \in Tasks : (t \in asked \/ (~alive /\ t \in members)) ~> pc[t] = "over"

\* Every blocking task of the set ends: once its closure is over on its thread, or
\* could not be handed to the pool, the task is woken and polled, also if it was
\* detached and nobody holds a handle of it (task.rs:337-350, :365).
BlockingTaskEnds == \A t \in Blocking : pc[t] # "none" ~> pc[t] = "over"
=============================================================================
