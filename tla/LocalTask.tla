----------------------------- MODULE LocalTask -----------------------------
(***************************************************************************)
(* Futures spawned with Handle::spawn (src/src/web/runtime.rs:58-76), the  *)
(* JoinHandle (src/src/web/task.rs:144-176) and AbortOnDrop                *)
(* (src/src/ext.rs:136-188).                                               *)
(*                                                                         *)
(* The tasks of one thread are polled one at a time by the executor of     *)
(* wasm_bindgen_futures.  A task may itself spawn tasks: it owns their     *)
(* handles, uses them while it is polled, and drops them with its future.  *)
(* Root stands for everything else that owns handles; it may act at any    *)
(* time, because a JoinHandle is Send.                                     *)
(***************************************************************************)
EXTENDS Naturals

CONSTANTS Tasks, Root,
          Owner   \* Owner[t]: who spawns t and holds its handle

ASSUME OwnerAssumption == Root \notin Tasks /\ Owner \in [Tasks -> Tasks \cup {Root}]

VARIABLES
  pc,        \* pc[t]: where the task of t is
  queued,    \* the tasks in the executor's queue
  result,    \* result[t]: what the select expression of t evaluated to
  watching,  \* watching[t]: is the abort branch of the select still enabled?
  abortCh,   \* abortCh[t]: the channel (abort_tx, abort_rx)
  resultCh,  \* resultCh[t]: the channel (result_tx, result_rx)
  handle,    \* handle[t]: "plain" JoinHandle, "guard" AbortOnDrop, or how it went
  joined,    \* joined[t]: what awaiting the handle returned
  asked,     \* the tasks that abort() was called for
  polls      \* polls[t]: polls of t begun since then, counted up to 2

vars == <<pc, queued, result, watching, abortCh, resultCh, handle, joined, asked, polls>>

Ch == INSTANCE Oneshot

Ends == {"value", "panicked"}

Init ==
  /\ pc = [t \in Tasks |-> "none"]
  /\ queued = {}
  /\ result = [t \in Tasks |-> "none"]
  /\ watching = [t \in Tasks |-> FALSE]
  /\ abortCh = [t \in Tasks |-> Ch!Closed]
  /\ resultCh = [t \in Tasks |-> Ch!Closed]
  /\ handle = [t \in Tasks |-> "none"]
  /\ joined = [t \in Tasks |-> "none"]
  /\ asked = {}
  /\ polls = [t \in Tasks |-> 0]

Active(o) == IF o = Root THEN TRUE ELSE pc[o] = "polling"
Held(t) == handle[t] \in {"plain", "guard"}

-----------------------------------------------------------------------------
(* The owner of a handle.                                                    *)

\* Handle::spawn
Spawn(t) ==
  /\ Active(Owner[t])
  /\ pc[t] = "none"
  /\ pc' = [pc EXCEPT ![t] = "idle"]
  /\ queued' = queued \cup {t}
  /\ watching' = [watching EXCEPT ![t] = TRUE]
  /\ abortCh' = [abortCh EXCEPT ![t] = Ch!Fresh]
  /\ resultCh' = [resultCh EXCEPT ![t] = Ch!Fresh]
  /\ handle' = [handle EXCEPT ![t] = "plain"]
  /\ UNCHANGED <<result, joined, asked, polls>>

\* AbortOnDrop::new
Guard(t) ==
  /\ Active(Owner[t])
  /\ handle[t] = "plain"
  /\ handle' = [handle EXCEPT ![t] = "guard"]
  /\ UNCHANGED <<pc, queued, result, watching, abortCh, resultCh, joined, asked, polls>>

\* AbortOnDrop::into_inner
IntoInner(t) ==
  /\ Active(Owner[t])
  /\ handle[t] = "guard"
  /\ handle' = [handle EXCEPT ![t] = "plain"]
  /\ UNCHANGED <<pc, queued, result, watching, abortCh, resultCh, joined, asked, polls>>

\* The abort channel after abort(): the sender is taken and used once.
Aborted(ch) == IF ch.tx THEN Ch!Send(ch, "abort") ELSE ch

\* JoinHandle::abort
Abort(t) ==
  /\ Active(Owner[t])
  /\ Held(t)
  /\ abortCh' = [abortCh EXCEPT ![t] = Aborted(abortCh[t])]
  /\ queued' = IF abortCh[t].waker THEN queued \cup {t} ELSE queued
  /\ asked' = asked \cup {t}
  /\ UNCHANGED <<pc, result, watching, resultCh, handle, joined, polls>>

DroppedWithoutAbort(t) == Ch!DropSender(abortCh[t])

\* The abort channel after the handle was dropped: AbortOnDrop aborts first.
DroppedHandle(t) ==
  IF handle[t] = "guard" THEN Aborted(abortCh[t]) ELSE Ch!DropSender(abortCh[t])

\* The handles of the tasks in S are dropped, and `ch` are the other changes of
\* the abort channels that the step makes.
DropHandles(S, ch) ==
  /\ abortCh' = [t \in Tasks |-> IF t \in S THEN DroppedHandle(t) ELSE ch[t]]
  /\ resultCh' = [t \in Tasks |-> IF t \in S THEN Ch!DropReceiver(resultCh[t]) ELSE resultCh[t]]
  /\ handle' = [t \in Tasks |-> IF t \notin S THEN handle[t]
                                ELSE IF handle[t] = "guard" THEN "released" ELSE "detached"]
  /\ queued' = queued \cup {t \in S : abortCh[t].waker}
  /\ asked' = asked \cup {t \in S : handle[t] = "guard"}

DropHandle(t) ==
  /\ Active(Owner[t])
  /\ Held(t)
  /\ DropHandles({t}, abortCh)
  /\ UNCHANGED <<pc, result, watching, joined, polls>>

\* JoinHandle::poll finds the result and the await consumes the handle.
Join(t) ==
  /\ Active(Owner[t])
  /\ Held(t)
  /\ Ch!IsReady(resultCh[t])
  /\ joined' = [joined EXCEPT ![t] = IF resultCh[t].val = "none" THEN "failed" ELSE resultCh[t].val]
  /\ handle' = [handle EXCEPT ![t] = "joined"]
  /\ resultCh' = [resultCh EXCEPT ![t] = Ch!DropReceiver(resultCh[t])]
  /\ abortCh' = [abortCh EXCEPT ![t] = Ch!DropSender(abortCh[t])]
  /\ UNCHANGED <<pc, queued, result, watching, asked, polls>>

\* JoinHandle::poll finds nothing and leaves the waker of the owner.
AwaitJoin(t) ==
  /\ Active(Owner[t])
  /\ Held(t)
  /\ ~Ch!IsReady(resultCh[t])
  /\ resultCh' = [resultCh EXCEPT ![t] = Ch!Registered(resultCh[t])]
  /\ UNCHANGED <<pc, queued, result, watching, abortCh, handle, joined, asked, polls>>

-----------------------------------------------------------------------------
(* The executor and the task it polls.                                       *)

Running(t) == pc[t] \in {"polling", "checking", "sending"}

\* The executor takes t from its queue.  The select is biased: the user's future
\* is polled first.
StartPoll(t) ==
  /\ pc[t] = "idle"
  /\ t \in queued
  /\ \A u \in Tasks : ~Running(u)
  /\ pc' = [pc EXCEPT ![t] = "polling"]
  /\ queued' = queued \ {t}
  /\ polls' = [polls EXCEPT ![t] = IF t \in asked /\ @ < 2 THEN @ + 1 ELSE @]
  /\ UNCHANGED <<result, watching, abortCh, resultCh, handle, joined, asked>>

Nothing(t) == {}

\* What t's future holds and what is dropped with it
Belongings(t) == {c \in Tasks : Owner[c] = t /\ Held(c)}

\* abort_rx is dropped with the other futures of the select.
WithoutAbortReceiver(t) == [abortCh EXCEPT ![t] = Ch!DropReceiver(@)]

\* The select is over: its futures are dropped, with the handles in them.
EndSelect(t, res) ==
  /\ pc' = [pc EXCEPT ![t] = "sending"]
  /\ result' = [result EXCEPT ![t] = res]
  /\ DropHandles(Belongings(t), WithoutAbortReceiver(t))
  /\ UNCHANGED <<watching, joined, polls>>

\* The future is ready, or its panic is caught.
FutureEnds(t, end) == pc[t] = "polling" /\ EndSelect(t, end)

FuturePends(t) ==
  /\ pc[t] = "polling"
  /\ pc' = [pc EXCEPT ![t] = "checking"]
  /\ UNCHANGED <<queued, result, watching, abortCh, resultCh, handle, joined, asked, polls>>

AnyEnd(ch) == Ch!IsReady(ch)

NoSender(ch) == ch.val = "none" /\ ~ch.tx

\* Does the pattern Ok(()) match the output of abort_rx?
IsAbort(ch) == ch.val = "abort"

\* abort_rx is polled after the future.
SeeAbort(t) ==
  /\ pc[t] = "checking"
  /\ watching[t]
  /\ IsAbort(abortCh[t])
  /\ EndSelect(t, "aborted")

\* The handle is gone: abort_rx yields an error, which disables the branch.
StopWatching(t) ==
  /\ pc[t] = "checking"
  /\ watching[t]
  /\ Ch!IsReady(abortCh[t])
  /\ ~IsAbort(abortCh[t])
  /\ watching' = [watching EXCEPT ![t] = FALSE]
  /\ pc' = [pc EXCEPT ![t] = "idle"]
  /\ UNCHANGED <<queued, result, abortCh, resultCh, handle, joined, asked, polls>>

\* A pending abort_rx keeps the waker of the task.
Suspend(t) ==
  /\ pc[t] = "checking"
  /\ watching[t] => ~Ch!IsReady(abortCh[t])
  /\ abortCh' = IF watching[t] THEN [abortCh EXCEPT ![t] = Ch!Registered(abortCh[t])] ELSE abortCh
  /\ pc' = [pc EXCEPT ![t] = "idle"]
  /\ UNCHANGED <<queued, result, watching, resultCh, handle, joined, asked, polls>>

SentUncaught(t) == IF result[t] = "panicked" THEN Ch!DropSender(resultCh[t])
                   ELSE Ch!Send(resultCh[t], result[t])

Sent(t) == Ch!Send(resultCh[t], result[t])

\* result_tx.send wakes the owner that awaits the handle.
SendResult(t) ==
  /\ pc[t] = "sending"
  /\ pc' = [pc EXCEPT ![t] = "over"]
  /\ resultCh' = [resultCh EXCEPT ![t] = Sent(t)]
  /\ queued' = IF resultCh[t].waker THEN queued \cup ({Owner[t]} \ {Root}) ELSE queued
  /\ UNCHANGED <<result, watching, abortCh, handle, joined, asked, polls>>

\* Something the suspended future waits for happens.
Event(t) ==
  /\ pc[t] = "idle"
  /\ queued' = queued \cup {t}
  /\ UNCHANGED <<pc, result, watching, abortCh, resultCh, handle, joined, asked, polls>>

-----------------------------------------------------------------------------

HandleStep(t) == Spawn(t) \/ Guard(t) \/ IntoInner(t) \/ Abort(t) \/ DropHandle(t)
                   \/ Join(t) \/ AwaitJoin(t)

\* What happens to a polled task without anybody's help
PollStep(t) == \/ \E end \in Ends : FutureEnds(t, end)
               \/ FuturePends(t) \/ SeeAbort(t) \/ StopWatching(t) \/ Suspend(t) \/ SendResult(t)

Next == \E t \in Tasks : HandleStep(t) \/ StartPoll(t) \/ PollStep(t) \/ Event(t)

Spec == Init /\ [][Next]_vars

\* The executor's queue is first in, first out, so a queued task is polled however
\* often others are queued; and the poll of a future returns.
FairSpec == Spec /\ \A t \in Tasks : SF_vars(StartPoll(t)) /\ WF_vars(PollStep(t))

-----------------------------------------------------------------------------
(* Properties                                                                *)

Channel == [tx : BOOLEAN, rx : BOOLEAN, waker : BOOLEAN,
            val : Ends \cup {"none", "abort", "aborted"}]

\* Tasks, channels and handles keep their types, and the halves of the channels
\* live as long as the select and the handle they are in (runtime.rs:63-76).
TypeOK ==
  /\ pc \in [Tasks -> {"none", "idle", "polling", "checking", "sending", "over"}]
  /\ queued \subseteq Tasks
  /\ result \in [Tasks -> Ends \cup {"none", "aborted"}]
  /\ watching \in [Tasks -> BOOLEAN]
  /\ abortCh \in [Tasks -> Channel]
  /\ resultCh \in [Tasks -> Channel]
  /\ handle \in [Tasks -> {"none", "plain", "guard", "released", "detached", "joined"}]
  /\ joined \in [Tasks -> Ends \cup {"none", "aborted", "failed"}]
  /\ asked \subseteq Tasks
  /\ polls \in [Tasks -> 0..2]
  /\ \A t \in Tasks : abortCh[t].rx <=> pc[t] \in {"idle", "polling", "checking"}
  /\ \A t \in Tasks : resultCh[t].tx <=> pc[t] \in {"idle", "polling", "checking", "sending"}
  /\ \A t \in Tasks : resultCh[t].rx <=> Held(t)

\* A task ends as aborted only if somebody asked for that: dropping a JoinHandle
\* drops abort_tx too, and the pattern Ok(()) (runtime.rs:71) must not take the
\* closed channel for a request.
AbortedOnlyOnRequest == \A t \in Tasks : result[t] = "aborted" => t \in asked

\* Awaiting a handle tells how the task ended and never that it "failed".
JoinFaithful == \A t \in Tasks : joined[t] # "none" => joined[t] = result[t]

\* Whoever joins a task finds its future dropped, and with it every handle it held:
\* the select drops its futures before the result is sent (runtime.rs:67-73).
JoinedAfterDrop ==
  \A t, c \in Tasks : joined[t] # "none" /\ Owner[c] = t => ~Held(c)

\* The request to abort is seen by the poll that is under way or by the next one,
\* wherever it falls between the two polls of the select, also when the handle is
\* dropped right after it.
AbortTakesOnePoll == \A t \in Tasks : polls[t] <= 1

Selecting(t) == pc[t] \in {"idle", "polling", "checking"}

\* What makes the invariants above inductive.  A request stays in the channel of a
\* task until its select is over, and a branch is disabled only if no request can
\* come any more.
RequestKept ==
  \A t \in Tasks :
    /\ abortCh[t].val = "abort" => t \in asked
    /\ Selecting(t) /\ t \in asked => abortCh[t].val = "abort"
    /\ Selecting(t) /\ Held(t) => t \in asked \/ (abortCh[t].tx /\ abortCh[t].val = "none")
    /\ Selecting(t) /\ ~watching[t] => ~Held(t) /\ t \notin asked
    /\ t \in asked => handle[t] # "none"
    /\ polls[t] # 0 => t \in asked /\ pc[t] # "idle"

\* A result is sent once the select is over, and stays for the owner of the handle.
ResultKept ==
  \A t \in Tasks :
    /\ handle[t] = "none" <=> pc[t] = "none"
    /\ result[t] = "none" <=> Selecting(t) \/ pc[t] = "none"
    /\ Held(t) => resultCh[t].val = IF pc[t] = "over" THEN result[t] ELSE "none"
    /\ joined[t] # "none" => pc[t] = "over"

\* A task whose select is over holds no handles, and no task is its own owner.
BelongingsGone ==
  /\ \A t, c \in Tasks : result[t] # "none" /\ Owner[c] = t => ~Held(c)
  /\ \A t \in Tasks : Owner[t] = t => pc[t] = "none"

IInv == TypeOK /\ RequestKept /\ ResultKept /\ BelongingsGone
        /\ AbortedOnlyOnRequest /\ JoinFaithful /\ AbortTakesOnePoll

\* A request to abort has put a suspended task into the executor's queue.
NobodySleepsOn == \A t \in Tasks : pc[t] = "idle" /\ t \in asked => t \in queued

\* What makes that inductive: a task that is not in the queue and may still be asked
\* has its waker in the channel.
WakeInv ==
  \A t \in Tasks :
    pc[t] = "idle" => t \in queued \/ ~watching[t] \/ (abortCh[t].waker /\ t \notin asked)

\* A task asked to abort ends, and so do the tasks whose AbortOnDrop it held:
\* cancellation reaches the whole tree of guarded tasks.
StructuredCancel ==
  \A t \in Tasks :
    t \in asked ~> /\ pc[t] = "over"
                   /\ \A c \in Tasks : Owner[c] = t /\ handle[c] = "released" => pc[c] = "over"
=============================================================================
