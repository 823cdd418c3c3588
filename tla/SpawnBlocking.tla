--------------------------- MODULE SpawnBlocking ---------------------------
(***************************************************************************)
(* Handle::spawn_blocking (src/src/web/runtime.rs:81-99) on the default    *)
(* thread pool, and the JoinHandle it returns (src/src/web/task.rs:144-176). *)
(* The pool is the component ThreadPool, whose actions take part in those  *)
(* of this module; it lives as long as the program, so it is never dropped.*)
(* The result travels over a oneshot channel.                              *)
(* JoinHandle::abort has no action: its abort_tx is None for a blocking    *)
(* task (runtime.rs:95, :98), so calling it changes nothing.               *)
(***************************************************************************)
EXTENDS ThreadPool

VARIABLES
  chan,     \* chan[t]: the channel whose receiver spawn_blocking returned
  outcome,  \* outcome[t]: how the call of t ended ("none" before)
  handle,   \* handle[t]: what its owner did with the JoinHandle of t
  joined    \* joined[t]: what awaiting the JoinHandle returned

handleVars == <<chan, outcome, handle, joined>>
blockingVars == <<vars, handleVars>>

Ch == INSTANCE Oneshot

Ends == {"value", "panicked"}

BlockingInit ==
  /\ Init
  /\ chan = [t \in Tasks |-> Ch!Closed]
  /\ outcome = [t \in Tasks |-> "none"]
  /\ handle = [t \in Tasks |-> "none"]
  /\ joined = [t \in Tasks |-> "none"]

-----------------------------------------------------------------------------

ErrorInFirstChannel == Ch!Fresh

\* The receiver for a closure the pool did not accept: a second channel, which
\* holds the error from the start.  The first receiver is dropped.
SpawnError == Ch!Send(Ch!Fresh, "spawn")

\* A caller hands the closure to the pool and gets a JoinHandle.
Spawn(t) ==
  /\ Exec(t)
  /\ chan' = [chan EXCEPT ![t] = IF execRes'[t] = "err" THEN SpawnError ELSE Ch!Fresh]
  /\ handle' = [handle EXCEPT ![t] = "held"]
  /\ UNCHANGED <<outcome, joined>>

\* Does the sender that moved into the closure still have its receiver?
HasReceiver(t) == execRes[t] = "ok" /\ chan[t].rx

DeliverUncaught(t, end) ==
  IF ~HasReceiver(t) THEN chan[t]
  ELSE IF end = "panicked" THEN Ch!DropSender(chan[t]) ELSE Ch!Send(chan[t], end)

\* result_tx.send: without a receiver the result is dropped on the worker.
Deliver(t, end) == IF HasReceiver(t) THEN Ch!Send(chan[t], end) ELSE chan[t]

\* The closure ran under catch_unwind and its result was sent.
Complete(w, end) ==
  /\ TaskReturns(w)
  /\ running[w] \in Unwinds => HasReceiver(running[w])
  /\ outcome' = [outcome EXCEPT ![running[w]] = end]
  /\ chan' = [chan EXCEPT ![running[w]] = Deliver(running[w], end)]
  /\ UNCHANGED <<handle, joined>>

\* Nobody takes the result: it is dropped outside of catch_unwind, panics there
\* and takes the worker with it.
CompleteUnwinding(w, end) ==
  /\ TaskUnwinds(w)
  /\ ~HasReceiver(running[w])
  /\ outcome' = [outcome EXCEPT ![running[w]] = end]
  /\ UNCHANGED <<chan, handle, joined>>

-----------------------------------------------------------------------------
(* The owner of a JoinHandle.                                                *)

\* The Output of a ready poll; a vanished sender becomes JoinErrorRepr::Failed.
Output(ch) == IF ch.val # "none" THEN ch.val ELSE "failed"

\* JoinHandle::poll
Poll(t) ==
  /\ IF Ch!IsReady(chan[t])
     THEN /\ chan' = [chan EXCEPT ![t] = Ch!DropReceiver(chan[t])]
          /\ joined' = [joined EXCEPT ![t] = Output(chan[t])]
          /\ handle' = [handle EXCEPT ![t] = "joined"]
     ELSE /\ chan' = [chan EXCEPT ![t] = Ch!Registered(chan[t])]
          /\ handle' = [handle EXCEPT ![t] = "awaited"]
          /\ UNCHANGED joined
  /\ UNCHANGED <<vars, outcome>>

Await(t) == handle[t] = "held" /\ Poll(t)

\* The awaiting task was woken and polls again.
Repoll(t) == handle[t] = "awaited" /\ ~chan[t].waker /\ Poll(t)

\* Dropping the JoinHandle detaches the closure.
DropHandle(t) ==
  /\ handle[t] \in {"held", "awaited"}
  /\ handle' = [handle EXCEPT ![t] = "dropped"]
  /\ chan' = [chan EXCEPT ![t] = Ch!DropReceiver(chan[t])]
  /\ UNCHANGED <<vars, outcome, joined>>

-----------------------------------------------------------------------------

\* What a worker does on its own, as ThreadPool has it
Idling(w) == /\ TakeTask(w) \/ GoIdle(w) \/ Wake(w)
             /\ UNCHANGED handleVars

Disturbed(w) == WakeSpuriously(w) /\ UNCHANGED handleVars

BlockingWorkerStep(w) == \/ Idling(w)
                 \/ \E end \in Ends : Complete(w, end) \/ CompleteUnwinding(w, end)

BlockingNext ==
  \/ \E t \in Tasks : Spawn(t) \/ Await(t) \/ Repoll(t) \/ DropHandle(t)
  \/ \E w \in Worker : BlockingWorkerStep(w) \/ Disturbed(w)

BlockingSpec == BlockingInit /\ [][BlockingNext]_blockingVars

\* Worker threads are scheduled, and a woken task polls the handle it awaits.
BlockingFairSpec ==
  /\ BlockingSpec
  /\ \A w \in Worker : WF_blockingVars(BlockingWorkerStep(w))
  /\ \A t \in Tasks : WF_blockingVars(Repoll(t))

-----------------------------------------------------------------------------
(* Properties                                                                *)

\* The channels, handles and results keep their types; a receiver lives as long as
\* its JoinHandle, and its sender until the closure has ended (runtime.rs:86-98).
BlockingTypeOK ==
  /\ TypeOK
  /\ chan \in [Tasks -> [tx : BOOLEAN, rx : BOOLEAN, waker : BOOLEAN,
                         val : Ends \cup {"none", "spawn"}]]
  /\ outcome \in [Tasks -> Ends \cup {"none"}]
  /\ handle \in [Tasks -> {"none", "held", "awaited", "joined", "dropped"}]
  /\ joined \in [Tasks -> Ends \cup {"none", "spawn", "failed"}]
  /\ \A t \in Tasks :
       /\ chan[t].rx <=> handle[t] \in {"held", "awaited"}
       /\ chan[t].rx => (chan[t].tx <=> execRes[t] = "ok" /\ outcome[t] = "none")

\* What the JoinHandle reports is what happened: a value or a panic only if the
\* closure ended like that, a spawn error only if exec failed, and never "failed",
\* because the sender is used on every path (runtime.rs:88-95).
JoinFaithful ==
  \A t \in Tasks :
    /\ joined[t] \in Ends => outcome[t] = joined[t] /\ t \in finished
    /\ joined[t] = "spawn" => execRes[t] = "err"
    /\ joined[t] # "failed"

\* A closure has ended when its result is known, and until the handle is used its
\* channel holds the one thing to report: the result, or the error of exec.
ResultKept ==
  \A t \in Tasks :
    /\ handle[t] = "none" <=> execRes[t] = "none"
    /\ t \in finished <=> outcome[t] # "none"
    /\ chan[t].rx => chan[t].val = IF execRes[t] = "err" THEN "spawn" ELSE outcome[t]

BlockingIInv == BlockingTypeOK /\ ResultKept /\ JoinFaithful

\* A task that awaits a JoinHandle gets an answer (or drops the handle), also
\* when no worker could be spawned; a worker killed by a panicking result is the
\* one thing that can prevent it.
JoinResolves ==
  \A t \in Tasks :
    handle[t] = "awaited" ~> \/ handle[t] \in {"joined", "dropped"}
                             \/ \E w \in Worker : pc[w] = "dead"

\* A closure reported as not spawned is not run: "Task failed to execute to
\* completion" (task.rs:41).  The code queues it before it spawns the worker.
SpawnErrorMeansNotRun ==
  \A t \in Tasks : joined[t] = "spawn" => outcome[t] = "none"
=============================================================================
