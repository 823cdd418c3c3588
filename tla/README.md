# Verification of wokio

wokio offers Tokio's runtime API both natively and on WebAssembly in a browser.
Natively it re-exports Tokio; on the web it implements tasks, blocking tasks and
timers itself. This project models that web backend in TLA+, checks it with TLC
and proves with TLAPS, for all values of the parameters, every invariant the runs
check, and of the other properties all but those that say something must eventually
happen. All paths below are relative to the repository's `src/` directory unless
they name a module.

## The system

| Part | Code | State | Operations |
|---|---|---|---|
| Worker pool | `web/thread_pool.rs` | queue, worker list, idle counter, exit flag under one mutex; per worker a local `idle` flag and a park token | `exec`, the worker loop, `Drop` |
| Blocking tasks | `web/runtime.rs:79-99`, `web/task.rs:144-176` | a oneshot channel per closure | `spawn_blocking`, poll and drop of the `JoinHandle` |
| Local tasks | `web/runtime.rs:56-77`, `web/task.rs:144-176`, `ext.rs:136-188` | two oneshot channels per task, the enabled branches of its select | `spawn`, `abort`, poll, drop, `AbortOnDrop` |
| JoinSet | `web/task.rs:249-373` | list of abort handles, an mpsc channel of capacity 1 per task, the `JoinHandle` inside a blocking one | `spawn`, `spawn_blocking`, `abort_all`, `detach_all`, drop, `AbortHandle` |
| JsSleep | `web/time.rs:29-186` | remaining time, fired flag, waker, timer id, callback | `new`, `arm`, the timer callback, poll, drop |
| Sleep thread, Timeout | `web/time.rs:192-283`, `:423-474` | request channel, a relay task and a oneshot channel per sleep | `Sleep::new`, receive loop, relay, `Timeout::poll`, drop |
| Interval, Instant | `web/time.rs:292-381`, `:476-604` | deadline, period, missed tick behavior, inner sleep | `poll_tick`, `reset*`, `set_missed_tick_behavior` |
| ThreadBound | `thread_bound.rs` | value, thread id, taken flag | access by any trait, clone, comparison, `into_inner`, drop |
| has_threads | `ext.rs:20-59` | a static `OnceCell`, a oneshot channel per probe | call, probe, wait, cancel, the test thread |
| Wrappers | `ext.rs`, `web/mod.rs`, `native.rs` | none | forwarding |

How they interact: `spawn_blocking` hands a closure to the pool and receives its
result over a oneshot channel. `spawn` and `JoinSet::spawn` give a future to the
executor of `wasm_bindgen_futures`, in a biased `select!` with an abort channel.
A `Timeout` polls its future and a `Sleep`; the `Sleep` of a threaded build sends
a request to the thread that owns the timers, where a `JsSleep` runs; an
`Interval` replaces its `Sleep` after every tick. `ThreadBound` and `has_threads`
stand alone: users wrap values that must not leave the JavaScript thread they were
made on in the former, and ask the latter before they rely on threads.

What is hard here, and which properties each part owes its users:

* Worker threads interleave at every release of the mutex, and a worker releases
  it *before* it parks. Owed: no lost wake-up, an exact idle counter, each closure
  run once and in order, a pool that drains and stops, and growth when needed.
* Thread spawning may fail after the closure was queued. Owed: the caller gets an
  answer, and the answer is true.
* Aborts, drops and completions race with the two polls of a select; a closed
  channel looks like a message. Owed: only requested aborts, prompt ones, that
  reach the tasks guarded by an aborted task.
* A JavaScript timer callback may run the woken task inside `wake()`, and that task
  may drop the sleep which owns the callback. Owed: a callback that exists as long as
  it is needed and no longer, no lost waker, no timer left behind, never early through
  chunks and rounding.
* Requests, answers and drops of sleeps cross a thread boundary. Owed: no early
  timeout, no lost wake-up, and the timer of a dropped sleep given back.
* Ticks come late in background tabs. Owed: what `MissedTickBehavior` says, and no
  overflow.
* A `ThreadBound` is `Send` and `Sync` whatever it holds, by `unsafe`, and may be
  pinned. Owed: the value stays on its thread through every way to use, copy, share
  and lose the wrapper, panics included, and its destructor runs before its storage
  goes.
* Callers of `has_threads` are cancelled while they probe, wait or have just been
  handed the permit. Owed: the same answer for all, a true one, and an answer for
  each that is not cancelled.

The list `hazards` in `PROJECT.json` names each such place with its line and the
properties that watch it.

## Modules

| Module | Models | Remarks |
|---|---|---|
| `BlockingPool` | the abstract promise of a pool of `Size` slots | no locks, tokens, counters |
| `ThreadPool` | `thread_pool.rs` | implements `BlockingPool` |
| `ThreadPoolProofs` | - | theorems about `ThreadPool` and about `SpawnBlocking`, which extends it |
| `LocalTaskProofs`, `JoinSetProofs`, `JsSleepProofs`, `ThreadSleepProofs`, `IntervalProofs`, `ThreadBoundProofs`, `HasThreadsProofs` | - | theorems about the module each is named after |
| `Oneshot` | `tokio::sync::oneshot` as used by wokio (external) | record operators |
| `SpawnBlocking` | `Handle::spawn_blocking` and its `JoinHandle` | extends `ThreadPool` and uses `Oneshot` |
| `LocalTask` | `Handle::spawn`, `JoinHandle`, `AbortOnDrop` | uses `Oneshot` |
| `JoinSet` | `JoinSet` with its async and blocking tasks, `AbortHandle` | own channel of capacity 1; uses what `BlockingPool` promises |
| `Sleeping` | the abstract promise of a sleep | |
| `JsSleep` | the chain of `setTimeout` timers | implements `Sleeping` |
| `ThreadSleep` | sleep thread, threaded `Sleep`, `Timeout` | uses what `Sleeping` promises of `JsSleep`, and `Oneshot` |
| `Interval` | `Interval`, the arithmetic of `Instant` | uses what `Sleeping` promises |
| `ThreadBound` | `ThreadBound` and the threads that hold wrappers | ownership is Rust's |
| `HasThreads` | `has_threads`, its test threads | uses `Oneshot`; the `OnceCell` is external |
| `MC*` | instances for TLC | model values and small functions only |

### ThreadPool

`tasks`, `workers`, `idle` and `exit` are the fields of `Inner`; a worker is known
by its place in `Inner.workers`. `counted[w]` is the local variable `idle` of
`worker()`, `pc[w]` says whether the worker will lock the mutex next (`scan`), runs
a closure (`run`), has released the mutex to park (`park`), has left (`exited`),
was ended by an unwinding closure (`dead`) or has not been started (`unborn`).
`token[w]` is the park token of `std::thread`, and `WakeSpuriously` the spurious
return that `park` is documented to have. A section under the mutex is one
action: `Exec` (with its three endings), `DropPool`, `TakeTask`, `Leave`, `GoIdle`.
`exec` holds the mutex throughout, so the new thread and the push to
`Inner.workers` are one step, as no worker can observe the state between them.
`execRes` and `finished` record what callers can observe. `BlocksOn` lets a
closure wait for others, which is what users of a blocking pool do. A worker
that parks never gets stuck in a poisoned mutex: closures run without the lock.

### SpawnBlocking

The module extends `ThreadPool` and keeps its variables; its own specification is
`BlockingSpec`. Every worker step is an action of `ThreadPool`, joined with what the closure built
by `spawn_blocking` does at that point: `Complete` sends the result. `Spawn` uses
the second channel if `exec` failed. `CompleteUnwinding` is the case of a result
whose destructor panics when nobody receives it; this happens outside of
`catch_unwind` and kills the worker. `JoinHandle::abort` changes nothing for a
blocking task (`abort_tx` is `None`), so it is no action. The default pool is a
static and never dropped.

### LocalTask

A poll of a task is `StartPoll`, then the future's own behavior (it uses the
handles it owns, ends or pends), then the poll of the abort channel (`SeeAbort`,
`StopWatching`, `Suspend`), then `SendResult`. Between these steps other threads
may use handles of the tasks `Root` owns, because a `JoinHandle` is `Send` and its
abort sender is behind a mutex. A task owns the handles of the tasks it spawned
and drops them when the select drops its future, which precedes the sending of
the result. `Owner` is a constant: which task spawns which.

A panic in a future is caught and sent, as in builds that unwind. (With
`panic = "abort"` a panic ends the program and nothing remains to be said.)

### JoinSet

`members` is `JoinSet.tasks`, `kept` the tasks whose returned `AbortHandle` still
exists; clones of it count as one. `mail` are the channels with a message, `armed`
those that hold the waker of their task. `TrySend` is the `try_send` of all abort
paths, applied to the set of channels that a call reaches.

The tasks in `Blocking` are those of `JoinSet::spawn_blocking`: a local task whose
future calls `spawn_blocking` when it is first polled (`HandOver`), awaits the
`JoinHandle` (`joining` are the tasks whose waker its channel holds) and unwraps the
result, so that a panic of the closure, or a pool that refuses it, unwinds the task.
The pool is known by what `BlockingPool` promises: an accepted closure runs to its
end (`RunJob`). A refused closure counts as final here, though finding 2 shows that
it may run later. Whether the future ends, pends or unwinds, its locals are dropped,
the abort receiver among them.

The drop of a set sends the abort and returns; a task sees it in the poll that is
under way or in the next one, after its future was polled once more, for the select is
biased towards the future. `AbortTakesOnePoll` says that it is not polled more often
than that, which is what the code does; the docs say "immediately" (`task.rs:273`), and
the one poll can matter: see the observation under Findings. `BlockingTaskEnds` is about
the tasks that nobody aborts: the end of a closure wakes its task and ends it, also if
the task was detached and no handle of it is left.

### Sleeping, JsSleep

`Callback` runs the closure of `JsSleep::new` up to `waker.wake()`, and
`WakeReturns` ends it; `Poll` and `Drop` may happen between the two, as they do if
the waker runs the task. The browser's part is `timer` (due times) and `Tick`: a
callback runs at its time or up to `Lag` later, and a delay above `MaxDelay` fires
at once, which is what `setTimeout` does on overflow.

`refs` counts the strong references to `inner`, which owns the callback: the `JsSleep`
has one, the running callback gets one from `upgrade()`, and the captured weak one does
not count (`NewRefs`). `CallbackLifetime` says what the comment at `time.rs:72-76` asks
for while the callback may be called or is inside `wake()`, and that nothing keeps it
afterwards. If `wake()` drops the sleep, the reference of the callback is the last one
and goes at the end of its own call, so the closure is freed from within itself there;
`wasm_bindgen` puts that off until the call has returned, which is external and in no
run. Borrows of `inner` are not modelled: `drop(guard)` (`time.rs:105`) ends the one of
the callback before `wake()`, and `arm()` takes its own after the other one is gone
(`:111`).

### ThreadSleep

`New` is the call of `timeout()`, which sends the request at once. `Receive` is the
receive loop, the three `Relay` actions are the select of the relay task. `kept` are the
`Timeout`s that exist. `Drop` drops the receiver and thereby completes
`wake_tx.closed()`; `Return` is a poll that is `Ready`, which drops nothing
(`time.rs:448-454`). So a `Timeout` whose future became ready and that is kept, as one
that is polled by reference may be, keeps its timer until it is dropped or the duration
has passed, with `Duration::MAX` as long as it is kept: `TimerReleased` is about dropped
ones, before or after they returned. When the sleep has elapsed nothing is left to give
back, and the receiver has let go of the channel. A `Timeout` is not polled again after
it has returned, which is the caller's part of the contract of futures.

The sleep thread does not fail here: the `expect` of `Sleep::new` (`time.rs:248`) and a
panic in `JsSleep::new` on that thread, after which every `Sleep` would panic in its
own `expect` (`time.rs:258`), are not modelled.

### Interval

Instants are microseconds and periods nanoseconds with a scaled ratio `Nanos`, so
that the truncation of `as_micros` is in the model. `MaxInstant` scales
`u64::MAX`. `wake` is the time from which the inner sleep may be found complete.
`origin` and `ticks` are history: the deadline of the last creation or reset and
the ticks since then. `Skip`'s `unwrap_or(0)` for a remainder beyond 64 bits of
nanoseconds (584 years) is left out.

### ThreadBound

`threadId` and `taken` are the fields of a wrapper, and `fate` and `touched` record
what became of its value: the ways it ended, and the threads that used or destroyed
it. `life` is the storage, `holder` the thread with the frame that owns it. Every
method that reaches the value by a reference, `Deref`, `Poll` of a future, sink or
stream, formatting, hashing, comes down to `check()` and the use, which is
`Reference`; a comparison checks both wrappers. A failed check panics: `Panic` picks
the frames of the thread that are unwound, and `Unwind` then drops what they own one
by one, as the other threads go on. `into_inner` owns the wrapper, so its panic
unwinds over it. `Drop` leaves a value without destructor (not in `NeedsDrop`) alone,
destroys another one on its own thread, and aborts the process on a foreign one.

Rust's own guarantees are taken from it: one owner, no use after a move or a drop, no
move out of a pinned wrapper, unwinding that drops what a frame owns. A thread that
has ended never runs again under its id (`ThreadId` is unique); its wrappers live on
with other threads, and can then only be leaked or abort the process.

### HasThreads

A caller of `has_threads` answers from the cell, takes the permit of the `OnceCell`
and probes, or queues. `Probe` spawns the test thread or is refused, `AwaitTest` polls
the receiver, and the end of a probe sets the cell and wakes everybody. `Cancel` drops
the future of a suspended caller: one that probes, or has been handed the permit and
not been polled since, hands it to the next in the queue. The test thread of a
cancelled probe goes on and sends to nobody. The cell, its permit and its queue are
modelled from how `ext.rs:27-29` uses `tokio::sync::OnceCell`.

## Runs

All of them disable the deadlock check: each system really stops, when all
closures or tasks are over, the pool is dropped or the bounded clock has run out.

| Run | Bounds | Shows |
|---|---|---|
| `ThreadPool` | 4 closures, 3 workers, spawns may fail, two closures may unwind | `TypeOK`, `IdleCounterExact`, `NoLostWakeup`, `AcceptedTaskServed`, `TaskInOnePlace`; accepted closures run; a dropped pool drains and stops; implements `BlockingPool` |
| `ThreadPool_dependency` | 3 closures, the first waits for the second, 2 workers | **violated**: see finding 1 |
| `SpawnBlocking_join` | 2 closures, 2 workers, spawns may fail, one panicking result | handles tell the truth and resolve |
| `SpawnBlocking_error` | 3 closures, 2 workers | **violated**: see finding 2 |
| `LocalTask` | a task and a task it spawns | aborts on request only, within one poll, through guards; joins are truthful and late enough |
| `JoinSet` | an async and a blocking task | aborts on request only, within one poll; a dropped set ends its tasks; a blocking task ends with its closure |
| `JsSleep` | 3 ticks per ms, chunks of 2 ms, durations of 0 to 14 ticks | never early, no timer leaked, no lost waker, the callback lives as long as it is needed; implements `Sleeping` |
| `Interval` | periods of 1, 3, 6 and 100 us, tolerance 2 us, clock to 14 us | never early (`TickNotEarly`), deadlines where the behavior puts them (`DeadlineOnGrid`, `MissedTickNotMadeUp`), no overflow |
| `Interval_submicro` | periods of 0.5 and 2 us | **violated**: see finding 3 |
| `ThreadSleep` | 2 timeouts, durations 0, 2 and 50 of a clock of 6 | not early and a ready future wins (`ElapsedTruly`), timers of dropped ones released, waiters resolve |
| `ThreadBound` | 2 threads, 3 wrappers, one without destructor | values stay on their thread, end once, before their storage; unwinding over a foreign value aborts |
| `HasThreads` | 3 callers, as many probes | one true answer for all; each caller that is not cancelled gets it |

Why the bounds are enough. *Pool*: three workers give one that runs, one that is
about to park and one that is parked, four closures let the queue hold two while
two run; for other numbers the safety properties are proved. *LocalTask*: each
relation is between a task and one that it owns, and a longer chain repeats the
link, since `StructuredCancel` turns an aborted owner into an aborted child.
*JoinSet*: its tasks share only the set's own calls and the executor, and there is
one of each kind.
*JsSleep*: the durations include none, one and three chunks, whole and broken
milliseconds, on both sides of each boundary; the clock reaches past the last
callback of the longest sleep. *Interval*: the clock allows ticks late by many
periods of the shortest, by one of the middle ones and by none of the longest,
which overflows `MaxInstant`. *ThreadSleep*: two requests can be queued and
overtaken by drops in either order; 50 stands for `Duration::MAX`. *ThreadBound*: an
action relates at most two wrappers, and a third allows a clone of one under
comparison and frames that unwind over several; a thread is a wrapper's own or
foreign; for other numbers the invariants are proved. *HasThreads*: one caller
probes, one is handed the permit and one still waits behind it.

Symmetry reduction is not used: the runs are small, and most check liveness.

### Fairness

* `WF(WorkerStep(w))`: the platform schedules a runnable worker thread. Spurious
  wake-ups and unwinding are never assumed to happen.
* `SF(StartPoll(t))`: the queue of `wasm_bindgen_futures` is first in first out, so
  a queued task is polled even if other tasks keep the executor busy in between.
  Weak fairness would not do, because the action is disabled during other polls.
* `WF(PollStep(t))`: the poll of a future returns. Nothing makes a future become
  ready, an owner join, or an event happen.
* `WF(Callback)`, `WF(WakeReturns)`, `WF(Tick)`: the event loop runs timers that are
  due, callbacks return, time passes (up to the bound of the clock).
* `WF(Receive)`, `WF(RelayStep(s))`: the event loop of the sleep thread runs.
* `WF(RunJob(t))`: the pool runs what it accepted, as `AcceptedTaskRuns` shows.
* `WF(Unwind(t, b))` for some `b`: a thread that unwinds goes on unwinding.
* `WF(TestThread(c))`: a test thread that was spawned runs, or dies.
* `WF` of polls of a woken task only (`Resume`, `AwaitTest` and their like): wakers are
  used, nothing else is polled.

`PoolShutsDown` and `AcceptedTaskRuns` assume closures that return;
`ThreadPool_dependency` is the case of one that waits.

## Findings

1. **A waiting closure can hang the pool** (`thread_pool.rs:48`). A worker that was
   unparked for one closure counts as idle until it takes it. A second `exec` in
   between starts no worker although `max_workers` is not reached. If the first
   closure waits for the second, both hang; `task.rs:201` promises a thread pool
   dedicated to blocking operations. For closures that do not wait for each other
   `AcceptedTaskRuns` holds.
2. **A closure reported as not spawned may run** (`thread_pool.rs:45`, `:54`). It is
   queued before the worker is spawned and stays queued when that fails.
   `task.rs:41` calls the error "Task failed to execute to completion."
3. **An interval below a microsecond stands still** (`time.rs:336`, `:487`), and
   `interval_at` accepts it (`:596`).

Observed while modelling, and stated by no run:

* **Aborting a blocking task can start its closure** (`task.rs:341-343`, `:365`). If a
  task of `JoinSet::spawn_blocking` is aborted, or its set dropped, before its first
  poll, the biased select still polls its future once, and that poll hands the closure to
  the pool; the task then ends as aborted, and the closure runs with nobody to receive
  its value. The docs say of a dropped set that its tasks are "immediately aborted"
  (`task.rs:273`) and of the handle that it "can be used to remotely cancel the task"
  (`task.rs:358-359`). Polling the abort channel first would keep both. In `JoinSet` it
  is the behavior `Spawn`, `Abort`, `StartPoll`, `HandOver`, `FuturePends`, `SeeAbort`,
  `RunJob`. No property of the project claims that the closure should run, nor that it
  should not.

## Proofs

`ThreadPoolProofs` proves, for every number of workers and every set of closures
(from `MaxWorkersAssumption`, `NoTaskAssumption` and `ClosureAssumption`):

* `TypeCorrect`, `IdleCounterCorrect`, `WakeupsArrive`, `AcceptedTaskIsServed`,
  `TaskRunsOnce`: `Spec` implies that `TypeOK`, `IdleCounterExact`, `NoLostWakeup`,
  `AcceptedTaskServed` and `TaskInOnePlace` hold always;
* `PoolRefinement`: `Spec` implies `ImplementsPool`, the abstract `BlockingPool`
  with slots for workers.

The argument is the inductive invariant `IInv`. `IdleCounterExact` alone is not
inductive: that `idle` stays a natural number when a worker decrements it needs
the counter to be exact, and that needs `counted` to be true only of workers in
their loop, which `WorkerConsistent` says. `NoLostWakeup` holds because `UnparkAll`
reaches every worker that `WorkerConsistent` places below `workers`, and because a
worker that goes idle sees an empty queue under the same mutex; the case of
`Exec` that starts a worker instead rests on the exact counter: with `idle = 0` no
worker counts as idle, hence none is parked. `TaskInOnePlace` needs
`TaskConsistent`: what is queued, running or finished was submitted, so a new
closure is in none of these places. `AcceptedTaskServed` follows from `IInv`: a
worker that has left found the queue empty, after the drop, when nothing is
submitted any more. Each action has a lemma; the refinement maps `Exec` to
`Submit`, `TakeTask` to `Start`, the ends of closures to `Finish`, and the rest
to stuttering.

`JsSleepProofs` proves, for every resolution of the clock, every longest delay and
every set of durations (from `TimeAssumption`):

* `TimerBookkeeping`, `SleepNeverEarly`, `DropClearsTimer`, `CallbackLivesLongEnough`,
  `WaiterKeepsWaker`: `Spec` implies that `TypeOK`, `NeverEarly`,
  `NoTimerAfterDrop`, `CallbackLifetime` and `WaiterHasWaker` hold always (the last is
  proved only: in the run `WaiterWoken` says more);
* `ChainIsASleep`: `Spec` implies the safety part of the contract `Sleeping`.

The arithmetic comes first: a delay rounded up covers its chunk (`DelayCovers`), no
chunk's delay exceeds what `setTimeout` takes (`ChunkFits`), so what `arm` leaves
behind, the timer and the remaining time, reaches as far as the duration it was
given (`ArmCovers`). `NeverEarly` states that sum for every state: a re-armed timer
starts when the last one has run out, so the sum stays, and when nothing remains
the timer alone reaches the deadline. That the callback of a live sleep finds
`fired` false is `TypeOK`: a sleep that has fired has no timer. `CallbackLifetime` is
not inductive; `RefsCounted` is, which says who holds `inner`, and with
`NoTimerAfterDrop` every armed timer belongs to a sleep that is alive and holds it
(`CountedIsKept`). So a callback always finds `inner` (`CalledAlive`).

`ThreadBoundProofs` proves, for any threads, any wrappers and any choice of those with
a destructor (from `BoundsAssumption`):

* `WrapperTypes`, `ValueStaysHome`, `DropGuarantee`: `Spec` implies that `TypeOK`,
  `OwnThreadOnly` and `StorageGuarantee` hold always.

The inductive invariant joins the three with `TakenIsGone`. `OwnThreadOnly` is kept
because every path to the value has the check of *this* wrapper in its guard, and a
clone takes over the binding while the cloning thread is the bound one.
`StorageGuarantee` needs more: that the drop of a live wrapper destroys its value
relies on `taken` being false in it, which `TakenIsGone` says, for `into_inner` sets
the flag in the step that releases the wrapper. And that the drop in `into_inner`
destroys nothing relies on the flag being set before. In `TypeOK`, what a thread
unwinds it owns, so no wrapper is dropped by two threads; `DropKeeps` states what both
ways to drop have in common.

`ThreadPoolProofs` goes on with `SpawnBlocking`, from the same assumptions:

* `PoolInside`: `BlockingSpec` implies `Spec` of the pool, as each of its steps is a
  step of the pool or leaves the pool alone; hence `CompositionKeepsPool`: the pool
  keeps its abstract promise and serves accepted closures inside the composition;
* `HalvesLiveLongEnough` and `JoinIsFaithful`: `BlockingTypeOK` and `JoinFaithful` hold
  always.

The invariant `BlockingIInv` adds `ResultKept`: a message in a channel is the outcome
of its closure, or the spawn error of its `exec`. That a handle never finds the sender
gone *without* a message is in `BlockingTypeOK`, which ties the sender to the closure;
its proof uses the pool's own invariant, since a closure that ends was accepted.

`LocalTaskProofs` proves, for any tasks and any owners:

* `TypesHold`, `AbortNeedsRequest`, `JoinTellsTheEnd`, `FutureGoneAtJoin`, `OneMorePoll`:
  `TypeOK`, `AbortedOnlyOnRequest`, `JoinFaithful`, `JoinedAfterDrop` and
  `AbortTakesOnePoll` hold always.

`RequestKept` carries `AbortedOnlyOnRequest` and `AbortTakesOnePoll`: a request is in
the channel until the select is over, also after the handle is gone, and the select
stops watching the channel only if no request can come any more. Without that a
request could arrive unseen, and the poll count would pass one. `ResultKept` relates the result channel to the end of its task, and
`BelongingsGone` says that a task whose future is gone holds no handle, which is more
than `JoinedAfterDrop` says, for the join comes later than the drop.

`NoWakeupLost` is the safety half of `StructuredCancel`: a suspended task that was asked
to abort is in the executor's queue (`NobodySleepsOn`). `WakeInv` makes it inductive: a
suspended task that is not queued has its waker in the abort channel, unless it stopped
watching it, and then it has no handle that could ask. The drop of a future reaches all
tasks whose guards it holds in one step; `HeldIsReachable` is the fact about each.

`JoinSetProofs` proves, for any async and blocking tasks, `TypesHold`,
`AbortNeedsRequest` and `OneMorePoll` (`TypeOK`, `AbortedOnlyOnRequest`,
`AbortTakesOnePoll`). The calls on a set reach many tasks at once, and no task reads
the state of another, so the invariant is `TaskOK(t)` for each task, and the proof of
an action is about one arbitrary task. As above, a request stays in the mail until its
task is over: a full channel, whose `try_send` fails, already holds one.
`NoWakeupLost` is the safety half of `AbortEnds` by the same kind of `WakeInv`, which here
also says who wakes the task of a blocking closure: its waker is with the channel of the
result as long as the closure is in the pool.

`ThreadSleepProofs` proves, for any timeouts, durations and delays of the sleep thread
(from `TimeAssumption`), `SleepThreadAnswers` (`TypeOK`) and `TimeoutNeverEarly`
(`ElapsedTruly`). `RequestsWaiting` says that the queue holds each request once and
those that were sent and not received only, so that a request is not served twice;
`TimerCovers` says that a running timer is due no earlier than the deadline counted
from the *call*, and that an answer in a channel was sent after it. The `expect` of
`Sleep::poll` (`time.rs:258`) does not fail as long as the sleep thread lives, because
the sender of a pending `Timeout` is in the queue or with its relay until the answer is
sent. `LetGoKeeps` states what the two ways to lose a receiver have in common. `NoWakeupLost` is the safety
half of `WaiterResolves`: whoever waits has its waker in the channel and an answer to
come, and what was requested is in the queue or served (`NobodyWaitsInVain`, inductive
together with `IInv`).

`IntervalProofs` proves, for any periods, tolerance, ratio of nanoseconds and range of
the clock (from `IntervalAssumption`):

* `InstantsFit` and `NoEarlyTick`: `TypeOK` holds always, and `TickNotEarly`. The
  invariant needs `SleepCovers`: the inner sleep never completes before the deadline
  it was made for, as `reset_at` replaces both;
* `TicksMoveOn`: `DeadlineAdvances`, if no period is shorter than a microsecond
  (`AtLeastMicro`); finding 3 is the counterexample without that hypothesis;
* `LateTickNotMadeUp` and `TicksOnGrid`: `MissedTickNotMadeUp` and `DeadlineOnGrid`, if
  the periods are whole microseconds (`WholeMicros`), as those of the run are. With
  other periods the remainder and the period are truncated separately, so `Skip` may
  leave the grid and land on the present;
* for all periods, `BurstLosesNone` (the grid of `Burst`) and
  `LateTickLeavesNoneBehind`: what remains of `MissedTickNotMadeUp` is that the next
  deadline is not behind;
* `SkipDriftsLittle`, for all periods: `Skip` leaves out k whole periods in nanoseconds,
  rounded up to the next microsecond. So with periods that are not whole microseconds it
  leaves the grid of the truncated period, on which `Burst` stays, and keeps to the true
  one: the delay is `k * period` plus a remainder, of which only the part below a
  microsecond is lost. These three are stated in `IntervalProofs` and in no run.

The provers know division only by its defining equation, so the module first derives
what it needs of quotients and remainders (`DivMod`, `OneQuotient`, `ModIs`,
`ProductGrows`) and then that a deadline moved on by whole periods stays on the grid
(`GridStep`).

`HasThreadsProofs` proves `OneTrueAnswer`, that `AnswerHolds` holds always, for any
number of callers (from `CallersAssumption`). `TestsKnown` makes it inductive: the
channel of a probe tells what became of its test thread, each caller probes at most
once, and the cell is empty as long as somebody has the permit, so that no second
answer overwrites the first. `EveryCallerRemembered` is the safety half of
`CallersAnswered`: a suspended caller has been woken with something to do, waits for a
test thread that runs, or queues behind a caller that has the permit and can still act
(`NobodyForgotten`). A cancelled caller passes the permit on, which is where this could
fail; `QueueInOrder` says that it passes it to somebody who still waits, and only once.

In each of these modules the last lemma before the theorem `Invariance` splits on the
actions; a lemma per action, and in it a step per part of the invariant, does the work.
TLC has checked each inductive invariant on the instances of the runs.

Only model-checked: the liveness properties, `AcceptedTaskRuns`, `PoolShutsDown`,
`JoinResolves`, `StructuredCancel`, `AbortEnds`, `BlockingTaskEnds`,
`WaiterWoken`, `TimerReleased`, `WaiterResolves`, `ForeignUnwindAborts`,
`CallersAnswered`, and the liveness part of `ImplementsSleep`: leads-to under fairness
is out of the prover's reach, as is `ENABLED`.

The type invariants of `SpawnBlocking`, `LocalTask`, `ThreadBound` and `HasThreads` are
proved as theorems or as parts of an inductive invariant, and in no run. The safety halves
of liveness properties named above (`NobodySleepsOn` in `LocalTask` and in `JoinSet`,
`NobodyWaitsInVain`, `NobodyForgotten`) were checked by TLC on the same instances before
they were proved, and `SkipFollowsPeriod` with eight periods, most of them not whole
microseconds; the runs check the liveness properties instead, which say more on those
instances.

## Not modelled

`native.rs` re-exports Tokio. `IntervalStream`, `HandleExt`, `JoinSetExt` and
`join_set::Builder` forward without state. `block_on` is Tokio's current-thread
runtime and `is_blocking_allowed` asks the browser once; that `block_on` hangs if it
waits for a task of the very thread it blocks is in the list of hazards, without a
property, since it is a property of the caller's program. `JoinError` matters as the
kind of an outcome only, its formatting is left out. What the executor of
`wasm_bindgen_futures` does after a panic that is not caught is not modelled:
on targets that abort on panics the program ends with it.

## Plan

1. *Done:* `ThreadPool` with `BlockingPool`, `SpawnBlocking`, `LocalTask`, `JoinSet` with
   blocking tasks, `JsSleep` with `Sleeping`, `ThreadSleep`, `Interval`, `ThreadBound`,
   `HasThreads`, and the proofs of their safety properties.
   The safety halves of `AcceptedTaskRuns` (`NoLostWakeup`), `WaiterWoken`,
   `StructuredCancel`, `AbortEnds`, `WaiterResolves` and `CallersAnswered` are proved too.
2. The safety half of `JoinResolves`: whoever awaits a `JoinHandle` has left its waker in
   a channel whose sender is still to come.
3. `BlockingPool` as the contract of the pool that `JoinSet` uses (`HandOver`, `RunJob`),
   by a refinement instead of by words.
