----------------------------- MODULE ThreadPool -----------------------------
(***************************************************************************)
(* The worker thread pool of src/src/web/thread_pool.rs.  Every section    *)
(* that holds the mutex of Inner is one action; between two of them other  *)
(* threads interleave.  Parking follows std::thread: unpark leaves a token *)
(* that the next park consumes, and park may also return spuriously.       *)
(***************************************************************************)
EXTENDS Naturals, Sequences, FiniteSets

CONSTANTS
  Tasks,         \* the closures handed to exec, each of them once
  MaxWorkers,    \* max_workers
  SpawnMayFail,  \* may thread::Builder::spawn return an error?
  BlocksOn,      \* BlocksOn[t]: closures whose end t waits for before it returns
  Unwinds,       \* closures whose call may unwind into the worker
  NoTask         \* not a closure

ASSUME MaxWorkersAssumption == MaxWorkers \in Nat \ {0}
ASSUME NoTaskAssumption == NoTask \notin Tasks
ASSUME ClosureAssumption == /\ SpawnMayFail \in BOOLEAN
                            /\ BlocksOn \in [Tasks -> SUBSET Tasks]
                            /\ Unwinds \subseteq Tasks

Worker == 1..MaxWorkers

VARIABLES
  tasks,     \* Inner.tasks
  workers,   \* Inner.workers.len(); worker w is the w-th one that was spawned
  idle,      \* Inner.idle
  exit,      \* Inner.exit
  pc,        \* where each worker is in its loop
  counted,   \* counted[w]: the local variable `idle` of worker()
  running,   \* running[w]: the closure popped by w, or NoTask
  token,     \* token[w]: the park token of w
  execRes,   \* execRes[t]: what exec returned for t
  finished   \* the closures whose call has ended

innerVars == <<tasks, workers, idle, exit>>
vars == <<tasks, workers, idle, exit, pc, counted, running, token, execRes, finished>>

PCs == {"unborn", "scan", "run", "park", "exited", "dead"}

Init ==
  /\ tasks = <<>> /\ workers = 0 /\ idle = 0 /\ exit = FALSE
  /\ pc = [w \in Worker |-> "unborn"]
  /\ counted = [w \in Worker |-> FALSE]
  /\ running = [w \in Worker |-> NoTask]
  /\ token = [w \in Worker |-> FALSE]
  /\ execRes = [t \in Tasks |-> "none"]
  /\ finished = {}

-----------------------------------------------------------------------------
(* exec.  It holds the mutex from its first to its last line, so a worker it *)
(* spawns cannot look at the queue before it is registered.                  *)

UnparkOldest == [w \in Worker |-> token[w] \/ w = 1]
UnparkNobody == token

\* unpark() on every registered worker
UnparkAll == [w \in Worker |-> token[w] \/ w \in 1..workers]

PushedFront(t) == <<t>> \o tasks

\* push_back
Pushed(t) == Append(tasks, t)

NeedsWorkerUnbounded == idle = 0 /\ workers <= MaxWorkers

\* no worker is idle and the pool may still grow
NeedsWorker == idle = 0 /\ workers < MaxWorkers

\* A new worker is spawned; the others are not notified.
SpawnWorker(t) ==
  /\ NeedsWorker
  /\ workers' = workers + 1
  /\ pc' = [pc EXCEPT ![workers + 1] = "scan"]
  /\ execRes' = [execRes EXCEPT ![t] = "ok"]
  /\ UNCHANGED token

\* Spawning fails and `?` returns the error; the closure was pushed before.
SpawnFails(t) ==
  /\ NeedsWorker
  /\ SpawnMayFail
  /\ execRes' = [execRes EXCEPT ![t] = "err"]
  /\ UNCHANGED <<workers, pc, token>>

\* Enough workers exist: all of them are unparked.
UnparkWorkers(t) ==
  /\ ~NeedsWorker
  /\ token' = UnparkAll
  /\ execRes' = [execRes EXCEPT ![t] = "ok"]
  /\ UNCHANGED <<workers, pc>>

Exec(t) ==
  /\ ~exit                      \* exec borrows the pool, which is not dropped yet
  /\ execRes[t] = "none"
  /\ tasks' = Pushed(t)
  /\ SpawnWorker(t) \/ SpawnFails(t) \/ UnparkWorkers(t)
  /\ UNCHANGED <<idle, exit, counted, running, finished>>

\* Drop of the pool
DropPool ==
  /\ ~exit
  /\ exit' = TRUE
  /\ token' = UnparkAll
  /\ UNCHANGED <<tasks, workers, idle, pc, counted, running, execRes, finished>>

-----------------------------------------------------------------------------
(* The loop of worker().                                                     *)

StopIdlingNoReset(w) ==
  /\ idle' = IF counted[w] THEN idle - 1 ELSE idle
  /\ UNCHANGED counted

\* The worker stops being idle, if it was.
StopIdling(w) ==
  /\ idle' = IF counted[w] THEN idle - 1 ELSE idle
  /\ counted' = [counted EXCEPT ![w] = FALSE]

\* The worker is idle from now on, if it was not yet.
StartIdling(w) ==
  /\ idle' = IF counted[w] THEN idle ELSE idle + 1
  /\ counted' = [counted EXCEPT ![w] = TRUE]

PeekedFront == tasks

\* what pop_front leaves in the queue
PoppedFront == Tail(tasks)

TakeTask(w) ==
  /\ pc[w] = "scan"
  /\ tasks # <<>>
  /\ tasks' = PoppedFront
  /\ running' = [running EXCEPT ![w] = Head(tasks)]
  /\ StopIdling(w)
  /\ pc' = [pc EXCEPT ![w] = "run"]
  /\ UNCHANGED <<workers, exit, token, execRes, finished>>

LeaveEarly(w) ==
  /\ pc[w] = "scan"
  /\ exit
  /\ pc' = [pc EXCEPT ![w] = "exited"]
  /\ UNCHANGED <<innerVars, counted, running, token, execRes, finished>>

Leave(w) ==
  /\ pc[w] = "scan"
  /\ tasks = <<>>
  /\ exit
  /\ pc' = [pc EXCEPT ![w] = "exited"]
  /\ UNCHANGED <<innerVars, counted, running, token, execRes, finished>>

\* Nothing to do: count as idle, release the mutex, then park.
GoIdle(w) ==
  /\ pc[w] = "scan"
  /\ tasks = <<>>
  /\ ~exit
  /\ StartIdling(w)
  /\ pc' = [pc EXCEPT ![w] = "park"]
  /\ UNCHANGED <<tasks, workers, exit, running, token, execRes, finished>>

\* The call of the closure ends and the worker goes on at `next`.
EndTask(w, next) ==
  /\ pc[w] = "run"
  /\ BlocksOn[running[w]] \subseteq finished
  /\ finished' = finished \cup {running[w]}
  /\ running' = [running EXCEPT ![w] = NoTask]
  /\ pc' = [pc EXCEPT ![w] = next]
  /\ UNCHANGED <<innerVars, counted, token, execRes>>

TaskReturns(w) == EndTask(w, "scan")

\* The closure unwinds, which ends the thread; the pool keeps its entry.
TaskUnwinds(w) == running[w] \in Unwinds /\ EndTask(w, "dead")

\* park() returns because of a token, which it consumes.
Wake(w) ==
  /\ pc[w] = "park"
  /\ token[w]
  /\ token' = [token EXCEPT ![w] = FALSE]
  /\ pc' = [pc EXCEPT ![w] = "scan"]
  /\ UNCHANGED <<innerVars, counted, running, execRes, finished>>

\* park() returns although nobody called unpark().
WakeSpuriously(w) ==
  /\ pc[w] = "park"
  /\ ~token[w]
  /\ pc' = [pc EXCEPT ![w] = "scan"]
  /\ UNCHANGED <<innerVars, counted, running, token, execRes, finished>>

\* Everything a scheduled worker does without outside help
WorkerStep(w) == TakeTask(w) \/ Leave(w) \/ GoIdle(w) \/ TaskReturns(w) \/ Wake(w)

Next ==
  \/ \E t \in Tasks : Exec(t)
  \/ DropPool
  \/ \E w \in Worker : WorkerStep(w) \/ TaskUnwinds(w) \/ WakeSpuriously(w)

Spec == Init /\ [][Next]_vars

\* The platform schedules every worker thread again and again.
FairSpec == Spec /\ \A w \in Worker : WF_vars(WorkerStep(w))

-----------------------------------------------------------------------------
(* Properties                                                                *)

\* Every variable keeps its type (the state of thread_pool.rs:26-32 and :66-90).
TypeOK ==
  /\ tasks \in Seq(Tasks)
  /\ workers \in 0..MaxWorkers
  /\ idle \in Nat
  /\ exit \in BOOLEAN
  /\ pc \in [Worker -> PCs]
  /\ counted \in [Worker -> BOOLEAN]
  /\ running \in [Worker -> Tasks \cup {NoTask}]
  /\ token \in [Worker -> BOOLEAN]
  /\ execRes \in [Tasks -> {"none", "ok", "err"}]
  /\ finished \in SUBSET Tasks

\* The shared idle counter equals the number of workers that count themselves as
\* idle, through spurious wake-ups and lost races for a task; in particular the
\* unsigned `inner.idle -= 1` (thread_pool.rs:73) never underflows.
IdleCounterExact == idle = Cardinality({w \in Worker : counted[w]})

\* No lost wake-up: while there is something to do, every worker that is parked,
\* or has released the mutex and is about to park (thread_pool.rs:87-88), holds a
\* token that makes park() return.
NoLostWakeup ==
  (tasks # <<>> \/ exit) => \A w \in Worker : pc[w] = "park" => token[w]

Serving(w) == pc[w] \in {"scan", "run"} \/ (pc[w] = "park" /\ token[w])

\* All workers that were started have been ended by unwinding closures.
AllDead == workers > 0 /\ \A w \in 1..workers : pc[w] = "dead"

\* A queued closure whose exec returned Ok is never left without a worker that
\* will look at the queue again, unless unwinding closures ended all of them:
\* whichever path exec takes (thread_pool.rs:48-60), and also after Drop.
AcceptedTaskServed ==
  (\E i \in 1..Len(tasks) : execRes[tasks[i]] = "ok")
     => \/ \E w \in Worker : Serving(w)
        \/ AllDead

\* A closure is in one place only: it is queued once, or running on one worker, or
\* finished; no interleaving of workers makes the pool run it twice.
TaskInOnePlace ==
  /\ \A i, j \in 1..Len(tasks) : tasks[i] = tasks[j] => i = j
  /\ \A v, w \in Worker : running[v] = running[w] /\ running[v] # NoTask => v = w
  /\ \A i \in 1..Len(tasks) : tasks[i] \notin finished
  /\ \A w \in Worker : /\ running[w] \notin finished
                       /\ \A i \in 1..Len(tasks) : running[w] # tasks[i]

\* The facts about single workers and closures that make the invariants above
\* inductive.
WorkerConsistent ==
  /\ \A w \in Worker : pc[w] = "unborn" <=> w > workers
  /\ \A w \in Worker : pc[w] = "park" => counted[w]
  /\ \A w \in Worker : counted[w] => pc[w] \in {"scan", "park", "exited"}
  /\ \A w \in Worker : pc[w] = "run" <=> running[w] # NoTask
  /\ \A w \in Worker : pc[w] = "exited" => exit /\ tasks = <<>>

TaskConsistent ==
  /\ \A i \in 1..Len(tasks) : execRes[tasks[i]] # "none"
  /\ \A w \in Worker : running[w] # NoTask => execRes[running[w]] # "none"
  /\ \A t \in finished : execRes[t] # "none"
  /\ (\E t \in Tasks : execRes[t] = "ok") => workers > 0

IInv == /\ TypeOK /\ WorkerConsistent /\ IdleCounterExact /\ NoLostWakeup
        /\ TaskConsistent /\ TaskInOnePlace

\* Every closure for which exec returned Ok is run to its end, once the closures
\* it waits for were accepted too, unless no worker survives (task.rs:201, "Runs
\* the provided function on a thread pool dedicated to blocking operations").
AcceptedTaskRuns ==
  \A t \in Tasks :
    (\A u \in {t} \cup BlocksOn[t] : execRes[u] = "ok") ~> (t \in finished \/ AllDead)

\* After Drop every surviving worker leaves its loop (thread_pool.rs:80, :98-102),
\* and if there is one, only after the queue has been drained.
PoolShutsDown ==
  exit ~> \/ AllDead
          \/ /\ \A w \in 1..workers : pc[w] \in {"exited", "dead"}
             /\ workers > 0 => tasks = <<>>

\* The pool implements the abstract pool with one slot per worker; a queued
\* closure starts in submission order and no more than MaxWorkers run at once.
Abstract == INSTANCE BlockingPool WITH
  Size <- MaxWorkers, queue <- tasks, slot <- running, done <- finished

ImplementsPool == Abstract!Spec
=============================================================================
