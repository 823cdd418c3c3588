-------------------------- MODULE ThreadPoolProofs --------------------------
(***************************************************************************)
(* Theorems about ThreadPool, for every set of closures and every maximum  *)
(* number of workers, and about SpawnBlocking, which runs inside it: each  *)
(* of its steps is a step of the pool or leaves the pool alone, so what is *)
(* proved of the pool carries over.                                        *)
(***************************************************************************)
EXTENDS SpawnBlocking, FiniteSetTheorems, SequenceTheorems, TLAPS

\* The workers that count themselves as idle
Idlers == {w \in Worker : counted[w]}

LEMMA IdlersFinite ==
  IsFiniteSet(Idlers) /\ Cardinality(Idlers) \in Nat
<1>1. IsFiniteSet(Worker)
  BY FS_Interval, MaxWorkersAssumption DEF Worker
<1>2. Idlers \subseteq Worker
  BY DEF Idlers
<1>3. QED
  BY <1>1, <1>2, FS_Subset, FS_CardinalityType

\* When the counter is zero no worker is parked, so exec may skip unpark().
LEMMA NoIdlerAtZero ==
  ASSUME IdleCounterExact, idle = 0
  PROVE  \A w \in Worker : ~counted[w]
<1>1. Cardinality(Idlers) = 0
  BY DEF IdleCounterExact, Idlers
<1>2. Idlers = {}
  BY <1>1, IdlersFinite, FS_EmptySet
<1>3. QED
  BY <1>2 DEF Idlers

\* When the counter is not zero there is a worker to unpark.
LEMMA IdlerAboveZero ==
  ASSUME IdleCounterExact, idle # 0
  PROVE  \E w \in Worker : counted[w]
<1>1. Idlers # {}
  BY IdlersFinite, FS_EmptySet DEF IdleCounterExact, Idlers
<1>2. QED
  BY <1>1 DEF Idlers

\* Leaving and joining the idlers keeps the counter exact.
LEMMA StopIdlingExact ==
  ASSUME NEW w \in Worker, TypeOK, IdleCounterExact, StopIdling(w)
  PROVE  /\ IdleCounterExact'
         /\ idle' \in Nat
         /\ counted' \in [Worker -> BOOLEAN]
<1> USE DEF StopIdling, TypeOK
<1>1. Idlers' = Idlers \ {w}
  BY DEF Idlers
<1>2. Cardinality(Idlers') = IF w \in Idlers THEN Cardinality(Idlers) - 1
                                             ELSE Cardinality(Idlers)
  BY <1>1, IdlersFinite, FS_RemoveElement
<1>3. w \in Idlers <=> counted[w]
  BY DEF Idlers
<1>4. idle = Cardinality(Idlers)
  BY DEF IdleCounterExact, Idlers
<1>5. idle' = Cardinality(Idlers')
  BY <1>2, <1>3, <1>4
<1>6. counted[w] => idle # 0
  BY <1>3, <1>4, IdlersFinite, FS_EmptySet
<1>7. IdleCounterExact'
  BY <1>5 DEF IdleCounterExact, Idlers
<1>8. QED
  BY <1>6, <1>7

LEMMA StartIdlingExact ==
  ASSUME NEW w \in Worker, TypeOK, IdleCounterExact, StartIdling(w)
  PROVE  /\ IdleCounterExact'
         /\ idle' \in Nat
         /\ counted' \in [Worker -> BOOLEAN]
<1> USE DEF StartIdling, TypeOK
<1>1. Idlers' = Idlers \cup {w}
  BY DEF Idlers
<1>2. Cardinality(Idlers') = IF w \in Idlers THEN Cardinality(Idlers)
                                             ELSE Cardinality(Idlers) + 1
  BY <1>1, IdlersFinite, FS_AddElement
<1>3. w \in Idlers <=> counted[w]
  BY DEF Idlers
<1>4. idle = Cardinality(Idlers)
  BY DEF IdleCounterExact, Idlers
<1>5. idle' = Cardinality(Idlers')
  BY <1>2, <1>3, <1>4
<1>6. IdleCounterExact'
  BY <1>5 DEF IdleCounterExact, Idlers
<1>7. QED
  BY <1>6

-----------------------------------------------------------------------------
(* IInv is inductive.                                                        *)

LEMMA InitIInv == Init => IInv
<1> SUFFICES ASSUME Init PROVE IInv
  OBVIOUS
<1> USE DEF Init
<1>1. TypeOK
  <2>1. tasks \in Seq(Tasks)
    BY EmptySeq
  <2>2. workers \in 0..MaxWorkers /\ idle \in Nat
    BY MaxWorkersAssumption
  <2>3. QED
    BY <2>1, <2>2 DEF TypeOK, PCs
<1>2. IdleCounterExact
  <2>1. {w \in Worker : counted[w]} = {}
    OBVIOUS
  <2>2. QED
    BY <2>1, FS_EmptySet DEF IdleCounterExact
<1>3. WorkerConsistent
  BY MaxWorkersAssumption DEF WorkerConsistent, Worker
<1>4. NoLostWakeup /\ TaskConsistent /\ TaskInOnePlace
  BY NoTaskAssumption DEF NoLostWakeup, TaskConsistent, TaskInOnePlace
<1>5. QED
  BY <1>1, <1>2, <1>3, <1>4 DEF IInv

\* exec never makes the queue hold a closure twice: t is new.
LEMMA PushKeepsOnePlace ==
  ASSUME TypeOK, TaskConsistent, TaskInOnePlace, NEW t \in Tasks,
         execRes[t] = "none", tasks' = Append(tasks, t), UNCHANGED <<running, finished>>
  PROVE  /\ tasks' \in Seq(Tasks)
         /\ Len(tasks') = Len(tasks) + 1
         /\ \A i \in 1..Len(tasks) : tasks'[i] = tasks[i]
         /\ tasks'[Len(tasks) + 1] = t
         /\ TaskInOnePlace'
<1> USE DEF TypeOK
<1>1. /\ tasks' \in Seq(Tasks)
      /\ Len(tasks') = Len(tasks) + 1
      /\ \A i \in 1..Len(tasks) : tasks'[i] = tasks[i]
      /\ tasks'[Len(tasks) + 1] = t
  BY AppendProperties
<1>2. Len(tasks) \in Nat
  BY LenProperties
<1>3. /\ \A i \in 1..Len(tasks) : tasks[i] # t
      /\ \A w \in Worker : running[w] # t
      /\ t \notin finished
  BY NoTaskAssumption DEF TaskConsistent
<1>4. \A i \in 1..Len(tasks') : i \in 1..Len(tasks) \/ i = Len(tasks) + 1
  BY <1>1, <1>2
<1>5. TaskInOnePlace'
  <2>1. \A i, j \in 1..Len(tasks') : tasks'[i] = tasks'[j] => i = j
    BY <1>1, <1>3, <1>4 DEF TaskInOnePlace
  <2>2. \A i \in 1..Len(tasks') : tasks'[i] \notin finished'
    BY <1>1, <1>3, <1>4 DEF TaskInOnePlace
  <2>3. \A w \in Worker : /\ running'[w] \notin finished'
                          /\ \A i \in 1..Len(tasks') : running'[w] # tasks'[i]
    BY <1>1, <1>3, <1>4 DEF TaskInOnePlace
  <2>4. QED
    BY <2>1, <2>2, <2>3 DEF TaskInOnePlace
<1>6. QED
  BY <1>1, <1>5

LEMMA ExecStep ==
  ASSUME IInv, NEW t \in Tasks, Exec(t)
  PROVE  IInv'
<1> USE DEF IInv, TypeOK
<1>1. /\ tasks' \in Seq(Tasks)
      /\ Len(tasks') = Len(tasks) + 1
      /\ \A i \in 1..Len(tasks) : tasks'[i] = tasks[i]
      /\ tasks'[Len(tasks) + 1] = t
      /\ TaskInOnePlace'
  BY PushKeepsOnePlace DEF Exec, Pushed
<1>2. Len(tasks) \in Nat
  BY LenProperties
<1>3. \A i \in 1..Len(tasks') : i \in 1..Len(tasks) \/ i = Len(tasks) + 1
  BY <1>1, <1>2
<1>4. IdleCounterExact'
  BY DEF Exec, IdleCounterExact
<1>5. CASE SpawnWorker(t)
  <2> USE <1>5 DEF SpawnWorker
  <2>1. workers + 1 \in Worker /\ workers' \in 0..MaxWorkers
    BY MaxWorkersAssumption DEF NeedsWorker, Worker
  <2>2. pc' \in [Worker -> PCs] /\ execRes' \in [Tasks -> {"none", "ok", "err"}]
    BY DEF PCs
  <2>3. TypeOK'
    BY <1>1, <2>1, <2>2 DEF Exec
  <2>4. pc[workers + 1] = "unborn"
    BY <2>1 DEF WorkerConsistent
  <2>5. WorkerConsistent'
    BY <2>1, <2>4 DEF WorkerConsistent, Exec, Worker
  <2>6. NoLostWakeup'
    BY NoIdlerAtZero, <2>4 DEF NoLostWakeup, WorkerConsistent, Exec, NeedsWorker
  <2>7. TaskConsistent'
    BY <1>1, <1>3 DEF TaskConsistent, Exec
  <2>8. QED
    BY <1>1, <1>4, <2>3, <2>5, <2>6, <2>7
<1>6. CASE SpawnFails(t)
  <2> USE <1>6 DEF SpawnFails
  <2>1. TypeOK'
    BY <1>1 DEF Exec
  <2>2. WorkerConsistent'
    BY DEF WorkerConsistent, Exec
  <2>3. NoLostWakeup'
    BY NoIdlerAtZero DEF NoLostWakeup, WorkerConsistent, Exec, NeedsWorker
  <2>4. TaskConsistent'
    BY <1>1, <1>3 DEF TaskConsistent, Exec
  <2>5. QED
    BY <1>1, <1>4, <2>1, <2>2, <2>3, <2>4
<1>7. CASE UnparkWorkers(t)
  <2> USE <1>7 DEF UnparkWorkers
  <2>1. TypeOK'
    BY <1>1 DEF Exec, UnparkAll
  <2>2. WorkerConsistent'
    BY DEF WorkerConsistent, Exec
  <2>3. NoLostWakeup'
    BY DEF NoLostWakeup, WorkerConsistent, Exec, UnparkAll, Worker
  <2>4. workers > 0
    BY IdlerAboveZero, MaxWorkersAssumption DEF NeedsWorker, WorkerConsistent, Worker
  <2>5. TaskConsistent'
    BY <1>1, <1>3, <2>4 DEF TaskConsistent, Exec
  <2>6. QED
    BY <1>1, <1>4, <2>1, <2>2, <2>3, <2>5
<1>8. QED
  BY <1>5, <1>6, <1>7 DEF Exec

LEMMA DropPoolStep ==
  ASSUME IInv, DropPool
  PROVE  IInv'
<1> USE DEF IInv, TypeOK, DropPool
<1>1. TypeOK'
  BY DEF UnparkAll
<1>2. WorkerConsistent' /\ TaskConsistent' /\ TaskInOnePlace' /\ IdleCounterExact'
  BY DEF WorkerConsistent, TaskConsistent, TaskInOnePlace, IdleCounterExact
<1>3. NoLostWakeup'
  BY DEF NoLostWakeup, WorkerConsistent, UnparkAll, Worker
<1>4. QED
  BY <1>1, <1>2, <1>3

LEMMA TakeTaskStep ==
  ASSUME IInv, NEW w \in Worker, TakeTask(w)
  PROVE  IInv'
<1> USE DEF IInv, TypeOK, TakeTask, PoppedFront
<1>1. /\ Head(tasks) \in Tasks
      /\ tasks' \in Seq(Tasks)
      /\ Len(tasks') = Len(tasks) - 1
      /\ \A i \in 1..Len(tasks') : tasks'[i] = tasks[i + 1]
  BY HeadTailProperties
<1>2. Len(tasks) \in Nat \ {0} /\ Head(tasks) = tasks[1]
  BY EmptySeq, LenProperties
<1>3. IdleCounterExact' /\ idle' \in Nat /\ counted' \in [Worker -> BOOLEAN]
  BY StopIdlingExact
<1>4. TypeOK'
  BY <1>1, <1>3 DEF PCs
<1>5. WorkerConsistent'
  BY <1>1, NoTaskAssumption DEF WorkerConsistent, StopIdling
<1>6. NoLostWakeup'
  BY DEF NoLostWakeup
<1>7. TaskConsistent'
  <2>1. \A i \in 1..Len(tasks') : execRes'[tasks'[i]] # "none"
    BY <1>1, <1>2 DEF TaskConsistent
  <2>2. execRes[Head(tasks)] # "none"
    BY <1>2 DEF TaskConsistent
  <2>3. QED
    BY <2>1, <2>2 DEF TaskConsistent
<1>8. TaskInOnePlace'
  <2>1. /\ \A i \in 1..Len(tasks') : i + 1 \in 1..Len(tasks) /\ i + 1 # 1
        /\ 1 \in 1..Len(tasks)
    BY <1>1, <1>2
  <2>2. \A i, j \in 1..Len(tasks') : tasks'[i] = tasks'[j] => i = j
    BY <1>1, <2>1 DEF TaskInOnePlace
  <2>3. \A i \in 1..Len(tasks') : tasks'[i] \notin finished'
    BY <1>1, <2>1 DEF TaskInOnePlace
  <2>4. \A v \in Worker \ {w} : running'[v] = running[v]
    OBVIOUS
  <2>5. running'[w] = tasks[1]
    BY <1>2
  <2>6. \A u, v \in Worker : running'[u] = running'[v] /\ running'[u] # NoTask => u = v
    BY <2>1, <2>4, <2>5 DEF TaskInOnePlace
  <2>7. \A v \in Worker : /\ running'[v] \notin finished'
                          /\ \A i \in 1..Len(tasks') : running'[v] # tasks'[i]
    BY <1>1, <2>1, <2>4, <2>5 DEF TaskInOnePlace
  <2>8. QED
    BY <2>2, <2>3, <2>6, <2>7 DEF TaskInOnePlace
<1>9. QED
  BY <1>3, <1>4, <1>5, <1>6, <1>7, <1>8

LEMMA LeaveStep ==
  ASSUME IInv, NEW w \in Worker, Leave(w)
  PROVE  IInv'
<1> USE DEF IInv, TypeOK, Leave, innerVars
<1>1. TypeOK'
  BY DEF PCs
<1>2. IdleCounterExact' /\ TaskConsistent' /\ TaskInOnePlace'
  BY DEF IdleCounterExact, TaskConsistent, TaskInOnePlace
<1>3. WorkerConsistent'
  BY DEF WorkerConsistent
<1>4. NoLostWakeup'
  BY DEF NoLostWakeup
<1>5. QED
  BY <1>1, <1>2, <1>3, <1>4

LEMMA GoIdleStep ==
  ASSUME IInv, NEW w \in Worker, GoIdle(w)
  PROVE  IInv'
<1> USE DEF IInv, TypeOK, GoIdle
<1>1. IdleCounterExact' /\ idle' \in Nat /\ counted' \in [Worker -> BOOLEAN]
  BY StartIdlingExact
<1>2. TypeOK'
  BY <1>1 DEF PCs
<1>3. WorkerConsistent'
  BY DEF WorkerConsistent, StartIdling
<1>4. NoLostWakeup' /\ TaskConsistent' /\ TaskInOnePlace'
  BY DEF NoLostWakeup, TaskConsistent, TaskInOnePlace
<1>5. QED
  BY <1>1, <1>2, <1>3, <1>4

LEMMA EndTaskStep ==
  ASSUME IInv, NEW w \in Worker, NEW next \in {"scan", "dead"}, EndTask(w, next)
  PROVE  IInv'
<1> USE DEF IInv, TypeOK, EndTask, innerVars
<1>1. running[w] \in Tasks /\ running[w] # NoTask
  BY DEF WorkerConsistent
<1>2. \A v \in Worker \ {w} : running'[v] = running[v]
  OBVIOUS
<1>3. running'[w] = NoTask
  OBVIOUS
<1>4. TypeOK'
  BY <1>1 DEF PCs
<1>5. IdleCounterExact' /\ NoLostWakeup'
  BY DEF IdleCounterExact, NoLostWakeup
<1>6. WorkerConsistent'
  BY <1>2, <1>3 DEF WorkerConsistent
<1>7. TaskConsistent'
  BY <1>1, <1>2, <1>3 DEF TaskConsistent
<1>8. TaskInOnePlace'
  <2>1. \A i \in 1..Len(tasks) : tasks[i] \notin finished'
    BY <1>1 DEF TaskInOnePlace
  <2>2. \A u, v \in Worker : running'[u] = running'[v] /\ running'[u] # NoTask => u = v
    BY <1>2, <1>3 DEF TaskInOnePlace
  <2>3. \A v \in Worker \ {w} : running'[v] # running[w]
    BY <1>1, <1>2 DEF TaskInOnePlace
  <2>4. \A v \in Worker \ {w} : running'[v] \notin finished'
    BY <1>2, <2>3 DEF TaskInOnePlace
  <2>5. NoTask \notin finished'
    BY <1>1, NoTaskAssumption
  <2>6. \A i \in 1..Len(tasks) : tasks[i] \in Tasks
    OBVIOUS
  <2>7. \A v \in Worker, i \in 1..Len(tasks) : running'[v] # tasks[i]
    BY <1>2, <1>3, <2>6, NoTaskAssumption DEF TaskInOnePlace
  <2>8. QED
    BY <1>3, <2>1, <2>2, <2>4, <2>5, <2>7 DEF TaskInOnePlace
<1>9. QED
  BY <1>4, <1>5, <1>6, <1>7, <1>8

\* Returning from park(), for whatever reason.
LEMMA WakeStep ==
  ASSUME IInv, NEW w \in Worker, Wake(w) \/ WakeSpuriously(w)
  PROVE  IInv'
<1> USE DEF IInv, TypeOK, Wake, WakeSpuriously, innerVars
<1>1. TypeOK'
  BY DEF PCs
<1>2. UNCHANGED <<innerVars, counted, running, execRes, finished>>
  OBVIOUS
<1>3. IdleCounterExact' /\ TaskConsistent' /\ TaskInOnePlace'
  BY <1>2 DEF IdleCounterExact, TaskConsistent, TaskInOnePlace
<1>4. WorkerConsistent'
  BY DEF WorkerConsistent
<1>5. NoLostWakeup'
  BY DEF NoLostWakeup
<1>6. QED
  BY <1>1, <1>3, <1>4, <1>5

LEMMA NextIInv == IInv /\ [Next]_vars => IInv'
<1> SUFFICES ASSUME IInv, [Next]_vars PROVE IInv'
  OBVIOUS
<1>1. CASE \E t \in Tasks : Exec(t)
  BY <1>1, ExecStep
<1>2. CASE DropPool
  BY <1>2, DropPoolStep
<1>3. ASSUME NEW w \in Worker, WorkerStep(w) PROVE IInv'
  <2>1. CASE TakeTask(w)
    BY <2>1, TakeTaskStep
  <2>2. CASE Leave(w)
    BY <2>2, LeaveStep
  <2>3. CASE GoIdle(w)
    BY <2>3, GoIdleStep
  <2>4. CASE TaskReturns(w)
    BY <2>4, EndTaskStep DEF TaskReturns
  <2>5. CASE Wake(w)
    BY <2>5, WakeStep
  <2>6. QED
    BY <1>3, <2>1, <2>2, <2>3, <2>4, <2>5 DEF WorkerStep
<1>4. ASSUME NEW w \in Worker, TaskUnwinds(w) PROVE IInv'
  BY <1>4, EndTaskStep DEF TaskUnwinds
<1>5. ASSUME NEW w \in Worker, WakeSpuriously(w) PROVE IInv'
  BY <1>5, WakeStep
<1>6. CASE UNCHANGED vars
  BY <1>6 DEF vars, IInv, TypeOK, WorkerConsistent, IdleCounterExact, NoLostWakeup,
              TaskConsistent, TaskInOnePlace
<1>7. QED
  BY <1>1, <1>2, <1>3, <1>4, <1>5, <1>6 DEF Next

LEMMA Invariance == Spec => []IInv
<1>1. QED
  BY InitIInv, NextIInv, PTL DEF Spec

-----------------------------------------------------------------------------
(* What follows from IInv.                                                   *)

\* The state of the pool keeps its type, whatever closures are submitted.
THEOREM TypeCorrect == Spec => []TypeOK
<1>1. IInv => TypeOK
  BY DEF IInv
<1>2. QED
  BY <1>1, Invariance, PTL

\* `idle` is exactly the number of workers that count as idle: `inner.idle -= 1`
\* (thread_pool.rs:73) never underflows, and exec never believes in an idle
\* worker when there is none.
THEOREM IdleCounterCorrect == Spec => []IdleCounterExact
<1>1. IInv => IdleCounterExact
  BY DEF IInv
<1>2. QED
  BY <1>1, Invariance, PTL

\* No wake-up is lost: exec notifies or spawns (thread_pool.rs:48-60) before it
\* releases the mutex, so no worker sleeps while a closure is queued.
THEOREM WakeupsArrive == Spec => []NoLostWakeup
<1>1. IInv => NoLostWakeup
  BY DEF IInv
<1>2. QED
  BY <1>1, Invariance, PTL

\* A closure accepted by exec always has a worker that will look at the queue,
\* unless all of them were ended by unwinding closures.
THEOREM AcceptedTaskIsServed == Spec => []AcceptedTaskServed
<1>1. IInv => AcceptedTaskServed
  <2> SUFFICES ASSUME IInv,
                      NEW i \in 1..Len(tasks), execRes[tasks[i]] = "ok",
                      ~ \E w \in Worker : Serving(w)
               PROVE  workers > 0 /\ \A w \in 1..workers : pc[w] = "dead"
    BY DEF AcceptedTaskServed, AllDead
  <2> USE DEF IInv, TypeOK
  <2>1. workers > 0
    BY DEF TaskConsistent
  <2>2. tasks # <<>>
    BY EmptySeq
  <2>3. ASSUME NEW w \in 1..workers PROVE pc[w] = "dead"
    <3>1. w \in Worker /\ ~(w > workers)
      BY MaxWorkersAssumption DEF Worker
    <3>2. pc[w] \in PCs
      BY <3>1
    <3>3. pc[w] # "unborn" /\ pc[w] # "exited"
      BY <2>2, <3>1 DEF WorkerConsistent
    <3>4. pc[w] # "scan" /\ pc[w] # "run" /\ pc[w] # "park"
      BY <2>2, <3>1 DEF Serving, NoLostWakeup
    <3>5. QED
      BY <3>2, <3>3, <3>4 DEF PCs
  <2>4. QED
    BY <2>1, <2>3
<1>2. QED
  BY <1>1, Invariance, PTL

\* No closure is run twice, whatever workers race for the queue.
THEOREM TaskRunsOnce == Spec => []TaskInOnePlace
<1>1. IInv => TaskInOnePlace
  BY DEF IInv
<1>2. QED
  BY <1>1, Invariance, PTL

-----------------------------------------------------------------------------
(* The pool implements BlockingPool.                                         *)

LEMMA ExecIsSubmit ==
  ASSUME IInv, NEW t \in Tasks, Exec(t)
  PROVE  Abstract!Submit(t)
<1> USE DEF IInv, TypeOK, Exec
<1>1. /\ \A i \in 1..Len(tasks) : tasks[i] # t
      /\ \A w \in 1..MaxWorkers : running[w] # t
      /\ t \notin finished
  BY NoTaskAssumption DEF TaskConsistent, Worker
<1>2. t \notin Abstract!Known
  BY <1>1 DEF Abstract!Known
<1>3. UNCHANGED <<running, finished>>
  OBVIOUS
<1>4. QED
  BY <1>2, <1>3 DEF Abstract!Submit, Pushed

LEMMA TakeTaskIsStart ==
  ASSUME IInv, NEW w \in Worker, TakeTask(w)
  PROVE  Abstract!Start(w)
BY DEF IInv, WorkerConsistent, TakeTask, PoppedFront, Abstract!Start

LEMMA EndTaskIsFinish ==
  ASSUME IInv, NEW w \in Worker, NEW next \in {"scan", "dead"}, EndTask(w, next)
  PROVE  Abstract!Finish(w)
BY DEF IInv, WorkerConsistent, EndTask, innerVars, Abstract!Finish

LEMMA StepImplementsPool ==
  ASSUME IInv, [Next]_vars
  PROVE  [Abstract!Next]_<<tasks, running, finished>>
<1> USE DEF Worker
<1>1. CASE \E t \in Tasks : Exec(t)
  BY <1>1, ExecIsSubmit DEF Abstract!Next
<1>2. CASE DropPool
  BY <1>2 DEF DropPool
<1>3. ASSUME NEW w \in Worker, TakeTask(w)
      PROVE  Abstract!Next
  BY <1>3, TakeTaskIsStart DEF Abstract!Next
<1>4. ASSUME NEW w \in Worker, TaskReturns(w) \/ TaskUnwinds(w)
      PROVE  Abstract!Next
  BY <1>4, EndTaskIsFinish DEF Abstract!Next, TaskReturns, TaskUnwinds
<1>5. ASSUME NEW w \in Worker,
             Leave(w) \/ GoIdle(w) \/ Wake(w) \/ WakeSpuriously(w)
      PROVE  UNCHANGED <<tasks, running, finished>>
  BY <1>5 DEF Leave, GoIdle, Wake, WakeSpuriously, innerVars
<1>6. CASE UNCHANGED vars
  BY <1>6 DEF vars
<1>7. QED
  BY <1>1, <1>2, <1>3, <1>4, <1>5, <1>6 DEF Next, WorkerStep

\* The pool behaves like the abstract one: closures start in the order of exec, at
\* most MaxWorkers of them run at once, and each of them is run once.
THEOREM PoolRefinement == Spec => ImplementsPool
<1>1. Init => Abstract!Init
  BY DEF Init, Abstract!Init, Worker
<1>2. IInv /\ [Next]_vars => [Abstract!Next]_Abstract!poolVars
  BY StepImplementsPool DEF Abstract!poolVars
<1>3. QED
  BY <1>1, <1>2, Invariance, PTL DEF Spec, ImplementsPool, Abstract!Spec

-----------------------------------------------------------------------------
(* SpawnBlocking: the pool inside it                                         *)

LEMMA StepOfPool == [BlockingNext]_blockingVars => [Next]_vars
<1> SUFFICES ASSUME [BlockingNext]_blockingVars PROVE [Next]_vars
  OBVIOUS
<1>1. ASSUME NEW t \in Tasks, Spawn(t) PROVE Next
  BY <1>1 DEF Spawn, Next
<1>2. ASSUME NEW t \in Tasks, Await(t) \/ Repoll(t) \/ DropHandle(t) PROVE UNCHANGED vars
  BY <1>2 DEF Await, Repoll, Poll, DropHandle, vars
<1>3. ASSUME NEW w \in Worker, Idling(w) \/ Disturbed(w) PROVE Next
  BY <1>3 DEF Idling, Disturbed, Next, WorkerStep
<1>4. ASSUME NEW w \in Worker, NEW end, Complete(w, end) \/ CompleteUnwinding(w, end) PROVE Next
  BY <1>4 DEF Complete, CompleteUnwinding, Next, WorkerStep
<1>5. CASE UNCHANGED blockingVars
  BY <1>5 DEF blockingVars, vars
<1>6. QED
  BY <1>1, <1>2, <1>3, <1>4, <1>5 DEF BlockingNext, BlockingWorkerStep

\* spawn_blocking and its handles use the pool as a pool may be used, so everything
\* proved of ThreadPool holds in the composition: no wake-up of a worker is lost,
\* and each closure is run once (runtime.rs:83-96).
THEOREM PoolInside == BlockingSpec => Spec
<1>1. BlockingInit => Init
  BY DEF BlockingInit
<1>2. QED
  BY <1>1, StepOfPool, PTL DEF BlockingSpec, Spec

-----------------------------------------------------------------------------
(* The channels                                                              *)

Channel == [tx : BOOLEAN, rx : BOOLEAN, waker : BOOLEAN,
            val : Ends \cup {"none", "spawn"}]

LEMMA SendCall ==
  ASSUME NEW ch \in Channel, NEW v \in Ends
  PROVE  /\ Ch!Send(ch, v) \in Channel
         /\ Ch!Send(ch, v).tx = FALSE
         /\ Ch!Send(ch, v).rx = ch.rx
         /\ Ch!Send(ch, v).val = IF ch.rx THEN v ELSE "none"
BY DEF Channel, Ch!Send

LEMMA ReceiverCalls ==
  ASSUME NEW ch \in Channel
  PROVE  /\ Ch!DropReceiver(ch) \in Channel
         /\ Ch!DropReceiver(ch).rx = FALSE
         /\ Ch!Registered(ch) \in Channel
         /\ Ch!Registered(ch).tx = ch.tx
         /\ Ch!Registered(ch).rx = ch.rx
         /\ Ch!Registered(ch).val = ch.val
BY DEF Channel, Ch!DropReceiver, Ch!Registered

LEMMA NewChannels ==
  /\ {Ch!Closed, Ch!Fresh, SpawnError} \subseteq Channel
  /\ Ch!Closed.rx = FALSE
  /\ Ch!Fresh.rx = TRUE /\ Ch!Fresh.tx = TRUE /\ Ch!Fresh.val = "none"
  /\ SpawnError.rx = TRUE /\ SpawnError.tx = FALSE /\ SpawnError.val = "spawn"
<1>1. /\ Ch!Closed \in Channel /\ Ch!Closed.rx = FALSE
      /\ Ch!Fresh \in Channel /\ Ch!Fresh.rx = TRUE /\ Ch!Fresh.tx = TRUE /\ Ch!Fresh.val = "none"
  BY DEF Channel, Ch!Closed, Ch!Fresh
<1>2. /\ SpawnError \in Channel
      /\ SpawnError.rx = TRUE /\ SpawnError.tx = FALSE /\ SpawnError.val = "spawn"
  BY <1>1 DEF Channel, Ch!Send, SpawnError
<1>3. QED
  BY <1>1, <1>2

-----------------------------------------------------------------------------
(* The invariant of the composition                                          *)

LEMMA InitBlockingIInv == BlockingInit => BlockingIInv
<1> SUFFICES ASSUME BlockingInit PROVE BlockingIInv
  OBVIOUS
<1>1. TypeOK
  BY InitIInv DEF BlockingInit, IInv
<1>2. /\ chan = [t \in Tasks |-> Ch!Closed]
      /\ outcome = [t \in Tasks |-> "none"] /\ handle = [t \in Tasks |-> "none"]
      /\ joined = [t \in Tasks |-> "none"]
      /\ execRes = [t \in Tasks |-> "none"] /\ finished = {}
  BY DEF BlockingInit, Init
<1>3. BlockingTypeOK
  BY <1>1, <1>2, NewChannels DEF BlockingTypeOK, Ends, Channel
<1>4. ResultKept /\ JoinFaithful
  BY <1>2, NewChannels DEF ResultKept, JoinFaithful, Ends
<1>5. QED
  BY <1>3, <1>4 DEF BlockingIInv

\* A new handle belongs to a closure that the pool has not seen before.
LEMMA SpawnKeeps ==
  ASSUME IInv, IInv', BlockingIInv, NEW t \in Tasks, Spawn(t)
  PROVE  BlockingIInv'
<1>1. /\ execRes[t] = "none"
      /\ \E res \in {"ok", "err"} : execRes' = [execRes EXCEPT ![t] = res]
      /\ UNCHANGED finished
  BY DEF Spawn, Exec, SpawnWorker, SpawnFails, UnparkWorkers
<1>2. PICK res \in {"ok", "err"} : execRes' = [execRes EXCEPT ![t] = res]
  BY <1>1
<1>3. t \notin finished /\ outcome[t] = "none"
  BY <1>1 DEF IInv, TaskConsistent, BlockingIInv, ResultKept, TypeOK
<1>4. /\ execRes \in [Tasks -> {"none", "ok", "err"}] /\ execRes'[t] = res
      /\ chan \in [Tasks -> Channel]
  BY <1>2 DEF IInv, TypeOK, BlockingIInv, BlockingTypeOK, Channel
<1>5. /\ chan' = [chan EXCEPT ![t] = IF res = "err" THEN SpawnError ELSE Ch!Fresh]
      /\ handle' = [handle EXCEPT ![t] = "held"]
      /\ UNCHANGED <<outcome, joined>>
  BY <1>4 DEF Spawn
<1>6. BlockingTypeOK'
  BY <1>2, <1>3, <1>4, <1>5, NewChannels DEF BlockingIInv, BlockingTypeOK, Channel, IInv
<1>7. ResultKept'
  BY <1>1, <1>2, <1>3, <1>4, <1>5, NewChannels DEF BlockingIInv, BlockingTypeOK, ResultKept
<1>8. JoinFaithful'
  BY <1>1, <1>2, <1>4, <1>5 DEF BlockingIInv, BlockingTypeOK, JoinFaithful, Ends
<1>9. QED
  BY <1>6, <1>7, <1>8 DEF BlockingIInv

\* A closure that ends was running, so it had not ended before.
LEMMA CompleteKeeps ==
  ASSUME IInv, IInv', BlockingIInv, NEW w \in Worker, NEW end \in Ends,
         Complete(w, end) \/ CompleteUnwinding(w, end)
  PROVE  BlockingIInv'
<1> DEFINE t == running[w]
<1>1. \E next \in {"scan", "dead"} : EndTask(w, next)
  BY DEF Complete, CompleteUnwinding, TaskReturns, TaskUnwinds
<1>2. t \in Tasks /\ t \notin finished /\ finished' = finished \cup {t} /\ UNCHANGED execRes
  BY <1>1, NoTaskAssumption DEF EndTask, IInv, TypeOK, WorkerConsistent, TaskInOnePlace
<1>3. outcome[t] = "none" /\ end # "none" /\ execRes[t] # "none"
  BY <1>1, <1>2 DEF BlockingIInv, ResultKept, Ends, IInv, TaskConsistent, EndTask, WorkerConsistent
<1>4. outcome' = [outcome EXCEPT ![t] = end] /\ UNCHANGED <<handle, joined>>
  BY DEF Complete, CompleteUnwinding
<1>5. chan' = [chan EXCEPT ![t] = IF HasReceiver(t) THEN Ch!Send(chan[t], end) ELSE chan[t]]
  <2>1. CASE Complete(w, end)
    BY <2>1 DEF Complete, Deliver
  <2>2. CASE CompleteUnwinding(w, end)
    BY <2>2, <1>2 DEF CompleteUnwinding, BlockingIInv, BlockingTypeOK
  <2>3. QED
    BY <2>1, <2>2
<1>6. chan \in [Tasks -> Channel] /\ execRes \in [Tasks -> {"none", "ok", "err"}]
  BY DEF BlockingIInv, BlockingTypeOK, Channel, IInv, TypeOK
<1>7. chan' \in [Tasks -> Channel]
  BY <1>2, <1>5, <1>6, SendCall
<1>8. IF HasReceiver(t) THEN ~chan'[t].tx /\ chan'[t].rx = chan[t].rx /\ chan'[t].val = end
                           ELSE chan'[t] = chan[t]
  BY <1>2, <1>5, <1>6, SendCall DEF HasReceiver
<1>9. \A u \in Tasks \ {t} : chan'[u] = chan[u] /\ outcome'[u] = outcome[u]
  BY <1>4, <1>5 DEF BlockingIInv, BlockingTypeOK
<1>10. outcome'[t] = end
  BY <1>2, <1>4 DEF BlockingIInv, BlockingTypeOK
<1>11. \A u \in Tasks : /\ chan'[u].rx <=> handle[u] \in {"held", "awaited"}
                        /\ chan'[u].rx => (chan'[u].tx <=> execRes[u] = "ok" /\ outcome'[u] = "none")
  BY <1>2, <1>3, <1>8, <1>9, <1>10 DEF BlockingIInv, BlockingTypeOK, HasReceiver
<1>12. BlockingTypeOK'
  BY <1>2, <1>4, <1>7, <1>11 DEF BlockingIInv, BlockingTypeOK, Channel, IInv
<1>13. ResultKept'
  BY <1>2, <1>3, <1>4, <1>6, <1>8, <1>9, <1>10 DEF BlockingIInv, ResultKept, HasReceiver
<1>14. JoinFaithful'
  BY <1>2, <1>3, <1>4, <1>9 DEF BlockingIInv, JoinFaithful
<1>15. QED
  BY <1>12, <1>13, <1>14 DEF BlockingIInv

\* What the channel holds when it is ready is what the handle reports.
LEMMA PollKeeps ==
  ASSUME IInv, IInv', BlockingIInv, NEW t \in Tasks, handle[t] \in {"held", "awaited"}, Poll(t)
  PROVE  BlockingIInv'
<1>1. /\ chan \in [Tasks -> Channel] /\ execRes \in [Tasks -> {"none", "ok", "err"}]
      /\ outcome \in [Tasks -> Ends \cup {"none"}]
  BY DEF BlockingIInv, BlockingTypeOK, Channel, IInv, TypeOK
<1>2. UNCHANGED <<execRes, finished, outcome>>
  BY DEF Poll, vars
<1>3. /\ chan[t].rx /\ execRes[t] # "none"
      /\ chan[t].val = IF execRes[t] = "err" THEN "spawn" ELSE outcome[t]
      /\ chan[t].tx <=> execRes[t] = "ok" /\ outcome[t] = "none"
  BY DEF BlockingIInv, BlockingTypeOK, ResultKept
<1>4. CASE Ch!IsReady(chan[t])
  <2>1. /\ chan' = [chan EXCEPT ![t] = Ch!DropReceiver(chan[t])]
        /\ joined' = [joined EXCEPT ![t] = Output(chan[t])]
        /\ handle' = [handle EXCEPT ![t] = "joined"]
    BY <1>4 DEF Poll
  <2>2. chan[t].val # "none" /\ Output(chan[t]) = chan[t].val
    BY <1>1, <1>3, <1>4 DEF Ch!IsReady, Output
  <2>3. chan' \in [Tasks -> Channel] /\ chan'[t].rx = FALSE
    BY <2>1, <1>1, ReceiverCalls
  <2>4. BlockingTypeOK'
    BY <1>1, <1>2, <2>1, <2>2, <2>3 DEF BlockingIInv, BlockingTypeOK, Channel, IInv
  <2>5. ResultKept'
    BY <1>1, <1>2, <1>3, <2>1, <2>3 DEF BlockingIInv, BlockingTypeOK, ResultKept
  <2>6. JoinFaithful'
    BY <1>1, <1>2, <1>3, <2>1, <2>2 DEF BlockingIInv, BlockingTypeOK, ResultKept, JoinFaithful, Ends
  <2>7. QED
    BY <2>4, <2>5, <2>6 DEF BlockingIInv
<1>5. CASE ~Ch!IsReady(chan[t])
  <2>1. /\ chan' = [chan EXCEPT ![t] = Ch!Registered(chan[t])]
        /\ handle' = [handle EXCEPT ![t] = "awaited"]
        /\ UNCHANGED joined
    BY <1>5 DEF Poll
  <2>2. /\ chan' \in [Tasks -> Channel]
        /\ chan'[t].tx = chan[t].tx /\ chan'[t].rx = chan[t].rx /\ chan'[t].val = chan[t].val
    BY <2>1, <1>1, ReceiverCalls
  <2>3. \A u \in Tasks : /\ chan'[u].rx <=> handle'[u] \in {"held", "awaited"}
                         /\ chan'[u].rx => (chan'[u].tx <=> execRes[u] = "ok" /\ outcome[u] = "none")
    BY <1>1, <1>3, <2>1, <2>2 DEF BlockingIInv, BlockingTypeOK
  <2>4. BlockingTypeOK'
    BY <1>1, <1>2, <2>1, <2>2, <2>3 DEF BlockingIInv, BlockingTypeOK, Channel, IInv
  <2>5. ResultKept' /\ JoinFaithful'
    BY <1>1, <1>2, <1>3, <2>1, <2>2 DEF BlockingIInv, BlockingTypeOK, ResultKept, JoinFaithful
  <2>6. QED
    BY <2>4, <2>5 DEF BlockingIInv
<1>6. QED
  BY <1>4, <1>5

LEMMA DropHandleKeeps ==
  ASSUME IInv, IInv', BlockingIInv, NEW t \in Tasks, DropHandle(t)
  PROVE  BlockingIInv'
<1>1. chan \in [Tasks -> Channel]
  BY DEF BlockingIInv, BlockingTypeOK, Channel
<1>2. /\ handle[t] \in {"held", "awaited"} /\ handle' = [handle EXCEPT ![t] = "dropped"]
      /\ chan' = [chan EXCEPT ![t] = Ch!DropReceiver(chan[t])]
      /\ UNCHANGED <<execRes, finished, outcome, joined>>
  BY DEF DropHandle, vars
<1>3. chan' \in [Tasks -> Channel] /\ chan'[t].rx = FALSE
  BY <1>1, <1>2, ReceiverCalls
<1>4. BlockingTypeOK'
  BY <1>1, <1>2, <1>3 DEF BlockingIInv, BlockingTypeOK, Channel, IInv
<1>5. ResultKept' /\ JoinFaithful'
  BY <1>1, <1>2, <1>3 DEF BlockingIInv, BlockingTypeOK, ResultKept, JoinFaithful
<1>6. QED
  BY <1>4, <1>5 DEF BlockingIInv

\* What a worker does between two closures concerns no handle.
LEMMA IdlingKeeps ==
  ASSUME IInv, IInv', BlockingIInv,
         UNCHANGED <<chan, outcome, handle, joined, execRes, finished>>
  PROVE  BlockingIInv'
BY DEF BlockingIInv, BlockingTypeOK, ResultKept, JoinFaithful, IInv

LEMMA NextBlockingIInv == IInv /\ IInv' /\ BlockingIInv /\ [BlockingNext]_blockingVars => BlockingIInv'
<1> SUFFICES ASSUME IInv, IInv', BlockingIInv, [BlockingNext]_blockingVars PROVE BlockingIInv'
  OBVIOUS
<1>1. ASSUME NEW t \in Tasks, Spawn(t) \/ Await(t) \/ Repoll(t) \/ DropHandle(t)
      PROVE  BlockingIInv'
  BY <1>1, SpawnKeeps, PollKeeps, DropHandleKeeps DEF Await, Repoll
<1>2. ASSUME NEW w \in Worker, Idling(w) \/ Disturbed(w)
      PROVE  BlockingIInv'
  <2>1. UNCHANGED <<execRes, finished>>
    BY <1>2 DEF Idling, Disturbed, TakeTask, GoIdle, Wake, WakeSpuriously
  <2>2. QED
    BY <1>2, <2>1, IdlingKeeps DEF Idling, Disturbed, handleVars
<1>3. ASSUME NEW w \in Worker, NEW end \in Ends, Complete(w, end) \/ CompleteUnwinding(w, end)
      PROVE  BlockingIInv'
  BY <1>3, CompleteKeeps
<1>4. CASE UNCHANGED blockingVars
  BY <1>4, IdlingKeeps DEF blockingVars, vars, handleVars
<1>5. QED
  BY <1>1, <1>2, <1>3, <1>4 DEF BlockingNext, BlockingWorkerStep

LEMMA BlockingInvariance == BlockingSpec => []BlockingIInv
BY PoolInside, Invariance, InitBlockingIInv, NextBlockingIInv, PTL DEF BlockingSpec

\* The halves of a channel live as long as the JoinHandle and the closure that own
\* them, so a handle is never left with a sender that is gone and no message.
THEOREM HalvesLiveLongEnough == BlockingSpec => []BlockingTypeOK
<1>1. BlockingIInv => BlockingTypeOK
  BY DEF BlockingIInv
<1>2. QED
  BY <1>1, BlockingInvariance, PTL

\* A JoinHandle reports what happened to its closure, whatever the workers, failing
\* spawns and panics do in between, and never that the task just failed.
THEOREM JoinIsFaithful == BlockingSpec => []JoinFaithful
<1>1. BlockingIInv => JoinFaithful
  BY DEF BlockingIInv
<1>2. QED
  BY <1>1, BlockingInvariance, PTL

\* Through the composition, the pool keeps its abstract promise.
THEOREM CompositionKeepsPool == BlockingSpec => ImplementsPool /\ []AcceptedTaskServed
BY PoolInside, PoolRefinement, AcceptedTaskIsServed, PTL
=============================================================================
