------------------------------ MODULE JsSleep ------------------------------
(***************************************************************************)
(* JsSleep (src/src/web/time.rs:36-186): a sleep on a JavaScript timer.    *)
(* Everything happens on one thread.  The timer callback is one action up  *)
(* to the point where it calls the waker, because the waker may run the    *)
(* woken task right there; that task may poll or drop the sleep before     *)
(* wake() returns.  setTimeout and clearTimeout belong to the browser: a   *)
(* timer fires at its time or later, and a delay that does not fit in its  *)
(* signed 32 bits fires at once.                                           *)
(***************************************************************************)
EXTENDS Naturals

CONSTANTS
  Durations,   \* durations to sleep for, in ticks
  Milli,       \* ticks per millisecond
  MaxDelay,    \* the longest delay setTimeout accepts, in milliseconds
  Horizon,     \* bound of the clock, in ticks
  LatestStart, \* bound of the time a sleep starts at
  Lag          \* bound of how late a callback may run

ASSUME TimeAssumption == /\ Milli \in Nat \ {0}
                         /\ MaxDelay \in Nat \ {0}
                         /\ {Horizon, LatestStart, Lag} \subseteq Nat
                         /\ Durations \subseteq Nat

VARIABLES
  now,        \* the clock
  life,       \* does the JsSleep exist: "none", "alive" or "dropped"
  deadline,   \* start of the sleep plus its duration
  remaining,  \* inner.remaining
  fired,      \* inner.fired
  waker,      \* inner.waker.is_some()
  timeoutId,  \* inner.timeout_id.is_some()
  timer,      \* the timers armed in the browser, by the time they are due
  calling,    \* is the callback inside waker.wake()?
  refs,       \* the strong references to inner; the last one frees the callback in it
  task        \* the task that owns the sleep: "busy", "waiting" or "woken"

vars == <<now, life, deadline, remaining, fired, waker, timeoutId, timer, calling,
          refs, task>>

Init ==
  /\ now = 0 /\ life = "none" /\ deadline = 0 /\ remaining = 0
  /\ fired = FALSE /\ waker = FALSE /\ timeoutId = FALSE /\ timer = {}
  /\ calling = FALSE /\ refs = 0 /\ task = "busy"

-----------------------------------------------------------------------------
(* arm()                                                                     *)

MaxTimeout == MaxDelay * Milli

WholeChunk(left) == left

\* chunk
Chunk(left) == IF left < MaxTimeout THEN left ELSE MaxTimeout

RoundedDown(chunk) == chunk \div Milli

\* The delay of a chunk in whole milliseconds, rounded up
Delay(chunk) == (chunk + (Milli - 1)) \div Milli

\* When setTimeout fires
Due(delay) == now + (IF delay > MaxDelay THEN 0 ELSE delay) * Milli

ArmUnrecorded(left) ==
  /\ remaining' = left - Chunk(left)
  /\ timer' = {Due(Delay(Chunk(left)))}
  /\ UNCHANGED timeoutId

Arm(left) ==
  /\ remaining' = left - Chunk(left)
  /\ timer' = {Due(Delay(Chunk(left)))}
  /\ timeoutId' = TRUE

-----------------------------------------------------------------------------

StrongCapture == 2

\* What keeps a new inner alive: the JsSleep.  The callback captures a weak reference.
NewRefs == 1

\* JsSleep::new
New(d) ==
  /\ life = "none"
  /\ now <= LatestStart
  /\ life' = "alive"
  /\ deadline' = now + d
  /\ refs' = NewRefs
  /\ Arm(d)
  /\ UNCHANGED <<now, fired, waker, calling, task>>

NotWoken == task

\* The waker that was taken is woken.
Woken == IF waker THEN "woken" ELSE task

\* The timer callback up to wake(), or to its end if there is no waker.  Inside wake()
\* it owns inner, by the reference it got from upgrade(), and does not borrow it.
Fire ==
  /\ remaining = 0
  /\ fired' = TRUE
  /\ waker' = FALSE
  /\ calling' = waker
  /\ refs' = IF waker THEN refs + 1 ELSE refs
  /\ task' = Woken
  /\ timeoutId' = FALSE
  /\ timer' = {}
  /\ UNCHANGED remaining

\* The callback arms the timer for the next chunk.
Rearm ==
  /\ remaining > 0
  /\ Arm(remaining)
  /\ UNCHANGED <<fired, waker, calling, refs, task>>

\* The browser calls back, which needs an inner that still exists: by CallbackLifetime
\* every armed timer has one, so upgrade() succeeds.
Callback ==
  /\ ~calling
  /\ refs > 0
  /\ \E due \in timer : now >= due
  /\ Fire \/ Rearm
  /\ UNCHANGED <<now, life, deadline>>

\* wake() returns to the callback, which ends and drops its reference.
WakeReturns ==
  /\ calling
  /\ calling' = FALSE
  /\ refs' = refs - 1
  /\ UNCHANGED <<now, life, deadline, remaining, fired, waker, timeoutId, timer, task>>

\* What poll finds: the sleep has ended, or it keeps the waker.
PollInner == IF fired THEN task' = "busy" /\ UNCHANGED waker
             ELSE task' = "waiting" /\ waker' = TRUE

\* The task polls the sleep, whenever it likes or because it was woken.
Poll ==
  /\ life = "alive"
  /\ PollInner
  /\ UNCHANGED <<now, life, deadline, remaining, fired, timeoutId, timer, calling, refs>>

TimerKept == timer

\* The timers that are left after unregister_timeout
TimerCleared == IF timeoutId THEN {} ELSE timer

\* Drop, and with it goes the reference of the JsSleep to inner
Drop ==
  /\ life = "alive"
  /\ life' = "dropped"
  /\ timer' = TimerCleared
  /\ refs' = refs - 1
  /\ task' = "busy"
  /\ waker' = FALSE
  /\ timeoutId' = FALSE
  /\ UNCHANGED <<now, deadline, remaining, fired, calling>>

Tick ==
  /\ now < Horizon
  /\ \A due \in timer : now < due + Lag
  /\ now' = now + 1
  /\ UNCHANGED <<life, deadline, remaining, fired, waker, timeoutId, timer, calling,
                 refs, task>>

Next == (\E d \in Durations : New(d)) \/ Callback \/ WakeReturns \/ Poll \/ Drop \/ Tick

Spec == Init /\ [][Next]_vars

\* Time passes, the event loop runs callbacks that are due, a callback returns,
\* and a woken task is polled.
FairSpec == /\ Spec
            /\ WF_vars(Tick) /\ WF_vars(Callback) /\ WF_vars(WakeReturns)
            /\ WF_vars(task = "woken" /\ Poll)

-----------------------------------------------------------------------------
(* Properties                                                                *)

\* Types, and the bookkeeping of the timer: as long as the sleep is alive there is
\* one timer with its id, or it has fired (time.rs:66-77).
TypeOK ==
  /\ now \in 0..Horizon /\ deadline \in Nat /\ remaining \in Nat
  /\ life \in {"none", "alive", "dropped"}
  /\ {fired, waker, timeoutId, calling} \subseteq BOOLEAN
  /\ timer \subseteq Nat /\ refs \in Nat
  /\ task \in {"busy", "waiting", "woken"}
  /\ life = "alive" => timeoutId = ~fired /\ (timer = {} <=> fired)

\* Through all chunks and roundings, a sleep never ends early (time.rs:130-132,
\* :274-275): a delay beyond 32 bits is never passed to setTimeout, and the time
\* not covered by the armed timer is not forgotten.
NeverEarly ==
  /\ fired => now >= deadline
  /\ ~fired => \A due \in timer : due + remaining >= deadline

\* A dropped sleep leaves no timer behind, wherever in its life it is dropped
\* (time.rs:178-185).
NoTimerAfterDrop == life = "dropped" => timer = {}

\* The callback exists as long as a timer may call it and while it runs, also if the
\* task that it wakes drops the sleep before wake() returns (time.rs:72-76); once the
\* sleep and the running callback are gone nothing keeps it: it does not own the inner
\* that owns it (time.rs:90-92).
CallbackLifetime ==
  /\ timer # {} \/ calling => refs > 0
  /\ life = "dropped" /\ ~calling => refs = 0

\* What that rests on: who holds inner.
RefsCounted == refs = (IF life = "alive" THEN 1 ELSE 0) + (IF calling THEN 1 ELSE 0)

\* A task that waits has a waker that is still to be woken: whichever order the
\* callback and the poll come in, including a poll inside wake().
WaiterHasWaker == task = "waiting" => waker /\ ~fired

\* A task that waits for the sleep gets to know its end, unless it drops it.
WaiterWoken == (task = "waiting") ~> (life = "dropped" \/ (fired /\ task = "busy"))

Contract == INSTANCE Sleeping WITH
  phase <- CASE life = "none" -> "none"
             [] life = "dropped" -> "dropped"
             [] life = "alive" /\ fired -> "elapsed"
             [] OTHER -> "sleeping"

\* The chain of timers is a sleep of the whole duration, and it ends.
ImplementsSleep == Contract!FairSpec
=============================================================================
