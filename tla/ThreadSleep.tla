---------------------------- MODULE ThreadSleep ----------------------------
(***************************************************************************)
(* Sleep on a target with threads (src/src/web/time.rs:192-262) and the    *)
(* Timeout built on it (time.rs:423-474).  Timers live on one JavaScript   *)
(* thread: a request travels there over an unbounded channel, a task of    *)
(* that thread runs the JsSleep, and its end comes back over a oneshot     *)
(* channel.  The JsSleep is known by what module Sleeping promises of it.  *)
(***************************************************************************)
EXTENDS Naturals, Sequences

CONSTANTS
  Timeouts,    \* the calls of timeout()
  Durations,   \* the durations passed to it, in ticks
  Horizon,     \* bound of the clock
  LatestStart, \* bound of the time a timeout starts at
  Lag          \* bound of how late the sleep thread may do what is due

ASSUME TimeAssumption == Durations \subseteq Nat /\ {Horizon, LatestStart, Lag} \subseteq Nat

VARIABLES
  now,         \* the clock
  requests,    \* the channel SLEEP_TX: requests the sleep thread has not received
  duration,    \* duration[s]: what s was called with
  limit,       \* limit[s]: the time of the call plus the duration
  relay,       \* relay[s]: the task of the sleep thread that serves s
  due,         \* due[s]: when the JsSleep of s may elapse
  wakeCh,      \* wakeCh[s]: the channel (wake_tx, Sleep.0)
  ready,       \* ready[s]: is the inner future of s ready?
  task,        \* task[s]: the task that awaits s: "none", "busy", "waiting", "woken"
  outcome,     \* outcome[s]: what the poll of the Timeout returned
  kept         \* the Timeouts that exist, each with its Sleep, returned or not

vars == <<now, requests, duration, limit, relay, due, wakeCh, ready, task, outcome, kept>>

Ch == INSTANCE Oneshot

Init ==
  /\ now = 0 /\ requests = <<>>
  /\ duration = [s \in Timeouts |-> 0] /\ limit = [s \in Timeouts |-> 0]
  /\ relay = [s \in Timeouts |-> "none"] /\ due = [s \in Timeouts |-> 0]
  /\ wakeCh = [s \in Timeouts |-> Ch!Closed]
  /\ ready = [s \in Timeouts |-> FALSE] /\ task = [s \in Timeouts |-> "none"]
  /\ outcome = [s \in Timeouts |-> "none"] /\ kept = {}

-----------------------------------------------------------------------------
(* The thread that calls timeout().                                          *)

\* timeout(): the sleep is requested at once, the future is not polled yet.
New(s, d) ==
  /\ task[s] = "none"
  /\ now <= LatestStart
  /\ requests' = Append(requests, s)
  /\ duration' = [duration EXCEPT ![s] = d]
  /\ limit' = [limit EXCEPT ![s] = now + d]
  /\ wakeCh' = [wakeCh EXCEPT ![s] = Ch!Fresh]
  /\ task' = [task EXCEPT ![s] = "busy"]
  /\ kept' = kept \cup {s}
  /\ UNCHANGED <<now, relay, due, ready, outcome>>

Pending(s) == s \in kept /\ outcome[s] = "none"

\* The poll yields Ready.  It drops nothing, so a Timeout that returned because of its
\* future keeps its Sleep, and with it the timer, as long as its owner keeps it.  A
\* receiver that has yielded its value has let go of the channel by itself.
Return(s, how) ==
  /\ outcome' = [outcome EXCEPT ![s] = how]
  /\ wakeCh' = [wakeCh EXCEPT ![s] = IF how = "elapsed" THEN Ch!DropReceiver(@) ELSE @]
  /\ task' = [task EXCEPT ![s] = "busy"]

Suspend(s) ==
  /\ wakeCh' = [wakeCh EXCEPT ![s] = Ch!Registered(wakeCh[s])]
  /\ task' = [task EXCEPT ![s] = "waiting"]
  /\ UNCHANGED outcome

PollSleepFirst(s) == IF Ch!IsReady(wakeCh[s]) THEN Return(s, "elapsed")
                     ELSE IF ready[s] THEN Return(s, "ok")
                     ELSE Suspend(s)

PollFutureOnly(s) == IF ready[s] THEN Return(s, "ok")
                     ELSE task' = [task EXCEPT ![s] = "waiting"] /\ UNCHANGED <<wakeCh, outcome>>

\* Timeout::poll looks at the future before it looks at the sleep.
PollBoth(s) == IF ready[s] THEN Return(s, "ok")
               ELSE IF Ch!IsReady(wakeCh[s]) THEN Return(s, "elapsed")
               ELSE Suspend(s)

\* The owner polls the Timeout, whenever it likes or because it was woken.
Poll(s) ==
  /\ Pending(s)
  /\ PollBoth(s)
  /\ UNCHANGED <<now, requests, duration, limit, relay, due, ready, kept>>

\* The owner drops the Timeout, before or after it has returned, and the receiver in
\* its Sleep goes with it.
Drop(s) ==
  /\ s \in kept
  /\ kept' = kept \ {s}
  /\ wakeCh' = [wakeCh EXCEPT ![s] = Ch!DropReceiver(@)]
  /\ task' = [task EXCEPT ![s] = "busy"]
  /\ UNCHANGED <<now, requests, duration, limit, relay, due, ready, outcome>>

Woken(s) == [task EXCEPT ![s] = IF @ = "waiting" THEN "woken" ELSE @]

\* The inner future becomes ready and wakes the task that polled it.
FutureReady(s) ==
  /\ Pending(s)
  /\ ~ready[s]
  /\ ready' = [ready EXCEPT ![s] = TRUE]
  /\ task' = Woken(s)
  /\ UNCHANGED <<now, requests, duration, limit, relay, due, wakeCh, outcome, kept>>

-----------------------------------------------------------------------------
(* The sleep thread.                                                         *)

\* The receive loop spawns a local task for the next request.
Receive ==
  /\ requests # <<>>
  /\ relay' = [relay EXCEPT ![Head(requests)] = "spawned"]
  /\ requests' = Tail(requests)
  /\ UNCHANGED <<now, duration, limit, due, wakeCh, ready, task, outcome, kept>>

NeverAbandoned(s) == FALSE

\* wake_tx.closed()
Abandoned(s) == ~wakeCh[s].rx

\* When the JsSleep that is created now may elapse
DueFromNow(s) == now + duration[s]

\* The first poll of that task creates the JsSleep, or ends the task at once.
RelayStart(s) ==
  /\ relay[s] = "spawned"
  /\ due' = [due EXCEPT ![s] = DueFromNow(s)]
  /\ IF Abandoned(s) THEN /\ relay' = [relay EXCEPT ![s] = "over"]
                          /\ wakeCh' = [wakeCh EXCEPT ![s] = Ch!DropSender(@)]
     ELSE relay' = [relay EXCEPT ![s] = "sleeping"] /\ UNCHANGED wakeCh
  /\ UNCHANGED <<now, requests, duration, limit, ready, task, outcome, kept>>

AnswerForgotten(s) == Ch!DropSender(wakeCh[s])

\* wake_tx.send
Answer(s) == Ch!Send(wakeCh[s], "elapsed")

\* The JsSleep elapses and the end is sent to the Sleep, if it still exists.
RelayElapse(s) ==
  /\ relay[s] = "sleeping"
  /\ now >= due[s]
  /\ relay' = [relay EXCEPT ![s] = "over"]
  /\ wakeCh' = [wakeCh EXCEPT ![s] = Answer(s)]
  /\ task' = IF wakeCh[s].waker THEN Woken(s) ELSE task
  /\ UNCHANGED <<now, requests, duration, limit, due, ready, outcome, kept>>

\* The receiver is gone: the JsSleep is dropped with its timer.
RelayCancel(s) ==
  /\ relay[s] = "sleeping"
  /\ Abandoned(s)
  /\ relay' = [relay EXCEPT ![s] = "over"]
  /\ wakeCh' = [wakeCh EXCEPT ![s] = Ch!DropSender(wakeCh[s])]
  /\ UNCHANGED <<now, requests, duration, limit, due, ready, task, outcome, kept>>

\* Time does not run away from the sleep thread.
Overdue(s) ==
  \/ task[s] # "none" /\ relay[s] \in {"none", "spawned"} /\ now + duration[s] >= limit[s] + Lag
  \/ relay[s] = "sleeping" /\ now >= due[s] + Lag

Tick ==
  /\ now < Horizon
  /\ \A s \in Timeouts : ~Overdue(s)
  /\ now' = now + 1
  /\ UNCHANGED <<requests, duration, limit, relay, due, wakeCh, ready, task, outcome, kept>>

-----------------------------------------------------------------------------

RelayStep(s) == RelayStart(s) \/ RelayElapse(s) \/ RelayCancel(s)

Next == \/ Receive \/ Tick
        \/ \E s \in Timeouts : \/ \E d \in Durations : New(s, d)
                               \/ Poll(s) \/ Drop(s) \/ FutureReady(s) \/ RelayStep(s)

Spec == Init /\ [][Next]_vars

\* Time passes, the sleep thread does what is due, and a woken task polls.
FairSpec ==
  /\ Spec
  /\ WF_vars(Tick) /\ WF_vars(Receive)
  /\ \A s \in Timeouts : WF_vars(RelayStep(s)) /\ WF_vars(task[s] = "woken" /\ Poll(s))

-----------------------------------------------------------------------------
(* Properties                                                                *)

Channel == [tx : BOOLEAN, rx : BOOLEAN, waker : BOOLEAN, val : {"none", "elapsed"}]

\* Types; the sender of a request lives until the task that serves it is over, and
\* whoever finds it gone has its answer: as long as the sleep thread lives, the
\* expect("sleep thread failed") in Sleep::poll (time.rs:258) is not met.
TypeOK ==
  /\ now \in 0..Horizon
  /\ requests \in Seq(Timeouts)
  /\ duration \in [Timeouts -> Durations \cup {0}]
  /\ limit \in [Timeouts -> Nat] /\ due \in [Timeouts -> Nat]
  /\ relay \in [Timeouts -> {"none", "spawned", "sleeping", "over"}]
  /\ wakeCh \in [Timeouts -> Channel]
  /\ ready \in [Timeouts -> BOOLEAN]
  /\ task \in [Timeouts -> {"none", "busy", "waiting", "woken"}]
  /\ outcome \in [Timeouts -> {"none", "ok", "elapsed"}]
  /\ kept \subseteq Timeouts
  /\ \A s \in Timeouts : wakeCh[s].tx <=> task[s] # "none" /\ relay[s] # "over"
  /\ \A s \in Timeouts : Pending(s) /\ Ch!IsReady(wakeCh[s]) => wakeCh[s].val = "elapsed"

\* What makes TypeOK inductive and ElapsedTruly true.  A request is in the channel
\* once and is served once; a timer runs out, and is reported, after the limit.
RequestsWaiting ==
  /\ \A i \in 1..Len(requests) : task[requests[i]] # "none" /\ relay[requests[i]] = "none"
  /\ \A i, j \in 1..Len(requests) : requests[i] = requests[j] => i = j

TimerCovers ==
  \A s \in Timeouts :
    /\ wakeCh[s].rx <=> s \in kept /\ outcome[s] # "elapsed"
    /\ relay[s] # "none" \/ outcome[s] # "none" \/ s \in kept => task[s] # "none"
    /\ limit[s] <= now + duration[s]
    /\ relay[s] = "sleeping" => due[s] >= limit[s]
    /\ wakeCh[s].val = "elapsed" => now >= limit[s]

IInv == TypeOK /\ RequestsWaiting /\ TimerCovers

\* A Timeout elapses only if its duration has passed since the call, although the
\* JsSleep starts later and on another thread, and if its future is not ready, how
\* long ago the timer may have run out (time.rs:448-454).
ElapsedTruly ==
  [][\A s \in Timeouts :
       outcome[s] = "none" /\ outcome'[s] = "elapsed" => now >= limit[s] /\ ~ready[s]]_vars

Requested(s) == \E i \in 1..Len(requests) : requests[i] = s

\* What WaiterResolves and TimerReleased rest on: a task that waits has left its waker
\* with a future that is not ready and in the channel of a sleep that is not answered
\* yet, and every sleep is with the relay that serves it or still among the requests.
NobodyWaitsInVain ==
  \A s \in Timeouts :
    /\ task[s] = "waiting" => /\ Pending(s) /\ ~ready[s]
                              /\ wakeCh[s].waker /\ relay[s] # "over"
    /\ task[s] # "none" /\ relay[s] = "none" => Requested(s)

\* The timer of a Timeout that was dropped is given back, also when its duration will
\* never pass, when the drop overtakes the request on its way to the sleep thread and
\* when the Timeout has returned before (time.rs:222-231).  One that has returned and
\* is kept keeps its timer (time.rs:448-454).
TimerReleased == \A s \in Timeouts : task[s] # "none" /\ s \notin kept ~> relay[s] = "over"

Within(s) == limit[s] + 2 * Lag <= Horizon

\* Whoever awaits a Timeout gets an answer once the future is ready or the duration
\* has passed, unless it drops it: no wake-up is lost between the two threads, and
\* the poll after it returns.
WaiterResolves ==
  \A s \in Timeouts :
    task[s] \in {"waiting", "woken"} /\ (ready[s] \/ Within(s))
      ~> outcome[s] # "none" \/ s \notin kept
=============================================================================
