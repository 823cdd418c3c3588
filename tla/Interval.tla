------------------------------ MODULE Interval ------------------------------
(***************************************************************************)
(* Interval and the arithmetic of its deadlines (src/src/web/time.rs:476-  *)
(* 604) on Instants (time.rs:292-381).  An Instant counts microseconds in  *)
(* 64 bits, a Duration counts nanoseconds; both are scaled down.  The      *)
(* sleep inside the interval is known by when it may complete, which is    *)
(* what module Sleeping promises of it.                                    *)
(***************************************************************************)
EXTENDS Integers

CONSTANTS
  Periods,      \* the periods of intervals, in nanoseconds
  Nanos,        \* nanoseconds per microsecond
  Tolerance,    \* 5 ms in microseconds: how late a tick may be
  MaxInstant,   \* the largest Instant (u64::MAX)
  FarFuture,    \* 30 years, in microseconds
  Horizon,      \* bound of the clock
  MaxTicks      \* bound of the number of ticks that are counted

ASSUME IntervalAssumption ==
  /\ Nanos \in Nat \ {0}
  /\ {Tolerance, MaxInstant, FarFuture, Horizon, MaxTicks} \subseteq Nat
  /\ Periods \subseteq Nat \ {0}
  /\ 2 <= FarFuture /\ Horizon < FarFuture /\ Horizon + FarFuture <= MaxInstant

VARIABLES
  now,        \* Instant::now()
  period,     \* Interval.period, or 0 while there is no interval
  behavior,   \* Interval.missed_tick_behavior
  deadline,   \* Interval.deadline
  wake,       \* the time from which Interval.sleep may be found complete
  origin,     \* the deadline after the last creation, reset or change of behavior
  ticks       \* the number of ticks since then

vars == <<now, period, behavior, deadline, wake, origin, ticks>>

Behaviors == {"Burst", "Delay", "Skip"}

Init ==
  /\ now = 0 /\ period = 0 /\ behavior = "Burst"
  /\ deadline = 0 /\ wake = 0 /\ origin = 0 /\ ticks = 0

-----------------------------------------------------------------------------
(* Instants                                                                  *)

\* as_micros truncates
Micros(duration) == duration \div Nanos

\* Instant::sub(Instant), in nanoseconds
Since(later, earlier) == IF later > earlier THEN (later - earlier) * Nanos ELSE 0

\* Instant::sub(Duration)
Back(instant, duration) ==
  IF instant > Micros(duration) THEN instant - Micros(duration) ELSE 0

AddUnchecked(instant, duration) == instant + Micros(duration)

\* add_deadline: checked_add, or far_future() if that overflows
AddDeadline(instant, duration) ==
  IF instant + Micros(duration) <= MaxInstant THEN instant + Micros(duration)
  ELSE now + FarFuture

-----------------------------------------------------------------------------
(* Deadlines                                                                 *)

NextDeadlineBurst(timeout) == AddDeadline(timeout, period)

NextDeadlineBehind(timeout) ==
  CASE behavior = "Burst" -> AddDeadline(timeout, period)
    [] behavior = "Delay" -> AddDeadline(now, period)
    [] behavior = "Skip"  -> Back(now, Since(now, timeout) % period)

NextDeadlineUnaligned(timeout) ==
  IF behavior = "Burst" THEN AddDeadline(timeout, period) ELSE AddDeadline(now, period)

\* next_deadline
NextDeadline(timeout) ==
  CASE behavior = "Burst" -> AddDeadline(timeout, period)
    [] behavior = "Delay" -> AddDeadline(now, period)
    [] behavior = "Skip"  -> Back(AddDeadline(now, period), Since(now, timeout) % period)

\* sleep_until: a deadline in the past is a sleep of no duration.
SleepUntil(instant) == wake' = IF instant > now THEN instant ELSE now

\* interval_at
Create(start, p) ==
  /\ period = 0
  /\ period' = p
  /\ deadline' = start
  /\ SleepUntil(start)
  /\ origin' = start
  /\ UNCHANGED <<now, behavior, ticks>>

\* set_missed_tick_behavior
SetBehavior(b) ==
  /\ period # 0
  /\ behavior' = b
  /\ origin' = deadline
  /\ ticks' = 0
  /\ UNCHANGED <<now, period, deadline, wake>>

\* poll_tick once the sleep is complete
PollTick ==
  /\ period # 0
  /\ ticks < MaxTicks
  /\ now >= wake
  /\ deadline' = IF now > AddDeadline(deadline, Tolerance * Nanos)
                 THEN NextDeadline(deadline)
                 ELSE AddDeadline(deadline, period)
  /\ SleepUntil(deadline')
  /\ ticks' = ticks + 1
  /\ UNCHANGED <<now, period, behavior, origin>>

ResetDeadlineOnly(instant) == deadline' = instant /\ UNCHANGED wake

\* reset_at replaces the sleep too.
ResetTo(instant) == deadline' = instant /\ SleepUntil(instant)

\* reset, reset_immediately, reset_after and reset_at
Reset(instant) ==
  /\ period # 0
  /\ ResetTo(instant)
  /\ origin' = instant
  /\ ticks' = 0
  /\ UNCHANGED <<now, period, behavior>>

Tick ==
  /\ now < Horizon
  /\ now' = now + 1
  /\ UNCHANGED <<period, behavior, deadline, wake, origin, ticks>>

\* Where resets lead to: now, one period or some other time ahead, or the past.
ResetTargets == {now, AddDeadline(now, period), AddDeadline(now, Nanos), Back(now, Nanos)}

Next == \/ \E start \in {now, now + 2}, p \in Periods : Create(start, p)
        \/ \E b \in Behaviors : SetBehavior(b)
        \/ PollTick
        \/ \E instant \in ResetTargets : Reset(instant)
        \/ Tick

Spec == Init /\ [][Next]_vars

-----------------------------------------------------------------------------
(* Properties                                                                *)

\* Instants stay within their 64 bits, whatever the period (time.rs:485-488).
TypeOK ==
  /\ now \in 0..Horizon
  /\ period \in Periods \cup {0}
  /\ behavior \in Behaviors
  /\ {deadline, wake, origin} \subseteq 0..MaxInstant
  /\ ticks \in 0..MaxTicks

\* The sleep never ends before the deadline it was made for, which makes TypeOK
\* inductive too: a deadline that is far away is never followed by another one.
SleepCovers ==
  /\ wake >= deadline
  /\ period = 0 => ticks = 0 /\ deadline = origin /\ behavior = "Burst"

IInv == TypeOK /\ SleepCovers

Ticked == ticks' = ticks + 1

\* A tick is never returned before its deadline, also after a reset while the sleep
\* for the previous deadline was under way (time.rs:559-562).
TickNotEarly == [][Ticked => now >= deadline]_vars

Reachable(instant) == instant < FarFuture

\* However late the ticks were taken, Burst loses none of them, so the n-th deadline
\* lies n periods after the first, and Skip leaves out some and stays on the grid of
\* the first deadline (time.rs:493-499).
DeadlineOnGrid ==
  Reachable(deadline) =>
    /\ behavior = "Burst" => deadline = origin + ticks * Micros(period)
    /\ behavior = "Skip" => (deadline - origin) % Micros(period) = 0

\* A tick that was missed by more than 5 ms is made up for by Burst only: with the
\* other behaviors the next deadline lies ahead, by at most one period.
MissedTickNotMadeUp ==
  [][Ticked /\ now > deadline + Tolerance /\ behavior # "Burst"
       => deadline' > now /\ (Reachable(deadline') => deadline' <= now + Micros(period))]_vars

\* "This type allows you to wait on a sequence of instants with a certain duration
\* between each instant" (time.rs:504-505): each tick moves the deadline on.
DeadlineAdvances == [][Ticked => deadline' > deadline]_vars
=============================================================================
