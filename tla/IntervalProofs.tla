--------------------------- MODULE IntervalProofs ---------------------------
(***************************************************************************)
(* Theorems about Interval, for all periods, clocks and resolutions.       *)
(***************************************************************************)
EXTENDS Interval, TLAPS

-----------------------------------------------------------------------------
(* Division.                                                                 *)

LEMMA DivMod ==
  ASSUME NEW x \in Int, NEW d \in Nat \ {0}
  PROVE  /\ x \div d \in Int /\ x % d \in 0 .. (d - 1)
         /\ x = (x \div d) * d + (x % d)
BY SMT

LEMMA Products ==
  ASSUME NEW a \in Int, NEW b \in Int, NEW d \in Int
  PROVE  /\ (a + b) * d = a * d + b * d /\ (a - b) * d = a * d - b * d
         /\ (a * b) * d = a * (b * d) /\ a * d \in Int /\ b * d \in Int
BY SMT

LEMMA ProductGrows ==
  ASSUME NEW a \in Int, NEW b \in Int, NEW d \in Nat, a <= b
  PROVE  a * d <= b * d
BY SMT

LEMMA OneQuotient ==
  ASSUME NEW d \in Nat \ {0}, NEW q \in Int, NEW p \in Int, NEW r \in 0 .. (d - 1), NEW s \in 0 .. (d - 1),
         q * d + r = p * d + s
  PROVE  ~(q < p)
<1> SUFFICES ASSUME q < p PROVE FALSE
  OBVIOUS
<1>1. (q + 1) * d <= p * d
  BY ProductGrows
<1>2. (q + 1) * d = q * d + d /\ q * d \in Int /\ p * d \in Int
  BY Products
<1>3. QED
  BY <1>1, <1>2

\* Quotient and remainder are the only numbers that do what they do.
LEMMA ModIs ==
  ASSUME NEW x \in Int, NEW d \in Nat \ {0}, NEW q \in Int, NEW r \in 0 .. (d - 1), x = q * d + r
  PROVE  x % d = r /\ x \div d = q
<1> DEFINE p == x \div d
           s == x % d
<1>1. p \in Int /\ s \in 0 .. (d - 1) /\ q * d + r = p * d + s
  BY DivMod
<1> HIDE DEF p, s
<1>2. q = p
  BY <1>1, OneQuotient
<1>3. p * d \in Int
  BY <1>1, Products
<1>4. QED
  BY <1>1, <1>2, <1>3 DEF p, s

LEMMA ModScale ==
  ASSUME NEW a \in Nat, NEW m \in Nat \ {0}, NEW n \in Nat \ {0}
  PROVE  (a * n) % (m * n) = (a % m) * n
<1> DEFINE q == a \div m
           r == a % m
           e == m * n
<1>1. q \in Int /\ r \in 0 .. (m - 1) /\ a = q * m + r
  BY DivMod
<1> HIDE DEF q, r
<1>2. /\ a * n = (q * m) * n + r * n /\ (q * m) * n = q * e
      /\ q * m \in Int /\ r * n \in Int
  BY <1>1, Products
<1>3. r * n <= (m - 1) * n /\ 0 <= r * n
  BY <1>1, SMT
<1>4. (m - 1) * n = e - n /\ e \in Nat \ {0}
  BY SMT
<1> HIDE DEF e
<1>5. r * n \in 0 .. (e - 1)
  <2> DEFINE t == r * n
  <2>1. t \in Int /\ t <= e - n /\ 0 <= t /\ e \in Nat \ {0}
    BY <1>2, <1>3, <1>4
  <2> HIDE DEF t
  <2>2. t \in 0 .. (e - 1)
    BY <2>1
  <2>3. QED
    BY <2>2 DEF t
<1>6. a * n \in Int /\ a * n = q * e + r * n
  <2>1. a * n \in Int
    BY Products
  <2>2. QED
    BY <1>2, <2>1
<1>7. (a * n) % e = r * n
  <2> DEFINE x == a * n
             y == r * n
  <2>1. e \in Nat \ {0} /\ q \in Int /\ y \in 0 .. (e - 1) /\ x \in Int /\ x = q * e + y
    BY <1>1, <1>4, <1>5, <1>6
  <2> HIDE DEF x, y
  <2>2. x % e = y
    BY <2>1, ModIs
  <2>3. QED
    BY <2>2 DEF x, y
<1>8. QED
  BY <1>7 DEF e, r

\* Whoever goes on by whole steps stays on the grid.
LEMMA GridStep ==
  ASSUME NEW x \in Int, NEW m \in Nat \ {0}, NEW k \in Int, x % m = 0
  PROVE  (x + k * m) % m = 0
<1> DEFINE q == x \div m
<1>1. q \in Int /\ x = q * m + 0
  BY DivMod
<1> HIDE DEF q
<1>2. x + k * m = (q + k) * m + 0 /\ x + k * m \in Int /\ q + k \in Int /\ 0 \in 0 .. (m - 1)
  BY <1>1, Products
<1>3. QED
  BY <1>2, ModIs

-----------------------------------------------------------------------------
(* Instants.                                                                 *)

LEMMA Constants ==
  /\ Nanos \in Nat \ {0} /\ Tolerance \in Nat /\ MaxInstant \in Nat /\ FarFuture \in Nat
  /\ Horizon \in Nat /\ MaxTicks \in Nat /\ Periods \subseteq Nat \ {0}
  /\ 2 <= FarFuture /\ Horizon < FarFuture /\ Horizon + FarFuture <= MaxInstant
BY IntervalAssumption

LEMMA MicrosGrows ==
  ASSUME NEW d \in Nat, NEW e \in Nat, d <= e
  PROVE  Micros(d) \in Nat /\ Micros(d) <= Micros(e)
<1> DEFINE p == d \div Nanos
           q == e \div Nanos
           r == d % Nanos
           s == e % Nanos
<1>1. /\ p \in Int /\ r \in 0 .. (Nanos - 1) /\ d = p * Nanos + r
      /\ q \in Int /\ s \in 0 .. (Nanos - 1) /\ e = q * Nanos + s
  BY Constants, DivMod
<1>2. p \in Nat
  BY Constants, SMT
<1> HIDE DEF p, q, r, s
<1>3. ~(q < p)
  <2> SUFFICES ASSUME q < p PROVE FALSE
    BY <1>1
  <2>1. (q + 1) * Nanos <= p * Nanos
    BY <1>1, Constants, ProductGrows
  <2>2. (q + 1) * Nanos = q * Nanos + Nanos /\ q * Nanos \in Int /\ p * Nanos \in Int
    BY <1>1, Constants, Products
  <2>3. QED
    BY <1>1, <2>1, <2>2, Constants
<1>4. QED
  BY <1>1, <1>2, <1>3 DEF Micros, p, q

LEMMA MicrosOfWhole ==
  ASSUME NEW k \in Nat
  PROVE  k * Nanos \in Nat /\ Micros(k * Nanos) = k
<1>1. k * Nanos \in Nat
  BY Constants, SMT
<1>2. k * Nanos = k * Nanos + 0 /\ 0 \in 0 .. (Nanos - 1)
  BY <1>1, Constants
<1>3. QED
  BY <1>1, <1>2, Constants, ModIs DEF Micros

LEMMA AddCall ==
  ASSUME TypeOK, NEW i \in 0..MaxInstant, NEW d \in Nat
  PROVE  /\ AddDeadline(i, d) \in 0..MaxInstant
         /\ \/ AddDeadline(i, d) = i + Micros(d)
            \/ AddDeadline(i, d) = now + FarFuture /\ i + Micros(d) > MaxInstant
<1>1. now \in 0..Horizon /\ Micros(d) \in Nat
  BY MicrosGrows DEF TypeOK
<1>2. now + FarFuture \in 0..MaxInstant
  BY <1>1, Constants
<1> DEFINE m == Micros(d)
<1> HIDE DEF m
<1>3. m \in Nat /\ (i + m <= MaxInstant => i + m \in 0..MaxInstant) /\ (i + m > MaxInstant \/ i + m <= MaxInstant)
  BY <1>1, Constants DEF m
<1>4. AddDeadline(i, d) = IF i + m <= MaxInstant THEN i + m ELSE now + FarFuture
  BY DEF AddDeadline, m
<1>5. /\ AddDeadline(i, d) \in 0..MaxInstant
      /\ \/ AddDeadline(i, d) = i + m
         \/ AddDeadline(i, d) = now + FarFuture /\ i + m > MaxInstant
  BY <1>2, <1>3, <1>4
<1>6. QED
  BY <1>5 DEF m

LEMMA BackCall ==
  ASSUME NEW i \in 0..MaxInstant, NEW d \in Nat
  PROVE  /\ Back(i, d) \in 0..MaxInstant
         /\ Micros(d) <= i => Back(i, d) = i - Micros(d)
<1> DEFINE m == Micros(d)
<1>1. m \in Nat
  BY MicrosGrows
<1> HIDE DEF m
<1>2. Back(i, d) = IF i > m THEN i - m ELSE 0
  BY DEF Back, m
<1>3. Back(i, d) \in 0..MaxInstant /\ (m <= i => Back(i, d) = i - m)
  BY <1>1, <1>2, Constants
<1>4. QED
  BY <1>3 DEF m

\* How far a late tick is past the last deadline that was met, in whole periods
Excess == Since(now, deadline) % period

LEMMA ExcessBounds ==
  ASSUME TypeOK, period # 0, deadline < now
  PROVE  /\ Excess \in Nat /\ Micros(Excess) \in Nat
         /\ Micros(Excess) <= Micros(period) /\ Micros(Excess) <= now - deadline
<1>1. period \in Nat \ {0} /\ now \in Nat /\ deadline \in Nat /\ now - deadline \in Nat
  BY Constants DEF TypeOK
<1> DEFINE a == now - deadline
           x == a * Nanos
<1>2. a \in Nat /\ x \in Nat /\ Micros(x) = a
  BY <1>1, MicrosOfWhole
<1>3. Excess = x % period
  BY <1>1 DEF Excess, Since
<1> HIDE DEF a, x
<1>4. x % period \in 0 .. (period - 1) /\ x % period <= x
  BY <1>1, <1>2, SMT
<1>5. Excess \in Nat /\ Excess <= period /\ Excess <= x
  BY <1>1, <1>3, <1>4
<1>6. /\ Micros(Excess) \in Nat /\ Micros(Excess) <= Micros(period)
      /\ Micros(Excess) <= Micros(x)
  BY <1>1, <1>2, <1>5, MicrosGrows
<1>7. QED
  BY <1>2, <1>5, <1>6 DEF a

-----------------------------------------------------------------------------
(* What a tick does with the deadline.                                       *)

Late == now > deadline + Tolerance

\* A tick is taken after its deadline.  A late one goes by the behavior, any other
\* moves the deadline by a period.
LEMMA TickEffect ==
  ASSUME IInv, PollTick
  PROVE  /\ period # 0 /\ ticks < MaxTicks /\ ticks' = ticks + 1
         /\ deadline \in Nat /\ now \in 0..Horizon /\ deadline <= now
         /\ UNCHANGED <<now, period, behavior, origin>>
         /\ wake' = IF deadline' > now THEN deadline' ELSE now
         /\ \/ ~Late /\ deadline' = AddDeadline(deadline, period)
            \/ Late /\ behavior = "Burst" /\ deadline' = AddDeadline(deadline, period)
            \/ Late /\ behavior = "Delay" /\ deadline' = AddDeadline(now, period)
            \/ Late /\ behavior = "Skip" /\ deadline' = Back(AddDeadline(now, period), Excess)
<1>1. /\ period # 0 /\ ticks < MaxTicks /\ ticks' = ticks + 1 /\ now >= wake
      /\ UNCHANGED <<now, period, behavior, origin>>
      /\ wake' = IF deadline' > now THEN deadline' ELSE now
      /\ deadline' = IF now > AddDeadline(deadline, Tolerance * Nanos)
                     THEN NextDeadline(deadline) ELSE AddDeadline(deadline, period)
  BY DEF PollTick, SleepUntil
<1>2. now \in 0..Horizon /\ deadline \in 0..MaxInstant /\ wake \in 0..MaxInstant /\ wake >= deadline
  BY DEF IInv, TypeOK, SleepCovers
<1>3. deadline \in Nat /\ deadline <= now
  BY <1>1, <1>2, Constants
<1>4. now > AddDeadline(deadline, Tolerance * Nanos) <=> Late
  <2> DEFINE a == AddDeadline(deadline, Tolerance * Nanos)
  <2>1. a = deadline + Tolerance \/ (a = now + FarFuture /\ deadline + Tolerance > MaxInstant)
    BY <1>2, Constants, MicrosOfWhole, AddCall DEF IInv
  <2> HIDE DEF a
  <2>2. now > a <=> now > deadline + Tolerance
    BY <1>2, <1>3, <2>1, Constants
  <2>3. QED
    BY <2>2 DEF a, Late
<1>5. behavior \in {"Burst", "Delay", "Skip"}
  BY DEF IInv, TypeOK, Behaviors
<1>6. CASE Late
  BY <1>1, <1>2, <1>3, <1>4, <1>5, <1>6 DEF NextDeadline, Excess
<1>7. CASE ~Late
  BY <1>1, <1>2, <1>3, <1>4, <1>7
<1>8. QED
  BY <1>6, <1>7

-----------------------------------------------------------------------------
(* IInv is inductive.                                                        *)

LEMMA InitIInv == Init => IInv
<1> SUFFICES ASSUME Init PROVE IInv
  OBVIOUS
<1>1. 0 \in 0..Horizon /\ 0 \in 0..MaxInstant /\ 0 \in 0..MaxTicks
  BY Constants
<1>2. QED
  BY <1>1 DEF Init, IInv, TypeOK, SleepCovers, Behaviors

\* All that a new deadline needs: the sleep is made for it.
LEMMA NewDeadlineKeeps ==
  ASSUME IInv, deadline' \in 0..MaxInstant, origin' \in 0..MaxInstant,
         wake' = IF deadline' > now THEN deadline' ELSE now,
         period' \in Periods, ticks' \in 0..MaxTicks, UNCHANGED <<now, behavior>>
  PROVE  IInv'
<1>1. now \in 0..Horizon /\ behavior \in Behaviors
  BY DEF IInv, TypeOK
<1>2. now \in 0..MaxInstant /\ deadline' \in Int /\ now \in Int
  BY <1>1, Constants
<1>3. wake' \in 0..MaxInstant /\ wake' >= deadline'
  BY <1>2
<1>4. period' # 0
  BY Constants
<1>5. QED
  BY <1>1, <1>3, <1>4 DEF IInv, TypeOK, SleepCovers

LEMMA CreateKeeps ==
  ASSUME IInv, NEW start \in {now, now + 2}, NEW p \in Periods, Create(start, p)
  PROVE  IInv'
<1>1. now \in 0..Horizon /\ ticks \in 0..MaxTicks
  BY DEF IInv, TypeOK
<1>2. start \in 0..MaxInstant
  BY <1>1, Constants
<1>3. QED
  BY <1>1, <1>2, NewDeadlineKeeps DEF Create, SleepUntil

LEMMA PollTickKeeps ==
  ASSUME IInv, PollTick
  PROVE  IInv'
<1>1. /\ period \in Periods /\ period \in Nat /\ deadline \in 0..MaxInstant
      /\ now \in 0..MaxInstant /\ origin \in 0..MaxInstant
  BY TickEffect, Constants DEF IInv, TypeOK
<1>2. deadline' \in 0..MaxInstant
  <2>1. /\ AddDeadline(deadline, period) \in 0..MaxInstant
        /\ AddDeadline(now, period) \in 0..MaxInstant
    BY <1>1, AddCall DEF IInv
  <2>2. Late => Excess \in Nat
    BY <1>1, TickEffect, ExcessBounds, Constants DEF IInv, Late
  <2>3. Late => Back(AddDeadline(now, period), Excess) \in 0..MaxInstant
    BY <2>1, <2>2, BackCall
  <2>4. QED
    BY <2>1, <2>3, TickEffect
<1>3. ticks' \in 0..MaxTicks
  BY TickEffect, Constants DEF IInv, TypeOK
<1>4. QED
  BY <1>1, <1>2, <1>3, TickEffect, NewDeadlineKeeps

LEMMA ResetKeeps ==
  ASSUME IInv, NEW instant \in ResetTargets, Reset(instant)
  PROVE  IInv'
<1>1. /\ period \in Periods /\ period \in Nat /\ now \in 0..MaxInstant
      /\ Nanos \in Nat /\ 0 \in 0..MaxTicks
  BY Constants DEF Reset, IInv, TypeOK
<1>2. instant \in 0..MaxInstant
  <2>1. /\ AddDeadline(now, period) \in 0..MaxInstant /\ AddDeadline(now, Nanos) \in 0..MaxInstant
        /\ Back(now, Nanos) \in 0..MaxInstant
    BY <1>1, AddCall, BackCall DEF IInv
  <2>2. QED
    BY <1>1, <2>1 DEF ResetTargets
<1>3. QED
  BY <1>1, <1>2, NewDeadlineKeeps DEF Reset, ResetTo, SleepUntil

LEMMA StepIInv == IInv /\ [Next]_vars => IInv'
<1> SUFFICES ASSUME IInv, [Next]_vars PROVE IInv'
  OBVIOUS
<1>1. CASE UNCHANGED vars
  BY <1>1 DEF vars, IInv, TypeOK, SleepCovers
<1>2. ASSUME NEW b \in Behaviors, SetBehavior(b) PROVE IInv'
  <2>1. 0 \in 0..MaxTicks
    BY Constants
  <2>2. QED
    BY <1>2, <2>1 DEF SetBehavior, IInv, TypeOK, SleepCovers
<1>3. CASE Tick
  <2>1. now' \in 0..Horizon
    BY <1>3, Constants DEF Tick, IInv, TypeOK
  <2>2. QED
    BY <1>3, <2>1 DEF Tick, IInv, TypeOK, SleepCovers
<1>4. QED
  BY <1>1, <1>2, <1>3, CreateKeeps, PollTickKeeps, ResetKeeps DEF Next

THEOREM Invariance == Spec => []IInv
BY InitIInv, StepIInv, PTL DEF Spec

\* No deadline and no sleep leaves the 64 bits of an Instant, whatever the periods and
\* however late the ticks are taken (time.rs:485-488).
THEOREM InstantsFit == Spec => []TypeOK
<1>1. IInv => TypeOK
  BY DEF IInv
<1>2. QED
  BY <1>1, Invariance, PTL

\* No tick is returned before its deadline, whatever resets and changes of behavior
\* came in between (time.rs:559-562).
THEOREM NoEarlyTick == Spec => TickNotEarly
<1>1. IInv /\ [Next]_vars => [Ticked => now >= deadline]_vars
  <2> SUFFICES ASSUME IInv, Next, Ticked PROVE now >= deadline
    BY DEF vars
  <2>1. ticks' # ticks /\ ticks' # 0
    BY Constants DEF Ticked, IInv, TypeOK
  <2>2. PollTick
    BY <2>1 DEF Next, Create, SetBehavior, Reset, Tick
  <2>3. QED
    BY <2>2, TickEffect, Constants
<1>2. QED
  BY <1>1, Invariance, PTL DEF Spec, TickNotEarly

-----------------------------------------------------------------------------
(* Periods of whole microseconds.  Others are truncated, which makes the     *)
(* deadlines drift and lets Skip land on the present.                        *)

AtLeastMicro == \A p \in Periods : p >= Nanos
WholeMicros == \A p \in Periods : p % Nanos = 0

LEMMA WholePeriod ==
  ASSUME WholeMicros, NEW p \in Periods
  PROVE  Micros(p) \in Nat \ {0} /\ p = Micros(p) * Nanos
<1> DEFINE q == p \div Nanos
<1>1. p \in Nat \ {0} /\ Nanos \in Nat \ {0} /\ p % Nanos = 0
  BY Constants DEF WholeMicros
<1>2. q \in Nat
  BY <1>1, SMT
<1>3. p = q * Nanos + 0
  BY <1>1, DivMod
<1> HIDE DEF q
<1>4. p = q * Nanos
  BY <1>1, <1>2, <1>3, Products
<1>5. q # 0
  BY <1>1, <1>4
<1>6. QED
  BY <1>2, <1>4, <1>5 DEF q, Micros

LEMMA PositivePeriod ==
  ASSUME AtLeastMicro, NEW p \in Periods
  PROVE  Micros(p) \in Nat \ {0}
<1>1. p \in Nat /\ Nanos \in Nat /\ Nanos <= p /\ 1 * Nanos = Nanos
  BY Constants DEF AtLeastMicro
<1>2. Micros(Nanos) = 1
  BY <1>1, MicrosOfWhole
<1>3. Micros(p) \in Nat /\ 1 <= Micros(p)
  BY <1>1, <1>2, MicrosGrows
<1>4. QED
  BY <1>3

\* Where a tick that is not made up for leads to: ahead, by at most one period or to
\* the far future.
LEMMA NextAhead ==
  ASSUME IInv, PollTick, AtLeastMicro
  PROVE  /\ deadline' \in Nat /\ deadline' > deadline
         /\ Late /\ behavior = "Delay" =>
              deadline' > now /\ (deadline' <= now + Micros(period) \/ deadline' >= FarFuture)
<1> DEFINE m == Micros(period)
           r == Micros(Excess)
<1>1. /\ period \in Periods /\ period \in Nat /\ m \in Nat \ {0}
      /\ now \in 0..Horizon /\ now \in 0..MaxInstant
      /\ deadline \in 0..MaxInstant /\ deadline \in Nat /\ deadline <= now
  BY TickEffect, PositivePeriod, Constants DEF IInv, TypeOK
<1>2. /\ AddDeadline(deadline, period) \in 0..MaxInstant
      /\ \/ AddDeadline(deadline, period) = deadline + m
         \/ AddDeadline(deadline, period) = now + FarFuture
      /\ AddDeadline(now, period) \in 0..MaxInstant
      /\ AddDeadline(now, period) = now + m \/ AddDeadline(now, period) = now + FarFuture
  BY <1>1, AddCall DEF IInv
<1>3. Late => deadline < now
  BY <1>1, Constants DEF Late
<1>4. Late => /\ Excess \in Nat /\ r \in Nat /\ r <= m /\ r <= now - deadline
  BY <1>1, <1>3, TickEffect, ExcessBounds DEF IInv
<1> HIDE DEF m, r
<1>5. Late => Back(AddDeadline(now, period), Excess) = AddDeadline(now, period) - r
  <2>1. Late => r <= AddDeadline(now, period)
    BY <1>1, <1>2, <1>4, Constants
  <2>2. QED
    BY <1>2, <1>4, <2>1, BackCall DEF r
<1>6. CASE (~Late \/ behavior = "Burst") /\ deadline' = AddDeadline(deadline, period)
  BY <1>1, <1>2, <1>6, Constants
<1>7. CASE Late /\ behavior = "Delay" /\ deadline' = AddDeadline(now, period)
  BY <1>1, <1>2, <1>3, <1>7, Constants DEF m
<1>8. CASE Late /\ behavior = "Skip" /\ deadline' = Back(AddDeadline(now, period), Excess)
  <2>1. deadline' = AddDeadline(now, period) - r /\ deadline < now /\ r \in Nat /\ r <= m /\ r <= now
    BY <1>1, <1>3, <1>4, <1>5, <1>8
  <2>2. deadline' >= now
    BY <1>1, <1>2, <2>1, Constants
  <2>3. deadline' \in Nat
    BY <1>1, <1>2, <2>1, <2>2, Constants
  <2>4. QED
    BY <1>1, <1>8, <2>1, <2>2, <2>3
<1>9. QED
  BY <1>6, <1>7, <1>8, TickEffect

\* The same for Skip, which moves on by whole periods.
LEMMA SkipAhead ==
  ASSUME IInv, PollTick, WholeMicros, Late, behavior = "Skip"
  PROVE  \/ deadline' >= FarFuture
         \/ /\ deadline' > now /\ deadline' <= now + Micros(period)
            /\ \E k \in Int : deadline' = deadline + k * Micros(period)
<1> DEFINE m == Micros(period)
           a == now - deadline
           q == a \div m
           r == a % m
<1>1. /\ period \in Periods /\ period \in Nat /\ m \in Nat \ {0} /\ period = m * Nanos
      /\ now \in 0..Horizon /\ now \in 0..MaxInstant /\ deadline \in Nat
      /\ deadline < now /\ a \in Nat
  <2>1. period # 0 /\ deadline \in Nat /\ now \in 0..Horizon /\ now > deadline + Tolerance
    BY TickEffect DEF Late
  <2>2. period \in Periods /\ period \in Nat
    BY <2>1, Constants DEF IInv, TypeOK
  <2>3. now \in 0..MaxInstant /\ deadline < now /\ a \in Nat
    BY <2>1, Constants
  <2>4. Micros(period) \in Nat \ {0} /\ period = Micros(period) * Nanos
    BY <2>2, WholePeriod
  <2>5. m \in Nat \ {0} /\ period = m * Nanos
    BY ONLY <2>4
  <2> HIDE DEF m, a
  <2>6. QED
    BY <2>1, <2>2, <2>3, <2>5
<1>2. q \in Int /\ r \in 0 .. (m - 1) /\ a = q * m + r
  <2>1. a \in Int /\ m \in Nat \ {0}
    BY <1>1
  <2> HIDE DEF a, m
  <2>2. QED
    BY <2>1, DivMod
<1> HIDE DEF q, r
<1>3. Excess = r * Nanos
  <2>1. Since(now, deadline) = a * Nanos
    BY <1>1 DEF Since
  <2>2. (a * Nanos) % (m * Nanos) = (a % m) * Nanos
    BY <1>1, Constants, ModScale
  <2> HIDE DEF a, m
  <2>3. QED
    BY <1>1, <2>1, <2>2 DEF Excess, r
<1>4. Excess \in Nat /\ Micros(Excess) = r
  BY <1>2, <1>3, MicrosOfWhole
<1>5. Micros(Excess) <= a
  BY <1>1, TickEffect, ExcessBounds DEF IInv
<1>6. /\ AddDeadline(now, period) \in 0..MaxInstant
      /\ \/ AddDeadline(now, period) = now + m
         \/ AddDeadline(now, period) = now + FarFuture
  BY <1>1, AddCall DEF IInv
<1>7. deadline' = Back(AddDeadline(now, period), Excess)
  BY TickEffect
<1> DEFINE n == AddDeadline(now, period)
<1>8. deadline' = n - r
  <2>1. r <= n
    BY <1>1, <1>2, <1>4, <1>5, <1>6, Constants
  <2>2. QED
    BY <1>4, <1>6, <1>7, <2>1, BackCall
<1> HIDE DEF n
<1>9. CASE n = now + FarFuture
  <2>1. deadline' >= FarFuture
    BY <1>1, <1>2, <1>4, <1>5, <1>8, <1>9, Constants
  <2>2. QED
    BY <2>1
<1>10. CASE n = now + m
  <2>1. deadline' > now /\ deadline' <= now + m
    BY <1>1, <1>2, <1>8, <1>10
  <2>2. q * m \in Int /\ (q + 1) * m = q * m + m
    BY <1>1, <1>2, Products
  <2>3. deadline' = deadline + (q + 1) * m
    BY <1>1, <1>2, <1>8, <1>10, <2>2
  <2>4. q + 1 \in Int
    BY <1>2
  <2>5. QED
    BY <2>1, <2>3, <2>4
<1>11. QED
  BY <1>6, <1>9, <1>10 DEF n

\* Each tick moves the deadline on if no period is shorter than what an Instant tells
\* apart: that much of the doc comment of Interval (time.rs:504-505) is true.
THEOREM TicksMoveOn == ASSUME AtLeastMicro PROVE Spec => DeadlineAdvances
<1>1. IInv /\ [Next]_vars => [Ticked => deadline' > deadline]_vars
  <2> SUFFICES ASSUME IInv, Next, Ticked PROVE deadline' > deadline
    BY DEF vars
  <2>1. ticks' # ticks /\ ticks' # 0
    BY Constants DEF Ticked, IInv, TypeOK
  <2>2. PollTick
    BY <2>1 DEF Next, Create, SetBehavior, Reset, Tick
  <2>3. QED
    BY <2>2, NextAhead
<1>2. QED
  BY <1>1, Invariance, PTL DEF Spec, DeadlineAdvances

LEMMA WholeIsPositive == ASSUME WholeMicros PROVE AtLeastMicro
<1> SUFFICES ASSUME NEW p \in Periods PROVE p >= Nanos
  BY DEF AtLeastMicro
<1>1. Micros(p) \in Nat \ {0} /\ p = Micros(p) * Nanos
  BY WholePeriod
<1>2. 1 * Nanos <= Micros(p) * Nanos /\ 1 * Nanos = Nanos
  BY <1>1, Constants, ProductGrows
<1>3. QED
  BY <1>1, <1>2

\* A missed tick is made up for by Burst only, for all periods of whole microseconds.
THEOREM LateTickNotMadeUp == ASSUME WholeMicros PROVE Spec => MissedTickNotMadeUp
<1>1. IInv /\ [Next]_vars =>
        [Ticked /\ now > deadline + Tolerance /\ behavior # "Burst"
           => deadline' > now /\ (Reachable(deadline') => deadline' <= now + Micros(period))]_vars
  <2> SUFFICES ASSUME IInv, Next, Ticked, Late, behavior # "Burst"
               PROVE  deadline' > now /\ (Reachable(deadline') => deadline' <= now + Micros(period))
    BY DEF vars, Late
  <2>1. ticks' # ticks /\ ticks' # 0
    BY Constants DEF Ticked, IInv, TypeOK
  <2>2. PollTick
    BY <2>1 DEF Next, Create, SetBehavior, Reset, Tick
  <2>3. behavior \in {"Delay", "Skip"} /\ now \in 0..Horizon /\ deadline' \in Nat
    BY <2>2, NextAhead, WholeIsPositive DEF IInv, TypeOK, Behaviors
  <2>4. \/ deadline' >= FarFuture
        \/ deadline' > now /\ deadline' <= now + Micros(period)
    BY <2>2, <2>3, NextAhead, SkipAhead, WholeIsPositive
  <2>5. QED
    BY <2>3, <2>4, Constants DEF Reachable
<1>2. QED
  BY <1>1, Invariance, PTL DEF Spec, MissedTickNotMadeUp

-----------------------------------------------------------------------------
(* The grid of deadlines                                                     *)

LEMMA ZeroOnGrid ==
  ASSUME NEW m \in Nat
  PROVE  0 * m = 0 /\ (m # 0 => 0 % m = 0)
<1>1. 0 * m = 0
  BY SMT
<1>2. ASSUME m # 0 PROVE 0 % m = 0
  BY <1>1, <1>2, ModIs
<1>3. QED
  BY <1>1, <1>2

\* A deadline that was just set is the first one of its own grid.
LEMMA FirstOnGrid ==
  ASSUME NEW d \in Int, NEW p \in Periods, WholeMicros
  PROVE  d = d + 0 * Micros(p) /\ (d - d) % Micros(p) = 0
<1>1. Micros(p) \in Nat \ {0}
  BY WholePeriod
<1>2. QED
  BY <1>1, ZeroOnGrid

\* One tick later: Burst is one period further, Skip some.
LEMMA TickOnGrid ==
  ASSUME IInv, DeadlineOnGrid, PollTick, WholeMicros
  PROVE  DeadlineOnGrid'
<1> DEFINE m == Micros(period)
<1>1. /\ period \in Periods /\ period \in Nat /\ m \in Nat \ {0}
      /\ deadline \in Nat /\ deadline \in 0..MaxInstant /\ now \in 0..Horizon /\ deadline <= now
      /\ origin \in Int /\ ticks \in Int /\ ticks' = ticks + 1
      /\ UNCHANGED <<period, behavior, origin>>
      /\ deadline' \in Nat
  BY TickEffect, WholePeriod, NextAhead, WholeIsPositive, Constants DEF IInv, TypeOK
<1>2. /\ behavior = "Burst" => deadline = origin + ticks * m
      /\ behavior = "Skip" => (deadline - origin) % m = 0
  BY <1>1, Constants DEF DeadlineOnGrid, Reachable
<1>3. AddDeadline(deadline, period) = deadline + m \/ AddDeadline(deadline, period) >= FarFuture
  BY <1>1, AddCall, Constants DEF IInv
<1> HIDE DEF m
<1>4. ASSUME Reachable(deadline'), behavior = "Burst" PROVE deadline' = origin + ticks' * m
  <2>1. deadline' = deadline + m
    BY <1>1, <1>3, <1>4, TickEffect, Constants DEF Reachable
  <2>2. ticks' * m = ticks * m + m /\ ticks * m \in Int
    BY <1>1, Products
  <2>3. QED
    BY <1>1, <1>2, <1>4, <2>1, <2>2
<1>5. ASSUME Reachable(deadline'), behavior = "Skip" PROVE (deadline' - origin) % m = 0
  <2>1. PICK k \in Int : deadline' = deadline + k * m
    <3>1. CASE Late
      BY <1>5, <3>1, SkipAhead, NextAhead, WholeIsPositive, Constants DEF Reachable, m
    <3>2. CASE ~Late
      <4>1. deadline' = deadline + m
        BY <1>1, <1>3, <1>5, <3>2, TickEffect, Constants DEF Reachable
      <4>2. m = 1 * m
        BY <1>1
      <4>3. QED
        BY <4>1, <4>2
    <3>3. QED
      BY <3>1, <3>2
  <2> DEFINE x == deadline - origin
  <2>2. x \in Int /\ x % m = 0
    BY <1>1, <1>2, <1>5
  <2>3. deadline' - origin = x + k * m
    <3>1. k * m \in Int
      BY <1>1, Products
    <3>2. QED
      BY <1>1, <2>1, <3>1
  <2> DEFINE z == x + k * m
  <2> HIDE DEF x
  <2>4. z % m = 0 /\ deadline' - origin = z
    BY <1>1, <2>2, <2>3, GridStep
  <2> HIDE DEF z
  <2>5. QED
    BY <2>4
<1>6. QED
  BY <1>1, <1>4, <1>5 DEF DeadlineOnGrid, m

LEMMA StepOnGrid == ASSUME WholeMicros PROVE IInv /\ DeadlineOnGrid /\ [Next]_vars => DeadlineOnGrid'
<1> SUFFICES ASSUME IInv, DeadlineOnGrid, [Next]_vars PROVE DeadlineOnGrid'
  OBVIOUS
<1>1. /\ period \in Periods \cup {0} /\ deadline \in Int /\ now \in Int
      /\ period = 0 => ticks = 0
  BY Constants DEF IInv, TypeOK, SleepCovers
<1>2. CASE UNCHANGED vars
  BY <1>2 DEF vars, DeadlineOnGrid, Reachable
<1>3. ASSUME NEW start \in {now, now + 2}, NEW p \in Periods, Create(start, p) PROVE DeadlineOnGrid'
  <2>1. deadline' = start /\ origin' = start /\ period' = p /\ ticks' = 0 /\ start \in Int
    BY <1>1, <1>3 DEF Create
  <2>2. QED
    BY <2>1, FirstOnGrid DEF DeadlineOnGrid
<1>4. ASSUME NEW b \in Behaviors, SetBehavior(b) PROVE DeadlineOnGrid'
  BY <1>1, <1>4, FirstOnGrid DEF SetBehavior, DeadlineOnGrid
<1>5. ASSUME NEW instant \in ResetTargets, Reset(instant) PROVE DeadlineOnGrid'
  <2>1. deadline' = instant /\ origin' = instant /\ period' = period /\ ticks' = 0 /\ period \in Periods
    BY <1>1, <1>5 DEF Reset, ResetTo
  <2>2. deadline' \in Int
    BY <1>5, ResetKeeps, Constants DEF IInv, TypeOK
  <2>3. QED
    BY <2>1, <2>2, FirstOnGrid DEF DeadlineOnGrid
<1>6. CASE Tick
  BY <1>6 DEF Tick, DeadlineOnGrid, Reachable
<1>7. QED
  BY <1>2, <1>3, <1>4, <1>5, <1>6, TickOnGrid DEF Next

\* The n-th deadline of Burst lies n periods after the first, and Skip stays on that
\* grid, however late the ticks are taken (time.rs:493-499).
THEOREM TicksOnGrid == ASSUME WholeMicros PROVE Spec => []DeadlineOnGrid
<1>1. Init => DeadlineOnGrid
  <2> SUFFICES ASSUME Init PROVE DeadlineOnGrid
    OBVIOUS
  <2>1. /\ Micros(0) = 0 /\ 0 * 0 = 0
    BY MicrosOfWhole, Constants
  <2>2. QED
    BY <2>1 DEF Init, DeadlineOnGrid
<1>2. QED
  BY <1>1, StepOnGrid, Invariance, PTL DEF Spec

-----------------------------------------------------------------------------
(* Whatever the periods                                                      *)

\* No behavior but Burst leaves a deadline behind the tick that was missed.
NoneBehind ==
  [][Ticked /\ now > deadline + Tolerance /\ behavior # "Burst"
       => deadline' >= now /\ (Reachable(deadline') => deadline' <= now + Micros(period))]_vars

LEMMA LateTick ==
  ASSUME IInv, PollTick, Late, behavior # "Burst"
  PROVE  deadline' >= now /\ (Reachable(deadline') => deadline' <= now + Micros(period))
<1> DEFINE m == Micros(period)
           r == Micros(Excess)
           a == AddDeadline(now, period)
<1>1. /\ period # 0 /\ period \in Nat /\ m \in Nat /\ deadline \in Nat /\ deadline < now
      /\ now \in 0..Horizon /\ now \in 0..MaxInstant /\ now \in Nat
  BY TickEffect, MicrosGrows, Constants DEF IInv, TypeOK, Late
<1>2. a \in 0..MaxInstant /\ (a = now + m \/ a = now + FarFuture)
  BY <1>1, AddCall DEF IInv
<1>3. Excess \in Nat /\ r \in Nat /\ r <= m /\ r <= now - deadline
  BY <1>1, ExcessBounds DEF IInv
<1>4. deadline' = a \/ deadline' = Back(a, Excess)
  BY TickEffect
<1>5. r <= a => Back(a, Excess) = a - r
  BY <1>2, <1>3, BackCall
<1> HIDE DEF m, r, a
<1>6. r <= a
  BY <1>1, <1>2, <1>3, Constants
<1>7. \E s \in 0..r : deadline' = a - s
  <2>1. 0 \in 0..r /\ r \in 0..r /\ a = a - 0
    BY <1>2, <1>3, Constants
  <2>2. QED
    BY <1>4, <1>5, <1>6, <2>1
<1>8. PICK s \in 0..r : deadline' = a - s
  BY <1>7
<1>9. deadline' >= now /\ (deadline' < FarFuture => deadline' <= now + m)
  <2>1. CASE a = now + m
    BY <1>1, <1>3, <1>8, <2>1
  <2>2. CASE a = now + FarFuture
    BY <1>1, <1>3, <1>8, <2>2, Constants
  <2>3. QED
    BY <1>2, <2>1, <2>2
<1>10. QED
  BY <1>9 DEF Reachable, m

\* After a late tick Delay and Skip go on from now or later, whatever the periods:
\* truncation costs no more than the difference to MissedTickNotMadeUp, that the
\* next tick may be due at once (time.rs:494-498).
THEOREM LateTickLeavesNoneBehind == Spec => NoneBehind
<1>1. IInv /\ [Next]_vars =>
        [Ticked /\ now > deadline + Tolerance /\ behavior # "Burst"
           => deadline' >= now /\ (Reachable(deadline') => deadline' <= now + Micros(period))]_vars
  <2> SUFFICES ASSUME IInv, Next, Ticked, Late, behavior # "Burst"
               PROVE  deadline' >= now /\ (Reachable(deadline') => deadline' <= now + Micros(period))
    BY DEF vars, Late
  <2>1. ticks' # ticks /\ ticks' # 0
    BY Constants DEF Ticked, IInv, TypeOK
  <2>2. PollTick
    BY <2>1 DEF Next, Create, SetBehavior, Reset, Tick
  <2>3. QED
    BY <2>2, LateTick
<1>2. QED
  BY <1>1, Invariance, PTL DEF Spec, NoneBehind

\* How far Skip leaves the grid: beside the one period it goes on by anyway, it skips k
\* whole periods, in nanoseconds, and what it adds is less than a microsecond.
SkipFollowsPeriod ==
  [][Ticked /\ now > deadline + Tolerance /\ behavior = "Skip" /\ Reachable(deadline')
       => \E k \in Nat : (deadline' - deadline - Micros(period)) * Nanos
                           \in k * period .. (k * period + Nanos - 1)]_vars

LEMMA SkipLength ==
  ASSUME IInv, PollTick, Late, behavior = "Skip", Reachable(deadline')
  PROVE  \E k \in Nat : (deadline' - deadline - Micros(period)) * Nanos
                          \in k * period .. (k * period + Nanos - 1)
<1> DEFINE m == Micros(period)
           a == now - deadline
           x == a * Nanos
           k == x \div period
           e == Excess
           r == Micros(e)
           s == e % Nanos
<1>1. /\ period \in Nat \ {0} /\ m \in Nat /\ deadline \in Nat /\ deadline < now
      /\ now \in 0..Horizon /\ now \in 0..MaxInstant /\ now \in Nat /\ a \in Nat /\ x \in Nat
      /\ Nanos \in Nat \ {0}
  BY TickEffect, MicrosGrows, MicrosOfWhole, Constants DEF IInv, TypeOK, Late
\* The delay is k periods and the excess, and the excess is cut off to microseconds.
<1>2. /\ e = x % period /\ k \in Nat /\ e \in Nat /\ x = k * period + e
      /\ r \in Int /\ s \in 0 .. (Nanos - 1) /\ e = r * Nanos + s
  <2>1. e = x % period
    BY <1>1 DEF Excess, Since
  <2> HIDE DEF x, e
  <2>2. k \in Nat /\ x % period \in 0 .. (period - 1) /\ x = k * period + (x % period)
    <3>1. k \in Nat
      BY <1>1, SMT
    <3>2. x \in Int
      BY <1>1
    <3>3. QED
      BY <1>1, <3>1, <3>2, DivMod
  <2>3. e \in Nat
    BY <1>1, <2>1, <2>2
  <2>4. r \in Int /\ s \in 0 .. (Nanos - 1) /\ e = r * Nanos + s
    BY <1>1, <2>3, DivMod DEF Micros
  <2>5. QED
    BY <2>1, <2>2, <2>3, <2>4
<1>3. r \in Nat /\ r <= m /\ r <= a
  BY <1>1, ExcessBounds DEF IInv
<1>4. deadline' = now + m - r
  <2> DEFINE n == AddDeadline(now, period)
  <2>1. n \in 0..MaxInstant /\ (n = now + m \/ n = now + FarFuture)
    BY <1>1, AddCall DEF IInv
  <2>2. r <= n => deadline' = n - r
    BY <1>2, <2>1, TickEffect, BackCall
  <2> HIDE DEF m, r, n
  <2>3. n # now + FarFuture
    BY <1>1, <1>3, <2>2, Constants DEF Reachable
  <2>4. QED
    BY <1>1, <1>3, <2>1, <2>2, <2>3
<1> DEFINE d == deadline' - deadline - m
<1>5. d = a - r /\ d \in Int
  <2> HIDE DEF m, r
  <2>1. QED
    BY <1>1, <1>3, <1>4
<1> HIDE DEF m, k, e, r, s, d
<1>6. d * Nanos = k * period + s
  <2>1. d * Nanos = a * Nanos - r * Nanos /\ r * Nanos \in Int
    BY <1>1, <1>3, <1>5, Products
  <2> HIDE DEF a
  <2>2. k * period \in Int
    BY <1>1, <1>2, Products
  <2>3. QED
    BY <1>1, <1>2, <2>1, <2>2
<1>7. d * Nanos \in k * period .. (k * period + Nanos - 1)
  <2>1. k * period \in Int
    BY <1>1, <1>2, Products
  <2>2. QED
    BY <1>1, <1>2, <1>6, <2>1
<1>8. QED
  BY <1>2, <1>7 DEF d, m

\* Whatever the period and however late the tick, Skip leaves out whole periods and
\* drifts from them by less than a microsecond (time.rs:494-498).
THEOREM SkipDriftsLittle == Spec => SkipFollowsPeriod
<1>1. IInv /\ [Next]_vars =>
        [Ticked /\ now > deadline + Tolerance /\ behavior = "Skip" /\ Reachable(deadline')
           => \E k \in Nat : (deadline' - deadline - Micros(period)) * Nanos
                               \in k * period .. (k * period + Nanos - 1)]_vars
  <2> SUFFICES ASSUME IInv, Next, Ticked, Late, behavior = "Skip", Reachable(deadline')
               PROVE  \E k \in Nat : (deadline' - deadline - Micros(period)) * Nanos
                                       \in k * period .. (k * period + Nanos - 1)
    BY DEF vars, Late
  <2>1. ticks' # ticks /\ ticks' # 0
    BY Constants DEF Ticked, IInv, TypeOK
  <2>2. PollTick
    BY <2>1 DEF Next, Create, SetBehavior, Reset, Tick
  <2>3. QED
    BY <2>2, SkipLength
<1>2. QED
  BY <1>1, Invariance, PTL DEF Spec, SkipFollowsPeriod

\* The deadlines of Burst, in whole microseconds
BurstOnGrid ==
  behavior = "Burst" /\ Reachable(deadline) => deadline = origin + ticks * Micros(period)

LEMMA StepBurstOnGrid == IInv /\ BurstOnGrid /\ [Next]_vars => BurstOnGrid'
<1> SUFFICES ASSUME IInv, BurstOnGrid, [Next]_vars PROVE BurstOnGrid'
  OBVIOUS
<1>1. /\ \A p \in Periods \cup {0} : Micros(p) \in Nat /\ 0 * Micros(p) = 0
      /\ period \in Periods \cup {0} /\ now \in Int /\ {deadline, origin, ticks} \subseteq Int
      /\ {deadline', origin'} \subseteq Int
      /\ period = 0 => ticks = 0
  BY StepIInv, Constants, MicrosGrows, ZeroOnGrid DEF IInv, TypeOK, SleepCovers
<1>2. ASSUME period' \in Periods \cup {0}, ticks' = 0, origin' = deadline' PROVE BurstOnGrid'
  BY <1>1, <1>2 DEF BurstOnGrid
<1>3. ASSUME NEW start \in {now, now + 2}, NEW p \in Periods, Create(start, p) PROVE BurstOnGrid'
  BY <1>1, <1>2, <1>3 DEF Create
<1>4. ASSUME NEW b \in Behaviors, SetBehavior(b) PROVE BurstOnGrid'
  BY <1>1, <1>2, <1>4 DEF SetBehavior
<1>5. ASSUME NEW instant \in ResetTargets, Reset(instant) PROVE BurstOnGrid'
  BY <1>1, <1>2, <1>5 DEF Reset, ResetTo
<1>6. CASE PollTick
  <2> SUFFICES ASSUME behavior' = "Burst", Reachable(deadline')
               PROVE  deadline' = origin' + ticks' * Micros(period')
    BY DEF BurstOnGrid
  <2> DEFINE m == Micros(period)
  <2>1. /\ deadline' = AddDeadline(deadline, period) /\ ticks' = ticks + 1
        /\ UNCHANGED <<period, behavior, origin>> /\ deadline <= now /\ now \in 0..Horizon
    BY <1>6, TickEffect
  <2>2. m \in Nat /\ deadline \in Nat /\ deadline \in 0..MaxInstant /\ period \in Nat
    BY <1>1, <1>6, TickEffect, Constants DEF IInv, TypeOK
  <2>3. AddDeadline(deadline, period) = deadline + m \/ AddDeadline(deadline, period) >= FarFuture
    BY <2>1, <2>2, AddCall, Constants DEF IInv
  <2> HIDE DEF m
  <2>4. deadline' = deadline + m
    BY <1>1, <2>1, <2>3, Constants DEF Reachable
  <2>5. deadline = origin + ticks * m
    BY <2>1, <2>2, Constants DEF BurstOnGrid, Reachable, m
  <2>6. ticks' * m = ticks * m + m /\ ticks * m \in Int
    BY <1>1, <2>1, <2>2, Products
  <2>7. deadline' = origin + ticks' * m
    BY <1>1, <2>2, <2>4, <2>5, <2>6
  <2>8. QED
    BY <2>1, <2>7 DEF m
<1>7. CASE Tick
  BY <1>7 DEF Tick, BurstOnGrid, Reachable
<1>8. CASE UNCHANGED vars
  BY <1>8 DEF vars, BurstOnGrid, Reachable
<1>9. QED
  BY <1>3, <1>4, <1>5, <1>6, <1>7, <1>8 DEF Next

\* Whatever the periods, Burst loses no tick: the n-th deadline lies n periods, each
\* in whole microseconds, after the first (time.rs:493).
THEOREM BurstLosesNone == Spec => []BurstOnGrid
<1>1. Init => BurstOnGrid
  <2> SUFFICES ASSUME Init PROVE BurstOnGrid
    OBVIOUS
  <2>1. /\ Micros(0) = 0 /\ 0 * 0 = 0
    BY MicrosOfWhole, Constants
  <2>2. QED
    BY <2>1 DEF Init, BurstOnGrid
<1>2. QED
  BY <1>1, StepBurstOnGrid, Invariance, PTL DEF Spec
=============================================================================
