---------------------------- MODULE JsSleepProofs ----------------------------
(***************************************************************************)
(* Machine-checked proofs about JsSleep, for every resolution of the timer, *)
(* every longest delay and every set of durations.                         *)
(***************************************************************************)
EXTENDS JsSleep, TLAPS

\* Bounds from below carry over.
LEMMA LaterThanBoth ==
  ASSUME NEW T, T \subseteq Nat, NEW rest \in Nat, NEW a \in Nat, NEW b \in Nat,
         \A t \in T : t + rest >= a,
         a >= b
  PROVE  \A t \in T : t + rest >= b
  OBVIOUS

-----------------------------------------------------------------------------
(* Chunks and delays.                                                        *)

\* Rounding up never makes a delay shorter than the chunk, and by less than a
\* millisecond longer.
LEMMA DelayCovers ==
  ASSUME NEW chunk \in Nat
  PROVE  /\ Delay(chunk) \in Nat
         /\ Delay(chunk) * Milli >= chunk
         /\ Delay(chunk) * Milli <= chunk + (Milli - 1)
<1> DEFINE a == chunk + (Milli - 1)
           q == a \div Milli
<1>1. Milli \in Nat \ {0} /\ a \in Nat
  BY TimeAssumption
<1>2. q \in Nat /\ q * Milli <= a /\ a < (q + 1) * Milli
  BY <1>1, SMT
<1>3. (q + 1) * Milli = q * Milli + Milli
  BY <1>1, <1>2, SMT
<1>4. q * Milli \in Nat
  BY <1>1, <1>2, SMT
<1> HIDE DEF q
<1>5. q * Milli >= chunk
  BY <1>1, <1>2, <1>3, <1>4
<1>6. QED
  BY <1>2, <1>5 DEF Delay, q

\* A chunk takes no more than what is left, and its delay is never too long for
\* setTimeout.
LEMMA ChunkFits ==
  ASSUME NEW left \in Nat
  PROVE  /\ Chunk(left) \in 0..left
         /\ Delay(Chunk(left)) <= MaxDelay
<1>1. MaxTimeout \in Nat /\ Chunk(left) \in Nat
  BY TimeAssumption, SMT DEF MaxTimeout, Chunk
<1>2. Chunk(left) <= left /\ Chunk(left) <= MaxTimeout
  BY <1>1 DEF Chunk
<1> DEFINE q == Delay(Chunk(left))
<1>3. q \in Nat /\ q * Milli <= Chunk(left) + (Milli - 1)
  BY <1>1, DelayCovers
<1> HIDE DEF q
<1>4. q * Milli <= MaxDelay * Milli + Milli - 1
  BY <1>1, <1>2, <1>3, TimeAssumption, SMT DEF MaxTimeout
<1>5. q <= MaxDelay
  BY <1>3, <1>4, TimeAssumption, SMT
<1>6. QED
  BY <1>1, <1>2, <1>5 DEF q

\* After arm() the timer and the part that is left reach as far as the duration
\* that was to be slept.
LEMMA ArmCovers ==
  ASSUME now \in Nat, NEW left \in Nat, Arm(left)
  PROVE  /\ remaining' \in Nat
         /\ timeoutId' = TRUE
         /\ timer' \subseteq Nat /\ timer' # {}
         /\ \A due \in timer' : due + remaining' >= now + left
<1> DEFINE c == Chunk(left)
           due == Due(Delay(c))
<1>1. c \in 0..left /\ Delay(c) <= MaxDelay
  BY ChunkFits
<1>2. Delay(c) \in Nat /\ Delay(c) * Milli >= c
  BY <1>1, DelayCovers
<1>3. MaxDelay \in Nat /\ Delay(c) * Milli \in Nat
  BY <1>2, TimeAssumption, SMT
<1>4. due = now + Delay(c) * Milli
  BY <1>1, <1>2, <1>3 DEF Due
<1>5. remaining' = left - c /\ timer' = {due} /\ timeoutId' = TRUE
  BY DEF Arm
<1> HIDE DEF due, c
<1>6. due \in Nat /\ due + remaining' >= now + left /\ remaining' \in Nat
  BY <1>1, <1>2, <1>3, <1>4, <1>5
<1>7. QED
  BY <1>5, <1>6

-----------------------------------------------------------------------------
(* The inductive invariant.                                                  *)

\* Before the sleep exists there is nothing that could happen.
NothingBefore ==
  life = "none" => task = "busy" /\ timer = {} /\ ~fired /\ ~waker /\ ~calling

IInv == /\ TypeOK /\ NeverEarly /\ NoTimerAfterDrop /\ WaiterHasWaker
        /\ RefsCounted /\ NothingBefore

\* A timer is armed only for a sleep that is alive, whose reference keeps inner.
LEMMA CountedIsKept ==
  ASSUME TypeOK, NoTimerAfterDrop, NothingBefore, RefsCounted
  PROVE  CallbackLifetime
<1>1. CASE calling
  BY <1>1 DEF RefsCounted, CallbackLifetime, TypeOK
<1>2. CASE ~calling
  <2>1. timer # {} => life = "alive"
    BY DEF TypeOK, NoTimerAfterDrop, NothingBefore
  <2>2. refs = IF life = "alive" THEN 1 ELSE 0
    BY <1>2 DEF RefsCounted
  <2>3. QED
    BY <1>2, <2>1, <2>2 DEF CallbackLifetime
<1>3. QED
  BY <1>1, <1>2

LEMMA InitIInv == Init => IInv
<1> SUFFICES ASSUME Init
             PROVE  IInv
  OBVIOUS
<1>1. Horizon \in Nat
  BY TimeAssumption
<1>2. TypeOK
  <2>1. {fired, waker, timeoutId, calling} \subseteq BOOLEAN /\ refs \in Nat
    BY DEF Init
  <2>2. life \in {"none", "alive", "dropped"} /\ life # "alive" /\ task \in {"busy", "waiting", "woken"}
    BY DEF Init
  <2>3. now \in 0..Horizon /\ deadline \in Nat /\ remaining \in Nat /\ timer \subseteq Nat
    BY <1>1 DEF Init
  <2>4. QED
    BY <2>1, <2>2, <2>3 DEF TypeOK
<1>3. NeverEarly
  BY DEF Init, NeverEarly
<1>4. NoTimerAfterDrop /\ WaiterHasWaker /\ RefsCounted /\ NothingBefore
  BY DEF Init, NoTimerAfterDrop, WaiterHasWaker, RefsCounted, NothingBefore
<1>5. QED
  BY <1>2, <1>3, <1>4 DEF IInv

\* The creation arms a timer that, with the rest, covers the whole duration.
LEMMA NewIInv ==
  ASSUME IInv, NEW d \in Durations, New(d)
  PROVE  IInv'
<1> USE DEF IInv
<1>1. now \in Nat /\ d \in Nat
  BY TimeAssumption DEF TypeOK
<1>2. /\ remaining' \in Nat
      /\ timeoutId' = TRUE
      /\ timer' \subseteq Nat /\ timer' # {}
      /\ \A due \in timer' : due + remaining' >= now + d
  BY <1>1, ArmCovers DEF New
<1>3. fired = FALSE /\ waker = FALSE /\ calling = FALSE /\ task = "busy"
  BY DEF New, NothingBefore, TypeOK
<1>4. TypeOK'
  <2>1. /\ now' = now /\ fired' = FALSE /\ waker' = FALSE /\ calling' = FALSE
        /\ refs' = 1 /\ task' = "busy"
        /\ life' = "alive" /\ deadline' = now + d
    BY <1>3 DEF New, NewRefs
  <2>2. now + d \in Nat
    BY <1>1
  <2>3. timer' \subseteq Nat /\ timer' # {}
    BY <1>2
  <2>4. {fired', waker', timeoutId', calling'} \subseteq BOOLEAN
    BY <1>2, <2>1 DEF TypeOK
  <2>5. QED
    BY <1>2, <2>1, <2>2, <2>3, <2>4 DEF TypeOK
<1>5. NeverEarly'
  BY <1>1, <1>2, <1>3 DEF NeverEarly, New
<1>6. NoTimerAfterDrop' /\ WaiterHasWaker' /\ NothingBefore'
  BY <1>3 DEF New, NoTimerAfterDrop, WaiterHasWaker, NothingBefore
<1>7. RefsCounted'
  BY <1>3 DEF New, NewRefs, RefsCounted
<1>8. QED
  BY <1>4, <1>5, <1>6, <1>7

\* A callback finds the sleep alive, and its reference the only one: the upgrade of the
\* weak one succeeds.
LEMMA CalledAlive ==
  ASSUME IInv, Callback
  PROVE  life = "alive" /\ refs = 1 /\ calling = FALSE /\ fired = FALSE
<1>1. calling = FALSE /\ refs > 0 /\ timer # {}
  BY DEF IInv, TypeOK, Callback
<1>2. life = "alive"
  BY <1>1 DEF IInv, RefsCounted
<1>3. refs = 1
  BY <1>1, <1>2 DEF IInv, RefsCounted
<1>4. fired = FALSE
  BY <1>1, <1>2 DEF IInv, TypeOK
<1>5. QED
  BY <1>1, <1>2, <1>3, <1>4

\* The last timer has run out, so nothing of the duration is left.
LEMMA FireIInv ==
  ASSUME IInv, Callback, Fire
  PROVE  IInv'
<1> USE DEF IInv, Callback, Fire
<1>1. PICK due \in timer : now >= due
  OBVIOUS
<1>2. life = "alive" /\ refs = 1 /\ calling = FALSE /\ fired = FALSE
  BY CalledAlive
<1>3. due \in Nat /\ due + remaining >= deadline
  BY <1>1, <1>2 DEF TypeOK, NeverEarly
<1>4. now >= deadline
  BY <1>1, <1>3 DEF TypeOK
<1>5. task' \in {"busy", "woken"}
  BY DEF Woken, WaiterHasWaker, TypeOK
<1>6. calling' = waker /\ refs' = IF waker THEN 2 ELSE 1
  BY <1>2
<1>7. calling' \in BOOLEAN /\ refs' \in Nat
  BY <1>6 DEF TypeOK
<1>8. TypeOK'
  BY <1>2, <1>5, <1>7 DEF TypeOK
<1>9. NeverEarly'
  BY <1>4 DEF NeverEarly
<1>10. RefsCounted'
  BY <1>2, <1>6 DEF RefsCounted, TypeOK
<1>11. NoTimerAfterDrop' /\ WaiterHasWaker' /\ NothingBefore'
  BY <1>2, <1>5 DEF NoTimerAfterDrop, WaiterHasWaker, NothingBefore
<1>12. QED
  BY <1>8, <1>9, <1>10, <1>11

\* The next chunk starts when the last one has run out, so the sum stays.
LEMMA RearmIInv ==
  ASSUME IInv, Callback, Rearm
  PROVE  IInv'
<1>1. now \in Nat /\ remaining \in Nat /\ deadline \in Nat
  BY TimeAssumption DEF IInv, TypeOK
<1>2. fired = FALSE /\ life = "alive"
  BY CalledAlive
<1>3. now + remaining >= deadline
  <2>1. PICK last \in timer : now >= last
    BY DEF Callback
  <2>2. last \in Nat /\ last + remaining >= deadline
    BY <1>2, <2>1 DEF IInv, TypeOK, NeverEarly
  <2>3. QED
    BY <1>1, <2>1, <2>2
<1>4. /\ remaining' \in Nat
      /\ timeoutId' = TRUE
      /\ timer' \subseteq Nat /\ timer' # {}
      /\ \A due \in timer' : due + remaining' >= now + remaining
  BY <1>1, ArmCovers DEF Rearm
<1>5. TypeOK'
  BY <1>2, <1>4 DEF IInv, Callback, Rearm, TypeOK
<1>6. \A due \in timer' : due + remaining' >= deadline
  <2>1. now + remaining \in Nat
    BY <1>1
  <2>2. QED
    BY <1>1, <1>3, <1>4, <2>1, LaterThanBoth
<1>7. fired' = FALSE /\ deadline' = deadline
  BY <1>2 DEF Callback, Rearm
<1>8. NeverEarly'
  BY <1>6, <1>7 DEF NeverEarly
<1>9. NoTimerAfterDrop' /\ WaiterHasWaker' /\ RefsCounted' /\ NothingBefore'
  BY DEF IInv, Callback, Rearm, NoTimerAfterDrop, WaiterHasWaker, RefsCounted, NothingBefore
<1>10. QED
  BY <1>5, <1>8, <1>9 DEF IInv

\* A poll registers a waker unless the sleep has ended.
LEMMA PollIInv ==
  ASSUME IInv, Poll
  PROVE  IInv'
<1> USE DEF IInv, Poll
<1>1. \/ fired = TRUE /\ task' = "busy" /\ waker' = waker
      \/ fired = FALSE /\ task' = "waiting" /\ waker' = TRUE
  BY DEF PollInner, TypeOK
<1>2. TypeOK'
  BY <1>1 DEF TypeOK
<1>3. NeverEarly'
  BY DEF NeverEarly
<1>4. NoTimerAfterDrop' /\ WaiterHasWaker' /\ RefsCounted' /\ NothingBefore'
  BY <1>1 DEF NoTimerAfterDrop, WaiterHasWaker, RefsCounted, NothingBefore
<1>5. QED
  BY <1>2, <1>3, <1>4

\* The drop clears the timer if there is one.
LEMMA DropIInv ==
  ASSUME IInv, Drop
  PROVE  IInv'
<1> USE DEF IInv, Drop
<1>1. refs' = (IF calling THEN 1 ELSE 0) /\ refs' \in Nat
  <2>1. life = "alive" => refs = 1 + (IF calling THEN 1 ELSE 0)
    BY DEF RefsCounted
  <2>2. QED
    BY <2>1
<1>2. timer' = {}
  BY DEF TimerCleared, TypeOK
<1>3. TypeOK'
  BY <1>1, <1>2 DEF TypeOK
<1>4. NeverEarly'
  BY <1>2 DEF NeverEarly
<1>5. NoTimerAfterDrop' /\ WaiterHasWaker' /\ RefsCounted' /\ NothingBefore'
  BY <1>1, <1>2 DEF NoTimerAfterDrop, WaiterHasWaker, RefsCounted, NothingBefore
<1>6. QED
  BY <1>3, <1>4, <1>5

\* The end of the callback and the passing of time.
LEMMA OtherIInv ==
  ASSUME IInv, WakeReturns \/ Tick \/ UNCHANGED vars
  PROVE  IInv'
<1> USE DEF IInv
<1>1. CASE WakeReturns
  <2>1. refs' = (IF life = "alive" THEN 1 ELSE 0) /\ refs' \in Nat
    <3>1. refs = (IF life = "alive" THEN 1 ELSE 0) + 1
      BY <1>1 DEF WakeReturns, RefsCounted
    <3>2. QED
      BY <1>1, <3>1 DEF WakeReturns
  <2>2. TypeOK'
    BY <1>1, <2>1 DEF WakeReturns, TypeOK
  <2>3. RefsCounted'
    BY <1>1, <2>1 DEF WakeReturns, RefsCounted
  <2>4. NeverEarly' /\ NoTimerAfterDrop' /\ WaiterHasWaker' /\ NothingBefore'
    BY <1>1 DEF WakeReturns, NeverEarly, NoTimerAfterDrop, WaiterHasWaker, NothingBefore
  <2>5. QED
    BY <2>2, <2>3, <2>4
<1>2. CASE Tick
  <2>1. TypeOK'
    BY <1>2, TimeAssumption DEF Tick, TypeOK
  <2>2. NeverEarly'
    BY <1>2, TimeAssumption DEF Tick, NeverEarly, TypeOK
  <2>3. NoTimerAfterDrop' /\ WaiterHasWaker' /\ RefsCounted' /\ NothingBefore'
    BY <1>2 DEF Tick, NoTimerAfterDrop, WaiterHasWaker, RefsCounted, NothingBefore
  <2>4. QED
    BY <2>1, <2>2, <2>3
<1>3. CASE UNCHANGED vars
  BY <1>3 DEF vars, TypeOK, NeverEarly, NoTimerAfterDrop, WaiterHasWaker,
     RefsCounted, NothingBefore
<1>4. QED
  BY <1>1, <1>2, <1>3

LEMMA NextIInv == IInv /\ [Next]_vars => IInv'
<1> SUFFICES ASSUME IInv, [Next]_vars
             PROVE  IInv'
  OBVIOUS
<1>1. CASE \E d \in Durations : New(d)
  BY <1>1, NewIInv
<1>2. CASE Callback
  BY <1>2, FireIInv, RearmIInv DEF Callback
<1>3. CASE Poll
  BY <1>3, PollIInv
<1>4. CASE Drop
  BY <1>4, DropIInv
<1>5. CASE WakeReturns \/ Tick \/ UNCHANGED vars
  BY <1>5, OtherIInv
<1>6. QED
  BY <1>1, <1>2, <1>3, <1>4, <1>5 DEF Next

LEMMA Invariance == Spec => []IInv
  BY InitIInv, NextIInv, PTL DEF Spec

-----------------------------------------------------------------------------
(* Theorems                                                                  *)

\* The bookkeeping of the timer is right in every state of a sleep: one timer with
\* its id while it runs, none once it has fired (time.rs:66-77).
THEOREM TimerBookkeeping == Spec => []TypeOK
  BY Invariance, PTL DEF IInv

\* A sleep never ends early (time.rs:123-135), whatever its duration, the longest
\* delay of setTimeout and the resolution of the clock.
THEOREM SleepNeverEarly == Spec => []NeverEarly
  BY Invariance, PTL DEF IInv

\* A dropped sleep leaves no timer behind (time.rs:178-185).
THEOREM DropClearsTimer == Spec => []NoTimerAfterDrop
  BY Invariance, PTL DEF IInv

\* The callback outlives every timer that may call it and its own run, whatever the
\* task that it wakes does, and is kept by nothing after that (time.rs:72-76, :90-105,
\* :153-155).
THEOREM CallbackLivesLongEnough == Spec => []CallbackLifetime
<1>1. IInv => CallbackLifetime
  BY CountedIsKept DEF IInv
<1>2. QED
  BY <1>1, Invariance, PTL

\* A waiting task is never left without a waker (time.rs:99-109, :166-175).
THEOREM WaiterKeepsWaker == Spec => []WaiterHasWaker
  BY Invariance, PTL DEF IInv

-----------------------------------------------------------------------------
(* JsSleep implements the safety part of Sleeping: creation starts it, the    *)
(* callback of the last chunk lets it elapse, the drop drops it; the other    *)
(* callbacks, polls and the end of wake() are stuttering.                     *)

LEMMA NextContract ==
  IInv /\ [Next]_vars => [Contract!Next]_(Contract!sleepVars)
<1> SUFFICES ASSUME IInv, [Next]_vars
             PROVE  [Contract!Next]_(Contract!sleepVars)
  OBVIOUS
<1> USE DEF Contract!Next, Contract!sleepVars
<1>1. CASE \E d \in Durations : New(d)
  <2>1. PICK d \in Durations : New(d)
    BY <1>1
  <2>2. fired = FALSE
    BY <2>1 DEF New, IInv, NothingBefore, TypeOK
  <2>3. Contract!Start(d)
    BY <2>1, <2>2 DEF New, Contract!Start
  <2>4. QED
    BY <2>3
<1>2. CASE Callback /\ Fire
  <2>1. PICK due \in timer : now >= due
    BY <1>2 DEF Callback
  <2>2. fired = FALSE /\ life = "alive"
    BY <1>2, CalledAlive
  <2>3. due \in Nat /\ due + remaining >= deadline
    BY <2>1, <2>2 DEF IInv, TypeOK, NeverEarly
  <2>4. now >= deadline
    BY <1>2, <2>1, <2>3 DEF Fire, IInv, TypeOK
  <2>5. Contract!Elapse
    BY <1>2, <2>2, <2>4 DEF Callback, Fire, Contract!Elapse
  <2>6. QED
    BY <2>5
<1>3. CASE Callback /\ Rearm
  BY <1>3 DEF Callback, Rearm
<1>4. CASE Drop
  <2>1. Contract!Drop
    BY <1>4 DEF Drop, Contract!Drop
  <2>2. QED
    BY <2>1
<1>5. CASE Tick
  <2>1. Contract!Tick
    BY <1>5 DEF Tick, Contract!Tick
  <2>2. QED
    BY <2>1
<1>6. CASE WakeReturns \/ Poll \/ UNCHANGED vars
  BY <1>6 DEF WakeReturns, Poll, vars
<1>7. QED
  BY <1>1, <1>2, <1>3, <1>4, <1>5, <1>6 DEF Next, Callback

\* What an observer of a sleep sees is a sleep of its whole duration (time.rs:79-186).
THEOREM ChainIsASleep == Spec => Contract!Spec
<1>1. Init => Contract!Init
  BY DEF Init, Contract!Init
<1>2. QED
  BY <1>1, Invariance, NextContract, PTL DEF Spec, Contract!Spec
=============================================================================
