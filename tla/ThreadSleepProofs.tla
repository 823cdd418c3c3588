------------------------- MODULE ThreadSleepProofs -------------------------
(***************************************************************************)
(* Theorems about ThreadSleep, for any number of timeouts, all durations   *)
(* and any delay of the sleep thread.                                      *)
(***************************************************************************)
EXTENDS ThreadSleep, TLAPS

LEMMA ChannelCalls ==
  ASSUME NEW ch \in Channel
  PROVE  /\ Ch!Send(ch, "elapsed") \in Channel
         /\ Ch!Send(ch, "elapsed").tx = FALSE /\ Ch!Send(ch, "elapsed").rx = ch.rx
         /\ Ch!Send(ch, "elapsed").val = IF ch.rx THEN "elapsed" ELSE "none"
         /\ Ch!DropSender(ch) \in Channel
         /\ Ch!DropSender(ch).tx = FALSE
         /\ Ch!DropSender(ch).rx = ch.rx /\ Ch!DropSender(ch).val = ch.val
         /\ Ch!DropReceiver(ch) \in Channel
         /\ Ch!DropReceiver(ch).tx = ch.tx
         /\ Ch!DropReceiver(ch).rx = FALSE /\ Ch!DropReceiver(ch).val = "none"
         /\ Ch!Registered(ch) \in Channel
         /\ Ch!Registered(ch).tx = ch.tx
         /\ Ch!Registered(ch).rx = ch.rx /\ Ch!Registered(ch).val = ch.val
BY DEF Channel, Ch!Send, Ch!DropSender, Ch!DropReceiver, Ch!Registered

LEMMA NewChannels ==
  /\ Ch!Closed \in Channel /\ Ch!Closed.tx = FALSE /\ Ch!Closed.rx = FALSE /\ Ch!Closed.val = "none"
  /\ Ch!Fresh \in Channel /\ Ch!Fresh.tx = TRUE /\ Ch!Fresh.rx = TRUE /\ Ch!Fresh.val = "none"
BY DEF Channel, Ch!Closed, Ch!Fresh

-----------------------------------------------------------------------------
(* The queue of requests                                                     *)

\* A request joins the others at the end.
LEMMA AppendRequest ==
  ASSUME NEW q \in Seq(Timeouts), NEW s \in Timeouts, \A i \in 1..Len(q) : q[i] # s,
         \A i, j \in 1..Len(q) : q[i] = q[j] => i = j
  PROVE  /\ Append(q, s) \in Seq(Timeouts)
         /\ \A i \in 1..Len(Append(q, s)) :
              Append(q, s)[i] = s \/ \E j \in 1..Len(q) : Append(q, s)[i] = q[j]
         /\ \A i, j \in 1..Len(Append(q, s)) : Append(q, s)[i] = Append(q, s)[j] => i = j
<1>1. /\ Append(q, s) \in Seq(Timeouts) /\ Len(Append(q, s)) = Len(q) + 1 /\ Len(q) \in Nat
      /\ \A i \in 1..Len(q) : Append(q, s)[i] = q[i]
      /\ Append(q, s)[Len(q) + 1] = s
  OBVIOUS
<1>2. \A i \in 1..(Len(q) + 1) : i \in 1..Len(q) \/ i = Len(q) + 1
  BY <1>1
<1>3. QED
  BY <1>1, <1>2

\* The first request leaves the queue and is not in it twice.
LEMMA TailRequests ==
  ASSUME NEW q \in Seq(Timeouts), q # <<>>,
         \A i, j \in 1..Len(q) : q[i] = q[j] => i = j
  PROVE  /\ Head(q) \in Timeouts /\ Head(q) = q[1] /\ 1 \in 1..Len(q)
         /\ Tail(q) \in Seq(Timeouts)
         /\ \A i \in 1..Len(Tail(q)) : Tail(q)[i] # Head(q) /\ \E j \in 1..Len(q) : Tail(q)[i] = q[j]
         /\ \A i, j \in 1..Len(Tail(q)) : Tail(q)[i] = Tail(q)[j] => i = j
<1>1. /\ Len(q) \in Nat \ {0} /\ Head(q) = q[1] /\ q[1] \in Timeouts
      /\ Tail(q) \in Seq(Timeouts) /\ Len(Tail(q)) = Len(q) - 1
      /\ \A i \in 1..(Len(q) - 1) : Tail(q)[i] = q[i + 1]
  OBVIOUS
<1>2. \A i \in 1..(Len(q) - 1) : i + 1 \in 1..Len(q) /\ i + 1 # 1
  BY <1>1
<1>3. \A i, j \in 1..(Len(q) - 1) : i + 1 = j + 1 => i = j
  BY <1>1
<1>4. 1 \in 1..Len(q)
  BY <1>1
<1>5. QED
  BY <1>1, <1>2, <1>3, <1>4

-----------------------------------------------------------------------------
(* IInv is inductive.                                                        *)

LEMMA NumbersAreNat ==
  TypeOK => now \in Nat /\ \A s \in Timeouts : duration[s] \in Nat /\ limit[s] \in Nat /\ due[s] \in Nat
<1> SUFFICES ASSUME TypeOK
             PROVE  now \in Nat /\ \A s \in Timeouts : duration[s] \in Nat /\ limit[s] \in Nat /\ due[s] \in Nat
  OBVIOUS
<1>1. Horizon \in Nat /\ Durations \cup {0} \subseteq Nat
  BY TimeAssumption
<1>2. now \in 0..Horizon
  BY DEF TypeOK
<1>3. \A s \in Timeouts : duration[s] \in Durations \cup {0} /\ limit[s] \in Nat /\ due[s] \in Nat
  BY DEF TypeOK
<1>4. now \in Nat
  BY <1>1, <1>2
<1>5. QED
  BY <1>1, <1>3, <1>4

LEMMA InitIInv == Init => IInv
<1> SUFFICES ASSUME Init PROVE IInv
  OBVIOUS
<1>1. TypeOK
  <2>1. \A s \in Timeouts : /\ wakeCh[s] = Ch!Closed /\ task[s] = "none" /\ relay[s] = "none"
                            /\ limit[s] = 0 /\ due[s] = 0 /\ duration[s] = 0 /\ s \notin kept
    BY DEF Init
  <2>2. now \in 0..Horizon /\ requests \in Seq(Timeouts)
    BY TimeAssumption DEF Init
  <2>3. /\ duration \in [Timeouts -> Durations \cup {0}]
        /\ limit \in [Timeouts -> Nat] /\ due \in [Timeouts -> Nat]
        /\ relay \in [Timeouts -> {"none", "spawned", "sleeping", "over"}]
        /\ wakeCh \in [Timeouts -> Channel]
        /\ ready \in [Timeouts -> BOOLEAN]
        /\ task \in [Timeouts -> {"none", "busy", "waiting", "woken"}]
        /\ outcome \in [Timeouts -> {"none", "ok", "elapsed"}] /\ kept \subseteq Timeouts
    BY NewChannels DEF Init
  <2>4. QED
    BY <2>1, <2>2, <2>3, NewChannels DEF TypeOK, Pending
<1>2. RequestsWaiting
  BY DEF Init, RequestsWaiting
<1>3. TimerCovers
  <2>1. \A s \in Timeouts : /\ wakeCh[s] = Ch!Closed /\ task[s] = "none" /\ relay[s] = "none"
                            /\ outcome[s] = "none" /\ limit[s] = 0 /\ duration[s] = 0
    BY DEF Init
  <2>2. now = 0
    BY DEF Init
  <2>3. QED
    <3>1. \A s \in Timeouts : wakeCh[s].rx = FALSE /\ wakeCh[s].val = "none"
      BY <2>1, NewChannels
    <3>2. \A s \in Timeouts : limit[s] <= now + duration[s]
      <4>1. 0 + 0 = 0 /\ 0 <= 0
        OBVIOUS
      <4>2. ASSUME NEW s \in Timeouts PROVE limit[s] <= now + duration[s]
        <5>1. limit[s] = 0 /\ now = 0 /\ duration[s] = 0
          BY <2>1, <2>2
        <5>2. QED
          BY <4>1, <5>1
      <4>3. QED
        BY <4>2
    <3>3. kept = {}
      BY DEF Init
    <3>4. QED
      BY <2>1, <3>1, <3>2, <3>3 DEF TimerCovers
<1>4. QED
  BY <1>1, <1>2, <1>3 DEF IInv

LEMMA NewKeeps ==
  ASSUME IInv, NEW s \in Timeouts, NEW d \in Durations, New(s, d)
  PROVE  IInv'
<1>1. /\ task[s] = "none" /\ requests' = Append(requests, s)
      /\ duration' = [duration EXCEPT ![s] = d]
      /\ limit' = [limit EXCEPT ![s] = now + d]
      /\ wakeCh' = [wakeCh EXCEPT ![s] = Ch!Fresh]
      /\ task' = [task EXCEPT ![s] = "busy"] /\ kept' = kept \cup {s}
      /\ UNCHANGED <<now, relay, due, ready, outcome>>
  BY DEF New
<1>2. relay[s] = "none" /\ outcome[s] = "none" /\ now \in Nat /\ d \in Nat
  BY <1>1, TimeAssumption DEF IInv, TypeOK, TimerCovers
<1>3. \A i \in 1..Len(requests) : requests[i] # s
  BY <1>1 DEF IInv, RequestsWaiting
<1>4. /\ requests' \in Seq(Timeouts)
      /\ \A i \in 1..Len(requests') : requests'[i] = s \/ \E j \in 1..Len(requests) : requests'[i] = requests[j]
      /\ \A i, j \in 1..Len(requests') : requests'[i] = requests'[j] => i = j
  BY <1>1, <1>3, AppendRequest DEF IInv, TypeOK, RequestsWaiting
<1>5. TypeOK'
  <2>1. /\ duration' \in [Timeouts -> Durations \cup {0}] /\ limit' \in [Timeouts -> Nat]
        /\ wakeCh' \in [Timeouts -> Channel]
        /\ task' \in [Timeouts -> {"none", "busy", "waiting", "woken"}]
    BY <1>1, <1>2, NewChannels DEF IInv, TypeOK
  <2>2. \A u \in Timeouts : /\ wakeCh'[u].tx <=> task'[u] # "none" /\ relay'[u] # "over"
                            /\ Pending(u)' /\ Ch!IsReady(wakeCh'[u]) => wakeCh'[u].val = "elapsed"
    BY <1>1, <1>2, NewChannels DEF IInv, TypeOK, Pending, Ch!IsReady
  <2>3. QED
    BY <1>1, <1>4, <2>1, <2>2 DEF IInv, TypeOK
<1>6. RequestsWaiting'
  <2>1. /\ \A u \in Timeouts \ {s} : task'[u] = task[u] /\ relay'[u] = relay[u]
        /\ task'[s] = "busy" /\ relay'[s] = "none"
    BY <1>1, <1>2 DEF IInv, TypeOK
  <2>2. \A j \in 1..Len(requests) : /\ requests[j] \in Timeouts \ {s}
                                    /\ task[requests[j]] # "none" /\ relay[requests[j]] = "none"
    BY <1>3 DEF IInv, TypeOK, RequestsWaiting
  <2>3. QED
    BY <1>4, <2>1, <2>2 DEF RequestsWaiting
<1>7. TimerCovers'
  BY <1>1, <1>2, NewChannels DEF IInv, TypeOK, TimerCovers, Pending
<1>8. QED
  BY <1>5, <1>6, <1>7 DEF IInv

\* A Timeout that lets go of its receiver, because it has its value or is dropped.
LEMMA LetGoKeeps ==
  ASSUME IInv, NEW s \in Timeouts, s \in kept,
         wakeCh' = [wakeCh EXCEPT ![s] = Ch!DropReceiver(@)],
         task' = [task EXCEPT ![s] = "busy"],
         outcome' \in [Timeouts -> {"none", "ok", "elapsed"}], kept' \subseteq kept,
         \A u \in Timeouts \ {s} : outcome'[u] = outcome[u] /\ (u \in kept' <=> u \in kept),
         outcome'[s] = "elapsed" \/ s \notin kept',
         UNCHANGED <<now, requests, duration, limit, relay, due, ready>>
  PROVE  IInv'
<1>1. wakeCh \in [Timeouts -> Channel] /\ wakeCh[s] \in Channel /\ task[s] # "none"
  BY DEF IInv, TypeOK, TimerCovers
<1>2. /\ wakeCh' \in [Timeouts -> Channel]
      /\ wakeCh'[s].tx = wakeCh[s].tx /\ wakeCh'[s].rx = FALSE /\ wakeCh'[s].val = "none"
      /\ \A u \in Timeouts \ {s} : wakeCh'[u] = wakeCh[u]
  BY <1>1, ChannelCalls
<1>3. /\ task' \in [Timeouts -> {"none", "busy", "waiting", "woken"}]
      /\ task'[s] = "busy" /\ \A u \in Timeouts \ {s} : task'[u] = task[u]
  BY DEF IInv, TypeOK
<1>4. TypeOK'
  <2>1. \A u \in Timeouts : /\ wakeCh'[u].tx <=> task'[u] # "none" /\ relay'[u] # "over"
                            /\ Pending(u)' /\ Ch!IsReady(wakeCh'[u]) => wakeCh'[u].val = "elapsed"
    BY <1>1, <1>2, <1>3 DEF IInv, TypeOK, Pending, Ch!IsReady
  <2>2. QED
    BY <1>2, <1>3, <2>1 DEF IInv, TypeOK
<1>5. RequestsWaiting'
  BY <1>1, <1>3 DEF IInv, TypeOK, RequestsWaiting
<1>6. TimerCovers'
  BY <1>1, <1>2, <1>3 DEF IInv, TypeOK, TimerCovers
<1>7. QED
  BY <1>4, <1>5, <1>6 DEF IInv

LEMMA DropKeeps ==
  ASSUME IInv, NEW s \in Timeouts, Drop(s)
  PROVE  IInv'
<1>1. outcome \in [Timeouts -> {"none", "ok", "elapsed"}]
  BY DEF IInv, TypeOK
<1>2. QED
  BY <1>1, LetGoKeeps DEF Drop

\* What a poll changes besides: it registers the waker, or returns and keeps the Sleep.
LEMMA PollKeeps ==
  ASSUME IInv, NEW s \in Timeouts, Poll(s)
  PROVE  IInv'
<1>1. /\ Pending(s) /\ s \in kept
      /\ UNCHANGED <<now, requests, duration, limit, relay, due, ready, kept>>
      /\ Return(s, "ok") \/ Return(s, "elapsed") \/ Suspend(s)
  BY DEF Poll, PollBoth, Pending
<1>2. /\ wakeCh \in [Timeouts -> Channel] /\ wakeCh[s] \in Channel
      /\ outcome \in [Timeouts -> {"none", "ok", "elapsed"}]
      /\ outcome[s] = "none" /\ task[s] # "none"
  BY <1>1 DEF IInv, TypeOK, TimerCovers, Pending
<1>3. CASE Return(s, "elapsed")
  <2>1. /\ outcome' = [outcome EXCEPT ![s] = "elapsed"]
        /\ wakeCh' = [wakeCh EXCEPT ![s] = Ch!DropReceiver(@)]
        /\ task' = [task EXCEPT ![s] = "busy"]
    BY <1>3 DEF Return
  <2>2. outcome' \in [Timeouts -> {"none", "ok", "elapsed"}]
    BY <1>2, <2>1
  <2>3. QED
    BY <1>1, <1>2, <2>1, <2>2, LetGoKeeps
<1>4. CASE Return(s, "ok") \/ Suspend(s)
  <2>1. /\ wakeCh' \in [Timeouts -> Channel]
        /\ \A u \in Timeouts : /\ wakeCh'[u].tx = wakeCh[u].tx
                               /\ wakeCh'[u].rx = wakeCh[u].rx /\ wakeCh'[u].val = wakeCh[u].val
    <3>1. wakeCh' = wakeCh \/ wakeCh' = [wakeCh EXCEPT ![s] = Ch!Registered(wakeCh[s])]
      BY <1>2, <1>4 DEF Return, Suspend
    <3>2. CASE wakeCh' = wakeCh
      BY <1>2, <3>2
    <3>3. CASE wakeCh' = [wakeCh EXCEPT ![s] = Ch!Registered(wakeCh[s])]
      <4>1. LET c == Ch!Registered(wakeCh[s])
            IN  c \in Channel /\ c.tx = wakeCh[s].tx /\ c.rx = wakeCh[s].rx /\ c.val = wakeCh[s].val
        BY <1>2, ChannelCalls
      <4>2. QED
        BY <1>2, <3>3, <4>1
    <3>4. QED
      BY <3>1, <3>2, <3>3
  <2>2. /\ task' \in [Timeouts -> {"none", "busy", "waiting", "woken"}]
        /\ \A u \in Timeouts : task'[u] = "none" <=> task[u] = "none"
    BY <1>2, <1>4 DEF Return, Suspend, IInv, TypeOK
  <2>3. /\ outcome' \in [Timeouts -> {"none", "ok", "elapsed"}]
        /\ outcome'[s] \in {"none", "ok"} /\ \A u \in Timeouts \ {s} : outcome'[u] = outcome[u]
    BY <1>2, <1>4 DEF Return, Suspend
  <2>4. TypeOK'
    <3>1. \A u \in Timeouts : /\ Pending(u)' => Pending(u)
                              /\ Ch!IsReady(wakeCh'[u]) <=> Ch!IsReady(wakeCh[u])
      BY <1>1, <2>1, <2>3 DEF Pending, Ch!IsReady
    <3>2. \A u \in Timeouts : /\ wakeCh'[u].tx <=> task'[u] # "none" /\ relay'[u] # "over"
                              /\ Pending(u)' /\ Ch!IsReady(wakeCh'[u]) => wakeCh'[u].val = "elapsed"
      BY <1>1, <2>1, <2>2, <3>1 DEF IInv, TypeOK
    <3>3. QED
      BY <1>1, <2>1, <2>2, <2>3, <3>2 DEF IInv, TypeOK
  <2>5. RequestsWaiting'
    BY <1>1, <2>2 DEF IInv, TypeOK, RequestsWaiting
  <2>6. TimerCovers'
    BY <1>1, <1>2, <2>1, <2>2, <2>3 DEF IInv, TimerCovers
  <2>7. QED
    BY <2>4, <2>5, <2>6 DEF IInv
<1>5. QED
  BY <1>1, <1>3, <1>4

LEMMA WokenTasks ==
  ASSUME IInv, NEW s \in Timeouts
  PROVE  /\ Woken(s) \in [Timeouts -> {"none", "busy", "waiting", "woken"}]
         /\ \A u \in Timeouts : Woken(s)[u] = "none" <=> task[u] = "none"
BY DEF IInv, TypeOK, Woken

LEMMA FutureReadyKeeps ==
  ASSUME IInv, NEW s \in Timeouts, FutureReady(s)
  PROVE  IInv'
<1>1. /\ ready' = [ready EXCEPT ![s] = TRUE] /\ task' = Woken(s)
      /\ UNCHANGED <<now, requests, duration, limit, relay, due, wakeCh, outcome, kept>>
  BY DEF FutureReady
<1>2. /\ task' \in [Timeouts -> {"none", "busy", "waiting", "woken"}]
      /\ \A u \in Timeouts : task'[u] = "none" <=> task[u] = "none"
  BY <1>1, WokenTasks
<1>3. TypeOK'
  BY <1>1, <1>2 DEF IInv, TypeOK, Pending
<1>4. RequestsWaiting'
  BY <1>1, <1>2 DEF IInv, TypeOK, RequestsWaiting
<1>5. TimerCovers'
  BY <1>1, <1>2 DEF IInv, TimerCovers, Pending
<1>6. QED
  BY <1>3, <1>4, <1>5 DEF IInv

-----------------------------------------------------------------------------
(* The sleep thread                                                          *)

LEMMA ReceiveKeeps ==
  ASSUME IInv, Receive
  PROVE  IInv'
<1> DEFINE h == Head(requests)
<1>1. /\ requests # <<>> /\ requests \in Seq(Timeouts)
      /\ relay' = [relay EXCEPT ![h] = "spawned"] /\ requests' = Tail(requests)
      /\ UNCHANGED <<now, duration, limit, due, wakeCh, ready, task, outcome, kept>>
  BY DEF Receive, IInv, TypeOK
<1>2. \A i, j \in 1..Len(requests) : requests[i] = requests[j] => i = j
  BY DEF IInv, RequestsWaiting
<1>3. /\ h \in Timeouts /\ h = requests[1] /\ 1 \in 1..Len(requests)
      /\ requests' \in Seq(Timeouts)
      /\ \A i \in 1..Len(requests') : requests'[i] # h /\ \E j \in 1..Len(requests) : requests'[i] = requests[j]
      /\ \A i, j \in 1..Len(requests') : requests'[i] = requests'[j] => i = j
  BY <1>1, <1>2, TailRequests
<1>4. task[h] # "none" /\ relay[h] = "none"
  BY <1>3 DEF IInv, RequestsWaiting
<1> HIDE DEF h
<1>5. /\ relay' \in [Timeouts -> {"none", "spawned", "sleeping", "over"}]
      /\ relay'[h] = "spawned"
      /\ \A u \in Timeouts \ {h} : relay'[u] = relay[u]
  BY <1>1, <1>3 DEF IInv, TypeOK
<1>6. TypeOK'
  <2>1. \A u \in Timeouts : /\ wakeCh'[u].tx <=> task'[u] # "none" /\ relay'[u] # "over"
                            /\ Pending(u)' /\ Ch!IsReady(wakeCh'[u]) => wakeCh'[u].val = "elapsed"
    BY <1>1, <1>3, <1>4, <1>5 DEF IInv, TypeOK, Pending
  <2>2. QED
    BY <1>1, <1>3, <1>5, <2>1 DEF IInv, TypeOK
<1>7. RequestsWaiting'
  <2>1. \A j \in 1..Len(requests) : /\ requests[j] \in Timeouts
                                    /\ task[requests[j]] # "none" /\ relay[requests[j]] = "none"
    BY <1>1 DEF IInv, RequestsWaiting
  <2>2. QED
    BY <1>1, <1>3, <1>5, <2>1 DEF RequestsWaiting
<1>8. TimerCovers'
  BY <1>1, <1>3, <1>4, <1>5 DEF IInv, TimerCovers, Pending
<1>9. QED
  BY <1>6, <1>7, <1>8 DEF IInv

\* What the task of a request leaves alone: a timeout that is served is not queued.
LEMMA RelayKeeps ==
  ASSUME IInv, NEW s \in Timeouts, relay[s] # "none", NEW r \in {"sleeping", "over"},
         relay' = [relay EXCEPT ![s] = r],
         UNCHANGED <<now, requests, duration, limit, ready, outcome, kept>>,
         task' = task \/ task' = Woken(s),
         due' \in [Timeouts -> Nat], \A u \in Timeouts \ {s} : due'[u] = due[u],
         r = "sleeping" => due'[s] >= limit[s],
         wakeCh' \in [Timeouts -> Channel], \A u \in Timeouts \ {s} : wakeCh'[u] = wakeCh[u],
         wakeCh'[s].tx <=> r # "over", wakeCh'[s].rx = wakeCh[s].rx,
         r = "sleeping" => wakeCh'[s].val = wakeCh[s].val,
         wakeCh'[s].val = "elapsed" => now >= limit[s],
         Pending(s) /\ r = "over" => wakeCh'[s].val = "elapsed"
  PROVE  IInv'
<1>1. /\ relay' \in [Timeouts -> {"none", "spawned", "sleeping", "over"}]
      /\ relay'[s] = r /\ \A u \in Timeouts \ {s} : relay'[u] = relay[u]
  BY DEF IInv, TypeOK
<1>2. /\ task' \in [Timeouts -> {"none", "busy", "waiting", "woken"}]
      /\ \A u \in Timeouts : task'[u] = "none" <=> task[u] = "none"
  BY WokenTasks DEF IInv, TypeOK
<1>3. task[s] # "none"
  BY DEF IInv, TimerCovers
<1>4. TypeOK'
  <2>1. \A u \in Timeouts : wakeCh'[u].tx <=> task'[u] # "none" /\ relay'[u] # "over"
    BY <1>1, <1>2, <1>3 DEF IInv, TypeOK
  <2>2. \A u \in Timeouts : Pending(u)' /\ Ch!IsReady(wakeCh'[u]) => wakeCh'[u].val = "elapsed"
    <3>1. \A u \in Timeouts : Pending(u)' <=> Pending(u)
      BY <1>2 DEF Pending
    <3>2. Pending(s)' /\ Ch!IsReady(wakeCh'[s]) => wakeCh'[s].val = "elapsed"
      <4>1. wakeCh'[s].val \in {"none", "elapsed"}
        BY DEF Channel
      <4>2. QED
        BY <3>1, <4>1 DEF Ch!IsReady
    <3>3. \A u \in Timeouts \ {s} :
            Pending(u)' /\ Ch!IsReady(wakeCh'[u]) => wakeCh'[u].val = "elapsed"
      BY <3>1 DEF IInv, TypeOK
    <3>4. QED
      BY <3>2, <3>3
  <2>3. QED
    BY <1>1, <1>2, <2>1, <2>2 DEF IInv, TypeOK
<1>5. RequestsWaiting'
  <2>1. \A i \in 1..Len(requests) : requests[i] \in Timeouts \ {s}
    BY DEF IInv, TypeOK, RequestsWaiting
  <2>2. QED
    BY <1>1, <1>2, <2>1 DEF IInv, RequestsWaiting
<1>6. TimerCovers'
  BY <1>1, <1>2, <1>3 DEF IInv, TimerCovers, Pending
<1>7. QED
  BY <1>4, <1>5, <1>6 DEF IInv

\* The timer starts now, which is not before the call.
LEMMA RelayStartKeeps ==
  ASSUME IInv, NEW s \in Timeouts, RelayStart(s)
  PROVE  IInv'
<1>1. /\ relay[s] = "spawned" /\ due' = [due EXCEPT ![s] = now + duration[s]]
      /\ UNCHANGED <<now, requests, duration, limit, ready, task, outcome, kept>>
  BY DEF RelayStart, DueFromNow
<1>2. /\ wakeCh \in [Timeouts -> Channel] /\ wakeCh[s] \in Channel
      /\ now + duration[s] \in Nat /\ now + duration[s] >= limit[s]
      /\ (Pending(s) => wakeCh[s].rx) /\ (wakeCh[s].val = "elapsed" => now >= limit[s])
  <2>1. now \in Nat /\ duration[s] \in Nat /\ limit[s] \in Nat /\ limit[s] <= now + duration[s]
    BY NumbersAreNat DEF IInv, TimerCovers
  <2>2. now + duration[s] \in Nat /\ now + duration[s] >= limit[s]
    BY <2>1
  <2>3. QED
    BY <2>2 DEF IInv, TypeOK, TimerCovers, Pending
<1>3. /\ due' \in [Timeouts -> Nat] /\ due'[s] >= limit[s]
      /\ \A u \in Timeouts \ {s} : due'[u] = due[u]
  BY <1>1, <1>2 DEF IInv, TypeOK
<1>4. CASE Abandoned(s)
  <2>1. ~Pending(s) /\ relay' = [relay EXCEPT ![s] = "over"]
        /\ wakeCh' = [wakeCh EXCEPT ![s] = Ch!DropSender(wakeCh[s])]
    BY <1>2, <1>4 DEF RelayStart, Abandoned
  <2>2. /\ wakeCh' \in [Timeouts -> Channel] /\ wakeCh'[s].tx = FALSE
        /\ wakeCh'[s].rx = wakeCh[s].rx /\ wakeCh'[s].val = wakeCh[s].val
        /\ \A u \in Timeouts \ {s} : wakeCh'[u] = wakeCh[u]
    BY <1>2, <2>1, ChannelCalls
  <2>3. QED
    BY <1>1, <1>2, <1>3, <2>1, <2>2, RelayKeeps
<1>5. CASE ~Abandoned(s)
  <2>1. relay' = [relay EXCEPT ![s] = "sleeping"] /\ wakeCh' = wakeCh
    BY <1>5 DEF RelayStart
  <2>2. wakeCh[s].tx
    BY <1>1 DEF IInv, TypeOK, TimerCovers
  <2>3. QED
    BY <1>1, <1>2, <1>3, <2>1, <2>2, RelayKeeps
<1>6. QED
  BY <1>4, <1>5

\* The timer has run out, so the limit has passed.
LEMMA RelayElapseKeeps ==
  ASSUME IInv, NEW s \in Timeouts, RelayElapse(s)
  PROVE  IInv'
<1>1. /\ relay[s] = "sleeping" /\ now >= due[s]
      /\ relay' = [relay EXCEPT ![s] = "over"]
      /\ wakeCh' = [wakeCh EXCEPT ![s] = Ch!Send(wakeCh[s], "elapsed")]
      /\ task' = task \/ task' = Woken(s)
      /\ UNCHANGED <<now, requests, duration, limit, due, ready, outcome, kept>>
  BY DEF RelayElapse, Answer
<1>2. /\ wakeCh \in [Timeouts -> Channel] /\ wakeCh[s] \in Channel
      /\ (Pending(s) => wakeCh[s].rx)
      /\ due \in [Timeouts -> Nat]
  BY DEF IInv, TypeOK, TimerCovers, Pending
<1>3. now >= limit[s]
  BY <1>1, TimeAssumption DEF IInv, TypeOK, TimerCovers
<1>4. /\ wakeCh' \in [Timeouts -> Channel] /\ wakeCh'[s].tx = FALSE
      /\ wakeCh'[s].rx = wakeCh[s].rx
      /\ wakeCh'[s].val = IF wakeCh[s].rx THEN "elapsed" ELSE "none"
      /\ \A u \in Timeouts \ {s} : wakeCh'[u] = wakeCh[u]
  <2>1. /\ Ch!Send(wakeCh[s], "elapsed") \in Channel /\ Ch!Send(wakeCh[s], "elapsed").tx = FALSE
        /\ Ch!Send(wakeCh[s], "elapsed").rx = wakeCh[s].rx
        /\ Ch!Send(wakeCh[s], "elapsed").val = IF wakeCh[s].rx THEN "elapsed" ELSE "none"
    BY <1>2, ChannelCalls
  <2>2. QED
    BY <1>1, <1>2, <2>1
<1>5. QED
  BY <1>1, <1>2, <1>3, <1>4, RelayKeeps

LEMMA RelayCancelKeeps ==
  ASSUME IInv, NEW s \in Timeouts, RelayCancel(s)
  PROVE  IInv'
<1>1. /\ relay[s] = "sleeping" /\ ~wakeCh[s].rx
      /\ relay' = [relay EXCEPT ![s] = "over"]
      /\ wakeCh' = [wakeCh EXCEPT ![s] = Ch!DropSender(wakeCh[s])]
      /\ UNCHANGED <<now, requests, duration, limit, due, ready, task, outcome, kept>>
  BY DEF RelayCancel, Abandoned
<1>2. /\ wakeCh \in [Timeouts -> Channel] /\ wakeCh[s] \in Channel
      /\ (Pending(s) => wakeCh[s].rx) /\ (wakeCh[s].val = "elapsed" => now >= limit[s])
      /\ due \in [Timeouts -> Nat]
  BY DEF IInv, TypeOK, TimerCovers, Pending
<1>3. /\ wakeCh' \in [Timeouts -> Channel] /\ wakeCh'[s].tx = FALSE
      /\ wakeCh'[s].rx = wakeCh[s].rx /\ wakeCh'[s].val = wakeCh[s].val
      /\ \A u \in Timeouts \ {s} : wakeCh'[u] = wakeCh[u]
  BY <1>1, <1>2, ChannelCalls
<1>4. QED
  BY <1>1, <1>2, <1>3, RelayKeeps

LEMMA TickKeeps ==
  ASSUME IInv, Tick
  PROVE  IInv'
<1>1. /\ now' = now + 1 /\ now' \in 0..Horizon
      /\ UNCHANGED <<requests, duration, limit, relay, due, wakeCh, ready, task, outcome, kept>>
  BY TimeAssumption DEF Tick, IInv, TypeOK
<1>2. TypeOK' /\ RequestsWaiting'
  BY <1>1 DEF IInv, TypeOK, RequestsWaiting, Pending
<1>3. TimerCovers'
  <2>1. ASSUME NEW s \in Timeouts
        PROVE  /\ limit[s] <= now' + duration[s]
               /\ wakeCh[s].val = "elapsed" => now' >= limit[s]
    <3>1. now \in Nat /\ duration[s] \in Nat /\ limit[s] \in Nat
      BY NumbersAreNat DEF IInv
    <3>2. limit[s] <= now + duration[s] /\ (wakeCh[s].val = "elapsed" => now >= limit[s])
      BY DEF IInv, TimerCovers
    <3>3. QED
      BY <1>1, <3>1, <3>2
  <2>2. QED
    BY <1>1, <2>1 DEF IInv, TimerCovers, Pending
<1>4. QED
  BY <1>2, <1>3 DEF IInv

LEMMA StepIInv == IInv /\ [Next]_vars => IInv'
<1> SUFFICES ASSUME IInv, [Next]_vars PROVE IInv'
  OBVIOUS
<1>1. CASE UNCHANGED vars
  BY <1>1 DEF vars, IInv, TypeOK, RequestsWaiting, TimerCovers, Pending
<1>2. CASE Receive \/ Tick
  BY <1>2, ReceiveKeeps, TickKeeps
<1>3. ASSUME NEW s \in Timeouts, NEW d \in Durations, New(s, d) PROVE IInv'
  BY <1>3, NewKeeps
<1>4. ASSUME NEW s \in Timeouts, Poll(s) \/ Drop(s) \/ FutureReady(s) \/ RelayStep(s) PROVE IInv'
  BY <1>4, PollKeeps, DropKeeps, FutureReadyKeeps, RelayStartKeeps, RelayElapseKeeps, RelayCancelKeeps
     DEF RelayStep
<1>5. QED
  BY <1>1, <1>2, <1>3, <1>4 DEF Next

THEOREM Invariance == Spec => []IInv
BY InitIInv, StepIInv, PTL DEF Spec

-----------------------------------------------------------------------------
(* What the invariant says of every run                                      *)

\* The sleep thread keeps the sender of a Timeout until it has answered, so the
\* expect("sleep thread failed") in Sleep::poll (time.rs:258) is never met.
THEOREM SleepThreadAnswers == Spec => []TypeOK
<1>1. IInv => TypeOK
  BY DEF IInv
<1>2. QED
  BY <1>1, Invariance, PTL

\* A Timeout that elapses was given its whole duration, counted from the call on the
\* calling thread, and its future was not ready (time.rs:448-454).
THEOREM TimeoutNeverEarly == Spec => ElapsedTruly
<1>1. IInv /\ [Next]_vars =>
        [\A s \in Timeouts :
           outcome[s] = "none" /\ outcome'[s] = "elapsed" => now >= limit[s] /\ ~ready[s]]_vars
  <2> SUFFICES ASSUME IInv, Next, NEW s \in Timeouts, outcome[s] = "none", outcome'[s] = "elapsed"
               PROVE  now >= limit[s] /\ ~ready[s]
    BY DEF vars
  <2>1. outcome \in [Timeouts -> {"none", "ok", "elapsed"}] /\ outcome' # outcome
    BY DEF IInv, TypeOK
  <2>2. PICK u \in Timeouts : Poll(u)
    BY <2>1 DEF Next, Drop, Receive, Tick, New, FutureReady, RelayStep, RelayStart, RelayElapse, RelayCancel
  <2>3. u = s
    BY <2>1, <2>2 DEF Poll, PollBoth, Return, Suspend
  <2>4. ~ready[s] /\ Ch!IsReady(wakeCh[s]) /\ Pending(s)
    BY <2>1, <2>2, <2>3 DEF Poll, PollBoth, Return, Suspend
  <2>5. QED
    BY <2>4 DEF IInv, TypeOK, TimerCovers
<1>2. QED
  BY <1>1, Invariance, PTL DEF Spec, ElapsedTruly

-----------------------------------------------------------------------------
(* No wake-up is lost between the two threads.                               *)

LEMMA RequestsStay ==
  ASSUME IInv
  PROVE  /\ \A s \in Timeouts : requests' = Append(requests, s) =>
              \A u \in Timeouts : Requested(u)' <=> Requested(u) \/ u = s
         /\ requests # <<>> /\ requests' = Tail(requests) =>
              \A u \in Timeouts : Requested(u) => Requested(u)' \/ u = Head(requests)
<1>1. requests \in Seq(Timeouts)
  BY DEF IInv, TypeOK
<1>2. ASSUME NEW s \in Timeouts, requests' = Append(requests, s)
      PROVE  \A u \in Timeouts : Requested(u)' <=> Requested(u) \/ u = s
  <2>1. /\ Len(requests') = Len(requests) + 1 /\ Len(requests) \in Nat
        /\ \A i \in 1..Len(requests) : requests'[i] = requests[i]
        /\ requests'[Len(requests) + 1] = s
    BY <1>1, <1>2
  <2>2. 1..(Len(requests) + 1) = 1..Len(requests) \cup {Len(requests) + 1}
    BY <2>1
  <2>3. QED
    BY <2>1, <2>2 DEF Requested
<1>3. ASSUME requests # <<>>, requests' = Tail(requests),
             NEW u \in Timeouts, Requested(u), u # Head(requests)
      PROVE  Requested(u)'
  <2>1. /\ Len(requests) \in Nat \ {0} /\ Head(requests) = requests[1]
        /\ Len(requests') = Len(requests) - 1
        /\ \A i \in 1..(Len(requests) - 1) : requests'[i] = requests[i + 1]
    BY <1>1, <1>3
  <2>2. PICK i \in 1..Len(requests) : requests[i] = u /\ i # 1
    BY <1>3, <2>1 DEF Requested
  <2>3. i - 1 \in 1..(Len(requests) - 1) /\ (i - 1) + 1 = i
    BY <2>1, <2>2
  <2>4. QED
    BY <2>1, <2>2, <2>3 DEF Requested
<1>4. QED
  BY <1>2, <1>3

LEMMA StepWaits == IInv /\ NobodyWaitsInVain /\ [Next]_vars => NobodyWaitsInVain'
<1> SUFFICES ASSUME IInv, NobodyWaitsInVain, [Next]_vars PROVE NobodyWaitsInVain'
  OBVIOUS
<1> USE DEF NobodyWaitsInVain, Pending
<1>1. CASE UNCHANGED vars
  BY <1>1 DEF vars, Requested
<1>2. ASSUME NEW s \in Timeouts, NEW d \in Durations, New(s, d) PROVE NobodyWaitsInVain'
  <2>1. \A u \in Timeouts : Requested(u)' <=> Requested(u) \/ u = s
    BY <1>2, RequestsStay DEF New
  <2>2. QED
    BY <1>2, <2>1 DEF New, IInv, TypeOK
<1>3. ASSUME NEW s \in Timeouts, Poll(s) \/ Drop(s) PROVE NobodyWaitsInVain'
  <2>1. /\ s \in kept /\ UNCHANGED <<requests, relay, ready>>
        /\ \/ Return(s, "ok") /\ kept' = kept
           \/ Return(s, "elapsed") /\ kept' = kept
           \/ Drop(s)
           \/ Suspend(s) /\ kept' = kept /\ Pending(s) /\ ~ready[s] /\ ~Ch!IsReady(wakeCh[s])
    BY <1>3 DEF Poll, PollBoth, Drop
  <2>2. wakeCh \in [Timeouts -> Channel] /\ wakeCh[s] \in Channel /\ task[s] # "none"
    BY <2>1 DEF IInv, TypeOK, TimerCovers
  <2>3. \A u \in Timeouts : Requested(u)' <=> Requested(u)
    BY <2>1 DEF Requested
  <2>4. CASE Return(s, "ok") \/ Return(s, "elapsed") \/ Drop(s)
    <3>1. /\ task'[s] = "busy"
          /\ \A u \in Timeouts : u # s => /\ wakeCh'[u] = wakeCh[u] /\ task'[u] = task[u]
                                           /\ outcome'[u] = outcome[u] /\ (u \in kept' <=> u \in kept)
      BY <2>1, <2>2, <2>4 DEF Return, Drop, Suspend, IInv, TypeOK
    <3>2. QED
      BY <2>1, <2>2, <2>3, <3>1
  <2>5. CASE Suspend(s) /\ kept' = kept /\ Pending(s) /\ ~ready[s] /\ ~Ch!IsReady(wakeCh[s])
    <3>1. relay[s] # "over"
      BY <2>1, <2>2, <2>5 DEF Ch!IsReady, IInv, TypeOK
    <3>2. /\ wakeCh'[s].waker = TRUE /\ task'[s] = "waiting" /\ outcome' = outcome
          /\ \A u \in Timeouts : u # s => wakeCh'[u] = wakeCh[u] /\ task'[u] = task[u]
      BY <2>2, <2>5 DEF Suspend, Ch!Registered, Channel, IInv, TypeOK
    <3>3. QED
      BY <2>1, <2>2, <2>3, <2>5, <3>1, <3>2
  <2>6. QED
    BY <2>1, <2>4, <2>5
<1>4. ASSUME NEW s \in Timeouts, FutureReady(s) PROVE NobodyWaitsInVain'
  <2>1. /\ task'[s] # "waiting" /\ (task'[s] = "none" <=> task[s] = "none")
        /\ \A u \in Timeouts : u # s => task'[u] = task[u] /\ ready'[u] = ready[u]
        /\ UNCHANGED <<requests, relay, wakeCh, outcome, kept>>
    BY <1>4 DEF FutureReady, Woken, IInv, TypeOK
  <2>2. QED
    BY <2>1 DEF Requested
<1>5. CASE Receive
  <2>1. \A u \in Timeouts : Requested(u) => Requested(u)' \/ u = Head(requests)
    BY <1>5, RequestsStay DEF Receive
  <2>2. Head(requests) \in Timeouts
    BY <1>5 DEF Receive, IInv, TypeOK
  <2>3. QED
    BY <1>5, <2>1, <2>2 DEF Receive, IInv, TypeOK
<1>6. ASSUME NEW s \in Timeouts, RelayStep(s) PROVE NobodyWaitsInVain'
  <2>1. /\ relay[s] # "none" /\ relay'[s] # "none"
        /\ UNCHANGED <<requests, ready, outcome, kept>>
        /\ \A u \in Timeouts : u # s => /\ relay'[u] = relay[u] /\ wakeCh'[u] = wakeCh[u]
                                         /\ task'[u] = task[u]
    BY <1>6 DEF RelayStep, RelayStart, RelayElapse, RelayCancel, Woken, IInv, TypeOK
  <2>2. CASE relay'[s] = "over"
    <3>1. task'[s] # "waiting"
      <4>1. CASE RelayElapse(s)
        BY <4>1 DEF RelayElapse, Woken, IInv, TypeOK
      <4>2. CASE Abandoned(s) /\ task' = task
        BY <4>2 DEF Abandoned, IInv, TimerCovers
      <4>3. QED
        BY <1>6, <2>2, <4>1, <4>2 DEF RelayStep, RelayStart, RelayCancel, IInv, TypeOK
    <3>2. QED
      BY <2>1, <3>1 DEF Requested
  <2>3. CASE relay'[s] # "over"
    <3>1. task' = task /\ wakeCh' = wakeCh
      BY <1>6, <2>3 DEF RelayStep, RelayStart, RelayElapse, RelayCancel, IInv, TypeOK
    <3>2. QED
      BY <2>1, <2>3, <3>1 DEF Requested
  <2>4. QED
    BY <2>2, <2>3
<1>7. CASE Tick
  BY <1>7 DEF Tick, Requested
<1>8. QED
  BY <1>1, <1>2, <1>3, <1>4, <1>5, <1>6, <1>7 DEF Next

\* A task that waits for a Timeout has a waker where the end of the sleep and the end
\* of the future will find it, and no request is dropped on the way to the sleep
\* thread (time.rs:218-260): the safety half of WaiterResolves and TimerReleased.
THEOREM NoWakeupLost == Spec => []NobodyWaitsInVain
<1>1. Init => NobodyWaitsInVain
  BY DEF Init, NobodyWaitsInVain, Pending
<1>2. QED
  BY <1>1, StepWaits, Invariance, PTL DEF Spec
=============================================================================
