-------------------------- MODULE HasThreadsProofs --------------------------
(***************************************************************************)
(* Theorems about HasThreads, for any number of callers.                   *)
(***************************************************************************)
EXTENDS HasThreads, SequenceTheorems, TLAPS

LEMMA SenderEnds ==
  ASSUME NEW ch \in Channel
  PROVE  /\ Ch!Send(ch, "unit") \in Channel
         /\ Ch!Send(ch, "unit").tx = FALSE /\ Ch!Send(ch, "unit").rx = ch.rx
         /\ Ch!Send(ch, "unit").val = IF ch.rx THEN "unit" ELSE "none"
         /\ Ch!DropSender(ch) \in Channel
         /\ Ch!DropSender(ch).tx = FALSE /\ Ch!DropSender(ch).rx = ch.rx
         /\ Ch!DropSender(ch).val = ch.val
BY DEF Channel, Ch!Send, Ch!DropSender

LEMMA ReceiverGone ==
  ASSUME NEW ch \in Channel
  PROVE  /\ Ch!DropReceiver(ch) \in Channel
         /\ Ch!DropReceiver(ch).tx = ch.tx /\ Ch!DropReceiver(ch).rx = FALSE
         /\ Ch!DropReceiver(ch).val = "none"
BY DEF Channel, Ch!DropReceiver

LEMMA WakerStored ==
  ASSUME NEW ch \in Channel
  PROVE  /\ Ch!Registered(ch) \in Channel
         /\ Ch!Registered(ch).tx = ch.tx /\ Ch!Registered(ch).rx = ch.rx
         /\ Ch!Registered(ch).val = ch.val
BY DEF Channel, Ch!Registered

LEMMA NewChannels ==
  /\ Ch!Closed \in Channel /\ Ch!Closed.tx = FALSE /\ Ch!Closed.rx = FALSE /\ Ch!Closed.val = "none"
  /\ Ch!Fresh \in Channel /\ Ch!Fresh.tx = TRUE /\ Ch!Fresh.rx = TRUE /\ Ch!Fresh.val = "none"
BY DEF Channel, Ch!Closed, Ch!Fresh

\* Initialising the cell, from a test that ended or from a refused spawn, keeps the
\* invariant if the result is what became of the test.
LEMMA SetCellEffect ==
  ASSUME TypeOK, NEW c \in Callers, NEW result \in {"yes", "no"}, SetCell(c, result)
  PROVE  /\ cell' = result /\ permit' = NoCaller /\ queue' = <<>>
         /\ queue' \in Seq(Callers) /\ woken' \subseteq Callers
         /\ pc' = [pc EXCEPT ![c] = "answered"]
         /\ answer' = [answer EXCEPT ![c] = result]
<1>1. Queued \subseteq Callers
  BY DEF Queued, TypeOK
<1>2. QED
  BY <1>1 DEF SetCell, Finish, TypeOK

-----------------------------------------------------------------------------
(* The steps                                                                 *)

LEMMA InitKeeps == Init => IInv
<1> SUFFICES ASSUME Init PROVE IInv
  OBVIOUS
<1> USE NewChannels DEF Init
<1>1. TypeOK
  BY DEF TypeOK
<1>2. AnswerHolds
  BY DEF AnswerHolds
<1>3. TestsKnown
  BY DEF TestsKnown, TestOK
<1>4. QED
  BY <1>1, <1>2, <1>3 DEF IInv

\* The initialiser spawns the test thread, or the cell is set right away.
LEMMA ProbeKeeps ==
  ASSUME IInv, NEW c \in Callers, cell = "empty", thread[c] = "none",
         permit = c \/ permit = NoCaller, pc[c] \in {"none", "queued"}, Probe(c)
  PROVE  IInv'
<1> USE DEF IInv
<1>1. \A d \in Callers : d # c => pc[d] # "probing" /\ pc[d] # "answered"
  BY CallersAssumption DEF TypeOK, AnswerHolds
<1>2. CASE SpawnRefused(c)
  <2>1. /\ cell' = "no" /\ permit' = NoCaller /\ queue' = <<>>
        /\ queue' \in Seq(Callers) /\ woken' \subseteq Callers
        /\ pc' = [pc EXCEPT ![c] = "answered"]
        /\ answer' = [answer EXCEPT ![c] = "no"]
        /\ thread' = [thread EXCEPT ![c] = "refused"] /\ chan' = chan
    BY <1>2, SetCellEffect DEF SpawnRefused
  <2>2. TypeOK'
    BY <1>1, <2>1 DEF TypeOK
  <2>3. AnswerHolds'
    BY <1>1, <2>1 DEF AnswerHolds, TypeOK
  <2>4. TestsKnown'
    BY <1>1, <2>1 DEF TestsKnown, TestOK, TypeOK
  <2>5. QED
    BY <2>2, <2>3, <2>4
<1>3. CASE SpawnTest(c)
  <2>1. TypeOK'
    BY <1>1, <1>3, NewChannels, CallersAssumption DEF SpawnTest, TypeOK
  <2>2. AnswerHolds'
    BY <1>3 DEF SpawnTest, AnswerHolds, TypeOK
  <2>3. TestsKnown'
    BY <1>1, <1>3, NewChannels DEF SpawnTest, TestsKnown, TestOK, TypeOK
  <2>4. QED
    BY <2>1, <2>2, <2>3
<1>4. QED
  BY <1>2, <1>3 DEF Probe

LEMMA CallKeeps ==
  ASSUME IInv, NEW c \in Callers, Call(c)
  PROVE  IInv'
<1> USE DEF IInv
<1>1. pc[c] = "none" /\ thread[c] = "none"
  BY DEF Call, TestsKnown, TestOK
<1>2. CASE cell # "empty" /\ Finish(c, cell) /\ UNCHANGED <<cell, permit, queue, woken, thread, chan>>
  <2>1. TypeOK'
    BY <1>1, <1>2 DEF Finish, TypeOK
  <2>2. AnswerHolds'
    BY <1>1, <1>2 DEF Finish, AnswerHolds, TypeOK
  <2>3. TestsKnown'
    BY <1>1, <1>2 DEF Finish, TestsKnown, TestOK, TypeOK
  <2>4. QED
    BY <2>1, <2>2, <2>3
<1>3. CASE cell = "empty" /\ permit = NoCaller /\ Probe(c)
  BY <1>1, <1>3, ProbeKeeps
<1>4. CASE /\ cell = "empty" /\ permit # NoCaller
           /\ queue' = Append(queue, c)
           /\ pc' = [pc EXCEPT ![c] = "queued"]
           /\ UNCHANGED <<cell, permit, answer, woken, thread, chan>>
  <2>1. TypeOK'
    BY <1>1, <1>4 DEF TypeOK
  <2>2. AnswerHolds'
    BY <1>1, <1>4 DEF AnswerHolds, TypeOK
  <2>3. TestsKnown'
    BY <1>1, <1>4 DEF TestsKnown, TestOK, TypeOK
  <2>4. QED
    BY <2>1, <2>2, <2>3
<1>5. QED
  BY <1>2, <1>3, <1>4 DEF Call

LEMMA ResumeKeeps ==
  ASSUME IInv, NEW c \in Callers, Resume(c)
  PROVE  IInv'
<1> USE DEF IInv
<1>1. pc[c] = "queued" /\ thread[c] = "none"
  BY DEF Resume, TestsKnown, TestOK, TypeOK
<1>2. CASE cell # "empty" /\ Finish(c, cell) /\ woken' = woken \ {c}
           /\ UNCHANGED <<cell, permit, queue, thread, chan>>
  <2>1. TypeOK'
    BY <1>1, <1>2 DEF Finish, TypeOK
  <2>2. AnswerHolds'
    BY <1>1, <1>2 DEF Finish, AnswerHolds, TypeOK
  <2>3. TestsKnown'
    BY <1>1, <1>2 DEF Finish, TestsKnown, TestOK, TypeOK
  <2>4. QED
    BY <2>1, <2>2, <2>3
<1>3. CASE permit = c /\ Probe(c)
  BY <1>1, <1>3, ProbeKeeps, CallersAssumption DEF TestsKnown, TestOK
<1>4. QED
  BY <1>2, <1>3 DEF Resume

LEMMA AwaitTestKeeps ==
  ASSUME IInv, NEW c \in Callers, AwaitTest(c)
  PROVE  IInv'
<1> USE DEF IInv
<1>1. /\ pc[c] = "probing" /\ permit = c /\ cell = "empty"
      /\ chan[c] \in Channel /\ thread[c] \in {"running", "sent", "failed"}
      /\ \A d \in Callers : d # c => pc[d] # "probing" /\ pc[d] # "answered"
  BY CallersAssumption DEF AwaitTest, TypeOK, TestsKnown, TestOK, AnswerHolds
<1>2. CASE /\ Ch!IsReady(chan[c])
           /\ SetCell(c, Result(chan[c]))
           /\ chan' = [chan EXCEPT ![c] = Ch!DropReceiver(chan[c])]
           /\ UNCHANGED thread
  <2> DEFINE r == Result(chan[c])
  <2>1. r \in {"yes", "no"}
    BY DEF Result
  <2>2. /\ r = "yes" => thread[c] = "sent"
        /\ r = "no" => thread[c] = "failed"
    BY <1>1, <1>2 DEF Result, Ch!IsReady, TestsKnown, TestOK, Channel
  <2> HIDE DEF r
  <2>3. /\ cell' = r /\ permit' = NoCaller /\ queue' = <<>>
        /\ queue' \in Seq(Callers) /\ woken' \subseteq Callers
        /\ pc' = [pc EXCEPT ![c] = "answered"]
        /\ answer' = [answer EXCEPT ![c] = r]
    BY <1>2, <2>1, SetCellEffect DEF r
  <2>4. TypeOK'
    BY <1>1, <1>2, <2>1, <2>3, ReceiverGone DEF TypeOK
  <2>5. AnswerHolds'
    BY <1>1, <1>2, <2>1, <2>2, <2>3 DEF AnswerHolds, TypeOK
  <2>6. TestsKnown'
    <3>1. SUFFICES ASSUME NEW d \in Callers PROVE TestOK(d)'
      BY <2>3 DEF TestsKnown
    <3>2. CASE d = c
      BY <1>1, <1>2, <2>3, <3>2, ReceiverGone DEF TestsKnown, TestOK, TypeOK
    <3>3. CASE d # c
      BY <1>2, <2>3, <3>3 DEF TestsKnown, TestOK, TypeOK
    <3>4. QED
      BY <3>2, <3>3
  <2>7. QED
    BY <2>4, <2>5, <2>6
<1>3. CASE /\ chan' = [chan EXCEPT ![c] = Ch!Registered(chan[c])]
           /\ woken' = woken \ {c}
           /\ UNCHANGED <<cell, permit, queue, pc, answer, thread>>
  <2>1. TypeOK'
    BY <1>1, <1>3, WakerStored DEF TypeOK
  <2>2. AnswerHolds'
    BY <1>3 DEF AnswerHolds
  <2>3. TestsKnown'
    <3>1. SUFFICES ASSUME NEW d \in Callers PROVE TestOK(d)'
      BY <1>3 DEF TestsKnown, TestOK
    <3>2. CASE d = c
      BY <1>1, <1>3, <3>2, WakerStored DEF TestsKnown, TestOK, TypeOK
    <3>3. CASE d # c
      BY <1>3, <3>3 DEF TestsKnown, TestOK, TypeOK
    <3>4. QED
      BY <3>2, <3>3
  <2>4. QED
    BY <2>1, <2>2, <2>3
<1>4. QED
  BY <1>2, <1>3 DEF AwaitTest

\* The queue after a caller was unlinked from it
LEMMA LeaveQueueTyped ==
  ASSUME queue \in Seq(Callers), NEW c \in Callers, LeaveQueue(c)
  PROVE  queue' \in Seq(Callers) /\ (queue = <<>> => queue' = <<>>)
<1>1. ASSUME NEW i \in 1..Len(queue)
      PROVE  /\ SubSeq(queue, 1, i - 1) \in Seq(Callers)
             /\ SubSeq(queue, i + 1, Len(queue)) \in Seq(Callers)
  BY SubSeqProperties
<1>2. \A q, r \in Seq(Callers) : q \o r \in Seq(Callers)
  OBVIOUS
<1>3. ASSUME queue = <<>> PROVE queue' = <<>>
  BY <1>3 DEF LeaveQueue
<1>4. QED
  BY <1>1, <1>2, <1>3 DEF LeaveQueue

LEMMA CancelKeeps ==
  ASSUME IInv, NEW c \in Callers, Cancel(c)
  PROVE  IInv'
<1> USE DEF IInv
<1>1. /\ queue' \in Seq(Callers) /\ woken' \subseteq Callers /\ permit' \in Callers \cup {NoCaller}
      /\ (permit' = NoCaller => queue' = <<>>)
      /\ (permit' # NoCaller => permit # NoCaller)
      /\ \A d \in Callers : d # c /\ pc[d] = "probing" => permit' = d
  <2>1. CASE permit = c /\ PassPermit
    <3>1. \A d \in Callers : d # c => pc[d] # "probing"
      BY <2>1 DEF TypeOK
    <3>2. queue # <<>> => Head(queue) \in Callers /\ Tail(queue) \in Seq(Callers)
      BY DEF TypeOK
    <3>3. permit # NoCaller
      BY <2>1, CallersAssumption
    <3>4. CASE queue = <<>> /\ permit' = NoCaller /\ UNCHANGED <<queue, woken>>
      BY <3>1, <3>3, <3>4 DEF TypeOK
    <3>5. CASE /\ queue # <<>> /\ permit' = Head(queue) /\ queue' = Tail(queue)
               /\ woken' = woken \cup {Head(queue)}
      BY <3>1, <3>2, <3>3, <3>5, CallersAssumption DEF TypeOK
    <3>6. QED
      BY <2>1, <3>4, <3>5 DEF PassPermit
  <2>2. CASE permit # c /\ LeaveQueue(c) /\ UNCHANGED <<permit, woken>>
    BY <2>2, LeaveQueueTyped DEF TypeOK
  <2>3. QED
    BY <2>1, <2>2 DEF Cancel
<1>2. /\ pc[c] \in {"queued", "probing"} /\ chan[c] \in Channel
      /\ pc' = [pc EXCEPT ![c] = "cancelled"]
      /\ chan' = [chan EXCEPT ![c] = Ch!DropReceiver(chan[c])]
      /\ UNCHANGED <<cell, answer, thread>>
  BY DEF Cancel, TypeOK
<1>3. TypeOK'
  BY <1>1, <1>2, ReceiverGone DEF TypeOK
<1>4. AnswerHolds'
  BY <1>2 DEF AnswerHolds, TypeOK
<1>5. TestsKnown'
  <2>1. SUFFICES ASSUME NEW d \in Callers PROVE TestOK(d)'
    BY <1>1, <1>2 DEF TestsKnown, TestOK
  <2>2. CASE d = c
    BY <1>2, <2>2, ReceiverGone DEF TestsKnown, TestOK, TypeOK
  <2>3. CASE d # c
    BY <1>2, <2>3 DEF TestsKnown, TestOK, TypeOK
  <2>4. QED
    BY <2>2, <2>3
<1>6. QED
  BY <1>3, <1>4, <1>5

LEMMA TestThreadKeeps ==
  ASSUME IInv, NEW c \in Callers, TestThread(c)
  PROVE  IInv'
<1> USE DEF IInv
<1>1. chan[c] \in Channel
  BY DEF TypeOK
<1>2. PICK how \in {"sent", "failed"}, ch \in {Ch!Send(chan[c], "unit"), Ch!DropSender(chan[c])} :
        /\ EndTest(c, how, ch)
        /\ how = "sent" => ch = Ch!Send(chan[c], "unit")
        /\ how = "failed" => ch = Ch!DropSender(chan[c])
  BY DEF TestThread, TestSends, TestFails, SenderGone
<1>3. /\ ch \in Channel /\ ch.tx = FALSE /\ ch.rx = chan[c].rx
      /\ (how = "sent" => ch.val = IF chan[c].rx THEN "unit" ELSE "none")
      /\ (how = "failed" => ch.val = chan[c].val)
  <2>1. CASE how = "sent"
    BY <1>1, <1>2, <2>1, SenderEnds
  <2>2. CASE how = "failed"
    BY <1>1, <1>2, <2>2, SenderEnds
  <2>3. QED
    BY <2>1, <2>2
<1>4. /\ thread[c] = "running" /\ thread' = [thread EXCEPT ![c] = how]
      /\ chan' = [chan EXCEPT ![c] = ch] /\ woken' \subseteq Callers
      /\ UNCHANGED <<cell, permit, queue, pc, answer>>
  BY <1>2 DEF EndTest, TypeOK
<1>5. TypeOK'
  BY <1>3, <1>4 DEF TypeOK
<1>6. AnswerHolds'
  BY <1>4 DEF AnswerHolds, TypeOK
<1>7. TestsKnown'
  BY <1>3, <1>4 DEF TestsKnown, TestOK, TypeOK
<1>8. QED
  BY <1>5, <1>6, <1>7

LEMMA NextKeeps == IInv /\ [Next]_vars => IInv'
<1> SUFFICES ASSUME IInv, [Next]_vars PROVE IInv'
  OBVIOUS
<1>1. CASE UNCHANGED vars
  BY <1>1 DEF IInv, TypeOK, AnswerHolds, TestsKnown, TestOK, vars
<1>2. CASE Next
  BY <1>2, CallKeeps, ResumeKeeps, AwaitTestKeeps, CancelKeeps, TestThreadKeeps DEF Next
<1>3. QED
  BY <1>1, <1>2

-----------------------------------------------------------------------------
(* The theorems                                                              *)

\* The inductive invariant of HasThreads.
THEOREM Invariance == Spec => []IInv
  BY InitKeeps, NextKeeps, PTL DEF Spec

\* All callers of has_threads() are told the same, and what they are told is the
\* outcome of a test that was made, whichever calls were cancelled (ext.rs:20-59).
THEOREM OneTrueAnswer == Spec => []AnswerHolds
<1>1. IInv => AnswerHolds
  BY DEF IInv
<1>2. QED
  BY <1>1, Invariance, PTL

-----------------------------------------------------------------------------
(* The queue for the permit                                                  *)

Elements(q) == {q[i] : i \in 1..Len(q)}
Distinct(q) == \A i, j \in 1..Len(q) : q[i] = q[j] => i = j

LEMMA Enqueue ==
  ASSUME NEW q \in Seq(Callers), NEW c \in Callers, c \notin Elements(q), Distinct(q)
  PROVE  Elements(Append(q, c)) = Elements(q) \cup {c} /\ Distinct(Append(q, c))
<1>1. /\ Len(Append(q, c)) = Len(q) + 1 /\ Len(q) \in Nat
      /\ \A i \in 1..Len(q) : Append(q, c)[i] = q[i]
      /\ Append(q, c)[Len(q) + 1] = c
  OBVIOUS
<1>2. 1..(Len(q) + 1) = 1..Len(q) \cup {Len(q) + 1}
  BY <1>1
<1>3. QED
  BY <1>1, <1>2 DEF Elements, Distinct

LEMMA Dequeue ==
  ASSUME NEW q \in Seq(Callers), q # <<>>, Distinct(q)
  PROVE  /\ Head(q) \in Callers /\ Head(q) \in Elements(q)
         /\ Elements(Tail(q)) = Elements(q) \ {Head(q)} /\ Distinct(Tail(q))
<1>1. /\ Len(q) \in Nat \ {0} /\ Head(q) = q[1] /\ q[1] \in Callers
      /\ Len(Tail(q)) = Len(q) - 1
      /\ \A i \in 1..(Len(q) - 1) : Tail(q)[i] = q[i + 1]
  OBVIOUS
<1>2. 1 \in 1..Len(q) /\ \A i \in 1..(Len(q) - 1) : i + 1 \in 1..Len(q) /\ i + 1 # 1
  BY <1>1
<1>3. \A i \in 1..Len(q) : i # 1 => i - 1 \in 1..(Len(q) - 1) /\ (i - 1) + 1 = i
  BY <1>1
<1>4. Distinct(Tail(q))
  BY <1>1, <1>2 DEF Distinct
<1>5. Elements(Tail(q)) \subseteq Elements(q) \ {Head(q)}
  BY <1>1, <1>2 DEF Elements, Distinct
<1>6. ASSUME NEW c \in Elements(q) \ {Head(q)} PROVE c \in Elements(Tail(q))
  <2>1. PICK i \in 1..Len(q) : c = q[i] /\ i # 1
    BY <1>1 DEF Elements
  <2>2. i - 1 \in 1..Len(Tail(q)) /\ Tail(q)[i - 1] = c
    BY <1>1, <1>3, <2>1
  <2>3. QED
    BY <2>2 DEF Elements
<1>7. QED
  BY <1>1, <1>2, <1>4, <1>5, <1>6 DEF Elements

LEMMA Unlink ==
  ASSUME NEW q \in Seq(Callers), NEW i \in 1..Len(q), Distinct(q)
  PROVE  LET r == SubSeq(q, 1, i - 1) \o SubSeq(q, i + 1, Len(q))
         IN  Elements(r) = Elements(q) \ {q[i]} /\ Distinct(r)
<1> DEFINE f == SubSeq(q, 1, i - 1)
           g == SubSeq(q, i + 1, Len(q))
           r == f \o g
           n == Len(q)
<1>1. n \in Nat /\ i \in Nat /\ 1 <= i /\ i <= n
  OBVIOUS
<1>2. /\ f \in Seq(Callers) /\ Len(f) = i - 1 /\ \A k \in 1..(i - 1) : f[k] = q[k]
  <2>1. \A k \in 1..(i - 1) : k \in 1..n
    BY <1>1
  <2>2. i - 1 \in Int /\ (1 <= i - 1 \/ i - 1 = 0)
    BY <1>1
  <2>3. QED
    BY <1>1, <2>1, <2>2, SubSeqProperties
<1>3. /\ g \in Seq(Callers) /\ Len(g) = n - i /\ \A k \in 1..(n - i) : g[k] = q[i + k]
  <2> DEFINE m == i + 1
  <2>1. /\ m \in Int /\ n \in Int /\ n - m + 1 = n - i
        /\ (IF m <= n THEN n - m + 1 ELSE 0) = n - i
        /\ \A k \in 1..(n - i) : m + k - 1 = i + k
    BY <1>1
  <2>2. \A k \in m..n : q[k] \in Callers
    BY <1>1
  <2>3. g = SubSeq(q, m, n)
    OBVIOUS
  <2> HIDE DEF g, n, m
  <2>4. QED
    BY <2>1, <2>2, <2>3, SubSeqProperties
<1> HIDE DEF f, g, n
<1>4. /\ r \in Seq(Callers) /\ Len(r) = n - 1
      /\ \A k \in 1..(n - 1) : r[k] = IF k < i THEN q[k] ELSE q[k + 1]
  <2>1. Len(r) = (i - 1) + (n - i) /\ \A k \in 1..Len(r) : r[k] = IF k <= i - 1 THEN f[k] ELSE g[k - (i - 1)]
    BY <1>2, <1>3
  <2>2. \A k \in 1..(n - 1) : ~(k <= i - 1) => k - (i - 1) \in 1..(n - i) /\ i + (k - (i - 1)) = k + 1
    BY <1>1
  <2>3. \A k \in 1..(n - 1) : (k <= i - 1 <=> k < i) /\ (k < i => k \in 1..(i - 1))
    BY <1>1
  <2>4. (i - 1) + (n - i) = n - 1
    BY <1>1
  <2>5. QED
    BY <1>2, <1>3, <2>1, <2>2, <2>3, <2>4
<1> HIDE DEF r
<1> DEFINE at(k) == IF k < i THEN k ELSE k + 1
<1>5. \A k \in 1..(n - 1) : at(k) \in 1..n /\ at(k) # i /\ r[k] = q[at(k)]
  BY <1>1, <1>4
<1>6. \A k, l \in 1..(n - 1) : at(k) = at(l) => k = l
  BY <1>1
<1>7. \A k \in 1..n : k # i => \E l \in 1..(n - 1) : at(l) = k
  <2> SUFFICES ASSUME NEW k \in 1..n, k # i PROVE \E l \in 1..(n - 1) : at(l) = k
    OBVIOUS
  <2>1. CASE k < i
    BY <1>1, <2>1
  <2>2. CASE i < k
    <3>1. k - 1 \in 1..(n - 1) /\ ~(k - 1 < i) /\ (k - 1) + 1 = k
      BY <1>1, <2>2
    <3>2. QED
      BY <3>1
  <2>3. QED
    BY <1>1, <2>1, <2>2
<1> HIDE DEF at
<1>8. Distinct(r)
  BY <1>4, <1>5, <1>6 DEF Distinct, n
<1>9. Elements(r) = Elements(q) \ {q[i]}
  <2>1. ASSUME NEW k \in 1..(n - 1) PROVE r[k] \in Elements(q) \ {q[i]}
    BY <1>5 DEF Distinct, Elements, n
  <2>2. ASSUME NEW k \in 1..n, q[k] # q[i] PROVE q[k] \in Elements(r)
    <3>1. PICK l \in 1..(n - 1) : at(l) = k
      BY <1>7, <2>2
    <3>2. r[l] = q[k] /\ l \in 1..Len(r)
      BY <1>4, <1>5, <3>1
    <3>3. QED
      BY <3>2 DEF Elements
  <2>3. QED
    BY <1>4, <2>1, <2>2 DEF Elements, n
<1>10. QED
  BY <1>8, <1>9 DEF r, f, g, n

\* The queue after a caller was unlinked from it
LEMMA LeaveQueueEffect ==
  ASSUME queue \in Seq(Callers), Distinct(queue), NEW c \in Callers, LeaveQueue(c)
  PROVE  Queued' = Queued \ {c} /\ Distinct(queue')
<1>1. CASE c \notin Queued /\ UNCHANGED queue
  BY <1>1 DEF Queued, Distinct
<1>2. CASE \E i \in 1..Len(queue) :
             /\ queue[i] = c
             /\ queue' = SubSeq(queue, 1, i - 1) \o SubSeq(queue, i + 1, Len(queue))
  <2>1. PICK i \in 1..Len(queue) :
          /\ queue[i] = c
          /\ queue' = SubSeq(queue, 1, i - 1) \o SubSeq(queue, i + 1, Len(queue))
    BY <1>2
  <2>2. Elements(queue') = Elements(queue) \ {c} /\ Distinct(queue')
    BY <2>1, Unlink
  <2>3. QED
    BY <2>2 DEF Elements, Queued
<1>3. QED
  BY <1>1, <1>2 DEF LeaveQueue

-----------------------------------------------------------------------------
(* Nobody who waits is forgotten.                                            *)

\* One caller of NobodyForgotten
Remembered(c) ==
  /\ pc[c] = "queued" => \/ c \in woken /\ (cell # "empty" \/ permit = c)
                         \/ c \in Queued /\ permit # NoCaller
  /\ pc[c] = "probing" => c \in woken \/ (chan[c].waker /\ thread[c] = "running")

\* WakeInv, with the queue as a set
LEMMA WakeInvParts ==
  WakeInv <=> /\ permit # NoCaller => pc[permit] \in {"queued", "probing"}
              /\ \A c \in Callers : Remembered(c)
              /\ \A c \in Queued : pc[c] = "queued" /\ c # permit
              /\ Distinct(queue)
BY DEF WakeInv, NobodyForgotten, QueueInOrder, Remembered, Queued, Distinct

LEMMA WakeInvAfter ==
  ASSUME permit' # NoCaller => pc'[permit'] \in {"queued", "probing"},
         \A c \in Callers : Remembered(c)',
         \A c \in Queued' : pc'[c] = "queued" /\ c # permit',
         Distinct(queue')
  PROVE  WakeInv'
BY DEF WakeInv, NobodyForgotten, QueueInOrder, Remembered, Queued, Distinct

LEMMA QueuedAreCallers == TypeOK => Queued \subseteq Callers /\ Queued = Elements(queue)
BY DEF TypeOK, Queued, Elements

\* The permit is in use, or the queue is empty.
LEMMA NoQueueWithoutPermit ==
  ASSUME IInv, cell # "empty" \/ permit = NoCaller
  PROVE  permit = NoCaller /\ queue = <<>> /\ Queued = {}
<1>1. permit = NoCaller /\ queue = <<>>
  BY DEF IInv, TypeOK, TestsKnown
<1>2. QED
  BY <1>1 DEF Queued

\* Setting the cell wakes all who queue.
LEMMA SetCellWakes ==
  ASSUME IInv, WakeInv, NEW c \in Callers, NEW result \in {"yes", "no"}, SetCell(c, result),
         permit = c \/ permit = NoCaller, cell = "empty"
  PROVE  WakeInv'
<1>1. /\ cell' = result /\ permit' = NoCaller /\ queue' = <<>>
      /\ pc' = [pc EXCEPT ![c] = "answered"] /\ woken' = (woken \cup Queued) \ {c}
  BY DEF SetCell, Finish
<1>2. Queued' = {} /\ Distinct(queue')
  BY <1>1 DEF Queued, Distinct
<1>3. ASSUME NEW d \in Callers PROVE Remembered(d)'
  <2>1. CASE d = c
    BY <1>1, <2>1 DEF IInv, TypeOK, Remembered
  <2>2. CASE d # c
    <3>1. pc'[d] = pc[d] /\ pc[d] # "probing" /\ cell' # "empty"
      BY <1>1, <2>2, CallersAssumption DEF IInv, TypeOK
    <3>2. pc[d] = "queued" => d \in woken \cup Queued
      BY WakeInvParts DEF Remembered
    <3>3. QED
      BY <1>1, <2>2, <3>1, <3>2 DEF Remembered
  <2>3. QED
    BY <2>1, <2>2
<1>4. QED
  BY <1>1, <1>2, <1>3, WakeInvAfter

\* A probe ends in a cell that is set, or holds the permit and is woken to go on.
LEMMA ProbeWakes ==
  ASSUME IInv, WakeInv, NEW c \in Callers, cell = "empty", thread[c] = "none",
         \/ pc[c] = "none" /\ permit = NoCaller
         \/ pc[c] = "queued" /\ permit = c,
         Probe(c)
  PROVE  WakeInv'
<1>1. CASE SpawnRefused(c)
  BY <1>1, SetCellWakes DEF SpawnRefused
<1>2. CASE SpawnTest(c)
  <2>1. /\ permit' = c /\ pc' = [pc EXCEPT ![c] = "probing"] /\ woken' = woken \cup {c}
        /\ cell' = cell /\ queue' = queue /\ Queued' = Queued
        /\ \A d \in Callers : d # c => chan'[d] = chan[d] /\ thread'[d] = thread[d]
    BY <1>2 DEF SpawnTest, Queued, IInv, TypeOK
  <2>2. c \notin Queued
    BY NoQueueWithoutPermit, WakeInvParts
  <2>3. c # NoCaller /\ pc'[c] = "probing" /\ \A d \in Callers : d # c => pc'[d] = pc[d]
    BY <2>1, CallersAssumption DEF IInv, TypeOK
  <2>4. ASSUME NEW d \in Callers PROVE Remembered(d)'
    <3>1. CASE d = c
      BY <2>1, <2>3, <3>1 DEF Remembered
    <3>2. CASE d # c
      <4>1. pc[d] = "queued" => d \in Queued
        BY <3>2, WakeInvParts, CallersAssumption DEF Remembered
      <4>2. pc[d] # "probing"
        BY <3>2, CallersAssumption DEF IInv, TypeOK
      <4>3. QED
        BY <2>1, <2>3, <3>2, <4>1, <4>2 DEF Remembered
    <3>3. QED
      BY <3>1, <3>2
  <2>5. \A d \in Queued' : pc'[d] = "queued" /\ d # permit'
    BY <2>1, <2>2, <2>3, WakeInvParts, QueuedAreCallers DEF IInv
  <2>6. Distinct(queue')
    BY <2>1, WakeInvParts
  <2>7. QED
    BY <2>1, <2>3, <2>4, <2>5, <2>6, WakeInvAfter
<1>3. QED
  BY <1>1, <1>2 DEF Probe

\* Who finds the cell set takes the answer, and nobody queues any more.
LEMMA AnswerWakes ==
  ASSUME IInv, WakeInv, NEW c \in Callers, cell # "empty", Finish(c, cell),
         woken \ {c} \subseteq woken', UNCHANGED <<cell, permit, queue, thread, chan>>
  PROVE  WakeInv'
<1>1. permit' = NoCaller /\ Queued = {} /\ Queued' = {} /\ Distinct(queue')
  BY NoQueueWithoutPermit DEF Queued, Distinct
<1>2. ASSUME NEW d \in Callers PROVE Remembered(d)'
  <2>1. CASE d = c
    BY <2>1 DEF Finish, Remembered, IInv, TypeOK
  <2>2. CASE d # c
    <3>1. pc'[d] = pc[d]
      BY <2>2 DEF Finish, IInv, TypeOK
    <3>2. Remembered(d) /\ cell' # "empty"
      BY WakeInvParts
    <3>3. QED
      BY <1>1, <2>2, <3>1, <3>2 DEF Remembered
  <2>3. QED
    BY <2>1, <2>2
<1>3. QED
  BY <1>1, <1>2, WakeInvAfter

LEMMA CallWakes ==
  ASSUME IInv, WakeInv, NEW c \in Callers, Call(c)
  PROVE  WakeInv'
<1>1. pc[c] = "none" /\ thread[c] = "none"
  BY DEF Call, IInv, TestsKnown, TestOK
<1>2. CASE cell # "empty" /\ Finish(c, cell) /\ UNCHANGED <<cell, permit, queue, woken, thread, chan>>
  BY <1>2, AnswerWakes
<1>3. CASE cell = "empty" /\ permit = NoCaller /\ Probe(c)
  BY <1>1, <1>3, ProbeWakes
<1>4. CASE /\ cell = "empty" /\ permit # NoCaller
           /\ queue' = Append(queue, c)
           /\ pc' = [pc EXCEPT ![c] = "queued"]
           /\ UNCHANGED <<cell, permit, answer, woken, thread, chan>>
  <2>1. permit # c /\ c \notin Queued
    BY <1>1, <1>4, WakeInvParts
  <2>2. Queued' = Queued \cup {c} /\ Distinct(queue')
    <3>1. Queued' = Elements(queue')
      BY DEF Queued, Elements
    <3>2. QED
      BY <1>4, <2>1, <3>1, Enqueue, QueuedAreCallers, WakeInvParts DEF IInv, TypeOK
  <2>3. pc'[c] = "queued" /\ \A d : d # c => pc'[d] = pc[d]
    BY <1>4 DEF IInv, TypeOK
  <2>4. ASSUME NEW d \in Callers PROVE Remembered(d)'
    <3>1. Remembered(d)
      BY WakeInvParts
    <3>2. QED
      BY <1>4, <2>2, <2>3, <3>1 DEF Remembered
  <2>5. QED
    BY <1>4, <2>1, <2>2, <2>3, <2>4, WakeInvParts, WakeInvAfter
<1>5. QED
  BY <1>2, <1>3, <1>4 DEF Call

LEMMA ResumeWakes ==
  ASSUME IInv, WakeInv, NEW c \in Callers, Resume(c)
  PROVE  WakeInv'
<1>1. pc[c] = "queued" /\ thread[c] = "none"
  BY DEF Resume, IInv, TypeOK, TestsKnown, TestOK
<1>2. CASE cell # "empty" /\ Finish(c, cell) /\ woken' = woken \ {c}
           /\ UNCHANGED <<cell, permit, queue, thread, chan>>
  BY <1>2, AnswerWakes
<1>3. CASE permit = c /\ Probe(c)
  BY <1>1, <1>3, ProbeWakes, CallersAssumption DEF IInv, TestsKnown
<1>4. QED
  BY <1>2, <1>3 DEF Resume

LEMMA AwaitTestWakes ==
  ASSUME IInv, WakeInv, NEW c \in Callers, AwaitTest(c)
  PROVE  WakeInv'
<1>1. pc[c] = "probing" /\ permit = c /\ cell = "empty" /\ chan[c] \in Channel
  BY CallersAssumption DEF AwaitTest, IInv, TypeOK, TestsKnown
<1>2. ASSUME SetCell(c, Result(chan[c])) PROVE WakeInv'
  <2>1. Result(chan[c]) \in {"yes", "no"}
    BY DEF Result
  <2>2. QED
    BY <1>1, <1>2, <2>1, SetCellWakes
<1>3. CASE /\ ~Ch!IsReady(chan[c])
           /\ chan' = [chan EXCEPT ![c] = Ch!Registered(chan[c])]
           /\ woken' = woken \ {c}
           /\ UNCHANGED <<cell, permit, queue, pc, answer, thread>>
  <2>1. thread[c] = "running" /\ chan'[c].waker = TRUE
    BY <1>1, <1>3 DEF Ch!IsReady, Ch!Registered, Channel, IInv, TypeOK, TestsKnown, TestOK
  <2>2. Queued' = Queued /\ Distinct(queue')
    BY <1>3, WakeInvParts DEF Queued
  <2>3. ASSUME NEW d \in Callers PROVE Remembered(d)'
    <3>1. CASE d = c
      BY <1>1, <1>3, <2>1, <3>1 DEF Remembered
    <3>2. CASE d # c
      <4>1. Remembered(d) /\ chan'[d] = chan[d]
        BY <1>3, <3>2, WakeInvParts DEF IInv, TypeOK
      <4>2. QED
        BY <1>3, <2>2, <3>2, <4>1 DEF Remembered
    <3>3. QED
      BY <3>1, <3>2
  <2>4. QED
    BY <1>3, <2>2, <2>3, WakeInvParts, WakeInvAfter
<1>4. QED
  BY <1>2, <1>3 DEF AwaitTest

\* Where a permit goes that is given back
LEMMA PassPermitEffect ==
  ASSUME IInv, WakeInv, NEW c \in Callers, permit = c, PassPermit
  PROVE  /\ permit' = NoCaller => Queued = {}
         /\ permit' # NoCaller => permit' \in Queued /\ permit' \in woken'
         /\ Queued' = Queued \ {permit'} /\ Distinct(queue')
         /\ woken \subseteq woken'
<1>1. Queued' = Elements(queue') /\ Queued = Elements(queue) /\ Distinct(queue)
  BY WakeInvParts DEF Queued, Elements
<1>2. CASE queue = <<>> /\ permit' = NoCaller /\ UNCHANGED <<queue, woken>>
  BY <1>1, <1>2 DEF Elements, Distinct
<1>3. CASE /\ queue # <<>> /\ permit' = Head(queue) /\ queue' = Tail(queue)
           /\ woken' = woken \cup {Head(queue)}
  BY <1>1, <1>3, Dequeue, CallersAssumption DEF IInv, TypeOK
<1>4. QED
  BY <1>2, <1>3 DEF PassPermit

LEMMA CancelWakes ==
  ASSUME IInv, WakeInv, NEW c \in Callers, Cancel(c)
  PROVE  WakeInv'
<1>1. /\ pc[c] \in {"queued", "probing"} /\ pc'[c] = "cancelled"
      /\ \A d \in Callers : d # c => pc'[d] = pc[d] /\ chan'[d] = chan[d]
      /\ UNCHANGED <<cell, thread>>
  BY DEF Cancel, IInv, TypeOK
<1>2. Remembered(c)'
  BY <1>1 DEF Remembered
<1>3. Queued \subseteq Callers
  BY QueuedAreCallers DEF IInv
<1>4. CASE permit = c /\ PassPermit
  <2>1. /\ permit' = NoCaller => Queued = {}
        /\ permit' # NoCaller => permit' \in Queued /\ permit' \in woken'
        /\ Queued' = Queued \ {permit'} /\ Distinct(queue') /\ woken \subseteq woken'
    BY <1>4, PassPermitEffect
  <2>2. c \notin Queued /\ cell = "empty" /\ \A d \in Queued : pc[d] = "queued"
    BY <1>4, WakeInvParts, CallersAssumption DEF IInv, TestsKnown
  <2>3. ASSUME NEW d \in Callers, d # c PROVE Remembered(d)'
    <3>1. pc[d] = "queued" => d \in Queued
      BY <1>4, <2>2, <2>3, WakeInvParts DEF Remembered
    <3>2. pc[d] # "probing"
      BY <1>4, <2>3 DEF IInv, TypeOK
    <3>3. QED
      BY <1>1, <2>1, <2>3, <3>1, <3>2 DEF Remembered
  <2>4. \A d \in Queued' : pc'[d] = "queued" /\ d # permit'
    BY <1>1, <1>3, <2>1, <2>2
  <2>5. permit' # NoCaller => pc'[permit'] \in {"queued", "probing"}
    BY <1>1, <1>3, <2>1, <2>2
  <2>6. QED
    BY <1>2, <2>1, <2>3, <2>4, <2>5, WakeInvAfter
<1>5. CASE permit # c /\ LeaveQueue(c) /\ UNCHANGED <<permit, woken>>
  <2>1. Queued' = Queued \ {c} /\ Distinct(queue')
    BY <1>5, LeaveQueueEffect, WakeInvParts DEF IInv, TypeOK
  <2>2. ASSUME NEW d \in Callers, d # c PROVE Remembered(d)'
    <3>1. Remembered(d)
      BY WakeInvParts
    <3>2. QED
      BY <1>1, <1>5, <2>1, <2>2, <3>1 DEF Remembered
  <2>3. \A d \in Queued' : pc'[d] = "queued" /\ d # permit'
    BY <1>1, <1>3, <1>5, <2>1, WakeInvParts
  <2>4. permit' # NoCaller => pc'[permit'] \in {"queued", "probing"}
    BY <1>1, <1>5, WakeInvParts DEF IInv, TypeOK
  <2>5. QED
    BY <1>2, <2>1, <2>2, <2>3, <2>4, WakeInvAfter
<1>6. QED
  BY <1>4, <1>5 DEF Cancel

LEMMA TestThreadWakes ==
  ASSUME IInv, WakeInv, NEW c \in Callers, TestThread(c)
  PROVE  WakeInv'
<1>1. /\ woken' = IF chan[c].waker THEN woken \cup {c} ELSE woken
      /\ \A d \in Callers : d # c => thread'[d] = thread[d] /\ chan'[d] = chan[d]
      /\ UNCHANGED <<cell, permit, queue, pc>>
  BY DEF TestThread, TestSends, TestFails, SenderGone, EndTest, IInv, TypeOK
<1>2. Queued' = Queued /\ Distinct(queue')
  BY <1>1, WakeInvParts DEF Queued
<1>3. ASSUME NEW d \in Callers PROVE Remembered(d)'
  <2>1. Remembered(d)
    BY WakeInvParts
  <2>2. QED
    BY <1>1, <1>2, <2>1 DEF Remembered
<1>4. QED
  BY <1>1, <1>2, <1>3, WakeInvParts, WakeInvAfter

LEMMA NextWakes == IInv /\ WakeInv /\ [Next]_vars => WakeInv'
<1> SUFFICES ASSUME IInv, WakeInv, [Next]_vars PROVE WakeInv'
  OBVIOUS
<1>1. CASE UNCHANGED vars
  BY <1>1 DEF WakeInv, NobodyForgotten, QueueInOrder, Queued, vars
<1>2. CASE Next
  BY <1>2, CallWakes, ResumeWakes, AwaitTestWakes, CancelWakes, TestThreadWakes DEF Next
<1>3. QED
  BY <1>1, <1>2

\* However calls are cancelled, every caller that is suspended has been woken, waits
\* for a test thread that runs, or queues behind a caller that can still act: the
\* safety half of CallersAnswered.
THEOREM EveryCallerRemembered == Spec => []NobodyForgotten
<1>1. Init => WakeInv
  BY DEF Init, WakeInv, NobodyForgotten, QueueInOrder
<1>2. WakeInv => NobodyForgotten
  BY DEF WakeInv
<1>3. QED
  BY <1>1, <1>2, NextWakes, Invariance, PTL DEF Spec
=============================================================================
