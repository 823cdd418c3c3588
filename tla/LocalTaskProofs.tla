-------------------------- MODULE LocalTaskProofs --------------------------
(***************************************************************************)
(* Theorems about LocalTask, for any set of tasks and whoever owns them.   *)
(***************************************************************************)
EXTENDS LocalTask, TLAPS

Values == Ends \cup {"none", "abort", "aborted"}

LEMMA SendCall ==
  ASSUME NEW ch \in Channel, NEW v \in Values
  PROVE  /\ Ch!Send(ch, v) \in Channel
         /\ Ch!Send(ch, v).tx = FALSE
         /\ Ch!Send(ch, v).rx = ch.rx
         /\ Ch!Send(ch, v).val = IF ch.rx THEN v ELSE "none"
BY DEF Channel, Values, Ch!Send

LEMMA OtherCalls ==
  ASSUME NEW ch \in Channel
  PROVE  /\ Ch!DropSender(ch) \in Channel
         /\ Ch!DropSender(ch).rx = ch.rx /\ Ch!DropSender(ch).val = ch.val
         /\ Ch!DropReceiver(ch) \in Channel
         /\ Ch!DropReceiver(ch).tx = ch.tx
         /\ Ch!DropReceiver(ch).rx = FALSE /\ Ch!DropReceiver(ch).val = "none"
         /\ Ch!Registered(ch) \in Channel
         /\ Ch!Registered(ch).tx = ch.tx
         /\ Ch!Registered(ch).rx = ch.rx /\ Ch!Registered(ch).val = ch.val
BY DEF Channel, Ch!DropSender, Ch!DropReceiver, Ch!Registered

LEMMA NewChannels ==
  /\ Ch!Closed \in Channel /\ Ch!Closed.tx = FALSE /\ Ch!Closed.rx = FALSE /\ Ch!Closed.val = "none"
  /\ Ch!Fresh \in Channel /\ Ch!Fresh.tx = TRUE /\ Ch!Fresh.rx = TRUE /\ Ch!Fresh.val = "none"
BY DEF Channel, Ch!Closed, Ch!Fresh

\* abort() leaves a request where there was a sender and a receiver, and never takes
\* one back.
LEMMA AbortCall ==
  ASSUME NEW ch \in Channel
  PROVE  /\ Aborted(ch) \in Channel
         /\ Aborted(ch).rx = ch.rx
         /\ ch.rx /\ (ch.tx \/ ch.val = "abort") => Aborted(ch).val = "abort"
BY SendCall DEF Aborted, Values

-----------------------------------------------------------------------------
(* IInv is inductive.                                                        *)

LEMMA InitIInv == Init => IInv
<1> SUFFICES ASSUME Init PROVE IInv
  OBVIOUS
<1>1. /\ \A t \in Tasks : /\ pc[t] = "none" /\ result[t] = "none" /\ handle[t] = "none"
                          /\ joined[t] = "none" /\ polls[t] = 0
                          /\ abortCh[t] = Ch!Closed /\ resultCh[t] = Ch!Closed
      /\ asked = {}
  BY DEF Init
<1>2. TypeOK
  BY <1>1, NewChannels DEF Init, TypeOK, Held
<1>3. RequestKept /\ ResultKept /\ BelongingsGone
  BY <1>1, NewChannels DEF RequestKept, ResultKept, BelongingsGone, Selecting, Held
<1>4. AbortedOnlyOnRequest /\ JoinFaithful /\ AbortTakesOnePoll
  BY <1>1 DEF AbortedOnlyOnRequest, JoinFaithful, AbortTakesOnePoll
<1>5. QED
  BY <1>2, <1>3, <1>4 DEF IInv

\* The owner of a new task is polled, and its select is not over.
LEMMA SpawnKeeps ==
  ASSUME IInv, NEW t \in Tasks, Spawn(t)
  PROVE  IInv'
<1>1. /\ pc[t] = "none" /\ pc' = [pc EXCEPT ![t] = "idle"]
      /\ queued' = queued \cup {t}
      /\ watching' = [watching EXCEPT ![t] = TRUE]
      /\ abortCh' = [abortCh EXCEPT ![t] = Ch!Fresh]
      /\ resultCh' = [resultCh EXCEPT ![t] = Ch!Fresh]
      /\ handle' = [handle EXCEPT ![t] = "plain"]
      /\ UNCHANGED <<result, joined, asked, polls>>
      /\ Owner[t] \in Tasks => pc[Owner[t]] = "polling"
  BY OwnerAssumption DEF Spawn, Active
<1>2. TypeOK'
  BY <1>1, NewChannels DEF IInv, TypeOK, Held
<1>3. RequestKept'
  BY <1>1, NewChannels DEF IInv, TypeOK, RequestKept, ResultKept, Held, Selecting
<1>4. ResultKept'
  BY <1>1, NewChannels DEF IInv, TypeOK, ResultKept, Held, Selecting
<1>5. BelongingsGone'
  BY <1>1 DEF IInv, TypeOK, ResultKept, BelongingsGone, Held, Selecting
<1>6. (AbortedOnlyOnRequest /\ JoinFaithful /\ AbortTakesOnePoll)'
  BY <1>1 DEF IInv, AbortedOnlyOnRequest, JoinFaithful, AbortTakesOnePoll
<1>7. QED
  BY <1>2, <1>3, <1>4, <1>5, <1>6 DEF IInv

LEMMA GuardKeeps ==
  ASSUME IInv, NEW t \in Tasks, Guard(t) \/ IntoInner(t)
  PROVE  IInv'
<1>1. PICK h \in {"plain", "guard"} : handle' = [handle EXCEPT ![t] = h]
  BY DEF Guard, IntoInner
<1>2. /\ UNCHANGED <<pc, queued, result, watching, abortCh, resultCh, joined, asked, polls>>
      /\ Held(t)
  BY DEF Guard, IntoInner, Held
<1>3. \A u \in Tasks : (Held(u)' <=> Held(u)) /\ (handle'[u] = "none" <=> handle[u] = "none")
  BY <1>1, <1>2 DEF IInv, TypeOK, Held
<1>4. TypeOK'
  BY <1>1, <1>2, <1>3 DEF IInv, TypeOK
<1>5. (RequestKept /\ ResultKept /\ BelongingsGone)'
  BY <1>2, <1>3 DEF IInv, RequestKept, ResultKept, BelongingsGone, Selecting
<1>6. (AbortedOnlyOnRequest /\ JoinFaithful /\ AbortTakesOnePoll)'
  BY <1>2 DEF IInv, AbortedOnlyOnRequest, JoinFaithful, AbortTakesOnePoll
<1>7. QED
  BY <1>4, <1>5, <1>6 DEF IInv

LEMMA AbortKeeps ==
  ASSUME IInv, NEW t \in Tasks, Abort(t)
  PROVE  IInv'
<1>1. /\ Held(t) /\ handle[t] # "none"
      /\ abortCh' = [abortCh EXCEPT ![t] = Aborted(abortCh[t])]
      /\ queued' \subseteq queued \cup {t}
      /\ asked' = asked \cup {t}
      /\ UNCHANGED <<pc, result, watching, resultCh, handle, joined, polls>>
  BY DEF Abort, Held
<1>2. TypeOK'
  BY <1>1, AbortCall DEF IInv, TypeOK, Held
<1>3. \A u \in Tasks \ {t} : abortCh'[u] = abortCh[u]
  BY <1>1 DEF IInv, TypeOK
<1>4. Selecting(t) => abortCh'[t].val = "abort"
  BY <1>1, AbortCall DEF IInv, TypeOK, RequestKept, Selecting
<1>5. RequestKept'
  BY <1>1, <1>3, <1>4 DEF IInv, RequestKept, Held, Selecting
<1>6. (ResultKept /\ BelongingsGone)'
  BY <1>1 DEF IInv, ResultKept, BelongingsGone, Held, Selecting
<1>7. (AbortedOnlyOnRequest /\ JoinFaithful /\ AbortTakesOnePoll)'
  BY <1>1 DEF IInv, AbortedOnlyOnRequest, JoinFaithful, AbortTakesOnePoll
<1>8. QED
  BY <1>2, <1>5, <1>6, <1>7 DEF IInv

-----------------------------------------------------------------------------
(* Handles that are dropped, one or all that a future held                   *)

LEMMA DroppedHandleCall ==
  ASSUME IInv, NEW t \in Tasks, Held(t)
  PROVE  /\ DroppedHandle(t) \in Channel
         /\ DroppedHandle(t).rx = abortCh[t].rx
         /\ Selecting(t) /\ (t \in asked \/ handle[t] = "guard") => DroppedHandle(t).val = "abort"
         /\ DroppedHandle(t).val = "abort" => t \in asked \/ handle[t] = "guard"
<1>1. abortCh[t] \in Channel /\ (Selecting(t) => abortCh[t].rx)
  BY DEF IInv, TypeOK, Selecting
<1>2. CASE handle[t] = "guard"
  BY <1>1, <1>2, AbortCall DEF DroppedHandle, IInv, RequestKept
<1>3. CASE handle[t] # "guard"
  BY <1>1, <1>3, OtherCalls DEF DroppedHandle, IInv, RequestKept
<1>4. QED
  BY <1>2, <1>3

LEMMA DropHandlesEffect ==
  ASSUME IInv, NEW S \in SUBSET Tasks, \A u \in S : Held(u),
         NEW ch \in [Tasks -> Channel],
         abortCh' = [u \in Tasks |-> IF u \in S THEN DroppedHandle(u) ELSE ch[u]],
         resultCh' = [u \in Tasks |-> IF u \in S THEN Ch!DropReceiver(resultCh[u]) ELSE resultCh[u]],
         handle' = [u \in Tasks |-> IF u \notin S THEN handle[u]
                      ELSE IF handle[u] = "guard" THEN "released" ELSE "detached"],
         queued' = queued \cup {u \in S : abortCh[u].waker},
         asked' = asked \cup {u \in S : handle[u] = "guard"}
  PROVE  /\ abortCh' \in [Tasks -> Channel] /\ resultCh' \in [Tasks -> Channel]
         /\ handle' \in [Tasks -> {"none", "plain", "guard", "released", "detached", "joined"}]
         /\ queued' \subseteq Tasks /\ asked' = asked \cup {u \in S : handle[u] = "guard"}
         /\ \A u \in S : /\ abortCh'[u] = DroppedHandle(u)
                         /\ handle'[u] \in {"released", "detached"}
                         /\ resultCh'[u].rx = FALSE /\ resultCh'[u].tx = resultCh[u].tx
         /\ \A u \in Tasks \ S : abortCh'[u] = ch[u] /\ resultCh'[u] = resultCh[u] /\ handle'[u] = handle[u]
<1>1. /\ resultCh \in [Tasks -> Channel] /\ queued \subseteq Tasks
      /\ handle \in [Tasks -> {"none", "plain", "guard", "released", "detached", "joined"}]
  BY DEF IInv, TypeOK
<1>2. \A u \in S : DroppedHandle(u) \in Channel
  BY DroppedHandleCall
<1>3. abortCh' \in [Tasks -> Channel] /\ resultCh' \in [Tasks -> Channel]
  BY <1>1, <1>2, OtherCalls
<1>4. \A u \in S : resultCh'[u].rx = FALSE /\ resultCh'[u].tx = resultCh[u].tx
  BY <1>1, OtherCalls
<1>5. QED
  BY <1>1, <1>3, <1>4

LEMMA DropHandleKeeps ==
  ASSUME IInv, NEW t \in Tasks, DropHandle(t)
  PROVE  IInv'
<1>1. /\ Held(t) /\ DropHandles({t}, abortCh) /\ abortCh \in [Tasks -> Channel]
      /\ UNCHANGED <<pc, result, watching, joined, polls>>
  BY DEF DropHandle, IInv, TypeOK
<1>2. /\ abortCh' \in [Tasks -> Channel] /\ resultCh' \in [Tasks -> Channel]
      /\ handle' \in [Tasks -> {"none", "plain", "guard", "released", "detached", "joined"}]
      /\ queued' \subseteq Tasks
      /\ \A u : u \in asked' <=> u \in asked \/ (u = t /\ handle[t] = "guard")
      /\ abortCh'[t] = DroppedHandle(t) /\ handle'[t] \in {"released", "detached"}
      /\ resultCh'[t].rx = FALSE /\ resultCh'[t].tx = resultCh[t].tx
      /\ \A u \in Tasks \ {t} : abortCh'[u] = abortCh[u] /\ resultCh'[u] = resultCh[u] /\ handle'[u] = handle[u]
  <2> DEFINE S == {t}
             ch == abortCh
  <2>1. S \in SUBSET Tasks /\ (\A u \in S : Held(u)) /\ ch \in [Tasks -> Channel]
    BY <1>1
  <2>2. \A u : u \in S <=> u = t
    OBVIOUS
  <2>3. DropHandles(S, ch)
    BY <1>1
  <2> HIDE DEF S, ch
  <2>4. /\ abortCh' \in [Tasks -> Channel] /\ resultCh' \in [Tasks -> Channel]
        /\ handle' \in [Tasks -> {"none", "plain", "guard", "released", "detached", "joined"}]
        /\ queued' \subseteq Tasks /\ asked' = asked \cup {u \in S : handle[u] = "guard"}
        /\ \A u \in S : /\ abortCh'[u] = DroppedHandle(u)
                        /\ handle'[u] \in {"released", "detached"}
                        /\ resultCh'[u].rx = FALSE /\ resultCh'[u].tx = resultCh[u].tx
        /\ \A u \in Tasks \ S : /\ abortCh'[u] = ch[u]
                                /\ resultCh'[u] = resultCh[u] /\ handle'[u] = handle[u]
    BY <2>1, <2>3, DropHandlesEffect DEF DropHandles
  <2>5. \A u : u \in asked' <=> u \in asked \/ (u = t /\ handle[t] = "guard")
    BY <2>2, <2>4
  <2>6. QED
    BY <2>2, <2>4, <2>5 DEF ch
<1>3. /\ abortCh'[t].rx = abortCh[t].rx
      /\ Selecting(t) /\ (t \in asked \/ handle[t] = "guard") => abortCh'[t].val = "abort"
      /\ abortCh'[t].val = "abort" => t \in asked \/ handle[t] = "guard"
  BY <1>1, <1>2, DroppedHandleCall
<1>4. ~Held(t)' /\ \A u \in Tasks \ {t} : Held(u)' <=> Held(u)
  BY <1>2 DEF Held
<1>5. TypeOK'
  <2>1. \A u \in Tasks : /\ abortCh'[u].rx <=> pc'[u] \in {"idle", "polling", "checking"}
                         /\ resultCh'[u].tx <=> pc'[u] \in {"idle", "polling", "checking", "sending"}
                         /\ resultCh'[u].rx <=> Held(u)'
    BY <1>1, <1>2, <1>3, <1>4 DEF IInv, TypeOK
  <2>2. asked' \subseteq Tasks
    BY <1>2 DEF IInv, TypeOK
  <2>3. QED
    BY <1>1, <1>2, <2>1, <2>2 DEF IInv, TypeOK
<1>6. RequestKept'
  BY <1>1, <1>2, <1>3, <1>4 DEF IInv, RequestKept, Selecting, Held
<1>7. (ResultKept /\ BelongingsGone)'
  BY <1>1, <1>2, <1>4 DEF IInv, ResultKept, BelongingsGone, Selecting, Held
<1>8. (AbortedOnlyOnRequest /\ JoinFaithful /\ AbortTakesOnePoll)'
  BY <1>1, <1>2 DEF IInv, AbortedOnlyOnRequest, JoinFaithful, AbortTakesOnePoll
<1>9. QED
  BY <1>5, <1>6, <1>7, <1>8 DEF IInv

\* The select of t is over: it holds nothing any more, and a result that says
\* "aborted" was asked for.
LEMMA EndSelectKeeps ==
  ASSUME IInv, NEW t \in Tasks, NEW res \in Ends \cup {"aborted"},
         pc[t] \in {"polling", "checking"}, res = "aborted" => t \in asked, EndSelect(t, res)
  PROVE  IInv'
<1> DEFINE S == Belongings(t)
<1>1. /\ S = {c \in Tasks : Owner[c] = t /\ Held(c)} /\ t \notin S
  BY DEF Belongings, IInv, BelongingsGone
<1>2. /\ pc' = [pc EXCEPT ![t] = "sending"] /\ result' = [result EXCEPT ![t] = res]
      /\ DropHandles(S, WithoutAbortReceiver(t))
      /\ UNCHANGED <<watching, joined, polls>>
  BY DEF EndSelect
<1>3. /\ WithoutAbortReceiver(t) \in [Tasks -> Channel]
      /\ WithoutAbortReceiver(t)[t].rx = FALSE /\ WithoutAbortReceiver(t)[t].val = "none"
      /\ \A u \in Tasks \ {t} : WithoutAbortReceiver(t)[u] = abortCh[u]
  <2>1. abortCh \in [Tasks -> Channel]
    BY DEF IInv, TypeOK
  <2>2. WithoutAbortReceiver(t) = [abortCh EXCEPT ![t] = Ch!DropReceiver(abortCh[t])]
    BY <2>1 DEF WithoutAbortReceiver
  <2>3. abortCh[t] \in Channel
    BY <2>1
  <2>4. /\ Ch!DropReceiver(abortCh[t]) \in Channel
        /\ Ch!DropReceiver(abortCh[t]).rx = FALSE /\ Ch!DropReceiver(abortCh[t]).val = "none"
    BY <2>3, OtherCalls
  <2>5. QED
    BY <2>1, <2>2, <2>4
<1>4. /\ abortCh' \in [Tasks -> Channel] /\ resultCh' \in [Tasks -> Channel]
      /\ handle' \in [Tasks -> {"none", "plain", "guard", "released", "detached", "joined"}]
      /\ queued' \subseteq Tasks /\ asked' = asked \cup {u \in S : handle[u] = "guard"}
      /\ \A u \in S : /\ abortCh'[u] = DroppedHandle(u)
                      /\ handle'[u] \in {"released", "detached"}
                      /\ resultCh'[u].rx = FALSE /\ resultCh'[u].tx = resultCh[u].tx
      /\ \A u \in Tasks \ S : /\ abortCh'[u] = WithoutAbortReceiver(t)[u]
                              /\ resultCh'[u] = resultCh[u] /\ handle'[u] = handle[u]
  <2>1. S \in SUBSET Tasks /\ \A u \in S : Held(u)
    BY <1>1
  <2> HIDE DEF S
  <2>2. QED
    BY <1>2, <1>3, <2>1, DropHandlesEffect DEF DropHandles
<1>5. \A u \in S :
        /\ abortCh'[u].rx = abortCh[u].rx
        /\ Selecting(u) /\ (u \in asked \/ handle[u] = "guard") => abortCh'[u].val = "abort"
        /\ abortCh'[u].val = "abort" => u \in asked \/ handle[u] = "guard"
  BY <1>1, <1>4, DroppedHandleCall
<1>6. /\ \A u \in S : ~Held(u)' /\ Held(u)
      /\ \A u \in Tasks \ S : Held(u)' <=> Held(u)
  BY <1>1, <1>4 DEF Held
<1>7. /\ pc'[t] = "sending" /\ result'[t] = res /\ ~Selecting(t)' /\ Selecting(t)
      /\ \A u \in Tasks \ {t} : pc'[u] = pc[u] /\ result'[u] = result[u] /\ (Selecting(u)' <=> Selecting(u))
  BY <1>2 DEF IInv, TypeOK, Selecting
<1>8. TypeOK'
  <2>1. \A u \in Tasks : abortCh'[u].rx <=> pc'[u] \in {"idle", "polling", "checking"}
    BY <1>1, <1>3, <1>4, <1>5, <1>7 DEF IInv, TypeOK
  <2>2. \A u \in Tasks : /\ resultCh'[u].tx <=> pc'[u] \in {"idle", "polling", "checking", "sending"}
                         /\ resultCh'[u].rx <=> Held(u)'
    BY <1>1, <1>4, <1>6, <1>7 DEF IInv, TypeOK
  <2>3. asked' \subseteq Tasks
    BY <1>1, <1>4 DEF IInv, TypeOK
  <2>4. /\ pc' \in [Tasks -> {"none", "idle", "polling", "checking", "sending", "over"}]
        /\ result' \in [Tasks -> Ends \cup {"none", "aborted"}]
        /\ watching' \in [Tasks -> BOOLEAN] /\ polls' \in [Tasks -> 0..2]
        /\ joined' \in [Tasks -> Ends \cup {"none", "aborted", "failed"}]
    BY <1>2 DEF IInv, TypeOK
  <2>5. QED
    BY <1>4, <2>1, <2>2, <2>3, <2>4 DEF TypeOK
<1>9. RequestKept'
  BY <1>1, <1>2, <1>3, <1>4, <1>5, <1>6, <1>7 DEF IInv, RequestKept, Held
<1>10. ResultKept'
  BY <1>1, <1>2, <1>4, <1>6, <1>7 DEF IInv, ResultKept, Held, Ends
<1>11. BelongingsGone'
  BY <1>1, <1>6, <1>7 DEF IInv, BelongingsGone
<1>12. AbortedOnlyOnRequest' /\ AbortTakesOnePoll'
  BY <1>2, <1>4, <1>7 DEF IInv, AbortedOnlyOnRequest, AbortTakesOnePoll
<1>13. JoinFaithful'
  BY <1>2, <1>7 DEF IInv, JoinFaithful, ResultKept, Selecting
<1>14. QED
  BY <1>8, <1>9, <1>10, <1>11, <1>12, <1>13 DEF IInv

\* What is sent arrived when the task was over, and stays until the handle is used.
LEMMA JoinKeeps ==
  ASSUME IInv, NEW t \in Tasks, Join(t)
  PROVE  IInv'
<1>1. /\ Held(t) /\ Ch!IsReady(resultCh[t])
      /\ joined' = [joined EXCEPT ![t] = IF resultCh[t].val = "none" THEN "failed" ELSE resultCh[t].val]
      /\ handle' = [handle EXCEPT ![t] = "joined"]
      /\ resultCh' = [resultCh EXCEPT ![t] = Ch!DropReceiver(resultCh[t])]
      /\ abortCh' = [abortCh EXCEPT ![t] = Ch!DropSender(abortCh[t])]
      /\ UNCHANGED <<pc, queued, result, watching, asked, polls>>
  BY DEF Join
<1>2. /\ abortCh \in [Tasks -> Channel] /\ resultCh \in [Tasks -> Channel]
      /\ abortCh[t] \in Channel /\ resultCh[t] \in Channel
  BY DEF IInv, TypeOK
<1>3. /\ Ch!DropSender(abortCh[t]) \in Channel
      /\ Ch!DropSender(abortCh[t]).rx = abortCh[t].rx
      /\ Ch!DropSender(abortCh[t]).val = abortCh[t].val
      /\ Ch!DropReceiver(resultCh[t]) \in Channel
      /\ Ch!DropReceiver(resultCh[t]).tx = resultCh[t].tx
      /\ Ch!DropReceiver(resultCh[t]).rx = FALSE
  BY <1>2, OtherCalls
<1>4. /\ abortCh' \in [Tasks -> Channel] /\ resultCh' \in [Tasks -> Channel]
      /\ abortCh'[t].rx = abortCh[t].rx /\ abortCh'[t].val = abortCh[t].val
      /\ resultCh'[t].tx = resultCh[t].tx /\ resultCh'[t].rx = FALSE
      /\ \A u \in Tasks \ {t} : abortCh'[u] = abortCh[u] /\ resultCh'[u] = resultCh[u]
  BY <1>1, <1>2, <1>3
<1>5. /\ handle' \in [Tasks -> {"none", "plain", "guard", "released", "detached", "joined"}]
      /\ ~Held(t)' /\ handle'[t] = "joined"
      /\ \A u \in Tasks \ {t} : handle'[u] = handle[u] /\ (Held(u)' <=> Held(u))
  BY <1>1 DEF IInv, TypeOK, Held
\* The sender is gone, and it goes with a result only.
<1>6. pc[t] = "over" /\ resultCh[t].val = result[t] /\ result[t] # "none"
  <2>1. pc[t] # "none" /\ pc[t] \in {"none", "idle", "polling", "checking", "sending", "over"}
    BY <1>1 DEF IInv, TypeOK, ResultKept, Held
  <2>2. pc[t] = "over"
    BY <1>1, <2>1 DEF IInv, TypeOK, ResultKept, Ch!IsReady
  <2>3. QED
    BY <1>1, <2>2 DEF IInv, ResultKept, Selecting
<1>7. /\ joined' \in [Tasks -> Ends \cup {"none", "aborted", "failed"}]
      /\ joined'[t] = result[t]
      /\ \A u \in Tasks \ {t} : joined'[u] = joined[u]
  BY <1>1, <1>6 DEF IInv, TypeOK
<1>8. TypeOK'
  <2>1. \A u \in Tasks : /\ abortCh'[u].rx <=> pc'[u] \in {"idle", "polling", "checking"}
                         /\ resultCh'[u].tx <=> pc'[u] \in {"idle", "polling", "checking", "sending"}
                         /\ resultCh'[u].rx <=> Held(u)'
    BY <1>1, <1>4, <1>5 DEF IInv, TypeOK
  <2>2. QED
    BY <1>1, <1>4, <1>5, <1>7, <2>1 DEF IInv, TypeOK
<1>9. RequestKept'
  BY <1>1, <1>4, <1>5, <1>6 DEF IInv, RequestKept, Selecting
<1>10. (ResultKept /\ BelongingsGone)'
  BY <1>1, <1>4, <1>5, <1>6, <1>7 DEF IInv, ResultKept, BelongingsGone, Selecting
<1>11. (AbortedOnlyOnRequest /\ JoinFaithful /\ AbortTakesOnePoll)'
  BY <1>1, <1>7 DEF IInv, AbortedOnlyOnRequest, JoinFaithful, AbortTakesOnePoll
<1>12. QED
  BY <1>8, <1>9, <1>10, <1>11 DEF IInv

LEMMA AwaitJoinKeeps ==
  ASSUME IInv, NEW t \in Tasks, AwaitJoin(t)
  PROVE  IInv'
<1>1. /\ resultCh' = [resultCh EXCEPT ![t] = Ch!Registered(resultCh[t])]
      /\ UNCHANGED <<pc, queued, result, watching, abortCh, handle, joined, asked, polls>>
  BY DEF AwaitJoin
<1>2. resultCh \in [Tasks -> Channel] /\ resultCh[t] \in Channel
  BY DEF IInv, TypeOK
<1>3. /\ resultCh' \in [Tasks -> Channel]
      /\ \A u \in Tasks : /\ resultCh'[u].tx = resultCh[u].tx
                          /\ resultCh'[u].rx = resultCh[u].rx
                          /\ resultCh'[u].val = resultCh[u].val
  BY <1>1, <1>2, OtherCalls
<1>4. TypeOK'
  BY <1>1, <1>3 DEF IInv, TypeOK, Held
<1>5. RequestKept' /\ AbortedOnlyOnRequest' /\ JoinFaithful' /\ AbortTakesOnePoll' /\ BelongingsGone'
  BY <1>1 DEF IInv, RequestKept, AbortedOnlyOnRequest, JoinFaithful, AbortTakesOnePoll,
              BelongingsGone, Held, Selecting
<1>6. ResultKept'
  BY <1>1, <1>3 DEF IInv, ResultKept, Held, Selecting
<1>7. QED
  BY <1>4, <1>5, <1>6 DEF IInv

-----------------------------------------------------------------------------
(* The polls of a task                                                       *)

\* A request that found the task idle is there for this poll, which is the first
\* since then: an idle task was not polled since it was asked.
LEMMA StartPollKeeps ==
  ASSUME IInv, NEW t \in Tasks, StartPoll(t)
  PROVE  IInv'
<1>1. /\ pc[t] = "idle" /\ pc' = [pc EXCEPT ![t] = "polling"]
      /\ queued' = queued \ {t}
      /\ polls' = [polls EXCEPT ![t] = IF t \in asked /\ polls[t] < 2 THEN polls[t] + 1 ELSE polls[t]]
      /\ UNCHANGED <<result, watching, abortCh, resultCh, handle, joined, asked>>
  BY DEF StartPoll
<1>2. /\ pc' \in [Tasks -> {"none", "idle", "polling", "checking", "sending", "over"}]
      /\ pc'[t] = "polling"
      /\ \A u \in Tasks \ {t} : pc'[u] = pc[u]
  BY <1>1 DEF IInv, TypeOK
<1>3. /\ polls' \in [Tasks -> 0..2] /\ polls'[t] <= 1 /\ (polls'[t] # 0 => t \in asked)
      /\ \A u \in Tasks \ {t} : polls'[u] = polls[u]
  <2>1. polls[t] = 0
    BY <1>1 DEF IInv, RequestKept
  <2>2. polls'[t] \in {0, 1} /\ (polls'[t] # 0 => t \in asked)
    BY <1>1, <2>1 DEF IInv, TypeOK
  <2>3. QED
    BY <1>1, <2>1, <2>2 DEF IInv, TypeOK
<1>4. TypeOK'
  <2>1. \A u \in Tasks : /\ abortCh'[u].rx <=> pc'[u] \in {"idle", "polling", "checking"}
                         /\ resultCh'[u].tx <=> pc'[u] \in {"idle", "polling", "checking", "sending"}
                         /\ resultCh'[u].rx <=> Held(u)'
    BY <1>1, <1>2 DEF IInv, TypeOK, Held
  <2>2. QED
    BY <1>1, <1>2, <1>3, <2>1 DEF IInv, TypeOK
<1>5. RequestKept'
  BY <1>1, <1>2, <1>3 DEF IInv, RequestKept, Selecting, Held
<1>6. (ResultKept /\ BelongingsGone)'
  BY <1>1, <1>2 DEF IInv, ResultKept, BelongingsGone, Selecting, Held
<1>7. (AbortedOnlyOnRequest /\ JoinFaithful)'
  BY <1>1 DEF IInv, AbortedOnlyOnRequest, JoinFaithful
<1>8. AbortTakesOnePoll'
  BY <1>3 DEF IInv, AbortTakesOnePoll
<1>9. QED
  BY <1>4, <1>5, <1>6, <1>7, <1>8 DEF IInv

LEMMA FuturePendsKeeps ==
  ASSUME IInv, NEW t \in Tasks, FuturePends(t)
  PROVE  IInv'
<1>1. /\ pc[t] = "polling" /\ pc' = [pc EXCEPT ![t] = "checking"]
      /\ UNCHANGED <<queued, result, watching, abortCh, resultCh, handle, joined, asked, polls>>
  BY DEF FuturePends
<1>2. /\ pc' \in [Tasks -> {"none", "idle", "polling", "checking", "sending", "over"}]
      /\ pc'[t] = "checking"
      /\ \A u \in Tasks \ {t} : pc'[u] = pc[u]
  BY <1>1 DEF IInv, TypeOK
<1>3. TypeOK'
  <2>1. \A u \in Tasks : /\ abortCh'[u].rx <=> pc'[u] \in {"idle", "polling", "checking"}
                         /\ resultCh'[u].tx <=> pc'[u] \in {"idle", "polling", "checking", "sending"}
                         /\ resultCh'[u].rx <=> Held(u)'
    BY <1>1, <1>2 DEF IInv, TypeOK, Held
  <2>2. QED
    BY <1>1, <1>2, <2>1 DEF IInv, TypeOK
<1>4. RequestKept'
  BY <1>1, <1>2 DEF IInv, RequestKept, Selecting, Held
<1>5. (ResultKept /\ BelongingsGone)'
  BY <1>1, <1>2 DEF IInv, ResultKept, BelongingsGone, Selecting, Held
<1>6. (AbortedOnlyOnRequest /\ JoinFaithful /\ AbortTakesOnePoll)'
  BY <1>1 DEF IInv, AbortedOnlyOnRequest, JoinFaithful, AbortTakesOnePoll
<1>7. QED
  BY <1>3, <1>4, <1>5, <1>6 DEF IInv

\* A receiver that is ready without a request has lost its sender, so its handle is
\* gone and nobody can ask any more.
LEMMA StopWatchingKeeps ==
  ASSUME IInv, NEW t \in Tasks, StopWatching(t)
  PROVE  IInv'
<1>1. /\ pc[t] = "checking" /\ Ch!IsReady(abortCh[t]) /\ abortCh[t].val # "abort"
      /\ watching' = [watching EXCEPT ![t] = FALSE]
      /\ pc' = [pc EXCEPT ![t] = "idle"]
      /\ UNCHANGED <<queued, result, abortCh, resultCh, handle, joined, asked, polls>>
  BY DEF StopWatching, IsAbort
<1>2. /\ pc' \in [Tasks -> {"none", "idle", "polling", "checking", "sending", "over"}]
      /\ pc'[t] = "idle" /\ Selecting(t)
      /\ \A u \in Tasks \ {t} : pc'[u] = pc[u]
  BY <1>1 DEF IInv, TypeOK, Selecting
<1>3. /\ watching' \in [Tasks -> BOOLEAN]
      /\ \A u \in Tasks \ {t} : watching'[u] = watching[u]
  BY <1>1 DEF IInv, TypeOK
<1>4. t \notin asked /\ ~Held(t) /\ polls[t] = 0
  <2>1. t \notin asked /\ polls[t] = 0
    BY <1>1, <1>2 DEF IInv, RequestKept
  <2>2. ~(abortCh[t].tx /\ abortCh[t].val = "none")
    BY <1>1 DEF Ch!IsReady
  <2>3. QED
    BY <1>1, <1>2, <2>1, <2>2 DEF IInv, RequestKept
<1>5. TypeOK'
  <2>1. \A u \in Tasks : /\ abortCh'[u].rx <=> pc'[u] \in {"idle", "polling", "checking"}
                         /\ resultCh'[u].tx <=> pc'[u] \in {"idle", "polling", "checking", "sending"}
                         /\ resultCh'[u].rx <=> Held(u)'
    BY <1>1, <1>2 DEF IInv, TypeOK, Held
  <2>2. QED
    BY <1>1, <1>2, <1>3, <2>1 DEF IInv, TypeOK
<1>6. RequestKept'
  BY <1>1, <1>2, <1>3, <1>4 DEF IInv, RequestKept, Selecting, Held
<1>7. (ResultKept /\ BelongingsGone)'
  BY <1>1, <1>2 DEF IInv, ResultKept, BelongingsGone, Selecting, Held
<1>8. (AbortedOnlyOnRequest /\ JoinFaithful /\ AbortTakesOnePoll)'
  BY <1>1 DEF IInv, AbortedOnlyOnRequest, JoinFaithful, AbortTakesOnePoll
<1>9. QED
  BY <1>5, <1>6, <1>7, <1>8 DEF IInv

\* abort_rx is pending: no request came yet.
LEMMA SuspendKeeps ==
  ASSUME IInv, NEW t \in Tasks, Suspend(t)
  PROVE  IInv'
<1>1. /\ pc[t] = "checking" /\ (watching[t] => ~Ch!IsReady(abortCh[t]))
      /\ abortCh' = IF watching[t] THEN [abortCh EXCEPT ![t] = Ch!Registered(abortCh[t])] ELSE abortCh
      /\ pc' = [pc EXCEPT ![t] = "idle"]
      /\ UNCHANGED <<queued, result, watching, resultCh, handle, joined, asked, polls>>
  BY DEF Suspend
<1>2. /\ pc' \in [Tasks -> {"none", "idle", "polling", "checking", "sending", "over"}]
      /\ pc'[t] = "idle" /\ Selecting(t)
      /\ \A u \in Tasks \ {t} : pc'[u] = pc[u]
  BY <1>1 DEF IInv, TypeOK, Selecting
<1>3. /\ abortCh' \in [Tasks -> Channel]
      /\ \A u \in Tasks : /\ abortCh'[u].tx = abortCh[u].tx
                          /\ abortCh'[u].rx = abortCh[u].rx
                          /\ abortCh'[u].val = abortCh[u].val
  <2>1. abortCh \in [Tasks -> Channel] /\ abortCh[t] \in Channel
    BY DEF IInv, TypeOK
  <2>2. QED
    BY <1>1, <2>1, OtherCalls
<1>4. t \notin asked /\ polls[t] = 0
  BY <1>1, <1>2 DEF IInv, RequestKept, Ch!IsReady
<1>5. TypeOK'
  <2>1. \A u \in Tasks : /\ abortCh'[u].rx <=> pc'[u] \in {"idle", "polling", "checking"}
                         /\ resultCh'[u].tx <=> pc'[u] \in {"idle", "polling", "checking", "sending"}
                         /\ resultCh'[u].rx <=> Held(u)'
    BY <1>1, <1>2, <1>3 DEF IInv, TypeOK, Held
  <2>2. QED
    BY <1>1, <1>2, <1>3, <2>1 DEF IInv, TypeOK
<1>6. RequestKept'
  BY <1>1, <1>2, <1>3, <1>4 DEF IInv, RequestKept, Selecting, Held
<1>7. (ResultKept /\ BelongingsGone)'
  BY <1>1, <1>2 DEF IInv, ResultKept, BelongingsGone, Selecting, Held
<1>8. (AbortedOnlyOnRequest /\ JoinFaithful /\ AbortTakesOnePoll)'
  BY <1>1 DEF IInv, AbortedOnlyOnRequest, JoinFaithful, AbortTakesOnePoll
<1>9. QED
  BY <1>5, <1>6, <1>7, <1>8 DEF IInv

\* The result reaches the handle if there is one: the sender was kept for it.
LEMMA SendResultKeeps ==
  ASSUME IInv, NEW t \in Tasks, SendResult(t)
  PROVE  IInv'
<1>1. /\ pc[t] = "sending" /\ pc' = [pc EXCEPT ![t] = "over"]
      /\ resultCh' = [resultCh EXCEPT ![t] = Ch!Send(resultCh[t], result[t])]
      /\ UNCHANGED <<result, watching, abortCh, handle, joined, asked, polls>>
  BY DEF SendResult, Sent
<1>2. queued' \subseteq Tasks
  <2>1. Owner[t] \in Tasks \cup {Root}
    BY OwnerAssumption
  <2>2. QED
    BY <2>1 DEF SendResult, IInv, TypeOK
<1>3. /\ pc' \in [Tasks -> {"none", "idle", "polling", "checking", "sending", "over"}]
      /\ pc'[t] = "over" /\ ~Selecting(t) /\ ~Selecting(t)'
      /\ \A u \in Tasks \ {t} : pc'[u] = pc[u]
  BY <1>1 DEF IInv, TypeOK, Selecting
<1>4. /\ resultCh' \in [Tasks -> Channel]
      /\ resultCh'[t].tx = FALSE /\ resultCh'[t].rx = resultCh[t].rx
      /\ resultCh'[t].val = IF resultCh[t].rx THEN result[t] ELSE "none"
      /\ \A u \in Tasks \ {t} : resultCh'[u] = resultCh[u]
  <2>1. resultCh \in [Tasks -> Channel] /\ resultCh[t] \in Channel /\ result[t] \in Values
    BY DEF IInv, TypeOK, Values
  <2>2. QED
    BY <1>1, <2>1, SendCall
<1>5. TypeOK'
  <2>1. \A u \in Tasks : /\ abortCh'[u].rx <=> pc'[u] \in {"idle", "polling", "checking"}
                         /\ resultCh'[u].tx <=> pc'[u] \in {"idle", "polling", "checking", "sending"}
                         /\ resultCh'[u].rx <=> Held(u)'
    BY <1>1, <1>3, <1>4 DEF IInv, TypeOK, Held
  <2>2. QED
    BY <1>1, <1>2, <1>3, <1>4, <2>1 DEF IInv, TypeOK
<1>6. RequestKept'
  BY <1>1, <1>3 DEF IInv, RequestKept, Selecting, Held
<1>7. ResultKept'
  BY <1>1, <1>3, <1>4 DEF IInv, TypeOK, ResultKept, Selecting, Held
<1>8. BelongingsGone'
  BY <1>1, <1>3 DEF IInv, BelongingsGone, Held
<1>9. (AbortedOnlyOnRequest /\ JoinFaithful /\ AbortTakesOnePoll)'
  BY <1>1 DEF IInv, AbortedOnlyOnRequest, JoinFaithful, AbortTakesOnePoll
<1>10. QED
  BY <1>5, <1>6, <1>7, <1>8, <1>9 DEF IInv

LEMMA EventKeeps ==
  ASSUME IInv, NEW t \in Tasks, Event(t)
  PROVE  IInv'
<1>1. /\ queued' = queued \cup {t}
      /\ UNCHANGED <<pc, result, watching, abortCh, resultCh, handle, joined, asked, polls>>
  BY DEF Event
<1>2. QED
  BY <1>1 DEF IInv, TypeOK, RequestKept, ResultKept, BelongingsGone, AbortedOnlyOnRequest,
              JoinFaithful, AbortTakesOnePoll, Selecting, Held

LEMMA StepIInv == IInv /\ [Next]_vars => IInv'
<1> SUFFICES ASSUME IInv, [Next]_vars PROVE IInv'
  OBVIOUS
<1>1. CASE UNCHANGED vars
  BY <1>1 DEF vars, IInv, TypeOK, RequestKept, ResultKept, BelongingsGone, AbortedOnlyOnRequest,
              JoinFaithful, AbortTakesOnePoll, Selecting, Held
<1>2. ASSUME NEW t \in Tasks, HandleStep(t) PROVE IInv'
  BY <1>2, SpawnKeeps, GuardKeeps, AbortKeeps, DropHandleKeeps, JoinKeeps, AwaitJoinKeeps
     DEF HandleStep
<1>3. ASSUME NEW t \in Tasks, StartPoll(t) PROVE IInv'
  BY <1>3, StartPollKeeps
<1>4. ASSUME NEW t \in Tasks, NEW end \in Ends, FutureEnds(t, end) PROVE IInv'
  BY <1>4, EndSelectKeeps DEF FutureEnds, Ends
\* The request that is seen was made, so "aborted" was asked for.
<1>5. ASSUME NEW t \in Tasks, SeeAbort(t) PROVE IInv'
  <2>1. t \in asked
    BY <1>5 DEF SeeAbort, IsAbort, IInv, RequestKept
  <2>2. QED
    BY <1>5, <2>1, EndSelectKeeps DEF SeeAbort
<1>6. ASSUME NEW t \in Tasks, PollStep(t) PROVE IInv'
  BY <1>4, <1>5, <1>6, FuturePendsKeeps, StopWatchingKeeps, SuspendKeeps, SendResultKeeps
     DEF PollStep
<1>7. ASSUME NEW t \in Tasks, Event(t) PROVE IInv'
  BY <1>7, EventKeeps
<1>8. QED
  BY <1>1, <1>2, <1>3, <1>6, <1>7 DEF Next

THEOREM Invariance == Spec => []IInv
BY InitIInv, StepIInv, PTL DEF Spec

-----------------------------------------------------------------------------
(* What the invariant says of every run                                      *)

\* Channels, handles and tasks keep their types, and the halves of the channels of a
\* task live as long as its select and its handle (runtime.rs:63-76).
THEOREM TypesHold == Spec => []TypeOK
<1>1. IInv => TypeOK
  BY DEF IInv
<1>2. QED
  BY <1>1, Invariance, PTL

\* No task ends as aborted unless somebody called abort() or dropped an AbortOnDrop.
THEOREM AbortNeedsRequest == Spec => []AbortedOnlyOnRequest
<1>1. IInv => AbortedOnlyOnRequest
  BY DEF IInv
<1>2. QED
  BY <1>1, Invariance, PTL

\* Awaiting a JoinHandle tells how the task ended, however the drops of other
\* handles, the aborts and the polls interleave.
THEOREM JoinTellsTheEnd == Spec => []JoinFaithful
<1>1. IInv => JoinFaithful
  BY DEF IInv
<1>2. QED
  BY <1>1, Invariance, PTL

\* Whoever joins a task finds that it holds no handle of another task any more.
THEOREM FutureGoneAtJoin == Spec => []JoinedAfterDrop
<1>1. IInv => JoinedAfterDrop
  <2> SUFFICES ASSUME IInv, NEW t \in Tasks, NEW c \in Tasks, joined[t] # "none", Owner[c] = t
               PROVE  ~Held(c)
    BY DEF JoinedAfterDrop
  <2>1. result[t] # "none"
    BY DEF IInv, ResultKept, Selecting
  <2>2. QED
    BY <2>1 DEF IInv, BelongingsGone
<1>2. QED
  BY <1>1, Invariance, PTL

\* A task that was asked to abort is polled at most once more.
THEOREM OneMorePoll == Spec => []AbortTakesOnePoll
<1>1. IInv => AbortTakesOnePoll
  BY DEF IInv
<1>2. QED
  BY <1>1, Invariance, PTL

-----------------------------------------------------------------------------
(* No request to abort is slept on.                                          *)

\* A suspended task whose handle is still held can be reached: it is in the queue, or
\* its waker is in the channel.
LEMMA HeldIsReachable ==
  ASSUME IInv, WakeInv, NEW t \in Tasks, Held(t), pc[t] = "idle"
  PROVE  t \in queued \/ abortCh[t].waker
BY DEF IInv, RequestKept, WakeInv, Selecting

LEMMA HandleWakes ==
  ASSUME IInv, WakeInv, NEW t \in Tasks, HandleStep(t)
  PROVE  WakeInv'
<1>1. abortCh \in [Tasks -> Channel] /\ watching \in [Tasks -> BOOLEAN]
  BY DEF IInv, TypeOK
<1>2. CASE Spawn(t)
  BY <1>2 DEF Spawn, WakeInv, IInv, TypeOK
<1>3. CASE Guard(t) \/ IntoInner(t) \/ AwaitJoin(t)
  BY <1>3 DEF Guard, IntoInner, AwaitJoin, WakeInv
<1>4. CASE Abort(t)
  <2>1. /\ pc[t] = "idle" => t \in queued'
        /\ \A u \in Tasks : u # t => abortCh'[u] = abortCh[u]
    BY <1>1, <1>4, HeldIsReachable DEF Abort
  <2>2. QED
    BY <1>4, <2>1 DEF Abort, WakeInv
<1>5. CASE DropHandle(t)
  <2>1. /\ pc[t] = "idle" => t \in queued'
        /\ \A u \in Tasks : u # t => abortCh'[u] = abortCh[u] /\ (u \in asked' => u \in asked)
    BY <1>1, <1>5, HeldIsReachable DEF DropHandle, DropHandles
  <2>2. QED
    BY <1>5, <2>1 DEF DropHandle, DropHandles, WakeInv
\* Only the handle of a task that is over has a result.
<1>6. CASE Join(t)
  <2>1. pc[t] # "idle"
    BY <1>6 DEF Join, IInv, TypeOK, ResultKept, Ch!IsReady
  <2>2. QED
    BY <1>1, <1>6, <2>1 DEF Join, WakeInv
<1>7. QED
  BY <1>2, <1>3, <1>4, <1>5, <1>6 DEF HandleStep

\* The handles that end with a future reach their tasks too.
LEMMA EndSelectWakes ==
  ASSUME IInv, WakeInv, NEW t \in Tasks, NEW res, EndSelect(t, res)
  PROVE  WakeInv'
<1>1. /\ pc'[t] # "idle" /\ \A u \in Tasks : u # t => pc'[u] = pc[u]
      /\ watching' = watching
      /\ DropHandles(Belongings(t), WithoutAbortReceiver(t))
  BY DEF EndSelect, IInv, TypeOK
<1>2. \A u \in Belongings(t) : pc[u] = "idle" => u \in queued'
  BY <1>1, HeldIsReachable DEF Belongings, DropHandles
<1>3. \A u \in Tasks \ Belongings(t) : /\ u # t => abortCh'[u] = abortCh[u]
                                       /\ u \in asked' => u \in asked
  BY <1>1 DEF DropHandles, WithoutAbortReceiver, IInv, TypeOK
<1>4. queued \subseteq queued'
  BY <1>1 DEF DropHandles
<1>5. QED
  BY <1>1, <1>2, <1>3, <1>4 DEF WakeInv

LEMMA PollWakes ==
  ASSUME IInv, WakeInv, NEW t \in Tasks, PollStep(t)
  PROVE  WakeInv'
<1>1. \A end \in Ends : FutureEnds(t, end) => WakeInv'
  BY EndSelectWakes DEF FutureEnds
<1>2. CASE SeeAbort(t)
  BY <1>2, EndSelectWakes DEF SeeAbort
<1>3. CASE FuturePends(t)
  BY <1>3 DEF FuturePends, WakeInv, IInv, TypeOK
<1>4. CASE StopWatching(t)
  BY <1>4 DEF StopWatching, WakeInv, IInv, TypeOK
\* A pending abort_rx keeps the waker, and no request came yet.
<1>5. CASE Suspend(t)
  <2>1. abortCh \in [Tasks -> Channel] /\ abortCh[t] \in Channel
    BY DEF IInv, TypeOK
  <2>2. watching[t] => t \notin asked
    BY <1>5 DEF Suspend, Ch!IsReady, IInv, RequestKept, Selecting
  <2>3. /\ watching[t] => abortCh'[t].waker
        /\ \A u \in Tasks : u # t => abortCh'[u] = abortCh[u]
    BY <1>5, <2>1 DEF Suspend, Ch!Registered, Channel
  <2>4. QED
    BY <1>5, <2>2, <2>3 DEF Suspend, WakeInv, IInv, TypeOK
<1>6. CASE SendResult(t)
  BY <1>6 DEF SendResult, WakeInv, IInv, TypeOK
<1>7. QED
  BY <1>1, <1>2, <1>3, <1>4, <1>5, <1>6 DEF PollStep

LEMMA StepWakeInv == IInv /\ WakeInv /\ [Next]_vars => WakeInv'
<1> SUFFICES ASSUME IInv, WakeInv, [Next]_vars PROVE WakeInv'
  OBVIOUS
<1>1. CASE UNCHANGED vars
  BY <1>1 DEF vars, WakeInv
<1>2. ASSUME NEW t \in Tasks, StartPoll(t) PROVE WakeInv'
  BY <1>2 DEF StartPoll, WakeInv, IInv, TypeOK
<1>3. ASSUME NEW t \in Tasks, Event(t) PROVE WakeInv'
  BY <1>3 DEF Event, WakeInv
<1>4. QED
  BY <1>1, <1>2, <1>3, HandleWakes, PollWakes DEF Next

\* A suspended task that was asked to abort is in the executor's queue, whether abort()
\* or the drop of an AbortOnDrop asked, by itself or with a whole tree of futures, and
\* wherever between the two polls of the select that fell (runtime.rs:63-76,
\* ext.rs:136-188): the safety half of StructuredCancel.
THEOREM NoWakeupLost == Spec => []NobodySleepsOn
<1>1. Init => WakeInv
  BY DEF Init, WakeInv
<1>2. IInv /\ WakeInv => NobodySleepsOn
  BY DEF IInv, RequestKept, Selecting, WakeInv, NobodySleepsOn
<1>3. QED
  BY <1>1, <1>2, StepWakeInv, Invariance, PTL DEF Spec
=============================================================================
