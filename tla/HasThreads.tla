----------------------------- MODULE HasThreads -----------------------------
(***************************************************************************)
(* has_threads (src/src/ext.rs:20-59): whether a test thread could be      *)
(* spawned, asked once and cached in a tokio::sync::OnceCell.  The cell is *)
(* external: one caller holds its permit and initialises it, the others    *)
(* queue for the permit; if the initialiser is cancelled, the next one in  *)
(* the queue starts all over.                                              *)
(***************************************************************************)
EXTENDS Naturals, Sequences

CONSTANTS Callers,   \* the calls of has_threads(), on any thread
          NoCaller   \* not a caller

ASSUME CallersAssumption == NoCaller \notin Callers

VARIABLES
  cell,     \* AVAILABLE: "empty", "yes" or "no"
  permit,   \* who may initialise the cell, or NoCaller
  queue,    \* who waits for the permit, in order
  pc,       \* pc[c]: "none", "queued", "probing", "answered" or "cancelled"
  answer,   \* what has_threads() returned to c
  woken,    \* the suspended callers that were woken
  thread,   \* the test thread of c: "none", "refused", "running", "sent" or "failed"
  chan      \* the channel from the test thread of c

vars == <<cell, permit, queue, pc, answer, woken, thread, chan>>

Ch == INSTANCE Oneshot

Init ==
  /\ cell = "empty" /\ permit = NoCaller /\ queue = <<>>
  /\ pc = [c \in Callers |-> "none"]
  /\ answer = [c \in Callers |-> "none"]
  /\ woken = {}
  /\ thread = [c \in Callers |-> "none"]
  /\ chan = [c \in Callers |-> Ch!Closed]

Queued == {queue[i] : i \in 1..Len(queue)}

Finish(c, result) ==
  /\ pc' = [pc EXCEPT ![c] = "answered"]
  /\ answer' = [answer EXCEPT ![c] = result]

-----------------------------------------------------------------------------
(* The OnceCell.                                                             *)

\* The cell is set once and for all, which closes the queue and wakes it.
SetCell(c, result) ==
  /\ cell' = result
  /\ permit' = NoCaller
  /\ queue' = <<>>
  /\ woken' = (woken \cup Queued) \ {c}
  /\ Finish(c, result)

\* A permit that is given back goes to the first in the queue, who is woken.
PassPermit ==
  \/ queue = <<>> /\ permit' = NoCaller /\ UNCHANGED <<queue, woken>>
  \/ /\ queue # <<>>
     /\ permit' = Head(queue)
     /\ queue' = Tail(queue)
     /\ woken' = woken \cup {Head(queue)}

\* A caller that still waits is unlinked from the queue.
LeaveQueue(c) ==
  \/ c \notin Queued /\ UNCHANGED queue
  \/ \E i \in 1..Len(queue) :
       /\ queue[i] = c
       /\ queue' = SubSeq(queue, 1, i - 1) \o SubSeq(queue, i + 1, Len(queue))

-----------------------------------------------------------------------------
(* The initialiser.                                                          *)

\* The thread could not be spawned.
SpawnRefused(c) ==
  /\ thread' = [thread EXCEPT ![c] = "refused"]
  /\ SetCell(c, "no")
  /\ UNCHANGED chan

\* The thread was spawned; the receiver is polled next.
SpawnTest(c) ==
  /\ thread' = [thread EXCEPT ![c] = "running"]
  /\ chan' = [chan EXCEPT ![c] = Ch!Fresh]
  /\ pc' = [pc EXCEPT ![c] = "probing"]
  /\ permit' = c
  /\ woken' = woken \cup {c}
  /\ UNCHANGED <<cell, queue, answer>>

Probe(c) == SpawnRefused(c) \/ SpawnTest(c)

AlwaysYes(ch) == "yes"

\* A test thread that went without sending has failed.
Result(ch) == IF ch.val # "none" THEN "yes" ELSE "no"

\* The initialiser polls the receiver.
AwaitTest(c) ==
  /\ pc[c] = "probing"
  /\ c \in woken
  /\ \/ /\ Ch!IsReady(chan[c])
        /\ SetCell(c, Result(chan[c]))
        /\ chan' = [chan EXCEPT ![c] = Ch!DropReceiver(chan[c])]
        /\ UNCHANGED thread
     \/ /\ ~Ch!IsReady(chan[c])
        /\ chan' = [chan EXCEPT ![c] = Ch!Registered(chan[c])]
        /\ woken' = woken \ {c}
        /\ UNCHANGED <<cell, permit, queue, pc, answer, thread>>

-----------------------------------------------------------------------------
(* The callers.                                                              *)

\* The first poll of has_threads()
Call(c) ==
  /\ pc[c] = "none"
  /\ \/ /\ cell # "empty"
        /\ Finish(c, cell)
        /\ UNCHANGED <<cell, permit, queue, woken, thread, chan>>
     \/ /\ cell = "empty" /\ permit = NoCaller
        /\ Probe(c)
     \/ /\ cell = "empty" /\ permit # NoCaller
        /\ queue' = Append(queue, c)
        /\ pc' = [pc EXCEPT ![c] = "queued"]
        /\ UNCHANGED <<cell, permit, answer, woken, thread, chan>>

\* A queued caller is polled because the cell was set or the permit is its own.
Resume(c) ==
  /\ pc[c] = "queued"
  /\ c \in woken
  /\ \/ /\ cell # "empty"
        /\ Finish(c, cell)
        /\ woken' = woken \ {c}
        /\ UNCHANGED <<cell, permit, queue, thread, chan>>
     \/ permit = c /\ Probe(c)

\* The future of c is dropped while it is suspended: an initialiser and a caller
\* that was handed the permit and not polled yet give it back.
Cancel(c) ==
  /\ pc[c] \in {"queued", "probing"}
  /\ pc' = [pc EXCEPT ![c] = "cancelled"]
  /\ chan' = [chan EXCEPT ![c] = Ch!DropReceiver(chan[c])]
  /\ \/ permit = c /\ PassPermit
     \/ /\ permit # c
        /\ LeaveQueue(c)
        /\ UNCHANGED <<permit, woken>>
  /\ UNCHANGED <<cell, answer, thread>>

-----------------------------------------------------------------------------
(* The test threads.                                                         *)

EndTest(c, how, ch) ==
  /\ thread[c] = "running"
  /\ thread' = [thread EXCEPT ![c] = how]
  /\ chan' = [chan EXCEPT ![c] = ch]
  /\ woken' = IF chan[c].waker THEN woken \cup {c} ELSE woken
  /\ UNCHANGED <<cell, permit, queue, pc, answer>>

\* tx.send(()), to which nobody may listen any more
TestSends(c) == EndTest(c, "sent", Ch!Send(chan[c], "unit"))

SenderShared(ch) == ch

\* The closure of the thread owns the only sender.
SenderGone(ch) == Ch!DropSender(ch)

\* The thread dies before, and its closure with it.
TestFails(c) == EndTest(c, "failed", SenderGone(chan[c]))

TestThread(c) == TestSends(c) \/ TestFails(c)

-----------------------------------------------------------------------------

Next == \E c \in Callers : Call(c) \/ Resume(c) \/ AwaitTest(c) \/ Cancel(c) \/ TestThread(c)

Spec == Init /\ [][Next]_vars

\* Woken callers are polled, and a thread that was spawned runs.
FairSpec ==
  /\ Spec
  /\ \A c \in Callers : WF_vars(Resume(c)) /\ WF_vars(AwaitTest(c)) /\ WF_vars(TestThread(c))

-----------------------------------------------------------------------------
(* Properties                                                                *)

Channel == [tx : BOOLEAN, rx : BOOLEAN, waker : BOOLEAN, val : {"none", "unit"}]

\* Types; the permit is held as long as somebody probes or has been handed it, and
\* nobody queues for an unused one (tokio::sync::OnceCell, ext.rs:27-29).
TypeOK ==
  /\ cell \in {"empty", "yes", "no"} /\ permit \in Callers \cup {NoCaller}
  /\ queue \in Seq(Callers) /\ woken \subseteq Callers
  /\ pc \in [Callers -> {"none", "queued", "probing", "answered", "cancelled"}]
  /\ answer \in [Callers -> {"none", "yes", "no"}]
  /\ thread \in [Callers -> {"none", "refused", "running", "sent", "failed"}]
  /\ chan \in [Callers -> Channel]
  /\ \A c \in Callers : pc[c] = "probing" => permit = c
  /\ permit = NoCaller => queue = <<>>

\* All callers get the same answer, and it is the outcome of a test that was made:
\* yes only if a test thread ran, no only if one could not be spawned or failed,
\* whichever calls were cancelled in between (ext.rs:20-24).
AnswerHolds ==
  /\ \A c \in Callers : pc[c] = "answered" => cell # "empty" /\ answer[c] = cell
  /\ cell = "yes" => \E c \in Callers : thread[c] = "sent"
  /\ cell = "no" => \E c \in Callers : thread[c] \in {"refused", "failed"}

\* What makes AnswerHolds inductive: the channel of a test tells what became of its
\* thread, and the cell is empty as long as somebody has the permit.
TestOK(c) ==
  /\ thread[c] # "none" => pc[c] \in {"probing", "answered", "cancelled"}
  /\ pc[c] = "probing" => thread[c] \in {"running", "sent", "failed"}
  /\ chan[c].rx <=> pc[c] = "probing"
  /\ chan[c].tx <=> thread[c] = "running"
  /\ chan[c].val = "unit" => thread[c] = "sent"
  /\ pc[c] = "probing" /\ thread[c] = "sent" => chan[c].val = "unit"

TestsKnown ==
  /\ permit # NoCaller => cell = "empty"
  /\ \A c \in Callers : TestOK(c)

IInv == TypeOK /\ AnswerHolds /\ TestsKnown

\* What CallersAnswered rests on: whoever is suspended will be woken.  A queued caller
\* is in the queue of a permit that somebody holds who still acts, or has been woken
\* by the one that set the cell or gave it the permit; a probing one has been woken,
\* or has left its waker with a test thread that runs.
NobodyForgotten ==
  /\ permit # NoCaller => pc[permit] \in {"queued", "probing"}
  /\ \A c \in Callers :
       /\ pc[c] = "queued" => \/ c \in woken /\ (cell # "empty" \/ permit = c)
                              \/ c \in Queued /\ permit # NoCaller
       /\ pc[c] = "probing" => c \in woken \/ (chan[c].waker /\ thread[c] = "running")

\* What makes it inductive: the queue holds queued callers, each once.
QueueInOrder ==
  /\ \A i \in 1..Len(queue) : pc[queue[i]] = "queued" /\ queue[i] # permit
  /\ \A i, j \in 1..Len(queue) : queue[i] = queue[j] => i = j

WakeInv == NobodyForgotten /\ QueueInOrder

\* Every call is answered unless it is cancelled, also if the calls ahead of it are
\* cancelled while they probe, queue, or have just been handed the permit.
CallersAnswered ==
  \A c \in Callers : pc[c] \in {"queued", "probing"} ~> pc[c] \in {"answered", "cancelled"}
=============================================================================
