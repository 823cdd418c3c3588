------------------------------ MODULE Oneshot ------------------------------
(***************************************************************************)
(* tokio::sync::oneshot, as far as wokio uses it: a channel for one value. *)
(* A channel is a record; the operators are its states after the calls.    *)
(***************************************************************************)

\* tx, rx: is that half alive?  val: the value in the channel, or "none".
\* waker: has the receiver been polled and found pending since the last wake-up?
Fresh == [tx |-> TRUE, rx |-> TRUE, val |-> "none", waker |-> FALSE]

\* A channel that was never created, or whose both halves are gone.
Closed == [tx |-> FALSE, rx |-> FALSE, val |-> "none", waker |-> FALSE]

\* Sender::send consumes the sender; without a receiver the value is handed back.
Send(ch, v) == [ch EXCEPT !.tx = FALSE, !.val = IF ch.rx THEN v ELSE "none", !.waker = FALSE]

DropSender(ch) == [ch EXCEPT !.tx = FALSE, !.waker = FALSE]

\* Dropping the receiver drops a value that was sent and not received.
DropReceiver(ch) == [ch EXCEPT !.rx = FALSE, !.val = "none", !.waker = FALSE]

\* Polling the receiver yields Ok(val) or, when the sender is gone, Err.
IsReady(ch) == ch.val # "none" \/ ~ch.tx

\* A pending poll stores the waker.
Registered(ch) == [ch EXCEPT !.waker = TRUE]
=============================================================================
