---------------------------- MODULE ThreadBound ----------------------------
(***************************************************************************)
(* ThreadBound (src/src/thread_bound.rs): a wrapper that may be moved to   *)
(* and shared with every thread, around a value that must stay on one.     *)
(* What Rust itself sees to is taken for granted: one frame owns a wrapper,*)
(* a moved wrapper is not used, and a pinned one is not moved out of.  A   *)
(* panic unwinds some frames of its thread, which drop what they own one   *)
(* by one while the other threads go on.                                   *)
(***************************************************************************)
EXTENDS Sequences

CONSTANTS
  Threads,
  Bounds,     \* the wrappers
  NeedsDrop,  \* those whose value needs drop
  NoThread    \* not a thread

ASSUME BoundsAssumption == NeedsDrop \subseteq Bounds /\ NoThread \notin Threads

VARIABLES
  threadId,   \* thread_id of each wrapper, NoThread before it is created
  taken,      \* taken
  life,       \* its storage: "none", "live", "leaked" or "released"
  holder,     \* the thread with the frame that owns it
  pinned,     \* the wrappers that were pinned
  fate,       \* fate[b]: how the value ended, "moved" out or "destroyed"
  touched,    \* touched[b]: the threads that used the value, or destroyed it
  unwinding,  \* unwinding[t]: what the frames that t unwinds still own
  ended,      \* the threads that have ended
  aborted     \* has the process been aborted?

fields == <<threadId, taken>>
owners == <<life, holder, pinned>>
value == <<fate, touched>>
vars == <<fields, owners, value, unwinding, ended, aborted>>

Init ==
  /\ threadId = [b \in Bounds |-> NoThread] /\ taken = [b \in Bounds |-> FALSE]
  /\ life = [b \in Bounds |-> "none"] /\ holder = threadId /\ pinned = {}
  /\ fate = [b \in Bounds |-> <<>>] /\ touched = [b \in Bounds |-> {}]
  /\ unwinding = [t \in Threads |-> {}] /\ ended = {} /\ aborted = FALSE

Owned(t) == {b \in Bounds : life[b] = "live" /\ holder[b] = t}

Running(t) == ~aborted /\ t \notin ended /\ unwinding[t] = {}

-----------------------------------------------------------------------------
(* Access.  Anyone may hold a reference, on whichever thread.                *)

IsUsable(t, b) == threadId[b] = t

FirstUsable(t, a, b) == IsUsable(t, a)

\* The two wrappers of a comparison are checked one after the other.
BothUsable(t, a, b) == IsUsable(t, a) /\ IsUsable(t, b)

UsedBy(t, S) == [b \in Bounds |-> IF b \in S THEN touched[b] \cup {t} ELSE touched[b]]

\* A panic unwinds some of the frames of t, the innermost with all of S.
Panic(t, S) ==
  /\ \E frames \in SUBSET Owned(t) : S \subseteq frames /\ unwinding' = [unwinding EXCEPT ![t] = frames]
  /\ UNCHANGED <<fields, owners, value, ended, aborted>>

\* check() and then the use of the values in S
Use(t, S, usable) ==
  /\ Running(t)
  /\ \A b \in S : life[b] = "live"
  /\ \/ /\ usable
        /\ touched' = UsedBy(t, S)
        /\ UNCHANGED <<fields, owners, fate, unwinding, ended, aborted>>
     \/ ~usable /\ Panic(t, {})

\* deref() and the other calls on one wrapper
Access(t, b) == Use(t, {b}, IsUsable(t, b))

\* eq(), partial_cmp() and cmp() of two wrappers
Compare(t, a, b) == Use(t, {a, b}, BothUsable(t, a, b))

\* Debug shows the value on its own thread only and panics nowhere.
Debug(t, b) == Use(t, IF IsUsable(t, b) THEN {b} ELSE {}, TRUE)

Pin(b) ==
  /\ ~aborted
  /\ life[b] = "live"
  /\ pinned' = pinned \cup {b}
  /\ UNCHANGED <<fields, life, holder, value, unwinding, ended, aborted>>

\* Polls of a pinned future, sink or stream, which pin the value too
Poll(t, b) == b \in pinned /\ Access(t, b)

-----------------------------------------------------------------------------
(* The life of a wrapper.                                                    *)

Create(t, b, id, tk) ==
  /\ life[b] = "none"
  /\ life' = [life EXCEPT ![b] = "live"]
  /\ holder' = [holder EXCEPT ![b] = t]
  /\ threadId' = [threadId EXCEPT ![b] = id]
  /\ taken' = [taken EXCEPT ![b] = tk]
  /\ UNCHANGED <<pinned, fate, unwinding, ended, aborted>>

\* new(), thread_bound() and default()
New(t, b) == Running(t) /\ Create(t, b, t, FALSE) /\ UNCHANGED touched

Clone(t, b, c) ==
  /\ Running(t)
  /\ life[b] = "live"
  /\ \/ IsUsable(t, b) /\ Create(t, c, threadId[b], taken[b]) /\ touched' = UsedBy(t, {b})
     \/ ~IsUsable(t, b) /\ Panic(t, {})

\* The wrapper, or the pointer to it if it is pinned, is sent to another thread.
Send(b, to) ==
  /\ life[b] = "live"
  /\ Running(holder[b]) /\ Running(to)
  /\ holder' = [holder EXCEPT ![b] = to]
  /\ UNCHANGED <<fields, life, pinned, value, unwinding, ended, aborted>>

\* mem::forget
Forget(t, b) ==
  /\ Running(t)
  /\ b \in Owned(t)
  /\ life' = [life EXCEPT ![b] = "leaked"]
  /\ UNCHANGED <<fields, holder, pinned, value, unwinding, ended, aborted>>

Release(b) == life' = [life EXCEPT ![b] = "released"]

TakenUnrecorded(b) == taken

TakenNow(b) == [taken EXCEPT ![b] = TRUE]

\* Must the drop of b destroy its value?
MustDestroy(b, tk) == b \in NeedsDrop /\ ~tk

\* into_inner moves the value out; the rest of the wrapper is dropped at once.
\* On another thread it panics, and its frame owns the wrapper.
IntoInner(t, b) ==
  /\ Running(t)
  /\ b \in Owned(t) \ pinned
  /\ \/ /\ IsUsable(t, b)
        /\ taken' = TakenNow(b)
        /\ touched' = UsedBy(t, {b})
        /\ fate' = [fate EXCEPT ![b] = @ \o (IF MustDestroy(b, taken'[b]) THEN <<"moved", "destroyed">>
                                             ELSE <<"moved">>)]
        /\ Release(b)
        /\ UNCHANGED <<threadId, holder, pinned, unwinding, ended, aborted>>
     \/ ~IsUsable(t, b) /\ Panic(t, {b})

DropLikeAPanic(b) == Release(b) /\ UNCHANGED <<value, aborted>>

\* The value cannot be dropped here: the process aborts.
DropOnForeignThread(b) == aborted' = TRUE /\ UNCHANGED <<value, life>>

\* Drop, and the release of the storage
Drop(t, b) ==
  /\ \/ ~MustDestroy(b, taken[b]) /\ Release(b) /\ UNCHANGED <<value, aborted>>
     \/ /\ MustDestroy(b, taken[b])
        /\ IsUsable(t, b)
        /\ Release(b)
        /\ fate' = [fate EXCEPT ![b] = Append(@, "destroyed")]
        /\ touched' = UsedBy(t, {b})
        /\ UNCHANGED aborted
     \/ MustDestroy(b, taken[b]) /\ ~IsUsable(t, b) /\ DropOnForeignThread(b)
  /\ UNCHANGED <<fields, holder, pinned, ended>>

\* A frame of t ends, or t ends its part of a shared pointer as the last one.
DropOwned(t, b) == Running(t) /\ b \in Owned(t) /\ Drop(t, b) /\ UNCHANGED unwinding

\* Unwinding drops the next wrapper.
Unwind(t, b) ==
  /\ ~aborted
  /\ b \in unwinding[t]
  /\ Drop(t, b)
  /\ unwinding' = [unwinding EXCEPT ![t] = @ \ {b}]

\* A thread ends when its frames have; the id is not used again.
EndThread(t) ==
  /\ Running(t)
  /\ Owned(t) = {}
  /\ ended' = ended \cup {t}
  /\ UNCHANGED <<fields, owners, value, unwinding, aborted>>

-----------------------------------------------------------------------------

Reference(t, b) == Access(t, b) \/ Debug(t, b) \/ Poll(t, b)

Next ==
  \/ \E t \in Threads, b \in Bounds : \/ Reference(t, b) \/ New(t, b) \/ Send(b, t) \/ Forget(t, b)
                                      \/ IntoInner(t, b) \/ DropOwned(t, b) \/ Unwind(t, b)
  \/ \E t \in Threads, b, c \in Bounds : Compare(t, b, c) \/ Clone(t, b, c)
  \/ \E t \in Threads : EndThread(t)
  \/ \E b \in Bounds : Pin(b)

Spec == Init /\ [][Next]_vars

\* A thread that unwinds goes on unwinding.
FairSpec == Spec /\ \A t \in Threads : WF_vars(\E b \in Bounds : Unwind(t, b))

-----------------------------------------------------------------------------
(* Properties                                                                *)

\* Types; what a thread unwinds it owns, and a value that has not been created was
\* not used (thread_bound.rs:65-69).
TypeOK ==
  /\ threadId \in [Bounds -> Threads \cup {NoThread}] /\ taken \in [Bounds -> BOOLEAN]
  /\ life \in [Bounds -> {"none", "live", "leaked", "released"}]
  /\ holder \in [Bounds -> Threads \cup {NoThread}]
  /\ pinned \subseteq Bounds
  /\ fate \in [Bounds -> Seq({"moved", "destroyed"})]
  /\ touched \in [Bounds -> SUBSET Threads]
  /\ unwinding \in [Threads -> SUBSET Bounds] /\ ended \subseteq Threads /\ aborted \in BOOLEAN
  /\ \A b \in Bounds : life[b] = "none" <=> threadId[b] = NoThread
  /\ \A b \in Bounds : holder[b] = NoThread <=> life[b] = "none"
  /\ \A t \in Threads : unwinding[t] \subseteq Owned(t)

\* What makes the unsafe Send and Sync sound (thread_bound.rs:71-72): however the
\* wrapper is sent, shared, cloned, pinned or unwound, its value is used and
\* destroyed by the thread it belongs to and by no other.
OwnThreadOnly == \A b \in Bounds : touched[b] \subseteq {threadId[b]}

\* The value of a wrapper ends once, and its storage is not released before: it
\* was moved out or destroyed, or needs no drop.  For a pinned value this is the
\* drop guarantee of Pin (thread_bound.rs:50-54, :277-281): it is destroyed, or its
\* storage stays (leaked, or the process has been aborted).
StorageGuarantee ==
  \A b \in Bounds :
    /\ life[b] # "released" => fate[b] = <<>>
    /\ life[b] = "released" => \/ fate[b] = <<"destroyed">>
                               \/ fate[b] = <<"moved">> /\ b \notin pinned
                               \/ fate[b] = <<>> /\ b \notin NeedsDrop

\* The flag is only set as the wrapper goes away, so no clone inherits it, and with
\* it the invariants above are inductive.
TakenIsGone == \A b \in Bounds : taken[b] => life[b] = "released"

IInv == TypeOK /\ OwnThreadOnly /\ StorageGuarantee /\ TakenIsGone

\* "if the panicking frame owns the value, unwinding will immediately run the
\* destructor described below and thus abort the process" (thread_bound.rs:43-44):
\* a thread that unwinds over a foreign value that needs drop does not get past it.
ForeignUnwindAborts ==
  \A t \in Threads :
    (\E b \in unwinding[t] \cap NeedsDrop : ~IsUsable(t, b)) ~> aborted
=============================================================================
