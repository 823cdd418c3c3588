------------------------- MODULE ThreadBoundProofs -------------------------
(***************************************************************************)
(* Theorems about ThreadBound, for any number of threads and wrappers.     *)
(***************************************************************************)
EXTENDS ThreadBound, TLAPS

\* The endings a value may come to, as sequences
LEMMA OneEnding ==
  /\ Append(<<>>, "destroyed") = <<"destroyed">>
  /\ <<>> \o <<"moved">> = <<"moved">>
  /\ {<<>>, <<"destroyed">>, <<"moved">>} \subseteq Seq({"moved", "destroyed"})
OBVIOUS

LEMMA InitIInv == Init => IInv
<1> SUFFICES ASSUME Init PROVE IInv
  OBVIOUS
<1>1. /\ threadId = [b \in Bounds |-> NoThread] /\ taken = [b \in Bounds |-> FALSE]
      /\ life = [b \in Bounds |-> "none"] /\ holder = [b \in Bounds |-> NoThread] /\ pinned = {}
      /\ fate = [b \in Bounds |-> <<>>] /\ touched = [b \in Bounds |-> {}]
      /\ unwinding = [t \in Threads |-> {}] /\ ended = {} /\ aborted = FALSE
  BY DEF Init
<1>2. fate \in [Bounds -> Seq({"moved", "destroyed"})]
  BY <1>1, OneEnding
<1>3. TypeOK
  BY <1>1, <1>2 DEF TypeOK
<1>4. OwnThreadOnly
  BY <1>1 DEF OwnThreadOnly
<1>5. StorageGuarantee
  BY <1>1 DEF StorageGuarantee
<1>6. TakenIsGone
  BY <1>1 DEF TakenIsGone
<1>7. QED
  BY <1>3, <1>4, <1>5, <1>6 DEF IInv

\* A panic only decides which frames are unwound.
LEMMA PanicKeeps ==
  ASSUME IInv, NEW t \in Threads, NEW S, Panic(t, S)
  PROVE  IInv'
BY DEF IInv, TypeOK, OwnThreadOnly, StorageGuarantee, TakenIsGone, Owned, Panic, fields, owners, value

\* Values that are usable are touched by their own thread.
LEMMA UseKeeps ==
  ASSUME IInv, NEW t \in Threads, NEW S, NEW usable, Use(t, S, usable),
         usable => \A b \in S : IsUsable(t, b)
  PROVE  IInv'
<1>1. CASE ~usable
  BY <1>1, PanicKeeps DEF Use
<1>2. CASE /\ usable
           /\ touched' = UsedBy(t, S)
           /\ UNCHANGED <<fields, owners, fate, unwinding, ended, aborted>>
  BY <1>2 DEF IInv, TypeOK, OwnThreadOnly, StorageGuarantee, TakenIsGone, Owned, UsedBy, IsUsable,
              fields, owners
<1>3. QED
  BY <1>1, <1>2 DEF Use

LEMMA ReferenceKeeps ==
  ASSUME IInv, NEW t \in Threads, NEW b \in Bounds, Reference(t, b)
  PROVE  IInv'
BY UseKeeps DEF Reference, Access, Debug, Poll

LEMMA CompareKeeps ==
  ASSUME IInv, NEW t \in Threads, NEW a \in Bounds, NEW b \in Bounds, Compare(t, a, b)
  PROVE  IInv'
BY UseKeeps DEF Compare, BothUsable

LEMMA NewKeeps ==
  ASSUME IInv, NEW t \in Threads, NEW b \in Bounds, New(t, b)
  PROVE  IInv'
BY BoundsAssumption DEF IInv, TypeOK, OwnThreadOnly, StorageGuarantee, TakenIsGone, Owned, New, Create

\* A clone belongs to the thread of the original, which is the one that clones.
LEMMA CloneKeeps ==
  ASSUME IInv, NEW t \in Threads, NEW b \in Bounds, NEW c \in Bounds, Clone(t, b, c)
  PROVE  IInv'
<1>1. CASE ~IsUsable(t, b)
  BY <1>1, PanicKeeps DEF Clone
<1>2. CASE IsUsable(t, b) /\ Create(t, c, threadId[b], taken[b]) /\ touched' = UsedBy(t, {b})
  BY <1>2, BoundsAssumption
     DEF IInv, TypeOK, OwnThreadOnly, StorageGuarantee, TakenIsGone, Owned, Clone, Create, UsedBy, IsUsable
<1>3. QED
  BY <1>1, <1>2 DEF Clone

LEMMA HandOnKeeps ==
  ASSUME IInv, NEW t \in Threads, NEW b \in Bounds, Send(b, t) \/ Forget(t, b) \/ Pin(b) \/ EndThread(t)
  PROVE  IInv'
<1>1. CASE Send(b, t)
  BY <1>1, BoundsAssumption DEF IInv, TypeOK, OwnThreadOnly, StorageGuarantee, TakenIsGone, Owned, Send, Running, fields, value
<1>2. CASE Forget(t, b)
  BY <1>2 DEF IInv, TypeOK, OwnThreadOnly, StorageGuarantee, TakenIsGone, Owned, Forget, Running, fields, value
<1>3. CASE Pin(b)
  BY <1>3 DEF IInv, TypeOK, OwnThreadOnly, StorageGuarantee, TakenIsGone, Owned, Pin, fields, value
<1>4. CASE EndThread(t)
  BY <1>4 DEF IInv, TypeOK, OwnThreadOnly, StorageGuarantee, TakenIsGone, Owned, EndThread, fields, owners, value
<1>5. QED
  BY <1>1, <1>2, <1>3, <1>4

\* The flag keeps the drop of what is left from destroying a value that moved out.
LEMMA IntoInnerKeeps ==
  ASSUME IInv, NEW t \in Threads, NEW b \in Bounds, IntoInner(t, b)
  PROVE  IInv'
<1>1. CASE ~IsUsable(t, b)
  BY <1>1, PanicKeeps DEF IntoInner
<1>2. CASE IsUsable(t, b)
  <2>1. /\ life[b] = "live" /\ holder[b] = t /\ b \notin pinned /\ Running(t)
        /\ taken' = [taken EXCEPT ![b] = TRUE]
        /\ touched' = UsedBy(t, {b})
        /\ life' = [life EXCEPT ![b] = "released"]
        /\ UNCHANGED <<threadId, holder, pinned, unwinding, ended, aborted>>
    BY <1>2 DEF IntoInner, Owned, TakenNow, Release
  <2>2. fate[b] = <<>> /\ taken'[b]
    BY <2>1 DEF IInv, TypeOK, StorageGuarantee
  <2>3. fate' = [fate EXCEPT ![b] = <<"moved">>]
    BY <1>2, <2>2, OneEnding DEF IntoInner, MustDestroy
  <2>4. TypeOK'
    BY <2>1, <2>3, OneEnding DEF IInv, TypeOK, Owned, UsedBy, Running
  <2>5. OwnThreadOnly'
    BY <1>2, <2>1 DEF IInv, TypeOK, OwnThreadOnly, UsedBy, IsUsable
  <2>6. StorageGuarantee'
    BY <2>1, <2>3 DEF IInv, TypeOK, StorageGuarantee
  <2>7. TakenIsGone'
    BY <2>1 DEF IInv, TypeOK, TakenIsGone
  <2>8. QED
    BY <2>4, <2>5, <2>6, <2>7 DEF IInv
<1>3. QED
  BY <1>1, <1>2

\* What the drop of a live wrapper leaves behind
LEMMA DropKeeps ==
  ASSUME IInv, NEW t \in Threads, NEW b \in Bounds, Drop(t, b), life[b] = "live",
         unwinding' \in [Threads -> SUBSET Bounds],
         \A u \in Threads : unwinding'[u] \subseteq Owned(u) \ {b}
  PROVE  IInv'
<1>1. fate[b] = <<>> /\ ~taken[b]
  BY DEF IInv, TypeOK, StorageGuarantee, TakenIsGone
<1>2. CASE b \notin NeedsDrop
  <2>1. life' = [life EXCEPT ![b] = "released"] /\ UNCHANGED <<value, aborted, fields, holder, pinned, ended>>
    BY <1>2 DEF Drop, MustDestroy, Release
  <2>2. QED
    BY <1>1, <1>2, <2>1
       DEF IInv, TypeOK, OwnThreadOnly, StorageGuarantee, TakenIsGone, Owned, value, fields
<1>3. CASE b \in NeedsDrop /\ IsUsable(t, b)
  <2>1. /\ life' = [life EXCEPT ![b] = "released"]
        /\ fate' = [fate EXCEPT ![b] = <<"destroyed">>]
        /\ touched' = UsedBy(t, {b})
        /\ UNCHANGED <<aborted, fields, holder, pinned, ended>>
    BY <1>1, <1>3, OneEnding DEF Drop, MustDestroy, Release
  <2>2. QED
    BY <1>3, <2>1, OneEnding
       DEF IInv, TypeOK, OwnThreadOnly, StorageGuarantee, TakenIsGone, Owned, UsedBy, IsUsable, fields
<1>4. CASE b \in NeedsDrop /\ ~IsUsable(t, b)
  <2>1. aborted' = TRUE /\ UNCHANGED <<value, life, fields, holder, pinned, ended>>
    BY <1>1, <1>4 DEF Drop, MustDestroy, DropOnForeignThread
  <2>2. QED
    BY <2>1 DEF IInv, TypeOK, OwnThreadOnly, StorageGuarantee, TakenIsGone, Owned, value, fields
<1>5. QED
  BY <1>2, <1>3, <1>4

LEMMA DropOwnedKeeps ==
  ASSUME IInv, NEW t \in Threads, NEW b \in Bounds, DropOwned(t, b)
  PROVE  IInv'
<1>1. life[b] = "live" /\ holder[b] = t /\ unwinding[t] = {} /\ Drop(t, b) /\ unwinding' = unwinding
  BY DEF DropOwned, Owned, Running
<1>2. \A u \in Threads : unwinding'[u] \subseteq Owned(u) \ {b}
  BY <1>1 DEF IInv, TypeOK, Owned
<1>3. QED
  BY <1>1, <1>2, DropKeeps DEF IInv, TypeOK

LEMMA UnwindKeeps ==
  ASSUME IInv, NEW t \in Threads, NEW b \in Bounds, Unwind(t, b)
  PROVE  IInv'
<1>1. /\ b \in Owned(t) /\ Drop(t, b)
      /\ unwinding' = [unwinding EXCEPT ![t] = unwinding[t] \ {b}]
  BY DEF Unwind, IInv, TypeOK
<1>2. life[b] = "live" /\ holder[b] = t
  BY <1>1 DEF Owned
<1>3. \A u \in Threads : unwinding'[u] \subseteq Owned(u) \ {b}
  BY <1>1, <1>2 DEF IInv, TypeOK, Owned
<1>4. QED
  BY <1>1, <1>2, <1>3, DropKeeps DEF IInv, TypeOK

LEMMA StepIInv == IInv /\ [Next]_vars => IInv'
<1> SUFFICES ASSUME IInv, [Next]_vars PROVE IInv'
  OBVIOUS
<1>1. CASE UNCHANGED vars
  BY <1>1 DEF vars, fields, owners, value, IInv, TypeOK, OwnThreadOnly, StorageGuarantee, TakenIsGone, Owned
<1>2. ASSUME NEW t \in Threads, NEW b \in Bounds,
             Reference(t, b) \/ New(t, b) \/ Send(b, t) \/ Forget(t, b) \/ IntoInner(t, b)
               \/ DropOwned(t, b) \/ Unwind(t, b)
      PROVE  IInv'
  BY <1>2, ReferenceKeeps, NewKeeps, HandOnKeeps, IntoInnerKeeps, DropOwnedKeeps, UnwindKeeps
<1>3. ASSUME NEW t \in Threads, NEW b \in Bounds, NEW c \in Bounds, Compare(t, b, c) \/ Clone(t, b, c)
      PROVE  IInv'
  BY <1>3, CompareKeeps, CloneKeeps
<1>4. ASSUME NEW t \in Threads, EndThread(t) PROVE IInv'
  BY <1>4 DEF IInv, TypeOK, OwnThreadOnly, StorageGuarantee, TakenIsGone, Owned, EndThread, fields, owners, value
<1>5. ASSUME NEW b \in Bounds, Pin(b) PROVE IInv'
  BY <1>5 DEF IInv, TypeOK, OwnThreadOnly, StorageGuarantee, TakenIsGone, Owned, Pin, fields, value
<1>6. QED
  BY <1>1, <1>2, <1>3, <1>4, <1>5 DEF Next

LEMMA Invariance == Spec => []IInv
BY InitIInv, StepIInv, PTL DEF Spec

-----------------------------------------------------------------------------

\* Types are kept, and what a thread unwinds it owns.
THEOREM WrapperTypes == Spec => []TypeOK
<1>1. IInv => TypeOK
  BY DEF IInv
<1>2. QED
  BY <1>1, Invariance, PTL

\* The promise behind the unsafe Send and Sync: a value is used and destroyed on its
\* own thread only.
THEOREM ValueStaysHome == Spec => []OwnThreadOnly
<1>1. IInv => OwnThreadOnly
  BY DEF IInv
<1>2. QED
  BY <1>1, Invariance, PTL

\* A value ends once and before its storage does, as Pin demands.
THEOREM DropGuarantee == Spec => []StorageGuarantee
<1>1. IInv => StorageGuarantee
  BY DEF IInv
<1>2. QED
  BY <1>1, Invariance, PTL
=============================================================================
