-------------------------- MODULE CallbackSlotProofs --------------------------
(***************************************************************************)
(* The safety properties of CallbackSlot for any number of threads and     *)
(* closures, with or without libmpv's own lock.  The inductive invariant   *)
(* Inv says, for each program point, what is known there about the locks,  *)
(* the registration, the slot and the closures.                            *)
(***************************************************************************)
EXTENDS CallbackSlot, TLAPS

\* A lock is held by the thread that is between its lock and its unlock.
LockInv ==
    /\ \A u \in Users : regLock = u <=> pc[u] \in RegLabels
    /\ \A t \in Threads : slotLock = t <=> pc[t] \in {"set_stored", "td_taken", "tr_unlock"}
    /\ \A t \in Threads : dispatchLock = t <=> DispatchLock /\ pc[t] \in TrampolineLabels

\* How far the registration lock's holder has come decides what the slot and
\* the registration are; when nobody holds it, they agree.
PhaseInv ==
    /\ cb => slot # None /\ leaked
    /\ slot # None /\ ~cb => \E u \in Users : pc[u] \in {"set_stored", "set_ffi", "td_take"}
    /\ \A u \in Users :
        /\ pc[u] \in {"set_stored", "set_ffi", "set_done"} \cup TrampolineLabels => slot = arg[u]
        /\ pc[u] \in {"set_done"} \cup TrampolineLabels => cb
        /\ pc[u] \in RegLabels \ TeardownLabels => leaked
        /\ pc[u] \in {"td_take", "td_taken", "td_unlock"} => ~cb
        /\ pc[u] \in {"td_taken", "td_unlock"} => slot = None

\* A running trampoline, given that a dispatch began while libmpv had it registered.
TrampolineInv ==
    /\ \A t \in Threads :
        /\ pc[t] \in TrampolineLabels => leaked /\ (DispatchLock => cb)
        /\ clone[t] # None => pc[t] \in {"tr_unlock", "tr_call"}
        /\ DispatchLock /\ pc[t] = "tr_unlock" => clone[t] # None
        /\ pc[t] = "tr_call" => clone[t] # None
    /\ \A u \in Users :
        /\ pc[u] \in {"tr_unlock", "tr_call"} => clone[u] = arg[u]
        /\ pc[u] # "tr_dtor"

\* Drop runs alone, and destroys before it releases.
DropInv ==
    /\ owner # "alive" => \A u, v \in Users : pc[u] # "idle" /\ pc[v] # "idle" => u = v
    /\ \A u \in Users :
        /\ owner = "dropping" => pc[u] \in {"idle"} \cup TeardownLabels \cup ReleaseLabels \cup DropLabels
        /\ owner = "dropping" /\ pc[u] \in ReleaseLabels \cup DropLabels => slot = None
        /\ owner = "dropping" /\ pc[u] \in ReleaseLabels \cup {"fields"} => ~object
        /\ owner = "gone" => pc[u] = "idle"
    /\ owner = "gone" => slot = None /\ ~object

\* Who owns which closure.
ClosureInv ==
    /\ NoUseAfterRelease /\ NothingLeaks
    /\ \A u \in Users :
        /\ arg[u] # None <=> pc[u] \in SetLabels \cup TrampolineLabels
        /\ arg[u] # None => fate[arg[u]] = "live"
        /\ pc[u] \in {"set_lock", "set_store"} => ~Referenced(arg[u], slot, prev, clone)
        /\ prev[u] # None => pc[u] \in {"set_stored", "set_ffi", "set_done", "td_taken",
                                        "td_unlock", "destroy", "release"} \cup TrampolineLabels
    /\ \A u, v \in Users : arg[u] # None /\ arg[u] = arg[v] => u = v

Inv == LockInv /\ PhaseInv /\ TrampolineInv /\ DropInv /\ ClosureInv
-----------------------------------------------------------------------------
\* Every reachable state is typed; in particular only Drop reaches destroy.
THEOREM Typing == Spec => []TypeOK
<1>. USE ConstantsAssumption DEF Threads, Maybe, Goto, locks, mpv, UserLabels, TrampolineLabels,
         SetLabels, TeardownLabels, ReleaseLabels, DropLabels
<1>1. Init => TypeOK
  BY DEF Init, TypeOK
<1>2. TypeOK /\ [Next]_vars => TypeOK'
  <2>. SUFFICES ASSUME TypeOK, [Next]_vars PROVE TypeOK'
    OBVIOUS
  <2>. USE DEF TypeOK
  <2>1. ASSUME NEW u \in Users, NEW c \in Closures, BeginSet(u, c)
       PROVE  TypeOK'
    BY <2>1 DEF BeginSet
  <2>2. ASSUME NEW u \in Users, LockForSet(u)
       PROVE  TypeOK'
    BY <2>2 DEF LockForSet
  <2>3. ASSUME NEW u \in Users, StoreClosure(u)
       PROVE  TypeOK'
    BY <2>3 DEF StoreClosure
  <2>4. ASSUME NEW u \in Users, UnlockStored(u)
       PROVE  TypeOK'
    BY <2>4 DEF UnlockStored
  <2>5. ASSUME NEW u \in Users, Register(u)
       PROVE  TypeOK'
    BY <2>5 DEF Register, EnterMpv
  <2>6. ASSUME NEW u \in Users, RegisterReturns(u)
       PROVE  TypeOK'
    BY <2>6 DEF RegisterReturns
  <2>7. ASSUME NEW u \in Users, UnlockSet(u)
       PROVE  TypeOK'
    BY <2>7 DEF UnlockSet
  <2>8. ASSUME NEW u \in Users, Release(u)
       PROVE  TypeOK'
    BY <2>8 DEF Release, DropArc, AfterRelease
  <2>9. ASSUME NEW u \in Users, FinishDtor(u)
       PROVE  TypeOK'
    BY <2>9 DEF FinishDtor, AfterRelease
  <2>10. ASSUME NEW u \in Users, BeginClear(u)
       PROVE  TypeOK'
    BY <2>10 DEF BeginClear
  <2>11. ASSUME NEW u \in Users, BeginDrop(u)
       PROVE  TypeOK'
    BY <2>11 DEF BeginDrop
  <2>12. ASSUME NEW u \in Users, LockForTeardown(u)
       PROVE  TypeOK'
    BY <2>12 DEF LockForTeardown
  <2>13. ASSUME NEW u \in Users, Unregister(u)
       PROVE  TypeOK'
    BY <2>13 DEF Unregister
  <2>14. ASSUME NEW u \in Users, TakeClosure(u)
       PROVE  TypeOK'
    BY <2>14 DEF TakeClosure
  <2>15. ASSUME NEW u \in Users, UnlockTaken(u)
       PROVE  TypeOK'
    BY <2>15 DEF UnlockTaken
  <2>16. ASSUME NEW u \in Users, UnlockTeardown(u)
       PROVE  TypeOK'
    BY <2>16 DEF UnlockTeardown
  <2>17. ASSUME NEW u \in Users, Destroy(u)
       PROVE  TypeOK'
    BY <2>17 DEF Destroy
  <2>18. ASSUME NEW u \in Users, DropFields(u)
       PROVE  TypeOK'
    BY <2>18 DEF DropFields
  <2>19. ASSUME NEW t \in Threads, EnterSlot(t)
       PROVE  TypeOK'
    BY <2>19 DEF EnterSlot
  <2>20. ASSUME NEW t \in Threads, LeaveSlot(t)
       PROVE  TypeOK'
    BY <2>20 DEF LeaveSlot
  <2>21. ASSUME NEW t \in Threads, FinishCall(t)
       PROVE  TypeOK'
    BY <2>21 DEF FinishCall, DropArc
  <2>22. ASSUME NEW t \in Threads, FinishCloneDtor(t)
       PROVE  TypeOK'
    BY <2>22 DEF FinishCloneDtor
  <2>23. ASSUME NEW d \in Dispatchers, Dispatch(d)
       PROVE  TypeOK'
    BY <2>23 DEF Dispatch, EnterMpv
  <2>24. ASSUME NEW d \in Dispatchers, DispatchReturns(d)
       PROVE  TypeOK'
    BY <2>24 DEF DispatchReturns
  <2>25. CASE UNCHANGED vars
    BY <2>25 DEF vars
  <2>. QED
    BY <2>1, <2>2, <2>3, <2>4, <2>5, <2>6, <2>7, <2>8, <2>9, <2>10, <2>11, <2>12, <2>13, <2>14, <2>15, <2>16, <2>17, <2>18, <2>19, <2>20, <2>21, <2>22, <2>23, <2>24, <2>25 DEF Next, NewCall, UserStep, Trampoline
<1>. QED
  BY <1>1, <1>2, PTL DEF Spec
\* Inv is inductive: every step of a set, a teardown, a trampoline or libmpv keeps it.
LEMMA Inductive == TypeOK /\ Inv /\ [Next]_vars => Inv'
<1>. SUFFICES ASSUME TypeOK, Inv, [Next]_vars PROVE Inv'
  OBVIOUS
<1>. USE ConstantsAssumption DEF Threads, Maybe, Goto, locks, mpv, UserLabels, TrampolineLabels,
         SetLabels, TeardownLabels, ReleaseLabels, DropLabels, RegLabels, TypeOK, Referenced,
         Inv, LockInv, PhaseInv, TrampolineInv, DropInv, ClosureInv, NoUseAfterRelease, NothingLeaks
<1>1. ASSUME NEW u \in Users, NEW c \in Closures, BeginSet(u, c)
     PROVE  Inv'
  BY <1>1 DEF BeginSet
<1>2. ASSUME NEW u \in Users, LockForSet(u)
     PROVE  Inv'
  BY <1>2 DEF LockForSet
<1>3. ASSUME NEW u \in Users, StoreClosure(u)
     PROVE  Inv'
  BY <1>3 DEF StoreClosure
<1>4. ASSUME NEW u \in Users, UnlockStored(u)
     PROVE  Inv'
  BY <1>4 DEF UnlockStored
<1>5. ASSUME NEW u \in Users, Register(u)
     PROVE  Inv'
  BY <1>5 DEF Register, EnterMpv
<1>6. ASSUME NEW u \in Users, RegisterReturns(u)
     PROVE  Inv'
  BY <1>6 DEF RegisterReturns
<1>7. ASSUME NEW u \in Users, UnlockSet(u)
     PROVE  Inv'
  BY <1>7 DEF UnlockSet
<1>8. ASSUME NEW u \in Users, Release(u)
     PROVE  Inv'
  BY <1>8 DEF Release, DropArc, AfterRelease
<1>9. ASSUME NEW u \in Users, FinishDtor(u)
     PROVE  Inv'
  BY <1>9 DEF FinishDtor, AfterRelease
<1>10. ASSUME NEW u \in Users, BeginClear(u)
     PROVE  Inv'
  BY <1>10 DEF BeginClear
<1>11. ASSUME NEW u \in Users, BeginDrop(u)
     PROVE  Inv'
  BY <1>11 DEF BeginDrop
<1>12. ASSUME NEW u \in Users, LockForTeardown(u)
     PROVE  Inv'
  BY <1>12 DEF LockForTeardown
<1>13. ASSUME NEW u \in Users, Unregister(u)
     PROVE  Inv'
  BY <1>13 DEF Unregister
<1>14. ASSUME NEW u \in Users, TakeClosure(u)
     PROVE  Inv'
  BY <1>14 DEF TakeClosure
<1>15. ASSUME NEW u \in Users, UnlockTaken(u)
     PROVE  Inv'
  BY <1>15 DEF UnlockTaken
<1>16. ASSUME NEW u \in Users, UnlockTeardown(u)
     PROVE  Inv'
  BY <1>16 DEF UnlockTeardown
<1>17. ASSUME NEW u \in Users, Destroy(u)
     PROVE  Inv'
  BY <1>17 DEF Destroy
<1>18. ASSUME NEW u \in Users, DropFields(u)
     PROVE  Inv'
  BY <1>18 DEF DropFields
<1>19. ASSUME NEW t \in Threads, EnterSlot(t)
     PROVE  Inv'
  BY <1>19 DEF EnterSlot
<1>20. ASSUME NEW t \in Threads, LeaveSlot(t)
     PROVE  Inv'
  BY <1>20 DEF LeaveSlot
<1>21. ASSUME NEW t \in Threads, FinishCall(t)
     PROVE  Inv'
  BY <1>21 DEF FinishCall, DropArc
<1>22. ASSUME NEW t \in Threads, FinishCloneDtor(t)
     PROVE  Inv'
  BY <1>22 DEF FinishCloneDtor
<1>23. ASSUME NEW d \in Dispatchers, Dispatch(d)
     PROVE  Inv'
  BY <1>23 DEF Dispatch, EnterMpv
<1>24. ASSUME NEW d \in Dispatchers, DispatchReturns(d)
     PROVE  Inv'
  BY <1>24 DEF DispatchReturns
<1>25. CASE UNCHANGED vars
  BY <1>25 DEF vars
<1>. QED
  BY <1>1, <1>2, <1>3, <1>4, <1>5, <1>6, <1>7, <1>8, <1>9, <1>10, <1>11, <1>12, <1>13, <1>14, <1>15, <1>16, <1>17, <1>18, <1>19, <1>20, <1>21, <1>22, <1>23, <1>24, <1>25 DEF Next, NewCall, UserStep, Trampoline

LEMMA Invariance == Spec => [](TypeOK /\ Inv)
<1>1. Init => Inv
  BY ConstantsAssumption DEF Init, Inv, LockInv, PhaseInv, TrampolineInv, DropInv,
     ClosureInv, NoUseAfterRelease, NothingLeaks, Referenced, Threads, RegLabels,
     TrampolineLabels, SetLabels, TeardownLabels, ReleaseLabels, DropLabels
<1>. QED
  BY <1>1, Typing, Inductive, PTL DEF Spec

-----------------------------------------------------------------------------
\* No trampoline reads freed memory, even if libmpv enters it after the owner is gone.
THEOREM SlotMemory == Spec => []SlotMemoryValid
<1>1. TypeOK /\ Inv => SlotMemoryValid
  BY DEF Inv, TrampolineInv, SlotMemoryValid, TrampolineLabels
<1>. QED
  BY <1>1, Invariance, PTL

\* A closure is alive while somebody owns it, and while it runs.
THEOREM ClosureLifetime == Spec => []NoUseAfterRelease
<1>1. TypeOK /\ Inv => NoUseAfterRelease
  BY DEF Inv, ClosureInv
<1>. QED
  BY <1>1, Invariance, PTL

\* A closure that nobody owns is gone.
THEOREM ClosureReleased == Spec => []NothingLeaks
<1>1. TypeOK /\ Inv => NothingLeaks
  BY DEF Inv, ClosureInv
<1>. QED
  BY <1>1, Invariance, PTL

\* Concurrent sets and clears never leave libmpv with a registration and no
\* closure, or with a closure and no registration.
THEOREM Agreement == Spec => []RegisteredAgrees
<1>1. TypeOK /\ Inv => RegisteredAgrees
  BY DEF Inv, PhaseInv, RegisteredAgrees, RegLabels, SetLabels, TeardownLabels
<1>. QED
  BY <1>1, Invariance, PTL

\* A synchronous dispatch sees the closure being set.
THEOREM SyncDispatch == Spec => []SyncDispatchSeesNew
<1>1. TypeOK /\ Inv => SyncDispatchSeesNew
  BY DEF Inv, TrampolineInv, SyncDispatchSeesNew
<1>. QED
  BY <1>1, Invariance, PTL

\* With libmpv's lock no dispatch misses the closure it was promised.
THEOREM DispatchFinds == Spec => []PromisedClosure
<1>1. TypeOK /\ Inv => PromisedClosure
  BY DEF Inv, TrampolineInv, PromisedClosure
<1>. QED
  BY <1>1, Invariance, PTL

\* User code is never run under the slot lock, nor a destructor under either lock.
THEOREM Unlocked == Spec => []UserCodeUnlocked
<1>1. TypeOK /\ Inv => UserCodeUnlocked
  BY ConstantsAssumption DEF TypeOK, Inv, LockInv, TrampolineInv, UserCodeUnlocked, RegLabels,
     SetLabels, TeardownLabels, TrampolineLabels, Threads, Maybe
<1>. QED
  BY <1>1, Invariance, PTL

\* Drop destroys the libmpv object before it runs the closure's destructor.
THEOREM DestroyFirst == Spec => []TeardownDestroysFirst
<1>1. TypeOK /\ Inv => TeardownDestroysFirst
  BY DEF Inv, DropInv, PhaseInv, TeardownDestroysFirst, ReleaseLabels
<1>. QED
  BY <1>1, Invariance, PTL

\* Set, teardown and the trampoline cannot deadlock: among threads each of which waits
\* for another of them, none would wait for the slot lock (its holder waits for
\* nothing), so none for libmpv's (its holder could only wait for the slot lock), so
\* none for the registration lock either.
THEOREM NoDeadlock == Spec => []NoCircularWait
<1>1. ASSUME TypeOK, LockInv PROVE NoCircularWait
  <2>. USE <1>1, ConstantsAssumption DEF TypeOK, LockInv, WaitsFor, Threads, Maybe, RegLabels,
           SetLabels, TeardownLabels, TrampolineLabels
  <2>1. ASSUME NEW t \in Threads, NEW u \in Threads, WaitsFor(t, u)
        PROVE  pc[u] # "idle"
    BY <2>1
  <2>2. ASSUME NEW S \in SUBSET Threads, S # {}, \A t \in S : \E u \in S : WaitsFor(t, u)
        PROVE  FALSE
    <3>1. \A t \in S : pc[t] \notin {"set_store", "td_take", "tr_lock"}
      BY <2>2
    <3>2. \A t \in S : pc[t] \notin {"set_ffi", "td_ffi"}
      BY <2>2, <3>1
    <3>3. \A t \in S : pc[t] \notin {"set_lock", "td_lock"}
      BY <2>2, <3>1, <3>2
    <3>. QED
      BY <2>2, <3>1, <3>2, <3>3
  <2>. QED
    BY <2>1, <2>2 DEF NoCircularWait
<1>. QED
  BY <1>1, Invariance, PTL DEF Inv

\* How far a thread still has to go: the points of a call in the order of its code.  A
\* dispatch from inside the registration lies between set_ffi and set_done.
Stage == [label \in UserLabels |->
    CASE label = "idle" -> 0
      [] label = "fields" -> 1
      [] label = "dtor" -> 2
      [] label = "release" -> 3
      [] label \in {"set_done", "destroy"} -> 4
      [] label \in {"ffi_return", "td_unlock"} -> 5
      [] label \in {"tr_dtor", "td_taken"} -> 6
      [] label \in {"tr_call", "td_take"} -> 7
      [] label \in {"tr_unlock", "td_ffi"} -> 8
      [] label \in {"tr_lock", "td_lock"} -> 9
      [] label = "set_ffi" -> 10
      [] label = "set_stored" -> 11
      [] label = "set_store" -> 12
      [] label = "set_lock" -> 13]

\* No call or dispatch goes back: any step that is not a new one takes one thread
\* strictly nearer to its end and moves no other.  With NoDeadlock (some thread in a
\* call waits for no lock) this is all of OpsReturn but its fairness: at most 13 steps
\* of each thread are left, and one of them can be taken.
Advances == NewCall \/ \E t \in Threads :
    Stage[pc'[t]] < Stage[pc[t]] /\ \A v \in Threads \ {t} : pc'[v] = pc[v]
THEOREM OpsAdvance == Spec => [][Advances]_vars
<1>1. TypeOK /\ [Next]_vars => [Advances]_vars
  <2>. SUFFICES ASSUME TypeOK, Next, ~NewCall PROVE Advances
    BY DEF Advances
  <2>. USE DEF TypeOK, Goto, Threads
  <2>. DEFINE Moves(t, from, to) == pc[t] = from /\ pc' = [pc EXCEPT ![t] = to]
  <2>1. ASSUME NEW t \in Threads, NEW from, NEW to, Moves(t, from, to),
               from \in UserLabels, to \in UserLabels, Stage[to] < Stage[from]
        PROVE  Advances
    BY <2>1 DEF Advances
  <2>s. /\ \A label \in UserLabels : Stage[label] \in Nat
        /\ Stage["idle"] = 0 /\ Stage["fields"] = 1 /\ Stage["dtor"] = 2 /\ Stage["release"] = 3
        /\ Stage["set_done"] = 4 /\ Stage["destroy"] = 4
        /\ Stage["ffi_return"] = 5 /\ Stage["td_unlock"] = 5
        /\ Stage["tr_dtor"] = 6 /\ Stage["td_taken"] = 6
        /\ Stage["tr_call"] = 7 /\ Stage["td_take"] = 7
        /\ Stage["tr_unlock"] = 8 /\ Stage["td_ffi"] = 8
        /\ Stage["tr_lock"] = 9 /\ Stage["td_lock"] = 9
        /\ Stage["set_ffi"] = 10 /\ Stage["set_stored"] = 11 /\ Stage["set_store"] = 12
        /\ Stage["set_lock"] = 13
    BY DEF Stage, UserLabels, TrampolineLabels, SetLabels, TeardownLabels, ReleaseLabels, DropLabels
  <2>. USE DEF UserLabels, TrampolineLabels, SetLabels, TeardownLabels, ReleaseLabels, DropLabels
  <2>2. ASSUME NEW u \in Users, UserStep(u)
        PROVE  \E from, to \in UserLabels : Moves(u, from, to) /\ Stage[to] < Stage[from]
    <3>1. CASE LockForSet(u) \/ StoreClosure(u) \/ UnlockStored(u)
      BY <3>1, <2>s DEF LockForSet, StoreClosure, UnlockStored
    <3>2. CASE Register(u) \/ RegisterReturns(u) \/ UnlockSet(u)
      BY <3>2, <2>s DEF Register, RegisterReturns, UnlockSet
    <3>3. CASE Release(u) \/ FinishDtor(u)
      BY <3>3, <2>s DEF Release, FinishDtor, DropArc, AfterRelease
    <3>4. CASE LockForTeardown(u) \/ Unregister(u) \/ TakeClosure(u) \/ UnlockTaken(u)
      BY <3>4, <2>s DEF LockForTeardown, Unregister, TakeClosure, UnlockTaken
    <3>5. CASE UnlockTeardown(u) \/ Destroy(u) \/ DropFields(u)
      BY <3>5, <2>s DEF UnlockTeardown, Destroy, DropFields
    <3>. QED BY <2>2, <3>1, <3>2, <3>3, <3>4, <3>5 DEF UserStep
  <2>3. ASSUME NEW t \in Threads, Trampoline(t)
        PROVE  \E from, to \in UserLabels : Moves(t, from, to) /\ Stage[to] < Stage[from]
    BY <2>3, <2>s DEF Trampoline, EnterSlot, LeaveSlot, FinishCall, FinishCloneDtor, DropArc
  <2>4. ASSUME NEW d \in Dispatchers, DispatchReturns(d)
        PROVE  \E from, to \in UserLabels : Moves(d, from, to) /\ Stage[to] < Stage[from]
    BY <2>4, <2>s DEF DispatchReturns
  <2>5. PICK t \in Threads : \E from, to \in UserLabels : Moves(t, from, to) /\ Stage[to] < Stage[from]
    <3>. HIDE DEF Moves
    <3>. QED BY <2>2, <2>3, <2>4 DEF Next
  <2>. QED BY <2>1, <2>5
<1>. QED
  BY <1>1, Typing, PTL DEF Spec
-----------------------------------------------------------------------------
\* Every step of the slot is a step of the cell or leaves the cell as it is.
LEMMA RefinementStep == TypeOK /\ Inv /\ [Next]_vars => [Cell!Next]_Cell!vars
<1>. SUFFICES ASSUME TypeOK, Inv, [Next]_vars PROVE [Cell!Next]_Cell!vars
  OBVIOUS
<1>. USE ConstantsAssumption DEF Threads, Maybe, Goto, locks, mpv, UserLabels, TrampolineLabels,
         SetLabels, TeardownLabels, ReleaseLabels, DropLabels, RegLabels, TypeOK, Referenced,
         Inv, LockInv, PhaseInv, TrampolineInv, DropInv, ClosureInv, NoUseAfterRelease, NothingLeaks,
         EverStored, Dropped, Cell!vars, Cell!Next
<1>1. ASSUME NEW u \in Users, NEW c \in Closures, BeginSet(u, c)
     PROVE  [Cell!Next]_Cell!vars
  BY <1>1 DEF BeginSet
<1>2. ASSUME NEW u \in Users, LockForSet(u)
     PROVE  [Cell!Next]_Cell!vars
  BY <1>2 DEF LockForSet
<1>3. ASSUME NEW u \in Users, StoreClosure(u)
     PROVE  [Cell!Next]_Cell!vars
  BY <1>3 DEF StoreClosure, Cell!Replace
<1>4. ASSUME NEW u \in Users, UnlockStored(u)
     PROVE  [Cell!Next]_Cell!vars
  BY <1>4 DEF UnlockStored
<1>5. ASSUME NEW u \in Users, Register(u)
     PROVE  [Cell!Next]_Cell!vars
  BY <1>5 DEF Register, EnterMpv
<1>6. ASSUME NEW u \in Users, RegisterReturns(u)
     PROVE  [Cell!Next]_Cell!vars
  BY <1>6 DEF RegisterReturns
<1>7. ASSUME NEW u \in Users, UnlockSet(u)
     PROVE  [Cell!Next]_Cell!vars
  BY <1>7 DEF UnlockSet
<1>8. ASSUME NEW u \in Users, Release(u)
     PROVE  [Cell!Next]_Cell!vars
  BY <1>8 DEF Release, DropArc, AfterRelease, Cell!Free, Cell!Freeable
<1>9. ASSUME NEW u \in Users, FinishDtor(u)
     PROVE  [Cell!Next]_Cell!vars
  BY <1>9 DEF FinishDtor, AfterRelease
<1>10. ASSUME NEW u \in Users, BeginClear(u)
     PROVE  [Cell!Next]_Cell!vars
  BY <1>10 DEF BeginClear
<1>11. ASSUME NEW u \in Users, BeginDrop(u)
     PROVE  [Cell!Next]_Cell!vars
  BY <1>11 DEF BeginDrop
<1>12. ASSUME NEW u \in Users, LockForTeardown(u)
     PROVE  [Cell!Next]_Cell!vars
  BY <1>12 DEF LockForTeardown
<1>13. ASSUME NEW u \in Users, Unregister(u)
     PROVE  [Cell!Next]_Cell!vars
  BY <1>13 DEF Unregister
<1>14. ASSUME NEW u \in Users, TakeClosure(u)
     PROVE  [Cell!Next]_Cell!vars
  BY <1>14 DEF TakeClosure, Cell!Clear
<1>15. ASSUME NEW u \in Users, UnlockTaken(u)
     PROVE  [Cell!Next]_Cell!vars
  BY <1>15 DEF UnlockTaken
<1>16. ASSUME NEW u \in Users, UnlockTeardown(u)
     PROVE  [Cell!Next]_Cell!vars
  BY <1>16 DEF UnlockTeardown
<1>17. ASSUME NEW u \in Users, Destroy(u)
     PROVE  [Cell!Next]_Cell!vars
  BY <1>17 DEF Destroy
<1>18. ASSUME NEW u \in Users, DropFields(u)
     PROVE  [Cell!Next]_Cell!vars
  BY <1>18 DEF DropFields, Cell!Close
<1>19. ASSUME NEW t \in Threads, EnterSlot(t)
     PROVE  [Cell!Next]_Cell!vars
  <2>1. clone[t] = None /\ UNCHANGED <<slot, EverStored, Dropped, owner>>
    BY <1>19 DEF EnterSlot
  <2>2. CASE slot = None
    <3>1. clone' = clone
      BY <1>19, <2>1, <2>2 DEF EnterSlot
    <3>. QED
      BY <2>1, <3>1
  <2>3. CASE slot # None
    BY <1>19, <2>1, <2>3 DEF EnterSlot, Cell!Start
  <2>. QED
    BY <2>2, <2>3
<1>20. ASSUME NEW t \in Threads, LeaveSlot(t)
     PROVE  [Cell!Next]_Cell!vars
  BY <1>20 DEF LeaveSlot
<1>21. ASSUME NEW t \in Threads, FinishCall(t)
     PROVE  [Cell!Next]_Cell!vars
  <2>1. clone[t] # None /\ clone' = [clone EXCEPT ![t] = None] /\ UNCHANGED <<slot, owner>>
    BY <1>21 DEF FinishCall
  <2>2. EverStored' = EverStored
    BY <1>21 DEF FinishCall, DropArc
  <2>3. CASE Referenced(clone[t], slot, prev, clone')
    <3>1. Dropped' = Dropped
      BY <1>21, <2>3 DEF FinishCall, DropArc
    <3>. QED
      BY <2>1, <2>2, <3>1 DEF Cell!Finish
  <2>4. CASE ~Referenced(clone[t], slot, prev, clone')
    <3>1. Dropped' = Dropped \cup {clone[t]}
      BY <1>21, <2>1, <2>4 DEF FinishCall, DropArc
    <3>2. clone[t] \in Closures /\ fate[clone[t]] = "live" /\ clone[t] # slot
      BY <2>1, <2>4
    <3>4. \A u \in Users : arg[u] = clone[t] => pc[u] \notin {"set_lock", "set_store"}
      BY <2>1
    <3>3. \A s \in Threads : clone'[s] # clone[t]
      BY <2>4
    <3>. QED
      BY <2>1, <2>2, <3>1, <3>2, <3>3, <3>4 DEF Cell!Finish, Cell!Freeable
  <2>. QED
    BY <2>3, <2>4
<1>22. ASSUME NEW t \in Threads, FinishCloneDtor(t)
     PROVE  [Cell!Next]_Cell!vars
  BY <1>22 DEF FinishCloneDtor
<1>23. ASSUME NEW d \in Dispatchers, Dispatch(d)
     PROVE  [Cell!Next]_Cell!vars
  BY <1>23 DEF Dispatch, EnterMpv
<1>24. ASSUME NEW d \in Dispatchers, DispatchReturns(d)
     PROVE  [Cell!Next]_Cell!vars
  BY <1>24 DEF DispatchReturns
<1>25. CASE UNCHANGED vars
  BY <1>25 DEF vars
<1>. QED
  BY <1>1, <1>2, <1>3, <1>4, <1>5, <1>6, <1>7, <1>8, <1>9, <1>10, <1>11, <1>12, <1>13, <1>14, <1>15, <1>16, <1>17, <1>18, <1>19, <1>20, <1>21, <1>22, <1>23, <1>24, <1>25 DEF Next, NewCall, UserStep, Trampoline

\* The slot, with its locks and reference counts, implements the callback cell.
THEOREM Refinement == Spec => CellSpec
<1>1. Init => Cell!Init
  BY DEF Init, Cell!Init, EverStored, Dropped
<1>. QED
  BY <1>1, RefinementStep, Invariance, PTL DEF Spec, CellSpec, Cell!Spec
=============================================================================
