---------------------------- MODULE WakeupLoopProofs ----------------------------
(***************************************************************************)
(* No wakeup is lost, for any number of threads, closures and events, and  *)
(* with or without libmpv's own lock.  The composition implements the      *)
(* callback slot, so the invariant of the slot holds in it; LoopInv adds   *)
(* where a wakeup that libmpv counts as raised has got to.                 *)
(***************************************************************************)
EXTENDS WakeupLoop, CallbackSlotProofs

\* A wakeup is on its way to the current callback: the callback is about to be
\* registered, which raises one, or a trampoline will run it.
Heading ==
    \/ \E u \in Users : pc[u] \in {"set_stored", "set_ffi"}
    \/ \E t \in Threads : \/ pc[t] = "tr_lock"
                          \/ pc[t] \in {"tr_unlock", "tr_call"} /\ clone[t] = slot

LoopInv ==
    /\ events > 0 => needWakeup \/ raising # {}
    /\ cb /\ needWakeup => Awake \/ Heading

-----------------------------------------------------------------------------
LEMMA LoopStepIsSlotStep == [LoopNext]_loopVars => [Next]_vars
<1> SUFFICES ASSUME [LoopNext]_loopVars PROVE [Next]_vars
    OBVIOUS
<1>1. ASSUME NEW u \in Users, StartCall(u) PROVE Next
    BY <1>1 DEF StartCall, Next, NewCall
<1>2. ASSUME NEW u \in Users, Advance(u) PROVE Next
    BY <1>2 DEF Advance, Next
<1>3. ASSUME NEW t \in Threads, Dispatched(t) PROVE Next
    BY <1>3 DEF Dispatched, Enter, Leave, Notify, Return, Next, Trampoline
<1>4. ASSUME NEW d \in Dispatchers, Post(d) \/ Raise(d) PROVE [Next]_vars
    BY <1>4 DEF Post, Raise, Next, NewCall
<1>5. ASSUME NEW c \in Closures, LoopStep(c) PROVE UNCHANGED vars
    BY <1>5 DEF LoopStep, WakeUp, PollEvent, PollNone
<1>6. CASE UNCHANGED loopVars
    BY <1>6 DEF loopVars
<1> QED
    BY <1>1, <1>2, <1>3, <1>4, <1>5, <1>6 DEF LoopNext

\* The composition is a callback slot: whatever was proved of the slot holds in
\* it, however the loops and libmpv's wakeups interleave with its calls.
THEOREM LoopImplementsSlot == LoopSpec => Spec
<1>1. LoopInit => Init
    BY DEF LoopInit
<1> QED
    BY <1>1, LoopStepIsSlotStep, PTL DEF LoopSpec, Spec

-----------------------------------------------------------------------------
THEOREM LoopTyping == LoopSpec => []LoopTypeOK
<1> DEFINE Types == /\ events \in Nat /\ posts \in 0..MaxPosts /\ raising \subseteq Dispatchers
                    /\ needWakeup \in BOOLEAN /\ signalled \subseteq Closures
                    /\ loop \in [Closures -> {"asleep", "draining"}]
<1>1. LoopInit => Types
  <2> SUFFICES ASSUME LoopInit PROVE Types
      OBVIOUS
  <2>1. events \in Nat /\ posts \in 0..MaxPosts
      BY PostsAssumption DEF LoopInit
  <2>2. /\ raising \subseteq Dispatchers /\ needWakeup \in BOOLEAN /\ signalled \subseteq Closures
        /\ loop \in [Closures -> {"asleep", "draining"}]
      BY DEF LoopInit
  <2> QED
      BY <2>1, <2>2
<1>2. TypeOK /\ Inv /\ Types /\ [LoopNext]_loopVars => Types'
  <2> SUFFICES ASSUME TypeOK, Inv, Types, [LoopNext]_loopVars PROVE Types'
      OBVIOUS
  <2>. USE PostsAssumption
  <2>1. ASSUME NEW u \in Users, StartCall(u) PROVE Types'
      BY <2>1 DEF StartCall, queue, loops
  <2>2. ASSUME NEW u \in Users, Advance(u) PROVE Types'
      BY <2>2 DEF Advance, queue, loops
  <2>3. ASSUME NEW t \in Threads, Enter(t) \/ Leave(t) \/ Return(t) PROVE Types'
      BY <2>3 DEF Enter, Leave, Return, queue, loops
  <2>4. ASSUME NEW t \in Threads, Notify(t) PROVE Types'
    <3>1. clone[t] \in Closures
        BY <2>4 DEF Notify, FinishCall, Inv, TrampolineInv, TypeOK, Maybe
    <3> QED
        BY <2>4, <3>1 DEF Notify, queue
  <2>5. ASSUME NEW d \in Dispatchers, Post(d) PROVE Types'
      BY <2>5 DEF Post, loops
  <2>6. ASSUME NEW d \in Dispatchers, Raise(d) PROVE Types'
      BY <2>6 DEF Raise, loops
  <2>7. ASSUME NEW c \in Closures, LoopStep(c) PROVE Types'
    <3>1. CASE WakeUp(c)
        BY <3>1 DEF WakeUp, queue
    <3>2. CASE PollEvent(c)
        BY <3>2 DEF PollEvent, loops
    <3>3. CASE PollNone(c)
        BY <3>3 DEF PollNone
    <3> QED
        BY <2>7, <3>1, <3>2, <3>3 DEF LoopStep
  <2>8. CASE UNCHANGED loopVars
      BY <2>8 DEF loopVars, queue, loops
  <2> QED
      BY <2>1, <2>2, <2>3, <2>4, <2>5, <2>6, <2>7, <2>8 DEF LoopNext, Dispatched
<1> QED
    BY <1>1, <1>2, LoopImplementsSlot, Invariance, PTL DEF LoopSpec, LoopTypeOK

-----------------------------------------------------------------------------
\* A wakeup that libmpv has raised is never further from a loop than Heading says.
LEMMA LoopInductive == LoopTypeOK /\ Inv /\ LoopInv /\ [LoopNext]_loopVars => LoopInv'
<1> SUFFICES ASSUME LoopTypeOK, Inv, LoopInv, [LoopNext]_loopVars PROVE LoopInv'
    OBVIOUS
<1>. USE DEF LoopInv, LoopTypeOK, Threads, Goto
<1>1. ASSUME NEW u \in Users, StartCall(u) PROVE LoopInv'
  <2>1. /\ UNCHANGED <<cb, slot, clone, queue, loops>>
        /\ pc[u] = "idle" /\ \A t \in Threads : t # u => pc'[t] = pc[t]
      BY <1>1 DEF StartCall, BeginClear, BeginDrop, BeginSet, mpv, TypeOK
  <2>2. Heading => Heading'
      BY <2>1 DEF Heading
  <2> QED
      BY <2>1, <2>2 DEF Awake, queue, loops
<1>2. ASSUME NEW u \in Users, Advance(u) PROVE LoopInv'
  <2>. UNCHANGED <<queue, loops>> /\ (pc[u] = "set_ffi" => pc'[u] = "tr_lock")
      BY <1>2 DEF Advance
  <2>1. CASE pc[u] \in {"set_store", "set_stored", "set_ffi"}
    <3>1. pc'[u] \in {"set_stored", "set_ffi", "tr_lock"}
        BY <1>2, <2>1 DEF Advance, UserStep, LockForSet, StoreClosure, UnlockStored, Register,
               RegisterReturns, UnlockSet, Release, FinishDtor, LockForTeardown, Unregister,
               TakeClosure, UnlockTaken, UnlockTeardown, Destroy, DropFields, TypeOK
    <3> QED
        BY <3>1 DEF Heading, queue
  <2>2. CASE pc[u] = "td_ffi" \/ pc[u] = "td_take"
    <3>1. ~cb'
        BY <1>2, <2>2 DEF Advance, UserStep, LockForSet, StoreClosure, UnlockStored, Register,
               RegisterReturns, UnlockSet, Release, FinishDtor, LockForTeardown, Unregister,
               TakeClosure, UnlockTaken, UnlockTeardown, Destroy, DropFields, mpv, Inv, PhaseInv
    <3> QED
        BY <3>1 DEF queue
  <2>3. CASE pc[u] \notin {"set_store", "set_stored", "set_ffi", "td_ffi", "td_take"}
    <3>1. /\ UNCHANGED <<cb, slot, clone>>
          /\ pc[u] \notin {"set_stored", "set_ffi", "tr_lock", "tr_unlock", "tr_call"}
          /\ \A t \in Threads : t # u => pc'[t] = pc[t]
        BY <1>2, <2>3 DEF Advance, UserStep, LockForSet, StoreClosure, UnlockStored, Register,
               RegisterReturns, UnlockSet, Release, FinishDtor, LockForTeardown, Unregister,
               TakeClosure, UnlockTaken, UnlockTeardown, Destroy, DropFields, DropArc, mpv, TypeOK
    <3>2. Heading => Heading'
        BY <3>1 DEF Heading
    <3> QED
        BY <3>1, <3>2 DEF Awake, queue, loops
  <2> QED
      BY <2>1, <2>2, <2>3
<1>3. ASSUME NEW t \in Threads, Enter(t) PROVE LoopInv'
  <2>1. clone'[t] = slot /\ slot' = slot /\ pc'[t] = "tr_unlock"
      BY <1>3 DEF Enter, EnterSlot, TypeOK
  <2> QED
      BY <1>3, <2>1 DEF Enter, Heading, queue
<1>4. ASSUME NEW t \in Threads, Leave(t) PROVE LoopInv'
  <2>1. /\ UNCHANGED <<cb, slot, clone, queue, loops>>
        /\ pc'[t] = (IF clone[t] = None THEN "ffi_return" ELSE "tr_call")
        /\ pc[t] = "tr_unlock" /\ \A s \in Threads : s # t => pc'[s] = pc[s]
      BY <1>4 DEF Leave, LeaveSlot, mpv, TypeOK
  <2>2. cb => slot # None
      BY DEF Inv, PhaseInv
  <2>3. cb /\ Heading => Heading'
      BY <2>1, <2>2 DEF Heading
  <2> QED
      BY <2>1, <2>3 DEF Awake, queue, loops
<1>5. ASSUME NEW t \in Threads, Notify(t) PROVE LoopInv'
  <2>1. /\ UNCHANGED <<cb, slot, queue, loop>> /\ signalled' = signalled \cup {clone[t]}
        /\ pc[t] = "tr_call" /\ pc'[t] \in {"tr_dtor", "ffi_return"}
        /\ \A s \in Threads : s # t => pc'[s] = pc[s] /\ clone'[s] = clone[s]
      BY <1>5 DEF Notify, FinishCall, DropArc, mpv, TypeOK
  <2>2. Heading => Heading' \/ clone[t] = slot
      BY <2>1 DEF Heading
  <2> QED
      BY <2>1, <2>2 DEF Awake, queue
<1>6. ASSUME NEW t \in Threads, Return(t) PROVE LoopInv'
  <2>1. /\ UNCHANGED <<cb, slot, clone, queue, loops>>
        /\ pc[t] \in {"tr_dtor", "ffi_return"} /\ \A s \in Threads : s # t => pc'[s] = pc[s]
      BY <1>6 DEF Return, FinishCloneDtor, DispatchReturns, mpv, TypeOK
  <2>2. Heading => Heading'
      BY <2>1 DEF Heading
  <2> QED
      BY <2>1, <2>2 DEF Awake, queue, loops
<1>7. ASSUME NEW d \in Dispatchers, Post(d) PROVE LoopInv'
  <2>1. UNCHANGED <<cb, slot, clone, pc, needWakeup, loops>> /\ raising' # {}
      BY <1>7 DEF Post, vars, mpv
  <2> QED
      BY <2>1 DEF Awake, Heading, loops
<1>8. ASSUME NEW d \in Dispatchers, Raise(d) PROVE LoopInv'
  <2>1. CASE needWakeup \/ ~cb
    <3>1. UNCHANGED <<cb, slot, clone, pc, events, loops>> /\ needWakeup'
        BY <1>8, <2>1 DEF Raise, vars, mpv
    <3> QED
        BY <2>1, <3>1 DEF Awake, Heading, loops
  <2>2. CASE ~needWakeup /\ cb
    <3>1. pc'[d] = "tr_lock" /\ needWakeup'
        BY <1>8, <2>2 DEF Raise, Dispatch, TypeOK
    <3> QED
        BY <3>1 DEF Heading
  <2> QED
      BY <2>1, <2>2
<1>9. ASSUME NEW c \in Closures, WakeUp(c) PROVE LoopInv'
  <2>1. loop'[c] = "draining"
      BY <1>9 DEF WakeUp
  <2> QED
      BY <1>9, <2>1 DEF WakeUp, Awake, queue
<1>10. ASSUME NEW c \in Closures, PollEvent(c) PROVE LoopInv'
  <2>1. loop'[c] = "draining" /\ events > 0 /\ UNCHANGED <<needWakeup, raising>>
      BY <1>10 DEF PollEvent, loops
  <2> QED
      BY <2>1 DEF Awake
<1>11. ASSUME NEW c \in Closures, PollNone(c) PROVE LoopInv'
    BY <1>11 DEF PollNone
<1>12. CASE UNCHANGED loopVars
    BY <1>12 DEF loopVars, vars, mpv, queue, loops, Awake, Heading
<1> QED
    BY <1>1, <1>2, <1>3, <1>4, <1>5, <1>6, <1>7, <1>8, <1>9, <1>10, <1>11, <1>12
       DEF LoopNext, Dispatched, LoopStep

\* No wakeup is lost: with events queued, a callback set and libmpv at rest, a loop
\* is awake (Handle::set_wakeup_callback, Handle::poll_event).
THEOREM WakeupKept == LoopSpec => []NoLostWakeup
<1>1. LoopInit => LoopInv
    BY DEF LoopInit, Init, LoopInv
<1>2. LoopTypeOK /\ Inv /\ LoopInv => NoLostWakeup
  <2> SUFFICES ASSUME LoopTypeOK, Inv, LoopInv, slot # None, events > 0, raising = {},
                      regLock = None, \A t \in Threads : pc[t] \notin TrampolineLabels
               PROVE Awake
      BY DEF NoLostWakeup
  <2>1. \A u \in Users : pc[u] \notin RegLabels
      BY ConstantsAssumption DEF Inv, LockInv, Threads
  <2>2. cb
      BY <2>1 DEF Inv, PhaseInv, RegLabels, SetLabels, TeardownLabels
  <2>3. ~Heading
      BY <2>1 DEF Heading, RegLabels, SetLabels, TrampolineLabels
  <2> QED
      BY <2>2, <2>3 DEF LoopInv
<1> QED
    BY <1>1, <1>2, LoopInductive, LoopTyping, LoopImplementsSlot, Invariance, PTL DEF LoopSpec
=============================================================================
