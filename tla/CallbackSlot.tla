----------------------------- MODULE CallbackSlot -----------------------------
(***************************************************************************)
(* The callback cell whose address libmpv is given (src/rsmpv/src/slot.rs) *)
(* and the two wrappers that use it: the wakeup callback of a Handle       *)
(* (lib.rs) and the update callback of a render context (render.rs).       *)
(*                                                                         *)
(* A call of set or teardown is a thread walking through program points;   *)
(* the mutexes hold the thread that owns them.  libmpv's side is external: *)
(* a registration that may dispatch synchronously on the registering       *)
(* thread, dispatches on threads of its own, and a destroy call.  An       *)
(* Arc<dyn Fn()> is a closure with its owners: the slot, the `previous`    *)
(* and `callback` locals of set and teardown, and the clones of running    *)
(* trampolines.  It is released when the last owner lets go of it.         *)
(***************************************************************************)
EXTENDS Naturals, FiniteSets

CONSTANTS
    Users,          \* threads of the program that share the owning handle
    Dispatchers,    \* libmpv threads that dispatch the callback
    Closures,       \* the closures passed to set, each at most once
    None,           \* no closure, and no owner of a lock
    DispatchLock    \* TRUE: libmpv serialises dispatches and registrations
                    \* FALSE: only what its header promises

Threads == Users \cup Dispatchers
Maybe(S) == S \cup {None}

ASSUME ConstantsAssumption ==
    /\ DispatchLock \in BOOLEAN
    /\ None \notin Threads \cup Closures
    /\ Users \cap Dispatchers = {}

VARIABLES
    owner,          \* the owning wrapper: "alive", "dropping" (in Drop), "gone"
    slot,           \* the closure stored in Mutex<Option<Callback>>
    slotLock,       \* holder of that mutex
    regLock,        \* holder of the registration mutex
    leaked,         \* its bool: libmpv's leaked Arc of the slot exists
    cb,             \* libmpv has the trampoline registered
    object,         \* the mpv handle or render context is not yet destroyed
    dispatchLock,   \* holder of libmpv's own lock (None if ~DispatchLock)
    pc,             \* where each thread is
    arg,            \* the closure passed to a running set
    prev,           \* the closure a set replaced or a teardown took
    clone,          \* the trampoline's own Arc
    fate            \* "unused", "live" or "dropped" closure

locks == <<slotLock, regLock, dispatchLock>>
mpv == <<cb, object>>
vars == <<owner, slot, leaked, locks, mpv, pc, arg, prev, clone, fate>>

\* Points of the trampoline, of set and of teardown.
TrampolineLabels == {"tr_lock", "tr_unlock", "tr_call", "tr_dtor", "ffi_return"}
SetLabels == {"set_lock", "set_store", "set_stored", "set_ffi", "set_done"}
TeardownLabels == {"td_lock", "td_ffi", "td_take", "td_taken", "td_unlock"}
ReleaseLabels == {"release", "dtor"}
DropLabels == {"destroy", "fields"}
RegLabels == (SetLabels \cup TeardownLabels \cup TrampolineLabels) \ {"set_lock", "td_lock"}
UserLabels == {"idle"} \cup TrampolineLabels \cup SetLabels \cup TeardownLabels
                       \cup ReleaseLabels \cup DropLabels

Init ==
    /\ owner = "alive" /\ slot = None /\ leaked = FALSE
    /\ slotLock = None /\ regLock = None /\ dispatchLock = None
    /\ cb = FALSE /\ object = TRUE
    /\ pc = [t \in Threads |-> "idle"]
    /\ arg = [u \in Users |-> None] /\ prev = [u \in Users |-> None]
    /\ clone = [t \in Threads |-> None]
    /\ fate = [c \in Closures |-> "unused"]

Goto(t, from, to) == pc[t] = from /\ pc' = [pc EXCEPT ![t] = to]

\* Some owner still has an Arc of c, given the slot, the locals and the clones.
Referenced(c, s, pv, cl) ==
    s = c \/ (\E u \in Users : pv[u] = c) \/ (\E t \in Threads : cl[t] = c)

\* Mutant: the closure is a Box, not an Arc, and dies with its first owner.
DropUnshared(t, c, s, pv, cl, dtor, next) ==
    IF c = None
    THEN Goto(t, pc[t], next) /\ UNCHANGED fate
    ELSE Goto(t, pc[t], dtor) /\ fate' = [fate EXCEPT ![c] = "dropped"]

\* Drop one Arc of c, the owners left being those of s, pv and cl: the last one
\* runs the closure's destructor (point dtor), any other just goes on (next).
DropArc(t, c, s, pv, cl, dtor, next) ==
    IF c = None \/ Referenced(c, s, pv, cl)
    THEN Goto(t, pc[t], next) /\ UNCHANGED fate
    ELSE Goto(t, pc[t], dtor) /\ fate' = [fate EXCEPT ![c] = "dropped"]

-----------------------------------------------------------------------------
\* CallbackSlot::set

BeginSet(u, c) ==
    /\ owner = "alive" /\ fate[c] = "unused"
    /\ Goto(u, "idle", "set_lock")
    /\ arg' = [arg EXCEPT ![u] = c]
    /\ fate' = [fate EXCEPT ![c] = "live"]
    /\ UNCHANGED <<owner, slot, leaked, locks, mpv, prev, clone>>

\* Mutant: libmpv borrows the slot of the owner.
LockWithoutLeak(u) ==
    /\ regLock = None
    /\ Goto(u, "set_lock", "set_store")
    /\ regLock' = u
    /\ UNCHANGED <<owner, slot, leaked, slotLock, dispatchLock, mpv, arg, prev, clone, fate>>

\* Take the registration lock; the first time, leak libmpv's Arc of the slot.
LockForSet(u) ==
    /\ regLock = None
    /\ Goto(u, "set_lock", "set_store")
    /\ regLock' = u /\ leaked' = TRUE
    /\ UNCHANGED <<owner, slot, slotLock, dispatchLock, mpv, arg, prev, clone, fate>>

\* Mutant: get_or_insert instead of replace.
StoreIfEmpty(u) ==
    /\ slotLock = None
    /\ Goto(u, "set_store", "set_stored")
    /\ slotLock' = u /\ slot' = IF slot = None THEN arg[u] ELSE slot
    /\ UNCHANGED <<owner, leaked, regLock, dispatchLock, mpv, arg, prev, clone, fate>>

\* Mutant: `*guard = Some(..)`, which drops the replaced closure in place.
StoreDropsOld(u) ==
    /\ slotLock = None /\ pc[u] = "set_store"
    /\ slotLock' = u /\ slot' = arg[u]
    /\ DropArc(u, slot, slot', prev, clone, "dtor", "set_stored")
    /\ UNCHANGED <<owner, leaked, regLock, dispatchLock, mpv, arg, prev, clone>>

StoreClosure(u) ==
    /\ slotLock = None
    /\ Goto(u, "set_store", "set_stored")
    /\ slotLock' = u /\ slot' = arg[u]
    /\ prev' = [prev EXCEPT ![u] = slot]
    /\ UNCHANGED <<owner, leaked, regLock, dispatchLock, mpv, arg, clone, fate>>

\* Mutant: the guard is a named local that lives across the registration.
KeepSlotLocked(u) ==
    /\ Goto(u, "set_stored", "set_ffi")
    /\ UNCHANGED <<owner, slot, leaked, locks, mpv, arg, prev, clone, fate>>

\* The slot's guard is a temporary of the storing statement.
UnlockStored(u) ==
    /\ Goto(u, "set_stored", "set_ffi")
    /\ slotLock' = None
    /\ UNCHANGED <<owner, slot, leaked, regLock, dispatchLock, mpv, arg, prev, clone, fate>>

\* Hold libmpv's lock, where it has one.
EnterMpv(t) == dispatchLock = None /\ dispatchLock' = IF DispatchLock THEN t ELSE None

\* libmpv registers the trampoline and may dispatch it at once, on this thread.
Register(u) ==
    /\ EnterMpv(u)
    /\ \E next \in {"tr_lock", "ffi_return"} : Goto(u, "set_ffi", next)
    /\ cb' = TRUE
    /\ UNCHANGED <<owner, slot, leaked, slotLock, regLock, object, arg, prev, clone, fate>>

RegisterReturns(u) ==
    /\ Goto(u, "ffi_return", "set_done")
    /\ dispatchLock' = None
    /\ UNCHANGED <<owner, slot, leaked, slotLock, regLock, mpv, arg, prev, clone, fate>>

UnlockSet(u) ==
    /\ Goto(u, "set_done", "release")
    /\ regLock' = None /\ arg' = [arg EXCEPT ![u] = None]
    /\ UNCHANGED <<owner, slot, leaked, slotLock, dispatchLock, mpv, prev, clone, fate>>

\* Drop for Mpv, Client or RenderInner goes on to the wrapper's other fields.
AfterRelease == IF owner = "dropping" THEN "fields" ELSE "idle"

\* Mutant: forget(previous)
Forget(u) ==
    /\ Goto(u, "release", AfterRelease)
    /\ prev' = [prev EXCEPT ![u] = None]
    /\ UNCHANGED <<owner, slot, leaked, locks, mpv, arg, clone, fate>>

\* drop(previous) in set, drop(callback) in teardown
Release(u) ==
    /\ pc[u] = "release"
    /\ prev' = [prev EXCEPT ![u] = None]
    /\ DropArc(u, prev[u], slot, prev', clone, "dtor", AfterRelease)
    /\ UNCHANGED <<owner, slot, leaked, locks, mpv, arg, clone>>

\* The destructor returns or panics: a caller that unwinds drops the same fields.
FinishDtor(u) ==
    /\ Goto(u, "dtor", AfterRelease)
    /\ UNCHANGED <<owner, slot, leaked, locks, mpv, arg, prev, clone, fate>>

-----------------------------------------------------------------------------
\* CallbackSlot::teardown, from clear_wakeup_callback and from the Drop impls

BeginClear(u) ==
    /\ owner = "alive"
    /\ Goto(u, "idle", "td_lock")
    /\ UNCHANGED <<owner, slot, leaked, locks, mpv, arg, prev, clone, fate>>

\* Drop has the wrapper to itself: no other call borrows it.
BeginDrop(u) ==
    /\ owner = "alive" /\ \A v \in Users : pc[v] = "idle"
    /\ Goto(u, "idle", "td_lock")
    /\ owner' = "dropping"
    /\ UNCHANGED <<slot, leaked, locks, mpv, arg, prev, clone, fate>>

\* Mutant: a teardown that relies on the slot lock alone.
TeardownUnlocked(u) ==
    /\ Goto(u, "td_lock", "td_ffi")
    /\ UNCHANGED <<owner, slot, leaked, locks, mpv, arg, prev, clone, fate>>

LockForTeardown(u) ==
    /\ regLock = None
    /\ Goto(u, "td_lock", "td_ffi")
    /\ regLock' = u
    /\ UNCHANGED <<owner, slot, leaked, slotLock, dispatchLock, mpv, arg, prev, clone, fate>>

\* Mutant: the slot is emptied while libmpv still has the trampoline.
SkipUnregister(u) ==
    /\ Goto(u, "td_ffi", "td_take")
    /\ UNCHANGED <<owner, slot, leaked, locks, mpv, arg, prev, clone, fate>>

\* Waits for libmpv's lock, so for a dispatch in progress where there is one.
Unregister(u) ==
    /\ dispatchLock = None
    /\ Goto(u, "td_ffi", "td_take")
    /\ cb' = FALSE
    /\ UNCHANGED <<owner, slot, leaked, locks, object, arg, prev, clone, fate>>

\* Mutant: clone() instead of take()
TakeCopy(u) ==
    /\ slotLock = None
    /\ Goto(u, "td_take", "td_taken")
    /\ slotLock' = u
    /\ prev' = [prev EXCEPT ![u] = slot]
    /\ UNCHANGED <<owner, slot, leaked, regLock, dispatchLock, mpv, arg, clone, fate>>

TakeClosure(u) ==
    /\ slotLock = None
    /\ Goto(u, "td_take", "td_taken")
    /\ slotLock' = u /\ slot' = None
    /\ prev' = [prev EXCEPT ![u] = slot]
    /\ UNCHANGED <<owner, leaked, regLock, dispatchLock, mpv, arg, clone, fate>>

UnlockTaken(u) ==
    /\ Goto(u, "td_taken", "td_unlock")
    /\ slotLock' = None
    /\ UNCHANGED <<owner, slot, leaked, regLock, dispatchLock, mpv, arg, prev, clone, fate>>

\* Mutant: clear runs the wrapper's destroy.
ClearDestroys(u) ==
    /\ Goto(u, "td_unlock", "destroy")
    /\ regLock' = None
    /\ UNCHANGED <<owner, slot, leaked, slotLock, dispatchLock, mpv, arg, prev, clone, fate>>

\* Mutant: the closure is released before the destroy call.
ReleaseFirst(u) ==
    /\ Goto(u, "td_unlock", "release")
    /\ regLock' = None
    /\ UNCHANGED <<owner, slot, leaked, slotLock, dispatchLock, mpv, arg, prev, clone, fate>>

\* clear passes a destroy that does nothing.
UnlockTeardown(u) ==
    /\ Goto(u, "td_unlock", IF owner = "dropping" THEN "destroy" ELSE "release")
    /\ regLock' = None
    /\ UNCHANGED <<owner, slot, leaked, slotLock, dispatchLock, mpv, arg, prev, clone, fate>>

\* mpv_terminate_destroy, mpv_destroy or mpv_render_context_free
Destroy(u) ==
    /\ Goto(u, "destroy", "release")
    /\ object' = FALSE
    /\ UNCHANGED <<owner, slot, leaked, locks, cb, arg, prev, clone, fate>>

\* The fields drop after the Drop body, the owner's Arc of the slot among them.
DropFields(u) ==
    /\ Goto(u, "fields", "idle")
    /\ owner' = "gone"
    /\ UNCHANGED <<slot, leaked, locks, mpv, arg, prev, clone, fate>>

-----------------------------------------------------------------------------
\* CallbackSlot::trampoline, on a dispatcher or on a thread inside Register

EnterSlot(t) ==
    /\ slotLock = None
    /\ Goto(t, "tr_lock", "tr_unlock")
    /\ slotLock' = t
    /\ clone' = [clone EXCEPT ![t] = slot]
    /\ UNCHANGED <<owner, slot, leaked, regLock, dispatchLock, mpv, arg, prev, fate>>

\* Mutant: the closure is called through the guard.
CallLocked(t) ==
    /\ Goto(t, "tr_unlock", IF clone[t] = None THEN "ffi_return" ELSE "tr_call")
    /\ slotLock' = IF clone[t] = None THEN None ELSE t
    /\ UNCHANGED <<owner, slot, leaked, regLock, dispatchLock, mpv, arg, prev, clone, fate>>

LeaveSlot(t) ==
    /\ Goto(t, "tr_unlock", IF clone[t] = None THEN "ffi_return" ELSE "tr_call")
    /\ slotLock' = None
    /\ UNCHANGED <<owner, slot, leaked, regLock, dispatchLock, mpv, arg, prev, clone, fate>>

\* The closure returns or panics; either way catch_unwind drops the clone.
FinishCall(t) ==
    /\ pc[t] = "tr_call"
    /\ clone' = [clone EXCEPT ![t] = None]
    /\ DropArc(t, clone[t], slot, prev, clone', "tr_dtor", "ffi_return")
    /\ UNCHANGED <<owner, slot, leaked, locks, mpv, arg, prev>>

FinishCloneDtor(t) ==
    /\ Goto(t, "tr_dtor", "ffi_return")
    /\ UNCHANGED <<owner, slot, leaked, locks, mpv, arg, prev, clone, fate>>

\* libmpv commits to calling the registered trampoline on a thread of its own.
Dispatch(d) ==
    /\ cb /\ object /\ EnterMpv(d)
    /\ Goto(d, "idle", "tr_lock")
    /\ UNCHANGED <<owner, slot, leaked, slotLock, regLock, mpv, arg, prev, clone, fate>>

DispatchReturns(d) ==
    /\ Goto(d, "ffi_return", "idle")
    /\ dispatchLock' = None
    /\ UNCHANGED <<owner, slot, leaked, slotLock, regLock, mpv, arg, prev, clone, fate>>

-----------------------------------------------------------------------------
\* What a thread does once its call or dispatch has begun.
UserStep(u) ==
    \/ LockForSet(u) \/ StoreClosure(u) \/ UnlockStored(u) \/ Register(u)
    \/ RegisterReturns(u) \/ UnlockSet(u) \/ Release(u) \/ FinishDtor(u)
    \/ LockForTeardown(u) \/ Unregister(u) \/ TakeClosure(u) \/ UnlockTaken(u)
    \/ UnlockTeardown(u) \/ Destroy(u) \/ DropFields(u)
Trampoline(t) == EnterSlot(t) \/ LeaveSlot(t) \/ FinishCall(t) \/ FinishCloneDtor(t)

NewCall ==
    \/ \E u \in Users : BeginClear(u) \/ BeginDrop(u) \/ \E c \in Closures : BeginSet(u, c)
    \/ \E d \in Dispatchers : Dispatch(d)

Next ==
    \/ NewCall
    \/ \E u \in Users : UserStep(u)
    \/ \E t \in Threads : Trampoline(t)
    \/ \E d \in Dispatchers : DispatchReturns(d)

Spec == Init /\ [][Next]_vars

\* Every thread that can run keeps running; nobody is obliged to call.
Fairness ==
    /\ \A u \in Users : WF_vars(UserStep(u) \/ Trampoline(u))
    /\ \A d \in Dispatchers : WF_vars(DispatchReturns(d) \/ Trampoline(d))
FairSpec == Spec /\ Fairness

-----------------------------------------------------------------------------
\* Properties

\* Every variable has its type; only a thread in Drop ever reaches the destroy
\* call of the wrapper (clear_wakeup_callback never destroys the player), and a
\* dispatcher is never anywhere but in the trampoline.
TypeOK ==
    /\ owner \in {"alive", "dropping", "gone"}
    /\ slot \in Maybe(Closures) /\ leaked \in BOOLEAN
    /\ slotLock \in Maybe(Threads) /\ regLock \in Maybe(Users)
    /\ dispatchLock \in Maybe(Threads)
    /\ cb \in BOOLEAN /\ object \in BOOLEAN
    /\ pc \in [Threads -> UserLabels]
    /\ arg \in [Users -> Maybe(Closures)] /\ prev \in [Users -> Maybe(Closures)]
    /\ clone \in [Threads -> Maybe(Closures)]
    /\ fate \in [Closures -> {"unused", "live", "dropped"}]
    /\ \A d \in Dispatchers : pc[d] \in {"idle"} \cup TrampolineLabels
    /\ \A u \in Users : pc[u] \in DropLabels => owner # "alive"

\* A trampoline never reads the slot after its memory is freed, however late
\* libmpv enters it: the allocation is kept by the owner or by the leaked Arc.
SlotMemoryValid ==
    \A t \in Threads : pc[t] \in {"tr_lock", "tr_unlock"} => leaked \/ owner # "gone"

\* Reference counts and owners agree: a closure that is stored, removed but not
\* yet released, or being invoked has not been dropped, and one that has not been
\* dropped has such an owner (or is the argument of a set that has not stored it).
NoUseAfterRelease ==
    \A c \in Closures : Referenced(c, slot, prev, clone) => fate[c] = "live"
NothingLeaks ==
    \A c \in Closures : fate[c] = "live" =>
        Referenced(c, slot, prev, clone) \/ \E u \in Users : arg[u] = c

\* Whenever no set or teardown is between its two halves, libmpv's registration
\* and the stored closure agree, however many threads set and clear at once.
RegisteredAgrees ==
    (\A u \in Users : pc[u] \notin RegLabels) => (cb <=> slot # None)

\* A dispatch that libmpv makes from inside the registration call runs the closure
\* being set, not the one it replaces.
SyncDispatchSeesNew ==
    \A u \in Users : pc[u] \in {"tr_unlock", "tr_call"} => clone[u] = arg[u]

\* Where libmpv serialises dispatches and registrations, a dispatch always finds a
\* closure: unregister comes before take.
PromisedClosure ==
    DispatchLock => \A t \in Threads : pc[t] = "tr_unlock" => clone[t] # None

\* User code (a closure's body or its destructor) never runs on a thread that holds
\* the slot lock, and a destructor never on one that holds the registration lock:
\* a destructor that sets or clears the callback again cannot deadlock.
UserCodeUnlocked ==
    \A t \in Threads :
        /\ pc[t] \in {"tr_call", "tr_dtor", "dtor"} => slotLock # t
        /\ pc[t] \in {"tr_dtor", "dtor"} => regLock # t

\* In Drop, the libmpv object is destroyed before the removed closure is released,
\* so a destructor that panics cannot skip the destruction the other fields rely on.
TeardownDestroysFirst ==
    /\ \A u \in Users : owner = "dropping" /\ pc[u] \in {"release", "dtor", "fields"} => ~object
    /\ owner = "gone" => ~object /\ slot = None /\ ~cb

\* t stands at the acquisition of a lock that u holds.
WaitsFor(t, u) ==
    \/ pc[t] \in {"set_lock", "td_lock"} /\ regLock = u
    \/ pc[t] \in {"set_store", "td_take", "tr_lock"} /\ slotLock = u
    \/ pc[t] \in {"set_ffi", "td_ffi"} /\ dispatchLock = u

\* No threads wait only for each other (one that waits for itself included), and
\* what a thread waits for is held by a call that is still running: the three locks
\* are taken in one order, registration, libmpv's own, slot, on every path of set,
\* teardown and the trampoline, a dispatch from inside the registration included.
NoCircularWait ==
    /\ \A t, u \in Threads : WaitsFor(t, u) => pc[u] # "idle"
    /\ \A S \in SUBSET Threads : S # {} => \E t \in S : \A u \in S : ~WaitsFor(t, u)

\* Once the program and libmpv stop making new calls and dispatches, every thread
\* comes back.
OpsReturn ==
    <>[][~NewCall]_vars => \A t \in Threads : (pc[t] # "idle") ~> (pc[t] = "idle")

\* The closures that have been in the slot, and those that have been released.
EverStored ==
    {c \in Closures : fate[c] # "unused" /\ \A u \in Users :
        arg[u] = c => pc[u] \notin {"set_lock", "set_store"}}
Dropped == {c \in Closures : fate[c] = "dropped"}

\* The slot implements the cell without locks and reference counts: what it stores
\* and what its trampolines run is what CallbackCell allows at that moment, and a
\* closure is freed when and only when the cell may free it.
Cell == INSTANCE CallbackCell WITH
    current <- slot, running <- clone, set <- EverStored, freed <- Dropped,
    closed <- (owner = "gone")
CellSpec == Cell!Spec
=============================================================================
