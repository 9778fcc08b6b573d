------------------------------- MODULE WakeupLoop -------------------------------
(***************************************************************************)
(* The callback slot and the event queue together: a program that sleeps   *)
(* until its wakeup callback notifies it, and then drains the queue with   *)
(* poll_event (Handle::set_wakeup_callback, Handle::poll_event).           *)
(*                                                                         *)
(* libmpv raises one wakeup for any number of events: after it has raised  *)
(* one it raises no other until a poll has found the queue empty.  A       *)
(* wakeup raised while no callback is registered, or whose callback never  *)
(* runs, is therefore not repeated, and what saves a callback that is set  *)
(* late is the dispatch from inside its own registration.                  *)
(*                                                                         *)
(* Every closure notifies an event loop of its own, so that replacing the  *)
(* callback hands the queue from one loop to another.  The loops and       *)
(* libmpv are external.                                                    *)
(***************************************************************************)
EXTENDS CallbackSlot

CONSTANT MaxPosts   \* bound: events libmpv posts in a behaviour

ASSUME PostsAssumption == MaxPosts \in Nat

VARIABLES
    events,         \* number of events in the queue
    posts,          \* number of events posted so far
    raising,        \* libmpv's threads that posted, and are to raise a wakeup
    needWakeup,     \* libmpv has raised a wakeup, and no poll came back empty since
    signalled,      \* the closures that notified their loop
    loop            \* the event loop of each closure: "asleep" or "draining"

queue == <<events, posts, raising, needWakeup>>
loops == <<signalled, loop>>
loopVars == <<vars, queue, loops>>

LoopInit ==
    /\ Init
    /\ events = 0 /\ posts = 0 /\ raising = {} /\ needWakeup = FALSE
    /\ signalled = {} /\ loop = [c \in Closures |-> "asleep"]

-----------------------------------------------------------------------------
\* libmpv posts an event, and then raises a wakeup, on one of its threads.

Post(d) ==
    /\ object /\ pc[d] = "idle" /\ d \notin raising /\ posts < MaxPosts
    /\ posts' = posts + 1 /\ events' = events + 1 /\ raising' = raising \cup {d}
    /\ UNCHANGED <<vars, needWakeup, loops>>

Raise(d) ==
    /\ d \in raising /\ raising' = raising \ {d}
    /\ dispatchLock = None /\ needWakeup' = TRUE
    /\ IF needWakeup \/ ~cb THEN UNCHANGED vars ELSE Dispatch(d)
    /\ UNCHANGED <<events, posts, loops>>

-----------------------------------------------------------------------------
\* The slot's own steps

\* poll_event borrows the handle: nobody drops it under a loop that drains.
StartCall(u) ==
    /\ \/ BeginClear(u)
       \/ BeginDrop(u) /\ \A c \in Closures : loop[c] = "asleep"
       \/ \E c \in Closures : BeginSet(u, c)
    /\ UNCHANGED <<queue, loops>>

\* "libmpv raises a wakeup immediately on registration" (set_wakeup_callback).
Advance(u) ==
    /\ UserStep(u)
    /\ pc[u] = "set_ffi" => pc'[u] = "tr_lock"
    /\ UNCHANGED <<queue, loops>>

\* Mutant: the trampoline ignores a dispatch from inside the registration.
SkipNested(t) ==
    /\ IF regLock = t
       THEN Goto(t, "tr_lock", "ffi_return") /\ UNCHANGED <<owner, slot, leaked, locks,
                mpv, arg, prev, clone, fate>>
       ELSE EnterSlot(t)
    /\ UNCHANGED <<queue, loops>>

Enter(t) == EnterSlot(t) /\ UNCHANGED <<queue, loops>>
Leave(t) == LeaveSlot(t) /\ UNCHANGED <<queue, loops>>

\* The closure sets its loop's flag.
Notify(t) ==
    /\ FinishCall(t)
    /\ signalled' = signalled \cup {clone[t]}
    /\ UNCHANGED <<queue, loop>>

Return(t) ==
    /\ FinishCloneDtor(t) \/ (t \in Dispatchers /\ DispatchReturns(t))
    /\ UNCHANGED <<queue, loops>>

-----------------------------------------------------------------------------
\* The event loops

WakeUp(c) ==
    /\ owner = "alive" /\ c \in signalled /\ loop[c] = "asleep"
    /\ signalled' = signalled \ {c} /\ loop' = [loop EXCEPT ![c] = "draining"]
    /\ UNCHANGED <<vars, queue>>

PollEvent(c) ==
    /\ loop[c] = "draining" /\ events > 0 /\ events' = events - 1
    /\ UNCHANGED <<vars, posts, raising, needWakeup, loops>>

\* An empty queue: poll_event returns None, libmpv arms the next wakeup under the
\* lock of its dispatches, and the loop goes to sleep.
PollNone(c) ==
    /\ loop[c] = "draining" /\ events = 0 /\ dispatchLock = None
    /\ needWakeup' = FALSE /\ loop' = [loop EXCEPT ![c] = "asleep"]
    /\ UNCHANGED <<vars, events, posts, raising, signalled>>

-----------------------------------------------------------------------------
LoopStep(c) == WakeUp(c) \/ PollEvent(c) \/ PollNone(c)
Dispatched(t) == Enter(t) \/ Leave(t) \/ Notify(t) \/ Return(t)

LoopNext ==
    \/ \E u \in Users : StartCall(u) \/ Advance(u)
    \/ \E t \in Threads : Dispatched(t)
    \/ \E d \in Dispatchers : Post(d) \/ Raise(d)
    \/ \E c \in Closures : LoopStep(c)

LoopSpec == LoopInit /\ [][LoopNext]_loopVars

\* Threads of the program and of libmpv run; nobody is obliged to call or to post.
LoopFairSpec ==
    /\ LoopSpec
    /\ \A u \in Users : WF_loopVars(Advance(u) \/ Dispatched(u))
    /\ \A d \in Dispatchers : WF_loopVars(Raise(d) \/ Dispatched(d))
    /\ \A c \in Closures : WF_loopVars(LoopStep(c))

-----------------------------------------------------------------------------
\* Properties

LoopTypeOK ==
    /\ TypeOK
    /\ events \in Nat /\ posts \in 0..MaxPosts /\ raising \subseteq Dispatchers
    /\ needWakeup \in BOOLEAN /\ signalled \subseteq Closures
    /\ loop \in [Closures -> {"asleep", "draining"}]

\* Somebody will look at the queue: the current callback's loop was notified, or
\* a loop is draining already.
Awake == slot \in signalled \/ \E c \in Closures : loop[c] = "draining"

\* No wakeup is lost: whenever events are queued, a callback is set and libmpv has
\* nothing left to raise or to dispatch, a loop is awake, though the events may be
\* older than the callback and one wakeup stood for several of them
\* (set_wakeup_callback, poll_event).
NoLostWakeup ==
    /\ slot # None /\ events > 0 /\ raising = {}
    /\ regLock = None /\ \A t \in Threads : pc[t] \notin TrampolineLabels
    => Awake

\* A callback that stays set gets every event read: the queue is empty again and
\* again, whoever set it and whatever it replaced.
QueueDrained == <>[](slot # None) => []<>(events = 0)
=============================================================================
