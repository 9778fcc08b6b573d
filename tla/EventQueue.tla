------------------------------- MODULE EventQueue -------------------------------
(***************************************************************************)
(* Reading a handle's events: Handle::poll_event, which several threads    *)
(* may call through a shared reference, Mpv::wait_event, which needs the   *)
(* handle exclusively, and the decode of libmpv's event to an owned one    *)
(* (Event::from_raw).                                                      *)
(*                                                                         *)
(* libmpv returns a pointer to one event struct per handle, valid until    *)
(* the next mpv_wait_event call.  The decode reads it more than once (the  *)
(* kind first, then the fields and the data the kind implies), so another  *)
(* call in between would hand out a mixture of two events.  libmpv's queue *)
(* and event struct are external; the crate's event_lock, borrow rules and *)
(* decode are what keeps the promise of EventStream.                       *)
(***************************************************************************)
EXTENDS Naturals, Sequences, FiniteSets

CONSTANTS
    Threads,        \* threads that share the handle
    None,           \* no thread
    Capacity,       \* the length of libmpv's event queue
    MaxPosts        \* bound: events libmpv posts in a behaviour

ASSUME EventAssumption ==
    Capacity \in Nat \ {0} /\ MaxPosts \in Nat /\ None \notin Threads

\* "bare" events carry no data, "data" events do, and a "failed" reply has an
\* error status: its data must not be looked at.
Kinds == {"bare", "data", "failed"}
PostedEvent == [id : 1..MaxPosts, kind : Kinds]
Result == [id : 0..MaxPosts, kind : Kinds \cup {"none", "overflow"}, data : 0..MaxPosts]
OwnedEvent == {r \in Result : r.kind # "none"}
NoEvent == [id |-> 0, kind |-> "none"]
Overflow == [id |-> 0, kind |-> "overflow"]
RawEvent == PostedEvent \cup {NoEvent, Overflow}

\* The owned copy of a raw event: its own data if it has any that may be read.
Copy(k, ev) == [id |-> ev.id, kind |-> k, data |-> IF k = "data" THEN ev.id ELSE 0]
Owned(ev) == Copy(ev.kind, ev)

VARIABLES
    queue,          \* libmpv's queue of the handle
    lost,           \* libmpv dropped an event and has not reported it yet
    posts,          \* number of events libmpv posted
    wakeupQueued,   \* mpv_wakeup was called and has not interrupted a wait yet
    storage,        \* the event struct the last mpv_wait_event filled
    eventLock,      \* holder of Handle::event_lock
    exclusive,      \* the thread that has the handle as &mut
    pc,             \* where each thread is
    mine,           \* the event that mpv_wait_event returned to the thread
    kind,           \* the kind the decode matched on
    result,         \* the decoded event; the copy of NoEvent stands for None
    delivered       \* what each thread's calls returned, in order

mpv == <<queue, lost, posts, wakeupQueued, storage>>
vars == <<mpv, eventLock, exclusive, pc, mine, kind, result, delivered>>

Init ==
    /\ queue = <<>> /\ lost = FALSE /\ posts = 0 /\ wakeupQueued = FALSE
    /\ storage = NoEvent /\ eventLock = None /\ exclusive = None
    /\ pc = [t \in Threads |-> "idle"]
    /\ mine = [t \in Threads |-> NoEvent]
    /\ kind = [t \in Threads |-> "none"]
    /\ result = [t \in Threads |-> Owned(NoEvent)]
    /\ delivered = [t \in Threads |-> <<>>]

Goto(t, from, to) == pc[t] = from /\ pc' = [pc EXCEPT ![t] = to]

-----------------------------------------------------------------------------
\* libmpv

Post(k) ==
    /\ posts < MaxPosts /\ posts' = posts + 1
    /\ IF Len(queue) < Capacity
       THEN queue' = Append(queue, [id |-> posts', kind |-> k]) /\ UNCHANGED lost
       ELSE lost' = TRUE /\ UNCHANGED queue
    /\ UNCHANGED <<wakeupQueued, storage, eventLock, exclusive, pc, mine, kind, result, delivered>>

\* mpv_wait_event returns to t: the next event, the report of lost ones, or none.
ReturnEvent(t, from) ==
    /\ Goto(t, from, "match")
    /\ \/ queue # <<>> /\ storage' = Head(queue) /\ queue' = Tail(queue) /\ UNCHANGED lost
       \/ queue = <<>> /\ lost /\ storage' = Overflow /\ lost' = FALSE /\ UNCHANGED queue
       \/ /\ queue = <<>> /\ ~lost /\ (from = "wait_forever" => wakeupQueued)
          /\ storage' = NoEvent /\ UNCHANGED <<queue, lost>>
    /\ wakeupQueued' = FALSE
    /\ mine' = [mine EXCEPT ![t] = storage']
    /\ UNCHANGED <<posts, eventLock, exclusive, kind, result, delivered>>

-----------------------------------------------------------------------------
\* The three calls of the crate, and the borrow each needs

BeginPoll(t) ==
    /\ exclusive = None
    /\ Goto(t, "idle", "lock")
    /\ UNCHANGED <<mpv, eventLock, exclusive, mine, kind, result, delivered>>

BeginWait(t, label) ==
    /\ exclusive = None /\ \A s \in Threads : pc[s] = "idle"
    /\ Goto(t, "idle", label)
    /\ exclusive' = t
    /\ UNCHANGED <<mpv, eventLock, mine, kind, result, delivered>>

Wakeup(t) ==
    /\ exclusive = None /\ pc[t] = "idle"
    /\ wakeupQueued' = TRUE
    /\ UNCHANGED <<queue, lost, posts, storage, eventLock, exclusive, pc, mine, kind, result,
                   delivered>>

\* Mutant: poll_event without event_lock.
PollUnlocked(t) ==
    /\ Goto(t, "lock", "poll")
    /\ UNCHANGED <<mpv, eventLock, exclusive, mine, kind, result, delivered>>

LockForPoll(t) ==
    /\ eventLock = None
    /\ Goto(t, "lock", "poll")
    /\ eventLock' = t
    /\ UNCHANGED <<mpv, exclusive, mine, kind, result, delivered>>

\* Mutant: the guard is dropped once mpv_wait_event returned.
PollThenUnlock(t) ==
    /\ Goto(t, "poll", "match")
    /\ \/ queue # <<>> /\ storage' = Head(queue) /\ queue' = Tail(queue) /\ UNCHANGED lost
       \/ queue = <<>> /\ lost /\ storage' = Overflow /\ lost' = FALSE /\ UNCHANGED queue
       \/ queue = <<>> /\ ~lost /\ storage' = NoEvent /\ UNCHANGED <<queue, lost>>
    /\ wakeupQueued' = FALSE /\ eventLock' = None
    /\ mine' = [mine EXCEPT ![t] = storage']
    /\ UNCHANGED <<posts, exclusive, kind, result, delivered>>

\* Mutant: a negative timeout, which waits for an event or a wakeup.
PollWaits(t) == ReturnEvent(t, "poll") /\ (queue # <<>> \/ lost \/ wakeupQueued)

\* mpv_wait_event(raw, 0.0), which never waits.
Poll(t) == ReturnEvent(t, "poll")

\* mpv_wait_event(raw, timeout): a positive timeout may end it without an event,
\* a negative one waits until there is one or until mpv_wakeup.
Wait(t) == ReturnEvent(t, "wait") \/ ReturnEvent(t, "wait_forever")

-----------------------------------------------------------------------------
\* Event::from_raw

MatchKind(t) ==
    /\ Goto(t, "match", "copy")
    /\ kind' = [kind EXCEPT ![t] = storage.kind]
    /\ UNCHANGED <<mpv, eventLock, exclusive, mine, result, delivered>>

\* The fields are read through the same pointer, as the matched kind's type.
CopyFields(t) ==
    /\ Goto(t, "copy", "return")
    /\ result' = [result EXCEPT ![t] = Copy(kind[t], storage)]
    /\ UNCHANGED <<mpv, eventLock, exclusive, mine, kind, delivered>>

\* The call returns Some(event), unless the event is MPV_EVENT_NONE.  Its guard or
\* its exclusive borrow ends here.
End(t, returned) ==
    /\ Goto(t, "return", "idle")
    /\ eventLock' = IF eventLock = t THEN None ELSE eventLock
    /\ exclusive' = IF exclusive = t THEN None ELSE exclusive
    /\ delivered' = IF returned THEN [delivered EXCEPT ![t] = Append(@, result[t])]
                    ELSE delivered
    /\ mine' = [mine EXCEPT ![t] = NoEvent]
    /\ kind' = [kind EXCEPT ![t] = "none"]
    /\ result' = [result EXCEPT ![t] = Owned(NoEvent)]
    /\ UNCHANGED mpv

\* Mutant: an event without data is taken for no event.
SkipBare(t) == End(t, result[t].kind \notin {"none", "bare"})

Return(t) == End(t, result[t].kind # "none")

-----------------------------------------------------------------------------
NewCall ==
    \E t \in Threads :
        \/ BeginPoll(t) \/ Wakeup(t)
        \/ \E label \in {"wait", "wait_forever"} : BeginWait(t, label)
Step(t) ==
    LockForPoll(t) \/ Poll(t) \/ Wait(t) \/ MatchKind(t) \/ CopyFields(t) \/ Return(t)

Next == NewCall \/ (\E k \in Kinds : Post(k)) \/ (\E t \in Threads : Step(t))

Spec == Init /\ [][Next]_vars

\* Every thread that can run keeps running; nobody is obliged to call or to post.
FairSpec == Spec /\ \A t \in Threads : WF_vars(Step(t))
-----------------------------------------------------------------------------
\* Properties

\* Every variable has its type; MPV_EVENT_NONE is never returned as an event.
TypeOK ==
    /\ queue \in Seq(PostedEvent) /\ Len(queue) <= Capacity
    /\ lost \in BOOLEAN /\ posts \in 0..MaxPosts /\ wakeupQueued \in BOOLEAN
    /\ storage \in RawEvent
    /\ eventLock \in Threads \cup {None} /\ exclusive \in Threads \cup {None}
    /\ pc \in [Threads -> {"idle", "lock", "poll", "wait", "wait_forever", "match", "copy", "return"}]
    /\ mine \in [Threads -> RawEvent]
    /\ kind \in [Threads -> Kinds \cup {"none", "overflow"}]
    /\ result \in [Threads -> Result]
    /\ delivered \in [Threads -> Seq(OwnedEvent)]

\* While a call decodes, the event struct still holds the event its own
\* mpv_wait_event returned: no other call on the handle has replaced it.
DecodeReadsLive ==
    \A t \in Threads : pc[t] \in {"match", "copy"} => storage = mine[t]

\* libmpv's rule: one thread at a time in mpv_wait_event on a handle.
InWaitEvent(t) == pc[t] \in {"poll", "wait", "wait_forever", "match", "copy"}
OneWaiter == \A s, t \in Threads : InWaitEvent(s) /\ InWaitEvent(t) => s = t

\* Once no new calls come, every call returns; a wait without a timeout returns if
\* there is an event to return or a wakeup.
CallsEnd ==
    <>[][~NewCall]_vars => \A t \in Threads :
        (pc[t] # "idle" /\ (pc[t] = "wait_forever" => queue # <<>> \/ wakeupQueued))
            ~> pc[t] = "idle"

\* What t has received: what its calls returned, and the event it is decoding.
Received(t) ==
    delivered[t] \o IF pc[t] \in {"match", "copy", "return"} /\ mine[t].kind # "none"
                    THEN <<Owned(mine[t])>> ELSE <<>>

\* Events are handed out as EventStream promises: whole, in order, each to one
\* caller, and none between the queue and a caller's return value is lost.
Stream == INSTANCE EventStream WITH got <- [t \in Threads |-> Received(t)]
StreamSpec == Stream!Spec
=============================================================================
