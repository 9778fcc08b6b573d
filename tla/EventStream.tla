------------------------------ MODULE EventStream ------------------------------
(***************************************************************************)
(* What a handle promises to the threads that read its events: libmpv's    *)
(* bounded queue is handed out one event at a time, in order, each event   *)
(* to exactly one caller and as a whole; when the queue was full, a caller *)
(* is told once that events are missing.                                   *)
(***************************************************************************)
EXTENDS Naturals, Sequences

CONSTANTS
    Threads,        \* the callers
    Kinds,          \* the kinds of events libmpv posts
    Capacity,       \* the length of libmpv's queue
    MaxPosts,       \* bound: events posted in a behaviour
    Owned(_),       \* the owned copy of a raw event
    Overflow        \* the raw event that reports missing ones

VARIABLES
    queue,          \* the events not handed out yet
    lost,           \* an event was dropped since the last overflow report
    posts,          \* number of events posted
    got             \* what each caller has received

vars == <<queue, lost, posts, got>>

Init ==
    /\ queue = <<>> /\ lost = FALSE /\ posts = 0
    /\ got = [t \in Threads |-> <<>>]

Post(k) ==
    /\ posts < MaxPosts /\ posts' = posts + 1
    /\ IF Len(queue) < Capacity
       THEN queue' = Append(queue, [id |-> posts', kind |-> k]) /\ UNCHANGED lost
       ELSE lost' = TRUE /\ UNCHANGED queue
    /\ UNCHANGED got

Receive(t, ev) == got' = [got EXCEPT ![t] = Append(@, Owned(ev))]

Take(t) ==
    /\ queue # <<>> /\ Receive(t, Head(queue)) /\ queue' = Tail(queue)
    /\ UNCHANGED <<lost, posts>>

TakeOverflow(t) ==
    /\ queue = <<>> /\ lost /\ Receive(t, Overflow) /\ lost' = FALSE
    /\ UNCHANGED <<queue, posts>>

Next ==
    \/ \E k \in Kinds : Post(k)
    \/ \E t \in Threads : Take(t) \/ TakeOverflow(t)

Spec == Init /\ [][Next]_vars
=============================================================================
