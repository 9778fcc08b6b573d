---------------------------- MODULE EventQueueProofs ----------------------------
(***************************************************************************)
(* For any number of threads and any queue capacity: no two threads are in *)
(* mpv_wait_event or in the decode after it, every decode reads the event  *)
(* its own call returned, and the calls hand out libmpv's queue as         *)
(* EventStream promises.                                                   *)
(***************************************************************************)
EXTENDS EventQueue, SequenceTheorems, TLAPS

\* A shared caller inside its critical section holds the event lock; an exclusive
\* caller is alone.
BorrowInv ==
    \A t \in Threads :
        /\ eventLock = t <=> exclusive # t /\ pc[t] \in {"poll", "match", "copy", "return"}
        /\ exclusive = t => pc[t] \in {"wait", "wait_forever", "match", "copy", "return"}
        /\ pc[t] \in {"wait", "wait_forever"} => exclusive = t
        /\ exclusive # None /\ exclusive # t => pc[t] = "idle"

\* What the decode has established so far.
DecodeInv ==
    \A t \in Threads :
        /\ pc[t] \in {"match", "copy"} => storage = mine[t]
        /\ pc[t] = "copy" => kind[t] = mine[t].kind
        /\ pc[t] = "return" => result[t] = Owned(mine[t])
        /\ pc[t] # "return" => result[t] = Owned(NoEvent)

Inv == BorrowInv /\ DecodeInv

\* Raw events and their copies are typed.
LEMMA EventTypes ==
    /\ NoEvent \in RawEvent /\ Overflow \in RawEvent /\ PostedEvent \subseteq RawEvent
    /\ \A ev \in RawEvent : ev.kind \in Kinds \cup {"none", "overflow"}
    /\ \A ev \in PostedEvent \cup {Overflow} : ev.kind # "none"
    /\ \A n \in 1..MaxPosts, k \in Kinds : [id |-> n, kind |-> k] \in PostedEvent
    /\ \A k \in Kinds \cup {"none", "overflow"}, ev \in RawEvent : Copy(k, ev) \in Result
    /\ \A ev \in RawEvent : Owned(ev) \in Result /\ Owned(ev).kind = ev.kind
    /\ \A r \in Result : r.kind # "none" => r \in OwnedEvent
  BY EventAssumption DEF NoEvent, Overflow, PostedEvent, RawEvent, Result, OwnedEvent, Copy,
     Owned, Kinds

\* Every reachable state is typed.
THEOREM Typing == Spec => []TypeOK
<1>. USE EventAssumption, EventTypes DEF TypeOK, mpv, Goto
<1>1. Init => TypeOK
  <2>. SUFFICES ASSUME Init PROVE TypeOK
    OBVIOUS
  <2>1. queue \in Seq(PostedEvent) /\ Len(queue) <= Capacity
    BY EmptySeq DEF Init
  <2>2. delivered \in [Threads -> Seq(OwnedEvent)]
    <3>1. <<>> \in Seq(OwnedEvent)
      BY EmptySeq
    <3>. QED
      BY <3>1, Zenon DEF Init
  <2>3. posts \in 0..MaxPosts /\ kind \in [Threads -> Kinds \cup {"none", "overflow"}]
    BY DEF Init
  <2>. QED
    BY <2>1, <2>2, <2>3 DEF Init
<1>2. TypeOK /\ [Next]_vars => TypeOK'
  <2>. SUFFICES ASSUME TypeOK, [Next]_vars PROVE TypeOK'
    OBVIOUS
  <2>1. ASSUME NEW t \in Threads, BeginPoll(t)
       PROVE  TypeOK'
    BY <2>1 DEF BeginPoll
  <2>2. ASSUME NEW t \in Threads, Wakeup(t)
       PROVE  TypeOK'
    BY <2>2 DEF Wakeup
  <2>3. ASSUME NEW t \in Threads, NEW label \in {"wait", "wait_forever"}, BeginWait(t, label)
       PROVE  TypeOK'
    BY <2>3 DEF BeginWait
  <2>4. ASSUME NEW k \in Kinds, Post(k)
       PROVE  TypeOK'
    <3>1. /\ posts' \in 0..MaxPosts /\ posts' \in 1..MaxPosts
          /\ [id |-> posts', kind |-> k] \in PostedEvent
      BY <2>4 DEF Post
    <3>2. queue' \in Seq(PostedEvent) /\ Len(queue') <= Capacity
      <4>1. CASE Len(queue) < Capacity
        <5>1. queue' = Append(queue, [id |-> posts', kind |-> k])
          BY <2>4, <4>1 DEF Post
        <5>2. Len(queue') = Len(queue) + 1 /\ queue' \in Seq(PostedEvent)
          BY <3>1, <5>1, AppendProperties
        <5>. QED
          BY <4>1, <5>2, LenProperties
      <4>2. CASE ~(Len(queue) < Capacity)
        BY <2>4, <4>2 DEF Post
      <4>. QED
        BY <4>1, <4>2
    <3>3. lost' \in BOOLEAN
      BY <2>4 DEF Post
    <3>. QED
      BY <2>4, <3>1, <3>2, <3>3 DEF Post
  <2>5. ASSUME NEW t \in Threads, LockForPoll(t)
       PROVE  TypeOK'
    BY <2>5 DEF LockForPoll
  <2>6. ASSUME NEW t \in Threads, NEW from \in {"poll", "wait", "wait_forever"},
              ReturnEvent(t, from)
       PROVE  TypeOK'
    <3>1. /\ queue' \in Seq(PostedEvent) /\ Len(queue') <= Capacity
          /\ storage' \in RawEvent /\ lost' \in BOOLEAN
      <4>1. CASE queue # <<>> /\ storage' = Head(queue) /\ queue' = Tail(queue) /\ UNCHANGED lost
        <5>1. Head(queue) \in PostedEvent /\ Tail(queue) \in Seq(PostedEvent)
              /\ Len(Tail(queue)) = Len(queue) - 1
          BY <4>1, HeadTailProperties
        <5>. QED
          BY <4>1, <5>1, LenProperties
      <4>2. CASE queue' = queue /\ storage' \in {NoEvent, Overflow}
        BY <2>6, <4>2 DEF ReturnEvent
      <4>. QED
        BY <2>6, <4>1, <4>2 DEF ReturnEvent
    <3>. QED
      BY <2>6, <3>1 DEF ReturnEvent
  <2>7. ASSUME NEW t \in Threads, MatchKind(t)
       PROVE  TypeOK'
    BY <2>7 DEF MatchKind
  <2>8. ASSUME NEW t \in Threads, CopyFields(t)
       PROVE  TypeOK'
    BY <2>8 DEF CopyFields
  <2>9. ASSUME NEW t \in Threads, Return(t)
       PROVE  TypeOK'
    BY <2>9 DEF Return, End
  <2>10. CASE UNCHANGED vars
    BY <2>10 DEF vars
  <2>. QED
    BY <2>1, <2>2, <2>3, <2>4, <2>5, <2>6, <2>7, <2>8, <2>9, <2>10 DEF Next, NewCall, Step, Poll, Wait
<1>. QED
  BY <1>1, <1>2, PTL DEF Spec

LEMMA Inductive == TypeOK /\ Inv /\ [Next]_vars => Inv'
<1>. SUFFICES ASSUME TypeOK, Inv, [Next]_vars PROVE Inv'
  OBVIOUS
<1>. USE EventAssumption DEF TypeOK, Inv, BorrowInv, DecodeInv, mpv, Goto, Owned
<1>1. ASSUME NEW t \in Threads, BeginPoll(t)
     PROVE  Inv'
  BY <1>1 DEF BeginPoll
<1>2. ASSUME NEW t \in Threads, Wakeup(t)
     PROVE  Inv'
  BY <1>2 DEF Wakeup
<1>3. ASSUME NEW t \in Threads, NEW label \in {"wait", "wait_forever"}, BeginWait(t, label)
     PROVE  Inv'
  BY <1>3 DEF BeginWait
<1>4. ASSUME NEW k \in Kinds, Post(k)
     PROVE  Inv'
  BY <1>4 DEF Post
<1>5. ASSUME NEW t \in Threads, LockForPoll(t)
     PROVE  Inv'
  BY <1>5 DEF LockForPoll
<1>6. ASSUME NEW t \in Threads, NEW from \in {"poll", "wait", "wait_forever"},
              ReturnEvent(t, from)
     PROVE  Inv'
  BY <1>6 DEF ReturnEvent
<1>7. ASSUME NEW t \in Threads, MatchKind(t)
     PROVE  Inv'
  BY <1>7 DEF MatchKind
<1>8. ASSUME NEW t \in Threads, CopyFields(t)
     PROVE  Inv'
  BY <1>8 DEF CopyFields
<1>9. ASSUME NEW t \in Threads, Return(t)
     PROVE  Inv'
  BY <1>9 DEF Return, End
<1>10. CASE UNCHANGED vars
  BY <1>10 DEF vars
<1>. QED
  BY <1>1, <1>2, <1>3, <1>4, <1>5, <1>6, <1>7, <1>8, <1>9, <1>10 DEF Next, NewCall, Step, Poll, Wait
LEMMA Invariance == Spec => [](TypeOK /\ Inv)
<1>1. Init => Inv
  BY EventAssumption DEF Init, Inv, BorrowInv, DecodeInv
<1>. QED
  BY <1>1, Typing, Inductive, PTL DEF Spec

\* No decode reads an event that another call has replaced.
THEOREM DecodeSafe == Spec => []DecodeReadsLive
<1>1. TypeOK /\ Inv => DecodeReadsLive
  BY DEF Inv, DecodeInv, DecodeReadsLive
<1>. QED
  BY <1>1, Invariance, PTL

\* Polling and waiting threads keep libmpv's rule of one waiter for each handle.
THEOREM SingleWaiter == Spec => []OneWaiter
<1>1. TypeOK /\ Inv => OneWaiter
  BY EventAssumption DEF TypeOK, Inv, BorrowInv, OneWaiter, InWaitEvent
<1>. QED
  BY <1>1, Invariance, PTL

\* The safety half of CallsEnd.  A poll that has not got the event lock yet waits for a
\* poll whose mpv_wait_event does not wait, never for a wait_event that sleeps inside
\* libmpv: the exclusive borrow keeps the two apart.  No call that is over still has
\* the lock.
PollNeverSleeps ==
    /\ eventLock # None => pc[eventLock] \in {"poll", "match", "copy", "return"}
    /\ \A s, t \in Threads : pc[t] # "idle" /\ s # t => pc[s] \notin {"wait", "wait_forever"}
THEOREM PollsReturn == Spec => []PollNeverSleeps
<1>1. TypeOK /\ Inv => PollNeverSleeps
  BY EventAssumption DEF TypeOK, Inv, BorrowInv, PollNeverSleeps
<1>. QED
  BY <1>1, Invariance, PTL

-----------------------------------------------------------------------------
\* Every step hands out events as EventStream does, or hands out none.
LEMMA RefinementStep == TypeOK /\ Inv /\ [Next]_vars => [Stream!Next]_Stream!vars
<1>. SUFFICES ASSUME TypeOK, Inv, [Next]_vars PROVE [Stream!Next]_Stream!vars
  OBVIOUS
<1>. USE EventAssumption DEF TypeOK, Inv, BorrowInv, DecodeInv, mpv, Goto
<1>1. ASSUME UNCHANGED <<queue, lost, posts>>, \A t \in Threads : Received(t)' = Received(t)
     PROVE  UNCHANGED Stream!vars
  BY <1>1 DEF Stream!vars
<1>2. ASSUME NEW t \in Threads, BeginPoll(t) \/ Wakeup(t) \/ LockForPoll(t) \/ MatchKind(t)
                                \/ \E label \in {"wait", "wait_forever"} : BeginWait(t, label)
     PROVE  UNCHANGED Stream!vars
  BY <1>1, <1>2 DEF BeginPoll, Wakeup, LockForPoll, MatchKind, BeginWait, Received
<1>3. ASSUME NEW k \in Kinds, Post(k)
     PROVE  Stream!Next
  <2>1. \A t \in Threads : Received(t)' = Received(t)
    BY <1>3 DEF Post, Received
  <2>. QED
    BY <1>3, <2>1 DEF Post, Stream!Post, Stream!Next
<1>4. ASSUME NEW t \in Threads, CopyFields(t)
     PROVE  UNCHANGED Stream!vars
  BY <1>1, <1>4 DEF CopyFields, Received
<1>5. ASSUME NEW t \in Threads, Return(t)
     PROVE  UNCHANGED Stream!vars
  <2>1. UNCHANGED <<queue, lost, posts>>
    BY <1>5 DEF Return, End
  <2>2. ASSUME NEW s \in Threads, s # t
        PROVE  Received(s)' = Received(s)
    BY <1>5, <2>2 DEF Return, End, Received
  <2>3. Received(t)' = Received(t)
    <3>1. delivered[t] \in Seq(OwnedEvent) /\ pc[t] = "return" /\ pc'[t] = "idle"
      BY <1>5 DEF Return, End
    <3>2. Received(t)' = delivered'[t]
      BY <1>5, <3>1, ConcatEmptySeq DEF Return, End, Received
    <3>3. result[t] = Owned(mine[t]) /\ (result[t].kind = "none" <=> mine[t].kind = "none")
      BY <3>1, EventTypes
    <3>4. CASE mine[t].kind = "none"
      BY <1>5, <3>1, <3>2, <3>3, <3>4, ConcatEmptySeq DEF Return, End, Received
    <3>5. CASE mine[t].kind # "none"
      <4>1. delivered'[t] = Append(delivered[t], result[t]) /\ result[t] \in OwnedEvent
        BY <1>5, <3>3, <3>5, EventTypes DEF Return, End
      <4>. QED
        BY <3>1, <3>2, <3>3, <3>5, <4>1, AppendIsConcat DEF Received
    <3>. QED
      BY <3>4, <3>5
  <2>. QED
    BY <1>1, <2>1, <2>2, <2>3
<1>6. ASSUME NEW t \in Threads, NEW from \in {"poll", "wait", "wait_forever"}, ReturnEvent(t, from)
     PROVE  [Stream!Next]_Stream!vars
  <2>1. /\ pc[t] = from /\ pc'[t] = "match" /\ mine'[t] = storage' /\ delivered' = delivered
        /\ UNCHANGED posts
    BY <1>6 DEF ReturnEvent
  <2>2. \A s \in Threads \ {t} : Received(s)' = Received(s)
    BY <1>6 DEF ReturnEvent, Received
  <2>3. Received(t) = delivered[t]
    BY <2>1, ConcatEmptySeq DEF Received
  <2>4. CASE storage' = NoEvent /\ UNCHANGED <<queue, lost>>
    <3>1. Received(t)' = delivered[t]
      BY <2>1, <2>4, ConcatEmptySeq DEF Received, NoEvent
    <3>. QED
      BY <1>1, <2>1, <2>2, <2>3, <2>4, <3>1
  <2>5. ASSUME storage' \in RawEvent, storage'.kind # "none"
        PROVE  Stream!Receive(t, storage')
    <3>1. Owned(storage') \in OwnedEvent
      BY <2>5, EventTypes
    <3>2. Received(t)' = Append(Received(t), Owned(storage'))
      BY <2>1, <2>3, <2>5, <3>1, AppendIsConcat DEF Received
    <3>. QED
      BY <2>2, <3>2 DEF Stream!Receive
  <2>6. CASE queue # <<>> /\ storage' = Head(queue) /\ queue' = Tail(queue) /\ UNCHANGED lost
    <3>1. Head(queue) \in PostedEvent
      BY <2>6, HeadTailProperties
    <3>. QED
      BY <2>1, <2>5, <2>6, <3>1, EventTypes DEF Stream!Take, Stream!Next
  <2>7. CASE queue = <<>> /\ lost /\ storage' = Overflow /\ lost' = FALSE /\ UNCHANGED queue
    BY <2>1, <2>5, <2>7, EventTypes DEF Stream!TakeOverflow, Stream!Next
  <2>. QED
    BY <1>6, <2>4, <2>6, <2>7 DEF ReturnEvent
<1>7. CASE UNCHANGED vars
  BY <1>1, <1>7 DEF vars, Received
<1>. QED
  BY <1>2, <1>3, <1>4, <1>5, <1>6, <1>7 DEF Next, NewCall, Step, Poll, Wait
\* poll_event and wait_event implement the event stream.
THEOREM Refinement == Spec => StreamSpec
<1>1. Init => Stream!Init
  <2>. SUFFICES ASSUME Init PROVE Stream!Init
    OBVIOUS
  <2>1. \A t \in Threads : Received(t) = <<>>
    BY ConcatEmptySeq, EmptySeq DEF Init, Received
  <2>. QED
    BY <2>1 DEF Init, Stream!Init
<1>. QED
  BY <1>1, RefinementStep, Invariance, PTL DEF Spec, StreamSpec, Stream!Spec
=============================================================================
