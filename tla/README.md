# rsmpv in TLA+

rsmpv wraps libmpv's C client API in safe Rust. The hard part of such a crate is
not the calls themselves but what happens around them: callbacks that libmpv
raises on its own threads, memory that libmpv owns until the next call, closures
that must outlive their last invocation, and drops that must happen in one order.
This directory models that part, checks it with TLC and proves the central
results with TLAPS.

Paths below are relative to the repository (`rsmpv/src/...`); `PROJECT.json`
maps every definition to the lines it stands for.

## 1. Inventory

| Component | Source | State | Operations | Talks to | Modelled in |
|---|---|---|---|---|---|
| Callback slot | `slot.rs`, used by `lib.rs` 438-501 and `render.rs` 290-312 | the stored closure behind a mutex, the registration mutex with its `leaked` flag | `set`, `teardown`, `trampoline` | libmpv (register, unregister, dispatch, destroy), user closures | `CallbackSlot`, `CallbackCell` |
| Event delivery | `lib.rs` 397-436, 605-615, `event.rs` | `event_lock`; libmpv's queue and its one event struct per handle | `poll_event`, `wait_event`, `wakeup`, the decode | libmpv's event API, the program's threads | `EventQueue`, `EventStream` |
| Wakeup loop | `lib.rs` 411-460 | the two above; the program's event loop, asleep or draining | `set_wakeup_callback`, the callback, `poll_event` until `None` | libmpv's wakeups, the program | `WakeupLoop` |
| Event decoding | `event.rs`, the event structs of `rsmpv-sys/src/lib.rs` | none | `Event::from_raw`, by event id and by the API version of the library | libmpv's event memory | `EventDecode` |
| Player lifecycle | `lib.rs` 525-713 | `Builder`, `Mpv` with its protocol registry, `Client`; who holds an `Arc<Mpv>` | create, `build`, clone, `create_client`, the `Drop`s | libmpv create, initialize, terminate, destroy; every other component | `Player` |
| Stream protocols | `stream_cb.rs` | the registry of open functions, one boxed stream per open | register, open, read, seek, size, close | libmpv's demuxer threads, user streams | `Player` (registration), `StreamSession` (the callbacks) |
| Render context | `render.rs` | raw context, update slot, `get_proc_address` box, core reference | create, update, frame info, render (OpenGL, software), report swap, drop | libmpv's render API, the player | `Player` (lifetimes and calls), `CallbackSlot` (update callback), `SoftwareSurface` (bounds) |
| Handle calls | `lib.rs` 96-391, 503-524, `property.rs` | none of the crate's; what libmpv allocates for a result; its pending requests | property, command, async and observe calls, `wait_async_requests`, hooks | libmpv, event delivery | `Requests` |
| Errors | `error.rs` | none | `from_raw`, `raw_code`, `check`, `Display` | every call | `Requests` |
| Nodes | `node.rs` | `NodeStorage`: the C arrays behind a raw node | `build`, `from_raw` | commands, properties, events | `NodeCodec` |
| Escaped boxes | `escaped.rs` | one allocation whose address libmpv has | new, forget, drop | protocols, render context | the memory of `Player` |
| Panic containment | `slot.rs` 133-147, `stream_cb.rs`, `render.rs` 64-75 | none | `catch_unwind` in each trampoline | user code | `CallbackSlot`, `StreamSession`, partly |
| FFI declarations | `rsmpv-sys/src` | none | the C contract | | the encodings of `EventDecode`; external actions of each module |
| Build script, packaging, CI | `rsmpv-sys/build.rs`, `Cargo.toml` | none | find and link libmpv | | not modelled |

How they interact. A `Handle` (reached through `Mpv`, `Client` or `Builder`)
owns a callback slot and an event lock. libmpv raises the slot's callback on any
thread of its own; the program answers by polling events. `Mpv` also owns the
open functions that libmpv's demuxer calls, and is shared through `Arc` with
clients, render contexts and closures, so whichever thread drops the last
reference runs the destruction. A render context owns a second callback slot and
a closure that libmpv calls to find OpenGL functions.

### What is hard, and what makes each component correct

* **Callback slot.** libmpv promises nothing about dispatches that are under way
  when the callback is unregistered: one may enter the trampoline after the
  owner has been dropped. It may also dispatch from inside the registration
  call. Correct means: the memory the trampoline reads is valid whenever it is
  entered, a closure is freed once and after its last invocation, registration
  and stored closure never belong to different calls, no user code runs under a
  lock its callers may want, the libmpv object is destroyed before anything that
  can panic, and every call comes back.
* **Event delivery.** The struct that `mpv_wait_event` returns is refilled by the
  next call, from any thread. Correct means: one waiter at a time, no decode of
  a replaced event, each event handed to one caller, whole and in order,
  overflow reported, no call left hanging, and a wakeup that wakes.
* **Wakeup loop.** libmpv raises one wakeup for many events, and repeats none that
  was raised before a callback was set, or that a replaced callback got. Correct
  means: with a callback set, events are never left in the queue with everybody
  asleep, and the queue is emptied again and again.
* **Event decoding.** The crate's structs are those of the newest header; an older
  library passes shorter ones, and any pointer may be null. Correct means: nothing
  is read that the library did not write, and the owned event is what happened.
* **Player lifecycle.** Drops are distributed over threads, value moves, error
  paths and leaks. Correct means: libmpv never has a pointer to freed memory,
  every holder has a live core, which is terminated once, a context is used by one
  thread at a time and goes before the core, nothing is lost, and the termination ends.
* **Stream protocols.** Rust's unsigned sizes meet C's signed ones, the
  implementation is not trusted. Correct means: libmpv is never told of bytes it
  does not have, positions are exact or errors, a query does not disturb the
  reader, and a stream lives from its open to its close whatever panics.
* **Render context.** A safe function hands libmpv a bare pointer. Correct means:
  every row libmpv may write lies in the caller's buffer, for every argument.
* **Handle calls and errors.** Results that libmpv allocates meet early returns,
  and a reply may overtake its request's own return. Correct means: each result
  is copied while it lives and freed once, an answer is libmpv's, an accepted
  request is answered once, by a reply with its own userdata, type and status,
  and waiting for replies does not depend on anybody taking them.
* **Nodes.** A tree of Rust values becomes C arrays with `int` lengths. Correct
  means: every pointer is owned while libmpv has it, no length runs past its
  array, a NUL stops the call, and what libmpv reads is what the caller built, but
  for lists too long for an `int`, of which it reads the first items.

The same list with the line at which each hazard bites is in `PROJECT.json`.

## 2. Modules

Each component's module declares its parameters as `CONSTANTS` with a named
`ASSUME`, has one action per step of the code, a `TypeOK`, its properties, and,
where a mutant needs one, the wrong variant of an action before the action
itself, marked `Mutant`. `MC...` modules add only symmetry sets, a history variable
or the sets of inputs for TLC;
`...Proofs` modules hold the proofs.

### CallbackSlot

A call is a thread walking through program points. `set` is `BeginSet`,
`LockForSet` (registration lock, and the first time the leak of libmpv's `Arc`),
`StoreClosure`, `UnlockStored`, `Register`, `RegisterReturns`, `UnlockSet`,
`Release`; `teardown` is `BeginClear` or `BeginDrop`, `LockForTeardown`,
`Unregister`, `TakeClosure`, `UnlockTaken`, `UnlockTeardown`, `Destroy` (only in
`Drop`), `Release`, and then `DropFields`; the trampoline is `EnterSlot`,
`LeaveSlot`, `FinishCall`, `FinishCloneDtor`. An `Arc<dyn Fn()>` is a closure with
its owners: the slot, the locals of `set` and `teardown`, the clones of running
trampolines. `DropArc` runs the destructor when the last of them lets go.

libmpv is external: it may dispatch on its own threads as long as the callback is
registered and the object exists, or inside `Register` on the calling thread.
`DispatchLock` selects how much it promises. With `TRUE` it serialises
dispatches with registrations, as today's implementation does; with `FALSE` a
dispatch that has begun may enter the trampoline at any later time. Properties
that need the lock name it.

`CallbackCell` is the abstract specification: a cell with one current callback,
invocations that run the callback that was current when they started, and a
free that happens once, after removal and the last invocation. It has no locks
and no reference counts. The refinement maps the slot's value, the trampolines'
clones, the closures ever stored and those dropped.

### EventQueue

`BeginPoll` needs the handle shared, `BeginWait` exclusively (`&mut`), `Wakeup`
shared. `LockForPoll` takes `event_lock`. `ReturnEvent` is libmpv's
`mpv_wait_event`: it fills `storage`, the one event struct, from the bounded
queue. The decode is three steps that read that struct more than once
(`MatchKind`, `CopyFields`, `Return`), as `Event::from_raw` does; an event without
data, one with data, and a failed reply whose data must not be read are the
kinds the decode distinguishes. `EventStream` is the abstract specification
without struct, lock and borrows.

### WakeupLoop

The composition: it extends `CallbackSlot`, whose steps stay what they are, with a
counted event queue and an event loop for each closure. `Post` and `Raise` are
libmpv's (it remembers that it has raised a wakeup, `needWakeup`, until a poll
comes back empty), `Advance` and `Dispatched` are the slot's own steps, with the
synchronous wakeup that libmpv raises on registration, `Notify` is the end of a
closure that wakes its loop, `WakeUp`, `PollEvent` and `PollNone` are a loop that
polls until it gets `None`. A program that polls borrows the handle, so `BeginDrop`
waits for the loops. The events' contents are `EventQueue`'s subject.

### EventDecode

One event is chosen, written to memory in one of the ways libmpv's header allows
for the library's version, and decoded. Memory is a record of the fields that are
there: a field beyond a shorter struct, or behind a null pointer, reads as `Fault`,
which no decoded event contains. `Decode` follows `Event::from_raw` arm by arm.
Strings are values, of which one stands for bytes that are no UTF-8.

### Player

Libmpv's side is the core's state, its protocol table, its streams, the closures
it has pointers to (`retained`) and its clients and contexts (`live`). The crate's
side is who holds what: `builder`, `refs` (the holders of an `Arc<Mpv>`: threads,
contexts, the wakeup closure), `lender` (from whom a client or a context borrows),
`memory` and `registry`. A drop of the last reference starts `Unregister`,
`Quit`, `Terminated`, `DropProtocols` on the thread that gave it up, even if
that is the callback's (`EndDispatch`); the dispatch then never ends, since libmpv's
termination waits for it, and `clear_wakeup_callback` forbids it. Contexts come in three ways: borrowed, with
a clone of an `Arc`, with a moved `Arc`. `ContextNull` is the defensive path where
libmpv reports success without a context; `Leak` is `mem::forget`. `UseContext` to
`ContextUsed` is a call on a context, for which `Exclusive` states what `&mut self` and
`Send` allow. The wakeup slot
appears only through the `Arc<Mpv>` a closure may capture.

### SoftwareSurface, StreamSession

`SoftwareSurface` is `render_software`: `Accepts` is the code's chain of checks
with its checked products below `Word`, after which libmpv writes row by row.
`StreamSession` is the session between mpv's demuxer, with its own idea of the
position, and a `Stream` that may fail, panic, over-report, or be the crate's
`IoStream`, whose `size` moves the reader and moves it back. `Open` boxes the stream
that the open function returned and gives libmpv its address, `Close` takes the box
back; an error and a caught panic are one outcome, since every trampoline's match
treats them alike. Answers go through the code's conversions between unsigned and
signed.

### Requests

A call is `Ask`, then `Refuse` (an interior NUL, or a path that is no text; libmpv is
not reached) or `Call`,
then `CheckError`, `CheckOk`, or, for a result that libmpv allocated, `CopyResult`
and `FreeResult`. An asynchronous request is `pending` from its `Call` until
libmpv's `Complete` posts the reply, which any thread takes with `Poll`,
possibly before the requesting call has returned. `wait_async_requests` is a call
that returns once nothing is pending. The operations are grouped by
how they return: status, count, value in place, owned memory, OSD string, and the
three asynchronous kinds. `abort_async_command` makes libmpv complete a request
early, with an error, which `Complete` may do at any time.

### NodeCodec

`NodeStorage::build` recurses; here its activations are a stack, `calls`, and a step
is one activation's next one: `BuildNumber` and `BuildText` return a scalar,
`BuildItem` stores a map entry's key and descends to its value (or descends to an
array's item), `BuildList` ends the loop and stores the list, `Refuse` is the early
return for an interior NUL, which ends every activation. `Return` hands the raw node
to the loop that waits for it or, at the root, to libmpv. `ReadNode` is one
activation of `Node::from_raw`, which only reads, so the order is left open;
`Returns` drops the storage. `AsCInt` is the wrapping cast of a length, `Count` its
cut at zero. A tree is a function on positions (sequences of item numbers) whose
labels carry kind, content, length and keys; an allocation is named by the position
it was made for, so that a `Vec` of boxes may be reallocated is not represented: the
boxed values do not move when it is. `MCNodeCodec` has the trees for TLC.

## 3. Runs

| Run | Configuration | Shows |
|---|---|---|
| `slot_serialised` | 3 threads, 2 dispatchers, 3 closures, `DispatchLock`, fair | registration and closure agree; dispatches, also synchronous ones, see the right closure; `Drop` destroys first; nobody waits in a circle; every call and dispatch returns |
| `slot_late_dispatch` | 2 threads, 2 dispatchers, 3 closures, no `DispatchLock` | valid memory and exact ownership however late a dispatch comes; user code is run unlocked; the slot implements `CallbackCell` |
| `wakeup_drained` | 2 threads, 2 dispatchers, 2 closures, 3 posts, fair | no wakeup is lost, the queue is emptied again and again |
| `event_delivery` | 3 threads, queue of 1, 3 posts, fair | one waiter, no torn decode, implements `EventStream`, calls end |
| `event_wakeup_consumed` | 2 threads, queue of 1, 1 post, fair | finding: a poll uses up a wakeup (below) |
| `event_decode` | all kinds of event, client messages of up to 2 arguments, 2 texts and one that is no UTF-8, API versions 1.107, 1.108 and 2.0 | the owned event is what happened, and nothing absent is read |
| `player_safety` | 2 threads, 1 client, 2 contexts, 1 open function, 1 protocol, 1 stream, leaks allowed, fair | pointers, handles, exclusive contexts, order of destruction, nothing lost, dropping the player ends |
| `player_forgotten_context` | 1 thread, 1 context, leaks allowed | finding: a leaked context survives its player (below) |
| `surface_bounds` | 4-bit `usize`, sizes in -6..5, pixels of 3 and 4 bytes | every accepted call stays in the buffer, no valid call is refused |
| `stream_answers` | `i64` to 5, `u64` to 11, a file of 7, 5 calls, opens and closes included | answers in bounds and exact, position kept, streams owned from open to close |
| `request_replies` | 2 threads, 2 calls, 2 userdata values, a known and an unknown failure code, fair | results owned, answers true, one reply each, which comes if anybody polls; calls return even if nobody does |
| `node_round_trip` | trees of two levels, lists up to 2, flat arrays up to 9, an 8-valued `c_int` | owned pointers, bounded lengths, NUL refused, the caller's tree read, a list that does not fit cut to its first items |

**Why the bounds are enough.** The slot's races are between two calls and a
dispatch; a third thread and a third closure cover replace-after-replace, and the
closures are used once each, which loses nothing since a closure is identified by
its allocation. Three readers are what a lock holder, a waiter for the lock and an
exclusive borrower need; a queue of one overflows with the second event, and the
third shows delivery after the overflow. In the wakeup loop, two dispatchers race
one wakeup against the next, two closures hand the queue over, and of three events
two share a wakeup and one comes after it. Two contexts are what the rule of one
context at a time, and the reuse after a drop, need; a registration may fail with
a single open function too, since mpv itself may have taken the protocol. The
three versions are the last old one, the first new one, and one whose minor number
is small. In the data
modules, words are small so that every overflow, sign and cast is reached with
all values of all arguments rather than samples. Trees of two levels have every kind of list
inside every kind; two items are a first and a last, and a flat array of 9 overflows the
8-valued `c_int` once. Two calls cover a reply that
overtakes its own request, one that is taken by the other thread, and a wait
beside a request that nobody polls for; five calls are enough to open, disturb, close and
reopen a stream. The bounds on behaviours are `MaxPosts`, `MaxCalls`, `MaxArgs`, and
the numbers of closures, contexts, open functions and requests, each used once.

Symmetry is used in `slot_late_dispatch` only (`MCCallbackSlot`), whose properties are
invariants and a step property without distinguished elements.

**`CHECK_DEADLOCK FALSE`** in every configuration but `EventDecode.cfg`: the other
models may stop. Closures,
posts, calls or contexts are used up, a program may drop its player and
finish, and libmpv aborts, so never returns, when a context is left at
termination. That threads do not stop in the middle is the subject of the
liveness properties instead.

**Fairness.** Weak fairness of each thread's own steps: the operating system runs
every thread that can run, and user closures and libmpv's calls return. Nobody is
obliged to begin a call. In `WakeupLoop` libmpv also raises the wakeup it owes for an
event it has posted, and an event loop that was notified polls until it gets `None`,
as `poll_event` asks for. In `Requests` libmpv completes what it accepted, aborted
requests too; that anybody polls is not assumed by `CallsReturn`, and is the stated
premise of `RepliesArrive`. `OpsReturn` and `CallsEnd` hold once no new calls come
(`<>[][~NewCall]_vars`): `std::sync::Mutex` does not promise that a waiter is ever
served while others keep coming. `Player`'s fairness adds that libmpv closes
its streams, which its demuxer does when the core quits.

### Findings

* `event_wakeup_consumed`. `Handle::wakeup` is documented to "Interrupt the current
  (or next) `wait_event` call on this handle" (`lib.rs` 432). `mpv_wakeup` interrupts
  the next `mpv_wait_event`, and `poll_event` is such a call too (`lib.rs` 429): a
  poll between the wakeup and `wait_event(-1.0)` uses the wakeup up, and the wait
  is not interrupted. `MCEventWakeup` adds the history variable `owed`.
* `player_forgotten_context`. The render module documents that "Both flavors
  guarantee structurally that the context is freed before the player terminates"
  (`render.rs` 21). The context is freed by `Drop`, which `mem::forget` skips in
  safe code; the borrow of a `RenderContext<&Mpv>` then ends, and the player can be
  terminated with its context alive. `GoneBeforeCore` is what does hold, and is
  proved: a client or a context alive at termination is one that was leaked.

## 4. Proofs

All theorems hold for all values of the constants that satisfy the module's named
assumptions, any number of threads, closures, contexts and events included.

* **CallbackSlotProofs.** The inductive invariant has five parts: `LockInv` (a
  lock's holder is at a point inside it), `PhaseInv` (how far the holder of the
  registration lock has come decides whether registration and slot agree),
  `TrampolineInv` (a running trampoline implies the leaked `Arc`, and with
  libmpv's lock the registration), `DropInv` (`Drop` runs alone and destroys
  first) and `ClosureInv` (owners and fates). The agreement alone is not inductive:
  between its two halves a `set` breaks it on purpose, and only the lock's holder
  may. From it follow `SlotMemory`, `ClosureLifetime`, `ClosureReleased`, `Agreement`,
  `SyncDispatch`, `DispatchFinds`, `Unlocked`, `DestroyFirst`. `NoDeadlock` needs `LockInv` only: the slot lock's
  holder waits for nothing, so the holder of libmpv's lock at most for the slot lock, so
  the holder of the registration lock at most for those two. `OpsAdvance` adds that every
  step of a call or dispatch takes it nearer to its end. `Refinement` maps every step of the slot to a step of
  `CallbackCell` or to a stutter.
* **EventQueueProofs.** `BorrowInv` (who holds the lock or the borrow, by program
  point) and `DecodeInv` (struct, matched kind and result belong to the event this
  call was given) give `DecodeSafe` and `SingleWaiter`, and that a poll never
  waits behind a sleeping `wait_event` (`PollsReturn`); `Refinement` shows that the calls
  implement `EventStream`.
* **WakeupLoopProofs.** `LoopImplementsSlot` shows that the composition only takes
  the slot's steps, so the slot's invariant holds in it. `LoopInv` adds where a
  raised wakeup is: queued events imply that one was raised or is about to be,
  and a raised one has woken a loop, or is `Heading` for the current callback (in a
  trampoline with its clone, before the trampoline has read the slot, or in the
  registration that will raise it again). `NoLostWakeup` alone is not inductive, since
  it says nothing while a dispatch runs; `WakeupKept` concludes it.
* **EventDecodeProofs.** No induction over time is needed: each read helper is the
  inverse of libmpv's encoding (`StringExact`, `DataExact`, `ReasonExact`), packed
  versions order as pairs (`VersionCompare`), and `EventsExact` goes through the kinds
  of events, for any texts, numbers, argument counts and versions.
* **PlayerProofs.** `WorkInv` (each thread works on its own object), `RefInv` (every
  use is covered by a reference or a borrow, and references imply a running core),
  `DropInv` (destruction is under way on one thread, when nobody holds the player),
  `ClosureInv` (memory libmpv can reach is owned or leaked, never freed). From them
  `ClosuresValid`, `HandleLife`, `GoneFirst` and `NoLeaks`, and `TerminationFree`: a
  thread in `mpv_terminate_destroy` is alone, and nothing is left that would wait for it.
* **DataProofs.** For `SoftwareSurface`, `Bounds` and `NoneTooMany` for every word
  size, by monotonicity of multiplication, stated once as lemmas. For `NodeCodec`,
  `NodesOwned`, `NodeLengths`, `NodeNuls`, `NodesArrive` and `NodesWhole` for every tree
  and every width of a C `int`. The inductive invariant (`CodecInductive`) has four parts:
  `BuildInv` (each activation waits at the item the one above it builds, and its
  values and keys are those of the tree, and owned), `StorageInv` (what is stored
  under a position is what the tree has there, and a stored list's items are owned
  too), `ReadInv` (what libmpv has read of a node is its label, with the length
  cast, each of its items is read or still pending, and nothing else is) and `NulInv`. No induction over
  the depth of trees is used: a tree's positions are the least set with the root that
  is closed under items (`IsTree`), so that once the root is owned, the owned
  positions are such a set and hence all (`Clean`). That what was read is a tree again,
  although lists are cut, follows from the same: a set of read positions closed under the
  items read, with all that was not read, is closed under the items of the caller's tree.
* **StreamSessionProofs.** `ReadBounded`, `Exact`, `Position` and `Owned` for every pair of
  integer widths with `u64` wider than `i64`, every file and every length of session.
* **RequestsProofs.** `CallsOwned` (each call is on one thread), `Stages` (what is known
  of a call at each program point) and `EventsTrue` (an event in the queue is its
  request's, with libmpv's outcome) strengthen the four properties, one lemma per
  action; `CodesKept` shows that `from_raw` and `raw_code` are inverse on every code,
  named or not. They conclude `Owned`, `Answered`, `Single` and `Replied`;
  `Held` adds that a call which has not returned is on exactly one thread.

The constants' assumptions are only that the sets of actors and objects are
disjoint, that capacities are positive, the order of the integer ranges, and that the
values callers pass are trees (`IsTree`) and a C `int` has an even number of
values.

**Only model-checked.** Liveness (`OpsReturn`, `QueueDrained`, `CallsEnd`,
`TerminationEnds`, `CallsReturn`, `RepliesArrive`): it rests on fairness, which the prover
does not reason about. The safety half of four of them is proved: `NoDeadlock` with
`OpsAdvance` (what `OpsReturn` needs beside fairness), `PollsReturn` (`CallsEnd`),
`TerminationFree` (`TerminationEnds`) and `Held` (`CallsReturn`).

## 5. Not modelled, and why

* What a frame looks like: the flags of `update` and `next_frame_info`, and the
  parameters of OpenGL rendering, are passed through. That the program renders when
  the update callback tells it to is the program's loop.
* A caught panic's payload whose own destructor panics: it leaves an `extern "C"`
  function, which aborts the process. The null that `get_proc_address_trampoline`
  makes of a panic. For the other trampolines, a panic is the outcome that
  `catch_unwind` makes of it: a closure that returns, a stream's error.
* Where a reader is after a size query that failed on its way back: the model reaches it,
  but the trait promises nothing, so `Contiguous` ends there. Likewise a dispatch that
  drops the last reference, which the documentation forbids (`EndDispatch`).
* Hooks: `hook_continue` must be called once, by the receiver, which the crate leaves
  to its caller; libmpv's side is not in the source.
* libmpv itself, beyond what each module states of it, such as which commands
  and properties exist; the texts of error messages; conversions of strings to
  UTF-8 beyond the one replaced text of `EventDecode`.
* `rsmpv-sys` beyond the event encodings, and the build script, have no behaviour.

## 6. Possible extensions

In the order of importance.

1. The player composed with the slot's own steps, as `WakeupLoop` composes the queue
   with them: a dispatch that drops the last reference while another thread sets
   or clears. Today `Player` has one step for it (`EndDispatch`).
2. Frames: the update callback's loop, composed with the slot like the wakeup loop.
