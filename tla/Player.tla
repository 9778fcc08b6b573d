--------------------------------- MODULE Player ---------------------------------
(***************************************************************************)
(* Who keeps a player alive, and what must be gone before it is destroyed: *)
(* Builder, Mpv behind an Arc, Client, RenderContext in both flavours, and *)
(* the protocol registry.                                                  *)
(*                                                                         *)
(* libmpv holds two kinds of pointers into memory the crate owns for       *)
(* longer than one call: the open function of every registered protocol,   *)
(* until mpv_terminate_destroy returns, and the get_proc_address closure   *)
(* of a render context, until mpv_render_context_free returns.  Drop runs  *)
(* on whichever thread gives up the last Arc<Mpv>.                         *)
(*                                                                         *)
(* The wakeup closure matters here for the Arc<Mpv> it may capture; when   *)
(* it is released is the subject of CallbackSlot.                          *)
(***************************************************************************)
EXTENDS Naturals, FiniteSets

CONSTANTS
    Users,          \* threads of the program
    Dispatcher,     \* the mpv thread that runs the wakeup callback
    Closure,        \* the holder of the Arc<Mpv> a wakeup closure captured
    Clients, Contexts, OpenFns, Protocols, Streams,
    None,
    MayForget       \* the program may mem::forget a client or a render context

ASSUME ConstantsAssumption ==
    /\ MayForget \in BOOLEAN
    /\ Dispatcher \notin Users /\ None \notin Users /\ None \notin OpenFns \cup Contexts
    /\ Closure \notin Users \cup Contexts
    /\ Users \cap Contexts = {} /\ Clients \cap Contexts = {} /\ OpenFns \cap Contexts = {}

Threads == Users \cup {Dispatcher}
Allocations == OpenFns \cup Contexts    \* a context's closure is named after it
Holders == Users \cup Contexts \cup {Closure}
ContextLabels == {"create_ctx", "ctx_use", "drop_gpa", "ctx_free", "ctx_core"}
RegisterLabels == {"add_ro", "push", "free_open"}
DropLabels == {"unregister", "quit", "wait", "protocols"}

VARIABLES
    core,           \* the mpv core
    destroys,       \* number of mpv_terminate_destroy calls
    protocol,       \* the core's protocol table
    stream,         \* what the demuxer does with each stream
    streamFn,       \* the open function a stream came from
    retained,       \* closures libmpv has a pointer to
    live,           \* clients and render contexts that exist in libmpv
    dispatching,    \* the wakeup callback is running
    builder,        \* the thread that has the Builder
    refs,           \* who holds an Arc<Mpv> (a plain Mpv: one thread)
    lender,         \* the thread a client or a context borrows its Mpv from
    forgotten,      \* clients and contexts that were leaked
    closure,        \* the wakeup closure: none, plain, or capturing an Arc<Mpv>
    memory,         \* the boxed closures
    registry,       \* Mpv::protocols
    pc, on          \* where each thread is, and the object it is at work on

mpv == <<core, destroys, protocol, stream, streamFn, retained, live, dispatching>>
crate == <<builder, refs, lender, forgotten, closure, memory, registry>>
vars == <<mpv, crate, pc, on>>

Init ==
    /\ core = "none" /\ destroys = 0
    /\ protocol = [p \in Protocols |-> None]
    /\ stream = [s \in Streams |-> "closed"] /\ streamFn = [s \in Streams |-> None]
    /\ retained = {} /\ live = {} /\ dispatching = FALSE
    /\ builder = None /\ refs = {} /\ forgotten = {} /\ closure = "none" /\ registry = {}
    /\ lender = [b \in Clients \cup Contexts |-> None]
    /\ memory = [a \in Allocations |-> "none"]
    /\ pc = [t \in Threads |-> "idle"] /\ on = [t \in Threads |-> None]

Goto(t, from, to) == pc[t] = from /\ pc' = [pc EXCEPT ![t] = to]
Start(t, to, x) == Goto(t, "idle", to) /\ on' = [on EXCEPT ![t] = x]
Finish(t, from) == Goto(t, from, "idle") /\ on' = [on EXCEPT ![t] = None]

\* h gives up its Arc<Mpv>; whoever gives up the last one runs Mpv::drop.
Release(h) == refs' = refs \ {h}
AfterRelease(h) == IF h \in refs /\ refs \subseteq {h} THEN "unregister" ELSE "idle"

-----------------------------------------------------------------------------
\* Builder, Mpv and its clones

NewBuilder(u) ==
    /\ core = "none" /\ pc[u] = "idle"
    /\ core' = "created" /\ builder' = u
    /\ UNCHANGED <<destroys, protocol, stream, streamFn, retained, live, dispatching,
                   refs, lender, forgotten, closure, memory, registry, pc, on>>

\* Mutant: build moves the handle out and the builder is dropped as well.
BuildTwice(u) ==
    /\ builder = u /\ core' = "running" /\ builder' = None /\ refs' = {u}
    /\ Goto(u, "idle", "unregister")
    /\ UNCHANGED <<destroys, protocol, stream, streamFn, retained, live, dispatching,
                   lender, forgotten, closure, memory, registry, on>>

Build(u) ==
    /\ builder = u /\ pc[u] = "idle"
    /\ core' = "running" /\ builder' = None /\ refs' = {u}
    /\ UNCHANGED <<destroys, protocol, stream, streamFn, retained, live, dispatching,
                   lender, forgotten, closure, memory, registry, pc, on>>

\* Mutant: the error path of build forgets the builder.
ForgetBuilder(u) == builder = u /\ builder' = None /\ UNCHANGED <<mpv, refs, lender, forgotten,
    closure, memory, registry, pc, on>>

\* The builder is dropped, by its owner or because mpv_initialize failed.
DropBuilder(u) ==
    /\ builder = u /\ builder' = None
    /\ Goto(u, "idle", "unregister")
    /\ UNCHANGED <<mpv, refs, lender, forgotten, closure, memory, registry, on>>

CloneArc(u, v) ==
    /\ u \in refs /\ v \notin refs /\ pc[u] = "idle" /\ pc[v] = "idle"
    /\ refs' = refs \cup {v}
    /\ UNCHANGED <<mpv, builder, lender, forgotten, closure, memory, registry, pc, on>>

DropArc(u) ==
    /\ u \in refs /\ \A b \in Clients \cup Contexts : lender[b] # u
    /\ Release(u) /\ Goto(u, "idle", AfterRelease(u))
    /\ UNCHANGED <<mpv, builder, lender, forgotten, closure, memory, registry, on>>

-----------------------------------------------------------------------------
\* Mpv::drop and Builder::drop: unregister the wakeup callback, terminate the
\* core, and then drop the fields

\* Mutant: the registry drops before the core is terminated.
ProtocolsFirst(t) ==
    /\ Goto(t, "unregister", "quit")
    /\ closure' = "none" /\ registry' = {}
    /\ memory' = [a \in Allocations |-> IF a \in registry THEN "freed" ELSE memory[a]]
    /\ UNCHANGED <<mpv, builder, refs, lender, forgotten, on>>

Unregister(t) ==
    /\ Goto(t, "unregister", "quit")
    /\ closure' = "none"
    /\ UNCHANGED <<mpv, builder, refs, lender, forgotten, memory, registry, on>>

Quit(t) ==
    /\ Goto(t, "quit", "wait")
    /\ core' = "terminating" /\ destroys' = destroys + 1
    /\ UNCHANGED <<protocol, stream, streamFn, retained, live, dispatching, crate, on>>

\* mpv_terminate_destroy returns once every stream, client and callback is
\* done.  (If a render context is left libmpv aborts: the call never returns.)
Terminated(t) ==
    /\ live = {} /\ ~dispatching /\ \A s \in Streams : stream[s] = "closed"
    /\ Goto(t, "wait", "protocols")
    /\ core' = "dead" /\ retained' = {} /\ protocol' = [p \in Protocols |-> None]
    /\ UNCHANGED <<destroys, stream, streamFn, live, dispatching, crate, on>>

DropProtocols(t) ==
    /\ Goto(t, "protocols", "idle")
    /\ memory' = [a \in Allocations |-> IF a \in registry THEN "freed" ELSE memory[a]]
    /\ registry' = {}
    /\ UNCHANGED <<mpv, builder, refs, lender, forgotten, closure, on>>

-----------------------------------------------------------------------------
\* Clients

CreateClient(u, c) ==
    /\ u \in refs /\ pc[u] = "idle" /\ c \notin live
    /\ live' = live \cup {c} /\ lender' = [lender EXCEPT ![c] = u]
    /\ UNCHANGED <<core, destroys, protocol, stream, streamFn, retained, dispatching,
                   builder, refs, forgotten, closure, memory, registry, pc, on>>

\* Mutant: Client has no Drop of its own.
DropClientOnly(c) == lender[c] # None /\ lender' = [lender EXCEPT ![c] = None]
    /\ UNCHANGED <<mpv, builder, refs, forgotten, closure, memory, registry, pc, on>>

\* A client is dropped, on any thread the lender lent it to.
DropClient(c) ==
    /\ lender[c] # None
    /\ live' = live \ {c} /\ lender' = [lender EXCEPT ![c] = None]
    /\ UNCHANGED <<core, destroys, protocol, stream, streamFn, retained, dispatching,
                   builder, refs, forgotten, closure, memory, registry, pc, on>>

\* A leaked value's borrow is over; a leaked Arc is held for ever.
Leak(b) ==
    /\ MayForget /\ b \in live /\ b \notin forgotten /\ \A t \in Threads : on[t] # b
    /\ forgotten' = forgotten \cup {b} /\ lender' = [lender EXCEPT ![b] = None]
    /\ UNCHANGED <<mpv, builder, refs, closure, memory, registry, pc, on>>

-----------------------------------------------------------------------------
\* Protocols: register_protocol, and the streams the demuxer opens

BeginRegister(u, f) ==
    /\ u \in refs /\ memory[f] = "none"
    /\ Start(u, "add_ro", f)
    /\ memory' = [memory EXCEPT ![f] = "owned"]
    /\ UNCHANGED <<mpv, builder, refs, lender, forgotten, closure, registry>>

\* Mutant: the box is dropped on success too.
AddRoDropped(u, p) ==
    /\ protocol[p] = None /\ protocol' = [protocol EXCEPT ![p] = on[u]]
    /\ retained' = retained \cup {on[u]}
    /\ Goto(u, "add_ro", "free_open")
    /\ UNCHANGED <<core, destroys, stream, streamFn, live, dispatching, crate, on>>

AddRo(u, p) ==
    /\ protocol[p] = None /\ protocol' = [protocol EXCEPT ![p] = on[u]]
    /\ retained' = retained \cup {on[u]}
    /\ Goto(u, "add_ro", "push")
    /\ UNCHANGED <<core, destroys, stream, streamFn, live, dispatching, crate, on>>

AddRoFails(u) ==
    /\ Goto(u, "add_ro", "free_open")
    /\ UNCHANGED <<mpv, crate, on>>

Push(u) ==
    /\ Finish(u, "push")
    /\ registry' = registry \cup {on[u]}
    /\ UNCHANGED <<mpv, builder, refs, lender, forgotten, closure, memory>>

FreeOpen(u) ==
    /\ Finish(u, "free_open")
    /\ memory' = [memory EXCEPT ![on[u]] = "freed"]
    /\ UNCHANGED <<mpv, builder, refs, lender, forgotten, closure, registry>>

\* The demuxer calls open_trampoline, which the user's function may fail.
OpenStream(s, p) ==
    /\ core = "running" /\ protocol[p] # None /\ stream[s] = "closed"
    /\ stream' = [stream EXCEPT ![s] = "opening"]
    /\ streamFn' = [streamFn EXCEPT ![s] = protocol[p]]
    /\ UNCHANGED <<core, destroys, protocol, retained, live, dispatching, crate, pc, on>>

Opened(s) ==
    /\ stream[s] = "opening"
    /\ \E r \in {"open", "closed"} : stream' = [stream EXCEPT ![s] = r]
    /\ UNCHANGED <<core, destroys, protocol, streamFn, retained, live, dispatching, crate, pc, on>>

CloseStream(s) ==
    /\ stream[s] = "open" /\ stream' = [stream EXCEPT ![s] = "closed"]
    /\ UNCHANGED <<core, destroys, protocol, streamFn, retained, live, dispatching, crate, pc, on>>

-----------------------------------------------------------------------------
\* Render contexts.  flavor is how the context holds the player: by a borrow,
\* by a clone of the caller's Arc, or by the caller's own Arc.

\* Mutant: the context keeps the raw handle only.
BeginRawContext(u, x, flavor) ==
    /\ u \in refs /\ memory[x] = "none"
    /\ Start(u, "create_ctx", x)
    /\ memory' = [memory EXCEPT ![x] = "owned"] /\ retained' = retained \cup {x}
    /\ UNCHANGED <<core, destroys, protocol, stream, streamFn, live, dispatching,
                   builder, refs, lender, forgotten, closure, registry>>

BeginContext(u, x, flavor) ==
    /\ u \in refs /\ memory[x] = "none"
    /\ flavor = "moved" => \A b \in Clients \cup Contexts : lender[b] # u
    /\ Start(u, "create_ctx", x)
    /\ memory' = [memory EXCEPT ![x] = "owned"]
    /\ retained' = retained \cup {x}
    /\ lender' = [lender EXCEPT ![x] = IF flavor = "borrowed" THEN u ELSE None]
    /\ refs' = CASE flavor = "borrowed" -> refs
                 [] flavor = "cloned" -> refs \cup {x}
                 [] flavor = "moved" -> (refs \ {u}) \cup {x}
    /\ UNCHANGED <<core, destroys, protocol, stream, streamFn, live, dispatching,
                   builder, forgotten, closure, registry>>

\* mpv_render_context_create succeeds, for one context of a player at a time.
ContextCreated(u) ==
    /\ live \cap Contexts = {} /\ live' = live \cup {on[u]}
    /\ Finish(u, "create_ctx")
    /\ UNCHANGED <<core, destroys, protocol, stream, streamFn, retained, dispatching, crate>>

ContextFailed(u) ==
    /\ Goto(u, "create_ctx", "drop_gpa")
    /\ retained' = retained \ {on[u]}
    /\ UNCHANGED <<core, destroys, protocol, stream, streamFn, live, dispatching, crate, on>>

\* Mutant: without a context, the closure is freed by the unwind.
ContextNullFreed(u) ==
    /\ Goto(u, "create_ctx", "ctx_core")
    /\ memory' = [memory EXCEPT ![on[u]] = "freed"]
    /\ retained' \in {retained, retained \ {on[u]}}
    /\ UNCHANGED <<core, destroys, protocol, stream, streamFn, live, dispatching,
                   builder, refs, lender, forgotten, closure, registry, on>>

\* Success without a context: libmpv may have kept the pointer.  The closure is
\* leaked, and the panic drops the core reference.
ContextNull(u) ==
    /\ Goto(u, "create_ctx", "ctx_core")
    /\ memory' = [memory EXCEPT ![on[u]] = "leaked"]
    /\ retained' \in {retained, retained \ {on[u]}}
    /\ UNCHANGED <<core, destroys, protocol, stream, streamFn, live, dispatching,
                   builder, refs, lender, forgotten, closure, registry, on>>

\* Mutant: the methods take &self, and the context is Sync.
Shared(u, x) == x \in live \ forgotten /\ (x \in refs \/ lender[x] = u)

\* Exclusive access to a context: &mut self, or ownership.  The borrowed flavour is
\* not Send, so only its own thread has it.
Exclusive(u, x) ==
    /\ x \in live \ forgotten /\ \A t \in Threads : on[t] # x
    /\ x \in refs \/ lender[x] = u

\* update, next_frame_info, render_opengl, render_software or report_swap: a call into
\* the renderer, which may call the get_proc_address closure.
UseContext(u, x) == Exclusive(u, x) /\ Start(u, "ctx_use", x) /\ UNCHANGED <<mpv, crate>>
ContextUsed(u) == Finish(u, "ctx_use") /\ UNCHANGED <<mpv, crate>>

DropContext(u, x) == Exclusive(u, x) /\ Start(u, "ctx_free", x) /\ UNCHANGED <<mpv, crate>>

FreeContext(u) ==
    /\ Goto(u, "ctx_free", "drop_gpa")
    /\ live' = live \ {on[u]} /\ retained' = retained \ {on[u]}
    /\ UNCHANGED <<core, destroys, protocol, stream, streamFn, dispatching, crate, on>>

DropGpa(u) ==
    /\ Goto(u, "drop_gpa", "ctx_core")
    /\ memory' = [memory EXCEPT ![on[u]] = "freed"]
    /\ UNCHANGED <<mpv, builder, refs, lender, forgotten, closure, registry, on>>

\* The core field drops last: the borrow ends, or the Arc is given up.
DropCoreRef(u) ==
    /\ Goto(u, "ctx_core", AfterRelease(on[u]))
    /\ Release(on[u])
    /\ lender' = [lender EXCEPT ![on[u]] = None] /\ on' = [on EXCEPT ![u] = None]
    /\ UNCHANGED <<mpv, builder, forgotten, closure, memory, registry>>

-----------------------------------------------------------------------------
\* The wakeup callback of the main handle.  One closure at a time: replacing
\* one is clearing it and setting the next.

SetWakeup(u, kind) ==
    /\ pc[u] = "idle" /\ closure = "none" /\ Closure \notin refs
    /\ u \in refs \/ (builder = u /\ kind = "plain")
    /\ closure' = kind
    /\ refs' = IF kind = "arc" THEN refs \cup {Closure} ELSE refs
    /\ UNCHANGED <<mpv, builder, lender, forgotten, memory, registry, pc, on>>

\* While an invocation runs it has the closure, and releases it when it ends.
ClearWakeup(u) ==
    /\ pc[u] = "idle" /\ (u \in refs \/ builder = u)
    /\ closure # "none" /\ closure' = "none"
    /\ IF dispatching THEN UNCHANGED refs ELSE Release(Closure)
    /\ UNCHANGED <<mpv, builder, lender, forgotten, memory, registry, pc, on>>

Dispatch ==
    /\ closure # "none" /\ core \in {"created", "running"} /\ ~dispatching
    /\ dispatching' = TRUE
    /\ UNCHANGED <<core, destroys, protocol, stream, streamFn, retained, live, crate, pc, on>>

\* The invocation returns, and releases the closure if it is the last to have it.  If
\* that gives up the last Arc<Mpv>, Mpv::drop runs inside the dispatch, which then
\* never ends: libmpv's terminate waits for it, so the crate's docs forbid it.
EndDispatch ==
    /\ dispatching /\ pc[Dispatcher] = "idle"
    /\ IF closure = "arc" \/ Closure \notin refs
       THEN dispatching' = FALSE /\ UNCHANGED <<refs, pc>>
       ELSE /\ Release(Closure) /\ Goto(Dispatcher, "idle", AfterRelease(Closure))
            /\ dispatching' = (refs' = {})
    /\ UNCHANGED <<core, destroys, protocol, stream, streamFn, retained, live,
                   builder, lender, forgotten, closure, memory, registry, on>>

-----------------------------------------------------------------------------
\* What a thread owes once it is inside an operation, and what libmpv does.
Step(t) ==
    \/ Unregister(t) \/ Quit(t) \/ Terminated(t) \/ DropProtocols(t)
UserStep(u) ==
    \/ Step(u) \/ (\E p \in Protocols : AddRo(u, p)) \/ AddRoFails(u) \/ Push(u) \/ FreeOpen(u)
    \/ ContextCreated(u) \/ ContextFailed(u) \/ ContextNull(u) \/ ContextUsed(u)
    \/ FreeContext(u) \/ DropGpa(u) \/ DropCoreRef(u)
Demuxer(s) == Opened(s) \/ CloseStream(s)

Next ==
    \/ \E u \in Users :
        \/ NewBuilder(u) \/ Build(u) \/ DropBuilder(u) \/ DropArc(u) \/ UserStep(u)
        \/ \E v \in Users : CloneArc(u, v)
        \/ \E c \in Clients : CreateClient(u, c)
        \/ \E f \in OpenFns : BeginRegister(u, f)
        \/ \E x \in Contexts : UseContext(u, x) \/ DropContext(u, x)
        \/ \E x \in Contexts, flavor \in {"borrowed", "cloned", "moved"} : BeginContext(u, x, flavor)
        \/ \E kind \in {"plain", "arc"} : SetWakeup(u, kind)
        \/ ClearWakeup(u)
    \/ \E c \in Clients : DropClient(c)
    \/ \E b \in Clients \cup Contexts : Leak(b)
    \/ \E s \in Streams : Demuxer(s) \/ \E p \in Protocols : OpenStream(s, p)
    \/ Dispatch \/ EndDispatch \/ Step(Dispatcher)

Spec == Init /\ [][Next]_vars

\* Threads run, the callback returns, and libmpv closes its streams.
FairSpec ==
    /\ Spec /\ WF_vars(EndDispatch)
    /\ \A u \in Users : WF_vars(UserStep(u))
    /\ \A s \in Streams : WF_vars(Demuxer(s))

-----------------------------------------------------------------------------
TypeOK ==
    /\ core \in {"none", "created", "running", "terminating", "dead"} /\ destroys \in Nat
    /\ protocol \in [Protocols -> OpenFns \cup {None}]
    /\ stream \in [Streams -> {"closed", "opening", "open"}]
    /\ streamFn \in [Streams -> OpenFns \cup {None}]
    /\ retained \subseteq Allocations /\ live \subseteq Clients \cup Contexts
    /\ dispatching \in BOOLEAN /\ builder \in Users \cup {None} /\ refs \subseteq Holders
    /\ lender \in [Clients \cup Contexts -> Users \cup {None}]
    /\ forgotten \subseteq Clients \cup Contexts /\ closure \in {"none", "plain", "arc"}
    /\ memory \in [Allocations -> {"none", "owned", "freed", "leaked"}]
    /\ registry \subseteq OpenFns
    /\ on \in [Threads -> Allocations \cup {None}]
    /\ pc \in [Threads -> {"idle"} \cup ContextLabels \cup RegisterLabels \cup DropLabels]

\* Memory libmpv may still call into is not freed: an open function as long as
\* its protocol is registered or a call to it runs (escaped.rs, the field order
\* of Mpv), a get_proc_address closure until its context is freed, even if
\* libmpv reported success without a context.
ClosuresOutliveUse ==
    \A a \in Allocations :
        a \in retained \/ (\E s \in Streams : stream[s] = "opening" /\ streamFn[s] = a)
            => memory[a] \in {"owned", "leaked"}

\* Whoever holds the player in any way, or is inside a call through its handle,
\* has a live core; the core is terminated once, by the last holder.  A context
\* exists while it is used, and two threads are never in calls on the same one: the
\* user of the render API has to serialise them (render.rs, `&mut self`).
InCall == {"add_ro", "create_ctx", "ctx_use", "ctx_free", "unregister", "quit"}
HandlesValid ==
    /\ builder # None \/ refs # {} \/ (\E t \in Threads : pc[t] \in InCall)
            \/ (\E b \in Clients \cup Contexts : lender[b] # None)
        => core \in {"created", "running"}
    /\ destroys <= 1
    /\ \A t \in Threads : pc[t] \in {"ctx_use", "ctx_free"} =>
        on[t] \in live /\ \A v \in Threads : on[v] = on[t] => v = t

\* A client or a context that is still alive when the core is terminated is one the
\* program leaked: clients borrow the player, and neither context flavour's drop order
\* leaves one behind (CoreRef, Drop for RenderInner, the fields of RenderContext).
\* So mpv_terminate_destroy waits for no client that nobody is left to destroy.
GoneBeforeCore ==
    core \in {"terminating", "dead"} => live \subseteq forgotten

\* "Both flavors guarantee structurally that the context is freed before the
\* player terminates" (render.rs), whatever the program does.
ContextFreedFirst == core \in {"terminating", "dead"} => live \cap Contexts = {}

\* When nobody holds the player any more and every thread is done, the core is
\* gone, and what is left of its memory was leaked on purpose.
NothingLeaks ==
    (\A t \in Threads : pc[t] = "idle") /\ builder = None /\ refs = {} =>
        /\ core \in {"none", "dead"}
        /\ \A a \in Allocations : memory[a] # "owned" \/ a \in forgotten

\* Dropping the player finishes: mpv_terminate_destroy never waits for a client,
\* a stream or a callback that in turn waits for it, unless the program leaked a
\* client or a context.
TerminationEnds ==
    \A u \in Users : pc[u] = "unregister" ~> (core = "dead" /\ pc[u] = "idle") \/ forgotten # {}
=============================================================================
