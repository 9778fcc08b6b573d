----------------------------- MODULE CallbackCell -----------------------------
(***************************************************************************)
(* What a callback slot promises, without locks, reference counts or       *)
(* libmpv: at any time there is at most one current callback.  Setting one *)
(* replaces it, clearing removes it, and neither waits for invocations.    *)
(* An invocation that starts runs the callback that is current at that     *)
(* moment, and a callback is freed once, after it was replaced or removed  *)
(* and the last invocation of it has finished.  After the owner is dropped *)
(* there is no current callback any more.                                  *)
(***************************************************************************)
CONSTANTS Threads, Closures, None

VARIABLES
    current,        \* the active callback or None
    running,        \* the callback each thread is invoking or None
    set,            \* the callbacks that have been current
    freed,          \* the callbacks that have been freed
    closed          \* the owner has been dropped

vars == <<current, running, set, freed, closed>>

Init ==
    /\ current = None /\ set = {} /\ freed = {} /\ closed = FALSE
    /\ running = [t \in Threads |-> None]

Replace(c) ==
    /\ ~closed /\ c \notin set
    /\ current' = c /\ set' = set \cup {c}
    /\ UNCHANGED <<running, freed, closed>>

Clear ==
    /\ ~closed /\ current' = None
    /\ UNCHANGED <<running, set, freed, closed>>

Start(t) ==
    /\ current # None /\ running[t] = None
    /\ running' = [running EXCEPT ![t] = current]
    /\ UNCHANGED <<current, set, freed, closed>>

\* The callback c may be freed, given the invocations that go on.
Freeable(c, going) ==
    /\ c \in set \ (freed \cup {current})
    /\ \A t \in Threads : going[t] # c

\* The last invocation of a removed callback may free it on its own thread.
Finish(t) ==
    /\ running[t] # None
    /\ running' = [running EXCEPT ![t] = None]
    /\ \/ UNCHANGED freed
       \/ Freeable(running[t], running') /\ freed' = freed \cup {running[t]}
    /\ UNCHANGED <<current, set, closed>>

Free(c) ==
    /\ Freeable(c, running) /\ freed' = freed \cup {c}
    /\ UNCHANGED <<current, running, set, closed>>

Close ==
    /\ current = None /\ closed' = TRUE
    /\ UNCHANGED <<current, running, set, freed>>

Next ==
    \/ \E c \in Closures : Replace(c) \/ Free(c)
    \/ \E t \in Threads : Start(t) \/ Finish(t)
    \/ Clear \/ Close

Spec == Init /\ [][Next]_vars
=============================================================================
