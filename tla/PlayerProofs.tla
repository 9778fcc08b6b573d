----------------------------- MODULE PlayerProofs -----------------------------
(***************************************************************************)
(* The safety properties of Player for any number of threads, clients,     *)
(* contexts, protocols and streams.  Inv ties together who holds the       *)
(* player, what the core is, and who owns which closure.                   *)
(***************************************************************************)
EXTENDS Player, TLAPS

\* A thread has an object to work on exactly inside a registration or a context's
\* life, and only one thread has it.  mpv's own thread only ever runs Mpv::drop.
WorkInv ==
    /\ \A t \in Threads :
        /\ pc[t] \in {"idle"} \cup DropLabels => on[t] = None
        /\ pc[t] \in RegisterLabels => on[t] \in OpenFns
        /\ pc[t] \in ContextLabels => on[t] \in Contexts
    /\ pc[Dispatcher] \in {"idle"} \cup DropLabels
    /\ \A t, v \in Threads : on[t] # None /\ on[t] = on[v] => t = v

\* Every use of the player is covered by a reference, and while there is one the
\* core runs.
RefInv ==
    /\ builder # None => core = "created" /\ refs = {}
    /\ refs # {} => core = "running"
    /\ \A b \in Clients \cup Contexts : lender[b] # None => lender[b] \in refs
    /\ \A u \in Users :
        /\ pc[u] \in RegisterLabels => u \in refs
        /\ pc[u] \in ContextLabels => on[u] \in refs \/ lender[on[u]] # None
    /\ \A x \in live \cap Contexts : x \in refs \/ lender[x] # None \/ x \in forgotten
    /\ \A c \in live \cap Clients : lender[c] # None \/ c \in forgotten
    /\ forgotten # {} => MayForget

\* Destruction is under way in at most one thread, when nobody holds the player.
DropInv ==
    /\ \A t, v \in Threads : pc[t] \in DropLabels /\ pc[v] \in DropLabels => t = v
    /\ \A t \in Threads :
        /\ pc[t] \in DropLabels => builder = None /\ refs = {}
        /\ pc[t] \in {"unregister", "quit"} => core \in {"created", "running"}
        /\ pc[t] = "wait" => core = "terminating"
        /\ pc[t] = "protocols" => core = "dead"
    /\ core \in {"created", "running", "terminating"} =>
        builder # None \/ refs # {} \/ \E t \in Threads : pc[t] \in DropLabels
    /\ destroys = IF core \in {"terminating", "dead"} THEN 1 ELSE 0
    /\ core \in {"none", "created"} => registry = {}
    /\ core = "dead" => registry = {} \/ \E t \in Threads : pc[t] = "protocols"

\* Which closures libmpv has, and who owns each.
ClosureInv ==
    /\ \A a \in retained : memory[a] \in {"owned", "leaked"}
    /\ \A p \in Protocols : protocol[p] # None => protocol[p] \in retained
    /\ \A s \in Streams : stream[s] = "opening" => streamFn[s] \in retained
    /\ core = "dead" => retained = {}
    /\ \A f \in registry : memory[f] = "owned"
    /\ \A x \in live \cap Contexts : memory[x] = "owned"
    /\ \A t \in Threads :
        /\ pc[t] \in {"add_ro", "push", "free_open", "create_ctx", "ctx_use", "drop_gpa", "ctx_free"} =>
            memory[on[t]] = "owned"
        /\ pc[t] \in {"add_ro", "free_open", "drop_gpa"} => on[t] \notin retained \cup registry
        /\ pc[t] \in {"push"} => on[t] \notin registry
        /\ pc[t] \in {"create_ctx", "drop_gpa", "ctx_core"} => on[t] \notin live
        /\ pc[t] \in {"ctx_use", "ctx_free"} => on[t] \in live
        /\ pc[t] = "ctx_core" => memory[on[t]] \in {"freed", "leaked"}
    /\ \A a \in Allocations : memory[a] = "owned" =>
        a \in registry \cup (live \cap Contexts) \/ \E t \in Threads : on[t] = a

Inv == WorkInv /\ RefInv /\ DropInv /\ ClosureInv
-----------------------------------------------------------------------------
\* Types: a thread in an operation has an object of the right kind.
LEMMA KeepsTypes == TypeOK /\ Inv /\ [Next]_vars => TypeOK'
<1>. USE ConstantsAssumption DEF Threads, Allocations, Holders, ContextLabels, RegisterLabels,
         DropLabels, Goto, Start, Finish, Release, AfterRelease, mpv, crate
<1>. SUFFICES ASSUME TypeOK, Inv, [Next]_vars PROVE TypeOK'
  OBVIOUS
<1>. USE DEF TypeOK, Inv, WorkInv
<1>1. ASSUME NEW u \in Users, NewBuilder(u)
     PROVE  TypeOK'
  BY <1>1 DEF NewBuilder
<1>2. ASSUME NEW u \in Users, Build(u)
     PROVE  TypeOK'
  BY <1>2 DEF Build
<1>3. ASSUME NEW u \in Users, DropBuilder(u)
     PROVE  TypeOK'
  BY <1>3 DEF DropBuilder
<1>4. ASSUME NEW u \in Users, DropArc(u)
     PROVE  TypeOK'
  BY <1>4 DEF DropArc
<1>5. ASSUME NEW t \in Threads, Unregister(t)
     PROVE  TypeOK'
  BY <1>5 DEF Unregister
<1>6. ASSUME NEW t \in Threads, Quit(t)
     PROVE  TypeOK'
  BY <1>6 DEF Quit
<1>7. ASSUME NEW t \in Threads, Terminated(t)
     PROVE  TypeOK'
  BY <1>7 DEF Terminated
<1>8. ASSUME NEW t \in Threads, DropProtocols(t)
     PROVE  TypeOK'
  BY <1>8 DEF DropProtocols
<1>9. ASSUME NEW u \in Users, NEW v \in Users, CloneArc(u, v)
     PROVE  TypeOK'
  BY <1>9 DEF CloneArc
<1>10. ASSUME NEW u \in Users, NEW c \in Clients, CreateClient(u, c)
     PROVE  TypeOK'
  BY <1>10 DEF CreateClient
<1>11. ASSUME NEW c \in Clients, DropClient(c)
     PROVE  TypeOK'
  BY <1>11 DEF DropClient
<1>12. ASSUME NEW b \in Clients \cup Contexts, Leak(b)
     PROVE  TypeOK'
  BY <1>12 DEF Leak
<1>13. ASSUME NEW u \in Users, NEW f \in OpenFns, BeginRegister(u, f)
     PROVE  TypeOK'
  BY <1>13 DEF BeginRegister
<1>14. ASSUME NEW u \in Users, NEW p \in Protocols, AddRo(u, p)
     PROVE  TypeOK'
  BY <1>14 DEF AddRo
<1>15. ASSUME NEW u \in Users, AddRoFails(u)
     PROVE  TypeOK'
  BY <1>15 DEF AddRoFails
<1>16. ASSUME NEW u \in Users, Push(u)
     PROVE  TypeOK'
  BY <1>16 DEF Push
<1>17. ASSUME NEW u \in Users, FreeOpen(u)
     PROVE  TypeOK'
  BY <1>17 DEF FreeOpen
<1>18. ASSUME NEW s \in Streams, NEW p \in Protocols, OpenStream(s, p)
     PROVE  TypeOK'
  BY <1>18 DEF OpenStream
<1>19. ASSUME NEW s \in Streams, Opened(s)
     PROVE  TypeOK'
  BY <1>19 DEF Opened
<1>20. ASSUME NEW s \in Streams, CloseStream(s)
     PROVE  TypeOK'
  BY <1>20 DEF CloseStream
<1>21. ASSUME NEW u \in Users, NEW x \in Contexts, NEW flavor \in {"borrowed", "cloned", "moved"}, BeginContext(u, x, flavor)
     PROVE  TypeOK'
  BY <1>21 DEF BeginContext
<1>22. ASSUME NEW u \in Users, ContextCreated(u)
     PROVE  TypeOK'
  BY <1>22 DEF ContextCreated
<1>23. ASSUME NEW u \in Users, ContextFailed(u)
     PROVE  TypeOK'
  BY <1>23 DEF ContextFailed
<1>24. ASSUME NEW u \in Users, ContextNull(u)
     PROVE  TypeOK'
  BY <1>24 DEF ContextNull
<1>25. ASSUME NEW u \in Users, NEW x \in Contexts, DropContext(u, x)
     PROVE  TypeOK'
  BY <1>25 DEF DropContext, Exclusive
<1>26. ASSUME NEW u \in Users, FreeContext(u)
     PROVE  TypeOK'
  BY <1>26 DEF FreeContext
<1>27. ASSUME NEW u \in Users, DropGpa(u)
     PROVE  TypeOK'
  BY <1>27 DEF DropGpa
<1>28. ASSUME NEW u \in Users, DropCoreRef(u)
     PROVE  TypeOK'
  BY <1>28 DEF DropCoreRef
<1>29. ASSUME NEW u \in Users, NEW kind \in {"plain", "arc"}, SetWakeup(u, kind)
     PROVE  TypeOK'
  BY <1>29 DEF SetWakeup
<1>30. ASSUME NEW u \in Users, ClearWakeup(u)
     PROVE  TypeOK'
  BY <1>30 DEF ClearWakeup
<1>31. ASSUME Dispatch
     PROVE  TypeOK'
  BY <1>31 DEF Dispatch
<1>32. ASSUME EndDispatch
     PROVE  TypeOK'
  BY <1>32 DEF EndDispatch
<1>33. ASSUME NEW u \in Users, NEW x \in Contexts, UseContext(u, x)
     PROVE  TypeOK'
  BY <1>33 DEF UseContext, Exclusive
<1>34. ASSUME NEW u \in Users, ContextUsed(u)
     PROVE  TypeOK'
  BY <1>34 DEF ContextUsed
<1>35. CASE UNCHANGED vars
  BY <1>35 DEF vars, mpv, crate
<1>. QED BY <1>1, <1>2, <1>3, <1>4, <1>5, <1>6, <1>7, <1>8, <1>9, <1>10,
         <1>11, <1>12, <1>13, <1>14, <1>15, <1>16, <1>17, <1>18, <1>19, <1>20,
         <1>21, <1>22, <1>23, <1>24, <1>25, <1>26, <1>27, <1>28, <1>29, <1>30,
         <1>31, <1>32, <1>33, <1>34, <1>35
     DEF Next, UserStep, Step, Demuxer, Threads

\* The work of each thread: a new object is nobody else's.
LEMMA KeepsWork == TypeOK /\ Inv /\ [Next]_vars => WorkInv'
<1>. USE ConstantsAssumption DEF Threads, Allocations, Holders, ContextLabels, RegisterLabels,
         DropLabels, Goto, Start, Finish, Release, AfterRelease, mpv, crate
<1>. SUFFICES ASSUME TypeOK, Inv, [Next]_vars PROVE WorkInv'
  OBVIOUS
<1>. USE DEF TypeOK, Inv, WorkInv
<1>1. ASSUME NEW u \in Users, NewBuilder(u)
     PROVE  WorkInv'
  BY <1>1 DEF NewBuilder
<1>2. ASSUME NEW u \in Users, Build(u)
     PROVE  WorkInv'
  BY <1>2 DEF Build
<1>3. ASSUME NEW u \in Users, DropBuilder(u)
     PROVE  WorkInv'
  BY <1>3 DEF DropBuilder
<1>4. ASSUME NEW u \in Users, DropArc(u)
     PROVE  WorkInv'
  BY <1>4 DEF DropArc
<1>5. ASSUME NEW t \in Threads, Unregister(t)
     PROVE  WorkInv'
  BY <1>5 DEF Unregister
<1>6. ASSUME NEW t \in Threads, Quit(t)
     PROVE  WorkInv'
  BY <1>6 DEF Quit
<1>7. ASSUME NEW t \in Threads, Terminated(t)
     PROVE  WorkInv'
  BY <1>7 DEF Terminated
<1>8. ASSUME NEW t \in Threads, DropProtocols(t)
     PROVE  WorkInv'
  BY <1>8 DEF DropProtocols
<1>9. ASSUME NEW u \in Users, NEW v \in Users, CloneArc(u, v)
     PROVE  WorkInv'
  BY <1>9 DEF CloneArc
<1>10. ASSUME NEW u \in Users, NEW c \in Clients, CreateClient(u, c)
     PROVE  WorkInv'
  BY <1>10 DEF CreateClient
<1>11. ASSUME NEW c \in Clients, DropClient(c)
     PROVE  WorkInv'
  BY <1>11 DEF DropClient
<1>12. ASSUME NEW b \in Clients \cup Contexts, Leak(b)
     PROVE  WorkInv'
  BY <1>12 DEF Leak
<1>13. ASSUME NEW u \in Users, NEW f \in OpenFns, BeginRegister(u, f)
     PROVE  WorkInv'
  BY <1>13 DEF BeginRegister, ClosureInv
<1>14. ASSUME NEW u \in Users, NEW p \in Protocols, AddRo(u, p)
     PROVE  WorkInv'
  BY <1>14 DEF AddRo
<1>15. ASSUME NEW u \in Users, AddRoFails(u)
     PROVE  WorkInv'
  BY <1>15 DEF AddRoFails
<1>16. ASSUME NEW u \in Users, Push(u)
     PROVE  WorkInv'
  BY <1>16 DEF Push
<1>17. ASSUME NEW u \in Users, FreeOpen(u)
     PROVE  WorkInv'
  BY <1>17 DEF FreeOpen
<1>18. ASSUME NEW s \in Streams, NEW p \in Protocols, OpenStream(s, p)
     PROVE  WorkInv'
  BY <1>18 DEF OpenStream
<1>19. ASSUME NEW s \in Streams, Opened(s)
     PROVE  WorkInv'
  BY <1>19 DEF Opened
<1>20. ASSUME NEW s \in Streams, CloseStream(s)
     PROVE  WorkInv'
  BY <1>20 DEF CloseStream
<1>21. ASSUME NEW u \in Users, NEW x \in Contexts, NEW flavor \in {"borrowed", "cloned", "moved"}, BeginContext(u, x, flavor)
     PROVE  WorkInv'
  BY <1>21 DEF BeginContext, ClosureInv
<1>22. ASSUME NEW u \in Users, ContextCreated(u)
     PROVE  WorkInv'
  BY <1>22 DEF ContextCreated
<1>23. ASSUME NEW u \in Users, ContextFailed(u)
     PROVE  WorkInv'
  BY <1>23 DEF ContextFailed
<1>24. ASSUME NEW u \in Users, ContextNull(u)
     PROVE  WorkInv'
  BY <1>24 DEF ContextNull
<1>25. ASSUME NEW u \in Users, NEW x \in Contexts, DropContext(u, x)
     PROVE  WorkInv'
  BY <1>25 DEF DropContext, Exclusive
<1>26. ASSUME NEW u \in Users, FreeContext(u)
     PROVE  WorkInv'
  BY <1>26 DEF FreeContext
<1>27. ASSUME NEW u \in Users, DropGpa(u)
     PROVE  WorkInv'
  BY <1>27 DEF DropGpa
<1>28. ASSUME NEW u \in Users, DropCoreRef(u)
     PROVE  WorkInv'
  BY <1>28 DEF DropCoreRef
<1>29. ASSUME NEW u \in Users, NEW kind \in {"plain", "arc"}, SetWakeup(u, kind)
     PROVE  WorkInv'
  BY <1>29 DEF SetWakeup
<1>30. ASSUME NEW u \in Users, ClearWakeup(u)
     PROVE  WorkInv'
  BY <1>30 DEF ClearWakeup
<1>31. ASSUME Dispatch
     PROVE  WorkInv'
  BY <1>31 DEF Dispatch
<1>32. ASSUME EndDispatch
     PROVE  WorkInv'
  BY <1>32 DEF EndDispatch
<1>33. ASSUME NEW u \in Users, NEW x \in Contexts, UseContext(u, x)
     PROVE  WorkInv'
  BY <1>33 DEF UseContext, Exclusive
<1>34. ASSUME NEW u \in Users, ContextUsed(u)
     PROVE  WorkInv'
  BY <1>34 DEF ContextUsed
<1>35. CASE UNCHANGED vars
  BY <1>35 DEF vars, mpv, crate
<1>. QED BY <1>1, <1>2, <1>3, <1>4, <1>5, <1>6, <1>7, <1>8, <1>9, <1>10,
         <1>11, <1>12, <1>13, <1>14, <1>15, <1>16, <1>17, <1>18, <1>19, <1>20,
         <1>21, <1>22, <1>23, <1>24, <1>25, <1>26, <1>27, <1>28, <1>29, <1>30,
         <1>31, <1>32, <1>33, <1>34, <1>35
     DEF Next, UserStep, Step, Demuxer, Threads

\* References.
LEMMA KeepsRefs == TypeOK /\ Inv /\ [Next]_vars => RefInv'
<1>. USE ConstantsAssumption DEF Threads, Allocations, Holders, ContextLabels, RegisterLabels,
         DropLabels, Goto, Start, Finish, Release, AfterRelease, mpv, crate
<1>. SUFFICES ASSUME TypeOK, Inv, [Next]_vars PROVE RefInv'
  OBVIOUS
<1>. USE DEF TypeOK, Inv, WorkInv, RefInv, DropInv
<1>1. ASSUME NEW u \in Users, NewBuilder(u)
     PROVE  RefInv'
  BY <1>1 DEF NewBuilder
<1>2. ASSUME NEW u \in Users, Build(u)
     PROVE  RefInv'
  BY <1>2 DEF Build
<1>3. ASSUME NEW u \in Users, DropBuilder(u)
     PROVE  RefInv'
  BY <1>3 DEF DropBuilder
<1>4. ASSUME NEW u \in Users, DropArc(u)
     PROVE  RefInv'
  BY <1>4 DEF DropArc
<1>5. ASSUME NEW t \in Threads, Unregister(t)
     PROVE  RefInv'
  BY <1>5 DEF Unregister
<1>6. ASSUME NEW t \in Threads, Quit(t)
     PROVE  RefInv'
  BY <1>6 DEF Quit
<1>7. ASSUME NEW t \in Threads, Terminated(t)
     PROVE  RefInv'
  BY <1>7 DEF Terminated
<1>8. ASSUME NEW t \in Threads, DropProtocols(t)
     PROVE  RefInv'
  BY <1>8 DEF DropProtocols
<1>9. ASSUME NEW u \in Users, NEW v \in Users, CloneArc(u, v)
     PROVE  RefInv'
  BY <1>9 DEF CloneArc
<1>10. ASSUME NEW u \in Users, NEW c \in Clients, CreateClient(u, c)
     PROVE  RefInv'
  BY <1>10 DEF CreateClient
<1>11. ASSUME NEW c \in Clients, DropClient(c)
     PROVE  RefInv'
  BY <1>11 DEF DropClient
<1>12. ASSUME NEW b \in Clients \cup Contexts, Leak(b)
     PROVE  RefInv'
  BY <1>12 DEF Leak
<1>13. ASSUME NEW u \in Users, NEW f \in OpenFns, BeginRegister(u, f)
     PROVE  RefInv'
  BY <1>13 DEF BeginRegister
<1>14. ASSUME NEW u \in Users, NEW p \in Protocols, AddRo(u, p)
     PROVE  RefInv'
  BY <1>14 DEF AddRo
<1>15. ASSUME NEW u \in Users, AddRoFails(u)
     PROVE  RefInv'
  BY <1>15 DEF AddRoFails
<1>16. ASSUME NEW u \in Users, Push(u)
     PROVE  RefInv'
  BY <1>16 DEF Push
<1>17. ASSUME NEW u \in Users, FreeOpen(u)
     PROVE  RefInv'
  BY <1>17 DEF FreeOpen
<1>18. ASSUME NEW s \in Streams, NEW p \in Protocols, OpenStream(s, p)
     PROVE  RefInv'
  BY <1>18 DEF OpenStream
<1>19. ASSUME NEW s \in Streams, Opened(s)
     PROVE  RefInv'
  BY <1>19 DEF Opened
<1>20. ASSUME NEW s \in Streams, CloseStream(s)
     PROVE  RefInv'
  BY <1>20 DEF CloseStream
<1>21. ASSUME NEW u \in Users, NEW x \in Contexts, NEW flavor \in {"borrowed", "cloned", "moved"}, BeginContext(u, x, flavor)
     PROVE  RefInv'
  BY <1>21 DEF BeginContext
<1>22. ASSUME NEW u \in Users, ContextCreated(u)
     PROVE  RefInv'
  BY <1>22 DEF ContextCreated
<1>23. ASSUME NEW u \in Users, ContextFailed(u)
     PROVE  RefInv'
  BY <1>23 DEF ContextFailed
<1>24. ASSUME NEW u \in Users, ContextNull(u)
     PROVE  RefInv'
  BY <1>24 DEF ContextNull
<1>25. ASSUME NEW u \in Users, NEW x \in Contexts, DropContext(u, x)
     PROVE  RefInv'
  BY <1>25 DEF DropContext, Exclusive
<1>26. ASSUME NEW u \in Users, FreeContext(u)
     PROVE  RefInv'
  BY <1>26 DEF FreeContext
<1>27. ASSUME NEW u \in Users, DropGpa(u)
     PROVE  RefInv'
  BY <1>27 DEF DropGpa
<1>28. ASSUME NEW u \in Users, DropCoreRef(u)
     PROVE  RefInv'
  BY <1>28 DEF DropCoreRef, ClosureInv
<1>29. ASSUME NEW u \in Users, NEW kind \in {"plain", "arc"}, SetWakeup(u, kind)
     PROVE  RefInv'
  BY <1>29 DEF SetWakeup
<1>30. ASSUME NEW u \in Users, ClearWakeup(u)
     PROVE  RefInv'
  BY <1>30 DEF ClearWakeup
<1>31. ASSUME Dispatch
     PROVE  RefInv'
  BY <1>31 DEF Dispatch
<1>32. ASSUME EndDispatch
     PROVE  RefInv'
  BY <1>32 DEF EndDispatch
<1>33. ASSUME NEW u \in Users, NEW x \in Contexts, UseContext(u, x)
     PROVE  RefInv'
  BY <1>33 DEF UseContext, Exclusive
<1>34. ASSUME NEW u \in Users, ContextUsed(u)
     PROVE  RefInv'
  BY <1>34 DEF ContextUsed
<1>35. CASE UNCHANGED vars
  BY <1>35 DEF vars, mpv, crate
<1>. QED BY <1>1, <1>2, <1>3, <1>4, <1>5, <1>6, <1>7, <1>8, <1>9, <1>10,
         <1>11, <1>12, <1>13, <1>14, <1>15, <1>16, <1>17, <1>18, <1>19, <1>20,
         <1>21, <1>22, <1>23, <1>24, <1>25, <1>26, <1>27, <1>28, <1>29, <1>30,
         <1>31, <1>32, <1>33, <1>34, <1>35
     DEF Next, UserStep, Step, Demuxer, Threads

\* Destruction.
LEMMA KeepsDrop == TypeOK /\ Inv /\ [Next]_vars => DropInv'
<1>. USE ConstantsAssumption DEF Threads, Allocations, Holders, ContextLabels, RegisterLabels,
         DropLabels, Goto, Start, Finish, Release, AfterRelease, mpv, crate
<1>. SUFFICES ASSUME TypeOK, Inv, [Next]_vars PROVE DropInv'
  OBVIOUS
<1>. USE DEF TypeOK, Inv, WorkInv, RefInv, DropInv
<1>1. ASSUME NEW u \in Users, NewBuilder(u)
     PROVE  DropInv'
  BY <1>1 DEF NewBuilder
<1>2. ASSUME NEW u \in Users, Build(u)
     PROVE  DropInv'
  BY <1>2 DEF Build
<1>3. ASSUME NEW u \in Users, DropBuilder(u)
     PROVE  DropInv'
  BY <1>3 DEF DropBuilder
<1>4. ASSUME NEW u \in Users, DropArc(u)
     PROVE  DropInv'
  BY <1>4 DEF DropArc
<1>5. ASSUME NEW t \in Threads, Unregister(t)
     PROVE  DropInv'
  BY <1>5 DEF Unregister
<1>6. ASSUME NEW t \in Threads, Quit(t)
     PROVE  DropInv'
  BY <1>6 DEF Quit
<1>7. ASSUME NEW t \in Threads, Terminated(t)
     PROVE  DropInv'
  BY <1>7 DEF Terminated
<1>8. ASSUME NEW t \in Threads, DropProtocols(t)
     PROVE  DropInv'
  BY <1>8 DEF DropProtocols
<1>9. ASSUME NEW u \in Users, NEW v \in Users, CloneArc(u, v)
     PROVE  DropInv'
  BY <1>9 DEF CloneArc
<1>10. ASSUME NEW u \in Users, NEW c \in Clients, CreateClient(u, c)
     PROVE  DropInv'
  BY <1>10 DEF CreateClient
<1>11. ASSUME NEW c \in Clients, DropClient(c)
     PROVE  DropInv'
  BY <1>11 DEF DropClient
<1>12. ASSUME NEW b \in Clients \cup Contexts, Leak(b)
     PROVE  DropInv'
  BY <1>12 DEF Leak
<1>13. ASSUME NEW u \in Users, NEW f \in OpenFns, BeginRegister(u, f)
     PROVE  DropInv'
  BY <1>13 DEF BeginRegister
<1>14. ASSUME NEW u \in Users, NEW p \in Protocols, AddRo(u, p)
     PROVE  DropInv'
  BY <1>14 DEF AddRo
<1>15. ASSUME NEW u \in Users, AddRoFails(u)
     PROVE  DropInv'
  BY <1>15 DEF AddRoFails
<1>16. ASSUME NEW u \in Users, Push(u)
     PROVE  DropInv'
  BY <1>16 DEF Push
<1>17. ASSUME NEW u \in Users, FreeOpen(u)
     PROVE  DropInv'
  BY <1>17 DEF FreeOpen
<1>18. ASSUME NEW s \in Streams, NEW p \in Protocols, OpenStream(s, p)
     PROVE  DropInv'
  BY <1>18 DEF OpenStream
<1>19. ASSUME NEW s \in Streams, Opened(s)
     PROVE  DropInv'
  BY <1>19 DEF Opened
<1>20. ASSUME NEW s \in Streams, CloseStream(s)
     PROVE  DropInv'
  BY <1>20 DEF CloseStream
<1>21. ASSUME NEW u \in Users, NEW x \in Contexts, NEW flavor \in {"borrowed", "cloned", "moved"}, BeginContext(u, x, flavor)
     PROVE  DropInv'
  BY <1>21 DEF BeginContext
<1>22. ASSUME NEW u \in Users, ContextCreated(u)
     PROVE  DropInv'
  BY <1>22 DEF ContextCreated
<1>23. ASSUME NEW u \in Users, ContextFailed(u)
     PROVE  DropInv'
  BY <1>23 DEF ContextFailed
<1>24. ASSUME NEW u \in Users, ContextNull(u)
     PROVE  DropInv'
  BY <1>24 DEF ContextNull
<1>25. ASSUME NEW u \in Users, NEW x \in Contexts, DropContext(u, x)
     PROVE  DropInv'
  BY <1>25 DEF DropContext, Exclusive
<1>26. ASSUME NEW u \in Users, FreeContext(u)
     PROVE  DropInv'
  BY <1>26 DEF FreeContext
<1>27. ASSUME NEW u \in Users, DropGpa(u)
     PROVE  DropInv'
  BY <1>27 DEF DropGpa
<1>28. ASSUME NEW u \in Users, DropCoreRef(u)
     PROVE  DropInv'
  BY <1>28 DEF DropCoreRef
<1>29. ASSUME NEW u \in Users, NEW kind \in {"plain", "arc"}, SetWakeup(u, kind)
     PROVE  DropInv'
  BY <1>29 DEF SetWakeup
<1>30. ASSUME NEW u \in Users, ClearWakeup(u)
     PROVE  DropInv'
  BY <1>30 DEF ClearWakeup
<1>31. ASSUME Dispatch
     PROVE  DropInv'
  BY <1>31 DEF Dispatch
<1>32. ASSUME EndDispatch
     PROVE  DropInv'
  BY <1>32 DEF EndDispatch
<1>33. ASSUME NEW u \in Users, NEW x \in Contexts, UseContext(u, x)
     PROVE  DropInv'
  BY <1>33 DEF UseContext, Exclusive
<1>34. ASSUME NEW u \in Users, ContextUsed(u)
     PROVE  DropInv'
  BY <1>34 DEF ContextUsed
<1>35. CASE UNCHANGED vars
  BY <1>35 DEF vars, mpv, crate
<1>. QED BY <1>1, <1>2, <1>3, <1>4, <1>5, <1>6, <1>7, <1>8, <1>9, <1>10,
         <1>11, <1>12, <1>13, <1>14, <1>15, <1>16, <1>17, <1>18, <1>19, <1>20,
         <1>21, <1>22, <1>23, <1>24, <1>25, <1>26, <1>27, <1>28, <1>29, <1>30,
         <1>31, <1>32, <1>33, <1>34, <1>35
     DEF Next, UserStep, Step, Demuxer, Threads

\* Closures: libmpv's pointers, and the owners.
LEMMA KeepsClosures == TypeOK /\ Inv /\ [Next]_vars => ClosureInv'
<1>. USE ConstantsAssumption DEF Threads, Allocations, Holders, ContextLabels, RegisterLabels,
         DropLabels, Goto, Start, Finish, Release, AfterRelease, mpv, crate
<1>. SUFFICES ASSUME TypeOK, Inv, [Next]_vars PROVE ClosureInv'
  OBVIOUS
<1>. USE DEF TypeOK, Inv, WorkInv, RefInv, DropInv, ClosureInv
<1>1. ASSUME NEW u \in Users, NewBuilder(u)
     PROVE  ClosureInv'
  BY <1>1 DEF NewBuilder
<1>2. ASSUME NEW u \in Users, Build(u)
     PROVE  ClosureInv'
  BY <1>2 DEF Build
<1>3. ASSUME NEW u \in Users, DropBuilder(u)
     PROVE  ClosureInv'
  BY <1>3 DEF DropBuilder
<1>4. ASSUME NEW u \in Users, DropArc(u)
     PROVE  ClosureInv'
  BY <1>4 DEF DropArc
<1>5. ASSUME NEW t \in Threads, Unregister(t)
     PROVE  ClosureInv'
  BY <1>5 DEF Unregister
<1>6. ASSUME NEW t \in Threads, Quit(t)
     PROVE  ClosureInv'
  BY <1>6 DEF Quit
<1>7. ASSUME NEW t \in Threads, Terminated(t)
     PROVE  ClosureInv'
  BY <1>7 DEF Terminated
<1>8. ASSUME NEW t \in Threads, DropProtocols(t)
     PROVE  ClosureInv'
  BY <1>8 DEF DropProtocols
<1>9. ASSUME NEW u \in Users, NEW v \in Users, CloneArc(u, v)
     PROVE  ClosureInv'
  BY <1>9 DEF CloneArc
<1>10. ASSUME NEW u \in Users, NEW c \in Clients, CreateClient(u, c)
     PROVE  ClosureInv'
  BY <1>10 DEF CreateClient
<1>11. ASSUME NEW c \in Clients, DropClient(c)
     PROVE  ClosureInv'
  BY <1>11 DEF DropClient
<1>12. ASSUME NEW b \in Clients \cup Contexts, Leak(b)
     PROVE  ClosureInv'
  BY <1>12 DEF Leak
<1>13. ASSUME NEW u \in Users, NEW f \in OpenFns, BeginRegister(u, f)
     PROVE  ClosureInv'
  BY <1>13 DEF BeginRegister
<1>14. ASSUME NEW u \in Users, NEW p \in Protocols, AddRo(u, p)
     PROVE  ClosureInv'
  BY <1>14 DEF AddRo
<1>15. ASSUME NEW u \in Users, AddRoFails(u)
     PROVE  ClosureInv'
  BY <1>15 DEF AddRoFails
<1>16. ASSUME NEW u \in Users, Push(u)
     PROVE  ClosureInv'
  BY <1>16 DEF Push
<1>17. ASSUME NEW u \in Users, FreeOpen(u)
     PROVE  ClosureInv'
  BY <1>17 DEF FreeOpen
<1>18. ASSUME NEW s \in Streams, NEW p \in Protocols, OpenStream(s, p)
     PROVE  ClosureInv'
  BY <1>18 DEF OpenStream
<1>19. ASSUME NEW s \in Streams, Opened(s)
     PROVE  ClosureInv'
  BY <1>19 DEF Opened
<1>20. ASSUME NEW s \in Streams, CloseStream(s)
     PROVE  ClosureInv'
  BY <1>20 DEF CloseStream
<1>21. ASSUME NEW u \in Users, NEW x \in Contexts, NEW flavor \in {"borrowed", "cloned", "moved"}, BeginContext(u, x, flavor)
     PROVE  ClosureInv'
  BY <1>21 DEF BeginContext
<1>22. ASSUME NEW u \in Users, ContextCreated(u)
     PROVE  ClosureInv'
  BY <1>22 DEF ContextCreated
<1>23. ASSUME NEW u \in Users, ContextFailed(u)
     PROVE  ClosureInv'
  BY <1>23 DEF ContextFailed
<1>24. ASSUME NEW u \in Users, ContextNull(u)
     PROVE  ClosureInv'
  BY <1>24 DEF ContextNull
<1>25. ASSUME NEW u \in Users, NEW x \in Contexts, DropContext(u, x)
     PROVE  ClosureInv'
  BY <1>25 DEF DropContext, Exclusive
<1>26. ASSUME NEW u \in Users, FreeContext(u)
     PROVE  ClosureInv'
  BY <1>26 DEF FreeContext
<1>27. ASSUME NEW u \in Users, DropGpa(u)
     PROVE  ClosureInv'
  BY <1>27 DEF DropGpa
<1>28. ASSUME NEW u \in Users, DropCoreRef(u)
     PROVE  ClosureInv'
  BY <1>28 DEF DropCoreRef
<1>29. ASSUME NEW u \in Users, NEW kind \in {"plain", "arc"}, SetWakeup(u, kind)
     PROVE  ClosureInv'
  BY <1>29 DEF SetWakeup
<1>30. ASSUME NEW u \in Users, ClearWakeup(u)
     PROVE  ClosureInv'
  BY <1>30 DEF ClearWakeup
<1>31. ASSUME Dispatch
     PROVE  ClosureInv'
  BY <1>31 DEF Dispatch
<1>32. ASSUME EndDispatch
     PROVE  ClosureInv'
  BY <1>32 DEF EndDispatch
<1>33. ASSUME NEW u \in Users, NEW x \in Contexts, UseContext(u, x)
     PROVE  ClosureInv'
  BY <1>33 DEF UseContext, Exclusive
<1>34. ASSUME NEW u \in Users, ContextUsed(u)
     PROVE  ClosureInv'
  BY <1>34 DEF ContextUsed
<1>35. CASE UNCHANGED vars
  BY <1>35 DEF vars, mpv, crate
<1>. QED BY <1>1, <1>2, <1>3, <1>4, <1>5, <1>6, <1>7, <1>8, <1>9, <1>10,
         <1>11, <1>12, <1>13, <1>14, <1>15, <1>16, <1>17, <1>18, <1>19, <1>20,
         <1>21, <1>22, <1>23, <1>24, <1>25, <1>26, <1>27, <1>28, <1>29, <1>30,
         <1>31, <1>32, <1>33, <1>34, <1>35
     DEF Next, UserStep, Step, Demuxer, Threads

\* The inductive invariant holds in every reachable state.
THEOREM Invariance == Spec => [](TypeOK /\ Inv)
<1>. USE ConstantsAssumption DEF Threads, Allocations, Holders, ContextLabels, RegisterLabels, DropLabels
<1>1. Init => TypeOK
  <2>. SUFFICES ASSUME Init PROVE TypeOK
    OBVIOUS
  <2>1. lender \in [Clients \cup Contexts -> Users \cup {None}]
    BY DEF Init
  <2>2. memory \in [Allocations -> {"none", "owned", "freed", "leaked"}]
    BY DEF Init
  <2>3. on \in [Threads -> Allocations \cup {None}]
    BY DEF Init
  <2>4. protocol \in [Protocols -> OpenFns \cup {None}]
    BY DEF Init
  <2>5. stream \in [Streams -> {"closed", "opening", "open"}]
    BY DEF Init
  <2>6. streamFn \in [Streams -> OpenFns \cup {None}]
    BY DEF Init
  <2>. QED BY <2>1, <2>2, <2>3, <2>4, <2>5, <2>6 DEF Init, TypeOK
<1>2. Init => Inv
  BY DEF Init, Inv, WorkInv, RefInv, DropInv, ClosureInv
<1>3. TypeOK /\ Inv /\ [Next]_vars => TypeOK' /\ Inv'
  BY KeepsTypes, KeepsWork, KeepsRefs, KeepsDrop, KeepsClosures DEF Inv
<1>. QED BY <1>1, <1>2, <1>3, PTL DEF Spec

\* Every reachable state is typed.
THEOREM Typing == Spec => []TypeOK
BY Invariance, PTL

\* libmpv never has a pointer to a freed closure (ClosuresOutliveUse), whatever
\* the order in which the threads register, render, leak and drop.
THEOREM ClosuresValid == Spec => []ClosuresOutliveUse
<1>1. TypeOK /\ Inv => ClosuresOutliveUse
  BY DEF TypeOK, Inv, ClosureInv, ClosuresOutliveUse
<1>. QED BY <1>1, Invariance, PTL

\* A holder's or a caller's handle is valid, the core is terminated once, and calls on
\* one render context never overlap.
THEOREM HandleLife == Spec => []HandlesValid
<1>1. TypeOK /\ Inv => HandlesValid
  <2>. SUFFICES ASSUME TypeOK, Inv PROVE HandlesValid
    OBVIOUS
  <2>. USE ConstantsAssumption DEF TypeOK, Inv, WorkInv, RefInv, DropInv, Threads, ContextLabels,
           RegisterLabels, DropLabels
  <2>1. builder # None \/ refs # {} => core \in {"created", "running"}
    OBVIOUS
  <2>2. ASSUME NEW b \in Clients \cup Contexts, lender[b] # None PROVE refs # {}
    BY <2>2
  <2>3. ASSUME NEW t \in Threads, pc[t] \in InCall PROVE core \in {"created", "running"}
    <3>1. CASE pc[t] \in {"unregister", "quit"}
      BY <3>1
    <3>2. CASE pc[t] = "add_ro"
      BY <3>2, <2>1
    <3>3. CASE pc[t] \in {"create_ctx", "ctx_use", "ctx_free"}
      BY <3>3, <2>1, <2>2
    <3>. QED BY <2>3, <3>1, <3>2, <3>3 DEF InCall
  <2>4. destroys <= 1
    OBVIOUS
  <2>5. ASSUME NEW t \in Threads, pc[t] \in {"ctx_use", "ctx_free"}
        PROVE  on[t] \in live /\ \A v \in Threads : on[v] = on[t] => v = t
    <3>1. on[t] \in live
      BY <2>5 DEF ClosureInv
    <3>2. on[t] # None
      BY <2>5
    <3>. QED BY <3>1, <3>2
  <2>. QED BY <2>1, <2>2, <2>3, <2>4, <2>5 DEF HandlesValid
<1>. QED BY <1>1, Invariance, PTL

\* A client or a context alive when the core is terminated is one the program leaked.
THEOREM GoneFirst == Spec => []GoneBeforeCore
<1>1. TypeOK /\ Inv => GoneBeforeCore
  BY ConstantsAssumption DEF TypeOK, Inv, RefInv, GoneBeforeCore
<1>. QED BY <1>1, Invariance, PTL

\* The safety half of TerminationEnds.  While a thread of the program is inside
\* mpv_terminate_destroy and nothing was leaked, no client or context is left to wait
\* for, no thread is inside a call on the player, and an invocation of the callback
\* that still runs is not itself inside Mpv::drop: only libmpv's own streams and a
\* callback that can return are left.
TerminationUnblocked ==
    \A u \in Users : pc[u] = "wait" /\ forgotten = {} =>
        live = {} /\ \A t \in Threads \ {u} : pc[t] = "idle"
THEOREM TerminationFree == Spec => []TerminationUnblocked
<1>1. TypeOK /\ Inv => TerminationUnblocked
  <2>. SUFFICES ASSUME TypeOK, Inv, NEW u \in Users, pc[u] = "wait", forgotten = {}
       PROVE  live = {} /\ \A t \in Threads \ {u} : pc[t] = "idle"
    BY DEF TerminationUnblocked
  <2>. USE ConstantsAssumption DEF TypeOK, Inv, Threads, DropLabels
  <2>1. refs = {} /\ builder = None /\ core = "terminating"
    BY DEF DropInv
  <2>2. live = {}
    BY <2>1 DEF RefInv
  <2>3. ASSUME NEW t \in Threads, t # u PROVE pc[t] = "idle"
    <3>1. pc[t] \notin DropLabels
      BY <2>3 DEF DropInv
    <3>2. pc[t] \notin RegisterLabels \cup ContextLabels
      BY <2>1 DEF RefInv, WorkInv, ContextLabels, RegisterLabels
    <3>. QED BY <3>1, <3>2
  <2>. QED BY <2>2, <2>3
<1>. QED BY <1>1, Invariance, PTL

\* Once nobody holds the player the core is gone and no closure is lost.
THEOREM NoLeaks == Spec => []NothingLeaks
<1>1. TypeOK /\ Inv => NothingLeaks
  <2>. SUFFICES ASSUME TypeOK, Inv, \A t \in Threads : pc[t] = "idle", builder = None, refs = {}
       PROVE  core \in {"none", "dead"} /\ \A a \in Allocations : memory[a] # "owned" \/ a \in forgotten
    BY DEF NothingLeaks
  <2>1. core \in {"none", "dead"} /\ registry = {}
    BY DEF TypeOK, Inv, DropInv, DropLabels
  <2>2. ASSUME NEW a \in Allocations, memory[a] = "owned" PROVE a \in forgotten
    BY <2>1, <2>2, ConstantsAssumption
       DEF TypeOK, Inv, WorkInv, RefInv, ClosureInv, Allocations, Threads
  <2>. QED BY <2>1, <2>2
<1>. QED BY <1>1, Invariance, PTL
=============================================================================
