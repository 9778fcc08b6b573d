----------------------------- MODULE MCEventWakeup -----------------------------
(***************************************************************************)
(* EventQueue with a history variable for what Handle::wakeup promises.    *)
(***************************************************************************)
EXTENDS EventQueue

VARIABLE owed       \* wakeup was called and no wait_event call has returned since

WaitReturned == \E t \in Threads : pc[t] \in {"wait", "wait_forever"} /\ pc'[t] = "match"

InitOwed == Init /\ owed = FALSE
Owe == owed' = ((wakeupQueued' /\ ~wakeupQueued) \/ (owed /\ ~WaitReturned))
NextOwed == Next /\ Owe
SpecOwed == /\ InitOwed /\ [][NextOwed]_<<vars, owed>>
            /\ \A t \in Threads : WF_<<vars, owed>>(Step(t) /\ Owe)

\* "Interrupt the current (or next) wait_event call on this handle" (Handle::wakeup):
\* a wait_event that is waiting after a wakeup that no wait_event has used returns.
WakeupInterruptsWait ==
    \A t \in Threads : (owed /\ pc[t] = "wait_forever") ~> pc[t] # "wait_forever"
=============================================================================
