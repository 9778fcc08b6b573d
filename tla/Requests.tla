------------------------------ MODULE Requests ------------------------------
(***************************************************************************)
(* The calls of a Handle that threads share (lib.rs, property.rs,          *)
(* error.rs): how an argument is refused, how a status becomes an Error,   *)
(* who frees what libmpv returned, and what comes back for an asynchronous *)
(* request, as an event which any thread may poll, even before the call    *)
(* that made the request has returned.                                     *)
(*                                                                         *)
(* An operation is one of                                                  *)
(*   status  set_property, command, command_string, del_property,          *)
(*           load_config_file, ...                                         *)
(*   count   unobserve_property                                            *)
(*   value   get_property of a bool, i64 or f64                            *)
(*   owned   get_property of a String or Node, command_ret, command_node   *)
(*   osd     get_property_osd_string, which has no status                  *)
(*   wait    wait_async_requests, which takes and returns nothing          *)
(*   get, set, command   the asynchronous requests                         *)
(* libmpv copies an asynchronous request's arguments during the call and   *)
(* reserves the place of its reply in the event queue, or refuses it with  *)
(* EventQueueFull.  A poll takes an event whole (EventQueue implements     *)
(* EventStream).                                                           *)
(***************************************************************************)
EXTENDS Integers, Sequences

CONSTANTS
    Threads, Requests, UserData, Formats,
    Failures,       \* the error codes libmpv returns, without their sign
    None

ASSUME FailuresAssumption == Failures \subseteq Nat \ {0}

Sync == {"status", "count", "value", "owned", "osd", "wait"}
Async == {"get", "set", "command"}
Owning == {"owned", "osd"}

VARIABLES
    pending,    \* libmpv: accepted requests without a reply
    queue,      \* libmpv: the replies in the event queue
    memory,     \* what libmpv allocated for a call's result
    given,      \* what the caller asked for
    status,     \* the status libmpv returned from the call
    outcome,    \* the status with which libmpv completed a request
    result,     \* what the method returned to its caller
    reply,      \* the owned event somebody received for a request
    pc, on      \* what each thread is doing, and for which request

vars == <<pending, queue, memory, given, status, outcome, result, reply, pc, on>>

Codes == {-f : f \in Failures} \cup {0}

Init ==
    /\ pending = {} /\ queue = <<>>
    /\ memory = [r \in Requests |-> "none"]
    /\ given = [r \in Requests |-> None]
    /\ status = [r \in Requests |-> None] /\ outcome = [r \in Requests |-> None]
    /\ result = [r \in Requests |-> None] /\ reply = [r \in Requests |-> None]
    /\ pc = [t \in Threads |-> "idle"] /\ on = [t \in Threads |-> None]

-----------------------------------------------------------------------------
Names == <<"EventQueueFull", "OutOfMemory", "Uninitialized", "InvalidParameter",
           "OptionNotFound", "OptionFormat", "OptionError", "PropertyNotFound",
           "PropertyFormat", "PropertyUnavailable", "PropertyError", "Command",
           "LoadingFailed", "AoInitFailed", "VoInitFailed", "NothingToPlay",
           "UnknownFormat", "Unsupported", "NotImplemented", "Generic">>

\* Mutant: an unknown code is a generic error.
FromRawGeneric(code) ==
    [name |-> IF -code \in DOMAIN Names THEN Names[-code] ELSE "Generic", code |-> 0]
FromRaw(code) ==
    IF -code \in DOMAIN Names THEN [name |-> Names[-code], code |-> 0]
                              ELSE [name |-> "Other", code |-> code]
\* raw_code: the codes an error stands for, none for an error of the crate's own.
RawCodes(error) ==
    IF error.name = "Other" THEN {error.code}
                            ELSE {-n : n \in {m \in DOMAIN Names : Names[m] = error.name}}

NoError == [name |-> "none", code |-> 0]
InteriorNul == [name |-> "InteriorNul", code |-> 0]
InvalidParameter == [name |-> "InvalidParameter", code |-> 0]
PropertyError == [name |-> "PropertyError", code |-> 0]
Ok(value, n) == [error |-> NoError, value |-> value, count |-> n]
Err(error) == [error |-> error, value |-> "none", count |-> 0]

-----------------------------------------------------------------------------
\* A method: its arguments are converted, libmpv is called, the status is
\* checked, and what libmpv allocated is copied and given back.

Goto(t, from, to) == pc[t] = from /\ pc' = [pc EXCEPT ![t] = to]

Ask(t, r, op, format, userdata) ==
    /\ Goto(t, "idle", "asked") /\ given[r] = None
    /\ on' = [on EXCEPT ![t] = r]
    /\ given' = [given EXCEPT ![r] = [op |-> op, format |-> format, userdata |-> userdata]]
    /\ UNCHANGED <<pending, queue, memory, status, outcome, result, reply>>

Finish(t, from, answer) ==
    /\ Goto(t, from, "idle")
    /\ result' = [result EXCEPT ![on[t]] = answer] /\ on' = [on EXCEPT ![t] = None]
    /\ UNCHANGED <<pending, queue, given, status, outcome, reply>>

\* A NUL in a name, an argument or a string of a tree, or a path that is no text:
\* libmpv is not called.
Refusals(op) ==
    CASE op \in {"count", "wait"} -> {}
      [] op = "status" -> {InteriorNul, InvalidParameter}
      [] OTHER -> {InteriorNul}
Refuse(t) ==
    /\ pc[t] = "asked" /\ \E error \in Refusals(given[on[t]].op) : Finish(t, "asked", Err(error))
    /\ UNCHANGED memory

\* Mutant: the wait goes on until the replies have been polled.
ReturnsPolled(op, code) == (code > 0 => op = "count") /\ (op = "wait" => code = 0 /\ pending = {} /\ queue = <<>>)
\* An unobserve_property that succeeds returns how many it removed, and a wait
\* returns once every pending request has posted its reply.
Returns(op, code) ==
    /\ code > 0 => op = "count"
    /\ op = "wait" => code = 0 /\ pending = {}

Call(t, code) ==
    LET r == on[t] IN
    /\ Goto(t, "asked", "returned") /\ Returns(given[r].op, code)
    /\ status' = [status EXCEPT ![r] = code]
    /\ memory' = [memory EXCEPT ![r] =
                      IF given[r].op \in Owning /\ code >= 0 THEN "live" ELSE @]
    /\ pending' = IF given[r].op \in Async /\ code >= 0 THEN pending \cup {r} ELSE pending
    /\ UNCHANGED <<queue, given, outcome, result, reply, on>>

\* The null pointer of get_property_osd_string says nothing of its cause.
CheckError(t) ==
    LET r == on[t] IN
    /\ pc[t] = "returned" /\ status[r] < 0
    /\ Finish(t, "returned",
              Err(IF given[r].op = "osd" THEN PropertyError ELSE FromRaw(status[r])))
    /\ UNCHANGED memory

CheckOk(t) ==
    LET r == on[t] IN
    /\ pc[t] = "returned" /\ status[r] >= 0 /\ given[r].op \notin Owning
    /\ Finish(t, "returned",
              CASE given[r].op = "count" -> Ok("none", status[r])
                [] given[r].op = "value" -> Ok(given[r].format, 0)
                [] OTHER -> Ok("none", 0))
    /\ UNCHANGED memory

\* Mutant: copied after it was freed.
FreeThenCopy(t) ==
    LET r == on[t] IN
    /\ Goto(t, "returned", "copied") /\ status[r] >= 0 /\ given[r].op \in Owning
    /\ memory' = [memory EXCEPT ![r] = "freed"]
    /\ result' = [result EXCEPT ![r] = Ok(given[r].format, 0)]
    /\ UNCHANGED <<pending, queue, given, status, outcome, reply, on>>

CopyResult(t) ==
    LET r == on[t] IN
    /\ Goto(t, "returned", "copied") /\ status[r] >= 0 /\ given[r].op \in Owning
    /\ result' = [result EXCEPT ![r] = Ok(given[r].format, 0)]
    /\ UNCHANGED <<pending, queue, memory, given, status, outcome, reply, on>>

FreeResult(t) ==
    /\ pc[t] = "copied" /\ memory' = [memory EXCEPT ![on[t]] = "freed"]
    /\ Finish(t, "copied", result[on[t]])

-----------------------------------------------------------------------------
\* The reply: posted by libmpv at any time once the request is accepted, with
\* no data, or none of the value, when the request failed.

\* Mutant: the format is left out of the request.
AskNoFormat(r) == "none"
\* T::FORMAT, with which libmpv tags the reply.
AskFormat(r) == given[r].format

Complete(r, code, data) ==
    /\ r \in pending /\ pending' = pending \ {r}
    /\ code >= 0 <=> data = "full"
    /\ queue' = Append(queue, [request |-> r, id |-> given[r].op, error |-> code, data |-> data,
                               userdata |-> given[r].userdata, format |-> AskFormat(r)])
    /\ outcome' = [outcome EXCEPT ![r] = code]
    /\ UNCHANGED <<memory, given, status, result, reply, pc, on>>

PropertyData(event) ==
    CASE event.data = "null" -> "fault"
      [] event.data = "empty" -> "none"
      [] OTHER -> event.format

Decode(event) ==
    IF event.error < 0 THEN Err(FromRaw(event.error))
    ELSE CASE event.id = "get" -> Ok(PropertyData(event), 0)
           [] event.id = "set" -> Ok("none", 0)
           [] event.id = "command" -> Ok("node", 0)

\* reply is history: for which request the event was.
\* Mutant: a failed reply is returned as no event.
PollKeepsGood(t) ==
    LET event == Head(queue) IN
    /\ pc[t] = "idle" /\ queue # <<>> /\ queue' = Tail(queue)
    /\ reply' = [reply EXCEPT ![event.request] =
                     IF event.error < 0 THEN @
                     ELSE [userdata |-> event.userdata, result |-> Decode(event)]]
    /\ UNCHANGED <<pending, memory, given, status, outcome, result, pc, on>>
Poll(t) ==
    LET event == Head(queue) IN
    /\ pc[t] = "idle" /\ queue # <<>> /\ queue' = Tail(queue)
    /\ reply' = [reply EXCEPT ![event.request] =
                     [userdata |-> event.userdata, result |-> Decode(event)]]
    /\ UNCHANGED <<pending, memory, given, status, outcome, result, pc, on>>

Step(t) ==
    \/ \E code \in Codes \cup {2} : Call(t, code)
    \/ Refuse(t) \/ CheckError(t) \/ CheckOk(t) \/ CopyResult(t) \/ FreeResult(t)
Completes(r) == \E code \in Codes, data \in {"null", "empty", "full"} : Complete(r, code, data)

Next ==
    \/ \E t \in Threads :
        \/ \E r \in Requests, op \in Sync \cup Async, format \in Formats, u \in UserData :
               Ask(t, r, op, format, u)
        \/ Step(t) \/ Poll(t)
    \/ \E r \in Requests : Completes(r)

Spec == Init /\ [][Next]_vars

\* Threads run, and libmpv completes every request it accepted, aborted ones too.
\* Nothing says that anybody polls.
FairSpec ==
    /\ Spec /\ \A t \in Threads : WF_vars(Step(t))
    /\ \A r \in Requests : WF_vars(Completes(r))

-----------------------------------------------------------------------------
Errors == [name : {Names[n] : n \in DOMAIN Names} \cup {"Other", "InteriorNul", "none"},
           code : Codes]
Answers == [error : Errors, value : Formats \cup {"none", "node", "fault"}, count : Nat]
Given == [op : Sync \cup Async, format : Formats, userdata : UserData]
Events == [request : Requests, id : Async, error : Codes, data : {"null", "empty", "full"},
           userdata : UserData, format : Formats]
Replies == [userdata : UserData, result : Answers]

ASSUME NoneAssumption == None \notin Requests \cup Int \cup Given \cup Answers \cup Replies

TypeOK ==
    /\ pending \subseteq Requests /\ queue \in Seq(Events)
    /\ memory \in [Requests -> {"none", "live", "freed"}]
    /\ given \in [Requests -> Given \cup {None}]
    /\ status \in [Requests -> Codes \cup Nat \cup {None}]
    /\ outcome \in [Requests -> Codes \cup {None}]
    /\ result \in [Requests -> Answers \cup {None}]
    /\ reply \in [Requests -> Replies \cup {None}]
    /\ pc \in [Threads -> {"idle", "asked", "returned", "copied"}]
    /\ on \in [Threads -> Requests \cup {None}]

\* What libmpv allocates for a call lives from the call until the wrapper has
\* copied it, and is freed once: never read freed, never lost on an early return
\* (get_property_osd_string, command_ret, command_node, GetProperty).
ResultsOwned ==
    \A r \in Requests :
        memory[r] = "live" <=>
            \E t \in Threads : /\ on[t] = r /\ given[r].op \in Owning
                               /\ pc[t] \in {"returned", "copied"} /\ status[r] >= 0

AnswerTrue(answer, call, code) ==
    IF code = None THEN answer.error \in {InteriorNul, InvalidParameter} /\ answer.value = "none"
    ELSE /\ code < 0 <=> answer.error # NoError
         /\ code < 0 /\ call.op # "osd" => RawCodes(answer.error) = {code}
         /\ code >= 0 => answer.value = IF call.op \in {"value"} \cup Owning THEN call.format ELSE "none"
         /\ call.op = "count" /\ code >= 0 => answer.count = code
\* The answer of every call is libmpv's: an error exactly when libmpv failed,
\* which raw_code turns back into libmpv's code, known or not, and otherwise the
\* value in the format asked for.  A call that was refused never reached libmpv.
AnswersTrue == \A r \in Requests : result[r] # None => AnswerTrue(result[r], given[r], status[r])

Accepted(r) == given[r] # None /\ given[r].op \in Async /\ status[r] # None /\ status[r] >= 0
Queued(r) == \E i \in DOMAIN queue : queue[i].request = r
\* Each accepted request is under way, in the queue, or was answered, one of the
\* three and once, and a refused one is never answered, though its reply may be
\* polled by another thread before the request's call has returned.
OneReply ==
    /\ \A r \in Requests :
        /\ Accepted(r) <=> r \in pending \/ Queued(r) \/ reply[r] # None
        /\ ~(r \in pending /\ Queued(r)) /\ (reply[r] # None => r \notin pending /\ ~Queued(r))
    /\ \A i, j \in DOMAIN queue : queue[i].request = queue[j].request => i = j

ReplyTrue(answer, call, code) ==
    /\ answer.userdata = call.userdata
    /\ IF code < 0 THEN RawCodes(answer.result.error) = {code}
       ELSE answer.result = Ok(CASE call.op = "get" -> call.format
                                 [] call.op = "set" -> "none"
                                 [] call.op = "command" -> "node", 0)
\* A reply carries its request's userdata, the error libmpv completed it with, or
\* the value in the type the caller asked for; no decode reads data that a failed
\* request does not have.
RepliesTrue == \A r \in Requests : reply[r] # None => ReplyTrue(reply[r], given[r], outcome[r])

\* Every call returns, wait_async_requests too, whether or not anybody polls: the
\* replies it waits for have their places in the queue.
CallsReturn == \A r \in Requests : given[r] # None ~> result[r] # None

\* If polling goes on, in whatever thread, every accepted request is answered,
\* a failed or aborted one with its error.
RepliesArrive ==
    WF_vars(\E t \in Threads : Poll(t)) => \A r \in Requests : Accepted(r) ~> reply[r] # None
=============================================================================
