----------------------------- MODULE RequestsProofs -----------------------------
(***************************************************************************)
(* The calls of a shared Handle, for any number of threads and calls and   *)
(* any set of error codes: what libmpv returned reaches the caller, what   *)
(* it allocated is freed once, and each accepted request has one reply,    *)
(* its own.                                                                *)
(***************************************************************************)
EXTENDS Requests, SequenceTheorems, TLAPS

\* A thread in a call has a call of its own, which has been made with arguments.
Working == {"asked", "returned", "copied"}
CallsOwned ==
    /\ \A t \in Threads : IF pc[t] \in Working THEN on[t] \in Requests /\ given[on[t]] # None
                                               ELSE on[t] = None
    /\ \A t, u \in Threads : pc[t] \in Working /\ on[t] = on[u] => t = u

\* How far a call is: nothing is known of one not made, libmpv has answered one
\* that returned, and the answer of one being copied is the value.
Stages ==
    /\ \A r \in Requests :
        /\ given[r] = None => status[r] = None /\ result[r] = None
        /\ status[r] # None => given[r] # None /\ (status[r] > 0 => given[r].op = "count")
        /\ status[r] = None => r \notin pending /\ ~Queued(r) /\ reply[r] = None /\ memory[r] = "none"
    /\ \A t \in Threads :
        /\ pc[t] = "asked" => status[on[t]] = None /\ result[on[t]] = None
        /\ pc[t] = "returned" => status[on[t]] # None /\ result[on[t]] = None
        /\ pc[t] = "copied" =>
            /\ status[on[t]] # None /\ status[on[t]] >= 0 /\ given[on[t]].op \in Owning
            /\ result[on[t]] = Ok(given[on[t]].format, 0)

\* An event in the queue is its request's, with the outcome libmpv gave it.
EventsTrue ==
    \A i \in DOMAIN queue :
        LET event == queue[i]
            r == event.request IN
        /\ event.id = given[r].op /\ event.userdata = given[r].userdata
        /\ event.format = given[r].format /\ event.error = outcome[r]
        /\ event.error >= 0 <=> event.data = "full"

Inv == CallsOwned /\ Stages /\ EventsTrue /\ ResultsOwned /\ AnswersTrue /\ OneReply /\ RepliesTrue

\* An error stands for the code it was made from, known or not.
LEMMA CodesKept ==
    ASSUME NEW code \in Codes, code < 0
    PROVE  /\ RawCodes(FromRaw(code)) = {code} /\ FromRaw(code) # NoError
           /\ FromRaw(code) \in Errors
<1>1. code \in Int /\ -code \in Nat /\ -code # 0
  BY FailuresAssumption DEF Codes
<1>2. DOMAIN Names = 1..20
  BY DEF Names
<1>3. \A m \in 1..20 : Names[m] # "Other" /\ Names[m] # "none"
  BY DEF Names
<1>4. \A m, n \in 1..20 : Names[m] = Names[n] => m = n
  BY DEF Names
<1>5. CASE -code \in 1..20
  <2>1. FromRaw(code) = [name |-> Names[-code], code |-> 0]
    BY <1>2, <1>5 DEF FromRaw
  <2>2. RawCodes(FromRaw(code)) = {-n : n \in {m \in 1..20 : Names[m] = Names[-code]}}
    BY <2>1, <1>2, <1>3, <1>5 DEF RawCodes
  <2>3. {m \in 1..20 : Names[m] = Names[-code]} = {-code}
    BY <1>4, <1>5
  <2>4. {-n : n \in {-code}} = {code}
    BY <1>1
  <2>. QED BY <2>1, <2>2, <2>3, <2>4, <1>2, <1>3, <1>5 DEF NoError, Errors, Codes
<1>6. CASE -code \notin 1..20
  <2>1. FromRaw(code) = [name |-> "Other", code |-> code]
    BY <1>2, <1>6 DEF FromRaw
  <2>. QED BY <2>1 DEF RawCodes, NoError, Errors
<1>. QED BY <1>5, <1>6

\* The answers are typed, and a refusal is none.
LEMMA AnswerTypes ==
    /\ NoError \in Errors /\ InteriorNul \in Errors /\ InteriorNul # NoError
    /\ InvalidParameter \in Errors /\ InvalidParameter # NoError
    /\ PropertyError \in Errors /\ PropertyError # NoError
    /\ \A e \in Errors : Err(e) \in Answers /\ Err(e).error = e /\ Err(e).value = "none"
    /\ \A v \in Formats \cup {"none", "node", "fault"}, n \in Nat : Ok(v, n) \in Answers
    /\ \A v, n : Ok(v, n).error = NoError /\ Ok(v, n).value = v /\ Ok(v, n).count = n
<1>1. 0 \in Codes
  BY DEF Codes
<1>2. DOMAIN Names = 1..20 /\ Names[4] = "InvalidParameter" /\ Names[11] = "PropertyError"
  BY DEF Names
<1>3. /\ NoError \in Errors /\ InteriorNul \in Errors /\ InteriorNul # NoError
      /\ InvalidParameter \in Errors /\ InvalidParameter # NoError
      /\ PropertyError \in Errors /\ PropertyError # NoError
  BY <1>1, <1>2 DEF NoError, InteriorNul, InvalidParameter, PropertyError, Errors
<1>. QED BY <1>3 DEF Ok, Err, Answers

\* The codes are integers, and only a count is positive.
LEMMA CodeTypes ==
    /\ Codes \subseteq Int /\ 0 \in Codes /\ None \notin Codes \cup Nat
    /\ \A code \in Codes \cup {2} : code \in Codes \cup Nat
    /\ \A code \in Codes \cup Nat : code \in Int /\ (code < 0 => code \in Codes)
    /\ \A code \in Codes : code <= 0
  BY FailuresAssumption, NoneAssumption DEF Codes
\* The invariant holds initially.
LEMMA InitInv == Init => TypeOK /\ Inv
<1>. SUFFICES ASSUME Init PROVE TypeOK /\ Inv
  OBVIOUS
<1>1. queue = <<>> /\ queue \in Seq(Events) /\ DOMAIN queue = {}
  BY EmptySeq DEF Init
<1>2. TypeOK
  BY <1>1 DEF Init, TypeOK
<1>3. Inv
  BY <1>1 DEF Init, Inv, CallsOwned, Stages, EventsTrue, ResultsOwned, AnswersTrue, OneReply, RepliesTrue, Working, Accepted, Queued
<1>. QED BY <1>2, <1>3

\* A new call.
LEMMA AskKeeps ==
    ASSUME TypeOK, Inv, NEW t \in Threads, NEW r \in Requests, NEW op \in Sync \cup Async,
           NEW format \in Formats, NEW u \in UserData, Ask(t, r, op, format, u)
    PROVE  TypeOK' /\ Inv'
<1>. USE CodeTypes, AnswerTypes, NoneAssumption DEF TypeOK, Goto
<1>0. CallsOwned /\ Stages /\ EventsTrue /\ ResultsOwned /\ AnswersTrue /\ OneReply /\ RepliesTrue
  BY DEF Inv
<1>g. given'[r] \in Given /\ given'[r] # None /\ given[r] = None
      /\ ~Queued(r) /\ status[r] = None /\ result[r] = None /\ reply[r] = None
  BY <1>0 DEF Ask, Given, Stages
<1>1. TypeOK'
  BY <1>0, <1>g DEF Ask
<1>2. CallsOwned'
  BY <1>0, <1>1, <1>g DEF Ask, CallsOwned, Working
<1>3. Stages'
  BY <1>0, <1>1, <1>g DEF Ask, Stages, Working, CallsOwned, Queued
<1>4. EventsTrue'
  BY <1>0, <1>1, <1>g DEF Ask, EventsTrue, Queued
<1>5. ResultsOwned'
  BY <1>0, <1>1, <1>g DEF Ask, ResultsOwned, CallsOwned, Working, Stages, Owning
<1>6. AnswersTrue'
  BY <1>0, <1>1, <1>g DEF Ask, AnswersTrue
<1>7. OneReply'
  BY <1>0, <1>1, <1>g DEF Ask, OneReply, Accepted, Queued
<1>8. RepliesTrue'
  BY <1>0, <1>1, <1>g DEF Ask, RepliesTrue
<1>. QED BY <1>1, <1>2, <1>3, <1>4, <1>5, <1>6, <1>7, <1>8 DEF Inv

\* A refused call.
LEMMA RefuseKeeps ==
    ASSUME TypeOK, Inv, NEW t \in Threads, Refuse(t)
    PROVE  TypeOK' /\ Inv'
<1>. USE CodeTypes, AnswerTypes, NoneAssumption DEF TypeOK, Goto
<1>0. CallsOwned /\ Stages /\ EventsTrue /\ ResultsOwned /\ AnswersTrue /\ OneReply /\ RepliesTrue
  BY DEF Inv
<1>r. on[t] \in Requests /\ given[on[t]] \in Given /\ pc[t] \in Working
      /\ \A u \in Threads : u # t /\ pc[u] \in Working => on[u] # on[t]
  BY <1>0 DEF Refuse, Finish, CallsOwned, Working
<1>p. PICK error \in {InteriorNul, InvalidParameter} : Finish(t, "asked", Err(error)) /\ UNCHANGED memory
  BY DEF Refuse, Refusals
<1>s. status[on[t]] = None
  BY <1>0, <1>p DEF Finish, Stages
<1>a. AnswerTrue(Err(error), given[on[t]], None)
  BY DEF AnswerTrue
<1>1. TypeOK'
  BY <1>0, <1>r, <1>p, <1>s, <1>a DEF Refuse, Finish
<1>2. CallsOwned'
  BY <1>0, <1>1, <1>r, <1>p, <1>s, <1>a DEF Refuse, Finish, CallsOwned, Working
<1>3. Stages'
  BY <1>0, <1>1, <1>r, <1>p, <1>s, <1>a DEF Refuse, Finish, Stages, Working, CallsOwned, Queued
<1>4. EventsTrue'
  BY <1>0, <1>1, <1>r, <1>p, <1>s, <1>a DEF Refuse, Finish, EventsTrue
<1>5. ResultsOwned'
  BY <1>0, <1>1, <1>r, <1>p, <1>s, <1>a DEF Refuse, Finish, ResultsOwned, CallsOwned, Working, Stages, Owning
<1>6. AnswersTrue'
  BY <1>0, <1>1, <1>r, <1>p, <1>s, <1>a DEF Refuse, Finish, AnswersTrue
<1>7. OneReply'
  BY <1>0, <1>1, <1>r, <1>p, <1>s, <1>a DEF Refuse, Finish, OneReply, Accepted, Queued
<1>8. RepliesTrue'
  BY <1>0, <1>1, <1>r, <1>p, <1>s, <1>a DEF Refuse, Finish, RepliesTrue
<1>. QED BY <1>1, <1>2, <1>3, <1>4, <1>5, <1>6, <1>7, <1>8 DEF Inv

\* libmpv's answer.
LEMMA CallKeeps ==
    ASSUME TypeOK, Inv, NEW t \in Threads, NEW code \in Codes \cup {2}, Call(t, code)
    PROVE  TypeOK' /\ Inv'
<1>. USE CodeTypes, AnswerTypes, NoneAssumption DEF TypeOK, Goto
<1>0. CallsOwned /\ Stages /\ EventsTrue /\ ResultsOwned /\ AnswersTrue /\ OneReply /\ RepliesTrue
  BY DEF Inv
<1>r. on[t] \in Requests /\ given[on[t]] \in Given /\ pc[t] \in Working
      /\ \A u \in Threads : u # t /\ pc[u] \in Working => on[u] # on[t]
  BY <1>0 DEF Call, CallsOwned, Working
<1>s. /\ status[on[t]] = None /\ result[on[t]] = None /\ on[t] \notin pending
      /\ ~Queued(on[t]) /\ reply[on[t]] = None
  BY <1>0, <1>r DEF Call, Stages
<1>1. TypeOK'
  BY <1>0, <1>r, <1>s DEF Call, Returns
<1>2. CallsOwned'
  BY <1>0, <1>1, <1>r, <1>s DEF Call, Returns, CallsOwned, Working
<1>3. Stages'
  BY <1>0, <1>1, <1>r, <1>s DEF Call, Returns, Stages, Working, CallsOwned, Queued
<1>4. EventsTrue'
  BY <1>0, <1>1, <1>r, <1>s DEF Call, Returns, EventsTrue
<1>5. ResultsOwned'
  BY <1>0, <1>1, <1>r, <1>s DEF Call, Returns, ResultsOwned, CallsOwned, Working, Stages, Owning
<1>6. AnswersTrue'
  BY <1>0, <1>1, <1>r, <1>s DEF Call, Returns, AnswersTrue
<1>7. OneReply'
  BY <1>0, <1>1, <1>r, <1>s DEF Call, Returns, OneReply, Accepted, Queued
<1>8. RepliesTrue'
  BY <1>0, <1>1, <1>r, <1>s DEF Call, Returns, RepliesTrue
<1>. QED BY <1>1, <1>2, <1>3, <1>4, <1>5, <1>6, <1>7, <1>8 DEF Inv

\* A call that failed.
LEMMA ErrorKeeps ==
    ASSUME TypeOK, Inv, NEW t \in Threads, CheckError(t)
    PROVE  TypeOK' /\ Inv'
<1>. USE CodeTypes, AnswerTypes, NoneAssumption DEF TypeOK, Goto
<1>0. CallsOwned /\ Stages /\ EventsTrue /\ ResultsOwned /\ AnswersTrue /\ OneReply /\ RepliesTrue
  BY DEF Inv
<1>r. on[t] \in Requests /\ given[on[t]] \in Given /\ pc[t] \in Working
      /\ \A u \in Threads : u # t /\ pc[u] \in Working => on[u] # on[t]
  BY <1>0 DEF CheckError, Finish, CallsOwned, Working
<1>s. /\ status[on[t]] \in Codes /\ status[on[t]] < 0 /\ status[on[t]] # None
      /\ status[on[t]] \in Int /\ ~(status[on[t]] >= 0)
  <2>1. status[on[t]] # None /\ status[on[t]] < 0 /\ status[on[t]] \in Codes \cup Nat
    BY <1>0, <1>r DEF CheckError, Stages
  <2>2. status[on[t]] \in Codes /\ status[on[t]] \in Int
    BY <2>1
  <2>. QED BY <2>1, <2>2
<1>e. PICK error \in Errors :
        /\ Finish(t, "returned", Err(error)) /\ UNCHANGED memory /\ error # NoError
        /\ given[on[t]].op # "osd" => RawCodes(error) = {status[on[t]]}
  BY <1>s, CodesKept DEF CheckError
<1>v. Err(error).error = error /\ Err(error) \in Answers
  BY <1>e
<1>a. AnswerTrue(Err(error), given[on[t]], status[on[t]])
  BY <1>s, <1>e, <1>v DEF AnswerTrue
<1>1. TypeOK'
  BY <1>0, <1>r, <1>s, <1>e, <1>v, <1>a DEF CheckError, Finish
<1>2. CallsOwned'
  BY <1>0, <1>1, <1>r, <1>s, <1>e, <1>v, <1>a DEF CheckError, Finish, CallsOwned, Working
<1>3. Stages'
  BY <1>0, <1>1, <1>r, <1>s, <1>e, <1>v, <1>a DEF CheckError, Finish, Stages, Working, CallsOwned, Queued
<1>4. EventsTrue'
  BY <1>0, <1>1, <1>r, <1>s, <1>e, <1>v, <1>a DEF CheckError, Finish, EventsTrue
<1>5. ResultsOwned'
  BY <1>0, <1>1, <1>r, <1>s, <1>e, <1>v, <1>a DEF CheckError, Finish, ResultsOwned, CallsOwned, Working, Stages, Owning
<1>6. AnswersTrue'
  BY <1>0, <1>1, <1>r, <1>s, <1>e, <1>v, <1>a DEF CheckError, Finish, AnswersTrue
<1>7. OneReply'
  BY <1>0, <1>1, <1>r, <1>s, <1>e, <1>v, <1>a DEF CheckError, Finish, OneReply, Accepted, Queued
<1>8. RepliesTrue'
  BY <1>0, <1>1, <1>r, <1>s, <1>e, <1>v, <1>a DEF CheckError, Finish, RepliesTrue
<1>. QED BY <1>1, <1>2, <1>3, <1>4, <1>5, <1>6, <1>7, <1>8 DEF Inv

\* A call that succeeded, and whose result nobody owns.
LEMMA OkKeeps ==
    ASSUME TypeOK, Inv, NEW t \in Threads, CheckOk(t)
    PROVE  TypeOK' /\ Inv'
<1>. USE CodeTypes, AnswerTypes, NoneAssumption DEF TypeOK, Goto
<1>0. CallsOwned /\ Stages /\ EventsTrue /\ ResultsOwned /\ AnswersTrue /\ OneReply /\ RepliesTrue
  BY DEF Inv
<1>r. on[t] \in Requests /\ given[on[t]] \in Given /\ pc[t] \in Working
      /\ \A u \in Threads : u # t /\ pc[u] \in Working => on[u] # on[t]
  BY <1>0 DEF CheckOk, Finish, CallsOwned, Working
<1>s. /\ status[on[t]] \in Codes \cup Nat /\ status[on[t]] >= 0 /\ given[on[t]].op \notin Owning
      /\ status[on[t]] > 0 => given[on[t]].op = "count"
  BY <1>0, <1>r DEF CheckOk, Stages
<1>. DEFINE op == given[on[t]].op
             answer == CASE op = "count" -> Ok("none", status[on[t]])
                         [] op = "value" -> Ok(given[on[t]].format, 0)
                         [] OTHER -> Ok("none", 0)
<1>n. /\ status[on[t]] # None /\ status[on[t]] \in Nat /\ ~(status[on[t]] < 0)
      /\ given[on[t]].format \in Formats
  <2>1. status[on[t]] \in Int /\ status[on[t]] # None
    BY <1>s
  <2>. QED BY <2>1, <1>r, <1>s DEF Given
<1>e. /\ answer \in Answers /\ answer.error = NoError
      /\ answer.value = IF op = "value" THEN given[on[t]].format ELSE "none"
      /\ op = "count" => answer.count = status[on[t]]
  <2>1. CASE op = "count"
    <3>1. answer = Ok("none", status[on[t]])
      BY <2>1
    <3>2. /\ Ok("none", status[on[t]]).error = NoError /\ Ok("none", status[on[t]]).value = "none"
          /\ Ok("none", status[on[t]]).count = status[on[t]]
      BY DEF Ok
    <3>3. Ok("none", status[on[t]]) \in Answers
      BY <1>n, AnswerTypes
    <3>. HIDE DEF answer
    <3>. QED BY <2>1, <3>1, <3>2, <3>3
  <2>2. CASE op = "value"
    BY <2>2, <1>n
  <2>3. CASE op # "count" /\ op # "value"
    BY <2>3
  <2>. QED BY <2>1, <2>2, <2>3
<1>f. Finish(t, "returned", answer) /\ UNCHANGED memory
  BY DEF CheckOk
<1>. HIDE DEF answer
<1>a. AnswerTrue(answer, given[on[t]], status[on[t]])
  BY <1>s, <1>e, <1>n DEF AnswerTrue
<1>1. TypeOK'
  BY <1>0, <1>r, <1>s, <1>n, <1>e, <1>f, <1>a DEF CheckOk, Finish
<1>2. CallsOwned'
  BY <1>0, <1>1, <1>r, <1>s, <1>n, <1>e, <1>f, <1>a DEF CheckOk, Finish, CallsOwned, Working
<1>3. Stages'
  BY <1>0, <1>1, <1>r, <1>s, <1>n, <1>e, <1>f, <1>a DEF CheckOk, Finish, Stages, Working, CallsOwned, Queued
<1>4. EventsTrue'
  BY <1>0, <1>1, <1>r, <1>s, <1>n, <1>e, <1>f, <1>a DEF CheckOk, Finish, EventsTrue
<1>5. ResultsOwned'
  BY <1>0, <1>1, <1>r, <1>s, <1>n, <1>e, <1>f, <1>a DEF CheckOk, Finish, ResultsOwned, CallsOwned, Working, Stages, Owning
<1>6. AnswersTrue'
  BY <1>0, <1>1, <1>r, <1>s, <1>n, <1>e, <1>f, <1>a DEF CheckOk, Finish, AnswersTrue
<1>7. OneReply'
  BY <1>0, <1>1, <1>r, <1>s, <1>n, <1>e, <1>f, <1>a DEF CheckOk, Finish, OneReply, Accepted, Queued
<1>8. RepliesTrue'
  BY <1>0, <1>1, <1>r, <1>s, <1>n, <1>e, <1>f, <1>a DEF CheckOk, Finish, RepliesTrue
<1>. QED BY <1>1, <1>2, <1>3, <1>4, <1>5, <1>6, <1>7, <1>8 DEF Inv

\* A copied value is a true answer to a call that succeeded.
LEMMA CopyTrue ==
    ASSUME NEW call, call.op \in Owning, NEW code \in Int, code >= 0, code # None
    PROVE  AnswerTrue(Ok(call.format, 0), call, code)
<1>1. Ok(call.format, 0).error = NoError /\ Ok(call.format, 0).value = call.format
  BY DEF Ok
<1>2. call.op # "count" /\ call.op \in {"value"} \cup Owning
  BY DEF Owning
<1>3. ~(code < 0)
  OBVIOUS
<1>. HIDE DEF Ok
<1>. QED BY <1>1, <1>2, <1>3 DEF AnswerTrue

\* A result copied.
LEMMA CopyKeeps ==
    ASSUME TypeOK, Inv, NEW t \in Threads, CopyResult(t)
    PROVE  TypeOK' /\ Inv'
<1>. USE CodeTypes, AnswerTypes, NoneAssumption DEF TypeOK, Goto
<1>0. CallsOwned /\ Stages /\ EventsTrue /\ ResultsOwned /\ AnswersTrue /\ OneReply /\ RepliesTrue
  BY DEF Inv
<1>r. on[t] \in Requests /\ given[on[t]] \in Given /\ pc[t] \in Working
      /\ \A u \in Threads : u # t /\ pc[u] \in Working => on[u] # on[t]
  BY <1>0 DEF CopyResult, CallsOwned, Working
<1>s. /\ status[on[t]] \in Codes \cup Nat /\ status[on[t]] # None /\ status[on[t]] >= 0
      /\ Ok(given[on[t]].format, 0) \in Answers /\ given[on[t]].op \in Owning
  BY <1>0, <1>r DEF CopyResult, Stages, Given
<1>i. status[on[t]] \in Int
  BY <1>s
<1>a. AnswerTrue(Ok(given[on[t]].format, 0), given[on[t]], status[on[t]])
  <2>. HIDE DEF TypeOK
  <2>. QED BY ONLY <1>s, <1>i, CopyTrue
<1>1. TypeOK'
  BY <1>0, <1>r, <1>s, <1>a DEF CopyResult
<1>2. CallsOwned'
  BY <1>0, <1>1, <1>r, <1>s, <1>a DEF CopyResult, CallsOwned, Working
<1>3. Stages'
  BY <1>0, <1>1, <1>r, <1>s, <1>a DEF CopyResult, Stages, Working, CallsOwned, Queued
<1>4. EventsTrue'
  BY <1>0, <1>1, <1>r, <1>s, <1>a DEF CopyResult, EventsTrue
<1>5. ResultsOwned'
  BY <1>0, <1>1, <1>r, <1>s, <1>a DEF CopyResult, ResultsOwned, CallsOwned, Working, Stages, Owning
<1>6. AnswersTrue'
  BY <1>0, <1>1, <1>r, <1>s, <1>a DEF CopyResult, AnswersTrue
<1>7. OneReply'
  BY <1>0, <1>1, <1>r, <1>s, <1>a DEF CopyResult, OneReply, Accepted, Queued
<1>8. RepliesTrue'
  BY <1>0, <1>1, <1>r, <1>s, <1>a DEF CopyResult, RepliesTrue
<1>. QED BY <1>1, <1>2, <1>3, <1>4, <1>5, <1>6, <1>7, <1>8 DEF Inv

\* A result given back.
LEMMA FreeKeeps ==
    ASSUME TypeOK, Inv, NEW t \in Threads, FreeResult(t)
    PROVE  TypeOK' /\ Inv'
<1>. USE CodeTypes, AnswerTypes, NoneAssumption DEF TypeOK, Goto
<1>0. CallsOwned /\ Stages /\ EventsTrue /\ ResultsOwned /\ AnswersTrue /\ OneReply /\ RepliesTrue
  BY DEF Inv
<1>r. on[t] \in Requests /\ given[on[t]] \in Given /\ pc[t] \in Working
      /\ \A u \in Threads : u # t /\ pc[u] \in Working => on[u] # on[t]
  BY <1>0 DEF FreeResult, Finish, CallsOwned, Working
<1>s. result' = result
  BY <1>r DEF FreeResult, Finish
<1>1. TypeOK'
  BY <1>0, <1>r, <1>s DEF FreeResult, Finish
<1>2. CallsOwned'
  BY <1>0, <1>1, <1>r, <1>s DEF FreeResult, Finish, CallsOwned, Working
<1>3. Stages'
  BY <1>0, <1>1, <1>r, <1>s DEF FreeResult, Finish, Stages, Working, CallsOwned, Queued
<1>4. EventsTrue'
  BY <1>0, <1>1, <1>r, <1>s DEF FreeResult, Finish, EventsTrue
<1>5. ResultsOwned'
  BY <1>0, <1>1, <1>r, <1>s DEF FreeResult, Finish, ResultsOwned, CallsOwned, Working, Stages, Owning
<1>6. AnswersTrue'
  BY <1>0, <1>1, <1>r, <1>s DEF FreeResult, Finish, AnswersTrue
<1>7. OneReply'
  BY <1>0, <1>1, <1>r, <1>s DEF FreeResult, Finish, OneReply, Accepted, Queued
<1>8. RepliesTrue'
  BY <1>0, <1>1, <1>r, <1>s DEF FreeResult, Finish, RepliesTrue
<1>. QED BY <1>1, <1>2, <1>3, <1>4, <1>5, <1>6, <1>7, <1>8 DEF Inv

\* A reply posted.
LEMMA CompleteKeeps ==
    ASSUME TypeOK, Inv, NEW r \in Requests, NEW code \in Codes, NEW data \in {"null", "empty", "full"}, Complete(r, code, data)
    PROVE  TypeOK' /\ Inv'
<1>. USE CodeTypes, AnswerTypes, NoneAssumption DEF TypeOK, Goto
<1>0. CallsOwned /\ Stages /\ EventsTrue /\ ResultsOwned /\ AnswersTrue /\ OneReply /\ RepliesTrue
  BY DEF Inv
<1>. DEFINE event == [request |-> r, id |-> given[r].op, error |-> code, data |-> data,
                      userdata |-> given[r].userdata, format |-> AskFormat(r)]
<1>s. Accepted(r) /\ given[r] \in Given /\ r \in pending /\ ~Queued(r) /\ reply[r] = None
  BY <1>0 DEF Complete, OneReply, Accepted
<1>e. event \in Events /\ event.request = r
  BY <1>s DEF Events, Given, Accepted, AskFormat
<1>q. /\ queue' = Append(queue, event) /\ queue' \in Seq(Events) /\ Len(queue) \in Nat
      /\ DOMAIN queue = 1..Len(queue) /\ DOMAIN queue' = 1..(Len(queue) + 1)
      /\ queue'[Len(queue) + 1] = event /\ \A i \in 1..Len(queue) : queue'[i] = queue[i]
  BY <1>e, AppendProperties, LenProperties DEF Complete
<1>. HIDE DEF event
<1>d. Queued(r)' /\ \A x \in Requests : x # r => (Queued(x)' <=> Queued(x))
  <2>0. PICK n \in Nat : n = Len(queue)
    BY <1>q
  <2>1. DOMAIN queue = 1..n /\ DOMAIN queue' = 1..(n + 1) /\ queue'[n + 1].request = r
        /\ \A i \in 1..n : queue'[i].request = queue[i].request
    BY <1>e, <1>q, <2>0
  <2>. QED BY ONLY <2>1, n \in Nat DEF Queued
<1>1. TypeOK'
  BY <1>0, <1>s, <1>e, <1>q, <1>d DEF Complete
<1>2. CallsOwned'
  BY <1>0, <1>1, <1>s, <1>e, <1>q, <1>d DEF Complete, CallsOwned, Working
<1>3. Stages'
  BY <1>0, <1>1, <1>s, <1>e, <1>q, <1>d DEF Complete, Stages, Working, CallsOwned, Queued, Accepted
<1>4. EventsTrue'
  BY <1>0, <1>1, <1>s, <1>e, <1>q, <1>d DEF Complete, EventsTrue, event, AskFormat, Queued
<1>5. ResultsOwned'
  BY <1>0, <1>1, <1>s, <1>e, <1>q, <1>d DEF Complete, ResultsOwned, CallsOwned, Working, Stages, Owning
<1>6. AnswersTrue'
  BY <1>0, <1>1, <1>s, <1>e, <1>q, <1>d DEF Complete, AnswersTrue
<1>7. OneReply'
  BY <1>0, <1>1, <1>s, <1>e, <1>q, <1>d DEF Complete, OneReply, Accepted, Queued
<1>8. RepliesTrue'
  BY <1>0, <1>1, <1>s, <1>e, <1>q, <1>d DEF Complete, RepliesTrue
<1>. QED BY <1>1, <1>2, <1>3, <1>4, <1>5, <1>6, <1>7, <1>8 DEF Inv

\* A reply polled.
LEMMA PollKeeps ==
    ASSUME TypeOK, Inv, NEW t \in Threads, Poll(t)
    PROVE  TypeOK' /\ Inv'
<1>. USE CodeTypes, AnswerTypes, NoneAssumption DEF TypeOK, Goto
<1>0. CallsOwned /\ Stages /\ EventsTrue /\ ResultsOwned /\ AnswersTrue /\ OneReply /\ RepliesTrue
  BY DEF Inv
<1>q. /\ queue # <<>> /\ queue' = Tail(queue) /\ queue' \in Seq(Events) /\ Len(queue) \in Nat \ {0}
      /\ Head(queue) = queue[1] /\ Head(queue) \in Events /\ DOMAIN queue = 1..Len(queue)
      /\ DOMAIN queue' = 1..(Len(queue) - 1)
      /\ \A i \in 1..(Len(queue) - 1) : queue'[i] = queue[i + 1]
  BY HeadTailProperties, LenProperties, EmptySeq DEF Poll
<1>v. PICK event \in Events, r \in Requests :
        event = Head(queue) /\ event = queue[1] /\ r = event.request
  BY <1>q DEF Events
<1>. DEFINE answer == [userdata |-> event.userdata, result |-> Decode(event)]
<1>s. /\ r \in Requests /\ Queued(r) /\ Accepted(r) /\ r \notin pending /\ reply[r] = None
      /\ given[r] \in Given /\ given[r].op \in Async
  BY <1>0, <1>q, <1>v DEF Queued, OneReply, Accepted
<1>d. ~Queued(r)' /\ \A x \in Requests : x # r => (Queued(x)' <=> Queued(x))
  <2>1. \A i \in 1..(Len(queue) - 1) : queue'[i].request # r
    <3>. SUFFICES ASSUME NEW i \in 1..(Len(queue) - 1), queue[i + 1].request = queue[1].request PROVE FALSE
      BY <1>q, <1>v
    <3>1. i + 1 \in DOMAIN queue /\ 1 \in DOMAIN queue /\ i + 1 # 1
      BY <1>q
    <3>. QED BY <1>0, <3>1 DEF OneReply
  <2>2. ASSUME NEW x \in Requests, x # r, Queued(x) PROVE Queued(x)'
    <3>1. PICK i \in 1..Len(queue) : queue[i].request = x
      BY <2>2, <1>q DEF Queued
    <3>2. i # 1
      BY <2>2, <3>1, <1>v
    <3>3. i - 1 \in 1..(Len(queue) - 1) /\ (i - 1) + 1 = i
      BY <3>2, <1>q
    <3>4. queue'[i - 1] = queue[i]
      BY <3>3, <1>q
    <3>. QED BY <3>1, <3>3, <3>4, <1>q DEF Queued
  <2>3. ASSUME NEW x \in Requests, Queued(x)' PROVE Queued(x)
    <3>1. PICK i \in 1..(Len(queue) - 1) : queue'[i].request = x
      BY <2>3, <1>q DEF Queued
    <3>2. i + 1 \in 1..Len(queue) /\ queue[i + 1].request = x
      BY <3>1, <1>q
    <3>. QED BY <3>2, <1>q DEF Queued
  <2>4. ~Queued(r)'
    BY <2>1, <1>q DEF Queued
  <2>. QED BY <2>2, <2>3, <2>4
<1>e. /\ event.id = given[r].op /\ event.userdata = given[r].userdata /\ event.format = given[r].format
      /\ event.error = outcome[r] /\ event.error \in Codes /\ (event.error >= 0 <=> event.data = "full")
  <2>1. 1 \in DOMAIN queue
    BY <1>q
  <2>. QED BY <1>0, <2>1, <1>v DEF EventsTrue, Events
<1>a. answer \in Replies /\ ReplyTrue(answer, given[r], outcome[r])
  <2>1. CASE event.error < 0
    BY <2>1, <1>e, <1>s, CodesKept DEF ReplyTrue, Decode, Replies, Given
  <2>2. CASE event.error >= 0
    <3>0. event.error \in Int
      BY <1>e
    <3>1. /\ event.data = "full" /\ ~(event.error < 0)
          /\ given[r].format \in Formats /\ given[r].userdata \in UserData
      BY <2>2, <3>0, <1>e, <1>s DEF Given
    <3>2. CASE event.id = "get"
      <4>1. Decode(event) = Ok(given[r].format, 0)
        BY <3>1, <3>2, <1>e DEF Decode, PropertyData
      <4>. QED BY <4>1, <3>1, <3>2, <2>2, <1>e DEF ReplyTrue, Replies
    <3>3. CASE event.id = "set"
      <4>1. Decode(event) = Ok("none", 0)
        BY <3>1, <3>3, <1>e DEF Decode
      <4>2. given[r].op = "set" /\ outcome[r] = event.error /\ Ok("none", 0) \in Answers
        BY <3>3, <1>e
      <4>. QED BY <4>1, <4>2, <3>1, <1>e DEF ReplyTrue, Replies
    <3>4. CASE event.id = "command"
      <4>1. Decode(event) = Ok("node", 0)
        BY <3>1, <3>4, <1>e DEF Decode
      <4>2. given[r].op = "command" /\ outcome[r] = event.error /\ Ok("node", 0) \in Answers
        BY <3>4, <1>e
      <4>. QED BY <4>1, <4>2, <3>1, <1>e DEF ReplyTrue, Replies
    <3>. QED BY <3>2, <3>3, <3>4, <1>e, <1>s DEF Async
  <2>3. event.error \in Int
    BY <1>e
  <2>. QED BY <2>1, <2>2, <2>3
<1>p. reply' = [reply EXCEPT ![r] = answer] /\ UNCHANGED <<pending, memory, given, status, outcome, result, pc, on>>
  BY <1>v DEF Poll
<1>. HIDE DEF answer
<1>1. TypeOK'
  BY <1>0, <1>q, <1>v, <1>s, <1>d, <1>e, <1>a, <1>p DEF Poll
<1>2. CallsOwned'
  BY <1>0, <1>1, <1>q, <1>v, <1>s, <1>d, <1>e, <1>a, <1>p DEF Poll, CallsOwned, Working
<1>3. Stages'
  BY <1>0, <1>1, <1>q, <1>v, <1>s, <1>d, <1>e, <1>a, <1>p DEF Poll, Stages, Working, CallsOwned, Queued, Accepted
<1>4. EventsTrue'
  BY <1>0, <1>1, <1>q, <1>v, <1>s, <1>d, <1>e, <1>a, <1>p DEF Poll, EventsTrue
<1>5. ResultsOwned'
  BY <1>0, <1>1, <1>q, <1>v, <1>s, <1>d, <1>e, <1>a, <1>p DEF Poll, ResultsOwned, CallsOwned, Working, Stages, Owning
<1>6. AnswersTrue'
  BY <1>0, <1>1, <1>q, <1>v, <1>s, <1>d, <1>e, <1>a, <1>p DEF Poll, AnswersTrue
<1>7. OneReply'
  <2>1. \A x \in Requests : Accepted(x)' <=> Accepted(x)
    BY <1>p DEF Accepted
  <2>2. reply'[r] # None /\ \A x \in Requests : x # r => reply'[x] = reply[x]
    BY <1>p, <1>a
  <2>3. ASSUME NEW i \in 1..(Len(queue) - 1), NEW j \in 1..(Len(queue) - 1),
               queue'[i].request = queue'[j].request
       PROVE  i = j
    <3>1. i + 1 \in DOMAIN queue /\ j + 1 \in DOMAIN queue
      BY <1>q
    <3>2. queue[i + 1].request = queue[j + 1].request
      BY <2>3, <1>q
    <3>3. i + 1 = j + 1
      BY <1>0, <3>1, <3>2 DEF OneReply
    <3>. QED BY <3>3, <1>q
  <2>4. \A x \in Requests :
          /\ Accepted(x)' <=> x \in pending' \/ Queued(x)' \/ reply'[x] # None
          /\ ~(x \in pending' /\ Queued(x)') /\ (reply'[x] # None => x \notin pending' /\ ~Queued(x)')
    BY <1>0, <1>s, <1>d, <1>p, <2>1, <2>2 DEF OneReply
  <2>. QED BY <2>3, <2>4, <1>q DEF OneReply
<1>8. RepliesTrue'
  BY <1>0, <1>1, <1>q, <1>v, <1>s, <1>d, <1>e, <1>a, <1>p DEF Poll, RepliesTrue
<1>. QED BY <1>1, <1>2, <1>3, <1>4, <1>5, <1>6, <1>7, <1>8 DEF Inv

\* Every reachable state is typed, and satisfies the invariant.
THEOREM Invariance == Spec => [](TypeOK /\ Inv)
<1>1. TypeOK /\ Inv /\ [Next]_vars => TypeOK' /\ Inv'
  <2>. SUFFICES ASSUME TypeOK, Inv, [Next]_vars PROVE TypeOK' /\ Inv'
    OBVIOUS
  <2>1. ASSUME NEW t \in Threads, Step(t) PROVE TypeOK' /\ Inv'
    BY <2>1, CallKeeps, RefuseKeeps, ErrorKeeps, OkKeeps, CopyKeeps, FreeKeeps DEF Step
  <2>2. ASSUME NEW r \in Requests, Completes(r) PROVE TypeOK' /\ Inv'
    BY <2>2, CompleteKeeps DEF Completes
  <2>3. CASE UNCHANGED vars
    BY <2>3 DEF vars, TypeOK, Inv, CallsOwned, Stages, EventsTrue, ResultsOwned, AnswersTrue, OneReply,
       RepliesTrue, Accepted, Queued
  <2>. QED BY <2>1, <2>2, <2>3, AskKeeps, PollKeeps DEF Next
<1>. QED BY <1>1, InitInv, PTL DEF Spec

\* libmpv's memory lives until it was copied, and is freed once (ResultsOwned).
THEOREM Owned == Spec => []ResultsOwned
<1>1. Inv => ResultsOwned
  BY DEF Inv
<1>. QED BY <1>1, Invariance, PTL

\* Every answer is libmpv's (AnswersTrue).
THEOREM Answered == Spec => []AnswersTrue
<1>1. Inv => AnswersTrue
  BY DEF Inv
<1>. QED BY <1>1, Invariance, PTL

\* Each accepted request is in one place and is answered once (OneReply).
THEOREM Single == Spec => []OneReply
<1>1. Inv => OneReply
  BY DEF Inv
<1>. QED BY <1>1, Invariance, PTL

\* Every reply is its request's, and true (RepliesTrue).
THEOREM Replied == Spec => []RepliesTrue
<1>1. Inv => RepliesTrue
  BY DEF Inv
<1>. QED BY <1>1, Invariance, PTL

\* The safety half of CallsReturn: no call is lost on the way.  One that was made and
\* has not returned is in the hands of one thread, which has not left it, and of the
\* steps of that thread only libmpv's own wait_async_requests can wait, for requests
\* that libmpv accepted and has not completed.
CallsHeld ==
    /\ \A r \in Requests : given[r] # None /\ result[r] = None =>
        \E t \in Threads : /\ on[t] = r /\ pc[t] \in {"asked", "returned"}
                           /\ \A u \in Threads \ {t} : on[u] # r
    /\ \A r \in pending : Accepted(r) /\ ~Queued(r) /\ reply[r] = None
THEOREM Held == Spec => []CallsHeld
<1>. DEFINE Handed == \A r \in Requests : given[r] # None /\ result[r] = None =>
                         \E t \in Threads : on[t] = r /\ pc[t] \in {"asked", "returned"}
<1>1. Init => Handed
  BY DEF Init
<1>2. TypeOK /\ Inv /\ Handed /\ [Next]_vars => Handed'
  <2>. SUFFICES ASSUME TypeOK, Inv, Handed, [Next]_vars PROVE Handed'
    OBVIOUS
  <2>. USE CodeTypes, AnswerTypes, NoneAssumption DEF TypeOK, Goto
  <2>0. CallsOwned /\ Stages
    BY DEF Inv
  <2>1. ASSUME NEW t \in Threads, NEW from, NEW answer \in Answers, Finish(t, from, answer),
               from \in Working
        PROVE  Handed'
    <3>1. on[t] \in Requests /\ answer # None
      BY <2>0, <2>1 DEF Finish, CallsOwned
    <3>. QED BY <2>0, <2>1, <3>1 DEF Finish, CallsOwned, Working
  <2>2. ASSUME NEW t \in Threads, Refuse(t) PROVE Handed'
    <3>1. PICK error \in Errors : Finish(t, "asked", Err(error))
      BY <2>2 DEF Refuse, Refusals
    <3>. QED BY <2>1, <3>1 DEF Working
  <2>3. ASSUME NEW t \in Threads, CheckError(t) PROVE Handed'
    <3>1. on[t] \in Requests /\ status[on[t]] \in Codes
      BY <2>0, <2>3 DEF CheckError, Finish, CallsOwned, Working, Stages
    <3>2. PICK error \in Errors : Finish(t, "returned", Err(error))
      BY <2>3, <3>1, CodesKept DEF CheckError
    <3>. QED BY <2>1, <3>2 DEF Working
  <2>4. ASSUME NEW t \in Threads, CheckOk(t) PROVE Handed'
    <3>1. on[t] \in Requests /\ given[on[t]] \in Given
      BY <2>0, <2>4 DEF CheckOk, Finish, CallsOwned, Working
    <3>2. given[on[t]].op = "count" => status[on[t]] \in Nat
      BY <2>0, <2>4, <3>1 DEF CheckOk, Finish, Stages
    <3>3. PICK answer \in Answers : Finish(t, "returned", answer)
      BY <2>4, <3>1, <3>2 DEF CheckOk, Given
    <3>. QED BY <2>1, <3>3 DEF Working
  <2>5. ASSUME NEW t \in Threads, CopyResult(t) PROVE Handed'
    <3>1. on[t] \in Requests /\ given[on[t]] \in Given
      BY <2>0, <2>5 DEF CopyResult, CallsOwned, Working
    <3>2. Ok(given[on[t]].format, 0) # None
      BY <3>1 DEF Given
    <3>. QED BY <2>0, <2>5, <3>1, <3>2 DEF CopyResult, CallsOwned, Working
  <2>6. ASSUME NEW t \in Threads, FreeResult(t) PROVE Handed'
    <3>1. on[t] \in Requests /\ given[on[t]] \in Given
      BY <2>0, <2>6 DEF FreeResult, Finish, CallsOwned, Working
    <3>2. result[on[t]] = Ok(given[on[t]].format, 0)
      BY <2>0, <2>6 DEF FreeResult, Finish, Stages
    <3>3. result[on[t]] \in Answers
      BY <3>1, <3>2 DEF Given
    <3>. QED BY <2>1, <2>6, <3>3 DEF FreeResult, Working
  <2>7. ASSUME NEW t \in Threads, NEW code \in Codes \cup {2}, Call(t, code) PROVE Handed'
    BY <2>0, <2>7 DEF Call, CallsOwned, Working
  <2>8. ASSUME NEW t \in Threads, NEW r \in Requests, NEW op \in Sync \cup Async,
               NEW format \in Formats, NEW u \in UserData, Ask(t, r, op, format, u)
        PROVE  Handed'
    BY <2>0, <2>8 DEF Ask, CallsOwned, Working
  <2>9. ASSUME NEW t \in Threads, Poll(t) PROVE Handed'
    BY <2>9 DEF Poll
  <2>10. ASSUME NEW r \in Requests, Completes(r) PROVE Handed'
    BY <2>10 DEF Completes, Complete
  <2>11. CASE UNCHANGED vars
    BY <2>11 DEF vars
  <2>. QED BY <2>2, <2>3, <2>4, <2>5, <2>6, <2>7, <2>8, <2>9, <2>10, <2>11 DEF Next, Step
<1>3. TypeOK /\ Inv /\ Handed => CallsHeld
  <2>. SUFFICES ASSUME TypeOK, Inv, Handed PROVE CallsHeld
    OBVIOUS
  <2>1. ASSUME NEW r \in Requests, given[r] # None, result[r] = None
        PROVE  \E t \in Threads : /\ on[t] = r /\ pc[t] \in {"asked", "returned"}
                                  /\ \A u \in Threads \ {t} : on[u] # r
    BY <2>1 DEF Inv, CallsOwned, Working
  <2>2. \A r \in pending : Accepted(r) /\ ~Queued(r) /\ reply[r] = None
    BY DEF TypeOK, Inv, OneReply
  <2>. QED BY <2>1, <2>2 DEF CallsHeld
<1>. QED BY <1>1, <1>2, <1>3, Invariance, PTL DEF Spec
================================================================================
