----------------------------- MODULE StreamSession -----------------------------
(***************************************************************************)
(* The streams of a custom protocol, one after the other: the open, read,  *)
(* seek, size and close callbacks between mpv's demuxer, which speaks C's  *)
(* signed sizes and error codes, and a Stream implementation, which speaks *)
(* Rust's and is not trusted to be right: every call of it may fail, and   *)
(* may panic, which each trampoline catches.  IoStream, the crate's own    *)
(* implementation over a Read + Seek value, finds the size by seeking to   *)
(* the end and back.                                                       *)
(*                                                                         *)
(* The demuxer keeps its own idea of the position: it asks for a seek, and *)
(* takes reads to go on from there.  It closes what it opened, and makes   *)
(* no call on a stream that did not open.                                  *)
(***************************************************************************)
EXTENDS Integers

CONSTANTS
    I64Max, U64Max,     \* the largest values of i64 and of u64
    SizeMax,            \* isize::MAX: the longest slice
    FileSize,           \* the length of the underlying file
    GenericCode, UnsupportedCode, LoadingFailedCode,    \* error codes, negated
    MaxCalls            \* bound: calls in a behaviour

ASSUME ConstantsAssumption ==
    /\ I64Max \in Nat /\ U64Max \in Nat /\ U64Max > I64Max /\ SizeMax \in 0..I64Max
    /\ FileSize \in 0..U64Max /\ MaxCalls \in Nat
    /\ {GenericCode, UnsupportedCode, LoadingFailedCode} \subseteq 2..I64Max

VARIABLES
    boxed,          \* the streams on the heap, numbered by the open that made them
    cookie,         \* libmpv: the stream whose callbacks it holds, 0 for none
    opens,          \* number of opens so far
    pos,            \* the position of the underlying reader
    expected,       \* the position the demuxer believes in
    tracking,       \* kept, or lost: the reader lied or failed, and is elsewhere
    op, asked,      \* the last callback and the demuxer's argument
    reported,       \* what the Stream's method returned
    told,           \* what the demuxer was told
    calls           \* number of calls so far

stream == <<boxed, cookie, opens>>
vars == <<boxed, cookie, opens, pos, expected, tracking, op, asked, reported, told, calls>>

I64 == (-I64Max - 1)..I64Max
U64 == 0..U64Max
GENERIC == -GenericCode
UNSUPPORTED == -UnsupportedCode
LOADING_FAILED == -LoadingFailedCode
Failed == -1                    \* the method returned an error, or panicked
Unsupported == -2               \* ErrorKind::Unsupported
Smaller(m, n) == IF m < n THEN m ELSE n

Init ==
    /\ boxed = {} /\ cookie = 0 /\ opens = 0
    /\ pos = 0 /\ expected = 0 /\ tracking = "kept"
    /\ op = "none" /\ asked = 0 /\ reported = 0 /\ told = 0 /\ calls = 0

-----------------------------------------------------------------------------
\* What the trampolines make of a method's result

\* The slice that stands for the demuxer's buffer of nbytes bytes.
BufferLength(nbytes) == Smaller(nbytes, SizeMax)

\* Mutant: the count is passed on as it is.
ForwardCount(n, nbytes) == n
ReadAnswer(n, nbytes) == IF n = Failed THEN -1 ELSE Smaller(n, BufferLength(nbytes))

\* Mutant: `as i64`.
CastI64(n, otherwise) == IF n <= I64Max THEN n ELSE n - U64Max - 1
ToI64(n, otherwise) == IF n <= I64Max THEN n ELSE otherwise

SeekAnswer(p) ==
    CASE p = Unsupported -> UNSUPPORTED
      [] p = Failed -> GENERIC
      [] OTHER -> ToI64(p, GENERIC)
SizeAnswer(n) == IF n = Failed THEN UNSUPPORTED ELSE ToI64(n, UNSUPPORTED)

-----------------------------------------------------------------------------
\* The callbacks

Call(name, argument, result, answer) ==
    /\ calls < MaxCalls /\ calls' = calls + 1
    /\ op' = name /\ asked' = argument /\ reported' = result /\ told' = answer

\* A call on the open stream; a panic in it leaves the stream open.
Answer(name, argument, result, answer) ==
    /\ cookie # 0 /\ Call(name, argument, result, answer) /\ UNCHANGED stream

\* Mutant: the callbacks are filled in, and 0 returned, whatever came back.
OpenAnswerAlways(result) == 0
OpenAnswer(result) == IF result = Failed THEN LOADING_FAILED ELSE 0

\* The open function may return an error, or panic: then there is no stream.
Open(result) ==
    /\ cookie = 0 /\ Call("open", 0, result, OpenAnswer(result)) /\ opens' = opens + 1
    /\ boxed' = IF result = Failed THEN boxed ELSE boxed \cup {opens'}
    /\ cookie' = IF told' < 0 THEN 0 ELSE opens'
    /\ pos' = 0 /\ expected' = 0 /\ tracking' = "kept"

\* Mutant: the stream is borrowed, as in the other trampolines, and dropped with
\* nobody.
CloseBorrows(result) ==
    /\ cookie # 0 /\ Call("close", 0, result, 0)
    /\ cookie' = 0 /\ UNCHANGED <<boxed, opens, pos, expected, tracking>>
\* The box goes even when the stream's destructor panics; mpv hears of nothing.
Close(result) ==
    /\ cookie # 0 /\ Call("close", 0, result, 0)
    /\ boxed' = boxed \ {cookie} /\ cookie' = 0
    /\ UNCHANGED <<opens, pos, expected, tracking>>

\* The reader fills part of the slice and moves on by as much.  It may report
\* more than the slice holds; then it should have filled it.
Read(nbytes) ==
    \/ /\ Answer("read", nbytes, Failed, ReadAnswer(Failed, nbytes))
       /\ UNCHANGED <<pos, expected, tracking>>
    \/ \E filled \in 0..BufferLength(nbytes), n \in U64 :
        /\ pos + filled <= FileSize \/ filled = 0
        /\ n = filled \/ n > BufferLength(nbytes)
        /\ Answer("read", nbytes, n, ReadAnswer(n, nbytes))
        /\ pos' = pos + filled /\ expected' = expected + told'
        /\ tracking' = IF n > BufferLength(nbytes) /\ filled < BufferLength(nbytes) THEN "lost" ELSE tracking

\* A seek goes where it reports.  One that fails may have moved the reader, and
\* so may one whose result the demuxer cannot be told.
Seek(offset) ==
    \/ /\ offset < 0 /\ Answer("seek", offset, Failed, GENERIC)
       /\ UNCHANGED <<pos, expected, tracking>>
    \/ /\ offset >= 0 /\ \E p \in U64 :
            /\ Answer("seek", offset, p, SeekAnswer(p))
            /\ pos' = p /\ tracking' = IF p > I64Max THEN "lost" ELSE "kept"
       /\ expected' = IF told' < 0 THEN expected ELSE told'
    \/ /\ offset >= 0 /\ \E e \in {Failed, Unsupported} : Answer("seek", offset, e, SeekAnswer(e))
       /\ pos' \in {pos, offset} /\ tracking' = IF pos' # pos THEN "lost" ELSE tracking
       /\ UNCHANGED expected

\* Mutant: the position is not restored.
SizeAtEnd == Answer("size", 0, FileSize, SizeAnswer(FileSize)) /\ pos' = FileSize
    /\ UNCHANGED <<expected, tracking>>

\* IoStream::size asks for the position, seeks to the end, and seeks back; it
\* gives up at the first failure, so that a failed second seek leaves the
\* reader at the end (and a failed first one may).
Size ==
    \/ Answer("size", 0, FileSize, SizeAnswer(FileSize)) /\ UNCHANGED <<pos, expected, tracking>>
    \/ /\ Answer("size", 0, Failed, SizeAnswer(Failed))
       /\ pos' \in {pos, FileSize} /\ tracking' = IF pos' # pos THEN "lost" ELSE tracking
       /\ UNCHANGED expected

Next ==
    \/ \E result \in {0, Failed} : Open(result) \/ Close(result)
    \/ Size \/ (\E nbytes \in U64 : Read(nbytes)) \/ (\E offset \in I64 : Seek(offset))
Spec == Init /\ [][Next]_vars

-----------------------------------------------------------------------------
TypeOK ==
    /\ pos \in Nat /\ expected \in Nat /\ tracking \in {"kept", "lost"} 
    /\ boxed \subseteq 1..opens /\ cookie \in 0..opens /\ opens \in 0..calls
    /\ op \in {"none", "open", "read", "seek", "size", "close"}
    /\ asked \in I64 \cup U64 /\ reported \in U64 \cup {Failed, Unsupported}
    /\ told \in I64 /\ calls \in 0..MaxCalls

\* mpv is never told that more bytes were read than its buffer holds, whatever
\* the Stream implementation claims (stream_cb.rs, the comment in read_trampoline).
ReadStaysInBuffer == op = "read" => told >= -1 /\ told <= asked /\ told <= SizeMax

\* A position or a size is passed on exactly, or as an error.
AnswersTrue ==
    op \in {"seek", "size"} =>
        IF reported \in 0..I64Max THEN told = reported ELSE told \in {GENERIC, UNSUPPORTED}

\* Reads go on where the demuxer believes the stream is: asking for the size
\* does not disturb it, unless the underlying reader failed on the way back.
Contiguous == tracking = "kept" => pos = expected

\* What is on the heap is the stream mpv holds and no other: each one that opened
\* lives until its close, is freed then though its destructor panics, and none is
\* left behind by a failed open, so that mpv never calls through a freed cookie.
StreamOwned == boxed = IF cookie = 0 THEN {} ELSE {cookie}
=============================================================================
