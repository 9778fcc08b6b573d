-------------------------- MODULE StreamSessionProofs --------------------------
(***************************************************************************)
(* The answers of the stream callbacks, for every integer width, file and  *)
(* Stream implementation.                                                  *)
(***************************************************************************)
EXTENDS StreamSession, TLAPS

\* The four invariants carry each other; a seek's result tells where the reader is.
Inv == ReadStaysInBuffer /\ AnswersTrue /\ Contiguous /\ StreamOwned

\* The slice is no longer than the buffer, nor than a slice may be.
LEMMA BufferFits ==
    ASSUME NEW nbytes \in U64
    PROVE  /\ BufferLength(nbytes) \in Nat
           /\ BufferLength(nbytes) <= nbytes /\ BufferLength(nbytes) <= SizeMax
BY ConstantsAssumption DEF BufferLength, Smaller, U64

\* A read's count is -1, or fits into the slice.
LEMMA ReadAnswerFits ==
    ASSUME NEW nbytes \in U64, NEW n \in U64 \cup {Failed}
    PROVE  /\ ReadAnswer(n, nbytes) \in I64
           /\ ReadAnswer(n, nbytes) <= BufferLength(nbytes)
           /\ IF n = Failed THEN ReadAnswer(n, nbytes) = -1 ELSE ReadAnswer(n, nbytes) \in Nat
<1>1. /\ BufferLength(nbytes) \in Nat /\ BufferLength(nbytes) <= SizeMax
  BY BufferFits
<1>2. SizeMax \in Nat /\ SizeMax <= I64Max /\ I64Max \in Nat /\ U64Max \in Nat
  BY ConstantsAssumption
<1>. QED BY <1>1, <1>2 DEF ReadAnswer, Smaller, I64, U64, Failed

\* A seek's or a size's answer is exact or an error code.
LEMMA ConversionExact ==
    ASSUME NEW p \in U64 \cup {Failed, Unsupported}
    PROVE  /\ SeekAnswer(p) \in I64
           /\ IF p \in 0..I64Max THEN SeekAnswer(p) = p ELSE SeekAnswer(p) \in {GENERIC, UNSUPPORTED}
           /\ p # Unsupported =>
                /\ SizeAnswer(p) \in I64
                /\ IF p \in 0..I64Max THEN SizeAnswer(p) = p ELSE SizeAnswer(p) = UNSUPPORTED
<1>1. /\ I64Max \in Nat /\ U64Max \in Nat /\ GenericCode \in Nat /\ UnsupportedCode \in Nat
      /\ GenericCode <= I64Max /\ UnsupportedCode <= I64Max
  BY ConstantsAssumption
<1>. QED BY <1>1 DEF SeekAnswer, SizeAnswer, ToI64, I64, U64, GENERIC, UNSUPPORTED, Failed, Unsupported

\* In every reachable state the types are right and the three properties hold.
THEOREM Answers == Spec => [](TypeOK /\ Inv)
<1>0. /\ I64Max \in Nat /\ U64Max \in Nat /\ SizeMax \in Nat /\ FileSize \in Nat /\ MaxCalls \in Nat
      /\ I64Max < U64Max /\ SizeMax <= I64Max /\ FileSize <= U64Max
      /\ GenericCode \in Nat /\ UnsupportedCode \in Nat /\ GenericCode >= 2 /\ UnsupportedCode >= 2
      /\ GenericCode <= I64Max /\ UnsupportedCode <= I64Max
      /\ LoadingFailedCode \in Nat /\ LoadingFailedCode >= 2 /\ LoadingFailedCode <= I64Max
  BY ConstantsAssumption
<1>1. Init => TypeOK /\ Inv
  BY <1>0 DEF Init, TypeOK, Inv, ReadStaysInBuffer, AnswersTrue, Contiguous, StreamOwned, I64, U64, Failed, Unsupported
<1>2. TypeOK /\ Inv /\ [Next]_vars => TypeOK' /\ Inv'
  <2>. SUFFICES ASSUME TypeOK, Inv, [Next]_vars PROVE TypeOK' /\ Inv'
    OBVIOUS
  <2>4. ASSUME NEW result \in {0, Failed}, Open(result)
       PROVE  TypeOK' /\ Inv'
    <3>1. /\ told' = OpenAnswer(result) /\ told' \in {0, LOADING_FAILED} /\ LOADING_FAILED < 0
          /\ LOADING_FAILED \in I64 /\ 0 \in I64 /\ Failed # 0
      BY <2>4, <1>0 DEF Open, Call, OpenAnswer, LOADING_FAILED, I64, Failed
    <3>2. StreamOwned'
      BY <2>4, <3>1, <1>0 DEF Open, OpenAnswer, Inv, StreamOwned, TypeOK
    <3>3. boxed' \subseteq 1..opens' /\ cookie' \in 0..opens' /\ opens' \in 0..calls' /\ calls' \in 0..MaxCalls
      BY <2>4, <3>1, <1>0 DEF Open, Call, TypeOK
    <3>. QED BY <2>4, <3>1, <3>2, <3>3, <1>0
            DEF Open, Call, Inv, TypeOK, ReadStaysInBuffer, AnswersTrue, Contiguous, U64
  <2>5. ASSUME NEW result \in {0, Failed}, Close(result)
       PROVE  TypeOK' /\ Inv'
    BY <2>5, <1>0 DEF Close, Call, Inv, TypeOK, ReadStaysInBuffer, AnswersTrue, Contiguous, StreamOwned, I64, U64
  <2>. USE DEF TypeOK, Inv, ReadStaysInBuffer, AnswersTrue, Contiguous, StreamOwned, Answer, Call, stream
  <2>1. ASSUME NEW nbytes \in U64, Read(nbytes)
       PROVE  TypeOK' /\ Inv'
    <3>1. CASE Answer("read", nbytes, Failed, ReadAnswer(Failed, nbytes)) /\ UNCHANGED <<pos, expected, tracking>>
      <4>1. ReadAnswer(Failed, nbytes) = -1
        BY ReadAnswerFits
      <4>. QED BY <4>1, <3>1, <1>0 DEF I64, U64, Failed
    <3>2. ASSUME NEW filled \in 0..BufferLength(nbytes), NEW n \in U64,
                 n = filled \/ n > BufferLength(nbytes),
                 Answer("read", nbytes, n, ReadAnswer(n, nbytes)),
                 pos' = pos + filled, expected' = expected + told',
                 tracking' = IF n > BufferLength(nbytes) /\ filled < BufferLength(nbytes) THEN "lost" ELSE tracking
         PROVE  TypeOK' /\ Inv'
      <4>1. BufferLength(nbytes) \in Nat /\ BufferLength(nbytes) <= nbytes /\ BufferLength(nbytes) <= SizeMax
        BY BufferFits
      <4>2. /\ n # Failed /\ n \in Nat /\ filled \in Nat /\ filled <= BufferLength(nbytes)
            /\ nbytes \in Nat
        BY <4>1, <1>0 DEF U64, Failed
      <4>3. told' = Smaller(n, BufferLength(nbytes)) /\ told' \in I64
        BY <3>2, <4>2, ReadAnswerFits DEF ReadAnswer
      <4>4. told' \in Nat /\ told' <= BufferLength(nbytes) /\ (n = filled => told' = filled)
        BY <4>1, <4>2, <4>3 DEF Smaller
      <4>5. n > BufferLength(nbytes) => told' = BufferLength(nbytes)
        BY <4>1, <4>2, <4>3 DEF Smaller
      <4>6. tracking' = "kept" => pos' = expected'
        <5>1. tracking' = "kept" => told' = filled /\ tracking = "kept"
          BY <3>2, <4>1, <4>2, <4>4, <4>5
        <5>. QED BY <5>1, <3>2
      <4>. QED BY <3>2, <4>1, <4>2, <4>3, <4>4, <4>6, <1>0 DEF U64
    <3>. QED BY <2>1, <3>1, <3>2 DEF Read
  <2>2. ASSUME NEW offset \in I64, Seek(offset)
       PROVE  TypeOK' /\ Inv'
    <3>1. CASE offset < 0 /\ Answer("seek", offset, Failed, GENERIC) /\ UNCHANGED <<pos, expected, tracking>>
      BY <3>1, <1>0 DEF I64, U64, GENERIC, Failed
    <3>2. ASSUME NEW p \in U64, Answer("seek", offset, p, SeekAnswer(p)), pos' = p, 
                 tracking' = IF p > I64Max THEN "lost" ELSE "kept",
                 expected' = IF told' < 0 THEN expected ELSE told'
         PROVE  TypeOK' /\ Inv'
      <4>1. told' \in I64 /\ IF p \in 0..I64Max THEN told' = p ELSE told' \in {GENERIC, UNSUPPORTED}
        BY <3>2, ConversionExact
      <4>. QED BY <3>2, <4>1, <1>0 DEF I64, U64
    <3>3. ASSUME NEW e \in {Failed, Unsupported}, Answer("seek", offset, e, SeekAnswer(e)), offset >= 0,
                 pos' \in {pos, offset}, 
                 tracking' = IF pos' # pos THEN "lost" ELSE tracking, UNCHANGED expected
         PROVE  TypeOK' /\ Inv'
      <4>1. told' \in I64 /\ e \notin 0..I64Max /\ told' \in {GENERIC, UNSUPPORTED}
        BY <3>3, ConversionExact DEF Failed, Unsupported
      <4>. QED BY <3>3, <4>1, <1>0 DEF I64, U64
    <3>. QED BY <2>2, <3>1, <3>2, <3>3 DEF Seek
  <2>3. CASE Size
    <3>1. /\ SizeAnswer(FileSize) \in I64 /\ SizeAnswer(Failed) = UNSUPPORTED /\ UNSUPPORTED \in I64
          /\ IF FileSize \in 0..I64Max THEN SizeAnswer(FileSize) = FileSize
             ELSE SizeAnswer(FileSize) = UNSUPPORTED
      <4>1. FileSize \in U64 /\ FileSize # Unsupported /\ Failed # Unsupported /\ Failed \notin 0..I64Max
        BY <1>0 DEF U64, Unsupported, Failed
      <4>. QED BY <4>1, ConversionExact
    <3>2. FileSize \in U64 /\ Failed \notin 0..I64Max /\ 0 \in I64
      BY <1>0 DEF U64, Failed, I64
    <3>. QED BY <2>3, <3>1, <3>2, <1>0 DEF Size
  <2>6. CASE UNCHANGED vars
    BY <2>6 DEF vars
  <2>. QED BY <2>1, <2>2, <2>3, <2>4, <2>5, <2>6 DEF Next
<1>. QED BY <1>1, <1>2, PTL DEF Spec

\* mpv is never told of bytes past its buffer (ReadStaysInBuffer).
THEOREM ReadBounded == Spec => []ReadStaysInBuffer
<1>1. Inv => ReadStaysInBuffer
  BY DEF Inv
<1>. QED BY <1>1, Answers, PTL

\* Positions and sizes are passed on exactly or as an error (AnswersTrue).
THEOREM Exact == Spec => []AnswersTrue
<1>1. Inv => AnswersTrue
  BY DEF Inv
<1>. QED BY <1>1, Answers, PTL

\* The demuxer's position is the reader's (Contiguous).
THEOREM Position == Spec => []Contiguous
<1>1. Inv => Contiguous
  BY DEF Inv
<1>. QED BY <1>1, Answers, PTL

\* Each stream lives from its open to its close (StreamOwned).
THEOREM Owned == Spec => []StreamOwned
<1>1. Inv => StreamOwned
  BY DEF Inv
<1>. QED BY <1>1, Answers, PTL
=============================================================================
