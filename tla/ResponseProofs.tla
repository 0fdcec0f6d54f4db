--------------------------- MODULE ResponseProofs ---------------------------
(***************************************************************************)
(* Proofs about Response, for any methods and bodies of any length.        *)
(***************************************************************************)
EXTENDS Response, TLAPS

\* Where the call is says what has happened to it so far: there is a status once the
\* answer came, nothing is closed before the return, a result exists from then on.
ProgressInv ==
  /\ pc = "idle" => status = "none" /\ closes = 0 /\ result = NoResult
  /\ pc = "sent" => status = "none" /\ closes = 0 /\ result = NoResult /\ got = 0 /\ ~broken
  /\ pc = "answered" => status # "none" /\ closes = 0 /\ result = NoResult /\ got = 0 /\ ~broken
  /\ pc = "reading" => /\ status # "none" /\ closes = 0 /\ result = NoResult
                       /\ method.exec = "do" \/ status = "bad"
  /\ pc = "handed" => /\ status = "good" /\ closes = 0 /\ method.exec = "stream"
                      /\ result.kind = "stream"
  /\ pc = "returned" => closes = IF status # "none" THEN 1 ELSE 0

IInv == TypeOK /\ ProgressInv /\ SuccessIsWhole

\* A call may return nothing of a body.
LEMMA NothingIsAPart == 0 \in 0..MaxChunks /\ 0 \in 0..0 /\ 0 \in 0..1
BY MethodsAssumption

\* What was read is no more than a body can have.
LEMMA PartFits == TypeOK => got \in 0..MaxChunks
BY MethodsAssumption DEF TypeOK

\* A return by the method itself keeps the invariant.
LEMMA ReturnKeeps ==
  ASSUME IInv, NEW r \in [kind: Kinds, body: 0..MaxChunks],
         pc \in {"answered", "reading"}, CloseAndReturn(r),
         r.kind # "stream",
         r.kind = "ok" =>
           /\ status = "good"
           /\ method.exec = "do" => ~broken /\ got = size
           /\ method.exec = "do" /\ method.decode => r.body = size
  PROVE  IInv'
<1> USE DEF IInv, CloseAndReturn, answerVars
<1>1. closes = 0 /\ status # "none"
  BY DEF ProgressInv
<1>2. TypeOK'
  BY <1>1 DEF TypeOK
<1>3. ProgressInv'
  BY <1>1 DEF ProgressInv
<1>4. SuccessIsWhole'
  BY DEF SuccessIsWhole
<1> QED
  BY <1>2, <1>3, <1>4

\* IInv is inductive.
LEMMA Inductive == IInv /\ [Next]_vars => IInv'
<1> SUFFICES ASSUME IInv, [Next]_vars PROVE IInv'
  OBVIOUS
<1> USE DEF IInv
<1>1. CASE Send
  <2>1. TypeOK'
    <3>1. method' \in [exec: Execs, decode: BOOLEAN]
      BY <1>1, MethodsAssumption DEF Send
    <3>2. result' \in [kind: Kinds, body: 0..MaxChunks]
      BY <1>1, NothingIsAPart DEF Send, NoResult, Kinds
    <3>3. pc' = "sent" /\ status' = "none" /\ size' = 0 /\ got' = 0 /\ broken' = FALSE /\ closes' = 0
      BY <1>1 DEF Send
    <3> QED
      BY <3>1, <3>2, <3>3, NothingIsAPart DEF TypeOK
  <2>2. ProgressInv'
    BY <1>1 DEF Send, ProgressInv, NoResult
  <2>3. SuccessIsWhole'
    BY <1>1 DEF Send, SuccessIsWhole, NoResult
  <2> QED
    BY <2>1, <2>2, <2>3
<1>2. CASE TransportFails
  <2>1. TypeOK'
    BY <1>2, NothingIsAPart DEF TransportFails, answerVars, TypeOK, Kinds
  <2>2. ProgressInv'
    BY <1>2 DEF TransportFails, answerVars, ProgressInv
  <2>3. SuccessIsWhole'
    BY <1>2 DEF TransportFails, SuccessIsWhole
  <2> QED
    BY <2>1, <2>2, <2>3
<1>3. CASE Answer
  <2>1. size' \in 0..MaxChunks /\ got = 0
    BY <1>3, NothingIsAPart DEF Answer, ProgressInv
  <2>2. TypeOK'
    BY <1>3, <2>1 DEF Answer, TypeOK
  <2>3. ProgressInv'
    BY <1>3 DEF Answer, ProgressInv
  <2>4. SuccessIsWhole'
    BY <1>3 DEF Answer, ProgressInv, SuccessIsWhole, NoResult
  <2> QED
    BY <2>2, <2>3, <2>4
<1>4. CASE StartReading
  <2>1. TypeOK'
    BY <1>4 DEF StartReading, answerVars, TypeOK
  <2>2. ProgressInv'
    BY <1>4 DEF StartReading, answerVars, ProgressInv
  <2>3. SuccessIsWhole'
    BY <1>4 DEF StartReading, answerVars, SuccessIsWhole
  <2> QED
    BY <2>1, <2>2, <2>3
<1>5. CASE ReturnUnread
  <2> DEFINE ok == [kind |-> "ok", body |-> 0]
             api == [kind |-> "api", body |-> 0]
  <2>1. ok \in [kind: Kinds, body: 0..MaxChunks] /\ api \in [kind: Kinds, body: 0..MaxChunks]
    BY NothingIsAPart DEF Kinds
  <2>2. CASE status = "good" /\ CloseAndReturn(ok) /\ method.exec # "do"
    BY <1>5, <2>1, <2>2, ReturnKeeps DEF ReturnUnread
  <2>3. CASE CloseAndReturn(api)
    BY <1>5, <2>1, <2>3, ReturnKeeps DEF ReturnUnread
  <2> QED
    BY <1>5, <2>2, <2>3 DEF ReturnUnread
<1>6. CASE HandOver
  <2>1. TypeOK'
    BY <1>6, NothingIsAPart DEF HandOver, answerVars, TypeOK, Kinds
  <2>2. ProgressInv'
    BY <1>6 DEF HandOver, answerVars, ProgressInv
  <2>3. SuccessIsWhole'
    BY <1>6 DEF HandOver, answerVars, SuccessIsWhole
  <2> QED
    BY <2>1, <2>2, <2>3
<1>7. CASE ReadChunk
  <2>1. result.kind \in {"none", "stream"} /\ (pc = "handed" => method.exec = "stream")
    BY <1>7 DEF ReadChunk, ProgressInv, NoResult
  <2>2. TypeOK'
    BY <1>7 DEF ReadChunk, answerVars, TypeOK
  <2>3. ProgressInv'
    BY <1>7 DEF ReadChunk, answerVars, ProgressInv
  <2>4. SuccessIsWhole'
    BY <1>7 DEF ReadChunk, answerVars, ProgressInv, SuccessIsWhole, NoResult
  <2> QED
    BY <2>2, <2>3, <2>4
<1>8. CASE BodyBreaks
  <2>1. TypeOK'
    BY <1>8 DEF BodyBreaks, answerVars, TypeOK
  <2>2. ProgressInv'
    BY <1>8 DEF BodyBreaks, answerVars, ProgressInv
  <2>3. SuccessIsWhole'
    BY <1>8 DEF BodyBreaks, answerVars, ProgressInv, SuccessIsWhole, NoResult
  <2> QED
    BY <2>1, <2>2, <2>3
<1>9. CASE DoReturns
  <2> DEFINE read == [kind |-> "read", body |-> 0]
             api == [kind |-> "api", body |-> got]
             ok == [kind |-> "ok", body |-> IF method.decode THEN got ELSE 0]
             decode == [kind |-> "decode", body |-> 0]
  <2>1. got \in 0..MaxChunks
    BY PartFits
  <2>2. /\ read \in [kind: Kinds, body: 0..MaxChunks] /\ api \in [kind: Kinds, body: 0..MaxChunks]
        /\ ok \in [kind: Kinds, body: 0..MaxChunks] /\ decode \in [kind: Kinds, body: 0..MaxChunks]
    BY <2>1, NothingIsAPart DEF Kinds
  <2>3. pc = "reading" /\ (broken \/ got = size)
    BY <1>9 DEF DoReturns, ReadAllReturned
  <2>4. CASE CloseAndReturn(read)
    BY <2>2, <2>3, <2>4, ReturnKeeps
  <2>5. CASE CloseAndReturn(api)
    BY <2>2, <2>3, <2>5, ReturnKeeps
  <2>6. CASE ~broken /\ status = "good" /\ CloseAndReturn(ok)
    BY <2>2, <2>3, <2>6, ReturnKeeps
  <2>7. CASE CloseAndReturn(decode)
    BY <2>2, <2>3, <2>7, ReturnKeeps
  <2> QED
    BY <1>9, <2>4, <2>5, <2>6, <2>7 DEF DoReturns
<1>10. CASE InlineReturns
  <2> DEFINE api == [kind |-> "api", body |-> got]
  <2>1. api \in [kind: Kinds, body: 0..MaxChunks]
    BY PartFits DEF Kinds
  <2> QED
    BY <1>10, <2>1, ReturnKeeps DEF InlineReturns, ReadAllReturned
<1>11. CASE CallerCloses
  <2>1. TypeOK'
    BY <1>11 DEF CallerCloses, answerVars, ProgressInv, TypeOK
  <2>2. ProgressInv'
    BY <1>11 DEF CallerCloses, answerVars, ProgressInv
  <2>3. SuccessIsWhole'
    BY <1>11 DEF CallerCloses, answerVars, SuccessIsWhole
  <2> QED
    BY <2>1, <2>2, <2>3
<1>12. CASE UNCHANGED vars
  BY <1>12 DEF vars, TypeOK, ProgressInv, SuccessIsWhole
<1> QED
  BY <1>1, <1>2, <1>3, <1>4, <1>5, <1>6, <1>7, <1>8, <1>9, <1>10, <1>11, <1>12 DEF Next

\* IInv holds of every call.
LEMMA Invariant == Spec => []IInv
<1>1. Init => IInv
  <2> SUFFICES ASSUME Init PROVE IInv
    OBVIOUS
  <2>1. TypeOK
    <3>1. method \in [exec: Execs, decode: BOOLEAN]
      BY DEF Init, Execs
    <3>2. result \in [kind: Kinds, body: 0..MaxChunks]
      BY NothingIsAPart DEF Init, NoResult, Kinds
    <3> QED
      BY <3>1, <3>2, NothingIsAPart DEF Init, TypeOK
  <2>2. ProgressInv
    BY DEF Init, ProgressInv
  <2>3. SuccessIsWhole
    BY DEF Init, SuccessIsWhole, NoResult
  <2> QED
    BY <2>1, <2>2, <2>3 DEF IInv
<1> QED
  BY <1>1, Inductive, PTL DEF Spec

\* The state is well typed, and no body is closed twice, whatever the bodies.
THEOREM TypeCorrect == Spec => []TypeOK
<1>1. IInv => TypeOK
  BY DEF IInv
<1> QED
  BY <1>1, Invariant, PTL

\* Every body that the transport opens is closed once, when the call, or the caller
\* that DownloadObject gave it to, is done with it.
THEOREM EveryBodySettled == Spec => []BodiesSettled
<1>1. IInv => BodiesSettled
  BY DEF IInv, TypeOK, ProgressInv, BodiesSettled
<1> QED
  BY <1>1, Invariant, PTL

\* A call succeeds only on a good status, with all of the body that it decoded.
THEOREM NoFalseSuccess == Spec => []SuccessIsWhole
<1>1. IInv => SuccessIsWhole
  BY DEF IInv
<1> QED
  BY <1>1, Invariant, PTL

\* An error's body is complete unless it broke off.  The answer of a HEAD request, which
\* no method reads, has none.
ErrorInv ==
  /\ method.exec = "head" => size = 0
  /\ pc = "handed" => status = "good"
  /\ IntactErrorsAreRaw

\* Every step keeps it: no place of do or of its copies returns a bad status as anything
\* but an error with what was read.
LEMMA ErrorInductive ==
  TypeOK /\ ProgressInv /\ ErrorInv /\ [Next]_vars => ErrorInv'
<1> SUFFICES ASSUME TypeOK, ProgressInv, ErrorInv, [Next]_vars PROVE ErrorInv'
  OBVIOUS
<1> USE DEF ErrorInv, IntactErrorsAreRaw, NoResult
<1>1. CASE Send
  BY <1>1 DEF Send
<1>2. CASE TransportFails
  BY <1>2 DEF TransportFails, answerVars, ProgressInv
<1>3. CASE Answer
  BY <1>3 DEF Answer, ProgressInv
<1>4. CASE StartReading \/ HandOver
  BY <1>4 DEF StartReading, HandOver, answerVars, ProgressInv
<1>5. CASE ReturnUnread
  BY <1>5 DEF ReturnUnread, CloseAndReturn, answerVars, ProgressInv
<1>6. CASE ReadChunk \/ BodyBreaks
  BY <1>6 DEF ReadChunk, BodyBreaks, answerVars, ProgressInv
<1>7. CASE DoReturns
  BY <1>7 DEF DoReturns, ReadAllReturned, CloseAndReturn, answerVars, ProgressInv
<1>8. CASE InlineReturns
  BY <1>8 DEF InlineReturns, ReadAllReturned, CloseAndReturn, answerVars, ProgressInv
<1>9. CASE CallerCloses
  BY <1>9 DEF CallerCloses, answerVars, ProgressInv
<1>10. CASE UNCHANGED vars
  BY <1>10 DEF vars
<1> QED
  BY <1>1, <1>2, <1>3, <1>4, <1>5, <1>6, <1>7, <1>8, <1>9, <1>10 DEF Next

\* Every method turns a bad status whose body arrived into an APIError with that body.
THEOREM ErrorsAreRaw == Spec => []IntactErrorsAreRaw
<1>1. Init => ErrorInv
  BY DEF Init, ErrorInv, IntactErrorsAreRaw, NoResult
<1>2. IInv => TypeOK /\ ProgressInv
  BY DEF IInv
<1>3. ErrorInv => IntactErrorsAreRaw
  BY DEF ErrorInv
<1> QED
  BY <1>1, <1>2, <1>3, ErrorInductive, Invariant, PTL DEF Spec
=============================================================================
