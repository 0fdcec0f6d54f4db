------------------------------ MODULE Response ------------------------------
(***************************************************************************)
(* One API call after another, from the moment its request goes out to the *)
(* moment its caller has what it returns: the transport's error, the       *)
(* status, the body that arrives in chunks and can break off, its decoding *)
(* and its closing.  Methods differ in who does this, see Handlers:        *)
(* Client.do, or the method's own lines.                                   *)
(*                                                                         *)
(* A body is its number of chunks; what was read of it is how many of them *)
(* came.  Calls share nothing here, so one call at a time is all there is. *)
(***************************************************************************)
EXTENDS Naturals

CONSTANTS
  Methods,   (* how methods treat answers: exec and decode, see Handlers *)
  MaxChunks  (* bound: chunks of a body                                  *)

Execs == {"do", "inline", "head", "stream"}

ASSUME MethodsAssumption ==
  /\ Methods \subseteq [exec: Execs, decode: BOOLEAN]
  /\ MaxChunks \in Nat

VARIABLES
  pc,      (* where the call is                                    *)
  method,  (* what the call does with its answer                   *)
  status,  (* "good", or "bad" from 400 on; "none" without answer  *)
  size,    (* the chunks that the server sends                     *)
  got,     (* those that were read                                 *)
  broken,  (* whether reading failed: broken connection or context *)
  closes,  (* calls of resp.Body.Close                             *)
  result   (* what the call returned, and how much of the body is  *)
           (*   in the value or in the error                       *)

vars == <<pc, method, status, size, got, broken, closes, result>>

NoResult == [kind |-> "none", body |-> 0]

Kinds == {"none", "ok", "stream", "transport", "read", "api", "decode"}

TypeOK ==
  /\ pc \in {"idle", "sent", "answered", "reading", "handed", "returned"}
  /\ method \in [exec: Execs, decode: BOOLEAN]
  /\ status \in {"none", "good", "bad"}
  /\ size \in 0..MaxChunks
  /\ got \in 0..size
  /\ broken \in BOOLEAN
  /\ closes \in 0..1
  /\ result \in [kind: Kinds, body: 0..MaxChunks]

Init ==
  /\ pc = "idle"
  /\ method = [exec |-> "do", decode |-> FALSE]
  /\ status = "none"
  /\ size = 0
  /\ got = 0
  /\ broken = FALSE
  /\ closes = 0
  /\ result = NoResult

answerVars == <<method, status, size>>

\* The request goes out.
Send ==
  /\ pc \in {"idle", "returned"}
  /\ pc' = "sent"
  /\ method' \in Methods
  /\ status' = "none"
  /\ size' = 0
  /\ got' = 0
  /\ broken' = FALSE
  /\ closes' = 0
  /\ result' = NoResult

\* c.HTTPClient.Do fails: there is no body to close.
TransportFails ==
  /\ pc = "sent"
  /\ pc' = "returned"
  /\ result' = [kind |-> "transport", body |-> 0]
  /\ UNCHANGED <<answerVars, got, broken, closes>>

\* c.HTTPClient.Do returns: the status is known and the body open.  A HEAD request,
\* which GetAccountInfo makes, is answered without a body.
Answer ==
  /\ pc = "sent"
  /\ pc' = "answered"
  /\ status' \in {"good", "bad"}
  /\ size' \in IF method.exec = "head" THEN {0} ELSE 0..MaxChunks
  /\ UNCHANGED <<method, got, broken, closes, result>>

\* Mutant: a body that is closed by a defer is closed by hand as well.
Bug_ClosesTwice(r) ==
  /\ pc' = "returned"
  /\ closes' = closes + 2
  /\ result' = r
  /\ UNCHANGED <<answerVars, got, broken>>

\* The method returns r, and closes the body by its defer or by itself.
CloseAndReturn(r) ==
  /\ pc' = "returned"
  /\ closes' = closes + 1
  /\ result' = r
  /\ UNCHANGED <<answerVars, got, broken>>

\* do reads every body, the methods themselves only that of an error.
StartReading ==
  /\ pc = "answered"
  /\ \/ method.exec = "do"
     \/ method.exec \in {"inline", "stream"} /\ status = "bad"
  /\ pc' = "reading"
  /\ UNCHANGED <<answerVars, got, broken, closes, result>>

\* The methods that return an error, or values of the header, without reading.
ReturnUnread ==
  /\ pc = "answered"
  /\ \/ /\ method.exec \in {"inline", "head"}
        /\ status = "good"
        /\ CloseAndReturn([kind |-> "ok", body |-> 0])
     \/ /\ method.exec = "head"
        /\ status = "bad"
        /\ CloseAndReturn([kind |-> "api", body |-> 0])

\* DownloadObject returns the open body.
HandOver ==
  /\ pc = "answered"
  /\ method.exec = "stream"
  /\ status = "good"
  /\ pc' = "handed"
  /\ result' = [kind |-> "stream", body |-> 0]
  /\ UNCHANGED <<answerVars, got, broken, closes>>

(* io.ReadAll *)

ReadChunk ==
  /\ pc \in {"reading", "handed"}
  /\ ~broken
  /\ got < size
  /\ got' = got + 1
  /\ UNCHANGED <<pc, answerVars, broken, closes, result>>

BodyBreaks ==
  /\ pc \in {"reading", "handed"}
  /\ ~broken
  /\ broken' = TRUE
  /\ UNCHANGED <<pc, answerVars, got, closes, result>>

ReadAllReturned ==
  /\ pc = "reading"
  /\ broken \/ got = size

\* Mutant: do ignores the error of io.ReadAll, as the methods do.
Bug_DoIgnoresReadError ==
  /\ ReadAllReturned
  /\ method.exec = "do"
  /\ \/ /\ status = "bad"
        /\ CloseAndReturn([kind |-> "api", body |-> got])
     \/ /\ status = "good"
        /\ CloseAndReturn([kind |-> "ok", body |-> IF method.decode THEN got ELSE 0])

\* Mutant: do decodes the body before it looks at the status.
Bug_DecodesFirst ==
  /\ ReadAllReturned
  /\ method.exec = "do"
  /\ \/ /\ broken
        /\ CloseAndReturn([kind |-> "read", body |-> 0])
     \/ /\ ~broken
        /\ status = "bad"
        /\ CloseAndReturn([kind |-> "api", body |-> got])
     \/ /\ ~broken
        /\ status = "good"
        /\ CloseAndReturn([kind |-> "ok", body |-> IF method.decode THEN got ELSE 0])
     \/ /\ ~broken
        /\ method.decode
        /\ got > 0
        /\ CloseAndReturn([kind |-> "decode", body |-> 0])

\* do, after io.ReadAll
DoReturns ==
  /\ ReadAllReturned
  /\ method.exec = "do"
  /\ \/ /\ broken
        /\ CloseAndReturn([kind |-> "read", body |-> 0])
     \/ /\ ~broken
        /\ status = "bad"
        /\ CloseAndReturn([kind |-> "api", body |-> got])
     \/ /\ ~broken
        /\ status = "good"
        /\ CloseAndReturn([kind |-> "ok", body |-> IF method.decode THEN got ELSE 0])
     \/ /\ ~broken
        /\ status = "good"
        /\ method.decode
        /\ got > 0
        /\ CloseAndReturn([kind |-> "decode", body |-> 0])

\* Mutant: DownloadObject returns the error and leaves its body open.
Bug_ErrorBodyLeftOpen ==
  /\ ReadAllReturned
  /\ method.exec \in {"inline", "stream"}
  /\ IF method.exec = "inline"
       THEN CloseAndReturn([kind |-> "api", body |-> got])
       ELSE /\ pc' = "returned"
            /\ result' = [kind |-> "api", body |-> got]
            /\ UNCHANGED <<answerVars, got, broken, closes>>

\* body, _ := io.ReadAll(resp.Body), and newAPIError
InlineReturns ==
  /\ ReadAllReturned
  /\ method.exec \in {"inline", "stream"}
  /\ CloseAndReturn([kind |-> "api", body |-> got])

\* DownloadObject's caller is done with the body.
CallerCloses ==
  /\ pc = "handed"
  /\ pc' = "returned"
  /\ closes' = closes + 1
  /\ UNCHANGED <<answerVars, got, broken, result>>

Next ==
  \/ Send \/ TransportFails \/ Answer \/ StartReading \/ ReturnUnread \/ HandOver
  \/ ReadChunk \/ BodyBreaks \/ DoReturns \/ InlineReturns \/ CallerCloses

Spec == Init /\ [][Next]_vars
-----------------------------------------------------------------------------
\* Every body that the transport opened is closed exactly once: by the method, or, if
\* DownloadObject handed it over, not by the method.  Nothing is closed that is still
\* to be read.
BodiesSettled ==
  closes = IF pc = "returned" /\ status # "none" THEN 1 ELSE 0

\* No failure passes for a success: a call succeeds only on a good status, and a value
\* that do decoded comes from all of the body, not from what came before it broke.
SuccessIsWhole ==
  result.kind \in {"ok", "stream"} =>
    /\ status = "good"
    /\ method.exec = "do" => ~broken /\ got = size
    /\ method.exec = "do" /\ method.decode => result.body = size

\* An answer with a bad status whose body arrived is an APIError with all of that
\* body, through every method, and nothing else is an APIError: what the two runs
\* below find wrong needs a body that breaks off.
IntactErrorsAreRaw ==
  /\ result.kind = "api" => status = "bad"
  /\ pc = "returned" /\ status = "bad" /\ ~broken =>
       result.kind = "api" /\ result.body = size

(* What the README and a comment say that the code does not do *)

\* "API errors are returned as *conoha.APIError": with a bad status, whatever else
\* happens to the answer.
BadStatusIsAPIError ==
  pc = "returned" /\ status = "bad" => result.kind = "api"

\* "The Body field always contains the raw response body string."
BodyIsRaw ==
  result.kind = "api" => result.body = size
=============================================================================
