----------------------------- MODULE HandleTask -----------------------------
(***************************************************************************)
(* One task in the hands of a pool worker: RequestsThreadPool::handleTask  *)
(* (library/request_thread_pool.cpp), the output side of RequestImpl       *)
(* (library/requestimpl.cpp) and RequestStream (library/stream.cpp), whose *)
(* destructor writes what was streamed into it.                            *)
(*                                                                         *)
(* A handler is any sequence of at most MaxCalls calls on the request,     *)
(* ended by a return or an exception.  A write to the client may fail at   *)
(* any point; the FastCGI stream keeps its error, so every later write     *)
(* fails as well.  Destructors may throw, as in the C++ this code is       *)
(* written in; one that throws while an exception unwinds ends the         *)
(* process.                                                                *)
(***************************************************************************)
EXTENDS Integers, Sequences, FiniteSets

CONSTANTS Handlers,     \* number of handlers of the task
          MaxCalls,     \* bound on the calls each handler makes
          ErrorCodes,   \* statuses for sendError and HttpException, 400 and up
          Cookies       \* cookies (and headers) handlers may set

ASSUME HandlersAssumption == Handlers \in Nat /\ MaxCalls \in Nat
ASSUME ErrorCodesAssumption == ErrorCodes \subseteq 400 .. 599

VARIABLES
    isHead,      \* the request method is HEAD
    hasStream,   \* stream_ is set: not so when the request cache retries
    resp,        \* the response: see Response below
    processed,   \* processed_
    pc,          \* where handleTask is
    index,       \* the handler whose turn it is
    calls,       \* calls the running handler has made
    buffered,    \* the handler's RequestStream holds output
    exc,         \* the exception in flight: "none", "http", "std" or "unknown"
    code,        \* the status of an HttpException in flight
    early        \* history: an exception left a handler that had sent nothing

vars == <<isHead, hasStream, resp, processed, pc, index, calls, buffered, exc,
          code, early>>

\* status_, out_cookies_/out_headers_ (what handlers put there), headers_sent_,
\* the error state of the FastCGI stream, and what went to the client: a header
\* block ("head", or "partial" when it was cut short) and pieces of body, by
\* the handlers ("handler"), sendError ("error") or the exception text ("what").
Piece(kind, status, cookies) == [kind |-> kind, status |-> status, cookies |-> cookies]
Response == [status : ErrorCodes \cup {200, 302, 500}, cookies : SUBSET Cookies,
             sent : BOOLEAN, broken : BOOLEAN,
             wire : Seq([kind : {"head", "partial", "handler", "error", "what"},
                         status : ErrorCodes \cup {200, 302, 500},
                         cookies : SUBSET Cookies])]

\* reset(), on a connection that is up.
Reset == [status |-> 200, cookies |-> {}, sent |-> FALSE, broken |-> FALSE, wire |-> <<>>]

Init ==
    /\ isHead \in BOOLEAN
    /\ hasStream \in BOOLEAN
    /\ resp = Reset
    /\ processed = FALSE
    /\ pc = "loop"
    /\ index = 1
    /\ calls = 0
    /\ buffered = FALSE
    /\ exc = "none"
    /\ code = 500
    /\ early = FALSE

-----------------------------------------------------------------------------
(* RequestImpl.  An operation yields the set of its possible results: the    *)
(* response after it, and whether it threw.                                  *)

Done(r) == [resp |-> r, threw |-> FALSE]
Threw(r) == [resp |-> r, threw |-> TRUE]

\* FastcgiRequest::write of characters: it may fail, always does once the stream
\* is broken, and then throws.  What is sent of a piece that fails is onFailure.
Put(r, piece, onFailure) ==
    {Threw([r EXCEPT !.broken = TRUE,
                     !.wire = IF r.broken THEN @ ELSE @ \o onFailure])}
    \cup (IF r.broken THEN {} ELSE {Done([r EXCEPT !.wire = Append(@, piece)])})

\* FastcgiRequest::write of a streambuf: a failure only sets failbit of the local
\* ostream, so that the call returns either way.
PutBuf(r, piece) == {Done(x.resp) : x \in Put(r, piece, <<>>)}

\* sendHeadersInternal: headers_sent_ is set only after the last write.
SendHeaders(r) ==
    LET head == Piece("head", r.status, r.cookies)
        part == Piece("partial", r.status, r.cookies)
        mark(x) == IF x.threw THEN x ELSE Done([x.resp EXCEPT !.sent = TRUE])
    IN  IF r.sent THEN {Done(r)}
        ELSE IF ~hasStream THEN {Done([r EXCEPT !.sent = TRUE])}
        ELSE {mark(x) : x \in Put(r, head, <<part>>)}

\* Variant: writing a streambuf throws as writing characters does.
WriteThrows(r, by, from) ==
    LET body(x) == IF x.threw \/ ~hasStream \/ isHead THEN {x}
                   ELSE Put(x.resp, Piece(by, x.resp.status, {}), <<>>)
    IN  UNION {body(x) : x \in SendHeaders(r)}

\* The overloads of write, from "chars" or from a "streambuf": the headers first,
\* which may throw in both; no body for HEAD.
Write(r, by, from) ==
    LET piece(x) == Piece(by, x.resp.status, {})
        body(x) == IF x.threw \/ ~hasStream \/ isHead THEN {x}
                   ELSE IF from = "chars" THEN Put(x.resp, piece(x), <<>>)
                   ELSE PutBuf(x.resp, piece(x))
    IN  UNION {body(x) : x \in SendHeaders(r)}

\* Variant: sendError leaves the handlers' cookies in.
SendErrorKeepsCookies(r, status) ==
    LET page(x) == IF x.threw \/ ~hasStream THEN {x}
                   ELSE Put(x.resp, Piece("error", status, {}), <<>>)
    IN  IF r.sent THEN {Threw(r)}
        ELSE UNION {page(x) : x \in SendHeaders([r EXCEPT !.status = status])}

\* sendError: what the handlers set is cleared; the page is written whatever
\* the method.
SendError(r, status) ==
    LET page(x) == IF x.threw \/ ~hasStream THEN {x}
                   ELSE Put(x.resp, Piece("error", status, {}), <<>>)
    IN  IF r.sent THEN {Threw(r)}
        ELSE UNION {page(x) :
                      x \in SendHeaders([r EXCEPT !.status = status, !.cookies = {}])}

\* setStatus, and setCookie or setHeader.
SetStatus(r, status) == IF r.sent THEN {Threw(r)}
                        ELSE {Done([r EXCEPT !.status = status])}
SetCookie(r, c) == IF r.sent THEN {Threw(r)}
                   ELSE {Done([r EXCEPT !.cookies = @ \cup {c}])}

-----------------------------------------------------------------------------
(* A handler. *)

Raise(kind) ==
    /\ exc' = kind
    /\ pc' = "unwind"
    /\ early' = (early \/ (~resp.sent /\ ~resp.broken /\ ~buffered))

\* A call on the request: when it throws, the std::exception leaves the handler.
Call(results) ==
    /\ pc = "handler"
    /\ calls < MaxCalls
    /\ calls' = calls + 1
    /\ \E x \in results :
          /\ resp' = x.resp
          /\ IF x.threw THEN Raise("std") ELSE UNCHANGED <<exc, pc, early>>
    /\ UNCHANGED <<isHead, hasStream, processed, index, buffered, code>>

HandlerSetStatus == Call(SetStatus(resp, 302))
HandlerSetCookie(c) == Call(SetCookie(resp, c))
HandlerWrite(from) == Call(Write(resp, "handler", from))
HandlerSendError(status) == Call(SendError(resp, status))

\* stream << text, on a RequestStream that lives as long as the handler.
HandlerStream ==
    /\ pc = "handler"
    /\ calls < MaxCalls
    /\ calls' = calls + 1
    /\ buffered' = TRUE
    /\ UNCHANGED <<isHead, hasStream, resp, processed, pc, index, exc, code, early>>

HandlerMarkAsProcessed ==
    /\ pc = "handler"
    /\ ~processed
    /\ processed' = TRUE
    /\ UNCHANGED <<isHead, hasStream, resp, pc, index, calls, buffered, exc, code,
                   early>>

\* The handler throws.
HandlerThrow(kind, status) ==
    /\ pc = "handler"
    /\ Raise(kind)
    /\ code' = status
    /\ UNCHANGED <<isHead, hasStream, resp, processed, index, calls, buffered>>

\* The handler returns: ~RequestStream writes, and throws if the headers fail.
HandlerReturn ==
    /\ pc = "handler"
    /\ \E x \in (IF buffered THEN Write(resp, "handler", "streambuf") ELSE {Done(resp)}) :
          /\ resp' = x.resp
          /\ IF x.threw THEN exc' = "std" /\ pc' = "caught"
                        ELSE exc' = "none" /\ pc' = "loop"
    /\ index' = index + 1
    /\ buffered' = FALSE
    /\ UNCHANGED <<isHead, hasStream, processed, calls, code, early>>

\* The exception unwinds the handler: ~RequestStream writes what was streamed.
\* If that throws too the process is terminated.
Unwind ==
    /\ pc = "unwind"
    /\ \E x \in (IF buffered THEN Write(resp, "handler", "streambuf") ELSE {Done(resp)}) :
          /\ resp' = x.resp
          /\ pc' = IF x.threw THEN "terminated" ELSE "caught"
    /\ buffered' = FALSE
    /\ UNCHANGED <<isHead, hasStream, processed, index, calls, exc, code, early>>

-----------------------------------------------------------------------------
(* handleTask. *)

\* Variant: a processed request returns from handleTask.
NextHandlerReturns ==
    /\ pc = "loop"
    /\ pc' = IF processed THEN "good"
             ELSE IF index > Handlers THEN "finish" ELSE "handler"
    /\ calls' = 0
    /\ UNCHANGED <<isHead, hasStream, resp, processed, index, buffered, exc, code,
                   early>>

\* The loop over the handlers stops at the first processed request.
NextHandler ==
    /\ pc = "loop"
    /\ pc' = IF index > Handlers \/ processed THEN "finish" ELSE "handler"
    /\ calls' = 0
    /\ UNCHANGED <<isHead, hasStream, resp, processed, index, buffered, exc, code,
                   early>>

\* sendHeaders after the last handler.
Finish ==
    /\ pc = "finish"
    /\ \E x \in SendHeaders(resp) :
          /\ resp' = x.resp
          /\ IF x.threw THEN exc' = "std" /\ pc' = "caught"
                        ELSE exc' = exc /\ pc' = "good"
    /\ UNCHANGED <<isHead, hasStream, processed, index, calls, buffered, code, early>>

\* Variant: the exception is swallowed and the headers are sent as they are.
CatchSwallow ==
    /\ pc = "caught"
    /\ pc' = IF resp.sent \/ resp.broken THEN "escape" ELSE "finish"
    /\ UNCHANGED <<isHead, hasStream, resp, processed, index, calls, buffered, exc,
                   code, early>>

\* The catch blocks begin alike: setStatus(500), which throws when the headers
\* were sent, and then the exception is thrown again.
Catch ==
    /\ pc = "caught"
    /\ \E x \in SetStatus(resp, 500) :
          /\ resp' = x.resp
          /\ pc' = IF x.threw THEN "escape" ELSE "reply"
    /\ UNCHANGED <<isHead, hasStream, processed, index, calls, buffered, exc, code,
                   early>>

\* HttpException: sendError with its status.
ReplyHttp ==
    /\ pc = "reply"
    /\ exc = "http"
    /\ \E x \in SendError(resp, code) :
          /\ resp' = x.resp
          /\ IF x.threw THEN exc' = "std" /\ pc' = "escape"
                        ELSE exc' = exc /\ pc' = "good"
    /\ UNCHANGED <<isHead, hasStream, processed, index, calls, buffered, code, early>>

\* Any other exception: a RequestStream holds the text while sendError(500) runs
\* and writes it in its destructor, after the page or, if sendError threw,
\* while that exception unwinds; an empty what() is not written.
ReplyError ==
    /\ pc = "reply"
    /\ exc # "http"
    /\ \E x \in SendError(resp, 500) :
       \E y \in Write(x.resp, "what", "streambuf")
               \cup (IF exc = "std" THEN {Done(x.resp)} ELSE {}) :
          /\ resp' = y.resp
          /\ IF x.threw
                THEN exc' = "std" /\ pc' = (IF y.threw THEN "terminated" ELSE "escape")
                ELSE IF y.threw THEN exc' = "std" /\ pc' = "escape"
                                ELSE exc' = exc /\ pc' = "good"
    /\ UNCHANGED <<isHead, hasStream, processed, index, calls, buffered, code, early>>

\* The outer catch blocks log the exception and let it go to the worker.
Escape ==
    /\ pc = "escape"
    /\ pc' = "bad"
    /\ UNCHANGED <<isHead, hasStream, resp, processed, index, calls, buffered, exc,
                   code, early>>

\* The task is over; nothing more happens to it.
Over == pc \in {"good", "bad", "terminated"} /\ UNCHANGED vars

Handler ==
    \/ HandlerSetStatus \/ (\E c \in Cookies : HandlerSetCookie(c))
    \/ (\E from \in {"chars", "streambuf"} : HandlerWrite(from))
    \/ (\E status \in ErrorCodes : HandlerSendError(status)) \/ HandlerStream
    \/ HandlerMarkAsProcessed \/ HandlerReturn \/ Unwind
    \/ \E kind \in {"http", "std", "unknown"}, status \in ErrorCodes :
          HandlerThrow(kind, status)

Next == Handler \/ NextHandler \/ Finish \/ Catch \/ ReplyHttp \/ ReplyError
        \/ Escape \/ Over

Spec == Init /\ [][Next]_vars

-----------------------------------------------------------------------------
(* Properties. *)

\* Type correctness.
TypeOK ==
    /\ isHead \in BOOLEAN /\ hasStream \in BOOLEAN
    /\ resp \in Response
    /\ processed \in BOOLEAN
    /\ pc \in {"loop", "handler", "unwind", "caught", "reply", "finish", "escape",
              "good", "bad", "terminated"}
    /\ index \in 1 .. Handlers + 1
    /\ calls \in 0 .. MaxCalls
    /\ buffered \in BOOLEAN
    /\ exc \in {"none", "http", "std", "unknown"}
    /\ code \in ErrorCodes \cup {500}
    /\ early \in BOOLEAN

\* The client gets one header block, before any body, however often handlers,
\* the error paths and RequestStream's destructor ask for headers; a block that
\* was cut short is the last thing sent.
OneHeaderBlock ==
    \A i \in DOMAIN resp.wire :
        /\ i = 1 <=> resp.wire[i].kind \in {"head", "partial"}
        /\ resp.wire[i].kind = "partial" => resp.broken /\ Len(resp.wire) = 1

\* An error page comes directly after headers with its own status and with
\* nothing of what the handlers had set or written.
ErrorPageClean ==
    \A i \in DOMAIN resp.wire :
        resp.wire[i].kind = "error" =>
            /\ i = 2
            /\ resp.wire[1].status = resp.wire[i].status
            /\ resp.wire[1].cookies = {}

\* What handleTask, sendError and RequestStream have sent together is one
\* well-formed answer: one header block in front, and an error page never with
\* the status, the cookies or the text of the handler that failed.
WellFormedAnswer == OneHeaderBlock /\ ErrorPageClean

\* How a task counts agrees with what its client saw.  A good task has answered:
\* a whole header block is out, though a body streamed on a connection that broke
\* after it may be missing, as writing a streambuf reports nothing.  handleTask
\* lets an exception out, which counts a bad task, only if the response had begun
\* or its connection is broken: otherwise the client gets an error page.
CountedAsAnswered ==
    /\ pc = "good" => resp.sent /\ (hasStream => resp.wire[1].kind = "head")
    /\ pc = "bad" => resp.sent \/ resp.broken

\* When an exception leaves a handler that has neither sent nor streamed
\* anything, the client does not take the answer for a success.
EarlyFailureVisible ==
    early /\ pc \in {"good", "bad"} /\ hasStream /\ ~resp.broken =>
        resp.wire[1].status >= 400

\* The process is terminated (~RequestStream throws while an exception unwinds)
\* only if the connection failed while the headers were being sent: once they are
\* out no destructor throws, whatever breaks and whatever handlers throw.
TerminatedOnlyInHeaders == pc = "terminated" => resp.broken /\ ~resp.sent

=============================================================================
