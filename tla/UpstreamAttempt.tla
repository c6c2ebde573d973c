-------------------------- MODULE UpstreamAttempt ---------------------------
(***************************************************************************)
(* internal/gateway/upstream_attempt.go: the control block of one upstream *)
(* call.  The executor, the timer's callbacks, the hooks on the client's   *)
(* and the gateway's context and the readers of the response body meet     *)
(* here; each operator is what one of them does under upstreamAttempt.mu.  *)
(*                                                                         *)
(* Abstractions.  expired says that the deadline of the armed timer has    *)
(* passed.  epoch only tells whether the timer was stopped since a         *)
(* callback read it; such a callback returns at once, so stopping the      *)
(* timer drops the callbacks that have read it.  What is not read again    *)
(* gets a fixed value.  Bytes are not counted, messages are left out.      *)
(***************************************************************************)
EXTENDS Naturals

Running == "running"        \* stopped is nil
TimeoutReason == {"response_header_timeout", "response_idle_timeout", "error_body_timeout"}
StopReason == TimeoutReason \cup {"client_canceled", "shutdown"}

FailureClass ==
    {"none", "global_immediate", "global_transient", "channel_immediate", "channel_transient",
     "channel_stream", "downstream", "neutral", "client_canceled"}

EndReason ==
    {"transport_error", "http_error", "stream_interrupted", "stream_error_event",
     "stream_truncated", "completed", "local_error", "client_canceled"} \cup TimeoutReason

Verdict(reason, class) == [reason |-> reason, class |-> class]
NoVerdict == Verdict("", "none")

(* Response statuses, one of each kind the gateway tells apart; "sse" is a *)
(* successful event stream.                                                *)
Status == {"ok", "sse", "unauthorized", "server_error", "bad_request"}
IsSuccess(status) == status \in {"ok", "sse"}
MappedHTTPError(status) == status = "unauthorized"

ClassifyHTTPStatus(status) ==
    CASE IsSuccess(status)       -> "none"
      [] status = "unauthorized" -> "global_immediate"
      [] status = "server_error" -> "channel_transient"
      [] status = "bad_request"  -> "neutral"

ShouldFailover(class) ==
    class \in {"global_immediate", "global_transient", "channel_immediate", "channel_transient"}
IsHealthFailure(class) == ShouldFailover(class) \/ class = "channel_stream"

(* What a read of the response body brings.                                *)
Chunk == {"data", "message_stop", "overloaded_error", "invalid_request_error", "eof", "failure"}
SSEErrorClass(chunk) == IF chunk = "invalid_request_error" THEN "neutral" ELSE "channel_transient"

ControlType ==
    [stopped: StopReason \cup {Running}, finished: BOOLEAN, detached: BOOLEAN,
     background: BOOLEAN, result: [reason: EndReason \cup {""}, class: FailureClass],
     armed: BOOLEAN, expired: BOOLEAN, timerReason: TimeoutReason,
     callbacks: SUBSET {"fired", "loaded"},
     clientHook: BOOLEAN, shutdownHook: BOOLEAN, observer: BOOLEAN, streaming: BOOLEAN]

-----------------------------------------------------------------------------
(* The timer.                                                              *)

StopTimer(c) ==
    [c EXCEPT !.armed = FALSE, !.expired = FALSE, !.callbacks = @ \ {"loaded"},
              !.timerReason = "response_header_timeout"]

Arm(c, reason) == [StopTimer(c) EXCEPT !.armed = TRUE, !.timerReason = reason]

Claim(c, v) == IF c.result = NoVerdict THEN [c EXCEPT !.result = v] ELSE c

StopVerdict(reason) ==
    CASE reason = "client_canceled" -> Verdict("client_canceled", "client_canceled")
      [] reason = "shutdown"        -> Verdict("local_error", "neutral")
      [] OTHER                      -> Verdict(reason, "channel_immediate")

(* The hooks and callbacks of a stopped attempt return at once.            *)
Silence(c) == [c EXCEPT !.callbacks = {}, !.clientHook = FALSE, !.shutdownHook = FALSE]

StopAttempt(c, reason) ==
    IF c.stopped # Running \/ c.finished THEN c
    ELSE Silence(StopTimer([Claim(c, StopVerdict(reason)) EXCEPT !.stopped = reason]))

WrongTimerFired(c) ==
    IF c.armed THEN StopAttempt(c, c.timerReason) ELSE [c EXCEPT !.callbacks = @ \ {"loaded"}]

(* A callback that has read the epoch gets the mutex.  It may have started *)
(* before the timer was armed anew.                                        *)
TimerFired(c) ==
    IF c.armed /\ c.expired THEN StopAttempt(c, c.timerReason)
    ELSE [c EXCEPT !.callbacks = @ \ {"loaded"}]

-----------------------------------------------------------------------------
(* The life of a call.                                                     *)

NewControl ==
    [stopped |-> Running, finished |-> FALSE, detached |-> FALSE, background |-> FALSE,
     result |-> NoVerdict, armed |-> FALSE, expired |-> FALSE,
     timerReason |-> "response_header_timeout", callbacks |-> {},
     clientHook |-> TRUE, shutdownHook |-> TRUE, observer |-> FALSE, streaming |-> FALSE]

(* Only a streaming request limits the wait for the headers.               *)
NewUpstreamAttempt(stream) ==
    IF stream THEN Arm(NewControl, "response_header_timeout") ELSE NewControl

(* The hooks of context.AfterFunc, each of which runs once.                *)
ClientCanceled(c) ==
    LET d == [c EXCEPT !.clientHook = FALSE]
    IN  IF c.detached THEN d ELSE StopAttempt(d, "client_canceled")

ShutDown(c) == StopAttempt([c EXCEPT !.shutdownHook = FALSE], "shutdown")

(* A response that arrives after the attempt was stopped is discarded.     *)
ReceiveHeaders(c, answer) ==
    LET d == StopTimer(c)
        class == ClassifyHTTPStatus(answer)
    IN  IF c.stopped # Running THEN d
        ELSE IF answer \notin Status THEN Claim(d, Verdict("transport_error", "global_transient"))
        ELSE IF IsSuccess(answer) THEN d
        ELSE [Claim(d, Verdict("http_error", class)) EXCEPT !.detached = ShouldFailover(class)]

Observe(c, status, sse) ==
    [c EXCEPT !.streaming = TRUE, !.observer = sse /\ status = "sse"]

WrongReadBackground(c) ==
    StopTimer([c EXCEPT !.detached = TRUE, !.background = TRUE, !.clientHook = FALSE])

(* From here on the client's hook does nothing.                            *)
ReadBackground(c) ==
    Arm([c EXCEPT !.detached = TRUE, !.background = TRUE, !.clientHook = FALSE],
        "error_body_timeout")

(* Whatever still runs of a finished attempt returns at once.              *)
CloseControl(c) ==
    [NewControl EXCEPT !.finished = TRUE, !.result = c.result,
                       !.clientHook = FALSE, !.shutdownHook = FALSE]

-----------------------------------------------------------------------------
(* attemptBodyReader: a read takes the mutex before and after the read of  *)
(* the connection.                                                         *)

BeginRead(c) ==
    IF c.stopped # Running \/ c.background THEN c ELSE Arm(c, "response_idle_timeout")

(* The verdict a chunk implies, NoVerdict if none.                         *)
ChunkVerdict(c, status, chunk) ==
    CASE chunk = "message_stop" /\ c.observer -> Verdict("completed", "none")
      [] chunk \in {"overloaded_error", "invalid_request_error"} /\ c.observer ->
             Verdict("stream_error_event", SSEErrorClass(chunk))
      [] chunk = "failure" -> Verdict("stream_interrupted", "channel_stream")
      [] chunk = "eof" /\ c.streaming ->
             IF c.observer THEN Verdict("stream_truncated", "channel_stream")
             ELSE IF IsSuccess(status) THEN Verdict("completed", "none")
             ELSE Verdict("http_error", ClassifyHTTPStatus(status))
      [] OTHER -> NoVerdict

EndRead(c, status, chunk) ==
    LET d == IF c.background /\ (c.stopped # Running \/ chunk \notin {"eof", "failure"})
             THEN c ELSE StopTimer(c)
    IN  IF c.stopped # Running THEN d ELSE Claim(d, ChunkVerdict(c, status, chunk))
=============================================================================
