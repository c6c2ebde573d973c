------------------------------ MODULE Gateway -------------------------------
(***************************************************************************)
(* A request in the gateway's plan executor (internal/gateway): the loop   *)
(* over attempts, one upstream call with its timer, the copying or         *)
(* buffering of the answer, the background readers of error bodies and the *)
(* transports they lease.                                                  *)
(*                                                                         *)
(* One request runs at a time, but the error bodies of its earlier         *)
(* attempts are read beside it; other requests appear as ReconcileClients. *)
(* The scheduler is modelled in Scheduler: here it offers a lease or none, *)
(* and an attempt remembers what was reported about it.  The request's own *)
(* body is closed by deferred calls on every path and is left out.  Only   *)
(* the event that ends an attempt is counted, not the additional notices   *)
(* of a cancellation.                                                      *)
(***************************************************************************)
EXTENDS UpstreamAttempt, ClientPool, FiniteSets, Sequences

CONSTANTS
    MaxAttempts,        \* the plan's attempt budget
    ActiveKeys          \* the provider generations of each snapshot

ASSUME GatewayAssumption ==
    /\ MaxAttempts \in Nat \ {0}
    /\ ActiveKeys \in Seq(SUBSET Key) /\ Len(ActiveKeys) > 0

VARIABLES
    canceled,           \* the client's context is done
    shutdown,           \* the handler's context is done
    published,          \* revision of the runtime snapshot
    clientRevision,     \* Handler.clientRevision
    pool,               \* Handler.clients
    req,                \* the request being executed
    att                 \* its attempts

vars == <<canceled, shutdown, published, clientRevision, pool, req, att>>

Attempt == 1..MaxAttempts

(* Where the executor stands.                                              *)
Location ==
    {"idle", "done", "ingress", "loop", "leased", "prepare", "client", "start", "do",
     "answered", "finish", "final", "copy_start", "copy", "copying", "write", "copy_error",
     "buffer", "capture", "capturing", "captured", "patch", "respond", "responding"}

RequestType ==
    [pc: Location, revision: Nat, stream: BOOLEAN, used: 0..MaxAttempts,
     last: 0..MaxAttempts, answer: {"none", "error", "response"},
     capture: {"none", "ok", "stopped", "failed", "local", "scan"}]

NewRequest(pc, revision, stream) ==
    [pc |-> pc, revision |-> revision, stream |-> stream, used |-> 0, last |-> 0,
     answer |-> "none", capture |-> "none"]

(* owner is the goroutine that has to end the attempt; a captured failure  *)
(* waits for the executor to decide between another attempt and an answer. *)
AttemptType ==
    [owner: {"nobody", "executor", "captured", "background"},
     report: FailureClass \cup {"unleased", "leased", "reported"}, started: BOOLEAN, events: 0..1,
     pending: BOOLEAN, key: Key \cup {""}, entry: Entry \cup {NoEntry},
     open: SUBSET {"body", "execution", "response", "captured"},
     status: Status \cup {"error"}, reading: BOOLEAN, control: ControlType]

NoAttempt ==
    [owner |-> "nobody", report |-> "unleased", started |-> FALSE, events |-> 0,
     pending |-> FALSE, key |-> "", entry |-> NoEntry, open |-> {}, status |-> "error",
     reading |-> FALSE, control |-> CloseControl(NewControl)]

NewLease(k) == [NoAttempt EXCEPT !.owner = "executor", !.report = "leased", !.key = k]

Init ==
    /\ canceled = FALSE
    /\ shutdown = FALSE
    /\ published = 1
    /\ clientRevision = 0
    /\ pool = NewClientPool
    /\ req = NewRequest("idle", 0, FALSE)
    /\ att = [n \in Attempt |-> NoAttempt]

-----------------------------------------------------------------------------
(* Ends of attempts and requests.                                          *)

At(pc) == req.pc = pc
Goto(pc) == req' = [req EXCEPT !.pc = pc]
GotoWith(pc, field, value) == req' = [req EXCEPT !.pc = pc, ![field] = value]
Return(answer) == req' = [NewRequest("done", 0, FALSE) EXCEPT !.answer = answer]

Report(a, class) == [a EXCEPT !.report = class]
Record(a) == [a EXCEPT !.events = @ + 1]

WrongReleased(a) == [a EXCEPT !.control = CloseControl(@)]

(* The deferred calls of executeAttempt and of the body readers.           *)
Released(a) == [a EXCEPT !.control = CloseControl(@), !.entry = NoEntry]

PoolAfter(a) == IF a.entry = NoEntry THEN pool ELSE Release(pool, a.entry)

(* Attempt n is over, with the resources in leaked never closed.           *)
EndAttempt(n, a, leaked) ==
    /\ att' = [att EXCEPT ![n] = [Released(a) EXCEPT
              !.owner = "nobody", !.open = leaked, !.status = "error", !.key = ""]]
    /\ pool' = PoolAfter(a)

Environment == <<canceled, shutdown, published, clientRevision>>

(* backgroundFailure starts a goroutine that reads the error body.         *)
BackgroundFailure(a) ==
    [a EXCEPT !.owner = "background", !.control = ReadBackground(@)]

(* Neither the verdict nor the status of a settled failure is read again.  *)
Forget(a) ==
    [a EXCEPT !.report = "reported", !.control.result = NoVerdict, !.status = "error", !.key = ""]

WrongRecordCaptured(a) ==
    Record(IF "response" \in a.open THEN BackgroundFailure(Forget(a))
           ELSE [Forget(a) EXCEPT !.owner = "nobody"])

(* recordCapturedFailure and recordContinuation.                           *)
RecordCaptured(a) ==
    IF "response" \in a.open THEN BackgroundFailure(Forget(a))
    ELSE [Record(Forget(a)) EXCEPT !.owner = "nobody"]

Captured(n) == IF n = req.last THEN RecordCaptured(att[n]) ELSE att[n]

(* finishCapturedFailure, with a response that is still unread or without. *)
FinishCapturedFailure ==
    IF req.last # 0 /\ "response" \in att[req.last].open
    THEN GotoWith("finish", "stream", FALSE) /\ UNCHANGED <<att, pool>>
    ELSE Return("error") /\ att' = [n \in Attempt |-> Captured(n)] /\ UNCHANGED pool

-----------------------------------------------------------------------------
(* ServeHTTP and forwardExecution.                                         *)

Begin(stream) ==
    /\ req.pc \in {"idle", "done"}
    /\ ~shutdown
    /\ \A n \in Attempt : att[n].owner = "nobody"
    /\ req' = NewRequest("ingress", published, stream)
    /\ att' = [n \in Attempt |-> NoAttempt]
    /\ canceled' = FALSE
    /\ UNCHANGED <<shutdown, published, clientRevision, pool>>

(* A snapshot is not applied after a newer one.                            *)
Reconciled(revision) ==
    /\ clientRevision' = IF revision <= clientRevision THEN clientRevision ELSE revision
    /\ pool' = IF revision <= clientRevision THEN pool
               ELSE ReconcileTargets(pool, ActiveKeys[revision])

RejectIngress ==
    /\ At("ingress")
    /\ \/ Return("error")
       \/ canceled /\ Return("none")
    /\ UNCHANGED <<Environment, pool, att>>

(* The plan may be refused after the pool was reconciled.                  *)
Ingress ==
    /\ At("ingress")
    /\ Reconciled(req.revision)
    /\ \/ canceled /\ Return("none")
       \/ ~canceled /\ (Goto("loop") \/ Return("error"))
    /\ UNCHANGED <<canceled, shutdown, published, att>>

HasBudget == req.used < MaxAttempts

BetweenAttemptsCanceled ==
    /\ At("loop") /\ HasBudget /\ canceled
    /\ att' = [n \in Attempt |-> Captured(n)]
    /\ Return("none")
    /\ UNCHANGED <<Environment, pool>>

(* The budget is used up, or the scheduler has no provider.                *)
NoMoreAttempts ==
    /\ At("loop") /\ (HasBudget => ~canceled)
    /\ FinishCapturedFailure
    /\ UNCHANGED Environment

Acquire(k) ==
    /\ At("loop") /\ HasBudget /\ ~canceled
    /\ k \in ActiveKeys[req.revision]
    /\ att' = [att EXCEPT ![req.used + 1] = NewLease(k)]
    /\ Goto("leased")
    /\ UNCHANGED <<Environment, pool>>

(* The attempt the executor works on.                                      *)
Current == IF req.pc \in {"leased", "prepare", "client", "start"} THEN req.used + 1 ELSE req.used

(* reportClientCanceledWithAttempt: nothing is recorded of a request that  *)
(* has not reached a provider.                                             *)
CancelReported(n, a) ==
    LET reported == Report(a, "client_canceled")
    IN  IF a.started \/ n > 1 THEN Record(reported) ELSE reported

CancelAttempt(leaked) ==
    EndAttempt(Current, CancelReported(Current, att[Current]), leaked) /\ Return("none")

(* terminalLocalAttempt, terminalPatchFailure and terminalReplayFailure.   *)
TerminalFailure ==
    EndAttempt(Current, Record(Report(att[Current], "neutral")), {}) /\ Return("error")

LeaseCanceled ==
    /\ At("leased") /\ canceled
    /\ LET n == Current
       IN  att' = [[m \in Attempt |-> Captured(m)] EXCEPT
                      ![n] = [CancelReported(n, att[n]) EXCEPT !.owner = "nobody"]]
    /\ Return("none")
    /\ UNCHANGED <<Environment, pool>>

Continue ==
    /\ At("leased") /\ ~canceled
    /\ att' = [n \in Attempt |-> Captured(n)]
    /\ GotoWith("prepare", "last", 0)
    /\ UNCHANGED <<Environment, pool>>

-----------------------------------------------------------------------------
(* executeAttempt up to the call.                                          *)

Prepare ==
    /\ At("prepare")
    /\ \/ canceled /\ CancelAttempt({})
       \/ TerminalFailure
       \/ /\ ~canceled
          /\ att' = [att EXCEPT ![Current].open = {"body", "execution"}]
          /\ Goto("client") /\ UNCHANGED pool
    /\ UNCHANGED Environment

AcquireClient ==
    /\ At("client")
    /\ IF pool.closed THEN TerminalFailure
       ELSE LET k == att[Current].key
            IN  /\ FreeEntries(pool) # {} \/ pool.clients[k] # NoEntry
                /\ att' = [att EXCEPT ![Current].entry = LeasedEntry(pool, k)]
                /\ pool' = AcquireTarget(pool, k)
                /\ Goto("start")
    /\ UNCHANGED Environment

Start ==
    /\ At("start")
    /\ IF canceled THEN CancelAttempt({})
       ELSE /\ att' = [att EXCEPT ![Current].started = TRUE,
                                  ![Current].control = NewUpstreamAttempt(req.stream)]
            /\ GotoWith("do", "used", Current)
            /\ UNCHANGED pool
    /\ UNCHANGED Environment

(* The call returns with a status or an error; a stopped attempt returns   *)
(* with an error whatever the provider sent.                               *)
Respond(answer) ==
    /\ At("do")
    /\ LET a == att[Current]
           status == IF a.control.stopped # Running THEN "error" ELSE answer
       IN  att' = [att EXCEPT ![Current] =
                      [a EXCEPT !.status = status, !.control = ReceiveHeaders(@, answer),
                                !.open = IF status = "error" THEN @ ELSE @ \cup {"response"}]]
    /\ Goto("answered")
    /\ UNCHANGED <<Environment, pool>>

ProviderResponds == \E answer \in Status \cup {"error"} : Respond(answer)

(* The call runs under the attempt's own context.                          *)
StoppedCallReturns ==
    /\ At("do")
    /\ att[Current].control.stopped # Running
    /\ Respond("error")

-----------------------------------------------------------------------------
(* executeAttempt after the call.                                          *)

(* A failed attempt that leaves nothing to read.                           *)
Capture(class) ==
    /\ att' = [att EXCEPT ![Current] =
                  [Released(Report(@, class)) EXCEPT !.owner = "captured", !.open = {}]]
    /\ pool' = PoolAfter(att[Current])
    /\ GotoWith("loop", "last", Current)

(* handlePlanTransportError: the verdict decides between a cancellation    *)
(* and a failed connection.                                                *)
TransportClass(a) ==
    IF a.control.stopped \in {"response_header_timeout", "response_idle_timeout"}
    THEN "channel_immediate"
    ELSE IF canceled /\ a.control.result.reason # "transport_error" THEN "client_canceled"
    ELSE "global_transient"

CallFailed ==
    /\ At("answered") /\ att[Current].status = "error"
    /\ \/ TerminalFailure
       \/ /\ TransportClass(att[Current]) = "client_canceled"
          /\ CancelAttempt({})
       \/ /\ TransportClass(att[Current]) # "client_canceled"
          /\ Capture(TransportClass(att[Current]))
    /\ UNCHANGED Environment

WrongCanceledFirst == canceled

(* An HTTP error counts although the client is gone.                       *)
CanceledFirst == canceled /\ att[Current].control.result.reason # "http_error"

ResponseCanceled ==
    /\ At("answered") /\ att[Current].status # "error" /\ CanceledFirst
    /\ CancelAttempt({})
    /\ UNCHANGED Environment

(* The request's own resources could not be closed.                        *)
RequestCloseFailed ==
    /\ At("answered") /\ att[Current].status # "error" /\ ~CanceledFirst
    /\ TerminalFailure
    /\ UNCHANGED Environment

(* The failure is reported at once; its body is read later.                *)
FailOver ==
    /\ At("answered") /\ att[Current].status # "error" /\ ~CanceledFirst
    /\ LET class == ClassifyHTTPStatus(att[Current].status)
           a == [Report(att[Current], class) EXCEPT
                    !.pending = TRUE, !.open = {"response"}, !.owner = "captured"]
       IN  /\ ShouldFailover(class)
           /\ \/ /\ att' = [att EXCEPT ![Current] = a]
                 /\ GotoWith("loop", "last", Current)
              \/ /\ att' = [att EXCEPT ![Current] = BackgroundFailure(a)]
                 /\ Return(IF canceled THEN "none" ELSE "error")
    /\ UNCHANGED <<Environment, pool>>

(* Any other answer ends the request.  A cancellation found after the      *)
(* request's bodies failed to close leaves the patch execution open.       *)
Deliver ==
    /\ At("answered") /\ att[Current].status # "error" /\ ~CanceledFirst
    /\ ~ShouldFailover(ClassifyHTTPStatus(att[Current].status))
    /\ \/ canceled /\ (CancelAttempt({"execution"}) \/ CancelAttempt({}))
       \/ /\ ~canceled /\ IsSuccess(att[Current].status)      \* has a response patch
          /\ att' = [att EXCEPT ![Current].open = {"response", "execution"},
                                ![Current].status = "ok"]
          /\ GotoWith("buffer", "stream", FALSE) /\ UNCHANGED pool
       \/ /\ ~canceled
          /\ att' = [att EXCEPT ![Current].open = {"response"},
                                ![Current].control = Observe(@, att[Current].status, TRUE)]
          /\ GotoWith("copy_start", "stream", FALSE) /\ UNCHANGED pool
    /\ UNCHANGED Environment

-----------------------------------------------------------------------------
(* finishHTTPFailure: the last error is the answer, unless its status must *)
(* not reach the client.                                                   *)

FinishHTTPFailure ==
    /\ At("finish")
    /\ IF canceled \/ MappedHTTPError(att[req.last].status)
       THEN /\ att' = [att EXCEPT ![req.last] = BackgroundFailure(Forget(@))]
            /\ Return(IF canceled THEN "none" ELSE "error")
       ELSE /\ att' = [att EXCEPT ![req.last].owner = "executor"]
            /\ Goto("final")
    /\ UNCHANGED <<Environment, pool>>

Final(c) ==
    Observe(IF canceled THEN StopAttempt(c, "client_canceled") ELSE c, att[req.last].status, FALSE)

WrongReadFinal ==
    /\ At("final")
    /\ att' = [att EXCEPT ![req.last].control = Final(@)]
    /\ Goto("copy_start")
    /\ UNCHANGED <<Environment, pool>>

(* The hook may have run, in vain, while the attempt was detached.         *)
ReadFinal ==
    /\ At("final")
    /\ att' = [att EXCEPT ![req.last].control =
                   Final([@ EXCEPT !.detached = FALSE, !.background = FALSE])]
    /\ Goto("copy_start")
    /\ UNCHANGED <<Environment, pool>>

-----------------------------------------------------------------------------
(* copyUpstream, then streamResponse or the end of finishHTTPFailure.      *)

(* finish: the first verdict stands.  The error of a captured failure was  *)
(* reported before; the copy only fills in its text.                       *)
CopyFinish(v) ==
    LET a == [att[Current] EXCEPT !.control = Claim(@, v)]
        ended == IF req.last # 0 THEN [a EXCEPT !.pending = FALSE]
                 ELSE Report(a, a.control.result.class)
    IN  EndAttempt(Current, Record(ended), {}) /\ Return(req.answer)

CopyCanceled == CopyFinish(Verdict("client_canceled", "client_canceled"))

CopyStart ==
    /\ At("copy_start")
    /\ IF canceled THEN CopyCanceled
       ELSE GotoWith("copy", "answer", "response") /\ UNCHANGED <<att, pool>>
    /\ UNCHANGED Environment

CopyRead ==
    /\ At("copy")
    /\ IF canceled THEN CopyCanceled
       ELSE /\ att' = [att EXCEPT ![Current].control = BeginRead(@)]
            /\ Goto(IF att[Current].control.stopped # Running THEN "copy_error" ELSE "copying")
            /\ UNCHANGED pool
    /\ UNCHANGED Environment

(* The read returns; a stopped attempt hides what was read.                *)
CopyChunk(chunk) ==
    /\ At("copying")
    /\ LET a == att[Current]
           stopped == a.control.stopped # Running
           ended == EndRead(a.control, a.status, chunk)
       IN  IF ~stopped /\ chunk = "eof"
           THEN LET b == [a EXCEPT !.control = ended]
                    c == IF req.last # 0 THEN [b EXCEPT !.pending = FALSE]
                         ELSE Report(b, b.control.result.class)
                IN  EndAttempt(Current, Record(c), {}) /\ Return(req.answer)
           ELSE /\ att' = [att EXCEPT ![Current].control = ended]
                /\ Goto(IF stopped \/ chunk = "failure" THEN "copy_error" ELSE "write")
                /\ UNCHANGED pool
    /\ UNCHANGED Environment

CopyWrite ==
    /\ At("write")
    /\ \/ canceled /\ CopyCanceled
       \/ ~canceled /\ CopyFinish(Verdict("client_canceled", "downstream"))
       \/ ~canceled /\ Goto("copy") /\ UNCHANGED <<att, pool>>
    /\ UNCHANGED Environment

CopyError ==
    /\ At("copy_error")
    /\ LET stopped == att[Current].control.stopped
       IN  CopyFinish(
               CASE stopped = "client_canceled" \/ (stopped = Running /\ canceled) ->
                        Verdict("client_canceled", "client_canceled")
                 [] stopped \in {"response_header_timeout", "response_idle_timeout"} ->
                        Verdict("response_idle_timeout", "channel_immediate")
                 [] OTHER -> Verdict("stream_interrupted", "channel_stream"))
    /\ UNCHANGED Environment

-----------------------------------------------------------------------------
(* executeBufferedResponse: the answer is captured, patched and sent.      *)

BufferStart ==
    /\ At("buffer")
    /\ IF canceled THEN CancelAttempt({}) ELSE Goto("capture") /\ UNCHANGED <<att, pool>>
    /\ UNCHANGED Environment

CaptureRead ==
    /\ At("capture")
    /\ att' = [att EXCEPT ![Current].control = BeginRead(@)]
    /\ IF att[Current].control.stopped # Running
       THEN GotoWith("captured", "capture", "stopped") ELSE Goto("capturing")
    /\ UNCHANGED <<Environment, pool>>

(* CaptureAndScanCompiled fails on its own: local I/O, or invalid JSON.    *)
CaptureFails ==
    /\ At("capture")
    /\ \E kind \in {"local", "scan"} : GotoWith("captured", "capture", kind)
    /\ UNCHANGED <<Environment, pool, att>>

CaptureChunk(chunk) ==
    /\ At("capturing")
    /\ chunk \in {"data", "eof", "failure"}
    /\ LET c == att[Current].control
       IN  /\ att' = [att EXCEPT ![Current].control = EndRead(c, att[Current].status, chunk)]
           /\ IF c.stopped # Running THEN GotoWith("captured", "capture", "stopped")
              ELSE IF chunk = "data" THEN Goto("capture")
              ELSE GotoWith("captured", "capture", IF chunk = "eof" THEN "ok" ELSE "failed")
    /\ UNCHANGED <<Environment, pool>>

BufferFailure(class) ==
    /\ EndAttempt(Current, Record(Report(att[Current], class)), {})
    /\ Return(IF canceled THEN "none" ELSE "error")

TimedOut == att[Current].control.stopped = "response_idle_timeout" /\ req.capture = "stopped"

(* A failed read of the connection, or a failed close of it, is the        *)
(* provider's fault; an I/O error of the gateway's own files comes first.  *)
CaptureClasses ==
    IF req.capture = "local" THEN {"neutral"} ELSE {"neutral", "channel_stream"}

CaptureEnds ==
    /\ At("captured")
    /\ LET c == att[Current].control
       IN  CASE TimedOut -> BufferFailure("channel_immediate")
             [] ~TimedOut /\ canceled /\ c.result.reason # "stream_interrupted" ->
                    CancelAttempt({})
             [] OTHER ->
                    \/ /\ \E class \in CaptureClasses :
                              EndAttempt(Current, Record(Report(att[Current], class)), {})
                       /\ Return("error")
                    \/ /\ req.capture = "ok"
                       /\ att' = [att EXCEPT ![Current].open = {"execution", "captured"}]
                       /\ Goto("patch") /\ UNCHANGED pool
    /\ UNCHANGED Environment

(* Only a failing hook closes the captured body when the client is gone.   *)
PatchResponse ==
    /\ At("patch")
    /\ \/ canceled /\ (CancelAttempt({}) \/ CancelAttempt({"captured"}))
       \/ ~canceled /\ TerminalFailure
       \/ /\ att' = [att EXCEPT ![Current].open = {"captured"}]
          /\ Goto("respond") /\ UNCHANGED pool
    /\ UNCHANGED Environment

SendHeaders ==
    /\ At("respond")
    /\ IF canceled THEN CancelAttempt({})
       ELSE GotoWith("responding", "answer", "response") /\ UNCHANGED <<att, pool>>
    /\ UNCHANGED Environment

SendBody ==
    /\ At("responding")
    /\ \E class \in {"downstream", "client_canceled", "neutral", "none"} :
           /\ class = "client_canceled" => canceled
           /\ class \in {"neutral", "none"} => ~canceled
           /\ EndAttempt(Current, Record(Report(att[Current], class)), {})
           /\ Return("response")
    /\ UNCHANGED Environment

-----------------------------------------------------------------------------
(* readErrorBody and fillFailure, in the goroutine of backgroundFailure.   *)

EndBackground(n, a) ==
    EndAttempt(n, Record([Forget(a) EXCEPT !.pending = FALSE, !.reading = FALSE]), {})

(* The text limit is reached.                                              *)
BackgroundTruncates(n) ==
    /\ att[n].owner = "background" /\ ~att[n].reading
    /\ EndBackground(n, att[n])
    /\ UNCHANGED <<Environment, req>>

BackgroundRead(n) ==
    /\ att[n].owner = "background" /\ ~att[n].reading
    /\ IF att[n].control.stopped # Running THEN EndBackground(n, att[n])
       ELSE att' = [att EXCEPT ![n].reading = TRUE] /\ UNCHANGED pool
    /\ UNCHANGED <<Environment, req>>

BackgroundChunk(n, chunk) ==
    /\ att[n].owner = "background" /\ att[n].reading
    /\ chunk \in {"data", "eof", "failure"}
    /\ LET a == [att[n] EXCEPT !.control = EndRead(@, att[n].status, chunk)]
       IN  IF a.control.stopped # Running \/ chunk # "data" THEN EndBackground(n, a)
           ELSE att' = [att EXCEPT ![n] = [a EXCEPT !.reading = FALSE]] /\ UNCHANGED pool
    /\ UNCHANGED <<Environment, req>>

-----------------------------------------------------------------------------
(* The timer, the context hooks and everybody else.                        *)

Control(n, c) ==
    /\ att' = [att EXCEPT ![n].control = c]
    /\ UNCHANGED <<Environment, pool, req>>

Expire(n) ==
    LET c == att[n].control
    IN  /\ c.armed /\ ~c.expired
        /\ Control(n, [c EXCEPT !.expired = TRUE, !.callbacks = @ \cup {"fired"}])

CallbackLoadsEpoch(n) ==
    LET c == att[n].control
    IN  /\ "fired" \in c.callbacks
        /\ Control(n, [c EXCEPT !.callbacks = (@ \ {"fired"}) \cup {"loaded"}])

CallbackRuns(n) ==
    /\ "loaded" \in att[n].control.callbacks
    /\ Control(n, TimerFired(att[n].control))

ClientHook(n) ==
    /\ canceled /\ att[n].control.clientHook
    /\ Control(n, ClientCanceled(att[n].control))

ShutdownHook(n) ==
    /\ shutdown /\ att[n].control.shutdownHook
    /\ Control(n, ShutDown(att[n].control))

(* The client goes away, or the server ends the request's context.         *)
CancelClient ==
    /\ req.pc # "idle" /\ ~canceled
    /\ canceled' = TRUE
    /\ UNCHANGED <<shutdown, published, clientRevision, pool, req, att>>

Publish ==
    /\ published < Len(ActiveKeys) /\ ~shutdown
    /\ published' = published + 1
    /\ UNCHANGED <<canceled, shutdown, clientRevision, pool, req, att>>

(* Another request reconciles the pool with the snapshot it runs under.    *)
ReconcileClients ==
    /\ \E revision \in (clientRevision + 1)..published : Reconciled(revision)
    /\ UNCHANGED <<canceled, shutdown, published, req, att>>

Close ==
    /\ ~shutdown
    /\ shutdown' = TRUE
    /\ pool' = ClosePool(pool)
    /\ UNCHANGED <<canceled, published, clientRevision, req, att>>

(* A closed gateway without requests is at rest.                           *)
Closed ==
    /\ shutdown /\ req.pc \in {"idle", "done"}
    /\ \A n \in Attempt : att[n].owner = "nobody"
    /\ UNCHANGED vars

-----------------------------------------------------------------------------
(* What the executor does without waiting for the provider.                *)
ExecutorStep ==
    \/ RejectIngress \/ Ingress \/ BetweenAttemptsCanceled \/ NoMoreAttempts
    \/ \E k \in Key : Acquire(k)
    \/ LeaseCanceled \/ Continue \/ Prepare \/ AcquireClient \/ Start \/ StoppedCallReturns
    \/ CallFailed \/ ResponseCanceled \/ RequestCloseFailed \/ FailOver \/ Deliver
    \/ FinishHTTPFailure \/ ReadFinal \/ CopyStart \/ CopyRead \/ CopyWrite \/ CopyError
    \/ BufferStart \/ CaptureRead \/ CaptureFails \/ CaptureEnds \/ PatchResponse
    \/ SendHeaders \/ SendBody

Chunks == \E chunk \in Chunk : CopyChunk(chunk) \/ CaptureChunk(chunk)

Timer(n) == Expire(n) \/ CallbackLoadsEpoch(n) \/ CallbackRuns(n)
Hook(n) == ClientHook(n) \/ ShutdownHook(n)

Next ==
    \/ \E stream \in BOOLEAN : Begin(stream)
    \/ ExecutorStep \/ ProviderResponds \/ Chunks
    \/ \E n \in Attempt :
        \/ BackgroundTruncates(n) \/ BackgroundRead(n)
        \/ \E chunk \in Chunk : BackgroundChunk(n, chunk)
        \/ Timer(n) \/ Hook(n)
    \/ CancelClient \/ Publish \/ ReconcileClients \/ Close \/ Closed

Spec == Init /\ [][Next]_vars

(* Goroutines run, timers go off and a stopped connection returns from its *)
(* read; a provider need not answer or send anything.                      *)
StoppedRead(n) ==
    /\ att[n].control.stopped # Running
    /\ \/ n = Current /\ (CopyChunk("failure") \/ CaptureChunk("failure"))
       \/ BackgroundChunk(n, "failure")

Fairness ==
    /\ WF_vars(ExecutorStep)
    /\ \A n \in Attempt :
        /\ WF_vars(StoppedRead(n) \/ BackgroundRead(n))
        /\ WF_vars(Timer(n))
        /\ WF_vars(Hook(n))

FairSpec == Spec /\ Fairness

-----------------------------------------------------------------------------
(* The state has its type; the scheduler's budget bounds the attempts and  *)
(* no attempt has two final events.                                        *)
TypeOK ==
    /\ canceled \in BOOLEAN /\ shutdown \in BOOLEAN
    /\ published \in 1..Len(ActiveKeys) /\ clientRevision \in 0..Len(ActiveKeys)
    /\ pool \in Pool
    /\ req \in RequestType
    /\ att \in [Attempt -> AttemptType]

(* When the goroutines of an attempt are gone, its lease was reported, its *)
(* error body was settled, its event recorded, its transport given back    *)
(* and its response body closed: the deferred calls, the transfer to the   *)
(* background reader and finishOnce cover every path.  A request that is   *)
(* done left every attempt that is not over to a background reader, and    *)
(* ended without an answer only if its client is gone.                     *)
AttemptsSettled ==
    /\ req.pc = "done" /\ req.answer = "none" => canceled
    /\ \A n \in Attempt :
            /\ req.pc = "done" => att[n].owner \in {"nobody", "background"}
            /\ att[n].owner = "nobody" =>
                /\ att[n].report # "leased" /\ ~att[n].pending
                /\ att[n].started => att[n].events = 1
                /\ att[n].entry = NoEntry /\ att[n].control.finished
                /\ "response" \notin att[n].open

(* Transports are counted by the attempts that use them, never closed      *)
(* under one, and closed as soon as they are retired and unused.           *)
TransportsCounted ==
    /\ \A e \in Entry : pool.refs[e] = Cardinality({n \in Attempt : att[n].entry = e})
    /\ \A e \in Entry : pool.idleClosed[e] <=> e \in FreeEntries(pool)

(* The provider is blamed for what ended the attempt first: a failure that *)
(* was decided before the client left is not hidden, and a client that     *)
(* left first, or a local error, is not held against the provider.  A      *)
(* gateway that shuts down does not look further.                          *)
BlameMatchesVerdict ==
    [][\A n \in Attempt :
        LET a == att[n]
            b == att'[n]
            v == b.control.result
        IN  (a.report = "leased" /\ b.report # "leased" /\ a.started /\ ~shutdown) =>
                /\ IsHealthFailure(b.report) => v \in {NoVerdict, Verdict(v.reason, b.report)}
                /\ IsHealthFailure(v.class) => b.report \in {v.class, "neutral"}]_vars

(* A timeout stops an attempt only after the deadline in force has passed, *)
(* also when an old callback comes late.                                   *)
NoEarlyTimeout ==
    [][\A n \in Attempt :
        LET c == att[n].control
            d == att'[n].control
        IN  (c.stopped = Running /\ d.stopped \in TimeoutReason) =>
                c.expired /\ c.timerReason = d.stopped]_vars

(* The departure of the client ends exactly the reads made for it.  An     *)
(* error body that is read after its request, or beside its next attempt,  *)
(* is not cut off when the request's context ends; the final copy of an    *)
(* error notices a client that left while the attempt was detached from    *)
(* it, although the hook will not run again.                               *)
CancelReachesFinalRead ==
    /\ \A n \in Attempt : att[n].owner = "background" =>
            att[n].control.stopped \notin {"client_canceled", "response_idle_timeout"}
    /\ req.last # 0 /\ req.pc \in {"copy", "copying", "write"} /\ canceled =>
            \/ att[req.last].control.clientHook
            \/ att[req.last].control.stopped # Running

(* No wait on a provider is for ever, however silent it is: a request      *)
(* whose client is gone ends, every reported error body is settled although*)
(* it may be sent without end or not at all, and a streaming request does  *)
(* not stay in the wait for the headers.                                   *)
WaitsEnd ==
    /\ canceled ~> req.pc \in {"idle", "done"}
    /\ \A n \in Attempt : (att[n].owner = "background") ~> (att[n].owner = "nobody")
    /\ (req.stream /\ req.pc = "do") ~> (req.pc # "do")

(* What a canceled attempt opened is closed.                               *)
CancelClosesResources ==
    \A n \in Attempt : att[n].report = "client_canceled" => att[n].open = {}
=============================================================================
