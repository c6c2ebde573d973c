---------------------------- MODULE GatewayProofs ----------------------------
(***************************************************************************)
(* Proofs about a request in the gateway, for any number of attempts,      *)
(* provider generations, transports and snapshots: its state has the       *)
(* declared type, every attempt that is over is settled, transports are    *)
(* counted by the attempts that use them, the client's departure ends      *)
(* exactly the reads made for it, no attempt times out early, and a        *)
(* provider is blamed for what ended its attempt first.                    *)
(***************************************************************************)
EXTENDS Gateway, FiniteSetTheorems, TLAPS

(* Where the executor works on an attempt, before and after its call.      *)
Before == {"leased", "prepare", "client", "start"}
Copying == {"copy_start", "copy", "copying", "write", "copy_error"}
Buffering == {"buffer", "capture", "capturing", "captured", "patch", "respond", "responding"}
Calling == {"do", "answered"}
Executing == Before \cup Calling \cup {"final"} \cup Copying \cup Buffering
(* Where a captured failure waits for the executor.                        *)
Waiting == {"loop", "leased", "finish"}

CurrentOf(r) == IF r.pc \in Before THEN r.used + 1 ELSE r.used

(* The executor's counters: the captured failure is that of the last call. *)
RequestSound(r, left) ==
    /\ r \in RequestType /\ r.revision <= Len(ActiveKeys)
    /\ r.pc \notin {"idle", "done"} => r.revision >= 1
    /\ r.pc = "done" /\ r.answer = "none" => left
    /\ r.pc \in {"idle", "done", "ingress"} => r.used = 0 /\ r.last = 0
    /\ r.pc \in {"loop", "leased", "finish", "final"} => r.last = r.used
    /\ r.pc \in {"prepare", "client", "start"} \cup Calling \cup Buffering => r.last = 0
    /\ r.pc \in Copying => r.last \in {0, r.used}
    /\ r.pc \in Before => r.used < MaxAttempts
    /\ r.pc \in (Executing \ Before) \cup {"finish"} => r.used # 0
    /\ r.pc \in Copying \ {"copy_start"} => r.answer = "response"

(* The client's hook will stop the attempt, or has, or has run in vain.    *)
Hooked(c, left) == left \/ c.clientHook \/ c.stopped # Running

(* A response whose failure was reported and whose body is still unread.   *)
Unread(a, left) ==
    /\ "response" \in a.open /\ a.status \in Status
    /\ ~a.control.finished /\ a.control.detached /\ ~a.control.armed /\ ~a.control.streaming
    /\ a.control.stopped \in {Running, "shutdown"} /\ Hooked(a.control, left)

Nothing(a) == a.entry = NoEntry /\ a.control.finished /\ ~a.pending /\ "response" \notin a.open

NobodySound(a) == a.report # "leased" /\ (a.started => a.events = 1) /\ Nothing(a)
CapturedSound(a, left) == a.report # "leased" /\ (Unread(a, left) \/ Nothing(a))
BackgroundSound(a) ==
    /\ ~a.control.streaming /\ ~a.control.clientHook /\ a.control.background
    /\ a.control.stopped \notin {"client_canceled", "response_idle_timeout"}
    /\ a.control.armed => a.control.timerReason = "error_body_timeout"

(* The verdict is the one of whoever stopped the attempt.                  *)
Claimed(c) == c.result = IF c.stopped = Running THEN NoVerdict ELSE StopVerdict(c.stopped)
Interrupted(c) == c.stopped \in {Running, "client_canceled", "shutdown"}

(* The verdict of an attempt that is not reported yet, by where it stands. *)
VerdictSound(a, r, left, down) ==
    /\ a.control.stopped = "client_canceled" => left
    /\ a.control.stopped = "shutdown" => down
    /\ r.pc = "do" =>
        /\ Claimed(a.control)
        /\ Interrupted(a.control) \/ a.control.stopped = "response_header_timeout"
        /\ a.control.armed => a.control.timerReason = "response_header_timeout"
    /\ r.pc = "answered" =>
        /\ ~a.control.armed
        /\ IF a.status = "error"
           THEN \/ a.control.result = Verdict("transport_error", "global_transient") /\ Interrupted(a.control)
                \/ /\ Claimed(a.control)
                   /\ a.control.stopped \in {"response_header_timeout", "client_canceled", "shutdown"}
           ELSE IF IsSuccess(a.status) THEN Claimed(a.control) /\ Interrupted(a.control)
           ELSE a.control.result = Verdict("http_error", ClassifyHTTPStatus(a.status))
    /\ r.pc \in Buffering =>
        \/ /\ Claimed(a.control) /\ Interrupted(a.control)
           /\ a.control.armed => r.pc = "capturing" /\ a.control.timerReason = "response_idle_timeout"
        \/ /\ Claimed(a.control) /\ a.control.stopped = "response_idle_timeout" /\ ~a.control.armed
           /\ r.pc = "capturing" \/ (r.pc = "captured" /\ r.capture = "stopped")
        \/ /\ r.pc = "captured" /\ r.capture = "failed" /\ ~a.control.armed /\ Interrupted(a.control)
           /\ a.control.result = Verdict("stream_interrupted", "channel_stream")

ExecutorSound(a, r, left, down) ==
    /\ VerdictSound(a, r, left, down)
    /\ r.pc \in Before =>
        /\ ~a.started /\ a.key \in Key /\ a.control.finished /\ ~a.pending /\ "response" \notin a.open
        /\ r.pc # "start" => a.entry = NoEntry
    /\ r.pc \notin Before => ~a.control.finished
    /\ r.pc \in Calling \cup Buffering =>
        ~a.pending /\ ~a.control.streaming /\ ~a.control.background
    /\ r.pc = "do" => Hooked(a.control, left)
    /\ r.pc = "answered" /\ a.status # "error" =>
        /\ "response" \in a.open /\ ~a.control.armed /\ Hooked(a.control, left)
        /\ ShouldFailover(ClassifyHTTPStatus(a.status)) =>
             a.control.detached /\ a.control.stopped \in {Running, "shutdown"}
    /\ r.pc = "final" => a.report # "leased" /\ Unread(a, left)
    /\ r.pc \in Buffering => a.status = "ok"
    /\ r.pc \in Copying =>
        /\ a.status \in Status
        /\ r.last = 0 => ~a.pending
        /\ r.last # 0 => /\ a.report # "leased" /\ ~a.control.detached
                         /\ Hooked(a.control, FALSE)

(* The attempts of a request are numbered as they are made.                *)
Unused(n, r) == r.pc \notin {"idle", "done"} /\ n > CurrentOf(r)

AttemptSound(n, a, r, left, down) ==
    /\ a \in AttemptType
    /\ Unused(n, r) => a.owner = "nobody"
    /\ a.owner = "executor" <=> r.pc \in Executing /\ n = CurrentOf(r)
    /\ a.owner = "captured" <=> r.pc \in Waiting /\ n = r.last
    /\ a.owner # "nobody" => a.events = 0
    /\ a.owner = "nobody" => NobodySound(a)
    /\ a.owner = "captured" =>
        /\ CapturedSound(a, left) /\ (r.pc = "finish" => Unread(a, left))
        /\ a.control.stopped = "shutdown" => down
    /\ a.owner = "background" => BackgroundSound(a)
    /\ a.owner = "executor" => ExecutorSound(a, r, left, down)

(* Users(as, e) are the attempts that lease transport e.                   *)
Users(as, e) == {n \in Attempt : as[n].entry = e}

(* A transport is in the pool under one key or retired, and it is closed   *)
(* exactly when it is retired and unused.                                  *)
PoolSound(p) ==
    /\ p \in Pool
    /\ \A k, j \in Key : p.clients[k] = p.clients[j] /\ p.clients[k] # NoEntry => k = j
    /\ \A e \in Entry : p.retired[e] <=> e \notin Pooled(p)
    /\ \A e \in Entry : p.idleClosed[e] <=> p.retired[e] /\ p.refs[e] = 0

Counted(p, as) == \A e \in Entry : p.refs[e] = Cardinality(Users(as, e))

EnvironmentSound ==
    /\ canceled \in BOOLEAN /\ shutdown \in BOOLEAN
    /\ published \in 1..Len(ActiveKeys) /\ clientRevision \in 0..Len(ActiveKeys)

GatewayInv ==
    /\ EnvironmentSound
    /\ RequestSound(req, canceled)
    /\ att \in [Attempt -> AttemptType]
    /\ \A n \in Attempt : AttemptSound(n, att[n], req, canceled, shutdown)
    /\ PoolSound(pool)
    /\ Counted(pool, att)

-----------------------------------------------------------------------------
(* The operations of the control block.                                    *)

(* Nothing but the timer and the hook on the gateway's context changes.    *)
Unmoved(c, d) ==
    /\ d.stopped = c.stopped /\ d.finished = c.finished /\ d.detached = c.detached
    /\ d.background = c.background /\ d.result = c.result /\ d.clientHook = c.clientHook
    /\ d.observer = c.observer /\ d.streaming = c.streaming

VerdictType == [reason: EndReason \cup {""}, class: FailureClass]

LEMMA VerdictTyped ==
    ASSUME NEW r \in EndReason \cup {""}, NEW f \in FailureClass
    PROVE  /\ Verdict(r, f) \in VerdictType
           /\ Verdict(r, f).reason = r /\ Verdict(r, f).class = f
  BY DEF Verdict, VerdictType

LEMMA NoVerdictTyped == NoVerdict \in VerdictType /\ NoVerdict.reason = "" /\ NoVerdict.class = "none"
  BY DEF NoVerdict, Verdict, VerdictType, FailureClass

LEMMA FailuresAreVerdicts ==
    /\ Verdict("transport_error", "global_transient") # NoVerdict
    /\ Verdict("stream_interrupted", "channel_stream") # NoVerdict
    /\ \A f : Verdict("http_error", f) # NoVerdict
  <1>1. /\ Verdict("transport_error", "global_transient").reason = "transport_error"
        /\ Verdict("stream_interrupted", "channel_stream").reason = "stream_interrupted"
        /\ \A f : Verdict("http_error", f).reason = "http_error"
    BY DEF Verdict
  <1> QED  BY <1>1, NoVerdictTyped

LEMMA StopVerdictTyped ==
    ASSUME NEW reason \in StopReason
    PROVE  /\ StopVerdict(reason) \in VerdictType
           /\ StopVerdict(reason) # NoVerdict
           /\ reason = "client_canceled" => /\ StopVerdict(reason).class = "client_canceled"
                                            /\ StopVerdict(reason).reason = "client_canceled"
           /\ reason = "shutdown" => /\ StopVerdict(reason).class = "neutral"
                                     /\ StopVerdict(reason).reason = "local_error"
           /\ reason \in TimeoutReason => /\ StopVerdict(reason).class = "channel_immediate"
                                          /\ StopVerdict(reason).reason = reason
  BY DEF StopVerdict, Verdict, VerdictType, NoVerdict, EndReason, FailureClass, StopReason, TimeoutReason

LEMMA StopTimerKeeps ==
    ASSUME NEW c \in ControlType
    PROVE  StopTimer(c) \in ControlType /\ ~StopTimer(c).armed /\ Unmoved(c, StopTimer(c))
  BY DEF ControlType, StopTimer, Unmoved, TimeoutReason

LEMMA ArmKeeps ==
    ASSUME NEW c \in ControlType, NEW reason \in TimeoutReason
    PROVE  /\ Arm(c, reason) \in ControlType /\ Unmoved(c, Arm(c, reason))
           /\ Arm(c, reason).armed /\ Arm(c, reason).timerReason = reason
  <1> DEFINE s == StopTimer(c)
  <1>1. s \in ControlType /\ Unmoved(c, s)
    BY StopTimerKeeps
  <1> DEFINE d == Arm(c, reason)
  <1>2. d = [s EXCEPT !.armed = TRUE, !.timerReason = reason]
    BY DEF Arm
  <1> HIDE DEF s, d
  <1>3. d \in ControlType /\ d.armed /\ d.timerReason = reason
    BY <1>1, <1>2 DEF ControlType
  <1>4. Unmoved(s, d)
    BY <1>1, <1>2 DEF ControlType, Unmoved
  <1> QED  BY <1>1, <1>3, <1>4 DEF Unmoved, d

LEMMA ClaimKeeps ==
    ASSUME NEW c \in ControlType, NEW v \in VerdictType
    PROVE  /\ Claim(c, v) \in ControlType
           /\ Claim(c, v).result = (IF c.result = NoVerdict THEN v ELSE c.result)
           /\ Claim(c, v).stopped = c.stopped /\ Claim(c, v).finished = c.finished
           /\ Claim(c, v).detached = c.detached /\ Claim(c, v).background = c.background
           /\ Claim(c, v).clientHook = c.clientHook /\ Claim(c, v).observer = c.observer
           /\ Claim(c, v).streaming = c.streaming /\ Claim(c, v).armed = c.armed
           /\ Claim(c, v).timerReason = c.timerReason
  BY ZenonT(40) DEF ControlType, VerdictType, Claim

(* An attempt that runs is stopped for the given reason.                   *)
LEMMA StopAttemptStops ==
    ASSUME NEW c \in ControlType, NEW reason \in StopReason
    PROVE  LET d == StopAttempt(c, reason)
           IN  /\ d \in ControlType
               /\ d.finished = c.finished /\ d.detached = c.detached
               /\ d.background = c.background /\ d.observer = c.observer
               /\ d.streaming = c.streaming
               /\ c.stopped # Running \/ c.finished => d = c
               /\ c.stopped = Running /\ ~c.finished =>
                    /\ d.stopped = reason /\ ~d.armed /\ ~d.clientHook
                    /\ d.result = (IF c.result = NoVerdict THEN StopVerdict(reason) ELSE c.result)
  <1>1. CASE c.stopped # Running \/ c.finished
    BY <1>1 DEF StopAttempt
  <1>2. CASE ~(c.stopped # Running \/ c.finished)
    <2> DEFINE k == Claim(c, StopVerdict(reason))
               s == [k EXCEPT !.stopped = reason]
               t == StopTimer(s)
    <2>1. /\ k \in ControlType
          /\ k.result = (IF c.result = NoVerdict THEN StopVerdict(reason) ELSE c.result)
          /\ k.finished = c.finished /\ k.detached = c.detached
          /\ k.background = c.background /\ k.observer = c.observer /\ k.streaming = c.streaming
      BY ClaimKeeps, StopVerdictTyped
    <2> HIDE DEF k
    <2>2. /\ s \in ControlType /\ s.stopped = reason /\ s.result = k.result
          /\ s.finished = k.finished /\ s.detached = k.detached
          /\ s.background = k.background /\ s.observer = k.observer /\ s.streaming = k.streaming
      BY <2>1 DEF ControlType
    <2> HIDE DEF s
    <2>3. t \in ControlType /\ ~t.armed /\ Unmoved(s, t)
      BY <2>2, StopTimerKeeps
    <2> HIDE DEF t
    <2>4. StopAttempt(c, reason) = [t EXCEPT !.callbacks = {}, !.clientHook = FALSE, !.shutdownHook = FALSE]
      BY <1>2 DEF StopAttempt, Silence, t, s, k
    <2> DEFINE d == StopAttempt(c, reason)
    <2> HIDE DEF d
    <2>5. /\ d \in ControlType /\ ~d.clientHook /\ ~d.armed /\ d.stopped = t.stopped
          /\ d.result = t.result /\ d.finished = t.finished /\ d.detached = t.detached
          /\ d.background = t.background /\ d.observer = t.observer /\ d.streaming = t.streaming
      BY <2>3, <2>4 DEF ControlType, d
    <2> QED  BY <1>2, <2>1, <2>2, <2>3, <2>5 DEF Unmoved, d
  <1> QED  BY <1>1, <1>2

LEMMA CloseControlIdle ==
    ASSUME NEW c \in ControlType
    PROVE  LET d == CloseControl(c)
           IN  /\ d \in ControlType /\ d.finished /\ d.stopped = Running /\ d.result = c.result
               /\ ~d.armed /\ ~d.streaming /\ ~d.clientHook /\ ~d.detached
  BY ZenonT(40) DEF CloseControl, NewControl, ControlType, NoVerdict, Verdict, TimeoutReason, Running

LEMMA NewControlRuns ==
    /\ NewControl \in ControlType /\ NewControl.stopped = Running /\ ~NewControl.finished
    /\ NewControl.result = NoVerdict /\ ~NewControl.armed /\ NewControl.clientHook
    /\ ~NewControl.streaming /\ ~NewControl.detached /\ ~NewControl.background
  BY DEF NewControl, ControlType, NoVerdict, Verdict, TimeoutReason, Running, EndReason, FailureClass

LEMMA NewAttemptRuns ==
    ASSUME NEW stream \in BOOLEAN
    PROVE  LET d == NewUpstreamAttempt(stream)
           IN  /\ d \in ControlType /\ d.stopped = Running /\ ~d.finished
               /\ d.result = NoVerdict /\ d.clientHook /\ ~d.streaming /\ ~d.background
               /\ d.armed => d.timerReason = "response_header_timeout"
  <1>1. "response_header_timeout" \in TimeoutReason
    BY DEF TimeoutReason
  <1>2. CASE stream
    BY <1>1, <1>2, NewControlRuns, ArmKeeps DEF NewUpstreamAttempt, Unmoved
  <1>3. CASE ~stream
    BY <1>3, NewControlRuns DEF NewUpstreamAttempt
  <1> QED  BY <1>2, <1>3

LEMMA ObserveKeeps ==
    ASSUME NEW c \in ControlType, NEW status, NEW sse \in BOOLEAN
    PROVE  LET d == Observe(c, status, sse)
           IN  /\ d \in ControlType /\ d.streaming
               /\ d.stopped = c.stopped /\ d.finished = c.finished /\ d.detached = c.detached
               /\ d.result = c.result /\ d.clientHook = c.clientHook /\ d.armed = c.armed
               /\ d.timerReason = c.timerReason
  <1>1. (sse /\ status = "sse") \in BOOLEAN
    OBVIOUS
  <1> QED  BY <1>1 DEF Observe, ControlType

LEMMA ReadBackgroundDetaches ==
    ASSUME NEW c \in ControlType
    PROVE  LET d == ReadBackground(c)
           IN  /\ d \in ControlType /\ ~d.clientHook /\ d.background /\ d.detached
               /\ d.armed /\ d.timerReason = "error_body_timeout"
               /\ d.stopped = c.stopped /\ d.finished = c.finished /\ d.result = c.result
               /\ d.streaming = c.streaming
  <1> DEFINE b == [c EXCEPT !.detached = TRUE, !.background = TRUE, !.clientHook = FALSE]
  <1>1. /\ b \in ControlType /\ ~b.clientHook /\ b.background /\ b.detached
        /\ b.stopped = c.stopped /\ b.finished = c.finished /\ b.result = c.result
        /\ b.streaming = c.streaming
    BY DEF ControlType
  <1>2. ReadBackground(c) = Arm(b, "error_body_timeout")
    BY DEF ReadBackground
  <1>3. "error_body_timeout" \in TimeoutReason
    BY DEF TimeoutReason
  <1> HIDE DEF b
  <1> QED  BY <1>1, <1>2, <1>3, ArmKeeps DEF Unmoved

LEMMA BeginReadArms ==
    ASSUME NEW c \in ControlType
    PROVE  LET d == BeginRead(c)
           IN  /\ d \in ControlType /\ Unmoved(c, d)
               /\ c.stopped # Running \/ c.background => d = c
               /\ d = c \/ (d.armed /\ d.timerReason = "response_idle_timeout")
  <1>1. "response_idle_timeout" \in TimeoutReason
    BY DEF TimeoutReason
  <1> QED  BY <1>1, ArmKeeps DEF BeginRead, Unmoved

LEMMA StatusClass ==
    ASSUME NEW status \in Status
    PROVE  /\ ClassifyHTTPStatus(status) \in FailureClass
           /\ IsSuccess(status) => ClassifyHTTPStatus(status) = "none"
           /\ ~IsSuccess(status) =>
                ClassifyHTTPStatus(status) \in {"global_immediate", "channel_transient", "neutral"}
  BY DEF Status, ClassifyHTTPStatus, IsSuccess, FailureClass

LEMMA ChunkVerdictTyped ==
    ASSUME NEW c \in ControlType, NEW status \in Status \cup {"error"}, NEW chunk \in Chunk,
           status = "error" => ~c.streaming
    PROVE  /\ ChunkVerdict(c, status, chunk) \in VerdictType
           /\ ~c.streaming /\ chunk \in {"data", "eof", "failure"} =>
                ChunkVerdict(c, status, chunk) =
                    IF chunk = "failure" THEN Verdict("stream_interrupted", "channel_stream")
                    ELSE NoVerdict
  <1> DEFINE v == ChunkVerdict(c, status, chunk)
             f == SSEErrorClass(chunk)
  <1>1. f \in FailureClass
    BY DEF SSEErrorClass, FailureClass
  <1>2. /\ v \in {Verdict("completed", "none"), Verdict("stream_error_event", f),
                 Verdict("stream_interrupted", "channel_stream"),
                 Verdict("stream_truncated", "channel_stream"), NoVerdict}
        \/ (status \in Status /\ v = Verdict("http_error", ClassifyHTTPStatus(status)))
    BY DEF ChunkVerdict
  <1>3. v \in VerdictType
    <2>1. /\ {"completed", "stream_error_event", "stream_interrupted", "stream_truncated", "http_error"}
                \subseteq EndReason
          /\ {"none", "channel_stream"} \subseteq FailureClass
      BY DEF EndReason, FailureClass
    <2> HIDE DEF v, f
    <2>2. /\ Verdict("completed", "none") \in VerdictType
          /\ Verdict("stream_error_event", f) \in VerdictType
          /\ Verdict("stream_interrupted", "channel_stream") \in VerdictType
          /\ Verdict("stream_truncated", "channel_stream") \in VerdictType
      BY <1>1, <2>1, VerdictTyped
    <2>3. status \in Status => Verdict("http_error", ClassifyHTTPStatus(status)) \in VerdictType
      BY <2>1, VerdictTyped, StatusClass
    <2> QED  BY <1>2, <2>2, <2>3, NoVerdictTyped
  <1>4. ~c.streaming /\ chunk \in {"data", "eof", "failure"} =>
            v = IF chunk = "failure" THEN Verdict("stream_interrupted", "channel_stream") ELSE NoVerdict
    BY DEF ChunkVerdict, Chunk
  <1> QED  BY <1>3, <1>4

LEMMA EndReadClaims ==
    ASSUME NEW c \in ControlType, NEW status \in Status \cup {"error"}, NEW chunk \in Chunk,
           status = "error" => ~c.streaming
    PROVE  LET d == EndRead(c, status, chunk)
               v == ChunkVerdict(c, status, chunk)
           IN  /\ d \in ControlType
               /\ d.stopped = c.stopped /\ d.finished = c.finished /\ d.detached = c.detached
               /\ d.background = c.background /\ d.clientHook = c.clientHook
               /\ d.streaming = c.streaming /\ d.observer = c.observer
               /\ d.result = IF c.stopped = Running /\ c.result = NoVerdict THEN v ELSE c.result
               /\ d.armed => c.armed /\ c.background /\ d.timerReason = c.timerReason
  <1> DEFINE v == ChunkVerdict(c, status, chunk)
             s == IF c.background /\ (c.stopped # Running \/ chunk \notin {"eof", "failure"})
                  THEN c ELSE StopTimer(c)
             d == EndRead(c, status, chunk)
  <1>1. /\ s \in ControlType /\ Unmoved(c, s)
        /\ s.armed => c.armed /\ c.background /\ s.timerReason = c.timerReason
    BY StopTimerKeeps DEF Unmoved
  <1>2. v \in VerdictType
    BY ChunkVerdictTyped
  <1>3. d = IF c.stopped # Running THEN s ELSE Claim(s, v)
    BY DEF EndRead
  <1> HIDE DEF v, s, d
  <1>4. CASE c.stopped # Running
    BY <1>1, <1>3, <1>4 DEF Unmoved, d, v
  <1>5. CASE c.stopped = Running
    <2>1. d = Claim(s, v)
      BY <1>3, <1>5
    <2>2. /\ d \in ControlType
          /\ d.result = (IF s.result = NoVerdict THEN v ELSE s.result)
          /\ d.stopped = s.stopped /\ d.finished = s.finished
          /\ d.detached = s.detached /\ d.background = s.background
          /\ d.clientHook = s.clientHook /\ d.observer = s.observer
          /\ d.streaming = s.streaming /\ d.armed = s.armed /\ d.timerReason = s.timerReason
      BY <1>1, <1>2, <2>1, ClaimKeeps
    <2> QED  BY <1>1, <1>5, <2>2 DEF Unmoved, d, v
  <1> QED  BY <1>4, <1>5

LEMMA ReceiveHeadersClaims ==
    ASSUME NEW c \in ControlType, NEW answer \in Status \cup {"error"}
    PROVE  LET d == ReceiveHeaders(c, answer)
               class == ClassifyHTTPStatus(answer)
               runs == c.stopped = Running
               v == IF answer \notin Status THEN Verdict("transport_error", "global_transient")
                    ELSE Verdict("http_error", class)
           IN  /\ d \in ControlType /\ ~d.armed
               /\ d.stopped = c.stopped /\ d.finished = c.finished
               /\ d.streaming = c.streaming /\ d.clientHook = c.clientHook
               /\ d.background = c.background
               /\ d.result = IF runs /\ ~IsSuccess(answer) /\ c.result = NoVerdict THEN v ELSE c.result
               /\ runs /\ answer \in Status /\ ShouldFailover(class) => d.detached
  <1> DEFINE s == StopTimer(c)
             class == ClassifyHTTPStatus(answer)
             w == Verdict("transport_error", "global_transient")
             h == Verdict("http_error", class)
             d == ReceiveHeaders(c, answer)
  <1>1. s \in ControlType /\ ~s.armed /\ Unmoved(c, s)
    BY StopTimerKeeps
  <1>2. w \in VerdictType
    BY VerdictTyped DEF EndReason, FailureClass
  <1>3. ASSUME answer \in Status PROVE h \in VerdictType
    BY <1>3, StatusClass, VerdictTyped DEF EndReason
  <1>4. answer = "error" => ~IsSuccess(answer) /\ answer \notin Status
    BY DEF IsSuccess, Status
  <1>5. CASE c.stopped # Running
    BY <1>1, <1>5 DEF ReceiveHeaders, Unmoved
  <1>6. CASE c.stopped = Running /\ answer \notin Status
    <2>1. d = Claim(s, w)
      BY <1>6 DEF ReceiveHeaders
    <2> HIDE DEF s, w
    <2> QED  BY <1>1, <1>2, <1>4, <1>6, <2>1, ClaimKeeps DEF Unmoved, w, d
  <1>7. CASE c.stopped = Running /\ answer \in Status /\ IsSuccess(answer)
    <2>1. d = s /\ ~ShouldFailover(class)
      BY <1>7, StatusClass DEF ReceiveHeaders, ShouldFailover
    <2> HIDE DEF s
    <2> QED  BY <1>1, <1>7, <2>1 DEF Unmoved, d, class
  <1>8. CASE c.stopped = Running /\ answer \in Status /\ ~IsSuccess(answer)
    <2> DEFINE k == Claim(s, h)
    <2>1. d = [k EXCEPT !.detached = ShouldFailover(class)]
      BY <1>8 DEF ReceiveHeaders
    <2>2. /\ k \in ControlType
          /\ k.result = (IF s.result = NoVerdict THEN h ELSE s.result)
          /\ k.stopped = s.stopped /\ k.finished = s.finished
          /\ k.clientHook = s.clientHook /\ k.background = s.background
          /\ k.streaming = s.streaming /\ k.armed = s.armed
      BY <1>1, <1>3, <1>8, ClaimKeeps
    <2>3. ShouldFailover(class) \in BOOLEAN
      BY DEF ShouldFailover
    <2> HIDE DEF k, d
    <2>4. /\ d \in ControlType /\ d.stopped = k.stopped /\ d.finished = k.finished
          /\ d.streaming = k.streaming /\ d.clientHook = k.clientHook /\ d.armed = k.armed
          /\ d.result = k.result /\ d.detached = ShouldFailover(class)
          /\ d.background = k.background
      BY <2>1, <2>2, <2>3 DEF ControlType
    <2> HIDE DEF s, h, class
    <2> QED  BY <1>1, <1>8, <2>2, <2>4 DEF Unmoved, d, h, class
  <1> QED  BY <1>5, <1>6, <1>7, <1>8

-----------------------------------------------------------------------------
(* The timer and the hooks.                                                *)

(* A hook on the client's context ran in vain, or nothing was noticed.     *)
HookSpent(c, d, left) ==
    \/ d.clientHook = c.clientHook
    \/ /\ left /\ ~d.clientHook
       /\ c.detached \/ c.stopped # Running \/ c.finished

(* Who may stop a running attempt.                                         *)
StoppedBy(c, reason, left, down) ==
    \/ reason = c.timerReason /\ c.armed /\ c.expired
    \/ reason = "client_canceled" /\ left /\ c.clientHook /\ ~c.detached
    \/ reason = "shutdown" /\ down

(* What a callback of the timer or a hook does to the control block.       *)
Interrupts(c, d, left, down) ==
    /\ d \in ControlType
    /\ d.finished = c.finished /\ d.detached = c.detached /\ d.background = c.background
    /\ d.streaming = c.streaming
    /\ d.armed => c.armed /\ d.timerReason = c.timerReason
    /\ \/ d.stopped = c.stopped /\ d.result = c.result /\ HookSpent(c, d, left)
       \/ /\ c.stopped = Running /\ ~c.finished /\ ~d.armed /\ ~d.clientHook
          /\ d.result = IF c.result = NoVerdict THEN StopVerdict(d.stopped) ELSE c.result
          /\ StoppedBy(c, d.stopped, left, down)

LEMMA StopInterrupts ==
    ASSUME NEW c \in ControlType, NEW left, NEW down, NEW reason \in StopReason,
           StoppedBy(c, reason, left, down)
    PROVE  Interrupts(c, StopAttempt(c, reason), left, down)
  <1> DEFINE d == StopAttempt(c, reason)
  <1>1. /\ d \in ControlType
        /\ d.finished = c.finished /\ d.detached = c.detached
        /\ d.background = c.background /\ d.streaming = c.streaming
        /\ c.stopped # Running \/ c.finished => d = c
        /\ c.stopped = Running /\ ~c.finished =>
            /\ d.stopped = reason /\ ~d.armed /\ ~d.clientHook
            /\ d.result = (IF c.result = NoVerdict THEN StopVerdict(reason) ELSE c.result)
    BY StopAttemptStops
  <1> HIDE DEF d
  <1>2. CASE c.stopped # Running \/ c.finished
    BY <1>1, <1>2 DEF Interrupts, HookSpent, d
  <1>3. CASE ~(c.stopped # Running \/ c.finished)
    BY <1>1, <1>3 DEF Interrupts, d
  <1> QED  BY <1>2, <1>3

(* A change of the fields only the timer and the scheduling use.           *)
LEMMA QuietInterrupts ==
    ASSUME NEW c \in ControlType, NEW d \in ControlType, NEW left, NEW down, Unmoved(c, d),
           d.armed = c.armed, d.timerReason = c.timerReason
    PROVE  Interrupts(c, d, left, down)
  BY DEF Interrupts, HookSpent, Unmoved

LEMMA ExpireInterrupts ==
    ASSUME NEW c \in ControlType, NEW left, NEW down
    PROVE  /\ Interrupts(c, [c EXCEPT !.expired = TRUE, !.callbacks = @ \cup {"fired"}], left, down)
           /\ Interrupts(c, [c EXCEPT !.callbacks = (@ \ {"fired"}) \cup {"loaded"}], left, down)
           /\ Interrupts(c, [c EXCEPT !.callbacks = @ \ {"loaded"}], left, down)
  <1>1. /\ [c EXCEPT !.expired = TRUE, !.callbacks = @ \cup {"fired"}] \in ControlType
        /\ [c EXCEPT !.callbacks = (@ \ {"fired"}) \cup {"loaded"}] \in ControlType
        /\ [c EXCEPT !.callbacks = @ \ {"loaded"}] \in ControlType
    BY DEF ControlType
  <1>2. /\ Unmoved(c, [c EXCEPT !.expired = TRUE, !.callbacks = @ \cup {"fired"}])
        /\ Unmoved(c, [c EXCEPT !.callbacks = (@ \ {"fired"}) \cup {"loaded"}])
        /\ Unmoved(c, [c EXCEPT !.callbacks = @ \ {"loaded"}])
    BY DEF Unmoved, ControlType
  <1>3. /\ [c EXCEPT !.expired = TRUE, !.callbacks = @ \cup {"fired"}].armed = c.armed
        /\ [c EXCEPT !.callbacks = (@ \ {"fired"}) \cup {"loaded"}].armed = c.armed
        /\ [c EXCEPT !.callbacks = @ \ {"loaded"}].armed = c.armed
        /\ [c EXCEPT !.expired = TRUE, !.callbacks = @ \cup {"fired"}].timerReason = c.timerReason
        /\ [c EXCEPT !.callbacks = (@ \ {"fired"}) \cup {"loaded"}].timerReason = c.timerReason
        /\ [c EXCEPT !.callbacks = @ \ {"loaded"}].timerReason = c.timerReason
    BY DEF ControlType
  <1> QED  BY <1>1, <1>2, <1>3, QuietInterrupts

LEMMA TimerInterrupts ==
    ASSUME NEW c \in ControlType, NEW left, NEW down
    PROVE  Interrupts(c, TimerFired(c), left, down)
  <1>1. CASE c.armed /\ c.expired
    <2>1. c.timerReason \in StopReason
      BY DEF ControlType, StopReason
    <2>2. StoppedBy(c, c.timerReason, left, down)
      BY <1>1 DEF StoppedBy
    <2> QED  BY <1>1, <2>1, <2>2, StopInterrupts DEF TimerFired
  <1>2. CASE ~(c.armed /\ c.expired)
    BY <1>2, ExpireInterrupts DEF TimerFired
  <1> QED  BY <1>1, <1>2

LEMMA ClientInterrupts ==
    ASSUME NEW c \in ControlType, NEW left, NEW down, left, c.clientHook
    PROVE  Interrupts(c, ClientCanceled(c), left, down)
  <1> DEFINE h == [c EXCEPT !.clientHook = FALSE]
             d == ClientCanceled(c)
  <1>1. /\ h \in ControlType /\ ~h.clientHook
        /\ h.stopped = c.stopped /\ h.finished = c.finished /\ h.detached = c.detached
        /\ h.background = c.background /\ h.result = c.result /\ h.streaming = c.streaming
        /\ h.armed = c.armed /\ h.timerReason = c.timerReason
    BY DEF ControlType
  <1>2. d = IF c.detached THEN h ELSE StopAttempt(h, "client_canceled")
    BY DEF ClientCanceled
  <1> HIDE DEF h
  <1>3. LET s == StopAttempt(h, "client_canceled")
        IN  /\ s \in ControlType
            /\ s.finished = h.finished /\ s.detached = h.detached
            /\ s.background = h.background /\ s.streaming = h.streaming
            /\ h.stopped # Running \/ h.finished => s = h
            /\ h.stopped = Running /\ ~h.finished =>
                /\ s.stopped = "client_canceled" /\ ~s.armed /\ ~s.clientHook
                /\ s.result = (IF h.result = NoVerdict THEN StopVerdict("client_canceled") ELSE h.result)
    BY <1>1, StopAttemptStops DEF StopReason
  <1> HIDE DEF d
  <1>4. CASE c.detached
    BY <1>1, <1>2, <1>4 DEF Interrupts, HookSpent, d
  <1>5. CASE ~c.detached /\ (h.stopped # Running \/ h.finished)
    <2>1. d = h
      BY <1>2, <1>3, <1>5
    <2> QED  BY <1>1, <1>5, <2>1 DEF Interrupts, HookSpent, d
  <1>6. CASE ~c.detached /\ ~(h.stopped # Running \/ h.finished)
    <2>1. StoppedBy(c, "client_canceled", left, down)
      BY <1>6 DEF StoppedBy
    <2>2. d = StopAttempt(h, "client_canceled")
      BY <1>2, <1>6
    <2> QED  BY <1>1, <1>3, <1>6, <2>1, <2>2 DEF Interrupts, d
  <1> QED  BY <1>4, <1>5, <1>6

LEMMA ShutdownInterrupts ==
    ASSUME NEW c \in ControlType, NEW left, NEW down, down
    PROVE  Interrupts(c, ShutDown(c), left, down)
  <1> DEFINE h == [c EXCEPT !.shutdownHook = FALSE]
             d == ShutDown(c)
  <1>1. /\ h \in ControlType /\ h.clientHook = c.clientHook
        /\ h.stopped = c.stopped /\ h.finished = c.finished /\ h.detached = c.detached
        /\ h.background = c.background /\ h.result = c.result /\ h.streaming = c.streaming
        /\ h.armed = c.armed /\ h.timerReason = c.timerReason /\ h.expired = c.expired
    BY DEF ControlType
  <1>2. d = StopAttempt(h, "shutdown")
    BY DEF ShutDown
  <1> HIDE DEF h, d
  <1>3. Interrupts(h, d, left, down)
    BY <1>1, <1>2, StopInterrupts DEF StopReason, StoppedBy
  <1> QED  BY <1>1, <1>3 DEF Interrupts, HookSpent, StoppedBy, d

(* The verdict stays that of whoever stopped the attempt.                  *)
LEMMA InterruptClaims ==
    ASSUME NEW c \in ControlType, NEW d, NEW left, NEW down, Interrupts(c, d, left, down)
    PROVE  /\ Claimed(c) => Claimed(d)
           /\ c.result # NoVerdict => d.result = c.result
           /\ d.stopped # c.stopped => c.stopped = Running /\ StoppedBy(c, d.stopped, left, down)
           /\ ~c.armed => ~d.armed
           /\ ~d.armed \/ d.timerReason = c.timerReason
  <1>1. StoppedBy(c, d.stopped, left, down) => d.stopped # Running
    BY DEF StoppedBy, ControlType, TimeoutReason, Running
  <1> QED  BY <1>1 DEF Interrupts, Claimed

LEMMA InterruptVerdict ==
    ASSUME NEW a \in AttemptType, NEW d \in ControlType, NEW r, NEW left, NEW down,
           Interrupts(a.control, d, left, down), VerdictSound(a, r, left, down),
           r.pc = "answered" /\ a.status \in Status /\ ShouldFailover(ClassifyHTTPStatus(a.status))
                => a.control.detached
    PROVE  VerdictSound([a EXCEPT !.control = d], r, left, down)
  <1> DEFINE c == a.control
             b == [a EXCEPT !.control = d]
  <1>1. c \in ControlType /\ b.control = d /\ b.status = a.status /\ a.status \in Status \cup {"error"}
    BY DEF AttemptType
  <1> HIDE DEF b
  <1>2. /\ Claimed(c) => Claimed(d)
        /\ c.result # NoVerdict => d.result = c.result
        /\ d.stopped # c.stopped => c.stopped = Running /\ StoppedBy(c, d.stopped, left, down)
        /\ ~c.armed => ~d.armed
        /\ ~d.armed \/ (d.timerReason = c.timerReason /\ c.armed)
    BY <1>1, InterruptClaims DEF Interrupts
  <1>3. /\ d.stopped = "client_canceled" => left
        /\ d.stopped = "shutdown" => down
    BY <1>1, <1>2 DEF VerdictSound, StoppedBy, ControlType, TimeoutReason
  <1>4. ASSUME r.pc = "do"
        PROVE  /\ Claimed(d)
               /\ Interrupted(d) \/ d.stopped = "response_header_timeout"
               /\ d.armed => d.timerReason = "response_header_timeout"
    BY <1>1, <1>2, <1>4 DEF VerdictSound, StoppedBy, Interrupted
  <1>5. ASSUME r.pc = "answered"
        PROVE  /\ ~d.armed
               /\ IF a.status = "error"
                  THEN \/ d.result = Verdict("transport_error", "global_transient") /\ Interrupted(d)
                       \/ /\ Claimed(d)
                          /\ d.stopped \in {"response_header_timeout", "client_canceled", "shutdown"}
                  ELSE IF IsSuccess(a.status) THEN Claimed(d) /\ Interrupted(d)
                  ELSE d.result = Verdict("http_error", ClassifyHTTPStatus(a.status))
    <2>1. ~c.armed /\ ~d.armed
      BY <1>2, <1>5 DEF VerdictSound
    <2>2. Interrupted(c) => Interrupted(d)
      BY <1>2, <2>1 DEF StoppedBy, Interrupted
    <2>3. CASE a.status = "error"
      <3>1. CASE c.result = Verdict("transport_error", "global_transient") /\ Interrupted(c)
        <4>1. c.result # NoVerdict
          BY <3>1, FailuresAreVerdicts
        <4> QED  BY <1>2, <2>1, <2>2, <2>3, <3>1, <4>1
      <3>2. CASE /\ Claimed(c)
                 /\ c.stopped \in {"response_header_timeout", "client_canceled", "shutdown"}
        BY <1>2, <2>1, <2>3, <3>2 DEF Running
      <3> QED  BY <1>5, <2>3, <3>1, <3>2 DEF VerdictSound
    <2>4. CASE a.status # "error" /\ IsSuccess(a.status)
      BY <1>2, <1>5, <2>1, <2>2, <2>4 DEF VerdictSound
    <2>5. CASE a.status # "error" /\ ~IsSuccess(a.status)
      <3>1. c.result = Verdict("http_error", ClassifyHTTPStatus(a.status))
        BY <1>5, <2>5 DEF VerdictSound
      <3>2. c.result # NoVerdict
        BY <3>1, FailuresAreVerdicts
      <3> QED  BY <1>2, <2>1, <2>5, <3>1, <3>2
    <2> QED  BY <2>3, <2>4, <2>5
  <1>6. ASSUME r.pc \in Buffering
        PROVE  \/ /\ Claimed(d) /\ Interrupted(d)
                  /\ d.armed => r.pc = "capturing" /\ d.timerReason = "response_idle_timeout"
               \/ /\ Claimed(d) /\ d.stopped = "response_idle_timeout" /\ ~d.armed
                  /\ r.pc = "capturing" \/ (r.pc = "captured" /\ r.capture = "stopped")
               \/ /\ r.pc = "captured" /\ r.capture = "failed" /\ ~d.armed /\ Interrupted(d)
                  /\ d.result = Verdict("stream_interrupted", "channel_stream")
    <2>1. CASE /\ Claimed(c) /\ Interrupted(c)
               /\ c.armed => r.pc = "capturing" /\ c.timerReason = "response_idle_timeout"
      <3>1. CASE d.stopped = c.stopped
        BY <1>2, <2>1, <3>1 DEF Interrupted
      <3>2. CASE d.stopped # c.stopped
        <4>1. ~d.armed
          BY <3>2 DEF Interrupts
        <4> QED  BY <1>2, <2>1, <3>2, <4>1 DEF Interrupted, StoppedBy
      <3> QED  BY <3>1, <3>2
    <2>2. CASE /\ Claimed(c) /\ c.stopped = "response_idle_timeout" /\ ~c.armed
               /\ r.pc = "capturing" \/ (r.pc = "captured" /\ r.capture = "stopped")
      BY <1>2, <2>2 DEF Running
    <2>3. CASE /\ r.pc = "captured" /\ r.capture = "failed" /\ ~c.armed /\ Interrupted(c)
               /\ c.result = Verdict("stream_interrupted", "channel_stream")
      <3>1. c.result # NoVerdict
        BY <2>3, FailuresAreVerdicts
      <3>2. Interrupted(d)
        BY <1>2, <2>3 DEF StoppedBy, Interrupted
      <3> QED  BY <1>2, <2>3, <3>1, <3>2
    <2> QED  BY <1>6, <2>1, <2>2, <2>3 DEF VerdictSound
  <1> QED  BY <1>1, <1>3, <1>4, <1>5, <1>6 DEF VerdictSound, b

LEMMA InterruptUnread ==
    ASSUME NEW a \in AttemptType, NEW d \in ControlType, NEW left, NEW down,
           Interrupts(a.control, d, left, down), Unread(a, left)
    PROVE  Unread([a EXCEPT !.control = d], left)
  <1> DEFINE b == [a EXCEPT !.control = d]
  <1>1. a.control \in ControlType /\ b.control = d /\ b.status = a.status /\ b.open = a.open
    BY DEF AttemptType
  <1> HIDE DEF b
  <1>2. /\ d.stopped \in {Running, "shutdown"} /\ Hooked(d, left)
        /\ ~d.finished /\ d.detached /\ ~d.armed /\ ~d.streaming
    BY <1>1 DEF Unread, Interrupts, HookSpent, StoppedBy, Hooked, Running
  <1> QED  BY <1>1, <1>2 DEF Unread, b

LEMMA InterruptExecutor ==
    ASSUME NEW a \in AttemptType, NEW d \in ControlType, NEW r, NEW left, NEW down,
           Interrupts(a.control, d, left, down), ExecutorSound(a, r, left, down)
    PROVE  ExecutorSound([a EXCEPT !.control = d], r, left, down)
  <1> DEFINE c == a.control
             b == [a EXCEPT !.control = d]
  <1>1. /\ c \in ControlType /\ b.control = d /\ b.status = a.status /\ b.open = a.open
        /\ b.started = a.started /\ b.key = a.key /\ b.entry = a.entry /\ b.pending = a.pending
        /\ b.report = a.report
        /\ a.status \in Status \cup {"error"} /\ "error" \notin Status
    BY DEF AttemptType, Status
  <1>2. VerdictSound(b, r, left, down)
    BY <1>1, InterruptVerdict DEF ExecutorSound
  <1>3. Unread(a, left) => Unread(b, left)
    BY InterruptUnread
  <1> HIDE DEF b
  <1>4. /\ d.finished = c.finished /\ d.detached = c.detached /\ d.streaming = c.streaming
        /\ d.background = c.background
        /\ c.armed \/ ~d.armed
        /\ Hooked(c, left) => Hooked(d, left)
        /\ (~c.detached /\ ~c.finished /\ Hooked(c, FALSE)) => Hooked(d, FALSE)
        /\ (c.detached /\ ~c.armed /\ c.stopped \in {Running, "shutdown"}) => d.stopped \in {Running, "shutdown"}
    <2>1. StoppedBy(c, d.stopped, left, down) => d.stopped # Running
      BY <1>1 DEF StoppedBy, ControlType, TimeoutReason, Running
    <2> QED  BY <2>1 DEF Interrupts, HookSpent, StoppedBy, Hooked
  <1>5. r.pc \in Copying => r.pc \notin Before
    BY DEF Copying, Before
  <1>6. r.pc \in Before =>
          /\ ~b.started /\ b.key \in Key /\ d.finished /\ ~b.pending /\ "response" \notin b.open
          /\ r.pc # "start" => b.entry = NoEntry
    BY <1>1, <1>4 DEF ExecutorSound
  <1>7. /\ r.pc \notin Before => ~d.finished
        /\ r.pc \in Calling \cup Buffering => ~b.pending /\ ~d.streaming /\ ~d.background
        /\ r.pc = "do" => Hooked(d, left)
        /\ r.pc = "final" => b.report # "leased" /\ Unread(b, left)
        /\ r.pc \in Buffering => b.status = "ok"
    BY <1>1, <1>3, <1>4 DEF ExecutorSound
  <1>8. r.pc = "answered" /\ b.status # "error" =>
        /\ "response" \in b.open /\ ~d.armed /\ Hooked(d, left)
        /\ ShouldFailover(ClassifyHTTPStatus(b.status)) =>
             d.detached /\ d.stopped \in {Running, "shutdown"}
    BY <1>1, <1>4 DEF ExecutorSound
  <1>9. r.pc \in Copying =>
        /\ b.status \in Status
        /\ r.last = 0 => ~b.pending
        /\ r.last # 0 => b.report # "leased" /\ ~d.detached /\ Hooked(d, FALSE)
    BY <1>1, <1>4, <1>5 DEF ExecutorSound
  <1> QED  BY <1>1, <1>2, <1>6, <1>7, <1>8, <1>9 DEF ExecutorSound, b

LEMMA InterruptSound ==
    ASSUME NEW a, NEW n, NEW d, NEW r, NEW left, NEW down,
           Interrupts(a.control, d, left, down), AttemptSound(n, a, r, left, down)
    PROVE  AttemptSound(n, [a EXCEPT !.control = d], r, left, down)
  <1> DEFINE b == [a EXCEPT !.control = d]
  <1>1. a \in AttemptType /\ d \in ControlType
    BY DEF AttemptSound, Interrupts
  <1>2. /\ b \in AttemptType /\ b.control = d /\ b.owner = a.owner /\ b.open = a.open
        /\ b.started = a.started /\ b.events = a.events /\ b.entry = a.entry /\ b.pending = a.pending
        /\ b.report = a.report
    BY <1>1 DEF AttemptType
  <1>3. a.owner = "executor" => ExecutorSound(b, r, left, down)
    BY <1>1, InterruptExecutor DEF AttemptSound
  <1>4. Unread(a, left) => Unread(b, left)
    BY <1>1, InterruptUnread
  <1> HIDE DEF b
  <1>5. Nothing(a) => Nothing(b)
    BY <1>2 DEF Nothing, Interrupts
  <1>6. BackgroundSound(a) => BackgroundSound(b)
    BY <1>1, <1>2 DEF BackgroundSound, Interrupts, HookSpent, StoppedBy, AttemptType
  <1>7. NobodySound(a) => NobodySound(b)
    BY <1>2, <1>5 DEF NobodySound
  <1>8. CapturedSound(a, left) => CapturedSound(b, left)
    BY <1>2, <1>4, <1>5 DEF CapturedSound
  <1>9. (a.control.stopped = "shutdown" => down) => (d.stopped = "shutdown" => down)
    BY <1>1 DEF Interrupts, StoppedBy, AttemptType, ControlType, TimeoutReason
  <1> QED  BY <1>2, <1>3, <1>4, <1>6, <1>7, <1>8, <1>9 DEF AttemptSound, b

-----------------------------------------------------------------------------
(* The pool of transports.                                                 *)

(* Before CloseUnused runs, a retired entry may be unused and still open.  *)
PoolOpen(p) ==
    /\ p \in Pool
    /\ \A k, j \in Key : p.clients[k] = p.clients[j] /\ p.clients[k] # NoEntry => k = j
    /\ \A e \in Entry : p.retired[e] <=> e \notin Pooled(p)
    /\ \A e \in Entry : p.idleClosed[e] => p.retired[e] /\ p.refs[e] = 0

LEMMA CloseUnusedSound ==
    ASSUME NEW p, PoolOpen(p)
    PROVE  PoolSound(CloseUnused(p)) /\ CloseUnused(p).refs = p.refs
  <1> DEFINE f == [e \in Entry |-> p.idleClosed[e] \/ (p.retired[e] /\ p.refs[e] = 0)]
             q == CloseUnused(p)
  <1>1. p \in Pool
    BY DEF PoolOpen
  <1>2. f \in [Entry -> BOOLEAN]
    BY <1>1 DEF Pool
  <1>3. q = [p EXCEPT !.idleClosed = f]
    BY DEF CloseUnused
  <1> HIDE DEF q
  <1>4. /\ q \in Pool /\ q.clients = p.clients /\ q.retired = p.retired /\ q.refs = p.refs
        /\ q.idleClosed = f
    <2> HIDE DEF f
    <2> QED  BY <1>1, <1>2, <1>3 DEF Pool
  <1>5. Pooled(q) = Pooled(p)
    BY <1>4 DEF Pooled
  <1>6. ASSUME NEW e \in Entry PROVE q.idleClosed[e] <=> q.retired[e] /\ q.refs[e] = 0
    <2>1. q.idleClosed[e] <=> p.idleClosed[e] \/ (p.retired[e] /\ p.refs[e] = 0)
      BY <1>4
    <2>2. p.idleClosed[e] => p.retired[e] /\ p.refs[e] = 0
      BY DEF PoolOpen
    <2> QED  BY <1>4, <2>1, <2>2
  <1>7. \A e \in Entry : q.retired[e] <=> e \notin Pooled(q)
    BY <1>4, <1>5 DEF PoolOpen
  <1>8. \A k, j \in Key : q.clients[k] = q.clients[j] /\ q.clients[k] # NoEntry => k = j
    BY <1>4 DEF PoolOpen
  <1> QED  BY <1>4, <1>6, <1>7, <1>8 DEF PoolSound, q

LEMMA RetireKeysSound ==
    ASSUME NEW p, PoolSound(p), NEW keys \in SUBSET Key
    PROVE  PoolSound(RetireKeys(p, keys)) /\ RetireKeys(p, keys).refs = p.refs
  <1> DEFINE cl == [k \in Key |-> IF k \in keys THEN NoEntry ELSE p.clients[k]]
             rt == [e \in Entry |-> p.retired[e] \/ \E k \in keys : p.clients[k] = e]
             q == [p EXCEPT !.clients = cl, !.retired = rt]
  <1>1. p \in Pool
    BY DEF PoolSound
  <1>2. cl \in [Key -> Entry \cup {NoEntry}] /\ rt \in [Entry -> BOOLEAN]
    BY <1>1 DEF Pool
  <1>3. /\ q \in Pool /\ q.clients = cl /\ q.retired = rt /\ q.refs = p.refs
        /\ q.idleClosed = p.idleClosed
    <2> HIDE DEF cl, rt
    <2> QED  BY <1>1, <1>2 DEF Pool
  <1>4. RetireKeys(p, keys) = CloseUnused(q)
    BY DEF RetireKeys
  <1> HIDE DEF q
  <1>5. \A k, j \in Key : q.clients[k] = q.clients[j] /\ q.clients[k] # NoEntry => k = j
    BY <1>3 DEF PoolSound
  <1>6. ASSUME NEW e \in Entry PROVE q.retired[e] <=> e \notin Pooled(q)
    <2>1. e # NoEntry
      BY EntryAssumption
    <2>2. e \in Pooled(q) <=> \E k \in Key : k \notin keys /\ p.clients[k] = e
      BY <1>3, <2>1 DEF Pooled
    <2>3. p.retired[e] <=> ~ \E k \in Key : p.clients[k] = e
      BY <2>1 DEF PoolSound, Pooled
    <2>4. q.retired[e] <=> p.retired[e] \/ \E k \in keys : p.clients[k] = e
      BY <1>3
    <2>5. \A k, j \in Key : p.clients[k] = e /\ p.clients[j] = e => k = j
      BY <2>1 DEF PoolSound
    <2> QED  BY <2>2, <2>3, <2>4, <2>5
  <1>7. \A e \in Entry : q.idleClosed[e] => q.retired[e] /\ q.refs[e] = 0
    BY <1>3, ZenonT(40) DEF PoolSound
  <1>8. PoolOpen(q)
    BY <1>3, <1>5, <1>6, <1>7 DEF PoolOpen
  <1> QED  BY <1>3, <1>4, <1>8, CloseUnusedSound

LEMMA ReconcileSound ==
    ASSUME NEW p, PoolSound(p), NEW active \in SUBSET Key
    PROVE  PoolSound(ReconcileTargets(p, active)) /\ ReconcileTargets(p, active).refs = p.refs
  <1> DEFINE q == [p EXCEPT !.active = active, !.reconciled = TRUE]
  <1>1. /\ q \in Pool /\ q.clients = p.clients /\ q.retired = p.retired /\ q.refs = p.refs
        /\ q.idleClosed = p.idleClosed
    BY DEF PoolSound, Pool
  <1> HIDE DEF q
  <1>2. PoolSound(q)
    BY <1>1 DEF PoolSound, Pooled
  <1>3. CASE p.closed
    BY <1>3 DEF ReconcileTargets
  <1>4. CASE ~p.closed
    BY <1>1, <1>2, <1>4, RetireKeysSound DEF ReconcileTargets, q
  <1> QED  BY <1>3, <1>4

LEMMA ClosePoolSound ==
    ASSUME NEW p, PoolSound(p)
    PROVE  PoolSound(ClosePool(p)) /\ ClosePool(p).refs = p.refs
  <1> DEFINE q == [p EXCEPT !.closed = TRUE, !.active = {}]
  <1>1. /\ q \in Pool /\ q.clients = p.clients /\ q.retired = p.retired /\ q.refs = p.refs
        /\ q.idleClosed = p.idleClosed
    BY DEF PoolSound, Pool
  <1> HIDE DEF q
  <1>2. PoolSound(q)
    BY <1>1 DEF PoolSound, Pooled
  <1>3. CASE p.closed
    BY <1>3 DEF ClosePool
  <1>4. CASE ~p.closed
    BY <1>1, <1>2, <1>4, RetireKeysSound DEF ClosePool, q
  <1> QED  BY <1>3, <1>4

LEMMA ReleaseSound ==
    ASSUME NEW p, PoolSound(p), NEW e \in Entry, p.refs[e] > 0
    PROVE  /\ PoolSound(Release(p, e))
           /\ Release(p, e).refs = [p.refs EXCEPT ![e] = @ - 1]
  <1> DEFINE rs == [p.refs EXCEPT ![e] = IF @ > 0 THEN @ - 1 ELSE 0]
             q == [p EXCEPT !.refs = rs]
  <1>1. p \in Pool /\ p.refs \in [Entry -> Nat]
    BY DEF PoolSound, Pool
  <1>2. rs \in [Entry -> Nat] /\ rs = [p.refs EXCEPT ![e] = @ - 1]
    BY <1>1
  <1>3. /\ q \in Pool /\ q.clients = p.clients /\ q.retired = p.retired /\ q.refs = rs
        /\ q.idleClosed = p.idleClosed
    <2> HIDE DEF rs
    <2> QED  BY <1>1, <1>2 DEF Pool
  <1>4. Release(p, e) = CloseUnused(q)
    BY DEF Release
  <1> HIDE DEF q
  <1>5. ASSUME NEW f \in Entry, q.idleClosed[f] PROVE q.retired[f] /\ q.refs[f] = 0
    BY <1>1, <1>2, <1>3, <1>5 DEF PoolSound
  <1>6. PoolOpen(q)
    BY <1>3, <1>5 DEF PoolSound, PoolOpen, Pooled
  <1> QED  BY <1>2, <1>3, <1>4, <1>6, CloseUnusedSound

LEMMA AcquireSound ==
    ASSUME NEW p, PoolSound(p), NEW k \in Key, FreeEntries(p) # {} \/ p.clients[k] # NoEntry
    PROVE  LET e == LeasedEntry(p, k)
           IN  /\ e \in Entry /\ PoolSound(AcquireTarget(p, k))
               /\ AcquireTarget(p, k).refs = [p.refs EXCEPT ![e] = @ + 1]
  <1> DEFINE e == LeasedEntry(p, k)
             q == AcquireTarget(p, k)
  <1>1. /\ p \in Pool /\ p.refs \in [Entry -> Nat] /\ p.retired \in [Entry -> BOOLEAN]
        /\ p.idleClosed \in [Entry -> BOOLEAN] /\ p.clients \in [Key -> Entry \cup {NoEntry}]
    BY DEF PoolSound, Pool
  <1>2. CASE p.clients[k] # NoEntry
    <2>1. e = p.clients[k] /\ e \in Entry
      BY <1>1, <1>2 DEF LeasedEntry
    <2>2. q = [p EXCEPT !.refs[e] = @ + 1]
      BY <1>2 DEF AcquireTarget
    <2>3. e \in Pooled(p)
      BY <1>2, <2>1 DEF Pooled
    <2>4. ~p.retired[e] /\ ~p.idleClosed[e]
      BY <2>1, <2>3 DEF PoolSound
    <2> DEFINE rs == [p.refs EXCEPT ![e] = @ + 1]
    <2>5. rs \in [Entry -> Nat] /\ q = [p EXCEPT !.refs = rs]
      BY <1>1, <2>1, <2>2
    <2> HIDE DEF e, q
    <2>6. /\ q \in Pool /\ q.clients = p.clients /\ q.retired = p.retired /\ q.refs = rs
          /\ q.idleClosed = p.idleClosed
      <3> HIDE DEF rs
      <3> QED  BY <1>1, <2>5 DEF Pool
    <2>7. ASSUME NEW f \in Entry PROVE q.idleClosed[f] <=> q.retired[f] /\ q.refs[f] = 0
      BY <1>1, <2>1, <2>4, <2>6 DEF PoolSound
    <2>8. PoolSound(q)
      BY <2>6, <2>7 DEF PoolSound, Pooled
    <2> QED  BY <2>1, <2>6, <2>8 DEF e, q
  <1>3. CASE p.clients[k] = NoEntry
    <2>1. e \in FreeEntries(p)
      BY <1>3 DEF LeasedEntry
    <2>2. e \in Entry /\ p.refs[e] = 0 /\ e \notin Pooled(p) /\ e # NoEntry
      BY <2>1, EntryAssumption DEF FreeEntries
    <2> DEFINE st == Stale(p, k)
               rs == [p.refs EXCEPT ![e] = 1]
               rt == [p.retired EXCEPT ![e] = st]
               ic == [p.idleClosed EXCEPT ![e] = FALSE]
               cl == [p.clients EXCEPT ![k] = IF st THEN @ ELSE e]
    <2>3. st \in BOOLEAN
      BY DEF Stale
    <2>4. q = [p EXCEPT !.refs = rs, !.retired = rt, !.idleClosed = ic, !.clients = cl]
      BY <1>1, <1>3 DEF AcquireTarget
    <2> HIDE DEF e, q, st
    <2>5. /\ rs \in [Entry -> Nat] /\ rs = [p.refs EXCEPT ![e] = @ + 1]
          /\ rt \in [Entry -> BOOLEAN] /\ ic \in [Entry -> BOOLEAN]
          /\ cl \in [Key -> Entry \cup {NoEntry}]
      BY <1>1, <2>2, <2>3
    <2>6. /\ q \in Pool /\ q.clients = cl /\ q.retired = rt /\ q.refs = rs /\ q.idleClosed = ic
      <3> HIDE DEF rs, rt, ic, cl
      <3> QED  BY <1>1, <2>4, <2>5 DEF Pool
    <2>7. \A j \in Key : p.clients[j] # e
      BY <2>2 DEF Pooled
    <2>8. \A i, j \in Key : q.clients[i] = q.clients[j] /\ q.clients[i] # NoEntry => i = j
      BY <1>1, <2>2, <2>6, <2>7 DEF PoolSound
    <2>9. ASSUME NEW f \in Entry PROVE q.retired[f] <=> f \notin Pooled(q)
      <3>1. f # NoEntry
        BY EntryAssumption
      <3>2. f \in Pooled(q) <=> \E j \in Key : cl[j] = f
        BY <2>6, <3>1 DEF Pooled
      <3>3. p.retired[f] <=> ~ \E j \in Key : p.clients[j] = f
        BY <3>1 DEF PoolSound, Pooled
      <3>4. CASE f = e
        BY <1>1, <1>3, <2>2, <2>3, <2>6, <2>7, <3>2, <3>4
      <3>5. CASE f # e
        BY <1>1, <1>3, <2>2, <2>6, <3>1, <3>2, <3>3, <3>5
      <3> QED  BY <3>4, <3>5
    <2>10. ASSUME NEW f \in Entry PROVE q.idleClosed[f] <=> q.retired[f] /\ q.refs[f] = 0
      BY <1>1, <2>2, <2>6 DEF PoolSound
    <2>11. PoolSound(q)
      BY <2>6, <2>8, <2>9, <2>10 DEF PoolSound
    <2> QED  BY <2>2, <2>5, <2>6, <2>11 DEF e, q
  <1> QED  BY <1>2, <1>3

LEMMA UsersFinite ==
    ASSUME NEW as, NEW e
    PROVE  IsFiniteSet(Users(as, e)) /\ Cardinality(Users(as, e)) \in Nat
  <1>1. IsFiniteSet(Attempt)
    BY FS_Interval, GatewayAssumption DEF Attempt
  <1>2. Users(as, e) \in SUBSET Attempt
    BY DEF Users
  <1> QED  BY <1>1, <1>2, FS_Subset, FS_CardinalityType

LEMMA SameTransport ==
    ASSUME NEW p, NEW q, NEW as, NEW bs, Counted(p, as), q.refs = p.refs,
           \A n \in Attempt : bs[n].entry = as[n].entry
    PROVE  Counted(q, bs)
  <1>1. \A e \in Entry : Users(bs, e) = Users(as, e)
    BY DEF Users
  <1> QED  BY <1>1 DEF Counted

LEMMA TransportLeased ==
    ASSUME NEW p, PoolSound(p), NEW q, NEW as \in [Attempt -> AttemptType], NEW n \in Attempt,
           NEW x, NEW e \in Entry, Counted(p, as), q.refs = [p.refs EXCEPT ![e] = @ + 1],
           as[n].entry = NoEntry, x.entry = e
    PROVE  Counted(q, [as EXCEPT ![n] = x])
  <1> DEFINE bs == [as EXCEPT ![n] = x]
  <1>1. p.refs \in [Entry -> Nat]
    BY DEF PoolSound, Pool
  <1>2. ASSUME NEW f \in Entry PROVE q.refs[f] = Cardinality(Users(bs, f))
    <2>1. p.refs[f] = Cardinality(Users(as, f)) /\ f # NoEntry
      BY EntryAssumption DEF Counted
    <2>2. CASE f = e
      <3>1. Users(bs, f) = Users(as, f) \cup {n} /\ n \notin Users(as, f)
        BY <2>1, <2>2 DEF Users
      <3>2. Cardinality(Users(bs, f)) = Cardinality(Users(as, f)) + 1
        BY <3>1, UsersFinite, FS_AddElement
      <3> QED  BY <1>1, <2>1, <2>2, <3>2
    <2>3. CASE f # e
      <3>1. Users(bs, f) = Users(as, f)
        BY <2>1, <2>3 DEF Users
      <3> QED  BY <1>1, <2>1, <2>3, <3>1
    <2> QED  BY <2>2, <2>3
  <1> QED  BY <1>2 DEF Counted

LEMMA TransportGivenBack ==
    ASSUME NEW p, PoolSound(p), NEW q, NEW as \in [Attempt -> AttemptType], NEW n \in Attempt,
           NEW x, NEW e \in Entry, Counted(p, as), as[n].entry = e, x.entry = NoEntry
    PROVE  /\ p.refs[e] > 0
           /\ q.refs = [p.refs EXCEPT ![e] = @ - 1] => Counted(q, [as EXCEPT ![n] = x])
  <1> DEFINE bs == [as EXCEPT ![n] = x]
  <1>1. p.refs \in [Entry -> Nat]
    BY DEF PoolSound, Pool
  <1>2. p.refs[e] > 0
    <2>1. n \in Users(as, e)
      BY DEF Users
    <2>2. Cardinality(Users(as, e)) # 0
      BY <2>1, UsersFinite, FS_EmptySet
    <2>3. p.refs[e] # 0
      BY <2>2 DEF Counted
    <2>4. p.refs[e] \in Nat
      BY <1>1
    <2> QED  BY <2>3, <2>4
  <1>3. ASSUME q.refs = [p.refs EXCEPT ![e] = @ - 1], NEW f \in Entry
        PROVE  q.refs[f] = Cardinality(Users(bs, f))
    <2>1. p.refs[f] = Cardinality(Users(as, f)) /\ f # NoEntry
      BY EntryAssumption DEF Counted
    <2>2. CASE f = e
      <3>1. Users(bs, f) = Users(as, f) \ {n} /\ n \in Users(as, f)
        BY <2>1, <2>2 DEF Users
      <3>2. Cardinality(Users(bs, f)) = Cardinality(Users(as, f)) - 1
        BY <3>1, UsersFinite, FS_RemoveElement
      <3> QED  BY <1>1, <1>3, <2>1, <2>2, <3>2
    <2>3. CASE f # e
      <3>1. Users(bs, f) = Users(as, f)
        BY <2>1, <2>3 DEF Users
      <3> QED  BY <1>1, <1>3, <2>1, <2>3, <3>1
    <2> QED  BY <2>2, <2>3
  <1> QED  BY <1>2, <1>3 DEF Counted

(* The deferred release of whatever the attempt leases.                    *)
LEMMA PoolAfterSound ==
    ASSUME PoolSound(pool), Counted(pool, att), att \in [Attempt -> AttemptType],
           NEW n \in Attempt, NEW a, NEW x, a.entry = att[n].entry, x.entry = NoEntry
    PROVE  PoolSound(PoolAfter(a)) /\ Counted(PoolAfter(a), [att EXCEPT ![n] = x])
  <1>1. CASE a.entry = NoEntry
    <2>1. \A m \in Attempt : [att EXCEPT ![n] = x][m].entry = att[m].entry
      BY <1>1
    <2> QED  BY <1>1, <2>1, SameTransport DEF PoolAfter
  <1>2. CASE a.entry # NoEntry
    <2> DEFINE e == a.entry
               q == Release(pool, e)
    <2>1. e \in Entry
      BY <1>2 DEF AttemptType
    <2>2. pool.refs[e] > 0
      BY <2>1, TransportGivenBack
    <2>3. PoolSound(q) /\ q.refs = [pool.refs EXCEPT ![e] = @ - 1]
      BY <2>1, <2>2, ReleaseSound
    <2> HIDE DEF q
    <2>4. Counted(q, [att EXCEPT ![n] = x])
      BY <2>1, <2>3, TransportGivenBack
    <2> QED  BY <1>2, <2>3, <2>4 DEF PoolAfter, q
  <1> QED  BY <1>1, <1>2

-----------------------------------------------------------------------------
(* What a step has to show.                                                *)

(* The steps NoEarlyTimeout and BlameMatchesVerdict allow.                 *)
Timely(c, d) ==
    (c.stopped = Running /\ d.stopped \in TimeoutReason) => c.expired /\ c.timerReason = d.stopped

Blamed(a, b, down) ==
    (a.report = "leased" /\ b.report # "leased" /\ a.started /\ ~down) =>
        /\ IsHealthFailure(b.report) =>
               b.control.result \in {NoVerdict, Verdict(b.control.result.reason, b.report)}
        /\ IsHealthFailure(b.control.result.class) =>
               b.report \in {b.control.result.class, "neutral"}

AttemptsFair ==
    \A n \in Attempt :
        Timely(att[n].control, att'[n].control) /\ Blamed(att[n], att'[n], shutdown)

StepSound == GatewayInv' /\ AttemptsFair

LEMMA StillFair ==
    ASSUME NEW a
    PROVE  /\ Timely(a.control, a.control)
           /\ \A b, down : b.report = a.report => Blamed(a, b, down)
  BY DEF Timely, Blamed, TimeoutReason, Running

(* An attempt the step does not touch.                                     *)
LEMMA Bystander ==
    ASSUME NEW m, NEW a, NEW r, NEW s, NEW left, NEW down, AttemptSound(m, a, r, left, down),
           a.owner # "executor", ~(s.pc \in Executing /\ m = CurrentOf(s)),
           a.owner = "captured" <=> s.pc \in Waiting /\ m = s.last,
           Unused(m, s) => a.owner = "nobody", s.pc # "finish" \/ Unread(a, left)
                                                \/ a.owner # "captured"
    PROVE  AttemptSound(m, a, s, left, down)
  BY DEF AttemptSound

LEMMA OneAttemptMoves ==
    ASSUME GatewayInv, NEW n \in Attempt, NEW x, att' = [att EXCEPT ![n] = x],
           UNCHANGED Environment, RequestSound(req', canceled),
           AttemptSound(n, x, req', canceled, shutdown),
           \A m \in Attempt \ {n} : AttemptSound(m, att[m], req', canceled, shutdown),
           PoolSound(pool'), Counted(pool', att'),
           Timely(att[n].control, x.control), Blamed(att[n], x, shutdown)
    PROVE  StepSound
  <1>1. EnvironmentSound' /\ canceled' = canceled /\ shutdown' = shutdown
    BY DEF GatewayInv, EnvironmentSound, Environment
  <1>2. att \in [Attempt -> AttemptType] /\ x \in AttemptType
    BY DEF GatewayInv, AttemptSound
  <1>3. att' \in [Attempt -> AttemptType]
    BY <1>2
  <1>4. ASSUME NEW m \in Attempt
        PROVE  /\ AttemptSound(m, att'[m], req', canceled, shutdown)
               /\ Timely(att[m].control, att'[m].control) /\ Blamed(att[m], att'[m], shutdown)
    <2>1. CASE m = n
      BY <1>2, <2>1
    <2>2. CASE m # n
      <3>1. att'[m] = att[m] /\ m \in Attempt \ {n}
        BY <1>2, <2>2
      <3> QED  BY <3>1, StillFair
    <2> QED  BY <2>1, <2>2
  <1>5. GatewayInv'
    <2>1. \A m \in Attempt : AttemptSound(m, att[m], req, canceled, shutdown)'
      BY <1>1, <1>4
    <2> QED  BY <1>1, <1>3, <2>1 DEF GatewayInv
  <1> QED  BY <1>4, <1>5 DEF StepSound, AttemptsFair

(* The attempt the executor works on.                                      *)
LEMMA CurrentSound ==
    ASSUME GatewayInv, req.pc \in Executing
    PROVE  /\ Current \in Attempt /\ Current = CurrentOf(req)
           /\ att[Current] \in AttemptType /\ att[Current].owner = "executor"
           /\ att[Current].events = 0
           /\ ExecutorSound(att[Current], req, canceled, shutdown)
  <1>1. RequestSound(req, canceled)
    BY DEF GatewayInv
  <1>2. Current = CurrentOf(req)
    BY DEF Current, CurrentOf, Before
  <1>3. Current \in Attempt
    <2>1. req.used \in 0..MaxAttempts
      BY <1>1 DEF RequestSound, RequestType
    <2>2. CASE req.pc \in Before
      BY <1>1, <1>2, <2>1, <2>2, GatewayAssumption DEF RequestSound, CurrentOf, Attempt
    <2>3. CASE req.pc \notin Before
      BY <1>1, <1>2, <2>1, <2>3, GatewayAssumption DEF RequestSound, CurrentOf, Attempt
    <2> QED  BY <2>2, <2>3
  <1>4. AttemptSound(Current, att[Current], req, canceled, shutdown)
    BY <1>3 DEF GatewayInv
  <1> QED  BY <1>2, <1>3, <1>4 DEF AttemptSound

(* Beside the executor's attempt, only error bodies are read.              *)
LEMMA OthersRest ==
    ASSUME GatewayInv, req.pc \in Executing \ {"leased"}, NEW s,
           \/ s.pc \in Executing \ {"leased"} /\ CurrentOf(s) = Current
           \/ s.pc = "done"
           \/ s.pc = "loop" /\ s.last = Current /\ s.used = Current
    PROVE  \A m \in Attempt \ {Current} : AttemptSound(m, att[m], s, canceled, shutdown)
  <1> SUFFICES ASSUME NEW m \in Attempt \ {Current}
               PROVE  AttemptSound(m, att[m], s, canceled, shutdown)
    OBVIOUS
  <1>1. AttemptSound(m, att[m], req, canceled, shutdown)
    BY DEF GatewayInv
  <1>2. Current = CurrentOf(req)
    BY CurrentSound
  <1>3. req.pc \notin Waiting
    BY DEF Waiting, Executing, Before, Calling, Copying, Buffering
  <1>4. att[m].owner \notin {"executor", "captured"}
    BY <1>1, <1>2, <1>3 DEF AttemptSound
  <1>5. ~(s.pc \in Executing /\ m = CurrentOf(s)) /\ ~(s.pc \in Waiting /\ m = s.last)
    BY DEF Waiting, Executing, Before, Calling, Copying, Buffering
  <1>6. Unused(m, s) => Unused(m, req)
    BY <1>2 DEF Unused, CurrentOf, Before, Executing, Calling, Copying, Buffering
  <1> QED  BY <1>1, <1>4, <1>5, <1>6, Bystander DEF AttemptSound

(* The executor goes on with its attempt.                                  *)
LEMMA ExecutorMoves ==
    ASSUME GatewayInv, req.pc \in Executing \ {"leased"}, NEW x \in AttemptType,
           att' = [att EXCEPT ![Current] = x], UNCHANGED Environment, pool' = pool,
           x.owner = "executor", x.events = 0, x.entry = att[Current].entry,
           x.report = att[Current].report, Timely(att[Current].control, x.control),
           RequestSound(req', canceled),
           req'.pc \in Executing \ {"leased"}, CurrentOf(req') = Current,
           ExecutorSound(x, req', canceled, shutdown)
    PROVE  StepSound
  <1>1. Current \in Attempt
    BY CurrentSound
  <1>2. \A m \in Attempt \ {Current} : AttemptSound(m, att[m], req', canceled, shutdown)
    BY OthersRest
  <1>3. AttemptSound(Current, x, req', canceled, shutdown)
    <2>1. ~Unused(Current, req')
      BY <1>1, GatewayAssumption DEF Unused, Attempt
    <2> QED  BY <2>1 DEF AttemptSound, Waiting, Executing, Before, Calling, Copying, Buffering
  <1>4. PoolSound(pool') /\ Counted(pool', att')
    <2>1. \A m \in Attempt : att'[m].entry = att[m].entry
      BY <1>1 DEF GatewayInv
    <2> QED  BY <2>1, SameTransport DEF GatewayInv
  <1>5. Blamed(att[Current], x, shutdown)
    BY DEF Blamed
  <1> QED  BY <1>1, <1>2, <1>3, <1>4, <1>5, OneAttemptMoves

LEMMA ReturnSound ==
    ASSUME NEW answer \in {"none", "error", "response"}, Return(answer), answer = "none" => canceled
    PROVE  RequestSound(req', canceled) /\ req'.pc = "done"
  <1>1. req' = [pc |-> "done", revision |-> 0, stream |-> FALSE, used |-> 0, last |-> 0,
                answer |-> answer, capture |-> "none"]
    BY DEF Return, NewRequest
  <1>2. req' \in RequestType
    BY <1>1, GatewayAssumption DEF RequestType, Location
  <1>3. /\ req'.pc = "done" /\ req'.revision = 0 /\ req'.used = 0 /\ req'.last = 0
        /\ req'.answer = answer
    BY <1>1
  <1>4. 0 <= Len(ActiveKeys)
    BY GatewayAssumption
  <1> QED  BY <1>2, <1>3, <1>4 DEF RequestSound, Calling, Before, Copying, Buffering, Executing

(* An attempt that is over.                                                *)
Over(a, leaked) ==
    [Released(a) EXCEPT !.owner = "nobody", !.open = leaked, !.status = "error", !.key = ""]

LEMMA OverSound ==
    ASSUME NEW a \in AttemptType, NEW leaked \in SUBSET {"body", "execution", "captured"},
           a.report # "leased", ~a.pending, a.started => a.events = 1
    PROVE  /\ Over(a, leaked) \in AttemptType /\ Over(a, leaked).owner = "nobody"
           /\ NobodySound(Over(a, leaked)) /\ Over(a, leaked).entry = NoEntry
           /\ Over(a, leaked).control.stopped = Running
           /\ Over(a, leaked).control.result = a.control.result
           /\ Over(a, leaked).report = a.report
  <1> DEFINE d == CloseControl(a.control)
             b == Over(a, leaked)
  <1>1. /\ d \in ControlType /\ d.finished /\ d.stopped = Running /\ d.result = a.control.result
    BY CloseControlIdle DEF AttemptType
  <1>2. b = [a EXCEPT !.control = d, !.entry = NoEntry, !.owner = "nobody", !.open = leaked,
                      !.status = "error", !.key = ""]
    BY DEF Over, Released
  <1> HIDE DEF d, b
  <1>3. /\ b \in AttemptType /\ b.owner = "nobody" /\ b.control = d /\ b.entry = NoEntry
        /\ b.open = leaked /\ b.report = a.report /\ b.pending = a.pending
        /\ b.started = a.started /\ b.events = a.events
    BY <1>1, <1>2 DEF AttemptType
  <1> QED  BY <1>1, <1>3 DEF NobodySound, Nothing, b

(* The executor ends its attempt and the request with it.                  *)
LEMMA RequestEnds ==
    ASSUME GatewayInv, req.pc \in Executing \ {"leased"}, NEW a \in AttemptType,
           NEW leaked \in SUBSET {"body", "execution", "captured"},
           NEW answer \in {"none", "error", "response"},
           EndAttempt(Current, a, leaked), Return(answer), UNCHANGED Environment,
           answer = "none" => canceled, a.entry = att[Current].entry,
           a.report # "leased", ~a.pending, a.started => a.events = 1,
           Blamed(att[Current], a, shutdown)
    PROVE  StepSound
  <1> DEFINE x == Over(a, leaked)
  <1>1. Current \in Attempt
    BY CurrentSound
  <1>2. /\ x \in AttemptType /\ x.owner = "nobody" /\ NobodySound(x) /\ x.entry = NoEntry
        /\ x.control.stopped = Running /\ x.control.result = a.control.result
        /\ x.report = a.report
    BY OverSound
  <1>3. att' = [att EXCEPT ![Current] = x] /\ pool' = PoolAfter(a)
    BY DEF EndAttempt, Over
  <1> HIDE DEF x
  <1>4. RequestSound(req', canceled) /\ req'.pc = "done"
    BY ReturnSound
  <1>5. \A m \in Attempt \ {Current} : AttemptSound(m, att[m], req', canceled, shutdown)
    BY <1>4, OthersRest
  <1>6. AttemptSound(Current, x, req', canceled, shutdown)
    BY <1>2, <1>4 DEF AttemptSound, Unused, Waiting, Executing, Before, Calling, Copying, Buffering
  <1>7. PoolSound(pool') /\ Counted(pool', att')
    BY <1>1, <1>2, <1>3, PoolAfterSound DEF GatewayInv
  <1>8. Timely(att[Current].control, x.control) /\ Blamed(att[Current], x, shutdown)
    BY <1>2 DEF Timely, Blamed, TimeoutReason, Running
  <1> QED  BY <1>1, <1>3, <1>4, <1>5, <1>6, <1>7, <1>8, OneAttemptMoves

-----------------------------------------------------------------------------
(* The executor's ends.                                                    *)

LEMMA RecordKeeps ==
    ASSUME NEW a \in AttemptType, a.events = 0
    PROVE  LET b == Record(a)
           IN  /\ b \in AttemptType /\ b.events = 1 /\ b.report = a.report
               /\ b.control = a.control /\ b.entry = a.entry /\ b.pending = a.pending
               /\ b.started = a.started /\ b.owner = a.owner /\ b.open = a.open
  <1> DEFINE b == Record(a)
  <1>1. b = [a EXCEPT !.events = 1]
    BY DEF Record
  <1>2. 1 \in 0..1
    OBVIOUS
  <1> HIDE DEF b
  <1>3. /\ b \in AttemptType /\ b.events = 1 /\ b.report = a.report
        /\ b.control = a.control /\ b.entry = a.entry /\ b.pending = a.pending
        /\ b.started = a.started /\ b.owner = a.owner /\ b.open = a.open
    BY <1>1, <1>2 DEF AttemptType
  <1> QED  BY <1>3 DEF b

LEMMA ReportKeeps ==
    ASSUME NEW a \in AttemptType, NEW class \in FailureClass
    PROVE  LET b == Report(a, class)
           IN  /\ b \in AttemptType /\ b.report = class /\ b.events = a.events
               /\ b.control = a.control /\ b.entry = a.entry /\ b.pending = a.pending
               /\ b.started = a.started /\ b.owner = a.owner /\ b.open = a.open
               /\ b.status = a.status /\ class # "leased"
  BY ZenonT(40) DEF AttemptType, Report, FailureClass

LEMMA ReportedEnd ==
    ASSUME NEW a \in AttemptType, a.events = 0, NEW class \in FailureClass
    PROVE  LET b == Record(Report(a, class))
           IN  /\ b \in AttemptType /\ b.report = class /\ b.events = 1 /\ b.report # "leased"
               /\ b.control = a.control /\ b.entry = a.entry /\ b.pending = a.pending
               /\ b.started = a.started
  BY RecordKeeps, ReportKeeps

(* A provider is not blamed for a class that is no failure of its health.  *)
LEMMA HarmlessReport ==
    ASSUME NEW a, NEW b, NEW down, ~IsHealthFailure(b.report),
           \/ b.report = "neutral"
           \/ (a.started /\ ~down) => ~IsHealthFailure(b.control.result.class)
    PROVE  Blamed(a, b, down)
  BY DEF Blamed

LEMMA Harmless ==
    /\ ~IsHealthFailure("neutral") /\ ~IsHealthFailure("client_canceled")
    /\ ~IsHealthFailure("downstream") /\ ~IsHealthFailure("none")
  BY DEF IsHealthFailure, ShouldFailover

(* An attempt nothing but a cancellation or the shutdown has stopped.      *)
LEMMA ClaimedHarmless ==
    ASSUME NEW c \in ControlType, Claimed(c), Interrupted(c), NEW down,
           c.stopped = "shutdown" => down, ~down
    PROVE  /\ c.result = NoVerdict \/ (c.stopped = "client_canceled" /\ c.result.reason = "client_canceled")
           /\ ~IsHealthFailure(c.result.class)
           /\ c.result.reason \notin {"http_error", "stream_interrupted"}
  <1>1. CASE c.stopped = Running
    BY <1>1, NoVerdictTyped, Harmless DEF Claimed
  <1>2. CASE c.stopped = "client_canceled"
    <2>1. c.result = StopVerdict("client_canceled")
      BY <1>2 DEF Claimed, Running
    <2> QED  BY <1>2, <2>1, StopVerdictTyped, Harmless DEF StopReason
  <1> QED  BY <1>1, <1>2 DEF Interrupted

LEMMA TerminalEnds ==
    ASSUME GatewayInv, req.pc \in (Before \ {"leased"}) \cup Calling \cup Buffering,
           TerminalFailure, UNCHANGED Environment
    PROVE  StepSound
  <1> DEFINE a == Record(Report(att[Current], "neutral"))
  <1>1. req.pc \in Executing \ {"leased"}
    BY DEF Executing, Calling, Buffering
  <1>2. /\ att[Current] \in AttemptType /\ att[Current].events = 0 /\ ~att[Current].pending
    BY <1>1, CurrentSound DEF ExecutorSound
  <1>3. /\ a \in AttemptType /\ a.report = "neutral" /\ a.events = 1
        /\ a.control = att[Current].control /\ a.entry = att[Current].entry
        /\ a.pending = att[Current].pending
    BY <1>2, ReportedEnd DEF FailureClass
  <1>4. EndAttempt(Current, a, {}) /\ Return("error")
    BY DEF TerminalFailure
  <1> HIDE DEF a
  <1>5. Blamed(att[Current], a, shutdown)
    BY <1>3, HarmlessReport, Harmless
  <1>6. ~a.pending /\ a.report # "leased"
    BY <1>2, <1>3
  <1> QED  BY <1>1, <1>3, <1>4, <1>5, <1>6, RequestEnds

LEMMA CancelEnds ==
    ASSUME GatewayInv, req.pc \in (Before \ {"leased"}) \cup Calling \cup Buffering,
           NEW leaked \in SUBSET {"body", "execution", "captured"},
           CancelAttempt(leaked), UNCHANGED Environment, canceled,
           att[Current].started /\ ~shutdown => ~IsHealthFailure(att[Current].control.result.class)
    PROVE  StepSound
  <1> DEFINE b == Report(att[Current], "client_canceled")
             a == CancelReported(Current, att[Current])
  <1>1. req.pc \in Executing \ {"leased"}
    BY DEF Executing, Calling, Buffering
  <1>2. /\ att[Current] \in AttemptType /\ att[Current].events = 0 /\ ~att[Current].pending
    BY <1>1, CurrentSound DEF ExecutorSound
  <1>3. /\ b \in AttemptType /\ b.report = "client_canceled" /\ b.events = 0
        /\ b.control = att[Current].control /\ b.entry = att[Current].entry
        /\ b.pending = att[Current].pending /\ b.started = att[Current].started
    BY <1>2, ReportKeeps DEF FailureClass
  <1>4. a = IF att[Current].started \/ Current > 1 THEN Record(b) ELSE b
    BY DEF CancelReported
  <1>5. EndAttempt(Current, a, leaked) /\ Return("none")
    BY DEF CancelAttempt
  <1> HIDE DEF a, b
  <1>6. /\ a \in AttemptType /\ a.report = "client_canceled" /\ a.control = att[Current].control
        /\ a.entry = att[Current].entry /\ a.pending = att[Current].pending
        /\ a.started => a.events = 1
    <2>1. CASE att[Current].started \/ Current > 1
      BY <1>3, <1>4, <2>1, RecordKeeps
    <2>2. CASE ~(att[Current].started \/ Current > 1)
      BY <1>3, <1>4, <2>2
    <2> QED  BY <2>1, <2>2
  <1>7. Blamed(att[Current], a, shutdown)
    BY <1>6, HarmlessReport, Harmless
  <1>8. ~a.pending /\ a.report # "leased"
    BY <1>2, <1>6
  <1> QED  BY <1>1, <1>5, <1>6, <1>7, <1>8, RequestEnds

(* The executor reports a class and ends its attempt.                      *)
LEMMA ReportEnds ==
    ASSUME GatewayInv, req.pc \in Buffering, NEW class \in FailureClass,
           NEW answer \in {"none", "error", "response"}, answer = "none" => canceled,
           EndAttempt(Current, Record(Report(att[Current], class)), {}), Return(answer),
           UNCHANGED Environment,
           LET v == att[Current].control.result
           IN  ~shutdown => /\ IsHealthFailure(class) => v \in {NoVerdict, Verdict(v.reason, class)}
                            /\ IsHealthFailure(v.class) => class \in {v.class, "neutral"}
    PROVE  StepSound
  <1> DEFINE a == Record(Report(att[Current], class))
  <1>1. req.pc \in Executing \ {"leased"}
    BY DEF Executing, Buffering
  <1>2. /\ att[Current] \in AttemptType /\ att[Current].events = 0 /\ ~att[Current].pending
    BY <1>1, CurrentSound DEF ExecutorSound
  <1>3. /\ a \in AttemptType /\ a.report = class /\ a.events = 1 /\ a.report # "leased"
        /\ a.control = att[Current].control /\ a.entry = att[Current].entry
        /\ a.pending = att[Current].pending
    BY <1>2, ReportedEnd
  <1> HIDE DEF a
  <1>4. Blamed(att[Current], a, shutdown)
    BY <1>3 DEF Blamed
  <1>5. ~a.pending /\ a.report # "leased"
    BY <1>2, <1>3
  <1> QED  BY <1>1, <1>3, <1>4, <1>5, RequestEnds DEF a

(* The copy is over, with the verdict the control block holds.             *)
LEMMA CopyEnds ==
    ASSUME GatewayInv, req.pc \in Copying, NEW d \in ControlType,
           NEW ended, ended = (IF req.last # 0 THEN [[att[Current] EXCEPT !.control = d] EXCEPT !.pending = FALSE]
                               ELSE Report([att[Current] EXCEPT !.control = d], d.result.class)),
           EndAttempt(Current, Record(ended), {}), Return(req.answer),
           UNCHANGED Environment, req.answer = "none" => canceled
    PROVE  StepSound
  <1> DEFINE b == [att[Current] EXCEPT !.control = d]
             a == Record(ended)
  <1>1. req.pc \in Executing \ {"leased"}
    BY DEF Executing, Copying
  <1>2. /\ att[Current] \in AttemptType /\ att[Current].events = 0
        /\ req.last = 0 => ~att[Current].pending
        /\ req.last # 0 => att[Current].report # "leased"
    BY <1>1, CurrentSound DEF ExecutorSound
  <1>3. /\ b \in AttemptType /\ b.events = 0 /\ b.control = d /\ b.entry = att[Current].entry
        /\ b.pending = att[Current].pending /\ b.report = att[Current].report
    BY <1>2 DEF AttemptType
  <1>4. d.result \in VerdictType /\ d.result.class \in FailureClass
        /\ d.result = Verdict(d.result.reason, d.result.class)
    BY DEF ControlType, VerdictType, Verdict
  <1> HIDE DEF b
  <1>5. /\ ended \in AttemptType /\ ended.events = 0 /\ ended.control = d
        /\ ended.entry = att[Current].entry /\ ~ended.pending /\ ended.report # "leased"
        /\ ended.report = IF req.last # 0 THEN att[Current].report ELSE d.result.class
    <2>1. CASE req.last # 0
      <3>1. ended = [b EXCEPT !.pending = FALSE]
        BY <2>1 DEF b
      <3> QED  BY <1>2, <1>3, <2>1, <3>1, ZenonT(40) DEF AttemptType
    <2>2. CASE req.last = 0
      <3>1. ended = Report(b, d.result.class)
        BY <2>2 DEF b
      <3> QED  BY <1>2, <1>3, <1>4, <2>2, <3>1, ReportKeeps
    <2> QED  BY <2>1, <2>2
  <1>6. /\ a \in AttemptType /\ a.events = 1 /\ a.control = d /\ a.entry = att[Current].entry
        /\ ~a.pending /\ a.report # "leased" /\ a.report = ended.report
    BY <1>5, RecordKeeps
  <1> HIDE DEF a
  <1>7. Blamed(att[Current], a, shutdown)
    BY <1>2, <1>4, <1>5, <1>6 DEF Blamed
  <1>8. req.answer \in {"none", "error", "response"}
    BY DEF GatewayInv, RequestSound, RequestType
  <1> QED  BY <1>1, <1>6, <1>7, <1>8, RequestEnds DEF a

-----------------------------------------------------------------------------
(* The timer, the hooks and everybody else.                                *)

LEMMA AttemptsMove ==
    ASSUME GatewayInv, EnvironmentSound', RequestSound(req', canceled'),
           DOMAIN att' = Attempt, att' = [m \in Attempt |-> att'[m]],
           PoolSound(pool'), pool'.refs = pool.refs,
           \A m \in Attempt :
               /\ AttemptSound(m, att'[m], req', canceled', shutdown')
               /\ att'[m].entry = att[m].entry
               /\ Timely(att[m].control, att'[m].control) /\ Blamed(att[m], att'[m], shutdown)
    PROVE  StepSound
  <1>1. att' \in [Attempt -> AttemptType]
    BY DEF AttemptSound
  <1>2. Counted(pool', att')
    BY SameTransport DEF GatewayInv
  <1>3. \A m \in Attempt : AttemptSound(m, att[m], req, canceled, shutdown)'
    OBVIOUS
  <1> QED  BY <1>1, <1>2, <1>3 DEF StepSound, AttemptsFair, GatewayInv

LEMMA AttemptsStay ==
    ASSUME GatewayInv, att' = att, EnvironmentSound', RequestSound(req', canceled'),
           PoolSound(pool'), pool'.refs = pool.refs,
           \A m \in Attempt : AttemptSound(m, att[m], req', canceled', shutdown')
    PROVE  StepSound
  <1>1. DOMAIN att' = Attempt /\ att' = [m \in Attempt |-> att'[m]]
    BY DEF GatewayInv
  <1>2. ASSUME NEW m \in Attempt
        PROVE  /\ AttemptSound(m, att'[m], req', canceled', shutdown')
               /\ att'[m].entry = att[m].entry
               /\ Timely(att[m].control, att'[m].control) /\ Blamed(att[m], att'[m], shutdown)
    BY StillFair
  <1> QED  BY <1>1, <1>2, AttemptsMove

LEMMA DeparturesKeep ==
    ASSUME NEW m, NEW a, NEW r, NEW left \in BOOLEAN, NEW down \in BOOLEAN,
           NEW left2 \in BOOLEAN, NEW down2 \in BOOLEAN,
           left => left2, down => down2, AttemptSound(m, a, r, left, down)
    PROVE  AttemptSound(m, a, r, left2, down2)
  <1>1. Hooked(a.control, left) => Hooked(a.control, left2)
    BY DEF Hooked
  <1>2. Unread(a, left) => Unread(a, left2)
    BY <1>1 DEF Unread
  <1>3. VerdictSound(a, r, left, down) => VerdictSound(a, r, left2, down2)
    BY DEF VerdictSound
  <1>4. ExecutorSound(a, r, left, down) => ExecutorSound(a, r, left2, down2)
    BY <1>1, <1>2, <1>3 DEF ExecutorSound
  <1>5. CapturedSound(a, left) => CapturedSound(a, left2)
    BY <1>2 DEF CapturedSound
  <1> QED  BY <1>2, <1>4, <1>5 DEF AttemptSound

LEMMA InterruptFair ==
    ASSUME NEW a \in AttemptType, NEW d, NEW left, NEW down, Interrupts(a.control, d, left, down)
    PROVE  Timely(a.control, d)
  <1>1. a.control \in ControlType
    BY DEF AttemptType
  <1> QED  BY <1>1 DEF Timely, Interrupts, StoppedBy, TimeoutReason, Running

LEMMA ControlStep ==
    ASSUME GatewayInv, NEW n \in Attempt, NEW d, Control(n, d),
           Interrupts(att[n].control, d, canceled, shutdown)
    PROVE  StepSound
  <1> DEFINE x == [att[n] EXCEPT !.control = d]
  <1>1. att' = [att EXCEPT ![n] = x] /\ UNCHANGED Environment /\ pool' = pool /\ req' = req
    BY DEF Control, GatewayInv
  <1>2. /\ AttemptSound(n, att[n], req, canceled, shutdown) /\ att[n] \in AttemptType
        /\ att \in [Attempt -> AttemptType]
    BY DEF GatewayInv
  <1>3. AttemptSound(n, x, req, canceled, shutdown)
    BY <1>2, InterruptSound
  <1>4. d \in ControlType
    BY DEF Interrupts
  <1>5. x.control = d /\ x.report = att[n].report /\ x.entry = att[n].entry
    BY <1>2, <1>4 DEF AttemptType
  <1> HIDE DEF x
  <1>6. Timely(att[n].control, x.control) /\ Blamed(att[n], x, shutdown)
    BY <1>2, <1>5, InterruptFair, StillFair
  <1>7. \A m \in Attempt : att'[m].entry = att[m].entry
    BY <1>1, <1>2, <1>5
  <1>8. PoolSound(pool') /\ Counted(pool', att') /\ RequestSound(req', canceled)
    BY <1>1, <1>7, SameTransport DEF GatewayInv
  <1>9. \A m \in Attempt \ {n} : AttemptSound(m, att[m], req', canceled, shutdown)
    BY <1>1 DEF GatewayInv
  <1> QED  BY <1>1, <1>3, <1>6, <1>8, <1>9, OneAttemptMoves

LEMMA TimerStep ==
    ASSUME GatewayInv, NEW n \in Attempt, Timer(n) \/ Hook(n)
    PROVE  StepSound
  <1> DEFINE c == att[n].control
  <1>1. c \in ControlType
    BY DEF GatewayInv, AttemptType
  <1>2. CASE Expire(n)
    BY <1>1, <1>2, ExpireInterrupts, ControlStep DEF Expire
  <1>3. CASE CallbackLoadsEpoch(n)
    BY <1>1, <1>3, ExpireInterrupts, ControlStep DEF CallbackLoadsEpoch
  <1>4. CASE CallbackRuns(n)
    BY <1>1, <1>4, TimerInterrupts, ControlStep DEF CallbackRuns
  <1>5. CASE ClientHook(n)
    BY <1>1, <1>5, ClientInterrupts, ControlStep DEF ClientHook
  <1>6. CASE ShutdownHook(n)
    BY <1>1, <1>6, ShutdownInterrupts, ControlStep DEF ShutdownHook
  <1> QED  BY <1>2, <1>3, <1>4, <1>5, <1>6 DEF Timer, Hook

LEMMA ReconciledSound ==
    ASSUME GatewayInv, NEW revision \in 1..Len(ActiveKeys), Reconciled(revision)
    PROVE  /\ PoolSound(pool') /\ pool'.refs = pool.refs
           /\ clientRevision' \in 0..Len(ActiveKeys)
  <1>1. ActiveKeys[revision] \in SUBSET Key
    BY GatewayAssumption
  <1>2. PoolSound(pool) /\ clientRevision \in 0..Len(ActiveKeys) /\ Len(ActiveKeys) \in Nat
    BY GatewayAssumption DEF GatewayInv, EnvironmentSound
  <1>3. PoolSound(pool') /\ pool'.refs = pool.refs
    BY <1>1, <1>2, ReconcileSound DEF Reconciled
  <1>4. clientRevision' \in 0..Len(ActiveKeys)
    BY <1>2 DEF Reconciled
  <1> QED  BY <1>3, <1>4

LEMMA EnvironmentStep ==
    ASSUME GatewayInv, CancelClient \/ Publish \/ ReconcileClients \/ Close \/ Closed
    PROVE  StepSound
  <1>1. /\ EnvironmentSound /\ RequestSound(req, canceled) /\ PoolSound(pool)
        /\ \A m \in Attempt : AttemptSound(m, att[m], req, canceled, shutdown)
    BY DEF GatewayInv
  <1>2. Len(ActiveKeys) \in Nat
    BY GatewayAssumption
  <1>3. CASE CancelClient
    <2>1. /\ canceled' = TRUE /\ shutdown' = shutdown /\ req' = req /\ att' = att /\ pool' = pool
          /\ EnvironmentSound'
      BY <1>1, <1>3 DEF CancelClient, EnvironmentSound
    <2>2. RequestSound(req', canceled')
      BY <1>1, <2>1 DEF RequestSound
    <2>3. \A m \in Attempt : AttemptSound(m, att[m], req', canceled', shutdown')
      BY <1>1, <2>1, DeparturesKeep DEF EnvironmentSound
    <2> QED  BY <1>1, <2>1, <2>2, <2>3, AttemptsStay
  <1>4. CASE Publish
    <2>1. /\ canceled' = canceled /\ shutdown' = shutdown /\ req' = req /\ att' = att /\ pool' = pool
          /\ EnvironmentSound'
      BY <1>1, <1>2, <1>4 DEF Publish, EnvironmentSound
    <2> QED  BY <1>1, <2>1, AttemptsStay
  <1>5. CASE ReconcileClients
    <2>1. PICK revision \in (clientRevision + 1)..published : Reconciled(revision)
      BY <1>5 DEF ReconcileClients
    <2>2. revision \in 1..Len(ActiveKeys)
      BY <1>1, <1>2, <2>1 DEF EnvironmentSound
    <2>3. /\ canceled' = canceled /\ shutdown' = shutdown /\ published' = published
          /\ req' = req /\ att' = att
      BY <1>5 DEF ReconcileClients
    <2>4. PoolSound(pool') /\ pool'.refs = pool.refs /\ clientRevision' \in 0..Len(ActiveKeys)
      BY <2>1, <2>2, ReconciledSound
    <2>5. EnvironmentSound'
      BY <1>1, <2>3, <2>4 DEF EnvironmentSound
    <2> QED  BY <1>1, <2>3, <2>4, <2>5, AttemptsStay
  <1>6. CASE Close
    <2>1. /\ canceled' = canceled /\ shutdown' = TRUE /\ req' = req /\ att' = att
          /\ pool' = ClosePool(pool) /\ EnvironmentSound'
      BY <1>1, <1>6 DEF Close, EnvironmentSound
    <2>2. PoolSound(pool') /\ pool'.refs = pool.refs
      BY <1>1, <2>1, ClosePoolSound
    <2>3. \A m \in Attempt : AttemptSound(m, att[m], req', canceled', shutdown')
      BY <1>1, <2>1, DeparturesKeep DEF EnvironmentSound
    <2> QED  BY <1>1, <2>1, <2>2, <2>3, AttemptsStay
  <1>7. CASE Closed
    BY <1>1, <1>7, AttemptsStay DEF Closed, vars, EnvironmentSound
  <1> QED  BY <1>3, <1>4, <1>5, <1>6, <1>7

LEMMA IdleStep ==
    ASSUME GatewayInv, UNCHANGED vars
    PROVE  StepSound
  <1>1. /\ EnvironmentSound /\ RequestSound(req, canceled) /\ PoolSound(pool)
        /\ \A m \in Attempt : AttemptSound(m, att[m], req, canceled, shutdown)
    BY DEF GatewayInv
  <1> QED  BY <1>1, AttemptsStay DEF vars, EnvironmentSound

-----------------------------------------------------------------------------
(* The beginning of a request, and the loop over its attempts.             *)

LEMMA NoAttemptIdle ==
    /\ NoAttempt \in AttemptType /\ NoAttempt.owner = "nobody" /\ NobodySound(NoAttempt)
    /\ NoAttempt.entry = NoEntry /\ NoAttempt.control.stopped = Running
    /\ NoAttempt.report = "unleased" /\ NoAttempt.events = 0
    /\ NoAttempt.control.result = NoVerdict /\ ~NoAttempt.started
  <1> DEFINE d == CloseControl(NewControl)
  <1>1. d \in ControlType /\ d.finished /\ d.stopped = Running /\ d.result = NoVerdict
    BY NewControlRuns, CloseControlIdle
  <1>2. NoAttempt =
            [owner |-> "nobody", report |-> "unleased", started |-> FALSE, events |-> 0,
             pending |-> FALSE, key |-> "", entry |-> NoEntry, open |-> {}, status |-> "error",
             reading |-> FALSE, control |-> d]
    BY DEF NoAttempt
  <1> HIDE DEF d
  <1>3. 0 \in 0..1
    OBVIOUS
  <1>4. NoAttempt \in AttemptType
    BY <1>1, <1>2, <1>3 DEF AttemptType
  <1>5. /\ NoAttempt.owner = "nobody" /\ NoAttempt.control = d /\ NoAttempt.entry = NoEntry
        /\ NoAttempt.report = "unleased" /\ NoAttempt.events = 0 /\ ~NoAttempt.pending
        /\ NoAttempt.open = {} /\ ~NoAttempt.started
    BY <1>2
  <1> QED  BY <1>1, <1>4, <1>5 DEF NobodySound, Nothing

LEMMA NobodyAnywhere ==
    ASSUME NEW n, NEW a \in AttemptType, NEW r, NEW left, NEW down, a.owner = "nobody",
           NobodySound(a), ~(r.pc \in Executing /\ n = CurrentOf(r)), ~(r.pc \in Waiting /\ n = r.last)
    PROVE  AttemptSound(n, a, r, left, down)
  BY DEF AttemptSound

LEMMA InitSound == Init => GatewayInv
  <1> SUFFICES ASSUME Init PROVE GatewayInv
    OBVIOUS
  <1>1. Len(ActiveKeys) \in Nat \ {0} /\ MaxAttempts \in Nat \ {0}
    BY GatewayAssumption
  <1>2. EnvironmentSound
    <2>1. canceled \in BOOLEAN /\ shutdown \in BOOLEAN
      BY DEF Init
    <2>2. published \in 1..Len(ActiveKeys) /\ clientRevision \in 0..Len(ActiveKeys)
      BY <1>1 DEF Init
    <2> QED  BY <2>1, <2>2 DEF EnvironmentSound
  <1>3. req = [pc |-> "idle", revision |-> 0, stream |-> FALSE, used |-> 0, last |-> 0,
               answer |-> "none", capture |-> "none"]
    BY DEF Init, NewRequest
  <1>4. req \in RequestType
    BY <1>1, <1>3 DEF RequestType, Location
  <1>5. req.pc = "idle" /\ req.revision = 0 /\ req.used = 0 /\ req.last = 0
    BY <1>3
  <1>6. RequestSound(req, canceled)
    BY <1>1, <1>4, <1>5 DEF RequestSound, Calling, Before, Copying, Buffering, Executing
  <1>7. att = [n \in Attempt |-> NoAttempt] /\ att \in [Attempt -> AttemptType]
    BY NoAttemptIdle DEF Init
  <1>8. ASSUME NEW n \in Attempt PROVE AttemptSound(n, att[n], req, canceled, shutdown)
    <2>1. req.pc \notin Executing /\ req.pc \notin Waiting
      BY <1>5 DEF Executing, Before, Calling, Copying, Buffering, Waiting
    <2> QED  BY <1>7, <2>1, NoAttemptIdle, NobodyAnywhere
  <1>9. PoolSound(pool)
    <2>1. /\ pool.clients = [k \in Key |-> NoEntry] /\ pool.refs = [e \in Entry |-> 0]
          /\ pool.retired = [e \in Entry |-> TRUE] /\ pool.idleClosed = [e \in Entry |-> TRUE]
      BY DEF Init, NewClientPool
    <2>2. pool \in Pool
      BY DEF Init, NewClientPool, Pool
    <2>3. Pooled(pool) = {}
      BY <2>1 DEF Pooled
    <2> QED  BY <2>1, <2>2, <2>3 DEF PoolSound
  <1>10. Counted(pool, att)
    <2> SUFFICES ASSUME NEW e \in Entry PROVE pool.refs[e] = Cardinality(Users(att, e))
      BY DEF Counted
    <2>1. Users(att, e) = {}
      BY <1>7, NoAttemptIdle, EntryAssumption DEF Users
    <2>2. pool.refs[e] = 0
      BY DEF Init, NewClientPool
    <2> QED  BY <2>1, <2>2, FS_EmptySet
  <1> QED  BY <1>2, <1>6, <1>7, <1>8, <1>9, <1>10 DEF GatewayInv

LEMMA BeginStep ==
    ASSUME GatewayInv, NEW stream \in BOOLEAN, Begin(stream)
    PROVE  StepSound
  <1>1. /\ EnvironmentSound /\ PoolSound(pool) /\ Len(ActiveKeys) \in Nat /\ MaxAttempts \in Nat
        /\ \A m \in Attempt : AttemptSound(m, att[m], req, canceled, shutdown)
    BY GatewayAssumption DEF GatewayInv
  <1>2. EnvironmentSound' /\ pool' = pool
    BY <1>1 DEF Begin, EnvironmentSound
  <1>3. req' = [pc |-> "ingress", revision |-> published, stream |-> stream, used |-> 0,
                last |-> 0, answer |-> "none", capture |-> "none"]
    BY DEF Begin, NewRequest
  <1>4. published \in Nat /\ published >= 1 /\ published <= Len(ActiveKeys)
    BY <1>1 DEF EnvironmentSound
  <1>5. req' \in RequestType
    BY <1>1, <1>3, <1>4 DEF RequestType, Location
  <1>6. req'.pc = "ingress" /\ req'.revision = published /\ req'.used = 0 /\ req'.last = 0
    BY <1>3
  <1>7. RequestSound(req', canceled')
    BY <1>4, <1>5, <1>6 DEF RequestSound, Calling, Before, Copying, Buffering, Executing
  <1>8. att' = [n \in Attempt |-> NoAttempt]
    BY DEF Begin
  <1>9. ASSUME NEW m \in Attempt
        PROVE  /\ AttemptSound(m, att'[m], req', canceled', shutdown')
               /\ att'[m].entry = att[m].entry
               /\ Timely(att[m].control, att'[m].control) /\ Blamed(att[m], att'[m], shutdown)
    <2>1. att'[m] = NoAttempt
      BY <1>8
    <2>2. req'.pc \notin Executing /\ req'.pc \notin Waiting
      BY <1>6 DEF Executing, Before, Calling, Copying, Buffering, Waiting
    <2>3. AttemptSound(m, NoAttempt, req', canceled', shutdown')
      BY <2>2, NoAttemptIdle, NobodyAnywhere
    <2>4. NobodySound(att[m])
      BY <1>1 DEF Begin, AttemptSound
    <2>5. att[m].entry = NoEntry /\ Blamed(att[m], NoAttempt, shutdown)
      BY <2>4 DEF NobodySound, Nothing, Blamed
    <2>6. Timely(att[m].control, NoAttempt.control)
      BY NoAttemptIdle DEF Timely, TimeoutReason, Running
    <2> QED  BY <2>1, <2>3, <2>5, <2>6, NoAttemptIdle
  <1>10. DOMAIN att' = Attempt /\ att' = [m \in Attempt |-> att'[m]]
    BY <1>8
  <1> QED  BY <1>1, <1>2, <1>7, <1>9, <1>10, AttemptsMove

(* Where the executor owns no attempt and has captured none.               *)
LEMMA IngressMoves ==
    ASSUME GatewayInv, req.pc = "ingress", att' = att, RequestSound(req', canceled),
           canceled' = canceled, shutdown' = shutdown, EnvironmentSound',
           PoolSound(pool'), pool'.refs = pool.refs,
           req'.pc = "done" \/ (req'.pc = "loop" /\ req'.last = 0)
    PROVE  StepSound
  <1>1. ASSUME NEW m \in Attempt PROVE AttemptSound(m, att[m], req', canceled', shutdown')
    <2>1. AttemptSound(m, att[m], req, canceled, shutdown)
      BY DEF GatewayInv
    <2>2. att[m].owner = "nobody"
      <3>1. req.used = 0
        BY DEF GatewayInv, RequestSound
      <3>2. Unused(m, req)
        BY <3>1 DEF Unused, CurrentOf, Before, Attempt
      <3> QED  BY <2>1, <3>2 DEF AttemptSound
    <2>3. req'.pc \notin Executing /\ ~(req'.pc \in Waiting /\ m = req'.last)
      BY DEF Executing, Before, Calling, Copying, Buffering, Waiting, Attempt
    <2> QED  BY <2>1, <2>2, <2>3, Bystander
  <1> QED  BY <1>1, AttemptsStay

LEMMA GotoKeeps ==
    ASSUME req \in RequestType, NEW pc \in Location, Goto(pc)
    PROVE  /\ req' \in RequestType /\ req'.pc = pc /\ req'.revision = req.revision
           /\ req'.used = req.used /\ req'.last = req.last /\ req'.answer = req.answer
           /\ req'.capture = req.capture
  BY DEF Goto, RequestType

LEMMA GotoWithKeeps ==
    ASSUME req \in RequestType, NEW pc \in Location, NEW f \in {"stream", "last", "used", "answer", "capture"},
           NEW v, f = "stream" => v \in BOOLEAN, f \in {"last", "used"} => v \in 0..MaxAttempts,
           f = "answer" => v \in {"none", "error", "response"},
           f = "capture" => v \in {"none", "ok", "stopped", "failed", "local", "scan"},
           GotoWith(pc, f, v)
    PROVE  /\ req' \in RequestType /\ req'.pc = pc /\ req'.revision = req.revision
           /\ req'.used = (IF f = "used" THEN v ELSE req.used)
           /\ req'.last = (IF f = "last" THEN v ELSE req.last)
           /\ req'.answer = (IF f = "answer" THEN v ELSE req.answer)
           /\ req'.capture = (IF f = "capture" THEN v ELSE req.capture)
  <1>1. CASE f = "stream"
    <2>1. req' = [req EXCEPT !.pc = pc, !["stream"] = v]
      BY <1>1 DEF GotoWith
    <2> QED  BY <1>1, <2>1 DEF RequestType
  <1>2. CASE f = "last"
    <2>1. req' = [req EXCEPT !.pc = pc, !["last"] = v]
      BY <1>2 DEF GotoWith
    <2> QED  BY <1>2, <2>1 DEF RequestType
  <1>3. CASE f = "used"
    <2>1. req' = [req EXCEPT !.pc = pc, !["used"] = v]
      BY <1>3 DEF GotoWith
    <2> QED  BY <1>3, <2>1 DEF RequestType
  <1>4. CASE f = "answer"
    <2>1. req' = [req EXCEPT !.pc = pc, !["answer"] = v]
      BY <1>4 DEF GotoWith
    <2> QED  BY <1>4, <2>1 DEF RequestType
  <1>5. CASE f = "capture"
    <2>1. req' = [req EXCEPT !.pc = pc, !["capture"] = v]
      BY <1>5 DEF GotoWith
    <2> QED  BY <1>5, <2>1 DEF RequestType
  <1> QED  BY <1>1, <1>2, <1>3, <1>4, <1>5

LEMMA IngressStep ==
    ASSUME GatewayInv, RejectIngress \/ Ingress
    PROVE  StepSound
  <1>1. /\ EnvironmentSound /\ RequestSound(req, canceled) /\ PoolSound(pool)
        /\ req \in RequestType /\ Len(ActiveKeys) \in Nat
    BY GatewayAssumption DEF GatewayInv, RequestSound
  <1>2. req.pc = "ingress" /\ att' = att /\ canceled' = canceled /\ shutdown' = shutdown
        /\ published' = published
    BY DEF RejectIngress, Ingress, At, Environment
  <1>3. req.revision \in 1..Len(ActiveKeys) /\ req.last = 0 /\ req.used = 0
    BY <1>1, <1>2 DEF RequestSound, RequestType
  <1>4. \/ Return("error") \/ (canceled /\ Return("none")) \/ Goto("loop")
    BY DEF RejectIngress, Ingress
  <1>5. RequestSound(req', canceled) /\ (req'.pc = "done" \/ (req'.pc = "loop" /\ req'.last = 0))
    <2>1. CASE Return("error")
      BY <2>1, ReturnSound
    <2>2. CASE canceled /\ Return("none")
      BY <2>2, ReturnSound
    <2>3. CASE Goto("loop")
      <3>1. /\ req' \in RequestType /\ req'.pc = "loop" /\ req'.revision = req.revision
            /\ req'.used = req.used /\ req'.last = req.last
        BY <1>1, <2>3, GotoKeeps DEF Location
      <3> QED  BY <1>1, <1>3, <3>1 DEF RequestSound, Calling, Before, Copying, Buffering, Executing
    <2> QED  BY <1>4, <2>1, <2>2, <2>3
  <1>6. CASE RejectIngress
    <2>1. pool' = pool /\ EnvironmentSound'
      BY <1>1, <1>6 DEF RejectIngress, EnvironmentSound, Environment
    <2> QED  BY <1>1, <1>2, <1>5, <2>1, IngressMoves
  <1>7. CASE Ingress
    <2>1. PoolSound(pool') /\ pool'.refs = pool.refs /\ clientRevision' \in 0..Len(ActiveKeys)
      BY <1>3, <1>7, ReconciledSound DEF Ingress
    <2>2. EnvironmentSound'
      BY <1>1, <1>2, <2>1 DEF EnvironmentSound
    <2> QED  BY <1>2, <1>5, <2>1, <2>2, IngressMoves
  <1> QED  BY <1>6, <1>7

LEMMA ForgetKeeps ==
    ASSUME NEW a \in AttemptType
    PROVE  LET b == Forget(a)
           IN  /\ b \in AttemptType /\ b.report = "reported" /\ b.events = a.events
               /\ b.entry = a.entry /\ b.pending = a.pending /\ b.started = a.started
               /\ b.owner = a.owner /\ b.open = a.open /\ b.reading = a.reading
               /\ b.control \in ControlType /\ b.control.result = NoVerdict
               /\ b.control.stopped = a.control.stopped /\ b.control.finished = a.control.finished
               /\ b.control.streaming = a.control.streaming
               /\ b.control.clientHook = a.control.clientHook
               /\ b.control.background = a.control.background
               /\ b.control.armed = a.control.armed
               /\ b.control.timerReason = a.control.timerReason
  <1> DEFINE d == [a.control EXCEPT !.result = NoVerdict]
             b == Forget(a)
  <1>1. NoVerdict \in [reason: EndReason \cup {""}, class: FailureClass]
    BY NoVerdictTyped DEF VerdictType
  <1>2. a.control \in ControlType
    BY DEF AttemptType
  <1>3. /\ d \in ControlType /\ d.result = NoVerdict
        /\ d.stopped = a.control.stopped /\ d.finished = a.control.finished
        /\ d.streaming = a.control.streaming /\ d.clientHook = a.control.clientHook
        /\ d.background = a.control.background /\ d.armed = a.control.armed
        /\ d.timerReason = a.control.timerReason
    BY <1>1, <1>2 DEF ControlType
  <1>4. b = [a EXCEPT !.report = "reported", !.control = d, !.status = "error", !.key = ""]
    BY DEF Forget, AttemptType
  <1> HIDE DEF d, b
  <1>5. /\ b \in AttemptType /\ b.report = "reported" /\ b.events = a.events
        /\ b.entry = a.entry /\ b.pending = a.pending /\ b.started = a.started
        /\ b.owner = a.owner /\ b.open = a.open /\ b.reading = a.reading /\ b.control = d
    BY <1>3, <1>4 DEF AttemptType
  <1> QED  BY <1>3, <1>5 DEF b

(* An unread body goes to a reader of its own.                             *)
LEMMA BackgroundStarts ==
    ASSUME NEW a \in AttemptType, ~a.control.streaming, a.control.stopped \in {Running, "shutdown"}
    PROVE  LET b == BackgroundFailure(a)
           IN  /\ b \in AttemptType /\ b.owner = "background" /\ BackgroundSound(b)
               /\ b.events = a.events /\ b.report = a.report /\ b.entry = a.entry
               /\ b.control.stopped = a.control.stopped /\ b.control.result = a.control.result
  <1> DEFINE d == ReadBackground(a.control)
             b == BackgroundFailure(a)
  <1>1. a.control \in ControlType
    BY DEF AttemptType
  <1>2. /\ d \in ControlType /\ ~d.clientHook /\ d.background
        /\ d.armed /\ d.timerReason = "error_body_timeout"
        /\ d.stopped = a.control.stopped /\ d.result = a.control.result
        /\ d.streaming = a.control.streaming
    BY <1>1, ReadBackgroundDetaches
  <1>3. b = [a EXCEPT !.owner = "background", !.control = d]
    BY DEF BackgroundFailure
  <1> HIDE DEF d, b
  <1>4. /\ b \in AttemptType /\ b.owner = "background" /\ b.control = d
        /\ b.events = a.events /\ b.report = a.report /\ b.entry = a.entry
    BY <1>2, <1>3 DEF AttemptType
  <1>5. BackgroundSound(b)
    BY <1>2, <1>4 DEF BackgroundSound, Running
  <1> QED  BY <1>2, <1>4, <1>5 DEF b

LEMMA BackgroundAnywhere ==
    ASSUME NEW n, NEW a \in AttemptType, NEW r, NEW left, NEW down, a.owner = "background",
           a.events = 0, BackgroundSound(a), ~Unused(n, r),
           ~(r.pc \in Executing /\ n = CurrentOf(r)), ~(r.pc \in Waiting /\ n = r.last)
    PROVE  AttemptSound(n, a, r, left, down)
  BY DEF AttemptSound

(* A captured failure that nobody answers with.                            *)
LEMMA RecordCapturedSound ==
    ASSUME NEW n, NEW a, NEW r, NEW s, NEW left, NEW down, AttemptSound(n, a, r, left, down),
           a.owner = "captured", ~Unused(n, s),
           ~(s.pc \in Executing /\ n = CurrentOf(s)), ~(s.pc \in Waiting /\ n = s.last)
    PROVE  LET b == RecordCaptured(a)
           IN  /\ AttemptSound(n, b, s, left, down) /\ b.entry = a.entry
               /\ Timely(a.control, b.control) /\ Blamed(a, b, down)
               /\ b \in AttemptType
  <1> DEFINE f == Forget(a)
             b == RecordCaptured(a)
  <1>1. /\ a \in AttemptType /\ a.events = 0 /\ CapturedSound(a, left) /\ a.report # "leased"
    BY DEF AttemptSound, CapturedSound
  <1>2. /\ f \in AttemptType /\ f.report = "reported" /\ f.events = a.events
        /\ f.entry = a.entry /\ f.pending = a.pending /\ f.started = a.started
        /\ f.open = a.open
        /\ f.control.stopped = a.control.stopped /\ f.control.finished = a.control.finished
        /\ f.control.streaming = a.control.streaming
    BY <1>1, ForgetKeeps
  <1> HIDE DEF f
  <1>3. CASE "response" \in a.open
    <2>1. Unread(a, left)
      BY <1>1, <1>3 DEF CapturedSound, Nothing
    <2>2. b = BackgroundFailure(f)
      BY <1>3 DEF RecordCaptured, f
    <2>3. /\ b \in AttemptType /\ b.owner = "background" /\ BackgroundSound(b)
          /\ b.events = f.events /\ b.report = f.report /\ b.entry = f.entry
          /\ b.control.stopped = f.control.stopped
      BY <1>2, <2>1, <2>2, BackgroundStarts DEF Unread
    <2> HIDE DEF b
    <2>4. AttemptSound(n, b, s, left, down)
      BY <1>1, <1>2, <2>3, BackgroundAnywhere
    <2>5. Timely(a.control, b.control) /\ Blamed(a, b, down)
      BY <1>1, <1>2, <2>3 DEF Timely, Blamed, TimeoutReason, Running
    <2> QED  BY <1>2, <2>3, <2>4, <2>5 DEF b
  <1>4. CASE "response" \notin a.open
    <2>1. Nothing(a)
      BY <1>1, <1>4 DEF CapturedSound, Unread
    <2> DEFINE g == Record(f)
    <2>2. /\ g \in AttemptType /\ g.events = 1 /\ g.report = f.report
          /\ g.control = f.control /\ g.entry = f.entry /\ g.pending = f.pending /\ g.open = f.open
      BY <1>1, <1>2, RecordKeeps
    <2>3. b = [g EXCEPT !.owner = "nobody"]
      BY <1>4 DEF RecordCaptured, f
    <2> HIDE DEF b, g
    <2>4. /\ b \in AttemptType /\ b.owner = "nobody" /\ b.events = 1 /\ b.report = g.report
          /\ b.control = g.control /\ b.entry = g.entry /\ b.pending = g.pending /\ b.open = g.open
      BY <2>2, <2>3 DEF AttemptType
    <2>5. NobodySound(b)
      BY <1>2, <2>1, <2>2, <2>4 DEF NobodySound, Nothing
    <2>6. AttemptSound(n, b, s, left, down)
      BY <2>4, <2>5, NobodyAnywhere
    <2>7. Timely(a.control, b.control) /\ Blamed(a, b, down)
      BY <1>1, <1>2, <2>2, <2>4 DEF Timely, Blamed, TimeoutReason, Running
    <2> QED  BY <1>2, <2>2, <2>4, <2>6, <2>7 DEF b
  <1> QED  BY <1>3, <1>4

(* The attempts after the captured failure was given up, if there is one.  *)
LEMMA CapturedSettles ==
    ASSUME GatewayInv, req.pc \in Waiting, NEW n \in Attempt, NEW s,
           ~(req.pc = "leased" /\ n = CurrentOf(req)),
           ~(s.pc \in Executing /\ n = CurrentOf(s)), s.pc \notin Waiting,
           Unused(n, s) => Unused(n, req)
    PROVE  /\ AttemptSound(n, Captured(n), s, canceled, shutdown)
           /\ Captured(n).entry = att[n].entry
           /\ Timely(att[n].control, Captured(n).control)
           /\ Blamed(att[n], Captured(n), shutdown)
  <1>1. AttemptSound(n, att[n], req, canceled, shutdown)
    BY DEF GatewayInv
  <1>2. CASE n = req.last
    <2>1. att[n].owner = "captured"
      BY <1>1, <1>2 DEF AttemptSound
    <2>2. ~Unused(n, s)
      BY <1>1, <2>1 DEF AttemptSound
    <2> QED  BY <1>1, <1>2, <2>1, <2>2, RecordCapturedSound DEF Captured
  <1>3. CASE n # req.last
    <2>1. att[n].owner \notin {"captured", "executor"}
      BY <1>1, <1>3 DEF AttemptSound, Waiting, Executing, Before, Calling, Copying, Buffering
    <2>2. AttemptSound(n, att[n], s, canceled, shutdown)
      BY <1>1, <2>1, Bystander DEF AttemptSound
    <2> QED  BY <1>3, <2>2, StillFair DEF Captured
  <1> QED  BY <1>2, <1>3

LEMMA LoopEnds ==
    ASSUME GatewayInv, req.pc = "loop", att' = [n \in Attempt |-> Captured(n)],
           pool' = pool, UNCHANGED Environment, RequestSound(req', canceled), req'.pc = "done"
    PROVE  StepSound
  <1>1. EnvironmentSound' /\ canceled' = canceled /\ shutdown' = shutdown
    BY DEF GatewayInv, EnvironmentSound, Environment
  <1>2. req.pc \in Waiting /\ req'.pc \notin Executing /\ req'.pc \notin Waiting
    BY DEF Waiting, Executing, Before, Calling, Copying, Buffering
  <1>3. ASSUME NEW m \in Attempt
        PROVE  /\ AttemptSound(m, att'[m], req', canceled', shutdown')
               /\ att'[m].entry = att[m].entry
               /\ Timely(att[m].control, att'[m].control) /\ Blamed(att[m], att'[m], shutdown)
    <2>1. att'[m] = Captured(m)
      OBVIOUS
    <2>2. /\ AttemptSound(m, Captured(m), req', canceled, shutdown)
          /\ Captured(m).entry = att[m].entry
          /\ Timely(att[m].control, Captured(m).control)
          /\ Blamed(att[m], Captured(m), shutdown)
      BY <1>2, CapturedSettles DEF Unused
    <2> QED  BY <1>1, <2>1, <2>2
  <1>4. DOMAIN att' = Attempt /\ att' = [m \in Attempt |-> att'[m]]
    OBVIOUS
  <1>5. PoolSound(pool') /\ pool'.refs = pool.refs
    BY DEF GatewayInv
  <1> QED  BY <1>1, <1>3, <1>4, <1>5, AttemptsMove

LEMMA RequestTyped ==
    ASSUME GatewayInv
    PROVE  /\ RequestSound(req, canceled) /\ req \in RequestType /\ req.pc \in Location
           /\ req.used \in 0..MaxAttempts /\ req.last \in 0..MaxAttempts /\ req.revision \in Nat
           /\ MaxAttempts \in Nat \ {0} /\ Len(ActiveKeys) \in Nat
  BY GatewayAssumption DEF GatewayInv, RequestSound, RequestType

LEMMA LoopStep ==
    ASSUME GatewayInv, BetweenAttemptsCanceled \/ NoMoreAttempts
    PROVE  StepSound
  <1>1. req.pc = "loop" /\ UNCHANGED Environment
    BY DEF BetweenAttemptsCanceled, NoMoreAttempts, At
  <1>2. CASE BetweenAttemptsCanceled
    <2>1. Return("none") /\ canceled /\ pool' = pool /\ att' = [n \in Attempt |-> Captured(n)]
      BY <1>2 DEF BetweenAttemptsCanceled
    <2>2. RequestSound(req', canceled) /\ req'.pc = "done"
      BY <2>1, ReturnSound
    <2> QED  BY <1>1, <2>1, <2>2, LoopEnds
  <1>3. CASE NoMoreAttempts /\ req.last # 0 /\ "response" \in att[req.last].open
    <2>1. GotoWith("finish", "stream", FALSE) /\ att' = att /\ pool' = pool
      BY <1>3 DEF NoMoreAttempts, FinishCapturedFailure
    <2>2. /\ req' \in RequestType /\ req'.pc = "finish" /\ req'.revision = req.revision
          /\ req'.used = req.used /\ req'.last = req.last
      BY <2>1, RequestTyped, GotoWithKeeps, ZenonT(40) DEF Location
    <2>3. RequestSound(req', canceled)
      BY <1>1, <1>3, <2>2, RequestTyped DEF RequestSound, Before, Calling, Copying, Buffering, Executing
    <2>4. EnvironmentSound' /\ canceled' = canceled /\ shutdown' = shutdown
      BY <1>1 DEF GatewayInv, EnvironmentSound, Environment
    <2>5. ASSUME NEW m \in Attempt PROVE AttemptSound(m, att[m], req', canceled, shutdown)
      <3>1. AttemptSound(m, att[m], req, canceled, shutdown)
        BY DEF GatewayInv
      <3>2. att[m].owner # "executor" /\ req'.pc \notin Executing
        BY <1>1, <2>2, <3>1 DEF AttemptSound, Executing, Before, Calling, Copying, Buffering
      <3>3. att[m].owner = "captured" <=> req'.pc \in Waiting /\ m = req'.last
        BY <1>1, <2>2, <3>1 DEF AttemptSound, Waiting
      <3>4. Unused(m, req') => att[m].owner = "nobody"
        BY <1>1, <2>2, <3>1 DEF AttemptSound, Unused, CurrentOf, Before
      <3>5. att[m].owner = "captured" => Unread(att[m], canceled)
        BY <1>3, <2>2, <3>1, <3>3 DEF AttemptSound, CapturedSound, Nothing
      <3> QED  BY <3>1, <3>2, <3>3, <3>4, <3>5, Bystander
    <2>6. PoolSound(pool') /\ pool'.refs = pool.refs
      BY <2>1 DEF GatewayInv
    <2> QED  BY <2>1, <2>3, <2>4, <2>5, <2>6, AttemptsStay
  <1>4. CASE NoMoreAttempts /\ ~(req.last # 0 /\ "response" \in att[req.last].open)
    <2>1. Return("error") /\ pool' = pool /\ att' = [n \in Attempt |-> Captured(n)]
      BY <1>4 DEF NoMoreAttempts, FinishCapturedFailure
    <2>2. RequestSound(req', canceled) /\ req'.pc = "done"
      BY <2>1, ReturnSound
    <2> QED  BY <1>1, <2>1, <2>2, LoopEnds
  <1> QED  BY <1>2, <1>3, <1>4

LEMMA NewLeaseSound ==
    ASSUME NEW k \in Key
    PROVE  LET x == NewLease(k)
           IN  /\ x \in AttemptType /\ x.owner = "executor" /\ x.report = "leased" /\ x.key = k
               /\ x.events = 0 /\ ~x.started /\ ~x.pending /\ x.open = {} /\ x.entry = NoEntry
               /\ x.control.finished /\ x.control.stopped = Running
  <1> DEFINE x == NewLease(k)
  <1>1. /\ NoAttempt \in AttemptType /\ NoAttempt.events = 0 /\ ~NoAttempt.started
        /\ NoAttempt.entry = NoEntry /\ NoAttempt.control.stopped = Running
        /\ NoAttempt.control.finished /\ ~NoAttempt.pending
    BY NoAttemptIdle DEF NobodySound, Nothing
  <1>2. NoAttempt.open = {}
    BY DEF NoAttempt
  <1>3. x = [NoAttempt EXCEPT !.owner = "executor", !.report = "leased", !.key = k]
    BY DEF NewLease
  <1> HIDE DEF x
  <1>4. /\ x \in AttemptType /\ x.owner = "executor" /\ x.report = "leased" /\ x.key = k
        /\ x.events = NoAttempt.events /\ x.started = NoAttempt.started
        /\ x.pending = NoAttempt.pending /\ x.open = NoAttempt.open
        /\ x.entry = NoAttempt.entry /\ x.control = NoAttempt.control
    BY <1>1, <1>3 DEF AttemptType
  <1> QED  BY <1>1, <1>2, <1>4 DEF x

LEMMA AcquireStep ==
    ASSUME GatewayInv, NEW k \in Key, Acquire(k)
    PROVE  StepSound
  <1> DEFINE n == req.used + 1
             x == NewLease(k)
  <1>1. /\ req.pc = "loop" /\ req.used < MaxAttempts /\ UNCHANGED Environment /\ pool' = pool
        /\ att' = [att EXCEPT ![n] = x] /\ Goto("leased")
    BY DEF Acquire, At, HasBudget
  <1>2. /\ req' \in RequestType /\ req'.pc = "leased" /\ req'.revision = req.revision
        /\ req'.used = req.used /\ req'.last = req.last
    BY <1>1, RequestTyped, GotoKeeps DEF Location
  <1>3. req.last = req.used /\ req.revision >= 1
    BY <1>1, RequestTyped DEF RequestSound
  <1>4. RequestSound(req', canceled)
    BY <1>1, <1>2, <1>3, RequestTyped DEF RequestSound, Before, Calling, Copying, Buffering, Executing
  <1>5. /\ n \in Attempt /\ n # req.last /\ CurrentOf(req') = n /\ CurrentOf(req) = req.used
    BY <1>1, <1>2, <1>3, RequestTyped DEF Attempt, CurrentOf, Before
  <1>6. AttemptSound(n, att[n], req, canceled, shutdown) /\ Unused(n, req)
    BY <1>1, <1>5, RequestTyped DEF GatewayInv, Unused
  <1>7. NobodySound(att[n]) /\ att[n].entry = NoEntry /\ att[n].report # "leased"
    BY <1>6 DEF AttemptSound, NobodySound, Nothing
  <1>8. /\ x \in AttemptType /\ x.owner = "executor" /\ x.report = "leased" /\ x.key = k
        /\ x.events = 0 /\ ~x.started /\ ~x.pending /\ x.open = {} /\ x.entry = NoEntry
        /\ x.control.finished /\ x.control.stopped = Running
    BY NewLeaseSound
  <1> HIDE DEF x, n
  <1>9. AttemptSound(n, x, req', canceled, shutdown)
    <2>1. VerdictSound(x, req', canceled, shutdown)
      BY <1>2, <1>8 DEF VerdictSound, Buffering, Running
    <2>2. ExecutorSound(x, req', canceled, shutdown)
      BY <1>2, <1>8, <2>1 DEF ExecutorSound, Before, Calling, Buffering, Copying
    <2>3. n \in Int /\ ~Unused(n, req')
      BY <1>5 DEF Unused, Attempt
    <2>4. req'.pc \in Executing
      BY <1>2 DEF Executing, Before
    <2> QED  BY <1>2, <1>5, <1>8, <2>2, <2>3, <2>4 DEF AttemptSound
  <1>10. ASSUME NEW m \in Attempt \ {n} PROVE AttemptSound(m, att[m], req', canceled, shutdown)
    <2>1. AttemptSound(m, att[m], req, canceled, shutdown)
      BY DEF GatewayInv
    <2>2. att[m].owner # "executor"
      BY <1>1, <2>1 DEF AttemptSound, Executing, Before, Calling, Copying, Buffering
    <2>3. att[m].owner = "captured" <=> req'.pc \in Waiting /\ m = req'.last
      BY <1>1, <1>2, <2>1 DEF AttemptSound, Waiting
    <2>4. Unused(m, req') => Unused(m, req)
      BY <1>1, <1>2, <1>5, RequestTyped DEF Unused, CurrentOf, Attempt, Before
    <2> QED  BY <1>2, <1>5, <2>1, <2>2, <2>3, <2>4, Bystander DEF AttemptSound
  <1>11. PoolSound(pool') /\ Counted(pool', att')
    <2>1. \A m \in Attempt : att'[m].entry = att[m].entry
      BY <1>1, <1>5, <1>7, <1>8 DEF GatewayInv
    <2> QED  BY <1>1, <2>1, SameTransport DEF GatewayInv
  <1>12. Timely(att[n].control, x.control) /\ Blamed(att[n], x, shutdown)
    BY <1>7, <1>8 DEF Timely, Blamed, TimeoutReason, Running
  <1> QED  BY <1>1, <1>4, <1>5, <1>9, <1>10, <1>11, <1>12, OneAttemptMoves

LEMMA LeasedStep ==
    ASSUME GatewayInv, LeaseCanceled \/ Continue
    PROVE  StepSound
  <1> DEFINE n == Current
  <1>1. /\ req.pc = "leased" /\ UNCHANGED Environment /\ pool' = pool
        /\ req.pc \in Executing /\ req.pc \in Waiting
    BY DEF LeaseCanceled, Continue, At, Executing, Before, Waiting
  <1>2. EnvironmentSound' /\ canceled' = canceled /\ shutdown' = shutdown
    BY <1>1 DEF GatewayInv, EnvironmentSound, Environment
  <1>3. /\ n \in Attempt /\ n = CurrentOf(req) /\ n = req.used + 1 /\ n # req.last
        /\ req.last = req.used
    BY <1>1, CurrentSound, RequestTyped DEF RequestSound, CurrentOf, Before
  <1>4. /\ att[n] \in AttemptType /\ att[n].events = 0 /\ att[n].owner = "executor"
        /\ ExecutorSound(att[n], req, canceled, shutdown)
    BY <1>1, CurrentSound
  <1>5. /\ ~att[n].started /\ att[n].control.finished /\ ~att[n].pending
        /\ "response" \notin att[n].open /\ att[n].entry = NoEntry /\ att[n].key \in Key
    BY <1>1, <1>4 DEF ExecutorSound, Before
  <1>6. PoolSound(pool') /\ pool'.refs = pool.refs
    BY <1>1 DEF GatewayInv
  <1> HIDE DEF n
  <1>7. CASE LeaseCanceled
    <2> DEFINE x == [CancelReported(n, att[n]) EXCEPT !.owner = "nobody"]
    <2>1. /\ canceled /\ Return("none")
          /\ att' = [[m \in Attempt |-> Captured(m)] EXCEPT ![n] = x]
      BY <1>7 DEF LeaseCanceled, n
    <2>2. RequestSound(req', canceled) /\ req'.pc = "done"
      BY <2>1, ReturnSound
    <2>3. req'.pc \notin Executing /\ req'.pc \notin Waiting /\ \A m : ~Unused(m, req')
      BY <2>2 DEF Executing, Before, Calling, Copying, Buffering, Waiting, Unused
    <2>4. /\ x \in AttemptType /\ x.owner = "nobody" /\ x.report = "client_canceled"
          /\ x.started = att[n].started /\ x.control = att[n].control
          /\ x.pending = att[n].pending /\ x.open = att[n].open /\ x.entry = att[n].entry
      <3> DEFINE b == Report(att[n], "client_canceled")
                 c == CancelReported(n, att[n])
      <3>1. /\ b \in AttemptType /\ b.report = "client_canceled" /\ b.events = 0
            /\ b.control = att[n].control /\ b.entry = att[n].entry /\ b.open = att[n].open
            /\ b.pending = att[n].pending /\ b.started = att[n].started
        BY <1>4, ReportKeeps DEF FailureClass
      <3>2. c = IF att[n].started \/ n > 1 THEN Record(b) ELSE b
        BY DEF CancelReported
      <3> HIDE DEF b, c
      <3>3. /\ c \in AttemptType /\ c.report = "client_canceled"
            /\ c.control = att[n].control /\ c.entry = att[n].entry /\ c.open = att[n].open
            /\ c.pending = att[n].pending /\ c.started = att[n].started
        BY <3>1, <3>2, RecordKeeps
      <3>4. x = [c EXCEPT !.owner = "nobody"]
        BY DEF c
      <3> HIDE DEF x
      <3> QED  BY <3>3, <3>4 DEF AttemptType
    <2> HIDE DEF x
    <2>5. AttemptSound(n, x, req', canceled, shutdown)
      BY <1>5, <2>3, <2>4, NobodyAnywhere DEF NobodySound, Nothing
    <2>6. Timely(att[n].control, x.control) /\ Blamed(att[n], x, shutdown)
      BY <1>5, <2>4 DEF Timely, Blamed, TimeoutReason, Running
    <2>7. ASSUME NEW m \in Attempt
          PROVE  /\ AttemptSound(m, att'[m], req', canceled', shutdown')
                 /\ att'[m].entry = att[m].entry
                 /\ Timely(att[m].control, att'[m].control) /\ Blamed(att[m], att'[m], shutdown)
      <3>1. CASE m = n
        BY <1>2, <1>3, <2>1, <2>4, <2>5, <2>6, <3>1
      <3>2. CASE m # n
        <4>1. att'[m] = Captured(m)
          BY <2>1, <3>2
        <4>2. /\ AttemptSound(m, Captured(m), req', canceled, shutdown)
              /\ Captured(m).entry = att[m].entry
              /\ Timely(att[m].control, Captured(m).control)
              /\ Blamed(att[m], Captured(m), shutdown)
          BY <1>1, <1>3, <2>3, <3>2, CapturedSettles
        <4> QED  BY <1>2, <4>1, <4>2
      <3> QED  BY <3>1, <3>2
    <2>8. DOMAIN att' = Attempt /\ att' = [m \in Attempt |-> att'[m]]
      BY <2>1
    <2> QED  BY <1>2, <1>6, <2>2, <2>7, <2>8, AttemptsMove
  <1>8. CASE Continue
    <2>1. att' = [m \in Attempt |-> Captured(m)] /\ GotoWith("prepare", "last", 0)
      BY <1>8 DEF Continue
    <2>2. /\ req' \in RequestType /\ req'.pc = "prepare" /\ req'.revision = req.revision
          /\ req'.used = req.used /\ req'.last = 0
      BY <2>1, RequestTyped, GotoWithKeeps DEF Location
    <2>3. RequestSound(req', canceled)
      BY <1>1, <2>2, RequestTyped DEF RequestSound, Before, Calling, Copying, Buffering, Executing
    <2>4. /\ CurrentOf(req') = n /\ req'.pc \in Executing /\ req'.pc \notin Waiting
          /\ \A m \in Attempt : Unused(m, req') => Unused(m, req)
      BY <1>1, <1>3, <2>2 DEF CurrentOf, Before, Executing, Waiting, Unused
    <2>5. ExecutorSound(att[n], req', canceled, shutdown)
      <3>1. VerdictSound(att[n], req', canceled, shutdown)
        BY <1>4, <2>2 DEF ExecutorSound, VerdictSound, Buffering
      <3> QED  BY <1>5, <2>2, <3>1 DEF ExecutorSound, Before, Calling, Buffering, Copying
    <2>6. AttemptSound(n, att[n], req', canceled, shutdown)
      <3>1. n \in Int /\ ~Unused(n, req')
        BY <1>3, <2>4 DEF Unused, Attempt
      <3> QED  BY <1>4, <2>4, <2>5, <3>1 DEF AttemptSound
    <2>7. ASSUME NEW m \in Attempt
          PROVE  /\ AttemptSound(m, att'[m], req', canceled', shutdown')
                 /\ att'[m].entry = att[m].entry
                 /\ Timely(att[m].control, att'[m].control) /\ Blamed(att[m], att'[m], shutdown)
      <3>1. att'[m] = Captured(m)
        BY <2>1
      <3>2. CASE m = n
        <4>1. Captured(m) = att[m]
          BY <1>3, <3>2 DEF Captured
        <4> QED  BY <1>2, <2>6, <3>1, <3>2, <4>1, StillFair
      <3>3. CASE m # n
        <4>1. /\ AttemptSound(m, Captured(m), req', canceled, shutdown)
              /\ Captured(m).entry = att[m].entry
              /\ Timely(att[m].control, Captured(m).control)
              /\ Blamed(att[m], Captured(m), shutdown)
          BY <1>1, <1>3, <2>4, <3>3, CapturedSettles
        <4> QED  BY <1>2, <3>1, <4>1
      <3> QED  BY <3>2, <3>3
    <2>8. DOMAIN att' = Attempt /\ att' = [m \in Attempt |-> att'[m]]
      BY <2>1
    <2> QED  BY <1>2, <1>6, <2>3, <2>7, <2>8, AttemptsMove
  <1> QED  BY <1>7, <1>8

-----------------------------------------------------------------------------
(* One attempt, up to the answer of the provider.                          *)

LEMMA OpenKeeps ==
    ASSUME NEW a \in AttemptType, NEW S \in SUBSET {"body", "execution", "response", "captured"}
    PROVE  LET b == [a EXCEPT !.open = S]
           IN  /\ b \in AttemptType /\ b.open = S /\ b.report = a.report /\ b.events = a.events
               /\ b.control = a.control /\ b.entry = a.entry /\ b.pending = a.pending
               /\ b.started = a.started /\ b.owner = a.owner /\ b.status = a.status /\ b.key = a.key
  BY DEF AttemptType

LEMMA ControlKeeps ==
    ASSUME NEW a \in AttemptType, NEW d \in ControlType
    PROVE  LET b == [a EXCEPT !.control = d]
           IN  /\ b \in AttemptType /\ b.open = a.open /\ b.report = a.report /\ b.events = a.events
               /\ b.control = d /\ b.entry = a.entry /\ b.pending = a.pending
               /\ b.started = a.started /\ b.owner = a.owner /\ b.status = a.status /\ b.key = a.key
  BY DEF AttemptType

LEMMA PrepareStep ==
    ASSUME GatewayInv, Prepare
    PROVE  StepSound
  <1> DEFINE n == Current
             x == [att[n] EXCEPT !.open = {"body", "execution"}]
  <1>1. /\ req.pc = "prepare" /\ UNCHANGED Environment
        /\ req.pc \in Before \ {"leased"} /\ req.pc \in Executing \ {"leased"}
    BY DEF Prepare, At, Before, Executing
  <1>2. /\ n \in Attempt /\ att[n] \in AttemptType /\ att[n].owner = "executor"
        /\ att[n].events = 0 /\ n = CurrentOf(req)
        /\ ExecutorSound(att[n], req, canceled, shutdown) /\ ~att[n].started
    BY <1>1, CurrentSound DEF ExecutorSound
  <1>3. CASE canceled /\ CancelAttempt({})
    BY <1>1, <1>2, <1>3, CancelEnds
  <1>4. CASE TerminalFailure
    BY <1>1, <1>4, TerminalEnds
  <1>5. CASE /\ att' = [att EXCEPT ![n].open = {"body", "execution"}]
             /\ Goto("client") /\ pool' = pool
    <2>1. att' = [att EXCEPT ![n] = x]
      BY <1>5
    <2>2. /\ x \in AttemptType /\ x.open = {"body", "execution"} /\ x.report = att[n].report
          /\ x.events = 0 /\ x.control = att[n].control /\ x.entry = att[n].entry
          /\ x.pending = att[n].pending /\ x.started = att[n].started /\ x.owner = "executor"
          /\ x.key = att[n].key
      BY <1>2, OpenKeeps, ZenonT(40)
    <2> HIDE DEF x, n
    <2>3. /\ req' \in RequestType /\ req'.pc = "client" /\ req'.revision = req.revision
          /\ req'.used = req.used /\ req'.last = req.last
      BY <1>5, RequestTyped, GotoKeeps DEF Location
    <2>4. RequestSound(req', canceled)
      BY <1>1, <2>3, RequestTyped DEF RequestSound, Before, Calling, Copying, Buffering, Executing
    <2>5. req'.pc \in Executing \ {"leased"} /\ CurrentOf(req') = n
      BY <1>1, <1>2, <2>3 DEF CurrentOf, Executing, Before
    <2>6. VerdictSound(x, req', canceled, shutdown)
      BY <1>2, <2>2, <2>3 DEF ExecutorSound, VerdictSound, Buffering
    <2>7. ExecutorSound(x, req', canceled, shutdown)
      BY <1>1, <1>2, <2>2, <2>3, <2>6 DEF ExecutorSound, Before, Calling, Buffering, Copying
    <2>8. Timely(att[n].control, x.control)
      BY <2>2, StillFair
    <2> QED  BY <1>1, <1>2, <1>5, <2>1, <2>2, <2>4, <2>5, <2>7, <2>8, ExecutorMoves DEF n
  <1> QED  BY <1>3, <1>4, <1>5 DEF Prepare

LEMMA AcquireClientStep ==
    ASSUME GatewayInv, AcquireClient
    PROVE  StepSound
  <1> DEFINE n == Current
             k == att[n].key
             e == LeasedEntry(pool, k)
             x == [att[n] EXCEPT !.entry = e]
  <1>1. /\ req.pc = "client" /\ UNCHANGED Environment
        /\ req.pc \in Before \ {"leased"} /\ req.pc \in Executing \ {"leased"}
    BY DEF AcquireClient, At, Before, Executing
  <1>2. /\ n \in Attempt /\ att[n] \in AttemptType /\ att[n].owner = "executor"
        /\ att[n].events = 0 /\ n = CurrentOf(req)
        /\ ExecutorSound(att[n], req, canceled, shutdown)
    BY <1>1, CurrentSound
  <1>3. CASE pool.closed
    BY <1>1, <1>3, TerminalEnds DEF AcquireClient
  <1>4. CASE ~pool.closed
    <2>1. /\ FreeEntries(pool) # {} \/ pool.clients[k] # NoEntry
          /\ att' = [att EXCEPT ![n] = x]
          /\ pool' = AcquireTarget(pool, k) /\ Goto("start")
      BY <1>4 DEF AcquireClient
    <2>2. k \in Key /\ att[n].entry = NoEntry
      BY <1>1, <1>2 DEF ExecutorSound, Before
    <2>3. PoolSound(pool) /\ Counted(pool, att) /\ att \in [Attempt -> AttemptType]
      BY DEF GatewayInv
    <2>4. /\ e \in Entry /\ PoolSound(pool') /\ pool'.refs = [pool.refs EXCEPT ![e] = @ + 1]
      BY <2>1, <2>2, <2>3, AcquireSound
    <2> HIDE DEF e
    <2>5. /\ x \in AttemptType /\ x.open = att[n].open /\ x.report = att[n].report
          /\ x.events = 0 /\ x.control = att[n].control /\ x.entry = e
          /\ x.pending = att[n].pending /\ x.started = att[n].started /\ x.owner = "executor"
          /\ x.key = att[n].key
      BY <1>2, <2>4 DEF AttemptType
    <2> HIDE DEF x, n, k
    <2>6. Counted(pool', att')
      BY <1>2, <2>1, <2>2, <2>3, <2>4, <2>5, TransportLeased, ZenonT(40)
    <2>7. /\ req' \in RequestType /\ req'.pc = "start" /\ req'.revision = req.revision
          /\ req'.used = req.used /\ req'.last = req.last
      BY <2>1, RequestTyped, GotoKeeps DEF Location
    <2>8. RequestSound(req', canceled)
      BY <1>1, <2>7, RequestTyped DEF RequestSound, Before, Calling, Copying, Buffering, Executing
    <2>9. req'.pc \in Executing \ {"leased"} /\ CurrentOf(req') = n /\ req'.pc \notin Waiting
      BY <1>1, <1>2, <2>7 DEF CurrentOf, Executing, Before, Waiting
    <2>10. VerdictSound(x, req', canceled, shutdown)
      BY <1>2, <2>5, <2>7 DEF ExecutorSound, VerdictSound, Buffering
    <2>11. ExecutorSound(x, req', canceled, shutdown)
      BY <1>1, <1>2, <2>5, <2>7, <2>10 DEF ExecutorSound, Before, Calling, Buffering, Copying
    <2>12. AttemptSound(n, x, req', canceled, shutdown)
      <3>1. n \in Int /\ ~Unused(n, req')
        BY <1>2, <2>9 DEF Unused, Attempt
      <3> QED  BY <2>5, <2>9, <2>11, <3>1 DEF AttemptSound
    <2>13. \A m \in Attempt \ {n} : AttemptSound(m, att[m], req', canceled, shutdown)
      BY <1>1, <2>9, OthersRest DEF n
    <2>14. Timely(att[n].control, x.control) /\ Blamed(att[n], x, shutdown)
      BY <2>5, StillFair
    <2> QED  BY <1>1, <1>2, <2>1, <2>4, <2>6, <2>8, <2>12, <2>13, <2>14, OneAttemptMoves
  <1> QED  BY <1>3, <1>4

LEMMA StartStep ==
    ASSUME GatewayInv, Start
    PROVE  StepSound
  <1> DEFINE n == Current
             d == NewUpstreamAttempt(req.stream)
             x == [att[n] EXCEPT !.started = TRUE, !.control = d]
  <1>1. /\ req.pc = "start" /\ UNCHANGED Environment
        /\ req.pc \in Before \ {"leased"} /\ req.pc \in Executing \ {"leased"}
    BY DEF Start, At, Before, Executing
  <1>2. /\ n \in Attempt /\ att[n] \in AttemptType /\ att[n].owner = "executor"
        /\ att[n].events = 0 /\ n = CurrentOf(req)
        /\ ExecutorSound(att[n], req, canceled, shutdown) /\ ~att[n].started /\ ~att[n].pending
    BY <1>1, CurrentSound DEF ExecutorSound
  <1>3. CASE canceled
    BY <1>1, <1>2, <1>3, CancelEnds DEF Start
  <1>4. CASE ~canceled
    <2>1. att' = [att EXCEPT ![n] = x] /\ GotoWith("do", "used", n) /\ pool' = pool
      BY <1>2, <1>4 DEF Start, GatewayInv
    <2>2. /\ d \in ControlType /\ d.stopped = Running /\ ~d.finished
          /\ d.result = NoVerdict /\ d.clientHook /\ ~d.streaming /\ ~d.background
          /\ d.armed => d.timerReason = "response_header_timeout"
      BY NewAttemptRuns, RequestTyped DEF RequestType
    <2> HIDE DEF d
    <2>3. /\ x \in AttemptType /\ x.report = att[n].report
          /\ x.events = 0 /\ x.control = d /\ x.entry = att[n].entry
          /\ x.pending = att[n].pending /\ x.started /\ x.owner = "executor"
      BY <1>2, <2>2 DEF AttemptType
    <2> HIDE DEF x, n
    <2>4. n \in 0..MaxAttempts
      BY <1>2 DEF Attempt
    <2>5. /\ req' \in RequestType /\ req'.pc = "do" /\ req'.revision = req.revision
          /\ req'.used = n /\ req'.last = req.last
      BY <2>1, <2>4, RequestTyped, GotoWithKeeps DEF Location
    <2>6. RequestSound(req', canceled)
      BY <1>1, <1>2, <2>5, RequestTyped
         DEF RequestSound, Before, Calling, Copying, Buffering, Executing, Attempt
    <2>7. req'.pc \in Executing \ {"leased"} /\ CurrentOf(req') = n
      BY <2>5 DEF CurrentOf, Executing, Calling, Before
    <2>8. VerdictSound(x, req', canceled, shutdown)
      BY <2>2, <2>3, <2>5 DEF VerdictSound, Buffering, Claimed, Interrupted, Running
    <2>9. ExecutorSound(x, req', canceled, shutdown)
      BY <1>2, <2>2, <2>3, <2>5, <2>8 DEF ExecutorSound, Before, Calling, Buffering, Copying, Hooked
    <2>10. Timely(att[n].control, x.control)
      BY <2>2, <2>3 DEF Timely, TimeoutReason, Running
    <2> QED  BY <1>1, <1>2, <2>1, <2>3, <2>6, <2>7, <2>9, <2>10, ExecutorMoves DEF n
  <1> QED  BY <1>3, <1>4

LEMMA RespondStep ==
    ASSUME GatewayInv, NEW answer \in Status \cup {"error"}, Respond(answer)
    PROVE  StepSound
  <1> DEFINE n == Current
             c == att[n].control
             d == ReceiveHeaders(c, answer)
             status == IF c.stopped # Running THEN "error" ELSE answer
             open == IF status = "error" THEN att[n].open ELSE att[n].open \cup {"response"}
             x == [att[n] EXCEPT !.status = status, !.control = d, !.open = open]
  <1>1. /\ req.pc = "do" /\ UNCHANGED Environment /\ pool' = pool /\ Goto("answered")
        /\ req.pc \in Executing \ {"leased"}
    BY DEF Respond, At, Executing, Calling
  <1>2. /\ n \in Attempt /\ att[n] \in AttemptType /\ att[n].owner = "executor"
        /\ att[n].events = 0 /\ n = CurrentOf(req)
        /\ ExecutorSound(att[n], req, canceled, shutdown)
    BY <1>1, CurrentSound
  <1>3. att' = [att EXCEPT ![n] = x]
    BY <1>2 DEF Respond
  <1>4. c \in ControlType
    BY <1>2 DEF AttemptType
  <1>5. /\ d \in ControlType /\ ~d.armed
        /\ d.stopped = c.stopped /\ d.finished = c.finished
        /\ d.streaming = c.streaming /\ d.clientHook = c.clientHook
        /\ d.background = c.background
        /\ d.result = IF c.stopped = Running /\ ~IsSuccess(answer) /\ c.result = NoVerdict
                      THEN IF answer \notin Status THEN Verdict("transport_error", "global_transient")
                           ELSE Verdict("http_error", ClassifyHTTPStatus(answer))
                      ELSE c.result
        /\ c.stopped = Running /\ answer \in Status /\ ShouldFailover(ClassifyHTTPStatus(answer))
             => d.detached
    BY <1>4, ReceiveHeadersClaims
  <1> HIDE DEF d
  <1>6. status \in Status \cup {"error"}
    OBVIOUS
  <1>7. open \in SUBSET {"body", "execution", "response", "captured"} /\ (status # "error" => "response" \in open)
    BY <1>2 DEF AttemptType
  <1>8. /\ x \in AttemptType /\ x.report = att[n].report /\ x.status = status /\ x.open = open
        /\ x.events = 0 /\ x.control = d /\ x.entry = att[n].entry
        /\ x.pending = att[n].pending /\ x.owner = "executor"
    <2> HIDE DEF status, open, c
    <2> QED  BY <1>2, <1>5, <1>6, <1>7 DEF AttemptType
  <1>9. /\ Claimed(c) /\ (Interrupted(c) \/ c.stopped = "response_header_timeout")
        /\ c.stopped = "client_canceled" => canceled
        /\ c.stopped = "shutdown" => shutdown
        /\ Hooked(c, canceled) /\ ~c.streaming /\ ~c.finished /\ ~att[n].pending /\ ~c.background
    BY <1>1, <1>2 DEF ExecutorSound, VerdictSound, Before, Calling
  <1> HIDE DEF x, n
  <1>10. /\ req' \in RequestType /\ req'.pc = "answered" /\ req'.revision = req.revision
         /\ req'.used = req.used /\ req'.last = req.last
    BY <1>1, RequestTyped, GotoKeeps DEF Location
  <1>11. RequestSound(req', canceled)
    BY <1>1, <1>10, RequestTyped DEF RequestSound, Before, Calling, Copying, Buffering, Executing
  <1>12. req'.pc \in Executing \ {"leased"} /\ CurrentOf(req') = n
    BY <1>1, <1>2, <1>10 DEF CurrentOf, Executing, Calling, Before
  <1>13. "error" \notin Status /\ ~IsSuccess("error")
    BY DEF Status, IsSuccess
  <1>14. IF status = "error"
         THEN \/ d.result = Verdict("transport_error", "global_transient") /\ Interrupted(d)
              \/ /\ Claimed(d)
                 /\ d.stopped \in {"response_header_timeout", "client_canceled", "shutdown"}
         ELSE IF IsSuccess(status) THEN Claimed(d) /\ Interrupted(d)
         ELSE d.result = Verdict("http_error", ClassifyHTTPStatus(status))
    <2>1. CASE c.stopped # Running
      BY <1>5, <1>9, <2>1 DEF Claimed, Interrupted
    <2>2. CASE c.stopped = Running
      <3>1. c.result = NoVerdict /\ status = answer
        BY <1>9, <2>2 DEF Claimed
      <3>2. Interrupted(d)
        BY <1>5, <2>2 DEF Interrupted
      <3>3. CASE status = "error"
        BY <1>5, <1>13, <2>2, <3>1, <3>2, <3>3
      <3>4. CASE status # "error" /\ IsSuccess(status)
        BY <1>5, <2>2, <3>1, <3>2, <3>4 DEF Claimed
      <3>5. CASE status # "error" /\ ~IsSuccess(status)
        BY <1>5, <1>6, <2>2, <3>1, <3>5
      <3> QED  BY <3>3, <3>4, <3>5
    <2> QED  BY <2>1, <2>2
  <1>15. VerdictSound(x, req', canceled, shutdown)
    BY <1>5, <1>8, <1>9, <1>10, <1>14 DEF VerdictSound, Buffering
  <1>16. ExecutorSound(x, req', canceled, shutdown)
    <2>1. Hooked(d, canceled)
      BY <1>5, <1>9 DEF Hooked
    <2>2. x.status # "error" =>
            /\ "response" \in x.open /\ ~d.armed /\ Hooked(d, canceled)
            /\ ShouldFailover(ClassifyHTTPStatus(x.status)) =>
                  d.detached /\ d.stopped \in {Running, "shutdown"}
      BY <1>5, <1>7, <1>8, <1>9, <2>1
    <2> QED  BY <1>5, <1>8, <1>9, <1>10, <1>15, <2>2 DEF ExecutorSound, Before, Calling, Buffering, Copying
  <1>17. Timely(c, x.control)
    BY <1>5, <1>8 DEF Timely, TimeoutReason, Running
  <1> QED  BY <1>1, <1>3, <1>8, <1>11, <1>12, <1>16, <1>17, ExecutorMoves DEF n

-----------------------------------------------------------------------------
(* One attempt, after the answer of the provider.                          *)

LEMMA AnsweredSound ==
    ASSUME GatewayInv, req.pc = "answered"
    PROVE  LET a == att[Current]
           IN  /\ req.pc \in Executing \ {"leased"} /\ Current \in Attempt /\ Current = CurrentOf(req)
               /\ Current = req.used /\ req.last = 0
               /\ a \in AttemptType /\ a.owner = "executor" /\ a.events = 0
               /\ a.control \in ControlType /\ ExecutorSound(a, req, canceled, shutdown)
               /\ VerdictSound(a, req, canceled, shutdown)
               /\ ~a.pending /\ ~a.control.finished /\ ~a.control.armed
               /\ ~a.control.streaming /\ ~a.control.background
               /\ "error" \notin Status /\ a.status \in Status \cup {"error"}
  <1>1. req.pc \in Executing \ {"leased"}
    BY DEF Executing, Calling
  <1>2. Current = req.used /\ req.last = 0
    BY RequestTyped DEF Current, RequestSound, Calling
  <1>3. VerdictSound(att[Current], req, canceled, shutdown) /\ ~att[Current].pending
        /\ ~att[Current].control.finished /\ ~att[Current].control.streaming
        /\ ~att[Current].control.background
    BY <1>1, CurrentSound DEF ExecutorSound, Before, Calling
  <1>4. ~att[Current].control.armed
    BY <1>3 DEF VerdictSound
  <1> QED  BY <1>1, <1>2, <1>3, <1>4, CurrentSound DEF AttemptType, Status

(* The captured failure of a call that brought no response.                *)
LEMMA CaptureStep ==
    ASSUME GatewayInv, req.pc = "answered", NEW class \in FailureClass, Capture(class),
           UNCHANGED Environment,
           ~shutdown => /\ IsHealthFailure(class) =>
                              att[Current].control.result
                                \in {NoVerdict, Verdict(att[Current].control.result.reason, class)}
                        /\ IsHealthFailure(att[Current].control.result.class) =>
                              class \in {att[Current].control.result.class, "neutral"}
    PROVE  StepSound
  <1> DEFINE n == Current
             a == Report(att[n], class)
             d == CloseControl(att[n].control)
             x == [a EXCEPT !.control = d, !.entry = NoEntry, !.owner = "captured", !.open = {}]
  <1>1. /\ req.pc \in Executing \ {"leased"} /\ n \in Attempt /\ n = req.used
        /\ att[n] \in AttemptType /\ att[n].events = 0 /\ ~att[n].pending
        /\ att[n].control \in ControlType
    BY AnsweredSound
  <1>2. /\ a \in AttemptType /\ a.report = class /\ a.events = 0 /\ a.control = att[n].control
        /\ a.entry = att[n].entry /\ a.pending = att[n].pending /\ class # "leased"
    BY <1>1, ReportKeeps
  <1>3. /\ att' = [att EXCEPT ![n] = x] /\ pool' = PoolAfter(att[n])
        /\ GotoWith("loop", "last", n)
    BY <1>1, <1>2 DEF Capture, Released
  <1>4. d \in ControlType /\ d.finished /\ d.stopped = Running /\ d.result = att[n].control.result
    BY <1>1, CloseControlIdle
  <1> HIDE DEF a, d
  <1>5. /\ x \in AttemptType /\ x.owner = "captured" /\ x.report = class /\ x.events = 0
        /\ x.control = d /\ x.entry = NoEntry /\ x.pending = att[n].pending /\ x.open = {}
    BY <1>2, <1>4 DEF AttemptType
  <1> HIDE DEF x, n
  <1>6. /\ req' \in RequestType /\ req'.pc = "loop" /\ req'.revision = req.revision
        /\ req'.used = req.used /\ req'.last = n
    BY <1>1, <1>3, RequestTyped, GotoWithKeeps DEF Location, Attempt
  <1>7. RequestSound(req', canceled)
    BY <1>1, <1>6, RequestTyped DEF RequestSound, Before, Calling, Copying, Buffering, Executing
  <1>8. \A m \in Attempt \ {n} : AttemptSound(m, att[m], req', canceled, shutdown)
    BY <1>1, <1>6, OthersRest DEF n
  <1>9. AttemptSound(n, x, req', canceled, shutdown)
    <2>1. CapturedSound(x, canceled)
      BY <1>1, <1>2, <1>4, <1>5 DEF CapturedSound, Nothing
    <2>2. n \in Int /\ ~Unused(n, req')
      BY <1>1, <1>6 DEF Unused, CurrentOf, Before, Attempt
    <2>3. req'.pc \in Waiting /\ req'.pc \notin Executing
      BY <1>6 DEF Waiting, Executing, Before, Calling, Copying, Buffering
    <2> QED  BY <1>4, <1>5, <1>6, <2>1, <2>2, <2>3 DEF AttemptSound, Running
  <1>10. PoolSound(pool') /\ Counted(pool', att')
    BY <1>1, <1>3, <1>5, PoolAfterSound DEF GatewayInv
  <1>11. Timely(att[n].control, x.control) /\ Blamed(att[n], x, shutdown)
    BY <1>4, <1>5 DEF Timely, Blamed, TimeoutReason, Running, n
  <1> QED  BY <1>1, <1>3, <1>7, <1>8, <1>9, <1>10, <1>11, OneAttemptMoves

LEMMA CallFailedStep ==
    ASSUME GatewayInv, CallFailed
    PROVE  StepSound
  <1> DEFINE a == att[Current]
             c == a.control
  <1>1. req.pc = "answered" /\ a.status = "error" /\ UNCHANGED Environment
    BY DEF CallFailed, At
  <1>2. c \in ControlType /\ VerdictSound(a, req, canceled, shutdown)
    BY <1>1, AnsweredSound
  <1>3. /\ c.stopped = "client_canceled" => canceled
        /\ c.stopped = "shutdown" => shutdown
        /\ \/ c.result = Verdict("transport_error", "global_transient") /\ Interrupted(c)
           \/ /\ c.result = StopVerdict(c.stopped)
              /\ c.stopped \in {"response_header_timeout", "client_canceled", "shutdown"}
    BY <1>1, <1>2 DEF VerdictSound, Claimed, Running
  <1>4. /\ Verdict("transport_error", "global_transient").reason = "transport_error"
        /\ Verdict("transport_error", "global_transient").class = "global_transient"
        /\ Verdict("response_header_timeout", "channel_immediate").reason = "response_header_timeout"
        /\ Verdict("response_header_timeout", "channel_immediate").class = "channel_immediate"
    BY DEF Verdict
  <1>5. /\ StopVerdict("client_canceled").class = "client_canceled"
        /\ StopVerdict("client_canceled").reason = "client_canceled"
        /\ StopVerdict("response_header_timeout") = Verdict("response_header_timeout", "channel_immediate")
    BY StopVerdictTyped DEF StopReason, StopVerdict, TimeoutReason
  <1> HIDE DEF c
  <1>6. CASE TerminalFailure
    BY <1>1, <1>6, TerminalEnds DEF Calling
  <1>7. CASE TransportClass(a) = "client_canceled" /\ CancelAttempt({})
    <2>1. canceled /\ c.result.reason # "transport_error"
          /\ c.stopped \notin {"response_header_timeout", "response_idle_timeout"}
      BY <1>7 DEF TransportClass, c
    <2>2. ~shutdown => c.result = StopVerdict("client_canceled")
      BY <1>3, <1>4, <2>1
    <2>3. ~shutdown => ~IsHealthFailure(c.result.class)
      BY <1>5, <2>2, Harmless
    <2> QED  BY <1>1, <1>7, <2>1, <2>3, CancelEnds DEF c, Calling
  <1>8. CASE TransportClass(a) # "client_canceled" /\ Capture(TransportClass(a))
    <2> DEFINE class == TransportClass(a)
    <2>1. class \in {"channel_immediate", "global_transient"} /\ class \in FailureClass
      BY <1>8 DEF TransportClass, FailureClass
    <2>2. ~shutdown => c.result = Verdict(c.result.reason, class) /\ c.result.class = class
      <3>1. CASE c.stopped \in {"response_header_timeout", "response_idle_timeout"}
        <4>1. class = "channel_immediate"
          BY <3>1 DEF TransportClass, c
        <4>2. c.result = Verdict("response_header_timeout", "channel_immediate")
          BY <1>3, <1>5, <3>1 DEF Interrupted, Running
        <4> QED  BY <1>4, <4>1, <4>2
      <3>2. CASE c.stopped \notin {"response_header_timeout", "response_idle_timeout"}
        <4>1. class = "global_transient" /\ (canceled => c.result.reason = "transport_error")
          BY <1>8, <3>2 DEF TransportClass, c
        <4>2. ~shutdown => c.result = Verdict("transport_error", "global_transient")
          BY <1>3, <1>5, <3>2, <4>1
        <4> QED  BY <1>4, <4>1, <4>2
      <3> QED  BY <3>1, <3>2
    <2> HIDE DEF class
    <2>3. Capture(class)
      BY <1>8 DEF class
    <2> QED  BY <1>1, <2>1, <2>2, <2>3, CaptureStep DEF c
  <1> QED  BY <1>6, <1>7, <1>8 DEF CallFailed

LEMMA RefusedStep ==
    ASSUME GatewayInv, ResponseCanceled \/ RequestCloseFailed
    PROVE  StepSound
  <1> DEFINE a == att[Current]
             c == a.control
  <1>1. req.pc = "answered" /\ a.status # "error" /\ UNCHANGED Environment
    BY DEF ResponseCanceled, RequestCloseFailed, At
  <1>2. c \in ControlType /\ VerdictSound(a, req, canceled, shutdown)
    BY <1>1, AnsweredSound
  <1>3. CASE RequestCloseFailed
    BY <1>1, <1>3, TerminalEnds DEF Calling, RequestCloseFailed
  <1>4. CASE ResponseCanceled
    <2>1. canceled /\ c.result.reason # "http_error" /\ CancelAttempt({})
      BY <1>4 DEF ResponseCanceled, CanceledFirst
    <2>2. Verdict("http_error", ClassifyHTTPStatus(a.status)).reason = "http_error"
      BY DEF Verdict
    <2>3. Claimed(c) /\ Interrupted(c) /\ (c.stopped = "shutdown" => shutdown)
      BY <1>1, <1>2, <2>1, <2>2 DEF VerdictSound
    <2>4. ~shutdown => ~IsHealthFailure(c.result.class)
      BY <1>2, <2>3, ClaimedHarmless
    <2> HIDE DEF c
    <2> QED  BY <1>1, <2>1, <2>4, CancelEnds DEF c, Calling
  <1> QED  BY <1>3, <1>4

LEMMA FailOverStep ==
    ASSUME GatewayInv, FailOver
    PROVE  StepSound
  <1> DEFINE n == Current
             c == att[n].control
             class == ClassifyHTTPStatus(att[n].status)
             b == Report(att[n], class)
             a == [b EXCEPT !.pending = TRUE, !.open = {"response"}, !.owner = "captured"]
  <1>1. /\ req.pc = "answered" /\ att[n].status # "error" /\ UNCHANGED Environment
        /\ pool' = pool /\ ShouldFailover(class)
    BY DEF FailOver, At
  <1>2. /\ req.pc \in Executing \ {"leased"} /\ n \in Attempt /\ n = req.used
        /\ att[n] \in AttemptType /\ att[n].events = 0
        /\ c \in ControlType /\ ExecutorSound(att[n], req, canceled, shutdown)
        /\ VerdictSound(att[n], req, canceled, shutdown)
        /\ ~c.finished /\ ~c.armed /\ att[n].status \in Status /\ ~c.streaming
    BY <1>1, AnsweredSound
  <1>3. /\ ~c.streaming /\ Hooked(c, canceled) /\ c.detached
        /\ c.stopped \in {Running, "shutdown"}
    BY <1>1, <1>2 DEF ExecutorSound
  <1>4. class \in FailureClass /\ ~IsSuccess(att[n].status)
    BY <1>1, <1>2, StatusClass DEF ShouldFailover
  <1>5. /\ c.result = Verdict("http_error", class) /\ c.result.class = class
        /\ c.result.reason = "http_error"
    <2>1. c.result = Verdict("http_error", class)
      BY <1>1, <1>2, <1>4 DEF VerdictSound
    <2> QED  BY <2>1 DEF Verdict
  <1>6. /\ b \in AttemptType /\ b.report = class /\ b.events = 0 /\ b.control = c
        /\ b.entry = att[n].entry /\ b.started = att[n].started /\ class # "leased"
        /\ b.status = att[n].status
    BY <1>2, <1>4, ReportKeeps
  <1> HIDE DEF class, b
  <1>7. /\ a \in AttemptType /\ a.owner = "captured" /\ a.report = class /\ a.events = 0
        /\ a.control = c /\ a.entry = att[n].entry /\ a.open = {"response"}
        /\ a.status = att[n].status
    BY <1>6 DEF AttemptType
  <1>8. \/ att' = [att EXCEPT ![n] = a] /\ GotoWith("loop", "last", n)
        \/ /\ att' = [att EXCEPT ![n] = BackgroundFailure(a)]
           /\ Return(IF canceled THEN "none" ELSE "error")
    BY DEF FailOver, b, class
  <1> HIDE DEF a, n, c
  <1>9. ASSUME NEW y, y.report = class, y.control.result = c.result
        PROVE  Blamed(att[n], y, shutdown)
    BY <1>5, <1>9 DEF Blamed
  <1>10. ASSUME NEW y, att' = [att EXCEPT ![n] = y], y.entry = att[n].entry
         PROVE  PoolSound(pool') /\ Counted(pool', att')
    <2>1. \A m \in Attempt : att'[m].entry = att[m].entry
      BY <1>2, <1>10 DEF GatewayInv
    <2> QED  BY <1>1, <2>1, SameTransport DEF GatewayInv
  <1>11. CASE att' = [att EXCEPT ![n] = a] /\ GotoWith("loop", "last", n)
    <2>1. /\ req' \in RequestType /\ req'.pc = "loop" /\ req'.revision = req.revision
          /\ req'.used = req.used /\ req'.last = n
      BY <1>2, <1>11, RequestTyped, GotoWithKeeps DEF Location, Attempt
    <2>2. RequestSound(req', canceled)
      BY <1>1, <1>2, <2>1, RequestTyped DEF RequestSound, Before, Calling, Copying, Buffering, Executing
    <2>3. \A m \in Attempt \ {n} : AttemptSound(m, att[m], req', canceled, shutdown)
      BY <1>2, <2>1, OthersRest DEF n
    <2>4. CapturedSound(a, canceled)
      BY <1>2, <1>3, <1>6, <1>7 DEF CapturedSound, Unread
    <2>5. n \in Int /\ ~Unused(n, req')
      BY <1>2, <2>1 DEF Unused, CurrentOf, Before, Attempt
    <2>6. req'.pc \in Waiting /\ req'.pc \notin Executing
      BY <2>1 DEF Waiting, Executing, Before, Calling, Copying, Buffering
    <2>7. AttemptSound(n, a, req', canceled, shutdown)
      BY <1>2, <1>7, <2>1, <2>4, <2>5, <2>6 DEF AttemptSound, VerdictSound, c
    <2>8. Timely(att[n].control, a.control) /\ Blamed(att[n], a, shutdown)
      BY <1>7, <1>9, StillFair DEF c
    <2>9. PoolSound(pool') /\ Counted(pool', att')
      BY <1>7, <1>10, <1>11
    <2> QED  BY <1>1, <1>2, <1>11, <2>2, <2>3, <2>7, <2>8, <2>9, OneAttemptMoves
  <1>12. CASE /\ att' = [att EXCEPT ![n] = BackgroundFailure(a)]
              /\ Return(IF canceled THEN "none" ELSE "error")
    <2> DEFINE x == BackgroundFailure(a)
    <2>1. /\ x \in AttemptType /\ x.owner = "background" /\ BackgroundSound(x)
          /\ x.events = a.events /\ x.report = a.report /\ x.entry = a.entry
          /\ x.control.stopped = a.control.stopped /\ x.control.result = a.control.result
      BY <1>3, <1>7, BackgroundStarts
    <2> HIDE DEF x
    <2>2. RequestSound(req', canceled) /\ req'.pc = "done"
      BY <1>12, ReturnSound
    <2>3. \A m \in Attempt \ {n} : AttemptSound(m, att[m], req', canceled, shutdown)
      BY <1>2, <2>2, OthersRest DEF n
    <2>4. AttemptSound(n, x, req', canceled, shutdown)
      BY <1>7, <2>1, <2>2, BackgroundAnywhere
         DEF Unused, Waiting, Executing, Before, Calling, Copying, Buffering
    <2>5. Timely(att[n].control, x.control) /\ Blamed(att[n], x, shutdown)
      BY <1>7, <1>9, <2>1 DEF Timely, TimeoutReason, Running, c
    <2>6. PoolSound(pool') /\ Counted(pool', att')
      BY <1>7, <1>10, <1>12, <2>1 DEF x
    <2> QED  BY <1>1, <1>2, <1>12, <2>2, <2>3, <2>4, <2>5, <2>6, OneAttemptMoves DEF x
  <1> QED  BY <1>8, <1>11, <1>12

LEMMA DeliverStep ==
    ASSUME GatewayInv, Deliver
    PROVE  StepSound
  <1> DEFINE n == Current
             c == att[n].control
             class == ClassifyHTTPStatus(att[n].status)
  <1>1. /\ req.pc = "answered" /\ att[n].status # "error" /\ UNCHANGED Environment
        /\ ~ShouldFailover(class) /\ ~CanceledFirst
    BY DEF Deliver, At
  <1>2. /\ req.pc \in Executing \ {"leased"} /\ n \in Attempt /\ n = req.used /\ n = CurrentOf(req)
        /\ att[n] \in AttemptType /\ att[n].events = 0 /\ att[n].owner = "executor"
        /\ c \in ControlType /\ ExecutorSound(att[n], req, canceled, shutdown)
        /\ VerdictSound(att[n], req, canceled, shutdown) /\ req.last = 0
        /\ ~c.finished /\ ~c.armed /\ att[n].status \in Status /\ ~att[n].pending
        /\ ~c.streaming /\ ~c.background
    BY <1>1, AnsweredSound
  <1>3. /\ c.stopped = "client_canceled" => canceled
        /\ c.stopped = "shutdown" => shutdown
        /\ IsSuccess(att[n].status) => Claimed(c) /\ Interrupted(c)
        /\ ~IsSuccess(att[n].status) => c.result = Verdict("http_error", class)
    BY <1>1, <1>2 DEF VerdictSound
  <1>4. ~shutdown => ~IsHealthFailure(c.result.class)
    <2>1. CASE IsSuccess(att[n].status)
      BY <1>2, <1>3, <2>1, ClaimedHarmless
    <2>2. CASE ~IsSuccess(att[n].status)
      <3>1. class = "neutral"
        BY <1>1, <1>2, <2>2, StatusClass DEF ShouldFailover
      <3>2. Verdict("http_error", class).class = class
        BY DEF Verdict
      <3> QED  BY <1>3, <2>2, <3>1, <3>2, Harmless
    <2> QED  BY <2>1, <2>2
  <1>5. CASE canceled /\ (CancelAttempt({"execution"}) \/ CancelAttempt({}))
    BY <1>1, <1>4, <1>5, CancelEnds DEF Calling
  <1>6. CASE /\ IsSuccess(att[n].status)
             /\ att' = [att EXCEPT ![n].open = {"response", "execution"}, ![n].status = "ok"]
             /\ GotoWith("buffer", "stream", FALSE) /\ pool' = pool
    <2> DEFINE x == [att[n] EXCEPT !.open = {"response", "execution"}, !.status = "ok"]
    <2>1. att' = [att EXCEPT ![n] = x]
      BY <1>2, <1>6 DEF GatewayInv
    <2>2. /\ x \in AttemptType /\ x.report = att[n].report /\ x.status = "ok"
          /\ x.events = 0 /\ x.control = c /\ x.entry = att[n].entry
          /\ x.pending = att[n].pending /\ x.owner = "executor"
      BY <1>2 DEF AttemptType, Status
    <2> HIDE DEF x, n
    <2>3. /\ req' \in RequestType /\ req'.pc = "buffer" /\ req'.revision = req.revision
          /\ req'.used = req.used /\ req'.last = req.last
      BY <1>6, RequestTyped, GotoWithKeeps DEF Location
    <2>4. RequestSound(req', canceled)
      BY <1>1, <2>3, RequestTyped DEF RequestSound, Before, Calling, Copying, Buffering, Executing
    <2>5. req'.pc \in Executing \ {"leased"} /\ CurrentOf(req') = n
      BY <1>2, <2>3 DEF CurrentOf, Executing, Buffering, Before
    <2>6. VerdictSound(x, req', canceled, shutdown)
      BY <1>2, <1>3, <1>6, <2>2, <2>3 DEF VerdictSound, Buffering
    <2>7. ExecutorSound(x, req', canceled, shutdown)
      BY <1>2, <2>2, <2>3, <2>6 DEF ExecutorSound, Before, Calling, Buffering, Copying
    <2>8. Timely(c, x.control)
      BY <2>2, StillFair
    <2> QED  BY <1>1, <1>2, <1>6, <2>1, <2>2, <2>4, <2>5, <2>7, <2>8, ExecutorMoves DEF n
  <1>7. CASE /\ att' = [att EXCEPT ![n].open = {"response"},
                                   ![n].control = Observe(@, att[n].status, TRUE)]
             /\ GotoWith("copy_start", "stream", FALSE) /\ pool' = pool
    <2> DEFINE d == Observe(c, att[n].status, TRUE)
               x == [att[n] EXCEPT !.open = {"response"}, !.control = d]
    <2>1. att' = [att EXCEPT ![n] = x]
      BY <1>2, <1>7 DEF GatewayInv
    <2>2. d \in ControlType /\ d.stopped = c.stopped /\ d.finished = c.finished
      BY <1>2, ObserveKeeps, ZenonT(40)
    <2> HIDE DEF d
    <2>3. /\ x \in AttemptType /\ x.report = att[n].report /\ x.status = att[n].status
          /\ x.events = 0 /\ x.control = d /\ x.entry = att[n].entry
          /\ x.pending = att[n].pending /\ x.owner = "executor"
      BY <1>2, <2>2 DEF AttemptType
    <2> HIDE DEF x, n
    <2>4. /\ req' \in RequestType /\ req'.pc = "copy_start" /\ req'.revision = req.revision
          /\ req'.used = req.used /\ req'.last = req.last
      BY <1>7, RequestTyped, GotoWithKeeps, ZenonT(40) DEF Location
    <2>5. RequestSound(req', canceled)
      BY <1>1, <1>2, <2>4, RequestTyped DEF RequestSound, Before, Calling, Copying, Buffering, Executing
    <2>6. req'.pc \in Executing \ {"leased"} /\ CurrentOf(req') = n
      BY <1>2, <2>4 DEF CurrentOf, Executing, Copying, Before
    <2>7. VerdictSound(x, req', canceled, shutdown)
      BY <1>3, <2>2, <2>3, <2>4 DEF VerdictSound, Buffering
    <2>8. ExecutorSound(x, req', canceled, shutdown)
      BY <1>2, <2>2, <2>3, <2>4, <2>7 DEF ExecutorSound, Before, Calling, Buffering, Copying
    <2>9. Timely(c, x.control)
      BY <2>2, <2>3 DEF Timely, TimeoutReason, Running
    <2> QED  BY <1>1, <1>2, <1>7, <2>1, <2>3, <2>5, <2>6, <2>8, <2>9, ExecutorMoves DEF n
  <1> QED  BY <1>5, <1>6, <1>7 DEF Deliver

LEMMA FinishStep ==
    ASSUME GatewayInv, FinishHTTPFailure
    PROVE  StepSound
  <1> DEFINE n == req.last
             a == att[n]
  <1>1. req.pc = "finish" /\ UNCHANGED Environment /\ pool' = pool
    BY DEF FinishHTTPFailure, At
  <1>2. n = req.used /\ n # 0 /\ n \in Attempt
    BY <1>1, RequestTyped DEF RequestSound, Attempt
  <1>3. AttemptSound(n, a, req, canceled, shutdown) /\ a.owner = "captured" /\ a \in AttemptType
    BY <1>1, <1>2 DEF GatewayInv, AttemptSound, Waiting
  <1>4. CapturedSound(a, canceled) /\ a.events = 0 /\ a.report # "leased"
    BY <1>3 DEF AttemptSound, CapturedSound
  <1>5. ASSUME NEW s, s.pc = "done" \/ (s.pc = "final" /\ s.used = n /\ s.last = n),
               NEW m \in Attempt \ {n}
        PROVE  AttemptSound(m, att[m], s, canceled, shutdown)
    <2>1. AttemptSound(m, att[m], req, canceled, shutdown)
      BY DEF GatewayInv
    <2>2. att[m].owner \notin {"executor", "captured"}
      BY <1>1, <2>1 DEF AttemptSound, Executing, Before, Calling, Copying, Buffering
    <2>3. s.pc \notin Waiting /\ ~(s.pc \in Executing /\ m = CurrentOf(s))
      BY <1>5 DEF Executing, Before, Calling, Copying, Buffering, Waiting, CurrentOf
    <2>4. Unused(m, s) => Unused(m, req)
      BY <1>1, <1>2, <1>5 DEF Unused, CurrentOf, Before
    <2> QED  BY <2>1, <2>2, <2>3, <2>4, Bystander DEF AttemptSound
  <1>6. ASSUME NEW y, att' = [att EXCEPT ![n] = y], y.entry = a.entry
        PROVE  PoolSound(pool') /\ Counted(pool', att')
    <2>1. \A m \in Attempt : att'[m].entry = att[m].entry
      BY <1>2, <1>6 DEF GatewayInv
    <2> QED  BY <1>1, <2>1, SameTransport DEF GatewayInv
  <1>7. Unread(a, canceled)
    BY <1>1, <1>3 DEF AttemptSound
  <1> HIDE DEF a, n
  <1>8. CASE canceled \/ MappedHTTPError(a.status)
    <2> DEFINE f == Forget(a)
               x == BackgroundFailure(f)
    <2>1. att' = [att EXCEPT ![n] = x] /\ Return(IF canceled THEN "none" ELSE "error")
      BY <1>8 DEF FinishHTTPFailure, a, n
    <2>2. /\ f \in AttemptType /\ f.report = "reported" /\ f.events = a.events /\ f.entry = a.entry
          /\ f.control.stopped = a.control.stopped /\ f.control.streaming = a.control.streaming
      BY <1>3, ForgetKeeps
    <2> HIDE DEF f
    <2>3. /\ x \in AttemptType /\ x.owner = "background" /\ BackgroundSound(x)
          /\ x.events = f.events /\ x.report = f.report /\ x.entry = f.entry
          /\ x.control.stopped = f.control.stopped
      BY <1>7, <2>2, BackgroundStarts DEF Unread
    <2> HIDE DEF x
    <2>4. RequestSound(req', canceled) /\ req'.pc = "done"
      BY <2>1, ReturnSound
    <2>5. AttemptSound(n, x, req', canceled, shutdown)
      BY <1>4, <2>2, <2>3, <2>4, BackgroundAnywhere
         DEF Unused, Waiting, Executing, Before, Calling, Copying, Buffering
    <2>6. Timely(a.control, x.control) /\ Blamed(a, x, shutdown)
      BY <1>4, <2>2, <2>3 DEF Timely, Blamed, TimeoutReason, Running
    <2>7. PoolSound(pool') /\ Counted(pool', att')
      BY <1>6, <2>1, <2>2, <2>3
    <2>8. \A m \in Attempt \ {n} : AttemptSound(m, att[m], req', canceled, shutdown)
      BY <1>5, <2>4
    <2> QED  BY <1>1, <1>2, <2>1, <2>4, <2>5, <2>6, <2>7, <2>8, OneAttemptMoves DEF a
  <1>9. CASE ~(canceled \/ MappedHTTPError(a.status))
    <2> DEFINE x == [a EXCEPT !.owner = "executor"]
    <2>1. att' = [att EXCEPT ![n] = x] /\ Goto("final")
      BY <1>9 DEF FinishHTTPFailure, a, n
    <2>2. /\ x \in AttemptType /\ x.owner = "executor" /\ x.events = a.events /\ x.report = a.report
          /\ x.control = a.control /\ x.entry = a.entry /\ x.open = a.open /\ x.status = a.status
      BY <1>3 DEF AttemptType
    <2> HIDE DEF x
    <2>3. /\ req' \in RequestType /\ req'.pc = "final" /\ req'.revision = req.revision
          /\ req'.used = req.used /\ req'.last = req.last
      BY <2>1, RequestTyped, GotoKeeps DEF Location
    <2>4. RequestSound(req', canceled)
      BY <1>1, <1>2, <2>3, RequestTyped DEF RequestSound, Before, Calling, Copying, Buffering, Executing, n
    <2>5. Unread(x, canceled)
      BY <1>7, <2>2 DEF Unread
    <2>6. /\ x.control.stopped # "client_canceled" /\ (x.control.stopped = "shutdown" => shutdown)
      BY <1>3, <1>7, <2>2 DEF Unread, AttemptSound, Running
    <2>7. VerdictSound(x, req', canceled, shutdown)
      BY <2>3, <2>6 DEF VerdictSound, Buffering
    <2>8. ExecutorSound(x, req', canceled, shutdown)
      BY <1>4, <2>2, <2>3, <2>5, <2>7 DEF ExecutorSound, Unread, Before, Calling, Buffering, Copying
    <2>9. AttemptSound(n, x, req', canceled, shutdown)
      <3>1. n \in Int /\ CurrentOf(req') = n /\ ~Unused(n, req')
        BY <1>2, <2>3 DEF Unused, CurrentOf, Before, Attempt, n
      <3>2. req'.pc \in Executing /\ req'.pc \notin Waiting
        BY <2>3 DEF Waiting, Executing
      <3> QED  BY <1>4, <2>2, <2>8, <3>1, <3>2 DEF AttemptSound
    <2>10. Timely(a.control, x.control) /\ Blamed(a, x, shutdown)
      BY <2>2, StillFair
    <2>11. PoolSound(pool') /\ Counted(pool', att')
      BY <1>6, <2>1, <2>2
    <2>12. \A m \in Attempt \ {n} : AttemptSound(m, att[m], req', canceled, shutdown)
      BY <1>2, <1>5, <2>3 DEF n
    <2> QED  BY <1>1, <1>2, <2>1, <2>4, <2>9, <2>10, <2>11, <2>12, OneAttemptMoves DEF a
  <1> QED  BY <1>8, <1>9

-----------------------------------------------------------------------------
(* The answer is copied to the client.                                     *)

LEMMA ReadFinalStep ==
    ASSUME GatewayInv, ReadFinal
    PROVE  StepSound
  <1> DEFINE n == Current
             c == att[n].control
             h == [c EXCEPT !.detached = FALSE, !.background = FALSE]
             s == IF canceled THEN StopAttempt(h, "client_canceled") ELSE h
             d == Observe(s, att[n].status, FALSE)
             x == [att[n] EXCEPT !.control = d]
  <1>1. /\ req.pc = "final" /\ UNCHANGED Environment /\ pool' = pool /\ Goto("copy_start")
        /\ req.pc \in Executing \ {"leased"}
    BY DEF ReadFinal, At, Executing
  <1>2. /\ n \in Attempt /\ att[n] \in AttemptType /\ att[n].owner = "executor"
        /\ att[n].events = 0 /\ n = CurrentOf(req)
        /\ ExecutorSound(att[n], req, canceled, shutdown)
    BY <1>1, CurrentSound
  <1>3. req.last = n /\ n = req.used /\ n # 0
    BY <1>1, RequestTyped DEF Current, RequestSound, Executing, Before
  <1>4. att' = [att EXCEPT ![n] = x]
    BY <1>3 DEF ReadFinal, Final
  <1>5. /\ att[n].report # "leased" /\ att[n].status \in Status
        /\ c \in ControlType /\ ~c.finished /\ c.stopped \in {Running, "shutdown"}
        /\ Hooked(c, canceled) /\ (c.stopped = "shutdown" => shutdown)
    BY <1>1, <1>2 DEF ExecutorSound, VerdictSound, Unread, AttemptType
  <1>6. /\ h \in ControlType /\ ~h.detached /\ h.finished = c.finished /\ h.stopped = c.stopped
        /\ h.clientHook = c.clientHook
    BY <1>5 DEF ControlType
  <1> HIDE DEF h
  <1>7. /\ s \in ControlType /\ ~s.detached /\ ~s.finished
        /\ s.stopped = (IF canceled /\ c.stopped = Running THEN "client_canceled" ELSE c.stopped)
        /\ ~canceled => s.clientHook = c.clientHook
    <2>1. CASE canceled
      <3>1. LET t == StopAttempt(h, "client_canceled")
            IN  /\ t \in ControlType /\ t.finished = h.finished /\ t.detached = h.detached
                /\ h.stopped # Running \/ h.finished => t = h
                /\ h.stopped = Running /\ ~h.finished => t.stopped = "client_canceled"
        BY <1>6, StopAttemptStops DEF StopReason
      <3> QED  BY <1>5, <1>6, <2>1, <3>1
    <2>2. CASE ~canceled
      BY <1>5, <1>6, <2>2
    <2> QED  BY <2>1, <2>2
  <1> HIDE DEF s
  <1>8. /\ d \in ControlType /\ d.stopped = s.stopped /\ d.finished = s.finished
        /\ d.detached = s.detached /\ d.clientHook = s.clientHook
    <2>1. d = [s EXCEPT !.streaming = TRUE, !.observer = FALSE]
      BY DEF Observe
    <2> HIDE DEF d
    <2> QED  BY <1>7, <2>1 DEF ControlType
  <1> HIDE DEF d
  <1>9. /\ x \in AttemptType /\ x.report = att[n].report /\ x.status = att[n].status
        /\ x.events = 0 /\ x.control = d /\ x.entry = att[n].entry /\ x.owner = "executor"
    BY <1>2, <1>8, ControlKeeps
  <1> HIDE DEF x, n
  <1>10. /\ req' \in RequestType /\ req'.pc = "copy_start" /\ req'.revision = req.revision
         /\ req'.used = req.used /\ req'.last = req.last
    BY <1>1, RequestTyped, GotoKeeps DEF Location
  <1>11. RequestSound(req', canceled)
    BY <1>1, <1>3, <1>10, RequestTyped DEF RequestSound, Before, Calling, Copying, Buffering, Executing
  <1>12. req'.pc \in Executing \ {"leased"} /\ CurrentOf(req') = n
    BY <1>3, <1>10 DEF CurrentOf, Executing, Copying, Before
  <1>13. VerdictSound(x, req', canceled, shutdown)
    BY <1>5, <1>7, <1>8, <1>9, <1>10 DEF VerdictSound, Buffering, Running
  <1>14. ~d.finished /\ ~d.detached /\ Hooked(d, FALSE)
    BY <1>5, <1>7, <1>8 DEF Hooked, Running
  <1>15. ExecutorSound(x, req', canceled, shutdown)
    BY <1>3, <1>5, <1>9, <1>10, <1>13, <1>14 DEF ExecutorSound, Before, Calling, Buffering, Copying
  <1>16. Timely(c, x.control)
    BY <1>5, <1>7, <1>8, <1>9 DEF Timely, TimeoutReason, Running
  <1> QED  BY <1>1, <1>4, <1>9, <1>11, <1>12, <1>15, <1>16, ExecutorMoves DEF n

LEMMA CopySound ==
    ASSUME GatewayInv, req.pc \in Copying
    PROVE  LET a == att[Current]
           IN  /\ req.pc \in Executing \ {"leased"} /\ Current \in Attempt /\ Current = CurrentOf(req)
               /\ a \in AttemptType /\ a.owner = "executor" /\ a.events = 0 /\ a.status \in Status
               /\ a.control \in ControlType /\ ExecutorSound(a, req, canceled, shutdown)
               /\ req.pc # "copy_start" => req.answer = "response"
  <1>1. req.pc \in Executing \ {"leased"}
    BY DEF Executing, Copying
  <1>2. req.pc # "copy_start" => req.answer = "response"
    BY RequestTyped DEF RequestSound
  <1> QED  BY <1>1, <1>2, CurrentSound DEF ExecutorSound, AttemptType

(* The copy goes on; only the timer and the verdict may change.            *)
LEMMA CopyMoves ==
    ASSUME GatewayInv, req.pc \in Copying, NEW d \in ControlType,
           d.stopped = att[Current].control.stopped, d.finished = att[Current].control.finished,
           d.detached = att[Current].control.detached, d.clientHook = att[Current].control.clientHook,
           att' = [att EXCEPT ![Current] = [att[Current] EXCEPT !.control = d]],
           pool' = pool, UNCHANGED Environment,
           req' \in RequestType, req'.pc \in Copying \ {"copy_start"}, req'.revision = req.revision,
           req'.used = req.used, req'.last = req.last, req'.answer = "response"
    PROVE  StepSound
  <1> DEFINE n == Current
             c == att[n].control
             x == [att[n] EXCEPT !.control = d]
  <1>1. /\ req.pc \in Executing \ {"leased"} /\ n \in Attempt /\ n = CurrentOf(req)
        /\ att[n] \in AttemptType /\ att[n].owner = "executor" /\ att[n].events = 0
        /\ att[n].status \in Status /\ ExecutorSound(att[n], req, canceled, shutdown)
    BY CopySound
  <1>2. /\ x \in AttemptType /\ x.report = att[n].report /\ x.status = att[n].status
        /\ x.events = 0 /\ x.control = d /\ x.entry = att[n].entry /\ x.owner = "executor"
        /\ x.pending = att[n].pending
    BY <1>1, ControlKeeps
  <1> HIDE DEF x, n
  <1>3. /\ req.pc \notin Before /\ req'.pc \notin Before /\ req'.pc \notin Calling \cup Buffering
        /\ req'.pc \notin {"idle", "done", "loop", "leased", "finish", "final", "ingress"}
        /\ req.pc \notin {"idle", "done"}
        /\ req'.pc \in Executing \ Before /\ req.pc \in Executing \ Before
    BY DEF Copying, Before, Calling, Buffering, Executing
  <1>4. RequestSound(req', canceled)
    BY <1>3, RequestTyped DEF RequestSound, Before
  <1>5. CurrentOf(req') = n
    BY <1>1, <1>3 DEF CurrentOf
  <1>6. VerdictSound(x, req', canceled, shutdown)
    BY <1>1, <1>2, <1>3 DEF VerdictSound, ExecutorSound, n, Calling
  <1>7. Hooked(c, FALSE) => Hooked(d, FALSE)
    BY DEF Hooked, n
  <1>8. ~d.finished
    BY <1>1, <1>3 DEF ExecutorSound, n
  <1>9. /\ req.last = 0 => ~x.pending
        /\ req.last # 0 => x.report # "leased" /\ ~d.detached /\ Hooked(d, FALSE)
    BY <1>1, <1>2, <1>7 DEF ExecutorSound, n
  <1>10. ExecutorSound(x, req', canceled, shutdown)
    BY <1>1, <1>2, <1>3, <1>6, <1>8, <1>9 DEF ExecutorSound, Calling
  <1>11. Timely(c, x.control)
    BY <1>2 DEF Timely, TimeoutReason, Running, n
  <1>12. att' = [att EXCEPT ![n] = x]
    BY DEF x, n
  <1> QED  BY <1>1, <1>2, <1>3, <1>4, <1>5, <1>10, <1>11, <1>12, ExecutorMoves DEF n

LEMMA CopyFinishEnds ==
    ASSUME GatewayInv, req.pc \in Copying, NEW v \in VerdictType, CopyFinish(v),
           UNCHANGED Environment, req.answer = "none" => canceled
    PROVE  StepSound
  <1> DEFINE c == att[Current].control
             d == Claim(c, v)
             a == [att[Current] EXCEPT !.control = d]
             ended == IF req.last # 0 THEN [a EXCEPT !.pending = FALSE]
                      ELSE Report(a, d.result.class)
  <1>1. att[Current] \in AttemptType /\ c \in ControlType
    BY CopySound
  <1>2. d \in ControlType
    BY <1>1, ClaimKeeps
  <1>3. a.control = d
    <2> HIDE DEF d
    <2> QED  BY <1>1, <1>2, ControlKeeps
  <1>4. EndAttempt(Current, Record(ended), {}) /\ Return(req.answer)
    BY <1>3 DEF CopyFinish
  <1> HIDE DEF d
  <1> QED  BY <1>2, <1>4, CopyEnds

LEMMA CanceledVerdict ==
    /\ Verdict("client_canceled", "client_canceled") \in VerdictType
    /\ Verdict("client_canceled", "downstream") \in VerdictType
    /\ Verdict("response_idle_timeout", "channel_immediate") \in VerdictType
    /\ Verdict("stream_interrupted", "channel_stream") \in VerdictType
  BY VerdictTyped DEF EndReason, FailureClass, TimeoutReason

LEMMA CopyStep ==
    ASSUME GatewayInv, CopyStart \/ CopyRead \/ CopyWrite \/ CopyError
    PROVE  StepSound
  <1> DEFINE n == Current
             c == att[n].control
  <1>1. UNCHANGED Environment /\ req.pc \in Copying
    BY DEF CopyStart, CopyRead, CopyWrite, CopyError, At, Copying
  <1>2. /\ n \in Attempt /\ att[n] \in AttemptType /\ c \in ControlType
        /\ req.pc # "copy_start" => req.answer = "response"
        /\ att \in [Attempt -> AttemptType]
    BY <1>1, CopySound DEF GatewayInv
  <1>3. ASSUME canceled, CopyCanceled PROVE StepSound
    BY <1>1, <1>3, CanceledVerdict, CopyFinishEnds DEF CopyCanceled
  <1>4. [att[n] EXCEPT !.control = c] = att[n] /\ [att EXCEPT ![n] = att[n]] = att
    BY <1>2 DEF AttemptType
  <1>5. CASE CopyStart
    <2>1. CASE canceled
      BY <1>3, <1>5, <2>1 DEF CopyStart
    <2>2. CASE ~canceled
      <3>1. GotoWith("copy", "answer", "response") /\ att' = att /\ pool' = pool
        BY <1>5, <2>2 DEF CopyStart
      <3>2. /\ req' \in RequestType /\ req'.pc = "copy" /\ req'.revision = req.revision
            /\ req'.used = req.used /\ req'.last = req.last /\ req'.answer = "response"
        BY <3>1, RequestTyped, GotoWithKeeps DEF Location
      <3>3. req'.pc \in Copying \ {"copy_start"}
        BY <3>2 DEF Copying
      <3> QED  BY <1>1, <1>2, <1>4, <3>1, <3>2, <3>3, CopyMoves
    <2> QED  BY <2>1, <2>2
  <1>6. CASE CopyRead
    <2>1. CASE canceled
      BY <1>3, <1>6, <2>1 DEF CopyRead
    <2>2. CASE ~canceled
      <3> DEFINE d == BeginRead(c)
                 pc == IF c.stopped # Running THEN "copy_error" ELSE "copying"
      <3>1. att' = [att EXCEPT ![n] = [att[n] EXCEPT !.control = d]] /\ Goto(pc) /\ pool' = pool
        BY <1>6, <2>2 DEF CopyRead
      <3>2. d \in ControlType /\ Unmoved(c, d)
        BY <1>2, BeginReadArms
      <3> HIDE DEF d
      <3>3. pc \in Location /\ pc \in Copying \ {"copy_start"}
        BY DEF Location, Copying
      <3> HIDE DEF pc
      <3>4. /\ req' \in RequestType /\ req'.pc = pc /\ req'.revision = req.revision
            /\ req'.used = req.used /\ req'.last = req.last /\ req'.answer = req.answer
        BY <3>1, <3>3, RequestTyped, GotoKeeps
      <3>5. req.answer = "response"
        BY <1>2, <1>6 DEF CopyRead, At
      <3> QED  BY <1>1, <3>1, <3>2, <3>3, <3>4, <3>5, CopyMoves DEF Unmoved
    <2> QED  BY <2>1, <2>2
  <1>7. CASE CopyWrite
    <2>1. req.pc = "write" /\ req.answer = "response"
      BY <1>2, <1>7 DEF CopyWrite, At
    <2>2. CASE canceled /\ CopyCanceled
      BY <1>3, <2>2
    <2>3. CASE CopyFinish(Verdict("client_canceled", "downstream"))
      BY <1>1, <2>1, <2>3, CanceledVerdict, CopyFinishEnds
    <2>4. CASE Goto("copy") /\ att' = att /\ pool' = pool
      <3>2. /\ req' \in RequestType /\ req'.pc = "copy" /\ req'.revision = req.revision
            /\ req'.used = req.used /\ req'.last = req.last /\ req'.answer = "response"
        BY <2>1, <2>4, RequestTyped, GotoKeeps DEF Location
      <3>3. req'.pc \in Copying \ {"copy_start"}
        BY <3>2 DEF Copying
      <3> QED  BY <1>1, <1>2, <1>4, <2>4, <3>2, <3>3, CopyMoves
    <2> QED  BY <1>7, <2>2, <2>3, <2>4 DEF CopyWrite
  <1>8. CASE CopyError
    <2>1. req.pc = "copy_error" /\ req.answer = "response"
      BY <1>2, <1>8 DEF CopyError, At
    <2> DEFINE stopped == att[Current].control.stopped
               v == CASE stopped = "client_canceled" \/ (stopped = Running /\ canceled) ->
                             Verdict("client_canceled", "client_canceled")
                      [] stopped \in {"response_header_timeout", "response_idle_timeout"} ->
                             Verdict("response_idle_timeout", "channel_immediate")
                      [] OTHER -> Verdict("stream_interrupted", "channel_stream")
    <2>2. CopyFinish(v)
      BY <1>8 DEF CopyError
    <2>3. v \in {Verdict("client_canceled", "client_canceled"),
                 Verdict("response_idle_timeout", "channel_immediate"),
                 Verdict("stream_interrupted", "channel_stream")}
      BY DEF Running
    <2> HIDE DEF v
    <2> QED  BY <1>1, <2>1, <2>2, <2>3, CanceledVerdict, CopyFinishEnds
  <1> QED  BY <1>5, <1>6, <1>7, <1>8

LEMMA CopyChunkStep ==
    ASSUME GatewayInv, NEW chunk \in Chunk, CopyChunk(chunk)
    PROVE  StepSound
  <1> DEFINE n == Current
             a == att[n]
             c == a.control
             d == EndRead(c, a.status, chunk)
             b == [a EXCEPT !.control = d]
  <1>1. UNCHANGED Environment /\ req.pc = "copying" /\ req.pc \in Copying
    BY DEF CopyChunk, At, Copying
  <1>2. /\ n \in Attempt /\ a \in AttemptType /\ c \in ControlType /\ a.status \in Status
        /\ req.answer = "response"
    BY <1>1, CopySound
  <1>3. a.status # "error"
    BY <1>2 DEF Status
  <1>4. /\ d \in ControlType
        /\ d.stopped = c.stopped /\ d.finished = c.finished /\ d.detached = c.detached
        /\ d.clientHook = c.clientHook
    BY <1>2, <1>3, EndReadClaims
  <1>5. b.control = d
    <2> HIDE DEF d
    <2> QED  BY <1>2, <1>4, ControlKeeps
  <1>6. CASE c.stopped = Running /\ chunk = "eof"
    <2> DEFINE ended == IF req.last # 0 THEN [b EXCEPT !.pending = FALSE]
                        ELSE Report(b, d.result.class)
    <2>1. EndAttempt(n, Record(ended), {}) /\ Return(req.answer)
      BY <1>5, <1>6 DEF CopyChunk
    <2> HIDE DEF d
    <2> QED  BY <1>1, <1>2, <1>4, <2>1, CopyEnds
  <1>7. CASE ~(c.stopped = Running /\ chunk = "eof")
    <2> DEFINE pc == IF c.stopped # Running \/ chunk = "failure" THEN "copy_error" ELSE "write"
    <2>1. att' = [att EXCEPT ![n] = b] /\ Goto(pc) /\ pool' = pool
      BY <1>7 DEF CopyChunk
    <2> HIDE DEF d
    <2>2. pc \in Location /\ pc \in Copying \ {"copy_start"}
      BY DEF Location, Copying
    <2> HIDE DEF pc
    <2>3. /\ req' \in RequestType /\ req'.pc = pc /\ req'.revision = req.revision
          /\ req'.used = req.used /\ req'.last = req.last /\ req'.answer = req.answer
      BY <2>1, <2>2, RequestTyped, GotoKeeps
    <2> QED  BY <1>1, <1>2, <1>4, <2>1, <2>2, <2>3, CopyMoves
  <1> QED  BY <1>6, <1>7

-----------------------------------------------------------------------------
(* The buffered answer.                                                    *)

(* Nothing but a cancellation or the shutdown has stopped the attempt.     *)
Undisturbed(c) == Claimed(c) /\ Interrupted(c) /\ ~c.armed

LEMMA BufferSound ==
    ASSUME GatewayInv, req.pc \in Buffering
    PROVE  LET a == att[Current]
           IN  /\ req.pc \in Executing \ {"leased"} /\ Current \in Attempt /\ Current = CurrentOf(req)
               /\ a \in AttemptType /\ a.owner = "executor" /\ a.events = 0 /\ a.status = "ok"
               /\ a.control \in ControlType /\ VerdictSound(a, req, canceled, shutdown)
               /\ ~a.pending /\ ~a.control.finished /\ ~a.control.streaming /\ ~a.control.background
               /\ req.pc \notin {"capturing", "captured"} => Undisturbed(a.control)
  <1>1. req.pc \in Executing \ {"leased"} /\ req.pc \notin Before
    BY DEF Executing, Buffering, Before
  <1>2. /\ Current \in Attempt /\ Current = CurrentOf(req)
        /\ att[Current] \in AttemptType /\ att[Current].owner = "executor"
        /\ att[Current].events = 0 /\ ExecutorSound(att[Current], req, canceled, shutdown)
    BY <1>1, CurrentSound
  <1>3. req.pc \notin {"capturing", "captured"} => Undisturbed(att[Current].control)
    BY <1>2 DEF ExecutorSound, VerdictSound, Undisturbed
  <1> QED  BY <1>1, <1>2, <1>3 DEF ExecutorSound, AttemptType

(* Nothing is held against the provider when its answer is given up.       *)
LEMMA UndisturbedHarmless ==
    ASSUME GatewayInv, req.pc \in Buffering, Claimed(att[Current].control),
           Interrupted(att[Current].control), ~shutdown
    PROVE  LET v == att[Current].control.result
           IN  /\ ~IsHealthFailure(v.class) /\ v.reason # "stream_interrupted"
               /\ ~canceled => v = NoVerdict
  <1> DEFINE c == att[Current].control
  <1>1. c \in ControlType /\ VerdictSound(att[Current], req, canceled, shutdown)
    BY BufferSound
  <1>2. (c.stopped = "shutdown" => shutdown) /\ (c.stopped = "client_canceled" => canceled)
    BY <1>1 DEF VerdictSound
  <1> QED  BY <1>1, <1>2, ClaimedHarmless

LEMMA BufferCancelEnds ==
    ASSUME GatewayInv, req.pc \in Buffering, Claimed(att[Current].control),
           Interrupted(att[Current].control), canceled, UNCHANGED Environment,
           NEW leaked \in SUBSET {"body", "execution", "captured"}, CancelAttempt(leaked)
    PROVE  StepSound
  <1>1. ~shutdown => ~IsHealthFailure(att[Current].control.result.class)
    BY UndisturbedHarmless
  <1> QED  BY <1>1, CancelEnds

(* The executor goes on with the buffered answer.                          *)
LEMMA BufferMoves ==
    ASSUME GatewayInv, req.pc \in Buffering, NEW x \in AttemptType,
           att' = [att EXCEPT ![Current] = x], UNCHANGED Environment, pool' = pool,
           x.owner = "executor", x.events = 0, x.status = "ok", ~x.pending,
           x.entry = att[Current].entry, x.report = att[Current].report,
           ~x.control.finished, ~x.control.streaming, ~x.control.background,
           x.control.stopped = att[Current].control.stopped,
           VerdictSound(x, req', canceled, shutdown),
           req' \in RequestType, req'.pc \in Buffering, req'.revision = req.revision,
           req'.used = req.used, req'.last = req.last
    PROVE  StepSound
  <1>1. /\ req.pc \in Executing \ {"leased"} /\ Current = CurrentOf(req)
    BY BufferSound
  <1>2. /\ req.pc \notin Before /\ req'.pc \notin Before /\ req'.pc \notin Calling \cup Copying
        /\ req'.pc \notin {"idle", "done", "loop", "leased", "finish", "final", "ingress"}
        /\ req.pc \notin {"idle", "done"}
        /\ req'.pc \in Executing \ Before /\ req.pc \in Executing \ Before
        /\ req'.pc \notin {"do", "answered"}
    BY DEF Copying, Before, Calling, Buffering, Executing
  <1>3. RequestSound(req', canceled)
    BY <1>2, RequestTyped DEF RequestSound, Before
  <1>4. CurrentOf(req') = Current
    BY <1>1, <1>2 DEF CurrentOf
  <1>5. ExecutorSound(x, req', canceled, shutdown)
    BY <1>2 DEF ExecutorSound
  <1>6. Timely(att[Current].control, x.control)
    BY DEF Timely, TimeoutReason, Running
  <1> QED  BY <1>1, <1>2, <1>3, <1>4, <1>5, <1>6, ExecutorMoves

(* Between the reads of the connection.                                    *)
LEMMA UndisturbedMoves ==
    ASSUME GatewayInv, req.pc \in Buffering, Undisturbed(att[Current].control),
           NEW x \in AttemptType, att' = [att EXCEPT ![Current] = x],
           x.control = att[Current].control, x.owner = "executor", x.events = 0, x.status = "ok",
           ~x.pending, x.entry = att[Current].entry, x.report = att[Current].report,
           UNCHANGED Environment, pool' = pool,
           req' \in RequestType, req'.pc \in Buffering, req'.revision = req.revision,
           req'.used = req.used, req'.last = req.last
    PROVE  StepSound
  <1>1. /\ VerdictSound(att[Current], req, canceled, shutdown)
        /\ ~x.control.finished /\ ~x.control.streaming /\ ~x.control.background
    BY BufferSound
  <1>2. req'.pc \notin {"do", "answered"}
    BY DEF Buffering
  <1>3. VerdictSound(x, req', canceled, shutdown)
    BY <1>1, <1>2 DEF VerdictSound, Undisturbed
  <1> QED  BY <1>1, <1>3, BufferMoves

LEMMA BufferStep ==
    ASSUME GatewayInv, BufferStart \/ PatchResponse \/ SendHeaders \/ CaptureFails
    PROVE  StepSound
  <1> DEFINE n == Current
             a == att[n]
  <1>1. /\ UNCHANGED Environment /\ req.pc \in Buffering
        /\ req.pc \notin {"capturing", "captured"}
    BY DEF BufferStart, PatchResponse, SendHeaders, CaptureFails, At, Buffering
  <1>2. /\ n \in Attempt /\ a \in AttemptType /\ a.owner = "executor" /\ a.events = 0
        /\ a.status = "ok" /\ ~a.pending /\ Undisturbed(a.control)
        /\ att \in [Attempt -> AttemptType]
    BY <1>1, BufferSound DEF GatewayInv
  <1>3. [att EXCEPT ![n] = a] = att
    BY <1>2
  <1>4. ASSUME canceled, NEW leaked \in SUBSET {"body", "execution", "captured"},
               CancelAttempt(leaked)
        PROVE  StepSound
    BY <1>1, <1>2, <1>4, BufferCancelEnds DEF Undisturbed
  <1>5. ASSUME att' = att, pool' = pool, req' \in RequestType, req'.pc \in Buffering,
               req'.revision = req.revision, req'.used = req.used, req'.last = req.last
        PROVE  StepSound
    BY <1>1, <1>2, <1>3, <1>5, UndisturbedMoves
  <1>6. CASE BufferStart
    <2>1. CASE canceled
      BY <1>4, <1>6, <2>1 DEF BufferStart
    <2>2. CASE ~canceled
      <3>1. Goto("capture") /\ att' = att /\ pool' = pool
        BY <1>6, <2>2 DEF BufferStart
      <3>2. /\ req' \in RequestType /\ req'.pc = "capture" /\ req'.revision = req.revision
            /\ req'.used = req.used /\ req'.last = req.last
        BY <3>1, RequestTyped, GotoKeeps DEF Location
      <3> QED  BY <1>5, <3>1, <3>2 DEF Buffering
    <2> QED  BY <2>1, <2>2
  <1>7. CASE PatchResponse
    <2>1. CASE canceled /\ (CancelAttempt({}) \/ CancelAttempt({"captured"}))
      BY <1>4, <2>1
    <2>2. CASE TerminalFailure
      BY <1>1, <2>2, TerminalEnds
    <2>3. CASE /\ att' = [att EXCEPT ![n].open = {"captured"}]
               /\ Goto("respond") /\ pool' = pool
      <3> DEFINE x == [a EXCEPT !.open = {"captured"}]
      <3>1. /\ x \in AttemptType /\ x.report = a.report /\ x.events = 0 /\ x.control = a.control
            /\ x.entry = a.entry /\ x.pending = a.pending /\ x.owner = "executor" /\ x.status = "ok"
        BY <1>2, OpenKeeps, ZenonT(40)
      <3>2. att' = [att EXCEPT ![n] = x]
        BY <2>3
      <3>3. /\ req' \in RequestType /\ req'.pc = "respond" /\ req'.revision = req.revision
            /\ req'.used = req.used /\ req'.last = req.last
        BY <2>3, RequestTyped, GotoKeeps DEF Location
      <3>4. req'.pc \in Buffering
        BY <3>3 DEF Buffering
      <3> HIDE DEF x
      <3> QED  BY <1>1, <1>2, <2>3, <3>1, <3>2, <3>3, <3>4, UndisturbedMoves
    <2> QED  BY <1>7, <2>1, <2>2, <2>3 DEF PatchResponse
  <1>8. CASE SendHeaders
    <2>1. CASE canceled
      BY <1>4, <1>8, <2>1 DEF SendHeaders
    <2>2. CASE ~canceled
      <3>1. GotoWith("responding", "answer", "response") /\ att' = att /\ pool' = pool
        BY <1>8, <2>2 DEF SendHeaders
      <3>2. /\ req' \in RequestType /\ req'.pc = "responding" /\ req'.revision = req.revision
            /\ req'.used = req.used /\ req'.last = req.last
        BY <3>1, RequestTyped, GotoWithKeeps DEF Location
      <3> QED  BY <1>5, <3>1, <3>2 DEF Buffering
    <2> QED  BY <2>1, <2>2
  <1>9. CASE CaptureFails
    <2>1. att' = att /\ pool' = pool
      BY <1>9 DEF CaptureFails
    <2>2. PICK kind \in {"local", "scan"} : GotoWith("captured", "capture", kind)
      BY <1>9 DEF CaptureFails
    <2>3. /\ req' \in RequestType /\ req'.pc = "captured" /\ req'.revision = req.revision
          /\ req'.used = req.used /\ req'.last = req.last
      BY <2>2, RequestTyped, GotoWithKeeps DEF Location
    <2> QED  BY <1>5, <2>1, <2>3 DEF Buffering
  <1> QED  BY <1>6, <1>7, <1>8, <1>9

LEMMA CaptureReadStep ==
    ASSUME GatewayInv, CaptureRead
    PROVE  StepSound
  <1> DEFINE n == Current
             a == att[n]
             c == a.control
             d == BeginRead(c)
             x == [a EXCEPT !.control = d]
  <1>1. UNCHANGED Environment /\ req.pc = "capture" /\ req.pc \in Buffering /\ pool' = pool
    BY DEF CaptureRead, At, Buffering
  <1>2. /\ n \in Attempt /\ a \in AttemptType /\ a.owner = "executor" /\ a.events = 0
        /\ a.status = "ok" /\ ~a.pending /\ Undisturbed(c) /\ c \in ControlType
        /\ ~c.finished /\ ~c.streaming /\ ~c.background
        /\ VerdictSound(a, req, canceled, shutdown)
    BY <1>1, BufferSound
  <1>3. att' = [att EXCEPT ![n] = x]
    BY DEF CaptureRead
  <1>4. /\ d \in ControlType /\ Unmoved(c, d)
        /\ c.stopped # Running => d = c
        /\ d = c \/ (d.armed /\ d.timerReason = "response_idle_timeout")
    BY <1>2, BeginReadArms
  <1> HIDE DEF d
  <1>5. /\ x \in AttemptType /\ x.report = a.report /\ x.events = 0 /\ x.control = d
        /\ x.entry = a.entry /\ x.pending = a.pending /\ x.owner = "executor" /\ x.status = "ok"
    BY <1>2, <1>4, ControlKeeps
  <1>6. /\ req' \in RequestType /\ req'.revision = req.revision
        /\ req'.used = req.used /\ req'.last = req.last
        /\ req'.pc = IF c.stopped # Running THEN "captured" ELSE "capturing"
    <2>1. CASE c.stopped # Running
      <3>1. GotoWith("captured", "capture", "stopped")
        BY <2>1 DEF CaptureRead
      <3> QED  BY <2>1, <3>1, RequestTyped, GotoWithKeeps DEF Location
    <2>2. CASE c.stopped = Running
      <3>1. Goto("capturing")
        BY <2>2 DEF CaptureRead
      <3> QED  BY <2>2, <3>1, RequestTyped, GotoKeeps DEF Location
    <2> QED  BY <2>1, <2>2
  <1> HIDE DEF x
  <1>7. req'.pc \in Buffering /\ req'.pc \notin {"do", "answered"}
    BY <1>6 DEF Buffering
  <1>8. Claimed(d) /\ Interrupted(d) /\ d.stopped = c.stopped
    BY <1>2, <1>4 DEF Undisturbed, Claimed, Interrupted, Unmoved
  <1>9. d.armed => req'.pc = "capturing" /\ d.timerReason = "response_idle_timeout"
    BY <1>2, <1>4, <1>6 DEF Undisturbed
  <1>10. VerdictSound(x, req', canceled, shutdown)
    BY <1>2, <1>5, <1>7, <1>8, <1>9 DEF VerdictSound
  <1>11. ~d.finished /\ ~d.streaming /\ ~d.background
    BY <1>2, <1>4 DEF Unmoved
  <1> QED  BY <1>1, <1>2, <1>3, <1>5, <1>6, <1>7, <1>8, <1>10, <1>11, BufferMoves DEF n

LEMMA CaptureChunkStep ==
    ASSUME GatewayInv, NEW chunk \in Chunk, CaptureChunk(chunk)
    PROVE  StepSound
  <1> DEFINE n == Current
             a == att[n]
             c == a.control
             d == EndRead(c, a.status, chunk)
             x == [a EXCEPT !.control = d]
             pc == IF c.stopped = Running /\ chunk = "data" THEN "capture" ELSE "captured"
             capture == IF c.stopped # Running THEN "stopped"
                        ELSE IF chunk = "eof" THEN "ok" ELSE "failed"
  <1>1. /\ UNCHANGED Environment /\ req.pc = "capturing" /\ req.pc \in Buffering /\ pool' = pool
        /\ chunk \in {"data", "eof", "failure"}
    BY DEF CaptureChunk, At, Buffering
  <1>2. /\ n \in Attempt /\ a \in AttemptType /\ a.owner = "executor" /\ a.events = 0
        /\ a.status = "ok" /\ ~a.pending /\ c \in ControlType
        /\ ~c.finished /\ ~c.streaming /\ ~c.background
        /\ VerdictSound(a, req, canceled, shutdown)
    BY <1>1, BufferSound
  <1>3. att' = [att EXCEPT ![n] = x]
    BY DEF CaptureChunk
  <1>4. a.status \in Status \cup {"error"} /\ a.status # "error"
    BY <1>2 DEF Status
  <1>5. /\ d \in ControlType /\ d.stopped = c.stopped /\ d.finished = c.finished
        /\ d.background = c.background /\ d.streaming = c.streaming /\ ~d.armed
        /\ d.result = IF c.stopped = Running /\ c.result = NoVerdict
                      THEN ChunkVerdict(c, a.status, chunk) ELSE c.result
    BY <1>2, <1>4, EndReadClaims
  <1>6. ChunkVerdict(c, a.status, chunk) =
            IF chunk = "failure" THEN Verdict("stream_interrupted", "channel_stream") ELSE NoVerdict
    BY <1>1, <1>2, <1>4, ChunkVerdictTyped
  <1> HIDE DEF d
  <1>7. /\ x \in AttemptType /\ x.report = a.report /\ x.events = 0 /\ x.control = d
        /\ x.entry = a.entry /\ x.pending = a.pending /\ x.owner = "executor" /\ x.status = "ok"
    BY <1>2, <1>5, ControlKeeps
  <1>8. /\ req' \in RequestType /\ req'.revision = req.revision
        /\ req'.used = req.used /\ req'.last = req.last /\ req'.pc = pc
        /\ pc = "captured" => req'.capture = capture
    <2>1. CASE pc = "capture"
      <3>1. Goto("capture")
        BY <2>1 DEF CaptureChunk
      <3> QED  BY <2>1, <3>1, RequestTyped, GotoKeeps DEF Location
    <2>2. CASE pc # "capture"
      <3>1. GotoWith("captured", "capture", capture)
        BY <2>2 DEF CaptureChunk
      <3>2. capture \in {"stopped", "ok", "failed"} /\ pc = "captured"
        BY <2>2
      <3> HIDE DEF capture, pc
      <3> QED  BY <3>1, <3>2, RequestTyped, GotoWithKeeps DEF Location
    <2> QED  BY <2>1, <2>2
  <1> HIDE DEF x
  <1>9. req'.pc \in Buffering /\ req'.pc \notin {"do", "answered"}
    BY <1>8 DEF Buffering
  <1>10. /\ Claimed(c)
         /\ Interrupted(c) \/ c.stopped = "response_idle_timeout"
         /\ (c.stopped = "shutdown" => shutdown) /\ (c.stopped = "client_canceled" => canceled)
    BY <1>1, <1>2 DEF VerdictSound
  <1>11. VerdictSound(x, req', canceled, shutdown)
    <2>1. CASE c.stopped # Running
      <3>1. Claimed(d) /\ (Interrupted(c) => Interrupted(d)) /\ d.stopped = c.stopped
        BY <1>5, <1>10, <2>1 DEF Claimed, Interrupted
      <3>2. req'.pc = "captured" /\ req'.capture = "stopped"
        BY <1>8, <2>1
      <3> QED  BY <1>5, <1>7, <1>9, <1>10, <3>1, <3>2 DEF VerdictSound
    <2>2. CASE c.stopped = Running /\ chunk # "failure"
      <3>1. c.result = NoVerdict
        BY <1>10, <2>2 DEF Claimed
      <3>2. Claimed(d) /\ Interrupted(d) /\ d.stopped = Running
        BY <1>5, <1>6, <2>2, <3>1 DEF Claimed, Interrupted
      <3> QED  BY <1>5, <1>7, <1>9, <3>2 DEF VerdictSound, Running
    <2>3. CASE c.stopped = Running /\ chunk = "failure"
      <3>1. c.result = NoVerdict
        BY <1>10, <2>3 DEF Claimed
      <3>2. /\ d.result = Verdict("stream_interrupted", "channel_stream") /\ Interrupted(d)
            /\ d.stopped = Running
        BY <1>5, <1>6, <2>3, <3>1 DEF Interrupted
      <3>3. req'.pc = "captured" /\ req'.capture = "failed"
        BY <1>8, <2>3
      <3> QED  BY <1>5, <1>7, <1>9, <3>2, <3>3 DEF VerdictSound, Running
    <2> QED  BY <2>1, <2>2, <2>3
  <1> QED  BY <1>1, <1>2, <1>3, <1>5, <1>7, <1>8, <1>9, <1>11, BufferMoves DEF n

LEMMA CaptureEndsStep ==
    ASSUME GatewayInv, CaptureEnds
    PROVE  StepSound
  <1> DEFINE n == Current
             a == att[n]
             c == a.control
             interrupted == Verdict("stream_interrupted", "channel_stream")
  <1>1. UNCHANGED Environment /\ req.pc = "captured" /\ req.pc \in Buffering
    BY DEF CaptureEnds, At, Buffering
  <1>2. /\ n \in Attempt /\ a \in AttemptType /\ a.owner = "executor" /\ a.events = 0
        /\ a.status = "ok" /\ ~a.pending /\ c \in ControlType
        /\ VerdictSound(a, req, canceled, shutdown)
    BY <1>1, BufferSound
  <1>3. \/ Claimed(c) /\ Interrupted(c) /\ ~c.armed
        \/ /\ Claimed(c) /\ c.stopped = "response_idle_timeout"
           /\ req.capture = "stopped"
        \/ /\ req.capture = "failed" /\ Interrupted(c) /\ c.result = interrupted
    BY <1>1, <1>2 DEF VerdictSound
  <1>4. interrupted.reason = "stream_interrupted" /\ interrupted.class = "channel_stream"
    BY DEF Verdict
  <1>5. CASE TimedOut
    <2>1. /\ EndAttempt(n, Record(Report(a, "channel_immediate")), {})
          /\ Return(IF canceled THEN "none" ELSE "error")
      BY <1>5 DEF CaptureEnds, BufferFailure
    <2>2. c.stopped = "response_idle_timeout" /\ req.capture = "stopped"
      BY <1>5 DEF TimedOut
    <2>3. Claimed(c)
      BY <1>3, <2>2
    <2>4. c.result = Verdict("response_idle_timeout", "channel_immediate")
      BY <2>2, <2>3 DEF Claimed, StopVerdict, Running
    <2>5. c.result.class = "channel_immediate" /\ c.result.reason = "response_idle_timeout"
      BY <2>4 DEF Verdict
    <2> DEFINE answer == IF canceled THEN "none" ELSE "error"
    <2>6. answer \in {"none", "error", "response"} /\ (answer = "none" => canceled)
      OBVIOUS
    <2> HIDE DEF answer
    <2>7. "channel_immediate" \in FailureClass
      BY DEF FailureClass
    <2> QED  BY <1>1, <2>1, <2>4, <2>5, <2>6, <2>7, ReportEnds DEF answer
  <1>6. CASE ~TimedOut /\ canceled /\ c.result.reason # "stream_interrupted"
    <2>1. CancelAttempt({})
      BY <1>6 DEF CaptureEnds
    <2>2. Claimed(c) /\ Interrupted(c)
      BY <1>3, <1>4, <1>6 DEF TimedOut
    <2> QED  BY <1>1, <1>6, <2>1, <2>2, BufferCancelEnds
  <1>7. CASE ~TimedOut /\ ~(canceled /\ c.result.reason # "stream_interrupted")
    <2>1. CASE \E class \in CaptureClasses :
                   EndAttempt(n, Record(Report(a, class)), {}) /\ Return("error")
      <3>1. PICK class \in CaptureClasses :
                   EndAttempt(n, Record(Report(a, class)), {}) /\ Return("error")
        BY <2>1
      <3>2. class \in {"neutral", "channel_stream"} /\ class \in FailureClass
        BY DEF CaptureClasses, FailureClass
      <3>3. ASSUME ~shutdown PROVE c.result = NoVerdict \/ c.result = interrupted
        <4>1. CASE Claimed(c) /\ Interrupted(c)
          BY <1>1, <1>7, <3>3, <4>1, UndisturbedHarmless
        <4>2. CASE c.result = interrupted
          BY <4>2
        <4> QED  BY <1>3, <1>7, <4>1, <4>2 DEF TimedOut
      <3>4. ASSUME ~shutdown
            PROVE  /\ IsHealthFailure(class) => c.result \in {NoVerdict, Verdict(c.result.reason, class)}
                   /\ IsHealthFailure(c.result.class) => class \in {c.result.class, "neutral"}
        BY <1>4, <3>2, <3>3, <3>4, Harmless, NoVerdictTyped
      <3> QED  BY <1>1, <3>1, <3>2, <3>4, ReportEnds
    <2>2. CASE /\ req.capture = "ok"
               /\ att' = [att EXCEPT ![n].open = {"execution", "captured"}]
               /\ Goto("patch") /\ pool' = pool
      <3> DEFINE x == [a EXCEPT !.open = {"execution", "captured"}]
      <3>1. /\ x \in AttemptType /\ x.report = a.report /\ x.events = 0 /\ x.control = a.control
            /\ x.entry = a.entry /\ x.pending = a.pending /\ x.owner = "executor" /\ x.status = "ok"
        BY <1>2, OpenKeeps
      <3>2. att' = [att EXCEPT ![n] = x]
        BY <2>2
      <3>3. /\ req' \in RequestType /\ req'.pc = "patch" /\ req'.revision = req.revision
            /\ req'.used = req.used /\ req'.last = req.last
        BY <2>2, RequestTyped, GotoKeeps DEF Location
      <3>4. req'.pc \in Buffering
        BY <3>3 DEF Buffering
      <3>5. Undisturbed(c)
        BY <1>3, <2>2 DEF Undisturbed
      <3> HIDE DEF x
      <3> QED  BY <1>1, <1>2, <2>2, <3>1, <3>2, <3>3, <3>4, <3>5, UndisturbedMoves
    <2> QED  BY <1>7, <2>1, <2>2 DEF CaptureEnds
  <1> QED  BY <1>5, <1>6, <1>7

LEMMA SendBodyStep ==
    ASSUME GatewayInv, SendBody
    PROVE  StepSound
  <1>1. UNCHANGED Environment /\ req.pc \in Buffering /\ req.pc \notin {"capturing", "captured"}
    BY DEF SendBody, At, Buffering
  <1>2. PICK class \in {"downstream", "client_canceled", "neutral", "none"} :
            EndAttempt(Current, Record(Report(att[Current], class)), {}) /\ Return("response")
    BY DEF SendBody
  <1>3. class \in FailureClass /\ ~IsHealthFailure(class)
    BY Harmless DEF FailureClass
  <1>4. ~shutdown => ~IsHealthFailure(att[Current].control.result.class)
    BY <1>1, BufferSound, UndisturbedHarmless DEF Undisturbed
  <1> QED  BY <1>1, <1>2, <1>3, <1>4, ReportEnds

-----------------------------------------------------------------------------
(* The readers of error bodies.                                            *)

LEMMA BackgroundTyped ==
    ASSUME GatewayInv, NEW n \in Attempt, att[n].owner = "background"
    PROVE  /\ att[n] \in AttemptType /\ att[n].events = 0 /\ BackgroundSound(att[n])
           /\ att[n].control \in ControlType /\ att[n].status \in Status \cup {"error"}
           /\ ~Unused(n, req)
           /\ ~(req.pc \in Executing /\ n = CurrentOf(req)) /\ ~(req.pc \in Waiting /\ n = req.last)
           /\ RequestSound(req, canceled)
           /\ \A m \in Attempt : AttemptSound(m, att[m], req, canceled, shutdown)
  <1>1. AttemptSound(n, att[n], req, canceled, shutdown)
    BY DEF GatewayInv
  <1> QED  BY <1>1 DEF GatewayInv, AttemptSound, AttemptType

(* The body was read to its end, to its limit, or not at all.              *)
LEMMA BackgroundEnds ==
    ASSUME GatewayInv, NEW n \in Attempt, att[n].owner = "background", NEW a \in AttemptType,
           a.events = 0, a.entry = att[n].entry,
           EndBackground(n, a), UNCHANGED <<Environment, req>>
    PROVE  StepSound
  <1> DEFINE f == Forget(a)
             g == [f EXCEPT !.pending = FALSE, !.reading = FALSE]
             b == Record(g)
             x == Over(b, {})
  <1>1. /\ f \in AttemptType /\ f.report = "reported" /\ f.events = 0 /\ f.entry = att[n].entry
        /\ f.control.result = NoVerdict
    BY ForgetKeeps
  <1>2. att' = [att EXCEPT ![n] = x] /\ pool' = PoolAfter(b)
    BY DEF EndBackground, EndAttempt, Over
  <1> HIDE DEF f
  <1>3. /\ g \in AttemptType /\ g.report = "reported" /\ g.events = 0 /\ g.entry = att[n].entry
        /\ g.control.result = NoVerdict /\ ~g.pending
    BY <1>1, ZenonT(40) DEF AttemptType
  <1> HIDE DEF g
  <1>4. /\ b \in AttemptType /\ b.report = "reported" /\ b.events = 1 /\ b.entry = att[n].entry
        /\ b.control.result = NoVerdict /\ ~b.pending
    BY <1>3, RecordKeeps
  <1> HIDE DEF b
  <1>5. /\ x \in AttemptType /\ x.owner = "nobody" /\ NobodySound(x) /\ x.entry = NoEntry
        /\ x.control.stopped = Running /\ x.control.result = NoVerdict /\ x.report = "reported"
    BY <1>4, OverSound
  <1> HIDE DEF x
  <1>6. AttemptSound(n, x, req, canceled, shutdown)
    BY <1>5, BackgroundTyped, NobodyAnywhere
  <1>7. PoolSound(pool') /\ Counted(pool', att')
    BY <1>2, <1>4, <1>5, PoolAfterSound DEF GatewayInv
  <1>8. Timely(att[n].control, x.control)
    BY <1>5 DEF Timely, TimeoutReason, Running
  <1>9. Blamed(att[n], x, shutdown)
    BY <1>5, NoVerdictTyped, Harmless DEF Blamed, IsHealthFailure, ShouldFailover
  <1> QED  BY <1>2, <1>5, <1>6, <1>7, <1>8, <1>9, BackgroundTyped, OneAttemptMoves

LEMMA BackgroundMoves ==
    ASSUME GatewayInv, NEW n \in Attempt, att[n].owner = "background", NEW x \in AttemptType,
           x.owner = "background", x.events = 0, x.entry = att[n].entry, x.report = att[n].report,
           BackgroundSound(x), x.control.stopped = att[n].control.stopped,
           att' = [att EXCEPT ![n] = x], pool' = pool, UNCHANGED <<Environment, req>>
    PROVE  StepSound
  <1>1. AttemptSound(n, x, req, canceled, shutdown)
    BY BackgroundTyped, BackgroundAnywhere
  <1>2. PoolSound(pool') /\ Counted(pool', att')
    <2>1. \A m \in Attempt : att'[m].entry = att[m].entry
      BY DEF GatewayInv
    <2> QED  BY <2>1, SameTransport DEF GatewayInv
  <1>3. Timely(att[n].control, x.control)
    BY DEF Timely, TimeoutReason, Running
  <1>4. Blamed(att[n], x, shutdown)
    BY DEF Blamed
  <1> QED  BY <1>1, <1>2, <1>3, <1>4, BackgroundTyped, OneAttemptMoves

LEMMA BackgroundStep ==
    ASSUME GatewayInv, NEW n \in Attempt, BackgroundTruncates(n) \/ BackgroundRead(n)
    PROVE  StepSound
  <1>1. att[n].owner = "background" /\ UNCHANGED <<Environment, req>>
    BY DEF BackgroundTruncates, BackgroundRead
  <1>2. att[n] \in AttemptType /\ att[n].events = 0 /\ BackgroundSound(att[n])
    BY <1>1, BackgroundTyped
  <1>3. CASE EndBackground(n, att[n])
    BY <1>1, <1>2, <1>3, BackgroundEnds
  <1>4. CASE att' = [att EXCEPT ![n].reading = TRUE] /\ pool' = pool
    <2> DEFINE x == [att[n] EXCEPT !.reading = TRUE]
    <2>1. att' = [att EXCEPT ![n] = x]
      BY <1>4
    <2>2. /\ x \in AttemptType /\ x.owner = "background" /\ x.events = 0 /\ x.entry = att[n].entry
          /\ x.report = att[n].report /\ x.control = att[n].control
      BY <1>1, <1>2 DEF AttemptType
    <2> HIDE DEF x
    <2>3. BackgroundSound(x)
      BY <1>2, <2>2 DEF BackgroundSound
    <2> QED  BY <1>1, <1>4, <2>1, <2>2, <2>3, BackgroundMoves
  <1> QED  BY <1>3, <1>4 DEF BackgroundTruncates, BackgroundRead

LEMMA BackgroundChunkStep ==
    ASSUME GatewayInv, NEW n \in Attempt, NEW chunk \in Chunk, BackgroundChunk(n, chunk)
    PROVE  StepSound
  <1> DEFINE c == att[n].control
             d == EndRead(c, att[n].status, chunk)
             a == [att[n] EXCEPT !.control = d]
             x == [a EXCEPT !.reading = FALSE]
  <1>1. att[n].owner = "background" /\ UNCHANGED <<Environment, req>>
    BY DEF BackgroundChunk
  <1>2. /\ att[n] \in AttemptType /\ att[n].events = 0 /\ BackgroundSound(att[n])
        /\ c \in ControlType /\ att[n].status \in Status \cup {"error"} /\ ~c.streaming
    BY <1>1, BackgroundTyped DEF BackgroundSound
  <1>3. EndBackground(n, a) \/ (att' = [att EXCEPT ![n] = x] /\ pool' = pool)
    BY DEF BackgroundChunk
  <1>4. /\ d \in ControlType /\ d.stopped = c.stopped /\ d.background = c.background
        /\ d.clientHook = c.clientHook /\ d.streaming = c.streaming
        /\ d.armed => c.armed /\ d.timerReason = c.timerReason
    BY <1>2, EndReadClaims
  <1> HIDE DEF d
  <1>5. /\ a \in AttemptType /\ a.events = 0 /\ a.owner = "background" /\ a.control = d
        /\ a.entry = att[n].entry /\ a.report = att[n].report
    BY <1>1, <1>2, <1>4, ControlKeeps
  <1> HIDE DEF a
  <1>6. /\ x \in AttemptType /\ x.events = 0 /\ x.owner = "background" /\ x.control = d
        /\ x.entry = att[n].entry /\ x.report = att[n].report
    BY <1>5 DEF AttemptType
  <1> HIDE DEF x
  <1>7. BackgroundSound(x)
    BY <1>2, <1>4, <1>6 DEF BackgroundSound
  <1>8. CASE EndBackground(n, a)
    BY <1>1, <1>5, <1>8, BackgroundEnds
  <1>9. CASE att' = [att EXCEPT ![n] = x] /\ pool' = pool
    BY <1>1, <1>4, <1>6, <1>7, <1>9, BackgroundMoves
  <1> QED  BY <1>3, <1>8, <1>9

-----------------------------------------------------------------------------
(* Every step.                                                             *)

LEMMA NextSound ==
    ASSUME GatewayInv, [Next]_vars
    PROVE  StepSound
  <1>1. CASE \E stream \in BOOLEAN : Begin(stream)
    BY <1>1, BeginStep
  <1>2. CASE ExecutorStep
    <2>1. CASE RejectIngress \/ Ingress
      BY <2>1, IngressStep
    <2>2. CASE BetweenAttemptsCanceled \/ NoMoreAttempts
      BY <2>2, LoopStep
    <2>3. CASE \E k \in Key : Acquire(k)
      BY <2>3, AcquireStep
    <2>4. CASE LeaseCanceled \/ Continue
      BY <2>4, LeasedStep
    <2>5. CASE Prepare
      BY <2>5, PrepareStep
    <2>6. CASE AcquireClient
      BY <2>6, AcquireClientStep
    <2>7. CASE Start
      BY <2>7, StartStep
    <2>8. CASE StoppedCallReturns
      BY <2>8, RespondStep DEF StoppedCallReturns
    <2>9. CASE CallFailed
      BY <2>9, CallFailedStep
    <2>10. CASE ResponseCanceled \/ RequestCloseFailed
      BY <2>10, RefusedStep
    <2>11. CASE FailOver
      BY <2>11, FailOverStep
    <2>12. CASE Deliver
      BY <2>12, DeliverStep
    <2>13. CASE FinishHTTPFailure
      BY <2>13, FinishStep
    <2>14. CASE ReadFinal
      BY <2>14, ReadFinalStep
    <2>15. CASE CopyStart \/ CopyRead \/ CopyWrite \/ CopyError
      BY <2>15, CopyStep
    <2>16. CASE BufferStart \/ PatchResponse \/ SendHeaders \/ CaptureFails
      BY <2>16, BufferStep
    <2>17. CASE CaptureRead
      BY <2>17, CaptureReadStep
    <2>18. CASE CaptureEnds
      BY <2>18, CaptureEndsStep
    <2>19. CASE SendBody
      BY <2>19, SendBodyStep
    <2> QED  BY <1>2, <2>1, <2>2, <2>3, <2>4, <2>5, <2>6, <2>7, <2>8, <2>9, <2>10, <2>11, <2>12,
                <2>13, <2>14, <2>15, <2>16, <2>17, <2>18, <2>19 DEF ExecutorStep
  <1>3. CASE ProviderResponds
    BY <1>3, RespondStep DEF ProviderResponds
  <1>4. CASE Chunks
    BY <1>4, CopyChunkStep, CaptureChunkStep DEF Chunks
  <1>5. ASSUME NEW n \in Attempt,
               \/ BackgroundTruncates(n) \/ BackgroundRead(n)
               \/ \E chunk \in Chunk : BackgroundChunk(n, chunk)
               \/ Timer(n) \/ Hook(n)
        PROVE  StepSound
    BY <1>5, BackgroundStep, BackgroundChunkStep, TimerStep
  <1>6. CASE CancelClient \/ Publish \/ ReconcileClients \/ Close \/ Closed
    BY <1>6, EnvironmentStep
  <1>7. CASE UNCHANGED vars
    BY <1>7, IdleStep
  <1> QED  BY <1>1, <1>2, <1>3, <1>4, <1>5, <1>6, <1>7 DEF Next

-----------------------------------------------------------------------------
(* Of any number of attempts, provider generations, transports and         *)
(* snapshots: the executor, the timers and hooks of its attempts and the   *)
(* readers of error bodies keep the inductive invariant.                   *)
THEOREM GatewayInvariant == Spec => []GatewayInv
  <1>1. Init => GatewayInv
    BY InitSound
  <1>2. GatewayInv /\ [Next]_vars => GatewayInv'
    BY NextSound DEF StepSound
  <1> QED  BY <1>1, <1>2, PTL DEF Spec

(* The state of the gateway has the declared type.                         *)
THEOREM GatewayTypeCorrect == Spec => []TypeOK
  <1>1. GatewayInv => TypeOK
    BY DEF GatewayInv, TypeOK, EnvironmentSound, RequestSound, PoolSound
  <1> QED  BY <1>1, GatewayInvariant, PTL

(* When the goroutines of an attempt are gone, its lease was reported, its *)
(* error body settled, its event recorded once, its transport given back   *)
(* and its response body closed; a finished request leaves only background *)
(* readers, and no answer only to a client that is gone.                   *)
THEOREM GatewaySettles == Spec => []AttemptsSettled
  <1>1. ASSUME GatewayInv PROVE AttemptsSettled
    <2>1. req.pc = "done" /\ req.answer = "none" => canceled
      BY <1>1 DEF GatewayInv, RequestSound
    <2>2. ASSUME NEW n \in Attempt
          PROVE  /\ req.pc = "done" => att[n].owner \in {"nobody", "background"}
                 /\ att[n].owner = "nobody" => NobodySound(att[n])
      <3>1. AttemptSound(n, att[n], req, canceled, shutdown)
        BY <1>1 DEF GatewayInv
      <3> QED  BY <3>1 DEF AttemptSound, AttemptType, Waiting, Executing, Before, Calling,
                           Copying, Buffering
    <2> QED  BY <2>1, <2>2 DEF AttemptsSettled, NobodySound, Nothing
  <1> QED  BY <1>1, GatewayInvariant, PTL

(* A transport is counted by exactly the attempts that use it, and closed  *)
(* exactly when it is retired and nobody uses it.                          *)
THEOREM GatewayCountsTransports == Spec => []TransportsCounted
  <1>1. ASSUME GatewayInv PROVE TransportsCounted
    <2>1. \A e \in Entry : pool.refs[e] = Cardinality({n \in Attempt : att[n].entry = e})
      BY <1>1 DEF GatewayInv, Counted, Users
    <2>2. ASSUME NEW e \in Entry PROVE pool.idleClosed[e] <=> e \in FreeEntries(pool)
      BY <1>1 DEF GatewayInv, PoolSound, FreeEntries
    <2> QED  BY <2>1, <2>2 DEF TransportsCounted
  <1> QED  BY <1>1, GatewayInvariant, PTL

(* The client's departure does not cut off an error body that is read      *)
(* beside or after its request, and reaches the final copy of an error     *)
(* although the hook ran in vain while the attempt was detached.           *)
THEOREM GatewayCancelsFinalRead == Spec => []CancelReachesFinalRead
  <1>1. ASSUME GatewayInv PROVE CancelReachesFinalRead
    <2>1. ASSUME NEW n \in Attempt, att[n].owner = "background"
          PROVE  att[n].control.stopped \notin {"client_canceled", "response_idle_timeout"}
      BY <1>1, <2>1, BackgroundTyped DEF BackgroundSound
    <2>2. ASSUME req.last # 0, req.pc \in {"copy", "copying", "write"}
          PROVE  att[req.last].control.clientHook \/ att[req.last].control.stopped # Running
      <3>1. req.pc \in Copying /\ req.pc \notin Before
        BY <2>2 DEF Copying, Before
      <3>2. ExecutorSound(att[Current], req, canceled, shutdown) /\ Current = CurrentOf(req)
        BY <1>1, <3>1, CopySound
      <3>3. Current = req.last
        BY <1>1, <2>2, <3>1, <3>2, RequestTyped DEF RequestSound, CurrentOf
      <3> QED  BY <2>2, <3>1, <3>2, <3>3 DEF ExecutorSound, Hooked
    <2> QED  BY <2>1, <2>2 DEF CancelReachesFinalRead
  <1> QED  BY <1>1, GatewayInvariant, PTL

(* A timeout stops an attempt only after the deadline in force has passed, *)
(* however late an old callback of the timer comes.                        *)
THEOREM GatewayTimesOutLate == Spec => NoEarlyTimeout
  <1>1. ASSUME GatewayInv, [Next]_vars
        PROVE  [\A n \in Attempt :
                   LET c == att[n].control
                       d == att'[n].control
                   IN  (c.stopped = Running /\ d.stopped \in TimeoutReason) =>
                           c.expired /\ c.timerReason = d.stopped]_vars
    BY <1>1, NextSound DEF StepSound, AttemptsFair, Timely
  <1> QED  BY <1>1, GatewayInvariant, PTL DEF Spec, NoEarlyTimeout

(* A provider is blamed for what ended its attempt first, unless the       *)
(* gateway shuts down.                                                     *)
THEOREM GatewayBlamesFairly == Spec => BlameMatchesVerdict
  <1>1. ASSUME GatewayInv, [Next]_vars
        PROVE  [\A n \in Attempt :
                   LET a == att[n]
                       b == att'[n]
                       v == b.control.result
                   IN  (a.report = "leased" /\ b.report # "leased" /\ a.started /\ ~shutdown) =>
                           /\ IsHealthFailure(b.report) => v \in {NoVerdict, Verdict(v.reason, b.report)}
                           /\ IsHealthFailure(v.class) => b.report \in {v.class, "neutral"}]_vars
    BY <1>1, NextSound DEF StepSound, AttemptsFair, Blamed
  <1> QED  BY <1>1, GatewayInvariant, PTL DEF Spec, BlameMatchesVerdict

==============================================================================
