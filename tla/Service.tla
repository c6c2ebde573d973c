------------------------------- MODULE Service ------------------------------
(***************************************************************************)
(* The service around the gateway: the application's life cycle, its log   *)
(* files with their history reader, and the log broker with its streams,   *)
(* composed.  A log record is written to the file and then published; the  *)
(* restart that fails logs a record itself; Close closes the broker, then  *)
(* shuts the server down and waits for the streams, then closes the log.   *)
(*                                                                         *)
(* A successful restart replaces the process: every variable but the files *)
(* starts again, and the streams of the old process are over.  budget is   *)
(* what the environment may still do; Budgets are the mixes of events a    *)
(* model explores.                                                         *)
(***************************************************************************)
EXTENDS LogBroker, LogReader, AppLifecycle

CONSTANTS
    Budgets,       \* bounds: records logged, clock values, system calls of the log and
                   \* accepts that fail, streams, restarts, execs that fail, boots,
                   \* pages, calls of Close
    HistoryFilters,
    Limits,        \* page sizes
    BootClock      \* "forward" or "any": where a new process finds the clock

ASSUME ServiceAssumption ==
    /\ LogKinds = Kinds /\ "service" \in Kinds
    /\ Budgets \subseteq [lines: Nat, clock: 1..MaxTime, faults: Nat, accepts: Nat, streams: Nat,
                            restarts: Nat, execs: Nat, boots: Nat, pages: Nat, closes: Nat]
    /\ BootClock \in {"forward", "any"}

VARIABLES
    connection,   \* the server a stream is connected to
    history,      \* a client that pages through the log history
    budget

serviceVars == <<brokerVars, logVars, lifeVars, connection, history, budget>>

Spend(what, n) ==
    /\ budget[what] >= n
    /\ budget' = [budget EXCEPT ![what] = @ - n]

NoHistory == [pc |-> "idle", filter |-> {}, limit |-> 0, cursor |-> <<>>, got |-> <<>>, kept |-> {}]

Init ==
    /\ BrokerInit /\ LogFilesInit /\ AppInit
    /\ connection = [s \in Streams |-> 0]
    /\ history = NoHistory
    /\ budget \in Budgets

-----------------------------------------------------------------------------
(* The times the clock may show: after what an earlier process logged.     *)
Clock == {t \in (sequence.floor + 1)..MaxTime : t <= budget.clock \/ t = sequence.floor + 1}

(* Logging: logger.log, the file write and the start of Publish.  The log  *)
(* lock is held until Publish returns, so the writer must be idle.         *)
Log(kind, faults) ==
    \E now \in Clock :
       LET r == Handle(published + 1, kind, now)
       IN  \E outcome \in Writes(files, LineOf(r)) :
              /\ outcome.faults = faults
              /\ writer.pc = "idle"
              /\ WriteRecord(r, outcome)
              /\ IF outcome.ok
                 THEN Publish([line |-> published + 1, kind |-> kind])
                 ELSE UNCHANGED brokerVars

(* recordGatewayEvent, of some request.                                    *)
LogEvent ==
    /\ Called /\ budget.lines > 0
    /\ \E kind \in Kinds \ {"service"}, faults \in 0..budget.faults :
          /\ Log(kind, faults)
          /\ budget' = [budget EXCEPT !.lines = @ - 1, !.faults = @ - faults]
    /\ UNCHANGED <<lifeVars, connection, history>>

(* New logs that the service listens.                                      *)
LogListening ==
    /\ LogsListening
    /\ \E faults \in 0..budget.faults : Log("service", faults) /\ Spend("faults", faults)
    /\ UNCHANGED <<connection, history>>

(* New returns, and Serve is called.                                       *)
LoggedListening ==
    /\ CallServe /\ writer.pc = "idle"
    /\ UNCHANGED <<brokerVars, logVars, connection, history, budget>>

(* recoverRestartFailure logs before it signals.                           *)
LogRestartFailed ==
    /\ LogsRecovery
    /\ \E faults \in 0..budget.faults : Log("service", faults) /\ Spend("faults", faults)
    /\ UNCHANGED <<connection, history>>

LoggedRestartFailed ==
    /\ RecoveryLogged /\ writer.pc = "idle"
    /\ UNCHANGED <<brokerVars, logVars, connection, history, budget>>

LogStep == LogListening \/ LoggedListening \/ LogRestartFailed \/ LoggedRestartFailed

-----------------------------------------------------------------------------
(* The streams.                                                            *)

(* A client opens the log stream on the server that is accepting; which of *)
(* the requests not made yet stands for it makes no difference.            *)
Connect(s) ==
    /\ handler[s].pc = "new" /\ s = CHOOSE t \in Streams : handler[t].pc = "new"
    /\ serve.pc = "accept" /\ serve.at \notin servers.shut
    /\ \E filter \in Filters : Subscribe(s, filter)
    /\ connection' = [connection EXCEPT ![s] = serve.at]
    /\ Spend("streams", 1)
    /\ UNCHANGED <<logVars, lifeVars, history>>

BrokerOnly(step) == step /\ UNCHANGED <<logVars, lifeVars, connection, history, budget>>

PublishStep == BrokerOnly(WriterStep)

DispatchStep == BrokerOnly(DispatcherStep)

StreamReads(s) == BrokerOnly(Receive(s) \/ SeeClosed(s) \/ Unsubscribe(s))

StreamWrites(s) == BrokerOnly(Written(s))

StreamLeaves(s) == BrokerOnly(Leave(s))

(* A connection of a server that was closed is interrupted.                *)
StreamKilled(s) == connection[s] \in servers.killed /\ StreamLeaves(s)

-----------------------------------------------------------------------------
(* The history.                                                            *)

Readable(file) ==
    IF file = Missing THEN {}
    ELSE {file[i].of : i \in {j \in DOMAIN file :
            /\ j + ContentBytes - 1 <= Len(file)
            /\ j = 1 \/ file[j - 1] = NewLine
            /\ Parses(SubSeq(file, j, j + ContentBytes - 1))
            /\ j + ContentBytes > Len(file) \/ file[j + ContentBytes] = NewLine}}

Retained == Readable(files.active) \cup Readable(files.archive)

(* handleLogs: the first page, or the next one from the cursor of the last *)
(* record of the page before.                                              *)
Page ==
    /\ Spend("pages", 1)
    /\ \E filter \in HistoryFilters, limit \in Limits :
          /\ history.pc = "more" => filter = history.filter /\ limit = history.limit
          /\ history.pc # "done"
          /\ LET page == Query(files, filter, limit, history.cursor)
                 got == history.got \o page.items
             IN  history' =
                   [pc |-> IF page.hasMore THEN "more" ELSE "done",
                    filter |-> filter, limit |-> limit,
                    cursor |-> IF page.hasMore
                               THEN <<[time |-> got[Len(got)].time, seq |-> got[Len(got)].seq]>>
                               ELSE <<>>,
                    got |-> got,
                    kept |-> IF history.pc = "idle" THEN Retained ELSE history.kept \cap Retained]
    /\ UNCHANGED <<brokerVars, logVars, lifeVars, connection>>

-----------------------------------------------------------------------------
(* The life cycle.                                                         *)

LifeOnly(step) == step /\ UNCHANGED <<brokerVars, logVars, connection, history>>

Serving == LifeOnly(ServeStep) /\ UNCHANGED budget

AcceptFails == LifeOnly(ServeFails) /\ Spend("accepts", 1)

Closes == LifeOnly(CloseBegin) /\ Spend("closes", 1)

ClosesBroker ==
    /\ \/ CloseMoves("broker", "dispatcher") /\ CloseSubscriptions
       \/ CloseMoves("dispatcher", "shutdown") /\ StopDispatcher
    /\ UNCHANGED <<logVars, connection, history, budget>>

(* Shutdown returns once the streams of the server are over ...            *)
Drained == \A s \in Streams : connection[s] = closer.at => handler[s].pc = "ended"

(* Mutation: Shutdown waits without a deadline.                            *)
WrongDrainTimeout ==
    /\ Drained
    /\ LifeOnly(CloseMoves("drain", "listener")) /\ UNCHANGED budget

(* ... or when its context expires.                                        *)
DrainTimeout == LifeOnly(CloseMoves("drain", "listener")) /\ UNCHANGED budget

ClosesServer ==
    /\ LifeOnly(CloseShutdown \/ (Drained /\ CloseMoves("drain", "listener")) \/ CloseListener)
    /\ UNCHANGED budget

ClosesLogs ==
    /\ CloseMoves("logs", "gateway") /\ CloseWriter
    /\ UNCHANGED <<brokerVars, connection, history, budget>>

ClosesRest == LifeOnly(CloseMoves("gateway", "resume") \/ CloseResume) /\ UNCHANGED budget

Restarts == LifeOnly(RestartBegin) /\ Spend("restarts", 1)

Restarting ==
    \/ LifeOnly(RestartStep) /\ UNCHANGED budget
    \/ LifeOnly(ExecFails) /\ Spend("execs", 1)

(* The process image is replaced, and New runs in the new one.             *)
Latest ==
    LET times == {r.time : r \in Retained}
    IN  IF BootClock = "any" \/ times = {} THEN 0 ELSE CHOOSE t \in times : \A u \in times : u <= t

Boot ==
    /\ Replace /\ Spend("boots", 1)
    /\ OpenWriter(files, Latest)
    /\ writer' = IdleWriter /\ queue' = <<>> /\ queueBytes' = 0 /\ dispatcher' = IdleDispatcher
    /\ subscribers' = {} /\ dropped' = [s \in Streams |-> 0] /\ channel' = [s \in Streams |-> <<>>]
    /\ closed' = FALSE /\ stopped' = FALSE
    /\ handler' = [s \in Streams |-> IF handler[s].pc = "new" THEN handler[s]
                                     ELSE [handler[s] EXCEPT !.pc = "ended", !.hand = Nothing]]
    /\ UNCHANGED <<published, connection, history>>

Next ==
    \/ LogEvent \/ LogStep \/ PublishStep \/ DispatchStep
    \/ \E s \in Streams : Connect(s) \/ StreamReads(s) \/ StreamWrites(s) \/ StreamLeaves(s)
    \/ Page
    \/ Serving \/ AcceptFails
    \/ Closes \/ ClosesBroker \/ DrainTimeout \/ ClosesServer \/ ClosesLogs \/ ClosesRest
    \/ Restarts \/ Restarting \/ Boot

(* Every goroutine of the process keeps running; a client may stop reading *)
(* for good, and nobody has to call Close, log or restart.                 *)
Fairness ==
    /\ WF_serviceVars(LogStep) /\ WF_serviceVars(PublishStep) /\ WF_serviceVars(DispatchStep)
    /\ WF_serviceVars(Serving) /\ WF_serviceVars(Restarting)
    /\ WF_serviceVars(ClosesBroker) /\ WF_serviceVars(ClosesServer) /\ WF_serviceVars(DrainTimeout)
    /\ WF_serviceVars(ClosesLogs) /\ WF_serviceVars(ClosesRest)
    /\ \A s \in Streams : WF_serviceVars(StreamReads(s)) /\ WF_serviceVars(StreamKilled(s))

Spec == Init /\ [][Next]_serviceVars /\ Fairness

-----------------------------------------------------------------------------
(* The broker and the application keep their shape, and no buffer of the   *)
(* broker grows beyond its limit (enqueue, Subscribe, deliver).            *)
TypeOK == BrokerTypeOK /\ BuffersBounded /\ AppTypeOK

(* Paging through the history shows every matching record exactly once and *)
(* in order, if it stayed in the files meanwhile: rotations, failed and    *)
(* cut writes, steps of the clock and restarts between two pages neither   *)
(* repeat a record nor skip one (Query, reverseLineReader, newestStream,   *)
(* writeTimeLocked); and a retained record is found by its reference.      *)
PagesComplete ==
    /\ \A i, j \in DOMAIN history.got : i < j => Before(history.got[j], history.got[i])
    /\ history.pc = "done" =>
         \A r \in history.kept : Match(history.filter, r) =>
            \E i \in DOMAIN history.got : history.got[i] = r
    /\ \A r \in Retained : Record(files, r) = <<r>>

(* Close ends: Serve returns and Close itself, even when the client of a   *)
(* stream never reads again and a restart is failing meanwhile.  The one   *)
(* escape is a restart that had begun before Close and whose exec is still *)
(* to come: if that succeeds, the new process is serving, since            *)
(* restartProcess does not look at closed again after beginRestart.        *)
Replacing == restarter.pc \in {"close_server", "close_listener", "exec"}

Ended == closer.pc = "done" /\ serve.pc = "returned"

Replaced == serve.pc = "listening"

CloseEnds ==
    /\ closer.pc = "broker" /\ ~Replacing ~> Ended
    /\ closer.pc = "broker" ~> Ended \/ Replaced

(* An application that was closed stays closed.  The code does not keep    *)
(* this: see CloseEnds.                                                    *)
ClosedStaysClosed == [][life.closed => life'.closed]_serviceVars

(* TestSelfExecFailureRebindsOldListenerAndKeepsServing (app_test.go):     *)
(* after a restart that failed and bound the listener again, Serve serves  *)
(* it, unless the application is closed or accepting fails.                *)
RestartRecovers ==
    restarter.pc = "log" ~>
        \/ serve.pc = "accept" /\ serve.at = life.current
        \/ life.closed \/ life.restarting \/ serve.pc = "failed"

(* reader.go on ErrRecordNotFound: "The record was rotated away, which is  *)
(* an ordinary outcome": a record whose bytes are still in a file, written *)
(* completely and published, is found by its reference.                    *)
WrittenIsRetained ==
    \A file \in {files.active, files.archive} \ {Missing} :
       \A i \in 1..(Len(file) - ContentBytes) :
          Parses(SubSeq(file, i, i + ContentBytes - 1)) /\ file[i + ContentBytes] = NewLine =>
             Record(files, file[i].of) # <<>>

============================================================================
