---------------------------- MODULE AppLifecycle ----------------------------
(***************************************************************************)
(* The life cycle of the application (internal/app): the goroutine in      *)
(* Serve, a call of Close, and the goroutine that restarts the process and *)
(* takes the old listener back when that fails.  The three share the       *)
(* fields under lifecycleMu, the servers, the listeners and a one-place    *)
(* resume channel.                                                         *)
(*                                                                         *)
(* A server and the listener made with it carry the same number.  Of       *)
(* net/http the model uses that Serve closes its listener when it returns, *)
(* that it returns ErrServerClosed on a server that was shut down before   *)
(* or meanwhile, and that shutting a server down closes the listeners it   *)
(* serves.                                                                 *)
(***************************************************************************)
EXTENDS Integers

VARIABLES
    life,       \* the fields under lifecycleMu
    servers,    \* shut: shut down; killed: with their connections closed
    listening,  \* the listeners that are open
    made,       \* number of the last server or listener made
    resume,     \* messages in App.resume
    serve,      \* the goroutine in Serve
    closer,     \* the goroutine in Close
    restarter   \* the goroutine in restartProcess

lifeVars == <<life, servers, listening, made, resume, serve, closer, restarter>>

AppTypeOK ==
    /\ life \in [closed: BOOLEAN, restarting: BOOLEAN, current: Nat]
    /\ servers.killed \subseteq servers.shut /\ servers.shut \subseteq 1..made
    /\ listening \subseteq 1..made
    /\ made \in Nat \ {0} /\ resume \in 0..1
    /\ serve \in [pc: {"listening", "logging", "top", "enter", "accept", "closed", "failed", "wait",
                       "poll", "returned"}, at: Nat]
    /\ closer \in [pc: {"idle", "broker", "dispatcher", "shutdown", "drain", "listener", "logs",
                        "gateway", "resume", "done"}, at: Nat]
    /\ restarter \in [pc: {"idle", "close_server", "close_listener", "exec", "bind", "bound",
                           "undo", "log", "logging", "resume"}, at: Nat, old: Nat]

(* New has acquired its resources; it logs that it listens, and returns.   *)
Started(n) ==
    [life |-> [closed |-> FALSE, restarting |-> FALSE, current |-> n],
     serve |-> [pc |-> "listening", at |-> 0],
     closer |-> [pc |-> "idle", at |-> 0],
     restarter |-> [pc |-> "idle", at |-> 0, old |-> 0]]

AppInit ==
    /\ life = Started(1).life /\ serve = Started(1).serve
    /\ closer = Started(1).closer /\ restarter = Started(1).restarter
    /\ servers = [shut |-> {}, killed |-> {}]
    /\ listening = {1} /\ made = 1 /\ resume = 0

(* signalResume: a second signal is not kept.                              *)
SignalResume == resume' = 1

(* Requests and Close come once New has returned, and the restart that a   *)
(* request asked for once its server was reached.                          *)
Called == serve.pc \notin {"listening", "logging"}

Reached == serve.at = life.current /\ serve.pc \in {"accept", "failed", "returned"}

Resumes == resume = 1 /\ resume' = 0

-----------------------------------------------------------------------------
(* Serve.                                                                  *)

(* The top of the loop reads the server and the listener under the lock.   *)
ServeTop ==
    /\ serve.pc = "top"
    /\ serve' = IF life.closed \/ life.current = 0
                THEN [serve EXCEPT !.pc = "returned"]
                ELSE [pc |-> "enter", at |-> life.current]
    /\ UNCHANGED <<life, servers, listening, made, resume, closer, restarter>>

(* server.Serve registers the listener, or finds the server shut down.     *)
ServeEnter ==
    /\ serve.pc = "enter"
    /\ \/ /\ serve.at \in servers.shut
          /\ serve' = [serve EXCEPT !.pc = "closed"]
          /\ listening' = listening \ {serve.at}
       \/ /\ serve.at \notin servers.shut
          /\ serve' = [serve EXCEPT !.pc = "accept"]
          /\ UNCHANGED listening
    /\ UNCHANGED <<life, servers, made, resume, closer, restarter>>

(* server.Serve returns because the server was shut down.                  *)
ServeClosed ==
    /\ serve.pc = "accept" /\ serve.at \in servers.shut
    /\ serve' = [serve EXCEPT !.pc = "closed"]
    /\ listening' = listening \ {serve.at}
    /\ UNCHANGED <<life, servers, made, resume, closer, restarter>>

(* server.Serve returns because accepting failed.                          *)
ServeFails ==
    /\ serve.pc = "accept" /\ serve.at \notin servers.shut
    /\ serve' = [serve EXCEPT !.pc = "failed"]
    /\ listening' = listening \ {serve.at}
    /\ UNCHANGED <<life, servers, made, resume, closer, restarter>>

(* After ErrServerClosed the lock is taken again: during a restart Serve   *)
(* waits, after Close it returns, otherwise it looks once at the channel.  *)
ServeDecide ==
    /\ serve.pc = "closed"
    /\ serve' = [serve EXCEPT !.pc = IF life.closed THEN "returned"
                                     ELSE IF life.restarting THEN "wait" ELSE "poll"]
    /\ UNCHANGED <<life, servers, listening, made, resume, closer, restarter>>

ServeWait ==
    /\ serve.pc = "wait"
    /\ \/ Resumes /\ serve' = [serve EXCEPT !.pc = "top"]
       \/ life.closed /\ serve' = [serve EXCEPT !.pc = "returned"] /\ UNCHANGED resume
    /\ UNCHANGED <<life, servers, listening, made, closer, restarter>>

(* A select with a default: with nothing to receive Serve returns.         *)
ServePoll ==
    /\ serve.pc \in {"poll", "failed"}
    /\ \/ Resumes /\ serve' = [serve EXCEPT !.pc = "top"]
       \/ /\ life.closed \/ resume = 0
          /\ serve' = [serve EXCEPT !.pc = "returned"]
          /\ UNCHANGED resume
    /\ UNCHANGED <<life, servers, listening, made, closer, restarter>>

(* New logs that the service listens; it returns, and Serve is called.     *)
LogsListening ==
    /\ serve.pc = "listening"
    /\ serve' = [serve EXCEPT !.pc = "logging"]
    /\ UNCHANGED <<life, servers, listening, made, resume, closer, restarter>>

CallServe ==
    /\ serve.pc = "logging"
    /\ serve' = [serve EXCEPT !.pc = "top"]
    /\ UNCHANGED <<life, servers, listening, made, resume, closer, restarter>>

ServeStep == ServeTop \/ ServeEnter \/ ServeClosed \/ ServeDecide \/ ServeWait \/ ServePoll

-----------------------------------------------------------------------------
(* Close, of the application New has returned, up to the broker it closes  *)
(* next.  done is closed with the flag.                                    *)
CloseBegin ==
    /\ Called /\ closer.pc = "idle" /\ ~life.closed
    /\ life' = [life EXCEPT !.closed = TRUE]
    /\ closer' = [pc |-> "broker", at |-> life.current]
    /\ UNCHANGED <<servers, listening, made, resume, serve, restarter>>

(* A server is shut down: what it serves is closed.                        *)
Shut(n) ==
    listening' = IF serve.pc = "accept" /\ serve.at = n THEN listening \ {n} ELSE listening

(* Shutdown; a nil server is skipped.                                      *)
CloseShutdown ==
    /\ closer.pc = "shutdown"
    /\ \/ /\ closer.at = 0
          /\ closer' = [closer EXCEPT !.pc = "logs"]
          /\ UNCHANGED <<servers, listening>>
       \/ /\ closer.at # 0
          /\ closer' = [closer EXCEPT !.pc = "drain"]
          /\ servers' = [servers EXCEPT !.shut = @ \cup {closer.at}]
          /\ Shut(closer.at)
    /\ UNCHANGED <<life, made, resume, serve, restarter>>

(* The steps of Close that only move on: Shutdown has drained, or given up *)
(* after five seconds; the gateway is closed.                              *)
CloseMoves(from, to) ==
    /\ closer.pc = from
    /\ closer' = [closer EXCEPT !.pc = to]
    /\ UNCHANGED <<life, servers, listening, made, resume, serve, restarter>>

CloseListener ==
    /\ closer.pc = "listener"
    /\ listening' = listening \ {closer.at}
    /\ closer' = [closer EXCEPT !.pc = "logs"]
    /\ UNCHANGED <<life, servers, made, resume, serve, restarter>>

CloseResume ==
    /\ closer.pc = "resume"
    /\ SignalResume
    /\ closer' = [closer EXCEPT !.pc = "done"]
    /\ UNCHANGED <<life, servers, listening, made, serve, restarter>>

-----------------------------------------------------------------------------
(* beginRestart, called once the new configuration waits in the pending    *)
(* file.                                                                   *)
RestartBegin ==
    /\ Reached /\ restarter.pc = "idle" /\ ~life.closed /\ ~life.restarting
    /\ life' = [life EXCEPT !.restarting = TRUE]
    /\ restarter' = [pc |-> "close_server", at |-> 0, old |-> life.current]
    /\ UNCHANGED <<servers, listening, made, resume, serve, closer>>

(* server.Close interrupts the connections; a nil server is skipped.       *)
RestartCloseServer ==
    /\ restarter.pc = "close_server"
    /\ servers' = [shut |-> servers.shut \cup ({restarter.old} \ {0}),
                   killed |-> servers.killed \cup ({restarter.old} \ {0})]
    /\ Shut(restarter.old)
    /\ restarter' = [restarter EXCEPT !.pc = "close_listener"]
    /\ UNCHANGED <<life, made, resume, serve, closer>>

RestartCloseListener ==
    /\ restarter.pc = "close_listener"
    /\ listening' = listening \ {restarter.old}
    /\ restarter' = [restarter EXCEPT !.pc = "exec"]
    /\ UNCHANGED <<life, servers, made, resume, serve, closer>>

(* The process image could not be replaced.                                *)
ExecFails ==
    /\ restarter.pc = "exec"
    /\ restarter' = [restarter EXCEPT !.pc = "bind"]
    /\ UNCHANGED <<life, servers, listening, made, resume, serve, closer>>

(* recoverRestartFailure binds the old address again ...                   *)
Rebind ==
    /\ restarter.pc = "bind"
    /\ made' = made + 1
    /\ listening' = listening \cup {made + 1}
    /\ restarter' = [restarter EXCEPT !.pc = "bound", !.at = made + 1]
    /\ UNCHANGED <<life, servers, resume, serve, closer>>

(* ... or cannot, and gives up.                                            *)
RebindFails ==
    /\ restarter.pc = "bind"
    /\ life' = [life EXCEPT !.restarting = FALSE, !.current = 0]
    /\ restarter' = [restarter EXCEPT !.pc = "resume"]
    /\ UNCHANGED <<servers, listening, made, resume, serve, closer>>

(* Mutation: Close is not noticed.                                         *)
WrongRecover ==
    /\ restarter.pc = "bound"
    /\ life' = [life EXCEPT !.restarting = FALSE, !.current = restarter.at]
    /\ restarter' = [restarter EXCEPT !.pc = "log"]
    /\ UNCHANGED <<servers, listening, made, resume, serve, closer>>

(* The new listener replaces the old one unless the application is closed. *)
Recover ==
    /\ restarter.pc = "bound"
    /\ life' = [life EXCEPT !.restarting = FALSE,
                            !.current = IF life.closed THEN @ ELSE restarter.at]
    /\ restarter' = [restarter EXCEPT !.pc = IF life.closed THEN "undo" ELSE "log"]
    /\ UNCHANGED <<servers, listening, made, resume, serve, closer>>

RecoverUndo ==
    /\ restarter.pc = "undo"
    /\ listening' = listening \ {restarter.at}
    /\ restarter' = [restarter EXCEPT !.pc = "resume"]
    /\ UNCHANGED <<life, servers, made, resume, serve, closer>>

(* A listener that was bound again is logged before Serve is told.         *)
LogsRecovery ==
    /\ restarter.pc = "log"
    /\ restarter' = [restarter EXCEPT !.pc = "logging"]
    /\ UNCHANGED <<life, servers, listening, made, resume, serve, closer>>

RecoveryLogged ==
    /\ restarter.pc = "logging"
    /\ restarter' = [restarter EXCEPT !.pc = "resume"]
    /\ UNCHANGED <<life, servers, listening, made, resume, serve, closer>>

RecoverResume ==
    /\ restarter.pc = "resume"
    /\ SignalResume
    /\ restarter' = [pc |-> "idle", at |-> 0, old |-> 0]
    /\ UNCHANGED <<life, servers, listening, made, serve, closer>>

RestartStep ==
    \/ RestartCloseServer \/ RestartCloseListener \/ Rebind \/ RebindFails
    \/ Recover \/ RecoverUndo \/ RecoverResume

(* The process image is replaced: New makes a server and a listener, and   *)
(* nothing else of the old process is left.                                *)
Replace ==
    /\ restarter.pc = "exec"
    /\ made' = made + 1 /\ listening' = {made + 1}
    /\ life' = Started(made + 1).life /\ serve' = Started(made + 1).serve
    /\ closer' = Started(made + 1).closer /\ restarter' = Started(made + 1).restarter
    /\ resume' = 0
    /\ UNCHANGED servers

-----------------------------------------------------------------------------
(* The life cycle on its own: what logging, the broker and the streams add *)
(* only delays it.                                                         *)
CloseStep ==
    \/ CloseMoves("broker", "dispatcher") \/ CloseMoves("dispatcher", "shutdown")
    \/ CloseShutdown \/ CloseMoves("drain", "listener") \/ CloseListener
    \/ CloseMoves("logs", "gateway") \/ CloseMoves("gateway", "resume") \/ CloseResume

LifeNext ==
    \/ LogsListening \/ CallServe \/ ServeStep \/ ServeFails
    \/ CloseBegin \/ CloseStep
    \/ RestartBegin \/ RestartStep \/ ExecFails \/ LogsRecovery \/ RecoveryLogged \/ Replace

LifeSpec == AppInit /\ [][LifeNext]_lifeVars

(* Once Close, a restart under way and Serve have all returned, no         *)
(* listener is left open: the one a failed restart binds again is closed   *)
(* by exactly one of them (Close, recoverRestartFailure, Serve).           *)
ListenersReleased ==
    closer.pc = "done" /\ restarter.pc = "idle" /\ serve.pc = "returned" => listening = {}

============================================================================
