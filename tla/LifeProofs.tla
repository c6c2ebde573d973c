----------------------------- MODULE LifeProofs -----------------------------
(***************************************************************************)
(* Proofs about the application's life cycle, for any number of restarts:  *)
(* its state has the declared shape, and once Close and a restart under    *)
(* way have returned no listener is left open.                             *)
(***************************************************************************)
EXTENDS AppLifecycle, TLAPS

(* The shapes of the goroutines.                                           *)
LifeType == [closed: BOOLEAN, restarting: BOOLEAN, current: Nat]
ServersType == [shut: SUBSET Nat, killed: SUBSET Nat]
ServeType ==
    [pc: {"listening", "logging", "top", "enter", "accept", "closed", "failed", "wait", "poll",
          "returned"}, at: Nat]
CloserType ==
    [pc: {"idle", "broker", "dispatcher", "shutdown", "drain", "listener", "logs", "gateway",
          "resume", "done"}, at: Nat]
RestarterType ==
    [pc: {"idle", "close_server", "close_listener", "exec", "bind", "bound", "undo", "log",
          "logging", "resume"}, at: Nat, old: Nat]

Shapes ==
    /\ life \in LifeType /\ servers \in ServersType /\ serve \in ServeType
    /\ closer \in CloserType /\ restarter \in RestarterType
    /\ made \in Nat \ {0} /\ resume \in 0..1

(* A goroutine only names servers that were made.                          *)
Numbered ==
    /\ servers.killed \subseteq servers.shut /\ servers.shut \subseteq 1..made
    /\ listening \subseteq 1..made
    /\ life.current <= made /\ closer.at <= made /\ restarter.old <= made /\ restarter.at <= made

(* The listener the restarter has bound and not handed over yet.           *)
Bound == IF restarter.pc \in {"bound", "undo"} THEN {restarter.at} ELSE {}

(* An open listener is the current one or the restarter's: a restart has   *)
(* closed the old listener before it makes another one current, and Close, *)
(* which keeps the server it read, finds that one still current or none.   *)
Tracked ==
    /\ listening \subseteq {life.current} \cup Bound
    /\ life.closed <=> closer.pc # "idle"
    /\ closer.pc # "idle" => closer.at = life.current \/ life.current = 0
    /\ life.current = 0 => listening \subseteq Bound
    /\ restarter.pc \notin {"idle", "log", "logging", "resume", "undo"} =>
          restarter.old = life.current /\ life.restarting
    /\ restarter.pc \in {"exec", "bind", "bound"} => life.current \notin listening
    /\ restarter.pc = "undo" => life.closed
    /\ closer.pc \in {"logs", "gateway", "resume", "done"} => life.current \notin listening

LifeInv == Shapes /\ Numbered /\ Tracked

LEMMA ShapesInit ==
    ASSUME AppInit
    PROVE  LifeInv
<1>1. life = [closed |-> FALSE, restarting |-> FALSE, current |-> 1] /\ serve = [pc |-> "listening", at |-> 0]
      /\ closer = [pc |-> "idle", at |-> 0] /\ restarter = [pc |-> "idle", at |-> 0, old |-> 0]
      /\ servers = [shut |-> {}, killed |-> {}] /\ listening = {1} /\ made = 1 /\ resume = 0
  BY DEF AppInit, Started
<1>2. Shapes
  BY <1>1 DEF Shapes, LifeType, ServersType, ServeType, CloserType, RestarterType
<1>3. Numbered /\ Tracked
  BY <1>1 DEF Numbered, Tracked, Bound
<1>4. QED
  BY <1>2, <1>3 DEF LifeInv

(* Serve's own steps: listeners are closed, nothing else of it matters.    *)
LEMMA ServeKeeps ==
    ASSUME LifeInv, UNCHANGED <<life, servers, made, closer, restarter>>,
           serve' \in ServeType, resume' \in 0..1, listening' \subseteq listening
    PROVE  LifeInv'
BY DEF LifeInv, Shapes, Numbered, Tracked, Bound

LEMMA NextLife ==
    ASSUME LifeInv, [LifeNext]_lifeVars
    PROVE  LifeInv'
<1>0. Shapes /\ Numbered /\ Tracked
  BY DEF LifeInv
<1>1. CASE UNCHANGED lifeVars
  BY <1>1 DEF lifeVars, LifeInv, Shapes, Numbered, Tracked, Bound
<1>2. CASE LogsListening \/ CallServe
  <2>1. serve' \in ServeType /\ UNCHANGED <<life, servers, listening, made, resume, closer, restarter>>
    BY <1>0, <1>2 DEF LogsListening, CallServe, Shapes, ServeType
  <2>2. QED
    BY <1>0, <2>1, ServeKeeps DEF Shapes
<1>3. CASE ServeStep \/ ServeFails
  <2>1. /\ UNCHANGED <<life, servers, made, closer, restarter>> /\ listening' \subseteq listening
        /\ resume' = resume \/ resume' = 0
    BY <1>3 DEF ServeStep, ServeTop, ServeEnter, ServeClosed, ServeFails, ServeDecide, ServeWait,
                ServePoll, Resumes
  <2>2. serve' \in ServeType
    <3>1. life.current \in Nat
      BY <1>0 DEF Shapes, LifeType
    <3>2. QED
      BY <1>0, <1>3, <3>1 DEF ServeStep, ServeTop, ServeEnter, ServeClosed, ServeFails, ServeDecide,
                              ServeWait, ServePoll, Shapes, ServeType
  <2>3. QED
    BY <1>0, <2>1, <2>2, ServeKeeps DEF Shapes
<1>4. CASE CloseBegin
  <2>1. /\ closer.pc = "idle" /\ ~life.closed
        /\ life' = [life EXCEPT !.closed = TRUE] /\ closer' = [pc |-> "broker", at |-> life.current]
        /\ UNCHANGED <<servers, listening, made, resume, serve, restarter>>
    BY <1>4 DEF CloseBegin
  <2>2. /\ life' \in LifeType /\ life'.closed = TRUE /\ life'.current = life.current
        /\ life'.restarting = life.restarting
    BY <1>0, <2>1 DEF Shapes, LifeType
  <2>3. closer' \in CloserType /\ closer'.pc = "broker" /\ closer'.at = life.current
    BY <1>0, <2>1 DEF Shapes, LifeType, CloserType
  <2>4. QED
    BY <1>0, <2>1, <2>2, <2>3 DEF LifeInv, Shapes, Numbered, Tracked, Bound
<1>5. ASSUME NEW to, closer' = [closer EXCEPT !.pc = to], closer.pc # "idle",
             to \in {"dispatcher", "shutdown", "drain", "listener", "logs", "gateway", "resume", "done"},
             servers' \in ServersType, servers'.killed \subseteq servers'.shut,
             servers'.shut \subseteq 1..made,
             UNCHANGED <<life, made, serve, restarter>>, resume' \in 0..1, listening' \subseteq listening,
             to \in {"logs", "gateway", "resume", "done"} => life.current \notin listening'
      PROVE  LifeInv'
  <2>1. closer' \in CloserType /\ closer'.pc = to /\ closer'.at = closer.at
    BY <1>0, <1>5 DEF Shapes, CloserType
  <2>2. QED
    BY <1>0, <1>5, <2>1 DEF LifeInv, Shapes, Numbered, Tracked, Bound
<1>6. ASSUME NEW from \in {"broker", "dispatcher", "drain", "logs", "gateway"},
             NEW to \in {"dispatcher", "shutdown", "listener", "gateway", "resume"},
             to \in {"gateway", "resume"} => from \in {"logs", "gateway"},
             CloseMoves(from, to)
      PROVE  LifeInv'
  BY <1>0, <1>5, <1>6 DEF CloseMoves, Shapes, Numbered, Tracked
<1>7. CASE CloseShutdown
  <2>1. CASE closer.at = 0 /\ UNCHANGED <<servers, listening>> /\ closer' = [closer EXCEPT !.pc = "logs"]
    <3>1. life.current \notin listening
      <4>1. life.current = 0
        BY <1>0, <1>7, <2>1 DEF CloseShutdown, Tracked
      <4>2. QED
        BY <1>0, <4>1 DEF Numbered, Shapes
    <3>2. QED
      BY <1>0, <1>5, <1>7, <2>1, <3>1 DEF CloseShutdown, Shapes, Numbered
  <2>2. CASE /\ closer.at # 0 /\ closer' = [closer EXCEPT !.pc = "drain"]
             /\ servers' = [servers EXCEPT !.shut = servers.shut \cup {closer.at}]
             /\ Shut(closer.at)
    <3>1. closer.at \in 1..made
      BY <1>0, <2>2 DEF Shapes, Numbered, CloserType
    <3>2. /\ servers' \in ServersType /\ servers'.killed = servers.killed
          /\ servers'.shut = servers.shut \cup {closer.at}
      BY <1>0, <2>2 DEF Shapes, ServersType, CloserType
    <3>3. listening' \subseteq listening
      BY <2>2 DEF Shut
    <3>4. servers'.killed \subseteq servers'.shut /\ servers'.shut \subseteq 1..made
      BY <1>0, <3>1, <3>2 DEF Numbered
    <3>5. QED
      BY <1>0, <1>5, <1>7, <2>2, <3>2, <3>3, <3>4 DEF CloseShutdown, Shapes
  <2>3. QED
    BY <1>7, <2>1, <2>2 DEF CloseShutdown
<1>8. CASE CloseListener
  <2>1. life.current \notin listening \ {closer.at}
    BY <1>0, <1>8 DEF CloseListener, Tracked, Numbered, Shapes
  <2>2. QED
    BY <1>0, <1>5, <1>8, <2>1 DEF CloseListener, Shapes, Numbered
<1>9. CASE CloseResume
  BY <1>0, <1>5, <1>9 DEF CloseResume, SignalResume, Shapes, Numbered, Tracked
<1>10. CASE RestartBegin
  <2>1. /\ ~life.closed /\ ~life.restarting /\ restarter.pc = "idle"
        /\ life' = [life EXCEPT !.restarting = TRUE]
        /\ restarter' = [pc |-> "close_server", at |-> 0, old |-> life.current]
        /\ UNCHANGED <<servers, listening, made, resume, serve, closer>>
    BY <1>10 DEF RestartBegin
  <2>2. /\ life' \in LifeType /\ life'.restarting = TRUE /\ life'.current = life.current
        /\ life'.closed = life.closed
    BY <1>0, <2>1 DEF Shapes, LifeType
  <2>3. /\ restarter' \in RestarterType /\ restarter'.pc = "close_server" /\ restarter'.at = 0
        /\ restarter'.old = life.current
    BY <1>0, <2>1 DEF Shapes, LifeType, RestarterType
  <2>4. QED
    BY <1>0, <2>1, <2>2, <2>3 DEF LifeInv, Shapes, Numbered, Tracked, Bound
(* The steps of the restarter that only move on, or close a listener. *)
<1>r. ASSUME NEW pc \in {"close_listener", "exec", "bind", "undo", "log", "logging", "resume"}
      PROVE  LET new == [restarter EXCEPT !.pc = pc]
             IN  new \in RestarterType /\ new.pc = pc /\ new.at = restarter.at /\ new.old = restarter.old
  BY <1>0 DEF Shapes, RestarterType
<1>11. CASE RestartCloseServer
  <2>1. /\ restarter.pc = "close_server" /\ restarter' = [restarter EXCEPT !.pc = "close_listener"]
        /\ servers' = [shut |-> servers.shut \cup ({restarter.old} \ {0}),
                       killed |-> servers.killed \cup ({restarter.old} \ {0})]
        /\ UNCHANGED <<life, made, resume, serve, closer>> /\ listening' \subseteq listening
    BY <1>11 DEF RestartCloseServer, Shut
  <2>2. {restarter.old} \ {0} \subseteq 1..made
    BY <1>0 DEF Shapes, Numbered, RestarterType
  <2>3. /\ servers' \in ServersType /\ servers'.killed \subseteq servers'.shut
        /\ servers'.shut \subseteq 1..made
    BY <1>0, <2>1, <2>2 DEF Shapes, Numbered, ServersType
  <2>4. QED
    BY <1>0, <1>r, <2>1, <2>3 DEF LifeInv, Shapes, Numbered, Tracked, Bound
<1>12. CASE RestartCloseListener
  <2>1. /\ restarter.pc = "close_listener" /\ restarter' = [restarter EXCEPT !.pc = "exec"]
        /\ listening' = listening \ {restarter.old}
        /\ UNCHANGED <<life, servers, made, resume, serve, closer>>
    BY <1>12 DEF RestartCloseListener
  <2>2. QED
    BY <1>0, <1>r, <2>1 DEF LifeInv, Shapes, Numbered, Tracked, Bound
<1>13. CASE ExecFails
  <2>1. /\ restarter.pc = "exec" /\ restarter' = [restarter EXCEPT !.pc = "bind"]
        /\ UNCHANGED <<life, servers, listening, made, resume, serve, closer>>
    BY <1>13 DEF ExecFails
  <2>2. QED
    BY <1>0, <1>r, <2>1 DEF LifeInv, Shapes, Numbered, Tracked, Bound
<1>14. CASE Rebind
  <2>1. /\ restarter.pc = "bind" /\ made' = made + 1 /\ listening' = listening \cup {made + 1}
        /\ restarter' = [restarter EXCEPT !.pc = "bound", !.at = made + 1]
        /\ UNCHANGED <<life, servers, resume, serve, closer>>
    BY <1>14 DEF Rebind
  <2>2. made + 1 \in Nat \ {0} /\ 1..made \subseteq 1..(made + 1) /\ made + 1 \in 1..(made + 1)
        /\ made \in Nat
    BY <1>0 DEF Shapes
  <2>3. /\ restarter' \in RestarterType /\ restarter'.pc = "bound" /\ restarter'.at = made + 1
        /\ restarter'.old = restarter.old
    BY <1>0, <2>1, <2>2 DEF Shapes, RestarterType
  <2>4. /\ life.current \in Nat /\ closer.at \in Nat /\ restarter.old \in Nat
    BY <1>0 DEF Shapes, LifeType, CloserType, RestarterType
  <2>5. /\ life.current <= made + 1 /\ life.current # made + 1
        /\ closer.at <= made + 1 /\ restarter.old <= made + 1
    BY <1>0, <2>2, <2>4 DEF Numbered
  <2>6. Numbered'
    BY <1>0, <2>1, <2>2, <2>3, <2>5 DEF Numbered
  <2>7. Tracked'
    BY <1>0, <2>1, <2>3, <2>5 DEF Tracked, Bound
  <2>8. QED
    BY <1>0, <2>1, <2>2, <2>3, <2>6, <2>7 DEF LifeInv, Shapes
<1>15. CASE RebindFails
  <2>1. /\ restarter.pc = "bind" /\ restarter' = [restarter EXCEPT !.pc = "resume"]
        /\ life' = [life EXCEPT !.restarting = FALSE, !.current = 0]
        /\ UNCHANGED <<servers, listening, made, resume, serve, closer>>
    BY <1>15 DEF RebindFails
  <2>2. life' \in LifeType /\ life'.current = 0 /\ life'.closed = life.closed
    BY <1>0, <2>1 DEF Shapes, LifeType
  <2>3. 0 \notin listening /\ 0 <= made
    BY <1>0 DEF Numbered, Shapes
  <2>4. QED
    BY <1>0, <1>r, <2>1, <2>2, <2>3 DEF LifeInv, Shapes, Numbered, Tracked, Bound
<1>16. CASE Recover
  <2>1. /\ restarter.pc = "bound"
        /\ life' = [life EXCEPT !.restarting = FALSE,
                                !.current = IF life.closed THEN life.current ELSE restarter.at]
        /\ restarter' = [restarter EXCEPT !.pc = IF life.closed THEN "undo" ELSE "log"]
        /\ UNCHANGED <<servers, listening, made, resume, serve, closer>>
    BY <1>16 DEF Recover
  <2>2. /\ life' \in LifeType /\ life'.closed = life.closed
        /\ life'.current = IF life.closed THEN life.current ELSE restarter.at
    BY <1>0, <2>1 DEF Shapes, LifeType, RestarterType
  <2>3. CASE life.closed
    BY <1>0, <1>r, <2>1, <2>2, <2>3 DEF LifeInv, Shapes, Numbered, Tracked, Bound
  <2>4. CASE ~life.closed
    BY <1>0, <1>r, <2>1, <2>2, <2>4 DEF LifeInv, Shapes, Numbered, Tracked, Bound
  <2>5. QED
    BY <2>3, <2>4
<1>17. CASE RecoverUndo
  <2>1. /\ restarter.pc = "undo" /\ restarter' = [restarter EXCEPT !.pc = "resume"]
        /\ listening' = listening \ {restarter.at}
        /\ UNCHANGED <<life, servers, made, resume, serve, closer>>
    BY <1>17 DEF RecoverUndo
  <2>2. QED
    BY <1>0, <1>r, <2>1 DEF LifeInv, Shapes, Numbered, Tracked, Bound
<1>18. CASE LogsRecovery \/ RecoveryLogged
  <2>1. /\ restarter.pc \in {"log", "logging"}
        /\ \/ restarter' = [restarter EXCEPT !.pc = "logging"]
           \/ restarter' = [restarter EXCEPT !.pc = "resume"]
        /\ UNCHANGED <<life, servers, listening, made, resume, serve, closer>>
    BY <1>18 DEF LogsRecovery, RecoveryLogged
  <2>2. /\ restarter' \in RestarterType /\ restarter'.pc \in {"logging", "resume"}
        /\ restarter'.at = restarter.at /\ restarter'.old = restarter.old
    BY <1>r, <2>1
  <2>3. QED
    BY <1>0, <2>1, <2>2 DEF LifeInv, Shapes, Numbered, Tracked, Bound
<1>19. CASE RecoverResume
  <2>1. /\ restarter.pc = "resume" /\ restarter' = [pc |-> "idle", at |-> 0, old |-> 0]
        /\ resume' = 1 /\ UNCHANGED <<life, servers, listening, made, serve, closer>>
    BY <1>19 DEF RecoverResume, SignalResume
  <2>2. restarter' \in RestarterType /\ restarter'.pc = "idle" /\ restarter'.at = 0 /\ restarter'.old = 0
    BY <2>1 DEF RestarterType
  <2>3. QED
    BY <1>0, <2>1, <2>2 DEF LifeInv, Shapes, Numbered, Tracked, Bound
<1>20. CASE Replace
  <2> DEFINE n == made + 1
  <2>1. /\ life' = [closed |-> FALSE, restarting |-> FALSE, current |-> n]
        /\ serve' = [pc |-> "listening", at |-> 0] /\ closer' = [pc |-> "idle", at |-> 0]
        /\ restarter' = [pc |-> "idle", at |-> 0, old |-> 0]
        /\ made' = n /\ listening' = {n} /\ resume' = 0 /\ UNCHANGED servers
    BY <1>20 DEF Replace, Started
  <2>2. n \in Nat \ {0} /\ 1..made \subseteq 1..n /\ n \in 1..n
    BY <1>0 DEF Shapes
  <2> HIDE DEF n
  <2>3. Shapes'
    BY <1>0, <2>1, <2>2 DEF Shapes, LifeType, ServeType, CloserType, RestarterType
  <2>4. Numbered' /\ Tracked'
    BY <1>0, <2>1, <2>2 DEF Numbered, Tracked, Bound
  <2>5. QED
    BY <2>3, <2>4 DEF LifeInv
<1>21. QED
  BY <1>1, <1>2, <1>3, <1>4, <1>6, <1>7, <1>8, <1>9, <1>10, <1>11, <1>12, <1>13, <1>14, <1>15,
     <1>16, <1>17, <1>18, <1>19, <1>20 DEF LifeNext, CloseStep, RestartStep

(* The state of the life cycle has the declared shape (Serve, Close,       *)
(* beginRestart, recoverRestartFailure).                                   *)
THEOREM LifeTypeCorrect == LifeSpec => []AppTypeOK
<1>1. LifeInv => AppTypeOK
  BY DEF LifeInv, Shapes, Numbered, AppTypeOK, LifeType, ServersType, ServeType, CloserType,
         RestarterType
<1>2. QED
  BY <1>1, ShapesInit, NextLife, PTL DEF LifeSpec

(* However Close, a restart, its recovery and Serve interleave, and over   *)
(* any number of restarts, no listener is left open once they have         *)
(* returned (Close, beginRestart, recoverRestartFailure, Serve).           *)
THEOREM LifeReleasesListeners == LifeSpec => []ListenersReleased
<1>1. LifeInv => ListenersReleased
  BY DEF LifeInv, Tracked, Bound, ListenersReleased
<1>2. QED
  BY <1>1, ShapesInit, NextLife, PTL DEF LifeSpec

=============================================================================
