-------------------------- MODULE MCRuntimeManager --------------------------
(* Small instances of RuntimeManager.  Every client configuration differs  *)
(* from another one in a setting that the manager treats in its own way.   *)
EXTENDS RuntimeManager, TLC

MCBase ==
    [addr |-> "a1", logMax |-> "l1", key |-> "k1",
     profiles |-> "p" :> [models |-> "m1", attempts |-> "t1"]
                    @@ "q" :> [models |-> "m2", attempts |-> "t1"],
     telemetry |-> FALSE, rest |-> "r1", active |-> NoProfile]

(* Another attempt limit, the telemetry switch and no gateway key need no  *)
(* restart; another log size or address does, alone or with the switch.    *)
MCConfigs ==
    {MCBase,
     [MCBase EXCEPT !.profiles["p"].attempts = "t2"],
     [MCBase EXCEPT !.telemetry = TRUE],
     [MCBase EXCEPT !.key = NoKey],
     [MCBase EXCEPT !.logMax = "l2"],
     [MCBase EXCEPT !.addr = "a2"],
     [MCBase EXCEPT !.logMax = "l2", !.telemetry = TRUE]}

(* The telemetry switch alone.                                             *)
MCFileConfigs == {[MCBase EXCEPT !.telemetry = t] : t \in BOOLEAN}
=============================================================================
