---------------------------- MODULE MCScheduler -----------------------------
(* Small instances of Scheduler for TLC.                                   *)
EXTENDS Scheduler, TLC

Plain(class) ==
    [class |-> class, retryAfter |-> NoRetryAfter, httpStatus |-> TRUE, errorPending |-> FALSE]

MCOneCooldown == <<1>>

MCOrder == <<"p1", "p2">>

P(enabled, priority, generation, disableHealth) ==
    [enabled |-> enabled, priority |-> priority, generation |-> generation, epoch |-> 0,
     disableHealth |-> disableHealth, models |-> Model]

Two(c1, c2) == [p \in {"p1", "p2"} |-> IF p = "p1" THEN c1 ELSE c2]

(* The first provider in a tier above the second, which is without health  *)
(* checks.                                                                 *)
MCRouting == {Two(P(TRUE, 2, "g1", FALSE), P(TRUE, 1, "g1", TRUE))}

(* The first provider is switched off, gets a new endpoint, another        *)
(* priority, another health mode, or is removed.                           *)
MCEdits ==
    {Two(P(TRUE, 1, "g1", FALSE), P(TRUE, 1, "g1", TRUE)),
     Two(P(FALSE, 1, "g1", FALSE), P(TRUE, 1, "g1", TRUE)),
     Two(P(TRUE, 1, "g2", FALSE), P(TRUE, 1, "g1", TRUE)),
     Two(P(TRUE, 2, "g1", TRUE), P(TRUE, 1, "g1", TRUE)),
     [p \in {"p2"} |-> P(TRUE, 1, "g1", TRUE)]}

(* Only the second provider is edited.                                     *)
MCOtherEdits ==
    {Two(P(TRUE, 1, "g1", FALSE), P(e, 1, "g1", TRUE)) : e \in BOOLEAN}

Symmetry ==
    Permutations(Request) \cup Permutations(Token) \cup Permutations(Slot)
    \cup Permutations(Session)

MCSessions == {<<s, "m1", "normal">> : s \in Session}
MCTypes == {<<s, "m1", "normal">> : s \in Session} \cup {<<NoSession, "m1", "classifier">>}

MCGlobal == {Plain("none"), Plain("global_immediate")}
MCPending == {Plain("none"), [Plain("channel_immediate") EXCEPT !.errorPending = TRUE]}
=============================================================================
