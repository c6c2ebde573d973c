----------------------------- MODULE MCService ------------------------------
(* Small instances of Service for TLC.                                     *)
EXTENDS Service

MCKinds == {"gateway", "service"}
MCLineBytes == [k \in MCKinds |-> IF k = "gateway" THEN 2 ELSE 1]
MCFilters == {MCKinds, {"gateway"}}
MCHistoryFilters ==
    {[kinds |-> MCKinds, since |-> 1, until |-> 2], [kinds |-> {"gateway"}, since |-> 1, until |-> 3]}

\* Streams that fall behind while the broker closes; pages over rotations and
\* restarts; restarts and Close.
NoBudget ==
    [lines |-> 0, clock |-> 1, faults |-> 0, accepts |-> 0, streams |-> 0, restarts |-> 0,
     execs |-> 0, boots |-> 0, pages |-> 0, closes |-> 0]

MCBudgets ==
    {[NoBudget EXCEPT !.lines = 3, !.streams = 1, !.closes = 1],
     [NoBudget EXCEPT !.lines = 2, !.streams = 2],
     [NoBudget EXCEPT !.lines = 2, !.streams = 1, !.restarts = 1, !.boots = 1],
     [NoBudget EXCEPT !.lines = 4, !.clock = 2, !.faults = 1, !.pages = 3],
     [NoBudget EXCEPT !.lines = 2, !.clock = 2, !.faults = 1, !.restarts = 1, !.boots = 1, !.pages = 2],
     [NoBudget EXCEPT !.streams = 3],
     [NoBudget EXCEPT !.streams = 1, !.restarts = 1, !.execs = 1, !.boots = 1, !.closes = 2],
     [NoBudget EXCEPT !.accepts = 1, !.restarts = 2, !.execs = 2, !.closes = 1]}

\* One restart whose exec fails.
MCRestartBudgets == {[NoBudget EXCEPT !.restarts = 1, !.execs = 1]}

\* A write that is cut short, and the next one.
MCLogBudgets == {[NoBudget EXCEPT !.lines = 2, !.faults = 1]}

=============================================================================
