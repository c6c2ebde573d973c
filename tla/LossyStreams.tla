---------------------------- MODULE LossyStreams ----------------------------
(***************************************************************************)
(* What the log broker promises the subscribers of the live log stream,    *)
(* with no queue, no dispatcher and no lock in sight.  Lines are named by  *)
(* their publication number.  While a stream is open every line owed to it *)
(* ends in exactly one of two ways: the subscriber receives it, or it is   *)
(* counted in a "dropped" report; a record never overtakes a loss that has *)
(* not been reported yet, and records arrive in publication order.  The    *)
(* count is an upper bound: a line refused before it is parsed is counted  *)
(* for every subscriber, whatever its filter.  One step may concern        *)
(* several streams (the broker closes, a line is published), but each of   *)
(* them moves as if it were alone.                                         *)
(***************************************************************************)
EXTENDS Integers, Sequences

CONSTANT Streams

VARIABLES
    state,  \* of a stream: "new", "open", "draining" or "ended"
    due,    \* the lines owed to it and not settled yet
    lost,   \* lines it lost since the last report
    out     \* the messages it has accepted, in order

vars == <<state, due, lost, out>>

RecordOf(l) == [kind |-> "record", line |-> l]

DroppedReport(n) == [kind |-> "dropped", count |-> n]

\* l is later than everything the stream has shown.
Later(s, l) == \A i \in DOMAIN out[s] : out[s][i].kind = "record" => out[s][i].line < l

Init ==
    /\ state = [s \in Streams |-> "new"]
    /\ due = [s \in Streams |-> {}]
    /\ lost = [s \in Streams |-> 0]
    /\ out = [s \in Streams |-> <<>>]

(* A stream opens, and is owed the lines that were already on their way.   *)
Subscribe(s) ==
    /\ state[s] = "new" /\ state'[s] = "open"
    /\ \A d \in due'[s] : d \in Nat
    /\ lost'[s] = lost[s] /\ out'[s] = out[s]

(* A line is published while the stream is open.                           *)
Owe(s) ==
    /\ state[s] = "open" /\ state'[s] = "open"
    /\ \E l \in due'[s] :
          /\ Later(s, l) /\ \A d \in due[s] : d < l
          /\ due'[s] = due[s] \cup {l}
    /\ lost'[s] = lost[s] /\ out'[s] = out[s]

(* The oldest owed line reaches the stream; losses were reported before.   *)
Deliver(s) ==
    /\ state[s] = "open" /\ state'[s] = "open"
    /\ lost[s] = 0 /\ lost'[s] = 0
    /\ \E l \in due[s] :
          /\ Later(s, l) /\ \A d \in due[s] : l <= d
          /\ due'[s] = due[s] \ {l}
          /\ out'[s] = Append(out[s], RecordOf(l))

(* An owed line is given up, and counted.                                  *)
Lose(s) ==
    /\ state[s] = "open" /\ state'[s] = "open"
    /\ \E l \in due[s] : due'[s] = due[s] \ {l}
    /\ lost'[s] = lost[s] + 1 /\ out'[s] = out[s]

(* A line that was not owed is counted all the same.                       *)
OverCount(s) ==
    /\ state[s] = "open" /\ state'[s] = "open"
    /\ lost'[s] = lost[s] + 1
    /\ due'[s] = due[s] /\ out'[s] = out[s]

(* The losses are reported, all of them at once.                           *)
Report(s) ==
    /\ state[s] = "open" /\ state'[s] = "open"
    /\ lost[s] > 0 /\ lost'[s] = 0
    /\ out'[s] = Append(out[s], DroppedReport(lost[s]))
    /\ due'[s] = due[s]

(* The broker closes: nothing is owed any more, and what was accepted is   *)
(* still read.                                                             *)
Close(s) ==
    /\ state[s] = "open" /\ state'[s] = "draining"
    /\ due'[s] = {}
    /\ lost'[s] = lost[s] /\ out'[s] = out[s]

(* The reader is gone.                                                     *)
End(s) ==
    /\ state[s] # "ended" /\ state'[s] = "ended"
    /\ due'[s] = {} /\ lost'[s] = 0 /\ out'[s] = <<>>

Same(s) ==
    /\ state'[s] = state[s] /\ due'[s] = due[s]
    /\ lost'[s] = lost[s] /\ out'[s] = out[s]

Next ==
    \A s \in Streams :
        \/ Subscribe(s) \/ Owe(s) \/ Deliver(s) \/ Lose(s)
        \/ OverCount(s) \/ Report(s) \/ Close(s) \/ End(s) \/ Same(s)

Spec == Init /\ [][Next]_vars

============================================================================
