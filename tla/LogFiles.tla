------------------------------ MODULE LogFiles ------------------------------
(***************************************************************************)
(* The log's two files and their writer (internal/app/logging.go):         *)
(* rotatingWriter with every failure of its system calls, and the sequence *)
(* numbers and clamped times of sequencedHandler.                          *)
(*                                                                         *)
(* A file is a sequence of bytes; the bytes of a record are the record     *)
(* with a position, so a write that is cut short leaves a prefix of its    *)
(* line behind and the next line is glued to it.  Both locks of the writer *)
(* are held for the whole of a write, so a write is one step; each of its  *)
(* system calls may fail while faults are left.                            *)
(***************************************************************************)
EXTENDS Integers, Sequences

CONSTANTS
    LogKinds,        \* what a filter tells apart in a record
    ContentBytes,    \* bytes of a record, without its newline
    Threshold,       \* rotatingWriter.threshold
    MaxTime          \* bound on the wall clock

ASSUME LogFilesAssumption ==
    /\ ContentBytes \in Nat \ {0} /\ Threshold \in Nat /\ MaxTime \in Nat \ {0}

VARIABLES
    files,      \* the directory and the writer's view of it
    sequence,   \* sequenceState, and the earliest time the clock can show
    degraded    \* HealthTracker: the last write failed

logVars == <<files, sequence, degraded>>

NoRecord == [line |-> 0, time |-> 0, seq |-> 0, kind |-> "none"]
Byte(r, i) == [of |-> r, at |-> i]
NewLine == Byte(NoRecord, 0)
Missing == <<Byte(NoRecord, -1)>>   \* a file that does not exist

RecordType == [line: Nat, time: 1..MaxTime, seq: Nat, kind: LogKinds]

(* The line slog.JSONHandler writes for a record.                          *)
LineOf(r) == [i \in 1..ContentBytes |-> Byte(r, i)] \o <<NewLine>>

(* ParseRecord: exactly the bytes of one record parse.                     *)
Parses(bytes) ==
    /\ Len(bytes) = ContentBytes
    /\ \A i \in DOMAIN bytes : bytes[i] = Byte(bytes[1].of, i)

-----------------------------------------------------------------------------
(* openActive: the file is created when missing, and its size is read.     *)
OpenActive(f) ==
    LET content == IF f.active = Missing THEN <<>> ELSE f.active
    IN  [f EXCEPT !.active = content, !.handle = "open", !.size = Len(content)]

(* The outcome of an operation: the files after it, whether it succeeded,  *)
(* and how many system calls failed.                                       *)
Outcome(f, ok, faults) == [files |-> f, ok |-> ok, faults |-> faults]

(* openActive, or its failure.                                             *)
Opened(f, ok, faults) ==
    {Outcome(OpenActive(f), ok, faults), Outcome(f, FALSE, faults + 1)}

(* rotateLocked.  A file whose Close failed stays in the writer, closed:   *)
(* the next Close fails as well.                                           *)
Rotations(f) ==
    LET released == [f EXCEPT !.handle = "none"]
        renamed == [released EXCEPT !.archive = f.active, !.active = Missing]
    IN  {Outcome([f EXCEPT !.handle = "stale"], FALSE, IF f.handle = "stale" THEN 0 ELSE 1)}
          \cup (IF f.handle = "stale" THEN {}
                ELSE Opened(released, FALSE, 1) \cup Opened(renamed, TRUE, 0))

CrossesThreshold(current, incoming) ==
    current > Threshold \/ incoming > Threshold - current

(* File.Write: all of the line, or a prefix of it.                         *)
Appends(f, line) ==
    LET Put(n) == [f EXCEPT !.active = @ \o SubSeq(line, 1, n), !.size = @ + n]
    IN  IF f.handle = "stale" THEN {Outcome(f, FALSE, 0)}
        ELSE {Outcome(Put(n), n = Len(line), IF n = Len(line) THEN 0 ELSE 1) : n \in 0..Len(line)}

(* What follows a set of outcomes: a failed one is final.                  *)
Then(outcomes, Step(_)) ==
    UNION {IF o.ok
           THEN {Outcome(p.files, p.ok, o.faults + p.faults) : p \in Step(o.files)}
           ELSE {o} : o \in outcomes}

(* rotatingWriter.Write.                                                   *)
Writes(f, line) ==
    LET Open(g) == IF g.handle = "none" THEN Opened(g, TRUE, 0) ELSE {Outcome(g, TRUE, 0)}
        Rotate(g) == IF g.size > 0 /\ CrossesThreshold(g.size, Len(line))
                     THEN Rotations(g) ELSE {Outcome(g, TRUE, 0)}
        Put(g) == Appends(g, line)
    IN  IF f.closed THEN {Outcome(f, FALSE, 0)}
        ELSE Then(Then(Open(f), Rotate), Put)

-----------------------------------------------------------------------------
(* newRotatingWriter, at the start of a process; floor is the time before  *)
(* which its clock cannot be.                                              *)
OpenWriter(directory, floor) ==
    /\ files' = OpenActive([directory EXCEPT !.closed = FALSE])
    /\ sequence' = [next |-> 0, lastTime |-> 0, floor |-> floor]
    /\ degraded' = FALSE

LogFilesInit ==
    /\ files = OpenActive([active |-> Missing, archive |-> Missing, handle |-> "none",
                           size |-> 0, closed |-> FALSE])
    /\ sequence = [next |-> 0, lastTime |-> 0, floor |-> 0]
    /\ degraded = FALSE

(* Mutation: the clock is not clamped.                                     *)
WrongWriteTime(now) == now

(* writeTimeLocked: the clock may step back, the time of a record may not. *)
WriteTime(now) == IF sequence.lastTime # 0 /\ now < sequence.lastTime THEN sequence.lastTime ELSE now

(* sequencedHandler.Handle and the file write: the record takes the next   *)
(* number and a time no earlier than the last, whether its write succeeds  *)
(* or not.                                                                 *)
Handle(line, kind, now) ==
    [line |-> line, time |-> WriteTime(now), seq |-> sequence.next + 1, kind |-> kind]

WriteRecord(r, outcome) ==
    /\ sequence' = [sequence EXCEPT !.next = r.seq, !.lastTime = r.time]
    /\ files' = outcome.files
    /\ degraded' = ~outcome.ok

(* rotatingWriter.Close.                                                   *)
CloseWriter ==
    /\ files' = [files EXCEPT !.closed = TRUE, !.handle = "none"]
    /\ UNCHANGED <<sequence, degraded>>

============================================================================
