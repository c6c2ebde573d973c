----------------------------- MODULE LogReader ------------------------------
(***************************************************************************)
(* The log history (internal/logs/reader.go): a file read backwards in     *)
(* chunks, its lines parsed, the two files merged newest first, one page   *)
(* of matching records below a cursor, and the lookup of a single record.  *)
(* The snapshot is opened under the writer's lock and files are only       *)
(* appended to or renamed, so what a query returns depends on the moment   *)
(* of the snapshot alone.                                                  *)
(***************************************************************************)
EXTENDS LogFiles

CONSTANT ReverseReadChunk   \* reverseReadChunk

-----------------------------------------------------------------------------
(* newReverseLineReader: a final newline ends the last line.               *)
NewReverseLineReader(file) ==
    LET terminated == Len(file) > 0 /\ file[Len(file)] = NewLine
        end == IF terminated THEN Len(file) - 1 ELSE Len(file)
    IN  [file |-> file, end |-> end, start |-> end, buf |-> <<>>,
         pendingEmpty |-> terminated /\ end = 0]

(* extend: the read doubles while one line keeps growing.                  *)
Extend(r) ==
    LET retained == r.end - r.start
        asked == IF retained > ReverseReadChunk THEN retained ELSE ReverseReadChunk
        want == IF asked > r.start THEN r.start ELSE asked
    IN  [r EXCEPT !.buf = SubSeq(r.file, r.start - want + 1, r.start) \o SubSeq(@, 1, retained),
                  !.start = @ - want]

(* reverseLineReader.Next: the reader after it, and the line if there is   *)
(* one.                                                                    *)
RECURSIVE NextLine(_)
NextLine(r) ==
    LET window == SubSeq(r.buf, 1, r.end - r.start)
        breaks == {i \in DOMAIN window : window[i] = NewLine}
        last == CHOOSE i \in breaks : \A j \in breaks : j <= i
    IN  CASE r.pendingEmpty -> [reader |-> [r EXCEPT !.pendingEmpty = FALSE], has |-> TRUE, line |-> <<>>]
          [] ~r.pendingEmpty /\ r.end = 0 -> [reader |-> r, has |-> FALSE, line |-> <<>>]
          [] ~r.pendingEmpty /\ r.end # 0 ->
               CASE breaks # {} ->
                      [reader |-> [r EXCEPT !.end = r.start + last - 1], has |-> TRUE,
                       line |-> SubSeq(window, last + 1, Len(window))]
                 [] breaks = {} /\ r.start = 0 ->
                      [reader |-> [r EXCEPT !.end = 0], has |-> TRUE, line |-> window]
                 [] breaks = {} /\ r.start # 0 -> NextLine(Extend(r))

-----------------------------------------------------------------------------
(* recordStream.advance: lines that do not parse are counted and skipped.  *)
RECURSIVE Advance(_)
Advance(stream) ==
    LET next == NextLine(stream.lines)
        moved == [stream EXCEPT !.lines = next.reader, !.has = FALSE]
    IN  CASE ~next.has -> moved
          [] next.has /\ Parses(next.line) ->
               [moved EXCEPT !.has = TRUE, !.current = next.line[1].of]
          [] next.has /\ ~Parses(next.line) -> Advance([moved EXCEPT !.skipped = @ + 1])

NewRecordStream(file) ==
    Advance([lines |-> NewReverseLineReader(file), has |-> FALSE, current |-> NoRecord, skipped |-> 0])

(* DirectorySource.OpenSnapshot: the active file first, missing ones left  *)
(* out.                                                                    *)
OpenSnapshot(f) == SelectSeq(<<f.active, f.archive>>, LAMBDA file : file # Missing)

(* comparePosition.                                                        *)
Before(p, q) == p.time < q.time \/ (p.time = q.time /\ p.seq < q.seq)

(* newestStream: of two equal positions the first stream wins.             *)
NewestStream(streams) ==
    LET live == {i \in DOMAIN streams : streams[i].has}
    IN  IF live = {} THEN 0
        ELSE CHOOSE i \in live :
               \A j \in live :
                  \/ Before(streams[j].current, streams[i].current)
                  \/ ~Before(streams[i].current, streams[j].current) /\ i <= j

(* Filter.Match.                                                           *)
Match(filter, r) == r.kind \in filter.kinds /\ r.time >= filter.since /\ r.time <= filter.until

(* The loop of Query.                                                      *)
RECURSIVE Collect(_, _, _, _, _)
Collect(streams, filter, limit, cursor, items) ==
    LET i == NewestStream(streams)
        r == streams[i].current
        rest == [streams EXCEPT ![i] = Advance(@)]
    IN  IF i = 0 THEN [items |-> items, hasMore |-> FALSE]
        ELSE IF (cursor # <<>> /\ ~Before(r, cursor[1])) \/ ~Match(filter, r)
        THEN Collect(rest, filter, limit, cursor, items)
        ELSE IF Len(items) = limit THEN [items |-> items, hasMore |-> TRUE]
        ELSE Collect(rest, filter, limit, cursor, Append(items, r))

(* Reader.Query; no cursor is the empty sequence.                          *)
Query(f, filter, limit, cursor) ==
    LET snapshot == OpenSnapshot(f)
    IN  Collect([i \in DOMAIN snapshot |-> NewRecordStream(snapshot[i])], filter, limit, cursor, <<>>)

(* Reader.Record: the files are scanned in full, the active one first.     *)
RECURSIVE FindIn(_, _)
FindIn(stream, position) ==
    CASE ~stream.has -> <<>>
      [] stream.has /\ stream.current.time = position.time /\ stream.current.seq = position.seq ->
           <<stream.current>>
      [] OTHER -> FindIn(Advance(stream), position)

Record(f, position) ==
    LET found == SelectSeq([i \in DOMAIN OpenSnapshot(f) |->
                              FindIn(NewRecordStream(OpenSnapshot(f)[i]), position)],
                           LAMBDA hit : hit # <<>>)
    IN  IF found = <<>> THEN <<>> ELSE Head(found)

============================================================================
