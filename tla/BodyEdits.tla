------------------------------ MODULE BodyEdits ------------------------------
(* internal/bodyfile/edit.go and internal/patch/index_helpers.go: byte-range *)
(* edits of a body and the helpers that find them in an index.  An edit      *)
(* replaces the half-open range <<start, end>> by a byte sequence.           *)
EXTENDS JSONScan, SequencesExt

Edit(start, end, bytes) == [start |-> start, end |-> end, bytes |-> bytes]
Bytes(text, range) == SubSeq(text, range[1] + 1, range[2])

\* The edits must come in order: a range that starts before the previous one
\* ends, and a second edit of one empty or equal range, are refused.
ValidateEdits(size, edits) ==
    /\ \A i \in DOMAIN edits : 0 <= edits[i].start /\ edits[i].start <= edits[i].end
                               /\ edits[i].end <= size
    /\ \A i \in DOMAIN edits : i > 1 =>
          LET e == edits[i]
              p == edits[i - 1]
          IN  /\ e.start >= p.end /\ ~(e.start = p.start /\ e.end = p.end)
              /\ ~(e.start = p.start /\ e.end = e.start)

\* copyBodyRange, the replacement, discardBodyRange, and the rest of the body.
ApplyEdits(text, edits) ==
    LET step(acc, e) == [cursor |-> IF e.end > e.start THEN e.end ELSE e.start,
                         out |-> acc.out \o SubSeq(text, acc.cursor + 1, e.start) \o e.bytes]
        done == FoldLeft(step, [cursor |-> 0, out |-> <<>>], edits)
    IN  done.out \o SubSeq(text, done.cursor + 1, Len(text))

\* sort.SliceStable by start, then end.
EditBefore(a, b) == a.start < b.start \/ (a.start = b.start /\ a.end <= b.end)
SortEdits(edits) ==
    LET rank(i) == Cardinality({j \in DOMAIN edits :
                       IF j < i THEN EditBefore(edits[j], edits[i])
                       ELSE ~EditBefore(edits[i], edits[j])})
    IN  [r \in DOMAIN edits |-> edits[CHOOSE i \in DOMAIN edits : rank(i) = r - 1]]

-----------------------------------------------------------------------------
(* Strings.                                                                 *)

\* json.Marshal of a string, and its payload without the quotes.
EscapeByte(c) == CASE c = "\"" -> <<"\\", "\"">>
                   [] c = "\\" -> <<"\\", "\\">>
                   [] c = "NL" -> <<"\\", "n">>
                   [] OTHER    -> <<c>>
EncodeContent(value) == FlattenSeq([i \in DOMAIN value |-> EscapeByte(value[i])])
JSONStringBytes(value) == <<"\"">> \o EncodeContent(value) \o <<"\"">>

ReadFieldString(text, field) == Unmarshal(Bytes(text, field.value))

\* The decoders that map each decoded byte to the raw bytes that spell it:
\* [c, from, to].  A surrogate that has no partner spells the replacement.
WrongMapped(c, from, to) == [c |-> c, from |-> from, to |-> from + 1]   \* an escape taken for one byte
Mapped(c, from, to) == [c |-> c, from |-> from, to |-> to]
MappedRune(rune, from, to) == [k \in DOMAIN rune |-> Mapped(rune[k], from, to)]

\* The payload of a validated string; wholeRunes decodes raw UTF-8 by the rune
\* (outerJSONStringDecoder), else by the byte (jsonStringByteScanner).
DecodeMapped(text, range, wholeRunes) ==
    LET first == range[1] + 2     \* position of the first byte after the quote
        last == range[2] - 1      \* position of the last byte before the quote
        unitAt(i) == SubSeq(text, i + 2, i + 1 + UnicodeDigits)
        escapeAt(i) == i + 1 + UnicodeDigits <= last /\ text[i] = "\\" /\ text[i + 1] = "u"
        dec[i \in first .. last + 1] ==
            CASE i > last -> <<>>
              [] i <= last /\ text[i] # "\\" ->
                   LET runes == {r \in MultiByteRune : wholeRunes /\ i + Len(r) - 1 <= last
                                                       /\ SubSeq(text, i, i + Len(r) - 1) = r}
                       rune == IF runes # {} THEN CHOOSE r \in runes : TRUE
                               ELSE IF wholeRunes /\ text[i] \in MultiByte THEN Replacement ELSE <<text[i]>>
                       next == IF runes # {} THEN i + Len(rune) ELSE i + 1
                   IN  MappedRune(rune, i - 1, next - 1) \o dec[next]
              [] escapeAt(i) ->
                   LET next == i + 2 + UnicodeDigits
                       pair == unitAt(i) \in HighSurrogate /\ escapeAt(next)
                               /\ unitAt(next) \in LowSurrogate
                       after == IF pair THEN next + 2 + UnicodeDigits ELSE next
                       rune == CASE pair -> SurrogatePair
                                 [] ~pair /\ unitAt(i) \in HighSurrogate \cup LowSurrogate -> Replacement
                                 [] OTHER -> CharOf[unitAt(i)]
                   IN  MappedRune(rune, i - 1, after - 1) \o dec[after]
              [] OTHER -> <<Mapped(Unescape[text[i + 1]], i - 1, i + 1)>> \o dec[i + 2]
    IN  dec[first]

\* jsonStringByteScanner refuses a surrogate without its partner, and passes raw
\* bytes on as they are.
UnpairedSurrogate(text, range) ==
    LET raw == Bytes(text, range)
        escape(i) == i + 1 < Len(raw) /\ raw[i] = "\\" /\ raw[i + 1] = "u"
        unit(i) == SubSeq(raw, i + 2, i + 1 + UnicodeDigits)
        walk[i \in 2 .. Len(raw) + UnicodeDigits + 4] ==
            LET next == i + 2 + UnicodeDigits
            IN  CASE i >= Len(raw) -> FALSE
                  [] i < Len(raw) /\ escape(i) ->
                       IF unit(i) \in HighSurrogate
                       THEN ~(escape(next) /\ unit(next) \in LowSurrogate)
                            \/ walk[next + 2 + UnicodeDigits]
                       ELSE unit(i) \in LowSurrogate \/ walk[next]
                  [] i < Len(raw) /\ ~escape(i) /\ raw[i] = "\\" -> walk[i + 2]
                  [] OTHER -> walk[i + 1]
    IN  walk[2]
ScanString(text, range) ==
    IF UnpairedSurrogate(text, range) THEN [ok |-> FALSE, bytes |-> <<>>]
    ELSE [ok |-> TRUE, bytes |-> DecodeMapped(text, range, FALSE)]

\* ReadJSONStringPrefix: it also refuses raw bytes that are no UTF-8.
InvalidUTF8(text, range) ==
    LET i0 == range[1] + 2
        last == range[2] - 1
        bad[i \in i0 .. last + 1] ==
            IF i > last THEN FALSE
            ELSE IF text[i] \notin MultiByte THEN bad[i + 1]
            ELSE LET runes == {r \in MultiByteRune : i + Len(r) - 1 <= last
                                                     /\ SubSeq(text, i, i + Len(r) - 1) = r}
                 IN  IF runes = {} THEN TRUE ELSE bad[i + Len(CHOOSE r \in runes : TRUE)]
    IN  bad[i0]
ReadJSONStringPrefix(text, range, max) ==
    LET value == Unmarshal(Bytes(text, range))
    IN  IF UnpairedSurrogate(text, range) \/ InvalidUTF8(text, range)
        THEN [ok |-> FALSE, prefix |-> <<>>]
        ELSE [ok |-> TRUE, prefix |-> SubSeq(value, 1, IF Len(value) < max THEN Len(value) ELSE max)]

-----------------------------------------------------------------------------
(* Index helpers.                                                           *)

\* A stable sort of fields by where they start (they come in order of their ends).
ByStart(fields) ==
    LET rank(i) == Cardinality({j \in DOMAIN fields : fields[j].member[1] < fields[i].member[1]})
    IN  [r \in DOMAIN fields |-> fields[CHOOSE i \in DOMAIN fields : rank(i) = r - 1]]
DirectObjectChildren(index, path) ==
    ByStart(SelectSeq(DirectChildren(index, path), LAMBDA f : f.index < 0))
DirectFieldsByKey(fields, key) == SelectSeq(fields, LAMBDA f : f.path[Len(f.path)] = key)
\* sort by array index: elements of one array come in that order already.
DirectArrayChildren(index, path) == SelectSeq(DirectChildren(index, path), LAMBDA f : f.index >= 0)

MemberDeleteEdit(field) == Edit(field.delete[1], field.delete[2], <<>>)

InsertionAtObjectStart(index, path, key, value) ==
    LET c == Containers(index, path)[1]
        member == JSONStringBytes(key) \o <<":">> \o value
    IN  IF c.count > 0 THEN Edit(c.first, c.first, Append(member, ","))
        ELSE Edit(c.close, c.close, member)

InsertionAtArrayStart(index, path, value) ==
    LET array == Find(index, path)[1]
        c == Containers(index, path)[1]
        at == array.value[1] + 1
    IN  Edit(at, at, IF c.count > 0 THEN Append(value, ",") ELSE value)
=============================================================================
