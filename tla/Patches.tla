------------------------------- MODULE Patches -------------------------------
(* The built-in patches (internal/patch), the classifier detector and the   *)
(* model override (internal/automode), as what they do to a body: a byte    *)
(* sequence and the index bound to it.  The JSON names and the fixed texts  *)
(* are one or two letters each; a hook returns its edits or refuses.        *)
EXTENDS InnerSession

Key == [thinking |-> <<"t">>, type |-> <<"y">>, system |-> <<"s">>, text |-> <<"x">>,
        metadata |-> <<"d">>, user_id |-> <<"i">>, stop_sequences |-> <<"p">>,
        content |-> <<"c">>, stop_reason |-> <<"r">>, stop_sequence |-> <<"q">>]
Literal == [disabled |-> <<"D">>, adaptive |-> <<"A">>, text |-> <<"T">>, thinking |-> <<"H">>,
            redacted_thinking |-> <<"R">>, message |-> <<"G">>, stop_sequence |-> <<"Q">>,
            identity |-> <<"K">>,           \* AnyRouterMarkerText
            correction |-> <<"C", "NL">>,   \* AnyRouterCorrectionText, which ends in a newline
            marker |-> <<"S", "M">>,        \* SecurityMarker
            security |-> <<"S", "M", ".">>] \* classifierSecurityPrefix

Path(k) == <<k>>
First == <<"0">>
DetectorPaths == {<<Key.system>>, <<Key.system, First>>, <<Key.system, First, Key.text>>}
RequestPaths ==
    [subagent   |-> {<<Key.thinking>>, <<Key.thinking, Key.type>>},
     classifier |-> {<<Key.thinking>>, <<Key.thinking, Key.type>>, <<Key.system>>,
                     <<Key.system, Wildcard>>, <<Key.system, Wildcard, Key.text>>},
     session    |-> {<<Key.metadata>>, <<Key.metadata, Key.user_id>>},
     gpt        |-> {<<Key.stop_sequences>>, <<Key.stop_sequences, Wildcard>>}]
ResponsePaths ==
    {<<Key.type>>, <<Key.content>>, <<Key.content, Wildcard>>, <<Key.content, Wildcard, Key.type>>,
     <<Key.content, Wildcard, Key.text>>, <<Key.stop_reason>>, <<Key.stop_sequence>>}

Refused == [ok |-> FALSE, edits |-> <<>>]
Edits(edits) == [ok |-> TRUE, edits |-> edits]

HasPrefix(w, p) == Len(w) >= Len(p) /\ SubSeq(w, 1, Len(p)) = p
Occurrences(w, p) == Cardinality({i \in 0 .. Len(w) - Len(p) : SubSeq(w, i + 1, i + Len(p)) = p})

-----------------------------------------------------------------------------
(* Detection and the classifier's model.                                    *)

LastField(fields) ==
    CHOOSE f \in Range(fields) : \A g \in Range(fields) : g.value[1] <= f.value[1]
LastContained(fields, outer) ==
    SelectSeq(fields, LAMBDA f : f.value[1] >= outer[1] /\ f.value[2] <= outer[2])

\* "normal", "classifier" or, when the text cannot be decoded, "failed".
Detect(text, index) ==
    LET systems == Find(index, Path(Key.system))
        system == LastField(systems)
        firsts == LastContained(Find(index, <<Key.system, First>>), system.value)
        first == LastField(firsts)
        texts == LastContained(Find(index, <<Key.system, First, Key.text>>), first.value)
        string == LastField(texts)
        prefix == ReadJSONStringPrefix(text, string.value, Len(Literal.marker))
    IN  IF \/ ~index.markers[Literal.marker]
           \/ systems = <<>> \/ system.type # "array"
           \/ firsts = <<>> \/ first.type # "object"
           \/ texts = <<>> \/ string.type # "string"
        THEN "normal"
        ELSE IF ~prefix.ok THEN "failed"
        ELSE IF HasPrefix(prefix.prefix, Literal.marker) THEN "classifier" ELSE "normal"

ModelOverride(index, model) ==
    LET field == Find(index, Path(ModelKey))[1]
    IN  <<Edit(field.value[1], field.value[2], JSONStringBytes(model))>>

-----------------------------------------------------------------------------
(* anyrouter-subagent-thinking.                                             *)

\* The rules the two thinking patches share: absent, well formed or refused.
Thinking(text, index) ==
    LET objects == Find(index, Path(Key.thinking))
        types == Find(index, <<Key.thinking, Key.type>>)
    IN  CASE objects = <<>> -> "absent"
          [] Len(objects) > 1 \/ (objects # <<>> /\ objects[1].type # "object") -> "refused"
          [] OTHER -> IF types = <<>> THEN "absent"
                      ELSE IF Len(types) > 1 \/ types[1].type # "string" THEN "refused"
                      ELSE IF ReadFieldString(text, types[1]) = Literal.disabled THEN "disabled"
                      ELSE "other"

Subagent(text, index) ==
    LET type == Find(index, <<Key.thinking, Key.type>>)[1]
    IN  CASE Thinking(text, index) = "refused" -> Refused
          [] Thinking(text, index) = "disabled" ->
               Edits(<<Edit(type.value[1], type.value[2], JSONStringBytes(Literal.adaptive))>>)
          [] OTHER -> Edits(<<>>)

-----------------------------------------------------------------------------
(* anyrouter-classifier-request-compat.                                     *)

MarkerValue ==
    <<"{">> \o JSONStringBytes(Key.type) \o <<":">> \o JSONStringBytes(Literal.text) \o <<",">>
    \o JSONStringBytes(Key.text) \o <<":">> \o JSONStringBytes(Literal.identity) \o <<"}">>

\* inspectClassifierSystemText of one text field.
InspectDecoded(decoded, ok, field) ==
    LET corrected == HasPrefix(decoded, Literal.correction)
        rest == IF corrected THEN SubSeq(decoded, Len(Literal.correction) + 1, Len(decoded)) ELSE decoded
    IN  [ok |-> ok, identity |-> decoded = Literal.identity,
         security |-> HasPrefix(rest, Literal.security), corrected |-> corrected,
         corrections |-> Occurrences(decoded, Literal.correction), field |-> field]
Inspect(text, field) ==
    LET inspected(scan) == InspectDecoded([k \in DOMAIN scan.bytes |-> scan.bytes[k].c], scan.ok, field)
    IN  inspected(ScanString(text, field.value))

\* The texts of the blocks of /system, in order, each with its block's index.
SystemTexts(index) ==
    LET blocks == SelectSeq(DirectArrayChildren(index, Path(Key.system)), LAMBDA f : f.type = "object")
        texts(b) == DirectFieldsByKey(DirectObjectChildren(index, b.path), Key.text)
    IN  [repeated |-> \E i \in DOMAIN blocks : Len(texts(blocks[i])) > 1,
         seq |-> FlattenSeq([i \in DOMAIN blocks |->
                    IF texts(blocks[i]) # <<>> /\ texts(blocks[i])[1].type = "string"
                    THEN <<[block |-> blocks[i].index, field |-> texts(blocks[i])[1]]>> ELSE <<>>])]

\* The edits in the order the hook appends them: it never sorts them.
ClassifierEdits(text, index, security) ==
    LET object == Find(index, Path(Key.thinking))[1]
        at == security.field.value[1] + 1
    IN  (IF Thinking(text, index) = "disabled" THEN <<MemberDeleteEdit(object)>> ELSE <<>>)
        \o (IF security.corrected THEN <<>>
            ELSE <<InsertionAtArrayStart(index, Path(Key.system), MarkerValue),
                   Edit(at, at, EncodeContent(Literal.correction))>>)

ClassifierFinds(text, index, texts, seen) ==
    LET systems == Find(index, Path(Key.system))
        identities == {i \in DOMAIN seen : seen[i].identity}
        securities == {i \in DOMAIN seen : seen[i].security}
        security == seen[CHOOSE i \in securities : TRUE]
    IN  IF \/ Thinking(text, index) = "refused"
           \/ Len(systems) # 1 \/ systems[1].type # "array"
           \/ texts.repeated
           \/ \E i \in DOMAIN seen : ~seen[i].ok
           \/ \E i \in securities : seen[i].corrections > 1
                                    \/ (seen[i].corrections = 1 /\ ~seen[i].corrected)
           \/ Cardinality(identities) > 1
           \/ \E i \in identities : texts.seq[i].block # 0
           \/ Cardinality(securities) # 1
           \/ security.corrected # (identities # {})
        THEN Refused
        ELSE Edits(ClassifierEdits(text, index, security))
Classifier(text, index) ==
    LET texts == SystemTexts(index)
    IN  ClassifierFinds(text, index, texts, [i \in DOMAIN texts.seq |-> Inspect(text, texts.seq[i].field)])

-----------------------------------------------------------------------------
(* cliproxyapi-classifier-session-isolation: the body's part of it.         *)

UserIDValue(alias) ==
    JSONStringBytes(<<"{">> \o JSONStringBytes(SessionKey) \o <<":">> \o JSONStringBytes(alias) \o <<"}">>)

Session(text, index, alias) ==
    LET metadata == Find(index, Path(Key.metadata))
        users == Find(index, <<Key.metadata, Key.user_id>>)
        replaced(inner) == IF inner.ok THEN Edits(<<inner.edit>>) ELSE Refused
        member == <<"{">> \o JSONStringBytes(Key.user_id) \o <<":">> \o UserIDValue(alias) \o <<"}">>
    IN  CASE metadata = <<>> -> Edits(<<InsertionAtObjectStart(index, <<>>, Key.metadata, member)>>)
          [] Len(metadata) > 1 \/ (metadata # <<>> /\ metadata[1].type # "object") -> Refused
          [] OTHER ->
               IF users = <<>>
               THEN Edits(<<InsertionAtObjectStart(index, Path(Key.metadata), Key.user_id, UserIDValue(alias))>>)
               ELSE IF Len(users) > 1 \/ users[1].type # "string" THEN Refused
               ELSE replaced(InnerSessionIDEdit(text, users[1], alias))

-----------------------------------------------------------------------------
(* gpt-classifier-response-reassembly.                                      *)

\* The request hook reads the stop sequences and edits nothing.
StopSequences(text, index) ==
    LET fields == Find(index, Path(Key.stop_sequences))
        children == DirectArrayChildren(index, Path(Key.stop_sequences))
        values == [i \in DOMAIN children |-> ReadFieldString(text, children[i])]
    IN  IF fields = <<>> THEN [ok |-> TRUE, stops |-> <<>>]
        ELSE IF \/ Len(fields) > 1 \/ fields[1].type # "array"
                \/ \E i \in DOMAIN children : children[i].type # "string"
        THEN [ok |-> FALSE, stops |-> <<>>]
        ELSE [ok |-> \A i \in DOMAIN values : values[i] # <<>>, stops |-> values]

\* findStopInString: every decoded byte feeds one matcher per stop sequence; the
\* match that starts first is kept, of equal starts the earlier sequence.
NoStop == [seq |-> 0, start |-> 0]
BetterStop(stop, best) ==
    best.seq = 0 \/ stop.start < best.start \/ (stop.start = best.start /\ stop.seq < best.seq)
AfterByte(stops, failure, fed, n, best) ==
    LET hits == {k \in DOMAIN stops : fed[k] = Len(stops[k])}
        longest == CHOOSE k \in hits : \A j \in hits :
                       Len(stops[k]) > Len(stops[j]) \/ (Len(stops[k]) = Len(stops[j]) /\ k <= j)
        stop == [seq |-> longest, start |-> n - Len(stops[longest]) + 1]
    IN  [matched |-> [k \in DOMAIN stops |-> IF k \in hits THEN failure[k][fed[k]] ELSE fed[k]],
         best |-> IF hits # {} /\ BetterStop(stop, best) THEN stop ELSE best]
FindStop(bytes, stops) ==
    LET failure == [k \in DOMAIN stops |-> FailureLinks(stops[k])]
        feed(k, m, c) == Matched(stops[k], Fallback(stops[k], failure[k], m, c), c)
        run[n \in 0 .. Len(bytes)] ==
            IF n = 0 THEN [matched |-> [k \in DOMAIN stops |-> 0], best |-> NoStop]
            ELSE LET old == run[n - 1]
                 IN  AfterByte(stops, failure,
                               [k \in DOMAIN stops |-> feed(k, old.matched[k], bytes[n].c)], n, old.best)
    IN  run[Len(bytes)].best

ValidStopField(fields) ==
    Len(fields) <= 1 /\ \A i \in DOMAIN fields : fields[i].type \in {"string", "null"}

\* arrayRemovalEdits: each run of removed blocks with the comma that goes with it.
ArrayRemovalEdits(blocks, removed) ==
    LET run(i) == i \in removed /\ (i - 1) \notin removed
        last(i) == CHOOSE j \in removed : j >= i /\ (i .. j) \subseteq removed /\ (j + 1) \notin removed
    IN  FlattenSeq([i \in DOMAIN blocks |->
            IF ~run(i) THEN <<>>
            ELSE IF last(i) < Len(blocks)
            THEN <<Edit(blocks[i].value[1], blocks[last(i) + 1].value[1], <<>>)>>
            ELSE <<Edit(blocks[i - 1].value[2], blocks[last(i)].value[2], <<>>)>>])

\* appendStopFieldEdits: the present fields are replaced, the missing ones inserted.
StopFieldEdits(index, stop) ==
    LET reason == Find(index, Path(Key.stop_reason))
        sequence == Find(index, Path(Key.stop_sequence))
        value(fields, v) == IF fields = <<>> THEN <<>>
                            ELSE <<Edit(fields[1].value[1], fields[1].value[2], JSONStringBytes(v))>>
        member(fields, k, v) == IF fields # <<>> THEN <<>>
                                ELSE <<JSONStringBytes(k) \o <<":">> \o JSONStringBytes(v)>>
        missing == member(reason, Key.stop_reason, Literal.stop_sequence)
                   \o member(sequence, Key.stop_sequence, stop)
        bytes == IF Len(missing) = 2 THEN missing[1] \o <<",">> \o missing[2] ELSE missing[1]
        root == Containers(index, <<>>)[1]
    IN  value(reason, Literal.stop_sequence) \o value(sequence, stop)
        \o (IF missing = <<>> THEN <<>>
            ELSE IF root.count > 0 THEN <<Edit(root.first, root.first, Append(bytes, ","))>>
            ELSE <<Edit(root.close, root.close, bytes)>>)

\* The blocks of the answer: what each is, its text as it decodes, and the stop in it.
AnswerBlock(text, index, block, stops) ==
    LET kids == DirectObjectChildren(index, block.path)
        kinds == DirectFieldsByKey(kids, Key.type)
        texts == DirectFieldsByKey(kids, Key.text)
        readable == Len(texts) = 1 /\ texts[1].type = "string"
        typed == block.type = "object" /\ Len(kinds) = 1 /\ kinds[1].type = "string"
        found(scan) == [field |-> block, ok |-> typed /\ (stops = <<>> \/ scan.ok),
                        kind |-> IF typed THEN ReadFieldString(text, kinds[1]) ELSE <<>>, readable |-> readable, bytes |-> scan.bytes,
                        end |-> IF readable THEN texts[1].value[2] - 1 ELSE 0,
                        stop |-> IF readable THEN FindStop(scan.bytes, stops) ELSE NoStop]
    IN  found(IF readable THEN ScanString(text, texts[1].value) ELSE [ok |-> TRUE, bytes |-> <<>>])

AnswerEdits(index, blocks, stops) ==
    LET thoughts == {i \in DOMAIN blocks : blocks[i].kind \in {Literal.thinking, Literal.redacted_thinking}}
        textual == {i \in DOMAIN blocks : blocks[i].kind = Literal.text}
        stopped == {i \in textual : blocks[i].stop.seq # 0}
        cut == IF stopped = {} THEN Len(blocks) + 1 ELSE CHOOSE i \in stopped : \A j \in stopped : i <= j
        removed == thoughts \cup {i \in DOMAIN blocks : i > cut}
        shortened(b) == <<Edit(b.bytes[b.stop.start].from, b.end, <<>>)>> \o StopFieldEdits(index, stops[b.stop.seq])
    IN  IF (\E i \in textual : i <= cut /\ ~blocks[i].readable) \/ removed = DOMAIN blocks
        THEN Refused
        ELSE Edits(SortEdits(ArrayRemovalEdits([i \in DOMAIN blocks |-> blocks[i].field], removed)
                             \o (IF cut > Len(blocks) THEN <<>> ELSE shortened(blocks[cut]))))

Response(text, index, stops) ==
    LET types == Find(index, Path(Key.type))
        contents == Find(index, Path(Key.content))
        children == DirectArrayChildren(index, Path(Key.content))
        checked(blocks) == IF \E i \in DOMAIN blocks : ~blocks[i].ok THEN Refused
                           ELSE AnswerEdits(index, blocks, stops)
    IN  IF \/ Len(types) # 1 \/ types[1].type # "string"
           \/ Len(contents) # 1 \/ contents[1].type # "array"
           \/ ~ValidStopField(Find(index, Path(Key.stop_reason)))
           \/ ~ValidStopField(Find(index, Path(Key.stop_sequence)))
           \/ children = <<>>
           \/ ReadFieldString(text, types[1]) # Literal.message
        THEN Refused
        ELSE checked([i \in DOMAIN children |-> AnswerBlock(text, index, children[i], stops)])
=============================================================================
