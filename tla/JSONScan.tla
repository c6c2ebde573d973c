------------------------------ MODULE JSONScan ------------------------------
(* internal/bodyfile/stream.go: the incremental, non-recursive scanner that *)
(* validates one top-level JSON object while a body is captured or edited   *)
(* and keeps the byte ranges of the selected fields.  Everything here is an *)
(* operator on the scanner's state; BodyPipeline drives it chunk by chunk.  *)
(* Bytes are strings of one letter.  Numbers are spelt with the digits "0"  *)
(* and "1" (every non-zero digit); white space is " " and the newline "NL", *)
(* a control byte inside a string.  A \u escape has UnicodeDigits digits    *)
(* (four in the code), and which digit strings are surrogates and what the  *)
(* others spell is a constant, as is the set of multi-byte UTF-8 encodings. *)
EXTENDS Integers, Sequences, FiniteSets, TLC

CONSTANTS
    Specs,           \* the compiled scan specs by name: see ScanAssumption
    ModelKey,        \* the segment of the key "model"
    ModelMax,        \* modelname.MaxBytes
    UnicodeDigits,   \* digits of a \u escape
    HexDigit,        \* isHexDigit
    CharOf,          \* what a \u escape outside the surrogates spells
    HighSurrogate, LowSurrogate,
    MultiByteRune    \* UTF-8 encodings of more than one byte

\* A compiled spec: the selectors (sequences of segments, <<"*">> the wildcard),
\* whether a model is required, the raw markers and the raw bytes kept of a key,
\* which cover every spelling of every segment a selector names.
ASSUME ScanAssumption ==
    /\ ModelMax \in Nat /\ UnicodeDigits \in Nat \ {0}
    /\ \A n \in DOMAIN Specs :
          /\ Specs[n].model \in BOOLEAN
          /\ \A m \in Specs[n].markers : Len(m) > 0
          /\ \A p \in Specs[n].paths :
                /\ Len(p) > 0
                /\ \A i \in DOMAIN p : Specs[n].keyRawLimit >= Len(p[i]) * (UnicodeDigits + 2) + 2

-----------------------------------------------------------------------------
(* Bytes.                                                                   *)

Wildcard == <<"*">>
Whitespace == {" ", "NL"}
Delimiter == Whitespace \cup {",", "]", "}"}
Control == {"NL"}
Unescape == [c \in {"\"", "\\", "n"} |-> IF c = "n" THEN "NL" ELSE c]
Words == [t |-> <<"t", "r", "u", "e">>, f |-> <<"f", "a", "l", "s", "e">>,
          n |-> <<"n", "u", "l", "l">>]
MultiByte == UNION {{r[i] : i \in DOMAIN r} : r \in MultiByteRune}
Replacement == <<"U+FFFD", "U+FFFD", "U+FFFD">>    \* three bytes
SurrogatePair == <<"pair", "pair", "pair", "pair">>  \* four bytes
IsProperPrefix(p, q) == Len(p) < Len(q) /\ SubSeq(q, 1, Len(p)) = p

\* encoding/json.Unmarshal on a validated string with its quotes.
Unmarshal(raw) ==
    LET end == Len(raw)
        unitAt(i) == SubSeq(raw, i + 2, i + 1 + UnicodeDigits)
        escapeAt(i) == i + 1 < end /\ raw[i] = "\\" /\ raw[i + 1] = "u"
        dec[i \in 2 .. end] ==
            CASE i = end -> <<>>
              [] i < end /\ raw[i] # "\\" ->
                   LET runes == {r \in MultiByteRune : SubSeq(raw, i, i + Len(r) - 1) = r}
                   IN  IF runes # {}
                       THEN LET r == CHOOSE x \in runes : TRUE IN r \o dec[i + Len(r)]
                       ELSE (IF raw[i] \in MultiByte THEN Replacement ELSE <<raw[i]>>) \o dec[i + 1]
              [] escapeAt(i) ->
                   LET next == i + 2 + UnicodeDigits
                   IN  IF unitAt(i) \in HighSurrogate /\ escapeAt(next) /\ unitAt(next) \in LowSurrogate
                       THEN SurrogatePair \o dec[next + 2 + UnicodeDigits]
                       ELSE (IF unitAt(i) \in HighSurrogate \cup LowSurrogate THEN Replacement
                             ELSE CharOf[unitAt(i)]) \o dec[next]
              [] OTHER -> <<Unescape[raw[i + 1]]>> \o dec[i + 2]
    IN  dec[2]

-----------------------------------------------------------------------------
(* The raw marker matchers: one KMP automaton per marker.                   *)

\* The longest prefix of pattern that byte c extends, following the failure links.
Fallback(pattern, failure, matched, c) ==
    LET fall[k \in 0 .. Len(pattern)] ==
            IF k > 0 /\ c # pattern[k + 1] THEN fall[failure[k]] ELSE k
    IN  fall[matched]

FailureLinks(pattern) ==
    LET failure[i \in 1 .. Len(pattern)] ==
            IF i = 1 THEN 0
            ELSE LET k == Fallback(pattern, failure, failure[i - 1], pattern[i])
                 IN  IF pattern[i] = pattern[k + 1] THEN k + 1 ELSE k
    IN  failure

NewMatcher == [matched |-> 0, found |-> FALSE]

Matched(pattern, k, c) == IF c = pattern[k + 1] THEN k + 1 ELSE k
Feed(m, pattern, c) ==
    LET failure == FailureLinks(pattern)
        found(n) == IF n = Len(pattern) THEN [matched |-> failure[n], found |-> TRUE]
                    ELSE [m EXCEPT !.matched = n]
    IN  IF m.found THEN m
        ELSE found(Matched(pattern, Fallback(pattern, failure, m.matched, c), c))

-----------------------------------------------------------------------------
(* The selector trie: a set of trie nodes is the set of the selector        *)
(* suffixes below them.                                                     *)

Transition(states, segment) ==
    {Tail(p) : p \in {q \in states : q # <<>> /\ Head(q) \in {segment, Wildcard}}}
HasTerminal(states) == <<>> \in states
KeyRawLimitFor(spec, states) ==
    IF \E p \in states : p # <<>> /\ Head(p) = Wildcard THEN 0 ELSE spec.keyRawLimit

-----------------------------------------------------------------------------
(* The scanner's state.                                                     *)

NoContext ==
    [start |-> 0, member |-> 0, path |-> <<>>, states |-> {}, selected |-> FALSE,
     record |-> FALSE, index |-> -1, isModel |-> FALSE]

NoToken ==
    [kind |-> "none", start |-> 0, ctx |-> NoContext, escaped |-> FALSE, digits |-> 0,
     unit |-> <<>>, raw |-> <<>>, limit |-> 0, overflow |-> FALSE, size |-> 0,
     high |-> FALSE, rune |-> <<>>, word |-> <<>>, pos |-> 0, number |-> "none", err |-> "none"]

NewScanner(name) ==
    [spec |-> name, offset |-> 0, stack |-> <<>>, token |-> NoToken, started |-> FALSE, rootDone |-> FALSE,
     finished |-> FALSE, err |-> "none", stop |-> FALSE, modelSeen |-> FALSE, model |-> <<>>,
     modelRange |-> <<0, 0>>, fields |-> <<>>, containers |-> <<>>,
     matchers |-> [m \in Specs[name].markers |-> NewMatcher]]

SpecOf(s) == Specs[s.spec]
Fail(s, e) == [s EXCEPT !.err = e, !.stop = TRUE]
StopOnError(s) == IF s.err # "none" THEN Fail(s, s.err) ELSE s
Advance(s) == [s EXCEPT !.offset = @ + 1]
Frame(s) == s.stack[Len(s.stack)]
SetFrame(s, f) == [s EXCEPT !.stack[Len(s.stack)] = f]

Object(kind) == kind = "{"

PushContainer(s, kind, ctx) ==
    [s EXCEPT !.stack = Append(@,
        [kind |-> kind, state |-> IF Object(kind) THEN "key_or_end" ELSE "value_or_end",
         afterComma |-> FALSE, ctx |-> ctx, count |-> 0, first |-> 0, last |-> 0,
         pending |-> NoContext, deletePending |-> 0])]

\* A slip: the deletion starts at the value, so that the key stays.
WrongNoteNextSibling(s) ==
    LET f == Frame(s)
    IN  IF f.deletePending = 0 THEN s
        ELSE [s EXCEPT !.fields[f.deletePending].delete = <<s.fields[f.deletePending].value[1], s.offset>>,
                       !.stack[Len(s.stack)].deletePending = 0]

\* The previous selected child's delete range ends where its next sibling starts.
NoteNextSibling(s) ==
    LET f == Frame(s)
        field == s.fields[f.deletePending]
    IN  IF f.deletePending = 0 THEN s
        ELSE [s EXCEPT !.fields[f.deletePending].delete =
                           <<IF field.index >= 0 THEN field.value[1] ELSE field.member[1], s.offset>>,
                       !.stack[Len(s.stack)].deletePending = 0]

MakeObjectContext(s, key, memberStart, overflow) ==
    LET f == Frame(s)
        states == IF overflow THEN {} ELSE Transition(f.ctx.states, key)
        isModel == ~overflow /\ SpecOf(s).model /\ Len(s.stack) = 1 /\ key = ModelKey
        retain == states # {} \/ isModel
    IN  [NoContext EXCEPT !.member = memberStart, !.states = states, !.isModel = isModel,
                          !.path = IF retain THEN Append(f.ctx.path, key) ELSE <<>>,
                          !.selected = HasTerminal(states) \/ isModel, !.record = retain]

\* The segment of an array index is its decimal spelling.
MakeArrayContext(s) ==
    LET f == Frame(s)
        segment == <<ToString(f.count)>>
        states == Transition(f.ctx.states, segment)
    IN  [NoContext EXCEPT !.start = s.offset, !.member = s.offset, !.states = states,
                          !.path = IF states # {} THEN Append(f.ctx.path, segment) ELSE <<>>,
                          !.selected = HasTerminal(states), !.record = states # {},
                          !.index = f.count]

\* A complete value: the model rules, the parent's bookkeeping, the retained field.
CompleteValue(s, ctx, type, string) ==
    LET f == Frame(s)
        wrong == CASE s.modelSeen       -> "model_repeated"
                   [] type # "string"   -> "model_not_string"
                   [] string = <<>>     -> "model_empty"
                   [] OTHER             -> "none"
        start == IF Object(f.kind) THEN ctx.member ELSE ctx.start
        retained == ctx.selected \/ (ctx.record /\ type \in {"object", "array"})
        field == [path |-> ctx.path, member |-> <<ctx.member, s.offset>>, value |-> <<ctx.start, s.offset>>,
                  delete |-> <<IF f.count > 0 THEN f.last ELSE start, s.offset>>, type |-> type,
                  index |-> ctx.index]
    IN  IF ctx.isModel /\ wrong # "none" THEN [s EXCEPT !.modelSeen = TRUE, !.err = wrong]
        ELSE [s EXCEPT !.modelSeen = @ \/ ctx.isModel,
                       !.model = IF ctx.isModel THEN string ELSE @,
                       !.modelRange = IF ctx.isModel THEN <<ctx.start, s.offset>> ELSE @,
                       !.stack[Len(s.stack)] =
                           [f EXCEPT !.count = @ + 1, !.last = s.offset,
                                     !.first = IF f.count = 0 THEN start ELSE @,
                                     !.deletePending = IF retained THEN Len(s.fields) + 1 ELSE @],
                       !.fields = IF retained THEN Append(@, field) ELSE @]

CloseContainer(s) ==
    LET f == Frame(s)
        type == IF Object(f.kind) THEN "object" ELSE "array"
        info == [path |-> f.ctx.path, type |-> type, value |-> <<f.ctx.start, s.offset>>,
                 count |-> f.count, first |-> f.first, close |-> s.offset - 1]
        popped == [s EXCEPT !.stack = SubSeq(@, 1, Len(@) - 1),
                            !.containers = IF Len(s.stack) = 1 \/ f.ctx.record
                                           THEN Append(@, info) ELSE @]
    IN  IF Len(s.stack) = 1 THEN [popped EXCEPT !.rootDone = TRUE]
        ELSE StopOnError(CompleteValue(popped, f.ctx, type, <<>>))

-----------------------------------------------------------------------------
(* Tokens.                                                                  *)

Retained(t) == t.kind = "key" \/ t.ctx.isModel
AppendRaw(t, c) ==
    IF ~Retained(t) THEN t
    ELSE IF t.limit = 0 \/ Len(t.raw) < t.limit THEN [t EXCEPT !.raw = Append(@, c)]
    ELSE [t EXCEPT !.overflow = TRUE]

AddModelDecodedBytes(t, n) ==
    IF ~t.ctx.isModel THEN t
    ELSE IF t.size > ModelMax - n THEN [t EXCEPT !.err = "model_too_long"]
    ELSE [t EXCEPT !.size = @ + n]

FlushModelHighSurrogate(t) ==
    IF t.ctx.isModel /\ t.high
    THEN AddModelDecodedBytes([t EXCEPT !.high = FALSE], Len(Replacement)) ELSE t

ConsumeModelUnicodeUnit(t, unit) ==
    LET flushed == FlushModelHighSurrogate(t)
    IN  CASE ~t.ctx.isModel -> t
          [] t.ctx.isModel /\ t.high /\ unit \in LowSurrogate ->
               AddModelDecodedBytes([t EXCEPT !.high = FALSE], Len(SurrogatePair))
          [] OTHER ->
               IF flushed.err # "none" THEN flushed
               ELSE IF unit \in HighSurrogate THEN [flushed EXCEPT !.high = TRUE]
               ELSE AddModelDecodedBytes(flushed, IF unit \in LowSurrogate THEN Len(Replacement)
                                                  ELSE Len(CharOf[unit]))

ConsumeModelRawUTF8Byte(t, c) ==
    LET flushed == FlushModelHighSurrogate(t)
        rune == Append(t.rune, c)
    IN  CASE ~t.ctx.isModel \/ flushed.err # "none" -> flushed
          [] \E r \in MultiByteRune : IsProperPrefix(rune, r) -> [flushed EXCEPT !.rune = rune]
          [] rune \in MultiByteRune \/ (Len(rune) = 1 /\ c \notin MultiByte) ->
               AddModelDecodedBytes([flushed EXCEPT !.rune = <<>>], Len(rune))
          [] OTHER -> [flushed EXCEPT !.err = "invalid"]

\* consumeStringToken up to the closing quote, as the token it leaves.
ConsumeStringByte(t, c) ==
    IF t.digits > 0
    THEN LET unit == Append(t.unit, c)
             read == [t EXCEPT !.digits = @ - 1, !.unit = unit]
         IN  IF c \notin HexDigit THEN [t EXCEPT !.err = "invalid"]
             ELSE IF t.digits = 1 THEN ConsumeModelUnicodeUnit(read, unit) ELSE read
    ELSE IF t.escaped
    THEN CASE c \in DOMAIN Unescape ->
                LET flushed == FlushModelHighSurrogate([t EXCEPT !.escaped = FALSE])
                IN  IF flushed.err # "none" THEN flushed ELSE AddModelDecodedBytes(flushed, 1)
           [] c = "u" -> [t EXCEPT !.escaped = FALSE, !.digits = UnicodeDigits, !.unit = <<>>]
           [] OTHER -> [t EXCEPT !.err = "invalid"]
    ELSE CASE c = "\\" -> IF t.rune # <<>> THEN [t EXCEPT !.err = "invalid"]
                          ELSE [t EXCEPT !.escaped = TRUE]
           [] c \in Control -> [t EXCEPT !.err = "invalid"]
           [] OTHER -> ConsumeModelRawUTF8Byte(t, c)

TokenType(t) ==
    CASE t.kind = "string"                       -> "string"
      [] t.kind = "literal" /\ t.word = Words.n  -> "null"
      [] t.kind = "literal" /\ t.word # Words.n  -> "bool"
      [] OTHER                                   -> "number"

FinishToken(s) ==
    LET t == s.token
        clear == [s EXCEPT !.token = NoToken]
        string == IF t.ctx.isModel /\ t.kind = "string" THEN Unmarshal(t.raw) ELSE <<>>
    IN  IF t.kind = "key"
        THEN SetFrame(clear, [Frame(s) EXCEPT !.afterComma = FALSE,
                 !.pending = MakeObjectContext(clear, IF t.overflow THEN <<>> ELSE Unmarshal(t.raw),
                                               t.start, t.overflow)])
        ELSE IF t.kind = "string" /\ t.ctx.isModel /\ t.overflow THEN [clear EXCEPT !.err = "invalid"]
        ELSE IF Len(string) > ModelMax THEN [clear EXCEPT !.err = "model_too_long"]
        ELSE CompleteValue(clear, t.ctx, TokenType(t), string)

ConsumeStringToken(s, c) ==
    LET closed == FlushModelHighSurrogate(s.token)
        read == ConsumeStringByte(s.token, c)
    IN  IF c = "\"" /\ ~s.token.escaped /\ s.token.digits = 0
        THEN IF s.token.rune # <<>> THEN Fail(s, "invalid")
             ELSE IF closed.err # "none" THEN Fail(s, closed.err)
             ELSE StopOnError(FinishToken(Advance([s EXCEPT !.token = AppendRaw(closed, c)])))
        ELSE IF read.err # "none" THEN Fail(s, read.err)
        ELSE Advance([s EXCEPT !.token = AppendRaw(read, c)])

\* The number lexer: the states a byte leads to, and the states that may end.
NumberTerminal == {"zero", "integer", "fraction", "exponent_digits"}
InitialNumberState == "-" :> "sign" @@ "0" :> "zero" @@ "1" :> "integer"
AdvanceNumber ==
    [sign            |-> "0" :> "zero" @@ "1" :> "integer",
     zero            |-> "." :> "dot" @@ "e" :> "exponent",
     integer         |-> "0" :> "integer" @@ "1" :> "integer" @@ "." :> "dot" @@ "e" :> "exponent",
     dot             |-> "0" :> "fraction" @@ "1" :> "fraction",
     fraction        |-> "0" :> "fraction" @@ "1" :> "fraction" @@ "e" :> "exponent",
     exponent        |-> "+" :> "exponent_sign" @@ "-" :> "exponent_sign"
                         @@ "0" :> "exponent_digits" @@ "1" :> "exponent_digits",
     exponent_sign   |-> "0" :> "exponent_digits" @@ "1" :> "exponent_digits",
     exponent_digits |-> "0" :> "exponent_digits" @@ "1" :> "exponent_digits"]

\* A literal or number that is complete, so that a delimiter may end it.
ScalarComplete(t) ==
    \/ t.kind = "literal" /\ t.pos = Len(t.word)
    \/ t.kind = "number" /\ t.number \in NumberTerminal

ConsumeScalarByte(s, c) ==
    LET t == s.token
    IN  CASE t.kind = "literal" /\ t.pos < Len(t.word) ->
               IF c = t.word[t.pos + 1] THEN Advance([s EXCEPT !.token.pos = @ + 1])
               ELSE Fail(s, "invalid")
          [] t.kind = "number" /\ c \in DOMAIN AdvanceNumber[t.number] ->
               Advance([s EXCEPT !.token.number = AdvanceNumber[t.number][c]])
          [] OTHER -> Fail(s, "invalid")

-----------------------------------------------------------------------------
(* Steps of the enclosing frame.                                            *)

StartValue(s, c, ctx) ==
    LET f == Frame(s)
        s1 == SetFrame(s, [f EXCEPT !.state = "comma_or_end"])
        token(kind) == [NoToken EXCEPT !.kind = kind, !.start = ctx.start, !.ctx = ctx]
    IN  CASE c = "\"" ->
               Advance([s1 EXCEPT !.token =
                   IF ctx.isModel THEN [token("string") EXCEPT !.raw = <<"\"">>,
                                            !.limit = ModelMax * (UnicodeDigits + 2) + 2]
                   ELSE token("string")])
          [] c \in {"{", "["} -> PushContainer(Advance(s1), c, ctx)
          [] c \in DOMAIN Words ->
               Advance([s1 EXCEPT !.token = [token("literal") EXCEPT !.word = Words[c], !.pos = 1]])
          [] c \in DOMAIN InitialNumberState ->
               Advance([s1 EXCEPT !.token = [token("number") EXCEPT !.number = InitialNumberState[c]]])
          [] OTHER -> Fail(s1, "invalid")

StepFrame(s, c) ==
    LET f == Frame(s)
        noted == NoteNextSibling(s)
        close == IF Object(f.kind) THEN "}" ELSE "]"
    IN  CASE c \in Whitespace -> Advance(s)
          [] f.state = "key_or_end" /\ c = "\"" ->
               Advance([noted EXCEPT
                   !.stack[Len(s.stack)].state = "colon",
                   !.token = [NoToken EXCEPT !.kind = "key", !.start = s.offset, !.raw = <<"\"">>,
                                             !.limit = KeyRawLimitFor(SpecOf(s), f.ctx.states)]])
          [] f.state = "colon" /\ c = ":" ->
               Advance(SetFrame(s, [f EXCEPT !.state = "value"]))
          [] f.state = "value" -> StartValue(s, c, [f.pending EXCEPT !.start = s.offset])
          [] f.state = "value_or_end" /\ c # "]" -> StartValue(noted, c, MakeArrayContext(noted))
          [] f.state = "value_required" /\ c # "]" -> StartValue(noted, c, MakeArrayContext(noted))
          [] f.state = "comma_or_end" /\ c = "," ->
               Advance(SetFrame(s, IF Object(f.kind)
                                   THEN [f EXCEPT !.state = "key_or_end", !.afterComma = TRUE]
                                   ELSE [f EXCEPT !.state = "value_required"]))
          [] f.state \in {"key_or_end", "value_or_end", "comma_or_end"} /\ c = close
               /\ ~(f.state = "key_or_end" /\ f.afterComma) -> CloseContainer(Advance(s))
          [] OTHER -> Fail(s, "invalid")

\* step without a token under way.
StepOutside(s, c) ==
    CASE s.rootDone -> IF c \in Whitespace THEN Advance(s) ELSE Fail(s, "trailing")
      [] ~s.rootDone /\ ~s.started ->
           IF c \in Whitespace THEN Advance(s)
           ELSE IF c # "{" THEN Fail(s, "invalid")
           ELSE PushContainer(Advance([s EXCEPT !.started = TRUE]), c,
                              [NoContext EXCEPT !.start = s.offset, !.member = s.offset,
                                                !.states = SpecOf(s).paths])
      [] OTHER -> StepFrame(s, c)

\* One byte of Write's loop.  A delimiter that ends a scalar is passed on to the
\* enclosing frame, even when finishing the scalar recorded an error.
Step(s, c) ==
    CASE s.token.kind = "none" -> StepOutside(s, c)
      [] s.token.kind \in {"key", "string"} -> ConsumeStringToken(s, c)
      [] OTHER -> IF ScalarComplete(s.token) /\ c \in Delimiter
                  THEN StepOutside(FinishToken(s), c)
                  ELSE ConsumeScalarByte(s, c)

\* Write(p): the matchers take the whole chunk, then the bytes are stepped.  It
\* fails (stop) on a step's error, and at once when an error is already recorded.
Write(s, chunk) ==
    LET fed[i \in 0 .. Len(chunk)] ==
            IF i = 0 THEN s.matchers
            ELSE [m \in DOMAIN s.matchers |-> Feed(fed[i - 1][m], m, chunk[i])]
        run[i \in 0 .. Len(chunk)] ==
            IF i = 0 THEN [s EXCEPT !.matchers = fed[Len(chunk)]]
            ELSE LET before == run[i - 1]
                 IN  IF before.stop THEN before ELSE Step(before, chunk[i])
    IN  IF s.finished \/ s.err # "none" THEN [s EXCEPT !.stop = TRUE] ELSE run[Len(chunk)]

\* Finish: the EOF checks.  The scan is complete when err is "none" afterwards.
AtEOF(s) ==
    [s EXCEPT !.finished = TRUE,
              !.err = CASE @ # "none" -> @
                        [] @ = "none" /\ (~s.rootDone \/ s.stack # <<>>) -> "invalid"
                        [] @ = "none" /\ s.rootDone /\ SpecOf(s).model /\ ~s.modelSeen -> "model_missing"
                        [] OTHER -> "none"]
Finish(s) ==
    IF s.finished \/ s.err # "none" THEN [s EXCEPT !.finished = TRUE]
    ELSE AtEOF(IF s.token.kind = "none" THEN s
               ELSE IF ScalarComplete(s.token) THEN FinishToken(s)
               ELSE [s EXCEPT !.err = "invalid"])

\* A whole body scanned through a buffer (ScanBody, ApplyEditsAndScan).
Buffer == 8
Scan(name, text) ==
    LET end(k) == IF k * Buffer < Len(text) THEN k * Buffer ELSE Len(text)
        chunks == (Len(text) + Buffer - 1) \div Buffer
        written[k \in 0 .. chunks] ==
            IF k = 0 THEN NewScanner(name)
            ELSE LET before == written[k - 1]
                 IN  IF before.stop THEN before
                     ELSE Write(before, SubSeq(text, end(k - 1) + 1, end(k)))
    IN  Finish(written[chunks])
Accepted(s) == s.finished /\ s.err = "none"

-----------------------------------------------------------------------------
(* The index (index.go): lookups on the fields of an accepted scan.         *)

Find(index, path) == SelectSeq(index.fields, LAMBDA f : f.path = path)
Containers(index, path) == SelectSeq(index.containers, LAMBDA c : c.path = path)
DirectChildren(index, path) ==
    SelectSeq(index.fields, LAMBDA f : f.path # <<>> /\ SubSeq(f.path, 1, Len(f.path) - 1) = path)
=============================================================================
