---------------------------- MODULE InnerSession ----------------------------
(* innerSessionIDEdit of internal/patch/cliproxyapi_session.go: the string   *)
(* metadata.user_id holds a JSON object of its own.  It is decoded byte by   *)
(* byte with the outer range of every decoded byte, parsed by a state        *)
(* machine with an explicit stack, and one edit of the outer string replaces *)
(* the content of session_id or inserts the member.                          *)
EXTENDS BodyEdits

CONSTANT SessionKey      \* "session_id"

-----------------------------------------------------------------------------
(* The decoded bytes d are read with a look-ahead; "eof" is past their end.  *)

Peek(d, i) == IF i \in DOMAIN d THEN d[i].c ELSE "eof"
SkipWhile(d, i, set) ==
    LET skip[k \in i .. Len(d) + 1] == IF Peek(d, k) \in set THEN skip[k + 1] ELSE k
    IN  IF i > Len(d) THEN i ELSE skip[i]
SkipSpace(d, i) == SkipWhile(d, i, Whitespace)
ConsumeDigits(d, i) == SkipWhile(d, i, {"0", "1"})
ValueDelimiter == Whitespace \cup {",", "}", "]", "eof"}

\* parseString at i: the position after the closing quote (0 on an error), the
\* decoded content and the outer range it takes.
ParseString(d, i) ==
    LET close[k \in i + 1 .. Len(d) + UnicodeDigits + 3] ==
            CASE Peek(d, k) \in Control \cup {"eof"} -> 0
              [] Peek(d, k) = "\"" -> k
              [] Peek(d, k) = "\\" /\ Peek(d, k + 1) \in DOMAIN Unescape -> close[k + 2]
              [] Peek(d, k) = "\\" /\ Peek(d, k + 1) = "u" ->
                   IF \A n \in 1 .. UnicodeDigits : Peek(d, k + 1 + n) \in HexDigit
                   THEN close[k + 2 + UnicodeDigits] ELSE 0
              [] Peek(d, k) = "\\" -> 0
              [] OTHER -> close[k + 1]
        q == IF Peek(d, i) = "\"" THEN close[i + 1] ELSE 0
    IN  IF q = 0 THEN [next |-> 0, value |-> <<>>, range |-> <<0, 0>>]
        ELSE [next |-> q + 1,
              value |-> Unmarshal([k \in 1 .. q - i + 1 |-> d[i + k - 1].c]),
              range |-> <<d[i].to, d[q].from>>]

\* observe(): a session must have a character and neither spaces nor controls.
ValidInnerSession(value) ==
    value # <<>> /\ \A k \in DOMAIN value : value[k] \notin Whitespace \cup Control

\* consumeLiteral and consumeNumber: the position after the value, 0 on an error.
ConsumeLiteral(d, i, word) ==
    IF /\ \A k \in DOMAIN word : Peek(d, i + k - 1) = word[k]
       /\ Peek(d, i + Len(word)) \in ValueDelimiter
    THEN i + Len(word) ELSE 0
DigitsEnd(d, i) == IF Peek(d, i) \in {"0", "1"} THEN ConsumeDigits(d, i) ELSE 0
IntegerEnd(d, i) ==
    IF Peek(d, i) # "0" THEN DigitsEnd(d, i) ELSE IF Peek(d, i + 1) \in {"0", "1"} THEN 0 ELSE i + 1
FractionEnd(d, i) == IF Peek(d, i) = "." THEN DigitsEnd(d, i + 1) ELSE i
ExponentEnd(d, i) ==
    CASE Peek(d, i) # "e" -> i
      [] Peek(d, i) = "e" /\ Peek(d, i + 1) \in {"+", "-"} -> DigitsEnd(d, i + 2)
      [] OTHER -> DigitsEnd(d, i + 1)
BeforeDelimiter(d, i) == IF Peek(d, i) \in ValueDelimiter THEN i ELSE 0
ConsumeNumber(d, i) ==
    LET first == IF Peek(d, i) = "-" THEN i + 1 ELSE i
    IN  BeforeDelimiter(d, ExponentEnd(d, FractionEnd(d, IntegerEnd(d, first))))

-----------------------------------------------------------------------------
(* scanSessionObject: one step is one turn of the loop on the top frame.     *)

InnerFrame(kind, root) ==
    [kind |-> kind, state |-> IF kind = "{" THEN "member_or_end" ELSE "value_or_end",
     root |-> root, members |-> FALSE, session |-> FALSE]
NoLocation == [present |-> FALSE, members |-> FALSE, content |-> <<0, 0>>, close |-> 0]
InnerStart(d) ==
    LET i == SkipSpace(d, 1)
    IN  [i |-> i + 1, stack |-> <<InnerFrame("{", TRUE)>>, loc |-> NoLocation,
         ok |-> Peek(d, i) = "{"]

Refuse(p) == [p EXCEPT !.ok = FALSE]
InnerTop(p) == p.stack[Len(p.stack)]
SetTop(p, i, f) == [p EXCEPT !.i = i, !.stack[Len(p.stack)] = f]

\* The closing bracket at i: the frame is popped and its parent goes on.
PopFrame(p, d, i) ==
    LET f == InnerTop(p)
        rest == SubSeq(p.stack, 1, Len(p.stack) - 1)
    IN  [p EXCEPT !.i = i + 1,
                  !.loc = IF f.root THEN [@ EXCEPT !.close = d[i].from, !.members = f.members] ELSE @,
                  !.stack = IF rest = <<>> THEN rest ELSE [rest EXCEPT ![Len(rest)].state = "comma_or_end"]]

\* startInnerValue: a scalar advances the frame, a container is pushed.
AfterScalar(p, next) ==
    IF next = 0 THEN Refuse(p) ELSE SetTop(p, next, [InnerTop(p) EXCEPT !.state = "comma_or_end"])
StartInnerValue(p, d, i) ==
    IF Peek(d, i) \in {"{", "["}
    THEN [p EXCEPT !.i = i + 1, !.stack = Append(@, InnerFrame(Peek(d, i), FALSE))]
    ELSE AfterScalar(p,
             CASE Peek(d, i) = "\"" -> ParseString(d, i).next
               [] Peek(d, i) \in DOMAIN Words -> ConsumeLiteral(d, i, Words[Peek(d, i)])
               [] Peek(d, i) \in {"-", "0", "1"} -> ConsumeNumber(d, i)
               [] OTHER -> 0)

AfterKey(p, d, key) ==
    LET f == InnerTop(p)
        session == f.root /\ key.value = SessionKey
        colon == SkipSpace(d, key.next)
    IN  IF key.next = 0 \/ (session /\ p.loc.present) \/ Peek(d, colon) # ":" THEN Refuse(p)
        ELSE SetTop(p, colon + 1, [f EXCEPT !.members = TRUE, !.session = session, !.state = "value"])
InnerMember(p, d, i) == AfterKey(p, d, ParseString(d, i))

AfterSession(p, value) ==
    IF value.next = 0 \/ ~ValidInnerSession(value.value) THEN Refuse(p)
    ELSE [SetTop(p, value.next, [InnerTop(p) EXCEPT !.session = FALSE, !.state = "comma_or_end"])
          EXCEPT !.loc.present = TRUE, !.loc.content = value.range]
InnerValue(p, d, i) ==
    IF InnerTop(p).session THEN AfterSession(p, ParseString(d, i)) ELSE StartInnerValue(p, d, i)

InnerSeparator(p, d, i) ==
    LET f == InnerTop(p)
        close == IF f.kind = "{" THEN "}" ELSE "]"
        next == SkipSpace(d, i + 1)
    IN  CASE Peek(d, i) = close -> PopFrame(p, d, i)
          [] Peek(d, i) = "," ->
               IF Peek(d, next) \in {close, "eof"} THEN Refuse(p)
               ELSE SetTop(p, next, [f EXCEPT !.session = FALSE,
                        !.state = IF f.kind = "{" THEN "member_or_end" ELSE "value_or_end"])
          [] OTHER -> Refuse(p)

InnerStep(p, d) ==
    LET i == SkipSpace(d, p.i)
        f == InnerTop(p)
    IN  CASE f.state = "member_or_end" ->
               IF Peek(d, i) = "}" THEN PopFrame(p, d, i) ELSE InnerMember(p, d, i)
          [] f.state = "value_or_end" ->
               IF Peek(d, i) = "]" THEN PopFrame(p, d, i) ELSE StartInnerValue(p, d, i)
          [] f.state = "value" -> InnerValue(p, d, i)
          [] OTHER -> InnerSeparator(p, d, i)

Scanned(p, d) == [p EXCEPT !.ok = @ /\ p.stack = <<>> /\ SkipSpace(d, p.i) > Len(d)]
ScanSessionObject(d) ==
    LET run[n \in 0 .. 3 * Len(d)] ==
            IF n = 0 THEN InnerStart(d)
            ELSE LET p == run[n - 1]
                 IN  IF ~p.ok \/ p.stack = <<>> THEN p ELSE InnerStep(p, d)
    IN  Scanned(run[3 * Len(d)], d)

\* The edit of the outer body that gives user_id the alias.
SessionEdit(loc, alias) ==
    LET member == JSONStringBytes(SessionKey) \o <<":">> \o JSONStringBytes(alias)
    IN  IF loc.present THEN Edit(loc.content[1], loc.content[2], EncodeContent(alias))
        ELSE Edit(loc.close, loc.close, EncodeContent(IF loc.members THEN <<",">> \o member ELSE member))
InnerSessionIDEdit(text, field, alias) ==
    LET located(p) == [ok |-> p.ok, edit |-> SessionEdit(p.loc, alias)]
    IN  located(ScanSessionObject(DecodeMapped(text, field.value, TRUE)))
=============================================================================
