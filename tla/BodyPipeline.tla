---------------------------- MODULE BodyPipeline ----------------------------
(* The body of one Messages request after another, from the bytes on the    *)
(* client's connection to the bytes the upstream and the client read:       *)
(* captured and scanned chunk by chunk (bodyfile), classified (traffic,     *)
(* automode), planned (flow), patched for each attempt (patch), replayed,   *)
(* and the buffered answer patched on its way back.  Every file that holds  *)
(* a body is a member of files, in the order they are created.              *)
EXTENDS Patches, JSONReference, AliasStore

CONSTANTS
    Texts,           \* bodies the first client may send
    LaterTexts,      \* bodies the clients after it send
    ResponseTexts,   \* bodies of the upstream's successful answers
    Sessions,        \* X-Claude-Code-Session-Id values: AliasKeys and NoSession
    NoSession,       \* a missing or invalid session
    ClassifierModel, \* the effective classifier model
    Chains,          \* the request patches of the target, by request type
    MaxChunk,        \* bytes one read of the connection returns
    MaxAttempts,     \* attempts of a normal request
    MaxRequests      \* requests sent before the clients stop

ASSUME PipelineAssumption ==
    /\ AliasKeys = Sessions \ {NoSession}
    /\ MaxChunk \in Nat \ {0} /\ MaxAttempts \in Nat \ {0}

VARIABLES
    req,             \* the request under way
    scan,            \* its scanner, while it is captured
    files,           \* <<[state, bytes, stray]>>: building, sealed or closed
    indexes,         \* the bound index of each file
    reader,          \* the transport's reader of the attempt: none, open, eof or failed
    recent           \* history: [key, alias, age] of every session, last used first

vars == <<req, scan, files, indexes, reader, recent, lru, issued>>

NoIndex == [fields |-> <<>>, containers |-> <<>>, markers |-> <<>>]
Idle(n) == [pc |-> "idle", n |-> n, text |-> <<>>, pos |-> 0, session |-> NoSession, type |-> "none",
            chain |-> <<>>, attempt |-> 0, base |-> 1, cur |-> 1, alias |-> 0, stops |-> <<>>,
            why |-> "none", resp |-> 0, out |-> 0, answer |-> <<>>]

Init ==
    /\ req = Idle(0) /\ scan = NewScanner("request")
    /\ files = <<>> /\ indexes = <<>> /\ reader = "none" /\ recent = <<>>
    /\ AliasInit

-----------------------------------------------------------------------------
(* Files.                                                                   *)

\* stray marks a file no code path will close.
Building == [state |-> "building", bytes |-> <<>>, stray |-> FALSE]
Sealed(bytes) == [Building EXCEPT !.state = "sealed", !.bytes = bytes]
\* Close and Abort are idempotent; an aborted builder leaves nothing to model.
Close(fs, set) == [i \in DOMAIN fs |-> IF i \in set THEN [fs[i] EXCEPT !.state = "closed"] ELSE fs[i]]
Stray(fs, set) == [i \in DOMAIN fs |-> IF i \in set THEN [fs[i] EXCEPT !.stray = TRUE] ELSE fs[i]]
Bind(s) == [fields |-> s.fields, containers |-> s.containers,
            markers |-> [m \in DOMAIN s.matchers |-> s.matchers[m].found]]
AddFile(bytes, index) == files' = Append(files, Sealed(bytes)) /\ indexes' = Append(indexes, index)
Over(why) == req' = [req EXCEPT !.pc = "over", !.why = why]

-----------------------------------------------------------------------------
(* ServeHTTP: CaptureAndScanCompiled.                                       *)

Receive ==
    /\ req.pc = "idle" /\ req.n < MaxRequests
    /\ \E text \in IF req.n = 0 THEN Texts ELSE LaterTexts :
          req' = [Idle(req.n + 1) EXCEPT !.pc = "capture", !.text = text]
    /\ files' = <<Building>> /\ indexes' = <<NoIndex>> /\ reader' = "none"
    /\ UNCHANGED <<scan, recent, aliasVars>>

AbortCapture(why) ==
    /\ Over(why) /\ files' = Close(files, {1}) /\ scan' = NewScanner("request")
    /\ UNCHANGED indexes

\* A read that returns n bytes and no error: scanned, then written.
TakeChunk(s, chunk) ==
    IF s.stop THEN AbortCapture(s.err)
    ELSE /\ scan' = s /\ files' = [files EXCEPT ![1].bytes = @ \o chunk]
         /\ req' = [req EXCEPT !.pos = @ + Len(chunk)]
         /\ UNCHANGED indexes
ReadChunk ==
    /\ req.pc = "capture"
    /\ \E n \in 1 .. MaxChunk :
          LET chunk == SubSeq(req.text, req.pos + 1, req.pos + n)
          IN  req.pos + n <= Len(req.text) /\ TakeChunk(Write(scan, chunk), chunk)
    /\ UNCHANGED <<reader, recent, aliasVars>>

\* The read that returns the rest together with EOF: Finish, Seal and Bind.
SealCapture(s, chunk) ==
    IF s.err # "none" THEN AbortCapture(s.err)
    ELSE /\ files' = <<Sealed(files[1].bytes \o chunk)>>
         /\ indexes' = <<Bind(s)>>
         /\ scan' = NewScanner("request")
         /\ req' = [req EXCEPT !.pc = "detect", !.pos = Len(req.text)]
ReadEOF ==
    LET chunk == SubSeq(req.text, req.pos + 1, Len(req.text))
        ended(s) == IF s.stop THEN AbortCapture(s.err) ELSE SealCapture(Finish(s), chunk)
    IN  /\ req.pc = "capture" /\ Len(req.text) - req.pos <= MaxChunk
        /\ ended(IF chunk = <<>> THEN scan ELSE Write(scan, chunk))
        /\ UNCHANGED <<reader, recent, aliasVars>>

\* NewBuilder, a write or the connection fails, or a read makes no progress.
CaptureFails ==
    /\ req.pc = "capture" /\ AbortCapture("io")
    /\ UNCHANGED <<reader, recent, aliasVars>>

-----------------------------------------------------------------------------
(* prepareIngress and dispatchIngress: classification and planning.         *)

Classify ==
    /\ req.pc = "detect"
    /\ \E session \in Sessions :
          LET type == Detect(files[1].bytes, indexes[1])
          IN  IF type = "failed" THEN Over("detection")
              ELSE req' = [req EXCEPT !.pc = "plan", !.type = type, !.session = session]
    /\ UNCHANGED <<scan, files, indexes, reader, recent, aliasVars>>

\* The normal planner passes the captured body on; Auto Mode may be disabled.
Plan ==
    /\ req.pc = "plan"
    /\ \/ req.type = "normal" /\ req' = [req EXCEPT !.pc = "attempt", !.base = 1]
       \/ req.type = "classifier" /\ req' = [req EXCEPT !.pc = "override"]
       \/ req.type = "classifier" /\ Over("auto_mode_not_configured")
    /\ UNCHANGED <<scan, files, indexes, reader, recent, aliasVars>>

\* ApplyEditsAndScan of a body: refused, or the derived body and its index.
Derive(spec, text, edits) ==
    LET bytes == ApplyEdits(text, edits)
        derived(s) == [ok |-> ValidateEdits(Len(text), edits) /\ Accepted(s), bytes |-> bytes,
                       index |-> Bind(s)]
    IN  derived(Scan(spec, bytes))

\* The classifier planner's model override, the base of the one attempt.
Override ==
    LET overridden(d) == d.ok /\ AddFile(d.bytes, d.index)
    IN  /\ req.pc = "override"
        /\ overridden(Derive("request", files[1].bytes, ModelOverride(indexes[1], ClassifierModel)))
        /\ req' = [req EXCEPT !.pc = "attempt", !.base = Len(files) + 1]
        /\ UNCHANGED <<scan, reader, recent, aliasVars>>

\* The context ends or a file fails.  The builder is aborted, but not when the
\* context ends before its abort is deferred.
OverrideFails ==
    /\ req.pc = "override" /\ Over("override")
    /\ \E strays \in {<<>>, <<[Building EXCEPT !.stray = TRUE]>>} :
          files' = files \o strays /\ indexes' = indexes \o [i \in DOMAIN strays |-> NoIndex]
    /\ UNCHANGED <<scan, reader, recent, aliasVars>>

-----------------------------------------------------------------------------
(* executeAttempt: the request patches, in order, on the attempt's body.    *)

AttemptBudget == IF req.type = "classifier" THEN 1 ELSE MaxAttempts

\* A slip: the attempt's body is closed even when it is the base itself.
WrongCloseRequestBodies(closeBase) ==
    Close(files, {req.cur} \cup (IF closeBase THEN {req.base} ELSE {}))

\* closeRequestBodies: base is closed with the attempt's body, or kept for a replay.
CloseRequestBodies(closeBase) ==
    Close(files, (IF req.cur = req.base THEN {} ELSE {req.cur}) \cup (IF closeBase THEN {req.base} ELSE {}))

StartAttempt ==
    /\ req.pc = "attempt" /\ req.attempt < AttemptBudget
    /\ req' = [req EXCEPT !.pc = "patch", !.chain = Chains[req.type], !.attempt = @ + 1,
                          !.cur = req.base, !.alias = 0, !.stops = <<>>]
    /\ reader' = "none"
    /\ UNCHANGED <<scan, files, indexes, recent, aliasVars>>

\* A terminal end of the attempt: a cancellation, a patch or local I/O failure.
\* A request patch failure never fails over.
EndAttempt(why) == Over(why) /\ files' = CloseRequestBodies(TRUE) /\ UNCHANGED indexes
AttemptEnds ==
    /\ req.pc \in {"attempt", "patch", "sending"}
    /\ EndAttempt("canceled_or_local")
    /\ UNCHANGED <<scan, reader, recent, aliasVars>>

\* The result of the hook at the head of the chain becomes the attempt's body;
\* the one it replaces is closed unless it is the base (closeIntermediateBody).
HookApplied(hook, next, d) ==
    IF ~hook.ok \/ (hook.edits # <<>> /\ ~d.ok)
    THEN /\ req' = [next EXCEPT !.pc = "over", !.why = "patch_failed"]
         /\ files' = CloseRequestBodies(TRUE) /\ UNCHANGED indexes
    ELSE IF hook.edits = <<>>
    THEN req' = [next EXCEPT !.chain = Tail(@)] /\ UNCHANGED <<files, indexes>>
    ELSE /\ files' = Append(CloseRequestBodies(FALSE), Sealed(d.bytes))
         /\ indexes' = Append(indexes, d.index)
         /\ req' = [next EXCEPT !.chain = Tail(@), !.cur = Len(files) + 1]
ApplyHook(hook, next) == HookApplied(hook, next, Derive("request", files[req.cur].bytes, hook.edits))

NextHook(patch) ==
    req.pc = "patch" /\ req.chain # <<>> /\ Head(req.chain) = patch /\ files[req.cur].state = "sealed"

PatchSubagent ==
    /\ NextHook("subagent")
    /\ ApplyHook(Subagent(files[req.cur].bytes, indexes[req.cur]), req)
    /\ UNCHANGED <<scan, reader, recent, aliasVars>>

PatchClassifier ==
    /\ NextHook("classifier")
    /\ ApplyHook(Classifier(files[req.cur].bytes, indexes[req.cur]), req)
    /\ UNCHANGED <<scan, reader, recent, aliasVars>>

\* The stop sequences stay with the patch instance for its response hook.
PatchGPT ==
    LET read == StopSequences(files[req.cur].bytes, indexes[req.cur])
    IN  /\ NextHook("gpt")
        /\ ApplyHook([ok |-> read.ok, edits |-> <<>>], [req EXCEPT !.stops = read.stops])
        /\ UNCHANGED <<scan, reader, recent, aliasVars>>

AliasText(alias) == <<ToString(alias)>>

\* The alias is resolved before the body is looked at, and stays resolved.
PatchSession ==
    /\ NextHook("session")
    /\ \E alias \in 1 .. FreshAlias :
          /\ IF req.session = NoSession
             THEN ResolveRequestScoped(alias) /\ UNCHANGED recent
             ELSE /\ Resolve(req.session, alias)
                  /\ recent' = <<[key |-> req.session, alias |-> alias, age |-> 0]>>
                               \o SelectSeq(recent, LAMBDA e : e.key # req.session)
          /\ ApplyHook(Session(files[req.cur].bytes, indexes[req.cur], AliasText(alias)),
                       [req EXCEPT !.alias = alias])
    /\ UNCHANGED <<scan, reader>>

\* The random source fails.
PatchSessionFails ==
    /\ NextHook("session") /\ EndAttempt("patch_failed")
    /\ IF req.session = NoSession THEN UNCHANGED aliasVars ELSE ResolveFails(req.session)
    /\ UNCHANGED <<scan, reader, recent>>

-----------------------------------------------------------------------------
(* The call, its failover and the answer.                                   *)

Send ==
    /\ req.pc = "patch" /\ req.chain = <<>> /\ files[req.cur].state = "sealed"
    /\ req' = [req EXCEPT !.pc = "sending"] /\ reader' = "open"
    /\ UNCHANGED <<scan, files, indexes, recent, aliasVars>>

\* The transport reads the body, perhaps long after the call has returned: Close
\* of a reader does nothing, and only the file's Close makes its reads fail.
TransportReads ==
    /\ reader = "open" /\ req.pc # "idle"
    /\ reader' = IF files[req.cur].state = "sealed" THEN "eof" ELSE "failed"
    /\ UNCHANGED <<req, scan, files, indexes, recent, aliasVars>>

\* A transport error or a retryable status: the base stays for the next attempt.
Failover ==
    /\ req.pc = "sending"
    /\ files' = CloseRequestBodies(FALSE)
    /\ req' = [req EXCEPT !.pc = "attempt"]
    /\ UNCHANGED <<scan, indexes, reader, recent, aliasVars>>

\* The loop ends without an answer to give: finishCapturedFailure.
GiveUp ==
    /\ req.pc = "attempt" /\ req.attempt > 0
    /\ EndAttempt("failed")
    /\ UNCHANGED <<scan, reader, recent, aliasVars>>

BuffersResponse == \E i \in DOMAIN Chains[req.type] : Chains[req.type][i] = "gpt"

\* A terminal answer: the request bodies are closed before the client sees it.
\* A successful answer is captured when a patch rewrites it.
Respond ==
    LET captured(text, s) ==
            IF ~Accepted(s) THEN EndAttempt("patch_failed")
            ELSE /\ files' = Append(CloseRequestBodies(TRUE), Sealed(text))
                 /\ indexes' = Append(indexes, Bind(s))
                 /\ req' = [req EXCEPT !.pc = "response", !.resp = Len(files) + 1, !.out = Len(files) + 1]
    IN  /\ req.pc = "sending"
        /\ \/ EndAttempt("streamed")
           \/ BuffersResponse /\ \E text \in ResponseTexts : captured(text, Scan("response", text))
        /\ UNCHANGED <<scan, reader, recent, aliasVars>>

CloseResponseBodies == Close(files, {req.resp, req.out})

\* executeBufferedResponse after the capture.
PatchResponse ==
    LET patched(hook, d) ==
            IF ~hook.ok \/ (hook.edits # <<>> /\ ~d.ok)
            THEN Over("patch_failed") /\ files' = CloseResponseBodies /\ UNCHANGED indexes
            ELSE IF hook.edits = <<>>
            THEN req' = [req EXCEPT !.pc = "deliver"] /\ UNCHANGED <<files, indexes>>
            ELSE req' = [req EXCEPT !.pc = "deliver", !.out = Len(files) + 1] /\ AddFile(d.bytes, d.index)
        applied(hook) == patched(hook, Derive("response", files[req.out].bytes, hook.edits))
    IN  /\ req.pc = "response"
        /\ applied(Response(files[req.out].bytes, indexes[req.out], req.stops))
        /\ UNCHANGED <<scan, reader, recent, aliasVars>>

Deliver ==
    /\ req.pc = "deliver" /\ files[req.out].state = "sealed"
    /\ req' = [req EXCEPT !.pc = "over", !.why = "delivered", !.answer = files[req.out].bytes]
    /\ files' = CloseResponseBodies
    /\ UNCHANGED <<scan, indexes, reader, recent, aliasVars>>

\* The delivery fails or is canceled.  When no reader can be opened and the
\* client is gone, the two bodies are left open.
DeliverFails ==
    /\ req.pc = "deliver" /\ Over("canceled_or_local")
    /\ files' \in {CloseResponseBodies, Stray(files, {req.resp, req.out})}
    /\ UNCHANGED <<scan, indexes, reader, recent, aliasVars>>

\* ServeHTTP returns: the deferred closes of the captured body and of the base.
\* The files still open then are the ones the idle state keeps.
Return ==
    /\ req.pc = "over"
    /\ req' = Idle(req.n)
    /\ LET open == SelectSeq(Close(files, {1, req.base}), LAMBDA f : f.state # "closed")
       IN  files' = [i \in DOMAIN open |-> [open[i] EXCEPT !.bytes = <<>>]]
    /\ indexes' = <<>> /\ reader' = "none"
    /\ UNCHANGED <<scan, recent, aliasVars>>

\* Time passes.  Only a resolve reads the clock, so it passes between requests.
Tick ==
    /\ req.pc = "idle" /\ req.n < MaxRequests
    /\ AliasTick /\ recent' = Aged(recent)
    /\ UNCHANGED <<req, scan, files, indexes, reader>>

\* The clients have sent everything.
Rest == req.pc = "idle" /\ req.n = MaxRequests /\ UNCHANGED vars

Next ==
    \/ Receive \/ ReadChunk \/ ReadEOF \/ CaptureFails
    \/ Classify \/ Plan \/ Override \/ OverrideFails
    \/ StartAttempt \/ AttemptEnds \/ PatchSubagent \/ PatchClassifier \/ PatchSession
    \/ PatchSessionFails \/ PatchGPT \/ Send \/ TransportReads \/ Failover \/ GiveUp
    \/ Respond \/ PatchResponse \/ Deliver \/ DeliverFails \/ Return \/ Tick \/ Rest

Spec == Init /\ [][Next]_vars

-----------------------------------------------------------------------------
(* The scanner against the grammar.                                         *)

ScanErrors == {"invalid", "trailing", "model_repeated", "model_not_string", "model_empty",
               "model_too_long", "model_missing"}
OccursIn(w, t) == \E i \in 0 .. Len(t) - Len(w) : SubSeq(t, i + 1, i + Len(w)) = w

\* The positions of the nodes of Below, as paths of child numbers.
RECURSIVE Positions(_)
Positions(node) ==
    FlattenSeq([i \in DOMAIN node.kids |->
        LET inner == Positions(node.kids[i].node)
        IN  Append([j \in DOMAIN inner |-> <<i>> \o inner[j]], <<i>>)])

\* The retained field agrees with the node it stands for.
FieldIsNode(field, below) ==
    /\ field.path = below.path /\ field.type = below.kid.node.type
    /\ field.value = RangeOf(below.kid.node)
    /\ field.member = <<below.kid.member - 1, below.kid.node.to>>

\* Deleting a field, or two of them, leaves the document without them.
DeletesNode(text, field, where) ==
    MeaningOf(ApplyEdits(text, <<MemberDeleteEdit(field)>>)) = Without(MeaningOf(text), where)
DeletesBoth(text, fields, first, second, i, j) ==
    LET edits == <<MemberDeleteEdit(fields[i]), MemberDeleteEdit(fields[j])>>
    IN  \/ ~ValidateEdits(Len(text), edits)
        \/ MeaningOf(ApplyEdits(text, edits)) = Without(Without(MeaningOf(text), second), first)

SelectionMatches(text, index, below, wanted, where) ==
    /\ Len(index.fields) = Len(wanted)
    /\ \A r \in DOMAIN wanted : /\ FieldIsNode(index.fields[r], below[wanted[r]])
                                 /\ DeletesNode(text, index.fields[r], where[wanted[r]])
    /\ \A i, j \in DOMAIN wanted :
          index.fields[i].delete[2] <= index.fields[j].delete[1]
              => DeletesBoth(text, index.fields, where[wanted[i]], where[wanted[j]], i, j)

ScanMatches(text, index) ==
    LET selection(below) ==
            SelectSeq([k \in DOMAIN below |-> k],
                      LAMBDA k : Wanted(Specs["request"], below[k].path, below[k].kid.node.type))
        selected(root, below) == SelectionMatches(text, index, below, selection(below), Positions(root))
        matches(root) == root.type = "object" /\ ModelOK(text, root) /\ selected(root, Below(root, <<>>))
    IN  /\ matches(Document(text))
        /\ \A m \in Specs["request"].markers : index.markers[m] = OccursIn(m, text)

\* A body is captured iff it is one JSON object with a proper model, however the
\* connection cuts it into reads; the index then holds exactly the selected
\* members and elements, in order, with ranges that can be deleted alone or
\* together, and a marker is found iff its bytes occur (JSONScanner).
ScanExact ==
    /\ req.pc = "detect" => ScanMatches(req.text, indexes[1])
    /\ req.pc = "over" /\ req.why \in ScanErrors =>
          ~(Document(req.text).type = "object" /\ ModelOK(req.text, Document(req.text)))

-----------------------------------------------------------------------------
(* The patches against what they are to do to the document.                 *)

HasMember(m, key) == \E i \in DOMAIN m.kids : m.kids[i].key = key
Member(m, key) == m.kids[CHOOSE i \in DOMAIN m.kids : m.kids[i].key = key].node
Change(m, key, Op(_)) ==
    [m EXCEPT !.kids = [i \in DOMAIN @ |-> IF @[i].key = key THEN Kid(key, Op(@[i].node)) ELSE @[i]]]
Drop(m, key) == [m EXCEPT !.kids = SelectSeq(@, LAMBDA k : k.key # key)]
Prepend(m, key, node) == [m EXCEPT !.kids = <<Kid(key, node)>> \o @]
SetString(m, key, value) == Change(m, key, LAMBDA n : StringNode(value))

ThinkingDisabled(m) ==
    /\ HasMember(m, Key.thinking) /\ HasMember(Member(m, Key.thinking), Key.type)
    /\ Member(Member(m, Key.thinking), Key.type).value = Literal.disabled

\* metadata.user_id as the document its string spells.
Unwrap(m) ==
    IF ~HasMember(m, Key.metadata) THEN m
    ELSE Change(m, Key.metadata, LAMBDA d : Change(d, Key.user_id, LAMBDA u : MeaningOf(u.value)))

TextBlock(value) == ObjectNode(<<Kid(Key.type, StringNode(Literal.text)), Kid(Key.text, StringNode(value))>>)
IsText(block, value) == HasMember(block, Key.text) /\ Member(block, Key.text) = StringNode(value)
IsSecurity(block) == HasMember(block, Key.text) /\ HasPrefix(Member(block, Key.text).value, Literal.security)

Compatible(m) ==
    LET shown == IF ThinkingDisabled(m) THEN Drop(m, Key.thinking) ELSE m
        blocks == Member(m, Key.system).kids
        correct(b) == IF IsSecurity(b)
                      THEN SetString(b, Key.text, Literal.correction \o Member(b, Key.text).value) ELSE b
        corrected(array) == [array EXCEPT !.kids = <<Kid(<<>>, TextBlock(Literal.identity))>>
                                \o [i \in DOMAIN @ |-> Kid(<<>>, correct(@[i].node))]]
    IN  IF \E i \in DOMAIN blocks : IsText(blocks[i].node, Literal.identity) THEN shown
        ELSE Change(shown, Key.system, corrected)

Isolated(m, alias) ==
    LET session == ObjectNode(<<Kid(SessionKey, StringNode(alias))>>)
        member(u) == IF HasMember(u, SessionKey) THEN SetString(u, SessionKey, alias)
                     ELSE [u EXCEPT !.kids = Append(@, Kid(SessionKey, StringNode(alias)))]
        named(d) == IF HasMember(d, Key.user_id) THEN Change(d, Key.user_id, member)
                    ELSE Prepend(d, Key.user_id, session)
    IN  IF HasMember(m, Key.metadata) THEN Change(m, Key.metadata, named)
        ELSE Prepend(m, Key.metadata, ObjectNode(<<Kid(Key.user_id, session)>>))

Intended(m, patch) ==
    CASE patch = "subagent"   -> IF ~ThinkingDisabled(m) THEN m
                                 ELSE Change(m, Key.thinking, LAMBDA t : SetString(t, Key.type, Literal.adaptive))
      [] patch = "classifier" -> Compatible(m)
      [] patch = "session"    -> Isolated(m, AliasText(req.alias))
      [] OTHER                -> m

\* The answer without its thoughts, cut at the first stop sequence.
Cut(m, stops) ==
    LET spoken == SelectSeq(Member(m, Key.content).kids, LAMBDA k :
                      Member(k.node, Key.type).value \notin {Literal.thinking, Literal.redacted_thinking})
        hits(i) == IF Member(spoken[i].node, Key.type).value # Literal.text THEN {}
                   ELSE {<<at, k>> \in (1 .. Len(Member(spoken[i].node, Key.text).value)) \X DOMAIN stops :
                           HasPrefix(SubSeq(Member(spoken[i].node, Key.text).value, at,
                                            Len(Member(spoken[i].node, Key.text).value)), stops[k])}
        cuts == {i \in DOMAIN spoken : hits(i) # {}}
        last == CHOOSE i \in cuts : \A j \in cuts : i <= j
        hit == CHOOSE h \in hits(last) : \A g \in hits(last) : h[1] < g[1] \/ (h[1] = g[1] /\ h[2] <= g[2])
        short == SetString(spoken[last].node, Key.text,
                           SubSeq(Member(spoken[last].node, Key.text).value, 1, hit[1] - 1))
        set(r, key, value) == IF HasMember(r, key) THEN SetString(r, key, value)
                              ELSE Prepend(r, key, StringNode(value))
        with(kids) == Change(m, Key.content, LAMBDA c : [c EXCEPT !.kids = kids])
    IN  IF cuts = {} THEN with(spoken)
        ELSE set(set(with(Append(SubSeq(spoken, 1, last - 1), Kid(<<>>, short))),
                     Key.stop_sequence, stops[hit[2]]),
                 Key.stop_reason, Literal.stop_sequence)

\* What the session patch asks of metadata.user_id.
Isolatable(m) ==
    LET metadata == KidsNamed(m, Key.metadata)
        users == KidsNamed(metadata[1].node, Key.user_id)
        inner == MeaningOf(users[1].node.value)
        sessions == KidsNamed(inner, SessionKey)
    IN  \/ metadata = <<>>
        \/ /\ Len(metadata) = 1 /\ metadata[1].node.type = "object"
           /\ \/ users = <<>>
              \/ /\ Len(users) = 1 /\ users[1].node.type = "string" /\ inner.type = "object"
                 /\ \/ sessions = <<>>
                    \/ /\ Len(sessions) = 1 /\ sessions[1].node.type = "string"
                       /\ ValidInnerSession(sessions[1].node.value)

\* The body that is sent says what the original said, changed by every patch of
\* the chain and by nothing else, the compatibility patches have nothing left to
\* do on it, and the session patch refuses only a user_id it cannot isolate; the
\* answer delivered is the upstream's without its thoughts, cut
\* at the stop sequence that starts first (ApplyRequest, ApplyResponse).
PatchesExact ==
    /\ req.pc = "sending" =>
          LET original == Unwrap(MeaningOf(req.text))
              base == IF req.type = "normal" THEN original ELSE SetString(original, ModelKey, ClassifierModel)
              sent == files[req.cur].bytes
          IN  /\ Unwrap(MeaningOf(sent)) = FoldLeft(Intended, base, Chains[req.type])
              /\ \A i \in DOMAIN Chains[req.type] :
                    /\ Chains[req.type][i] = "subagent" => Subagent(sent, indexes[req.cur]) = Edits(<<>>)
                    /\ Chains[req.type][i] = "classifier" => Classifier(sent, indexes[req.cur]) = Edits(<<>>)
    /\ req.why = "patch_failed" /\ req.chain # <<>> /\ Head(req.chain) = "session" /\ req.alias # 0 =>
          ~Isolatable(MeaningOf(files[req.cur].bytes))
    /\ req.why = "delivered" =>
          MeaningOf(req.answer) = Cut(MeaningOf(files[req.resp].bytes), req.stops)

-----------------------------------------------------------------------------
(* Files and aliases.                                                       *)

\* No file outlives its request, except the ones a cancellation strays; the base
\* stays readable until the last attempt, and no call in progress loses the body
\* it sends (closeRequestBodies, closeIntermediateBody, the deferred closes).
BodiesSettled ==
    /\ req.pc = "idle" => \A i \in DOMAIN files : files[i].stray
    /\ req.pc \in {"attempt", "patch", "sending"} => files[req.base].state = "sealed"
    /\ req.pc \in {"patch", "sending"} => files[req.cur].state = "sealed"
    /\ req.pc = "sending" => reader # "failed"
    /\ \A i \in DOMAIN files : files[i].state = "sealed" =>
          i \in {1, req.base, req.cur, req.resp, req.out} \/ files[i].stray

\* A session keeps its alias while it is among the AliasCapacity sessions used
\* last and was used within the time to live; in every other case it gets one no
\* other session was given (AliasStore.Resolve).
AliasStable ==
    [][req.alias = 0 /\ req'.alias # 0 /\ req.session # NoSession =>
          LET kept == {i \in DOMAIN recent : /\ recent[i].key = req.session
                                             /\ recent[i].age < AliasTTL /\ i <= AliasCapacity}
          IN  IF kept # {} THEN \A i \in kept : req'.alias = recent[i].alias
              ELSE \A i \in DOMAIN recent : req'.alias # recent[i].alias]_vars

\* A classifier body whose thinking and system blocks meet the compatibility
\* patch's rules is sent (anyRouterClassifierPatch.ApplyRequest).
ClassifierPatched ==
    req.why = "patch_failed" /\ req.resp = 0 /\ req.chain # <<>> /\ Head(req.chain) = "classifier"
        => ~Classifier(files[req.cur].bytes, indexes[req.cur]).ok
=============================================================================
