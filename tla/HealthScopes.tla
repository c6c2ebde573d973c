---------------------------- MODULE HealthScopes ---------------------------
(***************************************************************************)
(* The data of the in-memory health controller, internal/health/store.go,  *)
(* and what its operations do to it.                                       *)
(*                                                                         *)
(* Every provider has at most one active scope (one generation, one health *)
(* epoch, one health mode) and any number of retired scopes that only live *)
(* as long as leases issued from them.  A scope owns a circuit breaker for *)
(* the provider as a whole and one per channel (model, request type).  A   *)
(* lease taken from a half-open breaker is its one probe.                  *)
(*                                                                         *)
(* Abstractions.  Times are kept relative to now: cooldownLeft stands for  *)
(* cooldownUntil - now (0 when the deadline is not in the future) and      *)
(* sinceFailure for now - lastHealthFailure, where NeverFailed stands for  *)
(* the zero time and for every gap longer than FailureWindow, which the    *)
(* code treats alike.  The clock is Go's monotonic clock: no negative gap. *)
(* Diagnostic texts, URLs, session ids and the observed-failure counter    *)
(* are left out.  Observation ids, which are only compared for equality,   *)
(* are 0 when no error body will follow.  The scope objects of one         *)
(* provider live in Slot.                                                  *)
(*                                                                         *)
(* The definitions named Wrong... are variants of the definition that      *)
(* follows them with a mistake in it.  Nothing uses them: they show that   *)
(* the properties notice such a mistake.                                   *)
(***************************************************************************)
EXTENDS Integers, Sequences, FiniteSets

CONSTANTS
    Provider,           \* provider ids
    Model,              \* model names
    RequestType,        \* the request types in use: "normal", "classifier"
    Global,             \* the provider-wide breaker of a scope
    Generation,         \* endpoint generations
    Slot, NoSlot,       \* names for the live scopes of one provider
    Token, NoToken,     \* lease tokens; NoToken is the code's 0
    FailureWindow,      \* policy.FailureWindow
    FailureThreshold,   \* policy.FailureThreshold
    Cooldowns,          \* policy.Cooldowns
    RetryAfterMin,      \* policy.RetryAfterMin
    RetryAfterMax,      \* policy.RetryAfterMax
    MaxInt,             \* the largest int: consecutiveFailures saturates there
    Observation         \* observation ids of error bodies still being read

Channel == Model \X RequestType
EntryId == {Global} \cup Channel
NoGeneration == ""
NoObservation == 0
NeverFailed == FailureWindow + 1
NoRetryAfter == -1

FailureClass ==
    {"none", "neutral", "global_immediate", "global_transient",
     "channel_immediate", "channel_transient", "channel_stream",
     "client_canceled", "downstream"}

CompiledProvider ==
    [generation: Generation, epoch: Nat, disableHealth: BOOLEAN, models: SUBSET Model]

(* httpStatus says whether the outcome carries an upstream HTTP status,    *)
(* errorPending whether its error body is still to be read.                *)
Outcome ==
    [class: FailureClass, retryAfter: Nat \cup {NoRetryAfter},
     httpStatus: BOOLEAN, errorPending: BOOLEAN]

ASSUME ConstantsAssumption ==
    /\ Global \notin Channel
    /\ RequestType \subseteq {"normal", "classifier"} /\ "normal" \in RequestType
    /\ NoSlot \notin Slot
    /\ NoToken \notin Token /\ IsFiniteSet(Token)
    /\ "" \notin Provider
    /\ Observation \subseteq Nat \ {NoObservation}

(* Policy.Validate *)
ASSUME PolicyAssumption ==
    /\ FailureWindow \in Nat \ {0}
    /\ FailureThreshold \in Nat \ {0}
    /\ MaxInt \in Nat /\ MaxInt >= FailureThreshold
    /\ Cooldowns \in Seq(Nat \ {0}) /\ Cooldowns # <<>>
    /\ \A i, j \in DOMAIN Cooldowns : i <= j => Cooldowns[i] <= Cooldowns[j]
    /\ RetryAfterMin \in Nat \ {0}
    /\ RetryAfterMax \in Nat /\ RetryAfterMax >= RetryAfterMin

-----------------------------------------------------------------------------
(* Entries: one circuit breaker and its latest diagnostic.                 *)

MachineState ==
    {"absent", "unknown", "healthy", "degraded", "cooldown", "half_open", "disabled"}

InitialState(disabled) == IF disabled THEN "disabled" ELSE "unknown"

NewEntry(state) ==
    [state               |-> state,
     backoffLevel        |-> 0,
     consecutiveFailures |-> 0,
     sinceFailure        |-> NeverFailed,
     cooldownLeft        |-> 0,
     probeToken          |-> NoToken,
     activeLeases        |-> 0,
     observation         |-> NoObservation,
     errorPending        |-> FALSE,
     errorIncomplete     |-> FALSE]

AbsentEntry == NewEntry("absent")

Exists(e) == e.state # "absent"

(* The pending flag is inherited, although its reader reports elsewhere.   *)
WrongInheritState(target, source, preserveBreaker) ==
    IF preserveBreaker THEN [source EXCEPT !.observation  = target.observation,
                                           !.probeToken   = NoToken,
                                           !.activeLeases = 0]
    ELSE [target EXCEPT !.errorPending = source.errorPending]

(* inheritState: durable observations cross generations; the new entry     *)
(* keeps its own observation id, probe and lease count.                    *)
InheritState(target, source, preserveBreaker) ==
    LET diagnosed == [target EXCEPT
            !.errorPending    = FALSE,
            !.errorIncomplete = source.errorIncomplete \/ source.errorPending]
    IN  IF preserveBreaker
        THEN [diagnosed EXCEPT
                !.state               = source.state,
                !.backoffLevel        = source.backoffLevel,
                !.consecutiveFailures = source.consecutiveFailures,
                !.sinceFailure        = source.sinceFailure,
                !.cooldownLeft        = source.cooldownLeft]
        ELSE diagnosed

AdvanceCooldown(e) ==
    IF e.state # "cooldown" \/ e.cooldownLeft > 0
    THEN e
    ELSE [e EXCEPT !.state = "half_open", !.cooldownLeft = 0, !.probeToken = NoToken]

Available(e) ==
    /\ e.state # "cooldown"
    /\ e.state = "half_open" => e.probeToken = NoToken

ObserveLatest(e, outcome, obs) ==
    [e EXCEPT !.observation     = obs,
              !.errorPending    = outcome.errorPending,
              !.errorIncomplete = FALSE]

(* The reservation is kept when an attempt ends without a verdict.         *)
WrongReleaseProbe(e, token) == e

ReleaseProbe(e, token) ==
    IF e.state = "half_open" /\ e.probeToken = token
    THEN [e EXCEPT !.probeToken = NoToken]
    ELSE e

ApplySuccess(e) ==
    IF e.state = "disabled"
    THEN e
    ELSE [e EXCEPT !.state               = "healthy",
                   !.backoffLevel        = 0,
                   !.consecutiveFailures = 0,
                   !.sinceFailure        = NeverFailed,
                   !.cooldownLeft        = 0,
                   !.probeToken          = NoToken]

RecordConsecutiveFailure(e) ==
    [e EXCEPT !.sinceFailure = 0,
              !.consecutiveFailures =
                  IF e.sinceFailure > FailureWindow THEN 1
                  ELSE IF @ < MaxInt THEN @ + 1 ELSE @]

Cooldown(level) ==
    Cooldowns[IF level >= Len(Cooldowns) THEN Len(Cooldowns) ELSE level + 1]

EffectiveCooldown(level, retryAfter) ==
    LET base    == Cooldown(level)
        raised  == IF retryAfter < RetryAfterMin THEN RetryAfterMin ELSE retryAfter
        clamped == IF raised > RetryAfterMax THEN RetryAfterMax ELSE raised
    IN  IF retryAfter # NoRetryAfter /\ clamped > base THEN clamped ELSE base

EnterCooldown(e, outcome) ==
    [e EXCEPT !.state        = "cooldown",
              !.cooldownLeft = EffectiveCooldown(e.backoffLevel, outcome.retryAfter),
              !.probeToken   = NoToken]

(* One past the end of the schedule.                                       *)
WrongRaiseBackoff(level) == IF level < Len(Cooldowns) THEN level + 1 ELSE level

RaiseBackoff(level) == IF level < Len(Cooldowns) - 1 THEN level + 1 ELSE level

(* The threshold is missed by one.                                         *)
WrongEntersCooldown(e, token, immediate) ==
    CASE e.state \in {"disabled", "cooldown"} -> FALSE
      [] e.state = "half_open"                -> e.probeToken = token
      [] OTHER -> \/ immediate
                  \/ RecordConsecutiveFailure(e).consecutiveFailures > FailureThreshold

(* applyFailureLocked returns true: the failure opens the breaker.         *)
EntersCooldown(e, token, immediate) ==
    CASE e.state \in {"disabled", "cooldown"} -> FALSE
      [] e.state = "half_open"                -> e.probeToken = token
      [] OTHER -> \/ immediate
                  \/ RecordConsecutiveFailure(e).consecutiveFailures >= FailureThreshold

(* Any attempt's failure counts against a half-open breaker, not only its  *)
(* probe's.                                                                *)
WrongApplyFailureHalfOpen(e, token, outcome, immediate) ==
    CASE e.state \in {"disabled", "cooldown"} -> e
      [] e.state = "half_open" ->
            EnterCooldown(
                [RecordConsecutiveFailure(e) EXCEPT !.backoffLevel = RaiseBackoff(@)], outcome)
      [] OTHER ->
            IF EntersCooldown(e, token, immediate)
            THEN EnterCooldown(RecordConsecutiveFailure(e), outcome)
            ELSE [RecordConsecutiveFailure(e) EXCEPT !.state = "degraded"]

(* A failure during a cooldown starts it again.                            *)
WrongApplyFailureCooldown(e, token, outcome, immediate) ==
    IF e.state = "disabled" THEN e ELSE EnterCooldown(RecordConsecutiveFailure(e), outcome)

ApplyFailure(e, token, outcome, immediate) ==
    CASE e.state \in {"disabled", "cooldown"} -> e
      [] e.state = "half_open" ->
            IF e.probeToken # token
            THEN e
            ELSE EnterCooldown(
                    [RecordConsecutiveFailure(e) EXCEPT !.backoffLevel = RaiseBackoff(@)],
                    outcome)
      [] OTHER ->
            IF EntersCooldown(e, token, immediate)
            THEN EnterCooldown(RecordConsecutiveFailure(e), outcome)
            ELSE [RecordConsecutiveFailure(e) EXCEPT !.state = "degraded"]

(* One unit of time passes for an entry.                                   *)
Age(e) ==
    [e EXCEPT !.cooldownLeft = IF @ > 0 THEN @ - 1 ELSE 0,
              !.sinceFailure = IF @ < NeverFailed THEN @ + 1 ELSE @]

-----------------------------------------------------------------------------
(* Scopes: the breakers of one generation of one provider.                 *)

FreeScope ==
    [generation |-> NoGeneration, epoch |-> 0, disableHealth |-> FALSE, models |-> {},
     activeLeases |-> 0, entry |-> [x \in EntryId |-> AbsentEntry]]

NewScope(c) ==
    [generation |-> c.generation, epoch |-> c.epoch,
     disableHealth |-> c.disableHealth, models |-> c.models, activeLeases |-> 0,
     entry |-> [x \in EntryId |->
                    IF x \in {Global} \cup (c.models \X {"normal"})
                    THEN NewEntry(InitialState(c.disableHealth))
                    ELSE AbsentEntry]]

(* The scope an old snapshot's request creates when nothing is left of its *)
(* generation; k is a health key with its health mode.                     *)
NewRetiredScope(k) ==
    [generation |-> k.generation, epoch |-> k.epoch,
     disableHealth |-> k.disableHealth, models |-> {k.model}, activeLeases |-> 0,
     entry |-> [x \in EntryId |->
                    IF x \in {Global, <<k.model, k.requestType>>}
                    THEN NewEntry(InitialState(k.disableHealth))
                    ELSE AbsentEntry]]

InheritScopeState(target, source) ==
    LET preserve == target.disableHealth = source.disableHealth
        Base(x)  == IF Exists(target.entry[x]) THEN target.entry[x]
                    ELSE NewEntry(InitialState(target.disableHealth))
    IN  [target EXCEPT !.entry = [x \in EntryId |->
            IF x = Global \/ (Exists(source.entry[x]) /\ x \in target.models \X RequestType)
            THEN InheritState(Base(x), source.entry[x], preserve)
            ELSE target.entry[x]]]

(* Channels of removed models are dropped while leases are out.            *)
WrongReconcileModels(sc, models) ==
    [sc EXCEPT
        !.models = models,
        !.entry  = [x \in EntryId |->
            IF x \in models \X {"normal"} /\ ~Exists(sc.entry[x])
            THEN NewEntry(InitialState(sc.disableHealth))
            ELSE IF x # Global /\ x \notin models \X RequestType THEN AbsentEntry
            ELSE sc.entry[x]]]

ReconcileModels(sc, models) ==
    [sc EXCEPT
        !.models = models,
        !.entry  = [x \in EntryId |->
            IF x \in models \X {"normal"} /\ ~Exists(sc.entry[x])
            THEN NewEntry(InitialState(sc.disableHealth))
            ELSE IF x # Global /\ x \notin models \X RequestType /\ sc.entry[x].activeLeases = 0
            THEN AbsentEntry
            ELSE sc.entry[x]]]

-----------------------------------------------------------------------------
(* One provider's scopes: the active one, the retired ones in the order    *)
(* they were retired, and their contents.                                  *)

NoScopes == [active |-> NoSlot, retired |-> <<>>, scope |-> [s \in Slot |-> FreeScope]]

RetiredSlots(ps) == {ps.retired[i] : i \in DOMAIN ps.retired}
FreeSlots(ps) == {s \in Slot : s # ps.active /\ s \notin RetiredSlots(ps)}

Matches(sc, k) ==
    /\ sc.generation = k.generation
    /\ sc.epoch = k.epoch
    /\ sc.disableHealth = k.disableHealth

ActiveMatches(ps, k) == ps.active # NoSlot /\ Matches(ps.scope[ps.active], k)

(* retireLocked, and the active map entry going away: a scope without      *)
(* leases is dropped at once.                                              *)
Retire(ps) ==
    IF ps.active = NoSlot THEN ps
    ELSE IF ps.scope[ps.active].activeLeases = 0
    THEN [ps EXCEPT !.active = NoSlot, !.scope[ps.active] = FreeScope]
    ELSE [ps EXCEPT !.active = NoSlot, !.retired = Append(@, ps.active)]

(* One provider's part of Reconcile; c is its new compiled form.           *)
ReconcileProvider(ps, c) ==
    LET current   == ps.scope[ps.active]
        sameEpoch == ps.active # NoSlot /\ current.epoch = c.epoch
        rest      == Retire(ps)
        slot      == CHOOSE s \in FreeSlots(rest) : TRUE
        fresh     == NewScope(c)
    IN  IF ActiveMatches(ps, c)
        THEN [ps EXCEPT !.scope[ps.active] = ReconcileModels(@, c.models)]
        ELSE [rest EXCEPT
                !.active = slot,
                !.scope[slot] = IF sameEpoch THEN InheritScopeState(fresh, current) ELSE fresh]

(* scopeForAcquireLocked: the slot, and the scopes once it is in place.    *)
RetiredMatches(ps, k) ==
    {i \in DOMAIN ps.retired : Matches(ps.scope[ps.retired[i]], k)}

SlotForAcquire(ps, k) ==
    IF ActiveMatches(ps, k) THEN ps.active
    ELSE IF RetiredMatches(ps, k) # {}
    THEN ps.retired[CHOOSE i \in RetiredMatches(ps, k) :
                        \A j \in RetiredMatches(ps, k) : j <= i]
    ELSE CHOOSE s \in FreeSlots(ps) : TRUE

HasSlot(ps, k) ==
    ActiveMatches(ps, k) \/ RetiredMatches(ps, k) # {} \/ FreeSlots(ps) # {}

ScopeForAcquire(ps, k) ==
    IF ActiveMatches(ps, k) \/ RetiredMatches(ps, k) # {} THEN ps
    ELSE LET s == SlotForAcquire(ps, k)
         IN  [ps EXCEPT !.retired = Append(@, s), !.scope[s] = NewRetiredScope(k)]

KeyEntries(k) == {Global, <<k.model, k.requestType>>}

(* What Acquire does to the scope before it decides, lease or no lease:    *)
(* a missing channel is created and expired cooldowns become half-open.    *)
Touch(sc, k) ==
    [sc EXCEPT !.entry = [x \in EntryId |->
        IF x \notin KeyEntries(k) THEN sc.entry[x]
        ELSE IF ~Exists(sc.entry[x]) THEN NewEntry(InitialState(sc.disableHealth))
        ELSE AdvanceCooldown(sc.entry[x])]]

Inspect(ps, k) ==
    [ScopeForAcquire(ps, k) EXCEPT !.scope[SlotForAcquire(ps, k)] = Touch(@, k)]

(* HealthDecision.Available and the two states of an unavailable decision. *)
Decision(ps, k) ==
    LET sc == Inspect(ps, k).scope[SlotForAcquire(ps, k)]
    IN  [available |-> \A x \in KeyEntries(k) : Available(sc.entry[x]),
         cooling   |-> \E x \in KeyEntries(k) : sc.entry[x].state = "cooldown"]

ProbesFor(ps, k) ==
    LET sc == Inspect(ps, k).scope[SlotForAcquire(ps, k)]
    IN  {x \in KeyEntries(k) : sc.entry[x].state = "half_open"}

(* The second half of Acquire: reserve the probes and count the lease.     *)
Lend(sc, k, token) ==
    [sc EXCEPT
        !.activeLeases = @ + 1,
        !.entry = [x \in EntryId |->
            IF x \notin KeyEntries(k) THEN sc.entry[x]
            ELSE [sc.entry[x] EXCEPT
                    !.probeToken   = IF sc.entry[x].state = "half_open" THEN token ELSE @,
                    !.activeLeases = IF x = Global THEN @ ELSE @ + 1]]]

Grant(ps, k, token) ==
    [Inspect(ps, k) EXCEPT !.scope[SlotForAcquire(ps, k)] = Lend(@, k, token)]

(* releaseLeaseLocked, for the scope and for the provider's scopes.        *)
Decrement(n) == IF n > 0 THEN n - 1 ELSE n

ReturnLease(sc, ch) ==
    LET left == Decrement(sc.entry[ch].activeLeases)
    IN  [sc EXCEPT
            !.activeLeases = Decrement(@),
            !.entry[ch] = IF ch \notin sc.models \X RequestType /\ left = 0
                          THEN AbsentEntry
                          ELSE [@ EXCEPT !.activeLeases = left]]

RemoveSlot(seq, s) ==
    LET at == CHOOSE i \in DOMAIN seq : seq[i] = s
    IN  [i \in 1..(Len(seq) - 1) |-> IF i < at THEN seq[i] ELSE seq[i + 1]]

PutBack(ps, s, sc) ==
    IF s = ps.active \/ sc.activeLeases # 0
    THEN [ps EXCEPT !.scope[s] = sc]
    ELSE [ps EXCEPT !.scope[s] = FreeScope, !.retired = RemoveSlot(@, s)]

(* The switch of Report: what an outcome does to entry x of a live scope.  *)
IsGlobalFailure(outcome) == outcome.class \in {"global_immediate", "global_transient"}
IsChannelFailure(outcome) ==
    outcome.class \in {"channel_immediate", "channel_transient", "channel_stream"}
IsImmediate(outcome) == outcome.class \in {"global_immediate", "channel_immediate"}

FailsEntry(outcome, x) ==
    IF x = Global THEN IsGlobalFailure(outcome) ELSE IsChannelFailure(outcome)

(* A channel's failure forgets the probe the attempt holds on the          *)
(* provider's breaker.                                                     *)
WrongReportEntry(e, x, token, outcome, obs) ==
    CASE outcome.class = "none" ->
            ApplySuccess(ObserveLatest(e, outcome, obs))
      [] FailsEntry(outcome, x) ->
            ApplyFailure(ObserveLatest(e, outcome, obs), token, outcome, IsImmediate(outcome))
      [] IsChannelFailure(outcome) -> e
      [] OTHER -> ReleaseProbe(e, token)

ReportEntry(e, x, token, outcome, obs) ==
    CASE outcome.class = "none" ->
            ApplySuccess(ObserveLatest(e, outcome, obs))
      [] FailsEntry(outcome, x) ->
            ApplyFailure(ObserveLatest(e, outcome, obs), token, outcome, IsImmediate(outcome))
      [] outcome.class = "neutral" /\ x # Global /\ outcome.httpStatus ->
            ReleaseProbe(ObserveLatest(e, outcome, obs), token)
      [] OTHER -> ReleaseProbe(e, token)

ReportScope(sc, ch, token, outcome, obs, live) ==
    [sc EXCEPT !.entry = [x \in EntryId |->
        IF x \notin {Global, ch} THEN sc.entry[x]
        ELSE IF live THEN ReportEntry(sc.entry[x], x, token, outcome, obs)
        ELSE ReleaseProbe(sc.entry[x], token)]]

(* The outcome goes to the provider's current scope, whichever scope the   *)
(* lease was taken from.                                                   *)
WrongReportProvider(ps, lease, token, outcome, obs) ==
    LET ch       == lease.channel
        released == ReportScope(ps.scope[lease.slot], ch, token, outcome, obs, FALSE)
        returned == PutBack(ps, lease.slot, ReturnLease(released, ch))
    IN  IF ps.active = NoSlot THEN returned
        ELSE [returned EXCEPT !.scope[ps.active] = ReportScope(@, ch, token, outcome, obs, TRUE)]

(* Report for one provider; lease is the record that token stands for.  A  *)
(* record without its channel entry only gives its probes and count back.  *)
ReportProvider(ps, lease, token, outcome, obs) ==
    LET sc   == ps.scope[lease.slot]
        live == lease.slot = ps.active /\ Exists(sc.entry[lease.channel])
    IN  PutBack(ps, lease.slot,
            ReturnLease(ReportScope(sc, lease.channel, token, outcome, obs, live),
                        lease.channel))

(* UpdateError: the error body of observation u.observation has been read. *)
UpdateErrorProvider(ps, u, incomplete) ==
    LET sc == ps.scope[ps.active]
    IN  IF ~ActiveMatches(ps, u) THEN ps
        ELSE [ps EXCEPT !.scope[ps.active] = [sc EXCEPT !.entry = [x \in EntryId |->
                IF x \in KeyEntries(u) /\ sc.entry[x].observation = u.observation
                THEN [sc.entry[x] EXCEPT !.errorPending = FALSE, !.errorIncomplete = incomplete]
                ELSE sc.entry[x]]]]

AgeProvider(ps) ==
    [ps EXCEPT !.scope = [s \in Slot |->
        [ps.scope[s] EXCEPT !.entry = [x \in EntryId |-> Age(ps.scope[s].entry[x])]]]]

(* A lease record; its key is the key of its scope and its channel.        *)
NoLease == [provider |-> "", slot |-> NoSlot, channel |-> Global, probes |-> {}]

Key(c, model, requestType) ==
    [generation |-> c.generation, epoch |-> c.epoch, disableHealth |-> c.disableHealth,
     model |-> model, requestType |-> requestType]

Cooling(e) == e.state = "cooldown" /\ e.cooldownLeft > 0

-----------------------------------------------------------------------------
(* The shapes of the data.                                                 *)

Entry ==
    [state: MachineState, backoffLevel: 0..(Len(Cooldowns) - 1),
     consecutiveFailures: 0..MaxInt, sinceFailure: 0..NeverFailed, cooldownLeft: Nat,
     probeToken: Token \cup {NoToken}, activeLeases: Nat,
     observation: Observation \cup {NoObservation},
     errorPending: BOOLEAN, errorIncomplete: BOOLEAN]

Scope ==
    [generation: Generation \cup {NoGeneration}, epoch: Nat, disableHealth: BOOLEAN, models: SUBSET Model,
     activeLeases: Nat, entry: [EntryId -> Entry]]

Lease ==
    [provider: Provider, slot: Slot, channel: Channel, probes: SUBSET EntryId]

Update ==
    [provider: Provider, generation: Generation \cup {NoGeneration}, epoch: Nat,
     disableHealth: BOOLEAN, model: Model, requestType: RequestType, observation: Observation]

ProviderScopes ==
    [active: Slot \cup {NoSlot}, retired: Seq(Slot), scope: [Slot -> Scope]]

HealthKey ==
    [generation: Generation, epoch: Nat, disableHealth: BOOLEAN, model: Model,
     requestType: RequestType]
=============================================================================
