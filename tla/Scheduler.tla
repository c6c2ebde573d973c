----------------------------- MODULE Scheduler ------------------------------
(***************************************************************************)
(* Provider selection, internal/scheduler/selector.go, together with what  *)
(* drives it: snapshots published by the runtime manager and reconciled by *)
(* the app, and the attempt loop of the gateway's plan executor.           *)
(*                                                                         *)
(* Each request holds the snapshot it started with.  Acquire scans that    *)
(* snapshot's providers tier by tier and takes a health lease from the     *)
(* first one available; Report gives the lease back and moves affinity and *)
(* round-robin cursors.  Scheduler.mu makes each call one step.            *)
(*                                                                         *)
(* Abstractions.  Versions are only compared with the versions that        *)
(* requests in flight have observed, so an id none of them holds stands    *)
(* for the next counter value.  The ordered candidates of a request are    *)
(* kept as one sequence per priority, which is how Acquire reads them.     *)
(***************************************************************************)
EXTENDS Affinity

CONSTANTS
    ProviderOrder,              \* the providers in configuration order
    Priority,                   \* the priorities in use
    Config,                     \* configurations that may be published
    MaxRevision,                \* bound on the published revisions
    Request,                    \* requests in flight
    NoSession,                  \* a request without a session id
    Traffic,                    \* the sticky keys that requests come with
    CursorVersion,              \* cursor versions
    MaxAttempts,                \* AttemptPolicy of normal requests
    StickyNoCooldownAttempts,
    Outcomes                    \* outcomes of started attempts

SchedulerProvider ==
    [enabled: BOOLEAN, priority: Priority, generation: Generation, epoch: Nat,
     disableHealth: BOOLEAN, models: SUBSET Model]

(* The counters behind Version and CursorVersion have 64 bits: a fresh id  *)
(* is never one that a request in flight remembers.                        *)
ASSUME SchedulerAssumption ==
    /\ ProviderOrder \in Seq(Provider)
    /\ {ProviderOrder[i] : i \in DOMAIN ProviderOrder} = Provider
    /\ Priority \subseteq Nat
    /\ \A cfg \in Config :
        DOMAIN cfg \subseteq Provider /\ \A p \in DOMAIN cfg : cfg[p] \in SchedulerProvider
    /\ MaxRevision \in Nat
    /\ NoSession \notin Session
    /\ Traffic \subseteq (Session \cup {NoSession}) \X Model \X RequestType
    /\ IsFiniteSet(Request)
    /\ IsFiniteSet(Version) /\ Cardinality(Version) > Cardinality(Request)
    /\ IsFiniteSet(CursorVersion) /\ Cardinality(CursorVersion) > Cardinality(Request)
    /\ 0 \in CursorVersion
    /\ MaxAttempts \in Nat \ {0}
    /\ StickyNoCooldownAttempts \in Nat \ {0}
    /\ Outcomes \subseteq Outcome

VARIABLES
    store, leases,  \* the health store's scopes and lease records
    snapshots,      \* the published snapshots, by revision
    revision,       \* Scheduler.revision: the snapshot last reconciled
    affinity,       \* assignments, lru, byProvider and pending
    cursors,        \* Scheduler.cursors
    requests,       \* per request: its selection and the lease it holds
    updates         \* error bodies being read: UpdateError calls still to come

vars == <<store, leases, snapshots, revision, affinity, cursors, requests, updates>>

CursorKey == Model \X RequestType \X Priority
NoCursor == [provider |-> NoProvider, version |-> 0]

NoSource == [provider |-> NoProvider, generation |-> NoGeneration, version |-> 0]

(* RequestSelection, the request's snapshot and sticky key, and the        *)
(* AttemptLease it holds while status is "leased" or "sent".               *)
NoRequest ==
    [status |-> "idle", revision |-> 0, key |-> <<>>,
     attemptsUsed |-> 0, initialized |-> FALSE,
     ordered |-> [n \in Priority |-> <<>>], visited |-> {}, source |-> NoSource,
     stickyPhase |-> "pending", stickyAttemptsUsed |-> 0,
     provider |-> NoProvider, token |-> NoToken, migration |-> FALSE,
     advanceCursor |-> FALSE, cursorVersion |-> 0]

HasSession(q) == q.key[1] # NoSession
SnapshotOf(q) == snapshots[q.revision]

(* The request's snapshot is the one last reconciled.                      *)
IsCurrent(q) == q.revision = revision

Elements(seq) == {seq[i] : i \in DOMAIN seq}

LiveTokens == {t \in Token : leases[t] # NoLease}

-----------------------------------------------------------------------------
(* Snapshots.                                                              *)

(* Every provider keeps its epoch, whatever happened to it in between.     *)
WrongWithHealthEpochs(cfg, previous, rev) ==
    [p \in DOMAIN cfg |->
        [cfg[p] EXCEPT !.epoch = IF p \in DOMAIN previous THEN previous[p].epoch ELSE rev]]

WithHealthEpochs(cfg, previous, rev) ==
    [p \in DOMAIN cfg |->
        [cfg[p] EXCEPT !.epoch =
            IF p \in DOMAIN previous /\ previous[p].enabled = cfg[p].enabled
            THEN previous[p].epoch ELSE rev]]

NoProviders == [p \in {} |-> p]

StaticActive(snapshot, p) ==
    p \in DOMAIN snapshot /\ snapshot[p].enabled /\ snapshot[p].models # {}

Supports(snapshot, p, model) == StaticActive(snapshot, p) /\ model \in snapshot[p].models

(* eligibleCandidates of one priority, in configuration order.             *)
Candidates(snapshot, model, priority) ==
    Only(ProviderOrder,
         {p \in Provider : Supports(snapshot, p, model) /\ snapshot[p].priority = priority})

-----------------------------------------------------------------------------
(* Order of the candidates.                                                *)

IndexOf(seq, p) == CHOOSE i \in DOMAIN seq : seq[i] = p

RotateAfter(seq, p) ==
    IF p \notin Elements(seq) THEN seq
    ELSE SubSeq(seq, IndexOf(seq, p) + 1, Len(seq)) \o SubSeq(seq, 1, IndexOf(seq, p))

(* orderCandidatesLocked for one tier: the assigned provider leads its     *)
(* tier, the other tiers go on after their cursor.                         *)
OrderTier(seq, assigned, cursor) ==
    IF assigned \in Elements(seq)
    THEN <<assigned>> \o Only(RotateAfter(seq, assigned), Provider \ {assigned})
    ELSE RotateAfter(seq, cursor.provider)

-----------------------------------------------------------------------------
(* Acquire: the first call of a request fixes its candidates.              *)

(* The request's own assignment, when it may use it.                       *)
AssignedTo(q, a) ==
    IF IsCurrent(q) /\ HasSession(q) THEN a.assigned[q.key] ELSE Unbound

StillCandidate(q, b) ==
    /\ IsBound(b)
    /\ Supports(SnapshotOf(q), b.provider, q.key[2])
    /\ SnapshotOf(q)[b.provider].generation = b.generation

SourceOf(b) == [provider |-> b.provider, generation |-> b.generation, version |-> b.version]

SourceMatches(source, q, p) ==
    /\ source.provider = p
    /\ source.generation = SnapshotOf(q)[p].generation

InitializeSelection(q, a) ==
    LET b        == AssignedTo(q, a)
        assigned == IF StillCandidate(q, b) THEN b.provider ELSE NoProvider
    IN  [q EXCEPT
            !.initialized = TRUE,
            !.source      = IF StillCandidate(q, b) THEN SourceOf(b) ELSE NoSource,
            !.ordered     = [n \in Priority |->
                OrderTier(Candidates(SnapshotOf(q), q.key[2], n), assigned,
                          cursors[<<q.key[2], q.key[3], n>>])]]

(* A new request gives up its session's pending migration, and an          *)
(* assignment its snapshot no longer offers.                               *)
InitializeAffinity(q, a) ==
    IF ~IsCurrent(q) \/ ~HasSession(q) THEN a
    ELSE LET kept == IF IsBound(a.assigned[q.key]) /\ ~StillCandidate(q, a.assigned[q.key])
                     THEN RemoveAssignments(a, {q.key}) ELSE a
         IN  [kept EXCEPT !.pending[q.key] = Unbound]

-----------------------------------------------------------------------------
(* Acquire: the scan of the tiers.                                         *)

HealthKeyOf(q, p) == Key(SnapshotOf(q)[p], q.key[2], q.key[3])
DecisionFor(q, p) == Decision(store[p], HealthKeyOf(q, p))

(* The continuous retries of a bound provider without health checks come   *)
(* first in its tier; such a provider is always available.                 *)
RetriesSticky(q, n) ==
    /\ q.stickyPhase = "active"
    /\ q.source.provider \in Elements(q.ordered[n])
    /\ SourceMatches(q.source, q, q.source.provider)
    /\ SnapshotOf(q)[q.source.provider].disableHealth

(* The order in which selectInTierLocked asks a tier's providers.          *)
ScanOrder(q, n) ==
    IF RetriesSticky(q, n) THEN <<q.source.provider>>
    ELSE Only(q.ordered[n], Provider \ q.visited) \o Only(q.ordered[n], q.visited)

(* A half-open provider whose probe is out counts as cooling.              *)
WrongFallsThrough(q, n) ==
    \A p \in Elements(q.ordered[n]) : ~DecisionFor(q, p).available

(* The scan goes on below tier n: every provider in it is cooling.         *)
FallsThrough(q, n) ==
    \A p \in Elements(q.ordered[n]) :
        ~DecisionFor(q, p).available /\ DecisionFor(q, p).cooling

IsReached(q, n) == \A higher \in Priority : higher > n => FallsThrough(q, higher)

(* The providers whose health is asked: in each tier that is reached, up   *)
(* to the first one available.                                             *)
Tried(q) ==
    UNION {LET scan == ScanOrder(q, n)
           IN  {scan[i] : i \in {i \in DOMAIN scan :
                            \A j \in 1..(i - 1) : ~DecisionFor(q, scan[j]).available}} :
           n \in {n \in Priority : IsReached(q, n)}}

Winners(q) == {p \in Tried(q) : DecisionFor(q, p).available}

(* What the scan does to health: the winner's lease is granted, the others *)
(* were only looked at.                                                    *)
ScanHealth(q, token) ==
    [p \in Provider |->
        IF p \in Winners(q) THEN Grant(store[p], HealthKeyOf(q, p), token)
        ELSE IF p \in Tried(q) THEN Inspect(store[p], HealthKeyOf(q, p))
        ELSE store[p]]

-----------------------------------------------------------------------------
(* Acquire: what a selection changes.                                      *)

PriorityOf(q, p) == SnapshotOf(q)[p].priority

(* recordSelection                                                         *)
RecordSelection(q, p, first) ==
    LET n     == PriorityOf(q, p)
        retry == RetriesSticky(q, n)
        round == IF p \in q.visited THEN q.visited \ Elements(q.ordered[n]) ELSE q.visited
        opens == /\ q.key[3] = "normal"
                 /\ SourceMatches(q.source, q, p)
                 /\ SnapshotOf(q)[p].disableHealth
                 /\ StickyNoCooldownAttempts > 1
    IN  [q EXCEPT
            !.visited     = IF retry THEN @ ELSE round \cup {p},
            !.stickyPhase = CASE retry            -> @
                              [] first /\ opens   -> "active"
                              [] OTHER            -> "ended"]

(* allocateAssignmentVersionLocked: a version no request has observed.     *)
ObservedVersions == {requests[r].source.version : r \in Request}
NewVersion == CHOOSE v \in Version : v \notin ObservedVersions

(* setCursorLocked and clearCursorLocked for a set of keys.                *)
ObservedCursors == {requests[r].cursorVersion : r \in Request}
SetCursors(cs, keys, p) ==
    [ck \in CursorKey |->
        IF ck \in keys
        THEN [provider |-> p,
              version  |-> CHOOSE v \in CursorVersion : v \notin ObservedCursors]
        ELSE cs[ck]]

(* makeAttemptLeaseLocked.  q is the request after recordSelection.        *)
BindsSession(q, first) ==
    first /\ q.source = NoSource /\ IsCurrent(q) /\ HasSession(q)

AttemptAffinity(q, a, p, first) ==
    IF BindsSession(q, first)
    THEN PutAssignment(a, q.key, p, SnapshotOf(q)[p].generation, NewVersion)
    ELSE IF /\ SourceMatches(q.source, q, p) /\ IsCurrent(q)
            /\ IsBound(a.assigned[q.key]) /\ a.assigned[q.key].version = q.source.version
    THEN TouchAssignment(a, q.key)
    ELSE a

AttemptSource(q, p, first) ==
    IF BindsSession(q, first)
    THEN [provider |-> p, generation |-> SnapshotOf(q)[p].generation, version |-> NewVersion]
    ELSE q.source

AttemptLease(q, p, first, token, probing) ==
    LET source  == AttemptSource(q, p, first)
        advance == first /\ ~SourceMatches(q.source, q, p) /\ IsCurrent(q)
    IN  [q EXCEPT
            !.status        = "leased",
            !.provider      = p,
            !.token         = token,
            !.source        = source,
            !.migration     = source # NoSource /\ ~SourceMatches(source, q, p),
            !.advanceCursor = advance /\ probing,
            !.cursorVersion = IF advance /\ probing
                              THEN cursors[<<q.key[2], q.key[3], PriorityOf(q, p)>>].version
                              ELSE 0]

AttemptCursors(q, p, first, probing) ==
    IF first /\ ~SourceMatches(q.source, q, p) /\ IsCurrent(q) /\ ~probing
    THEN SetCursors(cursors, {<<q.key[2], q.key[3], PriorityOf(q, p)>>}, p)
    ELSE cursors

-----------------------------------------------------------------------------
(* Actions.                                                                *)

Init ==
    /\ store = [p \in Provider |-> NoScopes]
    /\ leases = [t \in Token |-> NoLease]
    /\ snapshots = <<>>
    /\ revision = 0
    /\ affinity = NoAffinity
    /\ cursors = [ck \in CursorKey |-> NoCursor]
    /\ requests = [r \in Request |-> NoRequest]
    /\ updates = {}

(* The runtime manager publishes a configuration.                          *)
Publish(cfg) ==
    /\ Len(snapshots) < MaxRevision
    /\ LET previous == IF snapshots = <<>> THEN NoProviders ELSE snapshots[Len(snapshots)]
       IN  snapshots' = Append(snapshots, WithHealthEpochs(cfg, previous, Len(snapshots) + 1))
    /\ UNCHANGED <<store, leases, revision, affinity, cursors, requests, updates>>

(* An assignment or cursor is kept by Reconcile if its provider still      *)
(* serves it and went through no new health epoch.                         *)
SameEpoch(before, after, p) ==
    p \in DOMAIN before /\ p \in DOMAIN after => before[p].epoch = after[p].epoch

(* A binding outlives a change of its provider's endpoint.                 *)
WrongKeepBinding(before, after, k, b) ==
    Supports(after, b.provider, k[2]) /\ SameEpoch(before, after, b.provider)

KeepBinding(before, after, k, b) ==
    /\ Supports(after, b.provider, k[2])
    /\ after[b.provider].generation = b.generation
    /\ SameEpoch(before, after, b.provider)

KeepCursor(before, after, ck, cursor) ==
    /\ Supports(after, cursor.provider, ck[1])
    /\ after[cursor.provider].priority = ck[3]
    /\ SameEpoch(before, after, cursor.provider)

(* Scheduler.Reconcile, called by the app for snapshots newer than the     *)
(* last one it synchronised; it may skip some.                             *)
Reconcile(rev) ==
    LET after  == snapshots[rev]
        before == IF revision = 0 THEN NoProviders ELSE snapshots[revision]
    IN  /\ rev > revision
        /\ \A p \in DOMAIN after :
                ActiveMatches(store[p], after[p]) \/ FreeSlots(Retire(store[p])) # {}
        /\ store' = [p \in Provider |->
                        IF p \in DOMAIN after THEN ReconcileProvider(store[p], after[p])
                        ELSE Retire(store[p])]
        /\ revision' = rev
        /\ affinity' = ReconcileAffinity(affinity,
                {k \in AssignedKeys(affinity) :
                    ~KeepBinding(before, after, k, affinity.assigned[k])},
                {k \in StickyKey : /\ IsBound(affinity.pending[k])
                                   /\ ~KeepBinding(before, after, k, affinity.pending[k])})
        /\ cursors' = SetCursors(cursors,
                {ck \in CursorKey : /\ cursors[ck].provider # NoProvider
                                    /\ ~KeepCursor(before, after, ck, cursors[ck])},
                NoProvider)
        /\ UNCHANGED <<leases, snapshots, requests, updates>>

(* A request captures the snapshot last reconciled (snapshotForGateway)    *)
(* and starts its selection, if some provider has its model.               *)
Begin(r, key) ==
    /\ requests[r] = NoRequest
    /\ revision > 0
    /\ \E p \in Provider : Supports(snapshots[revision], p, key[2])
    /\ requests' = [requests EXCEPT ![r] =
            [NoRequest EXCEPT !.status = "selecting", !.revision = revision, !.key = key]]
    /\ UNCHANGED <<store, leases, snapshots, revision, affinity, cursors, updates>>

(* Scheduler.Acquire selects provider p for request q.                     *)
Select(r, q, a, p, first) ==
    LET t       == CHOOSE t \in Token : t \notin LiveTokens
        k       == HealthKeyOf(q, p)
        probing == ProbesFor(store[p], k) # {}
        chosen  == RecordSelection(q, p, first)
    IN  /\ Token # LiveTokens
        /\ store' = ScanHealth(q, t)
        /\ leases' = [leases EXCEPT ![t] =
                [provider |-> p, slot |-> SlotForAcquire(store[p], k),
                 channel |-> <<k.model, k.requestType>>, probes |-> ProbesFor(store[p], k)]]
        /\ affinity' = AttemptAffinity(chosen, a, p, first)
        /\ cursors' = AttemptCursors(chosen, p, first, probing)
        /\ requests' = [requests EXCEPT ![r] = AttemptLease(chosen, p, first, t, probing)]

(* Scheduler.Acquire finds no provider: the request ends with an           *)
(* UnavailableError.                                                       *)
Unavailable(r, q, a) ==
    /\ store' = ScanHealth(q, NoToken)
    /\ affinity' = a
    /\ requests' = [requests EXCEPT ![r] = NoRequest]
    /\ UNCHANGED <<leases, cursors>>

Acquire(r) ==
    LET first == ~requests[r].initialized
        fresh == Expire(affinity)
        q == IF first THEN InitializeSelection(requests[r], fresh) ELSE requests[r]
        a == IF first THEN InitializeAffinity(requests[r], fresh) ELSE fresh
    IN  /\ requests[r].status = "selecting"
        /\ \A p \in Tried(q) : HasSlot(store[p], HealthKeyOf(q, p))
        /\ \/ \E p \in Winners(q) : Select(r, q, a, p, first)
           \/ Winners(q) = {} /\ Unavailable(r, q, a)
        /\ UNCHANGED <<snapshots, revision, updates>>

AttemptLimit(q) == IF q.key[3] = "classifier" THEN 1 ELSE MaxAttempts
StickyLimit(q) == IF q.key[3] = "classifier" THEN 1 ELSE StickyNoCooldownAttempts

(* Only the continuous retries are counted.                                *)
WrongStartAttempt(r) ==
    LET q    == requests[r]
        used == q.stickyAttemptsUsed + 1
    IN  /\ q.status = "leased"
        /\ requests' = [requests EXCEPT ![r] =
                IF q.stickyPhase = "active"
                THEN [q EXCEPT !.status = "sent", !.stickyAttemptsUsed = used,
                               !.stickyPhase = IF used >= StickyLimit(q) THEN "ended" ELSE @]
                ELSE [q EXCEPT !.status = "sent"]]
        /\ UNCHANGED <<store, leases, snapshots, revision, affinity, cursors, updates>>

(* StartAttempt, right before the upstream call.                           *)
StartAttempt(r) ==
    LET q    == requests[r]
        used == IF q.stickyPhase = "active" THEN q.stickyAttemptsUsed + 1
                ELSE q.stickyAttemptsUsed
    IN  /\ q.status = "leased"
        /\ requests' = [requests EXCEPT ![r] =
                [q EXCEPT !.status             = "sent",
                          !.attemptsUsed       = @ + 1,
                          !.stickyAttemptsUsed = used,
                          !.stickyPhase        = IF @ = "active" /\ used >= StickyLimit(q)
                                                 THEN "ended" ELSE @]]
        /\ UNCHANGED <<store, leases, snapshots, revision, affinity, cursors, updates>>

ClientCanceled ==
    [class |-> "client_canceled", retryAfter |-> NoRetryAfter, httpStatus |-> FALSE,
     errorPending |-> FALSE]
LocalFailure == [ClientCanceled EXCEPT !.class = "neutral"]

ShouldFailover(outcome) ==
    outcome.class \in {"global_immediate", "global_transient",
                       "channel_immediate", "channel_transient"}

(* One attempt too many.                                                   *)
WrongHasBudget(q) == q.attemptsUsed <= AttemptLimit(q)

HasBudget(q) == q.attemptsUsed < AttemptLimit(q)

(* Report's check that the lease belongs to the current view.              *)
IsStale(q) ==
    \/ ~IsCurrent(q)
    \/ ~Supports(snapshots[revision], q.provider, q.key[2])
    \/ snapshots[revision][q.provider].generation # SnapshotOf(q)[q.provider].generation

(* HealthUpdate.GlobalEnteredCooldown and .ChannelEnteredCooldown          *)
EnteredCooldown(q, outcome, x) ==
    LET l == leases[q.token]
    IN  /\ l.slot = store[l.provider].active
        /\ FailsEntry(outcome, x)
        /\ EntersCooldown(store[l.provider].scope[l.slot].entry[x], q.token, IsImmediate(outcome))
        /\ ~SnapshotOf(q)[q.provider].disableHealth

(* The keys whose bindings a cooldown suspends, and the cursors it clears. *)
WrongSuspendedKeys(q, outcome) ==
    IF EnteredCooldown(q, outcome, Global) THEN {q.key} \cap StickyKey ELSE {}

SuspendedKeys(q, outcome) ==
    IF EnteredCooldown(q, outcome, Global) THEN StickyKey
    ELSE IF EnteredCooldown(q, outcome, leases[q.token].channel)
    THEN {k \in StickyKey : k[2] = q.key[2] /\ k[3] = q.key[3]}
    ELSE {}

ClearedCursors(q, outcome) ==
    {ck \in CursorKey :
        /\ cursors[ck].provider = q.provider
        /\ \/ EnteredCooldown(q, outcome, Global)
           \/ /\ EnteredCooldown(q, outcome, leases[q.token].channel)
              /\ ck[1] = q.key[2] /\ ck[2] = q.key[3]}

ReportAffinity(q, a, outcome) ==
    LET generation == SnapshotOf(q)[q.provider].generation
    IN  IF outcome.class = "none" /\ q.migration
        THEN MigrateAssignment(a, q.key, q.source, q.provider, generation, NewVersion)
        ELSE SuspendAssignments(a, q.provider, generation, SuspendedKeys(q, outcome))

ReportCursors(q, outcome) ==
    LET ck == <<q.key[2], q.key[3], PriorityOf(q, q.provider)>>
    IN  IF /\ q.advanceCursor /\ outcome.class = "none"
           /\ cursors[ck].version = q.cursorVersion
        THEN SetCursors(cursors, {ck}, q.provider)
        ELSE SetCursors(cursors, ClearedCursors(q, outcome), NoProvider)

(* The plan executor goes on to another attempt, or the request ends.      *)
AfterReport(q, outcome) ==
    IF q.status = "sent" /\ ShouldFailover(outcome) /\ HasBudget(q)
    THEN [q EXCEPT !.status = "selecting", !.provider = NoProvider, !.token = NoToken,
                   !.migration = FALSE, !.advanceCursor = FALSE, !.cursorVersion = 0]
    ELSE NoRequest

(* Observation ids that some entry or pending update still carries.        *)
UsedObservations ==
    {u.observation : u \in updates} \cup
    {store[p].scope[s].entry[x].observation : p \in Provider, s \in Slot, x \in EntryId}

ReportHealth(q, outcome, obs) ==
    LET l == leases[q.token]
    IN  /\ store' = [store EXCEPT ![l.provider] = ReportProvider(@, l, q.token, outcome, obs)]
        /\ leases' = [leases EXCEPT ![q.token] = NoLease]

(* A lease of an older snapshot is dropped, and with it its reservation.   *)
WrongReportStale(q) == UNCHANGED <<store, leases, affinity, cursors, updates>>

(* Scheduler.Report of a lease from an older view: health only takes the   *)
(* lease back.                                                             *)
ReportStale(q) ==
    /\ ReportHealth(q, ClientCanceled, NoObservation)
    /\ affinity' = Expire(affinity)
    /\ UNCHANGED <<cursors, updates>>

(* Scheduler.Report of a current lease.                                    *)
ReportCurrent(q, outcome) ==
    LET obs == IF outcome.errorPending
               THEN CHOOSE o \in Observation : o \notin UsedObservations ELSE NoObservation
        c   == SnapshotOf(q)[q.provider]
    IN  /\ outcome.errorPending => ~(Observation \subseteq UsedObservations)
        /\ ReportHealth(q, outcome, obs)
        /\ affinity' = ReportAffinity(q, Expire(affinity), outcome)
        /\ cursors' = ReportCursors(q, outcome)
        /\ updates' = IF outcome.errorPending
                      THEN updates \cup
                            {[provider |-> q.provider, generation |-> c.generation,
                              epoch |-> c.epoch, disableHealth |-> c.disableHealth,
                              model |-> q.key[2], requestType |-> q.key[3],
                              observation |-> obs, revision |-> q.revision]}
                      ELSE updates

Report(r, outcome) ==
    LET q == requests[r]
    IN  /\ IF IsStale(q) THEN ReportStale(q) ELSE ReportCurrent(q, outcome)
        /\ requests' = [requests EXCEPT ![r] = AfterReport(q, outcome)]
        /\ UNCHANGED <<snapshots, revision>>

(* The attempt ends after the upstream call, or before it: canceled or     *)
(* failed locally.                                                         *)
FinishAttempt(r) ==
    \/ requests[r].status = "sent" /\ \E outcome \in Outcomes : Report(r, outcome)
    \/ /\ requests[r].status = "leased"
       /\ \E outcome \in {ClientCanceled, LocalFailure} : Report(r, outcome)

(* The request ends between two attempts: the client goes away, or the     *)
(* request body or patch state of the last attempt cannot be released.     *)
Cancel(r) ==
    /\ requests[r].status = "selecting"
    /\ requests' = [requests EXCEPT ![r] = NoRequest]
    /\ UNCHANGED <<store, leases, snapshots, revision, affinity, cursors, updates>>

(* Scheduler.UpdateError drops what a lease of an older revision brings.   *)
UpdateError(u, incomplete) ==
    /\ u \in updates
    /\ store' = IF u.revision # revision THEN store
                ELSE [store EXCEPT ![u.provider] = UpdateErrorProvider(@, u, incomplete)]
    /\ updates' = updates \ {u}
    /\ UNCHANGED <<leases, snapshots, revision, affinity, cursors, requests>>

Tick ==
    /\ store' = [p \in Provider |-> AgeProvider(store[p])]
    /\ affinity' = AgeAffinity(affinity)
    /\ UNCHANGED <<leases, snapshots, revision, cursors, requests, updates>>

RequestStep(r) == Acquire(r) \/ StartAttempt(r) \/ FinishAttempt(r)

Next ==
    \/ \E cfg \in Config : Publish(cfg)
    \/ \E rev \in 1..Len(snapshots) : Reconcile(rev)
    \/ \E r \in Request, key \in Traffic : Begin(r, key)
    \/ \E r \in Request : RequestStep(r) \/ Cancel(r)
    \/ \E u \in updates, incomplete \in BOOLEAN : UpdateError(u, incomplete)
    \/ Tick

Spec == Init /\ [][Next]_vars

(* Selection never waits, an upstream call ends by itself or by its        *)
(* timeouts, and its result is then reported: a request in flight always   *)
(* has a step to take and does not rest for ever.  (This is weak fairness  *)
(* of RequestStep(r) \/ Cancel(r), which is enabled exactly while r is in  *)
(* flight, with its ENABLED written out.)                                  *)
Fairness ==
    \A r \in Request :
        []<>(requests[r].status = "idle") \/ []<><<requests'[r] # requests[r]>>_requests

FairSpec == Spec /\ Fairness

-----------------------------------------------------------------------------
(* Properties.                                                             *)

RequestRecord == [status: {"idle", "selecting", "leased", "sent"}, revision: 0..MaxRevision,
     key: {<<>>} \cup Traffic,
     attemptsUsed: 0..MaxAttempts, initialized: BOOLEAN,
     ordered: [Priority -> Seq(Provider)], visited: SUBSET Provider,
     source: [provider: Provider \cup {NoProvider}, generation: Generation \cup {NoGeneration},
              version: Version \cup {0}],
     stickyPhase: {"pending", "active", "ended"},
     stickyAttemptsUsed: 0..StickyNoCooldownAttempts,
     provider: Provider \cup {NoProvider}, token: Token \cup {NoToken}, migration: BOOLEAN,
     advanceCursor: BOOLEAN, cursorVersion: CursorVersion]

(* The state has the shape the Scheduler and RequestSelection structs      *)
(* declare; no request starts more upstream calls than its policy allows,  *)
(* nor more continuous ones to its bound provider.                         *)
TypeOK ==
    /\ store \in [Provider -> ProviderScopes]
    /\ leases \in [Token -> Lease \cup {NoLease}]
    /\ revision \in 0..Len(snapshots) /\ Len(snapshots) <= MaxRevision
    /\ affinity \in AffinityType
    /\ cursors \in [CursorKey -> [provider: Provider \cup {NoProvider}, version: CursorVersion]]
    /\ requests \in [Request -> RequestRecord]

Holding(q) == q.status \in {"leased", "sent"}

(* Every health lease is held by exactly one attempt in flight, so none is *)
(* lost when a request ends, fails over or reports late to a scheduler     *)
(* that has moved on to another snapshot.                                  *)
LeasesHeldByAttempts ==
    /\ LiveTokens = {requests[r].token : r \in {r \in Request : Holding(requests[r])}}
    /\ \A r1, r2 \in Request :
        Holding(requests[r1]) /\ Holding(requests[r2]) /\ requests[r1].token = requests[r2].token
            => r1 = r2
    /\ \A r \in Request :
        Holding(requests[r]) => leases[requests[r].token].provider = requests[r].provider

(* The assignment map, the LRU list and the index by provider describe the *)
(* same bindings, within the capacity; the list is in the order of use,    *)
(* which expireLocked relies on to stop at the first fresh entry; and no   *)
(* session is bound and waiting for a migration at once.                   *)
AffinityIndexed ==
    LET a == affinity
    IN  /\ \A p \in Provider : a.byProvider[p] = {k \in StickyKey : a.assigned[k].provider = p}
        /\ Elements(a.lru) = AssignedKeys(a)
        /\ Len(a.lru) = Cardinality(AssignedKeys(a)) /\ Len(a.lru) <= StickyCapacity
        /\ \A i, j \in DOMAIN a.lru :
                i <= j => a.assigned[a.lru[i]].idle >= a.assigned[a.lru[j]].idle
        /\ \A k \in StickyKey : ~(IsBound(a.assigned[k]) /\ IsBound(a.pending[k]))

(* What the selector remembers follows the current snapshot: bindings and  *)
(* pending migrations only name providers that it offers for the model, in *)
(* their current generation, and a round-robin cursor names a provider of  *)
(* its own tier.                                                           *)
MemoryCurrent ==
    /\ \A k \in StickyKey : \A b \in {affinity.assigned[k], affinity.pending[k]} :
        IsBound(b) =>
            /\ Supports(snapshots[revision], b.provider, k[2])
            /\ snapshots[revision][b.provider].generation = b.generation
    /\ \A ck \in CursorKey : cursors[ck].provider # NoProvider =>
        /\ Supports(snapshots[revision], cursors[ck].provider, ck[1])
        /\ snapshots[revision][cursors[ck].provider].priority = ck[3]

(* No session is bound to a provider whose breaker is open for it: the     *)
(* cooldown removed the binding, and neither a late success of another     *)
(* session's attempt nor an edit brings it back.                           *)
StickyNeverCooling ==
    \A k \in AssignedKeys(affinity) :
        LET ps == store[affinity.assigned[k].provider]
        IN  /\ ps.active # NoSlot
            /\ ps.scope[ps.active].generation = affinity.assigned[k].generation
            /\ \A x \in {Global, <<k[2], k[3]>>} : ps.scope[ps.active].entry[x].state # "cooldown"

(* Request r gives its lease back in this step.                            *)
ReportsNow(r) == Holding(requests[r]) /\ requests'[r].token # requests[r].token

(* A late fallback result never takes a session away from a newer binding, *)
(* and never revives one that expired, was evicted or was reconciled away: *)
(* a report only binds a session whose latest binding the request itself   *)
(* has seen.                                                               *)
LateFallbackYields ==
    [][\A r \in Request : ReportsNow(r) =>
        \A k \in StickyKey :
            (/\ IsBound(affinity'.assigned[k])
             /\ affinity'.assigned[k].provider # affinity.assigned[k].provider)
            => /\ k = requests[r].key
               /\ \/ SameSource(affinity.assigned[k], requests[r].source)
                  \/ SameSource(affinity.pending[k], requests[r].source)
               /\ affinity.assigned[k].idle < StickyTTL
               /\ affinity.pending[k].idle < StickyTTL]_vars

(* p's breakers for this key are open and their time is not up.            *)
CoolsDown(p, k) ==
    \E s \in {store[p].active} \cup RetiredSlots(store[p]) :
        /\ s # NoSlot
        /\ Matches(store[p].scope[s], k)
        /\ \E x \in KeyEntries(k) : Cooling(store[p].scope[s].entry[x])

(* A request only falls to a lower tier when every provider of the higher  *)
(* tiers is cooling down: one that has recovered, or whose probe is out,   *)
(* keeps the lower tiers closed, however often this request has tried it.  *)
TiersRespected ==
    [][\A r \in Request :
        (requests[r].status = "selecting" /\ requests'[r].status = "leased") =>
            LET q == requests[r]
                p == requests'[r].provider
            IN  \A h \in Provider :
                    (Supports(SnapshotOf(q), h, q.key[2]) /\ PriorityOf(q, h) > PriorityOf(q, p))
                        => CoolsDown(h, HealthKeyOf(q, h))]_vars

(* A provider that was off or missing in any published snapshot starts     *)
(* afresh, even when the app never reconciled that snapshot: no binding,   *)
(* no pending migration and no failure count outlives the gap.             *)
DisabledPeriodForgets ==
    [][\A p \in Provider :
        (\E i \in 1..Len(snapshots) :
            i \in revision..revision' /\ ~(p \in DOMAIN snapshots[i] /\ snapshots[i][p].enabled))
        => /\ revision' # revision => \A k \in StickyKey :
                /\ affinity'.assigned[k].provider # p
                /\ affinity'.pending[k].provider # p
           /\ (revision' # revision /\ store'[p].active # NoSlot) =>
                \A x \in EntryId :
                    store'[p].scope[store'[p].active].entry[x].consecutiveFailures = 0]_vars

(* Every request ends, whatever its attempts run into: fallbacks, retries  *)
(* of a bound provider without health checks, and edits in between.        *)
RequestsEnd == \A r \in Request : (requests[r].status # "idle") ~> (requests[r].status = "idle")

(* A diagnostic of the current scope that says its body is still being     *)
(* read has a read going on that will settle it: "UpdateError fills a      *)
(* still-current observation" (internal/health/store.go).                  *)
PendingErrorHasReader ==
    \A p \in Provider : store[p].active # NoSlot =>
        \A x \in EntryId :
            LET e == store[p].scope[store[p].active].entry[x]
            IN  e.errorPending =>
                    \E u \in updates :
                        /\ u.provider = p /\ u.observation = e.observation
                        /\ ActiveMatches(store[p], u)
                        /\ x \in KeyEntries(u)
=============================================================================
