# Formal model of CC AutoMux

CC AutoMux is a loopback gateway between Claude Code and a set of upstream
providers. It chooses a provider for every request, keeps circuit breakers and
session affinity in memory, applies configuration changes while requests are
running, and writes the gateway's settings into Claude Code's `settings.json`.
This directory holds TLA+ modules for the parts of it in which order,
concurrency and failure decide correctness, TLC configurations that check them,
and TLAPS proofs.

Run a check with `tlc -workers 2 -config HealthBreaker.cfg MCHealthStore`, and
proofs with `tlapm HealthProofs.tla`. `PROJECT.json` lists runs, mutants, the
source lines every definition stands for, hazards, findings and theorems.

## The system

| Component | State | Operations | Talks to |
|---|---|---|---|
| health store (`internal/health`) | per provider an active scope and retired ones; per scope a breaker for the provider and one per (model, request type); leases | Acquire, Report, Reconcile, UpdateError | called by the scheduler under its own mutex |
| scheduler (`internal/scheduler`) | session bindings (map, LRU list, provider index), pending migrations, round-robin cursors, last revision | Acquire, StartAttempt, Report, Reconcile, UpdateError | health store; called by gateway and app |
| plan executor (`internal/gateway/plan_executor.go`) | per request: selection, attempt budget, lease | attempt loop, failover, reports | scheduler, upstream attempt |
| upstream attempt, stream copy, client pool, fixed executor (`internal/gateway`) | timers, cancellation, transport reference counts | one upstream call and the copying of its answer | plan executor, HTTP |
| runtime manager (`internal/runtime`) | published snapshot, revision, activation guard, restart status | Apply, Update, harness mutations, restart, startup | config store, harness files, app |
| configuration (`internal/config`) | active and pending file | Save, SavePending, PromotePending, RemovePending | runtime manager |
| harness configuration (`internal/harnessconfig`) | Claude Code's settings file and its one-time backup | Status, Activate, profile updates, telemetry switch | runtime manager, the user's file system |
| application (`internal/app`) | listener, server, synced revision, log | New, Serve, Close, self-restart, snapshotForGateway | everything |
| traffic, flow, Auto Mode (`internal/traffic`, `flow`, `automode`) | none | classification of a request and the plan for it | gateway, body files |
| patches and alias store (`internal/patch`) | session aliases with time to live and capacity; the bodies a patch execution owns | rewriting of request and response bodies | gateway, body files |
| body files (`internal/bodyfile`) | spooled bodies, their index of selected JSON fields, open readers | capture and scan, edit, open, close | gateway |
| log files (`internal/app/logging.go`) | active and archived file, sequence numbers, clamped clock | write, rotate, close | broker, reader |
| log broker and stream handlers (`internal/logs/broker.go`, `internal/management/logs.go`) | bounded dispatch queue, subscriptions with bounded channels and loss counters | Publish, Subscribe, Close | log writer, management API |
| log reader (`internal/logs/reader.go`) | none: a page is cut from a snapshot of the files | Query, Record | log files, management API |
| management API, web console, command line, scripts | none of their own | front ends | runtime manager, logs |

What makes it hard:

* **Interleaving.** Every request keeps the snapshot it started with. Attempts
  started under an old configuration report after it was replaced, and several
  requests of one session fail over at once.
* **Late results.** An attempt's verdict, and later its error body, arrive when
  the breaker has moved on, the scope has been retired, or the binding belongs
  to another request.
* **Partial failure and crashes.** A configuration update may write a pending
  file, the active file and the user's settings file. Each write may fail, the
  process may die between them, and the user may edit the settings file.
* **Limits.** Affinity and alias tables, failure counter, backoff schedule,
  attempt budget, log queue and subscriber channels have boundaries, and a body
  or a log file is cut into chunks anywhere.
* **Progress.** Breakers recover only through later requests, requests end only
  because the budget runs out, and Close must end beside a failing restart and a
  log stream nobody reads.

What makes each part correct:

* *health store*: a half-open breaker admits one probe and loses the
  reservation with it; lease counts are exact; results of an old scope stay out
  of the current one; a running cooldown is not lost to edits; breakers recover.
* *scheduler*: map, list and index of the bindings agree; no session stays on a
  cooling provider; a late fallback yields to newer bindings; tiers are
  respected; a disabled period is not bridged; requests end and give back every
  lease.
* *gateway*: whoever ends a request, each attempt is reported, recorded and
  released exactly once; the provider is blamed for what really ended the
  attempt; a transport lives as long as its users; no silent provider and no
  absent client holds a goroutine for ever.
* *runtime manager and files*: the served configuration is the stored one; no
  accepted update is lost to an old pending file; a profile's attempt limits
  apply only while its activation is verified; the user's own settings survive.
* *bodies and patches*: the index says what JSON says, however the body arrives
  in pieces; a patch changes what it is to change and nothing else; no body is
  closed under a reader or kept after its request; a session keeps its alias.
* *logs*: a live stream counts what it loses; a history page neither repeats nor
  skips a record that stays in the files.
* *application*: Close ends unless a restart under way replaces the process, no
  listener stays behind, and a failed restart serves the old configuration again
  (which the code does not always achieve).

## Modules

| Module | Models | Extends |
|---|---|---|
| `HealthScopes` | data of the health store and what its methods do to it, as operators | |
| `HealthStore` | the health store as a state machine, one action per method | `HealthScopes` |
| `Affinity` | the scheduler's session bindings: expiry, eviction, migration, suspension | `HealthScopes` |
| `Scheduler` | scheduler, snapshots and attempt loop, composed with the health store's operators | `Affinity` |
| `RuntimeManager` | runtime manager, config files, startup and restart, settings file | |
| `ClientPool` | the pool of HTTP transports, as operators | |
| `UpstreamAttempt` | the control block of one upstream call: timer, hooks, verdict, body reader, as operators | |
| `Gateway` | one request in the plan executor, with its attempts, error bodies and transports | `UpstreamAttempt`, `ClientPool` |
| `JSONScan` | the incremental scanner of bodies, as operators on its state | |
| `JSONReference` | JSON by its grammar: trees over a text, what the scanner is measured against | `JSONScan` |
| `BodyEdits` | byte-range edits of a body and the helpers that find them in an index | `JSONScan` |
| `InnerSession` | the edit of the JSON object inside the string `metadata.user_id` | `BodyEdits` |
| `Patches` | the built-in patches, the classifier detector and the model override | `InnerSession` |
| `AliasStore` | the bounded map from sessions to aliases | |
| `BodyPipeline` | one request's body after another: captured, classified, planned, patched per attempt, sent, answered | `Patches`, `JSONReference`, `AliasStore` |
| `LossyStreams` | abstract specification: what a live log stream promises its client | |
| `LogBroker` | the broker's writer, dispatcher, subscriptions and stream handlers; refines `LossyStreams` | |
| `LogFiles` | the rotating log writer, with every system call that may fail | |
| `LogReader` | the history reader: backward chunks, merge of two files, cursors | `LogFiles` |
| `AppLifecycle` | Serve, Close and the restart that may fail, three goroutines | |
| `Service` | life cycle, log files, reader and broker composed | `LogBroker`, `LogReader`, `AppLifecycle` |
| `MCHealthStore`, `MCScheduler`, `MCRuntimeManager`, `MCGateway`, `MCBodyPipeline`, `MCService` | instances for TLC | |
| `ScopeProofs` | lemmas about the operators of `HealthScopes`, shared by the next three | `HealthScopes`, `TLAPS` |
| `HealthProofs`, `ProbeProofs` | proofs about `HealthStore` | `HealthStore`, `ScopeProofs` |
| `SchedulerProofs` | proofs about `Scheduler` with `Affinity` | `Scheduler`, `ScopeProofs` |
| `GatewayProofs` | proofs about `Gateway` with `UpstreamAttempt` and `ClientPool` | `Gateway`, `TLAPS` |
| `ManagerProofs` | proofs about `RuntimeManager` | `RuntimeManager`, `TLAPS` |
| `BrokerProofs` | proofs about `LogBroker` and its refinement of `LossyStreams` | `LogBroker`, `TLAPS` |
| `LifeProofs` | proofs about `AppLifecycle` | `AppLifecycle`, `TLAPS` |

`HealthScopes` is the shared part: `HealthStore` drives it with arbitrary
callers, `Scheduler` with the calls that selection and the attempt loop really
make. Definitions keep the names of the code where they can. A definition named
`Wrong...` is a variant with a plausible mistake; nothing uses it, it documents
what the property beside it in `PROJECT.json` notices.

### HealthScopes and HealthStore

Store.mu makes each method one step. A scope has a breaker per `EntryId`: the
provider as a whole (`Global`) and each channel, a pair of model and request
type. A breaker is closed, cooling or half-open. `Acquire` advances expired
cooldowns, refuses a provider that cools down or whose probe is out, and
otherwise lends a lease that carries the probes it took. `Report` settles the
lease whichever scope it came from. `Reconcile` replaces an active scope when
generation, epoch or health mode differ, and retires the old one while leases
of it are out. `UpdateError` fills in the body of a failed answer afterwards.

Time is relative: `Tick` shortens cooldowns and ages failures, so the state
space is finite without a bound on the clock. Scope objects live in `Slot`
and leases in `Token`; both are only names, compared for equality, and so are
sessions and requests. That is why the symmetry sets of the MC modules are
sound: no definition orders them, and a `CHOOSE` of a free slot picks a name
that nothing depends on. The liveness runs use no symmetry.

### Affinity and Scheduler

A request goes through `Begin` (takes the current snapshot), `Acquire`,
`StartAttempt`, `Report` and either another round or the end; `Cancel` may
strike in between. `Publish` adds a snapshot and `Reconcile` catches up with
the newest one, so revisions may be skipped as `App.syncRuntime` skips them.
Scheduler.mu makes each call one step. Versions of bindings and cursors are
compared only with those that requests in flight remember, so a version no
request holds stands for the next counter value. `Only` filters a sequence; it is
a recursive function, where `SelectSeq` is a RECURSIVE operator, so that the
provers can reason about it.

### ClientPool, UpstreamAttempt and Gateway

`req.pc` says where the executor stands; between two locations the client may
leave, a timer may fire or a background reader may run. Each check of the
request's context is a guard at its location, so a departure is possible between
any two of them. `att[n]` is the n-th attempt: who has to end it (`owner`), what
was reported about it, which resources are open, its transport, and its control
block. The operators of `UpstreamAttempt` are the critical sections under
`upstreamAttempt.mu`. A timer callback is two steps, `CallbackLoadsEpoch` before
it gets the mutex and `CallbackRuns` after, as in `timerFired`; `expired` stands
for the comparison with the deadline. An error body goes to a background reader
(`BackgroundFailure`), which runs beside the next attempt and after the request.
`FinishHTTPFailure` and `ReadFinal` are apart because the client's hook can run
between them, while the attempt is still detached.

What nobody reads again gets a fixed value (`Silence`, `Forget`, the status of a
buffered answer), which keeps settled attempts from multiplying the states. The
HTTP statuses are one of each class the gateway tells apart and a mapped one; a
chunk is data, one of the SSE events that decide a verdict, the end or a failure.

### RuntimeManager

`disk` holds the active and the pending file, `target` the settings file with
the managed fields and the user's own, `m` the manager of the running process.
`Plan` is the first half of `applyValidatedLocked`; `ApplyHot`, `ApplyRestart`
and `BeginTelemetry` are its three ways to go on. Manager.mu is held across the
rewriting of the settings file, but the user's editor and a crash do not ask for
it: that rewriting is the sequence `CommitBackup`, `CommitCopy`, `CommitCheck`,
`CommitReplace`, `CommitVerify`, followed by the recording of the result or, for
telemetry, by rollback and `RecoverHarness`. Startup is `LoadStartup`,
`AcquireResources`, `Promote`, `FinishStartup`, each with its failures, and
`Crash` is possible at every step. The ghost variable `edited` says whether the
user wrote the file after the process last found it as expected, and the field
`base` of a pending file is the active file it was derived from.

### Bodies: JSONScan to BodyPipeline

A body is a sequence of one-letter bytes. `JSONScan` is the state machine of
`stream.go` as a function from state and byte to state, so `BodyPipeline` can
feed it one read of the connection at a time (`ReadChunk`, `ReadEOF`). The
alphabet is small and keeps what the code tells apart: quotes, escapes, a `\u`
escape (of `UnicodeDigits` digits instead of four), surrogates, a two-byte
character, control and white-space bytes, digits, literals. `JSONReference` says
what a text means without looking at the scanner; `ScanExact` and `PatchesExact`
compare the two. Keys and fixed texts are one or two letters each (`Key`,
`Literal`).

`req.pc` follows the request from capture over detection, plan and model override
to attempts and the buffered answer. Each file of a body is a member of `files`
and never leaves it during the request, so a double close or a file that is
forgotten shows. `reader` is the transport, which reads the body in a goroutine
of its own and perhaps after the call has returned. `recent` is a ghost: the
sessions in the order of their last use, without a capacity.

### LossyStreams and LogBroker

`LossyStreams` knows no queue, lock or dispatcher: every line owed to an open
stream is received or counted in a "dropped" report, and no record overtakes a
loss not yet reported. `LogBroker` has the code's goroutines, one step for each
lock section and each channel operation: the writer that looks at the
subscribers, queues a line or walks the subscribers to count a loss, the
dispatcher with its two selects, the handlers, and Close. Broker.mu appears where
it excludes something: Subscribe, unsubscribe and Close wait for the dispatcher's
and the writer's walk. `Promise` is the refinement mapping, `StreamsLossy` states
it, and TLC checks it inside `Service`.

### LogFiles and LogReader

A file is a sequence of bytes that belong to records, so a cut write leaves a
fragment and the next line is glued to it, as in the code. Both locks are held
for a whole write, so a write with its rotation is one step with one outcome per
system call. The clock may be set back, and `sequence` holds the clamp of
`writeTimeLocked`. `LogReader` reads a file backwards in chunks of
`ReverseReadChunk`, doubling while a line grows; it is RECURSIVE and only for TLC.

### AppLifecycle and Service

Serve, Close and the restart share the fields under lifecycleMu, the listeners and
a channel that keeps one message. `Service` adds what connects them with the
logs: a failed restart logs a record itself, Close closes broker, server and log
in this order, a stream lives on a connection of the server, and a successful
restart replaces the process and everything but the files (`Boot`). `LifeSpec` of
`AppLifecycle` is the life cycle alone, with each of those steps reduced to its
part in it.

## Runs

Every property of a passing run has a mutant in `PROJECT.json`: a definition
changed the way a bug would change it, under which TLC finds the property
violated.

| Run | Checks | Instance, and why it is enough |
|---|---|---|
| `health_breaker` | `TypeOK`, `ProbeOwned`, `BreakerConsistent`, `BackoffEscalatesByProbe`, `BreakersRecover` | fair, no symmetry; one provider whose model comes and goes, two concurrent leases, the least that races a probe with a late result; a two-step schedule, threshold 2 and saturation at 3 reach every boundary |
| `health_edits` | `LeaseAccounting`, `PendingErrorHasReader`, `LateResultsIsolated`, `CooldownKept` | two generations, with and without the model, another health mode and epoch around two leases; three scopes: the current one and one retired per lease |
| `scheduler_routing` | `TypeOK`, `AffinityIndexed`, `StickyNeverCooling`, `LateFallbackYields`, `TiersRespected` | two requests of one or two sessions over two providers, the first in a tier above the second, which is without health checks (the next two runs have both in one tier); an affinity table of capacity one, so every binding evicts |
| `scheduler_edits` | `MemoryCurrent`, `LeasesHeldByAttempts`, `DisabledPeriodForgets` | three revisions, so that one can be skipped, of five configurations, around a request in flight |
| `scheduler_liveness` | `RequestsEnd` | fair; budget 3 with 2 continuous retries, both request types, one edit |
| `runtime_manager` | `TypeOK`, `PendingBuildsOnActive`, `ServedIsStored`, `ActivationVerified`, `UserEditsKept`, `SnapshotChangesRevision` | seven configurations over two profiles, each different in a setting the manager treats in its own way; two values of the user's fields; operations start up to revision 3 of a process, and processes start again without bound |
| `runtime_backup` | `BackupBeforeModification`, expected to fail | two configurations that differ in the telemetry switch, revision 3 |
| `gateway` | `TypeOK`, `AttemptsSettled`, `TransportsCounted`, `CancelReachesFinalRead`, `BlameMatchesVerdict`, `NoEarlyTimeout`, `WaitsEnd` | fair; requests one after the other with two attempts each, so that an error body is read beside an attempt; the provider is removed by the second snapshot, so that transports are retired, leased and unleased, and old requests lease stale ones; shutdown at any time |
| `request_bodies` | `ScanExact`, `PatchesExact`, `BodiesSettled`, `AliasStable` | a set of bodies with nested, escaped, repeated and malformed members, two of them fields of the same patch; reads of one or two bytes; two attempts per request; four requests after the first over three sessions and an alias store of two, with a time to live of two ticks, so that sessions are evicted, expire and come back |
| `classifier_edits` | `ClassifierPatched`, expected to fail | one classifier request, its members in either order |
| `service` | `TypeOK`, `PagesComplete`, `ListenersReleased`, `StreamsLossy`, `CloseEnds` | fair; at most two of three streams subscribed, with channels of one and a queue of three bytes, which three lines overflow; files of two records, so that the fourth rotates a second time; the mixes of events in `MCBudgets` |
| `service_restart` | `RestartRecovers`, expected to fail | fair; one restart whose exec fails |

Bounds: `Version` and `CursorVersion` hold more ids than requests in flight can
remember, so a fresh one always exists; `MaxInt` stands for the largest Go int,
where the counter saturates; `MaxRevision` bounds the published snapshots in
`Scheduler` (guard of `Publish`) and the start of operations in `RuntimeManager`
(guard of `CanMutate`). `Token`, `Slot` and `Observation` bound leases, scopes
and error bodies at one time: `Acquire`, `Reconcile` and `Report` wait for a free
one. `Entry` bounds the transports: at one time two attempts use one each, and
an entry that nothing refers to is given out again. `MaxAttempts` is the plan's
own budget. A run whose outcomes have no error body needs no observation.
`FewForms` (`MaxForms`) bounds the compiled forms of a provider in
`health_edits`: a report meets the form it started under and another one.
`MaxRequests` and `MaxChunk` bound the requests and the reads of `BodyPipeline`;
the texts are lists, because a body matters only for the case it is made for, and
the reference parser decides what is right. Sessions may be permuted: nothing
orders them, and the aliases, which are ordered, are drawn in order. `Budgets`
bounds what the environment of `Service` does; each member of `MCBudgets` is one
mix of the events that interact (streams that fall behind while the broker
closes; a third stream that is refused; pages over rotations, faults and steps of
the clock; restarts that fail or replace the process, beside Close),
and all mixes are explored in one run. `MaxTime` bounds the clock, which a new
process finds later than the last record of the old one (`Clock`).
Deadlock is checked in every run but the two of `Service`, which may stop: its
process ends, and its environment has a budget.

### Fairness

`HealthStore`: time passes, every lease is eventually reported (the executor
reports on every path, and upstream calls have timeouts), and reading an error
body ends (bodies are capped and have a deadline). `Scheduler`: a request in
flight does not rest for ever; this is weak fairness of its next step, with
ENABLED written out. Configuration edits, cancellations and new requests are not
fair. `Gateway`: the executor, a background reader, a due timer and the hook of
a done context get to run, and the read or call of a canceled connection returns
(net/http promises that); a provider need not answer, send or close anything, and
clients need not leave. `Service`: every goroutine of the process keeps running
and a handler on a killed connection notices it; a client may stop reading for
good (writing to it is not fair), and nobody has to log, call Close or restart,
so Close cannot rely on its clients but on the deadline of Shutdown. Whether an
exec succeeds (`Boot`) is not fair.
`BodyPipeline` has no liveness property, since each step of it is sequential code
or a failure of its input; what may wait there is in `Gateway`. `RuntimeManager` has no liveness property: nothing forces writes to
succeed.

### Findings

The runs that are expected to fail:

* `runtime_backup`: the backup of the settings file is written under its final
  name. A crash in between leaves a partial file; the next activation finds a
  backup, makes no other and replaces the settings file. `docs/usage.md` promises
  a backup before the first modification.
* `classifier_edits`: `anyRouterClassifierPatch` appends the deletion of
  `thinking` before the edits of `system`. When `thinking` follows `system` in
  the body, the editor refuses the list and the request fails.
* `service_restart`: `recoverRestartFailure` clears `restarting`, unlocks, logs
  and only then signals `resume`. If Serve looks in between, it sees neither and
  returns, and the process ends although the listener was bound again.

Other disagreements met while modelling, with the way to see them:

* `Scheduler.UpdateError` drops an error body as soon as any snapshot was
  published after the attempt started (`selector.go:815`), although the health
  store "fills a still-current observation" (`store.go:709`); the diagnostic stays
  pending. Check `PendingErrorHasReader` of `Scheduler` with the configurations
  `MCOtherEdits` and the outcomes `MCPending`.
* A comment in `executeAttempt` (`plan_executor.go:290`) says that a cancellation
  closes all resources of the attempt. If the client is gone when
  `closeRequestBodies` fails (446), the patch execution stays open; if it is gone
  when a patched response cannot be prepared (621 to 650), the captured body
  does. Check `CancelClosesResources` with `Gateway.cfg`. `BodyPipeline` marks
  these files `stray`.
* `ApplyEditsAndScanContext` says that failures remove the file it is building
  (`edit.go:131`), but two of them (`edit.go:179` to 185) return without the
  clean-up; also `stray`.
* After a write that is cut short, the next record is glued to the fragment. It
  was published, and its bytes are complete in the file, but its reference
  answers `ErrRecordNotFound`, which the reader calls "rotated away". Check
  `WrittenIsRetained` with `Service.cfg` and the budgets `MCLogBudgets`.
* A failing close of the active log file during a rotation leaves the closed handle
  in the writer: every later write closes it again and fails (`logging.go:120`).
  `LogFiles` models it (`handle = "stale"`); no property forbids it, since nothing
  in the repository promises that the log recovers.
* A restart that has begun looks at `closed` no more: `beginRestart` does, but
  `restartProcess` then execs (`restart_unix.go:30`) whatever came in between. If
  the exec succeeds, the service that was closed is back. `CloseEnds` has this as
  its only escape, and only for a restart that had begun before Close and was not
  past its exec. `Run` never calls Close and nothing in the repository says that
  it is final, so this is no run; to see it, check `ClosedStaysClosed` of
  `Service` with `Service.cfg`.
* The clamp of the log's clock lives in the process. If the clock is set back
  across a restart, records are no longer in the order of their times, and pages
  skip some (the comment in `logging.go` says file order and time order are the
  same). Check `PagesComplete` with `BootClock = "any"`; the run uses
  `"forward"`.

## Proofs

The theorems hold for every value of the constants under the `ASSUME`s of the
modules: `PolicyAssumption` (what `Policy.Validate` accepts), `ConstantsAssumption`
and `CatalogAssumption` (null values are not values, finitely many tokens),
`GatewayAssumption` and `EntryAssumption` (an attempt budget, at least one
snapshot), `ClientAssumption` (clients send configurations without an active
profile; no profile, key or attempt limit is the null one), `BrokerAssumption`
(lines have a length, buffers hold at least one), `AffinityAssumption` and
`SchedulerAssumption` (capacity, time to live and budgets are positive; a
configuration lists known providers, all of which have a place in the order; and
there are more versions than requests, so that a fresh one exists as it does in a
64-bit counter). TLC evaluates all of them. Each
invariant is proved as `Init => Inv` and `Inv /\ [Next]_vars => Inv'`, with one
step per action.

**Health store** (`ScopeProofs`, `HealthProofs`, `ProbeProofs`).

* `TypeCorrect`: `TypeOK` is inductive, and holds two facts that are not mere
  types: the backoff level stays an index of the cooldown schedule and the failure
  counter saturates. There is one lemma per operator of `HealthScopes`.
* `ProbesAreOwned`: a reserved probe belongs to a lease in flight of the same
  scope. `Report` clears the reservations of the provider's breaker and of the
  lease's own channel, so the induction also needs that a lease has reserved no
  others (`LeaseProbes`).
* `BreakersConsistent`: state, counters and cooldown of a breaker agree. The
  invariant speaks about single entries (`Sound`), plus that an active scope has
  its provider's breaker (`HasGlobal`); `ScopeProofs` says for every
  method which scope it writes and with what.
* `CooldownsAreKept`, `BackoffEscalates`, `LateResultsAreIsolated`: the action
  properties, from the same lemmas. `PendingErrorsHaveReaders` is inductive with
  `TypeOK`.
* `LeasesAccounted`: lease counters are exact. A slot is reused because its counter
  is zero, which is safe only because the counter is exact; hence the two halves
  `Filed` (a retired scope is listed once and has leases, a free slot holds
  nothing) and `Accounted`.

**Scheduler** (`SchedulerProofs`). One inductive invariant, `Inv` (TLC finds it true
of every reachable state of the `scheduler_routing` and `scheduler_edits`
instances), carries five state properties and three action properties, for any
number of providers, sessions, requests in flight and revisions:
`SchedulerTyped`, `LeasesAreHeld` (`LeasesHeldByAttempts`), `AffinityIsIndexed`
(`AffinityIndexed`), `MemoryIsCurrent` (`MemoryCurrent`), `BindingsNeverCool`
(`StickyNeverCooling`), `LateFallbacksYield` (`LateFallbackYields`),
`TiersAreRespected` (`TiersRespected`) and `DisabledPeriodsForget`
(`DisabledPeriodForgets`). Its parts, and what each is there for:

* `StoreInv`: the scopes are sound and exactly counted, as in the health store
  (the lemmas of `ScopeProofs` are about the operators, so they serve both);
  the active scopes are those of the snapshot last reconciled (`ActiveCurrent`);
  a provider that is off has no failure (`OffUntouched`), since nothing starts
  against it and late results meet a retired scope.
* `SnapshotInv`: a health epoch never spans a change of `enabled`, also between
  snapshots that are not neighbours (`EpochsOrdered`). `Reconcile` compares only
  the two ends of what it skips, and this is why that suffices.
* `RequestInv`: the ordered candidates of a request are exactly what its snapshot
  offers; its lease belongs to the provider and channel of its attempt, and, when
  its snapshot is the current one, to the active scope (`LeaseKnown`); tokens are
  those of requests in flight, one each (`TokensHeld`); the budgets.
* `MemoryInv` and `CursorInv`: map, LRU list and provider index agree (`Indexed`);
  bindings and pending moves name providers that the current snapshot still offers
  in the same generation, cursors providers of their own tier; a bound session's
  breakers are closed (`BindingsOpen`). `Report` preserves the last part only because an entry opens
  exactly when `EnteredCooldown` is reported, and that suspends the keys of that
  entry (`OpensEntered`).

`StickyNeverCooling` is not inductive alone: a session is bound by an `Acquire` that
has seen the breaker closed or by a reported success, which closes it; that this
was the breaker of the scope the current snapshot has takes `ActiveCurrent` and
`LeaseKnown`.
`LateFallbackYields` needs no more than the guard of `migrateAssignmentLocked` once
it is known that only a report rebinds a session of a request that holds a lease.
What `Only` returns is proved by taking the shortest counterexample, which needs
no induction schema.

**Gateway** (`GatewayProofs`). One inductive invariant, `GatewayInv`, carries six
theorems (TLC finds it true of every reachable state of the `gateway` instance):
`GatewayTypeCorrect`, `GatewaySettles` (`AttemptsSettled`),
`GatewayCountsTransports` (`TransportsCounted`), `GatewayCancelsFinalRead`
(`CancelReachesFinalRead`) and, as facts about its steps, `GatewayTimesOutLate`
(`NoEarlyTimeout`) and `GatewayBlamesFairly` (`BlameMatchesVerdict`). Its parts:

* `RequestSound`: the counters of the attempt loop by location; the captured
  failure is that of the last call.
* `AttemptSound`: who owns an attempt is determined by where the executor stands,
  and what holds of it depends on the owner. `NobodySound` is what it means to be
  settled, `CapturedSound` that a captured failure is either unread and detached
  or has nothing left, `BackgroundSound` that its timer is the one for error
  bodies and the client's hook is off.
* `ExecutorSound` with `VerdictSound`: what verdict the control block may hold at
  each location. This is the strengthening blame needs: until the headers arrive
  the verdict is that of whoever stopped the attempt, after them it agrees with
  the status, and while a body is captured it is a cancellation, an idle timeout
  that ended the capture, or a broken read.
* `PoolSound` and `Counted`: an entry is pooled under one key or retired, closed
  exactly when retired and unused, and its references are the attempts that lease
  it.

The timer and hooks are abstracted to one relation, `Interrupts`, which every
location tolerates; so the interleavings of callbacks with all executor locations
are one lemma (`InterruptSound`) instead of a case per pair.

**Runtime manager** (`ManagerProofs`). `ManagerInv` proves `ManagerTypeCorrect`,
`PendingKeepsUpdates`, `ServesStored`, `ActivationsVerified`, `KeepsUserEdits` and
`RevisionsGrow`, through every failed write and crash. `Stored` relates the files to
the process in each phase of startup and restart, `Exclusive` says that no profile
is active while an activation rewrites the settings file, `Verified` what the
process knows of that file as long as the user has not written it, including
across a restart whose configuration keeps the active profile.

**Log broker** (`BrokerProofs`). `BrokerTypeCorrect`: the shape of the state, and
`BuffersBounded`, the limits of the queue, the subscribers and every channel. A
channel's limit holds because each of `deliver`'s two sends looks for room itself,
and that of the subscribers for infinitely many streams too. `QueueWithinBudget`,
where the byte count is tied to the queue by partial sums, since a recursive sum
cannot be reasoned about; and the refinement `BrokerImplementsStreams`: every step of writer,
dispatcher, handlers and Close is a step of `LossyStreams` or a stutter.
It needs `ControlInv` (a walk over the subscribers meets only streams that are still
subscribed; between the two sends of `deliver` that subscriber's counter is
zero) and `OrderInv` (what was shown, the dispatcher's line, the queue and
the writer's line are in publication order).

**Life cycle** (`LifeProofs`). `LifeTypeCorrect` and `LifeReleasesListeners` of
`LifeSpec`, for any number of restarts. `Tracked` says that an open listener is the
current one or the one a failed restart has just bound, and that Close, which
keeps the server it read, finds that one still current or none.

Only model-checked:

* liveness (`BreakersRecover`, `RequestsEnd`, `WaitsEnd`, `CloseEnds`), which is out
  of the prover's reach;
* `BodyPipeline` and the log reader (`ScanExact`, `PatchesExact`, `BodiesSettled`,
  `AliasStable`, `PagesComplete`): their definitions are RECURSIVE or say what a
  recursive definition computes;
* the composition `Service`, which extends the log reader. Its parts `LogBroker` and
  `AppLifecycle` are proved on their own; that the steps of `Service` are theirs is
  what `StreamsLossy` and `ListenersReleased` check in the `service` run.

## Not modelled

* The fixed executor (classifier requests to one target): its calls are those of
  `UpstreamAttempt`, but its retries and diagnostics have a control flow of their
  own that no module follows yet.
* Health snapshots, the startup scan cache, diagnostic texts and the status page:
  they read state and decide nothing.
* HTTP headers, authentication, URLs, ETags, routing of the management API, file
  permissions and paths, log attributes: sequential work on text, without state
  of their own. Configuration validation appears as the set of valid
  configurations.
* In `bodyfile`: temporary file creation and the digest that binds an index to a
  reopened body. In `patch`: the registry, checked once at startup.
* `Broker.Flush`, `Client`, `ClientForTarget`, `AliasStore.Get`, `Len` and
  `PurgeExpired`: only tests call them.
* The Windows restart, the web console, the command line, the scripts.

`PROJECT.json` gives the reason for each component.

## Plan

1. Proofs: the bound and the uniqueness of keys in `AliasStore`; that the steps of
   `Service` are steps of `LifeSpec` and of the broker, once the log reader is apart
   from the rest.
2. The fixed executor with its retries and fallback, on the operators of
   `UpstreamAttempt` and `ClientPool`.
3. An abstract circuit breaker that `HealthStore` implements per breaker.
4. Pure operators against reference definitions: provider order, ETag lists,
   version comparison.
