---------------------------- MODULE HealthStore ----------------------------
(***************************************************************************)
(* The health controller of internal/health/store.go as a state machine:   *)
(* one action per method of Store, each atomic under Store.mu, in every    *)
(* order that requests holding old and new snapshots can make them.        *)
(***************************************************************************)
EXTENDS HealthScopes

CONSTANTS
    Catalog,            \* compiled providers that may be configured
    Outcomes            \* attempt outcomes that may be reported

ASSUME CatalogAssumption ==
    /\ Catalog \subseteq CompiledProvider
    /\ Outcomes \subseteq Outcome

-----------------------------------------------------------------------------
VARIABLES
    store,      \* [Provider -> the provider's scopes]: Store.active and .retired
    leases,     \* [Token -> lease record]: Store.leases
    published,  \* [Provider -> compiled forms that live snapshots may hold]
    updates     \* error bodies being read: the UpdateError calls still to come

vars == <<store, leases, published, updates>>

LiveTokens == {t \in Token : leases[t] # NoLease}

(* allocateTokenLocked: the counter wraps and skips 0 and the tokens that  *)
(* are in use; any other token may come next.                              *)
FreeTokens == Token \ LiveTokens

(* The compiled forms p may take next.  WithHealthEpochs hands out the     *)
(* runtime revision as a new epoch when the provider appears or its        *)
(* enabled flag flips, and the old epoch otherwise.                        *)
NextForms(p) ==
    {c \in Catalog : \A old \in published[p] :
        IF store[p].active = NoSlot THEN c.epoch > old.epoch ELSE c.epoch >= old.epoch}

Init ==
    /\ store = [p \in Provider |-> NoScopes]
    /\ leases = [t \in Token |-> NoLease]
    /\ published = [p \in Provider |-> {}]
    /\ updates = {}

(* Store.Reconcile for the providers of a new snapshot: form[p] is p's     *)
(* compiled form, and the providers outside DOMAIN form are gone.          *)
ReconcileAll(form) ==
    /\ \A p \in DOMAIN form :
            ActiveMatches(store[p], form[p]) \/ FreeSlots(Retire(store[p])) # {}
    /\ store' = [p \in Provider |->
                    IF p \in DOMAIN form THEN ReconcileProvider(store[p], form[p])
                    ELSE Retire(store[p])]
    /\ published' = [p \in Provider |->
                        IF p \in DOMAIN form THEN published[p] \cup {form[p]}
                        ELSE published[p]]

Reconcile ==
    /\ \E present \in SUBSET Provider :
       \E form \in [present -> Catalog] :
            /\ \A p \in present : form[p] \in NextForms(p)
            /\ ReconcileAll(form)
    /\ UNCHANGED <<leases, updates>>

(* The granting half of Store.Acquire.                                     *)
GrantLease(p, k, t) ==
    /\ store' = [store EXCEPT ![p] = Grant(@, k, t)]
    /\ leases' = [leases EXCEPT ![t] =
            [provider |-> p, slot |-> SlotForAcquire(store[p], k),
             channel |-> <<k.model, k.requestType>>, probes |-> ProbesFor(store[p], k)]]

(* Store.Acquire by a request that holds a snapshot with p compiled as c.  *)
Acquire(p, c, model, requestType) ==
    LET k == Key(c, model, requestType)
    IN  /\ HasSlot(store[p], k)
        /\ \/ /\ Decision(store[p], k).available
              /\ \E t \in FreeTokens : GrantLease(p, k, t)
           \/ /\ ~Decision(store[p], k).available
              /\ store' = [store EXCEPT ![p] = Inspect(@, k)]
              /\ UNCHANGED leases
        /\ UNCHANGED <<published, updates>>

(* Observation ids that some entry or pending update still carries.        *)
UsedObservations ==
    {u.observation : u \in updates} \cup
    {store[p].scope[s].entry[x].observation : p \in Provider, s \in Slot, x \in EntryId}

(* Store.Report consumes lease t.  When the error body of an outcome that  *)
(* reached a live scope is still to be read, an UpdateError follows.       *)
ReportLease(t, outcome, obs) ==
    LET l  == leases[t]
        sc == store[l.provider].scope[l.slot]
    IN  /\ store' = [store EXCEPT ![l.provider] = ReportProvider(@, l, t, outcome, obs)]
        /\ leases' = [leases EXCEPT ![t] = NoLease]
        /\ updates' = IF outcome.errorPending /\ l.slot = store[l.provider].active
                      THEN updates \cup
                            {[provider |-> l.provider, generation |-> sc.generation,
                              epoch |-> sc.epoch, disableHealth |-> sc.disableHealth,
                              model |-> l.channel[1], requestType |-> l.channel[2],
                              observation |-> obs]}
                      ELSE updates

Report(t, outcome) ==
    /\ t \in LiveTokens
    /\ \/ ~outcome.errorPending /\ ReportLease(t, outcome, NoObservation)
       \/ /\ outcome.errorPending
          /\ Observation \ UsedObservations # {}
          /\ ReportLease(t, outcome, CHOOSE o \in Observation \ UsedObservations : TRUE)
    /\ UNCHANGED published

(* Store.UpdateError for a body that was read in full or cut short.        *)
UpdateError(u, incomplete) ==
    /\ u \in updates
    /\ store' = [store EXCEPT ![u.provider] = UpdateErrorProvider(@, u, incomplete)]
    /\ updates' = updates \ {u}
    /\ UNCHANGED <<leases, published>>

Tick ==
    /\ store' = [p \in Provider |-> AgeProvider(store[p])]
    /\ UNCHANGED <<leases, published, updates>>

Next ==
    \/ Reconcile
    \/ \E p \in Provider : \E c \in published[p] : \E model \in c.models :
       \E requestType \in RequestType : Acquire(p, c, model, requestType)
    \/ \E t \in Token : \E outcome \in Outcomes : Report(t, outcome)
    \/ \E u \in updates : \E incomplete \in BOOLEAN : UpdateError(u, incomplete)
    \/ Tick

Spec == Init /\ [][Next]_vars

(* Requests always end, so every lease is reported, every error body read  *)
(* ends, and time passes.                                                  *)
Fairness ==
    /\ WF_vars(Tick)
    /\ \A t \in Token : WF_vars(\E outcome \in Outcomes : Report(t, outcome))
    /\ WF_vars(\E u \in updates : \E incomplete \in BOOLEAN : UpdateError(u, incomplete))

FairSpec == Spec /\ Fairness

-----------------------------------------------------------------------------
(* Properties.                                                             *)

(* The state has the shape the Store struct declares.                      *)
TypeOK ==
    /\ store \in [Provider -> ProviderScopes]
    /\ leases \in [Token -> Lease \cup {NoLease}]
    /\ published \in [Provider -> SUBSET Catalog]
    /\ updates \subseteq Update

(* The tokens of the leases taken from a scope, and from one of its        *)
(* channels.                                                               *)
ScopeLeases(p, s) == {t \in LiveTokens : leases[t].provider = p /\ leases[t].slot = s}
ChannelLeases(p, s, x) == {t \in ScopeLeases(p, s) : leases[t].channel = x}

(* A breaker's probe reservation always belongs to a lease still in        *)
(* flight, taken from that very scope and recorded as that breaker's       *)
(* probe, and only a half-open breaker has one.  A reservation left behind *)
(* by a finished attempt would block the provider for good: nothing else   *)
(* ever clears it (available, releaseProbe, Report's retired branch).      *)
ProbeOwned ==
    \A p \in Provider, s \in Slot, x \in EntryId :
        LET e == store[p].scope[s].entry[x]
        IN  e.probeToken # NoToken =>
                /\ e.state = "half_open"
                /\ e.probeToken \in ScopeLeases(p, s)
                /\ x \in leases[e.probeToken].probes

(* activeLeases of every scope and channel equals the leases really out,   *)
(* whatever the order of model edits, retirements and late reports, and a  *)
(* lease in flight never loses its channel entry: Report's "channel ==     *)
(* nil" branch is never needed for a lease it issued itself.               *)
CountsExact ==
    \A p \in Provider, s \in Slot :
        /\ store[p].scope[s].activeLeases = Cardinality(ScopeLeases(p, s))
        /\ \A x \in Channel :
            /\ store[p].scope[s].entry[x].activeLeases = Cardinality(ChannelLeases(p, s, x))
            /\ ChannelLeases(p, s, x) # {} => Exists(store[p].scope[s].entry[x])

(* Store.retired never leaks: a retired scope is kept exactly as long as   *)
(* some lease of it is in flight, is listed once, and is not the active    *)
(* one.                                                                    *)
RetiredScopesAreLeased ==
    \A p \in Provider :
        /\ \A i \in DOMAIN store[p].retired :
            /\ store[p].retired[i] # store[p].active
            /\ ScopeLeases(p, store[p].retired[i]) # {}
            /\ \A j \in DOMAIN store[p].retired :
                    store[p].retired[i] = store[p].retired[j] => i = j
        /\ \A s \in FreeSlots(store[p]) : store[p].scope[s] = FreeScope

(* Leases are accounted for: the counters are exact and the retired scopes *)
(* are those that still have leases in flight.                             *)
LeaseAccounting == CountsExact /\ RetiredScopesAreLeased

(* The breaker never sits on a tripped threshold: a closed breaker has     *)
(* fewer consecutive failures than the threshold and no backoff, an open   *)
(* or half-open one has at least one failure behind it, and a disabled one *)
(* never counts (applyFailureLocked, applySuccess, inheritState).          *)
BreakerConsistent ==
    \A p \in Provider, s \in Slot, x \in EntryId :
        LET e == store[p].scope[s].entry[x]
        IN  /\ e.state \in {"absent", "unknown", "healthy", "disabled"} =>
                    e.consecutiveFailures = 0 /\ e.backoffLevel = 0
            /\ e.state = "degraded" =>
                    /\ e.consecutiveFailures \in 1..(FailureThreshold - 1)
                    /\ e.backoffLevel = 0
            /\ e.state \in {"cooldown", "half_open"} => e.consecutiveFailures >= 1
            /\ e.cooldownLeft > 0 => e.state = "cooldown"
            /\ Exists(e) => (e.state = "disabled" <=> store[p].scope[s].disableHealth)

(* An active entry that says its error body is still being read has an     *)
(* UpdateError on its way: the "pending" diagnostic is never orphaned by   *)
(* an edit, a retirement or a later observation.                           *)
PendingErrorHasReader ==
    \A p \in Provider : store[p].active # NoSlot =>
        \A x \in EntryId :
            LET e == store[p].scope[store[p].active].entry[x]
            IN  e.errorPending =>
                    \E u \in updates :
                        /\ u.provider = p
                        /\ u.observation = e.observation
                        /\ ActiveMatches(store[p], u)
                        /\ x \in KeyEntries(u)

ActiveEntry(p, x) == store[p].scope[store[p].active].entry[x]

KeepsCooldown(p, x) ==
    (/\ store[p].active # NoSlot /\ store'[p].active # NoSlot
     /\ Cooling(ActiveEntry(p, x))
     /\ LET old == store[p].scope[store[p].active]
            new == store'[p].scope[store'[p].active]
        IN  /\ old.epoch = new.epoch
            /\ old.disableHealth = new.disableHealth
            /\ x = Global \/ x \in new.models \X RequestType)
    => LET e == ActiveEntry(p, x)
           f == ActiveEntry(p, x)'
       IN  \/ /\ f.state = "cooldown"
              /\ f.backoffLevel = e.backoffLevel
              /\ f.consecutiveFailures = e.consecutiveFailures
              /\ f.cooldownLeft \in {e.cooldownLeft, e.cooldownLeft - 1}
           \/ f.state = "healthy"

(* A running cooldown is kept: neither late failures of attempts that      *)
(* started before it, nor configuration edits within the same health epoch *)
(* and mode, extend, shorten or lift it.  Only time runs it down, and only *)
(* a success ends it early.                                                *)
CooldownKept == [][\A p \in Provider, x \in EntryId : KeepsCooldown(p, x)]_vars

RaisesByProbe(p, s, x) ==
    LET e == store[p].scope[s].entry[x]
        f == store[p].scope[s].entry[x]'
    IN  (store[p].active = s /\ store'[p].active = s) =>
            \/ f.backoffLevel = e.backoffLevel
            \/ f.backoffLevel = 0
            \/ /\ f.backoffLevel = e.backoffLevel + 1
               /\ e.probeToken # NoToken /\ leases'[e.probeToken] = NoLease
               /\ f.state = "cooldown"

(* Backoff escalates one level at a time, only when the probe of a         *)
(* half-open breaker fails, and never falls except back to zero.           *)
BackoffEscalatesByProbe ==
    [][\A p \in Provider, s \in Slot, x \in EntryId : RaisesByProbe(p, s, x)]_vars

SparesSuccessor(t) ==
    LET l == leases[t]
    IN  (/\ l # NoLease /\ leases'[t] = NoLease
         /\ store[l.provider].active \notin {NoSlot, l.slot})
        => store'[l.provider].scope[store[l.provider].active]
             = store[l.provider].scope[store[l.provider].active]

(* The result of an attempt of a retired scope never reaches the scope     *)
(* that replaced it.                                                       *)
LateResultsIsolated == [][\A t \in Token : SparesSuccessor(t)]_vars

(* No breaker blocks its provider for good: whenever one is closed to new  *)
(* attempts, by a cooldown or by a probe in flight, the transition that    *)
(* the next Acquire applies eventually finds it open again, whatever late  *)
(* failures, cancellations and edits come in between (advanceCooldown,     *)
(* releaseProbe, applyFailureLocked).                                      *)
BreakersRecover ==
    \A p \in Provider, s \in Slot, x \in EntryId :
        ~Available(AdvanceCooldown(store[p].scope[s].entry[x]))
            ~> Available(AdvanceCooldown(store[p].scope[s].entry[x]))

=============================================================================
