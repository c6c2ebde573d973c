---------------------------- MODULE HealthProofs ----------------------------
(***************************************************************************)
(* Proofs about HealthStore, for every set of providers, models, compiled  *)
(* providers, outcomes and tokens and every valid policy.                  *)
(***************************************************************************)
EXTENDS HealthStore, ScopeProofs

-----------------------------------------------------------------------------
(* Type correctness of the specification.                                  *)

LEMMA KeyType ==
    ASSUME NEW c \in Catalog, NEW m \in c.models, NEW r \in RequestType
    PROVE  Key(c, m, r) \in HealthKey
BY CatalogAssumption DEF Key, HealthKey, CompiledProvider

LEMMA InitType == Init => TypeOK
<1>1. NoScopes \in ProviderScopes
  <2>1. [s \in Slot |-> FreeScope] \in [Slot -> Scope] /\ <<>> \in Seq(Slot)
    BY FreeScopeType
  <2>2. QED
    BY <2>1 DEF NoScopes, ProviderScopes
<1>2. QED
  BY <1>1 DEF Init, TypeOK

LEMMA ReconcileTypeStep ==
    ASSUME TypeOK, Reconcile
    PROVE  TypeOK'
<1>1. PICK present \in SUBSET Provider : \E form \in [present -> Catalog] : ReconcileAll(form)
  BY DEF Reconcile
<1>2. PICK form \in [present -> Catalog] : ReconcileAll(form)
  BY <1>1
<1>3. store \in [Provider -> ProviderScopes] /\ published \in [Provider -> SUBSET Catalog]
  BY DEF TypeOK
<1>4. ASSUME NEW p \in Provider
      PROVE  /\ Retire(store[p]) \in ProviderScopes
             /\ p \in present => ReconcileProvider(store[p], form[p]) \in ProviderScopes
  <2>1. store[p] \in ProviderScopes
    BY <1>3
  <2>2. p \in present => /\ form[p] \in CompiledProvider
                       /\ \/ ActiveMatches(store[p], form[p])
                          \/ FreeSlots(Retire(store[p])) # {}
    BY <1>2, CatalogAssumption DEF ReconcileAll
  <2>3. QED
    BY <2>1, <2>2, RetireType, ReconcileProviderType
<1>5. store' \in [Provider -> ProviderScopes]
  BY <1>2, <1>4 DEF ReconcileAll
<1>6. published' \in [Provider -> SUBSET Catalog]
  BY <1>2, <1>3 DEF ReconcileAll
<1>7. QED
  BY <1>5, <1>6 DEF Reconcile, TypeOK

LEMMA AcquireTypeStep ==
    ASSUME TypeOK, NEW p \in Provider, NEW c \in published[p], NEW m \in c.models,
           NEW r \in RequestType, Acquire(p, c, m, r)
    PROVE  TypeOK'
<1> DEFINE k == Key(c, m, r)
<1>1. store \in [Provider -> ProviderScopes] /\ store[p] \in ProviderScopes
  BY DEF TypeOK
<1>2. k \in HealthKey
  BY KeyType DEF TypeOK
<1>3. HasSlot(store[p], k)
  BY DEF Acquire
<1>4. <<k.model, k.requestType>> \in Channel /\ KeyEntries(k) \subseteq EntryId
  BY <1>2 DEF HealthKey, KeyEntries, Channel, EntryId
<1> HIDE DEF k
<1>5. CASE Decision(store[p], k).available
  <2>1. PICK t \in FreeTokens : GrantLease(p, k, t)
    BY <1>5 DEF Acquire, k
  <2>2. t \in Token
    BY DEF FreeTokens
  <2>3. Grant(store[p], k, t) \in ProviderScopes
    BY <1>1, <1>2, <1>3, <2>2, GrantType
  <2>4. store' \in [Provider -> ProviderScopes]
    BY <1>1, <2>1, <2>3 DEF GrantLease
  <2>5. SlotForAcquire(store[p], k) \in Slot
    BY <1>1, <1>3, SlotForAcquireType
  <2>6. ProbesFor(store[p], k) \subseteq EntryId
    BY <1>4 DEF ProbesFor
  <2>7. [provider |-> p, slot |-> SlotForAcquire(store[p], k),
         channel |-> <<k.model, k.requestType>>, probes |-> ProbesFor(store[p], k)] \in Lease
    BY <1>4, <2>5, <2>6 DEF Lease
  <2>8. leases' \in [Token -> Lease \cup {NoLease}]
    BY <2>1, <2>2, <2>7 DEF GrantLease, TypeOK
  <2>9. QED
    BY <2>4, <2>8 DEF TypeOK, Acquire
<1>6. CASE ~Decision(store[p], k).available
  <2>1. store' = [store EXCEPT ![p] = Inspect(store[p], k)] /\ UNCHANGED <<leases, published, updates>>
    BY <1>6 DEF Acquire, k
  <2>2. Inspect(store[p], k) \in ProviderScopes
    BY <1>1, <1>2, <1>3, InspectType
  <2>3. QED
    BY <1>1, <2>1, <2>2 DEF TypeOK
<1>7. QED
  BY <1>5, <1>6

LEMMA ReportTypeStep ==
    ASSUME TypeOK, NEW t \in Token, NEW o \in Outcomes, Report(t, o)
    PROVE  TypeOK'
<1> DEFINE l == leases[t]
           sc == store[l.provider].scope[l.slot]
<1>1. l \in Lease
  BY DEF Report, LiveTokens, TypeOK
<1>2. PICK obs \in Observation \cup {NoObservation} :
        ReportLease(t, o, obs) /\ (o.errorPending => obs \in Observation)
  BY DEF Report
<1>3. o \in Outcome
  BY CatalogAssumption
<1>4. l.provider \in Provider /\ l.slot \in Slot /\ l.channel \in Channel
  BY <1>1 DEF Lease
<1>5. store \in [Provider -> ProviderScopes] /\ store[l.provider] \in ProviderScopes
  BY <1>4 DEF TypeOK
<1>6. store' \in [Provider -> ProviderScopes]
  <2>1. ReportProvider(store[l.provider], l, t, o, obs) \in ProviderScopes
    BY <1>1, <1>3, <1>5, ReportProviderType
  <2>2. store' = [store EXCEPT ![l.provider] = ReportProvider(store[l.provider], l, t, o, obs)]
    BY <1>2 DEF ReportLease
  <2> HIDE DEF l
  <2>3. QED
    BY <1>5, <2>1, <2>2
<1>7. leases' \in [Token -> Lease \cup {NoLease}]
  BY <1>2 DEF ReportLease, TypeOK
<1>8. updates' \subseteq Update
  <2>1. CASE o.errorPending /\ l.slot = store[l.provider].active
    <3> DEFINE u == [provider |-> l.provider, generation |-> sc.generation,
                     epoch |-> sc.epoch, disableHealth |-> sc.disableHealth,
                     model |-> l.channel[1], requestType |-> l.channel[2],
                     observation |-> obs]
    <3>1. sc \in Scope
      BY <1>4, <1>5 DEF ProviderScopes
    <3>2. sc.generation \in Generation \cup {NoGeneration} /\ sc.epoch \in Nat /\ sc.disableHealth \in BOOLEAN
      BY <3>1 DEF Scope
    <3>3. l.channel[1] \in Model /\ l.channel[2] \in RequestType
      BY <1>4 DEF Channel
    <3>4. updates' = updates \cup {u}
      BY <1>2, <2>1 DEF ReportLease
    <3> HIDE DEF l, sc
    <3>5. u \in Update
      BY <1>2, <1>4, <2>1, <3>2, <3>3 DEF Update
    <3> HIDE DEF u
    <3>6. QED
      BY <3>4, <3>5 DEF TypeOK
  <2>2. CASE ~(o.errorPending /\ l.slot = store[l.provider].active)
    BY <1>2, <2>2 DEF ReportLease, TypeOK
  <2>3. QED
    BY <2>1, <2>2
<1>9. QED
  BY <1>6, <1>7, <1>8 DEF Report, TypeOK

LEMMA UpdateErrorTypeStep ==
    ASSUME TypeOK, NEW u \in updates, NEW b \in BOOLEAN, UpdateError(u, b)
    PROVE  TypeOK'
<1>1. u.provider \in Provider
  BY DEF TypeOK, Update
<1>2. UpdateErrorProvider(store[u.provider], u, b) \in ProviderScopes
  BY <1>1, UpdateErrorProviderType DEF TypeOK
<1>3. store' = [store EXCEPT ![u.provider] = UpdateErrorProvider(store[u.provider], u, b)]
  BY DEF UpdateError
<1>4. QED
  BY <1>1, <1>2, <1>3 DEF UpdateError, TypeOK

LEMMA TickTypeStep == TypeOK /\ Tick => TypeOK'
BY AgeProviderType DEF Tick, TypeOK

LEMMA NextType == TypeOK /\ [Next]_vars => TypeOK'
<1> SUFFICES ASSUME TypeOK, [Next]_vars PROVE TypeOK'
  OBVIOUS
<1>1. CASE UNCHANGED vars
  BY <1>1 DEF vars, TypeOK
<1>2. CASE Next
  BY <1>2, ReconcileTypeStep, AcquireTypeStep, ReportTypeStep, UpdateErrorTypeStep,
     TickTypeStep DEF Next
<1>3. QED
  BY <1>1, <1>2

(* The state always has the shape the Store struct declares: in particular *)
(* the backoff level never leaves the cooldown schedule, which             *)
(* Policy.Cooldown indexes, and the saturating failure counter never       *)
(* passes the largest int, for every policy that Validate accepts.         *)
THEOREM TypeCorrect == Spec => []TypeOK
<1>1. Init => TypeOK
  BY InitType
<1>2. TypeOK /\ [Next]_vars => TypeOK'
  BY NextType
<1>3. QED
  BY <1>1, <1>2, PTL DEF Spec

-----------------------------------------------------------------------------
(* Every step of the store is, for each provider, one of the operations on *)
(* its scopes.                                                             *)
LEMMA NextByProvider ==
    ASSUME TypeOK, [Next]_vars, NEW p \in Provider
    PROVE  ProviderStep(store[p], store'[p], {t \in Token : leases'[t] = NoLease})
<1> DEFINE freed == {t \in Token : leases'[t] = NoLease}
<1>1. store \in [Provider -> ProviderScopes]
  BY DEF TypeOK
<1>2. CASE Reconcile
  <2>1. PICK present \in SUBSET Provider : \E form \in [present -> Catalog] : ReconcileAll(form)
    BY <1>2 DEF Reconcile
  <2>2. PICK form \in [present -> Catalog] : ReconcileAll(form)
    BY <2>1
  <2>3. store'[p] = IF p \in present THEN ReconcileProvider(store[p], form[p]) ELSE Retire(store[p])
    BY <2>2 DEF ReconcileAll
  <2>4. p \in present => /\ form[p] \in CompiledProvider
                         /\ \/ ActiveMatches(store[p], form[p])
                            \/ FreeSlots(Retire(store[p])) # {}
    BY <2>2, CatalogAssumption DEF ReconcileAll
  <2>5. QED
    BY <2>3, <2>4 DEF ProviderStep
<1>3. ASSUME NEW q \in Provider, NEW c \in published[q], NEW m \in c.models,
             NEW r \in RequestType, Acquire(q, c, m, r)
      PROVE  ProviderStep(store[p], store'[p], freed)
  <2> DEFINE k == Key(c, m, r)
  <2>1. k \in HealthKey
    BY KeyType DEF TypeOK
  <2>2. HasSlot(store[q], k)
    BY <1>3 DEF Acquire
  <2>3. CASE Decision(store[q], k).available
    <3>1. PICK t \in FreeTokens : GrantLease(q, k, t)
      BY <1>3, <2>3 DEF Acquire
    <3>2. t \in Token /\ store' = [store EXCEPT ![q] = Grant(store[q], k, t)]
      BY <3>1 DEF GrantLease, FreeTokens
    <3> HIDE DEF k
    <3>3. store'[p] = IF p = q THEN Grant(store[p], k, t) ELSE store[p]
      BY <1>1, <3>2
    <3>4. QED
      BY <2>1, <2>2, <3>2, <3>3 DEF ProviderStep
  <2>4. CASE ~Decision(store[q], k).available
    <3>1. store' = [store EXCEPT ![q] = Inspect(store[q], k)]
      BY <1>3, <2>4 DEF Acquire
    <3> HIDE DEF k
    <3>2. store'[p] = IF p = q THEN Inspect(store[p], k) ELSE store[p]
      BY <1>1, <3>1
    <3>3. QED
      BY <2>1, <2>2, <3>2 DEF ProviderStep
  <2>5. QED
    BY <2>3, <2>4
<1>4. ASSUME NEW t \in Token, NEW o \in Outcomes, Report(t, o)
      PROVE  ProviderStep(store[p], store'[p], freed)
  <2> DEFINE l == leases[t]
  <2>1. l \in Lease /\ o \in Outcome
    BY <1>4, CatalogAssumption DEF Report, LiveTokens, TypeOK
  <2>2. PICK obs \in Observation \cup {NoObservation} : ReportLease(t, o, obs)
    BY <1>4 DEF Report
  <2>3. store' = [store EXCEPT ![l.provider] = ReportProvider(store[l.provider], l, t, o, obs)]
    BY <2>2 DEF ReportLease
  <2>4. t \in freed
    BY <2>2 DEF ReportLease, TypeOK
  <2> HIDE DEF l
  <2>5. store'[p] = IF p = l.provider THEN ReportProvider(store[p], l, t, o, obs) ELSE store[p]
    BY <1>1, <2>3
  <2>6. QED
    BY <2>1, <2>4, <2>5 DEF ProviderStep
<1>5. ASSUME NEW u \in updates, NEW b \in BOOLEAN, UpdateError(u, b)
      PROVE  ProviderStep(store[p], store'[p], freed)
  <2>1. u \in Update
    BY DEF TypeOK
  <2>2. store'[p] = IF p = u.provider THEN UpdateErrorProvider(store[p], u, b) ELSE store[p]
    BY <1>1, <1>5 DEF UpdateError
  <2>3. QED
    BY <2>1, <2>2 DEF ProviderStep
<1>6. CASE Tick
  BY <1>6 DEF Tick, ProviderStep
<1>7. CASE UNCHANGED vars
  BY <1>7 DEF vars, ProviderStep
<1>8. QED
  BY <1>2, <1>3, <1>4, <1>5, <1>6, <1>7 DEF Next

-----------------------------------------------------------------------------
(* The breakers' inductive invariant: every entry of every scope is sound. *)
BreakerInv == TypeOK /\ \A p \in Provider : SoundScopes(store[p])

LEMMA InitBreaker == Init => BreakerInv
<1> SUFFICES ASSUME Init PROVE BreakerInv
  OBVIOUS
<1>1. SoundScopes(NoScopes)
  BY FreshScopesSound DEF NoScopes, SoundScopes, AllSound, HasGlobal
<1>2. QED
  BY <1>1, InitType DEF Init, BreakerInv

LEMMA NextBreaker == BreakerInv /\ [Next]_vars => BreakerInv'
<1> SUFFICES ASSUME BreakerInv, [Next]_vars PROVE BreakerInv'
  OBVIOUS
<1>1. TypeOK'
  BY NextType DEF BreakerInv
<1>2. ASSUME NEW p \in Provider PROVE SoundScopes(store'[p])
  <2>1. ProviderStep(store[p], store'[p], {t \in Token : leases'[t] = NoLease})
    BY NextByProvider DEF BreakerInv
  <2>2. store[p] \in ProviderScopes /\ SoundScopes(store[p])
    BY DEF BreakerInv, TypeOK
  <2>3. QED
    BY <2>1, <2>2, ProviderStepSound
<1>3. QED
  BY <1>1, <1>2 DEF BreakerInv

(* Every breaker's state and counters agree, in every order of acquires,   *)
(* late reports, edits and passing time: a closed breaker is below the     *)
(* threshold and without backoff, an open one has a failure behind it, a   *)
(* cooldown only runs in state cooldown, and exactly the breakers of a     *)
(* scope with health disabled are disabled.                                *)
THEOREM BreakersConsistent == Spec => []BreakerConsistent
<1>1. Init => BreakerInv
  BY InitBreaker
<1>2. BreakerInv /\ [Next]_vars => BreakerInv'
  BY NextBreaker
<1>3. BreakerInv => BreakerConsistent
  BY DEF BreakerInv, SoundScopes, AllSound, ScopeSound, Sound, BreakerConsistent
<1>4. QED
  BY <1>1, <1>2, <1>3, PTL DEF Spec

-----------------------------------------------------------------------------
(* A running cooldown survives every step: only time runs it down and only *)
(* a success ends it, for every policy and every history.                  *)
THEOREM CooldownsAreKept == Spec => CooldownKept
<1>1. TypeOK /\ [Next]_vars =>
        \A p \in Provider : CooldownsKept(store[p], store'[p])
  <2> SUFFICES ASSUME TypeOK, [Next]_vars, NEW p \in Provider
               PROVE  CooldownsKept(store[p], store'[p])
    OBVIOUS
  <2>1. ProviderStep(store[p], store'[p], {t \in Token : leases'[t] = NoLease})
    BY NextByProvider
  <2>2. store[p] \in ProviderScopes
    BY DEF TypeOK
  <2>3. QED
    BY <2>1, <2>2, ProviderStepCool
<1>2. (\A p \in Provider : CooldownsKept(store[p], store'[p])) =>
        [\A p \in Provider, x \in EntryId : KeepsCooldown(p, x)]_vars
  BY ZenonT(40) DEF CooldownsKept, CoolKept, KeepsCooldown, ActiveEntry
<1>3. QED
  BY <1>1, <1>2, TypeCorrect, PTL DEF Spec, CooldownKept

(* Backoff rises one level at a time and only by the failure of the        *)
(* breaker's own probe, whose lease that report ends; otherwise it stays   *)
(* or falls back to zero.                                                  *)
THEOREM BackoffEscalates == Spec => BackoffEscalatesByProbe
<1>1. TypeOK /\ [Next]_vars =>
        [\A p \in Provider, s \in Slot, x \in EntryId : RaisesByProbe(p, s, x)]_vars
  <2> SUFFICES ASSUME TypeOK, [Next]_vars, NEW p \in Provider, NEW s \in Slot, NEW x \in EntryId
               PROVE  RaisesByProbe(p, s, x)
    OBVIOUS
  <2> DEFINE freed == {t \in Token : leases'[t] = NoLease}
  <2>1. ProviderStep(store[p], store'[p], freed)
    BY NextByProvider
  <2>2. store[p] \in ProviderScopes /\ freed \in SUBSET Token
    BY DEF TypeOK
  <2>3. BackoffsStep(store[p], store'[p], freed)
    <3> HIDE DEF freed
    <3>1. QED
      BY <2>1, <2>2, ProviderStepBackoff
  <2>4. QED
    BY <2>3, ConstantsAssumption, ZenonT(40) DEF BackoffsStep, BackoffStep, RaisesByProbe
<1>2. QED
  BY <1>1, TypeCorrect, PTL DEF Spec, BackoffEscalatesByProbe

(* The result of an attempt of a retired scope leaves the scope that       *)
(* replaced it exactly as it was.                                          *)
THEOREM LateResultsAreIsolated == Spec => LateResultsIsolated
<1>1. TypeOK /\ [Next]_vars => [\A t \in Token : SparesSuccessor(t)]_vars
  <2> SUFFICES ASSUME TypeOK, [Next]_vars, NEW t \in Token,
                      leases[t] # NoLease, leases'[t] = NoLease,
                      store[leases[t].provider].active \notin {NoSlot, leases[t].slot}
               PROVE  store'[leases[t].provider].scope[store[leases[t].provider].active]
                        = store[leases[t].provider].scope[store[leases[t].provider].active]
    BY DEF SparesSuccessor
  <2> DEFINE l == leases[t]
             ps == store[l.provider]
  <2>1. leases \in [Token -> Lease \cup {NoLease}] /\ store \in [Provider -> ProviderScopes]
    BY DEF TypeOK
  <2>2. l \in Lease /\ l.provider \in Provider /\ ps \in ProviderScopes /\ ps.active \in Slot
    BY <2>1 DEF Lease, ProviderScopes
  <2>3. PICK o \in Outcomes : Report(t, o)
    <3>1. ~UNCHANGED leases
      BY DEF vars
    <3>2. ASSUME NEW q \in Provider, NEW c \in published[q], NEW m \in c.models,
                 NEW r \in RequestType, Acquire(q, c, m, r)
          PROVE  FALSE
      <4>1. PICK u \in FreeTokens : GrantLease(q, Key(c, m, r), u)
        BY <3>1, <3>2 DEF Acquire
      <4>2. u # t
        BY DEF FreeTokens, LiveTokens
      <4>3. QED
        BY <2>1, <4>1, <4>2 DEF GrantLease
    <3>3. ASSUME NEW u \in Token, NEW o \in Outcomes, Report(u, o), u # t
          PROVE  FALSE
      <4>1. PICK obs \in Observation \cup {NoObservation} : ReportLease(u, o, obs)
        BY <3>3 DEF Report
      <4>2. QED
        BY <2>1, <3>3, <4>1 DEF ReportLease
    <3>4. QED
      BY <3>1, <3>2, <3>3 DEF Next, Reconcile, UpdateError, Tick, vars
  <2>4. PICK obs \in Observation \cup {NoObservation} : ReportLease(t, o, obs)
    BY <2>3 DEF Report
  <2>5. store' = [store EXCEPT ![l.provider] = ReportProvider(ps, l, t, o, obs)]
    BY <2>4 DEF ReportLease
  <2>6. o \in Outcome /\ ps.active # l.slot
    BY CatalogAssumption
  <2> HIDE DEF l, ps
  <2>7. store'[l.provider] = ReportProvider(ps, l, t, o, obs)
    BY <2>1, <2>2, <2>5
  <2>8. store'[l.provider].scope[ps.active] = ps.scope[ps.active]
    BY <2>2, <2>6, <2>7, ReportElsewhere
  <2>9. QED
    BY <2>8 DEF l, ps
<1>2. QED
  BY <1>1, TypeCorrect, PTL DEF Spec, LateResultsIsolated

-----------------------------------------------------------------------------
(* The inductive invariant of the diagnostics that wait for their body.    *)
PendingInv == TypeOK /\ PendingErrorHasReader

LEMMA InitPending == Init => PendingInv
BY InitType DEF Init, PendingInv, PendingErrorHasReader, NoScopes

LEMMA PendingByReader ==
    PendingErrorHasReader <=>
        \A p \in Provider : store[p].active # NoSlot =>
            \A x \in EntryId : HasReader(p, store[p], x, updates)
BY DEF PendingErrorHasReader, HasReader

LEMMA ReportPendingStep ==
    ASSUME PendingInv, NEW t \in Token, NEW o \in Outcomes, Report(t, o),
           NEW p \in Provider, store'[p].active # NoSlot, NEW x \in EntryId
    PROVE  HasReader(p, store'[p], x, updates')
<1> DEFINE l == leases[t]
           ps == store[p]
           sc == ps.scope[ps.active]
<1>1. l \in Lease /\ o \in Outcome /\ store \in [Provider -> ProviderScopes] /\ ps \in ProviderScopes
  BY CatalogAssumption DEF Report, LiveTokens, PendingInv, TypeOK
<1>2. PICK obs \in Observation \cup {NoObservation} : ReportLease(t, o, obs)
  BY DEF Report
<1> DEFINE new == ReportProvider(ps, l, t, o, obs)
           mine == [provider |-> p, generation |-> sc.generation,
                    epoch |-> sc.epoch, disableHealth |-> sc.disableHealth,
                    model |-> l.channel[1], requestType |-> l.channel[2],
                    observation |-> obs]
<1>3. store' = [store EXCEPT ![l.provider] = ReportProvider(store[l.provider], l, t, o, obs)]
  BY <1>2 DEF ReportLease
<1>4. store'[p] = IF p = l.provider THEN new ELSE ps
  <2> HIDE DEF l
  <2>1. QED
    BY <1>1, <1>3
<1>5. updates \subseteq updates'
  BY <1>2 DEF ReportLease
<1>6. ps.active # NoSlot => HasReader(p, ps, x, updates)
  BY PendingByReader DEF PendingInv
<1>7. CASE p # l.provider
  BY <1>4, <1>5, <1>6, <1>7 DEF HasReader
<1>8. CASE p = l.provider
  <2> DEFINE e == sc.entry[x]
             f == new.scope[ps.active].entry[x]
  <2>1. store'[p] = new /\ new.active = ps.active
    BY <1>1, <1>4, <1>8, ZenonT(40) DEF ReportProvider, PutBack, ProviderScopes
  <2>2. /\ SameKey(sc, new.scope[ps.active])
        /\ f.errorPending =>
                \/ e.errorPending /\ f.observation = e.observation
                \/ /\ l.slot = ps.active /\ x \in {Global, l.channel}
                   /\ o.errorPending /\ f.observation = obs
    BY <1>1, <2>1, ReportPending
  <2>3. ASSUME l.slot = ps.active, x \in {Global, l.channel}, o.errorPending, f.observation = obs
        PROVE  HasReader(p, new, x, updates')
    <3>1. mine \in updates'
      BY <1>2, <1>8, <2>3, Zenon DEF ReportLease
    <3>2. /\ mine.provider = p /\ mine.observation = obs /\ Matches(sc, mine)
          /\ KeyEntries(mine) = {Global, <<l.channel[1], l.channel[2]>>}
      BY DEF Matches, KeyEntries
    <3>3. l.channel = <<l.channel[1], l.channel[2]>>
      <4>1. l.channel \in Model \X RequestType
        BY <1>1 DEF Lease, Channel
      <4>2. QED
        BY <4>1
    <3> HIDE DEF mine, new, l, sc
    <3>4. ActiveMatches(new, mine)
      BY <2>1, <2>2, <3>2 DEF ActiveMatches, Matches, SameKey
    <3>5. x \in KeyEntries(mine)
      BY <2>3, <3>2, <3>3
    <3>6. QED
      BY <2>1, <2>3, <3>1, <3>2, <3>4, <3>5 DEF HasReader
  <2>4. ASSUME e.errorPending, f.observation = e.observation
        PROVE  HasReader(p, new, x, updates')
    <3> HIDE DEF new
    <3>1. PICK u \in updates : u.provider = p /\ u.observation = e.observation
                               /\ ActiveMatches(ps, u) /\ x \in KeyEntries(u)
      BY <1>6, <2>1, <2>4, Zenon DEF HasReader
    <3>2. ActiveMatches(new, u)
      BY <2>1, <2>2, <3>1 DEF ActiveMatches, Matches, SameKey
    <3>3. QED
      BY <1>5, <2>1, <2>4, <3>1, <3>2, Zenon DEF HasReader
  <2> HIDE DEF new
  <2>5. ~f.errorPending => HasReader(p, new, x, updates')
    BY <2>1 DEF HasReader
  <2> HIDE DEF f, e
  <2>6. QED
    BY <2>1, <2>2, <2>3, <2>4, <2>5
<1>9. QED
  BY <1>7, <1>8

LEMMA UpdateErrorPendingStep ==
    ASSUME PendingInv, NEW u \in updates, NEW b \in BOOLEAN, UpdateError(u, b),
           NEW p \in Provider, store'[p].active # NoSlot, NEW x \in EntryId
    PROVE  HasReader(p, store'[p], x, updates')
<1> DEFINE ps == store[p]
           new == UpdateErrorProvider(ps, u, b)
           e == ps.scope[ps.active].entry[x]
           f == store'[p].scope[ps.active].entry[x]
<1>1. store \in [Provider -> ProviderScopes] /\ ps \in ProviderScopes
  BY DEF PendingInv, TypeOK
<1>2. store'[p] = (IF p = u.provider THEN new ELSE ps) /\ updates' = updates \ {u}
  BY <1>1 DEF UpdateError
<1>3. store'[p].active = ps.active
  BY <1>1, <1>2, Zenon DEF UpdateErrorProvider, ProviderScopes
<1>4. ps.active \in Slot
  BY <1>1, <1>3 DEF ProviderScopes
<1>5. /\ SameKey(ps.scope[ps.active], store'[p].scope[ps.active])
      /\ f.errorPending => /\ e.errorPending /\ f.observation = e.observation
                           /\ ~(/\ p = u.provider /\ ActiveMatches(ps, u)
                                /\ x \in KeyEntries(u) /\ e.observation = u.observation)
  <2>1. CASE p = u.provider
    <3> DEFINE g == new.scope[ps.active].entry[x]
    <3>1. /\ SameKey(ps.scope[ps.active], new.scope[ps.active])
          /\ g.errorPending => /\ e.errorPending /\ g.observation = e.observation
                               /\ ~(/\ ps.active = ps.active /\ ActiveMatches(ps, u)
                                    /\ x \in KeyEntries(u) /\ e.observation = u.observation)
      BY <1>1, <1>4, UpdateErrorEntry
    <3>2. store'[p] = new
      BY <1>2, <2>1
    <3> HIDE DEF new
    <3>3. QED
      BY <3>1, <3>2
  <2>2. CASE p # u.provider
    BY <1>2, <2>2 DEF SameKey
  <2>3. QED
    BY <2>1, <2>2, Zenon
<1>6. SUFFICES ASSUME f.errorPending PROVE HasReader(p, store'[p], x, updates')
  BY <1>3 DEF HasReader
<1>7. HasReader(p, ps, x, updates)
  BY <1>3, PendingByReader DEF PendingInv
<1> HIDE DEF new
<1>8. PICK v \in updates : v.provider = p /\ v.observation = e.observation
                           /\ ActiveMatches(ps, v) /\ x \in KeyEntries(v)
  BY <1>5, <1>6, <1>7, ZenonT(40) DEF HasReader
<1>9. v # u
  BY <1>5, <1>6, <1>8
<1>10. ActiveMatches(store'[p], v)
  BY <1>3, <1>5, <1>8 DEF ActiveMatches, Matches, SameKey
<1>11. QED
  BY <1>2, <1>3, <1>5, <1>6, <1>8, <1>9, <1>10, ZenonT(40) DEF HasReader

LEMMA NextPending == PendingInv /\ [Next]_vars => PendingInv'
<1> SUFFICES ASSUME PendingInv, [Next]_vars PROVE PendingInv'
  OBVIOUS
<1>1. TypeOK /\ TypeOK'
  BY NextType DEF PendingInv
<1>2. SUFFICES ASSUME NEW p \in Provider, store'[p].active # NoSlot, NEW x \in EntryId
               PROVE  HasReader(p, store'[p], x, updates')
  BY <1>1 DEF PendingInv, PendingErrorHasReader, HasReader
<1>3. ASSUME PendingKept(store[p], store'[p]), UNCHANGED updates
      PROVE  HasReader(p, store'[p], x, updates')
  <2>1. store[p].active # NoSlot => HasReader(p, store[p], x, updates)
    BY PendingByReader DEF PendingInv
  <2>2. QED
    BY <1>2, <1>3, <2>1, PendingKeptReader
<1>4. store \in [Provider -> ProviderScopes] /\ store[p] \in ProviderScopes
  BY <1>1 DEF TypeOK
<1>5. PendingKept(store[p], store[p])
  BY DEF PendingKept, SameKey
<1>6. CASE Reconcile
  <2>1. PICK present \in SUBSET Provider : \E form \in [present -> Catalog] : ReconcileAll(form)
    BY <1>6 DEF Reconcile
  <2>2. PICK form \in [present -> Catalog] : ReconcileAll(form)
    BY <2>1
  <2>3. store'[p] = IF p \in present THEN ReconcileProvider(store[p], form[p]) ELSE Retire(store[p])
    BY <2>2 DEF ReconcileAll
  <2>4. p \in present
    BY <1>2, <1>4, <2>3, RetireShape
  <2>5. /\ form[p] \in CompiledProvider
        /\ ActiveMatches(store[p], form[p]) \/ FreeSlots(Retire(store[p])) # {}
    BY <2>2, <2>4, CatalogAssumption DEF ReconcileAll
  <2>6. PendingKept(store[p], store'[p])
    BY <1>4, <2>3, <2>4, <2>5, ReconcilePending
  <2>7. QED
    BY <1>3, <1>6, <2>6 DEF Reconcile
<1>7. ASSUME NEW q \in Provider, NEW c \in published[q], NEW m \in c.models,
             NEW r \in RequestType, Acquire(q, c, m, r)
      PROVE  HasReader(p, store'[p], x, updates')
  <2> DEFINE k == Key(c, m, r)
  <2>1. k \in HealthKey /\ HasSlot(store[q], k)
    BY <1>1, <1>7, KeyType DEF TypeOK, Acquire
  <2>2. \E new : /\ store' = [store EXCEPT ![q] = new]
                 /\ new = Inspect(store[q], k) \/ \E t \in Token : new = Grant(store[q], k, t)
    BY <1>7 DEF Acquire, GrantLease, FreeTokens
  <2> HIDE DEF k
  <2>3. PendingKept(store[p], store'[p])
    <3>1. CASE p = q
      <4>1. store'[p] = Inspect(store[p], k) \/ \E t \in Token : store'[p] = Grant(store[p], k, t)
        BY <1>4, <2>2, <3>1
      <4>2. QED
        BY <1>4, <2>1, <3>1, <4>1, AcquirePending
    <3>2. CASE p # q
      BY <1>4, <1>5, <2>2, <3>2
    <3>3. QED
      BY <3>1, <3>2
  <2>4. QED
    BY <1>3, <1>7, <2>3 DEF Acquire
<1>8. CASE Tick
  <2>1. store'[p] = AgeProvider(store[p]) /\ UNCHANGED updates
    BY <1>8 DEF Tick
  <2>2. PendingKept(store[p], AgeProvider(store[p]))
    <3>1. \A e \in Entry : Age(e).errorPending = e.errorPending /\ Age(e).observation = e.observation
      BY DEF Age, Entry
    <3>2. AgeProvider(store[p]).active = store[p].active
      BY <1>4, AgeProviderShape
    <3>3. store[p].active # NoSlot => store[p].active \in Slot
      BY <1>4 DEF ProviderScopes
    <3>4. ASSUME NEW s \in Slot, NEW y \in EntryId
          PROVE  /\ SameKey(store[p].scope[s], AgeProvider(store[p]).scope[s])
                 /\ AgeProvider(store[p]).scope[s].entry[y].errorPending
                        = store[p].scope[s].entry[y].errorPending
                 /\ AgeProvider(store[p]).scope[s].entry[y].observation
                        = store[p].scope[s].entry[y].observation
      <4>1. store[p].scope[s].entry[y] \in Entry
        BY <1>4 DEF ProviderScopes, Scope
      <4>2. AgeProvider(store[p]).scope[s].entry[y] = Age(store[p].scope[s].entry[y])
            /\ SameKey(store[p].scope[s], AgeProvider(store[p]).scope[s])
        BY <1>4, AgeProviderShape
      <4>3. QED
        BY <3>1, <4>1, <4>2
    <3>5. QED
      BY <3>2, <3>3, <3>4, ZenonT(40) DEF PendingKept
  <2>3. QED
    BY <1>3, <2>1, <2>2
<1>9. CASE UNCHANGED vars
  BY <1>3, <1>5, <1>9 DEF vars
<1>10. QED
  BY <1>2, <1>6, <1>7, <1>8, <1>9, ReportPendingStep, UpdateErrorPendingStep DEF Next

(* Whatever edits, retirements and later observations come in between, an  *)
(* active entry whose error body is still being read has the UpdateError   *)
(* that will settle it on its way.                                         *)
THEOREM PendingErrorsHaveReaders == Spec => []PendingErrorHasReader
<1>1. Init => PendingInv
  BY InitPending
<1>2. PendingInv /\ [Next]_vars => PendingInv'
  BY NextPending
<1>3. PendingInv => PendingErrorHasReader
  BY DEF PendingInv
<1>4. QED
  BY <1>1, <1>2, <1>3, PTL DEF Spec

-----------------------------------------------------------------------------
(* The leases' inductive invariant.  The two halves need each other: a     *)
(* slot is reused because its counter is zero, which is safe because the   *)
(* counter is exact; and the counter of a reused slot starts at zero,      *)
(* which is exact because a free slot has no leases.                       *)
LeaseInv ==
    /\ TypeOK
    /\ \A p \in Provider : Filed(store[p]) /\ Accounted(store[p], leases, p)

(* It says what LeaseAccounting says: the two differ only in whether a     *)
(* retired scope's leases are counted or looked up.                        *)
LEMMA LeaseInvAccounting == LeaseInv => LeaseAccounting
<1> SUFFICES ASSUME LeaseInv PROVE LeaseAccounting
  OBVIOUS
<1>1. \A p, s : ScopeLeases(p, s) = Out(leases, p, s)
  BY DEF ScopeLeases, LiveTokens, Out
<1>2. \A p, s, x : ChannelLeases(p, s, x) = OnChannel(leases, Out(leases, p, s), x)
  BY <1>1 DEF ChannelLeases, OnChannel
<1>3. CountsExact
  BY <1>1, <1>2 DEF LeaseInv, Accounted, Counted, CountsExact
<1>4. ASSUME NEW p \in Provider, NEW i \in DOMAIN store[p].retired
      PROVE  ScopeLeases(p, store[p].retired[i]) # {}
  <2> DEFINE s == store[p].retired[i]
  <2>1. s \in Slot
    <3>1. store[p].retired \in Seq(Slot)
      BY DEF LeaseInv, TypeOK, ProviderScopes
    <3>2. QED
      BY <3>1
  <2>2. store[p].scope[s].activeLeases # 0
    BY DEF LeaseInv, Filed
  <2>3. store[p].scope[s].activeLeases = Cardinality(ScopeLeases(p, s))
    BY <1>3, <2>1 DEF CountsExact
  <2>4. QED
    BY <2>2, <2>3, FS_EmptySet
<1>5. RetiredScopesAreLeased
  BY <1>4 DEF LeaseInv, Filed, RetiredScopesAreLeased
<1>6. QED
  BY <1>3, <1>5 DEF LeaseAccounting

LEMMA InitLease == Init => LeaseInv
<1> SUFFICES ASSUME Init PROVE LeaseInv
  OBVIOUS
<1>1. TypeOK
  BY InitType
<1>2. SUFFICES ASSUME NEW p \in Provider
               PROVE  Filed(NoScopes) /\ Accounted(NoScopes, leases, p)
  BY <1>1 DEF LeaseInv, Init
<1>3. Filed(NoScopes)
  BY DEF Filed, NoScopes, FreeSlots
<1>4. \A s : Out(leases, p, s) = {}
  BY DEF Init, Out
<1>5. Accounted(NoScopes, leases, p)
  BY <1>4, FreshCounted DEF Accounted, NoScopes
<1>6. QED
  BY <1>3, <1>5

LEMMA NextLease == LeaseInv /\ [Next]_vars => LeaseInv'
<1> SUFFICES ASSUME LeaseInv, [Next]_vars PROVE LeaseInv'
  OBVIOUS
<1>1. TypeOK /\ TypeOK'
  BY NextType DEF LeaseInv
<1>2. SUFFICES ASSUME NEW p \in Provider
               PROVE  Filed(store'[p]) /\ Accounted(store'[p], leases', p)
  BY <1>1 DEF LeaseInv
<1>3. /\ store \in [Provider -> ProviderScopes] /\ store[p] \in ProviderScopes
      /\ leases \in [Token -> Lease \cup {NoLease}]
      /\ Filed(store[p]) /\ Accounted(store[p], leases, p)
  BY <1>1 DEF TypeOK, LeaseInv
<1>4. CASE Reconcile
  <2>1. PICK present \in SUBSET Provider : \E form \in [present -> Catalog] : ReconcileAll(form)
    BY <1>4 DEF Reconcile
  <2>2. PICK form \in [present -> Catalog] : ReconcileAll(form)
    BY <2>1
  <2>3. store'[p] = IF p \in present THEN ReconcileProvider(store[p], form[p]) ELSE Retire(store[p])
    BY <2>2 DEF ReconcileAll
  <2>4. p \in present => /\ form[p] \in CompiledProvider
                         /\ \/ ActiveMatches(store[p], form[p])
                            \/ FreeSlots(Retire(store[p])) # {}
    BY <2>2, CatalogAssumption DEF ReconcileAll
  <2>5. leases' = leases
    BY <1>4 DEF Reconcile
  <2>6. Filed(store'[p]) /\ Accounted(store'[p], leases, p)
    BY <1>3, <2>3, <2>4, RetireFiled, RetireAccounted, ReconcileFiled, ReconcileAccounted
  <2>7. QED
    BY <2>5, <2>6
<1>5. ASSUME NEW q \in Provider, NEW c \in published[q], NEW m \in c.models,
             NEW r \in RequestType, Acquire(q, c, m, r)
      PROVE  Filed(store'[p]) /\ Accounted(store'[p], leases', p)
  <2> DEFINE k == Key(c, m, r)
  <2>1. k \in HealthKey /\ HasSlot(store[q], k)
    BY <1>1, <1>5, KeyType DEF TypeOK, Acquire
  <2>2. CASE Decision(store[q], k).available
    <3>1. PICK t \in FreeTokens : GrantLease(q, k, t)
      BY <1>5, <2>2 DEF Acquire
    <3> DEFINE l == [provider |-> q, slot |-> SlotForAcquire(store[q], k),
                     channel |-> <<k.model, k.requestType>>, probes |-> ProbesFor(store[q], k)]
    <3>2. /\ t \in Token /\ leases[t] = NoLease
          /\ store' = [store EXCEPT ![q] = Grant(store[q], k, t)]
          /\ leases' = [leases EXCEPT ![t] = l]
      BY <3>1 DEF GrantLease, FreeTokens, LiveTokens
    <3>3. l.provider = q /\ l.slot = SlotForAcquire(store[q], k) /\ l.channel = <<k.model, k.requestType>>
      OBVIOUS
    <3>4. leases'[t] = l /\ l \in Lease
      <4>1. leases'[t] = l
        BY <1>3, <3>2
      <4>2. leases'[t] \in Lease \cup {NoLease}
        BY <1>1, <3>2 DEF TypeOK
      <4>3. l # NoLease
        BY <3>3, ConstantsAssumption, Zenon DEF NoLease
      <4>4. QED
        BY <4>1, <4>2, <4>3
    <3> HIDE DEF k, l
    <3>5. CASE p = q
      <4>1. store'[p] = Grant(store[p], k, t)
        BY <1>3, <3>2, <3>5
      <4>2. Filed(store'[p])
        BY <1>3, <2>1, <3>2, <3>5, <4>1, GrantFiled
      <4>3. Accounted(Grant(store[p], k, t), [leases EXCEPT ![t] = l], p)
        BY <1>3, <2>1, <3>2, <3>3, <3>4, <3>5, GrantAccounted
      <4>4. QED
        BY <3>2, <4>1, <4>2, <4>3
    <3>6. CASE p # q
      <4>1. store'[p] = store[p]
        BY <1>3, <3>2, <3>6
      <4>2. ASSUME NEW s \in Slot PROVE Counted(store[p].scope[s], leases', Out(leases', p, s))
        <5>1. \A u \in Token : leases'[u] = IF u = t THEN l ELSE leases[u]
          BY <1>3, <3>2
        <5>2. /\ Out(leases', p, s) = Out(leases, p, s)
              /\ \A u \in Out(leases, p, s) : leases'[u] = leases[u]
          BY <3>2, <3>3, <3>6, <5>1 DEF Out
        <5>3. Counted(store[p].scope[s], leases, Out(leases, p, s))
          BY <1>3 DEF Accounted
        <5>4. QED
          BY <5>2, <5>3, CountedFrame, OutFinite
      <4>3. QED
        BY <1>3, <4>1, <4>2 DEF Accounted
    <3>7. QED
      BY <3>5, <3>6
  <2>3. CASE ~Decision(store[q], k).available
    <3>1. store' = [store EXCEPT ![q] = Inspect(store[q], k)] /\ leases' = leases
      BY <1>5, <2>3 DEF Acquire
    <3> HIDE DEF k
    <3>2. store'[p] = IF p = q THEN Inspect(store[p], k) ELSE store[p]
      BY <1>3, <3>1
    <3>3. p = q => Filed(store'[p]) /\ Accounted(store'[p], leases, p)
      BY <1>3, <2>1, <2>3, <3>2, InspectFiled, InspectAccounted
    <3>4. QED
      BY <1>3, <3>1, <3>2, <3>3
  <2>4. QED
    BY <2>2, <2>3
<1>6. ASSUME NEW t \in Token, NEW o \in Outcomes, Report(t, o)
      PROVE  Filed(store'[p]) /\ Accounted(store'[p], leases', p)
  <2> DEFINE l == leases[t]
  <2>1. l \in Lease /\ o \in Outcome /\ leases[t] # NoLease
    BY <1>3, <1>6, CatalogAssumption DEF Report, LiveTokens
  <2>2. PICK obs \in Observation \cup {NoObservation} : ReportLease(t, o, obs)
    BY <1>6 DEF Report
  <2>3. /\ store' = [store EXCEPT ![l.provider] = ReportProvider(store[l.provider], l, t, o, obs)]
        /\ leases' = [leases EXCEPT ![t] = NoLease]
    BY <2>2 DEF ReportLease
  <2> HIDE DEF l
  <2>4. store'[p] = IF p = l.provider THEN ReportProvider(store[p], l, t, o, obs) ELSE store[p]
    BY <1>3, <2>3
  <2>5. CASE p = l.provider
    <3>1. l.slot \notin FreeSlots(store[p])
      <4>1. t \in Out(leases, p, l.slot)
        BY <2>1, <2>5 DEF Out, l
      <4>2. QED
        BY <1>3, <4>1, FreeSlotUnused
    <3>2. Filed(store'[p])
      BY <1>3, <2>1, <2>4, <2>5, <3>1, ReportFiled
    <3>3. Accounted(ReportProvider(store[p], l, t, o, obs), [leases EXCEPT ![t] = NoLease], p)
      <4>1. leases[t] = l
        BY DEF l
      <4>2. QED
        BY <1>3, <2>1, <2>5, <4>1, ReportAccounted
    <3>4. QED
      BY <2>3, <2>4, <2>5, <3>2, <3>3
  <2>6. CASE p # l.provider
    <3>1. ASSUME NEW s \in Slot PROVE Counted(store[p].scope[s], leases', Out(leases', p, s))
      <4>1. \A u \in Token : leases'[u] = IF u = t THEN NoLease ELSE leases[u]
        BY <1>3, <2>3
      <4>2. t \notin Out(leases, p, s)
        BY <2>6 DEF Out, l
      <4>3. /\ Out(leases', p, s) = Out(leases, p, s)
            /\ \A u \in Out(leases, p, s) : leases'[u] = leases[u]
        BY <4>1, <4>2 DEF Out
      <4>4. Counted(store[p].scope[s], leases, Out(leases, p, s))
        BY <1>3 DEF Accounted
      <4>5. QED
        BY <4>3, <4>4, CountedFrame, OutFinite
    <3>2. QED
      BY <1>3, <2>4, <2>6, <3>1 DEF Accounted
  <2>7. QED
    BY <2>5, <2>6
<1>7. ASSUME NEW u \in updates, NEW b \in BOOLEAN, UpdateError(u, b)
      PROVE  Filed(store'[p]) /\ Accounted(store'[p], leases', p)
  <2>1. store'[p] = IF p = u.provider THEN UpdateErrorProvider(store[p], u, b) ELSE store[p]
    BY <1>3, <1>7 DEF UpdateError
  <2>2. leases' = leases
    BY <1>7 DEF UpdateError
  <2>3. Filed(store'[p]) /\ Accounted(store'[p], leases, p)
    BY <1>3, <2>1, UpdateErrorFiled, UpdateErrorAccounted
  <2>4. QED
    BY <2>2, <2>3
<1>8. CASE Tick
  <2>1. store'[p] = AgeProvider(store[p]) /\ leases' = leases
    BY <1>8 DEF Tick
  <2>2. QED
    BY <1>3, <2>1, AgeFiled, AgeAccounted
<1>9. CASE UNCHANGED vars
  BY <1>3, <1>9 DEF vars
<1>10. QED
  BY <1>4, <1>5, <1>6, <1>7, <1>8, <1>9 DEF Next

(* Whatever the order of model edits, retirements and late reports, every  *)
(* lease counter of a scope and of its channels is exact, a lease in       *)
(* flight keeps its channel entry, and Store.retired keeps a scope exactly *)
(* as long as one of its leases is in flight.                              *)
THEOREM LeasesAccounted == Spec => []LeaseAccounting
<1>1. Init => LeaseInv
  BY InitLease
<1>2. LeaseInv /\ [Next]_vars => LeaseInv'
  BY NextLease
<1>3. LeaseInv => LeaseAccounting
  BY LeaseInvAccounting
<1>4. QED
  BY <1>1, <1>2, <1>3, PTL DEF Spec

=============================================================================
