----------------------------- MODULE ScopeProofs ----------------------------
(***************************************************************************)
(* Lemmas about the operators of HealthScopes, for every set of providers, *)
(* models and tokens and every valid policy: the shapes they keep, what    *)
(* each of them changes, and which facts about one provider's scopes       *)
(* survive it.  They speak of no state, so the proofs about HealthStore    *)
(* and about Scheduler both rest on them.                                  *)
(***************************************************************************)
EXTENDS HealthScopes, FiniteSetTheorems, TLAPS

-----------------------------------------------------------------------------
(* Type correctness, one lemma per operator.                               *)

(* The facts about the policy that the proofs use.                         *)
LEMMA PolicyFacts ==
    /\ NeverFailed \in Nat /\ NeverFailed > 0
    /\ FailureThreshold \in Nat /\ FailureThreshold > 0
    /\ MaxInt \in Nat /\ MaxInt >= FailureThreshold
    /\ Len(Cooldowns) \in Nat /\ Len(Cooldowns) > 0
<1>1. Len(Cooldowns) \in Nat /\ Len(Cooldowns) > 0
  BY PolicyAssumption
<1>2. QED
  BY <1>1, PolicyAssumption DEF NeverFailed

(* The breaker operations of store.go return well-formed entries.          *)
LEMMA NewEntryType ==
    ASSUME NEW st \in MachineState
    PROVE  NewEntry(st) \in Entry
BY PolicyFacts DEF NewEntry, Entry

LEMMA InitialStateType ==
    ASSUME NEW d \in BOOLEAN
    PROVE  InitialState(d) \in MachineState
BY DEF InitialState, MachineState

LEMMA FreshEntryType ==
    /\ AbsentEntry \in Entry
    /\ \A d \in BOOLEAN : NewEntry(InitialState(d)) \in Entry
BY NewEntryType, InitialStateType DEF AbsentEntry, MachineState

LEMMA InheritStateType ==
    ASSUME NEW e \in Entry, NEW f \in Entry, NEW b \in BOOLEAN
    PROVE  InheritState(e, f, b) \in Entry
BY DEF InheritState, Entry

LEMMA AdvanceCooldownType ==
    ASSUME NEW e \in Entry
    PROVE  AdvanceCooldown(e) \in Entry
BY DEF AdvanceCooldown, Entry, MachineState

LEMMA ObserveLatestType ==
    ASSUME NEW e \in Entry, NEW o \in Outcome, NEW obs \in Observation \cup {NoObservation}
    PROVE  ObserveLatest(e, o, obs) \in Entry
BY DEF ObserveLatest, Entry, Outcome

LEMMA ReleaseProbeType ==
    ASSUME NEW e \in Entry, NEW t \in Token
    PROVE  ReleaseProbe(e, t) \in Entry
BY DEF ReleaseProbe, Entry

LEMMA ApplySuccessType ==
    ASSUME NEW e \in Entry
    PROVE  ApplySuccess(e) \in Entry
<1>1. 0 \in 0..(Len(Cooldowns) - 1) /\ 0 \in 0..MaxInt /\ NeverFailed \in 0..NeverFailed
  BY PolicyFacts
<1>2. QED
  BY <1>1 DEF ApplySuccess, Entry, MachineState

LEMMA RecordConsecutiveFailureType ==
    ASSUME NEW e \in Entry
    PROVE  RecordConsecutiveFailure(e) \in Entry
<1> DEFINE n == IF e.sinceFailure > FailureWindow THEN 1
                ELSE IF e.consecutiveFailures < MaxInt THEN e.consecutiveFailures + 1
                ELSE e.consecutiveFailures
<1>1. e.consecutiveFailures \in 0..MaxInt
  BY DEF Entry
<1>2. n \in 0..MaxInt /\ 0 \in 0..NeverFailed
  BY <1>1, PolicyFacts
<1>3. RecordConsecutiveFailure(e) = [e EXCEPT !.sinceFailure = 0, !.consecutiveFailures = n]
  BY DEF RecordConsecutiveFailure
<1> HIDE DEF n
<1>4. QED
  BY <1>2, <1>3 DEF Entry

LEMMA EffectiveCooldownType ==
    ASSUME NEW level \in 0..(Len(Cooldowns) - 1), NEW r \in Nat \cup {NoRetryAfter}
    PROVE  EffectiveCooldown(level, r) \in Nat \ {0}
<1>1. Len(Cooldowns) \in Nat /\ Len(Cooldowns) > 0
  BY PolicyAssumption
<1>2. Cooldown(level) \in Nat \ {0}
  BY <1>1, PolicyAssumption DEF Cooldown
<1>3. QED
  BY <1>2, PolicyAssumption DEF EffectiveCooldown, NoRetryAfter

LEMMA EnterCooldownType ==
    ASSUME NEW e \in Entry, NEW o \in Outcome
    PROVE  EnterCooldown(e, o) \in Entry
<1>1. EffectiveCooldown(e.backoffLevel, o.retryAfter) \in Nat
  BY EffectiveCooldownType DEF Entry, Outcome
<1>2. QED
  BY <1>1 DEF EnterCooldown, Entry, MachineState

LEMMA ApplyFailureType ==
    ASSUME NEW e \in Entry, NEW t \in Token, NEW o \in Outcome, NEW b \in BOOLEAN
    PROVE  ApplyFailure(e, t, o, b) \in Entry
<1> DEFINE r == RecordConsecutiveFailure(e)
           level == RaiseBackoff(r.backoffLevel)
           up == [r EXCEPT !.backoffLevel = RaiseBackoff(@)]
<1>1. r \in Entry
  BY RecordConsecutiveFailureType
<1>2. up \in Entry
  <2>1. r.backoffLevel \in 0..(Len(Cooldowns) - 1)
    BY <1>1 DEF Entry
  <2>2. level \in 0..(Len(Cooldowns) - 1)
    BY <2>1, PolicyFacts DEF RaiseBackoff
  <2>3. up = [r EXCEPT !.backoffLevel = level]
    OBVIOUS
  <2> HIDE DEF r, level
  <2>4. QED
    BY <1>1, <2>2, <2>3 DEF Entry
<1>3. EnterCooldown(up, o) \in Entry /\ EnterCooldown(r, o) \in Entry
  BY <1>1, <1>2, EnterCooldownType
<1>4. [r EXCEPT !.state = "degraded"] \in Entry
  BY <1>1 DEF Entry, MachineState
<1>5. QED
  BY <1>3, <1>4 DEF ApplyFailure

LEMMA AgeType ==
    ASSUME NEW e \in Entry
    PROVE  Age(e) \in Entry
<1> DEFINE c == IF e.cooldownLeft > 0 THEN e.cooldownLeft - 1 ELSE 0
           n == IF e.sinceFailure < NeverFailed THEN e.sinceFailure + 1 ELSE e.sinceFailure
<1>1. e.cooldownLeft \in Nat /\ e.sinceFailure \in 0..NeverFailed
  BY DEF Entry
<1>2. c \in Nat /\ n \in 0..NeverFailed
  BY <1>1, PolicyFacts
<1>3. Age(e) = [e EXCEPT !.cooldownLeft = c, !.sinceFailure = n]
  BY DEF Age
<1> HIDE DEF c, n
<1>4. QED
  BY <1>2, <1>3 DEF Entry

LEMMA ReportEntryType ==
    ASSUME NEW e \in Entry, NEW x \in EntryId, NEW t \in Token, NEW o \in Outcome,
           NEW obs \in Observation \cup {NoObservation}
    PROVE  ReportEntry(e, x, t, o, obs) \in Entry
<1>1. ObserveLatest(e, o, obs) \in Entry
  BY ObserveLatestType
<1>2. IsImmediate(o) \in BOOLEAN
  BY DEF IsImmediate
<1>3. QED
  BY <1>1, <1>2, ApplySuccessType, ApplyFailureType, ReleaseProbeType DEF ReportEntry

-----------------------------------------------------------------------------
(* The scope operations of store.go return well-formed scopes.             *)
LEMMA FreeScopeType == FreeScope \in Scope
BY FreshEntryType DEF FreeScope, Scope

LEMMA NewScopeType ==
    ASSUME NEW c \in CompiledProvider
    PROVE  NewScope(c) \in Scope
<1>1. c.disableHealth \in BOOLEAN
  BY DEF CompiledProvider
<1>2. NewScope(c).entry \in [EntryId -> Entry]
  BY <1>1, FreshEntryType DEF NewScope
<1>3. QED
  BY <1>2 DEF NewScope, Scope, CompiledProvider

LEMMA NewRetiredScopeType ==
    ASSUME NEW k \in HealthKey
    PROVE  NewRetiredScope(k) \in Scope
<1>1. k.disableHealth \in BOOLEAN
  BY DEF HealthKey
<1>2. NewRetiredScope(k).entry \in [EntryId -> Entry]
  BY <1>1, FreshEntryType DEF NewRetiredScope
<1>3. QED
  BY <1>2 DEF NewRetiredScope, Scope, HealthKey

(* Replacing the entries, models or lease count keeps a scope well formed. *)
LEMMA ScopeUpdateType ==
    ASSUME NEW sc \in Scope, NEW f \in [EntryId -> Entry]
    PROVE  [sc EXCEPT !.entry = f] \in Scope
BY DEF Scope

LEMMA ScopeLeaseUpdateType ==
    ASSUME NEW sc \in Scope, NEW n \in Nat, NEW f \in [EntryId -> Entry]
    PROVE  [sc EXCEPT !.activeLeases = n, !.entry = f] \in Scope
BY DEF Scope

LEMMA ScopeModelUpdateType ==
    ASSUME NEW sc \in Scope, NEW m \in SUBSET Model, NEW f \in [EntryId -> Entry]
    PROVE  [sc EXCEPT !.models = m, !.entry = f] \in Scope
BY DEF Scope

LEMMA InheritScopeStateType ==
    ASSUME NEW sc \in Scope, NEW src \in Scope
    PROVE  InheritScopeState(sc, src) \in Scope
<1> DEFINE Base(x) == IF Exists(sc.entry[x]) THEN sc.entry[x]
                      ELSE NewEntry(InitialState(sc.disableHealth))
           f == [x \in EntryId |->
                    IF x = Global \/ (Exists(src.entry[x]) /\ x \in sc.models \X RequestType)
                    THEN InheritState(Base(x), src.entry[x], sc.disableHealth = src.disableHealth)
                    ELSE sc.entry[x]]
<1>1. sc.disableHealth \in BOOLEAN /\ sc.entry \in [EntryId -> Entry] /\ src.entry \in [EntryId -> Entry]
  BY DEF Scope
<1>2. ASSUME NEW x \in EntryId PROVE f[x] \in Entry
  <2>1. Base(x) \in Entry
    BY <1>1, FreshEntryType
  <2> HIDE DEF Base
  <2>2. InheritState(Base(x), src.entry[x], sc.disableHealth = src.disableHealth) \in Entry
    BY <1>1, <2>1, InheritStateType
  <2>3. QED
    BY <1>1, <2>2
<1>3. f \in [EntryId -> Entry]
  BY <1>2
<1>4. InheritScopeState(sc, src) = [sc EXCEPT !.entry = f]
  BY DEF InheritScopeState
<1> HIDE DEF f
<1>5. QED
  BY <1>3, <1>4, ScopeUpdateType

LEMMA ReconcileModelsType ==
    ASSUME NEW sc \in Scope, NEW models \in SUBSET Model
    PROVE  ReconcileModels(sc, models) \in Scope
<1> DEFINE f == ReconcileModels(sc, models).entry
<1>1. sc.disableHealth \in BOOLEAN /\ sc.entry \in [EntryId -> Entry]
  BY DEF Scope
<1>2. f \in [EntryId -> Entry]
  BY <1>1, FreshEntryType DEF ReconcileModels, Scope
<1>3. ReconcileModels(sc, models) = [sc EXCEPT !.models = models, !.entry = f]
  BY DEF ReconcileModels, Scope
<1> HIDE DEF f
<1>4. [sc EXCEPT !.models = models, !.entry = f] \in Scope
  BY <1>2, ScopeModelUpdateType, Zenon
<1>5. QED
  BY <1>3, <1>4

LEMMA TouchType ==
    ASSUME NEW sc \in Scope, NEW k
    PROVE  Touch(sc, k) \in Scope
<1>1. sc.disableHealth \in BOOLEAN /\ sc.entry \in [EntryId -> Entry]
  BY DEF Scope
<1>2. Touch(sc, k).entry \in [EntryId -> Entry]
  BY <1>1, FreshEntryType, AdvanceCooldownType DEF Touch, Scope
<1>3. Touch(sc, k) = [sc EXCEPT !.entry = Touch(sc, k).entry]
  BY DEF Touch, Scope
<1>4. QED
  BY <1>2, <1>3, ScopeUpdateType

LEMMA LendType ==
    ASSUME NEW sc \in Scope, NEW k, NEW t \in Token
    PROVE  Lend(sc, k, t) \in Scope
<1>1. sc.activeLeases + 1 \in Nat /\ sc.entry \in [EntryId -> Entry]
  BY DEF Scope
<1>2. ASSUME NEW x \in EntryId PROVE Lend(sc, k, t).entry[x] \in Entry
  <2> DEFINE e == sc.entry[x]
             n == IF x = Global THEN e.activeLeases ELSE e.activeLeases + 1
             pr == IF e.state = "half_open" THEN t ELSE e.probeToken
  <2>1. e \in Entry
    BY <1>1
  <2>2. n \in Nat /\ pr \in Token \cup {NoToken}
    BY <2>1 DEF Entry
  <2>3. Lend(sc, k, t).entry[x] = IF x \notin KeyEntries(k) THEN e
                                  ELSE [e EXCEPT !.probeToken = pr, !.activeLeases = n]
    BY DEF Lend, Scope
  <2> HIDE DEF e, n, pr
  <2>4. [e EXCEPT !.probeToken = pr, !.activeLeases = n] \in Entry
    BY <2>1, <2>2 DEF Entry
  <2>5. QED
    BY <2>1, <2>3, <2>4
<1>3. Lend(sc, k, t).entry \in [EntryId -> Entry]
  BY <1>2, Zenon DEF Lend, Scope
<1> DEFINE f == Lend(sc, k, t).entry
           n == sc.activeLeases + 1
<1>4. Lend(sc, k, t) = [sc EXCEPT !.activeLeases = n, !.entry = f]
  BY DEF Lend, Scope
<1>5. n \in Nat /\ f \in [EntryId -> Entry]
  BY <1>1, <1>3
<1> HIDE DEF f, n
<1>6. [sc EXCEPT !.activeLeases = n, !.entry = f] \in Scope
  BY <1>5, ScopeLeaseUpdateType, Zenon
<1>7. QED
  BY <1>4, <1>6

LEMMA ReturnLeaseType ==
    ASSUME NEW sc \in Scope, NEW ch \in Channel
    PROVE  ReturnLease(sc, ch) \in Scope
<1> DEFINE left == Decrement(sc.entry[ch].activeLeases)
           n == Decrement(sc.activeLeases)
           new == IF ch \notin sc.models \X RequestType /\ left = 0 THEN AbsentEntry
                  ELSE [sc.entry[ch] EXCEPT !.activeLeases = left]
<1>1. /\ sc.activeLeases \in Nat /\ sc.entry \in [EntryId -> Entry] /\ ch \in EntryId
      /\ sc.entry[ch] \in Entry /\ sc.entry[ch].activeLeases \in Nat
  BY DEF Scope, Entry, EntryId
<1>2. left \in Nat /\ n \in Nat
  BY <1>1 DEF Decrement
<1> DEFINE f == [sc.entry EXCEPT ![ch] = new]
<1>3. ReturnLease(sc, ch) = [sc EXCEPT !.activeLeases = n, !.entry = f]
  BY <1>1 DEF ReturnLease, Scope
<1> HIDE DEF left, n
<1>4. new \in Entry
  BY <1>1, <1>2, FreshEntryType DEF Entry
<1> HIDE DEF new
<1>5. f \in [EntryId -> Entry]
  BY <1>1, <1>4
<1> HIDE DEF f
<1>6. [sc EXCEPT !.activeLeases = n, !.entry = f] \in Scope
  BY <1>2, <1>5, ScopeLeaseUpdateType, Zenon
<1>7. QED
  BY <1>3, <1>6

LEMMA ReportScopeType ==
    ASSUME NEW sc \in Scope, NEW ch, NEW t \in Token, NEW o \in Outcome,
           NEW obs \in Observation \cup {NoObservation}, NEW live \in BOOLEAN
    PROVE  ReportScope(sc, ch, t, o, obs, live) \in Scope
<1> DEFINE f == ReportScope(sc, ch, t, o, obs, live).entry
<1>1. sc.entry \in [EntryId -> Entry]
  BY DEF Scope
<1>2. f \in [EntryId -> Entry]
  BY <1>1, ReportEntryType, ReleaseProbeType DEF ReportScope, Scope
<1>3. ReportScope(sc, ch, t, o, obs, live) = [sc EXCEPT !.entry = f]
  BY DEF ReportScope, Scope
<1>4. QED
  BY <1>2, <1>3, ScopeUpdateType

-----------------------------------------------------------------------------
(* A non-empty set of positions in a sequence has a last one.              *)
LEMMA MaxExists ==
    ASSUME NEW n \in Nat, NEW S \in SUBSET (1..n), S # {}
    PROVE  \E i \in S : \A j \in S : j <= i
<1> DEFINE T == {n - i : i \in S}
           R == OpToRel(<, Nat)
<1>1. T \subseteq Nat /\ T # {}
  <2>1. PICK i \in S : TRUE
    OBVIOUS
  <2>2. n - i \in T
    BY <2>1
  <2>3. \A j \in S : n - j \in Nat
    OBVIOUS
  <2>4. QED
    BY <2>2, <2>3
<1>2. IsWellFoundedOn(R, Nat)
  BY NatLessThanWellFounded, Zenon
<1>3. \A a, b \in Nat : a < b => <<a, b>> \in R
  BY DEF OpToRel
<1> HIDE DEF R, T
<1>4. PICK m \in T : \A y \in T : ~(<<y, m>> \in R)
  BY <1>1, <1>2, WFMin
<1>5. PICK i \in S : m = n - i
  BY DEF T
<1>6. ASSUME NEW j \in S PROVE j <= i
  <2>1. n - j \in T /\ n - j \in Nat /\ m \in Nat
    BY <1>1 DEF T
  <2>2. ~(n - j < m)
    BY <2>1, <1>3, <1>4
  <2>3. QED
    BY <2>2, <1>5
<1>7. QED
  BY <1>6

-----------------------------------------------------------------------------
(* A provider's scopes stay well formed.                                   *)
LEMMA RetireType ==
    ASSUME NEW ps \in ProviderScopes
    PROVE  Retire(ps) \in ProviderScopes
<1>1. /\ ps.active \in Slot \cup {NoSlot} /\ ps.retired \in Seq(Slot)
      /\ ps.scope \in [Slot -> Scope]
  BY DEF ProviderScopes
<1>2. CASE ps.active = NoSlot
  BY <1>2 DEF Retire
<1>3. CASE ps.active # NoSlot
  <2>1. [ps EXCEPT !.active = NoSlot, !.scope[ps.active] = FreeScope] \in ProviderScopes
    BY <1>1, <1>3, FreeScopeType DEF ProviderScopes
  <2>2. Append(ps.retired, ps.active) \in Seq(Slot)
    BY <1>1, <1>3
  <2>3. [ps EXCEPT !.active = NoSlot, !.retired = Append(ps.retired, ps.active)] \in ProviderScopes
    BY <1>1, <2>2 DEF ProviderScopes
  <2>4. QED
    BY <1>3, <2>1, <2>3 DEF Retire
<1>4. QED
  BY <1>2, <1>3

LEMMA ReconcileProviderType ==
    ASSUME NEW ps \in ProviderScopes, NEW c \in CompiledProvider,
           ActiveMatches(ps, c) \/ FreeSlots(Retire(ps)) # {}
    PROVE  ReconcileProvider(ps, c) \in ProviderScopes
<1> DEFINE current   == ps.scope[ps.active]
           rest      == Retire(ps)
           slot      == CHOOSE s \in FreeSlots(rest) : TRUE
           fresh     == NewScope(c)
           sameEpoch == ps.active # NoSlot /\ current.epoch = c.epoch
           filled    == IF sameEpoch THEN InheritScopeState(fresh, current) ELSE fresh
<1>1. /\ ps.active \in Slot \cup {NoSlot} /\ ps.scope \in [Slot -> Scope]
      /\ rest \in ProviderScopes
  BY RetireType DEF ProviderScopes
<1>2. ActiveMatches(ps, c) \/ slot \in Slot
  <2>1. ActiveMatches(ps, c) \/ slot \in FreeSlots(rest)
    OBVIOUS
  <2>2. QED
    BY <2>1 DEF FreeSlots
<1>3. fresh \in Scope
  BY NewScopeType
<1>4. ps.active # NoSlot => current \in Scope
  BY <1>1
<1>5. filled \in Scope
  BY <1>3, <1>4, InheritScopeStateType
<1>6. ActiveMatches(ps, c) \/ [rest EXCEPT !.active = slot, !.scope[slot] = filled] \in ProviderScopes
  <2> HIDE DEF rest, slot, filled
  <2>1. QED
    BY <1>1, <1>2, <1>5 DEF ProviderScopes
<1>7. ps.active # NoSlot =>
        [ps EXCEPT !.scope[ps.active] = ReconcileModels(current, c.models)] \in ProviderScopes
  <2>1. c.models \in SUBSET Model
    BY DEF CompiledProvider
  <2>2. ps.active # NoSlot => ReconcileModels(current, c.models) \in Scope
    BY <1>4, <2>1, ReconcileModelsType
  <2>3. QED
    BY <1>1, <2>2 DEF ProviderScopes
<1>8. ReconcileProvider(ps, c) =
        IF ActiveMatches(ps, c)
        THEN [ps EXCEPT !.scope[ps.active] = ReconcileModels(current, c.models)]
        ELSE [rest EXCEPT !.active = slot, !.scope[slot] = filled]
  BY DEF ReconcileProvider
<1> HIDE DEF current, rest, slot, fresh, filled
<1>9. QED
  BY <1>6, <1>7, <1>8 DEF ActiveMatches

(* scopeForAcquireLocked finds a scope of the provider, or makes one.      *)
LEMMA SlotForAcquireType ==
    ASSUME NEW ps \in ProviderScopes, NEW k, HasSlot(ps, k)
    PROVE  /\ SlotForAcquire(ps, k) \in Slot
           /\ \/ /\ ActiveMatches(ps, k)
                 /\ SlotForAcquire(ps, k) = ps.active
              \/ /\ ~ActiveMatches(ps, k) /\ RetiredMatches(ps, k) # {}
                 /\ SlotForAcquire(ps, k) \in RetiredSlots(ps)
              \/ /\ ~ActiveMatches(ps, k) /\ RetiredMatches(ps, k) = {}
                 /\ SlotForAcquire(ps, k) \in FreeSlots(ps)
<1>1. ps.retired \in Seq(Slot) /\ ps.active \in Slot \cup {NoSlot}
  BY DEF ProviderScopes
<1>2. CASE ActiveMatches(ps, k)
  BY <1>1, <1>2 DEF SlotForAcquire, ActiveMatches
<1>3. CASE ~ActiveMatches(ps, k) /\ RetiredMatches(ps, k) # {}
  <2> DEFINE M == RetiredMatches(ps, k)
             top == CHOOSE i \in M : \A j \in M : j <= i
  <2>1. M \subseteq 1..Len(ps.retired) /\ Len(ps.retired) \in Nat
    BY <1>1 DEF RetiredMatches
  <2>2. \E i \in M : \A j \in M : j <= i
    <3> HIDE DEF M
    <3>1. M # {}
      BY <1>3 DEF M
    <3>2. QED
      BY <2>1, <3>1, MaxExists
  <2>3. top \in M
    BY <2>2
  <2>4. SlotForAcquire(ps, k) = ps.retired[top]
    BY <1>3 DEF SlotForAcquire
  <2> HIDE DEF M, top
  <2>5. ps.retired[top] \in Slot /\ ps.retired[top] \in RetiredSlots(ps)
    BY <1>1, <2>1, <2>3 DEF RetiredSlots
  <2>6. QED
    BY <1>3, <2>4, <2>5
<1>4. CASE ~ActiveMatches(ps, k) /\ RetiredMatches(ps, k) = {}
  <2>1. FreeSlots(ps) # {}
    BY <1>4 DEF HasSlot
  <2>2. SlotForAcquire(ps, k) \in FreeSlots(ps)
    BY <1>4, <2>1 DEF SlotForAcquire
  <2>3. QED
    BY <1>4, <2>2 DEF FreeSlots
<1>5. QED
  BY <1>2, <1>3, <1>4

LEMMA ScopeForAcquireType ==
    ASSUME NEW ps \in ProviderScopes, NEW k \in HealthKey, HasSlot(ps, k)
    PROVE  ScopeForAcquire(ps, k) \in ProviderScopes
<1> DEFINE s == SlotForAcquire(ps, k)
<1>1. s \in Slot /\ NewRetiredScope(k) \in Scope
  BY SlotForAcquireType, NewRetiredScopeType
<1>2. ScopeForAcquire(ps, k) =
        IF ActiveMatches(ps, k) \/ RetiredMatches(ps, k) # {} THEN ps
        ELSE [ps EXCEPT !.retired = Append(ps.retired, s), !.scope[s] = NewRetiredScope(k)]
  BY DEF ScopeForAcquire
<1> HIDE DEF s
<1>3. Append(ps.retired, s) \in Seq(Slot)
  BY <1>1 DEF ProviderScopes
<1>4. [ps EXCEPT !.retired = Append(ps.retired, s), !.scope[s] = NewRetiredScope(k)]
        \in ProviderScopes
  <2> DEFINE r == Append(ps.retired, s)
             n == NewRetiredScope(k)
  <2>1. r \in Seq(Slot) /\ n \in Scope
    BY <1>1, <1>3
  <2> HIDE DEF r, n
  <2>2. [ps EXCEPT !.retired = r, !.scope[s] = n] \in ProviderScopes
    BY <1>1, <2>1 DEF ProviderScopes
  <2>3. QED
    BY <2>2 DEF r, n
<1>5. QED
  BY <1>2, <1>4

(* Writing one scope keeps a provider's scopes well formed.                *)
LEMMA SetScopeType ==
    ASSUME NEW ps \in ProviderScopes, NEW s \in Slot, NEW sc \in Scope
    PROVE  [ps EXCEPT !.scope[s] = sc] \in ProviderScopes
BY DEF ProviderScopes

LEMMA InspectType ==
    ASSUME NEW ps \in ProviderScopes, NEW k \in HealthKey, HasSlot(ps, k)
    PROVE  Inspect(ps, k) \in ProviderScopes
<1> DEFINE s == SlotForAcquire(ps, k)
           q == ScopeForAcquire(ps, k)
<1>1. s \in Slot /\ q \in ProviderScopes
  BY SlotForAcquireType, ScopeForAcquireType
<1>2. Inspect(ps, k) = [q EXCEPT !.scope[s] = Touch(q.scope[s], k)]
  BY DEF Inspect
<1> HIDE DEF s, q
<1>3. Touch(q.scope[s], k) \in Scope
  BY <1>1, TouchType DEF ProviderScopes
<1>4. QED
  BY <1>1, <1>2, <1>3, SetScopeType

LEMMA GrantType ==
    ASSUME NEW ps \in ProviderScopes, NEW k \in HealthKey, NEW t \in Token, HasSlot(ps, k)
    PROVE  Grant(ps, k, t) \in ProviderScopes
<1> DEFINE s == SlotForAcquire(ps, k)
           q == Inspect(ps, k)
<1>1. s \in Slot /\ q \in ProviderScopes
  BY SlotForAcquireType, InspectType
<1>2. Grant(ps, k, t) = [q EXCEPT !.scope[s] = Lend(q.scope[s], k, t)]
  BY DEF Grant
<1> HIDE DEF s, q
<1>3. Lend(q.scope[s], k, t) \in Scope
  BY <1>1, LendType DEF ProviderScopes
<1>4. QED
  BY <1>1, <1>2, <1>3, SetScopeType

LEMMA RemoveSlotType ==
    ASSUME NEW seq \in Seq(Slot), NEW s
    PROVE  RemoveSlot(seq, s) \in Seq(Slot)
<1> DEFINE at == CHOOSE i \in DOMAIN seq : seq[i] = s
           n  == Len(seq) - 1
           r  == RemoveSlot(seq, s)
<1>1. r = [i \in 1..n |-> IF i < at THEN seq[i] ELSE seq[i + 1]]
  BY DEF RemoveSlot
<1> HIDE DEF at
<1>2. \A i \in 1..n : seq[i] \in Slot /\ seq[i + 1] \in Slot
  OBVIOUS
<1>3. \E m \in Nat : 1..n = 1..m
  <2>1. CASE n \in Nat
    BY <2>1
  <2>2. CASE n \notin Nat
    <3>1. n = -1
      BY <2>2
    <3>2. 1..(-1) = 1..0
      OBVIOUS
    <3>3. QED
      BY <3>1, <3>2
  <2>3. QED
    BY <2>1, <2>2
<1>4. PICK m \in Nat : 1..n = 1..m
  BY <1>3
<1>5. r \in [1..m -> Slot]
  <2> HIDE DEF n, r
  <2>1. QED
    BY <1>1, <1>2, <1>4
<1>6. QED
  <2>1. r \in Seq(Slot)
    <3> HIDE DEF r, n
    <3>1. QED
      BY <1>5
  <2>2. QED
    BY <2>1

LEMMA PutBackType ==
    ASSUME NEW ps \in ProviderScopes, NEW s \in Slot, NEW sc \in Scope
    PROVE  PutBack(ps, s, sc) \in ProviderScopes
<1>1. RemoveSlot(ps.retired, s) \in Seq(Slot)
  BY RemoveSlotType DEF ProviderScopes
<1>2. CASE s = ps.active \/ sc.activeLeases # 0
  BY <1>2, SetScopeType DEF PutBack
<1>3. CASE ~(s = ps.active \/ sc.activeLeases # 0)
  <2>1. PutBack(ps, s, sc) = [ps EXCEPT !.scope[s] = FreeScope, !.retired = RemoveSlot(ps.retired, s)]
    BY <1>3 DEF PutBack
  <2>2. QED
    BY <1>1, <2>1, FreeScopeType, ZenonT(40) DEF ProviderScopes
<1>4. QED
  BY <1>2, <1>3

LEMMA AgeProviderType ==
    ASSUME NEW ps \in ProviderScopes
    PROVE  AgeProvider(ps) \in ProviderScopes
<1> DEFINE aged == [s \in Slot |->
                [ps.scope[s] EXCEPT !.entry = [x \in EntryId |-> Age(ps.scope[s].entry[x])]]]
<1>1. aged \in [Slot -> Scope]
  <2>1. ASSUME NEW s \in Slot PROVE aged[s] \in Scope
    <3>1. ps.scope[s] \in Scope
      BY DEF ProviderScopes
    <3>2. [x \in EntryId |-> Age(ps.scope[s].entry[x])] \in [EntryId -> Entry]
      BY <3>1, AgeType DEF Scope
    <3>3. QED
      BY <3>1, <3>2, ScopeUpdateType
  <2>2. QED
    BY <2>1
<1>2. AgeProvider(ps) = [ps EXCEPT !.scope = aged]
  BY DEF AgeProvider
<1> HIDE DEF aged
<1>3. QED
  BY <1>1, <1>2 DEF ProviderScopes

LEMMA UpdateErrorProviderType ==
    ASSUME NEW ps \in ProviderScopes, NEW u, NEW b \in BOOLEAN
    PROVE  UpdateErrorProvider(ps, u, b) \in ProviderScopes
<1> DEFINE sc == ps.scope[ps.active]
           f == [x \in EntryId |->
                    IF x \in KeyEntries(u) /\ sc.entry[x].observation = u.observation
                    THEN [sc.entry[x] EXCEPT !.errorPending = FALSE, !.errorIncomplete = b]
                    ELSE sc.entry[x]]
<1>1. CASE ~ActiveMatches(ps, u)
  BY <1>1 DEF UpdateErrorProvider
<1>2. CASE ActiveMatches(ps, u)
  <2>1. ps.active \in Slot /\ sc \in Scope
    BY <1>2 DEF ActiveMatches, ProviderScopes
  <2>2. f \in [EntryId -> Entry]
    <3>1. ASSUME NEW e \in Entry
          PROVE  [e EXCEPT !.errorPending = FALSE, !.errorIncomplete = b] \in Entry
      BY DEF Entry
    <3>2. sc.entry \in [EntryId -> Entry]
      BY <2>1 DEF Scope
    <3>3. QED
      BY <3>1, <3>2, Zenon
  <2>3. UpdateErrorProvider(ps, u, b) = [ps EXCEPT !.scope[ps.active] = [sc EXCEPT !.entry = f]]
    BY <1>2 DEF UpdateErrorProvider
  <2> HIDE DEF f, sc
  <2>4. [sc EXCEPT !.entry = f] \in Scope
    BY <2>1, <2>2, ScopeUpdateType
  <2>5. QED
    BY <2>1, <2>3, <2>4, SetScopeType
<1>3. QED
  BY <1>1, <1>2

LEMMA ReportProviderType ==
    ASSUME NEW ps \in ProviderScopes, NEW l \in Lease, NEW t \in Token,
           NEW o \in Outcome, NEW obs \in Observation \cup {NoObservation}
    PROVE  ReportProvider(ps, l, t, o, obs) \in ProviderScopes
<1> DEFINE sc   == ps.scope[l.slot]
           live == l.slot = ps.active /\ Exists(sc.entry[l.channel])
           reported == ReportScope(sc, l.channel, t, o, obs, live)
           returned == ReturnLease(reported, l.channel)
<1>1. l.slot \in Slot /\ l.channel \in Channel
  BY DEF Lease
<1>2. sc \in Scope /\ live \in BOOLEAN
  BY <1>1 DEF ProviderScopes
<1>3. ReportProvider(ps, l, t, o, obs) = PutBack(ps, l.slot, returned)
  BY DEF ReportProvider
<1> HIDE DEF sc, live
<1>4. reported \in Scope
  BY <1>1, <1>2, ReportScopeType
<1> HIDE DEF reported
<1>5. returned \in Scope
  BY <1>1, <1>4, ReturnLeaseType
<1> HIDE DEF returned
<1>6. QED
  BY <1>1, <1>3, <1>5, PutBackType

-----------------------------------------------------------------------------
(* What the operations on a provider's scopes write.                       *)

(* The active scope goes: dropped when it has no leases, kept as the       *)
(* youngest retired one when it has.                                       *)
LEMMA RetireShape ==
    ASSUME NEW ps \in ProviderScopes
    PROVE  /\ Retire(ps).active = NoSlot
           /\ \/ ps.active = NoSlot /\ Retire(ps) = ps
              \/ /\ ps.active \in Slot /\ ps.scope[ps.active].activeLeases = 0
                 /\ Retire(ps).retired = ps.retired
                 /\ Retire(ps).scope = [ps.scope EXCEPT ![ps.active] = FreeScope]
              \/ /\ ps.active \in Slot /\ ps.scope[ps.active].activeLeases # 0
                 /\ Retire(ps).retired = Append(ps.retired, ps.active)
                 /\ Retire(ps).scope = ps.scope
BY DEF Retire, ProviderScopes

(* The scope a changed provider gets.                                      *)
Successor(ps, c) ==
    IF ps.active # NoSlot /\ ps.scope[ps.active].epoch = c.epoch
    THEN InheritScopeState(NewScope(c), ps.scope[ps.active])
    ELSE NewScope(c)

LEMMA ReconcileShape ==
    ASSUME NEW ps \in ProviderScopes, NEW c \in CompiledProvider,
           ActiveMatches(ps, c) \/ FreeSlots(Retire(ps)) # {}
    PROVE  LET new == ReconcileProvider(ps, c)
           IN  /\ new.active \in Slot
               /\ \/ /\ ActiveMatches(ps, c)
                     /\ new.active = ps.active /\ new.retired = ps.retired
                     /\ new.scope = [ps.scope EXCEPT
                            ![ps.active] = ReconcileModels(ps.scope[ps.active], c.models)]
                  \/ /\ ~ActiveMatches(ps, c)
                     /\ new.active \in FreeSlots(Retire(ps))
                     /\ new.retired = Retire(ps).retired
                     /\ new.scope = [Retire(ps).scope EXCEPT ![new.active] = Successor(ps, c)]
<1> DEFINE rest == Retire(ps)
           slot == CHOOSE s \in FreeSlots(rest) : TRUE
           next == Successor(ps, c)
           new  == ReconcileProvider(ps, c)
<1>1. rest \in ProviderScopes
  BY RetireType
<1>2. CASE ActiveMatches(ps, c)
  <2>1. ps.active \in Slot
    BY <1>2 DEF ActiveMatches, ProviderScopes
  <2>2. new = [ps EXCEPT !.scope[ps.active] = ReconcileModels(ps.scope[ps.active], c.models)]
    BY <1>2 DEF ReconcileProvider
  <2>3. QED
    BY <1>2, <2>1, <2>2 DEF ProviderScopes
<1>3. CASE ~ActiveMatches(ps, c)
  <2>1. slot \in FreeSlots(rest)
    BY <1>3
  <2>2. slot \in Slot
    BY <2>1 DEF FreeSlots
  <2>3. new = [rest EXCEPT !.active = slot, !.scope[slot] = next]
    BY <1>3 DEF ReconcileProvider, Successor
  <2> HIDE DEF new, rest, slot, next
  <2>4. new.active = slot /\ new.retired = rest.retired /\ new.scope = [rest.scope EXCEPT ![slot] = next]
    BY <1>1, <2>2, <2>3 DEF ProviderScopes
  <2>5. QED
    BY <1>3, <2>1, <2>2, <2>4 DEF new, rest, next
<1>4. QED
  BY <1>2, <1>3

(* The scope that Acquire looks at, before it is touched.                  *)
Found(ps, k) == ActiveMatches(ps, k) \/ RetiredMatches(ps, k) # {}

Consulted(ps, k) == IF Found(ps, k) THEN ps.scope[SlotForAcquire(ps, k)] ELSE NewRetiredScope(k)

LEMMA InspectShape ==
    ASSUME NEW ps \in ProviderScopes, NEW k \in HealthKey, HasSlot(ps, k)
    PROVE  LET s == SlotForAcquire(ps, k)
               new == Inspect(ps, k)
           IN  /\ s \in Slot /\ Consulted(ps, k) \in Scope
               /\ new.active = ps.active
               /\ new.scope = [ps.scope EXCEPT ![s] = Touch(Consulted(ps, k), k)]
               /\ \/ Found(ps, k) /\ s \notin FreeSlots(ps) /\ new.retired = ps.retired
                  \/ ~Found(ps, k) /\ s \in FreeSlots(ps) /\ new.retired = Append(ps.retired, s)
<1> DEFINE s == SlotForAcquire(ps, k)
           mid == ScopeForAcquire(ps, k)
           new == Inspect(ps, k)
<1>1. s \in Slot /\ mid \in ProviderScopes
  BY SlotForAcquireType, ScopeForAcquireType
<1>2. new = [mid EXCEPT !.scope[s] = Touch(mid.scope[s], k)]
  BY DEF Inspect
<1>3. CASE Found(ps, k)
  <2>1. mid = ps /\ s \notin FreeSlots(ps)
    BY <1>3, SlotForAcquireType DEF Found, ScopeForAcquire, FreeSlots
  <2>2. Consulted(ps, k) = ps.scope[s]
    BY <1>3 DEF Consulted
  <2> HIDE DEF s, mid, new
  <2>3. new.active = ps.active /\ new.retired = ps.retired
        /\ new.scope = [ps.scope EXCEPT ![s] = Touch(ps.scope[s], k)]
    BY <1>1, <1>2, <2>1 DEF ProviderScopes
  <2>4. ps.scope[s] \in Scope
    BY <1>1 DEF ProviderScopes
  <2>5. QED
    BY <1>1, <1>3, <2>1, <2>2, <2>3, <2>4 DEF s, new
<1>4. CASE ~Found(ps, k)
  <2> DEFINE fresh == NewRetiredScope(k)
  <2>1. mid = [ps EXCEPT !.retired = Append(ps.retired, s), !.scope[s] = fresh]
    BY <1>4 DEF Found, ScopeForAcquire
  <2>2. s \in FreeSlots(ps)
    BY <1>4, SlotForAcquireType DEF Found
  <2>3. Consulted(ps, k) = fresh /\ fresh \in Scope
    BY <1>4, NewRetiredScopeType DEF Consulted
  <2> HIDE DEF s, mid, new, fresh
  <2>4. /\ mid.active = ps.active /\ mid.retired = Append(ps.retired, s)
        /\ mid.scope = [ps.scope EXCEPT ![s] = fresh]
    BY <1>1, <2>1 DEF ProviderScopes
  <2>5. new.active = mid.active /\ new.retired = mid.retired
        /\ new.scope = [mid.scope EXCEPT ![s] = Touch(mid.scope[s], k)]
    BY <1>1, <1>2 DEF ProviderScopes
  <2>6. mid.scope[s] = fresh
    BY <1>1, <2>4 DEF ProviderScopes
  <2>7. new.scope = [ps.scope EXCEPT ![s] = Touch(fresh, k)]
    <3> DEFINE tt == Touch(fresh, k)
    <3>1. new.scope = [[ps.scope EXCEPT ![s] = fresh] EXCEPT ![s] = tt]
      BY <2>4, <2>5, <2>6
    <3> HIDE DEF tt
    <3>2. new.scope = [ps.scope EXCEPT ![s] = tt]
      BY <1>1, <3>1 DEF ProviderScopes
    <3>3. QED
      BY <3>2 DEF tt
  <2>8. QED
    BY <1>1, <1>4, <2>2, <2>3, <2>4, <2>5, <2>7 DEF s, new
<1>5. QED
  BY <1>3, <1>4

LEMMA GrantShape ==
    ASSUME NEW ps \in ProviderScopes, NEW k \in HealthKey, NEW t \in Token, HasSlot(ps, k)
    PROVE  LET s == SlotForAcquire(ps, k)
               new == Grant(ps, k, t)
           IN  /\ new.active = ps.active /\ new.retired = Inspect(ps, k).retired
               /\ new.scope = [ps.scope EXCEPT ![s] = Lend(Touch(Consulted(ps, k), k), k, t)]
<1> DEFINE s == SlotForAcquire(ps, k)
           mid == Inspect(ps, k)
           touched == Touch(Consulted(ps, k), k)
           new == Grant(ps, k, t)
<1>1. s \in Slot /\ mid \in ProviderScopes /\ mid.active = ps.active
      /\ mid.scope = [ps.scope EXCEPT ![s] = touched]
  BY InspectShape, InspectType
<1>2. new = [mid EXCEPT !.scope[s] = Lend(mid.scope[s], k, t)]
  BY DEF Grant
<1> HIDE DEF s, mid, new, touched
<1>3. mid.scope[s] = touched
  BY <1>1 DEF ProviderScopes
<1> DEFINE lent == Lend(touched, k, t)
<1>4. new = [mid EXCEPT !.scope[s] = lent]
  BY <1>2, <1>3
<1> HIDE DEF lent
<1>5. new.active = mid.active /\ new.retired = mid.retired /\ new.scope = [mid.scope EXCEPT ![s] = lent]
  BY <1>1, <1>4 DEF ProviderScopes
<1>6. new.scope = [ps.scope EXCEPT ![s] = lent]
  BY <1>1, <1>5 DEF ProviderScopes
<1>7. QED
  BY <1>1, <1>5, <1>6 DEF s, mid, new, lent, touched

(* The scope of a lease once its attempt has been reported.                *)
Live(ps, l) == l.slot = ps.active /\ Exists(ps.scope[l.slot].entry[l.channel])

Settled(ps, l, t, o, obs) ==
    ReturnLease(ReportScope(ps.scope[l.slot], l.channel, t, o, obs, Live(ps, l)), l.channel)

LEMMA ReportShape ==
    ASSUME NEW ps \in ProviderScopes, NEW l \in Lease, NEW t \in Token,
           NEW o \in Outcome, NEW obs \in Observation \cup {NoObservation}
    PROVE  LET done == Settled(ps, l, t, o, obs)
               new  == ReportProvider(ps, l, t, o, obs)
           IN  /\ new.active = ps.active
               /\ \/ /\ l.slot = ps.active \/ done.activeLeases # 0
                     /\ new.retired = ps.retired
                     /\ new.scope = [ps.scope EXCEPT ![l.slot] = done]
                  \/ /\ l.slot # ps.active /\ done.activeLeases = 0
                     /\ new.retired = RemoveSlot(ps.retired, l.slot)
                     /\ new.scope = [ps.scope EXCEPT ![l.slot] = FreeScope]
<1> DEFINE done == Settled(ps, l, t, o, obs)
           new  == ReportProvider(ps, l, t, o, obs)
<1>1. new = PutBack(ps, l.slot, done)
  BY DEF ReportProvider, Settled, Live
<1> HIDE DEF done, new
<1>2. QED
  BY <1>1 DEF PutBack, ProviderScopes, done, new

LEMMA UpdateErrorShape ==
    ASSUME NEW ps \in ProviderScopes, NEW u, NEW b \in BOOLEAN
    PROVE  LET new == UpdateErrorProvider(ps, u, b)
               sc  == ps.scope[ps.active]
               f   == [x \in EntryId |->
                        IF x \in KeyEntries(u) /\ sc.entry[x].observation = u.observation
                        THEN [sc.entry[x] EXCEPT !.errorPending = FALSE, !.errorIncomplete = b]
                        ELSE sc.entry[x]]
           IN  /\ new.active = ps.active /\ new.retired = ps.retired
               /\ \/ ~ActiveMatches(ps, u) /\ new.scope = ps.scope
                  \/ /\ ActiveMatches(ps, u)
                     /\ new.scope = [ps.scope EXCEPT ![ps.active] = [sc EXCEPT !.entry = f]]
BY Zenon DEF UpdateErrorProvider, ProviderScopes

-----------------------------------------------------------------------------
(* BreakerConsistent, entry by entry; d is the health mode of the scope.   *)

Sound(e, d) ==
    /\ e.state \in {"absent", "unknown", "healthy", "disabled"} =>
            e.consecutiveFailures = 0 /\ e.backoffLevel = 0
    /\ e.state = "degraded" =>
            e.consecutiveFailures \in 1..(FailureThreshold - 1) /\ e.backoffLevel = 0
    /\ e.state \in {"cooldown", "half_open"} => e.consecutiveFailures >= 1
    /\ e.cooldownLeft > 0 => e.state = "cooldown"
    /\ Exists(e) => (e.state = "disabled" <=> d)

(* Two entries with the same breaker are sound alike.                      *)
SameBreaker(e, f) ==
    /\ f.state = e.state
    /\ f.backoffLevel = e.backoffLevel
    /\ f.consecutiveFailures = e.consecutiveFailures
    /\ f.cooldownLeft = e.cooldownLeft

LEMMA SameBreakerSound ==
    ASSUME NEW e, NEW f, NEW d, Sound(e, d), SameBreaker(e, f)
    PROVE  Sound(f, d)
BY DEF Sound, SameBreaker, Exists

LEMMA FreshSound ==
    ASSUME NEW d \in BOOLEAN
    PROVE  Sound(AbsentEntry, d) /\ Sound(NewEntry(InitialState(d)), d)
BY DEF Sound, AbsentEntry, NewEntry, InitialState, Exists

(* Observing, releasing a probe, lending and reading an error body do not  *)
(* touch the breaker.                                                      *)
LEMMA ObserveLatestBreaker ==
    ASSUME NEW e \in Entry, NEW o, NEW obs
    PROVE  SameBreaker(e, ObserveLatest(e, o, obs))
BY DEF SameBreaker, ObserveLatest, Entry

LEMMA ReleaseProbeBreaker ==
    ASSUME NEW e \in Entry, NEW t
    PROVE  SameBreaker(e, ReleaseProbe(e, t))
BY DEF SameBreaker, ReleaseProbe, Entry

LEMMA AdvanceCooldownSound ==
    ASSUME NEW e \in Entry, NEW d, Sound(e, d)
    PROVE  Sound(AdvanceCooldown(e), d)
BY DEF Sound, AdvanceCooldown, Exists, Entry

LEMMA ApplySuccessSound ==
    ASSUME NEW e \in Entry, NEW d \in BOOLEAN, Sound(e, d), Exists(e)
    PROVE  Sound(ApplySuccess(e), d)
BY DEF Sound, ApplySuccess, Exists, Entry

LEMMA AgeSound ==
    ASSUME NEW e \in Entry, NEW d, Sound(e, d)
    PROVE  Sound(Age(e), d)
BY DEF Sound, Age, Exists, Entry

(* The count after one more failure: at least one, and one more than       *)
(* before when it was below the threshold.                                 *)
LEMMA RecordedFailure ==
    ASSUME NEW e \in Entry
    PROVE  LET r == RecordConsecutiveFailure(e)
           IN  /\ r \in Entry /\ r.consecutiveFailures >= 1
               /\ r.state = e.state /\ r.backoffLevel = e.backoffLevel
               /\ r.cooldownLeft = e.cooldownLeft
<1> DEFINE n == IF e.sinceFailure > FailureWindow THEN 1
                ELSE IF e.consecutiveFailures < MaxInt THEN e.consecutiveFailures + 1
                ELSE e.consecutiveFailures
           r == RecordConsecutiveFailure(e)
<1>1. r \in Entry
  BY RecordConsecutiveFailureType
<1>2. r = [e EXCEPT !.sinceFailure = 0, !.consecutiveFailures = n]
  BY DEF RecordConsecutiveFailure
<1>3. n >= 1
  BY PolicyFacts DEF Entry
<1> HIDE DEF r, n
<1>4. r.consecutiveFailures = n /\ r.state = e.state /\ r.backoffLevel = e.backoffLevel
      /\ r.cooldownLeft = e.cooldownLeft
  BY <1>2 DEF Entry
<1>5. QED
  BY <1>1, <1>3, <1>4 DEF r

LEMMA EnterCooldownSound ==
    ASSUME NEW e \in Entry, NEW o \in Outcome, e.consecutiveFailures >= 1
    PROVE  /\ Sound(EnterCooldown(e, o), FALSE)
           /\ EnterCooldown(e, o).backoffLevel = e.backoffLevel
BY DEF EnterCooldown, Sound, Exists, Entry

LEMMA ApplyFailureSound ==
    ASSUME NEW e \in Entry, NEW t, NEW o \in Outcome, NEW b \in BOOLEAN, NEW d \in BOOLEAN,
           Sound(e, d), Exists(e)
    PROVE  Sound(ApplyFailure(e, t, o, b), d)
<1> DEFINE r  == RecordConsecutiveFailure(e)
           up == [r EXCEPT !.backoffLevel = RaiseBackoff(r.backoffLevel)]
           f  == ApplyFailure(e, t, o, b)
<1>1. r \in Entry /\ r.consecutiveFailures >= 1 /\ r.state = e.state /\ r.backoffLevel = e.backoffLevel
      /\ r.cooldownLeft = e.cooldownLeft
  BY RecordedFailure
<1>2. RaiseBackoff(r.backoffLevel) \in 0..(Len(Cooldowns) - 1)
  BY <1>1, PolicyFacts DEF RaiseBackoff, Entry
<1>3. up \in Entry /\ up.consecutiveFailures = r.consecutiveFailures
  <2> HIDE DEF r
  <2>1. QED
    BY <1>1, <1>2 DEF Entry
<1>4. Sound(EnterCooldown(r, o), FALSE) /\ Sound(EnterCooldown(up, o), FALSE)
  <2> HIDE DEF r, up
  <2>1. QED
    BY <1>1, <1>3, EnterCooldownSound
<1>5. CASE e.state \in {"disabled", "cooldown"}
  BY <1>5 DEF ApplyFailure
<1>6. CASE e.state = "half_open"
  <2>1. f \in {e, EnterCooldown(up, o)}
    BY <1>6 DEF ApplyFailure
  <2>2. d = FALSE
    BY <1>6 DEF Sound, Exists
  <2> HIDE DEF f, up, r
  <2>3. Sound(f, d)
    BY <1>4, <2>1, <2>2
  <2>4. QED
    BY <2>3 DEF f
<1>7. CASE e.state \notin {"disabled", "cooldown", "half_open"}
  <2> DEFINE g == [r EXCEPT !.state = "degraded"]
  <2>1. f = IF EntersCooldown(e, t, b) THEN EnterCooldown(r, o) ELSE g
    BY <1>7 DEF ApplyFailure
  <2>2. d = FALSE
    BY <1>7 DEF Sound, Exists
  <2>3. ~EntersCooldown(e, t, b) => r.consecutiveFailures < FailureThreshold
    <3>1. r.consecutiveFailures >= FailureThreshold => EntersCooldown(e, t, b)
      BY <1>7 DEF EntersCooldown
    <3> HIDE DEF r
    <3>2. r.consecutiveFailures \in Int /\ FailureThreshold \in Int
      BY <1>1, PolicyFacts DEF Entry
    <3>3. QED
      BY <3>1, <3>2
  <2>4. e.state \in {"absent", "unknown", "healthy", "degraded"}
    BY <1>7 DEF Entry, MachineState
  <2>5. e.backoffLevel = 0 /\ ~(e.cooldownLeft > 0)
    BY <2>4 DEF Sound
  <2> HIDE DEF f, up, r
  <2>6. ~EntersCooldown(e, t, b) => Sound(g, FALSE)
    <3> SUFFICES ASSUME ~EntersCooldown(e, t, b) PROVE Sound(g, FALSE)
      OBVIOUS
    <3>1. g.state = "degraded" /\ g.consecutiveFailures = r.consecutiveFailures
          /\ g.backoffLevel = 0 /\ g.cooldownLeft = e.cooldownLeft
      BY <1>1, <2>5 DEF Entry
    <3>2. r.consecutiveFailures \in 1..(FailureThreshold - 1)
      BY <1>1, <2>3, PolicyFacts DEF Entry
    <3> HIDE DEF g
    <3>3. QED
      BY <2>5, <3>1, <3>2 DEF Sound, Exists
  <2>7. Sound(f, d)
    BY <1>4, <2>1, <2>2, <2>6
  <2>8. QED
    BY <2>7 DEF f
<1>8. QED
  BY <1>5, <1>6, <1>7

LEMMA ReportEntrySound ==
    ASSUME NEW e \in Entry, NEW x \in EntryId, NEW t, NEW o \in Outcome,
           NEW obs \in Observation \cup {NoObservation}, NEW d \in BOOLEAN,
           Sound(e, d), Exists(e)
    PROVE  Sound(ReportEntry(e, x, t, o, obs), d)
<1> DEFINE g == ObserveLatest(e, o, obs)
           f == ReportEntry(e, x, t, o, obs)
<1>1. g \in Entry /\ SameBreaker(e, g)
  BY ObserveLatestType, ObserveLatestBreaker
<1>2. f \in {ApplySuccess(g), ApplyFailure(g, t, o, IsImmediate(o)),
             ReleaseProbe(g, t), ReleaseProbe(e, t)}
  BY DEF ReportEntry
<1>3. IsImmediate(o) \in BOOLEAN
  BY DEF IsImmediate
<1> HIDE DEF f, g
<1>4. Sound(g, d) /\ Exists(g)
  BY <1>1, SameBreakerSound DEF SameBreaker, Exists
<1>5. Sound(ReleaseProbe(g, t), d) /\ Sound(ReleaseProbe(e, t), d)
  BY <1>1, <1>4, ReleaseProbeBreaker, SameBreakerSound
<1>6. Sound(f, d)
  BY <1>1, <1>2, <1>3, <1>4, <1>5, ApplySuccessSound, ApplyFailureSound
<1>7. QED
  BY <1>6 DEF f

-----------------------------------------------------------------------------
(* What the operations on one scope do to its fields and entries.          *)

SameKey(sc, new) ==
    /\ new.generation = sc.generation /\ new.epoch = sc.epoch
    /\ new.disableHealth = sc.disableHealth

LEMMA TouchShape ==
    ASSUME NEW sc \in Scope, NEW k
    PROVE  LET new == Touch(sc, k)
           IN  /\ SameKey(sc, new) /\ new.models = sc.models /\ new.activeLeases = sc.activeLeases
               /\ \A x \in EntryId : new.entry[x] =
                    IF x \notin KeyEntries(k) THEN sc.entry[x]
                    ELSE IF ~Exists(sc.entry[x]) THEN NewEntry(InitialState(sc.disableHealth))
                    ELSE AdvanceCooldown(sc.entry[x])
BY DEF Touch, SameKey, Scope

(* Entry x of a scope once it has been lent to t.                          *)
Lent(e, x, t) ==
    [e EXCEPT !.probeToken   = IF e.state = "half_open" THEN t ELSE @,
              !.activeLeases = IF x = Global THEN @ ELSE @ + 1]

LEMMA LendShape ==
    ASSUME NEW sc \in Scope, NEW k, NEW t
    PROVE  LET new == Lend(sc, k, t)
           IN  /\ SameKey(sc, new) /\ new.models = sc.models
               /\ new.activeLeases = sc.activeLeases + 1
               /\ \A x \in EntryId : new.entry[x] =
                    IF x \notin KeyEntries(k) THEN sc.entry[x] ELSE Lent(sc.entry[x], x, t)
BY DEF Lend, Lent, SameKey, Scope

(* Lending changes reservations and counts of an entry, nothing else.      *)
LEMMA LentEntry ==
    ASSUME NEW e \in Entry, NEW x, NEW t
    PROVE  LET f == Lent(e, x, t)
           IN  /\ SameBreaker(e, f) /\ f.observation = e.observation
               /\ f.errorPending = e.errorPending
               /\ f.activeLeases = IF x = Global THEN e.activeLeases ELSE e.activeLeases + 1
<1> DEFINE pr == IF e.state = "half_open" THEN t ELSE e.probeToken
           n == IF x = Global THEN e.activeLeases ELSE e.activeLeases + 1
           f == Lent(e, x, t)
<1>1. f = [e EXCEPT !.probeToken = pr, !.activeLeases = n]
  BY DEF Lent
<1> HIDE DEF pr, n, f
<1>2. SameBreaker(e, f) /\ f.observation = e.observation
      /\ f.errorPending = e.errorPending /\ f.activeLeases = n
  BY <1>1 DEF Entry, SameBreaker
<1>3. QED
  BY <1>2 DEF f, n

LEMMA ReconcileModelsShape ==
    ASSUME NEW sc \in Scope, NEW models
    PROVE  LET new == ReconcileModels(sc, models)
           IN  /\ SameKey(sc, new) /\ new.models = models /\ new.activeLeases = sc.activeLeases
               /\ \A x \in EntryId : new.entry[x] =
                    IF x \in models \X {"normal"} /\ ~Exists(sc.entry[x])
                    THEN NewEntry(InitialState(sc.disableHealth))
                    ELSE IF x # Global /\ x \notin models \X RequestType
                            /\ sc.entry[x].activeLeases = 0
                    THEN AbsentEntry ELSE sc.entry[x]
BY DEF ReconcileModels, SameKey, Scope

LEMMA NewScopeShape ==
    ASSUME NEW c \in CompiledProvider
    PROVE  LET new == NewScope(c)
           IN  /\ new.generation = c.generation /\ new.epoch = c.epoch
               /\ new.disableHealth = c.disableHealth /\ new.models = c.models
               /\ new.activeLeases = 0
               /\ \A x \in EntryId : new.entry[x] =
                    IF x \in {Global} \cup (c.models \X {"normal"})
                    THEN NewEntry(InitialState(c.disableHealth)) ELSE AbsentEntry
BY DEF NewScope

LEMMA NewRetiredScopeShape ==
    ASSUME NEW k
    PROVE  LET new == NewRetiredScope(k)
           IN  /\ new.disableHealth = k.disableHealth /\ new.activeLeases = 0
               /\ \A x \in EntryId : new.entry[x] =
                    IF x \in KeyEntries(k) THEN NewEntry(InitialState(k.disableHealth))
                    ELSE AbsentEntry
BY DEF NewRetiredScope, KeyEntries

(* The entry x of a new generation: fresh, or inherited from the entry of  *)
(* the old one onto a fresh entry.                                         *)
LEMMA InheritShape ==
    ASSUME NEW c \in CompiledProvider, NEW src \in Scope
    PROVE  LET new == InheritScopeState(NewScope(c), src)
           IN  /\ new.generation = c.generation /\ new.epoch = c.epoch
               /\ new.disableHealth = c.disableHealth /\ new.models = c.models
               /\ new.activeLeases = 0
               /\ \A x \in EntryId : new.entry[x] =
                    IF x = Global \/ (Exists(src.entry[x]) /\ x \in c.models \X RequestType)
                    THEN InheritState(NewEntry(InitialState(c.disableHealth)), src.entry[x],
                                      c.disableHealth = src.disableHealth)
                    ELSE NewScope(c).entry[x]
<1> DEFINE sc == NewScope(c)
           Base(x) == IF Exists(sc.entry[x]) THEN sc.entry[x]
                      ELSE NewEntry(InitialState(sc.disableHealth))
           new == InheritScopeState(sc, src)
<1>1. sc \in Scope
  BY NewScopeType
<1>2. /\ sc.generation = c.generation /\ sc.epoch = c.epoch
      /\ sc.disableHealth = c.disableHealth /\ sc.models = c.models /\ sc.activeLeases = 0
      /\ \A x \in EntryId : sc.entry[x] \in {NewEntry(InitialState(c.disableHealth)), AbsentEntry}
  BY NewScopeShape
<1> HIDE DEF sc
<1>3. new = [sc EXCEPT !.entry = [x \in EntryId |->
                IF x = Global \/ (Exists(src.entry[x]) /\ x \in sc.models \X RequestType)
                THEN InheritState(Base(x), src.entry[x], sc.disableHealth = src.disableHealth)
                ELSE sc.entry[x]]]
  BY DEF InheritScopeState
<1>4. \A x \in EntryId : Base(x) = NewEntry(InitialState(c.disableHealth))
  <2>1. ~Exists(AbsentEntry)
    BY DEF Exists, AbsentEntry, NewEntry
  <2>2. QED
    BY <1>2, <2>1
<1> HIDE DEF Base
<1>5. /\ new.generation = sc.generation /\ new.epoch = sc.epoch
      /\ new.disableHealth = sc.disableHealth /\ new.models = sc.models
      /\ new.activeLeases = sc.activeLeases
      /\ \A x \in EntryId : new.entry[x] =
            IF x = Global \/ (Exists(src.entry[x]) /\ x \in sc.models \X RequestType)
            THEN InheritState(Base(x), src.entry[x], sc.disableHealth = src.disableHealth)
            ELSE sc.entry[x]
  BY <1>1, <1>3 DEF Scope
<1> HIDE DEF new
<1>6. QED
  BY <1>2, <1>4, <1>5 DEF new, sc

LEMMA ReportScopeShape ==
    ASSUME NEW sc \in Scope, NEW ch, NEW t, NEW o, NEW obs, NEW live
    PROVE  LET new == ReportScope(sc, ch, t, o, obs, live)
           IN  /\ SameKey(sc, new) /\ new.models = sc.models /\ new.activeLeases = sc.activeLeases
               /\ \A x \in EntryId : new.entry[x] =
                    IF x \notin {Global, ch} THEN sc.entry[x]
                    ELSE IF live THEN ReportEntry(sc.entry[x], x, t, o, obs)
                    ELSE ReleaseProbe(sc.entry[x], t)
BY DEF ReportScope, SameKey, Scope

(* An entry whose lease count is set to n.                                 *)
Counting(e, n) == [e EXCEPT !.activeLeases = n]

LEMMA CountingEntry ==
    ASSUME NEW e \in Entry, NEW n
    PROVE  LET f == Counting(e, n)
           IN  /\ SameBreaker(e, f) /\ f.probeToken = e.probeToken /\ f.observation = e.observation
               /\ f.errorPending = e.errorPending /\ f.activeLeases = n
BY DEF Counting, SameBreaker, Entry

LEMMA ReturnLeaseShape ==
    ASSUME NEW sc \in Scope, NEW ch \in Channel
    PROVE  LET new  == ReturnLease(sc, ch)
               left == Decrement(sc.entry[ch].activeLeases)
           IN  /\ SameKey(sc, new) /\ new.models = sc.models
               /\ new.activeLeases = Decrement(sc.activeLeases)
               /\ \A x \in EntryId : new.entry[x] =
                    IF x # ch THEN sc.entry[x]
                    ELSE IF ch \notin sc.models \X RequestType /\ left = 0 THEN AbsentEntry
                    ELSE Counting(sc.entry[ch], left)
<1> DEFINE left == Decrement(sc.entry[ch].activeLeases)
           e == IF ch \notin sc.models \X RequestType /\ left = 0 THEN AbsentEntry
                ELSE Counting(sc.entry[ch], left)
           new == ReturnLease(sc, ch)
<1>1. ch \in EntryId
  BY DEF EntryId
<1>2. new = [sc EXCEPT !.activeLeases = Decrement(sc.activeLeases), !.entry[ch] = e]
  BY DEF ReturnLease, Counting
<1> HIDE DEF e, new
<1>3. /\ SameKey(sc, new) /\ new.models = sc.models
      /\ new.activeLeases = Decrement(sc.activeLeases)
      /\ \A x \in EntryId : new.entry[x] = IF x # ch THEN sc.entry[x] ELSE e
  BY <1>1, <1>2 DEF SameKey, Scope
<1>4. QED
  BY <1>3 DEF e, new

(* Entry x of the scope that a report leaves: reported or released, then   *)
(* with its lease returned.                                                *)
Reported(ps, l, t, o, obs, x) ==
    IF x \notin {Global, l.channel} THEN ps.scope[l.slot].entry[x]
    ELSE IF Live(ps, l) THEN ReportEntry(ps.scope[l.slot].entry[x], x, t, o, obs)
    ELSE ReleaseProbe(ps.scope[l.slot].entry[x], t)

LEMMA SettledShape ==
    ASSUME NEW ps \in ProviderScopes, NEW l \in Lease, NEW t \in Token,
           NEW o \in Outcome, NEW obs \in Observation \cup {NoObservation}
    PROVE  LET sc   == ps.scope[l.slot]
               done == Settled(ps, l, t, o, obs)
               left == Decrement(Reported(ps, l, t, o, obs, l.channel).activeLeases)
           IN  /\ sc \in Scope /\ done \in Scope /\ l.slot \in Slot /\ l.channel \in Channel
               /\ SameKey(sc, done) /\ done.models = sc.models
               /\ done.activeLeases = Decrement(sc.activeLeases)
               /\ \A x \in EntryId :
                    /\ Reported(ps, l, t, o, obs, x) \in Entry
                    /\ done.entry[x] =
                        IF x # l.channel THEN Reported(ps, l, t, o, obs, x)
                        ELSE IF l.channel \notin sc.models \X RequestType /\ left = 0
                        THEN AbsentEntry
                        ELSE Counting(Reported(ps, l, t, o, obs, x), left)
<1> DEFINE sc   == ps.scope[l.slot]
           ch   == l.channel
           live == Live(ps, l)
           mid  == ReportScope(sc, ch, t, o, obs, live)
           done == Settled(ps, l, t, o, obs)
<1>1. l.slot \in Slot /\ ch \in Channel /\ ch \in EntryId
  BY DEF Lease, EntryId
<1>2. sc \in Scope /\ live \in BOOLEAN
  BY <1>1 DEF ProviderScopes, Live
<1>3. mid \in Scope
  <2> HIDE DEF sc, ch, live
  <2>1. QED
    BY <1>1, <1>2, ReportScopeType
<1>4. SameKey(sc, mid) /\ mid.models = sc.models /\ mid.activeLeases = sc.activeLeases
      /\ \A x \in EntryId : mid.entry[x] = Reported(ps, l, t, o, obs, x)
  <2>1. \A x \in EntryId : mid.entry[x] = IF x \notin {Global, ch} THEN sc.entry[x]
                    ELSE IF live THEN ReportEntry(sc.entry[x], x, t, o, obs)
                    ELSE ReleaseProbe(sc.entry[x], t)
    BY <1>2, ReportScopeShape
  <2>2. QED
    BY <1>2, <2>1, ReportScopeShape DEF Reported
<1>5. done = ReturnLease(mid, ch)
  BY DEF Settled
<1> HIDE DEF mid, sc, done, ch
<1>6. done \in Scope
  BY <1>1, <1>3, <1>5, ReturnLeaseType
<1> DEFINE left == Decrement(mid.entry[ch].activeLeases)
<1>7. /\ SameKey(mid, done) /\ done.models = mid.models
      /\ done.activeLeases = Decrement(mid.activeLeases)
      /\ \A x \in EntryId : done.entry[x] =
           IF x # ch THEN mid.entry[x]
           ELSE IF ch \notin mid.models \X RequestType /\ left = 0 THEN AbsentEntry
           ELSE Counting(mid.entry[ch], left)
  BY <1>1, <1>3, <1>5, ReturnLeaseShape
<1>8. \A x \in EntryId : Reported(ps, l, t, o, obs, x) \in Entry
  BY <1>3, <1>4 DEF Scope
<1>9. QED
  BY <1>1, <1>2, <1>4, <1>6, <1>7, <1>8 DEF sc, done, ch, SameKey

-----------------------------------------------------------------------------
(* BreakerConsistent, scope by scope.                                      *)

ScopeSound(sc) == \A x \in EntryId : Sound(sc.entry[x], sc.disableHealth)

LEMMA FreshScopesSound ==
    /\ ScopeSound(FreeScope)
    /\ \A c \in CompiledProvider : ScopeSound(NewScope(c)) /\ Exists(NewScope(c).entry[Global])
    /\ \A k \in HealthKey : ScopeSound(NewRetiredScope(k))
<1>1. ScopeSound(FreeScope)
  BY FreshSound DEF ScopeSound, FreeScope
<1>2. ASSUME NEW c \in CompiledProvider
      PROVE  ScopeSound(NewScope(c)) /\ Exists(NewScope(c).entry[Global])
  <2>1. c.disableHealth \in BOOLEAN
    BY DEF CompiledProvider
  <2>2. ScopeSound(NewScope(c))
    BY <2>1, FreshSound, NewScopeShape DEF ScopeSound
  <2>3. NewScope(c).entry[Global] = NewEntry(InitialState(c.disableHealth))
    BY NewScopeShape DEF EntryId
  <2>4. QED
    BY <2>2, <2>3 DEF Exists, NewEntry, InitialState
<1>3. ASSUME NEW k \in HealthKey PROVE ScopeSound(NewRetiredScope(k))
  <2>1. k.disableHealth \in BOOLEAN
    BY DEF HealthKey
  <2>2. QED
    BY <2>1, FreshSound, NewRetiredScopeShape DEF ScopeSound
<1>4. QED
  BY <1>1, <1>2, <1>3

LEMMA AdvanceCooldownExists ==
    ASSUME NEW e \in Entry
    PROVE  Exists(AdvanceCooldown(e)) <=> Exists(e)
BY DEF AdvanceCooldown, Exists, Entry

LEMMA TouchSound ==
    ASSUME NEW sc \in Scope, NEW k, ScopeSound(sc)
    PROVE  LET new == Touch(sc, k)
           IN  /\ ScopeSound(new)
               /\ \A x \in EntryId : Exists(sc.entry[x]) => Exists(new.entry[x])
<1> DEFINE new == Touch(sc, k)
<1>1. SameKey(sc, new)
  BY TouchShape
<1>2. sc.disableHealth \in BOOLEAN /\ \A x \in EntryId : sc.entry[x] \in Entry
  BY DEF Scope
<1>3. ASSUME NEW x \in EntryId
      PROVE  Sound(new.entry[x], sc.disableHealth) /\ (Exists(sc.entry[x]) => Exists(new.entry[x]))
  <2>1. new.entry[x] \in {sc.entry[x], AdvanceCooldown(sc.entry[x])}
        \/ (~Exists(sc.entry[x]) /\ new.entry[x] = NewEntry(InitialState(sc.disableHealth)))
    BY TouchShape
  <2>2. Sound(sc.entry[x], sc.disableHealth)
    BY DEF ScopeSound
  <2> HIDE DEF new
  <2>3. QED
    BY <1>2, <2>1, <2>2, FreshSound, AdvanceCooldownSound, AdvanceCooldownExists
<1>4. QED
  BY <1>1, <1>3 DEF ScopeSound, SameKey

LEMMA LendSound ==
    ASSUME NEW sc \in Scope, NEW k, NEW t, ScopeSound(sc)
    PROVE  LET new == Lend(sc, k, t)
           IN  /\ ScopeSound(new)
               /\ \A x \in EntryId : Exists(sc.entry[x]) => Exists(new.entry[x])
<1> DEFINE new == Lend(sc, k, t)
<1>1. SameKey(sc, new)
  BY LendShape
<1>2. ASSUME NEW x \in EntryId PROVE SameBreaker(sc.entry[x], new.entry[x])
  <2>1. new.entry[x] \in {sc.entry[x], Lent(sc.entry[x], x, t)} /\ sc.entry[x] \in Entry
    BY LendShape DEF Scope
  <2> HIDE DEF new
  <2>2. SameBreaker(sc.entry[x], Lent(sc.entry[x], x, t))
    BY <2>1, LentEntry
  <2>3. QED
    BY <2>1, <2>2 DEF SameBreaker
<1> HIDE DEF new
<1>3. \A x \in EntryId : Sound(new.entry[x], sc.disableHealth)
                         /\ (Exists(sc.entry[x]) => Exists(new.entry[x]))
  BY <1>2, SameBreakerSound DEF ScopeSound, SameBreaker, Exists
<1>4. QED
  BY <1>1, <1>3 DEF ScopeSound, SameKey, new

LEMMA ReconcileModelsSound ==
    ASSUME NEW sc \in Scope, NEW models \in SUBSET Model, ScopeSound(sc)
    PROVE  LET new == ReconcileModels(sc, models)
           IN  ScopeSound(new) /\ (Exists(sc.entry[Global]) => Exists(new.entry[Global]))
<1> DEFINE new == ReconcileModels(sc, models)
<1>1. SameKey(sc, new) /\ sc.disableHealth \in BOOLEAN
  BY ReconcileModelsShape DEF Scope
<1>2. ScopeSound(new)
  BY <1>1, ReconcileModelsShape, FreshSound DEF ScopeSound, SameKey
<1>3. new.entry[Global] = sc.entry[Global]
  <2>1. Global \in EntryId /\ Global \notin models \X {"normal"}
    BY ConstantsAssumption, Zenon DEF EntryId, Channel
  <2>2. QED
    BY <2>1, ReconcileModelsShape
<1>4. QED
  BY <1>2, <1>3

LEMMA InheritStateBreaker ==
    ASSUME NEW source \in Entry, NEW target \in Entry, NEW preserve \in BOOLEAN
    PROVE  LET f == InheritState(target, source, preserve)
           IN  /\ ~f.errorPending /\ f.activeLeases = target.activeLeases
               /\ preserve => SameBreaker(source, f)
               /\ ~preserve => SameBreaker(target, f)
BY DEF InheritState, SameBreaker, Entry

LEMMA InheritStateSound ==
    ASSUME NEW source \in Entry, NEW d \in BOOLEAN, NEW preserve \in BOOLEAN,
           preserve => Sound(source, d)
    PROVE  LET f == InheritState(NewEntry(InitialState(d)), source, preserve)
           IN  Sound(f, d) /\ (preserve => SameBreaker(source, f))
                           /\ (~preserve => SameBreaker(NewEntry(InitialState(d)), f))
<1> DEFINE target == NewEntry(InitialState(d))
           f == InheritState(target, source, preserve)
<1>1. Sound(target, d) /\ target \in Entry
  BY FreshSound, FreshEntryType
<1> HIDE DEF target
<1>2. (preserve => SameBreaker(source, f)) /\ (~preserve => SameBreaker(target, f))
  BY <1>1, InheritStateBreaker
<1> HIDE DEF f
<1>3. Sound(f, d)
  BY <1>1, <1>2, SameBreakerSound
<1>4. QED
  BY <1>2, <1>3 DEF f, target

LEMMA InheritSound ==
    ASSUME NEW c \in CompiledProvider, NEW src \in Scope, ScopeSound(src),
           Exists(src.entry[Global])
    PROVE  LET new == InheritScopeState(NewScope(c), src)
           IN  ScopeSound(new) /\ Exists(new.entry[Global])
<1> DEFINE new == InheritScopeState(NewScope(c), src)
           d == c.disableHealth
           same == c.disableHealth = src.disableHealth
           In(x) == InheritState(NewEntry(InitialState(d)), src.entry[x], same)
<1>1. new.disableHealth = d /\ d \in BOOLEAN /\ same \in BOOLEAN /\ src.disableHealth \in BOOLEAN
  BY InheritShape DEF CompiledProvider, Scope
<1>2. ASSUME NEW x \in EntryId
      PROVE  /\ Sound(In(x), d)
             /\ same => SameBreaker(src.entry[x], In(x))
             /\ ~same => SameBreaker(NewEntry(InitialState(d)), In(x))
  <2>1. src.entry[x] \in Entry
    BY DEF Scope
  <2>2. same => Sound(src.entry[x], d)
    BY DEF ScopeSound
  <2> HIDE DEF same
  <2>3. QED
    BY <1>1, <2>1, <2>2, InheritStateSound
<1>3. ASSUME NEW x \in EntryId
      PROVE  new.entry[x] = In(x) \/ (x # Global /\ new.entry[x] = NewScope(c).entry[x])
  <2>1. new.entry[x] = IF x = Global \/ (Exists(src.entry[x]) /\ x \in c.models \X RequestType)
                       THEN In(x) ELSE NewScope(c).entry[x]
    BY InheritShape
  <2> HIDE DEF In, new
  <2>2. QED
    BY <2>1
<1>4. \A x \in EntryId : Sound(NewScope(c).entry[x], d)
  BY FreshScopesSound, NewScopeShape DEF ScopeSound
<1> HIDE DEF new, In
<1>5. ScopeSound(new)
  BY <1>1, <1>2, <1>3, <1>4 DEF ScopeSound
<1>6. Global \in EntryId /\ Exists(NewEntry(InitialState(d)))
  BY DEF EntryId, Exists, NewEntry, InitialState
<1>7. Exists(new.entry[Global])
  <2>1. new.entry[Global] = In(Global)
    BY <1>3, <1>6
  <2> HIDE DEF same
  <2>2. QED
    BY <1>1, <1>2, <1>6, <2>1 DEF SameBreaker, Exists
<1>8. QED
  BY <1>5, <1>7 DEF new

(* A verdict never makes an entry disappear, and leaves its lease count    *)
(* and its diagnostic alone.                                               *)
Kept(e, f) ==
    /\ Exists(e) => Exists(f)
    /\ f.activeLeases = e.activeLeases
    /\ f.observation = e.observation
    /\ f.errorPending = e.errorPending

LEMMA VerdictKeeps ==
    ASSUME NEW e \in Entry, NEW t, NEW o \in Outcome, NEW b \in BOOLEAN
    PROVE  Kept(e, ApplySuccess(e)) /\ Kept(e, ReleaseProbe(e, t)) /\ Kept(e, ApplyFailure(e, t, o, b))
<1> DEFINE r == RecordConsecutiveFailure(e)
           up == [r EXCEPT !.backoffLevel = RaiseBackoff(r.backoffLevel)]
           low == [r EXCEPT !.state = "degraded"]
<1>1. Kept(e, ReleaseProbe(e, t)) /\ Kept(e, ApplySuccess(e))
  BY DEF Kept, ReleaseProbe, ApplySuccess, Exists, Entry
<1>2. \A h \in Entry : Kept(h, EnterCooldown(h, o))
  BY DEF Kept, EnterCooldown, Exists, Entry
<1>3. r \in Entry /\ Kept(e, r)
  <2>1. r \in Entry
    BY RecordConsecutiveFailureType
  <2>2. QED
    BY <2>1 DEF Kept, RecordConsecutiveFailure, Exists, Entry
<1>4. up \in Entry /\ Kept(r, up) /\ Kept(r, low)
  <2>1. RaiseBackoff(r.backoffLevel) \in 0..(Len(Cooldowns) - 1)
    BY <1>3, PolicyFacts DEF RaiseBackoff, Entry
  <2> HIDE DEF r
  <2>2. QED
    BY <1>3, <2>1 DEF Kept, Exists, Entry
<1>5. ApplyFailure(e, t, o, b) \in {e, EnterCooldown(up, o), EnterCooldown(r, o), low}
  BY DEF ApplyFailure
<1> HIDE DEF r, up, low
<1>6. Kept(e, ApplyFailure(e, t, o, b))
  BY <1>2, <1>3, <1>4, <1>5 DEF Kept
<1>7. QED
  BY <1>1, <1>6

LEMMA ReportEntryKeeps ==
    ASSUME NEW e \in Entry, NEW x, NEW t, NEW o \in Outcome,
           NEW obs \in Observation \cup {NoObservation}
    PROVE  LET f == ReportEntry(e, x, t, o, obs)
           IN  /\ Exists(e) => Exists(f)
               /\ f.activeLeases = e.activeLeases
               /\ \/ f.errorPending = o.errorPending /\ f.observation = obs
                  \/ f.errorPending = e.errorPending /\ f.observation = e.observation
<1> DEFINE g == ObserveLatest(e, o, obs)
           f == ReportEntry(e, x, t, o, obs)
<1>1. g \in Entry /\ g.state = e.state /\ g.activeLeases = e.activeLeases
      /\ g.errorPending = o.errorPending /\ g.observation = obs
  BY ObserveLatestType, Zenon DEF ObserveLatest, Entry
<1>2. f \in {ApplySuccess(g), ApplyFailure(g, t, o, IsImmediate(o)),
             ReleaseProbe(g, t), ReleaseProbe(e, t)}
  BY DEF ReportEntry
<1>3. IsImmediate(o) \in BOOLEAN
  BY DEF IsImmediate
<1> HIDE DEF f, g
<1>4. Kept(g, f) \/ Kept(e, f)
  BY <1>1, <1>2, <1>3, VerdictKeeps
<1>5. QED
  BY <1>1, <1>4 DEF Kept, Exists, f

LEMMA SettledSound ==
    ASSUME NEW ps \in ProviderScopes, NEW l \in Lease, NEW t \in Token,
           NEW o \in Outcome, NEW obs \in Observation \cup {NoObservation},
           ScopeSound(ps.scope[l.slot]),
           Live(ps, l) => Exists(ps.scope[l.slot].entry[Global])
    PROVE  LET done == Settled(ps, l, t, o, obs)
           IN  /\ ScopeSound(done)
               /\ Exists(ps.scope[l.slot].entry[Global]) => Exists(done.entry[Global])
<1> DEFINE sc == ps.scope[l.slot]
           done == Settled(ps, l, t, o, obs)
           Rep(x) == Reported(ps, l, t, o, obs, x)
           left == Decrement(Rep(l.channel).activeLeases)
<1>1. /\ sc \in Scope /\ l.channel \in Channel /\ SameKey(sc, done)
      /\ \A x \in EntryId : Rep(x) \in Entry
      /\ \A x \in EntryId : x # l.channel => done.entry[x] = Rep(x)
      /\ done.entry[l.channel] \in {AbsentEntry, Counting(Rep(l.channel), left)}
  BY SettledShape DEF EntryId
<1>2. sc.disableHealth \in BOOLEAN /\ \A x \in EntryId : sc.entry[x] \in Entry
  BY <1>1 DEF Scope
<1>3. Global \in EntryId /\ Global # l.channel /\ l.channel \in EntryId
  BY <1>1, ConstantsAssumption, Zenon DEF EntryId
<1>4. ASSUME NEW x \in EntryId
      PROVE  Sound(Rep(x), sc.disableHealth)
  <2>1. Sound(sc.entry[x], sc.disableHealth) /\ sc.entry[x] \in Entry
    BY <1>2 DEF ScopeSound
  <2>2. CASE x \notin {Global, l.channel}
    BY <2>1, <2>2 DEF Reported
  <2>3. CASE x \in {Global, l.channel} /\ ~Live(ps, l)
    BY <2>1, <2>3, ReleaseProbeBreaker, SameBreakerSound DEF Reported
  <2>4. CASE x \in {Global, l.channel} /\ Live(ps, l)
    <3>1. Exists(sc.entry[x])
      BY <2>4 DEF Live
    <3>2. Rep(x) = ReportEntry(sc.entry[x], x, t, o, obs)
      BY <2>4 DEF Reported
    <3> HIDE DEF sc, Rep
    <3>3. QED
      BY <1>2, <2>1, <3>1, <3>2, ReportEntrySound
  <2>5. QED
    BY <2>2, <2>3, <2>4
<1>5. Exists(sc.entry[Global]) => Exists(Rep(Global))
  <2>1. sc.entry[Global] \in Entry
    BY <1>2, <1>3
  <2>2. Rep(Global) \in {ReportEntry(sc.entry[Global], Global, t, o, obs), ReleaseProbe(sc.entry[Global], t)}
    BY DEF Reported
  <2> HIDE DEF sc, Rep
  <2>3. QED
    BY <2>1, <2>2, ReportEntryKeeps, ReleaseProbeBreaker DEF SameBreaker, Exists
<1>6. Sound(done.entry[l.channel], sc.disableHealth)
  <2> DEFINE e == Rep(l.channel)
             f == Counting(e, left)
  <2>1. e \in Entry /\ Sound(e, sc.disableHealth)
    BY <1>1, <1>3, <1>4
  <2>2. done.entry[l.channel] \in {AbsentEntry, f}
    BY <1>1
  <2> HIDE DEF e, left, sc, done
  <2>3. SameBreaker(e, f)
    BY <2>1, CountingEntry
  <2>4. Sound(f, sc.disableHealth)
    BY <2>1, <2>3, SameBreakerSound
  <2>5. QED
    BY <1>2, <2>2, <2>4, FreshSound
<1> HIDE DEF Rep, done
<1>7. \A x \in EntryId : Sound(done.entry[x], sc.disableHealth)
  BY <1>1, <1>4, <1>6
<1>8. ScopeSound(done)
  BY <1>1, <1>7 DEF ScopeSound, SameKey
<1>9. Exists(sc.entry[Global]) => Exists(done.entry[Global])
  BY <1>1, <1>3, <1>5
<1>10. QED
  BY <1>8, <1>9 DEF done

-----------------------------------------------------------------------------
(* What one step does to one provider's scopes; freed are the tokens that  *)
(* are not in use after it.                                                *)

ProviderStep(ps, new, freed) ==
    \/ new = ps
    \/ new = Retire(ps)
    \/ \E c \in CompiledProvider :
            /\ ActiveMatches(ps, c) \/ FreeSlots(Retire(ps)) # {}
            /\ new = ReconcileProvider(ps, c)
    \/ \E k \in HealthKey : HasSlot(ps, k) /\ new = Inspect(ps, k)
    \/ \E k \in HealthKey, t \in Token : HasSlot(ps, k) /\ new = Grant(ps, k, t)
    \/ \E l \in Lease, t \in freed, o \in Outcome, obs \in Observation \cup {NoObservation} :
            new = ReportProvider(ps, l, t, o, obs)
    \/ \E u \in Update, b \in BOOLEAN : new = UpdateErrorProvider(ps, u, b)
    \/ new = AgeProvider(ps)

(* Replacing one scope by a sound one keeps them all sound.                *)
AllSound(ps) == \A s \in Slot : ScopeSound(ps.scope[s])

(* The active scope has the provider's own breaker; without it a report    *)
(* would give an absent breaker a verdict.                                 *)
HasGlobal(ps) == ps.active # NoSlot => Exists(ps.scope[ps.active].entry[Global])

LEMMA ReplaceSound ==
    ASSUME NEW ps \in ProviderScopes, NEW new \in ProviderScopes, NEW s \in Slot, NEW sc,
           AllSound(ps), ScopeSound(sc), new.scope = [ps.scope EXCEPT ![s] = sc]
    PROVE  AllSound(new)
BY DEF AllSound, ProviderScopes

LEMMA AgeProviderShape ==
    ASSUME NEW ps \in ProviderScopes
    PROVE  LET new == AgeProvider(ps)
           IN  /\ new.active = ps.active /\ new.retired = ps.retired
               /\ \A s \in Slot :
                    /\ SameKey(ps.scope[s], new.scope[s]) /\ new.scope[s].models = ps.scope[s].models
                    /\ new.scope[s].activeLeases = ps.scope[s].activeLeases
                    /\ \A x \in EntryId : new.scope[s].entry[x] = Age(ps.scope[s].entry[x])
<1> DEFINE Aged(s) == [ps.scope[s] EXCEPT !.entry = [x \in EntryId |-> Age(ps.scope[s].entry[x])]]
           new == AgeProvider(ps)
<1>1. new = [ps EXCEPT !.scope = [s \in Slot |-> Aged(s)]]
  BY DEF AgeProvider
<1>2. ASSUME NEW s \in Slot
      PROVE  /\ SameKey(ps.scope[s], Aged(s)) /\ Aged(s).models = ps.scope[s].models
             /\ Aged(s).activeLeases = ps.scope[s].activeLeases
             /\ \A x \in EntryId : Aged(s).entry[x] = Age(ps.scope[s].entry[x])
  <2>1. ps.scope[s] \in Scope
    BY DEF ProviderScopes
  <2>2. QED
    BY <2>1 DEF SameKey, Scope
<1> HIDE DEF Aged, new
<1>3. new.active = ps.active /\ new.retired = ps.retired /\ \A s \in Slot : new.scope[s] = Aged(s)
  BY <1>1 DEF ProviderScopes
<1>4. QED
  BY <1>2, <1>3 DEF new

SoundScopes(ps) == AllSound(ps) /\ HasGlobal(ps)

LEMMA RetireSound ==
    ASSUME NEW ps \in ProviderScopes, SoundScopes(ps)
    PROVE  SoundScopes(Retire(ps))
<1>1. Retire(ps) \in ProviderScopes /\ Retire(ps).active = NoSlot
  BY RetireType, RetireShape
<1>2. HasGlobal(Retire(ps))
  BY <1>1 DEF HasGlobal
<1>3. AllSound(Retire(ps))
  <2>1. CASE Retire(ps).scope = ps.scope
    BY <2>1 DEF SoundScopes, AllSound
  <2>2. CASE ps.active \in Slot /\ Retire(ps).scope = [ps.scope EXCEPT ![ps.active] = FreeScope]
    BY <1>1, <2>2, ReplaceSound, FreshScopesSound DEF SoundScopes
  <2>3. QED
    BY <2>1, <2>2, RetireShape
<1>4. QED
  BY <1>2, <1>3 DEF SoundScopes

LEMMA ReconcileSound ==
    ASSUME NEW ps \in ProviderScopes, NEW c \in CompiledProvider,
           ActiveMatches(ps, c) \/ FreeSlots(Retire(ps)) # {}, SoundScopes(ps)
    PROVE  SoundScopes(ReconcileProvider(ps, c))
<1> DEFINE new == ReconcileProvider(ps, c)
           sc  == ps.scope[ps.active]
<1>1. new \in ProviderScopes
  BY ReconcileProviderType
<1>2. CASE ActiveMatches(ps, c)
  <2> DEFINE kept == ReconcileModels(sc, c.models)
  <2>1. ps.active \in Slot /\ new.active = ps.active /\ new.scope = [ps.scope EXCEPT ![ps.active] = kept]
    BY <1>2, ReconcileShape DEF ActiveMatches
  <2>2. sc \in Scope /\ ScopeSound(sc) /\ c.models \in SUBSET Model /\ Exists(sc.entry[Global])
    BY <2>1, ConstantsAssumption, Zenon DEF ProviderScopes, SoundScopes, AllSound, HasGlobal, CompiledProvider
  <2>3. ScopeSound(kept) /\ Exists(kept.entry[Global])
    BY <2>2, ReconcileModelsSound
  <2> HIDE DEF new, kept, sc
  <2>4. AllSound(new) /\ new.scope[new.active] = kept
    BY <1>1, <2>1, <2>3, ReplaceSound DEF SoundScopes, ProviderScopes
  <2>5. SoundScopes(new)
    BY <2>3, <2>4 DEF SoundScopes, HasGlobal
  <2>6. QED
    BY <2>5 DEF new
<1>3. CASE ~ActiveMatches(ps, c)
  <2> DEFINE rest == Retire(ps)
             next == Successor(ps, c)
  <2>1. new.active \in FreeSlots(rest) /\ new.scope = [rest.scope EXCEPT ![new.active] = next]
    BY <1>3, ReconcileShape
  <2>2. rest \in ProviderScopes /\ SoundScopes(rest)
    BY RetireType, RetireSound
  <2>3. ScopeSound(next) /\ Exists(next.entry[Global])
    <3>1. CASE ps.active # NoSlot /\ sc.epoch = c.epoch
      <4>1. sc \in Scope /\ ScopeSound(sc) /\ Exists(sc.entry[Global])
        BY <3>1 DEF ProviderScopes, SoundScopes, AllSound, HasGlobal
      <4>2. QED
        BY <3>1, <4>1, InheritSound DEF Successor
    <3>2. CASE ~(ps.active # NoSlot /\ sc.epoch = c.epoch)
      BY <3>2, FreshScopesSound DEF Successor
    <3>3. QED
      BY <3>1, <3>2
  <2> HIDE DEF new, rest, next, sc
  <2>4. new.active \in Slot
    BY <2>1 DEF FreeSlots
  <2>5. AllSound(new) /\ new.scope[new.active] = next
    BY <1>1, <2>1, <2>2, <2>3, <2>4, ReplaceSound DEF SoundScopes, ProviderScopes
  <2>6. SoundScopes(new)
    BY <2>3, <2>5 DEF SoundScopes, HasGlobal
  <2>7. QED
    BY <2>6 DEF new
<1>4. QED
  BY <1>2, <1>3

(* Both halves of Acquire.                                                 *)
LEMMA AcquireSound ==
    ASSUME NEW ps \in ProviderScopes, NEW k \in HealthKey, HasSlot(ps, k), SoundScopes(ps)
    PROVE  /\ SoundScopes(Inspect(ps, k))
           /\ \A t \in Token : SoundScopes(Grant(ps, k, t))
<1> DEFINE s == SlotForAcquire(ps, k)
           sc == Consulted(ps, k)
           touched == Touch(sc, k)
<1>1. s \in Slot /\ sc \in Scope
  BY InspectShape
<1>2. ScopeSound(sc)
  BY <1>1, FreshScopesSound DEF Consulted, SoundScopes, AllSound
<1>3. ps.active = s => sc = ps.scope[s]
  <2>1. ps.active = s => s \notin FreeSlots(ps)
    BY DEF FreeSlots
  <2>2. QED
    BY <2>1, InspectShape DEF Consulted
<1>4. touched \in Scope /\ ScopeSound(touched)
      /\ (Exists(sc.entry[Global]) => Exists(touched.entry[Global]))
  BY <1>1, <1>2, TouchType, TouchSound DEF EntryId
<1>5. ASSUME NEW new \in ProviderScopes, NEW last, new.active = ps.active,
             new.scope = [ps.scope EXCEPT ![s] = last], ScopeSound(last),
             Exists(touched.entry[Global]) => Exists(last.entry[Global])
      PROVE  SoundScopes(new)
  <2> HIDE DEF s, touched, sc
  <2>1. AllSound(new)
    BY <1>1, <1>5, ReplaceSound DEF SoundScopes
  <2>2. CASE ps.active = s
    BY <1>1, <1>3, <1>4, <1>5, <2>1, <2>2 DEF SoundScopes, HasGlobal, ProviderScopes
  <2>3. CASE ps.active # s
    BY <1>1, <1>5, <2>1, <2>3 DEF SoundScopes, HasGlobal, ProviderScopes
  <2>4. QED
    BY <2>2, <2>3
<1>6. SoundScopes(Inspect(ps, k))
  BY <1>4, <1>5, InspectShape, InspectType
<1>7. ASSUME NEW t \in Token PROVE SoundScopes(Grant(ps, k, t))
  <2> DEFINE lent == Lend(touched, k, t)
  <2>1. ScopeSound(lent) /\ (Exists(touched.entry[Global]) => Exists(lent.entry[Global]))
    <3> HIDE DEF touched
    <3>1. QED
      BY <1>4, LendSound DEF EntryId
  <2>2. /\ Grant(ps, k, t) \in ProviderScopes /\ Grant(ps, k, t).active = ps.active
        /\ Grant(ps, k, t).scope = [ps.scope EXCEPT ![s] = lent]
    BY GrantShape, GrantType
  <2> HIDE DEF lent, touched, s, sc
  <2>3. QED
    BY <1>5, <2>1, <2>2
<1>8. QED
  BY <1>6, <1>7

LEMMA ReportSound ==
    ASSUME NEW ps \in ProviderScopes, NEW l \in Lease, NEW t \in Token,
           NEW o \in Outcome, NEW obs \in Observation \cup {NoObservation}, SoundScopes(ps)
    PROVE  SoundScopes(ReportProvider(ps, l, t, o, obs))
<1> DEFINE done == Settled(ps, l, t, o, obs)
           new == ReportProvider(ps, l, t, o, obs)
<1>1. new \in ProviderScopes /\ new.active = ps.active /\ l.slot \in Slot
  <2>1. new \in ProviderScopes
    BY ReportProviderType
  <2>2. new.active = ps.active
    BY DEF ReportProvider, PutBack, ProviderScopes
  <2>3. l.slot \in Slot
    BY DEF Lease
  <2>4. QED
    BY <2>1, <2>2, <2>3
<1>2. ScopeSound(ps.scope[l.slot])
  BY <1>1 DEF SoundScopes, AllSound
<1>3. l.slot = ps.active => Exists(ps.scope[l.slot].entry[Global])
  BY <1>1, ConstantsAssumption, Zenon DEF SoundScopes, HasGlobal
<1>4. ScopeSound(done) /\ (l.slot = ps.active => Exists(done.entry[Global]))
  BY <1>2, <1>3, SettledSound DEF Live
<1>5. \/ new.scope = [ps.scope EXCEPT ![l.slot] = done]
      \/ l.slot # ps.active /\ new.scope = [ps.scope EXCEPT ![l.slot] = FreeScope]
  BY ReportShape
<1> HIDE DEF new, done
<1>6. AllSound(new)
  BY <1>1, <1>4, <1>5, ReplaceSound, FreshScopesSound DEF SoundScopes
<1>7. HasGlobal(new)
  BY <1>1, <1>4, <1>5 DEF SoundScopes, HasGlobal, ProviderScopes
<1>8. QED
  BY <1>6, <1>7 DEF SoundScopes, new

LEMMA UpdateErrorSound ==
    ASSUME NEW ps \in ProviderScopes, NEW u, NEW b \in BOOLEAN, SoundScopes(ps)
    PROVE  SoundScopes(UpdateErrorProvider(ps, u, b))
<1> DEFINE sc == ps.scope[ps.active]
           Read(x) == IF x \in KeyEntries(u) /\ sc.entry[x].observation = u.observation
                      THEN [sc.entry[x] EXCEPT !.errorPending = FALSE, !.errorIncomplete = b]
                      ELSE sc.entry[x]
           last == [sc EXCEPT !.entry = [x \in EntryId |-> Read(x)]]
           new == UpdateErrorProvider(ps, u, b)
<1>1. new \in ProviderScopes /\ new.active = ps.active
  BY UpdateErrorShape, UpdateErrorProviderType, Zenon
<1>2. CASE ~ActiveMatches(ps, u)
  BY <1>2 DEF UpdateErrorProvider
<1>3. CASE ActiveMatches(ps, u)
  <2>1. ps.active \in Slot /\ new.scope = [ps.scope EXCEPT ![ps.active] = last]
    <3>1. ps.active \in Slot
      BY <1>3 DEF ActiveMatches, ProviderScopes
    <3>2. new = [ps EXCEPT !.scope[ps.active] = last]
      BY <1>3 DEF UpdateErrorProvider
    <3> HIDE DEF last, new
    <3>3. QED
      BY <3>1, <3>2 DEF ProviderScopes
  <2>2. sc \in Scope /\ ScopeSound(sc) /\ Exists(sc.entry[Global])
    BY <2>1, ConstantsAssumption, Zenon DEF ProviderScopes, SoundScopes, AllSound, HasGlobal
  <2>3. ASSUME NEW x \in EntryId PROVE SameBreaker(sc.entry[x], Read(x))
    <3>1. sc.entry[x] \in Entry
      BY <2>2 DEF Scope
    <3> HIDE DEF sc
    <3>2. QED
      BY <3>1 DEF SameBreaker, Entry
  <2> HIDE DEF Read, sc
  <2>4. SameKey(sc, last) /\ \A x \in EntryId : last.entry[x] = Read(x)
    BY <2>2 DEF SameKey, Scope
  <2> HIDE DEF last, new
  <2>5. ScopeSound(last)
    BY <2>2, <2>3, <2>4, SameBreakerSound DEF ScopeSound, SameKey
  <2>6. Exists(last.entry[Global])
    BY <2>2, <2>3, <2>4 DEF SameBreaker, Exists, EntryId
  <2>7. AllSound(new) /\ new.scope[new.active] = last
    BY <1>1, <2>1, <2>5, ReplaceSound DEF SoundScopes, ProviderScopes
  <2>8. SoundScopes(new)
    BY <2>6, <2>7 DEF SoundScopes, HasGlobal
  <2>9. QED
    BY <2>8 DEF new
<1>4. QED
  BY <1>2, <1>3

LEMMA AgeProviderSound ==
    ASSUME NEW ps \in ProviderScopes, SoundScopes(ps)
    PROVE  SoundScopes(AgeProvider(ps))
<1> DEFINE new == AgeProvider(ps)
<1>1. ASSUME NEW s \in Slot, NEW x \in EntryId
      PROVE  /\ Sound(new.scope[s].entry[x], new.scope[s].disableHealth)
             /\ Exists(ps.scope[s].entry[x]) => Exists(new.scope[s].entry[x])
  <2>1. /\ new.scope[s].entry[x] = Age(ps.scope[s].entry[x])
        /\ new.scope[s].disableHealth = ps.scope[s].disableHealth
    BY AgeProviderShape DEF SameKey
  <2>2. /\ ps.scope[s].entry[x] \in Entry
        /\ Sound(ps.scope[s].entry[x], ps.scope[s].disableHealth)
    BY DEF SoundScopes, AllSound, ScopeSound, ProviderScopes, Scope
  <2>3. \A e \in Entry : Exists(e) => Exists(Age(e))
    BY DEF Exists, Age, Entry
  <2> HIDE DEF new
  <2>4. QED
    BY <2>1, <2>2, <2>3, AgeSound
<1>2. new.active = ps.active /\ new.active \in Slot \cup {NoSlot} /\ Global \in EntryId
  BY AgeProviderShape DEF ProviderScopes, EntryId
<1> HIDE DEF new
<1>3. SoundScopes(new)
  BY <1>1, <1>2 DEF SoundScopes, AllSound, ScopeSound, HasGlobal
<1>4. QED
  BY <1>3 DEF new

LEMMA ProviderStepSound ==
    ASSUME NEW ps \in ProviderScopes, NEW new, NEW freed \in SUBSET Token,
           ProviderStep(ps, new, freed), SoundScopes(ps)
    PROVE  SoundScopes(new)
BY RetireSound, ReconcileSound, AcquireSound, ReportSound, UpdateErrorSound, AgeProviderSound
   DEF ProviderStep

-----------------------------------------------------------------------------
(* CooldownKept, entry by entry.                                           *)

CoolKept(e, f) ==
    Cooling(e) =>
        \/ /\ f.state = "cooldown"
           /\ f.backoffLevel = e.backoffLevel
           /\ f.consecutiveFailures = e.consecutiveFailures
           /\ f.cooldownLeft \in {e.cooldownLeft, e.cooldownLeft - 1}
        \/ f.state = "healthy"

LEMMA SameBreakerCool ==
    ASSUME NEW e, NEW f, NEW g, CoolKept(e, f), SameBreaker(f, g)
    PROVE  CoolKept(e, g)
BY DEF CoolKept, SameBreaker

LEMMA SameCool == ASSUME NEW e PROVE CoolKept(e, e) /\ SameBreaker(e, e)
BY DEF CoolKept, Cooling, SameBreaker

LEMMA AdvanceCooldownCool ==
    ASSUME NEW e \in Entry
    PROVE  CoolKept(e, AdvanceCooldown(e))
BY DEF CoolKept, Cooling, AdvanceCooldown, Entry

LEMMA AgeCool ==
    ASSUME NEW e \in Entry
    PROVE  CoolKept(e, Age(e))
BY DEF CoolKept, Cooling, Age, Entry

LEMMA ReportEntryCool ==
    ASSUME NEW e \in Entry, NEW x, NEW t, NEW o \in Outcome,
           NEW obs \in Observation \cup {NoObservation}
    PROVE  CoolKept(e, ReportEntry(e, x, t, o, obs))
<1> DEFINE g == ObserveLatest(e, o, obs)
           f == ReportEntry(e, x, t, o, obs)
<1> SUFFICES ASSUME Cooling(e) PROVE CoolKept(e, f)
  BY DEF CoolKept
<1>1. g \in Entry /\ SameBreaker(e, g) /\ g.state = "cooldown"
  BY ObserveLatestType, ObserveLatestBreaker DEF SameBreaker, Cooling
<1>2. f \in {ApplySuccess(g), ApplyFailure(g, t, o, IsImmediate(o)),
             ReleaseProbe(g, t), ReleaseProbe(e, t)}
  BY DEF ReportEntry
<1> HIDE DEF f, g
<1>3. ApplyFailure(g, t, o, IsImmediate(o)) = g
  BY <1>1 DEF ApplyFailure
<1>4. ApplySuccess(g).state = "healthy"
  BY <1>1 DEF ApplySuccess, Entry
<1>5. f.state = "healthy" \/ SameBreaker(e, f)
  <2>1. SameBreaker(g, ReleaseProbe(g, t)) /\ SameBreaker(e, ReleaseProbe(e, t))
    BY <1>1, ReleaseProbeBreaker
  <2>2. QED
    BY <1>1, <1>2, <1>3, <1>4, <2>1 DEF SameBreaker
<1>6. QED
  BY <1>5, SameCool, SameBreakerCool DEF CoolKept

(* The same for the active scope of a provider.                            *)
CooldownsKept(ps, new) ==
    \A x \in EntryId :
        LET old == ps.scope[ps.active]
            nxt == new.scope[new.active]
        IN  (/\ ps.active # NoSlot /\ new.active # NoSlot
             /\ old.epoch = nxt.epoch /\ old.disableHealth = nxt.disableHealth
             /\ x = Global \/ x \in nxt.models \X RequestType)
            => CoolKept(old.entry[x], nxt.entry[x])

LEMMA ReconcileCool ==
    ASSUME NEW ps \in ProviderScopes, NEW c \in CompiledProvider,
           ActiveMatches(ps, c) \/ FreeSlots(Retire(ps)) # {}
    PROVE  CooldownsKept(ps, ReconcileProvider(ps, c))
<1> DEFINE new == ReconcileProvider(ps, c)
           old == ps.scope[ps.active]
           nxt == new.scope[new.active]
<1> SUFFICES ASSUME NEW x \in EntryId, ps.active # NoSlot,
                    old.epoch = nxt.epoch, old.disableHealth = nxt.disableHealth,
                    x = Global \/ x \in nxt.models \X RequestType,
                    Cooling(old.entry[x])
             PROVE  CoolKept(old.entry[x], nxt.entry[x])
  BY Zenon DEF CooldownsKept, CoolKept
<1>1. new \in ProviderScopes /\ new.active \in Slot
  BY ReconcileProviderType, ReconcileShape
<1>2. ps.active \in Slot /\ old \in Scope /\ Exists(old.entry[x]) /\ old.entry[x] \in Entry
  BY DEF ProviderScopes, Scope, Cooling, Exists
<1>3. CASE ActiveMatches(ps, c)
  <2>1. nxt = ReconcileModels(old, c.models)
    BY <1>2, <1>3, ReconcileShape DEF ProviderScopes
  <2>2. nxt.models = c.models /\ nxt.entry[x] = old.entry[x]
    <3> HIDE DEF nxt, old
    <3>1. nxt.models = c.models
      BY <1>2, <2>1, ReconcileModelsShape
    <3>2. QED
      BY <1>2, <2>1, <3>1, ReconcileModelsShape
  <2>3. QED
    BY <2>2, SameCool
<1>4. CASE ~ActiveMatches(ps, c)
  <2>1. nxt = Successor(ps, c)
    <3>1. new.scope = [Retire(ps).scope EXCEPT ![new.active] = Successor(ps, c)]
      BY <1>4, ReconcileShape
    <3>2. Retire(ps) \in ProviderScopes
      BY RetireType
    <3> HIDE DEF new
    <3>3. QED
      BY <1>1, <3>1, <3>2 DEF ProviderScopes
  <2>2. nxt.epoch = c.epoch /\ nxt = InheritScopeState(NewScope(c), old)
    <3>1. Successor(ps, c).epoch = c.epoch
      BY <1>2, NewScopeShape, InheritShape DEF Successor
    <3>2. old.epoch = c.epoch
      BY <2>1, <3>1
    <3>3. QED
      BY <2>1, <3>1, <3>2 DEF Successor
  <2> HIDE DEF nxt, old, new
  <2>3. nxt.models = c.models /\ nxt.disableHealth = c.disableHealth
    BY <1>2, <2>2, InheritShape
  <2> DEFINE d == c.disableHealth
             same == c.disableHealth = old.disableHealth
             In == InheritState(NewEntry(InitialState(d)), old.entry[x], same)
  <2>4. nxt.entry[x] = In
    <3>1. nxt.entry[x] = IF x = Global \/ (Exists(old.entry[x]) /\ x \in c.models \X RequestType)
                         THEN In ELSE NewScope(c).entry[x]
      BY <1>2, <2>2, InheritShape
    <3> HIDE DEF In
    <3>2. QED
      BY <1>2, <2>3, <3>1
  <2>5. same = TRUE /\ d \in BOOLEAN
    BY <2>3 DEF CompiledProvider
  <2>6. NewEntry(InitialState(d)) \in Entry
    BY <2>5, FreshEntryType
  <2> HIDE DEF same
  <2>7. SameBreaker(old.entry[x], In)
    BY <1>2, <2>5, <2>6, InheritStateBreaker
  <2>8. QED
    BY <2>4, <2>7, SameCool, SameBreakerCool
<1>5. QED
  BY <1>3, <1>4

(* An entry of the scope that Acquire consults, after both its halves.     *)
LEMMA AcquiredEntry ==
    ASSUME NEW ps \in ProviderScopes, NEW k \in HealthKey, HasSlot(ps, k), NEW x \in EntryId,
           NEW new, \/ new = Inspect(ps, k)
                    \/ \E t \in Token : new = Grant(ps, k, t)
    PROVE  LET s == SlotForAcquire(ps, k)
               e == Consulted(ps, k).entry[x]
               f == new.scope[s].entry[x]
           IN  /\ SameKey(Consulted(ps, k), new.scope[s])
               /\ new.scope[s].models = Consulted(ps, k).models
               /\ \E g \in Entry :
                    /\ g \in {e, AdvanceCooldown(e)}
                       \/ (~Exists(e) /\ g = NewEntry(InitialState(Consulted(ps, k).disableHealth)))
                    /\ SameBreaker(g, f) /\ f.observation = g.observation
                    /\ f.errorPending = g.errorPending
<1> DEFINE s == SlotForAcquire(ps, k)
           sc == Consulted(ps, k)
           e == sc.entry[x]
           g == Touch(sc, k).entry[x]
           fresh == NewEntry(InitialState(sc.disableHealth))
<1>1. s \in Slot /\ sc \in Scope /\ Touch(sc, k) \in Scope
  BY InspectShape, TouchType
<1>2. g \in Entry
  BY <1>1 DEF Scope
<1>3. g \in {e, AdvanceCooldown(e)} \/ (~Exists(e) /\ g = fresh)
  BY <1>1, TouchShape
<1>4. CASE new = Inspect(ps, k)
  <2>1. new.scope[s] = Touch(sc, k)
    BY <1>1, <1>4, InspectShape DEF ProviderScopes
  <2> HIDE DEF sc, s
  <2>2. SameKey(sc, new.scope[s]) /\ new.scope[s].models = sc.models
    BY <1>1, <2>1, TouchShape
  <2>3. new.scope[s].entry[x] = g /\ SameBreaker(g, g)
    BY <2>1, SameCool
  <2> HIDE DEF g, e, fresh
  <2>4. QED
    BY <1>2, <1>3, <2>2, <2>3 DEF s, sc, e, fresh
<1>5. ASSUME NEW t \in Token, new = Grant(ps, k, t)
      PROVE  /\ SameKey(sc, new.scope[s]) /\ new.scope[s].models = sc.models
             /\ SameBreaker(g, new.scope[s].entry[x]) /\ new.scope[s].entry[x].observation = g.observation
             /\ new.scope[s].entry[x].errorPending = g.errorPending
  <2> DEFINE touched == Touch(sc, k)
             lent == Lend(touched, k, t)
  <2>1. new.scope[s] = lent
    <3>1. new.scope = [ps.scope EXCEPT ![s] = lent]
      BY <1>5, GrantShape
    <3> HIDE DEF s, lent
    <3>2. QED
      BY <1>1, <3>1 DEF ProviderScopes
  <2>2. SameKey(sc, touched) /\ touched.models = sc.models
    BY <1>1, TouchShape
  <2>3. touched \in Scope /\ touched.entry[x] = g
    BY <1>1
  <2> HIDE DEF touched, sc, g, s
  <2>4. SameKey(touched, lent) /\ lent.models = touched.models
        /\ lent.entry[x] \in {g, Lent(g, x, t)}
    BY <2>3, LendShape
  <2> HIDE DEF lent
  <2>5. LET f == Lent(g, x, t)
        IN  SameBreaker(g, f) /\ f.observation = g.observation /\ f.errorPending = g.errorPending
    BY <1>2, LentEntry
  <2>6. QED
    BY <2>1, <2>2, <2>4, <2>5, SameCool DEF SameKey
<1>6. CASE \E t \in Token : new = Grant(ps, k, t)
  <2>1. /\ SameKey(sc, new.scope[s]) /\ new.scope[s].models = sc.models
        /\ SameBreaker(g, new.scope[s].entry[x]) /\ new.scope[s].entry[x].observation = g.observation
        /\ new.scope[s].entry[x].errorPending = g.errorPending
    BY <1>5, <1>6
  <2> HIDE DEF g, e, fresh, s, sc
  <2>2. QED
    BY <1>2, <1>3, <2>1 DEF s, sc, e, fresh
<1>7. QED
  BY <1>4, <1>6

(* Acquire leaves every other scope alone; the active one, when that is    *)
(* the one it consults, is consulted as it stands.                         *)
LEMMA AcquiredElsewhere ==
    ASSUME NEW ps \in ProviderScopes, NEW k \in HealthKey, HasSlot(ps, k),
           NEW new, \/ new = Inspect(ps, k)
                    \/ \E t \in Token : new = Grant(ps, k, t)
    PROVE  LET s == SlotForAcquire(ps, k)
           IN  /\ s \in Slot /\ new.active = ps.active
               /\ \A r \in Slot : r # s => new.scope[r] = ps.scope[r]
               /\ s = ps.active => Consulted(ps, k) = ps.scope[s]
<1> DEFINE s == SlotForAcquire(ps, k)
<1>1. s \in Slot
  BY InspectShape
<1>2. s = ps.active => Consulted(ps, k) = ps.scope[s]
  <2>1. s = ps.active => s \notin FreeSlots(ps)
    BY DEF FreeSlots
  <2>2. QED
    BY <2>1, InspectShape DEF Consulted
<1>3. new.active = ps.active /\ \E sc : new.scope = [ps.scope EXCEPT ![s] = sc]
  <2>1. CASE new = Inspect(ps, k)
    <3>1. new.active = ps.active
      BY <2>1, InspectShape
    <3>2. new.scope = [ps.scope EXCEPT ![s] = Touch(Consulted(ps, k), k)]
      BY <2>1, InspectShape
    <3>3. QED
      BY <3>1, <3>2
  <2>2. ASSUME NEW t \in Token, new = Grant(ps, k, t)
        PROVE  new.active = ps.active /\ \E sc : new.scope = [ps.scope EXCEPT ![s] = sc]
    <3>1. new.active = ps.active
      BY <2>2, GrantShape
    <3>2. new.scope = [ps.scope EXCEPT ![s] = Lend(Touch(Consulted(ps, k), k), k, t)]
      BY <2>2, GrantShape
    <3>3. QED
      BY <3>1, <3>2
  <2>3. QED
    BY <2>1, <2>2
<1> HIDE DEF s
<1>4. \A r \in Slot : r # s => new.scope[r] = ps.scope[r]
  BY <1>1, <1>3 DEF ProviderScopes
<1>5. QED
  BY <1>1, <1>2, <1>3, <1>4 DEF s

LEMMA AcquireCool ==
    ASSUME NEW ps \in ProviderScopes, NEW k \in HealthKey, HasSlot(ps, k),
           NEW new, \/ new = Inspect(ps, k)
                    \/ \E t \in Token : new = Grant(ps, k, t)
    PROVE  CooldownsKept(ps, new)
<1> SUFFICES ASSUME NEW x \in EntryId, ps.active # NoSlot
             PROVE  CoolKept(ps.scope[ps.active].entry[x], new.scope[new.active].entry[x])
  BY DEF CooldownsKept
<1> DEFINE s == SlotForAcquire(ps, k)
           e == ps.scope[ps.active].entry[x]
           f == new.scope[new.active].entry[x]
<1>1. ps.active \in Slot /\ e \in Entry
  BY DEF ProviderScopes, Scope
<1>2. CASE ps.active # s
  <2>1. f = e
    BY <1>1, <1>2, AcquiredElsewhere
  <2>2. QED
    BY <2>1, SameCool
<1>3. CASE ps.active = s
  <2>1. new.active = s /\ Consulted(ps, k).entry[x] = e
    BY <1>3, AcquiredElsewhere
  <2>2. PICK g \in Entry :
            /\ g \in {e, AdvanceCooldown(e)}
               \/ (~Exists(e) /\ g = NewEntry(InitialState(Consulted(ps, k).disableHealth)))
            /\ SameBreaker(g, f)
    BY <2>1, AcquiredEntry
  <2>3. CoolKept(e, g)
    <3>1. ~Exists(e) => CoolKept(e, g)
      BY DEF Exists, CoolKept, Cooling
    <3> HIDE DEF e
    <3>2. QED
      BY <1>1, <2>2, <3>1, SameCool, AdvanceCooldownCool
  <2> HIDE DEF e, f
  <2>4. CoolKept(e, f)
    BY <2>2, <2>3, SameBreakerCool
  <2>5. QED
    BY <2>4 DEF e, f
<1>4. QED
  BY <1>2, <1>3

LEMMA ReportCool ==
    ASSUME NEW ps \in ProviderScopes, NEW l \in Lease, NEW t \in Token,
           NEW o \in Outcome, NEW obs \in Observation \cup {NoObservation}
    PROVE  CooldownsKept(ps, ReportProvider(ps, l, t, o, obs))
<1> DEFINE new == ReportProvider(ps, l, t, o, obs)
           sc == ps.scope[l.slot]
           done == Settled(ps, l, t, o, obs)
           nxt == new.scope[new.active]
<1> SUFFICES ASSUME NEW x \in EntryId, ps.active # NoSlot,
                    x = Global \/ x \in nxt.models \X RequestType
             PROVE  CoolKept(ps.scope[ps.active].entry[x], nxt.entry[x])
  BY DEF CooldownsKept
<1>1. ps.active \in Slot /\ l.slot \in Slot /\ l.channel \in Channel
  BY DEF ProviderScopes, Lease
<1>2. new.active = ps.active
  BY DEF ReportProvider, PutBack, ProviderScopes
<1>3. \/ new.scope = [ps.scope EXCEPT ![l.slot] = done]
      \/ l.slot # ps.active /\ new.scope = [ps.scope EXCEPT ![l.slot] = FreeScope]
  BY ReportShape
<1>4. CASE l.slot # ps.active
  <2> HIDE DEF new, done
  <2>1. nxt = ps.scope[ps.active]
    BY <1>1, <1>2, <1>3, <1>4 DEF ProviderScopes
  <2>2. QED
    BY <2>1, SameCool
<1>5. CASE l.slot = ps.active
  <2> DEFINE e == sc.entry[x]
             g == Reported(ps, l, t, o, obs, x)
             left == Decrement(Reported(ps, l, t, o, obs, l.channel).activeLeases)
  <2>1. nxt = done
    <3> HIDE DEF new, done
    <3>1. QED
      BY <1>1, <1>2, <1>3, <1>5 DEF ProviderScopes
  <2>2. /\ sc \in Scope /\ done.models = sc.models /\ g \in Entry
        /\ done.entry[x] \in {g, Counting(g, left)}
           \/ (x = l.channel /\ x \notin sc.models \X RequestType)
    BY SettledShape
  <2>3. Global # l.channel
    BY <1>1, ConstantsAssumption, Zenon DEF EntryId
  <2>4. e \in Entry /\ g \in {e, ReportEntry(e, x, t, o, obs), ReleaseProbe(e, t)}
    BY <2>2 DEF Scope, Reported
  <2> HIDE DEF e, g, done, nxt, left, sc
  <2>5. CoolKept(e, g)
    BY <2>4, SameCool, SameBreakerCool, ReportEntryCool, ReleaseProbeBreaker
  <2>6. done.entry[x] \in {g, Counting(g, left)}
    BY <2>1, <2>2, <2>3
  <2>7. CoolKept(e, done.entry[x])
    BY <2>2, <2>5, <2>6, SameBreakerCool, CountingEntry
  <2>8. QED
    BY <1>5, <2>1, <2>7 DEF e, sc
<1>6. QED
  BY <1>4, <1>5

(* Reading an error body leaves every breaker and every scope's key alone. *)
LEMMA UpdateErrorEntry ==
    ASSUME NEW ps \in ProviderScopes, NEW u, NEW b \in BOOLEAN, NEW s \in Slot, NEW x \in EntryId
    PROVE  LET new == UpdateErrorProvider(ps, u, b)
               e == ps.scope[s].entry[x]
               f == new.scope[s].entry[x]
           IN  /\ new.active = ps.active /\ new.retired = ps.retired
               /\ SameKey(ps.scope[s], new.scope[s]) /\ new.scope[s].models = ps.scope[s].models
               /\ new.scope[s].activeLeases = ps.scope[s].activeLeases
               /\ SameBreaker(e, f) /\ f.activeLeases = e.activeLeases
               /\ f.errorPending => /\ e.errorPending /\ f.observation = e.observation
                                    /\ ~(/\ s = ps.active /\ ActiveMatches(ps, u)
                                         /\ x \in KeyEntries(u) /\ e.observation = u.observation)
<1> DEFINE new == UpdateErrorProvider(ps, u, b)
           sc == ps.scope[ps.active]
           e == ps.scope[s].entry[x]
           hit(y) == y \in KeyEntries(u) /\ sc.entry[y].observation = u.observation
           Read(y) == IF hit(y)
                      THEN [sc.entry[y] EXCEPT !.errorPending = FALSE, !.errorIncomplete = b]
                      ELSE sc.entry[y]
           last == [sc EXCEPT !.entry = [y \in EntryId |-> Read(y)]]
<1>1. CASE ~ActiveMatches(ps, u)
  <2>1. new = ps
    BY <1>1 DEF UpdateErrorProvider
  <2>2. QED
    BY <1>1, <2>1, SameCool DEF SameKey
<1>2. CASE ActiveMatches(ps, u)
  <2>1. ps.active \in Slot /\ sc \in Scope
    BY <1>2 DEF ActiveMatches, ProviderScopes
  <2>2. new = [ps EXCEPT !.scope[ps.active] = last]
    BY <1>2 DEF UpdateErrorProvider
  <2>3. /\ SameKey(sc, last) /\ last.models = sc.models /\ last.activeLeases = sc.activeLeases
        /\ last.entry[x] = Read(x)
    <3> HIDE DEF Read, sc
    <3>1. QED
      BY <2>1 DEF SameKey, Scope
  <2>4. /\ new.active = ps.active /\ new.retired = ps.retired
        /\ new.scope[s] = IF s = ps.active THEN last ELSE ps.scope[s]
    <3> HIDE DEF last, new
    <3>1. QED
      BY <2>1, <2>2 DEF ProviderScopes
  <2>5. CASE s # ps.active
    BY <2>4, <2>5, SameCool DEF SameKey
  <2>6. CASE s = ps.active
    <3> DEFINE a == sc.entry[x]
               f == Read(x)
    <3>1. a \in Entry
      BY <2>1 DEF Scope
    <3>2. SameBreaker(a, f) /\ f.activeLeases = a.activeLeases /\ f.observation = a.observation
          /\ (f.errorPending => a.errorPending /\ ~hit(x))
      <4>1. f = IF hit(x) THEN [a EXCEPT !.errorPending = FALSE, !.errorIncomplete = b] ELSE a
        OBVIOUS
      <4> HIDE DEF a, f, hit
      <4>2. QED
        BY <3>1, <4>1 DEF SameBreaker, Entry
    <3>3. new.scope[s] = last /\ last.entry[x] = f /\ ps.scope[s] = sc
      BY <2>3, <2>4, <2>6, Zenon
    <3> HIDE DEF f, new, last
    <3>4. QED
      BY <2>3, <2>4, <3>2, <3>3 DEF new
  <2>7. QED
    BY <2>5, <2>6
<1>3. QED
  BY <1>1, <1>2

LEMMA ProviderStepCool ==
    ASSUME NEW ps \in ProviderScopes, NEW new, NEW freed \in SUBSET Token,
           ProviderStep(ps, new, freed)
    PROVE  CooldownsKept(ps, new)
<1>1. CASE new = ps
  BY <1>1, SameCool DEF CooldownsKept
<1>2. CASE new = Retire(ps)
  BY <1>2, RetireShape DEF CooldownsKept
<1>3. CASE new = AgeProvider(ps)
  <2> SUFFICES ASSUME NEW x \in EntryId, ps.active # NoSlot
               PROVE  CoolKept(ps.scope[ps.active].entry[x], new.scope[new.active].entry[x])
    BY DEF CooldownsKept
  <2>1. ps.active \in Slot /\ ps.scope[ps.active].entry[x] \in Entry
    BY DEF ProviderScopes, Scope
  <2>2. new.scope[new.active].entry[x] = Age(ps.scope[ps.active].entry[x])
    BY <1>3, <2>1, AgeProviderShape
  <2>3. QED
    BY <2>1, <2>2, AgeCool
<1>4. ASSUME NEW u \in Update, NEW b \in BOOLEAN, new = UpdateErrorProvider(ps, u, b)
      PROVE  CooldownsKept(ps, new)
  <2> SUFFICES ASSUME NEW x \in EntryId, ps.active # NoSlot
               PROVE  CoolKept(ps.scope[ps.active].entry[x], new.scope[new.active].entry[x])
    BY DEF CooldownsKept
  <2>1. ps.active \in Slot
    BY DEF ProviderScopes
  <2>2. SameBreaker(ps.scope[ps.active].entry[x], new.scope[new.active].entry[x])
    BY <1>4, <2>1, UpdateErrorEntry
  <2>3. QED
    BY <2>2, SameCool, SameBreakerCool
<1>5. QED
  BY <1>1, <1>2, <1>3, <1>4, ReconcileCool, AcquireCool, ReportCool DEF ProviderStep

-----------------------------------------------------------------------------
(* BackoffEscalatesByProbe, entry by entry: the backoff stays, falls to    *)
(* zero, or rises by one because the probe, one of the tokens in freed,    *)
(* failed.                                                                 *)

BackoffStep(e, f, freed) ==
    \/ f.backoffLevel = e.backoffLevel
    \/ f.backoffLevel = 0
    \/ /\ f.backoffLevel = e.backoffLevel + 1
       /\ e.probeToken \in freed
       /\ f.state = "cooldown"

LEMMA ApplyFailureBackoff ==
    ASSUME NEW e \in Entry, NEW t, NEW o \in Outcome, NEW b \in BOOLEAN
    PROVE  BackoffStep(e, ApplyFailure(e, t, o, b), {t})
<1> DEFINE r == RecordConsecutiveFailure(e)
           up == [r EXCEPT !.backoffLevel = RaiseBackoff(r.backoffLevel)]
           low == [r EXCEPT !.state = "degraded"]
           f == ApplyFailure(e, t, o, b)
<1>1. r \in Entry /\ r.backoffLevel = e.backoffLevel
  BY RecordedFailure
<1>2. RaiseBackoff(r.backoffLevel) \in {e.backoffLevel, e.backoffLevel + 1}
      /\ RaiseBackoff(r.backoffLevel) \in 0..(Len(Cooldowns) - 1)
  BY <1>1, PolicyFacts DEF RaiseBackoff, Entry
<1>3. \A h \in Entry : EnterCooldown(h, o).backoffLevel = h.backoffLevel
                       /\ EnterCooldown(h, o).state = "cooldown"
  BY DEF EnterCooldown, Entry
<1>4. up \in Entry /\ up.backoffLevel \in {e.backoffLevel, e.backoffLevel + 1}
      /\ low.backoffLevel = e.backoffLevel
  <2> HIDE DEF r
  <2>1. QED
    BY <1>1, <1>2 DEF Entry
<1>5. f \in {e, EnterCooldown(r, o), low} \/ (e.probeToken = t /\ f = EnterCooldown(up, o))
  BY DEF ApplyFailure
<1> HIDE DEF r, up, low, f
<1>6. BackoffStep(e, f, {t})
  BY <1>1, <1>3, <1>4, <1>5 DEF BackoffStep
<1>7. QED
  BY <1>6 DEF f

LEMMA ReportEntryBackoff ==
    ASSUME NEW e \in Entry, NEW x, NEW t, NEW o \in Outcome,
           NEW obs \in Observation \cup {NoObservation}
    PROVE  BackoffStep(e, ReportEntry(e, x, t, o, obs), {t})
<1> DEFINE g == ObserveLatest(e, o, obs)
           f == ReportEntry(e, x, t, o, obs)
<1>1. g \in Entry /\ g.backoffLevel = e.backoffLevel /\ g.probeToken = e.probeToken
  BY ObserveLatestType, Zenon DEF ObserveLatest, Entry
<1>2. f \in {ApplySuccess(g), ApplyFailure(g, t, o, IsImmediate(o)),
             ReleaseProbe(g, t), ReleaseProbe(e, t)}
  BY DEF ReportEntry
<1>3. IsImmediate(o) \in BOOLEAN
  BY DEF IsImmediate
<1>4. \A h \in Entry : /\ ApplySuccess(h).backoffLevel \in {0, h.backoffLevel}
                       /\ ReleaseProbe(h, t).backoffLevel = h.backoffLevel
  BY DEF ApplySuccess, ReleaseProbe, Entry
<1> HIDE DEF f, g
<1>5. BackoffStep(g, ApplyFailure(g, t, o, IsImmediate(o)), {t})
  BY <1>1, <1>3, ApplyFailureBackoff
<1>6. BackoffStep(e, f, {t})
  BY <1>1, <1>2, <1>4, <1>5 DEF BackoffStep
<1>7. QED
  BY <1>6 DEF f

LEMMA SameBreakerBackoff ==
    ASSUME NEW e, NEW f, NEW g, NEW freed, BackoffStep(e, f, freed), SameBreaker(f, g)
    PROVE  BackoffStep(e, g, freed)
BY DEF BackoffStep, SameBreaker

LEMMA FreshBackoff ==
    ASSUME NEW e, NEW d, NEW freed
    PROVE  /\ BackoffStep(e, AbsentEntry, freed)
           /\ BackoffStep(e, NewEntry(InitialState(d)), freed)
           /\ BackoffStep(e, e, freed)
           /\ BackoffStep(e, AdvanceCooldown(e), freed) \/ e \notin Entry
BY DEF BackoffStep, AbsentEntry, NewEntry, AdvanceCooldown, Entry

(* The same for a scope that is active before and after.                   *)
BackoffsStep(ps, new, freed) ==
    \A s \in Slot, x \in EntryId : (ps.active = s /\ new.active = s) =>
        BackoffStep(ps.scope[s].entry[x], new.scope[s].entry[x], freed)

LEMMA ReconcileBackoff ==
    ASSUME NEW ps \in ProviderScopes, NEW c \in CompiledProvider,
           ActiveMatches(ps, c) \/ FreeSlots(Retire(ps)) # {}
    PROVE  BackoffsStep(ps, ReconcileProvider(ps, c), {})
<1> DEFINE new == ReconcileProvider(ps, c)
<1> SUFFICES ASSUME NEW s \in Slot, NEW x \in EntryId, ps.active = s, new.active = s
             PROVE  BackoffStep(ps.scope[s].entry[x], new.scope[s].entry[x], {})
  BY DEF BackoffsStep
<1> DEFINE old == ps.scope[s]
           nxt == new.scope[s]
<1>1. old \in Scope /\ old.entry[x] \in Entry
  BY DEF ProviderScopes, Scope
<1>2. CASE ActiveMatches(ps, c)
  <2>1. nxt = ReconcileModels(old, c.models)
    BY <1>2, ReconcileShape DEF ProviderScopes
  <2> HIDE DEF old, nxt
  <2>2. nxt.entry[x] \in {old.entry[x], AbsentEntry, NewEntry(InitialState(old.disableHealth))}
    BY <1>1, <2>1, ReconcileModelsShape
  <2>3. BackoffStep(old.entry[x], nxt.entry[x], {})
    BY <2>2, FreshBackoff
  <2>4. QED
    BY <2>3 DEF old, nxt
<1>3. CASE ~ActiveMatches(ps, c)
  <2>1. nxt = Successor(ps, c)
    <3>1. new.scope = [Retire(ps).scope EXCEPT ![new.active] = Successor(ps, c)]
      BY <1>3, ReconcileShape
    <3>2. Retire(ps) \in ProviderScopes
      BY RetireType
    <3> HIDE DEF new
    <3>3. QED
      BY <3>1, <3>2 DEF ProviderScopes
  <2> DEFINE d == c.disableHealth
             same == c.disableHealth = old.disableHealth
             fresh == NewEntry(InitialState(d))
             In == InheritState(fresh, old.entry[x], same)
  <2>2. d \in BOOLEAN /\ fresh \in Entry /\ same \in BOOLEAN
    BY FreshEntryType DEF CompiledProvider
  <2>3. Successor(ps, c).entry[x] = In \/ Successor(ps, c).entry[x] = NewScope(c).entry[x]
    <3>1. InheritScopeState(NewScope(c), old).entry[x]
            = IF x = Global \/ (Exists(old.entry[x]) /\ x \in c.models \X RequestType)
              THEN In ELSE NewScope(c).entry[x]
      BY <1>1, InheritShape
    <3> HIDE DEF In
    <3>2. QED
      BY <3>1 DEF Successor
  <2>4. NewScope(c).entry[x] \in {fresh, AbsentEntry}
    BY NewScopeShape
  <2> HIDE DEF same, fresh
  <2>5. SameBreaker(old.entry[x], In) \/ SameBreaker(fresh, In)
    BY <1>1, <2>2, InheritStateBreaker
  <2>6. BackoffStep(old.entry[x], fresh, {})
    BY FreshBackoff DEF fresh
  <2> HIDE DEF In, old, nxt
  <2>7. BackoffStep(old.entry[x], nxt.entry[x], {})
    BY <2>1, <2>3, <2>4, <2>5, <2>6, FreshBackoff, SameBreakerBackoff
  <2>8. QED
    BY <2>7 DEF old, nxt
<1>4. QED
  BY <1>2, <1>3

LEMMA AcquireBackoff ==
    ASSUME NEW ps \in ProviderScopes, NEW k \in HealthKey, HasSlot(ps, k),
           NEW new, \/ new = Inspect(ps, k)
                    \/ \E t \in Token : new = Grant(ps, k, t)
    PROVE  BackoffsStep(ps, new, {})
<1> SUFFICES ASSUME NEW s \in Slot, NEW x \in EntryId, ps.active = s
             PROVE  BackoffStep(ps.scope[s].entry[x], new.scope[s].entry[x], {})
  BY DEF BackoffsStep
<1> DEFINE e == ps.scope[s].entry[x]
           f == new.scope[s].entry[x]
           fresh == NewEntry(InitialState(Consulted(ps, k).disableHealth))
<1>1. e \in Entry
  BY DEF ProviderScopes, Scope
<1>2. CASE s # SlotForAcquire(ps, k)
  <2>1. f = e
    BY <1>2, AcquiredElsewhere
  <2>2. QED
    BY <2>1, FreshBackoff
<1>3. CASE s = SlotForAcquire(ps, k)
  <2>1. Consulted(ps, k).entry[x] = e
    BY <1>3, AcquiredElsewhere
  <2>2. PICK g \in Entry :
            /\ g \in {e, AdvanceCooldown(e)} \/ (~Exists(e) /\ g = fresh)
            /\ SameBreaker(g, f)
    BY <1>3, <2>1, AcquiredEntry
  <2> HIDE DEF e, f
  <2>3. BackoffStep(e, g, {})
    BY <1>1, <2>2, FreshBackoff
  <2>4. BackoffStep(e, f, {})
    BY <2>2, <2>3, SameBreakerBackoff
  <2>5. QED
    BY <2>4 DEF e, f
<1>4. QED
  BY <1>2, <1>3

LEMMA ReportBackoff ==
    ASSUME NEW ps \in ProviderScopes, NEW l \in Lease, NEW t \in Token,
           NEW o \in Outcome, NEW obs \in Observation \cup {NoObservation}
    PROVE  BackoffsStep(ps, ReportProvider(ps, l, t, o, obs), {t})
<1> DEFINE new == ReportProvider(ps, l, t, o, obs)
           sc == ps.scope[l.slot]
           done == Settled(ps, l, t, o, obs)
<1> SUFFICES ASSUME NEW s \in Slot, NEW x \in EntryId, ps.active = s
             PROVE  BackoffStep(ps.scope[s].entry[x], new.scope[s].entry[x], {t})
  BY DEF BackoffsStep
<1>1. l.slot \in Slot
  BY DEF Lease
<1>2. \/ new.scope = [ps.scope EXCEPT ![l.slot] = done]
      \/ l.slot # ps.active /\ new.scope = [ps.scope EXCEPT ![l.slot] = FreeScope]
  BY ReportShape
<1>3. CASE l.slot # s
  <2> HIDE DEF new, done
  <2>1. new.scope[s] = ps.scope[s]
    BY <1>1, <1>2, <1>3 DEF ProviderScopes
  <2>2. QED
    BY <2>1, FreshBackoff
<1>4. CASE l.slot = s
  <2> DEFINE e == sc.entry[x]
             g == Reported(ps, l, t, o, obs, x)
             left == Decrement(Reported(ps, l, t, o, obs, l.channel).activeLeases)
  <2>1. new.scope[s] = done
    <3> HIDE DEF new, done
    <3>1. QED
      BY <1>1, <1>2, <1>4 DEF ProviderScopes
  <2>2. sc \in Scope /\ g \in Entry /\ done.entry[x] \in {g, Counting(g, left), AbsentEntry}
    BY SettledShape
  <2>3. e \in Entry /\ g \in {e, ReportEntry(e, x, t, o, obs), ReleaseProbe(e, t)}
    BY <2>2 DEF Scope, Reported
  <2> HIDE DEF e, g, done, left, sc
  <2>4. BackoffStep(e, g, {t})
    BY <2>3, FreshBackoff, SameBreakerBackoff, ReportEntryBackoff, ReleaseProbeBreaker
  <2>5. BackoffStep(e, done.entry[x], {t})
    <3> DEFINE c == Counting(g, left)
               f == done.entry[x]
    <3>1. SameBreaker(g, c)
      BY <2>2, CountingEntry
    <3>2. f \in {g, c, AbsentEntry}
      BY <2>2
    <3> HIDE DEF c, f
    <3>3. BackoffStep(e, c, {t})
      BY ONLY <2>4, <3>1, SameBreakerBackoff
    <3>4. BackoffStep(e, AbsentEntry, {t})
      BY FreshBackoff
    <3>5. BackoffStep(e, f, {t})
      BY <2>4, <3>2, <3>3, <3>4
    <3>6. QED
      BY <3>5 DEF f
  <2>6. QED
    BY <1>4, <2>1, <2>5 DEF e, sc
<1>5. QED
  BY <1>3, <1>4

LEMMA ProviderStepBackoff ==
    ASSUME NEW ps \in ProviderScopes, NEW new, NEW freed \in SUBSET Token,
           ProviderStep(ps, new, freed)
    PROVE  BackoffsStep(ps, new, freed)
<1>1. CASE new = ps
  BY <1>1, FreshBackoff DEF BackoffsStep
<1>2. CASE new = Retire(ps)
  BY <1>2, RetireShape, ConstantsAssumption, Zenon DEF BackoffsStep
<1>3. CASE new = AgeProvider(ps)
  <2>1. ASSUME NEW s \in Slot, NEW x \in EntryId
        PROVE  BackoffStep(ps.scope[s].entry[x], new.scope[s].entry[x], freed)
    <3>1. ps.scope[s].entry[x] \in Entry
      BY DEF ProviderScopes, Scope
    <3>2. new.scope[s].entry[x] = Age(ps.scope[s].entry[x])
      BY <1>3, AgeProviderShape
    <3>3. \A e \in Entry : Age(e).backoffLevel = e.backoffLevel
      BY DEF Age, Entry
    <3>4. QED
      BY <3>1, <3>2, <3>3 DEF BackoffStep
  <2>2. QED
    BY <2>1 DEF BackoffsStep
<1>4. ASSUME NEW u \in Update, NEW b \in BOOLEAN, new = UpdateErrorProvider(ps, u, b)
      PROVE  BackoffsStep(ps, new, freed)
  <2>1. ASSUME NEW s \in Slot, NEW x \in EntryId
        PROVE  BackoffStep(ps.scope[s].entry[x], new.scope[s].entry[x], freed)
    <3>1. SameBreaker(ps.scope[s].entry[x], new.scope[s].entry[x])
      BY <1>4, UpdateErrorEntry
    <3>2. QED
      BY <3>1 DEF BackoffStep, SameBreaker
  <2>2. QED
    BY <2>1 DEF BackoffsStep
<1>5. ASSUME NEW few \in SUBSET freed, BackoffsStep(ps, new, few)
      PROVE  BackoffsStep(ps, new, freed)
  BY <1>5 DEF BackoffsStep, BackoffStep
<1>6. BackoffsStep(ps, new, {}) => BackoffsStep(ps, new, freed)
  BY <1>5
<1>7. \A t \in freed : BackoffsStep(ps, new, {t}) => BackoffsStep(ps, new, freed)
  BY <1>5
<1>8. ASSUME NEW c \in CompiledProvider, ActiveMatches(ps, c) \/ FreeSlots(Retire(ps)) # {},
             new = ReconcileProvider(ps, c)
      PROVE  BackoffsStep(ps, new, freed)
  BY <1>6, <1>8, ReconcileBackoff
<1>9. ASSUME NEW k \in HealthKey, HasSlot(ps, k),
             new = Inspect(ps, k) \/ \E t \in Token : new = Grant(ps, k, t)
      PROVE  BackoffsStep(ps, new, freed)
  BY <1>6, <1>9, AcquireBackoff
<1>10. ASSUME NEW l \in Lease, NEW t \in freed, NEW o \in Outcome,
              NEW obs \in Observation \cup {NoObservation}, new = ReportProvider(ps, l, t, o, obs)
       PROVE  BackoffsStep(ps, new, freed)
  BY <1>7, <1>10, ReportBackoff
<1>11. QED
  BY <1>1, <1>2, <1>3, <1>4, <1>8, <1>9, <1>10 DEF ProviderStep

-----------------------------------------------------------------------------
(* LateResultsIsolated: a report writes the scope of its lease only.       *)

LEMMA ReportElsewhere ==
    ASSUME NEW ps \in ProviderScopes, NEW l \in Lease, NEW t \in Token,
           NEW o \in Outcome, NEW obs \in Observation \cup {NoObservation},
           NEW s \in Slot, s # l.slot
    PROVE  ReportProvider(ps, l, t, o, obs).scope[s] = ps.scope[s]
<1> DEFINE new == ReportProvider(ps, l, t, o, obs)
           done == Settled(ps, l, t, o, obs)
<1>1. l.slot \in Slot
  BY DEF Lease
<1>2. \/ new.scope = [ps.scope EXCEPT ![l.slot] = done]
      \/ new.scope = [ps.scope EXCEPT ![l.slot] = FreeScope]
  BY ReportShape
<1> HIDE DEF new, done
<1>3. new.scope[s] = ps.scope[s]
  BY <1>1, <1>2 DEF ProviderScopes
<1>4. QED
  BY <1>3 DEF new

-----------------------------------------------------------------------------
(* PendingErrorHasReader.  A step keeps the readers of the pending entries *)
(* it leaves pending; a report brings its own.                             *)

(* Entry x of p's active scope, when its body is still being read, has its *)
(* reader.                                                                 *)
HasReader(p, ps, x, readers) ==
    ps.scope[ps.active].entry[x].errorPending =>
        \E u \in readers :
            /\ u.provider = p
            /\ u.observation = ps.scope[ps.active].entry[x].observation
            /\ ActiveMatches(ps, u)
            /\ x \in KeyEntries(u)

(* What is pending afterwards was pending before, under the same key.      *)
PendingKept(ps, new) ==
    \A x \in EntryId :
        (new.active # NoSlot /\ new.scope[new.active].entry[x].errorPending) =>
            /\ ps.active # NoSlot
            /\ SameKey(ps.scope[ps.active], new.scope[new.active])
            /\ ps.scope[ps.active].entry[x].errorPending
            /\ new.scope[new.active].entry[x].observation = ps.scope[ps.active].entry[x].observation

LEMMA PendingKeptReader ==
    ASSUME NEW p, NEW ps, NEW new, NEW x \in EntryId, NEW readers, NEW more,
           PendingKept(ps, new), readers \subseteq more, new.active # NoSlot,
           ps.active # NoSlot => HasReader(p, ps, x, readers)
    PROVE  HasReader(p, new, x, more)
BY DEF PendingKept, HasReader, ActiveMatches, Matches, SameKey

LEMMA FreshPending == ASSUME NEW d PROVE ~NewEntry(d).errorPending /\ ~AbsentEntry.errorPending
BY DEF NewEntry, AbsentEntry

LEMMA ReconcilePending ==
    ASSUME NEW ps \in ProviderScopes, NEW c \in CompiledProvider,
           ActiveMatches(ps, c) \/ FreeSlots(Retire(ps)) # {}
    PROVE  PendingKept(ps, ReconcileProvider(ps, c))
<1> DEFINE new == ReconcileProvider(ps, c)
           old == ps.scope[ps.active]
           nxt == new.scope[new.active]
<1> SUFFICES ASSUME NEW x \in EntryId, nxt.entry[x].errorPending
             PROVE  /\ ps.active # NoSlot /\ SameKey(old, nxt)
                    /\ old.entry[x].errorPending /\ nxt.entry[x].observation = old.entry[x].observation
  BY DEF PendingKept
<1>1. CASE ActiveMatches(ps, c)
  <2>1. ps.active \in Slot /\ ps.active # NoSlot /\ old \in Scope
    BY <1>1 DEF ActiveMatches, ProviderScopes
  <2>2. nxt = ReconcileModels(old, c.models)
    BY <1>1, <2>1, ReconcileShape, ZenonT(40) DEF ProviderScopes
  <2>3. SameKey(old, nxt) /\ nxt.entry[x] \in {old.entry[x], AbsentEntry, NewEntry(InitialState(old.disableHealth))}
    <3> HIDE DEF old, nxt
    <3>1. QED
      BY <2>1, <2>2, ReconcileModelsShape
  <2> HIDE DEF old, nxt
  <2>4. nxt.entry[x] = old.entry[x]
    BY <2>3, FreshPending
  <2>5. QED
    BY <2>1, <2>3, <2>4
<1>2. CASE ~ActiveMatches(ps, c)
  <2>1. nxt = Successor(ps, c)
    <3>1. new.scope = [Retire(ps).scope EXCEPT ![new.active] = Successor(ps, c)] /\ new.active \in Slot
      BY <1>2, ReconcileShape
    <3>2. Retire(ps) \in ProviderScopes
      BY RetireType
    <3> HIDE DEF new
    <3>3. QED
      BY <3>1, <3>2 DEF ProviderScopes
  <2> DEFINE d == c.disableHealth
             same == c.disableHealth = old.disableHealth
             fresh == NewEntry(InitialState(d))
             In == InheritState(fresh, old.entry[x], same)
  <2>2. NewScope(c).entry[x] \in {fresh, AbsentEntry}
    BY NewScopeShape
  <2>3. CASE ps.active = NoSlot \/ old.epoch # c.epoch
    BY <2>1, <2>2, <2>3, FreshPending DEF Successor
  <2>4. CASE ps.active # NoSlot /\ old.epoch = c.epoch
    <3>1. old \in Scope /\ old.entry[x] \in Entry
      BY <2>4 DEF ProviderScopes, Scope
    <3>2. nxt.entry[x] = In \/ nxt.entry[x] = NewScope(c).entry[x]
      <4>1. InheritScopeState(NewScope(c), old).entry[x]
              = IF x = Global \/ (Exists(old.entry[x]) /\ x \in c.models \X RequestType)
                THEN In ELSE NewScope(c).entry[x]
        BY <3>1, InheritShape
      <4> HIDE DEF In
      <4>2. QED
        BY <2>1, <2>4, <4>1 DEF Successor
    <3>3. d \in BOOLEAN /\ fresh \in Entry /\ same \in BOOLEAN
      BY FreshEntryType DEF CompiledProvider
    <3> HIDE DEF same, fresh
    <3>4. ~In.errorPending
      BY <3>1, <3>3, InheritStateBreaker
    <3> HIDE DEF In, nxt
    <3>5. QED
      BY <2>2, <3>2, <3>4, FreshPending DEF fresh
  <2>5. QED
    BY <2>3, <2>4
<1>3. QED
  BY <1>1, <1>2

LEMMA AcquirePending ==
    ASSUME NEW ps \in ProviderScopes, NEW k \in HealthKey, HasSlot(ps, k),
           NEW new, \/ new = Inspect(ps, k)
                    \/ \E t \in Token : new = Grant(ps, k, t)
    PROVE  PendingKept(ps, new)
<1> DEFINE s == SlotForAcquire(ps, k)
<1> SUFFICES ASSUME NEW x \in EntryId, ps.active # NoSlot
             PROVE  LET e == ps.scope[ps.active].entry[x]
                        f == new.scope[ps.active].entry[x]
                    IN  /\ SameKey(ps.scope[ps.active], new.scope[ps.active])
                        /\ f.errorPending => e.errorPending /\ f.observation = e.observation
  BY AcquiredElsewhere DEF PendingKept
<1> DEFINE e == ps.scope[ps.active].entry[x]
           f == new.scope[ps.active].entry[x]
           fresh == NewEntry(InitialState(Consulted(ps, k).disableHealth))
<1>1. ps.active \in Slot /\ e \in Entry
  BY DEF ProviderScopes, Scope
<1>2. CASE ps.active # s
  <2>1. new.scope[ps.active] = ps.scope[ps.active]
    BY <1>1, <1>2, AcquiredElsewhere
  <2>2. QED
    BY <2>1 DEF SameKey
<1>3. CASE ps.active = s
  <2>1. Consulted(ps, k) = ps.scope[ps.active]
    BY <1>3, AcquiredElsewhere
  <2>2. SameKey(ps.scope[ps.active], new.scope[ps.active])
    BY <1>3, <2>1, AcquiredEntry
  <2>3. PICK g \in Entry :
            /\ g \in {e, AdvanceCooldown(e)} \/ (~Exists(e) /\ g = fresh)
            /\ f.observation = g.observation /\ f.errorPending = g.errorPending
    BY <1>3, <2>1, AcquiredEntry
  <2> HIDE DEF e, f
  <2>4. AdvanceCooldown(e).errorPending = e.errorPending /\ AdvanceCooldown(e).observation = e.observation
    BY <1>1 DEF AdvanceCooldown, Entry
  <2>5. f.errorPending => e.errorPending /\ f.observation = e.observation
    BY <2>3, <2>4, FreshPending
  <2>6. QED
    BY <2>2, <2>5 DEF e, f
<1>4. QED
  BY <1>2, <1>3

(* What is pending after a report was pending before, or the report is     *)
(* about the active scope and its own body is the one still to be read.    *)
LEMMA ReportPending ==
    ASSUME NEW ps \in ProviderScopes, NEW l \in Lease, NEW t \in Token,
           NEW o \in Outcome, NEW obs \in Observation \cup {NoObservation},
           NEW x \in EntryId, ps.active # NoSlot
    PROVE  LET new == ReportProvider(ps, l, t, o, obs)
               e == ps.scope[ps.active].entry[x]
               f == new.scope[ps.active].entry[x]
           IN  /\ new.active = ps.active
               /\ SameKey(ps.scope[ps.active], new.scope[ps.active])
               /\ f.errorPending =>
                    \/ e.errorPending /\ f.observation = e.observation
                    \/ /\ l.slot = ps.active /\ x \in {Global, l.channel}
                       /\ o.errorPending /\ f.observation = obs
<1> DEFINE new == ReportProvider(ps, l, t, o, obs)
           e == ps.scope[ps.active].entry[x]
           f == new.scope[ps.active].entry[x]
           done == Settled(ps, l, t, o, obs)
<1>1. ps.active \in Slot /\ l.slot \in Slot /\ e \in Entry
  BY DEF ProviderScopes, Lease, Scope
<1>2. new.active = ps.active
  BY DEF ReportProvider, PutBack, ProviderScopes
<1>3. CASE l.slot # ps.active
  <2>1. new.scope[ps.active] = ps.scope[ps.active]
    BY <1>1, <1>3, ReportElsewhere
  <2>2. QED
    BY <1>2, <2>1 DEF SameKey
<1>4. CASE l.slot = ps.active
  <2> DEFINE g == Reported(ps, l, t, o, obs, x)
             left == Decrement(Reported(ps, l, t, o, obs, l.channel).activeLeases)
  <2>1. new.scope[ps.active] = done
    <3>1. \/ new.scope = [ps.scope EXCEPT ![l.slot] = done]
          \/ l.slot # ps.active /\ new.scope = [ps.scope EXCEPT ![l.slot] = FreeScope]
      BY ReportShape
    <3> HIDE DEF new, done
    <3>2. QED
      BY <1>1, <1>4, <3>1 DEF ProviderScopes
  <2>2. SameKey(ps.scope[ps.active], done)
    BY <1>4, SettledShape
  <2>3. g \in Entry /\ done.entry[x] \in {g, Counting(g, left), AbsentEntry}
    BY SettledShape
  <2>4. g \in {e, ReleaseProbe(e, t)}
        \/ (x \in {Global, l.channel} /\ g = ReportEntry(e, x, t, o, obs))
    BY <1>4 DEF Reported
  <2>5. f = done.entry[x]
    BY <2>1
  <2> HIDE DEF e, f, g, done, left
  <2>6. g.errorPending => \/ e.errorPending /\ g.observation = e.observation
                          \/ /\ x \in {Global, l.channel}
                             /\ o.errorPending /\ g.observation = obs
    <3>1. \/ g.errorPending = o.errorPending /\ g.observation = obs /\ x \in {Global, l.channel}
          \/ g.errorPending = e.errorPending /\ g.observation = e.observation
      <4>1. FALSE \in BOOLEAN
        OBVIOUS
      <4>2. Kept(e, ReleaseProbe(e, t))
        BY <1>1, <4>1, VerdictKeeps
      <4>3. CASE x \in {Global, l.channel} /\ g = ReportEntry(e, x, t, o, obs)
        BY <1>1, <4>3, ReportEntryKeeps
      <4>4. CASE g \in {e, ReleaseProbe(e, t)}
        BY <4>2, <4>4 DEF Kept
      <4>5. QED
        BY <2>4, <4>3, <4>4
    <3>2. QED
      BY <3>1
  <2>7. f.errorPending => g.errorPending /\ f.observation = g.observation
    <3>1. Counting(g, left).errorPending = g.errorPending /\ Counting(g, left).observation = g.observation
      BY <2>3, CountingEntry
    <3>2. QED
      BY <2>3, <2>5, <3>1, FreshPending
  <2>8. f.errorPending => \/ e.errorPending /\ f.observation = e.observation
                          \/ /\ x \in {Global, l.channel}
                             /\ o.errorPending /\ f.observation = obs
    BY <2>6, <2>7
  <2>9. QED
    BY <1>2, <1>4, <2>1, <2>2, <2>8 DEF e, f
<1>5. QED
  BY <1>3, <1>4

-----------------------------------------------------------------------------
(* The scopes of a provider are filed: a retired one is listed once, is    *)
(* not the active one and has leases by its own counter, and a free slot   *)
(* holds nothing.                                                          *)
Filed(ps) ==
    /\ \A i \in DOMAIN ps.retired :
        /\ ps.retired[i] # ps.active
        /\ ps.scope[ps.retired[i]].activeLeases # 0
        /\ \A j \in DOMAIN ps.retired : ps.retired[i] = ps.retired[j] => i = j
    /\ \A s \in FreeSlots(ps) : ps.scope[s] = FreeScope

(* A step that files nothing away: the same slots are active and retired,  *)
(* the counters of the retired scopes stay up, and free slots stay free.   *)
LEMMA FiledSame ==
    ASSUME NEW ps \in ProviderScopes, NEW new, Filed(ps),
           new.active = ps.active, new.retired = ps.retired,
           \A s \in Slot : s # ps.active =>
                /\ ps.scope[s].activeLeases # 0 => new.scope[s].activeLeases # 0
                /\ ps.scope[s] = FreeScope => new.scope[s] = FreeScope
    PROVE  Filed(new)
<1>1. FreeSlots(new) = FreeSlots(ps)
  BY DEF FreeSlots, RetiredSlots
<1>2. \A i \in DOMAIN ps.retired : ps.retired[i] \in Slot
  BY DEF ProviderScopes
<1>3. \A s \in FreeSlots(ps) : s \in Slot /\ s # ps.active
  BY DEF FreeSlots
<1>4. QED
  BY <1>1, <1>2, <1>3 DEF Filed

LEMMA RetireFiled ==
    ASSUME NEW ps \in ProviderScopes, Filed(ps)
    PROVE  Filed(Retire(ps))
<1> DEFINE new == Retire(ps)
           a == ps.active
<1>1. new.active = NoSlot
  BY RetireShape
<1>2. \A i \in DOMAIN ps.retired : ps.retired[i] \in Slot /\ ps.retired[i] # NoSlot
  <2>1. \A i \in DOMAIN ps.retired : ps.retired[i] \in Slot
    BY DEF ProviderScopes
  <2>2. QED
    BY <2>1, ConstantsAssumption, Zenon
<1>3. CASE new = ps
  BY <1>3
<1>4. CASE /\ a \in Slot /\ ps.scope[a].activeLeases = 0
           /\ new.retired = ps.retired /\ new.scope = [ps.scope EXCEPT ![a] = FreeScope]
  <2> HIDE DEF new
  <2>1. \A s \in Slot : new.scope[s] = IF s = a THEN FreeScope ELSE ps.scope[s]
    BY <1>4 DEF ProviderScopes
  <2>2. \A s \in FreeSlots(new) : s \in Slot /\ (s = a \/ s \in FreeSlots(ps))
    BY <1>1, <1>4 DEF FreeSlots, RetiredSlots
  <2>3. \A s \in FreeSlots(new) : new.scope[s] = FreeScope
    BY <2>1, <2>2 DEF Filed
  <2>4. \A i \in DOMAIN new.retired :
            /\ new.retired[i] # new.active
            /\ new.scope[new.retired[i]].activeLeases # 0
            /\ \A j \in DOMAIN new.retired : new.retired[i] = new.retired[j] => i = j
    BY <1>1, <1>2, <1>4, <2>1 DEF Filed
  <2>5. QED
    BY <2>3, <2>4 DEF Filed, new
<1>5. CASE /\ a \in Slot /\ ps.scope[a].activeLeases # 0
           /\ new.retired = Append(ps.retired, a) /\ new.scope = ps.scope
  <2> DEFINE n == Len(ps.retired) + 1
  <2>1. /\ DOMAIN new.retired = 1..n /\ new.retired[n] = a /\ n \in Nat /\ n >= 1
        /\ DOMAIN ps.retired = 1..(n - 1)
        /\ \A i \in 1..n : i # n => i \in DOMAIN ps.retired /\ new.retired[i] = ps.retired[i]
    BY <1>5 DEF ProviderScopes
  <2> HIDE DEF new, n
  <2>2. \A i \in 1..n :
            /\ new.retired[i] # new.active
            /\ new.scope[new.retired[i]].activeLeases # 0
            /\ \A j \in 1..n : new.retired[i] = new.retired[j] => i = j
    <3>1. NoSlot # a
      BY <1>5, ConstantsAssumption, Zenon
    <3>2. \A i \in DOMAIN ps.retired :
            /\ ps.retired[i] # a /\ ps.scope[ps.retired[i]].activeLeases # 0
            /\ \A j \in DOMAIN ps.retired : ps.retired[i] = ps.retired[j] => i = j
      BY DEF Filed
    <3>3. ASSUME NEW i \in 1..n
          PROVE  new.retired[i] # NoSlot /\ ps.scope[new.retired[i]].activeLeases # 0
      BY <1>2, <1>5, <2>1, <3>1, <3>2
    <3>4. ASSUME NEW i \in 1..n, NEW j \in 1..n, new.retired[i] = new.retired[j]
          PROVE  i = j
      BY <2>1, <3>2, <3>4
    <3>5. QED
      BY <1>1, <1>5, <3>3, <3>4
  <2>3. \A s \in FreeSlots(new) : s \in FreeSlots(ps)
    <3>1. SUFFICES ASSUME NEW s \in FreeSlots(new) PROVE s \in FreeSlots(ps)
      OBVIOUS
    <3>2. s \in Slot /\ \A i \in 1..n : s # new.retired[i]
      BY <2>1 DEF FreeSlots, RetiredSlots
    <3>3. n \in 1..n /\ \A i \in DOMAIN ps.retired : i \in 1..n /\ i # n
      BY <2>1
    <3>4. s # a /\ \A i \in DOMAIN ps.retired : s # ps.retired[i]
      BY <2>1, <3>2, <3>3
    <3>5. QED
      BY <3>2, <3>4 DEF FreeSlots, RetiredSlots
  <2>4. QED
    BY <1>5, <2>1, <2>2, <2>3 DEF Filed, new
<1>6. QED
  BY <1>3, <1>4, <1>5, RetireShape

LEMMA ReconcileFiled ==
    ASSUME NEW ps \in ProviderScopes, NEW c \in CompiledProvider,
           ActiveMatches(ps, c) \/ FreeSlots(Retire(ps)) # {}, Filed(ps)
    PROVE  Filed(ReconcileProvider(ps, c))
<1> DEFINE new == ReconcileProvider(ps, c)
<1>1. CASE ActiveMatches(ps, c)
  <2>1. new.active = ps.active /\ new.retired = ps.retired
        /\ new.scope = [ps.scope EXCEPT ![ps.active] = ReconcileModels(ps.scope[ps.active], c.models)]
    BY <1>1, ReconcileShape
  <2>2. \A s \in Slot : s # ps.active => new.scope[s] = ps.scope[s]
    BY <2>1 DEF ProviderScopes
  <2> HIDE DEF new
  <2>3. Filed(new)
    BY <2>1, <2>2, FiledSame
  <2>4. QED
    BY <2>3 DEF new
<1>2. CASE ~ActiveMatches(ps, c)
  <2> DEFINE rest == Retire(ps)
             slot == new.active
             next == Successor(ps, c)
  <2>1. slot \in FreeSlots(rest) /\ new.retired = rest.retired
        /\ new.scope = [rest.scope EXCEPT ![slot] = next]
    BY <1>2, ReconcileShape
  <2>2. rest \in ProviderScopes /\ Filed(rest)
    BY RetireType, RetireFiled
  <2> HIDE DEF new, rest, next
  <2>3. slot \in Slot /\ \A i \in DOMAIN rest.retired : rest.retired[i] # slot /\ rest.retired[i] \in Slot
    BY <2>1, <2>2 DEF FreeSlots, RetiredSlots, ProviderScopes
  <2>4. \A s \in Slot : s # slot => new.scope[s] = rest.scope[s]
    BY <2>1, <2>2 DEF ProviderScopes
  <2>5. rest.active = NoSlot
    BY RetireShape DEF rest
  <2>6. \A s \in FreeSlots(new) : s \in FreeSlots(rest) /\ s # slot /\ s \in Slot
    BY <2>1, <2>5, ConstantsAssumption, Zenon DEF FreeSlots, RetiredSlots
  <2>7. Filed(new)
    BY <2>1, <2>2, <2>3, <2>4, <2>6 DEF Filed
  <2>8. QED
    BY <2>7 DEF new
<1>3. QED
  BY <1>1, <1>2

(* A scope made for an old snapshot's request is available at once.        *)
LEMMA NewRetiredScopeAvailable ==
    ASSUME NEW k \in HealthKey
    PROVE  \A x \in KeyEntries(k) : Available(Touch(NewRetiredScope(k), k).entry[x])
<1> DEFINE sc == NewRetiredScope(k)
           fresh == NewEntry(InitialState(k.disableHealth))
<1>1. sc \in Scope /\ sc.disableHealth = k.disableHealth
  BY NewRetiredScopeType, NewRetiredScopeShape
<1>2. KeyEntries(k) \subseteq EntryId
  BY DEF KeyEntries, HealthKey, EntryId, Channel
<1>3. \A x \in KeyEntries(k) : sc.entry[x] = fresh
  BY <1>2, NewRetiredScopeShape
<1>4. AdvanceCooldown(fresh) = fresh /\ Available(fresh)
  BY DEF AdvanceCooldown, Available, NewEntry, InitialState
<1> HIDE DEF sc, fresh
<1>5. \A x \in KeyEntries(k) : Touch(sc, k).entry[x] = fresh
  BY <1>1, <1>2, <1>3, <1>4, TouchShape DEF fresh
<1>6. QED
  BY <1>4, <1>5 DEF sc

(* Acquire without a lease consults a scope that was there already.        *)
LEMMA UnavailableFound ==
    ASSUME NEW ps \in ProviderScopes, NEW k \in HealthKey, HasSlot(ps, k),
           ~Decision(ps, k).available
    PROVE  Found(ps, k)
<1> SUFFICES ASSUME ~Found(ps, k) PROVE FALSE
  OBVIOUS
<1> DEFINE s == SlotForAcquire(ps, k)
           touched == Touch(NewRetiredScope(k), k)
<1>1. s \in Slot /\ Inspect(ps, k).scope = [ps.scope EXCEPT ![s] = touched]
  BY InspectShape DEF Consulted
<1> HIDE DEF touched
<1>2. Inspect(ps, k).scope[s] = touched
  BY <1>1 DEF ProviderScopes
<1>3. \A x \in KeyEntries(k) : Available(touched.entry[x])
  BY NewRetiredScopeAvailable DEF touched
<1>4. QED
  BY <1>2, <1>3 DEF Decision

LEMMA InspectFiled ==
    ASSUME NEW ps \in ProviderScopes, NEW k \in HealthKey, HasSlot(ps, k),
           ~Decision(ps, k).available, Filed(ps)
    PROVE  Filed(Inspect(ps, k))
<1> DEFINE s == SlotForAcquire(ps, k)
           new == Inspect(ps, k)
           sc == ps.scope[s]
           touched == Touch(sc, k)
<1>1. Found(ps, k) /\ Consulted(ps, k) = sc
  BY UnavailableFound DEF Consulted
<1>2. /\ s \in Slot /\ s \notin FreeSlots(ps) /\ new.active = ps.active /\ new.retired = ps.retired
      /\ new.scope = [ps.scope EXCEPT ![s] = touched] /\ sc \in Scope
  BY <1>1, InspectShape
<1>3. touched.activeLeases = sc.activeLeases
  BY <1>2, TouchShape
<1> HIDE DEF new, touched, s
<1>4. s = ps.active \/ \E i \in DOMAIN ps.retired : ps.retired[i] = s
  BY <1>2 DEF FreeSlots, RetiredSlots
<1>5. \A r \in Slot : new.scope[r] = IF r = s THEN touched ELSE ps.scope[r]
  BY <1>2 DEF ProviderScopes
<1>6. s # ps.active => ps.scope[s] # FreeScope
  BY <1>4 DEF Filed, FreeScope
<1>7. Filed(new)
  BY <1>2, <1>3, <1>5, <1>6, FiledSame, ZenonT(40)
<1>8. QED
  BY <1>7 DEF new

LEMMA GrantFiled ==
    ASSUME NEW ps \in ProviderScopes, NEW k \in HealthKey, HasSlot(ps, k), NEW t \in Token,
           Filed(ps)
    PROVE  Filed(Grant(ps, k, t))
<1> DEFINE s == SlotForAcquire(ps, k)
           new == Grant(ps, k, t)
           sc == Consulted(ps, k)
           lent == Lend(Touch(sc, k), k, t)
<1>1. s \in Slot /\ sc \in Scope
  BY InspectShape
<1>2. lent.activeLeases = sc.activeLeases + 1 /\ sc.activeLeases \in Nat
  <2>1. Touch(sc, k) \in Scope /\ Touch(sc, k).activeLeases = sc.activeLeases
    BY <1>1, TouchType, TouchShape
  <2> HIDE DEF sc
  <2>2. QED
    BY <1>1, <2>1, LendShape DEF Scope
<1>3. new.active = ps.active
  BY GrantShape
<1>4. new.scope = [ps.scope EXCEPT ![s] = lent]
  BY GrantShape
<1>5. \/ s \notin FreeSlots(ps) /\ new.retired = ps.retired
      \/ s \in FreeSlots(ps) /\ new.retired = Append(ps.retired, s)
  <2>1. new.retired = Inspect(ps, k).retired
    BY GrantShape
  <2>2. \/ s \notin FreeSlots(ps) /\ Inspect(ps, k).retired = ps.retired
        \/ s \in FreeSlots(ps) /\ Inspect(ps, k).retired = Append(ps.retired, s)
    BY InspectShape
  <2>3. QED
    BY <2>1, <2>2
<1> HIDE DEF new, lent, s, sc
<1>6. \A r \in Slot : new.scope[r] = IF r = s THEN lent ELSE ps.scope[r]
  BY <1>1, <1>4 DEF ProviderScopes
<1>7. lent.activeLeases # 0
  BY <1>2
<1>8. CASE s \notin FreeSlots(ps) /\ new.retired = ps.retired
  <2>1. s = ps.active \/ \E i \in DOMAIN ps.retired : ps.retired[i] = s
    BY <1>1, <1>8 DEF FreeSlots, RetiredSlots
  <2>2. s # ps.active => ps.scope[s] # FreeScope
    BY <2>1 DEF Filed, FreeScope
  <2>3. Filed(new)
    BY <1>3, <1>6, <1>7, <1>8, <2>2, FiledSame
  <2>4. QED
    BY <2>3 DEF new
<1>9. CASE s \in FreeSlots(ps) /\ new.retired = Append(ps.retired, s)
  <2> DEFINE n == Len(ps.retired) + 1
  <2>1. /\ DOMAIN new.retired = 1..n /\ new.retired[n] = s /\ n \in Nat /\ n >= 1
        /\ DOMAIN ps.retired = 1..(n - 1)
        /\ \A i \in 1..n : i # n => i \in DOMAIN ps.retired /\ new.retired[i] = ps.retired[i]
    BY <1>1, <1>9 DEF ProviderScopes
  <2> HIDE DEF n
  <2>2. /\ s # ps.active
        /\ \A i \in DOMAIN ps.retired :
            /\ ps.retired[i] \in Slot /\ ps.retired[i] # s /\ ps.retired[i] # ps.active
            /\ ps.scope[ps.retired[i]].activeLeases # 0
            /\ \A j \in DOMAIN ps.retired : ps.retired[i] = ps.retired[j] => i = j
    BY <1>9 DEF Filed, FreeSlots, RetiredSlots, ProviderScopes
  <2>3. ASSUME NEW i \in 1..n
        PROVE  new.retired[i] # new.active /\ new.scope[new.retired[i]].activeLeases # 0
    BY <1>1, <1>3, <1>6, <1>7, <2>1, <2>2
  <2>4. ASSUME NEW i \in 1..n, NEW j \in 1..n, new.retired[i] = new.retired[j]
        PROVE  i = j
    BY <2>1, <2>2, <2>4
  <2>5. ASSUME NEW r \in FreeSlots(new) PROVE new.scope[r] = FreeScope
    <3>1. r \in Slot /\ r # ps.active /\ \A i \in 1..n : r # new.retired[i]
      BY <1>3, <2>1 DEF FreeSlots, RetiredSlots
    <3>2. n \in 1..n /\ \A i \in DOMAIN ps.retired : i \in 1..n /\ i # n
      BY <2>1
    <3>3. r # s /\ \A i \in DOMAIN ps.retired : r # ps.retired[i]
      BY <2>1, <3>1, <3>2
    <3>4. r \in FreeSlots(ps)
      BY <3>1, <3>3 DEF FreeSlots, RetiredSlots
    <3>5. QED
      BY <1>6, <3>1, <3>3, <3>4 DEF Filed
  <2>6. QED
    BY <2>1, <2>3, <2>4, <2>5 DEF Filed, new
<1>10. QED
  BY <1>5, <1>8, <1>9

(* Removing the one occurrence of s from a sequence without repetitions.   *)
LEMMA RemoveSlotShape ==
    ASSUME NEW seq \in Seq(Slot), NEW at \in DOMAIN seq, NEW s, seq[at] = s,
           \A i, j \in DOMAIN seq : seq[i] = seq[j] => i = j
    PROVE  LET r == RemoveSlot(seq, s)
           IN  /\ \A i \in DOMAIN r : \E j \in DOMAIN seq : j # at /\ r[i] = seq[j]
               /\ \A j \in DOMAIN seq : j # at => \E i \in DOMAIN r : r[i] = seq[j]
               /\ \A i, j \in DOMAIN r : r[i] = r[j] => i = j
<1> DEFINE n == Len(seq)
           r == RemoveSlot(seq, s)
           Up(i) == IF i < at THEN i ELSE i + 1
<1>1. n \in Nat /\ DOMAIN seq = 1..n
  OBVIOUS
<1>2. at = CHOOSE i \in DOMAIN seq : seq[i] = s
  OBVIOUS
<1>3. r = [i \in 1..(n - 1) |-> IF i < at THEN seq[i] ELSE seq[i + 1]]
  BY <1>2 DEF RemoveSlot
<1> HIDE DEF r, n
<1>4. DOMAIN r = 1..(n - 1) /\ \A i \in 1..(n - 1) : r[i] = seq[Up(i)]
  BY <1>3
<1>5. \A i \in 1..(n - 1) : Up(i) \in 1..n /\ Up(i) # at
  BY <1>1
<1>6. \A i, j \in 1..(n - 1) : Up(i) = Up(j) => i = j
  BY <1>1
<1>7. \A j \in 1..n : j # at => \E i \in 1..(n - 1) : Up(i) = j
  <2> SUFFICES ASSUME NEW j \in 1..n, j # at PROVE \E i \in 1..(n - 1) : Up(i) = j
    OBVIOUS
  <2>1. CASE j < at
    BY <1>1, <2>1
  <2>2. CASE j > at
    <3>1. j - 1 \in 1..(n - 1) /\ Up(j - 1) = j
      BY <1>1, <2>2
    <3>2. QED
      BY <3>1
  <2>3. QED
    BY <1>1, <2>1, <2>2
<1> HIDE DEF Up
<1>8. QED
  BY <1>1, <1>4, <1>5, <1>6, <1>7 DEF r

LEMMA ReportFiled ==
    ASSUME NEW ps \in ProviderScopes, NEW l \in Lease, NEW t \in Token,
           NEW o \in Outcome, NEW obs \in Observation \cup {NoObservation},
           Filed(ps), l.slot \notin FreeSlots(ps)
    PROVE  Filed(ReportProvider(ps, l, t, o, obs))
<1> DEFINE done == Settled(ps, l, t, o, obs)
           new  == ReportProvider(ps, l, t, o, obs)
           s == l.slot
<1>1. s \in Slot
  BY DEF Lease
<1>2. new.active = ps.active
  BY DEF ReportProvider, PutBack, ProviderScopes
<1>3. \/ /\ s = ps.active \/ done.activeLeases # 0
         /\ new.retired = ps.retired
         /\ new.scope = [ps.scope EXCEPT ![s] = done]
      \/ /\ s # ps.active /\ done.activeLeases = 0
         /\ new.retired = RemoveSlot(ps.retired, s)
         /\ new.scope = [ps.scope EXCEPT ![s] = FreeScope]
  BY ReportShape
<1> HIDE DEF done, new, s
<1>4. s = ps.active \/ \E i \in DOMAIN ps.retired : ps.retired[i] = s
  BY <1>1 DEF FreeSlots, RetiredSlots, s
<1>5. s # ps.active => ps.scope[s] # FreeScope
  BY <1>4 DEF Filed, FreeScope
<1>6. CASE /\ s = ps.active \/ done.activeLeases # 0
           /\ new.retired = ps.retired
           /\ new.scope = [ps.scope EXCEPT ![s] = done]
  <2>1. \A r \in Slot : new.scope[r] = IF r = s THEN done ELSE ps.scope[r]
    BY <1>1, <1>6 DEF ProviderScopes
  <2>2. Filed(new)
    BY <1>2, <1>5, <1>6, <2>1, FiledSame, ZenonT(40)
  <2>3. QED
    BY <2>2 DEF new
<1>7. CASE /\ s # ps.active /\ done.activeLeases = 0
           /\ new.retired = RemoveSlot(ps.retired, s)
           /\ new.scope = [ps.scope EXCEPT ![s] = FreeScope]
  <2>1. \A r \in Slot : new.scope[r] = IF r = s THEN FreeScope ELSE ps.scope[r]
    BY <1>1, <1>7 DEF ProviderScopes
  <2>2. PICK at \in DOMAIN ps.retired : ps.retired[at] = s
    BY <1>4, <1>7
  <2>3. /\ ps.retired \in Seq(Slot)
        /\ \A i, j \in DOMAIN ps.retired : ps.retired[i] = ps.retired[j] => i = j
    BY DEF Filed, ProviderScopes
  <2>4. /\ \A i \in DOMAIN new.retired :
                \E j \in DOMAIN ps.retired : j # at /\ new.retired[i] = ps.retired[j]
        /\ \A j \in DOMAIN ps.retired : j # at =>
                \E i \in DOMAIN new.retired : new.retired[i] = ps.retired[j]
        /\ \A i, j \in DOMAIN new.retired : new.retired[i] = new.retired[j] => i = j
    BY <1>7, <2>2, <2>3, RemoveSlotShape
  <2>5. ASSUME NEW i \in DOMAIN new.retired
        PROVE  new.retired[i] # new.active /\ new.scope[new.retired[i]].activeLeases # 0
    <3>1. PICK j \in DOMAIN ps.retired : j # at /\ new.retired[i] = ps.retired[j]
      BY <2>4
    <3>2. ps.retired[j] \in Slot /\ ps.retired[j] # s
      BY <2>2, <2>3, <3>1
    <3>3. QED
      BY <1>2, <2>1, <3>1, <3>2 DEF Filed
  <2>6. ASSUME NEW r \in FreeSlots(new), r # s PROVE r \in FreeSlots(ps)
    <3>1. r \in Slot /\ r # ps.active /\ \A i \in DOMAIN new.retired : new.retired[i] # r
      BY <1>2 DEF FreeSlots, RetiredSlots
    <3>2. \A j \in DOMAIN ps.retired : ps.retired[j] # r
      BY <2>2, <2>4, <2>6, <3>1
    <3>3. QED
      BY <3>1, <3>2 DEF FreeSlots, RetiredSlots
  <2>7. \A r \in FreeSlots(new) : new.scope[r] = FreeScope
    <3>1. \A r \in FreeSlots(new) : r \in Slot
      BY DEF FreeSlots
    <3>2. QED
      BY <2>1, <2>6, <3>1 DEF Filed
  <2>8. QED
    BY <2>4, <2>5, <2>7 DEF Filed, new
<1>8. QED
  BY <1>3, <1>6, <1>7

LEMMA UpdateErrorFiled ==
    ASSUME NEW ps \in ProviderScopes, NEW u, NEW b \in BOOLEAN, Filed(ps)
    PROVE  Filed(UpdateErrorProvider(ps, u, b))
<1> DEFINE new == UpdateErrorProvider(ps, u, b)
           sc  == ps.scope[ps.active]
           f   == [x \in EntryId |->
                    IF x \in KeyEntries(u) /\ sc.entry[x].observation = u.observation
                    THEN [sc.entry[x] EXCEPT !.errorPending = FALSE, !.errorIncomplete = b]
                    ELSE sc.entry[x]]
           sd  == [sc EXCEPT !.entry = f]
<1>1. new.active = ps.active /\ new.retired = ps.retired
  BY UpdateErrorShape, ZenonT(40)
<1>2. new.scope = ps.scope \/ new.scope = [ps.scope EXCEPT ![ps.active] = sd]
  BY Zenon DEF UpdateErrorProvider, ProviderScopes
<1> HIDE DEF new, sd
<1>3. \A s \in Slot : s # ps.active => new.scope[s] = ps.scope[s]
  BY <1>2 DEF ProviderScopes
<1>4. Filed(new)
  BY <1>1, <1>3, FiledSame
<1>5. QED
  BY <1>4 DEF new

(* Time does not touch a free slot.                                        *)
LEMMA AgeFree == [FreeScope EXCEPT !.entry = [x \in EntryId |-> Age(FreeScope.entry[x])]] = FreeScope
<1>1. Age(AbsentEntry) = AbsentEntry
  <2>1. AbsentEntry.cooldownLeft = 0 /\ AbsentEntry.sinceFailure = NeverFailed
    BY DEF AbsentEntry, NewEntry
  <2>2. ~(0 > 0) /\ ~(NeverFailed < NeverFailed)
    BY PolicyFacts
  <2>3. Age(AbsentEntry) = [AbsentEntry EXCEPT !.cooldownLeft = 0, !.sinceFailure = NeverFailed]
    BY <2>1, <2>2 DEF Age
  <2>4. QED
    BY <2>3 DEF AbsentEntry, NewEntry
<1>2. \A x \in EntryId : FreeScope.entry[x] = AbsentEntry
  BY DEF FreeScope
<1>3. [x \in EntryId |-> Age(FreeScope.entry[x])] = [x \in EntryId |-> AbsentEntry]
  BY <1>1, <1>2
<1> DEFINE f == [x \in EntryId |-> AbsentEntry]
<1>4. FreeScope.entry = f
  BY DEF FreeScope
<1>5. [FreeScope EXCEPT !.entry = f] = FreeScope
  <2> HIDE DEF f
  <2>1. QED
    BY <1>4 DEF FreeScope
<1>6. QED
  BY <1>3, <1>5

LEMMA AgeFiled ==
    ASSUME NEW ps \in ProviderScopes, Filed(ps)
    PROVE  Filed(AgeProvider(ps))
<1> DEFINE new == AgeProvider(ps)
           Aged(sc) == [sc EXCEPT !.entry = [x \in EntryId |-> Age(sc.entry[x])]]
<1>1. new.active = ps.active /\ new.retired = ps.retired
      /\ \A s \in Slot : new.scope[s].activeLeases = ps.scope[s].activeLeases
  BY AgeProviderShape
<1>2. \A s \in Slot : new.scope[s] = Aged(ps.scope[s])
  BY DEF AgeProvider, ProviderScopes
<1>3. Aged(FreeScope) = FreeScope
  BY AgeFree
<1> HIDE DEF new, Aged
<1>4. Filed(new)
  BY <1>1, <1>2, <1>3, FiledSame
<1>5. QED
  BY <1>4 DEF new

-----------------------------------------------------------------------------
(* CountsExact, scope by scope; out are the leases taken from the scope.   *)

OnChannel(ls, out, x) == {t \in out : ls[t].channel = x}

Counted(sc, ls, out) ==
    /\ sc.activeLeases = Cardinality(out)
    /\ \A x \in Channel :
        /\ sc.entry[x].activeLeases = Cardinality(OnChannel(ls, out, x))
        /\ OnChannel(ls, out, x) # {} => Exists(sc.entry[x])

LEMMA OnChannelFinite ==
    ASSUME NEW ls, NEW out, IsFiniteSet(out), NEW x
    PROVE  /\ IsFiniteSet(OnChannel(ls, out, x))
           /\ Cardinality(OnChannel(ls, out, x)) \in Nat
           /\ Cardinality(OnChannel(ls, out, x)) = 0 <=> OnChannel(ls, out, x) = {}
<1>1. OnChannel(ls, out, x) \subseteq out
  BY DEF OnChannel
<1>2. IsFiniteSet(OnChannel(ls, out, x))
  BY <1>1, FS_Subset
<1>3. QED
  BY <1>2, FS_EmptySet, FS_CardinalityType

(* A scope that counts nothing is exact while no lease is out.             *)
LEMMA CountedZero ==
    ASSUME NEW sc, NEW ls, sc.activeLeases = 0,
           \A x \in Channel : sc.entry[x].activeLeases = 0
    PROVE  Counted(sc, ls, {})
<1>1. Cardinality({}) = 0
  BY FS_EmptySet
<1>2. \A x : OnChannel(ls, {}, x) = {}
  BY DEF OnChannel
<1>3. QED
  BY <1>1, <1>2 DEF Counted

LEMMA CountedNone ==
    ASSUME NEW sc, NEW ls, NEW out, IsFiniteSet(out), Counted(sc, ls, out), sc.activeLeases = 0
    PROVE  out = {}
BY FS_EmptySet DEF Counted

(* A step that moves no lease of the scope.                                *)
LEMMA CountedSame ==
    ASSUME NEW sc, NEW new, NEW ls, NEW ls2, NEW out, IsFiniteSet(out), Counted(sc, ls, out),
           \A t \in out : ls2[t] = ls[t], new.activeLeases = sc.activeLeases,
           \A x \in Channel : \/ new.entry[x] = sc.entry[x]
                              \/ /\ new.entry[x].activeLeases = sc.entry[x].activeLeases
                                 /\ Exists(sc.entry[x]) => Exists(new.entry[x])
                              \/ sc.entry[x].activeLeases = 0 /\ new.entry[x].activeLeases = 0
                              \/ ~Exists(sc.entry[x]) /\ new.entry[x].activeLeases = 0
    PROVE  Counted(new, ls2, out)
<1>1. \A x : OnChannel(ls2, out, x) = OnChannel(ls, out, x)
  BY DEF OnChannel
<1>2. ASSUME NEW x \in Channel
      PROVE  /\ new.entry[x].activeLeases = Cardinality(OnChannel(ls, out, x))
             /\ OnChannel(ls, out, x) # {} => Exists(new.entry[x])
  <2>1. /\ sc.entry[x].activeLeases = Cardinality(OnChannel(ls, out, x))
        /\ OnChannel(ls, out, x) # {} => Exists(sc.entry[x])
    BY DEF Counted
  <2>2. /\ Cardinality(OnChannel(ls, out, x)) = 0 => OnChannel(ls, out, x) = {}
        /\ OnChannel(ls, out, x) = {} => Cardinality(OnChannel(ls, out, x)) = 0
    BY OnChannelFinite
  <2>3. QED
    BY <2>1, <2>2
<1>3. QED
  BY <1>1, <1>2 DEF Counted

(* One more lease, on channel ch.                                          *)
LEMMA CountedAdd ==
    ASSUME NEW sc, NEW new, NEW ls, NEW ls2, NEW out, IsFiniteSet(out), Counted(sc, ls, out),
           NEW t, t \notin out, \A r \in out : ls2[r] = ls[r],
           NEW ch \in Channel, ls2[t].channel = ch,
           new.activeLeases = sc.activeLeases + 1,
           new.entry[ch].activeLeases = sc.entry[ch].activeLeases + 1, Exists(new.entry[ch]),
           \A x \in Channel : x # ch => new.entry[x] = sc.entry[x]
    PROVE  Counted(new, ls2, out \cup {t})
<1>1. Cardinality(out \cup {t}) = Cardinality(out) + 1
  BY FS_AddElement
<1>2. ASSUME NEW x \in Channel, x # ch
      PROVE  OnChannel(ls2, out \cup {t}, x) = OnChannel(ls, out, x)
  BY <1>2 DEF OnChannel
<1>3. OnChannel(ls2, out \cup {t}, ch) = OnChannel(ls, out, ch) \cup {t}
  BY DEF OnChannel
<1>4. Cardinality(OnChannel(ls2, out \cup {t}, ch)) = Cardinality(OnChannel(ls, out, ch)) + 1
  <2>1. t \notin OnChannel(ls, out, ch)
    BY DEF OnChannel
  <2>2. IsFiniteSet(OnChannel(ls, out, ch))
    BY OnChannelFinite
  <2>3. QED
    BY <1>3, <2>1, <2>2, FS_AddElement
<1>5. QED
  BY <1>1, <1>2, <1>4 DEF Counted

(* One lease less, on channel ch, whose entry may go with its last lease.  *)
OneLess(sc, new, ch) ==
    /\ new.activeLeases = Decrement(sc.activeLeases)
    /\ new.entry[ch].activeLeases = Decrement(sc.entry[ch].activeLeases)
    /\ new.entry[ch].activeLeases # 0 => Exists(new.entry[ch])
    /\ \A x \in Channel : x # ch => new.entry[x] = sc.entry[x]

LEMMA CountedRemove ==
    ASSUME NEW sc, NEW new, NEW ls, NEW ls2, NEW out, IsFiniteSet(out), Counted(sc, ls, out),
           NEW t \in out, \A r \in out \ {t} : ls2[r] = ls[r],
           NEW ch \in Channel, ls[t].channel = ch, OneLess(sc, new, ch)
    PROVE  Counted(new, ls2, out \ {t})
<1> DEFINE on == OnChannel(ls, out, ch)
           off == OnChannel(ls2, out \ {t}, ch)
<1> USE DEF OneLess
<1>1. Cardinality(out \ {t}) = Decrement(sc.activeLeases)
  <2>1. Cardinality(out \ {t}) = Cardinality(out) - 1 /\ Cardinality(out) \in Nat
    BY FS_RemoveElement, FS_CardinalityType
  <2>2. Cardinality(out) # 0
    BY FS_EmptySet
  <2>3. QED
    BY <2>1, <2>2 DEF Counted, Decrement
<1>2. ASSUME NEW x \in Channel, x # ch
      PROVE  OnChannel(ls2, out \ {t}, x) = OnChannel(ls, out, x)
  BY <1>2 DEF OnChannel
<1>3. off = on \ {t} /\ t \in on
  BY DEF OnChannel
<1>4. Cardinality(off) = Decrement(sc.entry[ch].activeLeases)
  <2>1. IsFiniteSet(on) /\ Cardinality(on) \in Nat
    BY OnChannelFinite
  <2>2. Cardinality(on) # 0
    BY <1>3, <2>1, FS_EmptySet
  <2>3. Cardinality(off) = Cardinality(on) - 1
    BY <1>3, <2>1, FS_RemoveElement
  <2>4. QED
    BY <2>1, <2>2, <2>3 DEF Counted, Decrement
<1>5. Cardinality(off) = 0 => off = {}
  <2>1. IsFiniteSet(out \ {t})
    BY FS_RemoveElement
  <2>2. QED
    BY <2>1, OnChannelFinite
<1> HIDE DEF off, on
<1>6. off # {} => Exists(new.entry[ch])
  BY <1>4, <1>5
<1>7. QED
  BY <1>1, <1>2, <1>4, <1>6 DEF Counted, off

(* The operations on one scope.                                            *)
LEMMA FreshCounted ==
    ASSUME NEW ls
    PROVE  /\ Counted(FreeScope, ls, {})
           /\ \A c \in CompiledProvider : Counted(NewScope(c), ls, {})
           /\ \A k \in HealthKey : Counted(NewRetiredScope(k), ls, {})
<1>1. \A d : NewEntry(d).activeLeases = 0
  BY DEF NewEntry
<1>2. \A x \in Channel : x \in EntryId
  BY DEF EntryId
<1>3. Counted(FreeScope, ls, {})
  <2>1. FreeScope.activeLeases = 0 /\ \A x \in Channel : FreeScope.entry[x].activeLeases = 0
    BY <1>1, <1>2 DEF FreeScope, AbsentEntry
  <2>2. QED
    BY <2>1, CountedZero
<1>4. ASSUME NEW c \in CompiledProvider PROVE Counted(NewScope(c), ls, {})
  <2> DEFINE sc == NewScope(c)
  <2>1. sc.activeLeases = 0
    BY NewScopeShape
  <2>2. \A x \in EntryId : sc.entry[x] \in {NewEntry(InitialState(c.disableHealth)), AbsentEntry}
    BY NewScopeShape
  <2> HIDE DEF sc
  <2>3. \A x \in Channel : sc.entry[x].activeLeases = 0
    BY <1>1, <1>2, <2>2 DEF AbsentEntry
  <2>4. Counted(sc, ls, {})
    BY <2>1, <2>3, CountedZero
  <2>5. QED
    BY <2>4 DEF sc
<1>5. ASSUME NEW k \in HealthKey PROVE Counted(NewRetiredScope(k), ls, {})
  <2> DEFINE sc == NewRetiredScope(k)
  <2>1. sc.activeLeases = 0
    BY NewRetiredScopeShape
  <2>2. \A x \in EntryId : sc.entry[x] \in {NewEntry(InitialState(k.disableHealth)), AbsentEntry}
    BY NewRetiredScopeShape
  <2> HIDE DEF sc
  <2>3. \A x \in Channel : sc.entry[x].activeLeases = 0
    BY <1>1, <1>2, <2>2 DEF AbsentEntry
  <2>4. Counted(sc, ls, {})
    BY <2>1, <2>3, CountedZero
  <2>5. QED
    BY <2>4 DEF sc
<1>6. QED
  BY <1>3, <1>4, <1>5

LEMMA InheritCounted ==
    ASSUME NEW c \in CompiledProvider, NEW src \in Scope, NEW ls
    PROVE  Counted(InheritScopeState(NewScope(c), src), ls, {})
<1> DEFINE new == InheritScopeState(NewScope(c), src)
           fresh == NewEntry(InitialState(c.disableHealth))
           same == c.disableHealth = src.disableHealth
<1>1. new.activeLeases = 0
  BY InheritShape
<1>2. \A x \in EntryId : new.entry[x] \in {InheritState(fresh, src.entry[x], same), NewScope(c).entry[x]}
  BY InheritShape
<1>3. fresh \in Entry /\ fresh.activeLeases = 0
  BY FreshEntryType DEF CompiledProvider, NewEntry
<1>4. \A x \in EntryId : NewScope(c).entry[x].activeLeases = 0
  <2>1. \A x \in EntryId : NewScope(c).entry[x] \in {fresh, AbsentEntry}
    BY NewScopeShape
  <2>2. QED
    BY <1>3, <2>1 DEF AbsentEntry, NewEntry
<1>5. \A x \in EntryId : src.entry[x] \in Entry
  BY DEF Scope
<1>6. same \in BOOLEAN
  OBVIOUS
<1>7. \A x \in EntryId : InheritState(fresh, src.entry[x], same).activeLeases = 0
  <2> HIDE DEF fresh, same
  <2>1. QED
    BY <1>3, <1>5, <1>6, InheritStateBreaker
<1> HIDE DEF new, fresh, same
<1>8. \A x \in EntryId : new.entry[x].activeLeases = 0
  BY <1>2, <1>4, <1>7
<1>9. \A x \in Channel : x \in EntryId
  BY DEF EntryId
<1>10. Counted(new, ls, {})
  BY <1>1, <1>8, <1>9, CountedZero
<1>11. QED
  BY <1>10 DEF new

LEMMA ReconcileModelsCounted ==
    ASSUME NEW sc \in Scope, NEW models, NEW ls, NEW out, IsFiniteSet(out), Counted(sc, ls, out)
    PROVE  Counted(ReconcileModels(sc, models), ls, out)
<1> DEFINE new == ReconcileModels(sc, models)
           fresh == NewEntry(InitialState(sc.disableHealth))
<1>1. new.activeLeases = sc.activeLeases
  BY ReconcileModelsShape
<1>2. \A x \in EntryId : \/ new.entry[x] = sc.entry[x]
                         \/ ~Exists(sc.entry[x]) /\ new.entry[x] = fresh
                         \/ sc.entry[x].activeLeases = 0 /\ new.entry[x] = AbsentEntry
  BY ReconcileModelsShape
<1>3. fresh.activeLeases = 0 /\ AbsentEntry.activeLeases = 0
  BY DEF NewEntry, AbsentEntry
<1>4. \A x \in Channel : x \in EntryId
  BY DEF EntryId
<1> HIDE DEF new, fresh
<1>5. \A x \in Channel : \/ new.entry[x] = sc.entry[x]
                         \/ sc.entry[x].activeLeases = 0 /\ new.entry[x].activeLeases = 0
                         \/ ~Exists(sc.entry[x]) /\ new.entry[x].activeLeases = 0
  BY <1>2, <1>3, <1>4
<1>6. Counted(new, ls, out)
  BY <1>1, <1>5, CountedSame
<1>7. QED
  BY <1>6 DEF new

LEMMA TouchCounted ==
    ASSUME NEW sc \in Scope, NEW k \in HealthKey, NEW ls, NEW out, IsFiniteSet(out), Counted(sc, ls, out)
    PROVE  Counted(Touch(sc, k), ls, out)
<1> DEFINE new == Touch(sc, k)
           fresh == NewEntry(InitialState(sc.disableHealth))
<1>1. new.activeLeases = sc.activeLeases
  BY TouchShape
<1>2. \A x \in EntryId : \/ new.entry[x] = sc.entry[x]
                         \/ ~Exists(sc.entry[x]) /\ new.entry[x] = fresh
                         \/ new.entry[x] = AdvanceCooldown(sc.entry[x])
  BY TouchShape
<1>3. fresh.activeLeases = 0
  BY DEF NewEntry
<1>4. \A x \in Channel : x \in EntryId /\ sc.entry[x] \in Entry
  BY DEF EntryId, Scope
<1>5. \A e \in Entry : /\ AdvanceCooldown(e).activeLeases = e.activeLeases
                       /\ Exists(e) => Exists(AdvanceCooldown(e))
  BY DEF AdvanceCooldown, Exists, Entry
<1> HIDE DEF new, fresh
<1>6. \A x \in Channel : \/ new.entry[x] = sc.entry[x]
                         \/ /\ new.entry[x].activeLeases = sc.entry[x].activeLeases
                            /\ Exists(sc.entry[x]) => Exists(new.entry[x])
                         \/ ~Exists(sc.entry[x]) /\ new.entry[x].activeLeases = 0
  BY <1>2, <1>3, <1>4, <1>5
<1>7. Counted(new, ls, out)
  BY <1>1, <1>6, CountedSame
<1>8. QED
  BY <1>7 DEF new

LEMMA LendCounted ==
    ASSUME NEW sc \in Scope, NEW k \in HealthKey, NEW ls, NEW ls2, NEW out, IsFiniteSet(out),
           Counted(sc, ls, out), NEW t, t \notin out, \A r \in out : ls2[r] = ls[r],
           ls2[t].channel = <<k.model, k.requestType>>,
           Exists(sc.entry[<<k.model, k.requestType>>])
    PROVE  Counted(Lend(sc, k, t), ls2, out \cup {t})
<1> DEFINE new == Lend(sc, k, t)
           ch == <<k.model, k.requestType>>
           f == Lent(sc.entry[ch], ch, t)
<1>1. ch \in Channel /\ ch # Global /\ ch \in KeyEntries(k)
  <2>1. ch \in Channel
    BY DEF Channel, HealthKey
  <2>2. QED
    BY <2>1, ConstantsAssumption, Zenon DEF KeyEntries
<1>2. \A x \in Channel : x \in EntryId /\ x # Global /\ (x # ch => x \notin KeyEntries(k))
  BY ConstantsAssumption, Zenon DEF EntryId, KeyEntries
<1>3. new.activeLeases = sc.activeLeases + 1
  BY LendShape
<1>4. \A x \in EntryId : new.entry[x] = IF x \notin KeyEntries(k) THEN sc.entry[x]
                                        ELSE Lent(sc.entry[x], x, t)
  BY LendShape
<1>5. sc.entry[ch] \in Entry
  BY <1>1, <1>2 DEF Scope
<1> HIDE DEF new, ch
<1>6. SameBreaker(sc.entry[ch], f) /\ f.activeLeases = sc.entry[ch].activeLeases + 1
  BY <1>1, <1>5, LentEntry
<1> HIDE DEF f
<1>7. new.entry[ch] = f /\ \A x \in Channel : x # ch => new.entry[x] = sc.entry[x]
  BY <1>1, <1>2, <1>4 DEF f
<1>8. Exists(f)
  BY <1>6 DEF SameBreaker, Exists, ch
<1>9. ls2[t].channel = ch
  BY DEF ch
<1>10. Counted(new, ls2, out \cup {t})
  BY <1>1, <1>3, <1>6, <1>7, <1>8, <1>9, CountedAdd
<1>11. QED
  BY <1>10 DEF new

(* What a report leaves of a lease's scope counts one lease less.          *)
LEMMA SettledCounted ==
    ASSUME NEW ps \in ProviderScopes, NEW l \in Lease, NEW t \in Token,
           NEW o \in Outcome, NEW obs \in Observation \cup {NoObservation},
           NEW ls, NEW ls2, NEW out, IsFiniteSet(out), Counted(ps.scope[l.slot], ls, out),
           t \in out, ls[t] = l, \A r \in out \ {t} : ls2[r] = ls[r]
    PROVE  Counted(Settled(ps, l, t, o, obs), ls2, out \ {t})
<1> DEFINE sc   == ps.scope[l.slot]
           ch   == l.channel
           done == Settled(ps, l, t, o, obs)
           Rep(x) == Reported(ps, l, t, o, obs, x)
           left == Decrement(Rep(ch).activeLeases)
<1>1. sc \in Scope /\ l.slot \in Slot /\ ch \in Channel /\ ch \in EntryId
  BY SettledShape DEF EntryId
<1>2. done.activeLeases = Decrement(sc.activeLeases)
  BY SettledShape
<1>3. \A x \in EntryId : Rep(x) \in Entry
  BY SettledShape
<1>4. \A x \in EntryId : x # ch => done.entry[x] = Rep(x)
  BY SettledShape
<1>5. \/ done.entry[ch] = AbsentEntry /\ left = 0
      \/ done.entry[ch] = Counting(Rep(ch), left)
  BY <1>1, SettledShape
<1>6. \A x \in Channel : x \in EntryId /\ x # Global /\ (x # ch => Rep(x) = sc.entry[x])
  BY ConstantsAssumption, Zenon DEF Reported, EntryId
<1>7. Rep(ch).activeLeases = sc.entry[ch].activeLeases /\ (Exists(sc.entry[ch]) => Exists(Rep(ch)))
  <2> DEFINE e == sc.entry[ch]
  <2>1. e \in Entry
    BY <1>1 DEF Scope
  <2>2. Rep(ch) = ReportEntry(e, ch, t, o, obs) \/ Rep(ch) = ReleaseProbe(e, t)
    BY DEF Reported
  <2> HIDE DEF e, Rep, ch
  <2>3. /\ ReportEntry(e, ch, t, o, obs).activeLeases = e.activeLeases
        /\ Exists(e) => Exists(ReportEntry(e, ch, t, o, obs))
    BY <2>1, ReportEntryKeeps
  <2>4. /\ ReleaseProbe(e, t).activeLeases = e.activeLeases
        /\ Exists(e) => Exists(ReleaseProbe(e, t))
    BY <2>1 DEF ReleaseProbe, Exists, Entry
  <2>5. Rep(ch).activeLeases = e.activeLeases /\ (Exists(e) => Exists(Rep(ch)))
    BY <2>2, <2>3, <2>4
  <2>6. QED
    BY <2>5 DEF e
<1>8. OnChannel(ls, out, ch) # {} /\ Exists(sc.entry[ch])
  <2>1. t \in OnChannel(ls, out, ch)
    BY DEF OnChannel
  <2>2. QED
    BY <1>1, <2>1 DEF Counted
<1> HIDE DEF done, Rep, sc
<1>9. /\ Counting(Rep(ch), left).activeLeases = left
      /\ Exists(Counting(Rep(ch), left))
  <2>1. SameBreaker(Rep(ch), Counting(Rep(ch), left)) /\ Counting(Rep(ch), left).activeLeases = left
    BY <1>1, <1>3, CountingEntry
  <2>2. QED
    BY <1>7, <1>8, <2>1 DEF SameBreaker, Exists
<1>10. AbsentEntry.activeLeases = 0
  BY DEF AbsentEntry, NewEntry
<1>11. left = Decrement(sc.entry[ch].activeLeases)
  BY <1>7
<1> HIDE DEF left, ch
<1>12. /\ done.entry[ch].activeLeases = Decrement(sc.entry[ch].activeLeases)
       /\ done.entry[ch].activeLeases # 0 => Exists(done.entry[ch])
  BY <1>5, <1>9, <1>10, <1>11
<1>13. \A x \in Channel : x # ch => done.entry[x] = sc.entry[x]
  BY <1>4, <1>6
<1>14. Counted(sc, ls, out) /\ ls[t].channel = ch
  BY DEF sc, ch
<1>15. OneLess(sc, done, ch)
  BY <1>2, <1>12, <1>13 DEF OneLess
<1>16. Counted(done, ls2, out \ {t})
  BY <1>1, <1>14, <1>15, CountedRemove
<1>17. QED
  BY <1>16 DEF done

-----------------------------------------------------------------------------
(* The scopes of one provider; ls are the leases, p the provider.          *)

Out(ls, p, s) == {t \in Token : ls[t] # NoLease /\ ls[t].provider = p /\ ls[t].slot = s}

Accounted(ps, ls, p) == \A s \in Slot : Counted(ps.scope[s], ls, Out(ls, p, s))

LEMMA OutFinite == ASSUME NEW ls, NEW p, NEW s PROVE IsFiniteSet(Out(ls, p, s))
<1>1. Out(ls, p, s) \subseteq Token
  BY DEF Out
<1>2. QED
  BY <1>1, FS_Subset, ConstantsAssumption, Zenon

(* No lease is out of a free slot.                                         *)
LEMMA FreeSlotUnused ==
    ASSUME NEW ps, NEW ls, NEW p, Filed(ps), Accounted(ps, ls, p), NEW s \in FreeSlots(ps)
    PROVE  Out(ls, p, s) = {}
<1>1. s \in Slot /\ ps.scope[s] = FreeScope /\ Counted(ps.scope[s], ls, Out(ls, p, s))
  BY DEF FreeSlots, Filed, Accounted
<1>2. FreeScope.activeLeases = 0
  BY DEF FreeScope
<1>3. QED
  BY <1>1, <1>2, CountedNone, OutFinite

(* One scope is replaced.                                                  *)
LEMMA ReplaceAccounted ==
    ASSUME NEW ps \in ProviderScopes, NEW new, NEW ls, NEW p, Accounted(ps, ls, p),
           NEW s \in Slot, NEW sc, new.scope = [ps.scope EXCEPT ![s] = sc],
           Counted(sc, ls, Out(ls, p, s))
    PROVE  Accounted(new, ls, p)
<1>1. \A r \in Slot : new.scope[r] = IF r = s THEN sc ELSE ps.scope[r]
  BY DEF ProviderScopes
<1>2. QED
  BY <1>1 DEF Accounted

LEMMA RetireAccounted ==
    ASSUME NEW ps \in ProviderScopes, NEW ls, NEW p, Accounted(ps, ls, p)
    PROVE  Accounted(Retire(ps), ls, p)
<1> DEFINE new == Retire(ps)
           a == ps.active
<1>1. \/ new.scope = ps.scope
      \/ /\ a \in Slot /\ ps.scope[a].activeLeases = 0
         /\ new.scope = [ps.scope EXCEPT ![a] = FreeScope]
  BY RetireShape
<1> HIDE DEF new, a
<1>2. CASE new.scope = ps.scope
  BY <1>2 DEF Accounted, new
<1>3. CASE /\ a \in Slot /\ ps.scope[a].activeLeases = 0
           /\ new.scope = [ps.scope EXCEPT ![a] = FreeScope]
  <2>1. Counted(ps.scope[a], ls, Out(ls, p, a))
    BY <1>3 DEF Accounted
  <2>2. Out(ls, p, a) = {}
    BY <1>3, <2>1, CountedNone, OutFinite
  <2>3. Counted(FreeScope, ls, Out(ls, p, a))
    BY <2>2, FreshCounted
  <2>4. Accounted(new, ls, p)
    BY <1>3, <2>3, ReplaceAccounted
  <2>5. QED
    BY <2>4 DEF new
<1>4. QED
  BY <1>1, <1>2, <1>3

LEMMA ReconcileAccounted ==
    ASSUME NEW ps \in ProviderScopes, NEW c \in CompiledProvider, NEW ls, NEW p,
           ActiveMatches(ps, c) \/ FreeSlots(Retire(ps)) # {}, Filed(ps), Accounted(ps, ls, p)
    PROVE  Accounted(ReconcileProvider(ps, c), ls, p)
<1> DEFINE new == ReconcileProvider(ps, c)
<1>1. CASE ActiveMatches(ps, c)
  <2> DEFINE a == ps.active
             sc == ReconcileModels(ps.scope[a], c.models)
  <2>1. a \in Slot
    BY <1>1 DEF ActiveMatches, ProviderScopes
  <2>2. new.scope = [ps.scope EXCEPT ![a] = sc]
    BY <1>1, ReconcileShape
  <2>3. ps.scope[a] \in Scope /\ Counted(ps.scope[a], ls, Out(ls, p, a))
    BY <2>1 DEF ProviderScopes, Accounted
  <2>4. Counted(sc, ls, Out(ls, p, a))
    BY <2>3, ReconcileModelsCounted, OutFinite
  <2> HIDE DEF new, sc, a
  <2>5. Accounted(new, ls, p)
    BY <2>1, <2>2, <2>4, ReplaceAccounted
  <2>6. QED
    BY <2>5 DEF new
<1>2. CASE ~ActiveMatches(ps, c)
  <2> DEFINE rest == Retire(ps)
             slot == new.active
             next == Successor(ps, c)
  <2>1. slot \in FreeSlots(rest) /\ new.scope = [rest.scope EXCEPT ![slot] = next]
    BY <1>2, ReconcileShape
  <2>2. rest \in ProviderScopes /\ Filed(rest) /\ Accounted(rest, ls, p)
    BY RetireType, RetireFiled, RetireAccounted
  <2>3. Counted(next, ls, {})
    <3>1. ps.active # NoSlot => ps.scope[ps.active] \in Scope
      BY DEF ProviderScopes
    <3>2. QED
      BY <3>1, FreshCounted, InheritCounted DEF Successor
  <2> HIDE DEF new, rest, slot, next
  <2>4. slot \in Slot /\ Out(ls, p, slot) = {}
    <3>1. slot \in Slot
      BY <2>1 DEF FreeSlots
    <3>2. QED
      BY <2>1, <2>2, <3>1, FreeSlotUnused
  <2>5. Accounted(new, ls, p)
    BY <2>1, <2>2, <2>3, <2>4, ReplaceAccounted
  <2>6. QED
    BY <2>5 DEF new
<1>3. QED
  BY <1>1, <1>2

(* The scope that Acquire consults is exact, whether it was there before   *)
(* or is made for the request.                                             *)
LEMMA ConsultedCounted ==
    ASSUME NEW ps \in ProviderScopes, NEW k \in HealthKey, HasSlot(ps, k), NEW ls, NEW p,
           Filed(ps), Accounted(ps, ls, p)
    PROVE  Counted(Touch(Consulted(ps, k), k), ls, Out(ls, p, SlotForAcquire(ps, k)))
<1> DEFINE s == SlotForAcquire(ps, k)
           sc == Consulted(ps, k)
<1>1. s \in Slot /\ sc \in Scope
  BY InspectShape
<1>2. CASE Found(ps, k)
  <2>1. sc = ps.scope[s]
    BY <1>2 DEF Consulted
  <2> HIDE DEF s, sc
  <2>2. Counted(sc, ls, Out(ls, p, s))
    BY <1>1, <2>1 DEF Accounted
  <2>3. Counted(Touch(sc, k), ls, Out(ls, p, s))
    BY <1>1, <2>2, TouchCounted, OutFinite
  <2>4. QED
    BY <2>3 DEF s, sc
<1>3. CASE ~Found(ps, k)
  <2>1. s \in FreeSlots(ps)
    BY <1>3, InspectShape
  <2>2. sc = NewRetiredScope(k)
    BY <1>3 DEF Consulted
  <2> HIDE DEF s, sc
  <2>3. Counted(sc, ls, Out(ls, p, s))
    BY <2>1, <2>2, FreeSlotUnused, FreshCounted
  <2>4. Counted(Touch(sc, k), ls, Out(ls, p, s))
    BY <1>1, <2>3, TouchCounted, OutFinite
  <2>5. QED
    BY <2>4 DEF s, sc
<1>4. QED
  BY <1>2, <1>3

LEMMA InspectAccounted ==
    ASSUME NEW ps \in ProviderScopes, NEW k \in HealthKey, HasSlot(ps, k), NEW ls, NEW p,
           Filed(ps), Accounted(ps, ls, p)
    PROVE  Accounted(Inspect(ps, k), ls, p)
<1> DEFINE s == SlotForAcquire(ps, k)
           sc == Touch(Consulted(ps, k), k)
           new == Inspect(ps, k)
<1>1. s \in Slot /\ new.scope = [ps.scope EXCEPT ![s] = sc]
  BY InspectShape
<1>2. Counted(sc, ls, Out(ls, p, s))
  BY ConsultedCounted
<1> HIDE DEF s, sc, new
<1>3. Accounted(new, ls, p)
  BY <1>1, <1>2, ReplaceAccounted
<1>4. QED
  BY <1>3 DEF new

LEMMA LeaseIsReal == ASSUME NEW l \in Lease PROVE l # NoLease
<1>1. l.provider \in Provider
  BY DEF Lease
<1>2. NoLease.provider = ""
  BY DEF NoLease
<1>3. QED
  BY <1>1, <1>2, ConstantsAssumption, Zenon

(* How the leases of a scope change when one is taken or given back.       *)
LEMMA OutGrant ==
    ASSUME NEW ls \in [Token -> Lease \cup {NoLease}], NEW t \in Token, ls[t] = NoLease,
           NEW l \in Lease, NEW ls2, NEW q, NEW r,
           \A u \in Token : ls2[u] = IF u = t THEN l ELSE ls[u]
    PROVE  /\ t \notin Out(ls, q, r) /\ \A u \in Out(ls, q, r) : ls2[u] = ls[u]
           /\ q = l.provider /\ r = l.slot => Out(ls2, q, r) = Out(ls, q, r) \cup {t}
           /\ q # l.provider \/ r # l.slot => Out(ls2, q, r) = Out(ls, q, r)
<1>1. l # NoLease
  BY LeaseIsReal
<1>2. QED
  BY <1>1 DEF Out

LEMMA OutReport ==
    ASSUME NEW ls \in [Token -> Lease \cup {NoLease}], NEW t \in Token, ls[t] # NoLease,
           NEW ls2, NEW q, NEW r,
           \A u \in Token : ls2[u] = IF u = t THEN NoLease ELSE ls[u]
    PROVE  /\ \A u \in Out(ls, q, r) \ {t} : ls2[u] = ls[u]
           /\ Out(ls2, q, r) = Out(ls, q, r) \ {t}
           /\ q = ls[t].provider /\ r = ls[t].slot => t \in Out(ls, q, r)
           /\ t \in Out(ls, q, r) => q = ls[t].provider /\ r = ls[t].slot
BY DEF Out

LEMMA CountedFrame ==
    ASSUME NEW sc, NEW ls, NEW ls2, NEW out, IsFiniteSet(out), Counted(sc, ls, out),
           \A u \in out : ls2[u] = ls[u]
    PROVE  Counted(sc, ls2, out)
BY CountedSame

LEMMA GrantAccounted ==
    ASSUME NEW ps \in ProviderScopes, NEW k \in HealthKey, HasSlot(ps, k),
           NEW ls \in [Token -> Lease \cup {NoLease}], NEW p,
           NEW t \in Token, ls[t] = NoLease, NEW l \in Lease, l.provider = p,
           l.slot = SlotForAcquire(ps, k), l.channel = <<k.model, k.requestType>>,
           Filed(ps), Accounted(ps, ls, p)
    PROVE  Accounted(Grant(ps, k, t), [ls EXCEPT ![t] = l], p)
<1> DEFINE s == SlotForAcquire(ps, k)
           ch == <<k.model, k.requestType>>
           sc == Touch(Consulted(ps, k), k)
           lent == Lend(sc, k, t)
           new == Grant(ps, k, t)
           ls2 == [ls EXCEPT ![t] = l]
<1>1. s \in Slot /\ Consulted(ps, k) \in Scope
  BY InspectShape
<1>2. sc \in Scope
  BY <1>1, TouchType
<1>3. new.scope = [ps.scope EXCEPT ![s] = lent]
  BY GrantShape
<1>4. Counted(sc, ls, Out(ls, p, s))
  BY ConsultedCounted
<1>5. Exists(sc.entry[ch])
  <2> DEFINE e == Consulted(ps, k).entry[ch]
             fresh == NewEntry(InitialState(Consulted(ps, k).disableHealth))
  <2>1. ch \in EntryId /\ ch \in KeyEntries(k)
    BY DEF HealthKey, Channel, EntryId, KeyEntries
  <2>2. sc.entry[ch] = IF ~Exists(e) THEN fresh ELSE AdvanceCooldown(e)
    BY <1>1, <2>1, TouchShape
  <2>3. Exists(fresh)
    BY DEF Exists, NewEntry, InitialState
  <2>4. e \in Entry
    BY <1>1, <2>1 DEF Scope
  <2> HIDE DEF e, fresh, ch, sc
  <2>5. Exists(e) => Exists(AdvanceCooldown(e))
    BY <2>4 DEF AdvanceCooldown, Exists, Entry
  <2>6. QED
    BY <2>2, <2>3, <2>5
<1>6. \A r : /\ t \notin Out(ls, p, r) /\ \A u \in Out(ls, p, r) : ls2[u] = ls[u]
             /\ Out(ls2, p, r) = IF r = s THEN Out(ls, p, r) \cup {t} ELSE Out(ls, p, r)
  <2> SUFFICES ASSUME NEW r
               PROVE  /\ t \notin Out(ls, p, r) /\ \A u \in Out(ls, p, r) : ls2[u] = ls[u]
                      /\ Out(ls2, p, r) = IF r = s THEN Out(ls, p, r) \cup {t} ELSE Out(ls, p, r)
    OBVIOUS
  <2>1. \A u \in Token : ls2[u] = IF u = t THEN l ELSE ls[u]
    OBVIOUS
  <2> HIDE DEF ls2
  <2>2. QED
    BY <2>1, OutGrant
<1>7. ls2[t].channel = ch
  OBVIOUS
<1> HIDE DEF s, sc, ls2
<1>8. Counted(lent, ls2, Out(ls, p, s) \cup {t})
  BY <1>2, <1>4, <1>5, <1>6, <1>7, LendCounted, OutFinite
<1> HIDE DEF lent, new, ch
<1>9. \A r \in Slot : new.scope[r] = IF r = s THEN lent ELSE ps.scope[r]
  BY <1>1, <1>3 DEF ProviderScopes
<1>10. ASSUME NEW r \in Slot, r # s PROVE Counted(new.scope[r], ls2, Out(ls2, p, r))
  <2>1. Counted(ps.scope[r], ls, Out(ls, p, r))
    BY DEF Accounted
  <2>2. Counted(ps.scope[r], ls2, Out(ls, p, r))
    BY <1>6, <2>1, CountedFrame, OutFinite
  <2>3. QED
    BY <1>6, <1>9, <1>10, <2>2
<1>11. Counted(new.scope[s], ls2, Out(ls2, p, s))
  BY <1>1, <1>6, <1>8, <1>9
<1>12. Accounted(new, ls2, p)
  BY <1>10, <1>11 DEF Accounted
<1>13. QED
  BY <1>12 DEF new, ls2

LEMMA ReportAccounted ==
    ASSUME NEW ps \in ProviderScopes, NEW ls \in [Token -> Lease \cup {NoLease}],
           NEW t \in Token, NEW o \in Outcome, NEW obs \in Observation \cup {NoObservation},
           NEW l \in Lease, ls[t] = l, NEW p, l.provider = p, Accounted(ps, ls, p)
    PROVE  Accounted(ReportProvider(ps, l, t, o, obs), [ls EXCEPT ![t] = NoLease], p)
<1> DEFINE done == Settled(ps, l, t, o, obs)
           new  == ReportProvider(ps, l, t, o, obs)
           s    == l.slot
           ls2  == [ls EXCEPT ![t] = NoLease]
<1>1. s \in Slot /\ ls[t] # NoLease
  <2>1. s \in Slot
    BY DEF Lease
  <2>2. QED
    BY <2>1, LeaseIsReal
<1>2. \/ new.scope = [ps.scope EXCEPT ![s] = done]
      \/ done.activeLeases = 0 /\ new.scope = [ps.scope EXCEPT ![s] = FreeScope]
  <2>1. new = PutBack(ps, s, done)
    BY DEF ReportProvider, Settled, Live
  <2> HIDE DEF new, done, s
  <2>2. QED
    BY <2>1 DEF PutBack, ProviderScopes
<1>3. \A r : /\ \A u \in Out(ls, p, r) \ {t} : ls2[u] = ls[u]
             /\ Out(ls2, p, r) = Out(ls, p, r) \ {t}
             /\ t \in Out(ls, p, r) => r = s
  <2> SUFFICES ASSUME NEW r
               PROVE  /\ \A u \in Out(ls, p, r) \ {t} : ls2[u] = ls[u]
                      /\ Out(ls2, p, r) = Out(ls, p, r) \ {t}
                      /\ t \in Out(ls, p, r) => r = s
    OBVIOUS
  <2>1. \A u \in Token : ls2[u] = IF u = t THEN NoLease ELSE ls[u]
    OBVIOUS
  <2> HIDE DEF ls2, s
  <2>2. Out(ls2, p, r) = Out(ls, p, r) \ {t}
    BY <1>1, <2>1, OutReport
  <2>3. \A u \in Out(ls, p, r) \ {t} : ls2[u] = ls[u]
    BY <2>1 DEF Out
  <2>4. t \in Out(ls, p, r) => r = s
    BY DEF Out, s
  <2>5. QED
    BY <2>2, <2>3, <2>4
<1>4. t \in Out(ls, p, s)
  BY <1>1 DEF Out
<1> HIDE DEF ls2
<1>5. Counted(done, ls2, Out(ls2, p, s))
  <2>1. Counted(ps.scope[s], ls, Out(ls, p, s))
    BY <1>1 DEF Accounted
  <2>2. \A u \in Out(ls, p, s) \ {t} : ls2[u] = ls[u]
    BY <1>3
  <2>3. Counted(done, ls2, Out(ls, p, s) \ {t})
    BY <1>4, <2>1, <2>2, SettledCounted, OutFinite
  <2>4. QED
    BY <1>3, <2>3
<1> HIDE DEF done, new
<1>6. done.activeLeases = 0 => Counted(FreeScope, ls2, Out(ls2, p, s))
  <2>1. done.activeLeases = 0 => Out(ls2, p, s) = {}
    BY <1>5, CountedNone, OutFinite
  <2>2. QED
    BY <2>1, FreshCounted
<1>7. \A r \in Slot : r # s => new.scope[r] = ps.scope[r]
  BY <1>1, <1>2 DEF ProviderScopes
<1>8. new.scope[s] = done \/ (done.activeLeases = 0 /\ new.scope[s] = FreeScope)
  BY <1>1, <1>2 DEF ProviderScopes
<1>9. Counted(new.scope[s], ls2, Out(ls2, p, s))
  BY <1>5, <1>6, <1>8
<1>10. ASSUME NEW r \in Slot, r # s PROVE Counted(new.scope[r], ls2, Out(ls2, p, r))
  <2>1. Counted(ps.scope[r], ls, Out(ls, p, r))
    BY DEF Accounted
  <2>2. Out(ls2, p, r) = Out(ls, p, r) /\ \A u \in Out(ls, p, r) : ls2[u] = ls[u]
    BY <1>3, <1>10
  <2>3. Counted(ps.scope[r], ls2, Out(ls, p, r))
    BY <2>1, <2>2, CountedFrame, OutFinite
  <2>4. QED
    BY <1>7, <1>10, <2>2, <2>3
<1>11. Accounted(new, ls2, p)
  BY <1>9, <1>10 DEF Accounted
<1>12. QED
  BY <1>11 DEF new, ls2

(* A step that changes no count of a scope and drops no channel.           *)
LEMMA KeptAccounted ==
    ASSUME NEW ps, NEW new, NEW ls, NEW p, Accounted(ps, ls, p),
           \A s \in Slot :
                /\ new.scope[s].activeLeases = ps.scope[s].activeLeases
                /\ \A x \in Channel :
                    /\ new.scope[s].entry[x].activeLeases = ps.scope[s].entry[x].activeLeases
                    /\ Exists(ps.scope[s].entry[x]) => Exists(new.scope[s].entry[x])
    PROVE  Accounted(new, ls, p)
<1>1. SUFFICES ASSUME NEW s \in Slot PROVE Counted(new.scope[s], ls, Out(ls, p, s))
  BY DEF Accounted
<1>2. Counted(ps.scope[s], ls, Out(ls, p, s))
  BY DEF Accounted
<1>3. QED
  BY <1>2, CountedSame, OutFinite

LEMMA UpdateErrorAccounted ==
    ASSUME NEW ps \in ProviderScopes, NEW u, NEW b \in BOOLEAN, NEW ls, NEW p, Accounted(ps, ls, p)
    PROVE  Accounted(UpdateErrorProvider(ps, u, b), ls, p)
<1> DEFINE new == UpdateErrorProvider(ps, u, b)
<1>1. ASSUME NEW s \in Slot, NEW x \in EntryId
      PROVE  /\ new.scope[s].activeLeases = ps.scope[s].activeLeases
             /\ new.scope[s].entry[x].activeLeases = ps.scope[s].entry[x].activeLeases
             /\ SameBreaker(ps.scope[s].entry[x], new.scope[s].entry[x])
  BY UpdateErrorEntry
<1>2. Global \in EntryId /\ \A x \in Channel : x \in EntryId
  BY DEF EntryId
<1> HIDE DEF new
<1>3. Accounted(new, ls, p)
  BY <1>1, <1>2, KeptAccounted DEF SameBreaker, Exists
<1>4. QED
  BY <1>3 DEF new

LEMMA AgeAccounted ==
    ASSUME NEW ps \in ProviderScopes, NEW ls, NEW p, Accounted(ps, ls, p)
    PROVE  Accounted(AgeProvider(ps), ls, p)
<1> DEFINE new == AgeProvider(ps)
<1>1. \A s \in Slot : /\ new.scope[s].activeLeases = ps.scope[s].activeLeases
                      /\ \A x \in EntryId : new.scope[s].entry[x] = Age(ps.scope[s].entry[x])
  BY AgeProviderShape
<1>2. \A s \in Slot, x \in EntryId : ps.scope[s].entry[x] \in Entry
  BY DEF ProviderScopes, Scope
<1>3. \A e \in Entry : Age(e).activeLeases = e.activeLeases /\ (Exists(e) => Exists(Age(e)))
  BY DEF Age, Exists, Entry
<1>4. \A x \in Channel : x \in EntryId
  BY DEF EntryId
<1> HIDE DEF new
<1>5. Accounted(new, ls, p)
  BY <1>1, <1>2, <1>3, <1>4, KeptAccounted
<1>6. QED
  BY <1>5 DEF new

=============================================================================
