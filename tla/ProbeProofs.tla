----------------------------- MODULE ProbeProofs -----------------------------
(***************************************************************************)
(* Proof that a half-open breaker's probe reservation always belongs to a  *)
(* lease in flight (ProbeOwned), for every value of the constants.         *)
(*                                                                         *)
(* ProbeOwned is not inductive alone: Report clears the reservations of    *)
(* the provider's breaker and of the lease's own channel, so the proof     *)
(* also needs that a lease has reserved no others (LeaseProbes).           *)
(***************************************************************************)
EXTENDS HealthProofs

LeaseProbes == \A t \in Token : leases[t].probes \subseteq {Global, leases[t].channel}

ProbeInv == TypeOK /\ ProbeOwned /\ LeaseProbes

(* Only a half-open breaker has a reservation.                             *)
HalfOpenProbe(e) == e.probeToken # NoToken => e.state = "half_open"

(* From entry e to entry f no reservation appears, and one that is still   *)
(* there is on a half-open breaker.                                        *)
Keeps(e, f) ==
    f.probeToken # NoToken => f.probeToken = e.probeToken /\ f.state = "half_open"

ScopeKeeps(sc, new) == \A x \in EntryId : Keeps(sc.entry[x], new.entry[x])

(* The same when attempt t of channel ch reports: its reservations go.      *)
ScopeSettles(sc, new, ch, t) ==
    ScopeKeeps(sc, new) /\ \A x \in {Global, ch} : new.entry[x].probeToken # t

ScopesKeep(ps, new) == \A s \in Slot : ScopeKeeps(ps.scope[s], new.scope[s])

ScopesSettle(ps, new, l, t) ==
    /\ ScopesKeep(ps, new)
    /\ \A x \in {Global, l.channel} : new.scope[l.slot].entry[x].probeToken # t

WellProbedScope(sc) == \A x \in EntryId : HalfOpenProbe(sc.entry[x])

WellProbed(ps) == \A s \in Slot : WellProbedScope(ps.scope[s])

-----------------------------------------------------------------------------
(* Entries.                                                                *)

(* New entries carry no reservation.                                       *)
LEMMA NewEntryProbe ==
    ASSUME NEW e, NEW st
    PROVE  Keeps(e, NewEntry(st)) /\ Keeps(e, AbsentEntry)
BY DEF Keeps, NewEntry, AbsentEntry

LEMMA KeepsSame ==
    ASSUME NEW e, HalfOpenProbe(e)
    PROVE  Keeps(e, e)
BY DEF Keeps, HalfOpenProbe

LEMMA AdvanceCooldownProbe ==
    ASSUME NEW e \in Entry, HalfOpenProbe(e)
    PROVE  Keeps(e, AdvanceCooldown(e))
BY DEF Keeps, HalfOpenProbe, AdvanceCooldown, Entry

(* Whatever the outcome, the reporting attempt's reservation is gone       *)
(* afterwards and no other one appears.                                    *)
LEMMA ReleaseProbeProbe ==
    ASSUME NEW e \in Entry, NEW t \in Token, HalfOpenProbe(e)
    PROVE  Keeps(e, ReleaseProbe(e, t)) /\ ReleaseProbe(e, t).probeToken # t
BY ConstantsAssumption, Zenon DEF Keeps, HalfOpenProbe, ReleaseProbe, Entry

LEMMA ApplySuccessProbe ==
    ASSUME NEW e \in Entry, NEW t \in Token, HalfOpenProbe(e)
    PROVE  Keeps(e, ApplySuccess(e)) /\ ApplySuccess(e).probeToken # t
BY ConstantsAssumption, Zenon DEF Keeps, HalfOpenProbe, ApplySuccess, Entry

LEMMA EnterCooldownProbe ==
    ASSUME NEW e \in Entry, NEW o
    PROVE  EnterCooldown(e, o).probeToken = NoToken
BY DEF EnterCooldown, Entry

LEMMA ApplyFailureProbe ==
    ASSUME NEW e \in Entry, NEW t \in Token, NEW o \in Outcome, NEW b \in BOOLEAN,
           HalfOpenProbe(e)
    PROVE  Keeps(e, ApplyFailure(e, t, o, b)) /\ ApplyFailure(e, t, o, b).probeToken # t
<1> DEFINE r  == RecordConsecutiveFailure(e)
           up == [r EXCEPT !.backoffLevel = RaiseBackoff(@)]
           f  == ApplyFailure(e, t, o, b)
<1>1. r \in Entry /\ r.probeToken = e.probeToken
  BY RecordConsecutiveFailureType, Zenon DEF RecordConsecutiveFailure, Entry
<1>2. EnterCooldown(r, o).probeToken = NoToken
  BY <1>1, EnterCooldownProbe
<1>3. EnterCooldown(up, o).probeToken = NoToken
  <2> HIDE DEF r
  <2>1. up = [r EXCEPT !.backoffLevel = RaiseBackoff(r.backoffLevel)]
    OBVIOUS
  <2>2. QED
    BY <1>1, <2>1 DEF EnterCooldown, Entry
<1>4. e.probeToken \in Token \cup {NoToken} /\ NoToken \notin Token
  BY ConstantsAssumption, Zenon DEF Entry
<1>5. CASE e.state \in {"disabled", "cooldown"}
  BY <1>4, <1>5 DEF ApplyFailure, Keeps, HalfOpenProbe
<1>6. CASE e.state = "half_open"
  <2>1. f = IF e.probeToken # t THEN e ELSE EnterCooldown(up, o)
    BY <1>6 DEF ApplyFailure
  <2> HIDE DEF f, up, r
  <2>2. QED
    BY <1>3, <1>4, <1>6, <2>1 DEF Keeps, f
<1>7. CASE e.state \notin {"disabled", "cooldown", "half_open"}
  <2>1. f = IF EntersCooldown(e, t, b) THEN EnterCooldown(r, o) ELSE [r EXCEPT !.state = "degraded"]
    BY <1>7 DEF ApplyFailure
  <2>2. e.probeToken = NoToken
    BY <1>7 DEF HalfOpenProbe
  <2>3. [r EXCEPT !.state = "degraded"].probeToken = NoToken
    BY <1>1, <2>2 DEF Entry
  <2> HIDE DEF f, up, r
  <2>4. f.probeToken = NoToken
    BY <1>2, <2>1, <2>3
  <2>5. QED
    BY <1>4, <2>4 DEF Keeps, f
<1>8. QED
  BY <1>5, <1>6, <1>7

LEMMA ReportEntryProbe ==
    ASSUME NEW e \in Entry, NEW x \in EntryId, NEW t \in Token, NEW o \in Outcome,
           NEW obs \in Observation \cup {NoObservation}, HalfOpenProbe(e)
    PROVE  /\ Keeps(e, ReportEntry(e, x, t, o, obs))
           /\ ReportEntry(e, x, t, o, obs).probeToken # t
<1> DEFINE d == ObserveLatest(e, o, obs)
           f == ReportEntry(e, x, t, o, obs)
<1>1. d \in Entry /\ d.probeToken = e.probeToken /\ d.state = e.state
  BY ObserveLatestType, Zenon DEF ObserveLatest, Entry
<1>2. HalfOpenProbe(d)
  BY <1>1 DEF HalfOpenProbe
<1>3. IsImmediate(o) \in BOOLEAN
  BY DEF IsImmediate
<1>4. f \in {ApplySuccess(d), ApplyFailure(d, t, o, IsImmediate(o)),
             ReleaseProbe(d, t), ReleaseProbe(e, t)}
  BY DEF ReportEntry
<1> HIDE DEF d, f
<1>5. (Keeps(d, f) \/ Keeps(e, f)) /\ f.probeToken # t
  BY <1>1, <1>2, <1>3, <1>4, ApplySuccessProbe, ApplyFailureProbe, ReleaseProbeProbe
<1>6. Keeps(e, f)
  BY <1>1, <1>5 DEF Keeps
<1>7. QED
  BY <1>5, <1>6 DEF f

LEMMA AgeProbe ==
    ASSUME NEW e \in Entry, HalfOpenProbe(e)
    PROVE  Keeps(e, Age(e))
BY DEF Keeps, HalfOpenProbe, Age, Entry

-----------------------------------------------------------------------------
(* Scopes.                                                                 *)

LEMMA FreshScopeProbe ==
    ASSUME NEW sc, NEW k
    PROVE  ScopeKeeps(sc, FreeScope) /\ ScopeKeeps(sc, NewScope(k)) /\ ScopeKeeps(sc, NewRetiredScope(k))
BY NewEntryProbe DEF ScopeKeeps, FreeScope, NewScope, NewRetiredScope

LEMMA ScopeKeepsSame ==
    ASSUME NEW sc, WellProbedScope(sc)
    PROVE  ScopeKeeps(sc, sc)
BY KeepsSame DEF ScopeKeeps, WellProbedScope

(* A new generation inherits breakers, but no reservation.                 *)
LEMMA InheritScopeStateProbe ==
    ASSUME NEW old, NEW c \in CompiledProvider, NEW src \in Scope
    PROVE  ScopeKeeps(old, InheritScopeState(NewScope(c), src))
<1> DEFINE sc == NewScope(c)
           Base(x) == IF Exists(sc.entry[x]) THEN sc.entry[x]
                      ELSE NewEntry(InitialState(sc.disableHealth))
           new == InheritScopeState(sc, src)
<1>1. sc \in Scope
  BY NewScopeType
<1>2. \A x \in EntryId : sc.entry[x].probeToken = NoToken
  BY DEF NewScope, NewEntry, AbsentEntry
<1>3. sc.disableHealth \in BOOLEAN /\ sc.entry \in [EntryId -> Entry]
  BY <1>1 DEF Scope
<1>4. ASSUME NEW x \in EntryId
      PROVE  new.entry[x] = IF x = Global \/ (Exists(src.entry[x]) /\ x \in sc.models \X RequestType)
                            THEN InheritState(Base(x), src.entry[x],
                                              sc.disableHealth = src.disableHealth)
                            ELSE sc.entry[x]
  <2> HIDE DEF sc
  <2>1. QED
    BY <1>1 DEF InheritScopeState, Scope
<1> HIDE DEF sc, new
<1>5. ASSUME NEW x \in EntryId PROVE new.entry[x].probeToken = NoToken
  <2>1. Base(x) \in Entry /\ Base(x).probeToken = NoToken
    BY <1>2, <1>3, FreshEntryType DEF NewEntry
  <2> HIDE DEF Base
  <2>2. InheritState(Base(x), src.entry[x], sc.disableHealth = src.disableHealth).probeToken = NoToken
    BY <2>1 DEF InheritState, Entry
  <2>3. QED
    BY <1>2, <1>4, <2>2
<1>6. QED
  BY <1>5 DEF ScopeKeeps, Keeps, new, sc

LEMMA ReconcileModelsProbe ==
    ASSUME NEW sc \in Scope, NEW models, WellProbedScope(sc)
    PROVE  ScopeKeeps(sc, ReconcileModels(sc, models))
BY NewEntryProbe, KeepsSame DEF ScopeKeeps, WellProbedScope, ReconcileModels, Scope

LEMMA TouchProbe ==
    ASSUME NEW sc \in Scope, NEW k, WellProbedScope(sc)
    PROVE  ScopeKeeps(sc, Touch(sc, k))
BY NewEntryProbe, KeepsSame, AdvanceCooldownProbe
   DEF ScopeKeeps, WellProbedScope, Touch, Scope

(* Lend reserves token t for the half-open breakers of the key, and        *)
(* nothing else.                                                           *)
LEMMA LendProbe ==
    ASSUME NEW sc \in Scope, NEW k, NEW t \in Token, WellProbedScope(sc), NEW x \in EntryId
    PROVE  \/ Keeps(sc.entry[x], Lend(sc, k, t).entry[x])
           \/ /\ x \in KeyEntries(k)
              /\ sc.entry[x].state = "half_open"
              /\ Lend(sc, k, t).entry[x].probeToken = t
              /\ Lend(sc, k, t).entry[x].state = "half_open"
<1> DEFINE e == sc.entry[x]
           n == IF x = Global THEN e.activeLeases ELSE e.activeLeases + 1
           pr == IF e.state = "half_open" THEN t ELSE e.probeToken
           f == Lend(sc, k, t).entry[x]
<1>1. e \in Entry /\ HalfOpenProbe(e)
  BY DEF Scope, WellProbedScope
<1>2. f = IF x \notin KeyEntries(k) THEN e ELSE [e EXCEPT !.probeToken = pr, !.activeLeases = n]
  BY DEF Lend, Scope
<1> HIDE DEF e, n, f
<1>3. QED
  BY <1>1, <1>2 DEF Entry, Keeps, HalfOpenProbe, e, f

LEMMA ReturnLeaseProbe ==
    ASSUME NEW sc \in Scope, NEW ch \in Channel, NEW x \in EntryId
    PROVE  LET e == sc.entry[x]
               f == ReturnLease(sc, ch).entry[x]
           IN  f.probeToken = NoToken \/ (f.probeToken = e.probeToken /\ f.state = e.state)
<1> DEFINE left == Decrement(sc.entry[ch].activeLeases)
           new == IF ch \notin sc.models \X RequestType /\ left = 0 THEN AbsentEntry
                  ELSE [sc.entry[ch] EXCEPT !.activeLeases = left]
           f == ReturnLease(sc, ch).entry[x]
<1>1. sc.entry \in [EntryId -> Entry] /\ sc.entry[ch] \in Entry
  BY DEF Scope, EntryId
<1>2. f = IF x = ch THEN new ELSE sc.entry[x]
  BY <1>1 DEF ReturnLease, Scope
<1> HIDE DEF left, f
<1>3. new.probeToken = NoToken \/
        (new.probeToken = sc.entry[ch].probeToken /\ new.state = sc.entry[ch].state)
  BY <1>1 DEF AbsentEntry, NewEntry, Entry
<1> HIDE DEF new
<1>4. QED
  BY <1>2, <1>3 DEF f

LEMMA ReportScopeProbe ==
    ASSUME NEW sc \in Scope, NEW ch \in Channel, NEW t \in Token, NEW o \in Outcome,
           NEW obs \in Observation \cup {NoObservation}, NEW live \in BOOLEAN,
           WellProbedScope(sc)
    PROVE  ScopeSettles(sc, ReturnLease(ReportScope(sc, ch, t, o, obs, live), ch), ch, t)
<1> DEFINE mid == ReportScope(sc, ch, t, o, obs, live)
           new == ReturnLease(mid, ch)
<1>1. mid \in Scope
  BY ReportScopeType
<1>2. ASSUME NEW x \in EntryId
      PROVE  /\ Keeps(sc.entry[x], mid.entry[x])
             /\ x \in {Global, ch} => mid.entry[x].probeToken # t
  <2>1. sc.entry[x] \in Entry /\ HalfOpenProbe(sc.entry[x])
    BY DEF Scope, WellProbedScope
  <2>2. mid.entry[x] = IF x \notin {Global, ch} THEN sc.entry[x]
                       ELSE IF live THEN ReportEntry(sc.entry[x], x, t, o, obs)
                       ELSE ReleaseProbe(sc.entry[x], t)
    BY DEF ReportScope, Scope
  <2> HIDE DEF mid
  <2>3. QED
    BY <2>1, <2>2, KeepsSame, ReportEntryProbe, ReleaseProbeProbe
<1> HIDE DEF mid
<1>3. ASSUME NEW x \in EntryId
      PROVE  /\ Keeps(sc.entry[x], new.entry[x])
             /\ x \in {Global, ch} => new.entry[x].probeToken # t
  <2>1. \/ new.entry[x].probeToken = NoToken
        \/ /\ new.entry[x].probeToken = mid.entry[x].probeToken
           /\ new.entry[x].state = mid.entry[x].state
    BY <1>1, ReturnLeaseProbe
  <2>2. NoToken # t
    BY ConstantsAssumption, Zenon
  <2> HIDE DEF new
  <2>3. QED
    BY <1>2, <2>1, <2>2 DEF Keeps
<1>4. {Global, ch} \subseteq EntryId
  BY DEF EntryId
<1> HIDE DEF new
<1>5. ScopeSettles(sc, new, ch, t)
  BY <1>3, <1>4 DEF ScopeKeeps, ScopeSettles
<1>6. QED
  BY <1>5 DEF new, mid

-----------------------------------------------------------------------------
(* A provider's scopes.                                                    *)

LEMMA ScopesKeepSame ==
    ASSUME NEW ps, WellProbed(ps)
    PROVE  ScopesKeep(ps, ps)
BY ScopeKeepsSame DEF ScopesKeep, WellProbed

(* Writing one scope that keeps its reservations keeps the provider's.     *)
LEMMA SetScopeProbe ==
    ASSUME NEW ps \in ProviderScopes, NEW mid \in ProviderScopes, NEW s \in Slot, NEW sc,
           ScopesKeep(ps, mid), ScopeKeeps(ps.scope[s], sc)
    PROVE  \A z \in Slot : ScopeKeeps(ps.scope[z], [mid.scope EXCEPT ![s] = sc][z])
BY DEF ScopesKeep, ProviderScopes

LEMMA RetireProbe ==
    ASSUME NEW ps \in ProviderScopes, WellProbed(ps)
    PROVE  ScopesKeep(ps, Retire(ps))
<1>1. ScopesKeep(ps, ps)
  BY ScopesKeepSame
<1>2. Retire(ps).scope = ps.scope \/
        (ps.active \in Slot /\ Retire(ps).scope = [ps.scope EXCEPT ![ps.active] = FreeScope])
  BY DEF Retire, ProviderScopes
<1>3. QED
  BY <1>1, <1>2, FreshScopeProbe, SetScopeProbe DEF ScopesKeep

LEMMA ReconcileProviderProbe ==
    ASSUME NEW ps \in ProviderScopes, NEW c \in CompiledProvider, WellProbed(ps),
           ActiveMatches(ps, c) \/ FreeSlots(Retire(ps)) # {}
    PROVE  ScopesKeep(ps, ReconcileProvider(ps, c))
<1> DEFINE current   == ps.scope[ps.active]
           rest      == Retire(ps)
           slot      == CHOOSE s \in FreeSlots(rest) : TRUE
           fresh     == NewScope(c)
           sameEpoch == ps.active # NoSlot /\ current.epoch = c.epoch
           filled    == IF sameEpoch THEN InheritScopeState(fresh, current) ELSE fresh
           new       == ReconcileProvider(ps, c)
<1>1. rest \in ProviderScopes /\ ScopesKeep(ps, rest) /\ ScopesKeep(ps, ps)
  BY RetireType, RetireProbe, ScopesKeepSame
<1>2. CASE ActiveMatches(ps, c)
  <2>1. ps.active \in Slot /\ current \in Scope /\ WellProbedScope(current)
    BY <1>2 DEF ActiveMatches, ProviderScopes, WellProbed
  <2>2. ScopeKeeps(current, ReconcileModels(current, c.models))
    BY <2>1, ReconcileModelsProbe
  <2>3. new.scope = [ps.scope EXCEPT ![ps.active] = ReconcileModels(current, c.models)]
    BY <1>2, <2>1 DEF ReconcileProvider, ProviderScopes
  <2> HIDE DEF new
  <2>4. ScopesKeep(ps, new)
    BY <1>1, <2>1, <2>2, <2>3, SetScopeProbe DEF ScopesKeep
  <2>5. QED
    BY <2>4 DEF new
<1>3. CASE ~ActiveMatches(ps, c)
  <2>1. slot \in FreeSlots(rest)
    BY <1>3
  <2>2. slot \in Slot
    BY <2>1 DEF FreeSlots
  <2>3. ps.active # NoSlot => current \in Scope
    BY DEF ProviderScopes
  <2>4. ScopeKeeps(ps.scope[slot], filled)
    <3>1. CASE sameEpoch
      BY <2>3, <3>1, InheritScopeStateProbe
    <3>2. CASE ~sameEpoch
      BY <3>2, FreshScopeProbe
    <3>3. QED
      BY <3>1, <3>2
  <2>5. new = [rest EXCEPT !.active = slot, !.scope[slot] = filled]
    BY <1>3 DEF ReconcileProvider
  <2> HIDE DEF new, rest, slot, filled
  <2>6. new.scope = [rest.scope EXCEPT ![slot] = filled]
    BY <1>1, <2>2, <2>5 DEF ProviderScopes
  <2>7. ScopesKeep(ps, new)
    BY <1>1, <2>2, <2>4, <2>6, SetScopeProbe DEF ScopesKeep
  <2>8. QED
    BY <2>7 DEF new
<1>4. QED
  BY <1>2, <1>3

LEMMA ScopeForAcquireProbe ==
    ASSUME NEW ps \in ProviderScopes, NEW k \in HealthKey, HasSlot(ps, k), WellProbed(ps)
    PROVE  ScopesKeep(ps, ScopeForAcquire(ps, k)) /\ WellProbed(ScopeForAcquire(ps, k))
<1> DEFINE s == SlotForAcquire(ps, k)
           new == ScopeForAcquire(ps, k)
<1>1. s \in Slot
  BY SlotForAcquireType
<1>2. new.scope = ps.scope \/ new.scope = [ps.scope EXCEPT ![s] = NewRetiredScope(k)]
  BY <1>1 DEF ScopeForAcquire, ProviderScopes
<1> HIDE DEF new, s
<1>3. ScopesKeep(ps, ps)
  BY ScopesKeepSame
<1>4. ScopesKeep(ps, new)
  BY <1>1, <1>2, <1>3, FreshScopeProbe, SetScopeProbe DEF ScopesKeep
<1>5. WellProbed(new)
  BY <1>4 DEF ScopesKeep, ScopeKeeps, Keeps, WellProbed, WellProbedScope, HalfOpenProbe
<1>6. QED
  BY <1>4, <1>5 DEF new

LEMMA InspectProbe ==
    ASSUME NEW ps \in ProviderScopes, NEW k \in HealthKey, HasSlot(ps, k), WellProbed(ps)
    PROVE  ScopesKeep(ps, Inspect(ps, k)) /\ WellProbed(Inspect(ps, k))
<1> DEFINE s == SlotForAcquire(ps, k)
           mid == ScopeForAcquire(ps, k)
           new == Inspect(ps, k)
<1>1. s \in Slot /\ mid \in ProviderScopes /\ ScopesKeep(ps, mid) /\ WellProbed(mid)
  BY SlotForAcquireType, ScopeForAcquireType, ScopeForAcquireProbe
<1>2. new = [mid EXCEPT !.scope[s] = Touch(mid.scope[s], k)]
  BY DEF Inspect
<1> HIDE DEF new, s, mid
<1>3. new.scope = [mid.scope EXCEPT ![s] = Touch(mid.scope[s], k)]
  BY <1>1, <1>2 DEF ProviderScopes
<1>4. mid.scope[s] \in Scope /\ WellProbedScope(mid.scope[s])
  BY <1>1 DEF ProviderScopes, WellProbed
<1>5. ScopeKeeps(mid.scope[s], Touch(mid.scope[s], k))
  BY <1>4, TouchProbe
<1>6. ScopesKeep(mid, new)
  BY <1>1, <1>3, <1>5, ScopesKeepSame, SetScopeProbe DEF ScopesKeep
<1>7. ScopesKeep(ps, new)
  BY <1>1, <1>6 DEF ScopesKeep, ScopeKeeps, Keeps
<1>8. WellProbed(new)
  BY <1>7 DEF ScopesKeep, ScopeKeeps, Keeps, WellProbed, WellProbedScope, HalfOpenProbe
<1>9. QED
  BY <1>7, <1>8 DEF new

(* Grant adds the reservations that its lease record lists.                *)
LEMMA GrantProbe ==
    ASSUME NEW ps \in ProviderScopes, NEW k \in HealthKey, NEW t \in Token, HasSlot(ps, k),
           WellProbed(ps), NEW z \in Slot, NEW x \in EntryId
    PROVE  LET f == Grant(ps, k, t).scope[z].entry[x]
           IN  \/ Keeps(ps.scope[z].entry[x], f)
               \/ /\ z = SlotForAcquire(ps, k) /\ x \in ProbesFor(ps, k)
                  /\ f.probeToken = t /\ f.state = "half_open"
<1> DEFINE s == SlotForAcquire(ps, k)
           mid == Inspect(ps, k)
           new == Grant(ps, k, t)
           f == new.scope[z].entry[x]
<1>1. s \in Slot /\ mid \in ProviderScopes /\ ScopesKeep(ps, mid) /\ WellProbed(mid)
  BY SlotForAcquireType, InspectType, InspectProbe
<1>2. new = [mid EXCEPT !.scope[s] = Lend(mid.scope[s], k, t)]
  BY DEF Grant
<1>3. x \in ProbesFor(ps, k) <=> x \in KeyEntries(k) /\ mid.scope[s].entry[x].state = "half_open"
  BY DEF ProbesFor
<1> HIDE DEF new, s, mid
<1>4. new.scope[z] = IF z = s THEN Lend(mid.scope[s], k, t) ELSE mid.scope[z]
  BY <1>1, <1>2 DEF ProviderScopes
<1>5. mid.scope[s] \in Scope /\ WellProbedScope(mid.scope[s])
  BY <1>1 DEF ProviderScopes, WellProbed
<1>6. Keeps(ps.scope[z].entry[x], mid.scope[z].entry[x])
  BY <1>1 DEF ScopesKeep, ScopeKeeps
<1>7. CASE z # s
  BY <1>4, <1>6, <1>7 DEF new
<1>8. CASE z = s
  <2>1. \/ Keeps(mid.scope[s].entry[x], f)
        \/ /\ x \in KeyEntries(k) /\ mid.scope[s].entry[x].state = "half_open"
           /\ f.probeToken = t /\ f.state = "half_open"
    BY <1>4, <1>5, <1>8, LendProbe
  <2>2. \/ Keeps(ps.scope[z].entry[x], f)
        \/ /\ z = s /\ x \in ProbesFor(ps, k) /\ f.probeToken = t /\ f.state = "half_open"
    BY <1>3, <1>6, <1>8, <2>1 DEF Keeps
  <2>3. QED
    BY <2>2 DEF new, s
<1>9. QED
  BY <1>7, <1>8

LEMMA ReportProviderProbe ==
    ASSUME NEW ps \in ProviderScopes, NEW l \in Lease, NEW t \in Token,
           NEW o \in Outcome, NEW obs \in Observation \cup {NoObservation}, WellProbed(ps)
    PROVE  ScopesSettle(ps, ReportProvider(ps, l, t, o, obs), l, t)
<1> DEFINE s    == l.slot
           ch   == l.channel
           sc   == ps.scope[s]
           live == s = ps.active /\ Exists(sc.entry[ch])
           done == ReturnLease(ReportScope(sc, ch, t, o, obs, live), ch)
           new  == ReportProvider(ps, l, t, o, obs)
<1>1. s \in Slot /\ ch \in Channel
  BY DEF Lease
<1>2. sc \in Scope /\ live \in BOOLEAN /\ WellProbedScope(sc)
  BY <1>1 DEF ProviderScopes, WellProbed
<1>3. ScopeKeeps(sc, done) /\ \A x \in {Global, ch} : done.entry[x].probeToken # t
  <2> HIDE DEF s, ch, sc, live
  <2>1. ScopeSettles(sc, ReturnLease(ReportScope(sc, ch, t, o, obs, live), ch), ch, t)
    BY <1>1, <1>2, ReportScopeProbe
  <2>2. QED
    BY <2>1 DEF ScopeSettles
<1>4. new = PutBack(ps, s, done)
  BY DEF ReportProvider
<1> HIDE DEF done, new
<1>5. new.scope \in {[ps.scope EXCEPT ![s] = done], [ps.scope EXCEPT ![s] = FreeScope]}
  BY <1>1, <1>4 DEF PutBack, ProviderScopes
<1>6. ScopesKeep(ps, new)
  BY <1>1, <1>3, <1>5, ScopesKeepSame, FreshScopeProbe, SetScopeProbe DEF ScopesKeep
<1>7. \A x \in {Global, ch} : FreeScope.entry[x].probeToken = NoToken
  BY <1>1 DEF FreeScope, AbsentEntry, NewEntry, EntryId
<1>8. new.scope[s] \in {done, FreeScope} /\ NoToken # t
  BY <1>1, <1>5, ConstantsAssumption, Zenon DEF ProviderScopes
<1>9. \A x \in {Global, ch} : new.scope[s].entry[x].probeToken # t
  BY <1>3, <1>7, <1>8
<1>10. QED
  BY <1>6, <1>9 DEF new, ScopesSettle

LEMMA UpdateErrorProviderProbe ==
    ASSUME NEW ps \in ProviderScopes, NEW u, NEW b \in BOOLEAN, WellProbed(ps)
    PROVE  ScopesKeep(ps, UpdateErrorProvider(ps, u, b))
<1> DEFINE sc == ps.scope[ps.active]
           f == [x \in EntryId |->
                    IF x \in KeyEntries(u) /\ sc.entry[x].observation = u.observation
                    THEN [sc.entry[x] EXCEPT !.errorPending = FALSE, !.errorIncomplete = b]
                    ELSE sc.entry[x]]
           new == UpdateErrorProvider(ps, u, b)
<1>1. CASE ~ActiveMatches(ps, u)
  BY <1>1, ScopesKeepSame DEF UpdateErrorProvider
<1>2. CASE ActiveMatches(ps, u)
  <2>1. ps.active \in Slot /\ sc \in Scope /\ WellProbedScope(sc)
    BY <1>2 DEF ActiveMatches, ProviderScopes, WellProbed
  <2>2. ASSUME NEW x \in EntryId PROVE Keeps(sc.entry[x], f[x])
    <3>1. sc.entry[x] \in Entry /\ HalfOpenProbe(sc.entry[x])
      BY <2>1 DEF Scope, WellProbedScope
    <3> DEFINE e == sc.entry[x]
               g == [e EXCEPT !.errorPending = FALSE, !.errorIncomplete = b]
    <3>2. f[x] \in {g, e}
      OBVIOUS
    <3> HIDE DEF e
    <3>3. g.probeToken = e.probeToken /\ g.state = e.state
      BY <3>1 DEF Entry, e
    <3> HIDE DEF g, f
    <3>4. QED
      BY <3>1, <3>2, <3>3 DEF Keeps, HalfOpenProbe, e
  <2>3. new = [ps EXCEPT !.scope[ps.active] = [sc EXCEPT !.entry = f]]
    BY <1>2 DEF UpdateErrorProvider
  <2> HIDE DEF f, new
  <2>4. [sc EXCEPT !.entry = f].entry = f
    BY <2>1 DEF Scope
  <2>5. ScopeKeeps(sc, [sc EXCEPT !.entry = f])
    BY <2>2, <2>4 DEF ScopeKeeps
  <2>6. new.scope = [ps.scope EXCEPT ![ps.active] = [sc EXCEPT !.entry = f]]
    BY <2>1, <2>3 DEF ProviderScopes
  <2>7. ScopesKeep(ps, new)
    BY <2>1, <2>5, <2>6, ScopesKeepSame, SetScopeProbe DEF ScopesKeep
  <2>8. QED
    BY <2>7 DEF new
<1>3. QED
  BY <1>1, <1>2

LEMMA AgeProviderProbe ==
    ASSUME NEW ps \in ProviderScopes, WellProbed(ps)
    PROVE  ScopesKeep(ps, AgeProvider(ps))
<1>1. ASSUME NEW s \in Slot, NEW x \in EntryId
      PROVE  Keeps(ps.scope[s].entry[x], AgeProvider(ps).scope[s].entry[x])
  <2>1. ps.scope[s] \in Scope /\ ps.scope[s].entry[x] \in Entry /\ HalfOpenProbe(ps.scope[s].entry[x])
    BY DEF ProviderScopes, Scope, WellProbed, WellProbedScope
  <2>2. AgeProvider(ps).scope[s].entry[x] = Age(ps.scope[s].entry[x])
    BY <2>1 DEF AgeProvider, ProviderScopes, Scope
  <2>3. QED
    BY <2>1, <2>2, AgeProbe
<1>2. QED
  BY <1>1 DEF ScopesKeep, ScopeKeeps

-----------------------------------------------------------------------------
(* The specification.                                                      *)

(* ProbeOwned, entry by entry.                                             *)
Owned(p, s, x) ==
    LET e == store[p].scope[s].entry[x]
    IN  e.probeToken # NoToken =>
            /\ e.state = "half_open"
            /\ e.probeToken \in ScopeLeases(p, s)
            /\ x \in leases[e.probeToken].probes

LEMMA ProbeOwnedByEntry ==
    ASSUME ProbeOwned
    PROVE  \A p \in Provider, s \in Slot, x \in EntryId : Owned(p, s, x)
BY DEF ProbeOwned, Owned

LEMMA ProbeOwnedWellProbed ==
    ASSUME ProbeOwned, NEW p \in Provider
    PROVE  WellProbed(store[p])
BY DEF ProbeOwned, WellProbed, WellProbedScope, HalfOpenProbe

(* A step that keeps all reservations and all leases keeps ProbeOwned.     *)
LEMMA FrameProbe ==
    ASSUME ProbeOwned, UNCHANGED leases,
           \A p \in Provider : ScopesKeep(store[p], store'[p])
    PROVE  ProbeOwned'
<1> SUFFICES ASSUME NEW p \in Provider, NEW s \in Slot, NEW x \in EntryId
             PROVE  Owned(p, s, x)'
  BY DEF ProbeOwned, Owned
<1>1. Owned(p, s, x)
  BY ProbeOwnedByEntry
<1>2. Keeps(store[p].scope[s].entry[x], store'[p].scope[s].entry[x])
  BY DEF ScopesKeep, ScopeKeeps
<1>3. QED
  BY <1>1, <1>2 DEF Owned, Keeps, ScopeLeases, LiveTokens

LEMMA InitProbe == Init => ProbeInv
<1> SUFFICES ASSUME Init PROVE ProbeInv
  OBVIOUS
<1>1. TypeOK
  BY InitType
<1>2. \A p \in Provider, s \in Slot, x \in EntryId : store[p].scope[s].entry[x].probeToken = NoToken
  BY DEF Init, NoScopes, FreeScope, AbsentEntry, NewEntry
<1>3. ProbeOwned
  BY <1>2 DEF ProbeOwned
<1>4. LeaseProbes
  BY Zenon DEF Init, LeaseProbes, NoLease
<1>5. QED
  BY <1>1, <1>3, <1>4 DEF ProbeInv

LEMMA ReconcileProbeStep ==
    ASSUME ProbeInv, Reconcile
    PROVE  ProbeOwned' /\ LeaseProbes'
<1>1. PICK present \in SUBSET Provider : \E form \in [present -> Catalog] : ReconcileAll(form)
  BY DEF Reconcile
<1>2. PICK form \in [present -> Catalog] : ReconcileAll(form)
  BY <1>1
<1>3. ASSUME NEW p \in Provider PROVE ScopesKeep(store[p], store'[p])
  <2>1. store[p] \in ProviderScopes /\ WellProbed(store[p])
    BY ProbeOwnedWellProbed DEF ProbeInv, TypeOK
  <2>2. store'[p] = IF p \in present THEN ReconcileProvider(store[p], form[p]) ELSE Retire(store[p])
    BY <1>2 DEF ReconcileAll
  <2>3. p \in present => /\ form[p] \in CompiledProvider
                       /\ \/ ActiveMatches(store[p], form[p])
                          \/ FreeSlots(Retire(store[p])) # {}
    BY <1>2, CatalogAssumption DEF ReconcileAll
  <2>4. QED
    BY <2>1, <2>2, <2>3, RetireProbe, ReconcileProviderProbe
<1>4. UNCHANGED leases
  BY DEF Reconcile
<1>5. ProbeOwned'
  BY <1>3, <1>4, FrameProbe DEF ProbeInv
<1>6. QED
  BY <1>4, <1>5 DEF ProbeInv, LeaseProbes

LEMMA AcquireProbeStep ==
    ASSUME ProbeInv, NEW p \in Provider, NEW c \in published[p], NEW m \in c.models,
           NEW r \in RequestType, Acquire(p, c, m, r)
    PROVE  ProbeOwned' /\ LeaseProbes'
<1> DEFINE k == Key(c, m, r)
<1>1. /\ store \in [Provider -> ProviderScopes] /\ leases \in [Token -> Lease \cup {NoLease}]
      /\ \A q \in Provider : store[q] \in ProviderScopes /\ WellProbed(store[q])
  BY ProbeOwnedWellProbed DEF ProbeInv, TypeOK
<1>2. k \in HealthKey
  BY KeyType DEF ProbeInv, TypeOK
<1>3. HasSlot(store[p], k)
  BY DEF Acquire
<1> HIDE DEF k
<1>4. CASE Decision(store[p], k).available
  <2>1. PICK t \in FreeTokens : GrantLease(p, k, t)
    BY <1>4 DEF Acquire, k
  <2> DEFINE l == [provider |-> p, slot |-> SlotForAcquire(store[p], k),
                   channel |-> <<k.model, k.requestType>>, probes |-> ProbesFor(store[p], k)]
  <2>2. t \in Token /\ leases[t] = NoLease
    BY DEF FreeTokens, LiveTokens
  <2>3. leases' = [leases EXCEPT ![t] = l] /\ store' = [store EXCEPT ![p] = Grant(store[p], k, t)]
    BY <2>1 DEF GrantLease
  <2>4. l.probes \subseteq {Global, l.channel} /\ l # NoLease
    BY ConstantsAssumption, Zenon DEF ProbesFor, KeyEntries, NoLease
  <2>5. l.provider = p /\ l.slot = SlotForAcquire(store[p], k) /\ l.probes = ProbesFor(store[p], k)
    OBVIOUS
  <2> HIDE DEF l
  <2>6. leases'[t] = l /\ \A t2 \in Token : t2 # t => leases'[t2] = leases[t2]
    BY <1>1, <2>2, <2>3
  <2>7. LeaseProbes'
    BY <2>4, <2>6 DEF ProbeInv, LeaseProbes
  <2>8. ASSUME NEW q \in Provider, NEW s \in Slot, NEW x \in EntryId
        PROVE  Owned(q, s, x)'
    <3> DEFINE e == store[q].scope[s].entry[x]
               f == store'[q].scope[s].entry[x]
    <3>1. \/ Keeps(e, f)
          \/ /\ q = p /\ s = l.slot /\ x \in l.probes
             /\ f.probeToken = t /\ f.state = "half_open"
      <4>1. CASE q # p
        <5>1. store'[q] = store[q]
          BY <1>1, <2>3, <4>1
        <5>2. HalfOpenProbe(e)
          BY <1>1 DEF WellProbed, WellProbedScope
        <5>3. QED
          BY <5>1, <5>2, KeepsSame
      <4>2. CASE q = p
        <5>1. store'[p] = Grant(store[p], k, t)
          BY <1>1, <2>3
        <5>2. QED
          BY <1>1, <1>2, <1>3, <2>2, <2>5, <4>2, <5>1, GrantProbe
      <4>3. QED
        BY <4>1, <4>2
    <3>2. Owned(q, s, x)
      BY ProbeOwnedByEntry DEF ProbeInv
    <3>3. e.probeToken # NoToken => e.probeToken \in Token /\ leases[e.probeToken] # NoLease
      BY <3>2 DEF Owned, ScopeLeases, LiveTokens
    <3>4. CASE Keeps(e, f)
      <4>1. f.probeToken # NoToken => f.probeToken # t /\ leases'[f.probeToken] = leases[e.probeToken]
        BY <2>2, <2>6, <3>3, <3>4 DEF Keeps
      <4>2. QED
        BY <3>2, <3>4, <4>1, Zenon DEF Owned, Keeps, ScopeLeases, LiveTokens
    <3>5. CASE /\ q = p /\ s = l.slot /\ x \in l.probes
               /\ f.probeToken = t /\ f.state = "half_open"
      BY <2>2, <2>4, <2>5, <2>6, <3>5 DEF Owned, ScopeLeases, LiveTokens
    <3>6. QED
      BY <3>1, <3>4, <3>5
  <2>9. ProbeOwned'
    BY <2>8 DEF ProbeOwned, Owned
  <2>10. QED
    BY <2>7, <2>9
<1>5. CASE ~Decision(store[p], k).available
  <2>1. store' = [store EXCEPT ![p] = Inspect(store[p], k)] /\ UNCHANGED leases
    BY <1>5 DEF Acquire, k
  <2>2. ScopesKeep(store[p], Inspect(store[p], k))
    BY <1>1, <1>2, <1>3, InspectProbe
  <2>3. \A q \in Provider : ScopesKeep(store[q], store'[q])
    BY <1>1, <2>1, <2>2, ScopesKeepSame
  <2>4. ProbeOwned'
    BY <2>1, <2>3, FrameProbe DEF ProbeInv
  <2>5. QED
    BY <2>1, <2>4 DEF ProbeInv, LeaseProbes
<1>6. QED
  BY <1>4, <1>5

LEMMA ReportProbeStep ==
    ASSUME ProbeInv, NEW t \in Token, NEW o \in Outcomes, Report(t, o)
    PROVE  ProbeOwned' /\ LeaseProbes'
<1> DEFINE l == leases[t]
<1>1. l \in Lease /\ l.probes \subseteq {Global, l.channel}
  BY DEF Report, LiveTokens, ProbeInv, TypeOK, LeaseProbes
<1>2. PICK obs \in Observation \cup {NoObservation} : ReportLease(t, o, obs)
  BY DEF Report
<1>3. o \in Outcome /\ l.provider \in Provider /\ l.slot \in Slot
  BY <1>1, CatalogAssumption DEF Lease
<1>4. /\ store \in [Provider -> ProviderScopes] /\ leases \in [Token -> Lease \cup {NoLease}]
      /\ \A q \in Provider : store[q] \in ProviderScopes /\ WellProbed(store[q])
  BY ProbeOwnedWellProbed DEF ProbeInv, TypeOK
<1> DEFINE new == ReportProvider(store[l.provider], l, t, o, obs)
<1>5. store' = [store EXCEPT ![l.provider] = new] /\ leases' = [leases EXCEPT ![t] = NoLease]
  BY <1>2 DEF ReportLease
<1>6. /\ ScopesKeep(store[l.provider], new)
      /\ \A x \in {Global, l.channel} : new.scope[l.slot].entry[x].probeToken # t
  <2> DEFINE ps == store[l.provider]
  <2>1. ps \in ProviderScopes /\ WellProbed(ps)
    BY <1>3, <1>4
  <2> HIDE DEF l, ps
  <2>2. ScopesSettle(ps, ReportProvider(ps, l, t, o, obs), l, t)
    BY <1>1, <1>3, <2>1, ReportProviderProbe
  <2>3. QED
    BY <2>2, Zenon DEF ps, ScopesSettle
<1>7. leases'[t] = NoLease /\ \A t2 \in Token : t2 # t => leases'[t2] = leases[t2]
  BY <1>4, <1>5
<1>8. LeaseProbes'
  <2>1. NoLease.probes = {}
    BY DEF NoLease
  <2> HIDE DEF l, new
  <2>2. QED
    BY <1>7, <2>1 DEF ProbeInv, LeaseProbes
<1>9. ASSUME NEW q \in Provider, NEW s \in Slot, NEW x \in EntryId
      PROVE  Owned(q, s, x)'
  <2> DEFINE e == store[q].scope[s].entry[x]
             f == store'[q].scope[s].entry[x]
  <2>1. store'[q] = IF q = l.provider THEN new ELSE store[q]
    BY <1>3, <1>4, <1>5
  <2> HIDE DEF new, l
  <2>2. Keeps(e, f)
    BY <1>4, <1>6, <2>1, ScopesKeepSame DEF ScopesKeep, ScopeKeeps
  <2>3. Owned(q, s, x)
    BY ProbeOwnedByEntry DEF ProbeInv
  <2>4. f.probeToken # NoToken => f.probeToken # t
    <3> SUFFICES ASSUME f.probeToken # NoToken, f.probeToken = t PROVE FALSE
      OBVIOUS
    <3>1. e.probeToken = t /\ t # NoToken
      BY <2>2 DEF Keeps
    <3>2. l.provider = q /\ l.slot = s /\ x \in l.probes
      BY <2>3, <3>1 DEF Owned, l, ScopeLeases, LiveTokens
    <3>3. f = new.scope[l.slot].entry[x] /\ x \in {Global, l.channel}
      BY <1>1, <2>1, <3>2
    <3>4. QED
      BY <1>6, <3>3
  <2>5. QED
    BY <1>7, <2>2, <2>3, <2>4 DEF Owned, Keeps, ScopeLeases, LiveTokens
<1>10. ProbeOwned'
  BY <1>9 DEF ProbeOwned, Owned
<1>11. QED
  BY <1>8, <1>10

LEMMA UpdateErrorProbeStep ==
    ASSUME ProbeInv, NEW u \in updates, NEW b \in BOOLEAN, UpdateError(u, b)
    PROVE  ProbeOwned' /\ LeaseProbes'
<1>1. u.provider \in Provider /\ store \in [Provider -> ProviderScopes]
  BY DEF ProbeInv, TypeOK, Update
<1>2. \A q \in Provider : store[q] \in ProviderScopes /\ WellProbed(store[q])
  BY ProbeOwnedWellProbed DEF ProbeInv, TypeOK
<1>3. /\ store' = [store EXCEPT ![u.provider] = UpdateErrorProvider(store[u.provider], u, b)]
      /\ UNCHANGED leases
  BY DEF UpdateError
<1>4. ScopesKeep(store[u.provider], UpdateErrorProvider(store[u.provider], u, b))
  BY <1>1, <1>2, UpdateErrorProviderProbe
<1>5. \A q \in Provider : ScopesKeep(store[q], store'[q])
  BY <1>1, <1>2, <1>3, <1>4, ScopesKeepSame
<1>6. ProbeOwned'
  BY <1>3, <1>5, FrameProbe DEF ProbeInv
<1>7. QED
  BY <1>3, <1>6 DEF ProbeInv, LeaseProbes

LEMMA TickProbeStep ==
    ASSUME ProbeInv, Tick
    PROVE  ProbeOwned' /\ LeaseProbes'
<1>1. \A q \in Provider : store[q] \in ProviderScopes /\ WellProbed(store[q])
  BY ProbeOwnedWellProbed DEF ProbeInv, TypeOK
<1>2. \A q \in Provider : ScopesKeep(store[q], store'[q])
  BY <1>1, AgeProviderProbe DEF Tick
<1>3. UNCHANGED leases
  BY DEF Tick
<1>4. ProbeOwned'
  BY <1>2, <1>3, FrameProbe DEF ProbeInv
<1>5. QED
  BY <1>3, <1>4 DEF ProbeInv, LeaseProbes

LEMMA NextProbe == ProbeInv /\ [Next]_vars => ProbeInv'
<1> SUFFICES ASSUME ProbeInv, [Next]_vars PROVE ProbeInv'
  OBVIOUS
<1>1. TypeOK'
  BY NextType DEF ProbeInv
<1>2. CASE UNCHANGED vars
  <2>1. \A q \in Provider : ScopesKeep(store[q], store'[q])
    BY <1>2, ProbeOwnedWellProbed, ScopesKeepSame DEF vars, ProbeInv
  <2>2. ProbeOwned'
    BY <1>2, <2>1, FrameProbe DEF vars, ProbeInv
  <2>3. QED
    BY <1>1, <1>2, <2>2 DEF vars, ProbeInv, LeaseProbes
<1>3. CASE Next
  <2>1. ProbeOwned' /\ LeaseProbes'
    BY <1>3, ReconcileProbeStep, AcquireProbeStep, ReportProbeStep, UpdateErrorProbeStep,
       TickProbeStep DEF Next
  <2>2. QED
    BY <1>1, <2>1 DEF ProbeInv
<1>4. QED
  BY <1>2, <1>3

(* A breaker's probe reservation always belongs to a lease in flight of    *)
(* that very scope, and only a half-open breaker has one: no order of      *)
(* edits, late reports and cancellations leaves a reservation behind that  *)
(* would block the provider for good.                                      *)
THEOREM ProbesAreOwned == Spec => []ProbeOwned
<1>1. Init => ProbeInv
  BY InitProbe
<1>2. ProbeInv /\ [Next]_vars => ProbeInv'
  BY NextProbe
<1>3. ProbeInv => ProbeOwned
  BY DEF ProbeInv
<1>4. QED
  BY <1>1, <1>2, <1>3, PTL DEF Spec
=============================================================================
