---------------------------- MODULE ManagerProofs ----------------------------
(***************************************************************************)
(* Proofs about the runtime manager, for any configurations, profiles and  *)
(* user data: every configuration stays valid, the served one is the       *)
(* stored one, a pending file builds on the active one, attempt limits are *)
(* in force only for a verified activation, the user's fields are kept and *)
(* every published change has its own revision.                            *)
(***************************************************************************)
EXTENDS RuntimeManager, TLAPS

ValidConfig == {c \in Config : Valid(c)}
AttemptLimit == Attempts \cup {DefaultAttempts}

ManagedType ==
    [addr: ListenAddr \cup {""}, key: GatewayKey \cup {""}, models: Models \cup {""},
     telemetry: BOOLEAN]
TargetType == [exists: BOOLEAN, managed: ManagedType, user: UserData \cup {""}]
PendingType == [exists: {TRUE}, config: ValidConfig, base: ValidConfig]
DiskType == [active: ValidConfig, pending: {NoPending} \cup PendingType]
CandidateType == [config: ValidConfig, fromPending: BOOLEAN, blocked: BOOLEAN]
ManagerType ==
    [config: ValidConfig, attempts: AttemptLimit, revision: Nat \ {0}, invalid: BOOLEAN,
     restart: {"idle", "pending", "restarting", "blocked"}]

ClearOp == [pc: {"clear"}, kind: {"activate"}, profile: Profile]
DeleteOp == [pc: {"delete"}, kind: {"delete"}, profile: Profile]
CommitPc == {"backup", "copy", "check", "replace", "verify", "save"}
ActivateOp ==
    [pc: CommitPc, kind: {"activate"}, profile: Profile, projection: ManagedType,
     original: TargetType, written: BOOLEAN]
TelemetryOp ==
    [pc: CommitPc \cup {"rollback", "restore", "recover"}, kind: {"telemetry"},
     config: ValidConfig, projection: ManagedType, original: TargetType, written: BOOLEAN,
     restored: BOOLEAN, attempts: AttemptLimit]

(* The shapes of the files, of the process and of the rewriting under way. *)
Shapes ==
    /\ disk \in DiskType /\ target \in TargetType
    /\ backup \in {"none", "partial", "complete"}
    /\ proc \in {"down", "loaded", "ready", "up"}
    /\ proc \in {"loaded", "ready"} => candidate \in CandidateType
    /\ Running => m \in ManagerType
    /\ op \in {NoOp} \cup ClearOp \cup DeleteOp \cup ActivateOp \cup TelemetryOp
    /\ op # NoOp => proc = "up" /\ m.restart = "idle"
    /\ edited \in BOOLEAN

(* The files against the process: a process that takes updates serves the  *)
(* active file and has no pending one, and one that starts knows which of  *)
(* the two it was loaded from.                                             *)
Stored ==
    /\ disk.pending.exists => disk.pending.base = disk.active
    /\ proc = "up" => disk.active = m.config
    /\ proc = "up" /\ m.restart = "idle" => ~disk.pending.exists
    /\ proc \in {"loaded", "ready"} =>
        IF candidate.fromPending
        THEN disk.pending.exists /\ disk.pending.config = candidate.config /\ ~candidate.blocked
        ELSE candidate.config = disk.active /\ (~candidate.blocked => ~disk.pending.exists)
    /\ proc = "ready" =>
        /\ m.config = candidate.config /\ m.attempts = DefaultAttempts
        /\ m.restart = IF candidate.blocked THEN "blocked" ELSE "idle"
    /\ Running => m.attempts = NormalAttempts(m.config, m.invalid)

(* No profile is active while an activation rewrites the settings file or  *)
(* a deleted profile is taken out of the configuration, and a telemetry    *)
(* switch writes what its configuration stands for.                        *)
Exclusive ==
    /\ op \in ClearOp \cup ActivateOp => op.profile \in DOMAIN m.config.profiles
    /\ op \in DeleteOp \cup ActivateOp => m.config.active = NoProfile
    /\ op \in TelemetryOp =>
        /\ op.config.active # NoProfile /\ op.config.key # NoKey
        /\ op.projection = Projection(op.config, op.config.active)
        /\ op.attempts = NormalAttempts(op.config, FALSE)

(* A restart is under way whose configuration keeps the active profile.    *)
RestartKeepsActive ==
    /\ proc = "up" /\ m.restart \in {"pending", "restarting"} /\ ~m.invalid
    /\ disk.pending.exists /\ disk.pending.config.active # NoProfile

(* What the process knows of the settings file as long as the user has not *)
(* written it.                                                             *)
Verified ==
    ~edited =>
        /\ proc = "up" /\ op \in {NoOp} \cup ClearOp \cup DeleteOp /\ m.attempts # DefaultAttempts =>
              InSync(m.config)
        /\ op \in TelemetryOp /\ op.pc = "save" => target.exists /\ target.managed = op.projection
        /\ op.pc \in {"replace", "restore"} => target.user = op.original.user
        /\ RestartKeepsActive => InSync(disk.pending.config)

ManagerInv == Shapes /\ Stored /\ Exclusive /\ Verified


-----------------------------------------------------------------------------
(* Configurations.                                                         *)

ProfileMaps == UNION {[S -> ProfileConfig] : S \in SUBSET Profile}

LEMMA ProfileFacts ==
    ASSUME NEW f \in ProfileMaps
    PROVE  /\ DOMAIN f \subseteq Profile
           /\ \A i \in DOMAIN f : f[i] \in ProfileConfig
BY DEF ProfileMaps

LEMMA ProfilesWithout ==
    ASSUME NEW f \in ProfileMaps, NEW id
    PROVE  /\ [i \in DOMAIN f \ {id} |-> f[i]] \in ProfileMaps
           /\ DOMAIN [i \in DOMAIN f \ {id} |-> f[i]] = DOMAIN f \ {id}
<1>1. DOMAIN f \ {id} \in SUBSET Profile
  BY ProfileFacts
<1>2. [i \in DOMAIN f \ {id} |-> f[i]] \in [DOMAIN f \ {id} -> ProfileConfig]
  BY ProfileFacts
<1>3. QED
  BY <1>1, <1>2 DEF ProfileMaps

LEMMA ConfigFacts ==
    ASSUME NEW c \in Config
    PROVE  /\ c.addr \in ListenAddr /\ c.logMax \in LogMax /\ c.key \in GatewayKey \cup {NoKey}
           /\ c.profiles \in ProfileMaps /\ c.telemetry \in BOOLEAN /\ c.rest \in Rest
           /\ c.active \in Profile \cup {NoProfile}
BY DEF Config, ProfileMaps

LEMMA ConfigActive ==
    ASSUME NEW c \in Config, NEW id \in Profile \cup {NoProfile}
    PROVE  LET d == [c EXCEPT !.active = id]
           IN  /\ d \in Config /\ d.active = id /\ d.addr = c.addr /\ d.logMax = c.logMax
               /\ d.key = c.key /\ d.profiles = c.profiles /\ d.telemetry = c.telemetry
               /\ d.rest = c.rest
BY DEF Config

LEMMA ConfigProfiles ==
    ASSUME NEW c \in Config, NEW f \in ProfileMaps
    PROVE  LET d == [c EXCEPT !.profiles = f]
           IN  /\ d \in Config /\ d.active = c.active /\ d.addr = c.addr /\ d.logMax = c.logMax
               /\ d.key = c.key /\ d.profiles = f /\ d.telemetry = c.telemetry
               /\ d.rest = c.rest
BY DEF Config, ProfileMaps

LEMMA ConfigTelemetry ==
    ASSUME NEW c \in Config
    PROVE  LET d == [c EXCEPT !.telemetry = ~@]
           IN  /\ d \in Config /\ d.active = c.active /\ d.addr = c.addr /\ d.logMax = c.logMax
               /\ d.key = c.key /\ d.profiles = c.profiles /\ d.rest = c.rest
BY DEF Config

(* An active profile of a valid configuration is one of its profiles, and  *)
(* its attempt limits differ from the default.                             *)
LEMMA ActiveFacts ==
    ASSUME NEW c \in ValidConfig
    PROVE  /\ c \in Config
           /\ NoProfile \notin DOMAIN c.profiles
           /\ c.active # NoProfile => c.active \in DOMAIN c.profiles /\ c.active \in Profile
           /\ \A i \in DOMAIN c.profiles : c.profiles[i].attempts \in Attempts /\ c.profiles[i].models \in Models
<1>1. c \in Config /\ c.active \in DOMAIN c.profiles \cup {NoProfile}
  BY DEF ValidConfig, Valid
<1>2. c.profiles \in ProfileMaps
  BY <1>1, ConfigFacts
<1>3. DOMAIN c.profiles \subseteq Profile /\ \A i \in DOMAIN c.profiles : c.profiles[i] \in ProfileConfig
  BY <1>2, ProfileFacts
<1>4. QED
  BY <1>1, <1>3, ClientAssumption DEF ProfileConfig

LEMMA AttemptFacts ==
    ASSUME NEW c \in ValidConfig, NEW invalid \in BOOLEAN
    PROVE  /\ NormalAttempts(c, invalid) \in AttemptLimit
           /\ NormalAttempts(c, invalid) # DefaultAttempts <=> ~invalid /\ c.active # NoProfile
           /\ NormalAttempts(c, invalid) # DefaultAttempts =>
                NormalAttempts(c, invalid) = c.profiles[c.active].attempts
BY ActiveFacts, ClientAssumption DEF NormalAttempts, AttemptLimit

LEMMA ClearedFacts ==
    ASSUME NEW c \in ValidConfig
    PROVE  LET d == [c EXCEPT !.active = NoProfile]
           IN  /\ d \in ValidConfig /\ d.active = NoProfile /\ d.addr = c.addr
               /\ d.logMax = c.logMax /\ d.key = c.key /\ d.profiles = c.profiles
               /\ d.telemetry = c.telemetry
<1> DEFINE d == [c EXCEPT !.active = NoProfile]
<1>1. c \in Config
  BY DEF ValidConfig
<1>2. /\ d \in Config /\ d.active = NoProfile /\ d.addr = c.addr /\ d.logMax = c.logMax
      /\ d.key = c.key /\ d.profiles = c.profiles /\ d.telemetry = c.telemetry
  BY <1>1 DEF Config
<1> HIDE DEF d
<1>3. d \in ValidConfig
  BY <1>2 DEF ValidConfig, Valid
<1>4. QED
  BY <1>2, <1>3 DEF d

LEMMA ClientFacts ==
    ASSUME NEW c \in ClientConfig
    PROVE  c \in ValidConfig /\ c.active = NoProfile
BY ClientAssumption DEF ValidConfig, Valid

LEMMA ProjectionFacts ==
    ASSUME NEW c \in ValidConfig, NEW id \in DOMAIN c.profiles
    PROVE  Projection(c, id) \in ManagedType
<1>1. c \in Config /\ c.profiles[id].models \in Models
  BY ActiveFacts
<1>2. QED
  BY <1>1, ConfigFacts DEF Projection, ManagedType, NoKey

(* What an update becomes before it is applied.                            *)
LEMMA PreparedFacts ==
    ASSUME NEW c \in ValidConfig, NEW d \in Config, d.active \in {NoProfile, c.active}
    PROVE  LET p == PrepareServerUpdate(c, d)
           IN  /\ p \in ValidConfig
               /\ p.addr = d.addr /\ p.logMax = d.logMax /\ p.key = d.key
               /\ p.profiles = d.profiles /\ p.telemetry = d.telemetry
               /\ p.active # NoProfile =>
                    /\ p.active = c.active /\ p.addr = c.addr /\ p.key = c.key
                    /\ p.profiles[p.active].models = c.profiles[c.active].models
               /\ ActiveInputsKept(c, p) => p.active # NoProfile
<1> DEFINE id == IF ActiveInputsKept(c, d) THEN c.active ELSE NoProfile
<1>1. id \in Profile \cup {NoProfile}
  BY ActiveFacts, ConfigFacts
<1>2. PrepareServerUpdate(c, d) = [d EXCEPT !.active = id]
  BY DEF PrepareServerUpdate
<1>3. /\ [d EXCEPT !.active = id] \in Config /\ [d EXCEPT !.active = id].active = id
      /\ [d EXCEPT !.active = id].addr = d.addr /\ [d EXCEPT !.active = id].logMax = d.logMax
      /\ [d EXCEPT !.active = id].key = d.key /\ [d EXCEPT !.active = id].profiles = d.profiles
      /\ [d EXCEPT !.active = id].telemetry = d.telemetry
  <2> HIDE DEF id
  <2>1. QED
    BY <1>1, ConfigActive
<1>4. id # NoProfile => /\ id = c.active /\ d.addr = c.addr /\ d.key = c.key
                        /\ id \in DOMAIN d.profiles
                        /\ d.profiles[id].models = c.profiles[c.active].models
  BY DEF ActiveInputsKept
<1>5. ActiveInputsKept(c, d) => id # NoProfile
  BY DEF ActiveInputsKept
<1> HIDE DEF id
<1>6. ActiveInputsKept(c, PrepareServerUpdate(c, d)) => ActiveInputsKept(c, d)
  BY <1>2, <1>3 DEF ActiveInputsKept
<1>7. QED
  BY <1>2, <1>3, <1>4, <1>5, <1>6 DEF ValidConfig, Valid


-----------------------------------------------------------------------------
(* Plans and hot updates.                                                  *)

(* A candidate that follows the served configuration: it is valid, and if  *)
(* both have an active profile that is the same one with the same inputs.  *)
Follows(c) ==
    /\ c \in ValidConfig
    /\ c.active # NoProfile /\ m.config.active # NoProfile =>
        /\ c.active = m.config.active /\ c.addr = m.config.addr /\ c.key = m.config.key
        /\ c.profiles[c.active].models = m.config.profiles[c.active].models

Checked(c, force) ==
    \/ force
    \/ <<m.config.profiles, m.config.telemetry, m.config.active>> # <<c.profiles, c.telemetry, c.active>>
Rewrites(c) == ~RestartRequired(m.config, c) /\ TelemetryChanges(m.config, c)
Invalidated(c, force) ==
    Checked(c, force) /\ c.active # NoProfile /\ ~InSync(IF Rewrites(c) THEN m.config ELSE c)
Reads(c, force) == Checked(c, force) /\ c.active # NoProfile
Guard(c, force) == IF Reads(c, force) THEN Invalidated(c, force) ELSE m.invalid
NextConfig(c, force) == IF Invalidated(c, force) THEN [c EXCEPT !.active = NoProfile] ELSE c

LEMMA PlanFields ==
    ASSUME NEW c, NEW force \in BOOLEAN
    PROVE  /\ Plan(c, force).restart <=> RestartRequired(m.config, c)
           /\ Plan(c, force).rewrites <=> Rewrites(c) /\ InSync(IF Rewrites(c) THEN m.config ELSE c)
           /\ Plan(c, force).read <=> Reads(c, force)
           /\ Plan(c, force).invalidated <=> Invalidated(c, force)
           /\ m.invalid \in BOOLEAN => (Plan(c, force).guard <=> Guard(c, force)) /\ Plan(c, force).guard \in BOOLEAN
           /\ Plan(c, force).next = NextConfig(c, force)
           /\ Plan(c, force).attempts = NormalAttempts(NextConfig(c, force), Plan(c, force).guard)
<1>1. Plan(c, force).restart <=> RestartRequired(m.config, c)
  BY DEF Plan
<1>2. Plan(c, force).rewrites <=> Rewrites(c) /\ InSync(IF Rewrites(c) THEN m.config ELSE c)
  BY DEF Plan, Rewrites
<1>3. Plan(c, force).read <=> Reads(c, force)
  BY DEF Plan, Reads, Checked
<1>4. Plan(c, force).invalidated <=> Invalidated(c, force)
  BY DEF Plan, Invalidated, Checked, Rewrites
<1>5. ASSUME m.invalid \in BOOLEAN PROVE (Plan(c, force).guard <=> Guard(c, force)) /\ Plan(c, force).guard \in BOOLEAN
  BY <1>5 DEF Plan, Guard, Reads, Invalidated, Checked, Rewrites
<1>6. Plan(c, force).next = NextConfig(c, force)
  BY DEF Plan, NextConfig, Invalidated, Checked, Rewrites
<1>7. Plan(c, force).attempts = NormalAttempts(NextConfig(c, force), Plan(c, force).guard)
  BY DEF Plan, NextConfig, Invalidated, Checked, Rewrites
<1>8. QED
  BY <1>1, <1>2, <1>3, <1>4, <1>5, <1>6, <1>7


LEMMA ManagerFields ==
    ASSUME m \in ManagerType
    PROVE  /\ m.config \in ValidConfig /\ m.attempts \in AttemptLimit /\ m.revision \in Nat \ {0}
           /\ m.invalid \in BOOLEAN /\ m.restart \in {"idle", "pending", "restarting", "blocked"}
BY DEF ManagerType

LEMMA PlanFacts ==
    ASSUME m \in ManagerType, NEW c, Follows(c), NEW force \in BOOLEAN
    PROVE  /\ Plan(c, force).next \in ValidConfig /\ Plan(c, force).guard \in BOOLEAN
           /\ Plan(c, force).attempts = NormalAttempts(Plan(c, force).next, Plan(c, force).guard)
           /\ Plan(c, force).next.profiles = c.profiles
           /\ ~Plan(c, force).invalidated => Plan(c, force).next = c
           /\ Plan(c, force).invalidated =>
                Plan(c, force).next.active = NoProfile /\ c.active # NoProfile /\ Plan(c, force).read
           /\ Plan(c, force).read =>
                c.active # NoProfile /\ (Plan(c, force).guard <=> Plan(c, force).invalidated)
           /\ ~Plan(c, force).read => Plan(c, force).guard = m.invalid
<1>1. m.invalid \in BOOLEAN /\ c \in ValidConfig
  BY ManagerFields DEF Follows
<1>2. Plan(c, force).guard \in BOOLEAN /\ (Plan(c, force).guard <=> Guard(c, force))
  BY <1>1, PlanFields
<1>3. CASE Invalidated(c, force)
  <2>1. Plan(c, force).invalidated /\ Plan(c, force).read /\ c.active # NoProfile
    BY <1>3, PlanFields DEF Invalidated, Reads
  <2>2. Plan(c, force).next = [c EXCEPT !.active = NoProfile]
    BY <1>3, PlanFields DEF NextConfig
  <2>3. Plan(c, force).next \in ValidConfig /\ Plan(c, force).next.active = NoProfile
        /\ Plan(c, force).next.profiles = c.profiles
    BY <1>1, <2>2, ClearedFacts
  <2>4. Plan(c, force).guard
    BY <1>2, <1>3, <2>1, PlanFields DEF Guard
  <2>5. QED
    BY <1>2, <2>1, <2>3, <2>4, PlanFields
<1>4. CASE ~Invalidated(c, force)
  <2>1. ~Plan(c, force).invalidated /\ Plan(c, force).next = c
    BY <1>4, PlanFields DEF NextConfig
  <2>2. Plan(c, force).read => c.active # NoProfile /\ ~Plan(c, force).guard
    BY <1>2, <1>4, PlanFields DEF Guard, Reads
  <2>3. ~Plan(c, force).read => Plan(c, force).guard = m.invalid
    BY <1>1, <1>2, <1>4, PlanFields DEF Guard
  <2>4. QED
    BY <1>1, <1>2, <2>1, <2>2, <2>3, PlanFields
<1>5. QED
  BY <1>3, <1>4

(* Two configurations that the settings file cannot tell apart.            *)
LEMMA SameProjection ==
    ASSUME NEW c \in ValidConfig, NEW d \in ValidConfig, d.active = c.active, c.addr = d.addr, c.key = d.key,
           c.telemetry = d.telemetry, c.active # NoProfile,
           c.profiles[c.active].models = d.profiles[d.active].models, InSync(c)
    PROVE  InSync(d)
<1>1. d.active \in DOMAIN d.profiles
  BY ActiveFacts
<1>2. Projection(d, d.active) = Projection(c, c.active)
  BY DEF Projection
<1>3. QED
  BY <1>1, <1>2 DEF InSync

(* A plan that does not rewrite the settings file and has read it, and     *)
(* keeps the active profile, has found the file in sync with it.           *)
LEMMA HotSync ==
    ASSUME m \in ManagerType, NEW c, Follows(c), NEW force \in BOOLEAN, edited \in BOOLEAN,
           ~Plan(c, force).rewrites,
           m.attempts = NormalAttempts(m.config, m.invalid),
           ~edited /\ m.attempts # DefaultAttempts => InSync(m.config),
           ~EditedAfter(Plan(c, force))
    PROVE  /\ Plan(c, force).attempts # DefaultAttempts => InSync(Plan(c, force).next)
           /\ ~Plan(c, force).restart /\ ~Plan(c, force).invalidated /\ m.attempts # DefaultAttempts =>
                InSync(m.config)
<1>0. c \in ValidConfig /\ m.config \in ValidConfig /\ m.invalid \in BOOLEAN
  BY ManagerFields DEF Follows
<1>1. ASSUME Plan(c, force).read, ~Plan(c, force).invalidated
      PROVE  InSync(c) /\ ~Rewrites(c) /\ c.active # NoProfile /\ Plan(c, force).next = c
  <2>1. InSync(IF Rewrites(c) THEN m.config ELSE c) /\ c.active # NoProfile
    BY <1>1, PlanFields DEF Reads, Invalidated
  <2>2. ~Rewrites(c)
    BY <2>1, PlanFields
  <2>3. QED
    BY <1>1, <2>1, <2>2, PlanFacts
<1>2. ASSUME Plan(c, force).attempts # DefaultAttempts
      PROVE  InSync(Plan(c, force).next)
  <2>1. ~Plan(c, force).guard /\ Plan(c, force).next.active # NoProfile
    BY <1>2, PlanFacts, AttemptFacts
  <2>2. ~Plan(c, force).invalidated /\ Plan(c, force).next = c
    BY <2>1, PlanFacts
  <2>3. CASE Plan(c, force).read
    BY <1>1, <2>2, <2>3
  <2>4. CASE ~Plan(c, force).read
    <3>1. ~edited /\ ~m.invalid
      BY <2>1, <2>4, PlanFacts DEF EditedAfter
    <3>2. m.config.profiles = c.profiles /\ m.config.telemetry = c.telemetry
          /\ m.config.active = c.active /\ c.active # NoProfile
      BY <2>1, <2>2, <2>4, PlanFields DEF Reads, Checked
    <3>3. m.attempts # DefaultAttempts
      BY <1>0, <3>1, <3>2, AttemptFacts
    <3>4. InSync(m.config) /\ c.addr = m.config.addr /\ c.key = m.config.key
      BY <3>1, <3>2, <3>3 DEF Follows
    <3>5. QED
      BY <1>0, <2>2, <3>2, <3>4, SameProjection
  <2>5. QED
    BY <2>3, <2>4
<1>3. ASSUME ~Plan(c, force).restart, ~Plan(c, force).invalidated, m.attempts # DefaultAttempts
      PROVE  InSync(m.config)
  <2>1. CASE ~Plan(c, force).read
    BY <1>3, <2>1 DEF EditedAfter
  <2>2. CASE Plan(c, force).read
    <3>1. InSync(c) /\ ~Rewrites(c) /\ c.active # NoProfile
      BY <1>1, <1>3, <2>2
    <3>2. m.config.active # NoProfile
      BY <1>0, <1>3, AttemptFacts
    <3>3. /\ c.active = m.config.active /\ c.addr = m.config.addr /\ c.key = m.config.key
          /\ c.profiles[c.active].models = m.config.profiles[c.active].models
      BY <3>1, <3>2 DEF Follows
    <3>4. c.active \in DOMAIN c.profiles /\ c.active \in DOMAIN m.config.profiles
      BY <1>0, <3>1, <3>3, ActiveFacts
    <3>5. ActiveInputsKept(m.config, c)
      BY <3>2, <3>3, <3>4 DEF ActiveInputsKept
    <3>6. c.telemetry = m.config.telemetry
      BY <1>3, <3>1, <3>5, PlanFields DEF Rewrites, TelemetryChanges
    <3>7. QED
      BY <1>0, <3>1, <3>3, <3>6, SameProjection
  <2>3. QED
    BY <2>1, <2>2
<1>4. QED
  BY <1>2, <1>3


(* What a hot update makes of the manager and of the files: a valid        *)
(* configuration that is stored and served, verified attempt limits, and a *)
(* new revision for every change.                                          *)
HotResult(mm, dd) ==
    /\ mm \in ManagerType /\ dd \in DiskType
    /\ dd.pending = disk.pending /\ dd.active = mm.config
    /\ mm.restart = "idle"
    /\ mm.attempts = NormalAttempts(mm.config, mm.invalid)
    /\ mm.config # m.config \/ mm.attempts # m.attempts => mm.revision > m.revision

LEMMA PublishedFacts ==
    ASSUME m \in ManagerType, NEW c \in ValidConfig, NEW attempts \in AttemptLimit, NEW guard \in BOOLEAN
    PROVE  /\ Published(c, attempts, guard) \in ManagerType
           /\ Published(c, attempts, guard).config = c
           /\ Published(c, attempts, guard).attempts = attempts
           /\ Published(c, attempts, guard).invalid = guard
           /\ Published(c, attempts, guard).restart = "idle"
           /\ Published(c, attempts, guard).revision > m.revision
<1>1. m.revision + 1 \in Nat \ {0} /\ m.revision + 1 > m.revision
  BY ManagerFields
<1>2. /\ Published(c, attempts, guard) \in ManagerType
      /\ Published(c, attempts, guard).revision = m.revision + 1
  BY <1>1 DEF Published, ManagerType
<1>3. QED
  BY <1>1, <1>2 DEF Published, ManagerType

LEMMA RevokedFacts ==
    ASSUME m \in ManagerType
    PROVE  /\ Revoked \in ManagerType /\ Revoked.config = m.config
           /\ Revoked.attempts = DefaultAttempts /\ Revoked.invalid = TRUE
           /\ Revoked.restart = m.restart
           /\ m.attempts # DefaultAttempts => Revoked.revision > m.revision
<1>1. DefaultAttempts \in AttemptLimit
  BY DEF AttemptLimit
<1>2. m.revision + 1 \in Nat \ {0} /\ m.revision + 1 > m.revision
  BY ManagerFields
<1>3. CASE m.attempts = DefaultAttempts
  <2>1. Revoked = [m EXCEPT !.invalid = TRUE]
    BY <1>3 DEF Revoked
  <2>2. QED
    BY <1>3, <2>1 DEF ManagerType
<1>4. CASE m.attempts # DefaultAttempts
  <2>1. Revoked = [m EXCEPT !.invalid = TRUE, !.attempts = DefaultAttempts, !.revision = m.revision + 1]
    BY <1>4 DEF Revoked
  <2>2. Revoked \in ManagerType /\ Revoked.revision = m.revision + 1
    BY <1>1, <1>2, <2>1 DEF ManagerType
  <2>3. QED
    BY <1>2, <2>1, <2>2 DEF ManagerType
<1>5. QED
  BY <1>3, <1>4

LEMMA GuardedFacts ==
    ASSUME m \in ManagerType, NEW guard \in BOOLEAN
    PROVE  LET g == [m EXCEPT !.invalid = guard]
           IN  /\ g \in ManagerType /\ g.config = m.config /\ g.attempts = m.attempts
               /\ g.invalid = guard /\ g.restart = m.restart /\ g.revision = m.revision
BY DEF ManagerType

LEMMA DiskFacts ==
    ASSUME disk \in DiskType, NEW c \in ValidConfig
    PROVE  LET d == [disk EXCEPT !.active = c]
           IN  d \in DiskType /\ d.active = c /\ d.pending = disk.pending
BY DEF DiskType

LEMMA HotFacts ==
    ASSUME m \in ManagerType, disk \in DiskType, edited \in BOOLEAN, NEW c, Follows(c),
           NEW force \in BOOLEAN, NEW saved \in BOOLEAN,
           m.restart = "idle", disk.active = m.config,
           m.attempts = NormalAttempts(m.config, m.invalid)
    PROVE  /\ HotResult(ManagerAfter(Plan(c, force), saved), DiskAfter(Plan(c, force), saved))
           /\ \/ ManagerAfter(Plan(c, force), saved).config = m.config
              \/ ManagerAfter(Plan(c, force), saved).config = Plan(c, force).next
           /\ Succeeds(Plan(c, force), saved) =>
                ManagerAfter(Plan(c, force), saved).config = Plan(c, force).next
           /\ ManagerAfter(Plan(c, force), saved).attempts # DefaultAttempts =>
                \/ /\ ManagerAfter(Plan(c, force), saved).config = Plan(c, force).next
                   /\ Plan(c, force).attempts # DefaultAttempts
                \/ /\ ManagerAfter(Plan(c, force), saved).config = m.config
                   /\ ~Plan(c, force).invalidated /\ m.attempts # DefaultAttempts
<1> DEFINE p == Plan(c, force)
           mm == ManagerAfter(p, saved)
           dd == DiskAfter(p, saved)
<1>1. /\ p.next \in ValidConfig /\ p.guard \in BOOLEAN
      /\ p.attempts = NormalAttempts(p.next, p.guard)
  BY PlanFacts
<1>2. p.attempts \in AttemptLimit
  BY <1>1, AttemptFacts
<1>3. m.config \in ValidConfig /\ m.invalid \in BOOLEAN /\ m.revision \in Nat
  BY ManagerFields
<1> HIDE DEF p
<1>4. CASE p.next = m.config /\ p.attempts = m.attempts
  <2>1. mm = [m EXCEPT !.invalid = p.guard] /\ dd = disk
    BY <1>4 DEF ManagerAfter, DiskAfter
  <2>2. /\ mm \in ManagerType /\ mm.config = m.config /\ mm.attempts = m.attempts
        /\ mm.invalid = p.guard /\ mm.restart = m.restart /\ mm.revision = m.revision
    BY <1>1, <2>1, GuardedFacts
  <2> HIDE DEF mm, dd
  <2>3. HotResult(mm, dd)
    BY <1>1, <1>4, <2>1, <2>2 DEF HotResult
  <2>4. QED
    BY <1>4, <2>2, <2>3 DEF p, mm, dd
<1>5. CASE ~(p.next = m.config /\ p.attempts = m.attempts) /\ (p.next = m.config \/ saved)
  <2>1. mm = Published(p.next, p.attempts, p.guard)
    BY <1>5 DEF ManagerAfter
  <2>2. /\ mm \in ManagerType /\ mm.config = p.next /\ mm.attempts = p.attempts
        /\ mm.invalid = p.guard /\ mm.restart = "idle" /\ mm.revision > m.revision
    BY <1>1, <1>2, <2>1, PublishedFacts
  <2>3. dd \in DiskType /\ dd.pending = disk.pending /\ dd.active = p.next
    <3>1. CASE p.next = m.config
      BY <3>1 DEF DiskAfter
    <3>2. CASE p.next # m.config
      <4>1. dd = [disk EXCEPT !.active = p.next]
        BY <1>5, <3>2 DEF DiskAfter
      <4>2. QED
        BY <1>1, <4>1, DiskFacts
    <3>3. QED
      BY <3>1, <3>2
  <2> HIDE DEF mm, dd
  <2>4. HotResult(mm, dd)
    BY <1>1, <2>2, <2>3 DEF HotResult
  <2>5. QED
    BY <2>2, <2>4 DEF p, mm, dd
<1>6. CASE p.next # m.config /\ ~saved
  <2>1. dd = disk /\ ~Succeeds(p, saved)
    BY <1>6 DEF DiskAfter, Succeeds
  <2>2. CASE p.invalidated
    <3>1. mm = Revoked
      BY <1>6, <2>2 DEF ManagerAfter
    <3>2. /\ mm \in ManagerType /\ mm.config = m.config /\ mm.attempts = DefaultAttempts
          /\ mm.invalid = TRUE /\ mm.restart = m.restart
          /\ m.attempts # DefaultAttempts => mm.revision > m.revision
      BY <3>1, RevokedFacts
    <3>3. NormalAttempts(m.config, TRUE) = DefaultAttempts
      BY DEF NormalAttempts
    <3> HIDE DEF mm, dd
    <3>4. HotResult(mm, dd)
      BY <2>1, <3>2, <3>3 DEF HotResult
    <3>5. QED
      BY <2>1, <3>2, <3>4 DEF p, mm, dd
  <2>3. CASE ~p.invalidated
    <3>1. mm = m
      BY <1>6, <2>3 DEF ManagerAfter
    <3> HIDE DEF mm, dd
    <3>2. HotResult(mm, dd)
      BY <2>1, <3>1 DEF HotResult
    <3>3. QED
      BY <2>1, <2>3, <3>1, <3>2 DEF p, mm, dd
  <2>4. QED
    BY <2>2, <2>3
<1>7. QED
  BY <1>4, <1>5, <1>6


-----------------------------------------------------------------------------
(* The steps of the manager.                                               *)

Quiet == {NoOp} \cup ClearOp \cup DeleteOp

LEMMA OpFacts ==
    ASSUME NEW o
    PROVE  /\ o = NoOp => o.pc = "idle"
           /\ o \in ClearOp => o.pc = "clear" /\ o.kind = "activate" /\ o.profile \in Profile
           /\ o \in DeleteOp => o.pc = "delete" /\ o.kind = "delete" /\ o.profile \in Profile
           /\ o \in ActivateOp => o.pc \in CommitPc /\ o.kind = "activate" /\ o.profile \in Profile
           /\ o \in TelemetryOp =>
                o.pc \in CommitPc \cup {"rollback", "restore", "recover"} /\ o.kind = "telemetry"
BY DEF NoOp, ClearOp, DeleteOp, ActivateOp, TelemetryOp

LEMMA QuietFacts ==
    ASSUME NEW o \in Quiet
    PROVE  /\ o \notin ActivateOp /\ o \notin TelemetryOp
           /\ o.pc \in {"idle", "clear", "delete"}
BY OpFacts DEF Quiet, CommitPc

LEMMA ActingFacts ==
    ASSUME ManagerInv
    PROVE  /\ op.pc = "idle" => op = NoOp
           /\ op.pc = "clear" => op \in ClearOp
           /\ op.pc = "delete" => op \in DeleteOp
           /\ op.pc \in CommitPc => op \in ActivateOp \/ op \in TelemetryOp
           /\ op.pc \in CommitPc /\ op.kind = "activate" => op \in ActivateOp
           /\ op.pc \in CommitPc /\ op.kind = "telemetry" => op \in TelemetryOp
           /\ op.pc \in {"rollback", "restore", "recover"} => op \in TelemetryOp
           /\ op # NoOp => proc = "up" /\ m.restart = "idle"
BY OpFacts DEF ManagerInv, Shapes, CommitPc

(* A manager that is up and takes updates.                                 *)
LEMMA UpFacts ==
    ASSUME ManagerInv, proc = "up"
    PROVE  /\ m \in ManagerType /\ disk \in DiskType /\ target \in TargetType /\ edited \in BOOLEAN
           /\ disk.active = m.config /\ m.config \in ValidConfig
           /\ m.attempts = NormalAttempts(m.config, m.invalid)
           /\ m.restart = "idle" => ~disk.pending.exists
<1>1. m \in ManagerType /\ disk \in DiskType /\ target \in TargetType /\ edited \in BOOLEAN
  BY DEF ManagerInv, Shapes, Running
<1>2. QED
  BY <1>1, ManagerFields DEF ManagerInv, Stored, Running

LEMMA HotKeeps ==
    ASSUME Shapes, Running, m.restart = "idle", disk.active = m.config, ~disk.pending.exists,
           m.attempts = NormalAttempts(m.config, m.invalid),
           ~edited /\ m.attempts # DefaultAttempts => InSync(m.config),
           NEW c, Follows(c), NEW force \in BOOLEAN, NEW saved \in BOOLEAN,
           ~Plan(c, force).restart, ~Plan(c, force).rewrites,
           m' = ManagerAfter(Plan(c, force), saved), disk' = DiskAfter(Plan(c, force), saved),
           edited' \in BOOLEAN, edited' <=> EditedAfter(Plan(c, force)),
           UNCHANGED <<target, backup>>, proc' = "up", op' \in Quiet,
           op' \in ClearOp => op'.profile \in DOMAIN m'.config.profiles,
           op' \in DeleteOp => m'.config.active = NoProfile
    PROVE  /\ ManagerInv'
           /\ m'.config # m.config \/ m'.attempts # m.attempts => m'.revision > m.revision
<1>1. m \in ManagerType /\ disk \in DiskType /\ edited \in BOOLEAN
  BY DEF Shapes
<1>2. HotResult(m', disk')
  BY <1>1, HotFacts
<1>3. /\ m' \in ManagerType /\ disk' \in DiskType /\ m'.restart = "idle"
      /\ disk'.pending = disk.pending /\ disk'.active = m'.config
      /\ m'.attempts = NormalAttempts(m'.config, m'.invalid)
      /\ m'.config # m.config \/ m'.attempts # m.attempts => m'.revision > m.revision
  BY <1>2 DEF HotResult
<1>4. ASSUME ~edited', m'.attempts # DefaultAttempts
      PROVE  InSync(m.config)'
  <2>1. PICK cc : cc = m'.config
    OBVIOUS
  <2>2. InSync(cc)
    <3>1. ~EditedAfter(Plan(c, force))
      BY <1>4
    <3>2. \/ cc = Plan(c, force).next /\ Plan(c, force).attempts # DefaultAttempts
          \/ cc = m.config /\ ~Plan(c, force).invalidated /\ m.attempts # DefaultAttempts
      BY <1>1, <1>4, <2>1, HotFacts
    <3>3. /\ Plan(c, force).attempts # DefaultAttempts => InSync(Plan(c, force).next)
          /\ ~Plan(c, force).invalidated /\ m.attempts # DefaultAttempts => InSync(m.config)
      BY <1>1, <3>1, HotSync
    <3>4. QED
      BY <3>2, <3>3
  <2>3. QED
    BY <2>1, <2>2 DEF InSync
<1>5. op' \notin ActivateOp /\ op' \notin TelemetryOp /\ op'.pc \in {"idle", "clear", "delete"}
  BY QuietFacts
<1>6. Shapes'
  BY <1>3 DEF Shapes, Running, Quiet
<1>7. Stored'
  BY <1>3 DEF Stored, Running
<1>8. Exclusive'
  BY <1>5 DEF Exclusive
<1>9. Verified'
  BY <1>3, <1>4, <1>5 DEF Verified, RestartKeepsActive
<1>10. QED
  BY <1>3, <1>6, <1>7, <1>8, <1>9 DEF ManagerInv


(* What every step keeps, and the revision of what it publishes.           *)
Raises == m'.config # m.config \/ m'.attempts # m.attempts => m'.revision > m.revision

LEMMA InForce ==
    ASSUME ManagerInv, proc = "up", op \in Quiet, ~edited, m.attempts # DefaultAttempts
    PROVE  InSync(m.config)
BY DEF ManagerInv, Verified, Quiet

LEMMA ApplyHotKeeps ==
    ASSUME ManagerInv, proc = "up", m.restart = "idle", op \in Quiet, NEW c, Follows(c),
           NEW force \in BOOLEAN, ApplyHot(c, force)
    PROVE  ManagerInv' /\ Raises /\ target' = target
<1>1. PICK saved \in BOOLEAN : m' = ManagerAfter(Plan(c, force), saved) /\ disk' = DiskAfter(Plan(c, force), saved)
  BY DEF ApplyHot
<1>2. /\ ~Plan(c, force).restart /\ ~Plan(c, force).rewrites
      /\ edited' = EditedAfter(Plan(c, force)) /\ op' = NoOp
      /\ UNCHANGED <<target, backup, proc, candidate>>
  BY DEF ApplyHot
<1>3. edited' \in BOOLEAN /\ (edited' <=> EditedAfter(Plan(c, force)))
  BY <1>2 DEF EditedAfter
<1>4. op' \in Quiet /\ op' \notin ClearOp /\ op' \notin DeleteOp
  <2>1. op' = NoOp
    BY <1>2
  <2>2. op' \notin ClearOp /\ op' \notin DeleteOp
    BY <2>1, OpFacts
  <2>3. QED
    BY <2>1, <2>2 DEF Quiet
<1>5. Shapes /\ Running /\ disk.active = m.config /\ ~disk.pending.exists
      /\ m.attempts = NormalAttempts(m.config, m.invalid)
  BY UpFacts DEF ManagerInv, Running
<1>6. ~edited /\ m.attempts # DefaultAttempts => InSync(m.config)
  BY InForce
<1>7. QED
  BY <1>1, <1>2, <1>3, <1>4, <1>5, <1>6, HotKeeps DEF Raises

LEMMA ApplyRestartKeeps ==
    ASSUME ManagerInv, proc = "up", m.restart = "idle", op = NoOp, NEW c, Follows(c),
           NEW force \in BOOLEAN, ApplyRestart(c, force)
    PROVE  ManagerInv' /\ Raises /\ target' = target
<1> DEFINE p == Plan(c, force)
<1>1. /\ p.restart
      /\ disk' = [disk EXCEPT !.pending = [exists |-> TRUE, config |-> p.next, base |-> disk.active]]
      /\ m' = [m EXCEPT !.restart = "pending"]
      /\ UNCHANGED <<target, backup, proc, candidate, op, edited>>
  BY DEF ApplyRestart
<1>2. /\ m \in ManagerType /\ disk \in DiskType /\ disk.active = m.config
      /\ m.attempts = NormalAttempts(m.config, m.invalid) /\ edited \in BOOLEAN
      /\ m.config \in ValidConfig /\ m.invalid \in BOOLEAN
  BY UpFacts, ManagerFields
<1>3. /\ p.next \in ValidConfig /\ p.guard \in BOOLEAN /\ p.attempts = NormalAttempts(p.next, p.guard)
  BY <1>2, PlanFacts
<1>4. ASSUME ~edited, ~m.invalid, p.next.active # NoProfile
      PROVE  InSync(p.next)
  <2>1. ~p.rewrites
    BY <1>1, PlanFields DEF Rewrites
  <2>2. ~p.invalidated
    BY <1>2, <1>4, PlanFacts
  <2>3. ~p.guard
    BY <1>2, <1>3, <1>4, <2>2, PlanFacts
  <2>4. p.attempts # DefaultAttempts
    BY <1>3, <1>4, <2>3, AttemptFacts
  <2>5. ~EditedAfter(p)
    BY <1>4 DEF EditedAfter
  <2>6. m.attempts # DefaultAttempts => InSync(m.config)
    BY <1>4, InForce DEF Quiet
  <2>7. QED
    BY <1>2, <2>1, <2>4, <2>5, <2>6, HotSync
<1> HIDE DEF p
<1>5. /\ m' \in ManagerType /\ m'.config = m.config /\ m'.attempts = m.attempts
      /\ m'.invalid = m.invalid /\ m'.restart = "pending" /\ m'.revision = m.revision
  BY <1>1, <1>2 DEF ManagerType
<1>6. /\ disk' \in DiskType /\ disk'.active = disk.active /\ disk'.pending.exists
      /\ disk'.pending.config = p.next /\ disk'.pending.base = disk.active
  <2>1. [exists |-> TRUE, config |-> p.next, base |-> disk.active] \in PendingType
    BY <1>2, <1>3 DEF PendingType
  <2>2. QED
    BY <1>1, <1>2, <2>1 DEF DiskType
<1>7. Shapes'
  BY <1>1, <1>5, <1>6 DEF ManagerInv, Shapes, Running
<1>8. Stored'
  BY <1>1, <1>2, <1>5, <1>6 DEF Stored, Running
<1>9. op' = NoOp /\ op' \notin ClearOp /\ op' \notin DeleteOp /\ op' \notin ActivateOp /\ op' \notin TelemetryOp
      /\ op'.pc = "idle"
  <2>1. op' = NoOp
    BY <1>1
  <2>2. QED
    BY <2>1, OpFacts DEF CommitPc
<1>10. Exclusive'
  BY <1>9 DEF Exclusive
<1>11. Verified'
  <2>1. SUFFICES ASSUME ~edited' PROVE (m'.attempts # DefaultAttempts => InSync(m.config)')
                                       /\ (RestartKeepsActive' => InSync(disk.pending.config)')
    BY <1>9 DEF Verified
  <2>2. ~edited
    BY <1>1, <2>1
  <2>3. m.attempts # DefaultAttempts => InSync(m.config)
    BY <2>2, InForce DEF Quiet
  <2>4. m'.attempts # DefaultAttempts => InSync(m.config)'
    BY <1>1, <1>5, <2>3 DEF InSync
  <2>5. ASSUME RestartKeepsActive' PROVE InSync(disk.pending.config)'
    <3>1. ~m.invalid /\ p.next.active # NoProfile
      BY <1>5, <1>6, <2>5 DEF RestartKeepsActive
    <3>2. InSync(p.next)
      BY <1>4, <2>2, <3>1
    <3>3. QED
      BY <1>1, <1>6, <3>2 DEF InSync
  <2>6. QED
    BY <2>4, <2>5
<1>12. QED
  BY <1>1, <1>5, <1>7, <1>8, <1>10, <1>11 DEF ManagerInv, Raises

LEMMA BeginTelemetryKeeps ==
    ASSUME ManagerInv, proc = "up", m.restart = "idle", op = NoOp, NEW c, Follows(c),
           ActiveInputsKept(m.config, c) => c.active # NoProfile,
           NEW force \in BOOLEAN, BeginTelemetry(c, force)
    PROVE  ManagerInv' /\ Raises /\ target' = target
<1> DEFINE p == Plan(c, force)
<1>1. /\ p.rewrites
      /\ op' = [pc |-> "backup", kind |-> "telemetry", config |-> p.next,
                projection |-> Projection(p.next, p.next.active),
                original |-> target, written |-> FALSE, restored |-> TRUE, attempts |-> p.attempts]
      /\ edited' = FALSE /\ UNCHANGED <<disk, target, backup, proc, candidate, m>>
  BY DEF BeginTelemetry
<1>2. /\ m \in ManagerType /\ target \in TargetType /\ c \in ValidConfig
      /\ m.config \in ValidConfig /\ m.invalid \in BOOLEAN
  BY UpFacts, ManagerFields DEF Follows
<1>3. Rewrites(c) /\ InSync(m.config)
  BY <1>1, PlanFields
<1>4. /\ ActiveInputsKept(m.config, c) /\ m.config.telemetry # c.telemetry /\ c.active # NoProfile
  BY <1>3 DEF Rewrites, TelemetryChanges
<1>5. Reads(c, force) /\ ~Invalidated(c, force)
  BY <1>3, <1>4 DEF Reads, Checked, Invalidated
<1>6. p.read /\ ~p.invalidated
  BY <1>5, PlanFields
<1>7. p.next = c /\ ~p.guard /\ p.guard \in BOOLEAN /\ p.attempts = NormalAttempts(c, p.guard)
  <2>1. p.next = c
    BY <1>2, <1>6, PlanFacts
  <2>2. p.guard \in BOOLEAN /\ p.attempts = NormalAttempts(p.next, p.guard)
    BY <1>2, PlanFacts
  <2>3. ~p.guard
    BY <1>2, <1>6, PlanFacts
  <2>4. QED
    BY <2>1, <2>2, <2>3
<1>8. p.attempts = NormalAttempts(c, FALSE) /\ p.attempts \in AttemptLimit
  BY <1>2, <1>7, AttemptFacts
<1>9. c.key # NoKey
  BY <1>3, <1>4 DEF InSync, ActiveInputsKept
<1>10. Projection(c, c.active) \in ManagedType
  BY <1>2, <1>4, ActiveFacts, ProjectionFacts
<1> HIDE DEF p
<1>11. /\ op' \in TelemetryOp /\ op'.pc = "backup" /\ op'.config = c
       /\ op'.projection = Projection(c, c.active) /\ op'.attempts = NormalAttempts(c, FALSE)
  BY <1>1, <1>2, <1>7, <1>8, <1>10 DEF TelemetryOp, CommitPc
<1>12. op' \notin ClearOp /\ op' \notin DeleteOp /\ op' \notin ActivateOp /\ op' # NoOp
  BY <1>11, OpFacts
<1>13. Shapes'
  BY <1>1, <1>11 DEF ManagerInv, Shapes, Running
<1>14. Stored'
  BY <1>1 DEF ManagerInv, Stored, Running, NormalAttempts
<1>15. Exclusive'
  BY <1>4, <1>9, <1>11, <1>12 DEF Exclusive, Projection, NormalAttempts
<1>16. Verified'
  BY <1>1, <1>11, <1>12 DEF Verified, RestartKeepsActive
<1>17. QED
  BY <1>1, <1>13, <1>14, <1>15, <1>16 DEF ManagerInv, Raises


LEMMA CanMutateFacts ==
    ASSUME ManagerInv, CanMutate
    PROVE  /\ proc = "up" /\ m.restart = "idle" /\ op = NoOp /\ op \in Quiet
           /\ m \in ManagerType /\ m.config \in ValidConfig /\ m.config \in Config
<1>1. proc = "up" /\ m.restart = "idle" /\ op = NoOp
  BY DEF CanMutate, InProgress
<1>2. QED
  BY <1>1, UpFacts, ActiveFacts DEF Quiet

LEMMA FollowsPrepared ==
    ASSUME m \in ManagerType, NEW d \in Config, d.active \in {NoProfile, m.config.active}
    PROVE  /\ Follows(PrepareServerUpdate(m.config, d))
           /\ ActiveInputsKept(m.config, PrepareServerUpdate(m.config, d)) =>
                PrepareServerUpdate(m.config, d).active # NoProfile
<1>1. m.config \in ValidConfig
  BY ManagerFields
<1>2. QED
  BY <1>1, PreparedFacts DEF Follows

(* Reconciling the served configuration as it is.                          *)
LEMMA FollowsItself ==
    ASSUME m \in ManagerType, NEW force \in BOOLEAN
    PROVE  Follows(m.config) /\ ~Plan(m.config, force).restart /\ ~Plan(m.config, force).rewrites
<1>1. Follows(m.config)
  BY ManagerFields DEF Follows
<1>2. ~RestartRequired(m.config, m.config) /\ ~Rewrites(m.config)
  BY DEF RestartRequired, Rewrites, TelemetryChanges
<1>3. QED
  BY <1>1, <1>2, PlanFields

LEMMA WithoutFacts ==
    ASSUME m \in ManagerType, NEW id
    PROVE  /\ Without(id) \in Config /\ Without(id).active = m.config.active
           /\ m.config.active = NoProfile => Without(id) \in ValidConfig
<1> DEFINE f == [i \in DOMAIN m.config.profiles \ {id} |-> m.config.profiles[i]]
<1>1. m.config \in Config
  BY ManagerFields, ActiveFacts
<1>2. f \in ProfileMaps
  BY <1>1, ConfigFacts, ProfilesWithout
<1>3. Without(id) = [m.config EXCEPT !.profiles = f]
  BY DEF Without
<1> HIDE DEF f
<1>4. Without(id) \in Config /\ Without(id).active = m.config.active
  BY <1>1, <1>2, <1>3, ConfigProfiles
<1>5. QED
  BY <1>4 DEF ValidConfig, Valid

LEMMA UpdateKeeps ==
    ASSUME ManagerInv, NEW c \in ClientConfig, Update(c) \/ UpdateProfile(c)
    PROVE  ManagerInv' /\ Raises /\ target' = target
<1>0. CanMutate
  BY DEF Update, UpdateProfile
<1>1. /\ proc = "up" /\ m.restart = "idle" /\ op = NoOp /\ op \in Quiet
      /\ m \in ManagerType /\ m.config \in ValidConfig /\ m.config \in Config
  BY <1>0, CanMutateFacts
<1>2. c \in ValidConfig /\ c \in Config /\ c.active = NoProfile
  BY ClientFacts, ActiveFacts
<1>3. CASE Update(c)
  <2> DEFINE p == PrepareServerUpdate(m.config, c)
  <2>1. Follows(p) /\ (ActiveInputsKept(m.config, p) => p.active # NoProfile)
    BY <1>1, <1>2, FollowsPrepared
  <2>2. ApplyHot(p, FALSE) \/ ApplyRestart(p, FALSE) \/ BeginTelemetry(p, FALSE)
    BY <1>3 DEF Update
  <2> HIDE DEF p
  <2>3. QED
    BY <1>1, <2>1, <2>2, ApplyHotKeeps, ApplyRestartKeeps, BeginTelemetryKeeps
<1>4. CASE UpdateProfile(c)
  <2> DEFINE d == [m.config EXCEPT !.profiles = c.profiles]
             p == PrepareServerUpdate(m.config, d)
  <2>1. d \in Config /\ d.active = m.config.active
    BY <1>1, <1>2, ConfigFacts, ConfigProfiles
  <2>2. ApplyHot(p, TRUE)
    BY <1>4 DEF UpdateProfile
  <2> HIDE DEF d
  <2>3. Follows(p)
    BY <1>1, <2>1, FollowsPrepared
  <2> HIDE DEF p
  <2>4. QED
    BY <1>1, <2>2, <2>3, ApplyHotKeeps
<1>5. QED
  BY <1>3, <1>4

LEMMA UpdatePatchKeeps ==
    ASSUME ManagerInv, UpdatePatch
    PROVE  ManagerInv' /\ Raises /\ target' = target
<1> DEFINE d == [m.config EXCEPT !.telemetry = ~@]
           p == PrepareServerUpdate(m.config, d)
<1>0. CanMutate /\ (ApplyHot(p, TRUE) \/ BeginTelemetry(p, TRUE))
  BY DEF UpdatePatch
<1>1. /\ proc = "up" /\ m.restart = "idle" /\ op = NoOp /\ op \in Quiet
      /\ m \in ManagerType /\ m.config \in ValidConfig /\ m.config \in Config
  BY <1>0, CanMutateFacts
<1>2. d \in Config /\ d.active = m.config.active
  BY <1>1, ConfigTelemetry
<1> HIDE DEF d
<1>3. Follows(p) /\ (ActiveInputsKept(m.config, p) => p.active # NoProfile)
  BY <1>1, <1>2, FollowsPrepared
<1> HIDE DEF p
<1>4. QED
  BY <1>0, <1>1, <1>3, ApplyHotKeeps, BeginTelemetryKeeps

LEMMA StatusKeeps ==
    ASSUME ManagerInv, Status
    PROVE  ManagerInv' /\ Raises /\ target' = target
<1>1. CanMutate /\ ApplyHot(m.config, TRUE)
  BY DEF Status
<1>2. proc = "up" /\ m.restart = "idle" /\ op \in Quiet /\ m \in ManagerType
  BY <1>1, CanMutateFacts
<1>3. Follows(m.config)
  BY <1>2, FollowsItself
<1>4. QED
  BY <1>1, <1>2, <1>3, ApplyHotKeeps

(* Reconcile, and what it leaves to do.                                    *)
LEMMA ReconcileKeeps ==
    ASSUME ManagerInv, CanMutate, NEW saved \in BOOLEAN,
           m' = ManagerAfter(Plan(m.config, TRUE), saved),
           disk' = DiskAfter(Plan(m.config, TRUE), saved),
           edited' = EditedAfter(Plan(m.config, TRUE)),
           UNCHANGED <<target, backup, proc, candidate>>, op' \in Quiet,
           op' \in ClearOp => op'.profile \in DOMAIN m'.config.profiles,
           op' \in DeleteOp => m'.config.active = NoProfile
    PROVE  ManagerInv' /\ Raises /\ target' = target
<1>1. proc = "up" /\ m.restart = "idle" /\ op \in Quiet /\ m \in ManagerType
  BY CanMutateFacts
<1>2. Follows(m.config) /\ ~Plan(m.config, TRUE).restart /\ ~Plan(m.config, TRUE).rewrites
  BY <1>1, FollowsItself
<1>3. edited' \in BOOLEAN /\ (edited' <=> EditedAfter(Plan(m.config, TRUE)))
  BY DEF EditedAfter
<1>4. Shapes /\ Running /\ disk.active = m.config /\ ~disk.pending.exists
      /\ m.attempts = NormalAttempts(m.config, m.invalid)
  BY <1>1, UpFacts DEF ManagerInv, Running
<1>5. ~edited /\ m.attempts # DefaultAttempts => InSync(m.config)
  BY <1>1, InForce
<1>6. proc' = "up"
  BY <1>1
<1>7. QED
  BY <1>1, <1>2, <1>3, <1>4, <1>5, <1>6, HotKeeps DEF Raises

LEMMA ReconcileFacts ==
    ASSUME ManagerInv, CanMutate, NEW saved \in BOOLEAN
    PROVE  /\ ManagerAfter(Plan(m.config, TRUE), saved).config.profiles = m.config.profiles
           /\ Plan(m.config, TRUE).invalidated /\ saved =>
                ManagerAfter(Plan(m.config, TRUE), saved).config.active = NoProfile
<1>1. /\ proc = "up" /\ m.restart = "idle" /\ m \in ManagerType
  BY CanMutateFacts
<1>2. Follows(m.config)
  BY <1>1, FollowsItself
<1>3. /\ disk \in DiskType /\ edited \in BOOLEAN /\ disk.active = m.config
      /\ m.attempts = NormalAttempts(m.config, m.invalid)
  BY <1>1, UpFacts
<1>4. /\ \/ ManagerAfter(Plan(m.config, TRUE), saved).config = m.config
         \/ ManagerAfter(Plan(m.config, TRUE), saved).config = Plan(m.config, TRUE).next
      /\ Succeeds(Plan(m.config, TRUE), saved) =>
            ManagerAfter(Plan(m.config, TRUE), saved).config = Plan(m.config, TRUE).next
  BY <1>1, <1>2, <1>3, HotFacts
<1>5. /\ Plan(m.config, TRUE).next.profiles = m.config.profiles
      /\ Plan(m.config, TRUE).invalidated => Plan(m.config, TRUE).next.active = NoProfile
  BY <1>1, <1>2, PlanFacts
<1>6. QED
  BY <1>4, <1>5 DEF Succeeds

LEMMA DeleteKeeps ==
    ASSUME ManagerInv, NEW id \in Profile, DeleteProfile(id)
    PROVE  ManagerInv' /\ Raises /\ target' = target
<1>0. CanMutate
  BY DEF DeleteProfile
<1>1. /\ proc = "up" /\ m.restart = "idle" /\ op = NoOp /\ op \in Quiet
      /\ m \in ManagerType /\ m.config \in ValidConfig /\ m.config \in Config
  BY <1>0, CanMutateFacts
<1>2. CASE m.config.active # id
  <2>1. ApplyHot(PrepareServerUpdate(m.config, Without(id)), TRUE)
    BY <1>2 DEF DeleteProfile
  <2>2. Follows(PrepareServerUpdate(m.config, Without(id)))
    BY <1>1, WithoutFacts, FollowsPrepared
  <2>3. QED
    BY <1>1, <2>1, <2>2, ApplyHotKeeps
<1>3. CASE m.config.active = id
  <2>1. PICK saved \in BOOLEAN :
            /\ m' = ManagerAfter(Plan(m.config, TRUE), saved)
            /\ disk' = DiskAfter(Plan(m.config, TRUE), saved)
            /\ op' = IF Plan(m.config, TRUE).invalidated /\ saved
                     THEN [pc |-> "delete", kind |-> "delete", profile |-> id] ELSE NoOp
    BY <1>3 DEF DeleteProfile
  <2>2. edited' = EditedAfter(Plan(m.config, TRUE)) /\ UNCHANGED <<target, backup, proc, candidate>>
    BY <1>3 DEF DeleteProfile
  <2>3. [pc |-> "delete", kind |-> "delete", profile |-> id] \in DeleteOp
    BY DEF DeleteOp
  <2>4. op' \in Quiet /\ op' \notin ClearOp /\ (op' \in DeleteOp => m'.config.active = NoProfile)
    <3>1. op' \in {NoOp} \cup DeleteOp
      BY <2>1, <2>3
    <3>2. op' \notin ClearOp
      BY <3>1, OpFacts
    <3>3. ASSUME op' \in DeleteOp PROVE m'.config.active = NoProfile
      <4>1. op' # NoOp
        BY <3>3, OpFacts
      <4>2. Plan(m.config, TRUE).invalidated /\ saved
        BY <2>1, <4>1
      <4>3. QED
        BY <1>0, <2>1, <4>2, ReconcileFacts
    <3>4. QED
      BY <3>1, <3>2, <3>3 DEF Quiet
  <2>5. QED
    BY <1>0, <2>1, <2>2, <2>4, ReconcileKeeps
<1>4. QED
  BY <1>2, <1>3

LEMMA FinishDeleteKeeps ==
    ASSUME ManagerInv, FinishDelete
    PROVE  ManagerInv' /\ Raises /\ target' = target
<1>1. op.pc = "delete" /\ ApplyHot(Without(op.profile), TRUE)
  BY DEF FinishDelete
<1>2. op \in DeleteOp /\ op # NoOp
  BY <1>1, ActingFacts, OpFacts
<1>3. proc = "up" /\ m.restart = "idle" /\ op \in Quiet /\ m.config.active = NoProfile
  BY <1>2, ActingFacts DEF Quiet, ManagerInv, Exclusive
<1>4. Follows(Without(op.profile))
  <2>1. m \in ManagerType
    BY <1>3, UpFacts
  <2>2. QED
    BY <1>3, <2>1, WithoutFacts DEF Follows
<1>5. QED
  BY <1>1, <1>3, <1>4, ApplyHotKeeps


LEMMA BeginActivateKeeps ==
    ASSUME ManagerInv, NEW id \in Profile, BeginActivate(id)
    PROVE  ManagerInv' /\ Raises /\ target' = target
<1>0. CanMutate /\ id \in DOMAIN m.config.profiles
  BY DEF BeginActivate
<1>1. PICK saved \in BOOLEAN :
        /\ m' = ManagerAfter(Plan(m.config, TRUE), saved)
        /\ disk' = DiskAfter(Plan(m.config, TRUE), saved)
        /\ op' \in {NoOp, [pc |-> "clear", kind |-> "activate", profile |-> id]}
  BY DEF BeginActivate
<1>2. edited' = EditedAfter(Plan(m.config, TRUE)) /\ UNCHANGED <<target, backup, proc, candidate>>
  BY DEF BeginActivate
<1>3. [pc |-> "clear", kind |-> "activate", profile |-> id] \in ClearOp
  BY DEF ClearOp
<1>4. op' \in {NoOp} \cup ClearOp /\ (op' # NoOp => op'.profile = id)
  BY <1>1, <1>3
<1>5. op' \in Quiet /\ op' \notin DeleteOp /\ (op' \in ClearOp => op' # NoOp)
  BY <1>4, OpFacts DEF Quiet
<1>6. m'.config.profiles = m.config.profiles
  BY <1>0, <1>1, ReconcileFacts
<1>7. op' \in ClearOp => op'.profile \in DOMAIN m'.config.profiles
  BY <1>0, <1>4, <1>5, <1>6
<1>8. QED
  BY <1>0, <1>1, <1>2, <1>5, <1>7, ReconcileKeeps

(* Recording another active profile, or none, over one that was cleared.   *)
LEMMA FollowsActive ==
    ASSUME m \in ManagerType, NEW id \in DOMAIN m.config.profiles \cup {NoProfile},
           id = NoProfile \/ m.config.active = NoProfile
    PROVE  LET c == [m.config EXCEPT !.active = id]
           IN  /\ Follows(c) /\ c.active = id /\ c.profiles = m.config.profiles
               /\ ~Plan(c, TRUE).restart /\ ~Plan(c, TRUE).rewrites
<1> DEFINE c == [m.config EXCEPT !.active = id]
<1>1. m.config \in Config /\ id \in Profile \cup {NoProfile}
  BY ManagerFields, ActiveFacts, ConfigFacts, ProfileFacts
<1>2. /\ c \in Config /\ c.active = id /\ c.addr = m.config.addr /\ c.logMax = m.config.logMax
      /\ c.profiles = m.config.profiles /\ c.telemetry = m.config.telemetry
  BY <1>1, ConfigActive
<1> HIDE DEF c
<1>3. Follows(c)
  BY <1>2 DEF Follows, ValidConfig, Valid
<1>4. ~RestartRequired(m.config, c) /\ ~Rewrites(c)
  BY <1>2 DEF RestartRequired, Rewrites, TelemetryChanges
<1>5. ~Plan(c, TRUE).restart /\ ~Plan(c, TRUE).rewrites
  BY <1>4, PlanFields
<1>6. QED
  BY <1>2, <1>3, <1>5 DEF c

LEMMA ClearActiveKeeps ==
    ASSUME ManagerInv, ClearActive
    PROVE  ManagerInv' /\ Raises /\ target' = target
<1> DEFINE c == [m.config EXCEPT !.active = NoProfile]
<1>1. op \in ClearOp /\ op # NoOp
  BY ActingFacts, OpFacts DEF ClearActive
<1>2. proc = "up" /\ m.restart = "idle" /\ op \in Quiet /\ op.profile \in DOMAIN m.config.profiles
  BY <1>1, ActingFacts DEF Quiet, ManagerInv, Exclusive
<1>3. /\ m \in ManagerType /\ disk \in DiskType /\ target \in TargetType /\ edited \in BOOLEAN
      /\ disk.active = m.config /\ m.config \in ValidConfig
      /\ m.attempts = NormalAttempts(m.config, m.invalid) /\ ~disk.pending.exists
  BY <1>2, UpFacts
<1>4. /\ Follows(c) /\ c.active = NoProfile /\ c.profiles = m.config.profiles
      /\ ~Plan(c, TRUE).restart /\ ~Plan(c, TRUE).rewrites
  BY <1>3, FollowsActive
<1>5. PICK saved \in BOOLEAN :
        /\ m' = ManagerAfter(Plan(c, TRUE), saved)
        /\ disk' = DiskAfter(Plan(c, TRUE), saved)
        /\ \/ op' = NoOp /\ UNCHANGED edited
           \/ /\ Succeeds(Plan(c, TRUE), saved)
              /\ op' = [pc |-> "backup", kind |-> "activate", profile |-> op.profile,
                        projection |-> Projection(m.config, op.profile),
                        original |-> target, written |-> FALSE]
              /\ edited' = FALSE
  BY DEF ClearActive
<1>6. UNCHANGED <<target, backup, proc, candidate>>
  BY DEF ClearActive
<1> HIDE DEF c
<1>7. ~Plan(c, TRUE).read /\ ~Plan(c, TRUE).invalidated /\ Plan(c, TRUE).next = c
  BY <1>3, <1>4, PlanFacts
<1>8. CASE op' = NoOp /\ UNCHANGED edited
  <2>1. edited' \in BOOLEAN /\ (edited' <=> EditedAfter(Plan(c, TRUE)))
    BY <1>3, <1>7, <1>8 DEF EditedAfter
  <2>2. op' \in Quiet /\ op' \notin ClearOp /\ op' \notin DeleteOp
    BY <1>8, OpFacts DEF Quiet
  <2>3. ~edited /\ m.attempts # DefaultAttempts => InSync(m.config)
    BY <1>2, InForce
  <2>4. Shapes /\ Running /\ proc' = "up"
    BY <1>2, <1>6 DEF ManagerInv, Running
  <2>5. QED
    BY <1>2, <1>3, <1>4, <1>5, <1>6, <2>1, <2>2, <2>3, <2>4, HotKeeps DEF Raises
<1>9. CASE /\ Succeeds(Plan(c, TRUE), saved)
           /\ op' = [pc |-> "backup", kind |-> "activate", profile |-> op.profile,
                     projection |-> Projection(m.config, op.profile),
                     original |-> target, written |-> FALSE]
           /\ edited' = FALSE
  <2>1. HotResult(m', disk') /\ m'.config = c
    BY <1>2, <1>3, <1>4, <1>5, <1>7, <1>9, HotFacts
  <2>2. /\ m' \in ManagerType /\ disk' \in DiskType /\ m'.restart = "idle"
        /\ disk'.pending = disk.pending /\ disk'.active = m'.config
        /\ m'.attempts = NormalAttempts(m'.config, m'.invalid)
        /\ m'.config # m.config \/ m'.attempts # m.attempts => m'.revision > m.revision
    BY <2>1 DEF HotResult
  <2>3. Projection(m.config, op.profile) \in ManagedType /\ op.profile \in Profile
    BY <1>1, <1>2, <1>3, ProjectionFacts, OpFacts
  <2>4. op' \in ActivateOp /\ op'.pc = "backup" /\ op'.profile = op.profile
    BY <1>3, <1>9, <2>3 DEF ActivateOp, CommitPc
  <2>5. op' \notin ClearOp /\ op' \notin DeleteOp /\ op' \notin TelemetryOp /\ op' # NoOp
    BY <2>4, OpFacts
  <2>6. Shapes'
    BY <1>2, <1>6, <1>9, <2>2, <2>4 DEF ManagerInv, Shapes, Running
  <2>7. Stored'
    BY <1>2, <1>3, <1>6, <2>2 DEF Stored, Running
  <2>8. Exclusive'
    BY <1>2, <1>4, <2>1, <2>4, <2>5 DEF Exclusive
  <2>9. Verified'
    BY <2>2, <2>4, <2>5 DEF Verified, RestartKeepsActive
  <2>10. QED
    BY <1>6, <2>2, <2>6, <2>7, <2>8, <2>9 DEF ManagerInv, Raises
<1>10. QED
  BY <1>5, <1>8, <1>9

LEMMA SetActiveKeeps ==
    ASSUME ManagerInv, SetActive
    PROVE  ManagerInv' /\ Raises /\ target' = target
<1> DEFINE c == [m.config EXCEPT !.active = op.profile]
<1>1. op \in ActivateOp /\ op # NoOp
  BY ActingFacts, OpFacts DEF SetActive, CommitPc
<1>2. /\ proc = "up" /\ m.restart = "idle" /\ op.profile \in DOMAIN m.config.profiles
      /\ m.config.active = NoProfile
  BY <1>1, ActingFacts DEF ManagerInv, Exclusive
<1>3. /\ m \in ManagerType /\ disk \in DiskType /\ target \in TargetType /\ edited \in BOOLEAN
      /\ disk.active = m.config /\ m.config \in ValidConfig /\ m.invalid \in BOOLEAN
      /\ m.attempts = NormalAttempts(m.config, m.invalid) /\ ~disk.pending.exists
  BY <1>2, UpFacts, ManagerFields
<1>4. Follows(c) /\ ~Plan(c, TRUE).restart /\ ~Plan(c, TRUE).rewrites
  BY <1>2, <1>3, FollowsActive
<1>5. PICK saved \in BOOLEAN : m' = ManagerAfter(Plan(c, TRUE), saved) /\ disk' = DiskAfter(Plan(c, TRUE), saved)
  BY DEF SetActive
<1>6. op' = NoOp /\ edited' = EditedAfter(Plan(c, TRUE)) /\ UNCHANGED <<target, backup, proc, candidate>>
  BY DEF SetActive
<1> HIDE DEF c
<1>7. edited' \in BOOLEAN /\ (edited' <=> EditedAfter(Plan(c, TRUE)))
  BY <1>6 DEF EditedAfter
<1>8. op' \in Quiet /\ op' \notin ClearOp /\ op' \notin DeleteOp
  BY <1>6, OpFacts DEF Quiet
<1>9. m.attempts = DefaultAttempts
  BY <1>2, <1>3, AttemptFacts
<1>10. Shapes /\ Running /\ proc' = "up"
  BY <1>2, <1>6 DEF ManagerInv, Running
<1>11. QED
  BY <1>2, <1>3, <1>4, <1>5, <1>6, <1>7, <1>8, <1>9, <1>10, HotKeeps DEF Raises

-----------------------------------------------------------------------------
(* Rewriting the settings file.                                            *)

(* The rewriting goes on: only its progress changes.                       *)
SameOp(o, n) ==
    /\ n.projection = o.projection /\ n.original = o.original
    /\ o \in ActivateOp => n \in ActivateOp /\ n.profile = o.profile
    /\ o \in TelemetryOp => n \in TelemetryOp /\ n.config = o.config /\ n.attempts = o.attempts

LEMMA OpKeeps ==
    ASSUME ManagerInv, op \in ActivateOp \cup TelemetryOp, SameOp(op, op'),
           UNCHANGED <<disk, proc, candidate, m>>, target' \in TargetType,
           backup' \in {"none", "partial", "complete"}, edited' \in BOOLEAN,
           ~edited' /\ op'.pc = "save" => target'.exists /\ target'.managed = op.projection,
           ~edited' /\ op'.pc \in {"replace", "restore"} => target'.user = op.original.user
    PROVE  ManagerInv'
<1>1. op # NoOp /\ proc = "up" /\ m.restart = "idle"
  BY OpFacts, ActingFacts DEF CommitPc
<1>2. op' \in ActivateOp \cup TelemetryOp /\ op'.projection = op.projection /\ op'.original = op.original
  BY DEF SameOp
<1>3. op' \notin ClearOp /\ op' \notin DeleteOp /\ op' # NoOp
  BY <1>2, OpFacts DEF CommitPc
<1>4. Shapes'
  BY <1>1, <1>2 DEF ManagerInv, Shapes, Running
<1>5. Stored'
  BY DEF ManagerInv, Stored, Running, NormalAttempts
<1>6. ~(op \in ActivateOp /\ op \in TelemetryOp) /\ ~(op' \in ActivateOp /\ op' \in TelemetryOp)
  BY OpFacts
<1>7. Exclusive'
  BY <1>2, <1>3, <1>6 DEF ManagerInv, Exclusive, SameOp, Projection, NormalAttempts
<1>8. Verified'
  BY <1>1, <1>2, <1>3 DEF Verified, RestartKeepsActive
<1>9. QED
  BY <1>4, <1>5, <1>7, <1>8 DEF ManagerInv

(* An activation is given up: no profile is active.                        *)
LEMMA GiveUpKeeps ==
    ASSUME ManagerInv, op \in ActivateOp, op' = NoOp,
           UNCHANGED <<disk, proc, candidate, m>>, target' \in TargetType,
           backup' \in {"none", "partial", "complete"}, edited' \in BOOLEAN
    PROVE  ManagerInv'
<1>1. op # NoOp /\ proc = "up" /\ m.restart = "idle"
  BY OpFacts, ActingFacts DEF CommitPc
<1>2. m.config.active = NoProfile /\ m \in ManagerType /\ m.attempts = NormalAttempts(m.config, m.invalid)
  BY <1>1, UpFacts DEF ManagerInv, Exclusive
<1>3. m.attempts = DefaultAttempts
  BY <1>2, AttemptFacts, ManagerFields
<1>4. /\ op' \notin ClearOp /\ op' \notin DeleteOp /\ op' \notin ActivateOp /\ op' \notin TelemetryOp
      /\ op'.pc = "idle"
  BY OpFacts DEF CommitPc
<1>5. Shapes'
  BY <1>1 DEF ManagerInv, Shapes, Running
<1>6. Stored'
  BY DEF ManagerInv, Stored, Running, NormalAttempts
<1>7. Exclusive'
  BY <1>4 DEF Exclusive
<1>8. Verified'
  BY <1>1, <1>3, <1>4 DEF Verified, RestartKeepsActive
<1>9. QED
  BY <1>5, <1>6, <1>7, <1>8 DEF ManagerInv


LEMMA OpMoved ==
    ASSUME NEW o \in ActivateOp \cup TelemetryOp, NEW to \in CommitPc
    PROVE  /\ SameOp(o, [o EXCEPT !.pc = to]) /\ [o EXCEPT !.pc = to].pc = to
           /\ SameOp(o, [o EXCEPT !.pc = to, !.written = TRUE])
           /\ [o EXCEPT !.pc = to, !.written = TRUE].pc = to
<1>1. CASE o \in ActivateOp
  <2>1. o \notin TelemetryOp
    BY <1>1, OpFacts
  <2>2. QED
    BY <1>1, <2>1 DEF ActivateOp, SameOp
<1>2. CASE o \in TelemetryOp
  <2>1. o \notin ActivateOp
    BY <1>2, OpFacts
  <2>2. QED
    BY <1>2, <2>1 DEF TelemetryOp, SameOp
<1>3. QED
  BY <1>1, <1>2

LEMMA TelemetryMoved ==
    ASSUME NEW o \in TelemetryOp, NEW to \in {"rollback", "restore", "recover"}
    PROVE  /\ SameOp(o, [o EXCEPT !.pc = to]) /\ [o EXCEPT !.pc = to].pc = to
           /\ SameOp(o, [o EXCEPT !.pc = to, !.restored = FALSE])
           /\ [o EXCEPT !.pc = to, !.restored = FALSE].pc = to
<1>1. o \notin ActivateOp
  BY OpFacts
<1>2. QED
  BY <1>1 DEF TelemetryOp, SameOp

(* A Commit that fails.                                                    *)
LEMMA FailedKeeps ==
    ASSUME ManagerInv, op \in ActivateOp \cup TelemetryOp, op' = Failed(op),
           UNCHANGED <<disk, target, proc, candidate, m, edited>>,
           backup' \in {"none", "partial", "complete"}
    PROVE  ManagerInv'
<1>1. target' \in TargetType /\ edited' \in BOOLEAN
  BY DEF ManagerInv, Shapes
<1>2. CASE op \in ActivateOp
  <2>1. op' = NoOp
    BY <1>2, OpFacts DEF Failed
  <2>2. QED
    BY <1>1, <1>2, <2>1, GiveUpKeeps
<1>3. CASE op \in TelemetryOp
  <2>1. op' = [op EXCEPT !.pc = "rollback"]
    BY <1>3, OpFacts DEF Failed
  <2>2. SameOp(op, op') /\ op'.pc = "rollback"
    BY <1>3, <2>1, TelemetryMoved
  <2>3. QED
    BY <1>1, <2>2, OpKeeps
<1>4. QED
  BY <1>2, <1>3

(* Rewriting keeps the user's fields as long as the user does not write    *)
(* them in between.                                                        *)
Keeps == ~edited /\ ~edited' => target'.user = target.user

LEMMA CommitActing ==
    ASSUME ManagerInv, op.pc \in CommitPc
    PROVE  /\ op \in ActivateOp \cup TelemetryOp /\ target \in TargetType /\ edited \in BOOLEAN
           /\ backup \in {"none", "partial", "complete"}
           /\ op.original \in TargetType /\ op.projection \in ManagedType
<1>1. op \in ActivateOp \cup TelemetryOp
  BY ActingFacts
<1>2. QED
  BY <1>1 DEF ManagerInv, Shapes, ActivateOp, TelemetryOp

LEMMA CommitKeeps ==
    ASSUME ManagerInv, CommitBackup \/ CommitCopy \/ CommitCheck \/ CommitReplace \/ CommitVerify
    PROVE  ManagerInv' /\ UNCHANGED <<m, disk>> /\ Keeps
<1>0. op.pc \in CommitPc
  BY DEF CommitBackup, CommitCopy, CommitCheck, CommitReplace, CommitVerify, CommitPc
<1>1. /\ op \in ActivateOp \cup TelemetryOp /\ target \in TargetType /\ edited \in BOOLEAN
      /\ backup \in {"none", "partial", "complete"}
      /\ op.original \in TargetType /\ op.projection \in ManagedType
  BY <1>0, CommitActing
<1>2. UNCHANGED <<disk, proc, candidate, m>>
  BY DEF CommitBackup, CommitCopy, CommitCheck, CommitReplace, CommitVerify
<1>3. "copy" \in CommitPc /\ "check" \in CommitPc /\ "replace" \in CommitPc /\ "verify" \in CommitPc
      /\ "save" \in CommitPc
  BY DEF CommitPc
<1>4. CASE op' = Failed(op) /\ UNCHANGED <<target, edited>> /\ backup' \in {"none", "partial", "complete"}
  BY <1>1, <1>2, <1>4, FailedKeeps DEF Keeps
<1>5. ASSUME NEW to \in {"copy", "check"}, op' = [op EXCEPT !.pc = to], UNCHANGED <<target, edited>>,
             backup' \in {"none", "partial", "complete"}
      PROVE  ManagerInv' /\ UNCHANGED <<m, disk>> /\ Keeps
  <2>1. SameOp(op, op') /\ op'.pc = to
    BY <1>1, <1>3, <1>5, OpMoved
  <2>2. QED
    BY <1>1, <1>2, <1>5, <2>1, OpKeeps DEF Keeps
<1>6. CASE CommitBackup
  BY <1>1, <1>4, <1>5, <1>6 DEF CommitBackup
<1>7. CASE CommitCopy
  BY <1>1, <1>4, <1>5, <1>7 DEF CommitCopy
<1>8. CASE CommitCheck
  <2>1. CASE target = op.original /\ op' = [op EXCEPT !.pc = "replace"] /\ edited' = FALSE
    <3>1. SameOp(op, op') /\ op'.pc = "replace" /\ UNCHANGED <<target, backup>>
      BY <1>1, <1>3, <1>8, <2>1, OpMoved DEF CommitCheck
    <3>2. QED
      BY <1>1, <1>2, <2>1, <3>1, OpKeeps DEF Keeps
  <2>2. QED
    BY <1>1, <1>4, <1>8, <2>1 DEF CommitCheck
<1>9. CASE CommitReplace
  <2>1. CASE target' = Merged /\ op' = [op EXCEPT !.pc = "verify", !.written = TRUE]
    <3>1. SameOp(op, op') /\ op'.pc = "verify" /\ UNCHANGED <<backup, edited>>
      BY <1>1, <1>3, <1>9, <2>1, OpMoved DEF CommitReplace
    <3>2. target' \in TargetType /\ target'.user = op.original.user
      BY <1>1, <2>1 DEF Merged, TargetType
    <3>3. ~edited => target.user = op.original.user
      BY <1>9 DEF CommitReplace, ManagerInv, Verified
    <3>4. QED
      BY <1>1, <1>2, <3>1, <3>2, <3>3, OpKeeps DEF Keeps
  <2>2. QED
    BY <1>1, <1>4, <1>9, <2>1 DEF CommitReplace
<1>10. CASE CommitVerify
  <2>1. CASE target.exists /\ target.managed = op.projection /\ op' = [op EXCEPT !.pc = "save"]
             /\ edited' = FALSE
    <3>1. SameOp(op, op') /\ op'.pc = "save" /\ UNCHANGED <<target, backup>>
      BY <1>1, <1>3, <1>10, <2>1, OpMoved DEF CommitVerify
    <3>2. QED
      BY <1>1, <1>2, <2>1, <3>1, OpKeeps DEF Keeps
  <2>2. QED
    BY <1>1, <1>4, <1>10, <2>1 DEF CommitVerify
<1>11. QED
  BY <1>6, <1>7, <1>8, <1>9, <1>10

LEMMA RollbackKeeps ==
    ASSUME ManagerInv, RollbackCheck \/ RollbackReplace
    PROVE  ManagerInv' /\ UNCHANGED <<m, disk>> /\ Keeps
<1>0. op \in TelemetryOp
  BY ActingFacts DEF RollbackCheck, RollbackReplace
<1>1. /\ target \in TargetType /\ edited \in BOOLEAN /\ backup \in {"none", "partial", "complete"}
      /\ op.original \in TargetType
  BY <1>0 DEF ManagerInv, Shapes, TelemetryOp
<1>2. UNCHANGED <<disk, proc, candidate, m, backup>>
  BY DEF RollbackCheck, RollbackReplace
<1>3. CASE RollbackCheck
  <2>1. target' = target
    BY <1>3 DEF RollbackCheck
  <2>2. CASE target = Merged /\ op' = [op EXCEPT !.pc = "restore"] /\ edited' = FALSE
    <3>1. SameOp(op, op') /\ op'.pc = "restore"
      BY <1>0, <2>2, TelemetryMoved
    <3>2. target.user = op.original.user
      BY <2>2 DEF Merged
    <3>3. QED
      BY <1>0, <1>1, <1>2, <2>1, <2>2, <3>1, <3>2, OpKeeps DEF Keeps
  <2>3. CASE /\ \/ op' = [op EXCEPT !.pc = "recover"]
                \/ op' = [op EXCEPT !.pc = "recover", !.restored = FALSE]
             /\ UNCHANGED edited
    <3>1. SameOp(op, op') /\ op'.pc = "recover"
      BY <1>0, <2>3, TelemetryMoved, ZenonT(40)
    <3>2. QED
      BY <1>0, <1>1, <1>2, <2>1, <2>3, <3>1, OpKeeps DEF Keeps
  <2>4. QED
    BY <1>3, <2>2, <2>3 DEF RollbackCheck
<1>4. CASE RollbackReplace
  <2>1. SameOp(op, op') /\ op'.pc = "recover" /\ UNCHANGED edited
    BY <1>0, <1>4, TelemetryMoved DEF RollbackReplace
  <2>2. target' \in TargetType /\ (target' = op.original \/ target' = target)
    BY <1>1, <1>4 DEF RollbackReplace
  <2>3. ~edited => target.user = op.original.user
    BY <1>4 DEF RollbackReplace, ManagerInv, Verified
  <2>4. QED
    BY <1>0, <1>1, <1>2, <2>1, <2>2, <2>3, OpKeeps DEF Keeps
<1>5. QED
  BY <1>3, <1>4

(* The end of a telemetry switch: saved, or undone.                        *)
LEMMA SettleKeeps ==
    ASSUME ManagerInv, proc = "up", m.restart = "idle", op' = NoOp, UNCHANGED <<target, backup, proc, candidate>>,
           m' \in ManagerType, disk' \in DiskType, disk'.active = m'.config,
           disk'.pending = disk.pending, m'.restart = "idle",
           m'.attempts = NormalAttempts(m'.config, m'.invalid), edited' \in BOOLEAN,
           ~edited' /\ m'.attempts # DefaultAttempts => InSync(m.config)'
    PROVE  ManagerInv'
<1>1. /\ op' \notin ClearOp /\ op' \notin DeleteOp /\ op' \notin ActivateOp /\ op' \notin TelemetryOp
      /\ op'.pc = "idle"
  BY OpFacts DEF CommitPc
<1>2. Shapes'
  BY DEF ManagerInv, Shapes, Running
<1>3. Stored'
  BY UpFacts DEF Stored, Running
<1>4. Exclusive'
  BY <1>1 DEF Exclusive
<1>5. Verified'
  BY <1>1 DEF Verified, RestartKeepsActive
<1>6. QED
  BY <1>2, <1>3, <1>4, <1>5 DEF ManagerInv

LEMMA SaveTelemetryKeeps ==
    ASSUME ManagerInv, SaveTelemetry
    PROVE  ManagerInv' /\ Raises /\ target' = target
<1>1. op.pc = "save" /\ op \in TelemetryOp /\ op # NoOp /\ UNCHANGED <<target, backup, proc, candidate, edited>>
  BY ActingFacts, OpFacts DEF SaveTelemetry, CommitPc
<1>2. proc = "up" /\ m.restart = "idle"
  BY <1>1, ActingFacts
<1>3. /\ m \in ManagerType /\ disk \in DiskType /\ target \in TargetType /\ edited \in BOOLEAN
  BY <1>2, UpFacts
<1>4. CASE /\ disk' = [disk EXCEPT !.active = op.config]
           /\ m' = Published(op.config, op.attempts, FALSE) /\ op' = NoOp
  <2>1. op.config \in ValidConfig /\ op.attempts \in AttemptLimit
    BY <1>1 DEF TelemetryOp
  <2>2. /\ op.config.active # NoProfile /\ op.config.key # NoKey
        /\ op.projection = Projection(op.config, op.config.active)
        /\ op.attempts = NormalAttempts(op.config, FALSE)
    BY <1>1 DEF ManagerInv, Exclusive
  <2>3. disk' \in DiskType /\ disk'.active = op.config /\ disk'.pending = disk.pending
    BY <1>3, <1>4, <2>1, DiskFacts
  <2>4. /\ m' \in ManagerType /\ m'.config = op.config /\ m'.attempts = op.attempts
        /\ m'.invalid = FALSE /\ m'.restart = "idle" /\ m'.revision > m.revision
    BY <1>3, <1>4, <2>1, PublishedFacts, ZenonT(40)
  <2>5. ASSUME ~edited' PROVE InSync(m.config)'
    <3>1. target.exists /\ target.managed = op.projection
      BY <1>1, <2>5 DEF ManagerInv, Verified
    <3>2. op.config.active \in DOMAIN op.config.profiles
      BY <2>1, <2>2, ActiveFacts
    <3>3. InSync(op.config)
      BY <2>2, <3>1, <3>2 DEF InSync
    <3>4. QED
      BY <1>1, <2>4, <3>3 DEF InSync
  <2>6. QED
    BY <1>1, <1>2, <1>3, <1>4, <2>2, <2>3, <2>4, <2>5, SettleKeeps DEF Raises
<1>5. CASE op' = [op EXCEPT !.pc = "rollback"] /\ UNCHANGED <<disk, m>>
  <2>1. SameOp(op, op') /\ op'.pc = "rollback"
    BY <1>1, <1>5, TelemetryMoved
  <2>2. backup' \in {"none", "partial", "complete"}
    BY <1>1 DEF ManagerInv, Shapes
  <2>3. QED
    BY <1>1, <1>3, <1>5, <2>1, <2>2, OpKeeps DEF Raises
<1>6. QED
  BY <1>4, <1>5 DEF SaveTelemetry

LEMMA RecoverKeeps ==
    ASSUME ManagerInv, RecoverHarness
    PROVE  ManagerInv' /\ Raises /\ target' = target
<1> DEFINE cleared == [m.config EXCEPT !.active = NoProfile]
<1>1. /\ op \in TelemetryOp /\ op # NoOp /\ op' = NoOp /\ edited' = FALSE
      /\ UNCHANGED <<target, backup, proc, candidate>>
  BY ActingFacts, OpFacts DEF RecoverHarness, CommitPc
<1>2. proc = "up" /\ m.restart = "idle"
  BY <1>1, ActingFacts
<1>3. /\ m \in ManagerType /\ disk \in DiskType /\ m.config \in ValidConfig /\ disk.active = m.config
      /\ m.attempts = NormalAttempts(m.config, m.invalid) /\ m.revision \in Nat
  BY <1>2, UpFacts, ManagerFields
<1>4. CASE InSync(m.config) /\ UNCHANGED <<m, disk>>
  <2>1. InSync(m.config)'
    BY <1>1, <1>4 DEF InSync
  <2>2. QED
    BY <1>1, <1>2, <1>3, <1>4, <2>1, SettleKeeps DEF Raises
<1>5. CASE /\ disk' = [disk EXCEPT !.active = cleared]
           /\ m' = [m EXCEPT !.config = cleared, !.attempts = DefaultAttempts,
                             !.revision = @ + 1, !.invalid = TRUE]
  <2>1. cleared \in ValidConfig
    BY <1>3, ClearedFacts
  <2> HIDE DEF cleared
  <2>2. disk' \in DiskType /\ disk'.active = cleared /\ disk'.pending = disk.pending
    BY <1>3, <1>5, <2>1, DiskFacts
  <2>3. DefaultAttempts \in AttemptLimit /\ m.revision + 1 \in Nat \ {0} /\ m.revision + 1 > m.revision
    BY <1>3 DEF AttemptLimit
  <2>4. /\ m' \in ManagerType /\ m'.config = cleared /\ m'.attempts = DefaultAttempts
        /\ m'.invalid = TRUE /\ m'.restart = "idle" /\ m'.revision = m.revision + 1
    BY <1>2, <1>3, <1>5, <2>1, <2>3 DEF ManagerType
  <2>5. m'.attempts = NormalAttempts(m'.config, m'.invalid)
    BY <2>4 DEF NormalAttempts
  <2>6. QED
    BY <1>1, <1>2, <2>2, <2>3, <2>4, <2>5, SettleKeeps DEF Raises
<1>6. CASE m' = Revoked /\ UNCHANGED disk
  <2>1. /\ m' \in ManagerType /\ m'.config = m.config /\ m'.attempts = DefaultAttempts
        /\ m'.invalid = TRUE /\ m'.restart = "idle"
        /\ m.attempts # DefaultAttempts => m'.revision > m.revision
    BY <1>2, <1>3, <1>6, RevokedFacts
  <2>2. m'.attempts = NormalAttempts(m'.config, m'.invalid)
    BY <2>1 DEF NormalAttempts
  <2>3. QED
    BY <1>1, <1>2, <1>3, <1>6, <2>1, <2>2, SettleKeeps DEF Raises
<1>7. QED
  BY <1>4, <1>5, <1>6 DEF RecoverHarness


-----------------------------------------------------------------------------
(* Restarts and startups.                                                  *)

LEMMA RemovedFacts ==
    ASSUME disk \in DiskType, NEW removed \in BOOLEAN
    PROVE  /\ Removed(removed) \in DiskType /\ Removed(removed).active = disk.active
           /\ removed => ~Removed(removed).pending.exists
           /\ ~removed => Removed(removed) = disk
BY DEF Removed, DiskType, NoPending

LEMMA PendingFacts ==
    ASSUME disk \in DiskType, disk.pending.exists
    PROVE  /\ disk.pending.config \in ValidConfig /\ Promoted \in DiskType
           /\ Promoted.active = disk.pending.config /\ ~Promoted.pending.exists
<1>1. disk.pending \in PendingType
  BY DEF DiskType, NoPending
<1>2. QED
  BY <1>1 DEF PendingType, Promoted, DiskType, NoPending

LEMMA RestartActing ==
    ASSUME ManagerInv, proc = "up", m.restart # "idle"
    PROVE  /\ op = NoOp /\ op \in Quiet /\ op \notin ClearOp /\ op \notin DeleteOp
           /\ op \notin ActivateOp /\ op \notin TelemetryOp /\ op.pc = "idle"
           /\ m \in ManagerType /\ disk \in DiskType /\ edited \in BOOLEAN
<1>1. op = NoOp
  BY ActingFacts
<1>2. QED
  BY <1>1, UpFacts, OpFacts DEF Quiet, CommitPc

LEMMA ManagerRestart ==
    ASSUME m \in ManagerType, NEW s \in {"idle", "pending", "restarting", "blocked"}
    PROVE  LET g == [m EXCEPT !.restart = s]
           IN  /\ g \in ManagerType /\ g.config = m.config /\ g.attempts = m.attempts
               /\ g.invalid = m.invalid /\ g.restart = s /\ g.revision = m.revision
BY DEF ManagerType

LEMMA PrepareRestartKeeps ==
    ASSUME ManagerInv, PrepareRestart
    PROVE  ManagerInv' /\ Raises /\ target' = target
<1>1. /\ proc = "up" /\ m.restart = "pending" /\ m' = [m EXCEPT !.restart = "restarting"]
      /\ UNCHANGED <<disk, target, backup, proc, candidate, op, edited>>
  BY DEF PrepareRestart
<1>2. /\ op = NoOp /\ op \notin ClearOp /\ op \notin DeleteOp
      /\ op \notin ActivateOp /\ op \notin TelemetryOp /\ op.pc = "idle" /\ m \in ManagerType
  BY <1>1, RestartActing
<1>3. /\ m' \in ManagerType /\ m'.config = m.config /\ m'.attempts = m.attempts
      /\ m'.invalid = m.invalid /\ m'.restart = "restarting" /\ m'.revision = m.revision
  BY <1>1, <1>2, ManagerRestart
<1>4. Shapes'
  BY <1>1, <1>2, <1>3 DEF ManagerInv, Shapes, Running
<1>5. Stored'
  BY <1>1, <1>3 DEF ManagerInv, Stored, Running, NormalAttempts
<1>6. Exclusive'
  BY <1>1, <1>2 DEF Exclusive
<1>7. Verified'
  BY <1>1, <1>2, <1>3 DEF ManagerInv, Verified, RestartKeepsActive, InSync
<1>8. QED
  BY <1>1, <1>3, <1>4, <1>5, <1>6, <1>7 DEF ManagerInv, Raises

LEMMA RestartFailedKeeps ==
    ASSUME ManagerInv, RestartFailed
    PROVE  ManagerInv' /\ Raises /\ target' = target
<1>1. /\ proc = "up" /\ m.restart = "restarting"
      /\ UNCHANGED <<target, backup, proc, candidate, op, edited>>
  BY DEF RestartFailed
<1>2. PICK removed \in BOOLEAN :
        disk' = Removed(removed) /\ m' = [m EXCEPT !.restart = IF removed THEN "idle" ELSE "blocked"]
  BY DEF RestartFailed, FailRestart
<1>3. /\ op = NoOp /\ op \notin ClearOp /\ op \notin DeleteOp
      /\ op \notin ActivateOp /\ op \notin TelemetryOp /\ op.pc = "idle"
      /\ m \in ManagerType /\ disk \in DiskType
  BY <1>1, RestartActing
<1>4. /\ m' \in ManagerType /\ m'.config = m.config /\ m'.attempts = m.attempts
      /\ m'.invalid = m.invalid /\ m'.restart = (IF removed THEN "idle" ELSE "blocked")
      /\ m'.revision = m.revision
  BY <1>2, <1>3, ManagerRestart
<1>5. /\ disk' \in DiskType /\ disk'.active = disk.active
      /\ removed => ~disk'.pending.exists
      /\ ~removed => disk' = disk
  BY <1>2, <1>3, RemovedFacts
<1>6. Shapes'
  BY <1>1, <1>3, <1>4, <1>5 DEF ManagerInv, Shapes, Running
<1>7. Stored'
  BY <1>1, <1>4, <1>5 DEF ManagerInv, Stored, Running, NormalAttempts
<1>8. Exclusive'
  BY <1>1, <1>3 DEF Exclusive
<1>9. Verified'
  BY <1>1, <1>3, <1>4 DEF ManagerInv, Verified, RestartKeepsActive, InSync
<1>10. QED
  BY <1>1, <1>4, <1>6, <1>7, <1>8, <1>9 DEF ManagerInv, Raises

LEMMA RestartSucceededKeeps ==
    ASSUME ManagerInv, RestartSucceeded
    PROVE  ManagerInv' /\ Raises /\ target' = target
<1> DEFINE c == disk.pending.config
<1>1. /\ proc = "up" /\ m.restart = "restarting" /\ disk.pending.exists
      /\ disk' = Promoted /\ m' = Published(c, NormalAttempts(c, m.invalid), m.invalid)
      /\ UNCHANGED <<target, backup, proc, candidate, op, edited>>
  BY DEF RestartSucceeded
<1>2. /\ op = NoOp /\ op \notin ClearOp /\ op \notin DeleteOp
      /\ op \notin ActivateOp /\ op \notin TelemetryOp /\ op.pc = "idle"
      /\ m \in ManagerType /\ disk \in DiskType /\ m.invalid \in BOOLEAN
  BY <1>1, RestartActing, ManagerFields
<1>3. /\ c \in ValidConfig /\ disk' \in DiskType /\ disk'.active = c /\ ~disk'.pending.exists
  BY <1>1, <1>2, PendingFacts
<1>4. NormalAttempts(c, m.invalid) \in AttemptLimit
      /\ (NormalAttempts(c, m.invalid) # DefaultAttempts => ~m.invalid /\ c.active # NoProfile)
  BY <1>2, <1>3, AttemptFacts
<1>5. /\ m' \in ManagerType /\ m'.config = c /\ m'.attempts = NormalAttempts(c, m.invalid)
      /\ m'.invalid = m.invalid /\ m'.restart = "idle" /\ m'.revision > m.revision
  BY <1>1, <1>2, <1>3, <1>4, PublishedFacts
<1>6. ASSUME ~edited, m'.attempts # DefaultAttempts PROVE InSync(c)
  BY <1>1, <1>4, <1>5, <1>6 DEF ManagerInv, Verified, RestartKeepsActive
<1> HIDE DEF c
<1>7. Shapes'
  BY <1>1, <1>2, <1>3, <1>5 DEF ManagerInv, Shapes, Running
<1>8. Stored'
  BY <1>1, <1>3, <1>5 DEF Stored, Running
<1>9. Exclusive'
  BY <1>1, <1>2 DEF Exclusive
<1>10. Verified'
  <2>1. ASSUME ~edited', m'.attempts # DefaultAttempts PROVE InSync(m.config)'
    BY <1>1, <1>5, <1>6, <2>1 DEF InSync
  <2>2. QED
    BY <1>1, <1>2, <1>5, <2>1 DEF Verified, RestartKeepsActive
<1>11. QED
  BY <1>1, <1>5, <1>7, <1>8, <1>9, <1>10 DEF ManagerInv, Raises

(* Outside a running process only the files matter.                        *)
LEMMA StartKeeps ==
    ASSUME ManagerInv, op' = NoOp, UNCHANGED <<target, backup, edited>>, proc' \in {"down", "loaded", "ready"},
           disk' \in DiskType, disk'.pending.exists => disk'.pending.base = disk'.active,
           proc' # "down" => candidate' \in CandidateType,
           proc' # "down" =>
                IF candidate'.fromPending
                THEN disk'.pending.exists /\ disk'.pending.config = candidate'.config /\ ~candidate'.blocked
                ELSE candidate'.config = disk'.active /\ (~candidate'.blocked => ~disk'.pending.exists),
           proc' = "ready" =>
                /\ m' \in ManagerType /\ m'.config = candidate'.config /\ m'.attempts = DefaultAttempts
                /\ m'.restart = IF candidate'.blocked THEN "blocked" ELSE "idle"
                /\ m'.attempts = NormalAttempts(m'.config, m'.invalid)
    PROVE  ManagerInv'
<1>1. /\ op' \notin ClearOp /\ op' \notin DeleteOp /\ op' \notin ActivateOp /\ op' \notin TelemetryOp
      /\ op'.pc = "idle"
  BY OpFacts DEF CommitPc
<1>2. Shapes'
  BY DEF ManagerInv, Shapes, Running
<1>3. Stored'
  BY DEF Stored, Running
<1>4. Exclusive' /\ Verified'
  BY <1>1 DEF Exclusive, Verified, RestartKeepsActive
<1>5. QED
  BY <1>2, <1>3, <1>4 DEF ManagerInv

LEMMA DownKeeps ==
    ASSUME ManagerInv, Down
    PROVE  ManagerInv' /\ proc' = "down" /\ target' = target
BY StartKeeps DEF Down, ManagerInv, Shapes, Stored

LEMMA RejectFacts ==
    ASSUME disk \in DiskType, disk.pending.exists => disk.pending.base = disk.active,
           NEW removed \in BOOLEAN, RejectPending(removed)
    PROVE  /\ disk' \in DiskType /\ (disk'.pending.exists => disk'.pending.base = disk'.active)
           /\ candidate' \in CandidateType /\ ~candidate'.fromPending
           /\ candidate'.config = disk'.active /\ (~candidate'.blocked => ~disk'.pending.exists)
<1>1. disk' = Removed(removed)
      /\ candidate' = [config |-> disk.active, fromPending |-> FALSE, blocked |-> ~removed]
  BY DEF RejectPending, FromActive
<1>2. /\ disk' \in DiskType /\ disk'.active = disk.active
      /\ removed => ~disk'.pending.exists
      /\ ~removed => disk' = disk
  BY <1>1, RemovedFacts
<1>3. disk.active \in ValidConfig
  BY DEF DiskType
<1>4. candidate' \in CandidateType /\ ~candidate'.fromPending /\ candidate'.config = disk.active
      /\ (candidate'.blocked <=> ~removed)
  BY <1>1, <1>3 DEF CandidateType
<1>5. QED
  BY <1>2, <1>4

LEMMA LoadKeeps ==
    ASSUME ManagerInv, LoadStartup
    PROVE  ManagerInv' /\ target' = target /\ proc = "down"
<1>1. proc = "down" /\ proc' = "loaded" /\ UNCHANGED <<target, backup, m, op, edited>>
  BY DEF LoadStartup
<1>2. disk \in DiskType /\ disk.active \in ValidConfig /\ op' = NoOp
      /\ (disk.pending.exists => disk.pending.base = disk.active)
  BY <1>1 DEF ManagerInv, Shapes, Stored, DiskType
<1>3. CASE ~disk.pending.exists /\ candidate' = FromActive(FALSE) /\ UNCHANGED disk
  <2>1. /\ candidate' \in CandidateType /\ ~candidate'.fromPending /\ ~candidate'.blocked
        /\ candidate'.config = disk.active
    BY <1>2, <1>3 DEF FromActive, CandidateType
  <2>2. QED
    BY <1>1, <1>2, <1>3, <2>1, StartKeeps
<1>4. CASE /\ disk.pending.exists
           /\ candidate' = [config |-> disk.pending.config, fromPending |-> TRUE, blocked |-> FALSE]
           /\ UNCHANGED disk
  <2>1. disk.pending.config \in ValidConfig
    BY <1>2, <1>4, PendingFacts
  <2>2. /\ candidate' \in CandidateType /\ candidate'.fromPending /\ ~candidate'.blocked
        /\ candidate'.config = disk.pending.config
    BY <1>4, <2>1 DEF CandidateType
  <2>3. QED
    BY <1>1, <1>2, <1>4, <2>2, StartKeeps
<1>5. CASE \E removed \in BOOLEAN : RejectPending(removed)
  <2>1. PICK removed \in BOOLEAN : RejectPending(removed)
    BY <1>5
  <2>2. /\ disk' \in DiskType /\ (disk'.pending.exists => disk'.pending.base = disk'.active)
        /\ candidate' \in CandidateType /\ ~candidate'.fromPending
        /\ candidate'.config = disk'.active /\ (~candidate'.blocked => ~disk'.pending.exists)
    BY <1>2, <2>1, RejectFacts
  <2>3. QED
    BY <1>1, <1>2, <2>2, StartKeeps
<1>6. QED
  BY <1>3, <1>4, <1>5 DEF LoadStartup

LEMMA StartingFacts ==
    ASSUME ManagerInv, proc \in {"loaded", "ready"}
    PROVE  /\ disk \in DiskType /\ disk.active \in ValidConfig /\ op = NoOp
           /\ candidate \in CandidateType
           /\ disk.pending.exists => disk.pending.base = disk.active
           /\ IF candidate.fromPending
              THEN disk.pending.exists /\ disk.pending.config = candidate.config /\ ~candidate.blocked
              ELSE candidate.config = disk.active /\ (~candidate.blocked => ~disk.pending.exists)
BY DEF ManagerInv, Shapes, Stored, DiskType

LEMMA NewManagerFacts ==
    ASSUME NEW c \in ValidConfig, NEW blocked \in BOOLEAN
    PROVE  LET n == NewManager(c, blocked)
           IN  /\ n \in ManagerType /\ n.config = c /\ n.attempts = DefaultAttempts
               /\ n.restart = IF blocked THEN "blocked" ELSE "idle"
               /\ n.attempts = NormalAttempts(n.config, n.invalid)
<1>1. c.active \notin DOMAIN c.profiles => c.active = NoProfile
  BY ActiveFacts
<1>2. NormalAttempts(c, c.active # NoProfile) = DefaultAttempts
  BY ActiveFacts DEF NormalAttempts
<1>3. DefaultAttempts \in AttemptLimit /\ 1 \in Nat \ {0}
  BY DEF AttemptLimit
<1>4. QED
  BY <1>2, <1>3 DEF NewManager, ManagerType

LEMMA AcquireKeeps ==
    ASSUME ManagerInv, AcquireResources
    PROVE  ManagerInv' /\ target' = target /\ proc = "loaded"
<1>1. proc = "loaded" /\ UNCHANGED <<target, backup, edited>>
  BY DEF AcquireResources
<1>2. /\ disk \in DiskType /\ disk.active \in ValidConfig /\ op = NoOp
      /\ candidate \in CandidateType
      /\ disk.pending.exists => disk.pending.base = disk.active
      /\ IF candidate.fromPending
         THEN disk.pending.exists /\ disk.pending.config = candidate.config /\ ~candidate.blocked
         ELSE candidate.config = disk.active /\ (~candidate.blocked => ~disk.pending.exists)
  BY <1>1, StartingFacts
<1>3. CASE /\ proc' = "ready" /\ m' = NewManager(candidate.config, candidate.blocked)
           /\ UNCHANGED <<disk, candidate, op>>
  <2>1. candidate.config \in ValidConfig /\ candidate.blocked \in BOOLEAN
    BY <1>2 DEF CandidateType
  <2>2. /\ m' \in ManagerType /\ m'.config = candidate.config /\ m'.attempts = DefaultAttempts
        /\ m'.restart = IF candidate.blocked THEN "blocked" ELSE "idle"
    BY <1>3, <2>1, NewManagerFacts
  <2>3. m'.attempts = NormalAttempts(m'.config, m'.invalid)
    BY <1>3, <2>1, NewManagerFacts
  <2>4. QED
    BY <1>1, <1>2, <1>3, <2>2, <2>3, StartKeeps
<1>4. CASE /\ \E removed \in BOOLEAN : RejectPending(removed)
           /\ UNCHANGED <<proc, m, op>>
  <2>1. PICK removed \in BOOLEAN : RejectPending(removed)
    BY <1>4
  <2>2. /\ disk' \in DiskType /\ (disk'.pending.exists => disk'.pending.base = disk'.active)
        /\ candidate' \in CandidateType /\ ~candidate'.fromPending
        /\ candidate'.config = disk'.active /\ (~candidate'.blocked => ~disk'.pending.exists)
    BY <1>2, <2>1, RejectFacts
  <2>3. proc' = "loaded" /\ op' = NoOp
    BY <1>1, <1>2, <1>4
  <2>4. QED
    BY <1>1, <2>2, <2>3, StartKeeps
<1>5. QED
  BY <1>3, <1>4 DEF AcquireResources

LEMMA PromoteKeeps ==
    ASSUME ManagerInv, Promote
    PROVE  ManagerInv' /\ target' = target /\ proc = "ready"
<1>1. proc = "ready" /\ candidate.fromPending /\ UNCHANGED <<target, backup, op, edited>>
  BY DEF Promote
<1>2. /\ disk \in DiskType /\ op = NoOp /\ candidate \in CandidateType
      /\ disk.pending.exists => disk.pending.base = disk.active
      /\ disk.pending.exists /\ disk.pending.config = candidate.config /\ ~candidate.blocked
  BY <1>1, StartingFacts
<1>3. CASE /\ disk' = Promoted /\ candidate' = [candidate EXCEPT !.fromPending = FALSE]
           /\ UNCHANGED <<proc, m>>
  <2>1. disk' \in DiskType /\ disk'.active = candidate.config /\ ~disk'.pending.exists
    BY <1>2, <1>3, PendingFacts
  <2>2. /\ candidate' \in CandidateType /\ ~candidate'.fromPending
        /\ candidate'.config = candidate.config /\ candidate'.blocked = candidate.blocked
    BY <1>2, <1>3 DEF CandidateType
  <2>3. /\ m \in ManagerType /\ m.config = candidate.config /\ m.attempts = DefaultAttempts
        /\ m.restart = (IF candidate.blocked THEN "blocked" ELSE "idle")
        /\ m.attempts = NormalAttempts(m.config, m.invalid)
    BY <1>1 DEF ManagerInv, Shapes, Stored, Running
  <2>4. m'.attempts = NormalAttempts(m'.config, m'.invalid)
    BY <1>3, <2>3 DEF NormalAttempts
  <2>5. QED
    BY <1>1, <1>2, <1>3, <2>1, <2>2, <2>3, <2>4, StartKeeps
<1>4. CASE /\ \E removed \in BOOLEAN : RejectPending(removed)
           /\ proc' = "loaded" /\ m' = NoManager
  <2>1. PICK removed \in BOOLEAN : RejectPending(removed)
    BY <1>4
  <2>2. /\ disk' \in DiskType /\ (disk'.pending.exists => disk'.pending.base = disk'.active)
        /\ candidate' \in CandidateType /\ ~candidate'.fromPending
        /\ candidate'.config = disk'.active /\ (~candidate'.blocked => ~disk'.pending.exists)
    BY <1>2, <2>1, RejectFacts
  <2>3. QED
    BY <1>1, <1>2, <1>4, <2>2, StartKeeps
<1>5. QED
  BY <1>1, <1>3, <1>4 DEF Promote


LEMMA FinishStartupKeeps ==
    ASSUME ManagerInv, FinishStartup
    PROVE  ManagerInv' /\ target' = target /\ proc = "ready"
<1>1. /\ proc = "ready" /\ ~candidate.fromPending /\ proc' = "up"
      /\ UNCHANGED <<target, backup, op>>
  BY DEF FinishStartup
<1>2. /\ disk \in DiskType /\ op = NoOp
      /\ disk.pending.exists => disk.pending.base = disk.active
      /\ candidate.config = disk.active /\ (~candidate.blocked => ~disk.pending.exists)
  BY <1>1, StartingFacts
<1>3. /\ m \in ManagerType /\ m.config = candidate.config /\ m.attempts = DefaultAttempts
      /\ m.restart = (IF candidate.blocked THEN "blocked" ELSE "idle")
      /\ m.attempts = NormalAttempts(m.config, m.invalid) /\ edited \in BOOLEAN
  BY <1>1 DEF ManagerInv, Shapes, Stored, Running
<1>4. /\ op' = NoOp /\ op' \in Quiet /\ op' \notin ClearOp /\ op' \notin DeleteOp
      /\ op' \notin ActivateOp /\ op' \notin TelemetryOp /\ op'.pc = "idle"
  <2>1. op' = NoOp
    BY <1>1, <1>2
  <2>2. QED
    BY <2>1, OpFacts DEF Quiet, CommitPc
<1>5. CASE InProgress /\ UNCHANGED <<disk, m, edited>>
  <2>1. m.restart = "blocked"
    BY <1>3, <1>5 DEF InProgress
  <2>2. Shapes'
    BY <1>1, <1>3, <1>4, <1>5 DEF ManagerInv, Shapes, Running
  <2>3. m'.attempts = NormalAttempts(m'.config, m'.invalid)
    BY <1>3, <1>5 DEF NormalAttempts
  <2>4. Stored'
    BY <1>1, <1>2, <1>3, <1>5, <2>1, <2>3 DEF Stored, Running
  <2>5. Exclusive' /\ Verified'
    BY <1>3, <1>4, <1>5, <2>1 DEF Exclusive, Verified, RestartKeepsActive
  <2>6. QED
    BY <1>1, <2>2, <2>4, <2>5 DEF ManagerInv
<1>6. CASE /\ ~InProgress /\ edited' = EditedAfter(Plan(m.config, TRUE))
           /\ \E saved \in BOOLEAN : /\ m' = ManagerAfter(Plan(m.config, TRUE), saved)
                                     /\ disk' = DiskAfter(Plan(m.config, TRUE), saved)
  <2>1. PICK saved \in BOOLEAN : /\ m' = ManagerAfter(Plan(m.config, TRUE), saved)
                                 /\ disk' = DiskAfter(Plan(m.config, TRUE), saved)
    BY <1>6
  <2>2. m.restart = "idle" /\ ~disk.pending.exists /\ disk.active = m.config
    BY <1>2, <1>3, <1>6 DEF InProgress
  <2>3. Follows(m.config) /\ ~Plan(m.config, TRUE).restart /\ ~Plan(m.config, TRUE).rewrites
    BY <1>3, FollowsItself
  <2>4. edited' \in BOOLEAN /\ (edited' <=> EditedAfter(Plan(m.config, TRUE)))
    BY <1>6 DEF EditedAfter
  <2>5. Shapes /\ Running
    BY <1>1 DEF ManagerInv, Running
  <2>6. QED
    BY <1>1, <1>3, <1>4, <2>1, <2>2, <2>3, <2>4, <2>5, HotKeeps
<1>7. QED
  BY <1>5, <1>6 DEF FinishStartup

LEMMA EditKeeps ==
    ASSUME ManagerInv, EditTarget
    PROVE  ManagerInv' /\ UNCHANGED <<proc, m>> /\ edited' = TRUE
<1>1. edited' = TRUE /\ UNCHANGED <<disk, backup, proc, candidate, m, op>>
  BY DEF EditTarget
<1>2. target \in TargetType /\ Foreign \in ManagedType
  BY DEF ManagerInv, Shapes, Foreign, ManagedType
<1>3. target' \in TargetType
  <2>1. CASE target' = NoFile
    BY <1>2, <2>1 DEF NoFile, TargetType
  <2>2. CASE \E managed \in {Foreign, target.managed}, user \in UserData :
                target' = [exists |-> TRUE, managed |-> managed, user |-> user]
    <3>1. PICK managed \in {Foreign, target.managed}, user \in UserData :
                target' = [exists |-> TRUE, managed |-> managed, user |-> user]
      BY <2>2
    <3>2. target.managed \in ManagedType
      BY <1>2 DEF TargetType
    <3>3. managed \in ManagedType
      BY <1>2, <3>2
    <3>4. QED
      BY <3>1, <3>3 DEF TargetType
  <2>3. QED
    BY <2>1, <2>2 DEF EditTarget
<1>4. Shapes'
  BY <1>1, <1>3 DEF ManagerInv, Shapes, Running
<1>5. Stored'
  BY <1>1 DEF ManagerInv, Stored, Running, NormalAttempts
<1>6. Exclusive'
  BY <1>1 DEF ManagerInv, Exclusive, Projection, NormalAttempts
<1>7. Verified'
  BY <1>1 DEF Verified
<1>8. QED
  BY <1>1, <1>4, <1>5, <1>6, <1>7 DEF ManagerInv

LEMMA StutterKeeps ==
    ASSUME ManagerInv, UNCHANGED vars
    PROVE  ManagerInv'
<1>1. UNCHANGED <<disk, target, backup, proc, candidate, m, op, edited>>
  BY DEF vars
<1>2. Shapes'
  BY <1>1 DEF ManagerInv, Shapes, Running
<1>3. Stored'
  BY <1>1 DEF ManagerInv, Stored, Running, NormalAttempts
<1>4. Exclusive'
  BY <1>1 DEF ManagerInv, Exclusive, Projection, NormalAttempts
<1>5. Verified'
  BY <1>1 DEF ManagerInv, Verified, RestartKeepsActive, InSync
<1>6. QED
  BY <1>2, <1>3, <1>4, <1>5 DEF ManagerInv

-----------------------------------------------------------------------------
LEMMA InitManager ==
    ASSUME Init
    PROVE  ManagerInv
<1>1. /\ disk \in [active: ClientConfig, pending: {NoPending}]
      /\ target = NoFile /\ backup = "none" /\ proc = "down" /\ op = NoOp /\ edited = FALSE
  BY DEF Init
<1>2. disk \in DiskType /\ ~disk.pending.exists
  BY <1>1, ClientFacts DEF DiskType, NoPending
<1>3. target \in TargetType
  BY <1>1 DEF NoFile, Foreign, TargetType, ManagedType
<1>4. /\ op \notin ClearOp /\ op \notin DeleteOp /\ op \notin ActivateOp /\ op \notin TelemetryOp
      /\ op.pc = "idle"
  BY <1>1, OpFacts DEF CommitPc
<1>5. Shapes
  BY <1>1, <1>2, <1>3 DEF Shapes, Running
<1>6. Stored /\ Exclusive /\ Verified
  BY <1>1, <1>2, <1>4 DEF Stored, Exclusive, Verified, RestartKeepsActive, Running
<1>7. QED
  BY <1>5, <1>6 DEF ManagerInv

(* The revision of a process that goes on grows with what it publishes.    *)
RaisesUp ==
    proc = "up" /\ proc' = "up" /\ <<m.config, m.attempts>>' # <<m.config, m.attempts>> =>
        m'.revision > m.revision

LEMMA NextManager ==
    ASSUME ManagerInv, Next
    PROVE  ManagerInv' /\ RaisesUp /\ Keeps
<1>1. ASSUME ManagerInv' /\ Raises /\ target' = target PROVE ManagerInv' /\ RaisesUp /\ Keeps
  BY <1>1 DEF Raises, RaisesUp, Keeps
<1>2. ASSUME ManagerInv' /\ UNCHANGED <<m, disk>> /\ Keeps PROVE ManagerInv' /\ RaisesUp /\ Keeps
  BY <1>2 DEF RaisesUp
<1>3. ASSUME ManagerInv' /\ target' = target /\ proc # "up" PROVE ManagerInv' /\ RaisesUp /\ Keeps
  BY <1>3 DEF RaisesUp, Keeps
<1>4. CASE \E c \in ClientConfig : Update(c) \/ UpdateProfile(c)
  BY <1>1, <1>4, UpdateKeeps
<1>5. CASE UpdatePatch \/ Status
  BY <1>1, <1>5, UpdatePatchKeeps, StatusKeeps
<1>6. CASE (\E id \in Profile : DeleteProfile(id)) \/ FinishDelete
  BY <1>1, <1>6, DeleteKeeps, FinishDeleteKeeps
<1>7. CASE (\E id \in Profile : BeginActivate(id)) \/ ClearActive \/ SetActive
  BY <1>1, <1>7, BeginActivateKeeps, ClearActiveKeeps, SetActiveKeeps
<1>8. CASE CommitBackup \/ CommitCopy \/ CommitCheck \/ CommitReplace \/ CommitVerify
  BY <1>2, <1>8, CommitKeeps
<1>9. CASE RollbackCheck \/ RollbackReplace
  BY <1>2, <1>9, RollbackKeeps
<1>10. CASE SaveTelemetry \/ RecoverHarness
  BY <1>1, <1>10, SaveTelemetryKeeps, RecoverKeeps
<1>11. CASE PrepareRestart \/ RestartFailed \/ RestartSucceeded
  BY <1>1, <1>11, PrepareRestartKeeps, RestartFailedKeeps, RestartSucceededKeeps
<1>12. CASE Reexec \/ ExitStartup \/ Crash
  <2>1. Down
    BY <1>12 DEF Reexec, ExitStartup, Crash
  <2>2. QED
    BY <2>1, DownKeeps DEF RaisesUp, Keeps
<1>13. CASE LoadStartup \/ AcquireResources \/ Promote \/ FinishStartup
  BY <1>3, <1>13, LoadKeeps, AcquireKeeps, PromoteKeeps, FinishStartupKeeps
<1>14. CASE EditTarget
  BY <1>14, EditKeeps DEF RaisesUp, Keeps
<1>15. QED
  BY <1>4, <1>5, <1>6, <1>7, <1>8, <1>9, <1>10, <1>11, <1>12, <1>13, <1>14 DEF Next

(* The invariant implies the properties that the runs check.               *)
LEMMA InvType ==
    ASSUME ManagerInv
    PROVE  TypeOK
<1>1. disk.active \in ValidConfig /\ (disk.pending.exists => disk.pending.config \in ValidConfig)
  <2>1. disk \in DiskType
    BY DEF ManagerInv, Shapes
  <2>2. QED
    BY <2>1, PendingFacts DEF DiskType
<1>2. Running => /\ m.config \in ValidConfig /\ m.attempts \in AttemptLimit
                 /\ m.revision \in Nat \ {0} /\ m.invalid \in BOOLEAN
                 /\ m.restart \in {"idle", "pending", "restarting", "blocked"}
  BY ManagerFields DEF ManagerInv, Shapes
<1>3. QED
  BY <1>1, <1>2 DEF ManagerInv, Shapes, TypeOK, ValidConfig, AttemptLimit, InProgress

LEMMA InvVerified ==
    ASSUME ManagerInv
    PROVE  ActivationVerified
<1>1. ASSUME proc = "up", op = NoOp, m.attempts # DefaultAttempts
      PROVE  /\ ~m.invalid /\ m.config.active # NoProfile
             /\ m.attempts = m.config.profiles[m.config.active].attempts
             /\ ~edited => InSync(m.config)
  <2>1. m.config \in ValidConfig /\ m.invalid \in BOOLEAN /\ m.attempts = NormalAttempts(m.config, m.invalid)
    BY <1>1, UpFacts, ManagerFields
  <2>2. ~edited => InSync(m.config)
    BY <1>1, InForce DEF Quiet
  <2>3. QED
    BY <1>1, <2>1, <2>2, AttemptFacts
<1>2. ASSUME op.pc \in {"backup", "copy", "check", "replace", "verify"}, op.kind = "activate"
      PROVE  disk.active.active = NoProfile /\ m.config.active = NoProfile
  <2>1. op \in ActivateOp /\ op # NoOp
    BY <1>2, ActingFacts, OpFacts DEF CommitPc
  <2>2. proc = "up" /\ m.config.active = NoProfile
    BY <2>1, ActingFacts DEF ManagerInv, Exclusive
  <2>3. QED
    BY <2>2, UpFacts
<1>3. QED
  BY <1>1, <1>2 DEF ActivationVerified

LEMMA ManagerInvariant == Spec => []ManagerInv
<1>1. Init => ManagerInv
  BY InitManager
<1>2. ManagerInv /\ [Next]_vars => ManagerInv'
  BY NextManager, StutterKeeps
<1>3. QED
  BY <1>1, <1>2, PTL DEF Spec

(* Whatever configurations clients submit, whichever writes fail and       *)
(* whenever the process dies, every configuration in the active file, in   *)
(* the pending file and in the manager passes Config.Validate, and a       *)
(* rewriting of the settings file never runs during a restart.             *)
THEOREM ManagerTypeCorrect == Spec => []TypeOK
<1>1. ManagerInv => TypeOK
  BY InvType
<1>2. QED
  BY <1>1, ManagerInvariant, PTL

(* A pending file always builds on the active file that is there, so       *)
(* Store.PromotePending never loses an update that was accepted after it.  *)
THEOREM PendingKeepsUpdates == Spec => []PendingBuildsOnActive
<1>1. ManagerInv => PendingBuildsOnActive
  BY DEF ManagerInv, Stored, PendingBuildsOnActive
<1>2. QED
  BY <1>1, ManagerInvariant, PTL

(* The manager serves what the active file holds, whichever of its writes  *)
(* failed.                                                                 *)
THEOREM ServesStored == Spec => []ServedIsStored
<1>1. ManagerInv => ServedIsStored
  BY DEF ManagerInv, Stored, ServedIsStored
<1>2. QED
  BY <1>1, ManagerInvariant, PTL

(* Attempt limits are in force only for an activation that was verified    *)
(* against the settings file, and no profile is recorded as active while   *)
(* ActivateIfMatch rewrites that file.                                     *)
THEOREM ActivationsVerified == Spec => []ActivationVerified
<1>1. ManagerInv => ActivationVerified
  BY InvVerified
<1>2. QED
  BY <1>1, ManagerInvariant, PTL

(* PreparedFile.Commit and Rollback never overwrite the user's fields with *)
(* other ones unless the user wrote them after the last comparison.        *)
THEOREM KeepsUserEdits == Spec => UserEditsKept
<1>1. ManagerInv /\ [Next]_vars => [~edited /\ ~edited' => target'.user = target.user]_vars
  BY NextManager DEF Keeps
<1>2. QED
  BY <1>1, ManagerInvariant, PTL DEF Spec, UserEditsKept

(* A running process publishes every other configuration, and other        *)
(* attempt limits, under a larger revision.                                *)
THEOREM RevisionsGrow == Spec => SnapshotChangesRevision
<1>1. ManagerInv /\ [Next]_vars =>
        [proc = "up" /\ proc' = "up" /\ <<m.config, m.attempts>>' # <<m.config, m.attempts>> =>
            m'.revision > m.revision]_vars
  BY NextManager DEF RaisesUp
<1>2. QED
  BY <1>1, ManagerInvariant, PTL DEF Spec, SnapshotChangesRevision

==============================================================================
