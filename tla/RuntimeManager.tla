--------------------------- MODULE RuntimeManager ---------------------------
(***************************************************************************)
(* The configuration of a running process and of the ones that follow it:  *)
(* runtime.Manager (internal/runtime/manager.go), the active and pending   *)
(* files of config.Store, the startup that promotes or rejects a pending   *)
(* file, and the harness settings file that activation and the telemetry   *)
(* switch rewrite (internal/harnessconfig) while its user may edit it too. *)
(*                                                                         *)
(* Manager.mu serialises the operations.  One that only reads the settings *)
(* file once is a single step; one that rewrites it is a sequence of steps *)
(* (op), between which the file may be edited and the process may die.     *)
(* A write of a configuration file replaces it by rename: it happens or it *)
(* does not.  Every write and rename may fail.                             *)
(*                                                                         *)
(* Abstractions.  Providers, Auto Mode and the other settings that neither *)
(* restart nor touch the harness are one value, rest.  Candidates are      *)
(* valid: one that is not is refused before anything changes.  Requests    *)
(* refused by an ETag, by a preflight or by a failed SavePending change    *)
(* nothing either and are left out, as are the path of the settings file,  *)
(* temporary files, and diagnostics.  A settings file that cannot be read  *)
(* is one with foreign contents.                                           *)
(*                                                                         *)
(* The definitions named Wrong... are variants of the definition that      *)
(* follows them with a mistake in it; nothing uses them.                   *)
(***************************************************************************)
EXTENDS Integers

CONSTANTS
    ListenAddr, LogMax,     \* service settings: a change needs a restart
    GatewayKey,             \* gateway keys; NoKey when none is configured
    Profile,                \* profile ids
    Models, Attempts,       \* a profile's models and attempt limits
    Rest,                   \* every other setting
    ClientConfig,           \* configurations that clients may submit
    UserData,               \* the user's own fields of the settings file
    MaxRevision             \* no operation starts at this revision or above

NoProfile == ""
NoKey == ""
DefaultAttempts == "default"

ProfileConfig == [models: Models, attempts: Attempts]

(* Config.Validate: an active profile is one of the profiles.              *)
Valid(c) == c.active \in DOMAIN c.profiles \cup {NoProfile}

Config ==
    [addr: ListenAddr, logMax: LogMax, key: GatewayKey \cup {NoKey},
     profiles: UNION {[S -> ProfileConfig] : S \in SUBSET Profile},
     telemetry: BOOLEAN, rest: Rest, active: Profile \cup {NoProfile}]

ASSUME ClientAssumption ==
    /\ ClientConfig \subseteq {c \in Config : c.active = NoProfile} /\ ClientConfig # {}
    /\ NoProfile \notin Profile /\ NoKey \notin GatewayKey
    /\ DefaultAttempts \notin Attempts
    /\ MaxRevision \in Nat \ {0}

VARIABLES
    disk,       \* config.Store: the active file and the pending one
    target,     \* the harness settings file
    backup,     \* its one-time backup: "none", "partial" or "complete"
    proc,       \* the process: "down", "loaded", "ready" (starting) or "up"
    candidate,  \* StartupCandidate, while the process starts
    m,          \* Manager, with the snapshot it has published
    op,         \* the rewriting of the settings file that holds Manager.mu
    edited      \* the user wrote the settings file since the process last
                \* read it and found it as it has to be

vars == <<disk, target, backup, proc, candidate, m, op, edited>>

(* The managed fields of the settings file, and its contents.              *)
Foreign == [addr |-> "", key |-> "", models |-> "", telemetry |-> FALSE]
Projection(c, id) ==
    [addr |-> c.addr, key |-> c.key, models |-> c.profiles[id].models,
     telemetry |-> c.telemetry]
NoFile == [exists |-> FALSE, managed |-> Foreign, user |-> ""]

NoPending == [exists |-> FALSE]

(* Store.PromotePending and Store.RemovePending, which may fail.           *)
Promoted == [active |-> disk.pending.config, pending |-> NoPending]
Removed(succeeds) == IF succeeds THEN [disk EXCEPT !.pending = NoPending] ELSE disk

NoCandidate == [fromPending |-> FALSE, blocked |-> FALSE]
NoManager == [up |-> FALSE]
NoOp == [pc |-> "idle"]

InProgress == m.restart # "idle"    \* restartStatus.InProgress and .Pending

-----------------------------------------------------------------------------
(* What an update does to the active profile: config.ActiveProfileChange,  *)
(* prepareServerUpdate and normalAttempts.                                 *)

ActiveInputsKept(current, next) ==
    LET id == current.active
    IN  /\ id # NoProfile /\ next.active \in {NoProfile, id}
        /\ current.addr = next.addr /\ current.key = next.key
        /\ id \in DOMAIN current.profiles \cap DOMAIN next.profiles
        /\ current.profiles[id].models = next.profiles[id].models

TelemetryChanges(current, next) ==
    ActiveInputsKept(current, next) /\ current.telemetry # next.telemetry

PrepareServerUpdate(current, next) ==
    [next EXCEPT !.active =
        IF ActiveInputsKept(current, next) THEN current.active ELSE NoProfile]

NormalAttempts(c, invalid) ==
    IF ~invalid /\ c.active \in DOMAIN c.profiles THEN c.profiles[c.active].attempts
    ELSE DefaultAttempts

(* Validator.Check says in_sync.                                           *)
InSync(c) ==
    /\ c.active \in DOMAIN c.profiles
    /\ c.key # NoKey
    /\ target.exists
    /\ target.managed = Projection(c, c.active)

RestartRequired(current, next) == current.addr # next.addr \/ current.logMax # next.logMax

(* The first half of applyValidatedLocked: what candidate c comes to.      *)
Plan(c, force) ==
    LET restart     == RestartRequired(m.config, c)
        rewrites    == ~restart /\ TelemetryChanges(m.config, c)
        checked     == \/ force
                       \/ <<m.config.profiles, m.config.telemetry, m.config.active>>
                            # <<c.profiles, c.telemetry, c.active>>
        inSync      == InSync(IF rewrites THEN m.config ELSE c)
        invalidated == checked /\ c.active # NoProfile /\ ~inSync
        guard       == IF checked /\ c.active # NoProfile THEN invalidated ELSE m.invalid
        next        == IF invalidated THEN [c EXCEPT !.active = NoProfile] ELSE c
    IN  [restart |-> restart, rewrites |-> rewrites /\ inSync,
         read |-> checked /\ c.active # NoProfile,
         invalidated |-> invalidated, guard |-> guard, next |-> next,
         attempts |-> NormalAttempts(next, guard)]

-----------------------------------------------------------------------------
(* What the manager publishes.                                             *)

Published(c, attempts, guard) ==
    [m EXCEPT !.config = c, !.attempts = attempts, !.revision = @ + 1, !.invalid = guard,
              !.restart = "idle"]

(* The snapshot is replaced under its old revision.                        *)
WrongRevoked == [m EXCEPT !.invalid = TRUE, !.attempts = DefaultAttempts]

(* invalidatePolicyLocked                                                  *)
Revoked ==
    IF m.attempts = DefaultAttempts THEN [m EXCEPT !.invalid = TRUE]
    ELSE [m EXCEPT !.invalid = TRUE, !.attempts = DefaultAttempts, !.revision = @ + 1]

(* The snapshot is published although it could not be written.             *)
WrongPublish(plan, saved) ==
    IF plan.next = m.config /\ plan.attempts = m.attempts THEN [m EXCEPT !.invalid = plan.guard]
    ELSE Published(plan.next, plan.attempts, plan.guard)

(* The end of a hot update; saved says whether Store.Save worked.          *)
ManagerAfter(plan, saved) ==
    IF plan.next = m.config /\ plan.attempts = m.attempts THEN [m EXCEPT !.invalid = plan.guard]
    ELSE IF plan.next = m.config \/ saved
    THEN Published(plan.next, plan.attempts, plan.guard)
    ELSE IF plan.invalidated THEN Revoked ELSE m

DiskAfter(plan, saved) ==
    IF plan.next # m.config /\ saved THEN [disk EXCEPT !.active = plan.next] ELSE disk

Succeeds(plan, saved) == plan.next = m.config \/ saved

EditedAfter(plan) == edited /\ ~plan.read

-----------------------------------------------------------------------------
(* Updates.                                                                *)

(* Updates are accepted while restartStatus.InProgress.                    *)
WrongCanMutate == proc = "up" /\ op = NoOp /\ m.revision < MaxRevision

(* Manager.mu is free and no restart blocks updates.                       *)
CanMutate == proc = "up" /\ op = NoOp /\ ~InProgress /\ m.revision < MaxRevision

(* applyValidatedLocked for an update without restart or file rewriting.   *)
ApplyHot(c, force) ==
    LET plan == Plan(c, force)
    IN  /\ ~plan.restart /\ ~plan.rewrites
        /\ \E saved \in BOOLEAN : m' = ManagerAfter(plan, saved) /\ disk' = DiskAfter(plan, saved)
        /\ edited' = EditedAfter(plan)
        /\ op' = NoOp
        /\ UNCHANGED <<target, backup, proc, candidate>>

(* The same for one that needs a restart: it only writes the pending file. *)
(* base is the active file it was derived from.                            *)
ApplyRestart(c, force) ==
    LET plan == Plan(c, force)
    IN  /\ plan.restart
        /\ disk' = [disk EXCEPT !.pending =
                        [exists |-> TRUE, config |-> plan.next, base |-> disk.active]]
        /\ m' = [m EXCEPT !.restart = "pending"]
        /\ UNCHANGED <<target, backup, proc, candidate, op, edited>>

(* The same for a telemetry switch with a profile that is in sync:         *)
(* PrepareTelemetry has read the settings file, its rewriting follows.     *)
BeginTelemetry(c, force) ==
    LET plan == Plan(c, force)
    IN  /\ plan.rewrites
        /\ op' = [pc |-> "backup", kind |-> "telemetry", config |-> plan.next,
                  projection |-> Projection(plan.next, plan.next.active),
                  original |-> target, written |-> FALSE, restored |-> TRUE,
                  attempts |-> plan.attempts]
        /\ edited' = FALSE
        /\ UNCHANGED <<disk, target, backup, proc, candidate, m>>

(* A complete configuration or a change of its providers.                  *)
Update(c) ==
    LET prepared == PrepareServerUpdate(m.config, c)
    IN  /\ CanMutate
        /\ \/ ApplyHot(prepared, FALSE)
           \/ ApplyRestart(prepared, FALSE)
           \/ BeginTelemetry(prepared, FALSE)

(* CreateProfile and UpdateProfile: HarnessMutation.UpdateHarness.         *)
UpdateProfile(c) ==
    /\ CanMutate
    /\ DOMAIN m.config.profiles \subseteq DOMAIN c.profiles
    /\ ApplyHot(PrepareServerUpdate(m.config, [m.config EXCEPT !.profiles = c.profiles]), TRUE)

(* UpdatePatch of the telemetry switch.                                    *)
UpdatePatch ==
    LET prepared == PrepareServerUpdate(m.config, [m.config EXCEPT !.telemetry = ~@])
    IN  /\ CanMutate
        /\ ApplyHot(prepared, TRUE) \/ BeginTelemetry(prepared, TRUE)

(* harnessconfig.Manager.Status and the other reads: ReconcileActiveProfile. *)
Status == CanMutate /\ ApplyHot(m.config, TRUE)

Without(id) ==
    [m.config EXCEPT !.profiles = [i \in DOMAIN @ \ {id} |-> m.config.profiles[i]]]

(* DeleteProfile.  The active profile is reconciled first; one that is in  *)
(* sync, or whose removal cannot be recorded, stays.                       *)
DeleteProfile(id) ==
    LET plan == Plan(m.config, TRUE)
    IN  /\ CanMutate
        /\ id \in DOMAIN m.config.profiles
        /\ \/ m.config.active # id /\ ApplyHot(PrepareServerUpdate(m.config, Without(id)), TRUE)
           \/ /\ m.config.active = id
              /\ \E saved \in BOOLEAN :
                    /\ m' = ManagerAfter(plan, saved)
                    /\ disk' = DiskAfter(plan, saved)
                    /\ op' = IF plan.invalidated /\ saved
                             THEN [pc |-> "delete", kind |-> "delete", profile |-> id] ELSE NoOp
              /\ edited' = EditedAfter(plan)
              /\ UNCHANGED <<target, backup, proc, candidate>>

FinishDelete == op.pc = "delete" /\ ApplyHot(Without(op.profile), TRUE)

-----------------------------------------------------------------------------
(* Activation of a profile: harnessconfig.Manager.ActivateIfMatch.         *)

(* Reconcile first; a profile that already is active and in sync is kept.  *)
BeginActivate(id) ==
    LET plan == Plan(m.config, TRUE)
    IN  /\ CanMutate
        /\ id \in DOMAIN m.config.profiles /\ m.config.key # NoKey
        /\ \E saved \in BOOLEAN :
            /\ m' = ManagerAfter(plan, saved)
            /\ disk' = DiskAfter(plan, saved)
            /\ op' = IF Succeeds(plan, saved) /\ ~(InSync(m.config) /\ m.config.active = id)
                     THEN [pc |-> "clear", kind |-> "activate", profile |-> id]
                     ELSE NoOp
        /\ edited' = EditedAfter(plan)
        /\ UNCHANGED <<target, backup, proc, candidate>>

(* ClearActiveProfileID, if a profile is still active, and the reading of  *)
(* the settings file by FileStore.Prepare, which may not accept it.        *)
ClearActive ==
    LET plan == Plan([m.config EXCEPT !.active = NoProfile], TRUE)
    IN  /\ op.pc = "clear"
        /\ \E saved \in BOOLEAN :
            /\ m' = ManagerAfter(plan, saved)
            /\ disk' = DiskAfter(plan, saved)
            /\ \/ op' = NoOp /\ UNCHANGED edited
               \/ /\ Succeeds(plan, saved)
                  /\ op' = [pc |-> "backup", kind |-> "activate", profile |-> op.profile,
                            projection |-> Projection(m.config, op.profile),
                            original |-> target, written |-> FALSE]
                  /\ edited' = FALSE
        /\ UNCHANGED <<target, backup, proc, candidate>>

(* SetActiveProfileID, once the settings file is written and verified.     *)
SetActive ==
    LET plan == Plan([m.config EXCEPT !.active = op.profile], TRUE)
    IN  /\ op.pc = "save" /\ op.kind = "activate"
        /\ \E saved \in BOOLEAN : m' = ManagerAfter(plan, saved) /\ disk' = DiskAfter(plan, saved)
        /\ op' = NoOp
        /\ edited' = EditedAfter(plan)
        /\ UNCHANGED <<target, backup, proc, candidate>>

-----------------------------------------------------------------------------
(* Rewriting the settings file: PreparedFile.Commit.                       *)

Merged == [exists |-> TRUE, managed |-> op.projection, user |-> op.original.user]

(* Where a failed Commit leads: the telemetry switch rolls back, an        *)
(* activation is given up.                                                 *)
Failed(o) == IF o.kind = "telemetry" THEN [o EXCEPT !.pc = "rollback"] ELSE NoOp

(* inspectBackup and the exclusive creation of the backup, which only an   *)
(* existing settings file without one needs.                               *)
CommitBackup ==
    /\ op.pc = "backup"
    /\ \/ /\ op.original.exists /\ backup = "none"
          /\ backup' = "partial" /\ op' = [op EXCEPT !.pc = "copy"]
       \/ /\ ~(op.original.exists /\ backup = "none")
          /\ op' = [op EXCEPT !.pc = "check"] /\ UNCHANGED backup
       \/ op' = Failed(op) /\ UNCHANGED backup
    /\ UNCHANGED <<disk, target, proc, candidate, m, edited>>

(* The rest of createBackup: a backup that cannot be finished is removed.  *)
CommitCopy ==
    /\ op.pc = "copy"
    /\ \/ backup' = "complete" /\ op' = [op EXCEPT !.pc = "check"]
       \/ backup' = "none" /\ op' = Failed(op)
    /\ UNCHANGED <<disk, target, proc, candidate, m, edited>>

(* The settings file is read again, but its contents are not compared.     *)
WrongCommitCheck ==
    /\ op.pc = "check"
    /\ op' = [op EXCEPT !.pc = "replace"]
    /\ edited' = FALSE
    /\ UNCHANGED <<disk, target, backup, proc, candidate, m>>

(* The comparison with what was read, right before the replacement.        *)
CommitCheck ==
    /\ op.pc = "check"
    /\ \/ target = op.original /\ op' = [op EXCEPT !.pc = "replace"] /\ edited' = FALSE
       \/ op' = Failed(op) /\ UNCHANGED edited
    /\ UNCHANGED <<disk, target, backup, proc, candidate, m>>

CommitReplace ==
    /\ op.pc = "replace"
    /\ \/ target' = Merged /\ op' = [op EXCEPT !.pc = "verify", !.written = TRUE]
       \/ op' = Failed(op) /\ UNCHANGED target
    /\ UNCHANGED <<disk, backup, proc, candidate, m, edited>>

(* The file is read again and verified.                                    *)
CommitVerify ==
    /\ op.pc = "verify"
    /\ \/ /\ target.exists /\ target.managed = op.projection
          /\ op' = [op EXCEPT !.pc = "save"]
          /\ edited' = FALSE
       \/ op' = Failed(op) /\ UNCHANGED edited
    /\ UNCHANGED <<disk, target, backup, proc, candidate, m>>

(* applyValidatedLocked after Commit: save and publish.                    *)
SaveTelemetry ==
    /\ op.pc = "save" /\ op.kind = "telemetry"
    /\ \/ /\ disk' = [disk EXCEPT !.active = op.config]
          /\ m' = Published(op.config, op.attempts, FALSE)
          /\ op' = NoOp
       \/ /\ op' = [op EXCEPT !.pc = "rollback"]
          /\ UNCHANGED <<disk, m>>
    /\ UNCHANGED <<target, backup, proc, candidate, edited>>

(* PreparedFile.Rollback: nothing to do before the replacement, and never  *)
(* over somebody else's contents.                                          *)
RollbackCheck ==
    /\ op.pc = "rollback"
    /\ \/ ~op.written /\ op' = [op EXCEPT !.pc = "recover"] /\ UNCHANGED edited
       \/ /\ op.written /\ target = Merged
          /\ op' = [op EXCEPT !.pc = "restore"]
          /\ edited' = FALSE
       \/ /\ op.written
          /\ op' = [op EXCEPT !.pc = "recover", !.restored = FALSE]
          /\ UNCHANGED edited
    /\ UNCHANGED <<disk, target, backup, proc, candidate, m>>

RollbackReplace ==
    /\ op.pc = "restore"
    /\ \/ target' = op.original /\ op' = [op EXCEPT !.pc = "recover"]
       \/ op' = [op EXCEPT !.pc = "recover", !.restored = FALSE] /\ UNCHANGED target
    /\ UNCHANGED <<disk, backup, proc, candidate, m, edited>>

(* The activation is kept whatever became of the file.                     *)
WrongRecoverHarness ==
    /\ op.pc = "recover"
    /\ op' = NoOp
    /\ edited' = FALSE
    /\ UNCHANGED <<disk, m, target, backup, proc, candidate>>

(* recoverHarnessUpdateLocked after the rollback: the activation stays     *)
(* only when the file is proved to be what it was.                         *)
RecoverHarness ==
    LET cleared == [m.config EXCEPT !.active = NoProfile]
    IN  /\ op.pc = "recover"
        /\ \/ op.restored /\ InSync(m.config) /\ UNCHANGED <<m, disk>>
           \/ /\ ~(op.restored /\ InSync(m.config))
              /\ \/ /\ disk' = [disk EXCEPT !.active = cleared]
                    /\ m' = [m EXCEPT !.config = cleared, !.attempts = DefaultAttempts,
                                      !.revision = @ + 1, !.invalid = TRUE]
                 \/ m' = Revoked /\ UNCHANGED disk
        /\ op' = NoOp
        /\ edited' = FALSE
        /\ UNCHANGED <<target, backup, proc, candidate>>

-----------------------------------------------------------------------------
(* Restart.                                                                *)

(* writeApplyResult reserves the restart for an accepted update.           *)
PrepareRestart ==
    /\ proc = "up" /\ m.restart = "pending"
    /\ m' = [m EXCEPT !.restart = "restarting"]
    /\ UNCHANGED <<disk, target, backup, proc, candidate, op, edited>>

(* restartFailedLocked                                                     *)
FailRestart(removed) ==
    /\ disk' = Removed(removed)
    /\ m' = [m EXCEPT !.restart = IF removed THEN "idle" ELSE "blocked"]

(* RestartFailed: the callback came back with an error.                    *)
RestartFailed ==
    /\ proc = "up" /\ m.restart = "restarting"
    /\ \E removed \in BOOLEAN : FailRestart(removed)
    /\ UNCHANGED <<target, backup, proc, candidate, op, edited>>

(* RestartSucceeded: a controlled restart came back with success and the   *)
(* pending file is promoted in this process.  A failure to load or promote *)
(* it is a failed restart.                                                 *)
RestartSucceeded ==
    /\ proc = "up" /\ m.restart = "restarting" /\ disk.pending.exists
    /\ LET c == disk.pending.config
       IN  /\ disk' = Promoted
           /\ m' = Published(c, NormalAttempts(c, m.invalid), m.invalid)
    /\ UNCHANGED <<target, backup, proc, candidate, op, edited>>

Down ==
    /\ proc' = "down"
    /\ candidate' = NoCandidate /\ m' = NoManager /\ op' = NoOp
    /\ UNCHANGED <<disk, target, backup, edited>>

(* The process image is replaced (restartProcess).                         *)
Reexec == proc = "up" /\ m.restart = "restarting" /\ Down

(* The process is killed or the machine fails, at any step.                *)
Crash == proc # "down" /\ Down

-----------------------------------------------------------------------------
(* Startup: app.New with runtime.LoadStartup, Rollback and Promote.        *)

FromActive(blocked) == [config |-> disk.active, fromPending |-> FALSE, blocked |-> blocked]

(* The file stays on disk although the process goes on without it.         *)
WrongRejectPending(removed) ==
    /\ disk' = Removed(removed)
    /\ candidate' = FromActive(FALSE)

(* A pending file that cannot be used is removed, or blocks updates.       *)
RejectPending(removed) ==
    /\ disk' = Removed(removed)
    /\ candidate' = FromActive(~removed)

LoadStartup ==
    /\ proc = "down"
    /\ proc' = "loaded"
    /\ \/ ~disk.pending.exists /\ candidate' = FromActive(FALSE) /\ UNCHANGED disk
       \/ /\ disk.pending.exists
          /\ candidate' = [config |-> disk.pending.config, fromPending |-> TRUE, blocked |-> FALSE]
          /\ UNCHANGED disk
       \/ disk.pending.exists /\ \E removed \in BOOLEAN : RejectPending(removed)
    /\ UNCHANGED <<target, backup, m, op, edited>>

(* NewManager for the candidate.                                           *)
NewManager(c, blocked) ==
    [config |-> c, attempts |-> DefaultAttempts, revision |-> 1,
     invalid |-> c.active # NoProfile, restart |-> IF blocked THEN "blocked" ELSE "idle"]

(* Log, listener and manager for the candidate; without them a pending     *)
(* candidate is rolled back and the process exits without an active one.   *)
AcquireResources ==
    /\ proc = "loaded"
    /\ \/ /\ proc' = "ready" /\ m' = NewManager(candidate.config, candidate.blocked)
          /\ UNCHANGED <<disk, candidate, op>>
       \/ /\ candidate.fromPending
          /\ \E removed \in BOOLEAN : RejectPending(removed)
          /\ UNCHANGED <<proc, m, op>>
    /\ UNCHANGED <<target, backup, edited>>

ExitStartup == proc = "loaded" /\ ~candidate.fromPending /\ Down

(* Promotion is one rename; if it fails, the candidate is rolled back and  *)
(* the resources are acquired again.                                       *)
Promote ==
    /\ proc = "ready" /\ candidate.fromPending
    /\ \/ /\ disk' = Promoted
          /\ candidate' = [candidate EXCEPT !.fromPending = FALSE]
          /\ UNCHANGED <<proc, m>>
       \/ /\ \E removed \in BOOLEAN : RejectPending(removed)
          /\ proc' = "loaded" /\ m' = NoManager
    /\ UNCHANGED <<target, backup, op, edited>>

(* ReconcileAll, then the server starts.                                   *)
FinishStartup ==
    LET plan == Plan(m.config, TRUE)
    IN  /\ proc = "ready" /\ ~candidate.fromPending
        /\ \/ InProgress /\ UNCHANGED <<disk, m, edited>>
           \/ /\ ~InProgress
              /\ \E saved \in BOOLEAN :
                    m' = ManagerAfter(plan, saved) /\ disk' = DiskAfter(plan, saved)
              /\ edited' = EditedAfter(plan)
        /\ proc' = "up" /\ candidate' = NoCandidate
        /\ UNCHANGED <<target, backup, op>>

-----------------------------------------------------------------------------
(* The user or the harness itself writes or removes the settings file.     *)
EditTarget ==
    /\ \/ \E managed \in {Foreign, target.managed}, user \in UserData :
            target' = [exists |-> TRUE, managed |-> managed, user |-> user]
       \/ target' = NoFile
    /\ target' # target
    /\ edited' = TRUE
    /\ UNCHANGED <<disk, backup, proc, candidate, m, op>>

Init ==
    /\ disk \in [active: ClientConfig, pending: {NoPending}]
    /\ target = NoFile /\ backup = "none"
    /\ proc = "down" /\ candidate = NoCandidate /\ m = NoManager /\ op = NoOp
    /\ edited = FALSE

Next ==
    \/ \E c \in ClientConfig : Update(c) \/ UpdateProfile(c)
    \/ UpdatePatch \/ Status
    \/ \E id \in Profile : DeleteProfile(id)
    \/ FinishDelete
    \/ \E id \in Profile : BeginActivate(id)
    \/ ClearActive \/ SetActive
    \/ CommitBackup \/ CommitCopy \/ CommitCheck \/ CommitReplace \/ CommitVerify
    \/ SaveTelemetry \/ RollbackCheck \/ RollbackReplace \/ RecoverHarness
    \/ PrepareRestart \/ RestartFailed \/ RestartSucceeded \/ Reexec
    \/ LoadStartup \/ AcquireResources \/ ExitStartup \/ Promote \/ FinishStartup
    \/ EditTarget
    \/ Crash

Spec == Init /\ [][Next]_vars

-----------------------------------------------------------------------------
Running == proc \in {"ready", "up"}

(* Every configuration in memory and in the files passes Config.Validate:  *)
(* its active profile is one of its profiles, whatever updates, failures   *)
(* and restarts led to it.                                                 *)
TypeOK ==
    /\ disk.active \in Config /\ Valid(disk.active)
    /\ disk.pending.exists => disk.pending.config \in Config /\ Valid(disk.pending.config)
    /\ backup \in {"none", "partial", "complete"}
    /\ proc \in {"down", "loaded", "ready", "up"}
    /\ Running =>
        /\ m.config \in Config /\ Valid(m.config)
        /\ m.attempts \in Attempts \cup {DefaultAttempts}
        /\ m.revision \in Nat \ {0}
        /\ m.invalid \in BOOLEAN
        /\ m.restart \in {"idle", "pending", "restarting", "blocked"}
    /\ op # NoOp => proc = "up" /\ ~InProgress

(* The pending file was derived from the active file that is still there:  *)
(* promoting it, in this process or at any later startup, loses no update  *)
(* that was accepted after it.  This is what NewManager blocks updates for *)
(* when a rejected pending file cannot be removed.                         *)
PendingBuildsOnActive == disk.pending.exists => disk.pending.base = disk.active

(* The configuration that is served is the one in the active file, so a    *)
(* restart at any point serves it again, whichever writes failed.          *)
ServedIsStored == proc = "up" => disk.active = m.config

(* A profile's attempt limits are in force only while it is the active     *)
(* profile, the activation is not revoked, and, unless the user wrote the  *)
(* settings file since, that file holds the profile's managed fields: also *)
(* after failed writes, failed rollbacks, crashes and restarts.  While an  *)
(* activation rewrites the settings file no profile is recorded as active, *)
(* in memory or on disk, so that a crash or a failed write cannot leave    *)
(* the old one active over a file that is not its own.                     *)
ActivationVerified ==
    /\ proc = "up" /\ op = NoOp /\ m.attempts # DefaultAttempts =>
        /\ ~m.invalid
        /\ m.config.active # NoProfile
        /\ m.attempts = m.config.profiles[m.config.active].attempts
        /\ ~edited => InSync(m.config)
    /\ op.pc \in {"backup", "copy", "check", "replace", "verify"} /\ op.kind = "activate" =>
        disk.active.active = NoProfile /\ m.config.active = NoProfile

(* The process itself never changes the user's fields of the settings      *)
(* file unless the user wrote them between its last comparison and its     *)
(* rename: Commit and Rollback replace only the contents they expect.      *)
UserEditsKept == [][~edited /\ ~edited' => target'.user = target.user]_vars

(* A process never publishes another configuration or other attempt limits *)
(* under the same revision: App.syncRuntime hands a snapshot to the health *)
(* store and the selector only when its revision is larger.                *)
SnapshotChangesRevision ==
    [][proc = "up" /\ proc' = "up" /\ <<m.config, m.attempts>>' # <<m.config, m.attempts>> =>
            m'.revision > m.revision]_vars

(* docs/usage.md says that an existing settings file is backed up before   *)
(* its first modification: when it is about to be replaced, there is a     *)
(* complete backup.                                                        *)
BackupBeforeModification ==
    op.pc = "replace" /\ op.original.exists => backup = "complete"

=============================================================================
