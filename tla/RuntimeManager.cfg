SPECIFICATION Spec
CONSTANTS
    ListenAddr = {"a1", "a2"}
    LogMax = {"l1", "l2"}
    GatewayKey = {"k1"}
    Profile = {"p", "q"}
    Models = {"m1", "m2"}
    Attempts = {"t1", "t2"}
    Rest = {"r1"}
    ClientConfig <- MCConfigs
    UserData = {"u1", "u2"}
    MaxRevision = 3
INVARIANTS
    TypeOK
    PendingBuildsOnActive
    ServedIsStored
    ActivationVerified
PROPERTIES
    UserEditsKept
    SnapshotChangesRevision
