SPECIFICATION Spec
CONSTANTS
    NotFoundN = 2
    ReqLimit = 1
    AckLimit = 1
    ChainIds = 1
    AlertAfter = 1
    SnapshotEpoch = 0
    MaxInput = 1
    Faults = {"sec", "terminate", "input", "cloud"}
    MaxFaults = 2
    MaxCrashes = 0
    Timers = {}
    StartRecords = {"empty", "legacy"}
INVARIANTS
    ProofOfNoSideEffect
    NoOrphanImport
PROPERTIES
    HardConflictHolds
