SPECIFICATION Spec
CONSTANTS
    NotFoundN = 1
    ReqLimit = 3
    AckLimit = 1
    ChainIds = 1
    AlertAfter = 1
    SnapshotEpoch = 1
    MaxInput = 0
    Faults = {"sec", "terminate"}
    MaxFaults = 3
    MaxCrashes = 0
    Timers = {"lease"}
    StartRecords = {"empty"}
INVARIANTS
    NoOrphanImport
