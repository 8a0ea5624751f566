SPECIFICATION FairSpec
CONSTANTS
    NotFoundN = 1
    ReqLimit = 1
    AckLimit = 1
    ChainIds = 0
    AlertAfter = 1
    SnapshotEpoch = 0
    MaxInput = 0
    Faults = {"link", "sec", "publish", "terminate"}
    MaxFaults = 1
    MaxCrashes = 0
    Timers = {"request"}
    StartRecords = {"empty", "legacy"}
PROPERTIES
    WaitResponseLeft
    StatusRetried
    StabilizationEnds
