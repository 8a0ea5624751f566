SPECIFICATION LossFreeSpec
CONSTANTS
    NotFoundN = 1
    ReqLimit = 1
    AckLimit = 2
    ChainIds = 1
    AlertAfter = 1
    SnapshotEpoch = 0
    MaxInput = 0
    Faults = {}
    MaxFaults = 0
    MaxCrashes = 1
    Timers = {"chain"}
    StartRecords = {"empty"}
PROPERTIES
    EventuallySettled
    ImportedBecomesActive
INVARIANTS
    ActiveImpliesAckSent
