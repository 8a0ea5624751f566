SPECIFICATION Spec
CONSTANTS
    NotFoundN = 1
    ReqLimit = 2
    AckLimit = 1
    ChainIds = 1
    AlertAfter = 1
    SnapshotEpoch = 0
    MaxInput = 0
    Faults = {"sec", "terminate", "clock", "publish"}
    MaxFaults = 1
    MaxCrashes = 1
    Timers = {"lease"}
    StartRecords = {"empty"}
INVARIANTS
    TypeOK
    ActiveHasKeys
    AckAttested
    ImportIntentDurable
    RequestOvershootByCrash
    SuccessorsWithinChain
PROPERTIES
    SupersedePersistedFirst
    RecoversAsDecided
