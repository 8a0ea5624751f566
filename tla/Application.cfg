SPECIFICATION Spec
CONSTANTS
    Services = {s1, s2}
    queue_capacity = 1
    MaxEvents = 3
    NoEvent = NoEvent
    Clients = {c1}
INVARIANTS
    TypeOK
    EventsConserved
    CountMatchesQueue
    PushHitsServer
    RequestTargetsAlive
    RollbackComplete
    ExchangedAtMostOnce
PROPERTIES
    EventsReachWorker
    ShutdownEnds
CHECK_DEADLOCK FALSE
