SPECIFICATION Spec
CONSTANTS
    Services = {s1, s2}
    queue_capacity = 1
    MaxEvents = 3
    NoEvent = NoEvent
    Clients = {c1}
INVARIANT CallbackTargetsAlive
CHECK_DEADLOCK FALSE
