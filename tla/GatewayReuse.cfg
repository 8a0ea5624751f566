SPECIFICATION Spec
CONSTANTS
    Calls = {c1, c2}
    m1 = m1
    m2 = m2
    MsgIds = {m1}
    NoCall = NoCall
    NoMsg = NoMsg
    Limits = {2}
    Workers <- MCWorkers
    ShardOf <- MCShardOf
    UnknownPublish = TRUE
    SlowPublish = FALSE
CHECK_DEADLOCK FALSE
INVARIANTS
    LateAnswerIgnored
