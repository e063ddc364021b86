CONSTANTS
    Writers = {web, sched}
    Contracts = {1, 2}
    ExpOf <- AllToday
    Obs = {1}
    Dead = {1}
    MaxBucket = 1
    Unseen = 1
    Grace = 1
    NoChain = NoChain
    MaxAttempts = 2
    MaxClock = 3
    LastDay = 2
    MayFail = TRUE
SPECIFICATION Spec
INVARIANT Durable
PROPERTY AbsSpec
CHECK_DEADLOCK FALSE
