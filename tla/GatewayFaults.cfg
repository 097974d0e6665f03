\* One request over three pairs; the store may fail, the clock may be set back.
SPECIFICATION FairGatewaySpec
CONSTANTS
    None = None
    Candidate = {k1, k2, k3}
    Call = {r1}
    FailureThreshold = 1
    Cooldown = 1
    Persisted <- FreshOrOpen
    MaxTime = 1
    StoreMayFail = TRUE
    ClockMayStepBack = TRUE
    Model <- MCModel
    ModelOf <- MCModelOf
    LogLimit = 1
CHECK_DEADLOCK FALSE
INVARIANTS AttemptsFollowRanking RowsMatchAttempts
PROPERTIES RequestsEnd
