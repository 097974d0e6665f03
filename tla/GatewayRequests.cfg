\* Two pairs, two requests; the store answers, the clock only moves on.
SPECIFICATION GatewaySpec
CONSTANTS
    None = None
    Candidate = {k1, k2}
    Call = {r1, r2}
    FailureThreshold = 1
    Cooldown = 1
    Persisted <- FreshOrOpen
    MaxTime = 2
    StoreMayFail = FALSE
    ClockMayStepBack = FALSE
    Model <- MCModel
    ModelOf <- MCModelOf
    LogLimit = 1
CHECK_DEADLOCK FALSE
SYMMETRY Symmetry
INVARIANTS NoCandidateForgotten ExplanationMatchesExecution
    DecisionMatchesAttempts LogsMatchResults
