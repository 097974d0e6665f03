\* One pair and a clock that may be set back: routing fails open.
SPECIFICATION Spec
CONSTANTS
    None = None
    Candidate = {k1}
    Call = {c1, c2}
    FailureThreshold = 1
    Cooldown = 1
    Persisted = {None}
    MaxTime = 3
    StoreMayFail = FALSE
    ClockMayStepBack = TRUE
PROPERTIES NoAutomaticCallWhileOpen
