\* A probe, and on the same pair a call that does not hold its lease.
SPECIFICATION Spec
CONSTANTS
    None = None
    Candidate = {k1}
    Call = {c1, c2}
    FailureThreshold = 1
    Cooldown = 1
    Persisted = {None}
    MaxTime = 3
    StoreMayFail = FALSE
    ClockMayStepBack = FALSE
PROPERTIES ProbeSuccessCloses
