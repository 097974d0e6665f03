\* Two pairs, two tasks; a store that answers and a clock that only moves on.
SPECIFICATION Spec
CONSTANTS
    None = None
    Candidate = {k1, k2}
    Call = {c1, c2}
    FailureThreshold = 2
    Cooldown = 1
    Persisted = {None}
    MaxTime = 2
    StoreMayFail = FALSE
    ClockMayStepBack = FALSE
SYMMETRY Symmetry
INVARIANTS SingleFlight
PROPERTIES NoAutomaticCallWhileOpen ImplementsContract
