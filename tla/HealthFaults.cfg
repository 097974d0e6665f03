\* One pair, two tasks; the store may fail and the clock may be set back.
SPECIFICATION FairApiSpec
CONSTANTS
    None = None
    Candidate = {k1}
    Call = {c1, c2}
    FailureThreshold = 2
    Cooldown = 1
    Listed = {k1}
    Persisted = {None}
    MaxTime = 2
    StoreMayFail = TRUE
    ClockMayStepBack = TRUE
INVARIANTS TypeOK LeaseHeldByProbe RecordsSound
PROPERTIES ListsTheInstantAsked OpenRecordUntouched LeaseComesFree
