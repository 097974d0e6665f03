\* Two commands of two configurations beside an older run; two cases, every fault.
SPECIFICATION FairSpec
CONSTANTS
    Category <- TwoCategories
    Config = {"default", "patient"}
    Invocation = {1, 3}
    Stored <- Histories
    MaxTime = 1
    ClockMayStepBack = TRUE
INVARIANTS RefusedOnlyByClock ExitCodeTellsStore SnapshotUnlessMixed LatestAttemptWins
PROPERTIES InvocationsEnd EvidenceOnlyReplacedByNewer
CHECK_DEADLOCK FALSE
