\* Two pairs, windows of up to three rows out of five, an age of one tick.
SPECIFICATION Spec
CONSTANTS
    Unit = 12
    MinSamples = 1
    FullSamples = 3
    PriorStrength = 2
    LatencyTarget = 2
    LatencyCap = 6
    CostTarget = 2
    Pair = {1, 2}
    Baseline <- TwoBaselines
    Observation <- Observations
    Preference <- Preferences
    quality <- Evidence
    Stored <- Histories
    WindowLimit = 3
    MaxAge = 1
    Delay = 1
    MaxTime = 2
    MaxAttempts = 5
INVARIANTS
    SnapshotsSound ListingComplete SignalsInUnit
    NoInfluenceBelowFloor FailureNeverRanksBetter
