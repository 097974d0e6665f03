\* Two of the six resources, two panels, each asked up to twice.
SPECIFICATION Spec
CONSTANTS
    Panel = {"runs", "detail"}
    Resource = {"health", "summary"}
    MaxAsks = 2
INVARIANTS ShownAsAsked OnlyLatestReads
PROPERTIES ResultsStay LoadingEnds
CHECK_DEADLOCK FALSE
