\* Two calls of one pair, any exchange, two prices, a summary of the last hour.
SPECIFICATION Spec
CONSTANTS
    None = None
    Call = {c1, c2}
    Upstream <- Exchanges
    Price <- Prices
    Window = 0
    MaxTime = 1
    StoreMayFail = TRUE
    ClockMayStepBack = TRUE
SYMMETRY Symmetry
INVARIANTS EscapesExplained SummaryCoversCounted
PROPERTIES RowsTellTheExchange
