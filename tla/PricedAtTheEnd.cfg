\* One call, an operator who sets another price before its row is written.
SPECIFICATION Spec
CONSTANTS
    None = None
    Call = {c1}
    Upstream <- Exchanges
    Price <- Prices
    Window = 0
    MaxTime = 1
    StoreMayFail = FALSE
    ClockMayStepBack = FALSE
PROPERTIES CostAtRequestTime
