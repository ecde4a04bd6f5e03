\* Any three upstream events in any order.
CONSTANTS
    Items = {a}
    NoItem = NoItem
    Outputs = {0}
    Parts = {0}
    Strict = FALSE
    MaxEvents = 3
SPECIFICATION Spec
INVARIANT TypeOK
INVARIANT ToolUseStopHasToolBlock
INVARIANT WebSearchesCounted
PROPERTY BlocksAreALedger
CHECK_DEADLOCK FALSE
