\* Responses of one or two items of every type, in best-effort mode.
CONSTANTS
    item1 = item1
    item2 = item2
    Items <- MCItems
    Ids <- MCIds
    NoItem = NoItem
    Outputs = {0, 1}
    Parts = {0, 1}
    Strict = FALSE
    MaxEvents = 20
    Responses <- MCResponses
SPECIFICATION AgreementSpec
INVARIANT SameFailure
INVARIANT SameBlocks
INVARIANT SameSummary
