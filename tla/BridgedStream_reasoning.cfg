\* A reasoning item with two parts.
CONSTANTS
    item1 = item1
    item2 = item2
    Items <- OneItem
    NoItem = NoItem
    Outputs <- OneOutput
    OutputOf <- OneOutputOf
    Parts = {0}
    Strict = TRUE
    MaxEvents = 20
    MaxReasoning = 1
    Kinds = {"reasoning_two_parts"}
SPECIFICATION StreamSpec
INVARIANT ReasoningIsSealed
CHECK_DEADLOCK FALSE
