\* A custom tool call with streamed input.
CONSTANTS
    item1 = item1
    item2 = item2
    Items <- OneItem
    NoItem = NoItem
    Outputs <- OneOutput
    OutputOf <- OneOutputOf
    Parts = {0}
    Strict = TRUE
    MaxEvents = 20
    MaxReasoning = 1
    Kinds = {"custom_tool_call"}
SPECIFICATION StreamSpec
INVARIANT ToolInputDelivered
CHECK_DEADLOCK FALSE
