\* Responses of two items, of every kind the bridge streams faithfully, in best-effort
\* mode: strict mode only ends the response at an unrecognized item.
CONSTANTS
    item1 = item1
    item2 = item2
    Items <- TwoItems
    NoItem = NoItem
    Outputs <- TwoOutputs
    OutputOf <- TwoOutputOf
    Parts = {0}
    Strict = FALSE
    MaxEvents = 20
    MaxReasoning = 1
    Kinds = {"message", "unstreamed_message", "refusal", "commentary", "reasoning",
             "function_call", "function_call_by_output", "mcp_call", "web_search_call", "compaction",
             "local_shell_call", "file_search_call", "unstreamed_reasoning",
             "tool_search_output", "unrecognized"}
SPECIFICATION FairStreamSpec
INVARIANT DeltasReachTheirBlock
INVARIANT CommentarySuppressed
INVARIANT EveryItemShownOnce
INVARIANT FinishedItemsAreClosed
INVARIANT StopReasonReportsToolUse
INVARIANT ToolInputDelivered
INVARIANT ReasoningIsSealed
PROPERTY EveryResponseEnds
PROPERTY ClientSeesTheProtocol
CHECK_DEADLOCK FALSE
