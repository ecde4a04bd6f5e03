--------------------------- MODULE MCConversation ---------------------------
\* Conversation with an upstream that does everything it can, and with histories
\* that began before the bridge.
EXTENDS Conversation

Some(type) == [type |-> type, commentary |-> FALSE, parts |-> << >>, body |-> "some",
               result |-> "none", id |-> 0]

MCDeeds ==
    {<<Some(t)>> : t \in Message!PlainCalls \cup Message!ResultCalls \cup
        {"reasoning", "web_search_call", "compaction", "image_generation_call", "unrecognized"}}
    \cup {<<[Some(t) EXCEPT !.result = "some"]>> : t \in Message!ResultCalls}
    \cup {<<[Some("message") EXCEPT !.parts = <<"output_text", "refusal">>]>>,
          <<[Some("message") EXCEPT !.parts = <<"text", "refusal", "output_text">>]>>,
          <<[Some("message") EXCEPT !.commentary = TRUE, !.parts = <<"output_text", "refusal">>]>>,
          <<Some("tool_search_call"), Some("tool_search_output")>>,
          <<Some("computer_call"), Some("computer_call_output")>>}

Text == [type |-> "text", id |-> 0, name |-> None, kind |-> None, body |-> "some",
         commentary |-> FALSE, stored |-> None]

Before(block) == [role |-> "assistant", blocks |-> <<Text, block, Text>>,
                  stop |-> IF block.type = "tool_use" THEN "tool_use" ELSE "end_turn",
                  output |-> << >>, streamed |-> FALSE]

\* A call, of a tool search or of a function, with its result.
Ran(kind, result, body) ==
    [role |-> "assistant", stop |-> "end_turn", output |-> << >>, streamed |-> FALSE,
     blocks |-> <<[Text EXCEPT !.type = "tool_use", !.id = 1, !.name = "ToolSearch", !.kind = kind],
                  [Text EXCEPT !.type = result, !.id = 1, !.body = body]>>]

MCPrior ==
    {<< >>}
    \cup {<<Before([Text EXCEPT !.commentary = TRUE])>>, <<Before([Text EXCEPT !.type = "signature"])>>,
          <<Before([Text EXCEPT !.type = "unsupported"])>>,
          <<Before([Text EXCEPT !.type = "tool_use", !.id = 1, !.name = "Bash"])>>,
          <<Before([Text EXCEPT !.type = "tool_use", !.id = 1, !.name = "other", !.kind = "mcp_call",
                           !.stored = "malformed"])>>,
          <<Before([Text EXCEPT !.type = "compaction", !.body = "none"])>>,
          <<Before([Text EXCEPT !.type = "compaction", !.body = "blank"])>>,
          <<Before([Text EXCEPT !.type = "responses_output_item", !.body = "blank"])>>}
    \cup {<<Ran("tool_search", "tool_search_tool_result", b)>> : b \in {"unsupported", "malformed"}}
    \cup {<<Ran("function_call", "tool_result", "unsupported")>>}
    \cup {<<Before([Text EXCEPT !.type = "image_generation_call"])>>}
    \cup {<<Before([Text EXCEPT !.type = "server_tool_use", !.id = 1, !.name = n])>> :
              n \in {"web_search", "other"}}

\* The last cannot be read as a whole: a strict bridge refuses it.
MCExtras ==
    {<< >>, <<Text>>,
     [k \in 1..4 |-> [Text EXCEPT !.type = IF k <= 2 THEN "image" ELSE "document",
                                  !.body = IF k % 2 = 0 THEN "some" ELSE "malformed"]]}
=============================================================================
