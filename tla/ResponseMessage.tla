-------------------------- MODULE ResponseMessage --------------------------
(***************************************************************************)
(* TransformOpenAIToAnthropic (internal/transform/response.go): the        *)
(* Anthropic message of a whole OpenAI response.  The stream bridge calls  *)
(* the same converters, one item at a time.                                *)
(*                                                                         *)
(* An output item is what the converters tell apart: its type, whether a   *)
(* message is commentary, the content parts of a message, whether the body *)
(* a converter reads (text, call id and arguments, payload) is missing,    *)
(* there, or malformed, and the same for the result a tool call carries.   *)
(* A converter's outcome is an error or the types of the blocks it returns.*)
(***************************************************************************)
EXTENDS Integers, FiniteSets
LOCAL INSTANCE Sequences

CONSTANT Strict     \* config.ModeStrict

PlainCalls  == {"function_call", "custom_tool_call", "local_shell_call", "tool_search_call",
                "computer_call", "mcp_list_tools"}
ResultCalls == {"file_search_call", "mcp_call"}
ToolOutputs == {"tool_search_output", "computer_call_output"}
OtherTypes  == {"message", "reasoning", "web_search_call", "compaction",
                "image_generation_call", "unrecognized", "blank"}

\* "unrecognized" is any type without a case of its own, "blank" the empty one.
\* A part of type "text" is text to the stream and unknown to this conversion.
Types        == PlainCalls \cup ResultCalls \cup ToolOutputs \cup OtherTypes
MessageParts == {"output_text", "refusal", "text", "other"}
Presence     == {"none", "some", "malformed"}

OutputItem == [type       : Types,
               commentary : BOOLEAN,
               parts      : Seq(MessageParts),
               body       : Presence,
               result     : Presence]

-----------------------------------------------------------------------------
(* Outcomes of a converter                                                  *)

Error        == [ok |-> FALSE, blocks |-> << >>]
Blocks(what) == [ok |-> TRUE,  blocks |-> what]

Both(p, q) == IF p.ok /\ q.ok THEN Blocks(p.blocks \o q.blocks) ELSE Error

ErrorIfStrict(otherwise) == IF Strict THEN Error ELSE otherwise

-----------------------------------------------------------------------------
(* The converters                                                           *)

\* A refusal part becomes a text block too.
known(parts) == {k \in DOMAIN parts : parts[k] \in {"output_text", "refusal"}}

textBlocks(parts) == [k \in 1 .. Cardinality(known(parts)) |-> "text"]

openAIMessageToBlocks(item) ==
    IF item.commentary THEN Blocks(<< >>)
    ELSE IF item.body = "malformed" THEN Error
    ELSE IF Strict /\ known(item.parts) # DOMAIN item.parts THEN Error
    ELSE Blocks(textBlocks(item.parts))

\* The converters of all tool calls: an error without an id or a name, in strict
\* mode also for arguments that are no JSON.
toolCallToBlock(item) ==
    IF item.body = "malformed" THEN Error ELSE Blocks(<<"tool_use">>)

\* openAIMcpCallResultToBlock and openAIFileSearchResultToBlock.
callResultToBlock(item) ==
    CASE item.result = "none"      -> Blocks(<< >>)
      [] item.result = "some"      -> Blocks(<<"tool_result">>)
      [] item.result = "malformed" -> ErrorIfStrict(Blocks(<<"tool_result">>))

\* Bug for mutation: the result of the call is dropped.
callToBlocks_callOnly(item) == toolCallToBlock(item)

\* openAIMcpCallToBlocks and openAIFileSearchCallToBlocks.
callToBlocks(item) == Both(toolCallToBlock(item), callResultToBlock(item))

\* openAIToolSearchOutputToBlock and openAIComputerCallOutputToBlock: without a
\* call id there is no block.
toolOutputToBlock(item) ==
    CASE item.body = "none"      -> ErrorIfStrict(Blocks(<< >>))
      [] item.body = "some"      -> Blocks(<<item.type>>)
      [] item.body = "malformed" -> ErrorIfStrict(Blocks(<<item.type>>))

openAIReasoningToThinkingBlock(item) ==
    CASE item.body = "none"      -> Blocks(<< >>)
      [] item.body = "some"      -> Blocks(<<"thinking">>)
      [] item.body = "malformed" -> Error

openAIWebSearchToBlocks(item) == Blocks(<<"server_tool_use", "web_search_tool_result">>)

openAICompactionToBlock(item) ==
    IF item.body = "none" THEN ErrorIfStrict(Blocks(<< >>)) ELSE Blocks(<<"compaction">>)

openAIImageGenerationToBlock(item) == Blocks(<<"image_generation_call">>)

\* Every type but the empty one becomes a responses_output_item.
openAIOpaqueOutputToBlock(item) ==
    IF item.type = "blank" THEN Error ELSE Blocks(<<"unrecognized">>)

-----------------------------------------------------------------------------
(* The message                                                              *)

\* One round of the loop: in best-effort mode reasoning that cannot be read is
\* left out, and an item without a type is a text block that says so.
convert(item) ==
    CASE item.type = "message"            -> openAIMessageToBlocks(item)
      [] item.type \in PlainCalls         -> toolCallToBlock(item)
      [] item.type \in ResultCalls        -> callToBlocks(item)
      [] item.type \in ToolOutputs            -> toolOutputToBlock(item)
      [] item.type = "reasoning"          ->
            LET thinking == openAIReasoningToThinkingBlock(item)
            IN  IF thinking.ok THEN thinking ELSE ErrorIfStrict(Blocks(<< >>))
      [] item.type = "web_search_call"    -> openAIWebSearchToBlocks(item)
      [] item.type = "compaction"         -> openAICompactionToBlock(item)
      [] item.type = "image_generation_call" -> openAIImageGenerationToBlock(item)
      [] OTHER                            ->
            LET opaque == openAIOpaqueOutputToBlock(item)
            IN  IF opaque.ok THEN opaque ELSE ErrorIfStrict(Blocks(<<"text">>))

Fails(output) == \E k \in DOMAIN output : ~ convert(output[k]).ok

\* Bug for mutation: the calls that carry their result are no tool use.
toolUsed_plainOnly(output) ==
    \E k \in DOMAIN output : output[k].type \in PlainCalls \ {"mcp_list_tools"}

\* mcp_list_tools is a tool_use block but no use of a tool.
toolUsed(output) ==
    \E k \in DOMAIN output : output[k].type \in (PlainCalls \cup ResultCalls) \ {"mcp_list_tools"}

serverToolUseCount(output) ==
    Cardinality({k \in DOMAIN output : output[k].type = "web_search_call"})

\* The blocks of the items of one sort, in order.
contentOf(output, types) ==
    LET after[k \in 0 .. Len(output)] ==
            IF k = 0 THEN << >>
            ELSE IF output[k].type \in types THEN after[k - 1] \o convert(output[k]).blocks
            ELSE after[k - 1]
    IN  after[Len(output)]

\* Thinking blocks come first.
content(output) ==
    contentOf(output, {"reasoning"})
    \o contentOf(output, {output[k].type : k \in DOMAIN output} \ {"reasoning"})
=============================================================================
