---------------------------- MODULE MessageInput ----------------------------
(***************************************************************************)
(* How the history a client sends becomes the input of the upstream's      *)
(* request: messageToInputItems (internal/transform/request.go), called    *)
(* for one message after the other, and the copying of output items into   *)
(* input items (compact.go).                                               *)
(*                                                                         *)
(* A block is what the conversion tells apart: its type, its id or         *)
(* tool_use_id (of a responses_output_item the id its content has), its    *)
(* name, its responses_type, the type of the output item stored with it,   *)
(* what its converter can read of it, and whether it is commentary.  An    *)
(* item keeps the positions of the blocks it was made of.                  *)
(***************************************************************************)
EXTENDS Naturals, Sequences, SequencesExt

VARIABLE strict     \* cfg.Mode is config.ModeStrict

\* A field that is not there, and the type of an item that has none.
None == ""

\* The blocks before which the text gathered so far is flushed.
ItemBlocks == {"tool_use", "server_tool_use", "tool_result", "web_search_tool_result",
               "tool_search_tool_result", "compaction", "image_generation_call",
               "responses_output_item"}

BlockTypes == ItemBlocks \cup {"thinking", "signature", "text", "image", "document", "unsupported"}

\* What the converter of a block finds to read (its source, its input, or its content
\* and tools): nothing; what it wants; what decodes and says nothing, like the blanks
\* of a compaction or an opaque item that does not name its type; a plain string;
\* what decodes and is not supported; or what does not decode, like the array ["a"]
\* of a result, whose elements are no blocks.
Bodies == {"none", "some", "blank", "string", "unsupported", "malformed"}

Decoded == {"none", "some", "blank"}

Kinds == {"function_call", "custom_tool_call", "local_shell_call", "tool_search_call",
          "tool_search", "file_search_call", "computer_call", "mcp_call", "mcp_list_tools",
          "refusal", "unrecognized"}

\* Bug for mutation: an item the upstream takes back is not on the list.
SafeTypes_noSearch == {"function_call", "function_call_output", "custom_tool_call",
              "custom_tool_call_output", "local_shell_call", "computer_call_output",
              "web_search_call", "message", "reasoning", "compaction", "image_generation_call"}

\* isSafeStoredResponseItemType.
SafeTypes == {"function_call", "function_call_output", "custom_tool_call",
              "custom_tool_call_output", "local_shell_call", "tool_search_call",
              "tool_search_output", "computer_call_output", "web_search_call", "message",
              "reasoning", "compaction", "image_generation_call"}

Names       == {None, "web_search", "Bash", "ToolSearch", "other"}
BlockKinds  == Kinds \cup {None}
StoredTypes == SafeTypes \cup Kinds \cup {None, "malformed"}

Block == [type : BlockTypes, id : Nat, name : Names, kind : BlockKinds, body : Bodies,
          commentary : BOOLEAN, stored : StoredTypes]

-----------------------------------------------------------------------------
\* Input items.  A converter returns NoItem where the code returns an item
\* without a type, and Failure where it returns an error.

Item(type, id) == [type |-> type, id |-> id, content |-> << >>]

NoItem  == Item(None, 0)
Failure == Item("error", 0)

FailIfStrict(otherwise) == IF strict THEN Failure ELSE otherwise

normalizeUnsafeSpecialToolKind(kind) ==
    IF kind \in {"file_search_call", "computer_call", "mcp_call", "mcp_list_tools"}
    THEN "function_call" ELSE kind

\* storedResponseItemToInputItem, NoItem where it finds nothing to restore.
stored(block) ==
    CASE block.stored = "malformed"    -> FailIfStrict(NoItem)
      [] block.stored \in SafeTypes    -> Item(block.stored, block.id)
      [] OTHER                         -> NoItem

normalizedToolCallKind(type) == IF type = "tool_search_call" THEN "tool_search" ELSE type

\* The kind under which a call's result is looked up, and the call.
toolUseKind(block) ==
    IF stored(block).type \in SafeTypes THEN normalizedToolCallKind(stored(block).type)
    ELSE normalizeUnsafeSpecialToolKind(IF block.kind = None THEN "function_call" ELSE block.kind)

\* The kinds of special calls are normalized before: every one that is neither
\* restored nor one of these becomes a function call.  Only localShellActionFromToolUse
\* wants an object as the input.
toolUseBlockToInputItem(block) ==
    IF stored(block) # NoItem THEN stored(block)
    ELSE IF toolUseKind(block) = "local_shell_call" /\ block.body \notin Decoded
    THEN FailIfStrict(Item("local_shell_call", block.id))
    ELSE Item(CASE toolUseKind(block) = "local_shell_call" -> "local_shell_call"
                [] toolUseKind(block) = "tool_search"      -> "tool_search_call"
                [] toolUseKind(block) = "custom_tool_call" -> "custom_tool_call"
                [] toolUseKind(block) = "file_search_call" -> "file_search_call"
                [] toolUseKind(block) = "computer_call"    -> "computer_call"
                [] toolUseKind(block) = "mcp_call"         -> "mcp_call"
                [] toolUseKind(block) = "mcp_list_tools"   -> "mcp_list_tools"
                [] OTHER                                   -> "function_call",
              block.id)

\* toolResultToOutput and toolResultToToolSearchTools refuse an array that does not
\* decode in either mode, and in strict mode what they do not support.
resultItem(type, block, unsupported) ==
    CASE block.body = "malformed"       -> Failure
      [] block.body \in unsupported     -> FailIfStrict(Item(type, block.id))
      [] OTHER                          -> Item(type, block.id)

\* Only the tools of a search have to be an array.
searchResultItem(block) == resultItem("tool_search_output", block, {"string", "unsupported"})

toolResultToInputItem(block, kind) ==
    CASE kind = "tool_search" -> searchResultItem(block)
      [] kind \in {"file_search_call", "mcp_call"} -> NoItem
      [] OTHER ->
            resultItem(CASE kind = "custom_tool_call" -> "custom_tool_call_output"
                         [] kind = "computer_call"    -> "computer_call_output"
                         [] OTHER                     -> "function_call_output",
                       block, {"unsupported"})

serverToolUseToInputItem(block) ==
    IF stored(block) # NoItem THEN stored(block)
    ELSE IF block.name = "web_search"
    THEN IF block.body \notin Decoded THEN FailIfStrict(Item("web_search_call", block.id))
         ELSE Item("web_search_call", block.id)
    ELSE FailIfStrict(NoItem)

toolSearchResultBlockToInputItem(block) ==
    IF stored(block) # NoItem THEN stored(block) ELSE searchResultItem(block)

\* The item has no id, and none is made of blanks, in either mode.
compactionBlockToInputItem(block) ==
    CASE block.body \in {"some", "string"} -> Item("compaction", 0)
      [] block.body = "blank"              -> NoItem
      [] OTHER                             -> FailIfStrict(NoItem)

imageGenerationBlockToInputItem(block) ==
    IF block.id = 0 THEN FailIfStrict(NoItem) ELSE Item("image_generation_call", block.id)

\* Without responses_type the content names the type, or there is no item.
opaqueBlockToInputItem(block) ==
    CASE block.body = "some" \/ (block.body = "blank" /\ block.kind # None) ->
            Item("unrecognized", block.id)
      [] block.body = "blank" /\ block.kind = None -> NoItem
      [] OTHER                                     -> FailIfStrict(NoItem)

-----------------------------------------------------------------------------
\* The loop.  A conversion has the items so far, the message being gathered,
\* and the kinds of the calls seen (callKinds, shared by all messages).

Start == [items |-> << >>, current |-> << >>, kinds |-> << >>, ok |-> TRUE]

Fail(c) == [c EXCEPT !.ok = FALSE]

\* Bug for mutation: what was flushed is not forgotten.
flush_keepsCurrent(c) ==
    IF c.current = << >> THEN c
    ELSE [c EXCEPT !.items = Append(@, [type    |-> "message",
                                        id      |-> 0,
                                        content |-> [k \in DOMAIN c.current |-> c.current[k].content],
                                        from    |-> [k \in DOMAIN c.current |-> c.current[k].at]])]

flush(c) ==
    IF c.current = << >> THEN c
    ELSE [c EXCEPT !.current = << >>,
                   !.items = Append(@, [type    |-> "message",
                                        id      |-> 0,
                                        content |-> [k \in DOMAIN c.current |-> c.current[k].content],
                                        from    |-> [k \in DOMAIN c.current |-> c.current[k].at]])]

say(c, content, at) ==
    [c EXCEPT !.current = Append(@, [content |-> content, at |-> at])]

\* serverToolUseToInputItem's item is appended whether it has a type or not.
putAlways(c, item, at) ==
    IF item = Failure THEN Fail(c)
    ELSE [c EXCEPT !.items = Append(@, [type |-> item.type, id |-> item.id,
                                        content |-> item.content, from |-> <<at>>])]

\* The loop skips items without a type.
put(c, item, at) ==
    CASE item = Failure -> Fail(c)
      [] item = NoItem  -> c
      [] OTHER          -> [c EXCEPT !.items = Append(@, [type    |-> item.type,
                                                          id      |-> item.id,
                                                          content |-> item.content,
                                                          from    |-> <<at>>])]

remember(c, id, kind) ==
    [c EXCEPT !.kinds = [i \in DOMAIN @ \cup {id} |-> IF i = id THEN kind ELSE @[i]]]

kindOf(c, id) == IF id \in DOMAIN c.kinds THEN c.kinds[id] ELSE None

textType(role, block) ==
    IF role = "user" THEN "input_text"
    ELSE IF block.kind = "refusal" THEN "refusal" ELSE "output_text"

\* An image without a source is an error in either mode, a document that cannot
\* be read is replaced by a line of text, and an image is left out.
gather(c, role, block, at) ==
    CASE block.type = "text" ->
            IF role = "assistant" /\ block.commentary THEN c ELSE say(c, textType(role, block), at)
      [] block.type = "image" ->
            IF block.body = "none" THEN Fail(c)
            ELSE IF block.body = "some" THEN say(c, "input_image", at)
            ELSE IF strict THEN Fail(c) ELSE c
      [] block.type = "document" ->
            IF block.body = "some" THEN say(c, "input_file", at)
            ELSE IF strict THEN Fail(c) ELSE say(c, "input_text", at)

convertItemBlock(c, block, at) ==
    CASE block.type = "tool_use" ->
            IF block.name = None \/ block.id = 0 \/ (strict /\ block.body = "malformed") THEN Fail(c)
            ELSE put(remember(c, block.id, toolUseKind(block)), toolUseBlockToInputItem(block), at)
      [] block.type = "server_tool_use" ->
            IF block.id = 0 THEN Fail(c)
            ELSE LET item == serverToolUseToInputItem(block)
                 IN  putAlways(remember(c, block.id, item.type), item, at)
      [] block.type = "tool_result" ->
            IF block.id = 0 THEN Fail(c)
            ELSE put(c, toolResultToInputItem(block, kindOf(c, block.id)), at)
      [] block.type = "web_search_tool_result"  -> c
      [] block.type = "tool_search_tool_result" -> put(c, toolSearchResultBlockToInputItem(block), at)
      [] block.type = "compaction"              -> put(c, compactionBlockToInputItem(block), at)
      [] block.type = "image_generation_call"   -> put(c, imageGenerationBlockToInputItem(block), at)
      [] block.type = "responses_output_item"   -> put(c, opaqueBlockToInputItem(block), at)

convertBlock(c, role, block, at) ==
    CASE ~ c.ok                                     -> c
      [] c.ok /\ block.type \in {"thinking", "signature"} -> c
      [] c.ok /\ block.type \in {"text", "image", "document"} -> gather(c, role, block, at)
      [] c.ok /\ block.type \in ItemBlocks          -> convertItemBlock(flush(c), block, at)
      [] c.ok /\ block.type = "unsupported"         -> IF strict THEN Fail(c) ELSE c

\* Bug for mutation: callKinds is made anew for each message.
messageToInputItems_freshKinds(c, msg, m) ==
    LET after[b \in 0 .. Len(msg.blocks)] ==
            IF b = 0 THEN [c EXCEPT !.kinds = << >>]
            ELSE convertBlock(after[b - 1], msg.role, msg.blocks[b], <<m, b>>)
    IN  flush(after[Len(msg.blocks)])

\* The conversion after the first blocks of the m-th message, and after all of them.
messageToInputItems(c, msg, m) ==
    LET after[b \in 0 .. Len(msg.blocks)] ==
            IF b = 0 THEN c ELSE convertBlock(after[b - 1], msg.role, msg.blocks[b], <<m, b>>)
    IN  flush(after[Len(msg.blocks)])

\* The loop of TransformAnthropicToOpenAI over the messages.
inputOf(messages) ==
    LET after[m \in 0 .. Len(messages)] ==
            IF m = 0 THEN Start ELSE messageToInputItems(after[m - 1], messages[m], m)
    IN  after[Len(messages)]

-----------------------------------------------------------------------------
\* compact.go: items of the upstream, copied.

\* Parts of other types are left out.
messageOutputContentToInput(parts) ==
    FlattenSeq([k \in DOMAIN parts |->
        CASE parts[k] \in {"output_text", "text"} -> <<"output_text">>
          [] parts[k] = "refusal"                 -> <<"refusal">>
          [] OTHER                                -> << >>])

outputItemToInputItem(item) ==
    [type |-> item.type, id |-> item.id,
     content |-> IF item.type = "message" THEN messageOutputContentToInput(item.parts) ELSE << >>]

OutputItemsToInputItems(output) == [k \in DOMAIN output |-> outputItemToInputItem(output[k])]
=============================================================================
