-------------------------- MODULE StreamAgreement --------------------------
(***************************************************************************)
(* The same OpenAI response, once streamed through the bridge and once     *)
(* converted whole by TransformOpenAIToAnthropic: the client should get    *)
(* the same message either way.                                            *)
(*                                                                         *)
(* The response is a sequence of output items (module ResponseMessage).    *)
(* The upstream streams them one after the other; of each item it either   *)
(* sends the announcement and the parts or only the item when it is done.  *)
(* What the handlers of StreamBridge do with an item that is done is the   *)
(* outcome of the converter they call.  How items interleave is a question *)
(* for BridgedStream.                                                      *)
(***************************************************************************)
EXTENDS StreamBridge

CONSTANTS
    Ids,        \* the ids of the items of a response, in output order
    Responses   \* the responses considered: sequences of output items

VARIABLES
    output,     \* the response
    streamed,   \* which of its items are streamed part by part
    at,         \* the item the upstream is sending
    sent,       \* how many events it has sent for it
    ended       \* "no", or the status of the terminal event

source  == <<output, streamed, at, sent, ended>>
allVars == <<vars, source>>

Message == INSTANCE ResponseMessage

\* The ids tell the items apart.  The blocks of a message are bounded as those of
\* any item that is done are in StreamBridge.
ASSUME AgreementAssumption ==
    /\ Ids \in Seq(Items)
    /\ \A j, k \in DOMAIN Ids : Ids[j] = Ids[k] => j = k
    /\ 0 .. (Len(Ids) - 1) \subseteq Outputs
    /\ Responses \subseteq Seq(Message!OutputItem)
    /\ \A r \in Responses :
          /\ Len(r) <= Len(Ids)
          /\ \A k \in DOMAIN r : /\ 0 .. (Len(r[k].parts) - 1) \subseteq Parts
                                 /\ Cardinality(Message!known(r[k].parts)) <= MaxBlocks

-----------------------------------------------------------------------------
(* The events of an item                                                    *)

Event(name, part) == [name |-> name, part |-> part]

PartEvents(what, part) ==
    CASE what \in {"output_text", "text"} ->
                                 <<Event("part.added", part), Event("text.delta", part),
                                   Event("part.done", part)>>
      [] what = "refusal"     -> <<Event("other.added", part), Event("refusal.delta", part),
                                   Event("refusal.done", part)>>
      [] what = "other"       -> <<Event("other.added", part), Event("part.done", part)>>

MessageEvents(parts) ==
    LET after[k \in 0 .. Len(parts)] ==
            IF k = 0 THEN << >> ELSE after[k - 1] \o PartEvents(parts[k], k - 1)
    IN  after[Len(parts)]

DetailEvents(item) ==
    CASE item.type = "message" -> MessageEvents(item.parts)
      [] item.type = "reasoning" /\ item.body = "some" ->
            <<Event("thinking.delta", 0), Event("thinking.done", 0)>>
      [] item.type \in {"function_call", "mcp_call"} ->
            <<Event("arguments.delta", 0), Event("arguments.done", 0)>>
      [] OTHER -> << >>

Events(k) ==
    IF streamed[k] THEN <<Event("added", 0)>> \o DetailEvents(output[k]) \o <<Event("done", 0)>>
    ELSE <<Event("done", 0)>>

-----------------------------------------------------------------------------
(* The bridge handles them                                                  *)

HandleAdded(id, out, item) ==
    CASE item.type = "message" /\ item.commentary -> CommentaryItemAdded(id)
      [] item.type \in DirectTools                -> ToolItemAdded(id, out)
      [] item.type \in ConvertedTools             ->
            IF Message!toolCallToBlock(item).ok THEN ToolItemAdded(id, out)
            ELSE UnsupportedItemAdded
      [] item.type = "web_search_call"            -> WebSearchItemAdded(id)
      [] item.type \in {"unrecognized", "blank"}  -> UnsupportedItemAdded
      [] OTHER                                    -> PassiveItemAdded

HandleMessageDone(id, item) ==
    LET outcome == Message!openAIMessageToBlocks(item)
    IN  IF outcome.ok THEN MessageItemDone(id, Len(outcome.blocks))
        ELSE \/ MessageItemDoneFails(id)
             \/ /\ id \in bridge.ignoredMessageItemID \/ hasStreamedMessageItem(bridge, id)
                /\ MessageItemDone(id, 0)

\* A block that is open is closed and only the result converted.
HandleToolDone(id, item) ==
    LET isOpen == bridge.toolIndexByItemID[id] # Absent
        result == IF item.type \in ResultTools THEN Message!callResultToBlock(item)
                  ELSE Message!Blocks(<< >>)
    IN  IF result.ok /\ (isOpen \/ Message!toolCallToBlock(item).ok)
        THEN ToolItemDone(id, Len(result.blocks))
        ELSE ToolItemDoneFails(id, item.type)

HandleReasoningDone(id, item) ==
    LET outcome == Message!openAIReasoningToThinkingBlock(item)
    IN  IF outcome.ok \/ thinkingStarted(bridge) THEN ReasoningItemDone(id, Len(outcome.blocks))
        ELSE ReasoningItemDoneFails

HandleOutputDone(id, item) ==
    LET outcome == Message!toolOutputToBlock(item)
    IN  IF outcome.ok THEN StandaloneItemDone(id, item.type, Len(outcome.blocks))
        ELSE StandaloneItemDoneFails(item.type)

HandleOpaqueDone(id, item) ==
    LET outcome == Message!openAIOpaqueOutputToBlock(item)
    IN  IF outcome.ok THEN StandaloneItemDone(id, "unrecognized", Len(outcome.blocks))
        ELSE StandaloneItemDoneFails("unrecognized")

HandleDone(id, item) ==
    CASE item.type = "message"                     -> HandleMessageDone(id, item)
      [] item.type = "reasoning"                   -> HandleReasoningDone(id, item)
      [] item.type \in DirectTools \cup ConvertedTools -> HandleToolDone(id, item)
      [] item.type = "web_search_call"             -> WebSearchItemDone(id)
      [] item.type = "compaction"                  -> CompactionItemDone(id, item.body = "none")
      [] item.type \in Message!ToolOutputs         -> HandleOutputDone(id, item)
      [] item.type = "image_generation_call"       -> StandaloneItemDone(id, item.type, 1)
      [] OTHER                                     -> HandleOpaqueDone(id, item)

Handle(id, out, item, event) ==
    CASE event.name = "added"           -> HandleAdded(id, out, item)
      [] event.name = "part.added"      -> ContentPartAdded(id, out, event.part, TRUE)
      [] event.name = "other.added"     -> ContentPartAdded(id, out, event.part, FALSE)
      [] event.name = "text.delta"      -> OutputTextDelta(id, out, event.part)
      [] event.name = "refusal.delta"   -> RefusalDelta(id, out, event.part)
      [] event.name = "refusal.done"    -> RefusalDone(id, out, event.part)
      [] event.name = "part.done"       -> ContentPartDone(id, out, event.part, 0)
      [] event.name = "thinking.delta"  -> ReasoningDelta(id)
      [] event.name = "thinking.done"   -> ReasoningTextDone
      [] event.name = "arguments.delta" -> ToolArgumentsDelta(id, out)
      [] event.name = "arguments.done"  -> ToolArgumentsDone(id, out)
      [] event.name = "done"            -> HandleDone(id, item)

SendEvent ==
    /\ ended = "no"
    /\ at <= Len(output)
    /\ Handle(Ids[at], at - 1, output[at], Events(at)[sent + 1])
    /\ IF sent + 1 = Len(Events(at)) THEN at' = at + 1 /\ sent' = 0
       ELSE at' = at /\ sent' = sent + 1
    /\ UNCHANGED <<output, streamed, ended>>

SendTerminal(status) ==
    /\ ended = "no"
    /\ at > Len(output)
    /\ ResponseEnded(status, "none")
    /\ ended' = status
    /\ UNCHANGED <<output, streamed, at, sent>>

AgreementInit ==
    /\ Init
    /\ output \in Responses
    /\ streamed \in [DOMAIN output -> BOOLEAN]
    /\ at = 1 /\ sent = 0
    /\ ended = "no"

\* Nothing is left to do: any other state without a successor is a deadlock.
Finished ==
    /\ ended # "no" \/ phase = "failed"
    /\ delivered = Len(bridge.out)
    /\ UNCHANGED allVars

AgreementNext ==
    \/ SendEvent
    \/ \E status \in {"completed", "incomplete"} : SendTerminal(status)
    \/ Deliver /\ UNCHANGED source
    \/ Finished

AgreementSpec == AgreementInit /\ [][AgreementNext]_allVars

-----------------------------------------------------------------------------
(* Properties                                                               *)

\* Where the two conversions differ; each disjunct is a difference in the code.
\* A streamed commentary message shows its refusal (stream.go:495).
RefusalOfCommentary ==
    \E k \in DOMAIN output :
        /\ streamed[k] /\ output[k].type = "message" /\ output[k].commentary
        /\ \E p \in DOMAIN output[k].parts : output[k].parts[p] = "refusal"

\* A message of which a part was streamed is not converted (stream.go:413).
StreamedMessageUnread ==
    \E k \in DOMAIN output :
        /\ streamed[k] /\ output[k].type = "message"
        /\ \E p \in DOMAIN output[k].parts : output[k].parts[p] # "other"
        /\ ~ Message!openAIMessageToBlocks(output[k]).ok

\* A part of type "text" is a text block in a stream (stream.go:231) and nothing
\* in a whole response (response.go:224).
StreamedTextPart ==
    \E k \in DOMAIN output :
        /\ streamed[k] /\ output[k].type = "message" /\ ~ output[k].commentary
        /\ \E p \in DOMAIN output[k].parts : output[k].parts[p] = "text"

\* Best-effort mode: an item without a type is nothing in a stream
\* (stream.go:1067) and a text block in a whole response (response.go:143).
BlankItem ==
    ~ Strict /\ \E k \in DOMAIN output : output[k].type = "blank"

\* A stream has one block for reasoning once it streamed some (stream.go:407, 443).
ReasoningMerged ==
    \E j, k \in DOMAIN output :
        /\ j < k
        /\ streamed[j] /\ output[j].type = "reasoning" /\ output[j].body = "some"
        /\ output[k].type = "reasoning" /\ output[k].body # "none"

\* Best-effort mode: reasoning that cannot be read ends the stream and is left out
\* of a whole response (stream.go:1050).
UnreadableReasoning ==
    /\ ~ Strict
    /\ \E k \in DOMAIN output : output[k].type = "reasoning" /\ output[k].body = "malformed"

\* The block of a call is opened before the call is complete (stream.go:134).
BlockOfBrokenCall ==
    \E k \in DOMAIN output :
        streamed[k] /\ output[k].type \in DirectTools /\ output[k].body = "malformed"

\* Strict mode: the announcement of an unknown item is refused (stream.go:213), an
\* empty compaction is no error (stream.go:924).
StrictDiffers ==
    /\ Strict
    /\ \E k \in DOMAIN output :
          \/ output[k].type = "unrecognized" /\ streamed[k]
          \/ output[k].type = "compaction" /\ output[k].body = "none"

Different ==
    \/ RefusalOfCommentary
    \/ StreamedMessageUnread
    \/ StreamedTextPart
    \/ BlankItem
    \/ ReasoningMerged
    \/ UnreadableReasoning
    \/ BlockOfBrokenCall
    \/ StrictDiffers

\* A response that cannot be converted is an error for the client either way, and
\* no other is.
SameFailure ==
    ~ Different => /\ phase = "failed" => Message!Fails(output)
                   /\ ended # "no" => ~ Message!Fails(output)

\* The elements of a sequence that are in a set, in order.
Only(blocks, kinds) ==
    LET after[k \in 0 .. Len(blocks)] ==
            IF k = 0 THEN << >>
            ELSE IF blocks[k] \in kinds THEN Append(after[k - 1], blocks[k])
            ELSE after[k - 1]
    IN  after[Len(blocks)]

\* What a frame shows: the block it starts, if any.
ShownBy(frame) ==
    IF frame.type # "content_block_start" THEN "none"
    ELSE IF frame.what = "refusal" THEN "text" ELSE frame.what

BlockTypes == {"text", "tool_use", "tool_result", "thinking", "server_tool_use",
               "web_search_tool_result", "compaction"} \cup Standalone

Shown == Only([k \in DOMAIN bridge.out |-> ShownBy(bridge.out[k])], BlockTypes)

Thinking(blocks)  == Only(blocks, {"thinking"})
AllOthers(blocks) == Only(blocks, BlockTypes \ {"thinking"})

\* The client gets the same blocks in the same order, whether an item was
\* streamed, sent when it was done, or converted with the whole response; only
\* thinking comes first in a message that was not streamed.
SameBlocks ==
    ~ Different /\ ended # "no" =>
        /\ Thinking(Shown)  = Thinking(Message!content(output))
        /\ AllOthers(Shown) = AllOthers(Message!content(output))

\* The stop reason and the number of searches are the same, but for
\* mcp_list_tools, which counts as tool use only in a stream
\* (stream.go:154, response.go:104).
SameSummary ==
    ~ Different /\ ended # "no" =>
        /\ bridge.serverToolUseCount = Message!serverToolUseCount(output)
        /\ (\E k \in DOMAIN output : output[k].type = "mcp_list_tools") \/
           \E m \in DOMAIN bridge.out :
              /\ bridge.out[m].type = "message_delta"
              /\ bridge.out[m].what = deriveStopReason(ended, "none", Message!toolUsed(output))
=============================================================================
