--------------------------- MODULE StreamBridge ---------------------------
(***************************************************************************)
(* BridgeOpenAIStream (internal/transform/stream.go): one goroutine reads  *)
(* the OpenAI Responses events of an upstream stream and writes Anthropic  *)
(* Messages events to the client.                                          *)
(*                                                                         *)
(* Here the upstream is arbitrary: any event may come at any time, for any *)
(* item, output index and content part, with any outcome of converting its *)
(* payload.  Module BridgedStream restricts it to a response that follows  *)
(* the Responses protocol.                                                 *)
(*                                                                         *)
(* Helpers of the source take *streamState and *sse.Writer and mutate      *)
(* both; here they map a record with the fields of streamState and the     *)
(* frames handed to the writer to the record they leave.  A handler is one *)
(* step; the frames it handed over reach the client one by one (Deliver),  *)
(* and no other event is handled before the last of them is written, since *)
(* writer.Send is synchronous.                                             *)
(***************************************************************************)
EXTENDS Integers, Sequences, FiniteSets

CONSTANTS
    Items,      \* ids of upstream output items
    NoItem,     \* the id "" (absent from the payload)
    Outputs,    \* output_index values
    Parts,      \* content_index values
    Strict,     \* config.ModeStrict
    MaxEvents   \* bound on the number of upstream events handled

ASSUME BridgeAssumption ==
    /\ NoItem \notin Items
    /\ Outputs \subseteq Nat
    /\ Strict \in BOOLEAN
    /\ MaxEvents \in Nat

VARIABLES
    bridge,     \* streamState, and in field out the frames handed to the writer
    delivered,  \* how many of those frames have been written to the client
    phase,      \* what BridgeOpenAIStream is doing, or how it returned
    handled     \* number of upstream events handled

vars == <<bridge, delivered, phase, handled>>

-----------------------------------------------------------------------------
(* Data                                                                     *)

ItemIds == Items \cup {NoItem}
Owners  == ItemIds \cup Outputs
Keys    == Owners \X Parts
Absent  == -1
Index   == Nat \cup {Absent}

\* Item types by how output_item.added and output_item.done treat them.
DirectTools    == {"function_call", "custom_tool_call", "mcp_call"}
ConvertedTools == {"local_shell_call", "tool_search_call", "file_search_call",
                   "computer_call", "mcp_list_tools"}
ResultTools    == {"mcp_call", "file_search_call"}
Standalone     == {"tool_search_output", "computer_call_output",
                   "image_generation_call", "unrecognized"}

\* What a frame carries: the kind of the block it starts, the kind of the
\* delta, or the stop reason.
Details == {"none", "text", "refusal", "tool_use", "tool_result", "thinking",
            "server_tool_use", "web_search_tool_result", "compaction"}
           \cup Standalone
           \cup {"text_delta", "citations_delta", "input_json_delta",
                 "thinking_delta", "signature_delta"}
           \cup {"max_tokens", "end_turn"}

Frame == [type  : {"message_start", "content_block_start", "content_block_delta",
                   "content_block_stop", "message_delta", "message_stop", "error"},
          index : Index,
          what  : Details,
          item  : Owners]

\* One frame on the client's stream: item is the upstream item the frame speaks
\* of; it is not on the wire and only serves to state properties.
MessageFrame(type, what)      == [type |-> type, index |-> Absent, what |-> what, item |-> NoItem]
BlockStart(i, what, item)     == [type |-> "content_block_start", index |-> i, what |-> what, item |-> item]
BlockDelta(i, what, item)     == [type |-> "content_block_delta", index |-> i, what |-> what, item |-> item]
BlockStop(i)                  == [type |-> "content_block_stop", index |-> i, what |-> "none", item |-> NoItem]

Bridge == [started              : BOOLEAN,
           nextIndex            : Nat,
           textIndexByKey       : [Keys -> Index],
           ignoredMessageItemID : SUBSET ItemIds,
           toolIndexByItemID    : [ItemIds -> Index],
           toolIndexByOutput    : [Outputs -> Index],
           closedIndex          : SUBSET Nat,
           toolUsed             : BOOLEAN,
           thinkingIndex        : Index,
           webSearchEmitted     : SUBSET ItemIds,
           serverToolUseCount   : Nat,
           out                  : Seq(Frame)]

newStreamState ==
    [started              |-> FALSE,
     nextIndex            |-> 0,
     textIndexByKey       |-> [k \in Keys |-> Absent],
     ignoredMessageItemID |-> {},
     toolIndexByItemID    |-> [x \in ItemIds |-> Absent],
     toolIndexByOutput    |-> [o \in Outputs |-> Absent],
     closedIndex          |-> {},
     toolUsed             |-> FALSE,
     thinkingIndex        |-> Absent,
     webSearchEmitted     |-> {},
     serverToolUseCount   |-> 0,
     out                  |-> << >>]

-----------------------------------------------------------------------------
(* Helpers of the source                                                    *)

sendEvent(b, frame) == [b EXCEPT !.out = Append(@, frame)]

ensureMessageStart(b) ==
    IF b.started THEN b
    ELSE [sendEvent(b, MessageFrame("message_start", "none")) EXCEPT !.started = TRUE]

\* idx := nextIndex; nextIndex++; send content_block_start.
openBlock(b, what, item) ==
    [sendEvent(b, BlockStart(b.nextIndex, what, item)) EXCEPT !.nextIndex = b.nextIndex + 1]

\* Bug for mutation: a block that is closed is closed again.
closeContentBlock_again(b, i) ==
    [sendEvent(b, BlockStop(i)) EXCEPT !.closedIndex = @ \cup {i}]

closeContentBlock(b, i) ==
    IF i \in b.closedIndex THEN b
    ELSE [sendEvent(b, BlockStop(i)) EXCEPT !.closedIndex = @ \cup {i}]

startThinkingBlock(b, item) ==
    [openBlock(b, "thinking", item) EXCEPT !.thinkingIndex = b.nextIndex]

thinkingStarted(b) == b.thinkingIndex # Absent

\* Bugs for mutation: the block gets no signature; a sealed block is sealed again.
closeThinkingBlock_unsigned(b) == closeContentBlock(b, b.thinkingIndex)

closeThinkingBlock_again(b) ==
    closeContentBlock(
        sendEvent(b, BlockDelta(b.thinkingIndex, "signature_delta", NoItem)),
        b.thinkingIndex)

\* The signature delta and the stop speak of the block itself.
closeThinkingBlock(b) ==
    IF b.thinkingIndex \in b.closedIndex THEN b
    ELSE closeContentBlock(
            sendEvent(b, BlockDelta(b.thinkingIndex, "signature_delta", NoItem)),
            b.thinkingIndex)

emitFullContentBlock(b, what, item) ==
    LET e == ensureMessageStart(b)
    IN  closeContentBlock(openBlock(e, what, item), e.nextIndex)

\* The blocks a finished item converts to: up to MaxBlocks of them.
MaxBlocks == 2

emitBlocks(b, n, what, item) ==
    CASE n = 0 -> b
      [] n = 1 -> emitFullContentBlock(b, what, item)
      [] n = 2 -> emitFullContentBlock(emitFullContentBlock(b, what, item), what, item)

\* What an event speaks of: its item_id, else its output_index.
owner(item, out) == IF item = NoItem THEN out ELSE item

contentKey(item, out, part) == <<owner(item, out), part>>

\* Bug for mutation: without an item id, arguments go to the block opened last.
toolIndex_last(b, item, out) ==
    IF b.toolIndexByItemID[item] # Absent THEN b.toolIndexByItemID[item]
    ELSE b.nextIndex - 1

\* The tool block an arguments event speaks of: by item id, else by output index.
toolIndex(b, item, out) ==
    IF b.toolIndexByItemID[item] # Absent THEN b.toolIndexByItemID[item]
    ELSE b.toolIndexByOutput[out]

\* Bug for mutation: only output_item.done notes that a tool was used.
openToolBlock_unnoted(b, item, out) ==
    [openBlock(b, "tool_use", item) EXCEPT
        !.toolIndexByItemID[item] = b.nextIndex,
        !.toolIndexByOutput[out]  = b.nextIndex]

openToolBlock(b, item, out) ==
    [openBlock(b, "tool_use", item) EXCEPT
        !.toolIndexByItemID[item] = b.nextIndex,
        !.toolIndexByOutput[out]  = b.nextIndex,
        !.toolUsed                = TRUE]

\* The text block of a content part, opened if the part has none yet.
ensureTextBlock(b, key, what) ==
    IF b.textIndexByKey[key] # Absent THEN b
    ELSE [openBlock(b, what, key[1]) EXCEPT !.textIndexByKey[key] = b.nextIndex]

\* Bug for mutation: text goes to the block opened last.
textDelta_last(b, key) ==
    sendEvent(b, BlockDelta(b.nextIndex - 1, "text_delta", key[1]))

textDelta(b, key) ==
    sendEvent(b, BlockDelta(b.textIndexByKey[key], "text_delta", key[1]))

\* n citations_delta frames, at most MaxCitations.
MaxCitations == 1

emitCitationsDelta(b, key, n) ==
    IF n = 0 THEN b
    ELSE sendEvent(b, BlockDelta(b.textIndexByKey[key], "citations_delta", key[1]))

\* Bug for mutation: only an empty message counts as streamed.
hasStreamedMessageItem_never(b, item) == FALSE

hasStreamedMessageItem(b, item) ==
    /\ item # NoItem
    /\ \E p \in Parts : b.textIndexByKey[<<item, p>>] # Absent

emitFunctionLikeToolUseFromDone(b, item, results) ==
    LET call == emitFullContentBlock([b EXCEPT !.toolUsed = TRUE], "tool_use", item)
    IN  emitBlocks(call, results, "tool_result", item)

\* Bug for mutation: the search is counted before the guard against repetition.
handleWebSearchDone_recounted(b, item) ==
    IF item \in b.webSearchEmitted THEN [b EXCEPT !.serverToolUseCount = @ + 1]
    ELSE LET s == openBlock([b EXCEPT !.webSearchEmitted   = @ \cup {item},
                                      !.serverToolUseCount = @ + 1],
                            "server_tool_use", item)
             c == closeContentBlock(s, b.nextIndex)
         IN  closeContentBlock(openBlock(c, "web_search_tool_result", item), c.nextIndex)

handleWebSearchDone(b, item) ==
    IF item \in b.webSearchEmitted THEN b
    ELSE LET s == openBlock([b EXCEPT !.webSearchEmitted   = @ \cup {item},
                                      !.serverToolUseCount = @ + 1],
                            "server_tool_use", item)
             c == closeContentBlock(
                     sendEvent(s, BlockDelta(b.nextIndex, "input_json_delta", item)),
                     b.nextIndex)
         IN  closeContentBlock(openBlock(c, "web_search_tool_result", item), c.nextIndex)

\* sort.Ints over the text indices; closeContentBlock skips the closed ones.
OpenTextBlocks(b) ==
    {b.textIndexByKey[k] : k \in Keys} \ ({Absent} \cup b.closedIndex)

Ascending(S) ==
    {f \in [1 .. Cardinality(S) -> S] :
        /\ \A j, k \in DOMAIN f : j < k => f[j] < f[k]
        /\ \A x \in S : \E k \in DOMAIN f : f[k] = x}

closeTextBlocks(b, order) ==
    [b EXCEPT !.closedIndex = @ \cup {order[k] : k \in DOMAIN order},
              !.out         = @ \o [k \in DOMAIN order |-> BlockStop(order[k])]]

\* Bug for mutation: the thinking block is left open.
flushOpenTextBlocks_textOnly(b, order) == closeTextBlocks(b, order)

flushOpenTextBlocks(b, order) ==
    IF thinkingStarted(b) THEN closeThinkingBlock(closeTextBlocks(b, order))
    ELSE closeTextBlocks(b, order)

deriveStopReason(status, reason, toolUsed) ==
    CASE reason = "max_output_tokens"     -> "max_tokens"
      [] reason = "content_filter"        -> "end_turn"
      [] OTHER ->
            CASE status = "incomplete"              -> "max_tokens"
              [] status \in {"failed", "cancelled"} -> "end_turn"
              [] OTHER -> IF toolUsed THEN "tool_use" ELSE "end_turn"

\* Bug for mutation: the stream ends with message_delta.
finishMessage_unstopped(b, stopReason) ==
    sendEvent(b, MessageFrame("message_delta", stopReason))

finishMessage(b, stopReason) ==
    sendEvent(sendEvent(b, MessageFrame("message_delta", stopReason)),
              MessageFrame("message_stop", "none"))

-----------------------------------------------------------------------------
(* The loop of BridgeOpenAIStream and what a handler's return does to it    *)

Init ==
    /\ bridge = newStreamState
    /\ delivered = 0
    /\ phase = "reading"
    /\ handled = 0

Receiving ==
    /\ phase = "reading"
    /\ delivered = Len(bridge.out)
    /\ handled < MaxEvents

\* The handler returned nil with the state b.
Return(b) ==
    /\ bridge' = b
    /\ handled' = handled + 1
    /\ UNCHANGED <<delivered, phase>>

\* The handler returned an error: the loop ends and handleStream sends "error".
ReturnError(b) ==
    /\ bridge' = sendEvent(b, MessageFrame("error", "none"))
    /\ phase' = "failed"
    /\ handled' = handled + 1
    /\ UNCHANGED delivered

\* An error the handler only returns in strict mode.
ReturnErrorIfStrict(b) == IF Strict THEN ReturnError(b) ELSE Return(b)

\* writer.Send has written the next frame.
Deliver ==
    /\ phase # "broken"
    /\ delivered < Len(bridge.out)
    /\ delivered' = delivered + 1
    /\ UNCHANGED <<bridge, phase, handled>>

\* writer.Send failed: the handler gives up, and so does the error event.
WriteFails ==
    /\ phase # "broken"
    /\ delivered < Len(bridge.out)
    /\ phase' = "broken"
    /\ UNCHANGED <<bridge, delivered, handled>>

\* The reader closed its channel: the bridge returns nil.
ReaderClosed ==
    /\ phase = "reading"
    /\ delivered = Len(bridge.out)
    /\ phase' = "drained"
    /\ UNCHANGED <<bridge, delivered, handled>>

\* ctx is done: no error event is sent for context.Canceled.
Cancel ==
    /\ phase = "reading"
    /\ delivered = Len(bridge.out)
    /\ phase' = "canceled"
    /\ UNCHANGED <<bridge, delivered, handled>>

-----------------------------------------------------------------------------
(* handleOpenAIEvent, one action per case                                   *)

\* Empty data, [DONE], no JSON, and the types the switch answers with nil.
EventIgnored == Receiving /\ Return(bridge)

\* A payload json.Unmarshal refuses, or an "error" event.
EventFatal == Receiving /\ ReturnError(bridge)

ResponseCreated == Receiving /\ Return(ensureMessageStart(bridge))

CommentaryItemAdded(item) ==
    /\ Receiving
    /\ Return([bridge EXCEPT !.ignoredMessageItemID = @ \cup {item}])

\* message, reasoning, tool outputs, images and compactions; web_search_call
\* registers a fresh entry that has emitted no result.
PassiveItemAdded == Receiving /\ Return(ensureMessageStart(bridge))

WebSearchItemAdded(item) ==
    /\ Receiving
    /\ Return([ensureMessageStart(bridge) EXCEPT !.webSearchEmitted = @ \ {item}])

ToolItemAdded(item, out) ==
    /\ Receiving
    /\ Return(openToolBlock(ensureMessageStart(bridge), item, out))

\* Bug for mutation: toolUsed is set before the item is known to convert.
UnsupportedItemAdded_used ==
    /\ Receiving
    /\ ReturnErrorIfStrict([ensureMessageStart(bridge) EXCEPT !.toolUsed = TRUE])

\* A ConvertedTools item that does not convert, or an unknown item type.
UnsupportedItemAdded ==
    /\ Receiving
    /\ ReturnErrorIfStrict(ensureMessageStart(bridge))

ContentPartAdded(item, out, part, isText) ==
    /\ Receiving
    /\ Return(IF item \in bridge.ignoredMessageItemID \/ ~ isText THEN bridge
              ELSE ensureTextBlock(ensureMessageStart(bridge),
                                   contentKey(item, out, part), "text"))

\* Bug for mutation: the text of commentary is streamed.
OutputTextDelta_commentary(item, out, part) ==
    LET key == contentKey(item, out, part)
    IN  /\ Receiving
        /\ Return(textDelta(ensureTextBlock(ensureMessageStart(bridge), key, "text"), key))

OutputTextDelta(item, out, part) ==
    LET key == contentKey(item, out, part)
    IN  /\ Receiving
        /\ Return(IF item \in bridge.ignoredMessageItemID THEN bridge
                  ELSE textDelta(ensureTextBlock(ensureMessageStart(bridge), key, "text"), key))

\* Bug for mutation: index 0 is taken for a missing entry.
ToolArgumentsDelta_zero(item, out) ==
    LET i == toolIndex(bridge, item, out)
    IN  /\ Receiving
        /\ Return(IF i \in {Absent, 0} THEN bridge
                  ELSE sendEvent(bridge, BlockDelta(i, "input_json_delta", owner(item, out))))

\* function_call_arguments.delta and mcp_call_arguments.delta.
ToolArgumentsDelta(item, out) ==
    LET i == toolIndex(bridge, item, out)
    IN  /\ Receiving
        /\ IF i = Absent THEN ReturnErrorIfStrict(bridge)
           ELSE Return(sendEvent(bridge, BlockDelta(i, "input_json_delta", owner(item, out))))

ToolArgumentsDone(item, out) ==
    LET i == toolIndex(bridge, item, out)
    IN  /\ Receiving
        /\ Return(IF i = Absent THEN bridge ELSE closeContentBlock(bridge, i))

\* A tool call item is done: results is the number of result blocks it carries
\* (mcp_call and file_search_call only).
ToolItemDone(item, results) ==
    LET i == bridge.toolIndexByItemID[item]
    IN  /\ Receiving
        /\ Return(IF i = Absent THEN emitFunctionLikeToolUseFromDone(bridge, item, results)
                  ELSE emitBlocks(closeContentBlock(bridge, i), results, "tool_result", item))

\* Bug for mutation: the item is skipped, as in the loop over a whole response.
ToolItemDoneFails_skipped(item, kind) == Receiving /\ Return(bridge)

\* Its call does not convert (only looked at when no block is open), or its
\* result does not.
ToolItemDoneFails(item, kind) ==
    LET i == bridge.toolIndexByItemID[item]
    IN  /\ Receiving
        /\ i = Absent \/ kind \in ResultTools
        /\ ReturnError(IF i = Absent THEN bridge ELSE closeContentBlock(bridge, i))

ReasoningItemDone(item, n) ==
    /\ Receiving
    /\ Return(IF thinkingStarted(bridge) THEN closeThinkingBlock(bridge)
              ELSE emitBlocks(bridge, n, "thinking", item))

ReasoningItemDoneFails ==
    /\ Receiving
    /\ ~ thinkingStarted(bridge)
    /\ ReturnError(bridge)

MessageItemDone(item, n) ==
    /\ Receiving
    /\ Return(IF item \in bridge.ignoredMessageItemID \/ hasStreamedMessageItem(bridge, item)
              THEN bridge
              ELSE emitBlocks(bridge, n, "text", item))

MessageItemDoneFails(item) ==
    /\ Receiving
    /\ item \notin bridge.ignoredMessageItemID
    /\ ~ hasStreamedMessageItem(bridge, item)
    /\ ReturnError(bridge)

WebSearchItemDone(item) == Receiving /\ Return(handleWebSearchDone(bridge, item))

\* Tool outputs, images and unrecognized items: at most one whole block.
StandaloneItemDone(item, kind, n) ==
    Receiving /\ Return(emitBlocks(bridge, n, kind, item))

StandaloneItemDoneFails(kind) ==
    /\ Receiving
    /\ kind # "image_generation_call"
    /\ IF kind = "unrecognized" THEN ReturnErrorIfStrict(bridge) ELSE ReturnError(bridge)

\* handleCompactionDone does not call ensureMessageStart.
CompactionItemDone(item, isEmpty) ==
    /\ Receiving
    /\ Return(IF isEmpty THEN bridge
              ELSE closeContentBlock(openBlock(bridge, "compaction", item), bridge.nextIndex))

ReasoningDelta(item) ==
    LET b == ensureMessageStart(bridge)
        t == IF thinkingStarted(b) THEN b ELSE startThinkingBlock(b, item)
    IN  /\ Receiving
        /\ Return(sendEvent(t, BlockDelta(t.thinkingIndex, "thinking_delta", item)))

\* Bug for mutation: the event is taken to follow a delta.
ReasoningTextDone_unguarded == Receiving /\ Return(closeThinkingBlock(bridge))

ReasoningTextDone ==
    /\ Receiving
    /\ Return(IF thinkingStarted(bridge) THEN closeThinkingBlock(bridge) ELSE bridge)

ContentPartDone(item, out, part, citations) ==
    LET key == contentKey(item, out, part)
    IN  /\ Receiving
        /\ Return(IF item \in bridge.ignoredMessageItemID \/ bridge.textIndexByKey[key] = Absent
                  THEN bridge
                  ELSE closeContentBlock(emitCitationsDelta(bridge, key, citations),
                                         bridge.textIndexByKey[key]))

\* Unlike OutputTextDelta this handler never looks at ignoredMessageItemID.
RefusalDelta(item, out, part) ==
    LET key == contentKey(item, out, part)
    IN  /\ Receiving
        /\ Return(textDelta(ensureTextBlock(ensureMessageStart(bridge), key, "refusal"), key))

RefusalDone(item, out, part) ==
    LET i == bridge.textIndexByKey[contentKey(item, out, part)]
    IN  /\ Receiving
        /\ Return(IF i = Absent THEN bridge ELSE closeContentBlock(bridge, i))

WebSearchCompleted == Receiving /\ Return(ensureMessageStart(bridge))

\* response.completed, incomplete, cancelled and failed.
ResponseEnded(status, reason) ==
    LET b == ensureMessageStart(bridge)
    IN  /\ Receiving
        /\ \E order \in Ascending(OpenTextBlocks(b)) :
              Return(finishMessage(flushOpenTextBlocks(b, order),
                                   deriveStopReason(status, reason, b.toolUsed)))

Next ==
    \/ EventIgnored
    \/ EventFatal
    \/ ResponseCreated
    \/ PassiveItemAdded
    \/ UnsupportedItemAdded
    \/ ReasoningTextDone
    \/ ReasoningItemDoneFails
    \/ WebSearchCompleted
    \/ \E item \in ItemIds :
          \/ CommentaryItemAdded(item)
          \/ WebSearchItemAdded(item)
          \/ WebSearchItemDone(item)
          \/ MessageItemDoneFails(item)
          \/ ReasoningDelta(item)
          \/ \E n \in 0 .. MaxBlocks : MessageItemDone(item, n)
          \/ \E n \in 0 .. 1 : ReasoningItemDone(item, n)
          \/ \E n \in 0 .. 1 : ToolItemDone(item, n)
          \/ \E kind \in DirectTools \cup ConvertedTools : ToolItemDoneFails(item, kind)
          \/ \E kind \in {"tool_search_output", "computer_call_output"}, n \in 0 .. 1 :
                StandaloneItemDone(item, kind, n)
          \/ \E kind \in {"image_generation_call", "unrecognized"} :
                StandaloneItemDone(item, kind, 1)
          \/ \E isEmpty \in BOOLEAN : CompactionItemDone(item, isEmpty)
    \/ \E kind \in Standalone : StandaloneItemDoneFails(kind)
    \/ \E item \in ItemIds, out \in Outputs :
          \/ ToolItemAdded(item, out)
          \/ ToolArgumentsDelta(item, out)
          \/ ToolArgumentsDone(item, out)
    \/ \E item \in ItemIds, out \in Outputs, part \in Parts :
          \/ \E isText \in BOOLEAN : ContentPartAdded(item, out, part, isText)
          \/ OutputTextDelta(item, out, part)
          \/ \E n \in 0 .. MaxCitations : ContentPartDone(item, out, part, n)
          \/ RefusalDelta(item, out, part)
          \/ RefusalDone(item, out, part)
    \/ \E status \in {"completed", "incomplete", "failed", "cancelled"},
          reason \in {"none", "max_output_tokens", "content_filter"} :
          ResponseEnded(status, reason)
    \/ ReaderClosed
    \/ Cancel
    \/ Deliver
    \/ WriteFails

Spec == Init /\ [][Next]_vars

-----------------------------------------------------------------------------
(* Properties that hold for an arbitrary upstream                           *)

\* Every value the bridge keeps has its type: in particular every index it
\* maps an item or a part to is a number or Absent.
TypeOK ==
    /\ bridge \in Bridge
    /\ delivered \in 0 .. Len(bridge.out)
    /\ phase \in {"reading", "drained", "failed", "canceled", "broken"}
    /\ handled \in Nat

\* What the client has read.
ClientStream == SubSeq(bridge.out, 1, delivered)

Ledger == INSTANCE BlockLedger WITH stream <- ClientStream

\* The frames the client reads form a ledger of content blocks: indices
\* without gap or repetition, each block closed at most once after it opened,
\* nothing after an error.  No event order breaks it (nextIndex, closedIndex).
BlocksAreALedger == Ledger!Spec

\* A stop_reason of tool_use is only sent when a tool_use block was streamed,
\* in whatever way the block came about (toolUsed is set in five places).
ToolUseStopHasToolBlock ==
    \A k \in DOMAIN bridge.out :
        bridge.out[k].type = "message_delta" /\ bridge.out[k].what = "tool_use" =>
            \E j \in 1 .. (k - 1) :
                bridge.out[j].type = "content_block_start" /\ bridge.out[j].what = "tool_use"

\* The web search count reported in usage is the number of server_tool_use
\* blocks streamed, and each has its result block right behind it.
WebSearchesCounted ==
    LET Of(what) == {k \in DOMAIN bridge.out : /\ bridge.out[k].type = "content_block_start"
                                               /\ bridge.out[k].what = what}
        Searches == Of("server_tool_use")
    IN  /\ Cardinality(Searches) = bridge.serverToolUseCount
        /\ \A k \in Searches :
              \E r \in Of("web_search_tool_result") :
                 /\ bridge.out[r].index = bridge.out[k].index + 1
                 /\ bridge.out[r].item  = bridge.out[k].item
=============================================================================
