--------------------------- MODULE BridgedStream ---------------------------
(***************************************************************************)
(* StreamBridge fed by a response that follows the OpenAI Responses        *)
(* streaming protocol: response.created, then the events of every output   *)
(* item in that item's order, the items announced in output order and      *)
(* otherwise interleaved, and one terminal event, unless the response      *)
(* fails with an error event or the connection is lost.                    *)
(*                                                                         *)
(* The upstream is no code of this repository: the scripts below list the  *)
(* events the handlers of stream.go and its tests name for each item type. *)
(* Every item has an id.  The events that carry the arguments of a call    *)
(* name it, or, for the kind function_call_by_output, only its             *)
(* output_index.                                                           *)
(***************************************************************************)
EXTENDS StreamBridge

CONSTANTS
    Kinds,      \* the kinds of output items the response may have
    MaxReasoning, \* how many of its items may be reasoning
    OutputOf    \* output_index of each item: 0, 1, ... in order

\* An item's id is no output index, and every part the scripts speak of is the
\* first one of its item.
ASSUME UpstreamAssumption ==
    /\ IsFiniteSet(Items) /\ Items \cap Outputs = {}
    /\ 0 \in Parts
    /\ OutputOf \in [Items -> Outputs]
    /\ \A x, y \in Items : OutputOf[x] = OutputOf[y] => x = y
    /\ MaxReasoning \in Nat

VARIABLES
    kind,       \* the kind of each output item of this response
    position,   \* how many of its item's events the upstream has sent
    response    \* "none", "created", or the terminal event that was sent

upstream == <<kind, position, response>>
allVars  == <<vars, upstream>>

\* The calls a client answers, by how the events name them.
CallKinds == DirectTools \cup {"function_call_by_output"}

\* The events the upstream sends for an item of each kind, in order.
Script(k) ==
    CASE k = "message"             -> <<"added", "part.added", "text.delta", "text.delta",
                                        "part.done", "done">>
      [] k = "refusal"             -> <<"added", "part.added", "refusal.delta",
                                        "refusal.done", "part.done", "done">>
      [] k = "commentary"          -> <<"commentary.added", "part.added", "text.delta",
                                        "part.done", "done">>
      [] k = "commentary_refusal"  -> <<"commentary.added", "part.added", "refusal.delta",
                                        "refusal.done", "part.done", "done">>
      [] k = "reasoning"           -> <<"added", "thinking.delta", "thinking.delta",
                                        "thinking.done", "done">>
      [] k = "reasoning_two_parts" -> <<"added", "thinking.delta", "thinking.done",
                                        "thinking.delta", "thinking.done", "done">>
      [] k \in CallKinds \ {"custom_tool_call"} -> <<"added", "arguments.delta",
                                        "arguments.done", "done">>
      [] k = "custom_tool_call"    -> <<"added", "input.delta", "done">>
      [] k = "web_search_call"     -> <<"added", "completed", "done">>
      [] OTHER                     -> <<"added", "done">>

RefusalKinds   == {"refusal", "commentary_refusal"}
ReasoningKinds == {"reasoning", "reasoning_two_parts", "unstreamed_reasoning"}
ToolKinds      == CallKinds \cup ConvertedTools

\* The item_id in the events that carry the arguments of item x, of kind k.
NamedBy(x, k) == IF k = "function_call_by_output" THEN NoItem ELSE x

\* The bridge handles event e of item x.
Handle(x, e) ==
    LET id  == x
        out == OutputOf[x]
        k   == kind[x]
        part == 0
    IN  CASE e = "commentary.added" -> CommentaryItemAdded(id)
          [] e = "added" ->
                CASE k \in ToolKinds         -> ToolItemAdded(id, out)
                  [] k = "web_search_call"   -> WebSearchItemAdded(id)
                  [] k = "unrecognized"      -> UnsupportedItemAdded
                  [] OTHER                   -> PassiveItemAdded
          [] e = "part.added"      -> ContentPartAdded(id, out, part,
                                         k \notin RefusalKinds)
          [] e = "text.delta"      -> OutputTextDelta(id, out, part)
          [] e = "refusal.delta"   -> RefusalDelta(id, out, part)
          [] e = "refusal.done"    -> RefusalDone(id, out, part)
          [] e = "part.done"       -> \E n \in 0 .. (IF k \in RefusalKinds THEN 0 ELSE MaxCitations) :
                                         ContentPartDone(id, out, part, n)
          [] e = "thinking.delta"  -> ReasoningDelta(id)
          [] e = "thinking.done"   -> ReasoningTextDone
          [] e = "arguments.delta" -> ToolArgumentsDelta(NamedBy(x, k), out)
          [] e = "arguments.done"  -> ToolArgumentsDone(NamedBy(x, k), out)
          [] e = "input.delta"     -> EventIgnored
          [] e = "completed"       -> WebSearchCompleted
          [] e = "done" ->
                CASE k \in ResultTools       -> \E n \in 0 .. 1 : ToolItemDone(id, n)
                  [] k \in ToolKinds \ ResultTools -> ToolItemDone(id, 0)
                  [] k = "web_search_call"   -> WebSearchItemDone(id)
                  [] k = "compaction"        -> CompactionItemDone(id, FALSE)
                  [] k \in ReasoningKinds    -> ReasoningItemDone(id, 1)
                  [] k \in {"commentary", "commentary_refusal"} -> MessageItemDone(id, 0)
                  [] k \in Standalone        -> StandaloneItemDone(id, k, 1)
                  [] OTHER                   -> MessageItemDone(id, 1)

Announced(x) == position[x] > 0
Complete(x)  == position[x] = Len(Script(kind[x]))

UpstreamCreates ==
    /\ response = "none"
    /\ ResponseCreated
    /\ response' = "created"
    /\ UNCHANGED <<kind, position>>

UpstreamItemEvent(x) ==
    /\ response = "created"
    /\ ~ Complete(x)
    /\ \A y \in Items : OutputOf[y] < OutputOf[x] => Announced(y)
    /\ Handle(x, Script(kind[x])[position[x] + 1])
    /\ position' = [position EXCEPT ![x] = @ + 1]
    /\ UNCHANGED <<kind, response>>

UpstreamCompletes ==
    /\ response = "created"
    /\ \A x \in Items : Complete(x)
    /\ ResponseEnded("completed", "none")
    /\ response' = "completed"
    /\ UNCHANGED <<kind, position>>

\* The response stops where it is: the token limit, the content filter, a
\* cancellation, a failure.
UpstreamStops(status, reason) ==
    /\ response = "created"
    /\ ResponseEnded(status, reason)
    /\ response' = status
    /\ UNCHANGED <<kind, position>>

UpstreamFails ==
    /\ response \in {"none", "created"}
    /\ EventFatal
    /\ response' = "error"
    /\ UNCHANGED <<kind, position>>

\* The reader closes the channel after the last event or because the
\* connection is gone.
UpstreamCloses ==
    /\ ReaderClosed
    /\ response' = IF response \in {"none", "created"} THEN "lost" ELSE response
    /\ UNCHANGED <<kind, position>>

Client == (Deliver \/ WriteFails \/ Cancel) /\ UNCHANGED upstream

StreamInit ==
    /\ Init
    /\ kind \in {f \in [Items -> Kinds] :
                   Cardinality({x \in Items : f[x] \in ReasoningKinds}) <= MaxReasoning}
    /\ position = [x \in Items |-> 0]
    /\ response = "none"

StreamNext ==
    \/ UpstreamCreates
    \/ \E x \in Items : UpstreamItemEvent(x)
    \/ UpstreamCompletes
    \/ UpstreamStops("incomplete", "max_output_tokens")
    \/ UpstreamStops("incomplete", "content_filter")
    \/ UpstreamStops("cancelled", "none")
    \/ UpstreamStops("failed", "none")
    \/ UpstreamFails
    \/ UpstreamCloses
    \/ Client

StreamSpec == StreamInit /\ [][StreamNext]_allVars

\* The bridge's goroutine keeps running: it writes what it handed over, and it
\* takes the next event while the upstream still sends some.  That its writes
\* return is assumed of the client, which keeps reading or goes away: the server
\* has no WriteTimeout (cmd/claude-bridge/main.go:57); StreamPipeline lets the
\* client stop reading.
Progress ==
    \/ UpstreamCreates
    \/ \E x \in Items : UpstreamItemEvent(x)
    \/ UpstreamCompletes
    \/ UpstreamCloses /\ response \notin {"none", "created"}

FairStreamSpec ==
    /\ StreamSpec
    /\ WF_allVars(Deliver /\ UNCHANGED upstream)
    /\ WF_allVars(Progress)

-----------------------------------------------------------------------------
(* Properties                                                               *)

Sent(type) == {k \in DOMAIN bridge.out : bridge.out[k].type = type}

Protocol == INSTANCE AnthropicStream WITH stream <- ClientStream

\* The client reads a stream that follows the Anthropic protocol.
ClientSeesTheProtocol == Protocol!Protocol

\* What the handler of an event of item x knows it by: its id, or, where the
\* event names none, its output_index.
Of(x) == {x, OutputOf[x]}

\* What the client gets of an item goes to a block that was started for that
\* item, however the items interleave: also where the events that carry a
\* call's arguments name only its output_index, so that toolIndexByItemID finds
\* no block and toolIndexByOutput has to.
DeltasReachTheirBlock ==
    \A d \in {k \in Sent("content_block_delta") : bridge.out[k].what # "signature_delta"} :
        \E x \in Items : \E s \in Sent("content_block_start") :
            /\ s < d
            /\ bridge.out[s].index = bridge.out[d].index
            /\ bridge.out[s].item \in Of(x) /\ bridge.out[d].item \in Of(x)

\* Nothing of a commentary message reaches the client
\* (TestBridgeOpenAIStreamSkipsCommentaryMessagePhases).
CommentarySuppressed ==
    \A k \in DOMAIN bridge.out : \A x \in Items :
        kind[x] \in {"commentary", "commentary_refusal"} => bridge.out[k].item # x

\* The blocks that show an item of each kind to the client.
MainBlocks(k) ==
    CASE k \in {"message", "unstreamed_message", "refusal"} -> {"text", "refusal"}
      [] k \in ReasoningKinds                              -> {"thinking"}
      [] k \in ToolKinds                                   -> {"tool_use"}
      [] k = "web_search_call"                             -> {"server_tool_use"}
      [] OTHER                                             -> {k}

\* An item that is complete was shown to the client exactly once: streamed, or
\* sent whole when it was done, never both and never neither
\* (README: a message that is done is not repeated, no item is dropped).
EveryItemShownOnce ==
    \A x \in Items :
        Complete(x) /\ kind[x] \notin {"commentary", "commentary_refusal"}
        => Cardinality({k \in Sent("content_block_start") :
              /\ bridge.out[k].what \in MainBlocks(kind[x])
              /\ bridge.out[k].item \in Of(x)}) = 1

\* The blocks the client has when it reads message_stop are those of the items
\* that were complete, and all of them are closed; only a tool call that was
\* cut off is still open.
FinishedItemsAreClosed ==
    Sent("message_stop") # {} =>
        \A s \in Sent("content_block_start") : \A x \in Items :
            bridge.out[s].item = x /\ (Complete(x) \/ bridge.out[s].what # "tool_use") =>
                \E c \in Sent("content_block_stop") : bridge.out[c].index = bridge.out[s].index

\* A response that ran to its end is reported as ended by tool use exactly
\* when a tool was called.
StopReasonReportsToolUse ==
    \A k \in Sent("message_delta") :
        response = "completed" =>
            (bridge.out[k].what = "tool_use" <=> \E x \in Items : kind[x] \in ToolKinds)

\* The input of a tool call that is complete reached the client: its block was
\* opened empty when the item was announced, so the input can only come as an
\* input_json_delta (README, fields of a tool call that are preserved).
ToolInputDelivered ==
    \A x \in Items :
        kind[x] \in CallKinds /\ Complete(x) =>
            \E d \in Sent("content_block_delta") :
                /\ bridge.out[d].what = "input_json_delta"
                /\ bridge.out[d].item \in Of(x)

\* Reasoning text that is complete is followed by the signature and the stop of
\* its block (README, reasoning_text.done and reasoning_summary_text.done).
ReasoningIsSealed ==
    \A d \in Sent("content_block_delta") : \A x \in Items :
        /\ bridge.out[d].what = "thinking_delta"
        /\ bridge.out[d].item = x
        /\ Complete(x)
        => \E s \in Sent("content_block_delta"), c \in Sent("content_block_stop") :
              /\ d < s /\ s < c
              /\ bridge.out[s].what = "signature_delta"
              /\ bridge.out[s].index = bridge.out[d].index
              /\ bridge.out[c].index = bridge.out[d].index

\* A response whose events keep coming ends for a client that keeps reading with
\* message_stop, or with an error event if the upstream sent one, unless the
\* client goes away or the connection to the upstream is lost.  A lost connection
\* is the one end the client is told nothing of.
EveryResponseEnds ==
    response = "created" ~>
        \/ phase \in {"broken", "canceled"}
        \/ response = "lost"
        \/ /\ 0 < delivered /\ delivered = Len(bridge.out)
           /\ bridge.out[delivered].type = IF response = "error" THEN "error"
                                           ELSE "message_stop"
=============================================================================
