-------------------------- MODULE AnthropicStream --------------------------
(***************************************************************************)
(* The Anthropic Messages streaming protocol a client expects the bridge   *)
(* to speak when the upstream response follows the Responses protocol      *)
(* (README, table of SSE events): message_start first, deltas only inside  *)
(* their own open block and of a kind that fits it, a signature as the     *)
(* last delta of a streamed thinking block, one message_delta followed by  *)
(* message_stop, and no block but an interrupted tool call left open then. *)
(***************************************************************************)
EXTENDS BlockLedger

\* The deltas a block of each kind takes.
Deltas(kind) ==
    CASE kind \in {"text", "refusal"}               -> {"text_delta", "citations_delta"}
      [] kind \in {"tool_use", "server_tool_use"}   -> {"input_json_delta"}
      [] kind = "thinking"                          -> {"thinking_delta", "signature_delta"}
      [] OTHER                                      -> {}

KindOf(s, i) ==
    s[CHOOSE k \in DOMAIN s : s[k].type = "content_block_start" /\ s[k].index = i].what

DeltasOf(s, i) ==
    {s[k].what : k \in {j \in DOMAIN s : /\ s[j].type = "content_block_delta"
                                         /\ s[j].index = i}}

Signed(s, i) == "signature_delta" \in DeltasOf(s, i)

OpenBlocks(s) == Opened(s) \ Closed(s)

\* message_stop follows message_delta at once; nothing follows message_stop.
InOrder(s, f) ==
    IF s = << >> THEN f.type \in {"message_start", "error"}
    ELSE CASE s[Len(s)].type = "message_delta" -> f.type = "message_stop"
           [] s[Len(s)].type = "message_stop"  -> FALSE
           [] OTHER                            -> f.type # "message_stop"

FollowsProtocol(s, f) ==
    /\ Admissible(s, f)
    /\ InOrder(s, f)
    /\ f.type = "content_block_delta" =>
          /\ f.index \in OpenBlocks(s)
          /\ f.what \in Deltas(KindOf(s, f.index))
          /\ ~ Signed(s, f.index)
    /\ f.type = "content_block_stop" /\ KindOf(s, f.index) = "thinking" =>
          DeltasOf(s, f.index) = {} \/ Signed(s, f.index)
    /\ f.type = "message_delta" =>
          \A i \in OpenBlocks(s) : KindOf(s, i) = "tool_use" /\ f.what # "tool_use"

\* A client reads one more frame of a stream that follows the protocol.
Read ==
    \E k \in DOMAIN stream' :
        /\ stream' = Append(stream, stream'[k])
        /\ FollowsProtocol(stream, stream'[k])

Protocol == Init /\ [][Read]_stream
=============================================================================
