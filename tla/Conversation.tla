---------------------------- MODULE Conversation ----------------------------
(***************************************************************************)
(* A conversation through the bridge, turn by turn.  The client sends the  *)
(* whole history with every request; the bridge keeps nothing between      *)
(* requests and makes the upstream's input from that history alone         *)
(* (MessageInput).  The upstream answers with output items, the bridge     *)
(* turns them into blocks (ResponseMessage), whole or as a stream, and the *)
(* client puts those blocks, or what it kept of them, into its history.    *)
(*                                                                         *)
(* So what matters of a call is carried by the client: its kind in         *)
(* responses_type, the item itself in responses_item.  A client may keep   *)
(* both, only the documented field, or neither.                            *)
(***************************************************************************)
EXTENDS MessageInput, FiniteSets, SequencesExt

Message == INSTANCE ResponseMessage WITH Strict <- strict

CONSTANTS Deeds,       \* what the upstream does in a response: sequences of output items
          Prior,       \* histories from before the bridge: sequences of messages
          Extras,      \* what the user adds to a message: sequences of blocks
          MaxDeeds     \* bound on the deeds of a conversation

\* The output items considered: those a converter can read, with a type.  A deed
\* gives them their id.
OutputItem == [type : Message!Types \ {"blank"}, commentary : BOOLEAN, parts : Seq(Message!MessageParts),
               body : {"some"}, result : {"none", "some"}, id : Nat]

\* What every Messages request keeps to: a call and a result name the call, and an
\* image has a source.  messageToInputItems refuses anything else in either mode.
Acceptable(block) ==
    /\ block.type \in {"tool_use", "server_tool_use", "tool_result"} => block.id # 0
    /\ block.type = "tool_use" => block.name # None
    /\ block.type = "image" => block.body # "none"

MessageBlock == {block \in Block : Acceptable(block)}

ChatMessage == [role : {"user", "assistant"}, blocks : Seq(MessageBlock),
                stop : {"tool_use", "end_turn"}, output : Seq(OutputItem), streamed : BOOLEAN]

ASSUME ConversationAssumption ==
    /\ MaxDeeds \in Nat
    /\ Deeds \subseteq Seq(OutputItem)
    /\ Prior \subseteq Seq(ChatMessage)
    /\ \A h \in Prior : Len(h) <= MaxDeeds /\ \A m \in DOMAIN h : h[m].output = << >>
    /\ Extras \subseteq Seq(MessageBlock)

\* strict, of MessageInput, is chosen when the bridge starts.
VARIABLES client,    \* what the client keeps of a block: "all", "documented" or "plain"
          history,   \* the messages of the conversation
          turn,      \* whose turn it is: "client", "upstream", or "refused"
          deeds      \* the deeds so far, one for each prior message; deed d is about the id d

vars == <<strict, client, history, turn, deeds>>

\* output is the upstream's output a message was made of, stop its stop reason.
TypeOK ==
    /\ strict \in BOOLEAN
    /\ client \in {"all", "documented", "plain"}
    /\ history \in Seq(ChatMessage)
    /\ turn \in {"client", "upstream", "refused"}
    /\ deeds \in 0..MaxDeeds

Init ==
    /\ strict \in BOOLEAN
    /\ client \in {"all", "documented", "plain"}
    /\ history \in Prior
    /\ turn = "client"
    /\ deeds = Len(history)

-----------------------------------------------------------------------------
\* The upstream's answer, as blocks.

\* What opens a call in a stream has no responses_type if its arguments follow,
\* and no stored item if it was made without a converter.
annotatesKind(type, streamed) == ~ (streamed /\ type \in {"function_call", "custom_tool_call"})

annotatesItem(type, streamed) ==
    ~ (streamed /\ type \in {"function_call", "custom_tool_call", "mcp_call", "web_search_call"})

\* Bug for mutation: the outputs keep the names of the items.
blockType_unmapped(shape) ==
    IF shape = "unrecognized" THEN "responses_output_item" ELSE shape

blockType(shape) ==
    CASE shape = "tool_search_output"   -> "tool_search_tool_result"
      [] shape = "computer_call_output" -> "tool_result"
      [] shape = "unrecognized"         -> "responses_output_item"
      [] OTHER                          -> shape

\* Bug for mutation: special calls, whose items have no name, get none.
blockName_noFallback(type) ==
    CASE type = "local_shell_call" -> "Bash"
      [] type = "tool_search_call" -> "ToolSearch"
      [] type = "web_search_call"  -> "web_search"
      [] type = "file_search_call" -> None
      [] OTHER                     -> "other"

blockName(type) ==
    CASE type = "local_shell_call" -> "Bash"
      [] type = "tool_search_call" -> "ToolSearch"
      [] type = "web_search_call"  -> "web_search"
      [] OTHER                     -> "other"

\* The parts of a message that become text, one block each.  A stream has "text"
\* too (stream.go:231), and of commentary the refusals (stream.go:495).
shownParts(commentary, streamed) ==
    CASE   commentary /\   streamed -> {"refusal"}
      []   commentary /\ ~ streamed -> {}
      [] ~ commentary /\   streamed -> {"output_text", "refusal", "text"}
      [] ~ commentary /\ ~ streamed -> {"output_text", "refusal"}

partsShown(item, streamed) ==
    FlattenSeq([k \in DOMAIN item.parts |->
        IF item.parts[k] \in shownParts(item.commentary, streamed)
        THEN <<item.parts[k]>> ELSE << >>])

shapesOf(item, streamed) ==
    IF item.type = "message" THEN [k \in DOMAIN partsShown(item, streamed) |-> "text"]
    ELSE Message!convert(item).blocks

\* A streamed message of which something was shown is not converted.
refused(item, streamed) ==
    /\ ~ Message!convert(item).ok
    /\ streamed /\ item.type = "message" => partsShown(item, streamed) = << >>

blockKind(item, type, k, streamed) ==
    CASE type = "text" ->
            IF partsShown(item, streamed)[k] = "refusal" THEN "refusal" ELSE None
      [] type = "tool_use" -> IF annotatesKind(item.type, streamed) THEN item.type ELSE None
      [] type = "responses_output_item" -> item.type
      [] OTHER -> None

\* openAICompactionToBlock gives the block no id.
blockId(item, type) == IF type \in {"text", "thinking", "compaction"} THEN 0 ELSE item.id

\* attachStoredResponseItem.
storedItem(item, type, streamed) ==
    IF /\ type \in {"tool_use", "server_tool_use", "tool_result", "tool_search_tool_result"}
       /\ annotatesItem(item.type, streamed) \/ type = "tool_result"
    THEN item.type ELSE None

blocksOf(item, streamed) ==
    LET shapes == shapesOf(item, streamed)
    IN  [k \in DOMAIN shapes |->
            LET type == blockType(shapes[k])
            IN  [type |-> type, id |-> blockId(item, type), name |-> blockName(item.type),
                 kind |-> blockKind(item, type, k, streamed), body |-> "some",
                 commentary |-> FALSE, stored |-> storedItem(item, type, streamed)]]

\* Thinking comes first in a whole response.
contentOf(output, streamed) ==
    LET of(types) == FlattenSeq([k \in DOMAIN output |->
                        IF output[k].type \in types THEN blocksOf(output[k], streamed) ELSE << >>])
        all == {output[k].type : k \in DOMAIN output}
    IN  IF streamed THEN of(all) ELSE of({"reasoning"}) \o of(all \ {"reasoning"})

\* Bug for mutation: what is used is forgotten with the next item.
stopReason_lastItem(output, streamed) ==
    IF Message!toolUsed(<<Last(output)>>) THEN "tool_use" ELSE "end_turn"

\* mcp_list_tools is a use of a tool only in a stream.
stopReason(output, streamed) ==
    IF \/ Message!toolUsed(output)
       \/ streamed /\ \E k \in DOMAIN output : output[k].type = "mcp_list_tools"
    THEN "tool_use" ELSE "end_turn"

\* What the client keeps of a block.
kept(block) ==
    CASE client = "all"        -> block
      [] client = "documented" -> [block EXCEPT !.stored = None]
      [] client = "plain"      -> [block EXCEPT !.stored = None, !.kind = None]

-----------------------------------------------------------------------------
\* The client.

UserMessage(blocks) == [role |-> "user", blocks |-> blocks, stop |-> "end_turn",
                        output |-> << >>, streamed |-> FALSE]

\* The blocks of these types in the last message are about these calls.
CallsOf(types) ==
    LET blocks == Last(history).blocks
    IN  {blocks[k].id : k \in {j \in DOMAIN blocks : blocks[j].type \in types}}

\* The calls of the last message that wait for the client: those without a result.
Pending ==
    IF history = << >> \/ Last(history).stop # "tool_use" THEN {}
    ELSE CallsOf({"tool_use"}) \ CallsOf({"tool_result", "tool_search_tool_result"})

Result(call, body) ==
    [type |-> "tool_result", id |-> call, name |-> None, kind |-> None, body |-> body,
     commentary |-> FALSE, stored |-> None]

\* The user's next message: the results the model waits for, in any order, then
\* what the user adds.
Ask ==
    /\ turn = "client"
    /\ \E calls \in SetToSeqs(Pending), body \in {"some", "string", "malformed"}, more \in Extras :
          /\ Pending # {} \/ (more # << >> /\ body = "some")
          /\ history' = Append(history,
                UserMessage([k \in DOMAIN calls |-> Result(calls[k], body)] \o more))
    /\ turn' = "upstream"
    /\ UNCHANGED <<strict, client, deeds>>

\* The input the bridge makes of the history.
input == inputOf(history)

\* messageToInputItems returned an error: the client gets a 400.
Refuse ==
    /\ turn = "upstream" /\ ~ input.ok
    /\ turn' = "refused"
    /\ UNCHANGED <<strict, client, history, deeds>>

\* The upstream does one or two things; the bridge's answer joins the history.
Answer ==
    /\ turn = "upstream" /\ input.ok
    /\ \E n \in 1..2, streamed \in BOOLEAN :
          /\ deeds + n <= MaxDeeds
          /\ \E done \in [1..n -> Deeds] :
                LET output == FlattenSeq([d \in 1..n |->
                                 [k \in DOMAIN done[d] |-> [done[d][k] EXCEPT !.id = deeds + d]]])
                    blocks == contentOf(output, streamed)
                IN  /\ \A k \in DOMAIN output : ~ refused(output[k], streamed)
                    /\ history' = Append(history,
                         [role |-> "assistant", blocks |-> [k \in DOMAIN blocks |-> kept(blocks[k])],
                          stop |-> stopReason(output, streamed), output |-> output,
                          streamed |-> streamed])
          /\ deeds' = deeds + n
    /\ turn' = "client"
    /\ UNCHANGED <<strict, client>>

Next == Ask \/ Refuse \/ Answer

Spec == Init /\ [][Next]_vars

-----------------------------------------------------------------------------
(* Properties: of the input made of a history that ends with the client's     *)
(* message.                                                                   *)

Asked == turn = "upstream"

CallBlocks   == {"tool_use", "server_tool_use"}
ResultBlocks == {"tool_result", "tool_search_tool_result"}

SomeBlock(P(_)) == \E m \in DOMAIN history : \E b \in DOMAIN history[m].blocks : P(history[m].blocks[b])

\* A result whose array does not decode is an error in either mode
\* (toolResultToOutput, toolResultToToolSearchTools).
Undecodable(block) ==
    block.type \in ResultBlocks /\ block.body = "malformed"

\* Blocks of before the bridge that strict mode may refuse, and results that are
\* not what it supports: for a tool search it wants an array.
Unreadable(block) ==
    \/ block.type = "unsupported" \/ block.stored = "malformed"
    \/ block.type \in CallBlocks \cup ResultBlocks /\ block.body \notin Decoded
    \/ block.type \in {"image", "document"} /\ block.body # "some"
    \/ block.type = "compaction" /\ block.body \notin {"some", "string", "blank"}
    \/ block.type = "responses_output_item" /\ block.body \notin {"some", "blank"}
    \/ block.type = "server_tool_use" /\ block.name # "web_search"
    \/ block.type = "image_generation_call" /\ block.id = 0

\* The bridge accepts every history that consists of its own blocks, whatever
\* the client kept of them, and of results that can be read for the calls in them:
\* a conversation never gets stuck on what the bridge itself sent.  In best-effort
\* mode it accepts any Acceptable one but for results that do not decode, which
\* both modes refuse (messageToInputItems; request.go:594, 902).
OwnHistoryAccepted ==
    Asked => \/ input.ok
             \/ SomeBlock(Undecodable)
             \/ strict /\ SomeBlock(Unreadable)

\* Where the item or the items of a block may come from.
KeptBlock(role, block) ==
    CASE block.type \in {"thinking", "signature", "web_search_tool_result", "unsupported"} -> FALSE
      [] block.type = "text"       -> ~ (role = "assistant" /\ block.commentary)
      [] block.type = "image"      -> block.body = "some"
      [] block.type = "compaction" -> block.body \in {"some", "string"}
      [] block.type = "responses_output_item" ->
            block.body = "some" \/ (block.body = "blank" /\ block.kind # None)
      [] block.type = "image_generation_call" -> block.id # 0
      [] OTHER                     -> TRUE

KeptPositions ==
    {at \in UNION {{<<m, b>> : b \in DOMAIN history[m].blocks} : m \in DOMAIN history} :
        KeptBlock(history[at[1]].role, history[at[1]].blocks[at[2]])}

\* One position of the history, or of the input, is before another.
Precedes(p, q) == p[1] < q[1] \/ (p[1] = q[1] /\ p[2] < q[2])

\* The positions in the input, and the positions in the history they come from.
Places(items)    == UNION {{<<i, j>> : j \in DOMAIN items[i].from} : i \in DOMAIN items}
Source(items, p) == items[p[1]].from[p[2]]
Sources(items)   == {Source(items, p) : p \in Places(items)}

\* What is later in the input comes from later in the history, and no item from
\* two messages.
InOrder(items) ==
    \A p, q \in Places(items) :
        /\ Precedes(p, q) => Precedes(Source(items, p), Source(items, q))
        /\ p[1] = q[1] => Source(items, p)[1] = Source(items, q)[1]

\* No block that has a meaning for the upstream is lost, sent twice or sent out of
\* order: text is gathered into one message while it lasts, and never across a
\* call, a result or the end of a message (flush).
KeptInOrder == Asked /\ input.ok => Sources(input.items) = KeptPositions /\ InOrder(input.items)

\* An item without a type is refused upstream.  A server tool that the bridge
\* does not know is sent as one (request.go:419).
ItemsHaveTypes ==
    Asked /\ input.ok =>
        \A i \in DOMAIN input.items : input.items[i].type = None =>
            LET at == input.items[i].from[1]
            IN  history[at[1]].blocks[at[2]].type = "server_tool_use"

CallTypes == {"function_call", "custom_tool_call", "local_shell_call", "tool_search_call",
              "computer_call", "file_search_call", "mcp_call", "mcp_list_tools"}

OutputType(type) ==
    CASE type = "tool_search_call" -> "tool_search_output"
      [] type = "custom_tool_call" -> "custom_tool_call_output"
      [] type = "computer_call"    -> "computer_call_output"
      [] OTHER                     -> "function_call_output"

OutputTypes == {OutputType(type) : type \in CallTypes}

\* mcp_list_tools becomes a call, but a whole response does not say that a tool is
\* used, so nobody answers it (response.go:104).
ListedTools(call) ==
    LET msg == history[call.from[1][1]]
    IN  msg.stop # "tool_use" /\ msg.blocks[call.from[1][2]].name = "other"
        /\ \E k \in DOMAIN msg.output : msg.output[k].type = "mcp_list_tools" /\ msg.output[k].id = call.id

\* The result of a tool search the upstream ran stays one when the client dropped
\* the item, but the call does not (request.go:994).
SplitSearch(call) == client # "all" /\ history[call.from[1][1]].blocks[call.from[1][2]].name = "ToolSearch"

\* Every call in the input has exactly one output, after the call and of the type
\* that belongs to it, and every output has its call: the upstream refuses an
\* input of which this is not true.  The kind of a call is known when its result
\* is converted, however late the client sends it (callKinds).
CallsAnswered ==
    Asked /\ input.ok =>
        LET items   == input.items
            Calls   == {i \in DOMAIN items : items[i].type \in CallTypes}
            Outputs == {i \in DOMAIN items : items[i].type \in OutputTypes}
        IN  /\ \A c \in Calls :
                  \/ ListedTools(items[c]) \/ SplitSearch(items[c])
                  \/ \E o \in Outputs :
                        /\ o > c /\ items[o].type = OutputType(items[c].type)
                        /\ {p \in Outputs : items[p].id = items[c].id} = {o}
            /\ \A o \in Outputs : \E c \in Calls : c < o /\ items[c].id = items[o].id

\* What an item of the upstream is when it comes back: reasoning and commentary
\* do not, calls the upstream cannot take back are function calls, a message has
\* only the parts that were shown (compact.go:126 keeps "text", response.go:224
\* does not), and a compaction has lost its id (response.go:1090, request.go:1415).
Restored(item) ==
    CASE item.type = "reasoning" \/ (item.type = "message" /\ item.commentary) -> << >>
      [] item.type \in {"file_search_call", "mcp_call"} ->
            <<[type |-> "function_call", id |-> item.id, content |-> << >>]>>
            \o IF item.result = "none" THEN << >>
               ELSE <<[type |-> "function_call_output", id |-> item.id, content |-> << >>]>>
      [] item.type \in {"computer_call", "mcp_list_tools"} ->
            <<[type |-> "function_call", id |-> item.id, content |-> << >>]>>
      [] item.type = "computer_call_output" ->
            <<[type |-> "function_call_output", id |-> item.id, content |-> << >>]>>
      [] item.type = "message" /\ ~ item.commentary ->
            OutputItemsToInputItems(<<[item EXCEPT !.parts = partsShown(item, FALSE)]>>)
      [] item.type = "compaction" -> OutputItemsToInputItems(<<[item EXCEPT !.id = 0]>>)
      [] OTHER -> OutputItemsToInputItems(<<item>>)

\* What the upstream reads in an item: of a message the parts, of any other what it is.
Flat(item) == IF item.type = "message" THEN item.content ELSE <<[type |-> item.type, id |-> item.id]>>

\* The same for items, so that adjacent messages are as one, and for those made of
\* blocks of message m.
Flattened(items) == FlattenSeq([i \in DOMAIN items |-> Flat(items[i])])

FlattenedOf(m, items) ==
    FlattenSeq([i \in DOMAIN items |-> IF items[i].from[1][1] = m THEN Flat(items[i]) ELSE << >>])

\* A client that keeps whole blocks gives the upstream its own output back, in its
\* order and with its types and ids, as OutputItemsToInputItems would but for what
\* Restored names (attachStoredResponseItem, storedResponseItemToInputItem).
RestoresOutput ==
    Asked /\ input.ok /\ client = "all" =>
        \A m \in DOMAIN history :
            history[m].role = "assistant" /\ history[m].output # << >> /\ ~ history[m].streamed =>
                LET output == history[m].output
                IN  FlattenedOf(m, input.items) =
                    Flattened(FlattenSeq([k \in DOMAIN output |-> Restored(output[k])]))
-----------------------------------------------------------------------------
(* What CallsAnswered takes for granted of the upstream, of the user and of   *)
(* what was before the bridge: each keeps its own calls and results together. *)

CallItems    == Message!PlainCalls \cup Message!ResultCalls \cup {"web_search_call"}

CallOf(type) == IF type = "tool_search_output" THEN "tool_search_call" ELSE "computer_call"

\* A deed makes one call at most, and gives it one output at most, afterwards.
OneCall(deed) ==
    /\ \A j, k \in DOMAIN deed, types \in {CallItems, Message!ToolOutputs} :
          deed[j].type \in types /\ deed[k].type \in types => j = k
    /\ \A k \in DOMAIN deed : deed[k].type \in Message!ToolOutputs =>
          \E j \in 1 .. (k - 1) : deed[j].type = CallOf(deed[k].type)

\* The positions of the blocks of these types, and what is there.
PositionsOf(h, types) ==
    {at \in UNION {{<<m, b>> : b \in DOMAIN h[m].blocks} : m \in DOMAIN h} :
        h[at[1]].blocks[at[2]].type \in types}

BlockIn(h, at) == h[at[1]].blocks[at[2]]
IdIn(h, at)    == BlockIn(h, at).id

\* What is stored with a block belongs to a block of its type.
Belongs(block) ==
    /\ block.type = "tool_use"                => block.stored \notin SafeTypes \ CallTypes
    /\ block.type = "server_tool_use"         => block.stored \notin CallTypes \cup OutputTypes
    /\ block.type = "tool_search_tool_result" => block.stored \notin SafeTypes \ {"tool_search_output"}

\* Of the calls up to number n, none shares its id with another, and a result comes
\* after its call, once.
Paired(h, n) ==
    /\ \A p, q \in PositionsOf(h, CallBlocks)   : IdIn(h, p) = IdIn(h, q) => p = q
    /\ \A p, q \in PositionsOf(h, ResultBlocks) : IdIn(h, p) = IdIn(h, q) => p = q
    /\ \A r \in PositionsOf(h, ResultBlocks) :
          \E u \in PositionsOf(h, {"tool_use"}) : Precedes(u, r) /\ IdIn(h, u) = IdIn(h, r)
    /\ \A at \in PositionsOf(h, CallBlocks \cup ResultBlocks) :
          IdIn(h, at) <= n /\ Belongs(BlockIn(h, at))

\* A result that says it is of a tool search belongs to one.
IsSearch(block) ==
    block.stored = "tool_search_call" \/ (block.stored \notin SafeTypes /\ block.kind = "tool_search")

SearchesAre(h, P(_)) ==
    \A r \in PositionsOf(h, {"tool_search_tool_result"}), u \in PositionsOf(h, {"tool_use"}) :
        IdIn(h, u) = IdIn(h, r) => P(BlockIn(h, u))

\* A call has its result, or needs none (ListedTools), or waits for one.
Answered(h, u) == \E r \in PositionsOf(h, ResultBlocks) : IdIn(h, r) = IdIn(h, u)

Listed(h, u) ==
    /\ h[u[1]].stop # "tool_use" /\ BlockIn(h, u).name = "other"
    /\ \E k \in DOMAIN h[u[1]].output :
          h[u[1]].output[k].type = "mcp_list_tools" /\ h[u[1]].output[k].id = IdIn(h, u)

Waits(h, u) == u[1] = Len(h) /\ h[u[1]].stop = "tool_use"

ASSUME CallAssumption ==
    /\ \A deed \in Deeds : OneCall(deed)
    /\ \A h \in Prior :
          /\ Paired(h, Len(h)) /\ SearchesAre(h, IsSearch)
          /\ \A u \in PositionsOf(h, {"tool_use"}) : Answered(h, u) \/ Waits(h, u)
    /\ \A more \in Extras : \A k \in DOMAIN more : more[k].type \notin CallBlocks \cup ResultBlocks

\* The call of a tool search is one as the upstream knows it, unless the client
\* dropped the item.
SearchFound(block) == IsSearch(block) \/ (client # "all" /\ block.name = "ToolSearch")

\* The history holds every id of a call once and every result once, after its call,
\* and no call is left without a result but those the client is to answer next: an
\* answer with a call for the client says so in its stop reason
\* (TransformOpenAIToAnthropic, deriveStopReason).
CallsTogether ==
    /\ Paired(history, deeds)
    /\ SearchesAre(history, SearchFound)
    /\ \A u \in PositionsOf(history, {"tool_use"}) :
          Answered(history, u) \/ Listed(history, u) \/ (turn = "client" /\ Waits(history, u))
=============================================================================
