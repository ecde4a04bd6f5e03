# Verification of the Claude-to-OpenAI bridge

The bridge is an HTTP server that accepts Anthropic Messages requests, sends
them to an upstream that speaks the OpenAI Responses API, and turns what comes
back, whole or streamed, into Anthropic messages. This directory holds TLA+
models of its stateful parts, TLC runs on small instances, and theorems about
them checked by TLAPS.

Source paths below are relative to `src/internal/` unless they start with `src/`.

## 1. The system

| Component | State it keeps | Operations | What must be right |
| --- | --- | --- | --- |
| Stream bridge (`transform/stream.go`) | `streamState`: next block index, three maps from items, outputs and parts to blocks, closed blocks, suppressed items, thinking block, tool-use flag, search count | one handler per upstream event; `BridgeOpenAIStream` loop | the client sees well-formed blocks; every item once; deltas in the right block; the right stop reason; an end |
| Response conversion (`transform/response.go`) | none | `TransformOpenAIToAnthropic` and one converter per item type, also called by the stream | a whole response and its stream give the same message |
| Request conversion (`transform/request.go`) | none across requests; within one, the text gathered and the kinds of the calls seen | message history, tools, system prompt to input items | nothing lost or reordered; calls and results stay paired; the bridge accepts what it sent itself |
| HTTP server (`server/server.go`) | none across requests but the runtime configuration | `/v1/messages`, `count_tokens`, `/v1/responses/compact`, retries | what is retried, what is dropped, an answer always |
| Auto compaction (`server/auto_compact.go`, `transform/compact.go`) | none | inject `context_management`, or compact remotely before the request | failure leaves the request alone; success replaces the history whole |
| Upstream client (`upstream/client.go`) | address and key, read per attempt | `DoJSON`, `DoStream`, `ListModels` | outcomes reported to the loops above |
| SSE (`sse/sse.go`) | buffer of one event | reader goroutine with two channels; `Writer.Send` | order; the end of the stream is noticed |
| Runtime configuration (`config/runtime.go`) | the record in memory under `sync.RWMutex`, and `runtime_config.json` | `NewRuntimeConfig`, `Get*`, `Update`, load, save | token and password differ; a restart serves what was acknowledged |
| Admin API (`admin/handler.go`) | none | `updateConfig` and read-only handlers, login page | a PUT changes what it names |
| Static configuration, logging, `main`, key-value store, tokenizer, scripts | environment, nothing else (the store is opened and closed, never used) | start-up | - |

How they interact: `handleMessages` decodes and converts the request, calls
`prepareAutoCompact` (which may itself call the upstream), applies the cache policy,
and enters `handleNonStream` or `handleStream`. The latter starts the reader
goroutine of `sse.Read` and runs `BridgeOpenAIStream` on its channel in the
request's own goroutine; `Writer.Send` is synchronous. The bridge keeps no
conversation: the client sends the history with every request, and what the upstream
must get back of a call (its kind, the item itself) travels in the blocks the client
was given (`responses_type`, `responses_item`). The admin API replaces the runtime
configuration while requests are running; each of them reads it several times.

What is hard: the upstream interleaves the events of several items and each handler
finds its block through maps that other handlers fill; the same decisions are
written twice, for streams and for whole responses; one turn's answer is the next
turn's input, through a client that may keep only part of it; reader and bridge
share two channels, and each of them may be done before the other; three retry loops
share a bound of three with two removable fields; read and write of the
configuration are separate critical sections, and the file is truncated before it is
written. The full list of hazards with their lines is in `PROJECT.json`.

## 2. Modules

```
BlockLedger <- AnthropicStream        what a client may rely on (abstract)
     ^               ^
StreamBridge --- BridgedStream --- MCBridgedStream
     |   |        \---- BridgedStreamFrames --- BridgedStreamProof
     |   \---- StreamAgreement --- MCStreamAgreement     (uses ResponseMessage)
     |                \---- StreamAgreementProof
     \---- StreamBridgeProof     (used by BridgedStreamProof and StreamAgreementProof)
EventFeed <- StreamPipeline --- StreamPipelineProof    what sse.Read promises; reader and handler
MessageInput --- Conversation --- MCConversation       (uses ResponseMessage)
                      \---- ConversationProof
RuntimeConfig --- MCRuntimeConfig        RuntimeConfig --- RuntimeConfigProof
MessagesRequest --- MessagesRequestProof
```

**StreamBridge** is `stream.go`. The record `bridge` has the fields of
`streamState` under their names plus `out`, the frames handed to the writer. The
helpers of the source (`openBlock`, `closeContentBlock`, `startThinkingBlock`,
...) are operators from record to record, each handler branch of
`handleOpenAIEvent` is an action, and `Deliver` writes one frame: a handler's
frames are all written before the next event is taken. `phase` is how the loop
stands: reading, drained (channel closed), failed (a handler returned an error),
canceled, broken (a write failed). The upstream is arbitrary here: any event, any
ids, any outcome of a conversion, in either mode. Go's random map iteration in
`flushOpenTextBlocks`, which the code sorts, is kept as `Ascending`.

**BridgedStream** adds the upstream: a response of a few items, each with the
script of events its type has in the Responses protocol, announced in output
order and interleaved freely, then a terminal event, an early stop, an error
event or a lost connection. The protocol is not code of this repository; the
scripts use the events the handlers and tests name. Every item is announced under
its id; the events that carry a call's arguments name it, or, for the kind
`function_call_by_output`, only its `output_index`, so that either of the two tool
maps has to find a block. A frame keeps what its event speaks of (`owner`).

**BlockLedger** is the abstract specification for any upstream: indices 0, 1, 2,
... without gaps, a block closed at most once after it opened, no delta before
the start, nothing after an error. **AnthropicStream** refines what a frame may
follow for an upstream that keeps to the protocol: deltas only in their own open
block and of a kind it takes, a signature last in a streamed thinking block, one
`message_delta` then `message_stop`, nothing left open but an interrupted call.

**ResponseMessage** is `response.go` as functions: the blocks each type of item
becomes, whether it fails, `toolUsed`, the search count. **StreamAgreement** runs
the bridge on a response whose items are each streamed or sent only when done,
and compares the result with ResponseMessage's. `Different` names the cases in
which the two disagree, for all item types, the blank one included, and all sorts
of message parts the two tell apart; without any one of its disjuncts a property
fails in one mode or the other:

- `RefusalOfCommentary`: the refusal of a commentary message is streamed (a finding,
  below);
- `StreamedMessageUnread`: a message of which a part was streamed is not converted
  any more (`stream.go:413`), so it is no error when the whole response is one, in
  strict mode for a part of unknown type or of type `text`;
- `StreamedTextPart`: a part of type `text` opens a text block in a stream
  (`stream.go:231`); a whole response drops it (`response.go:224`);
- `BlankItem`: in best-effort mode an item of blank type is a text block in a whole
  response (`response.go:143`) and nothing in a stream (`stream.go:1067`);
- `ReasoningMerged`: reasoning after an item that was streamed is merged into that
  one's block or lost (`stream.go:407`, `443`);
- `UnreadableReasoning`: in best-effort mode reasoning that cannot be read ends a
  stream, and is skipped in a whole response (`stream.go:1050`);
- `BlockOfBrokenCall`: the block of a malformed call is already open when the call
  fails (`stream.go:134`);
- `StrictDiffers`: in strict mode an unknown item is refused when announced
  (`stream.go:213`), and an empty compaction is no error (`stream.go:924`).

`SameSummary` also excepts `mcp_list_tools`, which counts as tool use only in a
stream.

**StreamPipeline** is what comes before the bridge: the goroutine of `sse.Read`
(scan a line, gather, copy the payload, block in the send; at the end the error,
then the deferred closes), the select loop of `BridgeOpenAIStream` with the
request's context, the write of the frames an event becomes, and the end of
`handleStream` (error frame, one poll of the errors, body closed). The client may go
away (`Cancel`) or stop reading and keep its connection (`Stall`): `http.Server` has no
`WriteTimeout` (`src/cmd/claude-bridge/main.go:57`), so a write then returns only
once the connection is gone (`WriteReturns`). The channel of events is unbuffered, so a send and its
receive are one step, `Handoff`. The bridge decodes an event after the reader has
gone on; a payload is therefore an address, and what the bridge sees is what is
there when it looks. **EventFeed** is the abstract specification: the events a body
consists of are defined from its lines alone, and the consumer gets them in order,
all of them if the body ended, every complete one if it was cut off.

**MessageInput** is `messageToInputItems` and its converters as functions: a block
is what the conversion tells apart (type, id, name, `responses_type`, type of the
stored item, and what a converter finds to read: nothing, what it wants, blanks, a
plain string, what decodes and is not supported, what does not decode), an item remembers the positions of
the blocks it was made of. The loop's state (items, text gathered, `callKinds`) is
a record; the loop over the blocks of a message and the one over the messages are
functions of the position, each value made from the one before. **Conversation** closes the loop:
the upstream answers with output items, ResponseMessage says which blocks they
become, whole or in a stream, the client keeps all of a block, its documented
fields or neither of the bridge's annotations, adds the results it owes and more,
and the next request is made from that. Histories may also begin before the bridge,
with blocks it never sent, and results may be arrays, plain strings or arrays that do
not decode; all blocks are `Acceptable`, that is, they name what
`messageToInputItems` insists on in either mode (a call its id and name, a result its
call, an image its source). The mode is a variable chosen at the start. A client is
assumed to answer exactly the `tool_use` blocks of the last message that have no
result beside them, when the message stopped for tool use, in any order.

**RuntimeConfig** is `runtime.go` with `updateConfig`. A PUT is `Put` (snapshot
under the read lock, merge, checks), `Update` or `UpdateRefuses` (write lock,
record replaced), then `OpenFile` (truncates), `WriteFile` or `SaveFails`. `Crash`
may come anywhere, `Start` is `NewRuntimeConfig`. Of the record it keeps the three
secrets and the model mappings; the other fields take the same path.

**MessagesRequest** is one request after another through the handlers that call
the upstream. A request is the set of its prompt cache fields and what compaction
changes of it. The configuration may change at any time, so each read of it is a
choice at the place of the read. An upstream answer is a success, a body that
cannot be decoded, an error that names cache fields, an opaque 502, another
error, or a connection lost before or after the upstream took the request. Two
facts of the code cut the model: `mapContextManagement` always gives a threshold,
so the branches of `applyContextManagementAutoCompact` for a compaction without
one are not reachable from a request; `net/http` always gives a `Flusher`. A field
with a blank value counts as absent, as the code's `TrimSpace` has it.

## 3. Runs

| Run | Instance | Distinct states | What it shows |
| --- | --- | --- | --- |
| `StreamBridge_any` | 1 item, 1 output, 1 part, 3 events | 338,778 | with any upstream: types, refinement of BlockLedger, a tool-use stop has a tool block, searches counted |
| `BridgedStream` | responses of 2 items of 15 kinds, best-effort | 513,704 | refinement of AnthropicStream, deltas in their block, every item shown once, finished items closed, stop reason, tool input, sealed reasoning, an end |
| `BridgedStream_reasoning`, `_commentary`, `_customtool` | 1 item | - | three findings |
| `StreamAgreement` | all 1- and 2-item responses of every type, each item streamed or not, best-effort | 120,759 | stream and whole response agree outside `Different` |
| `RuntimeConfig` | 2 PUTs at a time, 3 in all, 10 bodies, crashes, failing saves | 145,562 | secrets differ, a restart serves what was acknowledged, every PUT returns |
| `RuntimeConfig_overlap` | the same | - | a finding |
| `MessagesRequest` | all endpoints, requests, policies and answers, 3 attempts | 21,200 | see below |
| `MessagesRequest_off` | the same | - | a finding |
| `StreamPipeline` | bodies of up to 4 lines, 2 names (one of them blank), 2 texts, every end, a client that stops reading | 403,468 | refinement of EventFeed, read errors noticed, handler and reader end unless held by the client |
| `Conversation` | 2 deeds of the upstream, 19 types of output items, whole or streamed, 3 kinds of clients, results that do not decode, both modes | 429,833 | own history accepted, nothing lost or reordered, items have types, calls and results of every history fit each other, every call of an input has its output, whole blocks restore the upstream's output |

Bounds and why they are enough. The only unbounded quantities are events, items,
parts and PUTs. `MaxEvents` is 3 in `StreamBridge_any`: one event to open a block,
one to disturb it, one to close it or end the response (a search needs announcing,
finishing and finishing again). The same run with four events, 11.4 million states,
ends without an error too; all four of its properties are proved for any number. In
BridgedStream and StreamAgreement `MaxEvents` is 20, more than any two scripts need,
so it never cuts a response; two items are enough for every interaction there is in
the code, which are all between two entries of one map, or between one item and the
state an earlier one left. The run is in best-effort mode; on these scripts strict
mode differs only in that it ends the response at an unrecognized item.
`MaxReasoning = 1` in the passing runs, because two reasoning items break the code
(a finding). Three PUTs: two that overlap and one that lands between them or after a
crash. `MaxAttempts = 3` is the code's own bound. Four lines are the shortest bodies
in which an event of two lines is followed by the start of another one, with and
without the blank line between them; five lines (2.6 million states) end without an
error too. `MaxDeeds = 2` in Conversation: a call and its result, two calls in one
response, or a deed of one turn and one of the next; a message of before the bridge
counts as a deed. The conversion's only state between blocks is the text gathered
and the kind of each call, so two items show every interaction. No run uses
symmetry.

Deadlock is checked in `StreamAgreement` and `MessagesRequest`. A stream that has
ended or was canceled stops, the event bound stops `StreamBridge_any`,
`RuntimeConfig` stops when the bound on PUTs is reached, `StreamPipeline` when both
goroutines are done or the reader is left behind in a send, and `Conversation` when
the client was refused, has nothing to say or the deeds are spent, so their
configurations turn the check off.

Properties worth naming:

- `DeltasReachTheirBlock`: however items interleave, and both where an event names
  its item and where only its output index finds the block (`toolIndexByOutput`). It
  says nothing of items without an id: calls announced under a blank id share one
  entry of `toolIndexByItemID`, and the arguments of all of them go to the call
  announced last (`stream.go:137`, `293`).
- `EveryItemShownOnce`: however items interleave and whether an item was streamed or
  is sent when done.
- `ReasoningIsSealed`, `ToolInputDelivered`, `CommentarySuppressed`: hold for the
  kinds of item in the passing run and fail for the kinds in the finding runs.
- `StopReasonReportsToolUse`: both directions, for responses that ran to the end.
- `RestartServesAcknowledged`: over crashes and failed saves in between. A crash
  between truncation and write leaves a file no process starts from; the property
  is about starts from a whole file.
- `RejectionIsFinal`: no client of a whole response or a compaction gets an error
  that dropping a cache field would still have avoided, and one of a stream only
  when all attempts were spent (`handleStream` also retries errors that name no
  field, `server.go:336`, and may have nothing left when one does).
- `AcceptedOnce`: `handleNonStream` and `handleResponsesCompact` never resend what
  the upstream may have accepted. `handleStream` does, and is not covered by the
  property.
- `OnlyObjectedFieldsDropped`: each attempt carries the first one's fields less
  those objected to; `CompactionIsWhole`: a compacted history is never sent with
  the id or the context management of the one it replaces, and the token count
  belongs to what is sent.
- `FailureNoticed`: a read error that ended the channel is in the buffer of errors
  when `handleStream` polls it, because the error is put before the closes. It is
  logged only: the stream of the client of a response that was cut off just ends,
  without an error frame.
- `HandlerReturns`: `handleStream` returns whatever the upstream and the client do,
  unless the client stops reading for good and keeps its connection. It is then in a
  write nothing ends (`WaitsForClient`).
- `ReaderEnds` excludes two cases by name: that client, and a bridge that returns
  early (write error, fatal event, canceled request), which leaves the reader in a
  send nobody receives, since closing the body does not wake it (`sse.go:45`).
- `OwnHistoryAccepted`: the history may hold whatever the bridge sent and the client
  kept of it. In best-effort mode the one thing refused is a result whose array does
  not decode as blocks or tools (`Undecodable`): `toolResultToOutput` and
  `toolResultToToolSearchTools` return that error in both modes (`request.go:594`,
  `902`). Strict mode also refuses blocks it cannot read (`Unreadable`).
- `CallsAnswered`: over turns, in any order of the results and for clients that
  dropped the annotations. It excludes two cases by name: `mcp_list_tools` becomes a
  `tool_use` block although a whole response does not stop for it, so nobody answers
  it (`response.go:104`), and a tool search whose stored item the client dropped
  comes back as a function call beside a `tool_search_output` (`request.go:994`).
- `CallsTogether`: the same of the history itself, which the bridge's answers make:
  no two calls share an id, a result comes after its call, once, and a call without
  one is the client's to answer, in a last message whose stop reason says so. It
  excludes the `mcp_list_tools` of a whole response by name (`Listed`).
- `ItemsHaveTypes` excludes an unknown server tool, which best-effort mode sends as
  an item without a type (`request.go:419`).
- `RestoresOutput`: for a client that keeps whole blocks, the input made of an
  answer that came whole reads as the one `OutputItemsToInputItems` makes of the output
  items directly, but for what cannot go back (`Restored`): reasoning and commentary,
  the `text` parts of a message, which a whole response does not show
  (`response.go:224` against `compact.go:126`), the id of a compaction
  (`response.go:1090`, `request.go:1415` against `compact.go:26`), and calls the
  upstream cannot take back, which are function calls. What the upstream reads in
  an item (`Flat`) is the parts of a message, so that text gathered from several
  messages compares with the messages, and the type and the id of anything else.

Every property of a passing run is also tried against a wrong version of the code:
operators with a suffix (`textDelta_last`, `Refused_oldToken`, `retryWhole_early`,
...) stand next to the one they distort, no specification uses them, and
`PROJECT.json` lists which property each one breaks.

### Fairness

- `BridgedStream`: weak fairness of `Deliver` and of `Progress` (the next event of
  a response that is under way). One goroutine reads, handles and writes in a
  loop. The upstream is assumed to go on, and fairness of `Deliver` assumes a client
  that keeps reading or goes away; what a client that does neither holds up is a
  question for StreamPipeline. A lost connection, a failing write and a canceled
  request are free to happen, and the liveness property names them.
- `StreamPipeline`: weak fairness of the reader and of the handler, each a goroutine
  the runtime schedules. A read returns, because the upstream sends or ends, or
  because `http.Client.Timeout`, which covers the body, fires
  (`upstream/client.go:28-43`). Nothing is assumed of the client: no fairness of
  `Cancel` or `Stall`, and a step of the handler that writes is not enabled while the
  client has stalled, so fairness of the handler does not force it.
- `RuntimeConfig`: weak fairness of the file system calls (they return, with or
  without an error) and strong fairness of `Update` per request, because
  `sync.RWMutex` lets every waiting writer in. No fairness of `Start` or `Crash`.
- `MessagesRequest`: weak fairness of the handler. An attempt that gets no answer
  is ended by `http.Client.Timeout` (`upstream/client.go:28-43`); the client is assumed
  to read its answer or to go away.

## 4. Theorems

TLC shows the properties on the instances above; TLAPS shows these for every
value of the constants allowed by the modules' named assumptions.

- **StreamBridgeProof!LedgerRefinement**: `Spec => BlocksAreALedger` for any items,
  outputs, parts, mode and number of events. The invariant says that the record is
  `Sound`: every frame in `out` is admissible after those before it, the
  indices opened are exactly `0 .. nextIndex - 1`, the indices closed are
  `closedIndex`, and every index a map holds is below `nextIndex`. The last part
  is why it is inductive: handlers trust the maps without looking at the frames.
  The proof has one lemma per helper (it keeps `Sound` and only appends), one step
  per handler, then maps `Deliver` to a step of BlockLedger and everything else to
  a stutter.
- **StreamBridgeProof!TypeCorrect**: `Spec => []TypeOK`, from the same invariant.
- **StreamBridgeProof!ToolUseStopsHaveToolBlocks** and **SearchesAreCounted**: the
  stop reason and the search count of `finishMessage` are read from the state, not
  from the frames, so the invariant's part `Accounted` says that `toolUsed` and
  `serverToolUseCount` agree with what was sent. The code raises both before it
  starts the blocks they stand for; hence Accounted is kept by the starting of a
  call, by `handleWebSearchDone` and by `finishMessage` only as a whole. Every other
  helper adds frames that count for nothing (`Plain`), and a chain of such steps
  leaves the account as it was (`AddsKeepsAccount`).
- **RuntimeConfigProof!SecretsAlwaysDiffer** and **ConfigTypes**: for any number
  of overlapping PUTs. `SecretsDiffer` is not inductive, since `Update` stores a
  record that was checked against a snapshot now replaced. It holds because the
  whole record is stored: the invariant claims that every merged record that
  waits for the lock differs in the two secrets.
- **RuntimeConfigProof!RestartsServeAcknowledged**: over any crashes and failed
  saves. The invariant ties the file to what was acknowledged: a whole file holds
  the record acknowledged last or the one `loadFromFile` makes of the file itself,
  and the process in memory has its key.
- **MessagesRequestProof!RejectionsAreFinal**, **AcceptedOnlyOnce**,
  **DropsOnlyObjected**, **CompactionsAreWhole**, **TypeCorrect**: for any bound
  above the number of cache fields. `RejectionIsFinal` alone is not inductive;
  `Budget` makes it so: a retry of these loops pays for its attempt with a field, so
  attempts and fields together stay within the bound and the last answer finds no
  field to object to.
- **StreamPipelineProof!FailuresAreNoticed** and **TypeCorrect**: for bodies of any
  length. The invariant says where the error is at each point of the reader (put
  exactly when the body failed and not yet taken), that the events are closed only
  after it was put, and that every address in use is that of a copy.
- **StreamPipelineProof!FeedRefinement**: `Spec => EventsInOrder`, the refinement of
  EventFeed. EventFeed defines the events of a body from its lines as a whole; the
  reader makes them line by line. `Gathering` is what joins the two: the name and the
  lines held are those of the event that would end at the next line. It needs lemmas
  on how `Events` of a body grows by a line (`CompletesGrow`, `EventsGrow`,
  `EndingAfter`). `Delivery` says that the events decoded, then the one in the
  bridge's hands, then the one on offer (`InFlight`) are the first events of the body,
  each of them read at an address whose content is still that event's payload; without
  the copy of `sse.go:39` that last part fails. The nth smallest position of a set
  (`Nth`) is characterised by induction with the least element of a set of numbers,
  which `WellFoundedInduction` states without an operator parameter.
- **BridgedStreamProof**: every property of the `BridgedStream` run but its liveness,
  for any number of items and events and in both modes; the next paragraph says
  under which hypothesis and how.

The theorems about BridgedStream all assume `Faithful`: the kinds are those the code
streams faithfully (a finding is the reason where one is left out), a response has at
most one reasoning item, and items have ids (`hasStreamedMessageItem` is false of a
blank one, so a message without an id would be shown again when it is done; calls
without ids share an entry of `toolIndexByItemID`). The events that carry arguments
need not name their item. Two of
them exclude one kind more, which is what findings 2 and 3 are about:
`CommentaryStaysHidden` a commentary message with a refusal,
`ToolInputReachesTheClient` a custom tool call. `UpstreamAssumption` says what the
protocol is taken to promise: ids and output indices tell items apart.
`ResponsesAreUpstreams` shows that such a response is one of StreamBridge's arbitrary
upstreams, so that what is proved there holds here.

The argument has three parts. BridgedStreamFrames says what a sequence of frames
shows: which blocks an item has, what was sent to each, where each stopped, and
`Lawful`, that AnthropicStream admits the sequence frame by frame. `ItemInv` then
says what the record and the frames hold of one item as a function of its kind and
of how far its script has got: which map knows it, whether its block is open, what
is still to come. It is inductive because an event of one item changes nothing of
another (`Touches`): new blocks get indices no map holds, and a block is found only
under ids of its own item. `EndInv` covers the end: after the terminal event all
text blocks are closed in order, then the summary and `message_stop`.
The refinement follows from `Lawful`, since `Deliver` writes the next frame of `out`;
each of the other theorems reads one clause of the invariant. The invariant was also
checked by TLC, on two items of all faithful kinds in both modes (about 780,000
states in each).

- **StreamAgreementProof!SameFailures**, **BlocksAgree**, **SummariesAgree**: the
  three properties of StreamAgreement for responses of any length, whichever items
  are streamed part by part, in both modes (the run is in best-effort mode). They
  compare the ends of two computations, so the invariant compares them all along:
  `Stage` says that after the first events of an item the blocks shown are those of
  the items before it, as `Whole` has them one item after the other, and then those
  this item has `Begun`; and that the state the handlers consult (`Knows`: the maps,
  the suppressed items, the searches sent) is what those events have left of this
  item and nothing of a later one. Without the second part it is not inductive: what a done
  item adds depends on whether a map has a block of it. The proof has one lemma per
  helper of StreamBridge, what it shows (`Yields`), one per handler with the item
  types it is for, and `ItemDone`, by type: what is left to be shown and whether both
  conversions refuse. `WholeIsContent` turns the order of the items into the order of
  a whole message, thinking first. `AgreementAssumption` bounds a message to the
  `MaxBlocks` parts StreamBridge allows an item, and takes ids that tell the items
  apart. **StreamedResponsesRunTheBridge**: such a response is one of StreamBridge's
  arbitrary upstreams, so what is proved there holds of it.

- **ConversationProof!TypeCorrect**, **OwnHistoriesAccepted**, **OrderKept**,
  **ItemsTyped**: for any deeds, any history of before the bridge, conversations of
  any length, in both modes and for the three kinds of clients. `TypeOK` is the
  invariant: all messages consist of Acceptable blocks, because every item of an
  answer gets the id of its deed, every block it becomes has a name (`blockName`),
  dropping annotations touches neither, and results are made of ids of calls. The
  other three follow from what the conversion of such a history gives. `Converted`
  says what holds of it after the first `b` blocks of message `m`: it has failed only
  with a result that does not decode, or in strict mode with a block that cannot be
  read; otherwise the positions in its
  items and in the text gathered are those kept so far, each later one further on in
  the history than all before, the text gathered is of message `m` alone, and an item
  without a type stands at a server tool. One lemma per converter shows that a block
  is left out, said, put or refused and in which case (`Gathers`, `ConvertsItem`,
  `ConvertsBlock`), one lemma per effect that it keeps `Converted` (`SayKeeps`,
  `WithKeeps`, `FlushKeeps`), and induction over the positions does the rest. The
  library's induction theorems take an operator and cannot be used, so `Induction` and
  `Recursion`, that a function defined by steps exists, are proved for sets from the
  least element of a set of numbers. `ConversationAssumption` bounds nothing but
  `MaxDeeds`: items are those a converter can read (`body = "some"`) of any type but
  the blank one, blocks are Acceptable, and what was before the bridge was made of no output of its upstream.
- **ConversationProof!CallsStayTogether**, **CallsAreAnswered**: the two halves of
  what a call needs. The first is about the history, turn by turn: `AnswerTidy` says
  what the blocks of one answer are like, whole or streamed, whatever the client kept
  of them (a result after its call, ids of the answer's deeds, `tool_use` as stop
  reason wherever a call waits), `TraceOrder` that joining the blocks of the items
  keeps their order, and `AskKeepsCalls` that the results of `Pending` close every call
  that waits. `CallsTogether` is inductive as it stands once `Paired` bounds the ids by
  the deeds so far. The second is about the conversion of one history: `Tracked` joins
  to `Converted` that every item has the type and the id its block stands for and that
  `callKinds` has the kind of every call so far; a result meets the kind of its call
  because the call came before it. `TypesMatch` is the point of it: the kind under which
  a call is remembered gives the output type of the item it became, restored or not.
  Both take `CallAssumption` besides, about what is outside the bridge: a deed makes
  at most one call and gives it at most one output, afterwards (a deed is what happens
  under one id; an answer has several); the user adds no calls or results of their own;
  a history from before the bridge pairs its calls and results already. TLC evaluates
  it for the deeds and histories of the run.
- **ConversationProof!OutputsRestored**: `RestoresOutput`, under the same assumptions.
  Both sides are made per block or per item and joined (`Spread`), so they are compared
  in two steps. `OutputPieces`, about one answer: the blocks made of an item become, one
  by one (`Piece`), what the upstream reads in that item `Restored`. It goes by type of
  item; `CallPiece` is the point of it, that a call whose result came with it is
  remembered as a function call, which is what its result then belongs to. Moving the
  thinking to the front changes nothing, as nothing comes of it. `InputShows`, about the
  conversion: `Shows` joins to `Converted` and `Tracked` that what has been put and
  gathered of message `n` reads as the pieces of its blocks so far. Text spans the items
  of one answer but never two messages (`Orderly`), so flushing it early or late reads
  the same (`ShownFlush`, `ShownSay`). The invariant is `WholeKept`: an answer in the
  history of such a client is still `contentOf` the output it was made of, and the
  result of a call in it has its function call before it. It is inductive with `TypeOK`
  and `CallsTogether`, because the mode and the client do not change (`WholeStays`).

Only model-checked: the liveness properties (`EveryResponseEnds`,
`EveryPutReturns`, `EveryRequestAnswered`, `HandlerReturns`, `ReaderEnds`), whose
proof needs ENABLED. Every invariant and every action property a passing run checks is
a theorem.

## 5. Findings

1. A second part or item of reasoning goes to a thinking block that is already
   sealed (`stream.go:443`).
2. The refusal of a commentary message is streamed although commentary is
   suppressed (`stream.go:495`).
3. The input of a streamed `custom_tool_call` never reaches the client
   (`stream.go:377`).
4. Overlapping PUTs undo each other's fields (`admin/handler.go:319`).
5. Under the cache mode `off` a derived `prompt_cache_key` is still added when
   `auto_key` is on, its default (`server.go:507`).

`PROJECT.json` quotes for each the line of the documentation or test it contradicts.
Two further disagreements have no run. `src/README.md:206` speaks of a retry without
the field an upstream objects to; a stream may have used its attempts on other
errors by then (`server.go:336`). `src/README.md:384-385` has the name of a
`tool_use` decide its kind (`Bash` is a `local_shell_call`), while
`classifyToolCallKind` (`request.go:964`) looks at `responses_type` alone, as
`request_test.go:310` expects.

## 6. Not modelled

- The rest of the request conversion: scalar fields (thinking and effort,
  `tool_choice`, `context_management`, fields passed through), the conversion of
  tool definitions and of the system prompt. They map one field to another, without
  state or order between them.
- Fields inside blocks, usage figures, citation contents, rate-limit headers,
  error texts: data that no control decision in the models depends on.
- The panel's authentication: a login sets a cookie that is an HMAC of the
  password, so a session is a pure function of the configuration; the handlers that
  only read. Forwarding and choice of headers.
- Model mapping by the request's model name, the tokenizer's numbers, logging,
  the unused key-value store, static configuration and scripts: no state of the
  running system, or pure functions without a property worth stating.

## 7. Plan

Done, in this order: StreamBridge with its two abstract specifications and the
proof of the first; BridgedStream; RuntimeConfig with proof; ResponseMessage and
StreamAgreement; MessagesRequest with proof; EventFeed and StreamPipeline with
proof; MessageInput and Conversation; the proofs of `RestartServesAcknowledged`,
`CompactionIsWhole`, `ToolUseStopHasToolBlock` and `WebSearchesCounted`; the proofs
about BridgedStream; the proof of the refinement of EventFeed; the proofs about the
types, the acceptance and the order of Conversation; the proofs about
StreamAgreement; the proofs that every call of Conversation is answered and that the
upstream gets its own output back.

Left:

1. The scalar fields of the request conversion that depend on each other (thinking,
   effort and the token limit), against what the documentation says of them.
2. MessagesRequest joined to Conversation, so that a remote compaction that returns
   no items (`auto_compact.go:127`) has a meaning for the turn that follows.
