------------------------- MODULE BridgedStreamProof -------------------------
(***************************************************************************)
(* For any number of items of the kinds the bridge streams faithfully,     *)
(* however their events interleave: every invariant of BridgedStream holds *)
(* and the client reads a stream that follows the Anthropic protocol.      *)
(*                                                                         *)
(* ItemInv says what the bridge's record and frames hold of one item as a  *)
(* function of its kind and of how far its events have come.  An event of  *)
(* an item Touches that item only, so it keeps ItemInv of all the others;  *)
(* for the item itself there is one step per event.                        *)
(***************************************************************************)
EXTENDS BridgedStreamFrames

-----------------------------------------------------------------------------
(* The life of an item                                                      *)

CommentaryKinds == {"commentary", "commentary_refusal"}

\* Streamed through the text block of their content part.
TextKinds == {"message"} \cup RefusalKinds

\* The calls whose arguments are streamed.
WithArguments == {"function_call", "function_call_by_output", "mcp_call"}

\* Shown when they are done, by one whole block.
WholeKinds == {"unstreamed_message", "unstreamed_reasoning", "compaction"} \cup Standalone

Streamed == TextKinds \cup ToolKinds \cup {"reasoning"}

FaithfulKinds == Streamed \cup WholeKinds \cup {"commentary", "web_search_call"}

\* The responses the theorems speak of.  Each conjunct leaves out what the code
\* does not stream faithfully: a second part of a reasoning item, or a second
\* reasoning item, is added to a block that is already sealed (there is one
\* thinkingIndex).
Faithful ==
    /\ Kinds \subseteq FaithfulKinds
    /\ MaxReasoning <= 1

\* How many events of an item of each kind open its block, and close it; past
\* the end of the script if none does.
OpensAt(k) ==
    CASE k \in ToolKinds                                -> 1
      [] k \in RefusalKinds \cup {"web_search_call"}    -> 3
      [] k = "commentary"                               -> 6
      [] OTHER                                          -> 2

ClosesAt(k) ==
    CASE k = "message"                       -> 5
      [] k \in RefusalKinds \cup {"reasoning"} -> 4
      [] k \in CallKinds                     -> 3
      [] OTHER                               -> 2

\* The block that shows an item of each kind.
BlockOf(k) ==
    CASE k \in {"message", "unstreamed_message"} -> "text"
      [] k \in RefusalKinds                      -> "refusal"
      [] k \in ReasoningKinds                    -> "thinking"
      [] k \in ToolKinds                         -> "tool_use"
      [] k = "web_search_call"                   -> "server_tool_use"
      [] OTHER                                   -> k

\* Where streamState keeps the index of that block while it is streamed.
OwnIndex(b, x, k) ==
    CASE k \in TextKinds -> b.textIndexByKey[<<x, 0>>]
      [] k \in ToolKinds -> b.toolIndexByItemID[x]
      [] OTHER           -> b.thinkingIndex

BlocksOf(b, x) == {t \in BlocksIn(b.out) : t[3] = x}

\* The bridge has no entry of x.
NoEntry(b, x) ==
    /\ \A part \in Parts : b.textIndexByKey[<<x, part>>] = Absent
    /\ b.toolIndexByItemID[x] = Absent
    /\ x \notin b.webSearchEmitted

\* What holds of item x, of kind k, after p of its events.
ItemInv(b, x, p, k) ==
    /\ p <= Len(Script(k))
    /\ x \in b.ignoredMessageItemID <=> k \in CommentaryKinds /\ p > 0
    /\ p < OpensAt(k) =>
          /\ BlocksOf(b, x) = {} /\ NoEntry(b, x)
          /\ k \in ReasoningKinds => b.thinkingIndex = Absent
    /\ p >= OpensAt(k) =>
          \E t \in BlocksOf(b, x) :
             /\ t[2] = BlockOf(k)
             /\ k \in Streamed => t[1] = OwnIndex(b, x, k)
             /\ \A u \in BlocksOf(b, x) : u[2] \in MainBlocks(k) => u = t
    /\ \A t \in BlocksOf(b, x) :
          \/ t[1] \in b.closedIndex
          \/ k \in Streamed /\ p < ClosesAt(k) /\ t[1] = OwnIndex(b, x, k) /\ t[2] = BlockOf(k)
    /\ k \in WithArguments /\ p >= 2 =>
          \E d \in DeltasIn(b.out) : d[2] = "input_json_delta" /\ d[3] \in Of(x)

\* Its streamed block is still open.
StillOpen(b, x, p, k) ==
    k \in Streamed /\ OpensAt(k) <= p /\ p < ClosesAt(k) => OwnIndex(b, x, k) \notin b.closedIndex

\* Blocks are of items, and a delta that speaks of an item goes to its block.
Owned(s) ==
    /\ \A t \in BlocksIn(s) : t[3] \in Items
    /\ \A d \in DeltasIn(s) :
          d[2] = "signature_delta" \/ \E t \in BlocksIn(s) : t[1] = d[1] /\ d[3] \in Of(t[3])

Ongoing == response \in {"none", "created"}
Ended   == response \in {"completed", "incomplete", "cancelled", "failed"}

UpstreamInv ==
    /\ kind \in [Items -> Kinds]
    /\ position \in [Items -> Nat]
    /\ Ongoing \/ Ended \/ response \in {"error", "lost"}
    /\ \A x, y \in Items : kind[x] \in ReasoningKinds /\ kind[y] \in ReasoningKinds => x = y
    /\ response = "completed" => \A x \in Items : Complete(x)

BridgeInv ==
    /\ ClosedIn(bridge.out) = bridge.closedIndex
    /\ Lawful(bridge.out)
    /\ Owned(bridge.out)
    /\ bridge.toolUsed <=> \E x \in Items : kind[x] \in ToolKinds /\ position[x] > 0
    /\ ~ Ended => Running(bridge.out)
    /\ phase = "reading" /\ Ongoing => Good(bridge) /\ Mapped(bridge)
    /\ phase = "reading" /\ response = "created" => bridge.started

ItemsInv ==
    \A x \in Items :
        /\ ItemInv(bridge, x, position[x], kind[x])
        /\ Ongoing => StillOpen(bridge, x, position[x], kind[x])

EndInv ==
    /\ Ended =>
          \A t \in BlocksIn(bridge.out) :
             t[1] \in bridge.closedIndex \/ (t[2] = "tool_use" /\ ~ Complete(t[3]))
    /\ response = "completed" =>
          \A k \in 1 .. Len(bridge.out) :
             bridge.out[k].type = "message_delta" =>
                (bridge.out[k].what = "tool_use" <=> bridge.toolUsed)

StreamInv == IInv /\ UpstreamInv /\ BridgeInv /\ ItemsInv /\ EndInv

-----------------------------------------------------------------------------
(* The handlers an item's events reach                                      *)

\* The handler of the event of item x, of kind k, that comes after p others.
HandlerOf(x, p, k) ==
    LET out == OutputOf[x]
    IN  \/ k \in CommentaryKinds /\ p = 0 /\ CommentaryItemAdded(x)
        \/ k \in ToolKinds /\ p = 0 /\ ToolItemAdded(x, out)
        \/ k = "web_search_call" /\ p = 0 /\ WebSearchItemAdded(x)
        \/ k = "unrecognized" /\ p = 0 /\ UnsupportedItemAdded
        \/ /\ k \notin CommentaryKinds \cup ToolKinds \cup {"web_search_call", "unrecognized"}
           /\ p = 0 /\ PassiveItemAdded
        \/ k \in {"message", "commentary"} /\ p = 1 /\ ContentPartAdded(x, out, 0, TRUE)
        \/ k \in RefusalKinds /\ p = 1 /\ ContentPartAdded(x, out, 0, FALSE)
        \/ k = "message" /\ p \in {2, 3} /\ OutputTextDelta(x, out, 0)
        \/ k = "commentary" /\ p = 2 /\ OutputTextDelta(x, out, 0)
        \/ k \in RefusalKinds /\ p = 2 /\ RefusalDelta(x, out, 0)
        \/ k \in RefusalKinds /\ p = 3 /\ RefusalDone(x, out, 0)
        \/ k = "message" /\ p = 4 /\ \E n \in 0 .. MaxCitations : ContentPartDone(x, out, 0, n)
        \/ k = "commentary" /\ p = 3 /\ \E n \in 0 .. MaxCitations : ContentPartDone(x, out, 0, n)
        \/ k \in RefusalKinds /\ p = 4 /\ ContentPartDone(x, out, 0, 0)
        \/ k = "reasoning" /\ p \in {1, 2} /\ ReasoningDelta(x)
        \/ k = "reasoning" /\ p = 3 /\ ReasoningTextDone
        \/ k = "reasoning" /\ p = 4 /\ ReasoningItemDone(x, 1)
        \/ k = "unstreamed_reasoning" /\ p = 1 /\ ReasoningItemDone(x, 1)
        \/ k \in WithArguments /\ p = 1 /\ ToolArgumentsDelta(NamedBy(x, k), out)
        \/ k \in WithArguments /\ p = 2 /\ ToolArgumentsDone(NamedBy(x, k), out)
        \/ k = "custom_tool_call" /\ p = 1 /\ EventIgnored
        \/ k \in {"function_call", "function_call_by_output"} /\ p = 3 /\ ToolItemDone(x, 0)
        \/ k = "mcp_call" /\ p = 3 /\ \E n \in 0 .. 1 : ToolItemDone(x, n)
        \/ k = "custom_tool_call" /\ p = 2 /\ ToolItemDone(x, 0)
        \/ k \in ConvertedTools /\ p = 1 /\ \E n \in 0 .. 1 : ToolItemDone(x, n)
        \/ k = "web_search_call" /\ p = 1 /\ WebSearchCompleted
        \/ k = "web_search_call" /\ p = 2 /\ WebSearchItemDone(x)
        \/ k = "compaction" /\ p = 1 /\ CompactionItemDone(x, FALSE)
        \/ k \in Standalone /\ p = 1 /\ StandaloneItemDone(x, k, 1)
        \/ k = "unstreamed_message" /\ p = 1 /\ MessageItemDone(x, 1)
        \/ k \in {"message", "refusal"} /\ p = 5 /\ MessageItemDone(x, 1)
        \/ k = "commentary" /\ p = 4 /\ MessageItemDone(x, 0)
        \/ k = "commentary_refusal" /\ p = 5 /\ MessageItemDone(x, 0)

\* The scripts, event by event.
LEMMA Scripts ==
    /\ LET s == Script("message")
       IN  /\ Len(s) = 6 /\ s[1] = "added" /\ s[2] = "part.added" /\ s[3] = "text.delta"
           /\ s[4] = "text.delta" /\ s[5] = "part.done" /\ s[6] = "done"
    /\ LET s == Script("refusal")
       IN  /\ Len(s) = 6 /\ s[1] = "added" /\ s[2] = "part.added" /\ s[3] = "refusal.delta"
           /\ s[4] = "refusal.done" /\ s[5] = "part.done" /\ s[6] = "done"
    /\ LET s == Script("commentary")
       IN  /\ Len(s) = 5 /\ s[1] = "commentary.added" /\ s[2] = "part.added"
           /\ s[3] = "text.delta" /\ s[4] = "part.done" /\ s[5] = "done"
    /\ LET s == Script("commentary_refusal")
       IN  /\ Len(s) = 6 /\ s[1] = "commentary.added" /\ s[2] = "part.added"
           /\ s[3] = "refusal.delta" /\ s[4] = "refusal.done" /\ s[5] = "part.done"
           /\ s[6] = "done"
    /\ LET s == Script("reasoning")
       IN  /\ Len(s) = 5 /\ s[1] = "added" /\ s[2] = "thinking.delta" /\ s[3] = "thinking.delta"
           /\ s[4] = "thinking.done" /\ s[5] = "done"
    /\ \A k \in WithArguments :
          /\ Len(Script(k)) = 4 /\ Script(k)[1] = "added" /\ Script(k)[2] = "arguments.delta"
          /\ Script(k)[3] = "arguments.done" /\ Script(k)[4] = "done"
    /\ LET s == Script("custom_tool_call")
       IN  Len(s) = 3 /\ s[1] = "added" /\ s[2] = "input.delta" /\ s[3] = "done"
    /\ LET s == Script("web_search_call")
       IN  Len(s) = 3 /\ s[1] = "added" /\ s[2] = "completed" /\ s[3] = "done"
    /\ \A k \in ConvertedTools \cup WholeKinds :
          Len(Script(k)) = 2 /\ Script(k)[1] = "added" /\ Script(k)[2] = "done"
BY DEF Script, CallKinds, DirectTools, WithArguments, ConvertedTools, WholeKinds, Standalone

\* Where the items of each kind are shown.
LEMMA KindFacts ==
    ASSUME NEW k \in FaithfulKinds
    PROVE  /\ OpensAt(k) \in 1 .. 6 /\ ClosesAt(k) \in 2 .. 5 /\ Len(Script(k)) \in 2 .. 6
           /\ k \in Streamed => OpensAt(k) < ClosesAt(k) /\ ClosesAt(k) <= Len(Script(k))
           /\ k \notin Streamed /\ k # "commentary" => OpensAt(k) = Len(Script(k))
           /\ k = "commentary" => OpensAt(k) > Len(Script(k))
           /\ k # "commentary" => BlockOf(k) \in Details
           /\ k \notin {"commentary", "commentary_refusal"} => BlockOf(k) \in MainBlocks(k)
           /\ "tool_result" \notin MainBlocks(k)
           /\ "web_search_tool_result" \notin MainBlocks(k)
           /\ k \in CommentaryKinds => k \notin ReasoningKinds
<1> USE Scripts DEF FaithfulKinds, Streamed, WholeKinds, TextKinds, RefusalKinds, ToolKinds,
        WithArguments, CallKinds, DirectTools, ConvertedTools, Standalone, ReasoningKinds,
        CommentaryKinds,
        OpensAt, ClosesAt
<1>1. CASE k \in TextKinds
  BY <1>1 DEF BlockOf, MainBlocks, Details
<1>2. CASE k \in ToolKinds
  BY <1>2 DEF BlockOf, MainBlocks, Details
<1>3. CASE k \in WholeKinds
  BY <1>3 DEF BlockOf, MainBlocks, Details
<1>4. CASE k = "commentary"
  <2>1. OpensAt(k) = 6 /\ ClosesAt(k) = 2
    BY <1>4
  <2>2. Len(Script(k)) = 5
    BY <1>4
  <2>3. k \notin Streamed /\ k \in CommentaryKinds /\ k \notin ReasoningKinds
    BY <1>4
  <2>4. MainBlocks(k) = {k}
    BY <1>4 DEF MainBlocks
  <2> HIDE DEF OpensAt, ClosesAt, Streamed, CommentaryKinds, ReasoningKinds
  <2> QED
    BY ONLY <1>4, <2>1, <2>2, <2>3, <2>4
<1>5. CASE k = "reasoning"
  BY <1>5 DEF BlockOf, MainBlocks, Details
<1>6. CASE k = "web_search_call"
  BY <1>6 DEF BlockOf, MainBlocks, Details
<1> QED
  BY <1>1, <1>2, <1>3, <1>4, <1>5, <1>6

\* When each kind's block is opened and closed, and what it is.
LEMMA Positions ==
    /\ \A k \in ToolKinds : k \in Streamed /\ OpensAt(k) = 1 /\ BlockOf(k) = "tool_use"
    /\ \A k \in CallKinds : ClosesAt(k) = 3
    /\ \A k \in ConvertedTools : ClosesAt(k) = 2
    /\ "message" \in Streamed /\ OpensAt("message") = 2 /\ ClosesAt("message") = 5
    /\ BlockOf("message") = "text"
    /\ \A k \in RefusalKinds : /\ k \in Streamed /\ OpensAt(k) = 3 /\ ClosesAt(k) = 4
                               /\ BlockOf(k) = "refusal"
    /\ "reasoning" \in Streamed /\ OpensAt("reasoning") = 2 /\ ClosesAt("reasoning") = 4
    /\ BlockOf("reasoning") = "thinking"
    /\ "web_search_call" \notin Streamed /\ OpensAt("web_search_call") = 3
    /\ BlockOf("web_search_call") = "server_tool_use"
    /\ \A k \in WholeKinds : k \notin Streamed /\ OpensAt(k) = 2
    /\ BlockOf("unstreamed_message") = "text" /\ BlockOf("unstreamed_reasoning") = "thinking"
    /\ \A k \in Standalone \cup {"compaction"} : BlockOf(k) = k
    /\ OpensAt("commentary") = 6 /\ "commentary" \notin Streamed
<1> USE DEF Streamed, TextKinds, RefusalKinds, WithArguments, ToolKinds, CallKinds,
        DirectTools, ConvertedTools,
            WholeKinds, Standalone, ReasoningKinds
<1>1. \A k \in ToolKinds : k \in Streamed /\ OpensAt(k) = 1
  BY DEF OpensAt
<1>2. \A k \in ToolKinds : BlockOf(k) = "tool_use"
  BY DEF BlockOf
<1>3. \A k \in CallKinds : ClosesAt(k) = 3
  BY DEF ClosesAt
<1>4. \A k \in ConvertedTools : ClosesAt(k) = 2
  BY DEF ClosesAt
<1>5. "message" \in Streamed /\ OpensAt("message") = 2 /\ ClosesAt("message") = 5
  BY DEF OpensAt, ClosesAt
<1>6. \A k \in RefusalKinds : k \in Streamed /\ OpensAt(k) = 3 /\ ClosesAt(k) = 4
  BY DEF OpensAt, ClosesAt
<1>7. "reasoning" \in Streamed /\ OpensAt("reasoning") = 2 /\ ClosesAt("reasoning") = 4
  BY DEF OpensAt, ClosesAt
<1>8. "web_search_call" \notin Streamed /\ OpensAt("web_search_call") = 3
  BY DEF OpensAt
<1>9. \A k \in WholeKinds : k \notin Streamed /\ OpensAt(k) = 2
  BY DEF OpensAt
<1>10. OpensAt("commentary") = 6 /\ "commentary" \notin Streamed
  BY DEF OpensAt
<1>11. /\ BlockOf("message") = "text" /\ BlockOf("unstreamed_message") = "text"
       /\ \A k \in RefusalKinds : BlockOf(k) = "refusal"
       /\ BlockOf("reasoning") = "thinking" /\ BlockOf("unstreamed_reasoning") = "thinking"
       /\ BlockOf("web_search_call") = "server_tool_use"
  BY DEF BlockOf
<1>12. \A k \in Standalone \cup {"compaction"} : BlockOf(k) = k
  BY DEF BlockOf
<1> QED
  BY <1>1, <1>2, <1>3, <1>4, <1>5, <1>6, <1>7, <1>8, <1>9, <1>10, <1>11, <1>12

-----------------------------------------------------------------------------
(* What an event of one item does to the others                             *)

\* The bridge's entries of y are the same in c as in b.
SameEntries(b, c, y) ==
    /\ \A part \in Parts : c.textIndexByKey[<<y, part>>] = b.textIndexByKey[<<y, part>>]
    /\ c.toolIndexByItemID[y] = b.toolIndexByItemID[y]
    /\ y \in c.ignoredMessageItemID <=> y \in b.ignoredMessageItemID
    /\ y \in c.webSearchEmitted <=> y \in b.webSearchEmitted

\* c is b after an event of item x, of kind k.
Touches(b, c, x, k) ==
    /\ BlocksIn(b.out) \subseteq BlocksIn(c.out)
    /\ \A t \in BlocksIn(c.out) : t \in BlocksIn(b.out) \/ t[3] = x
    /\ DeltasIn(b.out) \subseteq DeltasIn(c.out)
    /\ \A d \in DeltasIn(c.out) : \/ d \in DeltasIn(b.out) \/ d[2] = "signature_delta"
                                  \/ \E t \in BlocksIn(c.out) : t[1] = d[1] /\ d[3] \in Of(t[3])
    /\ b.closedIndex \subseteq c.closedIndex
    /\ \A i \in c.closedIndex : i \in b.closedIndex \/ \E t \in BlocksIn(c.out) : t[1] = i /\ t[3] = x
    /\ \A y \in Items \ {x} : SameEntries(b, c, y)
    /\ k # "reasoning" => c.thinkingIndex = b.thinkingIndex
    /\ c.toolUsed <=> b.toolUsed \/ k \in ToolKinds

\* ItemInv and StillOpen look at the item's own blocks and entries only.
LEMMA ItemKept ==
    ASSUME NEW b, NEW c, NEW y, NEW q, NEW l \in FaithfulKinds,
           BlocksOf(c, y) = BlocksOf(b, y),
           DeltasIn(b.out) \subseteq DeltasIn(c.out),
           b.closedIndex \subseteq c.closedIndex,
           SameEntries(b, c, y),
           l \in ReasoningKinds => c.thinkingIndex = b.thinkingIndex,
           ItemInv(b, y, q, l)
    PROVE  ItemInv(c, y, q, l) /\ (l \in Streamed => OwnIndex(c, y, l) = OwnIndex(b, y, l))
<1>1. l \in Streamed => OwnIndex(c, y, l) = OwnIndex(b, y, l)
  BY UpstreamAssumption
     DEF SameEntries, OwnIndex, Streamed, TextKinds, RefusalKinds, ToolKinds, ReasoningKinds
<1>2. NoEntry(b, y) => NoEntry(c, y)
  BY DEF NoEntry, SameEntries
<1>3. y \in c.ignoredMessageItemID <=> y \in b.ignoredMessageItemID
  BY DEF SameEntries
<1>4. l \in ReasoningKinds => c.thinkingIndex = b.thinkingIndex
  OBVIOUS
<1>5. ASSUME q >= OpensAt(l)
      PROVE  \E t \in BlocksOf(c, y) :
                /\ t[2] = BlockOf(l)
                /\ l \in Streamed => t[1] = OwnIndex(c, y, l)
                /\ \A u \in BlocksOf(c, y) : u[2] \in MainBlocks(l) => u = t
  <2>1. \E t \in BlocksOf(b, y) :
           /\ t[2] = BlockOf(l)
           /\ l \in Streamed => t[1] = OwnIndex(b, y, l)
           /\ \A u \in BlocksOf(b, y) : u[2] \in MainBlocks(l) => u = t
    BY <1>5 DEF ItemInv
  <2> QED
    BY <2>1, <1>1
<1>6. \A t \in BlocksOf(c, y) :
         \/ t[1] \in c.closedIndex
         \/ l \in Streamed /\ q < ClosesAt(l) /\ t[1] = OwnIndex(c, y, l) /\ t[2] = BlockOf(l)
  <2>1. \A t \in BlocksOf(b, y) :
           \/ t[1] \in b.closedIndex
           \/ l \in Streamed /\ q < ClosesAt(l) /\ t[1] = OwnIndex(b, y, l) /\ t[2] = BlockOf(l)
    BY DEF ItemInv
  <2> QED
    BY <2>1, <1>1
<1>7. l \in WithArguments /\ q >= 2 =>
         \E d \in DeltasIn(c.out) : d[2] = "input_json_delta" /\ d[3] \in Of(y)
  BY DEF ItemInv
<1>8. q < OpensAt(l) => /\ BlocksOf(c, y) = {} /\ NoEntry(c, y)
                        /\ l \in ReasoningKinds => c.thinkingIndex = Absent
  BY <1>2, <1>4 DEF ItemInv
<1>9. q <= Len(Script(l)) /\ (y \in c.ignoredMessageItemID <=> l \in CommentaryKinds /\ q > 0)
  BY <1>3 DEF ItemInv
<1> QED
  BY <1>1, <1>5, <1>6, <1>7, <1>8, <1>9 DEF ItemInv

\* An event of x changes nothing of the other items.
LEMMA Others ==
    ASSUME NEW b, NEW c, NEW x \in Items, NEW k, NEW y \in Items, y # x, NEW q \in Nat,
           NEW l \in FaithfulKinds,
           Sound(c), Touches(b, c, x, k), ItemInv(b, y, q, l), StillOpen(b, y, q, l),
           ~ (k \in ReasoningKinds /\ l \in ReasoningKinds)
    PROVE  ItemInv(c, y, q, l) /\ StillOpen(c, y, q, l)
<1>1. BlocksOf(c, y) = BlocksOf(b, y)
  BY DEF Touches, BlocksOf
<1>2. l \in ReasoningKinds => c.thinkingIndex = b.thinkingIndex
  BY DEF Touches, ReasoningKinds
<1>3. ItemInv(c, y, q, l) /\ (l \in Streamed => OwnIndex(c, y, l) = OwnIndex(b, y, l))
  BY <1>1, <1>2, ItemKept DEF Touches
<1>4. ASSUME l \in Streamed, OpensAt(l) <= q, q < ClosesAt(l)
      PROVE  OwnIndex(c, y, l) \notin c.closedIndex
  <2> SUFFICES ASSUME OwnIndex(c, y, l) \in c.closedIndex
               PROVE  FALSE
    OBVIOUS
  <2>1. PICK u \in BlocksIn(c.out) : u[1] = OwnIndex(c, y, l) /\ u[3] = x
    BY <1>3, <1>4 DEF Touches, StillOpen
  <2>2. q >= OpensAt(l)
    BY <1>4, KindFacts
  <2>3. PICK t \in BlocksOf(c, y) : t[1] = OwnIndex(c, y, l)
    BY <1>3, <1>4, <2>2 DEF ItemInv
  <2> QED
    BY <2>1, <2>3, BlockFacts DEF BlocksOf
<1> QED
  BY <1>3, <1>4 DEF StillOpen

-----------------------------------------------------------------------------
(* What an event of an item does to the item itself                         *)

\* The bridge has handled p events of item x, of kind k, and one more comes.
Before(b, x, p, k) ==
    /\ Good(b) /\ b.started /\ Mapped(b)
    /\ ItemInv(b, x, p, k) /\ StillOpen(b, x, p, k)
    /\ p < Len(Script(k))
    /\ k \in ToolKinds /\ p > 0 => b.toolUsed

\* It has handled that one too.
Advance(b, c, x, p, k) ==
    /\ Good(c) /\ c.started /\ Mapped(c)
    /\ Touches(b, c, x, k)
    /\ ItemInv(c, x, p + 1, k) /\ StillOpen(c, x, p + 1, k)

\* t is the block through which item x is streamed.
Shows(t, b, x, p, k) ==
    /\ t[1] = OwnIndex(b, x, k) /\ t[2] = BlockOf(k) /\ t[3] = x
    /\ t[1] \in 0 .. (b.nextIndex - 1) /\ t[1] # Absent
    /\ p < ClosesAt(k) => t[1] \notin b.closedIndex
    /\ p >= ClosesAt(k) => t[1] \in b.closedIndex

\* An item that is being streamed has such a block.
LEMMA OwnBlock ==
    ASSUME NEW b, NEW x \in Items, NEW p \in Nat, NEW k \in FaithfulKinds,
           Before(b, x, p, k), k \in Streamed, p >= OpensAt(k)
    PROVE  \E t \in BlocksIn(b.out) : Shows(t, b, x, p, k)
<1>1. PICK t \in BlocksOf(b, x) : t[2] = BlockOf(k) /\ t[1] = OwnIndex(b, x, k)
  BY DEF Before, ItemInv
<1>2. t \in BlocksIn(b.out) /\ t[3] = x
  BY DEF BlocksOf
<1>3. t[1] \in 0 .. (b.nextIndex - 1) /\ b.nextIndex \in Nat
  BY <1>2, BlockFacts, SoundTypes DEF Before, Good
<1>4. t[1] # Absent
  BY <1>3 DEF Absent
<1>5. OpensAt(k) \in Nat /\ ClosesAt(k) \in Nat
  BY KindFacts
<1>6. p < ClosesAt(k) => t[1] \notin b.closedIndex
  BY <1>1, <1>5 DEF Before, StillOpen
<1>7. p >= ClosesAt(k) => t[1] \in b.closedIndex
  BY <1>1, <1>5 DEF Before, ItemInv
<1> QED
  BY <1>1, <1>2, <1>3, <1>4, <1>6, <1>7 DEF Shows

\* Blocks are never taken back, so what the maps say of them stays true.
LEMMA MappedKept ==
    ASSUME NEW b, NEW c, Mapped(b), BlocksIn(b.out) \subseteq BlocksIn(c.out),
           c.textIndexByKey = b.textIndexByKey, c.thinkingIndex = b.thinkingIndex,
           c.toolIndexByItemID = b.toolIndexByItemID, c.toolIndexByOutput = b.toolIndexByOutput
    PROVE  Mapped(c)
BY DEF Mapped

\* An event that comes before the item is shown.
LEMMA Quiet ==
    ASSUME NEW b, NEW c, NEW x \in Items, NEW p \in Nat, NEW k \in FaithfulKinds,
           Before(b, x, p, k), p + 1 < OpensAt(k),
           k \notin CommentaryKinds \/ p > 0, k \notin ToolKinds,
           Step(b, c, {}, {}, {}), c.started
    PROVE  Advance(b, c, x, p, k)
<1>1. OpensAt(k) \in Nat /\ ClosesAt(k) \in Nat /\ Len(Script(k)) \in Nat
  BY KindFacts
<1>2. Mapped(c)
  BY MappedKept DEF Step, Effect, SameState, Before
<1>3. Touches(b, c, x, k)
  BY DEF Step, Effect, SameState, SameEntries, Touches
<1>4. p < OpensAt(k) /\ p + 1 <= Len(Script(k))
  BY <1>1 DEF Before
<1>5. /\ BlocksOf(c, x) = {} /\ NoEntry(c, x)
      /\ k \in ReasoningKinds => c.thinkingIndex = Absent
  BY <1>4 DEF Before, ItemInv, Step, Effect, SameState, NoEntry, BlocksOf
<1>6. x \in c.ignoredMessageItemID <=> k \in CommentaryKinds /\ p + 1 > 0
  BY DEF Before, ItemInv, Step, SameState
<1>7. ~ (k \in WithArguments)
  BY DEF WithArguments, ToolKinds, CallKinds, DirectTools
<1>8. ItemInv(c, x, p + 1, k) /\ StillOpen(c, x, p + 1, k)
  BY <1>1, <1>4, <1>5, <1>6, <1>7 DEF ItemInv, StillOpen
<1> QED
  BY <1>2, <1>3, <1>8 DEF Advance, Step

\* c is b after the block i of item x was opened, with the deltas D.
Opens(b, c, x, k, i, D) ==
    /\ Good(c) /\ c.started /\ Mapped(c)
    /\ i \notin b.closedIndex
    /\ Effect(b, c, {<<i, BlockOf(k), x>>}, D, {})
    /\ \A d \in D : d[1] = i /\ d[3] = x
    /\ OwnIndex(c, x, k) = i
    /\ \A y \in Items \ {x} : SameEntries(b, c, y)
    /\ c.ignoredMessageItemID = b.ignoredMessageItemID
    /\ k # "reasoning" => c.thinkingIndex = b.thinkingIndex
    /\ c.toolUsed <=> b.toolUsed \/ k \in ToolKinds

\* The event opens the item's block, which will be streamed.
LEMMA Opened ==
    ASSUME NEW b, NEW c, NEW x \in Items, NEW p \in Nat, NEW k \in FaithfulKinds,
           Before(b, x, p, k), k \in Streamed, p + 1 = OpensAt(k),
           k \in CommentaryKinds => p > 0,
           NEW i, NEW D, Opens(b, c, x, k, i, D)
    PROVE  Advance(b, c, x, p, k)
<1> DEFINE t == <<i, BlockOf(k), x>>
<1> USE DEF Opens
<1>0. t[1] = i /\ t[2] = BlockOf(k) /\ t[3] = x
  OBVIOUS
<1>1. /\ OpensAt(k) \in Nat /\ ClosesAt(k) \in Nat /\ Len(Script(k)) \in Nat
      /\ OpensAt(k) < ClosesAt(k)
  BY KindFacts
<1>2. /\ BlocksIn(c.out) = BlocksIn(b.out) \cup {t}
      /\ DeltasIn(c.out) = DeltasIn(b.out) \cup D
      /\ c.closedIndex = b.closedIndex
  BY DEF Effect
<1> HIDE DEF t
<1>3. Touches(b, c, x, k)
  <2>1. \A d \in D : \E u \in BlocksIn(c.out) : u[1] = d[1] /\ d[3] \in Of(u[3])
    BY <1>0, <1>2 DEF Of
  <2> QED
    BY <1>0, <1>2, <2>1 DEF Touches
<1>4. p < OpensAt(k) /\ p + 1 <= Len(Script(k)) /\ p + 1 < ClosesAt(k)
  BY <1>1 DEF Before
<1>5. BlocksOf(c, x) = {t}
  BY <1>0, <1>2, <1>4 DEF BlocksOf, Before, ItemInv
<1>6. x \in c.ignoredMessageItemID <=> k \in CommentaryKinds /\ p + 1 > 0
  BY DEF Before, ItemInv
<1>7. ~ (k \in WithArguments /\ p + 1 >= 2)
  <2>1. k \in WithArguments => k \in ToolKinds
    BY DEF WithArguments, ToolKinds, CallKinds, DirectTools
  <2>2. k \in ToolKinds => OpensAt(k) = 1
    BY Positions
  <2> QED
    BY <2>1, <2>2
<1>8. ItemInv(c, x, p + 1, k)
  BY <1>0, <1>1, <1>4, <1>5, <1>6, <1>7 DEF ItemInv
<1>9. StillOpen(c, x, p + 1, k)
  BY <1>2 DEF StillOpen
<1> QED
  BY <1>3, <1>8, <1>9 DEF Advance

\* The event goes on with the item's block: it adds result blocks at most.
LEMMA GoesOn ==
    ASSUME NEW b, NEW c, NEW x \in Items, NEW p \in Nat, NEW k \in FaithfulKinds,
           Before(b, x, p, k), k \in Streamed, p >= OpensAt(k),
           NEW B, NEW D, NEW C, Step(b, c, B, D, C), c.started,
           \A t \in B : t[1] \in C /\ t[2] = "tool_result" /\ t[3] = x,
           \A i \in C : i = OwnIndex(b, x, k) \/ \E t \in B : t[1] = i,
           OwnIndex(b, x, k) \in C => p + 1 >= ClosesAt(k),
           p + 1 = ClosesAt(k) => OwnIndex(b, x, k) \in C,
           \A d \in D : d[2] = "signature_delta" \/ (d[1] = OwnIndex(b, x, k) /\ d[3] \in Of(x)),
           k \in WithArguments /\ p = 1 =>
              \E d \in D : d[2] = "input_json_delta" /\ d[3] \in Of(x)
    PROVE  Advance(b, c, x, p, k)
<1> DEFINE own == OwnIndex(b, x, k)
<1>1. /\ OpensAt(k) \in Nat /\ ClosesAt(k) \in Nat /\ Len(Script(k)) \in Nat
      /\ OpensAt(k) < ClosesAt(k) /\ OpensAt(k) >= 1
      /\ "tool_result" \notin MainBlocks(k)
  BY KindFacts
<1>2. /\ BlocksIn(c.out) = BlocksIn(b.out) \cup B
      /\ DeltasIn(c.out) = DeltasIn(b.out) \cup D
      /\ c.closedIndex = b.closedIndex \cup C
      /\ SameState(b, c) /\ Good(c)
  BY DEF Step, Effect
<1>3. PICK w \in BlocksIn(b.out) :
         /\ w[1] = own /\ w[2] = BlockOf(k) /\ w[3] = x
         /\ p < ClosesAt(k) => w[1] \notin b.closedIndex
         /\ p >= ClosesAt(k) => w[1] \in b.closedIndex
  BY OwnBlock DEF Shows
<1>4. OwnIndex(c, x, k) = own
  BY <1>2 DEF SameState, OwnIndex
<1> HIDE DEF own
<1>5. Mapped(c)
  BY <1>2, MappedKept DEF SameState, Before
<1>6. Touches(b, c, x, k)
  <2>1. \A i \in C : \E t \in BlocksIn(c.out) : t[1] = i /\ t[3] = x
    BY <1>2, <1>3 DEF own
  <2>2. \A d \in D : \/ d[2] = "signature_delta"
                    \/ \E t \in BlocksIn(c.out) : t[1] = d[1] /\ d[3] \in Of(t[3])
    BY <1>2, <1>3 DEF own
  <2>3. k \in ToolKinds => b.toolUsed
    BY <1>1 DEF Before
  <2>4. c.toolUsed <=> b.toolUsed \/ k \in ToolKinds
    BY <2>3, <1>2 DEF SameState
  <2>5. \A y \in Items \ {x} : SameEntries(b, c, y)
    BY <1>2 DEF SameState, SameEntries
  <2> QED
    BY <1>2, <2>1, <2>2, <2>4, <2>5 DEF SameState, Touches
<1>7. x \in c.ignoredMessageItemID <=> k \in CommentaryKinds /\ p + 1 > 0
  BY <1>1, <1>2 DEF SameState, Before, ItemInv
<1>8. p + 1 <= Len(Script(k)) /\ ~ (p + 1 < OpensAt(k)) /\ p + 1 >= OpensAt(k)
  BY <1>1 DEF Before
<1>9. BlocksOf(c, x) = BlocksOf(b, x) \cup B
  BY <1>2 DEF BlocksOf
<1>10. \A t \in BlocksOf(c, x) :
          \/ t[1] \in c.closedIndex
          \/ k \in Streamed /\ p + 1 < ClosesAt(k) /\ t[1] = own /\ t[2] = BlockOf(k)
  <2> SUFFICES ASSUME NEW t \in BlocksOf(c, x), t[1] \notin c.closedIndex
               PROVE  p + 1 < ClosesAt(k) /\ t[1] = own /\ t[2] = BlockOf(k)
    OBVIOUS
  <2>1. t \notin B /\ t[1] \notin b.closedIndex
    BY <1>2
  <2>2. p < ClosesAt(k) /\ t[1] = own /\ t[2] = BlockOf(k)
    BY <2>1, <1>9 DEF Before, ItemInv, own
  <2>3. p + 1 # ClosesAt(k)
    BY <2>2, <1>2 DEF own
  <2> QED
    BY <2>2, <2>3, <1>1
<1>11. k \in WithArguments /\ p + 1 >= 2 =>
          \E d \in DeltasIn(c.out) : d[2] = "input_json_delta" /\ d[3] \in Of(x)
  <2> SUFFICES ASSUME k \in WithArguments, p + 1 >= 2
               PROVE  \E d \in DeltasIn(c.out) : d[2] = "input_json_delta" /\ d[3] \in Of(x)
    OBVIOUS
  <2>1. CASE p = 1
    BY <2>1, <1>2
  <2>2. CASE p >= 2
    BY <2>2, <1>2 DEF Before, ItemInv
  <2> QED
    BY <2>1, <2>2
<1>12. \E t \in BlocksOf(c, x) :
          /\ t[2] = BlockOf(k)
          /\ k \in Streamed => t[1] = own
          /\ \A u \in BlocksOf(c, x) : u[2] \in MainBlocks(k) => u = t
  <2>1. PICK t \in BlocksOf(b, x) :
           /\ t[2] = BlockOf(k) /\ t[1] = own
           /\ \A u \in BlocksOf(b, x) : u[2] \in MainBlocks(k) => u = t
    BY DEF Before, ItemInv, own
  <2>2. \A u \in BlocksOf(c, x) : u[2] \in MainBlocks(k) => u = t
    BY <2>1, <1>1, <1>9
  <2> QED
    BY <2>1, <2>2, <1>9
<1>13. ItemInv(c, x, p + 1, k)
  BY <1>4, <1>7, <1>8, <1>10, <1>11, <1>12 DEF ItemInv
<1>14. StillOpen(c, x, p + 1, k)
  <2> SUFFICES ASSUME p + 1 < ClosesAt(k)
               PROVE  own \notin c.closedIndex
    BY <1>4 DEF StillOpen
  <2>1. own \notin b.closedIndex
    BY <1>1, <1>3
  <2>2. own \notin C
    BY <1>1 DEF own
  <2> QED
    BY <2>1, <2>2, <1>2
<1> QED
  BY <1>2, <1>5, <1>6, <1>13, <1>14 DEF Advance, Step

\* The event shows the whole item, in closed blocks.
LEMMA Whole ==
    ASSUME NEW b, NEW c, NEW x \in Items, NEW p \in Nat, NEW k \in FaithfulKinds,
           Before(b, x, p, k), k \notin Streamed, p + 1 = OpensAt(k), k \notin CommentaryKinds,
           Good(c), c.started,
           NEW B, NEW D, NEW C, Effect(b, c, B, D, C),
           \A t \in B : t[1] \in C /\ t[3] = x,
           \A i \in C : \E t \in B : t[1] = i,
           \E t \in B : t[2] = BlockOf(k) /\ \A u \in B : u[2] \in MainBlocks(k) => u = t,
           \A d \in D : \E t \in B : t[1] = d[1] /\ d[3] = x,
           \A y \in Items \ {x} : SameEntries(b, c, y),
           c.textIndexByKey = b.textIndexByKey, c.thinkingIndex = b.thinkingIndex,
           c.toolIndexByItemID = b.toolIndexByItemID, c.toolIndexByOutput = b.toolIndexByOutput,
           c.ignoredMessageItemID = b.ignoredMessageItemID, c.toolUsed = b.toolUsed
    PROVE  Advance(b, c, x, p, k)
<1>1. /\ OpensAt(k) \in Nat /\ ClosesAt(k) \in Nat /\ Len(Script(k)) \in Nat
  BY KindFacts
<1>2. /\ BlocksIn(c.out) = BlocksIn(b.out) \cup B
      /\ DeltasIn(c.out) = DeltasIn(b.out) \cup D
      /\ c.closedIndex = b.closedIndex \cup C
  BY DEF Effect
<1>3. Mapped(c)
  BY <1>2, MappedKept DEF Before
<1>4. k \notin ToolKinds /\ k \notin WithArguments
  BY DEF Streamed, WithArguments, ToolKinds, CallKinds, DirectTools
<1>5. Touches(b, c, x, k)
  <2>1. \A d \in D : \E t \in BlocksIn(c.out) : t[1] = d[1] /\ d[3] \in Of(t[3])
    BY <1>2 DEF Of
  <2>2. \A i \in C : \E t \in BlocksIn(c.out) : t[1] = i /\ t[3] = x
    BY <1>2
  <2>3. \A t \in BlocksIn(c.out) : t \in BlocksIn(b.out) \/ t[3] = x
    BY <1>2
  <2> QED
    BY <1>2, <1>4, <2>1, <2>2, <2>3 DEF Touches
<1>6. BlocksOf(b, x) = {}
  BY <1>1 DEF Before, ItemInv
<1>7. BlocksOf(c, x) = B
  BY <1>2, <1>6 DEF BlocksOf
<1>8. x \notin c.ignoredMessageItemID
  BY DEF Before, ItemInv
<1>9. p + 1 <= Len(Script(k))
  BY <1>1 DEF Before
<1>10. \A t \in B : t[1] \in c.closedIndex
  BY <1>2
<1>11. ItemInv(c, x, p + 1, k)
  BY <1>1, <1>4, <1>7, <1>8, <1>9, <1>10 DEF ItemInv
<1>12. StillOpen(c, x, p + 1, k)
  BY DEF StillOpen
<1> QED
  BY <1>3, <1>5, <1>11, <1>12 DEF Advance

-----------------------------------------------------------------------------
(* Every handler advances its item                                          *)

Advances(x, p, k) ==
    \E c : Advance(bridge, c, x, p, k) /\ (Return(c) \/ ReturnError(c))

LEMMA ItemFacts ==
    ASSUME NEW x \in Items
    PROVE  /\ x \in ItemIds /\ x \in Owners /\ x # NoItem
           /\ OutputOf[x] \in Outputs /\ Of(x) \subseteq Owners /\ x \in Of(x)
           /\ contentKey(x, OutputOf[x], 0) = <<x, 0>>
           /\ <<x, 0>> \in Keys /\ <<x, 0>>[1] = x
           /\ \A y \in Items, part \in Parts : <<y, part>> \in Keys
BY UpstreamAssumption, BridgeAssumption DEF ItemIds, Owners, contentKey, owner, Keys, Of

\* An event that is waited out before the item is shown.
LEMMA Waits ==
    ASSUME NEW x \in Items, NEW p \in Nat, NEW k \in FaithfulKinds,
           Before(bridge, x, p, k), p + 1 < OpensAt(k),
           k \notin CommentaryKinds \/ p > 0, k \notin ToolKinds,
           Return(bridge) \/ ReturnError(bridge)
    PROVE  Advances(x, p, k)
<1>1. Step(bridge, bridge, {}, {}, {}) /\ bridge.started
  BY StepRefl DEF Before
<1>2. Advance(bridge, bridge, x, p, k)
  BY <1>1, Quiet
<1> QED
  BY <1>2 DEF Advances

\* The message has started once the response was created.
LEMMA Ensured ==
    ASSUME NEW b, NEW x, NEW p, NEW k, Before(b, x, p, k)
    PROVE  ensureMessageStart(b) = b
BY DEF Before, ensureMessageStart

\* A block and its first delta.
LEMMA ThenDelta ==
    ASSUME NEW b, NEW c, NEW i, NEW w, NEW x \in Items, NEW what \in Details,
           Good(c), c.started, Mapped(c), Effect(b, c, {<<i, w, x>>}, {}, {}),
           i \notin b.closedIndex, what \in Protocol!Deltas(w), what # "signature_delta"
    PROVE  LET d == sendEvent(c, BlockDelta(i, what, x))
           IN  /\ Good(d) /\ d.started /\ Mapped(d) /\ SameState(c, d)
               /\ Effect(b, d, {<<i, w, x>>}, {<<i, what, x>>}, {})
<1> DEFINE t == <<i, w, x>>
           d == sendEvent(c, BlockDelta(i, what, x))
           e == sendEvent(c, BlockDelta(t[1], what, x))
<1>1. t[1] = i /\ t[2] = w /\ d = e
  OBVIOUS
<1>2. t \in BlocksIn(c.out) /\ c.closedIndex = b.closedIndex
  BY DEF Effect
<1> HIDE DEF t
<1>3. t[1] \notin c.closedIndex /\ what \in Protocol!Deltas(t[2]) /\ x \in Owners
  BY <1>1, <1>2, ItemFacts
<1>4. Step(c, e, {}, {<<t[1], what, x>>}, {}) /\ e.started
  BY <1>2, <1>3, DeltaStep
<1> HIDE DEF d, e
<1>5. Step(c, d, {}, {<<i, what, x>>}, {}) /\ d.started
  BY <1>1, <1>4
<1>6. Mapped(d)
  BY <1>5, MappedKept DEF Step, Effect, SameState
<1> QED
  BY <1>5, <1>6 DEF Step, Effect, d, t

\* The text block of an item's part.
LEMMA TextOpens ==
    ASSUME NEW b, NEW x \in Items, NEW p \in Nat, NEW k \in FaithfulKinds,
           Before(b, x, p, k), k \in TextKinds, p + 1 = OpensAt(k)
    PROVE  LET c == ensureTextBlock(b, <<x, 0>>, BlockOf(k))
               n == b.nextIndex
           IN  /\ Good(c) /\ c.started /\ Mapped(c)
               /\ Effect(b, c, {<<n, BlockOf(k), x>>}, {}, {}) /\ n \notin b.closedIndex
               /\ c.textIndexByKey[<<x, 0>>] = n
               /\ \A y \in Items \ {x} : SameEntries(b, c, y)
               /\ c.ignoredMessageItemID = b.ignoredMessageItemID
               /\ c.thinkingIndex = b.thinkingIndex /\ c.toolUsed = b.toolUsed
<1> DEFINE key == <<x, 0>>
           c == ensureTextBlock(b, key, BlockOf(k))
           n == b.nextIndex
<1>1. key \in Keys /\ key[1] = x /\ \A y \in Items, part \in Parts : <<y, part>> \in Keys
  BY ItemFacts
<1>2. b \in Bridge /\ n \in Nat /\ n \notin b.closedIndex
  BY SoundTypes, BlockFacts DEF Before, Good, Bridge
<1>3. BlockOf(k) \in {"text", "refusal"}
  BY Positions DEF TextKinds
<1>4. b.textIndexByKey[key] = Absent
  <2>1. p < OpensAt(k)
    BY KindFacts
  <2> QED
    BY <2>1, UpstreamAssumption DEF Before, ItemInv, NoEntry
<1> HIDE DEF key
<1>5. /\ Good(c) /\ Effect(b, c, {<<n, BlockOf(k), key[1]>>}, {}, {})
      /\ SameState([b EXCEPT !.textIndexByKey[key] = n], c) /\ c.started
  BY <1>1, <1>3, <1>4, OpenTextStep DEF Before
<1> HIDE DEF c
<1>6. /\ c.textIndexByKey = [b.textIndexByKey EXCEPT ![key] = n]
      /\ c.ignoredMessageItemID = b.ignoredMessageItemID
      /\ c.toolIndexByItemID = b.toolIndexByItemID /\ c.toolIndexByOutput = b.toolIndexByOutput
      /\ c.toolUsed = b.toolUsed /\ c.thinkingIndex = b.thinkingIndex
      /\ c.webSearchEmitted = b.webSearchEmitted
  BY <1>2, <1>5 DEF SameState, Bridge
<1>7. b.textIndexByKey \in [Keys -> Index]
  BY <1>2 DEF Bridge
<1>8. c.textIndexByKey[key] = n /\ \A other \in Keys \ {key} : c.textIndexByKey[other] = b.textIndexByKey[other]
  BY <1>1, <1>6, <1>7
<1>9. \A y \in Items \ {x} : SameEntries(b, c, y)
  <2>1. \A y \in Items \ {x}, part \in Parts : <<y, part>> # key
    BY DEF key
  <2> QED
    BY <2>1, <1>1, <1>6, <1>8 DEF SameEntries
<1>10. Mapped(c)
  <2> DEFINE t == <<n, BlockOf(k), x>>
  <2>1. t \in BlocksIn(c.out) /\ t[1] = n /\ t[2] = BlockOf(k) /\ BlocksIn(b.out) \subseteq BlocksIn(c.out)
    BY <1>1, <1>5 DEF Effect
  <2> HIDE DEF t
  <2> QED
    BY <2>1, <1>3, <1>6, <1>8 DEF Mapped, Before
<1> QED
  BY <1>1, <1>2, <1>5, <1>6, <1>8, <1>9, <1>10 DEF key, c

\* An event that adds nothing to the item's block.
LEMMA Stays ==
    ASSUME NEW x \in Items, NEW p \in Nat, NEW k \in FaithfulKinds,
           Before(bridge, x, p, k), k \in Streamed, p >= OpensAt(k), p + 1 # ClosesAt(k),
           ~ (k \in WithArguments /\ p = 1),
           Return(bridge) \/ ReturnError(bridge)
    PROVE  Advances(x, p, k)
<1>1. Step(bridge, bridge, {}, {}, {}) /\ bridge.started
  BY StepRefl DEF Before
<1>2. Advance(bridge, bridge, x, p, k)
  BY <1>1, GoesOn
<1> QED
  BY <1>2 DEF Advances

\* A delta for the item's open block, that speaks of the item in either way.
LEMMA StreamsFor ==
    ASSUME NEW b, NEW x \in Items, NEW p \in Nat, NEW k \in FaithfulKinds,
           Before(b, x, p, k), k \in Streamed, p >= OpensAt(k), p < ClosesAt(k),
           NEW what \in Details, what \in Protocol!Deltas(BlockOf(k)), what # "signature_delta",
           NEW item \in Of(x)
    PROVE  LET c == sendEvent(b, BlockDelta(OwnIndex(b, x, k), what, item))
           IN  /\ Step(b, c, {}, {<<OwnIndex(b, x, k), what, item>>}, {}) /\ c.started
               /\ c.nextIndex = b.nextIndex
<1>0. PICK t \in BlocksIn(b.out) : Shows(t, b, x, p, k)
  BY OwnBlock
<1>1. t[1] = OwnIndex(b, x, k) /\ t[2] = BlockOf(k) /\ t[1] \notin b.closedIndex
  BY <1>0 DEF Shows
<1>2. Good(b) /\ b.started /\ item \in Owners /\ what \in Protocol!Deltas(t[2])
  BY <1>1, ItemFacts DEF Before
<1>3. LET c == sendEvent(b, BlockDelta(t[1], what, item))
      IN  Step(b, c, {}, {<<t[1], what, item>>}, {}) /\ c.started /\ c.nextIndex = b.nextIndex
  BY <1>1, <1>2, DeltaStep
<1> QED
  BY <1>1, <1>3

\* A delta for the item's open block.
LEMMA Streams ==
    ASSUME NEW b, NEW x \in Items, NEW p \in Nat, NEW k \in FaithfulKinds,
           Before(b, x, p, k), k \in Streamed, p >= OpensAt(k), p < ClosesAt(k),
           NEW what \in Details, what \in Protocol!Deltas(BlockOf(k)), what # "signature_delta"
    PROVE  LET c == sendEvent(b, BlockDelta(OwnIndex(b, x, k), what, x))
           IN  /\ Step(b, c, {}, {<<OwnIndex(b, x, k), what, x>>}, {}) /\ c.started
               /\ c.nextIndex = b.nextIndex
<1>1. x \in Of(x)
  BY ItemFacts
<1> QED
  BY <1>1, StreamsFor

\* The stop of an item's block that is no thinking block, open or not.
LEMMA Closes ==
    ASSUME NEW b, NEW c, NEW x \in Items, NEW p \in Nat, NEW k \in FaithfulKinds,
           Before(b, x, p, k), k \in Streamed, k # "reasoning", p >= OpensAt(k),
           NEW D, Step(b, c, {}, D, {}), c.started, c.nextIndex = b.nextIndex
    PROVE  LET e == closeContentBlock(c, OwnIndex(b, x, k))
           IN  Step(b, e, {}, D, {OwnIndex(b, x, k)}) /\ e.started
<1> DEFINE own == OwnIndex(b, x, k)
           e == closeContentBlock(c, own)
<1>0. PICK t \in BlocksIn(b.out) : Shows(t, b, x, p, k)
  BY OwnBlock
<1>1. t[1] = own /\ t[2] = BlockOf(k) /\ t[1] \in 0 .. (b.nextIndex - 1)
  BY <1>0 DEF Shows
<1>2. BlockOf(k) # "thinking"
  BY Positions DEF Streamed, TextKinds
<1>3. BlocksIn(c.out) = BlocksIn(b.out) /\ Good(c) /\ own \in 0 .. (c.nextIndex - 1)
  BY <1>1 DEF Step, Effect
<1> HIDE DEF own
<1>4. \A u \in BlocksIn(c.out) : u[1] = own => u[2] # "thinking"
  BY <1>1, <1>2, <1>3, BlockFacts DEF Good
<1>5. Step(c, e, {}, {}, {own}) /\ e.started
  BY <1>3, <1>4, CloseStep
<1> HIDE DEF e
<1>6. Step(b, e, {}, D, {own})
  BY <1>5 DEF Step, Effect, SameState
<1> QED
  BY <1>5, <1>6 DEF own, e

\* content_part.added, output_text.delta and content_part.done of a message.
LEMMA MessageAdvances ==
    ASSUME NEW x \in Items, NEW p \in Nat, Before(bridge, x, p, "message"),
           \/ p = 1 /\ ContentPartAdded(x, OutputOf[x], 0, TRUE)
           \/ p \in {2, 3} /\ OutputTextDelta(x, OutputOf[x], 0)
           \/ p = 4 /\ \E n \in 0 .. MaxCitations : ContentPartDone(x, OutputOf[x], 0, n)
           \/ p = 5 /\ MessageItemDone(x, 1)
    PROVE  Advances(x, p, "message")
<1> DEFINE k == "message"
           b == bridge
           key == <<x, 0>>
           own == OwnIndex(b, x, k)
<1>1. /\ k \in FaithfulKinds /\ k \in Streamed /\ k \in TextKinds /\ k # "reasoning"
      /\ k \notin CommentaryKinds /\ k \notin ToolKinds
  BY DEF FaithfulKinds, Streamed, TextKinds, CommentaryKinds, WithArguments, ToolKinds,
         CallKinds, DirectTools, ConvertedTools
<1>1a. k \notin WithArguments
  BY DEF WithArguments
<1>2. OpensAt(k) = 2 /\ ClosesAt(k) = 5 /\ BlockOf(k) = "text"
  BY Positions
<1>3. /\ contentKey(x, OutputOf[x], 0) = key /\ key \in Keys /\ key[1] = x
      /\ Before(b, x, p, k)
  BY ItemFacts
<1>4. x \notin b.ignoredMessageItemID /\ ensureMessageStart(b) = b
  BY <1>1, Ensured DEF Before, ItemInv
<1>5. own = b.textIndexByKey[key]
  BY <1>1 DEF OwnIndex
<1>6. p >= 2 => own # Absent
  <2>1. p >= 2 => \E t \in BlocksIn(b.out) : Shows(t, b, x, p, k)
    BY <1>1, <1>2, <1>3, OwnBlock
  <2> QED
    BY <2>1 DEF Shows
<1>7. \A what \in {"text_delta", "citations_delta"} :
         what \in Protocol!Deltas(BlockOf(k)) /\ what \in Details /\ what # "signature_delta"
  BY <1>2 DEF Protocol!Deltas, Details
<1> HIDE DEF k
<1>8. CASE p = 1 /\ ContentPartAdded(x, OutputOf[x], 0, TRUE)
  <2> DEFINE c == ensureTextBlock(b, key, "text")
  <2>1. Return(c)
    BY <1>3, <1>4, <1>8 DEF ContentPartAdded
  <2>2. /\ Good(c) /\ c.started /\ Mapped(c)
        /\ Effect(b, c, {<<b.nextIndex, BlockOf(k), x>>}, {}, {}) /\ b.nextIndex \notin b.closedIndex
        /\ c.textIndexByKey[key] = b.nextIndex
        /\ \A y \in Items \ {x} : SameEntries(b, c, y)
        /\ c.ignoredMessageItemID = b.ignoredMessageItemID
        /\ c.thinkingIndex = b.thinkingIndex /\ c.toolUsed = b.toolUsed
    <3>1. p + 1 = OpensAt(k) /\ ensureTextBlock(b, <<x, 0>>, BlockOf(k)) = c
      BY <1>2, <1>8
    <3> HIDE DEF c
    <3> QED
      BY <1>1, <1>3, <3>1, TextOpens
  <2> HIDE DEF c
  <2>3. OwnIndex(c, x, k) = b.nextIndex
    BY <1>1, <2>2 DEF OwnIndex
  <2>4. Opens(b, c, x, k, b.nextIndex, {}) /\ p + 1 = OpensAt(k)
    BY <1>1, <1>2, <1>8, <2>2, <2>3 DEF Opens
  <2>5. Advance(b, c, x, p, k)
    BY <1>1, <1>3, <2>4, Opened
  <2> QED
    BY <2>1, <2>5 DEF Advances, k
<1>9. CASE p \in {2, 3} /\ OutputTextDelta(x, OutputOf[x], 0)
  <2> DEFINE c == sendEvent(b, BlockDelta(own, "text_delta", x))
  <2>1. ensureTextBlock(b, key, "text") = b
    BY <1>5, <1>6, <1>9 DEF ensureTextBlock
  <2>2. Return(c)
    BY <1>3, <1>4, <1>5, <1>9, <2>1 DEF OutputTextDelta, textDelta
  <2>2a. p >= OpensAt(k) /\ p < ClosesAt(k)
    BY <1>2, <1>9
  <2>3. Step(b, c, {}, {<<own, "text_delta", x>>}, {}) /\ c.started
    BY <1>1, <1>3, <1>7, <2>2a, Streams
  <2> HIDE DEF c, own
  <2>4. <<own, "text_delta", x>>[1] = own /\ <<own, "text_delta", x>>[3] = x
    OBVIOUS
  <2>5. Advance(b, c, x, p, k)
    BY <1>1, <1>2, <1>1a, <1>3, <1>9, <2>3, <2>4, ItemFacts, GoesOn DEF own
  <2> QED
    BY <2>2, <2>5 DEF Advances, k
<1>10. ASSUME p = 4, NEW n \in 0 .. MaxCitations, ContentPartDone(x, OutputOf[x], 0, n)
       PROVE  Advances(x, p, k)
  <2> DEFINE c == emitCitationsDelta(b, key, n)
             D == IF n = 0 THEN {} ELSE {<<own, "citations_delta", x>>}
             e == closeContentBlock(c, own)
  <2>1. Return(e)
    BY <1>3, <1>4, <1>5, <1>6, <1>10 DEF ContentPartDone
  <2>2. Step(b, c, {}, D, {}) /\ c.started /\ c.nextIndex = b.nextIndex
    <3>1. CASE n = 0
      BY <3>1, <1>3, StepRefl DEF emitCitationsDelta, Before
    <3>2. CASE n # 0
      <4>1. c = sendEvent(b, BlockDelta(own, "citations_delta", x))
        BY <3>2, <1>3, <1>5 DEF emitCitationsDelta
      <4>2. LET f == sendEvent(b, BlockDelta(own, "citations_delta", x))
            IN  /\ Step(b, f, {}, {<<own, "citations_delta", x>>}, {}) /\ f.started
                /\ f.nextIndex = b.nextIndex
        BY <1>1, <1>2, <1>3, <1>7, <1>10, Streams
      <4> QED
        BY <3>2, <4>1, <4>2
    <3> QED
      BY <3>1, <3>2
  <2>3. \A d \in D : d[1] = own /\ d[3] = x
    OBVIOUS
  <2> HIDE DEF c, D
  <2>4. Step(b, e, {}, D, {own}) /\ e.started
    BY <1>1, <1>2, <1>3, <1>10, <2>2, Closes
  <2> HIDE DEF e
  <2>5. Advance(b, e, x, p, k)
    BY <1>1, <1>2, <1>3, <1>1a, <1>10, <2>3, <2>4, ItemFacts, GoesOn
  <2> QED
    BY <2>1, <2>5 DEF Advances
<1>11. CASE p = 5 /\ MessageItemDone(x, 1)
  <2>1. hasStreamedMessageItem(b, x)
    BY <1>5, <1>6, <1>11, ItemFacts, UpstreamAssumption DEF hasStreamedMessageItem
  <2>2. Return(b)
    BY <1>11, <2>1 DEF MessageItemDone
  <2> QED
    BY <1>1, <1>2, <1>3, <1>1a, <1>11, <2>2, Stays DEF k
<1> QED
  BY <1>8, <1>9, <1>10, <1>11 DEF k

\* An event that closes the item's block, or finds it closed.
LEMMA JustCloses ==
    ASSUME NEW b, NEW x \in Items, NEW p \in Nat, NEW k \in FaithfulKinds,
           Before(b, x, p, k), k \in Streamed, k # "reasoning", p >= OpensAt(k),
           p + 1 >= ClosesAt(k), ~ (k \in WithArguments /\ p = 1)
    PROVE  Advance(b, closeContentBlock(b, OwnIndex(b, x, k)), x, p, k)
<1> DEFINE own == OwnIndex(b, x, k)
           e == closeContentBlock(b, own)
<1>1. Step(b, b, {}, {}, {}) /\ b.started
  BY StepRefl DEF Before
<1>2. Step(b, e, {}, {}, {own}) /\ e.started
  BY <1>1, Closes
<1> HIDE DEF e
<1>3. Advance(b, e, x, p, k)
  BY <1>2, GoesOn
<1> QED
  BY <1>3 DEF e

\* refusal.delta, refusal.done and the parts of a refusal.
LEMMA RefusalAdvances ==
    ASSUME NEW x \in Items, NEW p \in Nat, NEW k \in RefusalKinds, Before(bridge, x, p, k),
           \/ p = 1 /\ ContentPartAdded(x, OutputOf[x], 0, FALSE)
           \/ p = 2 /\ RefusalDelta(x, OutputOf[x], 0)
           \/ p = 3 /\ RefusalDone(x, OutputOf[x], 0)
           \/ p = 4 /\ ContentPartDone(x, OutputOf[x], 0, 0)
           \/ p = 5 /\ \E n \in 0 .. 1 : MessageItemDone(x, n)
    PROVE  Advances(x, p, k)
<1> DEFINE b == bridge
           key == <<x, 0>>
           own == OwnIndex(b, x, k)
<1>1. /\ k \in FaithfulKinds /\ k \in Streamed /\ k \in TextKinds /\ k # "reasoning"
      /\ k \notin ToolKinds /\ k \notin WithArguments
  BY DEF FaithfulKinds, Streamed, TextKinds, RefusalKinds, WithArguments, ToolKinds, CallKinds,
         DirectTools, ConvertedTools
<1>2. OpensAt(k) = 3 /\ ClosesAt(k) = 4 /\ BlockOf(k) = "refusal"
  BY Positions
<1>3. /\ contentKey(x, OutputOf[x], 0) = key /\ key \in Keys /\ key[1] = x
      /\ Before(b, x, p, k)
  BY ItemFacts
<1>4. /\ p > 0 => (x \in b.ignoredMessageItemID <=> k = "commentary_refusal")
      /\ ensureMessageStart(b) = b
  BY <1>3, Ensured DEF Before, ItemInv, CommentaryKinds, RefusalKinds
<1>5. own = b.textIndexByKey[key]
  BY <1>1 DEF OwnIndex
<1>6. p >= 3 => own # Absent
  <2>1. p >= 3 => \E t \in BlocksIn(b.out) : Shows(t, b, x, p, k)
    BY <1>1, <1>2, <1>3, OwnBlock
  <2> QED
    BY <2>1 DEF Shows
<1>7. CASE p = 1 /\ ContentPartAdded(x, OutputOf[x], 0, FALSE)
  <2>1. Return(b)
    BY <1>7 DEF ContentPartAdded
  <2> QED
    BY <1>1, <1>2, <1>7, <2>1, Waits
<1>8. CASE p = 2 /\ RefusalDelta(x, OutputOf[x], 0)
  <2> DEFINE c == ensureTextBlock(b, key, "refusal")
             n == b.nextIndex
             d == sendEvent(c, BlockDelta(n, "text_delta", x))
             D == {<<n, "text_delta", x>>}
  <2>1. p + 1 = OpensAt(k) /\ (k \in CommentaryKinds => p > 0)
    BY <1>2, <1>8
  <2>2. LET o == ensureTextBlock(b, <<x, 0>>, BlockOf(k))
        IN  /\ Good(o) /\ o.started /\ Mapped(o)
            /\ Effect(b, o, {<<n, BlockOf(k), x>>}, {}, {}) /\ n \notin b.closedIndex
            /\ o.textIndexByKey[<<x, 0>>] = n
            /\ \A y \in Items \ {x} : SameEntries(b, o, y)
            /\ o.ignoredMessageItemID = b.ignoredMessageItemID
            /\ o.thinkingIndex = b.thinkingIndex /\ o.toolUsed = b.toolUsed
    BY <1>1, <1>3, <2>1, TextOpens
  <2>3. /\ Good(c) /\ c.started /\ Mapped(c)
        /\ Effect(b, c, {<<n, BlockOf(k), x>>}, {}, {}) /\ n \notin b.closedIndex
        /\ c.textIndexByKey[key] = n
        /\ \A y \in Items \ {x} : SameEntries(b, c, y)
        /\ c.ignoredMessageItemID = b.ignoredMessageItemID
        /\ c.thinkingIndex = b.thinkingIndex /\ c.toolUsed = b.toolUsed
    BY <1>2, <2>2
  <2>4. Return(d)
    BY <1>3, <1>4, <1>8, <2>3 DEF RefusalDelta, textDelta
  <2>5. "text_delta" \in Details /\ "text_delta" \in Protocol!Deltas(BlockOf(k))
    BY <1>2 DEF Details, Protocol!Deltas
  <2> HIDE DEF c, n
  <2>6. /\ Good(d) /\ d.started /\ Mapped(d) /\ SameState(c, d)
        /\ Effect(b, d, {<<n, BlockOf(k), x>>}, D, {})
    BY <2>3, <2>5, ThenDelta
  <2>7. \A e \in D : e[1] = n /\ e[3] = x
    OBVIOUS
  <2> HIDE DEF d, D
  <2>8. OwnIndex(d, x, k) = n
    BY <1>1, <2>3, <2>6 DEF OwnIndex, SameState
  <2>9. \A y \in Items \ {x} : SameEntries(b, d, y)
    BY <2>3, <2>6 DEF SameEntries, SameState
  <2>10. Opens(b, d, x, k, n, D)
    BY <1>1, <2>3, <2>6, <2>7, <2>8, <2>9 DEF Opens, SameState
  <2>11. Advance(b, d, x, p, k)
    BY <1>1, <1>3, <2>1, <2>10, Opened
  <2> QED
    BY <2>4, <2>11 DEF Advances
<1>9. CASE p = 3 /\ RefusalDone(x, OutputOf[x], 0)
  <2>1. Return(closeContentBlock(b, own))
    BY <1>3, <1>5, <1>6, <1>9 DEF RefusalDone
  <2>2. Advance(b, closeContentBlock(b, own), x, p, k)
    BY <1>1, <1>2, <1>3, <1>9, JustCloses
  <2> QED
    BY <2>1, <2>2 DEF Advances
<1>10. CASE p = 4 /\ ContentPartDone(x, OutputOf[x], 0, 0)
  <2>1. CASE x \in b.ignoredMessageItemID
    <3>1. Return(b)
      BY <1>10, <2>1 DEF ContentPartDone
    <3> QED
      BY <1>1, <1>2, <1>10, <3>1, Stays
  <2>2. CASE x \notin b.ignoredMessageItemID
    <3>1. Return(closeContentBlock(b, own))
      BY <1>3, <1>5, <1>6, <1>10, <2>2 DEF ContentPartDone, emitCitationsDelta
    <3>2. Advance(b, closeContentBlock(b, own), x, p, k)
      BY <1>1, <1>2, <1>3, <1>10, JustCloses
    <3> QED
      BY <3>1, <3>2 DEF Advances
  <2> QED
    BY <2>1, <2>2
<1>11. CASE p = 5 /\ \E n \in 0 .. 1 : MessageItemDone(x, n)
  <2>1. hasStreamedMessageItem(b, x)
    BY <1>5, <1>6, <1>11, ItemFacts, UpstreamAssumption DEF hasStreamedMessageItem
  <2>2. Return(b)
    BY <1>11, <2>1 DEF MessageItemDone
  <2> QED
    BY <1>1, <1>2, <1>11, <2>2, Stays
<1> QED
  BY <1>7, <1>8, <1>9, <1>10, <1>11

\* Commentary is passed over until the item is done.
LEMMA CommentaryAdvances ==
    ASSUME NEW x \in Items, NEW p \in Nat, Before(bridge, x, p, "commentary"),
           \/ p = 1 /\ ContentPartAdded(x, OutputOf[x], 0, TRUE)
           \/ p = 2 /\ OutputTextDelta(x, OutputOf[x], 0)
           \/ p = 3 /\ \E n \in 0 .. MaxCitations : ContentPartDone(x, OutputOf[x], 0, n)
           \/ p = 4 /\ MessageItemDone(x, 0)
    PROVE  Advances(x, p, "commentary")
<1>1. "commentary" \in FaithfulKinds /\ "commentary" \notin ToolKinds /\ OpensAt("commentary") = 6
  BY Positions DEF FaithfulKinds, WithArguments, ToolKinds, CallKinds, DirectTools, ConvertedTools
<1>0. p \in 1 .. 4
  <2>1. p = 1 \/ p = 2 \/ p = 3 \/ p = 4
    OBVIOUS
  <2> QED
    BY ONLY <2>1
<1>2. x \in bridge.ignoredMessageItemID
  <2>1. p > 0
    BY ONLY <1>0
  <2> QED
    BY <2>1 DEF Before, ItemInv, CommentaryKinds
<1>3. Return(bridge)
  BY <1>2 DEF ContentPartAdded, OutputTextDelta, ContentPartDone, MessageItemDone
<1>4. p > 0 /\ p + 1 < OpensAt("commentary")
  BY ONLY <1>0, <1>1
<1> QED
  BY <1>1, <1>3, <1>4, Waits

\* The deltas and the stop of reasoning that is streamed.
LEMMA ReasoningAdvances ==
    ASSUME NEW x \in Items, NEW p \in Nat, Before(bridge, x, p, "reasoning"),
           \/ p \in {1, 2} /\ ReasoningDelta(x)
           \/ p = 3 /\ ReasoningTextDone
           \/ p = 4 /\ ReasoningItemDone(x, 1)
    PROVE  Advances(x, p, "reasoning")
<1> DEFINE k == "reasoning"
           b == bridge
           own == OwnIndex(b, x, k)
<1>0. k \notin WithArguments
  BY DEF WithArguments
<1>1. /\ k \in FaithfulKinds /\ k \in Streamed /\ k \notin ToolKinds /\ k \in ReasoningKinds
      /\ k \notin CommentaryKinds /\ k \notin TextKinds /\ k = "reasoning"
  BY DEF FaithfulKinds, Streamed, TextKinds, RefusalKinds, WithArguments, ToolKinds, CallKinds,
         DirectTools, ConvertedTools,
         ReasoningKinds, CommentaryKinds
<1>2. OpensAt(k) = 2 /\ ClosesAt(k) = 4 /\ BlockOf(k) = "thinking"
  BY Positions
<1>3. Before(b, x, p, k) /\ ensureMessageStart(b) = b
  BY Ensured
<1>4. own = b.thinkingIndex
  BY <1>1 DEF OwnIndex
<1>5. p >= 2 => \E t \in BlocksIn(b.out) : Shows(t, b, x, p, k)
  BY <1>1, <1>2, <1>3, OwnBlock
<1>6. p >= 2 => thinkingStarted(b)
  BY <1>4, <1>5 DEF Shows, thinkingStarted
<1>7. /\ "thinking_delta" \in Details /\ "thinking_delta" \in Protocol!Deltas(BlockOf(k))
      /\ "thinking_delta" # "signature_delta"
  BY <1>2 DEF Details, Protocol!Deltas
<1> HIDE DEF k
<1>8. CASE p = 1 /\ ReasoningDelta(x)
  <2> DEFINE c == startThinkingBlock(b, x)
             n == b.nextIndex
             d == sendEvent(c, BlockDelta(n, "thinking_delta", x))
             D == {<<n, "thinking_delta", x>>}
  <2>1. b \in Bridge /\ n \in Nat /\ n \notin b.closedIndex
    BY <1>3, SoundTypes, BlockFacts DEF Before, Good, Bridge
  <2>2. p < OpensAt(k) /\ p + 1 = OpensAt(k)
    BY <1>2, <1>8
  <2>3. ~ thinkingStarted(b)
    BY <1>1, <1>3, <2>2 DEF Before, ItemInv, thinkingStarted
  <2>4. /\ Good(c) /\ Effect(b, c, {<<n, "thinking", x>>}, {}, {})
        /\ SameState([b EXCEPT !.thinkingIndex = n], c) /\ c.started
    BY <1>3, ItemFacts, StartThinkingStep DEF Before
  <2> HIDE DEF c
  <2>5. /\ c.thinkingIndex = n /\ c.textIndexByKey = b.textIndexByKey
        /\ c.ignoredMessageItemID = b.ignoredMessageItemID
        /\ c.toolIndexByItemID = b.toolIndexByItemID /\ c.toolIndexByOutput = b.toolIndexByOutput
        /\ c.toolUsed = b.toolUsed /\ c.webSearchEmitted = b.webSearchEmitted
    BY <2>1, <2>4 DEF SameState, Bridge
  <2>6. Return(d)
    BY <1>3, <1>8, <2>3, <2>5 DEF ReasoningDelta, c
  <2>7. Mapped(c)
    <3> DEFINE t == <<n, "thinking", x>>
    <3>1. t \in BlocksIn(c.out) /\ t[1] = n /\ t[2] = "thinking" /\ BlocksIn(b.out) \subseteq BlocksIn(c.out)
      BY <2>4 DEF Effect
    <3> HIDE DEF t
    <3> QED
      BY <1>3, <2>5, <3>1 DEF Mapped, Before
  <2> HIDE DEF n
  <2>8. /\ Good(d) /\ d.started /\ Mapped(d) /\ SameState(c, d)
        /\ Effect(b, d, {<<n, BlockOf(k), x>>}, D, {})
    BY <1>2, <1>7, <2>1, <2>4, <2>7, ThenDelta
  <2>9. \A e \in D : e[1] = n /\ e[3] = x
    OBVIOUS
  <2> HIDE DEF d, D
  <2>10. OwnIndex(d, x, k) = n
    BY <1>1, <2>5, <2>8 DEF OwnIndex, SameState
  <2>11. \A y \in Items \ {x} : SameEntries(b, d, y)
    BY <2>5, <2>8 DEF SameEntries, SameState
  <2>12. Opens(b, d, x, k, n, D)
    BY <1>1, <2>1, <2>5, <2>8, <2>9, <2>10, <2>11 DEF Opens, SameState
  <2>13. Advance(b, d, x, p, k)
    BY <1>1, <1>3, <2>2, <2>12, Opened
  <2> QED
    BY <2>6, <2>13 DEF Advances, k
<1>9. CASE p = 2 /\ ReasoningDelta(x)
  <2> DEFINE c == sendEvent(b, BlockDelta(own, "thinking_delta", x))
  <2>1. Return(c)
    BY <1>3, <1>4, <1>6, <1>9 DEF ReasoningDelta
  <2>2. p >= OpensAt(k) /\ p < ClosesAt(k) /\ p + 1 < ClosesAt(k)
    BY <1>2, <1>9
  <2>3. Step(b, c, {}, {<<own, "thinking_delta", x>>}, {}) /\ c.started
    BY <1>1, <1>3, <1>7, <2>2, Streams
  <2> HIDE DEF c, own
  <2>4. \A d \in {<<own, "thinking_delta", x>>} :
           d[2] = "signature_delta" \/ (d[1] = own /\ d[3] \in Of(x))
    BY DEF Of
  <2>5. Advance(b, c, x, p, k)
    BY <1>0, <1>1, <1>2, <1>3, <1>9, <2>2, <2>3, <2>4, ItemFacts, GoesOn DEF own
  <2> QED
    BY <2>1, <2>5 DEF Advances, k
<1>10. CASE p \in {3, 4} /\ (ReasoningTextDone \/ ReasoningItemDone(x, 1))
  <2> DEFINE c == closeThinkingBlock(b)
  <2>1. Return(c)
    BY <1>6, <1>10 DEF ReasoningTextDone, ReasoningItemDone
  <2>2. PICK t \in BlocksIn(b.out) : Shows(t, b, x, p, k)
    BY <1>5, <1>10
  <2>3. t[1] = own /\ t[1] = b.thinkingIndex /\ t[2] = "thinking"
    BY <1>2, <1>4, <2>2 DEF Shows
  <2>4. /\ \E D \in SUBSET {<<t[1], "signature_delta", NoItem>>} : Step(b, c, {}, D, {t[1]})
        /\ c.started
    BY <1>3, <2>3, SealStep DEF Before
  <2> HIDE DEF c, own
  <2>5. PICK D \in SUBSET {<<own, "signature_delta", NoItem>>} : Step(b, c, {}, D, {own})
    BY <2>3, <2>4
  <2>6. \A d \in D : d[2] = "signature_delta"
    <3>1. <<own, "signature_delta", NoItem>>[2] = "signature_delta"
      OBVIOUS
    <3> QED
      BY <3>1, <2>5
  <2>7. p + 1 >= ClosesAt(k) /\ p >= OpensAt(k)
    BY <1>2, <1>10
  <2>8. Advance(b, c, x, p, k)
    BY <1>0, <1>1, <1>3, <2>4, <2>5, <2>6, <2>7, GoesOn DEF own
  <2> QED
    BY <2>1, <2>8 DEF Advances, k
<1> QED
  BY <1>8, <1>9, <1>10 DEF k

\* output_item.added of a tool call opens its block.
LEMMA ToolAddedAdvances ==
    ASSUME NEW x \in Items, NEW k \in ToolKinds, Before(bridge, x, 0, k),
           ToolItemAdded(x, OutputOf[x])
    PROVE  Advances(x, 0, k)
<1> DEFINE b == bridge
           n == b.nextIndex
           o == OutputOf[x]
           c == openToolBlock(b, x, o)
<1>1. /\ k \in FaithfulKinds /\ k \in Streamed /\ k \notin TextKinds /\ k # "reasoning"
      /\ k \notin CommentaryKinds
  BY DEF FaithfulKinds, Streamed, TextKinds, RefusalKinds, WithArguments, ToolKinds, CallKinds,
         DirectTools, ConvertedTools,
         CommentaryKinds
<1>2. OpensAt(k) = 1 /\ BlockOf(k) = "tool_use"
  BY Positions
<1>3. Before(b, x, 0, k) /\ ensureMessageStart(b) = b /\ Return(c)
  BY Ensured DEF ToolItemAdded
<1>4. /\ b \in Bridge /\ n \in Nat /\ n \notin b.closedIndex
      /\ b.toolIndexByItemID \in [ItemIds -> Index] /\ b.toolIndexByOutput \in [Outputs -> Index]
  BY <1>3, SoundTypes, BlockFacts DEF Before, Good, Bridge
<1>5. /\ x \in ItemIds /\ o \in Outputs /\ ItemIds = Items \cup {NoItem} /\ x # NoItem
      /\ \A y \in Items \ {x} : OutputOf[y] \in Outputs \ {o}
  BY ItemFacts, UpstreamAssumption DEF ItemIds
<1> HIDE DEF o
<1>6. /\ Good(c) /\ Effect(b, c, {<<n, "tool_use", x>>}, {}, {})
      /\ SameState([b EXCEPT !.toolIndexByItemID[x] = n,
                             !.toolIndexByOutput[o]  = n,
                             !.toolUsed              = TRUE], c)
      /\ c.started
  BY <1>3, <1>5, OpenToolStep DEF Before
<1> HIDE DEF c
<1>7. /\ c.toolIndexByItemID = [b.toolIndexByItemID EXCEPT ![x] = n]
      /\ c.toolIndexByOutput = [b.toolIndexByOutput EXCEPT ![o] = n]
      /\ c.toolUsed = TRUE /\ c.textIndexByKey = b.textIndexByKey
      /\ c.ignoredMessageItemID = b.ignoredMessageItemID
      /\ c.thinkingIndex = b.thinkingIndex /\ c.webSearchEmitted = b.webSearchEmitted
  BY <1>4, <1>6 DEF SameState, Bridge
<1>8. /\ c.toolIndexByItemID[x] = n /\ c.toolIndexByOutput[o] = n
      /\ c.toolIndexByItemID[NoItem] = b.toolIndexByItemID[NoItem]
      /\ \A y \in Items \ {x} : /\ c.toolIndexByItemID[y] = b.toolIndexByItemID[y]
                               /\ c.toolIndexByOutput[OutputOf[y]] = b.toolIndexByOutput[OutputOf[y]]
  BY <1>4, <1>5, <1>7
<1>9. OwnIndex(c, x, k) = n
  BY <1>1, <1>8 DEF OwnIndex
<1>10. \A y \in Items \ {x} : SameEntries(b, c, y)
  BY <1>7, <1>8 DEF SameEntries
<1>11. Mapped(c)
  <2>1. /\ Mapped(b) /\ BlocksIn(b.out) \subseteq BlocksIn(c.out)
        /\ c.textIndexByKey = b.textIndexByKey /\ c.thinkingIndex = b.thinkingIndex
    BY <1>3, <1>6, <1>7 DEF Effect, Before
  <2>2. \A y \in Items : c.toolIndexByItemID[y] # Absent =>
           c.toolIndexByOutput[OutputOf[y]] = c.toolIndexByItemID[y]
    BY <1>8, <2>1 DEF Mapped, o
  <2> QED
    BY <1>8, <2>1, <2>2 DEF Mapped
<1>12. Opens(b, c, x, k, n, {})
  BY <1>1, <1>2, <1>4, <1>6, <1>7, <1>9, <1>10, <1>11 DEF Opens
<1>13. 0 \in Nat /\ 0 + 1 = OpensAt(k)
  BY <1>2
<1>14. Advance(b, c, x, 0, k)
  BY <1>1, <1>3, <1>12, <1>13, Opened
<1> QED
  BY <1>3, <1>14 DEF Advances

\* output_item.done of a tool call closes its block and adds its result.
LEMMA ToolDoneAdvances ==
    ASSUME NEW x \in Items, NEW p \in Nat, NEW k \in ToolKinds, Before(bridge, x, p, k),
           p >= 1, p + 1 >= ClosesAt(k), ~ (k \in WithArguments /\ p = 1),
           NEW n \in 0 .. 1, ToolItemDone(x, n)
    PROVE  Advances(x, p, k)
<1> DEFINE b == bridge
           own == OwnIndex(b, x, k)
           e == closeContentBlock(b, own)
           c == emitBlocks(e, n, "tool_result", x)
           B == IF n = 1 THEN {<<e.nextIndex, "tool_result", x>>} ELSE {}
           C == IF n = 1 THEN {e.nextIndex} ELSE {}
<1>1. /\ k \in FaithfulKinds /\ k \in Streamed /\ k \notin TextKinds /\ k # "reasoning"
  BY DEF FaithfulKinds, Streamed, TextKinds, RefusalKinds, WithArguments, ToolKinds, CallKinds,
         DirectTools, ConvertedTools
<1>2. OpensAt(k) = 1 /\ p >= OpensAt(k)
  BY Positions
<1>3. Before(b, x, p, k) /\ own = b.toolIndexByItemID[x]
  BY <1>1 DEF OwnIndex
<1>4. PICK t \in BlocksIn(b.out) : Shows(t, b, x, p, k)
  BY <1>1, <1>2, OwnBlock
<1>5. Return(c)
  BY <1>3, <1>4 DEF ToolItemDone, Shows
<1>6. Step(b, b, {}, {}, {}) /\ b.started
  BY StepRefl DEF Before
<1>7. Step(b, e, {}, {}, {own}) /\ e.started
  BY <1>1, <1>2, <1>6, Closes
<1>8. "tool_result" \in Details /\ x \in Owners
  BY ItemFacts, DetailFacts DEF Details
<1> HIDE DEF e
<1>9. Step(e, c, B, {}, C) /\ c.started
  BY <1>7, <1>8, EmitBlocksStep DEF Step
<1>10. /\ \A t2 \in B : t2[1] \in C /\ t2[2] = "tool_result" /\ t2[3] = x
       /\ \A i \in C : \E t2 \in B : t2[1] = i
  <2> DEFINE f == <<e.nextIndex, "tool_result", x>>
  <2>1. f[1] = e.nextIndex /\ f[2] = "tool_result" /\ f[3] = x
    OBVIOUS
  <2> HIDE DEF f
  <2>2. B = (IF n = 1 THEN {f} ELSE {}) /\ C = (IF n = 1 THEN {e.nextIndex} ELSE {})
    BY DEF f
  <2> QED
    BY <2>1, <2>2
<1> HIDE DEF c, B, C, own
<1>11. Step(b, c, B, {}, {own} \cup C)
  BY <1>7, <1>9 DEF Step, Effect, SameState
<1>12. Advance(b, c, x, p, k)
  <2>1. /\ \A t2 \in B : t2[1] \in {own} \cup C /\ t2[2] = "tool_result" /\ t2[3] = x
        /\ \A i \in {own} \cup C : i = own \/ \E t2 \in B : t2[1] = i
        /\ own \in {own} \cup C
        /\ \A d \in {} : d[2] = "signature_delta" \/ (d[1] = own /\ d[3] \in Of(x))
    BY <1>10
  <2> QED
    BY <1>1, <1>2, <1>3, <1>9, <1>11, <2>1, GoesOn DEF own
<1> QED
  BY <1>5, <1>12 DEF Advances

\* The arguments of a tool call, and the events that carry none.
LEMMA ToolAdvances ==
    ASSUME NEW x \in Items, NEW p \in Nat, NEW k \in ToolKinds, Before(bridge, x, p, k),
           \/ k \in WithArguments /\ p = 1 /\ ToolArgumentsDelta(NamedBy(x, k), OutputOf[x])
           \/ k \in WithArguments /\ p = 2 /\ ToolArgumentsDone(NamedBy(x, k), OutputOf[x])
           \/ k = "custom_tool_call" /\ p = 1 /\ EventIgnored
    PROVE  Advances(x, p, k)
<1> DEFINE b == bridge
           own == OwnIndex(b, x, k)
<1>1. /\ k \in FaithfulKinds /\ k \in Streamed /\ k \notin TextKinds /\ k # "reasoning"
      /\ k \in CallKinds
  BY DEF FaithfulKinds, Streamed, TextKinds, RefusalKinds, WithArguments, ToolKinds, CallKinds,
         DirectTools, ConvertedTools
<1>2. OpensAt(k) = 1 /\ ClosesAt(k) = 3 /\ BlockOf(k) = "tool_use" /\ p >= OpensAt(k)
  BY <1>1, Positions
<1>3. Before(b, x, p, k) /\ own = b.toolIndexByItemID[x]
  BY <1>1 DEF OwnIndex
<1>4. PICK t \in BlocksIn(b.out) : Shows(t, b, x, p, k)
  BY <1>1, <1>2, OwnBlock
<1> DEFINE id == NamedBy(x, k)
           item == owner(id, OutputOf[x])
<1>5. /\ own # Absent /\ toolIndex(b, id, OutputOf[x]) = own
      /\ item \in Of(x)
  <2>1. own # Absent
    BY <1>4 DEF Shows
  <2>2. /\ b.toolIndexByItemID[NoItem] = Absent
        /\ b.toolIndexByOutput[OutputOf[x]] = own
    BY <1>3, <2>1 DEF Before, Mapped
  <2>3. x # NoItem
    BY ItemFacts
  <2> QED
    BY <1>3, <2>1, <2>2, <2>3 DEF toolIndex, NamedBy, owner, Of
<1>6. CASE k \in WithArguments /\ p = 1 /\ ToolArgumentsDelta(NamedBy(x, k), OutputOf[x])
  <2> DEFINE c == sendEvent(b, BlockDelta(own, "input_json_delta", item))
             d == <<own, "input_json_delta", item>>
  <2>1. Return(c)
    BY <1>5, <1>6 DEF ToolArgumentsDelta
  <2>2. /\ "input_json_delta" \in Details /\ "input_json_delta" \in Protocol!Deltas(BlockOf(k))
        /\ "input_json_delta" # "signature_delta" /\ p < ClosesAt(k)
    BY <1>2, <1>6 DEF Details, Protocol!Deltas
  <2>3. Step(b, c, {}, {d}, {}) /\ c.started
    BY <1>1, <1>2, <1>3, <1>5, <2>2, StreamsFor
  <2>4. d[1] = own /\ d[2] = "input_json_delta" /\ d[3] \in Of(x)
    BY <1>5
  <2> HIDE DEF c, own, d
  <2>5. p + 1 < ClosesAt(k)
    BY <1>2, <1>6
  <2>6. /\ \A e \in {d} : e[2] = "signature_delta" \/ (e[1] = own /\ e[3] \in Of(x))
        /\ \E e \in {d} : e[2] = "input_json_delta" /\ e[3] \in Of(x)
    BY <2>4
  <2>7. Advance(b, c, x, p, k)
    BY <1>1, <1>2, <1>3, <2>3, <2>5, <2>6, GoesOn DEF own
  <2> QED
    BY <2>1, <2>7 DEF Advances
<1>7. CASE p = 2 /\ ToolArgumentsDone(NamedBy(x, k), OutputOf[x])
  <2>1. Return(closeContentBlock(b, own))
    BY <1>5, <1>7 DEF ToolArgumentsDone
  <2>2. Advance(b, closeContentBlock(b, own), x, p, k)
    BY <1>1, <1>2, <1>3, <1>7, JustCloses
  <2> QED
    BY <2>1, <2>2 DEF Advances
<1>8. CASE k = "custom_tool_call" /\ p = 1 /\ EventIgnored
  <2>1. Return(b)
    BY <1>8 DEF EventIgnored
  <2>2. k \notin WithArguments
    BY <1>8 DEF WithArguments
  <2> QED
    BY <1>1, <1>2, <1>8, <2>1, <2>2, Stays
<1> QED
  BY <1>6, <1>7, <1>8

\* output_item.done of an item that is shown whole.
LEMMA WholeAdvances ==
    ASSUME NEW x \in Items, NEW k \in WholeKinds, Before(bridge, x, 1, k),
           \/ k = "unstreamed_reasoning" /\ ReasoningItemDone(x, 1)
           \/ k = "compaction" /\ CompactionItemDone(x, FALSE)
           \/ k \in Standalone /\ StandaloneItemDone(x, k, 1)
           \/ k = "unstreamed_message" /\ MessageItemDone(x, 1)
    PROVE  Advances(x, 1, k)
<1> DEFINE b == bridge
           n == b.nextIndex
           c == emitFullContentBlock(b, BlockOf(k), x)
           t == <<n, BlockOf(k), x>>
<1>1. k \in FaithfulKinds /\ k \notin Streamed /\ k \notin CommentaryKinds /\ OpensAt(k) = 2
  BY Positions DEF FaithfulKinds, WholeKinds, Standalone, CommentaryKinds
<1>2. Before(b, x, 1, k) /\ ensureMessageStart(b) = b
  BY Ensured
<1>3. /\ x \notin b.ignoredMessageItemID /\ NoEntry(b, x)
      /\ k \in ReasoningKinds => b.thinkingIndex = Absent
  <2>1. 1 < OpensAt(k)
    BY <1>1
  <2> QED
    BY <1>1, <1>2, <2>1 DEF Before, ItemInv
<1>4. emitBlocks(b, 1, BlockOf(k), x) = c
  BY DEF emitBlocks
<1>5. Return(c)
  <2>1. CASE k = "unstreamed_reasoning" /\ ReasoningItemDone(x, 1)
    <3>1. ~ thinkingStarted(b)
      BY <1>3, <2>1 DEF thinkingStarted, ReasoningKinds
    <3>2. BlockOf(k) = "thinking"
      BY <2>1, Positions
    <3> QED
      BY <1>4, <2>1, <3>1, <3>2 DEF ReasoningItemDone
  <2>2. CASE k = "compaction" /\ CompactionItemDone(x, FALSE)
    <3>1. BlockOf(k) = "compaction"
      BY <2>2, Positions
    <3> QED
      BY <1>2, <2>2, <3>1 DEF CompactionItemDone, emitFullContentBlock
  <2>3. CASE k \in Standalone /\ StandaloneItemDone(x, k, 1)
    <3>1. BlockOf(k) = k
      BY <2>3, Positions
    <3> QED
      BY <1>4, <2>3, <3>1 DEF StandaloneItemDone
  <2>4. CASE k = "unstreamed_message" /\ MessageItemDone(x, 1)
    <3>1. BlockOf(k) = "text"
      BY <2>4, Positions
    <3>2. ~ hasStreamedMessageItem(b, x)
      BY <1>3 DEF NoEntry, hasStreamedMessageItem
    <3> QED
      BY <1>3, <1>4, <2>4, <3>1, <3>2 DEF MessageItemDone
  <2> QED
    BY <2>1, <2>2, <2>3, <2>4
<1>6. BlockOf(k) \in Details /\ x \in Owners
  BY <1>1, KindFacts, ItemFacts DEF CommentaryKinds
<1>7. Step(b, c, {t}, {}, {n}) /\ c.started
  BY <1>2, <1>6, EmitStep DEF Before
<1>8. t[1] = n /\ t[2] = BlockOf(k) /\ t[3] = x
  OBVIOUS
<1> HIDE DEF c, t
<1>9. Good(c) /\ Effect(b, c, {t}, {}, {n}) /\ SameState(b, c)
  BY <1>7 DEF Step
<1>10. /\ \A u \in {t} : u[1] \in {n} /\ u[3] = x
       /\ \A i \in {n} : \E u \in {t} : u[1] = i
       /\ \E u \in {t} : u[2] = BlockOf(k) /\ \A w \in {t} : w[2] \in MainBlocks(k) => w = u
       /\ \A d \in {} : \E u \in {t} : u[1] = d[1] /\ d[3] = x
  BY <1>8
<1>11. /\ \A y \in Items \ {x} : SameEntries(b, c, y)
       /\ c.textIndexByKey = b.textIndexByKey /\ c.thinkingIndex = b.thinkingIndex
       /\ c.toolIndexByItemID = b.toolIndexByItemID /\ c.toolIndexByOutput = b.toolIndexByOutput
       /\ c.ignoredMessageItemID = b.ignoredMessageItemID /\ c.toolUsed = b.toolUsed
  BY <1>9 DEF SameState, SameEntries
<1>12. 1 \in Nat /\ 1 + 1 = OpensAt(k)
  BY <1>1
<1>13. Advance(b, c, x, 1, k)
  BY <1>1, <1>2, <1>7, <1>9, <1>10, <1>11, <1>12, Whole
<1> QED
  BY <1>5, <1>13 DEF Advances

\* A search is announced, completes, and is shown when it is done.
LEMMA SearchAdvances ==
    ASSUME NEW x \in Items, NEW p \in Nat, Before(bridge, x, p, "web_search_call"),
           \/ p = 0 /\ WebSearchItemAdded(x)
           \/ p = 1 /\ WebSearchCompleted
           \/ p = 2 /\ WebSearchItemDone(x)
    PROVE  Advances(x, p, "web_search_call")
<1> DEFINE k == "web_search_call"
           b == bridge
           n == b.nextIndex
           c == handleWebSearchDone(b, x)
<1>1. /\ k \in FaithfulKinds /\ k \notin Streamed /\ k \notin CommentaryKinds /\ OpensAt(k) = 3
      /\ k \notin ToolKinds /\ BlockOf(k) = "server_tool_use"
  BY Positions DEF FaithfulKinds, CommentaryKinds, WithArguments, ToolKinds, CallKinds,
         DirectTools, ConvertedTools
<1>2. Before(b, x, p, k) /\ ensureMessageStart(b) = b
  BY Ensured
<1>3. NoEntry(b, x)
  <2>1. p < OpensAt(k)
    BY <1>1
  <2> QED
    BY <1>2, <2>1 DEF Before, ItemInv
<1>4. "web_search_tool_result" \notin MainBlocks(k)
  BY <1>1, KindFacts
<1> HIDE DEF k
<1>5. CASE p = 0 /\ WebSearchItemAdded(x)
  <2>1. b.webSearchEmitted \ {x} = b.webSearchEmitted /\ b \in Bridge
    BY <1>2, <1>3, SoundTypes DEF NoEntry, Before, Good
  <2>2. [b EXCEPT !.webSearchEmitted = @ \ {x}] = b
    BY <2>1 DEF Bridge
  <2>3. Return(b)
    BY <1>2, <1>5, <2>2 DEF WebSearchItemAdded
  <2>4. p + 1 < OpensAt(k)
    BY <1>1, <1>5
  <2> QED
    BY <1>1, <1>2, <2>3, <2>4, Waits DEF k
<1>6. CASE p = 1 /\ WebSearchCompleted
  <2>1. Return(b)
    BY <1>2, <1>6 DEF WebSearchCompleted
  <2>2. p + 1 < OpensAt(k)
    BY <1>1, <1>6
  <2> QED
    BY <1>1, <1>2, <2>1, <2>2, Waits DEF k
<1>7. CASE p = 2 /\ WebSearchItemDone(x)
  <2> DEFINE t == <<n, "server_tool_use", x>>
             r == <<n + 1, "web_search_tool_result", x>>
             d == <<n, "input_json_delta", x>>
  <2>1. Return(c)
    BY <1>7 DEF WebSearchItemDone
  <2>2. x \notin b.webSearchEmitted /\ x \in ItemIds /\ b \in Bridge
    BY <1>2, <1>3, ItemFacts, SoundTypes DEF NoEntry, Before, Good
  <2>3. /\ Good(c) /\ Effect(b, c, {t, r}, {d}, {n, n + 1})
        /\ SameState([b EXCEPT !.webSearchEmitted = @ \cup {x}], c) /\ c.started
    BY <1>2, <2>2, WebSearchStep DEF Before
  <2>4. /\ t[1] = n /\ t[2] = "server_tool_use" /\ t[3] = x
        /\ r[1] = n + 1 /\ r[2] = "web_search_tool_result" /\ r[3] = x
        /\ d[1] = n /\ d[3] = x
    OBVIOUS
  <2> HIDE DEF c, t, r, d
  <2>5. /\ c.textIndexByKey = b.textIndexByKey /\ c.thinkingIndex = b.thinkingIndex
        /\ c.ignoredMessageItemID = b.ignoredMessageItemID /\ c.toolUsed = b.toolUsed
        /\ c.toolIndexByItemID = b.toolIndexByItemID /\ c.toolIndexByOutput = b.toolIndexByOutput
        /\ c.webSearchEmitted = b.webSearchEmitted \cup {x}
    BY <2>2, <2>3 DEF SameState, Bridge
  <2>6. \A y \in Items \ {x} : SameEntries(b, c, y)
    BY <2>5 DEF SameEntries
  <2>7. /\ \A u \in {t, r} : u[1] \in {n, n + 1} /\ u[3] = x
        /\ \A i \in {n, n + 1} : \E u \in {t, r} : u[1] = i
        /\ \E u \in {t, r} : u[2] = BlockOf(k) /\ \A w \in {t, r} : w[2] \in MainBlocks(k) => w = u
        /\ \A e \in {d} : \E u \in {t, r} : u[1] = e[1] /\ e[3] = x
    BY <1>1, <1>4, <2>4
  <2>8. p + 1 = OpensAt(k)
    BY <1>1, <1>7
  <2>9. Advance(b, c, x, p, k)
    BY <1>1, <1>2, <2>3, <2>5, <2>6, <2>7, <2>8, Whole
  <2> QED
    BY <2>1, <2>9 DEF Advances, k
<1> QED
  BY <1>5, <1>6, <1>7 DEF k

\* output_item.added of the other items.
LEMMA AddedAdvances ==
    ASSUME NEW x \in Items, NEW k \in FaithfulKinds, Before(bridge, x, 0, k),
           \/ k \in CommentaryKinds /\ CommentaryItemAdded(x)
           \/ k = "unrecognized" /\ UnsupportedItemAdded
           \/ /\ k \notin CommentaryKinds \cup ToolKinds \cup {"web_search_call", "unrecognized"}
              /\ PassiveItemAdded
    PROVE  Advances(x, 0, k)
<1> DEFINE b == bridge
<1>1. Before(b, x, 0, k) /\ ensureMessageStart(b) = b
  BY Ensured
<1>2. k \notin ToolKinds => 0 + 1 < OpensAt(k)
  BY Positions DEF FaithfulKinds, Streamed, TextKinds
<1>3. ASSUME k \notin CommentaryKinds, k \notin ToolKinds, Return(b) \/ ReturnError(b)
      PROVE  Advances(x, 0, k)
  BY <1>1, <1>2, <1>3, Waits
<1>4. CASE k = "unrecognized" /\ UnsupportedItemAdded
  <2>1. Return(b) \/ ReturnError(b)
    BY <1>1, <1>4 DEF UnsupportedItemAdded, ReturnErrorIfStrict
  <2>2. k \notin CommentaryKinds /\ k \notin ToolKinds
    BY <1>4 DEF CommentaryKinds, WithArguments, ToolKinds, CallKinds, DirectTools, ConvertedTools
  <2> QED
    BY <1>3, <2>1, <2>2
<1>5. CASE /\ k \notin CommentaryKinds \cup ToolKinds \cup {"web_search_call", "unrecognized"}
           /\ PassiveItemAdded
  <2>1. Return(b)
    BY <1>1, <1>5 DEF PassiveItemAdded
  <2> QED
    BY <1>3, <1>5, <2>1
<1>6. CASE k \in CommentaryKinds /\ CommentaryItemAdded(x)
  <2> DEFINE c == [b EXCEPT !.ignoredMessageItemID = @ \cup {x}]
  <2>1. Return(c)
    BY <1>6 DEF CommentaryItemAdded
  <2>2. Sound(b) /\ b \in Bridge /\ x \in ItemIds
    BY <1>1, SoundTypes, ItemFacts DEF Before, Good
  <2>3. c \in Bridge
    <3>1. b.ignoredMessageItemID \cup {x} \in SUBSET ItemIds
      BY <2>2 DEF Bridge
    <3> QED
      BY <2>2, <3>1 DEF Bridge
  <2>4. /\ c.out = b.out /\ c.started = b.started
        /\ c.nextIndex = b.nextIndex /\ c.closedIndex = b.closedIndex
        /\ c.serverToolUseCount = b.serverToolUseCount /\ c.toolUsed = b.toolUsed
        /\ c.textIndexByKey = b.textIndexByKey /\ c.toolIndexByItemID = b.toolIndexByItemID
        /\ c.toolIndexByOutput = b.toolIndexByOutput /\ c.thinkingIndex = b.thinkingIndex
        /\ c.webSearchEmitted = b.webSearchEmitted
        /\ c.ignoredMessageItemID = b.ignoredMessageItemID \cup {x}
    BY <2>2 DEF Bridge
  <2> HIDE DEF c
  <2>5. Sound(c)
    BY <2>2, <2>3, <2>4 DEF Sound, IndicesBounded
  <2>6. Good(c) /\ Effect(b, c, {}, {}, {})
    BY <1>1, <2>4, <2>5, Relabel DEF Before
  <2>7. Mapped(c)
    BY <1>1, <2>4, MappedKept DEF Before
  <2>8. k \notin ToolKinds /\ 0 + 1 < OpensAt(k) /\ 0 < OpensAt(k)
    <3>1. k \notin ToolKinds
      BY <1>6 DEF CommentaryKinds, WithArguments, ToolKinds, CallKinds, DirectTools,
             ConvertedTools
    <3> QED
      BY <1>2, <3>1, KindFacts
  <2>9. Touches(b, c, x, k)
    BY <2>4, <2>6, <2>8 DEF Touches, SameEntries, Effect
  <2>10. ItemInv(c, x, 0 + 1, k) /\ StillOpen(c, x, 0 + 1, k)
    <3>1. /\ BlocksOf(b, x) = {} /\ NoEntry(b, x)
          /\ k \in ReasoningKinds => b.thinkingIndex = Absent
      BY <1>1, <2>8 DEF Before, ItemInv
    <3>2. /\ BlocksOf(c, x) = {} /\ NoEntry(c, x)
          /\ k \in ReasoningKinds => c.thinkingIndex = Absent
      BY <2>4, <3>1 DEF BlocksOf, NoEntry
    <3>3. x \in c.ignoredMessageItemID
      BY <2>4
    <3>4. /\ Len(Script(k)) \in Nat /\ 0 + 1 <= Len(Script(k)) /\ OpensAt(k) \in Nat
          /\ ~ (0 + 1 >= OpensAt(k)) /\ ~ (OpensAt(k) <= 0 + 1)
      <4>1. OpensAt(k) \in 1 .. 6 /\ Len(Script(k)) \in 2 .. 6
        BY KindFacts
      <4> QED
        BY <4>1, <2>8
    <3>5. k \notin WithArguments
      BY <1>6 DEF CommentaryKinds, WithArguments
    <3> QED
      BY <1>6, <3>2, <3>3, <3>4, <3>5 DEF ItemInv, StillOpen
  <2>11. Advance(b, c, x, 0, k)
    BY <2>4, <2>6, <2>7, <2>9, <2>10, <1>1 DEF Advance, Before
  <2> QED
    BY <2>1, <2>11 DEF Advances
<1> QED
  BY <1>4, <1>5, <1>6

\* Whatever the kind and the event, its handler advances the item.
LEMMA HandlerAdvances ==
    ASSUME NEW x \in Items, NEW p \in Nat, NEW k \in FaithfulKinds, Before(bridge, x, p, k),
           HandlerOf(x, p, k)
    PROVE  Advances(x, p, k)
<1>1. CASE k \in CommentaryKinds /\ p = 0 /\ CommentaryItemAdded(x)
  BY <1>1, AddedAdvances
<1>2. CASE k \in ToolKinds /\ p = 0 /\ ToolItemAdded(x, OutputOf[x])
  BY <1>2, ToolAddedAdvances
<1>3. CASE /\ k = "web_search_call"
           /\ \/ p = 0 /\ WebSearchItemAdded(x)
              \/ p = 1 /\ WebSearchCompleted
              \/ p = 2 /\ WebSearchItemDone(x)
  BY <1>3, SearchAdvances
<1>4. CASE k = "unrecognized" /\ p = 0 /\ UnsupportedItemAdded
  BY <1>4, AddedAdvances
<1>5. CASE /\ k \notin CommentaryKinds \cup ToolKinds \cup {"web_search_call", "unrecognized"}
           /\ p = 0 /\ PassiveItemAdded
  BY <1>5, AddedAdvances
<1>6. CASE /\ k = "message"
           /\ \/ p = 1 /\ ContentPartAdded(x, OutputOf[x], 0, TRUE)
              \/ p \in {2, 3} /\ OutputTextDelta(x, OutputOf[x], 0)
              \/ p = 4 /\ \E n \in 0 .. MaxCitations : ContentPartDone(x, OutputOf[x], 0, n)
              \/ p = 5 /\ MessageItemDone(x, 1)
  BY <1>6, MessageAdvances
<1>7. CASE /\ k \in RefusalKinds
           /\ \/ p = 1 /\ ContentPartAdded(x, OutputOf[x], 0, FALSE)
              \/ p = 2 /\ RefusalDelta(x, OutputOf[x], 0)
              \/ p = 3 /\ RefusalDone(x, OutputOf[x], 0)
              \/ p = 4 /\ ContentPartDone(x, OutputOf[x], 0, 0)
              \/ p = 5 /\ \E n \in 0 .. 1 : MessageItemDone(x, n)
  BY <1>7, RefusalAdvances
<1>8. CASE /\ k = "commentary"
           /\ \/ p = 1 /\ ContentPartAdded(x, OutputOf[x], 0, TRUE)
              \/ p = 2 /\ OutputTextDelta(x, OutputOf[x], 0)
              \/ p = 3 /\ \E n \in 0 .. MaxCitations : ContentPartDone(x, OutputOf[x], 0, n)
              \/ p = 4 /\ MessageItemDone(x, 0)
  BY <1>8, CommentaryAdvances
<1>9. CASE /\ k = "reasoning"
           /\ \/ p \in {1, 2} /\ ReasoningDelta(x)
              \/ p = 3 /\ ReasoningTextDone
              \/ p = 4 /\ ReasoningItemDone(x, 1)
  BY <1>9, ReasoningAdvances
<1>10. CASE \/ /\ k \in WithArguments /\ p = 1
               /\ ToolArgumentsDelta(NamedBy(x, k), OutputOf[x])
            \/ k \in WithArguments /\ p = 2 /\ ToolArgumentsDone(NamedBy(x, k), OutputOf[x])
            \/ k = "custom_tool_call" /\ p = 1 /\ EventIgnored
  <2>1. k \in ToolKinds
    BY <1>10 DEF WithArguments, ToolKinds, CallKinds, DirectTools
  <2> QED
    BY <1>10, <2>1, ToolAdvances
<1>11. CASE \/ k \in {"function_call", "function_call_by_output"} /\ p = 3 /\ ToolItemDone(x, 0)
            \/ k = "mcp_call" /\ p = 3 /\ \E n \in 0 .. 1 : ToolItemDone(x, n)
            \/ k = "custom_tool_call" /\ p = 2 /\ ToolItemDone(x, 0)
            \/ k \in ConvertedTools /\ p = 1 /\ \E n \in 0 .. 1 : ToolItemDone(x, n)
  <2>1. \E n \in 0 .. 1 : ToolItemDone(x, n)
    BY <1>11
  <2>2. k \in ToolKinds
    BY <1>11 DEF WithArguments, ToolKinds, CallKinds, DirectTools
  <2>3. p >= 1 /\ p + 1 >= ClosesAt(k) /\ ~ (k \in WithArguments /\ p = 1)
    <3>1. CASE k \in CallKinds
      <4>1. ClosesAt(k) = 3 /\ p >= 2
        BY <1>11, <3>1, Positions DEF DirectTools, ConvertedTools
      <4> QED
        BY <4>1
    <3>2. CASE k \in ConvertedTools
      <4>1. ClosesAt(k) = 2 /\ p = 1 /\ k \notin WithArguments
        BY <1>11, <3>2, Positions DEF ConvertedTools, WithArguments
      <4> QED
        BY <4>1
    <3> QED
      BY <2>2, <3>1, <3>2 DEF ToolKinds
  <2> QED
    BY <2>1, <2>2, <2>3, ToolDoneAdvances
<1>12. CASE /\ p = 1
            /\ \/ k = "unstreamed_reasoning" /\ ReasoningItemDone(x, 1)
               \/ k = "compaction" /\ CompactionItemDone(x, FALSE)
               \/ k \in Standalone /\ StandaloneItemDone(x, k, 1)
               \/ k = "unstreamed_message" /\ MessageItemDone(x, 1)
  <2>1. k \in WholeKinds
    BY <1>12 DEF WholeKinds
  <2> QED
    BY <1>12, <2>1, WholeAdvances
<1>13. CASE /\ p = 5 /\ \/ k \in {"message", "refusal"} /\ MessageItemDone(x, 1)
                        \/ k = "commentary_refusal" /\ MessageItemDone(x, 0)
  <2>1. CASE k = "message"
    BY <1>13, <2>1, MessageAdvances
  <2>2. CASE k \in RefusalKinds
    <3>1. \E n \in 0 .. 1 : MessageItemDone(x, n)
      BY <1>13
    <3> QED
      BY <1>13, <2>2, <3>1, RefusalAdvances
  <2> QED
    BY <1>13, <2>1, <2>2 DEF RefusalKinds
<1> QED
  BY <1>1, <1>2, <1>3, <1>4, <1>5, <1>6, <1>7, <1>8, <1>9, <1>10, <1>11, <1>12, <1>13
     DEF HandlerOf

\* Handle, event by event, when the upstream gives item ids.
LEMMA HandleCases ==
    ASSUME Faithful, NEW x \in Items, NEW e, Handle(x, e)
    PROVE  LET k == kind[x]
               out == OutputOf[x]
           IN  /\ e = "commentary.added" => CommentaryItemAdded(x)
               /\ e = "added" =>
                     /\ k \in ToolKinds => ToolItemAdded(x, out)
                     /\ k \notin ToolKinds /\ k = "web_search_call" => WebSearchItemAdded(x)
                     /\ k \notin ToolKinds /\ k = "unrecognized" => UnsupportedItemAdded
                     /\ k \notin ToolKinds \cup {"web_search_call", "unrecognized"} => PassiveItemAdded
               /\ e = "part.added" => ContentPartAdded(x, out, 0, k \notin RefusalKinds)
               /\ e = "text.delta" => OutputTextDelta(x, out, 0)
               /\ e = "refusal.delta" => RefusalDelta(x, out, 0)
               /\ e = "refusal.done" => RefusalDone(x, out, 0)
               /\ e = "part.done" =>
                     \E n \in 0 .. (IF k \in RefusalKinds THEN 0 ELSE MaxCitations) :
                        ContentPartDone(x, out, 0, n)
               /\ e = "thinking.delta" => ReasoningDelta(x)
               /\ e = "thinking.done" => ReasoningTextDone
               /\ e = "arguments.delta" => ToolArgumentsDelta(NamedBy(x, k), out)
               /\ e = "arguments.done" => ToolArgumentsDone(NamedBy(x, k), out)
               /\ e = "input.delta" => EventIgnored
               /\ e = "completed" => WebSearchCompleted
               /\ e = "done" =>
                     /\ k \in ResultTools => \E n \in 0 .. 1 : ToolItemDone(x, n)
                     /\ k \in ToolKinds \ ResultTools => ToolItemDone(x, 0)
                     /\ k = "web_search_call" => WebSearchItemDone(x)
                     /\ k = "compaction" => CompactionItemDone(x, FALSE)
                     /\ k \in ReasoningKinds => ReasoningItemDone(x, 1)
                     /\ k \in CommentaryKinds => MessageItemDone(x, 0)
                     /\ k \in Standalone => StandaloneItemDone(x, k, 1)
                     /\ k \in {"message", "refusal", "unstreamed_message"} => MessageItemDone(x, 1)
<1> DEFINE k == kind[x]
<1>2. e = "added" =>
         /\ k \in ToolKinds => ToolItemAdded(x, OutputOf[x])
         /\ k \notin ToolKinds /\ k = "web_search_call" => WebSearchItemAdded(x)
         /\ k \notin ToolKinds /\ k = "unrecognized" => UnsupportedItemAdded
         /\ k \notin ToolKinds \cup {"web_search_call", "unrecognized"} => PassiveItemAdded
  <2>1. e = "added" =>
           CASE k \in ToolKinds         -> ToolItemAdded(x, OutputOf[x])
             [] k = "web_search_call"   -> WebSearchItemAdded(x)
             [] k = "unrecognized"      -> UnsupportedItemAdded
             [] OTHER                   -> PassiveItemAdded
    BY DEF Handle
  <2> HIDE DEF k
  <2> QED
    BY <2>1 DEF WithArguments, ToolKinds, CallKinds, DirectTools, ConvertedTools
<1>3. e = "done" =>
         CASE k \in ResultTools       -> \E n \in 0 .. 1 : ToolItemDone(x, n)
           [] k \in ToolKinds \ ResultTools -> ToolItemDone(x, 0)
           [] k = "web_search_call"   -> WebSearchItemDone(x)
           [] k = "compaction"        -> CompactionItemDone(x, FALSE)
           [] k \in ReasoningKinds    -> ReasoningItemDone(x, 1)
           [] k \in {"commentary", "commentary_refusal"} -> MessageItemDone(x, 0)
           [] k \in Standalone        -> StandaloneItemDone(x, k, 1)
           [] OTHER                   -> MessageItemDone(x, 1)
  BY DEF Handle
<1>4. /\ e = "commentary.added" => CommentaryItemAdded(x)
      /\ e = "part.added" => ContentPartAdded(x, OutputOf[x], 0, k \notin RefusalKinds)
      /\ e = "text.delta" => OutputTextDelta(x, OutputOf[x], 0)
      /\ e = "refusal.delta" => RefusalDelta(x, OutputOf[x], 0)
      /\ e = "refusal.done" => RefusalDone(x, OutputOf[x], 0)
      /\ e = "part.done" =>
            \E n \in 0 .. (IF k \in RefusalKinds THEN 0 ELSE MaxCitations) :
               ContentPartDone(x, OutputOf[x], 0, n)
      /\ e = "thinking.delta" => ReasoningDelta(x)
      /\ e = "thinking.done" => ReasoningTextDone
      /\ e = "arguments.delta" => ToolArgumentsDelta(NamedBy(x, k), OutputOf[x])
      /\ e = "arguments.done" => ToolArgumentsDone(NamedBy(x, k), OutputOf[x])
      /\ e = "input.delta" => EventIgnored
      /\ e = "completed" => WebSearchCompleted
  BY DEF Handle
<1> HIDE DEF k
<1>5. e = "done" =>
         /\ k \in ResultTools => \E n \in 0 .. 1 : ToolItemDone(x, n)
         /\ k \in ToolKinds \ ResultTools => ToolItemDone(x, 0)
         /\ k = "web_search_call" => WebSearchItemDone(x)
         /\ k = "compaction" => CompactionItemDone(x, FALSE)
         /\ k \in ReasoningKinds => ReasoningItemDone(x, 1)
         /\ k \in CommentaryKinds => MessageItemDone(x, 0)
         /\ k \in Standalone => StandaloneItemDone(x, k, 1)
         /\ k \in {"message", "refusal", "unstreamed_message"} => MessageItemDone(x, 1)
  <2> USE DEF ResultTools, WithArguments, ToolKinds, CallKinds, DirectTools, ConvertedTools,
          ReasoningKinds, CommentaryKinds,
          Standalone
  <2>1. e = "done" /\ k \in ResultTools => \E n \in 0 .. 1 : ToolItemDone(x, n)
    BY <1>3
  <2>2. e = "done" /\ k \in ToolKinds \ ResultTools => ToolItemDone(x, 0)
    BY <1>3
  <2>3. e = "done" /\ k = "web_search_call" => WebSearchItemDone(x)
    BY <1>3
  <2>4. e = "done" /\ k = "compaction" => CompactionItemDone(x, FALSE)
    BY <1>3
  <2>5. e = "done" /\ k \in ReasoningKinds => ReasoningItemDone(x, 1)
    BY <1>3
  <2>6. e = "done" /\ k \in CommentaryKinds => MessageItemDone(x, 0)
    BY <1>3
  <2>7. e = "done" /\ k \in Standalone => StandaloneItemDone(x, k, 1)
    BY <1>3
  <2>8. e = "done" /\ k \in {"message", "refusal", "unstreamed_message"} => MessageItemDone(x, 1)
    BY <1>3
  <2> QED
    BY <2>1, <2>2, <2>3, <2>4, <2>5, <2>6, <2>7, <2>8
<1> QED
  BY <1>2, <1>4, <1>5 DEF k

\* The next event of an item reaches the handler HandlerOf names.
LEMMA EventHandler ==
    ASSUME Faithful, NEW x \in Items, kind[x] \in FaithfulKinds, position[x] \in Nat,
           position[x] < Len(Script(kind[x])), UpstreamItemEvent(x)
    PROVE  HandlerOf(x, position[x], kind[x])
<1> DEFINE k == kind[x]
           p == position[x]
           e == Script(k)[p + 1]
           out == OutputOf[x]
<1>1. /\ e = "commentary.added" => CommentaryItemAdded(x)
      /\ e = "added" =>
            /\ k \in ToolKinds => ToolItemAdded(x, out)
            /\ k \notin ToolKinds /\ k = "web_search_call" => WebSearchItemAdded(x)
            /\ k \notin ToolKinds /\ k = "unrecognized" => UnsupportedItemAdded
            /\ k \notin ToolKinds \cup {"web_search_call", "unrecognized"} => PassiveItemAdded
      /\ e = "part.added" => ContentPartAdded(x, out, 0, k \notin RefusalKinds)
      /\ e = "text.delta" => OutputTextDelta(x, out, 0)
      /\ e = "refusal.delta" => RefusalDelta(x, out, 0)
      /\ e = "refusal.done" => RefusalDone(x, out, 0)
      /\ e = "part.done" =>
            \E n \in 0 .. (IF k \in RefusalKinds THEN 0 ELSE MaxCitations) :
               ContentPartDone(x, out, 0, n)
      /\ e = "thinking.delta" => ReasoningDelta(x)
      /\ e = "thinking.done" => ReasoningTextDone
      /\ e = "arguments.delta" => ToolArgumentsDelta(NamedBy(x, k), out)
      /\ e = "arguments.done" => ToolArgumentsDone(NamedBy(x, k), out)
      /\ e = "input.delta" => EventIgnored
      /\ e = "completed" => WebSearchCompleted
      /\ e = "done" =>
            /\ k \in ResultTools => \E n \in 0 .. 1 : ToolItemDone(x, n)
            /\ k \in ToolKinds \ ResultTools => ToolItemDone(x, 0)
            /\ k = "web_search_call" => WebSearchItemDone(x)
            /\ k = "compaction" => CompactionItemDone(x, FALSE)
            /\ k \in ReasoningKinds => ReasoningItemDone(x, 1)
            /\ k \in CommentaryKinds => MessageItemDone(x, 0)
            /\ k \in Standalone => StandaloneItemDone(x, k, 1)
            /\ k \in {"message", "refusal", "unstreamed_message"} => MessageItemDone(x, 1)
  <2>1. Handle(x, e)
    BY DEF UpstreamItemEvent
  <2> QED
    BY <2>1, HandleCases
<1>2. p \in Nat /\ p < Len(Script(k)) /\ k \in FaithfulKinds
  OBVIOUS
<1> SUFFICES HandlerOf(x, p, k)
  OBVIOUS
<1> HIDE DEF p, k
<1>3. CASE k = "message"
  <2>1. /\ k \notin CommentaryKinds \cup ToolKinds \cup {"web_search_call", "unrecognized"}
        /\ k \notin RefusalKinds
    BY <1>3 DEF CommentaryKinds, WithArguments, ToolKinds, CallKinds, DirectTools,
           ConvertedTools, RefusalKinds
  <2>2. Len(Script(k)) = 6
    BY <1>3, Scripts
  <2>3. p = 0 \/ p = 1 \/ p = 2 \/ p = 3 \/ p = 4 \/ p = 5
    BY ONLY <1>2, <2>2
  <2>4. /\ p = 0 => e = "added"
        /\ p = 1 => e = "part.added"
        /\ p \in {2, 3} => e = "text.delta"
        /\ p = 4 => e = "part.done"
        /\ p = 5 => e = "done"
    BY <1>3, Scripts
  <2> HIDE DEF e
  <2> QED
    BY <1>1, <1>3, <2>1, <2>3, <2>4 DEF HandlerOf
<1>4. CASE k \in RefusalKinds
  <2>1. k \notin ToolKinds \cup {"web_search_call", "unrecognized"}
    BY <1>4 DEF WithArguments, ToolKinds, CallKinds, DirectTools, ConvertedTools, RefusalKinds
  <2>2. Len(Script(k)) = 6
    BY <1>4, Scripts DEF RefusalKinds
  <2>3. p = 0 \/ p = 1 \/ p = 2 \/ p = 3 \/ p = 4 \/ p = 5
    BY ONLY <1>2, <2>2
  <2>4. /\ p = 0 => e = IF k = "refusal" THEN "added" ELSE "commentary.added"
        /\ p = 1 => e = "part.added"
        /\ p = 2 => e = "refusal.delta"
        /\ p = 3 => e = "refusal.done"
        /\ p = 4 => e = "part.done"
        /\ p = 5 => e = "done"
    BY <1>4, Scripts DEF RefusalKinds
  <2>5. \A n \in 0 .. 0 : n = 0
    OBVIOUS
  <2>6. \/ k = "refusal" /\ k \notin CommentaryKinds
        \/ k = "commentary_refusal" /\ k \in CommentaryKinds
    BY <1>4 DEF RefusalKinds, CommentaryKinds
  <2> HIDE DEF e
  <2>7. CASE p = 0
    BY <1>1, <2>1, <2>4, <2>6, <2>7 DEF HandlerOf
  <2>8. CASE p = 1
    BY <1>1, <1>4, <2>4, <2>8 DEF HandlerOf
  <2>9. CASE p = 2 \/ p = 3
    BY <1>1, <1>4, <2>4, <2>9 DEF HandlerOf
  <2>10. CASE p = 4
    BY <1>1, <1>4, <2>4, <2>5, <2>10 DEF HandlerOf
  <2>11. CASE p = 5
    BY <1>1, <2>4, <2>6, <2>11 DEF HandlerOf
  <2> QED
    BY <2>3, <2>7, <2>8, <2>9, <2>10, <2>11
<1>5. CASE k = "commentary"
  <2>1. k \in CommentaryKinds /\ k \notin RefusalKinds
    BY <1>5 DEF CommentaryKinds, RefusalKinds
  <2>2. Len(Script(k)) = 5
    BY <1>5, Scripts
  <2>3. p = 0 \/ p = 1 \/ p = 2 \/ p = 3 \/ p = 4
    BY ONLY <1>2, <2>2
  <2>4. /\ p = 0 => e = "commentary.added"
        /\ p = 1 => e = "part.added"
        /\ p = 2 => e = "text.delta"
        /\ p = 3 => e = "part.done"
        /\ p = 4 => e = "done"
    BY <1>5, Scripts
  <2> HIDE DEF e
  <2> QED
    BY <1>1, <1>5, <2>1, <2>3, <2>4 DEF HandlerOf
<1>6. CASE k = "reasoning"
  <2>1. /\ k \notin CommentaryKinds \cup ToolKinds \cup {"web_search_call", "unrecognized"}
        /\ k \in ReasoningKinds
    BY <1>6 DEF CommentaryKinds, WithArguments, ToolKinds, CallKinds, DirectTools,
           ConvertedTools, ReasoningKinds
  <2>2. Len(Script(k)) = 5
    BY <1>6, Scripts
  <2>3. p = 0 \/ p = 1 \/ p = 2 \/ p = 3 \/ p = 4
    BY ONLY <1>2, <2>2
  <2>4. /\ p = 0 => e = "added"
        /\ p \in {1, 2} => e = "thinking.delta"
        /\ p = 3 => e = "thinking.done"
        /\ p = 4 => e = "done"
    BY <1>6, Scripts
  <2> HIDE DEF e
  <2> QED
    BY <1>1, <1>6, <2>1, <2>3, <2>4 DEF HandlerOf
<1>7. CASE k \in WithArguments
  <2>1. /\ k \in ToolKinds
        /\ k = "mcp_call" => k \in ResultTools
        /\ k \in {"function_call", "function_call_by_output"} => k \notin ResultTools
    BY <1>7 DEF WithArguments, ToolKinds, CallKinds, DirectTools, ResultTools
  <2>2. Len(Script(k)) = 4
    BY <1>7, Scripts
  <2>3. p = 0 \/ p = 1 \/ p = 2 \/ p = 3
    BY ONLY <1>2, <2>2
  <2>4. /\ p = 0 => e = "added"
        /\ p = 1 => e = "arguments.delta"
        /\ p = 2 => e = "arguments.done"
        /\ p = 3 => e = "done"
    BY <1>7, Scripts
  <2> HIDE DEF e
  <2> QED
    BY <1>1, <1>7, <2>1, <2>3, <2>4 DEF HandlerOf, WithArguments
<1>8. CASE k = "custom_tool_call"
  <2>1. k \in ToolKinds \ ResultTools
    BY <1>8 DEF WithArguments, ToolKinds, CallKinds, DirectTools, ResultTools
  <2>2. Len(Script(k)) = 3
    BY <1>8, Scripts
  <2>3. p = 0 \/ p = 1 \/ p = 2
    BY ONLY <1>2, <2>2
  <2>4. /\ p = 0 => e = "added"
        /\ p = 1 => e = "input.delta"
        /\ p = 2 => e = "done"
    BY <1>8, Scripts
  <2> HIDE DEF e
  <2> QED
    BY <1>1, <1>8, <2>1, <2>3, <2>4 DEF HandlerOf
<1>9. CASE k = "web_search_call"
  <2>1. k \notin ToolKinds
    BY <1>9 DEF WithArguments, ToolKinds, CallKinds, DirectTools, ConvertedTools
  <2>2. Len(Script(k)) = 3
    BY <1>9, Scripts
  <2>3. p = 0 \/ p = 1 \/ p = 2
    BY ONLY <1>2, <2>2
  <2>4. /\ p = 0 => e = "added"
        /\ p = 1 => e = "completed"
        /\ p = 2 => e = "done"
    BY <1>9, Scripts
  <2> HIDE DEF e
  <2> QED
    BY <1>1, <1>9, <2>1, <2>3, <2>4 DEF HandlerOf
<1>10. CASE k \in ConvertedTools \cup WholeKinds
  <2>2. Len(Script(k)) = 2
    BY <1>10, Scripts
  <2>3. p = 0 \/ p = 1
    BY ONLY <1>2, <2>2
  <2>4. /\ p = 0 => e = "added"
        /\ p = 1 => e = "done"
    BY <1>10, Scripts
  <2> HIDE DEF e
  <2>5. CASE k \in ConvertedTools
    <3>1. k \in ToolKinds /\ 0 \in 0 .. 1
      BY <2>5 DEF ToolKinds
    <3> QED
      BY <1>1, <2>3, <2>4, <2>5, <3>1 DEF HandlerOf
  <2>6. CASE k \in WholeKinds
    <3>1. k \notin CommentaryKinds \cup ToolKinds \cup {"web_search_call"}
      BY <2>6 DEF WholeKinds, Standalone, CommentaryKinds, WithArguments, ToolKinds, CallKinds,
             DirectTools, ConvertedTools
    <3>2. CASE p = 0
      BY <1>1, <2>4, <3>1, <3>2 DEF HandlerOf
    <3>3. CASE p = 1
      BY <1>1, <2>4, <2>6, <3>3 DEF HandlerOf, WholeKinds, ReasoningKinds
    <3> QED
      BY <2>3, <3>2, <3>3
  <2> QED
    BY <1>10, <2>5, <2>6
<1>11. \/ k = "message" \/ k \in RefusalKinds \/ k = "commentary" \/ k = "reasoning"
       \/ k \in WithArguments \/ k = "custom_tool_call" \/ k = "web_search_call"
       \/ k \in ConvertedTools \cup WholeKinds
  BY <1>2 DEF FaithfulKinds, Streamed, TextKinds, WithArguments, ToolKinds, CallKinds, DirectTools
<1> QED
  BY <1>3, <1>4, <1>5, <1>6, <1>7, <1>8, <1>9, <1>10, <1>11

-----------------------------------------------------------------------------
(* StreamInv is kept                                                        *)

\* Every handler an event reaches is one of the arbitrary upstream's.
LEMMA HandlerInNext ==
    ASSUME NEW x \in Items, NEW p, NEW k, HandlerOf(x, p, k)
    PROVE  Next
<1> DEFINE out == OutputOf[x]
<1>1. x \in ItemIds /\ out \in Outputs /\ 0 \in Parts
  BY ItemFacts, UpstreamAssumption
<1>2. /\ TRUE \in BOOLEAN /\ FALSE \in BOOLEAN /\ 0 \in 0 .. 1 /\ 1 \in 0 .. 1
      /\ 0 \in 0 .. MaxBlocks /\ 1 \in 0 .. MaxBlocks /\ 0 \in 0 .. MaxCitations
  BY DEF MaxBlocks, MaxCitations
<1> HIDE DEF out
<1>3. CASE \/ CommentaryItemAdded(x) \/ WebSearchItemAdded(x) \/ WebSearchItemDone(x)
           \/ ReasoningDelta(x)
  BY <1>1, <1>3 DEF Next
<1>4. CASE \/ EventIgnored \/ PassiveItemAdded \/ UnsupportedItemAdded \/ ReasoningTextDone
           \/ WebSearchCompleted
  BY <1>4 DEF Next
<1>5. CASE MessageItemDone(x, 0) \/ MessageItemDone(x, 1)
  BY <1>1, <1>2, <1>5 DEF Next
<1>6. CASE ReasoningItemDone(x, 1)
  BY <1>1, <1>2, <1>6 DEF Next
<1>7. CASE \E n \in 0 .. 1 : ToolItemDone(x, n)
  BY <1>1, <1>7 DEF Next
<1>8. CASE k \in Standalone /\ StandaloneItemDone(x, k, 1)
  <2>1. \/ k \in {"tool_search_output", "computer_call_output"}
        \/ k \in {"image_generation_call", "unrecognized"}
    BY <1>8 DEF Standalone
  <2> QED
    BY <1>1, <1>2, <1>8, <2>1 DEF Next
<1>9. CASE CompactionItemDone(x, FALSE)
  BY <1>1, <1>2, <1>9 DEF Next
<1>10. CASE \/ ToolItemAdded(x, out)
            \/ ToolArgumentsDelta(NamedBy(x, k), out) \/ ToolArgumentsDone(NamedBy(x, k), out)
  <2>1. NamedBy(x, k) \in ItemIds
    BY <1>1 DEF NamedBy, ItemIds
  <2> HIDE DEF NamedBy
  <2> QED
    BY <1>1, <1>10, <2>1 DEF Next
<1>11. CASE \/ ContentPartAdded(x, out, 0, TRUE) \/ ContentPartAdded(x, out, 0, FALSE)
            \/ OutputTextDelta(x, out, 0) \/ RefusalDelta(x, out, 0) \/ RefusalDone(x, out, 0)
  BY <1>1, <1>2, <1>11 DEF Next
<1>12. CASE \E n \in 0 .. MaxCitations : ContentPartDone(x, out, 0, n)
  BY <1>1, <1>12 DEF Next
<1>13. ContentPartDone(x, out, 0, 0) => \E n \in 0 .. MaxCitations : ContentPartDone(x, out, 0, n)
  BY <1>2
<1>14. ToolItemDone(x, 0) => \E n \in 0 .. 1 : ToolItemDone(x, n)
  BY <1>2
<1> QED
  BY <1>3, <1>4, <1>5, <1>6, <1>7, <1>8, <1>9, <1>10, <1>11, <1>12, <1>13, <1>14 DEF HandlerOf,
         out

\* d looks like c to the items.
Looks(c, d) ==
    /\ BlocksIn(d.out) = BlocksIn(c.out) /\ DeltasIn(d.out) = DeltasIn(c.out)
    /\ d.closedIndex = c.closedIndex /\ SameState(c, d)

LEMMA LooksKeeps ==
    ASSUME NEW c, NEW d, Looks(c, d), NEW y, NEW q, NEW l \in FaithfulKinds, ItemInv(c, y, q, l)
    PROVE  ItemInv(d, y, q, l) /\ (StillOpen(c, y, q, l) => StillOpen(d, y, q, l))
<1>1. BlocksOf(d, y) = BlocksOf(c, y) /\ SameEntries(c, d, y) /\ d.thinkingIndex = c.thinkingIndex
  BY DEF Looks, BlocksOf, SameState, SameEntries
<1>2. DeltasIn(c.out) \subseteq DeltasIn(d.out) /\ c.closedIndex \subseteq d.closedIndex
  BY DEF Looks
<1>3. ItemInv(d, y, q, l)
  BY <1>1, <1>2, ItemKept
<1>4. StillOpen(c, y, q, l) => StillOpen(d, y, q, l)
  BY DEF StillOpen, Looks, SameState, OwnIndex
<1> QED
  BY <1>3, <1>4

\* What the invariant says while the upstream still sends events.
LEMMA ReadingFacts ==
    ASSUME Faithful, StreamInv, Receiving, Ongoing
    PROVE  /\ Good(bridge) /\ Mapped(bridge) /\ phase = "reading"
           /\ \A x \in Items : kind[x] \in FaithfulKinds /\ position[x] \in Nat
BY DEF StreamInv, UpstreamInv, BridgeInv, Receiving, Faithful

\* The event of one item.
LEMMA ItemEventKeepsInv ==
    ASSUME Faithful, StreamInv, NEW x \in Items, UpstreamItemEvent(x)
    PROVE  [Next]_vars /\ UpstreamInv' /\ BridgeInv' /\ ItemsInv' /\ EndInv'
<1> DEFINE k == kind[x]
           p == position[x]
<1>1. /\ response = "created" /\ response' = "created" /\ kind' = kind
      /\ position' = [position EXCEPT ![x] = @ + 1] /\ ~ Complete(x)
  BY DEF UpstreamItemEvent
<1>2. /\ kind \in [Items -> Kinds] /\ position \in [Items -> Nat]
      /\ \A y \in Items : kind[y] \in FaithfulKinds
      /\ \A y, z \in Items : kind[y] \in ReasoningKinds /\ kind[z] \in ReasoningKinds => y = z
  BY DEF StreamInv, UpstreamInv, Faithful
<1>3. \A y \in Items : /\ ItemInv(bridge, y, position[y], kind[y])
                       /\ StillOpen(bridge, y, position[y], kind[y])
  BY <1>1 DEF StreamInv, ItemsInv, Ongoing
<1>4. k \in FaithfulKinds /\ p \in Nat /\ p < Len(Script(k))
  <2>1. k \in FaithfulKinds /\ p \in Nat
    BY <1>2
  <2>2. Len(Script(k)) \in 2 .. 6
    BY <2>1, KindFacts
  <2>3. p <= Len(Script(k)) /\ p # Len(Script(k))
    BY <1>1, <1>3 DEF ItemInv, Complete
  <2> QED
    BY <2>1, <2>2, <2>3
<1>5. HandlerOf(x, p, k)
  BY <1>4, EventHandler
<1>6. phase = "reading"
  <2>1. Receiving
    BY <1>5 DEF HandlerOf, CommentaryItemAdded, ToolItemAdded, WebSearchItemAdded,
           UnsupportedItemAdded, PassiveItemAdded, ContentPartAdded, OutputTextDelta,
           RefusalDelta, RefusalDone, ContentPartDone, ReasoningDelta, ReasoningTextDone,
           ReasoningItemDone, ToolArgumentsDelta, ToolArgumentsDone, EventIgnored, ToolItemDone,
           WebSearchCompleted, WebSearchItemDone, CompactionItemDone, StandaloneItemDone,
           MessageItemDone
  <2> QED
    BY <2>1 DEF Receiving
<1>7. /\ Good(bridge) /\ Mapped(bridge) /\ bridge.started
      /\ Owned(bridge.out)
      /\ bridge.toolUsed <=> \E y \in Items : kind[y] \in ToolKinds /\ position[y] > 0
  BY <1>1, <1>6 DEF StreamInv, BridgeInv, Ongoing
<1>8. Before(bridge, x, p, k)
  BY <1>3, <1>4, <1>7 DEF Before
<1>9. PICK c : Advance(bridge, c, x, p, k) /\ (Return(c) \/ ReturnError(c))
  BY <1>4, <1>5, <1>8, HandlerAdvances DEF Advances
<1> DEFINE d == bridge'
<1>10. /\ Looks(c, d) /\ Lawful(d.out) /\ Running(d.out) /\ ClosedIn(d.out) = d.closedIndex
       /\ phase' = "reading" => d = c
  <2>1. CASE Return(c)
    <3>1. d = c /\ Good(c) /\ Sound(c)
      BY <1>9, <2>1 DEF Return, Advance, Good
    <3> QED
      BY <3>1 DEF Looks, SameState, Good, Sound
  <2>2. CASE ReturnError(c)
    <3>1. /\ d = sendEvent(c, MessageFrame("error", "none")) /\ Good(c) /\ phase' = "failed"
      BY <1>9, <2>2 DEF ReturnError, Advance
    <3> QED
      BY <3>1, ErrorStep DEF Looks
  <2> QED
    BY <1>9, <2>1, <2>2
<1>11. /\ Good(c) /\ Mapped(c) /\ c.started /\ Touches(bridge, c, x, k)
       /\ ItemInv(c, x, p + 1, k) /\ StillOpen(c, x, p + 1, k)
  BY <1>9 DEF Advance
<1>12. position'[x] = p + 1 /\ \A y \in Items \ {x} : position'[y] = position[y]
  BY <1>1, <1>2
<1> HIDE DEF p, k, d
<1>13. [Next]_vars
  BY <1>5, HandlerInNext
<1>14. UpstreamInv'
  <2>1. position' \in [Items -> Nat]
    BY <1>1, <1>2
  <2> QED
    BY <1>1, <1>2, <2>1 DEF UpstreamInv, Ongoing
<1>15. Owned(d.out)
  <2>1. BlocksIn(d.out) = BlocksIn(c.out) /\ DeltasIn(d.out) = DeltasIn(c.out)
    BY <1>10 DEF Looks
  <2>2. \A t \in BlocksIn(c.out) : t[3] \in Items
    BY <1>7, <1>11 DEF Touches, Owned
  <2>3. ASSUME NEW e \in DeltasIn(c.out)
        PROVE  \/ e[2] = "signature_delta"
               \/ \E t \in BlocksIn(c.out) : t[1] = e[1] /\ e[3] \in Of(t[3])
    <3>1. CASE e \in DeltasIn(bridge.out)
      BY <1>7, <1>11, <3>1 DEF Touches, Owned
    <3>2. CASE e \notin DeltasIn(bridge.out)
      BY <1>11, <3>2 DEF Touches
    <3> QED
      BY <3>1, <3>2
  <2> QED
    BY <2>1, <2>2, <2>3 DEF Owned
<1>16. d.toolUsed <=> \E y \in Items : kind[y] \in ToolKinds /\ position'[y] > 0
  <2>1. d.toolUsed <=> bridge.toolUsed \/ k \in ToolKinds
    BY <1>10, <1>11 DEF Looks, SameState, Touches
  <2>2. \A y \in Items : position'[y] > 0 <=> position[y] > 0 \/ y = x
    BY <1>2, <1>4, <1>12 DEF p
  <2> QED
    BY <1>7, <2>1, <2>2 DEF k
<1>17. BridgeInv'
  BY <1>1, <1>10, <1>11, <1>15, <1>16 DEF BridgeInv, d
<1>18. ASSUME NEW y \in Items
       PROVE  /\ ItemInv(d, y, position'[y], kind[y])
              /\ StillOpen(d, y, position'[y], kind[y])
  <2>1. ItemInv(c, y, position'[y], kind[y]) /\ StillOpen(c, y, position'[y], kind[y])
    <3>1. CASE y = x
      BY <1>11, <1>12, <3>1 DEF k
    <3>2. CASE y # x
      <4>1. /\ kind[y] \in FaithfulKinds /\ position[y] \in Nat
            /\ ~ (k \in ReasoningKinds /\ kind[y] \in ReasoningKinds)
        BY <1>2, <3>2 DEF k
      <4>2. Sound(c) /\ position'[y] = position[y]
        BY <1>11, <1>12, <3>2 DEF Good
      <4>3. ItemInv(bridge, y, position[y], kind[y]) /\ StillOpen(bridge, y, position[y], kind[y])
        BY <1>3
      <4> QED
        BY <1>11, <3>2, <4>1, <4>2, <4>3, Others
    <3> QED
      BY <3>1, <3>2
  <2>2. kind[y] \in FaithfulKinds
    BY <1>2
  <2> QED
    BY <1>10, <2>1, <2>2, LooksKeeps
<1>19. ItemsInv'
  BY <1>1, <1>18 DEF ItemsInv, d
<1>20. EndInv'
  BY <1>1 DEF EndInv, Ended
<1> QED
  BY <1>13, <1>14, <1>17, <1>19, <1>20

\* An event of no item: the frames have no new block and no delta of an item.
LEMMA NothingNew ==
    ASSUME Faithful, StreamInv, UNCHANGED <<kind, position>>,
           BlocksIn(bridge'.out) = BlocksIn(bridge.out),
           DeltasIn(bridge.out) \subseteq DeltasIn(bridge'.out),
           \A d \in DeltasIn(bridge'.out) \ DeltasIn(bridge.out) : d[2] = "signature_delta",
           bridge.closedIndex \subseteq bridge'.closedIndex,
           SameState(bridge, bridge'),
           Ongoing' => Ongoing /\ bridge'.closedIndex = bridge.closedIndex
    PROVE  /\ Owned(bridge'.out) /\ ItemsInv'
           /\ bridge'.toolUsed <=> \E x \in Items : kind'[x] \in ToolKinds /\ position'[x] > 0
<1> DEFINE d == bridge'
<1>1. /\ Owned(bridge.out) /\ ItemsInv
      /\ bridge.toolUsed <=> \E x \in Items : kind[x] \in ToolKinds /\ position[x] > 0
      /\ kind \in [Items -> Kinds] /\ kind' = kind /\ position' = position
  BY DEF StreamInv, BridgeInv, UpstreamInv
<1>2. d.toolUsed = bridge.toolUsed
  BY DEF SameState
<1>3. Owned(d.out)
  BY <1>1 DEF Owned
<1>4. ASSUME NEW x \in Items
      PROVE  /\ ItemInv(d, x, position[x], kind[x])
             /\ Ongoing' => StillOpen(d, x, position[x], kind[x])
  <2>1. kind[x] \in FaithfulKinds /\ ItemInv(bridge, x, position[x], kind[x])
    BY <1>1 DEF Faithful, ItemsInv
  <2>2. /\ BlocksOf(d, x) = BlocksOf(bridge, x) /\ SameEntries(bridge, d, x)
        /\ d.thinkingIndex = bridge.thinkingIndex
    BY DEF BlocksOf, SameState, SameEntries
  <2> HIDE DEF d
  <2>3. ItemInv(d, x, position[x], kind[x])
    BY <2>1, <2>2, ItemKept DEF d
  <2>4. Ongoing' => StillOpen(bridge, x, position[x], kind[x])
    BY <1>1 DEF ItemsInv
  <2>5. Ongoing' => StillOpen(d, x, position[x], kind[x])
    BY <2>4 DEF StillOpen, SameState, OwnIndex, d
  <2> QED
    BY <2>3, <2>5
<1>5. ItemsInv'
  BY <1>1, <1>4 DEF ItemsInv
<1> QED
  BY <1>1, <1>2, <1>3, <1>5

\* response.created.
LEMMA CreateKeepsInv ==
    ASSUME Faithful, StreamInv, UpstreamCreates
    PROVE  [Next]_vars /\ UpstreamInv' /\ BridgeInv' /\ ItemsInv' /\ EndInv'
<1> DEFINE c == ensureMessageStart(bridge)
<1>1. /\ response = "none" /\ response' = "created" /\ kind' = kind /\ position' = position
      /\ Receiving /\ bridge' = c /\ phase' = phase
  BY DEF UpstreamCreates, ResponseCreated, Return
<1>2. Good(bridge) /\ Mapped(bridge)
  BY <1>1, ReadingFacts DEF Ongoing
<1>3. Step(bridge, c, {}, {}, {}) /\ c.started
  BY <1>2, EnsureStep
<1> HIDE DEF c
<1>4. Good(c) /\ Mapped(c) /\ Looks(bridge, c)
  BY <1>2, <1>3, MappedKept DEF Step, Effect, SameState, Looks
<1>5. /\ Owned(bridge'.out) /\ ItemsInv'
      /\ bridge'.toolUsed <=> \E x \in Items : kind'[x] \in ToolKinds /\ position'[x] > 0
  BY <1>1, <1>4, NothingNew DEF Looks, Ongoing
<1>6. UpstreamInv'
  BY <1>1 DEF StreamInv, UpstreamInv, Ongoing, Ended
<1>7. BridgeInv'
  BY <1>1, <1>3, <1>4, <1>5 DEF BridgeInv, Good, Sound
<1>8. EndInv'
  BY <1>1 DEF EndInv, Ended
<1>9. Next
  BY DEF UpstreamCreates, Next
<1> QED
  BY <1>5, <1>6, <1>7, <1>8, <1>9

\* An "error" event, or a payload that cannot be read.
LEMMA FailKeepsInv ==
    ASSUME Faithful, StreamInv, UpstreamFails
    PROVE  [Next]_vars /\ UpstreamInv' /\ BridgeInv' /\ ItemsInv' /\ EndInv'
<1> DEFINE c == sendEvent(bridge, MessageFrame("error", "none"))
<1>1. /\ response \in {"none", "created"} /\ response' = "error"
      /\ kind' = kind /\ position' = position
      /\ Receiving /\ bridge' = c /\ phase' = "failed"
  BY DEF UpstreamFails, EventFatal, ReturnError
<1>2. Good(bridge)
  BY <1>1, ReadingFacts DEF Ongoing
<1>3. /\ Lawful(c.out) /\ Running(c.out) /\ ClosedIn(c.out) = c.closedIndex /\ Looks(bridge, c)
  BY <1>2, ErrorStep DEF Looks
<1> HIDE DEF c
<1>4. /\ Owned(bridge'.out) /\ ItemsInv'
      /\ bridge'.toolUsed <=> \E x \in Items : kind'[x] \in ToolKinds /\ position'[x] > 0
  BY <1>1, <1>3, NothingNew DEF Looks, Ongoing
<1>5. UpstreamInv'
  BY <1>1 DEF StreamInv, UpstreamInv
<1>6. BridgeInv'
  BY <1>1, <1>3, <1>4 DEF BridgeInv, Ongoing
<1>7. EndInv'
  BY <1>1 DEF EndInv, Ended
<1>8. Next
  BY DEF UpstreamFails, Next
<1> QED
  BY <1>4, <1>5, <1>6, <1>7, <1>8

\* The steps that hand no frame over: the reader closes, the client reads,
\* goes away or cancels, or nothing happens.
LEMMA RestKeepsInv ==
    ASSUME Faithful, StreamInv, UpstreamCloses \/ Client \/ UNCHANGED allVars
    PROVE  [Next]_vars /\ UpstreamInv' /\ BridgeInv' /\ ItemsInv' /\ EndInv'
<1>1. /\ kind' = kind /\ position' = position /\ bridge' = bridge
      /\ phase' = "reading" => phase = "reading" /\ response' = response
      /\ response' = response \/ (response \in {"none", "created"} /\ response' = "lost")
  BY DEF UpstreamCloses, ReaderClosed, Client, Deliver, WriteFails, Cancel, upstream, allVars,
         vars
<1>2. [Next]_vars
  BY DEF UpstreamCloses, Client, allVars, Next
<1>3. /\ Owned(bridge'.out) /\ ItemsInv'
      /\ bridge'.toolUsed <=> \E x \in Items : kind'[x] \in ToolKinds /\ position'[x] > 0
  BY <1>1, NothingNew DEF SameState, Ongoing
<1>4. UpstreamInv'
  BY <1>1 DEF StreamInv, UpstreamInv, Ongoing, Ended, Complete
<1>5. BridgeInv'
  <2>1. Ended' <=> Ended
    BY <1>1 DEF Ended
  <2>2. /\ Ongoing' => Ongoing
        /\ response' = "created" => response = "created"
    BY <1>1 DEF Ongoing
  <2> QED
    BY <1>1, <1>3, <2>1, <2>2 DEF StreamInv, BridgeInv
<1>6. EndInv'
  BY <1>1 DEF StreamInv, EndInv, Ended, Complete
<1> QED
  BY <1>2, <1>3, <1>4, <1>5, <1>6

\* The end of the response: every block is closed but those of tool calls that
\* were cut off.
LEMMA EndKeepsInv ==
    ASSUME Faithful, StreamInv, NEW status, NEW reason,
           status \in {"completed", "incomplete", "failed", "cancelled"},
           reason \in {"none", "max_output_tokens", "content_filter"},
           response = "created", ResponseEnded(status, reason), response' = status,
           UNCHANGED <<kind, position>>,
           status = "completed" => reason = "none" /\ \A x \in Items : Complete(x)
    PROVE  [Next]_vars /\ UpstreamInv' /\ BridgeInv' /\ ItemsInv' /\ EndInv'
<1> DEFINE b == bridge
           stop == deriveStopReason(status, reason, b.toolUsed)
<1>1. /\ Good(b) /\ Mapped(b) /\ b.started /\ phase = "reading" /\ Owned(b.out)
      /\ \A x \in Items : /\ kind[x] \in FaithfulKinds /\ position[x] \in Nat
                          /\ ItemInv(b, x, position[x], kind[x])
  <2>1. Receiving /\ Ongoing
    BY DEF ResponseEnded, Ongoing
  <2>2. /\ Good(b) /\ Mapped(b) /\ phase = "reading"
        /\ \A x \in Items : kind[x] \in FaithfulKinds /\ position[x] \in Nat
    BY <2>1, ReadingFacts
  <2> QED
    BY <2>2, <2>1 DEF StreamInv, BridgeInv, ItemsInv
<1>2. ensureMessageStart(b) = b
  BY <1>1 DEF ensureMessageStart
<1>3. PICK order \in Ascending(OpenTextBlocks(b)) :
         Return(finishMessage(flushOpenTextBlocks(b, order), stop))
  BY <1>2 DEF ResponseEnded
<1> DEFINE c == flushOpenTextBlocks(b, order)
           d == finishMessage(c, stop)
<1>4. /\ Good(c) /\ SameState(b, c) /\ c.started
      /\ BlocksIn(c.out) = BlocksIn(b.out)
      /\ DeltasIn(b.out) \subseteq DeltasIn(c.out)
      /\ \A e \in DeltasIn(c.out) \ DeltasIn(b.out) : e[2] = "signature_delta"
      /\ b.closedIndex \subseteq c.closedIndex
      /\ \A key \in Keys : b.textIndexByKey[key] \in {Absent} \cup c.closedIndex
      /\ b.thinkingIndex \in {Absent} \cup c.closedIndex
  BY <1>1, FlushStep
<1>5. /\ stop \in Details
      /\ status # "completed" => stop # "tool_use"
      /\ status = "completed" => (stop = "tool_use" <=> b.toolUsed)
  <2>1. stop \in Details
    BY StopReasonIsADetail
  <2> QED
    BY <2>1 DEF deriveStopReason
<1>6. bridge' = d /\ phase' = phase
  BY <1>3 DEF Return
<1> HIDE DEF c, stop
<1>7. ASSUME NEW t \in BlocksIn(c.out), t[1] \notin c.closedIndex
      PROVE  t[2] = "tool_use" /\ ~ Complete(t[3])
  <2> DEFINE x == t[3]
             k == kind[x]
             p == position[x]
  <2>1. t \in BlocksIn(b.out) /\ t[1] \notin b.closedIndex /\ x \in Items
    BY <1>1, <1>4, <1>7 DEF Owned
  <2>2. t \in BlocksOf(b, x) /\ k \in FaithfulKinds /\ p \in Nat /\ ItemInv(b, x, p, k)
    BY <1>1, <2>1 DEF BlocksOf
  <2> HIDE DEF x
  <2>3. k \in Streamed /\ p < ClosesAt(k) /\ t[1] = OwnIndex(b, x, k) /\ t[2] = BlockOf(k)
    BY <2>1, <2>2 DEF ItemInv
  <2>4. t[1] # Absent
    <3>1. t[1] \in 0 .. (b.nextIndex - 1) /\ b.nextIndex \in Nat
      BY <1>1, <2>1, BlockFacts, SoundTypes DEF Good
    <3> QED
      BY <3>1 DEF Absent
  <2>5. k \notin TextKinds
    <3>1. <<x, 0>> \in Keys
      BY <2>1, ItemFacts
    <3>2. b.textIndexByKey[<<x, 0>>] \in {Absent} \cup c.closedIndex
      BY <1>4, <3>1
    <3>3. k \in TextKinds => OwnIndex(b, x, k) = b.textIndexByKey[<<x, 0>>]
      BY DEF OwnIndex, TextKinds, RefusalKinds, WithArguments, ToolKinds, CallKinds,
             DirectTools, ConvertedTools
    <3> QED
      BY ONLY <1>7, <2>3, <2>4, <3>2, <3>3
  <2>6. k # "reasoning"
    <3>1. k = "reasoning" => OwnIndex(b, x, k) = b.thinkingIndex
      BY DEF OwnIndex, TextKinds, RefusalKinds, WithArguments, ToolKinds, CallKinds,
             DirectTools, ConvertedTools
    <3> QED
      BY <1>4, <1>7, <2>3, <2>4, <3>1
  <2>7. k \in ToolKinds
    BY <2>3, <2>5, <2>6 DEF Streamed
  <2>8. t[2] = "tool_use"
    BY <2>3, <2>7, Positions
  <2>9. ~ Complete(x)
    <3>1. ClosesAt(k) <= Len(Script(k)) /\ ClosesAt(k) \in 2 .. 5 /\ Len(Script(k)) \in 2 .. 6
      BY <2>2, <2>3, KindFacts
    <3> QED
      BY <2>2, <2>3, <3>1 DEF Complete
  <2> QED
    BY <2>8, <2>9 DEF x
<1>8. \A t \in BlocksIn(c.out) : t[1] \in c.closedIndex \/ (t[2] = "tool_use" /\ stop # "tool_use")
  <2> SUFFICES ASSUME NEW t \in BlocksIn(c.out), t[1] \notin c.closedIndex
               PROVE  t[2] = "tool_use" /\ stop # "tool_use"
    OBVIOUS
  <2>1. t[2] = "tool_use" /\ ~ Complete(t[3])
    BY <1>7
  <2>2. t[3] \in Items
    BY <1>1, <1>4 DEF Owned
  <2> QED
    BY <1>5, <2>1, <2>2
<1>9. /\ Sound(d) /\ Lawful(d.out) /\ SameState(c, d)
      /\ BlocksIn(d.out) = BlocksIn(c.out) /\ DeltasIn(d.out) = DeltasIn(c.out)
      /\ d.closedIndex = c.closedIndex
      /\ \A i \in 1 .. Len(d.out) : d.out[i].type = "message_delta" => d.out[i].what = stop
  BY <1>4, <1>5, <1>8, FinishStep
<1> HIDE DEF d
<1>10. SameState(b, d)
  BY <1>4, <1>9 DEF SameState
<1>11. Ended' /\ ~ Ongoing' /\ response' # "created"
  BY DEF Ended, Ongoing
<1>12. /\ Owned(bridge'.out) /\ ItemsInv'
       /\ bridge'.toolUsed <=> \E x \in Items : kind'[x] \in ToolKinds /\ position'[x] > 0
  BY <1>4, <1>6, <1>9, <1>10, <1>11, NothingNew
<1>13. UpstreamInv'
  BY <1>11 DEF StreamInv, UpstreamInv, Complete
<1>14. BridgeInv'
  BY <1>6, <1>9, <1>11, <1>12 DEF BridgeInv, Sound
<1>15. EndInv'
  <2>1. \A t \in BlocksIn(d.out) : t[1] \in d.closedIndex \/ (t[2] = "tool_use" /\ ~ Complete(t[3]))
    BY <1>7, <1>9
  <2>2. d.toolUsed = b.toolUsed
    BY <1>10 DEF SameState
  <2> QED
    BY <1>5, <1>6, <1>9, <2>1, <2>2 DEF EndInv, Complete
<1>16. Next
  BY DEF Next
<1> QED
  BY <1>12, <1>13, <1>14, <1>15, <1>16

\* A response begins with no item announced, and with one reasoning item at most.
LEMMA InitEstablishesStreamInv ==
    ASSUME Faithful, StreamInit
    PROVE  StreamInv
<1>1. IInv
  BY InitEstablishesIInv DEF StreamInit
<1>2. /\ bridge = newStreamState /\ bridge.out = << >> /\ Len(bridge.out) = 0
      /\ kind \in [Items -> Kinds] /\ position = [x \in Items |-> 0] /\ response = "none"
      /\ Cardinality({x \in Items : kind[x] \in ReasoningKinds}) <= MaxReasoning
  BY DEF StreamInit, Init, newStreamState
<1>3. ASSUME NEW x \in Items, NEW y \in Items,
             kind[x] \in ReasoningKinds, kind[y] \in ReasoningKinds
      PROVE  x = y
  <2> DEFINE S == {z \in Items : kind[z] \in ReasoningKinds}
  <2>1. IsFiniteSet(S) /\ Cardinality(S) \in Nat
    BY UpstreamAssumption, FS_Subset, FS_CardinalityType
  <2>2. Cardinality(S) <= 1
    BY <1>2, <2>1, UpstreamAssumption DEF Faithful
  <2>3. x \in S /\ y \in S
    BY <1>3
  <2> HIDE DEF S
  <2>4. Cardinality(S) = 1
    BY <2>1, <2>2, <2>3, FS_EmptySet
  <2>5. PICK z : S = {z}
    BY <2>1, <2>4, FS_Singleton
  <2> QED
    BY <2>3, <2>5
<1>4. UpstreamInv
  BY <1>2, <1>3 DEF UpstreamInv, Ongoing
<1>5. BlocksIn(bridge.out) = {} /\ DeltasIn(bridge.out) = {}
  <2>1. 1 .. ((Len(bridge.out) + 1) - 1) = {}
    BY <1>2
  <2> QED
    BY <2>1 DEF BlocksIn, DeltasIn, BlocksBefore, DeltasBefore
<1>6. /\ bridge.closedIndex = {} /\ ~ bridge.toolUsed /\ ~ bridge.started
      /\ bridge.thinkingIndex = Absent /\ bridge.ignoredMessageItemID = {}
      /\ bridge.webSearchEmitted = {}
      /\ \A key \in Keys : bridge.textIndexByKey[key] = Absent
      /\ \A x \in ItemIds : bridge.toolIndexByItemID[x] = Absent
      /\ \A o \in Outputs : bridge.toolIndexByOutput[o] = Absent
  BY <1>2 DEF newStreamState
<1>7. Sound(bridge)
  BY <1>1 DEF IInv, StreamInit, Init
<1>8. Lawful(bridge.out) /\ Running(bridge.out) /\ Owned(bridge.out)
  BY <1>2, <1>5 DEF Lawful, Running, NoneIn, NoneBefore, Owned
<1>9. Good(bridge) /\ Mapped(bridge)
  <2>1. bridge.toolIndexByItemID[NoItem] = Absent
    BY <1>6 DEF ItemIds
  <2>2. \A x \in Items : bridge.toolIndexByItemID[x] = Absent
    BY <1>6 DEF ItemIds
  <2> QED
    BY <2>1, <2>2, <1>5, <1>6, <1>7, <1>8 DEF Good, Mapped
<1>10. BridgeInv
  BY <1>2, <1>6, <1>7, <1>8, <1>9 DEF BridgeInv, Sound
<1>11. ItemsInv
  <2> SUFFICES ASSUME NEW x \in Items
               PROVE  ItemInv(bridge, x, 0, kind[x]) /\ StillOpen(bridge, x, 0, kind[x])
    BY <1>2 DEF ItemsInv
  <2>1. kind[x] \in FaithfulKinds
    BY <1>2 DEF Faithful
  <2>2. OpensAt(kind[x]) \in 1 .. 6 /\ Len(Script(kind[x])) \in 2 .. 6
    BY <2>1, KindFacts
  <2>3. BlocksOf(bridge, x) = {} /\ NoEntry(bridge, x)
    BY <1>5, <1>6, ItemFacts DEF BlocksOf, NoEntry
  <2>4. 0 < OpensAt(kind[x]) /\ ~ (0 >= OpensAt(kind[x])) /\ ~ (OpensAt(kind[x]) <= 0)
        /\ 0 <= Len(Script(kind[x]))
    BY <2>2
  <2> QED
    BY <1>6, <2>3, <2>4 DEF ItemInv, StillOpen
<1>12. EndInv
  BY <1>2 DEF EndInv, Ended
<1> QED
  BY <1>1, <1>4, <1>10, <1>11, <1>12 DEF StreamInv

\* Every step of the response keeps the invariant.
LEMMA NextKeepsStreamInv ==
    ASSUME Faithful, StreamInv, [StreamNext]_allVars
    PROVE  StreamInv' /\ [Next]_vars
<1> SUFFICES [Next]_vars /\ UpstreamInv' /\ BridgeInv' /\ ItemsInv' /\ EndInv'
  BY NextKeepsIInv DEF StreamInv
<1>1. CASE UpstreamCreates
  BY <1>1, CreateKeepsInv
<1>2. CASE \E x \in Items : UpstreamItemEvent(x)
  BY <1>2, ItemEventKeepsInv
<1>3. CASE UpstreamCompletes
  BY <1>3, EndKeepsInv DEF UpstreamCompletes
<1>4. ASSUME NEW status \in {"incomplete", "cancelled", "failed"},
             NEW reason \in {"none", "max_output_tokens", "content_filter"},
             UpstreamStops(status, reason)
      PROVE  [Next]_vars /\ UpstreamInv' /\ BridgeInv' /\ ItemsInv' /\ EndInv'
  BY <1>4, EndKeepsInv DEF UpstreamStops
<1>5. CASE UpstreamFails
  BY <1>5, FailKeepsInv
<1>6. CASE UpstreamCloses \/ Client \/ UNCHANGED allVars
  BY <1>6, RestKeepsInv
<1> QED
  BY <1>1, <1>2, <1>3, <1>4, <1>5, <1>6 DEF StreamNext

-----------------------------------------------------------------------------
(* The theorems                                                             *)

\* The frames of a well-formed stream and its sets of blocks, deltas and stops.
LEMMA Frames ==
    ASSUME NEW s \in Seq(Frame), WellFormed(s)
    PROVE  /\ \A k \in 1 .. Len(s) : s[k].type = "content_block_start" =>
                 <<s[k].index, s[k].what, s[k].item>> \in BlocksIn(s)
           /\ \A k \in 1 .. Len(s) : s[k].type = "content_block_delta" =>
                 <<s[k].index, s[k].what, s[k].item>> \in DeltasIn(s)
           /\ \A t \in BlocksIn(s) : \E k \in 1 .. Len(s) :
                 /\ s[k].type = "content_block_start"
                 /\ t = <<s[k].index, s[k].what, s[k].item>>
           /\ \A t \in DeltasIn(s) : \E k \in 1 .. Len(s) :
                 /\ s[k].type = "content_block_delta"
                 /\ t = <<s[k].index, s[k].what, s[k].item>>
           /\ \A i \in ClosedIn(s) : \E k \in 1 .. Len(s) :
                 s[k].type = "content_block_stop" /\ s[k].index = i
           /\ \A k \in 1 .. Len(s) : s[k].type = "content_block_delta" =>
                 \E j \in 1 .. Len(s) : /\ j < k /\ s[j].type = "content_block_start"
                                        /\ s[j].index = s[k].index
           /\ \A j, k \in 1 .. Len(s) :
                 /\ s[j].type = "content_block_start" /\ s[k].type = "content_block_start"
                 /\ s[j].index = s[k].index
                 => j = k
<1>1. Len(s) \in Nat /\ (Len(s) + 1) - 1 = Len(s)
  OBVIOUS
<1>2. ASSUME NEW j \in 1 .. Len(s), NEW k \in 1 .. Len(s), j < k,
             s[j].type = "content_block_start", s[k].type = "content_block_start"
      PROVE  s[j].index # s[k].index
  <2>1. OpenedBefore(s, k) = 0 .. (s[k].index - 1) /\ s[k].index >= 0 /\ s[k].index \in Int
    <3>1. s[k] \in Frame /\ FrameOK(s, k)
      BY DEF WellFormed
    <3>2. s[k].index \in Int
      BY <3>1 DEF Frame, Index, Absent
    <3> QED
      BY <1>2, <3>1, <3>2 DEF FrameOK
  <2>2. s[j].index \in OpenedBefore(s, k)
    BY <1>2 DEF OpenedBefore
  <2> QED
    BY <2>1, <2>2
<1>3. \A j, k \in 1 .. Len(s) :
         /\ s[j].type = "content_block_start" /\ s[k].type = "content_block_start"
         /\ s[j].index = s[k].index
         => j = k
  <2> SUFFICES ASSUME NEW j \in 1 .. Len(s), NEW k \in 1 .. Len(s),
                      s[j].type = "content_block_start", s[k].type = "content_block_start",
                      s[j].index = s[k].index
               PROVE  j = k
    OBVIOUS
  <2>1. ~ (j < k) /\ ~ (k < j)
    BY <1>2
  <2> QED
    BY <2>1, <1>1
<1>4. \A k \in 1 .. Len(s) : s[k].type = "content_block_delta" =>
         \E j \in 1 .. Len(s) : /\ j < k /\ s[j].type = "content_block_start"
                                /\ s[j].index = s[k].index
  <2> SUFFICES ASSUME NEW k \in 1 .. Len(s), s[k].type = "content_block_delta"
               PROVE  \E j \in 1 .. Len(s) : /\ j < k /\ s[j].type = "content_block_start"
                                             /\ s[j].index = s[k].index
    OBVIOUS
  <2>1. s[k].index \in OpenedBefore(s, k)
    BY DEF WellFormed, FrameOK
  <2>2. PICK j \in 1 .. (k - 1) : s[j].type = "content_block_start" /\ s[j].index = s[k].index
    BY <2>1 DEF OpenedBefore
  <2>3. j \in 1 .. Len(s) /\ j < k
    BY <1>1
  <2> QED
    BY <2>2, <2>3
<1> QED
  BY <1>1, <1>3, <1>4 DEF BlocksIn, BlocksBefore, DeltasIn, DeltasBefore, ClosedIn, ClosedBefore

\* What the invariant says of the frames the bridge has sent.
LEMMA OutFacts ==
    ASSUME StreamInv
    PROVE  /\ bridge.out \in Seq(Frame) /\ WellFormed(bridge.out) /\ Lawful(bridge.out)
           /\ DOMAIN bridge.out = 1 .. Len(bridge.out) /\ Len(bridge.out) \in Nat
           /\ Owned(bridge.out) /\ ClosedIn(bridge.out) = bridge.closedIndex
BY DEF StreamInv, IInv, BridgeInv, Bridge

\* What it says of an item.
LEMMA EachItem ==
    ASSUME Faithful, StreamInv, NEW x \in Items
    PROVE  /\ kind[x] \in Kinds /\ kind[x] \in FaithfulKinds /\ position[x] \in Nat
           /\ ItemInv(bridge, x, position[x], kind[x])
           /\ x # NoItem /\ OutputOf[x] \notin Items
BY UpstreamAssumption, BridgeAssumption DEF Faithful, StreamInv, UpstreamInv, ItemsInv

\* A delta goes to a block of the item it speaks of: the block is older, and no
\* other block has its index.
LEMMA DeltaReaches ==
    ASSUME Faithful, StreamInv
    PROVE  DeltasReachTheirBlock
<1> SUFFICES ASSUME NEW d \in 1 .. Len(bridge.out), bridge.out[d].type = "content_block_delta",
                    bridge.out[d].what # "signature_delta"
             PROVE  \E x \in Items : \E s \in Sent("content_block_start") :
                       /\ s < d
                       /\ bridge.out[s].index = bridge.out[d].index
                       /\ bridge.out[s].item \in Of(x) /\ bridge.out[d].item \in Of(x)
  BY OutFacts DEF DeltasReachTheirBlock, Sent
<1>1. PICK t \in BlocksIn(bridge.out) :
         t[1] = bridge.out[d].index /\ bridge.out[d].item \in Of(t[3])
  <2> DEFINE e == <<bridge.out[d].index, bridge.out[d].what, bridge.out[d].item>>
  <2>1. e \in DeltasIn(bridge.out)
    BY OutFacts, Frames
  <2>2. e[1] = bridge.out[d].index /\ e[2] # "signature_delta" /\ e[3] = bridge.out[d].item
    OBVIOUS
  <2> HIDE DEF e
  <2>3. PICK t \in BlocksIn(bridge.out) : t[1] = e[1] /\ e[3] \in Of(t[3])
    BY <2>1, <2>2, OutFacts DEF Owned
  <2> QED
    BY <2>2, <2>3
<1>2. PICK j \in 1 .. Len(bridge.out) :
         /\ bridge.out[j].type = "content_block_start"
         /\ t = <<bridge.out[j].index, bridge.out[j].what, bridge.out[j].item>>
  BY OutFacts, Frames
<1>3. PICK i \in 1 .. Len(bridge.out) :
         /\ i < d /\ bridge.out[i].type = "content_block_start"
         /\ bridge.out[i].index = bridge.out[d].index
  BY OutFacts, Frames
<1>4. bridge.out[j].index = bridge.out[d].index /\ bridge.out[j].item = t[3]
      /\ t[3] \in Items /\ t[3] \in Of(t[3])
  BY <1>1, <1>2, OutFacts DEF Owned, Of
<1>5. i = j
  BY <1>2, <1>3, <1>4, OutFacts, Frames
<1> QED
  BY <1>1, <1>2, <1>3, <1>4, <1>5, OutFacts DEF Sent

\* A frame that speaks of an item starts a block or goes to one of its blocks.
LEMMA SpeaksOfABlock ==
    ASSUME StreamInv, NEW k \in 1 .. Len(bridge.out), NEW x \in Items, bridge.out[k].item = x
    PROVE  BlocksOf(bridge, x) # {}
<1> DEFINE f == bridge.out[k]
           e == <<f.index, f.what, f.item>>
<1>1. x # NoItem
  BY BridgeAssumption
<1>2. CASE f.type = "content_block_start"
  <2>1. e \in BlocksIn(bridge.out) /\ e[3] = x
    BY <1>2, OutFacts, Frames
  <2> HIDE DEF e
  <2> QED
    BY <2>1 DEF BlocksOf
<1>3. CASE f.type = "content_block_delta"
  <2>1. e \in DeltasIn(bridge.out) /\ e[3] = x
    BY <1>3, OutFacts, Frames
  <2>2. e[2] # "signature_delta"
    BY <1>1, <1>3, OutFacts DEF Lawful, MayCome
  <2> HIDE DEF e
  <2>3. PICK t \in BlocksIn(bridge.out) : x \in Of(t[3]) /\ t[3] \in Items
    BY <2>1, <2>2, OutFacts DEF Owned
  <2>4. OutputOf[t[3]] \notin Items
    BY <2>3, UpstreamAssumption
  <2> QED
    BY <2>3, <2>4 DEF Of, BlocksOf
<1>4. CASE f.type \notin {"content_block_start", "content_block_delta"}
  <2>1. f.item = NoItem
    BY <1>4, OutFacts DEF Lawful, MayCome
  <2> QED
    BY <1>1, <2>1
<1> QED
  BY <1>2, <1>3, <1>4

\* An item that is complete has one block that shows it, and each of its blocks
\* is closed.
LEMMA CompleteItem ==
    ASSUME Faithful, StreamInv, NEW x \in Items, Complete(x), kind[x] \notin CommentaryKinds
    PROVE  /\ \E t \in BlocksOf(bridge, x) :
                 /\ t[2] \in MainBlocks(kind[x])
                 /\ \A u \in BlocksOf(bridge, x) : u[2] \in MainBlocks(kind[x]) => u = t
           /\ \A t \in BlocksOf(bridge, x) : t[1] \in bridge.closedIndex
<1> DEFINE k == kind[x]
           p == position[x]
<1>1. /\ k \in FaithfulKinds /\ p \in Nat /\ p = Len(Script(k)) /\ ItemInv(bridge, x, p, k)
      /\ k \notin CommentaryKinds
  BY EachItem DEF Complete
<1> HIDE DEF k, p
<1>2. /\ OpensAt(k) \in Nat /\ ClosesAt(k) \in Nat /\ OpensAt(k) <= p
      /\ k \in Streamed => ~ (p < ClosesAt(k))
      /\ BlockOf(k) \in MainBlocks(k)
  <2>1. /\ OpensAt(k) \in 1 .. 6 /\ ClosesAt(k) \in 2 .. 5 /\ Len(Script(k)) \in 2 .. 6
        /\ k \in Streamed => OpensAt(k) < ClosesAt(k) /\ ClosesAt(k) <= Len(Script(k))
        /\ k \notin Streamed => OpensAt(k) = Len(Script(k))
        /\ BlockOf(k) \in MainBlocks(k)
    BY <1>1, KindFacts DEF CommentaryKinds
  <2> QED
    BY <1>1, <2>1
<1>3. \E t \in BlocksOf(bridge, x) :
         /\ t[2] \in MainBlocks(k)
         /\ \A u \in BlocksOf(bridge, x) : u[2] \in MainBlocks(k) => u = t
  BY <1>1, <1>2 DEF ItemInv
<1>4. \A t \in BlocksOf(bridge, x) : t[1] \in bridge.closedIndex
  BY <1>1, <1>2 DEF ItemInv
<1> QED
  BY <1>3, <1>4 DEF k

\* A commentary message has no block.
LEMMA CommentaryHidden ==
    ASSUME Faithful, StreamInv, "commentary_refusal" \notin Kinds
    PROVE  CommentarySuppressed
<1> SUFFICES ASSUME NEW k \in 1 .. Len(bridge.out), NEW x \in Items,
                    kind[x] \in CommentaryKinds, bridge.out[k].item = x
             PROVE  FALSE
  BY OutFacts DEF CommentarySuppressed, CommentaryKinds
<1>1. /\ kind[x] = "commentary" /\ position[x] \in Nat
      /\ ItemInv(bridge, x, position[x], kind[x])
  BY EachItem DEF CommentaryKinds
<1>2. BlocksOf(bridge, x) # {}
  BY <1>1, SpeaksOfABlock
<1>3. OpensAt("commentary") > Len(Script("commentary")) /\ Len(Script("commentary")) \in Nat
      /\ OpensAt("commentary") \in Nat
  <2>1. "commentary" \in FaithfulKinds
    BY DEF FaithfulKinds
  <2> QED
    BY <2>1, KindFacts
<1> QED
  BY <1>1, <1>2, <1>3 DEF ItemInv

\* The frames that show a complete item are the one that starts its block.
LEMMA ShownOnce ==
    ASSUME Faithful, StreamInv
    PROVE  EveryItemShownOnce
<1> SUFFICES ASSUME NEW x \in Items, Complete(x), kind[x] \notin CommentaryKinds
             PROVE  Cardinality({k \in Sent("content_block_start") :
                       /\ bridge.out[k].what \in MainBlocks(kind[x])
                       /\ bridge.out[k].item \in Of(x)}) = 1
  BY DEF EveryItemShownOnce, CommentaryKinds
<1> DEFINE S == {k \in Sent("content_block_start") :
                    /\ bridge.out[k].what \in MainBlocks(kind[x])
                    /\ bridge.out[k].item \in Of(x)}
<1>1. PICK t \in BlocksOf(bridge, x) :
         /\ t[2] \in MainBlocks(kind[x])
         /\ \A u \in BlocksOf(bridge, x) : u[2] \in MainBlocks(kind[x]) => u = t
  BY CompleteItem
<1>2. PICK j \in 1 .. Len(bridge.out) :
         /\ bridge.out[j].type = "content_block_start"
         /\ t = <<bridge.out[j].index, bridge.out[j].what, bridge.out[j].item>>
  BY OutFacts, Frames DEF BlocksOf
<1>3. bridge.out[j].what = t[2] /\ bridge.out[j].item = t[3] /\ bridge.out[j].index = t[1]
      /\ t[3] = x
  BY <1>2 DEF BlocksOf
<1>4. j \in S
  BY <1>1, <1>2, <1>3, EachItem, OutFacts DEF Sent, Of
<1>5. ASSUME NEW k \in S
      PROVE  k = j
  <2> DEFINE u == <<bridge.out[k].index, bridge.out[k].what, bridge.out[k].item>>
  <2>1. /\ k \in 1 .. Len(bridge.out) /\ bridge.out[k].type = "content_block_start"
        /\ bridge.out[k].what \in MainBlocks(kind[x])
        /\ bridge.out[k].item \in Of(x)
    BY <1>5, EachItem, OutFacts DEF Sent
  <2>2. u \in BlocksIn(bridge.out)
    BY <2>1, OutFacts, Frames
  <2>3. u[1] = bridge.out[k].index /\ u[2] = bridge.out[k].what /\ u[3] = bridge.out[k].item
    OBVIOUS
  <2> HIDE DEF u
  <2>4. u[3] \in Items
    BY <2>2, OutFacts DEF Owned
  <2>5. u[3] = x
    BY <2>1, <2>3, <2>4, EachItem DEF Of
  <2>6. u = t
    BY <1>1, <2>1, <2>2, <2>3, <2>5 DEF BlocksOf
  <2> QED
    BY <1>2, <1>3, <2>1, <2>3, <2>6, OutFacts, Frames
<1> HIDE DEF S
<1>6. S = {j}
  BY <1>4, <1>5
<1>7. Cardinality(S) = 1
  BY <1>6, FS_Singleton
<1> QED
  BY <1>7 DEF S

\* message_stop was sent because the response ended, and EndInv says what is
\* closed then.
LEMMA FinishedClosed ==
    ASSUME Faithful, StreamInv
    PROVE  FinishedItemsAreClosed
<1> SUFFICES ASSUME NEW m \in 1 .. Len(bridge.out), bridge.out[m].type = "message_stop",
                    NEW s \in 1 .. Len(bridge.out), NEW x \in Items,
                    bridge.out[s].type = "content_block_start",
                    bridge.out[s].item = x,
                    Complete(x) \/ bridge.out[s].what # "tool_use"
             PROVE  \E c \in Sent("content_block_stop") :
                       bridge.out[c].index = bridge.out[s].index
  BY OutFacts DEF FinishedItemsAreClosed, Sent
<1>1. Ended
  <2>1. m \in 1 .. ((Len(bridge.out) + 1) - 1)
    BY OutFacts
  <2>2. ~ Running(bridge.out)
    BY <2>1 DEF Running, NoneIn, NoneBefore
  <2> QED
    BY <2>2 DEF StreamInv, BridgeInv
<1> DEFINE t == <<bridge.out[s].index, bridge.out[s].what, bridge.out[s].item>>
<1>2. t \in BlocksIn(bridge.out)
  BY OutFacts, Frames
<1>3. t[1] = bridge.out[s].index /\ t[2] = bridge.out[s].what /\ t[3] = x
  BY EachItem
<1> HIDE DEF t
<1>4. t[1] \in ClosedIn(bridge.out)
  BY <1>1, <1>2, <1>3, OutFacts DEF StreamInv, EndInv
<1>5. PICK c \in 1 .. Len(bridge.out) :
         bridge.out[c].type = "content_block_stop" /\ bridge.out[c].index = t[1]
  BY <1>4, OutFacts, Frames
<1> QED
  BY <1>3, <1>5, OutFacts DEF Sent

\* toolUsed of a response that ran to its end says whether it has a tool item.
LEMMA StopReasonReports ==
    ASSUME Faithful, StreamInv
    PROVE  StopReasonReportsToolUse
<1> SUFFICES ASSUME NEW k \in 1 .. Len(bridge.out), bridge.out[k].type = "message_delta",
                    response = "completed"
             PROVE  bridge.out[k].what = "tool_use" <=> \E x \in Items : kind[x] \in ToolKinds
  BY OutFacts DEF StopReasonReportsToolUse, Sent
<1>1. bridge.out[k].what = "tool_use" <=> bridge.toolUsed
  BY DEF StreamInv, EndInv
<1>2. ASSUME NEW x \in Items
      PROVE  position[x] > 0
  <2>1. Complete(x)
    BY DEF StreamInv, UpstreamInv
  <2>2. Len(Script(kind[x])) \in 2 .. 6
    BY EachItem, KindFacts
  <2>3. position[x] \in 2 .. 6
    BY <2>1, <2>2 DEF Complete
  <2> QED
    BY <2>3
<1> QED
  BY <1>1, <1>2 DEF StreamInv, BridgeInv

\* The arguments of a call reach the client with its second event at the latest.
LEMMA InputDelivered ==
    ASSUME Faithful, StreamInv, "custom_tool_call" \notin Kinds
    PROVE  ToolInputDelivered
<1> SUFFICES ASSUME NEW x \in Items, kind[x] \in CallKinds, Complete(x)
             PROVE  \E d \in Sent("content_block_delta") :
                       /\ bridge.out[d].what = "input_json_delta"
                       /\ bridge.out[d].item \in Of(x)
  BY DEF ToolInputDelivered
<1>1. /\ kind[x] \in WithArguments
      /\ ItemInv(bridge, x, position[x], kind[x])
  BY EachItem DEF CallKinds, DirectTools, WithArguments
<1>2. position[x] >= 2
  <2>1. Len(Script(kind[x])) \in 2 .. 6
    BY EachItem, KindFacts
  <2>2. position[x] \in 2 .. 6
    BY <2>1 DEF Complete
  <2> QED
    BY <2>2
<1>3. PICK e \in DeltasIn(bridge.out) : e[2] = "input_json_delta" /\ e[3] \in Of(x)
  BY <1>1, <1>2 DEF ItemInv
<1>4. PICK d \in 1 .. Len(bridge.out) :
         /\ bridge.out[d].type = "content_block_delta"
         /\ e = <<bridge.out[d].index, bridge.out[d].what, bridge.out[d].item>>
  BY OutFacts, Frames
<1>5. bridge.out[d].what = "input_json_delta" /\ bridge.out[d].item \in Of(x)
  BY <1>3, <1>4
<1> QED
  BY <1>4, <1>5, OutFacts DEF Sent

\* A thinking delta of a complete item is in a closed block.  Its stop came after
\* the delta, because no delta follows the stop, and a stop of a thinking block
\* that has deltas follows the signature, which is the last of them.
LEMMA ReasoningSealed ==
    ASSUME Faithful, StreamInv
    PROVE  ReasoningIsSealed
<1> SUFFICES ASSUME NEW d \in 1 .. Len(bridge.out), NEW x \in Items,
                    bridge.out[d].type = "content_block_delta",
                    bridge.out[d].what = "thinking_delta",
                    bridge.out[d].item = x, Complete(x)
             PROVE  \E s \in Sent("content_block_delta"), c \in Sent("content_block_stop") :
                       /\ d < s /\ s < c
                       /\ bridge.out[s].what = "signature_delta"
                       /\ bridge.out[s].index = bridge.out[d].index
                       /\ bridge.out[c].index = bridge.out[d].index
  BY OutFacts DEF ReasoningIsSealed, Sent
<1> DEFINE i == bridge.out[d].index
           e == <<i, bridge.out[d].what, bridge.out[d].item>>
<1>1. x # NoItem /\ kind[x] \in FaithfulKinds /\ position[x] \in Nat
      /\ ItemInv(bridge, x, position[x], kind[x])
  BY EachItem
<1>2. e \in DeltasIn(bridge.out) /\ e[1] = i /\ e[2] = "thinking_delta" /\ e[3] = x
  BY <1>1, OutFacts, Frames
<1> HIDE DEF e
<1>3. PICK t \in BlocksIn(bridge.out) : t[1] = i /\ t[3] = x
  <2>1. PICK t \in BlocksIn(bridge.out) : t[1] = i /\ x \in Of(t[3]) /\ t[3] \in Items
    BY <1>2, OutFacts DEF Owned
  <2>2. OutputOf[t[3]] \notin Items
    BY <2>1, UpstreamAssumption
  <2> QED
    BY <2>1, <2>2 DEF Of
<1>4. t[1] \in bridge.closedIndex
  <2>1. kind[x] \in Streamed => ClosesAt(kind[x]) <= position[x]
    <3>1. /\ ClosesAt(kind[x]) \in 2 .. 5 /\ Len(Script(kind[x])) \in 2 .. 6
          /\ kind[x] \in Streamed => ClosesAt(kind[x]) <= Len(Script(kind[x]))
      BY <1>1, KindFacts
    <3> QED
      BY <3>1 DEF Complete
  <2>2. ClosesAt(kind[x]) \in Nat
    BY <1>1, KindFacts
  <2>3. t \in BlocksOf(bridge, x)
    BY <1>3 DEF BlocksOf
  <2> QED
    BY <1>1, <2>1, <2>2, <2>3 DEF ItemInv
<1>5. PICK c \in 1 .. Len(bridge.out) :
         bridge.out[c].type = "content_block_stop" /\ bridge.out[c].index = i
  BY <1>3, <1>4, OutFacts, Frames
<1>6. /\ MayCome(BlocksBefore(bridge.out, d), DeltasBefore(bridge.out, d),
                 ClosedBefore(bridge.out, d), bridge.out[d])
      /\ MayCome(BlocksBefore(bridge.out, c), DeltasBefore(bridge.out, c),
                 ClosedBefore(bridge.out, c), bridge.out[c])
  BY OutFacts DEF Lawful
<1>7. d < c
  <2>1. i \notin ClosedBefore(bridge.out, d)
    BY <1>6 DEF MayCome
  <2>2. ~ (c < d)
    <3>1. c < d => c \in 1 .. (d - 1)
      BY OutFacts
    <3> QED
      BY <1>5, <2>1, <3>1 DEF ClosedBefore
  <2>3. c # d
    BY <1>5
  <2> QED
    BY <2>2, <2>3, OutFacts
<1>8. PICK b \in BlocksBefore(bridge.out, c) : b[1] = i /\ b[2] = "thinking"
  <2>1. PICK j \in 1 .. Len(bridge.out) :
           /\ j < d /\ bridge.out[j].type = "content_block_start" /\ bridge.out[j].index = i
    BY OutFacts, Frames
  <2> DEFINE b == <<bridge.out[j].index, bridge.out[j].what, bridge.out[j].item>>
  <2>2. j \in 1 .. (d - 1) /\ j \in 1 .. (c - 1)
    BY <1>7, <2>1, OutFacts
  <2>3. b \in BlocksBefore(bridge.out, d) /\ b \in BlocksBefore(bridge.out, c)
    BY <2>1, <2>2 DEF BlocksBefore
  <2>4. b[1] = i /\ b[2] = bridge.out[j].what
    BY <2>1
  <2> HIDE DEF b
  <2>5. "thinking_delta" \in Protocol!Deltas(b[2])
    BY <1>6, <2>3, <2>4 DEF MayCome
  <2>6. b[2] = "thinking"
    BY <2>5 DEF Protocol!Deltas
  <2> QED
    BY <2>3, <2>4, <2>6
<1>9. PICK g \in DeltasBefore(bridge.out, c) : g[1] = i /\ g[2] = "signature_delta"
  <2>1. Sealed(DeltasBefore(bridge.out, c), i)
    BY <1>5, <1>6, <1>8 DEF MayCome
  <2>2. e \in DeltasBefore(bridge.out, c)
    <3>1. d \in 1 .. (c - 1)
      BY <1>7, OutFacts
    <3> QED
      BY <3>1 DEF DeltasBefore, e
  <2> QED
    BY <1>2, <2>1, <2>2 DEF Sealed
<1>10. PICK s \in 1 .. (c - 1) :
          /\ bridge.out[s].type = "content_block_delta"
          /\ g = <<bridge.out[s].index, bridge.out[s].what, bridge.out[s].item>>
  BY <1>9 DEF DeltasBefore
<1>11. bridge.out[s].index = i /\ bridge.out[s].what = "signature_delta"
  BY <1>9, <1>10
<1>12. ~ (s < d)
  <2>1. ASSUME s < d
        PROVE  g \in DeltasBefore(bridge.out, d)
    <3>1. s \in 1 .. (d - 1)
      BY <2>1, OutFacts
    <3> QED
      BY <3>1, <1>10 DEF DeltasBefore
  <2> QED
    BY <1>6, <1>9, <2>1 DEF MayCome
<1>13. d < s /\ s < c /\ s \in 1 .. Len(bridge.out)
  <2>1. s # d
    BY <1>11
  <2>2. d \in Nat /\ c \in Nat /\ s \in Nat /\ s >= 1 /\ s <= c - 1 /\ c <= Len(bridge.out)
        /\ Len(bridge.out) \in Nat
    BY OutFacts
  <2> QED
    BY ONLY <1>12, <2>1, <2>2
<1> QED
  BY <1>5, <1>10, <1>11, <1>13, OutFacts DEF Sent

\* Writing the next frame is a step of the protocol, every other step leaves what
\* the client has read alone.
LEMMA NextRefinesProtocol ==
    ASSUME StreamInv, [Next]_vars
    PROVE  [Protocol!Read]_ClientStream
<1>1. CASE HandlerStep
  <2>1. IInv
    BY DEF StreamInv
  <2> QED
    BY <1>1, <2>1, HandlerStepKeepsIInv
<1>2. CASE Deliver
  <2>1. /\ bridge.out \in Seq(Frame) /\ WellFormed(bridge.out) /\ Lawful(bridge.out)
        /\ delivered \in Nat /\ delivered < Len(bridge.out)
        /\ bridge' = bridge /\ delivered' = delivered + 1
    BY <1>2 DEF StreamInv, IInv, BridgeInv, Deliver, Bridge
  <2> DEFINE f == bridge.out[delivered + 1]
  <2>2. /\ ClientStream' = Append(ClientStream, f)
        /\ Protocol!FollowsProtocol(ClientStream, f)
    BY <2>1, NextFrameAdmissible, NextFrameFollowsProtocol DEF ClientStream
  <2>3. ClientStream' = SubSeq(bridge.out, 1, delivered + 1)
    BY <2>1 DEF ClientStream
  <2>4. delivered + 1 \in DOMAIN ClientStream' /\ ClientStream'[delivered + 1] = f
    BY <2>1, <2>3
  <2> QED
    BY <2>2, <2>4 DEF Protocol!Read
<1>3. CASE WriteFails \/ ReaderClosed \/ Cancel \/ UNCHANGED vars
  BY <1>3 DEF WriteFails, ReaderClosed, Cancel, vars, ClientStream
<1> QED
  BY <1>1, <1>2, <1>3, Steps DEF StreamInv

\* The invariant in every state of a response.
THEOREM Inductive ==
    ASSUME Faithful
    PROVE  StreamSpec => []StreamInv
<1>1. StreamInit => StreamInv
  BY InitEstablishesStreamInv
<1>2. StreamInv /\ [StreamNext]_allVars => StreamInv'
  BY NextKeepsStreamInv
<1> QED
  BY <1>1, <1>2, PTL DEF StreamSpec

\* A response that follows the protocol is one of the upstreams that StreamBridge
\* allows: what is proved of the bridge for an arbitrary upstream, its types, the
\* ledger of blocks, the tool blocks and the count of searches, holds here too.
THEOREM ResponsesAreUpstreams ==
    ASSUME Faithful
    PROVE  StreamSpec => Spec
<1>1. StreamInit => StreamInv /\ Init
  BY InitEstablishesStreamInv DEF StreamInit
<1>2. StreamInv /\ [StreamNext]_allVars => StreamInv' /\ [Next]_vars
  BY NextKeepsStreamInv
<1> QED
  BY <1>1, <1>2, PTL DEF StreamSpec, Spec

\* The client reads a stream that follows the Anthropic protocol: deltas only in
\* their own open block and of a kind that fits it, a signature as the last delta
\* of a streamed thinking block, one message_delta with message_stop right behind
\* it, and no block left open then but a tool call that was cut off
\* (handleOpenAIEvent, flushOpenTextBlocks, finishMessage).
THEOREM ProtocolRefinement ==
    ASSUME Faithful
    PROVE  StreamSpec => ClientSeesTheProtocol
<1>1. StreamInit => StreamInv /\ Protocol!Init
  <2>1. StreamInit => Protocol!Init
    BY DEF StreamInit, Init, newStreamState, Protocol!Init, ClientStream
  <2> QED
    BY <2>1, InitEstablishesStreamInv
<1>2. StreamInv /\ [StreamNext]_allVars => StreamInv' /\ [Protocol!Read]_ClientStream
  BY NextKeepsStreamInv, NextRefinesProtocol
<1> QED
  BY <1>1, <1>2, PTL DEF StreamSpec, ClientSeesTheProtocol, Protocol!Protocol

\* Text, thinking and arguments of an item never get into a block of another item,
\* however the events of the items interleave and whichever map of streamState
\* (textIndexByKey, toolIndexByItemID, toolIndexByOutput for events that name no item,
\* thinkingIndex) finds the block.
THEOREM DeltasStayWithTheirItem ==
    ASSUME Faithful
    PROVE  StreamSpec => []DeltasReachTheirBlock
<1>1. StreamInv => DeltasReachTheirBlock
  BY DeltaReaches
<1> QED
  BY <1>1, Inductive, PTL

\* Nothing of a commentary message reaches the client (ignoredMessageItemID), as
\* long as none of them has a refusal part, which handleRefusalDelta does not
\* check.
THEOREM CommentaryStaysHidden ==
    ASSUME Faithful, "commentary_refusal" \notin Kinds
    PROVE  StreamSpec => []CommentarySuppressed
<1>1. StreamInv => CommentarySuppressed
  BY CommentaryHidden
<1> QED
  BY <1>1, Inductive, PTL

\* An item that is done was shown to the client exactly once, streamed or whole
\* (hasStreamedMessageItem, thinkingStarted, toolIndexByItemID, webSearchEmitted).
THEOREM ItemsShownOnce ==
    ASSUME Faithful
    PROVE  StreamSpec => []EveryItemShownOnce
<1>1. StreamInv => EveryItemShownOnce
  BY ShownOnce
<1> QED
  BY <1>1, Inductive, PTL

\* When the client reads message_stop the blocks of all finished items are closed,
\* whatever status the response ended with (flushOpenTextBlocks and the handlers
\* that end an item).
THEOREM FinishedItemsClosed ==
    ASSUME Faithful
    PROVE  StreamSpec => []FinishedItemsAreClosed
<1>1. StreamInv => FinishedItemsAreClosed
  BY FinishedClosed
<1> QED
  BY <1>1, Inductive, PTL

\* The stop reason of a response that ran to its end is tool_use exactly when the
\* response called a tool (toolUsed, deriveStopReason).
THEOREM StopReasonTellsToolUse ==
    ASSUME Faithful
    PROVE  StreamSpec => []StopReasonReportsToolUse
<1>1. StreamInv => StopReasonReportsToolUse
  BY StopReasonReports
<1> QED
  BY <1>1, Inductive, PTL

\* The input of a finished call reaches the client (handleToolArgumentsDelta), but
\* for custom tools, whose input events the bridge ignores.
THEOREM ToolInputReachesTheClient ==
    ASSUME Faithful, "custom_tool_call" \notin Kinds
    PROVE  StreamSpec => []ToolInputDelivered
<1>1. StreamInv => ToolInputDelivered
  BY InputDelivered
<1> QED
  BY <1>1, Inductive, PTL

\* Streamed reasoning that is complete is followed by its signature and its stop
\* (closeThinkingBlock).
THEOREM StreamedReasoningIsSealed ==
    ASSUME Faithful
    PROVE  StreamSpec => []ReasoningIsSealed
<1>1. StreamInv => ReasoningIsSealed
  BY ReasoningSealed
<1> QED
  BY <1>1, Inductive, PTL
=============================================================================
