-------------------------- MODULE ConversationProof --------------------------
(***************************************************************************)
(* Proofs about Conversation, for any deeds of the upstream, any history   *)
(* of before the bridge and conversations of any length: the types, what   *)
(* the bridge refuses, that the input it makes of a history keeps what the *)
(* history says, in its order, that every call in it has its output, and   *)
(* that the upstream gets its own output back.                             *)
(*                                                                         *)
(* The conversion is a loop over the blocks of a message in a loop over    *)
(* the messages.  The proofs are by induction over the position: Converted *)
(* says what holds of the conversion after the first blocks of a message,  *)
(* Tracked what else holds of its calls, Shows what it tells of a message. *)
(* CallsTogether and WholeKept are the invariants of the history: that its *)
(* calls and results belong together, and that an answer in it is what the *)
(* bridge made of the upstream's output.                                   *)
(***************************************************************************)
EXTENDS Conversation, FiniteSetTheorems, SequenceTheorems, WellFoundedInduction, TLAPS

-----------------------------------------------------------------------------
(* Induction                                                                *)

\* A set of numbers that is not empty has a least one.
LEMMA Least ==
    ASSUME NEW S \in SUBSET Nat, S # {}
    PROVE  \E n \in S : \A m \in S : n <= m
<1> DEFINE R == OpToRel(<, Nat)
<1>1. IsWellFoundedOn(R, Nat)
  BY NatLessThanWellFounded
<1>2. \A x, y \in Nat : <<x, y>> \in R <=> x < y
  BY DEF OpToRel
<1> HIDE DEF R
<1>3. PICK n \in S : \A y \in S : ~ (<<y, n>> \in R)
  BY <1>1, WFMin
<1>4. ASSUME NEW m \in S
      PROVE  n <= m
  <2>1. n \in Nat /\ m \in Nat /\ ~ (<<m, n>> \in R)
    BY <1>3
  <2>2. ~ (m < n)
    BY <2>1, <1>2
  <2> QED
    BY <2>1, <2>2
<1> QED
  BY <1>4

\* Induction over the numbers up to N, for a set.
LEMMA Induction ==
    ASSUME NEW N \in Nat, NEW S, 0 \in S, \A n \in 0 .. N : n # N /\ n \in S => n + 1 \in S
    PROVE  \A n \in 0 .. N : n \in S
<1> SUFFICES ASSUME NEW n \in 0 .. N, n \notin S
             PROVE  FALSE
  OBVIOUS
<1> DEFINE T == {m \in 0 .. N : m \notin S}
<1>1. T \in SUBSET Nat /\ T # {}
  OBVIOUS
<1> HIDE DEF T
<1>2. PICK k \in T : \A m \in T : k <= m
  BY <1>1, Least
<1>3. k # 0 /\ k \in 0 .. N /\ k \notin S
  BY <1>2 DEF T
<1>4. k - 1 \in 0 .. N /\ k - 1 # N /\ k - 1 \notin T
  BY <1>2, <1>3
<1>5. k - 1 \in S
  BY <1>4 DEF T
<1>6. (k - 1) + 1 \in S
  BY <1>4, <1>5
<1> QED
  BY <1>3, <1>6

\* Steps on T up to N, and a function that takes them, one from each number to
\* the next.
StepsOn(T, N) == [T \X (1 .. N) -> T]

Takes(f, N, base, step) == f[0] = base /\ \A n \in 1 .. N : f[n] = step[<<f[n - 1], n>>]

\* There is such a function.
LEMMA Recursion ==
    ASSUME NEW N \in Nat, NEW T, NEW base \in T, NEW step \in StepsOn(T, N)
    PROVE  \E f \in [0 .. N -> T] : Takes(f, N, base, step)
<1> USE DEF StepsOn, Takes
<1> DEFINE Good(f, n) == f[0] = base /\ \A i \in 1 .. n : f[i] = step[<<f[i - 1], i>>]
           S == {n \in 0 .. N : \E f \in [0 .. N -> T] : Good(f, n)}
<1>1. 0 \in S
  <2> DEFINE g == [i \in 0 .. N |-> base]
  <2>1. g \in [0 .. N -> T] /\ Good(g, 0)
    OBVIOUS
  <2> HIDE DEF g
  <2> QED
    BY <2>1
<1>2. ASSUME NEW n \in 0 .. N, n # N, n \in S
      PROVE  n + 1 \in S
  <2>1. PICK f \in [0 .. N -> T] : Good(f, n)
    BY <1>2
  <2> DEFINE g == [f EXCEPT ![n + 1] = step[<<f[n], n + 1>>]]
  <2>2. f[n] \in T /\ n + 1 \in 1 .. N
    BY <1>2
  <2>3. step[<<f[n], n + 1>>] \in T
    BY <2>2
  <2>4. g \in [0 .. N -> T] /\ g[n + 1] = step[<<f[n], n + 1>>] /\ \A i \in 0 .. n : g[i] = f[i]
    BY <2>2, <2>3
  <2> HIDE DEF g
  <2>5. \A i \in 1 .. (n + 1) : g[i] = step[<<g[i - 1], i>>]
    BY <2>1, <2>4
  <2>6. Good(g, n + 1)
    BY <2>1, <2>4, <2>5
  <2> QED
    BY <2>2, <2>4, <2>6
<1> HIDE DEF S
<1>3. \A n \in 0 .. N : n \in S
  BY <1>1, <1>2, Induction
<1>4. N \in S
  BY <1>3
<1> QED
  BY <1>4 DEF S

-----------------------------------------------------------------------------
(* One block                                                                *)

\* The kinds a call is remembered by.  The two whose results are dropped
\* (toolResultToInputItem) are not among them.
CallKinds == (SafeTypes \cup Kinds \cup {None, "error"}) \ {"file_search_call", "mcp_call"}

Contents == {"input_text", "output_text", "refusal", "input_image", "input_file"}

InputItem == [type : SafeTypes \cup Kinds \cup {None}, id : Nat, content : Seq(Contents),
              from : Seq(Nat \X Nat)]

Gathered == [content : Contents, at : Nat \X Nat]

KindMap == UNION {[S -> CallKinds] : S \in SUBSET Nat}

Conversion == [items : Seq(InputItem), current : Seq(Gathered), kinds : KindMap, ok : BOOLEAN]

\* c with an item made of the block at a position.
With(c, type, id, kinds, at) ==
    [c EXCEPT !.kinds = kinds,
              !.items = Append(@, [type |-> type, id |-> id, content |-> << >>, from |-> <<at>>])]

\* Remembering a call gives a map of the same type.
LEMMA Remembered ==
    ASSUME NEW c \in Conversion, NEW id \in Nat, NEW kind \in CallKinds
    PROVE  /\ remember(c, id, kind) \in Conversion
           /\ remember(c, id, kind) = [c EXCEPT !.kinds = remember(c, id, kind).kinds]
           /\ remember(c, id, kind).kinds \in KindMap
<1>1. PICK S \in SUBSET Nat : c.kinds \in [S -> CallKinds]
  BY DEF Conversion, KindMap
<1> DEFINE g == [i \in S \cup {id} |-> IF i = id THEN kind ELSE c.kinds[i]]
<1>2. g \in [S \cup {id} -> CallKinds] /\ S \cup {id} \in SUBSET Nat
  BY <1>1
<1>3. g \in KindMap
  BY <1>2 DEF KindMap
<1>4. DOMAIN c.kinds = S
  BY <1>1
<1>5. remember(c, id, kind) = [c EXCEPT !.kinds = g]
  BY <1>4 DEF remember
<1> HIDE DEF g
<1>6. [c EXCEPT !.kinds = g] \in Conversion /\ [c EXCEPT !.kinds = g].kinds = g
  BY <1>3 DEF Conversion
<1> QED
  BY <1>3, <1>5, <1>6

\* The types of items.
ItemTypes == SafeTypes \cup Kinds

\* None is not a type, nor another word.
LEMMA NoneDiffers ==
    /\ None \notin ItemTypes
    /\ None \notin {"error", "malformed", "message", "file_search_call", "mcp_call", "tool_search",
                    "Bash", "ToolSearch", "web_search", "other", "refusal"}
  BY DEF None, ItemTypes, SafeTypes, Kinds

\* A kind that is looked up is one that was remembered, or none.
LEMMA KindKnown ==
    ASSUME NEW c \in Conversion, NEW id
    PROVE  kindOf(c, id) \in CallKinds
<1>1. PICK S \in SUBSET Nat : c.kinds \in [S -> CallKinds]
  BY DEF Conversion, KindMap
<1> QED
  BY <1>1, NoneDiffers DEF kindOf, CallKinds, Kinds

\* Flushing gives a conversion in which nothing is being gathered.
LEMMA Flushed ==
    ASSUME NEW c \in Conversion
    PROVE  flush(c) \in Conversion /\ flush(c).current = << >> /\ flush(c).ok = c.ok
<1>1. CASE c.current = << >>
  BY <1>1 DEF flush, Conversion
<1>2. CASE c.current # << >>
  <2> DEFINE item == [type    |-> "message",
                      id      |-> 0,
                      content |-> [k \in DOMAIN c.current |-> c.current[k].content],
                      from    |-> [k \in DOMAIN c.current |-> c.current[k].at]]
  <2>1. /\ c.current \in Seq(Gathered) /\ Len(c.current) \in Nat
        /\ DOMAIN c.current = 1 .. Len(c.current)
        /\ \A k \in 1 .. Len(c.current) : c.current[k] \in Gathered
    BY DEF Conversion
  <2>2. \A k \in 1 .. Len(c.current) : c.current[k].content \in Contents /\ c.current[k].at \in Nat \X Nat
    BY <2>1 DEF Gathered
  <2>3. item.content \in Seq(Contents) /\ item.from \in Seq(Nat \X Nat)
    BY <2>1, <2>2
  <2>4. item \in InputItem
    BY <2>3 DEF InputItem, SafeTypes
  <2>5. flush(c) = [c EXCEPT !.current = << >>, !.items = Append(@, item)]
    BY <1>2 DEF flush
  <2> HIDE DEF item
  <2>6. << >> \in Seq(Gathered) /\ Append(c.items, item) \in Seq(InputItem)
    BY <2>4 DEF Conversion
  <2> QED
    BY <2>5, <2>6 DEF Conversion
<1> QED
  BY <1>1, <1>2

\* Items of these types are neither NoItem nor Failure.
LEMMA ItemsDiffer ==
    ASSUME NEW type, NEW id, type \notin {None, "error"}
    PROVE  /\ Item(type, id) # NoItem /\ Item(type, id) # Failure
           /\ Item(type, id).type = type /\ Item(type, id).id = id /\ Item(type, id).content = << >>
  BY DEF Item, NoItem, Failure

\* The types of items are none of the three that say that there is no item.
LEMMA NotTypes == ItemTypes \cap {None, "error", "malformed"} = {} /\ NoItem # Failure
                  /\ None \notin ItemTypes
                  /\ NoItem.type = None /\ Failure.type = "error"
<1>1. ItemTypes \cap {"error", "malformed"} = {}
  BY DEF ItemTypes, SafeTypes, Kinds
<1>2. NoItem.type = None /\ Failure.type = "error"
  BY DEF NoItem, Failure, Item
<1> QED
  BY <1>1, <1>2, NoneDiffers

\* What putting an item does, whichever way it is put.
LEMMA PuttingItem ==
    ASSUME NEW c \in Conversion, NEW at, NEW type \in ItemTypes, NEW id
    PROVE  /\ put(c, Item(type, id), at) = With(c, type, id, c.kinds, at)
           /\ putAlways(c, Item(type, id), at) = With(c, type, id, c.kinds, at)
<1>1. /\ Item(type, id) # NoItem /\ Item(type, id) # Failure
      /\ Item(type, id).type = type /\ Item(type, id).id = id /\ Item(type, id).content = << >>
  BY NotTypes, ItemsDiffer
<1> QED
  BY <1>1 DEF put, putAlways, With, Conversion

\* Where there is no item, putting it changes nothing or fails.
LEMMA PuttingNone ==
    ASSUME NEW c \in Conversion, NEW at
    PROVE  /\ Fail(c) \in Conversion /\ ~ Fail(c).ok
           /\ put(c, Failure, at) = Fail(c) /\ putAlways(c, Failure, at) = Fail(c)
           /\ put(c, NoItem, at) = c /\ putAlways(c, NoItem, at) = With(c, None, 0, c.kinds, at)
<1>1. Fail(c) \in Conversion /\ ~ Fail(c).ok
  BY DEF Fail, Conversion
<1>2. putAlways(c, NoItem, at) = With(c, None, 0, c.kinds, at)
  BY NotTypes DEF putAlways, With, NoItem, Item, Conversion
<1> QED
  BY <1>1, <1>2, NotTypes DEF put, putAlways

\* The item stored with a block.
LEMMA StoredItem ==
    ASSUME strict \in BOOLEAN, NEW block \in Block
    PROVE  \/ block.stored = "malformed" /\ strict /\ stored(block) = Failure
           \/ stored(block) = NoItem /\ block.stored \notin SafeTypes
           \/ block.stored \in SafeTypes /\ stored(block) = Item(block.stored, block.id)
  BY DEF stored, FailIfStrict, SafeTypes

\* The blocks that may be refused.
MayRefuse(block) == Undecodable(block) \/ (strict /\ Unreadable(block))

\* What the conversion of a block makes of the conversion so far: it fails, it
\* leaves out the block, it gathers text or it adds an item.
Skips(c, d, role, block) == d = c /\ ~ KeptBlock(role, block)

Fails(d, block) == d \in Conversion /\ ~ d.ok /\ (Acceptable(block) => MayRefuse(block))

Says(c, d, role, block, at) ==
    KeptBlock(role, block) /\ \E content \in Contents : d = say(c, content, at)

Adds(c, d, role, block, at) ==
    /\ KeptBlock(role, block)
    /\ \E type \in ItemTypes \cup {None}, id \in Nat, kinds \in KindMap :
          /\ d = With(c, type, id, kinds, at)
          /\ type = None => block.type = "server_tool_use"

TextOutcome(c, d, role, block, at) ==
    Fails(d, block) \/ Skips(c, d, role, block) \/ Says(c, d, role, block, at)

Outcome(c, d, role, block, at) ==
    Fails(d, block) \/ Skips(c, d, role, block) \/ Adds(c, d, role, block, at)

\* The text of a message.
LEMMA Gathers ==
    ASSUME strict \in BOOLEAN, NEW c \in Conversion, NEW role \in {"user", "assistant"},
           NEW block \in Block, block.type \in {"text", "image", "document"}, NEW at
    PROVE  TextOutcome(c, gather(c, role, block, at), role, block, at)
<1>1. Fail(c) \in Conversion /\ ~ Fail(c).ok
  BY PuttingNone
<1>2. textType(role, block) \in Contents
  BY DEF textType, Contents
<1>3. CASE block.type = "text"
  BY <1>2, <1>3 DEF TextOutcome, gather, Skips, Says, KeptBlock
<1>4. CASE block.type = "image"
  <2>1. "input_image" \in Contents
    BY DEF Contents, Block, Bodies
  <2> QED
    BY <1>1, <1>4, <2>1 DEF TextOutcome, gather, Skips, Says, KeptBlock, Fails, Acceptable,
        MayRefuse, Unreadable
<1>5. CASE block.type = "document"
  <2>1. {"input_file", "input_text"} \subseteq Contents
    BY DEF Contents, Block, Bodies
  <2> QED
    BY <1>1, <1>5, <2>1 DEF TextOutcome, gather, Says, KeptBlock, Fails, Acceptable,
        MayRefuse, Unreadable
<1> QED
  BY <1>3, <1>4, <1>5

\* The kind by which a call is remembered, and the item it becomes.
LEMMA CallItem ==
    ASSUME strict \in BOOLEAN, NEW block \in Block
    PROVE  /\ toolUseKind(block) \in CallKinds
           /\ \/ toolUseBlockToInputItem(block) = Failure /\ strict
                 /\ (block.stored = "malformed" \/ block.body \notin Decoded)
              \/ \E type \in ItemTypes : toolUseBlockToInputItem(block) = Item(type, block.id)
<1>1. block.kind \in Kinds \cup {None}
  BY DEF Block, BlockKinds
<1>2. toolUseKind(block) \in CallKinds
  <2>1. CASE stored(block).type \in SafeTypes
    BY <2>1 DEF toolUseKind, normalizedToolCallKind, CallKinds, SafeTypes, Kinds
  <2>2. CASE stored(block).type \notin SafeTypes
    BY <1>1, <2>2 DEF toolUseKind, normalizeUnsafeSpecialToolKind, CallKinds, Kinds, SafeTypes
  <2> QED
    BY <2>1, <2>2
<1>3. CASE stored(block) = NoItem
  <2> DEFINE type == CASE toolUseKind(block) = "local_shell_call" -> "local_shell_call"
                [] toolUseKind(block) = "tool_search"      -> "tool_search_call"
                [] toolUseKind(block) = "custom_tool_call" -> "custom_tool_call"
                [] toolUseKind(block) = "file_search_call" -> "file_search_call"
                [] toolUseKind(block) = "computer_call"    -> "computer_call"
                [] toolUseKind(block) = "mcp_call"         -> "mcp_call"
                [] toolUseKind(block) = "mcp_list_tools"   -> "mcp_list_tools"
                [] OTHER                                   -> "function_call"
  <2>1. type \in ItemTypes
    BY DEF ItemTypes, SafeTypes, Kinds
  <2>2. \/ toolUseBlockToInputItem(block) = Item(type, block.id)
        \/ toolUseBlockToInputItem(block) = Failure /\ strict /\ block.body \notin Decoded
    <3>1. CASE toolUseKind(block) = "local_shell_call" /\ block.body \notin Decoded
      BY <1>3, <3>1 DEF toolUseBlockToInputItem, FailIfStrict
    <3>2. CASE ~ (toolUseKind(block) = "local_shell_call" /\ block.body \notin Decoded)
      BY <1>3, <3>2 DEF toolUseBlockToInputItem
    <3> QED
      BY <3>1, <3>2
  <2> HIDE DEF type
  <2> QED
    BY <1>2, <2>1, <2>2
<1>4. CASE stored(block) # NoItem
  <2>1. toolUseBlockToInputItem(block) = stored(block)
    BY <1>4 DEF toolUseBlockToInputItem
  <2> QED
    BY <1>2, <1>4, <2>1, StoredItem DEF ItemTypes
<1> QED
  BY <1>3, <1>4

\* An item that is not a text is put, left out or refused.
LEMMA PutsOutcome ==
    ASSUME NEW c \in Conversion, NEW d \in Conversion, NEW role, NEW block \in Block, NEW at,
           NEW item, d.items = c.items, d = [c EXCEPT !.kinds = d.kinds], d.kinds \in KindMap,
           \/ item = Failure /\ (Acceptable(block) => MayRefuse(block))
           \/ item = NoItem /\ ~ KeptBlock(role, block) /\ d = c
           \/ KeptBlock(role, block) /\ \E type \in ItemTypes, id \in {0, block.id} : item = Item(type, id)
    PROVE  Outcome(c, put(d, item, at), role, block, at)
<1>1. CASE item = Failure /\ (Acceptable(block) => MayRefuse(block))
  BY <1>1, PuttingNone DEF Outcome, Fails
<1>2. CASE item = NoItem /\ ~ KeptBlock(role, block) /\ d = c
  BY <1>2, PuttingNone DEF Outcome, Skips
<1>3. CASE KeptBlock(role, block) /\ \E type \in ItemTypes, id \in {0, block.id} : item = Item(type, id)
  <2>1. PICK type \in ItemTypes, id \in {0, block.id} : item = Item(type, id)
    BY <1>3
  <2>4. id \in Nat /\ type # None
    BY NotTypes DEF Block
  <2>2. put(d, Item(type, id), at) = With(d, type, id, d.kinds, at)
    BY <2>4, PuttingItem
  <2>3. With(d, type, id, d.kinds, at) = With(c, type, id, d.kinds, at)
    BY DEF With, Conversion
  <2> QED
    BY <1>3, <2>1, <2>2, <2>3, <2>4 DEF Outcome, Adds
<1> QED
  BY <1>1, <1>2, <1>3

\* What comes of a result.
LEMMA ResultMade ==
    ASSUME strict \in BOOLEAN, NEW block \in Block, block.type \in ResultBlocks, NEW type
    PROVE  /\ \/ resultItem(type, block, {"unsupported"}) = Failure /\ MayRefuse(block)
              \/ resultItem(type, block, {"unsupported"}) = Item(type, block.id)
           /\ \/ searchResultItem(block) = Failure /\ MayRefuse(block)
              \/ searchResultItem(block) = Item("tool_search_output", block.id)
<1>1. block.body = "malformed" => MayRefuse(block)
  BY DEF MayRefuse, Undecodable
<1>2. strict /\ block.body \in {"string", "unsupported"} => MayRefuse(block)
  BY DEF MayRefuse, Unreadable, Decoded
<1>3. \A t : \A U \in {{"unsupported"}, {"string", "unsupported"}} :
         \/ resultItem(t, block, U) = Failure /\ MayRefuse(block)
         \/ resultItem(t, block, U) = Item(t, block.id)
  BY <1>1, <1>2 DEF resultItem, FailIfStrict
<1> QED
  BY <1>3 DEF searchResultItem

\* A block that becomes an item of its own.
LEMMA ConvertsItem ==
    ASSUME strict \in BOOLEAN, NEW c \in Conversion, NEW role \in {"user", "assistant"},
           NEW block \in Block, block.type \in ItemBlocks, NEW at
    PROVE  Outcome(c, convertItemBlock(c, block, at), role, block, at)
<1> DEFINE d == convertItemBlock(c, block, at)
<1>0. /\ block.id \in Nat /\ block.body \in Bodies /\ c.kinds \in KindMap
      /\ c = [c EXCEPT !.kinds = c.kinds]
      /\ Fail(c) \in Conversion /\ ~ Fail(c).ok
  BY PuttingNone DEF Block, Conversion
<1>1. CASE block.type = "tool_use"
  <2>1. CASE block.name = None \/ block.id = 0 \/ (strict /\ block.body = "malformed")
    <3>1. d = Fail(c)
      BY <1>1, <2>1 DEF convertItemBlock
    <3> QED
      BY <1>0, <1>1, <2>1, <3>1 DEF Outcome, Fails, Acceptable, MayRefuse, Unreadable,
             CallBlocks, Decoded
  <2>2. CASE ~ (block.name = None \/ block.id = 0 \/ (strict /\ block.body = "malformed"))
    <3> DEFINE e == remember(c, block.id, toolUseKind(block))
    <3>1. e \in Conversion /\ e = [c EXCEPT !.kinds = e.kinds] /\ e.kinds \in KindMap
      BY <1>0, CallItem, Remembered
    <3>2. d = put(e, toolUseBlockToInputItem(block), at)
      BY <1>1, <2>2 DEF convertItemBlock
    <3>3. KeptBlock(role, block)
      BY <1>1 DEF KeptBlock
    <3> HIDE DEF e
    <3>4. e.items = c.items
      BY <3>1 DEF Conversion
    <3>5. \/ toolUseBlockToInputItem(block) = Failure /\ (Acceptable(block) => MayRefuse(block))
          \/ \E type \in ItemTypes : toolUseBlockToInputItem(block) = Item(type, block.id)
      BY <1>1, CallItem DEF MayRefuse, Unreadable, CallBlocks
    <3> QED
      BY <3>1, <3>2, <3>3, <3>4, <3>5, PutsOutcome
  <2> QED
    BY <2>1, <2>2
<1>2. CASE block.type = "server_tool_use"
  <2>1. CASE block.id = 0
    <3>1. d = Fail(c)
      BY <1>2, <2>1 DEF convertItemBlock
    <3> QED
      BY <1>0, <1>2, <2>1, <3>1 DEF Outcome, Fails, Acceptable
  <2>2. CASE block.id # 0
    <3> DEFINE item == serverToolUseToInputItem(block)
               e == remember(c, block.id, item.type)
    <3>1. \/ item = Failure /\ MayRefuse(block)
          \/ item = NoItem
          \/ \E type \in ItemTypes : item = Item(type, block.id)
      <4>1. CASE stored(block) # NoItem
        BY <4>1, StoredItem DEF serverToolUseToInputItem, ItemTypes, MayRefuse, Unreadable
      <4>2. CASE stored(block) = NoItem
        <5>1. "web_search_call" \in ItemTypes
          BY DEF ItemTypes, SafeTypes
        <5> QED
          BY <1>2, <4>2, <5>1 DEF serverToolUseToInputItem, FailIfStrict,
            MayRefuse, Unreadable, CallBlocks
      <4> QED
        BY <4>1, <4>2
    <3> HIDE DEF item
    <3>2. item.type \in CallKinds
      <4>1. ItemTypes \cup {None, "error"} = CallKinds \cup {"file_search_call", "mcp_call"}
        BY DEF ItemTypes, CallKinds, Kinds
      <4>2. item.type \in SafeTypes \cup {None, "error"}
        <5>1. CASE stored(block) # NoItem
          <6>1. item = stored(block)
            BY <5>1 DEF serverToolUseToInputItem, item
          <6>2. Item(block.stored, block.id).type = block.stored
            BY DEF Item
          <6> QED
            BY <5>1, <6>1, <6>2, StoredItem, NotTypes
        <5>2. CASE stored(block) = NoItem
          BY <5>2 DEF serverToolUseToInputItem, item, Item, Failure, NoItem, SafeTypes,
                 FailIfStrict
        <5> QED
          BY <5>1, <5>2
      <4> QED
        BY <4>2, NoneDiffers DEF CallKinds, SafeTypes
    <3>3. e \in Conversion /\ e = [c EXCEPT !.kinds = e.kinds] /\ e.kinds \in KindMap
      BY <1>0, <3>2, Remembered
    <3>4. d = putAlways(e, item, at)
      BY <1>2, <2>2 DEF convertItemBlock, item
    <3>5. KeptBlock(role, block)
      BY <1>2 DEF KeptBlock
    <3> HIDE DEF e
    <3>6. \A type, id : With(e, type, id, e.kinds, at) = With(c, type, id, e.kinds, at)
      BY <3>3 DEF With, Conversion
    <3>7. CASE item = Failure /\ MayRefuse(block)
      BY <3>3, <3>4, <3>7, PuttingNone DEF Outcome, Fails
    <3>8. CASE item = NoItem
      <4>1. d = With(c, None, 0, e.kinds, at)
        BY <3>3, <3>4, <3>6, <3>8, PuttingNone
      <4> QED
        BY <1>2, <3>3, <3>5, <4>1 DEF Outcome, Adds
    <3>9. CASE \E type \in ItemTypes : item = Item(type, block.id)
      <4>1. PICK type \in ItemTypes : item = Item(type, block.id)
        BY <3>9
      <4>2. putAlways(e, Item(type, block.id), at) = With(e, type, block.id, e.kinds, at)
        BY <3>3, PuttingItem
      <4>3. d = With(c, type, block.id, e.kinds, at)
        BY <3>4, <3>6, <4>1, <4>2
      <4>4. type # None
        BY NotTypes
      <4> QED
        BY <1>0, <3>3, <3>5, <4>3, <4>4 DEF Outcome, Adds
    <3> QED
      BY <3>1, <3>7, <3>8, <3>9
  <2> QED
    BY <2>1, <2>2
<1> DEFINE Puts(item) == \/ item = Failure /\ (Acceptable(block) => MayRefuse(block))
                         \/ item = NoItem /\ ~ KeptBlock(role, block)
                         \/ KeptBlock(role, block) /\ \E type \in ItemTypes, id \in {0, block.id} : item = Item(type, id)
<1>3. ASSUME NEW item, Puts(item), d = put(c, item, at)
      PROVE  Outcome(c, d, role, block, at)
  <2>1. /\ c.items = c.items /\ c = [c EXCEPT !.kinds = c.kinds] /\ c.kinds \in KindMap
    BY DEF Conversion
  <2>2. \/ item = Failure /\ (Acceptable(block) => MayRefuse(block))
        \/ item = NoItem /\ ~ KeptBlock(role, block) /\ c = c
        \/ KeptBlock(role, block) /\ \E type \in ItemTypes, id \in {0, block.id} : item = Item(type, id)
    BY <1>3
  <2> HIDE DEF d
  <2>3. Outcome(c, put(c, item, at), role, block, at)
    BY <2>1, <2>2, PutsOutcome
  <2> QED
    BY <1>3, <2>3
<1>4. CASE block.type = "tool_result"
  <2>1. CASE block.id = 0
    <3>1. d = Fail(c)
      BY <1>4, <2>1 DEF convertItemBlock
    <3> QED
      BY <1>0, <1>4, <2>1, <3>1 DEF Outcome, Fails, Acceptable
  <2>2. CASE block.id # 0
    <3> DEFINE kind == kindOf(c, block.id)
    <3>1. kind \notin {"file_search_call", "mcp_call"}
      BY KindKnown DEF CallKinds
    <3>2. d = put(c, toolResultToInputItem(block, kind), at)
      BY <1>4, <2>2 DEF convertItemBlock
    <3>3. {"tool_search_output", "custom_tool_call_output", "computer_call_output",
           "function_call_output"} \subseteq ItemTypes
      BY DEF ItemTypes, SafeTypes
    <3>4. KeptBlock(role, block)
      BY <1>4 DEF KeptBlock
    <3> HIDE DEF kind
    <3>5. \/ toolResultToInputItem(block, kind) = Failure /\ MayRefuse(block)
          \/ \E type \in ItemTypes : toolResultToInputItem(block, kind) = Item(type, block.id)
      <4>1. CASE kind = "tool_search"
        BY <1>0, <1>4, <3>3, <4>1, ResultMade DEF toolResultToInputItem, ResultBlocks
      <4>2. CASE kind # "tool_search"
        <5> DEFINE type == CASE kind = "custom_tool_call" -> "custom_tool_call_output"
                             [] kind = "computer_call"    -> "computer_call_output"
                             [] OTHER                     -> "function_call_output"
        <5>1. type \in ItemTypes
          BY <3>3
        <5>2. toolResultToInputItem(block, kind) = resultItem(type, block, {"unsupported"})
          BY <3>1, <4>2 DEF toolResultToInputItem
        <5>3. block.type \in ResultBlocks
          BY <1>4 DEF ResultBlocks
        <5> HIDE DEF type
        <5> QED
          BY <5>1, <5>2, <5>3, ResultMade
      <4> QED
        BY <4>1, <4>2
    <3> QED
      BY <1>3, <3>2, <3>4, <3>5
  <2> QED
    BY <2>1, <2>2
<1>5. CASE block.type = "web_search_tool_result"
  BY <1>5 DEF Outcome, convertItemBlock, Skips, KeptBlock
<1>6. CASE block.type = "tool_search_tool_result"
  <2>1. d = put(c, toolSearchResultBlockToInputItem(block), at)
    BY <1>6 DEF convertItemBlock
  <2>2. KeptBlock(role, block) /\ "tool_search_output" \in ItemTypes
    BY <1>6 DEF KeptBlock, ItemTypes, SafeTypes
  <2>3. Puts(toolSearchResultBlockToInputItem(block))
    <3>1. CASE stored(block) = NoItem
      <4>1. \/ searchResultItem(block) = Failure /\ MayRefuse(block)
            \/ searchResultItem(block) = Item("tool_search_output", block.id)
        BY <1>6, ResultMade DEF ResultBlocks
      <4>2. toolSearchResultBlockToInputItem(block) = searchResultItem(block)
        BY <3>1 DEF toolSearchResultBlockToInputItem
      <4> QED
        BY <2>2, <4>1, <4>2
    <3>2. CASE stored(block) # NoItem
      BY <2>2, <3>2, StoredItem DEF toolSearchResultBlockToInputItem, MayRefuse, Unreadable,
             ItemTypes
    <3> QED
      BY <3>1, <3>2
  <2> HIDE DEF Puts
  <2> QED
    BY <1>3, <2>1, <2>3
<1>7. CASE block.type = "compaction"
  <2>1. d = put(c, compactionBlockToInputItem(block), at)
    BY <1>7 DEF convertItemBlock
  <2>2. "compaction" \in ItemTypes /\ (KeptBlock(role, block) <=> block.body \in {"some", "string"})
    BY <1>7 DEF KeptBlock, ItemTypes, SafeTypes
  <2>3. Puts(compactionBlockToInputItem(block))
    <3>1. CASE block.body \in {"some", "string"}
      BY <2>2, <3>1 DEF compactionBlockToInputItem
    <3>2. CASE block.body = "blank"
      BY <2>2, <3>2 DEF compactionBlockToInputItem
    <3>3. CASE block.body \notin {"some", "string", "blank"}
      BY <1>7, <2>2, <3>3 DEF compactionBlockToInputItem, FailIfStrict, MayRefuse, Unreadable
    <3> QED
      BY <3>1, <3>2, <3>3
  <2> HIDE DEF Puts
  <2> QED
    BY <1>3, <2>1, <2>3
<1>8. CASE block.type = "image_generation_call"
  <2>1. d = put(c, imageGenerationBlockToInputItem(block), at)
    BY <1>8 DEF convertItemBlock
  <2>2. "image_generation_call" \in ItemTypes /\ (KeptBlock(role, block) <=> block.id # 0)
    BY <1>8 DEF KeptBlock, ItemTypes, SafeTypes
  <2>3. Puts(imageGenerationBlockToInputItem(block))
    BY <1>8, <2>2 DEF imageGenerationBlockToInputItem, FailIfStrict, MayRefuse, Unreadable
  <2> HIDE DEF Puts
  <2> QED
    BY <1>3, <2>1, <2>3
<1>9. CASE block.type = "responses_output_item"
  <2>1. d = put(c, opaqueBlockToInputItem(block), at)
    BY <1>9 DEF convertItemBlock
  <2>2. /\ "unrecognized" \in ItemTypes
        /\ KeptBlock(role, block) <=> block.body = "some" \/ (block.body = "blank" /\ block.kind # None)
    BY <1>9 DEF KeptBlock, ItemTypes, Kinds
  <2>3. Puts(opaqueBlockToInputItem(block))
    <3>1. CASE block.body = "some" \/ (block.body = "blank" /\ block.kind # None)
      BY <2>2, <3>1 DEF opaqueBlockToInputItem
    <3>2. CASE block.body = "blank" /\ block.kind = None
      BY <2>2, <3>2 DEF opaqueBlockToInputItem
    <3>3. CASE block.body \notin {"some", "blank"}
      BY <1>9, <2>2, <3>3 DEF opaqueBlockToInputItem, FailIfStrict, MayRefuse, Unreadable
    <3> QED
      BY <3>1, <3>2, <3>3
  <2> HIDE DEF Puts
  <2> QED
    BY <1>3, <2>1, <2>3
<1> QED
  BY <1>1, <1>2, <1>4, <1>5, <1>6, <1>7, <1>8, <1>9 DEF ItemBlocks

\* One round of the loop.
LEMMA ConvertsBlock ==
    ASSUME strict \in BOOLEAN, NEW c \in Conversion, c.ok, NEW role \in {"user", "assistant"},
           NEW block \in Block, NEW at
    PROVE  LET d == convertBlock(c, role, block, at)
           IN  \/ Fails(d, block)
               \/ ~ KeptBlock(role, block) /\ (d = c \/ d = flush(c))
               \/ Says(c, d, role, block, at)
               \/ Adds(flush(c), d, role, block, at)
<1> DEFINE d == convertBlock(c, role, block, at)
<1>1. CASE block.type \in {"thinking", "signature"}
  <2>1. d = c
    BY <1>1 DEF convertBlock, ItemBlocks
  <2> QED
    BY <1>1, <2>1 DEF KeptBlock
<1>2. CASE block.type \in {"text", "image", "document"}
  <2>1. d = gather(c, role, block, at)
    BY <1>2 DEF convertBlock, ItemBlocks
  <2>2. TextOutcome(c, d, role, block, at)
    BY <1>2, <2>1, Gathers
  <2> QED
    BY <2>2 DEF TextOutcome, Skips
<1>3. CASE block.type \in ItemBlocks
  <2>1. d = convertItemBlock(flush(c), block, at)
    BY <1>3 DEF convertBlock, ItemBlocks
  <2>2. flush(c) \in Conversion
    BY Flushed
  <2>3. Outcome(flush(c), d, role, block, at)
    BY <1>3, <2>1, <2>2, ConvertsItem
  <2> QED
    BY <2>3 DEF Outcome, Skips
<1>4. CASE block.type = "unsupported"
  <2>1. d = IF strict THEN Fail(c) ELSE c
    BY <1>4 DEF convertBlock, ItemBlocks
  <2>2. Fail(c) \in Conversion /\ ~ Fail(c).ok
    BY PuttingNone
  <2> QED
    BY <1>4, <2>1, <2>2 DEF Fails, KeptBlock, MayRefuse, Unreadable
<1> QED
  BY <1>1, <1>2, <1>3, <1>4 DEF Block, BlockTypes

-----------------------------------------------------------------------------
(* The order of the input                                                   *)

\* A place in the input is an item and one of the blocks it was made of.
LEMMA PlaceOf ==
    ASSUME NEW items \in Seq(InputItem)
    PROVE  /\ Len(items) \in Nat /\ DOMAIN items = 1 .. Len(items)
           /\ \A i \in 1 .. Len(items) : /\ items[i].from \in Seq(Nat \X Nat) /\ Len(items[i].from) \in Nat
                                         /\ DOMAIN items[i].from = 1 .. Len(items[i].from)
           /\ \A i \in 1 .. Len(items), j \in Nat : j \in 1 .. Len(items[i].from) =>
                 <<i, j>> \in Places(items) /\ Source(items, <<i, j>>) = items[i].from[j]
           /\ \A p \in Places(items) :
                 /\ p = <<p[1], p[2]>> /\ p[1] \in 1 .. Len(items) /\ p[2] \in 1 .. Len(items[p[1]].from)
                 /\ Source(items, p) \in Nat \X Nat
<1>1. Len(items) \in Nat /\ DOMAIN items = 1 .. Len(items)
  OBVIOUS
<1>2. \A i \in 1 .. Len(items) : items[i] \in InputItem
  OBVIOUS
<1>3. \A i \in 1 .. Len(items) : items[i].from \in Seq(Nat \X Nat)
  BY <1>2 DEF InputItem
<1>4. \A i \in 1 .. Len(items) : Len(items[i].from) \in Nat /\ DOMAIN items[i].from = 1 .. Len(items[i].from)
  BY <1>3
<1>5. \A i \in 1 .. Len(items), j \in Nat : j \in 1 .. Len(items[i].from) =>
         <<i, j>> \in Places(items) /\ Source(items, <<i, j>>) = items[i].from[j]
  BY <1>1, <1>4 DEF Places, Source
<1>6. ASSUME NEW p \in Places(items)
      PROVE  /\ p = <<p[1], p[2]>> /\ p[1] \in 1 .. Len(items) /\ p[2] \in 1 .. Len(items[p[1]].from)
             /\ Source(items, p) \in Nat \X Nat
  <2>1. PICK i \in 1 .. Len(items) : p \in {<<i, j>> : j \in DOMAIN items[i].from}
    BY <1>1 DEF Places
  <2>2. PICK j \in 1 .. Len(items[i].from) : p = <<i, j>>
    BY <1>4, <2>1
  <2>3. items[i].from[j] \in Nat \X Nat
    BY <1>3
  <2> QED
    BY <2>2, <2>3 DEF Source
<1> QED
  BY <1>1, <1>3, <1>4, <1>5, <1>6

\* An item added at the end.
LEMMA Appended ==
    ASSUME NEW items \in Seq(InputItem), NEW item \in InputItem, InOrder(items),
           \A j, k \in DOMAIN item.from : /\ j < k => Precedes(item.from[j], item.from[k])
                                          /\ item.from[j][1] = item.from[k][1],
           \A s \in Sources(items), k \in DOMAIN item.from : Precedes(s, item.from[k])
    PROVE  /\ InOrder(Append(items, item))
           /\ Sources(Append(items, item)) = Sources(items) \cup {item.from[k] : k \in DOMAIN item.from}
<1> DEFINE more == Append(items, item)
           n == Len(items) + 1
<1>1. /\ more \in Seq(InputItem) /\ Len(items) \in Nat /\ Len(more) = n /\ more[n] = item
      /\ \A i \in 1 .. Len(items) : more[i] = items[i]
  OBVIOUS
<1> HIDE DEF more
<1>2. ASSUME NEW p \in Places(more)
      PROVE  \/ p \in Places(items) /\ Source(more, p) = Source(items, p)
             \/ p[1] = n /\ p[2] \in DOMAIN item.from /\ Source(more, p) = item.from[p[2]]
  <2>1. /\ p = <<p[1], p[2]>> /\ p[1] \in 1 .. n /\ p[2] \in 1 .. Len(more[p[1]].from)
        /\ DOMAIN more[p[1]].from = 1 .. Len(more[p[1]].from) /\ Len(more[p[1]].from) \in Nat
    BY <1>1, PlaceOf
  <2>2. CASE p[1] = n
    BY <1>1, <2>1, <2>2 DEF Source
  <2>3. CASE p[1] # n
    <3>1. p[1] \in 1 .. Len(items) /\ more[p[1]] = items[p[1]]
      BY <1>1, <2>1, <2>3
    <3>2. <<p[1], p[2]>> \in Places(items)
      BY <2>1, <3>1, PlaceOf
    <3> QED
      BY <2>1, <3>1, <3>2 DEF Source
  <2> QED
    BY <2>2, <2>3
<1>3. \A p \in Places(items) : p[1] \in 1 .. Len(items) /\ p \in Places(more) /\ Source(more, p) = Source(items, p)
  <2> TAKE p \in Places(items)
  <2>1. p = <<p[1], p[2]>> /\ p[1] \in 1 .. Len(items) /\ p[2] \in 1 .. Len(items[p[1]].from)
    BY PlaceOf
  <2>2. p[1] \in 1 .. n /\ more[p[1]] = items[p[1]]
    BY <1>1, <2>1
  <2>3. <<p[1], p[2]>> \in Places(more)
    BY <1>1, <2>1, <2>2, PlaceOf
  <2> QED
    BY <2>1, <2>2, <2>3 DEF Source
<1>4. \A j \in DOMAIN item.from : <<n, j>> \in Places(more) /\ Source(more, <<n, j>>) = item.from[j]
  BY <1>1, PlaceOf DEF Places, Source
<1>5. ASSUME NEW p \in Places(more), NEW q \in Places(more)
      PROVE  /\ Precedes(p, q) => Precedes(Source(more, p), Source(more, q))
             /\ p[1] = q[1] => Source(more, p)[1] = Source(more, q)[1]
  <2>1. CASE p \in Places(items) /\ q \in Places(items)
    <3>1. Source(more, p) = Source(items, p) /\ Source(more, q) = Source(items, q)
      BY <1>3, <2>1
    <3> QED
      BY <2>1, <3>1 DEF InOrder
  <2>2. CASE p \in Places(items) /\ q \notin Places(items)
    <3>1. q[1] = n /\ q[2] \in DOMAIN item.from /\ Source(more, q) = item.from[q[2]]
      BY <1>2, <2>2
    <3>2. Source(more, p) \in Sources(items) /\ p[1] < q[1]
      BY <1>1, <1>3, <2>2, <3>1 DEF Sources
    <3> QED
      BY <1>1, <1>3, <2>2, <3>1, <3>2
  <2>3. CASE p \notin Places(items) /\ q \in Places(items)
    <3>1. p[1] = n /\ q[1] \in 1 .. Len(items)
      BY <1>2, <1>3, <2>3
    <3> QED
      BY <1>1, <3>1 DEF Precedes
  <2>4. CASE p \notin Places(items) /\ q \notin Places(items)
    <3>1. /\ p[1] = n /\ p[2] \in DOMAIN item.from /\ Source(more, p) = item.from[p[2]]
          /\ q[1] = n /\ q[2] \in DOMAIN item.from /\ Source(more, q) = item.from[q[2]]
      BY <1>2, <2>4
    <3>2. Precedes(p, q) => p[2] < q[2]
      BY <1>1, <3>1 DEF Precedes
    <3> QED
      BY <3>1, <3>2
  <2> QED
    BY <2>1, <2>2, <2>3, <2>4
<1>6. InOrder(more)
  BY <1>5 DEF InOrder
<1>7. Sources(more) = Sources(items) \cup {item.from[k] : k \in DOMAIN item.from}
  <2>1. \A s \in Sources(more) : s \in Sources(items) \/ s \in {item.from[k] : k \in DOMAIN item.from}
    BY <1>2 DEF Sources
  <2>2. Sources(items) \subseteq Sources(more)
    BY <1>3 DEF Sources
  <2>3. \A k \in DOMAIN item.from : item.from[k] \in Sources(more)
    BY <1>4 DEF Sources
  <2> QED
    BY <2>1, <2>2, <2>3
<1> QED
  BY <1>6, <1>7 DEF more

-----------------------------------------------------------------------------
(* The loop                                                                 *)

\* The positions of a conversion so far, those of the text gathered included, and
\* the positions it should have after the first blocks of a message.
SourcesOf(c) == Sources(c.items) \cup {c.current[k].at : k \in DOMAIN c.current}

KeptUpTo(m, b) == {at \in KeptPositions : at[1] < m \/ (at[1] = m /\ at[2] <= b)}

\* The conversion is in the order of the history; the text gathered is of message m.
Orderly(c, m) ==
    /\ InOrder(c.items)
    /\ \A k \in DOMAIN c.current : c.current[k].at[1] = m
    /\ \A j, k \in DOMAIN c.current : j < k => Precedes(c.current[j].at, c.current[k].at)
    /\ \A s \in Sources(c.items), k \in DOMAIN c.current : Precedes(s, c.current[k].at)

\* An item without a type is that of a server tool.
OfServerTool(at) == history[at[1]].blocks[at[2]].type = "server_tool_use"

Typed(items) == \A i \in DOMAIN items : items[i].type = None => OfServerTool(items[i].from[1])

\* A history with a block that may be refused.
RefusableHistory == SomeBlock(Undecodable) \/ (strict /\ SomeBlock(Unreadable))

\* What holds of the conversion after b blocks of message m.
Converted(c, m, b) ==
    /\ c \in Conversion
    /\ c.ok \/ RefusableHistory
    /\ c.ok => Orderly(c, m) /\ SourcesOf(c) = KeptUpTo(m, b) /\ Typed(c.items)

\* Flushing changes neither the order nor the positions.
LEMMA FlushKeeps ==
    ASSUME NEW c \in Conversion, NEW m, Orderly(c, m), Typed(c.items)
    PROVE  /\ \A n : Orderly(flush(c), n)
           /\ SourcesOf(flush(c)) = SourcesOf(c) /\ Typed(flush(c).items)
<1>0. c.items \in Seq(InputItem) /\ c.current \in Seq(Gathered) /\ InOrder(c.items)
  BY DEF Conversion, Orderly
<1>1. CASE c.current = << >>
  BY <1>1 DEF flush, Orderly
<1>2. CASE c.current # << >>
  <2> DEFINE item == [type    |-> "message",
                      id      |-> 0,
                      content |-> [k \in DOMAIN c.current |-> c.current[k].content],
                      from    |-> [k \in DOMAIN c.current |-> c.current[k].at]]
  <2>1. /\ Len(c.current) \in Nat /\ DOMAIN c.current = 1 .. Len(c.current)
        /\ \A k \in 1 .. Len(c.current) : c.current[k] \in Gathered
    BY <1>0
  <2>2. \A k \in 1 .. Len(c.current) : c.current[k].content \in Contents /\ c.current[k].at \in Nat \X Nat
    BY <2>1 DEF Gathered
  <2>3. item.content \in Seq(Contents) /\ item.from \in Seq(Nat \X Nat)
    BY <2>1, <2>2
  <2>4. item \in InputItem
    BY <2>3 DEF InputItem, SafeTypes
  <2>5. /\ DOMAIN item.from = DOMAIN c.current /\ item.type = "message"
        /\ \A k \in DOMAIN c.current : item.from[k] = c.current[k].at
    OBVIOUS
  <2>6. flush(c).items = Append(c.items, item) /\ flush(c).current = << >>
    BY <1>2 DEF flush, Conversion
  <2> HIDE DEF item
  <2>7. /\ \A j, k \in DOMAIN item.from : /\ j < k => Precedes(item.from[j], item.from[k])
                                          /\ item.from[j][1] = item.from[k][1]
        /\ \A s \in Sources(c.items), k \in DOMAIN item.from : Precedes(s, item.from[k])
    BY <2>5 DEF Orderly
  <2>8. /\ InOrder(flush(c).items)
        /\ Sources(flush(c).items) = Sources(c.items) \cup {item.from[k] : k \in DOMAIN item.from}
    BY <1>0, <2>4, <2>6, <2>7, Appended
  <2>9. SourcesOf(flush(c)) = SourcesOf(c)
    BY <2>5, <2>6, <2>8 DEF SourcesOf
  <2>10. Typed(flush(c).items)
    <3>1. /\ Len(c.items) \in Nat /\ DOMAIN c.items = 1 .. Len(c.items)
          /\ DOMAIN flush(c).items = 1 .. (Len(c.items) + 1)
          /\ flush(c).items[Len(c.items) + 1] = item
          /\ \A i \in 1 .. Len(c.items) : flush(c).items[i] = c.items[i]
      BY <1>0, <2>6
    <3> QED
      BY <2>5, <3>1, NoneDiffers DEF Typed
  <2> QED
    BY <2>6, <2>8, <2>9, <2>10 DEF Orderly
<1> QED
  BY <1>1, <1>2

\* A sequence of one element.
LEMMA Single ==
    ASSUME NEW T, NEW x \in T
    PROVE  <<x>> \in Seq(T) /\ Len(<<x>>) = 1 /\ DOMAIN <<x>> = 1 .. 1 /\ <<x>>[1] = x
  OBVIOUS

\* Text is added at its position.
LEMMA SayKeeps ==
    ASSUME NEW c \in Conversion, NEW content \in Contents, NEW at \in Nat \X Nat,
           Orderly(c, at[1]), Typed(c.items), \A s \in SourcesOf(c) : Precedes(s, at)
    PROVE  LET d == say(c, content, at)
           IN  /\ d \in Conversion /\ d.ok = c.ok
               /\ Orderly(d, at[1]) /\ SourcesOf(d) = SourcesOf(c) \cup {at} /\ Typed(d.items)
<1> DEFINE d == say(c, content, at)
           new == [content |-> content, at |-> at]
<1>1. c.current \in Seq(Gathered) /\ new \in Gathered /\ new.at = at
  BY DEF Conversion, Gathered
<1>2. d = [c EXCEPT !.current = Append(@, new)]
  BY DEF say
<1> HIDE DEF d, new
<1>9. Append(c.current, new) \in Seq(Gathered)
  BY <1>1
<1>10. d \in Conversion /\ d.ok = c.ok /\ d.items = c.items /\ d.current = Append(c.current, new)
  BY <1>2, <1>9 DEF Conversion
<1>3. /\ Len(c.current) \in Nat /\ DOMAIN c.current = 1 .. Len(c.current)
      /\ DOMAIN d.current = 1 .. (Len(c.current) + 1)
      /\ d.current[Len(c.current) + 1] = new
      /\ \A k \in 1 .. Len(c.current) : d.current[k] = c.current[k]
  BY <1>1, <1>10
<1>4. \A s \in Sources(c.items) : Precedes(s, at)
  BY DEF SourcesOf
<1>5. \A k \in DOMAIN c.current : Precedes(c.current[k].at, at)
  BY DEF SourcesOf
<1>6. Orderly(d, at[1])
  BY <1>1, <1>10, <1>3, <1>4, <1>5 DEF Orderly
<1>7. SourcesOf(d) = SourcesOf(c) \cup {at}
  <2>1. {d.current[k].at : k \in DOMAIN d.current} = {c.current[k].at : k \in DOMAIN c.current} \cup {at}
    <3>1. \A k \in DOMAIN c.current : k \in DOMAIN d.current /\ d.current[k].at = c.current[k].at
      BY <1>3
    <3>2. Len(c.current) + 1 \in DOMAIN d.current /\ d.current[Len(c.current) + 1].at = at
      BY <1>1, <1>3
    <3>3. \A k \in DOMAIN d.current : k \in DOMAIN c.current \/ d.current[k].at = at
      BY <1>1, <1>3
    <3> QED
      BY <3>1, <3>2, <3>3
  <2> QED
    BY <1>10, <2>1 DEF SourcesOf
<1> QED
  BY <1>10, <1>6, <1>7 DEF d

\* The positions s and the position at.
Including(s, at) == s \cup {at}

\* So is an item, when no text is being gathered.
LEMMA WithKeeps ==
    ASSUME NEW c \in Conversion, c.current = << >>, NEW type \in ItemTypes \cup {None}, NEW id \in Nat,
           NEW kinds \in KindMap, NEW at \in Nat \X Nat, NEW m, Orderly(c, m), Typed(c.items),
           \A s \in SourcesOf(c) : Precedes(s, at),
           type = None => OfServerTool(at)
    PROVE  LET d == With(c, type, id, kinds, at)
           IN  /\ d \in Conversion /\ d.ok = c.ok /\ d.current = << >>
               /\ \A n : Orderly(d, n)
               /\ SourcesOf(d) = Including(SourcesOf(c), at) /\ Typed(d.items)
<1> DEFINE d == With(c, type, id, kinds, at)
           item == [type |-> type, id |-> id, content |-> << >>, from |-> <<at>>]
<1>1. c.items \in Seq(InputItem) /\ item \in InputItem
  <2>1. <<at>> \in Seq(Nat \X Nat) /\ << >> \in Seq(Contents)
    BY Single
  <2> QED
    BY <2>1 DEF Conversion, InputItem, ItemTypes
<1>3. item.from = <<at>> /\ item.type = type
  OBVIOUS
<1>9. d = [c EXCEPT !.kinds = kinds, !.items = Append(@, item)]
  BY DEF With
<1> HIDE DEF d, item
<1>10. DOMAIN item.from = {1} /\ item.from[1] = at /\ Len(item.from) = 1
  BY <1>3, Single
<1>11. Append(c.items, item) \in Seq(InputItem)
  BY <1>1
<1>2. /\ d \in Conversion /\ d.ok = c.ok /\ d.current = << >> /\ d.items = Append(c.items, item)
  BY <1>9, <1>11 DEF Conversion
<1>4. \A s \in Sources(c.items) : Precedes(s, at)
  BY DEF SourcesOf
<1>12. /\ \A j, k \in DOMAIN item.from : /\ j < k => Precedes(item.from[j], item.from[k])
                                         /\ item.from[j][1] = item.from[k][1]
       /\ \A s \in Sources(c.items), k \in DOMAIN item.from : Precedes(s, item.from[k])
  BY <1>4, <1>10
<1>5. InOrder(d.items) /\ Sources(d.items) = Sources(c.items) \cup {item.from[k] : k \in DOMAIN item.from}
  BY <1>1, <1>2, <1>12, Appended DEF Orderly
<1>6. SourcesOf(d) = SourcesOf(c) \cup {at}
  BY <1>2, <1>3, <1>10, <1>5 DEF SourcesOf
<1>7. Typed(d.items)
  <2>1. /\ Len(c.items) \in Nat /\ DOMAIN c.items = 1 .. Len(c.items)
        /\ DOMAIN d.items = 1 .. (Len(c.items) + 1)
        /\ d.items[Len(c.items) + 1] = item
        /\ \A i \in 1 .. Len(c.items) : d.items[i] = c.items[i]
    BY <1>1, <1>2
  <2>2. \A i \in 1 .. Len(c.items) : c.items[i].type = None => OfServerTool(c.items[i].from[1])
    BY <2>1 DEF Typed
  <2>3. item.type = None => OfServerTool(item.from[1])
    BY <1>3, <1>10
  <2>4. \A i \in DOMAIN d.items : i \in 1 .. Len(c.items) \/ i = Len(c.items) + 1
    BY <2>1
  <2>5. \A i \in DOMAIN d.items : d.items[i] = item \/ (i \in 1 .. Len(c.items) /\ d.items[i] = c.items[i])
    BY <2>1, <2>4
  <2> QED
    BY <2>2, <2>3, <2>5 DEF Typed
<1>8. \A n : Orderly(d, n)
  BY <1>2, <1>5 DEF Orderly
<1> QED
  BY <1>2, <1>6, <1>7, <1>8 DEF d, Including

\* The blocks of the history.
BlockAt(m, b) == history[m].blocks[b]

\* Every block of the history is one the conversion can meet, and has a position.
LEMMA Positions ==
    ASSUME history \in Seq(ChatMessage)
    PROVE  /\ Len(history) \in Nat /\ DOMAIN history = 1 .. Len(history)
           /\ \A m \in 1 .. Len(history) :
                 /\ history[m].role \in {"user", "assistant"}
                 /\ history[m].blocks \in Seq(MessageBlock) /\ Len(history[m].blocks) \in Nat
                 /\ DOMAIN history[m].blocks = 1 .. Len(history[m].blocks)
                 /\ \A b \in 1 .. Len(history[m].blocks) :
                       BlockAt(m, b) \in Block /\ Acceptable(BlockAt(m, b))
           /\ \A m \in 1 .. Len(history) : \A b \in 1 .. Len(history[m].blocks) :
                 <<m, b>> \in KeptPositions <=> KeptBlock(history[m].role, BlockAt(m, b))
           /\ \A at \in KeptPositions :
                 at = <<at[1], at[2]>> /\ at[1] \in 1 .. Len(history) /\ at[2] \in 1 .. Len(history[at[1]].blocks)
<1>1. /\ Len(history) \in Nat /\ DOMAIN history = 1 .. Len(history)
      /\ \A m \in 1 .. Len(history) : history[m] \in ChatMessage
  OBVIOUS
<1>2. \A m \in 1 .. Len(history) : history[m].role \in {"user", "assistant"} /\ history[m].blocks \in Seq(MessageBlock)
  BY <1>1 DEF ChatMessage
<1>3. \A m \in 1 .. Len(history) :
         /\ Len(history[m].blocks) \in Nat
         /\ DOMAIN history[m].blocks = 1 .. Len(history[m].blocks)
         /\ \A b \in 1 .. Len(history[m].blocks) : BlockAt(m, b) \in MessageBlock
  BY <1>2 DEF BlockAt
<1>4. \A m \in 1 .. Len(history) : \A b \in 1 .. Len(history[m].blocks) :
         BlockAt(m, b) \in Block /\ Acceptable(BlockAt(m, b))
  BY <1>3 DEF MessageBlock
<1> DEFINE Here == UNION {{<<m, b>> : b \in DOMAIN history[m].blocks} : m \in DOMAIN history}
<1>5. \A m \in 1 .. Len(history) : \A b \in 1 .. Len(history[m].blocks) : <<m, b>> \in Here
  BY <1>1, <1>3
<1>6. ASSUME NEW at \in Here
      PROVE  at = <<at[1], at[2]>> /\ at[1] \in 1 .. Len(history) /\ at[2] \in 1 .. Len(history[at[1]].blocks)
  <2>1. PICK m \in 1 .. Len(history) : at \in {<<m, b>> : b \in DOMAIN history[m].blocks}
    BY <1>1
  <2>2. PICK b \in 1 .. Len(history[m].blocks) : at = <<m, b>>
    BY <1>3, <2>1
  <2> QED
    BY <2>2
<1> HIDE DEF Here
<1>7. KeptPositions = {at \in Here : KeptBlock(history[at[1]].role, BlockAt(at[1], at[2]))}
  BY DEF KeptPositions, Here, BlockAt
<1>8. \A m \in 1 .. Len(history) : \A b \in 1 .. Len(history[m].blocks) :
         <<m, b>> \in KeptPositions <=> KeptBlock(history[m].role, BlockAt(m, b))
  BY <1>5, <1>7
<1> QED
  BY <1>1, <1>2, <1>3, <1>4, <1>6, <1>7, <1>8

\* The positions kept grow by the next block, if it is kept.
LEMMA KeptGrows ==
    ASSUME history \in Seq(ChatMessage), NEW m \in 1 .. Len(history), NEW b \in 1 .. Len(history[m].blocks)
    PROVE  /\ KeptBlock(history[m].role, BlockAt(m, b)) => KeptUpTo(m, b) = KeptUpTo(m, b - 1) \cup {<<m, b>>}
           /\ ~ KeptBlock(history[m].role, BlockAt(m, b)) => KeptUpTo(m, b) = KeptUpTo(m, b - 1)
           /\ \A s \in KeptUpTo(m, b - 1) : Precedes(s, <<m, b>>)
<1>1. /\ Len(history) \in Nat /\ Len(history[m].blocks) \in Nat
      /\ <<m, b>> \in KeptPositions <=> KeptBlock(history[m].role, BlockAt(m, b))
  BY Positions
<1>2. \A at \in KeptPositions : at = <<at[1], at[2]>> /\ at[1] \in Nat /\ at[2] \in Nat
  <2> TAKE at \in KeptPositions
  <2>1. at = <<at[1], at[2]>> /\ at[1] \in 1 .. Len(history) /\ at[2] \in 1 .. Len(history[at[1]].blocks)
    BY Positions
  <2> QED
    BY <1>1, <2>1, Positions
<1>3. ASSUME NEW at \in KeptPositions
      PROVE  at \in KeptUpTo(m, b) <=> at \in KeptUpTo(m, b - 1) \/ at = <<m, b>>
  <2>1. at[2] <= b <=> at[2] <= b - 1 \/ at[2] = b
    BY <1>2
  <2>2. at = <<m, b>> <=> at[1] = m /\ at[2] = b
    BY <1>2
  <2>3. ~ (m < m)
    OBVIOUS
  <2> QED
    BY <2>1, <2>2, <2>3 DEF KeptUpTo
<1>4. \A s \in KeptUpTo(m, b - 1) : Precedes(s, <<m, b>>)
  BY <1>2 DEF KeptUpTo, Precedes
<1>5. KeptUpTo(m, b) \subseteq KeptPositions /\ KeptUpTo(m, b - 1) \subseteq KeptPositions
  BY DEF KeptUpTo
<1> QED
  BY <1>1, <1>3, <1>4, <1>5

\* One round of the loop keeps what holds of the conversion.
LEMMA RoundKeeps ==
    ASSUME strict \in BOOLEAN, history \in Seq(ChatMessage), NEW m \in 1 .. Len(history),
           NEW b \in 1 .. Len(history[m].blocks), NEW c, Converted(c, m, b - 1)
    PROVE  Converted(convertBlock(c, history[m].role, history[m].blocks[b], <<m, b>>), m, b)
<1> DEFINE role == history[m].role
           block == BlockAt(m, b)
           at == <<m, b>>
           d == convertBlock(c, role, block, at)
<1> SUFFICES Converted(d, m, b)
  BY DEF BlockAt
<1>0. /\ role \in {"user", "assistant"} /\ block \in Block /\ Acceptable(block)
      /\ at \in Nat \X Nat /\ at[1] = m /\ at[2] = b
      /\ Len(history) \in Nat /\ Len(history[m].blocks) \in Nat
  BY Positions
<1>1. c \in Conversion /\ (c.ok \/ RefusableHistory)
  BY DEF Converted
<1>2. CASE ~ c.ok
  BY <1>1, <1>2 DEF convertBlock, Converted
<1>3. CASE c.ok
  <2>1. Orderly(c, m) /\ SourcesOf(c) = KeptUpTo(m, b - 1) /\ Typed(c.items)
    BY <1>3 DEF Converted
  <2>2. \A s \in SourcesOf(c) : Precedes(s, at)
    BY <2>1, KeptGrows
  <2>3. /\ flush(c) \in Conversion /\ flush(c).ok /\ flush(c).current = << >>
        /\ \A n : Orderly(flush(c), n)
        /\ SourcesOf(flush(c)) = SourcesOf(c) /\ Typed(flush(c).items)
    BY <1>1, <1>3, <2>1, Flushed, FlushKeeps
  <2> HIDE DEF d
  <2>4. CASE Fails(d, block)
    <3>1. MayRefuse(block) => RefusableHistory
      BY Positions DEF MayRefuse, RefusableHistory, SomeBlock, block, BlockAt
    <3> QED
      BY <1>0, <2>4, <3>1 DEF Fails, Converted
  <2>5. CASE ~ KeptBlock(role, block) /\ (d = c \/ d = flush(c))
    <3>1. KeptUpTo(m, b) = KeptUpTo(m, b - 1)
      BY <2>5, KeptGrows DEF role, block
    <3> QED
      BY <1>1, <1>3, <2>1, <2>3, <2>5, <3>1 DEF Converted
  <2>6. CASE Says(c, d, role, block, at)
    <3>1. PICK content \in Contents : d = say(c, content, at)
      BY <2>6 DEF Says
    <3>2. KeptUpTo(m, b) = KeptUpTo(m, b - 1) \cup {at}
      BY <2>6, KeptGrows DEF Says, role, block, at
    <3>3. Orderly(c, at[1])
      BY <1>0, <2>1
    <3>4. /\ d \in Conversion /\ d.ok = c.ok
          /\ Orderly(d, at[1]) /\ SourcesOf(d) = SourcesOf(c) \cup {at} /\ Typed(d.items)
      BY <1>0, <1>1, <2>1, <2>2, <3>1, <3>3, SayKeeps
    <3> QED
      BY <1>0, <1>3, <2>1, <3>2, <3>4 DEF Converted
  <2>7. CASE Adds(flush(c), d, role, block, at)
    <3>1. PICK type \in ItemTypes \cup {None}, id \in Nat, kinds \in KindMap :
             /\ d = With(flush(c), type, id, kinds, at)
             /\ type = None => block.type = "server_tool_use"
      BY <2>7 DEF Adds
    <3>2. KeptUpTo(m, b) = KeptUpTo(m, b - 1) \cup {at}
      BY <2>7, KeptGrows DEF Adds, role, block, at
    <3>3. type = None => OfServerTool(at)
      BY <1>0, <3>1 DEF OfServerTool, block, BlockAt
    <3>4. \A s \in SourcesOf(flush(c)) : Precedes(s, at)
      BY <2>2, <2>3
    <3>5. /\ d \in Conversion /\ d.ok = flush(c).ok /\ \A n : Orderly(d, n)
          /\ SourcesOf(d) = SourcesOf(flush(c)) \cup {at} /\ Typed(d.items)
      <4> DEFINE e == flush(c)
                 w == With(e, type, id, kinds, at)
      <4>1. /\ e \in Conversion /\ e.current = << >> /\ Orderly(e, m) /\ Typed(e.items)
            /\ \A s \in SourcesOf(e) : Precedes(s, at)
        BY <2>3, <3>4
      <4>2. at \in Nat \X Nat
        BY <1>0
      <4> HIDE DEF e, at
      <4>3. /\ w \in Conversion /\ w.ok = e.ok /\ \A n : Orderly(w, n)
            /\ SourcesOf(w) = SourcesOf(e) \cup {at} /\ Typed(w.items)
        <5>1. type \in ItemTypes \cup {None} /\ id \in Nat /\ kinds \in KindMap
          OBVIOUS
        <5>2. w \in Conversion
          BY <3>3, <4>1, <4>2, <5>1, WithKeeps
        <5>3. w.ok = e.ok
          BY <3>3, <4>1, <4>2, <5>1, WithKeeps
        <5>4. \A n : Orderly(w, n)
          BY <3>3, <4>1, <4>2, <5>1, WithKeeps
        <5>5. SourcesOf(w) = Including(SourcesOf(e), at)
          BY <3>3, <4>1, <4>2, <5>1, WithKeeps
        <5>6. Typed(w.items)
          BY <3>3, <4>1, <4>2, <5>1, WithKeeps
        <5> QED
          BY <5>2, <5>3, <5>4, <5>5, <5>6 DEF Including
      <4> QED
        BY <3>1, <4>3 DEF e
    <3> QED
      BY <2>1, <2>3, <3>2, <3>5 DEF Converted
  <2>8. \/ Fails(d, block)
        \/ ~ KeptBlock(role, block) /\ (d = c \/ d = flush(c))
        \/ Says(c, d, role, block, at)
        \/ Adds(flush(c), d, role, block, at)
    BY <1>0, <1>1, <1>3, ConvertsBlock DEF d
  <2> QED
    BY <2>4, <2>5, <2>6, <2>7, <2>8
<1> QED
  BY <1>2, <1>3

-----------------------------------------------------------------------------
(* The loops are functions on positions                                     *)

\* Whatever a block is, the conversion stays one.
LEMMA StaysConversion ==
    ASSUME strict \in BOOLEAN, NEW c \in Conversion, NEW role \in {"user", "assistant"},
           NEW block \in Block, NEW at \in Nat \X Nat
    PROVE  convertBlock(c, role, block, at) \in Conversion
<1> DEFINE d == convertBlock(c, role, block, at)
<1>1. CASE ~ c.ok
  BY <1>1 DEF convertBlock
<1>2. CASE c.ok
  <2>1. \/ Fails(d, block)
        \/ ~ KeptBlock(role, block) /\ (d = c \/ d = flush(c))
        \/ Says(c, d, role, block, at)
        \/ Adds(flush(c), d, role, block, at)
    BY <1>2, ConvertsBlock
  <2>2. flush(c) \in Conversion
    BY Flushed
  <2> SUFFICES d \in Conversion
    OBVIOUS
  <2> HIDE DEF d
  <2>3. CASE Says(c, d, role, block, at)
    <3>1. PICK content \in Contents : d = say(c, content, at)
      BY <2>3 DEF Says
    <3> DEFINE new == [content |-> content, at |-> at]
    <3>2. new \in Gathered /\ c.current \in Seq(Gathered)
      BY DEF Gathered, Conversion
    <3>3. d = [c EXCEPT !.current = Append(@, new)]
      BY <3>1 DEF say
    <3> HIDE DEF new
    <3>4. Append(c.current, new) \in Seq(Gathered)
      BY <3>2
    <3> QED
      BY <3>3, <3>4 DEF Conversion
  <2>4. CASE Adds(flush(c), d, role, block, at)
    <3>1. PICK type \in ItemTypes \cup {None}, id \in Nat, kinds \in KindMap :
             d = With(flush(c), type, id, kinds, at)
      BY <2>4 DEF Adds
    <3> DEFINE item == [type |-> type, id |-> id, content |-> << >>, from |-> <<at>>]
    <3>2. <<at>> \in Seq(Nat \X Nat) /\ << >> \in Seq(Contents)
      BY Single
    <3>3. item \in InputItem /\ flush(c).items \in Seq(InputItem)
      BY <2>2, <3>2 DEF Conversion, InputItem, ItemTypes
    <3>4. d = [flush(c) EXCEPT !.kinds = kinds, !.items = Append(@, item)]
      BY <3>1 DEF With
    <3> HIDE DEF item
    <3>5. Append(flush(c).items, item) \in Seq(InputItem)
      BY <3>3
    <3> QED
      BY <2>2, <3>4, <3>5 DEF Conversion
  <2> QED
    BY <2>1, <2>2, <2>3, <2>4 DEF Fails
<1> QED
  BY <1>1, <1>2

\* The conversion of a message goes from one block to the next.
LEMMA MessageLoop ==
    ASSUME strict \in BOOLEAN, NEW c \in Conversion, NEW msg \in ChatMessage, NEW m \in Nat
    PROVE  \E after : /\ after[0] = c
                      /\ \A b \in 1 .. Len(msg.blocks) :
                            after[b] = convertBlock(after[b - 1], msg.role, msg.blocks[b], <<m, b>>)
                      /\ messageToInputItems(c, msg, m) = flush(after[Len(msg.blocks)])
<1> DEFINE N == Len(msg.blocks)
           Round(d, b) == convertBlock(d, msg.role, msg.blocks[b], <<m, b>>)
           Is(g) == g = [b \in 0 .. N |-> IF b = 0 THEN c ELSE Round(g[b - 1], b)]
           step == [x \in Conversion \X (1 .. N) |-> Round(x[1], x[2])]
<1>1. /\ N \in Nat /\ msg.role \in {"user", "assistant"}
      /\ \A b \in 1 .. N : msg.blocks[b] \in Block
  BY DEF ChatMessage, MessageBlock
<1>2. \A d \in Conversion, b \in 1 .. N : Round(d, b) \in Conversion
  <2> TAKE d \in Conversion, b \in 1 .. N
  <2>1. msg.blocks[b] \in Block /\ <<m, b>> \in Nat \X Nat
    BY <1>1
  <2> QED
    BY <1>1, <2>1, StaysConversion
<1> HIDE DEF Round
<1>3. step \in StepsOn(Conversion, N)
  BY <1>2 DEF StepsOn
<1>4. \A d \in Conversion, b \in 1 .. N : step[<<d, b>>] = Round(d, b)
  OBVIOUS
<1> HIDE DEF step, N
<1>5. PICK f \in [0 .. N -> Conversion] : Takes(f, N, c, step)
  BY <1>1, <1>3, Recursion
<1>6. \A b \in 1 .. N : f[b] = Round(f[b - 1], b)
  <2> TAKE b \in 1 .. N
  <2>1. f[b - 1] \in Conversion
    BY <1>1
  <2> QED
    BY <1>4, <1>5, <2>1 DEF Takes
<1>7. Is(f)
  <2>1. \A b \in 0 .. N : f[b] = IF b = 0 THEN c ELSE Round(f[b - 1], b)
    BY <1>1, <1>5, <1>6 DEF Takes
  <2> QED
    BY <2>1
<1> DEFINE after == CHOOSE g : Is(g)
<1>8. Is(after)
  BY <1>7
<1>9. messageToInputItems(c, msg, m) = flush(after[N])
  BY DEF messageToInputItems, Round, N
<1> HIDE DEF after
<1>10. after[0] = c /\ \A b \in 1 .. N : after[b] = Round(after[b - 1], b)
  BY <1>1, <1>8
<1> QED
  BY <1>9, <1>10 DEF Round, N

\* A message leaves nothing that is being gathered.
LEMMA MessageStays ==
    ASSUME strict \in BOOLEAN, NEW c \in Conversion, NEW msg \in ChatMessage, NEW m \in Nat
    PROVE  /\ messageToInputItems(c, msg, m) \in Conversion
           /\ messageToInputItems(c, msg, m).current = << >>
<1> DEFINE N == Len(msg.blocks)
<1>1. /\ N \in Nat /\ msg.role \in {"user", "assistant"}
      /\ \A b \in 1 .. N : msg.blocks[b] \in Block
  BY DEF ChatMessage, MessageBlock
<1>2. PICK after : /\ after[0] = c
                   /\ \A b \in 1 .. N :
                         after[b] = convertBlock(after[b - 1], msg.role, msg.blocks[b], <<m, b>>)
                   /\ messageToInputItems(c, msg, m) = flush(after[N])
  BY MessageLoop
<1> DEFINE S == {b \in 0 .. N : after[b] \in Conversion}
<1>3. 0 \in S
  BY <1>1, <1>2
<1>4. ASSUME NEW b \in 0 .. N, b # N, b \in S
      PROVE  b + 1 \in S
  <2>1. b + 1 \in 1 .. N /\ (b + 1) - 1 = b /\ <<m, b + 1>> \in Nat \X Nat
    BY <1>1, <1>4
  <2>2. after[b + 1] = convertBlock(after[b], msg.role, msg.blocks[b + 1], <<m, b + 1>>)
    BY <1>2, <2>1
  <2>3. after[b] \in Conversion
    BY <1>4
  <2>4. after[b + 1] \in Conversion
    BY <1>1, <2>1, <2>2, <2>3, StaysConversion
  <2> QED
    BY <2>1, <2>4
<1> HIDE DEF S
<1>5. \A b \in 0 .. N : b \in S
  BY <1>1, <1>3, <1>4, Induction
<1>6. after[N] \in Conversion
  BY <1>1, <1>5 DEF S
<1> QED
  BY <1>2, <1>6, Flushed

\* The first blocks of a message, then the next message.
LEMMA NextMessage ==
    ASSUME history \in Seq(ChatMessage), NEW m \in 1 .. Len(history)
    PROVE  KeptUpTo(m, Len(history[m].blocks)) = KeptUpTo(m + 1, 0)
<1>1. Len(history) \in Nat /\ Len(history[m].blocks) \in Nat
  BY Positions
<1>2. \A at \in KeptPositions : /\ at[1] \in 1 .. Len(history) /\ at[2] \in 1 .. Len(history[at[1]].blocks)
                                /\ Len(history[at[1]].blocks) \in Nat
  BY Positions
<1>3. ASSUME NEW at \in KeptPositions
      PROVE  at \in KeptUpTo(m, Len(history[m].blocks)) <=> at \in KeptUpTo(m + 1, 0)
  <2>1. at[1] \in Nat /\ at[2] \in Nat /\ at[2] # 0
    BY <1>1, <1>2
  <2>2. at[1] = m => at[2] <= Len(history[m].blocks)
    BY <1>2
  <2>3. at[1] < m + 1 <=> at[1] < m \/ at[1] = m
    BY <1>1, <2>1
  <2>4. ~ (at[2] <= 0)
    BY <2>1
  <2> QED
    BY <2>2, <2>3, <2>4 DEF KeptUpTo
<1> QED
  BY <1>3 DEF KeptUpTo

\* One message keeps what holds of the conversion.
LEMMA MessageKeeps ==
    ASSUME strict \in BOOLEAN, history \in Seq(ChatMessage), NEW m \in 1 .. Len(history),
           NEW c, Converted(c, m, 0)
    PROVE  Converted(messageToInputItems(c, history[m], m), m + 1, 0)
<1> DEFINE msg == history[m]
           N == Len(msg.blocks)
<1>1. N \in Nat /\ m \in Nat /\ c \in Conversion /\ msg \in ChatMessage
  BY Positions DEF Converted
<1>2. PICK after : /\ after[0] = c
                   /\ \A b \in 1 .. N :
                         after[b] = convertBlock(after[b - 1], msg.role, msg.blocks[b], <<m, b>>)
                   /\ messageToInputItems(c, msg, m) = flush(after[N])
  BY <1>1, MessageLoop
<1> DEFINE S == {b \in 0 .. N : Converted(after[b], m, b)}
<1>3. 0 \in S
  BY <1>1, <1>2
<1>4. ASSUME NEW b \in 0 .. N, b # N, b \in S
      PROVE  b + 1 \in S
  <2>1. b + 1 \in 1 .. N /\ (b + 1) - 1 = b
    BY <1>1, <1>4
  <2>2. after[b + 1] = convertBlock(after[b], msg.role, msg.blocks[b + 1], <<m, b + 1>>)
    BY <1>2, <2>1
  <2>3. Converted(after[b], m, (b + 1) - 1)
    BY <1>4, <2>1
  <2>4. Converted(after[b + 1], m, b + 1)
    BY <2>1, <2>2, <2>3, RoundKeeps
  <2> QED
    BY <2>1, <2>4
<1> HIDE DEF S
<1>5. \A b \in 0 .. N : b \in S
  BY <1>1, <1>3, <1>4, Induction
<1>6. Converted(after[N], m, N)
  BY <1>1, <1>5 DEF S
<1> DEFINE d == after[N]
<1>7. d \in Conversion /\ (d.ok \/ RefusableHistory)
  BY <1>6 DEF Converted
<1>8. messageToInputItems(c, msg, m) = flush(d) /\ flush(d) \in Conversion /\ flush(d).ok = d.ok
  BY <1>2, <1>7, Flushed
<1>9. ASSUME d.ok
      PROVE  Orderly(flush(d), m + 1) /\ SourcesOf(flush(d)) = KeptUpTo(m + 1, 0) /\ Typed(flush(d).items)
  <2>1. Orderly(d, m) /\ SourcesOf(d) = KeptUpTo(m, N) /\ Typed(d.items)
    BY <1>6, <1>9 DEF Converted
  <2>2. KeptUpTo(m, N) = KeptUpTo(m + 1, 0)
    BY NextMessage
  <2> QED
    BY <1>7, <2>1, <2>2, FlushKeeps
<1> HIDE DEF d, msg
<1>10. Converted(flush(d), m + 1, 0)
  BY <1>7, <1>8, <1>9 DEF Converted
<1> QED
  BY <1>8, <1>10 DEF msg

\* The conversion of a history goes from one message to the next.
LEMMA HistoryLoop ==
    ASSUME strict \in BOOLEAN, NEW messages \in Seq(ChatMessage), Start \in Conversion
    PROVE  \E after : /\ after[0] = Start
                      /\ \A m \in 1 .. Len(messages) :
                            after[m] = messageToInputItems(after[m - 1], messages[m], m)
                      /\ inputOf(messages) = after[Len(messages)]
<1> DEFINE N == Len(messages)
           Is(g) == g = [m \in 0 .. N |-> IF m = 0 THEN Start ELSE messageToInputItems(g[m - 1], messages[m], m)]
           step == [x \in Conversion \X (1 .. N) |-> messageToInputItems(x[1], messages[x[2]], x[2])]
<1>1. N \in Nat /\ \A m \in 1 .. N : messages[m] \in ChatMessage
  OBVIOUS
<1>2. \A d \in Conversion, m \in 1 .. N : messageToInputItems(d, messages[m], m) \in Conversion
  <2> TAKE d \in Conversion, m \in 1 .. N
  <2>1. m \in Nat /\ messages[m] \in ChatMessage
    BY <1>1
  <2> QED
    BY <2>1, MessageStays
<1>3. step \in StepsOn(Conversion, N)
  BY <1>2 DEF StepsOn
<1>4. \A d \in Conversion, m \in 1 .. N : step[<<d, m>>] = messageToInputItems(d, messages[m], m)
  OBVIOUS
<1> HIDE DEF step, N
<1>5. PICK f \in [0 .. N -> Conversion] : Takes(f, N, Start, step)
  BY <1>1, <1>3, Recursion
<1>6. \A m \in 1 .. N : f[m] = messageToInputItems(f[m - 1], messages[m], m)
  <2> TAKE m \in 1 .. N
  <2>1. f[m - 1] \in Conversion
    BY <1>1
  <2> QED
    BY <1>4, <1>5, <2>1 DEF Takes
<1>7. Is(f)
  <2>1. \A m \in 0 .. N : f[m] = IF m = 0 THEN Start ELSE messageToInputItems(f[m - 1], messages[m], m)
    BY <1>1, <1>5, <1>6 DEF Takes
  <2> QED
    BY <2>1
<1> DEFINE after == CHOOSE g : Is(g)
<1>8. Is(after)
  BY <1>7
<1>9. inputOf(messages) = after[N]
  BY DEF inputOf, N
<1> HIDE DEF after
<1>10. after[0] = Start /\ \A m \in 1 .. N : after[m] = messageToInputItems(after[m - 1], messages[m], m)
  BY <1>1, <1>8
<1> QED
  BY <1>9, <1>10 DEF N

\* Before the first message.
LEMMA StartConverted ==
    ASSUME history \in Seq(ChatMessage)
    PROVE  Start \in Conversion /\ Converted(Start, 1, 0)
<1>1. Start.items = << >> /\ Start.current = << >> /\ Start.ok
  BY DEF Start
<1>2. Start \in Conversion
  <2>1. << >> \in [{} -> CallKinds]
    OBVIOUS
  <2>2. << >> \in KindMap
    BY <2>1 DEF KindMap
  <2>3. << >> \in Seq(InputItem) /\ << >> \in Seq(Gathered)
    OBVIOUS
  <2> QED
    BY <2>2, <2>3 DEF Start, Conversion
<1>3. Places(<< >>) = {}
  BY DEF Places
<1>4. Orderly(Start, 1) /\ SourcesOf(Start) = {} /\ Typed(Start.items)
  BY <1>1, <1>3 DEF Orderly, InOrder, Typed, SourcesOf, Sources
<1>5. KeptUpTo(1, 0) = {}
  <2>1. \A at \in KeptPositions : /\ at[1] \in 1 .. Len(history) /\ at[2] \in 1 .. Len(history[at[1]].blocks)
                                  /\ Len(history[at[1]].blocks) \in Nat /\ Len(history) \in Nat
    BY Positions
  <2>2. \A at \in KeptPositions : ~ (at[1] < 1) /\ ~ (at[2] <= 0)
    BY <2>1
  <2> QED
    BY <2>2 DEF KeptUpTo
<1> QED
  BY <1>1, <1>2, <1>4, <1>5 DEF Converted

\* What holds of the input the bridge makes of a history.
LEMMA InputConverted ==
    ASSUME strict \in BOOLEAN, history \in Seq(ChatMessage)
    PROVE  /\ input.ok \/ RefusableHistory
           /\ input.ok => Sources(input.items) = KeptPositions /\ InOrder(input.items) /\ Typed(input.items)
<1> DEFINE N == Len(history)
<1>1. N \in Nat /\ Start \in Conversion /\ Converted(Start, 1, 0)
  BY StartConverted
<1>2. PICK after : /\ after[0] = Start
                   /\ \A m \in 1 .. N : after[m] = messageToInputItems(after[m - 1], history[m], m)
                   /\ inputOf(history) = after[N]
  BY <1>1, HistoryLoop
<1> DEFINE S == {m \in 0 .. N : Converted(after[m], m + 1, 0) /\ after[m].current = << >>}
<1>3. 0 \in S
  BY <1>1, <1>2 DEF Start
<1>4. ASSUME NEW m \in 0 .. N, m # N, m \in S
      PROVE  m + 1 \in S
  <2>1. m + 1 \in 1 .. N /\ (m + 1) - 1 = m /\ m + 1 \in Nat
    BY <1>1, <1>4
  <2>2. after[m + 1] = messageToInputItems(after[m], history[m + 1], m + 1)
    BY <1>2, <2>1
  <2>3. Converted(after[m], m + 1, 0)
    BY <1>4
  <2>4. Converted(after[m + 1], (m + 1) + 1, 0)
    BY <2>1, <2>2, <2>3, MessageKeeps
  <2>5. after[m] \in Conversion /\ history[m + 1] \in ChatMessage
    BY <2>1, <2>3 DEF Converted
  <2>6. messageToInputItems(after[m], history[m + 1], m + 1).current = << >>
    BY <2>1, <2>5, MessageStays
  <2> QED
    BY <2>1, <2>2, <2>4, <2>6
<1> HIDE DEF S
<1>5. \A m \in 0 .. N : m \in S
  BY <1>1, <1>3, <1>4, Induction
<1>6. Converted(input, N + 1, 0) /\ input.current = << >>
  BY <1>1, <1>2, <1>5 DEF S, input
<1>7. KeptUpTo(N + 1, 0) = KeptPositions
  <2>1. \A at \in KeptPositions : at[1] \in 1 .. N
    BY Positions
  <2>2. \A at \in KeptPositions : at[1] < N + 1
    BY <1>1, <2>1
  <2> QED
    BY <2>2 DEF KeptUpTo
<1>8. SourcesOf(input) = Sources(input.items)
  BY <1>6 DEF SourcesOf
<1> QED
  BY <1>6, <1>7, <1>8 DEF Converted, Orderly

-----------------------------------------------------------------------------
(* What the bridge answers                                                  *)

\* Joining goes from one sequence to the next.
LEMMA JoiningLoop ==
    ASSUME NEW T, NEW seqs \in Seq(Seq(T)), Len(seqs) # 0
    PROVE  \E flatten : /\ FlattenSeq(seqs) = flatten[Len(seqs)]
                        /\ \A i \in 1 .. Len(seqs) :
                              /\ flatten[i] \in Seq(T)
                              /\ flatten[i] = IF i = 1 THEN seqs[i] ELSE flatten[i - 1] \o seqs[i]
<1> DEFINE N == Len(seqs)
           Q == Seq(T)
           Is(g) == g = [i \in 1 .. N |-> IF i = 1 THEN seqs[i] ELSE g[i - 1] \o seqs[i]]
           step == [x \in Q \X (1 .. N) |-> IF x[2] = 1 THEN seqs[1] ELSE x[1] \o seqs[x[2]]]
<1>1. N \in Nat /\ N # 0 /\ << >> \in Q /\ \A i \in 1 .. N : seqs[i] \in Q
  OBVIOUS
<1>2. \A q \in Q, i \in 1 .. N : q \o seqs[i] \in Q
  BY <1>1
<1> HIDE DEF Q
<1>3. step \in StepsOn(Q, N)
  BY <1>1, <1>2 DEF StepsOn
<1>4. \A q \in Q, i \in 1 .. N : step[<<q, i>>] = IF i = 1 THEN seqs[1] ELSE q \o seqs[i]
  OBVIOUS
<1> HIDE DEF step, N
<1>5. PICK f \in [0 .. N -> Q] : Takes(f, N, << >>, step)
  BY <1>1, <1>3, Recursion
<1> DEFINE h == [i \in 1 .. N |-> f[i]]
<1>6. Is(h)
  <2>1. \A i \in 1 .. N : f[i] = IF i = 1 THEN seqs[i] ELSE f[i - 1] \o seqs[i]
    <3> TAKE i \in 1 .. N
    <3>1. f[i - 1] \in Q
      BY <1>1, <1>5
    <3> QED
      BY <1>4, <1>5, <3>1 DEF Takes
  <2>2. \A i \in 1 .. N : i # 1 => i - 1 \in 1 .. N
    BY <1>1
  <2> QED
    BY <2>1, <2>2
<1> DEFINE flatten == CHOOSE g : Is(g)
<1>7. Is(flatten)
  BY <1>6
<1>8. FlattenSeq(seqs) = flatten[N]
  BY <1>1 DEF FlattenSeq, N
<1> HIDE DEF flatten
<1>9. \A i \in 1 .. N : flatten[i] = IF i = 1 THEN seqs[i] ELSE flatten[i - 1] \o seqs[i]
  BY <1>7
<1> DEFINE S == {i \in 0 .. N : i # 0 => flatten[i] \in Q}
<1>10. 0 \in S
  BY <1>1
<1> HIDE DEF S
<1>11. ASSUME NEW i \in 0 .. N, i # N, i \in S
       PROVE  i + 1 \in S
  <2>1. i + 1 \in 1 .. N /\ i + 1 \in 0 .. N /\ (i + 1) - 1 = i
    BY <1>1, <1>11
  <2>2. flatten[i + 1] \in Q
    <3>1. CASE i = 0
      BY <1>1, <1>9, <2>1, <3>1
    <3>2. CASE i # 0
      <4>1. flatten[i] \in Q
        BY <1>11, <3>2 DEF S
      <4>2. flatten[i + 1] = flatten[i] \o seqs[i + 1]
        <5>1. flatten[i + 1] = IF i + 1 = 1 THEN seqs[i + 1] ELSE flatten[(i + 1) - 1] \o seqs[i + 1]
          BY <1>9, <2>1
        <5>2. i + 1 # 1
          BY <3>2
        <5> QED
          BY <2>1, <5>1, <5>2
      <4> QED
        BY <1>2, <2>1, <4>1, <4>2
    <3> QED
      BY <3>1, <3>2
  <2> QED
    BY <2>1, <2>2 DEF S
<1>12. \A i \in 0 .. N : i \in S
  BY <1>1, <1>10, <1>11, Induction
<1>13. \A i \in 1 .. N : flatten[i] \in Q
  BY <1>1, <1>12 DEF S
<1> QED
  BY <1>8, <1>9, <1>13 DEF Q, N

\* Sequences joined are a sequence of the same elements.
LEMMA Joined ==
    ASSUME NEW T, NEW seqs \in Seq(Seq(T))
    PROVE  FlattenSeq(seqs) \in Seq(T)
<1>1. Len(seqs) \in Nat /\ << >> \in Seq(T)
  OBVIOUS
<1>2. CASE Len(seqs) = 0
  BY <1>1, <1>2 DEF FlattenSeq
<1>3. CASE Len(seqs) # 0
  <2>1. Len(seqs) \in 1 .. Len(seqs)
    BY <1>1, <1>3
  <2> QED
    BY <1>3, <2>1, JoiningLoop
<1> QED
  BY <1>2, <1>3

\* The shapes of the blocks an item is converted to.
Shapes(type) ==
    CASE type = "message"             -> {"text"}
      [] type \in Message!PlainCalls  -> {"tool_use"}
      [] type \in Message!ResultCalls -> {"tool_use", "tool_result"}
      [] type \in Message!ToolOutputs -> {type}
      [] type = "reasoning"           -> {"thinking"}
      [] type = "web_search_call"     -> {"server_tool_use", "web_search_tool_result"}
      [] OTHER                        -> {type}

\* The parts of a message that are shown are among its parts.
LEMMA PartsOfItem ==
    ASSUME NEW item \in OutputItem, NEW streamed \in BOOLEAN
    PROVE  partsShown(item, streamed) \in Seq(shownParts(item.commentary, streamed))
<1> DEFINE S == shownParts(item.commentary, streamed)
           seqs == [k \in DOMAIN item.parts |->
                       IF item.parts[k] \in S THEN <<item.parts[k]>> ELSE << >>]
<1>1. Len(item.parts) \in Nat /\ DOMAIN item.parts = 1 .. Len(item.parts)
  BY DEF OutputItem
<1>2. partsShown(item, streamed) = FlattenSeq(seqs)
  BY DEF partsShown
<1> HIDE DEF S
<1>3. \A x \in S : <<x>> \in Seq(S)
  BY Single
<1>4. << >> \in Seq(S)
  OBVIOUS
<1>5. \A k \in 1 .. Len(item.parts) : seqs[k] \in Seq(S)
  BY <1>1, <1>3, <1>4
<1>6. seqs \in Seq(Seq(S))
  BY <1>1, <1>5
<1> HIDE DEF seqs
<1>7. FlattenSeq(seqs) \in Seq(S)
  BY <1>6, Joined
<1> QED
  BY <1>2, <1>7 DEF S

\* The converters return them.
LEMMA ShapesConverted ==
    ASSUME strict \in BOOLEAN, NEW item \in OutputItem, item.type # "message"
    PROVE  Message!convert(item).blocks \in Seq(Shapes(item.type))
<1> DEFINE of == Message!convert(item)
           T == Shapes(item.type)
<1>0. /\ item.type \in Message!Types \ {"blank", "message"} /\ item.body = "some" /\ item.result \in {"none", "some"}
      /\ << >> \in Seq(T)
  BY DEF OutputItem
<1> USE DEF Message!PlainCalls, Message!ResultCalls, Message!ToolOutputs
<1>2. CASE item.type \in Message!PlainCalls
  <2>1. of = Message!Blocks(<<"tool_use">>)
    BY <1>0, <1>2 DEF Message!convert, Message!toolCallToBlock
  <2>2. T = {"tool_use"}
    BY <1>2 DEF Shapes
  <2> QED
    BY <2>1, <2>2 DEF Message!Blocks
<1>3. CASE item.type \in Message!ResultCalls
  <2>1. of = Message!callToBlocks(item)
    BY <1>3 DEF Message!convert
  <2>2. T = {"tool_use", "tool_result"}
    BY <1>3 DEF Shapes
  <2>3. Message!toolCallToBlock(item) = Message!Blocks(<<"tool_use">>)
    BY <1>0 DEF Message!toolCallToBlock
  <2>4. \/ Message!callResultToBlock(item) = Message!Blocks(<< >>)
        \/ Message!callResultToBlock(item) = Message!Blocks(<<"tool_result">>)
    BY <1>0 DEF Message!callResultToBlock
  <2> DEFINE more == Message!callResultToBlock(item)
  <2>5. of = IF more.ok THEN Message!Blocks(<<"tool_use">> \o more.blocks) ELSE Message!Error
    BY <2>1, <2>3 DEF Message!callToBlocks, Message!Both, Message!Blocks
  <2>6. more.ok /\ (more.blocks = << >> \/ more.blocks = <<"tool_result">>)
    BY <2>4 DEF Message!Blocks
  <2> SUFFICES of.blocks \in Seq(T)
    OBVIOUS
  <2> HIDE DEF of, T, more
  <2>7. <<"tool_use">> \in Seq(T) /\ more.blocks \in Seq(T)
    <3>1. "tool_use" \in T /\ "tool_result" \in T
      BY <2>2
    <3>2. <<"tool_use">> \in Seq(T) /\ <<"tool_result">> \in Seq(T) /\ << >> \in Seq(T)
      BY <3>1, Single
    <3> QED
      BY <2>6, <3>2
  <2>8. <<"tool_use">> \o more.blocks \in Seq(T)
    BY <2>7
  <2> QED
    BY <2>5, <2>6, <2>8 DEF Message!Blocks
<1>4. CASE item.type \in Message!ToolOutputs
  <2>1. of = Message!Blocks(<<item.type>>)
    BY <1>0, <1>4 DEF Message!convert, Message!toolOutputToBlock
  <2>2. T = {item.type}
    BY <1>4 DEF Shapes
  <2> QED
    BY <2>1, <2>2 DEF Message!Blocks
<1>5. CASE item.type = "reasoning"
  <2>1. of = Message!Blocks(<<"thinking">>)
    BY <1>0, <1>5 DEF Message!convert, Message!openAIReasoningToThinkingBlock, Message!Blocks
  <2>2. T = {"thinking"}
    BY <1>5 DEF Shapes
  <2> QED
    BY <2>1, <2>2 DEF Message!Blocks
<1>6. CASE item.type = "web_search_call"
  <2>1. of = Message!Blocks(<<"server_tool_use", "web_search_tool_result">>)
    BY <1>0, <1>6 DEF Message!convert, Message!openAIWebSearchToBlocks
  <2>2. T = {"server_tool_use", "web_search_tool_result"}
    BY <1>6 DEF Shapes
  <2> QED
    BY <2>1, <2>2 DEF Message!Blocks
<1>7. CASE item.type \in {"compaction", "image_generation_call", "unrecognized"}
  <2>1. of = Message!Blocks(<<item.type>>)
    BY <1>0, <1>7 DEF Message!convert, Message!openAICompactionToBlock, Message!Blocks,
                      Message!openAIImageGenerationToBlock, Message!openAIOpaqueOutputToBlock
  <2>2. T = {item.type}
    BY <1>7 DEF Shapes
  <2> QED
    BY <2>1, <2>2 DEF Message!Blocks
<1> QED
  BY <1>0, <1>2, <1>3, <1>4, <1>5, <1>6, <1>7 DEF Message!Types, Message!OtherTypes

\* So are the shapes of every item, streamed or not.
LEMMA ShapesOfItem ==
    ASSUME strict \in BOOLEAN, NEW item \in OutputItem, NEW streamed \in BOOLEAN
    PROVE  shapesOf(item, streamed) \in Seq(Shapes(item.type))
<1>1. CASE item.type = "message"
  <2> DEFINE parts == partsShown(item, streamed)
             texts == [k \in DOMAIN parts |-> "text"]
  <2> DEFINE S == shownParts(item.commentary, streamed)
  <2>0. parts \in Seq(S)
    BY PartsOfItem
  <2> HIDE DEF S, parts
  <2>1. Len(parts) \in Nat /\ DOMAIN parts = 1 .. Len(parts)
    BY <2>0
  <2>2. shapesOf(item, streamed) = texts
    BY <1>1 DEF shapesOf, parts
  <2>3. Shapes(item.type) = {"text"}
    BY <1>1 DEF Shapes, Message!PlainCalls, Message!ResultCalls, Message!ToolOutputs
  <2>4. texts \in Seq({"text"})
    BY <2>1
  <2> QED
    BY <2>2, <2>3, <2>4
<1>2. CASE item.type # "message"
  BY <1>2, ShapesConverted DEF shapesOf
<1> QED
  BY <1>1, <1>2

\* What the type of an item says about the types of its blocks.
LEMMA TypesOfBlocks ==
    ASSUME NEW type \in Message!Types \ {"blank"}, NEW shape \in Shapes(type)
    PROVE  /\ blockType(shape) \in BlockTypes \ {"image"}
           /\ blockType(shape) \in {"tool_use", "responses_output_item"} => type \in Kinds
           /\ blockType(shape) \in {"tool_use", "server_tool_use", "tool_result", "tool_search_tool_result"} =>
                 type \in SafeTypes \cup Kinds
<1> USE DEF blockType, BlockTypes, ItemBlocks, Kinds, SafeTypes,
            Message!PlainCalls, Message!ResultCalls, Message!ToolOutputs
<1>1. CASE type = "message"
  <2>1. shape = "text"
    BY <1>1 DEF Shapes
  <2> QED
    BY <2>1
<1>2. CASE type \in Message!PlainCalls
  <2>1. shape = "tool_use"
    BY <1>2 DEF Shapes
  <2> QED
    BY <1>2, <2>1
<1>3. CASE type \in Message!ResultCalls
  <2>1. shape \in {"tool_use", "tool_result"}
    BY <1>3 DEF Shapes
  <2> QED
    BY <1>3, <2>1
<1>4. CASE type \in Message!ToolOutputs
  <2>1. shape = type
    BY <1>4 DEF Shapes
  <2> QED
    BY <1>4, <2>1
<1>5. CASE type = "reasoning"
  <2>1. shape = "thinking"
    BY <1>5 DEF Shapes
  <2> QED
    BY <2>1
<1>6. CASE type = "web_search_call"
  <2>1. shape \in {"server_tool_use", "web_search_tool_result"}
    BY <1>6 DEF Shapes
  <2> QED
    BY <1>6, <2>1
<1>7. CASE type \in {"compaction", "image_generation_call", "unrecognized"}
  <2>1. shape = type
    BY <1>7 DEF Shapes
  <2> QED
    BY <1>7, <2>1
<1> QED
  BY <1>1, <1>2, <1>3, <1>4, <1>5, <1>6, <1>7 DEF Message!Types, Message!OtherTypes

\* The items of an answer are about a deed.
AnswerItem == {item \in OutputItem : item.id # 0}

\* The blocks of an item are blocks that a client may send back.
LEMMA BlocksOfItem ==
    ASSUME strict \in BOOLEAN, NEW item \in AnswerItem, NEW streamed \in BOOLEAN
    PROVE  blocksOf(item, streamed) \in Seq(MessageBlock)
<1> DEFINE shapes == shapesOf(item, streamed)
           BlockFrom(k) == [type |-> blockType(shapes[k]), id |-> blockId(item, blockType(shapes[k])),
                            name |-> blockName(item.type), kind |-> blockKind(item, blockType(shapes[k]), k, streamed), body |-> "some",
                            commentary |-> FALSE, stored |-> storedItem(item, blockType(shapes[k]), streamed)]
<1>1. item \in OutputItem /\ item.type \in Message!Types \ {"blank"} /\ item.id \in Nat /\ item.id # 0
  BY DEF AnswerItem, OutputItem
<1>2. shapes \in Seq(Shapes(item.type))
  BY <1>1, ShapesOfItem
<1>3. blocksOf(item, streamed) = [k \in DOMAIN shapes |-> BlockFrom(k)]
  BY DEF blocksOf
<1>4. blockName(item.type) \in Names /\ blockName(item.type) # None
  <2>1. blockName(item.type) \in {"Bash", "ToolSearch", "web_search", "other"}
    BY DEF blockName
  <2> QED
    BY <2>1, NoneDiffers DEF Names
<1> HIDE DEF shapes
<1>5. ASSUME NEW k \in DOMAIN shapes
      PROVE  BlockFrom(k) \in MessageBlock
  <2> DEFINE type == blockType(shapes[k])
             kind == blockKind(item, type, k, streamed)
             whole == storedItem(item, type, streamed)
  <2>1. shapes[k] \in Shapes(item.type)
    BY <1>2
  <2>2. /\ type \in BlockTypes /\ type # "image"
        /\ type \in {"tool_use", "responses_output_item"} => item.type \in Kinds
        /\ type \in {"tool_use", "server_tool_use", "tool_result", "tool_search_tool_result"} =>
              item.type \in SafeTypes \cup Kinds
    BY <1>1, <2>1, TypesOfBlocks
  <2> HIDE DEF type
  <2>3. kind \in BlockKinds
    BY <2>2 DEF blockKind, BlockKinds, Kinds
  <2>4. whole \in StoredTypes
    BY <2>2 DEF storedItem, StoredTypes
  <2> DEFINE id == blockId(item, type)
  <2>8. id \in Nat /\ (type \in {"tool_use", "server_tool_use", "tool_result"} => id # 0)
    BY <1>1 DEF blockId
  <2> HIDE DEF kind, whole, id
  <2> DEFINE block == [type |-> type, id |-> id, name |-> blockName(item.type), kind |-> kind,
                       body |-> "some", commentary |-> FALSE, stored |-> whole]
  <2>5. block \in Block
    BY <1>4, <2>2, <2>3, <2>4, <2>8 DEF Block, Bodies
  <2>6. Acceptable(block)
    BY <1>4, <2>2, <2>8 DEF Acceptable
  <2>7. block \in MessageBlock
    BY <2>5, <2>6 DEF MessageBlock
  <2> QED
    BY <2>7 DEF type, kind, whole, id
<1> HIDE DEF BlockFrom
<1>6. Len(shapes) \in Nat /\ DOMAIN shapes = 1 .. Len(shapes)
  BY <1>2
<1> QED
  BY <1>3, <1>5, <1>6

\* The blocks of an answer, too.
LEMMA BlocksOfAnswer ==
    ASSUME strict \in BOOLEAN, NEW output \in Seq(AnswerItem), NEW streamed \in BOOLEAN
    PROVE  contentOf(output, streamed) \in Seq(MessageBlock)
<1> DEFINE parts(types) == [k \in DOMAIN output |->
                               IF output[k].type \in types THEN blocksOf(output[k], streamed) ELSE << >>]
           all == {output[k].type : k \in DOMAIN output}
<1>1. Len(output) \in Nat /\ DOMAIN output = 1 .. Len(output)
  OBVIOUS
<1>2. \A k \in DOMAIN output : blocksOf(output[k], streamed) \in Seq(MessageBlock)
  BY <1>1, BlocksOfItem
<1>3. ASSUME NEW types
      PROVE  FlattenSeq(parts(types)) \in Seq(MessageBlock)
  <2> DEFINE Q == Seq(MessageBlock)
  <2>1. << >> \in Q
    OBVIOUS
  <2>2. \A k \in DOMAIN output : blocksOf(output[k], streamed) \in Q
    BY <1>2
  <2> HIDE DEF Q
  <2>3. parts(types) \in Seq(Q)
    BY <1>1, <2>1, <2>2
  <2> QED
    BY <2>3, Joined DEF Q
<1>4. contentOf(output, streamed) =
         IF streamed THEN FlattenSeq(parts(all))
         ELSE FlattenSeq(parts({"reasoning"})) \o FlattenSeq(parts(all \ {"reasoning"}))
  BY DEF contentOf
<1>5. /\ FlattenSeq(parts(all)) \in Seq(MessageBlock)
      /\ FlattenSeq(parts({"reasoning"})) \in Seq(MessageBlock)
      /\ FlattenSeq(parts(all \ {"reasoning"})) \in Seq(MessageBlock)
  BY <1>3
<1> HIDE DEF parts, all
<1> QED
  BY <1>4, <1>5

\* So is what a client keeps of a block.
LEMMA KeptType ==
    ASSUME client \in {"all", "documented", "plain"}, NEW block \in MessageBlock
    PROVE  kept(block) \in MessageBlock
<1>1. block \in Block /\ Acceptable(block)
  BY DEF MessageBlock
<1>2. None \in BlockKinds /\ None \in StoredTypes
  BY DEF BlockKinds, StoredTypes
<1>3. CASE client = "all"
  BY <1>3 DEF kept
<1>4. CASE client = "documented"
  <2>1. kept(block) = [block EXCEPT !.stored = None]
    BY <1>4 DEF kept
  <2> DEFINE less == [block EXCEPT !.stored = None]
  <2>2. less \in Block /\ less.type = block.type /\ less.id = block.id /\ less.name = block.name
        /\ less.body = block.body
    BY <1>1, <1>2 DEF Block
  <2> HIDE DEF less
  <2>3. less \in MessageBlock
    BY <1>1, <2>2 DEF Acceptable, MessageBlock
  <2> QED
    BY <2>1, <2>3 DEF less
<1>5. CASE client = "plain"
  <2>1. kept(block) = [block EXCEPT !.stored = None, !.kind = None]
    BY <1>5 DEF kept
  <2> DEFINE less == [block EXCEPT !.stored = None, !.kind = None]
  <2>2. less \in Block /\ less.type = block.type /\ less.id = block.id /\ less.name = block.name
        /\ less.body = block.body
    BY <1>1, <1>2 DEF Block
  <2> HIDE DEF less
  <2>3. less \in MessageBlock
    BY <1>1, <2>2 DEF Acceptable, MessageBlock
  <2> QED
    BY <2>1, <2>3 DEF less
<1> QED
  BY <1>3, <1>4, <1>5

\* The output of an answer: items about the deeds it does.
LEMMA OutputOfAnswer ==
    ASSUME deeds \in Nat, NEW n \in 1..2, NEW done \in [1..n -> Deeds]
    PROVE  FlattenSeq([d \in 1..n |-> [k \in DOMAIN done[d] |-> [done[d][k] EXCEPT !.id = deeds + d]]])
              \in Seq(AnswerItem)
<1> DEFINE Q == Seq(AnswerItem)
           Deed(d) == [k \in DOMAIN done[d] |-> [done[d][k] EXCEPT !.id = deeds + d]]
<1>1. ASSUME NEW d \in 1..n
      PROVE  Deed(d) \in Q
  <2>1. done[d] \in Seq(OutputItem)
    BY ConversationAssumption
  <2>2. Len(done[d]) \in Nat /\ DOMAIN done[d] = 1 .. Len(done[d]) /\ deeds + d \in Nat /\ deeds + d # 0
    BY <2>1
  <2>3. ASSUME NEW k \in 1 .. Len(done[d])
        PROVE  [done[d][k] EXCEPT !.id = deeds + d] \in AnswerItem
    <3> DEFINE item == done[d][k]
               id == deeds + d
    <3>1. item \in OutputItem /\ id \in Nat /\ id # 0
      BY <2>1, <2>2
    <3> HIDE DEF item, id
    <3>2. [item EXCEPT !.id = id] \in OutputItem /\ [item EXCEPT !.id = id].id = id
      BY <3>1 DEF OutputItem
    <3>3. [item EXCEPT !.id = id] \in AnswerItem
      BY <3>1, <3>2 DEF AnswerItem
    <3> QED
      BY <3>3 DEF item, id
  <2> QED
    BY <2>2, <2>3
<1> HIDE DEF Q, Deed
<1>2. [d \in 1..n |-> Deed(d)] \in Seq(Q)
  BY <1>1
<1>3. FlattenSeq([d \in 1..n |-> Deed(d)]) \in Seq(AnswerItem)
  BY <1>2, Joined DEF Q
<1> QED
  BY <1>3 DEF Deed

-----------------------------------------------------------------------------
(* The conversation                                                         *)

\* There are finitely many calls to answer, and each has an id.
LEMMA PendingCalls ==
    ASSUME history \in Seq(ChatMessage)
    PROVE  Pending \subseteq Nat \ {0} /\ IsFiniteSet(Pending) /\ Cardinality(Pending) \in Nat
<1>1. CASE history = << >> \/ Last(history).stop # "tool_use"
  <2>1. Pending = {}
    BY <1>1 DEF Pending
  <2> QED
    BY <2>1, FS_EmptySet
<1>2. CASE ~ (history = << >> \/ Last(history).stop # "tool_use")
  <2> DEFINE blocks == Last(history).blocks
             J == {j \in DOMAIN blocks : blocks[j].type \in {"tool_use"}}
             ids == {blocks[k].id : k \in J}
             id == [j \in J |-> blocks[j].id]
  <2>1. Pending = ids \ CallsOf({"tool_result", "tool_search_tool_result"})
    BY <1>2 DEF Pending, CallsOf
  <2>2. Last(history) \in ChatMessage
    BY <1>2 DEF Last
  <2>3. blocks \in Seq(MessageBlock)
    BY <2>2 DEF ChatMessage
  <2> HIDE DEF blocks
  <2>4. Len(blocks) \in Nat /\ DOMAIN blocks = 1 .. Len(blocks) /\ \A j \in DOMAIN blocks : blocks[j] \in MessageBlock
    BY <2>3
  <2>5. J \subseteq 1 .. Len(blocks)
    BY <2>4
  <2>6. IsFiniteSet(J)
    <3>1. IsFiniteSet(1 .. Len(blocks)) /\ J \in SUBSET (1 .. Len(blocks))
      BY <2>4, <2>5, FS_Interval
    <3> HIDE DEF J
    <3> QED
      BY <3>1, FS_Subset
  <2>7. \A j \in J : blocks[j].id \in Nat \ {0}
    BY <2>4 DEF MessageBlock, Block, Acceptable
  <2> HIDE DEF J
  <2>8. id \in Surjection(J, ids)
    BY DEF Surjection
  <2>9. ids \subseteq Nat \ {0}
    BY <2>7
  <2> HIDE DEF ids, id
  <2>10. IsFiniteSet(ids)
    BY <2>6, <2>8, FS_Surjection
  <2>11. Pending \in SUBSET ids
    BY <2>1
  <2> QED
    BY <2>9, <2>10, <2>11, FS_Subset, FS_CardinalityType
<1> QED
  BY <1>1, <1>2

\* The type of the state, for the user's message.
LEMMA AskTyped ==
    ASSUME TypeOK, Ask
    PROVE  TypeOK'
<1>1. PICK calls \in SetToSeqs(Pending), body \in {"some", "string", "malformed"}, more \in Extras :
         history' = Append(history, UserMessage([k \in DOMAIN calls |-> Result(calls[k], body)] \o more))
  BY DEF Ask
<1> DEFINE results == [k \in DOMAIN calls |-> Result(calls[k], body)]
<1>2. history \in Seq(ChatMessage) /\ more \in Seq(MessageBlock)
  BY ConversationAssumption DEF TypeOK
<1>3. Cardinality(Pending) \in Nat /\ calls \in [1 .. Cardinality(Pending) -> Pending]
  BY <1>2, PendingCalls DEF SetToSeqs
<1>4. ASSUME NEW call \in Pending
      PROVE  Result(call, body) \in MessageBlock
  <2>1. call \in Nat /\ call # 0
    BY <1>2, PendingCalls
  <2>2. None \in Names /\ None \in BlockKinds /\ None \in StoredTypes
    BY DEF Names, BlockKinds, StoredTypes
  <2>3. "tool_result" \in BlockTypes /\ body \in Bodies
    BY DEF BlockTypes, ItemBlocks, Bodies
  <2>4. Result(call, body) \in Block
    BY <2>1, <2>2, <2>3 DEF Result, Block
  <2>5. Acceptable(Result(call, body))
    BY <2>1 DEF Result, Acceptable
  <2> QED
    BY <2>4, <2>5 DEF MessageBlock
<1>5. results \in Seq(MessageBlock)
  BY <1>3, <1>4
<1> HIDE DEF results
<1>6. results \o more \in Seq(MessageBlock)
  BY <1>2, <1>5
<1> DEFINE msg == UserMessage(results \o more)
<1>7. msg \in ChatMessage
  <2>1. << >> \in Seq(OutputItem)
    OBVIOUS
  <2> QED
    BY <1>6, <2>1 DEF UserMessage, ChatMessage
<1>8. history' = Append(history, msg)
  BY <1>1 DEF results
<1> HIDE DEF msg
<1>9. history' \in Seq(ChatMessage)
  BY <1>2, <1>7, <1>8
<1> QED
  BY <1>9 DEF TypeOK, Ask

\* The same for the bridge's answer.
LEMMA AnswerTyped ==
    ASSUME TypeOK, Answer
    PROVE  TypeOK'
<1>0. /\ strict \in BOOLEAN /\ client \in {"all", "documented", "plain"} /\ history \in Seq(ChatMessage)
      /\ deeds \in Nat /\ MaxDeeds \in Nat
  BY ConversationAssumption DEF TypeOK
<1>1. PICK n \in 1..2, streamed \in BOOLEAN :
         /\ deeds + n <= MaxDeeds
         /\ \E done \in [1..n -> Deeds] :
               LET output == FlattenSeq([d \in 1..n |->
                                [k \in DOMAIN done[d] |-> [done[d][k] EXCEPT !.id = deeds + d]]])
                   blocks == contentOf(output, streamed)
               IN  history' = Append(history,
                        [role |-> "assistant", blocks |-> [k \in DOMAIN blocks |-> kept(blocks[k])],
                         stop |-> stopReason(output, streamed), output |-> output,
                         streamed |-> streamed])
         /\ deeds' = deeds + n
  BY DEF Answer
<1>2. PICK done \in [1..n -> Deeds] :
         LET output == FlattenSeq([d \in 1..n |->
                          [k \in DOMAIN done[d] |-> [done[d][k] EXCEPT !.id = deeds + d]]])
             blocks == contentOf(output, streamed)
         IN  history' = Append(history,
                  [role |-> "assistant", blocks |-> [k \in DOMAIN blocks |-> kept(blocks[k])],
                   stop |-> stopReason(output, streamed), output |-> output,
                   streamed |-> streamed])
  BY <1>1
<1> DEFINE output == FlattenSeq([d \in 1..n |->
                        [k \in DOMAIN done[d] |-> [done[d][k] EXCEPT !.id = deeds + d]]])
<1>3. output \in Seq(AnswerItem)
  BY <1>0, OutputOfAnswer
<1> HIDE DEF output
<1> DEFINE blocks == contentOf(output, streamed)
           keeps == [k \in DOMAIN blocks |-> kept(blocks[k])]
           msg == [role |-> "assistant", blocks |-> keeps, stop |-> stopReason(output, streamed),
                   output |-> output, streamed |-> streamed]
<1>4. history' = Append(history, msg)
  BY <1>2 DEF output
<1>5. blocks \in Seq(MessageBlock)
  BY <1>0, <1>3, BlocksOfAnswer
<1> HIDE DEF blocks
<1>6. keeps \in Seq(MessageBlock)
  <2>1. Len(blocks) \in Nat /\ DOMAIN blocks = 1 .. Len(blocks)
    BY <1>5
  <2>2. \A k \in 1 .. Len(blocks) : kept(blocks[k]) \in MessageBlock
    BY <1>0, <1>5, <2>1, KeptType
  <2> QED
    BY <2>1, <2>2
<1>7. output \in Seq(OutputItem)
  BY <1>3 DEF AnswerItem
<1>8. stopReason(output, streamed) \in {"tool_use", "end_turn"}
  BY DEF stopReason
<1> HIDE DEF keeps
<1>9. msg \in ChatMessage
  BY <1>6, <1>7, <1>8 DEF ChatMessage
<1> HIDE DEF msg
<1>10. history' \in Seq(ChatMessage)
  BY <1>0, <1>4, <1>9
<1>11. deeds' \in 0 .. MaxDeeds
  BY <1>0, <1>1
<1> QED
  BY <1>0, <1>10, <1>11 DEF TypeOK, Answer

\* The messages of a conversation are ones that the conversion can meet: whatever
\* the upstream did and whatever the client kept of the blocks, every call and
\* every result names its call (blocksOf, kept, Ask).
THEOREM TypeCorrect == Spec => []TypeOK
<1>1. Init => TypeOK
  <2> SUFFICES ASSUME Init
               PROVE  TypeOK
    OBVIOUS
  <2>1. history \in Prior /\ Prior \subseteq Seq(ChatMessage) /\ MaxDeeds \in Nat /\ Len(history) <= MaxDeeds
    BY ConversationAssumption DEF Init
  <2>2. Len(history) \in 0 .. MaxDeeds
    BY <2>1
  <2> QED
    BY <2>1, <2>2 DEF Init, TypeOK
<1>2. TypeOK /\ [Next]_vars => TypeOK'
  <2> SUFFICES ASSUME TypeOK, [Next]_vars
               PROVE  TypeOK'
    OBVIOUS
  <2>1. CASE Ask
    BY <2>1, AskTyped
  <2>2. CASE Refuse
    BY <2>2 DEF TypeOK, Refuse
  <2>3. CASE Answer
    BY <2>3, AnswerTyped
  <2>4. CASE UNCHANGED vars
    BY <2>4 DEF TypeOK, vars
  <2> QED
    BY <2>1, <2>2, <2>3, <2>4 DEF Next
<1> QED
  BY <1>1, <1>2, PTL DEF Spec

\* The bridge never refuses what it sent itself.  Of what every request keeps to
\* (Acceptable) it refuses, in either mode, only a history with a result that does not
\* decode (toolResultToOutput, toolResultToToolSearchTools), and in strict mode also
\* one with a block it cannot read.
THEOREM OwnHistoriesAccepted == Spec => []OwnHistoryAccepted
<1>1. TypeOK => OwnHistoryAccepted
  BY InputConverted DEF TypeOK, OwnHistoryAccepted, RefusableHistory
<1> QED
  BY <1>1, TypeCorrect, PTL

\* No block that has a meaning for the upstream is lost, sent twice or sent out of
\* order, however long the conversation is (messageToInputItems).
THEOREM OrderKept == Spec => []KeptInOrder
<1>1. TypeOK => KeptInOrder
  BY InputConverted DEF TypeOK, KeptInOrder
<1> QED
  BY <1>1, TypeCorrect, PTL

\* Only a server tool that the bridge does not know is sent without a type.
THEOREM ItemsTyped == Spec => []ItemsHaveTypes
<1>1. TypeOK => ItemsHaveTypes
  BY InputConverted DEF TypeOK, ItemsHaveTypes, Typed, OfServerTool
<1> QED
  BY <1>1, TypeCorrect, PTL

-----------------------------------------------------------------------------
(* Sequences joined, and where their elements are from                      *)

\* Where the elements of a sequence of joined sequences are from, in their order.
Traces(src, joined, seqs, n) ==
    /\ \A x \in 1 .. Len(joined) :
          /\ src[x] \in Nat \X Nat
          /\ src[x][1] \in 1 .. n /\ src[x][2] \in 1 .. Len(seqs[src[x][1]])
          /\ joined[x] = seqs[src[x][1]][src[x][2]]
    /\ \A x, y \in 1 .. Len(joined) : x < y => Precedes(src[x], src[y])
    /\ \A i \in 1 .. n : \A j \in 1 .. Len(seqs[i]) : \E x \in 1 .. Len(joined) : src[x] = <<i, j>>

\* One more sequence.
LEMMA TraceGrows ==
    ASSUME NEW T, NEW seqs \in Seq(Seq(T)), NEW n \in Nat, n + 1 \in 1 .. Len(seqs), NEW joined \in Seq(T),
           NEW src, Traces(src, joined, seqs, n)
    PROVE  \E s : Traces(s, joined \o seqs[n + 1], seqs, n + 1)
<1> DEFINE last == seqs[n + 1]
           L == Len(joined)
           K == Len(last)
           all == joined \o last
           s == [x \in 1 .. (L + K) |-> IF x <= L THEN src[x] ELSE <<n + 1, x - L>>]
<1>1. /\ last \in Seq(T) /\ L \in Nat /\ K \in Nat /\ Len(all) = L + K
      /\ \A x \in 1 .. L : all[x] = joined[x]
      /\ \A x \in 1 .. K : all[L + x] = last[x]
  OBVIOUS
<1>2. /\ \A x \in 1 .. L : s[x] = src[x]
      /\ \A x \in 1 .. K : s[L + x] = <<n + 1, x>>
  <2>1. \A x \in 1 .. K : L + x \in 1 .. (L + K) /\ ~ (L + x <= L) /\ (L + x) - L = x
    BY <1>1
  <2>2. \A x \in 1 .. L : x \in 1 .. (L + K) /\ x <= L
    BY <1>1
  <2> HIDE DEF L, K
  <2> QED
    BY <2>1, <2>2
<1> HIDE DEF s, all, L, K, last
<1>3. \A x \in 1 .. (L + K) : x \in 1 .. L \/ (x > L /\ \E y \in 1 .. K : x = L + y)
  <2> TAKE x \in 1 .. (L + K)
  <2>1. x > L => x - L \in 1 .. K /\ x = L + (x - L)
    BY <1>1
  <2> QED
    BY <1>1, <2>1
<1>4. ASSUME NEW x \in 1 .. (L + K)
      PROVE  /\ s[x] \in Nat \X Nat
             /\ s[x][1] \in 1 .. (n + 1) /\ s[x][2] \in 1 .. Len(seqs[s[x][1]])
             /\ all[x] = seqs[s[x][1]][s[x][2]]
  <2>1. CASE x \in 1 .. L
    <3>1. s[x] = src[x] /\ all[x] = joined[x]
      BY <1>1, <1>2, <2>1
    <3>2. /\ src[x] \in Nat \X Nat /\ src[x][1] \in 1 .. n /\ src[x][2] \in 1 .. Len(seqs[src[x][1]])
          /\ joined[x] = seqs[src[x][1]][src[x][2]]
      BY <2>1 DEF Traces, L
    <3>3. src[x][1] \in 1 .. (n + 1)
      BY <3>2
    <3> QED
      BY <3>1, <3>2, <3>3
  <2>2. CASE x \notin 1 .. L
    <3>1. PICK y \in 1 .. K : x = L + y
      BY <1>3, <2>2
    <3>2. s[x] = <<n + 1, y>> /\ all[x] = last[y] /\ y \in Nat
      BY <1>1, <1>2, <3>1
    <3> QED
      BY <3>2 DEF last, K
  <2> QED
    BY <2>1, <2>2
<1>5. ASSUME NEW x \in 1 .. (L + K), NEW y \in 1 .. (L + K), x < y
      PROVE  Precedes(s[x], s[y])
  <2>1. CASE y \in 1 .. L
    <3>1. x \in 1 .. L
      BY <1>1, <1>5, <2>1
    <3> QED
      BY <1>2, <1>5, <2>1, <3>1 DEF Traces, L
  <2>2. CASE y \notin 1 .. L
    <3>1. PICK k \in 1 .. K : y = L + k
      BY <1>3, <2>2
    <3>2. s[y] = <<n + 1, k>>
      BY <1>2, <3>1
    <3>3. CASE x \in 1 .. L
      <4>1. s[x][1] \in 1 .. n
        BY <1>2, <3>3 DEF Traces, L
      <4>2. s[x][1] < n + 1
        BY <4>1
      <4> QED
        BY <3>2, <4>2 DEF Precedes
    <3>4. CASE x \notin 1 .. L
      <4>1. PICK j \in 1 .. K : x = L + j
        BY <1>3, <3>4
      <4>2. s[x] = <<n + 1, j>>
        BY <1>2, <4>1
      <4>3. j \in Nat /\ k \in Nat /\ L + j < L + k
        BY <1>1, <1>5, <3>1, <4>1
      <4>4. j < k
        BY <1>1, <4>3
      <4> QED
        BY <3>2, <4>2, <4>4 DEF Precedes
    <3> QED
      BY <3>3, <3>4
  <2> QED
    BY <2>1, <2>2
<1>6. ASSUME NEW i \in 1 .. (n + 1), NEW j \in 1 .. Len(seqs[i])
      PROVE  \E x \in 1 .. (L + K) : s[x] = <<i, j>>
  <2>1. CASE i = n + 1
    <3>1. j \in 1 .. K /\ s[L + j] = <<n + 1, j>>
      BY <1>2, <2>1 DEF K, last
    <3>2. L + j \in 1 .. (L + K)
      BY <1>1, <3>1
    <3> QED
      BY <2>1, <3>1, <3>2
  <2>2. CASE i # n + 1
    <3>1. i \in 1 .. n
      BY <2>2
    <3>2. PICK x \in 1 .. L : src[x] = <<i, j>>
      BY <3>1 DEF Traces, L
    <3>3. x \in 1 .. (L + K) /\ s[x] = src[x]
      BY <1>1, <1>2
    <3> QED
      BY <3>2, <3>3
  <2> QED
    BY <2>1, <2>2
<1>7. Traces(s, all, seqs, n + 1)
  <2>1. Len(all) = L + K
    BY <1>1
  <2> HIDE DEF all, L, K, s
  <2>2. \A x \in 1 .. Len(all) :
           /\ s[x] \in Nat \X Nat
           /\ s[x][1] \in 1 .. (n + 1) /\ s[x][2] \in 1 .. Len(seqs[s[x][1]])
           /\ all[x] = seqs[s[x][1]][s[x][2]]
    BY <1>4, <2>1
  <2>3. \A x, y \in 1 .. Len(all) : x < y => Precedes(s[x], s[y])
    BY <1>5, <2>1
  <2>4. \A i \in 1 .. (n + 1) : \A j \in 1 .. Len(seqs[i]) : \E x \in 1 .. Len(all) : s[x] = <<i, j>>
    BY <1>6, <2>1
  <2> QED
    BY <2>2, <2>3, <2>4, Zenon DEF Traces
<1> QED
  BY <1>7 DEF all, last

\* Every element of the joined sequences is from one of them.
LEMMA Traced ==
    ASSUME NEW T, NEW seqs \in Seq(Seq(T))
    PROVE  \E src : Traces(src, FlattenSeq(seqs), seqs, Len(seqs))
<1> DEFINE N == Len(seqs)
<1>1. N \in Nat /\ \A i \in 1 .. N : seqs[i] \in Seq(T)
  OBVIOUS
<1>2. CASE N = 0
  <2>1. FlattenSeq(seqs) = seqs
    BY <1>2 DEF FlattenSeq
  <2> QED
    BY <1>2, <2>1 DEF Traces
<1>3. CASE N # 0
  <2>1. PICK flatten : /\ FlattenSeq(seqs) = flatten[N]
                       /\ \A i \in 1 .. N : /\ flatten[i] \in Seq(T)
                                            /\ flatten[i] = IF i = 1 THEN seqs[i] ELSE flatten[i - 1] \o seqs[i]
    BY <1>3, JoiningLoop
  <2> DEFINE S == {i \in 0 .. N : i # 0 => \E src : Traces(src, flatten[i], seqs, i)}
  <2>2. 0 \in S
    BY <1>1
  <2>3. ASSUME NEW i \in 0 .. N, i # N, i \in S
        PROVE  i + 1 \in S
    <3>1. i + 1 \in 1 .. N /\ (i + 1) - 1 = i /\ i \in Nat
      BY <1>1, <2>3
    <3>2. CASE i = 0
      <4>1. Traces(0, << >>, seqs, 0)
        BY DEF Traces
      <4>2. flatten[1] = << >> \o seqs[1]
        BY <1>1, <2>1, <3>1, <3>2
      <4>3. << >> \in Seq(T) /\ 0 + 1 = 1 /\ 0 + 1 \in 1 .. N
        BY <3>1, <3>2
      <4>4. \E s : Traces(s, << >> \o seqs[0 + 1], seqs, 0 + 1)
        BY <4>1, <4>3, TraceGrows
      <4> QED
        BY <3>1, <3>2, <4>2, <4>3, <4>4
    <3>3. CASE i # 0
      <4>1. PICK src : Traces(src, flatten[i], seqs, i)
        BY <2>3, <3>3
      <4>2. i \in 1 .. N
        BY <2>3, <3>3
      <4>3. flatten[i] \in Seq(T) /\ flatten[i + 1] = flatten[i] \o seqs[i + 1]
        <5>1. flatten[i + 1] = IF i + 1 = 1 THEN seqs[i + 1] ELSE flatten[(i + 1) - 1] \o seqs[i + 1]
          BY <2>1, <3>1
        <5>2. i + 1 # 1
          BY <3>1, <3>3
        <5> QED
          BY <2>1, <3>1, <4>2, <5>1, <5>2
      <4>4. \E s : Traces(s, flatten[i] \o seqs[i + 1], seqs, i + 1)
        BY <3>1, <4>1, <4>3, TraceGrows
      <4>5. i + 1 # 0 /\ i + 1 \in 0 .. N /\ \E s : Traces(s, flatten[i + 1], seqs, i + 1)
        BY <3>1, <4>3, <4>4
      <4> HIDE DEF N
      <4> QED
        BY <4>5
    <3> QED
      BY <3>2, <3>3
  <2> HIDE DEF S
  <2>4. \A i \in 0 .. N : i \in S
    BY <1>1, <2>2, <2>3, Induction
  <2>5. N \in S
    BY <1>1, <2>4
  <2> QED
    BY <1>3, <2>1, <2>5 DEF S
<1> QED
  BY <1>2, <1>3

\* The order of the elements is that of the places they are from.
LEMMA TraceOrder ==
    ASSUME NEW src, NEW T, NEW joined \in Seq(T), NEW seqs, NEW n, Traces(src, joined, seqs, n)
    PROVE  \A x, y \in 1 .. Len(joined) : /\ src[x] = src[y] => x = y
                                          /\ Precedes(src[x], src[y]) => x < y
<1> SUFFICES ASSUME NEW x \in 1 .. Len(joined), NEW y \in 1 .. Len(joined)
             PROVE  /\ src[x] = src[y] => x = y
                    /\ Precedes(src[x], src[y]) => x < y
  OBVIOUS
<1>1. x \in Nat /\ y \in Nat /\ src[x] \in Nat \X Nat /\ src[y] \in Nat \X Nat
  BY DEF Traces
<1>2. /\ x < y => Precedes(src[x], src[y])
      /\ y < x => Precedes(src[y], src[x])
  BY DEF Traces
<1> DEFINE p == src[x]
           q == src[y]
<1>3. p[1] \in Nat /\ p[2] \in Nat /\ q[1] \in Nat /\ q[2] \in Nat
  BY <1>1
<1> HIDE DEF p, q
<1>4. ~ Precedes(p, p) /\ (Precedes(p, q) => ~ Precedes(q, p))
  BY <1>3 DEF Precedes
<1>5. p = q => x = y
  BY <1>1, <1>2, <1>4 DEF p, q
<1>6. Precedes(p, q) => x < y
  BY <1>1, <1>2, <1>4 DEF p, q
<1> QED
  BY <1>5, <1>6 DEF p, q

-----------------------------------------------------------------------------
(* The calls of an answer                                                   *)

\* The output of n deeds.
OutputOf(done, n) ==
    FlattenSeq([d \in 1..n |-> [k \in DOMAIN done[d] |-> [done[d][k] EXCEPT !.id = deeds + d]]])

\* No two calls of an output share their id, nor two outputs, and an output comes
\* after its call.
CallsApart(output) ==
    /\ \A j, k \in 1 .. Len(output), types \in {CallItems, Message!ToolOutputs} :
          output[j].type \in types /\ output[k].type \in types /\ output[j].id = output[k].id => j = k
    /\ \A k \in 1 .. Len(output) : output[k].type \in Message!ToolOutputs =>
          \E j \in 1 .. Len(output) : /\ j < k /\ output[j].id = output[k].id
                                      /\ output[j].type = CallOf(output[k].type)

\* Each deed has an id of its own.
LEMMA OutputApart ==
    ASSUME deeds \in Nat, NEW n \in 1..2, NEW done \in [1..n -> Deeds]
    PROVE  /\ OutputOf(done, n) \in Seq(AnswerItem) /\ CallsApart(OutputOf(done, n))
           /\ \A k \in 1 .. Len(OutputOf(done, n)) :
                 OutputOf(done, n)[k].id \in Nat /\ OutputOf(done, n)[k].id > deeds
                 /\ OutputOf(done, n)[k].id <= deeds + n
<1> DEFINE Q == Seq(AnswerItem)
           Deed(d) == [k \in DOMAIN done[d] |-> [done[d][k] EXCEPT !.id = deeds + d]]
           seqs == [d \in 1..n |-> Deed(d)]
           output == OutputOf(done, n)
           N == Len(output)
<1>1. ASSUME NEW d \in 1..n
      PROVE  /\ done[d] \in Seq(OutputItem) /\ OneCall(done[d])
             /\ Len(done[d]) \in Nat /\ DOMAIN done[d] = 1 .. Len(done[d]) /\ Len(Deed(d)) = Len(done[d])
             /\ Deed(d) \in Q
             /\ \A k \in 1 .. Len(done[d]) : Deed(d)[k].type = done[d][k].type /\ Deed(d)[k].id = deeds + d
  <2>1. done[d] \in Seq(OutputItem) /\ OneCall(done[d])
    BY ConversationAssumption, CallAssumption
  <2>2. Len(done[d]) \in Nat /\ DOMAIN done[d] = 1 .. Len(done[d]) /\ deeds + d \in Nat /\ deeds + d # 0
    BY <2>1
  <2>3. ASSUME NEW k \in 1 .. Len(done[d])
        PROVE  /\ [done[d][k] EXCEPT !.id = deeds + d] \in AnswerItem
               /\ [done[d][k] EXCEPT !.id = deeds + d].type = done[d][k].type
               /\ [done[d][k] EXCEPT !.id = deeds + d].id = deeds + d
    <3> DEFINE item == done[d][k]
               id == deeds + d
    <3>1. item \in OutputItem /\ id \in Nat /\ id # 0
      BY <2>1, <2>2
    <3> HIDE DEF item, id
    <3>2. /\ [item EXCEPT !.id = id] \in OutputItem /\ [item EXCEPT !.id = id].id = id
          /\ [item EXCEPT !.id = id].type = item.type
      BY <3>1 DEF OutputItem
    <3>3. [item EXCEPT !.id = id] \in AnswerItem
      BY <3>1, <3>2 DEF AnswerItem
    <3> QED
      BY <3>2, <3>3 DEF item, id
  <2> QED
    BY <2>1, <2>2, <2>3
<1> HIDE DEF Q, Deed
<1>2. seqs \in Seq(Q) /\ Len(seqs) = n /\ \A d \in 1..n : seqs[d] = Deed(d)
  BY <1>1
<1>3. output = FlattenSeq(seqs)
  BY DEF OutputOf, Deed
<1> HIDE DEF output, seqs
<1>4. output \in Seq(AnswerItem)
  BY <1>2, <1>3, Joined DEF Q
<1>5. PICK src : Traces(src, output, seqs, n)
  BY <1>2, <1>3, Traced DEF Q
<1>6. \A x, y \in 1 .. N : /\ src[x] = src[y] => x = y
                           /\ Precedes(src[x], src[y]) => x < y
  BY <1>4, <1>5, TraceOrder
<1> DEFINE d(x) == src[x][1]
           k(x) == src[x][2]
<1>7. ASSUME NEW x \in 1 .. N
      PROVE  /\ src[x] = <<d(x), k(x)>> /\ d(x) \in 1..n /\ k(x) \in 1 .. Len(done[d(x)]) /\ k(x) \in Nat
             /\ output[x].type = done[d(x)][k(x)].type /\ output[x].id = deeds + d(x)
  <2>1. /\ src[x] \in Nat \X Nat /\ d(x) \in 1..n /\ k(x) \in 1 .. Len(seqs[d(x)])
        /\ output[x] = seqs[d(x)][k(x)]
    BY <1>5 DEF Traces
  <2>2. src[x] = <<d(x), k(x)>> /\ k(x) \in Nat
    BY <2>1
  <2> HIDE DEF d, k
  <2> QED
    BY <1>1, <1>2, <2>1, <2>2
<1>8. \A i \in 1..n : \A j \in 1 .. Len(done[i]) : \E x \in 1 .. N : src[x] = <<i, j>>
  <2> TAKE i \in 1..n
  <2>1. Len(seqs[i]) = Len(done[i])
    BY <1>1, <1>2
  <2>2. \A j \in 1 .. Len(seqs[i]) : \E x \in 1 .. N : src[x] = <<i, j>>
    BY <1>5 DEF Traces
  <2> QED
    BY <2>1, <2>2
<1> HIDE DEF d, k
<1>9. ASSUME NEW x \in 1 .. N, NEW y \in 1 .. N, NEW types \in {CallItems, Message!ToolOutputs},
             output[x].type \in types, output[y].type \in types, output[x].id = output[y].id
      PROVE  x = y
  <2>1. d(x) = d(y)
    <3>1. deeds + d(x) = deeds + d(y) /\ d(x) \in Int /\ d(y) \in Int
      BY <1>7, <1>9
    <3> QED
      BY <3>1
  <2>2. OneCall(done[d(x)]) /\ DOMAIN done[d(x)] = 1 .. Len(done[d(x)])
    BY <1>1, <1>7
  <2>3. k(x) = k(y)
    <3> DEFINE deed == done[d(x)]
    <3>1. /\ k(x) \in DOMAIN deed /\ k(y) \in DOMAIN deed
          /\ deed[k(x)].type \in types /\ deed[k(y)].type \in types
      BY <1>7, <1>9, <2>1, <2>2
    <3> HIDE DEF deed
    <3>2. OneCall(deed)
      BY <2>2 DEF deed
    <3> QED
      BY <3>1, <3>2 DEF OneCall
  <2> QED
    <3>1. src[x] = src[y]
      BY <1>7, <2>1, <2>3
    <3> QED
      BY <1>6, <3>1
<1>10. ASSUME NEW x \in 1 .. N, output[x].type \in Message!ToolOutputs
       PROVE  \E y \in 1 .. N : /\ y < x /\ output[y].id = output[x].id
                                /\ output[y].type = CallOf(output[x].type)
  <2>1. OneCall(done[d(x)]) /\ DOMAIN done[d(x)] = 1 .. Len(done[d(x)]) /\ Len(done[d(x)]) \in Nat
    BY <1>1, <1>7
  <2>2. PICK j \in 1 .. (k(x) - 1) : done[d(x)][j].type = CallOf(done[d(x)][k(x)].type)
    BY <1>7, <1>10, <2>1 DEF OneCall
  <2>3. j \in Nat /\ j < k(x) /\ j \in 1 .. Len(done[d(x)])
    BY <1>7, <2>1
  <2>4. PICK y \in 1 .. N : src[y] = <<d(x), j>>
    BY <1>7, <1>8, <2>3
  <2>5. d(y) = d(x) /\ k(y) = j
    BY <2>4 DEF d, k
  <2>6. Precedes(src[y], src[x])
    BY <2>3, <2>5 DEF Precedes, d, k
  <2>7. y < x
    BY <1>6, <2>6
  <2>8. /\ output[y].type = done[d(x)][j].type /\ output[y].id = deeds + d(x)
        /\ output[x].type = done[d(x)][k(x)].type /\ output[x].id = deeds + d(x)
    BY <1>7, <2>5
  <2> QED
    BY <2>2, <2>7, <2>8
<1>11. CallsApart(output)
  BY <1>9, <1>10 DEF CallsApart
<1>12. \A x \in 1 .. N : output[x].id \in Nat /\ output[x].id > deeds /\ output[x].id <= deeds + n
  <2> TAKE x \in 1 .. N
  <2>1. output[x].id = deeds + d(x) /\ d(x) \in 1..n
    BY <1>7
  <2> QED
    BY <2>1
<1> QED
  BY <1>4, <1>11, <1>12 DEF output

\* Which item, and which of its blocks, each block of an answer is: in the order of
\* the output but for thinking.
From(src, blocks, output, streamed) ==
    /\ \A x \in 1 .. Len(blocks) :
          /\ src[x] \in Nat \X Nat /\ src[x][1] \in 1 .. Len(output)
          /\ src[x][2] \in 1 .. Len(blocksOf(output[src[x][1]], streamed))
          /\ blocks[x] = blocksOf(output[src[x][1]], streamed)[src[x][2]]
    /\ \A x, y \in 1 .. Len(blocks) :
          output[src[x][1]].type # "reasoning" /\ output[src[y][1]].type # "reasoning" =>
             /\ src[x] = src[y] => x = y
             /\ Precedes(src[x], src[y]) => x < y
    /\ \A i \in 1 .. Len(output) : \A j \in 1 .. Len(blocksOf(output[i], streamed)) :
          \E x \in 1 .. Len(blocks) : src[x] = <<i, j>>

\* Every block of an answer, whole or streamed, has such a source.
LEMMA BlockSources ==
    ASSUME strict \in BOOLEAN, NEW output \in Seq(AnswerItem), NEW streamed \in BOOLEAN
    PROVE  \E src : From(src, contentOf(output, streamed), output, streamed)
<1> DEFINE B(i) == blocksOf(output[i], streamed)
           parts(types) == [k \in DOMAIN output |-> IF output[k].type \in types THEN B(k) ELSE << >>]
           all == {output[k].type : k \in DOMAIN output}
           Q == Seq(MessageBlock)
           N == Len(output)
<1>1. N \in Nat /\ DOMAIN output = 1 .. N
  OBVIOUS
<1>2. \A i \in 1 .. N : B(i) \in Q /\ Len(B(i)) \in Nat
  <2>1. \A i \in 1 .. N : B(i) \in Q
    BY <1>1, BlocksOfItem
  <2> QED
    BY <2>1
<1>3. contentOf(output, streamed) =
         IF streamed THEN FlattenSeq(parts(all))
         ELSE FlattenSeq(parts({"reasoning"})) \o FlattenSeq(parts(all \ {"reasoning"}))
  BY DEF contentOf
<1>4. \A i \in 1 .. N : output[i].type \in all
  BY <1>1
<1> HIDE DEF B, N, Q, all
<1>5. ASSUME NEW types
      PROVE  /\ parts(types) \in Seq(Q) /\ Len(parts(types)) = N
             /\ \A i \in 1 .. N : parts(types)[i] = IF output[i].type \in types THEN B(i) ELSE << >>
             /\ FlattenSeq(parts(types)) \in Q
             /\ \E s : /\ Traces(s, FlattenSeq(parts(types)), parts(types), N)
                       /\ \A x, y \in 1 .. Len(FlattenSeq(parts(types))) :
                             /\ s[x] = s[y] => x = y
                             /\ Precedes(s[x], s[y]) => x < y
  <2> DEFINE seqs == parts(types)
             flat == FlattenSeq(seqs)
  <2>1. << >> \in Q
    BY DEF Q
  <2>2. seqs \in Seq(Q) /\ Len(seqs) = N /\ \A i \in 1 .. N : seqs[i] = IF output[i].type \in types THEN B(i) ELSE << >>
    BY <1>1, <1>2, <2>1
  <2> HIDE DEF seqs
  <2>3. flat \in Seq(MessageBlock)
    BY <2>2, Joined DEF Q
  <2>4. PICK s : Traces(s, flat, seqs, N)
    BY <2>2, Traced DEF Q
  <2> HIDE DEF flat
  <2>5. \A x, y \in 1 .. Len(flat) : /\ s[x] = s[y] => x = y
                                     /\ Precedes(s[x], s[y]) => x < y
    BY <2>3, <2>4, TraceOrder
  <2> QED
    BY <2>2, <2>3, <2>4, <2>5 DEF Q, seqs, flat
<1> DEFINE flat(types) == FlattenSeq(parts(types))
<1>6. ASSUME NEW types, NEW s, Traces(s, flat(types), parts(types), N), NEW x \in 1 .. Len(flat(types))
      PROVE  /\ s[x] \in Nat \X Nat /\ s[x][1] \in 1 .. N /\ s[x][2] \in 1 .. Len(B(s[x][1]))
             /\ flat(types)[x] = B(s[x][1])[s[x][2]] /\ output[s[x][1]].type \in types
  <2> DEFINE seqs == parts(types)
             i == s[x][1]
             f == flat(types)
  <2>1. s[x] \in Nat \X Nat /\ i \in 1 .. N /\ s[x][2] \in 1 .. Len(seqs[i]) /\ f[x] = seqs[i][s[x][2]]
    BY <1>6, Zenon DEF Traces
  <2>2. seqs[i] = IF output[i].type \in types THEN B(i) ELSE << >>
    BY <1>5, <2>1
  <2> HIDE DEF seqs, i, f
  <2>3. output[i].type \in types
    <3>1. ASSUME output[i].type \notin types
          PROVE  FALSE
      BY <2>1, <2>2, <3>1
    <3> QED
      BY <3>1
  <2>4. s[x] \in Nat \X Nat /\ i \in 1 .. N /\ s[x][2] \in 1 .. Len(B(i)) /\ f[x] = B(i)[s[x][2]]
    BY <2>1, <2>2, <2>3
  <2> QED
    BY <2>3, <2>4 DEF i, f
<1> DEFINE Found(s, types) ==
              \A i \in 1 .. N : output[i].type \in types =>
                \A j \in 1 .. Len(B(i)) : \E x \in 1 .. Len(flat(types)) : s[x] = <<i, j>>
<1>7. ASSUME NEW types, NEW s, Traces(s, flat(types), parts(types), N)
      PROVE  Found(s, types)
  <2> SUFFICES ASSUME NEW i \in 1 .. N, output[i].type \in types
               PROVE  \A j \in 1 .. Len(B(i)) : \E x \in 1 .. Len(flat(types)) : s[x] = <<i, j>>
    OBVIOUS
  <2>1. parts(types)[i] = B(i)
    BY <1>5
  <2> QED
    BY <1>7, <2>1, Zenon DEF Traces
<1> HIDE DEF parts, Found
<1> DEFINE content == contentOf(output, streamed)
<1> DEFINE Good(s) ==
              /\ \A x \in 1 .. Len(content) :
                    /\ s[x] \in Nat \X Nat /\ s[x][1] \in 1 .. N
                    /\ s[x][2] \in 1 .. Len(B(s[x][1])) /\ content[x] = B(s[x][1])[s[x][2]]
              /\ \A x, y \in 1 .. Len(content) :
                    output[s[x][1]].type # "reasoning" /\ output[s[y][1]].type # "reasoning" =>
                       /\ s[x] = s[y] => x = y
                       /\ Precedes(s[x], s[y]) => x < y
              /\ \A i \in 1 .. N : \A j \in 1 .. Len(B(i)) : \E x \in 1 .. Len(content) : s[x] = <<i, j>>
<1> SUFFICES \E s : Good(s)
  BY Zenon DEF From, B, N
<1>8. CASE streamed
  <2>1. content = flat(all)
    BY <1>3, <1>8
  <2>2. PICK s : /\ Traces(s, flat(all), parts(all), N)
                 /\ \A x, y \in 1 .. Len(flat(all)) : /\ s[x] = s[y] => x = y
                                                      /\ Precedes(s[x], s[y]) => x < y
    BY <1>5
  <2> HIDE DEF content, flat
  <2>3. \A x \in 1 .. Len(content) : /\ s[x] \in Nat \X Nat /\ s[x][1] \in 1 .. N
                                     /\ s[x][2] \in 1 .. Len(B(s[x][1])) /\ content[x] = B(s[x][1])[s[x][2]]
    BY <1>6, <2>1, <2>2
  <2>4. \A i \in 1 .. N : \A j \in 1 .. Len(B(i)) : \E x \in 1 .. Len(content) : s[x] = <<i, j>>
    <3> TAKE i \in 1 .. N
    <3> TAKE j \in 1 .. Len(B(i))
    <3>1. output[i].type \in all
      BY <1>4
    <3>2. Found(s, all)
      BY <1>7, <2>2
    <3> QED
      BY <2>1, <3>1, <3>2 DEF Found
  <2>5. Good(s)
    BY <2>1, <2>2, <2>3, <2>4, Zenon
  <2> HIDE DEF Good
  <2> QED
    BY <2>5
<1>9. CASE ~ streamed
  <2> DEFINE first == {"reasoning"}
             rest == all \ first
             R == flat(first)
             F == flat(rest)
             L == Len(R)
             K == Len(F)
  <2>1. content = R \o F /\ R \in Q /\ F \in Q
    BY <1>3, <1>5, <1>9
  <2>2. PICK s1 : Traces(s1, R, parts(first), N)
    BY <1>5
  <2>3. PICK s2 : /\ Traces(s2, F, parts(rest), N)
                  /\ \A x, y \in 1 .. K : /\ s2[x] = s2[y] => x = y
                                          /\ Precedes(s2[x], s2[y]) => x < y
    BY <1>5
  <2>4. \A x \in 1 .. L : /\ s1[x] \in Nat \X Nat /\ s1[x][1] \in 1 .. N /\ s1[x][2] \in 1 .. Len(B(s1[x][1]))
                          /\ R[x] = B(s1[x][1])[s1[x][2]] /\ output[s1[x][1]].type = "reasoning"
    BY <1>6, <2>2
  <2>5. \A x \in 1 .. K : /\ s2[x] \in Nat \X Nat /\ s2[x][1] \in 1 .. N /\ s2[x][2] \in 1 .. Len(B(s2[x][1]))
                          /\ F[x] = B(s2[x][1])[s2[x][2]]
    BY <1>6, <2>3
  <2>6. \A i \in 1 .. N : \A j \in 1 .. Len(B(i)) :
           \/ \E x \in 1 .. L : s1[x] = <<i, j>>
           \/ \E x \in 1 .. K : s2[x] = <<i, j>>
    <3> TAKE i \in 1 .. N
    <3> TAKE j \in 1 .. Len(B(i))
    <3>1. CASE output[i].type \in first
      <4>1. Found(s1, first)
        BY <1>7, <2>2
      <4> QED
        BY <3>1, <4>1 DEF Found
    <3>2. CASE output[i].type \notin first
      <4>1. output[i].type \in rest
        BY <1>4, <3>2
      <4>2. Found(s2, rest)
        BY <1>7, <2>3
      <4> QED
        BY <4>1, <4>2 DEF Found
    <3> QED
      BY <3>1, <3>2
  <2> DEFINE s == [x \in 1 .. (L + K) |-> IF x <= L THEN s1[x] ELSE s2[x - L]]
  <2> HIDE DEF content, R, F, flat, rest
  <2>7. /\ L \in Nat /\ K \in Nat /\ Len(content) = L + K
        /\ \A x \in 1 .. L : content[x] = R[x]
        /\ \A x \in 1 .. K : content[L + x] = F[x]
    BY <2>1 DEF Q
  <2>8. /\ \A x \in 1 .. L : x \in 1 .. (L + K) /\ s[x] = s1[x]
        /\ \A x \in 1 .. K : L + x \in 1 .. (L + K) /\ s[L + x] = s2[x]
    <3> HIDE DEF L, K
    <3>1. \A x \in 1 .. K : L + x \in 1 .. (L + K) /\ ~ (L + x <= L) /\ (L + x) - L = x
      BY <2>7
    <3>2. \A x \in 1 .. L : x \in 1 .. (L + K) /\ x <= L
      BY <2>7
    <3> QED
      BY <3>1, <3>2
  <2> HIDE DEF s, L, K
  <2>9. \A x \in 1 .. (L + K) : x \in 1 .. L \/ \E y \in 1 .. K : x = L + y
    <3> TAKE x \in 1 .. (L + K)
    <3>1. x > L => x - L \in 1 .. K /\ x = L + (x - L)
      BY <2>7
    <3> QED
      BY <2>7, <3>1
  <2>10. ASSUME NEW x \in 1 .. (L + K)
         PROVE  /\ s[x] \in Nat \X Nat /\ s[x][1] \in 1 .. N
                /\ s[x][2] \in 1 .. Len(B(s[x][1])) /\ content[x] = B(s[x][1])[s[x][2]]
    <3>1. CASE x \in 1 .. L
      <4>1. s[x] = s1[x] /\ content[x] = R[x]
        BY <2>7, <2>8, <3>1
      <4> QED
        BY <2>4, <3>1, <4>1
    <3>2. CASE x \notin 1 .. L
      <4>1. PICK y \in 1 .. K : x = L + y
        BY <2>9, <3>2
      <4>2. s[x] = s2[y] /\ content[x] = F[y]
        BY <2>7, <2>8, <4>1
      <4> QED
        BY <2>5, <4>2
    <3> QED
      BY <3>1, <3>2
  <2>11. ASSUME NEW x \in 1 .. (L + K), NEW y \in 1 .. (L + K),
                output[s[x][1]].type # "reasoning", output[s[y][1]].type # "reasoning"
         PROVE  /\ s[x] = s[y] => x = y
                /\ Precedes(s[x], s[y]) => x < y
    <3>1. x \notin 1 .. L /\ y \notin 1 .. L
      BY <2>4, <2>8, <2>11
    <3>2. PICK i \in 1 .. K, j \in 1 .. K : x = L + i /\ y = L + j
      BY <2>9, <3>1
    <3>3. s[x] = s2[i] /\ s[y] = s2[j]
      BY <2>8, <3>2
    <3>4. i < j => L + i < L + j
      BY <2>7
    <3> QED
      BY <2>3, <3>2, <3>3, <3>4
  <2>12. \A i \in 1 .. N : \A j \in 1 .. Len(B(i)) : \E x \in 1 .. (L + K) : s[x] = <<i, j>>
    BY <2>6, <2>8
  <2>13. Good(s)
    <3>1. 1 .. Len(content) = 1 .. (L + K)
      BY <2>7
    <3> QED
      BY <2>10, <2>11, <2>12, <3>1, Zenon
  <2> HIDE DEF Good
  <2> QED
    BY <2>13
<1> QED
  BY <1>8, <1>9

\* Joining two sequences of one element.
LEMMA JoinTwo == \A x, y : <<x>> \o << >> = <<x>> /\ <<x>> \o <<y>> = <<x, y>>
<1> TAKE x, y
<1> DEFINE T == {x, y}
           u == <<x>> \o <<y>>
           v == <<x, y>>
<1>1. /\ <<x>> \in Seq(T) /\ <<y>> \in Seq(T) /\ v \in Seq(T)
      /\ Len(v) = 2 /\ v[1] = x /\ v[2] = y /\ Len(<<x>>) = 1 /\ Len(<<y>>) = 1
      /\ <<x>>[1] = x /\ <<y>>[1] = y
  OBVIOUS
<1>2. \A s \in Seq(T) : s \o << >> = s
  OBVIOUS
<1>3. u \in Seq(T) /\ Len(u) = 2 /\ u[1] = x /\ u[2] = y
  BY <1>1
<1> HIDE DEF u, v, T
<1>4. u = v
  BY <1>1, <1>3
<1> QED
  BY <1>1, <1>2, <1>4 DEF u, v

\* The shapes of the calls and the outputs.
LEMMA CallShapes ==
    ASSUME strict \in BOOLEAN, NEW item \in OutputItem, NEW streamed \in BOOLEAN
    PROVE  LET shapes == shapesOf(item, streamed)
           IN  /\ item.type \in Message!PlainCalls => shapes = <<"tool_use">>
               /\ item.type \in Message!ResultCalls =>
                     shapes = <<"tool_use">> \/ shapes = <<"tool_use", "tool_result">>
               /\ item.type = "web_search_call" => shapes = <<"server_tool_use", "web_search_tool_result">>
               /\ item.type \in Message!ToolOutputs => shapes = <<item.type>>
<1> DEFINE of == Message!convert(item)
<1>0. item.body = "some" /\ item.result \in {"none", "some"}
  BY DEF OutputItem
<1> USE DEF Message!PlainCalls, Message!ResultCalls, Message!ToolOutputs
<1>1. Message!toolCallToBlock(item) = Message!Blocks(<<"tool_use">>)
  BY <1>0 DEF Message!toolCallToBlock
<1>2. ASSUME item.type \in Message!PlainCalls
      PROVE  of.blocks = <<"tool_use">>
  <2>1. of = Message!Blocks(<<"tool_use">>)
    BY <1>1, <1>2 DEF Message!convert
  <2> QED
    BY <2>1 DEF Message!Blocks
<1>3. ASSUME item.type \in Message!ResultCalls
      PROVE  of.blocks = <<"tool_use">> \/ of.blocks = <<"tool_use", "tool_result">>
  <2>1. of = Message!callToBlocks(item)
    BY <1>3 DEF Message!convert
  <2> DEFINE more == Message!callResultToBlock(item)
  <2>2. more.ok /\ (more.blocks = << >> \/ more.blocks = <<"tool_result">>)
    BY <1>0 DEF Message!callResultToBlock, Message!Blocks
  <2> HIDE DEF more
  <2>3. of.blocks = <<"tool_use">> \o more.blocks
    BY <1>1, <2>1, <2>2 DEF Message!callToBlocks, Message!Both, Message!Blocks, more
  <2>4. <<"tool_use">> \o << >> = <<"tool_use">> /\ <<"tool_use">> \o <<"tool_result">> = <<"tool_use", "tool_result">>
    BY JoinTwo
  <2> QED
    BY <2>2, <2>3, <2>4
<1>4. ASSUME item.type = "web_search_call"
      PROVE  of.blocks = <<"server_tool_use", "web_search_tool_result">>
  <2>1. of = Message!Blocks(<<"server_tool_use", "web_search_tool_result">>)
    BY <1>4 DEF Message!convert, Message!openAIWebSearchToBlocks
  <2> QED
    BY <2>1 DEF Message!Blocks
<1>5. ASSUME item.type \in Message!ToolOutputs
      PROVE  of.blocks = <<item.type>>
  <2>1. of = Message!Blocks(<<item.type>>)
    BY <1>0, <1>5 DEF Message!convert, Message!toolOutputToBlock
  <2> QED
    BY <2>1 DEF Message!Blocks
<1>6. item.type # "message" => shapesOf(item, streamed) = of.blocks
  BY DEF shapesOf
<1> HIDE DEF of
<1> QED
  BY <1>2, <1>3, <1>4, <1>5, <1>6

\* A block the client keeps is still of its type, about its call and has its name.
LEMMA KeptSame ==
    ASSUME client \in {"all", "documented", "plain"}, NEW block \in Block
    PROVE  /\ kept(block).type = block.type /\ kept(block).id = block.id /\ kept(block).name = block.name
           /\ kept(block).stored = IF client = "all" THEN block.stored ELSE None
  BY DEF kept, Block

\* The calls and the results among the blocks of an item.
LEMMA CallsOfItem ==
    ASSUME strict \in BOOLEAN, client \in {"all", "documented", "plain"},
           NEW item \in AnswerItem, NEW streamed \in BOOLEAN
    PROVE  LET B == blocksOf(item, streamed)
           IN  /\ B \in Seq(MessageBlock)
               /\ \A j \in 1 .. Len(B) :
                     /\ B[j].type \in CallBlocks \cup ResultBlocks => B[j].id = item.id
                     /\ B[j].name = blockName(item.type)
                     /\ B[j].type = "tool_use" =>
                           j = 1 /\ item.type \in Message!PlainCalls \cup Message!ResultCalls
                     /\ B[j].type = "server_tool_use" => j = 1 /\ item.type = "web_search_call"
                     /\ B[j].type = "tool_result" =>
                           \/ j = 2 /\ item.type \in Message!ResultCalls
                           \/ j = 1 /\ item.type = "computer_call_output"
                     /\ B[j].type = "tool_search_tool_result" => j = 1 /\ item.type = "tool_search_output"
                     /\ Belongs(kept(B[j]))
                     /\ item.type = "tool_search_call" /\ client = "all" => IsSearch(kept(B[j]))
                     /\ B[j].type = "tool_use" /\ client = "all" /\ ~ streamed
                        /\ item.type \in Message!ResultCalls \cup {"computer_call"} =>
                           toolUseKind(kept(B[j])) = "function_call"
               /\ item.type \in Message!PlainCalls \cup Message!ResultCalls =>
                     1 \in 1 .. Len(B) /\ B[1].type = "tool_use"
<1> DEFINE B == blocksOf(item, streamed)
           shapes == shapesOf(item, streamed)
           type(j) == blockType(shapes[j])
           N == Len(shapes)
<1>1. item \in OutputItem /\ item.type \in Message!Types \ {"blank"}
  BY DEF AnswerItem, OutputItem
<1>2. B \in Seq(MessageBlock)
  BY BlocksOfItem
<1>3. shapes \in Seq(Shapes(item.type))
  BY <1>1, ShapesOfItem
<1>4. /\ item.type \in Message!PlainCalls => shapes = <<"tool_use">>
      /\ item.type \in Message!ResultCalls => shapes = <<"tool_use">> \/ shapes = <<"tool_use", "tool_result">>
      /\ item.type = "web_search_call" => shapes = <<"server_tool_use", "web_search_tool_result">>
      /\ item.type \in Message!ToolOutputs => shapes = <<item.type>>
  BY <1>1, CallShapes
<1>5. /\ DOMAIN B = DOMAIN shapes
      /\ \A j \in DOMAIN shapes : /\ B[j].type = type(j) /\ B[j].id = blockId(item, type(j)) /\ B[j].name = blockName(item.type)
                                  /\ B[j].kind = blockKind(item, type(j), j, streamed)
                                  /\ B[j].stored = storedItem(item, type(j), streamed)
  BY DEF blocksOf
<1> HIDE DEF shapes, B
<1>6. N \in Nat /\ DOMAIN shapes = 1 .. N /\ Len(B) = N /\ \A j \in 1 .. N : shapes[j] \in Shapes(item.type)
  BY <1>2, <1>3, <1>5
<1> USE DEF Message!PlainCalls, Message!ResultCalls, Message!ToolOutputs
<1>7. ASSUME NEW j \in 1 .. N
      PROVE  /\ type(j) = "tool_use" => j = 1 /\ item.type \in Message!PlainCalls \cup Message!ResultCalls
             /\ type(j) = "server_tool_use" => j = 1 /\ item.type = "web_search_call"
             /\ type(j) = "tool_result" => \/ j = 2 /\ item.type \in Message!ResultCalls
                                           \/ j = 1 /\ item.type = "computer_call_output"
             /\ type(j) = "tool_search_tool_result" => j = 1 /\ item.type = "tool_search_output"
  <2>0. shapes[j] \in Shapes(item.type)
    BY <1>6
  <2>1. CASE item.type \in Message!PlainCalls
    <3>1. j = 1 /\ shapes[j] = "tool_use"
      BY <1>4, <1>6, <2>1
    <3> QED
      BY <2>1, <3>1 DEF blockType
  <2>2. CASE item.type \in Message!ResultCalls
    <3>1. (j = 1 /\ shapes[j] = "tool_use") \/ (j = 2 /\ shapes[j] = "tool_result")
      BY <1>4, <1>6, <2>2
    <3> QED
      BY <2>2, <3>1 DEF blockType
  <2>3. CASE item.type \in Message!ToolOutputs
    <3>1. j = 1 /\ shapes[j] = item.type
      BY <1>4, <1>6, <2>3
    <3> QED
      BY <2>3, <3>1 DEF blockType
  <2>4. CASE item.type = "web_search_call"
    <3>1. (j = 1 /\ shapes[j] = "server_tool_use") \/ (j = 2 /\ shapes[j] = "web_search_tool_result")
      BY <1>4, <1>6, <2>4
    <3> QED
      BY <2>4, <3>1 DEF blockType
  <2>5. CASE item.type \in {"message", "reasoning", "compaction", "image_generation_call", "unrecognized"}
    <3>1. shapes[j] \in {"text", "thinking", "compaction", "image_generation_call", "unrecognized"}
      BY <2>0, <2>5 DEF Shapes
    <3>2. type(j) \in {"text", "thinking", "compaction", "image_generation_call", "responses_output_item"}
      BY <3>1 DEF blockType
    <3> QED
      BY <3>2
  <2> QED
    BY <1>1, <2>1, <2>2, <2>3, <2>4, <2>5 DEF Message!Types, Message!OtherTypes
<1>8. ASSUME NEW j \in 1 .. N
      PROVE  Belongs(kept(B[j])) /\ (item.type = "tool_search_call" /\ client = "all" => IsSearch(kept(B[j])))
  <2>1. B[j] \in Block /\ B[j].type = type(j) /\ B[j].stored = storedItem(item, type(j), streamed)
    BY <1>2, <1>5, <1>6 DEF MessageBlock
  <2>2. /\ kept(B[j]).type = type(j)
        /\ kept(B[j]).stored = IF client = "all" THEN storedItem(item, type(j), streamed) ELSE None
    BY <2>1, KeptSame
  <2>3. storedItem(item, type(j), streamed) \in {item.type, None}
    BY DEF storedItem
  <2>4. None \notin SafeTypes /\ None \notin CallTypes \cup OutputTypes
    BY NotTypes DEF ItemTypes, CallTypes, OutputTypes, OutputType, SafeTypes, Kinds
  <2>5. kept(B[j]).stored \in {item.type, None}
    BY <2>2, <2>3
  <2> DEFINE block == kept(B[j])
  <2>6. block.type = "tool_use" => block.stored \notin SafeTypes \ CallTypes
    <3>1. item.type \in Message!PlainCalls \cup Message!ResultCalls => item.type \notin SafeTypes \ CallTypes
      BY DEF SafeTypes, CallTypes
    <3> QED
      BY <1>7, <2>2, <2>4, <2>5, <3>1
  <2>7. block.type = "server_tool_use" => block.stored \notin CallTypes \cup OutputTypes
    <3>1. "web_search_call" \notin CallTypes \cup OutputTypes
      BY DEF CallTypes, OutputTypes, OutputType
    <3> QED
      BY <1>7, <2>2, <2>4, <2>5, <3>1
  <2>8. block.type = "tool_search_tool_result" => block.stored \notin SafeTypes \ {"tool_search_output"}
    BY <1>7, <2>2, <2>4, <2>5
  <2>9. ASSUME item.type = "tool_search_call", client = "all"
        PROVE  IsSearch(block)
    <3>1. type(j) = "tool_use"
      <4>1. shapes = <<"tool_use">>
        BY <1>4, <2>9
      <4>2. shapes[j] = "tool_use"
        BY <1>6, <4>1
      <4> QED
        BY <4>2 DEF blockType
    <3>2. annotatesItem(item.type, streamed)
      BY <2>9 DEF annotatesItem
    <3>3. storedItem(item, type(j), streamed) = "tool_search_call"
      BY <2>9, <3>1, <3>2 DEF storedItem
    <3> QED
      BY <2>2, <2>9, <3>3 DEF IsSearch
  <2> QED
    BY <2>6, <2>7, <2>8, <2>9 DEF Belongs
<1>9. ASSUME NEW j \in 1 .. N, type(j) = "tool_use", client = "all", ~ streamed,
             item.type \in Message!ResultCalls \cup {"computer_call"}
      PROVE  toolUseKind(kept(B[j])) = "function_call"
  <2> DEFINE block == B[j]
  <2>1. block.kind = item.type /\ block.stored = item.type
    BY <1>5, <1>6, <1>9 DEF blockKind, storedItem, annotatesKind, annotatesItem
  <2>2. kept(block) = block
    BY <1>9 DEF kept
  <2>3. item.type \notin SafeTypes \cup {"malformed", None}
    BY <1>9, NotTypes DEF SafeTypes, ItemTypes, Kinds
  <2> HIDE DEF block
  <2>4. stored(block) = NoItem
    BY <2>1, <2>3 DEF stored
  <2>5. None \notin SafeTypes
    BY NotTypes DEF ItemTypes
  <2>6. toolUseKind(block) = normalizeUnsafeSpecialToolKind(item.type)
    BY <2>1, <2>3, <2>4, <2>5, NotTypes DEF toolUseKind
  <2>7. toolUseKind(block) = "function_call"
    BY <1>9, <2>6 DEF normalizeUnsafeSpecialToolKind
  <2> QED
    BY <2>2, <2>7 DEF block
<1>10. ASSUME item.type \in Message!PlainCalls \cup Message!ResultCalls
       PROVE  1 \in 1 .. N /\ B[1].type = "tool_use"
  <2>1. shapes = <<"tool_use">> \/ shapes = <<"tool_use", "tool_result">>
    BY <1>4, <1>10
  <2>2. 1 \in 1 .. N /\ shapes[1] = "tool_use"
    <3>1. CASE shapes = <<"tool_use">>
      BY <1>6, <3>1
    <3>2. CASE shapes = <<"tool_use", "tool_result">>
      BY <1>6, <3>2
    <3> QED
      BY <2>1, <3>1, <3>2
  <2>3. type(1) = "tool_use"
    BY <2>2 DEF blockType
  <2> QED
    BY <1>5, <1>6, <2>2, <2>3
<1>11. \A j \in 1 .. N : type(j) \in CallBlocks \cup ResultBlocks => blockId(item, type(j)) = item.id
  BY DEF blockId, CallBlocks, ResultBlocks
<1> QED
  BY <1>2, <1>5, <1>6, <1>7, <1>8, <1>9, <1>10, <1>11 DEF B

\* The calls and the results of a message, taken alone, fit each other.
Tidy(blocks) ==
    /\ \A b, d \in 1 .. Len(blocks), types \in {CallBlocks, ResultBlocks} :
          blocks[b].type \in types /\ blocks[d].type \in types /\ blocks[b].id = blocks[d].id => b = d
    /\ \A b \in 1 .. Len(blocks) : Belongs(blocks[b])
    /\ \A b, d \in 1 .. Len(blocks) :
          blocks[b].type = "tool_search_tool_result" /\ blocks[d].type = "tool_use"
          /\ blocks[b].id = blocks[d].id => SearchFound(blocks[d])

\* Those of an answer do: each is about one of its items, a result comes after its
\* call, a call that is not said to wait for the client is of a list of tools, and the
\* calls that come whole with a tool_result are function calls for a client that keeps
\* them.
AnswerKept(blocks, output, streamed) ==
    /\ Tidy(blocks)
    /\ \A b \in 1 .. Len(blocks) : blocks[b].type \in CallBlocks \cup ResultBlocks =>
          \E i \in 1 .. Len(output) : blocks[b].id = output[i].id
    /\ \A b \in 1 .. Len(blocks) : blocks[b].type \in ResultBlocks =>
          \E d \in 1 .. Len(blocks) : d < b /\ blocks[d].type = "tool_use" /\ blocks[d].id = blocks[b].id
    /\ \A b \in 1 .. Len(blocks) : blocks[b].type = "tool_use" =>
          \/ stopReason(output, streamed) = "tool_use"
          \/ blocks[b].name = "other"
             /\ \E k \in DOMAIN output : output[k].type = "mcp_list_tools" /\ output[k].id = blocks[b].id
    /\ \A b, d \in 1 .. Len(blocks) :
          client = "all" /\ ~ streamed /\ blocks[b].type = "tool_result"
          /\ blocks[d].type = "tool_use" /\ blocks[b].id = blocks[d].id =>
             toolUseKind(blocks[d]) = "function_call"

\* What the client keeps of an answer, whole or streamed, is such.
LEMMA AnswerTidy ==
    ASSUME strict \in BOOLEAN, client \in {"all", "documented", "plain"},
           NEW output \in Seq(AnswerItem), CallsApart(output), NEW streamed \in BOOLEAN
    PROVE  LET content == contentOf(output, streamed)
           IN  AnswerKept([k \in DOMAIN content |-> kept(content[k])], output, streamed)
<1> DEFINE content == contentOf(output, streamed)
           K == [k \in DOMAIN content |-> kept(content[k])]
           N == Len(content)
           B(i) == blocksOf(output[i], streamed)
<1>1. PICK src : From(src, content, output, streamed)
  BY BlockSources
<1>2. content \in Seq(MessageBlock)
  BY BlocksOfAnswer
<1> HIDE DEF content
<1>3. N \in Nat /\ Len(K) = N /\ DOMAIN content = 1 .. N /\ \A x \in 1 .. N : content[x] \in MessageBlock
  BY <1>2
<1> DEFINE i(x) == src[x][1]
           j(x) == src[x][2]
           t(x) == output[i(x)].type
<1>4. ASSUME NEW x \in 1 .. N
      PROVE  /\ src[x] = <<i(x), j(x)>> /\ i(x) \in 1 .. Len(output) /\ output[i(x)] \in AnswerItem
             /\ j(x) \in 1 .. Len(B(i(x))) /\ content[x] = B(i(x))[j(x)]
  <2>1. /\ src[x] \in Nat \X Nat /\ i(x) \in 1 .. Len(output)
        /\ j(x) \in 1 .. Len(B(i(x))) /\ content[x] = B(i(x))[j(x)]
    BY <1>1 DEF From
  <2>2. src[x] = <<i(x), j(x)>>
    BY <2>1
  <2> QED
    BY <2>1, <2>2
<1>5. \A x, y \in 1 .. N : t(x) # "reasoning" /\ t(y) # "reasoning" =>
         /\ src[x] = src[y] => x = y
         /\ Precedes(src[x], src[y]) => x < y
  BY <1>1, Zenon DEF From
<1>6. \A k \in 1 .. Len(output) : \A l \in 1 .. Len(B(k)) : \E x \in 1 .. N : src[x] = <<k, l>>
  BY <1>1, Zenon DEF From
<1> HIDE DEF B
<1> USE DEF CallBlocks, ResultBlocks
<1>7. ASSUME NEW x \in 1 .. N
      PROVE  /\ K[x].type \in CallBlocks \cup ResultBlocks => K[x].id = output[i(x)].id
             /\ K[x].name = blockName(t(x))
             /\ K[x].type = "tool_use" => j(x) = 1 /\ t(x) \in Message!PlainCalls \cup Message!ResultCalls
             /\ K[x].type = "server_tool_use" => j(x) = 1 /\ t(x) = "web_search_call"
             /\ K[x].type = "tool_result" => \/ j(x) = 2 /\ t(x) \in Message!ResultCalls
                                             \/ j(x) = 1 /\ t(x) = "computer_call_output"
             /\ K[x].type = "tool_search_tool_result" => j(x) = 1 /\ t(x) = "tool_search_output"
             /\ Belongs(K[x])
             /\ t(x) = "tool_search_call" /\ client = "all" => IsSearch(K[x])
             /\ K[x].type = "tool_use" /\ client = "all" /\ ~ streamed
                /\ t(x) \in Message!ResultCalls \cup {"computer_call"} => toolUseKind(K[x]) = "function_call"
  <2> DEFINE item == output[i(x)]
             block == content[x]
  <2>1. item \in AnswerItem /\ j(x) \in 1 .. Len(blocksOf(item, streamed)) /\ block = blocksOf(item, streamed)[j(x)]
    BY <1>4 DEF B
  <2>2. K[x] = kept(block) /\ block \in Block
    BY <1>3 DEF MessageBlock
  <2> HIDE DEF item, block, K, i, j
  <2>3. /\ block.type \in CallBlocks \cup ResultBlocks => block.id = item.id
        /\ block.name = blockName(item.type)
        /\ block.type = "tool_use" => j(x) = 1 /\ item.type \in Message!PlainCalls \cup Message!ResultCalls
        /\ block.type = "server_tool_use" => j(x) = 1 /\ item.type = "web_search_call"
        /\ block.type = "tool_result" => \/ j(x) = 2 /\ item.type \in Message!ResultCalls
                                         \/ j(x) = 1 /\ item.type = "computer_call_output"
        /\ block.type = "tool_search_tool_result" => j(x) = 1 /\ item.type = "tool_search_output"
        /\ Belongs(kept(block))
        /\ item.type = "tool_search_call" /\ client = "all" => IsSearch(kept(block))
        /\ block.type = "tool_use" /\ client = "all" /\ ~ streamed
           /\ item.type \in Message!ResultCalls \cup {"computer_call"} =>
              toolUseKind(kept(block)) = "function_call"
    BY <2>1, CallsOfItem
  <2>4. K[x].type = block.type /\ K[x].id = block.id /\ K[x].name = block.name
    BY <2>2, KeptSame
  <2> QED
    BY <2>2, <2>3, <2>4 DEF item
<1>8. \A k \in 1 .. Len(output) : output[k].type \in Message!PlainCalls \cup Message!ResultCalls =>
         \E x \in 1 .. N : i(x) = k /\ j(x) = 1 /\ K[x].type = "tool_use" /\ K[x].id = output[k].id
  <2> SUFFICES ASSUME NEW k \in 1 .. Len(output),
                      output[k].type \in Message!PlainCalls \cup Message!ResultCalls
               PROVE  \E x \in 1 .. N : i(x) = k /\ j(x) = 1 /\ K[x].type = "tool_use" /\ K[x].id = output[k].id
    OBVIOUS
  <2>1. output[k] \in AnswerItem
    OBVIOUS
  <2>2. 1 \in 1 .. Len(B(k)) /\ B(k)[1].type = "tool_use"
    BY <2>1, CallsOfItem DEF B
  <2>3. PICK x \in 1 .. N : src[x] = <<k, 1>>
    BY <1>6, <2>2
  <2>4. i(x) = k /\ j(x) = 1
    BY <2>3
  <2>5. content[x] = B(k)[1] /\ content[x] \in Block /\ K[x] = kept(content[x])
    BY <1>3, <1>4, <2>4 DEF MessageBlock
  <2>6. K[x].type = "tool_use"
    BY <2>2, <2>5, KeptSame
  <2>7. K[x].type \in CallBlocks \cup ResultBlocks
    BY <2>6
  <2>8. K[x].id = output[k].id
    BY <1>7, <2>4, <2>7, Zenon
  <2> QED
    BY <2>4, <2>6, <2>8
<1>8a. \A x \in 1 .. N : K[x].type \in CallBlocks \cup ResultBlocks => K[x].id = output[i(x)].id
  BY <1>7
<1> HIDE DEF K, i, j
<1> USE DEF CallItems, Message!PlainCalls, Message!ResultCalls, Message!ToolOutputs
<1>9. \A k, l \in 1 .. Len(output) :
         /\ output[k].type \in CallItems /\ output[l].type \in CallItems /\ output[k].id = output[l].id => k = l
         /\ output[k].type \in Message!ToolOutputs /\ output[l].type \in Message!ToolOutputs
            /\ output[k].id = output[l].id => k = l
  BY Zenon DEF CallsApart
<1>10. \A k \in 1 .. Len(output) : output[k].type \in Message!ToolOutputs =>
          \E l \in 1 .. Len(output) : /\ l < k /\ output[l].id = output[k].id
                                      /\ output[l].type = CallOf(output[k].type)
  BY Zenon DEF CallsApart
<1>11. ASSUME NEW x \in 1 .. N, NEW y \in 1 .. N, i(x) = i(y), j(x) = j(y), t(x) # "reasoning"
       PROVE  x = y
  BY <1>4, <1>5, <1>11
<1>12. ASSUME NEW x \in 1 .. N, NEW y \in 1 .. N, K[x].type \in CallBlocks, K[y].type \in CallBlocks,
              K[x].id = K[y].id
       PROVE  x = y
  <2>1. j(x) = 1 /\ t(x) \in CallItems /\ j(y) = 1 /\ t(y) \in CallItems
    BY <1>7, <1>12 DEF CallBlocks
  <2>2. i(x) = i(y)
    BY <1>4, <1>7, <1>9, <1>12, <2>1
  <2> QED
    BY <1>11, <2>1, <2>2
<1>13. ASSUME NEW x \in 1 .. N, K[x].type \in ResultBlocks
       PROVE  \/ j(x) = 2 /\ t(x) \in Message!ResultCalls
              \/ j(x) = 1 /\ t(x) \in Message!ToolOutputs
  BY <1>7, <1>13 DEF ResultBlocks
<1>14. ASSUME NEW x \in 1 .. N, NEW y \in 1 .. N, t(x) \in Message!ResultCalls, t(y) \in Message!ToolOutputs,
              K[x].type \in ResultBlocks, K[y].type \in ResultBlocks, K[x].id = K[y].id
       PROVE  FALSE
  <2>1. PICK l \in 1 .. Len(output) : output[l].id = output[i(y)].id /\ output[l].type = CallOf(t(y))
    BY <1>4, <1>10, <1>14
  <2>2. output[l].type \in CallItems /\ output[l].type \notin Message!ResultCalls
    BY <2>1 DEF CallOf
  <2>3. output[i(x)].id = K[x].id /\ output[i(y)].id = K[y].id
    BY <1>14, <1>8a
  <2>4. i(x) \in 1 .. Len(output) /\ output[i(x)].type \in CallItems /\ output[l].id = output[i(x)].id
    BY <1>4, <1>14, <2>1, <2>3
  <2>5. l = i(x)
    BY <1>9, <2>2, <2>4, Zenon
  <2> QED
    BY <1>14, <2>2, <2>5
<1>15. ASSUME NEW x \in 1 .. N, NEW y \in 1 .. N, K[x].type \in ResultBlocks, K[y].type \in ResultBlocks,
              K[x].id = K[y].id
       PROVE  x = y
  <2>1. CASE t(x) \in Message!ResultCalls /\ t(y) \in Message!ResultCalls
    <3>1. j(x) = 2 /\ j(y) = 2
      BY <1>13, <1>15, <2>1
    <3>2. /\ i(x) \in 1 .. Len(output) /\ i(y) \in 1 .. Len(output)
          /\ output[i(x)].type \in CallItems /\ output[i(y)].type \in CallItems
          /\ output[i(x)].id = output[i(y)].id
      BY <1>4, <1>7, <1>15, <2>1
    <3>3. i(x) = i(y)
      BY <1>9, <3>2, Zenon
    <3> QED
      BY <1>11, <2>1, <3>1, <3>3
  <2>2. CASE t(x) \in Message!ToolOutputs /\ t(y) \in Message!ToolOutputs
    <3>1. j(x) = 1 /\ j(y) = 1
      BY <1>13, <1>15, <2>2
    <3>2. i(x) = i(y)
      BY <1>4, <1>7, <1>9, <1>15, <2>2
    <3> QED
      BY <1>11, <2>2, <3>1, <3>2
  <2> QED
    BY <1>13, <1>14, <1>15, <2>1, <2>2
<1>16. ASSUME NEW x \in 1 .. N, K[x].type \in ResultBlocks
       PROVE  \E y \in 1 .. N : y < x /\ K[y].type = "tool_use" /\ K[y].id = K[x].id
  <2>1. CASE j(x) = 2 /\ t(x) \in Message!ResultCalls
    <3>1. PICK y \in 1 .. N : i(y) = i(x) /\ j(y) = 1 /\ K[y].type = "tool_use" /\ K[y].id = output[i(x)].id
      BY <1>4, <1>8, <2>1
    <3>2. Precedes(src[y], src[x])
      BY <1>4, <2>1, <3>1 DEF Precedes
    <3>3. y < x
      BY <1>5, <2>1, <3>1, <3>2
    <3> QED
      BY <1>16, <1>8a, <3>1, <3>3
  <2>2. CASE j(x) = 1 /\ t(x) \in Message!ToolOutputs
    <3>1. PICK l \in 1 .. Len(output) : /\ l < i(x) /\ output[l].id = output[i(x)].id
                                        /\ output[l].type = CallOf(t(x))
      BY <1>4, <1>10, <2>2
    <3>2. output[l].type \in Message!PlainCalls
      BY <3>1 DEF CallOf
    <3>3. PICK y \in 1 .. N : i(y) = l /\ K[y].type = "tool_use" /\ K[y].id = output[l].id
      BY <1>8, <3>2
    <3>4. Precedes(src[y], src[x])
      BY <1>4, <3>1, <3>3 DEF Precedes
    <3>5. t(y) # "reasoning" /\ t(x) # "reasoning"
      BY <2>2, <3>2, <3>3
    <3>6. y < x
      BY <1>5, <3>4, <3>5
    <3> QED
      BY <1>16, <1>8a, <3>1, <3>3, <3>6
  <2> QED
    BY <1>13, <1>16, <2>1, <2>2
<1>17. ASSUME NEW x \in 1 .. N, NEW y \in 1 .. N, K[x].type = "tool_search_tool_result",
              K[y].type = "tool_use", K[x].id = K[y].id
       PROVE  SearchFound(K[y])
  <2>1. t(x) = "tool_search_output" /\ t(y) \in CallItems
    BY <1>7, <1>17
  <2>2. PICK l \in 1 .. Len(output) : output[l].id = output[i(x)].id /\ output[l].type = "tool_search_call"
    BY <1>4, <1>10, <2>1 DEF CallOf
  <2>3. /\ i(y) \in 1 .. Len(output)
        /\ output[l].type \in CallItems /\ output[i(y)].type \in CallItems
        /\ output[l].id = output[i(y)].id
    BY <1>4, <1>7, <1>17, <2>1, <2>2
  <2>4. l = i(y)
    BY <1>9, <2>3, Zenon
  <2>5. t(y) = "tool_search_call" /\ blockName(t(y)) = "ToolSearch"
    BY <2>2, <2>4 DEF blockName
  <2> QED
    BY <1>7, <2>5 DEF SearchFound
<1>18. ASSUME NEW x \in 1 .. N, K[x].type = "tool_use"
       PROVE  \/ stopReason(output, streamed) = "tool_use"
              \/ K[x].name = "other"
                 /\ \E k \in DOMAIN output : output[k].type = "mcp_list_tools" /\ output[k].id = K[x].id
  <2>0. DOMAIN output = 1 .. Len(output)
    OBVIOUS
  <2>1. t(x) \in Message!PlainCalls \cup Message!ResultCalls /\ i(x) \in DOMAIN output
    BY <1>4, <1>7, <1>18, <2>0
  <2>2. CASE t(x) # "mcp_list_tools"
    <3>1. Message!toolUsed(output)
      BY <2>1, <2>2 DEF Message!toolUsed
    <3> QED
      BY <3>1 DEF stopReason
  <2>3. CASE t(x) = "mcp_list_tools"
    <3>1. K[x].name = "other"
      BY <1>7, <2>3 DEF blockName
    <3> QED
      BY <1>18, <1>8a, <2>1, <2>3, <3>1
  <2> QED
    BY <2>2, <2>3
<1>19. ASSUME NEW x \in 1 .. N, NEW y \in 1 .. N, K[x].type = "tool_result", K[y].type = "tool_use",
              K[x].id = K[y].id, client = "all", ~ streamed
       PROVE  toolUseKind(K[y]) = "function_call"
  <2>1. /\ i(x) \in 1 .. Len(output) /\ i(y) \in 1 .. Len(output) /\ t(y) \in CallItems
        /\ output[i(x)].id = output[i(y)].id
    BY <1>4, <1>7, <1>19
  <2>2. CASE t(x) \in Message!ResultCalls
    <3>1. output[i(x)].type \in CallItems
      BY <2>2
    <3>2. i(x) = i(y)
      BY <1>9, <2>1, <3>1, Zenon
    <3> QED
      BY <1>7, <1>19, <2>2, <3>2
  <2>3. CASE t(x) = "computer_call_output"
    <3>1. PICK l \in 1 .. Len(output) : output[l].id = output[i(x)].id /\ output[l].type = "computer_call"
      BY <1>10, <2>1, <2>3 DEF CallOf
    <3>2. output[l].type \in CallItems /\ output[l].id = output[i(y)].id /\ output[i(y)].type \in CallItems
      BY <2>1, <3>1
    <3>3. l = i(y)
      BY <1>9, <2>1, <3>2, Zenon
    <3> QED
      BY <1>7, <1>19, <3>1, <3>3
  <2> QED
    BY <1>7, <1>19, <2>2, <2>3
<1>20. Len(K) = N
  BY <1>3 DEF K
<1>21. Tidy(K)
  BY <1>7, <1>12, <1>15, <1>17, <1>20 DEF Tidy
<1>22. \A x \in 1 .. N : K[x].type \in CallBlocks \cup ResultBlocks =>
          \E k \in 1 .. Len(output) : K[x].id = output[k].id
  BY <1>4, <1>8a
<1>23. /\ \A x \in 1 .. N : K[x].type \in ResultBlocks =>
             \E y \in 1 .. N : y < x /\ K[y].type = "tool_use" /\ K[y].id = K[x].id
       /\ \A x \in 1 .. N : K[x].type = "tool_use" =>
             \/ stopReason(output, streamed) = "tool_use"
             \/ K[x].name = "other"
                /\ \E k \in DOMAIN output : output[k].type = "mcp_list_tools" /\ output[k].id = K[x].id
  BY <1>16, <1>18
<1>24. AnswerKept(K, output, streamed)
  BY <1>20, <1>21, <1>22, <1>23, <1>19 DEF AnswerKept
<1> QED
  BY <1>24 DEF K, content

-----------------------------------------------------------------------------
(* The positions of a history, and how it grows                             *)

\* What is at a position.
LEMMA PositionsIn ==
    ASSUME NEW h \in Seq(ChatMessage), NEW types
    PROVE  /\ \A m \in 1 .. Len(h) : \A b \in 1 .. Len(h[m].blocks) :
                 h[m].blocks[b].type \in types => <<m, b>> \in PositionsOf(h, types)
           /\ \A at \in PositionsOf(h, types) :
                 /\ at[1] \in 1 .. Len(h) /\ at[1] \in Nat
                 /\ at[2] \in 1 .. Len(h[at[1]].blocks) /\ at[2] \in Nat
                 /\ at = <<at[1], at[2]>>
                 /\ BlockIn(h, at) = h[at[1]].blocks[at[2]]
                 /\ BlockIn(h, at).type \in types /\ BlockIn(h, at) \in MessageBlock
                 /\ IdIn(h, at) = BlockIn(h, at).id /\ IdIn(h, at) \in Nat
<1> DEFINE All == UNION {{<<m, b>> : b \in DOMAIN h[m].blocks} : m \in DOMAIN h}
<1>1. DOMAIN h = 1 .. Len(h)
  OBVIOUS
<1>2. \A m \in 1 .. Len(h) : /\ h[m].blocks \in Seq(MessageBlock)
                             /\ DOMAIN h[m].blocks = 1 .. Len(h[m].blocks)
  <2> TAKE m \in 1 .. Len(h)
  <2>1. h[m] \in ChatMessage
    OBVIOUS
  <2> DEFINE msg == h[m]
  <2> HIDE DEF msg
  <2>2. msg.blocks \in Seq(MessageBlock)
    BY <2>1 DEF ChatMessage, msg
  <2> QED
    BY <2>2 DEF msg
<1>3. \A at : at \in All <=> \E m \in 1 .. Len(h) : \E b \in 1 .. Len(h[m].blocks) : at = <<m, b>>
  BY <1>1, <1>2
<1> HIDE DEF All
<1>4. PositionsOf(h, types) = {at \in All : h[at[1]].blocks[at[2]].type \in types}
  BY DEF PositionsOf, All
<1>5. ASSUME NEW m \in 1 .. Len(h), NEW b \in 1 .. Len(h[m].blocks), h[m].blocks[b].type \in types
      PROVE  <<m, b>> \in PositionsOf(h, types)
  <2> DEFINE at == <<m, b>>
  <2>1. at[1] = m /\ at[2] = b /\ at \in All
    BY <1>3
  <2> HIDE DEF at
  <2>2. at \in PositionsOf(h, types)
    BY <1>4, <1>5, <2>1
  <2> QED
    BY <2>2 DEF at
<1>6. ASSUME NEW at \in PositionsOf(h, types)
      PROVE  /\ at[1] \in 1 .. Len(h) /\ at[1] \in Nat
             /\ at[2] \in 1 .. Len(h[at[1]].blocks) /\ at[2] \in Nat
             /\ at = <<at[1], at[2]>>
             /\ BlockIn(h, at) = h[at[1]].blocks[at[2]]
             /\ BlockIn(h, at).type \in types /\ BlockIn(h, at) \in MessageBlock
             /\ IdIn(h, at) = BlockIn(h, at).id /\ IdIn(h, at) \in Nat
  <2>1. at \in All /\ h[at[1]].blocks[at[2]].type \in types
    BY <1>4
  <2>2. PICK m \in 1 .. Len(h) : \E b \in 1 .. Len(h[m].blocks) : at = <<m, b>>
    BY <1>3, <2>1
  <2>3. PICK b \in 1 .. Len(h[m].blocks) : at = <<m, b>>
    BY <2>2
  <2>4. at[1] = m /\ at[2] = b
    BY <2>3
  <2>5. h[m].blocks[b] \in MessageBlock
    BY <1>2
  <2>6. h[m].blocks[b].id \in Nat
    BY <2>5 DEF MessageBlock, Block
  <2> QED
    BY <2>1, <2>3, <2>4, <2>5, <2>6 DEF BlockIn, IdIn
<1> QED
  BY <1>5, <1>6

\* A message more.
LEMMA AppendedPositions ==
    ASSUME NEW h \in Seq(ChatMessage), NEW msg \in ChatMessage, NEW types
    PROVE  LET longer == Append(h, msg)
           IN  /\ longer \in Seq(ChatMessage) /\ Len(longer) = Len(h) + 1 /\ longer[Len(h) + 1] = msg
               /\ \A m \in 1 .. Len(h) : longer[m] = h[m]
               /\ \A at \in PositionsOf(h, types) :
                     /\ at \in PositionsOf(longer, types) /\ BlockIn(longer, at) = BlockIn(h, at)
                     /\ IdIn(longer, at) = IdIn(h, at) /\ longer[at[1]] = h[at[1]] /\ at[1] <= Len(h)
               /\ \A b \in 1 .. Len(msg.blocks) :
                     /\ msg.blocks[b].type \in types => <<Len(h) + 1, b>> \in PositionsOf(longer, types)
                     /\ BlockIn(longer, <<Len(h) + 1, b>>) = msg.blocks[b]
                     /\ IdIn(longer, <<Len(h) + 1, b>>) = msg.blocks[b].id
               /\ \A at \in PositionsOf(longer, types) :
                     \/ at \in PositionsOf(h, types)
                     \/ \E b \in 1 .. Len(msg.blocks) :
                           at = <<Len(h) + 1, b>> /\ msg.blocks[b].type \in types
<1> DEFINE longer == Append(h, msg)
           L == Len(h)
<1>1. longer \in Seq(ChatMessage) /\ Len(longer) = L + 1 /\ longer[L + 1] = msg /\ L \in Nat
  OBVIOUS
<1>2. \A m \in 1 .. L : longer[m] = h[m] /\ m \in 1 .. (L + 1) /\ m <= L
  OBVIOUS
<1>3. L + 1 \in 1 .. (L + 1) /\ \A m \in 1 .. (L + 1) : m # L + 1 => m \in 1 .. L
  BY <1>1
<1> HIDE DEF longer, L
<1>4. ASSUME NEW at \in PositionsOf(h, types)
      PROVE  /\ at \in PositionsOf(longer, types) /\ BlockIn(longer, at) = BlockIn(h, at)
             /\ IdIn(longer, at) = IdIn(h, at) /\ longer[at[1]] = h[at[1]] /\ at[1] <= L
  <2>1. /\ at[1] \in 1 .. L /\ at[2] \in 1 .. Len(h[at[1]].blocks) /\ at = <<at[1], at[2]>>
        /\ h[at[1]].blocks[at[2]].type \in types
    BY PositionsIn DEF L
  <2>2. longer[at[1]] = h[at[1]] /\ at[1] \in 1 .. Len(longer) /\ at[1] <= L
    BY <1>1, <1>2, <2>1
  <2>3. <<at[1], at[2]>> \in PositionsOf(longer, types)
    BY <1>1, <2>1, <2>2, PositionsIn
  <2> QED
    BY <2>1, <2>2, <2>3 DEF BlockIn, IdIn
<1>5. ASSUME NEW b \in 1 .. Len(msg.blocks)
      PROVE  /\ msg.blocks[b].type \in types => <<L + 1, b>> \in PositionsOf(longer, types)
             /\ BlockIn(longer, <<L + 1, b>>) = msg.blocks[b]
             /\ IdIn(longer, <<L + 1, b>>) = msg.blocks[b].id
  <2>1. <<L + 1, b>>[1] = L + 1 /\ <<L + 1, b>>[2] = b
    OBVIOUS
  <2>2. BlockIn(longer, <<L + 1, b>>) = msg.blocks[b] /\ IdIn(longer, <<L + 1, b>>) = msg.blocks[b].id
    BY <1>1, <2>1 DEF BlockIn, IdIn
  <2>3. msg.blocks[b].type \in types => <<L + 1, b>> \in PositionsOf(longer, types)
    BY <1>1, <1>3, PositionsIn
  <2> QED
    BY <2>2, <2>3
<1>6. ASSUME NEW at \in PositionsOf(longer, types)
      PROVE  \/ at \in PositionsOf(h, types)
             \/ \E b \in 1 .. Len(msg.blocks) : at = <<L + 1, b>> /\ msg.blocks[b].type \in types
  <2>1. /\ at[1] \in 1 .. (L + 1) /\ at[2] \in 1 .. Len(longer[at[1]].blocks) /\ at = <<at[1], at[2]>>
        /\ longer[at[1]].blocks[at[2]].type \in types
    BY <1>1, PositionsIn
  <2>2. CASE at[1] = L + 1
    BY <1>1, <2>1, <2>2
  <2>3. CASE at[1] # L + 1
    <3>1. at[1] \in 1 .. L
      BY <1>3, <2>1, <2>3
    <3>2. longer[at[1]] = h[at[1]] /\ at[1] \in 1 .. Len(h)
      BY <1>2, <3>1 DEF L
    <3>3. <<at[1], at[2]>> \in PositionsOf(h, types)
      BY <2>1, <3>2, PositionsIn
    <3> QED
      BY <2>1, <3>3
  <2> QED
    BY <2>2, <2>3
<1> QED
  BY <1>1, <1>2, <1>4, <1>5, <1>6 DEF longer, L

\* What a message keeps to that joins a history.
Joins(h, blocks, n) ==
    /\ Tidy(blocks)
    /\ \A b \in 1 .. Len(blocks) : blocks[b].type \in CallBlocks \cup ResultBlocks => blocks[b].id <= n
    /\ \A b \in 1 .. Len(blocks), types \in {CallBlocks, ResultBlocks} : blocks[b].type \in types =>
          \A at \in PositionsOf(h, types) : IdIn(h, at) # blocks[b].id
    /\ \A b \in 1 .. Len(blocks) : blocks[b].type \in ResultBlocks =>
          \/ \E u \in PositionsOf(h, {"tool_use"}) : IdIn(h, u) = blocks[b].id
          \/ \E d \in 1 .. Len(blocks) : d < b /\ blocks[d].type = "tool_use" /\ blocks[d].id = blocks[b].id
    /\ \A b \in 1 .. Len(blocks) : blocks[b].type = "tool_search_tool_result" =>
          \A u \in PositionsOf(h, {"tool_use"}) : IdIn(h, u) # blocks[b].id

\* Calls and results stay together when it does.
LEMMA HistoryGrows ==
    ASSUME NEW h \in Seq(ChatMessage), NEW msg \in ChatMessage, NEW k \in Nat, NEW n \in Nat, k <= n,
           Paired(h, k), SearchesAre(h, SearchFound), Joins(h, msg.blocks, n)
    PROVE  Paired(Append(h, msg), n) /\ SearchesAre(Append(h, msg), SearchFound)
<1> DEFINE longer == Append(h, msg)
           L == Len(h)
           blocks == msg.blocks
           New(b) == <<L + 1, b>>
<1>1. ASSUME NEW types
      PROVE  /\ \A at \in PositionsOf(h, types) :
                   /\ at \in PositionsOf(longer, types) /\ BlockIn(longer, at) = BlockIn(h, at)
                   /\ IdIn(longer, at) = IdIn(h, at) /\ at[1] <= L
             /\ \A b \in 1 .. Len(blocks) :
                   /\ blocks[b].type \in types => New(b) \in PositionsOf(longer, types)
                   /\ BlockIn(longer, New(b)) = blocks[b] /\ IdIn(longer, New(b)) = blocks[b].id
                   /\ New(b)[1] = L + 1 /\ New(b)[2] = b
             /\ \A at \in PositionsOf(longer, types) :
                   \/ at \in PositionsOf(h, types)
                   \/ \E b \in 1 .. Len(blocks) : at = New(b) /\ blocks[b].type \in types
  BY AppendedPositions
<1>2. L \in Nat /\ blocks \in Seq(MessageBlock)
  BY DEF ChatMessage
<1>3. \A types : \A at \in PositionsOf(h, types) : at[1] \in Nat /\ IdIn(h, at) \in Nat
  BY PositionsIn
<1> HIDE DEF longer, L, blocks, New
<1>4. ASSUME NEW types \in {CallBlocks, ResultBlocks}, NEW p \in PositionsOf(longer, types),
             NEW q \in PositionsOf(longer, types), IdIn(longer, p) = IdIn(longer, q)
      PROVE  p = q
  <2>1. \A x, y \in PositionsOf(h, types) : IdIn(h, x) = IdIn(h, y) => x = y
    BY DEF Paired
  <2>2. \A b \in 1 .. Len(blocks) : blocks[b].type \in types =>
           \A at \in PositionsOf(h, types) : IdIn(h, at) # blocks[b].id
    BY DEF Joins, blocks
  <2>3. \A b, d \in 1 .. Len(blocks) :
           blocks[b].type \in types /\ blocks[d].type \in types /\ blocks[b].id = blocks[d].id => b = d
    BY DEF Joins, Tidy, blocks
  <2>4. CASE p \in PositionsOf(h, types) /\ q \in PositionsOf(h, types)
    BY <1>1, <1>4, <2>1, <2>4
  <2>5. CASE p \in PositionsOf(h, types) /\ q \notin PositionsOf(h, types)
    <3>1. PICK b \in 1 .. Len(blocks) : q = New(b) /\ blocks[b].type \in types
      BY <1>1, <2>5
    <3> QED
      BY <1>1, <1>4, <2>2, <2>5, <3>1
  <2>6. CASE p \notin PositionsOf(h, types) /\ q \in PositionsOf(h, types)
    <3>1. PICK b \in 1 .. Len(blocks) : p = New(b) /\ blocks[b].type \in types
      BY <1>1, <2>6
    <3> QED
      BY <1>1, <1>4, <2>2, <2>6, <3>1
  <2>7. CASE p \notin PositionsOf(h, types) /\ q \notin PositionsOf(h, types)
    <3>1. PICK b \in 1 .. Len(blocks) : p = New(b) /\ blocks[b].type \in types
      BY <1>1, <2>7
    <3>2. PICK d \in 1 .. Len(blocks) : q = New(d) /\ blocks[d].type \in types
      BY <1>1, <2>7
    <3>3. blocks[b].id = blocks[d].id
      BY <1>1, <1>4, <3>1, <3>2
    <3> QED
      BY <2>3, <3>1, <3>2, <3>3
  <2> QED
    BY <2>4, <2>5, <2>6, <2>7
<1>5. ASSUME NEW r \in PositionsOf(longer, ResultBlocks)
      PROVE  \E u \in PositionsOf(longer, {"tool_use"}) : Precedes(u, r) /\ IdIn(longer, u) = IdIn(longer, r)
  <2>1. CASE r \in PositionsOf(h, ResultBlocks)
    <3>1. PICK u \in PositionsOf(h, {"tool_use"}) : Precedes(u, r) /\ IdIn(h, u) = IdIn(h, r)
      BY <2>1 DEF Paired
    <3> QED
      BY <1>1, <2>1, <3>1
  <2>2. CASE r \notin PositionsOf(h, ResultBlocks)
    <3>1. PICK b \in 1 .. Len(blocks) : r = New(b) /\ blocks[b].type \in ResultBlocks
      BY <1>1, <2>2
    <3>2. r[1] = L + 1 /\ r[2] = b /\ IdIn(longer, r) = blocks[b].id
      BY <1>1, <3>1
    <3>3. \/ \E u \in PositionsOf(h, {"tool_use"}) : IdIn(h, u) = blocks[b].id
          \/ \E d \in 1 .. Len(blocks) : d < b /\ blocks[d].type = "tool_use" /\ blocks[d].id = blocks[b].id
      BY <3>1 DEF Joins, blocks
    <3>4. ASSUME NEW u \in PositionsOf(h, {"tool_use"}), IdIn(h, u) = blocks[b].id
          PROVE  u \in PositionsOf(longer, {"tool_use"}) /\ Precedes(u, r) /\ IdIn(longer, u) = IdIn(longer, r)
      <4>1. u[1] <= L /\ u[1] \in Nat
        BY <1>1, <1>3
      <4>2. u[1] < r[1]
        BY <1>2, <3>2, <4>1
      <4> QED
        BY <1>1, <3>2, <3>4, <4>2 DEF Precedes
    <3>5. ASSUME NEW d \in 1 .. Len(blocks), d < b, blocks[d].type = "tool_use", blocks[d].id = blocks[b].id
          PROVE  /\ New(d) \in PositionsOf(longer, {"tool_use"}) /\ Precedes(New(d), r)
                 /\ IdIn(longer, New(d)) = IdIn(longer, r)
      BY <1>1, <3>2, <3>5 DEF Precedes
    <3> QED
      BY <3>3, <3>4, <3>5
  <2> QED
    BY <2>1, <2>2
<1>6. ASSUME NEW at \in PositionsOf(longer, CallBlocks \cup ResultBlocks)
      PROVE  IdIn(longer, at) <= n /\ Belongs(BlockIn(longer, at))
  <2> DEFINE types == CallBlocks \cup ResultBlocks
  <2>1. CASE at \in PositionsOf(h, types)
    <3>1. IdIn(h, at) <= k /\ Belongs(BlockIn(h, at)) /\ IdIn(h, at) \in Nat
      BY <1>3, <2>1 DEF Paired
    <3>2. IdIn(h, at) <= n
      BY <3>1
    <3> QED
      BY <1>1, <2>1, <3>1, <3>2
  <2>2. CASE at \notin PositionsOf(h, types)
    <3>1. PICK b \in 1 .. Len(blocks) : at = New(b) /\ blocks[b].type \in types
      BY <1>1, <2>2
    <3>2. blocks[b].id <= n /\ Belongs(blocks[b])
      BY <3>1 DEF Joins, Tidy, blocks
    <3> QED
      BY <1>1, <3>1, <3>2
  <2> QED
    BY <2>1, <2>2
<1>7. ASSUME NEW r \in PositionsOf(longer, {"tool_search_tool_result"}),
             NEW u \in PositionsOf(longer, {"tool_use"}), IdIn(longer, u) = IdIn(longer, r)
      PROVE  SearchFound(BlockIn(longer, u))
  <2>0. "tool_search_tool_result" \in ResultBlocks /\ "tool_use" \in CallBlocks
    BY DEF ResultBlocks, CallBlocks
  <2>1. CASE r \in PositionsOf(h, {"tool_search_tool_result"}) /\ u \in PositionsOf(h, {"tool_use"})
    BY <1>1, <1>7, <2>1 DEF SearchesAre
  <2>2. CASE r \in PositionsOf(h, {"tool_search_tool_result"}) /\ u \notin PositionsOf(h, {"tool_use"})
    <3>1. PICK b \in 1 .. Len(blocks) : u = New(b) /\ blocks[b].type = "tool_use"
      BY <1>1, <2>2
    <3>2. r \in PositionsOf(h, ResultBlocks)
      BY <2>0, <2>2 DEF PositionsOf
    <3>3. PICK v \in PositionsOf(h, {"tool_use"}) : IdIn(h, v) = IdIn(h, r)
      BY <3>2 DEF Paired
    <3>4. v \in PositionsOf(h, CallBlocks)
      BY <2>0, <3>3 DEF PositionsOf
    <3>5. IdIn(h, v) # blocks[b].id
      BY <2>0, <3>1, <3>4 DEF Joins, blocks
    <3> QED
      BY <1>1, <1>7, <2>2, <3>1, <3>3, <3>5
  <2>3. CASE r \notin PositionsOf(h, {"tool_search_tool_result"}) /\ u \in PositionsOf(h, {"tool_use"})
    <3>1. PICK b \in 1 .. Len(blocks) : r = New(b) /\ blocks[b].type = "tool_search_tool_result"
      BY <1>1, <2>3
    <3>2. IdIn(h, u) # blocks[b].id
      BY <2>3, <3>1 DEF Joins, blocks
    <3> QED
      BY <1>1, <1>7, <2>3, <3>1, <3>2
  <2>4. CASE r \notin PositionsOf(h, {"tool_search_tool_result"}) /\ u \notin PositionsOf(h, {"tool_use"})
    <3>1. PICK b \in 1 .. Len(blocks) : r = New(b) /\ blocks[b].type = "tool_search_tool_result"
      BY <1>1, <2>4
    <3>2. PICK d \in 1 .. Len(blocks) : u = New(d) /\ blocks[d].type = "tool_use"
      BY <1>1, <2>4
    <3>3. blocks[b].id = blocks[d].id
      BY <1>1, <1>7, <3>1, <3>2
    <3>4. SearchFound(blocks[d])
      BY <3>1, <3>2, <3>3 DEF Joins, Tidy, blocks
    <3> QED
      BY <1>1, <3>2, <3>4
  <2> QED
    BY <2>1, <2>2, <2>3, <2>4
<1>8. Paired(longer, n)
  BY <1>4, <1>5, <1>6, Zenon DEF Paired
<1>9. SearchesAre(longer, SearchFound)
  BY <1>7, Zenon DEF SearchesAre
<1> QED
  BY <1>8, <1>9 DEF longer

-----------------------------------------------------------------------------
(* What holds of the calls in every history                                 *)

\* The user's results are for the calls that wait, each once.
LEMMA EachOnce ==
    ASSUME history \in Seq(ChatMessage), NEW calls \in SetToSeqs(Pending)
    PROVE  /\ calls \in Seq(Pending) /\ Pending \subseteq Nat \ {0}
           /\ \A j, k \in 1 .. Len(calls) : calls[j] = calls[k] => j = k
           /\ \A id \in Pending : \E k \in 1 .. Len(calls) : calls[k] = id
<1> DEFINE n == Cardinality(Pending)
           D == 1 .. n
<1>1. Pending \subseteq Nat \ {0} /\ IsFiniteSet(Pending) /\ n \in Nat
  BY PendingCalls
<1>2. calls \in [D -> Pending] /\ \A i, j \in D : i # j => calls[i] # calls[j]
  BY DEF SetToSeqs
<1>3. calls \in Seq(Pending) /\ Len(calls) = n
  BY <1>1, <1>2
<1>4. calls \in Injection(D, Pending)
  BY <1>2 DEF Injection, IsInjective
<1>5. Cardinality(D) = n
  BY <1>1, FS_Interval
<1> HIDE DEF D
<1>6. calls \in Surjection(D, Pending)
  BY <1>1, <1>4, <1>5, FS_Injection
<1>7. \A id \in Pending : \E k \in D : calls[k] = id
  BY <1>6 DEF Surjection
<1> QED
  BY <1>1, <1>2, <1>3, <1>7 DEF D

\* The blocks of the last message.
LEMMA LastCalls ==
    ASSUME history \in Seq(ChatMessage), history # << >>, NEW types
    PROVE  \A id : id \in CallsOf(types) <=>
              \E at \in PositionsOf(history, types) : at[1] = Len(history) /\ IdIn(history, at) = id
<1> DEFINE L == Len(history)
           blocks == history[L].blocks
<1>1. L \in Nat /\ L \in 1 .. L /\ Last(history) = history[L] /\ history[L] \in ChatMessage
  BY DEF Last
<1>2. blocks \in Seq(MessageBlock)
  <2> DEFINE msg == history[L]
  <2>1. msg \in ChatMessage
    BY <1>1
  <2> HIDE DEF msg
  <2>2. msg.blocks \in Seq(MessageBlock)
    BY <2>1 DEF ChatMessage
  <2> QED
    BY <2>2 DEF msg
<1>3. DOMAIN blocks = 1 .. Len(blocks)
  BY <1>2
<1>4. CallsOf(types) = {blocks[k].id : k \in {j \in 1 .. Len(blocks) : blocks[j].type \in types}}
  BY <1>1, <1>3 DEF CallsOf
<1>5. ASSUME NEW k \in 1 .. Len(blocks), blocks[k].type \in types
      PROVE  \E at \in PositionsOf(history, types) : at[1] = L /\ IdIn(history, at) = blocks[k].id
  <2>1. <<L, k>> \in PositionsOf(history, types)
    BY <1>1, <1>5, PositionsIn
  <2>2. <<L, k>>[1] = L /\ <<L, k>>[2] = k
    OBVIOUS
  <2>3. IdIn(history, <<L, k>>) = blocks[k].id
    BY <2>2 DEF IdIn, BlockIn
  <2> QED
    BY <2>1, <2>2, <2>3
<1>6. ASSUME NEW at \in PositionsOf(history, types), at[1] = L
      PROVE  \E k \in 1 .. Len(blocks) : blocks[k].type \in types /\ IdIn(history, at) = blocks[k].id
  <2>1. /\ at[2] \in 1 .. Len(history[at[1]].blocks) /\ BlockIn(history, at) = history[at[1]].blocks[at[2]]
        /\ BlockIn(history, at).type \in types /\ IdIn(history, at) = BlockIn(history, at).id
    BY PositionsIn
  <2> QED
    BY <1>6, <2>1
<1> HIDE DEF blocks
<1>7. \A id : id \in CallsOf(types) <=> \E k \in 1 .. Len(blocks) : blocks[k].type \in types /\ blocks[k].id = id
  BY <1>4
<1> QED
  BY <1>5, <1>6, <1>7 DEF L

\* A call that waits has no result anywhere, and a last call without one waits.
LEMMA PendingOnes ==
    ASSUME history \in Seq(ChatMessage), NEW n, Paired(history, n)
    PROVE  /\ \A id \in Pending :
                 /\ \E u \in PositionsOf(history, {"tool_use"}) : IdIn(history, u) = id
                 /\ \A r \in PositionsOf(history, ResultBlocks) : IdIn(history, r) # id
           /\ \A u \in PositionsOf(history, {"tool_use"}) :
                 Waits(history, u) => IdIn(history, u) \in Pending \/ Answered(history, u)
<1> DEFINE L == Len(history)
<1>1. \A types : \A at \in PositionsOf(history, types) : at[1] \in 1 .. L /\ at[2] \in Nat
  BY PositionsIn
<1>2. L \in Nat
  OBVIOUS
<1> HIDE DEF L
<1>3. ASSUME NEW id \in Pending
      PROVE  /\ \E u \in PositionsOf(history, {"tool_use"}) : IdIn(history, u) = id
             /\ \A r \in PositionsOf(history, ResultBlocks) : IdIn(history, r) # id
  <2>1. history # << >> /\ id \in CallsOf({"tool_use"}) /\ id \notin CallsOf(ResultBlocks)
    BY <1>3 DEF Pending, ResultBlocks
  <2>2. PICK u \in PositionsOf(history, {"tool_use"}) : u[1] = L /\ IdIn(history, u) = id
    BY <2>1, LastCalls DEF L
  <2>3. ASSUME NEW r \in PositionsOf(history, ResultBlocks), IdIn(history, r) = id
        PROVE  FALSE
    <3>1. PICK v \in PositionsOf(history, {"tool_use"}) : Precedes(v, r) /\ IdIn(history, v) = IdIn(history, r)
      BY DEF Paired
    <3>2. u \in PositionsOf(history, CallBlocks) /\ v \in PositionsOf(history, CallBlocks)
      BY DEF PositionsOf, CallBlocks
    <3>3. u = v
      BY <2>2, <2>3, <3>1, <3>2 DEF Paired
    <3>4. Precedes(u, r) /\ r[1] \in 1 .. L
      BY <1>1, <3>1, <3>3
    <3>5. r[1] = L
      BY <1>2, <2>2, <3>4 DEF Precedes
    <3> QED
      BY <2>1, <2>3, <3>5, LastCalls DEF L
  <2> QED
    BY <2>2, <2>3
<1>4. ASSUME NEW u \in PositionsOf(history, {"tool_use"}), Waits(history, u)
      PROVE  IdIn(history, u) \in Pending \/ Answered(history, u)
  <2>1. u[1] = L /\ history[L].stop = "tool_use"
    BY <1>4 DEF Waits, L
  <2>2. history # << >> /\ Last(history) = history[L]
    BY <1>1, <1>2, <2>1 DEF Last, L
  <2>3. IdIn(history, u) \in CallsOf({"tool_use"})
    BY <2>1, <2>2, LastCalls DEF L
  <2>4. IdIn(history, u) \in CallsOf(ResultBlocks) => Answered(history, u)
    BY <2>2, LastCalls DEF Answered
  <2> QED
    BY <2>1, <2>2, <2>3, <2>4 DEF Pending, ResultBlocks
<1> QED
  BY <1>3, <1>4

\* A call that has its result, or needs none, stays so.
LEMMA SettledStays ==
    ASSUME NEW h \in Seq(ChatMessage), NEW msg \in ChatMessage, NEW u \in PositionsOf(h, {"tool_use"})
    PROVE  /\ Answered(h, u) => Answered(Append(h, msg), u)
           /\ Listed(h, u) => Listed(Append(h, msg), u)
<1> DEFINE longer == Append(h, msg)
<1>0. ASSUME NEW types, NEW at \in PositionsOf(h, types)
      PROVE  /\ at \in PositionsOf(longer, types) /\ BlockIn(longer, at) = BlockIn(h, at)
             /\ IdIn(longer, at) = IdIn(h, at) /\ longer[at[1]] = h[at[1]]
  <2>1. at \in PositionsOf(longer, types) /\ BlockIn(longer, at) = BlockIn(h, at) /\ IdIn(longer, at) = IdIn(h, at)
    BY AppendedPositions
  <2>2. at[1] \in 1 .. Len(h)
    BY PositionsIn
  <2> QED
    BY <2>1, <2>2
<1>1. BlockIn(longer, u) = BlockIn(h, u) /\ IdIn(longer, u) = IdIn(h, u) /\ longer[u[1]] = h[u[1]]
  BY <1>0
<1>2. \A r \in PositionsOf(h, ResultBlocks) :
         r \in PositionsOf(longer, ResultBlocks) /\ IdIn(longer, r) = IdIn(h, r)
  BY <1>0
<1> HIDE DEF longer
<1>3. Answered(h, u) => Answered(longer, u)
  BY <1>1, <1>2 DEF Answered
<1>4. Listed(h, u) => Listed(longer, u)
  BY <1>1 DEF Listed
<1> QED
  BY <1>3, <1>4 DEF longer

\* The user's message answers every call that waits.
LEMMA AskKeepsCalls ==
    ASSUME TypeOK, CallsTogether, Ask
    PROVE  CallsTogether'
<1>0. history \in Seq(ChatMessage) /\ deeds \in Nat /\ turn = "client"
  BY DEF TypeOK, Ask
<1>1. PICK calls \in SetToSeqs(Pending), body \in {"some", "string", "malformed"}, more \in Extras :
         history' = Append(history, UserMessage([k \in DOMAIN calls |-> Result(calls[k], body)] \o more))
  BY DEF Ask
<1> DEFINE results == [k \in DOMAIN calls |-> Result(calls[k], body)]
           N == Len(calls)
           M == Len(more)
           blocks == results \o more
           msg == UserMessage(blocks)
<1>2. /\ calls \in Seq(Pending) /\ Pending \subseteq Nat \ {0}
      /\ \A j, k \in 1 .. N : calls[j] = calls[k] => j = k
      /\ \A id \in Pending : \E k \in 1 .. N : calls[k] = id
  BY <1>0, EachOnce
<1>3. more \in Seq(MessageBlock) /\ \A k \in 1 .. M : more[k].type \notin CallBlocks \cup ResultBlocks
  <2>1. more \in Seq(MessageBlock)
    BY ConversationAssumption
  <2>2. DOMAIN more = 1 .. M
    BY <2>1
  <2> QED
    BY <2>1, <2>2, CallAssumption
<1>4. /\ DOMAIN calls = 1 .. N /\ N \in Nat /\ M \in Nat
      /\ \A k \in 1 .. N : Result(calls[k], body).type = "tool_result" /\ Result(calls[k], body).id = calls[k]
  BY <1>2, <1>3 DEF Result
<1>5. msg \in ChatMessage /\ history' = Append(history, msg) /\ msg.blocks = blocks /\ blocks \in Seq(MessageBlock)
  <2>1. history' = Append(history, msg)
    BY <1>1
  <2>2. history' \in Seq(ChatMessage)
    BY AskTyped DEF TypeOK
  <2>3. msg \in ChatMessage
    <3> HIDE DEF msg
    <3>1. Len(history) + 1 \in 1 .. Len(Append(history, msg)) /\ Append(history, msg)[Len(history) + 1] = msg
      BY <1>0
    <3> QED
      BY <2>1, <2>2, <3>1
  <2>4. msg.blocks = blocks
    BY DEF UserMessage
  <2>5. blocks \in Seq(MessageBlock)
    BY <2>3, <2>4 DEF ChatMessage
  <2> QED
    BY <2>1, <2>3, <2>4, <2>5
<1>6. /\ Len(blocks) = N + M
      /\ \A k \in 1 .. N : blocks[k] = Result(calls[k], body) /\ k \in 1 .. (N + M)
      /\ \A k \in 1 .. M : blocks[N + k] = more[k]
  <2>1. results \in Seq({Result(id, body) : id \in Pending}) /\ Len(results) = N
        /\ \A k \in 1 .. N : results[k] = Result(calls[k], body)
    BY <1>2, <1>4
  <2> HIDE DEF results
  <2> DEFINE T == {Result(id, body) : id \in Pending} \cup MessageBlock
  <2>2. results \in Seq(T) /\ more \in Seq(T)
    BY <1>3, <2>1
  <2> HIDE DEF T
  <2>3. /\ Len(blocks) = N + M /\ \A k \in 1 .. N : blocks[k] = results[k]
        /\ \A k \in 1 .. M : blocks[N + k] = more[k]
    BY <2>1, <2>2
  <2> QED
    BY <1>4, <2>1, <2>3
<1> HIDE DEF blocks, msg, results
<1>7. ASSUME NEW b \in 1 .. Len(blocks), blocks[b].type \in CallBlocks \cup ResultBlocks
      PROVE  b \in 1 .. N /\ blocks[b].type = "tool_result" /\ blocks[b].id = calls[b] /\ calls[b] \in Pending
  <2>1. b \in 1 .. N
    <3>1. ASSUME b \notin 1 .. N
          PROVE  FALSE
      <4>1. b - N \in 1 .. M /\ b = N + (b - N)
        BY <1>4, <1>6, <3>1
      <4>2. blocks[b] = more[b - N]
        BY <1>6, <4>1
      <4> QED
        BY <1>3, <1>7, <4>1, <4>2
    <3> QED
      BY <3>1
  <2> QED
    BY <1>2, <1>4, <1>6, <2>1
<1>8. /\ \A id \in Pending : /\ \E u \in PositionsOf(history, {"tool_use"}) : IdIn(history, u) = id
                             /\ \A r \in PositionsOf(history, ResultBlocks) : IdIn(history, r) # id
      /\ \A u \in PositionsOf(history, {"tool_use"}) :
            Waits(history, u) => IdIn(history, u) \in Pending \/ Answered(history, u)
  BY <1>0, PendingOnes DEF CallsTogether
<1>9. Joins(history, blocks, deeds)
  <2>1. Tidy(blocks)
    <3>1. ASSUME NEW b \in 1 .. Len(blocks), NEW d \in 1 .. Len(blocks), NEW types \in {CallBlocks, ResultBlocks},
                 blocks[b].type \in types, blocks[d].type \in types, blocks[b].id = blocks[d].id
          PROVE  b = d
      BY <1>2, <1>7, <3>1
    <3>2. ASSUME NEW b \in 1 .. Len(blocks)
          PROVE  Belongs(blocks[b])
      <4>1. CASE blocks[b].type \in CallBlocks \cup ResultBlocks
        BY <1>7, <4>1 DEF Belongs
      <4>2. CASE blocks[b].type \notin CallBlocks \cup ResultBlocks
        BY <4>2 DEF Belongs, CallBlocks, ResultBlocks
      <4> QED
        BY <4>1, <4>2
    <3>3. \A b \in 1 .. Len(blocks) : blocks[b].type # "tool_search_tool_result"
      BY <1>7 DEF ResultBlocks
    <3> QED
      BY <3>1, <3>2, <3>3, Zenon DEF Tidy
  <2>2. ASSUME NEW b \in 1 .. Len(blocks), blocks[b].type \in CallBlocks \cup ResultBlocks
        PROVE  blocks[b].id <= deeds
    <3>1. PICK u \in PositionsOf(history, {"tool_use"}) : IdIn(history, u) = blocks[b].id
      BY <1>7, <1>8, <2>2
    <3>2. u \in PositionsOf(history, CallBlocks \cup ResultBlocks)
      BY <3>1 DEF PositionsOf, CallBlocks
    <3> QED
      BY <3>1, <3>2 DEF CallsTogether, Paired
  <2>3. ASSUME NEW b \in 1 .. Len(blocks), NEW types \in {CallBlocks, ResultBlocks}, blocks[b].type \in types,
               NEW at \in PositionsOf(history, types)
        PROVE  IdIn(history, at) # blocks[b].id
    <3>1. blocks[b].type = "tool_result" /\ blocks[b].id \in Pending
      BY <1>7, <2>3
    <3>2. types = ResultBlocks
      BY <2>3, <3>1 DEF CallBlocks
    <3> QED
      BY <1>8, <3>1, <3>2
  <2>4. ASSUME NEW b \in 1 .. Len(blocks), blocks[b].type \in ResultBlocks
        PROVE  \E u \in PositionsOf(history, {"tool_use"}) : IdIn(history, u) = blocks[b].id
    BY <1>7, <1>8, <2>4
  <2>5. \A b \in 1 .. Len(blocks) : blocks[b].type # "tool_search_tool_result"
    BY <1>7 DEF ResultBlocks
  <2> QED
    BY <2>1, <2>2, <2>3, <2>4, <2>5, Zenon DEF Joins
<1> DEFINE longer == Append(history, msg)
<1>10. Paired(longer, deeds) /\ SearchesAre(longer, SearchFound)
  BY <1>0, <1>5, <1>9, HistoryGrows DEF CallsTogether
<1>11. ASSUME NEW types
       PROVE  /\ \A at \in PositionsOf(history, types) : IdIn(longer, at) = IdIn(history, at)
              /\ \A b \in 1 .. Len(blocks) :
                    /\ blocks[b].type \in types => <<Len(history) + 1, b>> \in PositionsOf(longer, types)
                    /\ IdIn(longer, <<Len(history) + 1, b>>) = blocks[b].id
              /\ \A at \in PositionsOf(longer, types) :
                    \/ at \in PositionsOf(history, types)
                    \/ \E b \in 1 .. Len(blocks) : at = <<Len(history) + 1, b>> /\ blocks[b].type \in types
  <2>1. history \in Seq(ChatMessage) /\ msg \in ChatMessage
    BY <1>0, <1>5
  <2>2. msg.blocks = blocks
    BY <1>5
  <2> HIDE DEF msg, blocks
  <2> QED
    BY <2>1, <2>2, AppendedPositions
<1>12. ASSUME NEW u \in PositionsOf(longer, {"tool_use"})
       PROVE  Answered(longer, u) \/ Listed(longer, u)
  <2>1. u \in PositionsOf(history, {"tool_use"})
    BY <1>7, <1>11 DEF CallBlocks
  <2>2. /\ Answered(history, u) => Answered(longer, u)
        /\ Listed(history, u) => Listed(longer, u)
    BY <1>0, <1>5, <2>1, SettledStays
  <2>3. \/ Answered(history, u) \/ Listed(history, u)
        \/ IdIn(history, u) \in Pending
    BY <1>8, <2>1 DEF CallsTogether
  <2>4. ASSUME IdIn(history, u) \in Pending
        PROVE  Answered(longer, u)
    <3>1. PICK k \in 1 .. N : calls[k] = IdIn(history, u)
      BY <1>2, <2>4
    <3>2. k \in 1 .. Len(blocks) /\ blocks[k].type \in ResultBlocks /\ blocks[k].id = IdIn(history, u)
      BY <1>4, <1>6, <3>1 DEF ResultBlocks
    <3>3. /\ <<Len(history) + 1, k>> \in PositionsOf(longer, ResultBlocks)
          /\ IdIn(longer, <<Len(history) + 1, k>>) = blocks[k].id
      BY <1>11, <3>2
    <3>4. IdIn(longer, u) = IdIn(history, u)
      BY <1>11, <2>1
    <3> QED
      BY <3>2, <3>3, <3>4 DEF Answered
  <2> QED
    BY <2>2, <2>3, <2>4
<1>13. history' = longer /\ deeds' = deeds /\ client' = client
  BY <1>5 DEF Ask
<1> HIDE DEF longer
<1>14. SearchesAre(history, SearchFound)'
  BY <1>10, <1>13 DEF SearchesAre, SearchFound
<1>15. Paired(history, deeds)'
  BY <1>10, <1>13
<1>16. \A u \in PositionsOf(history', {"tool_use"}) : Answered(history', u) \/ Listed(history', u)
  BY <1>12, <1>13
<1> QED
  BY <1>14, <1>15, <1>16 DEF CallsTogether

\* An answer's calls wait for the client, or have their results, or need none.
LEMMA AnswerKeepsCalls ==
    ASSUME TypeOK, CallsTogether, Answer
    PROVE  CallsTogether'
<1>0. /\ strict \in BOOLEAN /\ client \in {"all", "documented", "plain"} /\ history \in Seq(ChatMessage)
      /\ deeds \in Nat /\ turn = "upstream" /\ turn' = "client" /\ client' = client
  BY ConversationAssumption DEF TypeOK, Answer
<1>1. PICK n \in 1..2, streamed \in BOOLEAN :
         /\ \E done \in [1..n -> Deeds] :
               LET output == OutputOf(done, n)
                   blocks == contentOf(output, streamed)
               IN  history' = Append(history,
                        [role |-> "assistant", blocks |-> [k \in DOMAIN blocks |-> kept(blocks[k])],
                         stop |-> stopReason(output, streamed), output |-> output,
                         streamed |-> streamed])
         /\ deeds' = deeds + n
  BY DEF Answer, OutputOf
<1>2. PICK done \in [1..n -> Deeds] :
         LET output == OutputOf(done, n)
             blocks == contentOf(output, streamed)
         IN  history' = Append(history,
                  [role |-> "assistant", blocks |-> [k \in DOMAIN blocks |-> kept(blocks[k])],
                   stop |-> stopReason(output, streamed), output |-> output,
                   streamed |-> streamed])
  BY <1>1
<1> DEFINE output == OutputOf(done, n)
           content == contentOf(output, streamed)
           blocks == [k \in DOMAIN content |-> kept(content[k])]
           stop == stopReason(output, streamed)
           msg == [role |-> "assistant", blocks |-> blocks, stop |-> stop, output |-> output,
                   streamed |-> streamed]
           L == Len(history)
           longer == Append(history, msg)
<1>3. /\ output \in Seq(AnswerItem) /\ CallsApart(output)
      /\ \A k \in 1 .. Len(output) :
            output[k].id \in Nat /\ output[k].id > deeds /\ output[k].id <= deeds + n
  BY <1>0, OutputApart
<1> HIDE DEF output
<1>4. history' = longer
  BY <1>2 DEF output
<1>5. AnswerKept(blocks, output, streamed)
  BY <1>0, <1>3, AnswerTidy
<1> HIDE DEF blocks
<1>6. msg.blocks = blocks /\ msg.stop = stop /\ msg.output = output
  OBVIOUS
<1> HIDE DEF msg
<1>7. msg \in ChatMessage /\ longer[L + 1] = msg
  <2>1. history' \in Seq(ChatMessage)
    BY AnswerTyped DEF TypeOK
  <2>2. L + 1 \in 1 .. Len(longer) /\ longer[L + 1] = msg
    BY <1>0
  <2> QED
    BY <1>4, <2>1, <2>2
<1>8. ASSUME NEW b \in 1 .. Len(blocks), blocks[b].type \in CallBlocks \cup ResultBlocks
      PROVE  blocks[b].id \in Nat /\ blocks[b].id > deeds /\ blocks[b].id <= deeds + n
  <2>1. PICK k \in 1 .. Len(output) : blocks[b].id = output[k].id
    BY <1>5, <1>8, Zenon DEF AnswerKept
  <2> QED
    BY <1>3, <2>1
<1>9. ASSUME NEW at \in PositionsOf(history, CallBlocks \cup ResultBlocks)
      PROVE  IdIn(history, at) \in Nat /\ IdIn(history, at) <= deeds
  BY <1>0, PositionsIn DEF CallsTogether, Paired
<1>10. ASSUME NEW types \in SUBSET (CallBlocks \cup ResultBlocks), NEW at \in PositionsOf(history, types),
              NEW b \in 1 .. Len(blocks), blocks[b].type \in CallBlocks \cup ResultBlocks
       PROVE  IdIn(history, at) # blocks[b].id
  <2>1. at \in PositionsOf(history, CallBlocks \cup ResultBlocks)
    BY DEF PositionsOf
  <2> QED
    BY <1>0, <1>8, <1>9, <1>10, <2>1
<1>11. Joins(history, blocks, deeds + n)
  <2>1. Tidy(blocks)
    BY <1>5 DEF AnswerKept
  <2>2. \A b \in 1 .. Len(blocks) : blocks[b].type \in CallBlocks \cup ResultBlocks => blocks[b].id <= deeds + n
    BY <1>8
  <2>3. \A b \in 1 .. Len(blocks), types \in {CallBlocks, ResultBlocks} : blocks[b].type \in types =>
           \A at \in PositionsOf(history, types) : IdIn(history, at) # blocks[b].id
    <3>1. \A types \in {CallBlocks, ResultBlocks} : types \in SUBSET (CallBlocks \cup ResultBlocks)
      OBVIOUS
    <3> QED
      BY <1>10, <3>1
  <2>4. \A b \in 1 .. Len(blocks) : blocks[b].type \in ResultBlocks =>
           \E d \in 1 .. Len(blocks) : d < b /\ blocks[d].type = "tool_use" /\ blocks[d].id = blocks[b].id
    BY <1>5 DEF AnswerKept
  <2>5. \A b \in 1 .. Len(blocks) : blocks[b].type = "tool_search_tool_result" =>
           \A u \in PositionsOf(history, {"tool_use"}) : IdIn(history, u) # blocks[b].id
    <3>1. {"tool_use"} \in SUBSET (CallBlocks \cup ResultBlocks)
      BY DEF CallBlocks
    <3> QED
      BY <1>10, <3>1 DEF ResultBlocks
  <2> QED
    BY <2>1, <2>2, <2>3, <2>4, <2>5, Zenon DEF Joins
<1>12. Paired(longer, deeds + n) /\ SearchesAre(longer, SearchFound)
  <2>1. deeds + n \in Nat /\ deeds <= deeds + n
    BY <1>0
  <2> HIDE DEF longer
  <2> QED
    BY <1>0, <1>6, <1>7, <1>11, <2>1, HistoryGrows DEF CallsTogether, longer
<1>13. ASSUME NEW u \in PositionsOf(longer, {"tool_use"})
       PROVE  Answered(longer, u) \/ Listed(longer, u) \/ Waits(longer, u)
  <2>1. CASE u \in PositionsOf(history, {"tool_use"})
    <3>1. Answered(history, u) \/ Listed(history, u)
      BY <1>0, <2>1 DEF CallsTogether
    <3> QED
      BY <1>0, <1>7, <2>1, <3>1, SettledStays
  <2>2. CASE u \notin PositionsOf(history, {"tool_use"})
    <3>1. PICK b \in 1 .. Len(blocks) : u = <<L + 1, b>> /\ blocks[b].type = "tool_use"
      BY <1>0, <1>6, <1>7, <2>2, AppendedPositions
    <3>2. /\ u[1] = L + 1 /\ longer[u[1]] = msg /\ Len(longer) = L + 1
          /\ BlockIn(longer, u) = blocks[b] /\ IdIn(longer, u) = blocks[b].id
      <4>1. u[1] = L + 1 /\ u[2] = b
        BY <3>1
      <4>2. longer[u[1]] = msg /\ Len(longer) = L + 1
        BY <1>0, <1>7, <4>1
      <4> HIDE DEF longer, L
      <4> QED
        BY <1>6, <4>1, <4>2 DEF BlockIn, IdIn
    <3> HIDE DEF longer, L, stop
    <3>3. \/ stop = "tool_use"
          \/ blocks[b].name = "other"
             /\ \E k \in DOMAIN output : output[k].type = "mcp_list_tools" /\ output[k].id = blocks[b].id
      BY <1>5, <3>1 DEF AnswerKept, stop
    <3>4. CASE stop = "tool_use"
      BY <1>6, <3>2, <3>4 DEF Waits
    <3>5. CASE stop # "tool_use"
      BY <1>6, <3>2, <3>3, <3>5 DEF Listed
    <3> QED
      BY <3>4, <3>5
  <2> QED
    BY <2>1, <2>2
<1> HIDE DEF longer
<1>14. SearchesAre(history, SearchFound)'
  BY <1>0, <1>4, <1>12 DEF SearchesAre, SearchFound
<1>15. Paired(history, deeds)'
  BY <1>1, <1>4, <1>12
<1>16. \A u \in PositionsOf(history', {"tool_use"}) :
          Answered(history', u) \/ Listed(history', u) \/ Waits(history', u)
  BY <1>4, <1>13
<1> QED
  BY <1>0, <1>14, <1>15, <1>16 DEF CallsTogether

\* In every conversation the calls and the results fit each other, as long as the
\* upstream, the user and what was before the bridge keep theirs together
\* (CallAssumption): what the bridge makes of an answer, and what the client keeps
\* of it, leaves no call without its result and no result without its call.
THEOREM CallsStayTogether == Spec => []CallsTogether
<1>1. Init => CallsTogether
  <2> SUFFICES ASSUME Init
               PROVE  CallsTogether
    OBVIOUS
  <2>1. history \in Prior /\ deeds = Len(history) /\ turn = "client"
    BY DEF Init
  <2>2. /\ Paired(history, deeds) /\ SearchesAre(history, IsSearch)
        /\ \A u \in PositionsOf(history, {"tool_use"}) :
              Answered(history, u) \/ Listed(history, u) \/ Waits(history, u)
    BY <2>1, CallAssumption
  <2>3. SearchesAre(history, SearchFound)
    BY <2>2 DEF SearchesAre, SearchFound
  <2> QED
    BY <2>1, <2>2, <2>3 DEF CallsTogether
<1>2. TypeOK /\ CallsTogether /\ [Next]_vars => CallsTogether'
  <2> SUFFICES ASSUME TypeOK, CallsTogether, [Next]_vars
               PROVE  CallsTogether'
    OBVIOUS
  <2>1. CASE Ask
    BY <2>1, AskKeepsCalls
  <2>2. CASE Refuse
    <3>1. history' = history /\ deeds' = deeds /\ client' = client /\ turn = "upstream"
      BY <2>2 DEF Refuse
    <3>2. SearchesAre(history, SearchFound)'
      BY <3>1 DEF CallsTogether, SearchesAre, SearchFound
    <3>3. \A u \in PositionsOf(history', {"tool_use"}) : Answered(history', u) \/ Listed(history', u)
      BY <3>1 DEF CallsTogether
    <3>4. Paired(history, deeds)'
      BY <3>1 DEF CallsTogether
    <3> QED
      BY <3>2, <3>3, <3>4 DEF CallsTogether
  <2>3. CASE Answer
    BY <2>3, AnswerKeepsCalls
  <2>4. CASE UNCHANGED vars
    <3>1. history' = history /\ deeds' = deeds /\ client' = client /\ turn' = turn
      BY <2>4 DEF vars
    <3>2. SearchesAre(history, SearchFound)'
      BY <3>1 DEF CallsTogether, SearchesAre, SearchFound
    <3> QED
      BY <3>1, <3>2 DEF CallsTogether
  <2> QED
    BY <2>1, <2>2, <2>3, <2>4, Zenon DEF Next
<1> QED
  BY <1>1, <1>2, TypeCorrect, PTL DEF Spec

-----------------------------------------------------------------------------
(* The calls and the results in the input                                   *)

\* The output that toolResultToInputItem makes for a call remembered by this kind.
ResultType(kind) ==
    CASE kind = "tool_search"      -> "tool_search_output"
      [] kind = "custom_tool_call" -> "custom_tool_call_output"
      [] kind = "computer_call"    -> "computer_call_output"
      [] OTHER                     -> "function_call_output"

\* The types of calls, of outputs and of what is neither are apart.
LEMMA TypesApart ==
    /\ CallTypes \cap OutputTypes = {}
    /\ OutputTypes = {"tool_search_output", "custom_tool_call_output", "computer_call_output",
                      "function_call_output"}
    /\ {"message", "compaction", "image_generation_call", "unrecognized", "web_search_call", "error", None}
          \cap (CallTypes \cup OutputTypes) = {}
<1>1. \A type \in CallTypes : OutputType(type) \in {"tool_search_output", "custom_tool_call_output",
                                                      "computer_call_output", "function_call_output"}
  BY DEF CallTypes, OutputType
<1>2. /\ OutputType("tool_search_call") = "tool_search_output"
      /\ OutputType("custom_tool_call") = "custom_tool_call_output"
      /\ OutputType("computer_call") = "computer_call_output"
      /\ OutputType("function_call") = "function_call_output"
      /\ {"tool_search_call", "custom_tool_call", "computer_call", "function_call"} \subseteq CallTypes
  BY DEF CallTypes, OutputType
<1>3. OutputTypes = {"tool_search_output", "custom_tool_call_output", "computer_call_output",
                     "function_call_output"}
  BY <1>1, <1>2 DEF OutputTypes
<1>4. CallTypes \subseteq ItemTypes /\ OutputTypes \subseteq ItemTypes
  BY <1>3 DEF CallTypes, ItemTypes, SafeTypes, Kinds
<1> QED
  BY <1>3, <1>4, NoneDiffers, NotTypes DEF CallTypes

\* The kind a call is remembered by says what its result is to become, whatever the
\* client kept of it; a call that is one of a search becomes one.
LEMMA TypesMatch ==
    ASSUME strict \in BOOLEAN, NEW block \in Block, block.type = "tool_use", Belongs(block),
           toolUseBlockToInputItem(block) # Failure
    PROVE  /\ toolUseBlockToInputItem(block).type \in CallTypes
           /\ ResultType(toolUseKind(block)) = OutputType(toolUseBlockToInputItem(block).type)
           /\ IsSearch(block) => toolUseBlockToInputItem(block).type = "tool_search_call"
<1>1. block.kind \in Kinds \cup {None}
  BY DEF Block, BlockKinds
<1>2. CASE stored(block) = NoItem
  <2> DEFINE kind == toolUseKind(block)
             type == CASE kind = "local_shell_call" -> "local_shell_call"
                [] kind = "tool_search"      -> "tool_search_call"
                [] kind = "custom_tool_call" -> "custom_tool_call"
                [] kind = "file_search_call" -> "file_search_call"
                [] kind = "computer_call"    -> "computer_call"
                [] kind = "mcp_call"         -> "mcp_call"
                [] kind = "mcp_list_tools"   -> "mcp_list_tools"
                [] OTHER                     -> "function_call"
  <2>1. toolUseBlockToInputItem(block) = Item(type, block.id)
    <3>1. CASE kind = "local_shell_call" /\ block.body \notin Decoded
      <4>1. toolUseBlockToInputItem(block) = FailIfStrict(Item("local_shell_call", block.id))
        BY <1>2, <3>1 DEF toolUseBlockToInputItem
      <4>2. type = "local_shell_call"
        BY <3>1
      <4> HIDE DEF type
      <4> QED
        BY <4>1, <4>2 DEF FailIfStrict
    <3>2. CASE ~ (kind = "local_shell_call" /\ block.body \notin Decoded)
      BY <1>2, <3>2 DEF toolUseBlockToInputItem
    <3> QED
      BY <3>1, <3>2
  <2>2. toolUseBlockToInputItem(block).type = type
    BY <2>1 DEF Item
  <2>3. kind = normalizeUnsafeSpecialToolKind(IF block.kind = None THEN "function_call" ELSE block.kind)
    <3>1. NoItem.type \notin SafeTypes
      BY NotTypes DEF ItemTypes
    <3> QED
      BY <1>2, <3>1 DEF toolUseKind
  <2>4. kind \notin {"file_search_call", "computer_call", "mcp_call", "mcp_list_tools"}
    BY <2>3 DEF normalizeUnsafeSpecialToolKind
  <2>5. block.stored \notin SafeTypes
    <3>1. ASSUME block.stored \in SafeTypes
          PROVE  FALSE
      <4>1. stored(block) = Item(block.stored, block.id)
        BY <1>2, <3>1, StoredItem, NotTypes DEF ItemTypes
      <4>2. block.stored \notin {None, "error"}
        BY <3>1, NotTypes DEF ItemTypes
      <4> QED
        BY <1>2, <4>1, <4>2, ItemsDiffer
    <3> QED
      BY <3>1
  <2>6. block.stored # "tool_search_call"
    BY <2>5 DEF SafeTypes
  <2>7. IsSearch(block) => kind = "tool_search"
    <3>1. block.kind = "tool_search" => kind = "tool_search"
      BY <2>3, NoneDiffers DEF normalizeUnsafeSpecialToolKind
    <3> QED
      BY <2>6, <3>1 DEF IsSearch
  <2> HIDE DEF kind
  <2>8. type \in CallTypes
    BY DEF CallTypes
  <2>9. ResultType(kind) = OutputType(type)
    BY <2>4 DEF ResultType, OutputType
  <2>10. kind = "tool_search" => type = "tool_search_call"
    OBVIOUS
  <2> HIDE DEF type
  <2> QED
    BY <2>2, <2>7, <2>8, <2>9, <2>10 DEF kind
<1>3. CASE stored(block) # NoItem
  <2>1. toolUseBlockToInputItem(block) = stored(block)
    BY <1>3 DEF toolUseBlockToInputItem
  <2>2. block.stored \in SafeTypes /\ stored(block) = Item(block.stored, block.id)
    BY <1>3, <2>1, StoredItem
  <2>3. stored(block).type = block.stored
    BY <2>2 DEF Item
  <2>4. block.stored \in SafeTypes \cap CallTypes
    BY <2>2 DEF Belongs
  <2>5. block.stored \in {"function_call", "custom_tool_call", "local_shell_call", "tool_search_call"}
    BY <2>4 DEF SafeTypes, CallTypes
  <2>6. toolUseKind(block) = normalizedToolCallKind(block.stored)
    BY <2>2, <2>3 DEF toolUseKind
  <2>7. ResultType(normalizedToolCallKind(block.stored)) = OutputType(block.stored)
    BY <2>5 DEF ResultType, OutputType, normalizedToolCallKind
  <2>8. IsSearch(block) => block.stored = "tool_search_call"
    BY <2>2 DEF IsSearch
  <2> QED
    BY <2>1, <2>3, <2>4, <2>6, <2>7, <2>8
<1> QED
  BY <1>2, <1>3

\* The item a block becomes, and what is remembered of it.
Made(c, block, type, id, kinds) ==
    /\ block.type = "tool_use" =>
          /\ type = toolUseBlockToInputItem(block).type /\ type \in CallTypes /\ id = block.id
          /\ kinds = remember(c, block.id, toolUseKind(block)).kinds
    /\ block.type = "server_tool_use" => \E kind : kinds = remember(c, block.id, kind).kinds
    /\ block.type \notin CallBlocks => kinds = c.kinds
    /\ block.type = "tool_result" => type = ResultType(kindOf(c, block.id)) /\ id = block.id
    /\ block.type = "tool_search_tool_result" => type = "tool_search_output" /\ id = block.id
    /\ block.type \notin {"tool_use"} \cup ResultBlocks => type \notin CallTypes \cup OutputTypes

\* What comes of a block that is not refused and is not text.
LEMMA ItemMade ==
    ASSUME strict \in BOOLEAN, NEW c \in Conversion, NEW block \in Block, block.type \in ItemBlocks,
           Belongs(block), NEW at, convertItemBlock(c, block, at).ok
    PROVE  LET d == convertItemBlock(c, block, at)
           IN  \/ d = c /\ block.type \notin CallBlocks
               \/ \E type \in ItemTypes \cup {None}, id \in Nat, kinds \in KindMap :
                     d = With(c, type, id, kinds, at) /\ Made(c, block, type, id, kinds)
<1> DEFINE d == convertItemBlock(c, block, at)
           Good == \E type \in ItemTypes \cup {None}, id \in Nat, kinds \in KindMap :
                      d = With(c, type, id, kinds, at) /\ Made(c, block, type, id, kinds)
<1>0. /\ block.id \in Nat /\ c.kinds \in KindMap /\ d.ok
      /\ ~ Fail(c).ok
  BY PuttingNone DEF Block, Conversion
<1>1. ASSUME NEW e \in Conversion, e = [c EXCEPT !.kinds = e.kinds], NEW type, NEW id
      PROVE  With(e, type, id, e.kinds, at) = With(c, type, id, e.kinds, at)
  BY <1>1 DEF With, Conversion
<1> SUFFICES (d = c /\ block.type \notin CallBlocks) \/ Good
  OBVIOUS
<1> HIDE DEF d
<1>3. CASE block.type = "tool_use"
  <2> DEFINE e == remember(c, block.id, toolUseKind(block))
             item == toolUseBlockToInputItem(block)
  <2>1. e \in Conversion /\ e = [c EXCEPT !.kinds = e.kinds] /\ e.kinds \in KindMap
    BY <1>0, CallItem, Remembered
  <2>2. d = Fail(c) \/ d = put(e, item, at)
    BY <1>3 DEF convertItemBlock, d
  <2>3. d = put(e, item, at)
    BY <1>0, <2>2
  <2> HIDE DEF e
  <2>4. ~ Fail(e).ok /\ put(e, Failure, at) = Fail(e)
    BY <2>1, PuttingNone
  <2>5. item # Failure
    BY <1>0, <2>3, <2>4
  <2>6. PICK type \in ItemTypes : item = Item(type, block.id)
    BY <2>5, CallItem
  <2>7. d = With(c, type, block.id, e.kinds, at)
    BY <1>1, <2>1, <2>3, <2>6, PuttingItem
  <2>8. item.type = type /\ type \in CallTypes
    BY <1>3, <2>5, <2>6, TypesMatch DEF Item
  <2>9. Made(c, block, type, block.id, e.kinds)
    BY <1>3, <2>8 DEF Made, e, CallBlocks
  <2> QED
    BY <1>0, <2>1, <2>7, <2>9
<1>4. CASE block.type = "server_tool_use"
  <2> DEFINE item == serverToolUseToInputItem(block)
             e == remember(c, block.id, item.type)
  <2>0. item = Failure \/ item = NoItem \/ \E type \in SafeTypes \ (CallTypes \cup OutputTypes) : item = Item(type, block.id)
    <3>1. CASE stored(block) # NoItem
      BY <1>4, <3>1, StoredItem DEF serverToolUseToInputItem, Belongs
    <3>2. CASE stored(block) = NoItem
      <4>1. "web_search_call" \in SafeTypes \ (CallTypes \cup OutputTypes)
        BY TypesApart DEF SafeTypes
      <4> QED
        BY <3>2, <4>1 DEF serverToolUseToInputItem, FailIfStrict
    <3> QED
      BY <3>1, <3>2
  <2>1. item.type \in CallKinds
    <3>1. CASE \E type \in SafeTypes \ (CallTypes \cup OutputTypes) : item = Item(type, block.id)
      BY <3>1 DEF Item, CallKinds, CallTypes
    <3>2. CASE item = Failure \/ item = NoItem
      BY <3>2, NotTypes, NoneDiffers DEF CallKinds
    <3> QED
      BY <2>0, <3>1, <3>2
  <2>2. e \in Conversion /\ e = [c EXCEPT !.kinds = e.kinds] /\ e.kinds \in KindMap
    BY <1>0, <2>1, Remembered
  <2>3. d = Fail(c) \/ d = putAlways(e, item, at)
    BY <1>4 DEF convertItemBlock, d
  <2>4. d = putAlways(e, item, at)
    BY <1>0, <2>3
  <2>5. \E kind : e.kinds = remember(c, block.id, kind).kinds
    OBVIOUS
  <2> HIDE DEF e, item
  <2>6. ~ Fail(e).ok /\ putAlways(e, Failure, at) = Fail(e)
    BY <2>2, PuttingNone
  <2>7. item # Failure
    BY <1>0, <2>4, <2>6
  <2>8. PICK type \in (SafeTypes \ (CallTypes \cup OutputTypes)) \cup {None}, id \in Nat :
           d = With(c, type, id, e.kinds, at)
    <3>1. CASE item = NoItem
      <4>1. d = With(c, None, 0, e.kinds, at)
        BY <1>1, <2>2, <2>4, <3>1, PuttingNone
      <4> QED
        BY <4>1
    <3>2. CASE item # NoItem
      <4>1. PICK type \in SafeTypes \ (CallTypes \cup OutputTypes) : item = Item(type, block.id)
        BY <2>0, <2>7, <3>2
      <4>2. putAlways(e, Item(type, block.id), at) = With(e, type, block.id, e.kinds, at)
        BY <2>2, PuttingItem DEF ItemTypes
      <4>3. d = With(c, type, block.id, e.kinds, at)
        BY <1>1, <2>2, <2>4, <4>1, <4>2
      <4> QED
        BY <1>0, <4>3
    <3> QED
      BY <3>1, <3>2
  <2>9. type \notin CallTypes \cup OutputTypes /\ type \in ItemTypes \cup {None}
    BY TypesApart DEF ItemTypes
  <2>10. Made(c, block, type, id, e.kinds)
    BY <1>4, <2>5, <2>9 DEF Made, CallBlocks, ResultBlocks
  <2> QED
    BY <2>2, <2>8, <2>9, <2>10
<1>5. CASE block.type = "tool_result"
  <2> DEFINE kind == kindOf(c, block.id)
             item == toolResultToInputItem(block, kind)
  <2>1. kind \notin {"file_search_call", "mcp_call"}
    BY KindKnown DEF CallKinds
  <2>2. d = Fail(c) \/ d = put(c, item, at)
    BY <1>5 DEF convertItemBlock, d
  <2>3. ResultType(kind) \in ItemTypes
    BY DEF ResultType, ItemTypes, SafeTypes
  <2>4. item = Failure \/ item = Item(ResultType(kind), block.id)
    <3> HIDE DEF kind
    <3>0. block.type \in ResultBlocks
      BY <1>5 DEF ResultBlocks
    <3>1. CASE kind = "tool_search"
      BY <3>0, <3>1, ResultMade DEF toolResultToInputItem, ResultType
    <3>2. CASE kind # "tool_search"
      <4>1. toolResultToInputItem(block, kind) = resultItem(ResultType(kind), block, {"unsupported"})
        BY <2>1, <3>2 DEF toolResultToInputItem, ResultType
      <4> QED
        BY <3>0, <4>1, ResultMade
    <3> QED
      BY <3>1, <3>2
  <2> HIDE DEF item
  <2>5. item = Item(ResultType(kind), block.id) /\ d = put(c, item, at)
    BY <1>0, <2>2, <2>4, PuttingNone
  <2>6. d = With(c, ResultType(kind), block.id, c.kinds, at)
    BY <2>3, <2>5, PuttingItem
  <2>7. Made(c, block, ResultType(kind), block.id, c.kinds)
    BY <1>5 DEF Made, CallBlocks, ResultBlocks
  <2> QED
    BY <1>0, <2>3, <2>6, <2>7
<1>6. CASE block.type = "tool_search_tool_result"
  <2> DEFINE item == toolSearchResultBlockToInputItem(block)
             type == "tool_search_output"
  <2>1. d = put(c, item, at)
    BY <1>6 DEF convertItemBlock, d
  <2>2. item = Failure \/ item = Item(type, block.id)
    <3>1. CASE stored(block) # NoItem
      BY <1>6, <3>1, StoredItem DEF toolSearchResultBlockToInputItem, Belongs
    <3>2. CASE stored(block) = NoItem
      BY <1>6, <3>2, ResultMade DEF toolSearchResultBlockToInputItem, ResultBlocks
    <3> QED
      BY <3>1, <3>2
  <2> HIDE DEF item
  <2>3. item = Item(type, block.id)
    BY <1>0, <2>1, <2>2, PuttingNone
  <2>4. type \in ItemTypes
    BY DEF ItemTypes, SafeTypes
  <2>5. d = With(c, type, block.id, c.kinds, at)
    BY <2>1, <2>3, <2>4, PuttingItem
  <2>6. Made(c, block, type, block.id, c.kinds)
    BY <1>6 DEF Made, CallBlocks, ResultBlocks
  <2> QED
    BY <1>0, <2>4, <2>5, <2>6
<1>7. CASE block.type = "web_search_tool_result"
  BY <1>7 DEF convertItemBlock, CallBlocks, d
<1>8. CASE block.type \in {"compaction", "image_generation_call", "responses_output_item"}
  <2> DEFINE type == IF block.type = "responses_output_item" THEN "unrecognized" ELSE block.type
             id == IF block.type = "compaction" THEN 0 ELSE block.id
  <2>1. PICK item \in {Failure, NoItem, Item(type, id)} : d = put(c, item, at)
    <3>1. CASE block.type = "compaction"
      BY <3>1 DEF convertItemBlock, compactionBlockToInputItem, FailIfStrict, d
    <3>2. CASE block.type = "image_generation_call"
      BY <3>2 DEF convertItemBlock, imageGenerationBlockToInputItem, FailIfStrict, d
    <3>3. CASE block.type = "responses_output_item"
      BY <3>3 DEF convertItemBlock, opaqueBlockToInputItem, FailIfStrict, d
    <3> QED
      BY <1>8, <3>1, <3>2, <3>3
  <2>2. type \in ItemTypes /\ type \notin CallTypes \cup OutputTypes
    BY <1>8, TypesApart DEF ItemTypes, SafeTypes, Kinds
  <2>3. block.type \notin CallBlocks \cup ResultBlocks \cup {"tool_use"}
    BY <1>8 DEF CallBlocks, ResultBlocks
  <2>6. id \in Nat
    BY <1>0
  <2> HIDE DEF type, id
  <2>4. d = c \/ d = With(c, type, id, c.kinds, at)
    BY <1>0, <2>1, <2>2, <2>6, PuttingNone, PuttingItem
  <2>5. Made(c, block, type, id, c.kinds)
    BY <2>2, <2>3 DEF Made, CallBlocks, ResultBlocks
  <2> QED
    BY <1>0, <2>2, <2>3, <2>4, <2>5, <2>6
<1> QED
  BY <1>3, <1>4, <1>5, <1>6, <1>7, <1>8 DEF ItemBlocks

\* What an item is, of a block it was made of: a call has the type and the id of its
\* block, a result belongs to its call.
Stem(item, at) ==
    LET block == BlockIn(history, at)
    IN  /\ block.type = "tool_use" =>
              /\ item.type = toolUseBlockToInputItem(block).type /\ item.type \in CallTypes
              /\ item.id = block.id
        /\ block.type = "tool_result" =>
              /\ item.id = block.id
              /\ \A u \in PositionsOf(history, {"tool_use"}) : IdIn(history, u) = block.id =>
                    item.type = ResultType(toolUseKind(BlockIn(history, u)))
        /\ block.type = "tool_search_tool_result" => item.type = "tool_search_output" /\ item.id = block.id
        /\ block.type \notin {"tool_use"} \cup ResultBlocks => item.type \notin CallTypes \cup OutputTypes

Stems(item) == item.from # << >> /\ \A j \in DOMAIN item.from : Stem(item, item.from[j])

TextBlocks == {"text", "image", "document"}

\* The kinds of the calls in the blocks so far are known.
KindsKnown(c, m, b) ==
    \A u \in PositionsOf(history, {"tool_use"}) : u[1] < m \/ (u[1] = m /\ u[2] <= b) =>
        kindOf(c, IdIn(history, u)) = toolUseKind(BlockIn(history, u))

\* What else holds of the conversion after b blocks of message m.
Tracked(c, m, b) ==
    c.ok => /\ \A i \in DOMAIN c.items : Stems(c.items[i])
            /\ \A k \in DOMAIN c.current : BlockIn(history, c.current[k].at).type \in TextBlocks
            /\ KindsKnown(c, m, b)

\* A kind that is remembered is known, and the others stay known.
LEMMA KindsGrow ==
    ASSUME history \in Seq(ChatMessage), NEW n, Paired(history, n),
           NEW m \in 1 .. Len(history), NEW b \in 1 .. Len(history[m].blocks),
           NEW c \in Conversion, NEW d, KindsKnown(c, m, b - 1),
           LET block == BlockAt(m, b)
           IN  /\ block.type = "tool_use" => d.kinds = remember(c, block.id, toolUseKind(block)).kinds
               /\ block.type = "server_tool_use" => \E kind : d.kinds = remember(c, block.id, kind).kinds
               /\ block.type \notin CallBlocks => d.kinds = c.kinds
    PROVE  KindsKnown(d, m, b)
<1> DEFINE block == BlockAt(m, b)
           at == <<m, b>>
<1>0. /\ at[1] = m /\ at[2] = b /\ BlockIn(history, at) = block /\ IdIn(history, at) = block.id
      /\ m \in Nat /\ b \in Nat
      /\ \A types : block.type \in types => at \in PositionsOf(history, types)
  <2>1. at[1] = m /\ at[2] = b
    OBVIOUS
  <2>2. BlockIn(history, at) = block /\ IdIn(history, at) = block.id
    BY <2>1 DEF BlockIn, IdIn, BlockAt
  <2>3. \A types : block.type \in types => at \in PositionsOf(history, types)
    BY PositionsIn DEF BlockAt
  <2>4. m \in Nat /\ b \in Nat
    BY Positions
  <2> QED
    BY <2>1, <2>2, <2>3, <2>4
<1>1. ASSUME NEW kind, NEW e, e.kinds = remember(c, block.id, kind).kinds
      PROVE  \A id : kindOf(e, id) = IF id = block.id THEN kind ELSE kindOf(c, id)
  <2>1. e.kinds = [i \in DOMAIN c.kinds \cup {block.id} |-> IF i = block.id THEN kind ELSE c.kinds[i]]
    BY <1>1 DEF remember, Conversion
  <2> HIDE DEF block
  <2> QED
    BY <2>1 DEF kindOf
<1> HIDE DEF block, at
<1>2. ASSUME NEW u \in PositionsOf(history, {"tool_use"}), u[1] < m \/ (u[1] = m /\ u[2] <= b)
      PROVE  kindOf(d, IdIn(history, u)) = toolUseKind(BlockIn(history, u))
  <2>1. u = <<u[1], u[2]>> /\ u[1] \in Nat /\ u[2] \in Nat /\ BlockIn(history, u).type = "tool_use"
    BY PositionsIn
  <2>2. CASE u = at
    <3>1. block.type = "tool_use"
      BY <1>0, <2>1, <2>2
    <3>2. d.kinds = remember(c, block.id, toolUseKind(block)).kinds
      BY <3>1 DEF block
    <3> QED
      BY <1>0, <1>1, <2>2, <3>2
  <2>3. CASE u # at
    <3>1. u[1] < m \/ (u[1] = m /\ u[2] <= b - 1)
      <4>1. ~ (u[1] = m /\ u[2] = b)
        BY <2>1, <2>3 DEF at
      <4> QED
        BY <1>0, <1>2, <2>1, <4>1
    <3>2. kindOf(c, IdIn(history, u)) = toolUseKind(BlockIn(history, u))
      BY <3>1 DEF KindsKnown
    <3>3. CASE block.type \in CallBlocks
      <4>1. at \in PositionsOf(history, CallBlocks) /\ u \in PositionsOf(history, CallBlocks)
        BY <1>0, <3>3 DEF PositionsOf, CallBlocks
      <4>2. IdIn(history, u) # block.id
        BY <1>0, <2>3, <4>1 DEF Paired
      <4>3. PICK kind : d.kinds = remember(c, block.id, kind).kinds
        BY <3>3 DEF CallBlocks, block
      <4> QED
        BY <1>1, <3>2, <4>2, <4>3
    <3>4. CASE block.type \notin CallBlocks
      <4>1. d.kinds = c.kinds
        BY <3>4 DEF block
      <4> QED
        BY <3>2, <4>1 DEF kindOf
    <3> QED
      BY <3>3, <3>4
  <2> QED
    BY <2>2, <2>3
<1> QED
  BY <1>2, Zenon DEF KindsKnown

\* Flushing text makes a message of it.
LEMMA FlushTracks ==
    ASSUME NEW c \in Conversion, NEW m, NEW b, Tracked(c, m, b)
    PROVE  Tracked(flush(c), m, b) /\ flush(c).kinds = c.kinds
<1>1. CASE c.current = << >>
  BY <1>1 DEF flush
<1>2. CASE c.current # << >>
  <2> DEFINE item == [type    |-> "message",
                      id      |-> 0,
                      content |-> [k \in DOMAIN c.current |-> c.current[k].content],
                      from    |-> [k \in DOMAIN c.current |-> c.current[k].at]]
  <2>1. /\ c.current \in Seq(Gathered) /\ c.items \in Seq(InputItem)
        /\ DOMAIN c.current = 1 .. Len(c.current) /\ Len(c.current) \in Nat
    BY DEF Conversion
  <2>2. /\ DOMAIN item.from = DOMAIN c.current /\ item.type = "message"
        /\ \A k \in DOMAIN c.current : item.from[k] = c.current[k].at
    OBVIOUS
  <2>3. item.from # << >>
    <3>1. 1 \in DOMAIN c.current
      BY <1>2, <2>1
    <3>2. DOMAIN << >> = {}
      OBVIOUS
    <3> HIDE DEF item
    <3> QED
      BY <2>2, <3>1, <3>2
  <2>4. /\ flush(c).items = Append(c.items, item) /\ flush(c).current = << >>
        /\ flush(c).kinds = c.kinds /\ flush(c).ok = c.ok
    BY <1>2 DEF flush, Conversion
  <2>5. \A M : LET more == Append(c.items, M)
               IN  \A i \in DOMAIN more : (i \in DOMAIN c.items /\ more[i] = c.items[i]) \/ more[i] = M
    <3> TAKE M
    <3>1. /\ DOMAIN Append(c.items, M) = 1 .. (Len(c.items) + 1) /\ DOMAIN c.items = 1 .. Len(c.items)
          /\ Append(c.items, M)[Len(c.items) + 1] = M /\ Len(c.items) \in Nat
          /\ \A i \in 1 .. Len(c.items) : Append(c.items, M)[i] = c.items[i]
      BY <2>1
    <3> QED
      BY <3>1
  <2> HIDE DEF item
  <2>6. ASSUME c.ok
        PROVE  Stems(item)
    <3>1. \A j \in DOMAIN item.from : BlockIn(history, item.from[j]).type \in TextBlocks
      BY <2>2, <2>6 DEF Tracked
    <3>2. \A at : BlockIn(history, at).type \in TextBlocks => Stem(item, at)
      BY <2>2, TypesApart DEF Stem, TextBlocks, ResultBlocks
    <3> QED
      BY <2>3, <3>1, <3>2 DEF Stems
  <2>7. ASSUME c.ok
        PROVE  \A i \in DOMAIN flush(c).items : Stems(flush(c).items[i])
    BY <2>4, <2>5, <2>6, <2>7 DEF Tracked
  <2>8. ASSUME c.ok
        PROVE  KindsKnown(flush(c), m, b)
    BY <2>4, <2>8 DEF Tracked, KindsKnown, kindOf
  <2>9. \A k \in DOMAIN flush(c).current : FALSE
    BY <2>4
  <2> QED
    BY <2>4, <2>7, <2>8, <2>9 DEF Tracked
<1> QED
  BY <1>1, <1>2

\* One round of the loop keeps what is known of the calls.
LEMMA RoundTracks ==
    ASSUME strict \in BOOLEAN, history \in Seq(ChatMessage), NEW n, Paired(history, n),
           NEW m \in 1 .. Len(history), NEW b \in 1 .. Len(history[m].blocks),
           NEW c \in Conversion, Tracked(c, m, b - 1)
    PROVE  Tracked(convertBlock(c, history[m].role, history[m].blocks[b], <<m, b>>), m, b)
<1> DEFINE role == history[m].role
           block == BlockAt(m, b)
           at == <<m, b>>
           d == convertBlock(c, role, block, at)
<1> SUFFICES ASSUME d.ok
             PROVE  Tracked(d, m, b)
  BY DEF BlockAt, Tracked
<1>0. /\ role \in {"user", "assistant"} /\ block \in Block
      /\ at[1] = m /\ at[2] = b /\ BlockIn(history, at) = block /\ IdIn(history, at) = block.id
      /\ \A types : block.type \in types => at \in PositionsOf(history, types)
  <2>1. role \in {"user", "assistant"} /\ block \in Block
    BY Positions
  <2>2. at[1] = m /\ at[2] = b
    OBVIOUS
  <2>3. BlockIn(history, at) = block /\ IdIn(history, at) = block.id
    BY <2>2 DEF BlockIn, IdIn, BlockAt
  <2>4. \A types : block.type \in types => at \in PositionsOf(history, types)
    BY PositionsIn DEF BlockAt
  <2> QED
    BY <2>1, <2>2, <2>3, <2>4
<1>1. Belongs(block)
  <2>1. CASE block.type \in CallBlocks \cup ResultBlocks
    <3>1. at \in PositionsOf(history, CallBlocks \cup ResultBlocks)
      BY <1>0, <2>1
    <3> QED
      BY <1>0, <3>1 DEF Paired
  <2>2. CASE block.type \notin CallBlocks \cup ResultBlocks
    BY <2>2 DEF Belongs, CallBlocks, ResultBlocks
  <2> QED
    BY <2>1, <2>2
<1>2. c.ok
  <2>1. ~ c.ok => d = c
    BY DEF convertBlock
  <2> QED
    BY <2>1
<1>3. /\ \A i \in DOMAIN c.items : Stems(c.items[i])
      /\ \A k \in DOMAIN c.current : BlockIn(history, c.current[k].at).type \in TextBlocks
      /\ KindsKnown(c, m, b - 1)
  BY <1>2, Zenon DEF Tracked
<1>4. block.type \notin CallBlocks /\ d.kinds = c.kinds => KindsKnown(d, m, b)
  <2>1. ASSUME block.type \notin CallBlocks, d.kinds = c.kinds
        PROVE  KindsKnown(d, m, b)
    <3>1. block.type # "tool_use" /\ block.type # "server_tool_use"
      BY <2>1 DEF CallBlocks
    <3> HIDE DEF d
    <3> QED
      BY <1>3, <2>1, <3>1, KindsGrow DEF block
  <2> QED
    BY <2>1
<1>5. CASE block.type \in {"thinking", "signature", "unsupported"}
  <2>1. d = c
    <3>1. d = c \/ d = Fail(c)
      BY <1>2, <1>5 DEF convertBlock, ItemBlocks
    <3> QED
      BY <3>1, PuttingNone
  <2> HIDE DEF d
  <2>2. KindsKnown(d, m, b)
    BY <1>4, <1>5, <2>1 DEF CallBlocks
  <2> QED
    BY <1>3, <2>1, <2>2 DEF Tracked
<1>6. CASE block.type \in TextBlocks
  <2>1. d = gather(c, role, block, at)
    BY <1>2, <1>6 DEF convertBlock, ItemBlocks, TextBlocks
  <2>2. d = c \/ \E content : d = say(c, content, at)
    <3>1. d = c \/ d = Fail(c) \/ \E content : d = say(c, content, at)
      BY <1>6, <2>1 DEF gather, TextBlocks
    <3> QED
      BY <3>1, PuttingNone
  <2> HIDE DEF d
  <2>3. block.type \notin CallBlocks
    BY <1>6 DEF TextBlocks, CallBlocks
  <2>4. CASE d = c
    <3>1. KindsKnown(d, m, b)
      BY <1>4, <2>3, <2>4
    <3> QED
      BY <1>3, <2>4, <3>1 DEF Tracked
  <2>5. CASE \E content : d = say(c, content, at)
    <3>1. PICK content : d = say(c, content, at)
      BY <2>5
    <3> DEFINE new == [content |-> content, at |-> at]
    <3>2. new.at = at
      OBVIOUS
    <3> HIDE DEF new, at
    <3>3. d.items = c.items /\ d.kinds = c.kinds /\ d.current = Append(c.current, new)
      BY <3>1 DEF say, Conversion, new
    <3>4. \A k \in DOMAIN d.current : (k \in DOMAIN c.current /\ d.current[k] = c.current[k]) \/ d.current[k] = new
      BY <3>3 DEF Conversion
    <3>5. \A k \in DOMAIN d.current : BlockIn(history, d.current[k].at).type \in TextBlocks
      BY <1>0, <1>3, <1>6, <3>2, <3>4
    <3>6. KindsKnown(d, m, b)
      BY <1>4, <2>3, <3>3
    <3> QED
      BY <1>3, <3>3, <3>5, <3>6 DEF Tracked
  <2> QED
    BY <2>2, <2>4, <2>5
<1>7. CASE block.type \in ItemBlocks
  <2> DEFINE e == flush(c)
  <2>1. d = convertItemBlock(e, block, at)
    BY <1>2, <1>7 DEF convertBlock, ItemBlocks
  <2>2. e \in Conversion /\ e.current = << >> /\ Tracked(e, m, b - 1) /\ e.ok
    BY <1>2, Flushed, FlushTracks
  <2> HIDE DEF d, e
  <2>3. \A i \in DOMAIN e.items : Stems(e.items[i])
    BY <2>2 DEF Tracked
  <2>4. KindsKnown(e, m, b - 1)
    BY <2>2 DEF Tracked
  <2>5. \/ d = e /\ block.type \notin CallBlocks
        \/ \E type \in ItemTypes \cup {None}, id \in Nat, kinds \in KindMap :
              d = With(e, type, id, kinds, at) /\ Made(e, block, type, id, kinds)
    BY <1>0, <1>1, <1>7, <2>1, <2>2, ItemMade
  <2>6. CASE d = e /\ block.type \notin CallBlocks
    <3>1. block.type # "tool_use" /\ block.type # "server_tool_use"
      BY <2>6 DEF CallBlocks
    <3>2. KindsKnown(d, m, b)
      BY <2>2, <2>4, <2>6, <3>1, KindsGrow DEF block
    <3>3. \A k \in DOMAIN d.current : FALSE
      BY <2>2, <2>6
    <3> QED
      BY <2>3, <2>6, <3>2, <3>3 DEF Tracked
  <2>7. ASSUME NEW type \in ItemTypes \cup {None}, NEW id \in Nat, NEW kinds \in KindMap,
               d = With(e, type, id, kinds, at), Made(e, block, type, id, kinds)
        PROVE  Tracked(d, m, b)
    <3> DEFINE item == [type |-> type, id |-> id, content |-> << >>, from |-> <<at>>]
    <3>1. item.type = type /\ item.id = id /\ item.from # << >> /\ \A j \in DOMAIN item.from : item.from[j] = at
      OBVIOUS
    <3>2. d.kinds = kinds /\ d.current = << >> /\ d.items = Append(e.items, item)
      BY <2>2, <2>7 DEF With, Conversion
    <3> HIDE DEF item
    <3>3. KindsKnown(d, m, b)
      <4>1. /\ block.type = "tool_use" => d.kinds = remember(e, block.id, toolUseKind(block)).kinds
            /\ block.type = "server_tool_use" => \E kind : d.kinds = remember(e, block.id, kind).kinds
            /\ block.type \notin CallBlocks => d.kinds = e.kinds
        BY <2>7, <3>2 DEF Made
      <4> QED
        BY <2>2, <2>4, <4>1, KindsGrow DEF block
    <3>4. Stem(item, at)
      <4>1. block.type = "tool_result" =>
               \A u \in PositionsOf(history, {"tool_use"}) : IdIn(history, u) = block.id =>
                  item.type = ResultType(toolUseKind(BlockIn(history, u)))
        <5> SUFFICES ASSUME block.type = "tool_result", NEW u \in PositionsOf(history, {"tool_use"}),
                            IdIn(history, u) = block.id
                     PROVE  item.type = ResultType(toolUseKind(BlockIn(history, u)))
          OBVIOUS
        <5>1. at \in PositionsOf(history, ResultBlocks)
          BY <1>0 DEF ResultBlocks
        <5>2. PICK v \in PositionsOf(history, {"tool_use"}) : Precedes(v, at) /\ IdIn(history, v) = IdIn(history, at)
          BY <5>1 DEF Paired
        <5>3. u \in PositionsOf(history, CallBlocks) /\ v \in PositionsOf(history, CallBlocks)
          BY DEF PositionsOf, CallBlocks
        <5>4. u = v
          BY <1>0, <5>2, <5>3 DEF Paired
        <5>5. u[1] \in Nat /\ u[2] \in Nat
          BY PositionsIn
        <5>6. m \in Nat /\ b \in Nat
          BY Positions
        <5>7. u[1] < m \/ (u[1] = m /\ u[2] <= b - 1)
          BY <1>0, <5>2, <5>4, <5>5, <5>6 DEF Precedes
        <5>8. kindOf(e, block.id) = toolUseKind(BlockIn(history, u))
          BY <2>4, <5>7 DEF KindsKnown
        <5> QED
          BY <2>7, <3>1, <5>8 DEF Made
      <4> HIDE DEF block
      <4> QED
        BY <1>0, <2>7, <3>1, <4>1 DEF Made, Stem
    <3>5. Stems(item)
      BY <3>1, <3>4 DEF Stems
    <3>6. \A i \in DOMAIN d.items : (i \in DOMAIN e.items /\ d.items[i] = e.items[i]) \/ d.items[i] = item
      BY <2>2, <3>2 DEF Conversion
    <3>7. \A i \in DOMAIN d.items : Stems(d.items[i])
      BY <2>3, <3>5, <3>6
    <3>8. \A k \in DOMAIN d.current : FALSE
      BY <3>2
    <3> QED
      BY <3>3, <3>7, <3>8 DEF Tracked
  <2> QED
    BY <2>5, <2>6, <2>7
<1> QED
  BY <1>0, <1>5, <1>6, <1>7 DEF Block, BlockTypes, TextBlocks

\* One message keeps what is known of the calls.
LEMMA MessageTracks ==
    ASSUME strict \in BOOLEAN, history \in Seq(ChatMessage), NEW n, Paired(history, n),
           NEW m \in 1 .. Len(history), NEW c \in Conversion, Tracked(c, m, 0)
    PROVE  Tracked(messageToInputItems(c, history[m], m), m + 1, 0)
<1> DEFINE msg == history[m]
           N == Len(msg.blocks)
<1>1. N \in Nat /\ m \in Nat /\ msg \in ChatMessage
  BY Positions
<1>2. PICK after : /\ after[0] = c
                   /\ \A b \in 1 .. N :
                         after[b] = convertBlock(after[b - 1], msg.role, msg.blocks[b], <<m, b>>)
                   /\ messageToInputItems(c, msg, m) = flush(after[N])
  BY <1>1, MessageLoop
<1> DEFINE S == {b \in 0 .. N : after[b] \in Conversion /\ Tracked(after[b], m, b)}
<1>3. 0 \in S
  BY <1>1, <1>2
<1>4. ASSUME NEW b \in 0 .. N, b # N, b \in S
      PROVE  b + 1 \in S
  <2>1. b + 1 \in 1 .. N /\ (b + 1) - 1 = b /\ <<m, b + 1>> \in Nat \X Nat
    BY <1>1, <1>4
  <2>2. after[b + 1] = convertBlock(after[b], msg.role, msg.blocks[b + 1], <<m, b + 1>>)
    BY <1>2, <2>1
  <2>3. after[b] \in Conversion /\ Tracked(after[b], m, (b + 1) - 1)
    BY <1>4, <2>1
  <2>4. Tracked(after[b + 1], m, b + 1)
    BY <2>1, <2>2, <2>3, RoundTracks
  <2>5. msg.role \in {"user", "assistant"} /\ msg.blocks[b + 1] \in Block
    BY <2>1, Positions DEF BlockAt
  <2>6. after[b + 1] \in Conversion
    BY <2>1, <2>2, <2>3, <2>5, StaysConversion
  <2> QED
    BY <2>1, <2>4, <2>6
<1> HIDE DEF S
<1>5. \A b \in 0 .. N : b \in S
  BY <1>1, <1>3, <1>4, Induction
<1>6. after[N] \in Conversion /\ Tracked(after[N], m, N)
  BY <1>1, <1>5 DEF S
<1> DEFINE d == flush(after[N])
<1>7. Tracked(d, m, N)
  BY <1>6, FlushTracks
<1>8. messageToInputItems(c, msg, m) = d
  BY <1>2
<1> HIDE DEF d
<1>9. KindsKnown(d, m, N) => KindsKnown(d, m + 1, 0)
  <2> SUFFICES ASSUME KindsKnown(d, m, N), NEW u \in PositionsOf(history, {"tool_use"}),
                      u[1] < m + 1 \/ (u[1] = m + 1 /\ u[2] <= 0)
               PROVE  kindOf(d, IdIn(history, u)) = toolUseKind(BlockIn(history, u))
    BY DEF KindsKnown
  <2>1. u[1] \in Nat /\ u[2] \in 1 .. Len(history[u[1]].blocks)
    BY PositionsIn
  <2>2. u[1] = m => u[2] <= N
    BY <1>1, <2>1
  <2>3. ~ (u[2] <= 0)
    BY <2>1
  <2>4. u[1] < m \/ (u[1] = m /\ u[2] <= N)
    BY <1>1, <2>1, <2>2, <2>3
  <2> HIDE DEF N
  <2> QED
    BY <2>4 DEF KindsKnown
<1> HIDE DEF N
<1>10. Tracked(d, m + 1, 0)
  BY <1>7, <1>9, Zenon DEF Tracked
<1> QED
  BY <1>8, <1>10

\* What is known of the calls in the input the bridge makes of a history.
LEMMA InputTracked ==
    ASSUME strict \in BOOLEAN, history \in Seq(ChatMessage), NEW n, Paired(history, n)
    PROVE  /\ input \in Conversion
           /\ input.ok => \A i \in DOMAIN input.items : Stems(input.items[i])
<1> DEFINE N == Len(history)
<1>1. N \in Nat /\ Start \in Conversion
  BY StartConverted
<1>2. PICK after : /\ after[0] = Start
                   /\ \A m \in 1 .. N : after[m] = messageToInputItems(after[m - 1], history[m], m)
                   /\ inputOf(history) = after[N]
  BY <1>1, HistoryLoop
<1> DEFINE S == {m \in 0 .. N : after[m] \in Conversion /\ Tracked(after[m], m + 1, 0)}
<1>3. 0 \in S
  <2>1. \A k \in DOMAIN Start.items : FALSE
    BY DEF Start
  <2>2. \A k \in DOMAIN Start.current : FALSE
    BY DEF Start
  <2>3. KindsKnown(Start, 0 + 1, 0)
    <3>1. \A u \in PositionsOf(history, {"tool_use"}) : u[1] \in 1 .. N /\ u[2] \in 1 .. Len(history[u[1]].blocks)
      BY PositionsIn
    <3>2. \A u \in PositionsOf(history, {"tool_use"}) : ~ (u[1] < 0 + 1 \/ (u[1] = 0 + 1 /\ u[2] <= 0))
      BY <1>1, <3>1
    <3> QED
      BY <3>2 DEF KindsKnown
  <2>4. Tracked(Start, 0 + 1, 0)
    BY <2>1, <2>2, <2>3 DEF Tracked
  <2> QED
    BY <1>1, <1>2, <2>4
<1>4. ASSUME NEW m \in 0 .. N, m # N, m \in S
      PROVE  m + 1 \in S
  <2>1. m + 1 \in 1 .. N /\ (m + 1) - 1 = m /\ m + 1 \in Nat
    BY <1>1, <1>4
  <2>2. after[m + 1] = messageToInputItems(after[m], history[m + 1], m + 1)
    BY <1>2, <2>1
  <2>3. after[m] \in Conversion /\ Tracked(after[m], m + 1, 0) /\ history[m + 1] \in ChatMessage
    BY <1>4, <2>1
  <2>4. Tracked(after[m + 1], (m + 1) + 1, 0)
    BY <2>1, <2>2, <2>3, MessageTracks
  <2>5. after[m + 1] \in Conversion
    BY <2>1, <2>2, <2>3, MessageStays
  <2> QED
    BY <2>1, <2>4, <2>5
<1> HIDE DEF S
<1>5. \A m \in 0 .. N : m \in S
  BY <1>1, <1>3, <1>4, Induction
<1>6. input \in Conversion /\ Tracked(input, N + 1, 0)
  BY <1>1, <1>2, <1>5 DEF S, input
<1> QED
  BY <1>6 DEF Tracked

\* An item of the input that a block of the history became, or is a part of.
Within(i, at) == i \in DOMAIN input.items /\ \E j \in DOMAIN input.items[i].from : input.items[i].from[j] = at

\* The item is the call, or the output, that this block stands for.
CallAt(c, u) ==
    /\ Within(c, u) /\ u \in PositionsOf(history, {"tool_use"})
    /\ input.items[c].type \in CallTypes
    /\ input.items[c].type = toolUseBlockToInputItem(BlockIn(history, u)).type
    /\ input.items[c].id = IdIn(history, u)

OutputAt(o, r) ==
    /\ Within(o, r) /\ r \in PositionsOf(history, ResultBlocks)
    /\ input.items[o].type \in OutputTypes
    /\ input.items[o].id = IdIn(history, r)
    /\ BlockIn(history, r).type = "tool_search_tool_result" => input.items[o].type = "tool_search_output"
    /\ BlockIn(history, r).type = "tool_result" =>
          \A u \in PositionsOf(history, {"tool_use"}) : IdIn(history, u) = IdIn(history, r) =>
             input.items[o].type = ResultType(toolUseKind(BlockIn(history, u)))

\* Every item of the input is within a block, in the order of the history.
LEMMA ItemsWithin ==
    ASSUME strict \in BOOLEAN, history \in Seq(ChatMessage), NEW n, Paired(history, n), input.ok
    PROVE  /\ DOMAIN input.items \subseteq Nat
           /\ \A i \in DOMAIN input.items : Within(i, input.items[i].from[1])
           /\ \A at \in KeptPositions : \E i : Within(i, at)
           /\ \A i, at : Within(i, at) => Stem(input.items[i], at) /\ at \in KeptPositions
           /\ \A i, k, at : Within(i, at) /\ Within(k, at) => i = k
           /\ \A i, k, at, to : Within(i, at) /\ Within(k, to) /\ Precedes(at, to) => i <= k
<1> DEFINE items == input.items
<1>1. items \in Seq(InputItem) /\ \A i \in DOMAIN items : Stems(items[i])
  BY InputTracked DEF Conversion
<1>2. Sources(items) = KeptPositions /\ InOrder(items)
  BY InputConverted
<1> HIDE DEF items
<1>3. /\ Len(items) \in Nat /\ DOMAIN items = 1 .. Len(items)
      /\ \A i \in 1 .. Len(items) : /\ items[i].from \in Seq(Nat \X Nat) /\ Len(items[i].from) \in Nat
                                    /\ DOMAIN items[i].from = 1 .. Len(items[i].from)
      /\ \A i \in 1 .. Len(items), j \in Nat : j \in 1 .. Len(items[i].from) =>
            <<i, j>> \in Places(items) /\ Source(items, <<i, j>>) = items[i].from[j]
      /\ \A p \in Places(items) :
            /\ p = <<p[1], p[2]>> /\ p[1] \in 1 .. Len(items) /\ p[2] \in 1 .. Len(items[p[1]].from)
            /\ Source(items, p) \in Nat \X Nat
  BY <1>1, PlaceOf
<1>4. \A i, at : Within(i, at) <=>
         i \in 1 .. Len(items) /\ \E j \in 1 .. Len(items[i].from) : items[i].from[j] = at
  BY <1>3 DEF Within, items
<1>5. \A i, at : Within(i, at) => \E p \in Places(items) : p[1] = i /\ p[2] \in Nat /\ i \in Nat /\ Source(items, p) = at
  <2> SUFFICES ASSUME NEW i, NEW at, Within(i, at)
               PROVE  \E p \in Places(items) : p[1] = i /\ p[2] \in Nat /\ i \in Nat /\ Source(items, p) = at
    OBVIOUS
  <2>1. i \in 1 .. Len(items) /\ i \in Nat
    BY <1>3, <1>4
  <2>2. PICK j \in 1 .. Len(items[i].from) : items[i].from[j] = at
    BY <1>4
  <2>3. j \in Nat
    BY <1>3, <2>1
  <2>4. <<i, j>> \in Places(items) /\ Source(items, <<i, j>>) = at
    BY <1>3, <2>1, <2>2, <2>3
  <2>5. <<i, j>>[1] = i /\ <<i, j>>[2] = j
    OBVIOUS
  <2> QED
    BY <2>1, <2>3, <2>4, <2>5
<1>6. \A p \in Places(items) : Within(p[1], Source(items, p))
  <2> TAKE p \in Places(items)
  <2>1. p[1] \in 1 .. Len(items) /\ p[2] \in 1 .. Len(items[p[1]].from)
    BY <1>3
  <2>2. Source(items, p) = items[p[1]].from[p[2]]
    BY DEF Source
  <2> QED
    BY <1>4, <2>1, <2>2
<1>7. \A i \in DOMAIN items : Within(i, items[i].from[1])
  <2> TAKE i \in DOMAIN items
  <2>1. items[i].from # << >>
    BY <1>1 DEF Stems
  <2>2. Len(items[i].from) # 0
    BY <1>3, <2>1
  <2>3. 1 \in 1 .. Len(items[i].from)
    BY <1>3, <2>2
  <2> QED
    BY <1>3, <1>4, <2>3
<1>8. \A at \in KeptPositions : \E i : Within(i, at)
  BY <1>2, <1>6 DEF Sources
<1>9. \A i, at : Within(i, at) => Stem(items[i], at) /\ at \in KeptPositions
  <2> SUFFICES ASSUME NEW i, NEW at, Within(i, at)
               PROVE  Stem(items[i], at) /\ at \in KeptPositions
    OBVIOUS
  <2>1. i \in DOMAIN items /\ \E j \in DOMAIN items[i].from : items[i].from[j] = at
    BY DEF Within, items
  <2>2. Stem(items[i], at)
    BY <1>1, <2>1 DEF Stems
  <2>3. at \in KeptPositions
    BY <1>2, <1>5 DEF Sources
  <2> QED
    BY <2>2, <2>3
<1>10. \A i, k, at, to : Within(i, at) /\ Within(k, to) /\ k < i => Precedes(to, at)
  <2> SUFFICES ASSUME NEW i, NEW k, NEW at, NEW to, Within(i, at), Within(k, to), k < i
               PROVE  Precedes(to, at)
    OBVIOUS
  <2>1. PICK p \in Places(items) : p[1] = i /\ Source(items, p) = at
    BY <1>5
  <2>2. PICK q \in Places(items) : q[1] = k /\ Source(items, q) = to
    BY <1>5
  <2>3. Precedes(q, p)
    BY <2>1, <2>2 DEF Precedes
  <2> QED
    BY <1>2, <2>1, <2>2, <2>3 DEF InOrder
<1>11. \A i, at : Within(i, at) => i \in Nat /\ at[1] \in Nat /\ at[2] \in Nat
  <2> SUFFICES ASSUME NEW i, NEW at, Within(i, at)
               PROVE  i \in Nat /\ at[1] \in Nat /\ at[2] \in Nat
    OBVIOUS
  <2>1. PICK p \in Places(items) : p[1] = i /\ i \in Nat /\ Source(items, p) = at
    BY <1>5
  <2>2. at \in Nat \X Nat
    BY <1>3, <2>1
  <2> QED
    BY <2>1, <2>2
<1>12. \A i, k, at, to : Within(i, at) /\ Within(k, to) => ~ (Precedes(at, to) /\ Precedes(to, at))
  BY <1>11 DEF Precedes
<1>13. \A i, k, at : Within(i, at) /\ Within(k, at) => i = k
  <2> SUFFICES ASSUME NEW i, NEW k, NEW at, Within(i, at), Within(k, at)
               PROVE  i = k
    OBVIOUS
  <2>1. i \in Nat /\ k \in Nat
    BY <1>11
  <2>2. ~ (k < i) /\ ~ (i < k)
    BY <1>10, <1>12
  <2> QED
    BY <2>1, <2>2
<1>14. \A i, k, at, to : Within(i, at) /\ Within(k, to) /\ Precedes(at, to) => i <= k
  <2> SUFFICES ASSUME NEW i, NEW k, NEW at, NEW to, Within(i, at), Within(k, to), Precedes(at, to)
               PROVE  i <= k
    OBVIOUS
  <2>1. i \in Nat /\ k \in Nat
    BY <1>11
  <2>2. ~ (k < i)
    BY <1>10, <1>12
  <2> QED
    BY <2>1, <2>2
<1>15. DOMAIN items \subseteq Nat
  BY <1>3
<1> QED
  BY <1>7, <1>8, <1>9, <1>13, <1>14, <1>15 DEF items

\* The calls of the input are the calls of the history, and so are the outputs.
LEMMA CallsWithin ==
    ASSUME strict \in BOOLEAN, history \in Seq(ChatMessage), NEW n, Paired(history, n), input.ok
    PROVE  /\ \A c \in DOMAIN input.items : input.items[c].type \in CallTypes => CallAt(c, input.items[c].from[1])
           /\ \A o \in DOMAIN input.items :
                 input.items[o].type \in OutputTypes => OutputAt(o, input.items[o].from[1])
           /\ \A u \in PositionsOf(history, {"tool_use"}) : \E c : CallAt(c, u)
           /\ \A r \in PositionsOf(history, ResultBlocks) : \E o : OutputAt(o, r)
<1>1. ASSUME NEW types, types \in {{"tool_use"}, ResultBlocks}
      PROVE  \A at \in PositionsOf(history, types) : at \in KeptPositions
  <2> TAKE at \in PositionsOf(history, types)
  <2>1. /\ at[1] \in 1 .. Len(history) /\ at[2] \in 1 .. Len(history[at[1]].blocks) /\ at = <<at[1], at[2]>>
        /\ BlockIn(history, at) = history[at[1]].blocks[at[2]] /\ BlockIn(history, at).type \in types
    BY PositionsIn
  <2>2. BlockAt(at[1], at[2]).type \in {"tool_use", "tool_result", "tool_search_tool_result"}
    BY <1>1, <2>1 DEF ResultBlocks, BlockAt
  <2>3. KeptBlock(history[at[1]].role, BlockAt(at[1], at[2]))
    BY <2>2 DEF KeptBlock
  <2>4. <<at[1], at[2]>> \in KeptPositions
    BY <2>1, <2>3, Positions
  <2> QED
    BY <2>1, <2>4
<1>2. \A at : at \in KeptPositions =>
         \A types : BlockIn(history, at).type \in types => at \in PositionsOf(history, types)
  BY Positions, PositionsIn DEF BlockIn
<1>3. \A kind : ResultType(kind) \in OutputTypes
  BY TypesApart DEF ResultType
<1>4. ASSUME NEW i, NEW at, Within(i, at)
      PROVE  /\ BlockIn(history, at).type = "tool_use" => CallAt(i, at)
             /\ BlockIn(history, at).type \in ResultBlocks => OutputAt(i, at)
             /\ BlockIn(history, at).type \notin {"tool_use"} \cup ResultBlocks =>
                   input.items[i].type \notin CallTypes \cup OutputTypes
  <2> DEFINE item == input.items[i]
             block == BlockIn(history, at)
  <2>1. Stem(item, at) /\ at \in KeptPositions
    BY <1>4, ItemsWithin
  <2>2. block.id = IdIn(history, at)
    BY DEF IdIn
  <2>3. ASSUME block.type = "tool_use"
        PROVE  CallAt(i, at)
    <3>1. at \in PositionsOf(history, {"tool_use"})
      BY <1>2, <2>1, <2>3
    <3>2. item.type \in CallTypes /\ item.type = toolUseBlockToInputItem(block).type /\ item.id = block.id
      BY <2>1, <2>3 DEF Stem
    <3> HIDE DEF item, block
    <3> QED
      BY <1>4, <2>2, <3>1, <3>2 DEF CallAt, item, block
  <2>4. ASSUME block.type = "tool_result"
        PROVE  OutputAt(i, at)
    <3>1. at \in PositionsOf(history, ResultBlocks)
      BY <1>2, <2>1, <2>4 DEF ResultBlocks
    <3>2. /\ item.id = block.id
          /\ \A u \in PositionsOf(history, {"tool_use"}) : IdIn(history, u) = block.id =>
                item.type = ResultType(toolUseKind(BlockIn(history, u)))
      BY <2>1, <2>4 DEF Stem
    <3>3. PICK u \in PositionsOf(history, {"tool_use"}) : IdIn(history, u) = IdIn(history, at)
      BY <3>1 DEF Paired
    <3>4. item.type \in OutputTypes
      BY <1>3, <2>2, <3>2, <3>3
    <3> QED
      BY <1>4, <2>2, <2>4, <3>1, <3>2, <3>4 DEF OutputAt
  <2>5. ASSUME block.type = "tool_search_tool_result"
        PROVE  OutputAt(i, at)
    <3>1. at \in PositionsOf(history, ResultBlocks)
      BY <1>2, <2>1, <2>5 DEF ResultBlocks
    <3>2. item.type = "tool_search_output" /\ item.id = block.id
      BY <2>1, <2>5 DEF Stem
    <3> QED
      BY <1>4, <2>2, <2>5, <3>1, <3>2, TypesApart DEF OutputAt
  <2>6. ASSUME block.type \notin {"tool_use"} \cup ResultBlocks
        PROVE  item.type \notin CallTypes \cup OutputTypes
    BY <2>1, <2>6 DEF Stem
  <2> QED
    BY <2>3, <2>4, <2>5, <2>6 DEF ResultBlocks
<1>5. ASSUME NEW i \in DOMAIN input.items
      PROVE  /\ input.items[i].type \in CallTypes => CallAt(i, input.items[i].from[1])
             /\ input.items[i].type \in OutputTypes => OutputAt(i, input.items[i].from[1])
  <2> DEFINE at == input.items[i].from[1]
  <2>1. Within(i, at)
    BY ItemsWithin
  <2>2. CallAt(i, at) => input.items[i].type \in CallTypes
    BY DEF CallAt
  <2>3. OutputAt(i, at) => input.items[i].type \in OutputTypes
    BY DEF OutputAt
  <2>4. input.items[i].type \notin CallTypes \/ input.items[i].type \notin OutputTypes
    BY TypesApart
  <2> HIDE DEF at
  <2>5. /\ BlockIn(history, at).type = "tool_use" => CallAt(i, at)
        /\ BlockIn(history, at).type \in ResultBlocks => OutputAt(i, at)
        /\ BlockIn(history, at).type \notin {"tool_use"} \cup ResultBlocks =>
              input.items[i].type \notin CallTypes \cup OutputTypes
    BY <1>4, <2>1
  <2>6. /\ input.items[i].type \in CallTypes => CallAt(i, at)
        /\ input.items[i].type \in OutputTypes => OutputAt(i, at)
    BY <2>2, <2>3, <2>4, <2>5
  <2> QED
    BY <2>6 DEF at
<1>6. ASSUME NEW u \in PositionsOf(history, {"tool_use"})
      PROVE  \E c : CallAt(c, u)
  <2>1. u \in KeptPositions /\ BlockIn(history, u).type = "tool_use"
    BY <1>1, PositionsIn
  <2>2. PICK c : Within(c, u)
    BY <2>1, ItemsWithin
  <2> QED
    BY <1>4, <2>1, <2>2
<1>7. ASSUME NEW r \in PositionsOf(history, ResultBlocks)
      PROVE  \E o : OutputAt(o, r)
  <2>1. r \in KeptPositions /\ BlockIn(history, r).type \in ResultBlocks
    BY <1>1, PositionsIn
  <2>2. PICK o : Within(o, r)
    BY <2>1, ItemsWithin
  <2> QED
    BY <1>4, <2>1, <2>2
<1> QED
  BY <1>5, <1>6, <1>7

\* The output of a call comes after it, and is of the type that belongs to it.
LEMMA OutputFits ==
    ASSUME strict \in BOOLEAN, history \in Seq(ChatMessage), NEW n, Paired(history, n), input.ok,
           SearchesAre(history, SearchFound),
           NEW c, NEW u, CallAt(c, u), NEW o, NEW r, OutputAt(o, r), IdIn(history, u) = IdIn(history, r)
    PROVE  /\ c < o
           /\ \/ input.items[o].type = OutputType(input.items[c].type)
              \/ client # "all" /\ BlockIn(history, u).name = "ToolSearch"
<1> DEFINE block == BlockIn(history, u)
           item == input.items[c]
<1>1. /\ Within(c, u) /\ u \in PositionsOf(history, {"tool_use"})
      /\ item.type \in CallTypes /\ item.type = toolUseBlockToInputItem(block).type
  BY DEF CallAt
<1>2. /\ Within(o, r) /\ r \in PositionsOf(history, ResultBlocks)
      /\ input.items[o].type \in OutputTypes
  BY DEF OutputAt
<1>3. u \in PositionsOf(history, CallBlocks)
  BY <1>1 DEF PositionsOf, CallBlocks
<1>4. block \in MessageBlock /\ block.type = "tool_use"
  BY <1>1, PositionsIn
<1>5. Precedes(u, r)
  <2>1. PICK v \in PositionsOf(history, {"tool_use"}) : Precedes(v, r) /\ IdIn(history, v) = IdIn(history, r)
    BY <1>2 DEF Paired
  <2>2. v \in PositionsOf(history, CallBlocks)
    BY <2>1 DEF PositionsOf, CallBlocks
  <2> QED
    BY <1>3, <2>1, <2>2 DEF Paired
<1>6. c < o
  <2>1. c <= o /\ c \in Nat /\ o \in Nat
    BY <1>1, <1>2, <1>5, ItemsWithin DEF Within
  <2>2. c # o
    BY <1>1, <1>2, TypesApart
  <2> QED
    BY <2>1, <2>2
<1>7. Belongs(block) /\ block \in Block
  <2>1. u \in PositionsOf(history, CallBlocks \cup ResultBlocks)
    BY <1>3 DEF PositionsOf
  <2> QED
    BY <1>4, <2>1 DEF Paired, MessageBlock
<1>8. toolUseBlockToInputItem(block) # Failure
  <2>1. Failure.type = "error"
    BY DEF Failure, Item
  <2> HIDE DEF block, item
  <2> QED
    BY <1>1, <2>1, TypesApart
<1> HIDE DEF block
<1>9. /\ ResultType(toolUseKind(block)) = OutputType(item.type)
      /\ IsSearch(block) => item.type = "tool_search_call"
  BY <1>1, <1>4, <1>7, <1>8, TypesMatch
<1>10. CASE BlockIn(history, r).type = "tool_result"
  <2>1. input.items[o].type = ResultType(toolUseKind(block))
    BY <1>1, <1>10 DEF OutputAt, block
  <2> QED
    BY <1>6, <1>9, <2>1
<1>11. CASE BlockIn(history, r).type = "tool_search_tool_result"
  <2>1. input.items[o].type = "tool_search_output"
    BY <1>11 DEF OutputAt
  <2>2. r \in PositionsOf(history, {"tool_search_tool_result"})
    BY <1>2, <1>11 DEF PositionsOf, BlockIn
  <2>3. SearchFound(block)
    BY <1>1, <2>2 DEF SearchesAre, block
  <2>4. OutputType("tool_search_call") = "tool_search_output"
    BY DEF OutputType
  <2> QED
    BY <1>6, <1>9, <2>1, <2>3, <2>4 DEF SearchFound, block
<1>12. BlockIn(history, r).type \in ResultBlocks
  BY <1>2, PositionsIn
<1> QED
  BY <1>10, <1>11, <1>12 DEF ResultBlocks

\* Of an input that goes upstream, when the calls and results of the history fit
\* each other.
LEMMA AnsweredUpstream ==
    ASSUME TypeOK, CallsTogether, Asked, input.ok
    PROVE  CallsAnswered
<1> DEFINE items == input.items
           Calls == {i \in DOMAIN items : items[i].type \in CallTypes}
           Outputs == {i \in DOMAIN items : items[i].type \in OutputTypes}
<1>1. /\ strict \in BOOLEAN /\ history \in Seq(ChatMessage) /\ input.ok
      /\ Paired(history, deeds) /\ SearchesAre(history, SearchFound)
  BY DEF TypeOK, CallsTogether
<1>2. /\ \A c \in Calls : CallAt(c, items[c].from[1])
      /\ \A o \in Outputs : OutputAt(o, items[o].from[1])
      /\ \A u \in PositionsOf(history, {"tool_use"}) : \E c : CallAt(c, u)
      /\ \A r \in PositionsOf(history, ResultBlocks) : \E o : OutputAt(o, r)
  BY <1>1, CallsWithin
<1>3. \A c, u : CallAt(c, u) => /\ c \in Calls /\ items[c].id = IdIn(history, u)
                                /\ u \in PositionsOf(history, {"tool_use"})
  BY DEF CallAt, Within
<1>4. \A o, r : OutputAt(o, r) => /\ o \in Outputs /\ items[o].id = IdIn(history, r)
                                  /\ r \in PositionsOf(history, ResultBlocks) /\ Within(o, r)
  BY DEF OutputAt, Within
<1>5. ASSUME NEW c \in Calls
      PROVE  \/ ListedTools(items[c]) \/ SplitSearch(items[c])
             \/ \E o \in Outputs : /\ o > c /\ items[o].type = OutputType(items[c].type)
                                   /\ {p \in Outputs : items[p].id = items[c].id} = {o}
  <2> DEFINE u == items[c].from[1]
  <2>1. CallAt(c, u) /\ u \in PositionsOf(history, {"tool_use"}) /\ items[c].id = IdIn(history, u)
    BY <1>2, <1>3
  <2>2. Answered(history, u) \/ Listed(history, u)
    BY <2>1 DEF CallsTogether, Asked
  <2>3. ASSUME Listed(history, u)
        PROVE  ListedTools(items[c])
    BY <2>1, <2>3 DEF Listed, ListedTools, BlockIn
  <2>4. ASSUME Answered(history, u)
        PROVE  \/ SplitSearch(items[c])
               \/ \E o \in Outputs : /\ o > c /\ items[o].type = OutputType(items[c].type)
                                     /\ {p \in Outputs : items[p].id = items[c].id} = {o}
    <3>1. PICK r \in PositionsOf(history, ResultBlocks) : IdIn(history, r) = IdIn(history, u)
      BY <2>4 DEF Answered
    <3>2. PICK o : OutputAt(o, r)
      BY <1>2
    <3>3. o \in Outputs /\ items[o].id = items[c].id /\ Within(o, r)
      BY <1>4, <2>1, <3>1, <3>2
    <3>4. ASSUME NEW p \in Outputs, items[p].id = items[c].id
          PROVE  p = o
      <4>1. PICK s : OutputAt(p, s)
        BY <1>2
      <4>2. s \in PositionsOf(history, ResultBlocks) /\ IdIn(history, s) = IdIn(history, r) /\ Within(p, s)
        BY <1>4, <2>1, <3>1, <3>4, <4>1
      <4>3. s = r
        BY <1>1, <4>2 DEF Paired
      <4> QED
        BY <1>1, <3>3, <4>2, <4>3, ItemsWithin
    <3>5. {p \in Outputs : items[p].id = items[c].id} = {o}
      BY <3>3, <3>4
    <3>6. /\ c < o
          /\ \/ items[o].type = OutputType(items[c].type)
             \/ client # "all" /\ BlockIn(history, u).name = "ToolSearch"
      BY <1>1, <2>1, <3>1, <3>2, OutputFits
    <3>7. c \in Nat /\ o \in Nat
      BY <1>1, <3>3, ItemsWithin
    <3>8. o > c
      BY <3>6, <3>7
    <3>9. client # "all" /\ BlockIn(history, u).name = "ToolSearch" => SplitSearch(items[c])
      BY DEF SplitSearch, BlockIn
    <3> HIDE DEF Outputs, u, items
    <3> QED
      BY <3>3, <3>5, <3>6, <3>8, <3>9
  <2> QED
    BY <2>2, <2>3, <2>4
<1>6. ASSUME NEW o \in Outputs
      PROVE  \E c \in Calls : c < o /\ items[c].id = items[o].id
  <2>1. PICK r : OutputAt(o, r)
    BY <1>2
  <2>2. r \in PositionsOf(history, ResultBlocks) /\ items[o].id = IdIn(history, r)
    BY <1>4, <2>1
  <2>3. PICK u \in PositionsOf(history, {"tool_use"}) : IdIn(history, u) = IdIn(history, r)
    BY <1>1, <2>2 DEF Paired
  <2>4. PICK c : CallAt(c, u)
    BY <1>2
  <2>5. c \in Calls /\ items[c].id = IdIn(history, u)
    BY <1>3, <2>4
  <2>6. c < o
    BY <1>1, <2>1, <2>3, <2>4, OutputFits
  <2> QED
    BY <2>2, <2>3, <2>5, <2>6
<1> QED
  BY <1>5, <1>6 DEF CallsAnswered

\* In every input that the bridge sends upstream, each call has exactly one output,
\* later and of its type, and each output has its call: whatever the client kept of
\* the history, and however late it answers.  It follows from the invariant that the
\* calls and results of the history fit each other, since the conversion keeps the
\* order of the blocks, gives a call's item the type its kind stands for, and has
\* every call's kind by the time it meets the result (messageToInputItems).
THEOREM CallsAreAnswered == Spec => []CallsAnswered
<1>1. TypeOK /\ CallsTogether => CallsAnswered
  <2>1. (Asked /\ input.ok) \/ CallsAnswered
    BY DEF CallsAnswered
  <2> QED
    BY <2>1, AnsweredUpstream
<1> QED
  BY <1>1, TypeCorrect, CallsStayTogether, PTL

-----------------------------------------------------------------------------
(* Sequences made of the elements of a sequence                             *)

\* A sequence is one of the set its elements are in.
LEMMA Narrowed ==
    ASSUME NEW S, NEW T, NEW s \in Seq(S), \A k \in 1 .. Len(s) : s[k] \in T
    PROVE  s \in Seq(T)
<1>1. Len(s) \in Nat /\ s = [k \in 1 .. Len(s) |-> s[k]]
  OBVIOUS
<1> QED
  BY <1>1

\* The first elements of a sequence.
Upto(s, n) == [i \in 1 .. n |-> s[i]]

\* They grow one by one.
LEMMA UptoGrows ==
    ASSUME NEW T, NEW s \in Seq(T)
    PROVE  /\ Len(s) \in Nat /\ DOMAIN s = 1 .. Len(s)
           /\ Upto(s, 0) = << >> /\ Upto(s, Len(s)) = s
           /\ \A n \in 0 .. Len(s) : Upto(s, n) \in Seq(T)
           /\ \A n \in 0 .. Len(s) : n # Len(s) =>
                 n + 1 \in 1 .. Len(s) /\ s[n + 1] \in T /\ Upto(s, n + 1) = Append(Upto(s, n), s[n + 1])
<1>1. Len(s) \in Nat /\ DOMAIN s = 1 .. Len(s)
  OBVIOUS
<1>2. Upto(s, 0) = << >> /\ Upto(s, Len(s)) = s
  BY DEF Upto
<1>3. \A n \in 0 .. Len(s) : Upto(s, n) \in Seq(T)
  BY DEF Upto
<1>4. ASSUME NEW n \in 0 .. Len(s), n # Len(s)
      PROVE  n + 1 \in 1 .. Len(s) /\ s[n + 1] \in T /\ Upto(s, n + 1) = Append(Upto(s, n), s[n + 1])
  <2>0. Len(s) \in Nat
    BY <1>1
  <2>1. n + 1 \in 1 .. Len(s) /\ n \in Nat
    <3> HIDE <1>1
    <3> QED
      BY <1>4, <2>0
  <2>2. s[n + 1] \in T
    BY <2>1
  <2>3. Upto(s, n) \in Seq(T) /\ Len(Upto(s, n)) = n
    BY <1>3, <2>1 DEF Upto
  <2>4. Append(Upto(s, n), s[n + 1]) = [i \in 1 .. n + 1 |-> IF i = n + 1 THEN s[n + 1] ELSE Upto(s, n)[i]]
    BY <2>2, <2>3
  <2> QED
    BY <2>1, <2>2, <2>4 DEF Upto
<1> QED
  BY <1>1, <1>2, <1>3, <1>4

\* One more sequence is joined at the end.
LEMMA JoinedAppend ==
    ASSUME NEW T, NEW seqs \in Seq(Seq(T)), NEW x \in Seq(T)
    PROVE  FlattenSeq(Append(seqs, x)) = FlattenSeq(seqs) \o x
<1> DEFINE N == Len(seqs)
           Q == Seq(T)
           longer == Append(seqs, x)
<1>1. /\ N \in Nat /\ longer \in Seq(Q) /\ Len(longer) = N + 1 /\ longer[N + 1] = x
      /\ \A i \in 1 .. N : longer[i] = seqs[i]
  OBVIOUS
<1>2. N + 1 \in 1 .. N + 1 /\ N + 1 # 0 /\ (N + 1) - 1 = N
  BY <1>1
<1> HIDE DEF longer
<1>3. PICK g : /\ FlattenSeq(longer) = g[N + 1]
               /\ \A i \in 1 .. N + 1 : g[i] = IF i = 1 THEN longer[i] ELSE g[i - 1] \o longer[i]
  <2> HIDE DEF Q, N
  <2>1. longer \in Seq(Seq(T)) /\ Len(longer) = N + 1 /\ Len(longer) # 0
    BY <1>1, <1>2 DEF Q
  <2>2. PICK g : /\ FlattenSeq(longer) = g[Len(longer)]
                 /\ \A i \in 1 .. Len(longer) :
                       /\ g[i] \in Seq(T)
                       /\ g[i] = IF i = 1 THEN longer[i] ELSE g[i - 1] \o longer[i]
    BY <2>1, JoiningLoop, Zenon
  <2>3. FlattenSeq(longer) = g[N + 1]
    BY <2>1, <2>2, Zenon
  <2>4. \A i \in 1 .. N + 1 : g[i] = IF i = 1 THEN longer[i] ELSE g[i - 1] \o longer[i]
    BY <2>1, <2>2, Zenon
  <2> QED
    BY <2>3, <2>4, Zenon
<1>4. CASE N = 0
  <2>1. g[1] = x
    BY <1>1, <1>2, <1>3, <1>4
  <2>2. FlattenSeq(seqs) = << >>
    BY <1>4 DEF FlattenSeq
  <2>3. << >> \o x = x
    OBVIOUS
  <2> QED
    BY <1>3, <1>4, <2>1, <2>2, <2>3 DEF longer
<1>5. CASE N # 0
  <2>1. PICK f : /\ FlattenSeq(seqs) = f[N]
                 /\ \A i \in 1 .. N : /\ f[i] \in Seq(T)
                                      /\ f[i] = IF i = 1 THEN seqs[i] ELSE f[i - 1] \o seqs[i]
    BY <1>5, JoiningLoop, Zenon
  <2> DEFINE S == {i \in 0 .. N : i # 0 => g[i] = f[i]}
  <2>2. 0 \in S
    BY <1>1
  <2>3. ASSUME NEW i \in 0 .. N, i # N, i \in S
        PROVE  i + 1 \in S
    <3>1. i + 1 \in 1 .. N /\ i + 1 \in 1 .. N + 1 /\ i + 1 \in 0 .. N /\ (i + 1) - 1 = i /\ (i + 1 = 1 <=> i = 0)
      BY <1>1, <2>3
    <3>2. g[i + 1] = IF i = 0 THEN seqs[i + 1] ELSE g[i] \o seqs[i + 1]
      BY <1>1, <1>3, <3>1
    <3>3. f[i + 1] = IF i = 0 THEN seqs[i + 1] ELSE f[i] \o seqs[i + 1]
      BY <2>1, <3>1
    <3> QED
      BY <2>3, <3>1, <3>2, <3>3
  <2> HIDE DEF S
  <2>4. \A i \in 0 .. N : i \in S
    BY <1>1, <2>2, <2>3, Induction
  <2>5. N \in 0 .. N
    BY <1>1
  <2>6. g[N] = f[N]
    BY <1>5, <2>4, <2>5 DEF S
  <2>7. g[N + 1] = g[N] \o x
    <3>1. N + 1 # 1
      BY <1>1, <1>5
    <3> QED
      BY <1>1, <1>2, <1>3, <3>1
  <2> QED
    BY <1>3, <2>1, <2>6, <2>7 DEF longer
<1> QED
  BY <1>4, <1>5

\* The functions that make a sequence of each element.
Maps(T, U) == [T -> Seq(U)]

\* What f makes of the elements of s, as one sequence.
Spread(f, s) == FlattenSeq([i \in DOMAIN s |-> f[s[i]]])

\* Of nothing, and of one element more.
LEMMA SpreadAppend ==
    ASSUME NEW T, NEW U, NEW f \in Maps(T, U)
    PROVE  /\ Spread(f, << >>) = << >> /\ \A s \in Seq(T) : Spread(f, s) \in Seq(U)
           /\ \A s \in Seq(T), x \in T : Spread(f, Append(s, x)) = Spread(f, s) \o f[x]
           /\ \A x \in T : f[x] \in Seq(U) /\ Spread(f, <<x>>) = f[x]
<1> DEFINE g(q) == [i \in DOMAIN q |-> f[q[i]]]
<1>0. \A x \in T : f[x] \in Seq(U)
  BY DEF Maps
<1>1. \A q \in Seq(T) : g(q) \in Seq(Seq(U))
  BY <1>0
<1>2. \A q \in Seq(T), x \in T : g(Append(q, x)) = Append(g(q), f[x])
  <2> TAKE q \in Seq(T), x \in T
  <2>1. Len(q) \in Nat /\ DOMAIN q = 1 .. Len(q)
    OBVIOUS
  <2>2. /\ Len(Append(q, x)) = Len(q) + 1 /\ DOMAIN Append(q, x) = 1 .. Len(q) + 1
        /\ \A i \in 1 .. Len(q) + 1 : Append(q, x)[i] = IF i = Len(q) + 1 THEN x ELSE q[i]
    BY <2>1
  <2>3. Len(g(q)) = Len(q) /\ g(q) \in Seq(Seq(U))
    <3>1. DOMAIN g(q) = 1 .. Len(q)
      BY <2>1
    <3>2. g(q) \in Seq(Seq(U))
      BY <1>1
    <3> QED
      BY <2>1, <3>1, <3>2
  <2>4. Append(g(q), f[x]) = [i \in 1 .. Len(q) + 1 |-> IF i = Len(q) + 1 THEN f[x] ELSE g(q)[i]]
    BY <2>3
  <2> QED
    BY <2>1, <2>2, <2>4
<1>3. Spread(f, << >>) = << >>
  BY DEF Spread, FlattenSeq
<1>4. \A s \in Seq(T) : Spread(f, s) \in Seq(U)
  BY <1>1, Joined DEF Spread
<1>5. ASSUME NEW q \in Seq(T), NEW x \in T
      PROVE  Spread(f, Append(q, x)) = Spread(f, q) \o f[x]
  <2>1. g(q) \in Seq(Seq(U)) /\ f[x] \in Seq(U)
    BY <1>0, <1>1
  <2>2. FlattenSeq(Append(g(q), f[x])) = FlattenSeq(g(q)) \o f[x]
    BY <2>1, JoinedAppend
  <2> QED
    BY <1>2, <2>2 DEF Spread
<1>6. ASSUME NEW x \in T
      PROVE  Spread(f, <<x>>) = f[x]
  <2>1. <<x>> = Append(<< >>, x) /\ << >> \in Seq(T)
    OBVIOUS
  <2>2. << >> \o f[x] = f[x]
    BY <1>0
  <2>3. Spread(f, Append(<< >>, x)) = Spread(f, << >>) \o f[x]
    BY <1>5, <2>1
  <2> QED
    BY <1>3, <2>1, <2>2, <2>3
<1> QED
  BY <1>0, <1>3, <1>4, <1>5, <1>6

\* Joining more to the end is associative, and so is adding one.
LEMMA JoinRight ==
    ASSUME NEW T, NEW s \in Seq(T), NEW t \in Seq(T)
    PROVE  /\ s \o t \in Seq(T) /\ s \o << >> = s /\ << >> \o s = s
           /\ \A u \in Seq(T) : (s \o t) \o u = s \o (t \o u)
           /\ \A x \in T : Append(s \o t, x) = s \o Append(t, x) /\ Append(s, x) = s \o <<x>>
<1>1. s \o t \in Seq(T) /\ s \o << >> = s /\ << >> \o s = s
  OBVIOUS
<1>2. \A u \in Seq(T) : (s \o t) \o u = s \o (t \o u)
  OBVIOUS
<1>3. \A x \in T : Append(s \o t, x) = s \o Append(t, x) /\ Append(s, x) = s \o <<x>>
  OBVIOUS
<1> QED
  BY <1>1, <1>2, <1>3

\* Of two sequences joined.
LEMMA SpreadJoin ==
    ASSUME NEW T, NEW U, NEW f \in Maps(T, U), NEW s \in Seq(T), NEW t \in Seq(T)
    PROVE  Spread(f, s \o t) = Spread(f, s) \o Spread(f, t)
<1> DEFINE N == Len(t)
           S == {n \in 0 .. N : Spread(f, s \o Upto(t, n)) = Spread(f, s) \o Spread(f, Upto(t, n))}
<1>1. /\ N \in Nat /\ Upto(t, 0) = << >> /\ Upto(t, N) = t
      /\ \A n \in 0 .. N : Upto(t, n) \in Seq(T)
      /\ \A n \in 0 .. N : n # N => n + 1 \in 1 .. N /\ t[n + 1] \in T /\ Upto(t, n + 1) = Append(Upto(t, n), t[n + 1])
  BY UptoGrows
<1> HIDE DEF N
<1>2. /\ Spread(f, << >>) = << >> /\ \A q \in Seq(T) : Spread(f, q) \in Seq(U)
      /\ \A q \in Seq(T), x \in T : Spread(f, Append(q, x)) = Spread(f, q) \o f[x]
      /\ \A x \in T : f[x] \in Seq(U)
  BY SpreadAppend, Zenon
<1>3. 0 \in S
  <2>1. s \o << >> = s /\ Spread(f, s) \in Seq(U)
    BY <1>2, JoinRight
  <2>2. Spread(f, s) \o << >> = Spread(f, s)
    BY <2>1
  <2>3. 0 \in 0 .. N
    BY <1>1
  <2> QED
    BY <1>1, <1>2, <2>1, <2>2, <2>3, Zenon
<1>4. ASSUME NEW n \in 0 .. N, n # N, n \in S
      PROVE  n + 1 \in S
  <2> DEFINE p == Upto(t, n)
             x == t[n + 1]
  <2>1. p \in Seq(T) /\ x \in T /\ Upto(t, n + 1) = Append(p, x) /\ n + 1 \in 0 .. N
    <3>1. p \in Seq(T) /\ x \in T /\ Upto(t, n + 1) = Append(p, x) /\ n + 1 \in 1 .. N
      BY <1>1, <1>4, Zenon
    <3>2. n + 1 \in 0 .. N
      BY <1>1, <3>1
    <3> QED
      BY <3>1, <3>2
  <2>2. Spread(f, s \o p) = Spread(f, s) \o Spread(f, p)
    BY <1>4, Zenon
  <2> HIDE DEF p, x, S
  <2>3. s \o Append(p, x) = Append(s \o p, x) /\ s \o p \in Seq(T)
    BY <2>1, JoinRight
  <2>4. Spread(f, Append(s \o p, x)) = Spread(f, s \o p) \o f[x]
    BY <1>2, <2>1, <2>3, Zenon
  <2>5. Spread(f, Append(p, x)) = Spread(f, p) \o f[x]
    BY <1>2, <2>1, Zenon
  <2>6. Spread(f, s) \in Seq(U) /\ Spread(f, p) \in Seq(U) /\ f[x] \in Seq(U)
    BY <1>2, <2>1, Zenon
  <2>7. (Spread(f, s) \o Spread(f, p)) \o f[x] = Spread(f, s) \o (Spread(f, p) \o f[x])
    <3>1. \A a, b, c \in Seq(U) : (a \o b) \o c = a \o (b \o c)
      BY JoinRight
    <3> QED
      BY <2>6, <3>1, Zenon
  <2>8. Spread(f, s \o Upto(t, n + 1)) = Spread(f, s) \o Spread(f, Upto(t, n + 1))
    BY <2>1, <2>2, <2>3, <2>4, <2>5, <2>7, Zenon
  <2> QED
    BY <2>1, <2>8, Zenon DEF S
<1> HIDE DEF S
<1>5. \A n \in 0 .. N : n \in S
  BY <1>1, <1>3, <1>4, Induction
<1>6. N \in 0 .. N
  BY <1>1
<1>7. N \in S
  BY <1>5, <1>6
<1> QED
  BY <1>1, <1>7, Zenon DEF S

\* Of many.
LEMMA SpreadJoined ==
    ASSUME NEW T, NEW U, NEW f \in Maps(T, U), NEW seqs \in Seq(Seq(T))
    PROVE  Spread(f, FlattenSeq(seqs)) = FlattenSeq([k \in DOMAIN seqs |-> Spread(f, seqs[k])])
<1> DEFINE N == Len(seqs)
           g(n) == [k \in 1 .. n |-> Spread(f, seqs[k])]
           S == {n \in 0 .. N : Spread(f, FlattenSeq(Upto(seqs, n))) = FlattenSeq(g(n))}
<1>1. /\ N \in Nat /\ DOMAIN seqs = 1 .. N /\ Upto(seqs, 0) = << >> /\ Upto(seqs, N) = seqs
      /\ \A n \in 0 .. N : Upto(seqs, n) \in Seq(Seq(T))
      /\ \A n \in 0 .. N : n # N => /\ n + 1 \in 1 .. N /\ seqs[n + 1] \in Seq(T)
                                    /\ Upto(seqs, n + 1) = Append(Upto(seqs, n), seqs[n + 1])
      /\ \A k \in 1 .. N : seqs[k] \in Seq(T)
  BY UptoGrows
<1> HIDE DEF N
<1>2. Spread(f, << >>) = << >> /\ \A q \in Seq(T) : Spread(f, q) \in Seq(U)
  BY SpreadAppend, Zenon
<1>3. \A n \in 0 .. N : g(n) \in Seq(Seq(U)) /\ Len(g(n)) = n
  <2> TAKE n \in 0 .. N
  <2>1. n \in Nat /\ \A k \in 1 .. n : k \in 1 .. N
    BY <1>1
  <2>2. \A k \in 1 .. n : Spread(f, seqs[k]) \in Seq(U)
    BY <1>1, <1>2, <2>1, Zenon
  <2> QED
    BY <2>1, <2>2
<1>4. 0 \in S
  <2>1. FlattenSeq(<< >>) = << >> /\ g(0) = << >> /\ 0 \in 0 .. N
    BY <1>1 DEF FlattenSeq
  <2> QED
    BY <1>1, <1>2, <2>1, Zenon
<1>5. ASSUME NEW n \in 0 .. N, n # N, n \in S
      PROVE  n + 1 \in S
  <2> DEFINE p == Upto(seqs, n)
             x == seqs[n + 1]
  <2>1. p \in Seq(Seq(T)) /\ x \in Seq(T) /\ Upto(seqs, n + 1) = Append(p, x) /\ n + 1 \in 0 .. N /\ n \in Nat
    <3>1. p \in Seq(Seq(T)) /\ x \in Seq(T) /\ Upto(seqs, n + 1) = Append(p, x) /\ n + 1 \in 1 .. N
      BY <1>1, <1>5, Zenon
    <3>2. n + 1 \in 0 .. N /\ n \in Nat
      BY <1>1, <3>1
    <3> QED
      BY <3>1, <3>2
  <2>2. g(n + 1) = Append(g(n), Spread(f, x))
    <3>1. Append(g(n), Spread(f, x)) = [k \in 1 .. n + 1 |-> IF k = n + 1 THEN Spread(f, x) ELSE g(n)[k]]
      BY <1>3, <2>1
    <3> QED
      BY <2>1, <3>1
  <2>3. Spread(f, FlattenSeq(p)) = FlattenSeq(g(n)) /\ g(n) \in Seq(Seq(U))
    BY <1>3, <1>5, Zenon
  <2> HIDE DEF p, x, g, S
  <2>4. FlattenSeq(Append(p, x)) = FlattenSeq(p) \o x
    BY <2>1, JoinedAppend
  <2>5. FlattenSeq(p) \in Seq(T) /\ Spread(f, x) \in Seq(U)
    BY <1>2, <2>1, Joined
  <2>6. Spread(f, FlattenSeq(p) \o x) = Spread(f, FlattenSeq(p)) \o Spread(f, x)
    <3>1. \A a, b \in Seq(T) : Spread(f, a \o b) = Spread(f, a) \o Spread(f, b)
      BY SpreadJoin
    <3> QED
      BY <2>1, <2>5, <3>1, Zenon
  <2>7. FlattenSeq(Append(g(n), Spread(f, x))) = FlattenSeq(g(n)) \o Spread(f, x)
    BY <2>3, <2>5, JoinedAppend
  <2>8. Spread(f, FlattenSeq(Upto(seqs, n + 1))) = FlattenSeq(g(n + 1))
    BY <2>1, <2>2, <2>3, <2>4, <2>6, <2>7, Zenon
  <2> QED
    BY <2>1, <2>8, Zenon DEF S
<1> HIDE DEF S
<1>6. \A n \in 0 .. N : n \in S
  BY <1>1, <1>4, <1>5, Induction
<1>7. N \in 0 .. N
  BY <1>1
<1>8. N \in S
  BY <1>6, <1>7
<1> QED
  BY <1>1, <1>8, Zenon DEF S

\* Elements that each become one.
LEMMA SpreadSingles ==
    ASSUME NEW T, NEW U, NEW f \in Maps(T, U), NEW s \in Seq(T), NEW t \in Seq(U)
    PROVE  Len(t) = Len(s) /\ (\A k \in 1 .. Len(s) : f[s[k]] = <<t[k]>>) => Spread(f, s) = t
<1> DEFINE N == Len(s)
           S == {n \in 0 .. N : Spread(f, Upto(s, n)) = Upto(t, n)}
<1>4. /\ Spread(f, << >>) = << >> /\ \A q \in Seq(T) : Spread(f, q) \in Seq(U)
      /\ \A q \in Seq(T), x \in T : Spread(f, Append(q, x)) = Spread(f, q) \o f[x]
  BY SpreadAppend, Zenon
<1>0. SUFFICES ASSUME Len(t) = N, \A k \in 1 .. N : f[s[k]] = <<t[k]>>
               PROVE  Spread(f, s) = t
  OBVIOUS
<1>1. /\ N \in Nat /\ Upto(s, 0) = << >> /\ Upto(s, N) = s
      /\ \A n \in 0 .. N : Upto(s, n) \in Seq(T)
      /\ \A n \in 0 .. N : n # N => n + 1 \in 1 .. N /\ s[n + 1] \in T /\ Upto(s, n + 1) = Append(Upto(s, n), s[n + 1])
  BY UptoGrows
<1>2. /\ Upto(t, 0) = << >> /\ Upto(t, N) = t
      /\ \A n \in 0 .. N : Upto(t, n) \in Seq(U)
      /\ \A n \in 0 .. N : n # N => t[n + 1] \in U /\ Upto(t, n + 1) = Append(Upto(t, n), t[n + 1])
  BY <1>0, UptoGrows
<1>3. \A k \in 1 .. N : f[s[k]] = <<t[k]>>
  BY <1>0
<1> HIDE DEF N
<1>5. 0 \in S
  <2>1. 0 \in 0 .. N
    BY <1>1
  <2> QED
    BY <1>1, <1>2, <1>4, <2>1, Zenon
<1>6. ASSUME NEW n \in 0 .. N, n # N, n \in S
      PROVE  n + 1 \in S
  <2> DEFINE p == Upto(s, n)
             q == Upto(t, n)
             x == s[n + 1]
             y == t[n + 1]
  <2>1. p \in Seq(T) /\ x \in T /\ Upto(s, n + 1) = Append(p, x) /\ n + 1 \in 1 .. N
    BY <1>1, <1>6, Zenon
  <2>2. q \in Seq(U) /\ y \in U /\ Upto(t, n + 1) = Append(q, y)
    BY <1>2, <1>6, Zenon
  <2>3. f[x] = <<y>>
    BY <1>3, <2>1, Zenon
  <2>4. Spread(f, p) = q
    BY <1>6, Zenon
  <2> HIDE DEF p, q, x, y, S
  <2>5. Append(q, y) = q \o <<y>>
    BY <2>2
  <2>6. Spread(f, Append(p, x)) = Spread(f, p) \o f[x]
    BY <1>4, <2>1, Zenon
  <2>7. n + 1 \in 0 .. N
    BY <1>1, <2>1
  <2>8. Spread(f, Upto(s, n + 1)) = Upto(t, n + 1)
    BY <2>1, <2>2, <2>3, <2>4, <2>5, <2>6, Zenon
  <2> QED
    BY <2>7, <2>8, Zenon DEF S
<1> HIDE DEF S
<1>7. \A n \in 0 .. N : n \in S
  BY <1>1, <1>5, <1>6, Induction
<1>8. N \in 0 .. N
  BY <1>1
<1>9. N \in S
  BY <1>7, <1>8
<1> QED
  BY <1>1, <1>2, <1>9, Zenon DEF S

\* Nothing, however often, is nothing.
LEMMA SpreadNothing ==
    ASSUME NEW T, NEW seqs \in Seq(Seq(T)), \A k \in 1 .. Len(seqs) : seqs[k] = << >>
    PROVE  FlattenSeq(seqs) = << >>
<1>1. \A k \in 1 .. Len(seqs) : seqs[k] \in Seq({})
  OBVIOUS
<1>2. seqs \in Seq(Seq({}))
  BY <1>1, Narrowed
<1>3. FlattenSeq(seqs) \in Seq({})
  BY <1>2, Joined
<1> QED
  BY <1>3

\* Of two elements.
LEMMA SpreadTwo ==
    ASSUME NEW T, NEW U, NEW f \in Maps(T, U), NEW x \in T, NEW y \in T
    PROVE  Spread(f, <<x, y>>) = f[x] \o f[y]
<1>1. \A q \in Seq(T), z \in T : Spread(f, Append(q, z)) = Spread(f, q) \o f[z]
  BY SpreadAppend, Zenon
<1>2. \A z \in T : Spread(f, <<z>>) = f[z]
  BY SpreadAppend, Zenon
<1>3. <<x>> \in Seq(T) /\ <<x, y>> = Append(<<x>>, y)
  OBVIOUS
<1> QED
  BY <1>1, <1>2, <1>3, Zenon

-----------------------------------------------------------------------------
(* What comes of the blocks of an answer                                    *)

\* The types of the items that the upstream reads.
ReadTypes == SafeTypes \cup Kinds \cup {None}

\* What it reads (Flat).
Reading == Contents \cup [type : ReadTypes, id : Nat]

\* The blocks of a whole answer, as a client keeps them that keeps everything.
OwnBlock ==
    {block \in MessageBlock :
        /\ block.type \in {"text", "thinking"} \cup ItemBlocks
        /\ block.body = "some" /\ ~ block.commentary /\ block.stored # "malformed" /\ Belongs(block)
        /\ block.type = "compaction" => block.id = 0
        /\ block.type = "image_generation_call" => block.id # 0
        /\ block.type = "server_tool_use" => block.stored = "web_search_call"}

\* The item such a block becomes.  The result of a call that came whole is one of a
\* function call.
PieceType(block) ==
    CASE block.type = "tool_use"                -> toolUseBlockToInputItem(block).type
      [] block.type = "tool_result"             -> "function_call_output"
      [] block.type = "server_tool_use"         -> "web_search_call"
      [] block.type = "tool_search_tool_result" -> "tool_search_output"
      [] block.type = "responses_output_item"   -> "unrecognized"
      [] OTHER                                  -> block.type

\* What the upstream reads of such a block.
Piece(block) ==
    CASE block.type = "text" -> <<textType("assistant", block)>>
      [] block.type \in ItemBlocks \ {"web_search_tool_result"} ->
            <<[type |-> PieceType(block), id |-> block.id]>>
      [] OTHER -> << >>

\* It has a type, and is no message.
LEMMA PieceTyped ==
    ASSUME strict \in BOOLEAN, NEW block \in OwnBlock
    PROVE  /\ block.type \in ItemBlocks \ {"web_search_tool_result"} =>
                 PieceType(block) \in ItemTypes \ {"message"}
           /\ block.type = "tool_use" => toolUseBlockToInputItem(block) = Item(PieceType(block), block.id)
           /\ Piece(block) \in Seq(Reading)
<1>1. block \in Block /\ block \in MessageBlock /\ Belongs(block) /\ block.stored # "malformed" /\ block.id \in Nat
  BY DEF OwnBlock, MessageBlock, Block
<1>2. ASSUME block.type = "tool_use"
      PROVE  /\ PieceType(block) \in ItemTypes \ {"message"}
             /\ toolUseBlockToInputItem(block) = Item(PieceType(block), block.id)
  <2>0. block.body \in Decoded
    BY DEF OwnBlock, Decoded
  <2>1. PICK type \in ItemTypes : toolUseBlockToInputItem(block) = Item(type, block.id)
    BY <1>1, <2>0, CallItem
  <2>2. type \notin {None, "error"}
    BY NotTypes
  <2>3. toolUseBlockToInputItem(block).type = type /\ toolUseBlockToInputItem(block) # Failure
    BY <2>1, <2>2, ItemsDiffer
  <2>4. type \in CallTypes
    BY <1>1, <1>2, <2>3, TypesMatch
  <2>5. PieceType(block) = type
    BY <1>2, <2>3 DEF PieceType
  <2> QED
    BY <2>1, <2>4, <2>5 DEF CallTypes
<1>3. block.type \in ItemBlocks \ {"web_search_tool_result", "tool_use"} =>
         PieceType(block) \in ItemTypes \ {"message"}
  BY DEF PieceType, ItemBlocks, ItemTypes, SafeTypes, Kinds
<1>4. CASE block.type \in ItemBlocks \ {"web_search_tool_result"}
  <2> DEFINE x == [type |-> PieceType(block), id |-> block.id]
  <2>1. PieceType(block) \in ReadTypes
    BY <1>2, <1>3, <1>4 DEF ItemTypes, ReadTypes
  <2>2. x \in Reading
    BY <1>1, <2>1 DEF Reading
  <2>3. Piece(block) = <<x>>
    BY <1>4 DEF Piece, ItemBlocks
  <2> HIDE DEF x
  <2>4. <<x>> \in Seq(Reading)
    BY <2>2
  <2> QED
    BY <1>2, <1>3, <1>4, <2>3, <2>4
<1>5. CASE block.type = "text"
  <2>1. textType("assistant", block) \in Reading
    BY DEF textType, Reading, Contents
  <2>2. Piece(block) = <<textType("assistant", block)>>
    BY <1>5 DEF Piece, ItemBlocks
  <2> QED
    BY <1>5, <2>1, <2>2 DEF ItemBlocks
<1>6. CASE block.type \notin {"text"} \cup (ItemBlocks \ {"web_search_tool_result"})
  <2>1. Piece(block) = << >>
    BY <1>6 DEF Piece
  <2> QED
    BY <1>2, <1>6, <2>1
<1> QED
  BY <1>4, <1>5, <1>6

\* The item of such a block joins the conversion.
LEMMA PieceMade ==
    ASSUME strict \in BOOLEAN, NEW c \in Conversion, NEW block \in OwnBlock, NEW at,
           block.type \in ItemBlocks,
           block.type = "tool_result" => kindOf(c, block.id) = "function_call"
    PROVE  LET d == convertItemBlock(c, block, at)
           IN  IF block.type = "web_search_tool_result" THEN d = c
               ELSE \E kinds \in KindMap : d = With(c, PieceType(block), block.id, kinds, at)
<1> DEFINE d == convertItemBlock(c, block, at)
           type == PieceType(block)
           item == Item(type, block.id)
<1>1. /\ block \in Block /\ block.stored # "malformed" /\ block.body = "some" /\ block.id \in Nat
      /\ Acceptable(block) /\ Belongs(block)
      /\ block.type = "compaction" => block.id = 0
      /\ block.type = "image_generation_call" => block.id # 0
      /\ block.type = "server_tool_use" => block.stored = "web_search_call"
  BY DEF OwnBlock, MessageBlock, Block
<1>2. block.type # "web_search_tool_result" => type \in ItemTypes
  BY PieceTyped
<1>3. ASSUME NEW e \in Conversion, e = [c EXCEPT !.kinds = e.kinds], type \in ItemTypes
      PROVE  /\ put(e, item, at) = With(c, type, block.id, e.kinds, at)
             /\ putAlways(e, item, at) = With(c, type, block.id, e.kinds, at)
             /\ e.kinds \in KindMap
  <2>1. put(e, item, at) = With(e, type, block.id, e.kinds, at)
        /\ putAlways(e, item, at) = With(e, type, block.id, e.kinds, at)
    BY <1>3, PuttingItem
  <2>2. e.items = c.items /\ e.kinds \in KindMap
    BY <1>3 DEF Conversion
  <2>3. With(e, type, block.id, e.kinds, at) = With(c, type, block.id, e.kinds, at)
    BY <1>3, <2>2 DEF With, Conversion
  <2> QED
    BY <2>1, <2>2, <2>3
<1>4. c = [c EXCEPT !.kinds = c.kinds]
  BY DEF Conversion
<1> HIDE DEF type, item
<1>5. CASE block.type = "tool_use"
  <2>1. block.name # None /\ block.id # 0
    BY <1>1, <1>5 DEF Acceptable
  <2>2. toolUseBlockToInputItem(block) = item
    BY <1>5, PieceTyped DEF type, item
  <2> DEFINE e == remember(c, block.id, toolUseKind(block))
  <2>3. e \in Conversion /\ e = [c EXCEPT !.kinds = e.kinds]
    BY <1>1, CallItem, Remembered
  <2>4. d = put(e, item, at)
    BY <1>1, <1>5, <2>1, <2>2 DEF convertItemBlock
  <2> HIDE DEF e
  <2> QED
    BY <1>2, <1>3, <1>5, <2>3, <2>4 DEF type, item
<1>6. CASE block.type = "server_tool_use"
  <2>1. serverToolUseToInputItem(block) = item
    <3>1. type = "web_search_call"
      BY <1>6 DEF PieceType, type
    <3>2. stored(block) = item
      BY <1>1, <1>6, <3>1 DEF stored, SafeTypes, item
    <3>3. item # NoItem
      <4>1. type \in ItemTypes /\ type # None
        BY <3>1, NotTypes DEF ItemTypes, SafeTypes
      <4> QED
        BY <4>1 DEF item, Item, NoItem
    <3> QED
      BY <3>2, <3>3 DEF serverToolUseToInputItem
  <2>2. item.type = type /\ type \in CallKinds
    <3>1. type = "web_search_call"
      BY <1>6 DEF PieceType, type
    <3> QED
      BY <3>1 DEF item, Item, CallKinds, SafeTypes
  <2> DEFINE e == remember(c, block.id, type)
  <2>3. e \in Conversion /\ e = [c EXCEPT !.kinds = e.kinds]
    BY <1>1, <2>2, Remembered
  <2>5. block.id # 0
    BY <1>1, <1>6 DEF Acceptable
  <2>4. d = putAlways(e, item, at)
    BY <1>6, <2>1, <2>2, <2>5 DEF convertItemBlock
  <2> HIDE DEF e
  <2> QED
    BY <1>2, <1>3, <1>6, <2>3, <2>4 DEF type, item
<1>7. ASSUME block.type # "web_search_tool_result", d = put(c, item, at)
      PROVE  \E kinds \in KindMap : d = With(c, type, block.id, kinds, at)
  BY <1>2, <1>3, <1>4, <1>7
<1>8. CASE block.type = "tool_result"
  <2>1. toolResultToInputItem(block, "function_call") = item
    <3>1. type = "function_call_output"
      BY <1>8 DEF PieceType, type
    <3> QED
      BY <1>1, <3>1 DEF toolResultToInputItem, resultItem, item
  <2>3. block.id # 0
    BY <1>1, <1>8 DEF Acceptable
  <2>2. d = put(c, item, at)
    BY <1>8, <2>1, <2>3 DEF convertItemBlock
  <2> QED
    BY <1>7, <1>8, <2>2 DEF type
<1>9. CASE block.type = "tool_search_tool_result"
  <2>1. toolSearchResultBlockToInputItem(block) = item
    <3>1. type = "tool_search_output"
      BY <1>9 DEF PieceType, type
    <3>2. block.stored \notin SafeTypes \/ block.stored = "tool_search_output"
      BY <1>1, <1>9 DEF Belongs
    <3>3. stored(block) = item \/ stored(block) = NoItem
      BY <1>1, <3>1, <3>2, StoredItem DEF item
    <3> QED
      BY <1>1, <3>1, <3>3 DEF toolSearchResultBlockToInputItem, searchResultItem, resultItem, item
  <2>2. d = put(c, item, at)
    BY <1>9, <2>1 DEF convertItemBlock
  <2> QED
    BY <1>7, <1>9, <2>2 DEF type
<1>10. CASE block.type \in {"compaction", "image_generation_call", "responses_output_item"}
  <2>1. d = put(c, item, at)
    <3>1. CASE block.type = "compaction"
      <4>1. compactionBlockToInputItem(block) = item
        BY <1>1, <3>1 DEF compactionBlockToInputItem, item, type, PieceType
      <4> QED
        BY <3>1, <4>1 DEF convertItemBlock
    <3>2. CASE block.type = "image_generation_call"
      <4>1. imageGenerationBlockToInputItem(block) = item
        BY <1>1, <3>2 DEF imageGenerationBlockToInputItem, item, type, PieceType
      <4> QED
        BY <3>2, <4>1 DEF convertItemBlock
    <3>3. CASE block.type = "responses_output_item"
      <4>1. opaqueBlockToInputItem(block) = item
        BY <1>1, <3>3 DEF opaqueBlockToInputItem, item, type, PieceType
      <4> QED
        BY <3>3, <4>1 DEF convertItemBlock
    <3> QED
      BY <1>10, <3>1, <3>2, <3>3
  <2> QED
    BY <1>7, <1>10, <2>1 DEF type
<1>11. CASE block.type = "web_search_tool_result"
  BY <1>11 DEF convertItemBlock
<1> QED
  BY <1>5, <1>6, <1>8, <1>9, <1>10, <1>11 DEF ItemBlocks, type

\* The blocks of an item are such blocks, for a client that keeps them.
LEMMA OwnBlocks ==
    ASSUME strict \in BOOLEAN, client = "all", NEW item \in AnswerItem,
           NEW streamed \in BOOLEAN, ~ streamed
    PROVE  blocksOf(item, streamed) \in Seq(OwnBlock)
<1> DEFINE B == blocksOf(item, streamed)
           shapes == shapesOf(item, streamed)
           N == Len(B)
<1>1. item \in OutputItem /\ item.type \in Message!Types \ {"blank"} /\ item.id \in Nat /\ item.id # 0
  BY DEF AnswerItem, OutputItem
<1>2. /\ B \in Seq(MessageBlock)
      /\ \A j \in 1 .. N :
            /\ B[j].type = "server_tool_use" => item.type = "web_search_call"
            /\ Belongs(kept(B[j]))
  <2>1. client \in {"all", "documented", "plain"}
    OBVIOUS
  <2>2. B \in Seq(MessageBlock)
    BY <2>1, BlocksOfItem
  <2>3. ASSUME NEW j \in 1 .. N
        PROVE  /\ B[j].type = "server_tool_use" => item.type = "web_search_call"
               /\ Belongs(kept(B[j]))
    BY <2>1, CallsOfItem
  <2> QED
    BY <2>2, <2>3
<1>3. shapes \in Seq(Shapes(item.type))
  BY <1>1, ShapesOfItem
<1>4. /\ DOMAIN B = DOMAIN shapes
      /\ \A j \in DOMAIN shapes : /\ B[j].type = blockType(shapes[j]) /\ B[j].id = blockId(item, B[j].type)
                                  /\ B[j].body = "some" /\ ~ B[j].commentary
                                  /\ B[j].stored = storedItem(item, blockType(shapes[j]), streamed)
  BY DEF blocksOf
<1> HIDE DEF shapes, B
<1>5. N \in Nat /\ DOMAIN B = 1 .. N /\ \A j \in 1 .. N : shapes[j] \in Shapes(item.type) /\ B[j] \in MessageBlock
  BY <1>2, <1>3, <1>4
<1>6. ASSUME NEW j \in 1 .. N
      PROVE  B[j] \in OwnBlock
  <2>1. B[j].type \in {"text", "thinking"} \cup ItemBlocks
    <3>1. shapes[j] \in {"text", "tool_use", "tool_result", "thinking", "server_tool_use",
                         "web_search_tool_result", "tool_search_output", "computer_call_output",
                         "compaction", "image_generation_call", "unrecognized"}
      <4>1. shapes[j] \in Shapes(item.type)
        BY <1>5
      <4> USE DEF Message!PlainCalls, Message!ResultCalls, Message!ToolOutputs
      <4>2. CASE item.type \in {"message", "reasoning", "web_search_call", "compaction",
                                "image_generation_call", "unrecognized"}
        BY <4>1, <4>2 DEF Shapes
      <4>3. CASE item.type \in Message!PlainCalls
        BY <4>1, <4>3 DEF Shapes
      <4>4. CASE item.type \in Message!ResultCalls
        BY <4>1, <4>4 DEF Shapes
      <4>5. CASE item.type \in Message!ToolOutputs
        BY <4>1, <4>5 DEF Shapes
      <4> QED
        BY <1>1, <4>2, <4>3, <4>4, <4>5 DEF Message!Types, Message!OtherTypes
    <3>2. B[j].type = blockType(shapes[j])
      BY <1>4, <1>5
    <3> QED
      BY <3>1, <3>2 DEF blockType, ItemBlocks
  <2>2. B[j].body = "some" /\ ~ B[j].commentary /\ B[j] \in MessageBlock
    BY <1>4, <1>5
  <2>7. /\ B[j].type = "compaction" => B[j].id = 0
        /\ B[j].type = "image_generation_call" => B[j].id # 0
    BY <1>1, <1>4, <1>5 DEF blockId
  <2>3. B[j].stored \in {item.type, None}
    BY <1>4, <1>5 DEF storedItem
  <2>4. B[j].stored # "malformed"
    BY <1>1, <2>3, NoneDiffers DEF Message!Types, Message!PlainCalls, Message!ResultCalls,
                                   Message!ToolOutputs, Message!OtherTypes
  <2>5. Belongs(B[j])
    <3>1. kept(B[j]) = B[j]
      BY DEF kept
    <3> QED
      BY <1>2, <3>1
  <2>6. ASSUME B[j].type = "server_tool_use"
        PROVE  B[j].stored = "web_search_call"
    <3>1. item.type = "web_search_call" /\ blockType(shapes[j]) = "server_tool_use"
      BY <1>2, <1>4, <1>5, <2>6
    <3>2. storedItem(item, "server_tool_use", streamed) = "web_search_call"
      BY <3>1 DEF storedItem, annotatesItem
    <3> QED
      BY <1>4, <1>5, <3>1, <3>2
  <2> QED
    BY <2>1, <2>2, <2>4, <2>5, <2>6, <2>7 DEF OwnBlock
<1> QED
  BY <1>2, <1>6, Narrowed DEF B

\* The parts of a message that are known, as input.
RestoredParts == {"output_text", "refusal"}

\* They are copied as they are.
LEMMA PartsRestored ==
    ASSUME NEW parts \in Seq(RestoredParts)
    PROVE  messageOutputContentToInput(parts) = parts
<1> DEFINE f == [part \in RestoredParts |-> <<part>>]
<1>1. f \in Maps(RestoredParts, RestoredParts)
  <2>1. \A part \in RestoredParts : <<part>> \in Seq(RestoredParts)
    BY Single
  <2> QED
    BY <2>1 DEF Maps
<1>2. messageOutputContentToInput(parts) = Spread(f, parts)
  <2>1. \A k \in DOMAIN parts : parts[k] \in RestoredParts
    OBVIOUS
  <2> QED
    BY <2>1 DEF messageOutputContentToInput, Spread, RestoredParts
<1>3. \A k \in 1 .. Len(parts) : f[parts[k]] = <<parts[k]>>
  OBVIOUS
<1> HIDE DEF f
<1>4. \A s, t \in Seq(RestoredParts) :
         Len(t) = Len(s) /\ (\A k \in 1 .. Len(s) : f[s[k]] = <<t[k]>>) => Spread(f, s) = t
  BY <1>1, SpreadSingles, Zenon
<1> QED
  BY <1>2, <1>3, <1>4, Zenon

\* The shapes of the blocks of an item that is not refused.
LEMMA ItemShapes ==
    ASSUME strict \in BOOLEAN, NEW item \in OutputItem, Message!convert(item).ok, NEW streamed \in BOOLEAN
    PROVE  LET shapes == shapesOf(item, streamed)
           IN  /\ item.type = "message" => shapes = [k \in DOMAIN partsShown(item, streamed) |-> "text"]
               /\ item.type \in Message!PlainCalls => shapes = <<"tool_use">>
               /\ item.type \in Message!ResultCalls =>
                     shapes = IF item.result = "none" THEN <<"tool_use">> ELSE <<"tool_use", "tool_result">>
               /\ item.type = "reasoning" => shapes = <<"thinking">>
               /\ item.type = "web_search_call" => shapes = <<"server_tool_use", "web_search_tool_result">>
               /\ item.type \in Message!ToolOutputs \cup {"compaction", "image_generation_call", "unrecognized"} =>
                     shapes = <<item.type>>
<1> DEFINE of == Message!convert(item)
<1>0. item.body = "some" /\ item.result \in {"none", "some"} /\ of.ok
  BY DEF OutputItem
<1>1. LET shapes == shapesOf(item, streamed)
      IN  /\ item.type \in Message!PlainCalls => shapes = <<"tool_use">>
          /\ item.type = "web_search_call" => shapes = <<"server_tool_use", "web_search_tool_result">>
          /\ item.type \in Message!ToolOutputs => shapes = <<item.type>>
  BY CallShapes
<1> USE DEF Message!PlainCalls, Message!ResultCalls, Message!ToolOutputs
<1>2. /\ item.type = "message" => shapesOf(item, streamed) = [k \in DOMAIN partsShown(item, streamed) |-> "text"]
      /\ item.type # "message" => shapesOf(item, streamed) = of.blocks
  BY DEF shapesOf
<1>3. ASSUME item.type \in Message!ResultCalls
      PROVE  of.blocks = IF item.result = "none" THEN <<"tool_use">> ELSE <<"tool_use", "tool_result">>
  <2>1. of = Message!callToBlocks(item)
    BY <1>3 DEF Message!convert
  <2>2. Message!toolCallToBlock(item) = Message!Blocks(<<"tool_use">>)
    BY <1>0 DEF Message!toolCallToBlock
  <2> DEFINE more == Message!callResultToBlock(item)
  <2>3. more.ok /\ more.blocks = IF item.result = "none" THEN << >> ELSE <<"tool_result">>
    BY <1>0 DEF Message!callResultToBlock, Message!Blocks
  <2> HIDE DEF more
  <2>4. of.blocks = <<"tool_use">> \o more.blocks
    BY <2>1, <2>2, <2>3 DEF Message!callToBlocks, Message!Both, Message!Blocks, more
  <2>5. <<"tool_use">> \o << >> = <<"tool_use">> /\ <<"tool_use">> \o <<"tool_result">> = <<"tool_use", "tool_result">>
    BY JoinTwo
  <2> QED
    BY <2>3, <2>4, <2>5
<1>4. ASSUME item.type = "reasoning"
      PROVE  of.blocks = <<"thinking">>
  <2>1. of = Message!Blocks(<<"thinking">>)
    BY <1>0, <1>4 DEF Message!convert, Message!openAIReasoningToThinkingBlock, Message!Blocks
  <2> QED
    BY <2>1 DEF Message!Blocks
<1>5. ASSUME item.type \in {"compaction", "image_generation_call", "unrecognized"}
      PROVE  of.blocks = <<item.type>>
  <2>1. of = Message!Blocks(<<item.type>>)
    BY <1>0, <1>5 DEF Message!convert, Message!openAICompactionToBlock, Message!Blocks,
                      Message!openAIImageGenerationToBlock, Message!openAIOpaqueOutputToBlock
  <2> QED
    BY <2>1 DEF Message!Blocks
<1> HIDE DEF of
<1> QED
  BY <1>1, <1>2, <1>3, <1>4, <1>5 DEF of

\* What a call comes back as.
LEMMA CallPiece ==
    ASSUME strict \in BOOLEAN, NEW block \in OwnBlock, block.type = "tool_use",
           NEW type \in Message!PlainCalls \cup Message!ResultCalls, block.kind = type, block.stored = type
    PROVE  PieceType(block) = IF type \in Message!ResultCalls \cup {"computer_call", "mcp_list_tools"}
                              THEN "function_call" ELSE type
<1> USE DEF Message!PlainCalls, Message!ResultCalls
<1>1. type # None /\ type # "malformed" /\ type # "error"
  BY NotTypes DEF ItemTypes, SafeTypes, Kinds
<1>2. PieceType(block) = toolUseBlockToInputItem(block).type
  BY DEF PieceType
<1>3. CASE type \in Message!ResultCalls \cup {"computer_call", "mcp_list_tools"}
  <2>1. stored(block) = NoItem
    BY <1>1, <1>3 DEF stored, SafeTypes
  <2>2. None \notin SafeTypes /\ NoItem.type = None
    BY NotTypes DEF ItemTypes
  <2>3. toolUseKind(block) = normalizeUnsafeSpecialToolKind(type)
    BY <1>1, <2>1, <2>2 DEF toolUseKind
  <2>4. toolUseKind(block) = "function_call"
    BY <1>3, <2>3 DEF normalizeUnsafeSpecialToolKind
  <2>5. toolUseBlockToInputItem(block) = Item("function_call", block.id)
    BY <2>1, <2>4 DEF toolUseBlockToInputItem
  <2> QED
    BY <1>2, <1>3, <2>5 DEF Item
<1>4. CASE type \notin Message!ResultCalls \cup {"computer_call", "mcp_list_tools"}
  <2>1. stored(block) = Item(type, block.id)
    BY <1>1, <1>4 DEF stored, SafeTypes
  <2>2. Item(type, block.id) # NoItem /\ Item(type, block.id).type = type
    BY <1>1 DEF Item, NoItem
  <2> QED
    BY <1>2, <1>4, <2>1, <2>2 DEF toolUseBlockToInputItem
<1> QED
  BY <1>3, <1>4

\* An item as the upstream gets it back.
RestoredItem == [type : ReadTypes, id : Nat, content : Seq(Contents)]

\* The two ways to the upstream, of a block and of an item, as functions.
PieceMap == [block \in OwnBlock |-> Piece(block)]
FlatMap  == [item \in RestoredItem |-> Flat(item)]

\* What the upstream reads in an item that has a type.
LEMMA FlatRead ==
    ASSUME NEW type \in ReadTypes, NEW id \in Nat, NEW content \in Seq(Contents)
    PROVE  /\ Seq(Contents) \subseteq Seq(Reading)
           /\ \A item : item.type = type /\ item.id = id /\ item.content = content => Flat(item) \in Seq(Reading)
<1>1. Seq(Contents) \subseteq Seq(Reading)
  BY DEF Reading
<1>2. [type |-> type, id |-> id] \in Reading
  BY DEF Reading
<1>3. <<[type |-> type, id |-> id]>> \in Seq(Reading)
  BY <1>2, Single
<1> QED
  BY <1>1, <1>3 DEF Flat

\* Both give what the upstream reads.
LEMMA MapsTyped ==
    ASSUME strict \in BOOLEAN
    PROVE  PieceMap \in Maps(OwnBlock, Reading) /\ FlatMap \in Maps(RestoredItem, Reading)
<1>1. \A block \in OwnBlock : PieceMap[block] \in Seq(Reading)
  BY PieceTyped DEF PieceMap
<1>2. \A item \in RestoredItem : FlatMap[item] \in Seq(Reading)
  BY FlatRead DEF FlatMap, RestoredItem
<1> QED
  BY <1>1, <1>2 DEF Maps, PieceMap, FlatMap

\* One that is no message.
RestoredAs(type, id) == [type |-> type, id |-> id, content |-> << >>]

\* It is read as its type and its id.
LEMMA FlatPiece ==
    ASSUME strict \in BOOLEAN, NEW type \in ReadTypes, NEW id \in Nat, type # "message"
    PROVE  /\ RestoredAs(type, id) \in RestoredItem
           /\ FlatMap[RestoredAs(type, id)] = <<[type |-> type, id |-> id]>>
<1> DEFINE x == RestoredAs(type, id)
<1>1. << >> \in Seq(Contents)
  OBVIOUS
<1>2. x \in RestoredItem
  BY <1>1 DEF RestoredItem, RestoredAs
<1>3. FlatMap[x] = Flat(x)
  BY <1>2 DEF FlatMap
<1>4. Flat(x) = <<[type |-> type, id |-> id]>>
  BY DEF RestoredAs, Flat
<1> QED
  BY <1>2, <1>3, <1>4

\* The blocks of an item that is not refused, one by one.
LEMMA OwnBlockOf ==
    ASSUME strict \in BOOLEAN, client = "all", NEW item \in AnswerItem, NEW streamed \in BOOLEAN, ~ streamed
    PROVE  LET B      == blocksOf(item, streamed)
               shapes == shapesOf(item, streamed)
           IN  /\ B \in Seq(OwnBlock) /\ Len(B) = Len(shapes) /\ Len(B) \in Nat /\ DOMAIN B = 1 .. Len(B)
               /\ \A j \in 1 .. Len(B) :
                     /\ B[j] \in OwnBlock /\ B[j].type = blockType(shapes[j])
                     /\ B[j].id = blockId(item, blockType(shapes[j]))
                     /\ B[j].kind = blockKind(item, blockType(shapes[j]), j, streamed)
                     /\ B[j].stored = storedItem(item, blockType(shapes[j]), streamed)
                     /\ PieceMap[B[j]] = Piece(B[j])
<1> DEFINE B == blocksOf(item, streamed)
           shapes == shapesOf(item, streamed)
<1>1. B \in Seq(OwnBlock)
  BY OwnBlocks
<1>2. /\ DOMAIN B = DOMAIN shapes
      /\ \A j \in DOMAIN shapes : /\ B[j].type = blockType(shapes[j])
                                  /\ B[j].id = blockId(item, blockType(shapes[j]))
                                  /\ B[j].kind = blockKind(item, blockType(shapes[j]), j, streamed)
                                  /\ B[j].stored = storedItem(item, blockType(shapes[j]), streamed)
  BY DEF blocksOf
<1>3. shapes \in Seq(Shapes(item.type))
  BY ShapesOfItem DEF AnswerItem
<1> HIDE DEF shapes, B
<1>4. Len(B) \in Nat /\ DOMAIN B = 1 .. Len(B) /\ \A j \in 1 .. Len(B) : B[j] \in OwnBlock
  BY <1>1
<1>5. DOMAIN shapes = 1 .. Len(B)
  BY <1>2, <1>4
<1>6. Len(shapes) \in Nat /\ DOMAIN shapes = 1 .. Len(shapes)
  BY <1>3
<1>7. Len(shapes) = Len(B)
  BY <1>4, <1>5, <1>6
<1>8. \A j \in 1 .. Len(B) : PieceMap[B[j]] = Piece(B[j])
  BY <1>4 DEF PieceMap
<1> QED
  BY <1>1, <1>2, <1>4, <1>5, <1>7, <1>8 DEF B, shapes

\* The parts of a message come back.
LEMMA MessagePieces ==
    ASSUME strict \in BOOLEAN, client = "all", NEW item \in AnswerItem, NEW streamed \in BOOLEAN, ~ streamed,
           item.type = "message"
    PROVE  /\ Restored(item) \in Seq(RestoredItem)
           /\ Spread(PieceMap, blocksOf(item, streamed)) = Spread(FlatMap, Restored(item))
<1> DEFINE B == blocksOf(item, streamed)
           shapes == shapesOf(item, streamed)
           parts == partsShown(item, streamed)
<1>1. item \in OutputItem /\ item.id \in Nat /\ streamed = FALSE
  BY DEF AnswerItem, OutputItem
<1>2. PieceMap \in Maps(OwnBlock, Reading) /\ FlatMap \in Maps(RestoredItem, Reading)
  BY MapsTyped
<1>3. shapes = [k \in DOMAIN parts |-> "text"]
  BY DEF shapesOf
<1>4. /\ B \in Seq(OwnBlock) /\ Len(B) = Len(shapes) /\ Len(B) \in Nat /\ DOMAIN B = 1 .. Len(B)
      /\ \A j \in 1 .. Len(B) :
            /\ B[j].type = blockType(shapes[j])
            /\ B[j].kind = blockKind(item, blockType(shapes[j]), j, streamed)
            /\ PieceMap[B[j]] = Piece(B[j])
  BY OwnBlockOf
<1>5. parts \in Seq(IF item.commentary THEN {} ELSE RestoredParts)
  <2>1. shownParts(item.commentary, streamed) = IF item.commentary THEN {} ELSE RestoredParts
    BY <1>1 DEF shownParts, RestoredParts, OutputItem
  <2> HIDE DEF parts
  <2>2. partsShown(item, streamed) \in Seq(shownParts(item.commentary, streamed))
    BY <1>1, PartsOfItem
  <2> QED
    BY <2>1, <2>2 DEF parts
<1> HIDE DEF B, shapes, parts
<1>6. CASE item.commentary
  <2>1. Restored(item) = << >>
    BY <1>6 DEF Restored
  <2>5. parts = << >>
    <3>1. parts \in Seq({})
      BY <1>5, <1>6
    <3> QED
      BY <3>1
  <2>2. B = << >>
    <3>1. shapes = << >>
      BY <1>3, <2>5
    <3> QED
      BY <1>4, <3>1
  <2>3. Spread(PieceMap, << >>) = << >> /\ Spread(FlatMap, << >>) = << >>
    BY <1>2, SpreadAppend
  <2>4. << >> \in Seq(RestoredItem)
    OBVIOUS
  <2> QED
    BY <2>1, <2>2, <2>3, <2>4 DEF B
<1>7. CASE ~ item.commentary
  <2> DEFINE x == [type |-> "message", id |-> item.id, content |-> parts]
  <2>0. parts \in Seq(RestoredParts)
    BY <1>5, <1>7
  <2>1. Restored(item) = <<x>>
    <3> DEFINE shown == [item EXCEPT !.parts = parts]
    <3>1. shown.type = "message" /\ shown.id = item.id /\ shown.parts = parts
      BY <1>1 DEF OutputItem
    <3>2. Restored(item) = OutputItemsToInputItems(<<shown>>)
      BY <1>1, <1>7 DEF Restored, parts
    <3>3. messageOutputContentToInput(parts) = parts
      BY <2>0, PartsRestored
    <3> HIDE DEF shown
    <3>4. outputItemToInputItem(shown) = x
      BY <3>1, <3>3 DEF outputItemToInputItem
    <3> HIDE DEF x
    <3> QED
      BY <3>2, <3>4 DEF OutputItemsToInputItems
  <2>2. parts \in Seq(Contents)
    BY <2>0 DEF RestoredParts, Contents
  <2>3. x \in RestoredItem
    BY <1>1, <2>2 DEF RestoredItem, ReadTypes, SafeTypes
  <2>4. Spread(FlatMap, <<x>>) = parts
    <3>1. FlatMap[x] = Flat(x)
      BY <2>3 DEF FlatMap
    <3>2. Flat(x) = parts
      BY DEF Flat
    <3> HIDE DEF x
    <3>3. Spread(FlatMap, <<x>>) = FlatMap[x]
      BY <1>2, <2>3, SpreadAppend
    <3> QED
      BY <3>1, <3>2, <3>3
  <2>5. Len(parts) = Len(B) /\ \A j \in 1 .. Len(B) : shapes[j] = "text" /\ parts[j] \in RestoredParts
    <3>1. Len(parts) \in Nat /\ \A j \in 1 .. Len(parts) : parts[j] \in RestoredParts
      BY <2>0
    <3>2. shapes = [k \in 1 .. Len(parts) |-> "text"]
      BY <1>3, <2>0
    <3>3. Len(shapes) = Len(parts)
      BY <3>1, <3>2
    <3> QED
      BY <1>4, <3>1, <3>2, <3>3
  <2>6. ASSUME NEW j \in 1 .. Len(B)
        PROVE  PieceMap[B[j]] = <<parts[j]>>
    <3>1. blockType(shapes[j]) = "text"
      BY <2>5 DEF blockType
    <3>2. B[j].type = "text" /\ B[j].kind = blockKind(item, "text", j, streamed) /\ PieceMap[B[j]] = Piece(B[j])
      BY <1>4, <3>1
    <3>3. B[j].kind = IF parts[j] = "refusal" THEN "refusal" ELSE None
      BY <3>2 DEF blockKind, parts
    <3>4. textType("assistant", B[j]) = parts[j]
      BY <2>5, <3>3, NoneDiffers DEF textType, RestoredParts
    <3> QED
      BY <3>2, <3>4 DEF Piece, ItemBlocks
  <2>7. parts \in Seq(Reading)
    BY <2>2 DEF Reading
  <2>8. Spread(PieceMap, B) = parts
    <3>1. \A s \in Seq(OwnBlock), t \in Seq(Reading) :
             Len(t) = Len(s) /\ (\A k \in 1 .. Len(s) : PieceMap[s[k]] = <<t[k]>>) => Spread(PieceMap, s) = t
      BY <1>2, SpreadSingles, Zenon
    <3> QED
      BY <1>4, <2>5, <2>6, <2>7, <3>1, Zenon
  <2>9. <<x>> \in Seq(RestoredItem)
    BY <2>3, Single
  <2> QED
    BY <2>1, <2>4, <2>8, <2>9 DEF B
<1> QED
  BY <1>6, <1>7

\* What comes of the blocks of an item is what the upstream made of it.
LEMMA ItemPieces ==
    ASSUME strict \in BOOLEAN, client = "all", NEW item \in AnswerItem, NEW streamed \in BOOLEAN, ~ streamed,
           Message!convert(item).ok
    PROVE  /\ Restored(item) \in Seq(RestoredItem)
           /\ Spread(PieceMap, blocksOf(item, streamed)) = Spread(FlatMap, Restored(item))
<1> DEFINE B == blocksOf(item, streamed)
           shapes == shapesOf(item, streamed)
           own == IF item.type = "compaction" THEN 0 ELSE item.id
           Back(type) == RestoredAs(type, own)
           Read(type) == <<[type |-> type, id |-> own]>>
           Goal == Restored(item) \in Seq(RestoredItem) /\ Spread(PieceMap, B) = Spread(FlatMap, Restored(item))
<1>1. item \in OutputItem /\ item.id \in Nat /\ item.type \in Message!Types \ {"blank"} /\ item.result \in {"none", "some"}
  BY DEF AnswerItem, OutputItem
<1>2. PieceMap \in Maps(OwnBlock, Reading) /\ FlatMap \in Maps(RestoredItem, Reading)
  BY MapsTyped
<1>3. /\ item.type \in Message!PlainCalls => shapes = <<"tool_use">>
      /\ item.type \in Message!ResultCalls =>
            shapes = IF item.result = "none" THEN <<"tool_use">> ELSE <<"tool_use", "tool_result">>
      /\ item.type = "reasoning" => shapes = <<"thinking">>
      /\ item.type = "web_search_call" => shapes = <<"server_tool_use", "web_search_tool_result">>
      /\ item.type \in Message!ToolOutputs \cup {"compaction", "image_generation_call", "unrecognized"} =>
            shapes = <<item.type>>
  BY <1>1, ItemShapes
<1>4. /\ B \in Seq(OwnBlock) /\ Len(B) = Len(shapes) /\ Len(B) \in Nat /\ DOMAIN B = 1 .. Len(B)
      /\ \A j \in 1 .. Len(B) :
            /\ B[j] \in OwnBlock /\ B[j].type = blockType(shapes[j])
            /\ B[j].id = blockId(item, blockType(shapes[j]))
            /\ B[j].kind = blockKind(item, blockType(shapes[j]), j, streamed)
            /\ B[j].stored = storedItem(item, blockType(shapes[j]), streamed)
            /\ PieceMap[B[j]] = Piece(B[j])
  BY OwnBlockOf
<1>5. \A type \in ReadTypes \ {"message"} : Back(type) \in RestoredItem /\ FlatMap[Back(type)] = Read(type)
  <2>1. own \in Nat
    BY <1>1
  <2> HIDE DEF own
  <2> QED
    BY <2>1, FlatPiece
<1>6. item.type \in Message!PlainCalls \cup Message!ToolOutputs \cup {"web_search_call", "compaction",
                                            "image_generation_call", "unrecognized"} /\
      item.type \notin {"computer_call", "mcp_list_tools", "computer_call_output"} =>
         Restored(item) = <<Back(item.type)>> /\ item.type \in ReadTypes \ {"message"}
  <2> USE DEF Message!PlainCalls, Message!ToolOutputs
  <2> SUFFICES ASSUME item.type \in {"function_call", "custom_tool_call", "local_shell_call", "tool_search_call",
                                     "tool_search_output", "web_search_call", "compaction",
                                     "image_generation_call", "unrecognized"}
               PROVE  Restored(item) = <<Back(item.type)>> /\ item.type \in ReadTypes \ {"message"}
    OBVIOUS
  <2>0. item.type \in ReadTypes \ {"message"}
    BY DEF ReadTypes, SafeTypes, Kinds
  <2>1. CASE item.type = "compaction"
    <3> DEFINE less == [item EXCEPT !.id = 0]
    <3>1. less.type = "compaction" /\ less.id = 0
      BY <1>1, <2>1 DEF OutputItem
    <3>2. Restored(item) = OutputItemsToInputItems(<<less>>)
      BY <2>1 DEF Restored
    <3> HIDE DEF less
    <3>3. outputItemToInputItem(less) = Back(item.type)
      BY <2>1, <3>1 DEF outputItemToInputItem, RestoredAs
    <3> HIDE DEF Back
    <3> QED
      BY <2>0, <3>2, <3>3 DEF OutputItemsToInputItems
  <2>2. CASE item.type # "compaction"
    <3>1. outputItemToInputItem(item) = Back(item.type)
      BY <2>2 DEF outputItemToInputItem, RestoredAs
    <3>2. OutputItemsToInputItems(<<item>>) = <<Back(item.type)>>
      BY <3>1 DEF OutputItemsToInputItems
    <3> HIDE DEF Back
    <3>3. Restored(item) = OutputItemsToInputItems(<<item>>)
      BY <2>2 DEF Restored
    <3> QED
      BY <2>0, <3>2, <3>3
  <2> QED
    BY <2>1, <2>2
<1>4a. ASSUME NEW j \in 1 .. Len(B), item.type \notin {"message", "reasoning"}
       PROVE  B[j].id = own
  <2> USE DEF Message!PlainCalls, Message!ResultCalls, Message!ToolOutputs
  <2>1. shapes \in Seq(Shapes(item.type))
    BY <1>1, ShapesOfItem
  <2> DEFINE shape == shapes[j]
             S == Shapes(item.type)
  <2> HIDE DEF S
  <2>2. B[j].id = blockId(item, blockType(shape))
    BY <1>4
  <2>3. shape \in S
    BY <1>4, <2>1 DEF S
  <2> HIDE DEF shape, B, shapes
  <2>4. /\ blockType(shape) \notin {"text", "thinking"}
        /\ blockType(shape) = "compaction" <=> item.type = "compaction"
    <3>1. CASE item.type \in Message!PlainCalls
      BY <2>3, <3>1 DEF S, Shapes, blockType
    <3>2. CASE item.type \in Message!ResultCalls
      BY <2>3, <3>2 DEF S, Shapes, blockType
    <3>3. CASE item.type \in Message!ToolOutputs
      BY <2>3, <3>3 DEF S, Shapes, blockType
    <3>4. CASE item.type = "web_search_call"
      BY <2>3, <3>4 DEF S, Shapes, blockType
    <3>5. CASE item.type \in {"compaction", "image_generation_call", "unrecognized"}
      BY <2>3, <3>5 DEF S, Shapes, blockType
    <3> QED
      BY <1>1, <1>4a, <3>1, <3>2, <3>3, <3>4, <3>5 DEF Message!Types, Message!OtherTypes
  <2> QED
    BY <2>2, <2>4 DEF blockId
<1> HIDE DEF B, shapes, Back, Read
<1>7. ASSUME NEW type \in ReadTypes \ {"message"}, Len(B) = 1, Restored(item) = <<Back(type)>>,
             Piece(B[1]) = Read(type)
      PROVE  Goal
  <2>1. B = <<B[1]>> /\ B[1] \in OwnBlock
    BY <1>4, <1>7
  <2>2. Spread(PieceMap, <<B[1]>>) = PieceMap[B[1]]
    BY <1>2, <2>1, SpreadAppend
  <2>3. Spread(FlatMap, <<Back(type)>>) = FlatMap[Back(type)] /\ Back(type) \in RestoredItem
    BY <1>2, <1>5, SpreadAppend
  <2>4. <<Back(type)>> \in Seq(RestoredItem)
    BY <2>3, Single
  <2>5. PieceMap[B[1]] = Read(type) /\ FlatMap[Back(type)] = Read(type)
    BY <1>4, <1>5, <1>7
  <2> QED
    BY <1>7, <2>1, <2>2, <2>3, <2>4, <2>5
<1>8. ASSUME NEW shape, shapes = <<shape>>
      PROVE  /\ Len(B) = 1 /\ B[1] \in OwnBlock /\ B[1].type = blockType(shape)
             /\ item.type \notin {"message", "reasoning"} => B[1].id = own
             /\ B[1].kind = blockKind(item, blockType(shape), 1, streamed)
             /\ B[1].stored = storedItem(item, blockType(shape), streamed)
  <2>1. Len(shapes) = 1 /\ shapes[1] = shape
    BY <1>8
  <2> QED
    BY <1>4, <1>4a, <2>1
<1>9. ASSUME NEW x, x = B[1], x \in OwnBlock, x.type = "tool_use", x.id = own,
             x.kind = blockKind(item, "tool_use", 1, streamed), x.stored = storedItem(item, "tool_use", streamed),
             item.type \in Message!PlainCalls \cup Message!ResultCalls
      PROVE  Piece(x) = Read(IF item.type \in Message!ResultCalls \cup {"computer_call", "mcp_list_tools"}
                             THEN "function_call" ELSE item.type)
  <2>1. x.kind = item.type /\ x.stored = item.type
    BY <1>9 DEF blockKind, storedItem, annotatesKind, annotatesItem
  <2>2. PieceType(x) = IF item.type \in Message!ResultCalls \cup {"computer_call", "mcp_list_tools"}
                       THEN "function_call" ELSE item.type
    BY <1>9, <2>1, CallPiece
  <2>3. Piece(x) = <<[type |-> PieceType(x), id |-> x.id]>>
    BY <1>9 DEF Piece, ItemBlocks
  <2> QED
    BY <1>9, <2>2, <2>3 DEF Read
<1>10. "function_call" \in ReadTypes \ {"message"} /\ "function_call_output" \in ReadTypes \ {"message"}
  BY DEF ReadTypes, SafeTypes
<1>11. CASE item.type \in Message!PlainCalls
  <2> DEFINE type == IF item.type \in {"computer_call", "mcp_list_tools"} THEN "function_call" ELSE item.type
  <2>1. /\ Len(B) = 1 /\ B[1] \in OwnBlock /\ B[1].type = "tool_use" /\ B[1].id = own
        /\ B[1].kind = blockKind(item, "tool_use", 1, streamed)
        /\ B[1].stored = storedItem(item, "tool_use", streamed)
    BY <1>3, <1>8, <1>11 DEF blockType, Message!PlainCalls
  <2>2. item.type \notin Message!ResultCalls
    BY <1>11 DEF Message!PlainCalls, Message!ResultCalls
  <2>3. Piece(B[1]) = Read(type)
    BY <1>9, <1>11, <2>1, <2>2
  <2>4. Restored(item) = <<Back(type)>> /\ type \in ReadTypes \ {"message"}
    <3>1. CASE item.type \in {"computer_call", "mcp_list_tools"}
      BY <1>10, <3>1 DEF Restored, Back, RestoredAs
    <3>2. CASE item.type \notin {"computer_call", "mcp_list_tools"}
      <4>1. item.type # "computer_call_output"
        BY <1>11 DEF Message!PlainCalls
      <4> QED
        BY <1>6, <1>11, <3>2, <4>1
    <3> QED
      BY <3>1, <3>2
  <2> HIDE DEF type
  <2> QED
    BY <1>7, <2>1, <2>3, <2>4 DEF B
<1>12. CASE item.type \in Message!ToolOutputs \cup {"compaction", "image_generation_call", "unrecognized"}
  <2> DEFINE type == IF item.type = "computer_call_output" THEN "function_call_output" ELSE item.type
  <2>1. Len(B) = 1 /\ B[1] \in OwnBlock /\ B[1].type = blockType(item.type) /\ B[1].id = own
    BY <1>3, <1>8, <1>12 DEF Message!ToolOutputs
  <2>2. Piece(B[1]) = Read(type)
    <3>1. B[1].type \in {"tool_search_tool_result", "tool_result", "compaction", "image_generation_call",
                         "responses_output_item"}
      BY <1>12, <2>1 DEF blockType, Message!ToolOutputs
    <3>2. Piece(B[1]) = <<[type |-> PieceType(B[1]), id |-> B[1].id]>>
      BY <3>1 DEF Piece, ItemBlocks
    <3>3. PieceType(B[1]) = type
      BY <1>12, <2>1 DEF PieceType, blockType, Message!ToolOutputs
    <3> QED
      BY <2>1, <3>2, <3>3 DEF Read
  <2>3. Restored(item) = <<Back(type)>> /\ type \in ReadTypes \ {"message"}
    <3>1. CASE item.type = "computer_call_output"
      BY <1>10, <3>1 DEF Restored, Back, RestoredAs
    <3>2. CASE item.type # "computer_call_output"
      <4>1. item.type \notin {"computer_call", "mcp_list_tools"}
        BY <1>12 DEF Message!ToolOutputs
      <4> QED
        BY <1>6, <1>12, <3>2, <4>1
    <3> QED
      BY <3>1, <3>2
  <2> HIDE DEF type
  <2> QED
    BY <1>7, <2>1, <2>2, <2>3 DEF B
<1>13. CASE item.type = "reasoning"
  <2>1. Len(B) = 1 /\ B[1] \in OwnBlock /\ B[1].type = "thinking"
    BY <1>3, <1>8, <1>13 DEF blockType
  <2>2. B = <<B[1]>>
    BY <1>4, <2>1
  <2>3. Spread(PieceMap, <<B[1]>>) = PieceMap[B[1]]
    BY <1>2, <2>1, SpreadAppend
  <2>4. PieceMap[B[1]] = << >>
    <3>1. Piece(B[1]) = << >>
      BY <2>1 DEF Piece, ItemBlocks
    <3> QED
      BY <1>4, <2>1, <3>1
  <2>5. Restored(item) = << >>
    BY <1>13 DEF Restored
  <2>6. Spread(FlatMap, << >>) = << >> /\ << >> \in Seq(RestoredItem)
    BY <1>2, SpreadAppend
  <2> QED
    BY <2>2, <2>3, <2>4, <2>5, <2>6 DEF B
<1>14. ASSUME NEW first, NEW second, shapes = <<first, second>>
       PROVE  /\ B = <<B[1], B[2]>> /\ B[1] \in OwnBlock /\ B[2] \in OwnBlock
              /\ Spread(PieceMap, B) = Piece(B[1]) \o Piece(B[2])
              /\ item.type \notin {"message", "reasoning"} => B[1].id = own /\ B[2].id = own
              /\ B[1].type = blockType(first)
              /\ B[1].kind = blockKind(item, blockType(first), 1, streamed)
              /\ B[1].stored = storedItem(item, blockType(first), streamed)
              /\ B[2].type = blockType(second)
  <2>1. Len(shapes) = 2 /\ shapes[1] = first /\ shapes[2] = second
    BY <1>14
  <2>2. Len(B) = 2 /\ B = <<B[1], B[2]>> /\ B[1] \in OwnBlock /\ B[2] \in OwnBlock
    BY <1>4, <2>1
  <2>3. Spread(PieceMap, <<B[1], B[2]>>) = PieceMap[B[1]] \o PieceMap[B[2]]
    BY <1>2, <2>2, SpreadTwo
  <2>4. PieceMap[B[1]] = Piece(B[1]) /\ PieceMap[B[2]] = Piece(B[2])
    BY <1>4, <2>2
  <2>5. 1 \in 1 .. Len(B) /\ 2 \in 1 .. Len(B)
    BY <2>2
  <2> QED
    BY <1>4, <1>4a, <2>1, <2>2, <2>3, <2>4, <2>5
<1>15. CASE item.type = "web_search_call"
  <2>1. /\ B[1] \in OwnBlock /\ B[1].type = "server_tool_use" /\ B[1].id = own
        /\ B[2].type = "web_search_tool_result" /\ Spread(PieceMap, B) = Piece(B[1]) \o Piece(B[2])
    BY <1>3, <1>14, <1>15 DEF blockType
  <2>2. Piece(B[2]) = << >>
    BY <2>1 DEF Piece, ItemBlocks
  <2>3. Piece(B[1]) = Read("web_search_call")
    BY <2>1 DEF Piece, ItemBlocks, PieceType, Read
  <2>4. Read("web_search_call") \o << >> = Read("web_search_call")
    BY JoinTwo DEF Read
  <2>5. Restored(item) = <<Back("web_search_call")>> /\ "web_search_call" \in ReadTypes \ {"message"}
    BY <1>6, <1>15
  <2>6. Spread(FlatMap, <<Back("web_search_call")>>) = FlatMap[Back("web_search_call")]
        /\ Back("web_search_call") \in RestoredItem
    BY <1>2, <1>5, <2>5, SpreadAppend
  <2>7. FlatMap[Back("web_search_call")] = Read("web_search_call")
    BY <1>5, <2>5
  <2>8. <<Back("web_search_call")>> \in Seq(RestoredItem)
    BY <2>6, Single
  <2> QED
    BY <2>1, <2>2, <2>3, <2>4, <2>5, <2>6, <2>7, <2>8 DEF B
<1>16. CASE item.type \in Message!ResultCalls
  <2>0. Restored(item) = <<Back("function_call")>>
                         \o IF item.result = "none" THEN << >> ELSE <<Back("function_call_output")>>
    BY <1>16 DEF Restored, Back, RestoredAs, Message!ResultCalls
  <2>1. CASE item.result = "none"
    <3>1. /\ Len(B) = 1 /\ B[1] \in OwnBlock /\ B[1].type = "tool_use" /\ B[1].id = own
          /\ B[1].kind = blockKind(item, "tool_use", 1, streamed)
          /\ B[1].stored = storedItem(item, "tool_use", streamed)
      BY <1>3, <1>8, <1>16, <2>1 DEF blockType, Message!ResultCalls
    <3>2. Piece(B[1]) = Read("function_call")
      BY <1>9, <1>16, <3>1
    <3>3. Restored(item) = <<Back("function_call")>>
      BY <2>0, <2>1, JoinTwo
    <3> QED
      BY <1>7, <1>10, <3>1, <3>2, <3>3 DEF B
  <2>2. CASE item.result # "none"
    <3>1. /\ B[1] \in OwnBlock /\ B[1].type = "tool_use" /\ B[1].id = own
          /\ B[1].kind = blockKind(item, "tool_use", 1, streamed)
          /\ B[1].stored = storedItem(item, "tool_use", streamed)
          /\ B[2].type = "tool_result" /\ B[2].id = own
          /\ Spread(PieceMap, B) = Piece(B[1]) \o Piece(B[2])
      BY <1>3, <1>14, <1>16, <2>2 DEF blockType, Message!ResultCalls
    <3>2. Piece(B[1]) = Read("function_call")
      BY <1>9, <1>16, <3>1
    <3>3. Piece(B[2]) = Read("function_call_output")
      BY <3>1 DEF Piece, ItemBlocks, PieceType, Read
    <3>4. Restored(item) = <<Back("function_call"), Back("function_call_output")>>
      BY <2>0, <2>2, JoinTwo
    <3>5. /\ Back("function_call") \in RestoredItem /\ FlatMap[Back("function_call")] = Read("function_call")
          /\ Back("function_call_output") \in RestoredItem
          /\ FlatMap[Back("function_call_output")] = Read("function_call_output")
      BY <1>5, <1>10
    <3>6. Spread(FlatMap, <<Back("function_call"), Back("function_call_output")>>)
             = FlatMap[Back("function_call")] \o FlatMap[Back("function_call_output")]
      BY <1>2, <3>5, SpreadTwo
    <3>7. <<Back("function_call"), Back("function_call_output")>> \in Seq(RestoredItem)
      BY <3>5
    <3> QED
      BY <3>1, <3>2, <3>3, <3>4, <3>5, <3>6, <3>7 DEF B
  <2> QED
    BY <2>1, <2>2
<1>17. CASE item.type = "message"
  BY <1>17, MessagePieces
<1> QED
  BY <1>1, <1>11, <1>12, <1>13, <1>15, <1>16, <1>17 DEF Message!Types, Message!OtherTypes, B

\* What the upstream reads in items.
LEMMA FlattenedSpread ==
    ASSUME NEW items \in Seq(RestoredItem)
    PROVE  Flattened(items) = Spread(FlatMap, items)
<1>1. \A i \in DOMAIN items : items[i] \in RestoredItem
  OBVIOUS
<1> QED
  BY <1>1 DEF Flattened, Spread, FlatMap

\* What comes of a whole answer is what the upstream made of it.
LEMMA OutputPieces ==
    ASSUME strict \in BOOLEAN, client = "all", NEW output \in Seq(AnswerItem), NEW streamed \in BOOLEAN, ~ streamed,
           ~ Message!Fails(output)
    PROVE  /\ contentOf(output, streamed) \in Seq(OwnBlock)
           /\ Spread(PieceMap, contentOf(output, streamed)) =
                 Flattened(FlattenSeq([k \in DOMAIN output |-> Restored(output[k])]))
<1> DEFINE B(k) == blocksOf(output[k], streamed)
           R(k) == Restored(output[k])
           all == {output[k].type : k \in DOMAIN output}
           parts(types) == [k \in DOMAIN output |-> IF output[k].type \in types THEN B(k) ELSE << >>]
           restored == [k \in DOMAIN output |-> R(k)]
           N == Len(output)
           Q == Seq(OwnBlock)
           V == Seq(Reading)
           I == Seq(RestoredItem)
<1>1. N \in Nat /\ DOMAIN output = 1 .. N /\ \A k \in 1 .. N : output[k] \in AnswerItem /\ output[k].type \in all
  OBVIOUS
<1>2. \A k \in 1 .. N : Message!convert(output[k]).ok
  BY <1>1 DEF Message!Fails
<1>3. PieceMap \in Maps(OwnBlock, Reading) /\ FlatMap \in Maps(RestoredItem, Reading)
  BY MapsTyped
<1>4. ASSUME NEW k \in 1 .. N
      PROVE  /\ B(k) \in Q /\ R(k) \in I /\ Spread(PieceMap, B(k)) = Spread(FlatMap, R(k))
             /\ output[k].type = "reasoning" => R(k) = << >>
  <2>1. output[k] \in AnswerItem /\ Message!convert(output[k]).ok
    BY <1>1, <1>2
  <2>2. B(k) \in Q
    BY <2>1, OwnBlocks
  <2>3. R(k) \in I /\ Spread(PieceMap, B(k)) = Spread(FlatMap, R(k))
    BY <2>1, ItemPieces
  <2>4. output[k].type = "reasoning" => R(k) = << >>
    BY DEF Restored
  <2> QED
    BY <2>2, <2>3, <2>4
<1>5. contentOf(output, streamed) = FlattenSeq(parts({"reasoning"})) \o FlattenSeq(parts(all \ {"reasoning"}))
  BY DEF contentOf
<1> HIDE DEF B, R, N, all
<1>6. << >> \in Q /\ << >> \in V /\ << >> \in I
  OBVIOUS
<1> HIDE DEF Q, V, I
<1>7. /\ Spread(PieceMap, << >>) = << >> /\ Spread(FlatMap, << >>) = << >>
      /\ \A q \in Q : Spread(PieceMap, q) \in V
  <2>1. /\ Spread(PieceMap, << >>) = << >>
        /\ \A q \in Seq(OwnBlock) : Spread(PieceMap, q) \in Seq(Reading)
    BY <1>3, SpreadAppend, Zenon
  <2>2. Spread(FlatMap, << >>) = << >>
    BY <1>3, SpreadAppend, Zenon
  <2> QED
    BY <2>1, <2>2 DEF Q, V
<1>8. ASSUME NEW types
      PROVE  /\ parts(types) \in Seq(Q) /\ DOMAIN parts(types) = 1 .. N /\ FlattenSeq(parts(types)) \in Q
             /\ Spread(PieceMap, FlattenSeq(parts(types))) =
                   FlattenSeq([k \in 1 .. N |-> Spread(PieceMap, parts(types)[k])])
  <2>1. parts(types) \in Seq(Q) /\ DOMAIN parts(types) = 1 .. N
    BY <1>1, <1>4, <1>6
  <2> HIDE DEF parts
  <2>2. FlattenSeq(parts(types)) \in Q
    BY <2>1, Joined DEF Q
  <2>3. \A seqs \in Seq(Seq(OwnBlock)) :
           Spread(PieceMap, FlattenSeq(seqs)) = FlattenSeq([k \in DOMAIN seqs |-> Spread(PieceMap, seqs[k])])
    BY <1>3, SpreadJoined
  <2>4. Spread(PieceMap, FlattenSeq(parts(types))) =
           FlattenSeq([k \in DOMAIN parts(types) |-> Spread(PieceMap, parts(types)[k])])
    BY <2>1, <2>3, Zenon DEF Q
  <2> QED
    BY <2>1, <2>2, <2>4
<1>9. Spread(PieceMap, FlattenSeq(parts({"reasoning"}))) = << >>
  <2> DEFINE g == [k \in 1 .. N |-> Spread(PieceMap, parts({"reasoning"})[k])]
  <2>1. \A k \in 1 .. N : Spread(PieceMap, parts({"reasoning"})[k]) = << >>
    BY <1>1, <1>4, <1>7
  <2>2. g \in Seq(V) /\ \A k \in 1 .. Len(g) : g[k] = << >>
    <3> HIDE DEF parts
    <3> QED
      BY <1>1, <1>6, <2>1
  <2> HIDE DEF g
  <2>3. FlattenSeq(g) = << >>
    BY <2>2, SpreadNothing DEF V
  <2> QED
    BY <1>8, <2>3 DEF g
<1>10. Spread(PieceMap, FlattenSeq(parts(all \ {"reasoning"}))) = Spread(FlatMap, FlattenSeq(restored))
  <2> DEFINE seqs == parts(all \ {"reasoning"})
  <2>1. \A k \in 1 .. N : Spread(PieceMap, seqs[k]) = Spread(FlatMap, restored[k])
    <3> TAKE k \in 1 .. N
    <3>1. restored[k] = R(k)
      BY <1>1
    <3>2. CASE output[k].type = "reasoning"
      <4>1. seqs[k] = << >>
        BY <1>1, <3>2
      <4> QED
        BY <1>4, <1>7, <3>1, <3>2, <4>1
    <3>3. CASE output[k].type # "reasoning"
      <4>1. seqs[k] = B(k)
        BY <1>1, <3>3
      <4> QED
        BY <1>4, <3>1, <4>1
    <3> QED
      BY <3>2, <3>3
  <2>2. restored \in Seq(I) /\ DOMAIN restored = 1 .. N
    BY <1>1, <1>4
  <2> HIDE DEF parts, restored
  <2>3. \A s \in Seq(Seq(RestoredItem)) :
           Spread(FlatMap, FlattenSeq(s)) = FlattenSeq([k \in DOMAIN s |-> Spread(FlatMap, s[k])])
    BY <1>3, SpreadJoined
  <2>4. Spread(FlatMap, FlattenSeq(restored)) = FlattenSeq([k \in DOMAIN restored |-> Spread(FlatMap, restored[k])])
    BY <2>2, <2>3, Zenon DEF I
  <2>5. [k \in 1 .. N |-> Spread(PieceMap, seqs[k])] = [k \in 1 .. N |-> Spread(FlatMap, restored[k])]
    BY <2>1
  <2> QED
    BY <1>8, <2>2, <2>4, <2>5
<1>11. Spread(FlatMap, FlattenSeq(restored)) = Flattened(FlattenSeq(restored))
  <2>1. restored \in Seq(I)
    BY <1>1, <1>4
  <2> HIDE DEF restored
  <2>2. FlattenSeq(restored) \in Seq(RestoredItem)
    BY <2>1, Joined DEF I
  <2> QED
    BY <2>2, FlattenedSpread
<1> DEFINE F == FlattenSeq(parts({"reasoning"}))
           G == FlattenSeq(parts(all \ {"reasoning"}))
<1>12. F \in Q /\ G \in Q
  BY <1>8
<1> HIDE DEF parts, restored, F, G
<1>13. F \o G \in Q /\ Spread(PieceMap, F \o G) = Spread(PieceMap, F) \o Spread(PieceMap, G)
  <2>1. \A s, t \in Seq(OwnBlock) : Spread(PieceMap, s \o t) = Spread(PieceMap, s) \o Spread(PieceMap, t)
    BY <1>3, SpreadJoin
  <2>2. Spread(PieceMap, F \o G) = Spread(PieceMap, F) \o Spread(PieceMap, G)
    BY <1>12, <2>1, Zenon DEF Q
  <2>3. F \o G \in Q
    BY <1>12 DEF Q
  <2> QED
    BY <2>2, <2>3
<1>14. << >> \o Spread(PieceMap, G) = Spread(PieceMap, G)
  <2>1. Spread(PieceMap, G) \in Seq(Reading)
    BY <1>7, <1>12 DEF V
  <2> QED
    BY <2>1
<1>15. Spread(PieceMap, F \o G) = Flattened(FlattenSeq(restored))
  BY <1>9, <1>10, <1>11, <1>13, <1>14 DEF F, G
<1> QED
  BY <1>5, <1>13, <1>15 DEF Q, F, G, restored, R

-----------------------------------------------------------------------------
(* What is read of one message                                              *)

\* What the upstream reads in an item, if it is of message n.
FlatOf(n) == [item \in InputItem |-> IF item.from[1][1] = n THEN Flat(item) ELSE << >>]

\* So what the upstream reads of message n is what comes of the items one by one.
LEMMA FlatOfTyped ==
    ASSUME NEW n
    PROVE  /\ FlatOf(n) \in Maps(InputItem, Reading)
           /\ \A items \in Seq(InputItem) : FlattenedOf(n, items) = Spread(FlatOf(n), items)
<1>1. \A item \in InputItem : Flat(item) \in Seq(Reading)
  BY FlatRead DEF InputItem, ReadTypes
<1>2. << >> \in Seq(Reading)
  OBVIOUS
<1>3. \A item \in InputItem : FlatOf(n)[item] = IF item.from[1][1] = n THEN Flat(item) ELSE << >>
  BY DEF FlatOf
<1>4. FlatOf(n) \in Maps(InputItem, Reading)
  <2>1. \A item \in InputItem : FlatOf(n)[item] \in Seq(Reading)
    BY <1>1, <1>2, <1>3
  <2> QED
    BY <2>1 DEF Maps, FlatOf
<1>5. ASSUME NEW items \in Seq(InputItem)
      PROVE  FlattenedOf(n, items) = Spread(FlatOf(n), items)
  <2>1. \A i \in DOMAIN items : items[i] \in InputItem
    OBVIOUS
  <2>2. [i \in DOMAIN items |-> IF items[i].from[1][1] = n THEN Flat(items[i]) ELSE << >>]
           = [i \in DOMAIN items |-> FlatOf(n)[items[i]]]
    BY <1>3, <2>1
  <2> QED
    BY <2>2 DEF FlattenedOf, Spread
<1> QED
  BY <1>4, <1>5

\* One item more.
LEMMA FlattenedMore ==
    ASSUME NEW n, NEW items \in Seq(InputItem), NEW item \in InputItem
    PROVE  /\ FlattenedOf(n, items) \in Seq(Reading) /\ FlattenedOf(n, << >>) = << >>
           /\ FlattenedOf(n, Append(items, item)) =
                 FlattenedOf(n, items) \o IF item.from[1][1] = n THEN Flat(item) ELSE << >>
<1> DEFINE f == FlatOf(n)
<1>1. f \in Maps(InputItem, Reading) /\ \A q \in Seq(InputItem) : FlattenedOf(n, q) = Spread(f, q)
  BY FlatOfTyped
<1>2. f[item] = IF item.from[1][1] = n THEN Flat(item) ELSE << >>
  BY DEF FlatOf
<1> HIDE DEF f
<1>3. /\ Spread(f, << >>) = << >> /\ \A q \in Seq(InputItem) : Spread(f, q) \in Seq(Reading)
      /\ \A q \in Seq(InputItem), x \in InputItem : Spread(f, Append(q, x)) = Spread(f, q) \o f[x]
  <2>1. f \in Maps(InputItem, Reading)
    BY <1>1
  <2> QED
    BY <2>1, SpreadAppend, Zenon
<1>4. Append(items, item) \in Seq(InputItem) /\ << >> \in Seq(InputItem)
  OBVIOUS
<1>5. FlattenedOf(n, Append(items, item)) = Spread(f, Append(items, item)) /\ FlattenedOf(n, items) = Spread(f, items)
      /\ FlattenedOf(n, << >>) = Spread(f, << >>)
  BY <1>1, <1>4, Zenon
<1>6. Spread(f, Append(items, item)) = Spread(f, items) \o f[item]
  BY <1>3, Zenon
<1>7. Spread(f, items) \in Seq(Reading)
  BY <1>3, Zenon
<1> QED
  BY <1>2, <1>3, <1>5, <1>6, <1>7, Zenon

\* What is read of message n in the conversion so far, with the text gathered.
Shown(n, c) == FlattenedOf(n, flush(c).items)

\* Flushing does not change it.
LEMMA ShownFlush ==
    ASSUME NEW n, NEW c \in Conversion
    PROVE  /\ Shown(n, flush(c)) = Shown(n, c) /\ Shown(n, c) \in Seq(Reading)
           /\ c.current = << >> => Shown(n, c) = FlattenedOf(n, c.items)
<1>1. flush(c) \in Conversion /\ flush(c).current = << >>
  BY Flushed
<1>2. flush(flush(c)) = flush(c)
  <2> DEFINE d == flush(c)
  <2>1. d.current = << >>
    BY <1>1
  <2> HIDE DEF d
  <2>2. flush(d) = d
    BY <2>1 DEF flush
  <2> QED
    BY <2>2 DEF d
<1>3. FlattenedOf(n, flush(c).items) \in Seq(Reading)
  <2>1. flush(c).items \in Seq(InputItem)
    BY <1>1 DEF Conversion
  <2>2. \A q \in Seq(InputItem) : FlattenedOf(n, q) \in Seq(Reading)
    <3>1. FlatOf(n) \in Maps(InputItem, Reading) /\ \A q \in Seq(InputItem) : FlattenedOf(n, q) = Spread(FlatOf(n), q)
      BY FlatOfTyped
    <3>2. \A q \in Seq(InputItem) : Spread(FlatOf(n), q) \in Seq(Reading)
      BY <3>1, SpreadAppend, Zenon
    <3> QED
      BY <3>1, <3>2, Zenon
  <2> QED
    BY <2>1, <2>2, Zenon
<1>4. c.current = << >> => flush(c) = c
  BY DEF flush
<1> QED
  BY <1>2, <1>3, <1>4, Zenon DEF Shown

\* An item more.
LEMMA ShownWith ==
    ASSUME NEW n, NEW c \in Conversion, c.current = << >>, NEW type \in ReadTypes, NEW id \in Nat,
           NEW kinds \in KindMap, NEW at \in Nat \X Nat
    PROVE  LET d == With(c, type, id, kinds, at)
           IN  /\ at[1] # n => Shown(n, d) = Shown(n, c)
               /\ at[1] = n /\ type # "message" => Shown(n, d) = Shown(n, c) \o <<[type |-> type, id |-> id]>>
<1> DEFINE d == With(c, type, id, kinds, at)
           item == [type |-> type, id |-> id, content |-> << >>, from |-> <<at>>]
<1>1. item \in InputItem
  <2>1. << >> \in Seq(Contents) /\ <<at>> \in Seq(Nat \X Nat)
    BY Single
  <2> QED
    BY <2>1 DEF InputItem, ReadTypes
<1>2. d.items = Append(c.items, item) /\ d.current = << >>
  BY DEF With, Conversion
<1>3. item.from[1][1] = at[1]
  OBVIOUS
<1>4. type # "message" => Flat(item) = <<[type |-> type, id |-> id]>>
  BY DEF Flat
<1>5. c.items \in Seq(InputItem)
  BY DEF Conversion
<1> HIDE DEF d, item
<1>6. Shown(n, d) = FlattenedOf(n, d.items) /\ Shown(n, c) = FlattenedOf(n, c.items)
  BY <1>2 DEF Shown, flush
<1>7. FlattenedOf(n, Append(c.items, item)) = FlattenedOf(n, c.items) \o IF item.from[1][1] = n THEN Flat(item) ELSE << >>
  BY <1>1, <1>5, FlattenedMore
<1>8. FlattenedOf(n, c.items) \o << >> = FlattenedOf(n, c.items)
  <2>1. FlattenedOf(n, c.items) \in Seq(Reading)
    BY <1>1, <1>5, FlattenedMore
  <2> QED
    BY <2>1
<1> QED
  BY <1>2, <1>3, <1>4, <1>6, <1>7, <1>8 DEF d

\* Text more, of the message that is being gathered.
LEMMA ShownSay ==
    ASSUME NEW n, NEW c \in Conversion, NEW content \in Contents, NEW at \in Nat \X Nat,
           \A k \in DOMAIN c.current : c.current[k].at[1] = at[1]
    PROVE  LET d == say(c, content, at)
           IN  /\ at[1] # n => Shown(n, d) = Shown(n, c)
               /\ at[1] = n => Shown(n, d) = Shown(n, c) \o <<content>>
<1> DEFINE d == say(c, content, at)
           cur == c.current
           new == [content |-> content, at |-> at]
           Text(q) == [type |-> "message", id |-> 0, content |-> [k \in DOMAIN q |-> q[k].content],
                       from |-> [k \in DOMAIN q |-> q[k].at]]
           Said(q) == [k \in DOMAIN q |-> q[k].content]
           F == FlattenedOf(n, c.items)
<1>1. cur \in Seq(Gathered) /\ new \in Gathered /\ c.items \in Seq(InputItem)
  BY DEF Conversion, Gathered
<1>2. d.current = Append(cur, new) /\ d.items = c.items /\ d.current # << >>
  <2>1. d.current = Append(cur, new) /\ d.items = c.items
    BY DEF say, Conversion
  <2>2. Append(cur, new) # << >>
    BY <1>1
  <2> QED
    BY <2>1, <2>2
<1>3. \A q \in Seq(Gathered) : Said(q) \in Seq(Contents) /\ Text(q) \in InputItem /\ Flat(Text(q)) = Said(q)
  <2> TAKE q \in Seq(Gathered)
  <2>1. Len(q) \in Nat /\ DOMAIN q = 1 .. Len(q) /\ \A k \in 1 .. Len(q) : q[k] \in Gathered
    OBVIOUS
  <2>2. \A k \in 1 .. Len(q) : q[k].content \in Contents /\ q[k].at \in Nat \X Nat
    BY <2>1 DEF Gathered
  <2>3. Said(q) \in Seq(Contents) /\ [k \in DOMAIN q |-> q[k].at] \in Seq(Nat \X Nat)
    BY <2>1, <2>2
  <2>4. Text(q) \in InputItem
    BY <2>3 DEF InputItem, SafeTypes
  <2> QED
    BY <2>3, <2>4 DEF Flat
<1>4. \A q \in Seq(Gathered) : q # << >> /\ (\A k \in DOMAIN q : q[k].at[1] = at[1]) => Text(q).from[1][1] = at[1]
  <2> SUFFICES ASSUME NEW q \in Seq(Gathered), q # << >>, \A k \in DOMAIN q : q[k].at[1] = at[1]
               PROVE  Text(q).from[1][1] = at[1]
    OBVIOUS
  <2>1. 1 \in DOMAIN q
    OBVIOUS
  <2> QED
    BY <2>1
<1>5. Said(Append(cur, new)) = Append(Said(cur), content)
  <2>1. Len(cur) \in Nat /\ DOMAIN cur = 1 .. Len(cur) /\ Len(Said(cur)) = Len(cur) /\ Said(cur) \in Seq(Contents)
    <3>1. Len(cur) \in Nat /\ DOMAIN cur = 1 .. Len(cur) /\ cur \in Seq(Gathered)
      BY <1>1
    <3>2. DOMAIN Said(cur) = 1 .. Len(cur)
      BY <3>1
    <3>3. Said(cur) \in Seq(Contents)
      BY <1>3, <3>1, Zenon
    <3> QED
      BY <3>1, <3>2, <3>3
  <2>2. /\ DOMAIN Append(cur, new) = 1 .. Len(cur) + 1
        /\ \A k \in 1 .. Len(cur) + 1 : Append(cur, new)[k] = IF k = Len(cur) + 1 THEN new ELSE cur[k]
    BY <1>1, <2>1
  <2>3. Append(Said(cur), content) = [k \in 1 .. Len(cur) + 1 |-> IF k = Len(cur) + 1 THEN content ELSE Said(cur)[k]]
    BY <2>1
  <2>4. new.content = content
    OBVIOUS
  <2> HIDE DEF cur, new
  <2> QED
    BY <2>1, <2>2, <2>3, <2>4
<1>6. \A k \in DOMAIN d.current : d.current[k].at[1] = at[1]
  <2>1. \A k \in DOMAIN Append(cur, new) : Append(cur, new)[k] = new \/ (k \in DOMAIN cur /\ Append(cur, new)[k] = cur[k])
    BY <1>1
  <2> QED
    BY <1>2, <2>1
<1>7. \A e \in Conversion : e.current # << >> => flush(e).items = Append(e.items, Text(e.current))
  BY DEF flush, Conversion
<1>8. d \in Conversion
  <2>1. Append(cur, new) \in Seq(Gathered)
    BY <1>1
  <2> QED
    BY <2>1 DEF say, Conversion
<1>9. cur = << >> => flush(c).items = c.items
  BY DEF flush
<1>10. \A k \in DOMAIN cur : cur[k].at[1] = at[1]
  OBVIOUS
<1>11. \A item \in InputItem :
          FlattenedOf(n, Append(c.items, item)) = F \o IF item.from[1][1] = n THEN Flat(item) ELSE << >>
  BY <1>1, FlattenedMore
<1>12. F \in Seq(Reading) /\ F \o << >> = F
  <2>1. F \in Seq(Reading)
    BY <1>1, <1>3, FlattenedMore
  <2> QED
    BY <2>1
<1>13. Append(cur, new) \in Seq(Gathered)
  BY <1>1
<1>14. cur = << >> => Said(cur) = << >>
  OBVIOUS
<1> DEFINE more == Append(cur, new)
<1> HIDE DEF d, cur, new, Text, Said, F, more
<1>15. Shown(n, d) = F \o IF at[1] = n THEN Append(Said(cur), content) ELSE << >>
  <2>1. flush(d).items = Append(c.items, Text(more))
    BY <1>2, <1>7, <1>8 DEF more
  <2>2. Text(more).from[1][1] = at[1]
    BY <1>2, <1>4, <1>6, <1>13 DEF more
  <2>3. Text(more) \in InputItem /\ Flat(Text(more)) = Append(Said(cur), content)
    BY <1>3, <1>5, <1>13 DEF more
  <2>4. FlattenedOf(n, Append(c.items, Text(more))) = F \o IF Text(more).from[1][1] = n THEN Flat(Text(more)) ELSE << >>
    BY <1>11, <2>3, Zenon
  <2> QED
    BY <2>1, <2>2, <2>3, <2>4 DEF Shown
<1>16. Shown(n, c) = F \o IF at[1] = n THEN Said(cur) ELSE << >>
  <2>1. CASE cur = << >>
    <3>1. Shown(n, c) = F
      BY <1>9, <2>1 DEF Shown, F
    <3> QED
      BY <1>12, <1>14, <2>1, <3>1
  <2>2. CASE cur # << >>
    <3>1. flush(c).items = Append(c.items, Text(cur))
      BY <1>7, <2>2 DEF cur
    <3>2. Text(cur).from[1][1] = at[1] /\ Text(cur) \in InputItem /\ Flat(Text(cur)) = Said(cur)
      BY <1>1, <1>3, <1>4, <1>10, <2>2
    <3>3. FlattenedOf(n, Append(c.items, Text(cur))) = F \o IF Text(cur).from[1][1] = n THEN Flat(Text(cur)) ELSE << >>
      BY <1>11, <3>2, Zenon
    <3> QED
      BY <3>1, <3>2, <3>3 DEF Shown
  <2> QED
    BY <2>1, <2>2
<1>17. F \o Append(Said(cur), content) = (F \o Said(cur)) \o <<content>>
  <2>1. Said(cur) \in Seq(Reading) /\ content \in Reading
    <3>1. Said(cur) \in Seq(Contents)
      BY <1>1, <1>3
    <3> QED
      BY <3>1 DEF Reading
  <2>2. Append(Said(cur), content) = Said(cur) \o <<content>> /\ <<content>> \in Seq(Reading)
    BY <2>1
  <2>3. \A a, b, x \in Seq(Reading) : (a \o b) \o x = a \o (b \o x)
    BY JoinRight
  <2>4. (F \o Said(cur)) \o <<content>> = F \o (Said(cur) \o <<content>>)
    BY <1>12, <2>1, <2>2, <2>3, Zenon
  <2> QED
    BY <2>2, <2>4
<1> QED
  BY <1>15, <1>16, <1>17 DEF d

\* Message n is a whole answer as the client keeps it: a result in it is that of a
\* function call of its own.
Own(n) ==
    LET blocks == history[n].blocks
    IN  /\ history[n].role = "assistant" /\ blocks \in Seq(OwnBlock)
        /\ \A b \in 1 .. Len(blocks) : blocks[b].type = "tool_result" =>
              \E d \in 1 .. Len(blocks) : /\ d < b /\ blocks[d].type = "tool_use" /\ blocks[d].id = blocks[b].id
                                          /\ toolUseKind(blocks[d]) = "function_call"

\* What should be read of message n after b blocks of message m.
Told(n, m, b) ==
    IF m < n THEN << >>
    ELSE Spread(PieceMap, IF m = n THEN Upto(history[n].blocks, b) ELSE history[n].blocks)

\* It grows by what comes of the next block of message n.
LEMMA ToldGrows ==
    ASSUME strict \in BOOLEAN, history \in Seq(ChatMessage), NEW n \in 1 .. Len(history), Own(n),
           NEW m \in 1 .. Len(history), NEW b \in 1 .. Len(history[m].blocks)
    PROVE  /\ m # n => Told(n, m, b) = Told(n, m, b - 1)
           /\ m = n => Told(n, m, b) = Told(n, m, b - 1) \o Piece(BlockAt(m, b)) /\ BlockAt(m, b) \in OwnBlock
<1> DEFINE blocks == history[n].blocks
           N == Len(blocks)
<1>1. n \in Nat /\ m \in Nat
  BY Positions
<1>2. blocks \in Seq(OwnBlock)
  BY DEF Own
<1>3. /\ N \in Nat /\ \A i \in 0 .. N : Upto(blocks, i) \in Seq(OwnBlock)
      /\ \A i \in 0 .. N : i # N => /\ blocks[i + 1] \in OwnBlock
                                    /\ Upto(blocks, i + 1) = Append(Upto(blocks, i), blocks[i + 1])
  BY <1>2, UptoGrows
<1>4. m # n => Told(n, m, b) = Told(n, m, b - 1)
  BY DEF Told
<1>5. ASSUME m = n
      PROVE  Told(n, m, b) = Told(n, m, b - 1) \o Piece(BlockAt(m, b)) /\ BlockAt(m, b) \in OwnBlock
  <2> DEFINE i == b - 1
             x == blocks[b]
  <2>1. i \in 0 .. N /\ i # N /\ i + 1 = b
    <3>1. b \in 1 .. N /\ N \in Nat
      BY <1>3, <1>5
    <3> HIDE DEF N
    <3> QED
      BY <3>1
  <2> HIDE DEF blocks, N
  <2>2. x \in OwnBlock /\ Upto(blocks, b) = Append(Upto(blocks, i), x) /\ Upto(blocks, i) \in Seq(OwnBlock)
    BY <1>3, <2>1
  <2>3. PieceMap[x] = Piece(x)
    BY <2>2 DEF PieceMap
  <2>4. \A q \in Seq(OwnBlock), y \in OwnBlock : Spread(PieceMap, Append(q, y)) = Spread(PieceMap, q) \o PieceMap[y]
    <3>1. PieceMap \in Maps(OwnBlock, Reading)
      BY MapsTyped
    <3> HIDE DEF i, x
    <3> QED
      BY <3>1, SpreadAppend
  <2> HIDE DEF i, x
  <2>5. Spread(PieceMap, Append(Upto(blocks, i), x)) = Spread(PieceMap, Upto(blocks, i)) \o PieceMap[x]
    BY <2>2, <2>4, Zenon
  <2>6. Told(n, m, b) = Spread(PieceMap, Upto(blocks, b)) /\ Told(n, m, i) = Spread(PieceMap, Upto(blocks, i))
    BY <1>1, <1>5 DEF Told, blocks
  <2>7. BlockAt(m, b) = x
    BY <1>5 DEF BlockAt, x, blocks
  <2> QED
    BY <2>2, <2>3, <2>5, <2>6, <2>7 DEF i
<1> QED
  BY <1>4, <1>5

\* From one message to the next.
LEMMA ToldNext ==
    ASSUME strict \in BOOLEAN, history \in Seq(ChatMessage), NEW n \in 1 .. Len(history), Own(n)
    PROVE  /\ Told(n, 1, 0) = << >> /\ Told(n, Len(history) + 1, 0) = Spread(PieceMap, history[n].blocks)
           /\ \A m \in 1 .. Len(history) : Told(n, m, Len(history[m].blocks)) = Told(n, m + 1, 0)
<1> DEFINE blocks == history[n].blocks
<1>1. n \in Nat /\ Len(history) \in Nat /\ n >= 1 /\ n <= Len(history)
  BY Positions
<1>2. Upto(blocks, 0) = << >> /\ Upto(blocks, Len(blocks)) = blocks
  BY UptoGrows DEF Own
<1>3. Spread(PieceMap, << >>) = << >>
  BY MapsTyped, SpreadAppend
<1>4. Told(n, 1, 0) = << >>
  BY <1>1, <1>2, <1>3 DEF Told
<1>5. Told(n, Len(history) + 1, 0) = Spread(PieceMap, blocks)
  <2>1. ~ (Len(history) + 1 < n) /\ Len(history) + 1 # n
    BY <1>1
  <2> QED
    BY <2>1 DEF Told
<1>6. ASSUME NEW m \in 1 .. Len(history)
      PROVE  Told(n, m, Len(history[m].blocks)) = Told(n, m + 1, 0)
  <2>1. m \in Nat
    BY <1>1
  <2>2. CASE m + 1 < n
    <3>1. m < n
      BY <1>1, <2>1, <2>2
    <3> QED
      BY <2>2, <3>1 DEF Told
  <2>3. CASE m + 1 = n
    <3>1. m < n /\ ~ (m + 1 < n)
      BY <1>1, <2>1, <2>3
    <3>2. Told(n, m + 1, 0) = Spread(PieceMap, << >>)
      BY <1>2, <2>3, <3>1 DEF Told
    <3> QED
      BY <1>3, <3>1, <3>2 DEF Told
  <2>4. CASE m = n
    <3>1. ~ (m < n) /\ ~ (m + 1 < n) /\ m + 1 # n
      BY <1>1, <2>1, <2>4
    <3> QED
      BY <1>2, <2>4, <3>1 DEF Told
  <2>5. CASE n < m
    <3>1. ~ (m < n) /\ ~ (m + 1 < n) /\ m + 1 # n /\ m # n
      BY <1>1, <2>1, <2>5
    <3> QED
      BY <3>1 DEF Told
  <2> QED
    BY <1>1, <2>1, <2>2, <2>3, <2>4, <2>5
<1> QED
  BY <1>4, <1>5, <1>6

\* One round of the loop tells what comes of its block.
LEMMA RoundShows ==
    ASSUME strict \in BOOLEAN, history \in Seq(ChatMessage), NEW n \in 1 .. Len(history), Own(n),
           NEW m \in 1 .. Len(history), NEW b \in 1 .. Len(history[m].blocks),
           NEW c, Converted(c, m, b - 1), Tracked(c, m, b - 1), Shown(n, c) = Told(n, m, b - 1),
           convertBlock(c, history[m].role, history[m].blocks[b], <<m, b>>).ok
    PROVE  Shown(n, convertBlock(c, history[m].role, history[m].blocks[b], <<m, b>>)) = Told(n, m, b)
<1> DEFINE block == BlockAt(m, b)
           at == <<m, b>>
           role == history[m].role
           d == convertBlock(c, role, block, at)
           e == flush(c)
<1>1. /\ c \in Conversion /\ block \in Block /\ role \in {"user", "assistant"} /\ at \in Nat \X Nat /\ at[1] = m
      /\ d = convertBlock(c, history[m].role, history[m].blocks[b], <<m, b>>) /\ d.ok
      /\ m \in Nat /\ n \in Nat /\ b \in Nat
  BY Positions DEF Converted, BlockAt
<1>2. c.ok
  <2>1. ~ c.ok => d = c
    BY DEF convertBlock
  <2> QED
    BY <1>1, <2>1
<1>3. \A k \in DOMAIN c.current : c.current[k].at[1] = at[1]
  <2>1. Orderly(c, m)
    BY <1>2 DEF Converted
  <2> QED
    BY <1>1, <2>1 DEF Orderly
<1>4. e \in Conversion /\ e.current = << >> /\ e.ok = c.ok
  BY <1>1, Flushed
<1>5. Shown(n, e) = Shown(n, c) /\ Shown(n, c) \in Seq(Reading)
  BY <1>1, ShownFlush
<1>6. /\ m # n => Told(n, m, b) = Told(n, m, b - 1)
      /\ m = n => Told(n, m, b) = Told(n, m, b - 1) \o Piece(block) /\ block \in OwnBlock
  BY ToldGrows
<1>7. Shown(n, c) = Told(n, m, b - 1)
  OBVIOUS
<1>8. \/ Fails(d, block)
      \/ d = c \/ d = e
      \/ \E content \in Contents : d = say(c, content, at)
      \/ \E type \in ItemTypes \cup {None}, id \in Nat, kinds \in KindMap : d = With(e, type, id, kinds, at)
  <2>1. \/ Fails(d, block)
        \/ ~ KeptBlock(role, block) /\ (d = c \/ d = flush(c))
        \/ Says(c, d, role, block, at)
        \/ Adds(flush(c), d, role, block, at)
    BY <1>1, <1>2, ConvertsBlock
  <2> QED
    BY <2>1, Zenon DEF Says, Adds
<1>9. \A type \in ReadTypes, id \in Nat, kinds \in KindMap :
         /\ at[1] # n => Shown(n, With(e, type, id, kinds, at)) = Shown(n, e)
         /\ at[1] = n /\ type # "message" =>
               Shown(n, With(e, type, id, kinds, at)) = Shown(n, e) \o <<[type |-> type, id |-> id]>>
  <2>1. e \in Conversion /\ at \in Nat \X Nat
    BY <1>1, <1>4
  <2>2. e.current = << >>
    BY <1>4
  <2> HIDE DEF e, at
  <2> QED
    BY <2>1, <2>2, ShownWith, Zenon
<1>10. \A content \in Contents :
          /\ at[1] # n => Shown(n, say(c, content, at)) = Shown(n, c)
          /\ at[1] = n => Shown(n, say(c, content, at)) = Shown(n, c) \o <<content>>
  BY <1>1, <1>3, ShownSay
<1>11. CASE m # n
  <2>1. ~ Fails(d, block)
    BY <1>1 DEF Fails
  <2>2. ItemTypes \cup {None} = ReadTypes
    BY DEF ItemTypes, ReadTypes
  <2> HIDE DEF d, e, at, block, role
  <2>3. at[1] # n
    BY <1>1, <1>11
  <2>4. ASSUME NEW content \in Contents, d = say(c, content, at)
        PROVE  Shown(n, d) = Shown(n, c)
    BY <1>10, <2>3, <2>4
  <2>5. ASSUME NEW type \in ItemTypes \cup {None}, NEW id \in Nat, NEW kinds \in KindMap,
               d = With(e, type, id, kinds, at)
        PROVE  Shown(n, d) = Shown(n, c)
    BY <1>5, <1>9, <2>2, <2>3, <2>5
  <2>6. Shown(n, d) = Shown(n, c)
    BY <1>5, <1>8, <2>1, <2>4, <2>5, Zenon
  <2> QED
    BY <1>1, <1>6, <1>7, <1>11, <2>6 DEF d, block, role, at
<1>12. CASE m = n
  <2>0. role = "assistant" /\ block \in OwnBlock /\ Told(n, m, b) = Shown(n, c) \o Piece(block)
    BY <1>6, <1>7, <1>12 DEF Own
  <2>1. CASE block.type = "text"
    <3> DEFINE content == textType("assistant", block)
    <3>1. d = say(c, content, at)
      <4>1. ~ block.commentary
        BY <2>0 DEF OwnBlock
      <4>2. d = gather(c, role, block, at)
        BY <1>2, <2>1 DEF convertBlock, ItemBlocks
      <4> QED
        BY <2>0, <2>1, <4>1, <4>2 DEF gather
    <3>2. content \in Contents
      BY DEF textType, Contents
    <3>3. Piece(block) = <<content>>
      BY <2>1 DEF Piece, ItemBlocks
    <3> HIDE DEF d, e, at, content
    <3> QED
      BY <1>1, <1>10, <1>12, <2>0, <3>1, <3>2, <3>3
  <2>2. CASE block.type = "thinking"
    <3>1. d = c
      BY <1>2, <2>2 DEF convertBlock, ItemBlocks
    <3>2. Piece(block) = << >>
      BY <2>2 DEF Piece, ItemBlocks
    <3>3. Shown(n, c) \o << >> = Shown(n, c)
      BY <1>5
    <3> QED
      BY <1>1, <2>0, <3>1, <3>2, <3>3
  <2>3. CASE block.type \in ItemBlocks
    <3>1. d = convertItemBlock(e, block, at)
      BY <1>2, <2>3 DEF convertBlock, ItemBlocks
    <3>2. block.type = "tool_result" => kindOf(e, block.id) = "function_call"
      <4> SUFFICES ASSUME block.type = "tool_result"
                   PROVE  kindOf(e, block.id) = "function_call"
        OBVIOUS
      <4>1. PICK j \in 1 .. Len(history[n].blocks) :
                  /\ j < b /\ BlockAt(n, j).type = "tool_use" /\ BlockAt(n, j).id = block.id
                  /\ toolUseKind(BlockAt(n, j)) = "function_call"
        <5>1. b \in 1 .. Len(history[n].blocks) /\ block = history[n].blocks[b]
          BY <1>12 DEF BlockAt
        <5> QED
          BY <5>1 DEF Own, BlockAt
      <4> DEFINE u == <<n, j>>
      <4>2. u \in PositionsOf(history, {"tool_use"}) /\ BlockIn(history, u) = BlockAt(n, j) /\ IdIn(history, u) = block.id
        <5>1. u \in PositionsOf(history, {"tool_use"})
          BY <4>1, PositionsIn DEF BlockAt
        <5>2. BlockIn(history, u) = BlockAt(n, j)
          BY DEF BlockIn, BlockAt
        <5> QED
          BY <4>1, <5>1, <5>2 DEF IdIn
      <4>3. KindsKnown(c, m, b - 1)
        BY <1>2, Zenon DEF Tracked
      <4>4. u[1] = m /\ u[2] <= b - 1
        <5>1. j \in Nat
          BY <4>1
        <5> QED
          BY <1>1, <1>12, <4>1, <5>1
      <4>5. kindOf(c, block.id) = "function_call"
        BY <4>1, <4>2, <4>3, <4>4 DEF KindsKnown
      <4>6. e.kinds = c.kinds
        BY <1>1 DEF flush, Conversion
      <4> QED
        BY <4>5, <4>6 DEF kindOf
    <3>3. IF block.type = "web_search_tool_result" THEN d = e
          ELSE \E kinds \in KindMap : d = With(e, PieceType(block), block.id, kinds, at)
      BY <1>4, <2>0, <2>3, <3>1, <3>2, PieceMade
    <3>4. CASE block.type = "web_search_tool_result"
      <4>1. Piece(block) = << >>
        BY <3>4 DEF Piece, ItemBlocks
      <4>2. Shown(n, c) \o << >> = Shown(n, c)
        BY <1>5
      <4> QED
        BY <1>1, <1>5, <2>0, <3>3, <3>4, <4>1, <4>2
    <3>5. CASE block.type # "web_search_tool_result"
      <4>1. PICK kinds \in KindMap : d = With(e, PieceType(block), block.id, kinds, at)
        BY <3>3, <3>5
      <4>2. PieceType(block) \in ReadTypes /\ PieceType(block) # "message"
        BY <2>0, <2>3, <3>5, PieceTyped DEF ItemTypes, ReadTypes
      <4>3. Piece(block) = <<[type |-> PieceType(block), id |-> block.id]>>
        BY <2>3, <3>5 DEF Piece, ItemBlocks
      <4>4. block.id \in Nat
        BY <1>1 DEF Block
      <4> DEFINE x == [type |-> PieceType(block), id |-> block.id]
      <4>5. Shown(n, With(e, PieceType(block), block.id, kinds, at)) = Shown(n, e) \o <<x>>
        <5> HIDE DEF e, at, d
        <5> QED
          BY <1>1, <1>9, <1>12, <4>2, <4>4
      <4> HIDE DEF e, at, d, x
      <4> QED
        BY <1>1, <1>5, <2>0, <4>1, <4>3, <4>5 DEF x
    <3> QED
      BY <3>4, <3>5
  <2> QED
    BY <2>0, <2>1, <2>2, <2>3 DEF OwnBlock
<1> QED
  BY <1>11, <1>12

\* What holds of the conversion after b blocks of message m, and what it tells of
\* message n.
Shows(n, c, m, b) ==
    Converted(c, m, b) /\ Tracked(c, m, b) /\ (c.ok => Shown(n, c) = Told(n, m, b))

\* One message keeps it.
LEMMA MessageShows ==
    ASSUME strict \in BOOLEAN, history \in Seq(ChatMessage), NEW k, Paired(history, k),
           NEW n \in 1 .. Len(history), Own(n), NEW m \in 1 .. Len(history), NEW c, Shows(n, c, m, 0)
    PROVE  Shows(n, messageToInputItems(c, history[m], m), m + 1, 0)
<1> DEFINE msg == history[m]
           N == Len(msg.blocks)
<1>0. Converted(c, m, 0) /\ Tracked(c, m, 0) /\ (c.ok => Shown(n, c) = Told(n, m, 0))
  BY Zenon DEF Shows
<1>1. N \in Nat /\ m \in Nat /\ c \in Conversion /\ msg \in ChatMessage
  BY <1>0, Positions DEF Converted
<1>2. PICK after : /\ after[0] = c
                   /\ \A b \in 1 .. N :
                         after[b] = convertBlock(after[b - 1], msg.role, msg.blocks[b], <<m, b>>)
                   /\ messageToInputItems(c, msg, m) = flush(after[N])
  BY <1>1, MessageLoop
<1> DEFINE S == {b \in 0 .. N : Shows(n, after[b], m, b)}
<1>3. 0 \in S
  BY <1>1, <1>2
<1>4. ASSUME NEW b \in 0 .. N, b # N, b \in S
      PROVE  b + 1 \in S
  <2> DEFINE x == after[b]
             y == after[b + 1]
             i == b + 1
  <2>1. i \in 1 .. N /\ i - 1 = b /\ i \in 0 .. N
    BY <1>1, <1>4
  <2>2. y = convertBlock(x, msg.role, msg.blocks[i], <<m, i>>)
    BY <1>2, <2>1
  <2>3. Converted(x, m, b) /\ Tracked(x, m, b) /\ (x.ok => Shown(n, x) = Told(n, m, b))
    BY <1>4, Zenon DEF Shows
  <2>4. x \in Conversion
    BY <2>3 DEF Converted
  <2> HIDE DEF x, y, i
  <2>5. Converted(x, m, i - 1) /\ Tracked(x, m, i - 1)
    BY <2>1, <2>3
  <2>6. Converted(y, m, i)
    BY <2>1, <2>2, <2>5, RoundKeeps
  <2>7. Tracked(y, m, i)
    BY <2>1, <2>2, <2>4, <2>5, RoundTracks
  <2>8. ASSUME y.ok
        PROVE  Shown(n, y) = Told(n, m, i)
    <3>1. x.ok
      <4>1. ~ x.ok => y = x
        BY <2>2 DEF convertBlock
      <4> QED
        BY <2>8, <4>1
    <3>2. Shown(n, x) = Told(n, m, i - 1)
      BY <2>1, <2>3, <3>1
    <3> QED
      BY <2>1, <2>2, <2>5, <2>8, <3>2, RoundShows
  <2>9. Shows(n, y, m, i)
    BY <2>6, <2>7, <2>8, Zenon DEF Shows
  <2> QED
    BY <2>1, <2>9 DEF y, i
<1> HIDE DEF S
<1>5. \A b \in 0 .. N : b \in S
  BY <1>1, <1>3, <1>4, Induction
<1> DEFINE z == after[N]
           d == flush(z)
<1>6. Converted(z, m, N) /\ Tracked(z, m, N) /\ (z.ok => Shown(n, z) = Told(n, m, N))
  <2>1. N \in 0 .. N
    BY <1>1
  <2>2. N \in S
    BY <1>5, <2>1
  <2>3. Shows(n, after[N], m, N)
    BY <2>2 DEF S
  <2> QED
    BY <2>3, Zenon DEF Shows
<1>7. messageToInputItems(c, msg, m) = d
  BY <1>2
<1>8. Converted(d, m + 1, 0)
  BY <1>0, <1>7, MessageKeeps
<1>9. Tracked(d, m + 1, 0)
  BY <1>0, <1>1, <1>7, MessageTracks
<1>10. z \in Conversion
  BY <1>6 DEF Converted
<1> HIDE DEF z
<1>11. d.ok = z.ok /\ Shown(n, d) = Shown(n, z)
  BY <1>10, Flushed, ShownFlush
<1>12. Told(n, m, N) = Told(n, m + 1, 0)
  BY ToldNext
<1> HIDE DEF d, N, msg
<1>13. Shows(n, d, m + 1, 0)
  BY <1>6, <1>8, <1>9, <1>11, <1>12, Zenon DEF Shows
<1> QED
  BY <1>7, <1>13 DEF msg

\* The input tells of message n what comes of its blocks.
LEMMA InputShows ==
    ASSUME strict \in BOOLEAN, history \in Seq(ChatMessage), NEW k, Paired(history, k),
           NEW n \in 1 .. Len(history), Own(n), input.ok
    PROVE  FlattenedOf(n, input.items) = Spread(PieceMap, history[n].blocks)
<1> DEFINE N == Len(history)
<1>1. N \in Nat /\ Start \in Conversion /\ Converted(Start, 1, 0)
  BY StartConverted
<1>2. PICK after : /\ after[0] = Start
                   /\ \A m \in 1 .. N : after[m] = messageToInputItems(after[m - 1], history[m], m)
                   /\ inputOf(history) = after[N]
  BY <1>1, HistoryLoop
<1> DEFINE S == {m \in 0 .. N : Shows(n, after[m], m + 1, 0) /\ after[m].current = << >>}
<1>3. Shows(n, Start, 1, 0) /\ Start.current = << >>
  <2>1. Start.items = << >> /\ Start.current = << >>
    BY DEF Start
  <2>2. KindsKnown(Start, 1, 0)
    <3>1. \A u \in PositionsOf(history, {"tool_use"}) : u[1] \in 1 .. N /\ u[2] \in 1 .. Len(history[u[1]].blocks)
      BY PositionsIn
    <3>2. \A u \in PositionsOf(history, {"tool_use"}) : ~ (u[1] < 1 \/ (u[1] = 1 /\ u[2] <= 0))
      BY <1>1, <3>1
    <3> QED
      BY <3>2 DEF KindsKnown
  <2>3. Tracked(Start, 1, 0)
    <3>1. (\A i \in DOMAIN Start.items : FALSE) /\ (\A i \in DOMAIN Start.current : FALSE)
      BY <2>1
    <3> QED
      BY <2>2, <3>1 DEF Tracked
  <2>4. Shown(n, Start) = << >>
    <3>1. Shown(n, Start) = FlattenedOf(n, << >>)
      BY <1>1, <2>1, ShownFlush
    <3>2. FlattenedOf(n, << >>) = << >>
      BY DEF FlattenedOf, FlattenSeq
    <3> QED
      BY <3>1, <3>2
  <2>5. Told(n, 1, 0) = << >>
    BY ToldNext
  <2> QED
    BY <1>1, <2>1, <2>3, <2>4, <2>5, Zenon DEF Shows
<1>4. 0 \in S
  BY <1>1, <1>2, <1>3
<1>5. ASSUME NEW m \in 0 .. N, m # N, m \in S
      PROVE  m + 1 \in S
  <2> DEFINE x == after[m]
             y == after[m + 1]
             i == m + 1
  <2>1. i \in 1 .. N /\ i \in 0 .. N /\ i - 1 = m /\ i \in Nat
    BY <1>1, <1>5
  <2>2. y = messageToInputItems(x, history[i], i)
    BY <1>2, <2>1
  <2>3. Shows(n, x, i, 0)
    BY <1>5, Zenon
  <2>4. x \in Conversion /\ history[i] \in ChatMessage
    BY <2>1, <2>3 DEF Shows, Converted
  <2> HIDE DEF x, y, i
  <2>5. Shows(n, y, i + 1, 0)
    BY <2>1, <2>2, <2>3, MessageShows
  <2>6. y.current = << >>
    BY <2>1, <2>2, <2>4, MessageStays
  <2> QED
    BY <2>1, <2>5, <2>6 DEF y, i
<1> HIDE DEF S
<1>6. \A m \in 0 .. N : m \in S
  BY <1>1, <1>4, <1>5, Induction
<1>7. Shows(n, input, N + 1, 0) /\ input.current = << >>
  <2>1. N \in 0 .. N
    BY <1>1
  <2>2. N \in S
    BY <1>6, <2>1
  <2> QED
    BY <1>2, <2>2 DEF S, input
<1>8. Converted(input, N + 1, 0) /\ Shown(n, input) = Told(n, N + 1, 0)
  BY <1>7, Zenon DEF Shows
<1>9. input \in Conversion
  BY <1>8 DEF Converted
<1>10. Shown(n, input) = FlattenedOf(n, input.items)
  BY <1>7, <1>9, ShownFlush
<1>11. Told(n, N + 1, 0) = Spread(PieceMap, history[n].blocks)
  BY ToldNext
<1> QED
  BY <1>8, <1>10, <1>11

-----------------------------------------------------------------------------
(* The history of a client that keeps whole blocks                          *)

\* The blocks of an answer that came whole, as such a client keeps them, are the
\* bridge's, and the calls whose results came with them are function calls.
Whole(msg) ==
    client = "all" /\ msg.role = "assistant" /\ msg.output # << >> /\ ~ msg.streamed =>
        /\ msg.output \in Seq(AnswerItem) /\ ~ Message!Fails(msg.output)
        /\ msg.blocks = contentOf(msg.output, msg.streamed)
        /\ \A b \in 1 .. Len(msg.blocks) : msg.blocks[b].type = "tool_result" =>
              \E d \in 1 .. Len(msg.blocks) :
                 /\ d < b /\ msg.blocks[d].type = "tool_use" /\ msg.blocks[d].id = msg.blocks[b].id
                 /\ toolUseKind(msg.blocks[d]) = "function_call"

\* Every message of the history is as it was made.
WholeKept == \A msg \in {history[m] : m \in 1 .. Len(history)} : Whole(msg)

\* What a message is does not change, as the mode and the client do not.
LEMMA WholeStays ==
    ASSUME strict' = strict, client' = client, NEW msg, Whole(msg)
    PROVE  Whole(msg)'
<1>1. ASSUME NEW item
      PROVE  Message!convert(item)' = Message!convert(item)
  BY DEF Message!convert, Message!openAIMessageToBlocks, Message!toolCallToBlock,
         Message!callToBlocks,
         Message!callResultToBlock, Message!toolOutputToBlock, Message!openAIReasoningToThinkingBlock,
         Message!openAIWebSearchToBlocks, Message!openAICompactionToBlock,
         Message!openAIImageGenerationToBlock, Message!openAIOpaqueOutputToBlock,
         Message!Both, Message!Blocks, Message!Error, Message!ErrorIfStrict, Message!textBlocks, Message!known,
         Message!PlainCalls, Message!ResultCalls, Message!ToolOutputs
<1>2. ASSUME NEW item, NEW streamed
      PROVE  blocksOf(item, streamed)' = blocksOf(item, streamed)
  BY <1>1 DEF blocksOf, shapesOf
<1>3. ASSUME NEW output, NEW streamed
      PROVE  contentOf(output, streamed)' = contentOf(output, streamed)
  BY <1>2 DEF contentOf
<1>4. ASSUME NEW output
      PROVE  Message!Fails(output)' = Message!Fails(output)
  BY <1>1 DEF Message!Fails
<1>5. ASSUME NEW block
      PROVE  toolUseKind(block)' = toolUseKind(block)
  BY DEF toolUseKind, stored, FailIfStrict
<1> QED
  BY <1>3, <1>4, <1>5 DEF Whole

\* An answer that comes whole is such a message.
LEMMA AnswerWhole ==
    ASSUME TypeOK, WholeKept, Answer
    PROVE  WholeKept'
<1>0. /\ strict \in BOOLEAN /\ client \in {"all", "documented", "plain"} /\ history \in Seq(ChatMessage)
      /\ deeds \in Nat /\ client' = client /\ strict' = strict
  BY ConversationAssumption DEF TypeOK, Answer
<1>1. PICK n \in 1..2, streamed \in BOOLEAN :
         \E done \in [1..n -> Deeds] :
            LET output == OutputOf(done, n)
                blocks == contentOf(output, streamed)
            IN  /\ \A k \in DOMAIN output : ~ refused(output[k], streamed)
                /\ history' = Append(history,
                     [role |-> "assistant", blocks |-> [k \in DOMAIN blocks |-> kept(blocks[k])],
                      stop |-> stopReason(output, streamed), output |-> output,
                      streamed |-> streamed])
  BY DEF Answer, OutputOf
<1>2. PICK done \in [1..n -> Deeds] :
         LET output == OutputOf(done, n)
             blocks == contentOf(output, streamed)
         IN  /\ \A k \in DOMAIN output : ~ refused(output[k], streamed)
             /\ history' = Append(history,
                  [role |-> "assistant", blocks |-> [k \in DOMAIN blocks |-> kept(blocks[k])],
                   stop |-> stopReason(output, streamed), output |-> output,
                   streamed |-> streamed])
  BY <1>1
<1> DEFINE output == OutputOf(done, n)
           content == contentOf(output, streamed)
           blocks == [k \in DOMAIN content |-> kept(content[k])]
           msg == [role |-> "assistant", blocks |-> blocks, stop |-> stopReason(output, streamed),
                   output |-> output, streamed |-> streamed]
<1>3. output \in Seq(AnswerItem) /\ CallsApart(output)
  BY <1>0, OutputApart
<1>4. /\ \A k \in DOMAIN output : ~ refused(output[k], streamed)
      /\ history' = Append(history, msg)
  BY <1>2
<1> HIDE DEF output
<1>5. AnswerKept(blocks, output, streamed)
  BY <1>0, <1>3, AnswerTidy
<1>6. content \in Seq(MessageBlock)
  BY <1>0, <1>3, BlocksOfAnswer
<1>7. client = "all" => blocks = content
  <2> HIDE DEF content
  <2> SUFFICES ASSUME client = "all"
               PROVE  blocks = content
    OBVIOUS
  <2>1. \A block : kept(block) = block
    BY DEF kept
  <2>2. blocks = [k \in DOMAIN content |-> content[k]]
    BY <2>1
  <2> QED
    BY <1>6, <2>2
<1>8. msg.blocks = blocks /\ msg.output = output /\ msg.streamed = streamed
  OBVIOUS
<1> HIDE DEF content, blocks, msg
<1>9. Whole(msg)
  <2> SUFFICES ASSUME client = "all", ~ streamed
               PROVE  /\ blocks = content
                      /\ \A b \in 1 .. Len(blocks) : blocks[b].type = "tool_result" =>
                            \E d \in 1 .. Len(blocks) :
                               /\ d < b /\ blocks[d].type = "tool_use" /\ blocks[d].id = blocks[b].id
                               /\ toolUseKind(blocks[d]) = "function_call"
    <3>1. ~ streamed => ~ Message!Fails(output)
      BY <1>4 DEF refused, Message!Fails
    <3> QED
      BY <1>3, <1>8, <3>1 DEF Whole, content
  <2>1. ASSUME NEW b \in 1 .. Len(blocks), blocks[b].type = "tool_result"
        PROVE  \E d \in 1 .. Len(blocks) :
                  /\ d < b /\ blocks[d].type = "tool_use" /\ blocks[d].id = blocks[b].id
                  /\ toolUseKind(blocks[d]) = "function_call"
    <3>1. PICK d \in 1 .. Len(blocks) : d < b /\ blocks[d].type = "tool_use" /\ blocks[d].id = blocks[b].id
      BY <1>5, <2>1 DEF AnswerKept, ResultBlocks
    <3>2. toolUseKind(blocks[d]) = "function_call"
      BY <1>5, <2>1, <3>1 DEF AnswerKept
    <3> QED
      BY <3>1, <3>2
  <2> QED
    BY <1>7, <2>1
<1>10. \A old \in {history'[m] : m \in 1 .. Len(history')} : old = msg \/ old \in {history[m] : m \in 1 .. Len(history)}
  <2>1. \A m \in 1 .. Len(history') : history'[m] = msg \/ (m \in 1 .. Len(history) /\ history'[m] = history[m])
    BY <1>0, <1>4
  <2> QED
    BY <2>1
<1>11. ASSUME NEW old \in {history'[m] : m \in 1 .. Len(history')}
       PROVE  Whole(old)'
  <2>1. Whole(old)
    BY <1>9, <1>10 DEF WholeKept
  <2> QED
    BY <1>0, <2>1, WholeStays
<1> QED
  BY <1>11 DEF WholeKept

\* What the user says is no answer.
LEMMA AskWhole ==
    ASSUME TypeOK, WholeKept, Ask
    PROVE  WholeKept'
<1>1. history \in Seq(ChatMessage) /\ client' = client /\ strict' = strict
  BY DEF TypeOK, Ask
<1>2. PICK blocks : history' = Append(history, UserMessage(blocks))
  BY Zenon DEF Ask
<1> DEFINE msg == UserMessage(blocks)
<1>3. Whole(msg)
  BY DEF UserMessage, Whole
<1> HIDE DEF msg
<1>4. \A old \in {history'[m] : m \in 1 .. Len(history')} : old = msg \/ old \in {history[m] : m \in 1 .. Len(history)}
  <2>1. \A m \in 1 .. Len(history') : history'[m] = msg \/ (m \in 1 .. Len(history) /\ history'[m] = history[m])
    BY <1>1, <1>2 DEF msg
  <2> QED
    BY <2>1
<1>5. ASSUME NEW old \in {history'[m] : m \in 1 .. Len(history')}
      PROVE  Whole(old)'
  <2>1. Whole(old)
    BY <1>3, <1>4 DEF WholeKept
  <2> QED
    BY <1>1, <2>1, WholeStays
<1> QED
  BY <1>5 DEF WholeKept

\* The same for a step that says nothing.
LEMMA SameWhole ==
    ASSUME WholeKept, history' = history, client' = client, strict' = strict
    PROVE  WholeKept'
<1>1. ASSUME NEW old \in {history'[m] : m \in 1 .. Len(history')}
      PROVE  Whole(old)'
  <2>1. Whole(old)
    BY DEF WholeKept
  <2> QED
    BY <2>1, WholeStays
<1> QED
  BY <1>1 DEF WholeKept

\* A client that keeps whole blocks gives the upstream its own output back: what the
\* bridge made of an answer that came whole, converted again among the messages before
\* and after it, reads as what OutputItemsToInputItems would have copied, in the
\* upstream's order, with its types and ids, and with the text between the items where
\* it was (attachStoredResponseItem, storedResponseItemToInputItem,
\* messageToInputItems), except for what Restored names: reasoning and commentary do
\* not come back, nor do parts of a message of type "text", a compaction comes back
\* without its id, and calls the upstream cannot take back as function calls.
THEOREM OutputsRestored == Spec => []RestoresOutput
<1>1. Init => WholeKept
  <2> SUFFICES ASSUME Init, NEW msg \in {history[m] : m \in 1 .. Len(history)}
               PROVE  Whole(msg)
    BY DEF WholeKept
  <2>1. history \in Seq(ChatMessage) /\ \A m \in DOMAIN history : history[m].output = << >>
    BY ConversationAssumption DEF Init
  <2>2. msg.output = << >>
    BY <2>1
  <2> QED
    BY <2>2 DEF Whole
<1>2. TypeOK /\ WholeKept /\ [Next]_vars => WholeKept'
  <2> SUFFICES ASSUME TypeOK, WholeKept, [Next]_vars
               PROVE  WholeKept'
    OBVIOUS
  <2>1. CASE Ask
    BY <2>1, AskWhole
  <2>2. CASE Refuse
    BY <2>2, SameWhole DEF Refuse
  <2>3. CASE Answer
    BY <2>3, AnswerWhole
  <2>4. CASE UNCHANGED vars
    BY <2>4, SameWhole DEF vars
  <2> QED
    BY <2>1, <2>2, <2>3, <2>4, Zenon DEF Next
<1>3. TypeOK /\ CallsTogether /\ WholeKept => RestoresOutput
  <2> SUFFICES ASSUME TypeOK, CallsTogether, WholeKept, input.ok, client = "all", NEW m \in DOMAIN history,
                      history[m].role = "assistant", history[m].output # << >>, ~ history[m].streamed
               PROVE  FlattenedOf(m, input.items) =
                      Flattened(FlattenSeq([k \in DOMAIN history[m].output |-> Restored(history[m].output[k])]))
    BY DEF RestoresOutput
  <2> DEFINE output == history[m].output
             streamed == history[m].streamed
             blocks == history[m].blocks
  <2>1. /\ strict \in BOOLEAN /\ history \in Seq(ChatMessage) /\ m \in 1 .. Len(history)
        /\ Paired(history, deeds) /\ streamed \in BOOLEAN
    <3>1. strict \in BOOLEAN /\ history \in Seq(ChatMessage)
      BY DEF TypeOK
    <3>2. m \in 1 .. Len(history) /\ history[m] \in ChatMessage
      BY <3>1
    <3>3. Paired(history, deeds)
      BY DEF CallsTogether
    <3>4. streamed \in BOOLEAN
      BY <3>2 DEF ChatMessage
    <3> QED
      BY <3>1, <3>2, <3>3, <3>4
  <2>2. Whole(history[m])
    BY <2>1 DEF WholeKept
  <2>3. /\ output \in Seq(AnswerItem) /\ ~ Message!Fails(output)
        /\ blocks = contentOf(output, streamed)
        /\ \A b \in 1 .. Len(blocks) : blocks[b].type = "tool_result" =>
              \E d \in 1 .. Len(blocks) :
                 /\ d < b /\ blocks[d].type = "tool_use" /\ blocks[d].id = blocks[b].id
                 /\ toolUseKind(blocks[d]) = "function_call"
    BY <2>2 DEF Whole
  <2> HIDE DEF output, streamed
  <2>4. ~ streamed
    BY DEF streamed
  <2>5. /\ contentOf(output, streamed) \in Seq(OwnBlock)
        /\ Spread(PieceMap, contentOf(output, streamed)) =
              Flattened(FlattenSeq([k \in DOMAIN output |-> Restored(output[k])]))
    BY <2>1, <2>3, <2>4, OutputPieces
  <2>6. Own(m)
    BY <2>3, <2>5 DEF Own
  <2>7. FlattenedOf(m, input.items) = Spread(PieceMap, blocks)
    BY <2>1, <2>6, InputShows
  <2> QED
    BY <2>3, <2>5, <2>7 DEF output
<1> QED
  BY <1>1, <1>2, <1>3, TypeCorrect, CallsStayTogether, PTL DEF Spec
=============================================================================
