------------------------- MODULE BridgedStreamFrames -------------------------
(***************************************************************************)
(* What the helpers of StreamBridge do to the frames of a stream, as seen  *)
(* by the protocol of AnthropicStream.  The frames are looked at through   *)
(* the blocks they start, the deltas they carry and the blocks they close; *)
(* one lemma per helper says what it adds to each and that the frames stay *)
(* Lawful, that is, each of them may follow those before it.               *)
(***************************************************************************)
EXTENDS BridgedStream, StreamBridgeProof

\* The blocks started and the deltas sent before the k-th frame, each with its
\* index, its kind and the item it speaks of.
BlocksBefore(s, k) ==
    {<<s[j].index, s[j].what, s[j].item>> :
        j \in {i \in 1 .. (k - 1) : s[i].type = "content_block_start"}}
DeltasBefore(s, k) ==
    {<<s[j].index, s[j].what, s[j].item>> :
        j \in {i \in 1 .. (k - 1) : s[i].type = "content_block_delta"}}

BlocksIn(s) == BlocksBefore(s, Len(s) + 1)
DeltasIn(s) == DeltasBefore(s, Len(s) + 1)

\* Among these deltas there is none of block i, or its signature.
Sealed(deltas, i) ==
    \/ \A d \in deltas : d[1] # i
    \/ \E d \in deltas : d[1] = i /\ d[2] = "signature_delta"

\* Protocol!FollowsProtocol without the ledger and the order of the messages'
\* own frames: whether f may come after these blocks, deltas and stops.  Only a
\* block and a delta other than a signature speak of an item.
MayCome(blocks, deltas, closed, f) ==
    /\ f.type = "content_block_delta" =>
          /\ f.index \notin closed
          /\ \A t \in blocks : t[1] = f.index => f.what \in Protocol!Deltas(t[2])
          /\ \A d \in deltas : d[1] = f.index => d[2] # "signature_delta"
          /\ f.what = "signature_delta" => f.item = NoItem
    /\ f.type = "content_block_stop" =>
          \A t \in blocks : t[1] = f.index /\ t[2] = "thinking" => Sealed(deltas, f.index)
    /\ f.type = "message_delta" =>
          \A t \in blocks : t[1] \in closed \/ (t[2] = "tool_use" /\ f.what # "tool_use")
    /\ f.type \notin {"content_block_start", "content_block_delta"} => f.item = NoItem

\* Protocol!InOrder of the k-th frame.
InPlace(s, k) ==
    /\ k = 1 => s[k].type \in {"message_start", "error"}
    /\ k > 1 => /\ s[k - 1].type # "message_stop"
                /\ s[k - 1].type = "message_delta" <=> s[k].type = "message_stop"

Lawful(s) ==
    \A k \in 1 .. Len(s) :
        /\ InPlace(s, k)
        /\ MayCome(BlocksBefore(s, k), DeltasBefore(s, k), ClosedBefore(s, k), s[k])

\* The end of the message has not been sent.
Running(s) == NoneIn(s, "message_delta") /\ NoneIn(s, "message_stop")

-----------------------------------------------------------------------------
(* Sequences of frames                                                      *)

\* The blocks and deltas before a frame depend on the frames before it only.
LEMMA SameBefore ==
    ASSUME NEW s, NEW t, NEW k \in Nat, \A i \in 1 .. (k - 1) : t[i] = s[i]
    PROVE  /\ BlocksBefore(t, k) = BlocksBefore(s, k)
           /\ DeltasBefore(t, k) = DeltasBefore(s, k)
           /\ ClosedBefore(t, k) = ClosedBefore(s, k)
           /\ OpenedBefore(t, k) = OpenedBefore(s, k)
           /\ \A type : NoneBefore(t, k, type) <=> NoneBefore(s, k, type)
<1>1. ASSUME NEW type
      PROVE  {i \in 1 .. (k - 1) : t[i].type = type} = {i \in 1 .. (k - 1) : s[i].type = type}
  OBVIOUS
<1>2. BlocksBefore(t, k) = BlocksBefore(s, k)
  BY <1>1 DEF BlocksBefore
<1>3. DeltasBefore(t, k) = DeltasBefore(s, k)
  BY <1>1 DEF DeltasBefore
<1>4. ClosedBefore(t, k) = ClosedBefore(s, k) /\ OpenedBefore(t, k) = OpenedBefore(s, k)
  BY <1>1 DEF ClosedBefore, OpenedBefore
<1> QED
  BY <1>2, <1>3, <1>4 DEF NoneBefore

\* One more frame adds its own block, delta or stop and nothing else.
LEMMA OneMore ==
    ASSUME NEW s, NEW n \in Nat, NEW f, s[n] = f, n > 0
    PROVE  /\ BlocksBefore(s, n + 1) = BlocksBefore(s, n) \cup
                 (IF f.type = "content_block_start" THEN {<<f.index, f.what, f.item>>} ELSE {})
           /\ DeltasBefore(s, n + 1) = DeltasBefore(s, n) \cup
                 (IF f.type = "content_block_delta" THEN {<<f.index, f.what, f.item>>} ELSE {})
           /\ ClosedBefore(s, n + 1) = ClosedBefore(s, n) \cup
                 (IF f.type = "content_block_stop" THEN {f.index} ELSE {})
           /\ \A type : NoneBefore(s, n + 1, type) <=> NoneBefore(s, n, type) /\ f.type # type
<1>1. 1 .. ((n + 1) - 1) = 1 .. (n - 1) \cup {n} /\ n \notin 1 .. (n - 1)
  OBVIOUS
<1>2. ASSUME NEW type
      PROVE  {i \in 1 .. ((n + 1) - 1) : s[i].type = type} =
                {i \in 1 .. (n - 1) : s[i].type = type} \cup (IF f.type = type THEN {n} ELSE {})
  BY <1>1
<1>3. BlocksBefore(s, n + 1) = BlocksBefore(s, n) \cup
         (IF f.type = "content_block_start" THEN {<<f.index, f.what, f.item>>} ELSE {})
  BY <1>2 DEF BlocksBefore
<1>4. DeltasBefore(s, n + 1) = DeltasBefore(s, n) \cup
         (IF f.type = "content_block_delta" THEN {<<f.index, f.what, f.item>>} ELSE {})
  BY <1>2 DEF DeltasBefore
<1>5. ClosedBefore(s, n + 1) = ClosedBefore(s, n) \cup
         (IF f.type = "content_block_stop" THEN {f.index} ELSE {})
  BY <1>2 DEF ClosedBefore
<1>6. \A type : NoneBefore(s, n + 1, type) <=> NoneBefore(s, n, type) /\ f.type # type
  BY <1>1 DEF NoneBefore
<1> QED
  BY <1>3, <1>4, <1>5, <1>6

\* Appending a frame that may come keeps the frames lawful.
LEMMA AppendLawful ==
    ASSUME NEW s \in Seq(Frame), NEW f \in Frame, Lawful(s),
           s = << >> => f.type \in {"message_start", "error"},
           s # << >> => /\ s[Len(s)].type # "message_stop"
                        /\ s[Len(s)].type = "message_delta" <=> f.type = "message_stop",
           MayCome(BlocksIn(s), DeltasIn(s), ClosedIn(s), f)
    PROVE  LET t == Append(s, f)
           IN  /\ Lawful(t)
               /\ BlocksIn(t) = BlocksIn(s) \cup
                     (IF f.type = "content_block_start" THEN {<<f.index, f.what, f.item>>} ELSE {})
               /\ DeltasIn(t) = DeltasIn(s) \cup
                     (IF f.type = "content_block_delta" THEN {<<f.index, f.what, f.item>>} ELSE {})
               /\ \A type : NoneIn(t, type) <=> NoneIn(s, type) /\ f.type # type
<1> DEFINE t == Append(s, f)
           n == Len(s)
<1>1. /\ t \in Seq(Frame) /\ Len(t) = n + 1 /\ n \in Nat
      /\ \A i \in 1 .. n : t[i] = s[i]
      /\ t[n + 1] = f
  OBVIOUS
<1> HIDE DEF t
<1>2. ASSUME NEW k \in 1 .. (n + 1)
      PROVE  /\ BlocksBefore(t, k) = BlocksBefore(s, k)
             /\ DeltasBefore(t, k) = DeltasBefore(s, k)
             /\ ClosedBefore(t, k) = ClosedBefore(s, k)
             /\ \A type : NoneBefore(t, k, type) <=> NoneBefore(s, k, type)
  <2>1. k \in Nat /\ \A i \in 1 .. (k - 1) : t[i] = s[i]
    BY <1>1
  <2> QED
    BY <2>1, SameBefore
<1>3. Lawful(t)
  <2> SUFFICES ASSUME NEW k \in 1 .. (n + 1)
               PROVE  /\ InPlace(t, k)
                      /\ MayCome(BlocksBefore(t, k), DeltasBefore(t, k), ClosedBefore(t, k), t[k])
    BY <1>1 DEF Lawful
  <2>1. CASE k \in 1 .. n
    <3>1. /\ InPlace(s, k)
          /\ MayCome(BlocksBefore(s, k), DeltasBefore(s, k), ClosedBefore(s, k), s[k])
      BY <2>1 DEF Lawful
    <3>2. InPlace(t, k)
      BY <3>1, <2>1, <1>1 DEF InPlace
    <3> QED
      BY <3>1, <3>2, <2>1, <1>1, <1>2
  <2>2. CASE k = n + 1
    <3>0. /\ BlocksBefore(t, k) = BlocksIn(s) /\ DeltasBefore(t, k) = DeltasIn(s)
          /\ ClosedBefore(t, k) = ClosedIn(s) /\ t[k] = f
      BY <2>2, <1>1, <1>2 DEF BlocksIn, DeltasIn, ClosedIn
    <3>1. MayCome(BlocksBefore(t, k), DeltasBefore(t, k), ClosedBefore(t, k), t[k])
      BY <3>0
    <3>2. CASE n = 0
      BY <3>1, <3>2, <2>2, <1>1 DEF InPlace
    <3>3. CASE n > 0
      <4>1. s # << >> /\ t[k - 1] = s[n] /\ t[k] = f
        BY <3>3, <2>2, <1>1
      <4> QED
        BY <4>1, <3>1, <2>2, <3>3 DEF InPlace
    <3> QED
      BY <3>2, <3>3, <1>1
  <2> QED
    BY <2>1, <2>2, <1>1
<1>4. /\ BlocksIn(t) = BlocksBefore(t, n + 1) \cup
            (IF f.type = "content_block_start" THEN {<<f.index, f.what, f.item>>} ELSE {})
      /\ DeltasIn(t) = DeltasBefore(t, n + 1) \cup
            (IF f.type = "content_block_delta" THEN {<<f.index, f.what, f.item>>} ELSE {})
      /\ \A type : NoneIn(t, type) <=> NoneBefore(t, n + 1, type) /\ f.type # type
  BY <1>1, OneMore DEF BlocksIn, DeltasIn, NoneIn
<1>5. n + 1 \in 1 .. (n + 1)
  BY <1>1
<1> QED
  BY <1>2, <1>3, <1>4, <1>5 DEF BlocksIn, DeltasIn, NoneIn, t

\* No block is started under an index twice; deltas and stops have a block.
LEMMA BlockFacts ==
    ASSUME NEW b, Sound(b)
    PROVE  /\ \A t \in BlocksIn(b.out) : t[1] \in 0 .. (b.nextIndex - 1)
           /\ \A i \in 0 .. (b.nextIndex - 1) : \E t \in BlocksIn(b.out) : t[1] = i
           /\ \A t, u \in BlocksIn(b.out) : t[1] = u[1] => t = u
           /\ \A d \in DeltasIn(b.out) : d[1] \in 0 .. (b.nextIndex - 1)
           /\ b.closedIndex \subseteq 0 .. (b.nextIndex - 1)
<1> DEFINE s == b.out
           n == Len(s)
<1>1. /\ s \in Seq(Frame) /\ n \in Nat /\ b.nextIndex \in Nat
      /\ OpenedBefore(s, n + 1) = 0 .. (b.nextIndex - 1)
      /\ ClosedBefore(s, n + 1) = b.closedIndex
      /\ \A k \in 1 .. n : FrameOK(s, k)
  BY SoundTypes DEF Sound, OpenedIn, ClosedIn, WellFormed
<1> HIDE DEF s
<1>2. (n + 1) - 1 = n
  BY <1>1
<1>3. ASSUME NEW k \in 1 .. n, NEW i, i \in OpenedBefore(s, k)
      PROVE  i \in 0 .. (b.nextIndex - 1)
  BY <1>1, <1>2, <1>3 DEF OpenedBefore
<1>4. \A t \in BlocksIn(s) : t[1] \in 0 .. (b.nextIndex - 1)
  BY <1>1, <1>2 DEF BlocksIn, BlocksBefore, OpenedBefore
<1>5. \A i \in 0 .. (b.nextIndex - 1) : \E t \in BlocksIn(s) : t[1] = i
  <2> SUFFICES ASSUME NEW i \in 0 .. (b.nextIndex - 1)
               PROVE  \E t \in BlocksIn(s) : t[1] = i
    OBVIOUS
  <2>1. PICK j \in 1 .. n : s[j].type = "content_block_start" /\ s[j].index = i
    BY <1>1, <1>2 DEF OpenedBefore
  <2>2. <<s[j].index, s[j].what, s[j].item>> \in BlocksIn(s)
    BY <2>1, <1>2 DEF BlocksIn, BlocksBefore
  <2> QED
    BY <2>1, <2>2
<1>6. ASSUME NEW j \in 1 .. n, NEW k \in 1 .. n, j < k,
             s[j].type = "content_block_start", s[k].type = "content_block_start"
      PROVE  s[j].index # s[k].index
  <2>1. OpenedBefore(s, k) = 0 .. (s[k].index - 1) /\ s[k].index >= 0
    BY <1>1, <1>6 DEF FrameOK
  <2>2. s[j].index \in OpenedBefore(s, k)
    BY <1>1, <1>6 DEF OpenedBefore
  <2>3. s[k].index \in 0 .. (b.nextIndex - 1)
    BY <1>1, <1>2, <1>6 DEF OpenedBefore
  <2> QED
    BY <2>1, <2>2, <2>3
<1>7. \A t, u \in BlocksIn(s) : t[1] = u[1] => t = u
  <2> SUFFICES ASSUME NEW t \in BlocksIn(s), NEW u \in BlocksIn(s), t[1] = u[1]
               PROVE  t = u
    OBVIOUS
  <2>1. PICK j \in 1 .. n : s[j].type = "content_block_start" /\ t = <<s[j].index, s[j].what, s[j].item>>
    BY <1>2 DEF BlocksIn, BlocksBefore
  <2>2. PICK k \in 1 .. n : s[k].type = "content_block_start" /\ u = <<s[k].index, s[k].what, s[k].item>>
    BY <1>2 DEF BlocksIn, BlocksBefore
  <2>3. s[j].index = s[k].index
    BY <2>1, <2>2
  <2>4. ~ (j < k) /\ ~ (k < j)
    BY <2>1, <2>2, <2>3, <1>6
  <2>5. j = k
    BY <2>4, <1>1
  <2> QED
    BY <2>1, <2>2, <2>5
<1>8. \A d \in DeltasIn(s) : d[1] \in 0 .. (b.nextIndex - 1)
  <2> SUFFICES ASSUME NEW d \in DeltasIn(s)
               PROVE  d[1] \in 0 .. (b.nextIndex - 1)
    OBVIOUS
  <2>1. PICK k \in 1 .. n : s[k].type = "content_block_delta" /\ d = <<s[k].index, s[k].what, s[k].item>>
    BY <1>2 DEF DeltasIn, DeltasBefore
  <2>2. s[k].index \in OpenedBefore(s, k)
    BY <2>1, <1>1 DEF FrameOK
  <2> QED
    BY <2>1, <2>2, <1>3
<1>9. b.closedIndex \subseteq 0 .. (b.nextIndex - 1)
  <2> SUFFICES ASSUME NEW i \in ClosedBefore(s, n + 1)
               PROVE  i \in 0 .. (b.nextIndex - 1)
    BY <1>1
  <2>1. PICK k \in 1 .. n : s[k].type = "content_block_stop" /\ i = s[k].index
    BY <1>2 DEF ClosedBefore
  <2>2. i \in OpenedBefore(s, k)
    BY <2>1, <1>1 DEF FrameOK
  <2> QED
    BY <2>2, <1>3
<1> QED
  BY <1>4, <1>5, <1>7, <1>8, <1>9 DEF s

-----------------------------------------------------------------------------
(* Helpers                                                                  *)

\* The record of a bridge that goes on: signed blocks are closed.
Good(b) ==
    /\ Sound(b) /\ Lawful(b.out) /\ Running(b.out)
    /\ b.started => b.out # << >>
    /\ \A d \in DeltasIn(b.out) : d[2] = "signature_delta" => d[1] \in b.closedIndex

\* What c's frames have more than b's.
Effect(b, c, blocks, deltas, closed) ==
    /\ BlocksIn(c.out) = BlocksIn(b.out) \cup blocks
    /\ DeltasIn(c.out) = DeltasIn(b.out) \cup deltas
    /\ c.closedIndex = b.closedIndex \cup closed

\* c has the maps and flags of b.
SameState(b, c) ==
    /\ c.textIndexByKey = b.textIndexByKey
    /\ c.ignoredMessageItemID = b.ignoredMessageItemID
    /\ c.toolIndexByItemID = b.toolIndexByItemID
    /\ c.toolIndexByOutput = b.toolIndexByOutput
    /\ c.toolUsed = b.toolUsed
    /\ c.thinkingIndex = b.thinkingIndex
    /\ c.webSearchEmitted = b.webSearchEmitted

Step(b, c, blocks, deltas, closed) ==
    Good(c) /\ Effect(b, c, blocks, deltas, closed) /\ SameState(b, c)

\* c is b after one more frame that may come.
LEMMA Send ==
    ASSUME NEW b, Good(b), NEW c, Sound(c), NEW f \in Frame, c.out = Append(b.out, f),
           f.type \in {"message_start", "content_block_start", "content_block_delta",
                       "content_block_stop"},
           b.started \/ f.type = "message_start",
           f.type = "content_block_delta" => f.what # "signature_delta",
           c.closedIndex = b.closedIndex \cup
               (IF f.type = "content_block_stop" THEN {f.index} ELSE {}),
           MayCome(BlocksIn(b.out), DeltasIn(b.out), b.closedIndex, f)
    PROVE  /\ Good(c)
           /\ Effect(b, c,
                 IF f.type = "content_block_start" THEN {<<f.index, f.what, f.item>>} ELSE {},
                 IF f.type = "content_block_delta" THEN {<<f.index, f.what, f.item>>} ELSE {},
                 IF f.type = "content_block_stop" THEN {f.index} ELSE {})
<1> DEFINE s == b.out
<1>1. /\ s \in Seq(Frame) /\ Lawful(s) /\ Running(s) /\ ClosedIn(s) = b.closedIndex
      /\ b.started => s # << >>
  BY SoundTypes DEF Good, Sound
<1>2. ASSUME s # << >>
      PROVE  s[Len(s)].type \notin {"message_delta", "message_stop"}
  <2>1. Len(s) \in Nat /\ Len(s) > 0
    BY <1>1, <1>2
  <2>2. Len(s) \in 1 .. (Len(s) + 1 - 1)
    BY <2>1
  <2> QED
    BY <2>2, <1>1 DEF Running, NoneIn, NoneBefore
<1>3. s = << >> => f.type \in {"message_start", "error"}
  BY <1>1
<1> HIDE DEF s
<1>4. /\ Lawful(Append(s, f))
      /\ BlocksIn(Append(s, f)) = BlocksIn(s) \cup
            (IF f.type = "content_block_start" THEN {<<f.index, f.what, f.item>>} ELSE {})
      /\ DeltasIn(Append(s, f)) = DeltasIn(s) \cup
            (IF f.type = "content_block_delta" THEN {<<f.index, f.what, f.item>>} ELSE {})
      /\ \A type : NoneIn(Append(s, f), type) <=> NoneIn(s, type) /\ f.type # type
  <2>1. MayCome(BlocksIn(s), DeltasIn(s), ClosedIn(s), f)
    BY <1>1 DEF s
  <2>2. s # << >> => /\ s[Len(s)].type # "message_stop"
                     /\ (s[Len(s)].type = "message_delta" <=> f.type = "message_stop")
    BY <1>2
  <2> QED
    BY <1>1, <1>3, <2>1, <2>2, AppendLawful
<1>5. c.out = Append(s, f) /\ c.out # << >>
  BY <1>1 DEF s
<1>6. Running(c.out)
  BY <1>1, <1>4, <1>5 DEF Running
<1>7. \A d \in DeltasIn(c.out) : d[2] = "signature_delta" => d[1] \in c.closedIndex
  BY <1>4, <1>5 DEF Good, s
<1> QED
  BY <1>4, <1>5, <1>6, <1>7 DEF Good, Effect, s
\* A record with the same frames is as good.
LEMMA Relabel ==
    ASSUME NEW b, Good(b), NEW c, Sound(c),
           c.out = b.out, c.closedIndex = b.closedIndex, c.started = b.started
    PROVE  Good(c) /\ Effect(b, c, {}, {}, {})
  BY DEF Good, Effect

LEMMA StepRefl ==
    ASSUME NEW b, Good(b)
    PROVE  Step(b, b, {}, {}, {})
  BY DEF Step, Effect, SameState

LEMMA StepTrans ==
    ASSUME NEW b, NEW c, NEW d, NEW B1, NEW D1, NEW C1, NEW B2, NEW D2, NEW C2,
           Step(b, c, B1, D1, C1), Step(c, d, B2, D2, C2)
    PROVE  Step(b, d, B1 \cup B2, D1 \cup D2, C1 \cup C2)
  BY DEF Step, Effect, SameState

\* ensureMessageStart starts the message and nothing else.
LEMMA EnsureStep ==
    ASSUME NEW b, Good(b)
    PROVE  LET c == ensureMessageStart(b)
           IN  Step(b, c, {}, {}, {}) /\ c.started /\ c.nextIndex = b.nextIndex
<1> DEFINE c == ensureMessageStart(b)
           f == MessageFrame("message_start", "none")
<1>1. Sound(b) /\ b \in Bridge /\ Sound(c) /\ c.nextIndex = b.nextIndex
  BY Ensure, SoundTypes DEF Good, Follows, Continues
<1>2. CASE b.started
  BY <1>1, <1>2, StepRefl DEF ensureMessageStart
<1>3. CASE ~ b.started
  <2>1. f \in Frame /\ f.type = "message_start" /\ f.item = NoItem
    BY FrameFacts, NoItem \in Owners, 0 \in Nat, "none" \in Details
       DEF MessageFrame, Owners, ItemIds, Details
  <2>2. /\ c.out = Append(b.out, f) /\ c.closedIndex = b.closedIndex /\ c.started
        /\ SameState(b, c)
    BY <1>1, <1>3 DEF ensureMessageStart, sendEvent, Bridge, SameState
  <2> HIDE DEF f, c
  <2>3. MayCome(BlocksIn(b.out), DeltasIn(b.out), b.closedIndex, f)
    BY <2>1 DEF MayCome
  <2>4. Good(c) /\ Effect(b, c, {}, {}, {})
    BY <1>1, <2>1, <2>2, <2>3, Send
  <2> QED
    BY <1>1, <2>2, <2>4 DEF Step, c
<1> QED
  BY <1>2, <1>3

\* openBlock adds one block.
LEMMA OpenStep ==
    ASSUME NEW b, Good(b), b.started, NEW what \in Details, NEW item \in Owners
    PROVE  LET c == openBlock(b, what, item)
           IN  /\ Step(b, c, {<<b.nextIndex, what, item>>}, {}, {})
               /\ c.started /\ c.nextIndex = b.nextIndex + 1
<1> DEFINE c == openBlock(b, what, item)
           f == BlockStart(b.nextIndex, what, item)
<1>1. /\ b \in Bridge /\ Sound(c) /\ c.nextIndex = b.nextIndex + 1 /\ b.nextIndex \in Nat
      /\ c.out = Append(b.out, f)
  BY OpenBlock, SoundTypes DEF Good, Continues
<1>2. /\ f \in Frame /\ f.type = "content_block_start" /\ f.index = b.nextIndex
      /\ f.what = what /\ f.item = item
  BY <1>1, FrameFacts DEF BlockStart
<1>3. c.closedIndex = b.closedIndex /\ c.started /\ SameState(b, c)
  BY <1>1 DEF openBlock, sendEvent, Bridge, SameState
<1> HIDE DEF f, c
<1>4. MayCome(BlocksIn(b.out), DeltasIn(b.out), b.closedIndex, f)
  BY <1>2 DEF MayCome
<1>5. Good(c) /\ Effect(b, c, {<<b.nextIndex, what, item>>}, {}, {})
  BY <1>1, <1>2, <1>3, <1>4, Send
<1> QED
  BY <1>1, <1>3, <1>5 DEF Step, c

\* closeContentBlock closes one block; a thinking block must be sealed.
LEMMA CloseStep ==
    ASSUME NEW b, Good(b), b.started, NEW i \in 0 .. (b.nextIndex - 1),
           \A t \in BlocksIn(b.out) : t[1] = i /\ t[2] = "thinking" => Sealed(DeltasIn(b.out), i)
    PROVE  LET c == closeContentBlock(b, i)
           IN  Step(b, c, {}, {}, {i}) /\ c.started /\ c.nextIndex = b.nextIndex
<1> DEFINE c == closeContentBlock(b, i)
           f == BlockStop(i)
<1>1. b \in Bridge /\ Sound(c) /\ c.nextIndex = b.nextIndex /\ b.nextIndex \in Nat
  BY CloseBlock, SoundTypes DEF Good, Follows, Continues
<1>2. CASE i \in b.closedIndex
  <2>1. c = b /\ b.closedIndex = b.closedIndex \cup {i}
    BY <1>2 DEF closeContentBlock
  <2> QED
    BY <2>1, StepRefl DEF Step, Effect
<1>3. CASE i \notin b.closedIndex
  <2>1. f \in Frame /\ f.type = "content_block_stop" /\ f.index = i /\ f.item = NoItem
    BY <1>1, FrameFacts, NoItem \in Owners, "none" \in Details DEF BlockStop, Owners, ItemIds, Details
  <2>2. /\ c.out = Append(b.out, f) /\ c.closedIndex = b.closedIndex \cup {i}
        /\ c.started /\ SameState(b, c)
    BY <1>1, <1>3 DEF closeContentBlock, sendEvent, Bridge, SameState
  <2> HIDE DEF f, c
  <2>3. MayCome(BlocksIn(b.out), DeltasIn(b.out), b.closedIndex, f)
    BY <2>1 DEF MayCome
  <2>4. Good(c) /\ Effect(b, c, {}, {}, {i})
    BY <1>1, <2>1, <2>2, <2>3, Send
  <2> QED
    BY <1>1, <2>2, <2>4 DEF Step, c
<1> QED
  BY <1>2, <1>3

\* A delta for an open block that takes deltas of its kind.
LEMMA DeltaStep ==
    ASSUME NEW b, Good(b), b.started, NEW what \in Details, NEW item \in Owners,
           NEW t \in BlocksIn(b.out), t[1] \notin b.closedIndex,
           what \in Protocol!Deltas(t[2]), what # "signature_delta"
    PROVE  LET c == sendEvent(b, BlockDelta(t[1], what, item))
           IN  /\ Step(b, c, {}, {<<t[1], what, item>>}, {})
               /\ c.started /\ c.nextIndex = b.nextIndex
<1> DEFINE i == t[1]
           f == BlockDelta(i, what, item)
           c == sendEvent(b, f)
<1>1. b \in Bridge /\ Sound(b) /\ b.nextIndex \in Nat /\ i \in 0 .. (b.nextIndex - 1)
  BY BlockFacts, SoundTypes DEF Good
<1>2. Sound(c)
  BY <1>1, SendDelta DEF Follows, Continues
<1>3. /\ f \in Frame /\ f.type = "content_block_delta" /\ f.index = i
      /\ f.what = what /\ f.item = item
  BY <1>1, FrameFacts DEF BlockDelta
<1>4. /\ c.out = Append(b.out, f) /\ c.closedIndex = b.closedIndex /\ c.nextIndex = b.nextIndex
      /\ c.started /\ SameState(b, c)
  BY <1>1 DEF sendEvent, Bridge, SameState
<1>5. \A u \in BlocksIn(b.out) : u[1] = i => u = t
  BY <1>1, BlockFacts
<1>6. \A d \in DeltasIn(b.out) : d[1] = i => d[2] # "signature_delta"
  BY DEF Good
<1> HIDE DEF f, c
<1>7. MayCome(BlocksIn(b.out), DeltasIn(b.out), b.closedIndex, f)
  BY <1>3, <1>5, <1>6 DEF MayCome
<1>8. Good(c) /\ Effect(b, c, {}, {<<i, what, item>>}, {})
  BY <1>2, <1>3, <1>4, <1>7, Send
<1> QED
  BY <1>4, <1>8 DEF Step, c, f

\* closeThinkingBlock seals and closes the thinking block, once.
LEMMA SealStep ==
    ASSUME NEW b, Good(b), b.started, NEW t \in BlocksIn(b.out),
           t[1] = b.thinkingIndex, t[2] = "thinking"
    PROVE  LET c == closeThinkingBlock(b)
           IN  /\ \E D \in SUBSET {<<t[1], "signature_delta", NoItem>>} : Step(b, c, {}, D, {t[1]})
               /\ c.started /\ c.nextIndex = b.nextIndex
<1> DEFINE i == t[1]
           c == closeThinkingBlock(b)
           f == BlockDelta(i, "signature_delta", NoItem)
           g == BlockStop(i)
           s == b.out
           u == Append(s, f)
           v == Append(u, g)
<1>1. /\ b \in Bridge /\ Sound(b) /\ b.nextIndex \in Nat /\ i \in 0 .. (b.nextIndex - 1)
      /\ s \in Seq(Frame)
  BY BlockFacts, SoundTypes DEF Good
<1>2. Sound(c)
  BY <1>1, CloseThinkingBlock DEF Follows, Continues, thinkingStarted, Absent
<1>3. CASE i \in b.closedIndex
  <2>1. c = b /\ b.closedIndex = b.closedIndex \cup {i}
    BY <1>3 DEF closeThinkingBlock
  <2>2. Step(b, b, {}, {}, {i})
    BY <2>1, StepRefl DEF Step, Effect
  <2>3. {} \in SUBSET {<<i, "signature_delta", NoItem>>}
    OBVIOUS
  <2> QED
    BY <2>1, <2>2, <2>3
<1>4. CASE i \notin b.closedIndex
  <2>1. /\ f \in Frame /\ f.type = "content_block_delta" /\ f.index = i
        /\ f.what = "signature_delta" /\ f.item = NoItem
        /\ g \in Frame /\ g.type = "content_block_stop" /\ g.index = i /\ g.item = NoItem
    BY <1>1, FrameFacts, NoItem \in Owners, "none" \in Details, "signature_delta" \in Details
       DEF BlockDelta, BlockStop, Owners, ItemIds, Details
  <2>2. /\ c.out = v /\ c.closedIndex = b.closedIndex \cup {i} /\ c.nextIndex = b.nextIndex
        /\ c.started /\ SameState(b, c)
    BY <1>1, <1>4 DEF closeThinkingBlock, closeContentBlock, sendEvent, Bridge, SameState
  <2>3. /\ Lawful(s) /\ Running(s) /\ s # << >> /\ ClosedIn(s) = b.closedIndex
        /\ \A d \in DeltasIn(s) : d[2] = "signature_delta" => d[1] \in b.closedIndex
    BY DEF Good, Sound
  <2>4. \A w \in BlocksIn(s) : w[1] = i => w = t
    BY <1>1, BlockFacts
  <2>5. "signature_delta" \in Protocol!Deltas("thinking")
    BY DEF Protocol!Deltas
  <2>6. MayCome(BlocksIn(s), DeltasIn(s), ClosedIn(s), f)
    BY <2>1, <2>3, <2>4, <2>5, <1>4 DEF MayCome
  <2>7. s[Len(s)].type \notin {"message_delta", "message_stop"}
    <3>1. Len(s) \in Nat /\ Len(s) \in 1 .. (Len(s) + 1 - 1)
      BY <1>1, <2>3
    <3> QED
      BY <3>1, <2>3 DEF Running, NoneIn, NoneBefore
  <2> HIDE DEF f, g, c, s
  <2>8. /\ u \in Seq(Frame) /\ Lawful(u) /\ BlocksIn(u) = BlocksIn(s)
        /\ DeltasIn(u) = DeltasIn(s) \cup {<<i, "signature_delta", NoItem>>}
        /\ \A type : NoneIn(u, type) <=> NoneIn(s, type) /\ f.type # type
        /\ u # << >> /\ u[Len(u)] = f
    <3>1. /\ Lawful(u) /\ BlocksIn(u) = BlocksIn(s)
          /\ DeltasIn(u) = DeltasIn(s) \cup {<<i, "signature_delta", NoItem>>}
          /\ \A type : NoneIn(u, type) <=> NoneIn(s, type) /\ f.type # type
      <4>1. s # << >> => /\ s[Len(s)].type # "message_stop"
                         /\ (s[Len(s)].type = "message_delta" <=> f.type = "message_stop")
        BY <2>1, <2>7
      <4>2. /\ Lawful(u)
            /\ BlocksIn(u) = BlocksIn(s) \cup
                  (IF f.type = "content_block_start" THEN {<<f.index, f.what, f.item>>} ELSE {})
            /\ DeltasIn(u) = DeltasIn(s) \cup
                  (IF f.type = "content_block_delta" THEN {<<f.index, f.what, f.item>>} ELSE {})
            /\ \A type : NoneIn(u, type) <=> NoneIn(s, type) /\ f.type # type
        BY <1>1, <2>1, <2>3, <2>6, <4>1, AppendLawful
      <4> QED
        BY <2>1, <4>2
    <3>2. u \in Seq(Frame) /\ u # << >> /\ u[Len(u)] = f
      <4>1. s \in Seq(Frame) /\ f \in Frame /\ Len(s) \in Nat
        BY <1>1, <2>1
      <4>2. u \in Seq(Frame) /\ Len(u) = Len(s) + 1 /\ u[Len(s) + 1] = f
        BY <4>1
      <4> QED
        BY <4>1, <4>2
    <3> QED
      BY <3>1, <3>2
  <2> HIDE DEF u
  <2>9. MayCome(BlocksIn(u), DeltasIn(u), ClosedIn(u), g)
    <3>1. \E d \in DeltasIn(u) : d[1] = i /\ d[2] = "signature_delta"
      <4> DEFINE d == <<i, "signature_delta", NoItem>>
      <4>1. d \in DeltasIn(u) /\ d[1] = i /\ d[2] = "signature_delta"
        BY <2>8
      <4> HIDE DEF d
      <4> QED
        BY <4>1
    <3>2. Sealed(DeltasIn(u), i)
      BY <3>1 DEF Sealed
    <3> QED
      BY <3>2, <2>1 DEF MayCome
  <2>10. /\ Lawful(v) /\ BlocksIn(v) = BlocksIn(u) /\ DeltasIn(v) = DeltasIn(u)
         /\ \A type : NoneIn(v, type) <=> NoneIn(u, type) /\ g.type # type
    <3>1. u # << >> => /\ u[Len(u)].type # "message_stop"
                       /\ (u[Len(u)].type = "message_delta" <=> g.type = "message_stop")
      BY <2>1, <2>8
    <3> QED
      BY <2>1, <2>8, <2>9, <3>1, AppendLawful
  <2>11. v # << >>
    BY <2>8, <2>1
  <2> HIDE DEF v
  <2>12. Good(c)
    <3>1. Running(v)
      BY <2>1, <2>3, <2>8, <2>10 DEF Running
    <3>2. \A d \in DeltasIn(v) : d[2] = "signature_delta" => d[1] \in b.closedIndex \cup {i}
      BY <2>3, <2>8, <2>10
    <3> QED
      BY <3>1, <3>2, <1>2, <2>2, <2>10, <2>11 DEF Good
  <2>13. Step(b, c, {}, {<<i, "signature_delta", NoItem>>}, {i})
    BY <2>2, <2>8, <2>10, <2>12 DEF Step, Effect, s
  <2> QED
    BY <2>2, <2>13 DEF c
<1> QED
  BY <1>3, <1>4

\* The block opened last has no delta yet.
LEMMA FreshBlock ==
    ASSUME NEW b, Good(b), NEW c, NEW B, Step(b, c, B, {}, {})
    PROVE  Sealed(DeltasIn(c.out), b.nextIndex)
<1>1. b.nextIndex \in Nat /\ \A d \in DeltasIn(b.out) : d[1] \in 0 .. (b.nextIndex - 1)
  BY BlockFacts, SoundTypes DEF Good
<1> QED
  BY <1>1 DEF Step, Effect, Sealed

\* emitFullContentBlock adds one closed block.
LEMMA EmitStep ==
    ASSUME NEW b, Good(b), NEW what \in Details, NEW item \in Owners
    PROVE  LET c == emitFullContentBlock(b, what, item)
           IN  /\ Step(b, c, {<<b.nextIndex, what, item>>}, {}, {b.nextIndex})
               /\ c.started /\ c.nextIndex = b.nextIndex + 1
<1> DEFINE n == b.nextIndex
           e == ensureMessageStart(b)
           o == openBlock(e, what, item)
           c == closeContentBlock(o, n)
<1>1. Step(b, e, {}, {}, {}) /\ e.started /\ e.nextIndex = n
  BY EnsureStep
<1>2. c = emitFullContentBlock(b, what, item)
  BY <1>1 DEF emitFullContentBlock
<1> HIDE DEF e
<1>3. Step(e, o, {<<n, what, item>>}, {}, {}) /\ o.started /\ o.nextIndex = n + 1
  BY <1>1, OpenStep DEF Step
<1> HIDE DEF o
<1>4. Sealed(DeltasIn(o.out), n)
  BY <1>1, <1>3, FreshBlock DEF Step
<1>5. n \in 0 .. (o.nextIndex - 1)
  BY <1>3, SoundTypes DEF Good
<1>6. Step(o, c, {}, {}, {n}) /\ c.started /\ c.nextIndex = n + 1
  BY <1>3, <1>4, <1>5, CloseStep DEF Step
<1> HIDE DEF c
<1>7. Step(b, c, {<<n, what, item>>}, {}, {n})
  BY <1>1, <1>3, <1>6 DEF Step, Effect, SameState
<1> QED
  BY <1>2, <1>6, <1>7

\* startThinkingBlock adds the thinking block and notes its index.
LEMMA StartThinkingStep ==
    ASSUME NEW b, Good(b), b.started, NEW item \in Owners
    PROVE  LET c == startThinkingBlock(b, item)
           IN  /\ Good(c) /\ Effect(b, c, {<<b.nextIndex, "thinking", item>>}, {}, {})
               /\ SameState([b EXCEPT !.thinkingIndex = b.nextIndex], c) /\ c.started
<1> DEFINE o == openBlock(b, "thinking", item)
           c == startThinkingBlock(b, item)
<1>1. b \in Bridge /\ Sound(b) /\ Sound(c) /\ "thinking" \in Details
  BY StartThinkingBlock, SoundTypes DEF Good, Follows, Continues, Details
<1>2. Step(b, o, {<<b.nextIndex, "thinking", item>>}, {}, {}) /\ o.started
  BY <1>1, OpenStep
<1>3. o \in Bridge
  BY <1>2, SoundTypes DEF Step, Good
<1>4. /\ c.out = o.out /\ c.closedIndex = o.closedIndex /\ c.started = o.started
      /\ c.thinkingIndex = b.nextIndex
      /\ c.textIndexByKey = o.textIndexByKey /\ c.ignoredMessageItemID = o.ignoredMessageItemID
      /\ c.toolIndexByItemID = o.toolIndexByItemID /\ c.toolIndexByOutput = o.toolIndexByOutput
      /\ c.toolUsed = o.toolUsed /\ c.webSearchEmitted = o.webSearchEmitted
  BY <1>3 DEF startThinkingBlock, Bridge
<1> HIDE DEF o, c
<1>5. Good(c) /\ Effect(o, c, {}, {}, {})
  BY <1>1, <1>2, <1>4, Relabel DEF Step
<1>6. SameState([b EXCEPT !.thinkingIndex = b.nextIndex], c)
  BY <1>1, <1>2, <1>4 DEF Step, SameState, Bridge
<1> QED
  BY <1>2, <1>4, <1>5, <1>6 DEF Step, Effect, c

\* openToolBlock adds the block of a tool call and notes its index.
LEMMA OpenToolStep ==
    ASSUME NEW b, Good(b), b.started, NEW item \in ItemIds, NEW out \in Outputs
    PROVE  LET c == openToolBlock(b, item, out)
           IN  /\ Good(c) /\ Effect(b, c, {<<b.nextIndex, "tool_use", item>>}, {}, {})
               /\ SameState([b EXCEPT !.toolIndexByItemID[item] = b.nextIndex,
                                      !.toolIndexByOutput[out]  = b.nextIndex,
                                      !.toolUsed                = TRUE], c)
               /\ c.started
<1> DEFINE o == openBlock(b, "tool_use", item)
           c == openToolBlock(b, item, out)
<1>1. b \in Bridge /\ Sound(b) /\ Sound(c) /\ "tool_use" \in Details /\ item \in Owners
  BY OpenToolBlock, SoundTypes DEF Good, Follows, Continues, Details, Owners
<1>2. Step(b, o, {<<b.nextIndex, "tool_use", item>>}, {}, {}) /\ o.started
  BY <1>1, OpenStep
<1>3. o \in Bridge
  BY <1>2, SoundTypes DEF Step, Good
<1>4. /\ c.out = o.out /\ c.closedIndex = o.closedIndex /\ c.started = o.started
      /\ c.toolIndexByItemID = [o.toolIndexByItemID EXCEPT ![item] = b.nextIndex]
      /\ c.toolIndexByOutput = [o.toolIndexByOutput EXCEPT ![out] = b.nextIndex]
      /\ c.toolUsed = TRUE
      /\ c.textIndexByKey = o.textIndexByKey /\ c.ignoredMessageItemID = o.ignoredMessageItemID
      /\ c.thinkingIndex = o.thinkingIndex /\ c.webSearchEmitted = o.webSearchEmitted
  BY <1>3 DEF openToolBlock, Bridge
<1> HIDE DEF o, c
<1>5. Good(c) /\ Effect(o, c, {}, {}, {})
  BY <1>1, <1>2, <1>4, Relabel DEF Step
<1>6. SameState([b EXCEPT !.toolIndexByItemID[item] = b.nextIndex,
                          !.toolIndexByOutput[out]  = b.nextIndex,
                          !.toolUsed                = TRUE], c)
  BY <1>1, <1>2, <1>4 DEF Step, SameState, Bridge
<1> QED
  BY <1>2, <1>4, <1>5, <1>6 DEF Step, Effect, c

\* ensureTextBlock of a content part that has no block adds one.
LEMMA OpenTextStep ==
    ASSUME NEW b, Good(b), b.started, NEW key \in Keys, NEW what \in {"text", "refusal"},
           b.textIndexByKey[key] = Absent
    PROVE  LET c == ensureTextBlock(b, key, what)
           IN  /\ Good(c) /\ Effect(b, c, {<<b.nextIndex, what, key[1]>>}, {}, {})
               /\ SameState([b EXCEPT !.textIndexByKey[key] = b.nextIndex], c) /\ c.started
<1> DEFINE o == openBlock(b, what, key[1])
           c == ensureTextBlock(b, key, what)
<1>1. b \in Bridge /\ Sound(b) /\ Sound(c) /\ what \in Details /\ key[1] \in Owners
  BY EnsureTextBlock, SoundTypes DEF Good, Follows, Continues, Details, Keys
<1>2. Step(b, o, {<<b.nextIndex, what, key[1]>>}, {}, {}) /\ o.started
  BY <1>1, OpenStep
<1>3. o \in Bridge
  BY <1>2, SoundTypes DEF Step, Good
<1>4. /\ c.out = o.out /\ c.closedIndex = o.closedIndex /\ c.started = o.started
      /\ c.textIndexByKey = [o.textIndexByKey EXCEPT ![key] = b.nextIndex]
      /\ c.ignoredMessageItemID = o.ignoredMessageItemID
      /\ c.toolIndexByItemID = o.toolIndexByItemID /\ c.toolIndexByOutput = o.toolIndexByOutput
      /\ c.toolUsed = o.toolUsed /\ c.webSearchEmitted = o.webSearchEmitted
      /\ c.thinkingIndex = o.thinkingIndex
  BY <1>3 DEF ensureTextBlock, Bridge
<1> HIDE DEF o, c
<1>5. Good(c) /\ Effect(o, c, {}, {}, {})
  BY <1>1, <1>2, <1>4, Relabel DEF Step
<1>6. SameState([b EXCEPT !.textIndexByKey[key] = b.nextIndex], c)
  BY <1>1, <1>2, <1>4 DEF Step, SameState, Bridge
<1> QED
  BY <1>2, <1>4, <1>5, <1>6 DEF Step, Effect, c

\* handleWebSearchDone adds the closed blocks of a search and of its result.
LEMMA WebSearchStep ==
    ASSUME NEW b, Good(b), b.started, NEW item \in ItemIds, item \notin b.webSearchEmitted
    PROVE  LET c == handleWebSearchDone(b, item)
               n == b.nextIndex
           IN  /\ Good(c)
               /\ Effect(b, c, {<<n, "server_tool_use", item>>,
                                <<n + 1, "web_search_tool_result", item>>},
                               {<<n, "input_json_delta", item>>}, {n, n + 1})
               /\ SameState([b EXCEPT !.webSearchEmitted = @ \cup {item}], c) /\ c.started
<1> DEFINE n == b.nextIndex
           a == [b EXCEPT !.webSearchEmitted = @ \cup {item}, !.serverToolUseCount = @ + 1]
           s == openBlock(a, "server_tool_use", item)
           d == sendEvent(s, BlockDelta(n, "input_json_delta", item))
           e == closeContentBlock(d, n)
           r == openBlock(e, "web_search_tool_result", item)
           c == closeContentBlock(r, n + 1)
<1>1. /\ b \in Bridge /\ Sound(b) /\ n \in Nat /\ item \in Owners
      /\ {"server_tool_use", "web_search_tool_result", "input_json_delta"} \subseteq Details
  BY SoundTypes DEF Good, Owners, Details
<1>2. Good(a) /\ Effect(b, a, {}, {}, {}) /\ a.started /\ a.nextIndex = n
      /\ SameState([b EXCEPT !.webSearchEmitted = @ \cup {item}], a)
  <2>1. /\ a \in Bridge /\ a.out = b.out /\ a.started = b.started /\ a.nextIndex = n
        /\ a.closedIndex = b.closedIndex /\ IndicesBounded(a)
    <3>1. /\ b.webSearchEmitted \cup {item} \in SUBSET ItemIds
          /\ b.serverToolUseCount + 1 \in Nat
      BY <1>1 DEF Bridge
    <3>2. /\ a \in Bridge /\ a.out = b.out /\ a.started = b.started /\ a.nextIndex = n
          /\ a.closedIndex = b.closedIndex /\ a.textIndexByKey = b.textIndexByKey
          /\ a.thinkingIndex = b.thinkingIndex
          /\ a.toolIndexByItemID = b.toolIndexByItemID
          /\ a.toolIndexByOutput = b.toolIndexByOutput
      BY <1>1, <3>1 DEF Bridge
    <3> HIDE DEF a
    <3> QED
      BY <1>1, <3>2 DEF Sound, IndicesBounded
  <2>2. SameState([b EXCEPT !.webSearchEmitted = @ \cup {item}], a)
    BY <1>1 DEF Bridge, SameState
  <2> HIDE DEF a
  <2>3. Sound(a)
    BY <1>1, <2>1, BlocksUntouched DEF Continues
  <2> QED
    BY <2>1, <2>2, <2>3, Relabel
<1> HIDE DEF a
<1>3. Step(a, s, {<<n, "server_tool_use", item>>}, {}, {}) /\ s.started /\ s.nextIndex = n + 1
  BY <1>1, <1>2, OpenStep
<1> HIDE DEF s
<1>4. Step(s, d, {}, {<<n, "input_json_delta", item>>}, {}) /\ d.started /\ d.nextIndex = n + 1
  <2> DEFINE t == <<n, "server_tool_use", item>>
  <2>1. t \in BlocksIn(s.out) /\ t[1] = n /\ t[2] = "server_tool_use"
    BY <1>3 DEF Step, Effect
  <2>2. t[1] \notin s.closedIndex
    BY <1>1, <1>2, <1>3, <2>1, BlockFacts DEF Step, Effect, Good
  <2>3. "input_json_delta" \in Protocol!Deltas(t[2])
    BY <2>1 DEF Protocol!Deltas
  <2> HIDE DEF t
  <2>4. LET w == sendEvent(s, BlockDelta(t[1], "input_json_delta", item))
        IN  /\ Step(s, w, {}, {<<t[1], "input_json_delta", item>>}, {})
            /\ w.started /\ w.nextIndex = s.nextIndex
    BY <1>1, <1>3, <2>1, <2>2, <2>3, DeltaStep DEF Step
  <2> QED
    BY <1>3, <2>1, <2>4
<1> HIDE DEF d
<1>5. Step(d, e, {}, {}, {n}) /\ e.started /\ e.nextIndex = n + 1
  <2>1. n \in 0 .. (d.nextIndex - 1)
    BY <1>1, <1>4
  <2>2. \A t \in BlocksIn(d.out) : t[1] = n => t[2] = "server_tool_use"
    <3>1. \A t \in BlocksIn(a.out) : t[1] \in 0 .. (n - 1)
      BY <1>2, BlockFacts DEF Good
    <3> QED
      BY <1>1, <1>3, <1>4, <3>1 DEF Step, Effect
  <2> QED
    BY <1>4, <2>1, <2>2, CloseStep DEF Step
<1> HIDE DEF e
<1>6. /\ Step(e, r, {<<n + 1, "web_search_tool_result", item>>}, {}, {}) /\ r.started
      /\ r.nextIndex = n + 2
  <2>1. /\ Step(e, r, {<<e.nextIndex, "web_search_tool_result", item>>}, {}, {}) /\ r.started
        /\ r.nextIndex = e.nextIndex + 1
    BY <1>1, <1>5, OpenStep DEF Step
  <2> HIDE DEF r
  <2> QED
    BY <1>1, <1>5, <2>1
<1> HIDE DEF r
<1>7. Step(r, c, {}, {}, {n + 1}) /\ c.started
  <2>1. Sealed(DeltasIn(r.out), n + 1)
    BY <1>5, <1>6, FreshBlock DEF Step
  <2>2. n + 1 \in 0 .. (r.nextIndex - 1)
    BY <1>1, <1>6
  <2> QED
    BY <1>6, <2>1, <2>2, CloseStep DEF Step
<1>8. c = handleWebSearchDone(b, item)
  BY <1>5 DEF handleWebSearchDone, a, s, d, e, r
<1> HIDE DEF c
<1>9. Step(a, c, {<<n, "server_tool_use", item>>, <<n + 1, "web_search_tool_result", item>>},
              {<<n, "input_json_delta", item>>}, {n, n + 1})
  BY <1>3, <1>4, <1>5, <1>6, <1>7 DEF Step, Effect, SameState
<1> QED
  BY <1>2, <1>7, <1>8, <1>9 DEF Step, Effect, SameState

\* A finished item converts to at most one closed block.
LEMMA EmitBlocksStep ==
    ASSUME NEW b, Good(b), b.started, NEW n \in 0 .. 1, NEW what \in Details, NEW item \in Owners
    PROVE  LET c == emitBlocks(b, n, what, item)
           IN  /\ Step(b, c, IF n = 1 THEN {<<b.nextIndex, what, item>>} ELSE {}, {},
                             IF n = 1 THEN {b.nextIndex} ELSE {})
               /\ c.started
<1>1. CASE n = 0
  <2>1. emitBlocks(b, n, what, item) = b
    BY <1>1 DEF emitBlocks
  <2> QED
    BY <1>1, <2>1, StepRefl
<1>2. CASE n = 1
  <2>1. emitBlocks(b, n, what, item) = emitFullContentBlock(b, what, item)
    BY <1>2 DEF emitBlocks
  <2> QED
    BY <1>2, <2>1, EmitStep
<1> QED
  BY <1>1, <1>2

-----------------------------------------------------------------------------
(* The end of the response                                                  *)

\* The blocks flushOpenTextBlocks closes are of the kind it takes them for.
Mapped(b) ==
    /\ \A key \in Keys : b.textIndexByKey[key] # Absent =>
          \E t \in BlocksIn(b.out) : t[1] = b.textIndexByKey[key] /\ t[2] \in {"text", "refusal"}
    /\ b.thinkingIndex # Absent =>
          \E t \in BlocksIn(b.out) : t[1] = b.thinkingIndex /\ t[2] = "thinking"
    /\ b.toolIndexByItemID[NoItem] = Absent
    /\ \A x \in Items : b.toolIndexByItemID[x] # Absent =>
          b.toolIndexByOutput[OutputOf[x]] = b.toolIndexByItemID[x]

\* Stops of blocks other than thinking blocks may come together.
LEMMA StopsLawful ==
    ASSUME NEW s, NEW n, NEW order, NEW m, NEW t, StopsAppended(s, n, order, m, t),
           Lawful(s), Running(s), n > 0,
           \A k \in 1 .. m : t[n + k].item = NoItem,
           \A k \in 1 .. m : \A u \in BlocksIn(s) : u[1] = order[k] => u[2] # "thinking"
    PROVE  Lawful(t) /\ Running(t) /\ BlocksIn(t) = BlocksIn(s) /\ DeltasIn(t) = DeltasIn(s)
<1>a. /\ n \in Nat /\ m \in Nat /\ Len(s) = n /\ Len(t) = n + m
      /\ \A k \in 1 .. n : t[k] = s[k]
      /\ \A k \in 1 .. m : /\ t[n + k].type = "content_block_stop"
                           /\ t[n + k].index = order[k]
  BY DEF StopsAppended
<1>1. /\ Len(t) = n + m /\ n \in Nat /\ m \in Nat /\ Len(s) = n
      /\ \A k \in 1 .. n : t[k] = s[k]
      /\ \A k \in (n + 1) .. (n + m) : /\ t[k].type = "content_block_stop" /\ t[k].item = NoItem
                                       /\ \A u \in BlocksIn(s) : u[1] = t[k].index => u[2] # "thinking"
  <2> SUFFICES ASSUME NEW k \in (n + 1) .. (n + m)
               PROVE  /\ t[k].type = "content_block_stop" /\ t[k].item = NoItem
                      /\ \A u \in BlocksIn(s) : u[1] = t[k].index => u[2] # "thinking"
    BY <1>a
  <2>1. PICK j \in 1 .. m : k = n + j
    <3>1. k - n \in 1 .. m /\ n + (k - n) = k
      BY <1>a
    <3> QED
      BY <3>1
  <2>2. t[n + j].type = "content_block_stop" /\ t[n + j].index = order[j]
    BY <1>a
  <2>3. t[n + j].item = NoItem
    OBVIOUS
  <2>4. \A u \in BlocksIn(s) : u[1] = order[j] => u[2] # "thinking"
    OBVIOUS
  <2> QED
    BY <2>1, <2>2, <2>3, <2>4
<1>2. ASSUME NEW k \in (n + 1) .. (n + m + 1)
      PROVE  /\ BlocksBefore(t, k) = BlocksIn(s) /\ DeltasBefore(t, k) = DeltasIn(s)
             /\ \A type : type # "content_block_stop" => (NoneBefore(t, k, type) <=> NoneIn(s, type))
  <2>1. ASSUME NEW type, type # "content_block_stop"
        PROVE  {i \in 1 .. (k - 1) : t[i].type = type} = {i \in 1 .. (n + 1 - 1) : s[i].type = type}
    BY <1>1, <2>1
  <2>2. \A i \in 1 .. (n + 1 - 1) : t[i] = s[i]
    BY <1>1
  <2>3. BlocksBefore(t, k) = BlocksIn(s)
    BY <1>1, <2>1, <2>2 DEF BlocksIn, BlocksBefore
  <2>4. DeltasBefore(t, k) = DeltasIn(s)
    BY <1>1, <2>1, <2>2 DEF DeltasIn, DeltasBefore
  <2>5. ASSUME NEW type, type # "content_block_stop"
        PROVE  NoneBefore(t, k, type) <=> NoneIn(s, type)
    <3>1. NoneBefore(t, k, type) <=> {i \in 1 .. (k - 1) : t[i].type = type} = {}
      BY DEF NoneBefore
    <3>2. NoneIn(s, type) <=> {i \in 1 .. (n + 1 - 1) : s[i].type = type} = {}
      BY <1>1 DEF NoneIn, NoneBefore
    <3> QED
      BY <3>1, <3>2, <2>1, <2>5
  <2> QED
    BY <2>3, <2>4, <2>5
<1>3. Lawful(t)
  <2> SUFFICES ASSUME NEW k \in 1 .. (n + m)
               PROVE  /\ InPlace(t, k)
                      /\ MayCome(BlocksBefore(t, k), DeltasBefore(t, k), ClosedBefore(t, k), t[k])
    BY <1>1 DEF Lawful
  <2>1. CASE k \in 1 .. n
    <3>1. /\ InPlace(s, k)
          /\ MayCome(BlocksBefore(s, k), DeltasBefore(s, k), ClosedBefore(s, k), s[k])
      BY <2>1, <1>1 DEF Lawful
    <3>2. k \in Nat /\ \A i \in 1 .. (k - 1) : t[i] = s[i]
      BY <2>1, <1>1
    <3>3. /\ BlocksBefore(t, k) = BlocksBefore(s, k) /\ DeltasBefore(t, k) = DeltasBefore(s, k)
          /\ ClosedBefore(t, k) = ClosedBefore(s, k)
      BY <3>2, SameBefore
    <3>4. InPlace(t, k)
      BY <3>1, <2>1, <1>1 DEF InPlace
    <3> QED
      BY <3>1, <3>3, <3>4, <2>1, <1>1
  <2>2. CASE k \in (n + 1) .. (n + m)
    <3>1. t[k - 1].type \notin {"message_delta", "message_stop"}
      <4>1. CASE k = n + 1
        BY <4>1, <1>1 DEF Running, NoneIn, NoneBefore
      <4>2. CASE k # n + 1
        <5>1. k - 1 \in (n + 1) .. (n + m)
          BY <4>2, <2>2, <1>1
        <5>2. t[k - 1].type = "content_block_stop"
          BY <5>1, <1>1
        <5> QED
          BY <5>2
      <4> QED
        BY <4>1, <4>2
    <3>2. InPlace(t, k)
      BY <3>1, <2>2, <1>1 DEF InPlace
    <3>3. MayCome(BlocksBefore(t, k), DeltasBefore(t, k), ClosedBefore(t, k), t[k])
      BY <2>2, <1>1, <1>2 DEF MayCome
    <3> QED
      BY <3>2, <3>3
  <2> QED
    BY <2>1, <2>2, <1>1
<1>4. n + m + 1 \in (n + 1) .. (n + m + 1)
  BY <1>1
<1> QED
  BY <1>1, <1>2, <1>3, <1>4 DEF Running, BlocksIn, DeltasIn, NoneIn

\* The flush closes the text blocks that are open.
LEMMA CloseTextStep ==
    ASSUME NEW b, Good(b), b.started, Mapped(b), NEW order \in Ascending(OpenTextBlocks(b))
    PROVE  LET c == closeTextBlocks(b, order)
           IN  /\ Step(b, c, {}, {}, OpenTextBlocks(b)) /\ c.started
               /\ c.nextIndex = b.nextIndex
<1> DEFINE c == closeTextBlocks(b, order)
           t == c.out
           n == Len(b.out)
<1>1. /\ b \in Bridge /\ Sound(b) /\ Sound(c) /\ b.out # << >> /\ n \in Nat /\ n > 0
  BY CloseTextBlocks, SoundTypes DEF Good, Follows, Continues
<1>2. PICK m \in Nat : /\ order \in [1 .. m -> OpenTextBlocks(b)]
                       /\ \A x \in OpenTextBlocks(b) : \E k \in 1 .. m : order[k] = x
                       /\ StopsAppended(b.out, n, order, m, t)
                       /\ \A k \in 1 .. m : t[n + k] = BlockStop(order[k])
  BY <1>1, TextStops
<1>3. /\ c.closedIndex = b.closedIndex \cup {order[k] : k \in DOMAIN order}
      /\ c.started = b.started /\ c.nextIndex = b.nextIndex /\ SameState(b, c)
  BY <1>1 DEF closeTextBlocks, Bridge, SameState
<1> HIDE DEF c, n
<1>4. c.closedIndex = b.closedIndex \cup OpenTextBlocks(b)
  BY <1>2, <1>3
<1>5. \A k \in 1 .. m : t[n + k].item = NoItem
  <2>1. \A i : BlockStop(i).item = NoItem
    BY DEF BlockStop
  <2> QED
    BY <1>2, <2>1
<1>6. \A k \in 1 .. m : \A u \in BlocksIn(b.out) : u[1] = order[k] => u[2] # "thinking"
  <2> SUFFICES ASSUME NEW k \in 1 .. m, NEW u \in BlocksIn(b.out), u[1] = order[k]
               PROVE  u[2] # "thinking"
    OBVIOUS
  <2>1. PICK key \in Keys : b.textIndexByKey[key] = u[1] /\ b.textIndexByKey[key] # Absent
    <3>1. order[k] \in OpenTextBlocks(b)
      BY <1>2
    <3> QED
      BY <3>1 DEF OpenTextBlocks
  <2>2. PICK w \in BlocksIn(b.out) : w[1] = u[1] /\ w[2] \in {"text", "refusal"}
    BY <2>1 DEF Mapped
  <2>3. w = u
    BY <2>2, <1>1, BlockFacts
  <2> QED
    BY <2>2, <2>3
<1>7. Lawful(t) /\ Running(t) /\ BlocksIn(t) = BlocksIn(b.out) /\ DeltasIn(t) = DeltasIn(b.out)
  <2>1. /\ Lawful(b.out) /\ Running(b.out) /\ n > 0
        /\ StopsAppended(b.out, n, order, m, t)
    BY <1>1, <1>2 DEF Good
  <2> HIDE DEF t
  <2> QED
    BY <2>1, <1>5, <1>6, StopsLawful
<1>8. t # << >>
  BY <1>1, <1>2 DEF StopsAppended
<1>9. Good(c)
  BY <1>1, <1>4, <1>7, <1>8 DEF Good
<1> QED
  BY <1>3, <1>4, <1>7, <1>9 DEF Step, Effect, c

\* flushOpenTextBlocks leaves no text or thinking block open.
LEMMA FlushStep ==
    ASSUME NEW b, Good(b), b.started, Mapped(b), NEW order \in Ascending(OpenTextBlocks(b))
    PROVE  LET c == flushOpenTextBlocks(b, order)
           IN  /\ Good(c) /\ SameState(b, c) /\ c.started
               /\ BlocksIn(c.out) = BlocksIn(b.out)
               /\ DeltasIn(b.out) \subseteq DeltasIn(c.out)
               /\ \A d \in DeltasIn(c.out) \ DeltasIn(b.out) : d[2] = "signature_delta"
               /\ b.closedIndex \subseteq c.closedIndex
               /\ \A key \in Keys : b.textIndexByKey[key] \in {Absent} \cup c.closedIndex
               /\ b.thinkingIndex \in {Absent} \cup c.closedIndex
<1> DEFINE a == closeTextBlocks(b, order)
           c == flushOpenTextBlocks(b, order)
<1>1. Step(b, a, {}, {}, OpenTextBlocks(b)) /\ a.started
  BY CloseTextStep
<1>2. /\ Good(a) /\ SameState(b, a) /\ BlocksIn(a.out) = BlocksIn(b.out)
      /\ DeltasIn(a.out) = DeltasIn(b.out)
      /\ a.closedIndex = b.closedIndex \cup OpenTextBlocks(b)
      /\ a.thinkingIndex = b.thinkingIndex
  BY <1>1 DEF Step, Effect, SameState
<1> HIDE DEF a
<1>3. \A key \in Keys : b.textIndexByKey[key] \in {Absent} \cup a.closedIndex
  BY <1>2 DEF OpenTextBlocks
<1>4. CASE thinkingStarted(b)
  <2>1. PICK t \in BlocksIn(a.out) : t[1] = a.thinkingIndex /\ t[2] = "thinking"
    BY <1>2, <1>4 DEF Mapped, thinkingStarted
  <2>2. c = closeThinkingBlock(a)
    BY <1>4 DEF flushOpenTextBlocks, a
  <2> HIDE DEF c
  <2>3. /\ \E D \in SUBSET {<<t[1], "signature_delta", NoItem>>} : Step(a, c, {}, D, {t[1]})
        /\ c.started
    BY <1>1, <1>2, <2>1, <2>2, SealStep
  <2>4. PICK D \in SUBSET {<<t[1], "signature_delta", NoItem>>} : Step(a, c, {}, D, {t[1]})
    BY <2>3
  <2>5. \A d \in D : d[2] = "signature_delta"
    <3>1. <<t[1], "signature_delta", NoItem>>[2] = "signature_delta"
      OBVIOUS
    <3> QED
      BY <3>1, <2>4
  <2>6. /\ Good(c) /\ SameState(a, c) /\ BlocksIn(c.out) = BlocksIn(a.out)
        /\ DeltasIn(c.out) = DeltasIn(a.out) \cup D
        /\ c.closedIndex = a.closedIndex \cup {t[1]}
    BY <2>4 DEF Step, Effect
  <2>7. SameState(b, c)
    BY <1>2, <2>6 DEF SameState
  <2>8. \A d \in DeltasIn(c.out) \ DeltasIn(b.out) : d[2] = "signature_delta"
    BY <1>2, <2>5, <2>6
  <2> QED
    BY <1>2, <1>3, <2>1, <2>3, <2>6, <2>7, <2>8 DEF c
<1>5. CASE ~ thinkingStarted(b)
  <2>1. c = a /\ b.thinkingIndex = Absent
    BY <1>5 DEF flushOpenTextBlocks, thinkingStarted, a
  <2> QED
    BY <2>1, <1>1, <1>2, <1>3
<1> QED
  BY <1>4, <1>5

\* finishMessage ends a message whose blocks are closed, except those of tool
\* calls if the stop reason is another.
LEMMA FinishStep ==
    ASSUME NEW b, Good(b), b.started, NEW stop \in Details,
           \A t \in BlocksIn(b.out) : \/ t[1] \in b.closedIndex
                                      \/ t[2] = "tool_use" /\ stop # "tool_use"
    PROVE  LET c == finishMessage(b, stop)
           IN  /\ Sound(c) /\ Lawful(c.out) /\ SameState(b, c)
               /\ BlocksIn(c.out) = BlocksIn(b.out) /\ DeltasIn(c.out) = DeltasIn(b.out)
               /\ c.closedIndex = b.closedIndex
               /\ \A k \in 1 .. Len(c.out) : c.out[k].type = "message_delta" => c.out[k].what = stop
<1> DEFINE c == finishMessage(b, stop)
           s == b.out
           f == MessageFrame("message_delta", stop)
           g == MessageFrame("message_stop", "none")
           u == Append(s, f)
           v == Append(u, g)
<1>1. b \in Bridge /\ Sound(b) /\ Sound(c) /\ s \in Seq(Frame)
  BY FinishMessage, SoundTypes DEF Good, Continues
<1>2. /\ f \in Frame /\ f.type = "message_delta" /\ f.what = stop /\ f.item = NoItem
      /\ g \in Frame /\ g.type = "message_stop" /\ g.item = NoItem
  BY FrameFacts, NoItem \in Owners, 0 \in Nat, "none" \in Details
     DEF MessageFrame, Owners, ItemIds, Details
<1>3. c.out = v /\ c.closedIndex = b.closedIndex /\ SameState(b, c)
  BY <1>1 DEF finishMessage, sendEvent, Bridge, SameState
<1>4. /\ Lawful(s) /\ Running(s) /\ s # << >> /\ ClosedIn(s) = b.closedIndex
  BY <1>1 DEF Good, Sound
<1>5. \A k \in 1 .. Len(s) : s[k].type \notin {"message_delta", "message_stop"}
  <2>1. Len(s) + 1 - 1 = Len(s)
    BY <1>1
  <2> QED
    BY <2>1, <1>4 DEF Running, NoneIn, NoneBefore
<1>6. MayCome(BlocksIn(s), DeltasIn(s), ClosedIn(s), f)
  BY <1>2, <1>4 DEF MayCome
<1> HIDE DEF c, s, f, g
<1>7. Len(s) \in 1 .. Len(s) /\ Len(s) \in Nat
  BY <1>1, <1>4
<1>8. /\ Lawful(u) /\ BlocksIn(u) = BlocksIn(s) /\ DeltasIn(u) = DeltasIn(s)
      /\ u \in Seq(Frame) /\ Len(u) = Len(s) + 1 /\ u[Len(s) + 1] = f
      /\ \A k \in 1 .. Len(s) : u[k] = s[k]
  <2>1. s # << >> => /\ s[Len(s)].type # "message_stop"
                     /\ (s[Len(s)].type = "message_delta" <=> f.type = "message_stop")
    BY <1>2, <1>5, <1>7
  <2>2. /\ Lawful(u)
        /\ BlocksIn(u) = BlocksIn(s) \cup
              (IF f.type = "content_block_start" THEN {<<f.index, f.what, f.item>>} ELSE {})
        /\ DeltasIn(u) = DeltasIn(s) \cup
              (IF f.type = "content_block_delta" THEN {<<f.index, f.what, f.item>>} ELSE {})
    BY <1>1, <1>2, <1>4, <1>6, <2>1, AppendLawful
  <2>3. /\ u \in Seq(Frame) /\ Len(u) = Len(s) + 1 /\ u[Len(s) + 1] = f
        /\ \A k \in 1 .. Len(s) : u[k] = s[k]
    BY <1>1, <1>2
  <2> QED
    BY <2>2, <2>3, <1>2
<1> HIDE DEF u
<1>9. /\ Lawful(v) /\ BlocksIn(v) = BlocksIn(u) /\ DeltasIn(v) = DeltasIn(u)
      /\ Len(v) = Len(u) + 1 /\ v[Len(u) + 1] = g
      /\ \A k \in 1 .. Len(u) : v[k] = u[k]
  <2>1. u # << >> => /\ u[Len(u)].type # "message_stop"
                     /\ (u[Len(u)].type = "message_delta" <=> g.type = "message_stop")
    BY <1>2, <1>8
  <2>2. MayCome(BlocksIn(u), DeltasIn(u), ClosedIn(u), g)
    BY <1>2 DEF MayCome
  <2>3. u # << >>
    BY <1>7, <1>8
  <2>4. /\ Lawful(v)
        /\ BlocksIn(v) = BlocksIn(u) \cup
              (IF g.type = "content_block_start" THEN {<<g.index, g.what, g.item>>} ELSE {})
        /\ DeltasIn(v) = DeltasIn(u) \cup
              (IF g.type = "content_block_delta" THEN {<<g.index, g.what, g.item>>} ELSE {})
    BY <1>2, <1>8, <2>1, <2>2, <2>3, AppendLawful
  <2>5. /\ Len(v) = Len(u) + 1 /\ v[Len(u) + 1] = g
        /\ \A k \in 1 .. Len(u) : v[k] = u[k]
    BY <1>2, <1>8
  <2> QED
    BY <2>4, <2>5, <1>2
<1> HIDE DEF v
<1>10. ASSUME NEW k \in 1 .. Len(v), v[k].type = "message_delta"
       PROVE  v[k].what = stop
  <2>1. Len(v) = Len(s) + 2 /\ Len(u) = Len(s) + 1
    BY <1>7, <1>8, <1>9
  <2>2. k \in 1 .. Len(s) \/ k = Len(s) + 1 \/ k = Len(s) + 2
    BY <2>1, <1>7
  <2>3. CASE k \in 1 .. Len(s)
    BY <2>3, <2>1, <1>5, <1>7, <1>8, <1>9, <1>10
  <2>4. CASE k = Len(s) + 1
    BY <2>4, <2>1, <1>2, <1>7, <1>8, <1>9
  <2>5. CASE k = Len(s) + 2
    BY <2>5, <2>1, <1>2, <1>9, <1>10
  <2> QED
    BY <2>2, <2>3, <2>4, <2>5
<1> QED
  BY <1>1, <1>3, <1>8, <1>9, <1>10 DEF c, s

\* The error frame ends the stream; nothing else changes.
LEMMA ErrorStep ==
    ASSUME NEW b, Good(b)
    PROVE  LET c == sendEvent(b, MessageFrame("error", "none"))
           IN  /\ Lawful(c.out) /\ Running(c.out) /\ SameState(b, c)
               /\ BlocksIn(c.out) = BlocksIn(b.out) /\ DeltasIn(c.out) = DeltasIn(b.out)
               /\ c.closedIndex = b.closedIndex /\ ClosedIn(c.out) = c.closedIndex
<1> DEFINE s == b.out
           f == MessageFrame("error", "none")
           c == sendEvent(b, f)
<1>1. /\ b \in Bridge /\ Sound(b) /\ s \in Seq(Frame) /\ Lawful(s) /\ Running(s)
      /\ ClosedIn(s) = b.closedIndex /\ WellFormed(s) /\ NoneIn(s, "error")
  BY SoundTypes DEF Good, Sound
<1>2. f \in Frame /\ f.type = "error" /\ f.item = NoItem
  BY FrameFacts, NoItem \in Owners, 0 \in Nat, "none" \in Details
     DEF MessageFrame, Owners, ItemIds, Details
<1>3. c.out = Append(s, f) /\ c.closedIndex = b.closedIndex /\ SameState(b, c)
  BY <1>1 DEF sendEvent, Bridge, SameState
<1> HIDE DEF c, s, f
<1>4. s # << >> => /\ s[Len(s)].type # "message_stop"
                   /\ (s[Len(s)].type = "message_delta" <=> f.type = "message_stop")
  <2> SUFFICES ASSUME s # << >>
               PROVE  s[Len(s)].type \notin {"message_delta", "message_stop"}
    BY <1>2
  <2>1. Len(s) \in Nat /\ Len(s) \in 1 .. (Len(s) + 1 - 1)
    BY <1>1
  <2> QED
    BY <2>1, <1>1 DEF Running, NoneIn, NoneBefore
<1>5. MayCome(BlocksIn(s), DeltasIn(s), ClosedIn(s), f)
  BY <1>2 DEF MayCome
<1>6. s = << >> => f.type \in {"message_start", "error"}
  BY <1>2
<1>7. /\ Lawful(Append(s, f))
      /\ BlocksIn(Append(s, f)) = BlocksIn(s) \cup
            (IF f.type = "content_block_start" THEN {<<f.index, f.what, f.item>>} ELSE {})
      /\ DeltasIn(Append(s, f)) = DeltasIn(s) \cup
            (IF f.type = "content_block_delta" THEN {<<f.index, f.what, f.item>>} ELSE {})
      /\ \A type : NoneIn(Append(s, f), type) <=> NoneIn(s, type) /\ f.type # type
  BY <1>1, <1>2, <1>4, <1>5, <1>6, AppendLawful
<1>8. ClosedIn(Append(s, f)) = ClosedIn(s)
  BY <1>1, <1>2, AppendFrame
<1>9. Running(c.out)
  BY <1>1, <1>2, <1>3, <1>7 DEF Running
<1> QED
  BY <1>1, <1>2, <1>3, <1>7, <1>8, <1>9 DEF c, s, f

-----------------------------------------------------------------------------
(* The client's stream                                                      *)

\* The next frame of lawful frames follows the protocol after those before it.
LEMMA NextFrameFollowsProtocol ==
    ASSUME NEW s \in Seq(Frame), WellFormed(s), Lawful(s), NEW n \in Nat, n < Len(s)
    PROVE  Protocol!FollowsProtocol(SubSeq(s, 1, n), s[n + 1])
<1> DEFINE t == SubSeq(s, 1, n)
           f == s[n + 1]
           blocks == BlocksBefore(s, n + 1)
           deltas == DeltasBefore(s, n + 1)
           closed == ClosedBefore(s, n + 1)
<1> SUFFICES Protocol!FollowsProtocol(t, f)
  OBVIOUS
<1>1. /\ t \in Seq(Frame) /\ Len(t) = n /\ DOMAIN t = 1 .. n /\ \A i \in 1 .. n : t[i] = s[i]
      /\ n + 1 \in 1 .. Len(s) /\ 1 .. ((n + 1) - 1) = 1 .. n
  OBVIOUS
<1>2. Protocol!Admissible(t, f)
  <2>1. Ledger!Admissible(t, f)
    BY NextFrameAdmissible
  <2>2. /\ \A type : Protocol!Indices(t, type) = Ledger!Indices(t, type)
        /\ \A type : Protocol!Contains(t, type) <=> Ledger!Contains(t, type)
    BY DEF Protocol!Indices, Ledger!Indices, Protocol!Contains, Ledger!Contains
  <2>3. Protocol!Opened(t) = Ledger!Opened(t) /\ Protocol!Closed(t) = Ledger!Closed(t)
    BY <2>2 DEF Protocol!Opened, Ledger!Opened, Protocol!Closed, Ledger!Closed
  <2> HIDE DEF t, f
  <2> QED
    BY <2>1, <2>2, <2>3 DEF Protocol!Admissible, Ledger!Admissible
<1>3. InPlace(s, n + 1) /\ MayCome(blocks, deltas, closed, f) /\ FrameOK(s, n + 1)
  BY <1>1 DEF Lawful, WellFormed
<1>4. Protocol!InOrder(t, f)
  <2>1. CASE n = 0
    <3>1. t = << >>
      BY <2>1, <1>1
    <3> QED
      BY <3>1, <2>1, <1>3 DEF InPlace, Protocol!InOrder
  <2>2. CASE n > 0
    <3>1. t # << >> /\ t[Len(t)] = s[n]
      BY <2>2, <1>1
    <3>2. s[n].type # "message_stop" /\ (s[n].type = "message_delta" <=> f.type = "message_stop")
      BY <2>2, <1>3 DEF InPlace
    <3> HIDE DEF t, f
    <3> QED
      BY <3>1, <3>2 DEF Protocol!InOrder
  <2> QED
    BY <2>1, <2>2
<1> HIDE DEF t
<1>5. /\ Protocol!Opened(t) = OpenedBefore(s, n + 1)
      /\ Protocol!Closed(t) = closed
  BY <1>1 DEF Protocol!Opened, Protocol!Closed, Protocol!Indices, OpenedBefore, ClosedBefore
<1>6. ASSUME NEW i \in OpenedBefore(s, n + 1)
      PROVE  \E b \in blocks : b[1] = i /\ b[2] = Protocol!KindOf(t, i)
  <2> DEFINE Is(k) == t[k].type = "content_block_start" /\ t[k].index = i
             j == CHOOSE k \in DOMAIN t : Is(k)
  <2>1. \E k \in DOMAIN t : Is(k)
    BY <1>1 DEF OpenedBefore
  <2>2. j \in DOMAIN t /\ Is(j)
    BY <2>1
  <2>3. Protocol!KindOf(t, i) = t[j].what
    BY DEF Protocol!KindOf
  <2> HIDE DEF j
  <2>4. <<s[j].index, s[j].what, s[j].item>> \in blocks
    BY <2>2, <1>1 DEF BlocksBefore
  <2>5. s[j].index = i /\ s[j].what = Protocol!KindOf(t, i)
    BY <2>2, <2>3, <1>1
  <2> DEFINE b == <<s[j].index, s[j].what, s[j].item>>
  <2>6. b \in blocks /\ b[1] = i /\ b[2] = Protocol!KindOf(t, i)
    BY <2>4, <2>5
  <2> HIDE DEF b
  <2> QED
    BY <2>6
<1>7. ASSUME NEW i
      PROVE  /\ \A d \in deltas : d[1] = i => d[2] \in Protocol!DeltasOf(t, i)
             /\ \A w \in Protocol!DeltasOf(t, i) : \E d \in deltas : d[1] = i /\ d[2] = w
  <2>1. ASSUME NEW d \in deltas, d[1] = i
        PROVE  d[2] \in Protocol!DeltasOf(t, i)
    <3>1. PICK k \in 1 .. n : /\ s[k].type = "content_block_delta"
                              /\ d = <<s[k].index, s[k].what, s[k].item>>
      BY <1>1 DEF DeltasBefore
    <3> QED
      BY <3>1, <2>1, <1>1 DEF Protocol!DeltasOf
  <2>2. ASSUME NEW w \in Protocol!DeltasOf(t, i)
        PROVE  \E d \in deltas : d[1] = i /\ d[2] = w
    <3>1. PICK k \in 1 .. n : /\ s[k].type = "content_block_delta"
                              /\ s[k].index = i /\ s[k].what = w
      BY <1>1 DEF Protocol!DeltasOf
    <3> DEFINE d == <<s[k].index, s[k].what, s[k].item>>
    <3>2. d \in deltas /\ d[1] = i /\ d[2] = w
      BY <3>1, <1>1 DEF DeltasBefore
    <3> HIDE DEF d
    <3> QED
      BY <3>2
  <2> QED
    BY <2>1, <2>2
<1> HIDE DEF f, blocks, deltas, closed
<1>a. FrameOK(s, n + 1) /\ f = s[n + 1]
  BY <1>3 DEF f
<1>8. CASE f.type = "content_block_delta"
  <2>1. f.index \in OpenedBefore(s, n + 1) /\ f.index \notin closed
    BY <1>3, <1>8, <1>a DEF FrameOK, MayCome
  <2>2. f.what \in Protocol!Deltas(Protocol!KindOf(t, f.index))
    BY <1>3, <1>6, <1>8, <2>1 DEF MayCome
  <2>3. ~ Protocol!Signed(t, f.index)
    BY <1>3, <1>7, <1>8 DEF MayCome, Protocol!Signed
  <2> QED
    BY <1>2, <1>4, <1>5, <1>8, <2>1, <2>2, <2>3
       DEF Protocol!FollowsProtocol, Protocol!OpenBlocks
<1>9. CASE f.type = "content_block_stop"
  <2>1. f.index \in OpenedBefore(s, n + 1)
    BY <1>9, <1>a DEF FrameOK
  <2>2. ASSUME Protocol!KindOf(t, f.index) = "thinking"
        PROVE  Protocol!DeltasOf(t, f.index) = {} \/ Protocol!Signed(t, f.index)
    <3>1. Sealed(deltas, f.index)
      BY <1>3, <1>6, <1>9, <2>1, <2>2 DEF MayCome
    <3> QED
      BY <3>1, <1>7 DEF Sealed, Protocol!Signed
  <2> QED
    BY <1>2, <1>4, <1>9, <2>2 DEF Protocol!FollowsProtocol
<1>10. CASE f.type = "message_delta"
  <2>1. ASSUME NEW i \in OpenedBefore(s, n + 1), i \notin closed
        PROVE  Protocol!KindOf(t, i) = "tool_use" /\ f.what # "tool_use"
    BY <1>3, <1>6, <1>10, <2>1 DEF MayCome
  <2> QED
    BY <1>2, <1>4, <1>5, <1>10, <2>1 DEF Protocol!FollowsProtocol, Protocol!OpenBlocks
<1>11. CASE f.type \notin {"content_block_delta", "content_block_stop", "message_delta"}
  BY <1>2, <1>4, <1>11 DEF Protocol!FollowsProtocol
<1> QED
  BY <1>8, <1>9, <1>10, <1>11
=============================================================================
