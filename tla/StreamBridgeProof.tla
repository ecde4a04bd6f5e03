------------------------- MODULE StreamBridgeProof -------------------------
(***************************************************************************)
(* For every set of items, outputs and parts, in both modes and for any    *)
(* upstream: the bridge's state keeps its types (TypeCorrect) and what the *)
(* client reads is a ledger of content blocks (LedgerRefinement).          *)
(*                                                                         *)
(* Sound(b) is the inductive invariant of the record b that the handlers   *)
(* of StreamBridge pass from helper to helper.  One lemma per helper shows *)
(* that it keeps Sound and only appends frames; then they are composed,    *)
(* one step per action.  The record bridge is Sound as long as the loop    *)
(* reads.  The frame "error" that ends a failed stream keeps the frames    *)
(* well formed but not Sound, so the invariant claims the latter for phase *)
(* "reading" only.                                                         *)
(***************************************************************************)
EXTENDS StreamBridge, FiniteSetTheorems, TLAPS

OpenedBefore(s, k) == {s[j].index : j \in {i \in 1 .. (k - 1) : s[i].type = "content_block_start"}}
ClosedBefore(s, k) == {s[j].index : j \in {i \in 1 .. (k - 1) : s[i].type = "content_block_stop"}}
NoneBefore(s, k, type) == \A i \in 1 .. (k - 1) : s[i].type # type

\* Ledger!Admissible, stated of the k-th frame of a sequence.
FrameOK(s, k) ==
    /\ NoneBefore(s, k, "error")
    /\ s[k].type = "message_start"       => NoneBefore(s, k, "message_start")
    /\ s[k].type = "content_block_start" => /\ OpenedBefore(s, k) = 0 .. (s[k].index - 1)
                                            /\ s[k].index >= 0
    /\ s[k].type = "content_block_delta" => s[k].index \in OpenedBefore(s, k)
    /\ s[k].type = "content_block_stop"  => s[k].index \in OpenedBefore(s, k) \ ClosedBefore(s, k)

WellFormed(s) == \A k \in 1 .. Len(s) : FrameOK(s, k)

OpenedIn(s)    == OpenedBefore(s, Len(s) + 1)
ClosedIn(s)    == ClosedBefore(s, Len(s) + 1)
NoneIn(s, type) == NoneBefore(s, Len(s) + 1, type)

IndicesBounded(b) ==
    /\ \A k \in Keys    : b.textIndexByKey[k] < b.nextIndex
    /\ \A x \in ItemIds : b.toolIndexByItemID[x] < b.nextIndex
    /\ \A o \in Outputs : b.toolIndexByOutput[o] < b.nextIndex
    /\ b.thinkingIndex < b.nextIndex

Sound(b) ==
    /\ b \in Bridge
    /\ WellFormed(b.out)
    /\ NoneIn(b.out, "error")
    /\ ~ b.started => NoneIn(b.out, "message_start")
    /\ OpenedIn(b.out) = 0 .. (b.nextIndex - 1)
    /\ ClosedIn(b.out) = b.closedIndex
    /\ IndicesBounded(b)

\* c is a sound record whose frames continue those of b.
Continues(b, c) ==
    /\ Sound(c)
    /\ b.nextIndex <= c.nextIndex
    /\ Len(b.out) <= Len(c.out)
    /\ \A k \in 1 .. Len(b.out) : c.out[k] = b.out[k]

\* The frames that start a block of one kind.
Starts(s, what) ==
    {k \in 1 .. Len(s) : s[k].type = "content_block_start" /\ s[k].what = what}

ToolIn(s) == Starts(s, "tool_use") # {}

ToolStop(f) == f.type = "message_delta" /\ f.what = "tool_use"

\* A frame that toolUsed and serverToolUseCount need not account for.
Plain(f) ==
    /\ ~ ToolStop(f)
    /\ ~ (f.type = "content_block_start" /\ f.what = "server_tool_use")

\* toolUsed and serverToolUseCount say what was sent: a tool_use block before
\* every stop reason that reports one, and the searches, each with its result.
Accounted(b) ==
    /\ b.toolUsed => ToolIn(b.out)
    /\ \A k \in 1 .. Len(b.out) : ToolStop(b.out[k]) => \E j \in Starts(b.out, "tool_use") : j < k
    /\ Cardinality(Starts(b.out, "server_tool_use")) = b.serverToolUseCount
    /\ \A k \in Starts(b.out, "server_tool_use") :
          \E r \in Starts(b.out, "web_search_tool_result") :
             b.out[r].index = b.out[k].index + 1 /\ b.out[r].item = b.out[k].item

\* c adds plain frames to b's and accounts for them.
Adds(b, c) ==
    /\ Len(b.out) <= Len(c.out)
    /\ \A k \in 1 .. Len(b.out) : c.out[k] = b.out[k]
    /\ \A k \in (Len(b.out) + 1) .. Len(c.out) : Plain(c.out[k])
    /\ c.serverToolUseCount = b.serverToolUseCount
    /\ c.toolUsed => b.toolUsed \/ ToolIn(c.out)

\* What most helpers do.
Follows(b, c) == Continues(b, c) /\ Adds(b, c)

-----------------------------------------------------------------------------
(* Sequences of frames                                                      *)

\* Appending a frame that may follow s keeps s well formed and adds at most its
\* own index to the blocks opened or closed.
LEMMA AppendFrame ==
    ASSUME NEW s \in Seq(Frame), NEW f \in Frame,
           WellFormed(s), NoneIn(s, "error"),
           f.type = "message_start"       => NoneIn(s, "message_start"),
           f.type = "content_block_start" => OpenedIn(s) = 0 .. (f.index - 1) /\ f.index >= 0,
           f.type = "content_block_delta" => f.index \in OpenedIn(s),
           f.type = "content_block_stop"  => f.index \in OpenedIn(s) \ ClosedIn(s)
    PROVE  LET t == Append(s, f)
           IN  /\ t \in Seq(Frame)
               /\ WellFormed(t)
               /\ OpenedIn(t) = IF f.type = "content_block_start"
                                THEN OpenedIn(s) \cup {f.index} ELSE OpenedIn(s)
               /\ ClosedIn(t) = IF f.type = "content_block_stop"
                                THEN ClosedIn(s) \cup {f.index} ELSE ClosedIn(s)
               /\ \A type : NoneIn(s, type) /\ f.type # type => NoneIn(t, type)
<1> DEFINE t == Append(s, f)
           n == Len(s)
<1>1. /\ t \in Seq(Frame) /\ Len(t) = n + 1 /\ n \in Nat
      /\ \A i \in 1 .. n : t[i] = s[i]
      /\ t[n + 1] = f
  OBVIOUS
<1>2. \A k \in 1 .. (n + 1) : /\ OpenedBefore(t, k) = OpenedBefore(s, k)
                              /\ ClosedBefore(t, k) = ClosedBefore(s, k)
                              /\ \A type : NoneBefore(t, k, type) <=> NoneBefore(s, k, type)
  <2> SUFFICES ASSUME NEW k \in 1 .. (n + 1)
               PROVE  /\ OpenedBefore(t, k) = OpenedBefore(s, k)
                      /\ ClosedBefore(t, k) = ClosedBefore(s, k)
                      /\ \A type : NoneBefore(t, k, type) <=> NoneBefore(s, k, type)
    OBVIOUS
  <2>1. \A i \in 1 .. (k - 1) : t[i] = s[i]
    BY <1>1
  <2> QED
    BY <2>1 DEF OpenedBefore, ClosedBefore, NoneBefore
<1>3. WellFormed(t)
  <2> SUFFICES ASSUME NEW k \in 1 .. (n + 1)
               PROVE  FrameOK(t, k)
    BY <1>1 DEF WellFormed
  <2>1. CASE k = n + 1
    BY <2>1, <1>1, <1>2 DEF FrameOK, OpenedIn, ClosedIn, NoneIn
  <2>2. CASE k \in 1 .. n
    <3>1. FrameOK(s, k)
      BY <2>2 DEF WellFormed
    <3> QED
      BY <3>1, <2>2, <1>1, <1>2 DEF FrameOK
  <2> QED
    BY <2>1, <2>2, <1>1
<1>4. OpenedIn(t) = IF f.type = "content_block_start"
                    THEN OpenedIn(s) \cup {f.index} ELSE OpenedIn(s)
  <2>1. 1 .. (n + 1) = (1 .. n) \cup {n + 1}
    BY <1>1
  <2>2. {i \in 1 .. (n + 1) : t[i].type = "content_block_start"}
          = {i \in 1 .. n : s[i].type = "content_block_start"}
            \cup (IF f.type = "content_block_start" THEN {n + 1} ELSE {})
    BY <2>1, <1>1
  <2> QED
    BY <2>2, <1>1 DEF OpenedIn, OpenedBefore
<1>5. ClosedIn(t) = IF f.type = "content_block_stop"
                    THEN ClosedIn(s) \cup {f.index} ELSE ClosedIn(s)
  <2>1. 1 .. (n + 1) = (1 .. n) \cup {n + 1}
    BY <1>1
  <2>2. {i \in 1 .. (n + 1) : t[i].type = "content_block_stop"}
          = {i \in 1 .. n : s[i].type = "content_block_stop"}
            \cup (IF f.type = "content_block_stop" THEN {n + 1} ELSE {})
    BY <2>1, <1>1
  <2> QED
    BY <2>2, <1>1 DEF ClosedIn, ClosedBefore
<1>6. \A type : NoneIn(s, type) /\ f.type # type => NoneIn(t, type)
  BY <1>1 DEF NoneIn, NoneBefore
<1> QED
  BY <1>1, <1>3, <1>4, <1>5, <1>6

-----------------------------------------------------------------------------
(* Helpers                                                                  *)

\* A record that differs from b in fields other than these four is as sound.
LEMMA SoundTypes ==
    ASSUME NEW b, Sound(b)
    PROVE  /\ b \in Bridge /\ b.nextIndex \in Nat /\ b.out \in Seq(Frame) /\ Len(b.out) \in Nat
           /\ b.closedIndex \in SUBSET Nat
           /\ \A k \in Keys    : b.textIndexByKey[k] \in Int /\ b.textIndexByKey[k] >= -1
           /\ \A x \in ItemIds : b.toolIndexByItemID[x] \in Int /\ b.toolIndexByItemID[x] >= -1
           /\ \A o \in Outputs : b.toolIndexByOutput[o] \in Int /\ b.toolIndexByOutput[o] >= -1
           /\ b.thinkingIndex \in Int /\ b.thinkingIndex >= -1
<1>1. b \in Bridge
  BY DEF Sound
<1> QED
  BY <1>1 DEF Bridge, Index, Absent

LEMMA FollowsRefl ==
    ASSUME NEW b, Sound(b)
    PROVE  Follows(b, b)
  BY SoundTypes DEF Follows, Continues, Adds

LEMMA ContinuesTrans ==
    ASSUME NEW b, NEW c, NEW d, Sound(b), Continues(b, c), Continues(c, d)
    PROVE  Continues(b, d)
<1>1. Sound(c) /\ Sound(d)
  BY DEF Continues
<1> QED
  BY <1>1, SoundTypes DEF Continues

\* A block that was started stays started.
LEMMA StartsKept ==
    ASSUME NEW b, NEW c, Sound(b), Sound(c), Len(b.out) <= Len(c.out),
           \A k \in 1 .. Len(b.out) : c.out[k] = b.out[k]
    PROVE  /\ \A what : Starts(b.out, what) \subseteq Starts(c.out, what)
           /\ ToolIn(b.out) => ToolIn(c.out)
<1>1. \A what : Starts(b.out, what) \subseteq Starts(c.out, what)
  BY SoundTypes DEF Starts
<1> QED
  BY <1>1 DEF ToolIn

LEMMA FollowsTrans ==
    ASSUME NEW b, NEW c, NEW d, Sound(b), Follows(b, c), Follows(c, d)
    PROVE  Follows(b, d)
<1>1. Sound(c) /\ Sound(d) /\ Continues(b, d)
  BY ContinuesTrans DEF Follows, Continues
<1>2. /\ Len(b.out) \in Nat /\ Len(c.out) \in Nat /\ Len(d.out) \in Nat
      /\ Len(b.out) <= Len(c.out) /\ Len(c.out) <= Len(d.out)
  BY <1>1, SoundTypes DEF Follows, Adds
<1>3. \A k \in (Len(b.out) + 1) .. Len(d.out) : Plain(d.out[k])
  <2> SUFFICES ASSUME NEW k \in (Len(b.out) + 1) .. Len(d.out)
               PROVE  Plain(d.out[k])
    OBVIOUS
  <2>1. CASE k <= Len(c.out)
    BY <2>1, <1>2 DEF Follows, Adds
  <2>2. CASE k > Len(c.out)
    BY <2>2, <1>2 DEF Follows, Adds
  <2> QED
    BY <2>1, <2>2, <1>2
<1>4. ToolIn(c.out) => ToolIn(d.out)
  BY <1>1, StartsKept DEF Follows, Adds
<1> QED
  BY <1>1, <1>3, <1>4 DEF Follows, Adds, Continues

\* A record that differs from b in other fields than these four continues it,
\* and follows it if it needs no other account of the frames.
LEMMA BlocksUntouched ==
    ASSUME NEW b, Sound(b), NEW c \in Bridge,
           c.out = b.out, c.started = b.started, c.nextIndex = b.nextIndex,
           c.closedIndex = b.closedIndex, IndicesBounded(c)
    PROVE  /\ Continues(b, c)
           /\ /\ c.serverToolUseCount = b.serverToolUseCount
              /\ c.toolUsed => b.toolUsed \/ ToolIn(b.out)
              => Follows(b, c)
<1>1. Sound(c)
  BY DEF Sound
<1>2. Continues(b, c)
  BY <1>1, SoundTypes DEF Continues
<1> QED
  BY <1>2, SoundTypes DEF Follows, Adds, Continues

\* c is b after one more frame that may follow b's frames.
LEMMA Extend ==
    ASSUME NEW b, Sound(b), NEW c \in Bridge, NEW f \in Frame,
           c.out = Append(b.out, f),
           f.type # "error",
           f.type = "message_start"       => ~ b.started,
           f.type = "content_block_start" => f.index = b.nextIndex,
           f.type = "content_block_delta" => f.index \in 0 .. (b.nextIndex - 1),
           f.type = "content_block_stop"  => f.index \in 0 .. (b.nextIndex - 1) \ b.closedIndex,
           c.started = (b.started \/ f.type = "message_start"),
           c.nextIndex = IF f.type = "content_block_start" THEN b.nextIndex + 1 ELSE b.nextIndex,
           c.closedIndex = IF f.type = "content_block_stop"
                           THEN b.closedIndex \cup {f.index} ELSE b.closedIndex,
           IndicesBounded(c)
    PROVE  /\ Continues(b, c)
           /\ Plain(f) /\ c.serverToolUseCount = b.serverToolUseCount /\ c.toolUsed = b.toolUsed
              => Follows(b, c)
<1> DEFINE t == Append(b.out, f)
<1>1. b.out \in Seq(Frame) /\ b.nextIndex \in Nat
  BY DEF Sound, Bridge
<1>2. /\ WellFormed(t)
      /\ OpenedIn(t) = IF f.type = "content_block_start"
                       THEN OpenedIn(b.out) \cup {f.index} ELSE OpenedIn(b.out)
      /\ ClosedIn(t) = IF f.type = "content_block_stop"
                       THEN ClosedIn(b.out) \cup {f.index} ELSE ClosedIn(b.out)
      /\ \A type : NoneIn(b.out, type) /\ f.type # type => NoneIn(t, type)
  <2>1. /\ WellFormed(b.out) /\ NoneIn(b.out, "error")
        /\ f.type = "message_start" => NoneIn(b.out, "message_start")
        /\ f.type = "content_block_start" =>
              OpenedIn(b.out) = 0 .. (f.index - 1) /\ f.index >= 0
        /\ f.type = "content_block_delta" => f.index \in OpenedIn(b.out)
        /\ f.type = "content_block_stop" => f.index \in OpenedIn(b.out) \ ClosedIn(b.out)
    BY <1>1 DEF Sound
  <2> QED
    BY <1>1, <2>1, AppendFrame
<1>3. OpenedIn(t) = 0 .. (c.nextIndex - 1)
  <2>1. OpenedIn(b.out) = 0 .. (b.nextIndex - 1)
    BY DEF Sound
  <2>2. 0 .. (b.nextIndex - 1) \cup {b.nextIndex} = 0 .. (b.nextIndex + 1 - 1)
    BY <1>1
  <2>3. CASE f.type = "content_block_start"
    BY <1>2, <2>1, <2>2, <2>3
  <2>4. CASE f.type # "content_block_start"
    BY <1>2, <2>1, <2>4
  <2> QED
    BY <2>3, <2>4
<1>4. Sound(c)
  BY <1>2, <1>3 DEF Sound
<1>5. /\ Len(t) = Len(b.out) + 1 /\ \A k \in 1 .. Len(b.out) : t[k] = b.out[k]
      /\ t[Len(b.out) + 1] = f /\ Len(b.out) \in Nat
  BY <1>1
<1>6. Continues(b, c)
  BY <1>1, <1>4, <1>5 DEF Continues
<1>7. \A k \in (Len(b.out) + 1) .. Len(t) : t[k] = f
  BY <1>5
<1> HIDE DEF t
<1> QED
  BY <1>5, <1>6, <1>7 DEF Follows, Adds

LEMMA FrameFacts ==
    ASSUME NEW i \in Nat, NEW what \in Details, NEW item \in Owners
    PROVE  /\ BlockStart(i, what, item) \in Frame
           /\ BlockDelta(i, what, item) \in Frame
           /\ BlockStop(i) \in Frame
           /\ \A type \in {"message_start", "message_delta", "message_stop", "error"} :
                 MessageFrame(type, what) \in Frame
<1>1. Absent \in Index /\ i \in Index /\ NoItem \in Owners
  BY DEF Index, Owners, ItemIds
<1>6. "none" \in Details
  BY DEF Details
<1>2. BlockStart(i, what, item) \in Frame
  BY <1>1 DEF BlockStart, Frame
<1>3. BlockDelta(i, what, item) \in Frame
  BY <1>1 DEF BlockDelta, Frame
<1>4. BlockStop(i) \in Frame
  BY <1>1, <1>6 DEF BlockStop, Frame
<1>5. \A type \in {"message_start", "message_delta", "message_stop", "error"} :
        MessageFrame(type, what) \in Frame
  BY <1>1 DEF MessageFrame, Frame
<1> QED
  BY <1>2, <1>3, <1>4, <1>5

LEMMA SendDelta ==
    ASSUME NEW b, Sound(b), NEW i \in 0 .. (b.nextIndex - 1), NEW what \in Details,
           NEW item \in Owners
    PROVE  Follows(b, sendEvent(b, BlockDelta(i, what, item)))
<1> DEFINE f == BlockDelta(i, what, item)
           c == sendEvent(b, f)
<1>1. b \in Bridge /\ IndicesBounded(b)
  BY DEF Sound
<1>2. f \in Frame /\ f.type = "content_block_delta" /\ f.index = i
  BY <1>1, FrameFacts DEF BlockDelta, Bridge
<1> HIDE DEF f
<1>a. Append(b.out, f) \in Seq(Frame)
  BY <1>1, <1>2 DEF Bridge
<1>3. c \in Bridge /\ c = [b EXCEPT !.out = Append(b.out, f)]
  BY <1>1, <1>a DEF sendEvent, Bridge
<1>4. IndicesBounded(c)
  BY <1>1, <1>3 DEF IndicesBounded, Bridge
<1>b. /\ Plain(f) /\ c.out = Append(b.out, f) /\ c.started = b.started
      /\ c.nextIndex = b.nextIndex /\ c.closedIndex = b.closedIndex
      /\ c.serverToolUseCount = b.serverToolUseCount /\ c.toolUsed = b.toolUsed
  BY <1>1, <1>2, <1>3 DEF Bridge, Plain, ToolStop
<1> HIDE DEF c
<1>5. Follows(b, c)
  BY <1>1, <1>2, <1>3, <1>4, <1>b, Extend DEF Bridge
<1> QED
  BY <1>5 DEF f, c

LEMMA Ensure ==
    ASSUME NEW b, Sound(b)
    PROVE  Follows(b, ensureMessageStart(b)) /\ ensureMessageStart(b).nextIndex = b.nextIndex
<1> DEFINE f == MessageFrame("message_start", "none")
           c == ensureMessageStart(b)
<1>1. b \in Bridge /\ IndicesBounded(b)
  BY DEF Sound
<1>2. CASE b.started
  BY <1>2, FollowsRefl DEF ensureMessageStart
<1>3. CASE ~ b.started
  <2>1. f \in Frame /\ f.type = "message_start"
    BY FrameFacts, NoItem \in Owners, 0 \in Nat, "none" \in Details DEF MessageFrame, Owners, ItemIds, Details
  <2> HIDE DEF f
  <2>a. Append(b.out, f) \in Seq(Frame)
    BY <1>1, <2>1 DEF Bridge
  <2>2. /\ c \in Bridge
        /\ c = [b EXCEPT !.out = Append(b.out, f), !.started = TRUE]
    BY <1>1, <1>3, <2>a DEF ensureMessageStart, sendEvent, Bridge, f
  <2>3. IndicesBounded(c)
    BY <1>1, <2>2 DEF IndicesBounded, Bridge
  <2>b. /\ Plain(f) /\ c.out = Append(b.out, f) /\ c.started = TRUE
        /\ c.nextIndex = b.nextIndex /\ c.closedIndex = b.closedIndex
        /\ c.serverToolUseCount = b.serverToolUseCount /\ c.toolUsed = b.toolUsed
    BY <1>1, <2>1, <2>2 DEF Bridge, Plain, ToolStop
  <2> HIDE DEF c
  <2>4. Follows(b, c)
    BY <1>1, <1>3, <2>1, <2>2, <2>3, <2>b, Extend DEF Bridge
  <2> QED
    BY <2>4, <2>b DEF c
<1> QED
  BY <1>2, <1>3

LEMMA OpenBlock ==
    ASSUME NEW b, Sound(b), NEW what \in Details, NEW item \in Owners
    PROVE  /\ Continues(b, openBlock(b, what, item))
           /\ what # "server_tool_use" => Follows(b, openBlock(b, what, item))
           /\ openBlock(b, what, item).nextIndex = b.nextIndex + 1
           /\ openBlock(b, what, item).closedIndex = b.closedIndex
           /\ openBlock(b, what, item).serverToolUseCount = b.serverToolUseCount
           /\ openBlock(b, what, item).toolUsed = b.toolUsed
           /\ openBlock(b, what, item).out = Append(b.out, BlockStart(b.nextIndex, what, item))
           /\ Len(b.out) + 1 \in Starts(openBlock(b, what, item).out, what)
<1> DEFINE f == BlockStart(b.nextIndex, what, item)
           c == openBlock(b, what, item)
<1>1. b \in Bridge /\ IndicesBounded(b) /\ b.nextIndex \in Nat
  BY DEF Sound, Bridge
<1>2. f \in Frame /\ f.type = "content_block_start" /\ f.index = b.nextIndex /\ f.what = what
  BY <1>1, FrameFacts DEF BlockStart
<1> HIDE DEF f
<1>a. Append(b.out, f) \in Seq(Frame)
  BY <1>1, <1>2 DEF Bridge
<1>3. /\ c \in Bridge
      /\ c = [b EXCEPT !.out = Append(b.out, f), !.nextIndex = b.nextIndex + 1]
  BY <1>1, <1>a, b.nextIndex + 1 \in Nat DEF openBlock, sendEvent, Bridge, f
<1>4. IndicesBounded(c)
  <2>1. /\ c.nextIndex = b.nextIndex + 1
        /\ c.textIndexByKey = b.textIndexByKey /\ c.thinkingIndex = b.thinkingIndex
        /\ c.toolIndexByItemID = b.toolIndexByItemID
        /\ c.toolIndexByOutput = b.toolIndexByOutput
    BY <1>1, <1>3 DEF Bridge
  <2>2. /\ \A k \in Keys    : b.textIndexByKey[k] \in Int
        /\ \A x \in ItemIds : b.toolIndexByItemID[x] \in Int
        /\ \A o \in Outputs : b.toolIndexByOutput[o] \in Int
        /\ b.thinkingIndex \in Int
    BY <1>1 DEF Bridge, Index, Absent
  <2> HIDE DEF c
  <2> QED
    BY <1>1, <2>1, <2>2 DEF IndicesBounded
<1>b. /\ c.out = Append(b.out, f) /\ c.started = b.started
      /\ c.nextIndex = b.nextIndex + 1 /\ c.closedIndex = b.closedIndex
      /\ c.serverToolUseCount = b.serverToolUseCount /\ c.toolUsed = b.toolUsed
      /\ b.closedIndex \in SUBSET Nat /\ b.started \in BOOLEAN
  BY <1>1, <1>3 DEF Bridge
<1>c. what # "server_tool_use" => Plain(f)
  BY <1>2 DEF Plain, ToolStop
<1>d. Len(b.out) + 1 \in Starts(Append(b.out, f), what)
  <2>1. b.out \in Seq(Frame)
    BY <1>1 DEF Bridge
  <2> QED
    BY <2>1, <1>2 DEF Starts
<1> HIDE DEF c
<1>5. Continues(b, c) /\ (what # "server_tool_use" => Follows(b, c))
  BY <1>1, <1>2, <1>3, <1>4, <1>b, <1>c, Extend DEF Bridge
<1> QED
  BY <1>5, <1>b, <1>d DEF c, f

LEMMA CloseBlock ==
    ASSUME NEW b, Sound(b), NEW i \in 0 .. (b.nextIndex - 1)
    PROVE  /\ Follows(b, closeContentBlock(b, i))
           /\ closeContentBlock(b, i).nextIndex = b.nextIndex
<1> DEFINE f == BlockStop(i)
           c == closeContentBlock(b, i)
<1>1. b \in Bridge /\ IndicesBounded(b) /\ b.nextIndex \in Nat /\ i \in Nat
  BY DEF Sound, Bridge
<1>2. CASE i \in b.closedIndex
  BY <1>2, FollowsRefl DEF closeContentBlock
<1>3. CASE i \notin b.closedIndex
  <2>1. f \in Frame /\ f.type = "content_block_stop" /\ f.index = i
    BY <1>1, FrameFacts, NoItem \in Owners, "none" \in Details DEF BlockStop, Owners, ItemIds, Details
  <2>a. Append(b.out, f) \in Seq(Frame)
    BY <1>1, <2>1 DEF Bridge
  <2>2. /\ c \in Bridge
        /\ c = [b EXCEPT !.out = Append(b.out, f), !.closedIndex = b.closedIndex \cup {i}]
    BY <1>1, <1>3, <2>a DEF closeContentBlock, sendEvent, Bridge
  <2> HIDE DEF f
  <2>3. IndicesBounded(c)
    BY <1>1, <2>2 DEF IndicesBounded, Bridge
  <2>b. /\ Plain(f) /\ c.out = Append(b.out, f) /\ c.started = b.started
        /\ c.nextIndex = b.nextIndex /\ c.closedIndex = b.closedIndex \cup {i}
        /\ c.serverToolUseCount = b.serverToolUseCount /\ c.toolUsed = b.toolUsed
        /\ b.started \in BOOLEAN
    BY <1>1, <2>1, <2>2 DEF Bridge, Plain, ToolStop
  <2> HIDE DEF c
  <2>4. Follows(b, c)
    BY <1>1, <1>3, <2>1, <2>2, <2>3, <2>b, Extend DEF Bridge
  <2> QED
    BY <2>4, <2>b DEF c
<1> QED
  BY <1>2, <1>3

LEMMA EmitFullContentBlock ==
    ASSUME NEW b, Sound(b), NEW what \in Details \ {"server_tool_use"}, NEW item \in Owners
    PROVE  /\ Follows(b, emitFullContentBlock(b, what, item))
           /\ what = "tool_use" => ToolIn(emitFullContentBlock(b, what, item).out)
<1> DEFINE e == ensureMessageStart(b)
           o == openBlock(e, what, item)
           c == closeContentBlock(o, e.nextIndex)
<1>1. Follows(b, e)
  BY Ensure
<1>2. Follows(e, o) /\ o.nextIndex = e.nextIndex + 1 /\ (what = "tool_use" => ToolIn(o.out))
  BY <1>1, OpenBlock DEF Follows, Continues, ToolIn
<1>3. Follows(o, c) /\ Sound(o)
  <2>1. e.nextIndex \in 0 .. (o.nextIndex - 1) /\ Sound(o)
    BY <1>1, <1>2, SoundTypes DEF Follows, Continues
  <2> QED
    BY <2>1, CloseBlock
<1>4. Follows(b, c)
  BY <1>1, <1>2, <1>3, FollowsTrans
<1>5. ToolIn(o.out) => ToolIn(c.out)
  BY <1>3, StartsKept DEF Follows, Continues
<1> QED
  BY <1>2, <1>4, <1>5 DEF emitFullContentBlock

LEMMA EmitBlocks ==
    ASSUME NEW b, Sound(b), NEW n \in 0 .. MaxBlocks,
           NEW what \in Details \ {"server_tool_use"}, NEW item \in Owners
    PROVE  Follows(b, emitBlocks(b, n, what, item))
<1> DEFINE c == emitFullContentBlock(b, what, item)
           d == emitFullContentBlock(c, what, item)
<1>1. Follows(b, c)
  BY EmitFullContentBlock
<1>2. Follows(c, d)
  BY <1>1, EmitFullContentBlock DEF Follows, Continues
<1>3. Follows(b, d)
  BY <1>1, <1>2, FollowsTrans
<1>4. n \in {0, 1, 2}
  BY DEF MaxBlocks
<1>5. n = 0 => emitBlocks(b, n, what, item) = b
  BY DEF emitBlocks
<1>6. n = 1 => emitBlocks(b, n, what, item) = c
  BY DEF emitBlocks
<1>7. n = 2 => emitBlocks(b, n, what, item) = d
  BY DEF emitBlocks
<1> QED
  BY <1>1, <1>3, <1>4, <1>5, <1>6, <1>7, FollowsRefl

LEMMA CloseThinkingBlock ==
    ASSUME NEW b, Sound(b), thinkingStarted(b)
    PROVE  Follows(b, closeThinkingBlock(b))
<1> DEFINE i == b.thinkingIndex
           d == sendEvent(b, BlockDelta(i, "signature_delta", NoItem))
           c == closeContentBlock(d, i)
<1>1. i \in 0 .. (b.nextIndex - 1)
  BY SoundTypes DEF Sound, IndicesBounded, thinkingStarted, Absent
<1>2. Follows(b, d)
  BY <1>1, SendDelta DEF Details, Owners, ItemIds
<1>3. Follows(d, c)
  <2>1. Sound(d) /\ i \in 0 .. (d.nextIndex - 1)
    BY <1>1, <1>2, SoundTypes DEF Follows, Continues
  <2> QED
    BY <2>1, CloseBlock
<1>4. Follows(b, c)
  BY <1>2, <1>3, FollowsTrans
<1> QED
  BY <1>4, FollowsRefl DEF closeThinkingBlock

LEMMA StartThinkingBlock ==
    ASSUME NEW b, Sound(b), NEW item \in Owners
    PROVE  /\ Follows(b, startThinkingBlock(b, item))
           /\ startThinkingBlock(b, item).thinkingIndex
                 \in 0 .. (startThinkingBlock(b, item).nextIndex - 1)
<1> DEFINE o == openBlock(b, "thinking", item)
           c == startThinkingBlock(b, item)
<1>1. Follows(b, o) /\ o.nextIndex = b.nextIndex + 1 /\ Sound(o) /\ o \in Bridge
      /\ b.nextIndex \in Nat
  BY OpenBlock, SoundTypes DEF Details, Follows, Continues
<1> HIDE DEF o
<1>2. c \in Bridge /\ c = [o EXCEPT !.thinkingIndex = b.nextIndex]
  BY <1>1 DEF startThinkingBlock, Bridge, Index, o
<1>3. /\ c.out = o.out /\ c.started = o.started /\ c.nextIndex = o.nextIndex
      /\ c.closedIndex = o.closedIndex /\ c.textIndexByKey = o.textIndexByKey
      /\ c.toolIndexByItemID = o.toolIndexByItemID
      /\ c.toolIndexByOutput = o.toolIndexByOutput
      /\ c.thinkingIndex = b.nextIndex
      /\ c.serverToolUseCount = o.serverToolUseCount /\ c.toolUsed = o.toolUsed
  BY <1>1, <1>2 DEF Bridge
<1> HIDE DEF c
<1>4. IndicesBounded(c)
  BY <1>1, <1>3 DEF IndicesBounded, Sound
<1>5. Follows(o, c)
  BY <1>1, <1>2, <1>3, <1>4, BlocksUntouched
<1>6. Follows(b, c)
  BY <1>1, <1>5, FollowsTrans
<1> QED
  BY <1>1, <1>3, <1>6 DEF c

LEMMA OpenToolBlock ==
    ASSUME NEW b, Sound(b), NEW item \in ItemIds, NEW out \in Outputs
    PROVE  Follows(b, openToolBlock(b, item, out))
<1> DEFINE o == openBlock(b, "tool_use", item)
           c == openToolBlock(b, item, out)
<1>1. Follows(b, o) /\ o.nextIndex = b.nextIndex + 1 /\ Sound(o) /\ o \in Bridge
      /\ b.nextIndex \in Nat /\ ToolIn(o.out)
  BY OpenBlock, SoundTypes DEF Details, Follows, Continues, Owners, ToolIn
<1> HIDE DEF o
<1> DEFINE byItem   == [o.toolIndexByItemID EXCEPT ![item] = b.nextIndex]
           byOutput == [o.toolIndexByOutput EXCEPT ![out] = b.nextIndex]
<1>2. /\ o.toolIndexByItemID \in [ItemIds -> Index]
      /\ o.toolIndexByOutput \in [Outputs -> Index]
  BY <1>1 DEF Bridge
<1>3. byItem \in [ItemIds -> Index] /\ byOutput \in [Outputs -> Index]
  BY <1>1, <1>2 DEF Index
<1>4. /\ c \in Bridge
      /\ c.out = o.out /\ c.started = o.started /\ c.nextIndex = o.nextIndex
      /\ c.closedIndex = o.closedIndex /\ c.textIndexByKey = o.textIndexByKey
      /\ c.thinkingIndex = o.thinkingIndex
      /\ c.toolIndexByItemID = byItem /\ c.toolIndexByOutput = byOutput
      /\ c.serverToolUseCount = o.serverToolUseCount
  <2>1. c = [o EXCEPT !.toolIndexByItemID = byItem, !.toolIndexByOutput = byOutput,
                      !.toolUsed = TRUE]
    BY <1>1 DEF openToolBlock, o, Bridge
  <2> HIDE DEF c, byItem, byOutput
  <2> QED
    BY <1>1, <1>3, <2>1 DEF Bridge
<1> HIDE DEF c
<1>5. IndicesBounded(c)
  BY <1>1, <1>2, <1>4 DEF IndicesBounded, Sound
<1>6. Follows(o, c)
  BY <1>1, <1>4, <1>5, BlocksUntouched
<1>7. Follows(b, c)
  BY <1>1, <1>6, FollowsTrans
<1> QED
  BY <1>7 DEF c

LEMMA EnsureTextBlock ==
    ASSUME NEW b, Sound(b), NEW key \in Keys, NEW what \in {"text", "refusal"}
    PROVE  /\ Follows(b, ensureTextBlock(b, key, what))
           /\ ensureTextBlock(b, key, what).textIndexByKey[key]
                 \in 0 .. (ensureTextBlock(b, key, what).nextIndex - 1)
<1> DEFINE o == openBlock(b, what, key[1])
           c == ensureTextBlock(b, key, what)
<1>1. CASE b.textIndexByKey[key] # Absent
  BY <1>1, FollowsRefl, SoundTypes DEF ensureTextBlock, Sound, IndicesBounded, Absent
<1>2. CASE b.textIndexByKey[key] = Absent
  <2>1. Follows(b, o) /\ o.nextIndex = b.nextIndex + 1 /\ Sound(o) /\ o \in Bridge
        /\ b.nextIndex \in Nat
    BY OpenBlock, SoundTypes DEF Follows, Continues, Keys, Details
  <2> HIDE DEF o
  <2> DEFINE byKey == [o.textIndexByKey EXCEPT ![key] = b.nextIndex]
  <2>2. o.textIndexByKey \in [Keys -> Index] /\ byKey \in [Keys -> Index]
    BY <2>1 DEF Bridge, Index
  <2>3. c = [o EXCEPT !.textIndexByKey = byKey]
    BY <1>2, <2>1 DEF ensureTextBlock, o, Bridge
  <2> HIDE DEF c
  <2>4. /\ c \in Bridge
        /\ c.out = o.out /\ c.started = o.started /\ c.nextIndex = o.nextIndex
        /\ c.closedIndex = o.closedIndex /\ c.thinkingIndex = o.thinkingIndex
        /\ c.toolIndexByItemID = o.toolIndexByItemID
        /\ c.toolIndexByOutput = o.toolIndexByOutput
        /\ c.textIndexByKey = byKey
        /\ c.serverToolUseCount = o.serverToolUseCount /\ c.toolUsed = o.toolUsed
    <3> HIDE DEF byKey
    <3> QED
      BY <2>1, <2>2, <2>3 DEF Bridge
  <2>5. IndicesBounded(c)
    BY <2>1, <2>2, <2>4 DEF IndicesBounded, Sound
  <2>6. Follows(o, c)
    BY <2>1, <2>4, <2>5, BlocksUntouched
  <2>7. Follows(b, c)
    BY <2>1, <2>6, FollowsTrans
  <2> QED
    BY <2>1, <2>2, <2>4, <2>7 DEF c
<1> QED
  BY <1>1, <1>2

LEMMA TextDelta ==
    ASSUME NEW b, Sound(b), NEW key \in Keys, NEW what \in Details,
           b.textIndexByKey[key] # Absent
    PROVE  Follows(b, sendEvent(b, BlockDelta(b.textIndexByKey[key], what, key[1])))
<1>1. b.textIndexByKey[key] \in 0 .. (b.nextIndex - 1)
  BY SoundTypes DEF Sound, IndicesBounded, Absent
<1> QED
  BY <1>1, SendDelta DEF Keys

\* toolUsed is set before the block it stands for is started.
LEMMA EmitFunctionLikeToolUseFromDone ==
    ASSUME NEW b, Sound(b), NEW item \in ItemIds, NEW n \in 0 .. 1
    PROVE  Follows(b, emitFunctionLikeToolUseFromDone(b, item, n))
<1> DEFINE u == [b EXCEPT !.toolUsed = TRUE]
           c == emitFullContentBlock(u, "tool_use", item)
           d == emitBlocks(c, n, "tool_result", item)
<1>1. /\ Continues(b, u) /\ Sound(u) /\ u.out = b.out
      /\ u.serverToolUseCount = b.serverToolUseCount
  <2>1. /\ u \in Bridge
        /\ u.out = b.out /\ u.started = b.started /\ u.nextIndex = b.nextIndex
        /\ u.closedIndex = b.closedIndex /\ u.textIndexByKey = b.textIndexByKey
        /\ u.thinkingIndex = b.thinkingIndex
        /\ u.toolIndexByItemID = b.toolIndexByItemID
        /\ u.toolIndexByOutput = b.toolIndexByOutput
        /\ u.serverToolUseCount = b.serverToolUseCount
    <3>1. b \in Bridge
      BY SoundTypes
    <3> QED
      BY <3>1 DEF Bridge
  <2> HIDE DEF u
  <2>2. IndicesBounded(u)
    BY <2>1 DEF Sound, IndicesBounded
  <2> QED
    BY <2>1, <2>2, BlocksUntouched DEF Continues
<1> HIDE DEF u
<1>2. Follows(u, c) /\ Sound(c) /\ ToolIn(c.out)
  <2>1. "tool_use" \in Details \ {"server_tool_use"} /\ item \in Owners
    BY DEF Details, Owners
  <2>2. Follows(u, c) /\ ToolIn(c.out)
    BY <1>1, <2>1, EmitFullContentBlock
  <2> QED
    BY <2>2 DEF Follows, Continues
<1> HIDE DEF c
<1>3. Follows(c, d) /\ Sound(d)
  BY <1>2, EmitBlocks DEF Follows, Continues, Details, Owners, MaxBlocks
<1> HIDE DEF d
<1>4. Follows(u, d)
  BY <1>1, <1>2, <1>3, FollowsTrans
<1>5. Continues(b, d)
  BY <1>1, <1>4, ContinuesTrans DEF Follows
<1>6. ToolIn(d.out)
  BY <1>2, <1>3, StartsKept DEF Follows, Continues
<1>7. Follows(b, d)
  BY <1>1, <1>4, <1>5, <1>6 DEF Follows, Adds, Continues
<1> QED
  BY <1>7 DEF emitFunctionLikeToolUseFromDone, c, u, d

\* Plain frames leave the account as it is.
LEMMA AddsKeepsAccount ==
    ASSUME NEW b, NEW c, Adds(b, c), Accounted(b),
           b.out \in Seq(Frame), c.out \in Seq(Frame)
    PROVE  Accounted(c)
<1>1. /\ Len(b.out) \in Nat /\ Len(c.out) \in Nat /\ Len(b.out) <= Len(c.out)
      /\ \A k \in 1 .. Len(b.out) : c.out[k] = b.out[k]
      /\ \A k \in 1 .. Len(c.out) : k \in 1 .. Len(b.out) \/ Plain(c.out[k])
  BY DEF Adds
<1>2. \A what : Starts(b.out, what) \subseteq Starts(c.out, what)
  BY <1>1 DEF Starts
<1>3. Starts(c.out, "server_tool_use") = Starts(b.out, "server_tool_use")
  <2>1. Starts(c.out, "server_tool_use") \subseteq Starts(b.out, "server_tool_use")
    BY <1>1 DEF Starts, Plain
  <2> QED
    BY <2>1, <1>2
<1>4. c.toolUsed => ToolIn(c.out)
  BY <1>2 DEF Adds, Accounted, ToolIn
<1>5. \A k \in 1 .. Len(c.out) : ToolStop(c.out[k]) => \E j \in Starts(c.out, "tool_use") : j < k
  <2> SUFFICES ASSUME NEW k \in 1 .. Len(c.out), ToolStop(c.out[k])
               PROVE  \E j \in Starts(c.out, "tool_use") : j < k
    OBVIOUS
  <2>1. k \in 1 .. Len(b.out) /\ ToolStop(b.out[k])
    BY <1>1 DEF Plain
  <2> QED
    BY <2>1, <1>2 DEF Accounted
<1>6. \A k \in Starts(c.out, "server_tool_use") :
        \E r \in Starts(c.out, "web_search_tool_result") :
           c.out[r].index = c.out[k].index + 1 /\ c.out[r].item = c.out[k].item
  <2> SUFFICES ASSUME NEW k \in Starts(b.out, "server_tool_use")
               PROVE  \E r \in Starts(c.out, "web_search_tool_result") :
                         c.out[r].index = c.out[k].index + 1 /\ c.out[r].item = c.out[k].item
    BY <1>3
  <2>1. PICK r \in Starts(b.out, "web_search_tool_result") :
           b.out[r].index = b.out[k].index + 1 /\ b.out[r].item = b.out[k].item
    BY DEF Accounted
  <2>2. c.out[r] = b.out[r] /\ c.out[k] = b.out[k]
    BY <1>1 DEF Starts
  <2> QED
    BY <2>1, <2>2, <1>2
<1> QED
  BY <1>3, <1>4, <1>5, <1>6 DEF Accounted, Adds

\* A search is counted and answered in one go.
LEMMA HandleWebSearchDone ==
    ASSUME NEW b, Sound(b), NEW item \in ItemIds
    PROVE  /\ Continues(b, handleWebSearchDone(b, item))
           /\ Accounted(b) => Accounted(handleWebSearchDone(b, item))
<1> DEFINE u == [b EXCEPT !.webSearchEmitted = @ \cup {item}, !.serverToolUseCount = @ + 1]
           s == openBlock(u, "server_tool_use", item)
           d == sendEvent(s, BlockDelta(b.nextIndex, "input_json_delta", item))
           c == closeContentBlock(d, b.nextIndex)
           r == openBlock(c, "web_search_tool_result", item)
           e == closeContentBlock(r, c.nextIndex)
<1>1. /\ item \in Owners
      /\ {"server_tool_use", "input_json_delta", "web_search_tool_result"} \subseteq Details
  BY DEF Owners, Details
<1>2. /\ Continues(b, u) /\ Sound(u) /\ u.nextIndex = b.nextIndex /\ u.out = b.out
      /\ u.serverToolUseCount = b.serverToolUseCount + 1 /\ u.toolUsed = b.toolUsed
      /\ b.serverToolUseCount \in Nat
  <2>1. /\ u \in Bridge
        /\ u.out = b.out /\ u.started = b.started /\ u.nextIndex = b.nextIndex
        /\ u.closedIndex = b.closedIndex /\ u.textIndexByKey = b.textIndexByKey
        /\ u.thinkingIndex = b.thinkingIndex
        /\ u.toolIndexByItemID = b.toolIndexByItemID
        /\ u.toolIndexByOutput = b.toolIndexByOutput
        /\ u.serverToolUseCount = b.serverToolUseCount + 1 /\ u.toolUsed = b.toolUsed
        /\ b.serverToolUseCount \in Nat
    <3>1. b \in Bridge
      BY SoundTypes
    <3>2. /\ b.webSearchEmitted \cup {item} \in SUBSET ItemIds
          /\ b.serverToolUseCount + 1 \in Nat /\ b.serverToolUseCount \in Nat
      BY <3>1 DEF Bridge
    <3> QED
      BY <3>1, <3>2 DEF Bridge
  <2> HIDE DEF u
  <2>2. IndicesBounded(u)
    BY <2>1 DEF Sound, IndicesBounded
  <2> QED
    BY <2>1, <2>2, BlocksUntouched DEF Continues
<1> HIDE DEF u
<1>3. /\ Continues(u, s) /\ Sound(s) /\ s.nextIndex = b.nextIndex + 1
      /\ s.out = Append(b.out, BlockStart(b.nextIndex, "server_tool_use", item))
      /\ s.serverToolUseCount = b.serverToolUseCount + 1 /\ s.toolUsed = b.toolUsed
  <2>1. /\ Continues(u, s) /\ s.nextIndex = u.nextIndex + 1
        /\ s.out = Append(u.out, BlockStart(u.nextIndex, "server_tool_use", item))
        /\ s.serverToolUseCount = u.serverToolUseCount /\ s.toolUsed = u.toolUsed
    BY <1>1, <1>2, OpenBlock
  <2> HIDE DEF s
  <2> QED
    BY <1>2, <2>1 DEF Continues
<1> HIDE DEF s
<1>4. b.nextIndex \in 0 .. (s.nextIndex - 1)
  BY <1>3, SoundTypes
<1>5. Follows(s, d) /\ Sound(d) /\ d.nextIndex = s.nextIndex
  <2>1. Follows(s, d)
    BY <1>1, <1>3, <1>4, SendDelta
  <2>2. d.nextIndex = s.nextIndex
    BY <1>3 DEF sendEvent, Sound, Bridge
  <2> QED
    BY <2>1, <2>2 DEF Follows, Continues
<1> HIDE DEF d
<1>6. b.nextIndex \in 0 .. (d.nextIndex - 1)
  BY <1>3, <1>4, <1>5
<1>7. Follows(d, c) /\ Sound(c) /\ c.nextIndex = b.nextIndex + 1
  BY <1>3, <1>5, <1>6, CloseBlock DEF Follows, Continues
<1> HIDE DEF c
<1>8. /\ Follows(c, r) /\ Sound(r) /\ c.nextIndex \in 0 .. (r.nextIndex - 1)
      /\ r.out = Append(c.out, BlockStart(c.nextIndex, "web_search_tool_result", item))
      /\ Len(c.out) + 1 \in Starts(r.out, "web_search_tool_result")
  BY <1>1, <1>7, OpenBlock, SoundTypes DEF Follows, Continues
<1> HIDE DEF r
<1>9. Follows(r, e) /\ Sound(e)
  BY <1>8, CloseBlock DEF Follows, Continues
<1> HIDE DEF e
<1>10. Follows(s, e)
  <2>1. Follows(s, c)
    BY <1>3, <1>5, <1>7, FollowsTrans
  <2>2. Follows(c, e)
    BY <1>7, <1>8, <1>9, FollowsTrans
  <2> QED
    BY <2>1, <2>2, <1>3, FollowsTrans
<1>11. Continues(b, s) /\ Continues(b, e)
  <2>1. Continues(b, s)
    BY <1>2, <1>3, ContinuesTrans
  <2> QED
    BY <2>1, <1>10, ContinuesTrans DEF Follows
<1>12. ASSUME Accounted(b)
       PROVE  Accounted(e)
  <2>1. /\ b.out \in Seq(Frame) /\ s.out \in Seq(Frame) /\ c.out \in Seq(Frame)
        /\ r.out \in Seq(Frame) /\ e.out \in Seq(Frame) /\ b.nextIndex \in Nat
    BY <1>3, <1>7, <1>8, <1>9, SoundTypes
  <2>2. /\ Len(b.out) \in Nat /\ Len(s.out) = Len(b.out) + 1 /\ Len(e.out) \in Nat
        /\ \A k \in 1 .. Len(b.out) : s.out[k] = b.out[k]
        /\ s.out[Len(b.out) + 1] = BlockStart(b.nextIndex, "server_tool_use", item)
    BY <1>3, <2>1
  <2>3. /\ Len(b.out) <= Len(e.out) /\ Len(s.out) <= Len(e.out)
        /\ \A k \in 1 .. Len(s.out) : e.out[k] = s.out[k]
        /\ \A k \in 1 .. Len(b.out) : e.out[k] = b.out[k]
        /\ \A k \in (Len(s.out) + 1) .. Len(e.out) : Plain(e.out[k])
        /\ e.serverToolUseCount = b.serverToolUseCount + 1
        /\ e.toolUsed => b.toolUsed \/ ToolIn(e.out)
    BY <1>3, <1>10, <2>2 DEF Follows, Adds
  <2>4. \A what : Starts(b.out, what) \subseteq Starts(e.out, what)
    BY <2>2, <2>3 DEF Starts
  <2>5. e.out[Len(b.out) + 1] = BlockStart(b.nextIndex, "server_tool_use", item)
    BY <2>2, <2>3
  <2>6. \A k \in 1 .. Len(e.out) : k \in 1 .. Len(b.out) \/ k = Len(b.out) + 1 \/ Plain(e.out[k])
    BY <2>2, <2>3
  <2>7. /\ Starts(e.out, "server_tool_use")
             = Starts(b.out, "server_tool_use") \cup {Len(b.out) + 1}
        /\ Len(b.out) + 1 \notin Starts(b.out, "server_tool_use")
    <3>1. Len(b.out) + 1 \in Starts(e.out, "server_tool_use")
      BY <2>2, <2>3, <2>5 DEF Starts, BlockStart
    <3>2. Starts(e.out, "server_tool_use")
            \subseteq Starts(b.out, "server_tool_use") \cup {Len(b.out) + 1}
      BY <2>3, <2>6 DEF Starts, Plain
    <3>3. Len(b.out) + 1 \notin Starts(b.out, "server_tool_use")
      BY <2>2 DEF Starts
    <3> QED
      BY <3>1, <3>2, <3>3, <2>4
  <2>8. Cardinality(Starts(e.out, "server_tool_use")) = e.serverToolUseCount
    <3>1. IsFiniteSet(Starts(b.out, "server_tool_use"))
      <4>1. IsFiniteSet(1 .. Len(b.out))
        BY <2>2, FS_Interval
      <4> QED
        BY <4>1, FS_Subset DEF Starts
    <3>2. Cardinality(Starts(e.out, "server_tool_use"))
            = Cardinality(Starts(b.out, "server_tool_use")) + 1
      BY <3>1, <2>7, FS_AddElement
    <3> QED
      BY <3>2, <2>3, <1>12 DEF Accounted
  <2>9. /\ Len(c.out) + 1 \in Starts(e.out, "web_search_tool_result")
        /\ e.out[Len(c.out) + 1] = BlockStart(b.nextIndex + 1, "web_search_tool_result", item)
    <3>1. r.out[Len(c.out) + 1] = BlockStart(b.nextIndex + 1, "web_search_tool_result", item)
      BY <1>7, <1>8, <2>1
    <3>2. Len(c.out) + 1 \in 1 .. Len(r.out) /\ e.out[Len(c.out) + 1] = r.out[Len(c.out) + 1]
      BY <1>8, <1>9 DEF Starts, Follows, Continues
    <3>3. Len(c.out) + 1 \in Starts(e.out, "web_search_tool_result")
      BY <1>8, <1>9, StartsKept DEF Follows, Continues
    <3> QED
      BY <3>1, <3>2, <3>3
  <2>10. \A k \in Starts(e.out, "server_tool_use") :
           \E q \in Starts(e.out, "web_search_tool_result") :
              e.out[q].index = e.out[k].index + 1 /\ e.out[q].item = e.out[k].item
    <3> SUFFICES ASSUME NEW k \in Starts(b.out, "server_tool_use") \cup {Len(b.out) + 1}
                 PROVE  \E q \in Starts(e.out, "web_search_tool_result") :
                           e.out[q].index = e.out[k].index + 1 /\ e.out[q].item = e.out[k].item
      BY <2>7
    <3>1. CASE k = Len(b.out) + 1
      BY <3>1, <2>5, <2>9 DEF BlockStart
    <3>2. CASE k \in Starts(b.out, "server_tool_use")
      <4>1. PICK q \in Starts(b.out, "web_search_tool_result") :
               b.out[q].index = b.out[k].index + 1 /\ b.out[q].item = b.out[k].item
        BY <3>2, <1>12 DEF Accounted
      <4>2. e.out[q] = b.out[q] /\ e.out[k] = b.out[k]
        BY <3>2, <2>3 DEF Starts
      <4> QED
        BY <4>1, <4>2, <2>4
    <3> QED
      BY <3>1, <3>2
  <2>11. e.toolUsed => ToolIn(e.out)
    BY <1>12, <2>3, <2>4 DEF Accounted, ToolIn
  <2>12. \A k \in 1 .. Len(e.out) :
           ToolStop(e.out[k]) => \E j \in Starts(e.out, "tool_use") : j < k
    <3> SUFFICES ASSUME NEW k \in 1 .. Len(e.out), ToolStop(e.out[k])
                 PROVE  \E j \in Starts(e.out, "tool_use") : j < k
      OBVIOUS
    <3>1. k \in 1 .. Len(b.out) /\ ToolStop(b.out[k])
      BY <2>3, <2>5, <2>6 DEF Plain, ToolStop, BlockStart
    <3> QED
      BY <3>1, <1>12, <2>4 DEF Accounted
  <2> QED
    BY <2>8, <2>10, <2>11, <2>12 DEF Accounted
<1>13. item \notin b.webSearchEmitted => handleWebSearchDone(b, item) = e
  BY DEF handleWebSearchDone, u, s, d, c, r, e
<1>14. item \in b.webSearchEmitted => handleWebSearchDone(b, item) = b
  BY DEF handleWebSearchDone
<1> QED
  BY <1>11, <1>12, <1>13, <1>14, FollowsRefl DEF Follows

LEMMA ConcatFacts ==
    ASSUME NEW s \in Seq(Frame), NEW u \in Seq(Frame)
    PROVE  /\ s \o u \in Seq(Frame) /\ Len(s \o u) = Len(s) + Len(u)
           /\ \A k \in 1 .. Len(s) : (s \o u)[k] = s[k]
           /\ \A k \in 1 .. Len(u) : (s \o u)[Len(s) + k] = u[k]
  OBVIOUS

\* The sequence t is s, of n frames, followed by the stops of m open blocks in
\* ascending order.
StopsAppended(s, n, order, m, t) ==
    /\ s \in Seq(Frame) /\ WellFormed(s) /\ NoneIn(s, "error")
    /\ n \in Nat /\ n = Len(s) /\ m \in Nat
    /\ order \in [1 .. m -> Nat]
    /\ \A j, k \in 1 .. m : j < k => order[j] < order[k]
    /\ \A k \in 1 .. m : order[k] \in OpenedIn(s) \ ClosedIn(s)
    /\ t \in Seq(Frame) /\ Len(t) = n + m
    /\ \A k \in 1 .. n : t[k] = s[k]
    /\ \A k \in 1 .. m : /\ t[n + k].type = "content_block_stop"
                         /\ t[n + k].index = order[k]

LEMMA AppendStops ==
    ASSUME NEW s, NEW n, NEW order, NEW m, NEW t, StopsAppended(s, n, order, m, t)
    PROVE  /\ WellFormed(t)
           /\ OpenedIn(t) = OpenedIn(s)
           /\ ClosedIn(t) = ClosedIn(s) \cup {order[j] : j \in 1 .. m}
           /\ \A type : NoneIn(s, type) /\ type # "content_block_stop" => NoneIn(t, type)
<1> SUFFICES ASSUME s \in Seq(Frame), WellFormed(s), NoneIn(s, "error"),
                    n \in Nat, n = Len(s), m \in Nat,
                    order \in [1 .. m -> Nat],
                    \A j, k \in 1 .. m : j < k => order[j] < order[k],
                    \A k \in 1 .. m : order[k] \in OpenedIn(s) \ ClosedIn(s),
                    t \in Seq(Frame), Len(t) = n + m,
                    \A k \in 1 .. n : t[k] = s[k],
                    \A k \in 1 .. m : /\ t[n + k].type = "content_block_stop"
                                      /\ t[n + k].index = order[k]
             PROVE  /\ WellFormed(t)
                    /\ OpenedIn(t) = OpenedIn(s)
                    /\ ClosedIn(t) = ClosedIn(s) \cup {order[j] : j \in 1 .. m}
                    /\ \A type : NoneIn(s, type) /\ type # "content_block_stop" => NoneIn(t, type)
  BY DEF StopsAppended
<1>1. \A k \in 1 .. n : FrameOK(t, k)
  <2> SUFFICES ASSUME NEW k \in 1 .. n
               PROVE  FrameOK(t, k)
    OBVIOUS
  <2>1. FrameOK(s, k)
    BY DEF WellFormed
  <2>2. /\ OpenedBefore(t, k) = OpenedBefore(s, k)
        /\ ClosedBefore(t, k) = ClosedBefore(s, k)
        /\ \A type : NoneBefore(t, k, type) <=> NoneBefore(s, k, type)
    <3>1. \A i \in 1 .. (k - 1) : t[i] = s[i]
      OBVIOUS
    <3> QED
      BY <3>1 DEF OpenedBefore, ClosedBefore, NoneBefore
  <2> QED
    BY <2>1, <2>2 DEF FrameOK
<1>2. ASSUME NEW l \in 0 .. m
      PROVE  /\ OpenedBefore(t, n + l + 1) = OpenedIn(s)
             /\ ClosedBefore(t, n + l + 1) = ClosedIn(s) \cup {order[j] : j \in 1 .. l}
             /\ \A type : NoneIn(s, type) /\ type # "content_block_stop"
                          => NoneBefore(t, n + l + 1, type)
  <2>1. /\ \A i \in 1 .. (n + l) : i \in 1 .. n \/ (\E j \in 1 .. l : i = n + j)
        /\ \A i \in 1 .. n : i \in 1 .. (n + l)
        /\ \A j \in 1 .. l : n + j \in 1 .. (n + l) /\ j \in 1 .. m
        /\ n + l + 1 - 1 = n + l /\ n + 1 - 1 = n
    <3>1. ASSUME NEW i \in 1 .. (n + l), i \notin 1 .. n
          PROVE  i - n \in 1 .. l /\ i = n + (i - n)
      BY <3>1
    <3> QED
      BY <3>1
  <2>a. /\ OpenedIn(s) = {s[i].index : i \in {k \in 1 .. n : s[k].type = "content_block_start"}}
        /\ ClosedIn(s) = {s[i].index : i \in {k \in 1 .. n : s[k].type = "content_block_stop"}}
        /\ \A type : NoneIn(s, type) => \A k \in 1 .. n : s[k].type # type
    BY <2>1 DEF OpenedIn, OpenedBefore, ClosedIn, ClosedBefore, NoneIn, NoneBefore
  <2>b. \A j \in 1 .. l : /\ t[n + j].type = "content_block_stop"
                          /\ t[n + j].index = order[j]
    BY <2>1
  <2>2. OpenedBefore(t, n + l + 1) = OpenedIn(s)
    <3>1. {i \in 1 .. (n + l) : t[i].type = "content_block_start"}
            = {i \in 1 .. n : s[i].type = "content_block_start"}
      <4> SUFFICES ASSUME NEW i \in 1 .. (n + l)
                   PROVE  t[i].type = "content_block_start"
                            <=> i \in 1 .. n /\ s[i].type = "content_block_start"
        BY <2>1
      <4>1. CASE i \in 1 .. n
        BY <4>1
      <4>2. CASE \E j \in 1 .. l : i = n + j
        BY <4>2, <2>b
      <4> QED
        BY <4>1, <4>2, <2>1
    <3>2. OpenedBefore(t, n + l + 1)
            = {t[i].index : i \in {k \in 1 .. n : s[k].type = "content_block_start"}}
      <4>1. OpenedBefore(t, n + l + 1)
              = {t[i].index : i \in {k \in 1 .. (n + l) : t[k].type = "content_block_start"}}
        BY <2>1 DEF OpenedBefore
      <4> QED
        BY <3>1, <4>1
    <3>3. \A i \in {k \in 1 .. n : s[k].type = "content_block_start"} : t[i].index = s[i].index
      OBVIOUS
    <3> QED
      BY <3>2, <3>3, <2>a
  <2>3. ClosedBefore(t, n + l + 1) = ClosedIn(s) \cup {order[j] : j \in 1 .. l}
    <3>1. ClosedBefore(t, n + l + 1)
            = {t[i].index : i \in {k \in 1 .. (n + l) : t[k].type = "content_block_stop"}}
      BY <2>1 DEF ClosedBefore
    <3>2. ASSUME NEW i \in 1 .. (n + l), t[i].type = "content_block_stop"
          PROVE  t[i].index \in ClosedIn(s) \cup {order[j] : j \in 1 .. l}
      <4>1. CASE i \in 1 .. n
        BY <4>1, <3>2, <2>a
      <4>2. CASE \E j \in 1 .. l : i = n + j
        BY <4>2, <2>b
      <4> QED
        BY <4>1, <4>2, <2>1
    <3>3. ASSUME NEW i \in 1 .. n, s[i].type = "content_block_stop"
          PROVE  i \in 1 .. (n + l) /\ t[i].type = "content_block_stop" /\ s[i].index = t[i].index
      BY <3>3, <2>1
    <3>4. ASSUME NEW j \in 1 .. l
          PROVE  /\ n + j \in 1 .. (n + l) /\ t[n + j].type = "content_block_stop"
                 /\ t[n + j].index = order[j]
      BY <2>1, <2>b
    <3>5. ClosedBefore(t, n + l + 1) \subseteq ClosedIn(s) \cup {order[j] : j \in 1 .. l}
      BY <3>1, <3>2
    <3>6. ClosedIn(s) \subseteq ClosedBefore(t, n + l + 1)
      BY <3>1, <3>3, <2>a
    <3>7. {order[j] : j \in 1 .. l} \subseteq ClosedBefore(t, n + l + 1)
      <4> SUFFICES ASSUME NEW j \in 1 .. l
                   PROVE  order[j] \in ClosedBefore(t, n + l + 1)
        OBVIOUS
      <4> QED
        BY <3>1, <3>4
    <3> QED
      BY <3>5, <3>6, <3>7
  <2>4. \A type : NoneIn(s, type) /\ type # "content_block_stop" => NoneBefore(t, n + l + 1, type)
    <3> SUFFICES ASSUME NEW type, NoneIn(s, type), type # "content_block_stop",
                        NEW i \in 1 .. (n + l)
                 PROVE  t[i].type # type
      BY <2>1 DEF NoneBefore
    <3>1. CASE i \in 1 .. n
      BY <3>1, <2>a
    <3>2. CASE \E j \in 1 .. l : i = n + j
      BY <3>2, <2>b
    <3> QED
      BY <3>1, <3>2, <2>1
  <2> QED
    BY <2>2, <2>3, <2>4
<1>3. ASSUME NEW l \in 1 .. m
      PROVE  FrameOK(t, n + l)
  <2>1. l - 1 \in 0 .. m /\ n + (l - 1) + 1 = n + l
    OBVIOUS
  <2>2. /\ OpenedBefore(t, n + l) = OpenedIn(s)
        /\ ClosedBefore(t, n + l) = ClosedIn(s) \cup {order[j] : j \in 1 .. (l - 1)}
        /\ NoneBefore(t, n + l, "error")
    BY <2>1, <1>2
  <2>3. order[l] \in OpenedIn(s) \ ClosedIn(s)
    OBVIOUS
  <2>4. \A j \in 1 .. (l - 1) : order[j] # order[l]
    <3>1. ASSUME NEW j \in 1 .. (l - 1)
          PROVE  order[j] # order[l]
      <4>1. j \in 1 .. m /\ j < l
        OBVIOUS
      <4>2. order[j] < order[l] /\ order[j] \in Nat /\ order[l] \in Nat
        BY <4>1
      <4> QED
        BY <4>2
    <3> QED
      BY <3>1
  <2> QED
    BY <2>2, <2>3, <2>4 DEF FrameOK
<1>4. WellFormed(t)
  <2> SUFFICES ASSUME NEW k \in 1 .. (n + m)
               PROVE  FrameOK(t, k)
    BY DEF WellFormed
  <2>1. k \in 1 .. n \/ (k - n \in 1 .. m /\ k = n + (k - n))
    OBVIOUS
  <2> QED
    BY <2>1, <1>1, <1>3
<1>5. m \in 0 .. m /\ n + m + 1 = Len(t) + 1
  OBVIOUS
<1>6. /\ OpenedBefore(t, n + m + 1) = OpenedIn(s)
      /\ ClosedBefore(t, n + m + 1) = ClosedIn(s) \cup {order[j] : j \in 1 .. m}
      /\ \A type : NoneIn(s, type) /\ type # "content_block_stop" => NoneBefore(t, n + m + 1, type)
  BY <1>2, <1>5
<1> QED
  BY <1>4, <1>5, <1>6 DEF OpenedIn, ClosedIn, NoneIn

\* The flush sends the stops of the open text blocks in ascending order.
LEMMA TextStops ==
    ASSUME NEW b, Sound(b), NEW order \in Ascending(OpenTextBlocks(b))
    PROVE  \E m \in Nat :
              LET t == closeTextBlocks(b, order).out
              IN  /\ order \in [1 .. m -> OpenTextBlocks(b)]
                  /\ \A x \in OpenTextBlocks(b) : \E k \in 1 .. m : order[k] = x
                  /\ StopsAppended(b.out, Len(b.out), order, m, t)
                  /\ \A k \in 1 .. m : t[Len(b.out) + k] = BlockStop(order[k])
<1> DEFINE stops == [k \in DOMAIN order |-> BlockStop(order[k])]
           t == b.out \o stops
<1>1. /\ b \in Bridge /\ b.nextIndex \in Nat /\ b.out \in Seq(Frame)
      /\ b.closedIndex \in SUBSET Nat /\ b.textIndexByKey \in [Keys -> Index]
  BY SoundTypes DEF Bridge
<1>2. /\ OpenTextBlocks(b) \subseteq 0 .. (b.nextIndex - 1)
      /\ OpenTextBlocks(b) \cap b.closedIndex = {}
  BY SoundTypes DEF OpenTextBlocks, Sound, IndicesBounded, Absent
<1>3. PICK m \in Nat : /\ order \in [1 .. m -> OpenTextBlocks(b)]
                       /\ \A j, k \in 1 .. m : j < k => order[j] < order[k]
                       /\ \A x \in OpenTextBlocks(b) : \E k \in 1 .. m : order[k] = x
  <2>1. IsFiniteSet(0 .. (b.nextIndex - 1))
    BY <1>1, FS_Interval
  <2>2. Cardinality(OpenTextBlocks(b)) \in Nat
    BY <1>2, <2>1, FS_Subset, FS_CardinalityType
  <2> QED
    BY <2>2 DEF Ascending
<1>4. /\ order \in [1 .. m -> Nat]
      /\ \A k \in 1 .. m : order[k] \in OpenedIn(b.out) \ ClosedIn(b.out)
  BY <1>1, <1>2, <1>3 DEF Sound
<1>5. /\ stops \in Seq(Frame) /\ Len(stops) = m
      /\ \A k \in 1 .. m : stops[k] = BlockStop(order[k])
  <2>1. \A k \in 1 .. m : BlockStop(order[k]) \in Frame
    BY <1>4, FrameFacts, NoItem \in Owners, "none" \in Details DEF Owners, ItemIds, Details
  <2>2. stops \in [1 .. m -> Frame]
    BY <1>3, <2>1
  <2> QED
    BY <1>3, <2>2
<1> HIDE DEF stops
<1>6. /\ t \in Seq(Frame) /\ Len(t) = Len(b.out) + m
      /\ \A k \in 1 .. Len(b.out) : t[k] = b.out[k]
      /\ \A k \in 1 .. m : t[Len(b.out) + k] = BlockStop(order[k])
  BY <1>1, <1>3, <1>5, ConcatFacts
<1>7. t = closeTextBlocks(b, order).out
  BY <1>1 DEF closeTextBlocks, stops, Bridge
<1> HIDE DEF t
<1>8. StopsAppended(b.out, Len(b.out), order, m, t)
  <2>1. WellFormed(b.out) /\ NoneIn(b.out, "error") /\ Len(b.out) \in Nat
    BY <1>1 DEF Sound
  <2>2. \A k \in 1 .. m : /\ t[Len(b.out) + k].type = "content_block_stop"
                         /\ t[Len(b.out) + k].index = order[k]
    <3>1. \A i : BlockStop(i).type = "content_block_stop" /\ BlockStop(i).index = i
      BY DEF BlockStop
    <3> QED
      BY <1>6, <3>1
  <2>3. PICK n : n = Len(b.out)
    OBVIOUS
  <2>4. /\ n \in Nat /\ Len(t) = n + m /\ t \in Seq(Frame)
        /\ \A k \in 1 .. n : t[k] = b.out[k]
        /\ \A k \in 1 .. m : /\ t[n + k].type = "content_block_stop"
                             /\ t[n + k].index = order[k]
    BY <2>1, <2>2, <2>3, <1>6
  <2>5. StopsAppended(b.out, n, order, m, t)
    BY <2>1, <2>3, <2>4, <1>1, <1>3, <1>4 DEF StopsAppended
  <2> QED
    BY <2>3, <2>5
<1> QED
  BY <1>3, <1>6, <1>7, <1>8

\* The stops the flush sends close the open text blocks and nothing else.
LEMMA CloseTextBlocks ==
    ASSUME NEW b, Sound(b), NEW order \in Ascending(OpenTextBlocks(b))
    PROVE  /\ Follows(b, closeTextBlocks(b, order))
           /\ closeTextBlocks(b, order).thinkingIndex = b.thinkingIndex
<1> DEFINE now == {order[k] : k \in DOMAIN order}
           c == closeTextBlocks(b, order)
           t == c.out
<1>1. /\ b \in Bridge /\ b.nextIndex \in Nat /\ b.out \in Seq(Frame)
      /\ b.closedIndex \in SUBSET Nat /\ b.textIndexByKey \in [Keys -> Index]
  BY SoundTypes DEF Bridge
<1>2. PICK m \in Nat : /\ order \in [1 .. m -> OpenTextBlocks(b)]
                       /\ StopsAppended(b.out, Len(b.out), order, m, t)
  BY TextStops
<1>3. /\ order \in [1 .. m -> Nat] /\ Len(b.out) \in Nat
      /\ t \in Seq(Frame) /\ Len(t) = Len(b.out) + m
      /\ \A k \in 1 .. Len(b.out) : t[k] = b.out[k]
      /\ \A k \in 1 .. m : t[Len(b.out) + k].type = "content_block_stop"
  BY <1>2 DEF StopsAppended
<1>4. /\ WellFormed(t)
      /\ OpenedIn(t) = OpenedIn(b.out)
      /\ ClosedIn(t) = ClosedIn(b.out) \cup {order[j] : j \in 1 .. m}
      /\ \A type : NoneIn(b.out, type) /\ type # "content_block_stop" => NoneIn(t, type)
  BY <1>2, AppendStops
<1>5. /\ c \in Bridge /\ c.closedIndex = b.closedIndex \cup now
      /\ c.started = b.started /\ c.nextIndex = b.nextIndex
      /\ c.textIndexByKey = b.textIndexByKey /\ c.thinkingIndex = b.thinkingIndex
      /\ c.toolIndexByItemID = b.toolIndexByItemID /\ c.toolIndexByOutput = b.toolIndexByOutput
      /\ c.serverToolUseCount = b.serverToolUseCount /\ c.toolUsed = b.toolUsed
  <2>1. now \in SUBSET Nat
    BY <1>3
  <2>2. c = [b EXCEPT !.closedIndex = b.closedIndex \cup now, !.out = t]
    BY <1>1 DEF closeTextBlocks, Bridge
  <2>3. t \in Seq(Frame)
    BY <1>3
  <2> HIDE DEF c, now, t
  <2> QED
    BY <1>1, <2>1, <2>2, <2>3 DEF Bridge
<1>6. now = {order[j] : j \in 1 .. m}
  BY <1>3
<1> HIDE DEF c, now
<1>7. Sound(c)
  BY <1>4, <1>5, <1>6 DEF Sound, IndicesBounded
<1>8. Continues(b, c)
  BY <1>1, <1>3, <1>5, <1>7 DEF Continues
<1>9. \A k \in (Len(b.out) + 1) .. Len(t) : Plain(t[k])
  <2> SUFFICES ASSUME NEW k \in (Len(b.out) + 1) .. Len(t)
               PROVE  t[k].type = "content_block_stop"
    BY DEF Plain, ToolStop
  <2>1. k - Len(b.out) \in 1 .. m /\ Len(b.out) + (k - Len(b.out)) = k
    BY <1>3
  <2> QED
    BY <2>1, <1>3
<1>10. Follows(b, c)
  BY <1>5, <1>8, <1>9 DEF Follows, Adds, Continues
<1> QED
  BY <1>5, <1>10 DEF c

LEMMA FlushOpenTextBlocks ==
    ASSUME NEW b, Sound(b), NEW order \in Ascending(OpenTextBlocks(b))
    PROVE  Follows(b, flushOpenTextBlocks(b, order))
<1> DEFINE c == closeTextBlocks(b, order)
<1>1. Follows(b, c) /\ Sound(c) /\ c.thinkingIndex = b.thinkingIndex
  BY CloseTextBlocks DEF Follows, Continues
<1> HIDE DEF c
<1>2. CASE thinkingStarted(b)
  <2>1. Follows(c, closeThinkingBlock(c))
    BY <1>1, <1>2, CloseThinkingBlock DEF thinkingStarted
  <2>2. Follows(b, closeThinkingBlock(c))
    BY <1>1, <2>1, FollowsTrans
  <2> QED
    BY <1>2, <2>2 DEF flushOpenTextBlocks, c
<1>3. CASE ~ thinkingStarted(b)
  BY <1>1, <1>3 DEF flushOpenTextBlocks, c
<1> QED
  BY <1>2, <1>3

\* message_delta and message_stop open and close nothing.
LEMMA SendMessageFrame ==
    ASSUME NEW b, Sound(b), NEW type \in {"message_delta", "message_stop"}, NEW what \in Details
    PROVE  LET f == MessageFrame(type, what)
               c == sendEvent(b, f)
           IN  /\ Continues(b, c)
               /\ ~ ToolStop(f) => Follows(b, c)
               /\ ToolStop(f) /\ ToolIn(b.out) /\ Accounted(b) => Accounted(c)
<1> DEFINE f == MessageFrame(type, what)
           c == sendEvent(b, f)
<1>1. b \in Bridge /\ IndicesBounded(b) /\ b.out \in Seq(Frame)
  BY DEF Sound, Bridge
<1>2. f \in Frame /\ f.type = type
  BY FrameFacts, NoItem \in Owners, 0 \in Nat DEF MessageFrame, Owners, ItemIds
<1> HIDE DEF f
<1>3. Append(b.out, f) \in Seq(Frame)
  BY <1>1, <1>2
<1>4. c \in Bridge /\ c = [b EXCEPT !.out = Append(b.out, f)]
  BY <1>1, <1>3 DEF sendEvent, Bridge
<1>5. IndicesBounded(c)
  BY <1>1, <1>4 DEF IndicesBounded, Bridge
<1>6. /\ c.out = Append(b.out, f) /\ c.started = b.started /\ b.started \in BOOLEAN
      /\ c.nextIndex = b.nextIndex /\ c.closedIndex = b.closedIndex
      /\ c.serverToolUseCount = b.serverToolUseCount /\ c.toolUsed = b.toolUsed
  BY <1>1, <1>4 DEF Bridge
<1> HIDE DEF c
<1>7. Continues(b, c) /\ (Plain(f) => Follows(b, c))
  BY <1>1, <1>2, <1>4, <1>5, <1>6, Extend DEF Bridge
<1>8. ~ ToolStop(f) => Plain(f)
  BY <1>2 DEF Plain
<1>9. ASSUME ToolIn(b.out), Accounted(b)
      PROVE  Accounted(c)
  <2>1. /\ Len(b.out) \in Nat /\ Len(c.out) = Len(b.out) + 1
        /\ \A k \in 1 .. Len(b.out) : c.out[k] = b.out[k]
        /\ c.out[Len(b.out) + 1] = f
    BY <1>1, <1>6
  <2>2. \A kind : Starts(c.out, kind) = Starts(b.out, kind)
    <3>1. 1 .. Len(c.out) = 1 .. Len(b.out) \cup {Len(b.out) + 1}
      BY <2>1
    <3>2. c.out[Len(b.out) + 1].type # "content_block_start"
      BY <2>1, <1>2
    <3> QED
      BY <3>1, <3>2, <2>1 DEF Starts
  <2>3. \A k \in 1 .. Len(c.out) : ToolStop(c.out[k]) => \E j \in Starts(c.out, "tool_use") : j < k
    <3> SUFFICES ASSUME NEW k \in 1 .. Len(c.out), ToolStop(c.out[k])
                 PROVE  \E j \in Starts(b.out, "tool_use") : j < k
      BY <2>2
    <3>1. CASE k \in 1 .. Len(b.out)
      BY <3>1, <1>9, <2>1 DEF Accounted
    <3>2. CASE k = Len(b.out) + 1
      BY <3>2, <1>9, <2>1 DEF ToolIn, Starts
    <3> QED
      BY <3>1, <3>2, <2>1
  <2>4. \A k \in Starts(c.out, "server_tool_use") :
          \E r \in Starts(c.out, "web_search_tool_result") :
             c.out[r].index = c.out[k].index + 1 /\ c.out[r].item = c.out[k].item
    <3> SUFFICES ASSUME NEW k \in Starts(b.out, "server_tool_use")
                 PROVE  \E r \in Starts(b.out, "web_search_tool_result") :
                           c.out[r].index = c.out[k].index + 1 /\ c.out[r].item = c.out[k].item
      BY <2>2
    <3>1. PICK r \in Starts(b.out, "web_search_tool_result") :
             b.out[r].index = b.out[k].index + 1 /\ b.out[r].item = b.out[k].item
      BY <1>9 DEF Accounted
    <3>2. c.out[r] = b.out[r] /\ c.out[k] = b.out[k]
      BY <2>1 DEF Starts
    <3> QED
      BY <3>1, <3>2
  <2>5. c.toolUsed => ToolIn(c.out)
    BY <1>9, <2>2 DEF ToolIn
  <2>6. Cardinality(Starts(c.out, "server_tool_use")) = c.serverToolUseCount
    BY <1>6, <1>9, <2>2 DEF Accounted
  <2> QED
    BY <2>3, <2>4, <2>5, <2>6 DEF Accounted
<1> QED
  BY <1>7, <1>8, <1>9 DEF c, f

LEMMA FinishMessage ==
    ASSUME NEW b, Sound(b), NEW stopReason \in Details
    PROVE  /\ Continues(b, finishMessage(b, stopReason))
           /\ Accounted(b) /\ (stopReason = "tool_use" => ToolIn(b.out))
              => Accounted(finishMessage(b, stopReason))
<1> DEFINE f == MessageFrame("message_delta", stopReason)
           d == sendEvent(b, f)
           e == sendEvent(d, MessageFrame("message_stop", "none"))
<1>1. Continues(b, d) /\ Sound(d)
  BY SendMessageFrame DEF Continues
<1>2. Accounted(b) /\ (stopReason = "tool_use" => ToolIn(b.out)) => Accounted(d)
  <2>1. ToolStop(f) <=> stopReason = "tool_use"
    BY DEF ToolStop, MessageFrame
  <2>2. CASE ~ ToolStop(f)
    <3>1. Follows(b, d)
      BY <2>2, SendMessageFrame
    <3> QED
      BY <3>1, <1>1, SoundTypes, AddsKeepsAccount DEF Follows
  <2>3. CASE ToolStop(f)
    BY <2>1, <2>3, SendMessageFrame
  <2> QED
    BY <2>2, <2>3
<1> HIDE DEF d
<1>3. Follows(d, e) /\ Sound(e)
  <2>1. ~ ToolStop(MessageFrame("message_stop", "none")) /\ "none" \in Details
    BY DEF ToolStop, MessageFrame, Details
  <2> QED
    BY <2>1, <1>1, SendMessageFrame DEF Follows, Continues
<1> HIDE DEF e
<1>4. Continues(b, e)
  BY <1>1, <1>3, ContinuesTrans DEF Follows
<1>5. Accounted(d) => Accounted(e)
  BY <1>1, <1>3, SoundTypes, AddsKeepsAccount DEF Follows
<1> QED
  BY <1>2, <1>4, <1>5 DEF finishMessage, d, e

-----------------------------------------------------------------------------
(* The invariant                                                            *)

IInv ==
    /\ bridge \in Bridge
    /\ WellFormed(bridge.out)
    /\ delivered \in 0 .. Len(bridge.out)
    /\ phase \in {"reading", "drained", "failed", "canceled", "broken"}
    /\ handled \in Nat
    /\ phase = "reading" => Sound(bridge)
    /\ Accounted(bridge)

\* A handler ran: its record is a sound continuation of the one before, which
\* accounts for its frames, and an error frame follows it if the handler failed.
HandlerStep ==
    /\ Receiving
    /\ \E c : /\ Continues(bridge, c)
              /\ Accounted(c)
              /\ Return(c) \/ ReturnError(c)

-----------------------------------------------------------------------------
(* Every handler is a HandlerStep                                           *)

LEMMA Returns ==
    ASSUME IInv, Receiving, NEW c, Follows(bridge, c), Return(c) \/ ReturnError(c)
    PROVE  HandlerStep
<1>1. Sound(bridge) /\ Accounted(bridge) /\ Adds(bridge, c) /\ Sound(c) /\ Continues(bridge, c)
  BY DEF IInv, Receiving, Follows, Continues
<1>2. Accounted(c)
  BY <1>1, SoundTypes, AddsKeepsAccount
<1> QED
  BY <1>1, <1>2 DEF HandlerStep

LEMMA Reading ==
    ASSUME IInv, Receiving
    PROVE  /\ Sound(bridge)
           /\ Follows(bridge, bridge)
           /\ Follows(bridge, ensureMessageStart(bridge))
           /\ Sound(ensureMessageStart(bridge))
<1>1. Sound(bridge)
  BY DEF IInv, Receiving
<1>2. Follows(bridge, bridge) /\ Follows(bridge, ensureMessageStart(bridge))
  BY <1>1, FollowsRefl, Ensure
<1> QED
  BY <1>1, <1>2 DEF Follows, Continues

LEMMA KeyFacts ==
    ASSUME NEW item \in ItemIds, NEW out \in Outputs, NEW part \in Parts
    PROVE  /\ contentKey(item, out, part) \in Keys
           /\ contentKey(item, out, part)[1] \in Owners
BY DEF contentKey, owner, Keys, Owners

LEMMA DetailFacts ==
    /\ {"none", "text", "refusal", "tool_use", "tool_result", "thinking", "compaction",
        "text_delta", "citations_delta", "input_json_delta", "thinking_delta"} \subseteq Details
    /\ Standalone \subseteq Details
    /\ ItemIds \subseteq Owners
    /\ 0 .. 1 \subseteq 0 .. MaxBlocks
BY DEF Details, Standalone, Owners, MaxBlocks

\* The handlers of the events of no item, and of output_item.added.
LEMMA AddedHandlers ==
    ASSUME IInv,
           \/ EventIgnored \/ EventFatal \/ ResponseCreated \/ PassiveItemAdded
           \/ UnsupportedItemAdded \/ WebSearchCompleted
           \/ \E item \in ItemIds : CommentaryItemAdded(item) \/ WebSearchItemAdded(item)
           \/ \E item \in ItemIds, out \in Outputs : ToolItemAdded(item, out)
    PROVE  HandlerStep
<1>1. CASE EventIgnored
  BY <1>1, Reading, Returns DEF EventIgnored
<1>2. CASE EventFatal
  BY <1>2, Reading, Returns DEF EventFatal
<1>3. CASE ResponseCreated
  BY <1>3, Reading, Returns DEF ResponseCreated
<1>4. CASE PassiveItemAdded
  BY <1>4, Reading, Returns DEF PassiveItemAdded
<1>5. CASE UnsupportedItemAdded
  BY <1>5, Reading, Returns DEF UnsupportedItemAdded, ReturnErrorIfStrict
<1>6. CASE WebSearchCompleted
  BY <1>6, Reading, Returns DEF WebSearchCompleted
<1>7. ASSUME NEW item \in ItemIds, CommentaryItemAdded(item)
      PROVE  HandlerStep
  <2> DEFINE c == [bridge EXCEPT !.ignoredMessageItemID = @ \cup {item}]
  <2>1. Receiving /\ Return(c) /\ Sound(bridge) /\ bridge \in Bridge
    BY <1>7, Reading, SoundTypes DEF CommentaryItemAdded
  <2>2. bridge.ignoredMessageItemID \cup {item} \in SUBSET ItemIds
    BY <2>1 DEF Bridge
  <2>3. c \in Bridge
    BY <2>1, <2>2 DEF Bridge
  <2>4. /\ c.out = bridge.out /\ c.started = bridge.started
        /\ c.nextIndex = bridge.nextIndex /\ c.closedIndex = bridge.closedIndex
        /\ c.serverToolUseCount = bridge.serverToolUseCount /\ c.toolUsed = bridge.toolUsed
    BY <2>1 DEF Bridge
  <2>5. IndicesBounded(c)
    BY <2>1 DEF Sound, IndicesBounded, Bridge
  <2> HIDE DEF c
  <2>6. Follows(bridge, c)
    BY <2>1, <2>3, <2>4, <2>5, BlocksUntouched
  <2> QED
    BY <2>1, <2>6, Returns
<1>8. ASSUME NEW item \in ItemIds, WebSearchItemAdded(item)
      PROVE  HandlerStep
  <2> DEFINE b == ensureMessageStart(bridge)
             c == [b EXCEPT !.webSearchEmitted = @ \ {item}]
  <2>1. Receiving /\ Return(c) /\ Sound(bridge) /\ Follows(bridge, b) /\ Sound(b)
    BY <1>8, Reading DEF WebSearchItemAdded
  <2> HIDE DEF b
  <2>2. b \in Bridge
    BY <2>1, SoundTypes
  <2>3. b.webSearchEmitted \ {item} \in SUBSET ItemIds
    BY <2>2 DEF Bridge
  <2>4. c \in Bridge
    BY <2>2, <2>3 DEF Bridge
  <2>5. /\ c.out = b.out /\ c.started = b.started
        /\ c.nextIndex = b.nextIndex /\ c.closedIndex = b.closedIndex
        /\ c.serverToolUseCount = b.serverToolUseCount /\ c.toolUsed = b.toolUsed
    BY <2>2 DEF Bridge
  <2>6. IndicesBounded(c)
    BY <2>1, <2>2 DEF Sound, IndicesBounded, Bridge
  <2> HIDE DEF c
  <2>7. Follows(b, c)
    BY <2>1, <2>4, <2>5, <2>6, BlocksUntouched
  <2>8. Follows(bridge, c)
    BY <2>1, <2>7, FollowsTrans
  <2> QED
    BY <2>1, <2>8, Returns
<1>9. ASSUME NEW item \in ItemIds, NEW out \in Outputs, ToolItemAdded(item, out)
      PROVE  HandlerStep
  <2> DEFINE b == ensureMessageStart(bridge)
             c == openToolBlock(b, item, out)
  <2>1. Receiving /\ Return(c) /\ Sound(bridge) /\ Follows(bridge, b) /\ Sound(b)
    BY <1>9, Reading DEF ToolItemAdded
  <2> HIDE DEF b
  <2>2. Follows(b, c)
    BY <2>1, OpenToolBlock
  <2>3. Follows(bridge, c)
    BY <2>1, <2>2, FollowsTrans
  <2> QED
    BY <2>1, <2>3, Returns
<1> QED
  BY <1>1, <1>2, <1>3, <1>4, <1>5, <1>6, <1>7, <1>8, <1>9

\* The handlers of text and refusal events.
LEMMA TextHandlers ==
    ASSUME IInv, NEW item \in ItemIds, NEW out \in Outputs, NEW part \in Parts,
           \/ \E isText \in BOOLEAN : ContentPartAdded(item, out, part, isText)
           \/ OutputTextDelta(item, out, part)
           \/ \E n \in 0 .. MaxCitations : ContentPartDone(item, out, part, n)
           \/ RefusalDelta(item, out, part)
           \/ RefusalDone(item, out, part)
    PROVE  HandlerStep
<1> DEFINE key == contentKey(item, out, part)
           b == ensureMessageStart(bridge)
<1>1. key \in Keys /\ key[1] \in Owners
  BY KeyFacts
<1>2. Receiving
  BY DEF ContentPartAdded, OutputTextDelta, ContentPartDone, RefusalDelta, RefusalDone
<1>3. Sound(bridge) /\ Follows(bridge, bridge) /\ Follows(bridge, b) /\ Sound(b)
  BY <1>2, Reading
<1>4. \A what \in {"text", "refusal"} :
        /\ Follows(bridge, ensureTextBlock(b, key, what))
        /\ Follows(bridge, textDelta(ensureTextBlock(b, key, what), key))
  <2> SUFFICES ASSUME NEW what \in {"text", "refusal"}
               PROVE  /\ Follows(bridge, ensureTextBlock(b, key, what))
                      /\ Follows(bridge, textDelta(ensureTextBlock(b, key, what), key))
    OBVIOUS
  <2> DEFINE c == ensureTextBlock(b, key, what)
  <2> HIDE DEF b, key
  <2>1. what \in Details
    BY DetailFacts
  <2>2. Follows(b, c) /\ c.textIndexByKey[key] \in 0 .. (c.nextIndex - 1)
    BY <1>1, <1>3, EnsureTextBlock
  <2> HIDE DEF c
  <2>3. Sound(c) /\ c.textIndexByKey[key] # Absent
    BY <2>2 DEF Follows, Continues, Absent
  <2>4. Follows(c, textDelta(c, key))
    BY <2>3, <1>1, DetailFacts, TextDelta DEF textDelta
  <2>5. Follows(bridge, c)
    BY <1>3, <2>2, FollowsTrans
  <2>6. Follows(bridge, textDelta(c, key))
    BY <1>3, <2>4, <2>5, FollowsTrans
  <2> QED
    BY <2>5, <2>6 DEF c
<1>5. bridge.textIndexByKey[key] # Absent =>
        bridge.textIndexByKey[key] \in 0 .. (bridge.nextIndex - 1)
  BY <1>1, <1>3, SoundTypes DEF Sound, IndicesBounded, Absent
<1> HIDE DEF b, key
<1>6. ASSUME NEW isText \in BOOLEAN, ContentPartAdded(item, out, part, isText)
      PROVE  HandlerStep
  BY <1>6, <1>2, <1>3, <1>4, Returns DEF ContentPartAdded, b, key
<1>7. CASE OutputTextDelta(item, out, part)
  BY <1>7, <1>2, <1>3, <1>4, Returns DEF OutputTextDelta, b, key
<1>8. ASSUME NEW n \in 0 .. MaxCitations, ContentPartDone(item, out, part, n)
      PROVE  HandlerStep
  <2> DEFINE i == bridge.textIndexByKey[key]
             c == emitCitationsDelta(bridge, key, n)
             d == closeContentBlock(c, i)
  <2>1. CASE item \in bridge.ignoredMessageItemID \/ i = Absent
    BY <2>1, <1>8, <1>2, <1>3, Returns DEF ContentPartDone, key
  <2>2. CASE ~ (item \in bridge.ignoredMessageItemID \/ i = Absent)
    <3>1. Return(d)
      BY <2>2, <1>8 DEF ContentPartDone, key
    <3>2. i \in 0 .. (bridge.nextIndex - 1)
      BY <2>2, <1>5
    <3>3. Follows(bridge, sendEvent(bridge, BlockDelta(i, "citations_delta", key[1])))
      BY <3>2, <1>1, <1>3, DetailFacts, SendDelta
    <3>4. Follows(bridge, c)
      BY <3>3, <1>3 DEF emitCitationsDelta
    <3>5. i \in 0 .. (c.nextIndex - 1) /\ Sound(c)
      BY <3>2, <3>4, <1>3, SoundTypes DEF Follows, Continues
    <3> HIDE DEF c, i
    <3>6. Follows(c, d)
      BY <3>5, CloseBlock
    <3>7. Follows(bridge, d)
      BY <1>3, <3>4, <3>6, FollowsTrans
    <3> QED
      BY <3>1, <3>7, <1>2, Returns
  <2> QED
    BY <2>1, <2>2
<1>9. CASE RefusalDelta(item, out, part)
  BY <1>9, <1>2, <1>4, Returns DEF RefusalDelta, b, key
<1>10. CASE RefusalDone(item, out, part)
  <2>1. CASE bridge.textIndexByKey[key] = Absent
    BY <2>1, <1>10, <1>2, <1>3, Returns DEF RefusalDone, key
  <2>2. CASE bridge.textIndexByKey[key] # Absent
    <3>1. Follows(bridge, closeContentBlock(bridge, bridge.textIndexByKey[key]))
      BY <2>2, <1>3, <1>5, CloseBlock
    <3> QED
      BY <3>1, <2>2, <1>10, <1>2, Returns DEF RefusalDone, key
  <2> QED
    BY <2>1, <2>2
<1> QED
  BY <1>6, <1>7, <1>8, <1>9, <1>10

\* The handlers of the arguments of a tool call, and of a tool call that is done.
LEMMA ToolHandlers ==
    ASSUME IInv, NEW item \in ItemIds,
           \/ \E out \in Outputs : ToolArgumentsDelta(item, out) \/ ToolArgumentsDone(item, out)
           \/ \E n \in 0 .. 1 : ToolItemDone(item, n)
           \/ \E kind \in DirectTools \cup ConvertedTools : ToolItemDoneFails(item, kind)
    PROVE  HandlerStep
<1>1. Receiving
  BY DEF ToolArgumentsDelta, ToolArgumentsDone, ToolItemDone, ToolItemDoneFails
<1>2. Sound(bridge) /\ Follows(bridge, bridge)
  BY <1>1, Reading
<1>3. ASSUME NEW out \in Outputs
      PROVE  toolIndex(bridge, item, out) # Absent =>
               toolIndex(bridge, item, out) \in 0 .. (bridge.nextIndex - 1)
  BY <1>2, SoundTypes DEF Sound, IndicesBounded, Absent, toolIndex
<1>4. bridge.toolIndexByItemID[item] # Absent =>
        bridge.toolIndexByItemID[item] \in 0 .. (bridge.nextIndex - 1)
  BY <1>2, SoundTypes DEF Sound, IndicesBounded, Absent
<1>5. ASSUME NEW out \in Outputs, ToolArgumentsDelta(item, out)
      PROVE  HandlerStep
  <2> DEFINE i == toolIndex(bridge, item, out)
  <2>1. CASE i = Absent
    BY <2>1, <1>5, <1>1, <1>2, Returns DEF ToolArgumentsDelta, ReturnErrorIfStrict
  <2>2. CASE i # Absent
    <3>o. owner(item, out) \in Owners
      BY DEF owner, Owners, ItemIds
    <3>1. Follows(bridge, sendEvent(bridge, BlockDelta(i, "input_json_delta", owner(item, out))))
      BY <3>o, <2>2, <1>2, <1>3, DetailFacts, SendDelta
    <3> QED
      BY <3>1, <2>2, <1>5, <1>1, Returns DEF ToolArgumentsDelta
  <2> QED
    BY <2>1, <2>2
<1>6. ASSUME NEW out \in Outputs, ToolArgumentsDone(item, out)
      PROVE  HandlerStep
  <2> DEFINE i == toolIndex(bridge, item, out)
  <2>1. CASE i = Absent
    BY <2>1, <1>6, <1>1, <1>2, Returns DEF ToolArgumentsDone
  <2>2. CASE i # Absent
    <3>1. Follows(bridge, closeContentBlock(bridge, i))
      BY <2>2, <1>2, <1>3, CloseBlock
    <3> QED
      BY <3>1, <2>2, <1>6, <1>1, Returns DEF ToolArgumentsDone
  <2> QED
    BY <2>1, <2>2
<1> DEFINE i == bridge.toolIndexByItemID[item]
           c == closeContentBlock(bridge, i)
<1>7. i # Absent => Follows(bridge, c)
  BY <1>2, <1>4, CloseBlock
<1>8. ASSUME NEW n \in 0 .. 1, ToolItemDone(item, n)
      PROVE  HandlerStep
  <2>1. CASE i = Absent
    <3>1. Follows(bridge, emitFunctionLikeToolUseFromDone(bridge, item, n))
      BY <1>2, EmitFunctionLikeToolUseFromDone
    <3> QED
      BY <3>1, <2>1, <1>8, <1>1, Returns DEF ToolItemDone
  <2>2. CASE i # Absent
    <3> DEFINE d == emitBlocks(c, n, "tool_result", item)
    <3>1. Return(d)
      BY <2>2, <1>8 DEF ToolItemDone
    <3>2. Follows(bridge, c) /\ Sound(c)
      BY <2>2, <1>7 DEF Follows, Continues
    <3> HIDE DEF c
    <3>3. Follows(c, d)
      BY <3>2, DetailFacts, EmitBlocks
    <3>4. Follows(bridge, d)
      BY <1>2, <3>2, <3>3, FollowsTrans
    <3> QED
      BY <3>1, <3>4, <1>1, Returns
  <2> QED
    BY <2>1, <2>2
<1>9. ASSUME NEW kind \in DirectTools \cup ConvertedTools, ToolItemDoneFails(item, kind)
      PROVE  HandlerStep
  BY <1>9, <1>1, <1>2, <1>7, Returns DEF ToolItemDoneFails
<1> QED
  BY <1>5, <1>6, <1>8, <1>9

\* The handlers of reasoning events.
LEMMA ReasoningHandlers ==
    ASSUME IInv,
           \/ ReasoningTextDone \/ ReasoningItemDoneFails
           \/ \E item \in ItemIds : ReasoningDelta(item)
           \/ \E item \in ItemIds, n \in 0 .. 1 : ReasoningItemDone(item, n)
    PROVE  HandlerStep
<1>1. Receiving
  BY DEF ReasoningTextDone, ReasoningItemDoneFails, ReasoningDelta, ReasoningItemDone
<1>2. /\ Sound(bridge) /\ Follows(bridge, bridge)
      /\ Follows(bridge, ensureMessageStart(bridge)) /\ Sound(ensureMessageStart(bridge))
  BY <1>1, Reading
<1>3. thinkingStarted(bridge) => Follows(bridge, closeThinkingBlock(bridge))
  BY <1>2, CloseThinkingBlock
<1>4. CASE ReasoningTextDone
  BY <1>4, <1>1, <1>2, <1>3, Returns DEF ReasoningTextDone
<1>5. CASE ReasoningItemDoneFails
  BY <1>5, <1>1, <1>2, Returns DEF ReasoningItemDoneFails
<1>6. ASSUME NEW item \in ItemIds, ReasoningDelta(item)
      PROVE  HandlerStep
  <2> DEFINE b == ensureMessageStart(bridge)
             t == IF thinkingStarted(b) THEN b ELSE startThinkingBlock(b, item)
             c == sendEvent(t, BlockDelta(t.thinkingIndex, "thinking_delta", item))
  <2>1. Return(c)
    BY <1>6 DEF ReasoningDelta
  <2>2. Follows(bridge, b) /\ Sound(b)
    BY <1>2
  <2> HIDE DEF b
  <2>3. Follows(b, t) /\ t.thinkingIndex \in 0 .. (t.nextIndex - 1)
    <3>1. CASE thinkingStarted(b)
      BY <3>1, <2>2, FollowsRefl, SoundTypes DEF thinkingStarted, Absent, Sound, IndicesBounded
    <3>2. CASE ~ thinkingStarted(b)
      BY <3>2, <2>2, StartThinkingBlock, DetailFacts
    <3> QED
      BY <3>1, <3>2
  <2> HIDE DEF t
  <2>4. Sound(t)
    BY <2>3 DEF Follows, Continues
  <2>5. Follows(t, c)
    BY <2>3, <2>4, DetailFacts, SendDelta
  <2> HIDE DEF c
  <2>6. Follows(bridge, c)
    BY <1>2, <2>2, <2>3, <2>5, FollowsTrans
  <2> QED
    BY <2>1, <2>6, <1>1, Returns
<1>7. ASSUME NEW item \in ItemIds, NEW n \in 0 .. 1, ReasoningItemDone(item, n)
      PROVE  HandlerStep
  <2>1. Follows(bridge, emitBlocks(bridge, n, "thinking", item))
    BY <1>2, DetailFacts, EmitBlocks
  <2> QED
    BY <2>1, <1>7, <1>1, <1>3, Returns DEF ReasoningItemDone
<1> QED
  BY <1>4, <1>5, <1>6, <1>7

\* The handlers of the remaining items that are done.
LEMMA ItemDoneHandlers ==
    ASSUME IInv,
           \/ \E kind \in Standalone : StandaloneItemDoneFails(kind)
           \/ \E item \in ItemIds :
                 \/ WebSearchItemDone(item)
                 \/ MessageItemDoneFails(item)
                 \/ \E n \in 0 .. MaxBlocks : MessageItemDone(item, n)
                 \/ \E kind \in Standalone, n \in 0 .. 1 : StandaloneItemDone(item, kind, n)
                 \/ \E isEmpty \in BOOLEAN : CompactionItemDone(item, isEmpty)
    PROVE  HandlerStep
<1>1. Receiving
  BY DEF StandaloneItemDoneFails, WebSearchItemDone, MessageItemDoneFails, MessageItemDone,
         StandaloneItemDone, CompactionItemDone
<1>2. Sound(bridge) /\ Follows(bridge, bridge)
  BY <1>1, Reading
<1>3. ASSUME NEW kind \in Standalone, StandaloneItemDoneFails(kind)
      PROVE  HandlerStep
  BY <1>3, <1>1, <1>2, Returns DEF StandaloneItemDoneFails, ReturnErrorIfStrict
<1>4. ASSUME NEW item \in ItemIds, WebSearchItemDone(item)
      PROVE  HandlerStep
  <2>1. /\ Continues(bridge, handleWebSearchDone(bridge, item))
        /\ Accounted(handleWebSearchDone(bridge, item))
    BY <1>2, HandleWebSearchDone DEF IInv
  <2> QED
    BY <2>1, <1>1, <1>4 DEF WebSearchItemDone, HandlerStep
<1>5. ASSUME NEW item \in ItemIds, MessageItemDoneFails(item)
      PROVE  HandlerStep
  BY <1>5, <1>1, <1>2, Returns DEF MessageItemDoneFails
<1>6. ASSUME NEW item \in ItemIds, NEW n \in 0 .. MaxBlocks, MessageItemDone(item, n)
      PROVE  HandlerStep
  <2>1. Follows(bridge, emitBlocks(bridge, n, "text", item))
    BY <1>2, DetailFacts, EmitBlocks
  <2> QED
    BY <2>1, <1>6, <1>1, <1>2, Returns DEF MessageItemDone
<1>7. ASSUME NEW item \in ItemIds, NEW kind \in Standalone, NEW n \in 0 .. 1,
             StandaloneItemDone(item, kind, n)
      PROVE  HandlerStep
  <2>0. kind # "server_tool_use"
    BY DEF Standalone
  <2>1. Follows(bridge, emitBlocks(bridge, n, kind, item))
    BY <2>0, <1>2, DetailFacts, EmitBlocks
  <2> QED
    BY <2>1, <1>7, <1>1, Returns DEF StandaloneItemDone
<1>8. ASSUME NEW item \in ItemIds, NEW isEmpty \in BOOLEAN, CompactionItemDone(item, isEmpty)
      PROVE  HandlerStep
  <2> DEFINE b == openBlock(bridge, "compaction", item)
             c == closeContentBlock(b, bridge.nextIndex)
  <2>1. CASE isEmpty
    BY <2>1, <1>8, <1>1, <1>2, Returns DEF CompactionItemDone
  <2>2. CASE ~ isEmpty
    <3>1. Return(c)
      BY <2>2, <1>8 DEF CompactionItemDone
    <3>2. Follows(bridge, b) /\ b.nextIndex = bridge.nextIndex + 1
      BY <1>2, DetailFacts, OpenBlock
    <3> HIDE DEF b
    <3>3. Sound(b) /\ bridge.nextIndex \in 0 .. (b.nextIndex - 1)
      BY <3>2, <1>2, SoundTypes DEF Follows, Continues
    <3>4. Follows(b, c)
      BY <3>3, CloseBlock
    <3>5. Follows(bridge, c)
      BY <1>2, <3>2, <3>4, FollowsTrans
    <3> QED
      BY <3>1, <3>5, <1>1, Returns
  <2> QED
    BY <2>1, <2>2
<1> QED
  BY <1>3, <1>4, <1>5, <1>6, <1>7, <1>8

LEMMA StopReasonIsADetail ==
    ASSUME NEW status, NEW reason, NEW toolUsed
    PROVE  /\ deriveStopReason(status, reason, toolUsed) \in Details
           /\ deriveStopReason(status, reason, toolUsed) = "tool_use" => toolUsed
BY DEF deriveStopReason, Details

\* The handler of the events that end the response.
LEMMA ResponseEndedHandler ==
    ASSUME IInv, NEW status, NEW reason, ResponseEnded(status, reason)
    PROVE  HandlerStep
<1> DEFINE b == ensureMessageStart(bridge)
           stop == deriveStopReason(status, reason, b.toolUsed)
<1>1. PICK order \in Ascending(OpenTextBlocks(b)) :
         Receiving /\ Return(finishMessage(flushOpenTextBlocks(b, order), stop))
  BY DEF ResponseEnded
<1>2. Sound(bridge) /\ Follows(bridge, b) /\ Sound(b)
  BY <1>1, Reading
<1>3. stop \in Details /\ (stop = "tool_use" => b.toolUsed)
  BY StopReasonIsADetail
<1> HIDE DEF b, stop
<1> DEFINE c == flushOpenTextBlocks(b, order)
           d == finishMessage(c, stop)
<1>4. Follows(b, c) /\ Sound(c)
  BY <1>2, FlushOpenTextBlocks DEF Follows, Continues
<1>5. Accounted(b) /\ Accounted(c)
  BY <1>2, <1>4, SoundTypes, AddsKeepsAccount DEF IInv, Follows
<1> HIDE DEF c
<1>6. stop = "tool_use" => ToolIn(c.out)
  BY <1>2, <1>3, <1>4, <1>5, StartsKept DEF Accounted, Follows, Continues
<1>7. Continues(c, d) /\ Accounted(d)
  BY <1>3, <1>4, <1>5, <1>6, FinishMessage
<1> HIDE DEF d
<1>8. Continues(bridge, d)
  <2>1. Continues(bridge, c)
    BY <1>2, <1>4, ContinuesTrans DEF Follows
  <2> QED
    BY <2>1, <1>2, <1>7, ContinuesTrans
<1>9. Receiving /\ Return(d)
  BY <1>1 DEF c, d
<1> QED
  BY <1>7, <1>8, <1>9 DEF HandlerStep

\* Every step is a handler's, a write's, or a return of the loop.
LEMMA Steps ==
    ASSUME IInv, Next
    PROVE  HandlerStep \/ Deliver \/ WriteFails \/ ReaderClosed \/ Cancel
<1>1. \A kind \in {"tool_search_output", "computer_call_output",
                   "image_generation_call", "unrecognized"} : kind \in Standalone
  BY DEF Standalone
<1>2. \A n \in 0 .. 1 : n \in 0 .. MaxBlocks
  BY DEF MaxBlocks
<1>3. 1 \in 0 .. 1
  OBVIOUS
<1>4. CASE \/ EventIgnored \/ EventFatal \/ ResponseCreated \/ PassiveItemAdded
           \/ UnsupportedItemAdded \/ WebSearchCompleted
           \/ \E item \in ItemIds : CommentaryItemAdded(item) \/ WebSearchItemAdded(item)
           \/ \E item \in ItemIds, out \in Outputs : ToolItemAdded(item, out)
  BY <1>4, AddedHandlers
<1>5. CASE \E item \in ItemIds, out \in Outputs, part \in Parts :
              \/ \E isText \in BOOLEAN : ContentPartAdded(item, out, part, isText)
              \/ OutputTextDelta(item, out, part)
              \/ \E n \in 0 .. MaxCitations : ContentPartDone(item, out, part, n)
              \/ RefusalDelta(item, out, part)
              \/ RefusalDone(item, out, part)
  BY <1>5, TextHandlers
<1>6. CASE \E item \in ItemIds :
              \/ \E out \in Outputs : ToolArgumentsDelta(item, out) \/ ToolArgumentsDone(item, out)
              \/ \E n \in 0 .. 1 : ToolItemDone(item, n)
              \/ \E kind \in DirectTools \cup ConvertedTools : ToolItemDoneFails(item, kind)
  BY <1>6, ToolHandlers
<1>7. CASE \/ ReasoningTextDone \/ ReasoningItemDoneFails
           \/ \E item \in ItemIds : ReasoningDelta(item)
           \/ \E item \in ItemIds, n \in 0 .. 1 : ReasoningItemDone(item, n)
  BY <1>7, ReasoningHandlers
<1>8. CASE \/ \E kind \in Standalone : StandaloneItemDoneFails(kind)
           \/ \E item \in ItemIds :
                 \/ WebSearchItemDone(item)
                 \/ MessageItemDoneFails(item)
                 \/ \E n \in 0 .. MaxBlocks : MessageItemDone(item, n)
                 \/ \E kind \in Standalone, n \in 0 .. 1 : StandaloneItemDone(item, kind, n)
                 \/ \E isEmpty \in BOOLEAN : CompactionItemDone(item, isEmpty)
  BY <1>8, ItemDoneHandlers
<1>9. CASE \E status \in {"completed", "incomplete", "failed", "cancelled"},
              reason \in {"none", "max_output_tokens", "content_filter"} :
              ResponseEnded(status, reason)
  BY <1>9, ResponseEndedHandler
<1>10. CASE Deliver \/ WriteFails \/ ReaderClosed \/ Cancel
  BY <1>10
<1> QED
  BY <1>1, <1>2, <1>3, <1>4, <1>5, <1>6, <1>7, <1>8, <1>9, <1>10, Zenon DEF Next

-----------------------------------------------------------------------------
(* The invariant                                                            *)

\* The error frame may follow any sound record; nothing may follow it.
LEMMA SendError ==
    ASSUME NEW b, Sound(b), NEW c, c = sendEvent(b, MessageFrame("error", "none"))
    PROVE  /\ c \in Bridge /\ WellFormed(c.out)
           /\ Len(c.out) = Len(b.out) + 1
           /\ \A k \in 1 .. Len(b.out) : c.out[k] = b.out[k]
           /\ Accounted(b) => Accounted(c)
<1> DEFINE f == MessageFrame("error", "none")
<1>1. b \in Bridge /\ b.out \in Seq(Frame) /\ WellFormed(b.out) /\ NoneIn(b.out, "error")
  BY SoundTypes DEF Sound
<1>2. f \in Frame /\ f.type = "error"
  BY FrameFacts, 0 \in Nat, "none" \in Details, NoItem \in Owners
     DEF MessageFrame, Owners, ItemIds, Details
<1> HIDE DEF f
<1>3. Append(b.out, f) \in Seq(Frame) /\ WellFormed(Append(b.out, f))
  BY <1>1, <1>2, AppendFrame
<1>4. c = [b EXCEPT !.out = Append(b.out, f)]
  BY <1>1 DEF sendEvent, f, Bridge
<1>5. c \in Bridge /\ c.out = Append(b.out, f)
  BY <1>1, <1>3, <1>4 DEF Bridge
<1>6. /\ Len(Append(b.out, f)) = Len(b.out) + 1 /\ Len(b.out) \in Nat
      /\ \A k \in 1 .. Len(b.out) : Append(b.out, f)[k] = b.out[k]
      /\ Append(b.out, f)[Len(b.out) + 1] = f
  BY <1>1, <1>2
<1>7. c.serverToolUseCount = b.serverToolUseCount /\ c.toolUsed = b.toolUsed
  BY <1>1, <1>4 DEF Bridge
<1>8. \A k \in (Len(b.out) + 1) .. Len(c.out) : Plain(c.out[k])
  BY <1>2, <1>5, <1>6 DEF Plain, ToolStop
<1>9. Adds(b, c)
  BY <1>5, <1>6, <1>7, <1>8 DEF Adds
<1>10. Accounted(b) => Accounted(c)
  BY <1>1, <1>3, <1>5, <1>9, AddsKeepsAccount
<1> QED
  BY <1>3, <1>5, <1>6, <1>10

\* A prefix of a sequence is a prefix of every continuation of it.
LEMMA SamePrefix ==
    ASSUME NEW s \in Seq(Frame), NEW t \in Seq(Frame), Len(s) <= Len(t),
           \A k \in 1 .. Len(s) : t[k] = s[k],
           NEW n \in 0 .. Len(s)
    PROVE  SubSeq(t, 1, n) = SubSeq(s, 1, n)
<1>1. Len(s) \in Nat /\ Len(t) \in Nat /\ n \in Nat /\ n <= Len(s)
  OBVIOUS
<1>2. /\ SubSeq(s, 1, n) \in Seq(Frame) /\ Len(SubSeq(s, 1, n)) = n
      /\ \A k \in 1 .. n : SubSeq(s, 1, n)[k] = s[k]
  BY <1>1
<1>3. /\ SubSeq(t, 1, n) \in Seq(Frame) /\ Len(SubSeq(t, 1, n)) = n
      /\ \A k \in 1 .. n : SubSeq(t, 1, n)[k] = t[k]
  BY <1>1
<1>4. PICK u, v : u = SubSeq(s, 1, n) /\ v = SubSeq(t, 1, n)
  OBVIOUS
<1>5. u \in Seq(Frame) /\ v \in Seq(Frame) /\ Len(u) = Len(v) /\ \A k \in 1 .. Len(u) : u[k] = v[k]
  BY <1>1, <1>2, <1>3, <1>4
<1>6. u = v
  BY <1>5
<1> QED
  BY <1>4, <1>6

\* A handler keeps the invariant, and what the client has read stays as it is.
LEMMA HandlerStepKeepsIInv ==
    ASSUME IInv, HandlerStep
    PROVE  IInv' /\ UNCHANGED ClientStream
<1>1. PICK c : Continues(bridge, c) /\ Accounted(c) /\ (Return(c) \/ ReturnError(c))
  BY DEF HandlerStep
<1>2. /\ phase = "reading" /\ delivered = Len(bridge.out) /\ handled \in Nat
      /\ bridge \in Bridge /\ bridge.out \in Seq(Frame) /\ Len(bridge.out) \in Nat
  BY SoundTypes DEF HandlerStep, Receiving, IInv
<1>3. Sound(c) /\ c \in Bridge /\ c.out \in Seq(Frame) /\ WellFormed(c.out)
  BY <1>1, SoundTypes DEF Follows, Continues, Sound
<1>4. CASE Return(c)
  <2>1. /\ bridge' = c /\ handled' = handled + 1 /\ delivered' = delivered /\ phase' = phase
    BY <1>4 DEF Return
  <2>2. Len(bridge.out) <= Len(c.out) /\ \A k \in 1 .. Len(bridge.out) : c.out[k] = bridge.out[k]
    BY <1>1 DEF Follows, Continues
  <2>3. IInv'
    BY <2>1, <2>2, <1>1, <1>2, <1>3 DEF IInv
  <2>4. SubSeq(c.out, 1, delivered) = SubSeq(bridge.out, 1, delivered)
    BY <2>2, <1>2, <1>3, SamePrefix
  <2> QED
    BY <2>1, <2>3, <2>4 DEF ClientStream
<1>5. CASE ReturnError(c)
  <2> DEFINE d == sendEvent(c, MessageFrame("error", "none"))
  <2>1. bridge' = d /\ handled' = handled + 1 /\ delivered' = delivered /\ phase' = "failed"
    BY <1>5 DEF ReturnError
  <2>2. /\ d \in Bridge /\ WellFormed(d.out)
        /\ Len(d.out) = Len(c.out) + 1
        /\ \A k \in 1 .. Len(c.out) : d.out[k] = c.out[k]
        /\ Accounted(d)
    BY <1>1, <1>3, SendError
  <2> HIDE DEF d
  <2>3. /\ Len(bridge.out) <= Len(c.out)
        /\ \A k \in 1 .. Len(bridge.out) : c.out[k] = bridge.out[k]
    BY <1>1 DEF Follows, Continues
  <2>4. d.out \in Seq(Frame) /\ Len(c.out) \in Nat /\ Len(d.out) \in Nat
    BY <2>2, <1>3 DEF Bridge
  <2>5. Len(bridge.out) <= Len(d.out) /\ \A k \in 1 .. Len(bridge.out) : d.out[k] = bridge.out[k]
    BY <2>2, <2>3, <2>4, <1>2
  <2>6. IInv'
    BY <2>1, <2>2, <2>4, <2>5, <1>2 DEF IInv
  <2>7. SubSeq(d.out, 1, delivered) = SubSeq(bridge.out, 1, delivered)
    BY <2>4, <2>5, <1>2, SamePrefix
  <2> QED
    BY <2>1, <2>6, <2>7 DEF ClientStream
<1> QED
  BY <1>1, <1>4, <1>5

LEMMA InitEstablishesIInv ==
    ASSUME Init
    PROVE  IInv
<1>1. newStreamState \in Bridge
  BY DEF newStreamState, Bridge, Index, Absent
<1>2. /\ bridge = newStreamState /\ bridge.out = << >> /\ Len(bridge.out) = 0
      /\ ~ bridge.started /\ bridge.nextIndex = 0 /\ bridge.closedIndex = {}
  BY DEF Init, newStreamState
<1>3. WellFormed(bridge.out) /\ \A type : NoneIn(bridge.out, type)
  BY <1>2 DEF WellFormed, NoneIn, NoneBefore
<1>4. OpenedIn(bridge.out) = {} /\ ClosedIn(bridge.out) = {}
  BY <1>2 DEF OpenedIn, ClosedIn, OpenedBefore, ClosedBefore
<1>5. IndicesBounded(bridge)
  BY <1>2 DEF newStreamState, IndicesBounded, Absent
<1>6. OpenedIn(bridge.out) = 0 .. (bridge.nextIndex - 1)
  BY <1>2, <1>4
<1>7. Sound(bridge)
  BY <1>1, <1>2, <1>3, <1>4, <1>5, <1>6 DEF Sound
<1>8. Accounted(bridge)
  <2>1. \A what : Starts(bridge.out, what) = {}
    BY <1>2 DEF Starts
  <2>2. ~ bridge.toolUsed /\ bridge.serverToolUseCount = 0
    BY DEF Init, newStreamState
  <2> QED
    BY <2>1, <2>2, <1>2, FS_EmptySet DEF Accounted
<1> QED
  BY <1>1, <1>2, <1>3, <1>7, <1>8 DEF IInv, Init

LEMMA NextKeepsIInv ==
    ASSUME IInv, [Next]_vars
    PROVE  IInv'
<1>1. CASE HandlerStep
  BY <1>1, HandlerStepKeepsIInv
<1>2. Len(bridge.out) \in Nat
  BY DEF IInv, Bridge
<1>3. CASE Deliver
  BY <1>2, <1>3 DEF Deliver, IInv
<1>4. CASE WriteFails
  BY <1>4 DEF WriteFails, IInv
<1>5. CASE ReaderClosed
  BY <1>5 DEF ReaderClosed, IInv
<1>6. CASE Cancel
  BY <1>6 DEF Cancel, IInv
<1>7. CASE UNCHANGED vars
  BY <1>7 DEF vars, IInv
<1> QED
  BY <1>1, <1>3, <1>4, <1>5, <1>6, <1>7, Steps

\* Every value the bridge keeps has its type, for every set of items, outputs
\* and parts and any upstream: no handler can leave an index the maps of
\* streamState cannot hold, or count a frame as written that was not sent.
THEOREM TypeCorrect == Spec => []TypeOK
<1>1. Init => IInv
  BY InitEstablishesIInv
<1>2. IInv /\ [Next]_vars => IInv'
  BY NextKeepsIInv
<1>3. IInv => TypeOK
  BY DEF IInv, TypeOK
<1> QED
  BY <1>1, <1>2, <1>3, PTL DEF Spec

\* A stop reason of tool_use has its tool_use block before it, whichever of the
\* five places set toolUsed, for any upstream.
THEOREM ToolUseStopsHaveToolBlocks == Spec => []ToolUseStopHasToolBlock
<1>1. Init => IInv
  BY InitEstablishesIInv
<1>2. IInv /\ [Next]_vars => IInv'
  BY NextKeepsIInv
<1>3. IInv => ToolUseStopHasToolBlock
  <2> SUFFICES ASSUME IInv, NEW k \in DOMAIN bridge.out, ToolStop(bridge.out[k])
               PROVE  \E j \in 1 .. (k - 1) : /\ bridge.out[j].type = "content_block_start"
                                              /\ bridge.out[j].what = "tool_use"
    BY DEF ToolUseStopHasToolBlock, ToolStop
  <2>1. bridge.out \in Seq(Frame) /\ k \in 1 .. Len(bridge.out)
    BY DEF IInv, Bridge
  <2>2. PICK j \in Starts(bridge.out, "tool_use") : j < k
    BY <2>1 DEF IInv, Accounted
  <2> QED
    BY <2>1, <2>2 DEF Starts
<1> QED
  BY <1>1, <1>2, <1>3, PTL DEF Spec

\* The searches reported in usage are the server_tool_use blocks the client got,
\* each with its result, for any order and repetition of their events.
THEOREM SearchesAreCounted == Spec => []WebSearchesCounted
<1>1. Init => IInv
  BY InitEstablishesIInv
<1>2. IInv /\ [Next]_vars => IInv'
  BY NextKeepsIInv
<1>3. IInv => WebSearchesCounted
  <2> SUFFICES ASSUME IInv
               PROVE  WebSearchesCounted
    OBVIOUS
  <2>1. \A what : {k \in DOMAIN bridge.out : /\ bridge.out[k].type = "content_block_start"
                                             /\ bridge.out[k].what = what}
                  = Starts(bridge.out, what)
    BY DEF IInv, Bridge, Starts
  <2> QED
    BY <2>1 DEF IInv, Accounted, WebSearchesCounted
<1> QED
  BY <1>1, <1>2, <1>3, PTL DEF Spec

-----------------------------------------------------------------------------
(* Refinement of the ledger                                                 *)

\* The next frame of a well-formed sequence is admissible after the frames
\* before it.
LEMMA NextFrameAdmissible ==
    ASSUME NEW s \in Seq(Frame), WellFormed(s), NEW n \in Nat, n < Len(s)
    PROVE  /\ SubSeq(s, 1, n + 1) = Append(SubSeq(s, 1, n), s[n + 1])
           /\ Ledger!Admissible(SubSeq(s, 1, n), s[n + 1])
<1> DEFINE t == SubSeq(s, 1, n)
<1>1. t \in Seq(Frame) /\ Len(t) = n /\ DOMAIN t = 1 .. n /\ \A i \in 1 .. n : t[i] = s[i]
  OBVIOUS
<1>2. SubSeq(s, 1, n + 1) = Append(t, s[n + 1])
  OBVIOUS
<1> HIDE DEF t
<1>3. FrameOK(s, n + 1)
  BY DEF WellFormed
<1>4. 1 .. ((n + 1) - 1) = DOMAIN t
  BY <1>1
<1>5. Ledger!Opened(t) = OpenedBefore(s, n + 1)
  BY <1>1, <1>4 DEF Ledger!Opened, Ledger!Indices, OpenedBefore
<1>6. Ledger!Closed(t) = ClosedBefore(s, n + 1)
  BY <1>1, <1>4 DEF Ledger!Closed, Ledger!Indices, ClosedBefore
<1>7. \A type : Ledger!Contains(t, type) <=> ~ NoneBefore(s, n + 1, type)
  BY <1>1, <1>4 DEF Ledger!Contains, NoneBefore
<1>8. Ledger!Admissible(t, s[n + 1])
  BY <1>3, <1>5, <1>6, <1>7 DEF FrameOK, Ledger!Admissible
<1> QED
  BY <1>2, <1>8 DEF t

LEMMA DeliverIsALedgerStep ==
    ASSUME IInv, Deliver
    PROVE  Ledger!Next
<1>1. /\ bridge.out \in Seq(Frame) /\ WellFormed(bridge.out)
      /\ delivered \in Nat /\ delivered < Len(bridge.out)
      /\ bridge' = bridge /\ delivered' = delivered + 1
  BY DEF IInv, Deliver, Bridge
<1> DEFINE f == bridge.out[delivered + 1]
<1>2. ClientStream' = Append(ClientStream, f) /\ Ledger!Admissible(ClientStream, f)
  BY <1>1, NextFrameAdmissible DEF ClientStream
<1>3. ClientStream' = SubSeq(bridge.out, 1, delivered + 1)
  BY <1>1 DEF ClientStream
<1>4. delivered + 1 \in DOMAIN ClientStream' /\ ClientStream'[delivered + 1] = f
  BY <1>1, <1>3
<1> QED
  BY <1>2, <1>4 DEF Ledger!Next

LEMMA NextRefinesLedger ==
    ASSUME IInv, [Next]_vars
    PROVE  [Ledger!Next]_ClientStream
<1>1. CASE HandlerStep
  BY <1>1, HandlerStepKeepsIInv
<1>2. CASE Deliver
  BY <1>2, DeliverIsALedgerStep
<1>3. CASE WriteFails \/ ReaderClosed \/ Cancel \/ UNCHANGED vars
  BY <1>3 DEF WriteFails, ReaderClosed, Cancel, vars, ClientStream
<1> QED
  BY <1>1, <1>2, <1>3, Steps

\* What the client reads is a ledger of content blocks in every run, for any
\* upstream: handleOpenAIEvent never reuses a block index, never closes a block
\* twice or before it was opened, never sends a delta for a block it did not
\* open, sends message_start once and nothing after an error.
THEOREM LedgerRefinement == Spec => BlocksAreALedger
<1>1. Init => IInv
  BY InitEstablishesIInv
<1>2. IInv /\ [Next]_vars => IInv'
  BY NextKeepsIInv
<1>3. Init => Ledger!Init
  BY DEF Init, newStreamState, Ledger!Init, ClientStream
<1>4. IInv /\ [Next]_vars => [Ledger!Next]_ClientStream
  BY NextRefinesLedger
<1> QED
  BY <1>1, <1>2, <1>3, <1>4, PTL DEF Spec, BlocksAreALedger, Ledger!Spec
=============================================================================
