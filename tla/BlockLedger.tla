---------------------------- MODULE BlockLedger ----------------------------
(***************************************************************************)
(* What a client may rely on in every stream the bridge writes, whatever   *)
(* the upstream sends: message_start comes at most once, content blocks    *)
(* are opened under the indices 0, 1, 2, ... with no gap and no            *)
(* repetition, a block is closed at most once and never before it was      *)
(* opened, a delta names a block that was opened, and an error event is    *)
(* the last event.                                                         *)
(*                                                                         *)
(* A stream is the sequence of frames the client has read so far.          *)
(***************************************************************************)
EXTENDS Integers, Sequences

VARIABLE stream

Indices(s, type) ==
    {s[k].index : k \in {j \in DOMAIN s : s[j].type = type}}

Opened(s) == Indices(s, "content_block_start")
Closed(s) == Indices(s, "content_block_stop")

Contains(s, type) == \E k \in DOMAIN s : s[k].type = type

\* Whether frame f may follow the stream s.
Admissible(s, f) ==
    /\ ~ Contains(s, "error")
    /\ f.type = "message_start"       => ~ Contains(s, "message_start")
    /\ f.type = "content_block_start" => Opened(s) = 0 .. (f.index - 1) /\ f.index >= 0
    /\ f.type = "content_block_delta" => f.index \in Opened(s)
    /\ f.type = "content_block_stop"  => f.index \in Opened(s) \ Closed(s)

Init == stream = << >>

\* One more frame arrives: it is the last one of the next state.
Next ==
    \E k \in DOMAIN stream' :
        /\ stream' = Append(stream, stream'[k])
        /\ Admissible(stream, stream'[k])

Spec == Init /\ [][Next]_stream
=============================================================================
