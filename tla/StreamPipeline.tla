--------------------------- MODULE StreamPipeline ---------------------------
(***************************************************************************)
(* How a streamed response gets from the upstream's connection to the      *)
(* bridge: the goroutine of sse.Read scans lines, gathers them into events *)
(* and sends each on an unbuffered channel; BridgeOpenAIStream selects     *)
(* between that channel and the request's context; handleStream takes what *)
(* BridgeOpenAIStream returns, polls the channel of errors once and closes *)
(* the body.  What the bridge makes of an event is module StreamBridge;    *)
(* here it decodes the event, writes the frames it makes of it, if any,    *)
(* and either goes on or returns an error.  A write returns when the       *)
(* client reads or its connection is gone: the server sets no time limit   *)
(* on it.                                                                  *)
(*                                                                         *)
(* A payload is kept in memory and read by its address when the bridge     *)
(* decodes it, after the reader has gone on: that is what the copy in      *)
(* flush is for.  Address 0 is the reader's own buffer.                    *)
(***************************************************************************)
EXTENDS Naturals, Sequences, FiniteSets

CONSTANTS Names,     \* the values of event: lines, "" for a blank one
          Texts,     \* the values of data: lines
          MaxLines   \* bound on the lines of a body

ASSUME LinesAssumption == MaxLines \in Nat

VARIABLES wire,      \* the lines scanned so far
          body,      \* what the scanner met: "open", "ended" or "failed"
          reader,    \* the goroutine of sse.Read
          heap,      \* the payloads flush has copied
          eventsClosed,  \* the channel of events
          errs,      \* the buffer of the channel of errors
          handler,   \* the goroutine of handleStream
          canceled,  \* the request's context
          stalled,   \* the client reads no more and keeps its connection
          decoded    \* the events the bridge has decoded, as it saw them

vars == <<wire, body, reader, heap, eventsClosed, errs, handler, canceled, stalled, decoded>>

Line == [kind : {"event"}, value : Names] \cup [kind : {"data"}, value : Texts]
        \cup [kind : {"blank", "comment"}, value : {""}]

\* The name of an event, "" if there was none, and its lines of data.
Name == Names \cup {""}
Content == Seq(Texts)
Offer == [name : Name, at : Nat]

NoEvent == [name |-> "", at |-> 0]

\* name and data are the goroutine's variables, offer the event it blocks on,
\* next the name it takes once the send is through ("" after a blank line).
Reader == [pc : {"scan", "send", "sendLast", "fail", "closeErrs", "closeEvents", "done"},
           name : Name, data : Content, offer : Offer, next : Name]

\* event is the one being handled, result what BridgeOpenAIStream returned,
\* told whether the client was sent an error frame, logged what the poll found.
Handler == [pc : {"select", "handle", "write", "report", "poll", "leave", "done"}, event : Offer,
            result : {"none", "nil", "canceled", "error"}, told : BOOLEAN, logged : BOOLEAN]

\* An address that is in use is the reader's buffer or that of a copy.
TypeOK ==
    /\ wire \in Seq(Line) /\ Len(wire) <= MaxLines
    /\ body \in {"open", "ended", "failed"}
    /\ reader \in Reader /\ reader.offer.at <= Len(heap)
    /\ heap \in Seq(Content)
    /\ eventsClosed \in BOOLEAN
    /\ errs \in [full : BOOLEAN, closed : BOOLEAN]
    /\ handler \in Handler /\ handler.event.at <= Len(heap)
    /\ canceled \in BOOLEAN /\ stalled \in BOOLEAN
    /\ decoded \in Seq([name : Name, data : Content])

Init ==
    /\ wire = << >> /\ body = "open" /\ heap = << >> /\ decoded = << >>
    /\ reader = [pc |-> "scan", name |-> "", data |-> << >>, offer |-> NoEvent, next |-> ""]
    /\ eventsClosed = FALSE /\ errs = [full |-> FALSE, closed |-> FALSE]
    /\ handler = [pc |-> "select", event |-> NoEvent, result |-> "none",
                  told |-> FALSE, logged |-> FALSE]
    /\ canceled = FALSE /\ stalled = FALSE

-----------------------------------------------------------------------------
\* The goroutine of sse.Read.

Pending == reader.data # << >> \/ reader.name # ""

flush_noCopy(pc, next) ==
    /\ heap' = heap
    /\ reader' = [reader EXCEPT !.pc = pc, !.next = next,
                                !.offer = [name |-> reader.name, at |-> 0]]

flush_copiesLate(pc, next) ==
    /\ heap' = heap
    /\ reader' = [reader EXCEPT !.pc = pc, !.next = next,
                                !.offer = [name |-> reader.name, at |-> Len(heap) + 1]]

\* flush up to its send: the payload is copied and offered.
flush(pc, next) ==
    /\ heap' = Append(heap, reader.data)
    /\ reader' = [reader EXCEPT !.pc = pc, !.next = next,
                                !.offer = [name |-> reader.name, at |-> Len(heap) + 1]]

Scanning == reader.pc = "scan" /\ body = "open"

Arrives(line) ==
    /\ Scanning /\ Len(wire) < MaxLines
    /\ wire' = Append(wire, line)
    /\ UNCHANGED <<body, eventsClosed, errs, handler, canceled, stalled, decoded>>

BlankLine ==
    /\ Arrives([kind |-> "blank", value |-> ""])
    /\ IF Pending THEN flush("send", "") ELSE UNCHANGED <<reader, heap>>

NameLine(n) ==
    /\ Arrives([kind |-> "event", value |-> n])
    /\ IF reader.data # << >> THEN flush("send", n)
       ELSE reader' = [reader EXCEPT !.name = n] /\ UNCHANGED heap

DataLine(d) ==
    /\ Arrives([kind |-> "data", value |-> d])
    /\ reader' = [reader EXCEPT !.data = Append(@, d)]
    /\ UNCHANGED heap

CommentLine ==
    /\ Arrives([kind |-> "comment", value |-> ""])
    /\ UNCHANGED <<reader, heap>>

\* The body ends: what is pending is the last event.
ScanEnds ==
    /\ Scanning /\ body' = "ended"
    /\ IF Pending THEN flush("sendLast", "")
       ELSE reader' = [reader EXCEPT !.pc = "closeErrs"] /\ UNCHANGED heap
    /\ UNCHANGED <<wire, eventsClosed, errs, handler, canceled, stalled, decoded>>

ScanFails_closesFirst ==
    /\ Scanning /\ body' = "failed"
    /\ reader' = [reader EXCEPT !.pc = "fail"]
    /\ eventsClosed' = TRUE
    /\ UNCHANGED <<wire, heap, errs, handler, canceled, stalled, decoded>>

\* The connection breaks, the client's timeout fires, the request is canceled,
\* the body is closed, or a line exceeds the scanner's buffer.
ScanFails ==
    /\ Scanning /\ body' = "failed"
    /\ reader' = [reader EXCEPT !.pc = "fail"]
    /\ UNCHANGED <<wire, heap, eventsClosed, errs, handler, canceled, stalled, decoded>>

ErrsCapacity_unbuffered == 0

ErrsCapacity == 1

PutError ==
    /\ reader.pc = "fail"
    /\ (IF errs.full THEN 1 ELSE 0) < ErrsCapacity
    /\ errs' = [errs EXCEPT !.full = TRUE]
    /\ reader' = [reader EXCEPT !.pc = "closeErrs"]
    /\ UNCHANGED <<wire, body, heap, eventsClosed, handler, canceled, stalled, decoded>>

CloseErrs_only ==
    /\ reader.pc = "closeErrs"
    /\ errs' = [errs EXCEPT !.closed = TRUE]
    /\ reader' = [reader EXCEPT !.pc = "done"]
    /\ UNCHANGED <<wire, body, heap, eventsClosed, handler, canceled, stalled, decoded>>

\* The deferred closes, the last one deferred first.
CloseErrs ==
    /\ reader.pc = "closeErrs"
    /\ errs' = [errs EXCEPT !.closed = TRUE]
    /\ reader' = [reader EXCEPT !.pc = "closeEvents"]
    /\ UNCHANGED <<wire, body, heap, eventsClosed, handler, canceled, stalled, decoded>>

CloseEvents ==
    /\ reader.pc = "closeEvents"
    /\ eventsClosed' = TRUE
    /\ reader' = [reader EXCEPT !.pc = "done"]
    /\ UNCHANGED <<wire, body, heap, errs, handler, canceled, stalled, decoded>>
-----------------------------------------------------------------------------
\* The goroutine of handleStream.

\* The channel is unbuffered: the send and the receive are one step, after
\* which the reader resets its variables and goes on.
Handoff ==
    /\ reader.pc \in {"send", "sendLast"} /\ handler.pc = "select"
    /\ handler' = [handler EXCEPT !.pc = "handle", !.event = reader.offer]
    /\ reader' = [reader EXCEPT !.pc = IF @ = "send" THEN "scan" ELSE "closeErrs",
                                !.name = reader.next, !.data = << >>,
                                !.offer = NoEvent, !.next = ""]
    /\ UNCHANGED <<wire, body, heap, eventsClosed, errs, canceled, stalled, decoded>>

\* The bytes at an address, as they are now.
Payload(at) == IF at = 0 THEN reader.data ELSE heap[at]

Decode ==
    decoded' = Append(decoded, [name |-> handler.event.name, data |-> Payload(handler.event.at)])

Returned(result) ==
    handler' = [handler EXCEPT !.pc = "report", !.event = NoEvent, !.result = result]

\* Nothing of the event is for the client; one without data is never looked at.
EventHandled ==
    /\ handler.pc = "handle"
    /\ Decode
    /\ handler' = [handler EXCEPT !.pc = "select", !.event = NoEvent]
    /\ UNCHANGED <<wire, body, reader, heap, eventsClosed, errs, canceled, stalled>>

\* The event is fatal.
EventFails ==
    /\ handler.pc = "handle" /\ Payload(handler.event.at) # << >>
    /\ Decode
    /\ Returned("error")
    /\ UNCHANGED <<wire, body, reader, heap, eventsClosed, errs, canceled, stalled>>

\* The event makes frames for the client.
EventTranslated ==
    /\ handler.pc = "handle" /\ Payload(handler.event.at) # << >>
    /\ Decode
    /\ handler' = [handler EXCEPT !.pc = "write", !.event = NoEvent]
    /\ UNCHANGED <<wire, body, reader, heap, eventsClosed, errs, canceled, stalled>>

\* A write returns: the client takes the frame, or its connection is gone.
WriteReturns == ~ stalled \/ canceled

FramesWritten ==
    /\ handler.pc = "write" /\ WriteReturns
    /\ handler' = [handler EXCEPT !.pc = "select"]
    /\ UNCHANGED <<wire, body, reader, heap, eventsClosed, errs, canceled, stalled, decoded>>

WriteFails ==
    /\ handler.pc = "write" /\ WriteReturns
    /\ Returned("error")
    /\ UNCHANGED <<wire, body, reader, heap, eventsClosed, errs, canceled, stalled, decoded>>

ReaderClosed ==
    /\ handler.pc = "select" /\ eventsClosed
    /\ Returned("nil")
    /\ UNCHANGED <<wire, body, reader, heap, eventsClosed, errs, canceled, stalled, decoded>>

ContextDone ==
    /\ handler.pc = "select" /\ canceled
    /\ Returned("canceled")
    /\ UNCHANGED <<wire, body, reader, heap, eventsClosed, errs, canceled, stalled, decoded>>

\* The error frame; nobody is told that a request was canceled.
Report ==
    /\ handler.pc = "report" /\ (handler.result = "error" => WriteReturns)
    /\ handler' = [handler EXCEPT !.pc = "poll", !.told = (handler.result = "error")]
    /\ UNCHANGED <<wire, body, reader, heap, eventsClosed, errs, canceled, stalled, decoded>>

\* One receive that does not block.
Poll ==
    /\ handler.pc = "poll"
    /\ handler' = [handler EXCEPT !.pc = "leave", !.logged = errs.full]
    /\ errs' = [errs EXCEPT !.full = FALSE]
    /\ UNCHANGED <<wire, body, reader, heap, eventsClosed, canceled, stalled, decoded>>

\* The body is closed and the server cancels the request's context: whatever
\* the reader reads from then on may fail.
Leave ==
    /\ handler.pc = "leave"
    /\ handler' = [handler EXCEPT !.pc = "done"]
    /\ canceled' = TRUE
    /\ UNCHANGED <<wire, body, reader, heap, eventsClosed, errs, stalled, decoded>>

\* The client goes away.
Cancel ==
    /\ handler.pc # "done" /\ ~ canceled
    /\ canceled' = TRUE
    /\ UNCHANGED <<wire, body, reader, heap, eventsClosed, errs, handler, stalled, decoded>>

\* The client reads no more and the connection's buffers are full: a write
\* waits until the client closes it.  One that reads again was only slow.
Stall ==
    /\ handler.pc # "done" /\ ~ canceled /\ ~ stalled
    /\ stalled' = TRUE
    /\ UNCHANGED <<wire, body, reader, heap, eventsClosed, errs, handler, canceled, decoded>>

-----------------------------------------------------------------------------
ScanLine == BlankLine \/ CommentLine \/ (\E n \in Names : NameLine(n)) \/ (\E d \in Texts : DataLine(d))

Read == ScanLine \/ ScanEnds \/ ScanFails \/ PutError \/ CloseErrs \/ CloseEvents

HandleStream ==
    \/ Handoff \/ EventHandled \/ EventFails \/ EventTranslated \/ FramesWritten \/ WriteFails
    \/ ReaderClosed \/ ContextDone \/ Report \/ Poll \/ Leave

Client == Cancel \/ Stall

Next == Read \/ HandleStream \/ Client

\* Both goroutines are scheduled; a read returns, because the upstream sends
\* or ends, or because the client's timeout, which covers the body, fires.
\* A write need not return: a step of the handler that writes is not enabled
\* while the client has stalled.  Nothing is assumed of the client.
Fairness == WF_vars(Read) /\ WF_vars(HandleStream)

Spec == Init /\ [][Next]_vars /\ Fairness

-----------------------------------------------------------------------------
\* How the stream ended, for the one who consumed it.
Ended ==
    IF handler.pc \in {"select", "handle", "write", "report"} THEN "no"
    ELSE IF handler.result # "nil" THEN "abandoned"
    ELSE IF body = "ended" THEN "whole" ELSE "cut"

Feed == INSTANCE EventFeed WITH arrived <- wire, over <- (body = "ended"), received <- decoded, ended <- Ended

\* The bridge sees the events of the body in order, each with the data lines
\* that belong to it as they were sent, and all of them unless it gave up
\* (sse.Read, and the select loop of BridgeOpenAIStream).
EventsInOrder == Feed!Feed

\* A read error after which the bridge saw the channel closed is in the channel
\* of errors when handleStream polls it, and only a read error is logged.
FailureNoticed ==
    /\ handler.pc \in {"leave", "done"} /\ handler.result = "nil" =>
          (handler.logged <=> body = "failed")
    /\ handler.logged => body = "failed"

\* handleStream is in a write that does not return.
WaitsForClient == handler.pc \in {"write", "report"} /\ ~ WriteReturns

\* handleStream returns, whatever the upstream, the bridge and the client do,
\* unless it is held for good by a client that stops reading and keeps its
\* connection: the http.Server has no WriteTimeout, and nothing else ends such
\* a write.
HandlerReturns == <>(handler.pc = "done") \/ <>[]WaitsForClient

\* The reader's goroutine ends, except if it is left behind in a send: because
\* the bridge returned before the channel was closed, so that nobody receives
\* any more and the goroutine is lost for good; or because handleStream is held
\* by its client.
ReaderEnds ==
    <>[](\/ reader.pc = "done"
         \/ /\ reader.pc \in {"send", "sendLast"}
            /\ \/ handler.pc = "done" /\ handler.result # "nil"
               \/ WaitsForClient)
=============================================================================
