------------------------- MODULE StreamPipelineProof -------------------------
(***************************************************************************)
(* Proofs about StreamPipeline, for bodies of any length: its types, that  *)
(* a read error never gets lost between the reader's goroutine and the end *)
(* of handleStream, and that the bridge sees the events of the body, as    *)
(* EventFeed defines them from its lines.                                  *)
(***************************************************************************)
EXTENDS StreamPipeline, FiniteSetTheorems, WellFoundedInduction, TLAPS

Closing == {"closeErrs", "closeEvents", "done"}

Bridging == {"select", "handle", "write"}

\* Where the error of the body is: with the reader until it is in the channel,
\* in the channel until the poll, and logged from then on.  The channel of
\* events is closed only after that, and a bridge that returned nil saw it so.
ErrorKept ==
    /\ reader.pc = "fail" => body = "failed"
    /\ body = "failed" => reader.pc \in Closing \cup {"fail"}
    /\ errs.full => body = "failed"
    /\ body = "failed" /\ reader.pc \in Closing /\ handler.pc \in Bridging \cup {"report", "poll"}
          => errs.full
    /\ eventsClosed => reader.pc = "done"
    /\ handler.pc \in Bridging => handler.result = "none"
    /\ handler.result = "nil" => reader.pc = "done"

IInv == TypeOK /\ ErrorKept /\ FailureNoticed

\* What the types of names, payloads and offers contain.
LEMMA Members ==
    /\ "" \in Name /\ << >> \in Content /\ NoEvent \in Offer /\ NoEvent.at = 0
    /\ \A n \in Names : n \in Name
    /\ \A n \in Name, k \in Nat : [name |-> n, at |-> k] \in Offer
    /\ \A c \in Content, d \in Texts : Append(c, d) \in Content
    /\ \A e \in Offer : e.name \in Name /\ e.at \in Nat
<1>1. "" \in Name /\ \A n \in Names : n \in Name
  BY DEF Name
<1>2. << >> \in Content /\ \A c \in Content, d \in Texts : Append(c, d) \in Content
  BY DEF Content
<1>3. \A n \in Name, k \in Nat : [name |-> n, at |-> k] \in Offer
  BY DEF Offer
<1>4. NoEvent \in Offer /\ NoEvent.at = 0
  BY <1>1, <1>3 DEF NoEvent
<1>5. \A e \in Offer : e.name \in Name /\ e.at \in Nat
  BY DEF Offer
<1> QED BY <1>1, <1>2, <1>3, <1>4, <1>5

\* The variables of reader and handler that hold names, payloads and addresses.
LEMMA Addresses ==
    ASSUME TypeOK
    PROVE  /\ Len(heap) \in Nat
           /\ reader.offer \in Offer /\ handler.event \in Offer
           /\ reader.offer.at \in Nat /\ handler.event.at \in Nat
           /\ reader.data \in Content /\ reader.name \in Name /\ reader.next \in Name
<1>1. reader.offer \in Offer /\ reader.data \in Content /\ reader.name \in Name /\ reader.next \in Name
  BY DEF TypeOK, Reader
<1>2. handler.event \in Offer
  BY DEF TypeOK, Handler
<1>3. Len(heap) \in Nat
  BY DEF TypeOK
<1> QED BY <1>1, <1>2, <1>3, Members

\* A flush appends the payload to the heap and offers its address.
LEMMA FlushTypes ==
    ASSUME TypeOK, NEW pc \in {"send", "sendLast"}, NEW next \in Name, flush(pc, next)
    PROVE  /\ heap' \in Seq(Content) /\ Len(heap') = Len(heap) + 1
           /\ reader' \in Reader /\ reader'.offer.at <= Len(heap')
           /\ reader'.pc = pc
<1>1. heap \in Seq(Content) /\ reader \in Reader /\ Len(heap) \in Nat
  BY DEF TypeOK
<1>2. reader.data \in Content /\ reader.name \in Name
  BY <1>1 DEF Reader
<1>3. heap' \in Seq(Content) /\ Len(heap') = Len(heap) + 1
  BY <1>1, <1>2 DEF flush
<1> DEFINE offer == [name |-> reader.name, at |-> Len(heap) + 1]
<1>4. offer \in Offer /\ offer.at = Len(heap) + 1
  <2>1. Len(heap) + 1 \in Nat
    BY <1>1
  <2> QED BY <1>2, <2>1, Members
<1>5. reader' = [reader EXCEPT !.pc = pc, !.next = next, !.offer = offer]
  BY DEF flush
<1> HIDE DEF offer
<1>6. reader' \in Reader /\ reader'.offer = offer /\ reader'.pc = pc
  BY <1>1, <1>4, <1>5 DEF Reader
<1> QED BY <1>1, <1>3, <1>4, <1>6

\* A step that flushes keeps the types, if what it does besides does.
LEMMA FlushKeepsTypes ==
    ASSUME TypeOK, NEW pc \in {"send", "sendLast"}, NEW next \in Name, flush(pc, next),
           wire' \in Seq(Line) /\ Len(wire') <= MaxLines, body' \in {"open", "ended", "failed"},
           UNCHANGED <<eventsClosed, errs, handler, canceled, stalled, decoded>>
    PROVE  TypeOK'
<1>1. handler.event.at <= Len(heap')
  <2>1. handler.event.at <= Len(heap)
    BY DEF TypeOK
  <2> QED BY <2>1, FlushTypes, Addresses
<1> QED BY <1>1, FlushTypes DEF TypeOK

\* A line within the bound keeps the body's type.
LEMMA WireTypes ==
    ASSUME TypeOK, NEW line \in Line, Arrives(line)
    PROVE  wire' \in Seq(Line) /\ Len(wire') <= MaxLines
  BY LinesAssumption DEF TypeOK, Arrives

\* The steps of sse.Read keep the types.
LEMMA ReadTypes == ASSUME TypeOK, Read PROVE TypeOK'
<1> USE DEF TypeOK
<1>1. CASE BlankLine
  <2>1. wire' \in Seq(Line) /\ Len(wire') <= MaxLines
    BY <1>1, WireTypes DEF BlankLine, Line
  <2>2. CASE flush("send", "")
    BY <1>1, <2>1, <2>2, FlushKeepsTypes, Members DEF BlankLine, Arrives
  <2>3. CASE UNCHANGED <<reader, heap>>
    BY <1>1, <2>1, <2>3 DEF BlankLine, Arrives
  <2> QED BY <1>1, <2>2, <2>3 DEF BlankLine
<1>2. CASE CommentLine
  <2>1. wire' \in Seq(Line) /\ Len(wire') <= MaxLines
    BY <1>2, WireTypes DEF CommentLine, Line
  <2> QED BY <1>2, <2>1 DEF CommentLine, Arrives
<1>3. ASSUME NEW n \in Names, NameLine(n) PROVE TypeOK'
  <2>1. wire' \in Seq(Line) /\ Len(wire') <= MaxLines
    BY <1>3, WireTypes DEF NameLine, Line
  <2>2. CASE flush("send", n)
    BY <1>3, <2>1, <2>2, FlushKeepsTypes, Members DEF NameLine, Arrives
  <2>3. CASE reader' = [reader EXCEPT !.name = n] /\ UNCHANGED heap
    <3>1. reader' \in Reader /\ reader'.offer = reader.offer
      BY <2>3, Members, Addresses DEF Reader
    <3> QED BY <1>3, <2>1, <2>3, <3>1 DEF NameLine, Arrives
  <2> QED BY <1>3, <2>2, <2>3 DEF NameLine
<1>4. ASSUME NEW d \in Texts, DataLine(d) PROVE TypeOK'
  <2>1. wire' \in Seq(Line) /\ Len(wire') <= MaxLines
    BY <1>4, WireTypes DEF DataLine, Line
  <2>2. reader' \in Reader /\ reader'.offer = reader.offer
    <3>1. Append(reader.data, d) \in Content
      BY Members DEF Reader
    <3> QED BY <1>4, <3>1 DEF DataLine, Reader
  <2> QED BY <1>4, <2>1, <2>2 DEF DataLine, Arrives
<1>5. CASE ScanEnds
  <2>1. CASE flush("sendLast", "")
    BY <1>5, <2>1, FlushKeepsTypes, Members DEF ScanEnds
  <2>2. CASE reader' = [reader EXCEPT !.pc = "closeErrs"] /\ UNCHANGED heap
    BY <1>5, <2>2 DEF ScanEnds, Reader
  <2> QED BY <1>5, <2>1, <2>2 DEF ScanEnds
<1>6. CASE ScanFails
  BY <1>6 DEF ScanFails, Reader
<1>7. CASE PutError \/ CloseErrs \/ CloseEvents
  BY <1>7 DEF PutError, CloseErrs, CloseEvents, Reader
<1> QED BY <1>1, <1>2, <1>3, <1>4, <1>5, <1>6, <1>7 DEF Read, ScanLine

\* The steps of handleStream and the client keep the types.
LEMMA HandleTypes == ASSUME TypeOK, HandleStream \/ Client PROVE TypeOK'
<1>0. NoEvent.at = 0 /\ Len(heap) \in Nat /\ reader.offer.at <= Len(heap)
  <2>1. NoEvent.at = 0
    BY Members
  <2>2. Len(heap) \in Nat
    BY Addresses
  <2>3. reader.offer.at <= Len(heap)
    BY DEF TypeOK
  <2> QED BY <2>1, <2>2, <2>3
<1> USE DEF TypeOK
<1>1. CASE Handoff
  <2>1. reader.offer \in Offer /\ reader.next \in Name /\ reader.offer.at <= Len(heap)
    BY DEF Reader
  <2>2. handler' \in Handler /\ handler'.event = reader.offer
    BY <1>1, <2>1 DEF Handoff, Handler
  <2>3. reader' \in Reader /\ reader'.offer = NoEvent
    BY <1>1, <2>1, Members DEF Handoff, Reader
  <2>4. reader'.offer.at <= Len(heap) /\ handler'.event.at <= Len(heap)
    BY <1>0, <2>2, <2>3
  <2>5. UNCHANGED <<wire, body, heap, eventsClosed, errs, canceled, stalled, decoded>>
    BY <1>1 DEF Handoff
  <2> QED BY <2>2, <2>3, <2>4, <2>5
<1>2. CASE EventHandled \/ EventFails \/ EventTranslated
  <2>1. handler.event.name \in Name /\ Payload(handler.event.at) \in Content
    <3>1. handler.event.at # 0 => heap[handler.event.at] \in Content
      BY Addresses
    <3> QED BY <3>1, Members, Addresses DEF Payload
  <2>2. decoded' \in Seq([name : Name, data : Content])
    <3> DEFINE entry == [name |-> handler.event.name, data |-> Payload(handler.event.at)]
    <3>1. decoded' = Append(decoded, entry)
      BY <1>2 DEF EventHandled, EventFails, EventTranslated, Decode
    <3>2. entry \in [name : Name, data : Content]
      BY <2>1
    <3> HIDE DEF entry
    <3> QED BY <3>1, <3>2
  <2>3. handler' \in Handler /\ handler'.event = NoEvent
    BY <1>2, Members DEF EventHandled, EventFails, EventTranslated, Returned, Handler
  <2>4. handler'.event.at <= Len(heap)
    BY <1>0, <2>3
  <2>5. UNCHANGED <<wire, body, reader, heap, eventsClosed, errs, canceled, stalled>>
    BY <1>2 DEF EventHandled, EventFails, EventTranslated
  <2> QED BY <2>2, <2>3, <2>4, <2>5
<1>3. CASE ReaderClosed \/ ContextDone \/ WriteFails
  <2>1. handler' \in Handler /\ handler'.event = NoEvent
    BY <1>3, Members DEF WriteFails, ReaderClosed, ContextDone, Returned, Handler
  <2>2. handler'.event.at <= Len(heap)
    BY <1>0, <2>1
  <2>3. UNCHANGED <<wire, body, reader, heap, eventsClosed, errs, canceled, stalled, decoded>>
    BY <1>3 DEF WriteFails, ReaderClosed, ContextDone
  <2> QED BY <2>1, <2>2, <2>3
<1>4. CASE Report \/ FramesWritten
  BY <1>4 DEF Report, FramesWritten, Handler
<1>5. CASE Poll \/ Leave \/ Client
  BY <1>5 DEF Poll, Leave, Client, Cancel, Stall, Handler
<1> QED BY <1>1, <1>2, <1>3, <1>4, <1>5 DEF HandleStream

\* Every step keeps the types.
LEMMA TypesInductive == ASSUME TypeOK, [Next]_vars PROVE TypeOK'
<1>1. CASE UNCHANGED vars
  BY <1>1 DEF vars, TypeOK
<1> QED BY <1>1, ReadTypes, HandleTypes DEF Next

\* What a step of the reader may do to the error.
LEMMA ReadKeepsError == ASSUME IInv, Read PROVE (ErrorKept /\ FailureNoticed)'
<1> USE DEF IInv, ErrorKept, FailureNoticed, Closing, Bridging
<1>1. CASE ScanLine
  <2>1. /\ UNCHANGED <<body, eventsClosed, errs, handler>>
        /\ reader.pc = "scan" /\ body = "open"
        /\ reader'.pc \in {"scan", "send"}
    BY <1>1 DEF ScanLine, BlankLine, CommentLine, NameLine, DataLine, Arrives, Scanning,
                flush, TypeOK, Reader
  <2> QED BY <2>1
<1>2. CASE ScanEnds
  <2>1. reader'.pc \in {"sendLast", "closeErrs"}
    BY <1>2, FlushTypes, Members, Addresses DEF ScanEnds, TypeOK, Reader
  <2> QED BY <1>2, <2>1 DEF ScanEnds, Scanning
<1>3. CASE ScanFails
  BY <1>3 DEF ScanFails, Scanning, TypeOK, Reader
<1>4. CASE PutError
  BY <1>4 DEF PutError, TypeOK, Reader
<1>5. CASE CloseErrs \/ CloseEvents
  BY <1>5 DEF CloseErrs, CloseEvents, TypeOK, Reader
<1> QED BY <1>1, <1>2, <1>3, <1>4, <1>5 DEF Read

\* What a step of the handler or the client may do to the error.
LEMMA HandleKeepsError ==
    ASSUME IInv, HandleStream \/ Client PROVE (ErrorKept /\ FailureNoticed)'
<1> USE DEF IInv, ErrorKept, FailureNoticed, Closing, Bridging
<1>1. CASE Handoff
  <2>1. /\ UNCHANGED <<body, eventsClosed, errs>>
        /\ reader.pc \in {"send", "sendLast"} /\ reader'.pc \in {"scan", "closeErrs"}
        /\ handler.pc = "select" /\ handler'.pc = "handle"
        /\ handler'.result = handler.result
        /\ handler'.logged = handler.logged
    BY <1>1 DEF Handoff, TypeOK, Reader, Handler
  <2> QED BY <2>1
<1>2. CASE EventHandled \/ EventFails \/ EventTranslated \/ FramesWritten \/ WriteFails \/ ReaderClosed \/ ContextDone
  <2>1. /\ UNCHANGED <<body, eventsClosed, errs, reader>>
        /\ handler.pc \in Bridging /\ handler'.pc \in {"select", "write", "report"}
        /\ handler'.pc \in Bridging => handler'.result = handler.result
        /\ handler'.result = "nil" => eventsClosed \/ handler.result = "nil"
        /\ handler'.logged = handler.logged
    BY <1>2 DEF EventHandled, EventFails, EventTranslated, FramesWritten, WriteFails,
           ReaderClosed, ContextDone, Returned, TypeOK, Handler
  <2> QED BY <2>1
<1>3. CASE Report
  <2>1. /\ UNCHANGED <<body, eventsClosed, errs, reader>>
        /\ handler.pc = "report" /\ handler'.pc = "poll"
        /\ handler'.result = handler.result /\ handler'.logged = handler.logged
    BY <1>3 DEF Report, TypeOK, Handler
  <2> QED BY <2>1
<1>4. CASE Poll
  <2>1. /\ UNCHANGED <<body, eventsClosed, reader>>
        /\ handler.pc = "poll" /\ handler'.pc = "leave" /\ errs'.full = FALSE
        /\ handler'.result = handler.result /\ handler'.logged = errs.full
    BY <1>4 DEF Poll, TypeOK, Handler
  <2>2. FailureNoticed'
    BY <2>1
  <2>3. ErrorKept'
    BY <2>1
  <2> QED BY <2>2, <2>3
<1>5. CASE Leave
  <2>1. /\ UNCHANGED <<body, eventsClosed, errs, reader>>
        /\ handler.pc = "leave" /\ handler'.pc = "done"
        /\ handler'.result = handler.result /\ handler'.logged = handler.logged
    BY <1>5 DEF Leave, TypeOK, Handler
  <2> QED BY <2>1
<1>6. CASE Client
  BY <1>6 DEF Client, Cancel, Stall
<1> QED BY <1>1, <1>2, <1>3, <1>4, <1>5, <1>6 DEF HandleStream

\* The invariant holds at first.
LEMMA Initially == Init => IInv
<1>1. Init => TypeOK
  <2> SUFFICES ASSUME Init PROVE TypeOK
    OBVIOUS
  <2>1. reader \in Reader /\ reader.offer = NoEvent
    BY Members DEF Init, Reader
  <2>2. handler \in Handler /\ handler.event = NoEvent
    BY Members DEF Init, Handler
  <2>3. wire \in Seq(Line) /\ Len(wire) = 0 /\ heap \in Seq(Content) /\ Len(heap) = 0
        /\ decoded \in Seq([name : Name, data : Content])
    <3>1. wire = << >> /\ heap = << >> /\ decoded = << >>
      BY DEF Init
    <3> QED BY <3>1
  <2>4. reader.offer.at <= Len(heap) /\ handler.event.at <= Len(heap)
    <3>1. NoEvent.at = 0
      BY Members
    <3> QED BY <2>1, <2>2, <2>3, <3>1
  <2>5. /\ body = "open" /\ eventsClosed = FALSE /\ canceled = FALSE /\ stalled = FALSE
        /\ errs = [full |-> FALSE, closed |-> FALSE]
    BY DEF Init
  <2>6. Len(wire) <= MaxLines
    BY <2>3, LinesAssumption
  <2> QED BY <2>1, <2>2, <2>3, <2>4, <2>5, <2>6 DEF TypeOK
<1>2. Init => ErrorKept /\ FailureNoticed
  <2> SUFFICES ASSUME Init PROVE ErrorKept /\ FailureNoticed
    OBVIOUS
  <2>1. /\ reader.pc = "scan" /\ body = "open" /\ errs.full = FALSE /\ eventsClosed = FALSE
        /\ handler.pc = "select" /\ handler.result = "none" /\ handler.logged = FALSE
    BY DEF Init
  <2> QED BY <2>1 DEF ErrorKept, FailureNoticed, Closing, Bridging
<1> QED BY <1>1, <1>2 DEF IInv

\* The types and the place of the error are an invariant of every step.
THEOREM Inductive == Spec => []IInv
<1>1. Init => IInv
  BY Initially
<1>2. IInv /\ [Next]_vars => IInv'
  <2>1. CASE UNCHANGED vars
    BY <2>1 DEF vars, IInv, TypeOK, ErrorKept, FailureNoticed
  <2> QED BY <2>1, TypesInductive, ReadKeepsError, HandleKeepsError DEF IInv, Next
<1> QED BY <1>1, <1>2, PTL DEF Spec

\* Both goroutines' variables keep their types; every payload the bridge is
\* given was copied before it was sent (flush in sse.Read).
THEOREM TypeCorrect == Spec => []TypeOK
  BY Inductive, PTL DEF IInv

\* However long the body and wherever it breaks, a read error after which the
\* bridge saw the channel closed is found by handleStream's one poll.
THEOREM FailuresAreNoticed == Spec => []FailureNoticed
  BY Inductive, PTL DEF IInv

-----------------------------------------------------------------------------
(* The n-th of some positions                                               *)

\* A set of numbers that has an element has a least one.
LEMMA Least ==
    ASSUME NEW S \in SUBSET Nat, S # {}
    PROVE  \E n \in S : \A m \in S : n <= m
<1> DEFINE R == OpToRel(<, Nat)
<1>1. IsWellFoundedOn(R, Nat)
  BY NatLessThanWellFounded
<1>2. \A x, y \in Nat : <<x, y>> \in R <=> x < y
  BY DEF OpToRel
<1> HIDE DEF R
<1>3. PICK n \in S : \A y \in S : ~ (<<y, n>> \in R)
  BY <1>1, WFMin
<1>4. ASSUME NEW m \in S
      PROVE  n <= m
  <2>1. n \in Nat /\ m \in Nat /\ ~ (<<m, n>> \in R)
    BY <1>3
  <2>2. ~ (m < n)
    BY <2>1, <1>2
  <2> QED
    BY <2>1, <2>2
<1> QED
  BY <1>4

UpTo(S, i) == {q \in S : q <= i}

\* The module Feed counts as this one does.
LEMMA SameCount == \A S : Feed!Cardinality(S) = Cardinality(S)
  BY DEF Feed!Cardinality, Cardinality

\* Positions up to N are finitely many, and those up to i are among them.
LEMMA UpToFinite ==
    ASSUME NEW N \in Nat, NEW S \in SUBSET (1 .. N)
    PROVE  /\ IsFiniteSet(S) /\ Cardinality(S) \in Nat
           /\ \A i : IsFiniteSet(UpTo(S, i)) /\ Cardinality(UpTo(S, i)) \in Nat
                     /\ Cardinality(UpTo(S, i)) <= Cardinality(S)
<1>1. IsFiniteSet(1 .. N)
  BY FS_Interval
<1>2. IsFiniteSet(S)
  BY <1>1, FS_Subset
<1>3. ASSUME NEW i
      PROVE  IsFiniteSet(UpTo(S, i)) /\ Cardinality(UpTo(S, i)) <= Cardinality(S)
  <2>1. UpTo(S, i) \in SUBSET S
    BY DEF UpTo
  <2> QED
    BY <1>2, <2>1, FS_Subset
<1> QED
  BY <1>2, <1>3, FS_CardinalityType

\* One position more is reached at most.
LEMMA UpToGrows ==
    ASSUME NEW N \in Nat, NEW S \in SUBSET (1 .. N)
    PROVE  /\ UpTo(S, 0) = {} /\ UpTo(S, N) = S
           /\ \A m \in 1 .. N :
                 /\ m \in S => UpTo(S, m) = UpTo(S, m - 1) \cup {m} /\ m \notin UpTo(S, m - 1)
                 /\ m \notin S => UpTo(S, m) = UpTo(S, m - 1)
<1>1. \A q \in S : q \in 1 .. N
  OBVIOUS
<1>2. \A q \in 1 .. N : ~ (q <= 0) /\ q <= N
  OBVIOUS
<1>3. UpTo(S, 0) = {} /\ UpTo(S, N) = S
  BY <1>1, <1>2, Zenon DEF UpTo
<1>4. ASSUME NEW m \in 1 .. N
      PROVE  /\ m \in S => UpTo(S, m) = UpTo(S, m - 1) \cup {m} /\ m \notin UpTo(S, m - 1)
             /\ m \notin S => UpTo(S, m) = UpTo(S, m - 1)
  <2>1. \A q \in 1 .. N : (q <= m <=> q <= m - 1 \/ q = m) /\ ~ (m <= m - 1)
    OBVIOUS
  <2> QED
    BY <1>1, <2>1, Zenon DEF UpTo
<1> QED
  BY <1>3, <1>4, Zenon

\* Each rank up to the number of the positions is that of one of them: of the
\* first number up to which there are so many.
LEMMA NthIsThere ==
    ASSUME NEW N \in Nat, NEW S \in SUBSET (1 .. N), NEW n \in 1 .. Cardinality(S)
    PROVE  Feed!Nth(S, n) \in S
<1> DEFINE M == {x \in Nat : n <= Cardinality(UpTo(S, x))}
<1>1. M \in SUBSET Nat /\ N \in M
  <2>1. UpTo(S, N) = S
    BY UpToGrows
  <2> QED
    BY <2>1, UpToFinite
<1>2. PICK m \in M : \A x \in M : m <= x
  <2> HIDE DEF M
  <2> QED
    BY <1>1, Least
<1>3. m \in Nat /\ n <= Cardinality(UpTo(S, m))
  OBVIOUS
<1>4. m # 0
  <2>1. UpTo(S, 0) = {}
    BY UpToGrows
  <2> QED
    BY <1>3, <2>1, FS_EmptySet
<1>5. Cardinality(UpTo(S, m - 1)) < n
  <2>1. m - 1 \in Nat /\ m - 1 \notin M
    BY <1>2, <1>3, <1>4
  <2>2. Cardinality(UpTo(S, m - 1)) \in Nat
    BY UpToFinite
  <2> QED
    BY <2>1, <2>2
<1> HIDE DEF M
<1>6. m \in 1 .. N
  BY <1>1, <1>2, <1>3, <1>4
<1>7. m \in S
  <2> SUFFICES ASSUME m \notin S
               PROVE  FALSE
    OBVIOUS
  <2>1. UpTo(S, m) = UpTo(S, m - 1)
    BY <1>6, UpToGrows
  <2> QED
    BY <1>3, <1>5, <2>1, UpToFinite
<1>8. Cardinality(UpTo(S, m)) = n
  <2>1. UpTo(S, m) = UpTo(S, m - 1) \cup {m} /\ m \notin UpTo(S, m - 1)
    BY <1>7, <1>6, UpToGrows
  <2>2. Cardinality(UpTo(S, m)) = Cardinality(UpTo(S, m - 1)) + 1
    BY <2>1, UpToFinite, FS_AddElement
  <2>3. Cardinality(UpTo(S, m - 1)) \in Nat
    BY UpToFinite
  <2> QED
    BY <1>3, <1>5, <2>2, <2>3
<1> HIDE DEF M
<1> QED
  BY <1>7, <1>8, SameCount DEF Feed!Nth, UpTo

\* A position after all others is the last one, and the others keep their rank.
LEMMA NthOfMore ==
    ASSUME NEW N \in Nat, NEW S \in SUBSET (1 .. N)
    PROVE  /\ Cardinality(S \cup {N + 1}) = Cardinality(S) + 1
           /\ Feed!Nth(S \cup {N + 1}, Cardinality(S) + 1) = N + 1
           /\ \A n \in 1 .. Cardinality(S) : Feed!Nth(S \cup {N + 1}, n) = Feed!Nth(S, n)
<1>0. \A q \in S : q \in Int /\ 0 < q /\ q <= N
  OBVIOUS
<1> DEFINE U == S \cup {N + 1}
<1>1. IsFiniteSet(S) /\ Cardinality(S) \in Nat /\ N + 1 \notin S
  <2>1. N + 1 \notin S
    BY <1>0
  <2> QED
    BY <2>1, UpToFinite
<1>2. Cardinality(U) = Cardinality(S) + 1
  BY <1>1, FS_AddElement
<1>3. UpTo(U, N + 1) = U
  <2>1. \A q \in U : q <= N + 1
    BY <1>0
  <2> HIDE DEF U
  <2> QED
    BY <2>1 DEF UpTo
<1>4. \A p \in S : UpTo(U, p) = UpTo(S, p) /\ Cardinality(UpTo(S, p)) <= Cardinality(S)
                   /\ Cardinality(UpTo(S, p)) \in Nat
  <2>1. \A p \in S : UpTo(U, p) = UpTo(S, p)
    BY DEF UpTo
  <2> QED
    BY <2>1, UpToFinite
<1>5. Feed!Nth(U, Cardinality(S) + 1) = N + 1
  <2>1. \A p \in U : Cardinality(UpTo(U, p)) = Cardinality(S) + 1 <=> p = N + 1
    <3> HIDE DEF U
    <3>1. \A p \in U : p \in S \/ p = N + 1
      BY DEF U
    <3>2. \A p \in S : Cardinality(UpTo(U, p)) # Cardinality(S) + 1 /\ p # N + 1
      BY <1>1, <1>4
    <3> QED
      BY <1>2, <1>3, <3>1, <3>2
  <2>2. N + 1 \in U
    OBVIOUS
  <2> HIDE DEF U
  <2>3. Feed!Nth(U, Cardinality(S) + 1) =
          CHOOSE p \in U : Cardinality(UpTo(U, p)) = Cardinality(S) + 1
    BY SameCount DEF Feed!Nth, UpTo
  <2> QED
    BY <2>1, <2>2, <2>3
<1>6. ASSUME NEW n \in 1 .. Cardinality(S)
      PROVE  Feed!Nth(U, n) = Feed!Nth(S, n)
  <2>1. \A p : (p \in U /\ Cardinality(UpTo(U, p)) = n) <=> (p \in S /\ Cardinality(UpTo(S, p)) = n)
    <3>1. Cardinality(UpTo(U, N + 1)) # n
      BY <1>1, <1>2, <1>3
    <3> QED
      BY <1>4, <3>1
  <2> HIDE DEF U
  <2>2. Feed!Nth(U, n) = CHOOSE p \in U : Cardinality(UpTo(U, p)) = n
    BY SameCount DEF Feed!Nth, UpTo
  <2>3. Feed!Nth(S, n) = CHOOSE p \in S : Cardinality(UpTo(S, p)) = n
    BY SameCount DEF Feed!Nth, UpTo
  <2> QED
    BY <2>1, <2>2, <2>3
<1> QED
  BY <1>2, <1>5, <1>6

-----------------------------------------------------------------------------
(* The values, events and cuts of a body that grows                        *)

Values == Name \cup Texts

\* The positions of the lines of one kind from a up to b.
Chosen(lines, a, b, kind) == {i \in a .. (b - 1) : lines[i].kind = kind}

\* The kinds of lines and the values of each.
LEMMA LineTypes ==
    /\ \A l \in Line : l.value \in Values /\ l.kind \in {"event", "data", "blank", "comment"}
    /\ \A l \in Line : l.kind = "event" => l.value \in Name
    /\ \A l \in Line : l.kind = "data" => l.value \in Texts
  BY DEF Line, Values, Name

\* The lines of a kind are among those looked at, and finitely many.
LEMMA ChosenInside ==
    ASSUME NEW lines, NEW a \in Nat \ {0}, NEW b \in Nat, NEW kind
    PROVE  /\ Chosen(lines, a, b + 1, kind) \in SUBSET (1 .. b)
           /\ IsFiniteSet(Chosen(lines, a, b + 1, kind))
           /\ Cardinality(Chosen(lines, a, b + 1, kind)) \in Nat
<1>1. Chosen(lines, a, b + 1, kind) \in SUBSET (1 .. b)
  <2>1. \A i \in a .. ((b + 1) - 1) : i \in 1 .. b
    OBVIOUS
  <2> QED
    BY <2>1 DEF Chosen
<1> QED
  BY <1>1, UpToFinite

\* Feed!ValuesOf in terms of Chosen.
LEMMA ValuesForm ==
    ASSUME NEW lines, NEW a, NEW b, NEW kind
    PROVE  Feed!ValuesOf(lines, a, b, kind) =
             [n \in 1 .. Cardinality(Chosen(lines, a, b, kind)) |->
                 lines[Feed!Nth(Chosen(lines, a, b, kind), n)].value]
  BY SameCount DEF Feed!ValuesOf, Chosen

\* A line more changes nothing of the values before it.
LEMMA ValuesSame ==
    ASSUME NEW lines \in Seq(Line), NEW l \in Line, NEW a \in Nat \ {0},
           NEW b \in 0 .. Len(lines), NEW kind
    PROVE  Feed!ValuesOf(Append(lines, l), a, b + 1, kind) = Feed!ValuesOf(lines, a, b + 1, kind)
<1> DEFINE S == Chosen(lines, a, b + 1, kind)
           longer == Append(lines, l)
<1>1. \A i \in 1 .. Len(lines) : longer[i] = lines[i]
  OBVIOUS
<1>2. Chosen(longer, a, b + 1, kind) = S
  <2>1. \A i \in a .. ((b + 1) - 1) : longer[i] = lines[i]
    BY <1>1
  <2> HIDE DEF longer
  <2> QED
    BY <2>1 DEF Chosen
<1>3. b \in Nat /\ S \in SUBSET (1 .. b)
  BY ChosenInside
<1> HIDE DEF S, longer
<1>4. ASSUME NEW n \in 1 .. Cardinality(S)
      PROVE  longer[Feed!Nth(S, n)] = lines[Feed!Nth(S, n)]
  <2>1. Feed!Nth(S, n) \in 1 .. b
    BY <1>3, NthIsThere
  <2> QED
    BY <1>1, <2>1
<1>5. Feed!ValuesOf(longer, a, b + 1, kind) = [n \in 1 .. Cardinality(S) |-> longer[Feed!Nth(S, n)].value]
  BY <1>2, ValuesForm
<1>6. Feed!ValuesOf(lines, a, b + 1, kind) = [n \in 1 .. Cardinality(S) |-> lines[Feed!Nth(S, n)].value]
  BY ValuesForm DEF S
<1> QED
  BY <1>4, <1>5, <1>6 DEF longer

\* Values of lines are names or texts, as their kind says.
LEMMA ValuesType ==
    ASSUME NEW lines \in Seq(Line), NEW a \in Nat \ {0}, NEW b \in 0 .. Len(lines), NEW kind
    PROVE  /\ Feed!ValuesOf(lines, a, b + 1, kind) \in Seq(Values)
           /\ kind = "event" => Feed!ValuesOf(lines, a, b + 1, kind) \in Seq(Name)
           /\ kind = "data" => Feed!ValuesOf(lines, a, b + 1, kind) \in Seq(Texts)
<1> DEFINE S == Chosen(lines, a, b + 1, kind)
<1>1. b \in Nat /\ S \in SUBSET (1 .. b) /\ Cardinality(S) \in Nat
  BY ChosenInside
<1>2. \A i \in S : lines[i].kind = kind
  BY DEF Chosen
<1>3. Feed!ValuesOf(lines, a, b + 1, kind) = [n \in 1 .. Cardinality(S) |-> lines[Feed!Nth(S, n)].value]
  BY ValuesForm
<1> HIDE DEF S
<1>4. ASSUME NEW n \in 1 .. Cardinality(S)
      PROVE  lines[Feed!Nth(S, n)] \in Line /\ lines[Feed!Nth(S, n)].kind = kind
  <2>1. Feed!Nth(S, n) \in S
    BY <1>1, NthIsThere
  <2>2. \A i \in 1 .. b : i \in 1 .. Len(lines)
    OBVIOUS
  <2>3. Feed!Nth(S, n) \in 1 .. Len(lines)
    BY <1>1, <2>1, <2>2
  <2> QED
    BY <1>2, <2>1, <2>3
<1> QED
  BY <1>1, <1>3, <1>4, LineTypes

\* The last line counts if it is of the kind.
LEMMA ValuesGrow ==
    ASSUME NEW lines \in Seq(Line), NEW l \in Line, NEW a \in 1 .. Len(lines) + 1, NEW kind
    PROVE  Feed!ValuesOf(Append(lines, l), a, Len(lines) + 2, kind) =
             IF l.kind = kind THEN Append(Feed!ValuesOf(lines, a, Len(lines) + 1, kind), l.value)
             ELSE Feed!ValuesOf(lines, a, Len(lines) + 1, kind)
<1> DEFINE N == Len(lines)
           S == Chosen(lines, a, N + 1, kind)
           longer == Append(lines, l)
<1>1. N \in Nat /\ longer[N + 1] = l /\ \A i \in 1 .. N : longer[i] = lines[i]
  OBVIOUS
<1>2. S \in SUBSET (1 .. N) /\ Cardinality(S) \in Nat
  <2>1. a \in Nat \ {0} /\ N \in Nat
    OBVIOUS
  <2> HIDE DEF N
  <2> QED
    BY <2>1, ChosenInside
<1>3. Chosen(longer, a, N + 2, kind) = IF l.kind = kind THEN S \cup {N + 1} ELSE S
  <2>1. \A i : i \in a .. ((N + 2) - 1) <=> i \in a .. ((N + 1) - 1) \/ i = N + 1
    BY <1>1
  <2>2. \A i \in a .. ((N + 1) - 1) : longer[i] = lines[i]
    BY <1>1
  <2> HIDE DEF longer, N
  <2> QED
    BY <1>1, <2>1, <2>2 DEF Chosen
<1> DEFINE V == Feed!ValuesOf(lines, a, N + 1, kind)
<1>4. V \in Seq(Values)
  BY ValuesType
<1>5. V = [n \in 1 .. Cardinality(S) |-> lines[Feed!Nth(S, n)].value]
  BY ValuesForm
<1>6. Feed!ValuesOf(longer, a, N + 2, kind) =
        [n \in 1 .. Cardinality(Chosen(longer, a, N + 2, kind)) |->
            longer[Feed!Nth(Chosen(longer, a, N + 2, kind), n)].value]
  BY ValuesForm
<1>7. l.value \in Values
  BY LineTypes
<1> HIDE DEF S, longer, N, V
<1>8. ASSUME NEW n \in 1 .. Cardinality(S)
      PROVE  longer[Feed!Nth(S, n)] = lines[Feed!Nth(S, n)]
  <2>1. Feed!Nth(S, n) \in 1 .. N
    BY <1>1, <1>2, NthIsThere
  <2> QED
    BY <1>1, <2>1
<1>9. CASE l.kind # kind
  <2>1. Feed!ValuesOf(longer, a, N + 2, kind) = [n \in 1 .. Cardinality(S) |-> longer[Feed!Nth(S, n)].value]
    BY <1>3, <1>6, <1>9
  <2>2. Feed!ValuesOf(longer, a, N + 2, kind) = V
    BY <1>5, <1>8, <2>1
  <2> QED
    BY <1>9, <2>2 DEF N, longer, V
<1>10. CASE l.kind = kind
  <2> DEFINE U == S \cup {N + 1}
             c == Cardinality(S)
  <2>1. /\ Cardinality(U) = c + 1 /\ Feed!Nth(U, c + 1) = N + 1
        /\ \A n \in 1 .. c : Feed!Nth(U, n) = Feed!Nth(S, n)
    BY <1>1, <1>2, NthOfMore
  <2>2. Chosen(longer, a, N + 2, kind) = U
    BY <1>3, <1>10
  <2>3. c \in Nat
    BY <1>2
  <2> HIDE DEF U, c
  <2>4. Feed!ValuesOf(longer, a, N + 2, kind) = [n \in 1 .. (c + 1) |-> longer[Feed!Nth(U, n)].value]
    BY <1>6, <2>1, <2>2
  <2>5. Len(V) = c /\ \A n \in 1 .. c : V[n] = lines[Feed!Nth(S, n)].value
    BY <1>4, <1>5, <2>3 DEF c
  <2>6. Append(V, l.value) = [n \in 1 .. (c + 1) |-> IF n = c + 1 THEN l.value ELSE V[n]]
    BY <1>4, <1>7, <2>3, <2>5
  <2>7. \A n \in 1 .. (c + 1) : longer[Feed!Nth(U, n)].value = IF n = c + 1 THEN l.value ELSE V[n]
    <3>1. \A n \in 1 .. (c + 1) : n \in 1 .. c \/ n = c + 1
      BY <2>3
    <3>2. \A n \in 1 .. c : n # c + 1
      BY <2>3
    <3>3. \A n \in 1 .. c : longer[Feed!Nth(S, n)] = lines[Feed!Nth(S, n)]
      BY <1>8 DEF c
    <3> QED
      BY <1>1, <2>1, <2>5, <3>1, <3>2, <3>3
  <2>8. Feed!ValuesOf(longer, a, N + 2, kind) = Append(V, l.value)
    BY <2>4, <2>6, <2>7
  <2> QED
    BY <1>10, <2>8 DEF N, longer, V
<1> QED
  BY <1>9, <1>10

Entry == [name : Name, data : Content]

LastOf(names) == IF names = << >> THEN "" ELSE names[Len(names)]

\* The last name of some, and after one more.
LEMMA LastOfNames ==
    /\ LastOf(<< >>) = ""
    /\ \A names \in Seq(Name) : LastOf(names) \in Name
    /\ \A names \in Seq(Name), n \in Name : LastOf(Append(names, n)) = n
<1>1. "" \in Name
  BY Members
<1>2. ASSUME NEW names \in Seq(Name)
      PROVE  LastOf(names) \in Name
  <2>1. CASE names = << >>
    BY <1>1, <2>1 DEF LastOf
  <2>2. CASE names # << >>
    <3>1. names[Len(names)] \in Name
      BY <2>2
    <3> QED
      BY <2>2, <3>1 DEF LastOf
  <2> QED
    BY <2>1, <2>2
<1>3. ASSUME NEW names \in Seq(Name), NEW n \in Name
      PROVE  LastOf(Append(names, n)) = n
  <2> DEFINE more == Append(names, n)
  <2>1. more # << >> /\ Len(more) = Len(names) + 1 /\ more[Len(names) + 1] = n
    OBVIOUS
  <2> HIDE DEF more
  <2>2. LastOf(more) = n
    BY <2>1 DEF LastOf
  <2> QED
    BY <2>2 DEF more
<1>4. LastOf(<< >>) = ""
  BY DEF LastOf
<1> QED
  BY <1>2, <1>3, <1>4

\* Feed!EventOf in terms of LastOf.
LEMMA EventForm ==
    ASSUME NEW lines, NEW a, NEW b
    PROVE  Feed!EventOf(lines, a, b) =
             [name |-> LastOf(Feed!ValuesOf(lines, a, b, "event")),
              data |-> Feed!ValuesOf(lines, a, b, "data")]
  BY DEF Feed!EventOf, LastOf

\* The lines make events of the type the bridge decodes.
LEMMA EventType ==
    ASSUME NEW lines \in Seq(Line), NEW a \in Nat \ {0}, NEW b \in 0 .. Len(lines)
    PROVE  Feed!EventOf(lines, a, b + 1) \in Entry
<1> DEFINE names == Feed!ValuesOf(lines, a, b + 1, "event")
           texts == Feed!ValuesOf(lines, a, b + 1, "data")
<1>1. names \in Seq(Name) /\ texts \in Content
  BY ValuesType DEF Content
<1>2. Feed!EventOf(lines, a, b + 1) = [name |-> LastOf(names), data |-> texts]
  BY EventForm
<1> HIDE DEF names, texts
<1>3. LastOf(names) \in Name
  BY <1>1, LastOfNames
<1> QED
  BY <1>1, <1>2, <1>3 DEF Entry

\* A line more changes no event that ends before it.
LEMMA EventSame ==
    ASSUME NEW lines \in Seq(Line), NEW l \in Line, NEW a \in Nat \ {0}, NEW b \in 0 .. Len(lines)
    PROVE  Feed!EventOf(Append(lines, l), a, b + 1) = Feed!EventOf(lines, a, b + 1)
<1>1. \A kind : Feed!ValuesOf(Append(lines, l), a, b + 1, kind) = Feed!ValuesOf(lines, a, b + 1, kind)
  BY ValuesSame
<1> QED
  BY <1>1, EventForm

\* A line more is the event's new name, more data, or nothing to it.
LEMMA EventGrow ==
    ASSUME NEW lines \in Seq(Line), NEW l \in Line, NEW a \in 1 .. Len(lines) + 1
    PROVE  LET old == Feed!EventOf(lines, a, Len(lines) + 1)
           IN  Feed!EventOf(Append(lines, l), a, Len(lines) + 2) =
                 [name |-> IF l.kind = "event" THEN l.value ELSE old.name,
                  data |-> IF l.kind = "data" THEN Append(old.data, l.value) ELSE old.data]
<1> DEFINE names == Feed!ValuesOf(lines, a, Len(lines) + 1, "event")
           texts == Feed!ValuesOf(lines, a, Len(lines) + 1, "data")
           moreNames == Feed!ValuesOf(Append(lines, l), a, Len(lines) + 2, "event")
           moreTexts == Feed!ValuesOf(Append(lines, l), a, Len(lines) + 2, "data")
           old == Feed!EventOf(lines, a, Len(lines) + 1)
           new == Feed!EventOf(Append(lines, l), a, Len(lines) + 2)
<1>1. names \in Seq(Name)
  <2>1. Len(lines) \in 0 .. Len(lines) /\ a \in Nat \ {0}
    OBVIOUS
  <2> QED
    BY <2>1, ValuesType
<1>2. moreNames = IF l.kind = "event" THEN Append(names, l.value) ELSE names
  BY ValuesGrow
<1>3. moreTexts = IF l.kind = "data" THEN Append(texts, l.value) ELSE texts
  BY ValuesGrow
<1>4. old = [name |-> LastOf(names), data |-> texts]
  BY EventForm
<1>5. new = [name |-> LastOf(moreNames), data |-> moreTexts]
  BY EventForm
<1>6. l.kind = "event" => l.value \in Name
  BY LineTypes
<1> HIDE DEF names, texts, moreNames, moreTexts, old, new
<1>7. old.name = LastOf(names) /\ old.data = texts
  BY <1>4
<1>8. LastOf(moreNames) = IF l.kind = "event" THEN l.value ELSE old.name
  BY <1>1, <1>2, <1>6, <1>7, LastOfNames
<1>9. new = [name |-> IF l.kind = "event" THEN l.value ELSE old.name,
             data |-> IF l.kind = "data" THEN Append(old.data, l.value) ELSE old.data]
  BY <1>3, <1>5, <1>7, <1>8
<1> QED
  BY <1>9 DEF old, new

\* No lines, no event.
LEMMA EventOfNone ==
    ASSUME NEW lines \in Seq(Line)
    PROVE  Feed!EventOf(lines, Len(lines) + 1, Len(lines) + 1) = [name |-> "", data |-> << >>]
<1>1. \A kind : Chosen(lines, Len(lines) + 1, Len(lines) + 1, kind) = {}
  <2>1. (Len(lines) + 1) .. ((Len(lines) + 1) - 1) = {}
    OBVIOUS
  <2> QED
    BY <2>1 DEF Chosen
<1>2. Cardinality({}) = 0 /\ 1 .. 0 = {}
  BY FS_EmptySet
<1>3. ASSUME NEW kind
      PROVE  Feed!ValuesOf(lines, Len(lines) + 1, Len(lines) + 1, kind) = << >>
  <2> DEFINE none == Chosen(lines, Len(lines) + 1, Len(lines) + 1, kind)
  <2>1. Feed!ValuesOf(lines, Len(lines) + 1, Len(lines) + 1, kind) =
          [n \in 1 .. Cardinality(none) |-> lines[Feed!Nth(none, n)].value]
    BY ValuesForm
  <2>2. none = {}
    BY <1>1
  <2> HIDE DEF none
  <2> QED
    BY <1>2, <2>1, <2>2
<1> QED
  BY <1>3, EventForm, LastOfNames

-----------------------------------------------------------------------------
(* Where events end and the next begin                                      *)

CutsBefore(lines, i) == {j \in 1 .. (i - 1) : Feed!Cut(lines, j)}

\* Which data a line would close depends on the lines before it only.
LEMMA OpenSame ==
    ASSUME NEW lines \in Seq(Line), NEW l \in Line, NEW i \in 1 .. Len(lines) + 1
    PROVE  Feed!OpenData(Append(lines, l), i) = Feed!OpenData(lines, i)
<1> DEFINE longer == Append(lines, l)
<1>1. \A j \in 1 .. (i - 1) : longer[j] = lines[j]
  OBVIOUS
<1>2. \A j \in 1 .. (i - 1) : \A k \in j .. (i - 1) : k \in 1 .. (i - 1)
  OBVIOUS
<1> HIDE DEF longer
<1>3. Feed!OpenData(longer, i) = Feed!OpenData(lines, i)
  BY <1>1, <1>2 DEF Feed!OpenData
<1> QED
  BY <1>3 DEF longer

\* A later line makes no cut and undoes none.
LEMMA CutSame ==
    ASSUME NEW lines \in Seq(Line), NEW l \in Line, NEW i \in 1 .. Len(lines)
    PROVE  Feed!Cut(Append(lines, l), i) = Feed!Cut(lines, i)
<1>1. Append(lines, l)[i] = lines[i] /\ i \in 1 .. Len(lines) + 1
  OBVIOUS
<1>2. Feed!OpenData(Append(lines, l), i) = Feed!OpenData(lines, i)
  BY <1>1, OpenSame
<1> QED
  BY <1>1, <1>2 DEF Feed!Cut

\* Whether the new line cuts depends on the data before it.
LEMMA CutNew ==
    ASSUME NEW lines \in Seq(Line), NEW l \in Line
    PROVE  Feed!Cut(Append(lines, l), Len(lines) + 1)
             <=> l.kind = "blank" \/ (l.kind = "event" /\ Feed!OpenData(lines, Len(lines) + 1) # {})
<1>1. Append(lines, l)[Len(lines) + 1] = l /\ Len(lines) + 1 \in 1 .. Len(lines) + 1
  OBVIOUS
<1>2. Feed!OpenData(Append(lines, l), Len(lines) + 1) = Feed!OpenData(lines, Len(lines) + 1)
  BY <1>1, OpenSame
<1> QED
  BY <1>1, <1>2 DEF Feed!Cut

\* A line of data is open until the next blank line or name.
LEMMA OpenNext ==
    ASSUME NEW lines \in Seq(Line), NEW l \in Line
    PROVE  LET longer == Append(lines, l)
           IN  /\ l.kind \in {"blank", "event"} => Feed!OpenData(longer, Len(lines) + 2) = {}
               /\ l.kind = "data" => Feed!OpenData(longer, Len(lines) + 2) # {}
               /\ l.kind = "comment" =>
                     (Feed!OpenData(longer, Len(lines) + 2) # {} <=> Feed!OpenData(lines, Len(lines) + 1) # {})
<1> DEFINE N == Len(lines)
           longer == Append(lines, l)
<1>1. /\ N \in Nat /\ longer[N + 1] = l /\ \A i \in 1 .. N : longer[i] = lines[i]
  OBVIOUS
<1>2. /\ \A j : j \in 1 .. ((N + 2) - 1) <=> j \in 1 .. N \/ j = N + 1
      /\ \A j : j \in 1 .. ((N + 1) - 1) <=> j \in 1 .. N
      /\ N + 1 \in 1 .. ((N + 2) - 1)
      /\ \A j \in 1 .. ((N + 2) - 1) : N + 1 \in j .. ((N + 2) - 1)
      /\ \A k \in (N + 1) .. ((N + 2) - 1) : k = N + 1
      /\ \A j \in 1 .. N : \A k : k \in j .. ((N + 2) - 1) <=> k \in j .. ((N + 1) - 1) \/ k = N + 1
      /\ \A j \in 1 .. N : \A k \in j .. ((N + 1) - 1) : k \in 1 .. N
  BY <1>1
<1> HIDE DEF N, longer
<1>3. l.kind \in {"blank", "event"} => Feed!OpenData(longer, N + 2) = {}
  BY <1>1, <1>2 DEF Feed!OpenData
<1>4. l.kind = "data" => N + 1 \in Feed!OpenData(longer, N + 2)
  BY <1>1, <1>2 DEF Feed!OpenData
<1>5. l.kind = "comment" => Feed!OpenData(longer, N + 2) = Feed!OpenData(lines, N + 1)
  BY <1>1, <1>2 DEF Feed!OpenData
<1> QED
  BY <1>3, <1>4, <1>5 DEF N, longer

\* Feed!Start in terms of CutsBefore.
LEMMA StartForm ==
    ASSUME NEW lines, NEW i
    PROVE  Feed!Start(lines, i) =
             IF CutsBefore(lines, i) = {} THEN 1
             ELSE CHOOSE j \in CutsBefore(lines, i) : \A k \in CutsBefore(lines, i) : k <= j
  BY DEF Feed!Start, CutsBefore

\* A later line does not move the start of an event.
LEMMA StartSame ==
    ASSUME NEW lines \in Seq(Line), NEW l \in Line, NEW i \in 1 .. Len(lines) + 1
    PROVE  Feed!Start(Append(lines, l), i) = Feed!Start(lines, i)
<1>1. \A j \in 1 .. (i - 1) : j \in 1 .. Len(lines)
  OBVIOUS
<1> DEFINE longer == Append(lines, l)
<1>2. CutsBefore(longer, i) = CutsBefore(lines, i)
  BY <1>1, CutSame DEF CutsBefore
<1> HIDE DEF longer
<1> DEFINE S == CutsBefore(lines, i)
           T == CutsBefore(longer, i)
<1>3. Feed!Start(longer, i) = IF T = {} THEN 1 ELSE CHOOSE j \in T : \A k \in T : k <= j
  BY StartForm
<1>4. Feed!Start(lines, i) = IF S = {} THEN 1 ELSE CHOOSE j \in S : \A k \in S : k <= j
  BY StartForm
<1>5. S = T
  BY <1>2
<1> HIDE DEF S, T
<1>6. Feed!Start(longer, i) = Feed!Start(lines, i)
  BY <1>3, <1>4, <1>5
<1> QED
  BY <1>6 DEF longer

\* The event after a cut begins at the cut, and goes on otherwise.
LEMMA StartNext ==
    ASSUME NEW lines \in Seq(Line), NEW l \in Line
    PROVE  Feed!Start(Append(lines, l), Len(lines) + 2) =
             IF Feed!Cut(Append(lines, l), Len(lines) + 1) THEN Len(lines) + 1
             ELSE Feed!Start(lines, Len(lines) + 1)
<1> DEFINE N == Len(lines)
           longer == Append(lines, l)
           S == CutsBefore(lines, N + 1)
           T == CutsBefore(longer, N + 2)
<1>1. N \in Nat
  OBVIOUS
<1>2. /\ \A j : j \in 1 .. ((N + 2) - 1) <=> j \in 1 .. N \/ j = N + 1
      /\ \A j : j \in 1 .. ((N + 1) - 1) <=> j \in 1 .. N
      /\ \A j \in 1 .. N : j <= N + 1 /\ ~ (N + 1 <= j)
      /\ N + 1 <= N + 1
  BY <1>1
<1>3. \A j \in 1 .. N : Feed!Cut(longer, j) = Feed!Cut(lines, j)
  BY CutSame
<1>4. S \subseteq 1 .. N
  BY <1>2 DEF CutsBefore
<1>5. T = IF Feed!Cut(longer, N + 1) THEN S \cup {N + 1} ELSE S
  <2> HIDE DEF N, longer
  <2> QED
    BY <1>2, <1>3 DEF CutsBefore
<1>6. Feed!Start(longer, N + 2) = IF T = {} THEN 1 ELSE CHOOSE j \in T : \A k \in T : k <= j
  BY StartForm
<1>7. Feed!Start(lines, N + 1) = IF S = {} THEN 1 ELSE CHOOSE j \in S : \A k \in S : k <= j
  BY StartForm
<1> HIDE DEF S, T, N, longer
<1>8. CASE ~ Feed!Cut(longer, N + 1)
  <2>1. T = S
    BY <1>5, <1>8
  <2>2. Feed!Start(longer, N + 2) = Feed!Start(lines, N + 1)
    BY <1>6, <1>7, <2>1
  <2> QED
    BY <1>8, <2>2 DEF N, longer
<1>9. CASE Feed!Cut(longer, N + 1)
  <2>1. T = S \cup {N + 1}
    BY <1>5, <1>9
  <2>2. \A j \in T : (\A k \in T : k <= j) <=> j = N + 1
    BY <1>2, <1>4, <2>1
  <2>3. Feed!Start(longer, N + 2) = N + 1
    BY <1>6, <2>1, <2>2
  <2> QED
    BY <1>9, <2>3 DEF N, longer
<1> QED
  BY <1>8, <1>9

\* The event that ends before the line at i.
Ending(lines, i) == Feed!EventOf(lines, Feed!Start(lines, i), i)

StartsInside(lines) == \A i \in 1 .. Len(lines) + 1 : Feed!Start(lines, i) \in 1 .. i

\* Events start before they end, one line later too.
LEMMA StartsInsideGrows ==
    ASSUME NEW lines \in Seq(Line), NEW l \in Line, StartsInside(lines)
    PROVE  StartsInside(Append(lines, l))
<1> DEFINE longer == Append(lines, l)
           N == Len(lines)
<1>1. N \in Nat /\ Len(longer) = N + 1
  OBVIOUS
<1>2. \A i \in 1 .. N + 1 : Feed!Start(longer, i) \in 1 .. i
  BY StartSame DEF StartsInside
<1>3. Feed!Start(longer, N + 2) \in 1 .. (N + 2)
  <2>1. Feed!Start(lines, N + 1) \in 1 .. (N + 1)
    BY <1>1 DEF StartsInside
  <2>2. Feed!Start(longer, N + 2) \in {N + 1, Feed!Start(lines, N + 1)}
    BY StartNext
  <2> HIDE DEF N, longer
  <2> QED
    BY <1>1, <2>1, <2>2
<1> HIDE DEF N, longer
<1>4. \A i \in 1 .. (N + 1) + 1 : i \in 1 .. N + 1 \/ i = N + 2
  BY <1>1
<1>5. StartsInside(longer)
  BY <1>1, <1>2, <1>3, <1>4 DEF StartsInside
<1> QED
  BY <1>5 DEF longer

\* The event that ends at a line has the type of events.
LEMMA EndingType ==
    ASSUME NEW lines \in Seq(Line), StartsInside(lines), NEW i \in 1 .. Len(lines) + 1
    PROVE  Ending(lines, i) \in Entry
<1> DEFINE a == Feed!Start(lines, i)
<1>1. a \in 1 .. i
  BY DEF StartsInside
<1>2. a \in Nat \ {0} /\ i - 1 \in 0 .. Len(lines) /\ (i - 1) + 1 = i
  BY <1>1
<1> HIDE DEF a
<1>3. Feed!EventOf(lines, a, (i - 1) + 1) \in Entry
  BY <1>2, EventType
<1> QED
  BY <1>2, <1>3 DEF Ending, a

\* Later lines change nothing of an event that ended.
LEMMA EndingSame ==
    ASSUME NEW lines \in Seq(Line), NEW l \in Line, StartsInside(lines), NEW i \in 1 .. Len(lines) + 1
    PROVE  Ending(Append(lines, l), i) = Ending(lines, i)
<1> DEFINE a == Feed!Start(lines, i)
<1>1. a \in 1 .. i
  BY DEF StartsInside
<1>2. a \in Nat \ {0} /\ i - 1 \in 0 .. Len(lines) /\ (i - 1) + 1 = i
  BY <1>1
<1>3. Feed!Start(Append(lines, l), i) = a
  BY StartSame
<1> HIDE DEF a
<1>4. Feed!EventOf(Append(lines, l), a, (i - 1) + 1) = Feed!EventOf(lines, a, (i - 1) + 1)
  BY <1>2, EventSame
<1> QED
  BY <1>2, <1>3, <1>4 DEF Ending, a

\* What is pending after one more line: what was pending and the line, or, after a
\* cut, no more than the name that cuts.
LEMMA EndingNext ==
    ASSUME NEW lines \in Seq(Line), NEW l \in Line, StartsInside(lines)
    PROVE  LET longer == Append(lines, l)
               old == IF Feed!Cut(longer, Len(lines) + 1) THEN [name |-> "", data |-> << >>]
                      ELSE Ending(lines, Len(lines) + 1)
           IN  Ending(longer, Len(lines) + 2) =
                 [name |-> IF l.kind = "event" THEN l.value ELSE old.name,
                  data |-> IF l.kind = "data" THEN Append(old.data, l.value) ELSE old.data]
<1> DEFINE longer == Append(lines, l)
           N == Len(lines)
           a == IF Feed!Cut(longer, N + 1) THEN N + 1 ELSE Feed!Start(lines, N + 1)
           old == IF Feed!Cut(longer, N + 1) THEN [name |-> "", data |-> << >>]
                  ELSE Ending(lines, N + 1)
<1>1. Feed!Start(longer, N + 2) = a
  BY StartNext
<1>2. a \in 1 .. N + 1
  <2>1. N + 1 \in 1 .. N + 1
    OBVIOUS
  <2>2. Feed!Start(lines, N + 1) \in 1 .. (N + 1)
    BY <2>1 DEF StartsInside
  <2> HIDE DEF N, longer
  <2> QED
    BY <2>1, <2>2
<1>3. Feed!EventOf(lines, a, N + 1) = old
  <2>1. Feed!EventOf(lines, N + 1, N + 1) = [name |-> "", data |-> << >>]
    BY EventOfNone
  <2> HIDE DEF N, longer
  <2> QED
    BY <2>1 DEF Ending
<1> HIDE DEF a
<1>4. Feed!EventOf(longer, a, N + 2) =
        [name |-> IF l.kind = "event" THEN l.value ELSE Feed!EventOf(lines, a, N + 1).name,
         data |-> IF l.kind = "data" THEN Append(Feed!EventOf(lines, a, N + 1).data, l.value)
                  ELSE Feed!EventOf(lines, a, N + 1).data]
  BY <1>2, EventGrow
<1>5. Ending(longer, N + 2) = Feed!EventOf(longer, a, N + 2)
  BY <1>1 DEF Ending
<1>6. Ending(longer, N + 2) =
        [name |-> IF l.kind = "event" THEN l.value ELSE old.name,
         data |-> IF l.kind = "data" THEN Append(old.data, l.value) ELSE old.data]
  <2> HIDE DEF longer, N, old
  <2> QED
    BY <1>3, <1>4, <1>5
<1> QED
  BY <1>6

-----------------------------------------------------------------------------
(* The events of a body that grows                                          *)

Has(event) == event.name # "" \/ event.data # << >>

\* Feed!IsEvent in terms of Ending.
LEMMA IsEventForm ==
    ASSUME NEW lines, NEW i
    PROVE  Feed!IsEvent(lines, i) <=> Has(Ending(lines, i))
  BY DEF Feed!IsEvent, Has, Ending

\* Feed!Events in terms of Ending.
LEMMA EventsForm ==
    ASSUME NEW lines, NEW S
    PROVE  Feed!Events(lines, S) = [n \in 1 .. Cardinality(S) |-> Ending(lines, Feed!Nth(S, n))]
  BY SameCount DEF Feed!Events, Ending

\* Events are a sequence, one for each position.
LEMMA EventsType ==
    ASSUME NEW lines \in Seq(Line), StartsInside(lines),
           NEW N \in 0 .. Len(lines) + 1, NEW S \in SUBSET (1 .. N)
    PROVE  Feed!Events(lines, S) \in Seq(Entry) /\ Len(Feed!Events(lines, S)) = Cardinality(S)
<1>1. N \in Nat /\ Cardinality(S) \in Nat /\ \A i \in 1 .. N : i \in 1 .. Len(lines) + 1
  <2>1. N \in Nat /\ \A i \in 1 .. N : i \in 1 .. Len(lines) + 1
    OBVIOUS
  <2> QED
    BY <2>1, UpToFinite
<1>2. \A n \in 1 .. Cardinality(S) : Ending(lines, Feed!Nth(S, n)) \in Entry
  <2> SUFFICES ASSUME NEW n \in 1 .. Cardinality(S)
               PROVE  Ending(lines, Feed!Nth(S, n)) \in Entry
    OBVIOUS
  <2>1. Feed!Nth(S, n) \in S
    BY <1>1, NthIsThere
  <2> QED
    BY <1>1, <2>1, EndingType
<1> QED
  BY <1>1, <1>2, EventsForm

\* Later lines change no event that is complete.
LEMMA EventsSame ==
    ASSUME NEW lines \in Seq(Line), NEW l \in Line, StartsInside(lines),
           NEW N \in 0 .. Len(lines) + 1, NEW S \in SUBSET (1 .. N)
    PROVE  Feed!Events(Append(lines, l), S) = Feed!Events(lines, S)
<1>1. N \in Nat /\ \A i \in 1 .. N : i \in 1 .. Len(lines) + 1
  OBVIOUS
<1>2. \A n \in 1 .. Cardinality(S) : Ending(Append(lines, l), Feed!Nth(S, n)) = Ending(lines, Feed!Nth(S, n))
  <2> SUFFICES ASSUME NEW n \in 1 .. Cardinality(S)
               PROVE  Ending(Append(lines, l), Feed!Nth(S, n)) = Ending(lines, Feed!Nth(S, n))
    OBVIOUS
  <2>1. Feed!Nth(S, n) \in S
    BY <1>1, NthIsThere
  <2> QED
    BY <1>1, <2>1, EndingSame
<1> QED
  BY <1>2, EventsForm

\* A sequence with one more element, as a function.
LEMMA AppendForm ==
    ASSUME NEW T, NEW s \in Seq(T), NEW e \in T
    PROVE  Append(s, e) = [n \in 1 .. (Len(s) + 1) |-> IF n = Len(s) + 1 THEN e ELSE s[n]]
<1> DEFINE m == Len(s) + 1
           t == Append(s, e)
<1>1. m \in Nat /\ t \in [1 .. m -> T]
  <2>1. t \in Seq(T) /\ Len(t) = m /\ m \in Nat
    OBVIOUS
  <2> HIDE DEF t, m
  <2> QED
    BY <2>1
<1>2. t[m] = e /\ \A n \in 1 .. m : n # m => t[n] = s[n]
  OBVIOUS
<1> HIDE DEF t, m
<1>3. t = [n \in 1 .. m |-> IF n = m THEN e ELSE s[n]]
  BY <1>1, <1>2
<1> QED
  BY <1>3 DEF t, m

\* The event that ends before the next line comes after those before.
LEMMA EventsGrow ==
    ASSUME NEW lines \in Seq(Line), StartsInside(lines),
           NEW S \in SUBSET (1 .. Len(lines))
    PROVE  Feed!Events(lines, S \cup {Len(lines) + 1})
             = Append(Feed!Events(lines, S), Ending(lines, Len(lines) + 1))
<1> DEFINE N == Len(lines)
           U == S \cup {N + 1}
           c == Cardinality(S)
           V == Feed!Events(lines, S)
           e == Ending(lines, N + 1)
<1>1. N \in Nat /\ N \in 0 .. Len(lines) + 1 /\ N + 1 \in 1 .. Len(lines) + 1
  OBVIOUS
<1>2. c \in Nat
  BY <1>1, UpToFinite
<1>3. /\ Cardinality(U) = c + 1 /\ Feed!Nth(U, c + 1) = N + 1
      /\ \A n \in 1 .. c : Feed!Nth(U, n) = Feed!Nth(S, n)
  BY <1>1, NthOfMore
<1>4. V \in Seq(Entry) /\ Len(V) = c
  BY <1>1, EventsType
<1>5. V = [n \in 1 .. c |-> Ending(lines, Feed!Nth(S, n))]
  BY EventsForm
<1>6. Feed!Events(lines, U) = [n \in 1 .. Cardinality(U) |-> Ending(lines, Feed!Nth(U, n))]
  BY EventsForm
<1>7. e \in Entry
  BY <1>1, EndingType
<1> HIDE DEF N, U, c, V
<1>8. Append(V, e) = [n \in 1 .. (c + 1) |-> IF n = c + 1 THEN e ELSE V[n]]
  <2> HIDE DEF e
  <2> QED
    BY <1>4, <1>7, AppendForm
<1>9. \A n \in 1 .. (c + 1) : Ending(lines, Feed!Nth(U, n)) = IF n = c + 1 THEN e ELSE V[n]
  <2>1. \A n \in 1 .. (c + 1) : n \in 1 .. c \/ n = c + 1
    BY <1>2
  <2>2. \A n \in 1 .. c : n # c + 1
    BY <1>2
  <2> QED
    BY <1>3, <1>5, <2>1, <2>2
<1>10. Feed!Events(lines, U) = Append(V, e)
  BY <1>3, <1>6, <1>8, <1>9
<1> QED
  BY <1>10 DEF N, U, V

\* The line that cuts completes what was pending, if it is an event.
LEMMA CompletesGrow ==
    ASSUME NEW lines \in Seq(Line), NEW l \in Line, StartsInside(lines)
    PROVE  /\ Feed!Completes(lines) \in SUBSET (1 .. Len(lines))
           /\ Feed!Completes(Append(lines, l)) =
                IF Feed!Cut(Append(lines, l), Len(lines) + 1) /\ Has(Ending(lines, Len(lines) + 1))
                THEN Feed!Completes(lines) \cup {Len(lines) + 1} ELSE Feed!Completes(lines)
<1> DEFINE longer == Append(lines, l)
           N == Len(lines)
<1>1. N \in Nat /\ Len(longer) = N + 1
  OBVIOUS
<1>2. \A i : i \in 1 .. (N + 1) <=> i \in 1 .. N \/ i = N + 1
  BY <1>1
<1>3. \A i \in 1 .. N : Feed!Cut(longer, i) = Feed!Cut(lines, i)
  BY CutSame
<1>4. \A i \in 1 .. N + 1 : Ending(longer, i) = Ending(lines, i)
  BY EndingSame
<1> HIDE DEF longer, N
<1>5. \A i \in 1 .. N + 1 : Feed!IsEvent(longer, i) <=> Has(Ending(lines, i))
  BY <1>4, IsEventForm
<1>6. \A i \in 1 .. N : Feed!IsEvent(lines, i) <=> Has(Ending(lines, i))
  BY IsEventForm
<1>7. Feed!Completes(longer) = {i \in 1 .. (N + 1) : Feed!Cut(longer, i) /\ Feed!IsEvent(longer, i)}
  BY <1>1 DEF Feed!Completes
<1>8. Feed!Completes(lines) = {i \in 1 .. N : Feed!Cut(lines, i) /\ Feed!IsEvent(lines, i)}
  BY DEF Feed!Completes, N
<1>9. \A i \in Feed!Completes(longer) :
         i \in Feed!Completes(lines)
         \/ (i = N + 1 /\ Feed!Cut(longer, N + 1) /\ Has(Ending(lines, N + 1)))
  BY <1>2, <1>3, <1>5, <1>6, <1>7, <1>8
<1>10. \A i \in Feed!Completes(lines) : i \in Feed!Completes(longer)
  BY <1>2, <1>3, <1>5, <1>6, <1>7, <1>8
<1>11. Feed!Cut(longer, N + 1) /\ Has(Ending(lines, N + 1)) => N + 1 \in Feed!Completes(longer)
  BY <1>2, <1>5, <1>7
<1>12. Feed!Completes(longer) =
         IF Feed!Cut(longer, N + 1) /\ Has(Ending(lines, N + 1))
         THEN Feed!Completes(lines) \cup {N + 1} ELSE Feed!Completes(lines)
  BY <1>9, <1>10, <1>11
<1>13. Feed!Completes(lines) \in SUBSET (1 .. N)
  BY <1>8
<1> QED
  BY <1>12, <1>13 DEF longer, N

-----------------------------------------------------------------------------
(* The events on their way                                                  *)

\* The events that are due are those got, then the one in hand (if any), then the
\* one on offer (if any).
InFlight(due, got, a, inHand, b, offered) ==
    /\ Len(due) = Len(got) + (IF a THEN 1 ELSE 0) + (IF b THEN 1 ELSE 0)
    /\ \A k \in 1 .. Len(got) : got[k] = due[k]
    /\ a => inHand = due[Len(got) + 1]
    /\ b => offered = due[Len(due)]

\* One event more is due when it is offered.
LEMMA Offered ==
    ASSUME NEW T, NEW due \in Seq(T), NEW got \in Seq(T), NEW a \in BOOLEAN, NEW inHand,
           NEW e \in T, NEW any, InFlight(due, got, a, inHand, FALSE, any)
    PROVE  InFlight(Append(due, e), got, a, inHand, TRUE, e)
<1>1. /\ Len(due) \in Nat /\ Len(got) \in Nat /\ Len(Append(due, e)) = Len(due) + 1
      /\ Append(due, e)[Len(due) + 1] = e
      /\ \A k \in 1 .. Len(due) : Append(due, e)[k] = due[k]
  OBVIOUS
<1>2. Len(due) = Len(got) + (IF a THEN 1 ELSE 0)
  BY <1>1 DEF InFlight
<1> QED
  BY <1>1, <1>2 DEF InFlight

\* The event on offer becomes the one in hand.
LEMMA Taken ==
    ASSUME NEW T, NEW due \in Seq(T), NEW got \in Seq(T), NEW offered, NEW any, NEW other,
           InFlight(due, got, FALSE, any, TRUE, offered)
    PROVE  InFlight(due, got, TRUE, offered, FALSE, other)
<1>1. Len(due) \in Nat /\ Len(got) \in Nat
  OBVIOUS
<1> QED
  BY <1>1 DEF InFlight

\* The event in hand is the next one due.
LEMMA Got ==
    ASSUME NEW T, NEW due \in Seq(T), NEW got \in Seq(T), NEW inHand \in T, NEW b,
           NEW offered, InFlight(due, got, TRUE, inHand, b, offered)
    PROVE  /\ Len(got) < Len(due) /\ inHand = due[Len(got) + 1]
           /\ \A other : InFlight(due, Append(got, inHand), FALSE, other, b, offered)
<1>1. /\ Len(due) \in Nat /\ Len(got) \in Nat /\ Len(Append(got, inHand)) = Len(got) + 1
      /\ Append(got, inHand)[Len(got) + 1] = inHand
      /\ \A k \in 1 .. Len(got) : Append(got, inHand)[k] = got[k]
  OBVIOUS
<1>2. \A k \in 1 .. Len(got) + 1 : k \in 1 .. Len(got) \/ k = Len(got) + 1
  BY <1>1
<1> QED
  BY <1>1, <1>2 DEF InFlight

\* With nothing on its way everything that is due was got.
LEMMA AllGot ==
    ASSUME NEW T, NEW due \in Seq(T), NEW got \in Seq(T), NEW any, NEW other,
           InFlight(due, got, FALSE, any, FALSE, other)
    PROVE  got = due
<1>1. Len(due) = Len(got) /\ \A k \in 1 .. Len(got) : got[k] = due[k]
  <2>1. Len(due) \in Nat /\ Len(got) \in Nat
    OBVIOUS
  <2> QED
    BY <2>1 DEF InFlight
<1> QED
  BY <1>1

Sending == reader.pc \in {"send", "sendLast"}

Handling == handler.pc = "handle"

\* An event that was offered, as it can be read now.
Seen(offer) == [name |-> offer.name, data |-> Payload(offer.at)]

Delivery ==
    /\ InFlight(Feed!Due, decoded, Handling, Seen(handler.event), Sending, Seen(reader.offer))
    /\ Handling => handler.event.at # 0
    /\ Sending => reader.offer.at # 0

\* What the reader holds of the event that is not complete.
Held ==
    IF reader.pc = "scan" THEN [name |-> reader.name, data |-> reader.data]
    ELSE [name |-> reader.next, data |-> << >>]

Gathering ==
    /\ StartsInside(wire)
    /\ reader.pc \in {"scan", "send"} =>
          /\ body = "open"
          /\ Ending(wire, Len(wire) + 1) = Held
          /\ Feed!OpenData(wire, Len(wire) + 1) # {} <=> Held.data # << >>

FeedInv == IInv /\ Gathering /\ Delivery

\* Feed!Due for the body of this module.
LEMMA DueForm ==
    Feed!Due = Feed!Events(wire, IF body = "ended" THEN Feed!CompletesAtEnd(wire)
                                 ELSE Feed!Completes(wire))
  BY DEF Feed!Due

\* The events that are due are a sequence of events.
LEMMA DueType ==
    ASSUME TypeOK, StartsInside(wire)
    PROVE  Feed!Due \in Seq(Entry)
<1>1. wire \in Seq(Line) /\ Len(wire) \in Nat
  BY DEF TypeOK
<1>2. Feed!Completes(wire) \in SUBSET (1 .. Len(wire))
  BY DEF Feed!Completes
<1>3. \A i \in 1 .. Len(wire) : i \in 1 .. Len(wire) + 1
  BY <1>1
<1>4. Len(wire) + 1 \in 1 .. Len(wire) + 1 /\ Len(wire) + 1 \in 0 .. Len(wire) + 1
  BY <1>1
<1>5. Feed!Completes(wire) \in SUBSET (1 .. Len(wire) + 1)
  BY <1>2, <1>3
<1>6. Feed!CompletesAtEnd(wire) \in SUBSET (1 .. Len(wire) + 1)
  BY <1>4, <1>5 DEF Feed!CompletesAtEnd
<1> QED
  BY <1>1, <1>4, <1>5, <1>6, EventsType, DueForm

\* What is read at an address in use is the payload copied there.
LEMMA SeenTypes ==
    ASSUME TypeOK
    PROVE  /\ decoded \in Seq(Entry)
           /\ handler.event.at # 0 => Seen(handler.event) \in Entry
           /\ reader.offer.at # 0 => Seen(reader.offer) \in Entry
           /\ \A k \in 1 .. Len(heap) : Payload(k) = heap[k]
<1>1. decoded \in Seq(Entry) /\ heap \in Seq(Content) /\ Len(heap) \in Nat
  BY DEF TypeOK, Entry
<1>2. \A o \in Offer : o.at # 0 /\ o.at <= Len(heap) => Seen(o) \in Entry
  <2> SUFFICES ASSUME NEW o \in Offer, o.at # 0, o.at <= Len(heap)
               PROVE  Seen(o) \in Entry
    OBVIOUS
  <2>0. o.name \in Name /\ o.at \in Nat
    BY Members
  <2>1. o.name \in Name /\ o.at \in 1 .. Len(heap)
    BY <1>1, <2>0
  <2>2. heap[o.at] \in Content
    BY <1>1, <2>1
  <2> QED
    BY <2>1, <2>2 DEF Seen, Payload, Entry
<1>3. handler.event.at <= Len(heap) /\ reader.offer.at <= Len(heap)
  BY DEF TypeOK
<1>4. \A k \in 1 .. Len(heap) : Payload(k) = heap[k]
  BY <1>1 DEF Payload
<1> QED
  BY <1>1, <1>2, <1>3, <1>4, Addresses

\* Copies stay where they are.
LEMMA SeenStays ==
    ASSUME TypeOK, handler.event.at # 0, handler' = handler,
           heap' = heap \/ \E c \in Content : heap' = Append(heap, c)
    PROVE  Seen(handler.event)' = Seen(handler.event)
<1>1. handler.event.at \in 1 .. Len(heap) /\ heap \in Seq(Content)
  <2>1. handler.event.at <= Len(heap) /\ heap \in Seq(Content)
    BY DEF TypeOK
  <2> QED
    BY <2>1, Addresses
<1>2. heap'[handler.event.at] = heap[handler.event.at]
  BY <1>1
<1> QED
  BY <1>2 DEF Seen, Payload

\* What a line does to the events.
LEMMA LineArrives ==
    ASSUME FeedInv, NEW line \in Line, Arrives(line)
    PROVE  LET cut == line.kind = "blank" \/ (line.kind = "event" /\ reader.data # << >>)
               old == IF cut THEN [name |-> "", data |-> << >>]
                      ELSE [name |-> reader.name, data |-> reader.data]
           IN  /\ Feed!Due' = IF cut /\ Pending
                              THEN Append(Feed!Due, [name |-> reader.name, data |-> reader.data])
                              ELSE Feed!Due
               /\ StartsInside(wire)'
               /\ Ending(wire, Len(wire) + 1)' =
                     [name |-> IF line.kind = "event" THEN line.value ELSE old.name,
                      data |-> IF line.kind = "data" THEN Append(old.data, line.value) ELSE old.data]
               /\ line.kind \in {"blank", "event"} => Feed!OpenData(wire, Len(wire) + 1)' = {}
               /\ line.kind = "data" => Feed!OpenData(wire, Len(wire) + 1)' # {}
               /\ line.kind = "comment" =>
                     (Feed!OpenData(wire, Len(wire) + 1)' # {} <=> reader.data # << >>)
<1> DEFINE N == Len(wire)
           cut == line.kind = "blank" \/ (line.kind = "event" /\ reader.data # << >>)
           held == [name |-> reader.name, data |-> reader.data]
<1>1. /\ wire \in Seq(Line) /\ N \in Nat /\ wire' = Append(wire, line) /\ Len(wire') = N + 1
      /\ reader.pc = "scan" /\ body = "open" /\ body' = "open"
  BY DEF FeedInv, IInv, TypeOK, Arrives, Scanning
<1>2. /\ StartsInside(wire) /\ Ending(wire, N + 1) = held
      /\ Feed!OpenData(wire, N + 1) # {} <=> reader.data # << >>
  BY <1>1 DEF FeedInv, Gathering, Held
<1>3. Feed!Cut(wire', N + 1) <=> cut
  BY <1>1, <1>2, CutNew
<1>4. StartsInside(wire)'
  BY <1>1, <1>2, StartsInsideGrows
<1>5. Feed!Completes(wire') = IF cut /\ Has(held) THEN Feed!Completes(wire) \cup {N + 1}
                              ELSE Feed!Completes(wire)
  <2> HIDE DEF cut, held
  <2> QED
    BY <1>1, <1>2, <1>3, CompletesGrow
<1>6. Has(held) <=> Pending
  BY DEF Has, Pending
<1>7. Feed!Completes(wire) \in SUBSET (1 .. N)
  BY <1>1, <1>2, CompletesGrow
<1>8. Feed!Due' = Feed!Events(wire', Feed!Completes(wire')) /\ Feed!Due = Feed!Events(wire, Feed!Completes(wire))
  BY <1>1 DEF Feed!Due
<1>9. /\ Feed!Events(wire', Feed!Completes(wire)) = Feed!Events(wire, Feed!Completes(wire))
      /\ Feed!Events(wire', Feed!Completes(wire) \cup {N + 1})
            = Feed!Events(wire, Feed!Completes(wire) \cup {N + 1})
  <2>1. /\ N \in 0 .. Len(wire) + 1 /\ N + 1 \in 0 .. Len(wire) + 1
        /\ \A i \in 1 .. N : i \in 1 .. N + 1
        /\ N + 1 \in 1 .. N + 1
    BY <1>1
  <2>2. Feed!Completes(wire) \cup {N + 1} \in SUBSET (1 .. N + 1)
    BY <1>7, <2>1
  <2> HIDE DEF N
  <2> QED
    BY <1>1, <1>2, <1>7, <2>1, <2>2, EventsSame
<1>10. Feed!Events(wire, Feed!Completes(wire) \cup {N + 1})
         = Append(Feed!Events(wire, Feed!Completes(wire)), held)
  BY <1>1, <1>2, <1>7, EventsGrow
<1>11. Feed!Due' = IF cut /\ Pending THEN Append(Feed!Due, held) ELSE Feed!Due
  <2> HIDE DEF cut, held, N
  <2> QED
    BY <1>5, <1>6, <1>8, <1>9, <1>10
<1> DEFINE old == IF cut THEN [name |-> "", data |-> << >>] ELSE held
<1>12. Ending(wire', N + 2) =
         [name |-> IF line.kind = "event" THEN line.value ELSE old.name,
          data |-> IF line.kind = "data" THEN Append(old.data, line.value) ELSE old.data]
  <2>1. old = IF Feed!Cut(wire', N + 1) THEN [name |-> "", data |-> << >>] ELSE Ending(wire, N + 1)
    <3> HIDE DEF cut, held, N
    <3> QED
      BY <1>2, <1>3
  <2> HIDE DEF old, cut, held
  <2> QED
    BY <1>1, <1>2, <2>1, EndingNext
<1>13. /\ line.kind \in {"blank", "event"} => Feed!OpenData(wire', N + 2) = {}
       /\ line.kind = "data" => Feed!OpenData(wire', N + 2) # {}
       /\ line.kind = "comment" => (Feed!OpenData(wire', N + 2) # {} <=> reader.data # << >>)
  <2> HIDE DEF cut, held
  <2> QED
    BY <1>1, <1>2, OpenNext
<1>14. Len(wire') + 1 = N + 2
  BY <1>1
<1>15. /\ Ending(wire, Len(wire) + 1)' = Ending(wire', N + 2)
       /\ Feed!OpenData(wire, Len(wire) + 1)' = Feed!OpenData(wire', N + 2)
  BY <1>14
<1> HIDE DEF N
<1> QED
  BY <1>4, <1>11, <1>12, <1>13, <1>15

\* The invariant with its parts of the reader and the handler spelled out.
LEMMA InvFacts ==
    ASSUME FeedInv
    PROVE  /\ TypeOK /\ StartsInside(wire) /\ Feed!Due \in Seq(Entry) /\ decoded \in Seq(Entry)
           /\ reader.pc \in {"scan", "send", "sendLast", "fail", "closeErrs", "closeEvents", "done"}
           /\ reader.data \in Content /\ Len(heap) \in Nat /\ heap \in Seq(Content)
           /\ [name |-> reader.name, data |-> reader.data] \in Entry
<1>1. TypeOK /\ StartsInside(wire)
  BY DEF FeedInv, IInv, Gathering
<1>2. reader.data \in Content /\ reader.name \in Name
  BY <1>1, Addresses
<1> QED
  BY <1>1, <1>2, DueType, SeenTypes DEF TypeOK, Reader, Entry

\* Nothing happens to the events that are due and on their way.
LEMMA DeliveryStays ==
    ASSUME FeedInv, Feed!Due' = Feed!Due, decoded' = decoded, handler' = handler,
           heap' = heap \/ \E c \in Content : heap' = Append(heap, c),
           ~ Sending, ~ Sending'
    PROVE  Delivery'
<1>1. Handling => Seen(handler.event)' = Seen(handler.event)
  BY SeenStays, InvFacts DEF FeedInv, Delivery
<1> QED
  BY <1>1 DEF FeedInv, Delivery, InFlight, Handling

\* The reader copies what it holds and offers it.
LEMMA FlushOffers ==
    ASSUME FeedInv, NEW pc \in {"send", "sendLast"}, NEW next \in Name, flush(pc, next),
           reader.pc = "scan", decoded' = decoded, handler' = handler,
           Feed!Due' = Append(Feed!Due, [name |-> reader.name, data |-> reader.data])
    PROVE  Delivery'
<1> DEFINE held == [name |-> reader.name, data |-> reader.data]
<1>1. /\ Feed!Due \in Seq(Entry) /\ decoded \in Seq(Entry) /\ held \in Entry
      /\ heap \in Seq(Content) /\ Len(heap) \in Nat /\ reader.data \in Content
  BY InvFacts
<1>2. Handling => Seen(handler.event)' = Seen(handler.event)
  BY <1>1, SeenStays, InvFacts DEF FeedInv, Delivery, flush
<1>3. ~ Sending /\ Handling \in BOOLEAN /\ InFlight(Feed!Due, decoded, Handling, Seen(handler.event), FALSE, Seen(reader.offer))
  <2>1. ~ Sending /\ Handling \in BOOLEAN
    BY DEF Sending, Handling
  <2>2. InFlight(Feed!Due, decoded, Handling, Seen(handler.event), Sending, Seen(reader.offer))
    BY DEF FeedInv, Delivery
  <2> QED
    BY <2>1, <2>2 DEF InFlight
<1>4. InFlight(Append(Feed!Due, held), decoded, Handling, Seen(handler.event), TRUE, held)
  <2> HIDE DEF held
  <2> QED
    BY <1>1, <1>3, Offered
<1>5. /\ reader'.pc = pc /\ reader'.offer = [name |-> reader.name, at |-> Len(heap) + 1]
      /\ heap' = Append(heap, reader.data)
  <2>1. reader \in Reader
    BY InvFacts DEF TypeOK
  <2> QED
    BY <2>1 DEF flush, Reader
<1>6. reader'.offer.at # 0 /\ Seen(reader.offer)' = held
  <2>1. reader'.offer.at = Len(heap) + 1 /\ reader'.offer.name = reader.name
    BY <1>5
  <2>2. heap'[Len(heap) + 1] = reader.data /\ Len(heap) + 1 # 0
    BY <1>1, <1>5
  <2> QED
    BY <2>1, <2>2 DEF Seen, Payload
<1>7. Sending' /\ (Handling' <=> Handling)
  BY <1>5 DEF Sending, Handling
<1>8. InFlight(Feed!Due', decoded', Handling, Seen(handler.event), TRUE, held)
  BY <1>4
<1> HIDE DEF held
<1>9. InFlight(Feed!Due', decoded', Handling', Seen(handler.event)', Sending', Seen(reader.offer)')
  BY <1>2, <1>6, <1>7, <1>8 DEF InFlight
<1>10. Handling' => handler'.event.at # 0
  BY <1>7 DEF FeedInv, Delivery
<1> QED
  BY <1>6, <1>9, <1>10 DEF Delivery

\* The reader's steps.
LEMMA ReadKeepsFeed ==
    ASSUME FeedInv, Read
    PROVE  (Gathering /\ Delivery)'
<1>0. /\ TypeOK /\ reader \in Reader /\ heap \in Seq(Content)
      /\ reader.name \in Name /\ reader.data \in Content /\ "" \in Name
  BY InvFacts, Addresses, Members DEF TypeOK
<1>a. ASSUME NEW pc \in {"send", "sendLast"}, NEW next \in Name, flush(pc, next)
      PROVE  reader'.pc = pc /\ reader'.next = next
  BY <1>0, <1>a DEF flush, Reader
<1>1. CASE BlankLine
  <2> DEFINE line == [kind |-> "blank", value |-> ""]
  <2>1. line \in Line /\ line.kind = "blank" /\ Arrives(line)
    BY <1>1 DEF BlankLine, Line
  <2> HIDE DEF line
  <2>2. /\ Feed!Due' = IF Pending THEN Append(Feed!Due, [name |-> reader.name, data |-> reader.data])
                       ELSE Feed!Due
        /\ StartsInside(wire)' /\ Ending(wire, Len(wire) + 1)' = [name |-> "", data |-> << >>]
        /\ Feed!OpenData(wire, Len(wire) + 1)' = {}
    BY <2>1, LineArrives
  <2>3. /\ reader.pc = "scan" /\ body = "open" /\ body' = body /\ decoded' = decoded /\ handler' = handler
    BY <2>1 DEF Arrives, Scanning
  <2>4. CASE Pending
    <3>1. flush("send", "")
      BY <1>1, <2>4 DEF BlankLine
    <3>2. Delivery'
      BY <1>0, <2>2, <2>3, <2>4, <3>1, FlushOffers
    <3>3. reader'.pc = "send" /\ reader'.next = ""
      BY <1>0, <1>a, <3>1
    <3>4. Gathering'
      BY <2>2, <2>3, <3>3 DEF Gathering, Held
    <3> QED
      BY <3>2, <3>4
  <2>5. CASE ~ Pending
    <3>1. reader' = reader /\ heap' = heap
      BY <1>1, <2>5 DEF BlankLine
    <3>2. Delivery'
      BY <2>2, <2>3, <2>5, <3>1, DeliveryStays DEF Sending
    <3>3. reader.name = "" /\ reader.data = << >>
      BY <2>5 DEF Pending
    <3>4. Gathering'
      BY <2>2, <2>3, <3>1, <3>3 DEF Gathering, Held
    <3> QED
      BY <3>2, <3>4
  <2> QED
    BY <2>4, <2>5
<1>2. CASE CommentLine
  <2> DEFINE line == [kind |-> "comment", value |-> ""]
  <2>1. line \in Line /\ line.kind = "comment" /\ Arrives(line)
    BY <1>2 DEF CommentLine, Line
  <2> HIDE DEF line
  <2>2. /\ Feed!Due' = Feed!Due
        /\ StartsInside(wire)'
        /\ Ending(wire, Len(wire) + 1)' = [name |-> reader.name, data |-> reader.data]
        /\ (Feed!OpenData(wire, Len(wire) + 1)' # {} <=> reader.data # << >>)
    BY <2>1, LineArrives
  <2>3. /\ reader.pc = "scan" /\ body = "open" /\ body' = body /\ decoded' = decoded /\ handler' = handler
        /\ reader' = reader /\ heap' = heap
    BY <1>2, <2>1 DEF Arrives, Scanning, CommentLine
  <2>4. Delivery'
    BY <2>2, <2>3, DeliveryStays DEF Sending
  <2>5. Gathering'
    BY <2>2, <2>3 DEF Gathering, Held
  <2> QED
    BY <2>4, <2>5
<1>3. ASSUME NEW n \in Names, NameLine(n)
      PROVE  (Gathering /\ Delivery)'
  <2> DEFINE line == [kind |-> "event", value |-> n]
  <2>1. line \in Line /\ line.kind = "event" /\ line.value = n /\ Arrives(line) /\ n \in Name
    BY <1>3, Members DEF NameLine, Line
  <2> HIDE DEF line
  <2>2. /\ Feed!Due' = IF reader.data # << >> /\ Pending
                       THEN Append(Feed!Due, [name |-> reader.name, data |-> reader.data])
                       ELSE Feed!Due
        /\ StartsInside(wire)'
        /\ reader.data # << >> => Ending(wire, Len(wire) + 1)' = [name |-> n, data |-> << >>]
        /\ reader.data = << >> => Ending(wire, Len(wire) + 1)' = [name |-> n, data |-> reader.data]
        /\ Feed!OpenData(wire, Len(wire) + 1)' = {}
    BY <2>1, LineArrives
  <2>3. /\ reader.pc = "scan" /\ body = "open" /\ body' = body /\ decoded' = decoded /\ handler' = handler
    BY <2>1 DEF Arrives, Scanning
  <2>4. CASE reader.data # << >>
    <3>1. flush("send", n)
      BY <1>3, <2>4 DEF NameLine
    <3>2. Delivery'
      BY <1>0, <2>1, <2>2, <2>3, <2>4, <3>1, FlushOffers DEF Pending
    <3>3. reader'.pc = "send" /\ reader'.next = n
      BY <1>a, <2>1, <3>1
    <3>4. Gathering'
      BY <2>2, <2>3, <2>4, <3>3 DEF Gathering, Held
    <3> QED
      BY <3>2, <3>4
  <2>5. CASE reader.data = << >>
    <3>1. /\ heap' = heap /\ reader'.pc = "scan" /\ reader'.name = n /\ reader'.data = reader.data
      BY <1>0, <1>3, <2>3, <2>5 DEF NameLine, Reader
    <3>2. Delivery'
      BY <2>2, <2>3, <2>5, <3>1, DeliveryStays DEF Sending
    <3>3. Gathering'
      BY <2>2, <2>3, <2>5, <3>1 DEF Gathering, Held
    <3> QED
      BY <3>2, <3>3
  <2> QED
    BY <2>4, <2>5
<1>4. ASSUME NEW d \in Texts, DataLine(d)
      PROVE  (Gathering /\ Delivery)'
  <2> DEFINE line == [kind |-> "data", value |-> d]
  <2>1. line \in Line /\ line.kind = "data" /\ line.value = d /\ Arrives(line)
    BY <1>4 DEF DataLine, Line
  <2> HIDE DEF line
  <2>2. /\ Feed!Due' = Feed!Due
        /\ StartsInside(wire)'
        /\ Ending(wire, Len(wire) + 1)' = [name |-> reader.name, data |-> Append(reader.data, d)]
        /\ Feed!OpenData(wire, Len(wire) + 1)' # {}
    BY <2>1, LineArrives
  <2>3. /\ reader.pc = "scan" /\ body = "open" /\ body' = body /\ decoded' = decoded /\ handler' = handler
        /\ heap' = heap
    BY <1>4, <2>1 DEF Arrives, Scanning, DataLine
  <2>4. reader'.pc = "scan" /\ reader'.name = reader.name /\ reader'.data = Append(reader.data, d)
    BY <1>0, <1>4, <2>3 DEF DataLine, Reader
  <2>5. Append(reader.data, d) # << >>
    <3> DEFINE s == reader.data
    <3>3. s \in Seq(Texts)
      BY <1>0 DEF Content
    <3> HIDE DEF s
    <3>1. Len(Append(s, d)) = Len(s) + 1 /\ Len(s) \in Nat
      BY <3>3
    <3>2. Len(<< >>) = 0
      OBVIOUS
    <3> QED
      BY <3>1, <3>2 DEF s
  <2>6. Delivery'
    BY <2>2, <2>3, <2>4, DeliveryStays DEF Sending
  <2>7. Gathering'
    BY <2>2, <2>3, <2>4, <2>5 DEF Gathering, Held
  <2> QED
    BY <2>6, <2>7
<1>5. CASE ScanEnds
  <2>1. /\ reader.pc = "scan" /\ body = "open" /\ body' = "ended" /\ wire' = wire
        /\ decoded' = decoded /\ handler' = handler
    BY <1>5 DEF ScanEnds, Scanning
  <2>2. /\ StartsInside(wire) /\ Ending(wire, Len(wire) + 1) = [name |-> reader.name, data |-> reader.data]
        /\ wire \in Seq(Line)
    BY <2>1, InvFacts DEF FeedInv, Gathering, Held, TypeOK
  <2>3. Feed!IsEvent(wire, Len(wire) + 1) <=> Pending
    <3>1. Has([name |-> reader.name, data |-> reader.data]) <=> Pending
      BY DEF Has, Pending
    <3> QED
      BY <2>2, <3>1, IsEventForm
  <2>4. Feed!Completes(wire) \in SUBSET (1 .. Len(wire))
    BY DEF Feed!Completes
  <2>5. Feed!Events(wire, Feed!Completes(wire) \cup {Len(wire) + 1})
          = Append(Feed!Events(wire, Feed!Completes(wire)), [name |-> reader.name, data |-> reader.data])
    BY <2>2, <2>4, EventsGrow
  <2>6. Feed!Due = Feed!Events(wire, Feed!Completes(wire))
    BY <2>1 DEF Feed!Due
  <2>7. Feed!Due' = Feed!Events(wire, Feed!CompletesAtEnd(wire))
    BY <2>1 DEF Feed!Due
  <2>8. Feed!CompletesAtEnd(wire) = IF Pending THEN Feed!Completes(wire) \cup {Len(wire) + 1}
                                    ELSE Feed!Completes(wire)
    BY <2>3 DEF Feed!CompletesAtEnd
  <2>9. CASE Pending
    <3>1. flush("sendLast", "")
      BY <1>5, <2>9 DEF ScanEnds
    <3>2. Delivery'
      BY <1>0, <2>1, <2>5, <2>6, <2>7, <2>8, <2>9, <3>1, FlushOffers
    <3>3. reader'.pc = "sendLast"
      BY <1>0, <1>a, <3>1
    <3> QED
      BY <2>1, <2>2, <3>2, <3>3 DEF Gathering
  <2>10. CASE ~ Pending
    <3>1. reader'.pc = "closeErrs" /\ heap' = heap
      BY <1>0, <1>5, <2>10 DEF ScanEnds, Reader
    <3>2. Delivery'
      BY <2>1, <2>6, <2>7, <2>8, <2>10, <3>1, DeliveryStays DEF Sending
    <3> QED
      BY <2>1, <2>2, <3>1, <3>2 DEF Gathering
  <2> QED
    BY <2>9, <2>10
<1>6. CASE ScanFails \/ PutError \/ CloseErrs \/ CloseEvents
  <2>1. /\ ~ Sending /\ ~ Sending' /\ wire' = wire /\ heap' = heap /\ decoded' = decoded /\ handler' = handler
        /\ reader'.pc \notin {"scan", "send"}
        /\ (body' = "ended" <=> body = "ended")
    BY <1>0, <1>6 DEF ScanFails, PutError, CloseErrs, CloseEvents, Scanning, Reader, Sending
  <2>2. Feed!Due' = Feed!Due
    BY <2>1 DEF Feed!Due
  <2>3. Delivery'
    BY <2>1, <2>2, DeliveryStays
  <2>4. StartsInside(wire)'
    BY <2>1, InvFacts
  <2> QED
    BY <2>1, <2>3, <2>4 DEF Gathering
<1> QED
  BY <1>1, <1>2, <1>3, <1>4, <1>5, <1>6 DEF Read, ScanLine

\* The handler's and the client's steps: a handoff takes the event on offer, a
\* decoding the one in hand, and the others take none.
LEMMA HandleKeepsFeed ==
    ASSUME FeedInv, HandleStream \/ Client
    PROVE  (Gathering /\ Delivery)'
<1>0. /\ TypeOK /\ reader \in Reader /\ handler \in Handler /\ StartsInside(wire)
      /\ Feed!Due \in Seq(Entry) /\ decoded \in Seq(Entry)
  BY InvFacts DEF TypeOK
<1>00. InFlight(Feed!Due, decoded, Handling, Seen(handler.event), Sending, Seen(reader.offer))
  BY DEF FeedInv, Delivery
<1>1. CASE Handoff
  <2>1. /\ wire' = wire /\ body' = body /\ heap' = heap /\ decoded' = decoded
        /\ Sending /\ ~ Handling /\ Handling' /\ ~ Sending'
        /\ handler'.event = reader.offer
        /\ reader'.pc = (IF reader.pc = "send" THEN "scan" ELSE "closeErrs")
        /\ reader'.name = reader.next /\ reader'.data = << >>
    BY <1>0, <1>1 DEF Handoff, Reader, Handler, Sending, Handling
  <2>2. Gathering'
    <3>1. reader'.pc \in {"scan", "send"} => reader.pc = "send" /\ Held' = Held
      BY <2>1 DEF Held, Sending
    <3> QED
      BY <1>0, <2>1, <3>1 DEF FeedInv, Gathering
  <2>3. Feed!Due' = Feed!Due
    BY <2>1 DEF Feed!Due
  <2>4. reader.offer.at # 0
    BY <2>1 DEF FeedInv, Delivery
  <2>5. Seen(handler.event)' = Seen(reader.offer)
    BY <2>1, <2>4 DEF Seen, Payload
  <2>6. InFlight(Feed!Due, decoded, FALSE, Seen(handler.event), TRUE, Seen(reader.offer))
    BY <1>00, <2>1 DEF InFlight
  <2>7. InFlight(Feed!Due, decoded, TRUE, Seen(reader.offer), FALSE, Seen(reader.offer)')
    BY <1>0, <2>6, Taken
  <2>8. InFlight(Feed!Due', decoded', Handling', Seen(handler.event)', Sending', Seen(reader.offer)')
    BY <2>1, <2>3, <2>5, <2>7 DEF InFlight
  <2> QED
    BY <2>1, <2>2, <2>4, <2>8 DEF Delivery
<1>2. CASE EventHandled \/ EventFails \/ EventTranslated
  <2>1. /\ wire' = wire /\ body' = body /\ heap' = heap /\ reader' = reader
        /\ Handling /\ ~ Handling' /\ (Sending' <=> Sending)
        /\ decoded' = Append(decoded, Seen(handler.event))
    BY <1>0, <1>2 DEF EventHandled, EventFails, EventTranslated, Returned, Decode, Handler,
           Sending, Handling, Seen
  <2>2. Gathering'
    BY <2>1 DEF FeedInv, Gathering, Held
  <2>3. Feed!Due' = Feed!Due /\ Seen(reader.offer)' = Seen(reader.offer)
    BY <2>1 DEF Feed!Due, Seen, Payload
  <2>4. Seen(handler.event) \in Entry /\ Sending \in BOOLEAN
    BY <1>0, <2>1, SeenTypes DEF FeedInv, Delivery, Sending
  <2>5. InFlight(Feed!Due, decoded, TRUE, Seen(handler.event), Sending, Seen(reader.offer))
    BY <1>00, <2>1 DEF InFlight
  <2>6. InFlight(Feed!Due, decoded', FALSE, Seen(handler.event)', Sending, Seen(reader.offer))
    <3> DEFINE e == Seen(handler.event)
               b == Sending
               o == Seen(reader.offer)
    <3>1. e \in Entry /\ b \in BOOLEAN /\ InFlight(Feed!Due, decoded, TRUE, e, b, o)
      BY <2>4, <2>5
    <3> HIDE DEF e, b, o
    <3>2. \A other : InFlight(Feed!Due, Append(decoded, e), FALSE, other, b, o)
      BY <1>0, <3>1, Got
    <3> QED
      BY <2>1, <3>2 DEF e, b, o
  <2>7. InFlight(Feed!Due', decoded', Handling', Seen(handler.event)', Sending', Seen(reader.offer)')
    BY <2>1, <2>3, <2>6 DEF InFlight
  <2> QED
    BY <2>1, <2>2, <2>7 DEF FeedInv, Delivery
<1>3. CASE ReaderClosed \/ ContextDone \/ FramesWritten \/ WriteFails \/ Report \/ Poll \/ Leave \/ Client
  <2>1. /\ wire' = wire /\ body' = body /\ heap' = heap /\ reader' = reader /\ decoded' = decoded
        /\ Handling => handler' = handler
        /\ Handling' <=> Handling
    BY <1>0, <1>3 DEF FramesWritten, WriteFails, ReaderClosed, ContextDone, Report, Poll,
           Leave, Client, Cancel, Stall, Returned, Handler, Handling
  <2>2. Gathering'
    BY <2>1 DEF FeedInv, Gathering, Held
  <2>3. /\ Feed!Due' = Feed!Due /\ Seen(reader.offer)' = Seen(reader.offer) /\ (Sending' <=> Sending)
        /\ Handling => Seen(handler.event)' = Seen(handler.event)
    BY <2>1 DEF Feed!Due, Seen, Payload, Sending
  <2>4. InFlight(Feed!Due', decoded', Handling', Seen(handler.event)', Sending', Seen(reader.offer)')
    BY <1>00, <2>1, <2>3 DEF InFlight
  <2> QED
    BY <2>1, <2>2, <2>3, <2>4 DEF FeedInv, Delivery
<1> QED
  BY <1>1, <1>2, <1>3 DEF HandleStream

\* No line, no event.
LEMMA FeedInitially == ASSUME Init PROVE Gathering /\ Delivery
<1>1. /\ wire = << >> /\ body = "open" /\ decoded = << >> /\ reader.pc = "scan" /\ reader.name = ""
      /\ reader.data = << >> /\ handler.pc = "select"
  BY DEF Init
<1>2. wire \in Seq(Line) /\ Len(wire) = 0
  <2>1. << >> \in Seq(Line) /\ Len(<< >>) = 0
    OBVIOUS
  <2> QED
    BY <1>1, <2>1
<1>3. StartsInside(wire)
  <2>1. 1 .. (1 - 1) = {} /\ 1 .. 0 + 1 = {1} /\ 1 \in 1 .. 1
    OBVIOUS
  <2>2. Feed!Start(wire, 1) = 1
    BY <2>1, StartForm DEF CutsBefore
  <2> QED
    BY <1>2, <2>1, <2>2 DEF StartsInside
<1>4. Ending(wire, Len(wire) + 1) = Held
  <2>1. Feed!Start(wire, 1) = 1
    <3>1. 1 .. (1 - 1) = {}
      OBVIOUS
    <3> QED
      BY <3>1, StartForm DEF CutsBefore
  <2>2. Feed!EventOf(wire, Len(wire) + 1, Len(wire) + 1) = [name |-> "", data |-> << >>]
    BY <1>2, EventOfNone
  <2>3. Len(wire) + 1 = 1
    BY <1>2
  <2>4. Ending(wire, 1) = [name |-> "", data |-> << >>]
    BY <2>1, <2>2, <2>3 DEF Ending
  <2> QED
    BY <1>1, <2>3, <2>4 DEF Held
<1>5. Feed!OpenData(wire, Len(wire) + 1) = {}
  <2>1. 1 .. ((Len(wire) + 1) - 1) = {}
    BY <1>2
  <2> QED
    BY <2>1 DEF Feed!OpenData
<1>6. Gathering
  BY <1>1, <1>3, <1>4, <1>5 DEF Gathering, Held
<1>7. Feed!Due = << >>
  <2>1. Feed!Completes(wire) = {}
    <3>1. 1 .. Len(wire) = {}
      BY <1>2
    <3> QED
      BY <3>1 DEF Feed!Completes
  <2>2. Feed!Due = Feed!Events(wire, {})
    BY <1>1, <2>1, DueForm
  <2>3. Cardinality({}) = 0 /\ 1 .. 0 = {}
    BY FS_EmptySet
  <2> QED
    BY <2>2, <2>3, EventsForm
<1>8. Delivery
  <2>1. ~ Handling /\ ~ Sending /\ Len(<< >>) = 0
    BY <1>1 DEF Handling, Sending
  <2>2. 1 .. 0 = {}
    OBVIOUS
  <2>3. Len(Feed!Due) = 0 /\ Len(decoded) = 0
    BY <1>1, <1>7, <2>1
  <2>4. InFlight(Feed!Due, decoded, Handling, Seen(handler.event), Sending, Seen(reader.offer))
    BY <2>1, <2>2, <2>3 DEF InFlight
  <2> QED
    BY <2>1, <2>4 DEF Delivery
<1> QED
  BY <1>6, <1>8

\* What the bridge has decoded, has in hand and is offered are the events of the
\* lines that have arrived.
THEOREM FeedInductive == Spec => []FeedInv
<1>1. Init => FeedInv
  BY FeedInitially, Initially DEF FeedInv
<1>2. FeedInv /\ IInv' /\ [Next]_vars => FeedInv'
  <2> SUFFICES ASSUME FeedInv, IInv', [Next]_vars
               PROVE  FeedInv'
    OBVIOUS
  <2>1. CASE UNCHANGED vars
    <3>1. /\ UNCHANGED <<wire, body, reader, heap, handler, decoded>>
      BY <2>1 DEF vars
    <3>2. Feed!Due' = Feed!Due /\ Held' = Held /\ Seen(handler.event)' = Seen(handler.event)
          /\ Seen(reader.offer)' = Seen(reader.offer)
      BY <3>1 DEF Feed!Due, Held, Seen, Payload
    <3> QED
      BY <3>1, <3>2 DEF FeedInv, Gathering, Delivery, Handling, Sending
  <2> QED
    BY <2>1, ReadKeepsFeed, HandleKeepsFeed DEF Next, FeedInv
<1> QED
  BY <1>1, <1>2, Inductive, PTL DEF Spec

\* Every step of the reader and the handler is one of the feed or changes nothing
\* of it.
LEMMA StepsOfTheFeed ==
    ASSUME FeedInv, [Next]_vars
    PROVE  [Feed!Next]_<<wire, body = "ended", decoded, Ended>>
<1>0. TypeOK /\ ErrorKept
  BY DEF FeedInv, IInv
<1>1. CASE UNCHANGED vars
  BY <1>1 DEF vars, Ended
<1>2. CASE ScanLine
  <2>1. PICK line \in Line : Arrives(line)
    <3>1. [kind |-> "blank", value |-> ""] \in Line /\ [kind |-> "comment", value |-> ""] \in Line
      BY DEF Line
    <3>2. \A n \in Names : [kind |-> "event", value |-> n] \in Line
      BY DEF Line
    <3>3. \A d \in Texts : [kind |-> "data", value |-> d] \in Line
      BY DEF Line
    <3> QED
      BY <1>2, <3>1, <3>2, <3>3 DEF ScanLine, BlankLine, CommentLine, NameLine, DataLine
  <2>2. /\ wire' = Append(wire, line) /\ body = "open" /\ body' = body /\ decoded' = decoded
        /\ handler' = handler /\ wire \in Seq(Line)
    BY <1>0, <2>1 DEF Arrives, Scanning, TypeOK
  <2>3. Len(wire') = Len(wire) + 1 /\ SubSeq(wire', 1, Len(wire)) = wire
    BY <2>2
  <2>4. Ended' = Ended
    BY <2>2 DEF Ended
  <2>5. Feed!Arrive
    BY <2>2, <2>3, <2>4 DEF Feed!Arrive
  <2> QED
    BY <2>5 DEF Feed!Next
<1>3. CASE ScanEnds
  <2>1. /\ wire' = wire /\ body = "open" /\ body' = "ended" /\ decoded' = decoded
        /\ handler' = handler /\ reader.pc = "scan"
    BY <1>3 DEF ScanEnds, Scanning
  <2>2. handler.result # "nil"
    BY <1>0, <2>1 DEF ErrorKept
  <2>3. Ended' = Ended
    BY <2>1, <2>2 DEF Ended
  <2>4. Feed!Finish
    BY <2>1, <2>3 DEF Feed!Finish
  <2> QED
    BY <2>4 DEF Feed!Next
<1>4. CASE ScanFails \/ PutError \/ CloseErrs \/ CloseEvents \/ Handoff
  <2>1. /\ wire' = wire /\ (body' = "ended" <=> body = "ended") /\ decoded' = decoded
        /\ handler'.result = handler.result
        /\ (handler'.pc \in {"select", "handle", "write", "report"}
               <=> handler.pc \in {"select", "handle", "write", "report"})
    BY <1>0, <1>4 DEF ScanFails, PutError, CloseErrs, CloseEvents, Scanning, Handoff, TypeOK,
           Handler
  <2>2. Ended' = Ended
    BY <2>1 DEF Ended
  <2> QED
    BY <2>1, <2>2
<1>5. CASE EventHandled \/ EventFails \/ EventTranslated
  <2>1. /\ wire' = wire /\ body' = body /\ Handling
        /\ decoded' = Append(decoded, Seen(handler.event))
        /\ Ended = "no" /\ Ended' = "no"
    BY <1>0, <1>5 DEF EventHandled, EventFails, EventTranslated, Returned, Decode, Handling,
           Seen, Ended, TypeOK, Handler
  <2>2. InFlight(Feed!Due, decoded, TRUE, Seen(handler.event), Sending, Seen(reader.offer))
    BY <2>1 DEF FeedInv, Delivery, InFlight
  <2>3. Seen(handler.event) \in Entry /\ Sending \in BOOLEAN
    BY <1>0, <2>1, SeenTypes DEF FeedInv, Delivery, Sending
  <2>4. Len(decoded) < Len(Feed!Due) /\ Seen(handler.event) = Feed!Due[Len(decoded) + 1]
    BY <2>2, <2>3, InvFacts, Got
  <2>5. Feed!Receive
    BY <2>1, <2>4 DEF Feed!Receive
  <2> QED
    BY <2>5 DEF Feed!Next
<1>6. CASE Report
  <2>1. /\ wire' = wire /\ body' = body /\ decoded' = decoded /\ Ended = "no"
        /\ handler.pc = "report" /\ handler'.pc = "poll" /\ handler'.result = handler.result
    BY <1>0, <1>6 DEF Report, Ended, TypeOK, Handler
  <2>2. CASE handler.result # "nil"
    <3>1. Ended' = "abandoned"
      BY <2>1, <2>2 DEF Ended
    <3> QED
      BY <2>1, <3>1 DEF Feed!Next, Feed!End
  <2>3. CASE handler.result = "nil"
    <3>1. reader.pc = "done" /\ ~ Sending /\ ~ Handling
      BY <1>0, <2>1, <2>3 DEF ErrorKept, Sending, Handling
    <3>2. InFlight(Feed!Due, decoded, FALSE, Seen(handler.event), FALSE, Seen(reader.offer))
      BY <3>1 DEF FeedInv, Delivery, InFlight
    <3>3. decoded = Feed!Due
      BY <3>2, InvFacts, AllGot
    <3>4. Ended' = IF body = "ended" THEN "whole" ELSE "cut"
      BY <2>1, <2>3 DEF Ended
    <3> QED
      BY <2>1, <3>3, <3>4 DEF Feed!Next, Feed!End
  <2> QED
    BY <2>2, <2>3
<1>7. CASE ReaderClosed \/ ContextDone \/ FramesWritten \/ WriteFails \/ Poll \/ Leave \/ Client
  <2>1. /\ wire' = wire /\ body' = body /\ decoded' = decoded
    BY <1>7 DEF FramesWritten, WriteFails, ReaderClosed, ContextDone, Poll, Leave, Client,
           Cancel, Stall
  <2>2. Ended' = Ended
    BY <1>0, <1>7, <2>1 DEF FramesWritten, WriteFails, ReaderClosed, ContextDone, Poll, Leave,
           Client, Cancel, Stall, Returned, Ended, TypeOK, Handler
  <2> QED
    BY <2>1, <2>2
<1> QED
  BY <1>1, <1>2, <1>3, <1>4, <1>5, <1>6, <1>7 DEF Next, Read, HandleStream

\* The bridge sees the events of the body, in order and with the data sent with
\* them, however long the body is and wherever it ends: StreamPipeline implements
\* EventFeed (flush and the loop of sse.Read, the loop of BridgeOpenAIStream).
THEOREM FeedRefinement == Spec => EventsInOrder
<1>1. Init => Feed!Init
  <2> SUFFICES ASSUME Init
               PROVE  Feed!Init
    OBVIOUS
  <2>1. wire = << >> /\ body = "open" /\ decoded = << >> /\ handler.pc = "select"
    BY DEF Init
  <2> QED
    BY <2>1 DEF Feed!Init, Ended
<1>2. FeedInv /\ [Next]_vars => [Feed!Next]_<<wire, body = "ended", decoded, Ended>>
  BY StepsOfTheFeed
<1> QED
  BY <1>1, <1>2, FeedInductive, PTL DEF Spec, EventsInOrder, Feed!Feed
=============================================================================
