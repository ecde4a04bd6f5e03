----------------------------- MODULE EventFeed -----------------------------
(***************************************************************************)
(* What sse.Read promises the one who consumes its events: the lines of a  *)
(* response body make up events, and the consumer gets these events, one   *)
(* by one, in order, none twice and none made of lines that do not belong  *)
(* together.  A feed that ends whole has handed over the event the body    *)
(* ended in as well; one that was cut off by a read error has handed over  *)
(* every event that was complete by then and nothing of the last one.      *)
(*                                                                         *)
(* The events are defined from the lines alone: a line ends an event if it *)
(* is blank, or if it names the next event while there is data already     *)
(* that belongs to this one (upstreams that leave the blank line out).     *)
(***************************************************************************)
EXTENDS Naturals, Sequences, FiniteSets

VARIABLES arrived,   \* the lines of the body so far
          over,      \* the body ended as it should
          received,  \* the events the consumer has got
          ended      \* "no", or how the feed ended: "whole", "cut" or "abandoned"

\* Positions of the data lines that the line at i would close: none but other
\* lines without a meaning stand between them and i.
OpenData(lines, i) ==
    {j \in 1..(i - 1) : /\ lines[j].kind = "data"
                        /\ \A k \in j..(i - 1) : lines[k].kind \notin {"blank", "event"}}

Cut(lines, i) ==
    \/ lines[i].kind = "blank"
    \/ lines[i].kind = "event" /\ OpenData(lines, i) # {}

\* The n-th of these positions.
Nth(positions, n) ==
    CHOOSE p \in positions : Cardinality({q \in positions : q <= p}) = n

\* The values of the lines of one kind from a up to b, b excluded.
ValuesOf(lines, a, b, kind) ==
    LET chosen == {i \in a..(b - 1) : lines[i].kind = kind}
    IN  [n \in 1..Cardinality(chosen) |-> lines[Nth(chosen, n)].value]

\* The event made of the lines from a up to b: the last name, all the data.
EventOf(lines, a, b) ==
    LET names == ValuesOf(lines, a, b, "event")
    IN  [name |-> IF names = << >> THEN "" ELSE names[Len(names)],
         data |-> ValuesOf(lines, a, b, "data")]

Start(lines, i) ==
    LET cuts == {j \in 1..(i - 1) : Cut(lines, j)}
    IN  IF cuts = {} THEN 1 ELSE CHOOSE j \in cuts : \A k \in cuts : k <= j

\* A name that is blank counts as none.
IsEvent(lines, i) ==
    LET event == EventOf(lines, Start(lines, i), i)
    IN  event.name # "" \/ event.data # << >>

\* The positions whose line completes an event; one more for the event that
\* the end of the body completes.
Completes(lines) == {i \in 1..Len(lines) : Cut(lines, i) /\ IsEvent(lines, i)}

CompletesAtEnd(lines) ==
    Completes(lines) \cup
    (IF IsEvent(lines, Len(lines) + 1) THEN {Len(lines) + 1} ELSE {})

\* The events that end at the given positions, in their order.
Events(lines, positions) ==
    [n \in 1..Cardinality(positions) |->
        LET i == Nth(positions, n) IN EventOf(lines, Start(lines, i), i)]

-----------------------------------------------------------------------------
Due == Events(arrived, IF over THEN CompletesAtEnd(arrived) ELSE Completes(arrived))

Init == arrived = << >> /\ over = FALSE /\ received = << >> /\ ended = "no"

\* A line arrives, whether the consumer is waiting for it or not.
Arrive ==
    /\ ~ over
    /\ Len(arrived') = Len(arrived) + 1
    /\ SubSeq(arrived', 1, Len(arrived)) = arrived
    /\ UNCHANGED <<over, received, ended>>

Finish ==
    /\ ~ over /\ over' = TRUE
    /\ UNCHANGED <<arrived, received, ended>>

Receive ==
    /\ ended = "no"
    /\ Len(received) < Len(Due)
    /\ received' = Append(received, Due[Len(received) + 1])
    /\ UNCHANGED <<arrived, over, ended>>

\* The consumer stops: at the end of the feed, or before it.
End ==
    /\ ended = "no"
    /\ \/ /\ ended' = IF over THEN "whole" ELSE "cut"
          /\ received = Due
       \/ ended' = "abandoned"
    /\ UNCHANGED <<arrived, over, received>>

Next == Arrive \/ Finish \/ Receive \/ End

Feed == Init /\ [][Next]_<<arrived, over, received, ended>>
=============================================================================
