------------------------- MODULE MCStreamAgreement -------------------------
\* StreamAgreement on all responses of up to two items of every type.
EXTENDS StreamAgreement

CONSTANTS item1, item2

MCItems == {item1, item2}
MCIds   == <<item1, item2>>

Some(type) == [type |-> type, commentary |-> FALSE, parts |-> << >>, body |-> "some",
               result |-> "none"]

MCMessages ==
    {[Some("message") EXCEPT !.parts = p] :
        p \in {<< >>, <<"output_text">>, <<"refusal">>, <<"output_text", "refusal">>,
               <<"other">>, <<"output_text", "other">>, <<"text">>, <<"output_text", "text">>}}
    \cup {[Some("message") EXCEPT !.body = "malformed"],
          [Some("message") EXCEPT !.body = "malformed", !.parts = <<"output_text">>],
          [Some("message") EXCEPT !.commentary = TRUE, !.parts = <<"output_text">>],
          [Some("message") EXCEPT !.commentary = TRUE, !.parts = <<"text">>],
          [Some("message") EXCEPT !.commentary = TRUE, !.parts = <<"refusal">>]}

MCCalls ==
    {[Some(t) EXCEPT !.body = b] :
        t \in Message!PlainCalls \cup Message!ResultCalls, b \in {"some", "malformed"}}
    \cup {[Some(t) EXCEPT !.result = r] :
        t \in Message!ResultCalls, r \in {"some", "malformed"}}

MCOthers ==
    {[Some(t) EXCEPT !.body = b] :
        t \in Message!ToolOutputs \cup {"reasoning"}, b \in {"none", "some", "malformed"}}
    \cup {Some(t) : t \in {"web_search_call", "compaction", "image_generation_call", "unrecognized",
                         "blank"}}
    \cup {[Some("compaction") EXCEPT !.body = "none"]}

MCOutputItems == MCMessages \cup MCCalls \cup MCOthers

MCResponses ==
    {<<x>> : x \in MCOutputItems} \cup {<<x, y>> : x, y \in MCOutputItems}
=============================================================================
