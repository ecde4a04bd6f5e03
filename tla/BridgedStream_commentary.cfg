\* A commentary message that carries a refusal.
CONSTANTS
    item1 = item1
    item2 = item2
    Items <- OneItem
    NoItem = NoItem
    Outputs <- OneOutput
    OutputOf <- OneOutputOf
    Parts = {0}
    Strict = TRUE
    MaxEvents = 20
    MaxReasoning = 1
    Kinds = {"commentary_refusal"}
SPECIFICATION StreamSpec
INVARIANT CommentarySuppressed
CHECK_DEADLOCK FALSE
