SPECIFICATION Spec
CONSTANTS
    Names = {"created", ""}
    Texts = {"x", "y"}
    MaxLines = 4
INVARIANTS
    TypeOK
    FailureNoticed
PROPERTIES
    EventsInOrder
    HandlerReturns
    ReaderEnds
CHECK_DEADLOCK FALSE
