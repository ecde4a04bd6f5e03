\* Every endpoint, request, policy and sequence of upstream answers.
CONSTANT MaxAttempts = 3
SPECIFICATION FairSpec
INVARIANT TypeOK
INVARIANT RejectionIsFinal
INVARIANT AcceptedOnce
INVARIANT OnlyObjectedFieldsDropped
INVARIANT CompactionIsWhole
PROPERTY EveryRequestAnswered
