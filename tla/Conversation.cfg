CONSTANTS
  MaxDeeds = 2
  Deeds <- MCDeeds
  Prior <- MCPrior
  Extras <- MCExtras
SPECIFICATION Spec
INVARIANTS TypeOK OwnHistoryAccepted KeptInOrder ItemsHaveTypes CallsTogether CallsAnswered 
CHECK_DEADLOCK FALSE
