CONSTANTS
  Attempts = 2
  MaxDials = 1
  MaxFollows = 2
SPECIFICATION FairSpec
INVARIANTS
  BudgetWithoutTimeout
  DeltaOnlyOverWebSocket
  OneAnswer
  RecordedAnswer
PROPERTY EveryRequestAnswered
