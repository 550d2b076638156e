CONSTANTS
  Attempts = 2
  MaxDials = 1
  MaxFollows = 2
SPECIFICATION Spec
INVARIANT SentWithinBudget
