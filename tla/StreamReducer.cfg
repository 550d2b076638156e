CONSTANTS
  MaxItems = 3
  MaxOverlap = 2
  MaxThoughts = 2
  MaxDeltas = 1
  MaxFollows = 1
  Kinds = {"reasoning", "message", "function_call", "web_search_call"}
SPECIFICATION Spec
INVARIANTS
  EverythingShownOnce
PROPERTY ProtocolKept
