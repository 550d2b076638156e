CONSTANTS
  r1 = r1
  r2 = r2
  Request = {r1, r2}
  Endings = {"completed", "failed"}
  Budget <- OneEach
  MaxId = 6
  MaxToken = 0
  MaxDrops = 1
SPECIFICATION FairSpec
PROPERTIES
  CancelledStreamEnds
  HandlersDrain
  AnsweredRequestsReturn
