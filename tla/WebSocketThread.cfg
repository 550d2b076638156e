CONSTANTS
  r1 = r1
  r2 = r2
  Request = {r1, r2}
  Endings = {"completed"}
  Budget <- TwoAndOne
  MaxId = 6
  MaxToken = 1
  MaxDrops = 0
SPECIFICATION Spec
INVARIANTS
  NoCrossTalk
  StreamOwnsConnection
PROPERTIES
  NoConnectionLeaks
