CONSTANTS
  p1 = p1
  p2 = p2
  u1 = u1
  u2 = u2
  s1 = s1
  s2 = s2
  s3 = s3
  Nobody = Nobody
  Process = {p1, p2}
  User = {u1, u2}
  ConfigKey = {p1, p2}
  Session = {s1, s2, s3}
  Mirroring = {s1, s2}
  MaxVersion = 3
  MaxBuild = 2
  MaxToken = 2
  MaxCalls = 2
  MaxChanges = 2
  MaxMishaps = 1
  MaxChoices = 3
  MaxLogins = 2
  MaxAttempts = 2
  MaxDials = 1
  MaxRedirects = 1
  MaxRequests = 2
  MaxMade = 2
  MaxClock = 2
  MaxAge = 1
  BarrierLimit = 1
SYMMETRY Symmetric
SPECIFICATION Spec
CHECK_DEADLOCK FALSE
INVARIANTS
  UpdatesAreAccepted
  OneAccount
  BorrowingEnds
  ConfigurationIsKept
  LastChoiceStands
  SelectedFilesStay
  ClaudeIsServed
  ObservationsAreKept
  ServedIsRecent
  ResponsesAreNotCutOff
  RequestsGoHome
  RecordedInOrder
  WorkersAreApart
  NeededArgumentsSurvive
  ToldAsItIs
  ModelsAreRight
PROPERTY CacheNeverOlder
