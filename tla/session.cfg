SPECIFICATION SessionSpec
CONSTANTS
  Origins = {a, b, c}
  Secure = {b}
  Names = {n}
  User = user
  MaxRedirects = 3
  MaxRequests = 2
  Threads = {s, t}
  Keys = {k, l}
  MaxRetries = 2
  MaxConnections = 4
  FileNames = {"d", "x", "y"}
  Matching = {"x"}
  Suffixed = {"x"}
  Folder = "d"
  Places <- CallPlaces
  Specs <- CallSpecs
  MaxFileCalls = 2
  MaxOthers = 1
  HostIds = {h, i}
  ServerKeys = {r, q}
  Unseen = unseen
  Timeouts = {0, 4}
  PollTimeout = 3
  StopTimeout = 6
  Nap = 2
  MaxLate = 2
  MaxArrivals = 2
  Listens = {u, v}
  MaxClock = 4
  MaxRows = 4
SYMMETRY SessionSymmetry
CHECK_DEADLOCK FALSE
INVARIANTS
  SessionTypeOK
  SecretsStayHome
  BodyStaysHome
  EveryConnectionOwned
  ClosesOnce
  TransfersComplete
  ScriptLeavesNoTrace
  OneKeyPerHost
  WaitsNoLonger
  TimesOutRightly
  StopInTime
  GapIsLongestSilence
