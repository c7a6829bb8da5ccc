\* The parts, one at a time.
SPECIFICATION PartsSpec
CONSTANTS
  None = None
  \* The artifact store: one launch with checksums and one without.
  Launches = {l1, l2}
  Checked = {l1}
  Chunks = 2
  MaxRounds = 2
  \* The browser replica.
  AtOnce = 2
  Empty = "empty"
  Texts = {"empty", "v3"}
  Calls <- TheCalls
  AtFirst <- TheStored
  Archives <- TheArchives
  CancelIds = {i1}
  Invocations = {b1, b2}
  Concurrency = {2}
  MaxFiles = 2
  MaxListeners = 2
  MaxProcesses = 2
  \* The bridge to the Go backend.
  BackendEvents = {"a", "b"}
  Listeners = {k1, k2}
  MaxEmissions = 2
  HttpRequests = {r1}
  \* Logs.
  MaxLines = 2
  MaxCuts = 1
  MaxViewers = 2
  LogLines <- TheLines
  Filters <- TheFilters
  Needles <- TheNeedles
  Sizes <- TheSizes
  MaxShown = 2
  \* Extensions.
  Extensions = {"box", "free"}
  Sandboxed = {"box"}
  TrustedFirst = {}
  TrustedLater = {"free"}
  Order <- TheOrder
  MaxMounts = 2
  MaxToggles = 1
  MaxDispatches = 1
  Requests = {"a1", "a2", "b1"}
  Requester <- TheRequester
  Wanted <- TheWanted
  URLs <- TheURLs
INVARIANTS HostPartsTypeOK WholeUnlessShared NothingLost MessagesArrive ViewsAgree ExtensionsSettle
PROPERTIES RepairedByChecksum ReplicaKeepsPromise
CHECK_DEADLOCK FALSE
