CONSTANTS
  AsduBlocks <- MCAsduBlocks MaxBlocks = 3 BufferBlocks = 4
  Transactions = {a, b, c} OwnBroadcasts = {a} Slots = 2 DeliveryTime = 3 RetryTime = 1
  NeededAcks = 2 MaxRetries = 1 CounterTop = 2 BroadcastHorizon = 4
  SleepyChildren = {a, b, c} QueueSlots = 2 Persistence = 2 MaxFrames = 4 QueueHorizon = 2
  Members = {a, b} PanIds <- MCPanIds Channels <- MCChannels ForeignPan <- MCForeignPan
  MaxHeard = 1 UpdateIds = 8 FirstId = 6 MaxChanges = 2
  LastNode = 4 RecordLimit = 2 SourceRouteSlots = 2 MaxMoves = 1
  Joiners = {a, b, c} MaxTries = 2 MaxJoins = 3
  Gpds = {a, b} UnsecuredGpds = {b} Proxies = {p, q} ProxySlots = 1 SinkSlots = 1
  MaxGpCounter = 1 MaxCommissionings = 2
  GroupIds = {g, h} SceneIds = {s} GroupSlots = 1 SceneSlots = 2 MaxLevel = 2 MaxIdentify = 1
  MinIntervals = {0, 1} MaxIntervals = {0, 2, 9} NoReports = 9 ReportHorizon = 2 SendDepth = 2
  OwnOutputs <- MCOwnOutputs Profile = "ha" ShortAddresses = {1, 2} BindingSlots = 2
  Targets <- MCTargets
  Sizes <- MCSizes MaxRelays = 8
  Lengths <- MCLengths
  MtCommands = {"AF_DATA_REQUEST", "AF_REGISTER", "SYS_PING"}
  StatusCommands = {"AF_DATA_REQUEST", "AF_REGISTER"} Subsystem <- MCSubsystem
  BeaconSenders = {1, 2, 3} DepthOf <- MCDepthOf Qualities = {1, 2} CandidateSlots = 2
  MaxBeacons = 4 MaxScans = 2
  MaxRequests = 3 CallDepth = 4 MaxIndications = 1
SPECIFICATION Spec
INVARIANTS AcceptedIsAccountedFor SameIdSameNetwork RouteDownIsPathUp WaitingIsServed
  OncePerCommissioning RecallFindsLastCapture BelievesWhatClientKnows
  TrueMeansPerformed BestHeardIsSelected SuccessMeansCommissioned BoundAreServedOnce OnlyTheAddressee RoundTrip NoOverread
PROPERTIES HandedUpWhole NewOncePerDeliveryTime AcceptedReachesHandler
CHECK_DEADLOCK FALSE
