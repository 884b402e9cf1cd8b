\* Each service around the session, one at a time.
CONSTANTS
  TransferPlans <- CheckedTransfers
  Versions = {"V1", "V2"}
  Chunks <- ChunksOf
  PullAttempts = 2
  ProcessPlans <- CheckedProcesses
  Clis = {"a", "b"}
  MaxDaemons = 3
  Confirmations = 2
  Drives = {1}
  Devices = {1}
  Names = {"a", "b"}
  Requested <- MCRequested
  MaxOpens = 2
  MaxChanges = 1
  Callers = {1, 2}
  NoCaller = 0
  KeyNames = {"ctrl", "c", "shift", "a", "b", "v", "x", "super", "r", "left"}
  InputPlans <- MCInputPlans
  QueueMax = 2
  MaxStalls = 3
  ClipPlans <- MCClipPlans
  ClipNobody = 0
  MaxCopies = 2
  MaxPastes = 1
  Viewers = {1, 2}
  Kept = 2
  MaxPaintings = 4
  MaxSessions = 2
  ConnectPlans <- CheckedLaunches
  MaxAgents = 2
  LaunchAttempts = 2
  MaxFailures = 2
  WedgeStrikes = 1
  TimedCommands <- CheckedCommands
  RdpTime = 20000
  MaxSteps = 12
  MaxOutput = 3
  MaxMishaps = 1
  MaxFollows = 1
  ScreenAsks <- CheckedAsks
  Pictures <- CheckedPictures
  DesktopSize <- CheckedDesktop
  MaxPaints = 2
  MaxLogins = 2
  MaxPasses = 2
SPECIFICATION ServicesSpec
INVARIANTS
  ServicesTypeOK
  WholeFiles
  PushVerdictsHold
  SidecarsCleared
  EffectOnce
  BusyDaemonSpared
  ReplacedIsGone
  PathNamesHandle
  ListingWhole
  ToldIsLanded
  CacheIsAnnounced
  NoViewerLeftBehind
  InFlightHasLauncher
  AgentDownIsScheduled
  DaemonGivesUpFirst
  OutputAccounted
  ClicksJudged
PROPERTIES
  DeletesAsAsked
  ComboUnbroken
  GetterNotDropped
CHECK_DEADLOCK FALSE
