SPECIFICATION PartsSpec
CONSTANTS
  x1 = x1
  x2 = x2
  x3 = x3
  r = r
  w1 = w1
  w2 = w2
  b1 = b1
  b2 = b2
  b3 = b3
  timer = timer
  Nil = Nil
  Unsaid = Unsaid
  Timers = {x1, x2}
  Interval <- Intervals
  None = None
  MaxSlow = 2
  MaxSleep = 2
  MaxClock = 12
  Procs = {w1, w2}
  IdKinds = {"session", "endtoend"}
  Wrap = 2
  Seconds = 2
  Starts = {1}
  Nobody = Nobody
  Hosts = {x1, x2, x3}
  Realms = {r}
  Tables <- SomeTables
  Handling = {x1, x3}
  Msgs = {x1, x2, x3}
  Callers = {r}
  Workers = {w1}
  NoMsg = NoMsg
  main = timer
  acceptor = r
  WorkerPids = {w1}
  Initiated = {x1}
  Accepted = {x2}
  ZeroPid = b1
  NoPid = NoPid
  Calls = {x1, x2}
  Offers <- SomeOffers
  Unwritten = {0, 7}
  Receivers = {w1, w2}
  Known = {x1}
  Unknown = {x2}
  Blocks = {b1, b2, b3}
  NoPeer = NoPeer
  Local <- LocalApps
  Remotes <- RemoteApps
  Names <- SomeNames
  Wanted <- WantedApp
  AppBlocks = {b1, b2}
  NoApps = NoApps
  CdfWorkers = {w1, w2}
  cdfTimer = timer
  Sessions = {x1, x2}
  ClientBlocks = {b1, b2, b3}
  NoOne = NoOne
  Traffic = {"single", "overlapping", "repeated"}
  MaxReqs = 4
  XmlElements <- SomeElements
  MaxElements = 3
  QUOTE = b3
  Subscribers <- SomeSubscribers
  CallIds = {1, 70000}
  Credits = {0, 300}
  Identity <- SomeIdentity
  Session <- SomeSession
  Ids <- SomeIds
  HeapSize = 36
  ROUNDTO = 2
  FACTOR = 3
  BITS = 5
  NoFrag = NoFrag
  OVERHEAD = 2
  Sizes = {3, 6, 13}
INVARIANTS
  TimersKeepTime IssuedOnce SteadyPeerIsUsed PeersListed MemorySound MessagesUnderstood
  AccountingSound  
  ChildrenAreWaitedFor FreedByTheLast ConfigSound 
PROPERTIES  ShutdownEnds
CHECK_DEADLOCK FALSE
