SPECIFICATION FairAll
CONSTANTS
  Bits = {b1}
  Lengths = {1, 2}
  PageSize = 4
  IndexSize = 1
  PackedSizes = {2, 3}
  Budgets = {0, 12, 17}
  MaxDeltas = 3
  NoState = NoState
  NoCore = NoCore
  NoJob = NoJob
  Callers = {ui, io}
  ThreeDsGames = {mario}
  OtherGames = {zelda}
  Nobody = Nobody
  MaxRequests = 2
  Jobs = {writeState, writeSave}
  Nothing = Nothing
  MaxJobs = 4
  Contents = {first, second, third}
  NoFile = NoFile
  Partial = Partial
  Failures = {"open", "write", "fsync", "rename"}
  MaxMicRequests = 3
  MaxCores = 3
  MaxStreams = 4
  Size = 3
  Batch = 4
  Numbers = 5
  Games = {zelda, mario}
  NoGame = NoGame
  MaxMoments = 3
  MaxWrites = 4
INVARIANTS ChainSound OneEngine SupersededNeverInstalled PausedMeansFlushed
INVARIANTS WholeFile AudioIsSafe RingIsQueue StatesAreKept FlushIsWhole EngineIsKept
PROPERTIES PushKeepsBudget ImplementsHistory DrainWaits
PROPERTIES EveryCallReturns EventuallyHeard EventuallyInFile
CHECK_DEADLOCK FALSE
