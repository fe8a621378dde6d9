SPECIFICATION ServicesSpec
CONSTANTS
  o1 = o1  o2 = o2  p1 = p1  p2 = p2
  Handles = {h1, h2}  Keys = {k1, k2}  Values = {v1}  Passwords = {"p", "q"}  NoRow = NoRow
  MaxSets = 2  MaxSalts = 2 
  Openers = {p1, p2}  VaultPassword <- MCPassword  Fingerprints = {"f"}  PublicKeys = {"k"}
  CopySeconds = {1, 2}  Nothing = Nothing  LatestVersion = 1
  Sessions = {s1, s2}  OrderIds = {o1, o2}  ClientOf <- MCClient
  PositionIds = {p1, p2}  PairOf <- MCPair  StrategyIds = {i1}  SymbolNames = {n1}
  NoOne = NoOne  MaxWrites = 3  MaxTimes = 2  MaxRestarts = 1
  HostCallers = {a, b}  Instances = {i1}  Sizes = {1}  MaxSize = 1  MemoryCells = 2
  MaxHostCalls = 2  MaxFills = 2  MaxLoads = 2
  Entries = {a, b}  Quantities = {1, 2}  Prices = {1}  Funds = {1}
  NoBalance = NoBalance  NoPosition = NoPosition
  MaxPositionSize = 2  MaxDailyLoss = 1  MinOrderQty = 1  MaxOrderQty = 2
  MinPrice = 1  MaxPrice = 1  MinNotional = 1  MaxMoves = 1  MaxPasses = 1  MaxOutside = 1
  Instruments = {a, b}  ClosePrices = {1, 2}  Lots = {1, 2}  Unit = 10
  Slippage = 1  Commission = 1  InitialBalance = 400  MaxCandles = 3  MaxBacktests = 2
  InstanceIds = {i1}  Missing = Missing
  ClientOrderIds = {a, b}  Garbage = Garbage  SegmentLines = 2
  MaxEntries = 4  MaxSeconds = 2  MaxFaults = 2
  BackupPasswords = {"p", "q"}  MaxWritesB = 1  MaxArchives = 1  MaxRestores = 1
  Editors = {a, b}  Risks = {1, 2}  Zones = {1, 2}  ConfigLicences <- MCLicences
  LicenceTimes = {0, 1, 2, 3, 4}  GracePeriod = 2  MaxConfigCalls = 3  MaxStarts = 2
  MaxRecords = 5
INVARIANTS
  ChangeLosesNoSecret OpenStoresFitTheFile TablesKeepWhatTheyTook HearsItsOwnInput
  ExposureBounded RowFollowsExchange BacktestAddsUp BuiltAsConfigured JournalReplays RestoreIsWhole SettingsHold
CHECK_DEADLOCK FALSE
