SPECIFICATION MCSpec
CONSTANTS
    MaxFaults = 1
    Admins = {"a1", "a2"}
    Readers = {"r1", "r2"}
    TTL = 2
    MaxTime = 2
    MaxFlips = 2
    Symbols = {"a", "b"}
    MaxCount = 2
    Calls = {1, 2}
    MaxDay = 4
    Streak = 2
    Window <- MCWindow
    MinTrades <- MCMinTrades
    MaxRequests = 3
    Trained = {1, 2, 3, 4, 5}
    Sharpe <- MCSharpe
    Writers = {1, 2}
    MaxActs = 5
    Feeds = {"a", "b"}
    Settings <- MCSettings
    Offers <- MCOffers
    Cap = 2
    Others = 0
    SnapshotTtl = 1
    RegimeTtl = 1
    DedupHours = 1
    MaxHour = 1
    MaxOffers = 2
    Native = "BTCUSDT"
    Lanes <- MCLanes
    Readings <- MCReadings
    Records <- MCRecords
    Fundings <- MCFundings
    Deltas = {30}
    NewsItems <- MCNews
    Checkpoints = {"c1", "c2"}
    WithAssets = {"c1"}
    Policies <- MCPolicies
    MaxPredictions = 2
    MaxMoves = 1
INVARIANTS
    TypesOK
    PauseHonest
    NeverOvercounts
    Authorised
    ApprovedOnly
    DispatchHonest
    PredictionHonest
CHECK_DEADLOCK FALSE
