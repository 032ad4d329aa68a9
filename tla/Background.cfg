SPECIFICATION MCSpec
CONSTANTS
    Registry <- MCRegistry
    Supervised = {"validator"}
    Stateful = {}
    SingleShot = {"nn_prewarm"}
    Daily = {}
    Excused = {}
    Pending = {}
    WorkerFaults = 1
    Rows <- MCRows
    Poison = {1, 2}
    BatchLimit = 2
    MaxAttempts = 3
    StallPasses = 3
    QueueFaults = 2
    PaperSymbols = {1, 2}
    Tfs = {"1h"}
    PaperBaseline = {}
    MaxStreams = 1
    HoldBars = 2
    Cooldown = 2
    HistoryCap = 2
    Bars <- MCBars
    Stop <- MCStop
    Target = 4
    Trigger = 2
    PaperFaults = 2
    FleetSymbols = {"a", "b"}
    FleetBaseline = {}
    Traded = {"a"}
    Samples = 2
    EntryMin = 1
    MaxPolled = 1
    FleetFaults = 1
    MaxHour = 4
    DeadAfter = 2
    FeedFaults = 3
    Predictions = {"p1"}
    TFs = {"5m", "1h"}
    Ttl <- MCTtl
    FetchTimeout = 1
    Capacity = 1
    Refill = 1
    Weight = 1
    Window = 4
    MarketTime = 5
    MarketFaults = 1
    Articles <- MCArticles
    ArticleSource <- MCArticleSource
    ArticleTime <- MCArticleTime
    FeedTime <- MCFeedTime
    Backfill = 3
    Macro = 2
    Retention = 4
    Day = 4
    DailyLimit = 3
    NewsTime = 6
    NewsFaults = 2
    Errors = {"e"}
    Pairs = {"p", "q"}
    Keys = {"k", "w"}
    Fields = {"k"}
    Grace = 1
    Reminder = 2
    StallStreak = 2
    Interval = 2
    HealerTime = 3
    HealerFaults = 1
    BootFaults = 1
    Requests = {"r1", "r2"}
    AskedFor <- MCAskedFor
    StudyFaults = 2
    LastBar = 4
    TimeoutBars = 2
    Balance = 3
    Payoffs <- MCPayoffs
    Assets = {"p", "q"}
    Quantities = {2, 3}
    Tolerance = 1
    Rates = {7}
    MaxBuys = 3
    MaxSales = 2
    MaxMonth = 3
    TaxFaults = 1
    Emails = {"root", "eve", "bob"}
    Seed = "root"
    Slots = {1, 2}
    JournalCap = 4
    AccountTime = 4
    MaxHits = 2
    Span = 1
INVARIANTS
    TypesOK
    OneInstance
    AlarmsRaised
    FeedHonest
    MarketHonest
    DeskHonest
PROPERTIES
    WarningMeansHealed
    PaperHonest
    HeldSevereRecorded
    Healed
    NothingWaitsForever
CHECK_DEADLOCK FALSE
