CONSTANTS
    t1 = t1
    t2 = t2
    btc = btc
    auto = auto
    telegram = telegram
    Trades = {t1, t2}
    Symbols = {btc}
    SymbolOf <- SameSymbol
    Placers = {auto, telegram}
    PlacerOf <- SameTask
    ViaTelegram = {t1, t2}
    MaxConcurrent = 1
    MaxFaults = 1
    MarketReasons = {"stop_loss"}
    NoTrade = NoTrade
SPECIFICATION FairSpec
INVARIANTS TypeOK
PROPERTIES ImplementsLedger ExitRecordedOnce PendingResolved ExitDetected
CHECK_DEADLOCK FALSE
