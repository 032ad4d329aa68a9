CONSTANTS
    t1 = t1
    t2 = t2
    btc = btc
    auto = auto
    telegram = telegram
    Trades = {t1}
    Symbols = {btc}
    SymbolOf <- OneSymbol
    Placers = {auto, telegram}
    PlacerOf <- OneTask
    ViaTelegram = {}
    MaxConcurrent = 1
    MaxFaults = 0
    MarketReasons = {}
    NoTrade = NoTrade
SPECIFICATION FairSpec
PROPERTIES GhostReconciled
CHECK_DEADLOCK FALSE
