CONSTANTS
    t1 = t1
    t2 = t2
    btc = btc
    auto = auto
    telegram = telegram
    Trades = {t1, t2}
    Symbols = {btc}
    SymbolOf <- SameSymbol
    Placers = {auto, telegram}
    PlacerOf <- TwoTasks
    ViaTelegram = {t2}
    MaxConcurrent = 1
    MaxFaults = 0
    MarketReasons = {}
    NoTrade = NoTrade
SPECIFICATION Spec
INVARIANTS OneEntryPerSymbol
CHECK_DEADLOCK FALSE
