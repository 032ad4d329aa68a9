\* Bounds: 3 ids per table, 2 rollbacks, crashes and failed statements.
CONSTANTS
    w1 = w1
    w2 = w2
    live_trades = live_trades
    tax_events = tax_events
    Writers = {w1, w2}
    Tables <- AllTables
    Lossy = {live_trades}
    Rewritten = {live_trades}
    MaxRows = 3
    MaxFaults = 2
SPECIFICATION FairSpec
INVARIANTS TypeOK ChainLinked AlarmsAreReal
PROPERTIES WritersFinish
