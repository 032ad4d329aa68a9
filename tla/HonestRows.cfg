\* Bounds: 2 ids per table, 0 rollbacks, crashes and failed statements.
CONSTANTS
    w1 = w1
    live_trades = live_trades
    tax_events = tax_events
    Writers = {w1}
    Tables <- AllTables
    Lossy = {}
    Rewritten = {live_trades}
    MaxRows = 2
    MaxFaults = 0
SPECIFICATION Spec
INVARIANTS HonestRowsVerify
