--------------------------- MODULE TradeLifecycle ---------------------------
(***************************************************************************)
(* One live trade from the dispatcher's gate to its recorded exit: the     *)
(* placement coroutines (automatic dispatch and Telegram approval), the    *)
(* live_trades table, the Binance account, and the two monitors that poll  *)
(* both.  Every await is a point where the others may run, the process may *)
(* die, and a request may fail with or without having been executed.       *)
(*                                                                         *)
(* Data that the properties do not tell apart (prices, quantities, users,  *)
(* the text of a failure) is left out.  All trades belong to the one       *)
(* operator account the monitors' Binance client is built for.             *)
(***************************************************************************)
EXTENDS Naturals, FiniteSets

CONSTANTS
    Trades,         \* placement attempts (and the live_trades rows they insert)
    Symbols,        \* traded symbols
    SymbolOf,       \* the symbol of each attempt
    Placers,        \* tasks that place orders, each one attempt at a time
    PlacerOf,       \* the task that runs each attempt
    ViaTelegram,    \* attempts that come from an approved Telegram card
    MaxConcurrent,  \* max_concurrent_positions
    MaxFaults,      \* bound on exceptions and crashes in one behaviour
    MarketReasons,  \* reasons a live position may be classified with
    NoTrade         \* "nothing in hand", for the monitors

ASSUME TradeConstants ==
    /\ SymbolOf \in [Trades -> Symbols]
    /\ PlacerOf \in [Trades -> Placers]
    /\ ViaTelegram \subseteq Trades
    /\ MaxConcurrent \in Nat \ {0}
    /\ MaxFaults \in Nat
    /\ MarketReasons \subseteq {"take_profit", "stop_loss", "timeout"}
    /\ NoTrade \notin Trades

VARIABLES
    pc,          \* pc[t]: where the placement coroutine of attempt t stands
    \* live_trades and live_cooldowns
    status,      \* status[t]: the status column, "absent" before the INSERT
    closedAt,    \* closedAt[t]: closed_at is not NULL
    exitReason,  \* exitReason[t]: the exit_reason column
    failure,     \* failure[t]: which failure_reason is recorded
    armed,       \* armed[t]: sl_order_id and tp_order_id are recorded
    stale,       \* rows whose opened_at is past the 60 s grace window
    cooldown,    \* cooldown[s]: last_exit_reason of the symbol's cooldown row
    \* the Binance account
    held,        \* attempts whose entry is part of the symbol's position
    orders,      \* resting protective orders <<t, "sl">> and <<t, "tp">>
    masked,      \* attempts whose entry was executed behind an error status
    \* live_exit_monitor
    monPc, monTodo, monCur, monPos, buf, cbuf,
    \* liquidation_monitor
    liqTodo, liqCur,
    \* bound
    faults

rowVars   == <<status, closedAt, exitReason, failure, armed, cooldown>>
exchVars  == <<held, orders, masked>>
monVars   == <<monPc, monTodo, monCur, monPos, buf, cbuf>>
liqVars   == <<liqTodo, liqCur>>
vars      == <<pc, rowVars, stale, exchVars, monVars, liqVars, faults>>

----------------------------------------------------------------------------
(* Values *)

\* After the gate, a running coroutine is about to do what its pc names.
Running  == {"gate", "insert", "drift", "entry", "sl", "tp", "cancel",
             "close", "reject", "ghost", "commit"}
\* done: returned; raised: an exception nobody maps to a row left it;
\* dead: the process died under it.
Finished == {"done", "raised", "dead"}

Reasons  == {"take_profit", "stop_loss", "timeout", "external_close",
             "liquidation_buffer_breach"}
NoReason == "none"

Failures == {"none", "binance", "ghost", "stale_price", "reconciler"}

----------------------------------------------------------------------------
(* What the code reads *)

\* status = 'open' is every reader's predicate for "position on Binance".
OpenRows == {t \in Trades : status[t] = "open"}

Position(s) == {t \in held : SymbolOf[t] = s}

Fault == faults < MaxFaults /\ faults' = faults + 1
NoFault == UNCHANGED faults

\* A row, or a cooldown row, that an uncommitted monitor transaction updated
\* is locked until that transaction ends.
RowLocked(t) == buf[t] # NoReason
CooldownLocked(s) == cbuf[s] # NoReason

----------------------------------------------------------------------------
(* Initial state: no row, flat account, nothing running. *)
Init ==
    /\ pc = [t \in Trades |-> "idle"]
    /\ status = [t \in Trades |-> "absent"]
    /\ closedAt = [t \in Trades |-> FALSE]
    /\ exitReason = [t \in Trades |-> NoReason]
    /\ failure = [t \in Trades |-> "none"]
    /\ armed = [t \in Trades |-> FALSE]
    /\ stale = {}
    /\ cooldown = [s \in Symbols |-> NoReason]
    /\ held = {}
    /\ orders = {}
    /\ masked = {}
    /\ monPc = "sleep" /\ monTodo = {} /\ monCur = NoTrade /\ monPos = FALSE
    /\ buf = [t \in Trades |-> NoReason]
    /\ cbuf = [s \in Symbols |-> NoReason]
    /\ liqTodo = {} /\ liqCur = NoTrade
    /\ faults = 0

Goto(t, where) == pc' = [pc EXCEPT ![t] = where]

----------------------------------------------------------------------------
(* Placement: gate, pending row, three Binance orders, outcome row *)

\* A placer picks its next attempt up.  The dispatcher's context is built
\* here, and its count of open rows decides, however late it is compared; the
\* approval path has no such count.
Begin(t) ==
    /\ pc[t] = "idle"
    /\ \A u \in Trades : PlacerOf[u] = PlacerOf[t] => pc[u] \notin Running
    /\ Goto(t, IF t \in ViaTelegram \/ Cardinality(OpenRows) < MaxConcurrent
               THEN "gate" ELSE "done")
    /\ NoFault
    /\ UNCHANGED <<rowVars, stale, exchVars, monVars, liqVars>>

MUT_GateSkipsInsert(t) ==
    /\ pc[t] = "gate"
    /\ Goto(t, "entry")
    /\ NoFault
    /\ UNCHANGED <<rowVars, stale, exchVars, monVars, liqVars>>

\* Per-symbol gate.  A database error lets a dispatch pass and refuses an
\* approval.
Gate(t) ==
    /\ pc[t] = "gate"
    /\ \/ /\ Goto(t, IF \E u \in OpenRows : SymbolOf[u] = SymbolOf[t]
                     THEN "done" ELSE "insert")
          /\ NoFault
       \/ /\ Fault
          /\ Goto(t, IF t \in ViaTelegram THEN "done" ELSE "insert")
    /\ UNCHANGED <<rowVars, stale, exchVars, monVars, liqVars>>

\* Phase 1: the pending row, committed in a session of its own; or the
\* filters refuse the quantity, or the INSERT fails, and no row exists.
Insert(t) ==
    /\ pc[t] = "insert"
    /\ \/ /\ status' = [status EXCEPT ![t] = "pending"]
          /\ Goto(t, IF t \in ViaTelegram THEN "drift" ELSE "entry")
       \/ Goto(t, "done") /\ UNCHANGED status
    /\ NoFault
    /\ UNCHANGED <<closedAt, exitReason, failure, armed, cooldown,
                   stale, exchVars, monVars, liqVars>>

\* The outcome UPDATEs carry no status guard: they write whatever the row
\* holds by now.
WriteFailed(t, why) ==
    /\ ~RowLocked(t)
    /\ status' = [status EXCEPT ![t] = "failed"]
    /\ failure' = [failure EXCEPT ![t] = why]
    /\ Goto(t, "done")
    /\ UNCHANGED <<closedAt, exitReason, armed, cooldown>>

\* Approval path only: a price that moved since the card was sent fails the
\* row before any order; an unreadable price skips the check.
Drift(t) ==
    /\ pc[t] = "drift"
    /\ \/ Goto(t, "entry") /\ UNCHANGED rowVars
       \/ WriteFailed(t, "stale_price")
    /\ NoFault
    /\ UNCHANGED <<stale, exchVars, monVars, liqVars>>

\* place_order: leverage, then the market entry.  Every status of 400 or more
\* is raised as OrderRejected, although behind a 5xx the order may have been
\* executed; an httpx exception is not a BinanceLiveError, nobody catches it,
\* and there too the order may have been executed.
Entry(t) ==
    /\ pc[t] = "entry"
    /\ \/ held' = held \cup {t} /\ Goto(t, "sl") /\ NoFault /\ UNCHANGED masked
       \/ UNCHANGED <<held, masked>> /\ Goto(t, "reject") /\ NoFault
       \/ /\ Fault
          /\ held' = held \cup {t} /\ masked' = masked \cup {t}
          /\ Goto(t, "reject")
       \/ /\ Fault
          /\ held' \in {held, held \cup {t}} /\ UNCHANGED masked
          /\ Goto(t, "raised")
    /\ UNCHANGED <<rowVars, stale, orders, monVars, liqVars>>

\* _post_order: placed; refused, or placed behind an error status that reads
\* like a refusal; or an exception escapes.
ProtectiveOrder(t, kind, ok, rejected) ==
    LET placed == orders \cup {<<t, kind>>} IN
    /\ \/ orders' = placed /\ Goto(t, ok) /\ NoFault
       \/ UNCHANGED orders /\ Goto(t, rejected) /\ NoFault
       \/ Fault /\ orders' = placed /\ Goto(t, rejected)
       \/ Fault /\ orders' \in {orders, placed} /\ Goto(t, "raised")
    /\ UNCHANGED <<rowVars, stale, held, masked, monVars, liqVars>>

MUT_StopLossRejectedIsReported(t) ==
    pc[t] = "sl" /\ ProtectiveOrder(t, "sl", "tp", "reject")

\* place_stop_loss_close; a rejection goes to the emergency close.
PlaceStopLoss(t) == pc[t] = "sl" /\ ProtectiveOrder(t, "sl", "tp", "close")

\* place_take_profit_close; a rejection first cancels the stop.
PlaceTakeProfit(t) == pc[t] = "tp" /\ ProtectiveOrder(t, "tp", "commit", "cancel")

\* cancel_order_idempotent; every exception is swallowed here.
CancelStopLoss(t) ==
    /\ pc[t] = "cancel"
    /\ orders' \in {orders, orders \ {<<t, "sl">>}}
    /\ Goto(t, "close")
    /\ NoFault
    /\ UNCHANGED <<rowVars, stale, held, masked, monVars, liqVars>>

\* The account goes flat on a symbol; its closePosition orders go with it.
Flatten(s) ==
    /\ held' = held \ Position(s)
    /\ orders' = {o \in orders : SymbolOf[o[1]] # s}

MUT_EmergencyCloseSwallowed(t) ==
    /\ pc[t] = "close"
    /\ Flatten(SymbolOf[t]) \/ UNCHANGED <<held, orders>>
    /\ Goto(t, "reject")
    /\ NoFault
    /\ UNCHANGED <<rowVars, stale, masked, monVars, liqVars>>

\* _emergency_close: closed, or found flat already; an error status becomes a
\* GhostPositionError, and an httpx exception escapes, executed or not.
EmergencyClose(t) ==
    /\ pc[t] = "close"
    /\ \/ Flatten(SymbolOf[t]) /\ Goto(t, "reject") /\ NoFault
       \/ UNCHANGED <<held, orders>> /\ Goto(t, "ghost") /\ NoFault
       \/ Fault /\ Flatten(SymbolOf[t]) /\ Goto(t, "ghost")
       \/ /\ Fault
          /\ Flatten(SymbolOf[t]) \/ UNCHANGED <<held, orders>>
          /\ Goto(t, "raised")
    /\ UNCHANGED <<rowVars, stale, masked, monVars, liqVars>>

\* Phase 3, failure: the row is marked failed, as a ghost when the position
\* could not be closed.
RecordFailure(t) ==
    /\ \/ pc[t] = "reject" /\ WriteFailed(t, "binance")
       \/ pc[t] = "ghost" /\ WriteFailed(t, "ghost")
    /\ NoFault
    /\ UNCHANGED <<stale, exchVars, monVars, liqVars>>

MUT_RecordOpenAsFilled(t) ==
    /\ pc[t] = "commit"
    /\ ~RowLocked(t)
    /\ status' = [status EXCEPT ![t] = "filled"]
    /\ armed' = [armed EXCEPT ![t] = TRUE]
    /\ Goto(t, "done")
    /\ NoFault
    /\ UNCHANGED <<closedAt, exitReason, failure, cooldown, stale,
                   exchVars, monVars, liqVars>>

\* Phase 3, success: the row is opened with the order ids.
RecordOpen(t) ==
    /\ pc[t] = "commit"
    /\ ~RowLocked(t)
    /\ status' = [status EXCEPT ![t] = "open"]
    /\ armed' = [armed EXCEPT ![t] = TRUE]
    /\ Goto(t, "done")
    /\ NoFault
    /\ UNCHANGED <<closedAt, exitReason, failure, cooldown, stale,
                   exchVars, monVars, liqVars>>

\* An exception leaves the placement at any other await: the database
\* refuses a statement, or the supervisor cancels the worker's task.
Escape(t) ==
    /\ pc[t] \in Running
    /\ Fault
    /\ Goto(t, "raised")
    /\ UNCHANGED <<rowVars, stale, exchVars, monVars, liqVars>>

\* A begun placement takes its next step.
Advance(t) ==
    \/ Gate(t) \/ Insert(t) \/ Drift(t) \/ Entry(t)
    \/ PlaceStopLoss(t) \/ PlaceTakeProfit(t) \/ CancelStopLoss(t)
    \/ EmergencyClose(t) \/ RecordFailure(t) \/ RecordOpen(t)
    \/ Escape(t)

----------------------------------------------------------------------------
(* live_exit_monitor: one task, reconciler pass then exit pass, every 30 s *)

\* The trade read last, and the position seen for it, are dealt with.
NothingInHand == monCur' = NoTrade /\ monPos' = FALSE

MUT_StalePending == {t \in Trades : status[t] = "pending" /\ t \notin stale}

StalePending == {t \in stale : status[t] = "pending"}

\* _list_stale_pending_trades.
ReconcileScan ==
    /\ monPc = "sleep"
    /\ monPc' = "reconcile"
    /\ monTodo' = StalePending
    /\ NoFault
    /\ UNCHANGED <<pc, rowVars, stale, exchVars, monCur, monPos, buf,
                   cbuf, liqVars>>

\* get_position for the next row of either pass.  The reconciler skips a
\* row on a BinanceLiveError and gives the pass up on any other exception;
\* the exit pass skips the row.
MonitorRead(t) ==
    /\ monPc \in {"reconcile", "exits"}
    /\ monCur = NoTrade
    /\ t \in monTodo
    /\ \/ /\ monTodo' = monTodo \ {t}
          /\ monCur' = t
          /\ monPos' = (Position(SymbolOf[t]) # {})
          /\ NoFault
       \/ /\ Fault
          /\ \/ monTodo' = monTodo \ {t}
             \/ monPc = "reconcile" /\ monTodo' = {}
          /\ UNCHANGED <<monCur, monPos>>
    /\ UNCHANGED <<pc, rowVars, stale, exchVars, monPc, buf, cbuf, liqVars>>

MUT_ReconcileWriteUnguarded ==
    /\ monPc = "reconcile"
    /\ monCur # NoTrade
    /\ status' = [status EXCEPT ![monCur] = IF monPos THEN "open" ELSE "failed"]
    /\ failure' = [failure EXCEPT ![monCur] = IF monPos THEN "none" ELSE "reconciler"]
    /\ NoFault
    /\ NothingInHand
    /\ UNCHANGED <<pc, closedAt, exitReason, armed, cooldown, stale, exchVars,
                   monPc, monTodo, buf, cbuf, liqVars>>

\* The reconciler's UPDATE ... WHERE status = 'pending'; a failed UPDATE is
\* logged and the pass goes on.
ReconcileWrite ==
    /\ monPc = "reconcile"
    /\ monCur # NoTrade
    /\ \/ /\ status[monCur] = "pending"
          /\ status' = [status EXCEPT ![monCur] = IF monPos THEN "open" ELSE "failed"]
          /\ failure' = [failure EXCEPT ![monCur] = IF monPos THEN "none" ELSE "reconciler"]
          /\ NoFault
       \/ status[monCur] # "pending" /\ UNCHANGED <<status, failure>> /\ NoFault
       \/ Fault /\ UNCHANGED <<status, failure>>
    /\ NothingInHand
    /\ UNCHANGED <<pc, closedAt, exitReason, armed, cooldown, stale, exchVars,
                   monPc, monTodo, buf, cbuf, liqVars>>

MUT_ExitScanAnyStatus ==
    LET open == {t \in Trades : status[t] # "absent" /\ ~closedAt[t]}
    IN /\ monPc = "reconcile" /\ monCur = NoTrade /\ monTodo = {}
       /\ monTodo' = open
       /\ monPc' = IF open = {} THEN "sleep" ELSE "exits"
       /\ NoFault
       /\ UNCHANGED <<pc, rowVars, stale, exchVars, monCur, monPos, buf,
                      cbuf, liqVars>>

\* _list_open_live_trades; with nothing open the tick ends here.
ExitScan ==
    LET open == {t \in OpenRows : ~closedAt[t]}
    IN /\ monPc = "reconcile" /\ monCur = NoTrade /\ monTodo = {}
       /\ monTodo' = open
       /\ monPc' = IF open = {} THEN "sleep" ELSE "exits"
       /\ NoFault
       /\ UNCHANGED <<pc, rowVars, stale, exchVars, monCur, monPos, buf,
                      cbuf, liqVars>>

MUT_ExitOutcomesIgnoreFlat(t) ==
    {NoReason} \cup (IF t \in stale THEN MarketReasons ELSE MarketReasons \ {"timeout"})

\* classify_exit: no position is an external close; a live one may have
\* crossed a bracket, or, past the hold timeout, be timed out, or run on.
ExitOutcomes(t) ==
    IF ~monPos THEN {"external_close"}
    ELSE {NoReason} \cup (IF t \in stale THEN MarketReasons ELSE MarketReasons \ {"timeout"})

CooldownBearing(r) == r \notin {NoReason, "external_close"}

MUT_ExitClassifyUnguarded ==
    /\ monPc = "exits"
    /\ monCur # NoTrade
    /\ \E r \in ExitOutcomes(monCur) :
         /\ buf' = IF r = NoReason THEN buf ELSE [buf EXCEPT ![monCur] = r]
         /\ cbuf' = IF CooldownBearing(r)
                    THEN [cbuf EXCEPT ![SymbolOf[monCur]] = r] ELSE cbuf
    /\ NothingInHand
    /\ NoFault
    /\ UNCHANGED <<pc, rowVars, stale, exchVars, monPc, monTodo, liqVars>>

\* classify + _close_live_trade_and_cooldown, inside the tick's transaction:
\* the row's UPDATE is guarded by closed_at IS NULL, the cooldown upsert by
\* nothing.
ExitClassify ==
    /\ monPc = "exits"
    /\ monCur # NoTrade
    /\ \E r \in ExitOutcomes(monCur) :
         /\ buf' = IF r = NoReason \/ closedAt[monCur] THEN buf
                   ELSE [buf EXCEPT ![monCur] = r]
         /\ cbuf' = IF CooldownBearing(r)
                    THEN [cbuf EXCEPT ![SymbolOf[monCur]] = r] ELSE cbuf
    /\ NothingInHand
    /\ NoFault
    /\ UNCHANGED <<pc, rowVars, stale, exchVars, monPc, monTodo, liqVars>>

NoBuffer == /\ buf' = [t \in Trades |-> NoReason]
            /\ cbuf' = [s \in Symbols |-> NoReason]

\* The tick's one commit, or its rollback when a statement failed.
ExitCommit ==
    /\ monPc = "exits" /\ monCur = NoTrade /\ monTodo = {}
    /\ \/ /\ closedAt' = [t \in Trades |-> closedAt[t] \/ RowLocked(t)]
          /\ exitReason' = [t \in Trades |->
                              IF RowLocked(t) THEN buf[t] ELSE exitReason[t]]
          /\ cooldown' = [s \in Symbols |->
                            IF CooldownLocked(s) THEN cbuf[s] ELSE cooldown[s]]
          /\ NoFault
       \/ Fault /\ UNCHANGED <<closedAt, exitReason, cooldown>>
    /\ NoBuffer
    /\ monPc' = "sleep"
    /\ UNCHANGED <<pc, status, failure, armed, stale, exchVars, monTodo,
                   monCur, monPos, liqVars>>

ExitMonitor ==
    \/ ReconcileScan \/ ReconcileWrite \/ ExitScan \/ ExitClassify \/ ExitCommit
    \/ \E t \in Trades : MonitorRead(t)

----------------------------------------------------------------------------
(* liquidation_monitor: another task, every 30 s *)

\* _list_open_positions: status = 'open', whatever closed_at says.
LiquidationScan ==
    /\ liqTodo = {} /\ liqCur = NoTrade
    /\ liqTodo' = OpenRows
    /\ NoFault
    /\ UNCHANGED <<pc, rowVars, stale, exchVars, monVars, liqCur>>

\* evaluate_position: flat, healthy, alert or error change nothing; below a
\* tenth of the buffer the position is closed, and an error status or an httpx
\* exception from the close order is logged although it may have been executed.
LiquidationEvaluate(t) ==
    /\ t \in liqTodo /\ liqCur = NoTrade
    /\ liqTodo' = liqTodo \ {t}
    /\ \/ UNCHANGED <<held, orders, liqCur>> /\ NoFault
       \/ /\ Position(SymbolOf[t]) # {}
          /\ Flatten(SymbolOf[t])
          /\ \/ liqCur' = t /\ NoFault
             \/ Fault /\ UNCHANGED liqCur
    /\ UNCHANGED <<pc, rowVars, stale, masked, monVars>>

\* _write_liquidation_buffer_close: exit_reason is overwritten, closed_at is
\* not; a failed write is logged and never tried again.
LiquidationWrite ==
    /\ liqCur # NoTrade
    /\ \/ /\ ~RowLocked(liqCur) /\ ~CooldownLocked(SymbolOf[liqCur])
          /\ closedAt' = [closedAt EXCEPT ![liqCur] = TRUE]
          /\ exitReason' = [exitReason EXCEPT ![liqCur] = "liquidation_buffer_breach"]
          /\ cooldown' = [cooldown EXCEPT ![SymbolOf[liqCur]] = "liquidation_buffer_breach"]
          /\ NoFault
       \/ Fault /\ UNCHANGED <<closedAt, exitReason, cooldown>>
    /\ liqCur' = NoTrade
    /\ UNCHANGED <<pc, status, failure, armed, stale, exchVars, monVars,
                   liqTodo>>

LiquidationMonitor ==
    \/ LiquidationScan \/ LiquidationWrite
    \/ \E t \in Trades : LiquidationEvaluate(t)

----------------------------------------------------------------------------
(* The environment *)

\* A stop or target triggers, the operator or Binance closes the position.
ExternalClose(s) ==
    /\ Position(s) # {}
    /\ Flatten(s)
    /\ NoFault
    /\ UNCHANGED <<pc, rowVars, stale, masked, monVars, liqVars>>

\* opened_at recedes past the grace window.
Grow(t) ==
    /\ status[t] # "absent"
    /\ t \notin stale
    /\ stale' = stale \cup {t}
    /\ NoFault
    /\ UNCHANGED <<pc, rowVars, exchVars, monVars, liqVars>>

\* The process dies and starts again: coroutines and uncommitted
\* transactions are gone, the database and the account are not.
Crash ==
    /\ Fault
    /\ pc' = [t \in Trades |-> IF pc[t] \in Running THEN "dead" ELSE pc[t]]
    /\ monPc' = "sleep" /\ monTodo' = {} /\ NothingInHand
    /\ NoBuffer
    /\ liqTodo' = {} /\ liqCur' = NoTrade
    /\ UNCHANGED <<rowVars, stale, exchVars>>

Next ==
    \/ \E t \in Trades : Begin(t) \/ Advance(t) \/ Grow(t)
    \/ ExitMonitor
    \/ LiquidationMonitor
    \/ \E s \in Symbols : ExternalClose(s)
    \/ Crash

Spec == Init /\ [][Next]_vars

\* A coroutine whose awaits return is resumed by the event loop, and every
\* await of a placer or a monitor returns: the HTTP client and the database
\* driver time out.  Wall-clock time passes.  Nothing is assumed of new
\* signals, of the liquidation monitor, of the market, or of crashes.
Fairness ==
    /\ \A t \in Trades : WF_vars(Advance(t)) /\ WF_vars(Grow(t))
    /\ WF_vars(ExitMonitor)

FairSpec == Spec /\ Fairness
----------------------------------------------------------------------------
(* What must hold *)

Protected(t) == {<<t, "sl">>, <<t, "tp">>} \subseteq orders

\* Every variable keeps its type; in particular the monitors' work lists and
\* uncommitted updates only ever name trades, reasons and symbols that exist.
TypeOK ==
    /\ pc \in [Trades -> {"idle"} \cup Running \cup Finished]
    /\ status \in [Trades -> {"absent", "pending", "open", "failed"}]
    /\ closedAt \in [Trades -> BOOLEAN]
    /\ exitReason \in [Trades -> Reasons \cup {NoReason}]
    /\ failure \in [Trades -> Failures]
    /\ armed \in [Trades -> BOOLEAN]
    /\ stale \subseteq Trades
    /\ cooldown \in [Symbols -> Reasons \cup {NoReason}]
    /\ held \subseteq Trades
    /\ orders \subseteq Trades \X {"sl", "tp"}
    /\ masked \subseteq Trades
    /\ monPc \in {"sleep", "reconcile", "exits"}
    /\ monTodo \subseteq Trades
    /\ monCur \in Trades \cup {NoTrade}
    /\ monPos \in BOOLEAN
    /\ buf \in [Trades -> Reasons \cup {NoReason}]
    /\ cbuf \in [Symbols -> Reasons \cup {NoReason}]
    /\ liqTodo \subseteq Trades
    /\ liqCur \in Trades \cup {NoTrade}
    /\ faults \in 0 .. MaxFaults

\* Whatever fails or crashes, no entry is ever part of a Binance position
\* without a committed live_trades row for it: the three-phase placement of
\* both the dispatcher and the Telegram poller inserts first.
EntryHasRow == \A t \in held : status[t] # "absent"

\* When a placement returns to its caller and its entry is still held, then
\* both protective orders rest on Binance, or the row says that the emergency
\* close failed too, or the entry itself was executed behind an error status:
\* no other rejection, of whatever order, leaves a silent naked position.  (An
\* exception that escapes is another matter: see EscapedPlacementIsSafe.)
NoSilentNakedPosition ==
    \A t \in held : pc[t] = "done" =>
        Protected(t) \/ failure[t] = "ghost" \/ t \in masked

\* A row with both protective order ids stays open in the table: neither a
\* reconciler that read the account before the entry filled, nor a late
\* failure UPDATE, turns it into a failed one that no monitor looks at.
ArmedRowsStayOpen == \A t \in Trades : armed[t] => status[t] = "open"

\* Both monitors race to record the exit of the same row from what they read
\* earlier.  Once closed_at is set it stays, and the only reason that may
\* replace the recorded one is the liquidation monitor's.
ExitRecordedOnce ==
    [][\A t \in Trades : closedAt[t] =>
          /\ closedAt'[t]
          /\ exitReason'[t] \in {exitReason[t], "liquidation_buffer_breach"}]_vars

\* The inductive invariant behind the four above and the refinement below.
\* How far a placement has come bounds what its row and the account can be:
NothingBeforeInsert ==
    \A t \in Trades : pc[t] \in {"idle", "gate", "insert"} =>
        status[t] = "absent" /\ t \notin held
RowAfterInsert ==
    \A t \in Trades : pc[t] \in Running \ {"gate", "insert"} => status[t] # "absent"
FlatUntilEntry ==
    \A t \in held : pc[t] \notin {"drift", "entry"} /\ (pc[t] = "reject" => t \in masked)
\* An entry that was executed and reported as refused ends as a failed row, or
\* its placement ends without reporting.
MaskedIsFailed ==
    \A t \in masked :
        /\ pc[t] \in {"reject"} \cup Finished
        /\ pc[t] = "done" => status[t] = "failed" /\ failure[t] = "binance"
ArmedOneByOne ==
    \A t \in held : /\ pc[t] = "tp" => <<t, "sl">> \in orders
                    /\ pc[t] = "commit" => Protected(t)
GhostIsFinal ==
    \A t \in Trades : failure[t] = "ghost" => status[t] = "failed" /\ pc[t] = "done"
ArmedIsFinal == \A t \in Trades : armed[t] => pc[t] = "done"

\* The monitors hold only rows that will never be pending again.
MonitorsHoldResolved ==
    \A t \in Trades :
        \/ monPc = "exits" /\ (t \in monTodo \/ t = monCur)
        \/ buf[t] # NoReason
        \/ t \in liqTodo
        \/ t = liqCur
        => status[t] \in {"open", "failed"}

\* The exit pass holds a row's lock only while no exit is committed for it.
LockedIsNotExited == \A t \in Trades : RowLocked(t) => ~closedAt[t]

\* A placement's place in its protocol, its row, its share of the account and
\* what the monitors hold of it always agree, across crashes and lost answers.
Coherent ==
    /\ EntryHasRow /\ NothingBeforeInsert /\ RowAfterInsert /\ FlatUntilEntry
    /\ MaskedIsFailed /\ ArmedOneByOne /\ NoSilentNakedPosition /\ GhostIsFinal
    /\ ArmedRowsStayOpen /\ ArmedIsFinal /\ MonitorsHoldResolved
    /\ LockedIsNotExited

\* The table, seen by its readers, is the ledger of LiveTradeLedger.
Ledger == INSTANCE LiveTradeLedger
            WITH row <- status, exited <- closedAt,
                 owned <- {t \in Trades : pc[t] \in Running}

\* The placements, both monitors and every crash implement the life of a
\* live_trades row that LiveTradeLedger promises.
ImplementsLedger == Ledger!Spec

\* A pending row is resolved: by its placement, or, when that died or lost
\* its outcome, by the reconciler once the grace window is over.
PendingResolved ==
    \A t \in Trades : status[t] = "pending" ~> status[t] # "pending"

\* When the account goes flat under an open row, the exit monitor records an
\* exit for it, unless another entry on the symbol makes it live again.
ExitDetected ==
    \A t \in Trades :
        (status[t] = "open" /\ ~closedAt[t] /\ Position(SymbolOf[t]) = {})
            ~> (status[t] # "open" \/ closedAt[t] \/ Position(SymbolOf[t]) # {})

----------------------------------------------------------------------------
(* What the documentation says and the code does not do *)

\* atomic_placement: "they either ALL succeed or the position is
\* emergency-closed back to flat", short of the ghost it reports.
EscapedPlacementIsSafe ==
    \A t \in held : pc[t] \in {"done", "raised"} => Protected(t) \/ failure[t] = "ghost"

\* "live_exit_monitor moves to 'closed'": a row with a recorded exit does not
\* stay open.
ExitLeavesOpen == \A t \in Trades : closedAt[t] ~> status[t] # "open"

\* "reconciler will see status='failed' + try to read Binance": a ghost with
\* a live position does not stay a failed row.
GhostReconciled ==
    \A t \in Trades :
        (failure[t] = "ghost" /\ t \in held) ~> (status[t] # "failed" \/ t \notin held)

\* The per-symbol gate exists to keep a second entry off a symbol that already
\* has one.
OneEntryPerSymbol ==
    \A t, u \in held : SymbolOf[t] = SymbolOf[u] => t = u
=============================================================================
