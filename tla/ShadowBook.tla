----------------------------- MODULE ShadowBook -----------------------------
(***************************************************************************)
(* The shadow worker's paper positions.  A lane is a symbol on a           *)
(* timeframe; each closed candle of a lane either checks the exit of its   *)
(* position or looks for an entry.  A position lives twice, as a row of    *)
(* shadow_open_positions and in the worker's memory; a close moves the row *)
(* to shadow_trades together with a cooldown, then lets the break-even     *)
(* variant replay the bars.  Prices are in units of risk on the side the   *)
(* position takes, with the entry at 0.                                    *)
(***************************************************************************)
EXTENDS Integers, Sequences, FiniteSets

CONSTANTS
    Symbols,     \* naturals, in alphabetical order
    Tfs,         \* SHADOW_TIMEFRAMES
    Baseline,    \* cohort_baseline_symbols
    MaxStreams,  \* max_streams of the combined stream
    Timeout,     \* hold_timeout_bars, or TIMEOUT_BARS_PER_TF
    Cooldown,    \* SHADOW_COOLDOWN_HOURS, in bars
    HistoryCap,  \* SHADOW_BREAKEVEN_BAR_HISTORY_CAP
    Bars,        \* candles as [low, high, close]
    Stop, Target, Trigger,
    MaxFaults    \* bound on failures, pauses, universe refreshes and restarts

Lanes == Symbols \X Tfs
SymbolOf(l) == l[1]

VARIABLES
    row,         \* lanes with a shadow_open_positions row
    recorded,    \* lanes whose latest position has its shadow_trades row
    cool,        \* bars to go until shadow_cooldowns.cooldown_until
    book,        \* open_positions, in memory
    coolMem,     \* cooldowns, in memory
    lost,        \* lanes where this process never saw a commit's answer
    filed,       \* the latest shadow_trades row and its variant row
    topN,        \* the universe snapshot
    watched,     \* symbols of the stream subscription
    paged,       \* whether the start-up sent the truncation alert
    due,         \* lanes whose candle of this bar is not handled yet
    paused,      \* pause_state.is_paused
    up,          \* the worker's task is alive
    faults

db     == <<row, recorded, cool>>
memory == <<book, coolMem, lost>>
stream == <<topN, watched, paged>>
vars == <<db, memory, filed, stream, due, paused, up, faults>>

Flat == [held |-> -1, hist |-> <<>>]
Fresh == [held |-> 0, hist |-> <<>>]
NoFile == [reason |-> "none", held |-> 0, variant |-> "none", at |-> 0, armed |-> FALSE]
Has(l) == book[l] # Flat

Fault   == faults < MaxFaults /\ faults' = faults + 1
NoFault == UNCHANGED faults

Before(s, t) ==
    IF s \in Baseline THEN t \notin Baseline \/ s < t ELSE t \notin Baseline /\ s < t

\* _compute_subscription_set, then the cut at max_streams.
MUT_Wanted(universe, lanes) == universe
Wanted(universe, lanes) == universe \cup {SymbolOf(l) : l \in lanes}
Cut(full) == {s \in full : Cardinality({t \in full : Before(t, s)}) < MaxStreams}

Init ==
    /\ row = {} /\ recorded = {} /\ cool = [l \in Lanes |-> 0]
    /\ book = [l \in Lanes |-> Flat] /\ coolMem = [l \in Lanes |-> 0]
    /\ lost = {} /\ filed = NoFile
    /\ topN \in SUBSET Symbols \ {{}}
    /\ watched = Cut(topN) /\ paged = (watched # topN)
    /\ due = {} /\ paused = FALSE /\ up = TRUE /\ faults = 0

Less(n) == IF n = 0 THEN 0 ELSE n - 1

\* A bar closes on every lane.  A candle the stream did not deliver in time,
\* over a reconnect, is lost.
NewBar ==
    /\ due' = {l \in Lanes : SymbolOf(l) \in watched}
    /\ cool' = [l \in Lanes |-> Less(cool[l])]
    /\ coolMem' = [l \in Lanes |-> Less(coolMem[l])]
    /\ IF due # {} /\ up THEN Fault ELSE NoFault
    /\ UNCHANGED <<row, recorded, book, lost, filed, stream, paused, up>>

\* Every handler starts here.  A paused worker drops the candle, exits included.
Takes(l) == up /\ l \in due /\ due' = due \ {l} /\ UNCHANGED <<stream, paused, up>>

Skip(l) ==
    /\ Takes(l) /\ paused
    /\ NoFault /\ UNCHANGED <<db, memory, filed>>

-----------------------------------------------------------------------------
(* Entry: _maybe_open_position. *)

\* PositionGate, of this lane's timeframe alone.
Blocked(l) == Has(l) \/ coolMem[l] > 0

\* No signal, or a gate denies it, or the prediction fails.
NoEntry(l) ==
    /\ Takes(l) /\ ~paused /\ ~Has(l)
    /\ NoFault /\ UNCHANGED <<db, memory, filed>>

\* The row is unique per lane, the memory follows the commit; or the row is
\* committed and the answer is lost.
Open(l) ==
    /\ Takes(l) /\ ~paused /\ ~Blocked(l)
    /\ l \notin row
    /\ row' = row \cup {l} /\ recorded' = recorded \ {l}
    /\ \/ book' = [book EXCEPT ![l] = Fresh] /\ NoFault /\ UNCHANGED lost
       \/ lost' = lost \cup {l} /\ Fault /\ UNCHANGED book
    /\ UNCHANGED <<cool, coolMem, filed>>

-----------------------------------------------------------------------------
(* Exit: check_exit and _maybe_close_position. *)

\* Stop before target, both before the timeout.
Exit(bar, held, stop) ==
    IF bar.low <= stop THEN "STOP_LOSS"
    ELSE IF bar.high >= Target THEN "TAKE_PROFIT"
    ELSE IF held >= Timeout THEN "TIMEOUT" ELSE "none"

\* simulate_variant_exit: the stop moves to the entry after the first bar that
\* reached the trigger.
Armed(hist, i) == \E j \in 1..(i - 1) : hist[j].high >= Trigger
MUT_StopAtSameBar(hist, i) == IF Armed(hist, i + 1) THEN 0 ELSE Stop
MUT_StopAtStays(hist, i) == Stop
StopAt(hist, i) == IF Armed(hist, i) THEN 0 ELSE Stop
ExitAt(hist, i) == Exit(hist[i], i, StopAt(hist, i))

\* The bar that times out arms first; a bar that stops does not.
Variant(hist) ==
    LET done == {i \in DOMAIN hist : ExitAt(hist, i) # "none"}
        last == IF done = {} THEN Len(hist) ELSE CHOOSE i \in done : \A j \in done : i <= j
        why  == IF done = {} THEN "TIMEOUT" ELSE ExitAt(hist, last)
        at   == CASE why = "STOP_LOSS" -> StopAt(hist, last)
                  [] why = "TAKE_PROFIT" -> Target
                  [] OTHER -> IF hist = <<>> THEN 0 ELSE hist[last].close
    IN  [variant |-> IF why = "STOP_LOSS" /\ Armed(hist, last) THEN "BREAKEVEN" ELSE why,
         at |-> at,
         armed |-> \/ Armed(hist, last)
                   \/ why = "TIMEOUT" /\ hist # <<>> /\ hist[last].high >= Trigger]

\* The position as check_exit sees it on this candle.
MUT_Advance(p, bar) ==
    [p EXCEPT !.hist = IF Len(@) < HistoryCap THEN Append(@, bar) ELSE @]
Advance(p, bar) ==
    [held |-> p.held + 1,
     hist |-> IF Len(p.hist) < HistoryCap THEN Append(p.hist, bar) ELSE p.hist]

File(p, bar) ==
    LET v == Variant(p.hist) IN
    [reason |-> Exit(bar, p.held, Stop), held |-> p.held,
     variant |-> v.variant, at |-> v.at, armed |-> v.armed]

Hold(l, bar) ==
    LET p == Advance(book[l], bar) IN
    /\ Takes(l) /\ ~paused /\ Has(l)
    /\ Exit(bar, p.held, Stop) = "none"
    /\ book' = [book EXCEPT ![l] = p]
    /\ NoFault /\ UNCHANGED <<db, coolMem, lost, filed>>

\* signal_id is unique in shadow_trades, so only an unrecorded one can be
\* closed; the trade, the delete and the cooldown are one transaction.
Closable(l) == l \notin recorded

Close(l, bar) ==
    LET p == Advance(book[l], bar) IN
    /\ Takes(l) /\ ~paused /\ Has(l)
    /\ Exit(bar, p.held, Stop) # "none"
    /\ Closable(l)
    /\ row' = row \ {l} /\ recorded' = recorded \cup {l}
    /\ cool' = [cool EXCEPT ![l] = Cooldown]
    /\ \/ /\ book' = [book EXCEPT ![l] = Flat]
          /\ coolMem' = [coolMem EXCEPT ![l] = Cooldown]
          /\ filed' = File(p, bar)
          /\ NoFault /\ UNCHANGED lost
       \/ /\ book' = [book EXCEPT ![l] = p] /\ lost' = lost \cup {l}
          /\ UNCHANGED <<coolMem, filed>>
          /\ Fault

\* The transaction fails; the position stays, with the bar counted.  Once the
\* signal is recorded it fails every time.
CloseFails(l, bar) ==
    LET p == Advance(book[l], bar) IN
    /\ Takes(l) /\ ~paused /\ Has(l)
    /\ Exit(bar, p.held, Stop) # "none"
    /\ p.held <= Timeout + MaxFaults
    /\ book' = [book EXCEPT ![l] = p]
    /\ IF Closable(l) THEN Fault ELSE NoFault
    /\ UNCHANGED <<db, coolMem, lost, filed>>

-----------------------------------------------------------------------------
(* The rest. *)

RefreshUniverse ==
    /\ topN' \in SUBSET Symbols \ {{}, topN}
    /\ Fault
    /\ UNCHANGED <<db, memory, filed, watched, paged, due, paused, up>>

Pause ==
    /\ ~paused /\ paused' = TRUE
    /\ Fault /\ UNCHANGED <<db, memory, filed, stream, due, up>>

Resume ==
    /\ paused /\ paused' = FALSE
    /\ NoFault /\ UNCHANGED <<db, memory, filed, stream, due, up>>

\* setup's view of the tables.
LoadedBook == [l \in Lanes |-> IF l \in row THEN Fresh ELSE Flat]
MUT_LoadedCooldowns == [l \in Lanes |-> 0]
LoadedCooldowns == cool

\* A new process: the subscription is computed once, then setup reads the
\* tables; bars_held and the bar history start again.  A set-up that raises
\* ends the task, which nobody restarts.
Restart ==
    /\ Fault
    /\ \/ /\ up' = TRUE
          /\ watched' = Cut(Wanted(topN, row))
          /\ paged' = (watched' # Wanted(topN, row))
          /\ book' = LoadedBook /\ coolMem' = LoadedCooldowns
       \/ /\ up' = FALSE
          /\ book' = [l \in Lanes |-> Flat] /\ coolMem' = [l \in Lanes |-> 0]
          /\ UNCHANGED <<watched, paged>>
    /\ due' = {} /\ lost' = {}
    /\ UNCHANGED <<db, filed, topN, paused>>

Handle(l) ==
    \/ Skip(l) \/ NoEntry(l) \/ Open(l)
    \/ \E bar \in Bars : Hold(l, bar) \/ Close(l, bar) \/ CloseFails(l, bar)

Next ==
    \/ \E l \in Lanes : Handle(l)
    \/ NewBar \/ RefreshUniverse \/ Pause \/ Resume \/ Restart

Spec == Init /\ [][Next]_vars

\* Bars keep closing and a running consumer handles each in time.
Handled(l) == up /\ l \in due /\ due' = due \ {l} /\ NoFault
Fairness ==
    /\ WF_vars(NoFault /\ NewBar)
    /\ \A l \in Lanes : WF_due(Handled(l))

FairSpec == Spec /\ Fairness

-----------------------------------------------------------------------------
(* Properties. *)

TypeOK ==
    /\ row \subseteq Lanes /\ recorded \subseteq Lanes
    /\ cool \in [Lanes -> 0..Cooldown] /\ coolMem \in [Lanes -> 0..Cooldown]
    /\ \A l \in Lanes :
           /\ book[l].held \in -1..(Timeout + MaxFaults + 1)
           /\ Len(book[l].hist) <= HistoryCap
    /\ topN \subseteq Symbols /\ watched \subseteq Symbols
    /\ due \subseteq Lanes /\ lost \subseteq Lanes
    /\ paged \in BOOLEAN /\ paused \in BOOLEAN /\ up \in BOOLEAN
    /\ faults \in 0..MaxFaults

\* A lane opens nothing before the cooldown of its last recorded trade is
\* over, whatever restarts or lost answers lie between: the cooldown commits
\* with the trade and is loaded again (set_cooldown, load_cooldowns_per_tf).
CooldownOutlivesRestart ==
    [][\A l \in Lanes : l \in row' \ row => cool[l] = 0]_vars

\* A position that gets no candles, and so no exit, has been paged: a start
\* subscribes to the symbols with open positions whatever the universe says,
\* and a cut of the list is alerted (_compute_subscription_set).
UnwatchedIsPaged ==
    (\E l \in Lanes : Has(l) /\ SymbolOf(l) \notin watched) => paged

\* An unarmed variant is the base trade: same reason (simulate_variant_exit's
\* contract), when nothing failed and the history was not cut.
UnarmedIsBase ==
    (faults = 0 /\ filed.held <= HistoryCap /\ ~filed.armed) => filed.variant = filed.reason

\* Once armed, the variant never ends below the entry, failures or not.
ArmedNeverLoses == filed.armed /\ filed.variant # "TIMEOUT" => filed.at >= 0

\* Every position on a watched symbol is closed in the end, unless the worker
\* stays paused or died or a commit's answer was lost.
PositionCloses ==
    <>[](~paused /\ up) =>
        \A l \in Lanes :
            (l \in row /\ SymbolOf(l) \in watched) ~> (l \notin row \/ l \in lost \/ SymbolOf(l) \notin watched)
=============================================================================
