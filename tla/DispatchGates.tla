---------------------------- MODULE DispatchGates ----------------------------
(* How a prediction becomes an order or a card: the start of autonomous     *)
(* trading, the gates of dispatch() in their order, sizing and leverage,    *)
(* the order's quantities, and the decision log. Every feed streams one     *)
(* symbol and dispatches one prediction at a time, in one database session  *)
(* in which a failed statement fails all later ones; a step ends where the  *)
(* code awaits the database or the network. Placement itself, with all that *)
(* can go wrong in it, is TradeLifecycle; here an order is a row.           *)
(* Prices are whole ticks of the model; scores, confidences and             *)
(* probabilities are hundredths; amounts are cents.                         *)
EXTENDS Integers, Sequences, FiniteSetsExt

CONSTANTS
    Feeds,       \* the symbols, each streamed by one task
    Settings,    \* environments the process may be started with
    Offers,      \* Offers[n]: the predictions, with a complete trade setup, under setting n
    Cap,         \* users.max_concurrent_positions
    Others,      \* open rows of symbols nobody streams
    SnapshotTtl, RegimeTtl, DedupHours,
    MaxTime,     \* bound on the clock
    MaxOffers,   \* bound on the predictions dispatched
    MaxFaults    \* bound on failed statements, fetches and commits

VARIABLES
    set,        \* the environment
    keysLoaded, \* the vault was decrypted, the safety workers run, dispatch may trade
    clock,
    held,       \* held[f]: rows of live_trades of the symbol f, 'open' or 'pending'
    losing,     \* losing[f]: since when the newest performance snapshot says f loses, or Never
    snapshots,  \* the cached snapshots, who loses, with the time they are stamped with
    regime,     \* the cached market regime, with its time
    cards,      \* posted cards; those kept have a row in telegram_signals
    d,          \* d[f]: the dispatch f is in
    offers,     \* how many predictions were dispatched
    log,        \* the last row of dispatch_decisions
    faults

vars == <<set, keysLoaded, clock, held, losing, snapshots, regime, cards, d, offers, log, faults>>
world == <<set, keysLoaded, clock>>

None == "none"
\* A score, an indicator or a threshold there is none of.
Missing == -1000
Nobody == [pc |-> "idle"]
Empty == [at |-> -1000, of |-> None]
Unread == [at |-> -1000, of |-> {}]
Never == -1

Least(a, b) == IF a < b THEN a ELSE b
Most(a, b) == IF a > b THEN a ELSE b

-----------------------------------------------------------------------------
(* The entry-quality gate: four checks on a prediction p. A missing layer-2  *)
(* direction is None, a missing score, ADX or threshold Missing: no opinion.            *)

Agrees(p, floor) == p.pattern = p.dir /\ p.sure >= floor
Opposes(p, floor) == p.pattern \in {"LONG", "SHORT"} \ {p.dir} /\ p.sure >= floor

ShortDisabled(p, s) == p.dir = "SHORT" /\ s.shortsOff

WrongRegime(p, s, r) ==
    /\ s.regimeGate
    /\ <<p.dir, r>> \in {<<"LONG", "bear">>, <<"SHORT", "bull">>}
    /\ ~Agrees(p, 80)

WeakTrend(p, s) == s.minAdx # Missing /\ p.adx # Missing /\ p.adx < s.minAdx

\* A short's score is negative: its conviction is its magnitude. Patterns that
\* agree add to it, those that oppose take from it.
Conviction(p, s) ==
    LET score == IF p.dir = "LONG" THEN p.score ELSE -p.score
    IN CASE s.boost /\ Agrees(p, 60) -> Least(100, score + 10)
         [] s.boost /\ Opposes(p, 60) -> Most(-100, score - 15)
         [] OTHER -> score
BelowBar(p, s) == s.bar[p.dir] # Missing /\ p.score # Missing /\ Conviction(p, s) < s.bar[p.dir]

\* evaluate_all_gates: the checks that block, all evaluated.
Blocking(p, s, r) ==
    {gate \in {"short_disabled", "regime", "adx", "min_score"} :
        CASE gate = "short_disabled" -> ShortDisabled(p, s)
          [] gate = "regime" -> WrongRegime(p, s, r)
          [] gate = "adx" -> WeakTrend(p, s)
          [] gate = "min_score" -> BelowBar(p, s)}

\* open_position_gate: the first check that blocks decides.
Allowed(p, s, r) ==
    ~(ShortDisabled(p, s) \/ WrongRegime(p, s, r) \/ WeakTrend(p, s) \/ BelowBar(p, s))

-----------------------------------------------------------------------------
(* The gates that need only the prediction.                                  *)

\* evaluate_funding_rate, one per cent a day.
FundingBlocks(p) ==
    \/ p.dir = "LONG" /\ p.funding > 100
    \/ p.dir = "SHORT" /\ p.funding < -100

LowAgreement(p, s) == p.agreement # Missing /\ p.agreement < s.minAgreement
HigherVeto(p) ==
    \/ p.dir = "LONG" /\ p.day < 0 /\ p.week < 0
    \/ p.dir = "SHORT" /\ p.day > 0 /\ p.week > 0

\* _maybe_tighten_short_sl: a fifth off the stop of a short with little agreement.
Tightened(p, s) ==
    IF p.dir = "SHORT" /\ s.tighten /\ p.agreement # Missing /\ p.agreement < 5
    THEN [p EXCEPT !.stop = p.entry + ((p.stop - p.entry) * 80) \div 100]
    ELSE p

-----------------------------------------------------------------------------
(* Leverage, size and quantities.                                            *)

StopDistance(p) == Most(0, IF p.dir = "LONG" THEN p.entry - p.stop ELSE p.stop - p.entry)

MUT_recommended_leverage(entry, distance, cap) ==
    IF distance = 0 \/ cap < 1 THEN 1
    ELSE Most(1, Least((10 * entry) \div (10 * distance), cap))

\* The largest leverage that keeps the stop within 80 % of the way to liquidation.
recommended_leverage(entry, distance, cap) ==
    IF distance = 0 \/ cap < 1 THEN 1
    ELSE Most(1, Least((8 * entry) \div (10 * distance), cap))

\* compute_kelly_fraction, in thousandths of a per cent, capped by the tier.
TierCap(balance) ==
    IF balance < 100000 THEN 1000 ELSE IF balance < 1000000 THEN 2000
    ELSE IF balance < 10000000 THEN 5000 ELSE 10000
Kelly(win, balance) == Most(0, Least((2 * win - 100) * 250, TierCap(balance)))
\* percent_sizing_amount's ramp, in thousandths of a per cent.
Ramp(wins) == IF wins < 30 THEN 100 ELSE IF wins < 100 THEN 250 ELSE IF wins < 500 THEN 500 ELSE 1000

\* The calibrated probability where there is a model, the confidence where not.
WinChance(p) == IF p.calibrated # Missing THEN p.calibrated ELSE p.confidence

\* build_user_context takes five times the least fixed size for the portfolio.
Portfolio == 15000
Fixed == 3000
Margin(p, s) ==
    CASE s.sizing = "dynamic" -> (Portfolio * Kelly(WinChance(p), Portfolio)) \div 100000
      [] s.sizing = "percent" -> (Portfolio * Ramp(0)) \div 100000
      [] OTHER -> Fixed

\* quantize_qty, quantize_price: down to the step.
quantize(x, step) == IF step = 0 THEN x ELSE (x \div step) * step
\* The quantity in thousandths of a coin, the price in cents.
Quantity(p, s, leverage) ==
    quantize((1000 * Margin(p, s) * leverage) \div p.entry, p.step)
Placeable(p, qty) == qty >= p.step /\ qty * p.entry >= 1000 * 500

-----------------------------------------------------------------------------
Init ==
    /\ set \in Settings
    /\ keysLoaded = FALSE
    /\ clock = 0 /\ held = [f \in Feeds |-> 0]
    /\ losing = [f \in Feeds |-> Never] /\ snapshots = Unread /\ regime = Empty
    /\ cards = <<>> /\ d = [f \in Feeds |-> Nobody]
    /\ offers = 0 /\ log = Nobody
    /\ faults = 0

Fault == faults < MaxFaults /\ faults' = faults + 1
Fine == UNCHANGED faults
\* At most one thing goes wrong in a step.
Faulty(these) == Cardinality(these) <= 1 /\ IF these = {} THEN Fine ELSE Fault

\* The lifespan's block on autonomous trading, where it succeeds: the passphrase,
\* the vault, the key's permissions and the migration are right. A broken audit
\* chain is alerted and changes nothing. The keys are cached, and the safety
\* workers started.
Boot ==
    /\ ~keysLoaded
    /\ keysLoaded' = TRUE
    /\ UNCHANGED <<set, clock, held, losing, snapshots, regime, cards, d, offers, log, faults>>

Go(f, next) == d' = [d EXCEPT ![f] = next]
At(f, pc) == d[f].pc = pc
\* A dispatch ends with an outcome; the log is next.
Ends(f, outcome) == Go(f, [d[f] EXCEPT !.pc = "log", !.outcome = outcome])
\* What a failed statement leaves: the handler passes, the session does not
\* recover, and no later statement of it succeeds.
Poisoned(f) == d[f].aborted
FailsOpen(f, next) ==
    /\ ~Poisoned(f) /\ Fault
    /\ Go(f, [next EXCEPT !.aborted = TRUE])

\* _maybe_dispatch: with the keys loaded, a new session; build_user_context
\* counts the 'open' rows, and get_mode reads the mode, which others change at
\* any time. (A prediction without setup is not dispatched.)
Dispatch(f) ==
    /\ keysLoaded /\ At(f, "idle") /\ offers < MaxOffers
    /\ \E p \in Offers[set.name], mode \in {"manual", "telegram-approve", "fully-auto"} :
         d' = [d EXCEPT ![f] = [pc |-> IF mode = "manual" THEN "log" ELSE "allowlist",
                                outcome |-> IF mode = "manual" THEN "emitted" ELSE None,
                                p |-> p, n |-> clock, mode |-> mode,
                                count |-> Others + MapThenSumSet(LAMBDA g : held[g], Feeds), aborted |-> FALSE,
                                regime |-> None]]
    /\ offers' = offers + 1
    /\ Fine
    /\ UNCHANGED <<world, held, losing, snapshots, regime, cards, log>>

MUT_SnapshotsFresh(n) == snapshots.at >= 0 /\ n - snapshots.at <= SnapshotTtl + 1
SnapshotsFresh(n) == snapshots.at >= 0 /\ n - snapshots.at < SnapshotTtl

Losers == {f \in Feeds : losing[f] # Never}

\* The newest snapshots, from the cache or, under the user's lock, from the
\* database; the cache carries the time the dispatch began.
Allowlist(f) ==
    LET n == d[f].n
        passed == [d[f] EXCEPT !.pc = "quality"]
        judged(losers) == IF f \in losers THEN Ends(f, "blocked_low_sharpe") ELSE Go(f, passed)
    IN /\ At(f, "allowlist")
       /\ \/ /\ ~set.allowlist /\ Go(f, passed) /\ Fine /\ UNCHANGED snapshots
          \/ /\ set.allowlist /\ SnapshotsFresh(n)
             /\ judged(snapshots.of) /\ Fine /\ UNCHANGED snapshots
          \/ /\ set.allowlist /\ ~SnapshotsFresh(n) /\ ~Poisoned(f)
             /\ snapshots' = [at |-> n, of |-> Losers] /\ judged(Losers) /\ Fine
          \/ /\ set.allowlist /\ ~SnapshotsFresh(n)
             /\ FailsOpen(f, passed) /\ UNCHANGED snapshots
       /\ UNCHANGED <<world, held, losing, regime, cards, offers, log>>

\* get_cached_market_regime: within its life the cache answers; else the daily
\* bars are fetched, and a failure leaves the cache as it was.
RegimeKnown(answer, failed) ==
    IF ~set.regimeGate THEN answer = None /\ ~failed /\ UNCHANGED regime
    ELSE IF regime.of # None /\ clock - regime.at < RegimeTtl
    THEN answer = regime.of /\ ~failed /\ UNCHANGED regime
    ELSE IF failed THEN answer = regime.of /\ UNCHANGED regime
    ELSE answer # None /\ regime' = [at |-> clock, of |-> answer]
Regimes == {None, "bull", "bear", "neutral"}

\* What nobody else writes to, in one step: the entry-quality gate, the
\* cooldown (a statement that fails lets the trade through), the funding guard,
\* the multi-timeframe gate, the borrow rate of a short (its statement names a
\* column the table does not have, and always fails), the tightening. A cooldown row was written with the
\* exit of a trade whose row is still 'open', and blocks nothing the symbol gate
\* does not: it is left out.
Quality(f) ==
    LET p == d[f].p
        outcome == IF LowAgreement(p, set) THEN "blocked_mtf_low_agreement"
                   ELSE IF HigherVeto(p) THEN "blocked_mtf_higher_tf_veto" ELSE None
        block(r, why) == Go(f, [d[f] EXCEPT !.pc = "log", !.regime = r, !.outcome = why])
    IN /\ At(f, "quality")
       /\ \E r \in Regimes, failed \in SUBSET {"regime", "cooldown"} :
            /\ RegimeKnown(r, "regime" \in failed) /\ Faulty(failed)
            /\ IF ~Allowed(p, set, r) \/ FundingBlocks(p)
               THEN /\ "cooldown" \notin failed
                    /\ block(r, IF Allowed(p, set, r) THEN "blocked_funding"
                                ELSE "blocked_entry_quality")
               ELSE /\ "cooldown" \in failed => ~Poisoned(f)
                    /\ IF outcome # None THEN block(r, outcome)
                       ELSE Go(f, [d[f] EXCEPT !.pc = "symbol", !.regime = r,
                                     !.p = Tightened(p, set),
                                     !.aborted = @ \/ "cooldown" \in failed
                                                 \/ (p.dir = "SHORT" /\ set.borrowVeto)])
       /\ UNCHANGED <<world, held, losing, snapshots, cards, offers, log>>

Full(count) == count >= Cap

\* Straight to the exchange, whatever the mode: HYBRID_AUTO_SCORE_THRESHOLD.
Hybrid(p) == set.hybrid # Missing /\ p.score # Missing /\ Most(p.score, -p.score) >= set.hybrid

MUT_SymbolGate(f) ==
    LET next == [d[f] EXCEPT !.pc = IF d[f].mode = "fully-auto" \/ Hybrid(d[f].p)
                                    THEN "place" ELSE "card"]
        onward(then) == IF Full(d[f].count) THEN Ends(f, "blocked_max_positions")
                        ELSE Go(f, then)
    IN /\ At(f, "symbol")
       /\ \/ /\ onward(next) /\ Fine
          \/ /\ ~Poisoned(f) /\ Fault
             /\ onward([next EXCEPT !.aborted = TRUE])
       /\ UNCHANGED <<world, held, losing, snapshots, regime, cards, offers, log>>

\* The per-symbol gate (a read that fails lets the trade through), the count of
\* open positions as it was when the dispatch began, and the way of the mode.
SymbolGate(f) ==
    LET next == [d[f] EXCEPT !.pc = IF d[f].mode = "fully-auto" \/ Hybrid(d[f].p)
                                    THEN "place" ELSE "card"]
        onward(then) == IF Full(d[f].count) THEN Ends(f, "blocked_max_positions")
                        ELSE Go(f, then)
    IN /\ At(f, "symbol")
       /\ \/ /\ ~Poisoned(f) /\ held[f] > 0 /\ Ends(f, "blocked_symbol_position_open") /\ Fine
          \/ /\ (Poisoned(f) \/ held[f] = 0) /\ onward(next) /\ Fine
          \/ /\ ~Poisoned(f) /\ Fault
             /\ onward([next EXCEPT !.aborted = TRUE])
       /\ UNCHANGED <<world, held, losing, snapshots, regime, cards, offers, log>>

Leverage(p) == recommended_leverage(p.entry, StopDistance(p), 10)

\* _place_live_order, in sessions of its own: the filters, the quantities and the
\* least notional, the row.
Place(f) ==
    LET p == d[f].p  qty == Quantity(p, set, Leverage(p))
    IN /\ At(f, "place")
       /\ IF Placeable(p, qty)
          THEN /\ held' = [held EXCEPT ![f] = @ + 1]
               /\ Ends(f, IF d[f].mode = "fully-auto" THEN "placed" ELSE "placed_hybrid")
          ELSE Ends(f, "error") /\ UNCHANGED held
       /\ Fine
       /\ UNCHANGED <<world, losing, snapshots, regime, cards, offers, log>>

MUT_Recent(f) ==
    {i \in DOMAIN cards : /\ cards[i].symbol = f /\ cards[i].dir = d[f].p.dir /\ cards[i].kept
                          /\ clock - cards[i].at < DedupHours - 1}

\* The rows within the cooldown, of cards of the same symbol and direction: the
\* gate takes the time of now, a row the time its dispatch began.
Recent(f) ==
    {i \in DOMAIN cards : /\ cards[i].symbol = f /\ cards[i].dir = d[f].p.dir /\ cards[i].kept
                          /\ clock - cards[i].at < DedupHours}

\* _send_telegram_signal: the newest card of the symbol and direction within the
\* cooldown suppresses the new one. Else its row is inserted, the card posted, and
\* the session committed after that: if the commit fails the card is out and there
\* is no row of it. In a session that a statement failed in, the gate's or an
\* earlier one, nothing is inserted, and that is an error.
Card(f) ==
    LET post(kept) == cards' = Append(cards, [symbol |-> f, dir |-> d[f].p.dir, at |-> d[f].n,
                                             out |-> clock, kept |-> kept])
    IN /\ At(f, "card")
       /\ \/ /\ ~Poisoned(f) /\ Recent(f) # {}
             /\ Ends(f, "suppressed_telegram_dedup") /\ Fine /\ UNCHANGED cards
          \/ ~Poisoned(f) /\ Recent(f) = {} /\ post(TRUE) /\ Ends(f, "sent_telegram") /\ Fine
          \/ ~Poisoned(f) /\ Recent(f) = {} /\ post(FALSE) /\ Go(f, Nobody) /\ Fault
          \/ Ends(f, "error") /\ UNCHANGED cards /\ IF Poisoned(f) THEN Fine ELSE Fault
       /\ UNCHANGED <<world, held, losing, snapshots, regime, offers, log>>

\* The decision log: every check again, with the regime of now.
Log(f) ==
    /\ At(f, "log")
    /\ \E r \in Regimes, failed \in SUBSET {"regime"} :
         /\ RegimeKnown(r, failed # {}) /\ Faulty(failed)
         /\ log' =
                [pc |-> "logged", outcome |-> d[f].outcome, same |-> d[f].regime = r,
                 blocking |-> Blocking(d[f].p, set, r)]
    /\ Go(f, Nobody)
    /\ UNCHANGED <<world, held, losing, snapshots, cards, offers>>

-----------------------------------------------------------------------------
(* What happens around it.                                                   *)

Tick ==
    /\ clock < MaxTime /\ clock' = clock + 1
    /\ UNCHANGED <<set, keysLoaded, held, losing, snapshots, regime, cards, d, offers, log, faults>>

\* run_one_refresh_cycle: a new snapshot of every symbol, read by the allowlist only.
Refresh ==
    /\ set.allowlist
    /\ \E losers \in SUBSET Feeds :
         losing' = [f \in Feeds |-> IF f \notin losers THEN Never
                                    ELSE IF losing[f] = Never THEN clock ELSE losing[f]]
    /\ UNCHANGED <<world, held, snapshots, regime, cards, d, offers, log, faults>>

\* A restart loses the caches and the dispatches under way.
Restart ==
    /\ keysLoaded /\ Fault
    /\ keysLoaded' = FALSE
    /\ snapshots' = Unread /\ regime' = Empty /\ d' = [f \in Feeds |-> Nobody]
    /\ UNCHANGED <<set, clock, held, losing, cards, offers, log>>

Next ==
    \/ Boot \/ Tick \/ Refresh \/ Restart
    \/ \E f \in Feeds :
         \/ Dispatch(f) \/ Allowlist(f) \/ Quality(f)
         \/ SymbolGate(f) \/ Place(f) \/ Card(f) \/ Log(f)

Spec == Init /\ [][Next]_vars

-----------------------------------------------------------------------------
Outcomes ==
    {"emitted", "blocked_low_sharpe", "blocked_entry_quality", "blocked_funding",
     "blocked_mtf_low_agreement", "blocked_mtf_higher_tf_veto", "blocked_symbol_position_open",
     "blocked_max_positions", "placed", "placed_hybrid", "error",
     "suppressed_telegram_dedup", "sent_telegram"}

\* The types.
TypeOK ==
    /\ keysLoaded \in BOOLEAN /\ held \in [Feeds -> 0..MaxOffers]
    /\ losing \in [Feeds -> Never..MaxTime]
    /\ clock \in 0..MaxTime /\ faults \in 0..MaxFaults
    /\ \A f \in Feeds :
         /\ d[f].pc \in {"idle", "allowlist", "quality", "symbol", "place", "card", "log"}
    /\ offers \in 0..MaxOffers
    /\ log.pc = "logged" => log.outcome \in Outcomes

\* Automatic entries double a position only after a failed statement left the
\* session unable to see the first one, or under the borrow veto, whose statement
\* fails each time.
EntriesDoubleByFault ==
    ~set.borrowVeto => \A f \in Feeds : held[f] <= 1 + faults

\* A card goes out no earlier than the cooldown after the dispatch of an earlier
\* one of its symbol and direction began, whatever came in between, unless the
\* earlier one's commit failed after it was posted.
CardsSpaced ==
    \A i, j \in DOMAIN cards :
        i < j /\ cards[i].symbol = cards[j].symbol /\ cards[i].dir = cards[j].dir
            => cards[j].out - cards[i].at >= DedupHours \/ ~cards[i].kept

\* The stop the exchange gets, a whole number of ticks, comes before liquidation.
StopBeforeLiquidation ==
    \A f \in Feeds : d[f].pc \in {"place", "card"} =>
        LET p == d[f].p  stop == quantize(p.stop, p.tick)
        IN Leverage(p) * StopDistance([p EXCEPT !.stop = stop]) < p.entry

\* The decision log explains the outcome, unless the market regime was fetched
\* again in between.
LogExplains ==
    log.pc = "logged" /\ log.same =>
        /\ log.outcome = "blocked_entry_quality" => log.blocking # {}
        /\ log.blocking # {} =>
             log.outcome \in {"emitted", "blocked_low_sharpe", "blocked_entry_quality"}

\* A symbol that has been losing for the cache's lifetime when its dispatch
\* begins is not let in, although the cache is shared by all dispatches and
\* stamped with the time one of them began, not with the time it was read;
\* unless the snapshots cannot be read.
LosersKeptOut ==
    \A f \in Feeds :
        /\ set.allowlist /\ d[f].pc \in {"quality", "symbol", "place", "card"}
        /\ ~d[f].aborted /\ losing[f] # Never
        => d[f].n - losing[f] < SnapshotTtl
=============================================================================
