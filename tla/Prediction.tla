----------------------------- MODULE Prediction -----------------------------
(* build_prediction(): a worker's lane (a symbol as that worker writes it,   *)
(* on one timeframe) turns a closed bar into a score, a direction and a     *)
(* setup. A step of a lane ends where the code awaits the database or the   *)
(* network; meanwhile snapshots and news arrive, the regime changes, a      *)
(* checkpoint is hot-swapped, the win-probability models are refitted, the  *)
(* process restarts. Afterwards the shadow worker stores what the           *)
(* reinforcement-learning brain will be trained on, and the replay buffer   *)
(* rebuilds the brain's observation from it. One market is traded; only the *)
(* lanes that write its symbol as the snapshot table does find its rows.    *)
EXTENDS Scoring

CONSTANTS
    Lanes,       \* records of symbol and timeframe
    Native,      \* the symbol as the snapshot table writes it
    Readings,    \* what the bars of a prediction show
    Records,     \* rows of pattern_stats: samples and accuracy
    Fundings, Deltas, NewsItems, \* what the market and the news may be
    Checkpoints, \* the brain's checkpoints
    WithAssets,  \* those that come with asset embeddings
    Policies,    \* the actions a checkpoint may choose
    MaxPredictions, MaxMoves, MaxFaults   \* bounds

\* What a layer returns, and what is read of the bars and of the news: the
\* votes of the layers that read bars, the pattern fires, the ghost candle, and
\* the traps either way.
Ballots == {NONE} \union [dir : {-1, 0, 1}, strength : Nat, confidence : Nat]
Readable(r) ==
    /\ \A i \in {1, 3, 4, 5} : r.votes[i] \in Ballots
    /\ r.fires \in Seq([dir : {-1, 0, 1}, weight : Nat, chart : BOOLEAN, micro : BOOLEAN])
    /\ r.ghost \in Int /\ r.doubt \in Int
    /\ \A dir \in {-1, 0, 1} : IsFiniteSet(r.traps[dir])
Headline == [sentiment : Int, impact : Int]

Directions == {1, -1}
None == "none"

VARIABLES
    brain,    \* the checkpoint loaded, None without one
    table,    \* whose asset embeddings are used: None until first asked for
    history,  \* history[s]: the raw actions remembered under the symbol s
    record,   \* the row of pattern_stats
    stats,    \* stats[l]: the accuracies lane l has loaded, Missing before
    market,   \* the latest snapshot: funding rate and 24 h change of open interest
    mood,     \* the cached market regime, None without one
    news,     \* the news of the last hour
    pred,     \* pred[l]: the prediction lane l is at
    files,    \* files[d]: the pickled win-probability model: none, good or torn
    memo,     \* memo[d]: what the process holds of it: unread, none or model
    predictions, moves, faults

vars == <<brain, table, history, record, stats, market, mood, news, pred, files, memo,
          predictions, moves, faults>>
world == <<record, market, mood, news, files>>
minds == <<brain, table, history>>

Idle == [at |-> "idle"]
Init ==
    /\ brain \in Checkpoints \union {None} /\ table = None
    /\ history = [s \in {l.symbol : l \in Lanes} |-> <<>>]
    /\ record \in Records
    /\ stats = [l \in Lanes |-> Missing]
    /\ market \in [funding : Fundings, oi : Deltas]
    /\ mood = None
    /\ news \in NewsItems
    /\ pred = [l \in Lanes |-> Idle]
    /\ files = [d \in Directions |-> "none"] /\ memo = [d \in Directions |-> "unread"]
    /\ predictions = 0 /\ moves = 0 /\ faults = 0

\* What may fail does, while faults are left.
Fault == faults < MaxFaults /\ faults' = faults + 1
Fine == UNCHANGED faults
\* A prediction is a record that grows.
Extended(p, more) ==
    [x \in DOMAIN p \union DOMAIN more |-> IF x \in DOMAIN more THEN more[x] ELSE p[x]]
To(l, stage, more) == pred' = [pred EXCEPT ![l] = [Extended(@, more) EXCEPT !.at = stage]]
\* The other lanes' predictions know that the world moved under them.
Stale == [l \in Lanes |-> IF pred[l].at = "idle" THEN pred[l] ELSE [pred[l] EXCEPT !.moved = TRUE]]

-----------------------------------------------------------------------------
(* A prediction.                                                             *)

Threshold(timeframe) == 100000
\* The accuracies are loaded once per process and kept; a lane without them
\* scores without layer 2.
Begin(l, r) ==
    /\ pred[l].at \in {"idle", "done"} /\ predictions < MaxPredictions
    /\ predictions' = predictions + 1
    /\ \/ /\ Fine
          /\ stats' = IF stats[l] # Missing THEN stats
                      ELSE [stats EXCEPT ![l] = stats_get(record, Threshold(l.timeframe))]
       \/ stats[l] = Missing /\ Fault /\ UNCHANGED stats
    /\ pred' = [pred EXCEPT ![l] =
           [at |-> "news", bars |-> r, moved |-> FALSE, broken |-> FALSE, recorded |-> FALSE,
            raw |-> None,
            l2 |-> IF stats'[l] = Missing THEN NONE ELSE layer2_patterns(r.fires, stats'[l])]]
    /\ UNCHANGED <<minds, world, memo, moves>>

\* A failed query aborts the transaction: the session's later reads fail too.
News(l) ==
    /\ pred[l].at = "news"
    /\ \/ To(l, "context", [l9 |-> layer9_news(news)]) /\ Fine
       \/ To(l, "context", [l9 |-> NONE, broken |-> TRUE]) /\ Fault
    /\ UNCHANGED <<minds, world, stats, memo, predictions, moves>>

layer_results(p) ==
    [i \in 1..10 |->
        CASE i = 2 -> p.l2
          [] i = 6 -> layer6_micro(p.bars.fires)
          [] i = 8 -> layer8_convlstm(p.bars.ghost, p.bars.doubt)
          [] i = 9 -> p.l9
          [] i \in {7, 10} -> NONE
          [] OTHER -> p.bars.votes[i]]

\* The rows of the symbol, in the spelling of the caller.
_intermarket_snapshot_for(symbol, broken) ==
    IF symbol = Native /\ ~broken THEN market ELSE [funding |-> Missing, oi |-> Missing]
\* The traps argue against the direction proposed.
Traps(p, dir, funding) ==
    Cardinality(p.bars.traps[dir]) + IF funding_rate_decay(dir, [funding |-> Known(funding)]) THEN 1 ELSE 0
Context(l) ==
    /\ pred[l].at = "context"
    /\ LET p == pred[l]
           layers == layer_results(p)
           proposed == aggregate(layers, 0, 1000)
           Seen(broken) ==
               LET seen == _intermarket_snapshot_for(l.symbol, broken)
               IN To(l, "brain", [layers |-> layers, proposed |-> proposed, seen |-> seen,
                                  broken |-> broken,
                                  traps |-> Traps(p, proposed.dir, seen.funding)])
       IN \/ Seen(p.broken) /\ Fine
          \/ ~p.broken /\ Seen(TRUE) /\ Fault
    /\ UNCHANGED <<minds, world, stats, memo, predictions, moves>>

\* What the brain is shown: layers 1 to 6, 8 and 9, the market, the time of the bar.
_REGIME_MAP(r) ==
    CASE r = "bull" -> "bull_breakout" [] r = "bear" -> "bear_crash" [] OTHER -> "sideways_grind"
MarketFeatures(range, seen, regime) ==
    [atr |-> range, funding |-> Known(seen.funding), oi |-> Known(seen.oi), regime |-> regime]
Macro(r) == [weekend |-> r.weekday >= 5, asia |-> r.hour \in 0..7]
Observation(scores, mkt, macro) == [scores |-> scores, market |-> mkt, macro |-> macro]
brain_layers(layers) ==
    LET of == <<1, 2, 3, 4, 5, 6, 8, 9>> IN [k \in 1..8 |-> Product(layers[of[k]])]
Served(p) ==
    Observation(brain_layers(p.layers), MarketFeatures(p.bars.atr, p.seen, _REGIME_MAP(mood)),
                Macro(p.bars))

\* The embeddings come from the checkpoint loaded when they are first asked for,
\* and stay when another is loaded.
_get_asset_table(held) ==
    CASE held # None -> held [] held = None /\ brain \in WithAssets -> brain [] OTHER -> "random"
\* The policy's choice is any of its actions. The three latest are remembered.
Decide(l, raw) ==
    LET past == history[l.symbol]
        now == Append(past, raw)
    IN /\ history' = [history EXCEPT ![l.symbol] = IF Len(now) > 3 THEN Tail(now) ELSE now]
       /\ To(l, "record",
             [served |-> Served(pred[l]), raw |-> raw, smoothed |-> smooth_action(past, raw),
              adjust |-> action_to_brain_adjust(smooth_action(past, raw), pred[l].proposed.dir)])
Brain(l) ==
    /\ pred[l].at = "brain"
    /\ \/ brain = None /\ Fine /\ UNCHANGED <<table, history>>
          /\ To(l, "finish", [served |-> Served(pred[l]), adjust |-> 1000])
       \/ brain # None /\ table' = _get_asset_table(table) /\ Fine
          /\ \E raw \in Policies[brain] : Decide(l, raw)
       \/ brain # None /\ table' = _get_asset_table(table) /\ Fault /\ UNCHANGED history
          /\ To(l, "finish", [served |-> Served(pred[l]), adjust |-> 1000])
    /\ UNCHANGED <<brain, world, stats, memo, predictions, moves>>

\* The decision's row has a session of its own; its failure is only logged.
Record(l) ==
    /\ pred[l].at = "record"
    /\ \/ To(l, "finish", [recorded |-> TRUE]) /\ Fine
       \/ To(l, "finish", [recorded |-> FALSE]) /\ Fault
    /\ UNCHANGED <<minds, world, stats, memo, predictions, moves>>

\* The win-probability model is read from its file once; an absent or a torn
\* file is remembered as no model.
_load_model(held, file) ==
    CASE held # "unread" -> held [] held = "unread" /\ file = "good" -> "model" [] OTHER -> "none"
\* The fields recorded beside the score. This lookup respells the symbol.
HookFields(p, final, symbol, timeframe, broken) ==
    LET funding == _intermarket_snapshot_for(symbol, broken).funding
    IN [funding |-> funding,
        daily |-> IF funding = Missing THEN Missing ELSE 3 * funding,
        edge |-> compute_funding_directional_adj(funding, final.dir),
        effective |-> compute_effective_score(final.score,
            IF timeframe \in {"1h", "4h", "1d"} THEN p.bars.vol ELSE Missing),
        p_win |-> final.dir # 0 /\ _load_model(memo[final.dir], files[final.dir]) = "model"]
FinishWith(l, p, final, broken) ==
    /\ To(l, IF l.symbol = Native /\ final.dir # 0 THEN "capture" ELSE "done",
          [final |-> final, tier |-> classify_tier(final), broken |-> broken,
           setup |-> _build_trade_setup(final.dir, p.bars.atr),
           summary |-> IF broken \/ news = <<>> THEN [count |-> 0, impact |-> None]
                       ELSE _build_news_summary(news),
           fields |-> HookFields(p, final, Native, l.timeframe, broken)])
    /\ memo' = [d \in Directions |->
           IF d = final.dir THEN _load_model(memo[d], files[d]) ELSE memo[d]]
Finish(l) ==
    /\ pred[l].at = "finish"
    /\ LET p == pred[l]  final == aggregate(p.layers, p.traps, p.adjust)
       IN \/ FinishWith(l, p, final, p.broken) /\ Fine
          \/ ~p.broken /\ FinishWith(l, p, final, TRUE) /\ Fault
    /\ UNCHANGED <<minds, world, stats, predictions, moves>>

\* The shadow worker opens (or does not) and stores nine layers, 7 among them,
\* the market as it is then, and the time of the bar.
layer_scores_array(layers) == [i \in 1..9 |-> Product(layers[i])]
build_obs_components(p, mkt) ==
    [layer_scores |-> layer_scores_array(p.layers), atr |-> p.bars.atr, intermarket |-> mkt,
     regime |-> _REGIME_MAP(mood), macro |-> Macro(p.bars)]
Capture(l) ==
    /\ pred[l].at = "capture"
    /\ \/ To(l, "done", [stored |-> build_obs_components(pred[l],
                                        _intermarket_snapshot_for(l.symbol, FALSE))])
       \/ To(l, "done", <<>>)
    /\ UNCHANGED <<minds, world, stats, memo, predictions, moves, faults>>

\* load_from_shadow_trades: the observation rebuilt for training. (A mutant:
\* the first eight of the nine stored.)
MUT_rebuilt(stored) ==
    Observation(SubSeq(stored.layer_scores, 1, 8),
                MarketFeatures(stored.atr, stored.intermarket, stored.regime), stored.macro)
rebuilt(stored) ==
    Observation(SubSeq(stored.layer_scores, 1, 6) \o SubSeq(stored.layer_scores, 8, 9),
                MarketFeatures(stored.atr, stored.intermarket, stored.regime), stored.macro)
\* A trade without a stored observation: its layers, from the trade's own row.
_layer_scores_to_tuple(layers) ==
    LET value(v) == v.dir * Known(v.strength) * (IF v = NONE THEN 0 ELSE Known(v.confidence))
    IN [k \in 1..8 |-> value(layers[IF k < 7 THEN k ELSE k + 1])]

-----------------------------------------------------------------------------
(* The world moves.                                                          *)

Moved == moves < MaxMoves /\ moves' = moves + 1
Snapshot ==
    /\ Moved /\ \E m \in [funding : Fundings, oi : Deltas] : m # market /\ market' = m
    /\ pred' = Stale
    /\ UNCHANGED <<minds, record, mood, news, files, memo, stats, predictions, faults>>
Headlines ==
    /\ Moved /\ \E n \in NewsItems : n # news /\ news' = n
    /\ UNCHANGED <<minds, record, market, mood, files, memo, stats, pred, predictions, faults>>
Regime ==
    /\ Moved /\ \E r \in {"bull", "bear", "neutral"} : r # mood /\ mood' = r
    /\ pred' = Stale
    /\ UNCHANGED <<minds, record, market, news, files, memo, stats, predictions, faults>>
\* The row of pattern_stats is updated; no cache hears of it.
Learn ==
    /\ Moved /\ \E row \in Records : row # record /\ record' = row
    /\ UNCHANGED <<minds, market, mood, news, files, memo, stats, pred, predictions, faults>>
\* load_active_checkpoint: at boot, or hot.
Load(c) ==
    /\ Moved /\ brain # c /\ brain' = c
    /\ UNCHANGED <<table, history, world, stats, memo, pred, predictions, faults>>
\* (A mutant: the refitted model is written but not put into memory.)
MUT_Refit(d) ==
    /\ Moved
    /\ \/ files' = [files EXCEPT ![d] = "good"] /\ Fine
       \/ files' = [files EXCEPT ![d] = "torn"] /\ Fault
    /\ UNCHANGED <<minds, record, market, mood, news, stats, memo, pred, predictions>>
\* The file is opened for writing, so emptied, before the model is pickled.
Refit(d) ==
    /\ Moved
    /\ \/ files' = [files EXCEPT ![d] = "good"] /\ memo' = [memo EXCEPT ![d] = "model"] /\ Fine
       \/ files' = [files EXCEPT ![d] = "torn"] /\ Fault /\ UNCHANGED memo
    /\ UNCHANGED <<minds, record, market, mood, news, stats, pred, predictions>>
Restart ==
    /\ Fault
    /\ brain' = None /\ table' = None
    /\ history' = [s \in DOMAIN history |-> <<>>]
    /\ stats' = [l \in Lanes |-> Missing]
    /\ mood' = None /\ memo' = [d \in Directions |-> "unread"]
    /\ pred' = [l \in Lanes |-> Idle]
    /\ UNCHANGED <<record, market, news, files, predictions, moves>>

Next ==
    \/ \E l \in Lanes : \/ \E r \in Readings : Begin(l, r)
                        \/ News(l) \/ Context(l) \/ Brain(l) \/ Record(l) \/ Finish(l) \/ Capture(l)
    \/ Snapshot \/ Headlines \/ Regime \/ Learn \/ Restart
    \/ \E c \in Checkpoints : Load(c)
    \/ \E d \in Directions : Refit(d)

Spec == Init /\ [][Next]_vars

-----------------------------------------------------------------------------
(* Properties.                                                               *)

\* Types: lanes are at known stages, and memories are of known things.
TypeOK ==
    /\ \A l \in Lanes :
           pred[l].at \in {"idle", "news", "context", "brain", "record", "finish", "capture", "done"}
    /\ brain \in Checkpoints \union {None} /\ table \in Checkpoints \union {None, "random"}
    /\ \A s \in DOMAIN history : Len(history[s]) <= 3
    /\ files \in [Directions -> {"none", "good", "torn"}]
    /\ memo \in [Directions -> {"unread", "none", "model"}]
    /\ predictions \in 0..MaxPredictions /\ moves \in 0..MaxMoves /\ faults \in 0..MaxFaults

Finished(p) == p.at \in {"capture", "done"}
\* Traps and the brain only argue for or against what the layers proposed: the
\* direction traded is the one the traps were checked for, the score grows by
\* 15 per cent at most, and only when the smoothed action is on its side; the
\* stop lies against the trade, the target with it, twice as far.
FinalFollowsProposal ==
    \A l \in Lanes : LET p == pred[l] IN Finished(p) =>
        /\ p.final.dir \in {0, p.proposed.dir}
        /\ 1000 * Abs(p.final.score) <= 1150 * Abs(p.proposed.score)
        /\ Abs(p.final.score) > Abs(p.proposed.score) =>
               p.raw # None /\ SideOf(p.smoothed) = p.proposed.dir
        /\ p.setup.stop # Missing => /\ p.setup.stop * p.final.dir < 0
                                     /\ p.setup.target = -2 * p.setup.stop

\* What the brain will be trained on is what it was shown, unless the market or
\* the regime moved in between, or a read failed.
TrainSeesServed ==
    \A l \in Lanes : LET p == pred[l] IN
        /\ "stored" \in DOMAIN p /\ ~p.moved /\ ~p.broken => rebuilt(p.stored) = p.served
        /\ Finished(p) => _layer_scores_to_tuple(p.layers) = p.served.scores

\* The funding rate recorded with a prediction is the one its traps saw, where
\* the lane spells the symbol as the table does and nothing moved or failed.
ReadsAgree ==
    \A l \in Lanes : LET p == pred[l] IN
        Finished(p) /\ l.symbol = Native /\ ~p.moved /\ ~p.broken =>
            p.fields.funding = p.seen.funding

\* "No model" is remembered only while there is no good model's file: one that
\* a refit has written is used from then on.
SentinelHonest == \A d \in Directions : memo[d] = "none" => files[d] # "good"
=============================================================================
