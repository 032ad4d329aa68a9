------------------------------- MODULE Layers -------------------------------
(* What the scoring layers that read bars vote, and the traps that argue    *)
(* against a proposed direction. A layer's score is a record of dir (1 to   *)
(* buy, -1 to sell, 0 neither) and of strength and confidence in per cent;  *)
(* NONE where the layer has nothing to say. A trap is named when it fires.  *)
EXTENDS Indicators

LOCAL Sets == INSTANCE FiniteSetsExt
LOCAL Seqs == INSTANCE SequencesExt

Vote(dir, strength, confidence) == [dir |-> dir, strength |-> strength, confidence |-> confidence]
NONE == Vote(0, 0, -1)
Sign(x) == CASE x > 0 -> 1 [] x < 0 -> -1 [] OTHER -> 0
AtMost(x, bound) == IF x < bound THEN x ELSE bound

-----------------------------------------------------------------------------
(* Layers 1, 3, 4 and 5.                                                     *)

\* The order of the close and its means of 20, 50 and 200 bars.
layer1_macro(c) ==
    LET scaled == Milli(c)
        now == Now(scaled)
        e20 == Now(ema(scaled, 20))  e50 == Now(ema(scaled, 50))  e200 == Now(ema(scaled, 200))
    IN IF Len(c) < 200 THEN NONE ELSE
       CASE now > e20 /\ e20 > e50 /\ e50 > e200 -> Vote(1, 90, 85)
         [] now < e20 /\ e20 < e50 /\ e50 < e200 -> Vote(-1, 90, 85)
         [] OTHER -> IF now = e200 THEN Vote(0, 0, 40) ELSE Vote(Sign(now - e200), 50, 60)

\* The histogram counts against its median over 50 bars.
layer3_momentum(c) ==
    LET index == rsi(c)
        all == macd(Milli(c)).hist
        n == AtMost(50, Len(all))
        sizes == Seqs!SortSeq([i \in 1..n |-> Abs(Ago(all, i - 1))], LAMBDA x, y : x < y)
        median == sizes[(n + 1) \div 2] + sizes[(n + 2) \div 2]
        size == IF median = 0 THEN 100 * Sign(Abs(Now(all)))
                ELSE AtMost((200 * Abs(Now(all))) \div median, 100)
        strength(i) == AtMost((14 * i * size) \div 100000, 100)
    IN CASE Len(c) < 50 -> NONE
         [] Len(c) >= 50 /\ index > 6000 /\ Now(all) >= 0 -> Vote(1, strength(index), 75)
         [] Len(c) >= 50 /\ index < 4000 /\ Now(all) <= 0 -> Vote(-1, strength(10000 - index), 75)
         [] OTHER -> Vote(0, 0, 40)

\* Smart money: a level broken, a trend changing character, a block revisited,
\* a gap of fair value, liquidity swept. The upper side is asked first.
\* (The prominence asked for is less than one price unit: every swing has it.)
Crests(s) == At(s, find_swing_highs(s, 0, 3))
Troughs(s) == At(s, find_swing_lows(s, 0, 3))
Levels(w, k) == [highs |-> Crests(Before(w.h, k)), lows |-> Troughs(Before(w.l, k))]
bos_vote(w) ==
    LET now == Now(w.c)
        levels == Levels(w, 59)  highs == levels.highs  lows == levels.lows
        prior == Before(w.c, 20)
    IN CASE highs # <<>> /\ now > Seqs!Last(highs) -> 1
         [] (highs = <<>> \/ now <= Seqs!Last(highs)) /\ lows # <<>> /\ now < Seqs!Last(lows) -> -1
         [] OTHER -> CASE now > Top(prior) -> 1 [] now < Bottom(prior) -> -1 [] OTHER -> 0
choch_vote(w) ==
    LET highs == Crests(LastOf(w.c, 59))  lows == Troughs(LastOf(w.c, 59))
        lower == Len(highs) >= 2 /\ Now(highs) < Ago(highs, 1)
        higher == Len(lows) >= 2 /\ Now(lows) > Ago(lows, 1)
    IN CASE lower -> -1 [] ~lower /\ higher -> 1 [] OTHER -> 0
\* (A mutant: any body that holds the price is resistance.)
MUT_order_block_vote(w) ==
    LET at == {k \in 4..23 : /\ 140 * Abs(Ago(w.c, k) - Ago(w.o, k)) >= 15 * w.tr
                             /\ Bottom(<<Ago(w.o, k), Ago(w.c, k)>>) <= Now(w.c)
                             /\ Now(w.c) <= Top(<<Ago(w.o, k), Ago(w.c, k)>>)}
    IN IF w.tr = 0 \/ at = {} THEN 0 ELSE -1
\* The latest body of 1.5 mean ranges, 4 to 23 bars old, that holds the price.
order_block_vote(w) ==
    LET big(k) == 10 * Abs(Ago(w.c, k) - Ago(w.o, k)) * 14 >= 15 * w.tr
        holds(k) == /\ Bottom(<<Ago(w.o, k), Ago(w.c, k)>>) <= Now(w.c)
                    /\ Now(w.c) <= Top(<<Ago(w.o, k), Ago(w.c, k)>>)
        at == {k \in 4..23 : big(k) /\ holds(k)}
    IN IF w.tr = 0 \/ at = {} THEN 0
       ELSE IF Ago(w.c, Sets!Min(at)) < Ago(w.o, Sets!Min(at)) THEN 1 ELSE -1
fvg_vote(w) ==
    CASE Ago(w.h, 2) < Now(w.l) -> 1 [] Ago(w.l, 2) > Now(w.h) -> -1 [] OTHER -> 0
liquidity_sweep_vote(w) ==
    LET levels == Levels(w, 20)  highs == levels.highs  lows == levels.lows
        above == highs # <<>> /\ Now(w.h) > Seqs!Last(highs) /\ Now(w.c) < Seqs!Last(highs)
        below == lows # <<>> /\ Now(w.l) < Seqs!Last(lows) /\ Now(w.c) > Seqs!Last(lows)
    IN CASE above -> -1 [] ~above /\ below -> 1 [] OTHER -> 0
\* tanh of a third of the sum, in per cent.
Squashed == <<32, 58, 76, 87, 93>>
SmcVotes(w) ==
    <<bos_vote(w), choch_vote(w), order_block_vote(w), fvg_vote(w), liquidity_sweep_vote(w)>>
layer4_smc(w) ==
    LET votes == SmcVotes(w)
        raw == Total(votes)
        active == Len(SelectSeq(votes, LAMBDA v : v # 0))
    IN Vote(Sign(raw), IF raw = 0 THEN 0 ELSE Squashed[Abs(raw)], AtMost(50 + 10 * active, 90))

layer5_volume(w) ==
    LET past == Total(Before(w.v, 20))
        ratio == (2000 * Now(w.v)) \div past
        side == Sign(Now(w.c) - Now(w.o))
    IN CASE past <= 0 -> NONE
         [] past > 0 /\ 20 * Now(w.v) > 2 * past /\ side # 0 -> Vote(side, AtMost(ratio \div 3, 100), 70)
         [] OTHER -> Vote(0, 0, IF 40 * Now(w.v) < past THEN 50 ELSE 60)

-----------------------------------------------------------------------------
(* The traps. `dir` is the proposed direction, `l2` the direction of the    *)
(* pattern layer, ctx what is known beyond the bars: minutes to the next    *)
(* news event, weekday and hour of the bar, btc the range of BTC in         *)
(* hundredths of a per cent (-1: unknown; an alt is traded), funding and oi *)
(* in hundredths of a per cent, borrow in per cent, -1 if unknown.          *)

Run3(w, dir) == \A k \in 0..2 : dir * (Ago(w.c, k) - Ago(w.o, k)) > 0
Bodies3(w) == Total([k \in 1..3 |-> Abs(Ago(w.c, k - 1) - Ago(w.o, k - 1))])
pre_news_event(ctx) == ctx.news >= 0 /\ ctx.news < 60
liquidity_sweep(w, dir) ==
    LET levels == Levels(w, 20)  highs == levels.highs  lows == levels.lows
    IN /\ w.tr > 0
       /\ \/ dir = 1 /\ highs # <<>> /\ 14 * (Now(w.h) - Seqs!Last(highs)) >= w.tr
          \/ dir = -1 /\ lows # <<>> /\ 14 * (Seqs!Last(lows) - Now(w.l)) >= w.tr
\* (A mutant: a run of rising bars warns of both directions.)
MUT_parabolic_blowoff(w, dir) == w.tr > 0 /\ dir # 0 /\ Run3(w, 1) /\ 28 * Bodies3(w) >= 9 * w.tr
parabolic_blowoff(w, dir) == w.tr > 0 /\ dir # 0 /\ Run3(w, dir) /\ 28 * Bodies3(w) >= 9 * w.tr
friday_weekend(ctx) == ctx.weekday \in {5, 6} \/ (ctx.weekday = 4 /\ ctx.hour >= 20)
\* The slope of a mean over a week of hours has the sign of what the last close
\* differs from that mean before it.
counter_weekly(c, dir) ==
    LET slope == 1000 * Now(c) - ExpMean(c[1], SubSeq(c, 2, Len(c) - 1), 167, 169)
    IN Len(c) > 168 /\ dir # 0 /\ slope # 0 /\ Sign(slope) # dir
all_indicator_extreme(c, dir) ==
    \/ dir = 1 /\ rsi(c) > 8000
    \/ dir = -1 /\ rsi(c) < 2000
alt_btc_indecision(ctx) == ctx.btc >= 0 /\ ctx.btc < 50
volume_no_followthrough(w, dir) ==
    LET body(k) == Abs(Ago(w.c, k) - Ago(w.o, k))
        past == Total(SubSeq(w.v, Len(w.v) - 21, Len(w.v) - 2))
    IN /\ dir # 0 /\ past > 0 /\ 20 * Ago(w.v, 1) >= 2 * past
       /\ body(1) > 0 /\ 10 * body(0) <= 3 * body(1)
pattern_in_pattern(w, dir, l2) ==
    /\ dir # 0 /\ l2 = dir
    /\ \E k \in 1..5 : Ago(w.h, k) > Now(w.h) /\ Ago(w.l, k) < Now(w.l)
thin_orderbook(w, ctx) ==
    \/ ctx.borrow >= 5
    \/ /\ Len(w.v) >= 744
       /\ LET hist == Seqs!SortSeq(LastOf(w.v, 719), LAMBDA x, y : x < y)
              median == hist[360] + hist[361]
          IN median > 0 /\ 4 * Total(LastOf(w.v, 23)) <= 24 * median
price_extreme(w, dir) ==
    LET top == Top(LastOf(w.h, 199))  bottom == Bottom(LastOf(w.l, 199))
    IN /\ Len(w.c) > 200
       /\ \/ dir = 1 /\ 200 * (top - Now(w.c)) <= top
          \/ dir = -1 /\ 200 * (Now(w.c) - bottom) <= bottom
\* recent_atr of the bar k bars ago, times 14.
RecentAtr(w, k) ==
    recent_atr([h |-> SubSeq(w.h, 1, Len(w.h) - k), l |-> SubSeq(w.l, 1, Len(w.l) - k),
                c |-> SubSeq(w.c, 1, Len(w.c) - k)])
volatility_regime_change(w) ==
    LET past == SelectSeq([k \in 1..50 |-> RecentAtr(w, k)], LAMBDA a : a > 0)
    IN w.tr > 0 /\ past # <<>> /\ Len(past) * w.tr >= 2 * Total(past)

\* Of shorts only.
short_squeeze_cascade(w, dir, ctx) ==
    dir = -1 /\ ctx.oi > 2000 /\ w.tr > 0 /\ Run3(w, 1) /\ 14 * Bodies3(w) > 3 * w.tr
funding_rate_decay(dir, ctx) == dir = -1 /\ ctx.funding < -10
borrow_rate(dir, ctx) == dir = -1 /\ ctx.borrow > 50
unlimited_upside_risk(w, dir) ==
    /\ dir = -1 /\ Len(w.h) > 365
    /\ LET top == Top(LastOf(w.h, 364)) IN 50 * (top - Now(w.c)) <= top

\* check_all_traps: the traps that fire.
Fires(w, dir, l2, ctx) ==
    LET fired(name, fires) == IF fires THEN {name} ELSE {}
    IN UNION {fired("pre_news_event", pre_news_event(ctx)),
              fired("liquidity_sweep", liquidity_sweep(w, dir)),
              fired("parabolic_blowoff", parabolic_blowoff(w, dir)),
              fired("friday_weekend", friday_weekend(ctx)),
              fired("counter_weekly", counter_weekly(w.c, dir)),
              fired("all_indicator_extreme", all_indicator_extreme(w.c, dir)),
              fired("alt_btc_indecision", alt_btc_indecision(ctx)),
              fired("volume_no_followthrough", volume_no_followthrough(w, dir)),
              fired("pattern_in_pattern", pattern_in_pattern(w, dir, l2)),
              fired("thin_orderbook", thin_orderbook(w, ctx)),
              fired("price_extreme", price_extreme(w, dir)),
              fired("volatility_regime_change", volatility_regime_change(w)),
              fired("short_squeeze_cascade", short_squeeze_cascade(w, dir, ctx)),
              fired("funding_rate_decay", funding_rate_decay(dir, ctx)),
              fired("borrow_rate", borrow_rate(dir, ctx)),
              fired("unlimited_upside_risk", unlimited_upside_risk(w, dir))}
-----------------------------------------------------------------------------
(* The vote of one timeframe's candles (mtf_confluence.py).                  *)

\* _ema starts at the first value.
_ema(s, period) == Scan(Len(s), s[1], LAMBDA last, i : last + Quot(2 * (s[i] - last), period + 1))
\* _adx, in hundredths: how far the smoothed moves agree.
_adx(w) ==
    LET n == Len(w.c) - 1
        up(i) == w.h[i + 1] - w.h[i]
        down(i) == w.l[i] - w.l[i + 1]
        smooth(s) == _ema(Milli(s), 14)
        range == smooth(TrueRanges(w))
        plus == smooth(Each(n, LAMBDA i : IF up(i) > down(i) THEN Top(<<up(i), 0>>) ELSE 0))
        minus == smooth(Each(n, LAMBDA i : IF down(i) > up(i) THEN Top(<<down(i), 0>>) ELSE 0))
        di(s, i) == Share(s[i], IF range[i] = 0 THEN 1000 ELSE range[i], 10000)
        dx(i) == LET both == di(plus, i) + di(minus, i)
                 IN IF both = 0 THEN 0 ELSE Share(Abs(di(plus, i) - di(minus, i)), both, 10000)
    IN Now(_ema(Each(n, dx), 14))
\* _vote_for_tf: the side of the short average, in a market that trends.
_vote_for_tf(w) ==
    LET gap == Now(_ema(Milli(w.c), 20)) - Now(_ema(Milli(w.c), 50))
        adx == _adx(w)
    IN IF Len(w.c) < 50 THEN [vote |-> 0, adx |-> 0, gap |-> 0]
       ELSE [vote |-> IF adx < 2000 THEN 0 ELSE Sign(gap), adx |-> adx, gap |-> gap]
=============================================================================
