----------------------------- MODULE MCSignals ------------------------------
(* Histories for the pattern library: a flat or a trending market to which  *)
(* legs of ten bars or single bars are added, and portraits, one for every  *)
(* formation that these do not draw. A history has the 201 bars the longest *)
(* lookback needs; prices move around 1000.                                 *)
EXTENDS PatternLibrary, Layers

CONSTANTS
    MaxLegs,    \* legs that follow a flat market
    MaxBars     \* single bars that follow a market

VARIABLES
    story,  \* what the market was, and the legs and bars that came since
    bars    \* the history, a sequence of bars

vars == <<story, bars>>

N == 201
Mid == 1000

OneBar(o, c, up, down, v) ==
    [o |-> o, c |-> c, h |-> Top(<<o, c>>) + up, l |-> Bottom(<<o, c>>) - down, v |-> v]
\* n bars from one price to another.
Walk(from, to, n, wick) ==
    [i \in 1..n |-> LET at(j) == from + Quot((to - from) * j, n)
                    IN OneBar(at(i - 1), at(i), wick, wick, 10)]
Latest(s) == SubSeq(s, Len(s) - N + 1, Len(s))
Flat == Walk(Mid, Mid, N, 2)
\* Legs <<price, bars, wick>> after a flat market.
Drawn(legs) ==
    LET upTo[k \in 0..Len(legs)] ==
            IF k = 0 THEN Flat
            ELSE LET before == upTo[k - 1]
                 IN before \o Walk(before[Len(before)].c, legs[k][1], legs[k][2], legs[k][3])
    IN Latest(upTo[Len(legs)])

Rise == Drawn(<< <<1100, 50, 2>> >>)
Portraits ==
    [v |-> << <<1000, 20, 2>>, <<1075, 15, 2>>, <<1000, 15, 2>> >>,
     diamond |-> << <<1004, 10, 2>>, <<996, 10, 8>>, <<1004, 10, 16>>, <<996, 10, 24>>,
                    <<1004, 10, 24>>, <<996, 10, 16>>, <<1004, 10, 8>>, <<1000, 10, 2>> >>,
     cup |-> << <<970, 20, 2>>, <<945, 20, 2>>, <<970, 20, 2>>, <<1000, 20, 2>>,
                <<985, 12, 2>>, <<1006, 9, 2>> >>,
     flag |-> << <<1090, 15, 2>>, <<1080, 8, 2>>, <<1075, 8, 2>> >>,
     pennant |-> << <<1090, 15, 2>>, <<1080, 4, 8>>, <<1084, 4, 5>>, <<1082, 4, 3>>, <<1083, 4, 1>> >>,
     drives |-> << <<1040, 10, 2>>, <<1010, 10, 2>>, <<1060, 10, 2>>, <<1030, 10, 2>>,
                   <<1080, 10, 2>>, <<1060, 5, 2>> >>,
     wedge |-> << <<1040, 10, 2>>, <<1000, 10, 2>>, <<1050, 10, 2>>, <<1025, 10, 2>>,
                  <<1060, 10, 2>>, <<1045, 6, 2>> >>,
     expanding |-> << <<1020, 10, 2>>, <<985, 10, 2>>, <<1035, 10, 2>>, <<970, 10, 2>>,
                      <<1050, 10, 2>>, <<955, 10, 2>>, <<1000, 6, 2>> >>,
     abcd |-> << <<1040, 10, 2>>, <<1000, 10, 2>>, <<1060, 10, 2>>, <<1020, 10, 2>>, <<1040, 5, 2>> >>,
     triangle |-> << <<1040, 8, 2>>, <<960, 8, 2>>, <<1040, 8, 2>>, <<980, 8, 2>>,
                     <<1040, 8, 2>>, <<1020, 4, 2>>, <<1050, 3, 2>> >>,
     symmetrical |-> << <<1040, 8, 2>>, <<960, 8, 2>>, <<1030, 8, 2>>, <<970, 8, 2>>,
                        <<1020, 8, 2>>, <<1010, 4, 2>> >>,
     rectangle |-> << <<1100, 20, 2>>, <<1095, 10, 2>>, <<1100, 10, 2>>, <<1095, 10, 2>>, <<1100, 11, 2>> >>,
     bump |-> << <<1020, 50, 2>>, <<1110, 45, 2>>, <<1040, 6, 2>> >>,
     round |-> << <<1036, 12, 2>>, <<1060, 14, 2>>, <<1068, 14, 2>>, <<1060, 14, 2>>, <<1036, 14, 2>>, <<1000, 12, 2>> >>,
     double |-> << <<1040, 12, 2>>, <<1010, 12, 2>>, <<1040, 12, 2>>, <<1000, 12, 2>> >>,
     block |-> << <<1030, 1, 2>>, <<1012, 8, 2>> >>,
     sweep |-> << <<1020, 8, 2>>, <<1005, 6, 2>>, <<1018, 5, 2>>, <<1016, 1, 12>> >>,
     gartley |-> << <<950, 20, 2>>, <<1100, 15, 2>>, <<1007, 12, 2>>,
                    <<1070, 12, 2>>, <<982, 12, 2>>, <<1000, 5, 2>> >>]

\* Single bars: the open against the close before, the body, the upper and the
\* lower wick, the volume.
Big == <<0, 16, 2, 2, 40>>
GapUp == <<12, 4, 2, 2, 40>>
Small == <<0, 4, 2, 2, 10>>
Kinds == {Big, GapUp, Small, <<0, 1, 12, 0, 10>>, <<12, -30, 2, 2, 40>>, <<-20, -4, 2, 2, 10>>,
          <<0, -16, 2, 2, 40>>, <<-2, 0, 2, 2, 10>>, <<0, -18, 2, 30, 40>>}
After(s, b) ==
    LET last == s[Len(s)].c
    IN Latest(Append(s, OneBar(last + b[1], last + b[1] + b[2], b[3], b[4], b[5])))

\* A gap up, and later a gap down below it.
Island ==
    LET up == After(Flat, GapUp)
    IN After(Latest(up \o Walk(up[N].c, up[N].c + 1, 6, 2)), <<-20, -4, 2, 2, 10>>)

Init ==
    \/ story = <<"island">> /\ bars = Island
    \/ story = <<"flat">> /\ bars = Flat
    \/ story = <<"rise">> /\ bars = Rise
    \/ \E name \in DOMAIN Portraits : story = <<"portrait", name>> /\ bars = Drawn(Portraits[name])

Zigzag(n) == IF n % 2 = 0 THEN {1020, 1060} ELSE {940, 980}
LegArrives ==
    /\ story[1] = "flat" /\ Len(story) <= MaxLegs
    /\ \E price \in Zigzag(Len(story)) :
         /\ story' = Append(story, price)
         /\ bars' = Latest(bars \o Walk(bars[N].c, price, 10, 2))
BarArrives ==
    /\ story = <<"flat">> \/ story[1] \in {"rise", "bars"}
    /\ Len(story) <= MaxBars
    /\ \E b \in IF Len(story) = 1 THEN {Big, GapUp, Small} ELSE Kinds :
         /\ story' = <<"bars">> \o Tail(story) \o <<b>>
         /\ bars' = After(bars, b)
Next == LegArrives \/ BarArrives
Spec == Init /\ [][Next]_vars

-----------------------------------------------------------------------------
Series(s, f) == [i \in 1..N |-> s[i][f]]
History(s) ==
    LET w == [o |-> Series(s, "o"), h |-> Series(s, "h"), l |-> Series(s, "l"),
              c |-> Series(s, "c"), v |-> Series(s, "v"), tr |-> 0]
    IN [w EXCEPT !.tr = recent_atr(w)]
\* The history upside down.
Mirror(s) ==
    [i \in 1..N |-> [o |-> 2 * Mid - s[i].o, c |-> 2 * Mid - s[i].c,
                     h |-> 2 * Mid - s[i].l, l |-> 2 * Mid - s[i].h, v |-> s[i].v]]

\* Thresholds in per cent of the price itself, and a fork drawn from peaks only.
Lopsided == {"bump_and_run", "rejection_wick", "fibonacci_retracement_50",
             "fibonacci_retracement_618", "andrews_pitchfork"}
Called(v) == {call \in (DOMAIN v) \X {"LONG", "SHORT"} :
                v[call[1]][call[2]] /\ v[call[1]].name \notin Lopsided}
Turned(calls) == {<<call[1], IF call[2] = "LONG" THEN "SHORT" ELSE "LONG">> : call \in calls}
Twins(called) == called[-1] = Turned(called[1])

\* Formations come in twins, a bearish and a bullish one, and the second was
\* written by turning every sign, comparison and extremum of the first: a history
\* turned upside down must be called the other way by every one of them.
TwinsMirror ==
    Twins([side \in {1, -1} |-> Called(Verdicts(History(IF side = 1 THEN bars ELSE Mirror(bars))))])

\* The same of the twins that compare differences of prices alone: candles, gaps,
\* breakouts of a range, flags, channels, rounding tops. For them nothing is near a
\* threshold on one side only.
PriceTwinsMirror ==
    Twins([side \in {1, -1} |->
             Called(PriceVerdicts(History(IF side = 1 THEN bars ELSE Mirror(bars))))])

\* The first and the last of five alternating pivots are of one kind, and the
\* harmonic detectors ask for two: they never fire, whatever the legs. (One
\* portrait has the legs of a Gartley.)
HarmonicsStaySilent ==
    LET p == find_xabcd_pivots(History(bars), 80)
    IN \A name \in {"gartley", "bat", "butterfly", "crab"}, dir \in {"LONG", "SHORT"} :
            ~HarmonicOn(p, name, dir)

\* The last 100 bars, for the indicators, and the same on a slope, on which a price
\* that stays is rare.
Recent(w) == [o |-> LastOf(w.o, 99), h |-> LastOf(w.h, 99), l |-> LastOf(w.l, 99),
              c |-> LastOf(w.c, 99), v |-> LastOf(w.v, 99)]
Tilted(w, side) == LET up(s) == Each(100, LAMBDA i : s[i] + side * i)
                   IN [o |-> up(w.o), h |-> up(w.h), l |-> up(w.l), c |-> up(w.c), v |-> w.v]
Prices(w, c) ==
    [sma |-> sma(c, 20), dema |-> dema(c), tema |-> tema(c), hull |-> hull_ma(c), vwap |-> vwap(w)]
\* What has the opposite sign, and what changes place with another.
Oscillators(w, tilted, m) ==
    [line |-> Now(m.line), hist |-> Now(m.hist), awesome |-> awesome_oscillator(w), dpo |-> dpo(w),
     tsi |-> tsi(w), roc |-> Sign(roc(w)), obv |-> obv(w), force |-> force_index(w),
     flow |-> chaikin_money_flow(w), ease |-> ease_of_movement(w), kvo |-> kvo(tilted),
     rsi |-> rsi(w.c) - 5000, williams |-> williams_r(w) + 5000]
Indices(w, tilted) ==
    [prices |-> Prices(w, Milli(w.c)), swings |-> Oscillators(w, tilted, macd(Milli(w.c))),
     donchian |-> donchian(w), ichimoku |-> ichimoku(w), keltner |-> keltner(w),
     same |-> <<bollinger(w).variance, mass_index(w)>>, aroon |-> aroon(w), vortex |-> vortex(w),
     moves |-> Total([i \in 1..99 |-> Abs(w.c[i + 1] - w.c[i])]),
     stays |-> \E i \in 2..100 : tilted.h[i] + tilted.l[i] + tilted.c[i]
                                   = tilted.h[i - 1] + tilted.l[i - 1] + tilted.c[i - 1]]
Opposed(x, y) == Abs(x + y) <= 3
OppositePrice(x, y) == Opposed(x - 1000 * Mid, y - 1000 * Mid)
IndicatorsMirror(a, b) ==
    /\ \A line \in DOMAIN a.prices : OppositePrice(a.prices[line], b.prices[line])
    /\ \A line \in DOMAIN a.ichimoku : OppositePrice(a.ichimoku[line], b.ichimoku[line])
    /\ \A bands \in {"donchian", "keltner"} :
          /\ a[bands].lower <= a[bands].middle /\ a[bands].middle <= a[bands].upper
          /\ OppositePrice(a[bands].upper, b[bands].lower) /\ OppositePrice(a[bands].lower, b[bands].upper)
    /\ \A index \in DOMAIN a.swings :
          \/ Opposed(a.swings[index], b.swings[index])
          \/ index = "kvo" /\ a.stays
          \/ index = "rsi" /\ a.moves = 0
    /\ a.same = b.same
    /\ a.aroon.up = b.aroon.down /\ a.vortex.up = b.vortex.down
    /\ \A index \in {"tsi", "rsi", "williams", "flow"} : Abs(a.swings[index]) <= 10000

OppositeVote(x, y) ==
    x.dir = -y.dir /\ Abs(x.strength - y.strength) <= 1 /\ x.confidence = y.confidence
Quiet == [news |-> -1, weekday |-> 1, hour |-> 3, btc |-> -1, funding |-> 0, oi |-> 0, borrow |-> -1]
\* Half a per cent of the price itself is not the same above and below.
Warnings(w, side) ==
    [with |-> Fires(w, side, side, Quiet) \ {"price_extreme"},
     against |-> Fires(w, -side, -side, Quiet) \ {"price_extreme"}]
Readings(w, side) ==
    [layers |-> <<layer1_macro(w.c), layer3_momentum(w.c), layer5_volume(w)>>, votes |-> SmcVotes(w),
     timeframe |-> _vote_for_tf(Recent(w)), warnings |-> Warnings(w, side),
     indices |-> Indices(Recent(w), Tilted(Recent(w), side))]
Opposites(a, b) ==
    /\ \A i \in 1..3 : OppositeVote(a.layers[i], b.layers[i])
    /\ \A i \in 1..5 : \/ a.votes[i] = -b.votes[i]
                       \/ i = 1 /\ <<a.votes[i], b.votes[i]>> = <<1, 1>>
                       \/ i \in {2, 5} /\ <<a.votes[i], b.votes[i]>> = <<-1, -1>>
    /\ a.timeframe.adx = b.timeframe.adx /\ a.timeframe.adx \in 0..10000
    /\ a.timeframe.vote = -b.timeframe.vote \/ Abs(a.timeframe.gap) <= 3
    /\ a.warnings = b.warnings
    /\ IndicatorsMirror(a.indices, b.indices)
BothRead(readings) == LET a == readings[1]  b == readings[-1] IN Opposites(a, b)

\* What votes for a side votes as strongly for the other one on the history turned
\* upside down, and the traps that warn of buying warn of selling: nothing in the
\* layers, the traps and the indicators favours a side. A market that does not
\* move is the exception (its RSI is 100), and three of the smart-money votes, where
\* both sides have a case: a break counts upward, a change of character and a
\* sweep downward.
SidesScoredAlike ==
    story # <<"flat">> =>
        BothRead([side \in {1, -1} |->
                    Readings(History(IF side = 1 THEN bars ELSE Mirror(bars)), side)])

\* Both: whatever is read off an overturned history favours the other side as much.
NoSideFavoured == TwinsMirror /\ SidesScoredAlike
=============================================================================
