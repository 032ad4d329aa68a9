---------------------------- MODULE BarPatterns -----------------------------
(* The patterns that read the last few bars against their recent past: the  *)
(* hand-written candle patterns, gaps, key reversals and climaxes. Same     *)
(* conventions as ShapePatterns.                                            *)
EXTENDS Bars

Bar(w, k) == [o |-> Ago(w.o, k), h |-> Ago(w.h, k), l |-> Ago(w.l, k), c |-> Ago(w.c, k)]
is_bullish(b) == b.c > b.o
is_bearish(b) == b.c < b.o
body_size(b) == Abs(b.c - b.o)
upper_wick(b) == b.h - Top(<<b.o, b.c>>)
lower_wick(b) == Bottom(<<b.o, b.c>>) - b.l
BarRange(b) == b.h - b.l
Inside(b, a) == b.h <= a.h /\ b.l >= a.l
\* The volume of the current bar is at least `tenths` of the mean of the k before.
VolumeAbove(w, k, tenths) ==
    LET past == Total(Before(w.v, k)) IN past > 0 /\ 10 * k * Now(w.v) >= tenths * past

BearishKickerVolume(w) ==
    /\ is_bullish(Bar(w, 1)) /\ is_bearish(Bar(w, 0))
    /\ Bar(w, 0).o <= Bar(w, 1).o /\ VolumeAbove(w, 20, 20)
BullishKickerVolume(w) ==
    /\ is_bearish(Bar(w, 1)) /\ is_bullish(Bar(w, 0))
    /\ Bar(w, 0).o >= Bar(w, 1).o /\ VolumeAbove(w, 20, 20)

\* Named after the gap, not after the trade: the filled gap up is sold.
GapFillReversalLong(w) == Bar(w, 0).o > Bar(w, 1).h /\ Bar(w, 0).c < Bar(w, 1).c
GapFillReversalShort(w) == Bar(w, 0).o < Bar(w, 1).l /\ Bar(w, 0).c > Bar(w, 1).c

InsideBarBreakoutLong(w) == Inside(Bar(w, 1), Bar(w, 2)) /\ Bar(w, 0).c > Bar(w, 2).h
InsideBarBreakoutShort(w) == Inside(Bar(w, 1), Bar(w, 2)) /\ Bar(w, 0).c < Bar(w, 2).l

\* A doji of at most half the range of the bar it lies in.
InsideDoji(w) ==
    LET cur == Bar(w, 0)  prev == Bar(w, 1)
    IN /\ Inside(cur, prev) /\ BarRange(cur) > 0 /\ BarRange(prev) >= 2 * BarRange(cur)
       /\ 10 * body_size(cur) <= BarRange(cur)
\* Within half a per cent of the extreme of the last k bars before the current.
NearHigh(w, p, k) == LET s == Top(Before(w.h, k)) IN s > 0 /\ 200 * Abs(p - s) <= s
NearLow(w, p, k) == LET s == Bottom(Before(w.l, k)) IN s > 0 /\ 200 * Abs(p - s) <= s
InsideDojiAtSwingHigh(w) == InsideDoji(w) /\ NearHigh(w, Bar(w, 1).h, 20)
InsideDojiAtSwingLow(w) == InsideDoji(w) /\ NearLow(w, Bar(w, 1).l, 20)

KeyReversalLong(w) == Bar(w, 0).l < Bar(w, 1).l /\ Bar(w, 0).c > Bar(w, 1).h
KeyReversalShort(w) == Bar(w, 0).h > Bar(w, 1).h /\ Bar(w, 0).c < Bar(w, 1).l

\* Wilder's averages of gains and losses up to the bar before the last: gains
\* below 3/7 of the losses put the index below 30. A market that has not moved
\* counts as overbought. (Averages in hundred thousandths.)
Wilder(w) ==
    LET c == w.c
        n == Len(c) - 1
        Mean(moves) == ExpMean((100 * Total(SubSeq(moves, 1, 14))) \div 14,
                               [i \in 1..(n - 15) |-> 100 * moves[i + 14]], 13, 14)
    IN [gain |-> Mean([i \in 1..(n - 1) |-> Top(<<c[i + 1] - c[i], 0>>)]),
        loss |-> Mean([i \in 1..(n - 1) |-> Top(<<c[i] - c[i + 1], 0>>)])]
Oversold(w) == LET m == Wilder(w) IN m.loss > 0 /\ 7 * m.gain < 3 * m.loss
Overbought(w) == LET m == Wilder(w) IN m.loss = 0 \/ 7 * m.loss < 3 * m.gain
Outside(b, a) == b.h > a.h /\ b.l < a.l
OutsideBarReversalLong(w) ==
    Outside(Bar(w, 0), Bar(w, 1)) /\ is_bullish(Bar(w, 0)) /\ Oversold(w)
OutsideBarReversalShort(w) ==
    Outside(Bar(w, 0), Bar(w, 1)) /\ is_bearish(Bar(w, 0)) /\ Overbought(w)

\* The body in the far quarter of the bar, a wick of 2.5 bodies, and not itself
\* the extreme of the last 20 bars.
PinbarLong(w) ==
    LET b == Bar(w, 0)
    IN /\ body_size(b) > 0 /\ 4 * (b.h - Bottom(<<b.o, b.c>>)) <= BarRange(b)
       /\ 2 * lower_wick(b) >= 5 * body_size(b) /\ b.h < Top(LastOf(w.h, 19))
PinbarShort(w) ==
    LET b == Bar(w, 0)
    IN /\ body_size(b) > 0 /\ 4 * (Top(<<b.o, b.c>>) - b.l) <= BarRange(b)
       /\ 2 * upper_wick(b) >= 5 * body_size(b) /\ b.l > Bottom(LastOf(w.l, 19))
RejectionWickAtResistance(w) ==
    LET b == Bar(w, 0)
    IN body_size(b) > 0 /\ upper_wick(b) >= 2 * body_size(b) /\ NearHigh(w, b.h, 20)
RejectionWickAtSupport(w) ==
    LET b == Bar(w, 0)
    IN body_size(b) > 0 /\ lower_wick(b) >= 2 * body_size(b) /\ NearLow(w, b.l, 20)

\* The mean true range again, with the close before the 14 bars, times 14.
compute_atr(w) ==
    Total([i \in 1..14 |-> Top(<<Ago(w.h, i - 1) - Ago(w.l, i - 1),
        Abs(Ago(w.h, i - 1) - Ago(w.c, i)), Abs(Ago(w.l, i - 1) - Ago(w.c, i))>>)])
\* Three bodies of 0.7 mean ranges, with wicks of a quarter body at most.
Strong(atr, b) ==
    20 * body_size(b) >= atr /\ 4 * Top(<<upper_wick(b), lower_wick(b)>>) <= body_size(b)
StrictThreeBlackCrows(w) ==
    /\ \A k \in 0..2 : is_bearish(Bar(w, k))
    /\ Bar(w, 1).c < Bar(w, 2).c /\ Bar(w, 0).c < Bar(w, 1).c
    /\ LET atr == compute_atr(w) IN atr > 0 /\ \A k \in 0..2 : Strong(atr, Bar(w, k))
StrictThreeWhiteSoldiers(w) ==
    /\ \A k \in 0..2 : is_bullish(Bar(w, k))
    /\ Bar(w, 1).c > Bar(w, 2).c /\ Bar(w, 0).c > Bar(w, 1).c
    /\ LET atr == compute_atr(w) IN atr > 0 /\ \A k \in 0..2 : Strong(atr, Bar(w, k))

\* (0.05 %: at these prices, the same.)
TweezerBottomStrict(w) ==
    /\ is_bearish(Bar(w, 1)) /\ is_bullish(Bar(w, 0))
    /\ 2000 * Abs(Bar(w, 1).l - Bar(w, 0).l) <= Top(<<Bar(w, 1).l, Bar(w, 0).l>>)
TweezerTopStrict(w) ==
    /\ is_bullish(Bar(w, 1)) /\ is_bearish(Bar(w, 0))
    /\ 2000 * Abs(Bar(w, 1).h - Bar(w, 0).h) <= Top(<<Bar(w, 1).h, Bar(w, 0).h>>)

WideRangeEngulf(w, dir) ==
    LET cur == Bar(w, 0)  prev == Bar(w, 1)
    IN /\ Top(<<cur.o, cur.c>>) >= Top(<<prev.o, prev.c>>)
       /\ Bottom(<<cur.o, cur.c>>) <= Bottom(<<prev.o, prev.c>>)
       /\ CASE dir = "LONG" -> is_bullish(cur) /\ is_bearish(prev)
            [] dir = "SHORT" -> is_bearish(cur) /\ is_bullish(prev)
       /\ 2 * body_size(cur) >= 3 * body_size(prev) /\ VolumeAbove(w, 20, 15)

-----------------------------------------------------------------------------
(* Chart patterns of the last bars.                                          *)

KeyReversalHigh(w) == Now(w.h) > Top(Before(w.h, 20)) /\ Now(w.c) < Ago(w.l, 1)
KeyReversalLow(w) == Now(w.l) < Bottom(Before(w.l, 20)) /\ Now(w.c) > Ago(w.h, 1)

\* A gap in, a gap out, and nothing in between that closes the first.
IslandReversalTop(w) ==
    LET o == LastOf(w.o, 30)  h == LastOf(w.h, 30)  l == LastOf(w.l, 30)
    IN /\ o[31] < l[30]
       /\ \E k \in 3..27 : 200 * o[k] > 201 * h[k - 1] /\ \A i \in k..30 : l[i] > h[k - 1]
IslandReversalBottom(w) ==
    LET o == LastOf(w.o, 30)  h == LastOf(w.h, 30)  l == LastOf(w.l, 30)
    IN /\ o[31] > h[30]
       /\ \E k \in 3..27 : 200 * o[k] < 199 * l[k - 1] /\ \A i \in k..30 : h[i] < l[k - 1]

CommonGap(w, dir) ==
    LET gap == IF dir = "LONG" THEN Now(w.o) - Ago(w.h, 1) ELSE Ago(w.l, 1) - Now(w.o)
    IN w.tr > 0 /\ 70 * gap > w.tr /\ 14 * gap < w.tr
BreakawayGapUp(w) ==
    /\ w.tr > 0 /\ Now(w.c) >= Now(w.o)
    /\ 14 * (Now(w.o) - Top(Before(w.h, 50))) > w.tr
MUT_BreakawayGapDown(w) ==
    /\ w.tr > 0 /\ Now(w.c) >= Now(w.o)
    /\ 14 * (Bottom(Before(w.l, 50)) - Now(w.o)) > w.tr
BreakawayGapDown(w) ==
    /\ w.tr > 0 /\ Now(w.c) <= Now(w.o)
    /\ 14 * (Bottom(Before(w.l, 50)) - Now(w.o)) > w.tr
RunawayGapUp(w) ==
    /\ w.tr > 0 /\ Now(w.o) > Ago(w.h, 1) /\ Now(w.c) >= Now(w.o)
    /\ Atr(w, 5, Now(w.o) - Ago(w.h, 1)) /\ Atr(w, 20, Ago(w.h, 1) - Ago(w.c, 20))
    /\ VolumeAbove(w, 30, 15)
RunawayGapDown(w) ==
    /\ w.tr > 0 /\ Now(w.o) < Ago(w.l, 1) /\ Now(w.c) <= Now(w.o)
    /\ Atr(w, 5, Ago(w.l, 1) - Now(w.o)) /\ Atr(w, 20, Ago(w.c, 20) - Ago(w.l, 1))
    /\ VolumeAbove(w, 30, 15)
\* (The move over 40 bars must be four mean ranges; the gap fades at once.)
ExhaustionGapUp(w) ==
    /\ w.tr > 0 /\ 14 * (Now(w.o) - Ago(w.h, 1)) > w.tr
    /\ Atr(w, 40, Ago(w.h, 1) - Ago(w.c, 40)) /\ Now(w.c) < Now(w.o)
ExhaustionGapDown(w) ==
    /\ w.tr > 0 /\ 14 * (Ago(w.l, 1) - Now(w.o)) > w.tr
    /\ Atr(w, 40, Ago(w.c, 40) - Ago(w.l, 1)) /\ Now(w.c) > Now(w.o)
DoubleGapContinuationUp(w) ==
    /\ w.tr > 0 /\ Now(w.c) >= Now(w.o)
    /\ \A k \in 0..1 : 140 * (Ago(w.o, k) - Ago(w.h, k + 1)) > 3 * w.tr
DoubleGapContinuationDown(w) ==
    /\ w.tr > 0 /\ Now(w.c) <= Now(w.o)
    /\ \A k \in 0..1 : 140 * (Ago(w.l, k + 1) - Ago(w.o, k)) > 3 * w.tr
\* The oldest gap of the last ten bars that no later bar has closed.
OpenGap(w, k, dir) ==
    IF dir = "LONG" THEN /\ 28 * (Ago(w.o, k) - Ago(w.h, k + 1)) > w.tr
                         /\ \A i \in 0..k : Ago(w.l, i) > Ago(w.h, k + 1)
                    ELSE /\ 28 * (Ago(w.l, k + 1) - Ago(w.o, k)) > w.tr
                         /\ \A i \in 0..k : Ago(w.h, i) < Ago(w.l, k + 1)
GapWindow(w, dir) ==
    LET gaps == {k \in 1..10 : OpenGap(w, k, "LONG") \/ OpenGap(w, k, "SHORT")}
    IN w.tr > 0 /\ \E k \in gaps : (\A j \in gaps : j <= k) /\ OpenGap(w, k, dir)

\* Two opposite bodies of about the same size, a mean range at least.
TwoBar(w) == 140 * Abs((Ago(w.c, 1) - Ago(w.o, 1)) + (Now(w.c) - Now(w.o))) <= 3 * w.tr
TwoBarReversalTop(w) ==
    /\ w.tr > 0 /\ Atr(w, 10, Ago(w.c, 1) - Ago(w.o, 1))
    /\ Atr(w, 10, Now(w.o) - Now(w.c)) /\ TwoBar(w)
TwoBarReversalBottom(w) ==
    /\ w.tr > 0 /\ Atr(w, 10, Ago(w.o, 1) - Ago(w.c, 1))
    /\ Atr(w, 10, Now(w.c) - Now(w.o)) /\ TwoBar(w)
VolumeClimaxTop(w) ==
    VolumeAbove(w, 50, 30) /\ Now(w.h) >= Top(Before(w.h, 50)) /\ Now(w.c) < Now(w.o)
VolumeClimaxBottom(w) ==
    VolumeAbove(w, 50, 30) /\ Now(w.l) <= Bottom(Before(w.l, 50)) /\ Now(w.c) > Now(w.o)

\* Out of the range of an opening, or of the 168 bars before, by 0.3 mean ranges.
Breaks(w, high, low, dir) ==
    IF dir = "LONG" THEN 140 * (Now(w.c) - high) > 3 * w.tr
                    ELSE 140 * (low - Now(w.c)) > 3 * w.tr
OpeningRangeBreakout(w, dir) ==
    LET opening(s) == SubSeq(LastOf(s, 30), 1, 5)
    IN w.tr > 0 /\ Breaks(w, Top(opening(w.h)), Bottom(opening(w.l)), dir)
WeeklyPivotBreak(w, dir) ==
    w.tr > 0 /\ Breaks(w, Top(Before(w.h, 168)), Bottom(Before(w.l, 168)), dir)
EndOfDayReversal(w, dir) ==
    LET drift == Ago(w.c, 1) - Ago(w.c, 5)  body == Now(w.c) - Now(w.o)
        sign == IF dir = "LONG" THEN 1 ELSE -1
    IN /\ w.tr > 0
       /\ -28 * sign * drift > w.tr /\ 14 * sign * body > w.tr
=============================================================================
