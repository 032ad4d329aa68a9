----------------------------- MODULE Indicators -----------------------------
(* The technical indicators, each as its value at the current bar of a      *)
(* history. Prices and averages count thousandths of the price unit; an     *)
(* index between 0 and 100 counts hundredths of a per cent. The indicators  *)
(* that are one call of TA-Lib are left out.                                *)
EXTENDS Bars

LOCAL Seqs == INSTANCE SequencesExt

Milli(s) == SubSeq([i \in DOMAIN s |-> 1000 * s[i]], 1, Len(s))
Each(n, Op(_)) == SubSeq([i \in 1..n |-> Op(i)], 1, n)
Share(part, whole, of) ==
    LET times == Quot(part, whole) IN times * of + Quot((part - times * whole) * of, whole)
\* The series of n values that starts with `first`, Then(v, i) being the value
\* at i after the value v.
Scan(n, first, Then(_, _)) ==
    LET tens[k \in 0..((n + 9) \div 10)] ==
            IF k = 0 THEN <<first>>
            ELSE LET past == tens[k - 1]
                     more[j \in 0..10] ==
                         IF j = 0 THEN past
                         ELSE LET s == more[j - 1]
                              IN IF Len(s) = n THEN s ELSE Append(s, Then(Seqs!Last(s), Len(s) + 1))
                 IN IF Len(past) = n THEN past ELSE more[10]
    IN tens[(n + 9) \div 10]
Mean(s) == s[1] + Quot(Total([i \in DOMAIN s |-> s[i] - s[1]]), Len(s))

\* The averages. ema is the whole series, from its first defined value on.
ema(s, period) ==
    Scan(Len(s) - period + 1, Mean(SubSeq(s, 1, period)),
         LAMBDA last, i : last + Quot(2 * (s[period + i - 1] - last), period + 1))
sma(s, period) == Mean(LastOf(s, period - 1))
dema(s) == LET once == ema(s, 20) IN 2 * Now(once) - Now(ema(once, 20))
tema(s) ==
    LET once == ema(s, 20)  twice == ema(once, 20)
    IN 3 * Now(once) - 3 * Now(twice) + Now(ema(twice, 20))
wma(s) ==
    LET n == Len(s) IN s[1] + Quot(2 * Total([i \in 1..n |-> i * (s[i] - s[1])]), n * (n + 1))
hull_ma(s) ==
    LET ending(k, back) == SubSeq(s, Len(s) - back - k + 1, Len(s) - back)
    IN wma([i \in 1..4 |-> 2 * wma(ending(10, 4 - i)) - wma(ending(20, 4 - i))])
vwap(w) ==
    LET typical == [i \in DOMAIN w.c |-> w.h[i] + w.l[i] + w.c[i]]
        first == typical[1]
    IN (1000 * first) \div 3
           + Share(Total([i \in DOMAIN w.c |-> (typical[i] - first) * w.v[i]]), 3 * Total(w.v), 1000)

\* Bands and channels. The two lines are thousandths, like the averages.
RollingMid(w, period, back) ==
    LET last == Len(w.h) - back
    IN 500 * (Top(SubSeq(w.h, last - period + 1, last)) + Bottom(SubSeq(w.l, last - period + 1, last)))
donchian(w) ==
    [upper |-> 1000 * Top(LastOf(w.h, 19)), lower |-> 1000 * Bottom(LastOf(w.l, 19)),
     middle |-> RollingMid(w, 20, 0)]
\* The spans are drawn 26 bars ahead, so the current ones are 26 bars old.
ichimoku(w) ==
    [tenkan |-> RollingMid(w, 9, 0), kijun |-> RollingMid(w, 26, 0),
     senkou_a |-> Quot(RollingMid(w, 9, 26) + RollingMid(w, 26, 26), 2),
     senkou_b |-> RollingMid(w, 52, 26), chikou |-> 1000 * Now(w.c)]
TrueRanges(w) ==
    Each(Len(w.c) - 1, LAMBDA i : Top(<<w.h[i + 1] - w.l[i + 1], Abs(w.h[i + 1] - w.c[i]),
                                        Abs(w.l[i + 1] - w.c[i])>>))
atr(w, period) ==
    LET tr == Milli(TrueRanges(w))
    IN Now(Scan(Len(tr) - period + 1, Mean(SubSeq(tr, 1, period)),
                LAMBDA last, i : Quot(last * (period - 1) + tr[period + i - 1], period)))
keltner(w) ==
    LET middle == Now(ema(Milli(w.c), 20))  range == atr(w, 10)
    IN [upper |-> middle + 2 * range, middle |-> middle, lower |-> middle - 2 * range]
\* 100 times the variance that the bands are two deviations of.
bollinger(w) == [middle |-> sma(Milli(w.c), 20), variance |-> Variance(LastOf(w.c, 19))]

-----------------------------------------------------------------------------
(* Oscillators.                                                              *)

macd(s) ==
    LET fast == ema(s, 12)  slow == ema(s, 26)
        line == Each(Len(slow), LAMBDA i : fast[i + 14] - slow[i])
        signal == ema(line, 9)
    IN [line |-> line, hist |-> Each(Len(signal), LAMBDA i : line[i + 8] - signal[i])]

Moves(s) == Each(Len(s) - 1, LAMBDA i : s[i + 1] - s[i])
\* A market without losses has index 100, one that does not move included.
rsi(s) ==
    LET d == Milli(Moves(s))
        up(i) == Top(<<d[i], 0>>)
        down(i) == Top(<<-d[i], 0>>)
        Wilders(move(_)) ==
            Now(Scan(Len(d) - 13, Quot(Total([i \in 1..14 |-> move(i)]), 14),
                     LAMBDA last, i : Quot(last * 13 + move(i + 13), 14)))
        gain == Wilders(up)
        loss == Wilders(down)
    IN IF loss = 0 THEN 10000 ELSE 10000 - Share(loss, gain + loss, 10000)
williams_r(w) ==
    LET top == Top(LastOf(w.h, 13))  bottom == Bottom(LastOf(w.l, 13))
    IN IF top = bottom THEN 0 ELSE -Share(top - Now(w.c), top - bottom, 10000)
roc(w) == IF Ago(w.c, 12) = 0 THEN 0 ELSE Share(Now(w.c) - Ago(w.c, 12), Ago(w.c, 12), 10000)
awesome_oscillator(w) ==
    LET median == Each(Len(w.h), LAMBDA i : 500 * (w.h[i] + w.l[i]))
    IN sma(median, 5) - sma(median, 34)
dpo(w) == 1000 * Ago(w.c, 11) - sma(Milli(w.c), 20)
tsi(w) ==
    LET d == Milli(Moves(w.c))
        smooth(s) == Now(ema(ema(s, 25), 13))
        moved == smooth(Each(Len(d), LAMBDA i : Abs(d[i])))
    IN IF moved = 0 THEN 0 ELSE Share(smooth(d), moved, 10000)

\* The bars since the latest highest high and the latest lowest low of the last 15.
Latest15(s) == Top(SelectSeq([i \in 1..15 |-> i], LAMBDA i : LastOf(s, 14)[i] = Top(LastOf(s, 14))))
aroon(w) ==
    LET since(s) == 15 - Latest15(s)
    IN [up |-> Share(14 - since(w.h), 14, 10000),
        down |-> Share(14 - since([i \in DOMAIN w.l |-> -w.l[i]]), 14, 10000)]
vortex(w) ==
    LET n == Len(w.h)
        tr == Total(LastOf(TrueRanges(w), 13))
        up == Total([k \in 1..14 |-> Abs(w.h[n - 14 + k] - w.l[n - 15 + k])])
        down == Total([k \in 1..14 |-> Abs(w.l[n - 14 + k] - w.h[n - 15 + k])])
    IN IF tr = 0 THEN [up |-> 0, down |-> 0] ELSE [up |-> Share(up, tr, 1000), down |-> Share(down, tr, 1000)]
\* The sum of 25 ratios of the mean range to its own mean.
mass_index(w) ==
    LET once == ema(Each(Len(w.h), LAMBDA i : 1000 * (w.h[i] - w.l[i])), 9)
        twice == ema(once, 9)
        ratio(k) == Share(Ago(once, k), Ago(twice, k), 1000)
    IN IF \E k \in 0..24 : Ago(twice, k) = 0 THEN 0 ELSE Total([k \in 1..25 |-> ratio(k - 1)])

\* Volume.
obv(w) ==
    Total([i \in 1..(Len(w.c) - 1) |-> CASE w.c[i + 1] > w.c[i] -> w.v[i + 1]
                                         [] w.c[i + 1] < w.c[i] -> -w.v[i + 1]
                                         [] OTHER -> 0])
force_index(w) == Now(ema(Each(Len(w.c) - 1, LAMBDA i : 100 * (w.c[i + 1] - w.c[i]) * w.v[i + 1]), 13))
chaikin_money_flow(w) ==
    LET flow(k) == IF Ago(w.h, k) = Ago(w.l, k) THEN 0
                   ELSE Share((2 * Ago(w.c, k) - Ago(w.l, k) - Ago(w.h, k)) * Ago(w.v, k),
                              Ago(w.h, k) - Ago(w.l, k), 1000)
        volume == Total(LastOf(w.v, 19))
    IN IF volume = 0 THEN 0 ELSE Quot(Total([k \in 1..20 |-> flow(k - 1)]), volume)
ease_of_movement(w) ==
    LET ease(k) == IF Ago(w.h, k) = Ago(w.l, k) \/ Ago(w.v, k) = 0 THEN 0
                   ELSE Quot(5000 * (Ago(w.h, k) + Ago(w.l, k) - Ago(w.h, k + 1) - Ago(w.l, k + 1))
                             * (Ago(w.h, k) - Ago(w.l, k)), Ago(w.v, k))
    IN Quot(Total([k \in 1..14 |-> ease(k - 1)]), 14)
\* The force of a bar, against the range of the trend it continues or turns. A
\* typical price that does not rise is a falling trend.
kvo(w) ==
    LET n == Len(w.c)
        typical(i) == w.h[i] + w.l[i] + w.c[i]
        trend == Each(n, LAMBDA i : CASE i = 1 -> 0
                                      [] i > 1 /\ typical(i) > typical(i - 1) -> 1
                                      [] OTHER -> -1)
        dm == Each(n, LAMBDA i : w.h[i] - w.l[i])
        cm == Scan(n, 0, LAMBDA last, i : dm[i] + IF trend[i] = trend[i - 1] THEN last ELSE dm[i - 1])
        vf == Each(n, LAMBDA i :
                  IF i = 1 \/ cm[i] = 0 THEN 0
                  ELSE w.v[i] * trend[i] * Abs(Share(2 * dm[i], cm[i], 1000) - 1000) * 100)
    IN Now(ema(vf, 34)) - Now(ema(vf, 55))
=============================================================================
