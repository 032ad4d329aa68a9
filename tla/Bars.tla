-------------------------------- MODULE Bars --------------------------------
(* What the pattern detectors compute from a price history. A history is a  *)
(* record of sequences o, h, l, c, v (open, high, low, close, volume) of    *)
(* one length, oldest bar first, the current bar last, and of tr, the sum   *)
(* of its last 14 true ranges, that many detectors ask for. Prices are      *)
(* whole numbers, standing for one price unit each; where the code divides  *)
(* floats the operators keep a stated number of decimals.                   *)
EXTENDS Integers, Sequences, FiniteSets

LOCAL Sets == INSTANCE FiniteSetsExt
LOCAL Seqs == INSTANCE SequencesExt

Abs(x) == IF x < 0 THEN -x ELSE x
Quot(a, b) == IF (a < 0) = (b < 0) THEN Abs(a) \div Abs(b) ELSE -(Abs(a) \div Abs(b))
Bottom(s) == LET values == {s[i] : i \in DOMAIN s} IN CHOOSE x \in values : \A y \in values : x <= y
Top(s) == -Bottom([i \in DOMAIN s |-> -s[i]])

Total(s) ==
    LET sum[n \in 0..Len(s)] == IF n = 0 THEN 0 ELSE sum[n - 1] + s[n] IN sum[Len(s)]

\* 1000 times the exponential mean: every entry of s leaves `keep` in `of` of
\* what was before, `first` at the start. (The weights have four decimals.)
ExpMean(first, s, keep, of) ==
    LET n == Len(s)
        left[i \in 0..n] == CASE i = 0 -> 10000
                              [] i % 2 = 1 -> (left[i - 1] * keep) \div of
                              [] OTHER -> LET half == left[i \div 2] IN (half * half) \div 10000
        drift == Total([i \in 1..n |-> left[n - i] * (s[i] - first)])
    IN 1000 * first + Quot(drift * (of - keep), 10 * of)

\* The last k + 1 entries of a series: bars.iloc[current_idx - k : current_idx + 1].
LastOf(s, k) == SubSeq(s, Len(s) - k, Len(s))
\* The k entries before the current one.
Before(s, k) == SubSeq(s, Len(s) - k, Len(s) - 1)
FirstHalf(s) == SubSeq(s, 1, Len(s) \div 2)
SecondHalf(s) == SubSeq(s, Len(s) \div 2 + 1, Len(s))
\* The entry k bars ago.
Ago(s, k) == s[Len(s) - k]
Now(s) == s[Len(s)]

\* 100 times the variance.
Variance(s) ==
    LET d == [i \in DOMAIN s |-> s[i] - s[1]]
        sq == [i \in DOMAIN s |-> d[i] * d[i]]
    IN (100 * (Total(sq) - (Total(d) * Total(d)) \div Len(s))) \div Len(s)

\* 1000 times the slope of the least-squares line through the points (xs, ys).
SlopeAt(xs, ys) ==
    LET n == Len(xs)
        sum == Total(xs)
        dx == [i \in 1..n |-> n * xs[i] - sum]
        num == Total([i \in 1..n |-> dx[i] * (ys[i] - ys[1])])
        den == Total([i \in 1..n |-> dx[i] * xs[i]])
    IN IF Abs(num) < 2000000 THEN Quot(1000 * num, den) ELSE Quot(num, den \div 1000)
Slope(ys) == SlopeAt([i \in 1..Len(ys) |-> i - 1], ys)

\* 100 times the distance of every point from that line.
Residuals(ys) ==
    LET n == Len(ys)
        slope == Slope(ys)
        d == [i \in 1..n |-> ys[i] - ys[1]]
        mean == Quot(100 * Total(d), n)
    IN [i \in 1..n |-> 100 * d[i] - mean - Quot(slope * (2 * i - n - 1), 20)]

\* The second-degree fit, from the orthogonal polynomial of degree 2: `curve`
\* is 10^6 times the leading coefficient, `apex` the place of the extremum
\* counted from 0, `fit` 100 times R squared.
Parabola(ys) ==
    LET n == Len(ys)
        m == n - 1
        p2 == [i \in 1..n |-> 6 * (i - 1) * (i - 1) - 6 * m * (i - 1) + m * (m - 1)]
        s2 == Total([i \in 1..n |-> (ys[i] - ys[1]) * p2[i]])
        curve == Quot(s2, Total([i \in 1..n |-> (p2[i] * p2[i]) \div 1000]) \div 6000)
        slope == Slope(ys)
        bent == Quot(curve * (n * n - 2), 10000)
        explained == (((slope * slope) \div 100) * ((n * n - 1) \div 12)) \div 100
                         + (bent * bent) \div 18000
    IN [curve |-> curve,
        apex |-> IF curve = 0 THEN -1 ELSE m \div 2 - Quot(500 * slope, curve),
        fit |-> (100 * explained) \div (Variance(ys) + 1)]

\* recent_atr, the mean true range of the last 14 bars, times 14.
recent_atr(w) ==
    LET h == LastOf(w.h, 13)  l == LastOf(w.l, 13)  c == LastOf(w.c, 13)
        prev(i) == IF i = 1 THEN c[1] ELSE c[i - 1]
    IN Total([i \in 1..14 |-> Top(<<h[i] - l[i], Abs(h[i] - prev(i)), Abs(l[i] - prev(i))>>)])
\* x reaches k tenths of that mean.
Atr(w, k, x) == 140 * x >= k * w.tr

-----------------------------------------------------------------------------
(* Swings: scipy's find_peaks.                                               *)

\* The middles of the flat or pointed tops.
LocalMaxima(s) ==
    LET n == Len(s)
        end[i \in 1..n] == IF i = n THEN n ELSE IF s[i + 1] = s[i] THEN end[i + 1] ELSE i
    IN {(i + end[i]) \div 2 : i \in {j \in 2..(n - 1) :
            s[j - 1] < s[j] /\ end[j] < n /\ s[end[j] + 1] < s[j]}}

\* How far one must descend from i to climb higher.
Prominence(s, i) ==
    LET from == Sets!Max({0} \union {j \in 1..(i - 1) : s[j] > s[i]})
        to == Sets!Min({Len(s) + 1} \union {j \in (i + 1)..Len(s) : s[j] > s[i]})
    IN s[i] - Top(<<Bottom(SubSeq(s, from + 1, i)), Bottom(SubSeq(s, i, to - 1))>>)

\* Of tops closer than `distance` only the higher, or the later, remains; of the
\* rest those of some prominence.
Apart(s, tops, distance, least) ==
    LET near(i) == {j \in tops : /\ j # i /\ Abs(i - j) < distance
                                 /\ s[j] > s[i] \/ (s[j] = s[i] /\ j > i)}
        keep[i \in tops] == \A j \in near(i) : ~keep[j]
        Sticks(height) == 1000 * height * height >= least
    IN SelectSeq([i \in DOMAIN s |-> i],
           LAMBDA i : i \in tops /\ keep[i] /\ Sticks(Prominence(s, i)))
\* The prominence asked for is k hundredths of the standard deviation. (The
\* absolute floors of the code, 0.5 and 0.01, are below the price unit.)
find_swing_highs(s, k, distance) == Apart(s, LocalMaxima(s), distance, (k * k * Variance(s)) \div 1000)
find_swing_lows(s, k, distance) == find_swing_highs([i \in DOMAIN s |-> -s[i]], k, distance)

\* The prices at the swings, and the slope through them.
At(s, swings) == [i \in DOMAIN swings |-> s[swings[i]]]
SwingSlope(s, swings) == SlopeAt(swings, At(s, swings))

\* The `k` highest (lowest) of them.
Highest(s, swings, k) ==
    LET by == Seqs!SortSeq(swings, LAMBDA i, j : s[i] > s[j])
    IN SubSeq(by, 1, IF Len(by) < k THEN Len(by) ELSE k)
Lowest(s, swings, k) == Highest([i \in DOMAIN s |-> -s[i]], swings, k)

\* Two values differ by at most k thousandths of the larger.
Alike(a, b, k) == 1000 * Abs(a - b) <= k * Top(<<a, b>>)

\* The last five pivots of alternating kind, the more extreme of a run.
Extreme(pivots, p) ==
    LET last == Now(pivots)
        further == IF p.kind = "high" THEN p.price > last.price ELSE p.price < last.price
    IN IF pivots = <<>> \/ last.kind # p.kind THEN Append(pivots, p)
       ELSE IF further THEN [pivots EXCEPT ![Len(pivots)] = p] ELSE pivots
AddPivot(pivots, swings, i, kind, s) ==
    IF i \in Seqs!ToSet(swings) THEN Extreme(pivots, [kind |-> kind, price |-> s[i]]) ELSE pivots
LastFive(h, l, highs, lows) ==
    LET clean[k \in 0..Len(h)] ==
            IF k = 0 THEN <<>>
            ELSE AddPivot(AddPivot(clean[k - 1], highs, k, "high", h), lows, k, "low", l)
        pivots == clean[Len(h)]
    IN IF Len(pivots) < 5 THEN <<>> ELSE SubSeq(pivots, Len(pivots) - 4, Len(pivots))
find_xabcd_pivots(w, lookback) ==
    LET h == LastOf(w.h, lookback)  l == LastOf(w.l, lookback)
    IN LastFive(h, l, find_swing_highs(h, 15, 3), find_swing_lows(l, 15, 3))
=============================================================================
