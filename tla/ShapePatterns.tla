--------------------------- MODULE ShapePatterns ----------------------------
(* The chart patterns that read the shape of a window of bars: tops and     *)
(* bottoms, triangles, wedges, channels, cups and harmonics. Each operator  *)
(* says when its detector fires; a two-sided one takes the direction. What  *)
(* a detector reports as evidence is left out.                              *)
EXTENDS Bars

LOCAL Seqs == INSTANCE SequencesExt

\* A close beyond the trough between two of the five highest peaks.
DoubleTop(w) ==
    LET h == LastOf(w.h, 60)  l == LastOf(w.l, 60)
        peaks == Seqs!ToSet(Highest(h, find_swing_highs(h, 30, 5), 5))
    IN \E a, b \in peaks : /\ b - a >= 5 /\ Alike(h[a], h[b], 10)
                           /\ Now(w.c) < Bottom(SubSeq(l, a, b - 1))
DoubleBottom(w) ==
    LET h == LastOf(w.h, 60)  l == LastOf(w.l, 60)
        troughs == Seqs!ToSet(Lowest(l, find_swing_lows(l, 30, 5), 5))
    IN \E a, b \in troughs : /\ b - a >= 5 /\ Alike(l[a], l[b], 10)
                             /\ Now(w.c) > Top(SubSeq(h, a, b - 1))

\* Three of the six highest within 1.5 %.
TripleTop(w) ==
    LET h == LastOf(w.h, 80)  peaks == Seqs!ToSet(Highest(h, find_swing_highs(h, 30, 5), 6))
    IN \E a, b, c \in peaks : /\ b - a >= 5 /\ c - b >= 5
                              /\ \A i, j \in {a, b, c} : Alike(h[i], h[j], 15)
TripleBottom(w) ==
    LET l == LastOf(w.l, 80)  troughs == Seqs!ToSet(Lowest(l, find_swing_lows(l, 30, 5), 6))
    IN \E a, b, c \in troughs : /\ b - a >= 5 /\ c - b >= 5
                                /\ \A i, j \in {a, b, c} : Alike(l[i], l[j], 15)

\* Three consecutive swings, the middle one beyond two level shoulders.
HeadAndShoulders(w) ==
    LET h == LastOf(w.h, 80)  p == At(h, find_swing_highs(h, 30, 5))
    IN \E i \in 1..(Len(p) - 2) : /\ p[i + 1] > p[i] /\ p[i + 1] > p[i + 2]
                                  /\ Alike(p[i], p[i + 2], 20)
MUT_InverseHeadAndShoulders(w) ==
    LET l == LastOf(w.l, 80)  t == At(l, find_swing_lows(l, 30, 5))
    IN \E i \in 1..(Len(t) - 2) : /\ t[i + 1] > t[i] /\ t[i + 1] > t[i + 2]
                                  /\ Alike(t[i], t[i + 2], 20)
InverseHeadAndShoulders(w) ==
    LET l == LastOf(w.l, 80)  t == At(l, find_swing_lows(l, 30, 5))
    IN \E i \in 1..(Len(t) - 2) : /\ t[i + 1] < t[i] /\ t[i + 1] < t[i + 2]
                                  /\ Alike(t[i], t[i + 2], 20)

\* An extremum in the middle third, approached and left at half the range of
\* a bar per bar. (The first of several equal extremes counts.)
VTop(w) ==
    LET h == LastOf(w.h, 30)
    IN \E peak \in 11..21 :
         /\ \A i \in 1..31 : IF i < peak THEN h[i] < h[peak] ELSE h[i] <= h[peak]
         /\ w.tr > 0 /\ 28 * (h[peak] - h[1]) >= w.tr * (peak - 1)
         /\ 28 * (h[peak] - h[31]) >= w.tr * (31 - peak)
VBottom(w) ==
    LET l == LastOf(w.l, 30)
    IN \E trough \in 11..21 :
         /\ \A i \in 1..31 : IF i < trough THEN l[i] > l[trough] ELSE l[i] >= l[trough]
         /\ w.tr > 0 /\ 28 * (l[1] - l[trough]) >= w.tr * (trough - 1)
         /\ 28 * (l[31] - l[trough]) >= w.tr * (31 - trough)

\* A parabola fits the highs (lows).
RoundingTop(w) ==
    LET h == LastOf(w.h, 80)  p == Parabola(h)
    IN /\ p.curve < -1 /\ p.apex \in 0..81
       /\ Abs(p.curve) * 6561 >= 500000 * (Top(h) - Bottom(h)) /\ p.fit >= 70
RoundingBottom(w) ==
    LET l == LastOf(w.l, 80)  p == Parabola(l)
    IN /\ p.curve > 1 /\ p.apex \in 0..81
       /\ Abs(p.curve) * 6561 >= 500000 * (Top(l) - Bottom(l)) /\ p.fit >= 70
Shallow(s) == LET deep == 200 * (Top(s) - Bottom(s)) * Len(s) IN deep \in Total(s)..(60 * Total(s))
SaucerTop(w) ==
    LET h == LastOf(w.h, 80)  p == Parabola(h)
    IN p.curve < -1 /\ p.apex \in 0..81 /\ Shallow(h) /\ p.fit >= 60
SaucerBottom(w) ==
    LET l == LastOf(w.l, 80)  p == Parabola(l)
    IN p.curve > 1 /\ p.apex \in 0..81 /\ Shallow(l) /\ p.fit >= 60

\* The bars widen over the first half of the window and narrow over the second,
\* and the close is in the upper (lower) part of it.
Diamond(w) ==
    LET h == LastOf(w.h, 80)  l == LastOf(w.l, 80)
        range == [i \in 1..81 |-> h[i] - l[i]]
        scale == 5 * (Top(h) - Bottom(l))
    IN Slope(FirstHalf(range)) > scale /\ Slope(SecondHalf(range)) < -scale
TwiceMiddle(w, k) == Top(LastOf(w.h, k)) + Bottom(LastOf(w.l, k))
DiamondTop(w) == Diamond(w) /\ 100 * Now(w.c) >= 49 * TwiceMiddle(w, 80)
DiamondBottom(w) == Diamond(w) /\ 100 * Now(w.c) <= 51 * TwiceMiddle(w, 80)

\* The second half runs on at twice the slope of the first, then turns by 5 %.
BumpAndRunTop(w) ==
    LET h == LastOf(w.h, 100)  bump == SubSeq(h, 51, 100)  lead == Slope(FirstHalf(h))
    IN lead > 0 /\ Slope(bump) >= 2 * lead /\ 100 * Now(w.c) < 95 * Top(bump)
BumpAndRunBottom(w) ==
    LET l == LastOf(w.l, 100)  bump == SubSeq(l, 51, 100)  lead == Slope(FirstHalf(l))
    IN lead < 0 /\ Slope(bump) <= 2 * lead /\ 100 * Now(w.c) > 105 * Bottom(bump)

-----------------------------------------------------------------------------
(* Lines through the swings.                                                 *)

\* The swings of the last k bars, and the slopes through them.
Swings(w, k, prominence, distance) ==
    LET h == LastOf(w.h, k)  l == LastOf(w.l, k)
    IN [h |-> h, l |-> l, n |-> k + 1,
        peaks |-> find_swing_highs(h, prominence, distance),
        troughs |-> find_swing_lows(l, prominence, distance)]
TwoEach(s) == Len(s.peaks) >= 2 /\ Len(s.troughs) >= 2
Upper(s) == SwingSlope(s.h, s.peaks)
Lower(s) == SwingSlope(s.l, s.troughs)

\* Level tops over rising bottoms, broken upwards; and the reverse.
AscendingTriangle(w) ==
    LET s == Swings(w, 50, 20, 3)  tops == At(s.h, s.peaks)
    IN /\ TwoEach(s) /\ Alike(Top(tops), Bottom(tops), 15) /\ Lower(s) > 0
       /\ Now(w.c) * Len(tops) > Total(tops)
DescendingTriangle(w) ==
    LET s == Swings(w, 50, 20, 3)  bottoms == At(s.l, s.troughs)
    IN /\ TwoEach(s) /\ Alike(Top(bottoms), Bottom(bottoms), 15) /\ Upper(s) < 0
       /\ Now(w.c) * Len(bottoms) < Total(bottoms)
\* Falling tops, rising bottoms: the close half a per cent off the mean decides.
SymmetricalTriangle(w, dir) ==
    LET s == Swings(w, 50, 20, 3)
        side == 200 * (102 * Now(w.c) - Total(s.h) - Total(s.l))
        band == Total(s.h) + Total(s.l)
    IN /\ TwoEach(s) /\ Upper(s) < 0 /\ Lower(s) > 0
       /\ CASE dir = "LONG" -> side > band /\ Now(w.c) > Now(w.l)
            [] dir = "SHORT" -> side < -band /\ Now(w.c) < Now(w.h)
\* Three ever higher tops and three ever lower bottoms.
Expanding(s, c, dir) ==
    LET last3(q) == SubSeq(q, Len(q) - 2, Len(q))
        tops == At(s.h, last3(s.peaks))  bottoms == At(s.l, last3(s.troughs))
    IN /\ Len(s.peaks) >= 3 /\ Len(s.troughs) >= 3
       /\ tops[1] < tops[2] /\ tops[2] < tops[3]
       /\ bottoms[1] > bottoms[2] /\ bottoms[2] > bottoms[3]
       /\ (dir = "LONG") <=> (6 * Now(c) > Total(tops) + Total(bottoms))
ExpandingTriangle(w, dir) == Expanding(Swings(w, 80, 20, 4), w.c, dir)
Broadening(s) == TwoEach(s) /\ Upper(s) > 0 /\ Lower(s) < 0
BroadeningTop(w) ==
    Broadening(Swings(w, 60, 15, 4)) /\ 100 * Now(w.c) >= 49 * TwiceMiddle(w, 60)
BroadeningBottom(w) ==
    Broadening(Swings(w, 60, 15, 4)) /\ 100 * Now(w.c) <= 51 * TwiceMiddle(w, 60)

\* Both lines rise (fall) and meet.
RisingWedge(w) ==
    LET s == Swings(w, 60, 15, 4) IN TwoEach(s) /\ Upper(s) > 0 /\ Lower(s) > Upper(s)
FallingWedge(w) ==
    LET s == Swings(w, 60, 15, 4) IN TwoEach(s) /\ Lower(s) < 0 /\ Upper(s) < Lower(s)
EndingDiagonalTop(w) ==
    LET s == Swings(w, 60, 15, 4)  tops == At(s.h, s.peaks)
    IN RisingWedge(w) /\ Len(tops) >= 3 /\ tops[1] < tops[2] /\ tops[2] < Now(tops)
EndingDiagonalBottom(w) ==
    LET s == Swings(w, 60, 15, 4)  bottoms == At(s.l, s.troughs)
    IN /\ FallingWedge(w) /\ Len(bottoms) >= 3
       /\ bottoms[1] > bottoms[2] /\ bottoms[2] > Now(bottoms)
\* Both lines have nearly the same slope, a tenth of the window over its length.
Parallel(s, upper, lower, dir) ==
    LET both == upper + lower
    IN /\ TwoEach(s) /\ ((upper > 0 /\ lower > 0) \/ (upper < 0 /\ lower < 0))
       /\ 20 * Abs(upper - lower) <= 3 * Abs(both)
       /\ Abs(both) * s.n >= 200 * (Top(s.h) - Bottom(s.l))
       /\ (dir = "LONG") <=> (both > 0)
ParallelChannel(w, dir) ==
    LET s == Swings(w, 60, 15, 4) IN Parallel(s, Upper(s), Lower(s), dir)

\* Closes around a sloping line. (That 95 % of them lie between the extreme
\* residuals, as the code also asks, always holds.)
Channel(c) ==
    LET r == Residuals(c)  scale == Top(c) - Bottom(c)
    IN 2 * Top(r) > scale /\ 2 * Bottom(r) < -scale
           /\ Abs(Slope(c)) * Len(c) >= 3 * (Top(r) - Bottom(r))
ChannelUp(w) == LET c == LastOf(w.c, 60) IN Slope(c) > 0 /\ Channel(c)
ChannelDown(w) == LET c == LastOf(w.c, 60) IN Slope(c) < 0 /\ Channel(c)
\* Nine closes in ten within two standard deviations of it.
RegressionChannel(c) ==
    LET off == Residuals(c)
        n == Len(c)
        r == [i \in 1..n |-> Quot(off[i], 10)]
        sigma2 == Total([i \in 1..n |-> r[i] * r[i]]) \div n
        scale == Top(c) - Bottom(c)
        run == Quot(Slope(c) * n, 100)
    IN /\ scale > 0 /\ 10000 * sigma2 >= scale * scale
       /\ run * run >= 4 * sigma2
       /\ 10 * Cardinality({i \in 1..n : r[i] * r[i] < 4 * sigma2}) >= 9 * n
RegressionChannelUp(w) == LET c == LastOf(w.c, 60) IN Slope(c) > 0 /\ RegressionChannel(c)
RegressionChannelDown(w) == LET c == LastOf(w.c, 60) IN Slope(c) < 0 /\ RegressionChannel(c)

\* From a peak to the next: above it, below it.
AndrewsPitchfork(w, dir) ==
    LET s == Swings(w, 80, 20, 5)
    IN /\ Len(s.peaks) >= 2
       /\ \E t \in Seqs!ToSet(s.troughs) : s.peaks[1] < t /\ t < s.peaks[2]
       /\ CASE dir = "LONG" -> s.h[s.peaks[2]] > s.h[s.peaks[1]]
            [] dir = "SHORT" -> s.h[s.peaks[2]] < s.h[s.peaks[1]]

-----------------------------------------------------------------------------
(* A run, then a pause.                                                      *)

BullishFlag(w) ==
    LET c == LastOf(w.c, 30)  pole == FirstHalf(c)  flag == SecondHalf(c)
    IN /\ w.tr > 0 /\ Atr(w, 50, Now(pole) - pole[1]) /\ Slope(flag) <= 0
       /\ 2 * (Top(flag) - Bottom(flag)) <= Top(pole) - Bottom(pole)
BearishFlag(w) ==
    LET c == LastOf(w.c, 30)  pole == FirstHalf(c)  flag == SecondHalf(c)
    IN /\ w.tr > 0 /\ Atr(w, 50, pole[1] - Now(pole)) /\ Slope(flag) >= 0
       /\ 2 * (Top(flag) - Bottom(flag)) <= Top(pole) - Bottom(pole)
\* (31 bars: their halves have 15 and 16.)
Narrowing(w) == Slope(SecondHalf(LastOf(w.h, 30))) < 0 /\ Slope(SecondHalf(LastOf(w.l, 30))) > 0
BullishPennant(w) ==
    /\ w.tr > 0 /\ Atr(w, 50, Ago(w.c, 15) - Ago(w.c, 30)) /\ Narrowing(w)
BearishPennant(w) ==
    /\ w.tr > 0 /\ Atr(w, 50, Ago(w.c, 30) - Ago(w.c, 15)) /\ Narrowing(w)
\* A third of 61 bars runs; the rest stays within lines of hardly any slope.
RectangleContinuation(w, dir) ==
    LET h == LastOf(w.h, 40)  l == LastOf(w.l, 40)
        move == Ago(w.c, 41) - Ago(w.c, 60)
        range == Top(h) - Bottom(l)
    IN /\ w.tr > 0 /\ Atr(w, 30, Abs(move)) /\ range > 0
       /\ 41 * Abs(Slope(h)) <= 1000 * range /\ 41 * Abs(Slope(l)) <= 1000 * range
       /\ (dir = "LONG") <=> (move > 0)
MidTermConsolidation(w, dir) ==
    LET range == Top(LastOf(w.h, 29)) - Bottom(LastOf(w.l, 29))
        move == Ago(w.c, 31) - Ago(w.c, 60)
    IN /\ w.tr > 0 /\ 14 * range <= 5 * w.tr /\ Atr(w, 50, Abs(move))
       /\ (dir = "LONG") <=> (move > 0)

\* A cup over four fifths of the window, a handle half as deep at most that
\* dips below where it began, and a close beyond the rim.
CupAndHandle(w) ==
    LET c == LastOf(w.c, 100)  cup == SubSeq(c, 1, 80)  handle == SubSeq(c, 81, 101)
        rim == Top(<<cup[1], cup[80]>>)  depth == rim - Bottom(cup)
    IN /\ Parabola(cup).curve > 1 /\ 20 * depth >= rim
       /\ 2 * (Top(handle) - Bottom(handle)) <= depth
       /\ Bottom(handle) < handle[1] /\ Now(c) > rim
InverseCupAndHandle(w) ==
    LET c == LastOf(w.c, 100)  cup == SubSeq(c, 1, 80)  handle == SubSeq(c, 81, 101)
        rim == Bottom(<<cup[1], cup[80]>>)  depth == Top(cup) - rim
    IN /\ Parabola(cup).curve < -1 /\ 20 * depth >= rim
       /\ 2 * (Top(handle) - Bottom(handle)) <= depth
       /\ Top(handle) > handle[1] /\ Now(c) < rim

\* Out of the first half's range, then back to its edge and off it again.
BreakoutPullbackLong(w) ==
    LET edge == Top(FirstHalf(LastOf(w.h, 50)))
    IN /\ w.tr > 0 /\ Atr(w, 5, Top(SecondHalf(LastOf(w.c, 50))) - edge)
       /\ 28 * Abs(Now(w.l) - edge) <= w.tr /\ Now(w.c) > edge
BreakoutPullbackShort(w) ==
    LET edge == Bottom(FirstHalf(LastOf(w.l, 50)))
    IN /\ w.tr > 0 /\ Atr(w, 5, edge - Bottom(SecondHalf(LastOf(w.c, 50))))
       /\ 28 * Abs(Now(w.h) - edge) <= w.tr /\ Now(w.c) < edge

MeanReversionToMa(w, dir) ==
    LET off == 50 * Now(w.c) - Total(LastOf(w.c, 49))
    IN /\ w.tr > 0 /\ 7 * Abs(off) >= 50 * w.tr
       /\ (dir = "SHORT") <=> (off > 0)

\* The exponential mean of the last k closes.
Ema(c, k) == ExpMean(Ago(c, k - 1), LastOf(c, k - 2), k - 1, k + 1)
MultiTfConfluenceLong(w) ==
    /\ Ema(w.c, 20) > Ema(w.c, 50) /\ Ema(w.c, 50) > Ema(w.c, 200)
    /\ 1000 * Now(w.c) > Ema(w.c, 20)
MultiTfConfluenceShort(w) ==
    /\ Ema(w.c, 20) < Ema(w.c, 50) /\ Ema(w.c, 50) < Ema(w.c, 200)
    /\ 1000 * Now(w.c) < Ema(w.c, 20)

-----------------------------------------------------------------------------
(* Retracements and harmonics.                                               *)

ThreeDrivesTop(w) ==
    LET h == LastOf(w.h, 60)  p == At(h, find_swing_highs(h, 20, 4))  n == Len(p)
    IN n >= 3 /\ p[n - 2] < p[n - 1] /\ p[n - 1] < p[n]
ThreeDrivesBottom(w) ==
    LET l == LastOf(w.l, 60)  t == At(l, find_swing_lows(l, 20, 4))  n == Len(t)
    IN n >= 3 /\ t[n - 2] > t[n - 1] /\ t[n - 1] > t[n]

\* The close is within 2 % of half the way, or 61.8 % of it, between the last
\* peak and the last trough; which of the two came last gives the direction.
RetracementOf(s, c, dir, thousandths) ==
    LET peak == Now(s.peaks)  trough == Now(s.troughs)
        high == s.h[peak]  low == s.l[trough]  up == peak > trough
        level == IF up THEN 1000 * high - thousandths * (high - low)
                       ELSE 1000 * low + thousandths * (high - low)
    IN /\ s.peaks # <<>> /\ s.troughs # <<>> /\ high > low
       /\ 50 * Abs(1000 * Now(c) - level) <= level
       /\ (dir = "LONG") <=> up
Retracement(w, dir, thousandths) == RetracementOf(Swings(w, 80, 20, 5), w.c, dir, thousandths)
FibonacciRetracement50(w, dir) == Retracement(w, dir, 500)
FibonacciRetracement618(w, dir) == Retracement(w, dir, 618)

\* A range beyond the line that leaves the last swing at a tenth of a range a bar.
GannFan(w, s, dir) ==
    LET origin == Top(<<0>> \o s.peaks \o s.troughs)
        fromTrough == origin \in Seqs!ToSet(s.troughs)
        price == IF fromTrough THEN s.l[origin] ELSE s.h[origin]
        away == (81 - origin) + 10
    IN /\ w.tr > 0 /\ origin \in 1..76
       /\ CASE dir = "LONG" -> fromTrough /\ 140 * (Now(w.c) - price) >= w.tr * away
            [] dir = "SHORT" -> ~fromTrough /\ 140 * (price - Now(w.c)) >= w.tr * away
GannFanSignal(w, dir) == GannFan(w, Swings(w, 80, 20, 5), dir)

\* |p - q| is within `tol` thousandths of `ratio` thousandths of `leg`.
ratio_in_band(part, leg, ratio, tol) ==
    1000 * Abs(1000 * part - ratio * leg) <= tol * ratio * leg
Leg(p, q) == Abs(p.price - q.price)
MUT_Turns(first, last, dir) == last.kind = IF dir = "LONG" THEN "low" ELSE "high"
Turns(first, last, dir) ==
    CASE dir = "LONG" -> first.kind = "high" /\ last.kind = "low"
      [] dir = "SHORT" -> first.kind = "low" /\ last.kind = "high"
AbcdOn(p, dir) ==
    /\ p # <<>> /\ Leg(p[2], p[3]) > 0
    /\ 100 * Abs(Leg(p[2], p[3]) - Leg(p[4], p[5])) <= 15 * Leg(p[2], p[3])
    /\ Turns(p[2], p[5], dir)
AbcdPattern(w, dir) == AbcdOn(find_xabcd_pivots(w, 60), dir)
HarmonicLegs(p, name) ==
    LET xa == Leg(p[1], p[2])  ab == Leg(p[2], p[3])  ad == Leg(p[2], p[5])  xd == Leg(p[1], p[5])
        In(part, ratio, tol) == ratio_in_band(part, xa, ratio, tol)
    IN /\ xa > 0
       /\ CASE name = "gartley" -> In(ab, 618, 100) /\ In(ad, 786, 100)
            [] name = "bat" -> (In(ab, 382, 100) \/ In(ab, 500, 100)) /\ In(ad, 886, 100)
            [] name = "butterfly" -> In(ab, 786, 100) /\ In(xd, 1270, 150)
            [] name = "crab" -> (In(ab, 382, 100) \/ In(ab, 618, 100)) /\ In(xd, 1618, 150)
HarmonicOn(p, name, dir) == p # <<>> /\ HarmonicLegs(p, name) /\ Turns(p[1], p[5], dir)
Harmonic(w, name, dir) == HarmonicOn(find_xabcd_pivots(w, 80), name, dir)
HarmonicGartley(w, dir) == Harmonic(w, "gartley", dir)
HarmonicBat(w, dir) == Harmonic(w, "bat", dir)
HarmonicButterfly(w, dir) == Harmonic(w, "butterfly", dir)
HarmonicCrab(w, dir) == Harmonic(w, "crab", dir)
=============================================================================
