--------------------------- MODULE PatternLibrary ---------------------------
(* The registry: which patterns call a history bearish, which bullish.      *)
EXTENDS ShapePatterns, BarPatterns

Row(name, short, long) == [name |-> name, SHORT |-> short, LONG |-> long]

\* A row for every pair of detectors that look for the same formation in a
\* rising and in a falling market, and for every detector of both. First those
\* that ask only how prices differ, and by how many mean ranges;
PriceVerdicts(w) ==
    <<
      Row("v", VTop(w), VBottom(w)),
      Row("rounding", RoundingTop(w), RoundingBottom(w)),
      Row("channel", ChannelDown(w), ChannelUp(w)),
      Row("regression_channel", RegressionChannelDown(w), RegressionChannelUp(w)),
      Row("flag", BearishFlag(w), BullishFlag(w)),
      Row("pennant", BearishPennant(w), BullishPennant(w)),
      Row("breakout_pullback", BreakoutPullbackShort(w), BreakoutPullbackLong(w)),
      Row("kicker_volume", BearishKickerVolume(w), BullishKickerVolume(w)),
      Row("gap_fill_reversal", GapFillReversalLong(w), GapFillReversalShort(w)),
      Row("inside_bar_breakout", InsideBarBreakoutShort(w), InsideBarBreakoutLong(w)),
      Row("key_reversal_candle", KeyReversalShort(w), KeyReversalLong(w)),
      Row("pinbar", PinbarShort(w), PinbarLong(w)),
      Row("strict_three", StrictThreeBlackCrows(w), StrictThreeWhiteSoldiers(w)),
      Row("key_reversal", KeyReversalHigh(w), KeyReversalLow(w)),
      Row("breakaway_gap", BreakawayGapDown(w), BreakawayGapUp(w)),
      Row("runaway_gap", RunawayGapDown(w), RunawayGapUp(w)),
      Row("exhaustion_gap", ExhaustionGapUp(w), ExhaustionGapDown(w)),
      Row("double_gap_continuation", DoubleGapContinuationDown(w), DoubleGapContinuationUp(w)),
      Row("two_bar_reversal", TwoBarReversalTop(w), TwoBarReversalBottom(w)),
      Row("volume_climax", VolumeClimaxTop(w), VolumeClimaxBottom(w)),
      Row("rectangle_continuation", RectangleContinuation(w, "SHORT"), RectangleContinuation(w, "LONG")),
      Row("mid_term_consolidation", MidTermConsolidation(w, "SHORT"), MidTermConsolidation(w, "LONG")),
      Row("mean_reversion_to_ma", MeanReversionToMa(w, "SHORT"), MeanReversionToMa(w, "LONG")),
      Row("wide_range_engulf", WideRangeEngulf(w, "SHORT"), WideRangeEngulf(w, "LONG")),
      Row("common_gap", CommonGap(w, "SHORT"), CommonGap(w, "LONG")),
      Row("gap_window", GapWindow(w, "SHORT"), GapWindow(w, "LONG")),
      Row("opening_range_breakout", OpeningRangeBreakout(w, "SHORT"), OpeningRangeBreakout(w, "LONG")),
      Row("weekly_pivot_break", WeeklyPivotBreak(w, "SHORT"), WeeklyPivotBreak(w, "LONG")),
      Row("end_of_day_reversal", EndOfDayReversal(w, "SHORT"), EndOfDayReversal(w, "LONG"))
    >>

\* then those that find swings first, or ask for a share of a price.
Verdicts(w) ==
    <<
      Row("double", DoubleTop(w), DoubleBottom(w)),
      Row("triple", TripleTop(w), TripleBottom(w)),
      Row("head_and_shoulders", HeadAndShoulders(w), InverseHeadAndShoulders(w)),
      Row("saucer", SaucerTop(w), SaucerBottom(w)),
      Row("diamond", DiamondTop(w), DiamondBottom(w)),
      Row("bump_and_run", BumpAndRunTop(w), BumpAndRunBottom(w)),
      Row("triangle", DescendingTriangle(w), AscendingTriangle(w)),
      Row("broadening", BroadeningTop(w), BroadeningBottom(w)),
      Row("wedge", RisingWedge(w), FallingWedge(w)),
      Row("ending_diagonal", EndingDiagonalTop(w), EndingDiagonalBottom(w)),
      Row("cup_and_handle", InverseCupAndHandle(w), CupAndHandle(w)),
      Row("multi_tf_confluence", MultiTfConfluenceShort(w), MultiTfConfluenceLong(w)),
      Row("three_drives", ThreeDrivesTop(w), ThreeDrivesBottom(w)),
      Row("inside_doji", InsideDojiAtSwingHigh(w), InsideDojiAtSwingLow(w)),
      Row("outside_bar_reversal", OutsideBarReversalShort(w), OutsideBarReversalLong(w)),
      Row("rejection_wick", RejectionWickAtResistance(w), RejectionWickAtSupport(w)),
      Row("tweezer_strict", TweezerTopStrict(w), TweezerBottomStrict(w)),
      Row("island_reversal", IslandReversalTop(w), IslandReversalBottom(w)),
      Row("symmetrical_triangle", SymmetricalTriangle(w, "SHORT"), SymmetricalTriangle(w, "LONG")),
      Row("expanding_triangle", ExpandingTriangle(w, "SHORT"), ExpandingTriangle(w, "LONG")),
      Row("parallel_channel", ParallelChannel(w, "SHORT"), ParallelChannel(w, "LONG")),
      Row("andrews_pitchfork", AndrewsPitchfork(w, "SHORT"), AndrewsPitchfork(w, "LONG")),
      Row("fibonacci_retracement_50", FibonacciRetracement50(w, "SHORT"), FibonacciRetracement50(w, "LONG")),
      Row("fibonacci_retracement_618", FibonacciRetracement618(w, "SHORT"), FibonacciRetracement618(w, "LONG")),
      Row("gann_fan_signal", GannFanSignal(w, "SHORT"), GannFanSignal(w, "LONG")),
      Row("abcd_pattern", AbcdPattern(w, "SHORT"), AbcdPattern(w, "LONG")),
      Row("harmonic_gartley", HarmonicGartley(w, "SHORT"), HarmonicGartley(w, "LONG")),
      Row("harmonic_bat", HarmonicBat(w, "SHORT"), HarmonicBat(w, "LONG")),
      Row("harmonic_butterfly", HarmonicButterfly(w, "SHORT"), HarmonicButterfly(w, "LONG")),
      Row("harmonic_crab", HarmonicCrab(w, "SHORT"), HarmonicCrab(w, "LONG"))
    >>
=============================================================================
