------------------------------- MODULE Scoring -------------------------------
(* The arithmetic of a prediction: the layers that vote from pattern fires, *)
(* the ghost candle and the news, the weighted mean of all layers, and what *)
(* is derived from it. Strengths, confidences, weights and sentiments are   *)
(* per cent; scores are hundredths of a per cent; funding rates are         *)
(* hundredths of a per cent of the position. Missing is a value not known.  *)
EXTENDS Layers

Missing == -100000
Known(x) == IF x = Missing THEN 0 ELSE x
AtLeast(x, bound) == IF x > bound THEN x ELSE bound
Clamp(x, bound) == AtLeast(AtMost(x, bound), -bound)

\* tanh of x per cent, in per cent (a quotient within 3 of it).
Tanh(x) == Clamp(Quot(x * (270000 + x * x), 270000 + 9 * x * x), 100)

-----------------------------------------------------------------------------
(* Layers 2 and 6 weigh pattern fires: records of dir, weight (strength by   *)
(* confidence), chart and micro, whether they are chart and micro patterns.  *)

\* The sum of the entries of s at some of its places.
TotalAt(s, places) == Total([i \in DOMAIN s |-> IF i \in places THEN s[i] ELSE 0])
Lean(fires, places) == TotalAt([i \in DOMAIN fires |-> fires[i].dir * fires[i].weight], places)
Leaning(raw, confidence) ==
    LET lean == Tanh(Quot(raw, 3))
    IN IF Abs(lean) < 5 THEN Vote(0, 0, confidence) ELSE Vote(Sign(lean), Abs(lean), confidence)

\* A pattern without its own record has the prior accuracy, one half; no
\* timeframe has a threshold its records could cross.
PRIOR_ACCURACY == 50
stats_get(record, threshold) == IF record.samples >= threshold THEN record.accuracy ELSE PRIOR_ACCURACY

_compute_layer_confidence(fires) ==
    LET charts == {i \in DOMAIN fires : fires[i].chart}
        n == Cardinality(charts)
        quality == TotalAt([i \in DOMAIN fires |-> fires[i].weight], charts) \div AtLeast(n, 1)
        chart == IF n = 0 THEN 0 ELSE AtMost(95, quality + AtMost(30, 15 * (n - 1)))
    IN AtLeast(chart, AtMost(80, 10 * (Len(fires) - n)))
layer2_patterns(fires, accuracy) ==
    Leaning(Quot(Lean(fires, DOMAIN fires) * accuracy, 100), _compute_layer_confidence(fires))
layer6_micro(fires) ==
    LET micro == {i \in DOMAIN fires : fires[i].micro}
    IN Leaning(Lean(fires, micro), AtMost(100, 20 * Cardinality(micro)))

\* Layer 8: where the ghost candle closes, in hundredths of a per cent.
layer8_convlstm(ghost, doubt) ==
    LET confidence == AtLeast(AtMost(100 - doubt, 100), 30)
    IN CASE ghost = Missing -> NONE
         [] ghost # Missing /\ Abs(ghost) < 1 -> Vote(0, 0, confidence)
         [] OTHER -> Vote(Sign(ghost), AtMost(Abs(ghost) \div 10, 100), confidence)

\* Layer 9: the mean sentiment of the news, weighted by impact.
Impact(item) == IF item.impact = Missing THEN 50 ELSE item.impact
layer9_news(items) ==
    LET scored == {i \in DOMAIN items : items[i].sentiment # Missing}
        weight == TotalAt([i \in DOMAIN items |-> Impact(items[i])], scored)
        mean == Quot(TotalAt([i \in DOMAIN items |-> items[i].sentiment * Impact(items[i])], scored),
                     AtLeast(weight, 1))
    IN IF weight = 0 THEN NONE
       ELSE Vote(IF Abs(mean) > 10 THEN Sign(mean) ELSE 0, Abs(Tanh(Quot(3 * mean, 2))),
                 AtMost(100, 20 * Cardinality(scored)))

\* _build_news_summary: how many items, and their mean impact's level.
_build_news_summary(items) ==
    LET known == {i \in DOMAIN items : items[i].impact # Missing}
        mean == TotalAt([i \in DOMAIN items |-> items[i].impact], known)
                    \div AtLeast(Cardinality(known), 1)
    IN [count |-> Len(items),
        impact |-> CASE mean > 70 -> "HIGH" [] mean \in 41..70 -> "MEDIUM" [] OTHER -> "LOW"]

-----------------------------------------------------------------------------
(* aggregate(): layers are numbered 1 to 10, 7 and 10 are stubs.             *)

Product(vote) == vote.dir * vote.strength * AtLeast(vote.confidence, 0)
present(layers) == {i \in DOMAIN layers : i # 10 /\ layers[i] # NONE}
Static(layers) ==
    Quot(TotalAt([i \in DOMAIN layers |-> Product(layers[i])], present(layers)),
         AtLeast(Cardinality(present(layers)), 1))

\* 0.85 to the number of traps, at most four.
TrapFactor == <<10000, 8500, 7225, 6141, 5220>>
aggregate(layers, traps, adjust) ==
    LET raw == Quot(Quot(Static(layers) * adjust, 1000) * TrapFactor[AtMost(traps, 4) + 1], 10000)
    IN [score |-> Clamp(raw, 10000), dir |-> IF Abs(raw) > 500 THEN Sign(raw) ELSE 0,
        contributing |-> present(layers)]

classify_tier(final) ==
    LET score == Abs(final.score)
    IN CASE final.dir = 0 \/ score < 5500 -> "NO_SIGNAL"
         [] final.dir # 0 /\ score \in 5500..6499 -> "PAPER"
         [] final.dir # 0 /\ score \in 6500..7499 -> "SMALL"
         [] final.dir # 0 /\ score \in 7500..8499 -> "STANDARD"
         [] OTHER -> "A+"

\* Distances from the entry in halves of the mean range.
_build_trade_setup(dir, range) ==
    IF dir = 0 \/ range <= 0 THEN [stop |-> Missing, target |-> Missing]
    ELSE [stop |-> -3 * dir, target |-> 6 * dir]

compute_funding_directional_adj(funding, dir) ==
    CASE funding = Missing \/ dir = 0 -> Missing
      [] funding # Missing /\ dir # 0 /\ dir * funding < -5 -> 10
      [] OTHER -> 0

\* The score rescaled to a volatility of 2 per cent a year; below 1 is taken for 1.
compute_effective_score(score, vol) ==
    IF vol = Missing THEN Missing ELSE Quot(2 * score, AtLeast(vol, 1))

-----------------------------------------------------------------------------
(* The brain's action and what it does to the score.                         *)

Actions == {"SHORT_FULL", "SHORT_HALF", "FLAT", "LONG_HALF", "LONG_FULL"}
SideOf(action) ==
    CASE action \in {"LONG_FULL", "LONG_HALF"} -> 1 [] action = "FLAT" -> 0 [] OTHER -> -1

\* The most frequent of the last three; a tie goes to FLAT or to the newest.
smooth_action(past, raw) ==
    LET window == Append(IF Len(past) > 2 THEN LastOf(past, 1) ELSE past, raw)
        votes(a) == Cardinality({i \in DOMAIN window : window[i] = a})
        said == {window[i] : i \in DOMAIN window}
        winners == {a \in said : \A b \in said : votes(a) >= votes(b)}
    IN CASE Cardinality(winners) = 1 -> CHOOSE a \in winners : TRUE
         [] Cardinality(winners) > 1 /\ "FLAT" \in winners -> "FLAT"
         [] OTHER -> raw

\* (A mutant: any side is taken for the proposed one.)
MUT_action_to_brain_adjust(action, proposed) ==
    CASE action = "FLAT" -> 850
      [] action \in {"LONG_FULL", "SHORT_FULL"} -> 1150
      [] OTHER -> 1075
\* In thousandths, with the spread of 15 per cent.
action_to_brain_adjust(action, proposed) ==
    CASE action = "FLAT" -> 850
      [] action # "FLAT" /\ proposed = 0 -> 1000
      [] action # "FLAT" /\ proposed # 0 /\ SideOf(action) # proposed -> 925
      [] OTHER -> IF action \in {"LONG_FULL", "SHORT_FULL"} THEN 1150 ELSE 1075
=============================================================================
