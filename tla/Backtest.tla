------------------------------ MODULE Backtest ------------------------------
(* The backtester (tools/backtest.py): it walks the bars of one symbol, opens *)
(* a trade where a prediction fires, follows it to its exit, goes on after    *)
(* that, and then walks its trades for the equity curve and the drawdown.     *)
EXTENDS Integers, Sequences

CONSTANTS
    LastBar,        \* the bars from the end of the warmup, 0, to the last
    TimeoutBars,    \* _TIMEOUT_BARS
    Balance,        \* initial_balance_usdt, in units of a trade's risk
    Payoffs         \* what a trade may earn, by the reason of its exit

VARIABLES
    scan,       \* i of the scan
    fills,      \* the trades
    tallied,    \* the trades that are on the equity curve
    curve,      \* the equity after each of them, from the initial balance
    peak,       \* its highest so far
    fall        \* max_dd, a fraction <<numerator, denominator>>

backtestVars == <<scan, fills, tallied, curve, peak, fall>>

Init == scan = 0 /\ fills = <<>> /\ tallied = 0 /\ curve = <<Balance>> /\ peak = Balance
            /\ fall = <<0, 1>>

\* A trade opens on a tier that trades, or on a score that hyperopt may search
\* over; never without a direction.
Fires(tier, enough, direction) ==
    (tier \in {"PAPER", "SMALL", "STANDARD", "A+"} \/ enough) /\ direction # "NEUTRAL"

\* The bars a trade is followed over, and what each touches of its levels.
Touches == {"none", "stop", "target", "both"}
Horizon(entry) == IF entry + TimeoutBars < LastBar THEN entry + TimeoutBars ELSE LastBar
Paths(entry) == [(entry + 1)..Horizon(entry) -> Touches]

\* The first bar that touches a level closes it, and the stop is taken to be
\* touched first; if none does, the last bar closes it.
Touched(path) == {k \in DOMAIN path : path[k] # "none"}
Exit(entry, path) ==
    IF Touched(path) = {} THEN Horizon(entry)
    ELSE CHOOSE k \in Touched(path) : \A j \in Touched(path) : k <= j
MUT_Reason(entry, path) ==      \* the target is taken to be touched first
    IF Touched(path) = {} THEN "TIMEOUT"
    ELSE IF path[Exit(entry, path)] = "stop" THEN "SL" ELSE "TP"
Reason(entry, path) ==
    IF Touched(path) = {} THEN "TIMEOUT"
    ELSE IF path[Exit(entry, path)] = "target" THEN "TP" ELSE "SL"

\* Nothing opens: no signal, a prediction that raised, or a range of zero.
Pass == scan < LastBar /\ scan' = scan + 1 /\ UNCHANGED <<fills, tallied, curve, peak, fall>>

\* A trade; the scan goes on behind its exit, at the first bar not before it.
Trade(path, pnl) ==
    /\ scan < LastBar
    /\ pnl \in Payoffs[Reason(scan, path)]
    /\ fills' = Append(fills, [entry |-> scan, exit |-> Exit(scan, path), path |-> path,
                               reason |-> Reason(scan, path), pnl |-> pnl])
    /\ scan' = Exit(scan, path) + 1
    /\ UNCHANGED <<tallied, curve, peak, fall>>

\* The trades in the order of their exits.
Worse(a, b) == a[1] * b[2] > b[1] * a[2]
Tally ==
    /\ scan >= LastBar /\ tallied < Len(fills)
    /\ tallied' = tallied + 1
    /\ LET equity == curve[Len(curve)] + fills[tallied'].pnl
           dd == IF peak' > 0 THEN <<peak' - equity, peak'>> ELSE <<0, 1>>
       IN /\ curve' = Append(curve, equity)
          /\ peak' = (IF equity > peak THEN equity ELSE peak)
          /\ fall' = (IF Worse(dd, fall) THEN dd ELSE fall)
    /\ UNCHANGED <<scan, fills>>

Next ==
    \/ Pass \/ Tally
    \/ \E tier \in {"NO_SIGNAL", "PAPER"}, enough \in BOOLEAN,
          direction \in {"LONG", "SHORT", "NEUTRAL"} :
           /\ Fires(tier, enough, direction)
           /\ \E path \in Paths(scan) : \E pnl \in Payoffs[Reason(scan, path)] : Trade(path, pnl)

Spec == Init /\ [][Next]_backtestVars

-----------------------------------------------------------------------------
TypeOK ==
    /\ scan \in 0..(LastBar + 1) /\ tallied \in 0..Len(fills)
    /\ \A k \in DOMAIN fills : fills[k].pnl \in Int /\ fills[k].reason \in {"SL", "TP", "TIMEOUT"}
    /\ curve \in Seq(Int) /\ peak \in Int /\ fall \in Int \X Int

\* No two trades are open on one bar, and they close in the order they opened,
\* the order in which they are tallied.
NeverOverlap ==
    \A j, k \in DOMAIN fills : j < k => fills[j].exit < fills[k].entry

\* A simulated trade closes on the bar, and for the reason, that the paper
\* engine's check_exit would have closed it, bar by bar, unless the bars end
\* first.
CheckExit(touch, held) ==
    IF touch \in {"stop", "both"} THEN "SL"
    ELSE IF touch = "target" THEN "TP"
    ELSE IF held >= TimeoutBars THEN "TIMEOUT" ELSE "none"
MirrorsPaper ==
    \A k \in DOMAIN fills :
        LET t == fills[k]
            Paper(b) == CheckExit(t.path[b], b - t.entry)
        IN /\ t.entry < t.exit /\ t.exit <= LastBar
           /\ \A b \in (t.entry + 1)..(t.exit - 1) : Paper(b) = "none"
           /\ \/ Paper(t.exit) = t.reason
              \/ Paper(t.exit) = "none" /\ t.exit = LastBar /\ t.reason = "TIMEOUT"

\* The reported drawdown is the worst fall from any point of the curve to a later
\* one, as a share of the first, while the equity lasts.
DrawdownIsWorst ==
    (\A i \in DOMAIN curve : curve[i] >= 0) =>
        \A i, j \in DOMAIN curve : i < j /\ curve[i] > 0 =>
            ~Worse(<<curve[i] - curve[j], curve[i]>>, fall)
=============================================================================
