----------------------------- MODULE MCControl -----------------------------
(* A small instance of Control: the values of its constants, and fewer       *)
(* initial states.                                                           *)
EXTENDS Control

ByTarget(auto, approve) ==
    [m \in {"fully-auto", "telegram-approve"} |-> IF m = "fully-auto" THEN auto ELSE approve]
MCWindow == ByTarget(3, 2)
MCMinTrades == ByTarget(2, 1)

\* Two checkpoints that do not beat each other by the bar, one with a negative
\* Sharpe ratio, one without any, one with a malformed one.
Ok(sharpe) == [kind |-> "ok", value |-> sharpe]
MCSharpe ==
    <<Ok(10), Ok(12), Ok(-300), [kind |-> "missing", value |-> 0],
      [kind |-> "malformed", value |-> 0]>>

\* Three environments, and the predictions each is tried with.
Unset == -1000
Setting ==
    [name |-> 1, shortsOff |-> FALSE, regimeGate |-> FALSE, minAdx |-> Unset, boost |-> TRUE,
     bar |-> [LONG |-> 36, SHORT |-> 36], minAgreement |-> 3, tighten |-> TRUE,
     sizing |-> "fixed", allowlist |-> FALSE, hybrid |-> Unset, borrowVeto |-> FALSE]
Regimes ==
    [Setting EXCEPT !.name = 2, !.shortsOff = TRUE, !.regimeGate = TRUE, !.minAdx = 25,
        !.bar = [LONG |-> Unset, SHORT |-> Unset], !.boost = FALSE, !.sizing = "dynamic",
        !.allowlist = TRUE, !.hybrid = 60]
Vetoes ==
    [Setting EXCEPT !.name = 3, !.bar = Regimes.bar, !.sizing = "percent", !.hybrid = 60,
        !.borrowVeto = TRUE]
Long == [dir |-> "LONG", score |-> 50, pattern |-> "none", sure |-> 0, adx |-> 30,
         funding |-> 0, agreement |-> 4, day |-> 1, week |-> 0, confidence |-> 70,
         calibrated |-> Unset, entry |-> 1000, stop |-> 900, step |-> 1, tick |-> 7]
Short == [Long EXCEPT !.dir = "SHORT", !.score = -40, !.stop = 1150, !.day = 0]
MCSettings == {Setting, Regimes, Vetoes}
MCOffers ==
    <<{Long, [Short EXCEPT !.pattern = "LONG", !.sure = 60],
       [Short EXCEPT !.score = -30, !.pattern = "SHORT", !.sure = 60]},
      {[Long EXCEPT !.score = 65, !.pattern = "LONG", !.sure = 85],
       [Long EXCEPT !.calibrated = 55], [Long EXCEPT !.adx = 20], Short},
      {Long, [Long EXCEPT !.agreement = 2], [Long EXCEPT !.funding = 200], Short}>>

\* Two lanes on one market: the shadow worker's, and a live one that spells the
\* symbol as the snapshot table does not. A long that bad news takes into the
\* neutral band, and a short that traps argue against.
S == INSTANCE Scoring
Fire(dir, weight, chart, micro) == [dir |-> dir, weight |-> weight, chart |-> chart, micro |-> micro]
Slight ==
    [votes |-> <<S!Vote(1, 80, 60), S!NONE, S!Vote(0, 0, 40), S!Vote(0, 0, 50), S!Vote(0, 0, 60)>>,
     fires |-> <<>>, ghost |-> S!Missing, doubt |-> 0, traps |-> [dir \in {-1, 0, 1} |-> {}],
     atr |-> 10, vol |-> S!Missing, weekday |-> 5, hour |-> 7]
Down ==
    [Slight EXCEPT !.votes = <<S!Vote(-1, 90, 85), S!NONE, S!Vote(-1, 60, 75), S!Vote(-1, 76, 70), S!Vote(-1, 100, 70)>>,
        !.fires = <<Fire(-1, 70, TRUE, FALSE), Fire(1, 30, FALSE, TRUE)>>, !.ghost = -400, !.vol = 3,
        !.weekday = 4, !.traps = [dir \in {-1, 0, 1} |-> IF dir = -1 THEN {"a", "b"} ELSE {}]]
Item(sentiment, impact) == [sentiment |-> sentiment, impact |-> impact]
BadNews == <<Item(-60, 80), Item(20, S!Missing), Item(S!Missing, 90)>>
MCLanes ==
    {[symbol |-> "BTCUSDT", timeframe |-> "1h"], [symbol |-> "BTC/USDT", timeframe |-> "15m"]}
MCReadings == {Slight, Down}
MCRecords == {[samples |-> 72, accuracy |-> 80], [samples |-> 73, accuracy |-> 80]}
MCFundings == {-20, 8}
MCNews == {<<>>, BadNews}
MCPolicies ==
    [c \in {"c1", "c2"} |-> IF c = "c1" THEN {"LONG_FULL", "FLAT"} ELSE {"SHORT_HALF"}]

\* The parts that do not move begin in one state, a prediction in bad news.
MCInit ==
    /\ Init
    /\ news = BadNews /\ market.funding = -20 /\ record.samples = 72
    /\ part # "scores" => brain = "none"
    /\ part # "gates" => set = Setting
    /\ part # "modes" => closed[1] = "none"

\* Of the two symbols only one ever loses; the cache is filled for both by either.
OneLoses == losing["b"] = -1

MCSpec == MCInit /\ [][Next /\ OneLoses']_allVars
=============================================================================
