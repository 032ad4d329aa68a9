-------------------------- MODULE MCTradeLifecycle --------------------------
(***************************************************************************)
(* Small instances of TradeLifecycle for TLC: one attempt, or two that     *)
(* meet on one symbol.                                                     *)
(***************************************************************************)
EXTENDS TradeLifecycle, TLC

CONSTANTS t1, t2, btc, auto, telegram

\* Two attempts by two tasks meet on one symbol.
SameSymbol == (t1 :> btc) @@ (t2 :> btc)

\* The first comes from the automatic path, the second from an approval.
TwoTasks == (t1 :> auto) @@ (t2 :> telegram)

\* One automatic dispatch.
OneSymbol == [t \in {t1} |-> btc]
OneTask == [t \in {t1} |-> auto]

\* Both are approvals, which the poller places one after the other.
SameTask == (t1 :> telegram) @@ (t2 :> telegram)
============================================================================
