---------------------------- MODULE MCBackground ----------------------------
(* The background tasks on small instances, one at a time.                  *)
EXTENDS Background

MCRegistry == <<"validator", "nn_prewarm">>
MCRows == 1..4

\* A bar that does nothing, one that reaches the trigger and one that returns
\* to the entry after it, a stop and a target.
Candle(low, high, close) == [low |-> low, high |-> high, close |-> close]
MCBars == {Candle(1, 1, 1), Candle(1, 2, 1), Candle(0, 2, 1), Candle(-2, 1, -1),
           Candle(1, 4, 3)}
MCStop == -2

MCTtl == [tf \in {"5m", "1h"} |-> IF tf = "5m" THEN 1 ELSE 5]

\* Two headlines of one time, one that appears late, and one of the macro source.
MCArticles == 1..4
MCArticleSource == <<"crypto", "crypto", "crypto", "macro">>
MCArticleTime == <<1, 1, 0, 1>>
MCFeedTime == <<1, 2, 3, 2>>

MCAskedFor == [r \in Requests |-> "BTCUSDT"]
MCPayoffs == [SL |-> {-2}, TP |-> {3}, TIMEOUT |-> {0}]

\* The desk.  A start that lacks nothing, and at first one that lacks anything;
\* nobody has an account, or everybody has.
Fine == [passphrase |-> TRUE, vault |-> "good", cache |-> "good",
         migrated |-> TRUE, telegram |-> TRUE, trades |-> TRUE, promotes |-> TRUE]
Others == Emails \ {Seed}
DeskInit ==
    /\ site \in (IF part = "boot" THEN {x \in Boot!Sites : x.promotes <=> x.telegram} ELSE {Fine})
    /\ broken \in (IF part = "boot" /\ site.telegram THEN BOOLEAN ELSE {FALSE})
    /\ month = 0
    /\ accepted \in (IF part = "users" THEN {{}, Others} ELSE {{}})
    /\ role = [e \in Emails |-> IF e = Seed THEN "admin" ELSE IF e \in accepted THEN "user" ELSE "none"]

\* The detectors of the healer one at a time.
HealerBounded ==
    /\ \/ baseline' = {} /\ dropped' = {} /\ stalls' = {}
       \/ baseline' = {} /\ known' = {}
       \/ known' = {} /\ dropped' = {} /\ stalls' = {}
    /\ (\E f \in pending' : f.kind \in {"degenerate", "blocked", "brain"}) => tick = 0

BootBounded == site' \in {site, Fine} /\ (at = "serving" => broken' = broken)

\* Users are admitted and changed before anyone is viewed, and codes are tried by
\* nobody else; while the seed views, a user may change as it is chosen.
Lone == request'[2].at = "idle" /\ journal' = <<>>
           /\ \E e \in Others : \A f \in Others \ {e} : invited'[f] = "none"
UsersBounded ==
    /\ tries' # tries \/ wall' # wall =>
           accepted = {} /\ invited' = [e \in Emails |-> "none"]
               /\ \A s \in Slots : request[s].at = "idle"
    /\ tries # <<>> \/ wall # 0 => tries' # tries \/ wall' # wall \/ kept' # kept
    /\ accepted = Others \/ Lone
    /\ request[2].at = "idle" /\ request'[2].at # "idle" => request[1].at # "idle"
    /\ accepted = Others =>
           /\ \A s \in Slots : request'[s].who = Seed
           /\ \/ role' = role /\ active' = active
              \/ journal = <<>> /\ request[2].at = "chosen"

\* Time passes over two purchases of one asset, or none.
TaxBounded ==
    month' > 0 =>
        /\ Len(bought') <= 2
        /\ \A i \in DOMAIN bought' : bought'[i] = [asset |-> "p", qty |-> 3]

Bounded ==
    CASE part = "healer" -> HealerBounded
      [] part = "boot" -> BootBounded
      [] part = "tax" -> TaxBounded
      [] part = "users" -> UsersBounded
      [] OTHER -> TRUE

\* Every initial state of the part that moves, and one of the others.
MCInit ==
    /\ part \in Parts /\ DeskInit
    /\ beat = [w \in Workers!Workers |-> IF w = "validator" THEN "stale" ELSE "never"]
    /\ topN \in (IF part = "shadow" THEN SUBSET PaperSymbols ELSE {{1}})
    /\ spot \in (IF part = "fleet" THEN SUBSET Traded ELSE {{}})
    /\ Init

\* The symbol no position is opened on is polled and keeps its listing and its
\* book: with it, the traded symbol may be one too many for the poll fleet.
Companion ==
    /\ spot' \subseteq Traded
    /\ sheet'.severe \cup sheet'.fast \subseteq Traded

\* The prewarm starts before any time has passed; tasks overlap then, and when the
\* refresh loop finds the first entry due.
MarketBounded ==
    /\ (\E tf \in TFs : fetch["prewarm"][tf] # fetch'["prewarm"][tf]) /\ Market!Idle("prewarm")
           => clock = 0
    /\ clock' \in {0, 1, 4}
           \/ \A t, u \in Market!Tasks : t # u => Market!Idle(t)' \/ Market!Idle(u)'

\* The listings become known as listed on both markets, halted on one.
Dual == [spot |-> "halted", futures |-> "trading"]
MCNext ==
    /\ Next
    /\ listings' \in {listings, Dual}
    /\ Companion
    /\ part = "market" => MarketBounded
    /\ part \in Desk => Bounded

MCSpec == MCInit /\ [][MCNext]_vars /\ Fairness
=============================================================================
