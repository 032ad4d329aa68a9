----------------------------- MODULE Background -----------------------------
(* The background tasks of the process: the supervised workers, the         *)
(* prediction validator, the paper positions, the fleet of streamed         *)
(* symbols, the feed of one polled symbol, the market data and the news     *)
(* they are predicted from; and the desk, what serves the operator: the     *)
(* healer, the start of the process, the weight studies, the backtester,    *)
(* the tax records and the accounts.  They share no state the models keep;  *)
(* a behaviour is one of one of them, `part` says which, and the others     *)
(* stay where they began.                                                   *)
EXTENDS Integers, Sequences, FiniteSets

CONSTANTS
    \* the workers
    Registry, Supervised, Stateful, SingleShot, Daily, Excused, Pending, WorkerFaults,
    \* the validation queue
    Rows, Poison, BatchLimit, MaxAttempts, StallPasses, QueueFaults,
    \* the paper positions
    PaperSymbols, Tfs, PaperBaseline, MaxStreams, HoldBars, Cooldown, HistoryCap,
    Bars, Stop, Target, Trigger, PaperFaults,
    \* the fleet
    FleetSymbols, FleetBaseline, Traded, Samples, EntryMin, MaxPolled, FleetFaults,
    \* a polled feed
    MaxHour, DeadAfter, FeedFaults,
    \* the market data
    Predictions, TFs, Ttl, FetchTimeout, Capacity, Refill, Weight, Window,
    MarketTime, MarketFaults,
    \* the news
    Articles, ArticleSource, ArticleTime, FeedTime, Backfill, Macro, Retention, Day,
    DailyLimit, NewsTime, NewsFaults,
    \* the healer, and the start of the process
    Errors, Pairs, Keys, Fields, Grace, Reminder, StallStreak, Interval,
    HealerTime, HealerFaults, BootFaults,
    \* the weight studies, and the backtester
    Requests, AskedFor, StudyFaults, LastBar, TimeoutBars, Balance, Payoffs,
    \* the tax records
    Assets, Quantities, Tolerance, Rates, MaxBuys, MaxSales, MaxMonth, TaxFaults,
    \* the accounts
    Emails, Seed, Slots, JournalCap, AccountTime, MaxHits, Span

ASSUME BackgroundFaultsAssumption ==
    {WorkerFaults, QueueFaults, PaperFaults, FleetFaults, FeedFaults, MarketFaults,
     NewsFaults} \subseteq Nat

ASSUME DeskFaultsAssumption == {HealerFaults, BootFaults, StudyFaults, TaxFaults} \subseteq Nat

\* Rows come in the order of their target times; a row is tried at least once.
ASSUME QueueAssumption ==
    /\ Rows \subseteq Nat /\ IsFiniteSet(Rows)
    /\ BatchLimit \in Nat /\ MaxAttempts \in Nat \ {0} /\ StallPasses \in Nat

\* A target lies beyond the entry, which is at 0.
ASSUME PaperAssumption ==
    /\ HoldBars \in Nat /\ Cooldown \in Nat /\ HistoryCap \in Nat /\ Target \in Nat

ASSUME FeedAssumption == MaxHour \in Nat \ {0} /\ DeadAfter \in Nat

ASSUME MarketAssumption ==
    /\ Ttl \in [TFs -> Nat \ {0}] /\ FetchTimeout \in Nat /\ MarketTime \in Nat
    /\ Capacity \in Nat /\ Refill \in Nat \ {0} /\ Weight \in Nat /\ Window \in Nat \ {0}

\* An article bears a time of the run, and may appear later than it says.
ASSUME NewsAssumption ==
    /\ ArticleSource \in [Articles -> {"crypto", "macro"}]
    /\ ArticleTime \in [Articles -> 0..NewsTime] /\ FeedTime \in [Articles -> Int]
    /\ {Backfill, Retention, NewsTime} \subseteq Nat /\ DailyLimit \in Nat \ {0}

\* The healer reminds within a day, and confirms a stall by seeing it.
ASSUME HealerAssumption ==
    /\ {Grace, Reminder, StallStreak, Interval, HealerTime} \subseteq Nat \ {0}
    /\ Fields \subseteq Keys

ASSUME StudyAssumption == IsFiniteSet(Requests) /\ AskedFor \in [Requests -> STRING]

\* A trade earns a number of units of its risk.
ASSUME PayoffAssumption ==
    /\ LastBar \in Nat /\ TimeoutBars \in Nat \ {0} /\ Balance \in Nat
    /\ Payoffs \in [{"SL", "TP", "TIMEOUT"} -> SUBSET Int]

ASSUME TaxAssumption ==
    /\ Quantities \subseteq Nat /\ Tolerance \in Nat /\ Rates \subseteq Nat \ {0}
    /\ MaxMonth \in Nat \ {0, 1}

ASSUME AccountsAssumption ==
    Seed \in Emails /\ MaxHits \in Nat \ {0} /\ Span \in Nat

VARIABLES
    part, faults,
    task, original, stray, cancelled, failing, beat, status, unseen, errorStreak,
    young, wd, wdCancel, todo, verdict, result, alert, stopping,
    state, attempts, batch, updates, listed, phase, selected, streak, onsets,
    row, recorded, cool, book, coolMem, lost, filed, topN, watched, paged, due,
    paused, up,
    spot, relisted, open, snapshot, events, stage, sheet, kids, job,
    hour, saved, since, predicted, published, failed, gaps, child, crashes,
    dead, pages,
    clock, listings, bucket, server, cache, fetch, granted, forgotten,
    time, step, pulled, began, cursor, floor, lastMacro, items, seen, used,
    tick, booted, detector, pending, known, stall, dropped, lastRun, baseline, sweep, looked,
    stalls, told, missed,
    site, at, unmet, linked, gate, reported, rung, keyed, running, broken, ordered,
    asked, own, given, study, nextRow, working, outcome,
    scan, fills, tallied, curve, peak, fall,
    lots, bought, matched, sale, month, fx, taxed,
    role, active, invited, accepted, viewing, journal, request, tries, kept, wall

Workers == INSTANCE WorkerSupervision WITH MaxFaults <- WorkerFaults
Queue   == INSTANCE ValidationQueue WITH MaxFaults <- QueueFaults
Shadow  == INSTANCE ShadowBook WITH
    Symbols <- PaperSymbols, Baseline <- PaperBaseline, Timeout <- HoldBars,
    MaxFaults <- PaperFaults
Fleet   == INSTANCE LiveFleet WITH
    Symbols <- FleetSymbols, Baseline <- FleetBaseline, MaxFaults <- FleetFaults
Feed    == INSTANCE PollFeed WITH MaxFaults <- FeedFaults
Market  == INSTANCE MarketData WITH
    Timeout <- FetchTimeout, MaxTime <- MarketTime, MaxFaults <- MarketFaults
News    == INSTANCE NewsIngest WITH
    source <- ArticleSource, published <- ArticleTime, appears <- FeedTime,
    MaxTime <- NewsTime, MaxFaults <- NewsFaults
Healer  == INSTANCE Healer WITH MaxTime <- HealerTime, MaxFaults <- HealerFaults
Boot    == INSTANCE Boot WITH MaxFaults <- BootFaults
Studies == INSTANCE Studies WITH MaxFaults <- StudyFaults
Walk    == INSTANCE Backtest
Tax     == INSTANCE TaxLots WITH MaxEvents <- MaxSales, MaxFaults <- TaxFaults
Users   == INSTANCE Accounts WITH MaxEvents <- JournalCap, MaxTime <- AccountTime

\* Everything the supervisor may restart is in the registry.
ASSUME RegistryAssumption ==
    Registry \in Seq(Workers!Workers) /\ Supervised \subseteq Workers!Workers

workersOnly == <<task, original, stray, cancelled, failing, beat, status, unseen,
                 errorStreak, young, wd, wdCancel, todo, verdict, result, alert, stopping>>
queueOnly  == <<state, attempts, batch, updates, listed, phase, selected, streak, onsets>>
shadowOnly == <<row, recorded, cool, book, coolMem, lost, filed, topN, watched, paged, due,
                paused, up>>
fleetOnly  == <<spot, relisted, open, snapshot, events, stage, sheet, kids, job>>
feedOnly   == <<hour, saved, since, predicted, published, failed, gaps, child, crashes,
                dead, pages>>
marketOnly == <<clock, listings, bucket, server, cache, fetch, granted, forgotten>>
newsOnly   == <<time, step, pulled, began, cursor, floor, lastMacro, items, seen, used>>
healerOnly == <<tick, booted, detector, pending, known, stall, dropped, lastRun, baseline,
                sweep, looked, stalls, told, missed>>
bootOnly == <<site, at, unmet, linked, gate, reported, rung, keyed, running, broken, ordered>>
studiesOnly == <<asked, own, given, study, nextRow, working, outcome>>
walkOnly == <<scan, fills, tallied, curve, peak, fall>>
taxOnly == <<lots, bought, matched, sale, month, fx, taxed>>
usersOnly == <<role, active, invited, accepted, viewing, journal, request, tries, kept, wall>>
tasksOnly == <<workersOnly, queueOnly, shadowOnly, fleetOnly, feedOnly, marketOnly, newsOnly>>
deskOnly == <<healerOnly, bootOnly, studiesOnly, walkOnly, taxOnly, usersOnly>>
vars == <<part, faults, tasksOnly, deskOnly>>

Tasks == {"workers", "queue", "shadow", "fleet", "feed", "market", "news"}
Desk == {"healer", "boot", "studies", "walk", "tax", "users"}
Parts == Tasks \cup Desk

Init ==
    /\ part \in Parts
    /\ Workers!Init /\ Queue!Init /\ Shadow!Init /\ Fleet!Init /\ Feed!Init
    /\ Market!Init /\ News!Init
    /\ Healer!Init /\ Boot!Init /\ Studies!Init /\ Walk!Init /\ Tax!Init /\ Users!Init

TaskNext ==
    /\ UNCHANGED deskOnly
    /\ \/ /\ part = "workers" /\ Workers!Next
          /\ UNCHANGED <<queueOnly, shadowOnly, fleetOnly, feedOnly, marketOnly, newsOnly>>
       \/ /\ part = "queue" /\ Queue!Next
          /\ UNCHANGED <<workersOnly, shadowOnly, fleetOnly, feedOnly, marketOnly, newsOnly>>
       \/ /\ part = "shadow" /\ Shadow!Next
          /\ UNCHANGED <<workersOnly, queueOnly, fleetOnly, feedOnly, marketOnly, newsOnly>>
       \/ /\ part = "fleet" /\ Fleet!Next
          /\ UNCHANGED <<workersOnly, queueOnly, shadowOnly, feedOnly, marketOnly, newsOnly>>
       \/ /\ part = "feed" /\ Feed!Next
          /\ UNCHANGED <<workersOnly, queueOnly, shadowOnly, fleetOnly, marketOnly, newsOnly>>
       \/ /\ part = "market" /\ Market!Next
          /\ UNCHANGED <<workersOnly, queueOnly, shadowOnly, fleetOnly, feedOnly, newsOnly>>
       \/ /\ part = "news" /\ News!Next
          /\ UNCHANGED <<workersOnly, queueOnly, shadowOnly, fleetOnly, feedOnly, marketOnly>>

DeskNext ==
    /\ UNCHANGED tasksOnly
    /\ \/ /\ part = "healer" /\ Healer!Next
          /\ UNCHANGED <<bootOnly, studiesOnly, walkOnly, taxOnly, usersOnly>>
       \/ /\ part = "boot" /\ Boot!Next
          /\ UNCHANGED <<healerOnly, studiesOnly, walkOnly, taxOnly, usersOnly>>
       \/ /\ part = "studies" /\ Studies!Next
          /\ UNCHANGED <<healerOnly, bootOnly, walkOnly, taxOnly, usersOnly>>
       \/ /\ part = "walk" /\ Walk!Next
          /\ UNCHANGED <<faults, healerOnly, bootOnly, studiesOnly, taxOnly, usersOnly>>
       \/ /\ part = "tax" /\ Tax!Next
          /\ UNCHANGED <<healerOnly, bootOnly, studiesOnly, walkOnly, usersOnly>>
       \/ /\ part = "users" /\ Users!Next
          /\ UNCHANGED <<faults, healerOnly, bootOnly, studiesOnly, walkOnly, taxOnly>>

Next == UNCHANGED part /\ (TaskNext \/ DeskNext)

Spec == Init /\ [][Next]_vars

\* Each module's Fairness, of the part that moves.
Of(name, A) == part = name /\ A
Steadily(name, A) == part = name /\ faults' = faults /\ A
Fairness ==
    /\ \A w \in Workers!Workers :
           /\ WF_workersOnly(Of("workers", Workers!Beat(w)))
           /\ WF_workersOnly(Of("workers", Workers!CancelDelivered(w)))
           /\ WF_workersOnly(Of("workers", task[w] # "running" /\ Workers!Age(w)))
    /\ WF_workersOnly(Of("workers", Workers!Steady))
    /\ WF_workersOnly(Of("workers", Workers!WatchdogEnds))
    /\ WF_queueOnly(Of("queue", Queue!Select)) /\ WF_queueOnly(Steadily("queue", Queue!TryRow))
    /\ WF_queueOnly(Of("queue", Queue!Commit)) /\ WF_queueOnly(Of("queue", Queue!RecordPass))
    /\ \A r \in Rows : WF_queueOnly(Of("queue", Queue!FallDue(r)))
    /\ WF_shadowOnly(Steadily("shadow", Shadow!NewBar))
    /\ \A l \in Shadow!Lanes : WF_due(Of("shadow", Shadow!Handled(l)))
    /\ WF_stage(Of("fleet", Fleet!Cycle))
    /\ \A f \in Fleet!Fleets : WF_fleetOnly(Steadily("fleet", Fleet!Reconcile(f)))
    /\ WF_feedOnly(Of("feed", Feed!Child))

FairSpec == Spec /\ Fairness

-----------------------------------------------------------------------------
(* Properties. *)

\* The types, of the part that moves.
TypesOK ==
    CASE part = "workers" -> Workers!TypeOK
      [] part = "queue" -> Queue!TypeOK
      [] part = "shadow" -> Shadow!TypeOK
      [] part = "fleet" -> Fleet!TypeOK
      [] part = "feed" -> Feed!TypeOK
      [] part = "market" -> Market!TypeOK
      [] part = "news" -> News!TypeOK
      [] part = "healer" -> Healer!TypeOK
      [] part = "boot" -> Boot!TypeOK
      [] part = "studies" -> Studies!TypeOK
      [] part = "walk" -> Walk!TypeOK
      [] part = "tax" -> Tax!TypeOK
      [] part = "users" -> Users!TypeOK

\* A dead worker is replaced or paged, and a blind one is found out.
Healed == Workers!DeadWorkerHealed /\ Workers!BlindWorkerFound

\* Never two tasks of one worker before a shutdown.
OneInstance == Workers!OneInstance

\* A warning is sent only for a pass that replaced all it found dead.
WarningMeansHealed == Workers!WarningMeansHealed

\* No prediction waits for ever behind those that cannot be validated, a paper
\* position is closed in the end, a symbol with an open trade keeps being
\* streamed, and crashes never leave a polled symbol's feed stuck.
NothingWaitsForever ==
    /\ part = "queue" => Queue!NobodyStarves
    /\ Shadow!PositionCloses
    /\ Fleet!HeldIsStreamed /\ Feed!FeedCatchesUp

\* A stall of the queue is recorded once, and a paper position that gets no
\* candles was paged.  The healer pages every new type of exception once, tells
\* of every drop, and confirms a stall before it is critical; what a sweep adds
\* to its baseline it tells; and a process that serves without trading paged why.
AlarmsRaised ==
    /\ Queue!OneOnsetPerStall /\ Shadow!UnwatchedIsPaged
    /\ part = "healer" => /\ Healer!NovelIsPaged /\ Healer!DropTold
                         /\ Healer!StallConfirmed /\ Healer!BaselineWasTold
    /\ part = "boot" => Boot!IdleIsTold

\* The break-even variant is the base trade until it arms, and loses nothing
\* once it has; and no restart shortens a paper cooldown.
PaperHonest ==
    /\ [](Shadow!UnarmedIsBase /\ Shadow!ArmedNeverLoses)
    /\ Shadow!CooldownOutlivesRestart

\* What stays in the fleet for its open position, on a collapsed book, is on
\* record with the snapshot that keeps it.
HeldSevereRecorded == Fleet!HeldSevereRecorded

\* No candle vanishes or repeats unpaid, nothing unpersisted is published, one
\* death is one page, and no symbol has two feeders.
FeedHonest ==
    /\ Fleet!FeedersDisjoint
    /\ Feed!NoSilentGap /\ (part = "feed" => Feed!RepeatsArePaidFor)
    /\ Feed!PublishedIsPersisted /\ Feed!OnePagePerDeath

\* The limiter is never overdrawn, votes are taken from fresh candles, candles
\* are asked where the symbol trades, and no headline is lost to a failure.
MarketHonest ==
    /\ Market!NeverOvergrants /\ Market!VotesAreFresh /\ Market!RoutedWhereItTrades
    /\ News!NothingFetchedIsLost /\ News!OnlyLateIsHidden

\* Orders are placed only under the tasks that guard them; a study that runs is
\* worked on; a backtest trades as the paper engine would; a sale takes the
\* oldest lots and bears its own rate; and whoever is viewed is on record.
DeskHonest ==
    /\ part = "boot" => Boot!OrdersAreGuarded
    /\ part = "studies" => /\ Studies!TaskHasItsStudy /\ Studies!RunningIsWorkedOn
                          /\ Studies!EndedByItsTask
    /\ part = "walk" => Walk!NeverOverlap /\ Walk!MirrorsPaper /\ Walk!DrawdownIsWorst
    /\ part = "tax" => /\ Tax!FirstInFirstOut /\ Tax!QueueIsTheRest
                      /\ Tax!SaleIsCovered /\ Tax!RateOfItsTime
    /\ part = "users" => /\ Users!ViewIsJournaled /\ Users!ViewsWereStarted
                        /\ Users!AdmittedWasInvited /\ Users!NeverOverTried
=============================================================================
