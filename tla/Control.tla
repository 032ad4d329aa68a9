------------------------------ MODULE Control ------------------------------
(* Who may change what the backend does, and what it keeps count of: the    *)
(* pause switch, the failure counters, trading modes, model checkpoints,    *)
(* the making of a prediction, and the gates between it and an order. They  *)
(* share no state; a behaviour is one of one of them, `part` says which,    *)
(* and the others stay where they began. The fault budget is one for all.   *)
EXTENDS Integers, FiniteSets, Sequences

CONSTANTS
    MaxFaults,
    Admins, Readers, TTL, MaxTime, MaxFlips,                      \* PauseState
    Symbols, MaxCount,                                            \* CheckEvents
    Calls, MaxDay, Streak, Window, MinTrades, MaxRequests,        \* TradingMode
    Trained, Sharpe, Writers, MaxActs,                            \* ModelRegistry
    Feeds, Settings, Offers, Cap, Others, SnapshotTtl, RegimeTtl, \* DispatchGates
    DedupHours, MaxHour, MaxOffers,
    Native, Lanes, Readings, Records, Fundings, Deltas, NewsItems,\* Prediction
    Checkpoints, WithAssets, Policies, MaxPredictions, MaxMoves

ASSUME BoundsAssumption ==
    /\ MaxFaults \in Nat /\ MaxTime \in Nat /\ MaxFlips \in Nat
    /\ MaxDay \in Nat \ {0} /\ MaxRequests \in Nat /\ MaxActs \in Nat
    /\ MaxHour \in Nat /\ MaxOffers \in Nat
    /\ MaxPredictions \in Nat /\ MaxMoves \in Nat

\* CACHE_TTL_S is positive.
ASSUME CacheAssumption == TTL \in Nat \ {0}

\* _TELEGRAM_THRESHOLDS and _FULLY_AUTO_THRESHOLDS: fully automatic trading is judged on a longer window.
ASSUME WindowAssumption ==
    /\ Window \in [{"telegram-approve", "fully-auto"} -> Nat]
    /\ Window["telegram-approve"] < Window["fully-auto"]

\* A cached snapshot lives for some time; cards are spaced by a number of hours.
ASSUME DispatchAssumption == SnapshotTtl \in Nat \ {0} /\ DedupHours \in Int

\* What build_proposal lets through: positive prices, so that a long's stop is
\* above zero and a short's, half as far as its target, below twice the entry.
\* A tick is a small part of the price.
Fields == {"dir", "score", "pattern", "sure", "adx", "funding", "agreement", "day", "week",
           "confidence", "calibrated", "entry", "stop", "step", "tick"}
Tradable(p) ==
    /\ DOMAIN p = Fields /\ p.dir \in {"LONG", "SHORT"}
    /\ p.entry \in Nat /\ p.tick \in Nat \ {0} /\ 50 * p.tick <= p.entry
    /\ p.stop \in IF p.dir = "LONG" THEN p.tick..p.entry ELSE p.entry..2 * p.entry - 1
ASSUME OffersAssumption == \A s \in Settings : \A p \in Offers[s.name] : Tradable(p)

VARIABLES
    part, faults,
    keys, by, audit, admin, reader, answer, cache, lastHeld, clock, flips,
    truth, total, snapshot, mark, unflushed, staged, row, age, fresh, barred,
    listed, finding, pendingFinding, silent, phase,
    mode, day, closed, call, daily, switch, confirmed, requests,
    rows, active, approved, loaded, swap, acts,
    set, keysLoaded, time, held, losing, snapshots, regime, cards, d, offers, log,
    brain, table, history, record, stats, market, mood, news, pred, files, memo,
    predictions, moves

Pause   == INSTANCE PauseState
Counts  == INSTANCE CheckEvents
Modes   == INSTANCE TradingMode
Brains  == INSTANCE ModelRegistry WITH Checkpoints <- Trained
Gates   == INSTANCE DispatchGates WITH clock <- time, MaxTime <- MaxHour
Predict == INSTANCE Prediction

\* What the predictor is given: votes and fires of known shape, news, the record
\* of a pattern, and a policy that chooses among the five actions.
ASSUME PredictionAssumption ==
    /\ \A r \in Readings : Predict!Readable(r)
    /\ \A r \in Records : r.accuracy \in Int
    /\ NewsItems \subseteq Seq(Predict!Headline)
    /\ \A c \in Checkpoints : Policies[c] \subseteq Predict!Actions

pauseOnly  == <<keys, by, audit, admin, reader, answer, cache, lastHeld, clock, flips>>
countsOnly == <<truth, total, snapshot, mark, unflushed, staged, row, age, fresh, barred,
                listed, finding, pendingFinding, silent, phase>>
modesOnly  == <<mode, day, closed, call, daily, switch, confirmed, requests>>
brainsOnly == <<rows, active, approved, loaded, swap, acts>>
gatesOnly  == <<set, keysLoaded, time, held, losing, snapshots, regime, cards, d, offers, log>>
scoreOnly  == <<brain, table, history, record, stats, market, mood, news, pred, files, memo,
                predictions, moves>>
allVars    == <<part, faults, pauseOnly, countsOnly, modesOnly, brainsOnly, gatesOnly, scoreOnly>>

Init ==
    /\ part \in {"pause", "counts", "modes", "brains", "gates", "scores"}
    /\ Pause!Init /\ Counts!Init /\ Modes!Init /\ Brains!Init /\ Gates!Init
    /\ Predict!Init

Next ==
    /\ UNCHANGED part
    /\ \/ /\ part = "pause" /\ Pause!Next
          /\ UNCHANGED <<countsOnly, modesOnly, brainsOnly, gatesOnly, scoreOnly>>
       \/ /\ part = "counts" /\ Counts!Next
          /\ UNCHANGED <<pauseOnly, modesOnly, brainsOnly, gatesOnly, scoreOnly>>
       \/ /\ part = "modes" /\ Modes!Next
          /\ UNCHANGED <<faults, pauseOnly, countsOnly, brainsOnly, gatesOnly, scoreOnly>>
       \/ /\ part = "brains" /\ Brains!Next
          /\ UNCHANGED <<faults, pauseOnly, countsOnly, modesOnly, gatesOnly, scoreOnly>>
       \/ /\ part = "gates" /\ Gates!Next
          /\ UNCHANGED <<pauseOnly, countsOnly, modesOnly, brainsOnly, scoreOnly>>
       \/ /\ part = "scores" /\ Predict!Next
          /\ UNCHANGED <<pauseOnly, countsOnly, modesOnly, brainsOnly, gatesOnly>>

Spec == Init /\ [][Next]_allVars

\* The types of all six.
TypesOK ==
    /\ Pause!TypeOK /\ Counts!TypeOK /\ Modes!TypeOK /\ Brains!TypeOK /\ Gates!TypeOK
    /\ Predict!TypeOK

\* A flip of the pause switch takes effect within the cache's lifetime, and is
\* attributed to somebody.
PauseHonest == Pause!FlipWithinTTL /\ Pause!PauseAttributed

\* The flushed counters never say more than happened.
NeverOvercounts == Counts!NeverOvercounts

\* Nobody trades in a mode whose gates his trade history never passed, or with a kill switch off that
\* was never confirmed.
Authorised == Modes!EarnedModes /\ Modes!SwitchOffWasConfirmed

\* No model is active or loaded that nobody vouches for.
ApprovedOnly == Brains!ApprovedOnly

\* What dispatch() promises of entries and cards: an automatic position is doubled
\* only by a fault, a card is not repeated, the stop comes before liquidation, a
\* symbol that has long been losing is kept out, and the decision log agrees with
\* the outcome.
DispatchHonest ==
    /\ Gates!EntriesDoubleByFault /\ Gates!CardsSpaced /\ Gates!StopBeforeLiquidation
    /\ Gates!LosersKeptOut /\ Gates!LogExplains

\* What a prediction promises: it trades the direction its traps were checked for,
\* the brain is trained on what it was shown, the funding recorded is the funding
\* the traps saw, and a refitted model is used.
PredictionHonest ==
    /\ Predict!FinalFollowsProposal /\ Predict!TrainSeesServed
    /\ Predict!ReadsAgree /\ Predict!SentinelHonest
=============================================================================
