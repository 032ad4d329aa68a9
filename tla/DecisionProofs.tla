---------------------------- MODULE DecisionProofs ----------------------------
(* What dispatch() promises of orders and cards, what a prediction promises,  *)
(* and the types of all the control machines, for every value of the          *)
(* constants.                                                                 *)
EXTENDS ControlProofs, Sequences, WellFoundedInduction


-----------------------------------------------------------------------------
(* Leverage and the rounded stop.                                             *)

\* The leverage times the stop's distance is at most four fifths of the price,
\* unless the leverage is 1.
LEMMA LeverageBounded ==
    ASSUME NEW entry \in Nat, NEW distance \in Nat,
           NEW L, L = Gates!recommended_leverage(entry, distance, 10)
    PROVE  L \in 1..10 /\ (L > 1 => 10 * (L * distance) <= 8 * entry)
<1>1. CASE distance = 0
  BY <1>1 DEF Gates!recommended_leverage
<1>2. CASE distance # 0
<2> DEFINE Q == (8 * entry) \div (10 * distance)
<2>1. Q \in Nat /\ (10 * distance) * Q <= 8 * entry
  BY <1>2
<2>2. L = Gates!Most(1, Gates!Least(Q, 10))
  BY <1>2 DEF Gates!recommended_leverage
<2>3. L \in 1..10 /\ (L > 1 => L <= Q)
  BY <2>1, <2>2 DEF Gates!Most, Gates!Least
<2>4. L > 1 => (10 * distance) * L <= (10 * distance) * Q
  BY <2>1, <2>3
<2> QED
  BY <2>1, <2>3, <2>4
<1> QED
  BY <1>1, <1>2

\* Rounding takes less than a tick.
LEMMA Rounding ==
    ASSUME NEW x \in Nat, NEW step \in Nat \ {0}
    PROVE  Gates!quantize(x, step) \in x - step + 1 .. x
  BY DEF Gates!quantize

\* The distance from the entry of a proposal's stop, rounded to the tick.
RoundedDistance(p) ==
    Gates!StopDistance([p EXCEPT !.stop = Gates!quantize(p.stop, p.tick)])

LEMMA StopComesFirst ==
    ASSUME NEW p, Tradable(p)
    PROVE  Gates!Leverage(p) * RoundedDistance(p) < p.entry
<1> DEFINE L == Gates!Leverage(p)  D == Gates!StopDistance(p)  R == RoundedDistance(p)
           stop == Gates!quantize(p.stop, p.tick)
<1>1. p.entry \in Nat /\ p.tick \in Nat \ {0} /\ p.stop \in Nat /\ 50 * p.tick <= p.entry
  BY DEF Tradable
<1>2. stop \in p.stop - p.tick + 1 .. p.stop
  BY <1>1, Rounding
<1>3. /\ [p EXCEPT !.stop = stop].dir = p.dir /\ [p EXCEPT !.stop = stop].entry = p.entry
      /\ [p EXCEPT !.stop = stop].stop = stop
  BY DEF Tradable, Fields
<1>4. R = Gates!Most(0, IF p.dir = "LONG" THEN p.entry - stop ELSE stop - p.entry)
  BY <1>3 DEF RoundedDistance, Gates!StopDistance
<1>5. D \in Nat /\ R \in Nat /\ R < D + p.tick /\ R < p.entry
<2> HIDE DEF stop, R
<2>1. CASE p.dir = "LONG"
<3>1. p.stop \in p.tick..p.entry
  BY <2>1 DEF Tradable
<3>2. D = p.entry - p.stop
  BY <1>1, <2>1, <3>1 DEF Gates!StopDistance, Gates!Most
<3>3. R = p.entry - stop
  BY <1>1, <1>2, <1>4, <2>1, <3>1 DEF Gates!Most
<3> QED
  BY <1>1, <1>2, <3>1, <3>2, <3>3
<2>2. CASE p.dir = "SHORT"
<3>1. p.stop \in p.entry..2 * p.entry - 1
  BY <2>2 DEF Tradable
<3>2. D = p.stop - p.entry
  BY <1>1, <2>2, <3>1 DEF Gates!StopDistance, Gates!Most
<3>3. R \in 0..D
  BY <1>1, <1>2, <1>4, <2>2, <3>1, <3>2 DEF Gates!Most
<3> QED
  BY <1>1, <1>2, <3>1, <3>2, <3>3
<2> QED
  BY <2>1, <2>2 DEF Tradable
<1>6. L \in 1..10 /\ (L > 1 => 10 * (L * D) <= 8 * p.entry)
<2>1. L = Gates!recommended_leverage(p.entry, D, 10)
  BY DEF Gates!Leverage
<2> HIDE DEF L, D
<2> QED
  BY <2>1, <1>1, <1>5, LeverageBounded
<1>7. CASE L = 1
  BY <1>5, <1>7
<1>8. CASE L > 1
<2> HIDE DEF L, D, R, stop
<2>1. L * R <= L * (D + p.tick - 1)
  BY <1>1, <1>5, <1>6
<2>2. L * (D + p.tick - 1) = L * D + L * (p.tick - 1)
  BY <1>1, <1>5, <1>6
<2>3. L * (p.tick - 1) <= 10 * (p.tick - 1)
  BY <1>1, <1>6
<2>4. L * D \in Int /\ L * R \in Int /\ L * (p.tick - 1) \in Int
  BY <1>1, <1>5, <1>6
<2>5. \A a, b, c, E, t \in Int :
        a <= b + c /\ 10 * b <= 8 * E /\ c <= 10 * (t - 1) /\ 50 * t <= E => a < E
  OBVIOUS
<2>6. 10 * (L * D) <= 8 * p.entry /\ L * R <= L * D + L * (p.tick - 1)
  BY <2>1, <2>2, <1>6, <1>8
<2>7. p.entry \in Int /\ p.tick \in Int
  BY <1>1
<2>8. L * R < p.entry
  BY <1>1, <2>3, <2>4, <2>5, <2>6, <2>7, Zenon
<2> QED
  BY <2>8 DEF L, R
<1> QED
  BY <1>6, <1>7, <1>8

\* Tightening keeps all of a proposal but its stop, and keeps it tradable.
LEMMA TightenedIsTradable ==
    ASSUME NEW p, NEW s, Tradable(p)
    PROVE  /\ Tradable(Gates!Tightened(p, s))
           /\ \A k \in Fields \ {"stop"} : Gates!Tightened(p, s)[k] = p[k]
<1>1. CASE Gates!Tightened(p, s) = p
  BY <1>1
<1>2. CASE Gates!Tightened(p, s) # p
<2>1. p.dir = "SHORT"
      /\ Gates!Tightened(p, s) = [p EXCEPT !.stop = p.entry + ((p.stop - p.entry) * 80) \div 100]
  BY <1>2 DEF Gates!Tightened
<2>2. p.entry \in Nat /\ p.stop \in p.entry..2 * p.entry - 1
  BY <2>1 DEF Tradable
<2>3. p.entry + ((p.stop - p.entry) * 80) \div 100 \in p.entry..2 * p.entry - 1
  BY <2>2
<2> QED
  BY <2>1, <2>3 DEF Tradable, Fields
<1> QED
  BY <1>1, <1>2

-----------------------------------------------------------------------------
(* The entry-quality gate and its log agree.                                  *)

\* The log names a check exactly when the gate blocks.
LEMMA BlockingExplains ==
    ASSUME NEW p, NEW s, NEW r
    PROVE  Gates!Blocking(p, s, r) # {} <=> ~Gates!Allowed(p, s, r)
  BY DEF Gates!Blocking, Gates!Allowed

\* The gate does not look at the stop.
LEMMA TightenedIsAllowed ==
    ASSUME NEW p, NEW s, NEW r, Tradable(p)
    PROVE  Gates!Allowed(Gates!Tightened(p, s), s, r) <=> Gates!Allowed(p, s, r)
<1> DEFINE q == Gates!Tightened(p, s)
<1>1. /\ q.dir = p.dir /\ q.pattern = p.pattern /\ q.sure = p.sure /\ q.adx = p.adx
      /\ q.score = p.score
  BY TightenedIsTradable DEF Fields
<1> HIDE DEF q
<1>2. Gates!ShortDisabled(q, s) <=> Gates!ShortDisabled(p, s)
  BY <1>1 DEF Gates!ShortDisabled
<1>3. Gates!WrongRegime(q, s, r) <=> Gates!WrongRegime(p, s, r)
  BY <1>1 DEF Gates!WrongRegime, Gates!Agrees
<1>4. Gates!WeakTrend(q, s) <=> Gates!WeakTrend(p, s)
  BY <1>1 DEF Gates!WeakTrend
<1>5. Gates!Conviction(q, s) = Gates!Conviction(p, s)
  BY <1>1 DEF Gates!Conviction, Gates!Agrees, Gates!Opposes
<1>6. Gates!BelowBar(q, s) <=> Gates!BelowBar(p, s)
  BY <1>1, <1>5 DEF Gates!BelowBar
<1> QED
  BY <1>2, <1>3, <1>4, <1>6 DEF Gates!Allowed, q

-----------------------------------------------------------------------------
(* The inductive invariant.                                                   *)

Parts == {"pc", "outcome", "p", "n", "mode", "count", "aborted", "regime"}
Ungated == {"emitted", "blocked_low_sharpe", "blocked_entry_quality"}

\* What is known of the dispatch e the feed f is in: it still owes at most one order,
\* its proposal can be traded, its symbol has not long been losing, what it passed it passed in
\* the regime it remembers; and unless the borrow veto poisons its session anyway, it is
\* about to place, or blind, only if a fault can be blamed for a second order.
Sound(e, f) ==
    \/ e.pc = "idle"
    \/ /\ e.pc \in {"allowlist", "quality", "symbol", "place", "card", "log"}
       /\ DOMAIN e = Parts /\ Tradable(e.p) /\ e.n \in 0..time /\ e.aborted \in BOOLEAN
       /\ e.pc # "log" => held[f] < offers
       /\ set.allowlist /\ e.pc \in {"quality", "symbol", "place", "card"} /\ ~e.aborted =>
              losing[f] = -1 \/ e.n - losing[f] < SnapshotTtl
       /\ ~set.borrowVeto /\ e.pc \in {"allowlist", "quality", "symbol", "card"} /\ e.aborted
              => held[f] <= faults
       /\ ~set.borrowVeto /\ e.pc = "place" => held[f] <= faults
       /\ e.pc \in {"symbol", "place", "card"} => Gates!Allowed(e.p, set, e.regime)
       /\ e.pc = "log" =>
            /\ e.outcome \in Gates!Outcomes
            /\ e.outcome = "blocked_entry_quality" => ~Gates!Allowed(e.p, set, e.regime)
            /\ e.outcome \notin Ungated => Gates!Allowed(e.p, set, e.regime)

Posted == [symbol : Feeds, dir : {"LONG", "SHORT"}, at : Int, out : Int, kept : BOOLEAN]

\* The dispatches and what they hold.
FlowInv ==
    /\ set \in Settings /\ keysLoaded \in BOOLEAN
    /\ held \in [Feeds -> Nat] /\ \A f \in Feeds : held[f] <= offers
    /\ time \in 0..MaxHour /\ offers \in 0..MaxOffers /\ losing \in [Feeds -> -1..time]
    /\ d = [f \in Feeds |-> d[f]] /\ \A f \in Feeds : Sound(d[f], f)
    /\ ~set.borrowVeto => \A f \in Feeds : held[f] <= 1 + faults

\* The cache, the cards and the log.
DataInv ==
    /\ snapshots.at \in Int /\ snapshots.at <= time
    /\ \A f \in Feeds : f \in snapshots.of \/ losing[f] = -1 \/ snapshots.at <= losing[f]
    /\ cards \in Seq(Posted) /\ Gates!CardsSpaced
    /\ log.pc = "logged" => log.outcome \in Gates!Outcomes
    /\ Gates!LogExplains

\* What another feed does leaves a dispatch sound.
LEMMA StaysSound ==
    ASSUME FlowInv, faults \in Nat, NEW f \in Feeds, Budget,
           offers' \in Nat, offers' >= offers, time' \in Nat, time' >= time,
           held'[f] = held[f], set' = set, d'[f] = d[f], losing'[f] \in {losing[f], -1, time}
    PROVE  Sound(d[f], f)'
<1>1. faults' >= faults /\ faults' \in Nat
  BY DEF Budget
<1>2. held[f] \in Nat /\ offers \in Nat /\ time \in Nat /\ losing[f] \in -1..time
  BY DEF FlowInv
<1>3. Sound(d[f], f)
  BY DEF FlowInv
<1> QED
  BY <1>1, <1>2, <1>3, DispatchAssumption DEF Sound

\* A step of one dispatch: if it stays sound, all do.
LEMMA OneMoves ==
    ASSUME FlowInv, faults \in Nat, Budget, NEW f \in Feeds, NEW e, d' = [d EXCEPT ![f] = e],
           set' = set, time' = time, keysLoaded' = keysLoaded, losing' = losing,
           offers' \in 0..MaxOffers, offers' >= offers,
           held' = [held EXCEPT ![f] = held'[f]], held'[f] \in 0..offers',
           ~set.borrowVeto => held'[f] <= 1 + faults',
           Sound(e, f)'
    PROVE  FlowInv'
<1>1. \A g \in Feeds : d'[g] = IF g = f THEN e ELSE d[g]
  BY DEF FlowInv
<1>2. ASSUME NEW g \in Feeds PROVE Sound(d[g], g)'
<2>1. CASE g = f
  BY <1>1, <2>1
<2>2. CASE g # f
<3>1. held'[g] = held[g] /\ time \in Nat /\ offers' \in Nat
  BY <2>2, BoundsAssumption DEF FlowInv
<3> QED
  BY <1>1, <2>2, <3>1, StaysSound
<2> QED
  BY <2>1, <2>2
<1>3. held' \in [Feeds -> Nat] /\ \A g \in Feeds : held'[g] <= offers'
  BY BoundsAssumption DEF FlowInv
<1>4. ~set.borrowVeto => \A g \in Feeds : held'[g] <= 1 + faults'
  BY DEF FlowInv, Budget
<1>5. d' = [g \in Feeds |-> d'[g]]
  BY DEF FlowInv
<1> QED
  BY <1>2, <1>3, <1>4, <1>5 DEF FlowInv

\* The same of a step that does not touch the positions.
LEMMA DispatchMoves ==
    ASSUME FlowInv, faults \in Nat, Budget, NEW f \in Feeds, NEW e, d' = [d EXCEPT ![f] = e],
           UNCHANGED <<set, time, keysLoaded, losing, offers, held>>, Sound(e, f)'
    PROVE  FlowInv'
<1>1. held' = [held EXCEPT ![f] = held'[f]] /\ held'[f] \in 0..offers'
      /\ offers' \in 0..MaxOffers /\ offers' >= offers
  BY BoundsAssumption DEF FlowInv
<1>2. ~set.borrowVeto => held'[f] <= 1 + faults'
  BY DEF FlowInv, Budget
<1> QED
  BY <1>1, <1>2, OneMoves

\* A dispatch that ends with an outcome the gate's verdict explains is sound.
LEMMA EndIsSound ==
    ASSUME FlowInv, NEW f \in Feeds, d[f].pc # "idle", NEW e, NEW outcome \in Gates!Outcomes,
           outcome = "blocked_entry_quality" => ~Gates!Allowed(d[f].p, set, e.regime),
           outcome \notin Ungated => Gates!Allowed(d[f].p, set, e.regime),
           DOMAIN e = Parts, e.pc = "log", e.outcome = outcome, e.p = d[f].p, e.n = d[f].n,
           e.aborted = d[f].aborted, set' = set, time' = time
    PROVE  Sound(e, f)'
  BY DEF FlowInv, Sound

LEMMA EndingIsSound ==
    ASSUME FlowInv, NEW f \in Feeds, NEW outcome \in Gates!Outcomes,
           d[f].pc \in {"allowlist", "symbol", "place", "card"},
           outcome # "blocked_entry_quality", outcome \notin Ungated => d[f].pc # "allowlist",
           NEW e, e = [d[f] EXCEPT !.pc = "log", !.outcome = outcome],
           set' = set, time' = time
    PROVE  Sound(e, f)'
<1>1. Sound(d[f], f) /\ DOMAIN d[f] = Parts
  BY DEF FlowInv, Sound
<1>2. /\ e.pc = "log" /\ e.outcome = outcome /\ DOMAIN e = Parts
      /\ e.p = d[f].p /\ e.n = d[f].n /\ e.aborted = d[f].aborted /\ e.regime = d[f].regime
  BY <1>1 DEF Parts
<1>3. outcome \notin Ungated => Gates!Allowed(d[f].p, set, e.regime)
  BY <1>1, <1>2 DEF Sound
<1> QED
  BY <1>1, <1>2, <1>3, EndIsSound

-----------------------------------------------------------------------------
(* Its steps.                                                                 *)

LEMMA DispatchKeepsFlow ==
    ASSUME FlowInv, faults \in Nat, NEW f \in Feeds, Gates!Dispatch(f) PROVE FlowInv'
<1>0. PICK p \in Offers[set.name], mode_ \in {"manual", "telegram-approve", "fully-auto"} :
        \E count, e :
           /\ e = [pc |-> IF mode_ = "manual" THEN "log" ELSE "allowlist",
                   outcome |-> IF mode_ = "manual" THEN "emitted" ELSE "none",
                   p |-> p, n |-> time, mode |-> mode_, count |-> count, aborted |-> FALSE,
                   regime |-> "none"]
           /\ d' = [d EXCEPT ![f] = e]
  BY Zenon DEF Gates!Dispatch, Gates!None
<1>1. PICK count, e :
        /\ e = [pc |-> IF mode_ = "manual" THEN "log" ELSE "allowlist",
                outcome |-> IF mode_ = "manual" THEN "emitted" ELSE "none",
                p |-> p, n |-> time, mode |-> mode_, count |-> count, aborted |-> FALSE,
                regime |-> "none"]
        /\ d' = [d EXCEPT ![f] = e]
  BY <1>0, Zenon
<1>2. /\ offers < MaxOffers /\ offers' = offers + 1
      /\ UNCHANGED <<set, time, keysLoaded, held, losing, faults>> /\ Gates!At(f, "idle")
  BY DEF Gates!Dispatch, Gates!world, Gates!Fine
<1>3. Tradable(p)
  BY <1>1, OffersAssumption DEF FlowInv
<1>4. held[f] <= offers /\ offers \in Nat /\ time \in Nat /\ held[f] \in Nat
  BY BoundsAssumption DEF FlowInv
<1>5. /\ e.pc \in {"log", "allowlist"} /\ e.p = p /\ e.n = time
      /\ e.aborted \in BOOLEAN /\ ~e.aborted
      /\ DOMAIN e = Parts /\ (e.pc = "log" => e.outcome = "emitted")
  BY <1>1 DEF Parts
<1>6. Sound(e, f)'
  BY <1>2, <1>3, <1>4, <1>5, DispatchAssumption DEF Sound, Gates!Outcomes, Ungated
<1>7. ~set.borrowVeto => held'[f] <= 1 + faults'
  BY <1>2 DEF FlowInv
<1>8. held' = [held EXCEPT ![f] = held'[f]] /\ held'[f] \in 0..offers'
  BY <1>2, <1>4 DEF FlowInv
<1>9. offers' \in 0..MaxOffers /\ offers' >= offers /\ Budget
  BY <1>2, <1>4, BoundsAssumption DEF Budget
<1> QED
  BY <1>1, <1>2, <1>6, <1>7, <1>8, <1>9, OneMoves

LEMMA AllowlistKeepsFlow ==
    ASSUME FlowInv, DataInv, faults \in Nat, NEW f \in Feeds, Gates!Allowlist(f) PROVE FlowInv'
<1>1. d[f].pc = "allowlist" /\ UNCHANGED <<set, time, keysLoaded, held, losing, offers>>
  BY DEF Gates!Allowlist, Gates!At, Gates!world
<1>2. /\ Sound(d[f], f) /\ DOMAIN d[f] = Parts /\ d[f].n \in 0..time /\ time \in Nat
      /\ losing[f] \in -1..time /\ held[f] \in Nat
  BY <1>1, BoundsAssumption DEF FlowInv, Sound
<1>3. Budget
  BY Zenon DEF Gates!Allowlist, Gates!FailsOpen, Gates!Fine, Gates!Fault, Budget
<1>4. ASSUME NEW e, d' = [d EXCEPT ![f] = e], Sound(e, f)' PROVE FlowInv'
  BY <1>1, <1>3, <1>4, DispatchMoves
<1>5. CASE d' = [d EXCEPT ![f] = [d[f] EXCEPT !.pc = "log", !.outcome = "blocked_low_sharpe"]]
<2>1. PICK e : e = [d[f] EXCEPT !.pc = "log", !.outcome = "blocked_low_sharpe"]
  OBVIOUS
<2>2. "blocked_low_sharpe" \in Gates!Outcomes /\ "blocked_low_sharpe" \in Ungated
  BY DEF Gates!Outcomes, Ungated
<2>3. Sound(e, f)'
  BY <1>1, <2>1, <2>2, EndingIsSound
<2> QED
  BY <1>4, <1>5, <2>1, <2>3
<1>6. ASSUME d' = [d EXCEPT ![f] = [d[f] EXCEPT !.pc = "quality"]],
             set.allowlist => losing[f] = -1 \/ d[f].n - losing[f] < SnapshotTtl
      PROVE  FlowInv'
<2>1. PICK e : e = [d[f] EXCEPT !.pc = "quality"]
  OBVIOUS
<2>2. /\ e.pc = "quality" /\ DOMAIN e = Parts /\ e.p = d[f].p
      /\ e.n = d[f].n /\ e.aborted = d[f].aborted
  BY <1>2, <2>1 DEF Parts
<2>3. Sound(e, f)'
  BY <1>1, <1>2, <1>3, <1>6, <2>2 DEF Sound, Budget
<2> QED
  BY <1>4, <1>6, <2>1, <2>3
<1>7. CASE /\ d' = [d EXCEPT ![f] = [[d[f] EXCEPT !.pc = "quality"] EXCEPT !.aborted = TRUE]]
           /\ faults' = faults + 1
<2>1. PICK e : e = [[d[f] EXCEPT !.pc = "quality"] EXCEPT !.aborted = TRUE]
  OBVIOUS
<2>2. /\ e.pc = "quality" /\ DOMAIN e = Parts /\ e.p = d[f].p
      /\ e.n = d[f].n /\ e.aborted \in BOOLEAN /\ e.aborted
  BY <1>2, <2>1 DEF Parts
<2>3. ~set.borrowVeto => held[f] <= 1 + faults
  BY DEF FlowInv
<2>4. Sound(e, f)'
  BY <1>1, <1>2, <1>7, <2>2, <2>3 DEF Sound
<2> QED
  BY <1>4, <1>7, <2>1, <2>4
<1>8. CASE ~set.allowlist /\ Gates!Go(f, [d[f] EXCEPT !.pc = "quality"])
  BY <1>6, <1>8, Zenon DEF Gates!Go
\* Whoever loses for long was losing when the snapshots in the cache were read.
<1>9. CASE Gates!SnapshotsFresh(d[f].n) /\ f \notin snapshots.of
           /\ Gates!Go(f, [d[f] EXCEPT !.pc = "quality"])
<2>1. losing[f] = -1 \/ snapshots.at <= losing[f]
  BY <1>9 DEF DataInv
<2>2. snapshots.at \in Int /\ d[f].n - snapshots.at < SnapshotTtl
  BY <1>9 DEF Gates!SnapshotsFresh, DataInv
<2>3. losing[f] = -1 \/ d[f].n - losing[f] < SnapshotTtl
  BY <1>2, <2>1, <2>2, DispatchAssumption
<2> QED
  BY <1>6, <1>9, <2>3, Zenon DEF Gates!Go
<1>10. CASE f \notin Gates!Losers /\ Gates!Go(f, [d[f] EXCEPT !.pc = "quality"])
  BY <1>6, <1>10, Zenon DEF Gates!Go, Gates!Losers, Gates!Never
<1> QED
<2>1. \/ ~set.allowlist /\ Gates!Go(f, [d[f] EXCEPT !.pc = "quality"])
      \/ Gates!Ends(f, "blocked_low_sharpe")
      \/ /\ Gates!SnapshotsFresh(d[f].n) /\ f \notin snapshots.of
         /\ Gates!Go(f, [d[f] EXCEPT !.pc = "quality"])
      \/ f \notin Gates!Losers /\ Gates!Go(f, [d[f] EXCEPT !.pc = "quality"])
      \/ Gates!FailsOpen(f, [d[f] EXCEPT !.pc = "quality"])
  BY Zenon DEF Gates!Allowlist
<2>2. Gates!Ends(f, "blocked_low_sharpe") => FlowInv'
  BY <1>5, Zenon DEF Gates!Ends, Gates!Go
<2>3. Gates!FailsOpen(f, [d[f] EXCEPT !.pc = "quality"]) => FlowInv'
  BY <1>7, Zenon DEF Gates!FailsOpen, Gates!Fault, Gates!Go
<2> QED
  BY <1>8, <1>9, <1>10, <2>1, <2>2, <2>3, Zenon

LEMMA QualityKeepsFlow ==
    ASSUME FlowInv, faults \in Nat, NEW f \in Feeds, Gates!Quality(f) PROVE FlowInv'
<1> DEFINE p == d[f].p
<1>1. d[f].pc = "quality" /\ UNCHANGED <<set, time, keysLoaded, held, losing, offers>>
  BY DEF Gates!Quality, Gates!At, Gates!world
<1>2. Sound(d[f], f) /\ DOMAIN d[f] = Parts /\ d[f].n \in Int /\ Tradable(p)
      /\ held[f] \in Nat /\ d[f].aborted \in BOOLEAN
  BY <1>1 DEF FlowInv, Sound
<1>3. Budget
  BY Zenon DEF Gates!Quality, Gates!Faulty, Gates!Fine, Gates!Fault, Budget
<1>4. ASSUME NEW e, d' = [d EXCEPT ![f] = e], Sound(e, f)' PROVE FlowInv'
  BY <1>1, <1>3, <1>4, DispatchMoves
<1>5. ASSUME NEW r, NEW why \in Gates!Outcomes,
             why = "blocked_entry_quality" => ~Gates!Allowed(p, set, r),
             why \notin Ungated => Gates!Allowed(p, set, r),
             d' = [d EXCEPT ![f] = [d[f] EXCEPT !.pc = "log", !.regime = r, !.outcome = why]]
      PROVE  FlowInv'
<2>1. PICK e : e = [d[f] EXCEPT !.pc = "log", !.regime = r, !.outcome = why]
  OBVIOUS
<2>2. /\ e.pc = "log" /\ e.outcome = why /\ DOMAIN e = Parts
      /\ e.p = p /\ e.n = d[f].n /\ e.aborted = d[f].aborted /\ e.regime = r
  BY <1>2, <2>1 DEF Parts
<2>3. Sound(e, f)'
  BY <1>1, <1>5, <2>2, EndIsSound
<2> QED
  BY <1>4, <1>5, <2>1, <2>3
<1>6. ASSUME NEW r, NEW failed, Gates!Allowed(p, set, r), failed => faults' = faults + 1,
             NEW poisoned, poisoned \in BOOLEAN,
             ~set.borrowVeto /\ poisoned => d[f].aborted \/ failed, d[f].aborted => poisoned,
             d' = [d EXCEPT ![f] = [d[f] EXCEPT !.pc = "symbol", !.regime = r,
                                       !.p = Gates!Tightened(p, set), !.aborted = poisoned]]
      PROVE  FlowInv'
<2>1. PICK e : e = [d[f] EXCEPT !.pc = "symbol", !.regime = r, !.p = Gates!Tightened(p, set),
                                !.aborted = poisoned]
  OBVIOUS
<2>2. /\ e.pc = "symbol" /\ DOMAIN e = Parts /\ e.p = Gates!Tightened(p, set)
      /\ e.n = d[f].n /\ e.aborted = poisoned /\ e.regime = r
  BY <1>2, <2>1 DEF Parts
<2>3. Tradable(e.p) /\ Gates!Allowed(e.p, set, r)
  BY <1>2, <1>6, <2>2, TightenedIsTradable, TightenedIsAllowed
<2>4. ~set.borrowVeto /\ poisoned => held[f] <= faults'
<3>1. ~set.borrowVeto => held[f] <= 1 + faults
  BY DEF FlowInv
<3>2. ~set.borrowVeto /\ d[f].aborted => held[f] <= faults
  BY <1>1, <1>2 DEF Sound
<3> QED
  BY <1>2, <1>3, <1>6, <3>1, <3>2 DEF Budget
<2>5. Sound(e, f)'
  BY <1>1, <1>2, <1>6, <2>2, <2>3, <2>4 DEF Sound
<2> QED
  BY <1>4, <1>6, <2>1, <2>5
<1> HIDE DEF p
<1>7. PICK r \in Gates!Regimes, failed \in SUBSET {"regime", "cooldown"} :
        /\ Gates!Faulty(failed)
        /\ IF ~Gates!Allowed(p, set, r) \/ Gates!FundingBlocks(p)
           THEN d' = [d EXCEPT ![f] = [d[f] EXCEPT !.pc = "log", !.regime = r,
                        !.outcome = IF Gates!Allowed(p, set, r) THEN "blocked_funding"
                                    ELSE "blocked_entry_quality"]]
           ELSE \/ \E why \in {"blocked_mtf_low_agreement", "blocked_mtf_higher_tf_veto"} :
                     d' = [d EXCEPT ![f] = [d[f] EXCEPT !.pc = "log", !.regime = r, !.outcome = why]]
                \/ d' = [d EXCEPT ![f] = [d[f] EXCEPT !.pc = "symbol", !.regime = r,
                             !.p = Gates!Tightened(p, set),
                             !.aborted = @ \/ "cooldown" \in failed
                                         \/ (p.dir = "SHORT" /\ set.borrowVeto)]]
  BY DEF Gates!Quality, Gates!Go, Gates!None, p
<1>8. failed # {} => faults' = faults + 1
  BY <1>7 DEF Gates!Faulty, Gates!Fault
<1>9. CASE ~Gates!Allowed(p, set, r) \/ Gates!FundingBlocks(p)
  BY <1>5, <1>7, <1>9 DEF p, Gates!Outcomes, Ungated
<1>10. CASE /\ Gates!Allowed(p, set, r)
            /\ \E why \in {"blocked_mtf_low_agreement", "blocked_mtf_higher_tf_veto"} :
                     d' = [d EXCEPT ![f] = [d[f] EXCEPT !.pc = "log", !.regime = r, !.outcome = why]]
  BY <1>5, <1>10 DEF p, Gates!Outcomes, Ungated
<1>11. CASE /\ Gates!Allowed(p, set, r)
            /\ d' = [d EXCEPT ![f] = [d[f] EXCEPT !.pc = "symbol", !.regime = r,
                             !.p = Gates!Tightened(p, set),
                             !.aborted = @ \/ "cooldown" \in failed
                                         \/ (p.dir = "SHORT" /\ set.borrowVeto)]]
<2> DEFINE poisoned == d[f].aborted \/ "cooldown" \in failed \/ (p.dir = "SHORT" /\ set.borrowVeto)
<2>1. poisoned \in BOOLEAN
  OBVIOUS
<2>2. (~set.borrowVeto /\ poisoned => d[f].aborted \/ failed # {}) /\ (d[f].aborted => poisoned)
  OBVIOUS
<2>3. d' = [d EXCEPT ![f] = [d[f] EXCEPT !.pc = "symbol", !.regime = r,
                             !.p = Gates!Tightened(p, set), !.aborted = poisoned]]
  BY <1>11, Zenon
<2> QED
  BY <1>6, <1>8, <1>11, <2>1, <2>2, <2>3, Zenon DEF p
<1> QED
  BY <1>7, <1>9, <1>10, <1>11

LEMMA SymbolGateKeepsFlow ==
    ASSUME FlowInv, faults \in Nat, NEW f \in Feeds, Gates!SymbolGate(f) PROVE FlowInv'
<1>1. d[f].pc = "symbol" /\ UNCHANGED <<set, time, keysLoaded, held, losing, offers>>
  BY DEF Gates!SymbolGate, Gates!At, Gates!world
<1>2. Sound(d[f], f) /\ DOMAIN d[f] = Parts /\ held[f] \in Nat /\ d[f].aborted \in BOOLEAN
  BY <1>1 DEF FlowInv, Sound
<1>3. Budget
  BY Zenon DEF Gates!SymbolGate, Gates!Fine, Gates!Fault, Budget
<1>4. ASSUME NEW e, d' = [d EXCEPT ![f] = e], Sound(e, f)' PROVE FlowInv'
  BY <1>1, <1>3, <1>4, DispatchMoves
<1>5. ASSUME NEW outcome \in {"blocked_symbol_position_open", "blocked_max_positions"},
             d' = [d EXCEPT ![f] = [d[f] EXCEPT !.pc = "log", !.outcome = outcome]]
      PROVE  FlowInv'
<2>1. PICK e : e = [d[f] EXCEPT !.pc = "log", !.outcome = outcome]
  OBVIOUS
<2>2. outcome \in Gates!Outcomes /\ outcome # "blocked_entry_quality"
  BY DEF Gates!Outcomes
<2>3. Sound(e, f)'
  BY <1>1, <2>1, <2>2, EndingIsSound
<2> QED
  BY <1>4, <1>5, <2>1, <2>3
<1>6. ASSUME NEW to \in {"place", "card"}, d[f].aborted \/ held[f] = 0,
             d' = [d EXCEPT ![f] = [d[f] EXCEPT !.pc = to]]
      PROVE  FlowInv'
<2>1. PICK e : e = [d[f] EXCEPT !.pc = to]
  OBVIOUS
<2>2. /\ e.pc = to /\ DOMAIN e = Parts /\ e.p = d[f].p /\ e.n = d[f].n
      /\ e.aborted = d[f].aborted /\ e.regime = d[f].regime
  BY <1>2, <2>1 DEF Parts
<2>3. Sound(e, f)'
  BY <1>1, <1>2, <1>3, <1>6, <2>2 DEF Sound, Budget
<2> QED
  BY <1>4, <1>6, <2>1, <2>3
<1>7. ASSUME NEW to \in {"place", "card"}, faults' = faults + 1,
             d' = [d EXCEPT ![f] = [[d[f] EXCEPT !.pc = to] EXCEPT !.aborted = TRUE]]
      PROVE  FlowInv'
<2>1. PICK e : e = [[d[f] EXCEPT !.pc = to] EXCEPT !.aborted = TRUE]
  OBVIOUS
<2>2. /\ e.pc = to /\ DOMAIN e = Parts /\ e.p = d[f].p /\ e.n = d[f].n
      /\ e.aborted \in BOOLEAN /\ e.aborted /\ e.regime = d[f].regime
  BY <1>2, <2>1 DEF Parts
<2>3. ~set.borrowVeto => held[f] <= 1 + faults
  BY DEF FlowInv
<2>4. Sound(e, f)'
  BY <1>1, <1>2, <1>7, <2>2, <2>3 DEF Sound
<2> QED
  BY <1>4, <1>7, <2>1, <2>4
<1>8. PICK to \in {"place", "card"} :
        to = IF d[f].mode = "fully-auto" \/ Gates!Hybrid(d[f].p) THEN "place" ELSE "card"
  OBVIOUS
<1> QED
  BY <1>2, <1>5, <1>6, <1>7, <1>8
     DEF Gates!SymbolGate, Gates!Poisoned, Gates!Ends, Gates!Go, Gates!Fault

LEMMA PlaceKeepsFlow ==
    ASSUME FlowInv, faults \in Nat, NEW f \in Feeds, Gates!Place(f) PROVE FlowInv'
<1>1. d[f].pc = "place" /\ UNCHANGED <<set, time, keysLoaded, losing, offers, faults>>
  BY DEF Gates!Place, Gates!At, Gates!world, Gates!Fine
<1>0. PICK outcome \in {"placed", "placed_hybrid", "error"} :
        \E e : e = [d[f] EXCEPT !.pc = "log", !.outcome = outcome] /\ d' = [d EXCEPT ![f] = e]
  BY Zenon DEF Gates!Place, Gates!Ends, Gates!Go
<1>2. PICK e : e = [d[f] EXCEPT !.pc = "log", !.outcome = outcome] /\ d' = [d EXCEPT ![f] = e]
  BY <1>0, Zenon
<1>3. held' = [held EXCEPT ![f] = held[f] + 1] \/ UNCHANGED held
  BY Zenon DEF Gates!Place
<1>4. outcome \in Gates!Outcomes /\ outcome # "blocked_entry_quality"
  BY DEF Gates!Outcomes
<1>5. Sound(e, f)'
  BY <1>1, <1>2, <1>4, EndingIsSound
<1>6. /\ held \in [Feeds -> Nat] /\ held[f] \in Nat /\ held[f] < offers /\ offers \in 0..MaxOffers
      /\ ~set.borrowVeto => held[f] <= faults
  BY <1>1, BoundsAssumption DEF FlowInv, Sound
<1>7. /\ held' = [held EXCEPT ![f] = held'[f]] /\ held'[f] \in 0..offers'
      /\ ~set.borrowVeto => held'[f] <= 1 + faults'
  BY <1>1, <1>3, <1>6, BoundsAssumption
<1>8. offers' \in 0..MaxOffers /\ offers' >= offers /\ Budget
  BY <1>1, <1>6, BoundsAssumption DEF Budget
<1> QED
  BY <1>1, <1>2, <1>5, <1>7, <1>8, OneMoves

LEMMA CardKeepsFlow ==
    ASSUME FlowInv, faults \in Nat, NEW f \in Feeds, Gates!Card(f) PROVE FlowInv'
<1>1. d[f].pc = "card" /\ UNCHANGED <<set, time, keysLoaded, held, losing, offers>>
  BY DEF Gates!Card, Gates!At, Gates!world
<1>2. Budget
  BY Zenon DEF Gates!Card, Gates!Fine, Gates!Fault, Budget
<1>3. ASSUME NEW e, d' = [d EXCEPT ![f] = e], Sound(e, f)' PROVE FlowInv'
  BY <1>1, <1>2, <1>3, DispatchMoves
<1>4. ASSUME NEW outcome \in {"error", "suppressed_telegram_dedup", "sent_telegram"},
             d' = [d EXCEPT ![f] = [d[f] EXCEPT !.pc = "log", !.outcome = outcome]]
      PROVE  FlowInv'
<2>1. PICK e : e = [d[f] EXCEPT !.pc = "log", !.outcome = outcome]
  OBVIOUS
<2>2. outcome \in Gates!Outcomes /\ outcome # "blocked_entry_quality"
  BY DEF Gates!Outcomes
<2>3. Sound(e, f)'
  BY <1>1, <2>1, <2>2, EndingIsSound
<2> QED
  BY <1>3, <1>4, <2>1, <2>3
<1>5. CASE d' = [d EXCEPT ![f] = Gates!Nobody]
<2>1. PICK e : e = Gates!Nobody
  OBVIOUS
<2>2. Sound(e, f)'
  BY <2>1 DEF Sound, Gates!Nobody
<2> QED
  BY <1>3, <1>5, <2>1, <2>2
<1> QED
  BY <1>4, <1>5, Zenon DEF Gates!Card, Gates!Ends, Gates!Go

LEMMA LogKeepsFlow ==
    ASSUME FlowInv, faults \in Nat, NEW f \in Feeds, Gates!Log(f) PROVE FlowInv'
<1>1. UNCHANGED <<set, time, keysLoaded, held, losing, offers>> /\ d' = [d EXCEPT ![f] = Gates!Nobody]
  BY DEF Gates!Log, Gates!At, Gates!world, Gates!Go
<1>2. Budget
  BY Zenon DEF Gates!Log, Gates!Faulty, Gates!Fine, Gates!Fault, Budget
<1>3. PICK e : e = Gates!Nobody
  OBVIOUS
<1>4. Sound(e, f)'
  BY <1>3 DEF Sound, Gates!Nobody
<1> QED
  BY <1>1, <1>2, <1>3, <1>4, DispatchMoves

LEMMA AroundKeepsFlow ==
    ASSUME FlowInv, faults \in Nat, Gates!Boot \/ Gates!Tick \/ Gates!Refresh \/ Gates!Restart
    PROVE  FlowInv'
<1>1. ASSUME Gates!Boot \/ Gates!Tick \/ Gates!Refresh PROVE FlowInv'
<2>1. UNCHANGED <<set, held, d, offers, faults>>
  BY <1>1 DEF Gates!Boot, Gates!Tick, Gates!Refresh, Gates!world
<2>2. keysLoaded' \in BOOLEAN /\ time' \in 0..MaxHour /\ time' >= time /\ Budget
<3>1. time \in 0..MaxHour /\ keysLoaded \in BOOLEAN
  BY DEF FlowInv
<3>2. time' \in {time} \cup {t \in {time + 1} : time < MaxHour}
  BY <1>1 DEF Gates!Boot, Gates!Tick, Gates!Refresh, Gates!world
<3>3. keysLoaded' \in BOOLEAN
  BY <1>1, <3>1 DEF Gates!Boot, Gates!Tick, Gates!Refresh, Gates!world
<3> QED
  BY <2>1, <3>1, <3>2, <3>3, BoundsAssumption DEF Budget
<2>3. offers' \in Nat /\ offers' >= offers /\ time' \in Nat /\ time \in Nat
  BY <2>1, <2>2, BoundsAssumption DEF FlowInv
<2>4. losing' \in [Feeds -> -1..time] /\ \A f \in Feeds : losing'[f] \in {losing[f], -1, time}
<3>1. losing \in [Feeds -> -1..time]
  BY DEF FlowInv
<3>2. CASE losing' = losing
  BY <3>1, <3>2
<3>3. CASE Gates!Refresh
  BY <2>3, <3>1, <3>3 DEF Gates!Refresh, Gates!Never
<3> QED
  BY <1>1, <3>2, <3>3 DEF Gates!Boot, Gates!Tick
<2>5. losing' \in [Feeds -> -1..time']
  BY <2>2, <2>3, <2>4
<2>6. \A f \in Feeds : Sound(d[f], f)'
  BY <2>1, <2>2, <2>3, <2>4, StaysSound
<2> QED
  BY <2>1, <2>2, <2>5, <2>6 DEF FlowInv
<1>2. ASSUME Gates!Restart PROVE FlowInv'
<2>1. \A f \in Feeds : Sound(d[f], f)'
  BY <1>2 DEF Gates!Restart, Gates!Nobody, Sound
<2>2. /\ faults' = faults + 1 /\ keysLoaded' = FALSE /\ UNCHANGED <<set, time, held, losing, offers>>
      /\ d' = [f \in Feeds |-> Gates!Nobody]
  BY <1>2 DEF Gates!Restart, Gates!Fault
<2>3. ~set.borrowVeto => \A f \in Feeds : held[f] <= 1 + faults'
  BY <2>2 DEF FlowInv
<2>4. d' = [f \in Feeds |-> d'[f]]
  BY <2>2
<2> QED
  BY <2>1, <2>2, <2>3, <2>4 DEF FlowInv
<1> QED
  BY <1>1, <1>2

LEMMA GatesKeepFlow ==
    ASSUME FlowInv, DataInv, faults \in Nat, Gates!Next PROVE FlowInv'
  BY DispatchKeepsFlow, AllowlistKeepsFlow, QualityKeepsFlow, SymbolGateKeepsFlow, PlaceKeepsFlow,
     CardKeepsFlow, LogKeepsFlow, AroundKeepsFlow DEF Gates!Next

\* What a new card adds to the cards.
LEMMA CardKeepsData ==
    ASSUME FlowInv, DataInv, NEW f \in Feeds, Gates!Card(f) PROVE DataInv'
<1>1. UNCHANGED <<snapshots, losing, time, log>> /\ d[f].pc = "card"
  BY DEF Gates!Card, Gates!At, Gates!world
<1>2. CASE UNCHANGED cards
  BY <1>1, <1>2 DEF DataInv, Gates!CardsSpaced, Gates!LogExplains
<1>3. ASSUME NEW kept \in BOOLEAN, Gates!Recent(f) = {},
             cards' = Append(cards, [symbol |-> f, dir |-> d[f].p.dir, at |-> d[f].n, out |-> time, kept |-> kept])
      PROVE  DataInv'
<2>1. PICK c \in Posted : c = [symbol |-> f, dir |-> d[f].p.dir, at |-> d[f].n, out |-> time, kept |-> kept]
<3>1. d[f].p.dir \in {"LONG", "SHORT"} /\ d[f].n \in Int /\ time \in Int
  BY <1>1 DEF FlowInv, Sound, Tradable
<3> QED
  BY <3>1 DEF Posted
<2>2. cards \in Seq(Posted) /\ cards' = Append(cards, c)
  BY <1>3, <2>1 DEF DataInv
<2>3. ASSUME NEW i \in DOMAIN cards', NEW j \in DOMAIN cards', i < j,
             cards'[i].symbol = cards'[j].symbol, cards'[i].dir = cards'[j].dir, cards'[i].kept
      PROVE  cards'[j].out - cards'[i].at >= DedupHours
<3>1. i \in DOMAIN cards /\ cards'[i] = cards[i] /\ cards[i] \in Posted
  BY <2>2, <2>3
<3>2. CASE j \in DOMAIN cards
<4>1. cards'[j] = cards[j]
  BY <2>2, <3>2
<4> QED
  BY <2>3, <3>1, <3>2, <4>1 DEF DataInv, Gates!CardsSpaced
<3>3. CASE j \notin DOMAIN cards
<4>1. cards'[j] = c
  BY <2>2, <2>3, <3>3
<4>2. i \notin Gates!Recent(f)
  BY <1>3
<4> QED
  BY <2>1, <2>3, <3>1, <4>1, <4>2, DispatchAssumption DEF Gates!Recent, Posted
<3> QED
  BY <3>2, <3>3
<2>4. cards' \in Seq(Posted)
  BY <2>2
<2>5. Gates!CardsSpaced'
  BY <2>3, Zenon DEF Gates!CardsSpaced
<2> QED
  BY <1>1, <2>4, <2>5 DEF DataInv, Gates!LogExplains
<1> QED
  BY <1>2, <1>3, Zenon DEF Gates!Card

LEMMA LogKeepsData ==
    ASSUME FlowInv, DataInv, NEW f \in Feeds, Gates!Log(f) PROVE DataInv'
<1>1. UNCHANGED <<snapshots, losing, time, cards>> /\ d[f].pc = "log"
  BY DEF Gates!Log, Gates!At, Gates!world
<1>2. PICK r : log' = [pc |-> "logged", outcome |-> d[f].outcome, same |-> d[f].regime = r,
                       blocking |-> Gates!Blocking(d[f].p, set, r)]
  BY DEF Gates!Log
<1>3. /\ d[f].outcome \in Gates!Outcomes
      /\ d[f].outcome = "blocked_entry_quality" => ~Gates!Allowed(d[f].p, set, d[f].regime)
      /\ d[f].outcome \notin Ungated => Gates!Allowed(d[f].p, set, d[f].regime)
  BY <1>1 DEF FlowInv, Sound
<1>4. Gates!LogExplains'
  BY <1>2, <1>3, BlockingExplains DEF Gates!LogExplains, Ungated
<1> QED
  BY <1>1, <1>2, <1>3, <1>4 DEF DataInv, Gates!CardsSpaced

LEMMA GatesKeepData ==
    ASSUME FlowInv, DataInv, Gates!Next PROVE DataInv'
<1> USE DEF Gates!CardsSpaced, Gates!LogExplains
<1>0. time \in Nat /\ losing \in [Feeds -> -1..time]
  BY BoundsAssumption DEF FlowInv
<1>1. ASSUME UNCHANGED <<snapshots, losing, cards, log>>, time' \in {time, time + 1} PROVE DataInv'
  BY <1>0, <1>1 DEF DataInv
<1>2. ASSUME NEW f \in Feeds, Gates!Allowlist(f) PROVE DataInv'
<2>1. UNCHANGED <<cards, log, losing, time>>
  BY <1>2 DEF Gates!Allowlist, Gates!world
<2>2. d[f].n \in 0..time
  BY <1>2 DEF Gates!Allowlist, Gates!At, FlowInv, Sound
<2>3. snapshots' = snapshots \/ snapshots' = [at |-> d[f].n, of |-> Gates!Losers]
  BY <1>2, Zenon DEF Gates!Allowlist
<2> QED
  BY <1>0, <2>1, <2>2, <2>3 DEF DataInv, Gates!Losers, Gates!Never
<1>3. ASSUME Gates!Restart PROVE DataInv'
  BY <1>0, <1>3 DEF Gates!Restart, Gates!Unread, DataInv
<1>4. ASSUME Gates!Refresh PROVE DataInv'
  BY <1>0, <1>4 DEF Gates!Refresh, Gates!Never, Gates!world, DataInv
<1> QED
<2>1. \/ UNCHANGED <<snapshots, losing, cards, log>> /\ time' \in {time, time + 1}
      \/ Gates!Restart \/ Gates!Refresh
      \/ \E f \in Feeds : Gates!Allowlist(f) \/ Gates!Card(f) \/ Gates!Log(f)
  BY Zenon DEF Gates!Next, Gates!Boot, Gates!Tick, Gates!Dispatch, Gates!Quality, Gates!SymbolGate,
               Gates!Place, Gates!world
<2> QED
  BY <1>1, <1>2, <1>3, <1>4, <2>1, CardKeepsData, LogKeepsData

DispatchInv == FlowInv /\ DataInv

LEMMA DispatchStart == ASSUME Gates!Init, faults \in Nat PROVE DispatchInv
<1> USE DEF Gates!Init, Gates!Nobody, Gates!Unread, Gates!Never
<1>1. FlowInv
<2>1. \A f \in Feeds : Sound(d[f], f)
  BY DEF Sound
<2>2. held = [f \in Feeds |-> 0] /\ time = 0 /\ offers = 0 /\ keysLoaded = FALSE /\ set \in Settings
  OBVIOUS
<2>3. held \in [Feeds -> Nat] /\ \A f \in Feeds : held[f] = 0
  BY <2>2
<2>4. d = [f \in Feeds |-> d[f]]
  OBVIOUS
<2>5. time \in 0..MaxHour /\ offers \in 0..MaxOffers
  BY <2>2, BoundsAssumption
<2>6. \A f \in Feeds : held[f] <= offers /\ held[f] <= 1 + faults
  BY ONLY <2>2, <2>3, faults \in Nat
<2>7. keysLoaded \in BOOLEAN /\ losing \in [Feeds -> -1..time]
<3>1. losing = [f \in Feeds |-> -1]
  BY Zenon
<3>2. \A f \in Feeds : -1 \in -1..time
  BY <2>2
<3>3. losing \in [Feeds -> -1..time]
  BY <3>1, <3>2, Zenon
<3> QED
  BY <2>2, <3>3, Zenon
<2> HIDE DEF Gates!Init
<2> QED
  BY <2>1, <2>2, <2>3, <2>4, <2>5, <2>6, <2>7 DEF FlowInv
<1>2. DataInv
<2>1. cards \in Seq(Posted) /\ DOMAIN cards = {}
  OBVIOUS
<2> QED
  BY <2>1 DEF DataInv, Gates!CardsSpaced, Gates!LogExplains
<1> QED
  BY <1>1, <1>2 DEF DispatchInv

LEMMA DispatchKept ==
    ASSUME faults \in 0..MaxFaults, DispatchInv, [Next]_allVars PROVE DispatchInv'
<1>1. faults \in Nat
  BY BoundsAssumption
<1>2. CASE Gates!Next
  BY <1>1, <1>2, GatesKeepFlow, GatesKeepData DEF DispatchInv
<1>3. CASE UNCHANGED gatesOnly
<2>1. Budget
  BY WithinBudget
<2>2. UNCHANGED <<set, keysLoaded, time, held, losing, snapshots, cards, d, offers, log>>
  BY <1>3 DEF gatesOnly
<2>3. time \in Nat /\ offers \in Nat
  BY BoundsAssumption DEF DispatchInv, FlowInv
<2>4. \A f \in Feeds : Sound(d[f], f)'
  BY <1>1, <2>1, <2>2, <2>3, StaysSound DEF DispatchInv
<2>5. ~set.borrowVeto => \A f \in Feeds : held[f] <= 1 + faults'
  BY <1>1, <2>1 DEF Budget, DispatchInv, FlowInv
<2>6. FlowInv'
  BY <2>2, <2>4, <2>5 DEF DispatchInv, FlowInv
<2>7. DataInv'
  BY <2>2 DEF DispatchInv, DataInv, Gates!CardsSpaced, Gates!LogExplains
<2> QED
  BY <2>6, <2>7 DEF DispatchInv
<1> QED
  BY <1>2, <1>3 DEF Next, allVars

\* What dispatch() promises: an automatic position is doubled only by a fault, no
\* card is repeated within its cooldown, the stop comes before liquidation, a symbol
\* that has long been losing is kept out, and the decision log explains the outcome (dispatcher.py).
THEOREM DispatchKeepsPromises == Spec => []DispatchHonest
<1>1. Init => DispatchInv
  BY DispatchStart, BoundsAssumption DEF Init, Pause!Init
<1>2. faults \in 0..MaxFaults /\ DispatchInv /\ [Next]_allVars => DispatchInv'
  BY DispatchKept
<1>3. DispatchInv => DispatchHonest
<2> SUFFICES ASSUME DispatchInv PROVE DispatchHonest
  OBVIOUS
<2>1. Gates!EntriesDoubleByFault
  BY DEF DispatchInv, FlowInv, Gates!EntriesDoubleByFault
<2>2. Gates!StopBeforeLiquidation
<3> SUFFICES ASSUME NEW f \in Feeds, d[f].pc \in {"place", "card"}
             PROVE  Gates!Leverage(d[f].p) * RoundedDistance(d[f].p) < d[f].p.entry
  BY DEF Gates!StopBeforeLiquidation, RoundedDistance
<3>1. Tradable(d[f].p)
  BY DEF DispatchInv, FlowInv, Sound
<3> QED
  BY <3>1, StopComesFirst
<2>3. Gates!LosersKeptOut
  BY DEF DispatchInv, FlowInv, Sound, Gates!LosersKeptOut, Gates!Never
<2> QED
  BY <2>1, <2>2, <2>3 DEF DispatchHonest, DispatchInv, DataInv
<1> QED
  BY <1>1, <1>2, <1>3, FaultsBounded, PTL DEF Spec

-----------------------------------------------------------------------------
(* Sums.                                                                      *)

\* A set of natural numbers has a least element.
LEMMA LeastNat == ASSUME NEW T \in SUBSET Nat, T # {} PROVE \E x \in T : \A y \in T : x <= y
<1>1. OpToRel(<, Nat) = {p \in Nat \X Nat : p[1] < p[2]}
  BY Zenon DEF OpToRel
<1> DEFINE R == {p \in Nat \X Nat : p[1] < p[2]}
<1>2. IsWellFoundedOn(R, Nat)
  BY <1>1, NatLessThanWellFounded, Zenon
<1>3. \A x, y \in Nat : <<x, y>> \in R <=> x < y
  OBVIOUS
<1> HIDE DEF R
<1>4. PICK x \in T : \A y \in T : ~ (<<y, x>> \in R)
  BY <1>2, WFMin, Zenon
<1>5. ASSUME NEW y \in T PROVE x <= y
<2>1. ~ (y < x)
  BY <1>3, <1>4
<2> QED
  BY <2>1
<1> QED
  BY <1>5

\* f holds the sums of the first entries of s, as Total adds them up.
Adds(f, s, m) == f = [n \in 0..m |-> IF n = 0 THEN 0 ELSE f[n - 1] + s[n]]

\* There are such sums, for the first number of entries without them would not be
\* the first.
LEMMA SumsExist == ASSUME NEW s, NEW N \in Nat PROVE \E f : Adds(f, s, N)
<1> DEFINE Bad == {m \in Nat : ~ \E f : Adds(f, s, m)}
<1>1. SUFFICES ASSUME Bad # {} PROVE FALSE
  OBVIOUS
<1>2. PICK m \in Bad : \A k \in Bad : m <= k
  BY <1>1, LeastNat
<1>3. CASE m = 0
<2>1. Adds([n \in 0..0 |-> 0], s, 0)
  BY DEF Adds
<2> QED
  BY <1>2, <1>3, <2>1
<1>4. CASE m # 0
<2>1. m - 1 \in Nat /\ m \in Nat /\ m - 1 \notin Bad
  BY <1>2, <1>4
<2>2. PICK f : Adds(f, s, m - 1)
  BY <2>1
<2> DEFINE g == [n \in 0..m |-> IF n = m THEN f[m - 1] + s[m] ELSE f[n]]
<2>3. \A n \in 0..(m - 1) : /\ g[n] = f[n] /\ n # m
                            /\ f[n] = IF n = 0 THEN 0 ELSE f[n - 1] + s[n]
  BY <2>1, <2>2 DEF Adds
<2>4. ASSUME NEW n \in 0..m PROVE g[n] = IF n = 0 THEN 0 ELSE g[n - 1] + s[n]
<3>1. CASE n = m
<4>1. m - 1 \in 0..(m - 1) /\ m # 0
  BY <2>1, <1>4
<4> QED
  BY <3>1, <2>3, <4>1
<3>2. CASE n # m /\ n # 0
<4>1. n \in 0..(m - 1) /\ n - 1 \in 0..(m - 1)
  BY <2>1, <3>2
<4> QED
  BY <3>2, <2>3, <4>1
<3>3. CASE n # m /\ n = 0
<4>1. n \in 0..(m - 1)
  BY <2>1, <3>3
<4> QED
  BY <3>3, <2>3, <4>1
<3> QED
  BY <3>1, <3>2, <3>3
<2>5. Adds(g, s, m)
<3>1. g = [n \in 0..m |-> g[n]]
  OBVIOUS
<3> HIDE DEF g
<3> QED
  BY <2>4, <3>1 DEF Adds
<2> QED
  BY <1>2, <2>5
<1> QED
  BY <1>3, <1>4

\* What Total returns of integers is an integer, and of naturals a natural.
LEMMA TotalTyped ==
    ASSUME NEW S, S = Int \/ S = Nat, NEW s, Len(s) \in Nat, \A i \in 1..Len(s) : s[i] \in S
    PROVE  Predict!Total(s) \in S
<1>1. PICK f : Adds(f, s, Len(s)) /\ Predict!Total(s) = f[Len(s)]
<2>1. PICK f : f = [n \in 0..Len(s) |-> IF n = 0 THEN 0 ELSE f[n - 1] + s[n]]
  BY SumsExist DEF Adds
<2>2. \E g : /\ g = [n \in 0..Len(s) |-> IF n = 0 THEN 0 ELSE g[n - 1] + s[n]]
             /\ Predict!Total(s) = g[Len(s)]
  BY <2>1, Zenon DEF Predict!Total
<2> QED
  BY <2>2 DEF Adds
<1> DEFINE Bad == {m \in 0..Len(s) : f[m] \notin S}
<1>2. SUFFICES ASSUME Bad # {} PROVE FALSE
  BY <1>1
<1>3. PICK m \in Bad : \A k \in Bad : m <= k
<2>1. Bad \in SUBSET Nat
  OBVIOUS
<2> HIDE DEF Bad
<2> QED
  BY <1>2, <2>1, LeastNat
<1>4. f[m] = IF m = 0 THEN 0 ELSE f[m - 1] + s[m]
  BY <1>1 DEF Adds
<1>5. CASE m = 0
  BY <1>3, <1>4, <1>5
<1>6. CASE m # 0
<2>1. m - 1 \in 0..Len(s) /\ m - 1 \notin Bad /\ m \in 1..Len(s)
  BY <1>3, <1>6
<2> QED
  BY <1>3, <1>4, <1>6, <2>1
<1> QED
  BY <1>5, <1>6

\* The same of the sum over some places of a list.
LEMMA TotalAtTyped ==
    ASSUME NEW S, S = Int \/ S = Nat, NEW n \in Nat, NEW s, DOMAIN s = 1..n,
           \A i \in 1..n : s[i] \in S, NEW places
    PROVE  Predict!TotalAt(s, places) \in S
<1> DEFINE t == [i \in DOMAIN s |-> IF i \in places THEN s[i] ELSE 0]
<1>1. Len(t) = n /\ Len(t) \in Nat
  OBVIOUS
<1>2. \A i \in 1..Len(t) : t[i] \in S
  BY <1>1
<1>3. Predict!TotalAt(s, places) = Predict!Total(t)
  BY DEF Predict!TotalAt
<1> HIDE DEF t
<1> QED
  BY <1>1, <1>2, <1>3, TotalTyped

-----------------------------------------------------------------------------
(* Votes.                                                                     *)

LEMMA QuotIsInt == ASSUME NEW a \in Int, NEW b \in Nat \ {0} PROVE Predict!Quot(a, b) \in Int
  BY DEF Predict!Quot, Predict!Abs

LEMMA VoteCast ==
    ASSUME NEW x \in Int, NEW y \in Int, NEW c \in Nat
    PROVE  Predict!Vote(Predict!Sign(x), Predict!Abs(y), c) \in Predict!Ballots
<1>1. Predict!Sign(x) \in {-1, 0, 1} /\ Predict!Abs(y) \in Nat
  BY DEF Predict!Sign, Predict!Abs
<1> HIDE DEF Predict!Sign, Predict!Abs
<1> QED
  BY <1>1 DEF Predict!Vote, Predict!Ballots

LEMMA NobodyVotes ==
    /\ Predict!NONE \in Predict!Ballots
    /\ \A c \in Nat : Predict!Vote(0, 0, c) \in Predict!Ballots
  BY DEF Predict!NONE, Predict!Vote, Predict!Ballots

\* tanh is a whole number between -100 and 100.
LEMMA TanhIsInt == ASSUME NEW x \in Int PROVE Predict!Tanh(x) \in Int
<1>1. x * x \in Nat
<2>1. CASE x >= 0
  BY <2>1
<2>2. CASE x < 0
<3>1. (-x) * (-x) \in Nat
  BY <2>2
<3>2. x * x = (-x) * (-x)
  OBVIOUS
<3> QED
  BY <3>1, <3>2
<2> QED
  BY <2>1, <2>2
<1> DEFINE sq == x * x
<1>2. 270000 + 9 * sq \in Nat \ {0} /\ x * (270000 + sq) \in Int
  BY <1>1
<1>3. Predict!Quot(x * (270000 + sq), 270000 + 9 * sq) \in Int
  BY <1>2, QuotIsInt
<1> HIDE DEF Predict!Quot
<1>4. Predict!Tanh(x) = Predict!Clamp(Predict!Quot(x * (270000 + sq), 270000 + 9 * sq), 100)
<2>1. 9 * x * x = 9 * sq
  OBVIOUS
<2> QED
  BY <2>1 DEF Predict!Tanh
<1> QED
  BY <1>3, <1>4 DEF Predict!Clamp, Predict!AtLeast, Predict!AtMost

\* The votes that lean as a sum does.
LEMMA LeaningVotes ==
    ASSUME NEW raw \in Int, NEW c \in Nat PROVE Predict!Leaning(raw, c) \in Predict!Ballots
<1>1. PICK lean \in Int : lean = Predict!Tanh(Predict!Quot(raw, 3))
  BY QuotIsInt, TanhIsInt
<1>2. \/ Predict!Leaning(raw, c) = Predict!Vote(0, 0, c)
      \/ Predict!Leaning(raw, c) = Predict!Vote(Predict!Sign(lean), Predict!Abs(lean), c)
  BY <1>1, Zenon DEF Predict!Leaning
<1> QED
  BY <1>1, <1>2, VoteCast, NobodyVotes

\* Places in a list are finitely many, and no more than it is long.
LEMMA PlacesCount ==
    ASSUME NEW n \in Nat, NEW places \in SUBSET (1..n)
    PROVE  /\ Cardinality(places) \in 0..n /\ IsFiniteSet(places)
           /\ Predict!Cardinality(places) = Cardinality(places)
<1>1. IsFiniteSet(1..n) /\ Cardinality(1..n) = n
  BY FS_Interval
<1>2. /\ IsFiniteSet(places) /\ Cardinality(places) <= n /\ Cardinality(places) \in Nat
  BY <1>1, FS_Subset, FS_CardinalityType
<1>3. Predict!Cardinality(places) = Cardinality(places)
  BY DEF Predict!Cardinality, Cardinality
<1> QED
  BY <1>2, <1>3

FireSet == [dir : {-1, 0, 1}, weight : Nat, chart : BOOLEAN, micro : BOOLEAN]

LEMMA FiresLean ==
    ASSUME NEW fires \in Seq(FireSet), NEW places
    PROVE  Predict!Lean(fires, places) \in Int
<1> DEFINE s == [i \in DOMAIN fires |-> fires[i].dir * fires[i].weight]
<1>1. Len(fires) \in Nat /\ DOMAIN s = 1..Len(fires)
  OBVIOUS
<1>2. \A i \in 1..Len(fires) : s[i] \in Int
<2> SUFFICES ASSUME NEW i \in 1..Len(fires) PROVE s[i] \in Int
  OBVIOUS
<2>1. fires[i] \in FireSet
  OBVIOUS
<2>2. fires[i].dir \in {-1, 0, 1} /\ fires[i].weight \in Nat
  BY <2>1 DEF FireSet
<2> QED
  BY <2>2
<1>3. Predict!Lean(fires, places) = Predict!TotalAt(s, places)
  BY DEF Predict!Lean
<1> HIDE DEF s
<1> QED
  BY <1>1, <1>2, <1>3, TotalAtTyped

\* Layers 2 and 6.
LEMMA FireVotes ==
    ASSUME NEW fires \in Seq(FireSet), NEW accuracy \in Int
    PROVE  /\ Predict!layer2_patterns(fires, accuracy) \in Predict!Ballots
           /\ Predict!layer6_micro(fires) \in Predict!Ballots
<1> DEFINE charts == {i \in DOMAIN fires : fires[i].chart}
           micro == {i \in DOMAIN fires : fires[i].micro}
           weights == [i \in DOMAIN fires |-> fires[i].weight]
<1>1. Len(fires) \in Nat /\ DOMAIN weights = 1..Len(fires)
      /\ \A i \in 1..Len(fires) : weights[i] \in Nat
<2>1. \A i \in 1..Len(fires) : fires[i] \in FireSet
  OBVIOUS
<2>2. \A i \in 1..Len(fires) : fires[i].weight \in Nat
  BY <2>1 DEF FireSet
<2> QED
  BY <2>2
<1>2. /\ Predict!Cardinality(charts) \in 0..Len(fires)
      /\ Predict!Cardinality(micro) \in 0..Len(fires)
  BY <1>1, PlacesCount
<1>3. Predict!TotalAt(weights, charts) \in Nat
<2> HIDE DEF weights, charts
<2> QED
  BY <1>1, TotalAtTyped
<1>4. Predict!_compute_layer_confidence(fires) \in Nat
<2> DEFINE n == Predict!Cardinality(charts)
           weighed == Predict!TotalAt(weights, charts)
           quality == weighed \div Predict!AtLeast(n, 1)
<2>1. n \in 0..Len(fires) /\ weighed \in Nat
  BY <1>2, <1>3
<2>2. Predict!_compute_layer_confidence(fires) =
        Predict!AtLeast(IF n = 0 THEN 0
                        ELSE Predict!AtMost(95, quality + Predict!AtMost(30, 15 * (n - 1))),
                        Predict!AtMost(80, 10 * (Len(fires) - n)))
  BY Zenon DEF Predict!_compute_layer_confidence
<2> HIDE DEF n, weighed
<2>3. quality \in Nat
  BY <2>1 DEF Predict!AtLeast
<2> HIDE DEF quality
<2> QED
  BY <1>1, <2>1, <2>2, <2>3 DEF Predict!AtLeast, Predict!AtMost
<1>5. Predict!layer2_patterns(fires, accuracy) \in Predict!Ballots
<2>1. Predict!Lean(fires, DOMAIN fires) * accuracy \in Int
  BY FiresLean
<2>2. Predict!Quot(Predict!Lean(fires, DOMAIN fires) * accuracy, 100) \in Int
  BY <2>1, QuotIsInt
<2> QED
  BY <1>4, <2>2, LeaningVotes DEF Predict!layer2_patterns
<1>6. Predict!layer6_micro(fires) \in Predict!Ballots
<2>1. Predict!AtMost(100, 20 * Predict!Cardinality(micro)) \in Nat
  BY <1>1, <1>2 DEF Predict!AtMost
<2>2. Predict!Lean(fires, micro) \in Int
  BY FiresLean
<2>3. Predict!layer6_micro(fires) =
        Predict!Leaning(Predict!Lean(fires, micro), Predict!AtMost(100, 20 * Predict!Cardinality(micro)))
  BY Zenon DEF Predict!layer6_micro
<2> HIDE DEF micro
<2> QED
  BY <2>1, <2>2, <2>3, LeaningVotes
<1> QED
  BY <1>5, <1>6

LEMMA GhostVotes ==
    ASSUME NEW ghost \in Int, NEW doubt \in Int
    PROVE  Predict!layer8_convlstm(ghost, doubt) \in Predict!Ballots
<1>1. PICK c \in Nat : c = Predict!AtLeast(Predict!AtMost(100 - doubt, 100), 30)
  BY DEF Predict!AtLeast, Predict!AtMost
<1>2. PICK y \in Nat : y = Predict!AtMost(Predict!Abs(ghost) \div 10, 100)
  BY DEF Predict!AtMost, Predict!Abs
<1>3. y = Predict!Abs(y)
  BY DEF Predict!Abs
<1>4. \/ Predict!layer8_convlstm(ghost, doubt) = Predict!NONE
      \/ Predict!layer8_convlstm(ghost, doubt) = Predict!Vote(0, 0, c)
      \/ Predict!layer8_convlstm(ghost, doubt) = Predict!Vote(Predict!Sign(ghost), y, c)
<2>1. CASE ghost = Predict!Missing
  BY <2>1 DEF Predict!layer8_convlstm
<2>2. CASE ghost # Predict!Missing /\ Predict!Abs(ghost) < 1
  BY <1>1, <2>2 DEF Predict!layer8_convlstm
<2>3. CASE ghost # Predict!Missing /\ ~(Predict!Abs(ghost) < 1)
  BY <1>1, <1>2, <2>3 DEF Predict!layer8_convlstm
<2> QED
  BY <2>1, <2>2, <2>3
<1> QED
  BY <1>3, <1>4, VoteCast, NobodyVotes

LEMMA NewsVotes ==
    ASSUME NEW items \in Seq(Predict!Headline) PROVE Predict!layer9_news(items) \in Predict!Ballots
<1> DEFINE scored == {i \in DOMAIN items : items[i].sentiment # Predict!Missing}
           impacts == [i \in DOMAIN items |-> Predict!Impact(items[i])]
           pulls == [i \in DOMAIN items |-> items[i].sentiment * Predict!Impact(items[i])]
           weight == Predict!TotalAt(impacts, scored)
           mean == Predict!Quot(Predict!TotalAt(pulls, scored), Predict!AtLeast(weight, 1))
<1>1. Len(items) \in Nat /\ DOMAIN impacts = 1..Len(items) /\ DOMAIN pulls = 1..Len(items)
  OBVIOUS
<1>2. \A i \in 1..Len(items) : impacts[i] \in Int /\ pulls[i] \in Int
<2> SUFFICES ASSUME NEW i \in 1..Len(items) PROVE impacts[i] \in Int /\ pulls[i] \in Int
  OBVIOUS
<2>1. items[i] \in Predict!Headline
  OBVIOUS
<2>2. items[i].sentiment \in Int /\ items[i].impact \in Int
  BY <2>1 DEF Predict!Headline
<2>3. Predict!Impact(items[i]) \in Int
  BY <2>2 DEF Predict!Impact
<2> QED
  BY <2>2, <2>3
<1>3. Predict!Cardinality(scored) \in Nat
  BY <1>1, PlacesCount
<1>4. weight \in Int /\ Predict!TotalAt(pulls, scored) \in Int
<2> HIDE DEF impacts, pulls, scored
<2> QED
  BY <1>1, <1>2, TotalAtTyped
<1>5. mean \in Int
<2>1. Predict!AtLeast(weight, 1) \in Nat \ {0}
<3> HIDE DEF weight
<3> QED
  BY <1>4 DEF Predict!AtLeast
<2> HIDE DEF weight
<2> QED
  BY <1>4, <2>1, QuotIsInt
<1>6. Predict!layer9_news(items) =
        IF weight = 0 THEN Predict!NONE
        ELSE Predict!Vote(IF Predict!Abs(mean) > 10 THEN Predict!Sign(mean) ELSE 0,
                          Predict!Abs(Predict!Tanh(Predict!Quot(3 * mean, 2))),
                          Predict!AtMost(100, 20 * Predict!Cardinality(scored)))
  BY Zenon DEF Predict!layer9_news
<1> HIDE DEF weight, mean, scored
<1>7. PICK y \in Int : y = Predict!Tanh(Predict!Quot(3 * mean, 2))
<2>1. Predict!Quot(3 * mean, 2) \in Int
  BY <1>5, QuotIsInt
<2> QED
  BY <2>1, TanhIsInt
<1>8. PICK c \in Nat : c = Predict!AtMost(100, 20 * Predict!Cardinality(scored))
  BY <1>3 DEF Predict!AtMost
<1>9. PICK x \in Int :
        Predict!Sign(x) = IF Predict!Abs(mean) > 10 THEN Predict!Sign(mean) ELSE 0
<2>1. Predict!Sign(0) = 0
  BY DEF Predict!Sign
<2> QED
  BY <1>5, <2>1
<1> QED
  BY <1>6, <1>7, <1>8, <1>9, VoteCast, NobodyVotes

-----------------------------------------------------------------------------
(* The score.                                                                 *)

\* q is x scaled by n/m and rounded: it keeps the sign, and is no larger than that.
Scaled(q, x, n, m) ==
    /\ q \in Int /\ m * Predict!Abs(q) <= Predict!Abs(x) * n
    /\ (x >= 0 => q >= 0) /\ (x <= 0 => q <= 0)
LEMMA QuotScales ==
    ASSUME NEW x \in Int, NEW n \in Nat, NEW m \in Nat \ {0}, x * n \in Int
    PROVE  Scaled(Predict!Quot(x * n, m), x, n, m)
<1> DEFINE q == Predict!Quot(x * n, m)
<1> SUFFICES /\ q \in Int /\ m * Predict!Abs(q) <= Predict!Abs(x) * n
             /\ (x >= 0 => q >= 0) /\ (x <= 0 => q <= 0)
  BY DEF Scaled
<1>1. CASE x >= 0
<2>1. x * n \in Nat /\ Predict!Abs(x) = x /\ Predict!Abs(x * n) = x * n
  BY <1>1 DEF Predict!Abs
<2>2. q = (x * n) \div m
  BY <2>1 DEF Predict!Quot, Predict!Abs
<2> DEFINE y == x * n
<2>3. y \div m \in Nat /\ m * (y \div m) <= y
<3>1. y \in Nat
  BY <2>1
<3> HIDE DEF y
<3> QED
  BY <3>1
<2>4. q \in Nat /\ m * q <= y
  BY <2>2, <2>3
<2>5. Predict!Abs(q) = q
  BY <2>4 DEF Predict!Abs
<2>6. x = 0 => q = 0
<3>1. x = 0 => y = 0
  OBVIOUS
<3> HIDE DEF y
<3> QED
  BY <2>2, <3>1
<2> HIDE DEF q
<2> QED
  BY <1>1, <2>1, <2>4, <2>5, <2>6
<1>2. CASE x < 0
<2> DEFINE y == (-x) * n
<2>1. y \in Nat /\ x * n = -y /\ Predict!Abs(x) = -x
  BY <1>2 DEF Predict!Abs
<2> HIDE DEF y
<2>2. y \div m \in Nat /\ m * (y \div m) <= y
  BY <2>1
<2>3. q = -(y \div m)
  BY <2>1, <2>2 DEF Predict!Quot, Predict!Abs
<2>4. q \in Int /\ q <= 0 /\ Predict!Abs(q) = y \div m
  BY <2>2, <2>3 DEF Predict!Abs
<2> HIDE DEF q
<2> QED
  BY <1>2, <2>1, <2>2, <2>4 DEF y
<1> QED
  BY <1>1, <1>2

\* The two divisors aggregate uses.
LEMMA Thousandths ==
    ASSUME NEW x \in Int, NEW n \in Nat, x * n \in Int
    PROVE  Scaled(Predict!Quot(x * n, 1000), x, n, 1000)
<1>1. 1000 \in Nat \ {0}
  OBVIOUS
<1> QED
  BY <1>1, QuotScales, SMT

LEMMA TenThousandths ==
    ASSUME NEW x \in Int, NEW n \in Nat, x * n \in Int
    PROVE  Scaled(Predict!Quot(x * n, 10000), x, n, 10000)
<1>1. 10000 \in Nat \ {0}
  OBVIOUS
<1> QED
  BY <1>1, QuotScales, SMT

LEMMA StaticIsInt ==
    ASSUME NEW layers \in [1..10 -> Predict!Ballots] PROVE Predict!Static(layers) \in Int
<1> DEFINE s == [i \in DOMAIN layers |-> Predict!Product(layers[i])]
           there == Predict!present(layers)
<1>1. DOMAIN s = 1..10 /\ \A i \in 1..10 : s[i] \in Int
<2> SUFFICES ASSUME NEW i \in 1..10 PROVE s[i] \in Int
  OBVIOUS
<2>1. layers[i] \in Predict!Ballots
  OBVIOUS
<2>2. layers[i].dir \in Int /\ layers[i].strength \in Int /\ layers[i].confidence \in Int
  BY <2>1 DEF Predict!Ballots, Predict!NONE, Predict!Vote
<2>3. Predict!AtLeast(layers[i].confidence, 0) \in Int
  BY <2>2 DEF Predict!AtLeast
<2> QED
  BY <2>2, <2>3 DEF Predict!Product
<1>2. Predict!Cardinality(there) \in Nat
<2>1. there \in SUBSET (1..10)
  BY DEF Predict!present
<2> QED
  BY <2>1, PlacesCount
<1>3. Predict!TotalAt(s, there) \in Int
<2> HIDE DEF s, there
<2> QED
  BY <1>1, TotalAtTyped
<1>4. Predict!AtLeast(Predict!Cardinality(there), 1) \in Nat \ {0}
  BY <1>2 DEF Predict!AtLeast
<1>5. Predict!Static(layers) = Predict!Quot(Predict!TotalAt(s, there),
                                            Predict!AtLeast(Predict!Cardinality(there), 1))
  BY Zenon DEF Predict!Static
<1> HIDE DEF s, there
<1> QED
  BY <1>3, <1>4, <1>5, QuotIsInt

Adjustments == {850, 925, 1000, 1075, 1150}

\* What traps and the brain make of a score the layers propose.
LEMMA FinalFollows ==
    ASSUME NEW layers \in [1..10 -> Predict!Ballots], NEW traps \in Nat, NEW adjust \in Adjustments,
           NEW proposed, proposed = Predict!aggregate(layers, 0, 1000),
           proposed.dir = 0 => adjust <= 1000,
           NEW final, final = Predict!aggregate(layers, traps, adjust)
    PROVE  /\ proposed.dir \in {-1, 0, 1} /\ final.dir \in {0, proposed.dir}
           /\ 1000 * Predict!Abs(final.score) <= 1150 * Predict!Abs(proposed.score)
           /\ Predict!Abs(final.score) > Predict!Abs(proposed.score) => adjust > 1000
<1> DEFINE T == Predict!Static(layers)
           factor(n) == Predict!TrapFactor[Predict!AtMost(n, 4) + 1]
           Raw(n, a) == Predict!Quot(Predict!Quot(T * a, 1000) * factor(n), 10000)
<1>1. T \in Int
  BY StaticIsInt
<1>2. \A n \in Nat : factor(n) \in {10000, 8500, 7225, 6141, 5220} /\ factor(0) = 10000
<2> SUFFICES ASSUME NEW n \in Nat
             PROVE  factor(n) \in {10000, 8500, 7225, 6141, 5220} /\ factor(0) = 10000
  OBVIOUS
<2>1. Predict!AtMost(n, 4) \in 0..4 /\ Predict!AtMost(0, 4) = 0
  BY DEF Predict!AtMost
<2> QED
  BY <2>1 DEF Predict!TrapFactor
<1>3. ASSUME NEW n \in Nat, NEW a \in Adjustments
      PROVE  /\ Raw(n, a) \in Int /\ 1000 * Predict!Abs(Raw(n, a)) <= a * Predict!Abs(T)
             /\ (T >= 0 => Raw(n, a) >= 0) /\ (T <= 0 => Raw(n, a) <= 0)
<2> DEFINE k == factor(n)
           q == Predict!Quot(T * a, 1000)
           r == Predict!Quot(q * k, 10000)
<2>1. k \in {10000, 8500, 7225, 6141, 5220}
  BY <1>2
<2>2. a \in Nat /\ k \in Nat /\ T * a \in Int
  BY <1>1, <2>1 DEF Adjustments
<2>3. /\ q \in Int /\ 1000 * Predict!Abs(q) <= Predict!Abs(T) * a
      /\ (T >= 0 => q >= 0) /\ (T <= 0 => q <= 0)
<3>1. 1000 \in Nat \ {0}
  OBVIOUS
<3> HIDE DEF T
<3>2. Scaled(q, T, a, 1000)
  BY <1>1, <2>2, <3>1, Thousandths
<3> HIDE DEF q
<3> QED
  BY <3>2 DEF Scaled
<2>4. q * k \in Int
  BY <2>1, <2>3
<2>5. /\ r \in Int /\ 10000 * Predict!Abs(r) <= Predict!Abs(q) * k
      /\ (q >= 0 => r >= 0) /\ (q <= 0 => r <= 0)
<3>1. 10000 \in Nat \ {0}
  OBVIOUS
<3> HIDE DEF q, k
<3>2. Scaled(r, q, k, 10000)
  BY <2>2, <2>3, <2>4, <3>1, TenThousandths
<3> HIDE DEF r
<3> QED
  BY <3>2 DEF Scaled
<2>6. Predict!Abs(q) \in Nat /\ Predict!Abs(T) \in Nat /\ Predict!Abs(r) \in Nat
  BY <1>1, <2>3, <2>5 DEF Predict!Abs
<2>7. Predict!Abs(r) <= Predict!Abs(q)
<3>1. Predict!Abs(q) * k <= 10000 * Predict!Abs(q)
<4> HIDE DEF q, k, r
<4> QED
  BY <2>1, <2>6
<3> HIDE DEF q, k, r
<3> QED
  BY <2>1, <2>5, <2>6, <3>1
<2>8. Predict!Abs(T) * a = a * Predict!Abs(T)
  BY <2>2, <2>6
<2> HIDE DEF q, r, k, T
<2>9. 1000 * Predict!Abs(r) <= a * Predict!Abs(T)
  BY <2>2, <2>3, <2>6, <2>7, <2>8
<2> QED
  BY <2>3, <2>5, <2>9 DEF q, r, k
<1>4. /\ final.score = Predict!Clamp(Raw(traps, adjust), 10000)
      /\ final.dir = IF Predict!Abs(Raw(traps, adjust)) > 500 THEN Predict!Sign(Raw(traps, adjust)) ELSE 0
      /\ proposed.score = Predict!Clamp(Raw(0, 1000), 10000)
      /\ proposed.dir = IF Predict!Abs(Raw(0, 1000)) > 500 THEN Predict!Sign(Raw(0, 1000)) ELSE 0
<2> HIDE DEF T
<2> QED
  BY DEF Predict!aggregate, T
<1>5. Raw(0, 1000) = T
<2>1. factor(0) = 10000
  BY <1>2
<2> HIDE DEF T, factor
<2> QED
  BY <1>1, <2>1 DEF Predict!Quot, Predict!Abs
<1>6. PICK x \in Int : /\ x = Raw(traps, adjust)
                       /\ 1000 * Predict!Abs(x) <= adjust * Predict!Abs(T)
                       /\ (T >= 0 => x >= 0) /\ (T <= 0 => x <= 0)
  BY <1>3
<1> HIDE DEF T, factor, Raw
<1>7. PICK t \in Int : t = T
  BY <1>1
<1>8. adjust \in Nat /\ adjust <= 1150
  BY DEF Adjustments
<1>9. (adjust <= 1000 => Predict!Abs(x) <= Predict!Abs(t))
      /\ 1000 * Predict!Abs(x) <= 1150 * Predict!Abs(t)
<2>1. CASE adjust = 850
  BY <1>6, <1>7, <2>1 DEF Predict!Abs
<2>2. CASE adjust = 925
  BY <1>6, <1>7, <2>2 DEF Predict!Abs
<2>3. CASE adjust = 1000
  BY <1>6, <1>7, <2>3 DEF Predict!Abs
<2>4. CASE adjust = 1075
  BY <1>6, <1>7, <2>4 DEF Predict!Abs
<2>5. CASE adjust = 1150
  BY <1>6, <1>7, <2>5 DEF Predict!Abs
<2> QED
  BY <2>1, <2>2, <2>3, <2>4, <2>5 DEF Adjustments
<1>10. (t >= 0 => x >= 0) /\ (t <= 0 => x <= 0)
  BY <1>6, <1>7
<1>11. proposed.dir \in {-1, 0, 1} /\ final.dir \in {0, proposed.dir}
<2>1. /\ proposed.dir = IF Predict!Abs(t) > 500 THEN Predict!Sign(t) ELSE 0
      /\ final.dir = IF Predict!Abs(x) > 500 THEN Predict!Sign(x) ELSE 0
  BY <1>4, <1>5, <1>6, <1>7
<2>2. CASE Predict!Abs(t) > 500
  BY <1>10, <2>1, <2>2 DEF Predict!Abs, Predict!Sign
<2>3. CASE ~(Predict!Abs(t) > 500)
<3>1. proposed.dir = 0 /\ adjust <= 1000
  BY <2>1, <2>3
<3>2. Predict!Abs(x) <= Predict!Abs(t)
  BY <1>9, <3>1
<3> QED
  BY <2>1, <2>3, <3>1, <3>2 DEF Predict!Abs
<2> QED
  BY <2>2, <2>3
<1>12. final.score = Predict!Clamp(x, 10000) /\ proposed.score = Predict!Clamp(t, 10000)
  BY <1>4, <1>5, <1>6, <1>7
<1>13. 1000 * Predict!Abs(final.score) <= 1150 * Predict!Abs(proposed.score)
  BY <1>9, <1>12 DEF Predict!Clamp, Predict!AtLeast, Predict!AtMost, Predict!Abs
<1>14. Predict!Abs(final.score) > Predict!Abs(proposed.score) => adjust > 1000
  BY <1>8, <1>9, <1>12 DEF Predict!Clamp, Predict!AtLeast, Predict!AtMost, Predict!Abs
<1> QED
  BY <1>11, <1>13, <1>14

-----------------------------------------------------------------------------
(* The brain's action.                                                        *)

LEMMA AdjustmentFollows ==
    ASSUME NEW action, NEW proposed \in {-1, 0, 1},
           NEW adjust, adjust = Predict!action_to_brain_adjust(action, proposed)
    PROVE  /\ adjust \in Adjustments /\ (proposed = 0 => adjust <= 1000)
           /\ adjust > 1000 => Predict!SideOf(action) = proposed
  BY DEF Predict!action_to_brain_adjust, Adjustments

\* What is remembered of the past: the three latest actions at most, and the
\* action they smooth to is one of them or FLAT.
LEMMA ActionSmoothed ==
    ASSUME NEW past \in Seq(Predict!Actions), NEW raw \in Predict!Actions
    PROVE  Predict!smooth_action(past, raw) \in Predict!Actions
<1> DEFINE window == Append(IF Len(past) > 2 THEN Predict!LastOf(past, 1) ELSE past, raw)
           votes(a) == Predict!Cardinality({i \in DOMAIN window : window[i] = a})
           said == {window[i] : i \in DOMAIN window}
           winners == {a \in said : \A b \in said : votes(a) >= votes(b)}
<1>1. window \in Seq(Predict!Actions)
<2>1. CASE Len(past) > 2
<3>1. SubSeq(past, Len(past) - 1, Len(past)) \in Seq(Predict!Actions)
  BY <2>1
<3> QED
  BY <2>1, <3>1 DEF Predict!LastOf
<2> QED
  BY <2>1
<1>2. winners \subseteq Predict!Actions
  BY <1>1
<1>3. Predict!smooth_action(past, raw) =
        CASE Predict!Cardinality(winners) = 1 -> CHOOSE a \in winners : TRUE
          [] Predict!Cardinality(winners) > 1 /\ "FLAT" \in winners -> "FLAT"
          [] OTHER -> raw
  BY Zenon DEF Predict!smooth_action
<1> HIDE DEF winners
<1>4. Predict!Cardinality(winners) = 1 => (CHOOSE a \in winners : TRUE) \in winners
<2>1. Predict!Cardinality({}) = 0
<3>1. Predict!Cardinality({}) = Cardinality({})
  BY DEF Predict!Cardinality, Cardinality
<3> QED
  BY <3>1, FS_EmptySet
<2>2. ASSUME winners = {} PROVE Predict!Cardinality(winners) = 0
  BY <2>1, <2>2, Zenon
<2>3. 0 # 1
  OBVIOUS
<2> QED
  BY <2>2, <2>3, Zenon
<1>5. "FLAT" \in Predict!Actions
  BY DEF Predict!Actions
<1>6. CASE Predict!Cardinality(winners) = 1
  BY <1>2, <1>3, <1>4, <1>6
<1>7. CASE Predict!Cardinality(winners) # 1
<2>1. \/ Predict!smooth_action(past, raw) = "FLAT"
      \/ Predict!smooth_action(past, raw) = raw
  BY <1>3, <1>7
<2> QED
  BY <1>5, <2>1
<1> QED
  BY <1>6, <1>7

\* The observation stored holds nine layers; without the seventh it is the one
\* the brain was shown.
LEMMA StoredIsServed ==
    ASSUME NEW layers \in [1..10 -> Predict!Ballots]
    PROVE  LET s == Predict!layer_scores_array(layers)
           IN SubSeq(s, 1, 6) \o SubSeq(s, 8, 9) = Predict!brain_layers(layers)
<1> DEFINE s == Predict!layer_scores_array(layers)
           b == Predict!brain_layers(layers)
           of == <<1, 2, 3, 4, 5, 6, 8, 9>>
           P(i) == Predict!Product(layers[i])
<1>1. s = [i \in 1..9 |-> P(i)] /\ b = [k \in 1..8 |-> P(of[k])]
  BY Zenon DEF Predict!layer_scores_array, Predict!brain_layers
<1> HIDE DEF s, b, P
<1>2. s \in Seq({P(i) : i \in 1..9}) /\ Len(s) = 9 /\ \A i \in 1..9 : s[i] = P(i)
  BY <1>1
<1>3. /\ SubSeq(s, 1, 6) = [i \in 1..6 |-> s[i]]
      /\ SubSeq(s, 8, 9) = [i \in 1..2 |-> s[i + 7]]
  BY <1>2
<1> DEFINE j == SubSeq(s, 1, 6) \o SubSeq(s, 8, 9)
<1>4. j = [i \in 1..8 |-> IF i <= 6 THEN s[i] ELSE s[i + 1]]
<2>1. /\ SubSeq(s, 1, 6) \in Seq({P(i) : i \in 1..9}) /\ Len(SubSeq(s, 1, 6)) = 6
      /\ SubSeq(s, 8, 9) \in Seq({P(i) : i \in 1..9}) /\ Len(SubSeq(s, 8, 9)) = 2
  BY <1>2
<2> QED
  BY <1>3, <2>1
<1>5. \A i \in 1..8 : P(of[i]) = IF i <= 6 THEN s[i] ELSE s[i + 1]
<2> SUFFICES ASSUME NEW i \in 1..8 PROVE P(of[i]) = IF i <= 6 THEN s[i] ELSE s[i + 1]
  OBVIOUS
<2>1. of[i] = IF i <= 6 THEN i ELSE i + 1
  OBVIOUS
<2> HIDE DEF of
<2> QED
  BY <1>2, <2>1
<1> QED
  BY <1>1, <1>4, <1>5 DEF s, b

\* The fallback finds the same in the layers themselves.
LEMMA FallbackAgrees ==
    ASSUME NEW layers \in [1..10 -> Predict!Ballots]
    PROVE  Predict!_layer_scores_to_tuple(layers) = Predict!brain_layers(layers)
<1> DEFINE value(v) == v.dir * Predict!Known(v.strength)
                       * (IF v = Predict!NONE THEN 0 ELSE Predict!Known(v.confidence))
           of == <<1, 2, 3, 4, 5, 6, 8, 9>>
<1>1. ASSUME NEW v \in Predict!Ballots PROVE value(v) = Predict!Product(v)
<2>1. CASE v = Predict!NONE
  BY <2>1 DEF Predict!NONE, Predict!Vote, Predict!Product, Predict!AtLeast, Predict!Known, Predict!Missing
<2>2. CASE v # Predict!NONE
<3>1. v.dir \in {-1, 0, 1} /\ v.strength \in Nat /\ v.confidence \in Nat
  BY <2>2 DEF Predict!Ballots
<3>2. Predict!Known(v.strength) = v.strength /\ Predict!Known(v.confidence) = v.confidence
  BY <3>1 DEF Predict!Known, Predict!Missing
<3>3. Predict!AtLeast(v.confidence, 0) = v.confidence
  BY <3>1 DEF Predict!AtLeast
<3> QED
  BY <2>2, <3>2, <3>3 DEF Predict!Product
<2> QED
  BY <2>1, <2>2
<1>2. Predict!_layer_scores_to_tuple(layers) = [k \in 1..8 |-> value(layers[IF k < 7 THEN k ELSE k + 1])]
  BY Zenon DEF Predict!_layer_scores_to_tuple
<1> HIDE DEF value
<1>3. ASSUME NEW k \in 1..8
      PROVE  value(layers[IF k < 7 THEN k ELSE k + 1]) = Predict!Product(layers[of[k]])
<2>1. of[k] = (IF k < 7 THEN k ELSE k + 1) /\ of[k] \in 1..10
  OBVIOUS
<2> HIDE DEF of
<2> QED
  BY <1>1, <2>1
<1>4. Predict!brain_layers(layers) = [k \in 1..8 |-> Predict!Product(layers[of[k]])]
  BY Zenon DEF Predict!brain_layers
<1> HIDE DEF of
<1> QED
  BY <1>2, <1>3, <1>4

-----------------------------------------------------------------------------
(* A prediction in progress.                                                  *)

\* A step of a lane extends its record, keeps its other fields, and leaves the
\* other lanes alone.
Grows(p, q, stage, more) ==
    /\ DOMAIN q = DOMAIN p \union DOMAIN more
    /\ q.at = stage
    /\ \A x \in DOMAIN more \ {"at"} : q[x] = more[x]
    /\ \A x \in DOMAIN p \ (DOMAIN more \union {"at"}) : q[x] = p[x]
LEMMA OneLaneMoves ==
    ASSUME NEW l \in Lanes, NEW stage, NEW more, DOMAIN pred = Lanes,
           pred = [k \in Lanes |-> pred[k]], "at" \in DOMAIN pred[l], Predict!To(l, stage, more)
    PROVE  /\ DOMAIN pred' = Lanes /\ pred' = [k \in Lanes |-> pred'[k]]
           /\ \A k \in Lanes \ {l} : pred'[k] = pred[k]
           /\ Grows(pred[l], pred'[l], stage, more)
<1> DEFINE e == Predict!Extended(pred[l], more)
           q == [e EXCEPT !.at = stage]
<1>1. pred' = [pred EXCEPT ![l] = q]
  BY DEF Predict!To
<1>2. /\ DOMAIN e = DOMAIN pred[l] \union DOMAIN more
      /\ \A x \in DOMAIN e : e[x] = IF x \in DOMAIN more THEN more[x] ELSE pred[l][x]
  BY DEF Predict!Extended
<1> HIDE DEF e
<1>3. DOMAIN q = DOMAIN e /\ q.at = stage /\ \A x \in DOMAIN e \ {"at"} : q[x] = e[x]
  BY <1>2
<1> HIDE DEF q
<1>4. Grows(pred[l], q, stage, more)
  BY <1>2, <1>3 DEF Grows
<1> QED
  BY <1>1, <1>4

\* What the ten layers say is votes.
LEMMA LayersVote ==
    ASSUME NEW p, Predict!Readable(p.bars), p.l2 \in Predict!Ballots, p.l9 \in Predict!Ballots
    PROVE  Predict!layer_results(p) \in [1..10 -> Predict!Ballots]
<1>1. /\ Predict!layer6_micro(p.bars.fires) \in Predict!Ballots
      /\ Predict!layer8_convlstm(p.bars.ghost, p.bars.doubt) \in Predict!Ballots
<2>1. p.bars.fires \in Seq(FireSet) /\ p.bars.ghost \in Int /\ p.bars.doubt \in Int
  BY Zenon DEF Predict!Readable, FireSet
<2> QED
  BY <2>1, FireVotes, GhostVotes
<1>2. \A i \in {1, 3, 4, 5} : p.bars.votes[i] \in Predict!Ballots
  BY DEF Predict!Readable
<1>3. Predict!NONE \in Predict!Ballots
  BY NobodyVotes
<1> HIDE DEF Predict!Ballots
<1>4. \A i \in 1..10 : Predict!layer_results(p)[i] \in Predict!Ballots
<2> SUFFICES ASSUME NEW i \in 1..10 PROVE Predict!layer_results(p)[i] \in Predict!Ballots
  OBVIOUS
<2>1. CASE i \in {1, 3, 4, 5}
  BY <1>2, <2>1 DEF Predict!layer_results
<2>2. CASE i \in {2, 6, 7, 8, 9, 10}
  BY <1>1, <1>3, <2>2 DEF Predict!layer_results
<2> QED
  BY <2>1, <2>2
<1> QED
  BY <1>4 DEF Predict!layer_results

\* A prediction scored: the market seen is the latest, where the lane can find it,
\* unless it moved or a read failed.
ScoredSound(p, l) ==
    /\ {"layers", "proposed", "seen", "traps"} \subseteq DOMAIN p
    /\ p.layers \in [1..10 -> Predict!Ballots]
    /\ p.proposed = Predict!aggregate(p.layers, 0, 1000)
    /\ p.traps \in Nat
    /\ l.symbol = Native /\ ~p.moved /\ ~p.broken => p.seen = market
\* The brain asked: it was shown the regime as well, and only a smoothed action
\* on the side proposed raises the score.
AskedSound(p) ==
    /\ {"served", "adjust"} \subseteq DOMAIN p
    /\ \E r : /\ ~p.moved => r = Predict!_REGIME_MAP(mood)
              /\ p.served = Predict!Observation(Predict!brain_layers(p.layers),
                                Predict!MarketFeatures(p.bars.atr, p.seen, r), Predict!Macro(p.bars))
    /\ p.adjust \in Adjustments
    /\ p.proposed.dir = 0 => p.adjust <= 1000
    /\ p.adjust > 1000 => /\ "smoothed" \in DOMAIN p /\ p.raw # Predict!None
                          /\ Predict!SideOf(p.smoothed) = p.proposed.dir
ClosedSound(p, l) ==
    /\ {"final", "setup", "fields"} \subseteq DOMAIN p
    /\ p.final = Predict!aggregate(p.layers, p.traps, p.adjust)
    /\ p.setup = Predict!_build_trade_setup(p.final.dir, p.bars.atr)
    /\ l.symbol = Native /\ ~p.moved /\ ~p.broken => p.fields.funding = p.seen.funding
LaneSound(p, l) ==
    /\ "at" \in DOMAIN p
    /\ p.at \in {"idle", "news", "context", "brain", "record", "finish", "capture", "done"}
    /\ p.at # "idle" =>
           /\ {"bars", "moved", "broken", "raw", "l2"} \subseteq DOMAIN p
           /\ Predict!Readable(p.bars) /\ p.l2 \in Predict!Ballots
           /\ p.moved \in BOOLEAN /\ p.broken \in BOOLEAN
    /\ p.at \notin {"idle", "news"} => "l9" \in DOMAIN p /\ p.l9 \in Predict!Ballots
    /\ p.at \in {"brain", "record", "finish", "capture", "done"} => ScoredSound(p, l)
    /\ p.at \in {"record", "finish", "capture", "done"} => AskedSound(p)
    /\ p.at \in {"capture", "done"} => ClosedSound(p, l)
    /\ p.at = "capture" => l.symbol = Native
    /\ "stored" \in DOMAIN p =>
           /\ p.at = "done"
           /\ ~p.moved /\ ~p.broken => Predict!rebuilt(p.stored) = p.served

ScoreInv ==
    /\ pred = [l \in Lanes |-> pred[l]] /\ \A l \in Lanes : LaneSound(pred[l], l)
    /\ stats \in [Lanes -> Int] /\ record \in Records /\ news \in NewsItems
    /\ brain \in Checkpoints \cup {"none"} /\ table \in Checkpoints \cup {"none", "random"}
    /\ history \in [{l.symbol : l \in Lanes} -> Seq(Predict!Actions)]
    /\ \A s \in DOMAIN history : Len(history[s]) <= 3
    /\ files \in [{1, -1} -> {"none", "good", "torn"}]
    /\ memo \in [{1, -1} -> {"unread", "none", "model"}]
    /\ \A dir \in {1, -1} : memo[dir] = "none" => files[dir] # "good"
    /\ predictions \in 0..MaxPredictions /\ moves \in 0..MaxMoves

\* What a lane holds stays right while market and regime stay, and when they move
\* and the prediction knows.
LEMMA LaneStays ==
    ASSUME NEW l \in Lanes, LaneSound(pred[l], l), pred'[l] = pred[l], UNCHANGED <<market, mood>>
    PROVE  LaneSound(pred[l], l)'
  BY DEF LaneSound, ScoredSound, AskedSound, ClosedSound, Predict!_REGIME_MAP
LEMMA LaneWarned ==
    ASSUME NEW l \in Lanes, LaneSound(pred[l], l), pred[l].at # "idle",
           pred'[l] = [pred[l] EXCEPT !.moved = TRUE]
    PROVE  LaneSound(pred[l], l)'
<1> DEFINE p == pred[l]  q == pred'[l]
<1>1. /\ DOMAIN q = DOMAIN p /\ q.moved = TRUE
      /\ \A x \in DOMAIN p \ {"moved"} : q[x] = p[x]
<2>1. "moved" \in DOMAIN p
  BY DEF LaneSound
<2> QED
  BY <2>1
<1> HIDE DEF p, q
<1> QED
  BY <1>1 DEF LaneSound, ScoredSound, AskedSound, ClosedSound, p, q

\* The other lanes of a step that leaves market and regime alone.
LEMMA LanesKept ==
    ASSUME ScoreInv, NEW l \in Lanes, UNCHANGED <<market, mood>>,
           pred' = [k \in Lanes |-> pred'[k]], \A k \in Lanes \ {l} : pred'[k] = pred[k],
           LaneSound(pred[l], l)'
    PROVE  pred' = [k \in Lanes |-> pred'[k]] /\ \A k \in Lanes : LaneSound(pred[k], k)'
<1>1. ASSUME NEW k \in Lanes \ {l} PROVE LaneSound(pred[k], k)'
<2>1. LaneSound(pred[k], k)
  BY DEF ScoreInv
<2> QED
  BY <2>1, LaneStays
<1> QED
  BY <1>1

\* A step of a lane, from what its record holds to what it is extended by.
LEMMA LaneGrows ==
    ASSUME ScoreInv, NEW l \in Lanes, NEW stage, NEW more, Predict!To(l, stage, more),
           UNCHANGED <<market, mood>>,
           Grows(pred[l], pred'[l], stage, more) => LaneSound(pred[l], l)'
    PROVE  pred' = [k \in Lanes |-> pred'[k]] /\ \A k \in Lanes : LaneSound(pred[k], k)'
<1>1. /\ DOMAIN pred = Lanes /\ pred = [k \in Lanes |-> pred[k]] /\ "at" \in DOMAIN pred[l]
  BY DEF ScoreInv, LaneSound
<1>2. /\ pred' = [k \in Lanes |-> pred'[k]] /\ \A k \in Lanes \ {l} : pred'[k] = pred[k]
      /\ Grows(pred[l], pred'[l], stage, more)
  BY <1>1, OneLaneMoves
<1> QED
  BY <1>2, LanesKept

LEMMA BeginIsSound ==
    ASSUME ScoreInv, NEW l \in Lanes, NEW r \in Readings, Predict!Begin(l, r)
    PROVE  /\ stats' \in [Lanes -> Int]
           /\ pred' = [k \in Lanes |-> pred'[k]] /\ \A k \in Lanes : LaneSound(pred[k], k)'
<1>1. stats' \in [Lanes -> Int]
<2>1. Predict!stats_get(record, Predict!Threshold(l.timeframe)) \in Int
  BY PredictionAssumption DEF Predict!stats_get, Predict!PRIOR_ACCURACY, ScoreInv
<2> QED
  BY <2>1 DEF Predict!Begin, ScoreInv
<1> DEFINE l2 == IF stats'[l] = Predict!Missing THEN Predict!NONE
                 ELSE Predict!layer2_patterns(r.fires, stats'[l])
           q == [at |-> "news", bars |-> r, moved |-> FALSE, broken |-> FALSE, recorded |-> FALSE,
                 raw |-> Predict!None, l2 |-> l2]
<1>2. pred' = [pred EXCEPT ![l] = q] /\ UNCHANGED <<market, mood>>
  BY DEF Predict!Begin, Predict!world
<1>3. Predict!Readable(r)
  BY PredictionAssumption
<1>4. l2 \in Predict!Ballots
<2>1. r.fires \in Seq(FireSet) /\ stats'[l] \in Int
  BY <1>1, <1>3 DEF Predict!Readable, FireSet
<2> QED
  BY <2>1, FireVotes, NobodyVotes
<1>5. pred' = [k \in Lanes |-> pred'[k]] /\ pred'[l] = q /\ \A k \in Lanes \ {l} : pred'[k] = pred[k]
<2> HIDE DEF q
<2> QED
  BY <1>2 DEF ScoreInv
<1>6. /\ DOMAIN q = {"at", "bars", "moved", "broken", "recorded", "raw", "l2"}
      /\ q.at = "news" /\ q.bars = r /\ q.moved = FALSE /\ q.broken = FALSE /\ q.l2 = l2
  OBVIOUS
<1> HIDE DEF q, l2
<1>7. LaneSound(pred[l], l)'
<2>1. /\ DOMAIN pred'[l] = {"at", "bars", "moved", "broken", "recorded", "raw", "l2"}
      /\ pred'[l].at = "news" /\ pred'[l].bars = r /\ pred'[l].moved = FALSE
      /\ pred'[l].broken = FALSE /\ pred'[l].l2 \in Predict!Ballots
  BY <1>4, <1>5, <1>6
<2> QED
  BY <1>3, <2>1 DEF LaneSound
<1> QED
  BY <1>1, <1>2, <1>5, <1>7, LanesKept

LEMMA NewsIsSound ==
    ASSUME ScoreInv, NEW l \in Lanes, Predict!News(l)
    PROVE  pred' = [k \in Lanes |-> pred'[k]] /\ \A k \in Lanes : LaneSound(pred[k], k)'
<1> DEFINE heard == [l9 |-> Predict!layer9_news(news)]
           failed1 == [l9 |-> Predict!NONE, broken |-> TRUE]
<1>1. Predict!layer9_news(news) \in Predict!Ballots /\ Predict!NONE \in Predict!Ballots
<2>1. news \in Seq(Predict!Headline)
  BY PredictionAssumption DEF ScoreInv
<2> QED
  BY <2>1, NewsVotes, NobodyVotes
<1>2. /\ UNCHANGED <<market, mood>> /\ pred[l].at = "news" /\ LaneSound(pred[l], l)
      /\ Predict!To(l, "context", heard) \/ Predict!To(l, "context", failed1)
  BY DEF Predict!News, Predict!world, ScoreInv
<1>3. /\ DOMAIN heard = {"l9"} /\ heard.l9 \in Predict!Ballots
      /\ DOMAIN failed1 = {"l9", "broken"} /\ failed1.l9 \in Predict!Ballots /\ failed1.broken = TRUE
  BY <1>1
<1> HIDE DEF heard, failed1
<1>4. ASSUME NEW more \in {heard, failed1}, Grows(pred[l], pred'[l], "context", more)
      PROVE  LaneSound(pred[l], l)'
<2> DEFINE p == pred[l]  q == pred'[l]
<2>1. /\ DOMAIN p \subseteq DOMAIN q /\ q.at = "context" /\ "l9" \in DOMAIN q /\ q.l9 \in Predict!Ballots
      /\ \A x \in DOMAIN p \ {"at", "l9", "broken"} : q[x] = p[x]
      /\ "broken" \in DOMAIN p => q.broken \in {TRUE, p.broken}
      /\ DOMAIN q \subseteq DOMAIN p \cup {"l9", "broken"}
<3>1. /\ DOMAIN q = DOMAIN p \cup DOMAIN more /\ q.at = "context"
      /\ \A x \in DOMAIN more \ {"at"} : q[x] = more[x]
      /\ \A x \in DOMAIN p \ (DOMAIN more \cup {"at"}) : q[x] = p[x]
  BY <1>4 DEF Grows
<3>2. /\ "l9" \in DOMAIN more /\ DOMAIN more \subseteq {"l9", "broken"} /\ more.l9 \in Predict!Ballots
      /\ "broken" \in DOMAIN more => more.broken = TRUE
  BY <1>3, <1>4
<3> HIDE DEF p, q
<3> QED
  BY <3>1, <3>2
<2> HIDE DEF p, q
<2> QED
  BY <1>2, <2>1 DEF LaneSound, p, q
<1> QED
  BY <1>2, <1>4, LaneGrows

LEMMA ContextIsSound ==
    ASSUME ScoreInv, NEW l \in Lanes, Predict!Context(l)
    PROVE  pred' = [k \in Lanes |-> pred'[k]] /\ \A k \in Lanes : LaneSound(pred[k], k)'
<1> DEFINE p == pred[l]
           layers == Predict!layer_results(p)
           proposed == Predict!aggregate(layers, 0, 1000)
           seen(b) == Predict!_intermarket_snapshot_for(l.symbol, b)
           traps(b) == Predict!Traps(p, proposed.dir, seen(b).funding)
           more(b) == [layers |-> layers, proposed |-> proposed, seen |-> seen(b),
                       broken |-> b, traps |-> traps(b)]
<1>1. UNCHANGED <<market, mood>> /\ p.at = "context" /\ LaneSound(p, l)
  BY DEF Predict!Context, Predict!world, ScoreInv
<1>2. Predict!To(l, "brain", more(p.broken)) \/ Predict!To(l, "brain", more(TRUE))
  BY DEF Predict!Context
<1>3. layers \in [1..10 -> Predict!Ballots]
<2>1. Predict!Readable(p.bars) /\ p.l2 \in Predict!Ballots /\ p.l9 \in Predict!Ballots
  BY <1>1 DEF LaneSound
<2> QED
  BY <2>1, LayersVote
<1>4. proposed.dir \in {-1, 0, 1}
<2> HIDE DEF layers, proposed
<2>1. 1000 \in Adjustments
  BY DEF Adjustments
<2> QED
  BY <1>3, <2>1, FinalFollows DEF proposed
<1>5. ASSUME NEW b PROVE traps(b) \in Nat
<2>1. IsFiniteSet(p.bars.traps[proposed.dir])
<3>1. Predict!Readable(p.bars)
  BY <1>1 DEF LaneSound
<3>2. \A S : Predict!IsFiniteSet(S) <=> IsFiniteSet(S)
  BY DEF Predict!IsFiniteSet, IsFiniteSet
<3> HIDE DEF proposed
<3> QED
  BY <1>4, <3>1, <3>2 DEF Predict!Readable
<2>2. Predict!Cardinality(p.bars.traps[proposed.dir]) \in Nat
<3>1. \A S : Predict!Cardinality(S) = Cardinality(S)
  BY DEF Predict!Cardinality, Cardinality
<3> HIDE DEF proposed
<3> QED
  BY <2>1, <3>1, FS_CardinalityType
<2> HIDE DEF proposed, seen
<2> QED
  BY <2>2 DEF Predict!Traps
<1>6. seen(FALSE) = IF l.symbol = Native THEN market ELSE seen(FALSE)
  BY DEF Predict!_intermarket_snapshot_for
<1> HIDE DEF layers, proposed, seen, traps
<1>7. ASSUME NEW b \in {p.broken, TRUE}, NEW q, q = pred'[l], Grows(p, q, "brain", more(b))
      PROVE  LaneSound(pred[l], l)'
<2> DEFINE m == more(b)
<2>1. /\ DOMAIN m = {"layers", "proposed", "seen", "broken", "traps"}
      /\ m.layers = layers /\ m.proposed = proposed /\ m.seen = seen(b) /\ m.broken = b /\ m.traps = traps(b)
  OBVIOUS
<2>2. Grows(p, q, "brain", m)
  BY <1>7
<2> HIDE DEF m, more
<2>3. /\ DOMAIN q = DOMAIN p \cup {"layers", "proposed", "seen", "broken", "traps"} /\ q.at = "brain"
      /\ q.layers = layers /\ q.proposed = proposed /\ q.seen = seen(b) /\ q.broken = b /\ q.traps = traps(b)
      /\ \A x \in DOMAIN p \ {"at", "layers", "proposed", "seen", "broken", "traps"} : q[x] = p[x]
  BY <2>1, <2>2 DEF Grows
<2>4. ScoredSound(q, l)'
<3>1. l.symbol = Native /\ ~b => seen(b) = market
  BY DEF seen, Predict!_intermarket_snapshot_for
<3> HIDE DEF p
<3> QED
  BY <1>1, <1>3, <1>5, <2>3, <3>1 DEF ScoredSound, proposed
<2> HIDE DEF p
<2>5. b \in BOOLEAN
  BY <1>1 DEF LaneSound
<2>6. LaneSound(q, l)'
  BY <1>1, <2>3, <2>4, <2>5 DEF LaneSound
<2> QED
  BY <1>7, <2>6
<1>8. PICK b \in {p.broken, TRUE} : Predict!To(l, "brain", more(b))
  BY <1>2
<1>9. Grows(p, pred'[l], "brain", more(b)) => LaneSound(pred[l], l)'
  BY <1>7
<1> HIDE DEF more
<1> QED
  BY <1>1, <1>8, <1>9, LaneGrows DEF p

\* What the lane had, a step that adds other fields leaves.
Judging == {"served", "raw", "smoothed", "adjust"}
LEMMA BrainBranches ==
    ASSUME NEW l \in Lanes, Predict!Brain(l)
    PROVE  \/ /\ Predict!To(l, "finish", [served |-> Predict!Served(pred[l]), adjust |-> 1000])
              /\ UNCHANGED history
           \/ \E raw \in Policies[brain] : brain # "none" /\ Predict!Decide(l, raw)
<1>1. \/ UNCHANGED <<table, history>>
         /\ Predict!To(l, "finish", [served |-> Predict!Served(pred[l]), adjust |-> 1000])
      \/ brain # Predict!None /\ \E raw \in Policies[brain] : Predict!Decide(l, raw)
      \/ UNCHANGED history
         /\ Predict!To(l, "finish", [served |-> Predict!Served(pred[l]), adjust |-> 1000])
  BY ZenonT(30) DEF Predict!Brain
<1> QED
  BY <1>1 DEF Predict!None

LEMMA BrainIsSound ==
    ASSUME ScoreInv, NEW l \in Lanes, Predict!Brain(l)
    PROVE  /\ pred' = [k \in Lanes |-> pred'[k]] /\ \A k \in Lanes : LaneSound(pred[k], k)'
           /\ table' \in Checkpoints \cup {"none", "random"}
           /\ history' \in [{k.symbol : k \in Lanes} -> Seq(Predict!Actions)]
           /\ \A s \in DOMAIN history' : Len(history'[s]) <= 3
<1> DEFINE p == pred[l]
           served == Predict!Served(p)
           past == history[l.symbol]
           smoothed(raw) == Predict!smooth_action(past, raw)
           adjust(raw) == Predict!action_to_brain_adjust(smoothed(raw), p.proposed.dir)
           calm == [served |-> served, adjust |-> 1000]
           moved1(raw) == [served |-> served, raw |-> raw, smoothed |-> smoothed(raw), adjust |-> adjust(raw)]
<1>1. UNCHANGED <<market, mood>> /\ p.at = "brain" /\ LaneSound(p, l)
  BY DEF Predict!Brain, Predict!world, ScoreInv
<1>2. \/ Predict!To(l, "finish", calm) /\ UNCHANGED history
      \/ \E raw \in Policies[brain] : brain # "none" /\ Predict!Decide(l, raw)
  BY BrainBranches
<1>3. table' \in Checkpoints \cup {"none", "random"}
  BY DEF Predict!Brain, Predict!_get_asset_table, ScoreInv, Predict!None
<1>4. past \in Seq(Predict!Actions) /\ Len(past) <= 3 /\ l.symbol \in DOMAIN history
  BY DEF ScoreInv
<1>5. /\ p.proposed.dir \in {-1, 0, 1} /\ ScoredSound(p, l)
      /\ served = Predict!Observation(Predict!brain_layers(p.layers),
                      Predict!MarketFeatures(p.bars.atr, p.seen, Predict!_REGIME_MAP(mood)),
                      Predict!Macro(p.bars))
<2>1. ScoredSound(p, l)
  BY <1>1 DEF LaneSound
<2>2. 1000 \in Adjustments
  BY DEF Adjustments
<2>3. p.proposed.dir \in {-1, 0, 1}
<3> HIDE DEF p
<3> QED
  BY <2>1, <2>2, FinalFollows DEF ScoredSound
<2> QED
  BY <2>1, <2>3 DEF Predict!Served
<1> HIDE DEF served, past
\* What is right of the record once the brain was asked, with or without an action.
<1>6. ASSUME NEW q, NEW more, NEW stage \in {"record", "finish"}, Grows(p, q, stage, more), q = pred'[l],
             DOMAIN more \subseteq Judging, {"served", "adjust"} \subseteq DOMAIN more,
             more.served = served, more.adjust \in Adjustments,
             p.proposed.dir = 0 => more.adjust <= 1000,
             more.adjust > 1000 => /\ {"raw", "smoothed"} \subseteq DOMAIN more
                                   /\ more.raw # Predict!None
                                   /\ Predict!SideOf(more.smoothed) = p.proposed.dir
      PROVE  LaneSound(pred[l], l)'
<2> HIDE DEF p
<2>1. /\ DOMAIN p \subseteq DOMAIN q /\ DOMAIN q = DOMAIN p \cup DOMAIN more /\ q.at = stage
      /\ \A x \in DOMAIN p \ ({"at"} \cup Judging) : q[x] = p[x]
      /\ \A x \in DOMAIN more : q[x] = more[x]
  BY <1>6 DEF Grows, Judging
<2>2. \A x \in {"bars", "moved", "broken", "l2", "l9", "layers", "proposed", "seen", "traps"} :
          x \in DOMAIN p /\ q[x] = p[x]
  BY <1>1, <1>5, <2>1 DEF LaneSound, ScoredSound, Judging
<2>3. ScoredSound(q, l)'
  BY <1>1, <1>5, <2>1, <2>2 DEF ScoredSound
<2>4. AskedSound(q)'
<3>1. q.served = served /\ q.adjust = more.adjust
  BY <1>6, <2>1
<3>2. q.adjust > 1000 => /\ "smoothed" \in DOMAIN q /\ q.raw # Predict!None
                         /\ Predict!SideOf(q.smoothed) = q.proposed.dir
  BY <1>6, <2>1, <2>2, <3>1
<3> QED
  BY <1>1, <1>5, <1>6, <2>1, <2>2, <3>1, <3>2 DEF AskedSound
<2>5. "raw" \in DOMAIN q /\ "stored" \notin DOMAIN q
  BY <1>1, <1>6, <2>1 DEF LaneSound, Judging
<2>6. LaneSound(q, l)'
  BY <1>1, <1>6, <2>1, <2>2, <2>3, <2>4, <2>5 DEF LaneSound
<2> QED
  BY <1>6, <2>6
<1>7. CASE Predict!To(l, "finish", calm) /\ UNCHANGED history
<2>1. /\ DOMAIN calm = {"served", "adjust"} /\ calm.served = served /\ calm.adjust = 1000
  OBVIOUS
<2> HIDE DEF calm
<2>2. Grows(p, pred'[l], "finish", calm) => LaneSound(pred[l], l)'
<3>1. 1000 \in Adjustments
  BY DEF Adjustments
<3> HIDE DEF p
<3> QED
  BY <1>6, <2>1, <3>1 DEF Judging
<2>3. pred' = [k \in Lanes |-> pred'[k]] /\ \A k \in Lanes : LaneSound(pred[k], k)'
  BY <1>1, <1>7, <2>2, LaneGrows
<2> QED
  BY <1>3, <1>7, <2>3 DEF ScoreInv
<1>8. ASSUME NEW raw \in Policies[brain], brain # "none", Predict!Decide(l, raw)
      PROVE  /\ pred' = [k \in Lanes |-> pred'[k]] /\ \A k \in Lanes : LaneSound(pred[k], k)'
             /\ history' \in [{k.symbol : k \in Lanes} -> Seq(Predict!Actions)]
             /\ \A s \in DOMAIN history' : Len(history'[s]) <= 3
<2>1. raw \in Predict!Actions
  BY <1>8, PredictionAssumption DEF ScoreInv
<2> DEFINE more == moved1(raw)
<2>2. /\ DOMAIN more = {"served", "raw", "smoothed", "adjust"} /\ more.served = served /\ more.raw = raw
      /\ more.smoothed = smoothed(raw) /\ more.adjust = adjust(raw)
  OBVIOUS
<2>3. Predict!To(l, "record", more)
  BY <1>8, Zenon DEF Predict!Decide, served, past
<2>4. /\ adjust(raw) \in Adjustments /\ (p.proposed.dir = 0 => adjust(raw) <= 1000)
      /\ adjust(raw) > 1000 => Predict!SideOf(smoothed(raw)) = p.proposed.dir
<3> HIDE DEF p, smoothed
<3> QED
  BY <1>5, AdjustmentFollows
<2>5. raw # Predict!None
  BY <2>1 DEF Predict!Actions, Predict!None
<2> HIDE DEF more, adjust, smoothed
<2>6. Grows(p, pred'[l], "record", more) => LaneSound(pred[l], l)'
<3> HIDE DEF p
<3> QED
  BY <1>6, <2>2, <2>4, <2>5 DEF Judging
<2>7. pred' = [k \in Lanes |-> pred'[k]] /\ \A k \in Lanes : LaneSound(pred[k], k)'
  BY <1>1, <2>3, <2>6, LaneGrows
<2> DEFINE now == Append(past, raw)
           kept == IF Len(now) > 3 THEN Tail(now) ELSE now
<2>8. kept \in Seq(Predict!Actions) /\ Len(kept) <= 3
  BY <1>4, <2>1
<2>9. history' = [history EXCEPT ![l.symbol] = kept]
  BY <1>8, Zenon DEF Predict!Decide, past
<2> HIDE DEF kept
<2> QED
  BY <1>4, <2>7, <2>8, <2>9 DEF ScoreInv
<1> QED
  BY <1>2, <1>3, <1>7, <1>8

LEMMA RecordIsSound ==
    ASSUME ScoreInv, NEW l \in Lanes, Predict!Record(l)
    PROVE  pred' = [k \in Lanes |-> pred'[k]] /\ \A k \in Lanes : LaneSound(pred[k], k)'
<1> DEFINE p == pred[l]
<1>1. /\ UNCHANGED <<market, mood>> /\ p.at = "record" /\ LaneSound(p, l)
      /\ \E b \in BOOLEAN : Predict!To(l, "finish", [recorded |-> b])
  BY DEF Predict!Record, Predict!world, ScoreInv
<1>2. PICK b \in BOOLEAN : Predict!To(l, "finish", [recorded |-> b])
  BY <1>1
<1>3. ASSUME NEW q, q = pred'[l], Grows(p, q, "finish", [recorded |-> b])
      PROVE  LaneSound(pred[l], l)'
<2> HIDE DEF p
<2>1. /\ DOMAIN q = DOMAIN p \cup {"recorded"} /\ q.at = "finish"
      /\ \A x \in DOMAIN p \ {"at", "recorded"} : q[x] = p[x]
  BY <1>3 DEF Grows
<2>2. LaneSound(q, l)'
  BY <1>1, <2>1 DEF LaneSound, ScoredSound, AskedSound
<2> QED
  BY <1>3, <2>2
<1>4. Grows(p, pred'[l], "finish", [recorded |-> b]) => LaneSound(pred[l], l)'
  BY <1>3
<1> QED
  BY <1>1, <1>2, <1>4, LaneGrows

LEMMA FinishIsSound ==
    ASSUME ScoreInv, NEW l \in Lanes, Predict!Finish(l)
    PROVE  /\ pred' = [k \in Lanes |-> pred'[k]] /\ \A k \in Lanes : LaneSound(pred[k], k)'
           /\ memo' \in [{1, -1} -> {"unread", "none", "model"}]
           /\ \A dir \in {1, -1} : memo'[dir] = "none" => files[dir] # "good"
<1> DEFINE p == pred[l]
           final == Predict!aggregate(p.layers, p.traps, p.adjust)
           stage == IF l.symbol = Native /\ final.dir # 0 THEN "capture" ELSE "done"
           setup == Predict!_build_trade_setup(final.dir, p.bars.atr)
           summary(b) == IF b \/ news = <<>> THEN [count |-> 0, impact |-> Predict!None]
                         ELSE Predict!_build_news_summary(news)
           fields(b) == Predict!HookFields(p, final, Native, l.timeframe, b)
           more(b) == [final |-> final, tier |-> Predict!classify_tier(final), broken |-> b,
                       setup |-> setup, summary |-> summary(b), fields |-> fields(b)]
<1>1. /\ UNCHANGED <<market, mood>> /\ p.at = "finish" /\ LaneSound(p, l)
  BY DEF Predict!Finish, Predict!world, ScoreInv
<1>2. PICK b \in {p.broken, TRUE} : Predict!FinishWith(l, p, final, b)
  BY Zenon DEF Predict!Finish
<1>3. Predict!To(l, stage, more(b))
  BY <1>2, Zenon DEF Predict!FinishWith
<1>4. /\ memo' \in [{1, -1} -> {"unread", "none", "model"}]
      /\ \A dir \in {1, -1} : memo'[dir] = "none" => files[dir] # "good"
<2>1. memo' = [dir \in {1, -1} |-> IF dir = final.dir THEN Predict!_load_model(memo[dir], files[dir])
                                   ELSE memo[dir]]
  BY <1>2, Zenon DEF Predict!FinishWith, Predict!Directions
<2>2. \A dir \in {1, -1} :
          /\ Predict!_load_model(memo[dir], files[dir]) \in {"unread", "none", "model"}
          /\ Predict!_load_model(memo[dir], files[dir]) = "none" => files[dir] # "good"
  BY DEF Predict!_load_model, ScoreInv
<2> HIDE DEF final
<2> QED
  BY <2>1, <2>2 DEF ScoreInv
<1>5. fields(b).funding = Predict!_intermarket_snapshot_for(Native, b).funding
<2> HIDE DEF final, p
<2> QED
  BY DEF Predict!HookFields
<1>6. ~b => fields(b).funding = market.funding
<2> HIDE DEF fields
<2> QED
  BY <1>5 DEF Predict!_intermarket_snapshot_for
<1> HIDE DEF final, setup, summary, fields
<1>7. ASSUME NEW q, q = pred'[l], Grows(p, q, stage, more(b))
      PROVE  LaneSound(pred[l], l)'
<2> DEFINE m == more(b)
<2>1. /\ DOMAIN m = {"final", "tier", "broken", "setup", "summary", "fields"}
      /\ m.final = final /\ m.broken = b /\ m.setup = setup /\ m.fields = fields(b)
  OBVIOUS
<2>2. Grows(p, q, stage, m)
  BY <1>7
<2> HIDE DEF m, more, stage
<2>3. /\ DOMAIN q = DOMAIN p \cup {"final", "tier", "broken", "setup", "summary", "fields"} /\ q.at = stage
      /\ q.final = final /\ q.broken = b /\ q.setup = setup /\ q.fields = fields(b)
      /\ \A x \in DOMAIN p \ {"at", "final", "tier", "broken", "setup", "summary", "fields"} : q[x] = p[x]
  BY <2>1, <2>2 DEF Grows
<2>4. \A x \in {"bars", "moved", "raw", "l2", "l9", "layers", "proposed", "seen", "traps", "served", "adjust"} :
          x \in DOMAIN p /\ q[x] = p[x] /\ x \in DOMAIN q
<3> HIDE DEF p
<3> QED
  BY <1>1, <2>3 DEF LaneSound, ScoredSound, AskedSound
<2>5. b \in BOOLEAN /\ (~b => ~p.broken)
<3> HIDE DEF p
<3> QED
  BY <1>1 DEF LaneSound
<2>6. ScoredSound(q, l)'
<3> HIDE DEF p
<3> QED
  BY <1>1, <2>3, <2>4, <2>5 DEF LaneSound, ScoredSound
<2>7. AskedSound(q)'
<3>1. "smoothed" \in DOMAIN p => q.smoothed = p.smoothed /\ "smoothed" \in DOMAIN q
  BY <2>3
<3>2. AskedSound(p)
  BY <1>1 DEF LaneSound
<3> HIDE DEF p
<3> QED
  BY <1>1, <2>4, <3>1, <3>2 DEF AskedSound
<2>8. ClosedSound(q, l)'
<3>1. final = Predict!aggregate(q.layers, q.traps, q.adjust)
  BY <2>4 DEF final
<3>2. setup = Predict!_build_trade_setup(final.dir, q.bars.atr)
  BY <2>4 DEF setup
<3>3. l.symbol = Native /\ ~q.moved /\ ~q.broken => fields(b).funding = q.seen.funding
  BY <1>1, <1>6, <2>3, <2>5, <2>6 DEF ScoredSound
<3> HIDE DEF p
<3> QED
  BY <2>3, <3>1, <3>2, <3>3 DEF ClosedSound
<2>9. stage \in {"capture", "done"} /\ (stage = "capture" => l.symbol = Native)
  BY DEF stage
<2>10. "stored" \notin DOMAIN q
<3> HIDE DEF p
<3> QED
  BY <1>1, <2>3 DEF LaneSound
<2>11. LaneSound(q, l)'
<3>1. Predict!Readable(p.bars) /\ p.l2 \in Predict!Ballots /\ p.l9 \in Predict!Ballots /\ p.moved \in BOOLEAN
  BY <1>1 DEF LaneSound
<3> HIDE DEF p
<3>2. q.bars = p.bars /\ q.l2 = p.l2 /\ q.l9 = p.l9 /\ q.moved = p.moved
  BY <2>4
<3>3. {"at", "bars", "moved", "broken", "raw", "l2", "l9"} \subseteq DOMAIN q
  BY <1>1, <2>3, <2>4 DEF LaneSound
<3>4. Predict!Readable(q.bars) /\ q.l2 \in Predict!Ballots /\ q.l9 \in Predict!Ballots
  BY <3>1, <3>2
<3>5. q.moved \in BOOLEAN /\ q.broken \in BOOLEAN /\ q.at \in {"capture", "done"}
      /\ (q.at = "capture" => l.symbol = Native)
  BY <2>3, <2>5, <2>9, <3>1, <3>2
<3> QED
  BY <2>6, <2>7, <2>8, <2>10, <3>3, <3>4, <3>5 DEF LaneSound
<2> QED
  BY <1>7, <2>11
<1>8. Grows(p, pred'[l], stage, more(b)) => LaneSound(pred[l], l)'
  BY <1>7
<1> HIDE DEF more, stage
<1>9. pred' = [k \in Lanes |-> pred'[k]] /\ \A k \in Lanes : LaneSound(pred[k], k)'
  BY <1>1, <1>3, <1>8, LaneGrows DEF p
<1> QED
  BY <1>4, <1>9

LEMMA CaptureIsSound ==
    ASSUME ScoreInv, NEW l \in Lanes, Predict!Capture(l)
    PROVE  pred' = [k \in Lanes |-> pred'[k]] /\ \A k \in Lanes : LaneSound(pred[k], k)'
<1> DEFINE p == pred[l]
           seen == Predict!_intermarket_snapshot_for(l.symbol, FALSE)
           stored == Predict!build_obs_components(p, seen)
<1>1. /\ UNCHANGED <<market, mood>> /\ p.at = "capture" /\ LaneSound(p, l) /\ l.symbol = Native
      /\ Predict!To(l, "done", [stored |-> stored]) \/ Predict!To(l, "done", <<>>)
  BY DEF Predict!Capture, Predict!world, ScoreInv, LaneSound
<1>2. /\ Predict!Readable(p.bars) /\ ScoredSound(p, l) /\ AskedSound(p) /\ ClosedSound(p, l)
  BY <1>1 DEF LaneSound
<1>3. seen = market
  BY <1>1 DEF Predict!_intermarket_snapshot_for
<1>4. ~p.moved /\ ~p.broken => Predict!rebuilt(stored) = p.served
<2> SUFFICES ASSUME ~p.moved, ~p.broken PROVE Predict!rebuilt(stored) = p.served
  OBVIOUS
<2>1. p.seen = market
  BY <1>1, <1>2 DEF ScoredSound
<2>2. p.served = Predict!Observation(Predict!brain_layers(p.layers),
          Predict!MarketFeatures(p.bars.atr, p.seen, Predict!_REGIME_MAP(mood)), Predict!Macro(p.bars))
  BY <1>2 DEF AskedSound
<2>3. /\ stored.layer_scores = Predict!layer_scores_array(p.layers) /\ stored.atr = p.bars.atr
      /\ stored.intermarket = seen /\ stored.regime = Predict!_REGIME_MAP(mood)
      /\ stored.macro = Predict!Macro(p.bars)
  BY DEF Predict!build_obs_components
<2>4. SubSeq(Predict!layer_scores_array(p.layers), 1, 6) \o SubSeq(Predict!layer_scores_array(p.layers), 8, 9)
          = Predict!brain_layers(p.layers)
  BY <1>2, StoredIsServed DEF ScoredSound
<2> HIDE DEF p, seen, stored
<2> QED
  BY <1>3, <2>1, <2>2, <2>3, <2>4 DEF Predict!rebuilt
<1>5. ASSUME NEW q, NEW more, more = [stored |-> stored] \/ more = <<>>, q = pred'[l],
             Grows(p, q, "done", more)
      PROVE  LaneSound(pred[l], l)'
<2>1. DOMAIN more \subseteq {"stored"} /\ ("stored" \in DOMAIN more => more.stored = stored)
<3>1. CASE more = [stored |-> stored]
  BY <3>1
<3>2. CASE more = <<>>
  BY <3>2
<3> QED
  BY <1>5, <3>1, <3>2
<2> HIDE DEF p, stored
<2>2. /\ DOMAIN q = DOMAIN p \cup DOMAIN more /\ q.at = "done"
      /\ \A x \in DOMAIN p \ {"at", "stored"} : q[x] = p[x]
      /\ "stored" \in DOMAIN more => q.stored = stored
  BY <1>5, <2>1 DEF Grows
<2>3. "stored" \notin DOMAIN p
  BY <1>1 DEF LaneSound
<2>4. ScoredSound(q, l)' /\ AskedSound(q)' /\ ClosedSound(q, l)'
  BY <1>1, <2>2, <2>3 DEF LaneSound, ScoredSound, AskedSound, ClosedSound
<2>5. q.moved = p.moved /\ q.broken = p.broken /\ q.served = p.served
  BY <1>1, <1>2, <2>2 DEF LaneSound, AskedSound
<2>6. "stored" \in DOMAIN q => q.stored = stored
  BY <2>2, <2>3
<2>7. LaneSound(q, l)'
  BY <1>1, <1>4, <2>2, <2>4, <2>5, <2>6 DEF LaneSound
<2> QED
  BY <1>5, <2>7
<1> HIDE DEF stored
<1>6. \E more : /\ more = [stored |-> stored] \/ more = <<>>
                /\ Predict!To(l, "done", more)
  BY <1>1
<1>7. PICK more : (more = [stored |-> stored] \/ more = <<>>) /\ Predict!To(l, "done", more)
  BY <1>6
<1>8. Grows(p, pred'[l], "done", more) => LaneSound(pred[l], l)'
  BY <1>5, <1>7
<1> QED
  BY <1>1, <1>7, <1>8, LaneGrows

-----------------------------------------------------------------------------
(* The world moves, and the process restarts.                                 *)

LEMMA LanesWarned ==
    ASSUME ScoreInv, pred' = Predict!Stale
    PROVE  pred' = [k \in Lanes |-> pred'[k]] /\ \A k \in Lanes : LaneSound(pred[k], k)'
<1>1. pred' = [k \in Lanes |-> IF pred[k].at = "idle" THEN pred[k]
                               ELSE [pred[k] EXCEPT !.moved = TRUE]]
  BY Zenon DEF Predict!Stale
<1>2. ASSUME NEW k \in Lanes PROVE LaneSound(pred[k], k)'
<2>1. LaneSound(pred[k], k)
  BY DEF ScoreInv
<2>2. CASE pred[k].at = "idle"
<3>1. pred'[k] = pred[k]
  BY <1>1, <2>2
<3> QED
  BY <2>1, <2>2, <3>1 DEF LaneSound
<2>3. CASE pred[k].at # "idle"
<3>1. pred'[k] = [pred[k] EXCEPT !.moved = TRUE]
  BY <1>1, <2>3
<3> QED
  BY <2>1, <2>3, <3>1, LaneWarned
<2> QED
  BY <2>2, <2>3
<1>3. pred' = [k \in Lanes |-> pred'[k]]
  BY <1>1
<1> QED
  BY <1>2, <1>3, Zenon

LEMMA LanesQuiet ==
    ASSUME ScoreInv, UNCHANGED <<pred, market, mood>>
    PROVE  pred' = [k \in Lanes |-> pred'[k]] /\ \A k \in Lanes : LaneSound(pred[k], k)'
<1>1. ASSUME NEW k \in Lanes PROVE LaneSound(pred[k], k)'
<2>1. LaneSound(pred[k], k)
  BY DEF ScoreInv
<2> QED
  BY <2>1, LaneStays
<1>2. pred' = [k \in Lanes |-> pred'[k]]
  BY DEF ScoreInv
<1> QED
  BY <1>1, <1>2, Zenon

LEMMA LanesIdle ==
    ASSUME NEW p, NEW l, p = Predict!Idle PROVE LaneSound(p, l)
<1>1. DOMAIN p = {"at"} /\ p.at = "idle"
  BY DEF Predict!Idle
<1> QED
  BY <1>1 DEF LaneSound

\* A step that may move the world counts it.
LEMMA MovesCounted == ASSUME ScoreInv, Predict!Moved PROVE moves' \in 0..MaxMoves
  BY BoundsAssumption DEF Predict!Moved, ScoreInv

LEMMA SnapshotIsSound == ASSUME ScoreInv, Predict!Snapshot PROVE ScoreInv'
<1>1. /\ pred' = Predict!Stale /\ Predict!Moved
      /\ UNCHANGED <<stats, record, news, brain, table, history, files, memo, predictions>>
  BY DEF Predict!Snapshot, Predict!minds
<1>2. pred' = [k \in Lanes |-> pred'[k]] /\ \A k \in Lanes : LaneSound(pred[k], k)'
  BY <1>1, LanesWarned, Zenon
<1>3. moves' \in 0..MaxMoves
  BY <1>1, MovesCounted
<1> QED
  BY <1>1, <1>2, <1>3 DEF ScoreInv

LEMMA RegimeIsSound == ASSUME ScoreInv, Predict!Regime PROVE ScoreInv'
<1>1. /\ pred' = Predict!Stale /\ Predict!Moved
      /\ UNCHANGED <<stats, record, news, brain, table, history, files, memo, predictions>>
  BY DEF Predict!Regime, Predict!minds
<1>2. pred' = [k \in Lanes |-> pred'[k]] /\ \A k \in Lanes : LaneSound(pred[k], k)'
  BY <1>1, LanesWarned, Zenon
<1>3. moves' \in 0..MaxMoves
  BY <1>1, MovesCounted
<1> QED
  BY <1>1, <1>2, <1>3 DEF ScoreInv

LEMMA HeadlinesIsSound == ASSUME ScoreInv, Predict!Headlines PROVE ScoreInv'
<1>1. /\ Predict!Moved /\ news' \in NewsItems
      /\ UNCHANGED <<pred, market, mood, stats, record, brain, table, history, files, memo, predictions>>
  BY DEF Predict!Headlines, Predict!minds
<1>2. pred' = [k \in Lanes |-> pred'[k]] /\ \A k \in Lanes : LaneSound(pred[k], k)'
  BY <1>1, LanesQuiet
<1>3. moves' \in 0..MaxMoves
  BY <1>1, MovesCounted
<1> QED
  BY <1>1, <1>2, <1>3 DEF ScoreInv

LEMMA LearnIsSound == ASSUME ScoreInv, Predict!Learn PROVE ScoreInv'
<1>1. /\ Predict!Moved /\ record' \in Records
      /\ UNCHANGED <<pred, market, mood, stats, news, brain, table, history, files, memo, predictions>>
  BY DEF Predict!Learn, Predict!minds
<1>2. pred' = [k \in Lanes |-> pred'[k]] /\ \A k \in Lanes : LaneSound(pred[k], k)'
  BY <1>1, LanesQuiet
<1>3. moves' \in 0..MaxMoves
  BY <1>1, MovesCounted
<1> QED
  BY <1>1, <1>2, <1>3 DEF ScoreInv

LEMMA LoadIsSound == ASSUME ScoreInv, NEW c \in Checkpoints, Predict!Load(c) PROVE ScoreInv'
<1>1. /\ Predict!Moved /\ brain' = c
      /\ UNCHANGED <<pred, market, mood, stats, record, news, table, history, files, memo, predictions>>
  BY DEF Predict!Load, Predict!world
<1>2. pred' = [k \in Lanes |-> pred'[k]] /\ \A k \in Lanes : LaneSound(pred[k], k)'
  BY <1>1, LanesQuiet
<1>3. moves' \in 0..MaxMoves
  BY <1>1, MovesCounted
<1> QED
  BY <1>1, <1>2, <1>3 DEF ScoreInv

\* A refitted model's file is good only when the memory has it too.
LEMMA RefitIsSound == ASSUME ScoreInv, NEW dir \in {1, -1}, Predict!Refit(dir) PROVE ScoreInv'
<1>1. /\ Predict!Moved
      /\ UNCHANGED <<pred, market, mood, stats, record, news, brain, table, history, predictions>>
      /\ \/ files' = [files EXCEPT ![dir] = "good"] /\ memo' = [memo EXCEPT ![dir] = "model"]
         \/ files' = [files EXCEPT ![dir] = "torn"] /\ UNCHANGED memo
  BY DEF Predict!Refit, Predict!minds
<1>2. pred' = [k \in Lanes |-> pred'[k]] /\ \A k \in Lanes : LaneSound(pred[k], k)'
  BY <1>1, LanesQuiet
<1>3. moves' \in 0..MaxMoves
  BY <1>1, MovesCounted
<1>4. /\ files' \in [{1, -1} -> {"none", "good", "torn"}]
      /\ memo' \in [{1, -1} -> {"unread", "none", "model"}]
      /\ \A side \in {1, -1} : memo'[side] = "none" => files'[side] # "good"
<2>1. CASE files' = [files EXCEPT ![dir] = "good"] /\ memo' = [memo EXCEPT ![dir] = "model"]
  BY <2>1 DEF ScoreInv
<2>2. CASE files' = [files EXCEPT ![dir] = "torn"] /\ UNCHANGED memo
  BY <2>2 DEF ScoreInv
<2> QED
  BY <1>1, <2>1, <2>2
<1> QED
  BY <1>1, <1>2, <1>3, <1>4 DEF ScoreInv

LEMMA RestartIsSound == ASSUME ScoreInv, Predict!Restart PROVE ScoreInv'
<1>1. /\ pred' = [l \in Lanes |-> Predict!Idle] /\ brain' = "none" /\ table' = "none"
      /\ history' = [s \in DOMAIN history |-> <<>>] /\ stats' = [l \in Lanes |-> Predict!Missing]
      /\ memo' = [dir \in {1, -1} |-> "unread"]
      /\ UNCHANGED <<record, news, files, predictions, moves>>
  BY Zenon DEF Predict!Restart, Predict!None, Predict!Directions
<1>2. \A k \in Lanes : LaneSound(pred[k], k)'
<2>1. ASSUME NEW k \in Lanes PROVE LaneSound(pred[k], k)'
<3>1. pred'[k] = Predict!Idle
  BY <1>1
<3>2. DOMAIN pred'[k] = {"at"} /\ pred'[k].at = "idle"
  BY <3>1 DEF Predict!Idle
<3> QED
  BY <3>2 DEF LaneSound
<2> QED
  BY <2>1, Zenon
<1>3. Predict!Missing \in Int
  BY DEF Predict!Missing
<1>4. /\ history' \in [{l.symbol : l \in Lanes} -> Seq(Predict!Actions)]
      /\ \A s \in DOMAIN history' : Len(history'[s]) <= 3
  BY <1>1 DEF ScoreInv
<1>5. pred' = [k \in Lanes |-> pred'[k]]
  BY <1>1
<1> QED
  BY <1>1, <1>2, <1>3, <1>4, <1>5 DEF ScoreInv

-----------------------------------------------------------------------------
(* The invariant.                                                             *)

LEMMA ScoreStart == Predict!Init => ScoreInv
<1> SUFFICES ASSUME Predict!Init PROVE ScoreInv
  OBVIOUS
<1>1. /\ pred = [l \in Lanes |-> Predict!Idle]
      /\ stats = [l \in Lanes |-> Predict!Missing] /\ record \in Records /\ news \in NewsItems
      /\ brain \in Checkpoints \cup {"none"} /\ table = "none"
      /\ history = [s \in {l.symbol : l \in Lanes} |-> <<>>]
      /\ files = [dir \in {1, -1} |-> "none"] /\ memo = [dir \in {1, -1} |-> "unread"]
      /\ predictions = 0 /\ moves = 0
  BY Zenon DEF Predict!Init, Predict!None, Predict!Directions
<1>2. \A k \in Lanes : LaneSound(pred[k], k)
  BY <1>1, LanesIdle
<1>3. Predict!Missing \in Int /\ pred = [k \in Lanes |-> pred[k]]
  BY <1>1 DEF Predict!Missing
<1> QED
  BY <1>1, <1>2, <1>3, BoundsAssumption DEF ScoreInv

\* A step of a lane.
LEMMA LaneKept ==
    ASSUME ScoreInv, NEW l \in Lanes,
           \/ \E r \in Readings : Predict!Begin(l, r)
           \/ Predict!News(l) \/ Predict!Context(l) \/ Predict!Brain(l)
           \/ Predict!Record(l) \/ Predict!Finish(l) \/ Predict!Capture(l)
    PROVE  ScoreInv'
<1>1. ASSUME NEW r \in Readings, Predict!Begin(l, r) PROVE ScoreInv'
<2>1. /\ stats' \in [Lanes -> Int]
      /\ pred' = [k \in Lanes |-> pred'[k]] /\ \A k \in Lanes : LaneSound(pred[k], k)'
  BY <1>1, BeginIsSound, Zenon
<2>2. predictions' \in 0..MaxPredictions
  BY <1>1, BoundsAssumption DEF Predict!Begin, ScoreInv
<2>3. UNCHANGED <<record, news, brain, table, history, files, memo, moves>>
  BY <1>1 DEF Predict!Begin, Predict!minds, Predict!world
<2> QED
  BY <2>1, <2>2, <2>3 DEF ScoreInv
<1>2. CASE Predict!News(l)
<2>1. pred' = [k \in Lanes |-> pred'[k]] /\ \A k \in Lanes : LaneSound(pred[k], k)'
  BY <1>2, NewsIsSound, Zenon
<2>2. UNCHANGED <<stats, record, news, brain, table, history, files, memo, predictions, moves>>
  BY <1>2 DEF Predict!News, Predict!minds, Predict!world
<2> QED
  BY <2>1, <2>2 DEF ScoreInv
<1>3. CASE Predict!Context(l)
<2>1. pred' = [k \in Lanes |-> pred'[k]] /\ \A k \in Lanes : LaneSound(pred[k], k)'
  BY <1>3, ContextIsSound, Zenon
<2>2. UNCHANGED <<stats, record, news, brain, table, history, files, memo, predictions, moves>>
  BY <1>3, Zenon DEF Predict!Context, Predict!minds, Predict!world
<2> QED
  BY <2>1, <2>2 DEF ScoreInv
<1>4. CASE Predict!Brain(l)
<2>1. /\ pred' = [k \in Lanes |-> pred'[k]] /\ \A k \in Lanes : LaneSound(pred[k], k)'
      /\ table' \in Checkpoints \cup {"none", "random"}
      /\ history' \in [{k.symbol : k \in Lanes} -> Seq(Predict!Actions)]
      /\ \A s \in DOMAIN history' : Len(history'[s]) <= 3
  BY <1>4, BrainIsSound, Zenon
<2>2. UNCHANGED <<stats, record, news, brain, files, memo, predictions, moves>>
  BY <1>4, Zenon DEF Predict!Brain, Predict!world
<2> QED
  BY <2>1, <2>2 DEF ScoreInv
<1>5. CASE Predict!Record(l)
<2>1. pred' = [k \in Lanes |-> pred'[k]] /\ \A k \in Lanes : LaneSound(pred[k], k)'
  BY <1>5, RecordIsSound, Zenon
<2>2. UNCHANGED <<stats, record, news, brain, table, history, files, memo, predictions, moves>>
  BY <1>5 DEF Predict!Record, Predict!minds, Predict!world
<2> QED
  BY <2>1, <2>2 DEF ScoreInv
<1>6. CASE Predict!Finish(l)
<2>1. /\ pred' = [k \in Lanes |-> pred'[k]] /\ \A k \in Lanes : LaneSound(pred[k], k)'
      /\ memo' \in [{1, -1} -> {"unread", "none", "model"}]
      /\ \A dir \in {1, -1} : memo'[dir] = "none" => files[dir] # "good"
  BY <1>6, FinishIsSound, Zenon
<2>2. UNCHANGED <<stats, record, news, brain, table, history, files, predictions, moves>>
  BY <1>6, Zenon DEF Predict!Finish, Predict!minds, Predict!world
<2> QED
  BY <2>1, <2>2 DEF ScoreInv
<1>7. CASE Predict!Capture(l)
<2>1. pred' = [k \in Lanes |-> pred'[k]] /\ \A k \in Lanes : LaneSound(pred[k], k)'
  BY <1>7, CaptureIsSound, Zenon
<2>2. UNCHANGED <<stats, record, news, brain, table, history, files, memo, predictions, moves>>
  BY <1>7, Zenon DEF Predict!Capture, Predict!minds, Predict!world
<2> QED
  BY <2>1, <2>2 DEF ScoreInv
<1> QED
  BY <1>1, <1>2, <1>3, <1>4, <1>5, <1>6, <1>7

LEMMA ScoreKept == ScoreInv /\ [Next]_allVars => ScoreInv'
<1> SUFFICES ASSUME ScoreInv, [Next]_allVars PROVE ScoreInv'
  OBVIOUS
<1>1. CASE UNCHANGED scoreOnly
<2>1. UNCHANGED <<pred, market, mood, stats, record, news, brain, table, history, files, memo,
                  predictions, moves>>
  BY <1>1 DEF scoreOnly
<2>2. pred' = [k \in Lanes |-> pred'[k]] /\ \A k \in Lanes : LaneSound(pred[k], k)'
  BY <2>1, LanesQuiet
<2> QED
  BY <2>1, <2>2 DEF ScoreInv
<1>2. CASE Predict!Next
<2>1. \/ \E l \in Lanes : \/ \E r \in Readings : Predict!Begin(l, r)
                          \/ Predict!News(l) \/ Predict!Context(l) \/ Predict!Brain(l)
                          \/ Predict!Record(l) \/ Predict!Finish(l) \/ Predict!Capture(l)
      \/ Predict!Snapshot \/ Predict!Headlines \/ Predict!Regime \/ Predict!Learn \/ Predict!Restart
      \/ \E c \in Checkpoints : Predict!Load(c)
      \/ \E dir \in {1, -1} : Predict!Refit(dir)
  BY <1>2, Zenon DEF Predict!Next, Predict!Directions
<2> QED
  BY <2>1, LaneKept, SnapshotIsSound, HeadlinesIsSound, RegimeIsSound, LearnIsSound, RestartIsSound,
     LoadIsSound, RefitIsSound, Zenon
<1> QED
  BY <1>1, <1>2, Zenon DEF Next, allVars

LEMMA ScoresSound == Spec => []ScoreInv
<1>1. Init => ScoreInv
  BY ScoreStart DEF Init
<1> QED
  BY <1>1, ScoreKept, PTL DEF Spec

\* The two sides of a setup: the stop against the trade, the target twice as far.
LEMMA StopAgainst ==
    ASSUME NEW dir \in {-1, 0, 1}, NEW atr, NEW setup, setup = Predict!_build_trade_setup(dir, atr),
           setup.stop # Predict!Missing
    PROVE  setup.stop * dir < 0 /\ setup.target = -2 * setup.stop
  BY DEF Predict!_build_trade_setup, Predict!Missing

\* The four promises of a prediction follow.
LEMMA ScoresHonest == ScoreInv => PredictionHonest
<1> SUFFICES ASSUME ScoreInv PROVE PredictionHonest
  OBVIOUS
<1>1. ASSUME NEW l \in Lanes, Predict!Finished(pred[l])
      PROVE  /\ LaneSound(pred[l], l) /\ ScoredSound(pred[l], l) /\ AskedSound(pred[l])
             /\ ClosedSound(pred[l], l)
<2>1. LaneSound(pred[l], l)
  BY DEF ScoreInv
<2> QED
  BY <1>1, <2>1 DEF LaneSound, Predict!Finished
<1>2. Predict!FinalFollowsProposal
<2> SUFFICES ASSUME NEW l \in Lanes, Predict!Finished(pred[l]), NEW p, p = pred[l]
             PROVE  /\ p.final.dir \in {0, p.proposed.dir}
                    /\ 1000 * Predict!Abs(p.final.score) <= 1150 * Predict!Abs(p.proposed.score)
                    /\ Predict!Abs(p.final.score) > Predict!Abs(p.proposed.score) =>
                           p.raw # Predict!None /\ Predict!SideOf(p.smoothed) = p.proposed.dir
                    /\ p.setup.stop # Predict!Missing => /\ p.setup.stop * p.final.dir < 0
                                                         /\ p.setup.target = -2 * p.setup.stop
  BY DEF Predict!FinalFollowsProposal
<2>1. ScoredSound(p, l) /\ AskedSound(p) /\ ClosedSound(p, l)
  BY <1>1
<2>2. /\ p.layers \in [1..10 -> Predict!Ballots] /\ p.traps \in Nat
      /\ p.proposed = Predict!aggregate(p.layers, 0, 1000)
      /\ p.final = Predict!aggregate(p.layers, p.traps, p.adjust)
      /\ p.adjust \in Adjustments /\ (p.proposed.dir = 0 => p.adjust <= 1000)
      /\ p.setup = Predict!_build_trade_setup(p.final.dir, p.bars.atr)
  BY <2>1 DEF ScoredSound, AskedSound, ClosedSound
<2>3. /\ p.proposed.dir \in {-1, 0, 1} /\ p.final.dir \in {0, p.proposed.dir}
      /\ 1000 * Predict!Abs(p.final.score) <= 1150 * Predict!Abs(p.proposed.score)
      /\ Predict!Abs(p.final.score) > Predict!Abs(p.proposed.score) => p.adjust > 1000
  BY <2>2, FinalFollows
<2>4. p.adjust > 1000 => p.raw # Predict!None /\ Predict!SideOf(p.smoothed) = p.proposed.dir
  BY <2>1 DEF AskedSound
<2>5. p.setup.stop # Predict!Missing => /\ p.setup.stop * p.final.dir < 0
                                        /\ p.setup.target = -2 * p.setup.stop
<3>1. p.final.dir \in {-1, 0, 1}
  BY <2>3
<3> QED
  BY <2>2, <3>1, StopAgainst
<2> QED
  BY <2>3, <2>4, <2>5
<1>3. Predict!TrainSeesServed
<2> SUFFICES ASSUME NEW l \in Lanes
             PROVE  /\ "stored" \in DOMAIN pred[l] /\ ~pred[l].moved /\ ~pred[l].broken =>
                           Predict!rebuilt(pred[l].stored) = pred[l].served
                    /\ Predict!Finished(pred[l]) =>
                           Predict!_layer_scores_to_tuple(pred[l].layers) = pred[l].served.scores
  BY Zenon DEF Predict!TrainSeesServed
<2>1. LaneSound(pred[l], l)
  BY DEF ScoreInv
<2>2. ASSUME Predict!Finished(pred[l])
      PROVE  Predict!_layer_scores_to_tuple(pred[l].layers) = pred[l].served.scores
<3>1. ScoredSound(pred[l], l) /\ AskedSound(pred[l])
  BY <1>1, <2>2
<3>2. pred[l].served.scores = Predict!brain_layers(pred[l].layers)
  BY <3>1 DEF AskedSound, Predict!Observation
<3> QED
  BY <3>1, <3>2, FallbackAgrees DEF ScoredSound
<2> QED
  BY <2>1, <2>2 DEF LaneSound
<1>4. Predict!ReadsAgree
<2> SUFFICES ASSUME NEW l \in Lanes, Predict!Finished(pred[l]), l.symbol = Native,
                    ~pred[l].moved, ~pred[l].broken
             PROVE  pred[l].fields.funding = pred[l].seen.funding
  BY Zenon DEF Predict!ReadsAgree
<2> QED
  BY <1>1 DEF ClosedSound
<1>5. Predict!SentinelHonest
  BY DEF Predict!SentinelHonest, Predict!Directions, ScoreInv
<1> QED
  BY <1>2, <1>3, <1>4, <1>5 DEF PredictionHonest

\* What a prediction promises holds in every state: the direction traded is the
\* one its traps were checked for and the brain cannot turn it or raise it unless
\* it agrees (aggregate, action_to_brain_adjust), the brain is trained on what it
\* was shown (load_from_shadow_trades against _build_observation), the funding
\* recorded is the funding the traps saw, and a refitted model is used.
THEOREM PredictionKept == Spec => []PredictionHonest
<1>1. ScoreInv => PredictionHonest
  BY ScoresHonest
<1> QED
  BY <1>1, ScoresSound, PTL

-----------------------------------------------------------------------------
(* The types of all six machines.                                             *)

CountsTypes ==
    /\ phase \in {"sleep", "flush", "commit"}
    /\ fresh \subseteq Counts!Checks /\ silent \subseteq Counts!Checks
    /\ finding \in {"none", "ok", "violation", "error"}
    /\ pendingFinding \in {"none", "ok", "violation", "error"}
    /\ \A s \in Symbols : total[s] <= truth[s]

LEMMA CountsTypesStart == ASSUME Counts!Init PROVE CountsTypes
  BY DEF Counts!Init, Counts!Zero, CountsTypes

LEMMA CountsTypesStep == ASSUME CountsInv, CountsTypes, Counts!Next PROVE CountsTypes'
<1> USE DEF CountsTypes, Counts!counters, Counts!audit, Counts!Checks
<1>1. ASSUME NEW s \in Symbols, Counts!FetchFails(s) PROVE CountsTypes'
  BY <1>1 DEF Counts!FetchFails, CountsInv
<1>2. ASSUME NEW s \in Symbols, Counts!FlushSymbol(s) PROVE CountsTypes'
  BY <1>2 DEF Counts!FlushSymbol
<1>3. ASSUME NEW c, Counts!GrowOld(c) PROVE CountsTypes'
  BY <1>3 DEF Counts!GrowOld
<1>4. ASSUME Counts!UniverseChanges PROVE CountsTypes'
  BY <1>4 DEF Counts!UniverseChanges
<1>5. ASSUME Counts!Audit PROVE CountsTypes'
  BY <1>5 DEF Counts!Audit
<1>6. ASSUME Counts!FindSilent PROVE CountsTypes'
  BY <1>6 DEF Counts!FindSilent
<1>7. ASSUME Counts!Commit PROVE CountsTypes'
  BY <1>7 DEF Counts!Commit
<1>8. ASSUME Counts!CycleFails PROVE CountsTypes'
  BY <1>8 DEF Counts!CycleFails
<1>9. ASSUME Counts!Restart PROVE CountsTypes'
  BY <1>9 DEF Counts!Restart, Counts!Zero, CountsInv
<1> QED
  BY <1>1, <1>2, <1>3, <1>4, <1>5, <1>6, <1>7, <1>8, <1>9 DEF Counts!Next

LEMMA CountsTypesKept ==
    ASSUME CountsInv, CountsTypes, [Next]_allVars PROVE CountsTypes'
<1>1. CASE Counts!Next
  BY <1>1, CountsTypesStep
<1>2. CASE UNCHANGED countsOnly
  BY <1>2 DEF CountsTypes, countsOnly
<1> QED
  BY <1>1, <1>2 DEF Next, allVars

\* A set that holds one element at most has one element at most to count.
LEMMA AtMostOneCounts ==
    ASSUME NEW S, \A c, e \in S : c = e PROVE Brains!Cardinality(S) <= 1
<1>1. Brains!Cardinality(S) = Cardinality(S)
  BY DEF Brains!Cardinality, Cardinality
<1>2. CASE S = {}
  BY <1>1, <1>2, FS_EmptySet
<1>3. CASE S # {}
<2>1. PICK c : S = {c}
  BY <1>3
<2>2. Cardinality({c}) = 1
  BY FS_Singleton, Zenon
<2> QED
  BY <1>1, <2>1, <2>2
<1> QED
  BY <1>2, <1>3

LEMMA BrainsTyped == BrainsInv => Brains!TypeOK
<1> SUFFICES ASSUME BrainsInv PROVE Brains!TypeOK
  OBVIOUS
<1>1. Brains!Cardinality(active) <= 1
  BY AtMostOneCounts DEF BrainsInv
<1>2. Brains!Cardinality(loaded) <= 1
<2>1. \A c, e \in loaded : c = e
  BY DEF BrainsInv
<2> QED
  BY <2>1, AtMostOneCounts
<1>3. \A w \in Writers : swap[w].at \in {"idle", "swap", "first", "insert"}
  BY DEF BrainsInv
<1> QED
  BY <1>1, <1>2, <1>3 DEF BrainsInv, Brains!TypeOK

LEMMA ModesTyped == ModesInv => Modes!TypeOK
  BY EarnedFacts DEF ModesInv, Modes!TypeOK, Locals
LEMMA CountsTyped == CountsInv /\ CountsTypes => Counts!TypeOK
  BY DEF CountsInv, CountsTypes, Counts!TypeOK
LEMMA PauseTyped == PauseInv /\ faults \in 0..MaxFaults => Pause!TypeOK
  BY DEF PauseInv, PauseTypes, Pause!TypeOK
LEMMA GatesTyped == DispatchInv /\ faults \in 0..MaxFaults => Gates!TypeOK
<1> SUFFICES ASSUME DispatchInv, faults \in 0..MaxFaults PROVE Gates!TypeOK
  OBVIOUS
<1>1. held \in [Feeds -> 0..MaxOffers]
  BY BoundsAssumption DEF DispatchInv, FlowInv
<1>2. \A f \in Feeds : d[f].pc \in {"idle", "allowlist", "quality", "symbol", "place", "card", "log"}
  BY DEF DispatchInv, FlowInv, Sound
<1>3. losing \in [Feeds -> Gates!Never..MaxHour]
  BY BoundsAssumption DEF DispatchInv, FlowInv, Gates!Never
<1> QED
  BY <1>1, <1>2, <1>3 DEF DispatchInv, FlowInv, DataInv, Gates!TypeOK
LEMMA ScoresTyped == ScoreInv /\ faults \in 0..MaxFaults => Predict!TypeOK
  BY Zenon DEF ScoreInv, LaneSound, Predict!TypeOK, Predict!None, Predict!Directions

\* Every machine's variables keep their types, whatever the bounds.
THEOREM ControlTyped == Spec => []TypesOK
<1>1. Spec => []PauseInv
<2>1. Init => PauseInv
  BY PauseStart DEF Init
<2>2. faults \in 0..MaxFaults /\ PauseInv /\ [Next]_allVars => PauseInv'
  BY PauseKept
<2> QED
  BY <2>1, <2>2, FaultsBounded, PTL DEF Spec
<1>2. Spec => []CountsInv
<2>1. Init => CountsInv
  BY CountsStart DEF Init
<2>2. CountsInv /\ [Next]_allVars => CountsInv'
  BY CountsKept
<2> QED
  BY <2>1, <2>2, PTL DEF Spec
<1>3. Spec => []CountsTypes
<2>1. Init => CountsTypes
  BY CountsTypesStart DEF Init
<2>2. CountsInv /\ CountsTypes /\ [Next]_allVars => CountsTypes'
  BY CountsTypesKept
<2> QED
  BY <1>2, <2>1, <2>2, PTL DEF Spec
<1>4. Spec => []ModesInv
<2>1. Init => ModesInv
  BY ModesStart DEF Init
<2>2. ModesInv /\ [Next]_allVars => ModesInv'
  BY ModesKept
<2> QED
  BY <2>1, <2>2, PTL DEF Spec
<1>5. Spec => []BrainsInv
<2>1. Init => BrainsInv
  BY BrainsStart DEF Init
<2>2. BrainsInv /\ [Next]_allVars => BrainsInv'
  BY BrainsKept
<2> QED
  BY <2>1, <2>2, PTL DEF Spec
<1>6. Spec => []DispatchInv
<2>1. Init => DispatchInv
  BY DispatchStart, BoundsAssumption DEF Init, Pause!Init
<2>2. faults \in 0..MaxFaults /\ DispatchInv /\ [Next]_allVars => DispatchInv'
  BY DispatchKept
<2> QED
  BY <2>1, <2>2, FaultsBounded, PTL DEF Spec
<1>7. (faults \in 0..MaxFaults) /\ PauseInv /\ CountsInv /\ CountsTypes /\ ModesInv /\ BrainsInv
          /\ DispatchInv /\ ScoreInv => TypesOK
<2> SUFFICES ASSUME faults \in 0..MaxFaults, PauseInv, CountsInv, CountsTypes, ModesInv, BrainsInv,
                    DispatchInv, ScoreInv
             PROVE  TypesOK
  OBVIOUS
<2>1. Pause!TypeOK /\ Counts!TypeOK /\ Modes!TypeOK
  BY PauseTyped, CountsTyped, ModesTyped, Zenon
<2>2. Brains!TypeOK /\ Gates!TypeOK /\ Predict!TypeOK
  BY BrainsTyped, GatesTyped, ScoresTyped, Zenon
<2> QED
  BY <2>1, <2>2, Zenon DEF TypesOK
<1> QED
  BY <1>1, <1>2, <1>3, <1>4, <1>5, <1>6, <1>7, ScoresSound, FaultsBounded, PTL
=============================================================================
