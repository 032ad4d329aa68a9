----------------------------- MODULE DeskProofs -----------------------------
(* The desk of Background: the healer, the start of the process, the weight *)
(* studies, the backtester, the tax records and the accounts; and what all  *)
(* parts of it share, the alarms and the types.                             *)
EXTENDS BackgroundProofs, SequenceTheorems

-----------------------------------------------------------------------------
(* The healer.                                                             *)

LEMMA HealerBounds ==
    /\ Grace \in Nat /\ Reminder \in Nat \ {0} /\ StallStreak \in Nat \ {0} /\ Interval \in Nat
    /\ HealerTime \in Nat /\ HealerFaults \in Nat /\ Fields \subseteq Keys
  BY HealerAssumption, DeskFaultsAssumption

HealerKeeps ==
    /\ tick \in 0..HealerTime /\ booted \in 0..tick /\ detector \in Healer!Detectors
    /\ known \subseteq Errors /\ faults \in 0..HealerFaults
    /\ \A d \in dropped : d.stale \subseteq Pairs /\ d.at \in booted..tick
    /\ lastRun \subseteq booted..tick
HealerWrites ==
    \A b \in baseline \cup sweep : b.keys \subseteq Keys /\ b.varying \subseteq Fields
HealerSays == \A f \in Healer!Said : f.kind \in Healer!Kinds /\ f.at \in 0..tick

\* A stall that is to be paged was seen in each of `stalls`, one look of this
\* process a tick.
HealerStalls ==
    /\ IsFiniteSet(stalls) /\ stalls \subseteq booted..tick /\ Cardinality(stalls) = stall
    /\ detector \in {"errors", "scores", "freshness"} => tick \notin stalls
    /\ (\E f \in pending : f.kind = "stall") => stall >= StallStreak

\* What keeps a drop from being told again was told.
HealerDrops ==
    /\ \A d \in dropped :
           \E f \in Healer!Said : f.kind = "drop" /\ f.about = d.stale /\ f.at = d.at
    /\ \A l \in looked :
           \E d \in dropped : d.stale = l.stale /\ l.at - d.at < Reminder

\* Before the first failure, a type that was paged is known.
HealerNovel ==
    faults = 0 => \A f \in Healer!Said : f.kind = "novel" => \E e \in known : f.about = {e}

HealerInv ==
    /\ HealerKeeps /\ HealerWrites /\ HealerSays /\ HealerStalls /\ HealerDrops /\ HealerNovel
    /\ Healer!NovelIsPaged /\ Healer!BaselineWasTold

LEMMA HealerStart == Healer!Init => HealerInv
<1> SUFFICES ASSUME Healer!Init PROVE HealerInv
  OBVIOUS
<1>1. Healer!Said = {}
  BY DEF Healer!Init, Healer!Said
<1>2. IsFiniteSet(stalls) /\ Cardinality(stalls) = 0
  BY FS_EmptySet DEF Healer!Init
<1>3. HealerStalls
  BY <1>2, HealerBounds DEF Healer!Init, HealerStalls
<1>4. HealerKeeps /\ HealerWrites
  BY HealerBounds DEF Healer!Init, HealerKeeps, HealerWrites, Healer!Detectors
<1>5. HealerSays /\ HealerDrops /\ HealerNovel /\ Healer!NovelIsPaged /\ Healer!BaselineWasTold
  BY <1>1 DEF Healer!Init, HealerSays, HealerDrops, HealerNovel, Healer!NovelIsPaged,
     Healer!BaselineWasTold
<1> QED
  BY <1>3, <1>4, <1>5 DEF HealerInv

\* The ways a step of the healer changes what is said.
LEMMA SaysNothing ==
    ASSUME pending' = {}, told' = told, missed' = missed, pending = {}
    PROVE  Healer!Said' = Healer!Said
  BY DEF Healer!Said

\* A detector that remembers nothing: what it finds, and which one is next.
Glimpse(found, next) ==
    /\ Healer!Glance(detector, found, next)
    /\ \A f \in found : f.kind \in {"degenerate", "blocked", "brain"} /\ f.at = tick
    /\ next \in {"blocked", "truth", "brain", "sleep"} \/ (next = "freshness" /\ detector = "scores")

LEMMA HealerCases ==
    ASSUME Healer!Next
    PROVE  \/ \E seens, busy \in SUBSET Errors : Healer!DetectErrors(seens, busy)
           \/ \E found, next : Glimpse(found, next)
           \/ Healer!NothingExpected \/ Healer!SweepFails
           \/ \E tracked, stale \in SUBSET Pairs, beating \in BOOLEAN :
                  Healer!DetectFreshness(tracked, stale, beating)
           \/ \E flags \in Healer!Flags, mature \in SUBSET Fields, readable \in BOOLEAN :
                  Healer!SweepDone(flags, mature, readable)
           \/ \E f \in pending : Healer!Tell(f)
           \/ Healer!RecordBaseline \/ Healer!Sleep \/ Healer!Restart
<1>1. ASSUME NEW alarm \in BOOLEAN, Healer!DetectScores(alarm)
      PROVE  \E found, next : Glimpse(found, next)
<2> DEFINE found == IF alarm THEN {Healer!Finding("degenerate", {})} ELSE {}
<2>1. Healer!Glance(detector, found, "freshness") /\ detector = "scores"
  BY <1>1 DEF Healer!DetectScores, Healer!Glance, Healer!Runs
<2>2. Glimpse(found, "freshness")
  BY <2>1 DEF Glimpse, Healer!Finding
<2> QED BY <2>2
<1>2. ASSUME NEW alarm \in BOOLEAN, Healer!DetectBlocked(alarm)
      PROVE  \E found, next : Glimpse(found, next)
<2> DEFINE found == IF alarm THEN {Healer!Finding("blocked", {})} ELSE {}
<2>1. Healer!Glance(detector, found, "truth")
  BY <1>2 DEF Healer!DetectBlocked, Healer!Glance, Healer!Runs
<2>2. Glimpse(found, "truth")
  BY <2>1 DEF Glimpse, Healer!Finding
<2> QED BY <2>2
<1>3. ASSUME NEW on, NEW loaded, Healer!DetectBrain(on, loaded)
      PROVE  \E found, next : Glimpse(found, next)
<2> DEFINE found == {Healer!Finding("brain", {c}) : c \in on \ loaded}
<2>1. Healer!Glance(detector, found, "sleep")
  BY <1>3 DEF Healer!DetectBrain, Healer!Glance, Healer!Runs
<2>2. Glimpse(found, "sleep")
  BY <2>1 DEF Glimpse, Healer!Finding
<2> QED BY <2>2
<1>4. ASSUME Healer!Unseen("freshness") PROVE \E found, next : Glimpse(found, next)
<2>1. Glimpse({}, "blocked")
  BY <1>4 DEF Healer!Unseen, Glimpse
<2> QED BY <2>1
<1>5. ASSUME Healer!NotDue PROVE \E found, next : Glimpse(found, next)
<2>1. Glimpse({}, "brain")
  BY <1>5 DEF Healer!NotDue, Glimpse, Healer!Glance, Healer!Runs
<2> QED BY <2>1
<1> QED
  BY <1>1, <1>2, <1>3, <1>4, <1>5 DEF Healer!Next

\* What a step leaves of what was said.
LEMMA HealerRepeats ==
    ASSUME Healer!Next, NEW f \in Healer!Said, Healer!Current(f) PROVE f \in Healer!Said'
<1> USE DEF Healer!Said, Healer!Runs
<1>1. ASSUME NEW seens, NEW busy, Healer!DetectErrors(seens, busy) PROVE f \in Healer!Said'
  BY <1>1 DEF Healer!DetectErrors
<1>2. ASSUME NEW found, NEW next, Glimpse(found, next) PROVE f \in Healer!Said'
  BY <1>2 DEF Glimpse, Healer!Glance
<1>3. CASE Healer!NothingExpected
  BY <1>3 DEF Healer!NothingExpected
<1>4. CASE Healer!SweepFails
  BY <1>4 DEF Healer!SweepFails
<1>5. ASSUME NEW tracked, NEW stale, NEW beating, Healer!DetectFreshness(tracked, stale, beating)
      PROVE  f \in Healer!Said'
  BY <1>5 DEF Healer!DetectFreshness
<1>6. ASSUME NEW flags, NEW mature, NEW readable, Healer!SweepDone(flags, mature, readable)
      PROVE  f \in Healer!Said'
  BY <1>6 DEF Healer!SweepDone
<1>7. ASSUME NEW g \in pending, Healer!Tell(g) PROVE f \in Healer!Said'
  BY <1>7 DEF Healer!Tell
<1>8. CASE Healer!RecordBaseline
  BY <1>8 DEF Healer!RecordBaseline
<1>9. CASE Healer!Sleep
  BY <1>9 DEF Healer!Sleep
<1>10. CASE Healer!Restart
  BY <1>10 DEF Healer!Restart
<1> QED
  BY <1>1, <1>2, <1>3, <1>4, <1>5, <1>6, <1>7, <1>8, <1>9, <1>10, HealerCases

\* And what it adds: findings of now.
LEMMA HealerFinds ==
    ASSUME HealerInv, Healer!Next, NEW f \in Healer!Said', f \notin Healer!Said
    PROVE  /\ f \in pending' /\ f.kind \in Healer!Kinds /\ f.at = tick /\ tick' = tick
           /\ f.kind = "novel" => \E e \in Errors \ known : f.about = {e}
<1> USE DEF Healer!Said, Healer!Kinds
<1>1. ASSUME NEW seens \in SUBSET Errors, NEW busy \in SUBSET Errors,
             Healer!DetectErrors(seens, busy)
      PROVE  /\ f \in pending' /\ f.kind \in Healer!Kinds /\ f.at = tick /\ tick' = tick
             /\ f.kind = "novel" => \E e \in Errors \ known : f.about = {e}
<2>1. f \in pending' /\ tick' = tick /\ f \in Healer!Novel(seens) \cup Healer!Spikes(busy)
  BY <1>1 DEF Healer!DetectErrors
<2> QED BY <2>1 DEF Healer!Novel, Healer!Spikes, Healer!Finding
<1>2. ASSUME NEW found, NEW next, Glimpse(found, next)
      PROVE  f \in pending' /\ f.kind \in Healer!Kinds \ {"novel"} /\ f.at = tick /\ tick' = tick
  BY <1>2 DEF Glimpse, Healer!Glance
<1>3. CASE Healer!NothingExpected
  BY <1>3 DEF Healer!NothingExpected, Healer!Finding
<1>4. CASE Healer!SweepFails
  BY <1>4 DEF Healer!SweepFails
<1>5. ASSUME NEW tracked, NEW stale, NEW beating, Healer!DetectFreshness(tracked, stale, beating)
      PROVE  f \in pending' /\ f.kind \in Healer!Kinds \ {"novel"} /\ f.at = tick /\ tick' = tick
<2>1. f \in pending' /\ tick' = tick
      /\ f \in {Healer!Finding("stall", {}), Healer!Finding("stalling", {}),
                Healer!Finding("drop", stale)}
  BY <1>5 DEF Healer!DetectFreshness
<2> QED BY <2>1 DEF Healer!Finding
<1>6. ASSUME NEW flags, NEW mature, NEW readable, Healer!SweepDone(flags, mature, readable)
      PROVE  f \in pending' /\ f.kind \in Healer!Kinds \ {"novel"} /\ f.at = tick /\ tick' = tick
<2>1. /\ f \in pending' /\ tick' = tick
      /\ \E k, flag, previous : f = Healer!Verdict(k, flag, previous)
  BY <1>6 DEF Healer!SweepDone
<2> QED BY <2>1 DEF Healer!Finding, Healer!Verdict
<1>7. ASSUME NEW g \in pending PROVE ~Healer!Tell(g)
  BY <1>7 DEF Healer!Tell
<1>8. ~Healer!RecordBaseline
  BY DEF Healer!RecordBaseline
<1>9. ~Healer!Sleep
  BY DEF Healer!Sleep, Healer!Runs
<1>10. ~Healer!Restart
  BY DEF Healer!Restart
<1> QED
  BY <1>1, <1>2, <1>3, <1>4, <1>5, <1>6, <1>7, <1>8, <1>9, <1>10, HealerCases

LEMMA HealerTypes ==
    ASSUME HealerInv, Healer!Next
    PROVE  HealerKeeps' /\ HealerWrites' /\ tick \in 0..tick'
<1> USE HealerBounds DEF HealerInv, HealerKeeps, HealerWrites, Healer!Detectors, Healer!After,
        Healer!Unblamed, Healer!Fault
<1>1. ASSUME NEW seens \in SUBSET Errors, NEW busy, Healer!DetectErrors(seens, busy)
      PROVE  HealerKeeps' /\ HealerWrites' /\ tick \in 0..tick'
  BY <1>1 DEF Healer!DetectErrors
<1>2. ASSUME NEW found, NEW next, Glimpse(found, next)
      PROVE  HealerKeeps' /\ HealerWrites' /\ tick \in 0..tick'
  BY <1>2 DEF Glimpse, Healer!Glance
<1>3. CASE Healer!NothingExpected
  BY <1>3 DEF Healer!NothingExpected
<1>4. CASE Healer!SweepFails
  BY <1>4 DEF Healer!SweepFails
<1>5. ASSUME NEW tracked \in SUBSET Pairs, NEW stale, NEW beating,
             Healer!DetectFreshness(tracked, stale, beating)
      PROVE  HealerKeeps' /\ HealerWrites' /\ tick \in 0..tick'
<2>1. stale \subseteq Pairs /\ detector' = "blocked"
  BY <1>5 DEF Healer!DetectFreshness
<2>2. dropped' \in {dropped, {[stale |-> stale, at |-> tick]}}
      /\ UNCHANGED <<tick, booted, known, lastRun, baseline, sweep, faults>>
  BY <1>5 DEF Healer!DetectFreshness
<2>3. \A d \in dropped' : d.stale \subseteq Pairs /\ d.at \in booted..tick
  BY <2>1, <2>2
<2> QED BY <2>1, <2>2, <2>3
<1>6. ASSUME NEW flags \in Healer!Flags, NEW mature \in SUBSET Fields, NEW readable,
             Healer!SweepDone(flags, mature, readable)
      PROVE  HealerKeeps' /\ HealerWrites' /\ tick \in 0..tick'
<2> DEFINE previous == IF readable THEN baseline ELSE {}
<2>1. /\ detector' = "brain" /\ lastRun' = {tick}
      /\ faults' = faults \/ (faults < HealerFaults /\ faults' = faults + 1)
      /\ UNCHANGED <<tick, booted, known, dropped, baseline>>
  BY <1>6 DEF Healer!SweepDone
<2>2. \A b \in sweep' : b.keys \subseteq Keys /\ b.varying \subseteq mature \cup Healer!Varied(previous)
  BY <1>6 DEF Healer!SweepDone
<2>3. Healer!Varied(previous) \subseteq Fields
  BY DEF Healer!Varied
<2>4. HealerWrites'
  BY <2>1, <2>2, <2>3
<2> QED BY <2>1, <2>4
<1>7. ASSUME NEW f \in pending, Healer!Tell(f) PROVE HealerKeeps' /\ HealerWrites' /\ tick \in 0..tick'
  BY <1>7 DEF Healer!Tell
<1>8. CASE Healer!RecordBaseline
  BY <1>8 DEF Healer!RecordBaseline
<1>9. CASE Healer!Sleep
  BY <1>9 DEF Healer!Sleep
<1>10. CASE Healer!Restart
  BY <1>10 DEF Healer!Restart
<1> QED
  BY <1>1, <1>2, <1>3, <1>4, <1>5, <1>6, <1>7, <1>8, <1>9, <1>10, HealerCases

LEMMA HealerSaysSo == ASSUME HealerInv, Healer!Next PROVE HealerSays'
<1> SUFFICES ASSUME NEW f \in Healer!Said' PROVE f.kind \in Healer!Kinds /\ f.at \in 0..tick'
  BY DEF HealerSays, Healer!Kinds
<1>1. tick \in 0..tick' /\ tick' \in Nat
  BY HealerTypes, HealerBounds DEF HealerKeeps
<1>2. CASE f \in Healer!Said
  BY <1>1, <1>2 DEF HealerInv, HealerSays
<1>3. CASE f \notin Healer!Said
  BY <1>1, <1>3, HealerFinds
<1> QED BY <1>2, <1>3

LEMMA HealerStallsStay == ASSUME HealerInv, Healer!Next PROVE HealerStalls'
<1> USE HealerBounds DEF HealerInv, HealerKeeps, HealerStalls, Healer!After, Healer!Runs
<1>0. IsFiniteSet({}) /\ Cardinality({}) = 0
  BY FS_EmptySet
<1>1. ASSUME NEW seens, NEW busy, Healer!DetectErrors(seens, busy) PROVE HealerStalls'
  BY <1>1 DEF Healer!DetectErrors, Healer!Novel, Healer!Spikes, Healer!Finding
<1>2. ASSUME NEW found, NEW next, Glimpse(found, next) PROVE HealerStalls'
  BY <1>2 DEF Glimpse, Healer!Glance
<1>3. CASE Healer!NothingExpected
  BY <1>3, <1>0 DEF Healer!NothingExpected, Healer!Finding
<1>4. CASE Healer!SweepFails
  BY <1>4 DEF Healer!SweepFails
<1>5. ASSUME NEW tracked, NEW stale, NEW beating, Healer!DetectFreshness(tracked, stale, beating)
      PROVE  HealerStalls'
<2> DEFINE stalled == Healer!IsStall(tracked, stale, beating)
<2>1. /\ tick \notin stalls /\ detector' = "blocked" /\ tick' = tick /\ booted' = booted
      /\ stall' = (IF stalled THEN stall + 1 ELSE 0)
      /\ stalls' = (IF stalled THEN stalls \cup {tick} ELSE {})
  BY <1>5 DEF Healer!DetectFreshness
<2>2. (\E f \in pending' : f.kind = "stall") => stall' >= StallStreak
<3>1. \A f \in pending' : \/ f = Healer!Finding("stall", {}) /\ stall' >= StallStreak
                          \/ f = Healer!Finding("stalling", {})
                          \/ f = Healer!Finding("drop", stale)
  BY <1>5 DEF Healer!DetectFreshness
<3> QED BY <3>1 DEF Healer!Finding
<2>3. IsFiniteSet(stalls') /\ Cardinality(stalls') = stall'
<3>1. IsFiniteSet(stalls \cup {tick}) /\ Cardinality(stalls \cup {tick}) = Cardinality(stalls) + 1
  BY <2>1, FS_AddElement
<3> QED BY <2>1, <3>1, <1>0
<2>4. stalls' \subseteq booted..tick
  BY <2>1
<2> HIDE DEF stalled
<2> QED BY <2>1, <2>2, <2>3, <2>4
<1>6. ASSUME NEW flags, NEW mature, NEW readable, Healer!SweepDone(flags, mature, readable)
      PROVE  HealerStalls'
<2>1. /\ UNCHANGED <<stalls, stall, booted, tick>> /\ detector' = "brain"
      /\ \A f \in pending' : \E k, flag, previous : f = Healer!Verdict(k, flag, previous)
  BY <1>6 DEF Healer!SweepDone
<2> QED BY <2>1 DEF Healer!Verdict, Healer!Finding
<1>7. ASSUME NEW f \in pending, Healer!Tell(f) PROVE HealerStalls'
  BY <1>7 DEF Healer!Tell
<1>8. CASE Healer!RecordBaseline
  BY <1>8 DEF Healer!RecordBaseline
<1>9. CASE Healer!Sleep
  BY <1>9 DEF Healer!Sleep
<1>10. CASE Healer!Restart
  BY <1>10, <1>0 DEF Healer!Restart
<1> QED
  BY <1>1, <1>2, <1>3, <1>4, <1>5, <1>6, <1>7, <1>8, <1>9, <1>10, HealerCases

LEMMA HealerDropsStay == ASSUME HealerInv, Healer!Next PROVE HealerDrops'
<1>0. \A d \in dropped : \E f \in Healer!Said' :
          f.kind = "drop" /\ f.about = d.stale /\ f.at = d.at
<2> SUFFICES ASSUME NEW d \in dropped
             PROVE  \E f \in Healer!Said' : f.kind = "drop" /\ f.about = d.stale /\ f.at = d.at
  OBVIOUS
<2>1. PICK f \in Healer!Said : f.kind = "drop" /\ f.about = d.stale /\ f.at = d.at
  BY DEF HealerInv, HealerDrops
<2>2. f \in Healer!Said'
  BY <2>1, HealerRepeats DEF Healer!Current
<2> QED BY <2>1, <2>2
<1>1. CASE dropped' = dropped /\ looked' = looked
  BY <1>0, <1>1 DEF HealerInv, HealerDrops
<1>2. CASE dropped' = {} /\ looked' = {}
  BY <1>2 DEF HealerDrops
<1>3. ASSUME NEW tracked, NEW stale, NEW beating, Healer!DetectFreshness(tracked, stale, beating)
      PROVE  HealerDrops'
<2> DEFINE drop == stale # {} /\ ~Healer!IsStall(tracked, stale, beating)
           here == [stale |-> stale, at |-> tick]
<2>1. /\ looked' = (IF drop THEN {here} ELSE {})
      /\ dropped' = (IF drop /\ ~Healer!Repeats(stale) THEN {here} ELSE dropped)
      /\ drop /\ ~Healer!Repeats(stale) => Healer!Finding("drop", stale) \in pending'
  BY <1>3 DEF Healer!DetectFreshness
<2>2. CASE drop /\ ~Healer!Repeats(stale)
  <3>1. Healer!Finding("drop", stale) \in Healer!Said'
    BY <2>1, <2>2 DEF Healer!Said
  <3>2. tick - tick < Reminder
    BY HealerBounds DEF HealerInv, HealerKeeps
  <3> QED BY <2>1, <2>2, <3>1, <3>2 DEF HealerDrops, Healer!Finding
<2>3. CASE drop /\ Healer!Repeats(stale)
  BY <2>1, <2>3, <1>0 DEF HealerDrops, Healer!Repeats
<2>4. CASE ~drop
  BY <2>1, <2>4, <1>0 DEF HealerDrops
<2> QED BY <2>2, <2>3, <2>4
<1>4. \/ dropped' = dropped /\ looked' = looked
      \/ dropped' = {} /\ looked' = {}
      \/ \E tracked, stale, beating : Healer!DetectFreshness(tracked, stale, beating)
  BY HealerCases DEF Healer!DetectErrors, Glimpse, Healer!Glance, Healer!NothingExpected,
     Healer!SweepFails, Healer!SweepDone, Healer!Tell, Healer!RecordBaseline, Healer!Sleep,
     Healer!Restart
<1> QED BY <1>1, <1>2, <1>3, <1>4

\* Types of exception are noted with their findings, and only with them before
\* the first failure.
LEMMA HealerNotes ==
    ASSUME HealerInv, Healer!Next
    PROVE  /\ known \subseteq known'
           /\ \A e \in known' \ known : Healer!Finding("novel", {e}) \in pending'
           /\ faults' = 0 => /\ faults = 0
                             /\ \A f \in pending' \ Healer!Said : f.kind = "novel" =>
                                    \E e \in known' \ known : f.about = {e}
<1> USE HealerBounds DEF HealerInv, HealerKeeps
<1>1. ASSUME NEW seens \in SUBSET Errors, NEW busy, Healer!DetectErrors(seens, busy)
      PROVE  /\ known \subseteq known'
             /\ \A e \in known' \ known : Healer!Finding("novel", {e}) \in pending'
             /\ faults' = 0 => /\ faults = 0
                               /\ \A f \in pending' : f.kind = "novel" =>
                                      \E e \in known' \ known : f.about = {e}
<2>1. /\ known' = known \/ known' = known \cup seens
      /\ pending' = Healer!Novel(seens) \cup Healer!Spikes(busy)
      /\ faults' = faults \/ faults' = faults + 1
      /\ faults' = 0 => known' = known \cup seens
  BY <1>1 DEF Healer!DetectErrors, Healer!Fault, Healer!Unblamed
<2>2. \A f \in pending' : f.kind = "novel" => f \in Healer!Novel(seens)
  BY <2>1 DEF Healer!Spikes, Healer!Finding
<2>3. \A e \in seens \ known : Healer!Finding("novel", {e}) \in pending'
  BY <2>1 DEF Healer!Novel
<2>4. \A f \in Healer!Novel(seens) : \E e \in seens \ known : f.about = {e}
  BY DEF Healer!Novel, Healer!Finding
<2> QED BY <2>1, <2>2, <2>3, <2>4
<1>2. CASE \A seens, busy \in SUBSET Errors : ~Healer!DetectErrors(seens, busy)
<2>1. known' = known /\ faults' \in {faults, faults + 1}
  BY <1>2, HealerCases DEF Healer!DetectFreshness, Glimpse, Healer!Glance,
     Healer!NothingExpected, Healer!SweepFails, Healer!SweepDone, Healer!Tell,
     Healer!RecordBaseline, Healer!Sleep, Healer!Restart, Healer!Fault, Healer!Unblamed
<2>2. \A f \in pending' \ Healer!Said : f.kind # "novel"
<3> USE DEF Healer!Said, Healer!Finding
<3>1. ASSUME NEW tracked, NEW stale, NEW beating, Healer!DetectFreshness(tracked, stale, beating)
      PROVE  \A f \in pending' \ Healer!Said : f.kind # "novel"
  BY <3>1 DEF Healer!DetectFreshness
<3>2. ASSUME NEW flags, NEW mature, NEW readable, Healer!SweepDone(flags, mature, readable)
      PROVE  \A f \in pending' \ Healer!Said : f.kind # "novel"
<4>1. \A f \in pending' : \E k, flag, previous : f = Healer!Verdict(k, flag, previous)
  BY <3>2 DEF Healer!SweepDone
<4> QED BY <4>1 DEF Healer!Verdict
<3>3. ASSUME NEW found, NEW next, Glimpse(found, next)
      PROVE  \A f \in pending' \ Healer!Said : f.kind # "novel"
  BY <3>3 DEF Glimpse, Healer!Glance
<3>4. CASE Healer!NothingExpected
  BY <3>4 DEF Healer!NothingExpected
<3>5. ASSUME pending' \subseteq pending PROVE \A f \in pending' \ Healer!Said : f.kind # "novel"
  BY <3>5
<3>6. Healer!SweepFails \/ (\E f \in pending : Healer!Tell(f)) \/ Healer!RecordBaseline
      \/ Healer!Sleep \/ Healer!Restart => pending' \subseteq pending
  BY DEF Healer!SweepFails, Healer!Tell, Healer!RecordBaseline, Healer!Sleep, Healer!Restart
<3> QED BY <1>2, <3>1, <3>2, <3>3, <3>4, <3>5, <3>6, HealerCases
<2> QED BY <2>1, <2>2
<1> QED BY <1>1, <1>2

\* A page about a type of exception is the finding of that type, now.
LEMMA HealerPages ==
    ASSUME HealerInv, Healer!Next, NEW f \in pending' \ Healer!Said, f.kind = "novel"
    PROVE  \E e \in Errors : f = Healer!Finding("novel", {e})
<1>1. PICK seens \in SUBSET Errors, busy \in SUBSET Errors : Healer!DetectErrors(seens, busy)
<2> USE DEF Healer!Said, Healer!Finding
<2>1. ASSUME NEW tracked, NEW stale, NEW beating, Healer!DetectFreshness(tracked, stale, beating)
      PROVE  FALSE
  BY <2>1 DEF Healer!DetectFreshness
<2>2. ASSUME NEW flags, NEW mature, NEW readable, Healer!SweepDone(flags, mature, readable)
      PROVE  FALSE
<3>1. \E k, flag, previous : f = Healer!Verdict(k, flag, previous)
  BY <2>2 DEF Healer!SweepDone
<3> QED BY <3>1 DEF Healer!Verdict
<2>3. ASSUME NEW found, NEW next, Glimpse(found, next) PROVE FALSE
  BY <2>3 DEF Glimpse, Healer!Glance
<2>4. ~Healer!NothingExpected
  BY DEF Healer!NothingExpected
<2>5. ~Healer!SweepFails /\ (\A g \in pending : ~Healer!Tell(g)) /\ ~Healer!RecordBaseline
      /\ ~Healer!Sleep /\ ~Healer!Restart
  BY DEF Healer!SweepFails, Healer!Tell, Healer!RecordBaseline, Healer!Sleep, Healer!Restart
<2> QED BY <2>1, <2>2, <2>3, <2>4, <2>5, HealerCases
<1>2. f \in Healer!Novel(seens) \cup Healer!Spikes(busy)
  BY <1>1 DEF Healer!DetectErrors
<1> QED BY <1>2 DEF Healer!Novel, Healer!Spikes, Healer!Finding

LEMMA HealerNovelStays ==
    ASSUME HealerInv, Healer!Next PROVE Healer!NovelIsPaged' /\ HealerNovel'
<1>1. ASSUME NEW e \in known' PROVE \E f \in Healer!Said' : f.kind = "novel" /\ f.about = {e}
<2>1. CASE e \in known
  <3>1. PICK f \in Healer!Said : f.kind = "novel" /\ f.about = {e}
    BY <2>1 DEF HealerInv, Healer!NovelIsPaged
  <3>2. f \in Healer!Said'
    BY <3>1, HealerRepeats DEF Healer!Current
  <3> QED BY <3>1, <3>2
<2>2. CASE e \notin known
  <3>1. Healer!Finding("novel", {e}) \in Healer!Said'
    BY <1>1, <2>2, HealerNotes DEF Healer!Said
  <3> QED BY <3>1 DEF Healer!Finding
<2> QED BY <2>1, <2>2
<1>2. ASSUME faults' = 0, NEW f \in Healer!Said', f.kind = "novel"
      PROVE  IF f \in Healer!Said THEN \E e \in known : f.about = {e}
             ELSE f.at = tick /\ \E e \in known' \ known : f.about = {e}
<2>1. CASE f \in Healer!Said
  BY <1>2, <2>1, HealerNotes DEF HealerInv, HealerNovel
<2>2. CASE f \notin Healer!Said
  <3>1. f \in pending' /\ f.at = tick
    BY <2>2, HealerFinds
  <3> QED BY <1>2, <2>2, <3>1, HealerNotes
<2> QED BY <2>1, <2>2
<1>3. HealerNovel'
<2> SUFFICES ASSUME faults' = 0, NEW f \in Healer!Said', f.kind = "novel"
             PROVE  \E e \in known' : f.about = {e}
  BY DEF HealerNovel
<2>1. known \subseteq known'
  BY HealerNotes
<2> QED BY <2>1, <1>2
<1>4. ASSUME faults' = 0, NEW f \in Healer!Said', NEW g \in Healer!Said',
             f.kind = "novel", g.kind = "novel", f.about = g.about
      PROVE  f = g
<2>1. CASE f \in Healer!Said /\ g \in Healer!Said
  BY <1>4, <2>1, HealerNotes DEF HealerInv, Healer!NovelIsPaged
<2>2. CASE f \in Healer!Said /\ g \notin Healer!Said
  <3>1. (\E e \in known : f.about = {e}) /\ \E d \in known' \ known : g.about = {d}
    BY <1>2, <1>4, <2>2
  <3> QED BY <1>4, <3>1
<2>3. CASE f \notin Healer!Said /\ g \in Healer!Said
  <3>1. (\E e \in known : g.about = {e}) /\ \E d \in known' \ known : f.about = {d}
    BY <1>2, <1>4, <2>3
  <3> QED BY <1>4, <3>1
<2>4. CASE f \notin Healer!Said /\ g \notin Healer!Said
  <3>1. f \in pending' \ Healer!Said /\ g \in pending' \ Healer!Said
    BY <2>4, HealerFinds
  <3>2. (\E e \in Errors : f = Healer!Finding("novel", {e}))
        /\ \E e \in Errors : g = Healer!Finding("novel", {e})
    BY <1>4, <3>1, HealerPages
  <3>3. f = Healer!Finding("novel", f.about) /\ g = Healer!Finding("novel", g.about)
    BY <3>2 DEF Healer!Finding
  <3> QED BY <1>4, <3>3
<2> QED BY <2>1, <2>2, <2>3, <2>4
<1> QED
  BY <1>1, <1>3, <1>4 DEF Healer!NovelIsPaged

LEMMA HealerBaselineStays ==
    ASSUME HealerInv, Healer!Next PROVE Healer!BaselineWasTold'
<1>1. ASSUME UNCHANGED <<sweep, baseline, tick>>, faults' = faults \/ faults' = faults + 1,
             sweep # {} => \A f \in Healer!Said : f.kind \in {"new", "constant"} => f \in Healer!Said'
      PROVE  Healer!BaselineWasTold'
<2> SUFFICES ASSUME NEW s \in sweep
             PROVE  IF s.first THEN baseline = {} \/ faults' > 0
                    ELSE /\ baseline # {}
                         /\ \A k \in s.keys \ Healer!Keyed(baseline) :
                                \E f \in Healer!Said' : f.kind \in {"new", "constant"}
                                                        /\ f.about = {k} /\ f.at = tick
  BY <1>1 DEF Healer!BaselineWasTold, Healer!Keyed
<2>1. IF s.first THEN baseline = {} \/ faults > 0
      ELSE /\ baseline # {}
           /\ \A k \in s.keys \ Healer!Keyed(baseline) :
                  \E f \in Healer!Said : f.kind \in {"new", "constant"} /\ f.about = {k} /\ f.at = tick
  BY DEF HealerInv, Healer!BaselineWasTold
<2>2. faults > 0 => faults' > 0
  BY <1>1, HealerBounds DEF HealerInv, HealerKeeps
<2> QED BY <1>1, <2>1, <2>2
<1>2. CASE sweep' = {}
  BY <1>2 DEF Healer!BaselineWasTold
<1>3. ASSUME NEW flags \in Healer!Flags, NEW mature \in SUBSET Fields, NEW readable \in BOOLEAN,
             Healer!SweepDone(flags, mature, readable)
      PROVE  Healer!BaselineWasTold'
<2> DEFINE previous == IF readable THEN baseline ELSE {}
           current == {k \in Keys : flags[k] # {}}
           first == previous = {}
<2>1. /\ pending' = (IF first THEN {} ELSE {Healer!Verdict(k, flags[k], previous) :
                                            k \in current \ Healer!Keyed(previous)})
      /\ \A s \in sweep' : s.keys = current /\ s.first = first
      /\ ~readable => faults' = faults + 1
      /\ baseline' = baseline /\ tick' = tick
  BY <1>3 DEF Healer!SweepDone, Healer!Fault
<2>2. CASE first
  <3>1. baseline' = {} \/ faults' > 0
    BY <2>1, <2>2, HealerBounds DEF HealerInv, HealerKeeps
  <3> QED BY <2>1, <2>2, <3>1 DEF Healer!BaselineWasTold
<2>3. CASE ~first
  <3>1. previous = baseline /\ baseline # {}
    BY <2>3
  <3>2. ASSUME NEW k \in current \ Healer!Keyed(baseline)
        PROVE  \E f \in Healer!Said' : f.kind \in {"new", "constant"} /\ f.about = {k} /\ f.at = tick
    <4> DEFINE f == Healer!Verdict(k, flags[k], previous)
    <4>1. f \in Healer!Said'
      BY <2>1, <2>3, <3>1 DEF Healer!Said
    <4>2. f.kind \in {"new", "constant"} /\ f.about = {k} /\ f.at = tick
      BY DEF Healer!Verdict, Healer!Finding
    <4> QED BY <4>1, <4>2
  <3> HIDE DEF previous, current
  <3>3. Healer!Keyed(baseline)' = Healer!Keyed(baseline)
    BY <2>1 DEF Healer!Keyed
  <3>4. ASSUME NEW s \in sweep' PROVE ~s.first /\ s.keys = current
    BY <2>1, <2>3, <3>4
  <3> QED BY <2>1, <3>1, <3>2, <3>3, <3>4 DEF Healer!BaselineWasTold
<2> QED BY <2>2, <2>3
<1>4. ASSUME NEW f \in pending, Healer!Tell(f) PROVE Healer!BaselineWasTold'
<2>1. UNCHANGED <<sweep, baseline, tick>> /\ (faults' = faults \/ faults' = faults + 1)
  BY <1>4 DEF Healer!Tell, Healer!Fault, Healer!Unblamed
<2>2. Healer!Said \subseteq Healer!Said'
  BY <1>4 DEF Healer!Tell, Healer!Said
<2> QED BY <2>1, <2>2, <1>1
<1>5. CASE Healer!RecordBaseline \/ Healer!Restart
  BY <1>5, <1>2 DEF Healer!RecordBaseline, Healer!Restart
<1>6. CASE Healer!Sleep \/ Healer!SweepFails \/ Healer!NothingExpected
           \/ (\E seens, busy : Healer!DetectErrors(seens, busy))
           \/ (\E found, next : Glimpse(found, next))
           \/ (\E tracked, stale, beating : Healer!DetectFreshness(tracked, stale, beating))
<2>1. sweep' = {}
  BY <1>6 DEF Healer!Sleep, Healer!SweepFails, Healer!NothingExpected, Healer!DetectErrors,
     Glimpse, Healer!Glance, Healer!DetectFreshness, Healer!Runs
<2> QED BY <2>1, <1>2
<1> QED BY <1>3, <1>4, <1>5, <1>6, HealerCases

LEMMA HealerStep == ASSUME HealerInv, Healer!Next PROVE HealerInv'
  BY HealerTypes, HealerSaysSo, HealerStallsStay, HealerDropsStay, HealerNovelStays,
     HealerBaselineStays DEF HealerInv

LEMMA HealerMoves ==
    ASSUME [Next]_vars
    PROVE  /\ UNCHANGED part
           /\ part = "healer" => Healer!Next \/ UNCHANGED vars
           /\ (part = "healer" /\ Healer!Next) \/ UNCHANGED healerOnly
  BY DEF Next, TaskNext, DeskNext, vars, tasksOnly, deskOnly

HealerHold == part = "healer" => HealerInv

LEMMA HealerStays == Spec => []HealerHold
<1>1. Init => HealerHold
  BY HealerStart DEF Init, HealerHold
<1>2. HealerHold /\ [Next]_vars => HealerHold'
<2> SUFFICES ASSUME HealerHold, [Next]_vars, part = "healer" PROVE HealerInv'
  BY HealerMoves DEF HealerHold
<2>1. CASE Healer!Next
  BY <2>1, HealerStep DEF HealerHold
<2>2. CASE UNCHANGED vars
  <3>1. UNCHANGED healerOnly /\ UNCHANGED faults /\ HealerInv
    BY <2>2 DEF vars, deskOnly, HealerHold
  <3>2. Healer!Said' = Healer!Said
    BY <3>1 DEF Healer!Said, healerOnly
  <3>3. HealerKeeps' /\ HealerWrites' /\ HealerSays' /\ HealerStalls'
    BY <3>1, <3>2 DEF HealerInv, HealerKeeps, HealerWrites, HealerSays, HealerStalls, healerOnly
  <3>4. HealerDrops' /\ HealerNovel' /\ Healer!NovelIsPaged'
    BY <3>1, <3>2 DEF HealerInv, HealerDrops, HealerNovel, Healer!NovelIsPaged, healerOnly
  <3>5. Healer!BaselineWasTold'
    BY <3>1, <3>2 DEF HealerInv, Healer!BaselineWasTold, Healer!Keyed, healerOnly
  <3> QED
    BY <3>3, <3>4, <3>5 DEF HealerInv
<2> QED
  BY <2>1, <2>2, HealerMoves
<1> QED
  BY <1>1, <1>2, PTL DEF Spec

LEMMA HealerIsTyped == ASSUME HealerInv PROVE Healer!TypeOK
<1>1. stall \in Nat
  BY FS_CardinalityType DEF HealerInv, HealerStalls
<1> QED
  BY <1>1 DEF HealerInv, HealerKeeps, HealerWrites, HealerSays, Healer!TypeOK, Healer!Said

LEMMA HealerAlarms ==
    ASSUME HealerInv
    PROVE  /\ Healer!NovelIsPaged /\ Healer!DropTold /\ Healer!StallConfirmed
           /\ Healer!BaselineWasTold
<1>1. Healer!DropTold
<2> SUFFICES ASSUME NEW l \in looked
             PROVE  \E f \in Healer!Said : f.kind = "drop" /\ f.about = l.stale
                                           /\ l.at - f.at < Reminder
  BY DEF Healer!DropTold
<2>1. PICK d \in dropped : d.stale = l.stale /\ l.at - d.at < Reminder
  BY DEF HealerInv, HealerDrops
<2>2. PICK f \in Healer!Said : f.kind = "drop" /\ f.about = d.stale /\ f.at = d.at
  BY DEF HealerInv, HealerDrops
<2> QED BY <2>1, <2>2
<1>2. Healer!Cardinality(stalls) = Cardinality(stalls)
  BY DEF Healer!Cardinality, Cardinality
<1>3. Healer!StallConfirmed
  BY <1>2 DEF HealerInv, HealerStalls, Healer!StallConfirmed
<1> QED
  BY <1>1, <1>3 DEF HealerInv

-----------------------------------------------------------------------------
(* The start of the process.                                               *)

\* What the operator was told of a process that serves without trading.
BootTold ==
    \/ "refused" \in rung /\ (reported => gate = "failed")
    \/ "raised" \in rung /\ (reported => gate \in {"raised", "passed", "reader_only_passed"})
    \/ /\ unmet = {} /\ linked # {} /\ site.cache \notin Boot!Keyed
       /\ reported => gate \in {"passed", "reader_only_passed"}
    \/ faults > 0

BootTypes ==
    /\ site \in Boot!Sites /\ unmet \subseteq {"passphrase", "vault", "permissions", "migration"}
    /\ at \in {"workers", "preflight", "chain", "passed", "degraded", "refused", "raised",
               "vault", "promotion", "serving"}
    /\ linked \subseteq BOOLEAN /\ rung \subseteq Boot!Paged /\ faults \in 0..BootFaults
    /\ gate \in {"none", "passed", "reader_only_passed", "failed", "raised"}
    /\ running \subseteq Boot!Trading \cup {"live_worker", "auto_promote"}
BootFlags ==
    reported \in BOOLEAN /\ keyed \in BOOLEAN /\ broken \in BOOLEAN /\ ordered \in BOOLEAN

BootAsFar ==
    /\ at \notin {"promotion", "serving"} => ~keyed
    /\ at \in {"workers", "preflight", "chain", "passed", "degraded", "refused"} =>
           rung = {} /\ ~reported
    /\ at \in {"workers", "preflight"} => unmet = {}
    /\ at \in {"chain", "passed", "degraded", "vault"} => unmet = {} /\ site.vault = "good" /\ site.migrated
    /\ at \in {"passed", "degraded", "vault"} => linked # {}
    /\ at \in {"vault", "raised"} => (reported => gate \in {"passed", "reader_only_passed"})
    /\ at \in {"promotion", "serving"} /\ site.trades /\ ~keyed => BootTold

BootInv == BootTypes /\ BootFlags /\ Boot!OrdersAreGuarded /\ BootAsFar

LEMMA BootBounds == BootFaults \in Nat
  BY DeskFaultsAssumption

LEMMA BootStart == Boot!Init => BootInv
<1> SUFFICES ASSUME Boot!Init PROVE BootInv
  OBVIOUS
<1>1. Boot!Start /\ site \in Boot!Sites /\ gate = "none" /\ broken \in BOOLEAN /\ faults = 0
  BY DEF Boot!Init
<1>2. BootTypes
  BY <1>1, BootBounds DEF Boot!Start, BootTypes
<1>3. BootAsFar /\ BootFlags
  BY <1>1 DEF Boot!Start, BootAsFar, BootFlags
<1>4. Boot!OrdersAreGuarded
  BY <1>1 DEF Boot!Start, Boot!OrdersAreGuarded, Boot!Net
<1> QED
  BY <1>2, <1>3, <1>4 DEF BootInv

LEMMA BootTyped == ASSUME BootTypes, Boot!Next PROVE BootTypes'
<1> USE BootBounds DEF BootTypes
<1>1. CASE Boot!StartWorkers
  <2>1. /\ running' = {"live_worker"} /\ at' \in {"preflight", "serving"}
        /\ UNCHANGED <<site, unmet, linked, gate, rung, faults>>
    BY <1>1 DEF Boot!StartWorkers
  <2> QED BY <2>1
<1>2. CASE Boot!Preflight
  <2>1. /\ unmet' \in {unmet, Boot!Failures} /\ at' \in {"chain", "refused", "raised"}
        /\ faults' \in {faults, faults + 1} /\ (faults' = faults \/ faults < BootFaults)
        /\ UNCHANGED <<site, running, linked, gate, rung>>
    BY <1>2 DEF Boot!Preflight, Boot!Fault, Boot!Unblamed
  <2>2. Boot!Failures \subseteq {"passphrase", "vault", "permissions", "migration"}
    BY DEF Boot!Failures
  <2> HIDE DEF Boot!Paged
  <2> QED BY <2>1, <2>2
<1>3. CASE Boot!CheckChain
  <2>1. /\ linked' \in {linked, {~broken}} /\ at' \in {"passed", "degraded", "raised"}
        /\ faults' \in {faults, faults + 1} /\ (faults' = faults \/ faults < BootFaults)
        /\ UNCHANGED <<site, running, unmet, gate, rung>>
    BY <1>3 DEF Boot!CheckChain, Boot!Fault, Boot!Unblamed
  <2>2. {~broken} \subseteq BOOLEAN
    BY Zenon
  <2>3. linked' \subseteq BOOLEAN
    BY <2>1, <2>2
  <2> HIDE DEF Boot!Paged
  <2> QED BY <2>1, <2>3
<1>4. ASSUME NEW page \in BOOLEAN, NEW line \in BOOLEAN, Boot!Report(page, line) PROVE BootTypes'
  BY <1>4 DEF Boot!Report, Boot!Fault, Boot!Unblamed, Boot!Paged, Boot!RowOf
<1>5. CASE Boot!InitializeVault
  BY <1>5 DEF Boot!InitializeVault, Boot!Net, Boot!Trading
<1>6. CASE Boot!StartPromotion
  BY <1>6 DEF Boot!StartPromotion
<1>7. CASE Boot!Dispatch
  BY <1>7 DEF Boot!Dispatch
<1>8. CASE Boot!ChainTurns
  BY <1>8 DEF Boot!ChainTurns
<1>9. CASE Boot!Restart
  BY <1>9 DEF Boot!Restart, Boot!Fault, Boot!Unblamed
<1> QED
  BY <1>1, <1>2, <1>3, <1>4, <1>5, <1>6, <1>7, <1>8, <1>9 DEF Boot!Next

LEMMA BootFlagged == ASSUME BootFlags, Boot!Next PROVE BootFlags'
<1> USE DEF BootFlags
<1>1. CASE Boot!StartWorkers
  BY <1>1, Zenon DEF Boot!StartWorkers
<1>2. CASE Boot!Preflight
  BY <1>2, Zenon DEF Boot!Preflight
<1>3. CASE Boot!CheckChain
  BY <1>3, Zenon DEF Boot!CheckChain
<1>4. ASSUME NEW page \in BOOLEAN, NEW line \in BOOLEAN, Boot!Report(page, line) PROVE BootFlags'
  BY <1>4, Zenon DEF Boot!Report
<1>5. CASE Boot!InitializeVault
  BY <1>5, Zenon DEF Boot!InitializeVault
<1>6. CASE Boot!StartPromotion
  BY <1>6, Zenon DEF Boot!StartPromotion
<1>7. CASE Boot!Dispatch
  BY <1>7, Zenon DEF Boot!Dispatch
<1>8. CASE Boot!ChainTurns
  BY <1>8, Zenon DEF Boot!ChainTurns
<1>9. CASE Boot!Restart
  BY <1>9, Zenon DEF Boot!Restart
<1> QED
  BY <1>1, <1>2, <1>3, <1>4, <1>5, <1>6, <1>7, <1>8, <1>9 DEF Boot!Next

LEMMA BootGuards ==
    ASSUME BootInv, Boot!Next PROVE Boot!OrdersAreGuarded'
<1> USE DEF BootInv, BootAsFar, Boot!OrdersAreGuarded
<1>1. CASE Boot!StartWorkers
  BY <1>1 DEF Boot!StartWorkers, Boot!Net, Boot!Trading
<1>2. CASE Boot!Preflight
  BY <1>2 DEF Boot!Preflight
<1>3. CASE Boot!CheckChain
  BY <1>3 DEF Boot!CheckChain
<1>4. ASSUME NEW page \in BOOLEAN, NEW line \in BOOLEAN, Boot!Report(page, line)
      PROVE  Boot!OrdersAreGuarded'
  BY <1>4 DEF Boot!Report
<1>5. CASE Boot!InitializeVault
  BY <1>5 DEF Boot!InitializeVault, Boot!Net, Boot!Trading
<1>6. CASE Boot!StartPromotion
  BY <1>6 DEF Boot!StartPromotion, Boot!Net, Boot!Trading
<1>7. CASE Boot!Dispatch
  BY <1>7 DEF Boot!Dispatch
<1>8. CASE Boot!ChainTurns
  BY <1>8 DEF Boot!ChainTurns
<1>9. CASE Boot!Restart
  BY <1>9 DEF Boot!Restart, Boot!Net
<1> QED
  BY <1>1, <1>2, <1>3, <1>4, <1>5, <1>6, <1>7, <1>8, <1>9 DEF Boot!Next

LEMMA BootGoes ==
    ASSUME BootInv, Boot!Next PROVE BootAsFar'
<1> USE DEF BootInv, BootTypes, BootAsFar
<1>1. CASE Boot!StartWorkers
  BY <1>1 DEF Boot!StartWorkers
<1>2. CASE Boot!Preflight
  BY <1>2 DEF Boot!Preflight, Boot!Failures, Boot!KeySafe
<1>3. CASE Boot!CheckChain
  BY <1>3 DEF Boot!CheckChain
<1>4. ASSUME NEW page \in BOOLEAN, NEW line \in BOOLEAN, Boot!Report(page, line)
      PROVE  BootAsFar'
  <2>1. /\ UNCHANGED <<site, unmet, linked, keyed>>
        /\ at' = (IF at \in {"passed", "degraded"} THEN "vault" ELSE "promotion")
        /\ reported' <=> reported \/ line
    BY <1>4 DEF Boot!Report
  <2>2. line => gate' = Boot!RowOf(at)
    BY <1>4 DEF Boot!Report
  <2>3. ~line => gate' = gate
    BY <1>4 DEF Boot!Report
  <2>4. CASE at \in {"passed", "degraded"}
    BY <2>1, <2>2, <2>4 DEF Boot!RowOf
  <2>5. CASE at \in {"refused", "raised"}
    <3>1. page => rung' = rung \cup {at}
      BY <1>4, <2>5 DEF Boot!Report, Boot!Paged
    <3>2. ~page => faults' = faults + 1
      BY <1>4 DEF Boot!Report, Boot!Fault
    <3>3. faults' = faults + 1 => faults' > 0
      BY BootBounds
    <3>4. CASE ~page
      BY <2>1, <2>5, <3>2, <3>3, <3>4 DEF BootTold
    <3>5. CASE page /\ at = "refused"
      BY <2>1, <2>2, <3>1, <3>5 DEF BootTold, Boot!RowOf
    <3>6. CASE page /\ at = "raised" /\ line
      BY <2>1, <2>2, <3>1, <3>6 DEF BootTold, Boot!RowOf
    <3>7. CASE page /\ at = "raised" /\ ~line
      BY <2>1, <2>3, <3>1, <3>7 DEF BootTold
    <3> QED BY <2>5, <3>4, <3>5, <3>6, <3>7
  <2>6. at \in Boot!Paged \cup {"passed"}
    BY <1>4 DEF Boot!Report
  <2> QED BY <2>4, <2>5, <2>6 DEF Boot!Paged
<1>5. CASE Boot!InitializeVault
  BY <1>5 DEF Boot!InitializeVault, BootTold, Boot!Keyed
<1>6. CASE Boot!StartPromotion
  BY <1>6 DEF Boot!StartPromotion, BootTold
<1>7. CASE Boot!Dispatch
  BY <1>7 DEF Boot!Dispatch, BootTold
<1>8. CASE Boot!ChainTurns
  BY <1>8 DEF Boot!ChainTurns, BootTold
<1>9. CASE Boot!Restart
  BY <1>9 DEF Boot!Restart
<1> QED
  BY <1>1, <1>2, <1>3, <1>4, <1>5, <1>6, <1>7, <1>8, <1>9 DEF Boot!Next
LEMMA BootStep == ASSUME BootInv, Boot!Next PROVE BootInv'
  BY BootTyped, BootFlagged, BootGuards, BootGoes DEF BootInv

LEMMA BootMoves ==
    ASSUME [Next]_vars
    PROVE  /\ UNCHANGED part
           /\ part = "boot" => Boot!Next \/ UNCHANGED vars
           /\ (part = "boot" /\ Boot!Next) \/ UNCHANGED bootOnly
  BY DEF Next, TaskNext, DeskNext, vars, tasksOnly, deskOnly

BootHold == part = "boot" => BootInv

LEMMA BootStays == Spec => []BootHold
<1>1. Init => BootHold
  BY BootStart DEF Init, BootHold
<1>2. BootHold /\ [Next]_vars => BootHold'
<2> SUFFICES ASSUME BootHold, [Next]_vars, part = "boot" PROVE BootInv'
  BY BootMoves DEF BootHold
<2>1. CASE Boot!Next
  BY <2>1, BootStep DEF BootHold
<2>2. CASE UNCHANGED vars
  <3>1. UNCHANGED bootOnly /\ UNCHANGED faults
    BY <2>2 DEF vars, deskOnly
  <3> QED
    BY <3>1 DEF BootHold, BootInv, BootTypes, BootFlags, BootAsFar, BootTold,
       Boot!OrdersAreGuarded, bootOnly
<2> QED
  BY <2>1, <2>2, BootMoves
<1> QED
  BY <1>1, <1>2, PTL DEF Spec

LEMMA BootIsHonest == ASSUME BootInv PROVE Boot!TypeOK /\ Boot!OrdersAreGuarded /\ Boot!IdleIsTold
<1>1. Boot!TypeOK
  <2>1. {reported, keyed, broken, ordered} \subseteq BOOLEAN
    BY Zenon DEF BootInv, BootFlags
  <2>2. at \in {"workers", "preflight", "chain", "passed", "vault", "promotion", "serving"} \cup Boot!Paged
    BY DEF BootInv, BootTypes, Boot!Paged
  <2>3. BootTypes
    BY DEF BootInv
  <2> QED BY <2>1, <2>2, <2>3 DEF BootTypes, Boot!TypeOK
<1>2. Boot!IdleIsTold
  BY DEF BootInv, BootAsFar, BootTold, Boot!IdleIsTold
<1> QED BY <1>1, <1>2 DEF BootInv

-----------------------------------------------------------------------------
(* The weight studies.                                                     *)

LEMMA StudiesBounds ==
    /\ StudyFaults \in Nat /\ Studies!Ids \subseteq Nat \ {0}
<1>1. Cardinality(Requests) \in Nat
  BY StudyAssumption, FS_CardinalityType
<1>2. Studies!Cardinality(Requests) = Cardinality(Requests)
  BY DEF Studies!Cardinality, Cardinality
<1> QED BY <1>1, <1>2, DeskFaultsAssumption DEF Studies!Ids

\* A request has a row of its own from the moment it inserts it, and has read
\* one back before it commits.
StudiesRows ==
    /\ \A r \in Requests : (own[r] = 0 <=> asked[r] = "new") /\ own[r] < nextRow
    /\ \A r \in Requests : asked[r] \in {"new", "inserted"} => given[r] = 0
    /\ \A r \in Requests : asked[r] \in {"read", "committed", "answered"} => given[r] # 0
    /\ \A p, q \in Requests : own[p] = own[q] /\ own[p] # 0 => p = q
    /\ \A r \in working : asked[r] = "answered"
    /\ \A i \in Studies!Ids : i >= nextRow => study[i] = "none"

StudiesInv ==
    /\ Studies!TypeOK /\ StudiesRows
    /\ Studies!TaskHasItsStudy /\ Studies!RunningIsWorkedOn /\ Studies!EndedByItsTask

LEMMA StudiesIds == ASSUME NEW n \in Studies!Ids \cup {0} PROVE n \in Nat
  BY StudiesBounds

LEMMA StudiesStart == Studies!Init => StudiesInv
<1> SUFFICES ASSUME Studies!Init PROVE StudiesInv
  OBVIOUS
<1> USE StudiesBounds
<1>1. Studies!TypeOK
  BY DEF Studies!Init, Studies!TypeOK, Studies!Steps
<1>2. StudiesRows
  BY DEF Studies!Init, StudiesRows
<1>3. Studies!TaskHasItsStudy /\ Studies!RunningIsWorkedOn /\ Studies!EndedByItsTask
  BY DEF Studies!Init, Studies!TaskHasItsStudy, Studies!RunningIsWorkedOn, Studies!EndedByItsTask
<1> QED BY <1>1, <1>2, <1>3 DEF StudiesInv

LEMMA StudiesInsert ==
    ASSUME StudiesInv, NEW r \in Requests, Studies!Insert(r) PROVE StudiesInv'
<1> USE StudiesBounds DEF StudiesInv, Studies!TypeOK, Studies!Insert, Studies!Steps
<1>1. Studies!TypeOK'
  OBVIOUS
<1>2. StudiesRows'
  <2>1. nextRow' = nextRow + 1 /\ nextRow \in Nat \ {0} /\ asked[r] = "new"
    OBVIOUS
  <2>2. \A p \in Requests : own'[p] = (IF p = r THEN nextRow ELSE own[p])
                            /\ asked'[p] = (IF p = r THEN "inserted" ELSE asked[p])
    OBVIOUS
  <2>3. \A p \in Requests : own[p] \in Nat
    <3>1. \A p \in Requests : own[p] \in Studies!Ids \cup {0}
      OBVIOUS
    <3> QED BY <3>1, StudiesIds
  <2>4. UNCHANGED <<given, study, working>>
    OBVIOUS
  <2>5. StudiesRows /\ working \subseteq Requests
    OBVIOUS
  <2> HIDE DEF StudiesInv, Studies!TypeOK, Studies!Insert, Studies!Steps
  <2>6. \A p \in Requests : (own'[p] = 0 <=> asked'[p] = "new") /\ own'[p] < nextRow'
    BY <2>1, <2>2, <2>3, <2>5 DEF StudiesRows
  <2>7. \A p \in Requests : asked'[p] \in {"new", "inserted"} => given[p] = 0
    BY <2>1, <2>2, <2>5 DEF StudiesRows
  <2>8. \A p \in Requests : asked'[p] \in {"read", "committed", "answered"} => given[p] # 0
    BY <2>2, <2>5 DEF StudiesRows
  <2>9. \A p, q \in Requests : own'[p] = own'[q] /\ own'[p] # 0 => p = q
    BY <2>2, <2>3, <2>5, <2>1 DEF StudiesRows
  <2>10. \A p \in working : asked'[p] = "answered"
    BY <2>1, <2>2, <2>5 DEF StudiesRows
  <2>11. \A i \in Studies!Ids : i >= nextRow' => study[i] = "none"
    BY <2>1, <2>5, StudiesIds DEF StudiesRows
  <2> QED BY <2>4, <2>6, <2>7, <2>8, <2>9, <2>10, <2>11 DEF StudiesRows
<1>3. own[r] = 0 /\ given[r] = 0 /\ study[nextRow] = "none"
  BY DEF StudiesRows
<1>4. \A p \in Requests \ {r} : own'[p] = own[p] /\ asked'[p] = asked[p]
  OBVIOUS
<1>5. Studies!TaskHasItsStudy'
  BY <1>3, <1>4 DEF Studies!TaskHasItsStudy, Studies!Rivals
<1>6. Studies!RunningIsWorkedOn'
  <2> SUFFICES ASSUME NEW q \in Requests, own'[q] # 0, study[own'[q]] = "running"
               PROVE  \/ \E p \in Requests : given[p] = own'[q]
                             /\ (p \in working \/ asked'[p] \in {"read", "committed"})
                      \/ faults > 0 \/ given[q] > own'[q]
    BY DEF Studies!RunningIsWorkedOn
  <2>1. q # r
    BY <1>3
  <2> QED BY <2>1, <1>4, <1>3 DEF Studies!RunningIsWorkedOn
<1>7. Studies!EndedByItsTask'
  BY DEF Studies!EndedByItsTask
<1> QED BY <1>1, <1>2, <1>5, <1>6, <1>7

LEMMA StudiesReadBack ==
    ASSUME StudiesInv, NEW r \in Requests, Studies!ReadBack(r) PROVE StudiesInv'
<1> USE StudiesBounds DEF StudiesInv, Studies!TypeOK, Studies!Steps
<1>1. PICK i \in Studies!Visible(r) :
          /\ \A j \in Studies!Visible(r) : j <= i
          /\ given' = [given EXCEPT ![r] = i]
  BY DEF Studies!ReadBack
<1>2. /\ asked[r] = "inserted" /\ asked' = [asked EXCEPT ![r] = "read"]
      /\ UNCHANGED <<own, study, nextRow, working, outcome, faults>>
  BY DEF Studies!ReadBack
<1>3. given[r] = 0 /\ own[r] # 0 /\ own[r] \in Nat /\ r \notin working
  BY <1>2 DEF StudiesRows
<1>4. /\ i >= own[r]
      /\ i # own[r] => \E q \in Studies!Rivals(r) : own[q] = i /\ own[q] # 0 /\ study[i] = "running"
  BY <1>1 DEF Studies!Visible
<1>5. i \in Studies!Ids
  <2>1. \A q \in Requests : own[q] # 0 => own[q] \in Studies!Ids
    OBVIOUS
  <2> QED BY <2>1, <1>3, <1>4 DEF Studies!Rivals
<1>6. Studies!TypeOK'
  BY <1>1, <1>2, <1>5
<1>7. StudiesRows'
  BY <1>1, <1>2, <1>3, <1>5 DEF StudiesRows
<1>8. \A p \in Requests \ {r} : given'[p] = given[p] /\ asked'[p] = asked[p]
  BY <1>1, <1>2
<1>9. Studies!TaskHasItsStudy'
  <2> SUFFICES ASSUME NEW p \in Requests, given'[p] # 0
               PROVE  /\ given'[p] >= own[p]
                      /\ given'[p] # own[p] =>
                           \E q \in Studies!Rivals(p) : own[q] = given'[p] /\ study[own[q]] # "none"
    BY <1>2 DEF Studies!TaskHasItsStudy, Studies!Rivals
  <2>1. CASE p = r
    BY <2>1, <1>1, <1>4
  <2>2. CASE p # r
    BY <2>2, <1>8 DEF Studies!TaskHasItsStudy
  <2> QED BY <2>1, <2>2
<1>10. Studies!RunningIsWorkedOn'
  BY <1>2, <1>3, <1>8 DEF Studies!RunningIsWorkedOn
<1>11. Studies!EndedByItsTask'
  BY <1>2, <1>3, <1>5, <1>8 DEF Studies!EndedByItsTask
<1> QED BY <1>6, <1>7, <1>9, <1>10, <1>11

LEMMA StudiesCommit ==
    ASSUME StudiesInv, NEW r \in Requests, Studies!Commit(r) PROVE StudiesInv'
<1> USE StudiesBounds DEF StudiesInv, Studies!TypeOK, Studies!Steps
<1>1. /\ asked[r] = "read" /\ asked' = [asked EXCEPT ![r] = "committed"]
      /\ study' = [study EXCEPT ![own[r]] = "running"]
      /\ UNCHANGED <<own, given, nextRow, working, outcome, faults>>
  BY DEF Studies!Commit
<1>2. own[r] \in Studies!Ids /\ own[r] < nextRow /\ given[r] # 0 /\ r \notin working
  BY <1>1 DEF StudiesRows
<1>3. Studies!TypeOK'
  BY <1>1
<1>4. StudiesRows'
  BY <1>1, <1>2 DEF StudiesRows
<1>5. Studies!TaskHasItsStudy'
  BY <1>1, <1>2 DEF Studies!TaskHasItsStudy, Studies!Rivals
<1>6. Studies!RunningIsWorkedOn'
  <2> SUFFICES ASSUME NEW q \in Requests, own[q] # 0, study'[own[q]] = "running"
               PROVE  \/ \E p \in Requests : given[p] = own[q]
                             /\ (p \in working \/ asked'[p] \in {"read", "committed"})
                      \/ faults > 0 \/ given[q] > own[q]
    BY <1>1 DEF Studies!RunningIsWorkedOn
  <2>1. CASE q = r
    <3>1. given[r] >= own[r]
      BY <1>2 DEF Studies!TaskHasItsStudy
    <3>2. asked'[r] = "committed"
      BY <1>1
    <3>3. given[r] \in Nat /\ own[r] \in Nat
      <4>1. given[r] \in Studies!Ids \cup {0} /\ own[r] \in Studies!Ids \cup {0}
        OBVIOUS
      <4> QED BY <4>1, StudiesIds
    <3>4. CASE given[r] = own[r]
      BY <2>1, <3>2, <3>4
    <3>5. CASE given[r] # own[r]
      <4>1. given[r] > own[r]
        BY <3>1, <3>3, <3>5
      <4> QED BY <2>1, <4>1
    <3> QED BY <3>4, <3>5
  <2>2. CASE q # r
    <3>1. own[q] # own[r]
      BY <2>2 DEF StudiesRows
    <3>2. study[own[q]] = "running"
      BY <1>1, <1>2, <3>1
    <3> QED BY <1>1, <3>2 DEF Studies!RunningIsWorkedOn
  <2> QED BY <2>1, <2>2
<1>7. Studies!EndedByItsTask'
  BY <1>1, <1>2 DEF Studies!EndedByItsTask
<1> QED BY <1>3, <1>4, <1>5, <1>6, <1>7

LEMMA StudiesRespond ==
    ASSUME StudiesInv, NEW r \in Requests, Studies!Respond(r) PROVE StudiesInv'
<1> USE StudiesBounds DEF StudiesInv, Studies!TypeOK, Studies!Steps
<1>1. /\ asked[r] = "committed" /\ UNCHANGED <<own, given, study, nextRow, outcome>>
      /\ \/ asked' = [asked EXCEPT ![r] = "answered"] /\ working' = working \cup {r}
            /\ faults' = faults
         \/ asked' = [asked EXCEPT ![r] = "failed"] /\ working' = working
            /\ faults < StudyFaults /\ faults' = faults + 1
  BY DEF Studies!Respond, Studies!Fault, Studies!Unblamed
<1>2. Studies!TypeOK'
  BY <1>1
<1>3. StudiesRows'
  BY <1>1 DEF StudiesRows
<1>4. Studies!TaskHasItsStudy' /\ Studies!EndedByItsTask'
  BY <1>1 DEF Studies!TaskHasItsStudy, Studies!EndedByItsTask, Studies!Rivals
<1>5. Studies!RunningIsWorkedOn'
  BY <1>1 DEF Studies!RunningIsWorkedOn
<1> QED BY <1>2, <1>3, <1>4, <1>5

LEMMA StudiesAbort ==
    ASSUME StudiesInv, NEW r \in Requests, Studies!Abort(r) PROVE StudiesInv'
<1> USE StudiesBounds DEF StudiesInv, Studies!TypeOK, Studies!Steps
<1>1. /\ asked[r] \in {"inserted", "read"} /\ asked' = [asked EXCEPT ![r] = "failed"]
      /\ faults < StudyFaults /\ faults' = faults + 1
      /\ UNCHANGED <<own, given, study, nextRow, working, outcome>>
  BY DEF Studies!Abort, Studies!Fault
<1>2. Studies!TypeOK'
  BY <1>1
<1>3. StudiesRows'
  BY <1>1 DEF StudiesRows
<1>4. Studies!TaskHasItsStudy' /\ Studies!EndedByItsTask'
  BY <1>1 DEF Studies!TaskHasItsStudy, Studies!EndedByItsTask, Studies!Rivals
<1>5. Studies!RunningIsWorkedOn'
  BY <1>1 DEF Studies!RunningIsWorkedOn
<1> QED BY <1>2, <1>3, <1>4, <1>5

LEMMA StudiesOptimise ==
    ASSUME StudiesInv, NEW r \in Requests, Studies!Optimise(r) PROVE StudiesInv'
<1> USE StudiesBounds DEF StudiesInv, Studies!TypeOK, Studies!Steps
<1>1. /\ \E o \in {"completed", "failed"} : outcome' = [outcome EXCEPT ![r] = o]
      /\ UNCHANGED <<asked, own, given, study, nextRow, working, faults>>
  BY DEF Studies!Optimise
<1>2. Studies!TypeOK' /\ StudiesRows'
  BY <1>1 DEF StudiesRows
<1>3. Studies!TaskHasItsStudy' /\ Studies!RunningIsWorkedOn'
  BY <1>1 DEF Studies!TaskHasItsStudy, Studies!RunningIsWorkedOn, Studies!Rivals
<1>4. \A p \in Requests : outcome[p] # "none" => outcome'[p] # "none"
  BY <1>1
<1>5. Studies!EndedByItsTask'
  BY <1>1, <1>4 DEF Studies!EndedByItsTask
<1> QED BY <1>2, <1>3, <1>5

LEMMA StudiesRecord ==
    ASSUME StudiesInv, NEW r \in Requests, Studies!Record(r) PROVE StudiesInv'
<1> USE StudiesBounds DEF StudiesInv, Studies!TypeOK, Studies!Steps
<1>1. /\ r \in working /\ outcome[r] \in {"completed", "failed"}
      /\ study' \in {study, [study EXCEPT ![given[r]] = outcome[r]]}
      /\ working' \in {working, working \ {r}}
      /\ outcome' \in {outcome, [outcome EXCEPT ![r] = "failed"]}
      /\ UNCHANGED <<asked, own, given, nextRow>>
  BY DEF Studies!Record
<1>2. \/ faults' = faults /\ study' = [study EXCEPT ![given[r]] = outcome[r]]
      \/ faults < StudyFaults /\ faults' = faults + 1
  BY DEF Studies!Record, Studies!Fault, Studies!Unblamed
<1>3. given[r] \in Studies!Ids
  BY <1>1 DEF StudiesRows
<1>4. given[r] < nextRow
  BY <1>1, <1>3 DEF StudiesRows, Studies!TaskHasItsStudy, Studies!Rivals
<1>5. Studies!TypeOK'
  BY <1>1, <1>2, <1>3
<1>6. StudiesRows'
  BY <1>1, <1>3, <1>4 DEF StudiesRows
<1>7. Studies!TaskHasItsStudy'
  <2>1. \A i \in Studies!Ids : study[i] # "none" => study'[i] # "none"
    BY <1>1, <1>3
  <2>2. \A q \in Requests : own[q] \in Studies!Ids \cup {0}
    OBVIOUS
  <2>3. Studies!TaskHasItsStudy /\ UNCHANGED <<own, given>>
    BY <1>1
  <2> SUFFICES ASSUME NEW p \in Requests, given[p] # 0
               PROVE  /\ given[p] >= own[p]
                      /\ given[p] # own[p] => \E q \in Studies!Rivals(p) :
                                                  own[q] = given[p] /\ study'[own[q]] # "none"
    BY <2>3 DEF Studies!TaskHasItsStudy, Studies!Rivals
  <2> QED BY <2>1, <2>2, <2>3 DEF Studies!TaskHasItsStudy, Studies!Rivals
<1>8. Studies!RunningIsWorkedOn'
  <2> SUFFICES ASSUME NEW q \in Requests, own[q] # 0, study'[own[q]] = "running", ~(faults' > 0)
               PROVE  \/ \E p \in Requests : given[p] = own[q]
                             /\ (p \in working' \/ asked[p] \in {"read", "committed"})
                      \/ given[q] > own[q]
    BY <1>1 DEF Studies!RunningIsWorkedOn
  <2>1. study' = [study EXCEPT ![given[r]] = outcome[r]] /\ ~(faults > 0)
    BY <1>2
  <2>2. own[q] # given[r] /\ study[own[q]] = "running"
    BY <2>1, <1>1, <1>3
  <2>3. \/ \E p \in Requests : given[p] = own[q]
                             /\ (p \in working \/ asked[p] \in {"read", "committed"})
        \/ given[q] > own[q]
    BY <2>1, <2>2 DEF Studies!RunningIsWorkedOn
  <2> QED BY <2>2, <2>3, <1>1
<1>9. Studies!EndedByItsTask'
  <2>1. \A p \in Requests : outcome[p] # "none" => outcome'[p] # "none"
    BY <1>1
  <2> SUFFICES ASSUME NEW i \in Studies!Ids, study'[i] \in {"completed", "failed"}
               PROVE  \E p \in Requests : given[p] = i /\ outcome'[p] # "none"
    BY <1>1 DEF Studies!EndedByItsTask
  <2>2. CASE i = given[r]
    BY <2>2, <2>1, <1>1
  <2>3. CASE i # given[r]
    <3>1. study'[i] = study[i]
      BY <2>3, <1>1
    <3> QED BY <3>1, <2>1 DEF Studies!EndedByItsTask
  <2> QED BY <2>2, <2>3
<1> QED BY <1>5, <1>6, <1>7, <1>8, <1>9

LEMMA StudiesRestart ==
    ASSUME StudiesInv, Studies!Restart PROVE StudiesInv'
<1> USE StudiesBounds DEF StudiesInv, Studies!TypeOK, Studies!Steps
<1>1. /\ faults < StudyFaults /\ faults' = faults + 1 /\ working' = {}
      /\ asked' \in [Requests -> Studies!Steps]
      /\ \A r \in Requests : asked'[r] = asked[r]
                             \/ (asked'[r] = "failed" /\ asked[r] # "new")
      /\ UNCHANGED <<own, given, study, nextRow, outcome>>
  BY DEF Studies!Restart, Studies!Fault
<1>2. Studies!TypeOK'
  BY <1>1
<1>3. StudiesRows'
  BY <1>1 DEF StudiesRows
<1>4. Studies!TaskHasItsStudy' /\ Studies!EndedByItsTask'
  BY <1>1 DEF Studies!TaskHasItsStudy, Studies!EndedByItsTask, Studies!Rivals
<1>5. Studies!RunningIsWorkedOn'
  BY <1>1 DEF Studies!RunningIsWorkedOn
<1> QED BY <1>2, <1>3, <1>4, <1>5

LEMMA StudiesStep == ASSUME StudiesInv, Studies!Next PROVE StudiesInv'
  BY StudiesInsert, StudiesReadBack, StudiesCommit, StudiesRespond, StudiesAbort,
     StudiesOptimise, StudiesRecord, StudiesRestart DEF Studies!Next

LEMMA StudiesMoves ==
    ASSUME [Next]_vars
    PROVE  /\ UNCHANGED part
           /\ part = "studies" => Studies!Next \/ UNCHANGED vars
           /\ (part = "studies" /\ Studies!Next) \/ UNCHANGED studiesOnly
  BY DEF Next, TaskNext, DeskNext, vars, tasksOnly, deskOnly

StudiesHold == part = "studies" => StudiesInv

LEMMA StudiesStay == Spec => []StudiesHold
<1>1. Init => StudiesHold
  BY StudiesStart DEF Init, StudiesHold
<1>2. StudiesHold /\ [Next]_vars => StudiesHold'
<2> SUFFICES ASSUME StudiesHold, [Next]_vars, part = "studies" PROVE StudiesInv'
  BY StudiesMoves DEF StudiesHold
<2>1. CASE Studies!Next
  BY <2>1, StudiesStep DEF StudiesHold
<2>2. CASE UNCHANGED vars
  <3>1. UNCHANGED studiesOnly /\ UNCHANGED faults /\ StudiesInv
    BY <2>2 DEF vars, deskOnly, StudiesHold
  <3> QED
    BY <3>1 DEF StudiesInv, StudiesRows, Studies!TypeOK, Studies!TaskHasItsStudy,
       Studies!RunningIsWorkedOn, Studies!EndedByItsTask, studiesOnly
<2> QED
  BY <2>1, <2>2, StudiesMoves
<1> QED
  BY <1>1, <1>2, PTL DEF Spec

-----------------------------------------------------------------------------
(* The backtester.                                                         *)

LEMMA Times ==
    ASSUME NEW a \in Int, NEW b \in Int, NEW c \in Nat, a <= b
    PROVE  a * c <= b * c
<1> DEFINE d == b - a
<1>1. d \in Nat /\ d * c \in Nat
  OBVIOUS
<1>2. b * c = a * c + d * c
  OBVIOUS
<1> HIDE DEF d
<1>3. a * c \in Int /\ b * c \in Int
  OBVIOUS
<1> QED BY <1>1, <1>2, <1>3

\* A common positive factor.
LEMMA Untimes ==
    ASSUME NEW a \in Int, NEW b \in Int, NEW c \in Nat \ {0}, a * c <= b * c
    PROVE  a <= b
<1> SUFFICES ASSUME b + 1 <= a PROVE FALSE
  OBVIOUS
<1>1. (b + 1) * c <= a * c
  BY Times
<1>2. (b + 1) * c = b * c + c /\ b * c \in Int /\ a * c \in Int
  OBVIOUS
<1> QED BY <1>1, <1>2

\* Of fractions with positive denominators, "no worse than" is transitive.
Fraction == Int \X (Nat \ {0})
LEMMA FractionsAlong ==
    ASSUME NEW x \in Fraction, NEW y \in Fraction, NEW z \in Fraction,
           ~Walk!Worse(x, y), ~Walk!Worse(y, z)
    PROVE  ~Walk!Worse(x, z)
<1> DEFINE n1 == x[1]
           d1 == x[2]
           n2 == y[1]
           d2 == y[2]
           n3 == z[1]
           d3 == z[2]
<1>1. /\ n1 \in Int /\ n2 \in Int /\ n3 \in Int
      /\ d1 \in Nat \ {0} /\ d2 \in Nat \ {0} /\ d3 \in Nat \ {0}
  BY DEF Fraction
<1>2. n1 * d2 <= n2 * d1 /\ n2 * d3 <= n3 * d2
  BY <1>1 DEF Walk!Worse
<1> SUFFICES n1 * d3 <= n3 * d1
  BY <1>1 DEF Walk!Worse
<1> HIDE DEF n1, n2, n3, d1, d2, d3
<1>3. (n1 * d2) * d3 <= (n2 * d1) * d3
  BY <1>1, <1>2, Times
<1>4. (n2 * d3) * d1 <= (n3 * d2) * d1
  BY <1>1, <1>2, Times
<1>5. /\ (n1 * d2) * d3 = (n1 * d3) * d2 /\ (n2 * d1) * d3 = (n2 * d3) * d1
      /\ (n3 * d2) * d1 = (n3 * d1) * d2
  BY <1>1
<1>6. (n1 * d3) * d2 <= (n3 * d1) * d2
  <2>1. (n1 * d3) * d2 \in Int /\ (n3 * d1) * d2 \in Int /\ (n2 * d3) * d1 \in Int
    BY <1>1
  <2> QED BY <2>1, <1>3, <1>4, <1>5
<1> QED BY <1>1, <1>6, Untimes

\* The fall from any amount to a later one is no worse than from the highest.
LEMMA FallFromPeak ==
    ASSUME NEW c \in Nat \ {0}, NEW p \in Nat, NEW e \in Nat, c <= p
    PROVE  ~Walk!Worse(<<c - e, c>>, <<p - e, p>>)
<1>1. c * e <= p * e
  BY Times
<1>2. (c - e) * p = c * p - e * p /\ (p - e) * c = p * c - e * c
  OBVIOUS
<1>3. c * p = p * c /\ e * p = p * e /\ e * c = c * e
  OBVIOUS
<1>4. c * p \in Int /\ p * e \in Int /\ c * e \in Int
  OBVIOUS
<1> QED BY <1>1, <1>2, <1>3, <1>4 DEF Walk!Worse

LEMMA WalkBounds ==
    /\ LastBar \in Nat /\ TimeoutBars \in Nat \ {0} /\ Balance \in Nat
    /\ \A x \in {"SL", "TP", "TIMEOUT"} : Payoffs[x] \subseteq Int
  BY PayoffAssumption

\* What a simulated trade is: it closes where the paper engine would have.
Mirrors(t) ==
    /\ t.entry \in Nat /\ t.exit \in Nat /\ t.entry < t.exit /\ t.exit <= LastBar
    /\ t.pnl \in Int /\ t.reason \in {"SL", "TP", "TIMEOUT"}
    /\ \A b \in (t.entry + 1)..(t.exit - 1) : Walk!CheckExit(t.path[b], b - t.entry) = "none"
    /\ \/ Walk!CheckExit(t.path[t.exit], t.exit - t.entry) = t.reason
       \/ /\ Walk!CheckExit(t.path[t.exit], t.exit - t.entry) = "none"
          /\ t.exit = LastBar /\ t.reason = "TIMEOUT"

LEMMA WalkHorizon ==
    ASSUME NEW entry \in Nat, entry < LastBar
    PROVE  /\ Walk!Horizon(entry) \in (entry + 1)..LastBar
           /\ Walk!Horizon(entry) <= entry + TimeoutBars
           /\ Walk!Horizon(entry) = entry + TimeoutBars \/ Walk!Horizon(entry) = LastBar
  BY WalkBounds DEF Walk!Horizon

\* The exit is the first bar that touches, or the last one followed.
LEMMA WalkExit ==
    ASSUME NEW entry \in Nat, entry < LastBar, NEW path \in Walk!Paths(entry)
    PROVE  /\ Walk!Exit(entry, path) \in (entry + 1)..Walk!Horizon(entry)
           /\ \A b \in (entry + 1)..(Walk!Exit(entry, path) - 1) : path[b] = "none"
           /\ IF Walk!Touched(path) = {}
              THEN path[Walk!Exit(entry, path)] = "none" /\ Walk!Exit(entry, path) = Walk!Horizon(entry)
              ELSE path[Walk!Exit(entry, path)] \in {"stop", "target", "both"}
<1> DEFINE h == Walk!Horizon(entry)
           T == Walk!Touched(path)
<1>1. h \in (entry + 1)..LastBar /\ h \in Nat
  BY WalkHorizon, WalkBounds
<1>2. DOMAIN path = (entry + 1)..h /\ \A b \in (entry + 1)..h : path[b] \in {"none", "stop", "target", "both"}
  BY DEF Walk!Paths, Walk!Touches
<1>3. T = {k \in (entry + 1)..h : path[k] # "none"}
  BY <1>2 DEF Walk!Touched
<1> HIDE DEF h, T
<1>4. CASE T = {}
  <2>1. Walk!Exit(entry, path) = h
    BY <1>4 DEF Walk!Exit, h, T
  <2>2. \A b \in (entry + 1)..h : path[b] = "none"
    BY <1>3, <1>4
  <2>3. h \in (entry + 1)..h
    BY <1>1
  <2> QED BY <1>1, <1>4, <2>1, <2>2, <2>3 DEF h, T
<1>5. CASE T # {}
  <2> DEFINE x == CHOOSE k \in T : \A j \in T : k <= j
  <2>0. entry + 1 \in Int /\ h \in Int
    BY <1>1
  <2>1. IsFiniteSet((entry + 1)..h)
    BY <2>0, FS_Interval, Zenon
  <2>a. T \subseteq (entry + 1)..h
    BY <1>3
  <2>b. T \in SUBSET Int
    BY <2>a
  <2>2. T \in SUBSET Int /\ IsFiniteSet(T)
    BY <2>1, <2>a, <2>b, FS_Subset, Zenon
  <2>3. \E k \in T : \A j \in T : k <= j
    BY <1>5, <2>2, LeastOfFinite
  <2>4. x \in T /\ \A j \in T : x <= j
    BY <2>3
  <2>5. Walk!Exit(entry, path) = x
    BY <1>5 DEF Walk!Exit, T
  <2> HIDE DEF x
  <2>6. x \in (entry + 1)..h /\ path[x] \in {"stop", "target", "both"}
    BY <2>4, <1>2, <1>3
  <2>7. \A b \in (entry + 1)..(x - 1) : b \in (entry + 1)..h /\ ~(x <= b)
    BY <2>6, <1>1
  <2>8. \A b \in (entry + 1)..(x - 1) : path[b] = "none"
    BY <2>7, <2>4, <1>3
  <2> QED BY <1>5, <2>5, <2>6, <2>8 DEF h, T
<1> QED BY <1>4, <1>5

LEMMA WalkMirrors ==
    ASSUME NEW entry \in Nat, entry < LastBar, NEW path \in Walk!Paths(entry),
           NEW gain \in Payoffs[Walk!Reason(entry, path)]
    PROVE  Mirrors([entry |-> entry, exit |-> Walk!Exit(entry, path), path |-> path,
                    reason |-> Walk!Reason(entry, path), pnl |-> gain])
<1> DEFINE x == Walk!Exit(entry, path)
           why == Walk!Reason(entry, path)
           h == Walk!Horizon(entry)
           T == Walk!Touched(path)
<1>1. /\ x \in (entry + 1)..h /\ \A b \in (entry + 1)..(x - 1) : path[b] = "none"
      /\ IF T = {} THEN path[x] = "none" /\ x = h ELSE path[x] \in {"stop", "target", "both"}
  BY WalkExit
<1>2. /\ h \in (entry + 1)..LastBar /\ h <= entry + TimeoutBars
      /\ h = entry + TimeoutBars \/ h = LastBar
  BY WalkHorizon
<1>3. why = (IF T = {} THEN "TIMEOUT" ELSE IF path[x] = "target" THEN "TP" ELSE "SL")
  BY DEF Walk!Reason
<1> HIDE DEF x, why, h, T
<1> USE WalkBounds
<1>4. x \in Nat /\ entry < x /\ x <= LastBar /\ x <= entry + TimeoutBars
  BY <1>1, <1>2
<1>5. why \in {"SL", "TP", "TIMEOUT"} /\ gain \in Int
  <2>1. why \in {"SL", "TP", "TIMEOUT"}
    BY <1>3
  <2> QED BY <2>1 DEF why
<1>6. ASSUME NEW b \in (entry + 1)..(x - 1) PROVE Walk!CheckExit(path[b], b - entry) = "none"
  <2>1. path[b] = "none" /\ ~(b - entry >= TimeoutBars)
    BY <1>1, <1>4
  <2> QED BY <2>1 DEF Walk!CheckExit
<1>7. \/ Walk!CheckExit(path[x], x - entry) = why
      \/ Walk!CheckExit(path[x], x - entry) = "none" /\ x = LastBar /\ why = "TIMEOUT"
  <2>1. CASE T = {}
    <3>1. path[x] = "none" /\ why = "TIMEOUT" /\ (x - entry >= TimeoutBars \/ x = LastBar)
      BY <2>1, <1>1, <1>2, <1>3
    <3> QED BY <3>1 DEF Walk!CheckExit
  <2>2. CASE T # {}
    <3>1. path[x] \in {"stop", "target", "both"} /\ why = (IF path[x] = "target" THEN "TP" ELSE "SL")
      BY <2>2, <1>1, <1>3
    <3> QED BY <3>1 DEF Walk!CheckExit
  <2> QED BY <2>1, <2>2
<1> QED BY <1>4, <1>5, <1>6, <1>7 DEF Mirrors, x, why

Simulated ==
    [entry : Nat, exit : Nat, path : UNION {Walk!Paths(entry) : entry \in Nat},
     reason : {"SL", "TP", "TIMEOUT"}, pnl : Int]
WalkTrades ==
    /\ scan \in 0..(LastBar + 1) /\ tallied \in 0..Len(fills)
    /\ fills \in Seq(Simulated)
    /\ \A k \in DOMAIN fills : Mirrors(fills[k]) /\ fills[k].exit < scan
    /\ Walk!NeverOverlap
WalkCurve ==
    /\ curve \in Seq(Int) /\ curve # <<>> /\ peak \in Int /\ fall \in Fraction
    /\ (\A i \in DOMAIN curve : curve[i] >= 0) =>
           \A i \in DOMAIN curve : curve[i] <= peak
    /\ Walk!DrawdownIsWorst
WalkInv == WalkTrades /\ WalkCurve

LEMMA WalkStart == Walk!Init => WalkInv
<1> SUFFICES ASSUME Walk!Init PROVE WalkInv
  OBVIOUS
<1>1. WalkTrades
  BY WalkBounds DEF Walk!Init, WalkTrades, Walk!NeverOverlap
<1>2. /\ curve \in Seq(Int) /\ curve # <<>> /\ DOMAIN curve = {1} /\ curve[1] = peak /\ peak \in Nat
      /\ fall \in Fraction
  BY WalkBounds DEF Walk!Init, Fraction
<1>3. WalkCurve
  BY <1>2 DEF WalkCurve, Walk!DrawdownIsWorst
<1> QED BY <1>1, <1>3 DEF WalkInv

LEMMA WalkTrade ==
    ASSUME WalkTrades, NEW path \in Walk!Paths(scan), NEW gain, Walk!Trade(path, gain)
    PROVE  WalkTrades'
<1> DEFINE t == [entry |-> scan, exit |-> Walk!Exit(scan, path), path |-> path,
                 reason |-> Walk!Reason(scan, path), pnl |-> gain]
<1>1. /\ scan \in Nat /\ scan < LastBar /\ fills' = Append(fills, t) /\ scan' = t.exit + 1
      /\ tallied' = tallied /\ gain \in Payoffs[Walk!Reason(scan, path)]
  BY DEF Walk!Trade, WalkTrades
<1>2. Mirrors(t)
  BY <1>1, WalkMirrors
<1>3. t.entry = scan /\ t.path = path
  OBVIOUS
<1>a. path \in UNION {Walk!Paths(entry) : entry \in Nat}
  BY <1>1
<1>b. t \in Simulated
  BY <1>2, <1>a DEF Mirrors, Simulated
<1> HIDE DEF t
<1>4. /\ Len(fills') = Len(fills) + 1 /\ DOMAIN fills' = 1..(Len(fills) + 1)
      /\ fills'[Len(fills) + 1] = t /\ \A k \in DOMAIN fills : fills'[k] = fills[k]
      /\ fills' \in Seq(Simulated)
  BY <1>1, <1>b DEF WalkTrades
<1>5. /\ t.entry \in Nat /\ t.exit \in Nat /\ t.entry < t.exit /\ t.exit <= LastBar
  BY <1>2 DEF Mirrors
<1>6. scan' \in 0..(LastBar + 1) /\ scan < scan' /\ t.exit < scan'
  BY <1>1, <1>3, <1>5, WalkBounds
<1>7. \A k \in DOMAIN fills' : Mirrors(fills'[k]) /\ fills'[k].exit < scan'
  <2> SUFFICES ASSUME NEW k \in DOMAIN fills' PROVE Mirrors(fills'[k]) /\ fills'[k].exit < scan'
    OBVIOUS
  <2>1. CASE k = Len(fills) + 1
    BY <2>1, <1>2, <1>4, <1>6
  <2>2. CASE k \in DOMAIN fills
    <3>1. fills[k].exit \in Nat
      BY <2>2 DEF WalkTrades, Mirrors
    <3> QED BY <2>2, <3>1, <1>1, <1>4, <1>6 DEF WalkTrades
  <2> QED BY <2>1, <2>2, <1>4 DEF WalkTrades
<1>8. Walk!NeverOverlap'
  <2> SUFFICES ASSUME NEW j \in DOMAIN fills', NEW k \in DOMAIN fills', j < k
               PROVE  fills'[j].exit < fills'[k].entry
    BY DEF Walk!NeverOverlap
  <2>1. j \in DOMAIN fills
    BY <1>4 DEF WalkTrades
  <2>2. CASE k \in DOMAIN fills
    BY <2>1, <2>2, <1>4 DEF WalkTrades, Walk!NeverOverlap
  <2>3. CASE k = Len(fills) + 1
    BY <2>1, <2>3, <1>3, <1>4 DEF WalkTrades
  <2> QED BY <2>2, <2>3, <1>4 DEF WalkTrades
<1> QED BY <1>1, <1>4, <1>6, <1>7, <1>8 DEF WalkTrades

LEMMA WalkTally ==
    ASSUME WalkInv, Walk!Tally PROVE WalkInv'
<1> DEFINE n == Len(curve)
           equity == curve[n] + fills[tallied + 1].pnl
           dd == IF peak' > 0 THEN <<peak' - equity, peak'>> ELSE <<0, 1>>
<1>1. /\ tallied' = tallied + 1 /\ tallied < Len(fills) /\ UNCHANGED <<scan, fills>>
      /\ curve' = Append(curve, equity) /\ peak' = (IF equity > peak THEN equity ELSE peak)
      /\ fall' = (IF Walk!Worse(dd, fall) THEN dd ELSE fall)
  BY DEF Walk!Tally
<1>2. WalkTrades'
  BY <1>1 DEF WalkInv, WalkTrades, Walk!NeverOverlap
<1>3. n \in Nat \ {0} /\ curve \in Seq(Int) /\ peak \in Int /\ fall \in Fraction
  BY DEF WalkInv, WalkCurve
<1>4. equity \in Int
  <2>1. tallied + 1 \in DOMAIN fills
    BY <1>1 DEF WalkInv, WalkTrades
  <2>2. fills[tallied + 1].pnl \in Int
    BY <2>1 DEF WalkInv, WalkTrades, Mirrors
  <2> QED BY <2>2, <1>3
<1> HIDE DEF equity, dd
<1>5. peak' \in Int /\ equity <= peak' /\ peak <= peak'
  BY <1>1, <1>3, <1>4
<1>6. dd \in Fraction
  BY <1>4, <1>5 DEF dd, Fraction
<1>7. fall' \in Fraction /\ ~Walk!Worse(dd, fall')
  <2>1. ~Walk!Worse(dd, dd)
    BY <1>6 DEF Walk!Worse, Fraction
  <2> QED BY <1>1, <1>3, <1>6, <2>1
<1>8. \A x \in Fraction : ~Walk!Worse(x, fall) => ~Walk!Worse(x, fall')
  <2> SUFFICES ASSUME NEW x \in Fraction, ~Walk!Worse(x, fall), Walk!Worse(dd, fall)
               PROVE  ~Walk!Worse(x, dd)
    BY <1>1
  <2>1. ~Walk!Worse(fall, dd)
    BY <1>3, <1>6 DEF Walk!Worse, Fraction
  <2> QED BY <2>1, <1>3, <1>6, FractionsAlong
<1>9. /\ curve' \in Seq(Int) /\ curve' # <<>> /\ Len(curve') = n + 1
      /\ curve'[n + 1] = equity /\ \A i \in DOMAIN curve : curve'[i] = curve[i]
      /\ DOMAIN curve' = 1..(n + 1) /\ DOMAIN curve = 1..n
  BY <1>1, <1>3, <1>4
<1> HIDE DEF n
<1>10. ASSUME \A i \in DOMAIN curve' : curve'[i] >= 0
       PROVE  /\ \A i \in DOMAIN curve' : curve'[i] <= peak'
              /\ \A i, j \in DOMAIN curve' : i < j /\ curve'[i] > 0 =>
                     ~Walk!Worse(<<curve'[i] - curve'[j], curve'[i]>>, fall')
  <2>1. (\A i \in DOMAIN curve : curve[i] >= 0) /\ equity >= 0
    BY <1>3, <1>9, <1>10
  <2>2. \A i \in DOMAIN curve : curve[i] \in Int /\ curve[i] <= peak
    BY <2>1, <1>3 DEF WalkInv, WalkCurve
  <2>3. \A i \in DOMAIN curve' : curve'[i] <= peak'
    <3> SUFFICES ASSUME NEW i \in 1..(n + 1) PROVE curve'[i] <= peak'
      BY <1>9
    <3>1. CASE i = n + 1
      BY <3>1, <1>5, <1>9
    <3>2. CASE i \in 1..n
      BY <3>2, <2>2, <1>3, <1>5, <1>9
    <3> QED BY <3>1, <3>2, <1>3
  <2>4. ASSUME NEW i \in DOMAIN curve', NEW j \in DOMAIN curve', i < j, curve'[i] > 0
        PROVE  ~Walk!Worse(<<curve'[i] - curve'[j], curve'[i]>>, fall')
    <3>1. i \in DOMAIN curve /\ curve'[i] = curve[i] /\ curve[i] \in Nat \ {0} /\ curve[i] <= peak'
      BY <2>4, <2>2, <1>3, <1>5, <1>9
    <3>2. CASE j \in DOMAIN curve
      <4>1. curve'[j] = curve[j] /\ curve[j] \in Int
        BY <3>2, <1>9, <2>2
      <4>2. <<curve[i] - curve[j], curve[i]>> \in Fraction
        BY <3>1, <4>1 DEF Fraction
      <4>3. ~Walk!Worse(<<curve[i] - curve[j], curve[i]>>, fall)
        BY <2>1, <2>4, <3>1, <3>2 DEF WalkInv, WalkCurve, Walk!DrawdownIsWorst
      <4> QED BY <4>1, <4>2, <4>3, <3>1, <1>8
    <3>3. CASE j = n + 1
      <4>1. peak' \in Nat /\ peak' > 0 /\ equity \in Nat
        BY <3>1, <1>4, <1>5, <2>1
      <4>2. ~Walk!Worse(<<curve[i] - equity, curve[i]>>, dd)
        BY <4>1, <3>1, FallFromPeak DEF dd
      <4>3. <<curve[i] - equity, curve[i]>> \in Fraction
        BY <3>1, <4>1 DEF Fraction
      <4> QED BY <3>1, <3>3, <4>2, <4>3, <1>6, <1>7, <1>9, FractionsAlong
    <3> QED BY <3>2, <3>3, <1>3, <1>9
  <2> QED BY <2>3, <2>4
<1>11. WalkCurve'
  BY <1>5, <1>7, <1>9, <1>10 DEF WalkCurve, Walk!DrawdownIsWorst
<1> QED BY <1>2, <1>11 DEF WalkInv

LEMMA WalkStep == ASSUME WalkInv, Walk!Next PROVE WalkInv'
<1>1. CASE Walk!Pass
<2>1. scan' = scan + 1 /\ scan < LastBar /\ UNCHANGED <<fills, tallied, curve, peak, fall>>
  BY <1>1 DEF Walk!Pass
<2>2. WalkCurve'
  BY <2>1 DEF WalkInv, WalkCurve, Walk!DrawdownIsWorst
<2>3. \A k \in DOMAIN fills : fills[k].exit < scan'
  <3> SUFFICES ASSUME NEW k \in DOMAIN fills PROVE fills[k].exit < scan'
    OBVIOUS
  <3>1. fills[k].exit \in Nat /\ fills[k].exit < scan /\ scan \in Nat
    BY DEF WalkInv, WalkTrades, Mirrors
  <3> QED BY <3>1, <2>1
<2>4. scan' \in 0..(LastBar + 1)
  BY <2>1, WalkBounds DEF WalkInv, WalkTrades
<2>5. WalkTrades'
  BY <2>1, <2>3, <2>4 DEF WalkInv, WalkTrades, Walk!NeverOverlap
<2> QED BY <2>2, <2>5 DEF WalkInv
<1>2. CASE Walk!Tally
  BY <1>2, WalkTally
<1>3. ASSUME NEW path \in Walk!Paths(scan), NEW gain, Walk!Trade(path, gain) PROVE WalkInv'
<2>1. UNCHANGED <<curve, peak, fall>>
  BY <1>3 DEF Walk!Trade
<2> QED
  BY <2>1, <1>3, WalkTrade DEF WalkInv, WalkCurve, Walk!DrawdownIsWorst
<1> QED
  BY <1>1, <1>2, <1>3 DEF Walk!Next

LEMMA WalkMoves ==
    ASSUME [Next]_vars
    PROVE  /\ UNCHANGED part
           /\ part = "walk" => Walk!Next \/ UNCHANGED vars
           /\ (part = "walk" /\ Walk!Next) \/ UNCHANGED walkOnly
  BY DEF Next, TaskNext, DeskNext, vars, tasksOnly, deskOnly

WalkHold == part = "walk" => WalkInv

LEMMA WalkStays == Spec => []WalkHold
<1>1. Init => WalkHold
  BY WalkStart DEF Init, WalkHold
<1>2. WalkHold /\ [Next]_vars => WalkHold'
<2> SUFFICES ASSUME WalkHold, [Next]_vars, part = "walk" PROVE WalkInv'
  BY WalkMoves DEF WalkHold
<2>1. CASE Walk!Next
  BY <2>1, WalkStep DEF WalkHold
<2>2. CASE UNCHANGED vars
  <3>1. UNCHANGED walkOnly /\ WalkInv
    BY <2>2 DEF vars, deskOnly, WalkHold
  <3> QED
    BY <3>1 DEF WalkInv, WalkTrades, WalkCurve, Walk!NeverOverlap, Walk!DrawdownIsWorst, walkOnly
<2> QED
  BY <2>1, <2>2, WalkMoves
<1> QED
  BY <1>1, <1>2, PTL DEF Spec

LEMMA WalkIsHonest ==
    ASSUME WalkInv
    PROVE  Walk!TypeOK /\ Walk!NeverOverlap /\ Walk!MirrorsPaper /\ Walk!DrawdownIsWorst
<1>1. Walk!MirrorsPaper
<2> SUFFICES ASSUME NEW k \in DOMAIN fills
             PROVE  LET t == fills[k]
                        Paper(b) == Walk!CheckExit(t.path[b], b - t.entry)
                    IN /\ t.entry < t.exit /\ t.exit <= LastBar
                       /\ \A b \in (t.entry + 1)..(t.exit - 1) : Paper(b) = "none"
                       /\ \/ Paper(t.exit) = t.reason
                          \/ Paper(t.exit) = "none" /\ t.exit = LastBar /\ t.reason = "TIMEOUT"
  BY DEF Walk!MirrorsPaper
<2>1. Mirrors(fills[k])
  BY DEF WalkInv, WalkTrades
<2> QED BY <2>1 DEF Mirrors
<1>2. Walk!TypeOK
<2>1. \A k \in DOMAIN fills : fills[k].pnl \in Int /\ fills[k].reason \in {"SL", "TP", "TIMEOUT"}
  BY DEF WalkInv, WalkTrades, Mirrors
<2> QED BY <2>1 DEF WalkInv, WalkTrades, WalkCurve, Fraction, Walk!TypeOK
<1> QED BY <1>1, <1>2 DEF WalkInv, WalkTrades, WalkCurve

-----------------------------------------------------------------------------
(* The tax records.                                                        *)

LEMMA TaxBounds ==
    /\ Quantities \subseteq Nat /\ Tolerance \in Nat /\ Rates \subseteq Nat \ {0}
    /\ MaxMonth \in Nat \ {0, 1} /\ TaxFaults \in Nat
  BY TaxAssumption, DeskFaultsAssumption

Lot == [id : Nat \ {0}, left : Nat \ {0}]
Part == [id : Nat \ {0}, qty : Nat \ {0}]
Purchase == [asset : Assets, qty : Nat \ {0}]
Sale == [asset : Assets, qty : Nat \ {0}, open : Nat, parts : Seq(Part), asked : SUBSET (0..MaxMonth)]
TaxEvent == [asset : Assets, qty : Nat \ {0}, parts : Seq(Part), month : 0..MaxMonth, fy : Int,
             from : 0..MaxMonth, rate : Nat \ {0}]

TaxTypes ==
    /\ lots \in [Assets -> Seq(Lot)] /\ bought \in Seq(Purchase)
    /\ matched \in Seq(Nat) /\ Len(matched) = Len(bought)
    /\ month \in 0..MaxMonth /\ faults \in 0..TaxFaults
    /\ fx \in [0..MaxMonth -> Nat] /\ taxed \in Seq(TaxEvent)
    /\ sale \subseteq Sale /\ \A s, t \in sale : s = t
    /\ \A s \in sale : s.open <= s.qty /\ \A k \in DOMAIN s.parts : s.parts[k].id <= Len(bought)

\* The queue a of an asset, and what has been bought and matched by then: its lots
\* are what is left of its asset's purchases, in their order; only the first may
\* be partly sold; and the purchases it has no lot of are sold, and older.
Rest(b, m, i) == b[i].qty - m[i]
InOrder(a, q, b, m) ==
    /\ \A k \in DOMAIN q :
           /\ q[k].id \in DOMAIN b /\ b[q[k].id].asset = a /\ q[k].left = Rest(b, m, q[k].id)
           /\ k # 1 => m[q[k].id] = 0
    /\ \A j, k \in DOMAIN q : j < k => q[j].id < q[k].id
    /\ \A i \in DOMAIN b :
           \/ b[i].asset # a
           \/ \E k \in DOMAIN q : q[k].id = i
           \/ Rest(b, m, i) <= Tolerance /\ \A k \in DOMAIN q : i < q[k].id
TaxQueues ==
    /\ \A a \in Assets : InOrder(a, lots[a], bought, matched)
    /\ \A i \in DOMAIN bought : matched[i] <= bought[i].qty

\* The rates there are, are of months up to the one that is asked for; and so are
\* the months of the events.
RatedBy(m) ==
    /\ \A n \in DOMAIN fx : fx[n] # 0 => n <= m
    /\ \A k \in DOMAIN taxed : taxed[k].month <= m
Rated(e) ==
    /\ fx[e.from] = e.rate /\ e.from <= e.month /\ e.fy = Tax!FyYear(e.month)
    /\ \A m \in DOMAIN fx : e.from < m /\ m < e.month => fx[m] = 0
TaxRates ==
    /\ RatedBy(month) /\ \A k \in DOMAIN taxed : Rated(taxed[k])
    /\ \A s \in sale, m \in 0..MaxMonth : m \in s.asked => m <= month /\ RatedBy(m)

\* A sale finds in its queue what it is still open for; and it has taken what it
\* can when the rate is asked for.
TaxCovers ==
    \A s \in sale :
        /\ s.open > 0 => Tax!Total(lots[s.asset]) >= s.open - Tolerance
        /\ s.asked # {} => ~Tax!Matching(s)

TaxInv == TaxTypes /\ TaxQueues /\ TaxRates /\ TaxCovers

\* What a queue holds: the sums of its ends, from each lot on.
Sums(f, q) ==
    f = [k \in 1..(Len(q) + 1) |-> IF k > Len(q) THEN 0 ELSE q[k].left + f[k + 1]]

LEMMA TotalIs == ASSUME NEW q PROVE Tax!Total(q) = (CHOOSE f : Sums(f, q))[1]
  BY Zenon DEF Tax!Total, Sums

\* The last place of a sequence's length where something is wrong.
LEMMA LastWrong ==
    ASSUME NEW n \in Nat, NEW Bad \in SUBSET (1..(n + 1)), Bad # {}
    PROVE  \E k \in Bad : k \in 1..(n + 1) /\ k + 1 \notin Bad
<1>1. Bad \subseteq Int /\ IsFiniteSet(Bad)
  <2>1. 1 \in Int /\ n + 1 \in Int
    OBVIOUS
  <2>2. IsFiniteSet(1..(n + 1))
    BY <2>1, FS_Interval, Zenon
  <2>3. IsFiniteSet(Bad)
    BY <2>2, FS_Subset, Zenon
  <2> QED BY <2>3
<1>2. PICK k \in Bad : \A j \in Bad : j <= k
  BY <1>1, GreatestOfFinite
<1> QED BY <1>1, <1>2

LEMMA SumsAgree ==
    ASSUME NEW q \in Seq(Lot), NEW f, NEW g, Sums(f, q), Sums(g, q)
    PROVE  f = g
<1> PICK n \in Nat : n = Len(q)
  OBVIOUS
<1>1. \A k \in 1..(n + 1) : /\ f[k] = IF k > n THEN 0 ELSE q[k].left + f[k + 1]
                            /\ g[k] = IF k > n THEN 0 ELSE q[k].left + g[k + 1]
  BY DEF Sums
<1>2. \A k \in 1..(n + 1) : f[k] = g[k]
  <2> DEFINE Bad == {k \in 1..(n + 1) : f[k] # g[k]}
  <2> SUFFICES ASSUME Bad # {} PROVE FALSE
    OBVIOUS
  <2>1. PICK k \in 1..(n + 1) : k \in Bad /\ k + 1 \notin Bad
    BY LastWrong
  <2>2. k > n \/ k + 1 \in 1..(n + 1)
    OBVIOUS
  <2> QED BY <2>1, <2>2, <1>1
<1>3. f = [k \in 1..(n + 1) |-> f[k]] /\ g = [k \in 1..(n + 1) |-> g[k]]
  BY DEF Sums
<1> QED BY <1>2, <1>3

\* The sums of an end from j on.
EndSums(g, j, q) ==
    /\ DOMAIN g = j..(Len(q) + 1)
    /\ \A k \in j..(Len(q) + 1) : g[k] = IF k > Len(q) THEN 0 ELSE q[k].left + g[k + 1]

LEMMA SumsExist == ASSUME NEW q \in Seq(Lot) PROVE \E f : Sums(f, q)
<1> PICK n \in Nat : n = Len(q)
  OBVIOUS
<1> DEFINE Bad == {j \in 1..(n + 1) : ~\E g : EndSums(g, j, q)}
<1>1. ASSUME NEW j \in 1..(n + 1), j \in Bad, j + 1 \notin Bad PROVE FALSE
  <2>1. CASE j = n + 1
    <3> DEFINE g == [k \in j..(n + 1) |-> 0]
    <3>1. EndSums(g, j, q)
      BY <2>1 DEF EndSums
    <3> QED BY <3>1, <1>1
  <2>2. CASE j # n + 1
    <3>1. j + 1 \in 1..(n + 1) /\ j \in 1..n
      BY <2>2
    <3>2. PICK g : EndSums(g, j + 1, q)
      BY <3>1, <1>1
    <3> DEFINE h == [k \in j..(n + 1) |-> IF k = j THEN q[j].left + g[j + 1] ELSE g[k]]
    <3>3. ASSUME NEW k \in j..(n + 1)
          PROVE  h[k] = IF k > n THEN 0 ELSE q[k].left + h[k + 1]
      <4>1. CASE k = j
        <5>1. j + 1 \in j..(n + 1) /\ j + 1 # j /\ ~(j > n)
          BY <3>1
        <5> QED BY <4>1, <5>1
      <4>2. CASE k # j
        <5>1. k \in (j + 1)..(n + 1)
          BY <4>2
        <5>2. g[k] = IF k > n THEN 0 ELSE q[k].left + g[k + 1]
          BY <5>1, <3>2 DEF EndSums
        <5>3. k > n \/ (k + 1 \in j..(n + 1) /\ k + 1 # j)
          BY <5>1
        <5> QED BY <4>2, <5>2, <5>3
      <4> QED BY <4>1, <4>2
    <3>4. DOMAIN h = j..(n + 1)
      OBVIOUS
    <3> HIDE DEF h
    <3>5. EndSums(h, j, q)
      BY <3>3, <3>4 DEF EndSums
    <3> QED BY <3>5, <1>1
  <2> QED BY <2>1, <2>2
<1>2. Bad \in SUBSET (1..(n + 1))
  OBVIOUS
<1>3. 1 \notin Bad
  <2> HIDE DEF Bad
  <2> QED BY <1>1, <1>2, LastWrong
<1>4. PICK f : EndSums(f, 1, q)
  BY <1>3
<1>5. Sums([k \in 1..(n + 1) |-> f[k]], q)
  <2> PICK g : g = [k \in 1..(n + 1) |-> f[k]]
    OBVIOUS
  <2>1. \A k \in 1..(n + 1) : g[k] = IF k > n THEN 0 ELSE q[k].left + g[k + 1]
    <3> TAKE k \in 1..(n + 1)
    <3>1. k > n \/ k + 1 \in 1..(n + 1)
      OBVIOUS
    <3> QED BY <3>1, <1>4 DEF EndSums
  <2>2. g = [k \in 1..(n + 1) |-> g[k]]
    OBVIOUS
  <2>3. Sums(g, q)
    BY <2>1, <2>2 DEF Sums
  <2> QED BY <2>3
<1> QED BY <1>5

\* An empty queue holds nothing, and any other its head and what its tail holds.
LEMMA TotalOfNone == Tax!Total(<<>>) = 0
<1>1. <<>> \in Seq(Lot)
  OBVIOUS
<1>2. PICK f : f = CHOOSE e : Sums(e, <<>>)
  OBVIOUS
<1>3. Sums(f, <<>>)
  BY <1>1, <1>2, SumsExist
<1>4. f[1] = 0
  BY <1>3 DEF Sums
<1> QED BY <1>2, <1>4, TotalIs

LEMMA TotalOfRest ==
    ASSUME NEW q \in Seq(Lot), q # <<>>
    PROVE  Tax!Total(q) = q[1].left + Tax!Total(Tail(q))
<1>0. PICK t : t = Tail(q)
  OBVIOUS
<1>1. PICK n \in Nat : n + 1 = Len(q)
  <2>1. Len(q) \in Nat \ {0}
    OBVIOUS
  <2> QED BY <2>1, Len(q) - 1 \in Nat
<1>2. /\ t \in Seq(Lot) /\ Len(t) = n /\ \A k \in 1..n : t[k] = q[k + 1]
  BY <1>0, <1>1, HeadTailProperties
<1>3. PICK f : f = (CHOOSE e : Sums(e, q)) /\ Sums(f, q)
  BY SumsExist
<1>4. PICK g : g = (CHOOSE e : Sums(e, t)) /\ Sums(g, t)
  BY <1>2, SumsExist
<1>5. \A k \in 1..(n + 2) : f[k] = IF k > n + 1 THEN 0 ELSE q[k].left + f[k + 1]
  BY <1>1, <1>3 DEF Sums
<1>6. PICK h : h = [k \in 1..(n + 1) |-> f[k + 1]]
  OBVIOUS
<1>7. Sums(h, t)
  <2>1. \A k \in 1..(n + 1) : h[k] = IF k > n THEN 0 ELSE t[k].left + h[k + 1]
    <3> TAKE k \in 1..(n + 1)
    <3>1. h[k] = f[k + 1] /\ f[k + 1] = IF k + 1 > n + 1 THEN 0 ELSE q[k + 1].left + f[(k + 1) + 1]
      BY <1>5, <1>6
    <3>2. k > n \/ (k \in 1..n /\ k + 1 \in 1..(n + 1))
      OBVIOUS
    <3>3. CASE k > n
      BY <3>1, <3>3
    <3>4. CASE k \in 1..n /\ k + 1 \in 1..(n + 1)
      <4>1. h[k + 1] = f[(k + 1) + 1] /\ t[k] = q[k + 1] /\ ~(k > n) /\ ~(k + 1 > n + 1)
        BY <3>4, <1>2, <1>6
      <4> QED BY <3>1, <4>1
    <3> QED BY <3>2, <3>3, <3>4
  <2>2. h = [k \in 1..(n + 1) |-> h[k]]
    BY <1>6
  <2> QED BY <2>1, <2>2, <1>2 DEF Sums
<1>8. g = h
  BY <1>2, <1>4, <1>7, SumsAgree
<1>9. f[1] = q[1].left + g[1]
  <2>1. f[1] = q[1].left + f[1 + 1]
    BY <1>5
  <2>2. h[1] = f[1 + 1]
    BY <1>6
  <2> QED BY <2>1, <2>2, <1>8
<1> QED BY <1>0, <1>3, <1>4, <1>9, TotalIs
LEMMA TotalIsInt == ASSUME NEW q \in Seq(Lot) PROVE Tax!Total(q) \in Int
<1> PICK n \in Nat : n = Len(q)
  OBVIOUS
<1>1. PICK f : f = (CHOOSE e : Sums(e, q)) /\ Sums(f, q)
  BY SumsExist
<1>2. \A k \in 1..(n + 1) : f[k] = IF k > n THEN 0 ELSE q[k].left + f[k + 1]
  BY <1>1 DEF Sums
<1> DEFINE Bad == {k \in 1..(n + 1) : f[k] \notin Int}
<1>3. ASSUME NEW k \in 1..(n + 1), k \in Bad, k + 1 \notin Bad PROVE FALSE
  <2>1. CASE k > n
    BY <2>1, <1>2, <1>3
  <2>2. CASE k \in 1..n
    <3>1. k + 1 \in 1..(n + 1) /\ f[k + 1] \in Int
      BY <2>2, <1>3
    <3>2. q[k] \in Lot
      BY <2>2
    <3>3. q[k].left \in Int
      BY <3>2 DEF Lot
    <3> QED BY <2>2, <3>1, <3>3, <1>2, <1>3
  <2> QED BY <2>1, <2>2
<1>4. Bad \in SUBSET (1..(n + 1))
  OBVIOUS
<1>5. 1 \notin Bad
  <2> HIDE DEF Bad
  <2> QED BY <1>3, <1>4, LastWrong
<1>6. f[1] \in Int
  BY <1>5
<1> QED BY <1>1, <1>6, TotalIs


LEMMA TaxStart == Tax!Init => TaxInv
<1> SUFFICES ASSUME Tax!Init PROVE TaxInv
  OBVIOUS
<1> USE TaxBounds DEF Tax!Init
<1>1. TaxTypes
  BY DEF TaxTypes
<1>2. TaxQueues
  BY DEF TaxQueues, InOrder
<1>3. TaxRates
  BY DEF TaxRates, RatedBy
<1> QED BY <1>1, <1>2, <1>3 DEF TaxInv, TaxCovers

LEMMA UpTo ==
    ASSUME NEW p \in Nat, NEW j \in 1..(p + 1), NEW k \in 1..(p + 1), j < k
    PROVE  j \in 1..p /\ (k \in 1..p \/ k = p + 1)
  OBVIOUS

\* Another purchase, of this asset or of another, is the newest.
LEMMA BoughtInOrder ==
    ASSUME NEW a \in Assets, NEW q \in Seq(Lot), NEW b \in Seq(Purchase), NEW m \in Seq(Nat),
           Len(m) = Len(b), InOrder(a, q, b, m), NEW item \in Purchase
    PROVE  /\ item.asset # a => InOrder(a, q, Append(b, item), Append(m, 0))
           /\ item.asset = a =>
                  InOrder(a, Append(q, [id |-> Len(b) + 1, left |-> item.qty]),
                          Append(b, item), Append(m, 0))
<1> PICK n \in Nat : n = Len(b)
  OBVIOUS
<1> PICK p \in Nat : p = Len(q)
  OBVIOUS
<1> PICK c : c = Append(b, item)
  OBVIOUS
<1> PICK d : d = Append(m, 0)
  OBVIOUS
<1>1. /\ DOMAIN b = 1..n /\ DOMAIN c = 1..(n + 1) /\ DOMAIN m = 1..n /\ DOMAIN q = 1..p
      /\ \A i \in 1..n : c[i] = b[i] /\ d[i] = m[i]
      /\ c[n + 1] = item /\ d[n + 1] = 0
  OBVIOUS
<1>2. /\ \A k \in 1..p :
             /\ q[k].id \in 1..n /\ b[q[k].id].asset = a /\ q[k].left = Rest(b, m, q[k].id)
             /\ k # 1 => m[q[k].id] = 0
      /\ \A j, k \in 1..p : j < k => q[j].id < q[k].id
      /\ \A i \in 1..n : \/ b[i].asset # a
                         \/ \E k \in 1..p : q[k].id = i
                         \/ Rest(b, m, i) <= Tolerance /\ \A k \in 1..p : i < q[k].id
  BY <1>1 DEF InOrder
<1>3. \A i \in 1..n : Rest(c, d, i) = Rest(b, m, i)
  BY <1>1 DEF Rest
<1>4. Rest(c, d, n + 1) = item.qty
  BY <1>1 DEF Rest, Purchase
<1>5. \A k \in 1..p : q[k].id < n + 1 /\ q[k].id \in 1..(n + 1)
  BY <1>2
<1>6. ASSUME item.asset # a PROVE InOrder(a, q, c, d)
  <2>1. \A k \in 1..p :
            /\ q[k].id \in 1..(n + 1) /\ c[q[k].id].asset = a /\ q[k].left = Rest(c, d, q[k].id)
            /\ k # 1 => d[q[k].id] = 0
    BY <1>1, <1>2, <1>3, <1>5
  <2>2. \A i \in 1..(n + 1) : \/ c[i].asset # a
                              \/ \E k \in 1..p : q[k].id = i
                              \/ Rest(c, d, i) <= Tolerance /\ \A k \in 1..p : i < q[k].id
    BY <1>1, <1>2, <1>3, <1>6
  <2> QED BY <2>1, <2>2, <1>1, <1>2 DEF InOrder
<1>7. ASSUME item.asset = a
      PROVE  InOrder(a, Append(q, [id |-> n + 1, left |-> item.qty]), c, d)
  <2> PICK r : r = Append(q, [id |-> n + 1, left |-> item.qty])
    OBVIOUS
  <2>1. /\ DOMAIN r = 1..(p + 1) /\ \A k \in 1..p : r[k] = q[k]
        /\ r[p + 1] = [id |-> n + 1, left |-> item.qty]
    OBVIOUS
  <2>2. r[p + 1].id = n + 1 /\ r[p + 1].left = item.qty
    BY <2>1
  <2>3. \A k \in 1..(p + 1) :
            /\ r[k].id \in 1..(n + 1) /\ c[r[k].id].asset = a /\ r[k].left = Rest(c, d, r[k].id)
            /\ k # 1 => d[r[k].id] = 0
    <3> TAKE k \in 1..(p + 1)
    <3>1. CASE k = p + 1
      BY <3>1, <2>2, <1>1, <1>4, <1>7
    <3>2. CASE k \in 1..p
      BY <3>2, <2>1, <1>1, <1>2, <1>3, <1>5
    <3> QED BY <3>1, <3>2
  <2>4. \A j, k \in 1..(p + 1) : j < k => r[j].id < r[k].id
    <3> SUFFICES ASSUME NEW j \in 1..(p + 1), NEW k \in 1..(p + 1), j < k
                 PROVE  r[j].id < r[k].id
      OBVIOUS
    <3>1. j \in 1..p /\ (k \in 1..p \/ k = p + 1)
      BY UpTo
    <3> QED BY <3>1, <2>1, <2>2, <1>2, <1>5
  <2>5. \A i \in 1..(n + 1) : \/ c[i].asset # a
                              \/ \E k \in 1..(p + 1) : r[k].id = i
                              \/ Rest(c, d, i) <= Tolerance /\ \A k \in 1..(p + 1) : i < r[k].id
    <3> TAKE i \in 1..(n + 1)
    <3>1. CASE i = n + 1
      BY <3>1, <2>2
    <3>2. CASE i \in 1..n /\ \E k \in 1..p : q[k].id = i
      BY <3>2, <2>1
    <3>3. CASE i \in 1..n /\ Rest(b, m, i) <= Tolerance /\ \A k \in 1..p : i < q[k].id
      <4>1. ASSUME NEW k \in 1..(p + 1) PROVE i < r[k].id
        BY <3>3, <2>1, <2>2, <4>1
      <4> QED BY <4>1, <3>3, <1>3
    <3>4. CASE i \in 1..n /\ b[i].asset # a
      BY <3>4, <1>1
    <3>5. i = n + 1 \/ i \in 1..n
      BY n \in Nat
    <3> QED BY <3>1, <3>2, <3>3, <3>4, <3>5, <1>2
  <2>6. InOrder(a, r, c, d)
    <3>1. \A k \in DOMAIN r :
              /\ r[k].id \in DOMAIN c /\ c[r[k].id].asset = a /\ r[k].left = Rest(c, d, r[k].id)
              /\ k # 1 => d[r[k].id] = 0
      BY <2>1, <2>3, <1>1
    <3>2. \A j, k \in DOMAIN r : j < k => r[j].id < r[k].id
      BY <2>1, <2>4
    <3>3. \A i \in DOMAIN c : \/ c[i].asset # a
                              \/ \E k \in DOMAIN r : r[k].id = i
                              \/ Rest(c, d, i) <= Tolerance /\ \A k \in DOMAIN r : i < r[k].id
      <4>1. DOMAIN r = 1..(p + 1) /\ DOMAIN c = 1..(n + 1)
        BY <2>1, <1>1
      <4> QED BY <4>1, <2>5, Zenon
    <3> QED BY <3>1, <3>2, <3>3, Zenon DEF InOrder
  <2> QED BY <2>6
<1> QED BY <1>6, <1>7

LEMMA TaxBuys ==
    ASSUME TaxInv, NEW a \in Assets, NEW qty \in Quantities, Tax!RecordBuy(a, qty)
    PROVE  TaxInv'
<1> USE TaxBounds
<1> PICK n : n = Len(bought)
  OBVIOUS
<1> PICK item : item = [asset |-> a, qty |-> qty]
  OBVIOUS
<1> PICK lot : lot = [id |-> n + 1, left |-> item.qty]
  OBVIOUS
<1>1. /\ sale = {} /\ n \in Nat /\ qty \in Nat \ {0} /\ lot \in Lot /\ item \in Purchase
      /\ bought' = Append(bought, item) /\ matched' = Append(matched, 0)
      /\ lots' = [lots EXCEPT ![a] = Append(@, lot)]
      /\ UNCHANGED <<sale, month, fx, taxed, faults>>
      /\ item.asset = a /\ item.qty = qty
  BY DEF Tax!RecordBuy, TaxInv, TaxTypes, Lot, Purchase
<1>2. /\ bought \in Seq(Purchase) /\ matched \in Seq(Nat) /\ Len(matched) = n
      /\ lots \in [Assets -> Seq(Lot)]
  BY DEF TaxInv, TaxTypes
<1>4. /\ bought' \in Seq(Purchase) /\ Len(bought') = n + 1 /\ bought'[n + 1] = item
      /\ \A i \in 1..n : bought'[i] = bought[i]
      /\ matched' \in Seq(Nat) /\ Len(matched') = n + 1 /\ matched'[n + 1] = 0
      /\ \A i \in 1..n : matched'[i] = matched[i]
      /\ DOMAIN bought = 1..n /\ DOMAIN bought' = 1..(n + 1)
  BY <1>1, <1>2
<1>5. lots' \in [Assets -> Seq(Lot)] /\ lots'[a] = Append(lots[a], lot)
      /\ \A b \in Assets \ {a} : lots'[b] = lots[b]
  BY <1>1, <1>2
<1>6. TaxTypes'
  BY <1>1, <1>4, <1>5 DEF TaxInv, TaxTypes
<1>7. ASSUME NEW b \in Assets PROVE InOrder(b, lots'[b], bought', matched')
  <2>1. InOrder(b, lots[b], bought, matched) /\ lots[b] \in Seq(Lot)
    BY <1>2 DEF TaxInv, TaxQueues
  <2>2. CASE b = a
    BY <2>1, <2>2, <1>1, <1>2, <1>5, BoughtInOrder
  <2>3. CASE b # a
    <3>1. item.asset # b /\ lots'[b] = lots[b]
      BY <2>3, <1>1, <1>5
    <3> QED BY <2>1, <3>1, <1>1, <1>2, BoughtInOrder
  <2> QED BY <2>2, <2>3
<1>9. TaxQueues'
  BY <1>1, <1>4, <1>7 DEF TaxInv, TaxQueues, Purchase
<1>10. TaxRates'
  BY <1>1 DEF TaxInv, TaxRates, RatedBy, Rated
<1> QED BY <1>1, <1>6, <1>9, <1>10 DEF TaxInv, TaxCovers

\* What is taken from the head of a queue: it stays with what is left, or goes
\* when that is within the tolerance.
Taken(m, i, take) == [m EXCEPT ![i] = @ + take]

LEMMA TakenElsewhere ==
    ASSUME NEW a, NEW e, a # e, NEW q, NEW b, NEW m \in Seq(Nat), DOMAIN m = DOMAIN b,
           InOrder(e, q, b, m), NEW i \in DOMAIN b, b[i].asset = a, NEW take
    PROVE  InOrder(e, q, b, Taken(m, i, take))
<1> PICK d : d = Taken(m, i, take)
  OBVIOUS
<1>1. \A j \in DOMAIN b : b[j].asset = e => d[j] = m[j]
  BY DEF Taken
<1>2. \A j \in DOMAIN b : b[j].asset = e => Rest(b, d, j) = Rest(b, m, j)
  BY <1>1 DEF Rest
<1>3. InOrder(e, q, b, d)
  BY <1>1, <1>2 DEF InOrder
<1> QED BY <1>3

LEMMA TakenInOrder ==
    ASSUME NEW a, NEW q \in Seq(Lot), q # <<>>, NEW b \in Seq(Purchase), NEW m \in Seq(Nat),
           Len(m) = Len(b), InOrder(a, q, b, m), NEW take \in Nat, NEW r \in Seq(Lot),
           \/ /\ q[1].left - take <= Tolerance /\ Len(r) = Len(q) - 1
              /\ \A k \in 1..Len(r) : r[k] = q[k + 1]
           \/ /\ Len(r) = Len(q) /\ r[1] = [id |-> q[1].id, left |-> q[1].left - take]
              /\ \A k \in 2..Len(r) : r[k] = q[k]
    PROVE  InOrder(a, r, b, Taken(m, q[1].id, take))
<1> PICK d : d = Taken(m, q[1].id, take)
  OBVIOUS
<1> PICK h : h = q[1].id
  OBVIOUS
<1> PICK n \in Nat : n = Len(b)
  OBVIOUS
<1> PICK p \in Nat : p = Len(q)
  OBVIOUS
<1>1. p >= 1 /\ DOMAIN q = 1..p /\ DOMAIN b = 1..n /\ DOMAIN m = 1..n /\ 1 \in 1..p
  OBVIOUS
<1>2. /\ \A k \in 1..p :
             /\ q[k].id \in 1..n /\ b[q[k].id].asset = a /\ q[k].left = Rest(b, m, q[k].id)
             /\ k # 1 => m[q[k].id] = 0
      /\ \A j, k \in 1..p : j < k => q[j].id < q[k].id
      /\ \A i \in 1..n : \/ b[i].asset # a
                         \/ \E k \in 1..p : q[k].id = i
                         \/ Rest(b, m, i) <= Tolerance /\ \A k \in 1..p : i < q[k].id
  BY <1>1 DEF InOrder
<1>3. h \in 1..n /\ d[h] = m[h] + take /\ \A i \in 1..n : i # h => d[i] = m[i]
  BY <1>1, <1>2 DEF Taken
<1>4. \A i \in 1..n : i # h => Rest(b, d, i) = Rest(b, m, i)
  BY <1>3 DEF Rest
<1>5. Rest(b, d, h) = q[1].left - take
  <2>1. b[h].qty \in Nat /\ m[h] \in Nat /\ q[1].left = b[h].qty - m[h]
    <3>1. b[h] \in Purchase /\ m[h] \in Nat
      BY <1>1, <1>3
    <3>2. q[1].left = Rest(b, m, h)
      BY <1>1, <1>2
    <3> QED BY <3>1, <3>2 DEF Rest, Purchase
  <2> QED BY <2>1, <1>3 DEF Rest
<1>6. \A k \in 2..p : q[k].id # h /\ h < q[k].id
  BY <1>1, <1>2
<1>7. ASSUME NEW t \in Nat, DOMAIN r = 1..t,
             \A k \in 1..t :
                 /\ r[k].id \in 1..n /\ b[r[k].id].asset = a /\ r[k].left = Rest(b, d, r[k].id)
                 /\ k # 1 => d[r[k].id] = 0,
             \A j, k \in 1..t : j < k => r[j].id < r[k].id,
             \A i \in 1..n : \/ b[i].asset # a
                             \/ \E k \in 1..t : r[k].id = i
                             \/ Rest(b, d, i) <= Tolerance /\ \A k \in 1..t : i < r[k].id
      PROVE  InOrder(a, r, b, d)
  BY <1>7, <1>1, Zenon DEF InOrder
<1>8. CASE Len(r) = Len(q) - 1 /\ q[1].left - take <= Tolerance
           /\ \A k \in 1..Len(r) : r[k] = q[k + 1]
  <2>0. p - 1 \in Nat
    BY <1>1
  <2> PICK t \in Nat : t = p - 1
    BY <2>0
  <2>1. DOMAIN r = 1..t /\ \A k \in 1..t : r[k] = q[k + 1] /\ k + 1 \in 2..p /\ k + 1 \in 1..p
    BY <1>8
  <2>2. \A k \in 1..t :
            /\ r[k].id \in 1..n /\ b[r[k].id].asset = a /\ r[k].left = Rest(b, d, r[k].id)
            /\ k # 1 => d[r[k].id] = 0
    <3> TAKE k \in 1..t
    <3> PICK l \in 2..p : l = k + 1 /\ l \in 1..p /\ l # 1
      BY <2>1
    <3>1. r[k] = q[l]
      BY <2>1
    <3>2. q[l].id \in 1..n /\ q[l].id # h
      BY <1>2, <1>6
    <3>3. b[q[l].id].asset = a /\ q[l].left = Rest(b, d, q[l].id) /\ d[q[l].id] = 0
      BY <3>2, <1>2, <1>3, <1>4
    <3> QED BY <3>1, <3>2, <3>3
  <2>3. ASSUME NEW j \in 1..t, NEW k \in 1..t, j < k PROVE r[j].id < r[k].id
    <3>1. j + 1 \in 1..p /\ k + 1 \in 1..p /\ j + 1 < k + 1
      BY <2>1, <2>3
    <3> QED BY <3>1, <2>1, <1>2
  <2>4. ASSUME NEW i \in 1..n
        PROVE  \/ b[i].asset # a
               \/ \E k \in 1..t : r[k].id = i
               \/ Rest(b, d, i) <= Tolerance /\ \A k \in 1..t : i < r[k].id
    <3>1. CASE i = h
      BY <3>1, <2>1, <1>5, <1>6, <1>8
    <3>2. CASE i # h /\ \E k \in 1..p : q[k].id = i
      <4>1. PICK k \in 1..p : q[k].id = i
        BY <3>2
      <4>2. k - 1 \in 1..t /\ (k - 1) + 1 = k
        BY <4>1, <3>2, k # 1
      <4>3. r[k - 1].id = i
        BY <4>1, <4>2, <2>1
      <4> QED BY <4>2, <4>3
    <3>3. CASE i # h /\ Rest(b, m, i) <= Tolerance /\ \A k \in 1..p : i < q[k].id
      BY <3>3, <2>1, <1>4
    <3> QED BY <3>1, <3>2, <3>3, <1>2
  <2>5. InOrder(a, r, b, d)
    BY <2>1, <2>2, <2>3, <2>4, <1>7
  <2> QED BY <2>5
<1>9. CASE /\ Len(r) = Len(q) /\ r[1] = [id |-> q[1].id, left |-> q[1].left - take]
           /\ \A k \in 2..Len(r) : r[k] = q[k]
  <2>1. /\ DOMAIN r = 1..p /\ r[1].id = h /\ r[1].left = q[1].left - take
        /\ \A k \in 1..p : r[k].id = q[k].id /\ (k # 1 => r[k] = q[k])
    BY <1>9, <1>1
  <2>2. ASSUME NEW k \in 1..p
        PROVE  /\ r[k].id \in 1..n /\ b[r[k].id].asset = a /\ r[k].left = Rest(b, d, r[k].id)
               /\ k # 1 => d[r[k].id] = 0
    <3>1. CASE k = 1
      BY <3>1, <2>1, <1>2, <1>3, <1>5
    <3>2. CASE k # 1
      <4>1. k \in 2..p
        BY <3>2
      <4> QED BY <3>2, <4>1, <2>1, <1>2, <1>3, <1>4, <1>6
    <3> QED BY <3>1, <3>2
  <2>3. \A j, k \in 1..p : j < k => r[j].id < r[k].id
    BY <2>1, <1>2
  <2>4. ASSUME NEW i \in 1..n
        PROVE  \/ b[i].asset # a
               \/ \E k \in 1..p : r[k].id = i
               \/ Rest(b, d, i) <= Tolerance /\ \A k \in 1..p : i < r[k].id
    <3>1. CASE i = h
      BY <3>1, <2>1, <1>1
    <3>2. CASE i # h
      BY <3>2, <2>1, <1>2, <1>4
    <3> QED BY <3>1, <3>2
  <2>5. InOrder(a, r, b, d)
    BY <2>1, <2>2, <2>3, <2>4, <1>7
  <2> QED BY <2>5
<1> QED BY <1>8, <1>9

\* The queue after its head is taken from.
Remainder(q, left) ==
    (IF left <= Tolerance THEN <<>> ELSE <<[id |-> q[1].id, left |-> left]>>) \o Tail(q)

Shortened(r, q, left) ==
    /\ r \in Seq(Lot)
    /\ \/ /\ left <= Tolerance /\ Len(r) = Len(q) - 1
          /\ \A k \in 1..Len(r) : r[k] = q[k + 1]
       \/ /\ Len(r) = Len(q) /\ r[1] = [id |-> q[1].id, left |-> left]
          /\ \A k \in 2..Len(r) : r[k] = q[k]

\* Taking from the head leaves it shorter by a lot, or with a smaller first lot.
LEMMA HeadTaken ==
    ASSUME NEW q \in Seq(Lot), q # <<>>, NEW left \in Int, NEW r, r = Remainder(q, left)
    PROVE  Shortened(r, q, left)
<1> USE DEF Remainder, Shortened
<1> PICK t : t = Tail(q)
  OBVIOUS
<1> PICK p \in Nat : p = Len(q)
  OBVIOUS
<1>1. /\ t \in Seq(Lot) /\ p >= 1 /\ Len(t) = p - 1 /\ \A k \in 1..(p - 1) : t[k] = q[k + 1]
      /\ q[1] \in Lot
  BY HeadTailProperties
<1>2. CASE left <= Tolerance
  <2>1. r = t
    BY <1>2, <1>1, ConcatEmptySeq
  <2> QED BY <2>1, <1>1, <1>2
<1>3. CASE ~(left <= Tolerance)
  <2> PICK h : h = [id |-> q[1].id, left |-> left]
    OBVIOUS
  <2>1. r = <<h>> \o t
    BY <1>3
  <2>2. h \in Lot
    BY <1>1, <1>3, TaxBounds DEF Lot
  <2>3. <<h>> \in Seq(Lot) /\ Len(<<h>>) = 1 /\ <<h>>[1] = h
    BY <2>2
  <2>4. /\ r \in Seq(Lot) /\ Len(r) = 1 + (p - 1)
        /\ \A k \in 1..(1 + (p - 1)) : r[k] = IF k <= 1 THEN <<h>>[k] ELSE t[k - 1]
    BY <2>1, <2>3, <1>1, ConcatProperties
  <2>5. Len(r) = p
    BY <2>4
  <2>6. r[1] = h
    BY <2>3, <2>4, <1>1
  <2>7. ASSUME NEW k \in 2..p PROVE r[k] = q[k]
    <3>1. k \in 1..(1 + (p - 1)) /\ ~(k <= 1) /\ k - 1 \in 1..(p - 1) /\ (k - 1) + 1 = k
      OBVIOUS
    <3>2. r[k] = t[k - 1]
      BY <3>1, <2>4
    <3>3. t[k - 1] = q[(k - 1) + 1]
      BY <3>1, <1>1
    <3> QED BY <3>1, <3>2, <3>3
  <2> QED BY <2>4, <2>5, <2>6, <2>7
<1> QED BY <1>2, <1>3

LEMMA TaxTakes ==
    ASSUME TaxInv, NEW s \in sale, Tax!TakeHead(s) PROVE TaxInv'
<1> USE TaxBounds
<1>0a. PICK a : a = s.asset
  OBVIOUS
<1>0q. PICK q : q = lots[a]
  OBVIOUS
<1>0t. PICK take : take = Tax!Smaller(q[1].left, s.open)
  OBVIOUS
<1>0l. PICK left : left = q[1].left - take
  OBVIOUS
<1>0r. PICK r : r = (IF left <= Tolerance THEN <<>> ELSE <<[id |-> q[1].id, left |-> left]>>) \o Tail(q)
  OBVIOUS
<1>0p. PICK part1 : part1 = [id |-> q[1].id, qty |-> take]
  OBVIOUS
<1>1. /\ s \in Sale /\ a \in Assets /\ s.open \in Nat \ {0} /\ q \in Seq(Lot) /\ q # <<>>
      /\ q[1] = Head(q)
      /\ lots \in [Assets -> Seq(Lot)]
      /\ matched \in Seq(Nat) /\ bought \in Seq(Purchase) /\ Len(matched) = Len(bought)
  <2>1. /\ s \in Sale /\ lots \in [Assets -> Seq(Lot)] /\ matched \in Seq(Nat)
        /\ bought \in Seq(Purchase) /\ Len(matched) = Len(bought)
    BY DEF TaxInv, TaxTypes
  <2>2. s.open > 0 /\ lots[s.asset] # <<>>
    BY DEF Tax!TakeHead, Tax!Matching
  <2>3. a \in Assets /\ s.open \in Nat /\ q \in Seq(Lot) /\ q # <<>>
    BY <2>1, <2>2, <1>0a, <1>0q DEF Sale
  <2>4. q[1] = Head(q)
    BY <2>3
  <2> QED BY <2>1, <2>2, <2>3, <2>4
<1>2. /\ q[1] \in Lot /\ q[1].left \in Nat \ {0} /\ take \in Nat \ {0} /\ take <= s.open
      /\ take <= q[1].left /\ left \in Nat
  <2>1. q[1] \in Lot
    BY <1>1, HeadTailProperties
  <2>2. q[1].left \in Nat \ {0}
    BY <2>1 DEF Lot
  <2>3. take = IF q[1].left < s.open THEN q[1].left ELSE s.open
    BY <1>0t DEF Tax!Smaller
  <2> QED BY <2>1, <2>2, <2>3, <1>1, <1>0l
<1>3. /\ lots' = [lots EXCEPT ![a] = r] /\ matched' = Taken(matched, q[1].id, take)
      /\ sale' = {[s EXCEPT !.open = @ - take, !.parts = Append(@, part1)]}
      /\ UNCHANGED <<bought, month, fx, taxed, faults>>
  BY <1>1, <1>0a, <1>0q, <1>0t, <1>0l, <1>0r, <1>0p DEF Tax!TakeHead, Taken
<1>4. /\ r \in Seq(Lot)
      /\ \/ /\ q[1].left - take <= Tolerance /\ Len(r) = Len(q) - 1
            /\ \A k \in 1..Len(r) : r[k] = q[k + 1]
         \/ /\ Len(r) = Len(q) /\ r[1] = [id |-> q[1].id, left |-> q[1].left - take]
            /\ \A k \in 2..Len(r) : r[k] = q[k]
  <2>1. left \in Int
    BY <1>2
  <2>2. Shortened(r, q, left)
    <3>1. q \in Seq(Lot) /\ q # <<>>
      BY <1>1
    <3>2. r = Remainder(q, left)
      BY <1>0r, Zenon DEF Remainder
    <3> QED BY <2>1, <3>1, <3>2, HeadTaken, Zenon
  <2> QED BY <2>2, <1>0l, Zenon DEF Shortened
<1>5. InOrder(a, q, bought, matched) /\ 1 \in DOMAIN q
  <2>1. InOrder(a, q, bought, matched)
    BY <1>1, <1>0q DEF TaxInv, TaxQueues
  <2> QED BY <2>1, <1>1
<1>6. /\ q[1].id \in DOMAIN bought /\ bought[q[1].id].asset = a
      /\ q[1].left = bought[q[1].id].qty - matched[q[1].id]
  BY <1>5 DEF InOrder, Rest
<1>7. lots' \in [Assets -> Seq(Lot)] /\ lots'[a] = r /\ \A b \in Assets \ {a} : lots'[b] = lots[b]
  BY <1>1, <1>3, <1>4
<1>8. /\ matched' \in Seq(Nat) /\ Len(matched') = Len(bought)
      /\ matched'[q[1].id] = matched[q[1].id] + take
      /\ \A i \in DOMAIN bought : i # q[1].id => matched'[i] = matched[i]
      /\ DOMAIN matched = DOMAIN bought
  BY <1>1, <1>2, <1>3, <1>6 DEF Taken
<1>9. \A b \in Assets : InOrder(b, lots'[b], bought, matched')
  <2> TAKE b \in Assets
  <2>1. CASE b = a
    <3>1. InOrder(a, r, bought, Taken(matched, q[1].id, take))
      BY <1>1, <1>2, <1>4, <1>5, TakenInOrder
    <3> QED BY <3>1, <2>1, <1>3, <1>7
  <2>2. CASE b # a
    <3>1. InOrder(b, lots[b], bought, matched)
      BY DEF TaxInv, TaxQueues
    <3>2. InOrder(b, lots[b], bought, Taken(matched, q[1].id, take))
      BY <3>1, <2>2, <1>1, <1>6, <1>8, TakenElsewhere
    <3> QED BY <3>2, <2>2, <1>3, <1>7
  <2> QED BY <2>1, <2>2
<1>10. TaxQueues'
  <2>1. ASSUME NEW i \in DOMAIN bought PROVE matched'[i] <= bought[i].qty
    <3>1. bought[i].qty \in Nat /\ matched[i] \in Nat
      <4>1. bought[i] \in Purchase /\ i \in DOMAIN matched
        BY <1>1, <1>8
      <4> QED BY <4>1, <1>1 DEF Purchase
    <3>2. CASE i = q[1].id
      BY <3>1, <3>2, <1>2, <1>6, <1>8
    <3>3. CASE i # q[1].id
      BY <3>3, <1>8 DEF TaxInv, TaxQueues
    <3> QED BY <3>2, <3>3
  <2> QED BY <2>1, <1>3, <1>9 DEF TaxQueues
<1>0o. PICK one : one = [s EXCEPT !.open = @ - take, !.parts = Append(@, part1)]
  OBVIOUS
<1>11. /\ one \in Sale /\ one.open <= one.qty /\ one.asked = s.asked
       /\ \A k \in DOMAIN one.parts : one.parts[k].id <= Len(bought)
  <2>1. part1 \in Part /\ part1.id <= Len(bought)
    BY <1>1, <1>2, <1>6, <1>0p DEF Part, Lot
  <2>2. s.open <= s.qty /\ \A k \in DOMAIN s.parts : s.parts[k].id <= Len(bought)
    BY DEF TaxInv, TaxTypes
  <2>3. s.parts \in Seq(Part) /\ s.open \in Nat /\ s.qty \in Nat
    BY <1>1 DEF Sale
  <2>4. /\ one.parts = Append(s.parts, part1) /\ one.open = s.open - take /\ one.asset = s.asset
        /\ one.qty = s.qty /\ one.asked = s.asked
        /\ one = [asset |-> s.asset, qty |-> s.qty, open |-> s.open - take,
                  parts |-> Append(s.parts, part1), asked |-> s.asked]
    BY <1>1, <1>0o DEF Sale
  <2>5. s.open - take \in Nat /\ s.open - take <= s.qty
    BY <2>2, <2>3, <1>2
  <2>6. /\ Append(s.parts, part1) \in Seq(Part)
        /\ \A k \in DOMAIN Append(s.parts, part1) : Append(s.parts, part1)[k].id <= Len(bought)
    BY <2>1, <2>2, <2>3
  <2>7. one \in Sale
    BY <2>4, <2>5, <2>6, <1>1 DEF Sale
  <2> QED BY <2>4, <2>5, <2>6, <2>7
<1>12. TaxTypes'
  BY <1>3, <1>7, <1>8, <1>11, <1>0o DEF TaxInv, TaxTypes
<1>13. TaxRates'
  BY <1>3, <1>11, <1>0o DEF TaxInv, TaxRates, RatedBy, Rated
<1>14. TaxCovers'
  <2>1. /\ sale' = {one} /\ one.asked = {} /\ one.asset = a /\ one.open = s.open - take
    <3>1. s.asked = {}
      BY <1>1 DEF TaxInv, TaxCovers, Tax!TakeHead, Tax!Matching
    <3>2. one.asset = s.asset /\ one.open = s.open - take /\ one.asked = s.asked
      BY <1>1, <1>0o DEF Sale
    <3> QED BY <3>1, <3>2, <1>3, <1>0a, <1>0o
  <2>2. ASSUME one.open > 0 PROVE Tax!Total(r) >= one.open - Tolerance
    <3>1. take = q[1].left /\ left = 0
      <4>1. take = q[1].left
        BY <2>1, <2>2, <1>0t, <1>1 DEF Tax!Smaller
      <4> QED BY <4>1, <1>0l, <1>2
    <3>2. r = Tail(q)
      <4>1. left <= Tolerance
        BY <3>1, TaxBounds
      <4>2. Tail(q) \in Seq(Lot)
        BY <1>1, HeadTailProperties
      <4> QED BY <4>1, <4>2, <1>0r, ConcatEmptySeq
    <3>3. Tax!Total(q) = q[1].left + Tax!Total(r)
      BY <3>2, <1>1, TotalOfRest
    <3>4. Tax!Total(q) >= s.open - Tolerance
      <4>1. s.open > 0
        BY <1>1
      <4>2. Tax!Total(lots[s.asset]) >= s.open - Tolerance
        BY <4>1, Zenon DEF TaxInv, TaxCovers
      <4> QED BY <4>2, <1>0a, <1>0q, Zenon
    <3>5. Tax!Total(r) \in Int /\ Tax!Total(q) \in Int
      BY <1>1, <1>4, TotalIsInt
    <3> QED BY <3>1, <3>3, <3>4, <3>5, <2>1, <1>1, <1>2, TaxBounds
  <2> QED BY <2>1, <2>2, <1>7 DEF TaxCovers
<1> QED BY <1>10, <1>12, <1>13, <1>14 DEF TaxInv

LEMMA TaxMatches ==
    ASSUME TaxInv, NEW a \in Assets, NEW qty \in Quantities, Tax!MatchSell(a, qty) PROVE TaxInv'
<1>0. PICK one : one = [asset |-> a, qty |-> qty, open |-> qty, parts |-> <<>>, asked |-> {}]
  OBVIOUS
<1>1. /\ sale' = {one} /\ qty \in Nat \ {0}
      /\ UNCHANGED <<lots, bought, matched, month, fx, taxed, faults>>
  BY <1>0, TaxBounds DEF Tax!MatchSell
<1>2. one \in Sale /\ one.open = one.qty /\ one.parts = <<>> /\ one.asked = {}
  BY <1>0, <1>1 DEF Sale
<1>3. TaxTypes'
  BY <1>1, <1>2 DEF TaxInv, TaxTypes, Sale
<1>4. TaxQueues' /\ TaxRates'
  BY <1>1, <1>2 DEF TaxInv, TaxQueues, TaxRates, RatedBy, Rated
<1>5. TaxCovers'
  <2>1. Tax!Total(lots[a]) >= qty - Tolerance /\ one.asset = a /\ one.open = qty
    BY <1>0 DEF Tax!MatchSell, Tax!Held
  <2> QED BY <2>1, <1>1, <1>2 DEF TaxCovers
<1> QED BY <1>3, <1>4, <1>5 DEF TaxInv

LEMMA TaxAsks == ASSUME TaxInv, NEW s \in sale, Tax!AskRate(s) PROVE TaxInv'
<1>0. PICK one : one = [s EXCEPT !.asked = {month}]
  OBVIOUS
<1>1. sale' = {one} /\ UNCHANGED <<lots, bought, matched, month, fx, taxed, faults>>
  BY <1>0 DEF Tax!AskRate
<1>2. s \in Sale /\ month \in 0..MaxMonth /\ s.open <= s.qty
      /\ \A k \in DOMAIN s.parts : s.parts[k].id <= Len(bought)
  BY DEF TaxInv, TaxTypes
<1>3. /\ one \in Sale /\ one.open = s.open /\ one.qty = s.qty /\ one.parts = s.parts
      /\ one.asked = {month}
  BY <1>0, <1>2 DEF Sale
<1>4. TaxTypes'
  BY <1>1, <1>2, <1>3 DEF TaxInv, TaxTypes
<1>5. TaxQueues'
  BY <1>1 DEF TaxInv, TaxQueues
<1>6. TaxRates'
  BY <1>1, <1>2, <1>3, TaxBounds DEF TaxInv, TaxRates, RatedBy, Rated
<1>7. TaxCovers'
  <2>1. one.asset = s.asset /\ ~Tax!Matching(s)
    BY <1>0, <1>2 DEF Sale, Tax!AskRate
  <2> QED BY <2>1, <1>1, <1>3 DEF TaxInv, TaxCovers, Tax!Matching
<1> QED BY <1>4, <1>5, <1>6, <1>7 DEF TaxInv

\* Events: of a sale that asked for the rate of month m, with the rates there are
\* by then.
LEMMA TaxRecords ==
    ASSUME TaxInv, NEW s \in sale, NEW m \in 0..MaxMonth, Tax!Asking(s, m),
           NEW from \in 0..MaxMonth, from <= m, fx'[from] # 0,
           \A n \in DOMAIN fx : from < n /\ n < m => fx'[n] = 0,
           fx' \in [0..MaxMonth -> Nat],
           \A n \in DOMAIN fx : fx'[n] = fx[n] \/ (fx[n] = 0 /\ n = m),
           taxed' = Append(taxed, Tax!Event(s, m, from, fx')), sale' = {},
           faults' \in 0..TaxFaults,
           UNCHANGED <<lots, bought, matched, month>>
    PROVE  TaxInv'
<1>0. PICK e : e = Tax!Event(s, m, from, fx')
  OBVIOUS
<1>1. /\ s \in Sale /\ m \in s.asked /\ m <= month /\ RatedBy(m) /\ month \in 0..MaxMonth
      /\ MaxMonth \in Nat /\ fx \in [0..MaxMonth -> Nat] /\ taxed \in Seq(TaxEvent)
  BY TaxBounds DEF TaxInv, TaxTypes, TaxRates, Tax!Asking
<1>2. /\ e.from = from /\ e.month = m /\ e.rate = fx'[from] /\ e.fy = Tax!FyYear(m)
      /\ e = [asset |-> s.asset, qty |-> s.qty, parts |-> s.parts, month |-> m,
              fy |-> Tax!FyYear(m), from |-> from, rate |-> fx'[from]]
  BY <1>0 DEF Tax!Event
<1>3. Tax!FyYear(m) \in Int
  BY <1>1 DEF Tax!FyYear
<1>4. s.asset \in Assets /\ s.qty \in Nat \ {0} /\ s.parts \in Seq(Part) /\ fx'[from] \in Nat \ {0}
  BY <1>1 DEF Sale
<1>5. e \in TaxEvent
  BY <1>2, <1>3, <1>4 DEF TaxEvent
<1> PICK n \in Nat : n = Len(taxed)
  BY <1>1
<1>6. /\ taxed' \in Seq(TaxEvent) /\ DOMAIN taxed = 1..n /\ DOMAIN taxed' = 1..(n + 1)
      /\ taxed'[n + 1] = e /\ \A k \in 1..n : taxed'[k] = taxed[k]
  BY <1>0, <1>1, <1>5
<1>7. TaxTypes'
  BY <1>6 DEF TaxInv, TaxTypes
<1>8. TaxQueues'
  BY DEF TaxInv, TaxQueues
<1>9. Rated(e)'
  BY <1>1, <1>2 DEF Rated
<1>10. ASSUME NEW k \in 1..n PROVE Rated(taxed[k])'
  <2>0. k \in DOMAIN taxed /\ taxed[k] \in TaxEvent
    BY <1>1, <1>6
  <2>1. /\ Rated(taxed[k]) /\ taxed[k].month <= m /\ taxed[k] \in TaxEvent
    BY <2>0, <1>1 DEF TaxInv, TaxRates, RatedBy
  <2>2. /\ taxed[k].from \in 0..MaxMonth /\ taxed[k].rate # 0 /\ taxed[k].month \in 0..MaxMonth
    BY <2>1 DEF TaxEvent
  <2>3. fx'[taxed[k].from] = taxed[k].rate
    BY <2>1, <2>2, <1>1 DEF Rated
  <2>4. \A j \in DOMAIN fx' : taxed[k].from < j /\ j < taxed[k].month => fx'[j] = 0
    <3> SUFFICES ASSUME NEW j \in 0..MaxMonth, taxed[k].from < j, j < taxed[k].month
                 PROVE  fx'[j] = 0
      OBVIOUS
    <3>1. fx[j] = 0
      BY <2>1, <1>1 DEF Rated
    <3>2. j # m
      BY <2>1, <2>2, <1>1
    <3> QED BY <3>1, <3>2, <1>1
  <2> QED BY <2>1, <2>3, <2>4 DEF Rated
<1>11. RatedBy(month)'
  <2>1. ASSUME NEW j \in DOMAIN fx', fx'[j] # 0 PROVE j <= month
    <3>1. j \in DOMAIN fx /\ (fx'[j] = fx[j] \/ j = m)
      BY <1>1
    <3> QED BY <2>1, <3>1, <1>1 DEF RatedBy, TaxInv, TaxRates
  <2>2. ASSUME NEW k \in 1..(n + 1) PROVE taxed'[k].month <= month
    <3>1. CASE k = n + 1
      BY <3>1, <1>1, <1>2, <1>6
    <3>2. CASE k \in 1..n
      BY <3>2, <1>6 DEF RatedBy, TaxInv, TaxRates
    <3> QED BY <3>1, <3>2
  <2> QED BY <2>1, <2>2, <1>6 DEF RatedBy
<1>12. TaxRates'
  BY <1>6, <1>9, <1>10, <1>11 DEF TaxRates
<1> QED BY <1>7, <1>8, <1>12 DEF TaxInv, TaxCovers

LEMMA TaxAnswers ==
    ASSUME TaxInv, NEW s \in sale, NEW m \in 0..MaxMonth,
           \/ Tax!Cached(s, m) \/ Tax!Lost(s, m)
           \/ \E rate \in Rates : Tax!Fetched(s, m, rate)
           \/ \E old \in 0..MaxMonth : Tax!Stale(s, m, old)
    PROVE  TaxInv'
<1>1. /\ fx \in [0..MaxMonth -> Nat] /\ faults \in 0..TaxFaults /\ MaxMonth \in Nat
      /\ m \in Nat /\ TaxFaults \in Nat
  BY TaxBounds DEF TaxInv, TaxTypes
<1>2. Tax!Asking(s, m) /\ sale' = {} /\ UNCHANGED <<lots, bought, matched, month>>
  BY DEF Tax!Cached, Tax!Lost, Tax!Fetched, Tax!Stale, Tax!Record
<1>3. Tax!Asking(s, m) => RatedBy(m)
  BY DEF Tax!Asking, TaxInv, TaxRates
<1>4. CASE Tax!Cached(s, m)
  <2>1. /\ fx' = fx /\ fx'[m] # 0 /\ taxed' = Append(taxed, Tax!Event(s, m, m, fx'))
        /\ faults' \in 0..TaxFaults
    BY <1>1, <1>4 DEF Tax!Cached, Tax!Record, Tax!Event
  <2>2. m <= m /\ \A n \in DOMAIN fx : m < n /\ n < m => fx'[n] = 0
    BY <1>1
  <2> QED BY <2>1, <2>2, <1>1, <1>2, TaxRecords
<1>5. ASSUME NEW rate \in Rates, Tax!Fetched(s, m, rate) PROVE TaxInv'
  <2>1. /\ fx' = [fx EXCEPT ![m] = rate] /\ fx[m] = 0 /\ faults' \in 0..TaxFaults
        /\ taxed' = Append(taxed, Tax!Event(s, m, m, fx'))
    BY <1>1, <1>5 DEF Tax!Fetched, Tax!Event
  <2>2. /\ fx' \in [0..MaxMonth -> Nat] /\ fx'[m] # 0
        /\ \A n \in DOMAIN fx : fx'[n] = fx[n] \/ (fx[n] = 0 /\ n = m)
    BY <1>1, <2>1, TaxBounds
  <2>3. m <= m /\ \A n \in DOMAIN fx : m < n /\ n < m => fx'[n] = 0
    BY <1>1
  <2> QED BY <2>1, <2>2, <2>3, <1>2, TaxRecords
<1>6. ASSUME NEW old \in 0..MaxMonth, Tax!Stale(s, m, old) PROVE TaxInv'
  <2>1. /\ fx' = fx /\ faults' \in 0..TaxFaults /\ Tax!Newest(old)
        /\ taxed' = Append(taxed, Tax!Event(s, m, old, fx'))
    BY <1>1, <1>6 DEF Tax!Stale, Tax!Record, Tax!Fault, Tax!Event
  <2>2. fx[old] # 0 /\ \A n \in DOMAIN fx : old < n /\ n < m => fx[n] = 0
    BY <2>1, <1>1 DEF Tax!Newest
  <2>3. old <= m
    BY <2>2, <1>1, <1>2, <1>3 DEF RatedBy
  <2> QED BY <2>1, <2>2, <2>3, <1>1, <1>2, TaxRecords
<1>7. CASE Tax!Lost(s, m)
  <2>1. fx' = fx /\ taxed' = taxed /\ faults' \in 0..TaxFaults
    BY <1>1, <1>7 DEF Tax!Lost, Tax!Fault
  <2> QED BY <2>1, <1>2 DEF TaxInv, TaxTypes, TaxQueues, TaxRates, TaxCovers, RatedBy, Rated
<1> QED BY <1>4, <1>5, <1>6, <1>7

LEMMA TaxStep == ASSUME TaxInv, Tax!Next PROVE TaxInv'
<1>1. CASE Tax!PassTime
  <2>1. month' = month + 1 /\ month \in 0..MaxMonth /\ month < MaxMonth /\ MaxMonth \in Nat
        /\ UNCHANGED <<lots, bought, matched, sale, fx, taxed, faults>>
    BY <1>1, TaxBounds DEF Tax!PassTime, TaxInv, TaxTypes
  <2>2. TaxTypes' /\ TaxQueues'
    BY <2>1 DEF TaxInv, TaxTypes, TaxQueues
  <2>3. RatedBy(month)'
    <3>1. \A n \in DOMAIN fx : n \in Nat
      BY <2>1 DEF TaxInv, TaxTypes
    <3>2. \A k \in DOMAIN taxed : taxed[k].month \in Nat
      <4>1. \A k \in DOMAIN taxed : taxed[k] \in TaxEvent
        BY DEF TaxInv, TaxTypes
      <4> QED BY <4>1, <2>1 DEF TaxEvent
    <3> QED BY <3>1, <3>2, <2>1 DEF TaxInv, TaxRates, RatedBy
  <2>4. TaxRates'
    BY <2>1, <2>3 DEF TaxInv, TaxRates, RatedBy, Rated
  <2>5. TaxCovers'
    BY <2>1 DEF TaxInv, TaxCovers, Tax!Matching
  <2> QED BY <2>2, <2>4, <2>5 DEF TaxInv
<1> QED BY <1>1, TaxBuys, TaxMatches, TaxTakes, TaxAsks, TaxAnswers DEF Tax!Next

LEMMA TaxMoves ==
    ASSUME [Next]_vars
    PROVE  /\ UNCHANGED part
           /\ part = "tax" => Tax!Next \/ UNCHANGED vars
           /\ (part = "tax" /\ Tax!Next) \/ UNCHANGED taxOnly
  BY DEF Next, TaskNext, DeskNext, vars, tasksOnly, deskOnly

TaxHold == part = "tax" => TaxInv

LEMMA TaxStays == Spec => []TaxHold
<1>1. Init => TaxHold
  BY TaxStart DEF Init, TaxHold
<1>2. TaxHold /\ [Next]_vars => TaxHold'
<2> SUFFICES ASSUME TaxHold, [Next]_vars, part = "tax" PROVE TaxInv'
  BY TaxMoves DEF TaxHold
<2>1. CASE Tax!Next
  BY <2>1, TaxStep DEF TaxHold
<2>2. CASE UNCHANGED vars
  <3>1. UNCHANGED <<taxOnly, faults>> /\ TaxInv
    BY <2>2 DEF vars, deskOnly, TaxHold
  <3>2. TaxTypes'
    BY <3>1 DEF TaxInv, TaxTypes, taxOnly
  <3>3. TaxQueues' /\ TaxRates' /\ TaxCovers'
    BY <3>1 DEF TaxInv, TaxQueues, TaxRates, TaxCovers, Tax!Matching, RatedBy, Rated, taxOnly
  <3> QED
    BY <3>2, <3>3 DEF TaxInv
<2> QED
  BY <2>1, <2>2, TaxMoves
<1> QED
  BY <1>1, <1>2, PTL DEF Spec

\* An Indian year begins nine months before the calendar's next.
LEMMA AprilBegins ==
    ASSUME NEW m \in Nat PROVE Tax!FyYear(m) = ((m + 9) \div 12) - 1
<1> PICK q \in Nat : q = m \div 12
  OBVIOUS
<1> PICK r \in 0..11 : r = m % 12
  OBVIOUS
<1>1. m = 12 * q + r
  OBVIOUS
<1>2. CASE r >= 3
  <2>1. m + 9 = 12 * (q + 1) + (r - 3) /\ r - 3 \in 0..11
    BY <1>1, <1>2
  <2>2. (m + 9) \div 12 = q + 1
    BY <2>1
  <2> QED BY <1>2, <2>2 DEF Tax!FyYear
<1>3. CASE r < 3
  <2>1. m + 9 = 12 * q + (r + 9) /\ r + 9 \in 0..11
    BY <1>1, <1>3
  <2>2. (m + 9) \div 12 = q
    BY <2>1
  <2> QED BY <1>3, <2>2 DEF Tax!FyYear
<1> QED BY <1>2, <1>3

LEMMA TaxIsHonest ==
    ASSUME TaxInv
    PROVE  /\ Tax!TypeOK /\ Tax!FirstInFirstOut /\ Tax!QueueIsTheRest /\ Tax!SaleIsCovered
           /\ Tax!RateOfItsTime
<1>1. /\ \A a \in Assets : InOrder(a, lots[a], bought, matched)
      /\ bought \in Seq(Purchase) /\ matched \in Seq(Nat) /\ DOMAIN matched = DOMAIN bought
      /\ \A i \in DOMAIN bought : matched[i] <= bought[i].qty
      /\ lots \in [Assets -> Seq(Lot)]
  BY DEF TaxInv, TaxQueues, TaxTypes
<1>2. \A i \in DOMAIN bought : bought[i] \in Purchase /\ bought[i].asset \in Assets /\ i \in Nat
  <2>1. \A i \in DOMAIN bought : bought[i] \in Purchase /\ i \in Nat
    BY <1>1
  <2> QED BY <2>1 DEF Purchase
<1>3. Tax!FirstInFirstOut
  <2> SUFFICES ASSUME NEW i \in DOMAIN bought, NEW j \in DOMAIN bought,
                      i < j, bought[i].asset = bought[j].asset, matched[j] > 0
               PROVE  bought[i].qty - matched[i] <= Tolerance
    BY <1>1 DEF Tax!FirstInFirstOut
  <2>0. PICK a \in Assets : a = bought[i].asset
    BY <1>2
  <2>1. PICK q \in Seq(Lot) : q = lots[a]
    BY <1>1
  <2>2. InOrder(a, q, bought, matched)
    BY <1>1, <2>1
  <2>3. ASSUME NEW k \in DOMAIN q, q[k].id = i PROVE FALSE
    <3>1. CASE \E l \in DOMAIN q : q[l].id = j
      <4>1. PICK l \in DOMAIN q : q[l].id = j
        BY <3>1
      <4>2. l = 1
        BY <2>2, <4>1 DEF InOrder
      <4>3. k \in Nat \ {0}
        BY <2>1
      <4>4. l < k \/ l = k
        BY <4>2, <4>3
      <4>5. i \in Nat /\ j \in Nat
        BY <1>2
      <4> QED BY <4>1, <4>4, <4>5, <2>2, <2>3 DEF InOrder
    <3>2. CASE ~\E l \in DOMAIN q : q[l].id = j
      <4>1. j < q[k].id
        BY <3>2, <2>0, <2>2 DEF InOrder
      <4> QED BY <4>1, <2>3, <1>2
    <3> QED BY <3>1, <3>2
  <2> QED BY <2>0, <2>2, <2>3 DEF InOrder, Rest
<1>4. Tax!QueueIsTheRest
  <2> SUFFICES ASSUME NEW i \in DOMAIN bought
               PROVE  \/ \E k \in DOMAIN lots[bought[i].asset] :
                             /\ lots[bought[i].asset][k].id = i
                             /\ lots[bought[i].asset][k].left = bought[i].qty - matched[i]
                      \/ /\ bought[i].qty - matched[i] <= Tolerance
                         /\ \A a \in Assets : \A k \in DOMAIN lots[a] : lots[a][k].id # i
    BY DEF Tax!QueueIsTheRest
  <2>0. PICK a \in Assets : a = bought[i].asset
    BY <1>2
  <2>1. InOrder(a, lots[a], bought, matched)
    BY <1>1
  <2>2. CASE \E k \in DOMAIN lots[a] : lots[a][k].id = i
    BY <2>0, <2>1, <2>2 DEF InOrder, Rest
  <2>3. CASE ~\E k \in DOMAIN lots[a] : lots[a][k].id = i
    <3>1. bought[i].qty - matched[i] <= Tolerance
      BY <2>0, <2>1, <2>3 DEF InOrder, Rest
    <3>2. \A b \in Assets : \A k \in DOMAIN lots[b] : lots[b][k].id # i
      BY <2>0, <2>3, <1>1 DEF InOrder
    <3> QED BY <3>1, <3>2
  <2> QED BY <2>2, <2>3
<1>5. Tax!RateOfItsTime
  <2>1. \A k \in DOMAIN taxed : Rated(taxed[k]) /\ taxed[k].month \in Nat
    <3>1. \A k \in DOMAIN taxed : taxed[k] \in TaxEvent
      BY DEF TaxInv, TaxTypes
    <3> QED BY <3>1, TaxBounds DEF TaxInv, TaxRates, TaxEvent
  <2>2. \A j, k \in DOMAIN taxed :
            taxed[j].fy = taxed[k].fy <=>
                (taxed[j].month + 9) \div 12 = (taxed[k].month + 9) \div 12
    <3> SUFFICES ASSUME NEW j \in DOMAIN taxed, NEW k \in DOMAIN taxed
                 PROVE  taxed[j].fy = taxed[k].fy <=>
                            (taxed[j].month + 9) \div 12 = (taxed[k].month + 9) \div 12
      OBVIOUS
    <3>1. /\ taxed[j].fy = ((taxed[j].month + 9) \div 12) - 1
          /\ taxed[k].fy = ((taxed[k].month + 9) \div 12) - 1
      BY <2>1, AprilBegins DEF Rated
    <3>2. (taxed[j].month + 9) \div 12 \in Int /\ (taxed[k].month + 9) \div 12 \in Int
      BY <2>1
    <3> QED BY <3>1, <3>2
  <2> QED BY <2>1, <2>2 DEF Tax!RateOfItsTime, Rated
<1>6. Tax!TypeOK
  <2>1. \A a \in Assets : \A k \in DOMAIN lots[a] : lots[a][k].id \in DOMAIN bought
    BY <1>1 DEF InOrder
  <2>2. ASSUME NEW s \in sale
        PROVE  /\ s.asset \in Assets /\ s.open \in 0..s.qty
               /\ \A k \in DOMAIN s.parts : Tax!Parts(s.parts[k])
    <3>1. /\ s \in Sale /\ s.open <= s.qty
          /\ \A k \in DOMAIN s.parts : s.parts[k].id <= Len(bought)
      BY DEF TaxInv, TaxTypes
    <3>2. s.asset \in Assets /\ s.open \in Nat /\ s.qty \in Nat /\ s.parts \in Seq(Part)
      BY <3>1 DEF Sale
    <3>3. ASSUME NEW k \in DOMAIN s.parts PROVE Tax!Parts(s.parts[k])
      <4>1. s.parts[k] \in Part
        BY <3>2
      <4>2. s.parts[k].id \in Nat \ {0} /\ s.parts[k].qty \in Nat \ {0}
        BY <4>1 DEF Part
      <4> QED BY <4>2, <3>1, <1>1 DEF Tax!Parts
    <3> QED BY <3>1, <3>2, <3>3
  <2> QED BY <2>1, <2>2, <1>1 DEF Tax!TypeOK, TaxInv, TaxTypes
<1>7. Tax!SaleIsCovered
  <2> SUFFICES ASSUME NEW s \in sale, s.asked # {} PROVE s.open <= Tolerance
    BY DEF Tax!SaleIsCovered
  <2>1. s.open \in Nat
    BY DEF TaxInv, TaxTypes, Sale
  <2>2. CASE s.open > 0
    <3>1. lots[s.asset] = <<>>
      BY <2>2 DEF TaxInv, TaxCovers, Tax!Matching
    <3>2. 0 >= s.open - Tolerance
      BY <2>2, <3>1, TotalOfNone DEF TaxInv, TaxCovers
    <3> QED BY <2>1, <3>2, TaxBounds
  <2> QED BY <2>1, <2>2, TaxBounds
<1> QED BY <1>3, <1>4, <1>5, <1>6, <1>7

-----------------------------------------------------------------------------
(* The accounts.                                                           *)

LEMMA UsersBounds == Seed \in Emails /\ MaxHits \in Nat \ {0} /\ Span \in Nat
  BY AccountsAssumption

Entry == [admin : Emails, target : Emails, action : {"start", "stop", "page_view"}]

\* An administrator's start, in a journal.
StartOf(log, a, t, k) == log[k] = [admin |-> a, target |-> t, action |-> "start"]

\* A view was started; and so was the one a request has read.
UsersViews ==
    /\ \A a \in Emails : \A t \in viewing[a] :
           viewing[a] = {t} /\ \E j \in DOMAIN journal : StartOf(journal, a, t, j)
    /\ \A s \in Slots : request[s].at = "looking" =>
           \A t \in request[s].target :
               \E j \in DOMAIN journal : StartOf(journal, request[s].who, t, j)

\* The hits before the bucket's first are too old to count, and it holds no more
\* than the limit.
UsersTries ==
    /\ kept \in 1..(Len(tries) + 1) /\ Len(tries) + 1 - kept <= MaxHits
    /\ \A i \in 1..(kept - 1) : tries[i] < wall - Span

UsersInv ==
    /\ Users!TypeOK /\ UsersViews /\ UsersTries
    /\ Users!ViewIsJournaled /\ Users!ViewsWereStarted
    /\ Users!AdmittedWasInvited /\ Users!NeverOverTried

LEMMA UsersStart == Users!Init => UsersInv
<1> SUFFICES ASSUME Users!Init PROVE UsersInv
  OBVIOUS
<1> USE UsersBounds
<1>1. Users!Idle \in Users!OpenRequests
  BY DEF Users!Idle, Users!OpenRequests
<1>2. Users!TypeOK
  BY <1>1 DEF Users!Init, Users!TypeOK
<1>3. UsersViews
  BY DEF Users!Init, UsersViews, Users!Idle
<1>4. UsersTries /\ Users!NeverOverTried
  BY DEF Users!Init, UsersTries, Users!NeverOverTried
<1>5. Users!ViewIsJournaled /\ Users!ViewsWereStarted
  BY DEF Users!Init, Users!ViewIsJournaled, Users!ViewsWereStarted, Users!LastStart, Users!Started, StartOf
<1>6. Users!AdmittedWasInvited
  BY DEF Users!Init, Users!AdmittedWasInvited
<1> QED BY <1>2, <1>3, <1>4, <1>5, <1>6 DEF UsersInv

\* A step that leaves the views and the journal alone, and looks at nothing but
\* what is viewed.
LEMMA UsersElsewhere ==
    ASSUME UsersInv, UNCHANGED <<viewing, journal>>,
           \A s \in Slots : request'[s].at = "looking" =>
               \/ request'[s] = request[s]
               \/ request'[s].who \in Emails /\ request'[s].target = viewing[request'[s].who]
    PROVE  UsersViews' /\ Users!ViewIsJournaled' /\ Users!ViewsWereStarted'
<1>1. Users!ViewIsJournaled' /\ Users!ViewsWereStarted'
  BY DEF UsersInv, Users!ViewIsJournaled, Users!ViewsWereStarted, Users!LastStart, Users!Started, StartOf, Users!Of
<1>2. UsersViews'
  <2> USE DEF UsersInv, UsersViews, Users!Started, StartOf
  <2>1. ASSUME NEW s \in Slots, request'[s].at = "looking", NEW t \in request'[s].target
        PROVE  \E j \in DOMAIN journal : StartOf(journal, request'[s].who, t, j)
    <3>1. CASE request'[s] = request[s]
      BY <2>1, <3>1
    <3>2. CASE request'[s].who \in Emails /\ request'[s].target = viewing[request'[s].who]
      BY <2>1, <3>2
    <3> QED BY <2>1, <3>1, <3>2
  <2> QED BY <2>1
<1> QED BY <1>1, <1>2

LEMMA UsersLeave ==
    ASSUME Users!TypeOK, NEW s \in Slots, Users!Leave(s)
    PROVE  /\ request' \in [Slots -> Users!OpenRequests] /\ request'[s].at # "looking"
           /\ \A r \in Slots \ {s} : request'[r] = request[r]
<1>1. Users!Idle \in Users!OpenRequests /\ Users!Idle.at # "looking"
  BY UsersBounds DEF Users!Idle, Users!OpenRequests
<1>2. request \in [Slots -> Users!OpenRequests]
  BY DEF Users!TypeOK
<1> QED BY <1>1, <1>2 DEF Users!Leave

LEMMA UsersProceed ==
    ASSUME Users!TypeOK, NEW s \in Slots, NEW target \in SUBSET Emails, NEW locks \in BOOLEAN,
           NEW to \in {"chosen", "found", "cleared", "looking"},
           Users!Proceed(s, to, target, locks)
    PROVE  /\ request' \in [Slots -> Users!OpenRequests]
           /\ request'[s].at = to /\ request'[s].who = request[s].who
           /\ request'[s].target = target
           /\ \A r \in Slots \ {s} : request'[r] = request[r]
<1>2. request \in [Slots -> Users!OpenRequests]
  BY DEF Users!TypeOK
<1> DEFINE one == [request[s] EXCEPT !.at = to, !.target = target, !.locks = locks]
<1>3. request' = [request EXCEPT ![s] = one]
  BY DEF Users!Proceed
<1>4. one \in Users!OpenRequests /\ one.at = to /\ one.who = request[s].who /\ one.target = target
  BY <1>2 DEF Users!OpenRequests
<1> HIDE DEF one
<1> QED BY <1>2, <1>3, <1>4

\* The requests that write to the tables of the users.
LEMMA UsersManaged ==
    ASSUME UsersInv, NEW s \in Slots, NEW e \in Emails,
           \/ Users!DeleteUser(s, e)
           \/ \E as \in {"user", "admin"} :
                  Users!Invite(s, e, as) \/ \E on \in BOOLEAN : Users!PatchUser(s, e, as, on)
    PROVE  UsersInv'
<1> USE DEF Users!people, Users!views, Users!limit
<1>1. Users!Leave(s)
  BY DEF Users!DeleteUser, Users!Invite, Users!PatchUser
<1>2. request' \in [Slots -> Users!OpenRequests]
      /\ \A r \in Slots : request'[r].at = "looking" => request'[r] = request[r]
  BY <1>1, UsersLeave DEF UsersInv, Users!TypeOK
<1>3. UNCHANGED <<viewing, journal, tries, kept, wall>>
  BY DEF Users!DeleteUser, Users!Invite, Users!PatchUser
<1>4. UsersViews' /\ Users!ViewIsJournaled' /\ Users!ViewsWereStarted'
  BY <1>2, <1>3, UsersElsewhere
<1>5. UsersTries' /\ Users!NeverOverTried'
  BY <1>3 DEF UsersInv, UsersTries, Users!NeverOverTried
<1>6. /\ role' \in [Emails -> {"none", "user", "admin"}] /\ active' \subseteq Emails
      /\ invited' \in [Emails -> {"none", "user", "admin"}] /\ accepted' \subseteq Emails
      /\ Users!AdmittedWasInvited'
  <2> USE DEF UsersInv, Users!TypeOK, Users!AdmittedWasInvited
  <2>1. CASE Users!DeleteUser(s, e)
    BY <2>1 DEF Users!DeleteUser
  <2>2. ASSUME NEW as \in {"user", "admin"}, Users!Invite(s, e, as)
        PROVE  /\ role' \in [Emails -> {"none", "user", "admin"}] /\ active' \subseteq Emails
               /\ invited' \in [Emails -> {"none", "user", "admin"}] /\ accepted' \subseteq Emails
               /\ Users!AdmittedWasInvited'
    BY <2>2 DEF Users!Invite
  <2>3. ASSUME NEW as \in {"user", "admin"}, NEW on \in BOOLEAN, Users!PatchUser(s, e, as, on)
        PROVE  /\ role' \in [Emails -> {"none", "user", "admin"}] /\ active' \subseteq Emails
               /\ invited' \in [Emails -> {"none", "user", "admin"}] /\ accepted' \subseteq Emails
               /\ Users!AdmittedWasInvited'
    BY <2>3 DEF Users!PatchUser
  <2> QED BY <2>1, <2>2, <2>3
<1> QED BY <1>2, <1>3, <1>4, <1>5, <1>6 DEF UsersInv, Users!TypeOK

LEMMA UsersArrive == ASSUME UsersInv, NEW e \in Emails, Users!Arrive(e) PROVE UsersInv'
<1>1. UNCHANGED <<viewing, journal, request, tries, kept, wall>>
  BY DEF Users!Arrive, Users!views, Users!limit
<1>2. UsersViews' /\ Users!ViewIsJournaled' /\ Users!ViewsWereStarted'
  BY <1>1, UsersElsewhere
<1>3. UsersTries' /\ Users!NeverOverTried'
  BY <1>1 DEF UsersInv, UsersTries, Users!NeverOverTried
<1>4. Users!TypeOK' /\ Users!AdmittedWasInvited'
  BY <1>1 DEF UsersInv, Users!TypeOK, Users!AdmittedWasInvited, Users!Arrive
<1> QED BY <1>2, <1>3, <1>4 DEF UsersInv

\* The steps of requests that only read.
LEMMA UsersRead ==
    ASSUME UsersInv, NEW s \in Slots,
           \/ \E e \in Emails : Users!Enter(s, e) \/ Users!ChooseTarget(s, e)
           \/ Users!FindView(s) \/ Users!ClearView(s) \/ Users!Look(s) \/ Users!EndRequest(s)
    PROVE  UsersInv'
<1> USE DEF Users!people, Users!views, Users!limit
<1>1. UNCHANGED <<role, active, invited, accepted, viewing, journal, tries, kept, wall>>
  BY DEF Users!Enter, Users!ChooseTarget, Users!FindView, Users!ClearView, Users!Look,
     Users!EndRequest
<1>2. /\ request \in [Slots -> Users!OpenRequests] /\ viewing \in [Emails -> SUBSET Emails]
      /\ request[s].who \in Emails /\ request[s].target \in SUBSET Emails
      /\ viewing[request[s].who] \in SUBSET Emails
  BY DEF UsersInv, Users!TypeOK, Users!OpenRequests
<1>3. /\ request' \in [Slots -> Users!OpenRequests]
      /\ \A r \in Slots : request'[r].at = "looking" =>
             \/ request'[r] = request[r]
             \/ request'[r].who \in Emails /\ request'[r].target = viewing[request'[r].who]
  <2> DEFINE Good == /\ request' \in [Slots -> Users!OpenRequests]
                     /\ \A r \in Slots : request'[r].at = "looking" =>
                            \/ request'[r] = request[r]
                            \/ /\ request'[r].who \in Emails
                               /\ request'[r].target = viewing[request'[r].who]
  <2>0. Users!TypeOK
    BY DEF UsersInv
  <2>1. ASSUME NEW e \in Emails, Users!Enter(s, e) PROVE Good
    <3> DEFINE one == [Users!Idle EXCEPT !.at = "in", !.who = e, !.admin = (role[e] = "admin")]
    <3>1. request' = [request EXCEPT ![s] = one]
      BY <2>1 DEF Users!Enter
    <3>2. one \in Users!OpenRequests /\ one.at = "in"
      BY UsersBounds DEF Users!Idle, Users!OpenRequests
    <3> HIDE DEF one
    <3> QED BY <3>1, <3>2, <1>2
  <2>2. ASSUME NEW e \in Emails, Users!ChooseTarget(s, e) PROVE Good
    <3>1. Users!Proceed(s, "chosen", {e}, FALSE) /\ {e} \in SUBSET Emails
      BY <2>2 DEF Users!ChooseTarget
    <3>2. request' \in [Slots -> Users!OpenRequests] /\ request'[s].at = "chosen"
          /\ \A r \in Slots \ {s} : request'[r] = request[r]
      BY <3>1, <2>0, UsersProceed
    <3> QED BY <3>2
  <2>3. CASE Users!FindView(s)
    <3>1. Users!Proceed(s, "found", viewing[request[s].who], FALSE)
      BY <2>3 DEF Users!FindView
    <3>2. request' \in [Slots -> Users!OpenRequests] /\ request'[s].at = "found"
          /\ \A r \in Slots \ {s} : request'[r] = request[r]
      BY <3>1, <2>0, <1>2, UsersProceed, Zenon
    <3> QED BY <3>2
  <2>4. CASE Users!ClearView(s)
    <3>1. Users!Proceed(s, "cleared", request[s].target, TRUE)
          \/ Users!Proceed(s, "cleared", request[s].target, FALSE)
      <4>1. CASE viewing[request[s].who] # {}
        BY <2>4, <4>1 DEF Users!ClearView, Users!Proceed
      <4>2. CASE viewing[request[s].who] = {}
        BY <2>4, <4>2 DEF Users!ClearView, Users!Proceed
      <4> QED BY <4>1, <4>2
    <3>2. request' \in [Slots -> Users!OpenRequests] /\ request'[s].at = "cleared"
          /\ \A r \in Slots \ {s} : request'[r] = request[r]
      BY <3>1, <2>0, <1>2, UsersProceed
    <3> QED BY <3>2
  <2>5. CASE Users!Look(s)
    <3>1. Users!Proceed(s, "looking", viewing[request[s].who], FALSE)
      BY <2>5 DEF Users!Look
    <3>2. /\ request' \in [Slots -> Users!OpenRequests] /\ request'[s].who = request[s].who
          /\ request'[s].target = viewing[request[s].who]
          /\ \A r \in Slots \ {s} : request'[r] = request[r]
      BY <3>1, <2>0, <1>2, UsersProceed, Zenon
    <3> QED BY <3>2, <1>2
  <2>6. CASE Users!EndRequest(s)
    <3>1. Users!Leave(s)
      BY <2>6 DEF Users!EndRequest
    <3> QED BY <3>1, <2>0, UsersLeave
  <2> QED BY <2>1, <2>2, <2>3, <2>4, <2>5, <2>6
<1>4. UsersViews' /\ Users!ViewIsJournaled' /\ Users!ViewsWereStarted'
  BY <1>1, <1>3, UsersElsewhere
<1>5. UsersTries' /\ Users!NeverOverTried' /\ Users!AdmittedWasInvited'
  BY <1>1 DEF UsersInv, UsersTries, Users!NeverOverTried, Users!AdmittedWasInvited
<1> QED BY <1>1, <1>3, <1>4, <1>5 DEF UsersInv, Users!TypeOK

\* The limit: what is let through now is further than the span from what was
\* let through as many attempts ago.
LEMMA UsersAttempt == ASSUME UsersInv, Users!Attempt PROVE UsersInv'
<1> USE DEF Users!people, Users!views
<1>1. UNCHANGED <<role, active, invited, accepted, viewing, journal, request, wall>>
  BY DEF Users!Attempt
<1> DEFINE n == Len(tries)
<1>2. PICK k \in kept..(n + 1) :
          /\ \A i \in kept..(k - 1) : Users!Expired(i)
          /\ kept' = k
          /\ tries' = (IF n + 1 - k >= MaxHits THEN tries ELSE Append(tries, wall))
  BY DEF Users!Attempt
<1>3. /\ n \in Nat /\ tries \in Seq(Nat) /\ wall \in Nat /\ MaxHits \in Nat \ {0} /\ Span \in Nat
      /\ kept \in 1..(n + 1) /\ n + 1 - kept <= MaxHits /\ DOMAIN tries = 1..n
  BY UsersBounds DEF UsersInv, Users!TypeOK, UsersTries
<1>4. \A i \in 1..(k - 1) : tries[i] < wall - Span
  <2> SUFFICES ASSUME NEW i \in 1..(k - 1) PROVE tries[i] < wall - Span
    OBVIOUS
  <2>1. CASE i \in 1..(kept - 1)
    BY <2>1 DEF UsersInv, UsersTries
  <2>2. CASE i \in kept..(k - 1)
    BY <2>2, <1>2 DEF Users!Expired
  <2> QED BY <2>1, <2>2, <1>2, <1>3
<1> HIDE DEF n
<1>5. ASSUME n + 1 - k >= MaxHits
      PROVE  UsersTries' /\ Users!NeverOverTried' /\ tries' \in Seq(Nat)
  <2>1. tries' = tries /\ kept' = k
    BY <1>2, <1>5
  <2>2. UsersTries'
    BY <2>1, <1>1, <1>2, <1>3, <1>4 DEF UsersTries, n
  <2>3. Users!NeverOverTried' /\ tries' \in Seq(Nat)
    BY <2>1, <1>3 DEF UsersInv, Users!NeverOverTried
  <2> QED BY <2>2, <2>3
<1>6. ASSUME n + 1 - k < MaxHits
      PROVE  UsersTries' /\ Users!NeverOverTried' /\ tries' \in Seq(Nat)
  <2>1. /\ kept' = k /\ tries' \in Seq(Nat) /\ Len(tries') = n + 1 /\ tries'[n + 1] = wall
        /\ \A i \in 1..n : tries'[i] = tries[i]
        /\ DOMAIN tries' = 1..(n + 1)
    BY <1>2, <1>3, <1>6 DEF n
  <2>2. UsersTries'
    BY <2>1, <1>1, <1>2, <1>3, <1>4, <1>6 DEF UsersTries
  <2>3. Users!NeverOverTried'
    <3> SUFFICES ASSUME NEW i \in 1..(n + 1), i + MaxHits \in 1..(n + 1)
                 PROVE  tries'[i + MaxHits] - tries'[i] > Span
      BY <2>1 DEF Users!NeverOverTried
    <3>1. CASE i + MaxHits \in 1..n
      <4>1. i \in DOMAIN tries /\ i + MaxHits \in DOMAIN tries
        BY <3>1, <1>3
      <4>2. tries[i + MaxHits] - tries[i] > Span
        BY <4>1 DEF UsersInv, Users!NeverOverTried
      <4>3. tries'[i + MaxHits] = tries[i + MaxHits] /\ tries'[i] = tries[i]
        BY <4>1, <2>1, <1>3
      <4> QED BY <4>2, <4>3
    <3>2. CASE i + MaxHits = n + 1
      <4>1. i \in 1..(k - 1) /\ i \in 1..n
        BY <3>2, <1>2, <1>3, <1>6
      <4>2. tries[i] \in Nat /\ tries[i] < wall - Span
        BY <4>1, <1>3, <1>4
      <4>3. tries'[i] = tries[i] /\ tries'[i + MaxHits] = wall
        BY <3>2, <4>1, <2>1
      <4> QED BY <4>2, <4>3, <1>3
    <3> QED BY <3>1, <3>2, <1>3
  <2> QED BY <2>1, <2>2, <2>3
<1>7. UsersTries' /\ Users!NeverOverTried' /\ tries' \in Seq(Nat) /\ kept' \in Nat \ {0}
  <2>1. k \in Nat \ {0} /\ n + 1 - k \in Int
    BY <1>2, <1>3
  <2> QED BY <1>2, <2>1, <1>3, <1>5, <1>6
<1>8. UsersViews' /\ Users!ViewIsJournaled' /\ Users!ViewsWereStarted' /\ Users!AdmittedWasInvited'
  BY <1>1, UsersElsewhere DEF UsersInv, Users!AdmittedWasInvited
<1> QED BY <1>1, <1>7, <1>8 DEF UsersInv, Users!TypeOK

LEMMA UsersPassTime == ASSUME UsersInv, Users!PassTime PROVE UsersInv'
<1> USE DEF Users!people, Users!views
<1>1. /\ UNCHANGED <<role, active, invited, accepted, viewing, journal, request, tries, kept>>
      /\ wall' = wall + 1 /\ wall \in Nat
  BY DEF Users!PassTime, UsersInv, Users!TypeOK
<1>2. UsersTries'
  <2>1. \A i \in 1..(kept - 1) : tries[i] \in Nat
    BY DEF UsersInv, Users!TypeOK, UsersTries
  <2> QED BY <1>1, <2>1, UsersBounds DEF UsersInv, UsersTries
<1>3. Users!NeverOverTried' /\ Users!AdmittedWasInvited'
  BY <1>1 DEF UsersInv, Users!NeverOverTried, Users!AdmittedWasInvited
<1>4. UsersViews' /\ Users!ViewIsJournaled' /\ Users!ViewsWereStarted'
  BY <1>1, UsersElsewhere
<1> QED BY <1>1, <1>2, <1>3, <1>4 DEF UsersInv, Users!TypeOK

\* Writing to the journal.
LEMMA UsersNotes ==
    ASSUME UsersInv, NEW s \in Slots, NEW t \in Emails, NEW what \in {"start", "stop", "page_view"},
           Users!Note(request[s].who, t, what), Users!Leave(s),
           viewing' \in [Emails -> SUBSET Emails],
           UNCHANGED <<role, active, invited, accepted, tries, kept, wall>>
    PROVE  /\ Users!TypeOK' /\ UsersTries' /\ Users!NeverOverTried' /\ Users!AdmittedWasInvited'
           /\ Len(journal') = Len(journal) + 1 /\ DOMAIN journal = 1..Len(journal)
           /\ Len(journal) \in Nat /\ DOMAIN journal' = 1..(Len(journal) + 1)
           /\ journal'[Len(journal) + 1] = [admin |-> request[s].who, target |-> t, action |-> what]
           /\ \A k \in DOMAIN journal : journal'[k] = journal[k]
           /\ request[s].who \in Emails
           /\ \A r \in Slots : request'[r].at = "looking" => request'[r] = request[r]
<1> DEFINE note == [admin |-> request[s].who, target |-> t, action |-> what]
<1>1. request[s].who \in Emails
  BY DEF UsersInv, Users!TypeOK, Users!OpenRequests
<1>2. note \in Entry /\ journal' = Append(journal, note) /\ journal \in Seq(Entry)
  BY <1>1 DEF Users!Note, UsersInv, Users!TypeOK, Entry
<1> HIDE DEF note
<1>3. /\ Len(journal') = Len(journal) + 1 /\ DOMAIN journal = 1..Len(journal)
      /\ Len(journal) \in Nat /\ DOMAIN journal' = 1..(Len(journal) + 1)
      /\ journal'[Len(journal) + 1] = note /\ journal' \in Seq(Entry)
      /\ \A k \in DOMAIN journal : journal'[k] = journal[k]
  BY <1>2
<1>4. request' \in [Slots -> Users!OpenRequests]
      /\ \A r \in Slots : request'[r].at = "looking" => request'[r] = request[r]
  BY UsersLeave DEF UsersInv
<1>5. Users!TypeOK'
  BY <1>3, <1>4 DEF UsersInv, Users!TypeOK, Entry
<1>6. UsersTries' /\ Users!NeverOverTried' /\ Users!AdmittedWasInvited'
  BY DEF UsersInv, UsersTries, Users!NeverOverTried, Users!AdmittedWasInvited
<1> QED BY <1>1, <1>3, <1>4, <1>5, <1>6 DEF note

\* What the journal said of starts, it says after another note; and of the
\* administrator the note is about, or of no start at all.
LEMMA UsersRecall ==
    ASSUME NEW n \in Nat, DOMAIN journal = 1..n, DOMAIN journal' = 1..(n + 1),
           \A k \in DOMAIN journal : journal'[k] = journal[k]
    PROVE  /\ \A a, t : (\E j \in DOMAIN journal : StartOf(journal, a, t, j)) =>
                            \E j \in DOMAIN journal' : StartOf(journal', a, t, j)
           /\ \A a, t, k : k \in DOMAIN journal /\ Users!LastStart(a, t, k)
                           /\ (journal'[n + 1].admin # a \/ journal'[n + 1].action # "start")
                              => k \in DOMAIN journal' /\ Users!LastStart(a, t, k)'
           /\ \A a, t, k : k \in DOMAIN journal /\ Users!LastStart(a, t, k)'
                              => Users!LastStart(a, t, k)
  BY DEF Users!Started, StartOf, Users!LastStart, Users!Of

LEMMA UsersWereStarted ==
    ASSUME UsersInv, NEW n \in Nat, DOMAIN journal = 1..n, DOMAIN journal' = 1..(n + 1),
           \A k \in DOMAIN journal : journal'[k] = journal[k],
           journal'[n + 1].action = "page_view" =>
               \E j \in DOMAIN journal :
                   StartOf(journal, journal'[n + 1].admin, journal'[n + 1].target, j)
    PROVE  Users!ViewsWereStarted'
<1> SUFFICES ASSUME NEW k \in 1..(n + 1), journal'[k].action = "page_view"
             PROVE  \E j \in 1..(k - 1) :
                        StartOf(journal', journal'[k].admin, journal'[k].target, j)
  BY DEF Users!ViewsWereStarted, Users!Started, StartOf
<1>1. CASE k = n + 1
  BY <1>1 DEF Users!Started, StartOf
<1>2. CASE k \in 1..n
  <2>1. PICK j \in 1..(k - 1) : StartOf(journal, journal[k].admin, journal[k].target, j)
    BY <1>2 DEF UsersInv, Users!ViewsWereStarted, Users!Started, StartOf
  <2>2. j \in DOMAIN journal /\ journal'[k] = journal[k]
    BY <1>2
  <2> QED BY <2>1, <2>2 DEF Users!Started, StartOf
<1> QED BY <1>1, <1>2

LEMMA UsersStartView ==
    ASSUME UsersInv, NEW s \in Slots, NEW t \in Emails, Users!StartView(s, t) PROVE UsersInv'
<1> PICK who : who = request[s].who
  OBVIOUS
<1> PICK n : n = Len(journal)
  OBVIOUS
<1>1. /\ viewing' = [viewing EXCEPT ![who] = {t}] /\ viewing' \in [Emails -> SUBSET Emails]
      /\ Users!Note(who, t, "start") /\ Users!Leave(s)
      /\ UNCHANGED <<role, active, invited, accepted, tries, kept, wall>>
  BY DEF Users!StartView, Users!people, Users!limit, UsersInv, Users!TypeOK
<1>2. /\ Users!TypeOK' /\ UsersTries' /\ Users!NeverOverTried' /\ Users!AdmittedWasInvited'
      /\ n \in Nat /\ DOMAIN journal = 1..n /\ DOMAIN journal' = 1..(n + 1)
      /\ journal'[n + 1] = [admin |-> who, target |-> t, action |-> "start"]
      /\ \A k \in DOMAIN journal : journal'[k] = journal[k]
      /\ who \in Emails
      /\ \A r \in Slots : request'[r].at = "looking" => request'[r] = request[r]
  BY <1>1, UsersNotes
<1>3. /\ viewing'[who] = {t} /\ \A a \in Emails \ {who} : viewing'[a] = viewing[a]
  BY <1>1, <1>2 DEF UsersInv, Users!TypeOK
<1>4. StartOf(journal', who, t, n + 1) /\ n + 1 \in DOMAIN journal'
  BY <1>2 DEF Users!Started, StartOf
<1>5. Users!LastStart(who, t, n + 1)'
  BY <1>2, <1>4 DEF Users!LastStart, Users!Started, StartOf, Users!Of
<1>6. UsersViews'
  <2>1. ASSUME NEW a \in Emails, NEW u \in viewing'[a]
        PROVE  viewing'[a] = {u} /\ \E j \in DOMAIN journal' : StartOf(journal', a, u, j)
    <3>1. CASE a = who
      BY <3>1, <2>1, <1>3, <1>4
    <3>2. CASE a # who
      BY <3>2, <2>1, <1>2, <1>3, UsersRecall DEF UsersInv, UsersViews
    <3> QED BY <3>1, <3>2
  <2>2. ASSUME NEW r \in Slots, request'[r].at = "looking", NEW u \in request'[r].target
        PROVE  \E j \in DOMAIN journal' : StartOf(journal', request'[r].who, u, j)
    BY <2>2, <1>2, UsersRecall DEF UsersInv, UsersViews
  <2> QED BY <2>1, <2>2 DEF UsersViews, Users!Started, StartOf
<1>7. Users!ViewsWereStarted'
  BY <1>2, UsersWereStarted
<1>8. ASSUME NEW a \in Emails, NEW u \in Emails, viewing'[a] = {u}
      PROVE  \E k \in DOMAIN journal' : Users!LastStart(a, u, k)'
  <2>1. CASE a = who
    BY <2>1, <1>3, <1>4, <1>5, <1>8
  <2>2. CASE a # who
    BY <2>2, <1>2, <1>3, <1>8, UsersRecall DEF UsersInv, Users!ViewIsJournaled
  <2> QED BY <2>1, <2>2
<1>9. ASSUME NEW a \in Emails, NEW u \in Emails, NEW k \in DOMAIN journal', Users!LastStart(a, u, k)'
      PROVE  \/ viewing'[a] = {u}
             \/ \E j \in DOMAIN journal' : j > k /\ Users!Of(a, j)' /\ journal'[j].action = "stop"
  <2>1. CASE a = who
    <3>1. k = n + 1
      BY <2>1, <1>2, <1>9 DEF Users!LastStart, Users!Of
    <3> QED BY <3>1, <2>1, <1>2, <1>3, <1>9 DEF Users!LastStart, Users!Started, StartOf
  <2>2. CASE a # who
    <3>1. k \in DOMAIN journal
      BY <2>2, <1>2, <1>9 DEF Users!LastStart, Users!Started, StartOf
    <3>2. Users!LastStart(a, u, k)
      BY <3>1, <1>2, <1>9, UsersRecall
    <3>3. \/ viewing[a] = {u}
          \/ \E j \in DOMAIN journal : j > k /\ Users!Of(a, j) /\ journal[j].action = "stop"
      BY <3>1, <3>2 DEF UsersInv, Users!ViewIsJournaled
    <3> QED BY <3>3, <2>2, <1>2, <1>3 DEF Users!Of
  <2> QED BY <2>1, <2>2
<1>10. Users!ViewIsJournaled'
  BY <1>8, <1>9 DEF Users!ViewIsJournaled, Users!LastStart, Users!Started, StartOf, Users!Of
<1> QED BY <1>2, <1>6, <1>7, <1>10 DEF UsersInv

\* A stop and a page view: the views only shrink, and no start is written.
LEMMA UsersGoOn ==
    ASSUME UsersInv, NEW s \in Slots, NEW t \in Emails, NEW what \in {"stop", "page_view"},
           Users!Note(request[s].who, t, what), Users!Leave(s),
           viewing' \in [Emails -> SUBSET Emails],
           \A a \in Emails : viewing'[a] = viewing[a]
                             \/ (viewing'[a] = {} /\ a = request[s].who /\ what = "stop"),
           what = "page_view" => request[s].at = "looking" /\ t \in request[s].target,
           UNCHANGED <<role, active, invited, accepted, tries, kept, wall>>
    PROVE  UsersInv'
<1> PICK who : who = request[s].who
  OBVIOUS
<1> PICK n : n = Len(journal)
  OBVIOUS
<1>2. /\ Users!TypeOK' /\ UsersTries' /\ Users!NeverOverTried' /\ Users!AdmittedWasInvited'
      /\ n \in Nat /\ DOMAIN journal = 1..n /\ DOMAIN journal' = 1..(n + 1)
      /\ journal'[n + 1] = [admin |-> who, target |-> t, action |-> what]
      /\ \A k \in DOMAIN journal : journal'[k] = journal[k]
      /\ who \in Emails
      /\ \A r \in Slots : request'[r].at = "looking" => request'[r] = request[r]
  <2>1. what \in {"start", "stop", "page_view"}
    OBVIOUS
  <2> QED BY <2>1, UsersNotes
<1>3. /\ journal'[n + 1].admin = who /\ journal'[n + 1].target = t /\ journal'[n + 1].action = what
      /\ journal'[n + 1].action # "start" /\ n + 1 \in DOMAIN journal'
  BY <1>2
<1>4. \A a \in Emails : viewing'[a] = viewing[a] \/ (viewing'[a] = {} /\ a = who /\ what = "stop")
  OBVIOUS
<1>6. UsersViews'
  <2>1. ASSUME NEW a \in Emails, NEW u \in viewing'[a]
        PROVE  viewing'[a] = {u} /\ \E j \in DOMAIN journal' : StartOf(journal', a, u, j)
    <3>1. viewing'[a] = viewing[a]
      BY <2>1, <1>4
    <3> QED BY <3>1, <2>1, <1>2, UsersRecall DEF UsersInv, UsersViews
  <2>2. ASSUME NEW r \in Slots, request'[r].at = "looking", NEW u \in request'[r].target
        PROVE  \E j \in DOMAIN journal' : StartOf(journal', request'[r].who, u, j)
    BY <2>2, <1>2, UsersRecall DEF UsersInv, UsersViews
  <2> QED BY <2>1, <2>2 DEF UsersViews, Users!Started, StartOf
<1>7. Users!ViewsWereStarted'
  <2>1. what = "page_view" => \E j \in DOMAIN journal : StartOf(journal, who, t, j)
    BY DEF UsersInv, UsersViews
  <2> QED BY <2>1, <1>2, <1>3, UsersWereStarted
<1>8. ASSUME NEW a \in Emails, NEW u \in Emails, viewing'[a] = {u}
      PROVE  \E k \in DOMAIN journal' : Users!LastStart(a, u, k)'
  <2>1. PICK k \in DOMAIN journal : Users!LastStart(a, u, k)
    <3>1. viewing[a] = {u}
      BY <1>8, <1>4
    <3> QED BY <3>1 DEF UsersInv, Users!ViewIsJournaled
  <2> QED BY <2>1, <1>2, <1>3, UsersRecall
<1>9. ASSUME NEW a \in Emails, NEW u \in Emails, NEW k \in DOMAIN journal', Users!LastStart(a, u, k)'
      PROVE  \/ viewing'[a] = {u}
             \/ \E j \in DOMAIN journal' : j > k /\ Users!Of(a, j)' /\ journal'[j].action = "stop"
  <2>1. k \in DOMAIN journal
    BY <1>2, <1>3, <1>9 DEF Users!LastStart, Users!Started, StartOf
  <2>2. Users!LastStart(a, u, k)
    BY <2>1, <1>2, <1>9, UsersRecall
  <2>3. \/ viewing[a] = {u}
        \/ \E j \in DOMAIN journal : j > k /\ Users!Of(a, j) /\ journal[j].action = "stop"
    BY <2>1, <2>2 DEF UsersInv, Users!ViewIsJournaled
  <2>4. CASE \E j \in DOMAIN journal : j > k /\ Users!Of(a, j) /\ journal[j].action = "stop"
    BY <2>4, <1>2 DEF Users!Of
  <2>5. CASE viewing[a] = {u} /\ viewing'[a] # {u}
    <3>1. a = who /\ what = "stop"
      BY <2>5, <1>4
    <3>2. n + 1 > k /\ Users!Of(a, n + 1)' /\ journal'[n + 1].action = "stop"
      BY <3>1, <2>1, <1>2, <1>3 DEF Users!Of
    <3> QED BY <3>2, <1>3
  <2> QED BY <2>3, <2>4, <2>5
<1>10. Users!ViewIsJournaled'
  BY <1>8, <1>9 DEF Users!ViewIsJournaled, Users!LastStart, Users!Started, StartOf, Users!Of
<1> QED BY <1>2, <1>6, <1>7, <1>10 DEF UsersInv

LEMMA UsersStep == ASSUME UsersInv, Users!Next PROVE UsersInv'
<1>1. ASSUME NEW s \in Slots, NEW t \in Emails, Users!StopView(s, t) PROVE UsersInv'
<2> DEFINE rest == IF request[s].locks THEN [viewing EXCEPT ![request[s].who] = {}] ELSE viewing
<2>1. /\ Users!Note(request[s].who, t, "stop") /\ Users!Leave(s) /\ viewing' = rest
      /\ UNCHANGED <<role, active, invited, accepted, tries, kept, wall>>
  BY <1>1 DEF Users!StopView, Users!people, Users!limit
<2>2. rest \in [Emails -> SUBSET Emails] /\ viewing' = rest
      /\ \A a \in Emails : rest[a] = viewing[a] \/ (rest[a] = {} /\ a = request[s].who)
  BY <2>1 DEF UsersInv, Users!TypeOK, Users!OpenRequests
<2> HIDE DEF rest
<2> QED BY <2>1, <2>2, UsersGoOn
<1>2. ASSUME NEW s \in Slots, NEW t \in Emails, Users!PageView(s, t) PROVE UsersInv'
<2>1. /\ Users!Note(request[s].who, t, "page_view") /\ Users!Leave(s) /\ viewing' = viewing
      /\ request[s].at = "looking" /\ t \in request[s].target
      /\ UNCHANGED <<role, active, invited, accepted, tries, kept, wall>>
  BY <1>2 DEF Users!PageView, Users!people, Users!limit
<2>2. viewing \in [Emails -> SUBSET Emails]
  BY DEF UsersInv, Users!TypeOK
<2> QED BY <2>1, <2>2, UsersGoOn
<1> QED
  BY <1>1, <1>2, UsersArrive, UsersManaged, UsersRead, UsersStartView, UsersAttempt, UsersPassTime
     DEF Users!Next

LEMMA UsersMoves ==
    ASSUME [Next]_vars
    PROVE  /\ UNCHANGED part
           /\ part = "users" => Users!Next \/ UNCHANGED vars
           /\ (part = "users" /\ Users!Next) \/ UNCHANGED usersOnly
  BY DEF Next, TaskNext, DeskNext, vars, tasksOnly, deskOnly

UsersHold == part = "users" => UsersInv

LEMMA UsersStay == Spec => []UsersHold
<1>1. Init => UsersHold
  BY UsersStart DEF Init, UsersHold
<1>2. UsersHold /\ [Next]_vars => UsersHold'
<2> SUFFICES ASSUME UsersHold, [Next]_vars, part = "users" PROVE UsersInv'
  BY UsersMoves DEF UsersHold
<2>1. CASE Users!Next
  BY <2>1, UsersStep DEF UsersHold
<2>2. CASE UNCHANGED vars
  <3>1. UNCHANGED usersOnly /\ UsersInv
    BY <2>2 DEF vars, deskOnly, UsersHold
  <3> USE <3>1 DEF UsersInv, usersOnly
  <3>2. Users!TypeOK'
    BY DEF Users!TypeOK
  <3>3. UsersViews' /\ UsersTries'
    BY DEF UsersViews, UsersTries, StartOf
  <3>4. Users!ViewIsJournaled' /\ Users!ViewsWereStarted'
    BY DEF Users!ViewIsJournaled, Users!ViewsWereStarted, Users!LastStart, Users!Started, Users!Of
  <3>5. Users!AdmittedWasInvited' /\ Users!NeverOverTried'
    BY DEF Users!AdmittedWasInvited, Users!NeverOverTried
  <3> QED BY <3>2, <3>3, <3>4, <3>5
<2> QED
  BY <2>1, <2>2, UsersMoves
<1> QED
  BY <1>1, <1>2, PTL DEF Spec

-----------------------------------------------------------------------------
(* The alarms, and what the desk promises.                                 *)

\* A stall of the validation queue is recorded once, and a paper position
\* whose symbol the worker does not stream was paged at the start that left
\* it out.  The healer pages every new type of exception once, tells of every
\* drop, calls no stall critical that it has not seen before, and adds nothing
\* to its baseline that it did not tell; and a process that serves without
\* trading has paged why, but for a vault without keys.
THEOREM AlarmsAreRaised == Spec => []AlarmsRaised
<1> DEFINE Holds == QueueHold /\ PaperHold /\ HealerHold /\ BootHold
<1>1. QueueHold => Queue!OneOnsetPerStall
  BY DEF QueueHold, QueueInv, Queue!OneOnsetPerStall
<1>2. PaperHold => Shadow!UnwatchedIsPaged
  BY DEF PaperHold, PaperInv, PaperWatch, Shadow!UnwatchedIsPaged
<1>3. HealerHold /\ part = "healer" =>
          /\ Healer!NovelIsPaged /\ Healer!DropTold
          /\ Healer!StallConfirmed /\ Healer!BaselineWasTold
  BY HealerAlarms DEF HealerHold
<1>4. BootHold /\ part = "boot" => Boot!IdleIsTold
  BY BootIsHonest DEF BootHold
<1>5. Holds => AlarmsRaised
  BY <1>1, <1>2, <1>3, <1>4 DEF AlarmsRaised
<1>6. Spec => []Holds
  BY QueueStays, PaperStays, HealerStays, BootStays, PTL
<1> HIDE DEF Holds
<1> QED
  BY <1>5, <1>6, PTL

\* Orders are placed only by a process whose preflight held and whose guards run;
\* a study that says it runs is worked on, or was cut off; a backtest's trades
\* do not overlap, end as the paper engine would end them, and its drawdown is
\* the worst there was; lots are sold in their order and bear the rate of their
\* time; and whoever is viewed, or was, is on record, was invited, and was let
\* through no more often than the limit.
THEOREM DeskStaysHonest == Spec => []DeskHonest
<1> DEFINE Holds == BootHold /\ StudiesHold /\ WalkHold /\ TaxHold /\ UsersHold
<1>1. BootHold /\ part = "boot" => Boot!OrdersAreGuarded
  BY BootIsHonest DEF BootHold
<1>2. StudiesHold /\ part = "studies" =>
          /\ Studies!TaskHasItsStudy /\ Studies!RunningIsWorkedOn /\ Studies!EndedByItsTask
  BY DEF StudiesHold, StudiesInv
<1>3. WalkHold /\ part = "walk" => Walk!NeverOverlap /\ Walk!MirrorsPaper /\ Walk!DrawdownIsWorst
  BY WalkIsHonest DEF WalkHold
<1>4. TaxHold /\ part = "tax" =>
          /\ Tax!FirstInFirstOut /\ Tax!QueueIsTheRest /\ Tax!SaleIsCovered /\ Tax!RateOfItsTime
  BY TaxIsHonest DEF TaxHold
<1>5. UsersHold /\ part = "users" =>
          /\ Users!ViewIsJournaled /\ Users!ViewsWereStarted
          /\ Users!AdmittedWasInvited /\ Users!NeverOverTried
  BY DEF UsersHold, UsersInv
<1>6. Holds => DeskHonest
  BY <1>1, <1>2, <1>3, <1>4, <1>5 DEF DeskHonest
<1>7. Spec => []Holds
  BY BootStays, StudiesStay, WalkStays, TaxStays, UsersStay, PTL
<1> HIDE DEF Holds
<1> QED
  BY <1>6, <1>7, PTL

-----------------------------------------------------------------------------
(* The types of the part that moves.                                         *)

Parted == part \in Parts

LEMMA PartStays == Spec => []Parted
<1>1. Init => Parted
  BY DEF Init, Parted
<1>2. Parted /\ [Next]_vars => Parted'
  BY MarketMoves DEF Parted
<1> QED
  BY <1>1, <1>2, PTL DEF Spec

\* Every variable keeps its type, and what the model bounds stays within its
\* bound: the attempts of a row, the bars of a position, the bucket's tokens,
\* the calls of a day, what a sale is open for.
THEOREM TypesStayOK == Spec => []TypesOK
<1> DEFINE Holds == WorkersHold /\ QueueHold /\ PaperHold /\ FleetHold /\ FeedHold
                    /\ MarketHold /\ NewsHold /\ HealerHold /\ BootHold /\ StudiesHold
                    /\ WalkHold /\ TaxHold /\ UsersHold
<1>1. Holds /\ part = "workers" => Workers!TypeOK
  BY DEF WorkersHold, WorkersInv
<1>2. Holds /\ part = "queue" => Queue!TypeOK
  BY DEF QueueHold, QueueInv
<1>3. Holds /\ part = "shadow" => Shadow!TypeOK
<2> SUFFICES ASSUME PaperTypes, PaperBooks, PaperWatch PROVE Shadow!TypeOK
  BY DEF PaperHold, PaperInv
<2>1. due \subseteq Shadow!Lanes
  BY DEF PaperWatch
<2>2. \A l \in Shadow!Lanes : /\ book[l].held \in -1..(HoldBars + PaperFaults + 1)
                              /\ Len(book[l].hist) <= HistoryCap
  BY PaperBounds DEF PaperBooks, Position
<2> QED
  BY <2>1, <2>2 DEF PaperTypes, Shadow!TypeOK
<1>4. Holds /\ part = "fleet" => Fleet!TypeOK
<2> SUFFICES ASSUME FleetInv PROVE Fleet!TypeOK
  BY DEF FleetHold
<2>1. \A x \in DOMAIN sheet : sheet[x] \subseteq FleetSymbols
  BY DEF FleetInv
<2>2. \A f \in Fleet!Fleets : kids[f] \subseteq FleetSymbols /\ job[f].at \in {"wait", "apply"}
  BY DEF FleetInv
<2> QED
  BY <2>1, <2>2 DEF FleetInv, Fleet!TypeOK
<1>5. Holds /\ part = "feed" => Feed!TypeOK
<2> SUFFICES ASSUME FeedTypes, FeedCounts PROVE Feed!TypeOK
  BY DEF FeedHold, FeedInv
<2>1. \A c \in Feed!Hours : predicted[c] \in 0..(FeedFaults + 1) /\ published[c] \in 0..(FeedFaults + 1)
  <3> SUFFICES ASSUME NEW c \in Feed!Hours
               PROVE  predicted[c] \in 0..(FeedFaults + 1) /\ published[c] \in 0..(FeedFaults + 1)
    OBVIOUS
  <3>1. predicted[c] \in Nat /\ published[c] \in Nat /\ faults \in 0..FeedFaults
    BY DEF FeedTypes
  <3>2. published[c] <= predicted[c] /\ predicted[c] <= 1 + faults
    BY DEF FeedCounts
  <3> QED BY <3>1, <3>2, FeedBounds
<2>2. /\ predicted \in [Feed!Hours -> 0..(FeedFaults + 1)]
      /\ published \in [Feed!Hours -> 0..(FeedFaults + 1)]
  BY <2>1 DEF FeedTypes
<2>3. /\ child.at \in {"start", "poll", "work", "publish", "save", "down"}
      /\ child.mark \in 0..MaxHour /\ child.candle \in 0..MaxHour
  BY DEF FeedTypes
<2> QED
  BY <2>2, <2>3 DEF FeedTypes, Feed!TypeOK
<1>6. Holds /\ part = "market" => Market!TypeOK
<2> SUFFICES ASSUME MarketTypes, MarketFetches, MarketCache PROVE Market!TypeOK
  BY DEF MarketHold, MarketInv
<2>1. bucket.tokens <= Capacity /\ bucket.at \in 0..clock
  BY MarketBounds DEF MarketTypes
<2>2. \A t \in Market!Tasks, tf \in TFs : fetch[t][tf].phase \in
          {"none", "queued", "asleep", "sent", "served", "data", "failed"}
  BY DEF MarketFetches, FetchSound
<2> QED
  BY <2>1, <2>2 DEF MarketTypes, MarketCache, Market!TypeOK
<1>7. Holds /\ part = "news" => News!TypeOK
  BY DEF NewsHold, NewsInv, NewsTypes, News!TypeOK
<1>8. Holds /\ part = "healer" => Healer!TypeOK
  BY HealerIsTyped DEF HealerHold
<1>9. Holds /\ part = "boot" => Boot!TypeOK
  BY BootIsHonest DEF BootHold
<1>10. Holds /\ part = "studies" => Studies!TypeOK
  BY DEF StudiesHold, StudiesInv
<1>11. Holds /\ part = "walk" => Walk!TypeOK
  BY WalkIsHonest DEF WalkHold
<1>12. Holds /\ part = "tax" => Tax!TypeOK
  BY TaxIsHonest DEF TaxHold
<1>13. Holds /\ part = "users" => Users!TypeOK
  BY DEF UsersHold, UsersInv
<1>14. Spec => []Holds
  BY WorkersStay, QueueStays, PaperStays, FleetStays, FeedStays, MarketStays, NewsStays,
     HealerStays, BootStays, StudiesStay, WalkStays, TaxStays, UsersStay, PTL
<1> HIDE DEF Holds
<1>15. Holds /\ part \in Tasks => TypesOK
  BY <1>1, <1>2, <1>3, <1>4, <1>5, <1>6, <1>7 DEF TypesOK, Tasks
<1>16. Holds /\ part \in Desk => TypesOK
  BY <1>8, <1>9, <1>10, <1>11, <1>12, <1>13 DEF TypesOK, Desk
<1>17. Holds /\ Parted => TypesOK
  BY <1>15, <1>16 DEF Parts, Parted
<1> QED
  BY <1>14, <1>17, PartStays, PTL
=============================================================================
