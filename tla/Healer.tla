------------------------------- MODULE Healer -------------------------------
(* The healer (healer/): a loop that runs six detectors in turn, records     *)
(* what each finds and pages what is critical.  What a detector reads of the *)
(* database is its parameter; what it remembers, in the process or in the    *)
(* database, is state, and so is what the operator has been told.            *)
EXTENDS Integers, FiniteSets

CONSTANTS
    Errors,         \* types of exception a dispatch may record
    Pairs,          \* the pairs a prediction is expected of
    Keys,           \* what the daily sweep may complain of, and
    Fields,         \* those of them that are columns of its tables
    Grace,          \* C3_BOOT_GRACE_SECONDS
    Reminder,       \* C3_PER_SYMBOL_DROP_REMINDER_SECONDS
    StallStreak,    \* C3_UNIVERSE_STALL_STREAK_FOR_CRITICAL
    Interval,       \* SYSTEM_TRUTH_INTERVAL_HOURS
    MaxTime, MaxFaults

VARIABLES
    tick,           \* now, in ticks of the loop
    booted,         \* _MODULE_LOAD_TIME
    detector,       \* the detector that runs next
    pending,        \* findings to be recorded and paged
    known,          \* healer_known_error_types
    stall,          \* _C3_UNIVERSE_STALL_STREAK
    dropped,        \* _C3_LAST_PER_SYMBOL_DROP
    lastRun,        \* _LAST_RUN_AT
    baseline,       \* the newest system_truth_baseline finding
    sweep,          \* the one to be recorded
    looked,         \* what the freshness detector saw last
    stalls,         \* the looks at a stall since it saw anything else
    told, missed,     \* findings the operator was told of, and those that were lost
    faults

healerVars == <<tick, booted, detector, pending, known, stall, dropped, lastRun, baseline,
                sweep, looked, stalls, told, missed, faults>>

\* What there may be one of, or none, is a set.
Finding(kind, about) == [kind |-> kind, about |-> about, at |-> tick]
Asleep == detector = "sleep"
\* The findings of a detector are dealt with before the next one runs.
Runs(name) == detector = name /\ pending = {} /\ sweep = {}
After(name) == detector' = name
Unblamed == faults' = faults
Fault == faults < MaxFaults /\ faults' = faults + 1

Init ==
    /\ tick = 0 /\ booted = 0 /\ detector = "errors" /\ pending = {}
    /\ known = {} /\ stall = 0 /\ dropped = {} /\ lastRun = {} /\ baseline = {} /\ sweep = {}
    /\ looked = {} /\ stalls = {} /\ told = {} /\ missed = {} /\ faults = 0

\* C1: of the exceptions of the last hour, the types never known before are
\* critical and the busy ones a warning.  One transaction notes them all as
\* known; what was found before it failed is reported all the same, and a
\* commit that raised may have reached the database.
MUT_Novel(types) == {Finding("novel", {e}) : e \in types}    \* every time
Novel(types) == {Finding("novel", {e}) : e \in types \ known}
Spikes(busy) == {Finding("rate", {e}) : e \in busy \cap known}
DetectErrors(seen, busy) ==
    /\ Runs("errors") /\ busy \subseteq seen
    /\ pending' = Novel(seen) \cup Spikes(busy)
    /\ \/ known' = known \cup seen /\ Unblamed
       \/ known' \in {known, known \cup seen} /\ Fault
    /\ After("scores")
    /\ UNCHANGED <<tick, booted, stall, dropped, lastRun, baseline, sweep, looked, stalls,
                   told, missed>>

\* C2, C4 and C6 remember nothing: every score of an hour is neutral, nearly all
\* signals are blocked, or the checkpoint marked active is not the loaded one.
\* A query that fails finds nothing.
Glance(name, found, next) ==
    /\ Runs(name) /\ pending' = found /\ After(next)
    /\ UNCHANGED <<tick, booted, known, stall, dropped, lastRun, baseline, sweep, looked,
                   stalls, told, missed, faults>>
DetectScores(degenerate) ==
    Glance("scores", IF degenerate THEN {Finding("degenerate", {})} ELSE {}, "freshness")
DetectBlocked(most) ==
    Glance("blocked", IF most THEN {Finding("blocked", {})} ELSE {}, "truth")
DetectBrain(active, loaded) ==
    Glance("brain", {Finding("brain", {c}) : c \in active \ loaded}, "sleep")

\* C3 sees nothing of the pairs: it is too early, the query fails, or the
\* universe is empty, which is a finding and ends a stall's streak.
Unseen(name) == detector = name /\ Glance(name, {}, "blocked")
TooEarly == tick - booted < Grace
NothingExpected ==
    /\ Runs("freshness") /\ ~TooEarly /\ After("blocked")
    /\ stall' = 0 /\ stalls' = {} /\ pending' = {Finding("empty", {})}
    /\ UNCHANGED <<tick, booted, known, dropped, lastRun, baseline, sweep, looked,
                   told, missed, faults>>

\* C3 sees the pairs that have a prediction, and which of them are stale: all of
\* them while their producer beats is a stall, critical when seen repeatedly;
\* some of them is a drop, told once until it changes or a while has passed.
IsStall(tracked, stale, beating) == stale # {} /\ stale = tracked /\ beating
MUT_Repeats(stale) == \E d \in dropped : tick - d.at < Reminder   \* whatever was stale
Repeats(stale) == \E d \in dropped : d.stale = stale /\ tick - d.at < Reminder
DetectFreshness(tracked, stale, beating) ==
    /\ Runs("freshness") /\ ~TooEarly /\ stale \subseteq tracked /\ After("blocked")
    /\ LET stalled == IsStall(tracked, stale, beating)
           drop == stale # {} /\ ~stalled
       IN /\ stall' = (IF stalled THEN stall + 1 ELSE 0)
          /\ stalls' = (IF stalled THEN stalls \cup {tick} ELSE {})
          /\ looked' = (IF drop THEN {[stale |-> stale, at |-> tick]} ELSE {})
          /\ pending' = (IF stalled
                         THEN {Finding(IF stall' >= StallStreak THEN "stall" ELSE "stalling", {})}
                         ELSE IF drop /\ ~Repeats(stale) THEN {Finding("drop", stale)} ELSE {})
          /\ dropped' = (IF drop /\ ~Repeats(stale) THEN {[stale |-> stale, at |-> tick]}
                         ELSE dropped)
    /\ UNCHANGED <<tick, booted, known, lastRun, baseline, sweep, told, missed, faults>>

\* C5: once a day, the columns, layers, traps and endpoints that look wrong; the
\* day is over even when the sweep fails.
Due == \A t \in lastRun : tick - t >= Interval
NotDue == ~Due /\ Glance("truth", {}, "brain")
SweepFails ==
    /\ Runs("truth") /\ Due /\ lastRun' = {tick} /\ After("brain")
    /\ UNCHANGED <<tick, booted, pending, known, stall, dropped, baseline, sweep, looked,
                   stalls, told, missed, faults>>

\* What is new since the baseline is critical, but a column that was never seen
\* to vary and has no other fault than to be constant; a sweep that finds no
\* baseline, or cannot read it, reports nothing.  The new baseline is the last
\* of the findings, and a mature column that is not constant was seen to vary.
Keyed(bs) == UNION {b.keys : b \in bs}
Varied(bs) == UNION {b.varying : b \in bs}
Verdict(key, flag, previous) ==
    Finding(IF flag = {"constant"} /\ key \notin Varied(previous) THEN "constant" ELSE "new", {key})
SweepDone(flags, mature, readable) ==
    /\ Runs("truth") /\ Due /\ lastRun' = {tick} /\ After("brain")
    /\ \A k \in Fields : "constant" \in flags[k] => k \in mature
    /\ LET previous == IF readable THEN baseline ELSE {}
           current == {k \in Keys : flags[k] # {}}
           varying == {k \in mature : "constant" \notin flags[k]}
           first == previous = {}
       IN /\ pending' = (IF first THEN {}
                         ELSE {Verdict(k, flags[k], previous) : k \in current \ Keyed(previous)})
          /\ sweep' = {[keys |-> current, first |-> first,
                        varying |-> varying \cup Varied(previous)]}
    /\ (IF readable THEN Unblamed ELSE Fault)
    /\ UNCHANGED <<tick, booted, known, stall, dropped, baseline, looked, stalls, told, missed>>

\* A finding is recorded, and paged if it is critical; a failure of either is
\* swallowed, and the finding is not repeated.
Tell(f) ==
    /\ f \in pending /\ pending' = pending \ {f}
    /\ \/ told' = told \cup {f} /\ missed' = missed /\ Unblamed
       \/ told' = told /\ missed' = missed \cup {f} /\ Fault
    /\ UNCHANGED <<tick, booted, detector, known, stall, dropped, lastRun, baseline, sweep,
                   looked, stalls>>
RecordBaseline ==
    /\ pending = {} /\ sweep # {} /\ sweep' = {}
    /\ \/ baseline' = {[keys |-> s.keys, varying |-> s.varying] : s \in sweep} /\ Unblamed
       \/ baseline' = baseline /\ Fault
    /\ UNCHANGED <<tick, booted, detector, pending, known, stall, dropped, lastRun, looked,
                   stalls, told, missed>>

\* The loop beats and sleeps; told and missed keep what the properties speak of.
Current(f) == f.kind = "novel" \/ (f.kind = "drop" /\ \E d \in dropped : d.at = f.at)
Sleep ==
    /\ Runs("sleep") /\ tick < MaxTime /\ tick' = tick + 1 /\ After("errors")
    /\ told' = {f \in told : Current(f)} /\ missed' = {f \in missed : Current(f)}
    /\ UNCHANGED <<booted, pending, known, stall, dropped, lastRun, baseline, sweep, looked,
                   stalls, faults>>

\* A restart forgets what is only in the process.
Restart ==
    /\ Fault /\ booted' = tick /\ After("errors")
    /\ missed' = missed \cup pending /\ pending' = {} /\ sweep' = {}
    /\ stall' = 0 /\ stalls' = {} /\ dropped' = {} /\ looked' = {} /\ lastRun' = {}
    /\ UNCHANGED <<tick, known, baseline, told>>

Flags == [Keys -> SUBSET {"constant", "broken"}]
Next ==
    \/ \E seen, busy \in SUBSET Errors : DetectErrors(seen, busy)
    \/ \E alarm \in BOOLEAN : DetectScores(alarm) \/ DetectBlocked(alarm)
    \/ \E active, loaded \in {{}, {"a"}, {"b"}} : DetectBrain(active, loaded)
    \/ Unseen("freshness") \/ NothingExpected \/ NotDue \/ SweepFails
    \/ \E tracked, stale \in SUBSET Pairs, beating \in BOOLEAN :
           DetectFreshness(tracked, stale, beating)
    \/ \E flags \in Flags, mature \in SUBSET Fields, readable \in BOOLEAN :
           SweepDone(flags, mature, readable)
    \/ \E f \in pending : Tell(f)
    \/ RecordBaseline \/ Sleep \/ Restart

Spec == Init /\ [][Next]_healerVars

-----------------------------------------------------------------------------
Detectors == {"errors", "scores", "freshness", "blocked", "truth", "brain", "sleep"}
Kinds == {"novel", "rate", "degenerate", "blocked", "brain", "empty", "stall", "stalling", "drop",
          "constant", "new"}
TypeOK ==
    /\ tick \in 0..MaxTime /\ booted \in 0..tick /\ detector \in Detectors
    /\ known \subseteq Errors /\ stall \in Nat /\ faults \in 0..MaxFaults
    /\ \A f \in pending \cup told \cup missed : f.kind \in Kinds /\ f.at \in 0..tick
    /\ \A d \in dropped : d.stale \subseteq Pairs /\ d.at \in booted..tick
    /\ lastRun \subseteq booted..tick
    /\ \A b \in baseline \cup sweep : b.keys \subseteq Keys /\ b.varying \subseteq Fields

Said == pending \cup told \cup missed

\* A type of exception is noted as known only with a page, which is sent, on its
\* way or went missing; and without a failure no type is paged a second time.
NovelIsPaged ==
    /\ \A e \in known : \E f \in Said : f.kind = "novel" /\ f.about = {e}
    /\ faults = 0 => \A f, g \in Said :
           f.kind = "novel" /\ g.kind = "novel" /\ f.about = g.about => f = g

\* What the freshness detector saw missing when it last looked, the operator
\* was told within the reminder, whatever it saw in between.
DropTold ==
    \A l \in looked : \E f \in Said :
        f.kind = "drop" /\ f.about = l.stale /\ l.at - f.at < Reminder

\* A stall is critical only when one process has seen it as often as it takes,
\* with no look at anything else between.
StallConfirmed ==
    (\E f \in pending : f.kind = "stall") =>
        stalls \subseteq booted..tick /\ Cardinality(stalls) >= StallStreak

\* What a sweep adds to the baseline it tells first, unless it found none; and
\* only the first one finds none, if no lookup fails.
BaselineWasTold ==
    \A s \in sweep :
        IF s.first THEN baseline = {} \/ faults > 0
        ELSE /\ baseline # {}
             /\ \A k \in s.keys \ Keyed(baseline) :
                    \E f \in Said : f.kind \in {"new", "constant"} /\ f.about = {k} /\ f.at = tick
=============================================================================
