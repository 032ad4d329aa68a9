------------------------------ MODULE PollFeed ------------------------------
(***************************************************************************)
(* One child of the futures poll fleet.  futures_rest_poll_candles asks    *)
(* for the last two klines and yields the closed one when it is newer than *)
(* the watermark; run_live_prediction persists, publishes and dispatches   *)
(* it; on resumption the generator saves the watermark.  A wrapper         *)
(* restarts the child when it crashes and pages once when it looks dead.   *)
(***************************************************************************)
EXTENDS Naturals, FiniteSets

CONSTANTS
    MaxHour,     \* bound on the number of candles
    DeadAfter,   \* _CHILD_DEAD_THRESHOLD
    MaxFaults    \* bound on failures, crashes and restarts

VARIABLES
    hour,        \* the candle that is still forming; the ones before are closed
    saved,       \* live_prediction_watermarks.last_open_time, 0 for no row
    since,       \* the first watermark ever saved
    predicted,   \* rows of predictions per candle
    published,   \* publications and dispatches per candle
    failed,      \* candles whose build or persist failed
    gaps,        \* candles the gap error counted as skipped
    child,       \* where the child stands, its watermark and candle
    crashes,     \* _child_crash_streaks
    dead,        \* the child is in _confirmed_dead_children
    pages,       \* critical alerts in this life of the child
    faults

feed     == <<hour, saved, since, gaps>>
outcomes == <<predicted, published, failed>>
wrapper  == <<crashes, dead, pages>>
vars == <<feed, outcomes, child, wrapper, faults>>

Hours == 1..MaxHour
Fault   == faults < MaxFaults /\ faults' = faults + 1
NoFault == UNCHANGED faults
Fresh == [at |-> "start", mark |-> 0, candle |-> 0]
Goto(place) == child' = [child EXCEPT !.at = place]

Init ==
    /\ hour = 1 /\ saved = 0 /\ since = 0 /\ gaps = {}
    /\ predicted = [c \in Hours |-> 0] /\ published = [c \in Hours |-> 0]
    /\ failed = {}
    /\ child = Fresh /\ crashes = 0 /\ dead = FALSE /\ pages = 0
    /\ faults = 0

-----------------------------------------------------------------------------
Hour ==
    /\ hour < MaxHour /\ hour' = hour + 1
    /\ NoFault
    /\ UNCHANGED <<saved, since, gaps, outcomes, child, wrapper>>

\* The history seed, then the watermark, read once.
Start ==
    /\ child.at = "start"
    /\ child' = [Fresh EXCEPT !.at = "poll", !.mark = saved]
    /\ NoFault
    /\ UNCHANGED <<feed, outcomes, wrapper>>

\* rows[-2]; the watermark decides what is new, never the clock.
Closed == hour - 1
MUT_Newer(c) == child.mark = 0 \/ c = child.mark + 1
Newer(c) == child.mark = 0 \/ c > child.mark
Skipped(c) == IF child.mark = 0 THEN {} ELSE (child.mark + 1)..(c - 1)

\* The watermark row does not move before the candle is done with.
MUT_SavedAtYield(c) == c
SavedAtYield(c) == saved

\* A fetch that fails is a warning and another sleep.
Poll ==
    /\ child.at = "poll"
    /\ Closed > 0 /\ Newer(Closed)
    /\ child' = [child EXCEPT !.at = "work", !.candle = Closed]
    /\ gaps' = gaps \cup Skipped(Closed)
    /\ saved' = SavedAtYield(Closed)
    /\ NoFault
    /\ UNCHANGED <<hour, since, outcomes, wrapper>>

Persist ==
    /\ child.at = "work" /\ Goto("publish")
    /\ predicted' = [predicted EXCEPT ![child.candle] = @ + 1]
    /\ NoFault
    /\ UNCHANGED <<feed, published, failed, wrapper>>

\* build_prediction or the chain insert raises: an error heartbeat and
\* `continue`, which resumes the generator as a processed candle does.
MUT_AfterFailure == "publish"
AfterFailure == "save"
Skip ==
    /\ child.at = "work" /\ Goto(AfterFailure)
    /\ failed' = failed \cup {child.candle}
    /\ Fault
    /\ UNCHANGED <<feed, predicted, published, wrapper>>

\* manager.publish and _maybe_dispatch, which swallows its own errors.
Publish ==
    /\ child.at = "publish" /\ Goto("save")
    /\ published' = [published EXCEPT ![child.candle] = @ + 1]
    /\ NoFault
    /\ UNCHANGED <<feed, predicted, failed, wrapper>>

MUT_Mark == child.mark
Mark == child.candle
Save ==
    /\ child.at = "save"
    /\ child' = [child EXCEPT !.at = "poll", !.mark = Mark]
    /\ saved' = child.candle
    /\ since' = IF since = 0 THEN child.candle ELSE since
    /\ NoFault
    /\ UNCHANGED <<hour, gaps, outcomes, wrapper>>

\* _run_futures_child_with_restart: an exception out of the runner, from the
\* seed, the body of the loop or the watermark's own write.
NextStreak == IF crashes < DeadAfter THEN crashes + 1 ELSE crashes
MUT_Pages(newlyDead) == NextStreak >= DeadAfter
Pages(newlyDead) == newlyDead
Crash ==
    /\ child.at \in {"start", "work", "publish", "save"} /\ Goto("down")
    /\ crashes' = NextStreak
    /\ dead' = (dead \/ NextStreak >= DeadAfter)
    /\ pages' = IF Pages(~dead /\ NextStreak >= DeadAfter) THEN pages + 1 ELSE pages
    /\ Fault
    /\ UNCHANGED <<feed, outcomes>>

\* The backoff is over.
Again ==
    /\ child.at = "down" /\ child' = Fresh
    /\ NoFault
    /\ UNCHANGED <<feed, outcomes, wrapper>>

\* The supervisor drops and re-adds the symbol, or the process restarts.
Replace ==
    /\ child' = Fresh /\ crashes' = 0 /\ dead' = FALSE /\ pages' = 0
    /\ Fault
    /\ UNCHANGED <<feed, outcomes>>

Child == Start \/ Poll \/ Persist \/ Publish \/ Save \/ Again
Next == Hour \/ Child \/ Skip \/ Crash \/ Replace

Spec == Init /\ [][Next]_vars
FairSpec == Spec /\ WF_vars(Child)

-----------------------------------------------------------------------------
TypeOK ==
    /\ hour \in Hours /\ saved \in 0..MaxHour /\ since \in 0..MaxHour
    /\ gaps \subseteq Hours /\ failed \subseteq Hours
    /\ predicted \in [Hours -> 0..MaxFaults + 1]
    /\ published \in [Hours -> 0..MaxFaults + 1]
    /\ child.at \in {"start", "poll", "work", "publish", "save", "down"}
    /\ child.mark \in 0..MaxHour /\ child.candle \in 0..MaxHour
    /\ crashes \in 0..DeadAfter /\ dead \in BOOLEAN /\ faults \in 0..MaxFaults

\* No candle disappears: every one between the first watermark and the current
\* one was predicted, was given up with an error heartbeat, or is in a gap
\* that was logged, whatever crashed in between.
NoSilentGap ==
    \A c \in since..saved :
        since > 0 => predicted[c] > 0 \/ c \in failed \/ c \in gaps

\* What is predicted twice was paid for by a crash or a restart, one each.
RepeatsArePaidFor ==
    \A c \in Hours : predicted[c] <= 1 + faults

\* Nothing reaches the UI or the dispatcher that the chain does not hold.
PublishedIsPersisted == \A c \in Hours : published[c] <= predicted[c]

\* A dead child is paged once in a life, however long it keeps crashing.
OnePagePerDeath == pages <= 1

\* Crashes and restarts never leave the feed stuck behind the market.
FeedCatchesUp == <>[](hour = MaxHour => saved = MaxHour - 1)
=============================================================================
