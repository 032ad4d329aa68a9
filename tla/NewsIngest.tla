----------------------------- MODULE NewsIngest -----------------------------
(* The news collector (news/ingest_worker.py): a loop that asks one source   *)
(* of headlines at every tick and another every Macro ticks, stores what it  *)
(* got and moves a cursor per source; the nightly clean-up; and the daily    *)
(* allowance of the first source (data/ratelimit.py DailyCounterBucket).     *)
EXTENDS Integers, FiniteSets, FiniteSetsExt

CONSTANTS
    Articles,       \* what the sources publish
    source,         \* "crypto" or "macro", per article
    published,      \* the time an article bears, and
    appears,        \* the time it is in the feed from
    Backfill,       \* BACKFILL_HOURS, how far back a cold start looks
    Macro,          \* MACRO_INTERVAL_S
    Retention,      \* NEWS_RETENTION_DAYS
    Day, DailyLimit, MaxTime, MaxFaults

VARIABLES
    time,
    step,           \* where the loop stands
    pulled,         \* articles fetched and not stored yet
    began,          \* when this iteration began
    cursor,         \* _last_fetch_ts, -1 where the process has none
    floor,          \* what the process asked for when it had none
    lastMacro,      \* last_macro_run
    items,          \* news_items
    seen,           \* every article this process has fetched
    used,           \* calls of the day
    faults

newsVars == <<time, step, pulled, began, cursor, floor, lastMacro, items, seen, used, faults>>

Sources == {"crypto", "macro"}
Of(src) == {a \in Articles : source[a] = src}
since(src, start) == IF cursor[src] = -1 THEN start - Backfill ELSE cursor[src]
\* fetch_recent: what the feed shows that is newer than the cursor.
fetch_recent(src, start, at) ==
    {a \in Of(src) : appears[a] <= at /\ published[a] > since(src, start)}
Expired == {a \in Articles : published[a] < time - Retention}

Init ==
    /\ time = 0 /\ step = "asleep" /\ pulled = {} /\ began = 0
    /\ cursor = [src \in Sources |-> -1] /\ floor = [src \in Sources |-> -Backfill]
    /\ lastMacro = -Backfill
    /\ items = {} /\ seen = {} /\ used = 0 /\ faults = 0

\* The crypto source, in a deployment that has its key: a call that fails gives
\* nothing.  DailyCounterBucket.acquire sleeps till midnight when the allowance
\* is used up, and the whole loop with it.
acquire(n) == n < DailyLimit
AskCrypto(ok) ==
    /\ step = "asleep" /\ acquire(used) /\ used' = used + 1
    /\ (ok \/ faults < MaxFaults) /\ faults' = faults + (IF ok THEN 0 ELSE 1)
    /\ pulled' = (IF ok THEN fetch_recent("crypto", time, time) ELSE {})
    /\ step' = "macro" /\ began' = time
    /\ UNCHANGED <<time, cursor, floor, lastMacro, items, seen>>
PutOff ==
    /\ step = "asleep" /\ ~acquire(used) /\ step' = "midnight" /\ began' = time
    /\ UNCHANGED <<time, pulled, cursor, floor, lastMacro, items, seen, used, faults>>

\* The system is paused, or the iteration ends in an exception before the
\* macro source is asked: its articles are dropped.
NoTick ==
    /\ step \in {"asleep", "macro"} /\ step' = "over" /\ pulled' = {}
    /\ faults < MaxFaults /\ faults' = faults + 1
    /\ UNCHANGED <<time, began, cursor, floor, lastMacro, items, seen, used>>

\* The macro source when it is due: a feed that fails gives nothing.
due == time - lastMacro >= Macro
AskMacro(ok) ==
    /\ step = "macro" /\ due /\ (ok \/ faults < MaxFaults)
    /\ faults' = faults + (IF ok THEN 0 ELSE 1)
    /\ pulled' = pulled \cup (IF ok THEN fetch_recent("macro", began, time) ELSE {})
    /\ step' = "store"
    /\ UNCHANGED <<time, began, cursor, floor, lastMacro, items, seen, used>>
NotDue ==
    /\ step = "macro" /\ ~due /\ step' = "store"
    /\ UNCHANGED <<time, pulled, began, cursor, floor, lastMacro, items, seen, used, faults>>

MUT_Store(ok) ==
    /\ step = "store" /\ (ok \/ (faults < MaxFaults /\ pulled # {}))
    /\ faults' = faults + (IF ok THEN 0 ELSE 1)
    /\ seen' = seen \cup pulled
    /\ items' = (IF ok THEN items \cup pulled ELSE items)
    /\ step' = "cursor"
    /\ UNCHANGED <<time, pulled, began, cursor, floor, lastMacro, used>>

\* persist_news_items: one transaction, and an article already there stays as
\* it is.  A failure, of the classifier or the database, ends the iteration;
\* a commit that raised may have reached the database.
Store(ok) ==
    /\ step = "store" /\ (ok \/ (faults < MaxFaults /\ pulled # {}))
    /\ faults' = faults + (IF ok THEN 0 ELSE 1)
    /\ seen' = seen \cup pulled
    /\ items' \in {items \cup pulled} \cup (IF ok THEN {} ELSE {items})
    /\ step' = (IF ok THEN "cursor" ELSE "over")
    /\ pulled' = (IF ok THEN pulled ELSE {})
    /\ UNCHANGED <<time, began, cursor, floor, lastMacro, used>>

MUT_moved(b) ==
    [src \in Sources |-> IF b = {} THEN cursor[src] ELSE Max({published[a] : a \in b})]

\* Each source that gave articles has its cursor at its newest one.
moved(b) ==
    [src \in Sources |-> LET mine == b \cap Of(src)
                         IN IF mine = {} THEN cursor[src]
                            ELSE Max({published[a] : a \in mine})]
\* The iteration is over: the macro interval starts again if it has passed,
\* by the time it is now.
MoveCursor ==
    /\ step = "cursor" /\ cursor' = moved(pulled) /\ pulled' = {}
    /\ floor' = [src \in Sources |->
           IF cursor[src] = -1 THEN began - Backfill ELSE floor[src]]
    /\ lastMacro' = (IF due THEN time ELSE lastMacro)
    /\ step' = "over"
    /\ UNCHANGED <<time, began, items, seen, used, faults>>

\* run_news_cleanup_loop, unless paused.
Cleanup ==
    /\ items \cap Expired # {} /\ items' = items \ Expired
    /\ UNCHANGED <<time, step, pulled, began, cursor, floor, lastMacro, seen, used, faults>>

Restart ==
    /\ faults < MaxFaults /\ faults' = faults + 1
    /\ step' = "asleep" /\ pulled' = {} /\ began' = time /\ seen' = {}
    /\ cursor' = [src \in Sources |-> -1] /\ floor' = [src \in Sources |-> -Backfill]
    /\ lastMacro' = time - Backfill
    /\ used' = 0
    /\ UNCHANGED <<time, items>>

\* Time passes while the loop sleeps, and while it waits for a source.
Tick ==
    /\ time < MaxTime /\ time' = time + 1
    /\ step \in {"over", "macro", "midnight"}
    /\ LET midnight == (time + 1) % Day = 0
           woken == step = "midnight" /\ midnight
       IN \* after the sleep the call is counted without a look at the limit
          /\ used' = (IF woken THEN 1 ELSE IF midnight THEN 0 ELSE used)
          /\ step' = (IF woken THEN "macro" ELSE IF step = "over" THEN "asleep" ELSE step)
          /\ pulled' = (IF woken THEN fetch_recent("crypto", began, time + 1) ELSE pulled)
    /\ UNCHANGED <<began, cursor, floor, lastMacro, items, seen, faults>>

Next ==
    \/ \E ok \in BOOLEAN : AskCrypto(ok) \/ AskMacro(ok) \/ Store(ok)
    \/ NoTick \/ PutOff \/ NotDue \/ MoveCursor \/ Cleanup \/ Restart \/ Tick

Spec == Init /\ [][Next]_newsVars

TypeOK ==
    /\ time \in 0..MaxTime /\ step \in {"asleep", "midnight", "macro", "store", "cursor", "over"}
    /\ pulled \subseteq Articles /\ items \subseteq Articles /\ seen \subseteq Articles
    /\ cursor \in [Sources -> -1..MaxTime] /\ used \in 0..DailyLimit /\ began \in 0..MaxTime
    /\ faults \in 0..MaxFaults

\* A cursor never passes an article the process has fetched and not stored,
\* whichever call failed in between; but a process that starts without one and
\* stores nothing for the whole backfill leaves the older ones behind.
NothingFetchedIsLost ==
    \A a \in seen :
        floor[source[a]] < published[a] /\ published[a] <= cursor[source[a]]
            => a \in items \cup Expired

\* An article that bears a time and appears at once is stored when it is first
\* asked for, or asked for again: the cursor only hides what appeared after
\* another article of its source that bears no earlier time.
OnlyLateIsHidden ==
    \A a \in Articles \ (items \cup Expired) :
        floor[source[a]] < published[a] /\ published[a] <= cursor[source[a]]
            => \E b \in Of(source[a]) :
                   published[b] >= published[a] /\ appears[b] < appears[a]
=============================================================================
