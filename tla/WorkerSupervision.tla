------------------------- MODULE WorkerSupervision -------------------------
(***************************************************************************)
(* The self-healing of the backend's background tasks: the tasks main.py's *)
(* lifespan spawns, the supervisor that can replace one, the heartbeat     *)
(* rows, and the watchdog that reads them, restarts what looks dead and    *)
(* alerts.  All of them share one event loop, so a step runs between two   *)
(* awaits.                                                                 *)
(***************************************************************************)
EXTENDS Naturals, Sequences, FiniteSets

CONSTANTS
    Registry,    \* WORKER_REGISTRY: a sequence of worker names
    Supervised,  \* workers spawned through worker_supervisor.register
    Stateful,    \* spec.stateful: alert only
    SingleShot,  \* spec.single_shot: one heartbeat, then the end
    Daily,       \* max_staleness_seconds of 12 hours or more
    Excused,     \* env gates closed: expected_absent or expected_dormant
    Pending,     \* spec.pending_heartbeat
    MaxFaults    \* bound on what goes wrong

Workers == {Registry[i] : i \in DOMAIN Registry}

VARIABLES
    task,      \* task[w]: the task the supervisor (or main.py) keeps for w
    original,  \* workers whose kept task is still the one main.py spawned
    stray,     \* workers with an earlier task nobody waited for
    cancelled, \* workers whose kept task has an undelivered cancel()
    failing,   \* workers whose work fails on every cycle
    beat,      \* beat[w]: age of w's heartbeat row
    status,    \* status[w]: last_status of that row
    unseen,    \* workers with a beat_at the watchdog has not recorded yet
    errorStreak, \* _ERROR_STREAKS, saturated at the largest threshold
    young,     \* container uptime is below SINGLE_SHOT_GRACE_SECONDS
    wd,        \* where the watchdog's loop stands
    wdCancel,  \* the watchdog has an undelivered cancel()
    todo,      \* workers this pass still has to look at
    verdict,   \* the statuses of this pass
    result,    \* restart_results of this pass
    alert,     \* level of this pass's alert
    stopping,  \* lifespan's finally block has run
    faults

taskVars == <<task, original, stray, cancelled>>
rowVars  == <<beat, status, unseen>>
wdVars   == <<wd, wdCancel, todo, verdict, result, alert>>
vars == <<taskVars, failing, rowVars, errorStreak, young, wdVars, stopping, faults>>

\* "hung" waits for something that never comes, but honours a cancel; "deaf" got
\* its cancel and hangs in its clean-up; "none" is the empty slot a failed
\* factory leaves.
Tasks == {"running", "hung", "deaf", "ended", "none"}
Gone(w) == task[w] \in {"ended", "none"}

BadStates == {"stale", "never_heartbeated", "single_shot_never_completed",
              "single_shot_failed", "heartbeat_error"}
GoodStates == {"expected", "starting", "single_shot_completed", "no_signal",
               "pending_heartbeat", "ok"}

Fault   == faults < MaxFaults /\ faults' = faults + 1
NoFault == UNCHANGED faults

Init ==
    /\ task = [w \in Workers |-> "running"]
    /\ original = Workers /\ stray = {} /\ cancelled = {} /\ failing = {}
    /\ beat \in [Workers -> {"never", "stale"}]
    /\ status = [w \in Workers |-> "ok"] /\ unseen = Workers
    /\ errorStreak = [w \in Workers |-> 0]
    /\ young = TRUE
    /\ wd = "sleeping" /\ wdCancel = FALSE
    /\ todo = <<>>
    /\ verdict = [w \in Workers |-> "ok"]
    /\ result = [w \in Workers |-> "none"]
    /\ alert = "none"
    /\ stopping = FALSE
    /\ faults = 0

-----------------------------------------------------------------------------
(* The workers. *)

\* A cycle ends in record_heartbeat; a single-shot task ends with it.
Beat(w) ==
    /\ task[w] = "running" /\ w \notin cancelled
    /\ w \in SingleShot => beat[w] # "fresh"
    /\ beat' = [beat EXCEPT ![w] = "fresh"]
    /\ status' = [status EXCEPT ![w] =
           IF w \in failing THEN "error"
           ELSE IF w \in SingleShot THEN "single_shot_completed" ELSE "ok"]
    /\ unseen' = unseen \cup {w}
    /\ task' = IF w \in SingleShot THEN [task EXCEPT ![w] = "ended"] ELSE task
    /\ NoFault
    /\ UNCHANGED <<original, stray, cancelled, failing, errorStreak, young, wdVars, stopping>>

\* A worker begins to fail every cycle, or recovers.
Sicken(w) ==
    /\ w \notin failing /\ failing' = failing \cup {w}
    /\ Fault
    /\ UNCHANGED <<taskVars, rowVars, errorStreak, young, wdVars, stopping>>

Recover(w) ==
    /\ w \in failing /\ failing' = failing \ {w}
    /\ NoFault
    /\ UNCHANGED <<taskVars, rowVars, errorStreak, young, wdVars, stopping>>

\* An exception escapes the loop, or an await never returns, or a single-shot
\* task is over although its heartbeat write failed.
Break(w) ==
    /\ task[w] = "running"
    /\ \E t \in {"ended", "hung"} :
           task' = [task EXCEPT ![w] = t]
    /\ Fault
    /\ UNCHANGED <<original, stray, cancelled, failing, rowVars, errorStreak, young, wdVars, stopping>>

\* A cancel() is delivered at the task's next await, which ends the task unless
\* its clean-up awaits something that never comes; such a task may ignore every
\* further cancel as well.
CancelDelivered(w) ==
    /\ w \in cancelled /\ task[w] \in {"running", "hung", "deaf"}
    /\ \/ task' = [task EXCEPT ![w] = "ended"] /\ NoFault
       \/ /\ task' = [task EXCEPT ![w] = "deaf"]
          /\ IF task[w] = "deaf" THEN NoFault ELSE Fault
    /\ cancelled' = cancelled \ {w}
    /\ UNCHANGED <<original, stray, failing, rowVars, errorStreak, young, wdVars, stopping>>

\* The clean-up comes to its end after all; nothing says that it must.
CleanedUp(w) ==
    /\ task[w] = "deaf" /\ task' = [task EXCEPT ![w] = "ended"]
    /\ NoFault
    /\ UNCHANGED <<original, stray, cancelled, failing, rowVars, errorStreak, young, wdVars, stopping>>

\* Time passes beyond max_staleness_seconds.  A worker at work beats in time
\* but for a slow cycle.
Age(w) ==
    /\ beat[w] = "fresh" /\ beat' = [beat EXCEPT ![w] = "stale"]
    /\ IF task[w] = "running" THEN Fault ELSE NoFault
    /\ UNCHANGED <<taskVars, failing, status, unseen, errorStreak, young, wdVars, stopping>>

GraceEnds ==
    /\ young /\ young' = FALSE
    /\ NoFault
    /\ UNCHANGED <<taskVars, failing, rowVars, errorStreak, wdVars, stopping>>

-----------------------------------------------------------------------------
(* The watchdog. *)

Threshold(w) == IF w \in Daily THEN 1 ELSE 2

\* _record_error_streak: only a beat not looked at before counts.
NextStreak(w) ==
    IF w \in unseen /\ errorStreak[w] < 2 THEN errorStreak[w] + 1 ELSE errorStreak[w]

Classify(w) ==
    IF w \in Excused THEN "expected"
    ELSE IF w \in SingleShot THEN
        IF beat[w] = "never"
        THEN IF young THEN "starting" ELSE "single_shot_never_completed"
        ELSE IF status[w] = "single_shot_completed" THEN "single_shot_completed"
        ELSE "single_shot_failed"
    ELSE IF beat[w] = "never" THEN
        IF w \in Pending THEN "pending_heartbeat" ELSE "never_heartbeated"
    ELSE IF beat[w] = "stale" THEN "stale"
    ELSE IF status[w] = "error" /\ NextStreak(w) >= Threshold(w)
         THEN "heartbeat_error" ELSE "ok"

\* Only a loop worker with a fresh row reaches the error-streak bookkeeping.
CountsStreak(w) == w \notin Excused \cup SingleShot /\ beat[w] = "fresh"

Wake ==
    /\ wd = "sleeping" /\ ~wdCancel
    /\ wd' = "checking" /\ todo' = Registry
    /\ NoFault
    /\ UNCHANGED <<taskVars, failing, rowVars, errorStreak, young, wdCancel, verdict, result, alert, stopping>>

Check ==
    /\ wd = "checking" /\ ~wdCancel /\ todo # <<>>
    /\ LET w == Head(todo) IN
       /\ verdict' = [verdict EXCEPT ![w] = Classify(w)]
       /\ unseen' = IF CountsStreak(w) THEN unseen \ {w} ELSE unseen
       /\ errorStreak' = IF CountsStreak(w)
                    THEN [errorStreak EXCEPT ![w] =
                              IF status[w] = "error" THEN NextStreak(w) ELSE 0]
                    ELSE errorStreak
    /\ todo' = Tail(todo)
    /\ NoFault
    /\ UNCHANGED <<taskVars, failing, beat, status, young, wd, wdCancel, result, alert, stopping>>

\* The query raises.  No liveness row is no_signal; the second query, for
\* last_status, failing clears the streak and reads as healthy.
CheckFails ==
    /\ wd = "checking" /\ ~wdCancel /\ todo # <<>>
    /\ LET w == Head(todo) IN
       \/ /\ w \notin Excused
          /\ verdict' = [verdict EXCEPT ![w] =
                 IF w \notin SingleShot THEN "no_signal"
                 ELSE IF young THEN "starting" ELSE "single_shot_never_completed"]
          /\ UNCHANGED errorStreak
       \/ /\ CountsStreak(w)
          /\ verdict' = [verdict EXCEPT ![w] = "ok"]
          /\ errorStreak' = [errorStreak EXCEPT ![w] = 0]
    /\ todo' = Tail(todo)
    /\ Fault
    /\ UNCHANGED <<taskVars, failing, rowVars, young, wd, wdCancel, result, alert, stopping>>

MUT_IsBad(w) == verdict[w] \in BadStates \ {"stale"}
IsBad(w) == verdict[w] \in BadStates

CheckDone ==
    /\ wd = "checking" /\ ~wdCancel /\ todo = <<>>
    /\ todo' = Registry
    /\ wd' = IF \E w \in Workers : IsBad(w) THEN "healing" ELSE "beating"
    /\ NoFault
    /\ UNCHANGED <<taskVars, failing, rowVars, errorStreak, young, wdCancel, verdict, result, alert, stopping>>

\* The next dead worker: alert only, or cancel its task and wait for the end.
Heal ==
    /\ wd = "healing" /\ todo # <<>>
    /\ LET w == Head(todo) IN
       \/ /\ ~IsBad(w) /\ todo' = Tail(todo)
          /\ UNCHANGED <<cancelled, wd, result>>
       \/ /\ IsBad(w) /\ w \notin Supervised
          /\ result' = [result EXCEPT ![w] =
                 IF w \in Stateful THEN "alert_only" ELSE "not_supervised"]
          /\ todo' = Tail(todo)
          /\ UNCHANGED <<cancelled, wd>>
       \/ /\ IsBad(w) /\ w \in Supervised /\ ~Gone(w)
          /\ cancelled' = cancelled \cup {w}
          /\ wd' = "waiting"
          /\ UNCHANGED <<result, todo>>
    /\ NoFault
    /\ UNCHANGED <<task, original, stray, failing, rowVars, errorStreak, young, wdCancel, verdict, alert, stopping>>

\* asyncio.wait_for: when the timer fires, or a cancel of the watchdog itself
\* interrupts the wait, the old task is cancelled once more and awaited without
\* a limit; the interrupting cancel is raised only after that.
GiveUpWaiting ==
    /\ wd = "waiting" /\ todo # <<>> /\ ~Gone(Head(todo))
    /\ cancelled' = cancelled \cup {Head(todo)}
    /\ wd' = "expired" /\ wdCancel' = FALSE
    /\ NoFault
    /\ UNCHANGED <<task, original, stray, failing, rowVars, errorStreak, young, todo, verdict, result, alert, stopping>>

\* The await of restart is over: the old task is done, or a cancel of the
\* watchdog comes in the second wait, which gives way to it.
MUT_WaitOver(w) == Gone(w) \/ wd = "expired"
WaitOver(w) == Gone(w) \/ (wd = "expired" /\ wdCancel)

\* The factory half of restart; a factory that raises leaves an empty slot.  A
\* cancel of the watchdog is taken for the old task's and swallowed.
Respawn ==
    /\ wd \in {"healing", "waiting", "expired"} /\ todo # <<>>
    /\ LET w == Head(todo) IN
       /\ IsBad(w) /\ w \in Supervised /\ WaitOver(w)
       /\ stray' = IF Gone(w) THEN stray ELSE stray \cup {w}
       /\ original' = original \ {w}
       /\ cancelled' = cancelled \ {w}
       /\ \/ /\ task' = [task EXCEPT ![w] = "running"]
             /\ result' = [result EXCEPT ![w] = "restarted"]
             /\ NoFault
          \/ /\ task' = [task EXCEPT ![w] = "none"]
             /\ result' = [result EXCEPT ![w] = "restart_FAILED"]
             /\ Fault
    /\ wdCancel' = FALSE
    /\ todo' = Tail(todo) /\ wd' = "healing"
    /\ UNCHANGED <<failing, rowVars, errorStreak, young, verdict, alert, stopping>>

\* One alert for the whole pass; only an all-restarted pass is a warning.
MUT_AlertLevel ==
    IF \E w \in Workers : IsBad(w) /\ result[w] = "restarted"
    THEN "warning" ELSE "critical"
AlertLevel ==
    IF \A w \in Workers : IsBad(w) => result[w] = "restarted"
    THEN "warning" ELSE "critical"

Alert ==
    /\ wd = "healing" /\ todo = <<>>
    /\ alert' = AlertLevel
    /\ wd' = "alerting"
    /\ NoFault
    /\ UNCHANGED <<taskVars, failing, rowVars, errorStreak, young, wdCancel, todo, verdict, result, stopping>>

\* alert_admin returns, whether or not a channel took the message.
AlertSent ==
    /\ wd = "alerting" /\ ~wdCancel /\ wd' = "beating"
    /\ NoFault
    /\ UNCHANGED <<taskVars, failing, rowVars, errorStreak, young, wdCancel, todo, verdict, result, alert, stopping>>

\* The watchdog's own heartbeat, then the sleep.  The pass's locals are gone.
Rest ==
    /\ wd = "beating" /\ ~wdCancel /\ wd' = "sleeping"
    /\ verdict' = [w \in Workers |-> "ok"] /\ result' = [w \in Workers |-> "none"]
    /\ alert' = "none"
    /\ NoFault
    /\ UNCHANGED <<taskVars, failing, rowVars, errorStreak, young, wdCancel, todo, stopping>>

WatchdogEnds ==
    /\ wdCancel /\ wd \in {"sleeping", "checking", "alerting", "beating"}
    /\ wd' = "ended" /\ wdCancel' = FALSE
    /\ todo' = <<>> /\ verdict' = [w \in Workers |-> "ok"]
    /\ result' = [w \in Workers |-> "none"] /\ alert' = "none"
    /\ NoFault
    /\ UNCHANGED <<taskVars, failing, rowVars, errorStreak, young, stopping>>

\* lifespan's finally: cancel() on every task main.py has a handle of.  The
\* handles are those of start-up; a replacement is known to the supervisor only.
Handles == original

Shutdown ==
    /\ ~stopping /\ stopping' = TRUE /\ wd # "healing"
    /\ cancelled' = cancelled \cup {w \in Handles : ~Gone(w)}
    /\ wdCancel' = (wd # "ended")
    /\ NoFault
    /\ UNCHANGED <<task, original, stray, failing, rowVars, errorStreak, young, wd, todo, verdict, result, alert>>

Steady ==
    \/ Wake \/ Check \/ CheckDone \/ Heal \/ GiveUpWaiting \/ Respawn \/ Alert \/ AlertSent \/ Rest

\* Between the checks and the next await ("healing") the watchdog holds the
\* event loop.
Next ==
    \/ wd # "healing" /\ \E w \in Workers :
           \/ Beat(w) \/ Sicken(w) \/ Recover(w) \/ Break(w)
           \/ CancelDelivered(w) \/ CleanedUp(w) \/ Age(w)
    \/ GraceEnds \/ Steady \/ CheckFails \/ WatchdogEnds \/ Shutdown

Spec == Init /\ [][Next]_vars

\* The event loop runs every ready task, a live worker beats again within its
\* cadence, a cancel is delivered, and time passes.  Nothing makes a factory
\* or a query fail or a clean-up end, and nobody has to shut the process down.
Fairness ==
    /\ \A w \in Workers :
           /\ WF_vars(Beat(w)) /\ WF_vars(CancelDelivered(w))
           /\ WF_vars(task[w] # "running" /\ Age(w))
    /\ WF_vars(Steady)
    /\ WF_vars(WatchdogEnds)

FairSpec == Spec /\ Fairness

-----------------------------------------------------------------------------
(* Properties. *)

TypeOK ==
    /\ task \in [Workers -> Tasks]
    /\ original \subseteq Workers /\ stray \subseteq Workers
    /\ cancelled \subseteq Workers /\ failing \subseteq Workers
    /\ beat \in [Workers -> {"never", "fresh", "stale"}]
    /\ status \in [Workers -> {"ok", "error", "single_shot_completed"}]
    /\ unseen \subseteq Workers
    /\ errorStreak \in [Workers -> 0..2]
    /\ young \in BOOLEAN /\ wdCancel \in BOOLEAN /\ stopping \in BOOLEAN
    /\ wd \in {"sleeping", "checking", "healing", "waiting", "expired", "alerting", "beating", "ended"}
    /\ todo \in Seq(Workers)
    /\ verdict \in [Workers -> BadStates \cup GoodStates]
    /\ result \in [Workers -> {"none", "alert_only", "not_supervised", "restarted",
                               "restart_FAILED"}]
    /\ alert \in {"none", "warning", "critical"}
    /\ faults \in 0..MaxFaults

\* However long an old task takes to end, and whatever interrupts the wait for
\* it, restart leaves no two tasks of one worker while the program is up: only at
\* shutdown can a replacement start beside a task that hangs in its clean-up
\* (worker_supervisor.restart and the asyncio.wait_for it awaits).
OneInstance == stray # {} => stopping

\* A warning, which does not page, is sent only when every worker this pass
\* found dead has got a replacement in this pass (_alert_if_dead).
WarningMeansHealed ==
    [][(wd = "healing" /\ wd' = "alerting" /\ alert' = "warning")
       => \A w \in Workers : IsBad(w) => w \in Supervised \ original /\ task[w] # "none"]_vars

\* The wait that has no limit: the watchdog stands behind a task that got its
\* cancels and does not end.
Stuck == wd = "expired" /\ task[Head(todo)] = "deaf"

\* A task the supervisor may replace does not stay dead unnoticed: it runs
\* again, or a critical alert goes out, or the process is shut down, unless the
\* watchdog itself waits for ever (worker_watchdog._watchdog_loop, restart).
DeadWorkerHealed ==
    \A w \in Supervised \ (Excused \cup Pending) :
        task[w] \in {"hung", "deaf", "ended", "none"}
            ~> \/ task[w] = "running" \/ stopping \/ Stuck
               \/ wd = "alerting" /\ alert = "critical" /\ IsBad(w)

\* A worker that beats on time but fails every cycle is found out, by a watchdog
\* that goes on (Healer B1: such a worker used to look ok and stay blind).
BlindWorkerFound ==
    \A w \in Workers \ (Excused \cup SingleShot) :
        (<>[](w \in failing /\ task[w] = "running" /\ ~stopping))
            => []<>(verdict[w] = "heartbeat_error" \/ Stuck)
=============================================================================
