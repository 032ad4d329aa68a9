-------------------------- MODULE ValidationQueue --------------------------
(***************************************************************************)
(* The prediction validator: a 60-second loop that takes the oldest due    *)
(* predictions, looks up the close each one needs, and writes off what     *)
(* cannot be validated so that it stops blocking the rows behind it.  Each *)
(* pass is one transaction, then a queue-progress record of its own.       *)
(***************************************************************************)
EXTENDS Naturals, FiniteSets

CONSTANTS
    Rows,          \* prediction_validations rows: naturals in target_ts order
    Poison,        \* rows whose close can never be fetched
    BatchLimit,    \* batch_limit
    MaxAttempts,   \* MAX_VALIDATION_ATTEMPTS
    StallPasses,   \* STALL_ALARM_PASSES
    MaxFaults      \* bound on HTTP errors, database errors and restarts

VARIABLES
    state,         \* state[r] as committed
    attempts,      \* validation_attempts as committed
    batch,         \* rows of this pass still to be tried
    updates,       \* this pass's uncommitted updates: row -> [state, attempts]
    listed,        \* the listing caches are loaded in this process
    phase,         \* where the loop stands
    selected,      \* rows this pass selected
    streak,        \* _stall_streak
    onsets,        \* stall_onset rows written in this stall
    faults

passVars == <<batch, updates, phase, selected>>
vars == <<state, attempts, passVars, listed, streak, onsets, faults>>

Fault   == faults < MaxFaults /\ faults' = faults + 1
NoFault == UNCHANGED faults

Nothing == [r \in {} |-> [state |-> "due", attempts |-> 0]]

Init ==
    /\ state = [r \in Rows |-> "future"] /\ attempts = [r \in Rows |-> 0]
    /\ batch = {} /\ updates = Nothing
    /\ listed = FALSE /\ phase = "sleep" /\ selected = 0
    /\ streak = 0 /\ onsets = 0 /\ faults = 0

\* target_ts passes, in order.
FallDue(r) ==
    /\ state[r] = "future" /\ \A q \in Rows : q < r => state[q] # "future"
    /\ state' = [state EXCEPT ![r] = "due"]
    /\ NoFault
    /\ UNCHANGED <<attempts, passVars, listed, streak, onsets>>

\* futures_only_refresh completes a cycle.
ListingsLoad ==
    /\ ~listed /\ listed' = TRUE
    /\ NoFault
    /\ UNCHANGED <<state, attempts, passVars, streak, onsets>>

\* WHERE validated_at IS NULL AND unvalidatable_reason IS NULL
\*   AND target_ts <= :now ORDER BY target_ts LIMIT :lim
Eligible(r) == state[r] = "due"
MUT_Older(r) == {}
Older(r) == {q \in Rows : Eligible(q) /\ q < r}

Select ==
    /\ phase = "sleep"
    /\ batch' = {r \in Rows : Eligible(r) /\ Cardinality(Older(r)) < BatchLimit}
    /\ selected' = Cardinality(batch')
    /\ phase' = "rows" /\ updates' = Nothing
    /\ NoFault
    /\ UNCHANGED <<state, attempts, listed, streak, onsets>>

Stage(r, s, n) ==
    updates' = [q \in DOMAIN updates \cup {r} |->
        IF q = r THEN [state |-> s, attempts |-> n] ELSE updates[q]]

\* _note_attempt: the attempt that reaches the limit dead-letters the row.
MUT_NoteAttempt(r) == Stage(r, "due", attempts[r])
NoteAttempt(r) ==
    Stage(r, IF attempts[r] + 1 >= MaxAttempts THEN "dead" ELSE "due", attempts[r] + 1)

TryRow ==
    /\ phase = "rows" /\ batch # {}
    /\ \E r \in batch :
       /\ \A q \in batch : r <= q
       /\ batch' = batch \ {r}
       /\ \/ \* the market resolves and the bar is there
             /\ listed /\ r \notin Poison
             /\ Stage(r, "validated", attempts[r]) /\ NoFault
          \/ \* no bar, or no market: counted
             /\ ~listed \/ r \in Poison
             /\ NoteAttempt(r) /\ NoFault
          \/ \* a transient HTTP error is counted alike
             /\ listed /\ r \notin Poison
             /\ NoteAttempt(r) /\ Fault
    /\ UNCHANGED <<state, attempts, listed, phase, selected, streak, onsets>>

Commit ==
    /\ phase = "rows" /\ batch = {}
    /\ state' = [r \in Rows |-> IF r \in DOMAIN updates THEN updates[r].state ELSE state[r]]
    /\ attempts' = [r \in Rows |->
           IF r \in DOMAIN updates THEN updates[r].attempts ELSE attempts[r]]
    /\ phase' = "record"
    /\ NoFault
    /\ UNCHANGED <<batch, updates, listed, selected, streak, onsets>>

\* A database error aborts the transaction; the next statement on it raises
\* too, and the whole pass is rolled back, attempts included.
PassFails ==
    /\ phase = "rows"
    /\ phase' = "sleep" /\ batch' = {} /\ updates' = Nothing /\ selected' = 0
    /\ Fault
    /\ UNCHANGED <<state, attempts, listed, streak, onsets>>

Advanced == Cardinality({r \in DOMAIN updates : updates[r].state = "validated"})
Stalled  == selected > 0 /\ Advanced = 0

\* record_queue_pass in a session of its own.  The streak is memory and moves
\* even when the rows of the record are lost.
MUT_AtOnset(n) == n >= StallPasses
AtOnset(n) == n = StallPasses

RecordPass ==
    /\ phase = "record"
    /\ streak' = IF ~Stalled THEN 0 ELSE IF streak > StallPasses THEN streak ELSE streak + 1
    /\ onsets' = IF ~Stalled THEN 0
                 ELSE IF AtOnset(streak') /\ streak' # streak THEN onsets + 1 ELSE onsets
    /\ phase' = "sleep" /\ batch' = {} /\ updates' = Nothing /\ selected' = 0
    /\ NoFault
    /\ UNCHANGED <<state, attempts, listed>>

RecordLost ==
    /\ phase = "record"
    /\ streak' = IF ~Stalled THEN 0 ELSE IF streak > StallPasses THEN streak ELSE streak + 1
    /\ onsets' = IF ~Stalled THEN 0 ELSE onsets
    /\ phase' = "sleep" /\ batch' = {} /\ updates' = Nothing /\ selected' = 0
    /\ Fault
    /\ UNCHANGED <<state, attempts, listed>>

Restart ==
    /\ phase' = "sleep" /\ batch' = {} /\ updates' = Nothing /\ selected' = 0
    /\ listed' = FALSE /\ streak' = 0 /\ onsets' = 0
    /\ Fault
    /\ UNCHANGED <<state, attempts>>

Next ==
    \/ \E r \in Rows : FallDue(r)
    \/ ListingsLoad \/ Select \/ TryRow \/ Commit \/ PassFails
    \/ RecordPass \/ RecordLost \/ Restart

Spec == Init /\ [][Next]_vars

\* The loop keeps running; time passes; nothing keeps failing for ever.  The
\* listing refresher is another worker and may never succeed.
Fairness ==
    /\ WF_vars(Select) /\ WF_vars(TryRow /\ NoFault)
    /\ WF_vars(Commit) /\ WF_vars(RecordPass)
    /\ \A r \in Rows : WF_vars(FallDue(r))

FairSpec == Spec /\ Fairness

-----------------------------------------------------------------------------
(* Properties. *)

TypeOK ==
    /\ state \in [Rows -> {"future", "due", "validated", "dead"}]
    /\ attempts \in [Rows -> 0..MaxAttempts]
    /\ batch \subseteq Rows
    /\ DOMAIN updates \subseteq Rows
    /\ listed \in BOOLEAN /\ phase \in {"sleep", "rows", "record"}
    /\ selected \in 0..BatchLimit
    /\ streak \in 0..(StallPasses + 1) /\ onsets \in Nat
    /\ faults \in 0..MaxFaults

\* No row waits for ever behind rows that cannot be validated: the 53-day
\* outage of 2026-09-03 was a batch full of such rows (0045's docstring).
NobodyStarves ==
    <>[](\A r \in Rows : state[r] \in {"validated", "dead"})

\* The stall's onset is one event row per stall, not one per pass
\* (record_queue_pass).
OneOnsetPerStall == onsets <= 1
=============================================================================
