-------------------------- MODULE BackgroundProofs --------------------------
(* What holds of the background tasks for every value of the constants.      *)
EXTENDS Background, FiniteSetTheorems, WellFoundedInduction, TLAPS

-----------------------------------------------------------------------------
(* Finite sets of numbers.                                                   *)

\* A strict order on a finite set has a minimal element: the sets of what lies
\* below an element are finite, and one of them has no other inside it.
LEMMA MinimalOfFinite ==
    ASSUME NEW T, T # {}, IsFiniteSet(T), NEW R \in SUBSET (T \X T),
           \A x \in T : <<x, x>> \notin R,
           \A x, y, z \in T : <<x, y>> \in R /\ <<y, z>> \in R => <<x, z>> \in R
    PROVE  \E x \in T : \A y \in T : <<y, x>> \notin R
<1>. DEFINE Below(x) == {y \in T : <<y, x>> \in R}
            Family == {Below(x) : x \in T}
<1>1. IsWellFoundedOn(StrictSubsetOrdering(T), FiniteSubsetsOf(T))
  BY FS_StrictSubsetOrderingWellFounded
<1>2. Family \subseteq FiniteSubsetsOf(T) /\ Family # {}
  <2>1. \A x \in T : Below(x) \in SUBSET T
    OBVIOUS
  <2>2. \A x \in T : IsFiniteSet(Below(x))
    BY <2>1, FS_Subset
  <2>3. \A x \in T : Below(x) \in FiniteSubsetsOf(T)
    BY <2>1, <2>2 DEF FiniteSubsetsOf
  <2>4. \A x \in T : Below(x) \in Family
    OBVIOUS
  <2>5. \A C \in Family : \E x \in T : C = Below(x)
    OBVIOUS
  <2>. HIDE DEF Family, Below
  <2>. QED BY <2>3, <2>4, <2>5
<1>3. PICK B \in Family : \A C \in Family : ~ (<<C, B>> \in StrictSubsetOrdering(T))
  <2>. HIDE DEF Family
  <2>. QED BY <1>1, <1>2, WFMin
<1>4. PICK x \in T : B = Below(x)
  OBVIOUS
<1>5. ASSUME NEW y \in T, <<y, x>> \in R PROVE FALSE
  <2>1. Below(y) \in Family
    OBVIOUS
  <2>2. Below(y) \subseteq Below(x) /\ Below(y) # Below(x)
    <3>1. y \in Below(x) /\ y \notin Below(y)
      BY <1>5
    <3>2. \A z \in T : <<z, y>> \in R => <<z, x>> \in R
      BY <1>5
    <3>. QED BY <3>1, <3>2
  <2>3. <<Below(y), Below(x)>> \in StrictSubsetOrdering(T)
    BY <2>2 DEF StrictSubsetOrdering
  <2>. QED BY <2>1, <2>3, <1>3, <1>4
<1>. QED BY <1>5

\* A finite set of integers has a least and a greatest element.
LEMMA LeastOfFinite ==
    ASSUME NEW T \in SUBSET Int, T # {}, IsFiniteSet(T)
    PROVE  \E x \in T : \A y \in T : x <= y
<1>. DEFINE R == {p \in T \X T : p[1] < p[2]}
<1>1. \A x, y \in T : <<x, y>> \in R <=> x < y
  OBVIOUS
<1>2. R \in SUBSET (T \X T)
  OBVIOUS
<1>. HIDE DEF R
<1>3. /\ \A x \in T : <<x, x>> \notin R
      /\ \A x, y, z \in T : <<x, y>> \in R /\ <<y, z>> \in R => <<x, z>> \in R
  BY <1>1
<1>4. PICK x \in T : \A y \in T : <<y, x>> \notin R
  BY <1>2, <1>3, MinimalOfFinite
<1>5. \A y \in T : x <= y
  <2>1. \A y \in T : y \in Int
    OBVIOUS
  <2>2. \A y \in T : ~ (y < x)
    BY <1>1, <1>4, Zenon
  <2>. QED BY <2>1, <2>2
<1>. QED BY <1>5

LEMMA GreatestOfFinite ==
    ASSUME NEW T \in SUBSET Int, T # {}, IsFiniteSet(T)
    PROVE  \E x \in T : \A y \in T : y <= x
<1>. DEFINE R == {p \in T \X T : p[1] > p[2]}
<1>1. \A x, y \in T : <<x, y>> \in R <=> x > y
  OBVIOUS
<1>2. R \in SUBSET (T \X T)
  OBVIOUS
<1>. HIDE DEF R
<1>3. /\ \A x \in T : <<x, x>> \notin R
      /\ \A x, y, z \in T : <<x, y>> \in R /\ <<y, z>> \in R => <<x, z>> \in R
  BY <1>1
<1>4. PICK x \in T : \A y \in T : <<y, x>> \notin R
  BY <1>2, <1>3, MinimalOfFinite
<1>5. \A y \in T : y <= x
  <2>1. \A y \in T : y \in Int
    OBVIOUS
  <2>2. \A y \in T : ~ (y > x)
    BY <1>1, <1>4, Zenon
  <2>. QED BY <2>1, <2>2
<1>. QED BY <1>5

-----------------------------------------------------------------------------
(* The supervised workers.                                                   *)

\* Only a shutdown cancels the watchdog, and only a cancelled watchdog leaves a
\* task it did not wait for; what a pass reports as restarted is a replacement
\* the supervisor keeps, until the report is dropped.
WorkersInv ==
    /\ Workers!TypeOK
    /\ wdCancel \/ stray # {} => stopping
    /\ \A w \in Workers!Workers : result[w] = "restarted" =>
           w \in Supervised \ original /\ task[w] # "none"

LEMMA NobodyLeft == <<>> \in Seq(Workers!Workers)
  OBVIOUS

LEMMA WorkersStart == Workers!Init => WorkersInv
<1> SUFFICES ASSUME Workers!Init PROVE WorkersInv
  OBVIOUS
<1>1. beat \in [Workers!Workers -> {"never", "fresh", "stale"}]
  BY DEF Workers!Init
<1>2. faults \in 0..WorkerFaults
  BY BackgroundFaultsAssumption DEF Workers!Init
<1>3. todo \in Seq(Workers!Workers)
  BY NobodyLeft DEF Workers!Init
<1>4. /\ task \in [Workers!Workers -> Workers!Tasks]
      /\ status \in [Workers!Workers -> {"ok", "error", "single_shot_completed"}]
      /\ errorStreak \in [Workers!Workers -> 0..2]
  BY DEF Workers!Init, Workers!Tasks
<1>5. verdict \in [Workers!Workers -> Workers!BadStates \cup Workers!GoodStates]
  BY DEF Workers!Init, Workers!GoodStates
<1>6. result = [w \in Workers!Workers |-> "none"]
  BY DEF Workers!Init
<1>7. /\ original = Workers!Workers /\ stray = {} /\ cancelled = {} /\ failing = {}
      /\ unseen = Workers!Workers /\ young = TRUE /\ wd = "sleeping" /\ wdCancel = FALSE
      /\ alert = "none" /\ stopping = FALSE
  BY DEF Workers!Init
<1> QED
  BY <1>1, <1>2, <1>3, <1>4, <1>5, <1>6, <1>7 DEF WorkersInv, Workers!TypeOK

\* What the worker at the head of a list of workers is, and what is left.
LEMMA NextWorker ==
    ASSUME todo \in Seq(Workers!Workers), todo # <<>>
    PROVE  Head(todo) \in Workers!Workers /\ Tail(todo) \in Seq(Workers!Workers)
  OBVIOUS

LEMMA WorkersStep == ASSUME WorkersInv, Workers!Next PROVE WorkersInv'
<1> USE BackgroundFaultsAssumption, RegistryAssumption
    DEF WorkersInv, Workers!TypeOK, Workers!Tasks, Workers!NoFault, Workers!Fault,
        Workers!taskVars, Workers!rowVars, Workers!wdVars
<1>1. ASSUME NEW w \in Workers!Workers, Workers!Beat(w) PROVE WorkersInv'
  BY <1>1 DEF Workers!Beat
<1>2. ASSUME NEW w \in Workers!Workers, Workers!Sicken(w) PROVE WorkersInv'
  BY <1>2 DEF Workers!Sicken
<1>3. ASSUME NEW w \in Workers!Workers, Workers!Recover(w) PROVE WorkersInv'
  BY <1>3 DEF Workers!Recover
<1>4. ASSUME NEW w \in Workers!Workers, Workers!Break(w) PROVE WorkersInv'
  BY <1>4 DEF Workers!Break
<1>5. ASSUME NEW w \in Workers!Workers, Workers!CancelDelivered(w) PROVE WorkersInv'
  BY <1>5 DEF Workers!CancelDelivered
<1>6. ASSUME NEW w \in Workers!Workers, Workers!Age(w) PROVE WorkersInv'
  BY <1>6 DEF Workers!Age
<1>19. ASSUME NEW w \in Workers!Workers, Workers!CleanedUp(w) PROVE WorkersInv'
  BY <1>19 DEF Workers!CleanedUp
<1>20. ASSUME Workers!GiveUpWaiting PROVE WorkersInv'
  BY <1>20, NextWorker DEF Workers!GiveUpWaiting
<1>7. ASSUME Workers!GraceEnds PROVE WorkersInv'
  BY <1>7 DEF Workers!GraceEnds
<1>8. ASSUME Workers!Wake PROVE WorkersInv'
  BY <1>8 DEF Workers!Wake
<1>9. ASSUME Workers!Check PROVE WorkersInv'
<2>1. Head(todo) \in Workers!Workers /\ todo' \in Seq(Workers!Workers)
  BY <1>9, NextWorker DEF Workers!Check
<2>2. Workers!Classify(Head(todo)) \in Workers!BadStates \cup Workers!GoodStates
  BY DEF Workers!Classify, Workers!BadStates, Workers!GoodStates
<2>3. verdict' \in [Workers!Workers -> Workers!BadStates \cup Workers!GoodStates]
  BY <1>9, <2>1, <2>2 DEF Workers!Check
<2>4. unseen' \subseteq Workers!Workers /\ errorStreak' \in [Workers!Workers -> 0..2]
  BY <1>9, <2>1 DEF Workers!Check, Workers!NextStreak, Workers!CountsStreak
<2> QED
  BY <1>9, <2>1, <2>3, <2>4 DEF Workers!Check
<1>10. ASSUME Workers!CheckFails PROVE WorkersInv'
<2>1. Head(todo) \in Workers!Workers /\ todo' \in Seq(Workers!Workers)
  BY <1>10, NextWorker DEF Workers!CheckFails
<2>2. PICK v \in {"no_signal", "starting", "single_shot_never_completed", "ok"} :
          verdict' = [verdict EXCEPT ![Head(todo)] = v]
  BY <1>10 DEF Workers!CheckFails
<2>3. errorStreak' = errorStreak \/ errorStreak' = [errorStreak EXCEPT ![Head(todo)] = 0]
  BY <1>10 DEF Workers!CheckFails
<2>4. verdict' \in [Workers!Workers -> Workers!BadStates \cup Workers!GoodStates]
      /\ errorStreak' \in [Workers!Workers -> 0..2] /\ faults' \in 0..WorkerFaults
<3>1. v \in Workers!BadStates \cup Workers!GoodStates
  BY DEF Workers!BadStates, Workers!GoodStates
<3>2. verdict' \in [Workers!Workers -> Workers!BadStates \cup Workers!GoodStates]
  BY <2>1, <2>2, <3>1
<3>3. errorStreak' \in [Workers!Workers -> 0..2]
  BY <2>1, <2>3
<3> QED BY <3>2, <3>3, <1>10 DEF Workers!CheckFails
<2> QED
  BY <1>10, <2>1, <2>4 DEF Workers!CheckFails
<1>11. ASSUME Workers!CheckDone PROVE WorkersInv'
  BY <1>11 DEF Workers!CheckDone
<1>12. ASSUME Workers!Heal PROVE WorkersInv'
  BY <1>12, NextWorker DEF Workers!Heal
<1>13. ASSUME Workers!Respawn PROVE WorkersInv'
<2> DEFINE w == Head(todo)
<2>1. w \in Supervised /\ todo' = Tail(todo) /\ todo' \in Seq(Workers!Workers)
  BY <1>13, NextWorker DEF Workers!Respawn
<2>2. stray' \subseteq Workers!Workers /\ (stray' # {} => stopping)
<3>1. CASE Workers!Gone(w)
  BY <1>13, <3>1 DEF Workers!Respawn
<3>2. CASE ~ Workers!Gone(w)
<4>1. wdCancel /\ stray' = stray \cup {w} /\ w \in Workers!Workers
  BY <1>13, <3>2, NextWorker DEF Workers!Respawn, Workers!WaitOver
<4> QED BY <4>1
<3> QED BY <3>1, <3>2
<2>3. original' = original \ {w} /\ cancelled' = cancelled \ {w}
  BY <1>13 DEF Workers!Respawn
<2>4. \/ task' = [task EXCEPT ![w] = "running"] /\ result' = [result EXCEPT ![w] = "restarted"]
      \/ task' = [task EXCEPT ![w] = "none"] /\ result' = [result EXCEPT ![w] = "restart_FAILED"]
  BY <1>13 DEF Workers!Respawn
<2>5. faults' \in 0..WorkerFaults
  BY <1>13 DEF Workers!Respawn
<2>6. wdCancel' = FALSE /\ wd' = "healing"
      /\ UNCHANGED <<failing, beat, status, unseen, errorStreak, young, verdict, alert, stopping>>
  BY <1>13 DEF Workers!Respawn
<2> QED
  BY <2>1, <2>2, <2>3, <2>4, <2>5, <2>6
<1>14. ASSUME Workers!Alert PROVE WorkersInv'
  BY <1>14 DEF Workers!Alert, Workers!AlertLevel
<1>15. ASSUME Workers!AlertSent PROVE WorkersInv'
  BY <1>15 DEF Workers!AlertSent
<1>16. ASSUME Workers!Rest PROVE WorkersInv'
  BY <1>16 DEF Workers!Rest, Workers!BadStates, Workers!GoodStates
<1>17. ASSUME Workers!WatchdogEnds PROVE WorkersInv'
  BY <1>17, NobodyLeft DEF Workers!WatchdogEnds, Workers!BadStates, Workers!GoodStates
<1>18. ASSUME Workers!Shutdown PROVE WorkersInv'
  BY <1>18 DEF Workers!Shutdown, Workers!Handles
<1> QED
  BY <1>1, <1>2, <1>3, <1>4, <1>5, <1>6, <1>7, <1>8, <1>9, <1>10, <1>11, <1>12,
     <1>13, <1>14, <1>15, <1>16, <1>17, <1>18, <1>19, <1>20 DEF Workers!Next, Workers!Steady

LEMMA WorkersMove ==
    ASSUME [Next]_vars
    PROVE  /\ UNCHANGED part
           /\ part = "workers" => Workers!Next \/ UNCHANGED vars
           /\ (part = "workers" /\ Workers!Next) \/ UNCHANGED workersOnly
  BY DEF Next, TaskNext, DeskNext, vars, tasksOnly, deskOnly

\* While another part moves, the workers are as they began.
WorkersHold == IF part = "workers" THEN WorkersInv ELSE stray # {} => stopping

LEMMA WorkersStay == Spec => []WorkersHold
<1>1. Init => WorkersHold
  BY WorkersStart DEF Init, WorkersHold, WorkersInv
<1>2. WorkersHold /\ [Next]_vars => WorkersHold'
<2> SUFFICES ASSUME WorkersHold, [Next]_vars PROVE WorkersHold'
  OBVIOUS
<2>1. CASE part = "workers" /\ Workers!Next
  BY <2>1, WorkersStep, WorkersMove DEF WorkersHold
<2>2. CASE UNCHANGED vars
  BY <2>2 DEF WorkersHold, WorkersInv, Workers!TypeOK, vars, tasksOnly, workersOnly
<2>3. CASE part # "workers"
  BY <2>3, WorkersMove DEF WorkersHold, workersOnly
<2> QED
  BY <2>1, <2>2, <2>3, WorkersMove
<1> QED
  BY <1>1, <1>2, PTL DEF Spec

\* However long an old task takes to end, no worker gets a second task before
\* the program is shut down (worker_supervisor.restart).
THEOREM OneTaskEach == Spec => []OneInstance
<1>1. WorkersHold => OneInstance
  BY DEF WorkersHold, WorkersInv, OneInstance, Workers!OneInstance
<1> QED
  BY <1>1, WorkersStay, PTL

\* An alert is a mere warning only when all it is about has been replaced
\* (worker_watchdog._alert_if_dead).
THEOREM WarningsHealed == Spec => WarningMeansHealed
<1> DEFINE Healing ==
        (wd = "healing" /\ wd' = "alerting" /\ alert' = "warning") =>
            \A w \in Workers!Workers : Workers!IsBad(w) =>
                w \in Supervised \ original /\ task[w] # "none"
<1>1. WorkersHold /\ [Next]_vars => [Healing]_(Workers!vars)
<2> SUFFICES ASSUME WorkersHold, [Next]_vars, wd = "healing", wd' = "alerting",
                    alert' = "warning",
                    NEW w \in Workers!Workers, Workers!IsBad(w)
             PROVE  w \in Supervised \ original /\ task[w] # "none"
  OBVIOUS
<2>1. part = "workers" /\ Workers!Next
  BY WorkersMove DEF workersOnly
<2>2. Workers!Alert
  BY <2>1 DEF Workers!Next, Workers!Steady, Workers!Wake, Workers!Check, Workers!CheckDone,
     Workers!Heal, Workers!GiveUpWaiting, Workers!Respawn, Workers!AlertSent, Workers!Rest, Workers!CheckFails,
     Workers!WatchdogEnds, Workers!Shutdown, Workers!GraceEnds, Workers!wdVars
<2>3. result[w] = "restarted"
  BY <2>2, Zenon DEF Workers!Alert, Workers!AlertLevel
<2> QED
  BY <2>1, <2>3 DEF WorkersHold, WorkersInv
<1>2. Spec => [][Healing]_(Workers!vars)
  BY <1>1, WorkersStay, PTL DEF Spec
<1> QED
  BY <1>2 DEF WarningMeansHealed, Workers!WarningMeansHealed

-----------------------------------------------------------------------------
(* The validation queue.                                                     *)

\* A row that may still be tried has an attempt left, the rows of a pass are
\* such rows, and what the pass has noted leaves them one; a stall of one onset
\* is at least as long as the alarm needs.
QueueInv ==
    /\ Queue!TypeOK
    /\ \A r \in Rows : state[r] \in {"future", "due"} => attempts[r] < MaxAttempts
    /\ \A r \in batch : state[r] = "due"
    /\ \A r \in DOMAIN updates :
           /\ updates[r].state \in {"due", "validated", "dead"}
           /\ updates[r].attempts \in 0..MaxAttempts
           /\ updates[r].state = "due" => updates[r].attempts < MaxAttempts
    /\ onsets = 0 \/ (onsets = 1 /\ streak >= StallPasses)

LEMMA QueueStart == Queue!Init => QueueInv
<1> SUFFICES ASSUME Queue!Init PROVE QueueInv
  OBVIOUS
<1> USE QueueAssumption, BackgroundFaultsAssumption
<1>1. DOMAIN updates = {} /\ batch = {} /\ listed = FALSE
  BY DEF Queue!Init, Queue!Nothing
<1>2. faults \in 0..QueueFaults /\ selected \in 0..BatchLimit
      /\ streak \in 0..(StallPasses + 1) /\ onsets = 0
  BY DEF Queue!Init
<1>3. state = [r \in Rows |-> "future"] /\ attempts = [r \in Rows |-> 0]
      /\ phase = "sleep"
  BY DEF Queue!Init
<1>4. state \in [Rows -> {"future", "due", "validated", "dead"}]
      /\ attempts \in [Rows -> 0..MaxAttempts]
  BY <1>3
<1>5. Queue!TypeOK
  BY <1>1, <1>2, <1>3, <1>4 DEF Queue!TypeOK
<1>6. \A r \in Rows : attempts[r] < MaxAttempts
  BY <1>3
<1> QED
  BY <1>1, <1>2, <1>5, <1>6 DEF QueueInv

\* The module the queue is described in counts as this one does.
LEMMA QueueCounts == ASSUME NEW S PROVE Queue!Cardinality(S) = Cardinality(S)
  BY DEF Queue!Cardinality, Cardinality

\* A pass takes no more rows than its limit: the last of them has fewer rows
\* before it, and all the others are among those.
LEMMA BatchBounded ==
    ASSUME NEW B, B = {r \in Rows : Queue!Eligible(r) /\ Cardinality(Queue!Older(r)) < BatchLimit}
    PROVE  Cardinality(B) \in 0..BatchLimit
<1>1. B \in SUBSET Int /\ IsFiniteSet(B)
<2>1. B \in SUBSET Rows
  OBVIOUS
<2>2. Rows \subseteq Int /\ IsFiniteSet(Rows)
  BY QueueAssumption
<2>3. IsFiniteSet(B)
  BY <2>1, <2>2, FS_Subset
<2> QED
  BY <2>1, <2>2, <2>3, Zenon
<1>2. CASE B = {}
<2>1. Cardinality(B) = 0
  BY <1>2, FS_EmptySet
<2> QED
  BY <2>1, QueueAssumption
<1>3. CASE B # {}
<2>1. PICK last \in B : \A r \in B : r <= last
  BY <1>1, <1>3, GreatestOfFinite
<2> DEFINE O == Queue!Older(last)
<2>2. O \in SUBSET Rows /\ IsFiniteSet(O)
  BY QueueAssumption, FS_Subset DEF Queue!Older
<2>3. \A r \in B : r \in O \cup {last}
  BY <2>1, QueueAssumption DEF Queue!Older
<2>4. Cardinality(O) < BatchLimit /\ Cardinality(O) \in Nat
  BY <2>2, FS_CardinalityType
<2>5. IsFiniteSet(O \cup {last}) /\ Cardinality(O \cup {last}) <= Cardinality(O) + 1
  <3> HIDE DEF O
  <3> QED BY <2>2, <2>4, FS_AddElement
<2>6. Cardinality(B) <= Cardinality(O \cup {last}) /\ Cardinality(B) \in Nat
      /\ Cardinality(O \cup {last}) \in Nat
  <3> HIDE DEF O
  <3> QED BY <2>3, <2>5, <1>1, FS_Subset, FS_CardinalityType
<2> HIDE DEF O
<2> QED
  BY <2>4, <2>5, <2>6, QueueAssumption
<1> QED
  BY <1>2, <1>3

LEMMA QueueStep == ASSUME QueueInv, Queue!Next PROVE QueueInv'
<1> USE QueueAssumption, BackgroundFaultsAssumption
    DEF QueueInv, Queue!TypeOK, Queue!NoFault, Queue!Fault, Queue!passVars
<1>1. ASSUME NEW r \in Rows, Queue!FallDue(r) PROVE QueueInv'
  BY <1>1 DEF Queue!FallDue
<1>2. ASSUME Queue!ListingsLoad PROVE QueueInv'
  BY <1>2 DEF Queue!ListingsLoad
<1>3. ASSUME Queue!Select PROVE QueueInv'
<2>1. selected' \in 0..BatchLimit
<3>1. PICK B : batch' = B /\ B = {r \in Rows : Queue!Eligible(r) /\ Cardinality(Queue!Older(r)) < BatchLimit}
  BY <1>3, QueueCounts DEF Queue!Select
<3>2. selected' = Cardinality(B)
  BY <1>3, <3>1, QueueCounts DEF Queue!Select
<3> QED
  BY <3>1, <3>2, BatchBounded
<2>2. DOMAIN updates' = {} /\ batch' \in SUBSET Rows /\ \A r \in batch' : state[r] = "due"
  BY <1>3 DEF Queue!Select, Queue!Eligible, Queue!Nothing
<2> QED
  BY <1>3, <2>1, <2>2 DEF Queue!Select
<1>4. ASSUME Queue!TryRow PROVE QueueInv'
<2>1. PICK r \in batch, s \in {"due", "validated", "dead"}, n \in 0..MaxAttempts :
          /\ batch' = batch \ {r} /\ Queue!Stage(r, s, n)
          /\ s = "due" => n < MaxAttempts
<3>1. \A r \in batch : attempts[r] \in 0..MaxAttempts /\ attempts[r] < MaxAttempts
  OBVIOUS
<3>2. PICK r \in batch : batch' = batch \ {r} /\
          (Queue!Stage(r, "validated", attempts[r]) \/ Queue!NoteAttempt(r))
  BY <1>4, Zenon DEF Queue!TryRow
<3>3. CASE Queue!Stage(r, "validated", attempts[r])
  BY <3>1, <3>2, <3>3
<3>4. CASE Queue!NoteAttempt(r) /\ attempts[r] + 1 >= MaxAttempts
<4>1. Queue!Stage(r, "dead", attempts[r] + 1)
  BY <3>4 DEF Queue!NoteAttempt
<4> QED BY <3>1, <3>2, <4>1
<3>5. CASE Queue!NoteAttempt(r) /\ ~ (attempts[r] + 1 >= MaxAttempts)
<4>1. Queue!Stage(r, "due", attempts[r] + 1)
  BY <3>5 DEF Queue!NoteAttempt
<4> QED BY <3>1, <3>2, <3>5, <4>1
<3> QED BY <3>2, <3>3, <3>4, <3>5
<2>2. DOMAIN updates' = DOMAIN updates \cup {r}
  BY <2>1 DEF Queue!Stage
<2>3. \A q \in DOMAIN updates' :
          updates'[q] = IF q = r THEN [state |-> s, attempts |-> n] ELSE updates[q]
  BY <2>1 DEF Queue!Stage
<2>4. faults' \in 0..QueueFaults
  BY <1>4 DEF Queue!TryRow
<2>5. UNCHANGED <<state, attempts, listed, phase, selected, streak, onsets>>
  BY <1>4 DEF Queue!TryRow
<2> QED
  BY <2>1, <2>2, <2>3, <2>4, <2>5
<1>5. ASSUME Queue!Commit PROVE QueueInv'
  BY <1>5 DEF Queue!Commit
<1>6. ASSUME Queue!PassFails PROVE QueueInv'
  BY <1>6 DEF Queue!PassFails, Queue!Nothing
<1>7. ASSUME Queue!RecordPass PROVE QueueInv'
  BY <1>7 DEF Queue!RecordPass, Queue!Nothing, Queue!AtOnset
<1>8. ASSUME Queue!RecordLost PROVE QueueInv'
  BY <1>8 DEF Queue!RecordLost, Queue!Nothing
<1>9. ASSUME Queue!Restart PROVE QueueInv'
<2>1. updates' = Queue!Nothing /\ DOMAIN updates' = {} /\ listed' = FALSE
  BY <1>9 DEF Queue!Restart, Queue!Nothing
<2>2. faults' \in 0..QueueFaults /\ selected' \in 0..BatchLimit
      /\ streak' \in 0..(StallPasses + 1) /\ onsets' = 0
  BY <1>9 DEF Queue!Restart
<2>3. phase' = "sleep" /\ batch' = {} /\ UNCHANGED <<state, attempts>>
  BY <1>9 DEF Queue!Restart
<2>4. Queue!TypeOK'
  BY <2>1, <2>2, <2>3
<2> QED
  BY <2>1, <2>2, <2>3, <2>4
<1> QED
  BY <1>1, <1>2, <1>3, <1>4, <1>5, <1>6, <1>7, <1>8, <1>9 DEF Queue!Next

LEMMA QueueMoves ==
    ASSUME [Next]_vars
    PROVE  /\ UNCHANGED part
           /\ part = "queue" => Queue!Next \/ UNCHANGED vars
           /\ (part = "queue" /\ Queue!Next) \/ UNCHANGED queueOnly
  BY DEF Next, TaskNext, DeskNext, vars, tasksOnly, deskOnly

QueueHold == IF part = "queue" THEN QueueInv ELSE onsets = 0

LEMMA QueueStays == Spec => []QueueHold
<1>1. Init => QueueHold
  BY QueueStart DEF Init, QueueHold, Queue!Init
<1>2. QueueHold /\ [Next]_vars => QueueHold'
<2> SUFFICES ASSUME QueueHold, [Next]_vars PROVE QueueHold'
  OBVIOUS
<2>1. CASE part = "queue" /\ Queue!Next
  BY <2>1, QueueStep, QueueMoves DEF QueueHold
<2>2. CASE UNCHANGED vars
  BY <2>2 DEF QueueHold, QueueInv, Queue!TypeOK, vars, tasksOnly, queueOnly
<2>3. CASE part # "queue"
  BY <2>3, QueueMoves DEF QueueHold, queueOnly
<2> QED
  BY <2>1, <2>2, <2>3, QueueMoves
<1> QED
  BY <1>1, <1>2, PTL DEF Spec

-----------------------------------------------------------------------------
(* The fleet.                                                                *)

\* The cohort a symbol is in by its name and listing, as they are now.
Side(s) == Fleet!Cohort(s, FleetSymbols \ spot)

\* Unless its listing has changed, a symbol's row, and every fleet's children
\* and list of those it wants, follow that cohort; so does what a refresh has
\* read before it writes.
FleetInv ==
    /\ spot \subseteq FleetSymbols /\ relisted \subseteq FleetSymbols
    /\ open \subseteq FleetSymbols
    /\ Fleet!Members \subseteq FleetSymbols /\ events \subseteq FleetSymbols
    /\ stage \in {"idle", "sampled"} /\ faults \in 0..FleetFaults
    /\ sheet \in [futuresOnly : SUBSET FleetSymbols, kept : SUBSET FleetSymbols,
                  severe : SUBSET FleetSymbols, fast : SUBSET FleetSymbols]
    /\ kids \in [Fleet!Fleets -> SUBSET FleetSymbols]
    /\ job \in [Fleet!Fleets -> [at : {"wait", "apply"}, desired : SUBSET FleetSymbols]]
    /\ \A s \in Fleet!Members \ relisted : snapshot[s].cohort = Side(s)
    /\ stage = "sampled" =>
           \A s \in FleetSymbols \ relisted : s \in sheet.futuresOnly <=> s \notin spot
    /\ \A f \in Fleet!Fleets : \A s \in (kids[f] \cup job[f].desired) \ relisted :
           Side(s) \in Fleet!Served(f)

LEMMA FleetStart == Fleet!Init => FleetInv
  BY BackgroundFaultsAssumption
  DEF Fleet!Init, FleetInv, Fleet!Empty, Fleet!Blank, Fleet!Members, Fleet!Waiting, Fleet!Movable

LEMMA BlankSheet ==
    Fleet!Blank \in [futuresOnly : SUBSET FleetSymbols, kept : SUBSET FleetSymbols,
                    severe : SUBSET FleetSymbols, fast : SUBSET FleetSymbols]
  BY DEF Fleet!Blank

\* A refresh writes only rows of symbols, each in the cohort of what it read.
LEMMA FleetWritten ==
    ASSUME FleetInv, Fleet!Persist
    PROVE  /\ Fleet!Members' \subseteq FleetSymbols /\ events' \subseteq FleetSymbols
           /\ \A s \in Fleet!Members' \ relisted : snapshot'[s].cohort = Side(s)
<1> USE DEF FleetInv, Fleet!Members
<1>1. PICK fresh, gone : \E new :
          /\ gone \subseteq Fleet!Rescued
          /\ new = sheet.kept \cup (Fleet!Overridden \ gone)
          /\ snapshot' = IF new = {} THEN snapshot
                         ELSE [s \in new |-> Fleet!NewEntry(s, fresh)]
          /\ events' = Fleet!Events(fresh)
  BY DEF Fleet!Persist
<1>2. Fleet!Overridden \subseteq FleetSymbols
  BY DEF Fleet!Overridden
<1>3. events' \subseteq FleetSymbols
  BY <1>1, <1>2 DEF Fleet!Events, Fleet!RescueEvents, Fleet!Rescued
<1>4. CASE snapshot' = snapshot
  BY <1>3, <1>4
<1>5. CASE snapshot' # snapshot
<2>1. PICK new : /\ new \subseteq FleetSymbols
                 /\ snapshot' = [s \in new |-> Fleet!NewEntry(s, fresh)]
  BY <1>1, <1>2, <1>5
<2>2. ASSUME NEW s \in new \ relisted PROVE snapshot'[s].cohort = Side(s)
<3>1. stage = "sampled"
  BY DEF Fleet!Persist
<3>2. Fleet!Cohort(s, sheet.futuresOnly) = Side(s)
  BY <2>1, <3>1 DEF Side, Fleet!Cohort
<3>3. snapshot'[s] = Fleet!NewEntry(s, fresh)
  BY <2>1
<3>4. \A b : Fleet!Entry(s, b).cohort = Side(s)
  BY <3>2 DEF Fleet!Entry
<3> QED
  BY <3>3, <3>4 DEF Fleet!NewEntry, Fleet!RescueEntry
<2> QED
  BY <1>3, <2>1, <2>2
<1> QED
  BY <1>4, <1>5

LEMMA FleetStep == ASSUME FleetInv, Fleet!Next PROVE FleetInv'
<1> USE BackgroundFaultsAssumption
    DEF FleetInv, Fleet!NoFault, Fleet!Fault, Fleet!marketVars, Fleet!rows, Fleet!refresh,
        Fleet!fleetVars, Fleet!Members
<1>1. ASSUME NEW s \in Fleet!Movable, Fleet!Relist(s) PROVE FleetInv'
<2>1. \A q \in FleetSymbols \ relisted' : Side(q)' = Side(q) /\ (q \in spot' <=> q \in spot)
  BY <1>1 DEF Fleet!Relist, Side, Fleet!Cohort
<2> QED
  BY <1>1, <2>1 DEF Fleet!Relist, Fleet!Movable
<1>2. ASSUME NEW s \in FleetSymbols, Fleet!PositionOpens(s) \/ Fleet!PositionCloses(s)
      PROVE FleetInv'
  BY <1>2 DEF Fleet!PositionOpens, Fleet!PositionCloses, Side
<1>3. ASSUME Fleet!Sample PROVE FleetInv'
<2>1. /\ sheet' \in [futuresOnly : SUBSET FleetSymbols, kept : SUBSET FleetSymbols,
                     severe : SUBSET FleetSymbols, fast : SUBSET FleetSymbols]
      /\ sheet'.futuresOnly = FleetSymbols \ spot
  BY <1>3 DEF Fleet!Sample
<2>2. faults' \in 0..FleetFaults
  BY <1>3 DEF Fleet!Sample
<2>3. stage' = "sampled" /\ events' = {}
      /\ UNCHANGED <<spot, relisted, open, snapshot, kids, job>>
  BY <1>3 DEF Fleet!Sample
<2> QED
  BY <2>1, <2>2, <2>3 DEF Side
<1>4. ASSUME Fleet!Persist PROVE FleetInv'
<2>1. sheet' = Fleet!Blank /\ stage' = "idle" /\ faults' \in 0..FleetFaults
      /\ UNCHANGED <<spot, relisted, open, kids, job>>
  BY <1>4 DEF Fleet!Persist
<2> QED
  BY <1>4, <2>1, FleetWritten DEF Side, Fleet!Blank
<1>5. ASSUME Fleet!RefreshFails PROVE FleetInv'
<2>1. sheet' = Fleet!Blank /\ stage' = "idle" /\ faults' \in 0..FleetFaults
      /\ UNCHANGED <<spot, relisted, open, snapshot, events, kids, job>>
  BY <1>5 DEF Fleet!RefreshFails
<2> QED
  BY <2>1, BlankSheet DEF Side
<1>6. ASSUME Fleet!Restart PROVE FleetInv'
<2>1. sheet' = Fleet!Blank /\ stage' = "idle" /\ faults' \in 0..FleetFaults
      /\ UNCHANGED <<spot, relisted, open, snapshot, events>>
  BY <1>6 DEF Fleet!Restart
<2>2. \A f \in Fleet!Fleets : kids'[f] = {} /\ job'[f].desired = {}
  BY <1>6 DEF Fleet!Restart, Fleet!Waiting
<2>3. kids' \in [Fleet!Fleets -> SUBSET FleetSymbols]
      /\ job' \in [Fleet!Fleets -> [at : {"wait", "apply"}, desired : SUBSET FleetSymbols]]
  BY <1>6 DEF Fleet!Restart, Fleet!Waiting
<2> QED
  BY <2>1, <2>2, <2>3, BlankSheet DEF Side
<1>7. ASSUME NEW f \in Fleet!Fleets, Fleet!Load(f) PROVE FleetInv'
<2>1. faults' \in 0..FleetFaults
      /\ UNCHANGED <<spot, relisted, open, snapshot, events, stage, sheet, kids>>
  BY <1>7 DEF Fleet!Load
<2>2. CASE job' = job
  BY <2>1, <2>2 DEF Side
<2>3. ASSUME NEW desired \in Fleet!Desired(f),
             job' = [job EXCEPT ![f] = [at |-> "apply", desired |-> desired]]
      PROVE  FleetInv'
<3>1. desired \in SUBSET FleetSymbols
      /\ \A s \in desired \ relisted : Side(s) \in Fleet!Served(f)
  BY DEF Fleet!Desired, Fleet!Cohorts
<3>2. job' \in [Fleet!Fleets -> [at : {"wait", "apply"}, desired : SUBSET FleetSymbols]]
  BY <2>3, <3>1
<3>3. \A g \in Fleet!Fleets : job'[g].desired = IF g = f THEN desired ELSE job[g].desired
  BY <2>3
<3>4. \A g \in Fleet!Fleets : \A s \in (kids[g] \cup job'[g].desired) \ relisted :
          Side(s) \in Fleet!Served(g)
  BY <3>1, <3>3
<3> QED
  BY <2>1, <3>2, <3>4 DEF Side
<2> QED
  BY <1>7, <2>2, <2>3 DEF Fleet!Load
<1>8. ASSUME NEW f \in Fleet!Fleets, Fleet!Apply(f) PROVE FleetInv'
  BY <1>8 DEF Fleet!Apply, Fleet!Retained, Fleet!Waiting, Side
<1> QED
  BY <1>1, <1>2, <1>3, <1>4, <1>5, <1>6, <1>7, <1>8 DEF Fleet!Next, Fleet!Reconcile

LEMMA FleetMoves ==
    ASSUME [Next]_vars
    PROVE  /\ UNCHANGED part
           /\ part = "fleet" => Fleet!Next \/ UNCHANGED vars
           /\ (part = "fleet" /\ Fleet!Next) \/ UNCHANGED fleetOnly
  BY DEF Next, TaskNext, DeskNext, vars, tasksOnly, deskOnly

FleetHold ==
    IF part = "fleet" THEN FleetInv ELSE kids = [f \in Fleet!Fleets |-> {}]

LEMMA FleetStays == Spec => []FleetHold
<1>1. Init => FleetHold
  BY FleetStart DEF Init, FleetHold, Fleet!Init
<1>2. FleetHold /\ [Next]_vars => FleetHold'
<2> SUFFICES ASSUME FleetHold, [Next]_vars PROVE FleetHold'
  OBVIOUS
<2>1. CASE part = "fleet" /\ Fleet!Next
  BY <2>1, FleetStep, FleetMoves DEF FleetHold
<2>2. CASE UNCHANGED vars
  BY <2>2 DEF FleetHold, FleetInv, Fleet!Members, Side, vars, tasksOnly, fleetOnly
<2>3. CASE part # "fleet"
  BY <2>3, FleetMoves DEF FleetHold, fleetOnly
<2> QED
  BY <2>1, <2>2, <2>3, FleetMoves
<1> QED
  BY <1>1, <1>2, PTL DEF Spec

\* No symbol is fed twice unless its listing has changed.
LEMMA FleetFeedsOnce == FleetHold => Fleet!FeedersDisjoint
<1> SUFFICES ASSUME FleetHold PROVE Fleet!FeedersDisjoint
  OBVIOUS
<1> USE DEF Fleet!FeedersDisjoint
<1>1. CASE part = "fleet"
<2> SUFFICES ASSUME NEW s \in kids["ws_keepalive"] \cap kids["futures_poll"], s \notin relisted
             PROVE  FALSE
  OBVIOUS
<2>1. Side(s) \in Fleet!Served("ws_keepalive") /\ Side(s) \in Fleet!Served("futures_poll")
  BY <1>1 DEF FleetHold, FleetInv, Fleet!Fleets
<2> QED
  BY <2>1 DEF Fleet!Served
<1>2. CASE part # "fleet"
  BY <1>2 DEF FleetHold, Fleet!Fleets
<1> QED
  BY <1>1, <1>2

\* Whatever stays in the fleet for an open position, on a book that has
\* collapsed, is on record (_severity_rows), whichever way it stayed.
THEOREM SevereIsRecorded == Spec => HeldSevereRecorded
<1> DEFINE Written == \A s \in Fleet!Members' \ sheet.kept :
                          snapshot'[s].severe \/ s \in sheet.fast => s \in events'
<1>1. [Next]_vars => [Written]_snapshot
<2> SUFFICES ASSUME [Next]_vars, snapshot' # snapshot,
                    NEW s \in Fleet!Members' \ sheet.kept,
                    snapshot'[s].severe \/ s \in sheet.fast
             PROVE  s \in events'
  OBVIOUS
<2>1. Fleet!Next
  BY FleetMoves DEF fleetOnly
<2>2. Fleet!Persist
  BY <2>1 DEF Fleet!Next, Fleet!Relist, Fleet!PositionOpens, Fleet!PositionCloses,
     Fleet!Sample, Fleet!RefreshFails, Fleet!Restart, Fleet!Reconcile, Fleet!Load,
     Fleet!Apply, Fleet!rows
<2>3. PICK fresh, gone : \E new :
          /\ gone \subseteq Fleet!Rescued
          /\ new = sheet.kept \cup (Fleet!Overridden \ gone)
          /\ snapshot' = IF new = {} THEN snapshot
                         ELSE [q \in new |-> Fleet!NewEntry(q, fresh)]
          /\ events' = Fleet!Events(fresh)
  BY <2>2 DEF Fleet!Persist
<2>4. s \in Fleet!Overridden /\ snapshot'[s] = Fleet!NewEntry(s, fresh)
  BY <2>3 DEF Fleet!Members
<2>5. CASE s \in sheet.fast
  BY <2>3, <2>5 DEF Fleet!Events
<2>6. CASE s \in Fleet!Members /\ snapshot'[s].severe
<3>1. snapshot'[s] = snapshot[s]
  BY <2>4, <2>6 DEF Fleet!NewEntry
<3> QED
  BY <2>3, <2>4, <2>6, <3>1 DEF Fleet!Events
<2>7. CASE s \notin Fleet!Members /\ snapshot'[s].severe
<3>1. snapshot'[s] = Fleet!Entry(s, fresh[s] = "severe")
  BY <2>4, <2>7 DEF Fleet!NewEntry, Fleet!RescueEntry
<3>2. fresh[s] = "severe"
<4>1. Fleet!Entry(s, fresh[s] = "severe").severe = (fresh[s] = "severe")
  BY DEF Fleet!Entry
<4> QED
  BY <2>7, <3>1, <4>1
<3> QED
  BY <2>3, <2>4, <2>7, <3>2 DEF Fleet!Events, Fleet!RescueEvents, Fleet!Rescued
<2> QED
  BY <2>5, <2>6, <2>7
<1>2. Spec => [][Written]_snapshot
  BY <1>1, PTL DEF Spec
<1> QED
  BY <1>2 DEF HeldSevereRecorded, Fleet!HeldSevereRecorded

-----------------------------------------------------------------------------
(* The polled feed.                                                          *)

\* Where the feed stands, by type.
FeedTypes ==
    /\ hour \in Feed!Hours /\ saved \in 0..MaxHour /\ since \in 0..MaxHour
    /\ gaps \subseteq Feed!Hours /\ failed \subseteq Feed!Hours
    /\ predicted \in [Feed!Hours -> Nat] /\ published \in [Feed!Hours -> Nat]
    /\ child \in [at : {"start", "poll", "work", "publish", "save", "down"},
                  mark : 0..MaxHour, candle : 0..MaxHour]
    /\ crashes \in 0..DeadAfter /\ dead \in BOOLEAN /\ faults \in 0..FeedFaults

\* What the child has in hand is closed and beyond the watermark, and all
\* between them is a logged gap.
FeedInHand ==
    /\ saved < hour /\ since <= saved /\ (since = 0 => saved = 0)
    /\ child.at \in {"poll", "work", "publish", "save"} => child.mark = saved
    /\ child.at \in {"work", "publish", "save"} =>
           /\ child.candle \in Feed!Hours /\ saved < child.candle /\ child.candle < hour
           /\ \A c \in Feed!Hours : saved > 0 /\ saved < c /\ c < child.candle => c \in gaps
    /\ child.at = "save" => predicted[child.candle] > 0 \/ child.candle \in failed

\* Behind the watermark nothing is missing; beyond it, but for what the child
\* has just predicted, each prediction was paid for by a crash.
FeedCounts ==
    /\ \A c \in Feed!Hours : since > 0 /\ since <= c /\ c <= saved =>
           predicted[c] > 0 \/ c \in failed \/ c \in gaps
    /\ \A c \in Feed!Hours : published[c] <= predicted[c] /\ predicted[c] <= 1 + faults
    /\ \A c \in Feed!Hours : saved < c =>
           predicted[c] <= faults \/ (child.at \in {"publish", "save"} /\ child.candle = c)
    /\ child.at = "publish" => published[child.candle] < predicted[child.candle]
    /\ pages = 0 \/ (pages = 1 /\ dead)

FeedInv == FeedTypes /\ FeedInHand /\ FeedCounts

LEMMA FeedBounds ==
    /\ MaxHour \in Nat /\ 1 <= MaxHour /\ DeadAfter \in Nat /\ FeedFaults \in Nat
    /\ Feed!Hours = 1..MaxHour
  BY BackgroundFaultsAssumption, FeedAssumption DEF Feed!Hours

LEMMA FeedStart == Feed!Init => FeedInv
<1> SUFFICES ASSUME Feed!Init PROVE FeedInv
  OBVIOUS
<1> USE FeedBounds
<1>1. /\ hour = 1 /\ saved = 0 /\ since = 0 /\ gaps = {} /\ failed = {}
      /\ predicted = [c \in Feed!Hours |-> 0] /\ published = [c \in Feed!Hours |-> 0]
      /\ crashes = 0 /\ dead = FALSE /\ pages = 0 /\ faults = 0
  BY DEF Feed!Init
<1>2. child = [at |-> "start", mark |-> 0, candle |-> 0]
  BY DEF Feed!Init, Feed!Fresh
<1>6. child \in [at : {"start", "poll", "work", "publish", "save", "down"},
                  mark : 0..MaxHour, candle : 0..MaxHour]
  BY <1>2
<1>7. predicted \in [Feed!Hours -> Nat] /\ published \in [Feed!Hours -> Nat]
  BY <1>1
<1>3. FeedTypes
<2>1. hour \in Feed!Hours /\ saved \in 0..MaxHour /\ since \in 0..MaxHour
      /\ crashes \in 0..DeadAfter /\ faults \in 0..FeedFaults
  BY <1>1
<2>2. dead \in BOOLEAN /\ gaps \subseteq Feed!Hours /\ failed \subseteq Feed!Hours
  BY <1>1
<2> QED
  BY <2>1, <2>2, <1>6, <1>7 DEF FeedTypes
<1>4. FeedInHand
  BY <1>1, <1>2 DEF FeedInHand
<1>5. FeedCounts
  BY <1>1, <1>2 DEF FeedCounts
<1> QED
  BY <1>3, <1>4, <1>5 DEF FeedInv

LEMMA FeedStep == ASSUME FeedInv, Feed!Next PROVE FeedInv'
<1> USE FeedBounds DEF FeedInv
<1>1. ASSUME Feed!Hour PROVE FeedInv'
<2>1. hour' = hour + 1 /\ hour' \in Feed!Hours
      /\ UNCHANGED <<saved, since, predicted, published, failed, gaps, child, crashes, dead, pages, faults>>
  BY <1>1 DEF Feed!Hour, Feed!NoFault, Feed!outcomes, Feed!wrapper, FeedTypes
<2>2. FeedTypes'
  BY <2>1 DEF FeedTypes
<2>3. FeedInHand'
  BY <2>1 DEF FeedTypes, FeedInHand
<2>4. FeedCounts'
  BY <2>1 DEF FeedCounts
<2> QED BY <2>2, <2>3, <2>4
<1>2. ASSUME Feed!Start \/ Feed!Again PROVE FeedInv'
<2>1. /\ \/ child' = [at |-> "poll", mark |-> saved, candle |-> 0]
         \/ child' = [at |-> "start", mark |-> 0, candle |-> 0]
      /\ child.at \in {"start", "down"}
      /\ UNCHANGED <<hour, saved, since, predicted, published, failed, gaps, crashes, dead, pages, faults>>
  BY <1>2 DEF Feed!Start, Feed!Again, Feed!Fresh, Feed!NoFault, Feed!feed, Feed!outcomes, Feed!wrapper
<2>2. FeedTypes'
  BY <2>1 DEF FeedTypes
<2>3. FeedInHand'
  BY <2>1 DEF FeedTypes, FeedInHand
<2>4. FeedCounts'
  BY <2>1 DEF FeedCounts
<2> QED BY <2>2, <2>3, <2>4
<1>3. ASSUME Feed!Poll PROVE FeedInv'
<2> DEFINE new == hour - 1
<2>1. /\ child.at = "poll" /\ new > 0 /\ (child.mark = 0 \/ new > child.mark)
      /\ child' = [child EXCEPT !.at = "work", !.candle = new]
      /\ gaps' = gaps \cup (IF child.mark = 0 THEN {} ELSE (child.mark + 1)..(new - 1))
      /\ UNCHANGED <<hour, saved, since, predicted, published, failed, crashes, dead, pages, faults>>
  BY <1>3 DEF Feed!Poll, Feed!Closed, Feed!Newer, Feed!SavedAtYield, Feed!Skipped,
     Feed!NoFault, Feed!outcomes, Feed!wrapper
<2>2. child'.at = "work" /\ child'.mark = child.mark /\ child'.candle = new
      /\ child.mark = saved /\ new \in Feed!Hours
  BY <2>1 DEF FeedTypes, FeedInHand
<2>8. child' \in [at : {"start", "poll", "work", "publish", "save", "down"},
                  mark : 0..MaxHour, candle : 0..MaxHour]
<3>1. child' = [at |-> "work", mark |-> child.mark, candle |-> new]
  BY <2>1 DEF FeedTypes
<3>2. child.mark \in 0..MaxHour /\ new \in 0..MaxHour
  BY <2>2 DEF FeedTypes
<3> HIDE DEF new
<3> QED BY <3>1, <3>2
<2> HIDE DEF new
<2>9. \A c \in Feed!Hours : c \in gaps' <=>
          c \in gaps \/ (child.mark > 0 /\ child.mark < c /\ c < new)
<3>1. child.mark \in Nat /\ new \in Nat
  BY <2>2 DEF FeedTypes
<3>2. CASE child.mark = 0
  BY <2>1, <3>2
<3>3. CASE child.mark # 0
<4>1. \A c \in Feed!Hours : c \in (child.mark + 1)..(new - 1) <=> child.mark < c /\ c < new
  BY <3>1
<4>2. gaps' = gaps \cup ((child.mark + 1)..(new - 1)) /\ child.mark > 0
  BY <2>1, <3>1, <3>3
<4> QED
  BY <4>1, <4>2
<3> QED
  BY <3>2, <3>3
<2>10. gaps' \subseteq Feed!Hours
<3>1. gaps \subseteq Feed!Hours /\ child.mark \in Nat /\ new \in 1..MaxHour
  BY <2>2 DEF FeedTypes
<3>2. (child.mark + 1)..(new - 1) \subseteq Feed!Hours
  BY <3>1
<3>3. gaps' \subseteq gaps \cup ((child.mark + 1)..(new - 1))
  BY <2>1
<3> QED
  BY <3>1, <3>2, <3>3
<2>3. FeedTypes'
<3>1. UNCHANGED <<hour, saved, since, predicted, published, failed, crashes, dead, faults>>
  BY <2>1
<3> QED BY <2>8, <2>10, <3>1 DEF FeedTypes
<2>4. FeedInHand'
<3>1. UNCHANGED <<hour, saved, since>> /\ new < hour /\ saved < new
  BY <2>1, <2>2 DEF FeedTypes, FeedInHand, new
<3>2. \A c \in Feed!Hours : saved > 0 /\ saved < c /\ c < new => c \in gaps'
  BY <2>2, <2>9
<3> QED BY <2>2, <3>1, <3>2 DEF FeedInHand
<2>5. FeedCounts'
  BY <2>1, <2>2 DEF FeedCounts, FeedTypes
<2> QED BY <2>3, <2>4, <2>5
<1>4. ASSUME Feed!Persist PROVE FeedInv'
<2>1. /\ child.at = "work" /\ child' = [child EXCEPT !.at = "publish"]
      /\ predicted' = [predicted EXCEPT ![child.candle] = @ + 1]
      /\ UNCHANGED <<hour, saved, since, gaps, published, failed, crashes, dead, pages, faults>>
  BY <1>4 DEF Feed!Persist, Feed!Goto, Feed!NoFault, Feed!feed, Feed!wrapper
<2>2. child'.at = "publish" /\ child'.mark = child.mark /\ child'.candle = child.candle
      /\ child.candle \in Feed!Hours /\ saved < child.candle
  BY <2>1 DEF FeedTypes, FeedInHand
<2>3. \A c \in Feed!Hours :
          predicted'[c] = IF c = child.candle THEN predicted[c] + 1 ELSE predicted[c]
  BY <2>1 DEF FeedTypes
<2>8. child' \in [at : {"start", "poll", "work", "publish", "save", "down"},
                  mark : 0..MaxHour, candle : 0..MaxHour]
  BY <2>1, <2>2 DEF FeedTypes
<2>9. predicted' \in [Feed!Hours -> Nat]
  BY <2>1, <2>2 DEF FeedTypes
<2>4. FeedTypes'
  BY <2>1, <2>2, <2>8, <2>9 DEF FeedTypes
<2>5. FeedInHand'
  BY <2>1, <2>2 DEF FeedTypes, FeedInHand
<2>6. FeedCounts'
<3>1. /\ \A c \in Feed!Hours : published[c] \in Nat /\ predicted[c] \in Nat
      /\ predicted[child.candle] <= faults /\ faults \in Nat
  BY <2>1, <2>2 DEF FeedCounts, FeedTypes
<3>2. \A c \in Feed!Hours : since > 0 /\ since <= c /\ c <= saved =>
          predicted'[c] > 0 \/ c \in failed \/ c \in gaps
  BY <2>3, <3>1 DEF FeedCounts
<3>3. /\ \A c \in Feed!Hours : published[c] <= predicted'[c] /\ predicted'[c] <= 1 + faults
      /\ \A c \in Feed!Hours : saved < c => predicted'[c] <= faults \/ child.candle = c
  BY <2>1, <2>3, <3>1 DEF FeedCounts
<3>4. published[child.candle] < predicted'[child.candle]
  BY <2>2, <2>3, <3>1 DEF FeedCounts
<3> QED
  BY <2>1, <2>2, <3>2, <3>3, <3>4 DEF FeedCounts
<2> QED BY <2>4, <2>5, <2>6
<1>5. ASSUME Feed!Publish PROVE FeedInv'
<2>1. /\ child.at = "publish" /\ child' = [child EXCEPT !.at = "save"]
      /\ published' = [published EXCEPT ![child.candle] = @ + 1]
      /\ UNCHANGED <<hour, saved, since, gaps, predicted, failed, crashes, dead, pages, faults>>
  BY <1>5 DEF Feed!Publish, Feed!Goto, Feed!NoFault, Feed!feed, Feed!wrapper
<2>2. child'.at = "save" /\ child'.mark = child.mark /\ child'.candle = child.candle
      /\ child.candle \in Feed!Hours
  BY <2>1 DEF FeedTypes, FeedInHand
<2>3. \A c \in Feed!Hours :
          published'[c] = IF c = child.candle THEN published[c] + 1 ELSE published[c]
  BY <2>1 DEF FeedTypes
<2>8. child' \in [at : {"start", "poll", "work", "publish", "save", "down"},
                  mark : 0..MaxHour, candle : 0..MaxHour]
  BY <2>1, <2>2 DEF FeedTypes
<2>9. published' \in [Feed!Hours -> Nat]
  BY <2>1, <2>2 DEF FeedTypes
<2>4. FeedTypes'
  BY <2>1, <2>2, <2>8, <2>9 DEF FeedTypes
<2>5. FeedInHand'
  BY <2>1, <2>2 DEF FeedTypes, FeedInHand, FeedCounts
<2>6. FeedCounts'
  BY <2>1, <2>2, <2>3 DEF FeedCounts, FeedTypes
<2> QED BY <2>4, <2>5, <2>6
<1>6. ASSUME Feed!Save PROVE FeedInv'
<2>1. /\ child.at = "save" /\ child' = [child EXCEPT !.at = "poll", !.mark = child.candle]
      /\ saved' = child.candle /\ since' = IF since = 0 THEN child.candle ELSE since
      /\ UNCHANGED <<hour, gaps, predicted, published, failed, crashes, dead, pages, faults>>
  BY <1>6 DEF Feed!Save, Feed!Mark, Feed!NoFault, Feed!outcomes, Feed!wrapper
<2>2. child'.at = "poll" /\ child'.mark = child.candle /\ child'.candle = child.candle
      /\ child.candle \in Feed!Hours /\ saved < child.candle
  BY <2>1 DEF FeedTypes, FeedInHand
<2>8. child' \in [at : {"start", "poll", "work", "publish", "save", "down"},
                  mark : 0..MaxHour, candle : 0..MaxHour]
  BY <2>1, <2>2 DEF FeedTypes
<2>3. FeedTypes'
  BY <2>1, <2>2, <2>8 DEF FeedTypes
<2>4. FeedInHand'
  BY <2>1, <2>2 DEF FeedTypes, FeedInHand
<2>5. FeedCounts'
<3>1. \A c \in Feed!Hours : since' > 0 /\ since' <= c /\ c <= saved' =>
          predicted[c] > 0 \/ c \in failed \/ c \in gaps
  <4> SUFFICES ASSUME NEW c \in Feed!Hours, since' <= c, c <= saved'
               PROVE  predicted[c] > 0 \/ c \in failed \/ c \in gaps
    OBVIOUS
  <4>1. CASE c = child.candle
    BY <2>1, <4>1 DEF FeedInHand
  <4>2. CASE c < child.candle /\ saved < c
    BY <2>1, <2>2, <4>2 DEF FeedInHand, FeedTypes
  <4>3. CASE c <= saved
    BY <2>1, <2>2, <4>3 DEF FeedCounts, FeedTypes, FeedInHand
  <4> QED BY <2>1, <2>2, <4>1, <4>2, <4>3 DEF FeedTypes
<3>2. \A c \in Feed!Hours : saved' < c => predicted[c] <= faults
  <4> SUFFICES ASSUME NEW c \in Feed!Hours, child.candle < c PROVE predicted[c] <= faults
    BY <2>1
  <4>1. saved < c /\ c # child.candle
    BY <2>2 DEF FeedTypes
  <4> QED BY <4>1 DEF FeedCounts
<3> QED BY <2>1, <2>2, <3>1, <3>2 DEF FeedCounts
<2> QED BY <2>3, <2>4, <2>5
<1>7. ASSUME Feed!Skip PROVE FeedInv'
<2>1. /\ child.at = "work" /\ child' = [child EXCEPT !.at = "save"]
      /\ failed' = failed \cup {child.candle} /\ faults' = faults + 1 /\ faults' \in 0..FeedFaults
      /\ UNCHANGED <<hour, saved, since, gaps, predicted, published, crashes, dead, pages>>
  BY <1>7 DEF Feed!Skip, Feed!AfterFailure, Feed!Goto, Feed!Fault, Feed!feed, Feed!wrapper, FeedTypes
<2>2. child'.at = "save" /\ child'.mark = child.mark /\ child'.candle = child.candle
      /\ child.candle \in Feed!Hours
  BY <2>1 DEF FeedTypes, FeedInHand
<2>8. child' \in [at : {"start", "poll", "work", "publish", "save", "down"},
                  mark : 0..MaxHour, candle : 0..MaxHour]
  BY <2>1, <2>2 DEF FeedTypes
<2>3. FeedTypes'
  BY <2>1, <2>2, <2>8 DEF FeedTypes
<2>4. FeedInHand'
  BY <2>1, <2>2 DEF FeedTypes, FeedInHand
<2>5. FeedCounts'
<3>1. \A c \in Feed!Hours : predicted[c] \in Nat
  BY DEF FeedTypes
<3>4. \A c \in Feed!Hours : predicted[c] <= 1 + faults
  BY DEF FeedCounts
<3>5. faults \in Nat /\ faults' = faults + 1
  BY <2>1 DEF FeedTypes
<3>2. /\ \A c \in Feed!Hours : predicted[c] <= 1 + faults'
      /\ \A c \in Feed!Hours : saved < c => predicted[c] <= faults'
  BY <3>1, <3>4, <3>5
<3>3. \A c \in Feed!Hours : since > 0 /\ since <= c /\ c <= saved =>
          predicted[c] > 0 \/ c \in failed' \/ c \in gaps
  BY <2>1 DEF FeedCounts
<3> QED BY <2>1, <2>2, <3>2, <3>3 DEF FeedCounts
<2> QED BY <2>3, <2>4, <2>5
<1>8. ASSUME Feed!Crash \/ Feed!Replace PROVE FeedInv'
<2>1. /\ child'.at \in {"down", "start"} /\ faults' = faults + 1 /\ faults' \in 0..FeedFaults
      /\ UNCHANGED <<hour, saved, since, gaps, predicted, published, failed>>
  BY <1>8 DEF Feed!Crash, Feed!Replace, Feed!Goto, Feed!Fresh, Feed!Fault, Feed!feed,
     Feed!outcomes, FeedTypes
<2>2. child' \in [at : {"start", "poll", "work", "publish", "save", "down"},
                  mark : 0..MaxHour, candle : 0..MaxHour]
<3>1. child' = [child EXCEPT !.at = "down"] \/ child' = [at |-> "start", mark |-> 0, candle |-> 0]
  BY <1>8 DEF Feed!Crash, Feed!Replace, Feed!Goto, Feed!Fresh
<3>2. child.mark \in 0..MaxHour /\ child.candle \in 0..MaxHour /\ 0 \in 0..MaxHour
  BY DEF FeedTypes
<3>3. child' = [at |-> "down", mark |-> child.mark, candle |-> child.candle]
      \/ child' = [at |-> "start", mark |-> 0, candle |-> 0]
  BY <3>1 DEF FeedTypes
<3> QED
  BY <3>2, <3>3
<2>3. crashes' \in 0..DeadAfter /\ dead' \in BOOLEAN
<3>1. crashes' = 0 \/ crashes' = IF crashes < DeadAfter THEN crashes + 1 ELSE crashes
  BY <1>8 DEF Feed!Crash, Feed!Replace, Feed!NextStreak
<3>2. crashes' \in 0..DeadAfter
  BY <3>1 DEF FeedTypes
<3>3. dead' \in BOOLEAN
  BY <1>8 DEF Feed!Crash, Feed!Replace, FeedTypes
<3> QED BY <3>2, <3>3
<2>4. pages' = 0 \/ (pages' = 1 /\ dead')
<3>1. CASE Feed!Replace
  BY <3>1 DEF Feed!Replace
<3>2. CASE Feed!Crash
<4> DEFINE over == Feed!NextStreak >= DeadAfter
<4>1. /\ dead' = (dead \/ over)
      /\ pages' = IF ~dead /\ over THEN pages + 1 ELSE pages
  BY <3>2 DEF Feed!Crash, Feed!Pages
<4>2. pages = 0 \/ (pages = 1 /\ dead)
  BY DEF FeedCounts
<4> HIDE DEF over
<4>3. CASE ~dead /\ over
<5>1. pages = 0
  BY <4>2, <4>3
<5>2. pages' = 1
  BY <4>1, <4>3, <5>1, SMT
<5>3. dead'
  BY <4>1, <4>3, Zenon
<5> QED BY <5>2, <5>3
<4>4. CASE ~(~dead /\ over)
  BY <4>1, <4>2, <4>4
<4> QED BY <4>3, <4>4
<3> QED BY <1>8, <3>1, <3>2
<2>5. FeedTypes'
  BY <2>1, <2>2, <2>3 DEF FeedTypes
<2>6. FeedInHand'
  BY <2>1 DEF FeedTypes, FeedInHand
<2>7. FeedCounts'
  BY <2>1, <2>4 DEF FeedCounts, FeedTypes
<2> QED BY <2>5, <2>6, <2>7
<1> QED
  BY <1>1, <1>2, <1>3, <1>4, <1>5, <1>6, <1>7, <1>8 DEF Feed!Next, Feed!Child

LEMMA FeedMoves ==
    ASSUME [Next]_vars
    PROVE  /\ UNCHANGED part
           /\ part = "feed" => Feed!Next \/ UNCHANGED vars
           /\ (part = "feed" /\ Feed!Next) \/ UNCHANGED feedOnly
  BY DEF Next, TaskNext, DeskNext, vars, tasksOnly, deskOnly

\* The feed that is not the part that moves has not begun.
FeedHold ==
    IF part = "feed" THEN FeedInv
    ELSE /\ since = 0 /\ saved = 0 /\ pages = 0
         /\ \A c \in Feed!Hours : predicted[c] = 0 /\ published[c] = 0

LEMMA FeedStays == Spec => []FeedHold
<1>1. Init => FeedHold
<2> SUFFICES ASSUME Init PROVE FeedHold
  OBVIOUS
<2>1. Feed!Init
  BY DEF Init
<2>2. since = 0 /\ saved = 0 /\ pages = 0
      /\ \A c \in Feed!Hours : predicted[c] = 0 /\ published[c] = 0
  BY <2>1 DEF Feed!Init
<2> QED
  BY <2>1, <2>2, FeedStart DEF FeedHold
<1>2. FeedHold /\ [Next]_vars => FeedHold'
<2> SUFFICES ASSUME FeedHold, [Next]_vars PROVE FeedHold'
  OBVIOUS
<2>1. CASE part = "feed" /\ Feed!Next
  BY <2>1, FeedMoves, FeedStep DEF FeedHold
<2>2. CASE UNCHANGED feedOnly /\ part # "feed"
  BY <2>2, FeedMoves DEF FeedHold, feedOnly, Feed!Hours
<2>3. CASE part = "feed" /\ UNCHANGED vars
  BY <2>3 DEF FeedHold, FeedInv, FeedTypes, FeedInHand, FeedCounts, vars, tasksOnly, feedOnly, Feed!Hours
<2> QED
  BY <2>1, <2>2, <2>3, FeedMoves
<1> QED
  BY <1>1, <1>2, PTL DEF Spec

\* No candle of a polled symbol vanishes between two watermarks, repeats
\* without a crash that paid for it, or is published before it is persisted;
\* a dead child is paged once; and no symbol has two feeders.
THEOREM FeedIsHonest == Spec => []FeedHonest
<1>1. FeedHold => /\ Feed!NoSilentGap /\ (part = "feed" => Feed!RepeatsArePaidFor)
                  /\ Feed!PublishedIsPersisted /\ Feed!OnePagePerDeath
<2> SUFFICES ASSUME FeedHold
             PROVE  /\ Feed!NoSilentGap /\ (part = "feed" => Feed!RepeatsArePaidFor)
                    /\ Feed!PublishedIsPersisted /\ Feed!OnePagePerDeath
  OBVIOUS
<2>1. CASE part = "feed"
  <3> USE <2>1, FeedBounds
  <3>1. FeedTypes /\ FeedInHand /\ FeedCounts
    BY DEF FeedHold, FeedInv
  <3>2. Feed!NoSilentGap
    <4> SUFFICES ASSUME NEW c \in since..saved, since > 0
                 PROVE  predicted[c] > 0 \/ c \in failed \/ c \in gaps
      BY DEF Feed!NoSilentGap
    <4>1. c \in Feed!Hours /\ since <= c /\ c <= saved
      BY <3>1 DEF FeedTypes
    <4> QED BY <3>1, <4>1 DEF FeedCounts
  <3>3. Feed!RepeatsArePaidFor /\ Feed!PublishedIsPersisted
    BY <3>1 DEF FeedCounts, Feed!RepeatsArePaidFor, Feed!PublishedIsPersisted
  <3>4. Feed!OnePagePerDeath
    BY <3>1 DEF FeedCounts, Feed!OnePagePerDeath
  <3> QED BY <3>2, <3>3, <3>4
<2>2. CASE part # "feed"
  BY <2>2 DEF FeedHold, Feed!NoSilentGap, Feed!PublishedIsPersisted, Feed!OnePagePerDeath
<2> QED BY <2>1, <2>2
<1>2. FeedHold /\ FleetHold => FeedHonest
  BY <1>1, FleetFeedsOnce DEF FeedHonest
<1> QED
  BY <1>2, FeedStays, FleetStays, PTL

-----------------------------------------------------------------------------
(* Paper positions: what a close files, the break-even variant, the         *)
(* cooldowns across restarts, and the page of a position nobody watches.    *)

Position == [held : Int, hist : Seq(Bars)]

\* An uncut history holds every bar, and none of them would have closed.
Tracked(p) ==
    p.held <= HistoryCap =>
        /\ Len(p.hist) = p.held
        /\ \A i \in 1..p.held : Shadow!Exit(p.hist[i], i, Stop) = "none"

LEMMA PaperBounds ==
    /\ HoldBars \in Nat /\ Cooldown \in Nat /\ HistoryCap \in Nat /\ Target \in Nat
    /\ PaperFaults \in Nat
  BY BackgroundFaultsAssumption, PaperAssumption

\* A bar more, and the history with it until it is full.
LEMMA OneBarMore ==
    ASSUME NEW p \in Position, NEW bar \in Bars, p.held >= 0, Len(p.hist) <= HistoryCap
    PROVE  LET q == Shadow!Advance(p, bar) IN
           /\ q \in Position /\ q.held = p.held + 1 /\ q # Shadow!Flat
           /\ Len(q.hist) <= HistoryCap
           /\ Tracked(p) /\ q.held <= HistoryCap =>
                  q.hist = Append(p.hist, bar) /\ Len(q.hist) = q.held
<1> DEFINE q == Shadow!Advance(p, bar)
<1>1. q = [held |-> p.held + 1,
           hist |-> IF Len(p.hist) < HistoryCap THEN Append(p.hist, bar) ELSE p.hist]
  BY DEF Shadow!Advance
<1>2. p.held \in Int /\ p.hist \in Seq(Bars)
  BY DEF Position
<1>3. Append(p.hist, bar) \in Seq(Bars) /\ Len(Append(p.hist, bar)) = Len(p.hist) + 1
  BY <1>2
<1>4. q.held = p.held + 1 /\ q.hist \in Seq(Bars) /\ q \in Position
  BY <1>1, <1>2, <1>3 DEF Position
<1>5. Len(q.hist) <= HistoryCap
  BY <1>1, <1>2, <1>3, PaperBounds
<1>6. q # Shadow!Flat
  BY <1>4, <1>2 DEF Shadow!Flat
<1>7. ASSUME Tracked(p), q.held <= HistoryCap
      PROVE  q.hist = Append(p.hist, bar) /\ Len(q.hist) = q.held
  <2>1. p.held < HistoryCap /\ Len(p.hist) = p.held
    BY <1>7, <1>4, <1>2, PaperBounds DEF Tracked
  <2> QED
    BY <2>1, <1>1, <1>3, <1>4
<1> QED
  BY <1>4, <1>5, <1>6, <1>7

\* A bar that does not close leaves the history tracked.
LEMMA StillTracked ==
    ASSUME NEW p \in Position, NEW bar \in Bars, p.held >= 0, Len(p.hist) <= HistoryCap,
           Tracked(p),
           Shadow!Exit(bar, Shadow!Advance(p, bar).held, Stop) = "none"
    PROVE  Tracked(Shadow!Advance(p, bar))
<1> DEFINE q == Shadow!Advance(p, bar)
<1>1. /\ q \in Position /\ q.held = p.held + 1
      /\ q.held <= HistoryCap => q.hist = Append(p.hist, bar) /\ Len(q.hist) = q.held
  BY OneBarMore
<1>2. p.held \in Int /\ p.hist \in Seq(Bars) /\ Shadow!Exit(bar, q.held, Stop) = "none"
  BY DEF Position
<1> HIDE DEF q
<1> SUFFICES ASSUME q.held <= HistoryCap, NEW i \in 1..q.held
             PROVE  Shadow!Exit(q.hist[i], i, Stop) = "none"
  BY <1>1 DEF Tracked, q
<1>3. Len(p.hist) = p.held /\ \A j \in 1..p.held : Shadow!Exit(p.hist[j], j, Stop) = "none"
  BY <1>1, <1>2, PaperBounds DEF Tracked
<1>4. CASE i = q.held
  <2>1. q.hist[i] = bar
    BY <1>1, <1>2, <1>3, <1>4
  <2> QED BY <2>1, <1>2, <1>4
<1>5. CASE i # q.held
  <2>1. i \in 1..Len(p.hist) /\ q.hist = Append(p.hist, bar)
    BY <1>1, <1>2, <1>3, <1>5
  <2>2. i \in 1..p.held /\ q.hist[i] = p.hist[i]
    BY <2>1, <1>2, <1>3
  <2> QED BY <2>2, <1>3
<1> QED BY <1>4, <1>5

\* The bars at which the variant closes, and the first of them.
Exits(hist) == {i \in DOMAIN hist : Shadow!ExitAt(hist, i) # "none"}
Last(hist) ==
    IF Exits(hist) = {} THEN Len(hist)
    ELSE CHOOSE i \in Exits(hist) : \A j \in Exits(hist) : i <= j
Why(hist) == IF Exits(hist) = {} THEN "TIMEOUT" ELSE Shadow!ExitAt(hist, Last(hist))

LEMMA LastIsAnExit ==
    ASSUME NEW hist \in Seq(Bars), Exits(hist) # {}
    PROVE  Last(hist) \in Exits(hist)
<1>1. Exits(hist) \subseteq 1..Len(hist) /\ Len(hist) \in Nat
  BY DEF Exits
<1>2. IsFiniteSet(Exits(hist)) /\ Exits(hist) \in SUBSET Int
<2>1. IsFiniteSet(1..Len(hist))
  BY <1>1, FS_Interval
<2>2. IsFiniteSet(Exits(hist))
  BY <1>1, <2>1, FS_Subset
<2> QED BY <1>1, <2>2
<1>3. \E i \in Exits(hist) : \A j \in Exits(hist) : i <= j
  BY <1>2, LeastOfFinite
<1> QED
  BY <1>3 DEF Last

\* What is filed, in those terms.
LEMMA FiledAs ==
    ASSUME NEW q, NEW bar, NEW f, f = Shadow!File(q, bar)
    PROVE  /\ f.reason = Shadow!Exit(bar, q.held, Stop) /\ f.held = q.held
           /\ f.variant = IF Why(q.hist) = "STOP_LOSS" /\ Shadow!Armed(q.hist, Last(q.hist))
                          THEN "BREAKEVEN" ELSE Why(q.hist)
           /\ f.armed = (\/ Shadow!Armed(q.hist, Last(q.hist))
                         \/ Why(q.hist) = "TIMEOUT" /\ q.hist # <<>>
                            /\ q.hist[Last(q.hist)].high >= Trigger)
           /\ Why(q.hist) = "STOP_LOSS" => f.at = Shadow!StopAt(q.hist, Last(q.hist))
           /\ Why(q.hist) = "TAKE_PROFIT" => f.at = Target
<1>1. f.reason = Shadow!Exit(bar, q.held, Stop) /\ f.held = q.held
  BY DEF Shadow!File
<1>2. f.variant = IF Why(q.hist) = "STOP_LOSS" /\ Shadow!Armed(q.hist, Last(q.hist))
                  THEN "BREAKEVEN" ELSE Why(q.hist)
  BY DEF Shadow!File, Shadow!Variant, Exits, Last, Why
<1>3. f.armed = (\/ Shadow!Armed(q.hist, Last(q.hist))
                 \/ Why(q.hist) = "TIMEOUT" /\ q.hist # <<>>
                    /\ q.hist[Last(q.hist)].high >= Trigger)
  BY DEF Shadow!File, Shadow!Variant, Exits, Last, Why
<1>4. f.at = CASE Why(q.hist) = "STOP_LOSS" -> Shadow!StopAt(q.hist, Last(q.hist))
               [] Why(q.hist) = "TAKE_PROFIT" -> Target
               [] OTHER -> IF q.hist = <<>> THEN 0 ELSE q.hist[Last(q.hist)].close
  BY DEF Shadow!File, Shadow!Variant, Exits, Last, Why
<1> QED
  BY <1>1, <1>2, <1>3, <1>4

\* Armed, the stop is the entry, and the target lies beyond it.
LEMMA FiledNeverLoses ==
    ASSUME NEW q, q.hist \in Seq(Bars), NEW bar, NEW f, f = Shadow!File(q, bar),
           f.armed, f.variant # "TIMEOUT"
    PROVE  f.at >= 0
<1>1. Why(q.hist) \in {"STOP_LOSS", "TAKE_PROFIT"}
  <2>1. Exits(q.hist) # {}
    BY FiledAs DEF Why
  <2>2. Shadow!ExitAt(q.hist, Last(q.hist)) # "none"
    BY <2>1, LastIsAnExit DEF Exits
  <2>3. Shadow!ExitAt(q.hist, Last(q.hist))
            \in {"STOP_LOSS", "TAKE_PROFIT", "TIMEOUT", "none"}
    BY DEF Shadow!ExitAt, Shadow!Exit
  <2>4. Why(q.hist) # "TIMEOUT"
    BY FiledAs
  <2> QED BY <2>1, <2>2, <2>3, <2>4 DEF Why
<1>2. CASE Why(q.hist) = "STOP_LOSS"
  <2>1. Shadow!Armed(q.hist, Last(q.hist))
    BY <1>2, FiledAs
  <2>2. f.at = 0
    BY <2>1, <1>2, FiledAs DEF Shadow!StopAt
  <2> QED BY <2>2
<1>3. CASE Why(q.hist) = "TAKE_PROFIT"
<2>1. f.at = Target
  BY <1>3, FiledAs
<2> QED BY <2>1, PaperBounds
<1> QED BY <1>1, <1>2, <1>3

\* The position that closes on this bar has every bar before it in a tracked
\* history: an unarmed variant can close at none of them, and closes here.
LEMMA FiledIsBase ==
    ASSUME NEW p \in Position, NEW bar \in Bars, p.held >= 0, Len(p.hist) <= HistoryCap,
           Tracked(p), NEW q, q = Shadow!Advance(p, bar),
           Shadow!Exit(bar, q.held, Stop) # "none",
           NEW f, f = Shadow!File(q, bar), f.held <= HistoryCap, ~f.armed
    PROVE  f.variant = f.reason
<1> DEFINE hist == q.hist
           n == q.held
<1>1. /\ q \in Position /\ n = p.held + 1 /\ n <= HistoryCap
      /\ hist = Append(p.hist, bar) /\ Len(hist) = n
<2>1. f.held = n
  BY FiledAs
<2> QED
  BY <2>1, OneBarMore
<1>2. hist \in Seq(Bars) /\ p.held \in Int /\ p.hist \in Seq(Bars) /\ n \in 1..n
  BY <1>1 DEF Position
<1>3. Len(p.hist) = p.held /\ \A j \in 1..p.held : Shadow!Exit(p.hist[j], j, Stop) = "none"
  BY <1>1, <1>2, PaperBounds DEF Tracked
<1>4. hist[n] = bar /\ \A j \in 1..p.held : hist[j] = p.hist[j]
  BY <1>1, <1>2, <1>3
<1>5. ~ Shadow!Armed(hist, Last(hist))
  BY FiledAs
<1> HIDE DEF hist, n
<1>6. CASE Exits(hist) = {}
  <2>1. Last(hist) = n /\ n \in DOMAIN hist
    BY <1>6, <1>1, <1>2 DEF Last
  <2>2. Shadow!ExitAt(hist, n) = Shadow!Exit(bar, n, Stop)
    BY <2>1, <1>4, <1>5 DEF Shadow!ExitAt, Shadow!StopAt
  <2>3. n \in Exits(hist)
    BY <2>1, <2>2 DEF Exits, n
  <2> QED BY <2>3, <1>6
<1>7. CASE Exits(hist) # {}
  <2> DEFINE i == Last(hist)
  <2>1. i \in Exits(hist)
    BY <1>2, <1>7, LastIsAnExit
  <2>2. i \in 1..n /\ Shadow!ExitAt(hist, i) # "none"
    BY <2>1, <1>1, <1>2 DEF Exits
  <2>3. Shadow!ExitAt(hist, i) = Shadow!Exit(hist[i], i, Stop)
    BY <1>5 DEF Shadow!ExitAt, Shadow!StopAt
  <2> HIDE DEF i
  <2>4. ~ (i \in 1..p.held)
    BY <2>2, <2>3, <1>3, <1>4
  <2>5. i = n
    BY <2>2, <2>4, <1>1, <1>2
  <2>6. Why(hist) = Shadow!Exit(bar, n, Stop)
    BY <2>3, <2>5, <1>4, <1>7 DEF Why, i
  <2>7. f.variant = Why(hist)
    BY <1>5, FiledAs DEF hist
  <2> QED BY <2>6, <2>7, FiledAs DEF n
<1> QED BY <1>6, <1>7

-----------------------------------------------------------------------------
(* The positions, lane by lane.                                              *)

PaperTypes ==
    /\ row \subseteq Shadow!Lanes /\ recorded \subseteq Shadow!Lanes
    /\ lost \subseteq Shadow!Lanes
    /\ cool \in [Shadow!Lanes -> 0..Cooldown] /\ coolMem \in [Shadow!Lanes -> 0..Cooldown]
    /\ topN \subseteq PaperSymbols /\ watched \subseteq PaperSymbols
    /\ paged \in BOOLEAN /\ paused \in BOOLEAN /\ up \in BOOLEAN
    /\ faults \in 0..PaperFaults

\* A position closes within its bound: beyond the timeout only failures keep
\* it, and the last of them may be a commit whose answer was lost.
PaperBooks ==
    /\ book \in [Shadow!Lanes -> Position]
    /\ \A l \in Shadow!Lanes :
           /\ book[l].held >= -1 /\ (book[l].held = -1 => book[l] = Shadow!Flat)
           /\ book[l].held <= HoldBars + PaperFaults + 1
           /\ l \notin recorded => book[l].held <= HoldBars + PaperFaults
           /\ Len(book[l].hist) <= HistoryCap

\* Candles come for watched lanes only, and who is not watched was paged.
PaperWatch ==
    /\ due \subseteq {l \in Shadow!Lanes : Shadow!SymbolOf(l) \in watched}
    /\ \A l \in Shadow!Lanes : Shadow!Has(l) /\ Shadow!SymbolOf(l) \notin watched => paged

\* The memory of a running worker blocks a lane as long as the table would:
\* by its cooldown, or by the position whose close was committed unseen.
PaperCool ==
    up => \A l \in Shadow!Lanes :
              cool[l] <= coolMem[l] \/ (Shadow!Has(l) /\ l \in recorded)

\* While nothing failed, histories are tracked and positions unrecorded.
PaperTrack ==
    faults = 0 => \A l \in Shadow!Lanes : Shadow!Has(l) => l \notin recorded /\ Tracked(book[l])

PaperFiled == Shadow!ArmedNeverLoses /\ Shadow!UnarmedIsBase

PaperInv ==
    PaperTypes /\ PaperBooks /\ PaperWatch /\ PaperCool /\ PaperTrack /\ PaperFiled

LEMMA FlatIsAPosition == Shadow!Flat \in Position /\ Shadow!Fresh \in Position
                         /\ Shadow!Fresh # Shadow!Flat /\ Tracked(Shadow!Fresh)
<1>1. <<>> \in Seq(Bars)
  OBVIOUS
<1>2. Shadow!Flat = [held |-> -1, hist |-> <<>>] /\ Shadow!Fresh = [held |-> 0, hist |-> <<>>]
  BY DEF Shadow!Flat, Shadow!Fresh
<1> QED
  BY <1>1, <1>2 DEF Position, Tracked

LEMMA PaperStart == Shadow!Init => PaperInv
<1> SUFFICES ASSUME Shadow!Init PROVE PaperInv
  OBVIOUS
<1> USE PaperBounds
<1>1. /\ row = {} /\ recorded = {} /\ cool = [l \in Shadow!Lanes |-> 0]
      /\ book = [l \in Shadow!Lanes |-> Shadow!Flat]
      /\ coolMem = [l \in Shadow!Lanes |-> 0] /\ lost = {} /\ filed = Shadow!NoFile
      /\ topN \subseteq PaperSymbols /\ watched = Shadow!Cut(topN) /\ paged = (watched # topN)
      /\ due = {} /\ paused = FALSE /\ up = TRUE /\ faults = 0
  BY DEF Shadow!Init
<1>2. PaperTypes
<2>1. watched \subseteq PaperSymbols
  BY <1>1 DEF Shadow!Cut
<2>2. cool \in [Shadow!Lanes -> 0..Cooldown] /\ coolMem \in [Shadow!Lanes -> 0..Cooldown]
  BY <1>1
<2>3. paged \in BOOLEAN /\ paused \in BOOLEAN /\ up \in BOOLEAN
  BY <1>1
<2> QED
  BY <1>1, <2>1, <2>2, <2>3 DEF PaperTypes
<1>3. \A l \in Shadow!Lanes : book[l] = Shadow!Flat /\ ~ Shadow!Has(l)
  BY <1>1 DEF Shadow!Has
<1>4. PaperBooks
<2>1. book \in [Shadow!Lanes -> Position]
  BY <1>1, FlatIsAPosition
<2>2. Shadow!Flat.held = -1 /\ Len(Shadow!Flat.hist) = 0
  BY DEF Shadow!Flat
<2> QED
  BY <1>3, <2>1, <2>2 DEF PaperBooks
<1>5. PaperWatch
  BY <1>1, <1>3 DEF PaperWatch
<1>6. PaperCool
  BY <1>1 DEF PaperCool
<1>7. PaperTrack
  BY <1>3 DEF PaperTrack
<1>8. PaperFiled
  BY <1>1 DEF PaperFiled, Shadow!NoFile, Shadow!ArmedNeverLoses, Shadow!UnarmedIsBase
<1> QED
  BY <1>2, <1>4, <1>5, <1>6, <1>7, <1>8 DEF PaperInv

\* A handler that leaves the books alone.
LEMMA PaperSkips ==
    ASSUME PaperInv, NEW l \in Shadow!Lanes, Shadow!Skip(l) \/ Shadow!NoEntry(l)
    PROVE  PaperInv'
<1>1. /\ due' = due \ {l}
      /\ UNCHANGED <<row, recorded, cool, book, coolMem, lost, filed, topN, watched, paged,
                     paused, up, faults>>
  BY DEF Shadow!Skip, Shadow!NoEntry, Shadow!Takes, Shadow!NoFault, Shadow!db, Shadow!memory,
     Shadow!stream
<1>2. PaperTypes' /\ PaperBooks' /\ PaperCool' /\ PaperTrack' /\ PaperFiled'
  BY <1>1 DEF PaperInv, PaperTypes, PaperBooks, PaperCool, PaperTrack, PaperFiled, Shadow!Has,
     Shadow!ArmedNeverLoses, Shadow!UnarmedIsBase
<1>3. PaperWatch'
  BY <1>1 DEF PaperInv, PaperWatch, Shadow!Has
<1> QED
  BY <1>2, <1>3 DEF PaperInv

\* An entry that commits, seen or unseen.
LEMMA PaperOpens ==
    ASSUME PaperInv, NEW l \in Shadow!Lanes, Shadow!Open(l)
    PROVE  PaperInv'
<1> USE PaperBounds DEF PaperInv
<1>1. /\ up /\ l \in due /\ due' = due \ {l} /\ ~Shadow!Has(l) /\ ~(coolMem[l] > 0)
      /\ row' = row \cup {l} /\ recorded' = recorded \ {l}
      /\ UNCHANGED <<cool, coolMem, filed, topN, watched, paged, paused, up>>
  BY DEF Shadow!Open, Shadow!Takes, Shadow!Blocked, Shadow!stream
<1>2. \/ book' = [book EXCEPT ![l] = Shadow!Fresh] /\ faults' = faults /\ lost' = lost
      \/ lost' = lost \cup {l} /\ book' = book /\ faults < PaperFaults /\ faults' = faults + 1
  BY DEF Shadow!Open, Shadow!Fault, Shadow!NoFault
<1>3. PaperTypes'
  BY <1>1, <1>2 DEF PaperTypes
<1>4. book' \in [Shadow!Lanes -> Position]
  BY <1>2, FlatIsAPosition DEF PaperBooks
<1>5. \A m \in Shadow!Lanes : m # l => book'[m] = book[m] /\ (m \in recorded' <=> m \in recorded)
  BY <1>1, <1>2 DEF PaperBooks
<1>6. book'[l] = Shadow!Fresh \/ (book'[l] = Shadow!Flat /\ faults' = faults + 1)
  BY <1>1, <1>2 DEF PaperBooks, Shadow!Has
<1>7. /\ Shadow!Fresh.held = 0 /\ Len(Shadow!Fresh.hist) = 0
      /\ Shadow!Flat.held = -1 /\ Len(Shadow!Flat.hist) = 0
  BY DEF Shadow!Flat, Shadow!Fresh
<1>8. PaperBooks'
<2>1. ASSUME NEW m \in Shadow!Lanes
      PROVE  /\ book'[m].held >= -1 /\ (book'[m].held = -1 => book'[m] = Shadow!Flat)
             /\ book'[m].held <= HoldBars + PaperFaults + 1
             /\ m \notin recorded' => book'[m].held <= HoldBars + PaperFaults
             /\ Len(book'[m].hist) <= HistoryCap
  <3>1. CASE m = l
    BY <3>1, <1>6, <1>7
  <3>2. CASE m # l
    BY <3>2, <1>5 DEF PaperBooks
  <3> QED BY <3>1, <3>2
<2> QED BY <1>4, <2>1 DEF PaperBooks
<1>9. PaperWatch'
<2>1. Shadow!SymbolOf(l) \in watched
  BY <1>1 DEF PaperWatch
<2> QED
  BY <2>1, <1>1, <1>5 DEF PaperWatch, Shadow!Has
<1>10. PaperCool'
<2>1. cool[l] <= coolMem[l]
  BY <1>1 DEF PaperCool
<2> QED
  BY <2>1, <1>1, <1>5 DEF PaperCool, Shadow!Has
<1>11. PaperTrack'
<2> SUFFICES ASSUME faults' = 0, NEW m \in Shadow!Lanes, book'[m] # Shadow!Flat
             PROVE  m \notin recorded' /\ Tracked(book'[m])
  BY DEF PaperTrack, Shadow!Has, Tracked, Shadow!Exit
<2>1. faults = 0
  BY <1>2 DEF PaperTypes
<2>2. CASE m = l
  BY <2>2, <1>1, <1>6, FlatIsAPosition DEF PaperTypes
<2>3. CASE m # l
  BY <2>1, <2>3, <1>5 DEF PaperTrack, Shadow!Has
<2> QED BY <2>2, <2>3
<1>12. PaperFiled'
  BY <1>1, <1>2 DEF PaperFiled, PaperTypes, Shadow!ArmedNeverLoses, Shadow!UnarmedIsBase
<1> QED
  BY <1>3, <1>8, <1>9, <1>10, <1>11, <1>12

\* What a handler with a position does to its lane, p the position advanced:
\* to keep it, or to close it; the other lanes stay as they are.
LEMMA LaneBooks ==
    ASSUME PaperInv, NEW l \in Shadow!Lanes, NEW p,
           book' = [book EXCEPT ![l] = p], \A m \in Shadow!Lanes : m # l =>
               (m \in recorded' <=> m \in recorded),
           \/ p = Shadow!Flat
           \/ /\ p \in Position /\ p.held >= 0 /\ p.held <= HoldBars + PaperFaults + 1
              /\ l \notin recorded' => p.held <= HoldBars + PaperFaults
              /\ Len(p.hist) <= HistoryCap
    PROVE  /\ PaperBooks' /\ book'[l] = p
           /\ \A m \in Shadow!Lanes : m # l => book'[m] = book[m]
<1> USE PaperBounds DEF PaperInv
<1>1. book' \in [Shadow!Lanes -> Position]
  BY FlatIsAPosition DEF PaperBooks
<1>2. book'[l] = p /\ \A m \in Shadow!Lanes : m # l => book'[m] = book[m]
  BY DEF PaperBooks
<1>3. /\ Shadow!Flat.held = -1 /\ Len(Shadow!Flat.hist) = 0
  BY DEF Shadow!Flat
<1>4. /\ p.held >= -1 /\ (p.held = -1 => p = Shadow!Flat)
      /\ p.held <= HoldBars + PaperFaults + 1
      /\ l \notin recorded' => p.held <= HoldBars + PaperFaults
      /\ Len(p.hist) <= HistoryCap
<2>1. CASE p = Shadow!Flat
  BY <2>1, <1>3
<2>2. CASE p # Shadow!Flat
  BY <2>2 DEF Position
<2> QED BY <2>1, <2>2
<1>5. ASSUME NEW m \in Shadow!Lanes
      PROVE  /\ book'[m].held >= -1 /\ (book'[m].held = -1 => book'[m] = Shadow!Flat)
             /\ book'[m].held <= HoldBars + PaperFaults + 1
             /\ m \notin recorded' => book'[m].held <= HoldBars + PaperFaults
             /\ Len(book'[m].hist) <= HistoryCap
  <2>1. CASE m = l
    BY <2>1, <1>2, <1>4
  <2>2. CASE m # l
    BY <2>2, <1>2 DEF PaperBooks
  <2> QED BY <2>1, <2>2
<1> QED BY <1>1, <1>2, <1>5 DEF PaperBooks

LEMMA PaperHandles ==
    ASSUME PaperInv, NEW l \in Shadow!Lanes, NEW bar \in Bars,
           Shadow!Hold(l, bar) \/ Shadow!Close(l, bar) \/ Shadow!CloseFails(l, bar)
    PROVE  PaperInv'
<1> DEFINE p == Shadow!Advance(book[l], bar)
           why == Shadow!Exit(bar, p.held, Stop)
<1> USE PaperBounds DEF PaperInv
<1>1. /\ up /\ l \in due /\ due' = due \ {l} /\ Shadow!Has(l)
      /\ UNCHANGED <<topN, watched, paged, paused, up>>
  BY DEF Shadow!Hold, Shadow!Close, Shadow!CloseFails, Shadow!Takes, Shadow!stream
<1>2. book[l] \in Position /\ book[l].held \in Int /\ book[l].held >= 0
      /\ Len(book[l].hist) <= HistoryCap
  BY <1>1 DEF PaperBooks, Shadow!Has, Position
<1>3. /\ p \in Position /\ p.held = book[l].held + 1 /\ p # Shadow!Flat
      /\ p.held >= 0 /\ p.held \in Int /\ Len(p.hist) <= HistoryCap
  BY <1>2, OneBarMore
<1>4. Shadow!SymbolOf(l) \in watched
  BY <1>1 DEF PaperWatch
<1>5. Shadow!Flat \in Position
  BY FlatIsAPosition
<1>6. Shadow!Exit(bar, p.held, Stop) = "none" => p.held < HoldBars
  BY <1>3 DEF Shadow!Exit
<1>7. book[l].held <= HoldBars + PaperFaults + 1
      /\ (l \notin recorded => book[l].held <= HoldBars + PaperFaults)
  BY DEF PaperBooks
<1>8. Tracked(book[l]) /\ why = "none" => Tracked(p)
  BY <1>2, StillTracked
<1> HIDE DEF p
<1>9. CASE Shadow!Hold(l, bar)
  <2>1. /\ why = "none" /\ book' = [book EXCEPT ![l] = p]
        /\ UNCHANGED <<row, recorded, cool, coolMem, lost, filed, faults>>
    BY <1>9 DEF Shadow!Hold, Shadow!NoFault, Shadow!db, p
  <2>2. p.held < HoldBars
    BY <2>1, <1>6
  <2>3. /\ PaperBooks' /\ book'[l] = p
        /\ \A m \in Shadow!Lanes : m # l => book'[m] = book[m]
    <3>1. /\ p \in Position /\ p.held >= 0 /\ p.held <= HoldBars + PaperFaults + 1
          /\ l \notin recorded' => p.held <= HoldBars + PaperFaults
          /\ Len(p.hist) <= HistoryCap
      BY <2>2, <1>3
    <3>2. \A m \in Shadow!Lanes : m # l => (m \in recorded' <=> m \in recorded)
      BY <2>1
    <3> QED BY <3>1, <3>2, <2>1, LaneBooks
  <2>4. PaperTypes'
    BY <1>1, <2>1 DEF PaperTypes
  <2>5. PaperWatch'
    BY <1>1, <1>4, <2>3 DEF PaperWatch, Shadow!Has
  <2>6. PaperCool'
    BY <1>1, <1>3, <2>1, <2>3 DEF PaperCool, Shadow!Has
  <2>7. PaperTrack'
    <3> SUFFICES ASSUME faults = 0, NEW m \in Shadow!Lanes, book'[m] # Shadow!Flat
                 PROVE  m \notin recorded /\ Tracked(book'[m])
      BY <2>1 DEF PaperTrack, Shadow!Has, Tracked, Shadow!Exit
    <3>1. CASE m = l
      BY <3>1, <2>1, <2>3, <1>1, <1>8 DEF PaperTrack
    <3>2. CASE m # l
      BY <3>2, <2>3 DEF PaperTrack, Shadow!Has
    <3> QED BY <3>1, <3>2
  <2>8. PaperFiled'
    BY <2>1 DEF PaperFiled, Shadow!ArmedNeverLoses, Shadow!UnarmedIsBase
  <2> QED BY <2>3, <2>4, <2>5, <2>6, <2>7, <2>8
<1>10. CASE Shadow!Close(l, bar)
  <2>1. /\ why # "none" /\ l \notin recorded
        /\ row' = row \ {l} /\ recorded' = recorded \cup {l}
        /\ cool' = [cool EXCEPT ![l] = Cooldown]
    BY <1>10 DEF Shadow!Close, Shadow!Closable, p
  <2>2. \/ /\ book' = [book EXCEPT ![l] = Shadow!Flat]
           /\ coolMem' = [coolMem EXCEPT ![l] = Cooldown]
           /\ filed' = Shadow!File(p, bar) /\ faults' = faults /\ lost' = lost
        \/ /\ book' = [book EXCEPT ![l] = p] /\ lost' = lost \cup {l}
           /\ coolMem' = coolMem /\ filed' = filed
           /\ faults < PaperFaults /\ faults' = faults + 1
    BY <1>10 DEF Shadow!Close, Shadow!NoFault, Shadow!Fault, p
  <2>3. /\ PaperBooks' /\ (book'[l] = p \/ book'[l] = Shadow!Flat)
        /\ \A m \in Shadow!Lanes : m # l => book'[m] = book[m]
    <3>1. /\ p \in Position /\ p.held >= 0 /\ p.held <= HoldBars + PaperFaults + 1
          /\ l \notin recorded' => p.held <= HoldBars + PaperFaults
          /\ Len(p.hist) <= HistoryCap
      <4>1. l \in recorded' /\ p.held <= HoldBars + PaperFaults + 1
        <5>1. l \in recorded'
          BY <2>1
        <5>2. book[l].held <= HoldBars + PaperFaults
          BY <2>1, <1>7
        <5> QED BY <5>1, <5>2, <1>2, <1>3
      <4> QED BY <4>1, <1>3
    <3>2. \A m \in Shadow!Lanes : m # l => (m \in recorded' <=> m \in recorded)
      BY <2>1
    <3>3. CASE book' = [book EXCEPT ![l] = p]
      BY <3>1, <3>2, <3>3, LaneBooks
    <3>4. CASE book' = [book EXCEPT ![l] = Shadow!Flat]
      BY <3>2, <3>4, LaneBooks
    <3> QED BY <2>2, <3>3, <3>4
  <2>4. \A m \in Shadow!Lanes : m # l => (m \in recorded' <=> m \in recorded)
    BY <2>1
  <2>5. cool' \in [Shadow!Lanes -> 0..Cooldown] /\ coolMem' \in [Shadow!Lanes -> 0..Cooldown]
    BY <2>1, <2>2 DEF PaperTypes
  <2>6. PaperTypes'
    BY <1>1, <2>1, <2>2, <2>5 DEF PaperTypes
  <2>7. PaperWatch'
    BY <1>1, <1>4, <2>3 DEF PaperWatch, Shadow!Has
  <2>8. PaperCool'
    <3>1. \A m \in Shadow!Lanes : m # l => cool'[m] = cool[m] /\ coolMem'[m] = coolMem[m]
      BY <2>1, <2>2 DEF PaperTypes
    <3>2. \/ cool'[l] = Cooldown /\ coolMem'[l] = Cooldown
          \/ book'[l] = p
      BY <2>1, <2>2, <2>3 DEF PaperTypes, PaperBooks
    <3> QED
      BY <3>1, <3>2, <2>1, <2>3, <2>4, <1>1, <1>3 DEF PaperCool, Shadow!Has
  <2>9. PaperTrack'
    <3> SUFFICES ASSUME faults' = 0, NEW m \in Shadow!Lanes, book'[m] # Shadow!Flat
                 PROVE  m \notin recorded' /\ Tracked(book'[m])
      BY DEF PaperTrack, Shadow!Has, Tracked, Shadow!Exit
    <3>1. faults = 0 /\ book' = [book EXCEPT ![l] = Shadow!Flat]
      BY <2>2 DEF PaperTypes
    <3>2. m # l
      BY <3>1 DEF PaperBooks
    <3> QED BY <3>1, <3>2, <2>3, <2>4 DEF PaperTrack, Shadow!Has
  <2>10. PaperFiled'
    <3>1. CASE filed' = Shadow!File(p, bar)
      <4>1. Shadow!ArmedNeverLoses'
        BY <3>1, <1>3, FiledNeverLoses DEF Shadow!ArmedNeverLoses, Position
      <4>2. ASSUME faults' = 0, filed'.held <= HistoryCap, ~filed'.armed
            PROVE  filed'.variant = filed'.reason
        <5>1. faults = 0
          BY <2>2, <4>2 DEF PaperTypes
        <5>2. Tracked(book[l])
          BY <5>1, <1>1 DEF PaperTrack
        <5> QED BY <5>2, <3>1, <4>2, <2>1, <1>2, FiledIsBase DEF p
      <4> QED BY <4>1, <4>2 DEF PaperFiled, Shadow!UnarmedIsBase
    <3>2. CASE filed' = filed /\ faults' = faults + 1
      BY <3>2 DEF PaperFiled, PaperTypes, Shadow!ArmedNeverLoses, Shadow!UnarmedIsBase
    <3> QED BY <2>2, <3>1, <3>2
  <2> QED BY <2>3, <2>6, <2>7, <2>8, <2>9, <2>10
<1>11. CASE Shadow!CloseFails(l, bar)
  <2>1. /\ p.held <= HoldBars + PaperFaults /\ book' = [book EXCEPT ![l] = p]
        /\ UNCHANGED <<row, recorded, cool, coolMem, lost, filed>>
    BY <1>11 DEF Shadow!CloseFails, Shadow!db, p
  <2>2. \/ l \notin recorded /\ faults < PaperFaults /\ faults' = faults + 1
        \/ l \in recorded /\ faults' = faults
    BY <1>11 DEF Shadow!CloseFails, Shadow!Closable, Shadow!Fault, Shadow!NoFault
  <2>3. /\ PaperBooks' /\ book'[l] = p
        /\ \A m \in Shadow!Lanes : m # l => book'[m] = book[m]
    <3>1. /\ p \in Position /\ p.held >= 0 /\ p.held <= HoldBars + PaperFaults + 1
          /\ l \notin recorded' => p.held <= HoldBars + PaperFaults
          /\ Len(p.hist) <= HistoryCap
      BY <2>1, <1>3
    <3>2. \A m \in Shadow!Lanes : m # l => (m \in recorded' <=> m \in recorded)
      BY <2>1
    <3> QED BY <3>1, <3>2, <2>1, LaneBooks
  <2>4. PaperTypes'
    BY <1>1, <2>1, <2>2 DEF PaperTypes
  <2>5. PaperWatch'
    BY <1>1, <1>4, <2>3 DEF PaperWatch, Shadow!Has
  <2>6. PaperCool'
    BY <1>1, <1>3, <2>1, <2>3 DEF PaperCool, Shadow!Has
  <2>7. PaperTrack'
    <3>1. faults' # 0
      BY <2>2, <1>1 DEF PaperTypes, PaperTrack
    <3> QED BY <3>1 DEF PaperTrack
  <2>8. PaperFiled'
    <3>1. faults' # 0
      BY <2>2, <1>1 DEF PaperTypes, PaperTrack
    <3> QED BY <3>1, <2>1 DEF PaperFiled, Shadow!ArmedNeverLoses, Shadow!UnarmedIsBase
  <2> QED BY <2>3, <2>4, <2>5, <2>6, <2>7, <2>8
<1> QED BY <1>9, <1>10, <1>11

LEMMA Lessened ==
    ASSUME NEW m \in Nat, NEW n \in Nat
    PROVE  /\ Shadow!Less(n) \in 0..n
           /\ m <= n => Shadow!Less(m) <= Shadow!Less(n)
  BY DEF Shadow!Less

LEMMA PaperBar == ASSUME PaperInv, Shadow!NewBar PROVE PaperInv'
<1> USE PaperBounds DEF PaperInv
<1>1. /\ due' = {l \in Shadow!Lanes : Shadow!SymbolOf(l) \in watched}
      /\ cool' = [l \in Shadow!Lanes |-> Shadow!Less(cool[l])]
      /\ coolMem' = [l \in Shadow!Lanes |-> Shadow!Less(coolMem[l])]
      /\ UNCHANGED <<row, recorded, book, lost, filed, topN, watched, paged, paused, up>>
  BY DEF Shadow!NewBar, Shadow!stream
<1>2. faults' = faults \/ (faults < PaperFaults /\ faults' = faults + 1)
  BY DEF Shadow!NewBar, Shadow!Fault, Shadow!NoFault
<1>3. \A l \in Shadow!Lanes : cool[l] \in Nat /\ coolMem[l] \in Nat
                              /\ cool[l] <= Cooldown /\ coolMem[l] <= Cooldown
  BY DEF PaperTypes
<1>4. \A l \in Shadow!Lanes : /\ cool'[l] \in 0..Cooldown /\ coolMem'[l] \in 0..Cooldown
                              /\ cool[l] <= coolMem[l] => cool'[l] <= coolMem'[l]
<2> SUFFICES ASSUME NEW l \in Shadow!Lanes
             PROVE  /\ cool'[l] \in 0..Cooldown /\ coolMem'[l] \in 0..Cooldown
                    /\ cool[l] <= coolMem[l] => cool'[l] <= coolMem'[l]
  OBVIOUS
<2>1. cool'[l] = Shadow!Less(cool[l]) /\ coolMem'[l] = Shadow!Less(coolMem[l])
  BY <1>1
<2>2. Shadow!Less(cool[l]) \in 0..cool[l] /\ Shadow!Less(coolMem[l]) \in 0..coolMem[l]
  BY <1>3, Lessened
<2>3. cool[l] <= coolMem[l] => Shadow!Less(cool[l]) <= Shadow!Less(coolMem[l])
  BY <1>3, Lessened
<2> QED BY <2>1, <2>2, <2>3, <1>3
<1>5. cool' \in [Shadow!Lanes -> 0..Cooldown] /\ coolMem' \in [Shadow!Lanes -> 0..Cooldown]
  BY <1>1, <1>4
<1>6. PaperTypes'
  BY <1>1, <1>2, <1>5 DEF PaperTypes
<1>7. PaperBooks'
  BY <1>1 DEF PaperBooks
<1>8. PaperWatch'
  BY <1>1 DEF PaperWatch, Shadow!Has
<1>9. PaperCool'
  BY <1>1, <1>4 DEF PaperCool, Shadow!Has
<1>10. PaperTrack' /\ PaperFiled'
  BY <1>1, <1>2 DEF PaperTypes, PaperTrack, PaperFiled, Shadow!Has, Shadow!ArmedNeverLoses,
     Shadow!UnarmedIsBase
<1> QED BY <1>6, <1>7, <1>8, <1>9, <1>10

\* The universe, the pause switch.
LEMMA PaperRuled ==
    ASSUME PaperInv, Shadow!RefreshUniverse \/ Shadow!Pause \/ Shadow!Resume PROVE PaperInv'
<1> USE PaperBounds DEF PaperInv
<1>1. UNCHANGED <<row, recorded, cool, coolMem, book, lost, filed, watched, paged, due, up>>
  BY DEF Shadow!RefreshUniverse, Shadow!Pause, Shadow!Resume, Shadow!db, Shadow!memory,
     Shadow!stream
<1>2. faults' = faults \/ (faults < PaperFaults /\ faults' = faults + 1)
  BY DEF Shadow!RefreshUniverse, Shadow!Pause, Shadow!Resume, Shadow!Fault, Shadow!NoFault
<1>3. topN' \subseteq PaperSymbols /\ paused' \in BOOLEAN
  BY DEF Shadow!RefreshUniverse, Shadow!Pause, Shadow!Resume, Shadow!stream, PaperTypes
<1>4. PaperTypes'
  BY <1>1, <1>2, <1>3 DEF PaperTypes
<1>5. PaperBooks' /\ PaperWatch' /\ PaperCool'
  BY <1>1 DEF PaperBooks, PaperWatch, PaperCool, Shadow!Has
<1>6. PaperTrack' /\ PaperFiled'
  BY <1>1, <1>2 DEF PaperTypes, PaperTrack, PaperFiled, Shadow!Has, Shadow!ArmedNeverLoses,
     Shadow!UnarmedIsBase
<1> QED BY <1>4, <1>5, <1>6

LEMMA PaperRestarts == ASSUME PaperInv, Shadow!Restart PROVE PaperInv'
<1> USE PaperBounds DEF PaperInv
<1>1. /\ due' = {} /\ lost' = {} /\ faults < PaperFaults /\ faults' = faults + 1
      /\ UNCHANGED <<row, recorded, cool, filed, topN, paused>>
  BY DEF Shadow!Restart, Shadow!Fault, Shadow!db
<1>2. \/ /\ up' = TRUE /\ watched' = Shadow!Cut(Shadow!Wanted(topN, row))
         /\ paged' = (watched' # Shadow!Wanted(topN, row))
         /\ book' = [l \in Shadow!Lanes |-> IF l \in row THEN Shadow!Fresh ELSE Shadow!Flat]
         /\ coolMem' = cool
      \/ /\ up' = FALSE /\ book' = [l \in Shadow!Lanes |-> Shadow!Flat]
         /\ coolMem' = [l \in Shadow!Lanes |-> 0] /\ watched' = watched /\ paged' = paged
  BY DEF Shadow!Restart, Shadow!LoadedBook, Shadow!LoadedCooldowns
<1>3. faults' # 0 /\ faults' \in 0..PaperFaults
  BY <1>1 DEF PaperTypes
<1>4. \A l \in Shadow!Lanes : Shadow!SymbolOf(l) \in PaperSymbols
  BY DEF Shadow!Lanes, Shadow!SymbolOf
<1>5. watched' \subseteq PaperSymbols /\ paged' \in BOOLEAN
<2>1. Shadow!Wanted(topN, row) \subseteq PaperSymbols
  BY <1>4 DEF PaperTypes, Shadow!Wanted
<2>2. Shadow!Cut(Shadow!Wanted(topN, row)) \subseteq PaperSymbols
  BY <2>1 DEF Shadow!Cut
<2> QED BY <1>2, <2>2 DEF PaperTypes
<1>6. coolMem' \in [Shadow!Lanes -> 0..Cooldown] /\ up' \in BOOLEAN
<2>1. [l \in Shadow!Lanes |-> 0] \in [Shadow!Lanes -> 0..Cooldown]
  OBVIOUS
<2>2. cool \in [Shadow!Lanes -> 0..Cooldown]
  BY DEF PaperTypes
<2> QED BY <2>1, <2>2, <1>2
<1>7. PaperTypes'
  BY <1>1, <1>3, <1>5, <1>6 DEF PaperTypes
<1>8. \A l \in Shadow!Lanes : book'[l] = Shadow!Flat \/ (book'[l] = Shadow!Fresh /\ l \in row /\ up')
  BY <1>2
<1>9. PaperBooks'
<2>1. book' \in [Shadow!Lanes -> Position]
  BY <1>2, FlatIsAPosition
<2>2. /\ Shadow!Fresh.held = 0 /\ Len(Shadow!Fresh.hist) = 0
      /\ Shadow!Flat.held = -1 /\ Len(Shadow!Flat.hist) = 0
  BY DEF Shadow!Flat, Shadow!Fresh
<2> QED BY <1>8, <2>1, <2>2 DEF PaperBooks
<1>10. PaperWatch'
<2> SUFFICES ASSUME NEW l \in Shadow!Lanes, book'[l] # Shadow!Flat,
                    Shadow!SymbolOf(l) \notin watched'
             PROVE  paged'
  BY <1>1 DEF PaperWatch, Shadow!Has
<2>1. l \in row /\ up'
  BY <1>8
<2>2. Shadow!SymbolOf(l) \in Shadow!Wanted(topN, row)
  BY <2>1 DEF Shadow!Wanted
<2>3. watched' # Shadow!Wanted(topN, row)
  BY <2>2
<2> QED BY <1>2, <2>1, <2>3
<1>11. PaperCool'
<2>1. up' => \A l \in Shadow!Lanes : cool'[l] <= coolMem'[l]
  BY <1>1, <1>2 DEF PaperTypes
<2> QED BY <2>1 DEF PaperCool
<1>12. PaperTrack' /\ PaperFiled'
  BY <1>1, <1>3 DEF PaperTrack, PaperFiled, Shadow!ArmedNeverLoses, Shadow!UnarmedIsBase
<1> QED BY <1>7, <1>9, <1>10, <1>11, <1>12

LEMMA PaperStep == ASSUME PaperInv, Shadow!Next PROVE PaperInv'
<1>1. CASE \E l \in Shadow!Lanes : Shadow!Handle(l)
  <2>1. PICK l \in Shadow!Lanes : Shadow!Handle(l)
    BY <1>1
  <2>2. CASE Shadow!Skip(l) \/ Shadow!NoEntry(l)
    BY <2>2, PaperSkips
  <2>3. CASE Shadow!Open(l)
    BY <2>3, PaperOpens
  <2>4. CASE \E bar \in Bars : Shadow!Hold(l, bar) \/ Shadow!Close(l, bar) \/ Shadow!CloseFails(l, bar)
    BY <2>4, PaperHandles
  <2> QED BY <2>1, <2>2, <2>3, <2>4 DEF Shadow!Handle
<1>2. CASE Shadow!NewBar
  BY <1>2, PaperBar
<1>3. CASE Shadow!RefreshUniverse \/ Shadow!Pause \/ Shadow!Resume
  BY <1>3, PaperRuled
<1>4. CASE Shadow!Restart
  BY <1>4, PaperRestarts
<1> QED BY <1>1, <1>2, <1>3, <1>4 DEF Shadow!Next

LEMMA PaperMoves ==
    ASSUME [Next]_vars
    PROVE  /\ UNCHANGED part
           /\ part = "shadow" => Shadow!Next \/ UNCHANGED vars
           /\ (part = "shadow" /\ Shadow!Next) \/ UNCHANGED shadowOnly
  BY DEF Next, TaskNext, DeskNext, vars, tasksOnly, deskOnly

\* The book that is not the part that moves stays empty.
PaperHold ==
    IF part = "shadow" THEN PaperInv
    ELSE /\ \A l \in Shadow!Lanes : ~ Shadow!Has(l)
         /\ filed = Shadow!NoFile

LEMMA PaperStays == Spec => []PaperHold
<1>1. Init => PaperHold
<2> SUFFICES ASSUME Init PROVE PaperHold
  OBVIOUS
<2>1. Shadow!Init
  BY DEF Init
<2>2. (\A l \in Shadow!Lanes : ~ Shadow!Has(l)) /\ filed = Shadow!NoFile
  BY <2>1 DEF Shadow!Init, Shadow!Has
<2> QED
  BY <2>1, <2>2, PaperStart DEF PaperHold
<1>2. PaperHold /\ [Next]_vars => PaperHold'
<2> SUFFICES ASSUME PaperHold, [Next]_vars PROVE PaperHold'
  OBVIOUS
<2>1. CASE part = "shadow" /\ Shadow!Next
  BY <2>1, PaperMoves, PaperStep DEF PaperHold
<2>2. CASE UNCHANGED shadowOnly /\ part # "shadow"
  BY <2>2, PaperMoves DEF PaperHold, shadowOnly, Shadow!Has
<2>3. CASE part = "shadow" /\ UNCHANGED vars
  <3>1. part' = part /\ UNCHANGED shadowOnly /\ UNCHANGED faults
    BY <2>3 DEF vars, tasksOnly
  <3>2. PaperInv
    BY <2>3 DEF PaperHold
  <3>3. PaperInv'
    BY <3>1, <3>2 DEF PaperInv, PaperTypes, PaperBooks, PaperWatch, PaperCool, PaperTrack,
       PaperFiled, Shadow!Has, Shadow!ArmedNeverLoses, Shadow!UnarmedIsBase, shadowOnly
  <3> QED BY <3>1, <3>3, <2>3 DEF PaperHold
<2> QED
  BY <2>1, <2>2, <2>3, PaperMoves
<1> QED
  BY <1>1, <1>2, PTL DEF Spec

\* The break-even variant of a paper trade is the base trade until it arms and
\* never below the entry once it has; and a lane opens nothing while the
\* cooldown of its last recorded trade runs, whatever restarted in between.
THEOREM PaperIsHonest == Spec => PaperHonest
<1>1. PaperHold => Shadow!UnarmedIsBase /\ Shadow!ArmedNeverLoses
  BY DEF PaperHold, PaperInv, PaperFiled, Shadow!NoFile, Shadow!UnarmedIsBase,
     Shadow!ArmedNeverLoses
<1>2. PaperHold /\ [Next]_vars =>
          [\A l \in Shadow!Lanes : l \in row' \ row => cool[l] = 0]_Shadow!vars
<2> SUFFICES ASSUME PaperHold, [Next]_vars,
                    NEW l \in Shadow!Lanes, l \in row', l \notin row
             PROVE  cool[l] = 0
  OBVIOUS
<2>1. part = "shadow" /\ Shadow!Next
  BY PaperMoves DEF shadowOnly
<2>2. PaperTypes /\ PaperCool
  BY <2>1 DEF PaperHold, PaperInv
<2>3. PICK m \in Shadow!Lanes : Shadow!Open(m)
<3>1. Shadow!NewBar \/ Shadow!RefreshUniverse \/ Shadow!Pause \/ Shadow!Resume \/ Shadow!Restart
      => row' = row
  BY DEF Shadow!NewBar, Shadow!RefreshUniverse, Shadow!Pause, Shadow!Resume, Shadow!Restart,
     Shadow!db
<3>2. PICK m \in Shadow!Lanes : Shadow!Handle(m)
  BY <2>1, <3>1 DEF Shadow!Next
<3>3. Shadow!Skip(m) \/ Shadow!NoEntry(m) => row' = row
  BY DEF Shadow!Skip, Shadow!NoEntry, Shadow!db
<3>4. \A bar \in Bars :
          Shadow!Hold(m, bar) \/ Shadow!Close(m, bar) \/ Shadow!CloseFails(m, bar)
          => row' \subseteq row
  BY DEF Shadow!Hold, Shadow!Close, Shadow!CloseFails, Shadow!db
<3> QED BY <3>2, <3>3, <3>4 DEF Shadow!Handle
<2>4. up /\ row' = row \cup {m} /\ ~ Shadow!Has(m) /\ ~ (coolMem[m] > 0)
  BY <2>3 DEF Shadow!Open, Shadow!Takes, Shadow!Blocked
<2>5. cool[l] <= coolMem[l] /\ ~ (coolMem[l] > 0)
  BY <2>2, <2>4 DEF PaperCool
<2> QED BY <2>2, <2>5, PaperBounds DEF PaperTypes
<1>3. Spec => [](Shadow!UnarmedIsBase /\ Shadow!ArmedNeverLoses)
  BY <1>1, PaperStays, PTL
<1>4. Spec => [][\A l \in Shadow!Lanes : l \in row' \ row => cool[l] = 0]_Shadow!vars
  BY <1>2, PaperStays, PTL DEF Spec
<1> QED
  BY <1>3, <1>4 DEF PaperHonest, Shadow!CooldownOutlivesRestart

-----------------------------------------------------------------------------
(* The limiter.                                                              *)

LEMMA MarketBounds ==
    /\ \A tf \in TFs : Ttl[tf] \in Nat \ {0}
    /\ FetchTimeout \in Nat /\ MarketTime \in Nat /\ MarketFaults \in Nat
    /\ Capacity \in Nat /\ Refill \in Nat /\ Weight \in Nat /\ Window \in Nat \ {0}
  BY BackgroundFaultsAssumption, MarketAssumption

\* The place of a moment in its window advances by one or starts again.
LEMMA NextTick ==
    ASSUME NEW n \in Nat, NEW w \in Nat \ {0}
    PROVE  /\ n % w \in 0..(w - 1)
           /\ (n + 1) % w = 0 \/ (n + 1) % w = (n % w) + 1
<1> DEFINE q == n \div w
           r == n % w
           q2 == (n + 1) \div w
           r2 == (n + 1) % w
           d == q2 - q
<1>1. q \in Int /\ r \in 0..(w - 1) /\ n = w * q + r
  BY SMTT(30)
<1>2. q2 \in Int /\ r2 \in 0..(w - 1) /\ n + 1 = w * q2 + r2
  BY SMTT(30)
<1>3. d \in Int /\ w * d = w * q2 - w * q
  BY <1>1, <1>2
<1> HIDE DEF q, r, q2, r2, d
<1>4. w * d = r + 1 - r2
  BY <1>1, <1>2, <1>3
<1>5. CASE d >= 1
  <2>1. w * d >= w
    BY <1>3, <1>5
  <2> QED BY <2>1, <1>1, <1>2, <1>4 DEF r, r2
<1>6. CASE d = 0
  BY <1>6, <1>1, <1>2, <1>4 DEF r, r2
<1>7. CASE d <= -1
  <2>1. w * d <= -w
    BY <1>3, <1>7
  <2> QED BY <2>1, <1>1, <1>2, <1>4
<1> QED BY <1>3, <1>5, <1>6, <1>7

\* What a bucket of x tokens holds d ticks later.
Full(x, d) == Market!Lesser(Capacity, x + d * Refill)

LEMMA FullBy ==
    ASSUME NEW x \in Nat, NEW d \in Nat
    PROVE  /\ Full(x, d) \in 0..Capacity
           /\ Full(x, 0) <= x
           /\ Full(x, d + 1) <= Full(x, d) + Refill
           /\ \A y \in Nat : Full(y, d) <= Full(x, d) + (IF y > x THEN y - x ELSE 0)
<1> USE MarketBounds
<1>1. d * Refill \in Nat /\ (d + 1) * Refill = d * Refill + Refill /\ 0 * Refill = 0
  OBVIOUS
<1> DEFINE k == d * Refill
<1>2. /\ Full(x, d) = Market!Lesser(Capacity, x + k)
      /\ Full(x, d + 1) = Market!Lesser(Capacity, x + k + Refill)
      /\ Full(x, 0) = Market!Lesser(Capacity, x)
      /\ \A y \in Nat : Full(y, d) = Market!Lesser(Capacity, y + k)
  BY <1>1 DEF Full
<1>3. k \in Nat
  BY <1>1
<1> HIDE DEF k
<1> QED BY <1>2, <1>3 DEF Market!Lesser

-----------------------------------------------------------------------------
(* The invariant of the market data.                                         *)

MarketTypes ==
    /\ clock \in 0..MarketTime /\ faults \in 0..MarketFaults
    /\ listings \in [Market!Markets -> Market!Status] \cup {Market!Unloaded}
    /\ bucket \in [tokens : 0..Capacity, at : Nat] /\ bucket.at <= clock
    /\ server \in Nat /\ granted \in Nat /\ forgotten \in Nat

\* What was granted and what is left never exceed what there was, what was
\* refilled in this window, and what the headers gave back.
MarketBooks ==
    granted + Full(bucket.tokens, clock - bucket.at)
        <= Capacity + Refill * (clock % Window) + forgotten

\* A request is answered within its time; a vote's candles were fresh when its
\* gather began.
FetchSound(f, tf, now) ==
    /\ f.phase \in {"none", "queued", "asleep", "sent", "served", "data", "failed"}
    /\ f.phase # "none" => f.since \in Int /\ f.since <= now
    /\ f.phase \in {"sent", "served", "data", "failed"} => f.sent \in Int /\ f.since <= f.sent
    /\ f.phase \in {"sent", "served"} => f.sent <= now /\ now - f.sent <= FetchTimeout
    /\ f.phase = "served" => f.data \in Int /\ f.sent <= f.data /\ f.used \in Nat
    /\ f.phase = "data" => f.data \in Int /\ f.since - f.data < Ttl[tf] + FetchTimeout

\* The fetches of a gather began together, and the last of them is over no later
\* than its answer was due.
Ended(f) == f.phase \in {"data", "failed"}
GatherSound(g, now) ==
    /\ \A tf, tg \in TFs : (g[tf].phase = "none" <=> g[tg].phase = "none")
                          /\ (g[tf].phase # "none" => g[tf].since = g[tg].since)
    /\ (\A tf \in TFs : Ended(g[tf])) =>
           \A tf \in TFs : \E last \in TFs : now - g[last].sent <= FetchTimeout

MarketFetches ==
    /\ DOMAIN fetch = Market!Tasks
    /\ \A t \in Market!Tasks :
           /\ DOMAIN fetch[t] = TFs
           /\ \A tf \in TFs : FetchSound(fetch[t][tf], tf, clock)
           /\ GatherSound(fetch[t], clock)

\* What is cached was fresh when it was cached.
MarketCache ==
    /\ DOMAIN cache = TFs
    /\ \A tf \in TFs : cache[tf] # Market!Nothing =>
           /\ cache[tf].at \in Int /\ cache[tf].data \in Int
           /\ cache[tf].at - cache[tf].data <= FetchTimeout

MarketInv == MarketTypes /\ MarketBooks /\ MarketFetches /\ MarketCache

LEMMA NoFetchSound ==
    ASSUME NEW tf, NEW now \in Int, NEW from \in Int, NEW sent \in Int,
           from <= now, from <= sent
    PROVE  FetchSound(Market!NoFetch, tf, now) /\ FetchSound(Market!Failed(from, sent), tf, now)
  BY DEF FetchSound, Market!NoFetch, Market!Failed

LEMMA MarketStart == Market!Init => MarketInv
<1> SUFFICES ASSUME Market!Init PROVE MarketInv
  OBVIOUS
<1> USE MarketBounds
<1>1. /\ clock = 0 /\ listings = Market!Unloaded /\ bucket = [tokens |-> Capacity, at |-> 0]
      /\ server = 0 /\ cache = [tf \in TFs |-> Market!Nothing]
      /\ fetch = [t \in Market!Tasks |-> [tf \in TFs |-> Market!NoFetch]]
      /\ granted = 0 /\ forgotten = 0 /\ faults = 0
  BY DEF Market!Init
<1>2. MarketTypes
  BY <1>1 DEF MarketTypes
<1>3. MarketBooks
  <2>1. Full(Capacity, 0) \in 0..Capacity /\ 0 % Window \in 0..(Window - 1)
    BY FullBy, NextTick
  <2>2. Refill * (0 % Window) \in Nat
    BY <2>1
  <2>3. granted = 0 /\ forgotten = 0 /\ bucket.tokens = Capacity /\ clock - bucket.at = 0
    BY <1>1
  <2> QED BY <1>1, <2>1, <2>2, <2>3 DEF MarketBooks
<1>4. MarketFetches
  <2>1. \A tf \in TFs : FetchSound(Market!NoFetch, tf, 0)
    BY DEF FetchSound, Market!NoFetch
  <2>2. GatherSound([tf \in TFs |-> Market!NoFetch], 0)
    BY DEF GatherSound, Ended, Market!NoFetch
  <2> QED BY <1>1, <2>1, <2>2 DEF MarketFetches
<1>5. MarketCache
  BY <1>1 DEF MarketCache
<1> QED BY <1>2, <1>3, <1>4, <1>5 DEF MarketInv

\* One task's fetch of one timeframe, or all of a task's, move.
LEMMA OneFetchMoves ==
    ASSUME MarketFetches, NEW t \in Market!Tasks, NEW tf \in TFs, NEW x,
           fetch' = [fetch EXCEPT ![t][tf] = x], FetchSound(x, tf, clock), clock' = clock,
           fetch[t][tf].phase # "none", x.phase # "none", x.since = fetch[t][tf].since,
           Ended(x) => clock - x.sent <= FetchTimeout
    PROVE  MarketFetches'
<1>1. DOMAIN fetch' = Market!Tasks
  BY DEF MarketFetches
<1>2. ASSUME NEW u \in Market!Tasks
      PROVE  /\ DOMAIN fetch'[u] = TFs
             /\ \A tg \in TFs :
                    fetch'[u][tg] = IF u = t /\ tg = tf THEN x ELSE fetch[u][tg]
  BY DEF MarketFetches
<1>3. ASSUME NEW u \in Market!Tasks, NEW tg \in TFs
      PROVE  FetchSound(fetch'[u][tg], tg, clock)
  <2>1. FetchSound(fetch[u][tg], tg, clock)
    BY DEF MarketFetches
  <2>2. CASE u = t /\ tg = tf
    <3>1. fetch'[u][tg] = x
      BY <1>2, <2>2
    <3> QED BY <3>1, <2>2
  <2>3. CASE ~ (u = t /\ tg = tf)
    <3>1. fetch'[u][tg] = fetch[u][tg]
      BY <1>2, <2>3
    <3> QED BY <3>1, <2>1
  <2> QED BY <2>2, <2>3
<1>4. ASSUME NEW u \in Market!Tasks PROVE GatherSound(fetch'[u], clock)
  <2>1. GatherSound(fetch[u], clock)
    BY DEF MarketFetches
  <2>2. CASE u # t
    <3>1. fetch'[u] = fetch[u]
      BY <2>2 DEF MarketFetches
    <3> QED BY <2>1, <3>1
  <2>3. CASE u = t
    <3>1. \A tg \in TFs : fetch'[t][tg] = IF tg = tf THEN x ELSE fetch[t][tg]
      BY <1>2, <2>3
    <3>2. \A tg \in TFs : /\ fetch'[t][tg].phase = "none" <=> fetch[t][tg].phase = "none"
                           /\ fetch'[t][tg].since = fetch[t][tg].since
      BY <3>1
    <3>3. fetch'[t][tf] = x
      BY <3>1
    <3> QED BY <2>1, <2>3, <3>2, <3>3 DEF GatherSound
  <2> QED BY <2>2, <2>3
<1> QED BY <1>1, <1>2, <1>3, <1>4 DEF MarketFetches

LEMMA TaskMoves ==
    ASSUME MarketFetches, NEW t \in Market!Tasks, NEW g,
           fetch' = [fetch EXCEPT ![t] = g], DOMAIN g = TFs,
           \A tf \in TFs : FetchSound(g[tf], tf, clock), GatherSound(g, clock), clock' = clock
    PROVE  MarketFetches'
<1>1. DOMAIN fetch' = Market!Tasks
  BY DEF MarketFetches
<1>2. \A u \in Market!Tasks : fetch'[u] = IF u = t THEN g ELSE fetch[u]
  BY DEF MarketFetches
<1>3. ASSUME NEW u \in Market!Tasks
      PROVE  /\ DOMAIN fetch'[u] = TFs
             /\ \A tf \in TFs : FetchSound(fetch'[u][tf], tf, clock)
             /\ GatherSound(fetch'[u], clock)
  <2>1. CASE u = t
    <3>1. fetch'[u] = g
      BY <1>2, <2>1
    <3> QED BY <3>1
  <2>2. CASE u # t
    <3>1. fetch'[u] = fetch[u]
      BY <1>2, <2>2
    <3> QED BY <3>1 DEF MarketFetches
  <2> QED BY <2>1, <2>2
<1> QED BY <1>1, <1>3 DEF MarketFetches

\* A valid entry was fresh when it was cached, and has not outlived itself.
LEMMA LookupSound ==
    ASSUME MarketTypes, MarketCache, NEW tf \in TFs
    PROVE  /\ FetchSound(Market!Lookup(tf), tf, clock)
           /\ Market!Lookup(tf).phase # "none" /\ Market!Lookup(tf).since = clock
           /\ Ended(Market!Lookup(tf)) => Market!Lookup(tf).sent = clock
<1> USE MarketBounds DEF Ended
<1>3. clock \in Int
  BY DEF MarketTypes
<1>1. CASE Market!Valid(tf)
  <2>1. cache[tf] # Market!Nothing /\ clock - cache[tf].at < Ttl[tf]
    BY <1>1 DEF Market!Valid
  <2>2. /\ cache[tf].at \in Int /\ cache[tf].data \in Int
        /\ cache[tf].at - cache[tf].data <= FetchTimeout
    BY <2>1 DEF MarketCache
  <2>3. clock \in Int /\ clock - cache[tf].data < Ttl[tf] + FetchTimeout
    BY <2>1, <2>2 DEF MarketTypes
  <2>4. Market!Lookup(tf) =
            [phase |-> "data", since |-> clock, sent |-> clock, data |-> cache[tf].data]
    BY <1>1 DEF Market!Lookup
  <2> QED BY <2>2, <2>3, <2>4 DEF FetchSound
<1>2. CASE ~ Market!Valid(tf)
  <2>1. Market!Lookup(tf) = [phase |-> "queued", since |-> clock, wake |-> clock]
    BY <1>2 DEF Market!Lookup
  <2> QED BY <2>1, <1>3 DEF FetchSound
<1> QED BY <1>1, <1>2

\* What leaves the clock and the limiter's books alone.
LEMMA BooksKept ==
    ASSUME MarketInv, MarketFetches', UNCHANGED <<clock, bucket, granted, forgotten, cache>>,
           listings' \in [Market!Markets -> Market!Status] \cup {Market!Unloaded},
           server' \in Nat, faults' \in 0..MarketFaults
    PROVE  MarketInv'
<1>1. MarketTypes' /\ MarketCache'
  BY DEF MarketInv, MarketTypes, MarketCache
<1>2. MarketBooks'
  BY DEF MarketInv, MarketBooks, Full, Market!Lesser
<1> QED BY <1>1, <1>2 DEF MarketInv

\* A fetch of a gather that begins now.
Began(f, tf) ==
    /\ FetchSound(f, tf, clock) /\ f.phase # "none" /\ f.since = clock
    /\ Ended(f) => f.sent = clock

LEMMA GatherBegins ==
    ASSUME MarketTypes, MarketFetches, NEW t \in Market!Tasks, NEW g,
           fetch' = [fetch EXCEPT ![t] = g], DOMAIN g = TFs,
           \A tf \in TFs : Began(g[tf], tf), clock' = clock
    PROVE  MarketFetches'
<1>1. clock \in Int /\ clock - clock <= FetchTimeout
  BY MarketBounds DEF MarketTypes
<1>2. GatherSound(g, clock)
  BY <1>1 DEF GatherSound, Began
<1> QED BY <1>2, TaskMoves DEF Began

LEMMA MarketAsks ==
    ASSUME MarketInv, NEW t \in Market!Tasks,
           Market!Begin(t) \/ (t = "refresh" /\ Market!Refresh) \/ Market!Score(t)
           \/ (t = "prewarm" /\ Market!PrewarmDeadline)
    PROVE  MarketInv'
<1> USE MarketBounds DEF MarketInv
<1>1. UNCHANGED <<clock, listings, bucket, server, cache, granted, forgotten>>
  BY DEF Market!Begin, Market!Refresh, Market!Score, Market!PrewarmDeadline
<1>2. faults' \in 0..MarketFaults
  BY DEF Market!Begin, Market!Refresh, Market!Score, Market!PrewarmDeadline, MarketTypes
<1>3. \A tf \in TFs : Began(Market!Lookup(tf), tf)
  BY LookupSound DEF Began, Ended
<1>4. \A tf \in TFs : FetchSound(Market!NoFetch, tf, clock)
                      /\ Began(Market!Failed(clock, clock), tf)
  <2>1. clock \in Int
    BY DEF MarketTypes
  <2> QED BY <2>1, NoFetchSound DEF Began, Market!Failed
<1>5. MarketFetches'
  <2>1. CASE Market!Begin(t)
    <3> DEFINE g == [tf \in TFs |-> IF Market!Route(listings) = "unresolved"
                                    THEN Market!Failed(clock, clock) ELSE Market!Lookup(tf)]
    <3>1. fetch' = [fetch EXCEPT ![t] = g]
      BY <2>1 DEF Market!Begin
    <3>2. DOMAIN g = TFs /\ \A tf \in TFs : Began(g[tf], tf)
      BY <1>3, <1>4
    <3> HIDE DEF g
    <3> QED BY <3>1, <3>2, <1>1, GatherBegins
  <2>2. CASE t = "refresh" /\ Market!Refresh
    <3> DEFINE g == [tf \in TFs |-> IF Market!due(tf) /\ Market!Route(listings) # "unresolved"
                                    THEN Market!Lookup(tf) ELSE Market!Failed(clock, clock)]
    <3>1. fetch' = [fetch EXCEPT ![t] = g]
      BY <2>2 DEF Market!Refresh
    <3>2. DOMAIN g = TFs /\ \A tf \in TFs : Began(g[tf], tf)
      BY <1>3, <1>4
    <3> HIDE DEF g
    <3> QED BY <3>1, <3>2, <1>1, GatherBegins
  <2>3. CASE Market!Score(t) \/ (t = "prewarm" /\ Market!PrewarmDeadline)
    <3> DEFINE g == [tf \in TFs |-> Market!NoFetch]
    <3>1. fetch' = [fetch EXCEPT ![t] = g]
      BY <2>3 DEF Market!Score, Market!PrewarmDeadline
    <3>2. DOMAIN g = TFs /\ \A tf \in TFs : FetchSound(g[tf], tf, clock)
      BY <1>4
    <3>3. GatherSound(g, clock)
      BY DEF GatherSound, Ended, Market!NoFetch
    <3> HIDE DEF g
    <3> QED BY <3>1, <3>2, <3>3, <1>1, TaskMoves
  <2> QED BY <2>1, <2>2, <2>3
<1> QED
  BY <1>1, <1>2, <1>5, BooksKept DEF MarketTypes

LEMMA MarketServes ==
    ASSUME MarketInv, NEW t \in Market!Tasks, NEW tf \in TFs,
           Market!Serve(t, tf) \/ Market!TimedOut(t, tf)
    PROVE  MarketInv'
<1> USE MarketBounds DEF MarketInv
<1>1. UNCHANGED <<clock, listings, bucket, cache, granted, forgotten, faults>>
  BY DEF Market!Serve, Market!TimedOut
<1>2. server' \in Nat
  BY DEF Market!Serve, Market!TimedOut, MarketTypes
<1>3. MarketFetches'
  <2>1. CASE Market!Serve(t, tf)
    <3> DEFINE x == [phase |-> "served", since |-> fetch[t][tf].since,
                     sent |-> fetch[t][tf].sent, data |-> clock, used |-> server + Weight]
    <3>1. fetch' = [fetch EXCEPT ![t][tf] = x] /\ fetch[t][tf].phase = "sent"
      BY <2>1 DEF Market!Serve
    <3>2. FetchSound(fetch[t][tf], tf, clock) /\ clock \in Int /\ server + Weight \in Nat
      BY DEF MarketFetches, MarketTypes
    <3>3. FetchSound(x, tf, clock)
      BY <3>1, <3>2 DEF FetchSound
    <3>4. x.phase = "served" /\ x.since = fetch[t][tf].since
      OBVIOUS
    <3> HIDE DEF x
    <3> QED BY <3>1, <3>3, <3>4, <1>1, OneFetchMoves DEF Ended
  <2>2. CASE Market!TimedOut(t, tf)
    <3> DEFINE f == fetch[t][tf]
               x == Market!Failed(f.since, f.sent)
    <3>1. fetch' = [fetch EXCEPT ![t][tf] = x] /\ f.phase \in {"sent", "served"}
      BY <2>2 DEF Market!TimedOut
    <3>2. FetchSound(f, tf, clock) /\ clock \in Int
      BY DEF MarketFetches, MarketTypes
    <3>3. /\ f.since \in Int /\ f.sent \in Int /\ f.since <= clock /\ f.since <= f.sent
          /\ clock - f.sent <= FetchTimeout
      BY <3>1, <3>2 DEF FetchSound
    <3>4. FetchSound(x, tf, clock)
      BY <3>2, <3>3, NoFetchSound
    <3>5. x.phase = "failed" /\ x.since = f.since /\ x.sent = f.sent
      BY DEF Market!Failed
    <3> HIDE DEF x
    <3> QED BY <3>1, <3>3, <3>4, <3>5, <1>1, OneFetchMoves
  <2> QED BY <2>1, <2>2
<1> QED
  BY <1>1, <1>2, <1>3, BooksKept DEF MarketTypes

\* The limiter grants what it has, or nothing.
LEMMA MarketAcquires ==
    ASSUME MarketInv, NEW t \in Market!Tasks, NEW tf \in TFs, Market!Acquire(t, tf)
    PROVE  MarketInv'
<1> USE MarketBounds DEF MarketInv
<1> DEFINE full == Market!refilled(bucket)
           took == Market!acquire(bucket, fetch[t][tf].phase = "asleep")
           d == clock - bucket.at
<1>1. /\ bucket' = [tokens |-> took.tokens, at |-> clock]
      /\ granted' = IF took.ok THEN granted + Weight ELSE granted
      /\ fetch' = [fetch EXCEPT ![t][tf] =
             IF took.ok THEN [phase |-> "sent", since |-> fetch[t][tf].since, sent |-> clock]
             ELSE [phase |-> "asleep", since |-> fetch[t][tf].since,
                   wake |-> clock + Market!Ceil(Weight - took.tokens, Refill)]]
      /\ fetch[t][tf].phase \in {"queued", "asleep"}
      /\ UNCHANGED <<clock, listings, server, cache, forgotten, faults>>
  BY DEF Market!Acquire
<1>2. bucket.tokens \in 0..Capacity /\ bucket.at \in Nat /\ bucket.at <= clock /\ clock \in Nat
      /\ clock <= MarketTime /\ d \in Nat
  BY DEF MarketTypes
<1>3. full = Full(bucket.tokens, d)
  BY DEF Full, Market!refilled
<1>4. full \in 0..Capacity
  <2>1. bucket.tokens \in Nat
    BY <1>2
  <2> HIDE DEF full, d
  <2>2. Full(bucket.tokens, d) \in 0..Capacity
    BY <1>2, <2>1, FullBy
  <2> QED BY <2>2, <1>3
<1>5. \/ took.ok /\ took.tokens = full - Weight /\ full >= Weight
      \/ ~ took.ok /\ took.tokens = full
  BY DEF Market!acquire
<1> HIDE DEF full, took, d
<1>6. took.tokens \in 0..Capacity /\ granted' \in Nat
      /\ granted' + took.tokens = granted + full
  BY <1>1, <1>4, <1>5 DEF MarketTypes
<1>7. MarketTypes'
  BY <1>1, <1>2, <1>6 DEF MarketTypes
<1>8. MarketBooks'
  <2>1. clock' - bucket'.at = 0 /\ bucket'.tokens = took.tokens
    BY <1>1, <1>2
  <2>2. Full(took.tokens, 0) \in 0..Capacity /\ Full(took.tokens, 0) <= took.tokens
    <3>1. took.tokens \in Nat /\ 0 \in Nat
      BY <1>6
    <3> QED BY <3>1, FullBy
  <2>3. (Full(bucket.tokens, clock - bucket.at))' = Full(took.tokens, 0)
    BY <2>1 DEF Full, Market!Lesser
  <2>4. granted + full <= Capacity + Refill * (clock % Window) + forgotten
    BY <1>3 DEF MarketBooks, d
  <2>5. Refill * (clock % Window) \in Int /\ granted \in Nat /\ forgotten \in Nat
    BY <1>2, NextTick DEF MarketTypes
  <2>6. granted' + Full(took.tokens, 0) <= Capacity + Refill * (clock % Window) + forgotten
    BY <2>2, <2>4, <2>5, <1>4, <1>6
  <2> QED BY <2>3, <2>6, <1>1 DEF MarketBooks
<1>9. MarketFetches'
  <2> DEFINE f == fetch[t][tf]
             x == IF took.ok THEN [phase |-> "sent", since |-> f.since, sent |-> clock]
                  ELSE [phase |-> "asleep", since |-> f.since,
                        wake |-> clock + Market!Ceil(Weight - took.tokens, Refill)]
  <2>1. FetchSound(f, tf, clock) /\ f.phase \in {"queued", "asleep"}
    BY <1>1 DEF MarketFetches
  <2>2. f.since \in Int /\ f.since <= clock
    BY <2>1 DEF FetchSound
  <2>3. FetchSound(x, tf, clock)
    BY <1>2, <2>2 DEF FetchSound
  <2>4. fetch' = [fetch EXCEPT ![t][tf] = x] /\ clock' = clock
    BY <1>1
  <2>5. x.phase \in {"sent", "asleep"} /\ x.since = f.since
    OBVIOUS
  <2> HIDE DEF x
  <2> QED BY <2>1, <2>3, <2>4, <2>5, OneFetchMoves DEF Ended
<1>10. MarketCache'
  BY <1>1 DEF MarketCache
<1> QED BY <1>7, <1>8, <1>9, <1>10

LEMMA MarketReceives ==
    ASSUME MarketInv, NEW t \in Market!Tasks, NEW tf \in TFs, NEW ok \in BOOLEAN,
           Market!Receive(t, tf, ok)
    PROVE  MarketInv'
<1> USE MarketBounds DEF MarketInv
<1> DEFINE f == fetch[t][tf]
           s == Market!synced(f.used)
           d == clock - bucket.at
<1>1. /\ f.phase = "served" /\ bucket' = [bucket EXCEPT !.tokens = s]
      /\ forgotten' = forgotten + IF s > bucket.tokens THEN s - bucket.tokens ELSE 0
      /\ cache' = IF ok THEN [cache EXCEPT ![tf] = [at |-> clock, data |-> f.data]] ELSE cache
      /\ fetch' = [fetch EXCEPT ![t][tf] =
             IF ok THEN [phase |-> "data", since |-> f.since, sent |-> f.sent, data |-> f.data]
             ELSE Market!Failed(f.since, f.sent)]
      /\ UNCHANGED <<clock, listings, server, granted>>
  BY DEF Market!Receive, Market!_cache_set
<1>2. faults' \in 0..MarketFaults
  BY DEF Market!Receive, MarketTypes
<1>3. FetchSound(f, tf, clock)
  BY DEF MarketFetches
<1>4. /\ f.data \in Int /\ f.used \in Nat /\ clock - f.data <= FetchTimeout
      /\ f.since \in Int /\ f.sent \in Int /\ f.since <= clock /\ f.since <= f.sent
      /\ f.sent <= f.data /\ clock - f.sent <= FetchTimeout
  BY <1>1, <1>3 DEF FetchSound, MarketTypes
<1>5. s \in 0..Capacity
  BY <1>4 DEF Market!synced
<1> HIDE DEF s
<1>6. bucket.tokens \in 0..Capacity /\ bucket.at \in Nat /\ bucket.at <= clock /\ clock \in Nat
      /\ clock <= MarketTime /\ d \in Nat /\ forgotten \in Nat /\ granted \in Nat
  BY DEF MarketTypes
<1>7. bucket' = [tokens |-> s, at |-> bucket.at]
  BY <1>1 DEF MarketTypes
<1>8. MarketTypes'
  <2>1. bucket' \in [tokens : 0..Capacity, at : Nat] /\ bucket'.at <= clock
    BY <1>5, <1>6, <1>7
  <2>2. forgotten' \in Nat
    BY <1>1, <1>5, <1>6
  <2> QED BY <2>1, <2>2, <1>1, <1>2 DEF MarketTypes
<1>9. MarketBooks'
  <2> DEFINE was == Full(bucket.tokens, d)
             is == Full(s, d)
             more == IF s > bucket.tokens THEN s - bucket.tokens ELSE 0
  <2>1. is <= was + more /\ is \in 0..Capacity /\ was \in 0..Capacity
    <3>1. s \in Nat /\ bucket.tokens \in Nat /\ d \in Nat
      BY <1>5, <1>6
    <3> HIDE DEF d
    <3>2. /\ Full(s, d) <= Full(bucket.tokens, d)
               + (IF s > bucket.tokens THEN s - bucket.tokens ELSE 0)
          /\ Full(s, d) \in 0..Capacity /\ Full(bucket.tokens, d) \in 0..Capacity
      BY <3>1, FullBy
    <3> QED BY <3>2
  <2>2. (Full(bucket.tokens, clock - bucket.at))' = is
    BY <1>1, <1>7 DEF Full, Market!Lesser
  <2>3. granted + was <= Capacity + Refill * (clock % Window) + forgotten
    BY DEF MarketBooks
  <2>4. Refill * (clock % Window) \in Int
    BY <1>6, NextTick
  <2>5. forgotten' = forgotten + more /\ more \in Nat
    BY <1>1, <1>5, <1>6
  <2> HIDE DEF was, is, more
  <2>6. granted + is <= Capacity + Refill * (clock % Window) + forgotten'
    BY <2>1, <2>3, <2>4, <2>5, <1>6
  <2> QED BY <2>2, <2>6, <1>1 DEF MarketBooks
<1>10. MarketFetches'
  <2> DEFINE x == IF ok THEN [phase |-> "data", since |-> f.since, sent |-> f.sent,
                              data |-> f.data]
                  ELSE Market!Failed(f.since, f.sent)
  <2>1. f.since - f.data < Ttl[tf] + FetchTimeout
    BY <1>4
  <2>2. FetchSound(Market!Failed(f.since, f.sent), tf, clock)
    BY <1>4, <1>6, NoFetchSound
  <2>3. FetchSound(x, tf, clock)
    BY <1>4, <1>6, <2>1, <2>2 DEF FetchSound
  <2>4. fetch' = [fetch EXCEPT ![t][tf] = x] /\ clock' = clock
    BY <1>1
  <2>5. x.phase # "none" /\ x.since = f.since /\ x.sent = f.sent
    BY DEF Market!Failed
  <2> HIDE DEF x
  <2> QED BY <1>1, <1>4, <2>3, <2>4, <2>5, OneFetchMoves
<1>11. MarketCache'
  BY <1>1, <1>4, <1>6 DEF MarketCache
<1> QED BY <1>8, <1>9, <1>10, <1>11

LEMMA MarketTicks == ASSUME MarketInv, Market!Tick PROVE MarketInv'
<1> USE MarketBounds DEF MarketInv
<1>1. /\ clock < MarketTime /\ clock' = clock + 1
      /\ \A t \in Market!Tasks, tf \in TFs :
             fetch[t][tf].phase \in {"sent", "served"} => clock - fetch[t][tf].sent < FetchTimeout
      /\ \A t \in Market!Tasks : ~ Market!Settled(t)
      /\ UNCHANGED <<listings, bucket, cache, fetch, faults>>
  BY DEF Market!Tick
<1>2. IF (clock + 1) % Window = 0 THEN server' = 0 /\ granted' = 0 /\ forgotten' = 0
      ELSE UNCHANGED <<server, granted, forgotten>>
  BY DEF Market!Tick
<1>3. bucket.tokens \in 0..Capacity /\ bucket.at \in Nat /\ bucket.at <= clock /\ clock \in Nat
      /\ forgotten \in Nat /\ granted \in Nat /\ server \in Nat
  BY DEF MarketTypes
<1>4. MarketTypes'
  <2>1. server' \in Nat /\ granted' \in Nat /\ forgotten' \in Nat
    BY <1>2, <1>3
  <2> QED BY <2>1, <1>1, <1>3 DEF MarketTypes
<1>5. MarketBooks'
  <2> DEFINE d == clock - bucket.at
             x == bucket.tokens
  <2>1. x \in Nat /\ d \in Nat /\ clock' - bucket'.at = d + 1 /\ bucket'.tokens = x
    BY <1>1, <1>3
  <2>2. (Full(bucket.tokens, clock - bucket.at))' = Full(x, d + 1)
    BY <2>1 DEF Full, Market!Lesser
  <2>3. /\ Full(x, d + 1) \in 0..Capacity /\ Full(x, d + 1) <= Full(x, d) + Refill
        /\ Full(x, d) \in 0..Capacity
    <3>1. d + 1 \in Nat
      BY <2>1
    <3> HIDE DEF d, x
    <3> QED BY <2>1, <3>1, FullBy
  <2>4. granted + Full(x, d) <= Capacity + Refill * (clock % Window) + forgotten
    BY DEF MarketBooks
  <2> HIDE DEF d, x
  <2> DEFINE r == clock % Window
             r2 == (clock + 1) % Window
  <2>5. r \in Nat /\ r2 \in Nat /\ (r2 = 0 \/ r2 = r + 1)
    <3>1. clock \in Nat /\ Window \in Nat \ {0}
      BY <1>3
    <3>2. /\ clock % Window \in 0..(Window - 1)
          /\ (clock + 1) % Window = 0 \/ (clock + 1) % Window = (clock % Window) + 1
      BY <3>1, NextTick
    <3> QED BY <3>2, <1>3
  <2>6. clock' % Window = r2
    BY <1>1
  <2>7. CASE r2 = 0
    <3>1. granted' = 0 /\ forgotten' = 0 /\ Refill * r2 = 0
      BY <1>2, <2>7
    <3> QED BY <3>1, <2>2, <2>3, <2>6 DEF MarketBooks
  <2>8. CASE r2 # 0
    <3>1. granted' = granted /\ forgotten' = forgotten
      BY <1>2, <2>8
    <3>2. Refill * r2 = Refill * r + Refill /\ Refill * r \in Nat
      BY <2>5, <2>8
    <3> HIDE DEF r, r2
    <3>3. granted + Full(x, d + 1) <= Capacity + Refill * r2 + forgotten
      BY <3>2, <2>3, <2>4, <1>3 DEF r
    <3> QED BY <3>1, <3>3, <2>2, <2>6 DEF MarketBooks
  <2> QED BY <2>7, <2>8
<1>6. MarketFetches'
  <2>1. ASSUME NEW t \in Market!Tasks, NEW tf \in TFs
        PROVE  FetchSound(fetch[t][tf], tf, clock + 1)
    <3>1. FetchSound(fetch[t][tf], tf, clock)
      BY DEF MarketFetches
    <3>2. fetch[t][tf].phase \in {"sent", "served"} => clock - fetch[t][tf].sent < FetchTimeout
      BY <1>1
    <3> QED BY <3>1, <3>2, <1>3 DEF FetchSound
  <2>2. ASSUME NEW t \in Market!Tasks PROVE GatherSound(fetch[t], clock + 1)
    BY <1>1 DEF MarketFetches, GatherSound, Ended, Market!Settled
  <2> QED BY <2>1, <2>2, <1>1 DEF MarketFetches
<1>7. MarketCache'
  BY <1>1 DEF MarketCache
<1> QED BY <1>4, <1>5, <1>6, <1>7

LEMMA MarketStep == ASSUME MarketInv, Market!Next PROVE MarketInv'
<1>1. CASE Market!LoadListings
  <2>1. /\ UNCHANGED <<clock, bucket, server, cache, fetch, granted, forgotten, faults>>
        /\ listings' \in [Market!Markets -> Market!Status] \cup {Market!Unloaded}
    BY <1>1 DEF Market!LoadListings
  <2>2. MarketFetches'
    BY <2>1 DEF MarketInv, MarketFetches
  <2> QED BY <2>1, <2>2, BooksKept DEF MarketInv, MarketTypes
<1>2. CASE Market!Refresh \/ Market!PrewarmDeadline
  <2>1. "refresh" \in Market!Tasks /\ "prewarm" \in Market!Tasks
    BY DEF Market!Tasks
  <2> QED BY <1>2, <2>1, MarketAsks
<1>3. CASE Market!Tick
  BY <1>3, MarketTicks
<1>4. CASE \E t \in Market!Tasks : Market!Begin(t) \/ Market!Score(t)
  BY <1>4, MarketAsks
<1>5. CASE \E t \in Market!Tasks, tf \in TFs :
               \/ Market!Acquire(t, tf) \/ Market!Serve(t, tf) \/ Market!TimedOut(t, tf)
               \/ \E ok \in BOOLEAN : Market!Receive(t, tf, ok)
  BY <1>5, MarketAcquires, MarketServes, MarketReceives
<1> QED BY <1>1, <1>2, <1>3, <1>4, <1>5 DEF Market!Next

LEMMA MarketMoves ==
    ASSUME [Next]_vars
    PROVE  /\ UNCHANGED part
           /\ part = "market" => Market!Next \/ UNCHANGED vars
           /\ (part = "market" /\ Market!Next) \/ UNCHANGED marketOnly
  BY DEF Next, TaskNext, DeskNext, vars, tasksOnly, deskOnly

\* The market data that are not the part that moves were never asked for.
MarketHold ==
    IF part = "market" THEN MarketInv
    ELSE /\ clock = 0 /\ granted = 0 /\ forgotten = 0
         /\ \A t \in Market!Tasks, tf \in TFs : fetch[t][tf] = Market!NoFetch

LEMMA MarketStays == Spec => []MarketHold
<1>1. Init => MarketHold
<2> SUFFICES ASSUME Init PROVE MarketHold
  OBVIOUS
<2>1. Market!Init
  BY DEF Init
<2>2. /\ clock = 0 /\ granted = 0 /\ forgotten = 0
      /\ \A t \in Market!Tasks, tf \in TFs : fetch[t][tf] = Market!NoFetch
  BY <2>1 DEF Market!Init
<2> QED
  BY <2>1, <2>2, MarketStart DEF MarketHold
<1>2. MarketHold /\ [Next]_vars => MarketHold'
<2> SUFFICES ASSUME MarketHold, [Next]_vars PROVE MarketHold'
  OBVIOUS
<2>1. CASE part = "market" /\ Market!Next
  BY <2>1, MarketMoves, MarketStep DEF MarketHold
<2>2. CASE UNCHANGED marketOnly /\ part # "market"
  BY <2>2, MarketMoves DEF MarketHold, marketOnly
<2>3. CASE part = "market" /\ UNCHANGED vars
  <3>1. part' = part /\ UNCHANGED marketOnly /\ UNCHANGED faults
    BY <2>3 DEF vars, tasksOnly
  <3>2. MarketInv
    BY <2>3 DEF MarketHold
  <3>3. MarketFetches'
    BY <3>1, <3>2 DEF MarketInv, MarketFetches, marketOnly
  <3>4. MarketInv'
    BY <3>1, <3>2, <3>3, BooksKept DEF MarketInv, MarketTypes, marketOnly
  <3> QED BY <3>1, <3>4, <2>3 DEF MarketHold
<2> QED
  BY <2>1, <2>2, <2>3, MarketMoves
<1> QED
  BY <1>1, <1>2, PTL DEF Spec

LEMMA MarketIsHonest ==
    MarketHold => Market!NeverOvergrants /\ Market!VotesAreFresh
<1> SUFFICES ASSUME MarketHold PROVE Market!NeverOvergrants /\ Market!VotesAreFresh
  OBVIOUS
<1> USE MarketBounds
<1>1. CASE part = "market"
  <2>1. MarketTypes /\ MarketBooks /\ MarketFetches
    BY <1>1 DEF MarketHold, MarketInv
  <2>2. Market!NeverOvergrants
    <3>1. bucket.tokens \in Nat /\ clock - bucket.at \in Nat
      BY <2>1 DEF MarketTypes
    <3>2. Full(bucket.tokens, clock - bucket.at) \in Nat
      <4> DEFINE x == bucket.tokens
                 d == clock - bucket.at
      <4>1. x \in Nat /\ d \in Nat
        BY <3>1
      <4> HIDE DEF x, d
      <4>2. Full(x, d) \in 0..Capacity
        BY <4>1, FullBy
      <4> QED BY <4>2 DEF x, d
    <3>3. granted \in Nat /\ forgotten \in Nat /\ Refill * (clock % Window) \in Int
      BY <2>1, NextTick DEF MarketTypes
    <3> QED BY <3>2, <3>3, <2>1 DEF MarketBooks, Market!NeverOvergrants
  <2>3. ASSUME NEW t \in Predictions, Market!Settled(t), NEW tf \in TFs,
               fetch[t][tf].phase = "data"
        PROVE  \E last \in TFs :
                   clock - fetch[t][tf].data
                       < Ttl[tf] + 2 * FetchTimeout + fetch[t][last].sent - fetch[t][last].since
    <3>1. t \in Market!Tasks
      BY DEF Market!Tasks
    <3>2. GatherSound(fetch[t], clock) /\ \A tg \in TFs : FetchSound(fetch[t][tg], tg, clock)
      BY <2>1, <3>1 DEF MarketFetches
    <3>3. \A tg \in TFs : Ended(fetch[t][tg])
      BY <2>3 DEF Ended, Market!Settled
    <3>4. PICK last \in TFs : clock - fetch[t][last].sent <= FetchTimeout
      BY <3>2, <3>3, <2>3 DEF GatherSound
    <3>5. fetch[t][last].since = fetch[t][tf].since
      BY <3>2, <3>3, <2>3 DEF GatherSound
    <3>6. /\ fetch[t][tf].data \in Int
          /\ fetch[t][tf].since - fetch[t][tf].data < Ttl[tf] + FetchTimeout
          /\ fetch[t][last].since \in Int /\ fetch[t][last].sent \in Int /\ clock \in Int
      BY <2>1, <2>3, <3>2, <3>3 DEF FetchSound, Ended, MarketTypes
    <3> QED BY <3>4, <3>5, <3>6
  <2>4. Market!VotesAreFresh
    BY <2>3, Zenon DEF Market!VotesAreFresh
  <2> QED BY <2>2, <2>4
<1>2. CASE part # "market"
  <2>1. clock = 0 /\ granted = 0 /\ forgotten = 0
        /\ \A t \in Market!Tasks, tf \in TFs : fetch[t][tf].phase = "none"
    BY <1>2 DEF MarketHold, Market!NoFetch
  <2>2. Refill * (0 % Window) \in Nat
    BY NextTick
  <2>3. Market!NeverOvergrants
    BY <2>1, <2>2 DEF Market!NeverOvergrants
  <2>4. \A t \in Predictions, tf \in TFs : fetch[t][tf].phase # "data"
    BY <2>1 DEF Market!Tasks
  <2>5. Market!VotesAreFresh
    BY <2>4, Zenon DEF Market!VotesAreFresh
  <2> QED BY <2>3, <2>5
<1> QED BY <1>1, <1>2

\* The endpoint of a symbol, whatever the listings say.
LEMMA RoutedRight == Market!RoutedWhereItTrades
<1> SUFFICES ASSUME NEW l \in [Market!Markets -> Market!Status] \cup {Market!Unloaded}
             PROVE  LET url == Market!Route(l)
                        has(s) == \E m \in Market!Markets : l[m] \in s
                    IN /\ url \in Market!Markets => l[url] \in {"halted", "trading"}
                       /\ has({"trading"}) => url \in Market!Markets /\ l[url] = "trading"
                       /\ has({"halted", "trading"}) => url # "unresolved"
  BY DEF Market!RoutedWhereItTrades
<1>1. l["spot"] \in {"none", "halted", "trading", "unloaded"}
      /\ l["futures"] \in {"none", "halted", "trading", "unloaded"}
  BY DEF Market!Markets, Market!Status, Market!Unloaded
<1> DEFINE s == l["spot"]
           f == l["futures"]
           url == Market!Route(l)
<1>2. /\ url = CASE f = "trading" /\ s # "trading" -> "futures"
                 [] s = "trading" -> "spot"
                 [] f = "halted" /\ s = "none" -> "futures"
                 [] s = "halted" /\ f # "trading" -> "spot"
                 [] OTHER -> "unresolved"
  BY DEF Market!Route
<1> HIDE DEF s, f, url
<1>3. s \in {"none", "halted", "trading", "unloaded"}
      /\ f \in {"none", "halted", "trading", "unloaded"}
  BY <1>1 DEF s, f
<1>4. CASE f = "trading" /\ s # "trading"
  <2>1. url = "futures"
    BY <1>2, <1>4
  <2> QED BY <2>1, <1>4 DEF s, f, url, Market!Markets
<1>5. CASE s = "trading"
  <2>1. url = "spot"
    BY <1>2, <1>5
  <2> QED BY <2>1, <1>5 DEF s, f, url, Market!Markets
<1>6. CASE f = "halted" /\ s = "none"
  <2>1. url = "futures"
    BY <1>2, <1>6
  <2> QED BY <2>1, <1>6 DEF s, f, url, Market!Markets
<1>7. CASE s = "halted" /\ f # "trading"
  <2>1. url = "spot"
    BY <1>2, <1>7
  <2> QED BY <2>1, <1>7 DEF s, f, url, Market!Markets
<1>8. CASE (f = "halted" /\ s = "unloaded")
            \/ (s \in {"none", "unloaded"} /\ f \in {"none", "unloaded"})
  <2>1. url = "unresolved"
    BY <1>2, <1>8
  <2>2. ~ (f = "halted" /\ s = "unloaded")
    BY DEF s, f, Market!Markets, Market!Status, Market!Unloaded
  <2> QED BY <2>1, <2>2, <1>8 DEF s, f, url, Market!Markets
<1> QED BY <1>3, <1>4, <1>5, <1>6, <1>7, <1>8

-----------------------------------------------------------------------------
(* The news.                                                                 *)

LEMMA NewsBounds ==
    /\ \A a \in Articles : /\ ArticleSource[a] \in News!Sources
                           /\ ArticleTime[a] \in 0..NewsTime /\ FeedTime[a] \in Int
    /\ Backfill \in Nat /\ Retention \in Nat /\ NewsTime \in Nat /\ DailyLimit \in Nat \ {0}
    /\ NewsFaults \in Nat
  BY BackgroundFaultsAssumption, NewsAssumption DEF News!Sources

NewsTypes ==
    /\ time \in 0..NewsTime /\ began \in 0..NewsTime
    /\ step \in {"asleep", "midnight", "macro", "store", "cursor", "over"}
    /\ pulled \subseteq Articles /\ items \subseteq Articles /\ seen \subseteq Articles
    /\ cursor \in [News!Sources -> -1..NewsTime] /\ floor \in [News!Sources -> Int]
    /\ used \in 0..DailyLimit /\ faults \in 0..NewsFaults

\* The article is newer than what this iteration asks for.
Asked(a) == News!since(ArticleSource[a], began) < ArticleTime[a]

\* What was pulled is new and from the feed; a source that gave anything gave
\* all that was asked for and had appeared; and before the cursor moves it is
\* stored, or too old to be kept.
NewsPulled ==
    /\ step \in {"asleep", "midnight", "over"} => pulled = {}
    /\ step = "macro" => \A a \in pulled : ArticleSource[a] = "crypto"
    /\ step = "cursor" => pulled \subseteq items \cup News!Expired
    /\ \A a \in pulled \cup seen : FeedTime[a] <= time
    /\ \A a \in pulled : Asked(a)
    /\ \A a \in Articles, b \in pulled :
           /\ ArticleSource[a] = ArticleSource[b] /\ Asked(a)
           /\ a \in seen \/ FeedTime[a] <= FeedTime[b]
           => a \in pulled

NewsKept == News!NothingFetchedIsLost /\ News!OnlyLateIsHidden

NewsInv == NewsTypes /\ NewsPulled /\ NewsKept

\* With no cursor nothing is behind it.
LEMMA NothingBehindNone ==
    ASSUME NEW a \in Articles, cursor[ArticleSource[a]] = -1
    PROVE  ~ (ArticleTime[a] <= cursor[ArticleSource[a]])
  BY NewsBounds

LEMMA NewsStart == Init => NewsInv
<1> SUFFICES ASSUME News!Init PROVE NewsInv
  BY DEF Init
<1> USE NewsBounds
<1>1. /\ time = 0 /\ step = "asleep" /\ pulled = {} /\ began = 0
      /\ cursor = [src \in News!Sources |-> -1]
      /\ floor = [src \in News!Sources |-> -Backfill]
      /\ items = {} /\ seen = {} /\ used = 0 /\ faults = 0
  BY DEF News!Init
<1>2. NewsTypes
  <2>1. cursor \in [News!Sources -> -1..NewsTime] /\ floor \in [News!Sources -> Int]
    BY <1>1
  <2> QED BY <1>1, <2>1 DEF NewsTypes
<1>3. NewsPulled
  BY <1>1 DEF NewsPulled
<1>4. NewsKept
  <2>1. \A a \in Articles : ~ (ArticleTime[a] <= cursor[ArticleSource[a]])
    BY <1>1, NothingBehindNone
  <2> QED
    BY <1>1, <2>1 DEF NewsKept, News!NothingFetchedIsLost, News!OnlyLateIsHidden
<1> QED BY <1>2, <1>3, <1>4 DEF NewsInv

\* What a source gives.
LEMMA Fetched ==
    ASSUME NEW src, NEW start, NEW now, NEW a
    PROVE  a \in News!fetch_recent(src, start, now) <=>
               /\ a \in Articles /\ ArticleSource[a] = src /\ FeedTime[a] <= now
               /\ ArticleTime[a] > News!since(src, start)
  BY DEF News!fetch_recent, News!Of

\* What does not touch the store, the cursors or what was seen keeps the books.
LEMMA KeptBefore ==
    ASSUME NewsInv, UNCHANGED <<cursor, floor, items, seen>>, time' \in Int, time <= time'
    PROVE  NewsKept' /\ News!Expired \subseteq News!Expired'
<1> USE NewsBounds DEF NewsInv
<1>1. News!Expired \subseteq News!Expired'
  BY DEF News!Expired, NewsTypes
<1>2. News!NothingFetchedIsLost'
  BY <1>1 DEF NewsKept, News!NothingFetchedIsLost
<1>3. News!OnlyLateIsHidden'
  <2> SUFFICES ASSUME NEW a \in Articles, a \notin items, a \notin News!Expired,
                      floor[ArticleSource[a]] < ArticleTime[a],
                      ArticleTime[a] <= cursor[ArticleSource[a]]
               PROVE  \E b \in News!Of(ArticleSource[a]) :
                          ArticleTime[b] >= ArticleTime[a] /\ FeedTime[b] < FeedTime[a]
    BY <1>1 DEF News!OnlyLateIsHidden, News!Of
  <2> QED BY DEF NewsKept, News!OnlyLateIsHidden
<1> QED BY <1>1, <1>2, <1>3 DEF NewsKept

\* The first source is asked, or not.
LEMMA NewsAsksCrypto ==
    ASSUME NewsInv, NEW ok \in BOOLEAN, News!AskCrypto(ok) \/ News!PutOff \/ News!NoTick
    PROVE  NewsInv'
<1> USE NewsBounds DEF NewsInv
<1>1. UNCHANGED <<time, cursor, floor, items, seen>>
  BY DEF News!AskCrypto, News!PutOff, News!NoTick
<1>2. NewsKept'
  BY <1>1, KeptBefore DEF NewsTypes
<1>3. CASE News!AskCrypto(ok)
  <2>1. /\ step' = "macro" /\ began' = time /\ used < DailyLimit /\ used' = used + 1
        /\ pulled' = IF ok THEN News!fetch_recent("crypto", time, time) ELSE {}
        /\ ok \/ faults < NewsFaults
        /\ faults' = faults + (IF ok THEN 0 ELSE 1)
    BY <1>3 DEF News!AskCrypto, News!acquire
  <2>2. \A a \in pulled' : /\ a \in Articles /\ ArticleSource[a] = "crypto"
                           /\ FeedTime[a] <= time
                           /\ ArticleTime[a] > News!since("crypto", time)
    BY <2>1, Fetched
  <2>3. \A b \in pulled' : \A a \in Articles :
            /\ ArticleSource[a] = "crypto" /\ FeedTime[a] <= time
            /\ ArticleTime[a] > News!since("crypto", time)
            => a \in pulled'
    BY <2>1, Fetched
  <2>4. \A a : Asked(a)' <=> News!since(ArticleSource[a], time) < ArticleTime[a]
    BY <1>1, <2>1 DEF Asked, News!since
  <2>5. \A s : News!since(s, time) \in Int \/ s \notin News!Sources
    BY DEF News!since, NewsTypes
  <2>6. NewsTypes'
    BY <1>1, <2>1, <2>2 DEF NewsTypes
  <2>7. \A a \in pulled' : Asked(a)'
    BY <2>2, <2>4, <2>5 DEF NewsTypes
  <2>8. ASSUME NEW a \in Articles, NEW b \in pulled', ArticleSource[a] = ArticleSource[b],
               Asked(a)', a \in seen' \/ FeedTime[a] <= FeedTime[b]
        PROVE  a \in pulled'
    <3>1. FeedTime[a] <= time
      BY <1>1, <2>2, <2>8 DEF NewsPulled, NewsTypes
    <3>2. ArticleSource[a] = "crypto" /\ ArticleTime[a] > News!since("crypto", time)
      BY <2>2, <2>4, <2>5, <2>8 DEF NewsTypes
    <3> QED BY <3>1, <3>2, <2>3
  <2>9. \A a \in pulled' \cup seen' : FeedTime[a] <= time'
    BY <1>1, <2>2 DEF NewsPulled
  <2>10. NewsPulled'
    BY <2>1, <2>2, <2>7, <2>8, <2>9 DEF NewsPulled
  <2> QED BY <1>2, <2>6, <2>10
<1>4. CASE News!PutOff \/ News!NoTick
  <2>1. /\ step' \in {"midnight", "over"} /\ pulled' = {} /\ began' \in {time, began}
        /\ used' = used
    BY <1>4 DEF News!PutOff, News!NoTick, NewsPulled
  <2>2. faults' \in 0..NewsFaults
    BY <1>4 DEF News!PutOff, News!NoTick, NewsTypes
  <2>3. NewsTypes'
    BY <1>1, <2>1, <2>2 DEF NewsTypes
  <2>4. NewsPulled'
    BY <1>1, <2>1 DEF NewsPulled
  <2> QED BY <1>2, <2>3, <2>4
<1> QED BY <1>3, <1>4

\* The other source is asked, or not due.
LEMMA NewsAsksMacro ==
    ASSUME NewsInv, NEW ok \in BOOLEAN, News!AskMacro(ok) \/ News!NotDue
    PROVE  NewsInv'
<1> USE NewsBounds DEF NewsInv
<1>1. /\ step = "macro" /\ step' = "store"
      /\ UNCHANGED <<time, began, cursor, floor, items, seen, used>>
  BY DEF News!AskMacro, News!NotDue
<1>2. NewsKept'
  BY <1>1, KeptBefore DEF NewsTypes
<1>3. \A a : Asked(a)' <=> Asked(a)
  BY <1>1 DEF Asked, News!since
<1>4. /\ \A a \in pulled : ArticleSource[a] = "crypto"
      /\ \A a \in pulled \cup seen : FeedTime[a] <= time
      /\ \A a \in pulled : Asked(a)
      /\ \A a \in Articles, b \in pulled :
           /\ ArticleSource[a] = ArticleSource[b] /\ Asked(a)
           /\ a \in seen \/ FeedTime[a] <= FeedTime[b]
           => a \in pulled
  BY <1>1 DEF NewsPulled
<1>5. PICK more : /\ pulled' = pulled \cup more
                  /\ more = {} \/ more = News!fetch_recent("macro", began, time)
  <2>1. CASE News!NotDue
    BY <2>1 DEF News!NotDue
  <2>2. CASE News!AskMacro(ok)
    BY <2>2 DEF News!AskMacro
  <2> QED BY <2>1, <2>2
<1>6. \A a \in more : /\ a \in Articles /\ ArticleSource[a] = "macro" /\ FeedTime[a] <= time
                      /\ ArticleTime[a] > News!since("macro", began)
  BY <1>5, Fetched
<1>7. \A b \in more : \A a \in Articles :
          /\ ArticleSource[a] = "macro" /\ FeedTime[a] <= time
          /\ ArticleTime[a] > News!since("macro", began)
          => a \in more
  BY <1>5, Fetched
<1>8. News!since("macro", began) \in Int
  BY DEF News!since, NewsTypes, News!Sources
<1>9. faults' \in 0..NewsFaults
  BY DEF News!AskMacro, News!NotDue, NewsTypes
<1>10. NewsTypes'
  BY <1>1, <1>5, <1>6, <1>9 DEF NewsTypes
<1>11. \A a \in more : Asked(a)
  BY <1>6, <1>8 DEF Asked
<1>12. ASSUME NEW a \in Articles, NEW b \in pulled', ArticleSource[a] = ArticleSource[b],
              Asked(a), a \in seen \/ FeedTime[a] <= FeedTime[b]
       PROVE  a \in pulled'
  <2>1. CASE b \in pulled
    BY <2>1, <1>4, <1>5, <1>12
  <2>2. CASE b \in more
    <3>1. FeedTime[a] <= time
      BY <2>2, <1>4, <1>6, <1>12 DEF NewsTypes
    <3>2. ArticleSource[a] = "macro" /\ ArticleTime[a] > News!since("macro", began)
      BY <2>2, <1>6, <1>8, <1>12 DEF Asked
    <3> QED BY <3>1, <3>2, <2>2, <1>5, <1>7
  <2> QED BY <2>1, <2>2, <1>5
<1>13. /\ \A a \in pulled' \cup seen' : FeedTime[a] <= time'
       /\ \A a \in pulled' : Asked(a)'
  BY <1>1, <1>3, <1>4, <1>5, <1>6, <1>11
<1>14. NewsPulled'
  BY <1>1, <1>3, <1>12, <1>13 DEF NewsPulled
<1> QED BY <1>2, <1>10, <1>14

\* What is fetched lies beyond the cursor, so a store that fails loses nothing
\* behind it.
LEMMA NewsStores ==
    ASSUME NewsInv, NEW ok \in BOOLEAN, News!Store(ok)
    PROVE  NewsInv'
<1> USE NewsBounds DEF NewsInv
<1>1. /\ step = "store"
      /\ ok \/ (faults < NewsFaults /\ pulled # {})
      /\ faults' = faults + (IF ok THEN 0 ELSE 1)
      /\ seen' = seen \cup pulled
      /\ items' \in {items \cup pulled} \cup (IF ok THEN {} ELSE {items})
      /\ step' = (IF ok THEN "cursor" ELSE "over")
      /\ pulled' = (IF ok THEN pulled ELSE {})
      /\ UNCHANGED <<time, began, cursor, floor, used>>
  BY DEF News!Store
<1>2. items \subseteq items' /\ items' \subseteq items \cup pulled /\ (ok => pulled \subseteq items')
  BY <1>1
<1>3. NewsTypes'
  <2>1. faults' \in 0..NewsFaults
    BY <1>1 DEF NewsTypes
  <2>2. items' \subseteq Articles /\ seen' \subseteq Articles /\ pulled' \subseteq Articles
    BY <1>1, <1>2 DEF NewsTypes
  <2> QED BY <2>1, <2>2, <1>1 DEF NewsTypes
<1>4. News!Expired' = News!Expired /\ \A a : Asked(a)' <=> Asked(a)
  BY <1>1 DEF News!Expired, Asked, News!since
<1>5. NewsPulled'
  <2>1. \A a \in pulled' \cup seen' : FeedTime[a] <= time'
    BY <1>1 DEF NewsPulled
  <2>2. \A a \in pulled' : Asked(a)'
    BY <1>1, <1>4 DEF NewsPulled
  <2>3. ASSUME NEW a \in Articles, NEW b \in pulled', ArticleSource[a] = ArticleSource[b],
               Asked(a), a \in seen' \/ FeedTime[a] <= FeedTime[b]
        PROVE  a \in pulled'
    BY <2>3, <1>1 DEF NewsPulled
  <2>4. step' = "cursor" => pulled' \subseteq items'
    BY <1>1, <1>2
  <2>5. step' # "macro" /\ (step' \in {"asleep", "midnight", "over"} => pulled' = {})
    BY <1>1
  <2> QED BY <2>1, <2>2, <2>3, <2>4, <2>5, <1>4 DEF NewsPulled
<1>6. NewsKept'
  <2>1. ASSUME NEW a \in pulled, ArticleTime[a] <= cursor[ArticleSource[a]] PROVE FALSE
    <3>1. a \in Articles /\ News!since(ArticleSource[a], began) < ArticleTime[a]
      BY DEF NewsPulled, Asked, NewsTypes
    <3>2. cursor[ArticleSource[a]] \in -1..NewsTime
      BY <3>1 DEF NewsTypes
    <3>3. CASE cursor[ArticleSource[a]] = -1
      BY <3>1, <3>3, <2>1, NothingBehindNone
    <3>4. CASE cursor[ArticleSource[a]] # -1
      BY <3>1, <3>2, <3>4, <2>1 DEF News!since
    <3> QED BY <3>3, <3>4
  <2>2. News!NothingFetchedIsLost'
    BY <1>1, <1>2, <1>4, <2>1 DEF NewsKept, News!NothingFetchedIsLost
  <2>3. News!OnlyLateIsHidden'
    <3> SUFFICES ASSUME NEW a \in Articles, a \notin items', a \notin News!Expired,
                        floor[ArticleSource[a]] < ArticleTime[a],
                        ArticleTime[a] <= cursor[ArticleSource[a]]
                 PROVE  \E b \in News!Of(ArticleSource[a]) :
                            ArticleTime[b] >= ArticleTime[a] /\ FeedTime[b] < FeedTime[a]
      BY <1>1, <1>4 DEF News!OnlyLateIsHidden, News!Of
    <3> QED BY <1>2 DEF NewsKept, News!OnlyLateIsHidden
  <2> QED BY <2>2, <2>3 DEF NewsKept
<1> QED BY <1>3, <1>5, <1>6

\* The newest article that a source gave.
LEMMA NewestOf ==
    ASSUME NEW mine \in SUBSET Articles, mine # {}
    PROVE  LET top == News!Max({ArticleTime[a] : a \in mine}) IN
           /\ top \in 0..NewsTime
           /\ \E b \in mine : ArticleTime[b] = top
           /\ \A a \in mine : ArticleTime[a] <= top
<1> DEFINE T == {ArticleTime[a] : a \in mine}
<1>1. T \subseteq 0..NewsTime /\ T # {} /\ NewsTime \in Int /\ 0 \in Int
  BY NewsBounds
<1>2. IsFiniteSet(0..NewsTime)
  BY <1>1, FS_Interval
<1>3. IsFiniteSet(T)
  BY <1>1, <1>2, FS_Subset
<1>4. T \in SUBSET Int
  BY <1>1
<1> HIDE DEF T
<1>5. PICK x \in T : \A y \in T : y <= x
  BY <1>1, <1>3, <1>4, GreatestOfFinite
<1>6. \A y \in T : x >= y
  BY <1>4, <1>5
<1>7. News!Max(T) \in T /\ \A y \in T : News!Max(T) >= y
  BY <1>5, <1>6 DEF News!Max
<1>8. News!Max(T) \in 0..NewsTime /\ \A y \in T : y <= News!Max(T)
  BY <1>1, <1>4, <1>7
<1>9. (\E b \in mine : ArticleTime[b] = News!Max(T)) /\ \A a \in mine : ArticleTime[a] \in T
  BY <1>7 DEF T
<1> QED BY <1>8, <1>9 DEF T

\* A cursor that moves passes only what was pulled with its newest article, or
\* appeared later.
LEMMA NewsMovesCursor ==
    ASSUME NewsInv, News!MoveCursor
    PROVE  NewsInv'
<1> USE NewsBounds DEF NewsInv
<1>1. /\ step = "cursor" /\ cursor' = News!moved(pulled) /\ pulled' = {} /\ step' = "over"
      /\ floor' = [src \in News!Sources |->
             IF cursor[src] = -1 THEN began - Backfill ELSE floor[src]]
      /\ UNCHANGED <<time, began, items, seen, used, faults>>
  BY DEF News!MoveCursor
<1> DEFINE mine(src) == pulled \cap News!Of(src)
<1>2. ASSUME NEW src \in News!Sources
      PROVE  /\ cursor'[src] = IF mine(src) = {} THEN cursor[src]
                               ELSE News!Max({ArticleTime[a] : a \in mine(src)})
             /\ mine(src) \subseteq Articles
  BY <1>1 DEF News!moved, NewsTypes
<1>3. ASSUME NEW src \in News!Sources, mine(src) # {}
      PROVE  /\ cursor'[src] \in 0..NewsTime
             /\ \E b \in mine(src) : ArticleTime[b] = cursor'[src]
  <2>1. mine(src) \in SUBSET Articles
    BY <1>2
  <2>2. cursor'[src] = News!Max({ArticleTime[a] : a \in mine(src)})
    BY <1>2, <1>3
  <2> HIDE DEF mine
  <2> QED BY <2>1, <2>2, <1>3, NewestOf
<1>4. cursor' \in [News!Sources -> -1..NewsTime]
  <2>1. cursor' = [src \in News!Sources |-> cursor'[src]]
    BY <1>1 DEF News!moved
  <2>2. \A src \in News!Sources : cursor'[src] \in -1..NewsTime
    <3> SUFFICES ASSUME NEW src \in News!Sources PROVE cursor'[src] \in -1..NewsTime
      OBVIOUS
    <3>1. CASE mine(src) = {}
      BY <3>1, <1>2 DEF NewsTypes
    <3>2. CASE mine(src) # {}
      BY <3>2, <1>3
    <3> QED BY <3>1, <3>2
  <2> QED BY <2>1, <2>2
<1>5. floor' \in [News!Sources -> Int]
  BY <1>1 DEF NewsTypes
<1>6. NewsTypes'
  BY <1>1, <1>4, <1>5 DEF NewsTypes
<1>7. NewsPulled'
  BY <1>1 DEF NewsPulled
<1>8. News!Expired' = News!Expired
  BY <1>1 DEF News!Expired
\* An article behind a cursor now was behind it before, or one that is not
\* older was pulled while it was asked for too.
<1>9. ASSUME NEW a \in Articles, floor'[ArticleSource[a]] < ArticleTime[a],
             ArticleTime[a] <= cursor'[ArticleSource[a]]
      PROVE  \/ /\ floor[ArticleSource[a]] < ArticleTime[a]
                /\ ArticleTime[a] <= cursor[ArticleSource[a]]
             \/ /\ Asked(a)
                /\ \E b \in pulled : /\ b \in Articles /\ ArticleSource[b] = ArticleSource[a]
                                     /\ ArticleTime[b] >= ArticleTime[a]
  <2> DEFINE src == ArticleSource[a]
  <2>1. src \in News!Sources /\ cursor[src] \in -1..NewsTime /\ ArticleTime[a] \in 0..NewsTime
    BY DEF NewsTypes
  <2>2. floor'[src] = IF cursor[src] = -1 THEN began - Backfill ELSE floor[src]
    BY <1>1, <2>1
  <2>3. CASE ArticleTime[a] <= cursor[src]
    <3>1. cursor[src] # -1
      BY <2>1, <2>3
    <3> QED BY <3>1, <2>2, <2>3, <1>9
  <2>4. CASE ~ (ArticleTime[a] <= cursor[src])
    <3>1. mine(src) # {}
      BY <2>1, <2>4, <1>2, <1>9
    <3>2. PICK b \in mine(src) : ArticleTime[b] = cursor'[src]
      BY <2>1, <3>1, <1>3
    <3>3. b \in pulled /\ b \in Articles /\ ArticleSource[b] = src
          /\ ArticleTime[b] >= ArticleTime[a]
      BY <3>2, <2>1, <1>9 DEF News!Of
    <3>4. News!since(src, began) < ArticleTime[a]
      BY <2>1, <2>2, <2>4, <1>9 DEF News!since
    <3> QED BY <3>3, <3>4 DEF Asked
  <2> QED BY <2>3, <2>4
<1>10. pulled \subseteq items \cup News!Expired
  BY <1>1 DEF NewsPulled
<1>11. ASSUME NEW a \in Articles, NEW b \in pulled, ArticleSource[a] = ArticleSource[b], Asked(a),
              a \in seen \/ FeedTime[a] <= FeedTime[b]
       PROVE  a \in items \cup News!Expired
  BY <1>10, <1>11 DEF NewsPulled
<1>12. News!NothingFetchedIsLost'
  <2> SUFFICES ASSUME NEW a \in seen, floor'[ArticleSource[a]] < ArticleTime[a],
                      ArticleTime[a] <= cursor'[ArticleSource[a]]
               PROVE  a \in items \cup News!Expired
    BY <1>1, <1>8 DEF News!NothingFetchedIsLost
  <2>1. a \in Articles
    BY DEF NewsTypes
  <2> QED BY <2>1, <1>9, <1>11 DEF NewsKept, News!NothingFetchedIsLost
<1>13. News!OnlyLateIsHidden'
  <2> SUFFICES ASSUME NEW a \in Articles, a \notin items, a \notin News!Expired,
                      floor'[ArticleSource[a]] < ArticleTime[a],
                      ArticleTime[a] <= cursor'[ArticleSource[a]]
               PROVE  \E b \in News!Of(ArticleSource[a]) :
                          ArticleTime[b] >= ArticleTime[a] /\ FeedTime[b] < FeedTime[a]
    BY <1>1, <1>8 DEF News!OnlyLateIsHidden, News!Of
  <2>1. CASE /\ floor[ArticleSource[a]] < ArticleTime[a]
             /\ ArticleTime[a] <= cursor[ArticleSource[a]]
    BY <2>1 DEF NewsKept, News!OnlyLateIsHidden
  <2>2. CASE Asked(a) /\ \E b \in pulled : /\ b \in Articles
                                           /\ ArticleSource[b] = ArticleSource[a]
                                           /\ ArticleTime[b] >= ArticleTime[a]
    <3>1. PICK b \in pulled : /\ b \in Articles /\ ArticleSource[b] = ArticleSource[a]
                              /\ ArticleTime[b] >= ArticleTime[a]
      BY <2>2
    <3>2. ~ (FeedTime[a] <= FeedTime[b])
      BY <3>1, <2>2, <1>11
    <3>3. FeedTime[b] < FeedTime[a]
      BY <3>1, <3>2
    <3> QED BY <3>1, <3>3 DEF News!Of
  <2> QED BY <2>1, <2>2, <1>9
<1> QED BY <1>6, <1>7, <1>12, <1>13 DEF NewsKept

LEMMA NewsCleans == ASSUME NewsInv, News!Cleanup PROVE NewsInv'
<1> USE NewsBounds DEF NewsInv
<1>1. /\ items' = items \ News!Expired
      /\ UNCHANGED <<time, step, pulled, began, cursor, floor, seen, used, faults>>
  BY DEF News!Cleanup
<1>2. News!Expired' = News!Expired /\ \A a : Asked(a)' <=> Asked(a)
  BY <1>1 DEF News!Expired, Asked, News!since
<1>3. items' \cup News!Expired = items \cup News!Expired
  BY <1>1
<1>4. NewsTypes'
  BY <1>1 DEF NewsTypes
<1>5. NewsPulled'
  BY <1>1, <1>2, <1>3 DEF NewsPulled
<1>6. News!NothingFetchedIsLost'
  BY <1>1, <1>2, <1>3 DEF NewsKept, News!NothingFetchedIsLost
<1>7. News!OnlyLateIsHidden'
  <2> SUFFICES ASSUME NEW a \in Articles, a \notin items, a \notin News!Expired,
                      floor[ArticleSource[a]] < ArticleTime[a],
                      ArticleTime[a] <= cursor[ArticleSource[a]]
               PROVE  \E b \in News!Of(ArticleSource[a]) :
                          ArticleTime[b] >= ArticleTime[a] /\ FeedTime[b] < FeedTime[a]
    BY <1>1, <1>2, <1>3 DEF News!OnlyLateIsHidden, News!Of
  <2> QED BY DEF NewsKept, News!OnlyLateIsHidden
<1> QED BY <1>4, <1>5, <1>6, <1>7 DEF NewsKept

LEMMA NewsRestarts == ASSUME NewsInv, News!Restart PROVE NewsInv'
<1> USE NewsBounds DEF NewsInv
<1>1. /\ faults < NewsFaults /\ faults' = faults + 1
      /\ step' = "asleep" /\ pulled' = {} /\ began' = time /\ seen' = {}
      /\ cursor' = [src \in News!Sources |-> -1]
      /\ floor' = [src \in News!Sources |-> -Backfill]
      /\ used' = 0 /\ UNCHANGED <<time, items>>
  BY DEF News!Restart
<1>2. cursor' \in [News!Sources -> -1..NewsTime] /\ floor' \in [News!Sources -> Int]
  BY <1>1
<1>3. NewsTypes'
  BY <1>1, <1>2 DEF NewsTypes
<1>4. NewsPulled'
  BY <1>1 DEF NewsPulled
<1>5. \A a \in Articles : ~ (ArticleTime[a] <= cursor'[ArticleSource[a]])
  BY <1>1
<1>6. NewsKept'
  BY <1>1, <1>5 DEF NewsKept, News!NothingFetchedIsLost, News!OnlyLateIsHidden
<1> QED BY <1>3, <1>4, <1>6

\* Time passes; at midnight a loop that waited for its allowance asks at last.
LEMMA NewsTicks == ASSUME NewsInv, News!Tick PROVE NewsInv'
<1> USE NewsBounds DEF NewsInv
<1> DEFINE midnight == (time + 1) % Day = 0
           woken == step = "midnight" /\ midnight
<1>1. /\ time < NewsTime /\ time' = time + 1 /\ step \in {"over", "macro", "midnight"}
      /\ used' = (IF woken THEN 1 ELSE IF midnight THEN 0 ELSE used)
      /\ step' = (IF woken THEN "macro" ELSE IF step = "over" THEN "asleep" ELSE step)
      /\ pulled' = (IF woken THEN News!fetch_recent("crypto", began, time + 1) ELSE pulled)
      /\ UNCHANGED <<began, cursor, floor, items, seen, faults>>
  BY DEF News!Tick
<1> HIDE DEF midnight
<1>2. time' \in Int /\ time <= time' /\ time \in Int
  BY <1>1 DEF NewsTypes
<1>3. NewsKept'
  BY <1>1, <1>2, KeptBefore
<1>4. \A a : Asked(a)' <=> Asked(a)
  BY <1>1 DEF Asked, News!since
<1>5. CASE woken
  <2>1. \A a \in pulled' : /\ a \in Articles /\ ArticleSource[a] = "crypto"
                           /\ FeedTime[a] <= time + 1
                           /\ ArticleTime[a] > News!since("crypto", began)
    BY <1>1, <1>5, Fetched
  <2>2. \A b \in pulled' : \A a \in Articles :
            /\ ArticleSource[a] = "crypto" /\ FeedTime[a] <= time + 1
            /\ ArticleTime[a] > News!since("crypto", began)
            => a \in pulled'
    BY <1>1, <1>5, Fetched
  <2>3. News!since("crypto", began) \in Int
    BY DEF News!since, NewsTypes, News!Sources
  <2>4. step' = "macro" /\ used' = 1
    BY <1>1, <1>5
  <2>5. pulled' \subseteq Articles
    BY <2>1
  <2>6. NewsTypes'
    BY <1>1, <2>4, <2>5 DEF NewsTypes
  <2>7. \A a \in pulled' : Asked(a)
    BY <2>1, <2>3 DEF Asked
  <2>8. \A a \in seen : a \in Articles /\ FeedTime[a] <= time + 1
    BY <1>2 DEF NewsPulled, NewsTypes
  <2>9. ASSUME NEW a \in Articles, NEW b \in pulled', ArticleSource[a] = ArticleSource[b],
               Asked(a), a \in seen \/ FeedTime[a] <= FeedTime[b]
        PROVE  a \in pulled'
    <3>1. FeedTime[a] <= time + 1
      <4>1. FeedTime[b] <= time + 1 /\ b \in Articles
        BY <2>1
      <4> QED BY <4>1, <2>8, <2>9, <1>2
    <3>2. ArticleSource[a] = "crypto" /\ ArticleTime[a] > News!since("crypto", began)
      BY <2>1, <2>3, <2>9 DEF Asked
    <3> QED BY <3>1, <3>2, <2>2
  <2>10. \A a \in pulled' \cup seen' : FeedTime[a] <= time'
    BY <1>1, <2>1, <2>8
  <2>11. NewsPulled'
    BY <1>1, <1>4, <2>1, <2>4, <2>7, <2>9, <2>10 DEF NewsPulled
  <2> QED BY <1>3, <2>6, <2>11
<1>6. CASE ~ woken
  <2>1. /\ pulled' = pulled /\ step' = IF step = "over" THEN "asleep" ELSE step
        /\ used' \in {0, used}
    BY <1>1, <1>6
  <2>2. NewsTypes'
    BY <1>1, <2>1 DEF NewsTypes
  <2>3. \A a \in pulled \cup seen : FeedTime[a] <= time'
    BY <1>1, <1>2 DEF NewsPulled, NewsTypes
  <2>4. NewsPulled'
    BY <1>1, <1>4, <2>1, <2>3 DEF NewsPulled
  <2> QED BY <1>3, <2>2, <2>4
<1> QED BY <1>5, <1>6

LEMMA NewsStep == ASSUME NewsInv, News!Next PROVE NewsInv'
  BY NewsAsksCrypto, NewsAsksMacro, NewsStores, NewsMovesCursor, NewsCleans, NewsRestarts,
     NewsTicks DEF News!Next

LEMMA NewsMoves ==
    ASSUME [Next]_vars
    PROVE  /\ UNCHANGED part
           /\ part = "news" => News!Next \/ UNCHANGED vars
           /\ (part = "news" /\ News!Next) \/ UNCHANGED newsOnly
  BY DEF Next, TaskNext, DeskNext, vars, tasksOnly, deskOnly

\* The collector that is not the part that moves has fetched nothing.
NewsHold ==
    IF part = "news" THEN NewsInv
    ELSE seen = {} /\ cursor = [src \in News!Sources |-> -1]

LEMMA NewsStays == Spec => []NewsHold
<1>1. Init => NewsHold
<2> SUFFICES ASSUME Init PROVE NewsHold
  OBVIOUS
<2>1. seen = {} /\ cursor = [src \in News!Sources |-> -1]
  BY DEF Init, News!Init
<2> QED
  BY <2>1, NewsStart DEF NewsHold
<1>2. NewsHold /\ [Next]_vars => NewsHold'
<2> SUFFICES ASSUME NewsHold, [Next]_vars PROVE NewsHold'
  OBVIOUS
<2>1. CASE part = "news" /\ News!Next
  BY <2>1, NewsMoves, NewsStep DEF NewsHold
<2>2. CASE UNCHANGED newsOnly /\ part # "news"
  BY <2>2, NewsMoves DEF NewsHold, newsOnly
<2>3. CASE part = "news" /\ UNCHANGED vars
  <3>1. part' = part /\ UNCHANGED newsOnly /\ UNCHANGED faults
    BY <2>3 DEF vars, tasksOnly
  <3>2. NewsInv /\ UNCHANGED <<cursor, floor, items, seen, time, pulled, step, began, used>>
    BY <2>3, <3>1 DEF NewsHold, newsOnly
  <3>3. NewsTypes'
    BY <3>1, <3>2 DEF NewsInv, NewsTypes
  <3>4. NewsKept'
    BY <3>2, KeptBefore DEF NewsInv, NewsTypes
  <3>5. NewsPulled'
    BY <3>2 DEF NewsInv, NewsPulled, Asked, News!since, News!Expired
  <3> QED BY <3>1, <3>3, <3>4, <3>5, <2>3 DEF NewsHold, NewsInv
<2> QED
  BY <2>1, <2>2, <2>3, NewsMoves
<1> QED
  BY <1>1, <1>2, PTL DEF Spec

\* The limiter is never overdrawn, no vote is older than its time to live and
\* an answer's time, candles are asked where the symbol trades; and a headline
\* behind a cursor is stored, expired, or appeared after a newer one did.
THEOREM MarketStaysHonest == Spec => []MarketHonest
<1>1. NewsHold => News!NothingFetchedIsLost /\ News!OnlyLateIsHidden
<2> SUFFICES ASSUME NewsHold PROVE News!NothingFetchedIsLost /\ News!OnlyLateIsHidden
  OBVIOUS
<2>1. CASE part = "news"
  BY <2>1 DEF NewsHold, NewsInv, NewsKept
<2>2. CASE part # "news"
  <3>1. seen = {} /\ \A a \in Articles : cursor[ArticleSource[a]] = -1
    BY <2>2, NewsBounds DEF NewsHold
  <3>2. \A a \in Articles : ~ (ArticleTime[a] <= cursor[ArticleSource[a]])
    BY <3>1, NothingBehindNone
  <3> QED BY <3>1, <3>2 DEF News!NothingFetchedIsLost, News!OnlyLateIsHidden
<2> QED BY <2>1, <2>2
<1>2. MarketHold /\ NewsHold => MarketHonest
  BY <1>1, MarketIsHonest, RoutedRight DEF MarketHonest
<1> QED
  BY <1>2, MarketStays, NewsStays, PTL
=============================================================================
