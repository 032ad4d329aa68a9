------------------------------ MODULE Studies ------------------------------
(* The weight studies an administrator asks for (admin_hyperopt.py): a row   *)
(* that says a study runs, the task that computes it after the response, and *)
(* the row's last update.  The requests are concurrent transactions.         *)
EXTENDS Integers, FiniteSets

CONSTANTS
    Requests, AskedFor,     \* requests, and the user, symbol and timeframe of each
    MaxFaults

VARIABLES
    asked,      \* how far each request is
    own, given, \* the row it inserted, and the row it read back
    study,      \* the committed rows: their status
    nextRow,    \* the sequence of the ids
    working,    \* the tasks: the request each was started by
    outcome,    \* what a task computed and has yet to record
    faults

studiesVars == <<asked, own, given, study, nextRow, working, outcome, faults>>

Ids == 1..Cardinality(Requests)
Rivals(r) == {q \in Requests : AskedFor[q] = AskedFor[r]}
Fault == faults < MaxFaults /\ faults' = faults + 1
Unblamed == faults' = faults

Init ==
    /\ asked = [r \in Requests |-> "new"]
    /\ own = [r \in Requests |-> 0] /\ given = [r \in Requests |-> 0]
    /\ study = [i \in Ids |-> "none"] /\ nextRow = 1
    /\ working = {} /\ outcome = [r \in Requests |-> "none"] /\ faults = 0

\* A request inserts a row that runs; nobody else sees it yet.
Insert(r) ==
    /\ asked[r] = "new" /\ nextRow \in Ids
    /\ asked' = [asked EXCEPT ![r] = "inserted"]
    /\ own' = [own EXCEPT ![r] = nextRow] /\ nextRow' = nextRow + 1
    /\ UNCHANGED <<given, study, working, outcome, faults>>

\* It reads the id back: the newest row it can see that runs for the same user,
\* symbol and timeframe.
Visible(r) ==
    {own[r]} \cup {own[q] : q \in {p \in Rivals(r) : own[p] # 0 /\ study[own[p]] = "running"}}
ReadBack(r) ==
    /\ asked[r] = "inserted" /\ asked' = [asked EXCEPT ![r] = "read"]
    /\ \E i \in Visible(r) :
           /\ \A j \in Visible(r) : j <= i
           /\ given' = [given EXCEPT ![r] = i]
    /\ UNCHANGED <<own, study, nextRow, working, outcome, faults>>

\* The commit; the task is added, and starts when the response has been sent.
Commit(r) ==
    /\ asked[r] = "read" /\ asked' = [asked EXCEPT ![r] = "committed"]
    /\ study' = [study EXCEPT ![own[r]] = "running"]
    /\ UNCHANGED <<own, given, nextRow, working, outcome, faults>>
\* The row is read once more for the response.  If that fails there is none, and
\* the task is never started.
Respond(r) ==
    /\ asked[r] = "committed"
    /\ \/ asked' = [asked EXCEPT ![r] = "answered"] /\ working' = working \cup {r} /\ Unblamed
       \/ asked' = [asked EXCEPT ![r] = "failed"] /\ working' = working /\ Fault
    /\ UNCHANGED <<own, given, study, nextRow, outcome>>
\* What fails before the commit leaves nothing.
Abort(r) ==
    /\ asked[r] \in {"inserted", "read"} /\ Fault
    /\ asked' = [asked EXCEPT ![r] = "failed"]
    /\ UNCHANGED <<own, given, study, nextRow, working, outcome>>

\* The task runs its trials, of which one may raise.
MUT_Optimise(r) ==          \* a trial that raises ends the task
    /\ r \in working /\ outcome[r] = "none"
    /\ \/ outcome' = [outcome EXCEPT ![r] = "completed"] /\ working' = working
       \/ outcome' = outcome /\ working' = working \ {r}
    /\ UNCHANGED <<asked, own, given, study, nextRow, faults>>
Optimise(r) ==
    /\ r \in working /\ outcome[r] = "none"
    /\ \E o \in {"completed", "failed"} : outcome' = [outcome EXCEPT ![r] = o]
    /\ UNCHANGED <<asked, own, given, study, nextRow, working, faults>>

\* It records the result, and if that raises, the failure: a commit that raised
\* may have been done.  The last update is not guarded.
Record(r) ==
    /\ r \in working /\ outcome[r] # "none"
    /\ \/ /\ study' = [study EXCEPT ![given[r]] = outcome[r]]
          /\ working' = working \ {r} /\ outcome' = outcome /\ Unblamed
       \/ /\ study' \in {study, [study EXCEPT ![given[r]] = outcome[r]]}
          /\ (IF outcome[r] = "completed"
              THEN /\ outcome' = [outcome EXCEPT ![r] = "failed"]
                   /\ working' = working
              ELSE /\ outcome' = outcome
                   /\ working' = working \ {r})
          /\ Fault
    /\ UNCHANGED <<asked, own, given, nextRow>>

\* A restart loses the tasks and what was not committed.
Restart ==
    /\ Fault /\ working' = {}
    /\ asked' = [r \in Requests |->
                    IF asked[r] \in {"inserted", "read", "committed"} THEN "failed" ELSE asked[r]]
    /\ UNCHANGED <<own, given, study, nextRow, outcome>>

Next ==
    \/ \E r \in Requests : Insert(r) \/ ReadBack(r) \/ Commit(r) \/ Respond(r) \/ Abort(r)
                               \/ Optimise(r) \/ Record(r)
    \/ Restart

Spec == Init /\ [][Next]_studiesVars

-----------------------------------------------------------------------------
Steps == {"new", "inserted", "read", "committed", "answered", "failed"}
TypeOK ==
    /\ asked \in [Requests -> Steps] /\ own \in [Requests -> Ids \cup {0}]
    /\ given \in [Requests -> Ids \cup {0}] /\ nextRow \in Nat /\ faults \in 0..MaxFaults
    /\ study \in [Ids -> {"none", "running", "completed", "failed"}]
    /\ working \subseteq Requests /\ outcome \in [Requests -> {"none", "completed", "failed"}]

\* A task works on its own request's row or on a newer one of the same user,
\* symbol and timeframe, which had been committed while the request was open.
TaskHasItsStudy ==
    \A r \in Requests : given[r] # 0 =>
        /\ given[r] >= own[r]
        /\ given[r] # own[r] =>
               \E q \in Rivals(r) : own[q] = given[r] /\ study[own[q]] # "none"

\* A row that says a study runs belongs to a task that will end it, or to a
\* request that has yet to start one; else something failed, or the request's
\* task was given the newer row of a request that overtook it.
RunningIsWorkedOn ==
    \A q \in Requests : own[q] # 0 /\ study[own[q]] = "running" =>
        \/ \E r \in Requests : given[r] = own[q] /\ (r \in working \/ asked[r] \in {"read", "committed"})
        \/ faults > 0
        \/ given[q] > own[q]

\* A row ends only by a task that was given it.
EndedByItsTask ==
    \A i \in Ids : study[i] \in {"completed", "failed"} =>
        \E r \in Requests : given[r] = i /\ outcome[r] # "none"
=============================================================================
