----------------------------- MODULE LiveFleet -----------------------------
(***************************************************************************)
(* Which symbols are streamed, and by whom.  The six-hourly refresh        *)
(* samples the liquidity of every candidate against the prior snapshot,    *)
(* re-adds what has an open position and writes a new snapshot with a      *)
(* cohort per symbol.  Two supervisors, the spot WebSocket fleet and the   *)
(* futures poll fleet, read their cohorts of the snapshot each hour and    *)
(* start and cancel one child per symbol.                                  *)
(***************************************************************************)
EXTENDS Naturals, FiniteSets

CONSTANTS
    Symbols,     \* USDT perpetuals
    Baseline,    \* cohort_baseline_symbols
    Traded,      \* the symbols of them a position may be opened on
    Samples,     \* N_SAMPLES
    EntryMin,    \* ENTRY_MIN_PASSES
    MaxPolled,   \* FUTURES_POLL_SAFETY_MAX_N
    MaxFaults    \* bound on failures, relistings and restarts

Fleets == {"ws_keepalive", "futures_poll"}
Results == {"pass", "marginal", "severe", "error"}

VARIABLES
    spot,        \* symbols with a tradable spot pair
    relisted,    \* symbols whose spot listing has changed
    open,        \* symbols with an open live_trades or shadow position
    snapshot,    \* the latest snapshot: member -> [cohort, severe]
    events,      \* symbols of the severity events of the latest refresh
    stage,       \* where the refresh stands
    sheet,       \* its locals: futures_only, what passed or collapsed, fast_exited
    kids,        \* kids[f]: symbols with a running child
    job,         \* job[f]: where the supervisor's reconciliation stands
    faults

marketVars == <<spot, relisted, open>>
rows       == <<snapshot, events>>
refresh    == <<stage, sheet>>
fleetVars  == <<kids, job>>
vars == <<marketVars, rows, refresh, fleetVars, faults>>

Fault   == faults < MaxFaults /\ faults' = faults + 1
NoFault == UNCHANGED faults

Empty == [s \in {} |-> [cohort |-> "futures_poll", severe |-> FALSE]]
Blank == [futuresOnly |-> {}, kept |-> {}, severe |-> {}, fast |-> {}]
Members == DOMAIN snapshot
\* The spot listing of a baseline symbol decides nothing.
Movable == Symbols \ Baseline
Waiting == [at |-> "wait", desired |-> {}]

Init ==
    /\ spot \in SUBSET Movable /\ relisted = {} /\ open = {}
    /\ snapshot = Empty /\ events = {}
    /\ stage = "idle" /\ sheet = Blank
    /\ kids = [f \in Fleets |-> {}] /\ job = [f \in Fleets |-> Waiting]
    /\ faults = 0

-----------------------------------------------------------------------------
(* The market and the traders. *)

Relist(s) ==
    /\ spot' = (spot \cup {s}) \ (spot \cap {s}) /\ relisted' = relisted \cup {s}
    /\ Fault
    /\ UNCHANGED <<open, rows, refresh, fleetVars>>

\* The shadow worker, or a child's own dispatch.
PositionOpens(s) ==
    /\ s \in Traded \ open /\ open' = open \cup {s}
    /\ NoFault
    /\ UNCHANGED <<spot, relisted, rows, refresh, fleetVars>>

PositionCloses(s) ==
    /\ s \in open /\ open' = open \ {s}
    /\ NoFault
    /\ UNCHANGED <<spot, relisted, rows, refresh, fleetVars>>

-----------------------------------------------------------------------------
(* refresh_live_fleet_universe. *)

\* _classify_cohort: identity and listing, never the prior snapshot.
Cohort(s, futuresOnly) ==
    IF s \in Baseline THEN "established_top20"
    ELSE IF s \in futuresOnly THEN "futures_poll" ELSE "liquidity_added_spot"

\* One sample while there is no snapshot; then a member leaves on one severe
\* sample or with no pass at all, errors included, and a newcomer needs
\* EntryMin passes.
Kind(s) == IF Members = {} THEN "first"
           ELSE IF s \in Members THEN "member" ELSE "newcomer"
Runs(kind) == [1..(IF kind = "first" THEN 1 ELSE Samples) -> Results]

\* The samples of one candidate; the last one that answered is kept.
Passes(samples) == Cardinality({i \in DOMAIN samples : samples[i] = "pass"})
Answered(samples) == {i \in DOMAIN samples : samples[i] # "error"}
LastCheck(samples) ==
    IF Answered(samples) = {} THEN "error"
    ELSE samples[CHOOSE i \in Answered(samples) : \A j \in Answered(samples) : j <= i]
Collapsed(samples) == \E i \in DOMAIN samples : samples[i] = "severe"

Keep(kind, samples) ==
    /\ Answered(samples) # {}
    /\ CASE kind = "first" -> samples[1] = "pass"
         [] kind = "member" -> ~Collapsed(samples) /\ Passes(samples) > 0
         [] OTHER -> Passes(samples) >= EntryMin

\* What the samples make of a candidate: whether it is kept, with a severe
\* last sample, whether a member collapsed, and whether a request failed.
Judge(kind, samples) ==
    [keep   |-> Keep(kind, samples),
     severe |-> Keep(kind, samples) /\ LastCheck(samples) = "severe",
     fast   |-> kind = "member" /\ Collapsed(samples),
     failed |-> \E i \in DOMAIN samples : samples[i] = "error"]
Judged(kind) == {Judge(kind, samples) : samples \in Runs(kind)}
Judgements ==
    [first |-> Judged("first"), member |-> Judged("member"), newcomer |-> Judged("newcomer")]

Entry(s, severe) == [cohort |-> Cohort(s, sheet.futuresOnly), severe |-> severe]

\* Listings, 24h volumes and the prior snapshot are read once; the volume
\* pre-filter picks the candidates, and each is sampled.  A last sample that is
\* severe is kept with the symbol; a member's collapse is an event.
Sample ==
    /\ stage = "idle" /\ stage' = "sampled"
    /\ \E candidates \in SUBSET Symbols :
       \E judged \in [candidates -> UNION {Judgements[Kind(s)] : s \in candidates}] :
         /\ \A s \in candidates : judged[s] \in Judgements[Kind(s)]
         /\ IF \E s \in candidates : judged[s].failed THEN Fault ELSE NoFault
         /\ sheet' = [futuresOnly |-> Symbols \ spot,
                      kept   |-> {s \in candidates : judged[s].keep},
                      severe |-> {s \in candidates : judged[s].severe},
                      fast   |-> {s \in candidates : judged[s].fast}]
    /\ events' = {}
    /\ UNCHANGED <<marketVars, snapshot, fleetVars>>

\* The open-position override: every open position that is not in the results,
\* with its prior numbers, or with one fresh sample if it has none.  A sample
\* that fails leaves the symbol out.
MUT_Overridden == (open \cap Members) \ sheet.kept
Overridden == open \ sheet.kept
Rescued == Overridden \ Members

\* The three routes of a severity event.
MUT_RescueEvents(fresh) == {}
RescueEvents(fresh) == {s \in Rescued : fresh[s] = "severe"}
Events(fresh) ==
    sheet.fast \cup {s \in Overridden \cap Members : snapshot[s].severe}
               \cup RescueEvents(fresh)

MUT_RescueEntry(s, fresh) ==
    [cohort |-> "established_top20", severe |-> fresh[s] = "severe"]
RescueEntry(s, fresh) == Entry(s, fresh[s] = "severe")
NewEntry(s, fresh) ==
    IF s \in sheet.kept THEN Entry(s, s \in sheet.severe)
    ELSE IF s \in Members THEN snapshot[s]
    ELSE RescueEntry(s, fresh)

Persist ==
    /\ stage = "sampled" /\ stage' = "idle" /\ sheet' = Blank
    /\ \E fresh \in [Rescued -> Results] :
         LET lost == {s \in Rescued : fresh[s] = "error"}
             new  == sheet.kept \cup (Overridden \ lost)
         IN
         /\ IF lost # {} THEN Fault ELSE NoFault
         \* without a row there is no newer snapshot
         /\ snapshot' = IF new = {} THEN snapshot
                        ELSE [s \in new |-> NewEntry(s, fresh)]
         /\ events' = Events(fresh)
    /\ UNCHANGED <<marketVars, fleetVars>>

\* An exception anywhere ends the cycle; the transaction is rolled back.
RefreshFails ==
    /\ stage # "idle" /\ stage' = "idle" /\ sheet' = Blank
    /\ Fault
    /\ UNCHANGED <<marketVars, rows, fleetVars>>

-----------------------------------------------------------------------------
(* run_keepalive and run_futures_poll. *)

Served(f) == IF f = "futures_poll" THEN {"futures_poll"}
             ELSE {"established_top20", "liquidity_added_spot"}
Cohorts(f) == {s \in Members : snapshot[s].cohort \in Served(f)}

\* Of more polled symbols than the cap the most liquid are kept; which they are
\* is data.
Crowded == Cardinality(Cohorts("futures_poll")) > MaxPolled
Desired(f) ==
    IF f = "futures_poll" /\ Crowded
    THEN {kept \in SUBSET Cohorts(f) : Cardinality(kept) = MaxPolled}
    ELSE {Cohorts(f)}

\* The hourly read.  Nothing desired, or a failed read, leaves the fleet alone.
Load(f) ==
    /\ job[f].at = "wait"
    /\ \/ /\ \E desired \in Desired(f) \ {{}} :
                job' = [job EXCEPT ![f] = [at |-> "apply", desired |-> desired]]
          /\ NoFault
       \/ UNCHANGED job /\ Fault
    /\ UNCHANGED <<marketVars, rows, refresh, kids>>

\* _refresh_children: what is no longer wanted is cancelled, unless
\* has_open_position says otherwise at that moment; newcomers are started.
Retained(f) == (kids[f] \ job[f].desired) \cap open
Apply(f) ==
    /\ job[f].at = "apply"
    /\ kids' = [kids EXCEPT ![f] = job[f].desired \cup Retained(f)]
    /\ job' = [job EXCEPT ![f] = Waiting]
    /\ NoFault
    /\ UNCHANGED <<marketVars, rows, refresh>>

Restart ==
    /\ kids' = [f \in Fleets |-> {}] /\ job' = [f \in Fleets |-> Waiting]
    /\ stage' = "idle" /\ sheet' = Blank
    /\ Fault
    /\ UNCHANGED <<marketVars, rows>>

Reconcile(f) == Load(f) \/ Apply(f)

Next ==
    \/ \E s \in Movable : Relist(s)
    \/ \E s \in Symbols : PositionOpens(s) \/ PositionCloses(s)
    \/ Sample \/ Persist \/ RefreshFails \/ Restart
    \/ \E f \in Fleets : Reconcile(f)

Spec == Init /\ [][Next]_vars

\* Both schedules keep coming round: a sampling, or its writing, that goes well.
Cycle == NoFault /\ stage' \in {"idle", "sampled"} \ {stage}
Fairness ==
    /\ WF_stage(Cycle)
    /\ \A f \in Fleets : WF_vars(NoFault /\ Reconcile(f))

FairSpec == Spec /\ Fairness

-----------------------------------------------------------------------------
(* Properties. *)

TypeOK ==
    /\ spot \subseteq Symbols /\ relisted \subseteq Symbols /\ open \subseteq Symbols
    /\ Members \subseteq Symbols /\ events \subseteq Symbols
    /\ stage \in {"idle", "sampled"}
    /\ \A part \in DOMAIN sheet : sheet[part] \subseteq Symbols
    /\ \A f \in Fleets : kids[f] \subseteq Symbols /\ job[f].at \in {"wait", "apply"}
    /\ faults \in 0..MaxFaults

\* What stays in the fleet only for its open position, on a book that has
\* collapsed, is on record with the snapshot that keeps it: all three routes
\* of the override write a severity event.
HeldSevereRecorded ==
    [][\A s \in Members' \ sheet.kept :
          snapshot'[s].severe \/ s \in sheet.fast => s \in events']_snapshot

\* No symbol has a child in both fleets, across refreshes, carried-forward
\* rows, rescues and restarts, unless its spot listing changed meanwhile: the
\* cohort is a function of identity.
FeedersDisjoint ==
    kids["ws_keepalive"] \cap kids["futures_poll"] \subseteq relisted

\* A symbol with an open position gets a child in the end, also if its
\* position opened behind a drop or on a symbol no snapshot ever had, unless it
\* is polled and snapshots with more polled symbols than the cap keep coming:
\* the cap does not ask for open positions (_load_desired_futures_symbols).
HeldIsStreamed ==
    \A s \in Traded :
        s \in open ~> \/ s \notin open
                      \/ \E f \in Fleets : s \in kids[f]
                      \/ s \in Cohorts("futures_poll") /\ Crowded
=============================================================================
