---------------------------- MODULE ControlProofs ----------------------------
(* What holds of the control machines for every value of the constants.      *)
EXTENDS Control, FiniteSetTheorems, TLAPS

-----------------------------------------------------------------------------
(* The failure counters.                                                     *)

\* A watermark never passes the copy it was taken from, the copy never the
\* counter, and what is in the table, staged, or still to be flushed never
\* exceeds what happened.
CountsInv ==
    /\ truth \in [Symbols -> Nat] /\ total \in [Symbols -> Nat]
    /\ snapshot \in [Symbols -> Nat] /\ mark \in [Symbols -> Nat]
    /\ staged \in [Symbols -> Nat] /\ row \in [Symbols -> Nat]
    /\ \A s \in Symbols :
         /\ mark[s] <= snapshot[s] /\ snapshot[s] <= total[s]
         /\ row[s] + staged[s] + total[s] <= truth[s] + mark[s]

LEMMA CountsStart == Counts!Init => CountsInv
  BY DEF Counts!Init, Counts!Zero, CountsInv

LEMMA CountsStep == ASSUME CountsInv, Counts!Next PROVE CountsInv'
<1> USE DEF CountsInv, Counts!counters, Counts!audit
<1>1. ASSUME NEW s \in Symbols, Counts!FetchFails(s) PROVE CountsInv'
  BY <1>1 DEF Counts!FetchFails
<1>2. ASSUME NEW s \in Symbols, Counts!FlushSymbol(s) PROVE CountsInv'
  BY <1>2 DEF Counts!FlushSymbol, Counts!Delta
<1>3. ASSUME NEW c, Counts!GrowOld(c) PROVE CountsInv'
  BY <1>3 DEF Counts!GrowOld
<1>4. ASSUME Counts!UniverseChanges PROVE CountsInv'
  BY <1>4 DEF Counts!UniverseChanges
<1>5. ASSUME Counts!Audit PROVE CountsInv'
  BY <1>5 DEF Counts!Audit
<1>6. ASSUME Counts!FindSilent PROVE CountsInv'
  BY <1>6 DEF Counts!FindSilent
<1>7. ASSUME Counts!Commit PROVE CountsInv'
  BY <1>7 DEF Counts!Commit, Counts!Zero
<1>8. ASSUME Counts!CycleFails PROVE CountsInv'
  BY <1>8 DEF Counts!CycleFails, Counts!Zero
<1>9. ASSUME Counts!Restart PROVE CountsInv'
  BY <1>9 DEF Counts!Restart, Counts!Zero
<1> QED
  BY <1>1, <1>2, <1>3, <1>4, <1>5, <1>6, <1>7, <1>8, <1>9 DEF Counts!Next

LEMMA CountsKept ==
    ASSUME CountsInv, [Next]_allVars PROVE CountsInv'
<1>1. CASE Counts!Next
  BY <1>1, CountsStep
<1>2. CASE UNCHANGED countsOnly
  BY <1>2 DEF CountsInv, countsOnly
<1> QED
  BY <1>1, <1>2 DEF Next, allVars

\* No failure is counted twice (flush_mtf_fetch_failures).
THEOREM CountersHonest == Spec => []NeverOvercounts
<1>1. Init => CountsInv
  BY CountsStart DEF Init
<1>2. CountsInv /\ [Next]_allVars => CountsInv'
  BY CountsKept
<1>3. CountsInv => NeverOvercounts
  BY DEF CountsInv, NeverOvercounts, Counts!NeverOvercounts
<1> QED
  BY <1>1, <1>2, <1>3, PTL DEF Spec

-----------------------------------------------------------------------------
(* Model checkpoints.                                                        *)

\* At most one checkpoint is active, and whoever is about to activate one has
\* had it approved.
BrainsInv ==
    /\ rows \subseteq Trained /\ active \subseteq rows
    /\ \A c, e \in active : c = e
    /\ active \subseteq approved /\ approved \subseteq Trained
    /\ loaded = {} \/ \E c \in approved : loaded = {c}
    /\ acts \in 0..MaxActs
    /\ swap \in [Writers -> [at : {"idle", "swap", "first", "insert"}, id : Trained \cup {0}]]
    /\ \A w \in Writers :
         /\ swap[w].at # "idle" => swap[w].id \in Trained
         /\ swap[w].at \in {"swap", "first"} => swap[w].id \in approved

LEMMA BrainsStart == Brains!Init => BrainsInv
  BY BoundsAssumption DEF Brains!Init, Brains!Idle, BrainsInv

LEMMA BrainsStep == ASSUME BrainsInv, Brains!Next PROVE BrainsInv'
<1> USE BoundsAssumption DEF BrainsInv, Brains!table, Brains!Act, Brains!Goto, Brains!Idle
<1>1. ASSUME Brains!Restart PROVE BrainsInv'
  BY <1>1 DEF Brains!Restart, Brains!Loadable
<1>2. ASSUME NEW c \in Trained, Brains!Deactivate(c) PROVE BrainsInv'
  BY <1>2 DEF Brains!Deactivate
<1>3. ASSUME NEW w \in Writers, Brains!Commit(w) PROVE BrainsInv'
  BY <1>3 DEF Brains!Commit, Brains!ActiveAfter
<1>4. ASSUME NEW w \in Writers, Brains!Conflict(w) PROVE BrainsInv'
  BY <1>4 DEF Brains!Conflict
<1>5. ASSUME NEW w \in Writers, NEW c \in Trained, Brains!RequestActivate(w, c)
      PROVE BrainsInv'
<2>1. swap' = [swap EXCEPT ![w] = [at |-> "swap", id |-> c]] /\ c \in rows /\ acts' \in 0..MaxActs
  BY <1>5 DEF Brains!RequestActivate
<2>2. approved' = approved \cup {c}
  BY <1>5, Zenon DEF Brains!RequestActivate, Brains!Wins, Brains!Approve
<2> QED
  BY <1>5, <2>1, <2>2 DEF Brains!RequestActivate
<1>6. ASSUME NEW w \in Writers, NEW c \in Trained, Brains!Register(w, c) PROVE BrainsInv'
  BY <1>6 DEF Brains!Register, Brains!Approve
<1> QED
  BY <1>1, <1>2, <1>3, <1>4, <1>5, <1>6 DEF Brains!Next

LEMMA BrainsKept ==
    ASSUME BrainsInv, [Next]_allVars PROVE BrainsInv'
<1>1. CASE Brains!Next
  BY <1>1, BrainsStep
<1>2. CASE UNCHANGED brainsOnly
  BY <1>2 DEF BrainsInv, brainsOnly
<1> QED
  BY <1>1, <1>2 DEF Next, allVars

\* No brain is active or loaded that nobody vouches for (champion_challenger,
\* admin_rl, register_brain).
THEOREM BrainsVouchedFor == Spec => []ApprovedOnly
<1>1. Init => BrainsInv
  BY BrainsStart DEF Init
<1>2. BrainsInv /\ [Next]_allVars => BrainsInv'
  BY BrainsKept
<1>3. BrainsInv => ApprovedOnly
  BY DEF BrainsInv, ApprovedOnly, Brains!ApprovedOnly
<1> QED
  BY <1>1, <1>2, <1>3, PTL DEF Spec

-----------------------------------------------------------------------------
(* Trading modes and kill switches.                                          *)

Locals == [at : {"idle", "set", "write", "insert", "update"}, new : Modes!Modes \cup {"on", "off"},
           old : Modes!Modes, gates : SUBSET Modes!Targets]

\* What the trade history merits, fully automatic trading only on top of the
\* approved one. None of it is lost as the history grows.
Earned ==
    {m \in Modes!Modes : /\ Modes!Merited(m)
                         /\ m = "fully-auto" => Modes!Merited("telegram-approve")}

\* The mode, and whatever a request or the daily task is about to write, is
\* earned; and what a request in progress will do to a switch it has confirmed,
\* or found done.
ModesInv ==
    /\ mode \in Earned
    /\ day \in 1..MaxDay /\ DOMAIN closed = 1..day /\ requests \in 0..MaxRequests
    /\ call \in [Calls -> Locals]
    /\ daily \in [at : {"tick", "set", "write", "done"}, target : Modes!Modes, old : Modes!Modes]
    /\ switch \in {"none", "on", "off"} /\ confirmed \in BOOLEAN
    /\ switch = "off" => confirmed
    /\ \A r \in Calls :
         /\ call[r].at = "set" => call[r].new \in Modes!Modes /\ call[r].gates \subseteq Earned
         /\ call[r].at = "write" => call[r].new \in Earned
         /\ call[r].at \in {"insert", "update"} => call[r].new \in {"on", "off"}
         /\ call[r].at \in {"insert", "update"} /\ call[r].new = "off" => confirmed
    /\ daily.at \in {"set", "write"} => daily.target \in Earned

LEMMA EarnedFacts ==
    /\ "manual" \in Earned /\ Earned \subseteq Modes!Modes
    /\ "fully-auto" \in Earned => "telegram-approve" \in Earned
  BY DEF Earned, Modes!Merited, Modes!Modes

\* The API judges every upgrade on the shorter window, which never suffices for
\* fully automatic trading.
LEMMA UserGatesEarned == ASSUME ModesInv PROVE Modes!UserGates(day) \subseteq Earned
<1> SUFFICES ASSUME NEW t \in Modes!UserGates(day) PROVE t \in Earned
  OBVIOUS
<1>1. t \in Modes!Targets /\ Window["telegram-approve"] >= Window[t]
  BY Zenon DEF Modes!UserGates, Modes!CheckThresholds
<1>2. t \in Modes!Modes /\ t # "fully-auto"
  BY <1>1, WindowAssumption DEF Modes!Targets, Modes!Modes
<1>3. Modes!Merited(t)
  BY ModesInv, BoundsAssumption DEF ModesInv, Modes!Merited
<1> QED
  BY <1>2, <1>3 DEF Earned

\* The daily task looks only one mode ahead.
LEMMA NextTargetEarned ==
    ASSUME ModesInv, mode # "fully-auto", Modes!Passed(Modes!NextTarget(mode), day)
    PROVE  Modes!NextTarget(mode) \in Earned
<1>1. Modes!Merited(Modes!NextTarget(mode))
  BY BoundsAssumption DEF ModesInv, Modes!Merited
<1>2. mode = "telegram-approve" => Modes!Merited("telegram-approve")
  BY DEF ModesInv, Earned
<1>3. mode \in {"manual", "telegram-approve"}
  BY EarnedFacts DEF ModesInv, Modes!Modes
<1> QED
  BY <1>1, <1>2, <1>3 DEF Earned, Modes!NextTarget, Modes!Modes

\* A past day's verdict is on that day's history, which only grows.
LEMMA EarnedStays ==
    ASSUME ModesInv, Modes!Day \/ UNCHANGED <<day, closed>>
    PROVE  Earned \subseteq Earned'
<1>1. day \in Nat /\ day' \in Nat /\ day <= day' /\ \A e \in 1..day : closed'[e] = closed[e]
  BY BoundsAssumption DEF ModesInv, Modes!Day
<1>2. ASSUME NEW t, NEW e \in 1..day, NEW now, NEW window
      PROVE  Modes!CheckThresholds(t, e, now, window) => Modes!CheckThresholds(t, e, now, window)'
<2> DEFINE days == Modes!Since(e, now, window)
<2>1. days \subseteq 1..day
  BY <1>1 DEF Modes!Since
<2>2. ASSUME NEW outcome
      PROVE  {x \in days : closed[x] = outcome} = {x \in days : closed'[x] = outcome}
  BY <1>1, <2>1
<2> QED
  BY <2>2, Zenon DEF Modes!CheckThresholds, Modes!Trades
<1>3. ASSUME NEW m, Modes!Merited(m) PROVE Modes!Merited(m)'
<2>1. CASE m = "manual"
  BY <2>1 DEF Modes!Merited
<2>2. ASSUME NEW e \in 1..day, m \in Modes!UserGates(e) PROVE Modes!Merited(m)'
<3>1. m \in Modes!UserGates(e)'
  BY <2>2, <1>2, Zenon DEF Modes!UserGates
<3>2. e \in 1..day'
  BY <1>1
<3> QED
  BY <3>1, <3>2, Zenon DEF Modes!Merited
<2>3. ASSUME NEW e \in 1..day, Modes!Passed(m, e) PROVE Modes!Merited(m)'
<3>1. Modes!Passed(m, e)'
  BY <2>3, <1>2, Zenon DEF Modes!Passed
<3>2. e \in 1..day'
  BY <1>1
<3> QED
  BY <3>1, <3>2, Zenon DEF Modes!Merited
<2> QED
  BY <1>3, <2>1, <2>2, <2>3, Zenon DEF Modes!Merited
<1> QED
  BY <1>3, Zenon DEF Earned

\* Whoever does not rise, stays within what is earned.
LEMMA NoUpgradeStaysEarned ==
    ASSUME NEW old \in Earned, NEW new \in Modes!Modes, ~Modes!IsUpgrade(old, new)
    PROVE  new \in Earned
  BY EarnedFacts DEF Modes!IsUpgrade, Modes!Rank, Modes!Modes

LEMMA ModesStart == Modes!Init => ModesInv
<1> SUFFICES ASSUME Modes!Init PROVE ModesInv
  OBVIOUS
<1> USE DEF Modes!Init, Modes!Idle, Modes!Awake
<1>0. Modes!Idle \in Locals
<2>1. {} \in SUBSET Modes!Targets
  OBVIOUS
<2> QED
  BY <2>1 DEF Locals, Modes!Modes
<1>1. call \in [Calls -> Locals]
<2>1. call = [r \in Calls |-> Modes!Idle]
  BY Zenon DEF Modes!Init
<2> QED
  BY <1>0, <2>1, Zenon
<1>2. DOMAIN closed = 1..day /\ day \in 1..MaxDay
  BY BoundsAssumption
<1>3. daily \in [at : {"tick", "set", "write", "done"}, target : Modes!Modes, old : Modes!Modes]
  BY DEF Modes!Modes
<1>4. \A r \in Calls : call[r].at = "idle"
  OBVIOUS
<1>5. mode \in Earned
  BY EarnedFacts
<1>6. requests \in 0..MaxRequests /\ daily.at = "tick"
  BY BoundsAssumption
<1>7. switch = "none" /\ confirmed = FALSE
  OBVIOUS
<1> QED
  BY <1>1, <1>2, <1>3, <1>4, <1>5, <1>6, <1>7, Zenon DEF ModesInv

LEMMA ModesStep == ASSUME ModesInv, Modes!Next PROVE ModesInv'
<1> USE BoundsAssumption, EarnedFacts
    DEF ModesInv, Locals, Modes!history, Modes!switches, Modes!Idle, Modes!Awake, Modes!Asked
<1>0. {} \in SUBSET Modes!Targets /\ Modes!UserGates(day) \in SUBSET Modes!Targets
<2>2. {} \in SUBSET Modes!Targets
  OBVIOUS
<2>3. Modes!UserGates(day) \in SUBSET Modes!Targets
  BY Zenon DEF Modes!UserGates
<2> QED
  BY <2>2, <2>3
<1>1. ASSUME Modes!Day PROVE ModesInv'
<2>1. Earned \subseteq Earned'
  BY <1>1, EarnedStays
<2>2. day' \in 1..MaxDay /\ DOMAIN closed' = 1..day'
  BY <1>1 DEF Modes!Day
<2> HIDE EarnedFacts DEF Earned
<2> QED
  BY <1>1, <2>1, <2>2, SMTT(30) DEF Modes!Day, Modes!Modes
<1>2. ASSUME Modes!Evaluate PROVE ModesInv'
  BY <1>2, EarnedStays, NextTargetEarned DEF Modes!Evaluate, Modes!Modes
<1>3. ASSUME Modes!TaskReads PROVE ModesInv'
  BY <1>3, EarnedStays DEF Modes!TaskReads
<1>4. ASSUME Modes!TaskWrites PROVE ModesInv'
  BY <1>4, EarnedStays DEF Modes!TaskWrites, Modes!Modes
<1>5. ASSUME NEW r \in Calls, Modes!ChangeMode(r) PROVE ModesInv'
<2>1. PICK new \in Modes!Modes, gates \in {{}, Modes!UserGates(day)} :
        call' \in {[call EXCEPT ![r] = Modes!Idle],
                  [call EXCEPT ![r] = [at |-> "set", new |-> new, old |-> mode, gates |-> gates]]}
  BY <1>5 DEF Modes!ChangeMode
<2>2. mode \in Modes!Modes /\ gates \subseteq Earned /\ Earned \subseteq Earned'
  BY <1>5, UserGatesEarned, EarnedStays DEF Modes!ChangeMode
<2>3. CASE call' = [call EXCEPT ![r] = Modes!Idle]
<3>1. call' \in [Calls -> Locals]
  BY <2>3, <1>0 DEF Modes!Modes
<3> QED
  BY <3>1, <2>2, <2>3, <1>5 DEF Modes!ChangeMode
<2>4. CASE call' = [call EXCEPT ![r] = [at |-> "set", new |-> new, old |-> mode, gates |-> gates]]
<3>1. call' \in [Calls -> Locals]
  BY <2>4, <2>2, <1>0
<3> QED
  BY <3>1, <2>2, <2>4, <1>5 DEF Modes!ChangeMode
<2> QED
  BY <2>1, <2>3, <2>4
<1>6. ASSUME NEW r \in Calls, Modes!SetMode(r) PROVE ModesInv'
<2>0. Earned \subseteq Earned'
  BY <1>6, EarnedStays DEF Modes!SetMode
<2>1. CASE call' = [call EXCEPT ![r] = Modes!Idle]
<3>1. call' \in [Calls -> Locals]
  BY <2>1, <1>0 DEF Modes!Modes
<3> QED
  BY <3>1, <2>0, <2>1, <1>6 DEF Modes!SetMode
<2>2. CASE /\ call' = [call EXCEPT ![r] = [call[r] EXCEPT !.at = "write", !.old = mode]]
           /\ ~Modes!Refused(mode, call[r].new, call[r].gates)
<3>1. call' \in [Calls -> Locals]
<4>1. [call[r] EXCEPT !.at = "write", !.old = mode] \in Locals
  BY mode \in Modes!Modes, call[r] \in Locals DEF Locals
<4> QED
  BY <4>1, <2>2, Zenon
<3>2. call[r].new \in Earned
  BY <2>2, <1>6, NoUpgradeStaysEarned DEF Modes!SetMode, Modes!Refused
<3> QED
  BY <3>1, <3>2, <2>0, <2>2, <1>6 DEF Modes!SetMode
<2> QED
  BY <1>6, <2>1, <2>2 DEF Modes!SetMode
<1>7. ASSUME NEW r \in Calls, Modes!CommitMode(r) PROVE ModesInv'
  BY <1>7, <1>0, EarnedStays DEF Modes!CommitMode
<1>8. ASSUME NEW r \in Calls, Modes!PatchSwitch(r) PROVE ModesInv'
  BY <1>8, <1>0, EarnedStays DEF Modes!PatchSwitch, Modes!Allowed, Modes!On, Modes!Value
<1>9. ASSUME NEW r \in Calls, Modes!CommitSwitch(r) PROVE ModesInv'
  BY <1>9, <1>0, EarnedStays DEF Modes!CommitSwitch
<1> QED
  BY <1>1, <1>2, <1>3, <1>4, <1>5, <1>6, <1>7, <1>8, <1>9
     DEF Modes!Next, Modes!Task, Modes!Request

LEMMA ModesKept ==
    ASSUME ModesInv, [Next]_allVars PROVE ModesInv'
<1>1. CASE Modes!Next
  BY <1>1, ModesStep
<1>2. CASE UNCHANGED modesOnly
  BY <1>2, EarnedStays DEF ModesInv, modesOnly
<1> QED
  BY <1>1, <1>2 DEF Next, allVars

\* Nobody trades in a mode whose gates his trade history never passed, or with a
\* kill switch off that was never confirmed, however requests and the daily task interleave (modes.set_mode,
\* auto_promote, patch_me_kill_switch).
THEOREM ModesEarned == Spec => []Authorised
<1>1. Init => ModesInv
  BY ModesStart DEF Init
<1>2. ModesInv /\ [Next]_allVars => ModesInv'
  BY ModesKept
<1>3. ModesInv => Authorised
  BY DEF ModesInv, Earned, Authorised, Modes!EarnedModes, Modes!SwitchOffWasConfirmed
<1> QED
  BY <1>1, <1>2, <1>3, PTL DEF Spec

-----------------------------------------------------------------------------
(* The fault budget that the parts share.                                    *)

Budget == UNCHANGED faults \/ (faults < MaxFaults /\ faults' = faults + 1)

LEMMA EachWithinBudget ==
    ASSUME Pause!Next \/ Counts!Next \/ Gates!Next \/ Predict!Next PROVE Budget
<1>1. Pause!Next => Budget
  BY DEF Pause!Next, Pause!Tick, Pause!Begin, Pause!SetKey, Pause!DeleteKeys, Pause!Audited,
         Pause!RequestFails, Pause!Hit, Pause!Miss, Pause!Served, Pause!Return, Pause!FailOpen,
         Pause!Fault, Pause!NoFault, Budget
<1>2. Counts!Next => Budget
  BY DEF Counts!Next, Counts!FetchFails, Counts!FlushSymbol, Counts!GrowOld, Counts!UniverseChanges,
         Counts!Audit, Counts!FindSilent, Counts!Commit, Counts!CycleFails, Counts!Restart,
         Counts!Fault, Counts!NoFault, Budget
<1>3. Gates!Next => Budget
<2> USE DEF Gates!FailsOpen, Gates!Faulty, Gates!Fault, Gates!Fine, Budget
<2>1. \A f : Gates!Dispatch(f) \/ Gates!Allowlist(f) => Budget
  BY Zenon DEF Gates!Dispatch, Gates!Allowlist
<2>2. \A f : Gates!Quality(f) \/ Gates!SymbolGate(f) => Budget
  BY Zenon DEF Gates!Quality, Gates!SymbolGate
<2>3. \A f : Gates!Place(f) \/ Gates!Card(f) \/ Gates!Log(f) => Budget
  BY Zenon DEF Gates!Place, Gates!Card, Gates!Log
<2>4. Gates!Boot \/ Gates!Tick \/ Gates!Refresh \/ Gates!Restart => Budget
  BY Zenon DEF Gates!Boot, Gates!Tick, Gates!Refresh, Gates!Restart
<2> QED
  BY <2>1, <2>2, <2>3, <2>4, Zenon DEF Gates!Next
<1>4. Predict!Next => Budget
<2> USE DEF Predict!Fault, Predict!Fine, Budget
<2>1. \A l, r : Predict!Begin(l, r) => Budget
  BY Zenon DEF Predict!Begin
<2>2. \A l : Predict!News(l) => Budget
  BY Zenon DEF Predict!News
<2>3. \A l : Predict!Context(l) => Budget
  BY SMT DEF Predict!Context
<2>4. \A l : Predict!Brain(l) => Budget
  BY Zenon DEF Predict!Brain
<2>5. \A l : Predict!Record(l) => Budget
  BY Zenon DEF Predict!Record
<2>6. \A l : Predict!Finish(l) => Budget
  BY Zenon DEF Predict!Finish
<2>7. \A l : Predict!Capture(l) => Budget
  BY Zenon DEF Predict!Capture
<2>8. \A c : Predict!Load(c) => Budget
  BY Zenon DEF Predict!Load
<2>9. \A e : Predict!Refit(e) => Budget
  BY Zenon DEF Predict!Refit
<2>10. Predict!Restart => Budget
  BY Zenon DEF Predict!Restart
<2>11. Predict!Snapshot \/ Predict!Headlines \/ Predict!Regime \/ Predict!Learn => Budget
  BY Zenon DEF Predict!Snapshot, Predict!Headlines, Predict!Regime, Predict!Learn
<2> QED
  BY <2>1, <2>2, <2>3, <2>4, <2>5, <2>6, <2>7, <2>8, <2>9, <2>10, <2>11, Zenon DEF Predict!Next
<1> QED
  BY <1>1, <1>2, <1>3, <1>4

LEMMA WithinBudget == ASSUME [Next]_allVars PROVE Budget
<1>1. Next => Budget
  BY EachWithinBudget DEF Next, Budget
<1>2. UNCHANGED allVars => Budget
  BY DEF allVars, Budget
<1> QED
  BY <1>1, <1>2

LEMMA FaultsBounded == Spec => [](faults \in 0..MaxFaults)
<1>1. Init => faults \in 0..MaxFaults
  BY BoundsAssumption DEF Init, Pause!Init
<1>2. faults \in 0..MaxFaults /\ [Next]_allVars => (faults \in 0..MaxFaults)'
  BY WithinBudget, BoundsAssumption DEF Budget
<1> QED
  BY <1>1, <1>2, PTL DEF Spec

-----------------------------------------------------------------------------
(* The pause switch.                                                         *)

Answers == [value : BOOLEAN, at : Nat, valid : BOOLEAN, failed : BOOLEAN]

PauseTypes ==
    /\ keys \subseteq {"paused", "since", "by", "reason"}
    /\ by \in Admins \cup {"nobody"} /\ audit \in {"system_paused", "system_resumed"}
    /\ admin \in [Admins -> [kind : {"none", "system_paused", "system_resumed"},
                            at : {"idle", "paused", "since", "by", "reason", "delete", "audit"}]]
    /\ \A a \in Admins : admin[a].at # "idle" => admin[a].kind # "none"
    /\ reader \in [Readers -> [at : {"idle", "sent", "served"}, now : Nat, raw : BOOLEAN]]
    /\ answer \in Answers /\ cache \in Answers
    /\ lastHeld \in [BOOLEAN -> Nat]
    /\ clock \in 0..MaxTime /\ flips \in 0..MaxFlips

\* Every value that is on its way, or cached, was the flag's at its stamp or later.
Recent(value, since) == lastHeld[value] >= since
PauseTimes ==
    /\ lastHeld[Pause!Flag] = clock /\ \A v \in BOOLEAN : lastHeld[v] <= clock
    /\ \A r \in Readers : reader[r].now <= clock
    /\ \A r \in Readers : reader[r].at = "served" => Recent(reader[r].raw, reader[r].now)
    /\ cache.valid /\ ~cache.failed => Recent(cache.value, cache.at)
    /\ answer.valid /\ ~answer.failed => lastHeld[answer.value] + TTL > answer.at

\* What a pause that has got so far still has to write.
Owed(place) ==
    CASE place = "since" -> {"since", "by", "reason"} [] place = "by" -> {"by", "reason"}
      [] place = "reason" -> {"reason"} [] OTHER -> {}

\* Without a fault, a set flag is complete or some call is still completing it.
Completed(a) == {"since", "by", "reason"} \subseteq keys \cup Owed(admin[a].at)
PauseKeys == faults = 0 /\ Pause!Flag => \E a \in Admins : Completed(a)

\* The four steps of SetKey: the key written, and where the call goes on.
Writes(a, key, next) ==
    /\ <<key, next>> \in {<<"paused", "since">>, <<"since", "by">>, <<"by", "reason">>,
                         <<"reason", "audit">>}
    /\ admin[a].at = key /\ admin' = [admin EXCEPT ![a].at = next]
    /\ keys' = keys \cup {key} /\ by' = IF key = "by" THEN a ELSE by

LEMMA SetKeyWrites ==
    ASSUME NEW a, Pause!SetKey(a) PROVE \E key, next : Writes(a, key, next)
<1>1. PICK i \in DOMAIN Pause!Order :
        /\ admin[a].at = Pause!Order[i]
        /\ keys' = keys \cup {Pause!Order[i]}
        /\ by' = IF Pause!Order[i] = "by" THEN a ELSE by
        /\ admin' = [admin EXCEPT ![a].at = IF i < 4 THEN Pause!Order[i + 1] ELSE "audit"]
  BY Zenon DEF Pause!SetKey
<1>2. i \in 1..4
  BY DEF Pause!Order
<1>3. CASE i = 1
<2>1. Writes(a, "paused", "since")
  BY <1>1, <1>3 DEF Writes, Pause!Order
<2> QED
  BY <2>1
<1>4. CASE i = 2
<2>1. Writes(a, "since", "by")
  BY <1>1, <1>4 DEF Writes, Pause!Order
<2> QED
  BY <2>1
<1>5. CASE i = 3
<2>1. Writes(a, "by", "reason")
  BY <1>1, <1>5 DEF Writes, Pause!Order
<2> QED
  BY <2>1
<1>6. CASE i = 4
<2>1. Writes(a, "reason", "audit")
  BY <1>1, <1>6 DEF Writes, Pause!Order
<2> QED
  BY <2>1
<1> QED
  BY <1>2, <1>3, <1>4, <1>5, <1>6

\* A read that is answered is still a read.
Reads == [at : {"idle", "sent", "served"}, now : Nat, raw : BOOLEAN]
LEMMA ReaderServed ==
    ASSUME NEW x \in Reads, NEW flag \in BOOLEAN
    PROVE  [x EXCEPT !.at = "served", !.raw = flag] \in Reads
  BY Zenon DEF Reads

LEMMA PauseTypesStep == ASSUME PauseTypes, Pause!Next PROVE PauseTypes'
<1> USE BoundsAssumption DEF PauseTypes, Answers, Pause!store, Pause!Idle, Pause!Away, Pause!Empty
<1>1. ASSUME Pause!Tick PROVE PauseTypes'
  BY <1>1 DEF Pause!Tick, Pause!Flag
<1>2. ASSUME NEW a \in Admins, NEW kind \in {"system_paused", "system_resumed"}, Pause!Begin(a, kind)
      PROVE PauseTypes'
  BY <1>2 DEF Pause!Begin
<1>3. ASSUME NEW a \in Admins, Pause!SetKey(a) PROVE PauseTypes'
<2>0. PICK key, next : Writes(a, key, next)
  BY <1>3, SetKeyWrites
<2>1. next \in {"since", "by", "reason", "audit"} /\ admin[a].at # "idle"
      /\ admin' = [admin EXCEPT ![a].at = next]
  BY <2>0 DEF Writes
<2>2. keys' \subseteq {"paused", "since", "by", "reason"} /\ by' \in Admins \cup {"nobody"}
  BY <2>0 DEF Writes
<2>3. Pause!Flag \in BOOLEAN /\ Pause!Flag' \in BOOLEAN
  BY DEF Pause!Flag
<2>4. lastHeld' \in [BOOLEAN -> Nat]
  BY <1>3, <2>3 DEF Pause!SetKey, Pause!HeldNow
<2> QED
  BY <1>3, <2>1, <2>2, <2>4 DEF Pause!SetKey
<1>4. ASSUME NEW a \in Admins, Pause!DeleteKeys(a) PROVE PauseTypes'
  BY <1>4 DEF Pause!DeleteKeys, Pause!HeldNow, Pause!Flag
<1>5. ASSUME NEW a \in Admins, Pause!Audited(a) PROVE PauseTypes'
  BY <1>5 DEF Pause!Audited
<1>6. ASSUME NEW a \in Admins, Pause!RequestFails(a) PROVE PauseTypes'
  BY <1>6 DEF Pause!RequestFails
<1>7. ASSUME NEW r \in Readers, Pause!Hit(r) PROVE PauseTypes'
  BY <1>7 DEF Pause!Hit
<1>8. ASSUME NEW r \in Readers, Pause!Miss(r) PROVE PauseTypes'
  BY <1>8 DEF Pause!Miss
<1>9. ASSUME NEW r \in Readers, Pause!Served(r) PROVE PauseTypes'
<2>1. Pause!Flag \in BOOLEAN
  BY DEF Pause!Flag
<2>2. reader' = [reader EXCEPT ![r].at = "served", ![r].raw = Pause!Flag]
  BY <1>9 DEF Pause!Served
<2>3. reader' \in [Readers -> [at : {"idle", "sent", "served"}, now : Nat, raw : BOOLEAN]]
<3>1. reader \in [Readers -> Reads]
  BY DEF Reads
<3>2. [reader[r] EXCEPT !.at = "served", !.raw = Pause!Flag] \in Reads
  BY <2>1, <3>1, ReaderServed
<3>3. reader' = [reader EXCEPT ![r] = [reader[r] EXCEPT !.at = "served", !.raw = Pause!Flag]]
  BY <2>2, <3>1
<3>4. reader' \in [Readers -> Reads]
  BY <3>1, <3>2, <3>3
<3> QED
  BY <3>4 DEF Reads
<2>4. UNCHANGED <<keys, by, audit, admin, answer, cache, lastHeld, clock, flips>>
  BY <1>9, Zenon DEF Pause!Served, Pause!store
<2> QED
  BY <2>3, <2>4
<1>10. ASSUME NEW r \in Readers, Pause!Return(r) PROVE PauseTypes'
  BY <1>10 DEF Pause!Return, Pause!StampOf
<1>11. ASSUME NEW r \in Readers, Pause!FailOpen(r) PROVE PauseTypes'
  BY <1>11 DEF Pause!FailOpen, Pause!StampOf
<1> QED
  BY <1>1, <1>2, <1>3, <1>4, <1>5, <1>6, <1>7, <1>8, <1>9, <1>10, <1>11 DEF Pause!Next

\* When the flag is held later, what was recent stays recent.
LEMMA HeldLater ==
    ASSUME PauseTypes, PauseTimes, UNCHANGED <<clock, reader, answer, cache>>,
           lastHeld' \in [BOOLEAN -> Nat], lastHeld'[Pause!Flag'] = clock,
           \A v \in BOOLEAN : lastHeld[v] <= lastHeld'[v] /\ lastHeld'[v] <= clock
    PROVE  PauseTimes'
<1>1. \A v \in BOOLEAN, t \in Nat : lastHeld[v] >= t => lastHeld'[v] >= t
  BY DEF PauseTypes
<1>2. \A r \in Readers : reader[r].raw \in BOOLEAN /\ reader[r].now \in Nat
  BY DEF PauseTypes
<1>3. cache.value \in BOOLEAN /\ cache.at \in Nat
  BY DEF PauseTypes, Answers
<1>4. answer.valid /\ ~answer.failed => lastHeld'[answer.value] + TTL > answer.at
<2>1. answer.value \in BOOLEAN /\ answer.at \in Nat /\ TTL \in Nat
  BY CacheAssumption DEF PauseTypes, Answers
<2>2. lastHeld[answer.value] \in Nat /\ lastHeld'[answer.value] \in Nat
      /\ lastHeld[answer.value] <= lastHeld'[answer.value]
  BY <2>1 DEF PauseTypes
<2>3. answer.valid /\ ~answer.failed => lastHeld[answer.value] + TTL > answer.at
  BY DEF PauseTimes
<2> QED
  BY <2>1, <2>2, <2>3
<1>5. \A r \in Readers : reader[r].at = "served" => lastHeld'[reader[r].raw] >= reader[r].now
  BY <1>1, <1>2 DEF PauseTimes, Recent
<1>6. cache.valid /\ ~cache.failed => lastHeld'[cache.value] >= cache.at
  BY <1>1, <1>3 DEF PauseTimes, Recent
<1>7. \A r \in Readers : reader[r].now <= clock
  BY DEF PauseTimes
<1> QED
  BY <1>4, <1>5, <1>6, <1>7 DEF PauseTimes, Recent

LEMMA DeletedIsHeld ==
    ASSUME PauseTypes, PauseTimes, NEW a, Pause!DeleteKeys(a)
    PROVE  /\ UNCHANGED <<clock, reader, answer, cache>>
           /\ lastHeld' \in [BOOLEAN -> Nat] /\ lastHeld'[Pause!Flag'] = clock
           /\ \A v \in BOOLEAN : lastHeld[v] <= lastHeld'[v] /\ lastHeld'[v] <= clock
<1>1. Pause!Flag \in BOOLEAN /\ Pause!Flag' = FALSE
  BY DEF Pause!Flag, Pause!DeleteKeys
<1>2. lastHeld' = [lastHeld EXCEPT ![Pause!Flag] = clock, ![FALSE] = clock]
  BY <1>1 DEF Pause!DeleteKeys, Pause!HeldNow
<1>3. clock \in Nat /\ lastHeld \in [BOOLEAN -> Nat] /\ \A v \in BOOLEAN : lastHeld[v] <= clock
  BY BoundsAssumption DEF PauseTypes, PauseTimes
<1>4. UNCHANGED <<clock, reader, answer, cache>>
  BY DEF Pause!DeleteKeys
<1>5. \A v \in BOOLEAN : lastHeld'[v] \in {lastHeld[v], clock}
  BY <1>1, <1>2, <1>3
<1>6. lastHeld' \in [BOOLEAN -> Nat] /\ lastHeld'[FALSE] = clock
  BY <1>1, <1>2, <1>3
<1>7. \A v \in BOOLEAN : lastHeld[v] <= lastHeld'[v] /\ lastHeld'[v] <= clock
<2>1. SUFFICES ASSUME NEW v \in BOOLEAN PROVE lastHeld[v] <= lastHeld'[v] /\ lastHeld'[v] <= clock
  OBVIOUS
<2>2. lastHeld[v] \in Nat /\ lastHeld[v] <= clock /\ lastHeld'[v] \in {lastHeld[v], clock}
  BY <1>3, <1>5
<2> QED
  BY <1>3, <2>2
<1>8. lastHeld'[Pause!Flag'] = clock
  BY <1>1, <1>6
<1> QED
  BY <1>4, <1>6, <1>7, <1>8

LEMMA PauseTimesStep ==
    ASSUME PauseTypes, PauseTimes, Pause!Next PROVE PauseTimes'
<1> USE BoundsAssumption, CacheAssumption
    DEF PauseTypes, Answers, PauseTimes, Recent, Pause!store, Pause!Idle, Pause!Away, Pause!Empty
<1>0. Pause!Flag \in BOOLEAN /\ Pause!Flag' \in BOOLEAN /\ (keys' = keys => Pause!Flag' = Pause!Flag)
  BY DEF Pause!Flag
<1>1. ASSUME Pause!Tick PROVE PauseTimes'
  BY <1>0, <1>1 DEF Pause!Tick
<1>2. ASSUME NEW a \in Admins, NEW kind \in {"system_paused", "system_resumed"}, Pause!Begin(a, kind)
      PROVE PauseTimes'
  BY <1>0, <1>2 DEF Pause!Begin
<1>3. ASSUME NEW a \in Admins, Pause!SetKey(a) PROVE PauseTimes'
  BY <1>0, <1>3 DEF Pause!SetKey, Pause!HeldNow
<1>4. ASSUME NEW a \in Admins, Pause!DeleteKeys(a) PROVE PauseTimes'
  BY <1>4, DeletedIsHeld, HeldLater
<1>5. ASSUME NEW a \in Admins, Pause!Audited(a) PROVE PauseTimes'
  BY <1>0, <1>5 DEF Pause!Audited
<1>6. ASSUME NEW a \in Admins, Pause!RequestFails(a) PROVE PauseTimes'
  BY <1>0, <1>6 DEF Pause!RequestFails
<1>7. ASSUME NEW r \in Readers, Pause!Hit(r) PROVE PauseTimes'
  BY <1>0, <1>7 DEF Pause!Hit, Pause!Fresh
<1>8. ASSUME NEW r \in Readers, Pause!Miss(r) PROVE PauseTimes'
  BY <1>0, <1>8 DEF Pause!Miss
<1>9. ASSUME NEW r \in Readers, Pause!Served(r) PROVE PauseTimes'
  BY <1>0, <1>9 DEF Pause!Served
<1>10. ASSUME NEW r \in Readers, Pause!Return(r) PROVE PauseTimes'
<2>1. cache' = [value |-> reader[r].raw, at |-> reader[r].now, valid |-> TRUE, failed |-> FALSE]
  BY <1>10 DEF Pause!Return, Pause!StampOf
<2>2. answer' = [cache' EXCEPT !.at = reader[r].now]
  BY <1>10 DEF Pause!Return
<2>3. answer'.value = reader[r].raw /\ answer'.at = reader[r].now
  BY <2>1, <2>2
<2>4. Recent(reader[r].raw, reader[r].now) /\ reader' = [reader EXCEPT ![r] = Pause!Away]
      /\ UNCHANGED <<lastHeld, clock>> /\ Pause!Flag' = Pause!Flag
  BY <1>0, <1>10 DEF Pause!Return
<2>5. \A q \in Readers : /\ reader'[q].now <= clock'
                         /\ reader'[q].at = "served" =>
                                lastHeld'[reader'[q].raw] >= reader'[q].now
  BY <2>4
<2>6. cache'.value = reader[r].raw /\ cache'.at = reader[r].now
  BY <2>1
<2>7. lastHeld'[reader[r].raw] >= reader[r].now /\ reader[r].now \in Nat
      /\ lastHeld'[reader[r].raw] \in Nat
  BY <2>4
<2>8. lastHeld'[answer'.value] + TTL > answer'.at
  BY <2>3, <2>7
<2>9. lastHeld'[cache'.value] >= cache'.at
  BY <2>6, <2>7
<2>10. lastHeld'[Pause!Flag'] = clock' /\ \A v \in BOOLEAN : lastHeld'[v] <= clock'
  BY <2>4
<2> QED
  BY <2>5, <2>8, <2>9, <2>10, Zenon DEF PauseTimes, Recent
<1>11. ASSUME NEW r \in Readers, Pause!FailOpen(r) PROVE PauseTimes'
<2>1. cache' = [value |-> FALSE, at |-> reader[r].now, valid |-> TRUE, failed |-> TRUE]
  BY <1>11 DEF Pause!FailOpen, Pause!StampOf
<2>2. answer' = [cache' EXCEPT !.at = reader[r].now]
  BY <1>11 DEF Pause!FailOpen
<2>3. answer'.failed
  BY <2>1, <2>2
<2>4. reader' = [reader EXCEPT ![r] = Pause!Away]
      /\ UNCHANGED <<lastHeld, clock>> /\ Pause!Flag' = Pause!Flag
  BY <1>0, <1>11 DEF Pause!FailOpen
<2>5. \A q \in Readers : /\ reader'[q].now <= clock'
                         /\ reader'[q].at = "served" =>
                                lastHeld'[reader'[q].raw] >= reader'[q].now
  BY <2>4
<2>6. cache'.failed
  BY <2>1
<2>7. lastHeld'[Pause!Flag'] = clock' /\ \A v \in BOOLEAN : lastHeld'[v] <= clock'
  BY <2>4
<2> QED
  BY <2>3, <2>5, <2>6, <2>7, Zenon DEF PauseTimes, Recent
<1> QED
  BY <1>1, <1>2, <1>3, <1>4, <1>5, <1>6, <1>7, <1>8, <1>9, <1>10, <1>11 DEF Pause!Next

LEMMA PauseKeysStep ==
    ASSUME faults \in 0..MaxFaults, PauseTypes, PauseKeys, Pause!Next PROVE PauseKeys'
<1> USE BoundsAssumption DEF PauseTypes, PauseKeys, Completed, Pause!store, Pause!Flag, Pause!NoFault,
    Pause!Fault
<1>1. ASSUME NEW a \in Admins, NEW kind \in {"system_paused", "system_resumed"}, Pause!Begin(a, kind)
      PROVE PauseKeys'
<2>1. \A b \in Admins : Owed(admin[b].at) \subseteq Owed(admin'[b].at)
  BY <1>1 DEF Pause!Begin, Owed
<2>2. UNCHANGED <<keys, faults>>
  BY <1>1 DEF Pause!Begin
<2>3. \A b \in Admins : Completed(b) => Completed(b)'
  BY <2>1, <2>2
<2> QED
  BY <2>2, <2>3, Zenon DEF PauseKeys, Pause!Flag
<1>2. ASSUME NEW a \in Admins, Pause!SetKey(a) PROVE PauseKeys'
<2>0. PICK key, next : Writes(a, key, next)
  BY <1>2, SetKeyWrites
<2>1. UNCHANGED faults
  BY <1>2, Zenon DEF Pause!SetKey, Pause!NoFault
<2>2. \A b \in Admins : Owed(admin[b].at) \subseteq Owed(admin'[b].at) \cup keys'
  BY <2>0 DEF Writes, Owed
<2>3. CASE key = "paused"
<3>1. Completed(a)'
  BY <2>0, <2>3 DEF Writes, Owed
<3> QED
  BY <3>1
<2>4. CASE key # "paused"
<3>1. Pause!Flag' = Pause!Flag
  BY <2>0, <2>4 DEF Writes
<3> QED
  BY <2>0, <2>1, <2>2, <3>1 DEF Writes
<2> QED
  BY <2>3, <2>4
<1>3. ASSUME NEW a \in Admins, Pause!DeleteKeys(a) PROVE PauseKeys'
  BY <1>3 DEF Pause!DeleteKeys
<1>4. ASSUME NEW a \in Admins, Pause!Audited(a) PROVE PauseKeys'
<2>1. \A b \in Admins : Owed(admin[b].at) \subseteq Owed(admin'[b].at)
  BY <1>4 DEF Pause!Audited, Pause!Idle, Owed
<2>2. \A b \in Admins : Completed(b) => Completed(b)'
  BY <1>4, <2>1 DEF Pause!Audited
<2>3. faults' = faults /\ Pause!Flag' = Pause!Flag
  BY <1>4 DEF Pause!Audited
<2> HIDE DEF Completed, Pause!Flag
<2> QED
  BY <2>2, <2>3
<1>5. ASSUME NEW a \in Admins, Pause!RequestFails(a) PROVE PauseKeys'
  BY <1>5 DEF Pause!RequestFails
<1>6. ASSUME Budget, UNCHANGED <<keys, admin>> PROVE PauseKeys'
  BY <1>6 DEF Budget
<1> QED
<2>1. Budget
  BY EachWithinBudget
<2>2. \/ \E a \in Admins :
           \/ \E kind \in {"system_paused", "system_resumed"} : Pause!Begin(a, kind)
           \/ Pause!SetKey(a) \/ Pause!DeleteKeys(a) \/ Pause!Audited(a) \/ Pause!RequestFails(a)
      \/ UNCHANGED <<keys, admin>>
  BY Zenon DEF Pause!Next, Pause!Tick, Pause!Hit, Pause!Miss, Pause!Served, Pause!Return,
               Pause!FailOpen, Pause!store
<2> QED
  BY <1>1, <1>2, <1>3, <1>4, <1>5, <1>6, <2>1, <2>2

PauseInv == PauseTypes /\ PauseTimes /\ PauseKeys

LEMMA PauseStart == ASSUME Pause!Init PROVE PauseInv
<1> USE BoundsAssumption, CacheAssumption DEF Pause!Init, Pause!Empty, Pause!Idle, Pause!Away
<1>1. PauseTypes
  BY DEF PauseTypes, Answers
<1>2. PauseTimes
  BY DEF PauseTimes, Pause!Flag
<1>3. PauseKeys
  BY DEF PauseKeys, Pause!Flag
<1> QED
  BY <1>1, <1>2, <1>3 DEF PauseInv

LEMMA PauseKept ==
    ASSUME faults \in 0..MaxFaults, PauseInv, [Next]_allVars PROVE  PauseInv'
<1>1. CASE Pause!Next
  BY <1>1, PauseTypesStep, PauseTimesStep, PauseKeysStep DEF PauseInv
<1>2. CASE UNCHANGED pauseOnly
<2>1. PauseTypes'
  BY <1>2 DEF PauseInv, PauseTypes, pauseOnly
<2>2. PauseTimes'
  BY <1>2 DEF PauseInv, PauseTimes, Recent, Pause!Flag, pauseOnly
<2>3. PauseKeys'
<3>1. Budget
  BY WithinBudget
<3> QED
  BY <1>2, <3>1, BoundsAssumption
     DEF PauseInv, PauseKeys, Completed, Pause!Flag, pauseOnly, Budget
<2> QED
  BY <2>1, <2>2, <2>3 DEF PauseInv
<1> QED
  BY <1>1, <1>2 DEF Next, allVars

\* A flip of the pause switch takes effect within the cache's lifetime, and a set
\* flag is attributed once its calls are over (pause_state).
THEOREM PauseTakesEffect == Spec => []PauseHonest
<1>1. Init => PauseInv
  BY PauseStart DEF Init
<1>2. faults \in 0..MaxFaults /\ PauseInv /\ [Next]_allVars => PauseInv'
  BY PauseKept
<1>3. PauseInv => PauseHonest
<2> SUFFICES ASSUME PauseInv PROVE PauseHonest
  OBVIOUS
<2>1. Pause!FlipWithinTTL
  BY DEF PauseInv, PauseTimes, Pause!FlipWithinTTL
<2>2. Pause!PauseAttributed
<3> SUFFICES ASSUME Pause!Flag, faults = 0, \A a \in Admins : admin[a].at = "idle"
             PROVE  keys = {"paused", "since", "by", "reason"}
  BY DEF Pause!PauseAttributed
<3>1. PICK a \in Admins : {"since", "by", "reason"} \subseteq keys
  BY DEF PauseInv, PauseKeys, Completed, Owed
<3> QED
  BY <3>1 DEF PauseInv, PauseTypes, Pause!Flag
<2> QED
  BY <2>1, <2>2 DEF PauseHonest
<1> QED
  BY <1>1, <1>2, <1>3, FaultsBounded, PTL DEF Spec
=============================================================================
