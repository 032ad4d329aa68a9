---------------------------- MODULE TradingMode ----------------------------
(***************************************************************************)
(* Who may trade how.  A user's trading mode rises when the promotion      *)
(* gates pass, by the user's own request with a TOTP code or by the daily  *)
(* auto-promotion, and falls on request.  Kill-switch settings are patched *)
(* through the same API.  Every writer reads first and writes later, and   *)
(* nothing locks the row in between.                                       *)
(***************************************************************************)
EXTENDS Integers, FiniteSets

CONSTANTS
    Calls,       \* concurrent API requests
    MaxDay,      \* bound on the days
    Streak,      \* AUTO_PROMOTE_CONSECUTIVE_DAYS
    Window,      \* days of history each target is judged on
    MinTrades,   \* closed trades each target needs
    MaxRequests  \* bound on the requests

Modes == {"manual", "telegram-approve", "fully-auto"}
Targets == Modes \ {"manual"}
Rank == [m \in Modes |-> CASE m = "manual" -> 0
                           [] m = "telegram-approve" -> 1 [] OTHER -> 2]
IsUpgrade(old, new) == Rank[new] > Rank[old]

VARIABLES
    mode,        \* users.trading_mode
    day, closed, \* closed[d]: how the shadow trades closed on day d went
    call,        \* call[r]: the request's locals
    daily,        \* the locals of the day's evaluation
    switch,      \* the kill_switch_state row: "none", or whether it is enabled
    confirmed,   \* a disable of the switch was once confirmed by TOTP
    requests

history == <<day, closed>>
switches == <<switch, confirmed>>
vars == <<mode, history, call, daily, switches, requests>>

Idle == [at |-> "idle", new |-> "manual", old |-> "manual", gates |-> {}]
Awake == [at |-> "tick", target |-> "manual", old |-> "manual"]

Init ==
    /\ mode = "manual"
    /\ day = 1 /\ closed \in [{1} -> {"none", "good", "bad"}]
    /\ call = [r \in Calls |-> Idle] /\ daily = Awake
    /\ switch = "none" /\ confirmed = FALSE
    /\ requests = 0

-----------------------------------------------------------------------------
(* The gates.  Trade count and window stay; Sharpe, drawdown, win rate and
   profit factor are one verdict on the window, failed by a bad day. *)

\* compute_gates_from_db, asked on the day `today` about the day `now`: its
\* window has a lower bound, and no upper one.
Since(today, now, window) == {d \in 1..today : d + window > now}
Trades(days, outcome) == Cardinality({d \in days : closed[d] = outcome})

\* span_days is the window asked for.
CheckThresholds(target, today, now, window) ==
    /\ window >= Window[target]
    /\ Trades(Since(today, now, window), "good") >= MinTrades[target]
    /\ Trades(Since(today, now, window), "bad") = 0

\* The default window of the API path, for every target.
UserGates(today) ==
    {t \in Targets : CheckThresholds(t, today, today, Window["telegram-approve"])}

Day ==
    /\ day < MaxDay /\ daily.at = "done"
    /\ day' = day + 1 /\ daily' = Awake
    /\ \E outcome \in {"none", "good", "bad"} :
           closed' = [d \in 1..day + 1 |-> IF d > day THEN outcome ELSE closed[d]]
    /\ UNCHANGED <<mode, call, switches, requests>>

-----------------------------------------------------------------------------
(* set_mode: read, check, write; the UPDATE and the audit row commit as one. *)

MUT_Refused(old, new, gates) == FALSE
Refused(old, new, gates) == IsUpgrade(old, new) /\ new \notin gates

-----------------------------------------------------------------------------
(* change_trading_mode. *)

Asked == requests < MaxRequests /\ requests' = requests + 1

\* TOTP and gates are asked for when the mode read here would rise.
ChangeMode(r) ==
    /\ call[r].at = "idle" /\ Asked
    /\ \E new \in Modes, totp \in BOOLEAN :
         call' = [call EXCEPT ![r] =
             IF IsUpgrade(mode, new) /\ ~totp THEN Idle
             ELSE [at |-> "set", new |-> new, old |-> mode,
                   gates |-> IF IsUpgrade(mode, new) THEN UserGates(day) ELSE {}]]
    /\ UNCHANGED <<mode, history, daily, switches>>

SetMode(r) ==
    /\ call[r].at = "set"
    /\ call' = [call EXCEPT ![r] =
           IF Refused(mode, call[r].new, call[r].gates) THEN Idle
           ELSE [@ EXCEPT !.at = "write", !.old = mode]]
    /\ UNCHANGED <<mode, history, daily, switches, requests>>

CommitMode(r) ==
    /\ call[r].at = "write" /\ call' = [call EXCEPT ![r] = Idle]
    /\ mode' = call[r].new
    /\ UNCHANGED <<history, daily, switches, requests>>

-----------------------------------------------------------------------------
(* evaluate_user, once a day. *)

NextTarget(current) ==
    IF current = "manual" THEN "telegram-approve" ELSE "fully-auto"

\* Every one of the last days is judged, each on its own window.
Passed(target, today) ==
    \A offset \in 0..Streak - 1 :
        CheckThresholds(target, today, today - offset, Window[target])

Evaluate ==
    /\ daily.at = "tick"
    /\ daily' = IF mode # "fully-auto" /\ Passed(NextTarget(mode), day)
               THEN [Awake EXCEPT !.at = "set", !.target = NextTarget(mode)]
               ELSE [Awake EXCEPT !.at = "done"]
    /\ UNCHANGED <<mode, history, call, switches, requests>>

\* set_mode reads the mode again.
TaskReads ==
    /\ daily.at = "set"
    /\ daily' = [daily EXCEPT !.at = "write", !.old = mode]
    /\ UNCHANGED <<mode, history, call, switches, requests>>

TaskWrites ==
    /\ daily.at = "write" /\ daily' = [Awake EXCEPT !.at = "done"]
    /\ mode' = daily.target
    /\ UNCHANGED <<history, call, switches, requests>>

-----------------------------------------------------------------------------
(* patch_me_kill_switch. *)

On == switch # "off"
Value(enabled) == IF enabled THEN "on" ELSE "off"

\* "on", "off", or only a threshold, which keeps what the row said.
MUT_Allowed(body, totp) == TRUE
Allowed(body, totp) == body = "off" => totp

PatchSwitch(r) ==
    /\ call[r].at = "idle" /\ Asked
    /\ \E body \in {"on", "off", "threshold"}, totp \in BOOLEAN :
         /\ Allowed(body, totp)
         /\ call' = [call EXCEPT ![r] =
                [at |-> IF switch = "none" THEN "insert" ELSE "update",
                 new |-> IF body = "threshold" THEN Value(On) ELSE body,
                 old |-> "manual", gates |-> {}]]
         /\ confirmed' = (confirmed \/ (body = "off" /\ totp))
    /\ UNCHANGED <<mode, history, daily, switch>>

\* A second INSERT is refused by the key and the request fails.
CommitSwitch(r) ==
    /\ call[r].at \in {"insert", "update"} /\ call' = [call EXCEPT ![r] = Idle]
    /\ switch' = IF call[r].at = "insert" /\ switch # "none" THEN switch
                 ELSE call[r].new
    /\ UNCHANGED <<mode, history, daily, confirmed, requests>>

Request(r) == SetMode(r) \/ CommitMode(r) \/ CommitSwitch(r)
Task == Evaluate \/ TaskReads \/ TaskWrites

Next ==
    \/ Day \/ Task
    \/ \E r \in Calls : ChangeMode(r) \/ PatchSwitch(r) \/ Request(r)

Spec == Init /\ [][Next]_vars
FairSpec == Spec /\ WF_vars(Task) /\ \A r \in Calls : WF_vars(Request(r))

-----------------------------------------------------------------------------
TypeOK ==
    /\ mode \in Modes
    /\ day \in 1..MaxDay /\ DOMAIN closed = 1..day
    /\ \A r \in Calls :
           call[r].at \in {"idle", "set", "write", "insert", "update"}
    /\ daily.at \in {"tick", "set", "write", "done"}
    /\ daily.target \in Modes /\ switch \in {"none", "on", "off"}
    /\ requests \in 0..MaxRequests

\* Something in the trade history up to some day let the mode pass its gates:
\* the API's, or every day of a streak of the daily task's.
Merited(m) ==
    m = "manual" \/ \E d \in 1..day : m \in UserGates(d) \/ Passed(m, d)

\* However requests and the daily task interleave, and although a write may
\* overwrite a newer one, the mode is one whose gates the trade history passed
\* on some day: a stale write can bring back a mode, never one not earned.
EarnedModes == Merited(mode)

\* A kill switch is off only if its owner has confirmed a disable by TOTP at
\* some time: the threshold-only path keeps what it read, which may be stale.
SwitchOffWasConfirmed == switch = "off" => confirmed
=============================================================================
