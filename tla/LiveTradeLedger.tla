-------------------------- MODULE LiveTradeLedger --------------------------
(***************************************************************************)
(* What the live_trades table promises to its readers (the position gate,  *)
(* the context builder, the dashboards): the life of one row, whoever      *)
(* writes it.                                                              *)
(*                                                                         *)
(* A row is inserted 'pending' by the placement that owns it.  While that  *)
(* placement is running it alone may change its mind; the reconciler may   *)
(* resolve a row exactly once, out of 'pending'.  When nobody owns a       *)
(* resolved row its status is final.  An exit is recorded on a row that    *)
(* was opened, and is never taken back.                                    *)
(***************************************************************************)

CONSTANTS Trades   \* the rows of live_trades the model may create

VARIABLES
    row,     \* row[t]: the status column, "absent" before the INSERT
    exited,  \* exited[t]: closed_at is not NULL
    owned    \* the rows whose placement coroutine is still running

ledgerVars == <<row, exited, owned>>

Resolved == {"open", "failed"}

Init ==
    /\ row = [t \in Trades |-> "absent"]
    /\ exited = [t \in Trades |-> FALSE]
    /\ owned = {}

\* A placement begins; no row exists yet.
Begin(t) ==
    /\ row[t] = "absent"
    /\ owned' = owned \cup {t}
    /\ UNCHANGED <<row, exited>>

\* Phase 1: the owner inserts its row.
Insert(t) ==
    /\ t \in owned
    /\ row[t] = "absent"
    /\ row' = [row EXCEPT ![t] = "pending"]
    /\ UNCHANGED <<exited, owned>>

\* Phase 3: the owner writes the outcome and is done with the row.
Decide(t) ==
    /\ t \in owned
    /\ row[t] # "absent"
    /\ \E s \in Resolved : row' = [row EXCEPT ![t] = s]
    /\ owned' = owned \ {t}
    /\ UNCHANGED exited

\* One owner gives up, or all of them die with the process.
Abandon ==
    /\ \E S \in SUBSET owned : owned' = owned \ S
    /\ UNCHANGED <<row, exited>>

\* Somebody else may resolve a row only out of 'pending'.
Reconcile(t) ==
    /\ row[t] = "pending"
    /\ \E s \in Resolved : row' = [row EXCEPT ![t] = s]
    /\ UNCHANGED <<exited, owned>>

\* One transaction records the exits of some resolved rows.
Exit ==
    /\ \E S \in SUBSET {t \in Trades : row[t] \in Resolved} :
           exited' = [t \in Trades |-> exited[t] \/ t \in S]
    /\ UNCHANGED <<row, owned>>

Next ==
    \/ \E t \in Trades : Begin(t) \/ Insert(t) \/ Decide(t) \/ Reconcile(t)
    \/ Abandon
    \/ Exit

Spec == Init /\ [][Next]_ledgerVars
----------------------------------------------------------------------------
TypeOK ==
    /\ row \in [Trades -> {"absent", "pending", "open", "failed"}]
    /\ exited \in [Trades -> BOOLEAN]
    /\ owned \subseteq Trades
============================================================================
