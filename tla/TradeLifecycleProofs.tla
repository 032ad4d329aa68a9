------------------------ MODULE TradeLifecycleProofs ------------------------
(***************************************************************************)
(* Proofs about TradeLifecycle for every set of trades, symbols and tasks  *)
(* and every bound on the faults.                                          *)
(***************************************************************************)
EXTENDS TradeLifecycle, TLAPS

USE TradeConstants DEF Position

\* Every reachable state is well typed, whatever the constants.
LEMMA TypeInit == Init => TypeOK
<1> SUFFICES ASSUME Init PROVE TypeOK  OBVIOUS
<1>1. "none" \in Failures  BY DEF Failures
<1>2. faults \in 0 .. MaxFaults  BY DEF Init
<1> QED  BY <1>1, <1>2 DEF Init, TypeOK

\* Each step of a placement keeps the types.
LEMMA TypePlace == ASSUME TypeOK, NEW t \in Trades, Begin(t) \/ Advance(t)
                   PROVE TypeOK'
<1> USE DEF TypeOK, rowVars, exchVars, monVars, liqVars, Goto, NoFault, Fault,
            Running, Finished
<1>1. CASE Begin(t)  BY <1>1 DEF Begin
<1>2. CASE Gate(t)  BY <1>2 DEF Gate
<1>3. CASE Insert(t)  BY <1>3 DEF Insert
<1>4. CASE Drift(t)  BY <1>4 DEF Drift, WriteFailed, Failures
<1>5. CASE Entry(t)  BY <1>5 DEF Entry
<1>6. CASE PlaceStopLoss(t)  BY <1>6 DEF PlaceStopLoss, ProtectiveOrder
<1>7. CASE PlaceTakeProfit(t)  BY <1>7 DEF PlaceTakeProfit, ProtectiveOrder
<1>8. CASE CancelStopLoss(t)  BY <1>8 DEF CancelStopLoss
<1>9. CASE EmergencyClose(t)  BY <1>9 DEF EmergencyClose, Flatten
<1>10. CASE RecordFailure(t)  BY <1>10 DEF RecordFailure, WriteFailed, Failures
<1>11. CASE RecordOpen(t)  BY <1>11 DEF RecordOpen
<1>12. CASE Escape(t)  BY <1>12 DEF Escape
<1> QED  BY <1>1, <1>2, <1>3, <1>4, <1>5, <1>6, <1>7, <1>8, <1>9, <1>10, <1>11,
            <1>12 DEF Advance

\* So does each step of the exit monitor.
LEMMA TypeExitMonitor == ASSUME TypeOK, ExitMonitor PROVE TypeOK'
<1> USE DEF TypeOK, rowVars, exchVars, monVars, liqVars, NoFault, Fault,
            NothingInHand
<1>1. CASE ReconcileScan  BY <1>1 DEF ReconcileScan, StalePending
<1>2. CASE ReconcileWrite  
  <2>1. "none" \in Failures /\ "reconciler" \in Failures  BY DEF Failures
  <2>2. faults' \in 0 .. MaxFaults  BY <1>2 DEF ReconcileWrite
  <2>3. monCur \in Trades  BY <1>2 DEF ReconcileWrite
  <2>4. /\ status' \in [Trades -> {"absent", "pending", "open", "failed"}]
        /\ failure' \in [Trades -> Failures]
    BY <1>2, <2>1, <2>3 DEF ReconcileWrite
  <2> QED  BY <1>2, <2>2, <2>4 DEF ReconcileWrite
<1>3. CASE ExitScan  BY <1>3 DEF ExitScan, OpenRows
<1>4. CASE ExitClassify  
  <2>1. \A r \in ExitOutcomes(monCur) : r \in Reasons \cup {NoReason}
    BY DEF ExitOutcomes, Reasons, NoReason
  <2>2. monCur \in Trades  BY <1>4 DEF ExitClassify
  <2>3. buf' \in [Trades -> Reasons \cup {NoReason}]
    BY <1>4, <2>1, <2>2 DEF ExitClassify
  <2>4. cbuf' \in [Symbols -> Reasons \cup {NoReason}]
    BY <1>4, <2>1, <2>2 DEF ExitClassify
  <2> QED  BY <1>4, <2>3, <2>4 DEF ExitClassify
<1>5. CASE ExitCommit  
  <2>1. faults' \in 0 .. MaxFaults  BY <1>5 DEF ExitCommit
  <2>2. closedAt' \in [Trades -> BOOLEAN]
    BY <1>5 DEF ExitCommit
  <2>3. exitReason' \in [Trades -> Reasons \cup {NoReason}]
    BY <1>5 DEF ExitCommit
  <2>4. cooldown' \in [Symbols -> Reasons \cup {NoReason}]
    BY <1>5 DEF ExitCommit
  <2>5. /\ buf' \in [Trades -> Reasons \cup {NoReason}]
        /\ cbuf' \in [Symbols -> Reasons \cup {NoReason}]
    BY <1>5 DEF ExitCommit, NoBuffer
  <2> QED  BY <1>5, <2>1, <2>2, <2>3, <2>4, <2>5 DEF ExitCommit
<1>6. CASE \E t \in Trades : MonitorRead(t)  
  <2> PICK t \in Trades : MonitorRead(t)  BY <1>6
  <2>1. faults' \in 0 .. MaxFaults  BY DEF MonitorRead
  <2>2. /\ monTodo' \subseteq Trades
        /\ monCur' \in Trades \cup {NoTrade}
        /\ monPos' \in BOOLEAN
    BY DEF MonitorRead
  <2> QED  BY <2>1, <2>2 DEF MonitorRead
<1> QED  BY <1>1, <1>2, <1>3, <1>4, <1>5, <1>6 DEF ExitMonitor

\* And every other step.
LEMMA TypeOthers ==
    ASSUME TypeOK,
           \/ LiquidationMonitor
           \/ \E s \in Symbols : ExternalClose(s)
           \/ \E t \in Trades : Grow(t)
           \/ Crash
           \/ UNCHANGED vars
    PROVE TypeOK'
<1> USE DEF TypeOK, rowVars, exchVars, monVars, liqVars, NoFault, Fault
<1>1. CASE LiquidationScan  BY <1>1 DEF LiquidationScan, OpenRows
<1>2. CASE LiquidationWrite  
  <2>1. "liquidation_buffer_breach" \in Reasons  BY DEF Reasons
  <2>2. faults' \in 0 .. MaxFaults  BY <1>2 DEF LiquidationWrite
  <2>3. liqCur \in Trades  BY <1>2 DEF LiquidationWrite
  <2>4. closedAt' \in [Trades -> BOOLEAN]  BY <1>2, <2>3 DEF LiquidationWrite
  <2>5. exitReason' \in [Trades -> Reasons \cup {NoReason}]
    BY <1>2, <2>1, <2>3 DEF LiquidationWrite
  <2>6. cooldown' \in [Symbols -> Reasons \cup {NoReason}]
    BY <1>2, <2>1, <2>3 DEF LiquidationWrite
  <2> QED  BY <1>2, <2>2, <2>4, <2>5, <2>6 DEF LiquidationWrite
<1>3. CASE \E t \in Trades : LiquidationEvaluate(t)
  BY <1>3 DEF LiquidationEvaluate, Flatten
<1>4. CASE \E s \in Symbols : ExternalClose(s)  BY <1>4 DEF ExternalClose, Flatten
<1>5. CASE \E t \in Trades : Grow(t)  BY <1>5 DEF Grow
<1>6. CASE Crash  
  <2>1. pc' \in [Trades -> {"idle"} \cup Running \cup Finished]
    BY <1>6 DEF Crash, Finished
  <2>2. faults' \in 0 .. MaxFaults  BY <1>6 DEF Crash
  <2>3. /\ buf' \in [Trades -> Reasons \cup {NoReason}]
        /\ cbuf' \in [Symbols -> Reasons \cup {NoReason}]
    BY <1>6 DEF Crash, NoBuffer
  <2> QED  BY <1>6, <2>1, <2>2, <2>3 DEF Crash, NothingInHand
<1>7. CASE UNCHANGED vars  BY <1>7 DEF vars
<1> QED  BY <1>1, <1>2, <1>3, <1>4, <1>5, <1>6, <1>7 DEF LiquidationMonitor

\* No step leaves the types.
LEMMA TypeNext == TypeOK /\ [Next]_vars => TypeOK'
BY TypePlace, TypeExitMonitor, TypeOthers DEF Next

\* TypeOK holds in every reachable state: the monitors' work lists and their
\* uncommitted updates name only trades, symbols and reasons that exist.
THEOREM TypeCorrect == Spec => []TypeOK
<1> QED  BY TypeInit, TypeNext, PTL DEF Spec

----------------------------------------------------------------------------
(* The inductive invariant *)

\* No placement has started: nothing is held, no row exists.
LEMMA CoherentInit == Init => Coherent
BY DEF Init, Coherent, EntryHasRow, NothingBeforeInsert, RowAfterInsert, FlatUntilEntry, MaskedIsFailed, ArmedOneByOne, NoSilentNakedPosition, GhostIsFinal, ArmedRowsStayOpen, ArmedIsFinal, MonitorsHoldResolved,
            LockedIsNotExited, RowLocked, Running, Finished, NoReason

\* Each step of a placement keeps its place, row and share of the account
\* in agreement, and does not touch those of another.
LEMMA CoherentPlace ==
    ASSUME TypeOK, Coherent, NEW t \in Trades, Begin(t) \/ Advance(t)
    PROVE Coherent'
<1> USE DEF TypeOK, Coherent, EntryHasRow, NothingBeforeInsert, RowAfterInsert, FlatUntilEntry, MaskedIsFailed, ArmedOneByOne, NoSilentNakedPosition, GhostIsFinal, ArmedRowsStayOpen, ArmedIsFinal, MonitorsHoldResolved,
            LockedIsNotExited, RowLocked,
            Protected, Running, Finished, rowVars, exchVars, monVars, liqVars, Goto
<1>1. CASE Begin(t)  BY <1>1 DEF Begin
<1>2. CASE Gate(t)  BY <1>2 DEF Gate
<1>3. CASE Insert(t)  BY <1>3 DEF Insert
<1>4. CASE Drift(t)
  <2>1. CASE WriteFailed(t, "stale_price")  BY <1>4, <2>1 DEF Drift, WriteFailed
  <2>2. CASE Goto(t, "entry") /\ UNCHANGED rowVars  BY <1>4, <2>2 DEF Drift
  <2> QED  BY <1>4, <2>1, <2>2 DEF Drift
<1>5. CASE Entry(t)  BY <1>5 DEF Entry
<1>6. CASE PlaceStopLoss(t)  BY <1>6 DEF PlaceStopLoss, ProtectiveOrder
<1>7. CASE PlaceTakeProfit(t)  BY <1>7 DEF PlaceTakeProfit, ProtectiveOrder
<1>8. CASE CancelStopLoss(t)  BY <1>8 DEF CancelStopLoss
<1>9. CASE EmergencyClose(t)  BY <1>9, SMTT(30) DEF EmergencyClose, Flatten
<1>10. CASE RecordFailure(t)  BY <1>10 DEF RecordFailure, WriteFailed
<1>11. CASE RecordOpen(t)  BY <1>11 DEF RecordOpen
<1>12. CASE Escape(t)  BY <1>12 DEF Escape
<1> QED  BY <1>1, <1>2, <1>3, <1>4, <1>5, <1>6, <1>7, <1>8, <1>9, <1>10, <1>11, <1>12 DEF Advance

\* The exit monitor resolves only rows that are pending, and takes in hand
\* for an exit only rows that are resolved.
LEMMA CoherentExitMonitor ==
    ASSUME TypeOK, Coherent, ExitMonitor
    PROVE Coherent'
<1> USE DEF TypeOK, Coherent, EntryHasRow, NothingBeforeInsert, RowAfterInsert, FlatUntilEntry, MaskedIsFailed, ArmedOneByOne,
            NoSilentNakedPosition, GhostIsFinal, ArmedRowsStayOpen, ArmedIsFinal, MonitorsHoldResolved,
            LockedIsNotExited, RowLocked,
            Protected, rowVars, exchVars, monVars, liqVars
<1>1. CASE ReconcileScan  BY <1>1 DEF ReconcileScan
<1>2. CASE ReconcileWrite  BY <1>2 DEF ReconcileWrite, NothingInHand
<1>3. CASE ExitScan  BY <1>3 DEF ExitScan, OpenRows
<1>4. CASE ExitClassify  BY <1>4 DEF ExitClassify, NothingInHand
<1>5. CASE ExitCommit  BY <1>5 DEF ExitCommit, NoBuffer
<1>6. CASE \E t \in Trades : MonitorRead(t)  BY <1>6 DEF MonitorRead
<1> QED  BY <1>1, <1>2, <1>3, <1>4, <1>5, <1>6 DEF ExitMonitor

\* The liquidation monitor, the market, the clock and a crash only ever take
\* positions away, forget work in hand, or stop placements where they stand.
LEMMA CoherentOthers ==
    ASSUME TypeOK, Coherent,
           \/ LiquidationMonitor
           \/ \E s \in Symbols : ExternalClose(s)
           \/ \E t \in Trades : Grow(t)
           \/ Crash
           \/ UNCHANGED vars
    PROVE Coherent'
<1> USE DEF TypeOK, Coherent, EntryHasRow, NothingBeforeInsert, RowAfterInsert, FlatUntilEntry, MaskedIsFailed, ArmedOneByOne,
            NoSilentNakedPosition, GhostIsFinal, ArmedRowsStayOpen, ArmedIsFinal, MonitorsHoldResolved,
            LockedIsNotExited, RowLocked,
            Protected, rowVars, exchVars, monVars, liqVars
<1>1. CASE LiquidationScan  BY <1>1 DEF LiquidationScan, OpenRows
<1>2. CASE LiquidationWrite  BY <1>2 DEF LiquidationWrite
<1>3. CASE \E t \in Trades : LiquidationEvaluate(t)  BY <1>3 DEF LiquidationEvaluate, Flatten
<1>4. CASE \E s \in Symbols : ExternalClose(s)  BY <1>4 DEF ExternalClose, Flatten
<1>5. CASE \E t \in Trades : Grow(t)  BY <1>5 DEF Grow
<1>6. CASE Crash  BY <1>6 DEF Crash, NothingInHand, NoBuffer, Running, Finished
<1>7. CASE UNCHANGED vars  BY <1>7 DEF vars
<1> QED  BY <1>1, <1>2, <1>3, <1>4, <1>5, <1>6, <1>7 DEF LiquidationMonitor

\* The invariant is inductive.
LEMMA CoherentNext == TypeOK /\ Coherent /\ [Next]_vars => Coherent'
BY CoherentPlace, CoherentExitMonitor, CoherentOthers DEF Next

\* In every reachable state a placement's place in its protocol, its row, its
\* share of the account and what the monitors hold of it agree.
THEOREM AlwaysCoherent == Spec => []Coherent
BY TypeInit, TypeNext, CoherentInit, CoherentNext, PTL DEF Spec

\* No entry is ever on Binance without a committed row.
THEOREM RowBeforeEntry == Spec => []EntryHasRow
<1>1. Coherent => EntryHasRow  BY DEF Coherent
<1> QED  BY <1>1, AlwaysCoherent, PTL

\* A placement that returned left its entry protected, closed or reported, but
\* for an entry that was executed behind an error status.
THEOREM NoSilentNaked == Spec => []NoSilentNakedPosition
<1>1. Coherent => NoSilentNakedPosition  BY DEF Coherent
<1> QED  BY <1>1, AlwaysCoherent, PTL

\* A row with its protective orders recorded stays open.
THEOREM ArmedStayOpen == Spec => []ArmedRowsStayOpen
<1>1. Coherent => ArmedRowsStayOpen  BY DEF Coherent
<1> QED  BY <1>1, AlwaysCoherent, PTL

----------------------------------------------------------------------------
(* Exits *)

\* No step takes an exit back or replaces its reason, but for the liquidation
\* monitor's overwrite.
LEMMA ExitStep ==
    ASSUME TypeOK, Coherent, [Next]_vars, NEW t \in Trades, closedAt[t]
    PROVE closedAt'[t] /\ exitReason'[t] \in {exitReason[t], "liquidation_buffer_breach"}
<1> DEFINE Kept == closedAt' = closedAt /\ exitReason' = exitReason
<1> USE DEF TypeOK, rowVars
<1>1. CASE ExitCommit
  BY <1>1 DEF ExitCommit, Coherent, LockedIsNotExited
<1>2. CASE LiquidationWrite
  BY <1>2 DEF LiquidationWrite
<1>3. ASSUME NEW u \in Trades, Begin(u) \/ Advance(u) PROVE Kept
  BY <1>3 DEF Begin, Advance, Gate, Insert, Drift, Entry, PlaceStopLoss,
     PlaceTakeProfit, ProtectiveOrder, CancelStopLoss, EmergencyClose,
     RecordFailure, WriteFailed, RecordOpen, Escape
<1>4. CASE ReconcileScan \/ ReconcileWrite \/ ExitScan \/ ExitClassify
           \/ \E u \in Trades : MonitorRead(u)
  <2>1. Kept
    BY <1>4 DEF ReconcileScan, ReconcileWrite, ExitScan, ExitClassify, MonitorRead
  <2> QED  BY <2>1
<1>5. CASE \/ LiquidationScan \/ \E u \in Trades : LiquidationEvaluate(u) \/ Grow(u)
           \/ \E s \in Symbols : ExternalClose(s)
           \/ Crash
           \/ UNCHANGED vars
  <2>1. Kept
    BY <1>5 DEF LiquidationScan, LiquidationEvaluate, Grow, ExternalClose, Crash, vars
  <2> QED  BY <2>1
<1> QED  BY <1>1, <1>2, <1>3, <1>4, <1>5 DEF Next, ExitMonitor, LiquidationMonitor

\* Whatever the monitors read before, a recorded exit stays recorded.
THEOREM ExitsRecordedOnce == Spec => ExitRecordedOnce
<1>1. TypeOK /\ Coherent /\ [Next]_vars =>
        [\A t \in Trades : closedAt[t] =>
            /\ closedAt'[t]
            /\ exitReason'[t] \in {exitReason[t], "liquidation_buffer_breach"}]_vars
  BY ExitStep
<1> QED  BY <1>1, TypeCorrect, AlwaysCoherent, PTL DEF Spec, ExitRecordedOnce

----------------------------------------------------------------------------
(* Refinement *)

\* The placements whose coroutine is running own their rows.
Owned == {t \in Trades : pc[t] \in Running}

\* A step of a placement is a step of the ledger by the owner of the row.
LEMMA LedgerPlace ==
    ASSUME TypeOK, Coherent, NEW t \in Trades, Begin(t) \/ Advance(t)
    PROVE Ledger!Next \/ UNCHANGED <<status, closedAt, Owned>>
<1> USE DEF TypeOK, Goto, rowVars, Owned
<1>1. closedAt' = closedAt
  BY DEF Begin, Advance, Gate, Insert, Drift, Entry, PlaceStopLoss,
     PlaceTakeProfit, ProtectiveOrder, CancelStopLoss, EmergencyClose,
     RecordFailure, WriteFailed, RecordOpen, Escape
\* Leaving the row alone, a running placement goes on or gives its row up.
<1>2. ASSUME t \in Owned, status' = status, NEW where, Goto(t, where)
      PROVE Ledger!Next \/ UNCHANGED <<status, closedAt, Owned>>
  <2>1. CASE where \in Running
    <3>1. Owned' = Owned  BY <1>2, <2>1
    <3> QED  BY <3>1, <1>1, <1>2
  <2>2. CASE where \notin Running
    <3>1. Owned' = Owned \ {t}  BY <1>2, <2>2
    <3>2. Ledger!Abandon  BY <3>1, <1>1, <1>2 DEF Ledger!Abandon
    <3> QED  BY <3>2 DEF Ledger!Next
  <2> QED  BY <2>1, <2>2
\* Its outcome UPDATE decides the row.
<1>3. ASSUME t \in Owned, status[t] # "absent", Goto(t, "done"),
             NEW outcome \in {"open", "failed"},
             status' = [status EXCEPT ![t] = outcome]
      PROVE Ledger!Next
  <2>1. Owned' = Owned \ {t}  BY <1>3 DEF Running
  <2>2. Ledger!Decide(t)  BY <2>1, <1>1, <1>3 DEF Ledger!Decide, Ledger!Resolved
  <2> QED  BY <2>2 DEF Ledger!Next
<1>4. CASE Begin(t)
  <2>1. status[t] = "absent" /\ status' = status
    BY <1>4 DEF Begin, Coherent, NothingBeforeInsert
  <2>2. CASE Goto(t, "gate")
    <3>1. Owned' = Owned \cup {t}  BY <2>2 DEF Running
    <3>2. Ledger!Begin(t)  BY <2>1, <3>1, <1>1 DEF Ledger!Begin
    <3> QED  BY <3>2 DEF Ledger!Next
  <2>3. CASE Goto(t, "done")
    <3>1. Owned' = Owned  BY <1>4, <2>3 DEF Begin, Running
    <3> QED  BY <2>1, <3>1, <1>1
  <2> QED  BY <1>4, <2>2, <2>3 DEF Begin
<1>5. CASE Insert(t)
  <2>1. t \in Owned /\ status[t] = "absent"
    BY <1>5 DEF Insert, Running, Coherent, NothingBeforeInsert
  <2>2. CASE status' = status
    BY <1>2, <1>5, <2>1, <2>2 DEF Insert
  <2>3. CASE status' = [status EXCEPT ![t] = "pending"]
    <3>1. Owned' = Owned  BY <1>5, <2>1, <2>3 DEF Insert, Running
    <3>2. Ledger!Insert(t)  BY <1>1, <2>1, <2>3, <3>1 DEF Ledger!Insert
    <3> QED  BY <3>2 DEF Ledger!Next
  <2> QED  BY <1>5, <2>2, <2>3 DEF Insert
<1>6. ASSUME t \in Owned, pc[t] \notin {"gate", "insert"}, NEW why, WriteFailed(t, why)
      PROVE Ledger!Next
  BY <1>3, <1>6 DEF WriteFailed, Coherent, RowAfterInsert
<1>7. CASE Drift(t)
  <2>1. t \in Owned /\ pc[t] \notin {"gate", "insert"}  BY <1>7 DEF Drift, Running
  <2>2. CASE WriteFailed(t, "stale_price")  BY <1>6, <2>1, <2>2
  <2>3. CASE Goto(t, "entry") /\ status' = status  BY <1>2, <2>1, <2>3
  <2> QED  BY <1>7, <2>2, <2>3 DEF Drift
<1>8. CASE RecordFailure(t)
  <2>1. t \in Owned /\ pc[t] \notin {"gate", "insert"}
    BY <1>8 DEF RecordFailure, Running
  <2> QED  BY <1>6, <1>8, <2>1 DEF RecordFailure
<1>9. CASE RecordOpen(t)
  <2>1. t \in Owned /\ status[t] # "absent"
    BY <1>9 DEF RecordOpen, Running, Coherent, RowAfterInsert
  <2> QED  BY <1>3, <1>9, <2>1 DEF RecordOpen
<1>10. CASE \/ Gate(t) \/ Entry(t) \/ PlaceStopLoss(t) \/ PlaceTakeProfit(t)
            \/ CancelStopLoss(t) \/ EmergencyClose(t) \/ Escape(t)
  <2>1. t \in Owned /\ status' = status
    BY <1>10 DEF Gate, Entry, PlaceStopLoss, PlaceTakeProfit, ProtectiveOrder,
       CancelStopLoss, EmergencyClose, Escape, Running
  <2>2. \E where : Goto(t, where)
    BY <1>10 DEF Gate, Entry, PlaceStopLoss, PlaceTakeProfit, ProtectiveOrder,
       CancelStopLoss, EmergencyClose, Escape
  <2> QED  BY <1>2, <2>1, <2>2
<1> QED  BY <1>4, <1>5, <1>7, <1>8, <1>9, <1>10 DEF Advance

\* Only resolved rows are given an exit.
LEMMA LedgerExit ==
    ASSUME TypeOK, UNCHANGED <<status, pc>>,
           \A t \in Trades : /\ closedAt'[t] \in BOOLEAN
                             /\ closedAt[t] => closedAt'[t]
                             /\ closedAt'[t] => closedAt[t] \/ status[t] \in {"open", "failed"},
           closedAt' \in [Trades -> BOOLEAN]
    PROVE Ledger!Next
<1> DEFINE S == {t \in Trades : closedAt'[t] /\ ~closedAt[t]}
<1>1. S \subseteq {t \in Trades : status[t] \in Ledger!Resolved}
  BY DEF Ledger!Resolved
<1>2. closedAt' = [t \in Trades |-> closedAt[t] \/ t \in S]
  BY DEF TypeOK
<1>3. Ledger!Exit  BY <1>1, <1>2 DEF Ledger!Exit
<1> QED  BY <1>3 DEF Ledger!Next

\* Every other step resolves a pending row, records exits, kills owners, or
\* leaves the table alone.
LEMMA LedgerOthers ==
    ASSUME TypeOK, Coherent, TypeOK',
           \/ ExitMonitor \/ LiquidationMonitor \/ Crash \/ UNCHANGED vars
           \/ \E s \in Symbols : ExternalClose(s)
           \/ \E t \in Trades : Grow(t)
    PROVE Ledger!Next \/ UNCHANGED <<status, closedAt, Owned>>
<1> USE DEF rowVars, Owned
<1>1. CASE ReconcileWrite
  <2>1. monCur \in Trades  BY <1>1 DEF ReconcileWrite, TypeOK
  <2>2. CASE status' = status  BY <1>1, <2>2 DEF ReconcileWrite
  <2>3. CASE status' # status
    <3>1. /\ status[monCur] = "pending"
          /\ \E r \in {"open", "failed"} : status' = [status EXCEPT ![monCur] = r]
      BY <1>1, <2>3 DEF ReconcileWrite
    <3>2. Ledger!Reconcile(monCur)
      BY <1>1, <3>1 DEF ReconcileWrite, Ledger!Reconcile, Ledger!Resolved
    <3> QED  BY <2>1, <3>2 DEF Ledger!Next
  <2> QED  BY <2>2, <2>3
<1>2. CASE ExitCommit
  <2>1. UNCHANGED <<status, pc>>  BY <1>2 DEF ExitCommit
  <2>2. \A t \in Trades : /\ closedAt'[t] \in BOOLEAN
                          /\ closedAt[t] => closedAt'[t]
                          /\ closedAt'[t] => closedAt[t] \/ status[t] \in {"open", "failed"}
    BY <1>2 DEF ExitCommit, Coherent, MonitorsHoldResolved, RowLocked, TypeOK
  <2> QED  BY <2>1, <2>2, LedgerExit DEF TypeOK
<1>3. CASE LiquidationWrite
  <2>1. UNCHANGED <<status, pc>>  BY <1>3 DEF LiquidationWrite
  <2>2. \A t \in Trades : /\ closedAt'[t] \in BOOLEAN
                          /\ closedAt[t] => closedAt'[t]
                          /\ closedAt'[t] => closedAt[t] \/ status[t] \in {"open", "failed"}
    BY <1>3 DEF LiquidationWrite, Coherent, MonitorsHoldResolved, TypeOK
  <2> QED  BY <2>1, <2>2, LedgerExit DEF TypeOK
<1>4. CASE Crash
  <2> DEFINE S == Owned
  <2>1. Owned' = Owned \ S  BY <1>4 DEF Crash, Running, TypeOK
  <2>2. Ledger!Abandon  BY <1>4, <2>1 DEF Crash, Ledger!Abandon
  <2> QED  BY <2>2 DEF Ledger!Next
<1>5. CASE \/ ReconcileScan \/ ExitScan \/ ExitClassify
           \/ \E t \in Trades : MonitorRead(t) \/ LiquidationEvaluate(t) \/ Grow(t)
           \/ LiquidationScan
           \/ \E s \in Symbols : ExternalClose(s)
           \/ UNCHANGED vars
  <2>1. UNCHANGED <<status, closedAt, pc>>
    BY <1>5 DEF ReconcileScan, ExitScan, ExitClassify, MonitorRead,
       LiquidationEvaluate, Grow, LiquidationScan, ExternalClose, vars
  <2> QED  BY <2>1
<1> QED  BY <1>1, <1>2, <1>3, <1>4, <1>5 DEF ExitMonitor, LiquidationMonitor

\* The whole system, crashes included, implements the promised life of a
\* live_trades row.
THEOREM LedgerImplemented == Spec => ImplementsLedger
<1>1. Init => Ledger!Init
  BY DEF Init, Ledger!Init, Running
<1>2. TypeOK /\ Coherent /\ [Next]_vars => [Ledger!Next]_(Ledger!ledgerVars)
  <2> SUFFICES ASSUME TypeOK, Coherent, [Next]_vars
               PROVE Ledger!Next \/ UNCHANGED Ledger!ledgerVars
    OBVIOUS
  <2>1. Ledger!Next \/ UNCHANGED <<status, closedAt, Owned>>
    BY TypeNext, LedgerPlace, LedgerOthers DEF Next
  <2> QED  BY <2>1 DEF Ledger!ledgerVars, Owned
<1> QED  BY <1>1, <1>2, TypeCorrect, AlwaysCoherent, PTL
            DEF Spec, ImplementsLedger, Ledger!Spec
=============================================================================
