----------------------------- MODULE AuditChain -----------------------------
(***************************************************************************)
(* The hash chain of the audited tables: transactions that append rows     *)
(* under a per-table advisory lock, the updates some tables allow          *)
(* afterwards, and the nightly verifier that walks every table in one      *)
(* database session.  A hash is the sequence of what was hashed, so equal  *)
(* hashes mean equal histories; a row's value is its id as long as the     *)
(* columns read back what was hashed.                                      *)
(***************************************************************************)
EXTENDS Naturals, Sequences, FiniteSets

CONSTANTS
    Writers,    \* sessions that call insert_with_chain
    Tables,     \* chained tables
    Lossy,      \* tables where a stored row may not read back as hashed
    Rewritten,  \* tables with a hashed column that is updated afterwards
    MaxRows,    \* bound on the ids a table hands out
    MaxFaults   \* bound on rollbacks, crashes and failed statements

NoWriter == "no writer"
NoTable  == "no table"

ASSUME ChainConstants ==
    /\ NoWriter \notin Writers /\ NoTable \notin Tables
    /\ Lossy \subseteq Tables /\ Rewritten \subseteq Tables
    /\ IsFiniteSet(Writers) /\ MaxRows \in Nat /\ MaxFaults \in Nat

VARIABLES
    rows,       \* rows[t]: committed rows
    lastId,     \* lastId[t]: the table's id sequence; never rolled back
    holder,     \* holder[t]: the session that holds t's advisory lock
    pc,         \* pc[w]: how far w's transaction got
    table,      \* table[w]: the table w's transaction writes to
    prev,       \* prev[w]: the last row_hash w read
    own,        \* own[w]: rows inserted by w, not committed
    left,       \* tables still to be walked in the verifier's round
    aborted,    \* the verifier's database transaction is aborted
    errored,    \* tables whose own walk failed in this round
    reported,   \* tables reported broken in this round
    faults

chainVars    == <<rows, lastId>>
writerVars   == <<holder, pc, table, prev, own>>
verifierVars == <<left, aborted, errored, reported>>
vars == <<chainVars, writerVars, verifierVars, faults>>

GENESIS_HASH == <<>>
Differs == 0

Fault   == faults < MaxFaults /\ faults' = faults + 1
NoFault == UNCHANGED faults

Init ==
    /\ rows = [t \in Tables |-> {}]
    /\ lastId = [t \in Tables |-> 0]
    /\ holder = [t \in Tables |-> NoWriter]
    /\ pc = [w \in Writers |-> "idle"]
    /\ table = [w \in Writers |-> NoTable]
    /\ prev = [w \in Writers |-> GENESIS_HASH]
    /\ own = [w \in Writers |-> {}]
    /\ left = {} /\ aborted = FALSE /\ errored = {} /\ reported = {}
    /\ faults = 0

----------------------------------------------------------------------------
(* Writers *)

\* Bound: every open transaction of t still has an id to draw.
Room(t) ==
    lastId[t] + Cardinality({w \in Writers : pc[w] # "idle" /\ table[w] = t})
        < MaxRows

MUT_RowHash(p, content) == <<content>>

\* compute_row_hash: the previous hash and the row's hashed columns.
RowHash(p, content) == Append(p, content)

Newest(R) == CHOOSE r \in R : \A s \in R : s.id <= r.id

\* _last_row_hash over the rows a transaction sees.
LastHash(R) == IF R = {} THEN GENESIS_HASH ELSE Newest(R).hash

\* pg_advisory_xact_lock is requested.
RequestLock(w) ==
    /\ pc[w] = "idle"
    /\ \E t \in Tables : Room(t) /\ table' = [table EXCEPT ![w] = t]
    /\ pc' = [pc EXCEPT ![w] = "locking"]
    /\ NoFault
    /\ UNCHANGED <<chainVars, holder, prev, own, verifierVars>>

MUT_LockFree(w) == TRUE

LockFree(w) == holder[table[w]] = NoWriter

Acquire(w) ==
    /\ pc[w] = "locking"
    /\ LockFree(w)
    /\ holder' = [holder EXCEPT ![table[w]] = w]
    /\ pc' = [pc EXCEPT ![w] = "locked"]
    /\ NoFault
    /\ UNCHANGED <<chainVars, table, prev, own, verifierVars>>

\* The newest hash is read.  A transaction that inserts again asks for the
\* lock again and has it already.
ReadLast(w) ==
    /\ pc[w] = "locked" \/ (pc[w] = "inserted" /\ Room(table[w]))
    /\ prev' = [prev EXCEPT ![w] = LastHash(rows[table[w]] \cup own[w])]
    /\ pc' = [pc EXCEPT ![w] = "hashed"]
    /\ NoFault
    /\ UNCHANGED <<chainVars, holder, table, own, verifierVars>>

\* INSERT with prev_hash and row_hash.  In a lossy table the row may read back
\* differently: a hashed JSONB column, or a hashed column that the payload
\* left out and the table stores as NULL.
Insert(w) ==
    LET t == table[w]
        n == lastId[t] + 1
    IN /\ pc[w] = "hashed"
       /\ \E value \in {n} \cup (IF t \in Lossy THEN {Differs} ELSE {}) :
             own' = [own EXCEPT ![w] = @ \cup
                       {[id |-> n, prev |-> prev[w],
                         hash |-> RowHash(prev[w], n), value |-> value]}]
       /\ lastId' = [lastId EXCEPT ![t] = n]
       /\ pc' = [pc EXCEPT ![w] = "inserted"]
       /\ NoFault
       /\ UNCHANGED <<rows, holder, table, prev, verifierVars>>

\* The end of the transaction releases the lock, if w has it.
Release(w) ==
    /\ holder' = [holder EXCEPT ![table[w]] = IF @ = w THEN NoWriter ELSE @]
    /\ own' = [own EXCEPT ![w] = {}]
    /\ table' = [table EXCEPT ![w] = NoTable]
    /\ prev' = [prev EXCEPT ![w] = GENESIS_HASH]
    /\ pc' = [pc EXCEPT ![w] = "idle"]

Commit(w) ==
    /\ pc[w] = "inserted"
    /\ rows' = [rows EXCEPT ![table[w]] = @ \cup own[w]]
    /\ Release(w)
    /\ NoFault
    /\ UNCHANGED <<lastId, verifierVars>>

MUT_RollbackKeepsLock(w) ==
    /\ pc[w] # "idle"
    /\ Fault
    /\ own' = [own EXCEPT ![w] = {}]
    /\ table' = [table EXCEPT ![w] = NoTable]
    /\ pc' = [pc EXCEPT ![w] = "idle"]
    /\ UNCHANGED <<chainVars, holder, prev, verifierVars>>

\* An exception, a cancelled task or a dead process: the server rolls back.
\* The ids drawn stay used.
Rollback(w) ==
    /\ pc[w] # "idle"
    /\ Fault
    /\ Release(w)
    /\ UNCHANGED <<chainVars, verifierVars>>

\* A hashed column is updated after the insert: Phase 3 of a placement writes
\* the fill price over live_trades.entry_price.
Rewrite(t) ==
    /\ t \in Rewritten
    /\ \E r \in rows[t] :
          /\ r.value # Differs
          /\ rows' = [rows EXCEPT ![t] =
                        (@ \ {r}) \cup {[r EXCEPT !.value = Differs]}]
    /\ NoFault
    /\ UNCHANGED <<lastId, writerVars, verifierVars>>

----------------------------------------------------------------------------
(* The nightly verifier *)

\* The hash the walk expects before r: that of the row before it.
Before(t, r) == LastHash({s \in rows[t] : s.id < r.id})

\* verify_chain: rows whose link or whose recomputed hash is wrong.
Violations(t) ==
    {r \in rows[t] : \/ r.prev # Before(t, r)
                     \/ r.hash # RowHash(Before(t, r), r.value)}

StartRound ==
    /\ left = {}
    /\ left' = Tables
    /\ aborted' = FALSE /\ errored' = {} /\ reported' = {}
    /\ NoFault
    /\ UNCHANGED <<chainVars, writerVars>>

\* One table of _check_all_chains.  A failed statement is logged and the loop
\* goes on, in the same session: every later statement fails as well.  A
\* broken table is alerted, then recorded and committed, which may fail.
Check(t) ==
    /\ t \in left
    /\ left' = left \ {t}
    /\ \/ /\ aborted
          /\ NoFault /\ UNCHANGED <<aborted, errored, reported>>
       \/ /\ ~aborted /\ Fault
          /\ aborted' = TRUE /\ errored' = errored \cup {t}
          /\ UNCHANGED reported
       \/ /\ ~aborted /\ Violations(t) = {}
          /\ NoFault /\ UNCHANGED <<aborted, errored, reported>>
       \/ /\ ~aborted /\ Violations(t) # {}
          /\ reported' = reported \cup {t}
          /\ UNCHANGED errored
          /\ \/ NoFault /\ UNCHANGED aborted
             \/ Fault /\ aborted' = TRUE
    /\ UNCHANGED <<chainVars, writerVars>>

----------------------------------------------------------------------------

Next ==
    \/ \E w \in Writers : \/ RequestLock(w) \/ Acquire(w) \/ ReadLast(w)
                         \/ Insert(w) \/ Commit(w) \/ Rollback(w)
    \/ \E t \in Tables : Rewrite(t) \/ Check(t)
    \/ StartRound

Spec == Init /\ [][Next]_vars

\* Postgres serves the waiters of a lock in turn, and a transaction that has
\* the lock goes on and ends.
FairSpec ==
    /\ Spec
    /\ \A w \in Writers : SF_vars(Acquire(w)) /\ WF_vars(ReadLast(w))
                            /\ WF_vars(Insert(w)) /\ WF_vars(Commit(w))

----------------------------------------------------------------------------
(* What must hold *)

Hashes == Seq(1 .. MaxRows)

Row == {r \in [id : 1 .. MaxRows, prev : Hashes, hash : Hashes,
               value : 0 .. MaxRows] :
           r.value \in {r.id, Differs} /\ r.hash = Append(r.prev, r.id)}

\* Every variable keeps its type; a row's hash covers its predecessor's.
TypeOK ==
    /\ rows \in [Tables -> SUBSET Row]
    /\ lastId \in [Tables -> 0 .. MaxRows]
    /\ holder \in [Tables -> Writers \cup {NoWriter}]
    /\ pc \in [Writers -> {"idle", "locking", "locked", "hashed", "inserted"}]
    /\ table \in [Writers -> Tables \cup {NoTable}]
    /\ prev \in [Writers -> Hashes] /\ own \in [Writers -> SUBSET Row]
    /\ left \subseteq Tables /\ errored \subseteq Tables
    /\ reported \subseteq Tables
    /\ aborted \in BOOLEAN
    /\ faults \in 0 .. MaxFaults

\* The committed rows of a table form one chain in id order, although writers
\* interleave, roll back and leave gaps in the ids.
ChainLinked == \A t \in Tables : \A r \in rows[t] : r.prev = Before(t, r)

\* The verifier reports a table only when a row of it no longer reads back as
\* it was hashed: never because of a writer at work during the walk.
AlarmsAreReal == \A t \in reported : \E r \in rows[t] : r.value # r.id

\* A writer that waits for the lock ends its transaction, whoever fails while
\* it has the lock.
WritersFinish == \A w \in Writers : pc[w] = "locking" ~> pc[w] = "idle"

----------------------------------------------------------------------------
(* Why it holds: the inductive invariant *)

\* h is the hash of R's newest row, or the genesis hash when R has none.
Tip(R, h) ==
    \/ R = {} /\ h = GENESIS_HASH
    \/ \E m \in R : h = m.hash /\ \A s \in R : s.id <= m.id

\* r continues the row before it, or is the first.
Follows(R, r) == Tip({s \in R : s.id < r.id}, r.prev)

\* The rows of R have distinct ids up to n, one of them is the newest, and each
\* continues the one before.
Linked(R, n) ==
    /\ \A r, s \in R : r.id = s.id => r = s
    /\ \A r \in R : r.id <= n /\ Follows(R, r)
    /\ R = {} \/ \E m \in R : \A s \in R : s.id <= m.id

\* w has its table's lock, and the rows it sees.
Held(w) == pc[w] \in {"locked", "hashed", "inserted"}
View(w) == rows[table[w]] \cup own[w]

\* A transaction that is not idle has a table; one past the lock is its only
\* holder, its rows come after the committed ones, and the hash it has read
\* stays the newest until it inserts.
WriterInv(w) ==
    /\ pc[w] # "idle" => table[w] \in Tables
    /\ ~Held(w) => own[w] = {}
    /\ Held(w) => /\ holder[table[w]] = w
                  /\ Linked(View(w), lastId[table[w]])
                  /\ \A s \in rows[table[w]], r \in own[w] : s.id < r.id
    /\ pc[w] = "hashed" => Tip(View(w), prev[w])

\* Transactions that have drawn no id since they last read the newest hash.
Drawing(t) == {w \in Writers : pc[w] \in {"locking", "locked", "hashed"} /\ table[w] = t}

IInv ==
    /\ TypeOK
    /\ \A t \in Tables : Linked(rows[t], lastId[t])
    /\ \A w \in Writers : WriterInv(w)
    /\ \A t \in Tables : lastId[t] + Cardinality(Drawing(t)) <= MaxRows

----------------------------------------------------------------------------
(* What the documentation says and the code does not do *)

\* verify_chain recomputes what insert_with_chain hashed: nothing tampers with
\* a row here, so no table is ever reported.
HonestRowsVerify == reported = {}
=============================================================================
