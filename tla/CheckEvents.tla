---------------------------- MODULE CheckEvents ----------------------------
(***************************************************************************)
(* The retrieval path of the in-process counters: every five minutes one   *)
(* transaction audits the universe's tradability, writes the increase of   *)
(* each failure counter since the last flush, and looks for checks that    *)
(* have gone silent.  Counters and watermarks are process memory.          *)
(***************************************************************************)
EXTENDS Naturals, FiniteSets

CONSTANTS
    Symbols,     \* symbols with a counter in mtf_confluence._fetch_failures
    MaxCount,    \* bound on failures counted per symbol, over all processes
    MaxFaults    \* bound on failed statements, failed commits and restarts

\* EXPECTED_CHECKS.
Checks == {"mtf_kline_fetch_failed", "universe_tradability"}

VARIABLES
    truth,       \* failures that ever happened
    total,       \* _fetch_failures: cumulative since process start
    snapshot,    \* the copy of total this flush works from
    mark,        \* _last_flushed
    unflushed,   \* symbols this flush still has to look at
    staged,      \* increments written and not committed
    row,         \* committed observed_count, summed over days
    age,         \* age[c]: latest committed row of check c
    fresh,       \* checks this transaction has written a row for
    barred,      \* a fleet member, or a position the open-position override
                 \* admits, that by the cache neither market takes orders for
    listed,      \* the listing caches have been loaded
    finding,     \* status of the latest committed tradability row
    pendingFinding,
    silent,      \* what the last completed cycle reported silent
    phase,
    faults

counters == <<truth, total, snapshot, mark, unflushed, staged, row>>
audit    == <<barred, listed, finding, pendingFinding>>
vars == <<counters, audit, age, fresh, silent, phase, faults>>

Fault   == faults < MaxFaults /\ faults' = faults + 1
NoFault == UNCHANGED faults
Zero == [s \in Symbols |-> 0]

Init ==
    /\ truth = Zero /\ total = Zero /\ snapshot = Zero /\ mark = Zero
    /\ unflushed = {} /\ staged = Zero /\ row = Zero
    /\ age = [c \in Checks |-> "never"] /\ fresh = {}
    /\ barred = FALSE /\ listed = FALSE
    /\ finding = "none" /\ pendingFinding = "none"
    /\ silent = {} /\ phase = "sleep" /\ faults = 0

-----------------------------------------------------------------------------
(* The rest of the process. *)

\* _record_fetch_failure, at any await of the flush.
FetchFails(s) ==
    /\ truth[s] < MaxCount
    /\ truth' = [truth EXCEPT ![s] = @ + 1] /\ total' = [total EXCEPT ![s] = @ + 1]
    /\ NoFault
    /\ UNCHANGED <<snapshot, mark, unflushed, staged, row, audit, age, fresh, silent, phase>>

\* futures_only_refresh replaces the listing caches, and the fleet or the
\* open positions change; a failed refresh leaves the caches.
UniverseChanges ==
    /\ \/ ~listed /\ listed' = TRUE /\ UNCHANGED barred
       \/ barred' = ~barred /\ UNCHANGED listed
    /\ NoFault
    /\ UNCHANGED <<counters, finding, pendingFinding, age, fresh, silent, phase>>

\* More than max_silence passes.
GrowOld(c) ==
    /\ age[c] = "recent" /\ age' = [age EXCEPT ![c] = "old"]
    /\ NoFault
    /\ UNCHANGED <<counters, audit, fresh, silent, phase>>

-----------------------------------------------------------------------------
(* run_one_flush_cycle. *)

\* audit_tradability: without listings it cannot tell, and says so.
Audit ==
    /\ phase = "sleep" /\ phase' = "flush"
    /\ pendingFinding' = IF ~listed THEN "error"
                         ELSE IF barred THEN "violation" ELSE "ok"
    /\ fresh' = {"universe_tradability"}
    /\ snapshot' = total /\ unflushed' = Symbols
    /\ NoFault
    /\ UNCHANGED <<truth, total, mark, staged, row, barred, listed, finding, age, silent>>

\* One symbol: its delta as an upsert, then the watermark.
MUT_Delta(s) == snapshot[s]
Delta(s) == snapshot[s] - mark[s]

FlushSymbol(s) ==
    /\ phase = "flush" /\ s \in unflushed /\ unflushed' = unflushed \ {s}
    /\ staged' = [staged EXCEPT ![s] = @ + (IF snapshot[s] > mark[s] THEN Delta(s) ELSE 0)]
    /\ mark' = [mark EXCEPT ![s] = snapshot[s]]
    /\ NoFault
    /\ UNCHANGED <<truth, total, snapshot, row, audit, age, fresh, silent, phase>>

\* The heartbeat row with increment 0, then find_silent_checks, which reads
\* the rows of its own transaction too.
IsSilent(c) == c \notin fresh /\ age[c] # "recent"

FindSilent ==
    /\ phase = "flush" /\ unflushed = {}
    /\ fresh' = fresh \cup {"mtf_kline_fetch_failed"}
    /\ phase' = "commit"
    /\ NoFault
    /\ UNCHANGED <<counters, audit, age, silent>>

Commit ==
    /\ phase = "commit" /\ phase' = "sleep"
    /\ silent' = {c \in Checks : IsSilent(c)}
    /\ row' = [s \in Symbols |-> row[s] + staged[s]] /\ staged' = Zero
    /\ age' = [c \in Checks |-> IF c \in fresh THEN "recent" ELSE age[c]]
    /\ fresh' = {} /\ finding' = pendingFinding
    /\ NoFault
    /\ UNCHANGED <<truth, total, snapshot, mark, unflushed, barred, listed, pendingFinding>>

\* Any statement or the commit fails: the rows are gone, the watermarks stay.
CycleFails ==
    /\ phase # "sleep" /\ phase' = "sleep"
    /\ staged' = Zero /\ fresh' = {} /\ unflushed' = {}
    /\ Fault
    /\ UNCHANGED <<truth, total, snapshot, mark, row, audit, age, silent>>

Restart ==
    /\ phase' = "sleep" /\ staged' = Zero /\ fresh' = {} /\ unflushed' = {}
    /\ total' = Zero /\ mark' = Zero /\ snapshot' = Zero /\ listed' = FALSE
    /\ Fault
    /\ UNCHANGED <<truth, row, barred, finding, pendingFinding, age, silent>>

Next ==
    \/ \E s \in Symbols : FetchFails(s) \/ FlushSymbol(s)
    \/ \E c \in Checks : GrowOld(c)
    \/ UniverseChanges \/ Audit \/ FindSilent \/ Commit \/ CycleFails \/ Restart

Spec == Init /\ [][Next]_vars

-----------------------------------------------------------------------------
(* Properties. *)

TypeOK ==
    /\ phase \in {"sleep", "flush", "commit"}
    /\ fresh \subseteq Checks /\ silent \subseteq Checks
    /\ finding \in {"none", "ok", "violation", "error"}
    /\ \A s \in Symbols : mark[s] <= total[s] /\ total[s] <= truth[s]

\* No failure is counted twice, whatever is rolled back or restarted: the
\* table never says more than happened, and counter and watermark restart
\* together (flush_mtf_fetch_failures).
NeverOvercounts == \A s \in Symbols : row[s] + staged[s] <= truth[s]
=============================================================================
