----------------------------- MODULE PauseState -----------------------------
(***************************************************************************)
(* The master pause switch: four Redis keys written one by one, an audit   *)
(* row per flip, and the one-second in-process cache every request and     *)
(* worker tick reads through.                                              *)
(***************************************************************************)
EXTENDS Naturals, Sequences

CONSTANTS
    Admins,     \* concurrent POST /admin/system/pause and /resume requests
    Readers,    \* concurrent is_paused calls: the HTTP middleware, the workers
    TTL,        \* CACHE_TTL_S in clock ticks
    MaxTime,    \* bound on the clock
    MaxFlips,   \* bound on admin requests
    MaxFaults   \* bound on failed Redis calls and failed audit inserts

VARIABLES
    keys,       \* the Redis keys that exist, "paused" among them
    by,         \* value of paused_by: the admin whose call wrote it
    audit,      \* kind of the latest committed auth_violations row
    admin,      \* admin[a]: the call in progress, [kind, at]
    reader,     \* reader[r]: the call in progress, [at, now, raw]
    answer,     \* what the latest call returned, and when it began
    cache,      \* _CACHE
    lastHeld,   \* lastHeld[v]: latest time at which the flag had value v
    clock,
    flips,
    faults

store == <<keys, by, audit>>
vars == <<store, admin, reader, answer, cache, lastHeld, clock, flips, faults>>

Flag == "paused" \in keys
Empty == [value |-> FALSE, at |-> 0, valid |-> FALSE, failed |-> FALSE]
Idle  == [kind |-> "none", at |-> "idle"]
Away  == [at |-> "idle", now |-> 0, raw |-> FALSE]

Fault   == faults < MaxFaults /\ faults' = faults + 1
NoFault == UNCHANGED faults

\* What the flag was before a write and what it is after it.
HeldNow == lastHeld' = [lastHeld EXCEPT ![Flag] = clock, ![Flag'] = clock]

Init ==
    /\ keys = {} /\ by = "nobody" /\ audit = "system_resumed"
    /\ admin = [a \in Admins |-> Idle]
    /\ reader = [r \in Readers |-> Away]
    /\ answer = Empty
    /\ cache = Empty
    /\ lastHeld = [v \in BOOLEAN |-> 0]
    /\ clock = 0 /\ flips = 0 /\ faults = 0

Tick ==
    /\ clock < MaxTime /\ clock' = clock + 1
    /\ lastHeld' = [lastHeld EXCEPT ![Flag] = clock']
    /\ NoFault
    /\ UNCHANGED <<store, admin, reader, answer, cache, flips>>

-----------------------------------------------------------------------------
(* set_paused. *)

\* The order of the Redis writes of a pause; a resume is one DEL of all four.
MUT_Order == <<"since", "by", "reason", "paused">>
Order == <<"paused", "since", "by", "reason">>

Begin(a, kind) ==
    /\ admin[a].at = "idle" /\ flips < MaxFlips
    /\ flips' = flips + 1
    /\ admin' = [admin EXCEPT ![a] =
           [kind |-> kind, at |-> IF kind = "system_paused" THEN "paused" ELSE "delete"]]
    /\ NoFault
    /\ UNCHANGED <<store, reader, answer, cache, lastHeld, clock>>

SetKey(a) ==
    \E i \in DOMAIN Order :
        /\ admin[a].at = Order[i]
        /\ keys' = keys \cup {Order[i]}
        /\ by' = IF Order[i] = "by" THEN a ELSE by
        /\ admin' = [admin EXCEPT ![a].at = IF i < 4 THEN Order[i + 1] ELSE "audit"]
        /\ HeldNow
        /\ NoFault
        /\ UNCHANGED <<audit, reader, answer, cache, clock, flips>>

DeleteKeys(a) ==
    /\ admin[a].at = "delete"
    /\ keys' = {} /\ by' = "nobody"
    /\ admin' = [admin EXCEPT ![a].at = "audit"]
    /\ HeldNow
    /\ NoFault
    /\ UNCHANGED <<audit, reader, answer, cache, clock, flips>>

\* INSERT and commit, then the reset of the cache in the same step.
Audited(a) ==
    /\ admin[a].at = "audit"
    /\ audit' = admin[a].kind
    /\ cache' = Empty
    /\ admin' = [admin EXCEPT ![a] = Idle]
    /\ NoFault
    /\ UNCHANGED <<keys, by, reader, answer, lastHeld, clock, flips>>

\* A failed call ends the request where it stands; what was written stays
\* written, and the cache is not reset.
RequestFails(a) ==
    /\ admin[a].at # "idle"
    /\ admin' = [admin EXCEPT ![a] = Idle]
    /\ Fault
    /\ UNCHANGED <<store, reader, answer, cache, lastHeld, clock, flips>>

-----------------------------------------------------------------------------
(* is_paused. *)

Fresh(now) == cache.valid /\ now - cache.at < TTL

Hit(r) ==
    /\ reader[r].at = "idle" /\ Fresh(clock)
    /\ answer' = [cache EXCEPT !.at = clock]
    /\ NoFault
    /\ UNCHANGED <<store, admin, reader, cache, lastHeld, clock, flips>>

\* now is taken before the GET is sent.
Miss(r) ==
    /\ reader[r].at = "idle" /\ ~Fresh(clock)
    /\ reader' = [reader EXCEPT ![r] = [at |-> "sent", now |-> clock, raw |-> FALSE]]
    /\ NoFault
    /\ UNCHANGED <<store, admin, answer, cache, lastHeld, clock, flips>>

\* Redis serves the GET; the coroutine has not resumed yet.
Served(r) ==
    /\ reader[r].at = "sent"
    /\ reader' = [reader EXCEPT ![r].at = "served", ![r].raw = Flag]
    /\ NoFault
    /\ UNCHANGED <<store, admin, answer, cache, lastHeld, clock, flips>>

\* The coroutine resumes and overwrites the cache, whatever was put there or
\* reset meanwhile.
MUT_StampOf(r) == clock
StampOf(r) == reader[r].now

Return(r) ==
    /\ reader[r].at = "served"
    /\ cache' = [value |-> reader[r].raw, at |-> StampOf(r), valid |-> TRUE, failed |-> FALSE]
    /\ answer' = [cache' EXCEPT !.at = reader[r].now]
    /\ reader' = [reader EXCEPT ![r] = Away]
    /\ NoFault
    /\ UNCHANGED <<store, admin, lastHeld, clock, flips>>

\* Redis is unreachable: fail open, and cache that.
FailOpen(r) ==
    /\ reader[r].at = "sent"
    /\ cache' = [value |-> FALSE, at |-> StampOf(r), valid |-> TRUE, failed |-> TRUE]
    /\ answer' = [cache' EXCEPT !.at = reader[r].now]
    /\ reader' = [reader EXCEPT ![r] = Away]
    /\ Fault
    /\ UNCHANGED <<store, admin, lastHeld, clock, flips>>

Next ==
    \/ Tick
    \/ \E a \in Admins :
           \/ \E kind \in {"system_paused", "system_resumed"} : Begin(a, kind)
           \/ SetKey(a) \/ DeleteKeys(a) \/ Audited(a) \/ RequestFails(a)
    \/ \E r \in Readers : Hit(r) \/ Miss(r) \/ Served(r) \/ Return(r) \/ FailOpen(r)

Spec == Init /\ [][Next]_vars

-----------------------------------------------------------------------------
(* Properties. *)

TypeOK ==
    /\ keys \subseteq {"paused", "since", "by", "reason"}
    /\ by \in Admins \cup {"nobody"}
    /\ audit \in {"system_paused", "system_resumed"}
    /\ \A a \in Admins :
           admin[a].at \in {"idle", "paused", "since", "by", "reason", "delete", "audit"}
    /\ \A r \in Readers : reader[r].at \in {"idle", "sent", "served"}
    /\ clock \in 0..MaxTime /\ flips \in 0..MaxFlips /\ faults \in 0..MaxFaults

\* A flip takes effect within the cache's lifetime: unless Redis failed, a
\* call answers with a value the flag had less than CACHE_TTL_S before the
\* call began, or later (is_paused's cache, overwritten by calls in flight).
FlipWithinTTL ==
    answer.valid /\ ~answer.failed /\ answer.value # Flag
        => lastHeld[answer.value] + TTL > answer.at

\* get_state attributes a pause to somebody once its call is over: the flag is
\* never left set without since, by and reason by calls that all went well.
PauseAttributed ==
    (Flag /\ faults = 0 /\ \A a \in Admins : admin[a].at = "idle")
        => keys = {"paused", "since", "by", "reason"}
=============================================================================
