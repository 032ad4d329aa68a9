----------------------------- MODULE MarketData -----------------------------
(* The candles of the multi-timeframe votes (core/scoring/mtf_confluence.py) *)
(* of one symbol: which exchange endpoint serves it (data/bar_fetch.py), the *)
(* cache, the limiter in front of the exchange (data/ratelimit.py), and the  *)
(* three kinds of task that read them: predictions, the start-up prewarm and *)
(* the refresh loop.  The exchange counts the weight it serves in windows    *)
(* and tells each response how much is used.                                 *)
EXTENDS Integers, FiniteSets

CONSTANTS
    Predictions,    \* the predictions that may run at once
    TFs,            \* TIMEFRAMES
    Ttl,            \* CACHE_TTL_S, per timeframe
    Timeout,        \* TF_FETCH_TIMEOUT_S
    Capacity,       \* the bucket's capacity, and sync_capacity
    Refill,         \* tokens per tick
    Weight,         \* of one klines request
    Window,         \* ticks between two resets of the exchange's counter
    MaxTime, MaxFaults

VARIABLES
    clock,          \* time.time() and time.monotonic()
    listings,       \* what the listing caches were last loaded from
    bucket,         \* the TokenBucket: tokens, and when it was last refilled
    server,         \* weight the exchange served in this window
    cache,          \* _KLINE_CACHE of the symbol
    fetch,          \* what each task's fetch of each timeframe is doing
    granted,        \* weight granted in this window
    forgotten,      \* weight the headers gave back in this window
    faults

marketDataVars == <<clock, listings, bucket, server, cache, fetch, 
                    granted, forgotten, faults>>

Status == {"none", "halted", "trading"}
Markets == {"spot", "futures"}
Unloaded == [spot |-> "unloaded", futures |-> "unloaded"]
Tasks == Predictions \cup {"prewarm", "refresh"}
NoFetch == [phase |-> "none"]
Nothing == [at |-> -1, data |-> -1]

Lesser(a, b) == IF a < b THEN a ELSE b
Ceil(a, b) == (a + b - 1) \div b

\* resolve_klines_url_for_symbol: the tradable sets first, then the routable
\* ones, and no default.  Each futures set is of the contracts the like spot
\* set does not name.
MUT_Route(l) ==     \* the routable sets alone
    CASE l.futures \in {"trading", "halted"} /\ l.spot = "none" -> "futures"
      [] l.spot \in {"trading", "halted"} -> "spot"
      [] OTHER -> "unresolved"
Route(l) ==
    CASE l.futures = "trading" /\ l.spot # "trading" -> "futures"
      [] l.spot = "trading" -> "spot"
      [] l.futures = "halted" /\ l.spot = "none" -> "futures"
      [] l.spot = "halted" /\ l.futures # "trading" -> "spot"
      [] OTHER -> "unresolved"

\* _cache_get: an entry stays valid for its timeframe's time to live.
Valid(tf) == cache[tf] # Nothing /\ clock - cache[tf].at < Ttl[tf]

\* A fetch that finds a valid entry is done; any other joins the limiter.  A
\* fetch keeps when its gather began and when the limiter let it go.
Lookup(tf) ==
    IF Valid(tf)
    THEN [phase |-> "data", since |-> clock, sent |-> clock, data |-> cache[tf].data]
    ELSE [phase |-> "queued", since |-> clock, wake |-> clock]
Failed(from, to) == [phase |-> "failed", since |-> from, sent |-> to]

Idle(t) == \A tf \in TFs : fetch[t][tf] = NoFetch
Settled(t) == \A tf \in TFs : fetch[t][tf].phase \in {"data", "failed"}

Init ==
    /\ clock = 0 /\ listings = Unloaded
    /\ bucket = [tokens |-> Capacity, at |-> 0] /\ server = 0
    /\ cache = [tf \in TFs |-> Nothing]
    /\ fetch = [t \in Tasks |-> [tf \in TFs |-> NoFetch]]
    /\ granted = 0 /\ forgotten = 0
    /\ faults = 0

\* refresh_futures_only_cache: all the sets move together, and a failed cycle
\* keeps the prior ones.
LoadListings ==
    /\ listings = Unloaded /\ listings' \in [Markets -> Status]
    /\ UNCHANGED <<clock, bucket, server, cache, fetch, granted,
                   forgotten, faults>>

\* compute_mtf_confluence and one symbol of prewarm_cache: no endpoint, no
\* fetch, and a failure of every timeframe.
Begin(t) ==
    /\ t # "refresh" /\ Idle(t)
    /\ LET url == Route(listings) IN
       fetch' = [fetch EXCEPT ![t] = [tf \in TFs |->
           IF url = "unresolved" THEN Failed(clock, clock) ELSE Lookup(tf)]]
    /\ UNCHANGED <<clock, listings, bucket, server, cache, granted,
                   forgotten, faults>>

\* _entries_due_for_refresh: the entries in the last fifth of their life.
due(tf) ==
    /\ cache[tf] # Nothing
    /\ LET left == Ttl[tf] - (clock - cache[tf].at) IN 0 < left /\ 5 * left <= Ttl[tf]

\* One tick of run_mtf_cache_refresh_loop, which fetches them like anyone.
Refresh ==
    /\ Idle("refresh") /\ \E tf \in TFs : due(tf)
    /\ fetch' = [fetch EXCEPT !["refresh"] = [tf \in TFs |->
           IF due(tf) /\ Route(listings) # "unresolved"
           THEN Lookup(tf) ELSE Failed(clock, clock)]]
    /\ UNCHANGED <<clock, listings, bucket, server, cache, granted,
                   forgotten, faults>>

\* TokenBucket.acquire, once under the lock: refill, and take or sleep for the
\* deficit.  Whoever wakes first is served first.
refilled(b) == Lesser(Capacity, b.tokens + (clock - b.at) * Refill)
MUT_acquire(b, slept) ==    \* takes after the sleep without looking again
    IF slept \/ refilled(b) >= Weight
    THEN [ok |-> TRUE, tokens |-> refilled(b) - Weight]
    ELSE [ok |-> FALSE, tokens |-> refilled(b)]
acquire(b, slept) ==
    IF refilled(b) >= Weight
    THEN [ok |-> TRUE, tokens |-> refilled(b) - Weight]
    ELSE [ok |-> FALSE, tokens |-> refilled(b)]

Acquire(t, tf) ==
    LET f == fetch[t][tf] IN
    /\ f.phase \in {"queued", "asleep"} /\ f.wake <= clock
    /\ LET took == acquire(bucket, f.phase = "asleep") IN
       /\ bucket' = [tokens |-> took.tokens, at |-> clock]
       /\ granted' = IF took.ok THEN granted + Weight ELSE granted
       /\ fetch' = [fetch EXCEPT ![t][tf] =
              IF took.ok THEN [phase |-> "sent", since |-> f.since, sent |-> clock]
              ELSE [phase |-> "asleep", since |-> f.since,
                    wake |-> clock + Ceil(Weight - took.tokens, Refill)]]
    /\ UNCHANGED <<clock, listings, server, cache, forgotten, faults>>

\* The exchange answers with the candles of this moment and the weight used.
Serve(t, tf) ==
    LET f == fetch[t][tf] IN
    /\ f.phase = "sent" /\ server' = server + Weight
    /\ fetch' = [fetch EXCEPT ![t][tf] =
           [phase |-> "served", since |-> f.since, sent |-> f.sent, data |-> clock,
            used |-> server + Weight]]
    /\ UNCHANGED <<clock, listings, bucket, cache, granted, forgotten,
                   faults>>

\* RateLimitedClient.request and the rest of _fetch_one_tf: the header sets the
\* tokens whatever it is the answer of, an error status has it too, and good
\* candles are cached from now on.
synced(used) == IF used > Capacity THEN 0 ELSE Capacity - used
MUT__cache_set(data) == [at |-> clock + 1, data |-> data]
_cache_set(data) == [at |-> clock, data |-> data]
Receive(t, tf, ok) ==
    LET f == fetch[t][tf] IN
    /\ f.phase = "served"
    /\ bucket' = [bucket EXCEPT !.tokens = synced(f.used)]
    /\ forgotten' = forgotten + IF synced(f.used) > bucket.tokens
                                THEN synced(f.used) - bucket.tokens ELSE 0
    /\ cache' = IF ok THEN [cache EXCEPT ![tf] = _cache_set(f.data)] ELSE cache
    /\ fetch' = [fetch EXCEPT ![t][tf] =
           IF ok THEN [phase |-> "data", since |-> f.since, sent |-> f.sent, data |-> f.data]
           ELSE Failed(f.since, f.sent)]
    /\ faults' = IF ok THEN faults ELSE faults + 1
    /\ (ok \/ faults < MaxFaults)
    /\ UNCHANGED <<clock, listings, server, granted>>

\* No answer in time: nothing is synced.
TimedOut(t, tf) ==
    LET f == fetch[t][tf] IN
    /\ f.phase \in {"sent", "served"} /\ clock - f.sent = Timeout
    /\ fetch' = [fetch EXCEPT ![t][tf] = Failed(f.since, f.sent)]
    /\ UNCHANGED <<clock, listings, bucket, server, cache, granted,
                   forgotten, faults>>

\* The gather ends with its last fetch, and only now the candles vote: a failed
\* timeframe votes nothing, and all failed is no answer at all.  The prewarm and
\* the refresh only wanted the cache filled.
Score(t) ==
    /\ Settled(t) /\ fetch' = [fetch EXCEPT ![t] = [tf \in TFs |-> NoFetch]]
    /\ UNCHANGED <<clock, listings, bucket, server, cache, granted, forgotten,
                   faults>>

\* prewarm_cache reaches its deadline: its fetches are cancelled where they
\* stand, the tokens they took are not given back.
PrewarmDeadline ==
    /\ ~Idle("prewarm") /\ ~Settled("prewarm") /\ faults < MaxFaults /\ faults' = faults + 1
    /\ fetch' = [fetch EXCEPT !["prewarm"] = [tf \in TFs |-> NoFetch]]
    /\ UNCHANGED <<clock, listings, bucket, server, cache, granted,
                   forgotten>>

\* Time passes, never past the moment a timer is due; the exchange's window
\* and the day turn.
Tick ==
    /\ clock < MaxTime /\ clock' = clock + 1
    /\ \A t \in Tasks, tf \in TFs :
           fetch[t][tf].phase \in {"sent", "served"} => clock - fetch[t][tf].sent < Timeout
    /\ \A t \in Tasks : ~Settled(t)
    /\ IF (clock + 1) % Window = 0
       THEN server' = 0 /\ granted' = 0 /\ forgotten' = 0
       ELSE UNCHANGED <<server, granted, forgotten>>
    /\ UNCHANGED <<listings, bucket, cache, fetch, faults>>

Next ==
    \/ LoadListings \/ Refresh \/ PrewarmDeadline \/ Tick
    \/ \E t \in Tasks : Begin(t) \/ Score(t)
    \/ \E t \in Tasks, tf \in TFs :
           \/ Acquire(t, tf) \/ Serve(t, tf) \/ TimedOut(t, tf)
           \/ \E ok \in BOOLEAN : Receive(t, tf, ok)

Spec == Init /\ [][Next]_marketDataVars

(***************************************************************************)
(* Properties                                                              *)
(***************************************************************************)
TypeOK ==
    /\ clock \in 0..MaxTime /\ faults \in 0..MaxFaults
    /\ listings \in [Markets -> Status] \cup {Unloaded}
    /\ bucket.tokens <= Capacity /\ bucket.at \in 0..clock
    /\ server \in Nat /\ granted \in Nat /\ forgotten \in Nat
    /\ DOMAIN cache = TFs
    /\ \A t \in Tasks, tf \in TFs : fetch[t][tf].phase \in
           {"none", "queued", "asleep", "sent", "served", "data", "failed"}

\* However the waiters wake, one window's grants never exceed the bucket, what
\* was refilled meanwhile, and what the headers gave back.
NeverOvergrants == granted <= Capacity + Refill * (clock % Window) + forgotten

\* When a prediction's gather is over and its candles vote, they are older than
\* their time to live only by the time of two answers, the one that cached them
\* and the last one the gather waited for, and by what the limiter held a sibling
\* back, whoever cached them and whatever answers overtook them
\* (compute_mtf_confluence, _fetch_one_tf, _cache_get).
VotesAreFresh ==
    \A t \in Predictions : Settled(t) =>
        \A tf \in TFs : fetch[t][tf].phase = "data" =>
            \E last \in TFs :
                clock - fetch[t][tf].data
                    < Ttl[tf] + 2 * Timeout + fetch[t][last].sent - fetch[t][last].since

\* A fetch goes to a market that has the symbol's candles, a trading one when
\* there is one, and is refused when the listings know of none.
RoutedWhereItTrades ==
    \A l \in [Markets -> Status] \cup {Unloaded} :
        LET url == Route(l)
            has(s) == \E m \in Markets : l[m] \in s
        IN /\ url \in Markets => l[url] \in {"halted", "trading"}
           /\ has({"trading"}) => url \in Markets /\ l[url] = "trading"
           /\ has({"halted", "trading"}) => url # "unresolved"
=============================================================================
