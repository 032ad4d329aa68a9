--------------------------- MODULE ModelRegistry ---------------------------
(***************************************************************************)
(* The checkpoints of the reinforcement-learning brain: which one is       *)
(* active, which one the process runs.  Admin requests activate, force,    *)
(* deactivate or delete; the nightly registrar writes to the same table    *)
(* from another process.  Both compare a challenger with the champion      *)
(* they read, and swap later.  A partial unique index keeps one row active.*)
(***************************************************************************)
EXTENDS Integers, FiniteSets

CONSTANTS
    Checkpoints, \* every checkpoint that is ever trained
    Sharpe,      \* eval_results.sharpe: its kind and its value in hundredths
    Writers,     \* concurrent requests and registrar runs
    MaxActs      \* bound on them

VARIABLES
    rows,        \* rows of rl_checkpoints
    active,      \* ids with is_active
    approved,    \* ids an operator forced or that beat a champion
    loaded,      \* the checkpoint pinned in the process, as a set
    swap,        \* swap[w]: a swap between its gate and its commit
    acts

table == <<rows, active, approved>>
vars == <<table, loaded, swap, acts>>

Idle == [at |-> "idle", id |-> 0]
Act == acts < MaxActs /\ acts' = acts + 1
Goto(w, place, c) == swap' = [swap EXCEPT ![w] = [at |-> place, id |-> c]]

Init ==
    /\ rows = {} /\ active = {} /\ approved = {} /\ loaded = {}
    /\ swap = [w \in Writers |-> Idle] /\ acts = 0

-----------------------------------------------------------------------------
(* The gate. *)

\* _evaluate_sharpe: nothing recorded counts as 0.0.
Value(c) == IF Sharpe[c].kind = "missing" THEN 0 ELSE Sharpe[c].value

\* sharpe_passes: 5% better, and by 0.05 where the champion is not positive.
SharpePasses(challenger, champion) ==
    100 * challenger > 105 * champion /\ challenger > champion + 5

Beats(c, champions) ==
    \E d \in champions : SharpePasses(Value(c), Value(d))

Kinds(cs) == {Sharpe[c].kind : c \in cs}

\* evaluate_challenger: without a champion nothing is proven; a malformed
\* value raises.  (Before, having no champion was a win.)
MUT_Wins(c, champions) == champions = {} \/ Beats(c, champions)
Wins(c, champions) ==
    /\ "malformed" \notin Kinds(champions \cup {c})
    /\ Beats(c, champions)

\* The registrar decides on its own copy: a missing value is undecidable too.
DirectWins(c, champions) ==
    /\ Kinds(champions \cup {c}) = {"ok"}
    /\ Beats(c, champions)

Approve(c, by) == approved' = IF by THEN approved \cup {c} ELSE approved

-----------------------------------------------------------------------------
(* patch_rl_checkpoint and delete_rl_checkpoint. *)

RequestActivate(w, c) ==
    /\ swap[w].at = "idle" /\ c \in rows /\ Act
    /\ \E force \in BOOLEAN :
         /\ force \/ Wins(c, active \ {c})
         /\ Approve(c, force \/ Beats(c, active \ {c}))
    /\ Goto(w, "swap", c)
    /\ UNCHANGED <<rows, active, loaded>>

\* One statement; delete_rl_checkpoint is the same update.
Deactivate(c) ==
    /\ c \in rows /\ Act
    /\ active' = active \ {c}
    /\ UNCHANGED <<rows, approved, loaded, swap>>

\* _direct_db_register_and_activate.  The bootstrap deactivates nobody.
Register(w, c) ==
    /\ swap[w].at = "idle" /\ c \notin rows /\ Act
    /\ \E activate, force, bootstrap \in BOOLEAN :
         LET first == ~force /\ active = {} /\ bootstrap
         IN /\ Goto(w, IF ~activate THEN "insert" ELSE IF first THEN "first"
                       ELSE IF force \/ DirectWins(c, active) THEN "swap" ELSE "insert", c)
            /\ Approve(c, activate /\ (force \/ first \/ DirectWins(c, active)))
    /\ UNCHANGED <<rows, active, loaded>>

\* The end of either: the rest is deactivated, the row written and activated,
\* in one transaction.
MUT_ActiveAfter(w) ==
    IF swap[w].at = "insert" THEN active ELSE active \cup {swap[w].id}
ActiveAfter(w) == IF swap[w].at = "insert" THEN active ELSE {swap[w].id}

Commit(w) ==
    /\ swap[w].at # "idle" /\ Goto(w, "idle", 0)
    /\ swap[w].at = "first" => active = {}
    /\ rows' = rows \cup {swap[w].id}
    /\ active' = ActiveAfter(w)
    /\ UNCHANGED <<approved, loaded, acts>>

\* The unique index refuses a second active row: of two overlapping
\* transactions one fails.
Conflict(w) ==
    /\ swap[w].at # "idle" /\ Goto(w, "idle", 0)
    /\ \/ swap[w].at = "first" /\ active # {}
       \/ \E v \in Writers \ {w} :
              swap[v].at \in {"first", "swap"} \/ swap[v].id = swap[w].id
    /\ UNCHANGED <<table, loaded, acts>>

\* load_active_checkpoint at start-up, its only caller: the file may be gone,
\* its hash wrong or its shape outdated, and then no brain votes.
MUT_Loadable == rows
Loadable == active
Restart ==
    /\ Act
    /\ loaded' \in {{}} \cup {{c} : c \in Loadable}
    /\ swap' = [w \in Writers |-> Idle]
    /\ UNCHANGED table

Next ==
    \/ Restart
    \/ \E c \in Checkpoints : Deactivate(c)
    \/ \E w \in Writers : Commit(w) \/ Conflict(w)
    \/ \E w \in Writers, c \in Checkpoints : RequestActivate(w, c) \/ Register(w, c)

Spec == Init /\ [][Next]_vars

-----------------------------------------------------------------------------
TypeOK ==
    /\ rows \subseteq Checkpoints /\ active \subseteq rows
    /\ Cardinality(active) <= 1 /\ Cardinality(loaded) <= 1
    /\ approved \subseteq Checkpoints /\ acts \in 0..MaxActs
    /\ \A w \in Writers : swap[w].at \in {"idle", "swap", "first", "insert"}

\* No brain becomes active or runs that nobody vouches for: an operator forced
\* it in or opted into the bootstrap, or it beat, by the bar, a checkpoint that
\* was champion at the time.  Having no champion is never a way in.
ApprovedOnly == active \cup loaded \subseteq approved
=============================================================================
