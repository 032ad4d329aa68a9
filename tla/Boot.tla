-------------------------------- MODULE Boot --------------------------------
(* The start of the process (the lifespan of main.py) and the preflight that *)
(* decides whether it may trade: which tasks run, whether the exchange keys   *)
(* are in memory, what the preflight_gate row says and what was paged.        *)
EXTENDS Integers, FiniteSets

CONSTANT MaxFaults

VARIABLES
    site,       \* what this start finds of the environment
    at,         \* how far it is
    unmet,      \* the reader checks that failed
    linked,     \* what the check of the audit chains said, if it was made
    gate,       \* the heartbeat row of the gate, of this start or an older one
    reported,   \* this start has written it
    rung,       \* the pages of this start
    keyed,      \* vault_keys() is not None
    running,    \* the tasks
    broken,     \* an audit chain is broken
    ordered,    \* live orders were placed by this process
    faults

bootVars == <<site, at, unmet, linked, gate, reported, rung, keyed, running, broken,
              ordered, faults>>

\* A vault may hold a key with the right permissions, one with too many, no key;
\* it may not open, or be too short to have a header.
Vaults == {"good", "unsafe", "keyless", "sealed", "short"}
Keyed == {"good", "unsafe"}
\* The environment of a start: the passphrase, the vault at the fixed path the
\* preflight reads and the one at VAULT_SECRETS_PATH, which may be another, the
\* migrations, the credentials of Telegram, and the settings.
Sites == [passphrase : BOOLEAN, vault : Vaults, cache : Vaults,
          migrated : BOOLEAN, telegram : BOOLEAN, trades : BOOLEAN, promotes : BOOLEAN]

Net == {"liquidation_monitor", "live_exit_monitor"}
Trading == Net \cup {"telegram_poller"}
Fault == faults < MaxFaults /\ faults' = faults + 1
Unblamed == faults' = faults

Start ==
    /\ at = "workers" /\ unmet = {} /\ linked = {} /\ reported = FALSE /\ rung = {}
    /\ keyed = FALSE /\ running = {} /\ ordered = FALSE
Init ==
    /\ site \in Sites /\ Start /\ gate = "none" /\ broken \in BOOLEAN /\ faults = 0

\* The tasks that do not trade start first; the worker that dispatches is one of
\* them, and places nothing while there are no keys.
StartWorkers ==
    /\ at = "workers" /\ running' = {"live_worker"}
    /\ at' = (IF site.trades THEN "preflight" ELSE "serving")
    /\ UNCHANGED <<site, unmet, linked, gate, reported, rung, keyed, broken, ordered, faults>>

\* The five checks.  A check whose input an earlier one could not provide fails
\* with it.
Passphrase == site.passphrase
VaultOpens == Passphrase /\ site.vault \in Keyed \cup {"keyless"}
MUT_KeySafe == VaultOpens /\ site.vault \in Keyed      \* whatever the key permits
KeySafe == VaultOpens /\ site.vault = "good"
Failures ==
    {c \in {"passphrase", "vault", "permissions", "migration"} :
        \/ c = "passphrase" /\ ~Passphrase
        \/ c = "vault" /\ ~VaultOpens
        \/ c = "permissions" /\ ~KeySafe
        \/ c = "migration" /\ ~site.migrated}

\* The preflight of the reader profile.  A vault too short to have a header is
\* not refused but raises, as a request that times out does.
Preflight ==
    /\ at = "preflight"
    /\ \/ /\ Passphrase => site.vault # "short"
          /\ unmet' = Failures /\ at' = (IF Failures = {} THEN "chain" ELSE "refused")
          /\ Unblamed
       \/ /\ Passphrase /\ site.vault = "short"
          /\ at' = "raised" /\ unmet' = unmet /\ Unblamed
       \/ at' = "raised" /\ unmet' = unmet /\ Fault
    /\ UNCHANGED <<site, linked, gate, reported, rung, keyed, running, broken, ordered>>

\* The chains are only looked at when the rest has passed.
CheckChain ==
    /\ at = "chain"
    /\ \/ linked' = {~broken} /\ at' = (IF broken THEN "degraded" ELSE "passed") /\ Unblamed
       \/ linked' = linked /\ at' = "raised" /\ Fault
    /\ UNCHANGED <<site, unmet, gate, reported, rung, keyed, running, broken, ordered>>

\* The outcomes of the gate that are paged, and what the row says of each.
Paged == {"degraded", "refused", "raised"}
RowOf(outcome) == CASE outcome = "passed" -> "passed"
                    [] outcome = "degraded" -> "reader_only_passed"
                    [] outcome = "refused" -> "failed"
                    [] outcome = "raised" -> "raised"
\* A page or a row that cannot be delivered is logged, and the start goes on: with
\* the checks passed, to the keys.
Report(page, row) ==
    /\ at \in Paged \cup {"passed"}
    /\ rung' = rung \cup (IF page THEN {at} \cap Paged ELSE {})
    /\ gate' = (IF row THEN RowOf(at) ELSE gate) /\ reported' = (reported \/ row)
    /\ (IF page /\ row THEN Unblamed ELSE Fault)
    /\ at' = (IF at \in {"passed", "degraded"} THEN "vault" ELSE "promotion")
    /\ UNCHANGED <<site, unmet, linked, keyed, running, broken, ordered>>

\* The keys are read again, from the path of the setting, and with them the
\* tasks start that guard the live trades, before anything else can run.  A
\* vault without keys is only logged.
InitializeVault ==
    /\ at = "vault"
    /\ \/ /\ site.cache \in Keyed /\ keyed' = TRUE /\ at' = "promotion"
          /\ running' = running \cup Net
                 \cup (IF site.telegram THEN {"telegram_poller"} ELSE {})
       \/ /\ site.cache \in {"keyless", "sealed"} /\ at' = "promotion"
          /\ UNCHANGED <<keyed, running>>
       \/ site.cache = "short" /\ at' = "raised" /\ UNCHANGED <<keyed, running>>
    /\ UNCHANGED <<site, unmet, linked, gate, reported, rung, broken, ordered, faults>>

\* The daily promotion does not depend on the gate.
StartPromotion ==
    /\ at = "promotion" /\ at' = "serving"
    /\ running' = running \cup (IF site.promotes THEN {"auto_promote"} ELSE {})
    /\ UNCHANGED <<site, unmet, linked, gate, reported, rung, keyed, broken, ordered, faults>>

\* The worker places orders as soon as there are keys.
Dispatch ==
    /\ "live_worker" \in running /\ keyed /\ ~ordered /\ ordered' = TRUE
    /\ UNCHANGED <<site, at, unmet, linked, gate, reported, rung, keyed, running, broken, faults>>

\* A chain breaks, or is healed by hand.
ChainTurns ==
    /\ broken' = ~broken
    /\ UNCHANGED <<site, at, unmet, linked, gate, reported, rung, keyed, running, ordered, faults>>

\* The lifespan ends by cancelling every task; a crash ends the process anywhere.
\* Only the row survives, and the next start may find another environment.
Restart ==
    /\ \/ at = "serving" /\ Unblamed
       \/ Fault
    /\ site' \in Sites /\ at' = "workers" /\ unmet' = {} /\ linked' = {} /\ reported' = FALSE
    /\ rung' = {} /\ keyed' = FALSE /\ running' = {} /\ ordered' = FALSE
    /\ UNCHANGED <<gate, broken>>

Next ==
    \/ StartWorkers \/ Preflight \/ CheckChain \/ InitializeVault \/ StartPromotion
    \/ \E page, row \in BOOLEAN : Report(page, row)
    \/ Dispatch \/ ChainTurns \/ Restart

Spec == Init /\ [][Next]_bootVars

-----------------------------------------------------------------------------
TypeOK ==
    /\ site \in Sites /\ unmet \subseteq {"passphrase", "vault", "permissions", "migration"}
    /\ at \in {"workers", "preflight", "chain", "passed", "vault", "promotion", "serving"} \cup Paged
    /\ linked \subseteq BOOLEAN /\ rung \subseteq Paged /\ faults \in 0..MaxFaults
    /\ gate \in {"none", "passed", "reader_only_passed", "failed", "raised"}
    /\ running \subseteq Trading \cup {"live_worker", "auto_promote"}
    /\ {reported, keyed, broken, ordered} \subseteq BOOLEAN

\* An order is placed only in a process that guards its trades, after every check
\* of the reader profile has passed; nothing that trades runs in any other.  The
\* key whose permissions were checked is that of the fixed path, and the key that
\* trades is the same only if VAULT_SECRETS_PATH names the same vault.
OrdersAreGuarded ==
    /\ ordered => keyed
    /\ keyed <=> Net \subseteq running
    /\ keyed \/ running \cap Trading = {}
    /\ keyed => unmet = {} /\ site.migrated /\ site.vault = "good"

\* A process that was to trade and serves without, paged the operator, or its
\* gate passed and the vault of the setting has no keys, which is only logged;
\* and the row it wrote tells which of these.
IdleIsTold ==
    at = "serving" /\ site.trades /\ ~keyed =>
        \/ "refused" \in rung /\ (reported => gate = "failed")
        \/ "raised" \in rung /\ (reported => gate \in {"raised", "passed", "reader_only_passed"})
        \/ /\ unmet = {} /\ linked # {} /\ site.cache \notin Keyed
           /\ reported => gate \in {"passed", "reader_only_passed"}
        \/ faults > 0
=============================================================================
