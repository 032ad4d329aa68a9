---------------------------- MODULE MCAuditChain ----------------------------
(***************************************************************************)
(* AuditChain for TLC: live_trades is lossy (its reasoning is JSONB) and   *)
(* rewritten (entry_price), tax_events reads back as it was hashed.        *)
(***************************************************************************)
EXTENDS AuditChain

CONSTANTS live_trades, tax_events

AllTables == {live_trades, tax_events}
=============================================================================
