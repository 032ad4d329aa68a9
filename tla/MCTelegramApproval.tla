------------------------- MODULE MCTelegramApproval -------------------------
(***************************************************************************)
(* TelegramApproval for TLC: two cards, so that a batch mixes the taps of  *)
(* both.                                                                   *)
(***************************************************************************)
EXTENDS TelegramApproval

CONSTANTS c1, c2
=============================================================================
