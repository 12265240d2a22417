------------------------- MODULE MCTelegramListener -------------------------
(* One or two Decisions and a few pressed buttons.                           *)
EXTENDS TelegramListener, TLC

CONSTANTS d1, d2
=============================================================================
