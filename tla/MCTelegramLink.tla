--------------------------- MODULE MCTelegramLink ---------------------------
(* Instances of TelegramLink for TLC. *)
EXTENDS TelegramLink

=============================================================================
