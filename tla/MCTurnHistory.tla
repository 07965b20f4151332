--------------------------- MODULE MCTurnHistory ---------------------------
(* Small instances of TurnHistory. *)
EXTENDS TurnHistory

AllOutcomes == {"final", "tool", "truncated", "error", "cancel", "panic"}
=============================================================================
