----------------------------- MODULE MCBotPause -----------------------------
(* Instances of BotPause for TLC. *)
EXTENDS BotPause, TLC

CONSTANTS a1, a2, x1

Symmetry == Permutations(Operators)
=============================================================================
