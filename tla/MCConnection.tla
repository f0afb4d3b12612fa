---------------------------- MODULE MCConnection ----------------------------
(* Instances of Connection for TLC: all bounds are in the configurations. *)
EXTENDS Connection, TLC
=============================================================================
