-------------------------- MODULE MCHistoryWriter --------------------------
(* Instances of HistoryWriter for TLC. *)
EXTENDS HistoryWriter, TLC

CONSTANTS c1, c2, r1

Symmetry == Permutations(Conns)
=============================================================================
