------------------------------ MODULE MCClient ------------------------------
(* Instances of Client for TLC. *)
EXTENDS Client

(* A frame of every interesting length. *)
SizesAround == (MaxFrameSize - 1)..(MaxFrameSize + 1)

(* The 64-bit shift of backoffFor: 2s, 4s, 8s, 16s, 30s, 30s, ..., and     *)
(* from the 55th failure on nothing is left of the second that is shifted. *)
ASSUME ShiftValues == \A attempt \in 0..64 : OddPart(attempt) = 0 <=> attempt >= 55
=============================================================================
