-------------------------- MODULE MCChannelFanout --------------------------
(* Instances of ChannelFanout for TLC. *)
EXTENDS ChannelFanout, TLC

CONSTANTS c1, c2, r1, o1, o2

(* A private channel and its members. *)
MembersOnly == [c \in Conns |-> "member"]

Symmetry == Permutations(Conns) \cup Permutations(Objs)
=============================================================================
