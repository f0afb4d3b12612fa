---------------------- MODULE MCSubscriptionLifecycle ----------------------
(* Instances of SubscriptionLifecycle for TLC. *)
EXTENDS SubscriptionLifecycle, TLC

CONSTANTS c1, c2, c3, w1, w2, u1, u2

Symmetry == Permutations(Owners) \cup Permutations(Callers \ Owners)
            \cup Permutations(Workers) \cup Permutations(URLs)
=============================================================================
