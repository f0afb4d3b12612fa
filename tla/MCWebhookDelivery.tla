------------------------- MODULE MCWebhookDelivery -------------------------
(* Instances of WebhookDelivery for TLC. *)
EXTENDS WebhookDelivery, TLC

CONSTANTS s1, b1, o1, o2, n1, n2, w1, w2

OneOwner == [s \in Subs |-> b1]

(* Debounced with a cooldown; immediate with a cooldown; immediate and     *)
(* capped.                                                                 *)
Debounced == [debounce |-> 1, cooldown |-> 1, cap |-> 0, ctxLines |-> 0]
Immediate == [debounce |-> 0, cooldown |-> 2, cap |-> 0, ctxLines |-> 0]
Capped    == [debounce |-> 0, cooldown |-> 0, cap |-> 1, ctxLines |-> 0]

GateConfigs == {Debounced, Immediate}
MixedConfigs == {Debounced, Capped}

(* Focus: the control plane is quiet but for updates of the subscription. *)
NoPauseNoShutdown == paused = {} /\ ~stopped /\ ~ctxDone

Symmetry == Permutations(Objs) \cup Permutations(Notifiers) \cup Permutations(Workers)
=============================================================================
