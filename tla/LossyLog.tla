------------------------------ MODULE LossyLog ------------------------------
(***************************************************************************)
(* What the durable history promises its publishers: a log that never      *)
(* makes them wait.  An item is refused only when Depth items are waiting  *)
(* already; the accepted ones are stored in the order of their acceptance, *)
(* each at most once; whatever is refused or cannot be stored is counted.  *)
(***************************************************************************)
EXTENDS Naturals, Sequences

CONSTANTS Items, Depth

VARIABLES
    pending,  \* accepted and neither stored nor lost, oldest first
    stored,   \* the log
    lost      \* how many items were refused or failed

vars == <<pending, stored, lost>>

Init == pending = <<>> /\ stored = <<>> /\ lost = 0

(* One item may be on its way to the disk beside the Depth waiting ones. *)
Accept(i) ==
    /\ Len(pending) <= Depth
    /\ pending' = Append(pending, i)
    /\ UNCHANGED <<stored, lost>>

Refuse ==
    /\ Len(pending) >= Depth
    /\ lost' = lost + 1
    /\ UNCHANGED <<pending, stored>>

Store ==
    /\ pending # <<>>
    /\ stored' = Append(stored, Head(pending))
    /\ pending' = Tail(pending)
    /\ UNCHANGED lost

Fail ==
    /\ pending # <<>>
    /\ pending' = Tail(pending)
    /\ lost' = lost + 1
    /\ UNCHANGED stored

Next == (\E i \in Items : Accept(i)) \/ Refuse \/ Store \/ Fail

Spec == Init /\ [][Next]_vars
=============================================================================
