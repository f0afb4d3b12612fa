----------------------------- MODULE MatchFates -----------------------------
(***************************************************************************)
(* What the webhook pipeline promises about a message and a subscription   *)
(* it may match.  The message is offered once.  It is then passed over,    *)
(* suppressed with a row, or accepted; what was accepted waits until it is *)
(* fired or counted as dropped, and vanishes only when the pipeline has    *)
(* been closed.  Nothing else ever happens to it: no match is offered,     *)
(* suppressed, fired or dropped a second time.  A batch moves together, so *)
(* a step may move several matches.                                        *)
(***************************************************************************)
CONSTANTS Subs, Msgs

VARIABLES
    fate,    \* fate[s, m]: what has become of message m for subscription s
    closed   \* the pipeline takes no more tasks

vars == <<fate, closed>>

Matches == Subs \X Msgs
Fates == {"ahead", "waiting", "suppressed", "fired", "dropped", "gone"}

Init == fate = [x \in Matches |-> "ahead"] /\ closed = FALSE

(* What may become of a match in a step. *)
Moves ==
    {<<"ahead", "waiting">>, <<"ahead", "suppressed">>, <<"ahead", "gone">>,
     <<"waiting", "fired">>, <<"waiting", "dropped">>}
Stays == {<<f, f>> : f \in Fates}
Vanishes == <<"waiting", "gone">>

Progress ==
    /\ fate' \in [Matches -> Fates]
    /\ \A x \in Matches :
          LET move == <<fate[x], fate'[x]>>
          IN  move \in Moves \cup Stays \/ (closed /\ move = Vanishes)
    /\ UNCHANGED closed

Close == ~closed /\ closed' = TRUE /\ UNCHANGED fate

Next == Progress \/ Close

Spec == Init /\ [][Next]_vars
=============================================================================
