--------------------------- MODULE LeaderElection ---------------------------
(***************************************************************************)
(* The Postgres elector of internal/ha: nodes that compete for one         *)
(* advisory lock.  The lock belongs to a database session; a node leads    *)
(* while the context it got from Acquire is not cancelled.                 *)
(*                                                                         *)
(* A session is named by the connection that opened it.  The client may    *)
(* lose it while the server still keeps it (and its lock), and the server  *)
(* may end it while the client has not noticed.  A node uses its elector   *)
(* the way the comment on Elector says: Acquire, work until the context is *)
(* done or the node has enough, Release, and perhaps once more.            *)
(***************************************************************************)
EXTENDS Naturals, FiniteSets

CONSTANTS
    Nodes,
    MaxSessions,   \* bound: sessions opened
    Nil

ASSUME SessionsAssumption == MaxSessions \in Nat /\ Nil \notin 1..MaxSessions /\ Nil \notin Nodes

Sessions == 1..MaxSessions

VARIABLES
    pc,           \* what the node's caller of the elector does
    conn,         \* the session of its last Acquire
    held,         \* Postgres.held
    cancel,       \* Postgres.cancel: the session whose context it cancels
    parentDone,   \* nodes whose own context is cancelled
    leading,      \* sessions whose leader context is not cancelled
    beat,         \* the heartbeat goroutine of a session
    closing,      \* sessions a Release has taken and not closed yet
    owner,        \* the node that opened a session
    usable,       \* sessions whose connection the client has not closed
    broken,       \* sessions the server keeps, although their client is lost
    kept,         \* sessions the server keeps
    advisoryLock  \* the session that holds the advisory lock

electorVars == <<held, cancel, leading, beat, closing>>
serverVars == <<owner, usable, broken, kept, advisoryLock>>
electionVars == <<pc, conn, parentDone, electorVars, serverVars>>

ElectionInit ==
    /\ pc = [p \in Nodes |-> "out"]
    /\ conn = [p \in Nodes |-> Nil]
    /\ held = [p \in Nodes |-> Nil]
    /\ cancel = [p \in Nodes |-> Nil]
    /\ parentDone = {}
    /\ leading = {}
    /\ beat = [c \in Sessions |-> "none"]
    /\ closing = {}
    /\ owner = [c \in Sessions |-> Nil]
    /\ usable = {}
    /\ broken = {}
    /\ kept = {}
    /\ advisoryLock = Nil
-----------------------------------------------------------------------------
Works(c) == c \in usable /\ c \notin broken /\ c \in kept

(* The lock without session c. *)
Unlocked(c) == IF advisoryLock = c THEN Nil ELSE advisoryLock

(* conn.Close hands a sound connection back to its pool: the session goes  *)
(* on.  A broken one is thrown away.                                       *)
CloseConn(c) ==
    /\ usable' = usable \ {c}
    /\ broken' = IF Works(c) THEN broken ELSE broken \cup ({c} \cap kept)

FreshSession == {c \in Sessions : owner[c] = Nil /\ \A d \in 1..(c - 1) : owner[d] # Nil}

(***************************************************************************)
(* Acquire.                                                                *)
(***************************************************************************)
Connect(p) ==
    /\ pc[p] = "out" /\ p \notin parentDone
    /\ \E c \in FreshSession :
          /\ owner' = [owner EXCEPT ![c] = p]
          /\ conn' = [conn EXCEPT ![p] = c]
          /\ usable' = usable \cup {c}
          /\ kept' = kept \cup {c}
    /\ pc' = [pc EXCEPT ![p] = "try"]
    /\ UNCHANGED <<parentDone, electorVars, broken, advisoryLock>>

(* The server runs pg_try_advisory_lock; while another session has the     *)
(* lock, it is tried again every AcquireRetryInterval.                     *)
TryLock(p) ==
    /\ pc[p] = "try" /\ p \notin parentDone
    /\ Works(conn[p])
    /\ advisoryLock = Nil
    /\ advisoryLock' = conn[p]
    /\ pc' = [pc EXCEPT ![p] = "granted"]
    /\ UNCHANGED <<conn, parentDone, electorVars, owner, usable, broken, kept>>

(* Scan returns the answer, even if the parent is done by then. *)
Granted(p) ==
    /\ pc[p] = "granted"
    /\ Works(conn[p])
    /\ pc' = [pc EXCEPT ![p] = "locked"]
    /\ UNCHANGED <<conn, parentDone, electorVars, serverVars>>

(* The parent is done or the query fails: the connection is closed.  Scan  *)
(* may fail after the server has granted the lock, which then stays with   *)
(* the session.                                                            *)
AcquireFails(p) ==
    /\ pc[p] \in {"try", "granted"}
    /\ p \in parentDone \/ ~Works(conn[p])
    /\ CloseConn(conn[p])
    /\ pc' = [pc EXCEPT ![p] = "out"]
    /\ UNCHANGED <<conn, parentDone, electorVars, owner, kept, advisoryLock>>

(* The leader context is a child of the parent's. *)
Lead(p) ==
    /\ pc[p] = "locked"
    /\ held' = [held EXCEPT ![p] = conn[p]]
    /\ cancel' = [cancel EXCEPT ![p] = conn[p]]
    /\ leading' = IF p \in parentDone THEN leading ELSE leading \cup {conn[p]}
    /\ beat' = [beat EXCEPT ![conn[p]] = "wait"]
    /\ pc' = [pc EXCEPT ![p] = "lead"]
    /\ UNCHANGED <<conn, parentDone, closing, serverVars>>
-----------------------------------------------------------------------------
(***************************************************************************)
(* Release: take the session and its cancel function under the mutex and   *)
(* cancel, then unlock and close.                                          *)
(***************************************************************************)
TakeUncancelled(p) ==
    /\ held' = [held EXCEPT ![p] = Nil]
    /\ cancel' = [cancel EXCEPT ![p] = Nil]
    /\ UNCHANGED leading
    /\ closing' = closing \cup ({held[p]} \ {Nil})
Take(p) ==
    /\ held' = [held EXCEPT ![p] = Nil]
    /\ cancel' = [cancel EXCEPT ![p] = Nil]
    /\ leading' = leading \ {cancel[p]}
    /\ closing' = closing \cup ({held[p]} \ {Nil})

(* When a heartbeat has taken the session before, nothing is left to do.   *)
Release(p) ==
    /\ pc[p] = "lead"
    /\ Take(p)
    /\ pc' = [pc EXCEPT ![p] = IF held[p] = Nil THEN "out" ELSE "release"]
    /\ UNCHANGED <<conn, parentDone, beat, serverVars>>

(* pg_advisory_unlock and Close.  When the unlock fails, the lock stays    *)
(* with the session.                                                       *)
CloseStillLocked(c) ==
    /\ c \in closing
    /\ closing' = closing \ {c}
    /\ CloseConn(c)
    /\ UNCHANGED <<pc, conn, parentDone, held, cancel, leading, beat, owner, kept, advisoryLock>>
Close(c) ==
    /\ c \in closing
    /\ closing' = closing \ {c}
    /\ advisoryLock' = IF Works(c) THEN Unlocked(c) ELSE advisoryLock
    /\ CloseConn(c)
    /\ UNCHANGED <<pc, conn, parentDone, held, cancel, leading, beat, owner, kept>>

ReleaseReturns(p) ==
    /\ pc[p] = "release"
    /\ conn[p] \notin closing
    /\ pc' = [pc EXCEPT ![p] = "out"]
    /\ UNCHANGED <<conn, parentDone, electorVars, serverVars>>
-----------------------------------------------------------------------------
(***************************************************************************)
(* heartbeat: a select over the leader context, the parent and the ticker, *)
(* any of which may be ready at once.  A ping that succeeds changes        *)
(* nothing.                                                                *)
(***************************************************************************)
HeartbeatEnds(c) ==
    /\ beat[c] = "wait"
    /\ c \notin leading
    /\ beat' = [beat EXCEPT ![c] = "ended"]
    /\ UNCHANGED <<pc, conn, parentDone, held, cancel, leading, closing, serverVars>>

(* Release of whatever the elector holds by now. *)
HeartbeatReleases(c) ==
    /\ beat[c] = "wait"
    /\ owner[c] \in parentDone
    /\ Take(owner[c])
    /\ beat' = [beat EXCEPT ![c] = "ended"]
    /\ UNCHANGED <<pc, conn, parentDone, serverVars>>

(* The ping fails: the session is gone or closed, or the parent is done. *)
PingFails(c) ==
    /\ beat[c] = "wait"
    /\ ~Works(c) \/ owner[c] \in parentDone
    /\ beat' = [beat EXCEPT ![c] = "lost"]
    /\ UNCHANGED <<pc, conn, parentDone, held, cancel, leading, closing, serverVars>>

(* It cancels the context of whatever leadership its node has by now, and  *)
(* leaves held and cancel alone.                                           *)
HeartbeatEndsLost(c) ==
    /\ beat[c] = "lost"
    /\ beat' = [beat EXCEPT ![c] = "ended"]
    /\ UNCHANGED <<pc, conn, parentDone, held, cancel, leading, closing, serverVars>>
HeartbeatCancels(c) ==
    /\ beat[c] = "lost"
    /\ leading' = leading \ {cancel[owner[c]]}
    /\ beat' = [beat EXCEPT ![c] = "ended"]
    /\ UNCHANGED <<pc, conn, parentDone, held, cancel, closing, serverVars>>
-----------------------------------------------------------------------------
(* The node is shut down. *)
ParentCancelled(p) ==
    /\ p \notin parentDone
    /\ parentDone' = parentDone \cup {p}
    /\ leading' = {c \in leading : owner[c] # p}
    /\ UNCHANGED <<pc, conn, held, cancel, beat, closing, serverVars>>

(* The client and the server lose each other. *)
NetworkLost(c) ==
    /\ Works(c)
    /\ broken' = broken \cup {c}
    /\ UNCHANGED <<pc, conn, parentDone, electorVars, owner, usable, kept, advisoryLock>>

(* The server ends a session, and its lock with it: it restarts, or finds  *)
(* the client gone.  What becomes of a session back in the pool is left    *)
(* out.                                                                    *)
ServerEnds(c) ==
    /\ c \in kept
    /\ c \in usable \cup broken
    /\ kept' = kept \ {c}
    /\ broken' = broken \ {c}
    /\ advisoryLock' = Unlocked(c)
    /\ UNCHANGED <<pc, conn, parentDone, electorVars, owner, usable>>
-----------------------------------------------------------------------------
NodeStep(p) ==
    TryLock(p) \/ Granted(p) \/ AcquireFails(p) \/ Lead(p) \/ Release(p) \/ ReleaseReturns(p)

HeartbeatStep(c) ==
    HeartbeatEnds(c) \/ HeartbeatReleases(c) \/ PingFails(c) \/ HeartbeatCancels(c)

ElectionNext ==
    \/ \E p \in Nodes : Connect(p) \/ NodeStep(p) \/ ParentCancelled(p)
    \/ \E c \in Sessions : HeartbeatStep(c) \/ Close(c) \/ NetworkLost(c) \/ ServerEnds(c)

ElectionSpec == ElectionInit /\ [][ElectionNext]_electionVars

(* Fairness: nodes poll, heartbeats tick, a caller whose context is done   *)
(* releases, a Release goes on, and the server ends a session whose client *)
(* is gone.  A leader need not ever release by itself, and nobody has to   *)
(* stand for leader again.                                                 *)
ElectionFairness ==
    /\ \A p \in Nodes : WF_electionVars(NodeStep(p) /\ (pc[p] = "lead" => conn[p] \notin leading))
    /\ \A c \in Sessions :
          /\ WF_electionVars(HeartbeatStep(c))
          /\ WF_electionVars(Close(c))
          /\ WF_electionVars(c \in broken /\ ServerEnds(c))

ElectionFairSpec == ElectionSpec /\ ElectionFairness
-----------------------------------------------------------------------------
(* Every variable has its type, and an elector never keeps a session       *)
(* without its cancel function.                                            *)
ElectionTypeOK ==
    /\ pc \in [Nodes -> {"out", "try", "granted", "locked", "lead", "release"}]
    /\ {conn, held} \subseteq [Nodes -> Sessions \cup {Nil}]
    /\ cancel = held
    /\ parentDone \subseteq Nodes
    /\ leading \cup closing \cup usable \cup kept \subseteq Sessions
    /\ broken \subseteq kept
    /\ beat \in [Sessions -> {"none", "wait", "lost", "ended"}]
    /\ owner \in [Sessions -> Nodes \cup {Nil}]
    /\ advisoryLock \in Sessions \cup {Nil}

(* postgres.go, Release and heartbeat: a node believes it leads while it   *)
(* does not hold the lock only when the server dropped its session; a      *)
(* release never opens such a window, neither the caller's nor the         *)
(* heartbeat's, and a stale heartbeat cancels but never resurrects.        *)
LeaderHoldsLock == \A c \in leading : c \in kept => advisoryLock = c

(* postgres.go, heartbeat: "On heartbeat failure, the returned context     *)
(* cancels".  A leader whose session the server dropped steps down, even   *)
(* if earlier leaderships of its node have heartbeats left.                *)
LostLeaderStepsDown == ~(leading \subseteq kept) ~> leading \subseteq kept

(* An Acquire failed although the server had granted it the lock, and its  *)
(* sound session went back to the pool: nobody will unlock it.             *)
Forgotten ==
    /\ advisoryLock \in kept \ (usable \cup broken)
    /\ beat[advisoryLock] = "none"

(* elector.go: "On failure the standby acquires".  While a node stands by, *)
(* somebody leads sooner or later: neither a crash, nor a partition, nor a *)
(* shutdown in the middle of a release leaves the lock with nobody.  Only  *)
(* a shutdown between the grant of the lock and its answer does.           *)
StandingBy == \E p \in Nodes : pc[p] = "try"
StandbyTakesOver == StandingBy ~> (leading # {} \/ ~StandingBy \/ Forgotten)
=============================================================================
