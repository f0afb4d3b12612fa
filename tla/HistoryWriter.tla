--------------------------- MODULE HistoryWriter ---------------------------
(***************************************************************************)
(* The durable message history of internal/server/history.go and the life  *)
(* of Server.Serve around it: publishers hand messages to a bounded queue  *)
(* without ever blocking, one goroutine writes them to the store, and on   *)
(* shutdown it drains the queue while connections still finish their work. *)
(*                                                                         *)
(* A connection is accepted by Serve and counted in its wait group.  An    *)
(* inbound publisher is a REST handler in PublishInbound: nobody waits for *)
(* it.                                                                     *)
(***************************************************************************)
EXTENDS Integers, Sequences

CONSTANTS
    Conns,         \* connections
    Inbounds,      \* REST handlers that call PublishInbound
    Depth,         \* historyWriterDepth
    MaxMsgs,       \* bound: messages of one publisher
    StoreMayFail,  \* whether RecordMessage may return an error
    None

Publishers == Conns \cup Inbounds
Messages == [from : Publishers, n : 1..MaxMsgs]

ASSUME HistoryAssumption ==
    /\ Conns \cap Inbounds = {}
    /\ Depth \in Nat \ {0}
    /\ MaxMsgs \in Nat
    /\ StoreMayFail \in BOOLEAN
    /\ None \notin Messages

VARIABLES
    ctxDone,   \* the context given to Serve is cancelled
    stop,      \* historyWriter.stop is closed
    listener,  \* none, open, closed
    serve,     \* Serve: listen, accept, wait, close, join, returned
    pub,       \* a publisher: [pc, sent]
    queue,     \* historyWriter.in
    writer,    \* run: select, write, drain, drain_write, exited
    hand,      \* the message run has taken from the queue
    rows,      \* the messages table, in the order of insertion
    dropped,   \* historyWriter.dropped
    offered,   \* history: calls of enqueue
    late       \* history: the drain ran into its deadline

serveVars == <<stop, listener, serve>>
writerVars == <<writer, hand, rows, late>>
vars == <<ctxDone, serveVars, pub, queue, writerVars, dropped, offered>>
-----------------------------------------------------------------------------
Init ==
    /\ ctxDone = FALSE
    /\ stop = FALSE
    /\ listener = "none"
    /\ serve = "listen"
    /\ pub = [p \in Publishers |-> [pc |-> IF p \in Conns THEN "new" ELSE "idle", sent |-> 0]]
    /\ queue = <<>>
    /\ writer = "select"
    /\ hand = None
    /\ rows = <<>>
    /\ dropped = 0
    /\ offered = 0
    /\ late = FALSE
-----------------------------------------------------------------------------
(***************************************************************************)
(* Serve and its accept loop.  The writer's goroutine has been started.    *)
(***************************************************************************)
Cancel ==
    /\ ~ctxDone
    /\ ctxDone' = TRUE
    /\ UNCHANGED <<serveVars, pub, queue, writerVars, dropped, offered>>

(* A failed Listen returns at once, through the deferred history.Close. *)
Listen ==
    /\ serve = "listen"
    /\ \/ serve' = "accept" /\ listener' = "open"
       \/ serve' = "close" /\ UNCHANGED listener
    /\ UNCHANGED <<ctxDone, stop, pub, queue, writerVars, dropped, offered>>

Accept(c) ==
    /\ serve = "accept"
    /\ listener = "open"
    /\ pub[c].pc = "new"
    /\ pub' = [pub EXCEPT ![c].pc = "idle"]
    /\ UNCHANGED <<ctxDone, serveVars, queue, writerVars, dropped, offered>>

CloseListener ==
    /\ ctxDone
    /\ listener = "open"
    /\ listener' = "closed"
    /\ UNCHANGED <<ctxDone, stop, serve, pub, queue, writerVars, dropped, offered>>

(* Accept returns net.ErrClosed; any other error is retried. *)
AcceptEndsRetried ==
    /\ serve = "accept"
    /\ listener = "closed"
    /\ UNCHANGED vars
AcceptEnds ==
    /\ serve = "accept"
    /\ listener = "closed"
    /\ serve' = "wait"
    /\ UNCHANGED <<ctxDone, stop, listener, pub, queue, writerVars, dropped, offered>>

(* The wait group holds the connections and the writer's goroutine. *)
Serving(c) == pub[c].pc \in {"idle", "enqueue"}
WaitDoneForWriter ==
    /\ serve = "wait"
    /\ writer = "exited"
    /\ serve' = "close"
    /\ UNCHANGED <<ctxDone, stop, listener, pub, queue, writerVars, dropped, offered>>
WaitDone ==
    /\ serve = "wait"
    /\ \A c \in Conns : ~Serving(c)
    /\ writer = "exited"
    /\ serve' = "close"
    /\ UNCHANGED <<ctxDone, stop, listener, pub, queue, writerVars, dropped, offered>>

(* historyWriter.Close: close stop, then wait for run to return. *)
CloseStop ==
    /\ serve = "close"
    /\ stop' = TRUE
    /\ serve' = "join"
    /\ UNCHANGED <<ctxDone, listener, pub, queue, writerVars, dropped, offered>>

CloseDone ==
    /\ serve = "join"
    /\ writer = "exited"
    /\ serve' = "returned"
    /\ UNCHANGED <<ctxDone, stop, listener, pub, queue, writerVars, dropped, offered>>
-----------------------------------------------------------------------------
(***************************************************************************)
(* Publishers: handleMsg, emitChanopSystemMsg and PublishInbound.          *)
(***************************************************************************)

(* The members get the message first. *)
Broadcast(p) ==
    /\ pub[p].pc = "idle"
    /\ pub[p].sent < MaxMsgs
    /\ pub' = [pub EXCEPT ![p].pc = "enqueue", ![p].sent = @ + 1]
    /\ UNCHANGED <<ctxDone, serveVars, queue, writerVars, dropped, offered>>

LastSent(p) == [from |-> p, n |-> pub[p].sent]

EnqueueOneShort(p) ==
    /\ pub[p].pc = "enqueue"
    /\ pub' = [pub EXCEPT ![p].pc = "idle"]
    /\ offered' = offered + 1
    /\ IF Len(queue) + 1 < Depth
       THEN queue' = Append(queue, LastSent(p)) /\ UNCHANGED dropped
       ELSE dropped' = dropped + 1 /\ UNCHANGED queue
    /\ UNCHANGED <<ctxDone, serveVars, writerVars>>
Enqueue(p) ==
    /\ pub[p].pc = "enqueue"
    /\ pub' = [pub EXCEPT ![p].pc = "idle"]
    /\ offered' = offered + 1
    /\ IF Len(queue) < Depth
       THEN queue' = Append(queue, LastSent(p)) /\ UNCHANGED dropped
       ELSE dropped' = dropped + 1 /\ UNCHANGED queue
    /\ UNCHANGED <<ctxDone, serveVars, writerVars>>

(* Conn.serve returns: the client left, or the context ended (Connection). *)
ConnExit(c) ==
    /\ pub[c].pc = "idle"
    /\ pub' = [pub EXCEPT ![c].pc = "gone"]
    /\ UNCHANGED <<ctxDone, serveVars, queue, writerVars, dropped, offered>>
-----------------------------------------------------------------------------
(***************************************************************************)
(* run, drain and write.                                                   *)
(***************************************************************************)
Take(from, to) ==
    /\ writer = from
    /\ queue # <<>>
    /\ hand' = Head(queue)
    /\ queue' = Tail(queue)
    /\ writer' = to
    /\ UNCHANGED <<ctxDone, serveVars, pub, rows, late, dropped, offered>>

RunTake == Take("select", "write")
DrainTake == Take("drain", "drain_write")

(* The select is free to take messages even when the context has ended. *)
RunStops ==
    /\ writer = "select"
    /\ ctxDone \/ stop
    /\ writer' = "drain"
    /\ UNCHANGED <<ctxDone, serveVars, pub, queue, hand, rows, late, dropped, offered>>

(* drain leaves when it finds the queue empty, or after its two seconds. *)
DrainEnds ==
    /\ writer = "drain"
    /\ writer' = "exited"
    /\ late' = (queue # <<>>)
    /\ UNCHANGED <<ctxDone, serveVars, pub, queue, hand, rows, dropped, offered>>

(* RecordMessage inserts the row, or its failure is counted. *)
AfterWrite == IF writer = "write" THEN "select" ELSE "drain"
RecordUncounted ==
    \/ rows' = Append(rows, hand) /\ UNCHANGED <<queue, dropped>>
    \/ StoreMayFail /\ UNCHANGED <<queue, rows, dropped>>
RecordLater ==
    \/ rows' = Append(rows, hand) /\ UNCHANGED <<queue, dropped>>
    \/ /\ StoreMayFail /\ Len(queue) < Depth
       /\ queue' = Append(queue, hand) /\ UNCHANGED <<rows, dropped>>
Record ==
    \/ rows' = Append(rows, hand) /\ UNCHANGED <<queue, dropped>>
    \/ StoreMayFail /\ dropped' = dropped + 1 /\ UNCHANGED <<queue, rows>>

Write ==
    /\ writer \in {"write", "drain_write"}
    /\ Record
    /\ hand' = None
    /\ writer' = AfterWrite
    /\ UNCHANGED <<ctxDone, serveVars, pub, late, offered>>
-----------------------------------------------------------------------------
ServeStep ==
    Listen \/ CloseListener \/ AcceptEnds \/ WaitDone \/ CloseStop \/ CloseDone

WriterStep == RunTake \/ RunStops \/ DrainTake \/ DrainEnds \/ Write

Next ==
    \/ Cancel
    \/ ServeStep
    \/ \E c \in Conns : Accept(c) \/ ConnExit(c)
    \/ \E p \in Publishers : Broadcast(p) \/ Enqueue(p)
    \/ WriterStep

Spec == Init /\ [][Next]_vars

(* Fairness: Serve's goroutines and the writer run when they can, and      *)
(* RecordMessage returns within its timeout.  A handler that has broadcast *)
(* reaches enqueue.  A connection ends once the context does: that is      *)
(* ServeEnds of Connection.  Nobody has to connect or to publish.          *)
(* run's select picks at random, so endless messages do not starve its     *)
(* other cases; here the messages run out.                                 *)
FairSpec ==
    /\ Spec
    /\ WF_vars(ServeStep)
    /\ WF_vars(WriterStep)
    /\ \A p \in Publishers : WF_vars(Enqueue(p))
    /\ \A c \in Conns : WF_vars(ctxDone /\ ConnExit(c))
-----------------------------------------------------------------------------
(* Every variable has its type, and the queue its bound. *)
TypeOK ==
    /\ ctxDone \in BOOLEAN /\ stop \in BOOLEAN /\ late \in BOOLEAN
    /\ listener \in {"none", "open", "closed"}
    /\ serve \in {"listen", "accept", "wait", "close", "join", "returned"}
    /\ pub \in [Publishers -> [pc : {"new", "idle", "enqueue", "gone"}, sent : 0..MaxMsgs]]
    /\ queue \in Seq(Messages) /\ Len(queue) <= Depth
    /\ writer \in {"select", "write", "drain", "drain_write", "exited"}
    /\ hand \in Messages \cup {None}
    /\ rows \in Seq(Messages)
    /\ dropped \in Nat
    /\ offered \in Nat

(* history.go, historyWriter: "Backpressure is dropped-with-counter": at   *)
(* every moment each message handed over is queued, in the writer's hand,  *)
(* stored, or counted, exactly once, also through failures and shutdown.   *)
InHand == IF hand = None THEN 0 ELSE 1
EveryMessageAccounted == offered = Len(rows) + dropped + Len(queue) + InHand

(* history.go, run, write and drain: what one sender wrote is stored in    *)
(* the order it was sent, whatever is dropped between and wherever the     *)
(* shutdown falls.                                                         *)
SenderOrderKept ==
    \A i, j \in DOMAIN rows :
        (i < j /\ rows[i].from = rows[j].from) => rows[i].n < rows[j].n

(* server.go, Serve: it "tears it down before returning": when Serve has   *)
(* returned, no connection runs, the writer is gone with nothing in its    *)
(* hand and the port is free.                                              *)
ServeLeavesNobody ==
    serve = "returned" =>
        /\ \A c \in Conns : ~Serving(c)
        /\ writer = "exited" /\ hand = None
        /\ listener # "open"

(* server.go, Serve and history.go, Close: shutdown and a failed Listen    *)
(* both end in Serve's return: the wait group, the writer and the deferred *)
(* Close never wait for each other.                                        *)
ServeReturns == (ctxDone \/ serve = "close") ~> serve = "returned"

(* history.go: seen from outside, queue and writer are one lossy log.  The *)
(* message in the writer's hand is the oldest of those that wait, enqueue  *)
(* refuses only when the queue is full, a taken message is stored or lost  *)
(* before the next one, and shutdown is no exception.                      *)
Waiting == IF hand = None THEN queue ELSE <<hand>> \o queue
Log == INSTANCE LossyLog WITH
           Items <- Messages, pending <- Waiting, stored <- rows, lost <- dropped
IsLossyLog == Log!Spec
=============================================================================
