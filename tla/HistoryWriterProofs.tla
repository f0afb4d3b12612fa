------------------------ MODULE HistoryWriterProofs ------------------------
(***************************************************************************)
(* The writer's books balance and Serve leaves nobody behind, for any      *)
(* number of publishers, any depth of the queue and any failures.          *)
(*                                                                         *)
(* EveryMessageAccounted needs to know that the writer has a message in    *)
(* its hand exactly while it writes, ServeLeavesNobody that connections    *)
(* exist only once there was a listener and that none is left when the     *)
(* wait group lets Serve go.                                               *)
(***************************************************************************)
EXTENDS HistoryWriter, SequenceTheorems, TLAPS

HandWhileWriting == writer \in {"write", "drain_write"} <=> hand # None

ListenerFollowsServe ==
    /\ serve = "listen" => listener = "none"
    /\ serve = "wait" => listener = "closed"
    /\ serve \in {"close", "join", "returned"} => listener # "open"

ConnsWaitedFor ==
    \A c \in Conns :
        /\ listener = "none" => ~Serving(c)
        /\ serve \in {"close", "join", "returned"} => ~Serving(c)

WriterJoined == serve = "returned" => writer = "exited"

SentBeforeEnqueue == \A p \in Publishers : pub[p].pc = "enqueue" => pub[p].sent > 0

Books == TypeOK /\ SentBeforeEnqueue /\ HandWhileWriting /\ EveryMessageAccounted
Lifecycle == ListenerFollowsServe /\ ConnsWaitedFor /\ WriterJoined
Inv == Books /\ Lifecycle

(* The books of an empty writer balance, and nobody is connected. *)
LEMMA InitInv == Init => Inv
<1> SUFFICES ASSUME Init PROVE Inv
  OBVIOUS
<1>1. TypeOK
  <2>1. pub \in [Publishers -> [pc : {"new", "idle", "enqueue", "gone"}, sent : 0..MaxMsgs]]
    BY HistoryAssumption DEF Init
  <2>2. queue \in Seq(Messages) /\ rows \in Seq(Messages) /\ Len(queue) <= Depth
    BY HistoryAssumption DEF Init
  <2> QED
    BY <2>1, <2>2 DEF Init, TypeOK
<1>2. SentBeforeEnqueue
  BY DEF Init, SentBeforeEnqueue
<1>3. EveryMessageAccounted
  BY DEF Init, EveryMessageAccounted, InHand
<1>4. HandWhileWriting
  BY DEF Init, HandWhileWriting
<1>5. Lifecycle
  BY DEF Init, Lifecycle, ListenerFollowsServe, ConnsWaitedFor, WriterJoined, Serving, Publishers
<1> QED
  BY <1>1, <1>2, <1>3, <1>4, <1>5 DEF Inv, Books

(* Steps that leave the queue, the writer and the counters alone. *)
LEMMA BooksUntouched ==
    ASSUME Books, TypeOK', SentBeforeEnqueue',
           UNCHANGED <<queue, writer, hand, rows, dropped, offered>>
    PROVE  Books'
BY DEF Books, HandWhileWriting, EveryMessageAccounted, InHand

(* Steps of Serve, of its listener and of connections move no message. *)
LEMMA ServeBooks == Books /\ (Cancel \/ ServeStep) => Books'
<1> SUFFICES ASSUME Books, Cancel \/ ServeStep PROVE Books'
  OBVIOUS
<1> USE DEF Cancel, ServeStep, Listen, CloseListener, AcceptEnds, WaitDone, CloseStop,
            CloseDone, serveVars, writerVars
<1>1. UNCHANGED <<pub, queue, writer, hand, rows, late, dropped, offered>>
  OBVIOUS
<1>2. /\ ctxDone' \in BOOLEAN /\ stop' \in BOOLEAN
      /\ listener' \in {"none", "open", "closed"}
      /\ serve' \in {"listen", "accept", "wait", "close", "join", "returned"}
  BY DEF Books, TypeOK
<1>3. TypeOK' /\ SentBeforeEnqueue'
  BY <1>1, <1>2 DEF Books, TypeOK, SentBeforeEnqueue
<1> QED
  BY <1>1, <1>3, BooksUntouched

(* A connection that comes, goes or broadcasts moves no message either. *)
LEMMA MoveBooks ==
    ASSUME Books, NEW p \in Publishers,
           (p \in Conns /\ (Accept(p) \/ ConnExit(p))) \/ Broadcast(p)
    PROVE  Books'
<1> USE HistoryAssumption
<1>1. UNCHANGED <<ctxDone, serveVars, queue, writerVars, dropped, offered>>
  BY DEF Accept, ConnExit, Broadcast
<1>2. pub' \in [Publishers -> [pc : {"new", "idle", "enqueue", "gone"}, sent : 0..MaxMsgs]]
  <2>1. CASE Accept(p) \/ ConnExit(p)
    BY ZenonT(60), <2>1 DEF Books, TypeOK, Accept, ConnExit
  <2>2. CASE Broadcast(p)
    <3>1. pub[p].sent + 1 \in 0..MaxMsgs
      BY <2>2 DEF Books, TypeOK, Broadcast
    <3> QED
      BY <2>2, <3>1 DEF Books, TypeOK, Broadcast
  <2> QED
    BY <2>1, <2>2
<1>3. SentBeforeEnqueue'
  BY DEF Books, TypeOK, SentBeforeEnqueue, Accept, ConnExit, Broadcast
<1>4. TypeOK'
  BY <1>1, <1>2 DEF Books, TypeOK, serveVars, writerVars
<1> QED
  BY <1>1, <1>3, <1>4, BooksUntouched DEF writerVars

(* enqueue adds one message to the queue or one to the counter. *)
LEMMA EnqueueBooks ==
    ASSUME Books, NEW p \in Publishers, Enqueue(p)
    PROVE  Books'
<1> USE HistoryAssumption
<1>1. LastSent(p) \in Messages
  BY DEF Books, TypeOK, SentBeforeEnqueue, Enqueue, LastSent, Messages
<1>2. UNCHANGED <<ctxDone, stop, listener, serve, writer, hand, rows, late>> /\ offered' = offered + 1
  BY DEF Enqueue, serveVars, writerVars
<1>3. pub' \in [Publishers -> [pc : {"new", "idle", "enqueue", "gone"}, sent : 0..MaxMsgs]]
  BY DEF Books, TypeOK, Enqueue
<1>4. SentBeforeEnqueue'
  BY DEF Books, TypeOK, SentBeforeEnqueue, Enqueue
<1>5. /\ queue' \in Seq(Messages) /\ Len(queue') <= Depth /\ dropped' \in Nat
      /\ Len(queue') + dropped' = Len(queue) + dropped + 1
  <2>1. CASE Len(queue) < Depth
    <3>1. queue' = Append(queue, LastSent(p)) /\ dropped' = dropped
      BY <2>1 DEF Enqueue
    <3> QED
      BY <1>1, <2>1, <3>1 DEF Books, TypeOK
  <2>2. CASE ~(Len(queue) < Depth)
    <3>1. queue' = queue /\ dropped' = dropped + 1
      BY <2>2 DEF Enqueue
    <3>2. queue \in Seq(Messages) /\ Len(queue) <= Depth /\ dropped \in Nat
      BY DEF Books, TypeOK
    <3>3. Len(queue) \in Nat
      BY <3>2
    <3> QED
      BY <3>1, <3>2, <3>3
  <2> QED
    BY <2>1, <2>2
<1>6. TypeOK'
  BY <1>2, <1>3, <1>5 DEF Books, TypeOK
<1>7. InHand' = InHand /\ InHand \in Nat /\ Len(queue) \in Nat /\ Len(queue') \in Nat
      /\ Len(rows) \in Nat
  BY <1>2, <1>5 DEF InHand, Books, TypeOK
<1>8. EveryMessageAccounted'
  <2>1. offered = Len(rows) + dropped + Len(queue) + InHand /\ dropped \in Nat /\ dropped' \in Nat
    BY <1>5 DEF Books, TypeOK, EveryMessageAccounted
  <2>2. rows' = rows
    BY <1>2
  <2>3. offered + 1 = Len(rows) + dropped' + Len(queue') + InHand
    BY SMTT(60), <1>5, <1>7, <2>1
  <2> QED
    BY <1>2, <1>7, <2>2, <2>3 DEF EveryMessageAccounted
<1> QED
  BY <1>2, <1>4, <1>6, <1>8 DEF Books, HandWhileWriting

(* The writer takes a message into its hand, stores or counts it. *)
LEMMA WriterBooks == Books /\ WriterStep => Books'
<1> SUFFICES ASSUME Books, WriterStep PROVE Books'
  OBVIOUS
<1> USE HistoryAssumption
<1>1. UNCHANGED <<ctxDone, stop, listener, serve, pub, offered>> /\ SentBeforeEnqueue'
  BY DEF WriterStep, RunTake, DrainTake, Take, RunStops, DrainEnds, Write, serveVars, Books,
         SentBeforeEnqueue
<1>2. CASE RunTake \/ DrainTake
  <2>1. /\ queue # <<>> /\ queue' = Tail(queue) /\ hand' = Head(queue)
        /\ writer \in {"select", "drain"} /\ writer' \in {"write", "drain_write"}
        /\ UNCHANGED <<rows, late, dropped>>
    BY <1>2 DEF RunTake, DrainTake, Take
  <2>2. Head(queue) \in Messages /\ queue' \in Seq(Messages) /\ Len(queue') = Len(queue) - 1
    BY <2>1 DEF Books, TypeOK
  <2>3. hand = None /\ hand' # None
    BY <2>1, <2>2 DEF Books, HandWhileWriting
  <2>4. TypeOK'
    BY <1>1, <2>1, <2>2 DEF Books, TypeOK
  <2>5. EveryMessageAccounted'
    BY <1>1, <2>1, <2>2, <2>3 DEF Books, TypeOK, EveryMessageAccounted, InHand
  <2> QED
    BY <1>1, <2>1, <2>3, <2>4, <2>5 DEF Books, HandWhileWriting
<1>3. CASE RunStops \/ DrainEnds
  <2>1. /\ writer \in {"select", "drain"} /\ writer' \in {"drain", "exited"}
        /\ late' \in BOOLEAN
        /\ UNCHANGED <<queue, hand, rows, dropped>>
    BY <1>3 DEF RunStops, DrainEnds, Books, TypeOK
  <2> QED
    BY <1>1, <2>1 DEF Books, TypeOK, HandWhileWriting, EveryMessageAccounted, InHand
<1>4. CASE Write
  <2>1. hand \in Messages /\ hand # None
    BY <1>4 DEF Write, Books, TypeOK, HandWhileWriting
  <2>2. /\ UNCHANGED <<queue, late>> /\ hand' = None /\ writer' \in {"select", "drain"}
        /\ rows' \in Seq(Messages) /\ dropped' \in Nat
        /\ Len(rows') + dropped' = Len(rows) + dropped + 1
    <3>1. CASE rows' = Append(rows, hand) /\ UNCHANGED <<queue, dropped>>
      BY <1>4, <2>1, <3>1 DEF Write, AfterWrite, Books, TypeOK
    <3>2. CASE dropped' = dropped + 1 /\ UNCHANGED <<queue, rows>>
      BY <1>4, <3>2 DEF Write, AfterWrite, Books, TypeOK
    <3> QED
      BY <1>4, <3>1, <3>2 DEF Write, Record
  <2>3. TypeOK'
    BY <1>1, <2>2 DEF Books, TypeOK
  <2>4. Len(rows) \in Nat /\ Len(rows') \in Nat /\ Len(queue) \in Nat
    BY <2>2 DEF Books, TypeOK
  <2>5. EveryMessageAccounted'
    BY <1>1, <2>1, <2>2, <2>4 DEF Books, TypeOK, EveryMessageAccounted, InHand
  <2> QED
    BY <1>1, <2>2, <2>3, <2>5 DEF Books, HandWhileWriting
<1> QED
  BY <1>2, <1>3, <1>4 DEF WriterStep

(* Serve's own steps: each establishes what the next state of Serve needs. *)
LEMMA ServeLifecycle == Inv /\ (Cancel \/ ServeStep) => Lifecycle'
<1> SUFFICES ASSUME Inv, Cancel \/ ServeStep PROVE Lifecycle'
  OBVIOUS
<1> USE DEF Inv, Lifecycle, ListenerFollowsServe, ConnsWaitedFor, WriterJoined, Serving,
            serveVars, writerVars
<1>1. CASE Cancel
  BY <1>1 DEF Cancel
<1>2. CASE Listen
  BY <1>2 DEF Listen
<1>3. CASE CloseListener
  BY <1>3 DEF CloseListener
<1>4. CASE AcceptEnds
  BY <1>4 DEF AcceptEnds
<1>5. CASE WaitDone
  BY <1>5 DEF WaitDone
<1>6. CASE CloseStop
  BY <1>6 DEF CloseStop
<1>7. CASE CloseDone
  BY <1>7 DEF CloseDone
<1> QED
  BY <1>1, <1>2, <1>3, <1>4, <1>5, <1>6, <1>7 DEF ServeStep

(* A publisher starts to serve only while the accept loop runs. *)
LEMMA PublisherLifecycle ==
    ASSUME Inv, NEW p \in Publishers,
           (p \in Conns /\ (Accept(p) \/ ConnExit(p))) \/ Broadcast(p) \/ Enqueue(p)
    PROVE  Lifecycle'
<1>1. UNCHANGED <<listener, serve, writer>>
  BY DEF Accept, ConnExit, Broadcast, Enqueue, serveVars, writerVars
<1>2. \A c \in Conns : Serving(c)' => Serving(c) \/ (serve = "accept" /\ listener = "open")
  <2> SUFFICES ASSUME NEW c \in Conns, Serving(c)'
               PROVE  Serving(c) \/ (serve = "accept" /\ listener = "open")
    OBVIOUS
  <2>1. c \in Publishers
    BY DEF Publishers
  <2> QED
    BY <2>1 DEF Accept, ConnExit, Broadcast, Enqueue, Inv, Books, TypeOK, Serving
<1> QED
  BY <1>1, <1>2 DEF Inv, Lifecycle, ListenerFollowsServe, ConnsWaitedFor, WriterJoined

(* A writer that has left stays away. *)
LEMMA WriterLifecycle == Inv /\ WriterStep => Lifecycle'
<1> SUFFICES ASSUME Inv, WriterStep PROVE Lifecycle'
  OBVIOUS
<1>1. UNCHANGED <<listener, serve, pub>> /\ writer # "exited"
  BY DEF WriterStep, RunTake, DrainTake, Take, RunStops, DrainEnds, Write, serveVars
<1> QED
  BY <1>1 DEF Inv, Lifecycle, ListenerFollowsServe, ConnsWaitedFor, WriterJoined, Serving

(* Every step of the system keeps the invariant. *)
LEMMA NextInv == Inv /\ [Next]_vars => Inv'
<1> SUFFICES ASSUME Inv, [Next]_vars PROVE Inv'
  OBVIOUS
<1>1. CASE Cancel \/ ServeStep
  BY <1>1, ServeBooks, ServeLifecycle DEF Inv
<1>2. ASSUME NEW c \in Conns, Accept(c) \/ ConnExit(c) PROVE Inv'
  <2>1. c \in Publishers
    BY DEF Publishers
  <2> QED
    BY <1>2, <2>1, MoveBooks, PublisherLifecycle DEF Inv
<1>3. ASSUME NEW p \in Publishers, Broadcast(p) PROVE Inv'
  BY <1>3, MoveBooks, PublisherLifecycle DEF Inv
<1>4. ASSUME NEW p \in Publishers, Enqueue(p) PROVE Inv'
  BY <1>4, EnqueueBooks, PublisherLifecycle DEF Inv
<1>5. CASE WriterStep
  BY <1>5, WriterBooks, WriterLifecycle DEF Inv
<1>6. CASE UNCHANGED vars
  BY <1>6 DEF vars, serveVars, writerVars, Inv, Books, TypeOK, SentBeforeEnqueue,
              HandWhileWriting, EveryMessageAccounted, InHand, Lifecycle,
              ListenerFollowsServe, ConnsWaitedFor, WriterJoined, Serving
<1> QED
  BY <1>1, <1>2, <1>3, <1>4, <1>5, <1>6 DEF Next

(* Inv is an invariant of every behaviour. *)
THEOREM InvHolds == Spec => []Inv
BY InitInv, NextInv, PTL DEF Spec

(* history.go: every message handed over is queued, in the writer's hand,  *)
(* stored or counted, exactly once.                                        *)
THEOREM BooksBalance == Spec => []EveryMessageAccounted
<1>1. Inv => EveryMessageAccounted
  BY DEF Inv, Books
<1> QED
  BY <1>1, InvHolds, PTL

(* server.go, Serve: when it has returned, the connections and the writer  *)
(* are gone and the port is free.                                          *)
THEOREM ServeReturnsAlone == Spec => []ServeLeavesNobody
<1>1. Inv => ServeLeavesNobody
  BY DEF Inv, Books, Lifecycle, HandWhileWriting, ListenerFollowsServe, ConnsWaitedFor,
         WriterJoined, ServeLeavesNobody
<1> QED
  BY <1>1, InvHolds, PTL
(* history.go: every variable keeps its type and the queue its bound. *)
THEOREM HistoryTypeCorrect == Spec => []TypeOK
<1>1. Inv => TypeOK
  BY DEF Inv, Books
<1> QED
  BY <1>1, InvHolds, PTL

-----------------------------------------------------------------------------
(***************************************************************************)
(* The writer implements LossyLog.  Only three kinds of step touch what    *)
(* the log sees: enqueue accepts or refuses, Write stores or fails; taking *)
(* a message into the hand changes nothing, because the hand counts as the *)
(* head of what waits.                                                     *)
(***************************************************************************)

(* Facts about sequences that the steps need. *)
LEMMA HandIsHead ==
    ASSUME NEW S, NEW q \in Seq(S), NEW m \in S
    PROVE  /\ <<m>> \o q \in Seq(S) /\ <<m>> \o q # <<>>
           /\ Head(<<m>> \o q) = m /\ Tail(<<m>> \o q) = q
           /\ Len(<<m>> \o q) = Len(q) + 1
           /\ \A x \in S : <<m>> \o Append(q, x) = Append(<<m>> \o q, x)
<1>1. <<m>> \in Seq(S) /\ Len(<<m>>) = 1
  OBVIOUS
<1>2. <<m>> \o q \in Seq(S) /\ Len(<<m>> \o q) = Len(q) + 1
  BY <1>1
<1>3. Head(<<m>> \o q) = m /\ Tail(<<m>> \o q) = q
  <2>1. Head(<<m>> \o q) = m
    BY <1>1, <1>2
  <2>2. Tail(<<m>> \o q) \in Seq(S) /\ Len(Tail(<<m>> \o q)) = Len(q)
    BY <1>2
  <2>3. \A i \in 1..Len(q) : Tail(<<m>> \o q)[i] = q[i]
    BY <1>1, <1>2
  <2> QED
    BY <2>1, <2>2, <2>3, SeqEqual
<1>4. ASSUME NEW x \in S PROVE <<m>> \o Append(q, x) = Append(<<m>> \o q, x)
  <2>1. /\ <<m>> \o Append(q, x) \in Seq(S) /\ Append(<<m>> \o q, x) \in Seq(S)
        /\ Len(<<m>> \o Append(q, x)) = Len(q) + 2 /\ Len(Append(<<m>> \o q, x)) = Len(q) + 2
    BY <1>1, <1>2, <1>4
  <2>2. \A i \in 1..(Len(q) + 2) : (<<m>> \o Append(q, x))[i] = Append(<<m>> \o q, x)[i]
    BY <1>1, <1>2, <1>4
  <2> QED
    BY <2>1, <2>2, SeqEqual
<1> QED
  BY <1>2, <1>3, <1>4

LEMMA TakenIsHead ==
    ASSUME NEW S, NEW q \in Seq(S), q # <<>>
    PROVE  <<Head(q)>> \o Tail(q) = q
<1>1. Head(q) \in S /\ Tail(q) \in Seq(S) /\ Len(Tail(q)) = Len(q) - 1 /\ Len(q) > 0
  OBVIOUS
<1>2. <<Head(q)>> \in Seq(S) /\ Len(<<Head(q)>>) = 1
  BY <1>1
<1>3. <<Head(q)>> \o Tail(q) \in Seq(S) /\ Len(<<Head(q)>> \o Tail(q)) = Len(q)
  BY <1>1, <1>2
<1>4. \A i \in 1..Len(q) : (<<Head(q)>> \o Tail(q))[i] = q[i]
  BY <1>1, <1>2
<1> QED
  BY <1>3, <1>4, SeqEqual

(* enqueue accepts, or refuses with Depth messages waiting. *)
LEMMA EnqueueIsLog ==
    ASSUME Inv, NEW p \in Publishers, Enqueue(p)
    PROVE  Log!Next
<1> USE HistoryAssumption
<1>1. queue \in Seq(Messages) /\ Len(queue) <= Depth /\ Len(queue) \in Nat
  BY DEF Inv, Books, TypeOK
<1>2. LastSent(p) \in Messages /\ hand' = hand /\ rows' = rows
  BY DEF Inv, Books, TypeOK, SentBeforeEnqueue, Enqueue, LastSent, Messages, writerVars
<1>3. Len(Waiting) = Len(queue) + InHand /\ InHand \in 0..1
  BY <1>1, HandIsHead DEF Waiting, InHand, Inv, Books, TypeOK
<1>4. CASE Len(queue) < Depth
  <2>1. queue' = Append(queue, LastSent(p)) /\ dropped' = dropped
    BY <1>4 DEF Enqueue
  <2>2. Waiting' = Append(Waiting, LastSent(p))
    BY <1>1, <1>2, <2>1, HandIsHead DEF Waiting, Inv, Books, TypeOK
  <2>3. Len(Waiting) <= Depth
    BY <1>1, <1>3, <1>4
  <2> QED
    BY <1>2, <2>1, <2>2, <2>3 DEF Log!Next, Log!Accept
<1>5. CASE ~(Len(queue) < Depth)
  <2>1. queue' = queue /\ dropped' = dropped + 1
    BY <1>5 DEF Enqueue
  <2>2. Waiting' = Waiting
    BY <1>2, <2>1 DEF Waiting
  <2>3. Len(Waiting) >= Depth
    BY <1>1, <1>3, <1>5
  <2> QED
    BY <1>2, <2>1, <2>2, <2>3 DEF Log!Next, Log!Refuse
<1> QED
  BY <1>4, <1>5

(* Write stores the oldest waiting message, or loses it. *)
LEMMA WriteIsLog == Inv /\ Write => Log!Next
<1> SUFFICES ASSUME Inv, Write PROVE Log!Next
  OBVIOUS
<1>1. hand \in Messages /\ hand # None /\ hand' = None /\ queue \in Seq(Messages)
  BY DEF Inv, Books, TypeOK, HandWhileWriting, Write
<1>2. queue' = queue
  BY DEF Write, Record
<1>3. Waiting # <<>> /\ Head(Waiting) = hand /\ Waiting' = Tail(Waiting)
  BY <1>1, <1>2, HandIsHead DEF Waiting
<1>4. CASE rows' = Append(rows, hand) /\ UNCHANGED <<queue, dropped>>
  BY <1>3, <1>4 DEF Log!Next, Log!Store
<1>5. CASE dropped' = dropped + 1 /\ UNCHANGED <<queue, rows>>
  BY <1>3, <1>5 DEF Log!Next, Log!Fail
<1> QED
  BY <1>4, <1>5 DEF Write, Record

(* Every step of the writer is a step of the log or leaves it alone. *)
LEMMA StepIsLog == Inv /\ [Next]_vars => [Log!Next]_(Log!vars)
<1> SUFFICES ASSUME Inv, [Next]_vars PROVE Log!Next \/ UNCHANGED Log!vars
  OBVIOUS
<1>1. ASSUME NEW p \in Publishers, Enqueue(p) PROVE Log!Next
  BY <1>1, EnqueueIsLog
<1>2. CASE Write
  BY <1>2, WriteIsLog
<1>3. CASE RunTake \/ DrainTake
  <2>1. /\ queue # <<>> /\ queue' = Tail(queue) /\ hand' = Head(queue)
        /\ writer \in {"select", "drain"} /\ UNCHANGED <<rows, dropped>>
    BY <1>3 DEF RunTake, DrainTake, Take
  <2>2. hand = None /\ queue \in Seq(Messages) /\ Head(queue) \in Messages
    BY <2>1 DEF Inv, Books, TypeOK, HandWhileWriting
  <2>3. hand' # None
    BY <2>1, <2>2, HistoryAssumption
  <2>4. Waiting' = Waiting
    BY <2>1, <2>2, <2>3, TakenIsHead DEF Waiting
  <2> QED
    BY <2>1, <2>4 DEF Log!vars
<1>4. CASE UNCHANGED <<queue, hand, rows, dropped>>
  BY <1>4 DEF Log!vars, Waiting
<1>5. \/ \E p \in Publishers : Enqueue(p)
      \/ Write \/ RunTake \/ DrainTake
      \/ UNCHANGED <<queue, hand, rows, dropped>>
  BY DEF Next, Cancel, ServeStep, Listen, CloseListener, AcceptEnds, WaitDone, CloseStop,
         CloseDone, Accept, ConnExit, Broadcast, WriterStep, RunStops, DrainEnds,
         serveVars, writerVars, vars
<1> QED
  BY <1>1, <1>2, <1>3, <1>4, <1>5

(* history.go: the queue with its writer implements the lossy log. *)
THEOREM ImplementsLossyLog == Spec => IsLossyLog
<1>1. Init => Log!Init
  BY DEF Init, Log!Init, Waiting
<1> QED
  BY <1>1, StepIsLog, InvHolds, PTL DEF Spec, IsLossyLog, Log!Spec
-----------------------------------------------------------------------------
(***************************************************************************)
(* SenderOrderKept is not inductive: what is still on its way has to be    *)
(* ordered too.  Stored before in hand before queued before not yet handed *)
(* over, for each sender.                                                  *)
(***************************************************************************)
Before(a, b) == a.from = b.from => a.n < b.n
Ordered(s) == \A i, j \in DOMAIN s : i < j => Before(s[i], s[j])
Handed == [p \in Publishers |-> IF pub[p].pc = "enqueue" THEN pub[p].sent - 1 ELSE pub[p].sent]

QueueFollowsRows == \A i \in DOMAIN rows, j \in DOMAIN queue : Before(rows[i], queue[j])
HandFollowsRows == hand # None => \A i \in DOMAIN rows : Before(rows[i], hand)
QueueFollowsHand == hand # None => \A j \in DOMAIN queue : Before(hand, queue[j])
AllHanded ==
    /\ \A i \in DOMAIN rows : rows[i].n <= Handed[rows[i].from]
    /\ \A j \in DOMAIN queue : queue[j].n <= Handed[queue[j].from]
    /\ hand # None => hand.n <= Handed[hand.from]

OrderInv ==
    /\ Ordered(rows) /\ Ordered(queue)
    /\ QueueFollowsRows /\ HandFollowsRows /\ QueueFollowsHand
    /\ AllHanded

(* What is stored or on its way has a sender and a number. *)
LEMMA InFlightTyped ==
    ASSUME Inv
    PROVE  /\ rows \in Seq(Messages) /\ queue \in Seq(Messages)
           /\ \A i \in DOMAIN rows : rows[i].from \in Publishers /\ rows[i].n \in Nat
           /\ \A j \in DOMAIN queue : queue[j].from \in Publishers /\ queue[j].n \in Nat
           /\ hand # None => hand \in Messages /\ hand.from \in Publishers /\ hand.n \in Nat
<1>1. \A x \in Messages : x.from \in Publishers /\ x.n \in Nat
  BY HistoryAssumption DEF Messages
<1>2. rows \in Seq(Messages) /\ queue \in Seq(Messages) /\ (hand # None => hand \in Messages)
  BY DEF Inv, Books, TypeOK
<1>3. /\ \A i \in DOMAIN rows : rows[i] \in Messages
      /\ \A j \in DOMAIN queue : queue[j] \in Messages
  BY <1>2
<1> QED
  BY <1>1, <1>2, <1>3

(* Steps that move no message and hand none over. *)
LEMMA OrderUntouched ==
    ASSUME Inv, OrderInv, UNCHANGED <<queue, hand, rows>>,
           \A p \in Publishers : Handed'[p] >= Handed[p] /\ Handed[p] \in Int /\ Handed'[p] \in Int
    PROVE  OrderInv'
<1>1. /\ \A i \in DOMAIN rows : rows[i].from \in Publishers /\ rows[i].n \in Nat
      /\ \A j \in DOMAIN queue : queue[j].from \in Publishers /\ queue[j].n \in Nat
      /\ hand # None => hand.from \in Publishers /\ hand.n \in Nat
  BY InFlightTyped
<1>2. AllHanded'
  BY <1>1 DEF OrderInv, AllHanded
<1> QED
  BY <1>2 DEF OrderInv, Ordered, QueueFollowsRows, HandFollowsRows, QueueFollowsHand

(* Handed is a number, and only enqueue raises it. *)
LEMMA HandedSteady ==
    ASSUME Inv, NEW p \in Publishers, [Next]_vars
    PROVE  Handed'[p] >= Handed[p] /\ Handed[p] \in Int /\ Handed'[p] \in Int
<1>0. Inv'
  BY NextInv
<1>1. pub[p].sent \in Nat /\ pub'[p].sent \in Nat /\ Handed[p] \in Int /\ Handed'[p] \in Int
  BY <1>0, HistoryAssumption DEF Inv, Books, TypeOK, Handed
<1>2. Handed'[p] >= Handed[p]
  <2>1. ASSUME NEW c \in Conns, Accept(c) \/ ConnExit(c) PROVE Handed'[p] = Handed[p]
    <3>1. c \in Publishers
      BY DEF Publishers
    <3>2. pub[c].pc \in {"new", "idle"} /\ \E x \in {"idle", "gone"} : pub' = [pub EXCEPT ![c].pc = x]
      BY <2>1 DEF Accept, ConnExit
    <3> QED
      BY <3>1, <3>2 DEF Handed, Inv, Books, TypeOK
  <2>2. ASSUME NEW q \in Publishers, Broadcast(q) PROVE Handed'[p] = Handed[p]
    BY <1>1, <2>2 DEF Broadcast, Handed, Inv, Books, TypeOK
  <2>3. ASSUME NEW q \in Publishers, Enqueue(q) PROVE Handed'[p] >= Handed[p]
    BY <1>1, <2>3 DEF Enqueue, Handed, Inv, Books, TypeOK
  <2>4. CASE UNCHANGED pub
    BY <1>1, <2>4 DEF Handed
  <2>5. \/ \E c \in Conns : Accept(c) \/ ConnExit(c)
        \/ \E q \in Publishers : Broadcast(q) \/ Enqueue(q)
        \/ UNCHANGED pub
    BY DEF Next, Cancel, ServeStep, Listen, CloseListener, AcceptEnds, WaitDone, CloseStop,
           CloseDone, WriterStep, RunTake, DrainTake, Take, RunStops, DrainEnds, Write, vars
  <2> QED
    BY <1>1, <2>1, <2>2, <2>3, <2>4, <2>5
<1> QED
  BY <1>1, <1>2

(* An accepted message is the newest of its sender. *)
LEMMA EnqueueOrder ==
    ASSUME Inv, OrderInv, NEW p \in Publishers, Enqueue(p)
    PROVE  OrderInv'
<1>1. \A q \in Publishers : Handed'[q] >= Handed[q] /\ Handed[q] \in Int /\ Handed'[q] \in Int
  BY HandedSteady DEF Next
<1>2. UNCHANGED <<hand, rows>>
  BY DEF Enqueue, writerVars
<1>3. CASE UNCHANGED queue
  BY <1>1, <1>2, <1>3, OrderUntouched
<1>4. CASE queue' = Append(queue, LastSent(p))
  <2> DEFINE m == LastSent(p)
  <2>1. m \in Messages /\ m.from = p /\ m.n = pub[p].sent /\ m.n = Handed[p] + 1 /\ m.n = Handed'[p]
        /\ m.n \in Nat
    BY HistoryAssumption DEF Inv, Books, TypeOK, SentBeforeEnqueue, Enqueue, LastSent, Messages, Handed
  <2> HIDE DEF m
  <2>2. /\ \A i \in DOMAIN rows : rows[i] \in Messages
        /\ \A j \in DOMAIN queue : queue[j] \in Messages
        /\ hand # None => hand \in Messages
        /\ queue \in Seq(Messages)
    BY DEF Inv, Books, TypeOK
  <2>3. \A x \in Messages : x.from \in Publishers /\ x.n \in Nat
    BY DEF Messages
  <2>4. /\ \A i \in DOMAIN rows : Before(rows[i], m)
        /\ \A j \in DOMAIN queue : Before(queue[j], m)
        /\ hand # None => Before(hand, m)
    BY <1>1, <2>1, <2>2, <2>3 DEF OrderInv, AllHanded, Before
  <2>5. /\ DOMAIN queue' = 1..(Len(queue) + 1) /\ DOMAIN queue = 1..Len(queue) /\ Len(queue) \in Nat
        /\ queue'[Len(queue) + 1] = m
        /\ \A j \in DOMAIN queue : queue'[j] = queue[j]
    BY <1>4, <2>1, <2>2 DEF m
  <2>6. Ordered(queue)'
    BY <2>4, <2>5 DEF OrderInv, Ordered
  <2>7. QueueFollowsRows' /\ HandFollowsRows' /\ QueueFollowsHand' /\ Ordered(rows)'
    BY <1>2, <2>4, <2>5 DEF OrderInv, QueueFollowsRows, HandFollowsRows, QueueFollowsHand, Ordered
  <2>8. AllHanded'
    <3>1. \A j \in DOMAIN queue' : queue'[j].n <= Handed'[queue'[j].from]
      <4> SUFFICES ASSUME NEW j \in DOMAIN queue' PROVE queue'[j].n <= Handed'[queue'[j].from]
        OBVIOUS
      <4>1. CASE j = Len(queue) + 1
        BY <2>1, <2>5, <4>1
      <4>2. CASE j \in DOMAIN queue
        BY <1>1, <2>2, <2>3, <2>5, <4>2 DEF OrderInv, AllHanded
      <4> QED
        BY <2>5, <4>1, <4>2
    <3>2. \A i \in DOMAIN rows' : rows'[i].n <= Handed'[rows'[i].from]
      BY <1>1, <1>2, <2>2, <2>3 DEF OrderInv, AllHanded
    <3>3. hand' # None => hand'.n <= Handed'[hand'.from]
      BY <1>1, <1>2, <2>2, <2>3 DEF OrderInv, AllHanded
    <3> QED
      BY <3>1, <3>2, <3>3 DEF AllHanded
  <2> QED
    BY <2>6, <2>7, <2>8 DEF OrderInv
<1> QED
  BY <1>3, <1>4 DEF Enqueue

(* The writer takes the oldest and puts it behind the rows, or nowhere. *)
LEMMA WriterOrder == Inv /\ OrderInv /\ WriterStep => OrderInv'
<1> SUFFICES ASSUME Inv, OrderInv, WriterStep PROVE OrderInv'
  OBVIOUS
<1>1. \A p \in Publishers : Handed'[p] = Handed[p]
  BY DEF WriterStep, RunTake, DrainTake, Take, RunStops, DrainEnds, Write, Handed
<1>2. CASE RunTake \/ DrainTake
  <2>1. /\ queue # <<>> /\ queue' = Tail(queue) /\ hand' = Head(queue) /\ rows' = rows
        /\ queue \in Seq(Messages) /\ Head(queue) = queue[1]
    BY <1>2 DEF RunTake, DrainTake, Take, Inv, Books, TypeOK
  <2>2. /\ DOMAIN queue' = 1..(Len(queue) - 1) /\ DOMAIN queue = 1..Len(queue) /\ Len(queue) \in Nat \ {0}
        /\ \A j \in DOMAIN queue' : queue'[j] = queue[j + 1] /\ j + 1 \in DOMAIN queue /\ j \in Nat
        /\ 1 \in DOMAIN queue
    BY <2>1
  <2>3. Ordered(queue)' /\ Ordered(rows)'
    BY <2>1, <2>2 DEF OrderInv, Ordered
  <2>4. QueueFollowsRows' /\ HandFollowsRows'
    BY <2>1, <2>2 DEF OrderInv, QueueFollowsRows, HandFollowsRows
  <2>5. QueueFollowsHand'
    BY <2>1, <2>2 DEF OrderInv, QueueFollowsHand, Ordered
  <2>6. AllHanded'
    <3>1. /\ \A i \in DOMAIN rows : rows[i].from \in Publishers
          /\ \A j \in DOMAIN queue : queue[j].from \in Publishers
      BY InFlightTyped
    <3> QED
      BY <1>1, <2>1, <2>2, <3>1 DEF OrderInv, AllHanded
  <2> QED
    BY <2>3, <2>4, <2>5, <2>6 DEF OrderInv
<1>3. CASE RunStops \/ DrainEnds
  <2>1. UNCHANGED <<queue, hand, rows>> /\ \A p \in Publishers : Handed[p] \in Int
    BY <1>3, HandedSteady DEF RunStops, DrainEnds, Next, WriterStep
  <2> QED
    BY <1>1, <2>1, OrderUntouched
<1>4. CASE Write
  <2>1. hand \in Messages /\ hand # None /\ hand' = None /\ queue' = queue /\ rows \in Seq(Messages)
    BY <1>4 DEF Write, Record, Inv, Books, TypeOK, HandWhileWriting
  <2>2. HandFollowsRows' /\ QueueFollowsHand' /\ Ordered(queue)'
    BY <2>1 DEF HandFollowsRows, QueueFollowsHand, Ordered, OrderInv
  <2>3. /\ \A i \in DOMAIN rows : rows[i].from \in Publishers
        /\ \A j \in DOMAIN queue : queue[j].from \in Publishers
        /\ hand.from \in Publishers
    BY <2>1, InFlightTyped
  <2>4. CASE UNCHANGED rows
    BY <1>1, <2>1, <2>2, <2>3, <2>4 DEF OrderInv, Ordered, QueueFollowsRows, AllHanded
  <2>5. CASE rows' = Append(rows, hand)
    <3>1. /\ DOMAIN rows' = 1..(Len(rows) + 1) /\ DOMAIN rows = 1..Len(rows) /\ Len(rows) \in Nat
          /\ rows'[Len(rows) + 1] = hand
          /\ \A i \in DOMAIN rows : rows'[i] = rows[i]
      BY <2>1, <2>5
    <3>2. Ordered(rows)' /\ QueueFollowsRows'
      BY <2>1, <3>1 DEF OrderInv, Ordered, QueueFollowsRows, HandFollowsRows, QueueFollowsHand
    <3>3. AllHanded'
      BY <1>1, <2>1, <2>3, <3>1 DEF OrderInv, AllHanded
    <3> QED
      BY <2>2, <3>2, <3>3 DEF OrderInv
  <2> QED
    BY <1>4, <2>4, <2>5 DEF Write, Record
<1> QED
  BY <1>2, <1>3, <1>4 DEF WriterStep

(* Every step keeps the order of what is stored and on its way. *)
LEMMA NextOrder == Inv /\ OrderInv /\ [Next]_vars => OrderInv'
<1> SUFFICES ASSUME Inv, OrderInv, [Next]_vars PROVE OrderInv'
  OBVIOUS
<1>1. ASSUME NEW p \in Publishers, Enqueue(p) PROVE OrderInv'
  BY <1>1, EnqueueOrder
<1>2. CASE WriterStep
  BY <1>2, WriterOrder
<1>3. CASE UNCHANGED <<queue, hand, rows>>
  BY <1>3, HandedSteady, OrderUntouched
<1>4. \/ \E p \in Publishers : Enqueue(p)
      \/ WriterStep
      \/ UNCHANGED <<queue, hand, rows>>
  BY DEF Next, Cancel, ServeStep, Listen, CloseListener, AcceptEnds, WaitDone, CloseStop,
         CloseDone, Accept, ConnExit, Broadcast, writerVars, vars
<1> QED
  BY <1>1, <1>2, <1>3, <1>4

(* history.go, run, write and drain: the stored messages of one sender are *)
(* in the order it sent them, whatever was dropped between.                *)
THEOREM OrderKept == Spec => []SenderOrderKept
<1>1. Init => OrderInv
  BY DEF Init, OrderInv, Ordered, QueueFollowsRows, HandFollowsRows, QueueFollowsHand, AllHanded
<1>2. OrderInv => SenderOrderKept
  BY DEF OrderInv, Ordered, Before, SenderOrderKept
<1> QED
  BY <1>1, <1>2, NextOrder, InvHolds, PTL DEF Spec
=============================================================================
