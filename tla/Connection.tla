----------------------------- MODULE Connection -----------------------------
(***************************************************************************)
(* One client connection of internal/server/conn.go: the goroutine that    *)
(* runs serve and the read loop, the write loop, the ping loop and the     *)
(* goroutine that closes the socket when the context ends, around the      *)
(* bounded outbound queue, the pong channel and the socket.                *)
(*                                                                         *)
(* The client is external.  It answers each Ping with the Ping's token,    *)
(* but it may stop reading, delay, or go away at any moment.               *)
(***************************************************************************)
EXTENDS Integers, Sequences

CONSTANTS
    OutboundQueueSize,  \* outboundQueueSize
    LaggingThreshold,   \* laggingThreshold
    PongChCap,          \* capacity of pongCh
    BufFrames,          \* frames that fit in the bufio.Writer
    MaxPings,           \* bound: pings sent
    MaxData,            \* bound: frames broadcast by others
    MaxSends            \* bound: requests sent by the client

ASSUME ConnectionAssumption ==
    /\ OutboundQueueSize \in Nat \ {0}
    /\ LaggingThreshold \in Nat
    /\ PongChCap \in Nat \ {0}
    /\ BufFrames \in Nat \ {0}
    /\ MaxPings \in Nat
    /\ MaxData \in Nat
    /\ MaxSends \in Nat

VARIABLES
    ctxDone,    \* the connection's context is cancelled
    closed,     \* Conn.closed
    rawClosed,  \* the socket is closed on this side
    authed,     \* Conn.authed
    member,     \* the connection is registered in a channel
    out,        \* the outbound queue
    dropCount,  \* Conn.dropCount
    reader,     \* check, decode, returned, wait, close, done
    writer,     \* [pc, after]: select, flush, lag, slow, gone
    buf,        \* frames in the bufio.Writer
    broken,     \* the bufio.Writer has a sticky error
    pinger,     \* tick, wait, mismatch, timeout, gone
    token,      \* the token the ping loop waits for
    pongCh,     \* Conn.pongCh
    \* the client and the network
    client,     \* reading, stalled, gone
    inbound,    \* frames on their way to the server
    received,   \* frames that reached the client and that it has not handled
    sent,       \* requests sent by the client
    data        \* frames broadcast by others

sockVars == <<ctxDone, closed, rawClosed>>
queueVars == <<out, dropCount>>
writeVars == <<writer, buf, broken>>
pingVars == <<pinger, token>>
clientVars == <<client, received, sent>>
vars == <<sockVars, authed, member, queueVars, reader, writeVars, pingVars, pongCh,
          clientVars, inbound, data>>
-----------------------------------------------------------------------------
(* Frames to the client: a Ping is its token, any other frame is 0. *)
Data == 0
Tokens == 1..MaxPings
Frames == {Data} \cup Tokens

(* Requests of the client, and its Pongs. *)
Requests == {"auth", "join", "part", "ping"}
Inbound == [type : Requests \cup {"pong"}, token : Frames]
Request(t) == [type |-> t, token |-> 0]

Init ==
    /\ ctxDone = FALSE
    /\ closed = FALSE
    /\ rawClosed = FALSE
    /\ authed = FALSE
    /\ member = FALSE
    /\ out = <<>>
    /\ dropCount = 0
    /\ reader = "check"
    /\ writer = [pc |-> "select", after |-> "select"]
    /\ buf = <<>>
    /\ broken = FALSE
    /\ pinger = "tick"
    /\ token = 0
    /\ pongCh = <<>>
    /\ client = "reading"
    /\ inbound = <<>>
    /\ received = <<>>
    /\ sent = 0
    /\ data = 0
-----------------------------------------------------------------------------
(* Conn.Enqueue never blocks: a full queue drops the frame, a closed       *)
(* connection ignores it.                                                  *)
EnqueueOverfull(f) ==
    \/ closed /\ UNCHANGED queueVars
    \/ /\ ~closed
       /\ Len(out) <= OutboundQueueSize
       /\ out' = Append(out, f)
       /\ UNCHANGED dropCount
Enqueue(f) ==
    \/ closed /\ UNCHANGED queueVars
    \/ /\ ~closed
       /\ Len(out) < OutboundQueueSize
       /\ out' = Append(out, f)
       /\ UNCHANGED dropCount
    \/ /\ ~closed
       /\ Len(out) >= OutboundQueueSize
       /\ dropCount' = dropCount + 1
       /\ UNCHANGED out

(* Another connection's broadcast reaches this member. *)
Broadcast ==
    /\ member
    /\ data < MaxData
    /\ data' = data + 1
    /\ Enqueue(Data)
    /\ UNCHANGED <<sockVars, authed, member, reader, writeVars, pingVars, pongCh,
                   clientVars, inbound>>
-----------------------------------------------------------------------------
(* serve and readLoop.                                                     *)

ReaderCheck ==
    /\ reader = "check"
    /\ reader' = IF ctxDone THEN "returned" ELSE "decode"
    /\ UNCHANGED <<sockVars, authed, member, queueVars, writeVars, pingVars, pongCh,
                   clientVars, inbound, data>>

(* dispatch and the handlers.  A refusal of any kind is an Error frame; a  *)
(* join broadcasts its Presence to the new member too.                     *)
HandleAuth ==
    /\ UNCHANGED <<member, pongCh>>
    /\ \/ ~authed /\ authed' = TRUE    \* AuthOK
       \/ UNCHANGED authed             \* AuthErr, or unsupported once authed
    /\ Enqueue(Data)

HandleJoin ==
    /\ UNCHANGED <<authed, pongCh>>
    /\ \/ /\ authed /\ ~member
          /\ member' = TRUE
          /\ Enqueue(Data)
       \/ /\ authed /\ member
          /\ UNCHANGED <<member, queueVars>>
       \/ UNCHANGED member /\ Enqueue(Data)

HandlePart ==
    /\ UNCHANGED <<authed, pongCh>>
    /\ \/ authed /\ member' = FALSE /\ UNCHANGED queueVars
       \/ UNCHANGED member /\ Enqueue(Data)

HandlePing == UNCHANGED <<authed, member, pongCh>> /\ Enqueue(Data)

HandlePong(t) ==
    /\ pongCh' = IF Len(pongCh) < PongChCap THEN Append(pongCh, t) ELSE pongCh
    /\ UNCHANGED <<authed, member, queueVars>>

Dispatch ==
    /\ reader = "decode"
    /\ inbound # <<>>
    /\ inbound' = Tail(inbound)
    /\ reader' = "check"
    /\ LET f == Head(inbound) IN
         \/ f.type = "auth" /\ HandleAuth
         \/ f.type = "join" /\ HandleJoin
         \/ f.type = "part" /\ HandlePart
         \/ f.type = "ping" /\ HandlePing
         \/ f.type = "pong" /\ HandlePong(f.token)
    /\ UNCHANGED <<sockVars, writeVars, pingVars, clientVars, data>>

(* Decode fails: end of file, or a socket closed under the read. *)
ReadError ==
    /\ reader = "decode"
    /\ rawClosed \/ (client = "gone" /\ inbound = <<>>)
    /\ reader' = "returned"
    /\ UNCHANGED <<sockVars, authed, member, queueVars, writeVars, pingVars, pongCh,
                   clientVars, inbound, data>>

Cancel ==
    /\ reader = "returned"
    /\ ctxDone' = TRUE
    /\ reader' = "wait"
    /\ UNCHANGED <<closed, rawClosed, authed, member, queueVars, writeVars, pingVars,
                   pongCh, clientVars, inbound, data>>

WriterReturned == writer.pc \in {"slow", "gone"}
PingerReturned == pinger \in {"mismatch", "timeout", "gone"}

WaitDoneEarly ==
    /\ reader = "wait"
    /\ reader' = "close"
    /\ UNCHANGED <<sockVars, authed, member, queueVars, writeVars, pingVars, pongCh,
                   clientVars, inbound, data>>
WaitDone ==
    /\ reader = "wait"
    /\ WriterReturned /\ PingerReturned
    /\ reader' = "close"
    /\ UNCHANGED <<sockVars, authed, member, queueVars, writeVars, pingVars, pongCh,
                   clientVars, inbound, data>>

(* Conn.close, deferred by serve: it also leaves every channel. *)
Close ==
    /\ reader = "close"
    /\ reader' = "done"
    /\ closed' = TRUE
    /\ rawClosed' = TRUE
    /\ member' = FALSE
    /\ UNCHANGED <<ctxDone, authed, queueVars, writeVars, pingVars, pongCh, clientVars,
                   inbound, data>>

(* The goroutine that closes the socket when the context ends. *)
CloserLate ==
    /\ ctxDone /\ reader = "close"
    /\ ~rawClosed
    /\ closed' = TRUE
    /\ rawClosed' = TRUE
    /\ UNCHANGED <<ctxDone, authed, member, queueVars, reader, writeVars, pingVars,
                   pongCh, clientVars, inbound, data>>
Closer ==
    /\ ctxDone
    /\ ~rawClosed
    /\ closed' = TRUE
    /\ rawClosed' = TRUE
    /\ UNCHANGED <<ctxDone, authed, member, queueVars, reader, writeVars, pingVars,
                   pongCh, clientVars, inbound, data>>

(* The server shuts down: the parent context ends. *)
Shutdown ==
    /\ ~ctxDone
    /\ ctxDone' = TRUE
    /\ UNCHANGED <<closed, rawClosed, authed, member, queueVars, reader, writeVars,
                   pingVars, pongCh, clientVars, inbound, data>>
-----------------------------------------------------------------------------
(* writeLoop.                                                              *)

WriterAt(pc) == writer' = [writer EXCEPT !.pc = pc]
FlushThen(pc) == writer' = [pc |-> "flush", after |-> pc]

(* A frame moves from the queue to the buffer.  The buffer is flushed when *)
(* the queue is empty, and by bufio itself when it is full.                *)
WriterTake ==
    /\ writer.pc = "select"
    /\ out # <<>>
    /\ out' = Tail(out)
    /\ IF broken
       THEN WriterAt("gone") /\ UNCHANGED buf
       ELSE /\ buf' = Append(buf, Head(out))
            /\ IF Len(out) = 1 \/ Len(buf) + 1 >= BufFrames
               THEN FlushThen("lag")
               ELSE WriterAt("lag")
    /\ UNCHANGED <<sockVars, authed, member, dropCount, reader, broken, pingVars,
                   pongCh, clientVars, inbound, data>>

(* The slow-consumer test after each frame. *)
WriterLag ==
    /\ writer.pc = "lag"
    /\ WriterAt(IF dropCount > LaggingThreshold THEN "slow" ELSE "select")
    /\ UNCHANGED <<sockVars, authed, member, queueVars, reader, buf, broken, pingVars,
                   pongCh, clientVars, inbound, data>>

FlushTick ==
    /\ writer.pc = "select"
    /\ buf # <<>> /\ ~broken
    /\ FlushThen("select")
    /\ UNCHANGED <<sockVars, authed, member, queueVars, reader, buf, broken, pingVars,
                   pongCh, clientVars, inbound, data>>

WriterCtxDone ==
    /\ writer.pc = "select"
    /\ ctxDone
    /\ IF buf # <<>> /\ ~broken THEN FlushThen("gone") ELSE WriterAt("gone")
    /\ UNCHANGED <<sockVars, authed, member, queueVars, reader, buf, broken, pingVars,
                   pongCh, clientVars, inbound, data>>

(* There is no write deadline: a flush blocks while the client does not    *)
(* read, until the socket is closed.  Its error is ignored.                *)
FlushWrites ==
    /\ writer.pc = "flush"
    /\ client = "reading"
    /\ ~rawClosed
    /\ buf' = <<>>
    /\ received' = received \o buf
    /\ WriterAt(writer.after)
    /\ UNCHANGED <<sockVars, authed, member, queueVars, reader, broken, pingVars, pongCh,
                   client, sent, inbound, data>>

FlushFails ==
    /\ writer.pc = "flush"
    /\ rawClosed \/ client = "gone"
    /\ broken' = TRUE
    /\ WriterAt(writer.after)
    /\ UNCHANGED <<sockVars, authed, member, queueVars, reader, buf, pingVars, pongCh,
                   clientVars, inbound, data>>
-----------------------------------------------------------------------------
(* pingLoop.                                                               *)

PingTick ==
    /\ pinger = "tick"
    /\ token < MaxPings
    /\ token' = token + 1
    /\ pinger' = "wait"
    /\ Enqueue(token + 1)
    /\ UNCHANGED <<sockVars, authed, member, reader, writeVars, pongCh, clientVars,
                   inbound, data>>

PongReceived ==
    /\ pinger = "wait"
    /\ pongCh # <<>>
    /\ pongCh' = Tail(pongCh)
    /\ pinger' = IF Head(pongCh) = token THEN "tick" ELSE "mismatch"
    /\ UNCHANGED <<sockVars, authed, member, queueVars, reader, writeVars, token,
                   clientVars, inbound, data>>

PongTimeoutRetries ==
    /\ pinger = "wait"
    /\ pinger' = "tick"
    /\ UNCHANGED <<sockVars, authed, member, queueVars, reader, writeVars, token, pongCh,
                   clientVars, inbound, data>>
PongTimeout ==
    /\ pinger = "wait"
    /\ pinger' = "timeout"
    /\ UNCHANGED <<sockVars, authed, member, queueVars, reader, writeVars, token, pongCh,
                   clientVars, inbound, data>>

PingerCtxDone ==
    /\ pinger \in {"tick", "wait"}
    /\ ctxDone
    /\ pinger' = "gone"
    /\ UNCHANGED <<sockVars, authed, member, queueVars, reader, writeVars, token, pongCh,
                   clientVars, inbound, data>>
-----------------------------------------------------------------------------
(* The client (external).                                                  *)

ClientSends ==
    /\ client # "gone"
    /\ sent < MaxSends
    /\ sent' = sent + 1
    /\ \E t \in Requests : inbound' = Append(inbound, Request(t))
    /\ UNCHANGED <<sockVars, authed, member, queueVars, reader, writeVars, pingVars,
                   pongCh, client, received, data>>

ClientHandles ==
    /\ client # "gone"
    /\ received # <<>>
    /\ received' = Tail(received)
    /\ inbound' = IF Head(received) = Data THEN inbound
                  ELSE Append(inbound, [type |-> "pong", token |-> Head(received)])
    /\ UNCHANGED <<sockVars, authed, member, queueVars, reader, writeVars, pingVars,
                   pongCh, client, sent, data>>

ClientChanges ==
    /\ client # "gone"
    /\ client' \in {"reading", "stalled", "gone"} \ {client}
    /\ UNCHANGED <<sockVars, authed, member, queueVars, reader, writeVars, pingVars,
                   pongCh, received, sent, inbound, data>>
-----------------------------------------------------------------------------
ReaderStep == ReaderCheck \/ Dispatch \/ ReadError \/ Cancel \/ WaitDone \/ Close
WriterStep == WriterTake \/ WriterLag \/ FlushTick \/ WriterCtxDone \/ FlushWrites \/ FlushFails
PingerStep == PingTick \/ PongReceived \/ PongTimeout \/ PingerCtxDone
ClientStep == ClientSends \/ ClientHandles \/ ClientChanges

Next ==
    \/ ReaderStep
    \/ WriterStep
    \/ PingerStep
    \/ Closer
    \/ ClientStep
    \/ Broadcast
    \/ Shutdown

Spec == Init /\ [][Next]_vars

(* Fairness: the four goroutines of the connection run when they can, and  *)
(* their timers fire.  Select is not fair between its cases: the context   *)
(* is noticed because the other cases run dry.  The client, the other      *)
(* members and the operator owe nothing.                                   *)
FairSpec ==
    /\ Spec
    /\ WF_vars(ReaderStep)
    /\ WF_vars(WriterStep)
    /\ WF_vars(PingerStep)
    /\ WF_vars(Closer)
-----------------------------------------------------------------------------
(* Every variable has its type. *)
TypeOK ==
    /\ ctxDone \in BOOLEAN /\ closed \in BOOLEAN /\ rawClosed \in BOOLEAN
    /\ authed \in BOOLEAN /\ member \in BOOLEAN /\ broken \in BOOLEAN
    /\ out \in Seq(Frames) /\ Len(out) <= OutboundQueueSize
    /\ dropCount \in Nat
    /\ reader \in {"check", "decode", "returned", "wait", "close", "done"}
    /\ writer \in [pc : {"select", "flush", "lag", "slow", "gone"},
                   after : {"select", "lag", "gone"}]
    /\ buf \in Seq(Frames) /\ Len(buf) <= BufFrames
    /\ pinger \in {"tick", "wait", "mismatch", "timeout", "gone"}
    /\ token \in 0..MaxPings
    /\ pongCh \in Seq(Tokens) /\ Len(pongCh) <= PongChCap
    /\ client \in {"reading", "stalled", "gone"}
    /\ inbound \in Seq(Inbound)
    /\ received \in Seq(Frames)
    /\ sent \in 0..MaxSends
    /\ data \in 0..MaxData

(* conn.go, serve: when serve returns, both loops have returned, the       *)
(* socket is closed and the connection is in no channel, for good: a join  *)
(* that raced the shutdown does not leave a ghost member behind.           *)
NoGhosts ==
    reader = "done" => /\ WriterReturned /\ PingerReturned
                       /\ closed /\ rawClosed /\ ctxDone
                       /\ ~member

(* conn.go, pingLoop: a client that echoes the tokens it was sent is never *)
(* dropped for a token mismatch, however late its Pongs are.               *)
HonestClientNeverMismatched == pinger # "mismatch"

(* conn.go, serve: shutdown always completes.  Neither a read that waits   *)
(* for a silent client nor a write that waits for a stalled one keeps the  *)
(* connection's goroutines alive: "Without this, the read loop's blocking  *)
(* Decode() never wakes up on shutdown and serve() deadlocks."             *)
(* A client that went away is cleaned up the same way.                     *)
ServeEnds == (ctxDone \/ client = "gone") ~> reader = "done"
=============================================================================
