-------------------------- MODULE ConnectionProofs --------------------------
(***************************************************************************)
(* A connection that serve has left leaves nothing behind, and a client    *)
(* that echoes the tokens it is sent is never dropped for a wrong one, for *)
(* queues, buffers and thresholds of any size and any number of pings.     *)
(*                                                                         *)
(* NoGhosts speaks of the last state of serve only.  Inv follows serve     *)
(* there: the context is cancelled before the wait, both loops have        *)
(* returned before the close, and a loop that returned stays returned.     *)
(*                                                                         *)
(* TokenInv is about the way of a token: from the outbound queue through   *)
(* the buffer, the client's socket and the inbound frames to pongCh.  The  *)
(* ping loop never sends a second Ping before the first is answered, so    *)
(* there is one token at most on the whole way, it is the one waited for,  *)
(* and there is none when the loop waits for its ticker.                   *)
(***************************************************************************)
EXTENDS Connection, SequenceTheorems, TLAPS

(* The part of TypeOK the argument needs. *)
WriterType == writer \in [pc : {"select", "flush", "lag", "slow", "gone"},
                          after : {"select", "lag", "gone"}]

CancelledBeforeWait == reader \in {"wait", "close", "done"} => ctxDone
LoopsReturnedBeforeClose == reader \in {"close", "done"} => WriterReturned /\ PingerReturned
ClosedAtTheEnd == reader = "done" => closed /\ rawClosed /\ ~member

Inv ==
    /\ WriterType
    /\ CancelledBeforeWait
    /\ LoopsReturnedBeforeClose
    /\ ClosedAtTheEnd

(* A step that is none of serve's own, leaves the loops' ends, the context *)
(* and the membership alone, and does not reopen the socket, keeps Inv.    *)
LEMMA QuietStep ==
    ASSUME Inv, UNCHANGED <<ctxDone, reader, member>>, WriterType',
           WriterReturned => WriterReturned', PingerReturned => PingerReturned',
           closed => closed', rawClosed => rawClosed'
    PROVE  Inv'
  BY DEF Inv, CancelledBeforeWait, LoopsReturnedBeforeClose, ClosedAtTheEnd

(* serve's own steps keep the invariant, each establishing the next part. *)
LEMMA ReaderKeepsInv == Inv /\ ReaderStep => Inv'
<1> SUFFICES ASSUME Inv, ReaderStep PROVE Inv'
  OBVIOUS
<1> USE DEF Inv, WriterType, CancelledBeforeWait, LoopsReturnedBeforeClose, ClosedAtTheEnd,
        WriterReturned, PingerReturned, sockVars, writeVars, pingVars
<1>1. CASE ReaderCheck
  BY <1>1 DEF ReaderCheck
<1>2. CASE Dispatch
  BY <1>2 DEF Dispatch
<1>3. CASE ReadError
  BY <1>3 DEF ReadError
<1>4. CASE Cancel
  BY <1>4 DEF Cancel
<1>5. CASE WaitDone
  BY <1>5 DEF WaitDone
<1>6. CASE Close
  BY <1>6 DEF Close
<1> QED
  BY <1>1, <1>2, <1>3, <1>4, <1>5, <1>6 DEF ReaderStep

(* The write loop only ever ends; it never starts again. *)
LEMMA WriterKeepsInv == Inv /\ WriterStep => Inv'
<1> SUFFICES ASSUME Inv, WriterStep PROVE Inv'
  OBVIOUS
<1>1. UNCHANGED <<ctxDone, closed, rawClosed, reader, member, pinger>>
  BY DEF WriterStep, WriterTake, WriterLag, FlushTick, WriterCtxDone, FlushWrites,
         FlushFails, sockVars, pingVars
<1>2. writer.pc \in {"select", "flush", "lag"}
  BY DEF WriterStep, WriterTake, WriterLag, FlushTick, WriterCtxDone, FlushWrites, FlushFails
<1>3. \E pc \in {"select", "flush", "lag", "slow", "gone"}, a \in {"select", "lag", "gone"} :
        WriterAt(pc) \/ WriterAt(writer.after) \/ FlushThen(a)
  BY DEF WriterStep, WriterTake, WriterLag, FlushTick, WriterCtxDone, FlushWrites, FlushFails
<1>4. WriterType'
  BY <1>3 DEF Inv, WriterType, WriterAt, FlushThen
<1> QED
  BY <1>1, <1>2, <1>4, QuietStep DEF WriterReturned, PingerReturned

(* So does the ping loop. *)
LEMMA PingerKeepsInv == Inv /\ PingerStep => Inv'
<1> SUFFICES ASSUME Inv, PingerStep PROVE Inv'
  OBVIOUS
<1>1. UNCHANGED <<ctxDone, closed, rawClosed, reader, member, writer>>
  BY DEF PingerStep, PingTick, PongReceived, PongTimeout, PingerCtxDone, sockVars, writeVars
<1>2. pinger \in {"tick", "wait"}
  BY DEF PingerStep, PingTick, PongReceived, PongTimeout, PingerCtxDone
<1> QED
  BY <1>1, <1>2, QuietStep DEF WriterReturned, PingerReturned, Inv, WriterType

(* The closer, the client, other members and the shutdown are outside. *)
LEMMA OthersKeepInv ==
    Inv /\ (Closer \/ ClientStep \/ Broadcast \/ Shutdown \/ UNCHANGED vars) => Inv'
<1> SUFFICES ASSUME Inv, Closer \/ ClientStep \/ Broadcast \/ Shutdown \/ UNCHANGED vars
             PROVE  Inv'
  OBVIOUS
<1> USE DEF Inv, WriterType, WriterReturned, PingerReturned, sockVars, writeVars, pingVars
<1>1. CASE Closer
  BY <1>1, QuietStep DEF Closer
<1>2. CASE ClientStep
  BY <1>2, QuietStep DEF ClientStep, ClientSends, ClientHandles, ClientChanges
<1>3. CASE Broadcast
  BY <1>3, QuietStep DEF Broadcast
<1>4. CASE Shutdown
  BY <1>4 DEF Shutdown, CancelledBeforeWait, LoopsReturnedBeforeClose, ClosedAtTheEnd
<1>5. CASE UNCHANGED vars
  BY <1>5, QuietStep DEF vars
<1> QED
  BY <1>1, <1>2, <1>3, <1>4, <1>5

(* conn.go, serve: in every execution, when serve returns both loops have  *)
(* returned, the socket is closed and the connection is in no channel.     *)
THEOREM ServeLeavesNoGhosts == Spec => []NoGhosts
<1>1. Init => Inv
  BY DEF Init, Inv, WriterType, CancelledBeforeWait, LoopsReturnedBeforeClose, ClosedAtTheEnd
<1>2. Inv /\ [Next]_vars => Inv'
  BY ReaderKeepsInv, WriterKeepsInv, PingerKeepsInv, OthersKeepInv DEF Next
<1>3. Inv => NoGhosts
  BY DEF Inv, CancelledBeforeWait, LoopsReturnedBeforeClose, ClosedAtTheEnd, NoGhosts
<1> QED
  BY <1>1, <1>2, <1>3, PTL DEF Spec
-----------------------------------------------------------------------------
(* Whether a sequence of frames carries a token, and carries one only. *)
Carries(s) == \E i \in 1..Len(s) : s[i] # Data
Once(s) == \A i, j \in 1..Len(s) : s[i] # Data /\ s[j] # Data => i = j

(* The tokens a sequence of frames carries are all t. *)
Only(s, t) == \A i \in 1..Len(s) : s[i] \in {Data, t}

(* A frame put at the end of a queue. *)
LEMMA AppendFrame ==
    ASSUME NEW s \in Seq(Frames), NEW f \in Frames
    PROVE  /\ Append(s, f) \in Seq(Frames)
           /\ Len(Append(s, f)) = Len(s) + 1
           /\ Carries(Append(s, f)) <=> Carries(s) \/ f # Data
           /\ Once(s) /\ (Carries(s) => f = Data) => Once(Append(s, f))
           /\ \A t : Only(s, t) /\ f \in {Data, t} => Only(Append(s, f), t)
<1>1. /\ Append(s, f) \in Seq(Frames)
      /\ Len(Append(s, f)) = Len(s) + 1
      /\ \A i \in 1..Len(s) : Append(s, f)[i] = s[i]
      /\ Append(s, f)[Len(s) + 1] = f
  BY AppendProperties
<1>2. Len(s) \in Nat
  BY LenProperties
<1> DEFINE a == Append(s, f)
<1> HIDE DEF a
<1>3. /\ \A i \in 1..Len(s) : i \in 1..Len(a) /\ a[i] = s[i]
      /\ Len(a) \in 1..Len(a) /\ a[Len(a)] = f
      /\ \A i \in 1..Len(a) : i \in 1..Len(s) \/ i = Len(a)
  BY <1>1, <1>2 DEF a
<1>4. Carries(a) <=> Carries(s) \/ f # Data
  BY <1>3 DEF Carries
<1>5. Once(s) /\ (Carries(s) => f = Data) => Once(a)
  BY <1>3 DEF Carries, Once
<1>6. \A t : Only(s, t) /\ f \in {Data, t} => Only(a, t)
  BY <1>3 DEF Only
<1> QED
  BY <1>1, <1>4, <1>5, <1>6 DEF a

(* The first frame of a queue taken away. *)
LEMMA TailFrame ==
    ASSUME NEW s \in Seq(Frames), s # <<>>
    PROVE  /\ Head(s) \in Frames /\ Tail(s) \in Seq(Frames)
           /\ Len(s) \in Nat \ {0} /\ Len(Tail(s)) = Len(s) - 1
           /\ Carries(s) <=> Carries(Tail(s)) \/ Head(s) # Data
           /\ Once(s) => Once(Tail(s)) /\ (Carries(Tail(s)) => Head(s) = Data)
           /\ \A t : Only(s, t) => Only(Tail(s), t) /\ Head(s) \in {Data, t}
<1>1. /\ Head(s) \in Frames /\ Tail(s) \in Seq(Frames)
      /\ Len(s) \in Nat \ {0} /\ Len(Tail(s)) = Len(s) - 1
      /\ \A i \in 1..Len(Tail(s)) : Tail(s)[i] = s[i + 1]
      /\ Head(s) = s[1]
  BY HeadTailProperties, EmptySeq, LenProperties
<1> DEFINE a == Tail(s)  h == Head(s)
<1> HIDE DEF a, h
<1>3. /\ \A i \in 1..Len(a) : i + 1 \in 1..Len(s) /\ i + 1 # 1 /\ a[i] = s[i + 1]
      /\ 1 \in 1..Len(s) /\ s[1] = h
      /\ \A i \in 1..Len(s) : i = 1 \/ (i - 1 \in 1..Len(a) /\ a[i - 1] = s[i])
  BY <1>1 DEF a, h
<1>4. Carries(s) <=> Carries(a) \/ h # Data
  BY <1>3 DEF Carries
<1>5. Once(s) => Once(a) /\ (Carries(a) => h = Data)
  <2> SUFFICES ASSUME Once(s) PROVE Once(a) /\ (Carries(a) => h = Data)
    OBVIOUS
  <2>1. ASSUME NEW i \in 1..Len(a), NEW j \in 1..Len(a), a[i] # Data, a[j] # Data PROVE i = j
    <3>1. i + 1 = j + 1
      BY ZenonT(60), <1>3, <2>1 DEF Once
    <3> QED
      BY <3>1
  <2>2. ASSUME NEW i \in 1..Len(a), a[i] # Data PROVE h = Data
    BY <1>3, <2>2 DEF Once
  <2> QED
    BY <2>1, <2>2 DEF Once, Carries
<1>6. \A t : Only(s, t) => Only(a, t) /\ h \in {Data, t}
  BY <1>3 DEF Only
<1> QED
  BY <1>1, <1>4, <1>5, <1>6 DEF a, h

(* A buffer flushed behind what the socket already holds. *)
LEMMA ConcatFrames ==
    ASSUME NEW s \in Seq(Frames), NEW r \in Seq(Frames)
    PROVE  /\ s \o r \in Seq(Frames)
           /\ Carries(s \o r) <=> Carries(s) \/ Carries(r)
           /\ Once(s) /\ Once(r) /\ ~(Carries(s) /\ Carries(r)) => Once(s \o r)
           /\ \A t : Only(s, t) /\ Only(r, t) => Only(s \o r, t)
<1>1. /\ s \o r \in Seq(Frames)
      /\ Len(s \o r) = Len(s) + Len(r)
      /\ \A i \in 1..Len(s) + Len(r) :
            (s \o r)[i] = IF i <= Len(s) THEN s[i] ELSE r[i - Len(s)]
      /\ Len(s) \in Nat /\ Len(r) \in Nat
  BY ConcatProperties, LenProperties
<1> DEFINE a == s \o r
<1> HIDE DEF a
<1>2. /\ \A i \in 1..Len(s) : i \in 1..Len(a) /\ a[i] = s[i]
      /\ \A i \in 1..Len(r) : i + Len(s) \in 1..Len(a) /\ a[i + Len(s)] = r[i]
      /\ \A i \in 1..Len(a) : \/ i \in 1..Len(s) /\ a[i] = s[i]
                              \/ i - Len(s) \in 1..Len(r) /\ a[i] = r[i - Len(s)]
  BY <1>1 DEF a
<1>3. Carries(a) <=> Carries(s) \/ Carries(r)
  BY <1>2 DEF Carries
<1>4. ASSUME Once(s), Once(r), ~(Carries(s) /\ Carries(r)) PROVE Once(a)
  <2> SUFFICES ASSUME NEW i \in 1..Len(a), NEW j \in 1..Len(a), a[i] # Data, a[j] # Data
               PROVE  i = j
    BY DEF Once
  <2>1. CASE i \in 1..Len(s) /\ j \in 1..Len(s)
    BY <1>2, <1>4, <2>1 DEF Once
  <2>2. CASE i \notin 1..Len(s) /\ j \notin 1..Len(s)
    <3>1. i - Len(s) = j - Len(s)
      BY ZenonT(60), <1>2, <1>4, <2>2 DEF Once
    <3> QED
      BY <3>1, <1>1
  <2>3. CASE ~(i \in 1..Len(s) <=> j \in 1..Len(s))
    BY <1>2, <1>4, <2>3 DEF Carries
  <2> QED
    BY <2>1, <2>2, <2>3
<1>5. \A t : Only(s, t) /\ Only(r, t) => Only(a, t)
  BY <1>2 DEF Only
<1> QED
  BY <1>1, <1>3, <1>4, <1>5 DEF a

(* An empty queue carries nothing. *)
LEMMA NoFrames ==
    /\ <<>> \in Seq(Frames) /\ Len(<<>>) = 0
    /\ ~Carries(<<>>) /\ Once(<<>>) /\ \A t : Only(<<>>, t)
  BY DEF Carries, Once, Only

(* The tokens of the client's frames, in order; a request has none. *)
Pongs(q) == [i \in 1..Len(q) |-> q[i].token]

(* A frame sent by the client, and one read by the server. *)
LEMMA PongsAppend ==
    ASSUME NEW q \in Seq(Inbound), NEW m \in Inbound
    PROVE  /\ Append(q, m) \in Seq(Inbound)
           /\ Pongs(Append(q, m)) = Append(Pongs(q), m.token)
<1>1. /\ Append(q, m) \in Seq(Inbound)
      /\ Len(Append(q, m)) = Len(q) + 1
      /\ \A i \in 1..Len(q) : Append(q, m)[i] = q[i]
      /\ Append(q, m)[Len(q) + 1] = m
      /\ Len(q) \in Nat
  BY AppendProperties, LenProperties
<1>2. \A i \in 1..Len(q) : q[i].token \in Frames
  <2>1. \A i \in 1..Len(q) : q[i] \in Inbound
    BY ElementOfSeq
  <2> QED
    BY <2>1 DEF Inbound
<1>3. Pongs(q) \in Seq(Frames) /\ Len(Pongs(q)) = Len(q)
  BY <1>1, <1>2 DEF Pongs
<1>4. m.token \in Frames
  BY DEF Inbound
<1> DEFINE a == Append(Pongs(q), m.token)
<1>5. /\ a \in Seq(Frames) /\ Len(a) = Len(q) + 1
      /\ \A i \in 1..Len(q) : a[i] = Pongs(q)[i]
      /\ a[Len(q) + 1] = m.token
  BY <1>3, <1>4, AppendProperties
<1> HIDE DEF a
<1>6. \A i \in 1..Len(q) : Pongs(q)[i] = q[i].token
  BY DEF Pongs
<1>7. a \in [1..Len(a) -> Frames]
  BY <1>5, LenProperties
<1>8. Pongs(Append(q, m)) = a
  BY <1>1, <1>5, <1>6, <1>7 DEF Pongs
<1> QED
  BY <1>1, <1>8 DEF a

(* The same for a frame the server reads. *)
LEMMA PongsTail ==
    ASSUME NEW q \in Seq(Inbound), q # <<>>
    PROVE  /\ Head(q) \in Inbound /\ Tail(q) \in Seq(Inbound)
           /\ Pongs(q) \in Seq(Frames) /\ Pongs(q) # <<>>
           /\ Pongs(Tail(q)) = Tail(Pongs(q))
           /\ Head(q).token = Head(Pongs(q))
<1>1. /\ Head(q) \in Inbound /\ Tail(q) \in Seq(Inbound)
      /\ Len(q) \in Nat \ {0} /\ Len(Tail(q)) = Len(q) - 1
      /\ \A i \in 1..Len(Tail(q)) : Tail(q)[i] = q[i + 1]
      /\ Head(q) = q[1]
  BY HeadTailProperties, EmptySeq, LenProperties
<1>2. \A i \in 1..Len(q) : q[i].token \in Frames
  <2>1. \A i \in 1..Len(q) : q[i] \in Inbound
    BY ElementOfSeq
  <2> QED
    BY <2>1 DEF Inbound
<1>3. Pongs(q) \in Seq(Frames) /\ Len(Pongs(q)) = Len(q) /\ Pongs(q) # <<>>
  BY <1>1, <1>2 DEF Pongs
<1> DEFINE a == Tail(Pongs(q))
<1>5. /\ a \in Seq(Frames) /\ Len(a) = Len(q) - 1
      /\ \A i \in 1..Len(a) : a[i] = Pongs(q)[i + 1]
      /\ Head(Pongs(q)) = Pongs(q)[1]
  BY <1>3, HeadTailProperties
<1> HIDE DEF a
<1>6. \A i \in 1..Len(q) : Pongs(q)[i] = q[i].token
  BY DEF Pongs
<1>7. a \in [1..Len(a) -> Frames]
  BY <1>5, LenProperties
<1>8. Pongs(Tail(q)) = a
  <2>1. \A i \in 1..Len(a) : i + 1 \in 1..Len(q) /\ a[i] = Tail(q)[i].token
    BY <1>1, <1>5, <1>6
  <2> QED
    BY <1>1, <1>5, <1>7, <2>1 DEF Pongs
<1> QED
  BY <1>1, <1>3, <1>5, <1>6, <1>8 DEF a
-----------------------------------------------------------------------------
(* Between two flushes the buffer has room for a frame, or it is broken    *)
(* and takes none.                                                         *)
BufHasRoom == ~broken /\ writer.pc # "flush" => Len(buf) < BufFrames

(* A frame of the client carries a token exactly when it is a Pong. *)
PongsCarryTokens ==
    \A i \in 1..Len(inbound) : inbound[i].type = "pong" <=> inbound[i].token # Data

TypeInv == TypeOK /\ BufHasRoom /\ PongsCarryTokens

(* Conn.Enqueue keeps the bound of the queue. *)
LEMMA EnqueueType ==
    ASSUME TypeOK, NEW f \in Frames, Enqueue(f)
    PROVE  out' \in Seq(Frames) /\ Len(out') <= OutboundQueueSize /\ dropCount' \in Nat
<1> USE DEF TypeOK
<1>1. CASE UNCHANGED queueVars
  BY <1>1 DEF queueVars
<1>2. CASE Len(out) < OutboundQueueSize /\ out' = Append(out, f) /\ UNCHANGED dropCount
  <2>1. out' \in Seq(Frames) /\ Len(out') = Len(out) + 1 /\ Len(out) \in Nat
    BY <1>2, AppendFrame, LenProperties
  <2> QED
    BY <1>2, <2>1, ConnectionAssumption
<1>3. CASE dropCount' = dropCount + 1 /\ UNCHANGED out
  BY <1>3
<1> QED
  BY <1>1, <1>2, <1>3 DEF Enqueue

(* dispatch keeps the types: what it enqueues is data, and the token it    *)
(* gives to pongCh is one of a Pong.                                       *)
LEMMA DispatchType == TypeInv /\ Dispatch => TypeInv'
<1> SUFFICES ASSUME TypeInv, Dispatch PROVE TypeInv'
  OBVIOUS
<1> DEFINE f == Head(inbound)
<1>1. /\ f \in Inbound /\ inbound' \in Seq(Inbound)
      /\ Len(inbound) \in Nat \ {0} /\ Len(inbound') = Len(inbound) - 1
      /\ \A i \in 1..Len(inbound') : inbound'[i] = inbound[i + 1]
      /\ f = inbound[1]
  BY HeadTailProperties, EmptySeq, LenProperties DEF Dispatch, TypeInv, TypeOK
<1>2. f.type = "pong" => f.token \in Tokens
  <2>1. f.type = "pong" => f.token # Data
    BY <1>1 DEF TypeInv, PongsCarryTokens
  <2> QED
    BY <1>1, <2>1 DEF Inbound, Frames
<1>3. PongsCarryTokens'
  <2>1. \A i \in 1..Len(inbound') : i + 1 \in 1..Len(inbound)
    BY <1>1
  <2> QED
    BY <1>1, <2>1 DEF TypeInv, PongsCarryTokens
<1> HIDE DEF f
<1>4. \/ HandleAuth \/ HandleJoin \/ HandlePart \/ HandlePing
      \/ f.type = "pong" /\ HandlePong(f.token)
  BY DEF Dispatch, f
<1>d. Data \in Frames
  BY DEF Frames
<1>5. out' \in Seq(Frames) /\ Len(out') <= OutboundQueueSize /\ dropCount' \in Nat
  <2>1. Enqueue(Data) \/ UNCHANGED queueVars
    BY <1>4 DEF HandleAuth, HandleJoin, HandlePart, HandlePing, HandlePong
  <2> QED
    BY <2>1, <1>d, EnqueueType DEF TypeInv, TypeOK, queueVars
<1>6. pongCh' \in Seq(Tokens) /\ Len(pongCh') <= PongChCap
  <2>1. CASE UNCHANGED pongCh
    BY <2>1 DEF TypeInv, TypeOK
  <2>2. CASE f.type = "pong" /\ Len(pongCh) < PongChCap /\ pongCh' = Append(pongCh, f.token)
    <3>1. pongCh' \in Seq(Tokens) /\ Len(pongCh') = Len(pongCh) + 1 /\ Len(pongCh) \in Nat
      BY <1>2, <2>2, AppendProperties, LenProperties DEF TypeInv, TypeOK
    <3> QED
      BY <2>2, <3>1, ConnectionAssumption
  <2> QED
    BY <1>4, <2>1, <2>2 DEF HandleAuth, HandleJoin, HandlePart, HandlePing, HandlePong
<1>7. authed' \in BOOLEAN /\ member' \in BOOLEAN
  BY <1>4, Zenon DEF HandleAuth, HandleJoin, HandlePart, HandlePing, HandlePong, TypeInv, TypeOK
<1>8. reader' = "check" /\ UNCHANGED <<sockVars, writeVars, pingVars, clientVars, data>>
  BY DEF Dispatch
<1> QED
  BY <1>1, <1>3, <1>5, <1>6, <1>7, <1>8 DEF TypeInv, TypeOK, BufHasRoom, sockVars, writeVars, pingVars,
     clientVars

(* The other steps of serve keep the types. *)
LEMMA ReaderType == TypeInv /\ ReaderStep => TypeInv'
<1> SUFFICES ASSUME TypeInv, ReaderCheck \/ ReadError \/ Cancel \/ WaitDone \/ Close PROVE TypeInv'
  BY DispatchType DEF ReaderStep
<1>1. /\ reader' \in {"check", "decode", "returned", "wait", "close", "done"}
      /\ UNCHANGED <<authed, queueVars, writeVars, pingVars, pongCh, clientVars, inbound, data>>
  BY DEF ReaderCheck, ReadError, Cancel, WaitDone, Close
<1>2. /\ ctxDone' \in BOOLEAN /\ closed' \in BOOLEAN /\ rawClosed' \in BOOLEAN
      /\ member' \in BOOLEAN
  BY DEF ReaderCheck, ReadError, Cancel, WaitDone, Close, TypeInv, TypeOK, sockVars
<1> QED
  BY <1>1, <1>2 DEF TypeInv, TypeOK, BufHasRoom, PongsCarryTokens, queueVars, writeVars, pingVars,
     clientVars

(* The write loop keeps them: a full buffer is flushed before the next     *)
(* frame is taken.                                                         *)
LEMMA WriterTypes == TypeInv /\ WriterStep => TypeInv'
<1> SUFFICES ASSUME TypeInv, WriterStep PROVE TypeInv'
  OBVIOUS
<1>0. UNCHANGED <<sockVars, authed, member, dropCount, reader, pingVars, pongCh, client, sent, inbound, data>>
  BY DEF WriterStep, WriterTake, WriterLag, FlushTick, WriterCtxDone, FlushWrites, FlushFails,
     queueVars, clientVars
<1>1. SUFFICES /\ out' \in Seq(Frames) /\ Len(out') <= OutboundQueueSize
               /\ WriterType'
               /\ buf' \in Seq(Frames) /\ Len(buf') <= BufFrames /\ broken' \in BOOLEAN
               /\ received' \in Seq(Frames)
               /\ BufHasRoom'
  <2>1. /\ ctxDone' \in BOOLEAN /\ closed' \in BOOLEAN /\ rawClosed' \in BOOLEAN
        /\ authed' \in BOOLEAN /\ member' \in BOOLEAN
    BY <1>0, Zenon DEF TypeInv, TypeOK, sockVars
  <2>2. UNCHANGED <<dropCount, reader, pinger, token, pongCh, client, sent, inbound, data>>
    BY <1>0 DEF pingVars
  <2> QED
    BY <2>1, <2>2 DEF TypeInv, TypeOK, PongsCarryTokens, WriterType
<1>2. WriterType /\ TypeOK /\ BufHasRoom /\ Len(out) \in Nat /\ Len(buf) \in Nat
  BY LenProperties DEF TypeInv, TypeOK, WriterType
<1>3. CASE WriterTake
  <2>1. /\ Head(out) \in Frames /\ out' \in Seq(Frames) /\ Len(out') <= OutboundQueueSize
    BY <1>2, <1>3, TailFrame, ConnectionAssumption DEF WriterTake, TypeOK
  <2>2. /\ received' \in Seq(Frames) /\ broken' \in BOOLEAN
        /\ writer.pc = "select" /\ UNCHANGED broken
    BY <1>2, <1>3 DEF WriterTake, TypeOK, clientVars
  <2>3. CASE broken
    BY <1>2, <1>3, <2>1, <2>2, <2>3 DEF WriterTake, WriterAt, WriterType, TypeOK, BufHasRoom
  <2>4. CASE ~broken
    <3>1. /\ buf' = Append(buf, Head(out))
          /\ \/ FlushThen("lag")
             \/ Len(buf) + 1 < BufFrames /\ WriterAt("lag")
      BY <1>2, <1>3, <2>4, ConnectionAssumption DEF WriterTake
    <3>2. buf' \in Seq(Frames) /\ Len(buf') = Len(buf) + 1
      BY <1>2, <2>1, <3>1, AppendFrame DEF TypeOK
    <3>3. Len(buf) < BufFrames
      BY <1>2, <2>2, <2>4 DEF BufHasRoom
    <3>4. WriterType' /\ (writer'.pc = "flush" \/ Len(buf) + 1 < BufFrames)
      BY <1>2, <3>1 DEF WriterType, FlushThen, WriterAt
    <3> QED
      BY <1>2, <2>1, <2>2, <3>2, <3>3, <3>4, ConnectionAssumption DEF BufHasRoom
  <2> QED
    BY <2>3, <2>4
<1>4. CASE WriterLag \/ FlushTick \/ WriterCtxDone
  <2>1. /\ UNCHANGED <<out, buf, broken, received>> /\ writer.pc # "flush"
        /\ \/ \E pc \in {"slow", "select", "gone"} : WriterAt(pc)
           \/ \E pc \in {"select", "gone"} : FlushThen(pc)
    BY <1>4 DEF WriterLag, FlushTick, WriterCtxDone, queueVars, clientVars
  <2> QED
    BY <1>2, <2>1 DEF WriterType, WriterAt, FlushThen, TypeOK, BufHasRoom
<1>5. CASE FlushWrites
  <2>1. received' \in Seq(Frames) /\ buf' = <<>> /\ UNCHANGED <<out, broken>> /\ WriterAt(writer.after)
    BY <1>2, <1>5, ConcatFrames DEF FlushWrites, TypeOK, queueVars
  <2>2. Len(buf') = 0 /\ buf' \in Seq(Frames)
    BY <2>1, NoFrames
  <2>3. WriterType'
    BY <1>2, <2>1 DEF WriterType, WriterAt
  <2>4. Len(buf') <= BufFrames /\ BufHasRoom'
    BY <2>2, ConnectionAssumption DEF BufHasRoom
  <2> QED
    BY <1>2, <2>1, <2>2, <2>3, <2>4 DEF TypeOK
<1>6. CASE FlushFails
  BY <1>2, <1>6 DEF FlushFails, WriterType, WriterAt, TypeOK, BufHasRoom, queueVars, clientVars
<1> QED
  BY <1>3, <1>4, <1>5, <1>6 DEF WriterStep

(* The ping loop keeps them. *)
LEMMA PingerType == TypeInv /\ PingerStep => TypeInv'
<1> SUFFICES ASSUME TypeInv, PingerStep PROVE TypeInv'
  OBVIOUS
<1> USE DEF TypeInv, TypeOK, BufHasRoom, PongsCarryTokens, sockVars, queueVars, writeVars, clientVars
<1>1. CASE PingTick
  <2>1. token + 1 \in Frames /\ token + 1 \in 0..MaxPings
    BY <1>1, ConnectionAssumption DEF PingTick, Frames, Tokens
  <2>2. out' \in Seq(Frames) /\ Len(out') <= OutboundQueueSize /\ dropCount' \in Nat
    BY <1>1, <2>1, EnqueueType DEF PingTick
  <2> QED
    BY <1>1, <2>1, <2>2 DEF PingTick
<1>2. CASE PongReceived
  <2>1. pongCh' \in Seq(Tokens) /\ Len(pongCh) \in Nat \ {0} /\ Len(pongCh') = Len(pongCh) - 1
    BY <1>2, HeadTailProperties, EmptySeq, LenProperties DEF PongReceived
  <2>2. Len(pongCh') <= PongChCap
    BY <2>1, ConnectionAssumption
  <2> QED
    BY <1>2, <2>1, <2>2 DEF PongReceived
<1>3. CASE PongTimeout \/ PingerCtxDone
  BY <1>3 DEF PongTimeout, PingerCtxDone, pingVars
<1> QED
  BY <1>1, <1>2, <1>3 DEF PingerStep

(* The client keeps them: its Pongs carry the tokens of Pings. *)
LEMMA ClientType == TypeInv /\ ClientStep => TypeInv'
<1> SUFFICES ASSUME TypeInv, ClientStep PROVE TypeInv'
  OBVIOUS
<1> USE DEF TypeInv, TypeOK, BufHasRoom, sockVars, queueVars, writeVars, pingVars
<1>1. ASSUME NEW m \in Inbound, m.type = "pong" <=> m.token # Data, inbound' = Append(inbound, m)
      PROVE  inbound' \in Seq(Inbound) /\ PongsCarryTokens'
  <2>1. /\ inbound' \in Seq(Inbound) /\ Len(inbound') = Len(inbound) + 1
        /\ \A i \in 1..Len(inbound) : inbound'[i] = inbound[i]
        /\ inbound'[Len(inbound) + 1] = m
        /\ Len(inbound) \in Nat
    BY <1>1, AppendProperties, LenProperties
  <2>2. \A i \in 1..Len(inbound') : i \in 1..Len(inbound) \/ i = Len(inbound) + 1
    BY <2>1
  <2> QED
    BY <1>1, <2>1, <2>2 DEF PongsCarryTokens
<1>2. CASE ClientSends
  <2>1. PICK t \in Requests : inbound' = Append(inbound, Request(t))
    BY <1>2 DEF ClientSends
  <2>2. Request(t) \in Inbound /\ Request(t).type # "pong" /\ Request(t).token = Data
    BY DEF Request, Requests, Inbound, Data, Frames
  <2>3. inbound' \in Seq(Inbound) /\ PongsCarryTokens'
    BY <1>1, <2>1, <2>2
  <2>4. sent' \in 0..MaxSends
    BY <1>2, ConnectionAssumption DEF ClientSends
  <2> QED
    BY <1>2, <2>3, <2>4 DEF ClientSends
<1>3. CASE ClientHandles
  <2>1. Head(received) \in Frames /\ received' \in Seq(Frames)
    BY <1>3, TailFrame DEF ClientHandles
  <2>2. inbound' \in Seq(Inbound) /\ PongsCarryTokens'
    <3>1. CASE Head(received) = Data
      BY <1>3, <3>1 DEF ClientHandles, PongsCarryTokens
    <3>2. CASE Head(received) # Data
      <4> DEFINE m == [type |-> "pong", token |-> Head(received)]
      <4>1. m \in Inbound /\ m.type = "pong" /\ m.token # Data
        BY <2>1, <3>2 DEF Inbound
      <4>2. inbound' = Append(inbound, m)
        BY <1>3, <3>2 DEF ClientHandles
      <4> HIDE DEF m
      <4> QED
        BY <1>1, <4>1, <4>2
    <3> QED
      BY <3>1, <3>2
  <2> QED
    BY <1>3, <2>1, <2>2 DEF ClientHandles
<1>4. CASE ClientChanges
  BY <1>4 DEF ClientChanges, PongsCarryTokens
<1> QED
  BY <1>2, <1>3, <1>4 DEF ClientStep

(* TypeInv holds at first, and every step of the system keeps it. *)
LEMMA TypeInvHolds == Spec => []TypeInv
<1>1. Init => TypeInv
  <2> SUFFICES ASSUME Init PROVE TypeInv
    OBVIOUS
  <2>1. 0 \in 0..MaxPings /\ 0 \in 0..MaxSends /\ 0 \in 0..MaxData
    BY ConnectionAssumption
  <2>2. <<>> \in Seq(Tokens) /\ <<>> \in Seq(Inbound)
    OBVIOUS
  <2>3. BufHasRoom /\ PongsCarryTokens
    BY NoFrames, ConnectionAssumption DEF Init, BufHasRoom, PongsCarryTokens
  <2>4. Len(<<>>) <= OutboundQueueSize /\ Len(<<>>) <= BufFrames /\ Len(<<>>) <= PongChCap
    BY NoFrames, ConnectionAssumption
  <2>5. TypeOK
    BY <2>1, <2>2, <2>4, NoFrames DEF Init, TypeOK
  <2> QED
    BY <2>3, <2>5 DEF TypeInv
<1>2. TypeInv /\ [Next]_vars => TypeInv'
  <2> SUFFICES ASSUME TypeInv, [Next]_vars PROVE TypeInv'
    OBVIOUS
  <2> USE DEF TypeInv, TypeOK, BufHasRoom, PongsCarryTokens, sockVars, queueVars, writeVars, pingVars,
          clientVars
  <2>1. CASE Broadcast
    <3>1. Data \in Frames /\ data' \in 0..MaxData
      BY <2>1, ConnectionAssumption DEF Broadcast, Frames
    <3>2. out' \in Seq(Frames) /\ Len(out') <= OutboundQueueSize /\ dropCount' \in Nat
      BY <2>1, <3>1, EnqueueType DEF Broadcast
    <3>3. /\ ctxDone' \in BOOLEAN /\ closed' \in BOOLEAN /\ rawClosed' \in BOOLEAN
          /\ authed' \in BOOLEAN /\ member' \in BOOLEAN /\ broken' \in BOOLEAN
          /\ BufHasRoom'
      BY <2>1 DEF Broadcast
    <3>4. UNCHANGED <<reader, writer, buf, pinger, token, pongCh, client, received, sent, inbound>>
      BY <2>1 DEF Broadcast
    <3> QED
      BY <3>1, <3>2, <3>3, <3>4
  <2>2. CASE Closer
    BY <2>2 DEF Closer
  <2>3. CASE Shutdown
    BY <2>3 DEF Shutdown
  <2>4. CASE UNCHANGED vars
    BY <2>4 DEF vars
  <2> QED
    BY <2>1, <2>2, <2>3, <2>4, ReaderType, WriterTypes, PingerType, ClientType DEF Next
<1> QED
  BY <1>1, <1>2, PTL DEF Spec

(* The connection's state keeps its types: the outbound queue, the write   *)
(* buffer and the pong channel of conn.go stay within their bounds.        *)
THEOREM ConnectionTypeCorrect == Spec => []TypeOK
<1>1. TypeInv => TypeOK
  BY DEF TypeInv
<1> QED
  BY <1>1, TypeInvHolds, PTL
-----------------------------------------------------------------------------
(* The way of a token, from Enqueue to the ping loop. *)
Way == <<out, buf, received, Pongs(inbound), pongCh>>

OneOnTheWay ==
    /\ \A k \in 1..5 : Once(Way[k]) /\ Only(Way[k], token)
    /\ \A k, l \in 1..5 : Carries(Way[k]) /\ Carries(Way[l]) => k = l

NoneOnTheWay == \A k \in 1..5 : ~Carries(Way[k])

TokenInv ==
    /\ OneOnTheWay
    /\ pinger = "tick" => NoneOnTheWay
    /\ pinger # "mismatch"

(* The stations of the way are sequences of frames. *)
LEMMA WayType == TypeInv => \A k \in 1..5 : Way[k] \in Seq(Frames)
<1> SUFFICES ASSUME TypeInv PROVE \A k \in 1..5 : Way[k] \in Seq(Frames)
  OBVIOUS
<1>1. \A i \in 1..Len(inbound) : inbound[i].token \in Frames
  <2>1. \A i \in 1..Len(inbound) : inbound[i] \in Inbound
    BY ElementOfSeq DEF TypeInv, TypeOK
  <2> QED
    BY <2>1 DEF Inbound
<1>2. Pongs(inbound) \in Seq(Frames)
  BY <1>1, LenProperties DEF Pongs, TypeInv, TypeOK
<1>3. pongCh \in Seq(Frames)
  BY SeqMonotonic DEF TypeInv, TypeOK, Frames
<1> QED
  BY <1>2, <1>3 DEF Way, TypeInv, TypeOK

(* A step in which the way loses tokens or keeps them, but moves none. *)
Loses ==
    /\ token' = token
    /\ \A k \in 1..5 : /\ Carries(Way'[k]) => Carries(Way[k])
                       /\ Once(Way[k]) => Once(Way'[k])
                       /\ Only(Way[k], token) => Only(Way'[k], token')

(* Such a step keeps TokenInv unless it ends the wait for the token. *)
LEMMA LosingStep ==
    TokenInv /\ Loses /\ pinger' # "mismatch" /\ (pinger' = "tick" => pinger = "tick") => TokenInv'
  BY DEF TokenInv, OneOnTheWay, NoneOnTheWay, Loses

(* A step that moves the token of station j, if it has one, to station m,  *)
(* and loses or keeps the others, keeps it too.                            *)
LEMMA MovingStep ==
    ASSUME TokenInv, UNCHANGED <<token, pinger>>,
           NEW j \in 1..5, NEW m \in 1..5, j # m,
           \A k \in 1..5 : Once(Way'[k]) /\ Only(Way'[k], token'),
           \A k \in 1..5 \ {m} : Carries(Way'[k]) => Carries(Way[k]),
           Carries(Way'[m]) => Carries(Way[m]) \/ (Carries(Way[j]) /\ ~Carries(Way'[j]))
    PROVE  TokenInv'
  BY DEF TokenInv, OneOnTheWay, NoneOnTheWay

(* What TokenInv says of the stations one by one. *)
LEMMA Stations ==
    /\ Way[1] = out /\ Way[2] = buf /\ Way[3] = received
    /\ Way[4] = Pongs(inbound) /\ Way[5] = pongCh
    /\ Way'[1] = out' /\ Way'[2] = buf' /\ Way'[3] = received'
    /\ Way'[4] = Pongs(inbound') /\ Way'[5] = pongCh'
    /\ \A k \in 1..5 : k = 1 \/ k = 2 \/ k = 3 \/ k = 4 \/ k = 5
  BY DEF Way

(* A frame that is no Ping puts no token on the way. *)
LEMMA DataEnqueued ==
    ASSUME TypeInv, Enqueue(Data) \/ UNCHANGED queueVars
    PROVE  /\ Carries(out') => Carries(out)
           /\ Once(out) => Once(out')
           /\ \A t : Only(out, t) => Only(out', t)
<1>1. out' = out \/ out' = Append(out, Data)
  BY DEF Enqueue, queueVars
<1>2. Data \in Frames /\ out \in Seq(Frames)
  BY DEF Frames, TypeInv, TypeOK
<1> QED
  BY ZenonT(60), <1>1, <1>2, AppendFrame

(* dispatch moves the token of a Pong to pongCh, or drops it when pongCh   *)
(* is full; every other request puts only data into the queue.             *)
LEMMA DispatchToken == TypeInv /\ TokenInv /\ Dispatch => TokenInv'
<1> SUFFICES ASSUME TypeInv, TokenInv, Dispatch PROVE TokenInv'
  OBVIOUS
<1>1. /\ UNCHANGED <<buf, received, token, pinger>>
      /\ inbound # <<>> /\ inbound' = Tail(inbound)
  BY DEF Dispatch, writeVars, clientVars, pingVars
<1> DEFINE p == Pongs(inbound)
<1>2. /\ p \in Seq(Frames) /\ p # <<>> /\ Pongs(inbound') = Tail(p)
      /\ Head(inbound).token = Head(p)
  BY <1>1, PongsTail DEF TypeInv, TypeOK
<1> HIDE DEF p
<1>3. /\ Carries(p) <=> Carries(Tail(p)) \/ Head(p) # Data
      /\ Once(p) => Once(Tail(p)) /\ (Carries(Tail(p)) => Head(p) = Data)
      /\ \A t : Only(p, t) => Only(Tail(p), t) /\ Head(p) \in {Data, t}
  BY <1>2, TailFrame
<1>4. \A k \in 1..5 : Once(Way[k]) /\ Only(Way[k], token)
  BY DEF TokenInv, OneOnTheWay
<1>5. pinger # "mismatch"
  BY DEF TokenInv
<1>6. CASE HandleAuth \/ HandleJoin \/ HandlePart \/ HandlePing
  <2>1. (Enqueue(Data) \/ UNCHANGED queueVars) /\ UNCHANGED pongCh
    BY <1>6 DEF HandleAuth, HandleJoin, HandlePart, HandlePing
  <2>2. Loses
    BY <1>1, <1>2, <1>3, <2>1, DataEnqueued, Stations DEF p, Loses
  <2> QED
    BY <1>1, <1>5, <2>2, LosingStep
<1>7. CASE HandlePong(Head(p))
  <2>1. UNCHANGED out
    BY <1>7 DEF HandlePong, queueVars
  <2>2. CASE UNCHANGED pongCh
    <3>1. Loses
      BY <1>1, <1>2, <1>3, <2>1, <2>2, Stations DEF p, Loses
    <3> QED
      BY <1>1, <1>5, <3>1, LosingStep
  <2>3. CASE pongCh' = Append(pongCh, Head(p))
    <3>1. Head(p) \in Frames /\ pongCh \in Seq(Frames)
      BY <1>2, TailFrame, WayType, Stations
    <3>2. /\ Carries(pongCh') <=> Carries(pongCh) \/ Head(p) # Data
          /\ Once(pongCh) /\ (Carries(pongCh) => Head(p) = Data) => Once(pongCh')
          /\ \A t : Only(pongCh, t) /\ Head(p) \in {Data, t} => Only(pongCh', t)
      BY <2>3, <3>1, AppendFrame
    <3>3. ~(Carries(p) /\ Carries(pongCh))
      BY Stations DEF p, TokenInv, OneOnTheWay
    <3>4. \A k \in 1..5 : Once(Way'[k]) /\ Only(Way'[k], token')
      <4>1. Once(p) /\ Only(p, token) /\ Once(pongCh) /\ Only(pongCh, token)
        BY <1>4, Stations DEF p
      <4>2. Once(Tail(p)) /\ Only(Tail(p), token) /\ Head(p) \in {Data, token}
        BY <1>3, <4>1
      <4>3. Once(pongCh') /\ Only(pongCh', token)
        BY <1>3, <3>2, <3>3, <4>1, <4>2
      <4> QED
        BY <1>1, <1>2, <1>4, <2>1, <4>2, <4>3, Stations
    <3>5. \A k \in 1..5 \ {5} : Carries(Way'[k]) => Carries(Way[k])
      BY <1>1, <1>2, <1>3, <2>1, Stations DEF p
    <3>6. Carries(Way'[5]) => Carries(Way[5]) \/ (Carries(Way[4]) /\ ~Carries(Way'[4]))
      BY <1>2, <1>3, <1>4, <3>2, Stations DEF p
    <3> QED
      BY <1>1, <3>4, <3>5, <3>6, MovingStep
  <2> QED
    BY <1>7, <2>2, <2>3 DEF HandlePong
<1> QED
  BY <1>2, <1>6, <1>7 DEF Dispatch

(* The write loop moves a token to the buffer and on to the client. *)
LEMMA WriterToken == TypeInv /\ TokenInv /\ WriterStep => TokenInv'
<1> SUFFICES ASSUME TypeInv, TokenInv, WriterStep PROVE TokenInv'
  OBVIOUS
<1>1. UNCHANGED <<inbound, pongCh, token, pinger>>
  BY DEF WriterStep, WriterTake, WriterLag, FlushTick, WriterCtxDone, FlushWrites, FlushFails, pingVars
<1>2. Pongs(inbound') = Pongs(inbound)
  BY <1>1
<1>3. \A k \in 1..5 : Once(Way[k]) /\ Only(Way[k], token)
  BY DEF TokenInv, OneOnTheWay
<1>4. pinger # "mismatch"
  BY DEF TokenInv
<1>5. out \in Seq(Frames) /\ buf \in Seq(Frames) /\ received \in Seq(Frames)
  BY DEF TypeInv, TypeOK
<1>6. CASE WriterTake
  <2>1. /\ Head(out) \in Frames /\ out' = Tail(out) /\ UNCHANGED received
        /\ Carries(out) <=> Carries(out') \/ Head(out) # Data
        /\ Once(out) => Once(out') /\ (Carries(out') => Head(out) = Data)
        /\ \A t : Only(out, t) => Only(out', t) /\ Head(out) \in {Data, t}
    BY <1>5, <1>6, TailFrame DEF WriterTake, clientVars
  <2>2. CASE UNCHANGED buf
    <3>1. Loses
      BY <1>1, <1>2, <2>1, <2>2, Stations DEF Loses
    <3> QED
      BY <1>1, <1>4, <3>1, LosingStep
  <2>3. CASE buf' = Append(buf, Head(out))
    <3>1. /\ Carries(buf') <=> Carries(buf) \/ Head(out) # Data
          /\ Once(buf) /\ (Carries(buf) => Head(out) = Data) => Once(buf')
          /\ \A t : Only(buf, t) /\ Head(out) \in {Data, t} => Only(buf', t)
      BY <1>5, <2>1, <2>3, AppendFrame
    <3>2. ~(Carries(out) /\ Carries(buf))
      BY Stations DEF TokenInv, OneOnTheWay
    <3>3. \A k \in 1..5 : Once(Way'[k]) /\ Only(Way'[k], token')
      <4>1. Once(out) /\ Only(out, token) /\ Once(buf) /\ Only(buf, token)
        BY <1>3, Stations
      <4>2. Once(out') /\ Only(out', token) /\ Head(out) \in {Data, token}
        BY <2>1, <4>1
      <4>3. Once(buf') /\ Only(buf', token)
        BY <2>1, <3>1, <3>2, <4>1, <4>2
      <4> QED
        BY <1>1, <1>2, <1>3, <2>1, <4>2, <4>3, Stations
    <3>4. \A k \in 1..5 \ {2} : Carries(Way'[k]) => Carries(Way[k])
      BY <1>1, <1>2, <2>1, Stations
    <3>5. Carries(Way'[2]) => Carries(Way[2]) \/ (Carries(Way[1]) /\ ~Carries(Way'[1]))
      BY <1>3, <2>1, <3>1, Stations
    <3> QED
      BY <1>1, <3>3, <3>4, <3>5, MovingStep
  <2> QED
    BY <1>6, <2>2, <2>3 DEF WriterTake
<1>7. CASE FlushWrites
  <2>1. buf' = <<>> /\ received' = received \o buf /\ UNCHANGED out
    BY <1>7 DEF FlushWrites, queueVars
  <2>2. /\ Carries(received') <=> Carries(received) \/ Carries(buf)
        /\ Once(received) /\ Once(buf) /\ ~(Carries(received) /\ Carries(buf)) => Once(received')
        /\ \A t : Only(received, t) /\ Only(buf, t) => Only(received', t)
    BY <1>5, <2>1, ConcatFrames
  <2>3. ~Carries(buf') /\ Once(buf') /\ Only(buf', token)
    BY <2>1, NoFrames
  <2>4. ~(Carries(received) /\ Carries(buf))
    BY Stations DEF TokenInv, OneOnTheWay
  <2>5. \A k \in 1..5 : Once(Way'[k]) /\ Only(Way'[k], token')
    <3>1. Once(received) /\ Only(received, token) /\ Once(buf) /\ Only(buf, token)
      BY <1>3, Stations
    <3>2. Once(received') /\ Only(received', token)
      BY <2>2, <2>4, <3>1
    <3> QED
      BY <1>1, <1>2, <1>3, <2>1, <2>3, <3>2, Stations
  <2>6. \A k \in 1..5 \ {3} : Carries(Way'[k]) => Carries(Way[k])
    BY <1>1, <1>2, <2>1, <2>3, Stations
  <2>7. Carries(Way'[3]) => Carries(Way[3]) \/ (Carries(Way[2]) /\ ~Carries(Way'[2]))
    BY <2>2, <2>3, Stations
  <2> QED
    BY <1>1, <2>5, <2>6, <2>7, MovingStep
<1>8. CASE WriterLag \/ FlushTick \/ WriterCtxDone \/ FlushFails
  <2>1. UNCHANGED <<out, buf, received>>
    BY <1>8 DEF WriterLag, FlushTick, WriterCtxDone, FlushFails, queueVars, clientVars
  <2>2. Loses
    BY <1>1, <1>2, <2>1, Stations DEF Loses
  <2> QED
    BY <1>1, <1>4, <2>2, LosingStep
<1> QED
  BY <1>6, <1>7, <1>8 DEF WriterStep

(* The client moves a token into its Pong. *)
LEMMA ClientToken == TypeInv /\ TokenInv /\ ClientStep => TokenInv'
<1> SUFFICES ASSUME TypeInv, TokenInv, ClientStep PROVE TokenInv'
  OBVIOUS
<1>1. UNCHANGED <<out, buf, pongCh, token, pinger>>
  BY DEF ClientStep, ClientSends, ClientHandles, ClientChanges, queueVars, writeVars, pingVars
<1>2. \A k \in 1..5 : Once(Way[k]) /\ Only(Way[k], token)
  BY DEF TokenInv, OneOnTheWay
<1>3. pinger # "mismatch"
  BY DEF TokenInv
<1>4. /\ received \in Seq(Frames) /\ inbound \in Seq(Inbound) /\ Pongs(inbound) \in Seq(Frames)
      /\ Data \in Frames
  BY WayType, Stations DEF TypeInv, TypeOK, Frames
<1>5. CASE ClientSends
  <2>1. PICK t \in Requests : inbound' = Append(inbound, Request(t))
    BY <1>5 DEF ClientSends
  <2>2. Request(t) \in Inbound /\ Request(t).token = Data
    BY DEF Request, Requests, Inbound, Data, Frames
  <2>3. Pongs(inbound') = Append(Pongs(inbound), Data) /\ UNCHANGED received
    BY <1>4, <1>5, <2>1, <2>2, PongsAppend DEF ClientSends
  <2>4. /\ Carries(Pongs(inbound')) => Carries(Pongs(inbound))
        /\ Once(Pongs(inbound)) => Once(Pongs(inbound'))
        /\ Only(Pongs(inbound), token) => Only(Pongs(inbound'), token)
    <3> DEFINE p == Pongs(inbound)  q == Pongs(inbound')
    <3>1. p \in Seq(Frames) /\ q = Append(p, Data)
      BY <1>4, <2>3
    <3> HIDE DEF p, q
    <3>2. (Carries(q) => Carries(p)) /\ (Once(p) => Once(q)) /\ (Only(p, token) => Only(q, token))
      BY <1>4, <3>1, AppendFrame
    <3> QED
      BY <3>2 DEF p, q
  <2>5. Loses
    BY <1>1, <2>3, <2>4, Stations DEF Loses
  <2> QED
    BY <1>1, <1>3, <2>5, LosingStep
<1>6. CASE ClientHandles
  <2>1. /\ Head(received) \in Frames
        /\ Carries(received) <=> Carries(received') \/ Head(received) # Data
        /\ Once(received) => Once(received') /\ (Carries(received') => Head(received) = Data)
        /\ \A t : Only(received, t) => Only(received', t) /\ Head(received) \in {Data, t}
    BY <1>4, <1>6, TailFrame DEF ClientHandles
  <2>2. CASE Head(received) = Data
    <3>1. Pongs(inbound') = Pongs(inbound)
      BY <1>6, <2>2 DEF ClientHandles
    <3>2. Loses
      BY <1>1, <2>1, <3>1, Stations DEF Loses
    <3> QED
      BY <1>1, <1>3, <3>2, LosingStep
  <2>3. CASE Head(received) # Data
    <3> DEFINE m == [type |-> "pong", token |-> Head(received)]  p == Pongs(inbound)  q == Pongs(inbound')
    <3>1. m \in Inbound /\ m.token = Head(received) /\ inbound' = Append(inbound, m)
      BY <1>6, <2>1, <2>3 DEF ClientHandles, Inbound
    <3>2. q = Append(p, Head(received))
      BY <1>4, <3>1, PongsAppend
    <3>3. /\ Once(p) /\ (Carries(p) => Head(received) = Data) => Once(q)
          /\ \A t : Only(p, t) /\ Head(received) \in {Data, t} => Only(q, t)
      BY <1>4, <2>1, <3>2, AppendFrame
    <3>4. ~(Carries(received) /\ Carries(p))
      BY Stations DEF TokenInv, OneOnTheWay
    <3>5. \A k \in 1..5 : Once(Way'[k]) /\ Only(Way'[k], token')
      BY <1>1, <1>2, <2>1, <3>3, <3>4, Stations
    <3>6. \A k \in 1..5 \ {4} : Carries(Way'[k]) => Carries(Way[k])
      BY <1>1, <2>1, Stations
    <3>7. Carries(Way'[4]) => Carries(Way[4]) \/ (Carries(Way[3]) /\ ~Carries(Way'[3]))
      BY <1>2, <2>1, <2>3, Stations
    <3> QED
      BY <1>1, <3>5, <3>6, <3>7, MovingStep
  <2> QED
    BY <2>2, <2>3
<1>7. CASE ClientChanges
  <2>1. UNCHANGED <<received, inbound>>
    BY <1>7 DEF ClientChanges
  <2>2. Loses
    BY <1>1, <2>1, Stations DEF Loses
  <2> QED
    BY <1>1, <1>3, <2>2, LosingStep
<1> QED
  BY <1>5, <1>6, <1>7 DEF ClientStep

(* The ping loop puts a token on an empty way, and takes the one it waits  *)
(* for from the end.                                                       *)
LEMMA PingerToken == TypeInv /\ TokenInv /\ PingerStep => TokenInv'
<1> SUFFICES ASSUME TypeInv, TokenInv, PingerStep PROVE TokenInv'
  OBVIOUS
<1>1. UNCHANGED <<buf, received, inbound>>
  BY DEF PingerStep, PingTick, PongReceived, PongTimeout, PingerCtxDone, writeVars, clientVars
<1>2. CASE PingTick
  <2>1. /\ \A k \in 1..5 : ~Carries(Way[k])
        /\ UNCHANGED pongCh /\ pinger' = "wait" /\ token' = token + 1
        /\ out' = out \/ out' = Append(out, token')
    BY <1>2 DEF PingTick, TokenInv, NoneOnTheWay, Enqueue, queueVars
  <2>2. \A k \in 1..5 : Only(Way[k], token') /\ Once(Way[k])
    BY <2>1 DEF Only, Once, Carries
  <2>3. token' \in Frames /\ out \in Seq(Frames)
    BY <1>2, <2>1, ConnectionAssumption DEF PingTick, TypeInv, TypeOK, Frames, Tokens
  <2>4. Once(out') /\ Only(out', token')
    <3>1. ~Carries(out) /\ Once(out) /\ Only(out, token')
      BY <2>1, <2>2, Stations
    <3>2. /\ Once(out) /\ (Carries(out) => token' = Data) => Once(Append(out, token'))
          /\ Only(out, token') => Only(Append(out, token'), token')
      BY <2>3, AppendFrame
    <3> QED
      BY <2>1, <3>1, <3>2
  <2>5. \A k \in 1..5 : /\ Once(Way'[k]) /\ Only(Way'[k], token')
                        /\ Carries(Way'[k]) => k = 1
    <3>1. \A k \in 2..5 : Way'[k] = Way[k]
      BY <1>1, <2>1, Stations
    <3>2. Once(Way'[1]) /\ Only(Way'[1], token')
      BY <2>4, Stations
    <3> QED
      BY <2>1, <2>2, <3>1, <3>2
  <2>6. OneOnTheWay'
    <3>1. \A k, l \in 1..5 : Carries(Way'[k]) /\ Carries(Way'[l]) => k = l
      BY <2>5
    <3> QED
      BY <2>5, <3>1 DEF OneOnTheWay
  <2> QED
    BY <2>1, <2>6 DEF TokenInv
<1>3. CASE PongReceived
  <2>1. pongCh \in Seq(Tokens) /\ pongCh \in Seq(Frames) /\ pongCh # <<>> /\ pongCh' = Tail(pongCh)
    BY <1>3, WayType, Stations DEF PongReceived, TypeInv, TypeOK
  <2>2. Head(pongCh) # Data
    <3>1. Head(pongCh) \in Tokens
      BY <2>1, HeadTailProperties
    <3> QED
      BY <3>1, ConnectionAssumption DEF Tokens, Data
  <2>3. /\ Carries(pongCh) <=> Carries(pongCh') \/ Head(pongCh) # Data
        /\ Once(pongCh) => Once(pongCh') /\ (Carries(pongCh') => Head(pongCh) = Data)
        /\ \A t : Only(pongCh, t) => Only(pongCh', t) /\ Head(pongCh) \in {Data, t}
    BY <2>1, TailFrame
  <2>4. UNCHANGED <<out, token>> /\ pinger' = IF Head(pongCh) = token THEN "tick" ELSE "mismatch"
    BY <1>3 DEF PongReceived, queueVars
  <2>5. /\ \A k \in 1..5 : Once(Way[k]) /\ Only(Way[k], token)
        /\ \A k, l \in 1..5 : Carries(Way[k]) /\ Carries(Way[l]) => k = l
    BY DEF TokenInv, OneOnTheWay
  <2>6. pinger' = "tick"
    BY <2>2, <2>3, <2>4, <2>5, Stations
  <2>7. \A k \in 1..5 : Once(Way'[k]) /\ Only(Way'[k], token') /\ ~Carries(Way'[k])
    <3>1. \A k \in 1..4 : ~Carries(Way[k])
      BY <2>2, <2>3, <2>5, Stations
    <3>2. ~Carries(pongCh') /\ Once(pongCh') /\ Only(pongCh', token)
      BY <2>2, <2>3, <2>5, Stations
    <3>3. \A k \in 1..4 : Once(Way'[k]) /\ Only(Way'[k], token') /\ ~Carries(Way'[k])
      BY <1>1, <2>4, <2>5, <3>1, Stations
    <3> QED
      BY <2>4, <3>2, <3>3, Stations
  <2> QED
    BY <2>6, <2>7 DEF TokenInv, OneOnTheWay, NoneOnTheWay
<1>4. CASE PongTimeout \/ PingerCtxDone
  <2>1. UNCHANGED <<out, token, pongCh>> /\ pinger' \in {"timeout", "gone"}
    BY <1>4 DEF PongTimeout, PingerCtxDone, queueVars
  <2>2. Loses
    BY <1>1, <2>1, Stations DEF Loses
  <2> QED
    BY <2>1, <2>2, LosingStep
<1> QED
  BY <1>2, <1>3, <1>4 DEF PingerStep

(* The rest of serve, the closer, the shutdown and the other members leave *)
(* the tokens where they are.                                              *)
LEMMA OthersToken ==
    ASSUME TypeInv, TokenInv,
           \/ ReaderCheck \/ ReadError \/ Cancel \/ WaitDone \/ Close
           \/ Closer \/ Shutdown \/ Broadcast \/ UNCHANGED vars
    PROVE  TokenInv'
<1>1. UNCHANGED <<buf, received, inbound, pongCh, token, pinger>>
  BY DEF ReaderCheck, ReadError, Cancel, WaitDone, Close, Closer, Shutdown, Broadcast, vars,
     writeVars, clientVars, pingVars
<1>2. Enqueue(Data) \/ UNCHANGED queueVars
  BY DEF ReaderCheck, ReadError, Cancel, WaitDone, Close, Closer, Shutdown, Broadcast, vars
<1>3. Loses
  BY <1>1, <1>2, DataEnqueued, Stations DEF Loses
<1> QED
  BY <1>1, <1>3, LosingStep DEF TokenInv

(* conn.go, pingLoop: however late the Pongs of a client that echoes its   *)
(* tokens are, and whatever the queues drop, the ping loop never ends for  *)
(* a token it did not wait for.                                            *)
THEOREM HonestClientKept == Spec => []HonestClientNeverMismatched
<1>1. Init => TokenInv
  <2> SUFFICES ASSUME Init PROVE TokenInv
    OBVIOUS
  <2>1. Pongs(inbound) = <<>>
    BY DEF Init, Pongs
  <2>2. \A k \in 1..5 : Way[k] = <<>>
    BY <2>1, Stations DEF Init
  <2> QED
    BY <2>2, NoFrames DEF Init, TokenInv, OneOnTheWay, NoneOnTheWay
<1>2. TypeInv /\ TokenInv /\ [Next]_vars => TokenInv'
  BY DispatchToken, WriterToken, ClientToken, PingerToken, OthersToken DEF Next, ReaderStep
<1>3. TokenInv => HonestClientNeverMismatched
  BY DEF TokenInv, HonestClientNeverMismatched
<1> QED
  BY TypeInvHolds, <1>1, <1>2, <1>3, PTL DEF Spec
=============================================================================
