----------------------------- MODULE LinkProofs -----------------------------
(***************************************************************************)
(* The three components that keep a connection to the outside, each for    *)
(* any number of users and any number of faults:                           *)
(*                                                                         *)
(*   - BrokerPool, the AMQP and MQTT connections that senders share;       *)
(*   - LeaderElection, the database session that carries the lock;         *)
(*   - Client, the terminal client's link to the server.                   *)
(*                                                                         *)
(* They do not interact: each has variables and a specification of its     *)
(* own.                                                                    *)
(***************************************************************************)
EXTENDS BrokerPool, LeaderElection, Client, FiniteSetTheorems, TLAPS
-----------------------------------------------------------------------------
(***************************************************************************)
(* The broker pool.                                                        *)
(***************************************************************************)

(* A call of Send is under way, and has a connection. *)
Busy(s) == ~At(s, "idle")
HasConn(s) == sender[s].pc \in {"channel", "publish", "await", "drop", "close"}

(* A call that is under way belongs to a validated URL, its transport is   *)
(* that of its broker, and once it has a connection that is one to its     *)
(* broker.                                                                 *)
CallsAreSound ==
    \A s \in Senders : Busy(s) =>
        /\ Broker(s) \in Brokers
        /\ ~At(s, "post") => /\ Transport(s) \in Transports
                             /\ Transport(s) = "amqp" <=> Broker(s) \in Amqp
        /\ HasConn(s) => Conn(s) \in Conns /\ brokerOf[Conn(s)] = Broker(s)

(* Connections are used in order, and every one of them by a call of its   *)
(* own, so that the calls that may yet dial find one.                      *)
Used == {c \in Conns : brokerOf[c] # None}
MayDial == {s \in Senders : sender[s].pc \in {"get", "dial"}}
ConnsSuffice == \E n \in Nat : Used = 1..n /\ n + Cardinality(MayDial) <= calls

(* The mutex: who dials or closes has it, and the pool holds no connection *)
(* to a broker that is being dialled.                                      *)
UnderMutex(s) == sender[s].pc \in {"dial", "channel", "close"}
HasMutex(s) == lock[Transport(s)] = s /\ (~At(s, "close") => pool[Broker(s)] = None)
DiallerAlone == \A s \in Senders : UnderMutex(s) => HasMutex(s)

(* A connection whose channel is not open yet belongs to its dial alone.   *)
BeingSetUp ==
    \A s \in Senders : At(s, "channel") =>
        /\ Conn(s) \in open \ (live \cup stray)
        /\ sent[Conn(s)] = <<>> /\ confirm[Conn(s)] = <<>>
        /\ \A t \in Senders : t # s /\ HasConn(t) => Conn(t) # Conn(s)

(* The pool of a broker holds a connection to it.  A client that was given *)
(* up is never pooled, and publishes nothing.                              *)
PoolSound ==
    /\ \A b \in Brokers : pool[b] # None => brokerOf[pool[b]] = b
    /\ open \cup stray \subseteq Used
    /\ live \cap stray = {}
    /\ \A c \in Conns \ Used : sent[c] = <<>> /\ confirm[c] = <<>>

(* A payload belongs to one call, and is on its way only on the connection *)
(* that call uses, if it still goes on.                                    *)
MessagesOwned ==
    /\ \A s \in Senders : Busy(s) => Msg(s) <= calls
    /\ \A s, t \in Senders : Busy(s) /\ Busy(t) /\ Msg(s) = Msg(t) => s = t
    /\ \A c \in Conns : \A i \in 1..Len(sent[c]) :
          /\ sent[c][i] <= calls
          /\ \A s \in Senders : Busy(s) /\ Msg(s) = sent[c][i] => UsesConn(s, c)
    /\ \A v \in tokens :
          /\ v.msg <= calls
          /\ \A s \in Senders : Busy(s) /\ Msg(s) = v.msg =>
                sender[s].pc \in {"await", "drop", "close"} /\ Broker(s) \notin Amqp

(* Whoever waits alone on an AMQP connection finds only its own payload.   *)
AloneFindsOwn ==
    \A s \in Senders : At(s, "await") /\ Broker(s) \in Amqp /\ sender[s].alone =>
        /\ \A i \in 1..Len(sent[Conn(s)]) : sent[Conn(s)][i] = Msg(s)
        /\ \A i \in 1..Len(confirm[Conn(s)]) : confirm[Conn(s)][i].msg = Msg(s)

(* The inductive invariant of the pool. *)
PoolInv ==
    /\ TypeOK /\ confirm \in [Conns -> Seq(Verdicts)]
    /\ CallsAreSound
    /\ ConnsSuffice
    /\ DiallerAlone
    /\ BeingSetUp
    /\ PoolSound
    /\ OpenIsPooled
    /\ MessagesOwned
    /\ EnoughConfirmations
    /\ AloneFindsOwn
    /\ OwnAck
-----------------------------------------------------------------------------
(* The record of a call that is under way. *)
CallRecords == [pc : PCs, url : Urls, msg : Msgs, conn : Conns \cup {None}, alone : BOOLEAN]

(* A sender is idle or in a call. *)
LEMMA BusyHasRecord ==
    ASSUME TypeOK, NEW s \in Senders, Busy(s)
    PROVE  sender[s] \in CallRecords
BY DEF TypeOK, Busy, At, Idle, CallRecords

(* What a step of sender s leaves alone. *)
OthersStay(s) == \A t \in Senders : t # s => sender'[t] = sender[t]
SameCall(s) ==
    /\ sender'[s].url = sender[s].url
    /\ sender'[s].msg = sender[s].msg
    /\ sender'[s].conn = sender[s].conn

(* Send goes on to another of its steps. *)
Moved(s, p) ==
    /\ sender' \in [Senders -> {Idle} \cup CallRecords]
    /\ sender'[s].pc = p
    /\ SameCall(s) /\ OthersStay(s)

(* That is what Goto does. *)
LEMMA GotoMoves ==
    ASSUME TypeOK, NEW s \in Senders, Busy(s), NEW p \in PCs, Goto(s, p)
    PROVE  Moved(s, p)
<1>1. sender[s] \in CallRecords
  BY BusyHasRecord
<1>2. sender' = [sender EXCEPT ![s] = [sender[s] EXCEPT !.pc = p]]
  BY DEF Goto, TypeOK
<1>3. [sender[s] EXCEPT !.pc = p] \in CallRecords
  BY <1>1 DEF CallRecords
<1> QED BY <1>1, <1>2, <1>3 DEF TypeOK, CallRecords, SameCall, OthersStay, Moved

(* Send returns. *)
Results == [url : Urls, kind : {"ok", "transient", "permanent"}, msg : Msgs,
            of : Msgs \cup {None}, alone : BOOLEAN]
Returned(s, kind, of) ==
    /\ sender' \in [Senders -> {Idle} \cup CallRecords]
    /\ sender'[s].pc = "idle"
    /\ OthersStay(s)
    /\ result' \in [Senders -> {None} \cup Results]
    /\ \A t \in Senders : t # s => result'[t] = result[t]
    /\ result'[s] = [url |-> sender[s].url, kind |-> kind, msg |-> Msg(s), of |-> of,
                     alone |-> sender[s].alone]

(* That is what Return does, whatever the outcome. *)
LEMMA ReturnIdles ==
    ASSUME TypeOK, NEW s \in Senders, Busy(s), NEW k \in {"ok", "transient", "permanent"},
           NEW of \in Msgs \cup {None}, Return(s, k, of)
    PROVE  Returned(s, k, of)
<1>1. sender[s] \in CallRecords
  BY BusyHasRecord
<1>2. [url |-> sender[s].url, kind |-> k, msg |-> Msg(s), of |-> of, alone |-> sender[s].alone]
      \in Results
  BY <1>1 DEF CallRecords, Msg, Results
<1>3. result \in [Senders -> {None} \cup Results]
  BY DEF TypeOK, Results
<1> QED BY <1>1, <1>2, <1>3 DEF TypeOK, CallRecords, OthersStay, Return, Idle, Returned

(* None is neither a connection nor a payload. *)
LEMMA NoneIsNeither == None \notin Conns /\ None \notin Msgs /\ None \notin Brokers
BY ScopeAssumption DEF Conns, Msgs

(* The payloads and verdicts of a connection can be counted. *)
LEMMA DueCounted ==
    ASSUME TypeOK, confirm \in [Conns -> Seq(Verdicts)], NEW c \in Conns
    PROVE  Len(sent[c]) \in Nat /\ Len(confirm[c]) \in Nat
BY DEF TypeOK

(* The senders on a connection can be counted. *)
LEMMA UsingCounted ==
    ASSUME NEW c
    PROVE  IsFiniteSet(Waiting(c)) /\ IsFiniteSet(Leaving(c))
BY ScopeAssumption, FS_Subset DEF Waiting, Leaving

(* So can those that may dial. *)
LEMMA MayDialCounted == IsFiniteSet(MayDial) /\ Cardinality(MayDial) \in Nat
BY ScopeAssumption, FS_Subset, FS_CardinalityType DEF MayDial

(* Enough confirmations are due for those who wait, and not too many for   *)
(* those who wait and those who give up.                                   *)
EnoughFor(waiting, dropping, due) ==
    Cardinality(waiting) <= due /\ due <= Cardinality(waiting) + Cardinality(dropping)

(* One more publishes. *)
LEMMA PublishingCounts ==
    ASSUME NEW W, NEW D, IsFiniteSet(W), IsFiniteSet(D), NEW x, x \notin W, NEW due \in Nat,
           EnoughFor(W, D, due)
    PROVE  EnoughFor(W \cup {x}, D, due + 1)
<1>1. Cardinality(W) \in Nat /\ Cardinality(D) \in Nat
  BY FS_CardinalityType
<1>2. Cardinality(W \cup {x}) = Cardinality(W) + 1
  BY FS_AddElement
<1> QED BY <1>1, <1>2 DEF EnoughFor

(* Nobody waits or gives up, so nothing is due. *)
LEMMA NobodyDue == ASSUME NEW due \in Nat, EnoughFor({}, {}, due) PROVE due <= 0
<1>1. Cardinality({}) = 0
  BY FS_EmptySet
<1> QED BY <1>1 DEF EnoughFor

(* One of those who wait takes a confirmation. *)
LEMMA ConfirmingCounts ==
    ASSUME NEW W, NEW D, IsFiniteSet(W), IsFiniteSet(D), NEW x, x \in W, NEW due \in Nat,
           EnoughFor(W, D, due)
    PROVE  EnoughFor(W \ {x}, D, due - 1)
<1>1. Cardinality(W) \in Nat /\ Cardinality(D) \in Nat
  BY FS_CardinalityType
<1>2. Cardinality(W \ {x}) = Cardinality(W) - 1
  BY FS_RemoveElement
<1> QED BY <1>1, <1>2 DEF EnoughFor

(* One of those who wait gives up. *)
LEMMA GivingUpCounts ==
    ASSUME NEW W, NEW D, IsFiniteSet(W), IsFiniteSet(D), NEW x, x \in W, x \notin D,
           NEW due \in Nat, EnoughFor(W, D, due)
    PROVE  EnoughFor(W \ {x}, D \cup {x}, due)
<1>1. Cardinality(W) \in Nat /\ Cardinality(D) \in Nat
  BY FS_CardinalityType
<1>2. Cardinality(W \ {x}) = Cardinality(W) - 1 /\ Cardinality(D \cup {x}) = Cardinality(D) + 1
  BY FS_RemoveElement, FS_AddElement
<1> QED BY <1>1, <1>2 DEF EnoughFor
-----------------------------------------------------------------------------
(* No call, no connection. *)
LEMMA PoolStarts == Init => PoolInv
<1> SUFFICES ASSUME Init PROVE PoolInv
  OBVIOUS
<1> USE ScopeAssumption, NoneIsNeither DEF Init
<1>1. TypeOK /\ confirm \in [Conns -> Seq(Verdicts)]
  BY DEF TypeOK, Conns, Msgs
<1>2. ConnsSuffice
  <2>1. Used = 1..0 /\ MayDial = {}
    BY DEF Used, MayDial, Idle
  <2> QED BY <2>1, FS_EmptySet DEF ConnsSuffice
<1>3. CallsAreSound /\ DiallerAlone /\ BeingSetUp /\ PoolSound /\ OpenIsPooled
  BY DEF CallsAreSound, DiallerAlone, UnderMutex, BeingSetUp, PoolSound, OpenIsPooled, Idle, Busy, At
<1>4. MessagesOwned /\ AloneFindsOwn
  BY DEF MessagesOwned, AloneFindsOwn, Idle, Busy, At
<1>5. EnoughConfirmations /\ OwnAck
  BY DEF EnoughConfirmations, OwnAck
<1> QED BY <1>1, <1>2, <1>3, <1>4, <1>5 DEF PoolInv
-----------------------------------------------------------------------------
(***************************************************************************)
(* Parts of the invariant under the steps of one sender.                   *)
(***************************************************************************)

(* Nobody else may dial, and no connection is used up. *)
LEMMA DialsKept ==
    ASSUME ConnsSuffice, calls \in Nat, UNCHANGED <<brokerOf, calls>>, MayDial' \subseteq MayDial
    PROVE  ConnsSuffice'
<1>1. PICK n \in Nat : Used = 1..n /\ n + Cardinality(MayDial) <= calls
  BY DEF ConnsSuffice
<1>2. Used' = 1..n
  BY <1>1 DEF Used
<1>3. Cardinality(MayDial') <= Cardinality(MayDial) /\ Cardinality(MayDial') \in Nat
  BY MayDialCounted, FS_Subset, FS_CardinalityType
<1>4. n + Cardinality(MayDial') <= calls'
  BY <1>1, <1>3, MayDialCounted
<1> QED BY <1>2, <1>4 DEF ConnsSuffice

(* s goes on with its call, or ends it; it sends nothing. *)
GoesOn(s) ==
    \/ sender'[s].pc = "idle"
    \/ /\ Busy(s)
       /\ sender'[s].msg = sender[s].msg /\ sender'[s].url = sender[s].url
       /\ sender[s].pc \in {"await", "drop", "close"} =>
             sender'[s].pc \in {"await", "drop", "close"} /\ sender'[s].conn = sender[s].conn

(* Payloads stay with their calls when none is sent. *)
LEMMA MessagesKept ==
    ASSUME MessagesOwned, sent \in [Conns -> Seq(Msgs)],
           NEW s \in Senders, OthersStay(s), GoesOn(s),
           \A c \in Conns : sent'[c] = sent[c] \/ sent'[c] = <<>>,
           tokens' \subseteq tokens, UNCHANGED calls
    PROVE  MessagesOwned'
<1>1. \A t \in Senders : Busy(t)' => Busy(t) /\ Msg(t)' = Msg(t) /\ Broker(t)' = Broker(t)
  BY DEF OthersStay, GoesOn, Busy, At, Msg, Broker
<1>2. \A t \in Senders : Busy(t)' /\ sender[t].pc \in {"await", "drop", "close"} =>
         sender'[t].pc \in {"await", "drop", "close"} /\ Conn(t)' = Conn(t)
  BY DEF OthersStay, GoesOn, Busy, At, Conn
<1>3. \A c \in Conns : \A i \in 1..Len(sent'[c]) :
         i \in 1..Len(sent[c]) /\ sent'[c][i] = sent[c][i]
  OBVIOUS
<1>4. ASSUME NEW c \in Conns, NEW i \in 1..Len(sent'[c])
      PROVE  /\ sent'[c][i] <= calls'
             /\ \A t \in Senders : Busy(t)' /\ Msg(t)' = sent'[c][i] => UsesConn(t, c)'
  BY <1>1, <1>2, <1>3 DEF MessagesOwned, UsesConn
<1>5. \A v \in tokens' :
         /\ v.msg <= calls'
         /\ \A t \in Senders : Busy(t)' /\ Msg(t)' = v.msg =>
               sender'[t].pc \in {"await", "drop", "close"} /\ Broker(t)' \notin Amqp
  BY <1>1, <1>2 DEF MessagesOwned
<1>6. /\ \A t \in Senders : Busy(t)' => Msg(t)' <= calls'
      /\ \A r, t \in Senders : Busy(r)' /\ Busy(t)' /\ Msg(r)' = Msg(t)' => r = t
  BY <1>1 DEF MessagesOwned
<1> QED BY <1>4, <1>5, <1>6 DEF MessagesOwned

(* The due confirmations of connection c and those who wait for them. *)
SameOn(c) ==
    /\ Len(sent'[c]) + Len(confirm'[c]) = Len(sent[c]) + Len(confirm[c])
    /\ \A t \in Senders : \A pcs \in {{"await"}, {"drop", "close"}} :
          (sender'[t].pc \in pcs /\ sender'[t].conn = c)
             <=> (sender[t].pc \in pcs /\ sender[t].conn = c)

(* A connection that nobody has published on. *)
NobodyOn(c) ==
    /\ sent'[c] = <<>> /\ confirm'[c] = <<>>
    /\ \A t \in Senders : sender'[t].pc \in {"await", "drop", "close"} => sender'[t].conn # c

(* Confirmations suffice on connection c after the step. *)
WaitingAfter(c) == {t \in Senders : sender'[t].pc = "await" /\ sender'[t].conn = c}
LeavingAfter(c) ==
    {t \in Senders : sender'[t].pc \in {"drop", "close"} /\ sender'[t].conn = c}
EnoughAfter(c) ==
    EnoughFor(WaitingAfter(c), LeavingAfter(c), Len(sent'[c]) + Len(confirm'[c]))

(* Confirmations suffice while nothing changes on the connections but on   *)
(* those on which they do after the step.                                  *)
LEMMA EnoughKept ==
    ASSUME EnoughConfirmations,
           \A c \in live' : brokerOf'[c] \in Amqp =>
              \/ c \in live /\ brokerOf[c] \in Amqp /\ SameOn(c)
              \/ NobodyOn(c)
              \/ EnoughAfter(c)
    PROVE  EnoughConfirmations'
<1> SUFFICES ASSUME NEW c \in live', brokerOf'[c] \in Amqp
             PROVE  /\ Cardinality(Waiting(c)') <= Len(sent'[c]) + Len(confirm'[c])
                    /\ Len(sent'[c]) + Len(confirm'[c])
                         <= Cardinality(Waiting(c)') + Cardinality(Leaving(c)')
  BY DEF EnoughConfirmations, Waiting, Leaving, At, Conn
<1>1. CASE c \in live /\ brokerOf[c] \in Amqp /\ SameOn(c)
  <2>1. Waiting(c)' = Waiting(c) /\ Leaving(c)' = Leaving(c)
    BY <1>1 DEF Waiting, Leaving, At, Conn, SameOn
  <2>2. /\ Cardinality(Waiting(c)) <= Len(sent[c]) + Len(confirm[c])
        /\ Len(sent[c]) + Len(confirm[c])
             <= Cardinality(Waiting(c)) + Cardinality(Leaving(c))
    BY <1>1 DEF EnoughConfirmations
  <2> QED BY <1>1, <2>1, <2>2 DEF SameOn
<1>2. CASE NobodyOn(c)
  <2>1. Waiting(c)' = {} /\ Leaving(c)' = {}
    BY <1>2 DEF Waiting, Leaving, At, Conn, NobodyOn
  <2>2. Len(sent'[c]) = 0 /\ Len(confirm'[c]) = 0
    BY <1>2 DEF NobodyOn
  <2>3. Cardinality(Waiting(c)') = 0 /\ Cardinality(Leaving(c)') = 0
    BY <2>1, FS_EmptySet
  <2> QED BY <2>2, <2>3
<1>3. CASE EnoughAfter(c)
  <2>1. Waiting(c)' = WaitingAfter(c) /\ Leaving(c)' = LeavingAfter(c)
    BY DEF Waiting, Leaving, WaitingAfter, LeavingAfter, At, Conn
  <2> QED BY <1>3, <2>1 DEF EnoughAfter, EnoughFor
<1> QED BY <1>1, <1>2, <1>3

(* Who waits alone still finds only its own when nothing is sent. *)
LEMMA AloneKept ==
    ASSUME AloneFindsOwn, sent \in [Conns -> Seq(Msgs)], confirm \in [Conns -> Seq(Verdicts)],
           CallsAreSound,
           \A t \in Senders : sender'[t].pc = "await" => sender'[t] = sender[t],
           \A c \in Conns : sent'[c] = sent[c] \/ sent'[c] = <<>>,
           \A c \in Conns :
              \/ confirm'[c] = confirm[c]
              \/ confirm[c] # <<>> /\ confirm'[c] = Tail(confirm[c])
    PROVE  AloneFindsOwn'
<1> SUFFICES ASSUME NEW t \in Senders, sender'[t].pc = "await", Broker(t)' \in Amqp,
                    sender'[t].alone
             PROVE  (/\ \A i \in 1..Len(sent[Conn(t)]) : sent[Conn(t)][i] = Msg(t)
                     /\ \A i \in 1..Len(confirm[Conn(t)]) : confirm[Conn(t)][i].msg = Msg(t))'
  BY DEF AloneFindsOwn, At
<1>1. sender'[t] = sender[t] /\ Conn(t)' = Conn(t) /\ Msg(t)' = Msg(t) /\ Broker(t)' = Broker(t)
  BY DEF Conn, Msg, Broker
<1>2. Conn(t) \in Conns
  BY <1>1 DEF CallsAreSound, At, Busy, HasConn
<1>3. /\ \A i \in 1..Len(sent[Conn(t)]) : sent[Conn(t)][i] = Msg(t)
      /\ \A i \in 1..Len(confirm[Conn(t)]) : confirm[Conn(t)][i].msg = Msg(t)
  BY <1>1 DEF AloneFindsOwn, At
<1>4. \A i \in 1..Len(sent'[Conn(t)]) : sent'[Conn(t)][i] = Msg(t)
  <2>1. CASE sent'[Conn(t)] = sent[Conn(t)]
    BY <1>3, <2>1
  <2>2. CASE sent'[Conn(t)] = <<>>
    BY <2>2
  <2> QED BY <1>2, <2>1, <2>2
<1>5. \A i \in 1..Len(confirm'[Conn(t)]) : confirm'[Conn(t)][i].msg = Msg(t)
  <2>1. CASE confirm'[Conn(t)] = confirm[Conn(t)]
    BY <1>3, <2>1
  <2>2. CASE confirm[Conn(t)] # <<>> /\ confirm'[Conn(t)] = Tail(confirm[Conn(t)])
    <3>1. PICK q : q = confirm[Conn(t)]
      OBVIOUS
    <3>2. q \in Seq(Verdicts) /\ q # <<>> /\ \A i \in 1..Len(q) : q[i].msg = Msg(t)
      BY <1>2, <1>3, <2>2, <3>1
    <3>3. \A i \in 1..Len(Tail(q)) : i + 1 \in 1..Len(q) /\ Tail(q)[i] = q[i + 1]
      BY <3>2
    <3>4. \A i \in 1..Len(Tail(q)) : Tail(q)[i].msg = Msg(t)
      BY <3>2, <3>3
    <3> QED BY <2>2, <3>1, <3>4
  <2> QED BY <1>2, <2>1, <2>2
<1> QED BY <1>1, <1>4, <1>5

(* What a call returns as an acknowledged delivery was its own. *)
LEMMA ResultKept ==
    ASSUME OwnAck, NEW s \in Senders,
           \A t \in Senders : t # s => result'[t] = result[t],
           result'[s] # None /\ result'[s].kind = "ok" =>
              \/ result'[s].of = result'[s].msg
              \/ result'[s].url.qos = "0"
              \/ result'[s].url.scheme = "amqp" /\ ~result'[s].alone
    PROVE  OwnAck'
BY DEF OwnAck

(* The parts about calls, when one ends. *)
LEMMA ReturnKeeps ==
    ASSUME PoolInv, NEW s \in Senders, NEW k, NEW of, Returned(s, k, of),
           UNCHANGED <<brokerOf, calls>>, tokens' \subseteq tokens,
           \A c \in Conns : sent'[c] = sent[c] \/ sent'[c] = <<>>
    PROVE  CallsAreSound' /\ ConnsSuffice' /\ MessagesOwned'
<1> USE DEF PoolInv, Returned
<1>1. CallsAreSound'
  BY DEF CallsAreSound, OthersStay, Busy, At, HasConn, Conn, Broker, Transport
<1>2. ConnsSuffice'
  <2>1. MayDial' \subseteq MayDial
    BY DEF MayDial, OthersStay
  <2> QED BY <2>1, DialsKept DEF TypeOK
<1>3. MessagesOwned'
  BY MessagesKept DEF GoesOn, TypeOK
<1> QED BY <1>1, <1>2, <1>3

(* The parts about calls, when one goes on and sends nothing. *)
LEMMA MoveKeeps ==
    ASSUME PoolInv, NEW s \in Senders, Busy(s), ~At(s, "post"),
           NEW p \in {"dial", "publish", "drop", "close"}, Moved(s, p),
           p = "dial" => At(s, "get"), p = "publish" => At(s, "channel"),
           p \in {"drop", "close"} => HasConn(s),
           UNCHANGED <<brokerOf, calls>>, tokens' \subseteq tokens,
           \A c \in Conns : sent'[c] = sent[c] \/ sent'[c] = <<>>
    PROVE  CallsAreSound' /\ ConnsSuffice' /\ MessagesOwned'
<1> USE DEF PoolInv, Moved
<1>1. CallsAreSound'
  BY DEF CallsAreSound, OthersStay, SameCall, Busy, At, HasConn, Conn, Broker, Transport
<1>2. ConnsSuffice'
  <2>1. MayDial' \subseteq MayDial
    BY DEF MayDial, OthersStay, At
  <2> QED BY <2>1, DialsKept DEF TypeOK
<1>3. MessagesOwned'
  <2>1. GoesOn(s)
    BY DEF GoesOn, SameCall, At, HasConn
  <2> QED BY <2>1, MessagesKept DEF TypeOK
<1> QED BY <1>1, <1>2, <1>3

(* Steps under the mutex of a transport, or that find it free, leave those *)
(* alone who dial under the other one.                                     *)
LEMMA OtherDiallersStay ==
    ASSUME PoolInv, NEW s \in Senders, Busy(s), ~At(s, "post"), OthersStay(s),
           lock[Transport(s)] \in {s, None}, NEW x, lock' = [lock EXCEPT ![Transport(s)] = x],
           \A b \in Brokers : b # Broker(s) => pool'[b] = pool[b],
           NEW t \in Senders, t # s, UnderMutex(t)'
    PROVE  HasMutex(t)'
<1> USE DEF PoolInv
<1>1. sender'[t] = sender[t] /\ UnderMutex(t) /\ HasMutex(t)
  BY DEF OthersStay, UnderMutex, DiallerAlone, UnderMutex, HasMutex
<1>2. /\ lock[Transport(t)] = t
      /\ Broker(t) \in Brokers /\ Transport(t) \in Transports
      /\ Transport(t) = "amqp" <=> Broker(t) \in Amqp
  BY <1>1 DEF UnderMutex, HasMutex, CallsAreSound, Busy, At
<1>3. Transport(s) \in Transports /\ (Transport(s) = "amqp" <=> Broker(s) \in Amqp)
  BY DEF CallsAreSound
<1>4. Transport(t)' = Transport(t) /\ Broker(t)' = Broker(t)
  BY <1>1 DEF Transport, Broker
<1>5. Transport(t) # Transport(s)
  BY <1>2, ScopeAssumption
<1>6. Broker(t) # Broker(s)
  BY <1>2, <1>3, <1>5 DEF Transports
<1> QED BY <1>1, <1>2, <1>4, <1>5, <1>6 DEF HasMutex, At, TypeOK

(* A step of s that neither begins nor ends the set-up of a connection. *)
Apart(s) ==
    /\ ~At(s, "channel") /\ sender'[s].pc # "channel"
    /\ \A t \in Senders : t # s => sender'[t].pc = sender[t].pc /\ sender'[t].conn = sender[t].conn

(* It leaves alone what others set up, unless s gets a connection. *)
LEMMA SetUpKept ==
    ASSUME BeingSetUp, NEW s \in Senders, Apart(s),
           \A t \in Senders : At(t, "channel") =>
              /\ HasConn(s)' => sender'[s].conn # Conn(t)
              /\ Conn(t) \in open' \ (live' \cup stray')
              /\ sent'[Conn(t)] = <<>> /\ confirm'[Conn(t)] = <<>>
    PROVE  BeingSetUp'
BY DEF BeingSetUp, Apart, At, Conn, HasConn

(* It leaves the other open connections where they are. *)
LEMMA PooledKept ==
    ASSUME OpenIsPooled, NEW s \in Senders, Apart(s),
           \A c \in open' \ stray' :
              /\ c \in open \ stray /\ brokerOf'[c] = brokerOf[c]
              /\ pool[brokerOf[c]] = c => pool'[brokerOf[c]] = c
    PROVE  OpenIsPooled'
<1> SUFFICES ASSUME NEW c \in open' \ stray'
             PROVE  pool'[brokerOf'[c]] = c \/ \E t \in Senders : At(t, "channel")' /\ Conn(t)' = c
  BY DEF OpenIsPooled
<1>1. CASE pool[brokerOf[c]] = c
  BY <1>1
<1>2. ASSUME NEW t \in Senders, At(t, "channel"), Conn(t) = c
      PROVE  At(t, "channel")' /\ Conn(t)' = c
  BY <1>2 DEF Apart, At, Conn
<1> QED BY <1>1, <1>2 DEF OpenIsPooled

(* Both, when the connections themselves stay as they are. *)
LEMMA ConnsStand ==
    ASSUME PoolInv, NEW s \in Senders, Apart(s), HasConn(s)' => HasConn(s) /\ Conn(s)' = Conn(s),
           UNCHANGED <<pool, open, live, stray, brokerOf>>,
           \A c \in Conns \ live : sent[c] = <<>> /\ confirm[c] = <<>> =>
              sent'[c] = <<>> /\ confirm'[c] = <<>>
    PROVE  BeingSetUp' /\ OpenIsPooled'
<1> USE DEF PoolInv
<1>1. \A t \in Senders : At(t, "channel") =>
         /\ HasConn(s)' => sender'[s].conn # Conn(t)
         /\ Conn(t) \in open' \ (live' \cup stray')
         /\ sent'[Conn(t)] = <<>> /\ confirm'[Conn(t)] = <<>>
  <2> SUFFICES ASSUME NEW t \in Senders, At(t, "channel")
               PROVE  /\ HasConn(s)' => sender'[s].conn # Conn(t)
                      /\ Conn(t) \in open' \ (live' \cup stray')
                      /\ sent'[Conn(t)] = <<>> /\ confirm'[Conn(t)] = <<>>
    OBVIOUS
  <2>1. t # s
    BY DEF Apart
  <2>2. /\ Conn(t) \in open \ (live \cup stray) /\ Conn(t) \in Conns
        /\ sent[Conn(t)] = <<>> /\ confirm[Conn(t)] = <<>>
        /\ HasConn(s) => Conn(s) # Conn(t)
    BY <2>1 DEF BeingSetUp, TypeOK
  <2> QED BY <2>2 DEF Conn
<1>2. BeingSetUp'
  BY <1>1, SetUpKept
<1>3. OpenIsPooled'
  BY PooledKept
<1> QED BY <1>2, <1>3

(* A call that dials finds a connection nobody has used: the next one. *)
LEMMA FreshIsNext ==
    ASSUME PoolInv, NEW s \in Senders, At(s, "dial")
    PROVE  \E n \in Nat : /\ Used = 1..n /\ n + Cardinality(MayDial) <= calls
                          /\ Fresh = n + 1 /\ Fresh \in Conns /\ brokerOf[Fresh] = None
<1> USE DEF PoolInv
<1>1. PICK n \in Nat : Used = 1..n /\ n + Cardinality(MayDial) <= calls
  BY DEF ConnsSuffice
<1>2. Cardinality(MayDial) >= 1
  <2>1. s \in MayDial
    BY DEF MayDial, At
  <2> QED BY <2>1, MayDialCounted, FS_EmptySet
<1>3. n + 1 \in Conns
  BY <1>1, <1>2, MayDialCounted, ScopeAssumption DEF TypeOK, Conns
<1>4. \A c \in Conns : brokerOf[c] # None <=> c \in 1..n
  BY <1>1 DEF Used
<1>5. brokerOf[n + 1] = None /\ \A d \in 1..((n + 1) - 1) : brokerOf[d] # None
  BY <1>1, <1>3, <1>4 DEF Used
<1>6. /\ Fresh \in Conns /\ brokerOf[Fresh] = None
      /\ \A d \in 1..(Fresh - 1) : brokerOf[d] # None
  BY <1>3, <1>5 DEF Fresh
<1>7. Fresh = n + 1
  <2>1. Fresh \in Nat /\ Fresh >= 1 /\ Fresh \notin 1..n
    BY <1>4, <1>6 DEF Conns
  <2>2. n + 1 \notin 1..(Fresh - 1)
    BY <1>5, <1>6
  <2> QED BY <2>1, <2>2
<1> QED BY <1>1, <1>6, <1>7

(* Taking the next connection uses up the dial of the call. *)
LEMMA FreshUsed ==
    ASSUME PoolInv, NEW s \in Senders, At(s, "dial"),
           brokerOf' = [brokerOf EXCEPT ![Fresh] = Broker(s)],
           MayDial' = MayDial \ {s}, UNCHANGED calls
    PROVE  ConnsSuffice' /\ Used' = Used \cup {Fresh}
<1> USE DEF PoolInv
<1>1. PICK n \in Nat : /\ Used = 1..n /\ n + Cardinality(MayDial) <= calls
                       /\ Fresh = n + 1 /\ Fresh \in Conns /\ brokerOf[Fresh] = None
  BY FreshIsNext
<1>2. Broker(s) # None
  BY NoneIsNeither DEF CallsAreSound, Busy, At
<1>3. Used' = Used \cup {Fresh}
  BY <1>1, <1>2 DEF Used, TypeOK
<1>4. Used' = 1..(n + 1)
  BY <1>1, <1>3
<1>5. Cardinality(MayDial') = Cardinality(MayDial) - 1
  <2>1. s \in MayDial
    BY DEF MayDial, At
  <2> QED BY <2>1, MayDialCounted, FS_RemoveElement
<1>6. (n + 1) + Cardinality(MayDial') <= calls'
  BY <1>1, <1>5, MayDialCounted DEF TypeOK
<1> QED BY <1>3, <1>4, <1>6 DEF ConnsSuffice

(* Dialling a connection that nobody has used does not concern the calls   *)
(* that have one, nor the brokers of the pool.                             *)
LEMMA DialledApart ==
    ASSUME PoolInv, NEW c \in Conns, brokerOf[c] = None, NEW b,
           brokerOf' = [brokerOf EXCEPT ![c] = b]
    PROVE  /\ \A t \in Senders : Busy(t) /\ HasConn(t) =>
                  Conn(t) # c /\ brokerOf'[Conn(t)] = brokerOf[Conn(t)]
           /\ \A d \in Brokers : pool[d] # None =>
                  pool[d] # c /\ brokerOf'[pool[d]] = brokerOf[pool[d]]
           /\ \A d \in open \cup stray : d # c /\ brokerOf'[d] = brokerOf[d]
<1> USE NoneIsNeither DEF PoolInv
<1>1. ASSUME NEW t \in Senders, Busy(t), HasConn(t)
      PROVE  Conn(t) # c /\ brokerOf'[Conn(t)] = brokerOf[Conn(t)]
  BY <1>1 DEF CallsAreSound, TypeOK
<1>2. ASSUME NEW d \in Brokers, pool[d] # None
      PROVE  pool[d] # c /\ brokerOf'[pool[d]] = brokerOf[pool[d]]
  BY <1>2 DEF PoolSound, TypeOK
<1>3. ASSUME NEW d \in open \cup stray PROVE d # c /\ brokerOf'[d] = brokerOf[d]
  BY DEF PoolSound, Used, TypeOK
<1> QED BY <1>1, <1>2, <1>3
-----------------------------------------------------------------------------
(***************************************************************************)
(* The steps of Send.                                                      *)
(***************************************************************************)

(* HTTP: the result of a POST is that of its own payload. *)
LEMMA PostKeeps ==
    ASSUME PoolInv, NEW s \in Senders, NEW status \in {0, 200, 404, 503}, Post(s, status)
    PROVE  PoolInv'
<1> USE DEF PoolInv
<1>1. Busy(s) /\ At(s, "post") /\ UNCHANGED <<poolVars, brokerVars, calls>>
  BY DEF Busy, At, Post
<1>2. Msg(s) \in Msgs
  BY <1>1, BusyHasRecord DEF CallRecords, Msg
<1>3. StatusKind(status) \in {"ok", "transient", "permanent"}
  BY DEF StatusKind
<1>4. Returned(s, StatusKind(status), Msg(s))
  BY <1>1, <1>2, <1>3, ReturnIdles DEF Post
<1> USE DEF poolVars, brokerVars
<1>5. (TypeOK /\ confirm \in [Conns -> Seq(Verdicts)])'
  BY <1>1, <1>4 DEF TypeOK, CallRecords, Results, Returned
<1>6. CallsAreSound' /\ ConnsSuffice' /\ MessagesOwned'
  BY <1>1, <1>4, ReturnKeeps
<1>7. DiallerAlone'
  BY <1>1, <1>4 DEF DiallerAlone, UnderMutex, HasMutex, OthersStay, At, Broker, Transport, Returned
<1>8. PoolSound' /\ BeingSetUp' /\ OpenIsPooled'
  <2>1. PoolSound'
    BY <1>1 DEF PoolSound, Used
  <2>2. Apart(s)
    BY <1>1, <1>4 DEF Apart, OthersStay, At, Returned
  <2>3. HasConn(s)' => HasConn(s) /\ Conn(s)' = Conn(s)
    BY <1>1, <1>4 DEF HasConn, Returned
  <2> QED BY <1>1, <2>1, <2>2, <2>3, ConnsStand
<1>9. EnoughConfirmations'
  <2>1. ASSUME NEW c \in live PROVE SameOn(c)
    BY <1>1, <1>4 DEF SameOn, OthersStay, At, Returned
  <2> QED BY <2>1, <1>1, EnoughKept
<1>10. AloneFindsOwn'
  BY <1>1, <1>4, AloneKept DEF TypeOK, OthersStay, Returned
<1>11. OwnAck'
  BY <1>4, ResultKept DEF Returned
<1> QED BY <1>5, <1>6, <1>7, <1>8, <1>9, <1>10, <1>11

(* A dial that fails frees the mutex and leaves the pool empty. *)
LEMMA DialFailsKeeps ==
    ASSUME PoolInv, NEW s \in Senders, DialFails(s)
    PROVE  PoolInv'
<1> USE DEF PoolInv
<1>1. /\ Busy(s) /\ At(s, "dial")
      /\ lock' = [lock EXCEPT ![Transport(s)] = None]
      /\ UNCHANGED <<pool, open, live, stray, brokerOf, brokerVars, calls>>
  BY DEF Busy, At, DialFails
<1>2. Transport(s) \in Transports /\ lock[Transport(s)] = s
  BY <1>1 DEF CallsAreSound, DiallerAlone, UnderMutex, HasMutex, At
<1>3. Returned(s, "transient", None)
  BY <1>1, ReturnIdles DEF DialFails
<1> USE DEF brokerVars
<1>4. (TypeOK /\ confirm \in [Conns -> Seq(Verdicts)])'
  BY <1>1, <1>3 DEF TypeOK, CallRecords, Results, Returned
<1>5. CallsAreSound' /\ ConnsSuffice' /\ MessagesOwned'
  BY <1>1, <1>3, ReturnKeeps
<1>6. DiallerAlone'
  BY <1>1, <1>2, <1>3, OtherDiallersStay DEF DiallerAlone, UnderMutex, HasMutex, Returned, At
<1>7. PoolSound' /\ BeingSetUp' /\ OpenIsPooled'
  <2>1. PoolSound'
    BY <1>1 DEF PoolSound, Used
  <2>2. Apart(s)
    BY <1>1, <1>3 DEF Apart, OthersStay, At, Returned
  <2>3. HasConn(s)' => HasConn(s) /\ Conn(s)' = Conn(s)
    BY <1>1, <1>3 DEF HasConn, Returned
  <2> QED BY <1>1, <2>1, <2>2, <2>3, ConnsStand
<1>8. EnoughConfirmations'
  <2>1. ASSUME NEW c \in live PROVE SameOn(c)
    BY <1>1, <1>3 DEF SameOn, OthersStay, At, Returned
  <2> QED BY <2>1, <1>1, EnoughKept
<1>9. AloneFindsOwn'
  BY <1>1, <1>3, AloneKept DEF TypeOK, OthersStay, Returned
<1>10. OwnAck'
  BY <1>3, ResultKept DEF Returned
<1> QED BY <1>4, <1>5, <1>6, <1>7, <1>8, <1>9, <1>10

(* What the pool holds for the broker becomes the connection of the call. *)
LEMMA GetPooledKeeps ==
    ASSUME PoolInv, NEW s \in Senders, GetPooled(s)
    PROVE  PoolInv'
<1> USE DEF PoolInv
<1>1. /\ Busy(s) /\ At(s, "get") /\ ~At(s, "post")
      /\ UNCHANGED <<poolVars, brokerVars, calls, result>>
  BY DEF Busy, At, GetPooled
<1>2. PICK c : c = pool[Broker(s)]
  OBVIOUS
<1>3. c \in open /\ c \in Conns /\ brokerOf[c] = Broker(s)
  BY <1>1, <1>2, NoneIsNeither DEF GetPooled, TypeOK, CallsAreSound, PoolSound
<1>4. sender[s] \in CallRecords
  BY <1>1, BusyHasRecord
<1>5. sender' = [sender EXCEPT ![s] = [sender[s] EXCEPT !.pc = "publish", !.conn = c]]
  BY <1>2, <1>4 DEF GetPooled, TypeOK, CallRecords
<1>6. [sender[s] EXCEPT !.pc = "publish", !.conn = c] \in CallRecords
  BY <1>3, <1>4 DEF CallRecords, PCs
<1>7. /\ sender' \in [Senders -> {Idle} \cup CallRecords]
      /\ OthersStay(s)
      /\ sender'[s].pc = "publish" /\ sender'[s].conn = c
      /\ sender'[s].msg = sender[s].msg /\ sender'[s].url = sender[s].url
  BY <1>4, <1>5, <1>6 DEF TypeOK, CallRecords, OthersStay
<1> USE DEF poolVars, brokerVars
<1>8. (TypeOK /\ confirm \in [Conns -> Seq(Verdicts)])'
  BY <1>1, <1>7 DEF TypeOK, CallRecords
<1>9. CallsAreSound'
  BY <1>1, <1>3, <1>7 DEF CallsAreSound, OthersStay, Busy, At, HasConn, Conn, Broker, Transport
<1>10. DiallerAlone'
  BY <1>1, <1>7 DEF DiallerAlone, UnderMutex, HasMutex, OthersStay, At, Broker, Transport
<1>11. ConnsSuffice'
  <2>1. MayDial' \subseteq MayDial
    BY <1>1, <1>7 DEF MayDial, OthersStay
  <2> QED BY <2>1, <1>1, DialsKept DEF TypeOK
<1>12. MessagesOwned'
  BY <1>1, <1>7, MessagesKept DEF GoesOn, At, TypeOK
<1>13. PoolSound' /\ BeingSetUp' /\ OpenIsPooled'
  <2>1. PoolSound'
    BY <1>1 DEF PoolSound, Used
  <2>2. Apart(s)
    BY <1>1, <1>7 DEF Apart, OthersStay, At
  <2>3. ASSUME NEW t \in Senders, At(t, "channel")
        PROVE  /\ c # Conn(t) /\ Conn(t) \in open \ (live \cup stray)
               /\ sent[Conn(t)] = <<>> /\ confirm[Conn(t)] = <<>>
    <3>1. brokerOf[Conn(t)] = Broker(t)
      BY <2>3 DEF CallsAreSound, Busy, At, HasConn
    <3>2. pool[Broker(t)] = None
      BY <2>3 DEF DiallerAlone, UnderMutex, HasMutex, At
    <3>3. c # Conn(t)
      BY <1>2, <1>3, <3>1, <3>2, NoneIsNeither
    <3> QED BY <2>3, <3>3 DEF BeingSetUp
  <2>4. BeingSetUp'
    BY <1>1, <1>7, <2>2, <2>3, SetUpKept
  <2> QED BY <1>1, <2>1, <2>2, <2>4, PooledKept
<1>14. EnoughConfirmations'
  <2>1. ASSUME NEW d \in live PROVE SameOn(d)
    BY <1>1, <1>7 DEF SameOn, OthersStay, At
  <2> QED BY <2>1, <1>1, EnoughKept
<1>15. AloneFindsOwn'
  BY <1>1, <1>7, AloneKept DEF TypeOK, OthersStay
<1>16. OwnAck'
  BY <1>1 DEF OwnAck
<1> QED BY <1>8, <1>9, <1>10, <1>11, <1>12, <1>13, <1>14, <1>15, <1>16

(* getOrDial under the mutex: the pooled connection is closed already. *)
LEMMA DialKeeps ==
    ASSUME PoolInv, NEW s \in Senders, Dial(s)
    PROVE  PoolInv'
<1> USE DEF PoolInv
<1>1. /\ Busy(s) /\ At(s, "get") /\ ~At(s, "post")
      /\ lock[Transport(s)] = None /\ pool[Broker(s)] \notin open
      /\ pool' = [pool EXCEPT ![Broker(s)] = None]
      /\ lock' = [lock EXCEPT ![Transport(s)] = s]
      /\ UNCHANGED <<open, live, stray, brokerOf, brokerVars, calls, result>>
  BY DEF Busy, At, Dial, Goto
<1>2. Broker(s) \in Brokers /\ Transport(s) \in Transports
  BY <1>1 DEF CallsAreSound
<1>3. Moved(s, "dial")
  BY <1>1, GotoMoves DEF Dial, PCs
<1> USE DEF brokerVars
<1>4. (TypeOK /\ confirm \in [Conns -> Seq(Verdicts)])'
  BY <1>1, <1>3 DEF TypeOK, CallRecords, Moved
<1>5. CallsAreSound' /\ ConnsSuffice' /\ MessagesOwned'
  BY <1>1, <1>3, MoveKeeps
<1>6. DiallerAlone'
  <2>1. HasMutex(s)'
    BY <1>1, <1>2, <1>3 DEF HasMutex, TypeOK, Moved, SameCall, Transport, Broker
  <2>2. ASSUME NEW t \in Senders, t # s, UnderMutex(t)'
        PROVE  HasMutex(t)'
    BY <1>1, <1>3, <2>2, OtherDiallersStay DEF Moved, TypeOK
  <2> QED BY <2>1, <2>2 DEF DiallerAlone, UnderMutex, HasMutex
<1>7. PoolSound' /\ BeingSetUp' /\ OpenIsPooled'
  <2>1. PoolSound'
    BY <1>1, <1>2 DEF PoolSound, Used, TypeOK
  <2>2. Apart(s)
    BY <1>1, <1>3 DEF Apart, OthersStay, At, Moved
  <2>3. ~HasConn(s)'
    BY <1>3 DEF HasConn, Moved
  <2>4. BeingSetUp'
    BY <1>1, <2>2, <2>3, SetUpKept DEF BeingSetUp
  <2>5. \A c \in open : pool[brokerOf[c]] = c => pool'[brokerOf[c]] = c
    BY <1>1, <1>2 DEF PoolSound, Used, TypeOK
  <2> QED BY <1>1, <2>1, <2>2, <2>4, <2>5, PooledKept
<1>8. EnoughConfirmations'
  <2>1. ASSUME NEW c \in live PROVE SameOn(c)
    BY <1>1, <1>3 DEF SameOn, OthersStay, At, Moved
  <2> QED BY <2>1, <1>1, EnoughKept
<1>9. AloneFindsOwn'
  BY <1>1, <1>3, AloneKept DEF TypeOK, OthersStay, Moved
<1>10. OwnAck'
  BY <1>1 DEF OwnAck
<1> QED BY <1>4, <1>5, <1>6, <1>7, <1>8, <1>9, <1>10

(* MQTT: the new client is pooled where none was, and nobody has used it. *)
LEMMA ConnectSucceedsKeeps ==
    ASSUME PoolInv, NEW s \in Senders, ConnectSucceeds(s)
    PROVE  PoolInv'
<1> USE DEF PoolInv
<1>1. Busy(s) /\ At(s, "dial") /\ ~At(s, "post")
  BY DEF Busy, At, ConnectSucceeds
<1>2. PICK c : c = Fresh
  OBVIOUS
<1>3. c \in Conns /\ c \notin Used /\ brokerOf[c] = None
  BY <1>1, <1>2, FreshIsNext DEF Used
<1>4. /\ Broker(s) \in Brokers /\ Broker(s) # None /\ Transport(s) \in Transports
      /\ lock[Transport(s)] = s /\ pool[Broker(s)] = None
  BY <1>1, NoneIsNeither DEF CallsAreSound, DiallerAlone, UnderMutex, HasMutex, At
<1>5. /\ open' = open \cup {c} /\ live' = live \cup {c}
      /\ brokerOf' = [brokerOf EXCEPT ![c] = Broker(s)]
      /\ pool' = [pool EXCEPT ![Broker(s)] = c]
      /\ lock' = [lock EXCEPT ![Transport(s)] = None]
      /\ UNCHANGED <<stray, brokerVars, calls, result>>
  BY <1>2 DEF ConnectSucceeds
<1>6. sender[s] \in CallRecords
  BY <1>1, BusyHasRecord
<1>7. sender' = [sender EXCEPT ![s] = [sender[s] EXCEPT !.pc = "publish", !.conn = c]]
  BY <1>2, <1>6 DEF ConnectSucceeds, TypeOK, CallRecords
<1>8. [sender[s] EXCEPT !.pc = "publish", !.conn = c] \in CallRecords
  BY <1>3, <1>6 DEF CallRecords, PCs
<1>9. /\ sender' \in [Senders -> {Idle} \cup CallRecords]
      /\ OthersStay(s)
      /\ sender'[s].pc = "publish" /\ sender'[s].conn = c
      /\ sender'[s].msg = sender[s].msg /\ sender'[s].url = sender[s].url
  BY <1>6, <1>7, <1>8 DEF TypeOK, CallRecords, OthersStay
<1> USE DEF brokerVars
<1>10. ConnsSuffice' /\ Used' = Used \cup {c}
  <2>1. MayDial' = MayDial \ {s}
    BY <1>1, <1>9 DEF MayDial, OthersStay
  <2> QED BY <1>1, <1>2, <1>5, <2>1, FreshUsed
<1>11. (TypeOK /\ confirm \in [Conns -> Seq(Verdicts)])'
  BY <1>3, <1>4, <1>5, <1>9 DEF TypeOK, CallRecords
<1>12. CallsAreSound'
  <2>1. \A t \in Senders : Busy(t) /\ HasConn(t) => brokerOf'[Conn(t)] = brokerOf[Conn(t)]
    BY <1>3, <1>5, DialledApart
  <2>2. brokerOf'[c] = Broker(s)
    BY <1>3, <1>5 DEF TypeOK
  <2>3. ASSUME NEW t \in Senders, t # s, Busy(t)'
        PROVE  (/\ Broker(t) \in Brokers
                /\ ~At(t, "post") => /\ Transport(t) \in Transports
                                     /\ Transport(t) = "amqp" <=> Broker(t) \in Amqp
                /\ HasConn(t) => Conn(t) \in Conns /\ brokerOf[Conn(t)] = Broker(t))'
    BY <1>9, <2>1, <2>3
       DEF CallsAreSound, OthersStay, Busy, At, HasConn, Conn, Broker, Transport
  <2>4. (/\ Broker(s) \in Brokers
         /\ Transport(s) \in Transports
         /\ Transport(s) = "amqp" <=> Broker(s) \in Amqp
         /\ Conn(s) \in Conns /\ brokerOf[Conn(s)] = Broker(s))'
    BY <1>1, <1>3, <1>9, <2>2 DEF CallsAreSound, Conn, Broker, Transport
  <2> QED BY <2>3, <2>4 DEF CallsAreSound
<1>13. DiallerAlone'
  <2>1. ASSUME NEW t \in Senders, t # s, UnderMutex(t)'
        PROVE  HasMutex(t)'
    <3>1. \A b \in Brokers : b # Broker(s) => pool'[b] = pool[b]
      BY <1>4, <1>5 DEF TypeOK
    <3>2. OthersStay(s) /\ lock' = [lock EXCEPT ![Transport(s)] = None]
      BY <1>5, <1>9
    <3> HIDE DEF PoolInv
    <3> QED BY <1>1, <1>4, <2>1, <3>1, <3>2, OtherDiallersStay
  <2> QED BY <1>9, <2>1 DEF DiallerAlone, UnderMutex, HasMutex, At
<1>14. MessagesOwned'
  BY <1>1, <1>5, <1>9, MessagesKept DEF GoesOn, At, TypeOK
<1>15. PoolSound'
  <2>1. \A d \in Brokers : pool[d] # None => brokerOf'[pool[d]] = brokerOf[pool[d]]
    BY <1>3, <1>5, DialledApart
  <2>2. \A b \in Brokers : pool'[b] # None => brokerOf'[pool'[b]] = b
    BY <1>3, <1>4, <1>5, <2>1 DEF PoolSound, TypeOK
  <2>3. open' \cup stray' \subseteq Used' /\ live' \cap stray' = {}
    BY <1>3, <1>5, <1>10 DEF PoolSound
  <2>4. \A d \in Conns \ Used' : sent'[d] = <<>> /\ confirm'[d] = <<>>
    BY <1>5, <1>10 DEF PoolSound
  <2> QED BY <2>2, <2>3, <2>4 DEF PoolSound
<1>16. BeingSetUp' /\ OpenIsPooled'
  <2>1. Apart(s)
    BY <1>1, <1>9 DEF Apart, OthersStay, At
  <2>2. ASSUME NEW t \in Senders, At(t, "channel") PROVE Conn(t) # c
    BY <1>3, <1>5, <2>2, DialledApart DEF Busy, At, HasConn
  <2>3. BeingSetUp'
    BY <1>5, <1>9, <2>1, <2>2, SetUpKept DEF BeingSetUp
  <2>4. \A d \in open : d # c /\ brokerOf'[d] = brokerOf[d]
    BY <1>3, <1>5, DialledApart
  <2>5. pool'[brokerOf'[c]] = c
    BY <1>3, <1>4, <1>5 DEF TypeOK
  <2>6. ASSUME NEW d \in open \ stray
        PROVE  pool'[brokerOf'[d]] = d \/ \E t \in Senders : At(t, "channel")' /\ Conn(t)' = d
    <3>1. CASE pool[brokerOf[d]] = d
      <4>1. brokerOf[d] \in Brokers /\ brokerOf[d] # Broker(s)
        BY <1>4, <3>1, NoneIsNeither DEF PoolSound, Used, TypeOK
      <4> QED BY <1>5, <2>4, <3>1, <4>1
    <3>2. ASSUME NEW t \in Senders, At(t, "channel"), Conn(t) = d
          PROVE  At(t, "channel")' /\ Conn(t)' = d
      BY <2>1, <3>2 DEF Apart, At, Conn
    <3> QED BY <3>1, <3>2 DEF OpenIsPooled
  <2> QED BY <1>5, <2>3, <2>5, <2>6 DEF OpenIsPooled
<1>17. EnoughConfirmations'
  <2>1. ASSUME NEW d \in live PROVE SameOn(d) /\ brokerOf'[d] = brokerOf[d]
    BY <1>1, <1>3, <1>5, <1>9 DEF SameOn, OthersStay, At, PoolSound, TypeOK
  <2>2. NobodyOn(c)
    BY <1>3, <1>5, <1>9, NoneIsNeither
       DEF NobodyOn, PoolSound, CallsAreSound, OthersStay, Busy, At, HasConn, Conn, Broker
  <2> QED BY <2>1, <2>2, <1>5, EnoughKept
<1>18. AloneFindsOwn'
  BY <1>5, <1>9, AloneKept DEF TypeOK, OthersStay
<1>19. OwnAck'
  BY <1>5 DEF OwnAck
<1> QED BY <1>10, <1>11, <1>12, <1>13, <1>14, <1>15, <1>16, <1>17, <1>18, <1>19

(* AMQP: the new connection is its dial's alone, and the pool still empty. *)
LEMMA DialSucceedsKeeps ==
    ASSUME PoolInv, NEW s \in Senders, DialSucceeds(s)
    PROVE  PoolInv'
<1> USE DEF PoolInv
<1>1. Busy(s) /\ At(s, "dial") /\ ~At(s, "post")
  BY DEF Busy, At, DialSucceeds
<1>2. PICK c : c = Fresh
  OBVIOUS
<1>3. c \in Conns /\ c \notin Used /\ brokerOf[c] = None
  BY <1>1, <1>2, FreshIsNext DEF Used
<1>4. Broker(s) \in Brokers /\ Broker(s) # None /\ Transport(s) \in Transports
  BY <1>1, NoneIsNeither DEF CallsAreSound
<1>5. /\ open' = open \cup {c}
      /\ brokerOf' = [brokerOf EXCEPT ![c] = Broker(s)]
      /\ UNCHANGED <<pool, live, stray, lock, brokerVars, calls, result>>
  BY <1>2 DEF DialSucceeds
<1>6. sender[s] \in CallRecords
  BY <1>1, BusyHasRecord
<1>7. sender' = [sender EXCEPT ![s] = [sender[s] EXCEPT !.pc = "channel", !.conn = c]]
  BY <1>2, <1>6 DEF DialSucceeds, TypeOK, CallRecords
<1>8. [sender[s] EXCEPT !.pc = "channel", !.conn = c] \in CallRecords
  BY <1>3, <1>6 DEF CallRecords, PCs
<1>9. /\ sender' \in [Senders -> {Idle} \cup CallRecords]
      /\ OthersStay(s)
      /\ sender'[s].pc = "channel" /\ sender'[s].conn = c
      /\ sender'[s].msg = sender[s].msg /\ sender'[s].url = sender[s].url
  BY <1>6, <1>7, <1>8 DEF TypeOK, CallRecords, OthersStay
<1> USE DEF brokerVars
<1>10. ConnsSuffice' /\ Used' = Used \cup {c}
  <2>1. MayDial' = MayDial \ {s}
    BY <1>1, <1>9 DEF MayDial, OthersStay
  <2> QED BY <1>1, <1>2, <1>5, <2>1, FreshUsed
<1>11. (TypeOK /\ confirm \in [Conns -> Seq(Verdicts)])'
  BY <1>3, <1>4, <1>5, <1>9 DEF TypeOK, CallRecords
<1>12. CallsAreSound'
  <2>1. \A t \in Senders : Busy(t) /\ HasConn(t) => brokerOf'[Conn(t)] = brokerOf[Conn(t)]
    BY <1>3, <1>5, DialledApart
  <2>2. brokerOf'[c] = Broker(s)
    BY <1>3, <1>5 DEF TypeOK
  <2>3. ASSUME NEW t \in Senders, t # s, Busy(t)'
        PROVE  (/\ Broker(t) \in Brokers
                /\ ~At(t, "post") => /\ Transport(t) \in Transports
                                     /\ Transport(t) = "amqp" <=> Broker(t) \in Amqp
                /\ HasConn(t) => Conn(t) \in Conns /\ brokerOf[Conn(t)] = Broker(t))'
    BY <1>9, <2>1, <2>3
       DEF CallsAreSound, OthersStay, Busy, At, HasConn, Conn, Broker, Transport
  <2>4. (/\ Broker(s) \in Brokers
         /\ Transport(s) \in Transports
         /\ Transport(s) = "amqp" <=> Broker(s) \in Amqp
         /\ Conn(s) \in Conns /\ brokerOf[Conn(s)] = Broker(s))'
    BY <1>1, <1>3, <1>9, <2>2 DEF CallsAreSound, Conn, Broker, Transport
  <2> QED BY <2>3, <2>4 DEF CallsAreSound
<1>13. DiallerAlone'
  BY <1>1, <1>5, <1>9
     DEF DiallerAlone, UnderMutex, HasMutex, OthersStay, At, Broker, Transport
<1>14. MessagesOwned'
  BY <1>1, <1>5, <1>9, MessagesKept DEF GoesOn, At, TypeOK
<1>15. PoolSound'
  <2>1. \A d \in Brokers : pool[d] # None => brokerOf'[pool[d]] = brokerOf[pool[d]]
    BY <1>3, <1>5, DialledApart
  <2>2. \A b \in Brokers : pool'[b] # None => brokerOf'[pool'[b]] = b
    BY <1>5, <2>1 DEF PoolSound
  <2>3. open' \cup stray' \subseteq Used' /\ live' \cap stray' = {}
    BY <1>3, <1>5, <1>10 DEF PoolSound
  <2>4. \A d \in Conns \ Used' : sent'[d] = <<>> /\ confirm'[d] = <<>>
    BY <1>5, <1>10 DEF PoolSound
  <2> QED BY <2>2, <2>3, <2>4 DEF PoolSound
<1>16. \A t \in Senders : t # s =>
          /\ At(t, "channel")' <=> At(t, "channel")
          /\ HasConn(t)' <=> HasConn(t)
          /\ Conn(t)' = Conn(t)
  BY <1>9 DEF OthersStay, At, HasConn, Conn
<1>17. \A t \in Senders : HasConn(t) => Conn(t) # c
  BY <1>3, <1>5, DialledApart DEF Busy, At, HasConn
<1>18. BeingSetUp'
  <2>1. Conn(s)' = c
    BY <1>9 DEF Conn
  <2>2. c \in open' \ (live' \cup stray') /\ sent'[c] = <<>> /\ confirm'[c] = <<>>
    BY <1>3, <1>5 DEF PoolSound, TypeOK
  <2>3. ASSUME NEW t \in Senders, t # s, At(t, "channel")
        PROVE  /\ Conn(t) \in open' \ (live' \cup stray') /\ Conn(t) # c
               /\ sent'[Conn(t)] = <<>> /\ confirm'[Conn(t)] = <<>>
               /\ \A r \in Senders : r # t /\ HasConn(r) => Conn(r) # Conn(t)
    BY <1>5, <1>17, <2>3 DEF BeingSetUp, HasConn, At
  <2> QED BY <1>16, <1>17, <2>1, <2>2, <2>3 DEF BeingSetUp
<1>19. OpenIsPooled'
  <2>1. \A d \in open : brokerOf'[d] = brokerOf[d]
    BY <1>3, <1>5, DialledApart
  <2>2. At(s, "channel")' /\ Conn(s)' = c /\ ~At(s, "channel")
    BY <1>1, <1>9 DEF At, Conn
  <2> QED BY <1>5, <1>16, <2>1, <2>2 DEF OpenIsPooled
<1>20. EnoughConfirmations'
  <2>1. ASSUME NEW d \in live PROVE SameOn(d) /\ brokerOf'[d] = brokerOf[d]
    BY <1>1, <1>3, <1>5, <1>9 DEF SameOn, OthersStay, At, PoolSound, TypeOK
  <2> QED BY <2>1, <1>5, EnoughKept
<1>21. AloneFindsOwn'
  BY <1>5, <1>9, AloneKept DEF TypeOK, OthersStay
<1>22. OwnAck'
  BY <1>5 DEF OwnAck
<1> QED BY <1>10, <1>11, <1>12, <1>13, <1>14, <1>15, <1>18, <1>19, <1>20, <1>21, <1>22

(* Its channel opens: it is pooled where none was, and nobody has used it. *)
LEMMA OpenChannelKeeps ==
    ASSUME PoolInv, NEW s \in Senders, OpenChannel(s)
    PROVE  PoolInv'
<1> USE DEF PoolInv
<1>1. Busy(s) /\ At(s, "channel") /\ HasConn(s) /\ ~At(s, "post")
  BY DEF Busy, At, HasConn, OpenChannel
<1>2. PICK c : c = Conn(s)
  OBVIOUS
<1>3. /\ c \in open \ (live \cup stray) /\ sent[c] = <<>> /\ confirm[c] = <<>>
      /\ \A t \in Senders : t # s /\ HasConn(t) => Conn(t) # c
  BY <1>1, <1>2 DEF BeingSetUp
<1>4. /\ Broker(s) \in Brokers /\ Transport(s) \in Transports
      /\ c \in Conns /\ brokerOf[c] = Broker(s)
  BY <1>1, <1>2 DEF CallsAreSound
<1>5. lock[Transport(s)] = s /\ pool[Broker(s)] = None
  BY <1>1 DEF DiallerAlone, UnderMutex, HasMutex, At
<1>6. /\ live' = live \cup {c}
      /\ pool' = [pool EXCEPT ![Broker(s)] = c]
      /\ lock' = [lock EXCEPT ![Transport(s)] = None]
      /\ UNCHANGED <<open, stray, brokerOf, brokerVars, calls>>
  BY <1>2 DEF OpenChannel, Conn
<1>7. Moved(s, "publish") /\ UNCHANGED result
  BY <1>1, GotoMoves DEF OpenChannel, Goto, PCs
<1> USE DEF brokerVars
<1>8. (TypeOK /\ confirm \in [Conns -> Seq(Verdicts)])'
  BY <1>3, <1>4, <1>6, <1>7 DEF TypeOK, CallRecords, Moved
<1>9. CallsAreSound' /\ ConnsSuffice' /\ MessagesOwned'
  BY <1>1, <1>6, <1>7, MoveKeeps
<1>10. DiallerAlone'
  <2>1. ASSUME NEW t \in Senders, t # s, UnderMutex(t)' PROVE HasMutex(t)'
    <3>1. \A b \in Brokers : b # Broker(s) => pool'[b] = pool[b]
      BY <1>6 DEF TypeOK
    <3>2. OthersStay(s) /\ lock' = [lock EXCEPT ![Transport(s)] = None]
      BY <1>6, <1>7 DEF Moved
    <3> HIDE DEF PoolInv
    <3> QED BY <1>1, <1>5, <2>1, <3>1, <3>2, OtherDiallersStay
  <2> QED BY <1>7, <2>1 DEF DiallerAlone, UnderMutex, Moved
<1>11. PoolSound'
  BY <1>3, <1>4, <1>6 DEF PoolSound, Used, TypeOK
<1>12. \A t \in Senders :
          /\ t # s => /\ At(t, "channel")' <=> At(t, "channel")
                      /\ HasConn(t)' <=> HasConn(t)
          /\ Conn(t)' = Conn(t)
  BY <1>7 DEF Moved, SameCall, OthersStay, At, HasConn, Conn
<1>13. ~At(s, "channel")'
  BY <1>7 DEF Moved, At
<1>14. BeingSetUp'
  <2>1. ASSUME NEW t \in Senders, t # s, At(t, "channel")
        PROVE  /\ Conn(t) \in open' \ (live' \cup stray')
               /\ sent'[Conn(t)] = <<>> /\ confirm'[Conn(t)] = <<>>
               /\ \A r \in Senders : r # t /\ HasConn(r) => Conn(r) # Conn(t)
    BY <1>2, <1>1, <1>6, <2>1 DEF BeingSetUp
  <2> QED BY <1>1, <1>12, <1>13, <2>1 DEF BeingSetUp
<1>15. OpenIsPooled'
  <2>1. pool'[brokerOf'[c]] = c
    BY <1>4, <1>6 DEF TypeOK
  <2>2. ASSUME NEW d \in open \ stray, d # c
        PROVE  pool'[brokerOf[d]] = d \/ \E t \in Senders : At(t, "channel")' /\ Conn(t)' = d
    <3>1. CASE pool[brokerOf[d]] = d
      <4>1. brokerOf[d] \in Brokers /\ brokerOf[d] # Broker(s)
        BY <1>5, <3>1, NoneIsNeither DEF PoolSound, Used, TypeOK
      <4> QED BY <1>6, <3>1, <4>1
    <3>2. ASSUME NEW t \in Senders, At(t, "channel"), Conn(t) = d
          PROVE  At(t, "channel")' /\ Conn(t)' = d
      BY <1>2, <1>12, <2>2, <3>2
    <3> QED BY <3>1, <3>2 DEF OpenIsPooled
  <2> QED BY <1>6, <2>1, <2>2 DEF OpenIsPooled
<1>16. EnoughConfirmations'
  <2>1. ASSUME NEW d \in live PROVE SameOn(d)
    BY <1>1, <1>6, <1>7 DEF SameOn, OthersStay, At, Moved
  <2>2. NobodyOn(c)
    <3>1. sent'[c] = <<>> /\ confirm'[c] = <<>>
      BY <1>3, <1>6
    <3>2. ASSUME NEW t \in Senders, sender'[t].pc \in {"await", "drop", "close"}
          PROVE  sender'[t].conn # c
      BY <1>3, <1>7, <3>2 DEF Moved, OthersStay, HasConn, Conn
    <3> QED BY <3>1, <3>2 DEF NobodyOn
  <2> QED BY <2>1, <2>2, <1>6, EnoughKept
<1>17. AloneFindsOwn'
  BY <1>6, <1>7, AloneKept DEF TypeOK, OthersStay, Moved
<1>18. OwnAck'
  BY <1>7 DEF OwnAck
<1> QED BY <1>8, <1>9, <1>10, <1>11, <1>14, <1>15, <1>16, <1>17, <1>18

(* Or it does not, and the connection is closed before anybody knew it. *)
LEMMA ChannelFailsKeeps ==
    ASSUME PoolInv, NEW s \in Senders, ChannelFails(s)
    PROVE  PoolInv'
<1> USE DEF PoolInv
<1>1. Busy(s) /\ At(s, "channel") /\ HasConn(s) /\ ~At(s, "post")
  BY DEF Busy, At, HasConn, ChannelFails
<1>2. PICK c : c = Conn(s)
  OBVIOUS
<1>3. c \in open \ (live \cup stray) /\ \A t \in Senders : t # s /\ HasConn(t) => Conn(t) # c
  BY <1>1, <1>2 DEF BeingSetUp
<1>4. Broker(s) \in Brokers /\ Transport(s) \in Transports /\ lock[Transport(s)] = s
  BY <1>1 DEF CallsAreSound, DiallerAlone, UnderMutex, HasMutex, At
<1>5. /\ open' = open \ {c}
      /\ lock' = [lock EXCEPT ![Transport(s)] = None]
      /\ UNCHANGED <<pool, live, stray, brokerOf, brokerVars, calls>>
  BY <1>2 DEF ChannelFails, Conn
<1>6. Returned(s, "transient", None)
  BY <1>1, ReturnIdles DEF ChannelFails
<1> USE DEF brokerVars
<1>7. (TypeOK /\ confirm \in [Conns -> Seq(Verdicts)])'
  BY <1>3, <1>5, <1>6 DEF TypeOK, CallRecords, Results, Returned
<1>8. CallsAreSound' /\ ConnsSuffice' /\ MessagesOwned'
  BY <1>1, <1>5, <1>6, ReturnKeeps
<1>9. DiallerAlone'
  BY <1>1, <1>4, <1>5, <1>6, OtherDiallersStay DEF DiallerAlone, UnderMutex, Returned
<1>10. PoolSound'
  BY <1>5 DEF PoolSound, Used
<1>11. /\ ~At(s, "channel")' /\ ~HasConn(s)'
       /\ \A t \in Senders : t # s => /\ At(t, "channel")' <=> At(t, "channel")
                                      /\ HasConn(t)' <=> HasConn(t)
                                      /\ Conn(t)' = Conn(t)
  BY <1>6 DEF Returned, OthersStay, At, HasConn, Conn
<1>12. BeingSetUp'
  <2>1. ASSUME NEW t \in Senders, t # s, At(t, "channel")
        PROVE  /\ Conn(t) \in open' \ (live' \cup stray')
               /\ sent'[Conn(t)] = <<>> /\ confirm'[Conn(t)] = <<>>
               /\ \A r \in Senders : r # t /\ HasConn(r) => Conn(r) # Conn(t)
    <3>1. Conn(t) # c
      BY <1>3, <2>1 DEF HasConn, At
    <3> QED BY <1>5, <2>1, <3>1 DEF BeingSetUp
  <2> QED BY <1>11, <2>1 DEF BeingSetUp
<1>13. OpenIsPooled'
  <2>1. ASSUME NEW d \in open \ stray, d # c
        PROVE  pool[brokerOf[d]] = d \/ \E t \in Senders : At(t, "channel")' /\ Conn(t)' = d
    BY <1>2, <1>11, <2>1 DEF OpenIsPooled
  <2> QED BY <1>5, <2>1 DEF OpenIsPooled
<1>14. EnoughConfirmations'
  <2>1. ASSUME NEW d \in live PROVE SameOn(d)
    BY <1>1, <1>5, <1>6 DEF SameOn, OthersStay, At, Returned
  <2> QED BY <2>1, <1>5, EnoughKept
<1>15. AloneFindsOwn'
  BY <1>5, <1>6, AloneKept DEF TypeOK, OthersStay, Returned
<1>16. OwnAck'
  BY <1>6, ResultKept DEF Returned
<1> QED BY <1>7, <1>8, <1>9, <1>10, <1>12, <1>13, <1>14, <1>15, <1>16

(* A client that is given up keeps its number and is never pooled. *)
LEMMA ConnectTimesOutKeeps ==
    ASSUME PoolInv, NEW s \in Senders, ConnectTimesOut(s)
    PROVE  PoolInv'
<1> USE DEF PoolInv
<1>1. Busy(s) /\ At(s, "dial") /\ ~At(s, "post")
  BY DEF Busy, At, ConnectTimesOut
<1>2. PICK c : c = Fresh
  OBVIOUS
<1>3. c \in Conns /\ c \notin Used /\ brokerOf[c] = None
  BY <1>1, <1>2, FreshIsNext DEF Used
<1>4. /\ Broker(s) \in Brokers /\ Broker(s) # None /\ Transport(s) \in Transports
      /\ lock[Transport(s)] = s
  BY <1>1, NoneIsNeither DEF CallsAreSound, DiallerAlone, UnderMutex, HasMutex, At
<1>5. /\ stray' = stray \cup {c}
      /\ brokerOf' = [brokerOf EXCEPT ![c] = Broker(s)]
      /\ lock' = [lock EXCEPT ![Transport(s)] = None]
      /\ UNCHANGED <<pool, open, live, brokerVars, calls>>
  BY <1>2 DEF ConnectTimesOut
<1>6. Returned(s, "transient", None)
  BY <1>1, ReturnIdles DEF ConnectTimesOut
<1> USE DEF brokerVars
<1>7. ConnsSuffice' /\ Used' = Used \cup {c}
  <2>1. MayDial' = MayDial \ {s}
    BY <1>1, <1>6 DEF MayDial, OthersStay, Returned
  <2> QED BY <1>1, <1>2, <1>5, <2>1, FreshUsed
<1>8. (TypeOK /\ confirm \in [Conns -> Seq(Verdicts)])'
  BY <1>3, <1>4, <1>5, <1>6 DEF TypeOK, CallRecords, Results, Returned
<1>9. CallsAreSound'
  <2>1. \A t \in Senders : Busy(t) /\ HasConn(t) => brokerOf'[Conn(t)] = brokerOf[Conn(t)]
    BY <1>3, <1>5, DialledApart
  <2> QED BY <1>6, <2>1
          DEF CallsAreSound, OthersStay, Busy, At, HasConn, Conn, Broker, Transport, Returned
<1>10. DiallerAlone'
  BY <1>1, <1>4, <1>5, <1>6, OtherDiallersStay DEF DiallerAlone, UnderMutex, HasMutex, Returned, At
<1>11. MessagesOwned'
  BY <1>5, <1>6, MessagesKept DEF GoesOn, TypeOK, Returned
<1>12. PoolSound' /\ BeingSetUp' /\ OpenIsPooled'
  <2>1. /\ \A d \in Brokers : pool[d] # None => brokerOf'[pool[d]] = brokerOf[pool[d]]
        /\ \A d \in open : d # c /\ brokerOf'[d] = brokerOf[d]
    BY <1>3, <1>5, DialledApart
  <2>2. \A b \in Brokers : pool'[b] # None => brokerOf'[pool'[b]] = b
    BY <1>5, <2>1 DEF PoolSound
  <2>3. open' \cup stray' \subseteq Used' /\ live' \cap stray' = {}
    BY <1>5, <1>7, <2>1 DEF PoolSound, TypeOK
  <2>4. \A d \in Conns \ Used' : sent'[d] = <<>> /\ confirm'[d] = <<>>
    BY <1>5, <1>7 DEF PoolSound
  <2>5. Apart(s) /\ ~HasConn(s)'
    BY <1>1, <1>6 DEF Apart, OthersStay, At, HasConn, Returned
  <2>6. OpenIsPooled'
    BY <1>5, <2>1, <2>5, PooledKept
  <2>7. BeingSetUp'
    BY <1>5, <2>1, <2>5, SetUpKept DEF BeingSetUp
  <2> QED BY <2>2, <2>3, <2>4, <2>6, <2>7 DEF PoolSound
<1>13. EnoughConfirmations'
  <2>1. ASSUME NEW d \in live PROVE SameOn(d) /\ brokerOf'[d] = brokerOf[d]
    BY <1>1, <1>3, <1>5, <1>6 DEF SameOn, OthersStay, At, PoolSound, TypeOK, Returned
  <2> QED BY <2>1, <1>5, EnoughKept
<1>14. AloneFindsOwn'
  BY <1>5, <1>6, AloneKept DEF TypeOK, OthersStay, Returned
<1>15. OwnAck'
  BY <1>6, ResultKept DEF Returned
<1> QED BY <1>7, <1>8, <1>9, <1>10, <1>11, <1>12, <1>13, <1>14, <1>15

(* A call begins with a payload nobody has sent. *)
LEMMA CallKeeps ==
    ASSUME PoolInv, NEW s \in Senders, NEW u \in Targets, Call(s, u)
    PROVE  PoolInv'
<1> USE DEF PoolInv
<1>1. /\ At(s, "idle") /\ calls < MaxSends /\ ValidateURL(u) /\ calls' = calls + 1
      /\ UNCHANGED <<poolVars, brokerVars>>
  BY DEF Call
<1>2. u \in Urls /\ ~Refused(u) /\ u.host \in Brokers
      /\ (u.scheme # "http" => u.scheme \in Transports /\ (u.scheme = "amqp" <=> u.host \in Amqp))
  BY <1>1, ScopeAssumption DEF ValidateURL, Refused, Urls, Transports
<1>3. PICK m : m = calls + 1
  OBVIOUS
<1>4. m \in Msgs /\ calls \in Nat
  BY <1>1, <1>3, ScopeAssumption DEF TypeOK, Msgs
<1>5. /\ result' = [result EXCEPT ![s] = None]
      /\ sender' = [sender EXCEPT ![s] = [pc |-> IF u.scheme = "http" THEN "post" ELSE "get",
                                          url |-> u, msg |-> m, conn |-> None, alone |-> TRUE]]
  BY <1>1, <1>2, <1>3 DEF Call
<1>6. [pc |-> IF u.scheme = "http" THEN "post" ELSE "get",
       url |-> u, msg |-> m, conn |-> None, alone |-> TRUE] \in CallRecords
  BY <1>2, <1>4 DEF CallRecords, PCs
<1>7. /\ sender' \in [Senders -> {Idle} \cup CallRecords]
      /\ OthersStay(s)
      /\ sender'[s].pc = IF u.scheme = "http" THEN "post" ELSE "get"
      /\ sender'[s].msg = m /\ sender'[s].url = u
  BY <1>5, <1>6 DEF TypeOK, CallRecords, OthersStay
<1> USE DEF poolVars, brokerVars
<1>8. (TypeOK /\ confirm \in [Conns -> Seq(Verdicts)])'
  <2>1. result' \in [Senders -> {None} \cup Results]
    BY <1>5 DEF TypeOK, Results
  <2>2. calls' \in 0..MaxSends
    BY <1>1, ScopeAssumption DEF TypeOK
  <2> QED BY <1>1, <1>7, <2>1, <2>2 DEF TypeOK, CallRecords, Results
<1>9. CallsAreSound'
  <2>1. ASSUME NEW t \in Senders, t # s, Busy(t)'
        PROVE  (/\ Broker(t) \in Brokers
                /\ ~At(t, "post") => /\ Transport(t) \in Transports
                                     /\ Transport(t) = "amqp" <=> Broker(t) \in Amqp
                /\ HasConn(t) => Conn(t) \in Conns /\ brokerOf[Conn(t)] = Broker(t))'
    BY <1>1, <1>7, <2>1
       DEF CallsAreSound, OthersStay, Busy, At, HasConn, Conn, Broker, Transport
  <2>2. (/\ Broker(s) \in Brokers
         /\ ~At(s, "post") => /\ Transport(s) \in Transports
                              /\ Transport(s) = "amqp" <=> Broker(s) \in Amqp
         /\ ~HasConn(s))'
    BY <1>2, <1>7 DEF At, HasConn, Broker, Transport
  <2> QED BY <2>1, <2>2 DEF CallsAreSound
<1>10. ConnsSuffice'
  <2>1. PICK n \in Nat : Used = 1..n /\ n + Cardinality(MayDial) <= calls
    BY DEF ConnsSuffice
  <2>2. Used' = 1..n
    BY <1>1, <2>1 DEF Used
  <2>3. MayDial' \subseteq MayDial \cup {s}
    BY <1>7 DEF MayDial, OthersStay
  <2>4. /\ IsFiniteSet(MayDial \cup {s})
        /\ Cardinality(MayDial \cup {s}) \in Nat
        /\ Cardinality(MayDial \cup {s}) <= Cardinality(MayDial) + 1
    <3>1. /\ IsFiniteSet(MayDial \cup {s})
          /\ Cardinality(MayDial \cup {s}) =
                IF s \in MayDial THEN Cardinality(MayDial) ELSE Cardinality(MayDial) + 1
      BY MayDialCounted, FS_AddElement
    <3> QED BY <3>1, MayDialCounted
  <2>5. Cardinality(MayDial') <= Cardinality(MayDial \cup {s}) /\ Cardinality(MayDial') \in Nat
    BY <2>3, <2>4, FS_Subset, FS_CardinalityType
  <2>6. n + Cardinality(MayDial') <= calls'
    BY <1>1, <1>4, <2>1, <2>4, <2>5, MayDialCounted
  <2> QED BY <2>2, <2>6 DEF ConnsSuffice
<1>11. DiallerAlone'
  BY <1>1, <1>7 DEF DiallerAlone, UnderMutex, HasMutex, OthersStay, At, Broker, Transport
<1>12. PoolSound' /\ BeingSetUp' /\ OpenIsPooled'
  <2>1. PoolSound'
    BY <1>1 DEF PoolSound, Used
  <2>2. Apart(s)
    BY <1>1, <1>7 DEF Apart, OthersStay, At
  <2>3. HasConn(s)' => HasConn(s) /\ Conn(s)' = Conn(s)
    BY <1>1, <1>7 DEF HasConn
  <2> QED BY <1>1, <2>1, <2>2, <2>3, ConnsStand
<1>13. MessagesOwned'
  <2>1. \A t \in Senders : t # s /\ Busy(t)' =>
            Busy(t) /\ Msg(t)' = Msg(t) /\ Msg(t) \in Nat /\ Msg(t) <= calls
    BY <1>7, BusyHasRecord DEF OthersStay, Busy, At, Msg, MessagesOwned, CallRecords, Msgs
  <2>2. Msg(s)' = calls + 1
    BY <1>3, <1>7 DEF Msg
  <2>3. \A c \in Conns : \A i \in 1..Len(sent[c]) : sent[c][i] \in Nat
    <3>1. ASSUME NEW c \in Conns, NEW i \in 1..Len(sent[c]) PROVE sent[c][i] \in Msgs
      BY DEF TypeOK
    <3> QED BY <3>1 DEF Msgs
  <2>4. \A v \in tokens : v.msg \in Nat
    BY DEF TypeOK, Verdicts, Msgs
  <2>5. \A t \in Senders : Busy(t)' => Msg(t)' <= calls'
    BY <1>1, <1>4, <2>1, <2>2
  <2>6. \A r, t \in Senders : Busy(r)' /\ Busy(t)' /\ Msg(r)' = Msg(t)' => r = t
    BY <1>4, <2>1, <2>2 DEF MessagesOwned
  <2>7. \A c \in Conns : \A i \in 1..Len(sent'[c]) :
           /\ sent'[c][i] <= calls'
           /\ \A t \in Senders : Busy(t)' /\ Msg(t)' = sent'[c][i] => UsesConn(t, c)'
    <3> SUFFICES ASSUME NEW c \in Conns, NEW i \in 1..Len(sent[c])
                 PROVE  /\ sent[c][i] <= calls'
                        /\ \A t \in Senders : Busy(t)' /\ Msg(t)' = sent[c][i] => UsesConn(t, c)'
      BY <1>1
    <3>1. sent[c][i] \in Nat /\ sent[c][i] <= calls
      BY <2>3 DEF MessagesOwned
    <3>2. ASSUME NEW t \in Senders, Busy(t)', Msg(t)' = sent[c][i] PROVE UsesConn(t, c)'
      <4>1. t # s
        BY <1>4, <2>2, <3>1, <3>2
      <4>2. Busy(t) /\ Msg(t) = sent[c][i] /\ sender'[t] = sender[t]
        BY <1>7, <2>1, <3>2, <4>1 DEF OthersStay
      <4> QED BY <4>2 DEF MessagesOwned, UsesConn, Conn
    <3> QED BY <1>1, <1>4, <3>1, <3>2
  <2>8. \A v \in tokens' :
           /\ v.msg <= calls'
           /\ \A t \in Senders : Busy(t)' /\ Msg(t)' = v.msg =>
                 sender'[t].pc \in {"await", "drop", "close"} /\ Broker(t)' \notin Amqp
    BY <1>1, <1>4, <1>7, <2>1, <2>2, <2>4 DEF MessagesOwned, OthersStay, Broker
  <2> QED BY <2>5, <2>6, <2>7, <2>8 DEF MessagesOwned
<1>14. EnoughConfirmations'
  <2>1. ASSUME NEW c \in live PROVE SameOn(c)
    BY <1>1, <1>7 DEF SameOn, OthersStay, At
  <2> QED BY <2>1, <1>1, EnoughKept
<1>15. AloneFindsOwn'
  BY <1>1, <1>7, AloneKept DEF TypeOK, OthersStay
<1>16. OwnAck'
  BY <1>5, ResultKept DEF TypeOK
<1> QED BY <1>8, <1>9, <1>10, <1>11, <1>12, <1>13, <1>14, <1>15, <1>16

(* A publication that fails, or whose confirmations are closed: the call   *)
(* drops a connection that is not in use any more.                         *)
LEMMA DeadConnKeeps ==
    ASSUME PoolInv, NEW s \in Senders, PublishFails(s) \/ ConfirmClosed(s)
    PROVE  PoolInv'
<1> USE DEF PoolInv
<1>1. /\ Busy(s) /\ HasConn(s) /\ ~At(s, "post") /\ ~At(s, "channel") /\ Conn(s) \notin live
      /\ Goto(s, "drop")
      /\ UNCHANGED <<poolVars, brokerVars, calls>>
  BY DEF Busy, At, HasConn, PublishFails, ConfirmClosed
<1>2. Moved(s, "drop") /\ UNCHANGED result
  BY <1>1, GotoMoves DEF Goto, PCs
<1> USE DEF poolVars, brokerVars
<1>3. (TypeOK /\ confirm \in [Conns -> Seq(Verdicts)])'
  BY <1>1, <1>2 DEF TypeOK, CallRecords, Moved
<1>4. CallsAreSound' /\ ConnsSuffice' /\ MessagesOwned'
  BY <1>1, <1>2, MoveKeeps
<1>5. DiallerAlone'
  BY <1>1, <1>2 DEF DiallerAlone, UnderMutex, HasMutex, OthersStay, At, Broker, Transport, Moved
<1>6. PoolSound' /\ BeingSetUp' /\ OpenIsPooled'
  <2>1. PoolSound'
    BY <1>1 DEF PoolSound, Used
  <2>2. Apart(s)
    BY <1>1, <1>2 DEF Apart, OthersStay, At, HasConn, Moved
  <2>3. HasConn(s)' => HasConn(s) /\ Conn(s)' = Conn(s)
    BY <1>1, <1>2 DEF HasConn, Conn, SameCall, Moved
  <2> QED BY <1>1, <2>1, <2>2, <2>3, ConnsStand
<1>7. EnoughConfirmations'
  <2>1. ASSUME NEW c \in live PROVE SameOn(c)
    BY <1>1, <1>2 DEF SameOn, OthersStay, SameCall, Conn, Moved
  <2> QED BY <2>1, <1>1, EnoughKept
<1>8. AloneFindsOwn'
  BY <1>1, <1>2, AloneKept DEF TypeOK, OthersStay, Moved
<1>9. OwnAck'
  BY <1>2 DEF OwnAck
<1> QED BY <1>3, <1>4, <1>5, <1>6, <1>7, <1>8, <1>9

(* A timeout turns one who waits into one who drops: what is due on the    *)
(* connection may now be left over, until it is closed.                    *)
LEMMA TimeoutKeeps ==
    ASSUME PoolInv, NEW s \in Senders, Timeout(s)
    PROVE  PoolInv'
<1> USE DEF PoolInv
<1>1. /\ Busy(s) /\ At(s, "await") /\ HasConn(s) /\ ~At(s, "post")
      /\ Goto(s, "drop")
      /\ tokens' \subseteq tokens
      /\ UNCHANGED <<poolVars, sent, confirm, calls>>
  BY DEF Busy, At, HasConn, Timeout
<1>2. Moved(s, "drop") /\ UNCHANGED result
  BY <1>1, GotoMoves DEF Goto, PCs
<1> USE DEF poolVars
<1>3. (TypeOK /\ confirm \in [Conns -> Seq(Verdicts)])'
  BY <1>1, <1>2 DEF TypeOK, CallRecords, Moved
<1>4. CallsAreSound' /\ ConnsSuffice' /\ MessagesOwned'
  BY <1>1, <1>2, MoveKeeps
<1>5. DiallerAlone'
  BY <1>1, <1>2 DEF DiallerAlone, UnderMutex, HasMutex, OthersStay, At, Broker, Transport, Moved
<1>6. PoolSound' /\ BeingSetUp' /\ OpenIsPooled'
  <2>1. PoolSound'
    BY <1>1 DEF PoolSound, Used
  <2>2. Apart(s)
    BY <1>1, <1>2 DEF Apart, OthersStay, At, HasConn, Moved
  <2>3. HasConn(s)' => HasConn(s) /\ Conn(s)' = Conn(s)
    BY <1>1, <1>2 DEF HasConn, Conn, SameCall, Moved
  <2> QED BY <1>1, <2>1, <2>2, <2>3, ConnsStand
<1>7. EnoughConfirmations'
  <2>1. ASSUME NEW c \in live, c # Conn(s) PROVE SameOn(c)
    BY <1>1, <1>2, <2>1 DEF SameOn, OthersStay, SameCall, Conn, Moved
  <2>2. ASSUME NEW c \in live, c = Conn(s), brokerOf[c] \in Amqp PROVE EnoughAfter(c)
    <3>1. /\ WaitingAfter(c) = Waiting(c) \ {s} /\ s \in Waiting(c)
          /\ LeavingAfter(c) = Leaving(c) \cup {s} /\ s \notin Leaving(c)
      BY <1>1, <1>2, <2>2 DEF Waiting, Leaving, WaitingAfter, LeavingAfter, OthersStay, SameCall, Conn, At, Moved
    <3>2. IsFiniteSet(Waiting(c)) /\ IsFiniteSet(Leaving(c))
      BY UsingCounted
    <3>3. EnoughFor(Waiting(c), Leaving(c), Len(sent[c]) + Len(confirm[c]))
      BY <2>2 DEF EnoughConfirmations, EnoughFor
    <3>4. Len(sent[c]) + Len(confirm[c]) \in Nat
      BY DueCounted DEF TypeOK
    <3>5. EnoughFor(Waiting(c) \ {s}, Leaving(c) \cup {s},
                    Len(sent[c]) + Len(confirm[c]))
      BY <3>1, <3>2, <3>3, <3>4, GivingUpCounts
    <3> QED BY <1>1, <3>1, <3>5 DEF EnoughAfter
  <2> QED BY <2>1, <2>2, <1>1, EnoughKept
<1>8. AloneFindsOwn'
  BY <1>1, <1>2, AloneKept DEF TypeOK, OthersStay, Moved
<1>9. OwnAck'
  BY <1>2 DEF OwnAck
<1> QED BY <1>3, <1>4, <1>5, <1>6, <1>7, <1>8, <1>9

(* A publication: one more waits, and for one more confirmation.  Who      *)
(* finds nobody on the connection finds nothing left over on it either.    *)
LEMMA PublishKeeps ==
    ASSUME PoolInv, NEW s \in Senders, Publish(s)
    PROVE  PoolInv'
<1> USE DEF PoolInv
<1>1. /\ Busy(s) /\ At(s, "publish") /\ HasConn(s) /\ ~At(s, "post")
      /\ UNCHANGED <<poolVars, confirm, tokens, calls, result>>
  BY DEF Busy, At, HasConn, Publish
<1>2. PICK c : c = Conn(s)
  OBVIOUS
<1>3. c \in live /\ c \in Conns /\ brokerOf[c] = Broker(s) /\ Broker(s) \in Brokers
  BY <1>1, <1>2 DEF Publish, CallsAreSound
<1>4. PICK others : others = {t \in Senders \ {s} : UsesConn(t, c)}
  OBVIOUS
<1>5. sent' = IF Unconfirmed(s) THEN sent ELSE [sent EXCEPT ![c] = Append(@, Msg(s))]
  BY <1>2 DEF Publish
<1>6. sender' = [t \in Senders |->
                   IF t = s THEN [sender[s] EXCEPT !.pc = "await", !.alone = (others = {})]
                   ELSE IF t \in others THEN [sender[t] EXCEPT !.alone = FALSE]
                   ELSE sender[t]]
  BY <1>2, <1>4 DEF Publish
<1>7. \A t \in Senders : Busy(t) => sender[t] \in CallRecords
  BY BusyHasRecord
<1>8. \A t \in others : Busy(t) /\ UsesConn(t, c) /\ t # s
  BY <1>4 DEF Busy, At, UsesConn
<1>9. /\ sender'[s].pc = "await" /\ SameCall(s) /\ sender'[s].alone = (others = {})
      /\ sender'[s] \in CallRecords
  BY <1>1, <1>6, <1>7 DEF CallRecords, PCs, SameCall
<1>10. ASSUME NEW t \in others
       PROVE  /\ sender'[t].pc = sender[t].pc /\ SameCall(t) /\ sender'[t].alone = FALSE
              /\ sender'[t] \in CallRecords
  BY <1>4, <1>6, <1>7, <1>8 DEF CallRecords, SameCall
<1>11. ASSUME NEW t \in Senders, t # s, t \notin others PROVE sender'[t] = sender[t]
  BY <1>6, <1>11
<1>12. sender' \in [Senders -> {Idle} \cup CallRecords]
  BY <1>6, <1>9, <1>10, <1>11 DEF TypeOK, CallRecords
<1>13. ASSUME NEW t \in Senders, t # s PROVE sender'[t].pc = sender[t].pc /\ SameCall(t)
  BY <1>10, <1>11, <1>13 DEF SameCall
<1> USE DEF poolVars
<1>14. (TypeOK /\ confirm \in [Conns -> Seq(Verdicts)])'
  <2>1. Msg(s) \in Msgs
    BY <1>1, <1>7 DEF CallRecords, Msg
  <2>2. sent' \in [Conns -> Seq(Msgs)]
    BY <1>3, <1>5, <2>1 DEF TypeOK
  <2> QED BY <1>1, <1>12, <2>2 DEF TypeOK, CallRecords
<1>15. CallsAreSound' /\ DiallerAlone'
  BY <1>1, <1>9, <1>13
     DEF CallsAreSound, DiallerAlone, UnderMutex, HasMutex, SameCall, Busy, At, HasConn, Conn, Broker, Transport
<1>16. ConnsSuffice'
  <2>1. MayDial' \subseteq MayDial
    BY <1>9, <1>13 DEF MayDial
  <2> QED BY <2>1, <1>1, DialsKept DEF TypeOK
<1>17. PoolSound' /\ BeingSetUp' /\ OpenIsPooled'
  <2>1. c \in Used
    BY <1>3, NoneIsNeither DEF Used
  <2>2. \A d \in Conns : d # c => sent'[d] = sent[d]
    BY <1>5 DEF TypeOK
  <2>3. PoolSound'
    BY <1>1, <2>1, <2>2 DEF PoolSound, Used
  <2>4. Apart(s) /\ Conn(s)' = Conn(s)
    BY <1>1, <1>9, <1>13 DEF Apart, SameCall, At, Conn
  <2> QED BY <1>1, <1>3, <2>2, <2>3, <2>4, ConnsStand
<1>18. MessagesOwned'
  <2>1. \A t \in Senders : Busy(t)' => Busy(t) /\ Msg(t)' = Msg(t)
    BY <1>1, <1>9, <1>13 DEF Busy, At, Msg, SameCall
  <2>2. ASSUME NEW d \in Conns, NEW t \in Senders, UsesConn(t, d) PROVE UsesConn(t, d)'
    BY <1>1, <1>9, <1>13, <2>2 DEF UsesConn, Conn, SameCall
  <2>3. ASSUME NEW d \in Conns, NEW i \in 1..Len(sent'[d])
        PROVE  \/ i \in 1..Len(sent[d]) /\ sent'[d][i] = sent[d][i]
               \/ d = c /\ sent'[d][i] = Msg(s)
    BY <1>3, <1>5 DEF TypeOK
  <2>4. UsesConn(s, c)'
    BY <1>2, <1>9 DEF UsesConn, Conn, SameCall
  <2>5. ASSUME NEW d \in Conns, NEW i \in 1..Len(sent'[d])
        PROVE  /\ sent'[d][i] <= calls'
               /\ \A t \in Senders : Busy(t)' /\ Msg(t)' = sent'[d][i] => UsesConn(t, d)'
    <3>1. CASE i \in 1..Len(sent[d]) /\ sent'[d][i] = sent[d][i]
      BY <1>1, <2>1, <2>2, <3>1 DEF MessagesOwned
    <3>2. CASE d = c /\ sent'[d][i] = Msg(s)
      BY <1>1, <2>1, <2>4, <3>2 DEF MessagesOwned
    <3> QED BY <2>3, <3>1, <3>2
  <2>6. \A v \in tokens' :
           /\ v.msg <= calls'
           /\ \A t \in Senders : Busy(t)' /\ Msg(t)' = v.msg =>
                 sender'[t].pc \in {"await", "drop", "close"} /\ Broker(t)' \notin Amqp
    BY <1>1, <1>9, <1>13, <2>1 DEF MessagesOwned, Broker, SameCall
  <2>7. \A t \in Senders : Busy(t)' => Msg(t)' <= calls'
    BY <1>1, <2>1 DEF MessagesOwned
  <2>8. \A r, t \in Senders : Busy(r)' /\ Busy(t)' /\ Msg(r)' = Msg(t)' => r = t
    BY <2>1 DEF MessagesOwned
  <2> QED BY <2>5, <2>6, <2>7, <2>8 DEF MessagesOwned
<1>19. Broker(s) \in Amqp => sent' = [sent EXCEPT ![c] = Append(@, Msg(s))]
  BY <1>1, <1>5 DEF Unconfirmed, CallsAreSound
<1>20. EnoughConfirmations'
  <2>1. ASSUME NEW d \in live, d # c PROVE SameOn(d)
    BY <1>1, <1>2, <1>3, <1>5, <1>9, <1>13, <2>1 DEF SameOn, SameCall, Conn, TypeOK
  <2>2. ASSUME Broker(s) \in Amqp PROVE EnoughAfter(c)
    <3>1. /\ WaitingAfter(c) = Waiting(c) \cup {s} /\ s \notin Waiting(c)
          /\ LeavingAfter(c) = Leaving(c)
      BY <1>1, <1>2, <1>9, <1>13 DEF Waiting, Leaving, WaitingAfter, LeavingAfter, SameCall, Conn, At
    <3>2. IsFiniteSet(Waiting(c)) /\ IsFiniteSet(Leaving(c))
      BY UsingCounted
    <3>3. EnoughFor(Waiting(c), Leaving(c), Len(sent[c]) + Len(confirm[c]))
      BY <1>3, <2>2 DEF EnoughConfirmations, EnoughFor
    <3>4. Len(sent[c]) + Len(confirm[c]) \in Nat
      BY <1>3, DueCounted
    <3>5. EnoughFor(Waiting(c) \cup {s}, Leaving(c),
                    Len(sent[c]) + Len(confirm[c]) + 1)
      BY <3>1, <3>2, <3>3, <3>4, PublishingCounts
    <3>6. Len(sent'[c]) + Len(confirm'[c]) = Len(sent[c]) + Len(confirm[c]) + 1
      <4>1. Len(sent'[c]) = Len(sent[c]) + 1
        BY <1>3, <1>19, <2>2 DEF TypeOK
      <4> QED BY <1>1, <1>3, <4>1, DueCounted
    <3> QED BY <3>1, <3>5, <3>6 DEF EnoughAfter
  <2> QED BY <2>1, <2>2, <1>1, <1>3, EnoughKept
<1>21. AloneFindsOwn'
  <2>1. ASSUME NEW t \in Senders, t # s, (At(t, "await") /\ Broker(t) \in Amqp /\ sender[t].alone)'
        PROVE  (/\ \A i \in 1..Len(sent[Conn(t)]) : sent[Conn(t)][i] = Msg(t)
                /\ \A i \in 1..Len(confirm[Conn(t)]) : confirm[Conn(t)][i].msg = Msg(t))'
    <3>1. t \notin others
      BY <1>10, <2>1
    <3>2. sender'[t] = sender[t] /\ At(t, "await") /\ Broker(t) \in Amqp /\ sender[t].alone
      BY <1>11, <2>1, <3>1 DEF At, Broker
    <3>3. Conn(t) # c /\ Conn(t) \in Conns
      BY <1>4, <2>1, <3>1, <3>2 DEF UsesConn, At, CallsAreSound, Busy, HasConn
    <3>4. sent'[Conn(t)] = sent[Conn(t)]
      BY <1>5, <3>3 DEF TypeOK
    <3> QED BY <1>1, <3>2, <3>4 DEF AloneFindsOwn, Conn, Msg
  <2>2. ASSUME (Broker(s) \in Amqp /\ sender[s].alone)'
        PROVE  (/\ \A i \in 1..Len(sent[Conn(s)]) : sent[Conn(s)][i] = Msg(s)
                /\ \A i \in 1..Len(confirm[Conn(s)]) : confirm[Conn(s)][i].msg = Msg(s))'
    <3>1. others = {} /\ Broker(s) \in Amqp
      BY <1>9, <2>2 DEF Broker, SameCall
    <3>2. Waiting(c) = {} /\ Leaving(c) = {}
      BY <1>1, <1>4, <3>1 DEF Waiting, Leaving, UsesConn, At
    <3>3. Len(sent[c]) + Len(confirm[c]) <= 0
      <4>1. EnoughFor({}, {}, Len(sent[c]) + Len(confirm[c]))
        BY <1>3, <3>1, <3>2 DEF EnoughConfirmations, EnoughFor
      <4>2. Len(sent[c]) + Len(confirm[c]) \in Nat
        BY <1>3, DueCounted
      <4> QED BY <4>1, <4>2, NobodyDue
    <3>4. Len(sent[c]) = 0 /\ Len(confirm[c]) = 0
      BY <1>3, <3>3, DueCounted
    <3>5. sent[c] = <<>>
      BY <1>3, <3>4 DEF TypeOK
    <3>6. sent'[c] = <<Msg(s)>> /\ Len(confirm'[c]) = 0
      BY <1>1, <1>3, <1>19, <3>1, <3>4, <3>5 DEF TypeOK
    <3>7. Conn(s)' = c /\ Msg(s)' = Msg(s)
      BY <1>2, <1>9 DEF SameCall, Conn, Msg
    <3> QED BY <3>6, <3>7
  <2> QED BY <2>1, <2>2 DEF AloneFindsOwn
<1>22. OwnAck'
  BY <1>1 DEF OwnAck
<1> QED BY <1>14, <1>15, <1>16, <1>17, <1>18, <1>20, <1>21, <1>22

(* AMQP: a confirmation is taken by one who waits, and by whoever waits    *)
(* alone it is its own.                                                    *)
LEMMA ConfirmedKeeps ==
    ASSUME PoolInv, NEW s \in Senders, Confirmed(s)
    PROVE  PoolInv'
<1> USE DEF PoolInv
<1>1. /\ Busy(s) /\ At(s, "await") /\ HasConn(s) /\ ~At(s, "post") /\ Broker(s) \in Amqp
      /\ UNCHANGED <<poolVars, sent, tokens, calls>>
  BY DEF Busy, At, HasConn, Confirmed
<1>2. PICK c : c = Conn(s)
  OBVIOUS
<1>3. c \in Conns /\ brokerOf[c] = Broker(s)
  BY <1>1, <1>2 DEF CallsAreSound
<1>4. PICK v : v = Head(confirm[c])
  OBVIOUS
<1>5. /\ confirm[c] # <<>> /\ confirm' = [confirm EXCEPT ![c] = Tail(@)]
      /\ Return(s, KindOf(v), v.msg)
  BY <1>2, <1>4 DEF Confirmed
<1>6. /\ v \in Verdicts /\ v = confirm[c][1] /\ 1 \in 1..Len(confirm[c])
      /\ Len(confirm'[c]) \in Nat /\ Len(confirm[c]) = Len(confirm'[c]) + 1
      /\ Len(confirm'[c]) <= 2 /\ confirm'[c] = Tail(confirm[c])
      /\ \A d \in Conns : d # c => confirm'[d] = confirm[d]
      /\ confirm' \in [Conns -> Seq(Verdicts)]
  <2>1. PICK q : q = confirm[c]
    OBVIOUS
  <2>2. q \in Seq(Verdicts) /\ Len(q) <= 2 /\ q # <<>>
    BY <1>3, <1>5, <2>1 DEF TypeOK
  <2>3. Len(q) \in Nat /\ Len(q) >= 1 /\ Head(q) = q[1] /\ Head(q) \in Verdicts
    BY <2>2
  <2>4. Tail(q) \in Seq(Verdicts) /\ Len(Tail(q)) = Len(q) - 1
    BY <2>2
  <2>5. Len(Tail(q)) \in Nat /\ Len(q) = Len(Tail(q)) + 1 /\ Len(Tail(q)) <= 2
    <3>1. PICK n : n = Len(q)
      OBVIOUS
    <3>2. n \in Nat /\ n >= 1 /\ n <= 2 /\ Len(Tail(q)) = n - 1
      BY <2>2, <2>3, <2>4, <3>1
    <3> QED BY <3>1, <3>2
  <2>6. 1 \in 1..Len(q)
    BY <2>3
  <2>7. confirm'[c] = Tail(q) /\ confirm' \in [Conns -> Seq(Verdicts)]
        /\ \A d \in Conns : d # c => confirm'[d] = confirm[d]
    BY <1>3, <1>5, <2>1, <2>4
  <2> QED BY <1>4, <2>1, <2>3, <2>5, <2>6, <2>7
<1>7. v.msg \in Msgs /\ KindOf(v) \in {"ok", "transient", "permanent"}
  BY <1>6 DEF Verdicts, KindOf
<1>8. Returned(s, KindOf(v), v.msg)
  BY <1>1, <1>5, <1>7, ReturnIdles
<1> USE DEF poolVars
<1>9. (TypeOK /\ confirm \in [Conns -> Seq(Verdicts)])'
  BY <1>1, <1>6, <1>8 DEF TypeOK, CallRecords, Results, Returned
<1>10. CallsAreSound' /\ ConnsSuffice' /\ MessagesOwned'
  BY <1>1, <1>8, ReturnKeeps
<1>11. DiallerAlone'
  BY <1>1, <1>8 DEF DiallerAlone, UnderMutex, HasMutex, OthersStay, At, Broker, Transport, Returned
<1>12. PoolSound' /\ BeingSetUp' /\ OpenIsPooled'
  <2>1. PoolSound'
    BY <1>1, <1>6 DEF PoolSound, Used
  <2>2. Apart(s)
    BY <1>1, <1>8 DEF Apart, OthersStay, At, Returned
  <2>3. ~HasConn(s)'
    BY <1>8 DEF HasConn, Returned
  <2>4. \A d \in Conns : confirm[d] = <<>> => confirm'[d] = <<>>
    BY <1>5, <1>6
  <2> QED BY <1>1, <2>1, <2>2, <2>3, <2>4, ConnsStand
<1>13. EnoughConfirmations'
  <2>1. ASSUME NEW d \in live, d # c PROVE SameOn(d)
    BY <1>1, <1>2, <1>6, <1>8, <2>1 DEF SameOn, OthersStay, Conn, Returned, TypeOK
  <2>2. ASSUME c \in live PROVE EnoughAfter(c)
    <3>1. /\ WaitingAfter(c) = Waiting(c) \ {s} /\ s \in Waiting(c)
          /\ LeavingAfter(c) = Leaving(c)
      BY <1>1, <1>2, <1>8 DEF Waiting, Leaving, WaitingAfter, LeavingAfter, OthersStay, Conn, At, Returned
    <3>2. IsFiniteSet(Waiting(c)) /\ IsFiniteSet(Leaving(c))
      BY UsingCounted
    <3>3. PICK due : due = Len(sent[c]) + Len(confirm[c])
      OBVIOUS
    <3>4. EnoughFor(Waiting(c), Leaving(c), due)
      BY <1>1, <1>3, <2>2, <3>3 DEF EnoughConfirmations, EnoughFor
    <3>5. due \in Nat /\ Len(sent'[c]) + Len(confirm'[c]) = due - 1
      <4>1. PICK m, n : m = Len(sent[c]) /\ n = Len(confirm'[c])
        OBVIOUS
      <4>2. m \in Nat /\ n \in Nat /\ due = m + (n + 1) /\ Len(sent'[c]) = m
        BY <1>1, <1>3, <1>6, <3>3, <4>1, DueCounted
      <4>3. due \in Nat /\ m + n = due - 1
        BY <4>2
      <4> QED BY <4>1, <4>2, <4>3
    <3>6. EnoughFor(Waiting(c) \ {s}, Leaving(c), due - 1)
      BY <3>1, <3>2, <3>4, <3>5, ConfirmingCounts
    <3> QED BY <3>1, <3>5, <3>6 DEF EnoughAfter
  <2> QED BY <2>1, <2>2, <1>1, EnoughKept
<1>14. AloneFindsOwn'
  BY <1>1, <1>5, <1>6, <1>8, AloneKept DEF TypeOK, OthersStay, Returned
<1>15. OwnAck'
  <2>1. sender[s].alone => v.msg = Msg(s)
    BY <1>1, <1>2, <1>6 DEF AloneFindsOwn
  <2>2. sender[s].url.scheme = "amqp"
    BY <1>1 DEF CallsAreSound, Transport
  <2> QED BY <1>8, <2>1, <2>2, ResultKept DEF Returned
<1> QED BY <1>9, <1>10, <1>11, <1>12, <1>13, <1>14, <1>15

(* Whoever ends or gives up on an MQTT connection takes nobody's           *)
(* confirmation.                                                           *)
LEMMA MqttKeepsEnough ==
    ASSUME PoolInv, NEW s \in Senders, Busy(s), HasConn(s), ~At(s, "post"), Broker(s) \notin Amqp,
           OthersStay(s), sender'[s].pc = "idle" \/ SameCall(s),
           UNCHANGED <<live, brokerOf, sent, confirm>>
    PROVE  EnoughConfirmations'
<1> USE DEF PoolInv
<1>1. ASSUME NEW c \in live, brokerOf[c] \in Amqp PROVE SameOn(c)
  <2>1. Conn(s) # c
    BY <1>1 DEF CallsAreSound
  <2> QED BY <2>1 DEF SameOn, OthersStay, SameCall, Conn
<1> QED BY <1>1, EnoughKept

(* MQTT: the token of the publication itself, or none under QoS 0. *)
LEMMA TokenDoneKeeps ==
    ASSUME PoolInv, NEW s \in Senders, TokenDone(s)
    PROVE  PoolInv'
<1> USE DEF PoolInv
<1>1. /\ Busy(s) /\ At(s, "await") /\ HasConn(s) /\ ~At(s, "post")
      /\ UNCHANGED <<poolVars, sent, confirm, calls>>
  BY DEF Busy, At, HasConn, TokenDone
<1> USE DEF poolVars
<1>2. PoolSound'
  BY <1>1 DEF PoolSound, Used
<1>3. ASSUME NEW of \in Msgs \cup {None}, Return(s, "ok", of), tokens' \subseteq tokens,
             Broker(s) \notin Amqp, of = Msg(s) \/ sender[s].url.qos = "0"
      PROVE  PoolInv'
  <2>1. Returned(s, "ok", of)
    BY <1>1, <1>3, ReturnIdles
  <2>2. (TypeOK /\ confirm \in [Conns -> Seq(Verdicts)])'
    BY <1>1, <1>3, <2>1 DEF TypeOK, CallRecords, Results, Returned
  <2>3. CallsAreSound' /\ ConnsSuffice' /\ MessagesOwned'
    BY <1>1, <1>3, <2>1, ReturnKeeps
  <2>4. DiallerAlone'
    BY <1>1, <2>1 DEF DiallerAlone, UnderMutex, HasMutex, OthersStay, At, Broker, Transport, Returned
  <2>5. EnoughConfirmations'
    BY <1>1, <1>3, <2>1, MqttKeepsEnough DEF Returned
  <2>6. AloneFindsOwn'
    BY <1>1, <2>1, AloneKept DEF TypeOK, OthersStay, Returned
  <2>7. OwnAck'
    BY <1>3, <2>1, ResultKept DEF Returned
  <2>8. BeingSetUp' /\ OpenIsPooled'
    <3>1. Apart(s) /\ ~HasConn(s)'
      BY <1>1, <2>1 DEF Apart, OthersStay, At, HasConn, Returned
    <3> QED BY <1>1, <3>1, ConnsStand
  <2> QED BY <1>2, <2>2, <2>3, <2>4, <2>5, <2>6, <2>7, <2>8
<1>4. ASSUME Goto(s, "drop"), tokens' \subseteq tokens, Broker(s) \notin Amqp
      PROVE  PoolInv'
  <2>1. Moved(s, "drop") /\ UNCHANGED result
    BY <1>1, <1>4, GotoMoves DEF Goto, PCs
  <2>2. (TypeOK /\ confirm \in [Conns -> Seq(Verdicts)])'
    BY <1>1, <1>4, <2>1 DEF TypeOK, CallRecords, Moved
  <2>3. CallsAreSound' /\ ConnsSuffice' /\ MessagesOwned'
    BY <1>1, <1>4, <2>1, MoveKeeps
  <2>4. DiallerAlone'
    BY <1>1, <2>1 DEF DiallerAlone, UnderMutex, HasMutex, OthersStay, At, Broker, Transport, Moved
  <2>5. EnoughConfirmations'
    BY <1>1, <1>4, <2>1, MqttKeepsEnough DEF Moved
  <2>6. AloneFindsOwn'
    BY <1>1, <2>1, AloneKept DEF TypeOK, OthersStay, Moved
  <2>7. OwnAck'
    BY <2>1 DEF OwnAck
  <2>8. BeingSetUp' /\ OpenIsPooled'
    <3>1. Apart(s) /\ Conn(s)' = Conn(s)
      BY <1>1, <2>1 DEF Apart, OthersStay, SameCall, At, Conn, Moved
    <3> QED BY <1>1, <3>1, ConnsStand
  <2> QED BY <1>2, <2>2, <2>3, <2>4, <2>5, <2>6, <2>7, <2>8
<1>5. CASE Unconfirmed(s) /\ Return(s, "ok", None) /\ UNCHANGED tokens
  <2>1. Broker(s) \notin Amqp /\ sender[s].url.qos = "0"
    BY <1>1, <1>5 DEF Unconfirmed, CallsAreSound
  <2> QED BY <1>3, <1>5, <2>1
<1>6. ASSUME NEW v \in tokens, v.msg = Msg(s), tokens' = tokens \ {v},
             IF v.ack THEN Return(s, "ok", v.msg) ELSE Goto(s, "drop")
      PROVE  PoolInv'
  <2>1. Broker(s) \notin Amqp
    BY <1>1, <1>6 DEF MessagesOwned
  <2>2. v.msg \in Msgs
    BY DEF TypeOK, Verdicts
  <2> QED BY <1>3, <1>4, <1>6, <2>1, <2>2
<1> QED BY <1>5, <1>6 DEF TokenDone

(* A connection that is in use is the pooled one. *)
LEMMA LiveIsPooled ==
    ASSUME PoolInv, NEW s \in Senders, HasConn(s), Conn(s) \in live
    PROVE  pool[Broker(s)] = Conn(s)
<1> USE DEF PoolInv
<1>1. Conn(s) \in Conns /\ brokerOf[Conn(s)] = Broker(s)
  BY DEF CallsAreSound, Busy, At, HasConn
<1>2. Conn(s) \in open \ stray
  BY DEF TypeOK, PoolSound
<1>3. ~ \E t \in Senders : At(t, "channel") /\ Conn(t) = Conn(s)
  BY DEF BeingSetUp
<1> QED BY <1>1, <1>2, <1>3 DEF OpenIsPooled

(* dropConn finds the pool empty: the call's connection is closed already. *)
LEMMA NothingToDropKeeps ==
    ASSUME PoolInv, NEW s \in Senders, NothingToDrop(s)
    PROVE  PoolInv'
<1> USE DEF PoolInv
<1>1. /\ Busy(s) /\ At(s, "drop") /\ HasConn(s) /\ ~At(s, "post")
      /\ pool[Broker(s)] = None /\ UNCHANGED <<poolVars, brokerVars, calls>>
  BY DEF Busy, At, HasConn, NothingToDrop
<1>2. Returned(s, "transient", None)
  BY <1>1, ReturnIdles DEF NothingToDrop
<1>3. Conn(s) \notin live
  BY <1>1, LiveIsPooled, NoneIsNeither DEF TypeOK
<1> USE DEF poolVars, brokerVars
<1>4. (TypeOK /\ confirm \in [Conns -> Seq(Verdicts)])'
  BY <1>1, <1>2 DEF TypeOK, CallRecords, Results, Returned
<1>5. CallsAreSound' /\ ConnsSuffice' /\ MessagesOwned'
  BY <1>1, <1>2, ReturnKeeps
<1>6. DiallerAlone'
  BY <1>1, <1>2
     DEF DiallerAlone, UnderMutex, HasMutex, OthersStay, At, Broker, Transport, Returned
<1>7. PoolSound' /\ BeingSetUp' /\ OpenIsPooled'
  <2>1. PoolSound'
    BY <1>1 DEF PoolSound, Used
  <2>2. Apart(s) /\ ~HasConn(s)'
    BY <1>1, <1>2 DEF Apart, OthersStay, At, HasConn, Returned
  <2> QED BY <1>1, <2>1, <2>2, ConnsStand
<1>8. EnoughConfirmations'
  <2>1. ASSUME NEW c \in live PROVE SameOn(c)
    BY <1>1, <1>2, <1>3 DEF SameOn, OthersStay, Conn, Returned
  <2> QED BY <2>1, <1>1, EnoughKept
<1>9. AloneFindsOwn'
  BY <1>1, <1>2, AloneKept DEF TypeOK, OthersStay, Returned
<1>10. OwnAck'
  BY <1>2, ResultKept DEF Returned
<1> QED BY <1>4, <1>5, <1>6, <1>7, <1>8, <1>9, <1>10

(* Or it takes the mutex and begins to close. *)
LEMMA DropKeeps ==
    ASSUME PoolInv, NEW s \in Senders, Drop(s)
    PROVE  PoolInv'
<1> USE DEF PoolInv
<1>1. /\ Busy(s) /\ At(s, "drop") /\ HasConn(s) /\ ~At(s, "post")
      /\ lock[Transport(s)] = None /\ lock' = [lock EXCEPT ![Transport(s)] = s]
      /\ UNCHANGED <<pool, open, live, stray, brokerOf, brokerVars, calls>>
  BY DEF Busy, At, HasConn, Drop
<1>2. Moved(s, "close") /\ UNCHANGED result
  BY <1>1, GotoMoves DEF Drop, Goto, PCs
<1>3. Transport(s) \in Transports
  BY <1>1 DEF CallsAreSound
<1> USE DEF brokerVars
<1>4. (TypeOK /\ confirm \in [Conns -> Seq(Verdicts)])'
  BY <1>1, <1>2 DEF TypeOK, CallRecords, Moved
<1>5. CallsAreSound' /\ ConnsSuffice' /\ MessagesOwned'
  BY <1>1, <1>2, MoveKeeps
<1>6. DiallerAlone'
  <2>1. HasMutex(s)'
    BY <1>1, <1>2, <1>3 DEF HasMutex, TypeOK, Moved, SameCall, Transport, At
  <2>2. ASSUME NEW t \in Senders, t # s, UnderMutex(t)' PROVE HasMutex(t)'
    BY <1>1, <1>2, <2>2, OtherDiallersStay DEF Moved
  <2> QED BY <2>1, <2>2 DEF DiallerAlone
<1>7. PoolSound' /\ BeingSetUp' /\ OpenIsPooled'
  <2>1. PoolSound'
    BY <1>1 DEF PoolSound, Used
  <2>2. Apart(s) /\ Conn(s)' = Conn(s)
    BY <1>1, <1>2 DEF Apart, OthersStay, SameCall, At, Conn, Moved
  <2> QED BY <1>1, <2>1, <2>2, ConnsStand
<1>8. EnoughConfirmations'
  <2>1. ASSUME NEW c \in live PROVE SameOn(c)
    BY <1>1, <1>2 DEF SameOn, OthersStay, SameCall, At, Moved
  <2> QED BY <2>1, <1>1, EnoughKept
<1>9. AloneFindsOwn'
  BY <1>1, <1>2, AloneKept DEF TypeOK, OthersStay, Moved
<1>10. OwnAck'
  BY <1>2 DEF OwnAck
<1> QED BY <1>4, <1>5, <1>6, <1>7, <1>8, <1>9, <1>10

(* Close returns: if the call's connection is still in use, it is the      *)
(* pooled one, and it is closed.                                           *)
LEMMA CloseReturnsKeeps ==
    ASSUME PoolInv, NEW s \in Senders, CloseReturns(s)
    PROVE  PoolInv'
<1> USE DEF PoolInv
<1>1. /\ Busy(s) /\ At(s, "close") /\ HasConn(s) /\ ~At(s, "post")
      /\ UNCHANGED <<stray, brokerOf, confirm, tokens, calls>>
  BY DEF Busy, At, HasConn, CloseReturns
<1>2. PICK c : c = pool[Broker(s)]
  OBVIOUS
<1>3. /\ pool' = [pool EXCEPT ![Broker(s)] = None]
      /\ open' = open \ {c} /\ live' = live \ {c}
      /\ sent' = [d \in Conns |-> IF d \in {c} THEN <<>> ELSE sent[d]]
      /\ lock' = [lock EXCEPT ![Transport(s)] = None]
  BY <1>2 DEF CloseReturns, Closing
<1>4. /\ Broker(s) \in Brokers /\ Transport(s) \in Transports
      /\ Conn(s) \in Conns /\ brokerOf[Conn(s)] = Broker(s)
      /\ lock[Transport(s)] = s
  BY <1>1 DEF CallsAreSound, DiallerAlone, UnderMutex, HasMutex, At
<1>5. Returned(s, "transient", None)
  BY <1>1, ReturnIdles DEF CloseReturns
<1>6. (TypeOK /\ confirm \in [Conns -> Seq(Verdicts)])'
  <2>1. sent' \in [Conns -> Seq(Msgs)]
    BY <1>3 DEF TypeOK
  <2>2. pool' \in [Brokers -> Conns \cup {None}] /\ live' \subseteq open' /\ open' \subseteq Conns
    BY <1>3 DEF TypeOK
  <2>3. lock' \in [Transports -> Senders \cup {None}]
    BY <1>3 DEF TypeOK
  <2> QED BY <1>1, <1>5, <2>1, <2>2, <2>3 DEF TypeOK, CallRecords, Results, Returned
<1>7. CallsAreSound' /\ ConnsSuffice' /\ MessagesOwned'
  BY <1>1, <1>3, <1>5, ReturnKeeps
<1>8. DiallerAlone'
  <2>1. ASSUME NEW t \in Senders, t # s, UnderMutex(t)' PROVE HasMutex(t)'
    <3>1. lock[Transport(s)] \in {s, None} /\ OthersStay(s)
      BY <1>4, <1>5 DEF Returned
    <3>2. \A b \in Brokers : b # Broker(s) => pool'[b] = pool[b]
      BY <1>3 DEF TypeOK
    <3> HIDE DEF PoolInv
    <3> QED BY <1>1, <1>3, <2>1, <3>1, <3>2, OtherDiallersStay
  <2> QED BY <1>5, <2>1 DEF DiallerAlone, UnderMutex, Returned
<1>9. PoolSound'
  BY <1>1, <1>3, <1>4 DEF PoolSound, Used, TypeOK
<1>10. BeingSetUp' /\ OpenIsPooled'
  <2>1. Apart(s) /\ ~HasConn(s)'
    BY <1>1, <1>5 DEF Apart, OthersStay, At, HasConn, Returned
  <2>2. ASSUME NEW t \in Senders, At(t, "channel")
        PROVE  /\ Conn(t) # c /\ Conn(t) \in open \ (live \cup stray) /\ Conn(t) \in Conns
               /\ sent[Conn(t)] = <<>> /\ confirm[Conn(t)] = <<>>
    <3>1. Conn(t) \in Conns /\ brokerOf[Conn(t)] = Broker(t)
      BY <2>2 DEF CallsAreSound, Busy, At, HasConn
    <3>2. pool[Broker(t)] = None
      BY <2>2 DEF DiallerAlone, UnderMutex, HasMutex, At
    <3>3. Conn(t) # c
      <4>1. CASE c = None
        BY <3>1, <4>1, NoneIsNeither
      <4>2. CASE c # None
        BY <1>2, <1>4, <3>1, <3>2, <4>2 DEF PoolSound
      <4> QED BY <4>1, <4>2
    <3> QED BY <2>2, <3>1, <3>3 DEF BeingSetUp
  <2>3. BeingSetUp'
    BY <1>1, <1>3, <2>1, <2>2, SetUpKept
  <2>4. ASSUME NEW d \in open' \ stray'
        PROVE  /\ d \in open \ stray
               /\ pool[brokerOf[d]] = d => pool'[brokerOf[d]] = d
    BY <1>1, <1>2, <1>3, <1>4 DEF PoolSound, Used, TypeOK
  <2> QED BY <1>1, <2>1, <2>3, <2>4, PooledKept
<1>11. EnoughConfirmations'
  <2>1. ASSUME NEW d \in live' PROVE d \in live /\ SameOn(d)
    <3>1. d \in live /\ d # c /\ d \in Conns
      BY <1>3 DEF TypeOK
    <3>2. d # Conn(s)
      BY <1>1, <1>2, <3>1, LiveIsPooled
    <3> QED BY <1>1, <1>3, <1>5, <3>1, <3>2 DEF SameOn, OthersStay, Conn, Returned
  <2> QED BY <1>1, <2>1, EnoughKept
<1>12. AloneFindsOwn'
  BY <1>1, <1>3, <1>5, AloneKept DEF TypeOK, OthersStay, Returned
<1>13. OwnAck'
  BY <1>5, ResultKept DEF Returned
<1> QED BY <1>6, <1>7, <1>8, <1>9, <1>10, <1>11, <1>12, <1>13
-----------------------------------------------------------------------------
(***************************************************************************)
(* The brokers and their client libraries.                                 *)
(***************************************************************************)

(* Steps that are no sender's. *)
LEMMA SendersStand ==
    ASSUME PoolInv, UNCHANGED <<sender, brokerOf, calls, result>>
    PROVE  CallsAreSound' /\ ConnsSuffice' /\ OwnAck'
<1> USE DEF PoolInv
<1>1. CallsAreSound' /\ OwnAck'
  BY DEF CallsAreSound, OwnAck, Busy, At, HasConn, Conn, Broker, Transport
<1>2. MayDial' \subseteq MayDial
  BY DEF MayDial
<1> QED BY <1>1, <1>2, DialsKept DEF TypeOK

(* Payloads and verdicts stay with their calls when connections close. *)
LEMMA ClosingKeeps ==
    ASSUME PoolInv, UNCHANGED <<sender, brokerOf, calls, confirm, tokens>>,
           \A c \in Conns : sent'[c] = sent[c] \/ sent'[c] = <<>>,
           live' \subseteq live, \A c \in live' : sent'[c] = sent[c]
    PROVE  MessagesOwned' /\ EnoughConfirmations' /\ AloneFindsOwn'
<1> USE DEF PoolInv
<1>1. MessagesOwned'
  <2>1. sent \in [Conns -> Seq(Msgs)]
    BY DEF TypeOK
  <2> QED BY <2>1 DEF MessagesOwned, Busy, At, Msg, UsesConn, Conn, Broker
<1>2. EnoughConfirmations'
  <2>1. ASSUME NEW c \in live' PROVE SameOn(c)
    BY DEF SameOn
  <2> QED BY <2>1, EnoughKept
<1>3. AloneFindsOwn'
  BY AloneKept DEF TypeOK
<1> QED BY <1>1, <1>2, <1>3

(* A client that was given up connects, outside the pool. *)
LEMMA ConnectsLateKeeps ==
    ASSUME PoolInv, NEW c \in Conns, ConnectsLate(c)
    PROVE  PoolInv'
<1> USE DEF PoolInv, ConnectsLate, brokerVars
<1>1. (TypeOK /\ confirm \in [Conns -> Seq(Verdicts)])'
  BY DEF TypeOK
<1>2. DiallerAlone' /\ PoolSound'
  BY DEF DiallerAlone, UnderMutex, HasMutex, PoolSound, Used, At, Broker, Transport
<1>3. BeingSetUp' /\ OpenIsPooled'
  BY DEF BeingSetUp, OpenIsPooled, At, Conn, HasConn, TypeOK
<1>4. MessagesOwned' /\ EnoughConfirmations' /\ AloneFindsOwn'
  BY ClosingKeeps
<1> QED BY <1>1, <1>2, <1>4, <1>3, SendersStand

(* The broker closes a channel, or the connection with it. *)
LEMMA ChannelLostKeeps ==
    ASSUME PoolInv, NEW c \in Conns, ChannelLost(c)
    PROVE  PoolInv'
<1> USE DEF PoolInv, ChannelLost, Closing
<1>1. (TypeOK /\ confirm \in [Conns -> Seq(Verdicts)])'
  BY DEF TypeOK, PoolSound
<1>2. DiallerAlone' /\ PoolSound'
  BY DEF DiallerAlone, UnderMutex, HasMutex, PoolSound, Used, At, Broker, Transport
<1>3. BeingSetUp' /\ OpenIsPooled'
  BY DEF BeingSetUp, OpenIsPooled, At, Conn, HasConn, TypeOK
<1>4. MessagesOwned' /\ EnoughConfirmations' /\ AloneFindsOwn'
  <2>1. live' \subseteq live /\ \A d \in live' : sent'[d] = sent[d]
    BY DEF TypeOK
  <2> QED BY <2>1, ClosingKeeps
<1> QED BY <1>1, <1>2, <1>4, <1>3, SendersStand

(* closeAll empties the pool and closes what it held. *)
LEMMA CloseAllKeeps ==
    ASSUME PoolInv, CloseAll
    PROVE  PoolInv'
<1> USE DEF PoolInv, CloseAll, Closing
<1>1. (TypeOK /\ confirm \in [Conns -> Seq(Verdicts)])'
  BY DEF TypeOK
<1>2. DiallerAlone'
  BY DEF DiallerAlone, UnderMutex, HasMutex, At
<1>3. PoolSound' /\ BeingSetUp' /\ OpenIsPooled'
  <2>1. PoolSound'
    BY NoneIsNeither DEF PoolSound, Used, TypeOK
  <2>2. \A s \in Senders : ~At(s, "channel") /\ ~At(s, "channel")'
    BY DEF At
  <2>3. BeingSetUp'
    BY <2>2 DEF BeingSetUp
  <2>4. \A c \in open \ stray : brokerOf[c] \in Brokers /\ pool[brokerOf[c]] = c
    BY <2>2 DEF OpenIsPooled, PoolSound, Used, TypeOK
  <2>5. OpenIsPooled'
    BY <2>4 DEF OpenIsPooled
  <2> QED BY <2>1, <2>3, <2>5
<1>4. MessagesOwned' /\ EnoughConfirmations' /\ AloneFindsOwn'
  <2>1. live' \subseteq live /\ \A d \in live' : sent'[d] = sent[d]
    BY DEF TypeOK
  <2> QED BY <2>1, ClosingKeeps
<1> QED BY <1>1, <1>2, <1>3, <1>4, SendersStand

(* The broker decides on the oldest publication of a connection: a         *)
(* confirmation takes its place, or the token of the call that waits.      *)
LEMMA DecideKeeps ==
    ASSUME PoolInv, NEW c \in Conns, NEW ack \in BOOLEAN, Decide(c, ack)
    PROVE  PoolInv'
<1> USE DEF PoolInv
<1>1. c \in live /\ UNCHANGED <<poolVars, sender, calls, result>>
  BY DEF Decide
<1>2. PICK q : q = sent[c]
  OBVIOUS
<1>3. q \in Seq(Msgs) /\ q # <<>>
  BY <1>2 DEF Decide, TypeOK
<1>4. /\ Len(q) \in Nat /\ Len(q) >= 1 /\ Head(q) = q[1] /\ Head(q) \in Msgs
      /\ Tail(q) \in Seq(Msgs) /\ Len(Tail(q)) = Len(q) - 1
      /\ \A i \in 1..Len(Tail(q)) : i + 1 \in 1..Len(q) /\ Tail(q)[i] = q[i + 1]
  BY <1>3
<1>5. sent' = [sent EXCEPT ![c] = Tail(q)]
  BY <1>2 DEF Decide
<1>6. PICK v : v = [msg |-> Head(q), ack |-> ack]
  OBVIOUS
<1>7. v \in Verdicts /\ v.msg = q[1]
  BY <1>4, <1>6 DEF Verdicts
<1>8. \/ /\ brokerOf[c] \in Amqp /\ Len(confirm[c]) # 2
         /\ confirm' = [confirm EXCEPT ![c] = Append(@, v)] /\ UNCHANGED tokens
      \/ /\ brokerOf[c] \notin Amqp /\ UNCHANGED confirm
         /\ tokens' = IF Awaited(v.msg) THEN tokens \cup {v} ELSE tokens
  BY <1>1, <1>2, <1>6 DEF Decide, Stuck
<1>9. PICK w : w = confirm[c]
  OBVIOUS
<1>10. /\ w \in Seq(Verdicts) /\ Len(w) \in Nat /\ Len(w) <= 2
       /\ Append(w, v) \in Seq(Verdicts) /\ Len(Append(w, v)) = Len(w) + 1
       /\ \A i \in 1..Len(Append(w, v)) :
             (i \in 1..Len(w) /\ Append(w, v)[i] = w[i]) \/ Append(w, v)[i] = v
  <2>1. w \in Seq(Verdicts) /\ Len(w) <= 2
    BY <1>9 DEF TypeOK
  <2> QED BY <1>7, <2>1
<1>11. brokerOf[c] \in Amqp => confirm'[c] = Append(w, v) /\ Len(w) # 2
  BY <1>8, <1>9
<1> USE DEF poolVars
<1>12. \A d \in Conns : d # c => sent'[d] = sent[d] /\ confirm'[d] = confirm[d]
  BY <1>5, <1>8 DEF TypeOK
<1>13. (TypeOK /\ confirm \in [Conns -> Seq(Verdicts)])'
  <2>1. sent' \in [Conns -> Seq(Msgs)]
    BY <1>4, <1>5 DEF TypeOK
  <2>2. confirm' \in [Conns -> Seq(Verdicts)]
    <3>1. CASE brokerOf[c] \in Amqp
      <4>1. confirm' = [confirm EXCEPT ![c] = Append(w, v)]
        BY <1>8, <1>9, <3>1
      <4> QED BY <1>10, <4>1
    <3>2. CASE brokerOf[c] \notin Amqp
      BY <1>8, <3>2
    <3> QED BY <3>1, <3>2
  <2>3. \A d \in Conns : Len(confirm'[d]) <= 2
    <3>1. CASE brokerOf[c] \in Amqp
      <4>1. Len(confirm'[c]) <= 2
        <5>1. PICK n : n = Len(w)
          OBVIOUS
        <5>2. n \in Nat /\ n <= 2 /\ n # 2 /\ Len(confirm'[c]) = n + 1
          BY <1>10, <1>11, <3>1, <5>1
        <5> QED BY <5>2
      <4> QED BY <1>12, <4>1 DEF TypeOK
    <3>2. CASE brokerOf[c] \notin Amqp
      BY <1>8, <3>2 DEF TypeOK
    <3> QED BY <3>1, <3>2
  <2>4. tokens' \subseteq Verdicts
    BY <1>7, <1>8 DEF TypeOK
  <2> QED BY <1>1, <2>1, <2>2, <2>3, <2>4 DEF TypeOK
<1>14. DiallerAlone'
  BY <1>1 DEF DiallerAlone, UnderMutex, HasMutex, At, Broker, Transport
<1>15. BeingSetUp' /\ OpenIsPooled'
  <2>1. \A s \in Senders : At(s, "channel") => Conn(s) # c /\ Conn(s) \in Conns
    BY <1>1 DEF BeingSetUp, TypeOK
  <2>2. \A s \in Senders : At(s, "channel") =>
           sent'[Conn(s)] = sent[Conn(s)] /\ confirm'[Conn(s)] = confirm[Conn(s)]
    BY <1>12, <2>1
  <2> QED BY <1>1, <2>2 DEF BeingSetUp, OpenIsPooled, At, Conn, HasConn
<1>16. PoolSound'
  <2>1. c \in Used
    BY <1>1 DEF PoolSound, TypeOK
  <2> QED BY <1>1, <1>12, <2>1 DEF PoolSound, Used
<1>17. MessagesOwned'
  <2>1. ASSUME NEW d \in Conns, NEW i \in 1..Len(sent'[d])
        PROVE  \E j \in 1..Len(sent[d]) : sent'[d][i] = sent[d][j]
    <3>1. CASE d # c
      BY <1>12, <2>1, <3>1
    <3>2. CASE d = c
      <4>1. sent'[d] = Tail(q) /\ sent[d] = q
        BY <1>2, <1>5, <3>2 DEF TypeOK
      <4>2. i + 1 \in 1..Len(q) /\ Tail(q)[i] = q[i + 1]
        BY <1>4, <2>1, <4>1
      <4> QED BY <4>1, <4>2
    <3> QED BY <3>1, <3>2
  <2>2. ASSUME NEW u \in tokens', u \notin tokens
        PROVE  /\ u.msg <= calls
               /\ \A s \in Senders : Busy(s) /\ Msg(s) = u.msg =>
                     sender[s].pc \in {"await", "drop", "close"} /\ Broker(s) \notin Amqp
    <3>1. u = v /\ brokerOf[c] \notin Amqp
      BY <1>8, <2>2
    <3>2. 1 \in 1..Len(sent[c]) /\ u.msg = sent[c][1]
      BY <1>2, <1>4, <1>7, <3>1
    <3>3. ASSUME NEW s \in Senders, Busy(s), Msg(s) = u.msg
          PROVE  sender[s].pc \in {"await", "drop", "close"} /\ Broker(s) \notin Amqp
      <4>1. UsesConn(s, c)
        BY <3>2, <3>3 DEF MessagesOwned
      <4>2. brokerOf[c] = Broker(s)
        BY <3>3, <4>1 DEF CallsAreSound, UsesConn, HasConn
      <4> QED BY <3>1, <4>1, <4>2 DEF UsesConn
    <3> QED BY <3>2, <3>3 DEF MessagesOwned
  <2>3. ASSUME NEW d \in Conns, NEW i \in 1..Len(sent'[d])
        PROVE  /\ sent'[d][i] <= calls
               /\ \A s \in Senders : Busy(s) /\ Msg(s) = sent'[d][i] => UsesConn(s, d)
    <3>1. PICK j \in 1..Len(sent[d]) : sent'[d][i] = sent[d][j]
      BY <2>1
    <3>2. /\ sent[d][j] <= calls
          /\ \A s \in Senders : Busy(s) /\ Msg(s) = sent[d][j] => UsesConn(s, d)
      BY DEF MessagesOwned
    <3> QED BY <3>1, <3>2
  <2>4. \A u \in tokens' :
           /\ u.msg <= calls
           /\ \A s \in Senders : Busy(s) /\ Msg(s) = u.msg =>
                 sender[s].pc \in {"await", "drop", "close"} /\ Broker(s) \notin Amqp
    BY <2>2 DEF MessagesOwned
  <2> QED BY <1>1, <2>3, <2>4 DEF MessagesOwned, Busy, At, Msg, UsesConn, Conn, Broker
<1>18. EnoughConfirmations'
  <2>1. ASSUME NEW d \in live, brokerOf[d] \in Amqp PROVE SameOn(d)
    <3>1. Len(sent'[d]) + Len(confirm'[d]) = Len(sent[d]) + Len(confirm[d])
      <4>1. CASE d = c
        <5>1. Len(sent'[c]) = Len(sent[c]) - 1 /\ Len(sent[c]) \in Nat
          BY <1>2, <1>4, <1>5 DEF TypeOK
        <5>2. Len(confirm'[c]) = Len(confirm[c]) + 1 /\ Len(confirm[c]) \in Nat
          BY <1>9, <1>10, <1>11, <2>1, <4>1
        <5>3. PICK m, n : m = Len(sent[c]) /\ n = Len(confirm[c])
          OBVIOUS
        <5>4. Len(sent'[c]) = m - 1 /\ m \in Nat /\ Len(confirm'[c]) = n + 1 /\ n \in Nat
          BY <5>1, <5>2, <5>3
        <5>5. Len(sent'[c]) + Len(confirm'[c]) = m + n
          BY <5>4
        <5> QED BY <4>1, <5>3, <5>5
      <4>2. CASE d # c
        BY <1>12, <4>2 DEF TypeOK
      <4> QED BY <4>1, <4>2
    <3> QED BY <1>1, <3>1 DEF SameOn
  <2> QED BY <1>1, <2>1, EnoughKept
<1>19. AloneFindsOwn'
  <2> SUFFICES ASSUME NEW s \in Senders, At(s, "await"), Broker(s) \in Amqp, sender[s].alone
               PROVE  /\ \A i \in 1..Len(sent'[Conn(s)]) : sent'[Conn(s)][i] = Msg(s)
                      /\ \A i \in 1..Len(confirm'[Conn(s)]) : confirm'[Conn(s)][i].msg = Msg(s)
    BY <1>1 DEF AloneFindsOwn, At, Broker, Conn, Msg
  <2>1. /\ \A i \in 1..Len(sent[Conn(s)]) : sent[Conn(s)][i] = Msg(s)
        /\ \A i \in 1..Len(confirm[Conn(s)]) : confirm[Conn(s)][i].msg = Msg(s)
    BY DEF AloneFindsOwn
  <2>2. Conn(s) \in Conns /\ brokerOf[Conn(s)] = Broker(s)
    BY DEF CallsAreSound, Busy, At, HasConn
  <2>3. CASE Conn(s) = c
    <3>1. \A i \in 1..Len(sent'[c]) : sent'[c][i] = Msg(s)
      <4>1. sent'[c] = Tail(q)
        BY <1>5 DEF TypeOK
      <4>2. \A i \in 1..Len(q) : q[i] = Msg(s)
        BY <1>2, <2>1, <2>3
      <4> QED BY <1>4, <4>1, <4>2
    <3>2. v.msg = Msg(s)
      BY <1>2, <1>4, <1>7, <2>1, <2>3
    <3>3. \A i \in 1..Len(w) : w[i].msg = Msg(s)
      BY <1>9, <2>1, <2>3
    <3>4. confirm'[c] = Append(w, v)
      BY <1>11, <2>2, <2>3
    <3>5. \A i \in 1..Len(Append(w, v)) : Append(w, v)[i].msg = Msg(s)
      BY <1>10, <3>2, <3>3
    <3> QED BY <2>3, <3>1, <3>4, <3>5
  <2>4. CASE Conn(s) # c
    BY <1>12, <2>1, <2>2, <2>4
  <2> QED BY <2>3, <2>4
<1> QED BY <1>1, <1>13, <1>14, <1>16, <1>17, <1>18, <1>19, <1>15, SendersStand

(* Nothing happens. *)
LEMMA PoolStutterKeeps == ASSUME PoolInv, UNCHANGED vars PROVE PoolInv'
<1> USE DEF PoolInv, vars, poolVars, brokerVars
<1>1. (TypeOK /\ confirm \in [Conns -> Seq(Verdicts)])'
  BY DEF TypeOK
<1>2. DiallerAlone' /\ PoolSound'
  BY DEF DiallerAlone, UnderMutex, HasMutex, PoolSound, Used, At, Broker, Transport
<1>3. BeingSetUp' /\ OpenIsPooled'
  BY DEF BeingSetUp, OpenIsPooled, At, Conn, HasConn, TypeOK
<1>4. MessagesOwned' /\ EnoughConfirmations' /\ AloneFindsOwn'
  BY ClosingKeeps
<1> QED BY <1>1, <1>2, <1>4, <1>3, SendersStand

(* Every step of a sender, a broker or a library keeps the invariant. *)
LEMMA PoolNextKeeps == ASSUME PoolInv, [Next]_vars PROVE PoolInv'
<1>1. ASSUME NEW s \in Senders, SendStep(s) PROVE PoolInv'
  BY <1>1, PostKeeps, GetPooledKeeps, DialKeeps, DialSucceedsKeeps, DialFailsKeeps,
     ConnectSucceedsKeeps, ConnectTimesOutKeeps, OpenChannelKeeps, ChannelFailsKeeps,
     PublishKeeps, DeadConnKeeps, ConfirmedKeeps, TokenDoneKeeps, TimeoutKeeps,
     NothingToDropKeeps, DropKeeps, CloseReturnsKeeps DEF SendStep
<1>2. ASSUME NEW s \in Senders, NEW u \in Targets, Call(s, u) PROVE PoolInv'
  BY <1>2, CallKeeps
<1>3. ASSUME NEW c \in Conns,
             ConnectsLate(c) \/ ChannelLost(c) \/ \E ack \in BOOLEAN : Decide(c, ack)
      PROVE  PoolInv'
  BY <1>3, ConnectsLateKeeps, ChannelLostKeeps, DecideKeeps
<1> QED BY <1>1, <1>2, <1>3, CloseAllKeeps, PoolStutterKeeps DEF Next

(* The invariant of the pool, in every behaviour. *)
LEMMA PoolInvariant == Spec => []PoolInv
<1>1. Init => PoolInv
  BY PoolStarts
<1>2. PoolInv /\ [Next]_vars => PoolInv'
  BY PoolNextKeeps
<1> QED BY <1>1, <1>2, PTL DEF Spec

(* Every variable has its type: a call that dials always finds an unused   *)
(* connection, and behind a confirmation channel's one entry never waits   *)
(* more than one other.                                                    *)
THEOREM PoolTypeCorrect == Spec => []TypeOK
<1>1. PoolInv => TypeOK
  BY DEF PoolInv
<1> QED BY <1>1, PoolInvariant, PTL

(* No connection that a Send could use leaves the pool without being       *)
(* closed, however many senders share it.                                  *)
THEOREM OpenConnectionsArePooled == Spec => []OpenIsPooled
<1>1. PoolInv => OpenIsPooled
  BY DEF PoolInv
<1> QED BY <1>1, PoolInvariant, PTL

(* Whoever waits on an open AMQP connection has a confirmation to come.    *)
THEOREM ConfirmationsSuffice == Spec => []EnoughConfirmations
<1>1. PoolInv => EnoughConfirmations
  BY DEF PoolInv
<1> QED BY <1>1, PoolInvariant, PTL

(* DeliveryOK rests on the broker's verdict on the call's own payload,     *)
(* over MQTT always and over AMQP for a Send that nobody overlapped.       *)
THEOREM AcksAreOwn == Spec => []OwnAck
<1>1. PoolInv => OwnAck
  BY DEF PoolInv
<1> QED BY <1>1, PoolInvariant, PTL
-----------------------------------------------------------------------------
(***************************************************************************)
(* The elector.                                                            *)
(***************************************************************************)

(* Acquire: from its connection to its release a node has a session. *)
OwnSession == \A p \in Nodes : pc[p] # "out" => conn[p] \in Sessions /\ owner[conn[p]] = p

(* Only a leader's elector holds a session: the leader's. *)
HeldByLeader == \A p \in Nodes : held[p] # Nil => pc[p] = "lead" /\ held[p] = conn[p]

(* A live context is that of the session held. *)
LiveIsHeld == \A c \in leading : owner[c] \in Nodes /\ held[owner[c]] = c

(* A session in the hands of Release is held no more, and its node has not *)
(* acquired again: it waits, or its heartbeat releases because it ends.    *)
ClosingIsTaken ==
    \A c \in closing :
        /\ owner[c] \in Nodes
        /\ conn[owner[c]] = c
        /\ held[owner[c]] = Nil
        /\ pc[owner[c]] = "release" \/ (pc[owner[c]] \in {"lead", "out"} /\ owner[c] \in parentDone)

(* Between the lock and the leader context. *)
LockedHoldsLock ==
    \A p \in Nodes :
        pc[p] \in {"granted", "locked"} /\ conn[p] \in kept => advisoryLock = conn[p]

(* The inductive invariant of the elector. *)
ElectorInv ==
    /\ ElectionTypeOK
    /\ OwnSession
    /\ HeldByLeader
    /\ LiveIsHeld
    /\ ClosingIsTaken
    /\ LockedHoldsLock
    /\ LeaderHoldsLock
-----------------------------------------------------------------------------
(* Nil is no session. *)
LEMMA NilIsNoSession == Nil \notin Sessions
BY SessionsAssumption DEF Sessions

(* Nobody holds anything at first. *)
LEMMA ElectorStarts == ASSUME ElectionInit PROVE ElectorInv
BY DEF ElectionInit, ElectorInv, ElectionTypeOK, OwnSession, HeldByLeader, LiveIsHeld,
       ClosingIsTaken, LockedHoldsLock, LeaderHoldsLock

(* Acquire opens a session nobody had. *)
LEMMA ConnectKeeps ==
    ASSUME ElectorInv, NEW p \in Nodes, Connect(p)
    PROVE  ElectorInv'
<1> USE SessionsAssumption, NilIsNoSession DEF ElectorInv, Connect, electorVars
<1>1. PICK c \in FreshSession : /\ owner' = [owner EXCEPT ![c] = p]
                                /\ conn' = [conn EXCEPT ![p] = c]
                                /\ usable' = usable \cup {c}
                                /\ kept' = kept \cup {c}
  OBVIOUS
<1>2. c \in Sessions /\ owner[c] = Nil
  BY DEF FreshSession
<1>3. ElectionTypeOK'
  BY <1>1, <1>2 DEF ElectionTypeOK
<1>4. OwnSession'
  BY <1>1, <1>2 DEF ElectionTypeOK, OwnSession
<1>5. HeldByLeader'
  BY <1>1, <1>2 DEF ElectionTypeOK, HeldByLeader
<1>6. LiveIsHeld'
  BY <1>1, <1>2 DEF ElectionTypeOK, LiveIsHeld
<1>7. ClosingIsTaken'
  BY <1>1, <1>2 DEF ElectionTypeOK, ClosingIsTaken
<1>8. LockedHoldsLock'
  BY <1>1, <1>2 DEF ElectionTypeOK, LockedHoldsLock, OwnSession
<1>9. LeaderHoldsLock'
  BY <1>1, <1>2 DEF ElectionTypeOK, LeaderHoldsLock, LiveIsHeld
<1> QED BY <1>3, <1>4, <1>5, <1>6, <1>7, <1>8, <1>9

(* The lock was free, so no context was live on a session the server kept. *)
LEMMA TryLockKeeps ==
    ASSUME ElectorInv, NEW p \in Nodes, TryLock(p)
    PROVE  ElectorInv'
<1> USE NilIsNoSession DEF ElectorInv, TryLock, electorVars
<1>1. conn[p] \in Sessions
  BY DEF OwnSession
<1>2. ElectionTypeOK'
  BY <1>1 DEF ElectionTypeOK
<1>3. OwnSession' /\ HeldByLeader' /\ LiveIsHeld' /\ ClosingIsTaken'
  BY <1>1 DEF ElectionTypeOK, OwnSession, HeldByLeader, LiveIsHeld, ClosingIsTaken
<1>4. \A q \in Nodes : pc[q] \in {"granted", "locked"} => conn[q] \notin kept
  BY DEF OwnSession, LockedHoldsLock
<1>5. LockedHoldsLock'
  BY <1>4 DEF ElectionTypeOK, LockedHoldsLock
<1>6. \A c \in leading : c \notin kept
  BY DEF ElectionTypeOK, LeaderHoldsLock
<1>7. LeaderHoldsLock'
  BY <1>6 DEF LeaderHoldsLock
<1> QED BY <1>2, <1>3, <1>5, <1>7

(* The answer changes nothing but the node's mind. *)
LEMMA GrantedKeeps ==
    ASSUME ElectorInv, NEW p \in Nodes, Granted(p)
    PROVE  ElectorInv'
<1> USE NilIsNoSession DEF ElectorInv, Granted, electorVars, serverVars
<1>1. ElectionTypeOK'
  BY DEF ElectionTypeOK
<1>2. OwnSession' /\ HeldByLeader' /\ LiveIsHeld' /\ ClosingIsTaken'
  BY DEF ElectionTypeOK, OwnSession, HeldByLeader, LiveIsHeld, ClosingIsTaken
<1>3. LockedHoldsLock' /\ LeaderHoldsLock'
  BY DEF ElectionTypeOK, LockedHoldsLock, LeaderHoldsLock
<1> QED BY <1>1, <1>2, <1>3

(* A failed Acquire gives up a session that was never held, perhaps with   *)
(* the lock.                                                               *)
LEMMA AcquireFailsKeeps ==
    ASSUME ElectorInv, NEW p \in Nodes, AcquireFails(p)
    PROVE  ElectorInv'
<1> USE NilIsNoSession DEF ElectorInv, AcquireFails, CloseConn, electorVars
<1>1. ElectionTypeOK'
  BY DEF ElectionTypeOK, OwnSession
<1>2. OwnSession' /\ HeldByLeader' /\ LiveIsHeld' /\ ClosingIsTaken'
  BY DEF ElectionTypeOK, OwnSession, HeldByLeader, LiveIsHeld, ClosingIsTaken
<1>3. LockedHoldsLock' /\ LeaderHoldsLock'
  BY DEF ElectionTypeOK, LockedHoldsLock, LeaderHoldsLock
<1> QED BY <1>1, <1>2, <1>3

(* The context becomes live with the lock taken just before. *)
LEMMA LeadKeeps ==
    ASSUME ElectorInv, NEW p \in Nodes, Lead(p)
    PROVE  ElectorInv'
<1> USE NilIsNoSession DEF ElectorInv, Lead, serverVars
<1>1. conn[p] \in Sessions /\ owner[conn[p]] = p
  BY DEF OwnSession
<1>2. ElectionTypeOK'
  BY <1>1 DEF ElectionTypeOK
<1>3. OwnSession' /\ HeldByLeader'
  BY <1>1 DEF ElectionTypeOK, OwnSession, HeldByLeader
<1>4. LiveIsHeld'
  <2>1. \A c \in leading : owner[c] # p
    BY DEF LiveIsHeld, HeldByLeader, ElectionTypeOK
  <2> QED BY <1>1, <2>1 DEF ElectionTypeOK, LiveIsHeld
<1>5. ClosingIsTaken'
  BY <1>1 DEF ElectionTypeOK, ClosingIsTaken
<1>6. LockedHoldsLock'
  BY <1>1 DEF ElectionTypeOK, LockedHoldsLock
<1>7. LeaderHoldsLock'
  BY <1>1 DEF ElectionTypeOK, LeaderHoldsLock, LockedHoldsLock
<1> QED BY <1>2, <1>3, <1>4, <1>5, <1>6, <1>7
-----------------------------------------------------------------------------
(* Taking the session ends its context in the same critical section. *)
LEMMA TakeKeeps ==
    ASSUME ElectorInv, NEW p \in Nodes, Take(p),
           UNCHANGED <<conn, parentDone, serverVars>>,
           pc[p] = "lead" \/ p \in parentDone,
           \/ pc' = pc
           \/ /\ pc[p] = "lead"
              /\ pc' = [pc EXCEPT ![p] = IF held[p] = Nil THEN "out" ELSE "release"],
           beat' \in [Sessions -> {"none", "wait", "lost", "ended"}]
    PROVE  /\ ElectionTypeOK' /\ OwnSession' /\ HeldByLeader' /\ LiveIsHeld'
           /\ LockedHoldsLock' /\ LeaderHoldsLock'
<1> USE NilIsNoSession DEF ElectorInv, Take, serverVars
<1>1. ElectionTypeOK'
  BY DEF ElectionTypeOK
<1>2. OwnSession' /\ HeldByLeader'
  BY DEF ElectionTypeOK, OwnSession, HeldByLeader
<1>3. LiveIsHeld'
  BY DEF ElectionTypeOK, LiveIsHeld
<1>4. LockedHoldsLock' /\ LeaderHoldsLock'
  BY DEF ElectionTypeOK, LockedHoldsLock, LeaderHoldsLock
<1> QED BY <1>1, <1>2, <1>3, <1>4

(* Release of the caller. *)
LEMMA ReleaseKeeps ==
    ASSUME ElectorInv, NEW p \in Nodes, Release(p)
    PROVE  ElectorInv'
<1> USE NilIsNoSession DEF ElectorInv
<1>1. beat' \in [Sessions -> {"none", "wait", "lost", "ended"}]
  BY DEF Release, ElectionTypeOK
<1>2. /\ ElectionTypeOK' /\ OwnSession' /\ HeldByLeader' /\ LiveIsHeld'
      /\ LockedHoldsLock' /\ LeaderHoldsLock'
  BY <1>1, TakeKeeps DEF Release
<1>3. ClosingIsTaken'
  <2> SUFFICES ASSUME NEW c \in closing'
               PROVE  /\ owner[c] \in Nodes
                      /\ conn[owner[c]] = c
                      /\ held'[owner[c]] = Nil
                      /\ \/ pc'[owner[c]] = "release"
                         \/ pc'[owner[c]] \in {"lead", "out"} /\ owner[c] \in parentDone
    BY DEF ClosingIsTaken, Release, serverVars
  <2>1. CASE c \in closing
    <3>1. /\ owner[c] \in Nodes /\ conn[owner[c]] = c /\ held[owner[c]] = Nil
          /\ \/ pc[owner[c]] = "release"
             \/ pc[owner[c]] \in {"lead", "out"} /\ owner[c] \in parentDone
      BY <2>1 DEF ClosingIsTaken
    <3>2. CASE owner[c] # p
      BY <3>1, <3>2 DEF Release, Take, ElectionTypeOK
    <3>3. CASE owner[c] = p
      BY <3>1, <3>3 DEF Release, Take, ElectionTypeOK
    <3> QED BY <3>2, <3>3
  <2>2. CASE c = held[p] /\ held[p] # Nil
    BY <2>2 DEF HeldByLeader, OwnSession, Release, Take, ElectionTypeOK
  <2> QED BY <2>1, <2>2 DEF Release, Take
<1> QED BY <1>2, <1>3

(* Release of a heartbeat whose node shuts down. *)
LEMMA HeartbeatReleasesKeeps ==
    ASSUME ElectorInv, NEW d \in Sessions,
           HeartbeatReleases(d)
    PROVE  ElectorInv'
<1> USE NilIsNoSession DEF ElectorInv
<1> DEFINE p == owner[d]
<1>1. p \in Nodes /\ p \in parentDone
  BY DEF HeartbeatReleases, ElectionTypeOK
<1>2. beat' \in [Sessions -> {"none", "wait", "lost", "ended"}]
  BY DEF HeartbeatReleases, ElectionTypeOK
<1>3. Take(p) /\ UNCHANGED <<pc, conn, parentDone, serverVars>>
  BY DEF HeartbeatReleases
<1> HIDE DEF p
<1>4. /\ ElectionTypeOK' /\ OwnSession' /\ HeldByLeader' /\ LiveIsHeld'
      /\ LockedHoldsLock' /\ LeaderHoldsLock'
  BY <1>1, <1>2, <1>3, TakeKeeps
<1>5. ClosingIsTaken'
  <2> SUFFICES ASSUME NEW c \in closing'
               PROVE  /\ owner[c] \in Nodes
                      /\ conn[owner[c]] = c
                      /\ held'[owner[c]] = Nil
                      /\ \/ pc[owner[c]] = "release"
                         \/ pc[owner[c]] \in {"lead", "out"} /\ owner[c] \in parentDone
    BY <1>3 DEF ClosingIsTaken, serverVars
  <2>1. CASE c \in closing
    BY <1>1, <1>3, <2>1 DEF ClosingIsTaken, Take, ElectionTypeOK
  <2>2. CASE c = held[p] /\ held[p] # Nil
    BY <1>1, <1>3, <2>2 DEF HeldByLeader, OwnSession, Take, ElectionTypeOK
  <2> QED BY <1>3, <2>1, <2>2 DEF Take
<1> QED BY <1>4, <1>5

(* The unlock concerns a session whose context has ended. *)
LEMMA CloseKeeps ==
    ASSUME ElectorInv, NEW c \in Sessions, Close(c)
    PROVE  ElectorInv'
<1> USE NilIsNoSession DEF ElectorInv, Close, CloseConn, Unlocked
<1>1. ElectionTypeOK'
  BY DEF ElectionTypeOK
<1>2. OwnSession' /\ HeldByLeader' /\ LiveIsHeld' /\ ClosingIsTaken'
  BY DEF OwnSession, HeldByLeader, LiveIsHeld, ClosingIsTaken
<1>3. LockedHoldsLock'
  BY DEF LockedHoldsLock, ClosingIsTaken, OwnSession
<1>4. LeaderHoldsLock'
  BY DEF LeaderHoldsLock, ClosingIsTaken, LiveIsHeld, ElectionTypeOK
<1> QED BY <1>1, <1>2, <1>3, <1>4

(* Release returns when its session is closed. *)
LEMMA ReleaseReturnsKeeps ==
    ASSUME ElectorInv, NEW p \in Nodes, ReleaseReturns(p)
    PROVE  ElectorInv'
<1> USE NilIsNoSession DEF ElectorInv, ReleaseReturns, electorVars, serverVars
<1>1. ElectionTypeOK'
  BY DEF ElectionTypeOK
<1>2. OwnSession' /\ HeldByLeader' /\ LiveIsHeld' /\ ClosingIsTaken'
  BY DEF ElectionTypeOK, OwnSession, HeldByLeader, LiveIsHeld, ClosingIsTaken
<1>3. LockedHoldsLock' /\ LeaderHoldsLock'
  BY DEF ElectionTypeOK, LockedHoldsLock, LeaderHoldsLock
<1> QED BY <1>1, <1>2, <1>3
-----------------------------------------------------------------------------
(* Heartbeats that end, fail or cancel only ever end contexts. *)
LEMMA HeartbeatKeeps ==
    ASSUME ElectorInv, NEW c \in Sessions,
           HeartbeatEnds(c) \/ PingFails(c) \/ HeartbeatCancels(c)
    PROVE  ElectorInv'
<1> USE NilIsNoSession DEF ElectorInv, HeartbeatEnds, PingFails, HeartbeatCancels,
                 serverVars
<1>1. /\ leading' \subseteq leading
      /\ UNCHANGED <<pc, conn, parentDone, held, cancel, closing, serverVars>>
  BY DEF serverVars
<1>2. beat' \in [Sessions -> {"none", "wait", "lost", "ended"}]
  BY DEF ElectionTypeOK
<1>3. ElectionTypeOK'
  BY <1>1, <1>2 DEF ElectionTypeOK
<1>4. OwnSession' /\ HeldByLeader' /\ LiveIsHeld' /\ ClosingIsTaken'
  BY <1>1 DEF OwnSession, HeldByLeader, LiveIsHeld, ClosingIsTaken
<1>5. LockedHoldsLock' /\ LeaderHoldsLock'
  BY <1>1 DEF LockedHoldsLock, LeaderHoldsLock
<1> QED BY <1>3, <1>4, <1>5

(* A shutdown ends contexts. *)
LEMMA ParentCancelledKeeps ==
    ASSUME ElectorInv, NEW p \in Nodes, ParentCancelled(p)
    PROVE  ElectorInv'
<1> USE NilIsNoSession DEF ElectorInv, ParentCancelled, serverVars
<1>1. ElectionTypeOK'
  BY DEF ElectionTypeOK
<1>2. OwnSession' /\ HeldByLeader' /\ LiveIsHeld' /\ ClosingIsTaken'
  BY DEF OwnSession, HeldByLeader, LiveIsHeld, ClosingIsTaken
<1>3. LockedHoldsLock' /\ LeaderHoldsLock'
  BY DEF LockedHoldsLock, LeaderHoldsLock
<1> QED BY <1>1, <1>2, <1>3

(* A session that ends takes its lock along, and nobody else's. *)
LEMMA FaultKeeps ==
    ASSUME ElectorInv, NEW c \in Sessions,
           NetworkLost(c) \/ ServerEnds(c)
    PROVE  ElectorInv'
<1> USE NilIsNoSession DEF ElectorInv, NetworkLost, ServerEnds, electorVars
<1>1. ElectionTypeOK'
  BY DEF ElectionTypeOK, Works, Unlocked
<1>2. OwnSession' /\ HeldByLeader' /\ LiveIsHeld' /\ ClosingIsTaken'
  BY DEF OwnSession, HeldByLeader, LiveIsHeld, ClosingIsTaken
<1>3. LockedHoldsLock' /\ LeaderHoldsLock'
  BY DEF LockedHoldsLock, LeaderHoldsLock, Unlocked
<1> QED BY <1>1, <1>2, <1>3

(* Every step of the elector keeps its invariant. *)
LEMMA ElectorNextKeeps ==
    ASSUME ElectorInv, [ElectionNext]_(electionVars)
    PROVE  ElectorInv'
<1>1. CASE UNCHANGED electionVars
  BY <1>1 DEF electionVars, electorVars, serverVars, ElectorInv, ElectionTypeOK,
              OwnSession, HeldByLeader, LiveIsHeld, ClosingIsTaken, LockedHoldsLock,
              LeaderHoldsLock
<1>2. CASE \E p \in Nodes : Connect(p) \/ NodeStep(p) \/ ParentCancelled(p)
  BY <1>2, ConnectKeeps, TryLockKeeps, GrantedKeeps, AcquireFailsKeeps, LeadKeeps,
     ReleaseKeeps, ReleaseReturnsKeeps, ParentCancelledKeeps DEF NodeStep
<1>3. CASE \E c \in Sessions : \/ HeartbeatStep(c) \/ Close(c)
                                       \/ NetworkLost(c) \/ ServerEnds(c)
  BY <1>3, HeartbeatKeeps, HeartbeatReleasesKeeps, CloseKeeps, FaultKeeps DEF HeartbeatStep
<1> QED BY <1>1, <1>2, <1>3 DEF ElectionNext

(* The elector's invariant holds in every reachable state. *)
LEMMA ElectorInvariant == ElectionSpec => []ElectorInv
<1>1. ElectionInit => ElectorInv
  BY ElectorStarts
<1>2. ElectorInv /\ [ElectionNext]_(electionVars) => ElectorInv'
  BY ElectorNextKeeps
<1> QED BY <1>1, <1>2, PTL DEF ElectionSpec

(* Every variable keeps its type, and held and cancel are set and cleared  *)
(* together in Acquire and Release.                                        *)
THEOREM ElectorTypeCorrect ==
    ElectionSpec => []ElectionTypeOK
<1>1. ElectorInv => ElectionTypeOK
  BY DEF ElectorInv
<1> QED BY <1>1, ElectorInvariant, PTL

(* Acquire, Release and heartbeat: a context is live only with the lock,   *)
(* or after the server has ended its session.                              *)
THEOREM LeadersHoldLock ==
    ElectionSpec => []LeaderHoldsLock
<1>1. ElectorInv => LeaderHoldsLock
  BY DEF ElectorInv
<1> QED BY <1>1, ElectorInvariant, PTL

(* Two leaders at once need a session that the server has ended and whose  *)
(* heartbeat has not failed yet.                                           *)
OneLeader == \A c, d \in leading \cap kept : c = d

(* Hence Acquire never makes two leaders while the server keeps both their *)
(* sessions.                                                               *)
THEOREM AtMostOneLeader == ElectionSpec => []OneLeader
<1>1. LeaderHoldsLock => OneLeader
  BY DEF LeaderHoldsLock, OneLeader
<1> QED BY <1>1, LeadersHoldLock, PTL
-----------------------------------------------------------------------------
(***************************************************************************)
(* The terminal client's link.                                             *)
(***************************************************************************)

(* The goroutine in charge is that of the last dial, no later one was      *)
(* used, and the model knows whether it pumps or dials.                    *)
LastDialDrives ==
    /\ InCharge(dialled)
    /\ \A j \in Dials : InCharge(j) => j = dialled
    /\ IF reconnecting THEN life[dialled] \in {"dialling", "failedMsg", "connectedMsg"}
                       ELSE life[dialled] \in {"pumping", "lostMsg"} /\ cli = dialled

(* The last dial has come to nothing, or will when its pump reads. *)
Down ==
    \/ life[dialled] \in {"lostMsg", "failedMsg"}
    \/ life[dialled] \in {"connectedMsg", "pumping"} /\ dialled \notin alive

(* Every dial but the first follows a fault of its own; attempts and the   *)
(* joins of reconnects are no more than the dials.                         *)
DialsPaid ==
    /\ dialled <= faults + 1
    /\ Down => dialled <= faults
    /\ wait.attempt < dialled
    /\ reconnectN < dialled
    /\ joins + 1 <= dialled
    /\ reconnecting => joins + 2 <= dialled

(* The inductive invariant of the client's link. *)
TerminalInv == ClientTypeOK /\ LastDialDrives /\ DialsPaid
-----------------------------------------------------------------------------
(* backoffFor is never above 30 seconds. *)
LEMMA BackoffBounded == ASSUME NEW n \in Nat PROVE backoffFor(n) \in 0..30
<1>1. CASE n >= 5
  BY <1>1 DEF backoffFor
<1>2. CASE n < 5
  <2>1. n = 0 \/ n = 1 \/ n = 2 \/ n = 3 \/ n = 4
    BY <1>2
  <2>2. 2^n \in 0..30
    <3>0. CASE n = 0 BY <3>0
    <3>1. CASE n = 1 BY <3>1
    <3>2. CASE n = 2 BY <3>2
    <3>3. CASE n = 3 BY <3>3
    <3>4. CASE n = 4 BY <3>4
    <3> QED BY <2>1, <3>0, <3>1, <3>2, <3>3, <3>4
  <2> QED BY <1>2, <2>2 DEF backoffFor
<1> QED BY <1>1, <1>2

(* The program starts on a connection. *)
LEMMA TerminalStarts == ASSUME ClientInit PROVE TerminalInv
<1> USE BoundsAssumption DEF ClientInit, Dials
<1>1. life \in [Dials -> Lives] /\ alive \subseteq Dials
  BY DEF Lives
<1>2. served \in Rosters /\ members \in Rosters
  <2>1. PICK h \in SUBSET Accounts : served = [here |-> h, paused |-> {}]
    OBVIOUS
  <2> QED BY <2>1 DEF Rosters, NoRoster
<1>3. wait \in [delay : 0..30, attempt : 0..(MaxFaults + 1)] /\ replies \in Seq(Frames)
  OBVIOUS
<1>4. <<faults, changes, pressed>> \in (0..MaxFaults) \X (0..MaxChanges) \X (0..MaxVerbs)
  OBVIOUS
<1>5. ClientTypeOK
  BY <1>1, <1>2, <1>3, <1>4 DEF ClientTypeOK
<1>6. LastDialDrives /\ DialsPaid
  BY DEF LastDialDrives, DialsPaid, Down, InCharge
<1> QED BY <1>5, <1>6 DEF TerminalInv

(* A connection ends. *)
LEMMA BreakKeeps ==
    ASSUME TerminalInv, NEW i \in Dials, Break(i)
    PROVE  TerminalInv'
<1> USE BoundsAssumption DEF Break, Fault, TerminalInv, opVars
<1>1. ClientTypeOK'
  BY DEF ClientTypeOK
<1>2. LastDialDrives'
  BY DEF LastDialDrives, InCharge
<1>3. DialsPaid'
  BY DEF ClientTypeOK, DialsPaid, Down, Dials
<1> QED BY <1>1, <1>2, <1>3

(* Only the pump in charge can end. *)
LEMMA PumpEndsKeeps ==
    ASSUME TerminalInv, NEW i \in Dials, PumpEnds(i)
    PROVE  TerminalInv'
<1> USE DEF PumpEnds, PumpReturns, TerminalInv, opVars
<1>1. ClientTypeOK'
  BY DEF ClientTypeOK, Lives
<1>2. LastDialDrives'
  BY DEF ClientTypeOK, LastDialDrives, InCharge
<1>3. DialsPaid'
  BY DEF ClientTypeOK, LastDialDrives, DialsPaid, Down, InCharge
<1> QED BY <1>1, <1>2, <1>3

(* A frame that cannot be read costs a fault as a broken connection does. *)
LEMMA DecodeFailsKeeps ==
    ASSUME TerminalInv, NEW i \in Dials, DecodeFails(i)
    PROVE  TerminalInv'
<1> USE BoundsAssumption DEF DecodeFails, Fault, PumpReturns,
            TerminalInv, opVars
<1>1. ClientTypeOK'
  BY DEF ClientTypeOK, Lives
<1>2. LastDialDrives'
  BY DEF ClientTypeOK, LastDialDrives, InCharge
<1>3. DialsPaid'
  BY DEF ClientTypeOK, LastDialDrives, DialsPaid, Down, InCharge, Dials
<1> QED BY <1>1, <1>2, <1>3

(* disconnectMsg: the pump in charge hands over to a dial nobody has used. *)
LEMMA DisconnectedKeeps ==
    ASSUME TerminalInv, NEW i \in Dials,
           Disconnected(i)
    PROVE  TerminalInv'
<1> USE BoundsAssumption DEF TerminalInv, Disconnected,
            scheduleReconnect, Dials
<1>1. i = dialled /\ ~reconnecting
  BY DEF LastDialDrives, InCharge
<1>2. dialled <= faults /\ dialled + 1 \in Dials
  BY <1>1 DEF DialsPaid, Down, ClientTypeOK
<1>3. life' = [life EXCEPT ![i] = "over", ![dialled + 1] = "dialling"]
  BY <1>1
<1>4. ClientTypeOK'
  <2>1. life' \in [Dials -> Lives]
    BY <1>3 DEF ClientTypeOK, Lives
  <2>2. /\ wait' \in [delay : 0..30, attempt : 0..(MaxFaults + 1)]
        /\ reconnectN' \in 0..(MaxFaults + 1)
    BY <1>1
  <2> QED BY <1>1, <1>2, <2>1, <2>2 DEF ClientTypeOK, opVars
<1>5. LastDialDrives'
  BY <1>1, <1>2, <1>3 DEF LastDialDrives, InCharge, ClientTypeOK
<1>6. DialsPaid'
  BY <1>1, <1>2, <1>3 DEF DialsPaid, Down, ClientTypeOK
<1> QED BY <1>4, <1>5, <1>6

(* A failed dial is a fault. *)
LEMMA RedialFailsKeeps ==
    ASSUME TerminalInv, NEW i \in Dials, RedialFails(i)
    PROVE  TerminalInv'
<1> USE BoundsAssumption DEF RedialFails, Fault, TerminalInv,
            opVars
<1>1. ClientTypeOK'
  BY DEF ClientTypeOK, Lives
<1>2. LastDialDrives'
  BY DEF ClientTypeOK, LastDialDrives, InCharge
<1>3. DialsPaid'
  BY DEF ClientTypeOK, LastDialDrives, DialsPaid, Down, InCharge, Dials
<1> QED BY <1>1, <1>2, <1>3

(* A dial that succeeds is that of the goroutine in charge. *)
LEMMA RedialSucceedsKeeps ==
    ASSUME TerminalInv, NEW i \in Dials,
           RedialSucceeds(i)
    PROVE  TerminalInv'
<1> USE BoundsAssumption DEF RedialSucceeds, TerminalInv, opVars
<1>1. ClientTypeOK'
  BY DEF ClientTypeOK, Lives
<1>2. LastDialDrives'
  BY DEF ClientTypeOK, LastDialDrives, InCharge
<1>3. DialsPaid'
  BY DEF ClientTypeOK, LastDialDrives, DialsPaid, Down, InCharge, Dials
<1> QED BY <1>1, <1>2, <1>3

(* reconnectFailedMsg: one more attempt, on one more dial. *)
LEMMA ReconnectFailedKeeps ==
    ASSUME TerminalInv, NEW i \in Dials,
           ReconnectFailed(i)
    PROVE  TerminalInv'
<1> USE BoundsAssumption DEF TerminalInv, ReconnectFailed,
            scheduleReconnect, Dials
<1>1. i = dialled /\ reconnecting
  BY DEF LastDialDrives, InCharge
<1>2. dialled <= faults /\ dialled + 1 \in Dials
  BY <1>1 DEF DialsPaid, Down, ClientTypeOK
<1>3. wait.attempt \in Nat /\ wait.attempt < dialled
  BY DEF DialsPaid, ClientTypeOK
<1>4. backoffFor(wait.attempt) \in 0..30
  BY <1>3, BackoffBounded
<1>5. PICK n : n = wait.attempt
  OBVIOUS
<1>6. /\ n \in Nat /\ n + 1 < dialled + 1 /\ n + 1 \in 0..(MaxFaults + 1)
      /\ wait' = [delay |-> backoffFor(n), attempt |-> n + 1] /\ reconnectN' = n + 1
  <2>1. n \in Nat /\ n < dialled /\ dialled \in 1..(MaxFaults + 1)
    BY <1>3, <1>5 DEF ClientTypeOK
  <2>2. wait' = [delay |-> backoffFor(n), attempt |-> n + 1] /\ reconnectN' = n + 1
    BY <1>5
  <2> HIDE DEF ReconnectFailed, TerminalInv
  <2> QED BY <2>1, <2>2
<1>7. ClientTypeOK'
  <2>1. life' \in [Dials -> Lives]
    BY DEF ClientTypeOK, Lives
  <2>2. /\ wait' \in [delay : 0..30, attempt : 0..(MaxFaults + 1)]
        /\ reconnectN' \in 0..(MaxFaults + 1)
    BY <1>4, <1>5, <1>6
  <2> QED BY <1>1, <1>2, <2>1, <2>2 DEF ClientTypeOK, opVars
<1>8. LastDialDrives'
  BY <1>1, <1>2 DEF LastDialDrives, InCharge, ClientTypeOK
<1>9. DialsPaid'
  <2>1. dialled' = dialled + 1 /\ joins' = joins /\ faults' = faults /\ reconnecting' = reconnecting
    OBVIOUS
  <2>2. ~Down'
    BY <1>2, <2>1 DEF Down, ClientTypeOK
  <2>3. wait'.attempt < dialled' /\ reconnectN' < dialled'
    BY <1>6, <2>1
  <2> QED BY <1>1, <1>2, <2>1, <2>2, <2>3 DEF DialsPaid, ClientTypeOK
<1> QED BY <1>7, <1>8, <1>9

(* reconnectedMsg: the goroutine in charge becomes the pump of model.cli. *)
LEMMA ReconnectedKeeps ==
    ASSUME TerminalInv, NEW i \in Dials, Reconnected(i)
    PROVE  TerminalInv'
<1> USE BoundsAssumption DEF TerminalInv, Reconnected, Dials
<1>1. i = dialled /\ reconnecting
  BY DEF LastDialDrives, InCharge
<1>2. ClientTypeOK'
  <2>1. life' \in [Dials -> Lives]
    BY DEF ClientTypeOK, Lives
  <2>2. joins' \in 0..MaxFaults
    BY <1>1 DEF ClientTypeOK, DialsPaid
  <2>3. replies' \in Seq(Frames)
    OBVIOUS
  <2>4. cli' \in Dials /\ verbs' \subseteq Verbs
    OBVIOUS
  <2>5. reconnectN' \in 0..(MaxFaults + 1)
    OBVIOUS
  <2>6. reconnecting' \in BOOLEAN /\ asked' \in BOOLEAN
    OBVIOUS
  <2>7. UNCHANGED <<alive, dialled, wait, members, rosterCursor, served, changes, pressed, start,
                    ticks, joined, faults, quit>>
    OBVIOUS
  <2> HIDE DEF Reconnected, Dials
  <2> QED BY <2>1, <2>2, <2>3, <2>4, <2>5, <2>6, <2>7 DEF ClientTypeOK
<1>3. LastDialDrives'
  BY <1>1 DEF LastDialDrives, InCharge, ClientTypeOK
<1>4. DialsPaid'
  BY <1>1 DEF DialsPaid, Down, ClientTypeOK
<1> QED BY <1>2, <1>3, <1>4

(* Steps that touch neither the link nor the counters of faults and joins. *)
LinkKept == UNCHANGED <<life, alive, dialled, wait, cli, reconnecting, reconnectN, joins, faults>>

(* The Cmds, the program's keys and the server leave the link alone. *)
LEMMA OthersKeepLink ==
    ASSUME LinkKept, LastDialDrives, DialsPaid
    PROVE  LastDialDrives' /\ DialsPaid'
BY DEF LinkKept, LastDialDrives, DialsPaid, Down, InCharge, Dials

(* A fault that is not the link's leaves it alone, too. *)
LEMMA FaultsKeepLink ==
    ASSUME TerminalInv, Fault, UNCHANGED <<linkVars, joins>>
    PROVE  LastDialDrives' /\ DialsPaid' /\ faults' \in 0..MaxFaults
<1> USE BoundsAssumption DEF TerminalInv, linkVars, Fault
<1>1. faults \in 0..MaxFaults /\ dialled \in Dials
  BY DEF ClientTypeOK
<1>2. LastDialDrives'
  BY DEF LastDialDrives, InCharge
<1>3. DialsPaid'
  BY <1>1 DEF DialsPaid, Down, Dials
<1> QED BY <1>1, <1>2, <1>3

(* A frame in the server's queue. *)
LEMMA EnqueueKeeps ==
    ASSUME NEW f \in Frames, replies \in Seq(Frames), Enqueue(f)
    PROVE  replies' \in Seq(Frames)
BY DEF Enqueue

(* What the Cmds of start-up, of a reconnect and of the timer do. *)
LEMMA CommandKeeps ==
    ASSUME TerminalInv, Command
    PROVE  TerminalInv'
<1> USE BoundsAssumption DEF TerminalInv, ClientTypeOK, linkVars, opVars, LinkKept
<1>1. CASE InitJoin
  <2>1. LinkKept BY <1>1 DEF InitJoin
  <2>2. ClientTypeOK'
    BY <1>1 DEF InitJoin, SendJoin
  <2> QED BY <2>1, <2>2, OthersKeepLink
<1>2. CASE Joined
  <2>1. LinkKept BY <1>2 DEF Joined
  <2>2. asked' \in BOOLEAN
    BY <1>2 DEF Joined, SendMembers
  <2>3. ClientTypeOK'
    BY <1>2, <2>2 DEF Joined, scheduleMembersTick
  <2> QED BY <2>1, <2>3, OthersKeepLink
<1>3. CASE Rejoin
  <2>1. ClientTypeOK'
    BY <1>3 DEF Rejoin, SendJoin
  <2>2. LastDialDrives' /\ DialsPaid'
    BY <1>3 DEF Rejoin, LastDialDrives, DialsPaid, Down, InCharge, Dials
  <2> QED BY <2>1, <2>2
<1>4. CASE MembersTick
  <2>1. LinkKept BY <1>4 DEF MembersTick
  <2>2. asked' \in BOOLEAN
    BY <1>4 DEF MembersTick, SendMembers
  <2>3. ClientTypeOK'
    BY <1>4, <2>2 DEF MembersTick, scheduleMembersTick
  <2> QED BY <2>1, <2>3, OthersKeepLink
<1> QED BY <1>1, <1>2, <1>3, <1>4 DEF Command

(* What the pump delivers: a roster, the answer to a verb or an error. *)
LEMMA IncomingKeeps ==
    ASSUME TerminalInv, Incoming
    PROVE  TerminalInv'
<1> USE BoundsAssumption DEF TerminalInv, ClientTypeOK, linkVars, opVars, LinkKept
<1>1. CASE Members
  <2>1. LinkKept BY <1>1 DEF Members
  <2>2. replies' \in Seq(Frames) /\ Head(replies) \in Frames
        /\ Head(replies).kind = "members"
    BY <1>1 DEF Members, Pumped
  <2>3. members' \in Rosters
    BY <1>1, <2>2 DEF Members, Frames
  <2>4. rosterCursor' \in Nat
    BY <1>1 DEF Members, Clamped
  <2>5. ClientTypeOK'
    BY <1>1, <2>2, <2>3, <2>4 DEF Members, Pumped
  <2> QED BY <2>1, <2>5, OthersKeepLink
<1>2. CASE ChanopOK
  <2>1. LinkKept BY <1>2 DEF ChanopOK
  <2>2. replies' \in Seq(Frames)
    BY <1>2 DEF ChanopOK, Pumped
  <2>3. asked' \in BOOLEAN
    BY <1>2 DEF ChanopOK, SendMembers
  <2>4. ClientTypeOK'
    BY <1>2, <2>2, <2>3 DEF ChanopOK
  <2> QED BY <2>1, <2>4, OthersKeepLink
<1>3. CASE ServerError
  <2>1. LinkKept BY <1>3 DEF ServerError
  <2>2. replies' \in Seq(Frames)
    BY <1>3 DEF ServerError, Pumped
  <2>3. ClientTypeOK'
    BY <1>3, <2>2 DEF ServerError
  <2> QED BY <2>1, <2>3, OthersKeepLink
<1> QED BY <1>1, <1>2, <1>3 DEF Incoming

(* The operator's keys. *)
LEMMA KeysKeep ==
    ASSUME TerminalInv,
           MoveCursor \/ Refresh \/ togglePauseSelected \/ Quit
    PROVE  TerminalInv'
<1> USE BoundsAssumption DEF TerminalInv, ClientTypeOK, linkVars, opVars, LinkKept
<1>1. CASE MoveCursor
  <2>1. LinkKept BY <1>1 DEF MoveCursor
  <2>2. rosterCursor' \in Nat
    BY <1>1 DEF MoveCursor
  <2>3. ClientTypeOK'
    BY <1>1, <2>2 DEF MoveCursor
  <2> QED BY <2>1, <2>3, OthersKeepLink
<1>2. CASE Refresh
  <2>1. LinkKept BY <1>2 DEF Refresh
  <2>2. asked' \in BOOLEAN
    BY <1>2 DEF Refresh, SendMembers
  <2>3. ClientTypeOK'
    BY <1>2, <2>2 DEF Refresh
  <2> QED BY <2>1, <2>3, OthersKeepLink
<1>3. CASE togglePauseSelected
  <2>1. LinkKept BY <1>3 DEF togglePauseSelected
  <2>2. verbs' \subseteq Verbs
    <3>1. PICK a \in Selected \cap Bots :
            verbs' = IF cli \in alive
                     THEN verbs \cup {[bot |-> a, pause |-> a \notin members.paused]}
                     ELSE verbs
      BY <1>3 DEF togglePauseSelected
    <3>2. [bot |-> a, pause |-> a \notin members.paused] \in Verbs
      BY DEF Verbs
    <3> QED BY <3>1, <3>2
  <2>3. ClientTypeOK'
    BY <1>3, <2>2 DEF togglePauseSelected
  <2> QED BY <2>1, <2>3, OthersKeepLink
<1>4. CASE Quit
  <2>1. LinkKept BY <1>4 DEF Quit
  <2>2. ClientTypeOK'
    BY <1>4 DEF Quit
  <2> QED BY <2>1, <2>2, OthersKeepLink
<1> QED BY <1>1, <1>2, <1>3, <1>4

(* The server's answers, and what others do to its roster. *)
LEMMA ServerKeeps ==
    ASSUME TerminalInv,
           Server \/ \E a \in Accounts : ServerChanges(a)
    PROVE  TerminalInv'
<1> USE BoundsAssumption DEF TerminalInv, ClientTypeOK, linkVars, opVars, LinkKept
<1>1. CASE ServerRoster
  <2>1. LinkKept BY <1>1 DEF ServerRoster
  <2>2. [kind |-> "members", roster |-> served] \in Frames
    BY DEF Frames
  <2>3. replies' \in Seq(Frames)
    BY <1>1, <2>2, EnqueueKeeps DEF ServerRoster
  <2>4. ClientTypeOK'
    BY <1>1, <2>3 DEF ServerRoster
  <2> QED BY <2>1, <2>4, OthersKeepLink
<1>2. CASE ServerVerb
  <2>1. LinkKept BY <1>2 DEF ServerVerb
  <2>2. [kind |-> "chanop_ok"] \in Frames
    BY DEF Frames
  <2>3. replies' \in Seq(Frames)
    BY <1>2, <2>2, EnqueueKeeps DEF ServerVerb
  <2>4. verbs' \subseteq Verbs /\ served' \in Rosters
    <3>1. PICK v \in verbs :
            /\ verbs' = verbs \ {v}
            /\ served' = [served EXCEPT !.paused = IF v.pause THEN @ \cup {v.bot} ELSE @ \ {v.bot}]
      BY <1>2 DEF ServerVerb
    <3>2. v.bot \in Bots
      BY DEF Verbs
    <3> QED BY <3>1, <3>2 DEF Rosters
  <2>5. ClientTypeOK'
    BY <1>2, <2>3, <2>4 DEF ServerVerb
  <2> QED BY <2>1, <2>5, OthersKeepLink
<1>3. [kind |-> "error"] \in Frames
  BY DEF Frames
<1>4. CASE RosterMissed
  <2>1. Fault /\ UNCHANGED <<linkVars, opVars, start, joins, ticks, joined, quit>>
    BY <1>4 DEF RosterMissed
  <2>2. LastDialDrives' /\ DialsPaid' /\ faults' \in 0..MaxFaults
    BY <2>1, FaultsKeepLink
  <2>3. replies' \in Seq(Frames) /\ asked' \in BOOLEAN
    BY <1>3, <1>4, EnqueueKeeps DEF RosterMissed
  <2>4. ClientTypeOK'
    BY <2>1, <2>2, <2>3
  <2> QED BY <2>2, <2>4
<1>5. CASE VerbRefused
  <2>1. /\ UNCHANGED <<linkVars, members, rosterCursor, served, changes, pressed,
                       start, joins, ticks, joined, asked, quit>>
        /\ Fault \/ UNCHANGED faults
    BY <1>5 DEF VerbRefused
  <2>2. LastDialDrives' /\ DialsPaid' /\ faults' \in 0..MaxFaults
    <3>1. CASE Fault
      BY <2>1, <3>1, FaultsKeepLink
    <3>2. CASE UNCHANGED faults
      BY <2>1, <3>2, OthersKeepLink
    <3> QED BY <2>1, <3>1, <3>2
  <2>3. verbs' \subseteq Verbs /\ replies' \in Seq(Frames)
    BY <1>3, <1>5, EnqueueKeeps DEF VerbRefused
  <2>4. ClientTypeOK'
    BY <2>1, <2>2, <2>3
  <2> QED BY <2>2, <2>4
<1>6. ASSUME NEW a \in Accounts, ServerChanges(a)
      PROVE  TerminalInv'
  <2>1. LinkKept BY <1>6 DEF ServerChanges
  <2>2. served' \in Rosters
    BY <1>6 DEF ServerChanges, Rosters
  <2>3. <<faults, changes, pressed>>' \in (0..MaxFaults) \X (0..MaxChanges) \X (0..MaxVerbs)
    <3>1. changes < MaxChanges /\ changes' = changes + 1 /\ UNCHANGED <<faults, pressed>>
      BY <1>6 DEF ServerChanges
    <3>2. faults \in 0..MaxFaults /\ changes \in 0..MaxChanges /\ pressed \in 0..MaxVerbs
      OBVIOUS
    <3>3. changes' \in 0..MaxChanges
      BY <3>1, <3>2
    <3> HIDE DEF TerminalInv
    <3> QED BY <3>1, <3>2, <3>3
  <2>4. UNCHANGED <<linkVars, members, rosterCursor, verbs, start, joins, ticks, joined,
                    asked, replies, quit>>
    BY <1>6 DEF ServerChanges
  <2>5. ClientTypeOK'
    BY <2>2, <2>3, <2>4
  <2> QED BY <2>1, <2>5, OthersKeepLink
<1> QED BY <1>1, <1>2, <1>6, <1>4, <1>5 DEF Server

(* Nothing happens. *)
LEMMA TerminalStutterKeeps == ASSUME TerminalInv, UNCHANGED clientVars PROVE TerminalInv'
<1> USE DEF clientVars, linkVars, opVars
<1>1. LinkKept
  BY DEF LinkKept
<1>2. ClientTypeOK'
  BY DEF TerminalInv, ClientTypeOK
<1> QED BY <1>1, <1>2, OthersKeepLink DEF TerminalInv

(* Every step of the client and its server keeps the invariant. *)
LEMMA TerminalNextKeeps ==
    ASSUME TerminalInv, [ClientNext]_(clientVars)
    PROVE  TerminalInv'
<1>1. ASSUME NEW i \in Dials,
             \/ Goroutine(i) \/ Break(i)
             \/ DecodeFails(i) \/ RedialFails(i)
      PROVE  TerminalInv'
  BY <1>1, PumpEndsKeeps, DisconnectedKeeps, RedialSucceedsKeeps, ReconnectFailedKeeps,
     ReconnectedKeeps, BreakKeeps, DecodeFailsKeeps, RedialFailsKeeps DEF Goroutine
<1> QED
  BY <1>1, CommandKeeps, IncomingKeeps, KeysKeep, ServerKeeps, TerminalStutterKeeps
     DEF ClientNext

(* The invariant of the client's link, in every behaviour. *)
LEMMA TerminalInvariant == ClientSpec => []TerminalInv
<1>1. ClientInit => TerminalInv
  BY TerminalStarts
<1>2. TerminalInv /\ [ClientNext]_(clientVars) => TerminalInv'
  BY TerminalNextKeeps
<1> QED BY <1>1, <1>2, PTL DEF ClientSpec

(* Every variable has its type, whatever the bounds: the dials never run   *)
(* out, and scheduleReconnect never waits more than 30 seconds.            *)
THEOREM TerminalTypeCorrect ==
    ClientSpec => []ClientTypeOK
<1>1. TerminalInv => ClientTypeOK
  BY DEF TerminalInv
<1> QED BY <1>1, TerminalInvariant, PTL

(* For any number of faults, exactly one goroutine looks after the link,   *)
(* and the model knows which way: it is that of the last dial.             *)
THEOREM LinkHasOneDriver ==
    ClientSpec => []OneDriver
<1>1. TerminalInv => OneDriver
  BY DEF TerminalInv, ClientTypeOK, LastDialDrives, OneDriver
<1> QED BY <1>1, TerminalInvariant, PTL
=============================================================================
