----------------------------- MODULE BrokerPool -----------------------------
(***************************************************************************)
(* The transports of the webhook workers (internal/webhook/transport*.go): *)
(* one POST over HTTP, or a publication through a pooled connection to an  *)
(* AMQP or MQTT broker.  A sender is a worker inside Send.                 *)
(*                                                                         *)
(* All senders of a broker share its pooled connection.  Under AMQP they   *)
(* also share the one channel on which the confirmations of that           *)
(* connection arrive, in the order of publication; under MQTT each         *)
(* publication has a token of its own, and a client that loses its network *)
(* connection still counts as connected and reconnects by itself.          *)
(*                                                                         *)
(* The calls of the MQTT library return by their timeouts.  Those of the   *)
(* AMQP library that write or wait for an answer have none: Publish,       *)
(* Channel, Confirm and Close return when the broker lets them, and all    *)
(* but the first are made under the mutex.                                 *)
(***************************************************************************)
EXTENDS Naturals, Sequences, FiniteSets

CONSTANTS
    Senders,
    Brokers,    \* pool keys: scheme, user, host and path
    Amqp,       \* those of them that are AMQP brokers; the others are MQTT
    Targets,    \* URLs of subscriptions
    MaxSends,   \* bound: calls of Send
    None

(* A URL as ValidateURL and Send look at it.  name: routing_key or topic.  *)
Urls == [scheme : {"http", "amqp", "mqtt", "other"}, host : Brokers \cup {None},
         name : BOOLEAN, qos : {"", "0", "1", "2", "3"}]

(* The workers are a fixed number.  A pool key contains the scheme, so the *)
(* URLs that lead to a broker have all the same.                           *)
ASSUME ScopeAssumption ==
    /\ Amqp \subseteq Brokers
    /\ IsFiniteSet(Senders)
    /\ MaxSends \in Nat
    /\ None \notin Brokers \cup Senders \cup 1..MaxSends
    /\ Targets \subseteq Urls
    /\ \A u \in Targets : /\ u.scheme = "amqp" => u.host \in Amqp \cup {None}
                          /\ u.scheme = "mqtt" => u.host \notin Amqp

Msgs == 1..MaxSends     \* a payload is named by the call that sends it
Conns == 1..MaxSends
Transports == {"amqp", "mqtt"}
Verdicts == [msg : Msgs, ack : BOOLEAN]

VARIABLES
    pool,     \* conns, clients: broker -> pooled connection
    open,     \* connections (MQTT: clients) that are not closed
    live,     \* those whose channel is open, too
    stray,    \* MQTT clients that were given up while they connected
    brokerOf, \* connection -> its broker, None before it is dialled
    sent,     \* connection -> publications the broker has not decided on yet
    confirm,  \* connection -> its confirmation channel, of capacity 1, and behind
              \* it the confirmation that the connection's reader has no room for
    tokens,   \* verdicts of MQTT publications
    lock,     \* the mutex of each transport: its holder, while it dials or closes
    sender,   \* what a sender does
    calls,    \* history: calls of Send
    result    \* history: what the last call of each sender returned

poolVars == <<pool, open, live, stray, brokerOf, lock>>
brokerVars == <<sent, confirm, tokens>>
vars == <<poolVars, brokerVars, sender, calls, result>>

Idle == [pc |-> "idle"]
PCs == {"post", "get", "dial", "channel", "publish", "await", "drop", "close"}

Init ==
    /\ pool = [b \in Brokers |-> None]
    /\ open = {}
    /\ live = {}
    /\ stray = {}
    /\ brokerOf = [c \in Conns |-> None]
    /\ sent = [c \in Conns |-> <<>>]
    /\ confirm = [c \in Conns |-> <<>>]
    /\ tokens = {}
    /\ lock = [t \in Transports |-> None]
    /\ sender = [s \in Senders |-> Idle]
    /\ calls = 0
    /\ result = [s \in Senders |-> None]
-----------------------------------------------------------------------------
(***************************************************************************)
(* URLs: what subops accepts when a subscription is stored, and what Send  *)
(* refuses for good when it delivers to it.                                *)
(***************************************************************************)
ValidateURL(u) ==
    /\ u.scheme # "other"
    /\ u.host # None
    /\ u.scheme \in {"amqp", "mqtt"} => u.name
    /\ u.scheme = "mqtt" => u.qos \in {"", "0", "1", "2"}

Refused(u) ==
    \/ u.scheme = "other"
    \/ u.scheme \in {"amqp", "mqtt"} /\ ~u.name
    \/ u.scheme = "mqtt" /\ u.qos \notin {"", "0", "1", "2"}
-----------------------------------------------------------------------------
Msg(s) == sender[s].msg

(* of: the publication whose verdict the call returns, if any.             *)
Return(s, kind, of) ==
    /\ sender' = [sender EXCEPT ![s] = Idle]
    /\ result' = [result EXCEPT ![s] = [url |-> sender[s].url, kind |-> kind, msg |-> Msg(s),
                                       of |-> of, alone |-> sender[s].alone]]
Goto(s, pc) == sender' = [sender EXCEPT ![s].pc = pc] /\ UNCHANGED result

At(s, pc) == sender[s].pc = pc
Broker(s) == sender[s].url.host
Transport(s) == sender[s].url.scheme

(* Send is called for a stored subscription.  alone: nobody else has used  *)
(* the connection while this call waited for its confirmation (history).   *)
Call(s, u) ==
    /\ At(s, "idle") /\ calls < MaxSends
    /\ ValidateURL(u)
    /\ calls' = calls + 1
    /\ IF Refused(u)
       THEN /\ result' = [result EXCEPT ![s] = [url |-> u, kind |-> "permanent",
                                               msg |-> calls', of |-> None, alone |-> TRUE]]
            /\ UNCHANGED sender
       ELSE /\ result' = [result EXCEPT ![s] = None]
            /\ sender' = [sender EXCEPT ![s] =
                             [pc |-> IF u.scheme = "http" THEN "post" ELSE "get",
                              url |-> u, msg |-> calls', conn |-> None, alone |-> TRUE]]
    /\ UNCHANGED <<poolVars, brokerVars>>

StatusKind(status) ==
    CASE status \in 200..299 -> "ok"
      [] status \in 400..499 -> "permanent"
      [] OTHER -> "transient"

(* One POST.  Status 0 stands for a network error or timeout.              *)
Post(s, status) ==
    /\ At(s, "post")
    /\ Return(s, StatusKind(status), Msg(s))
    /\ UNCHANGED <<poolVars, brokerVars, calls>>
-----------------------------------------------------------------------------
(***************************************************************************)
(* getOrDial and getOrConnect hold the transport's mutex while they dial.  *)
(***************************************************************************)
GetPooled(s) ==
    /\ At(s, "get")
    /\ lock[Transport(s)] = None
    /\ pool[Broker(s)] \in open
    /\ sender' = [sender EXCEPT ![s].pc = "publish", ![s].conn = pool[Broker(s)]]
    /\ UNCHANGED <<poolVars, brokerVars, calls, result>>

Dial(s) ==
    /\ At(s, "get")
    /\ lock[Transport(s)] = None
    /\ pool[Broker(s)] \notin open
    /\ pool' = [pool EXCEPT ![Broker(s)] = None]
    /\ lock' = [lock EXCEPT ![Transport(s)] = s]
    /\ Goto(s, "dial")
    /\ UNCHANGED <<open, live, stray, brokerOf, brokerVars, calls>>

Fresh == CHOOSE c \in Conns :
             brokerOf[c] = None /\ \A d \in 1..(c - 1) : brokerOf[d] # None

(* MQTT: the client is connected. *)
ConnectSucceeds(s) ==
    /\ At(s, "dial") /\ Transport(s) = "mqtt"
    /\ open' = open \cup {Fresh}
    /\ live' = live \cup {Fresh}
    /\ brokerOf' = [brokerOf EXCEPT ![Fresh] = Broker(s)]
    /\ pool' = [pool EXCEPT ![Broker(s)] = Fresh]
    /\ lock' = [lock EXCEPT ![Transport(s)] = None]
    /\ sender' = [sender EXCEPT ![s].pc = "publish", ![s].conn = Fresh]
    /\ UNCHANGED <<stray, brokerVars, calls, result>>

(* AMQP: the connection is open, and nobody knows it yet.  Channel and     *)
(* Confirm are next, still under the mutex.                                *)
DialSucceeds(s) ==
    /\ At(s, "dial") /\ Transport(s) = "amqp"
    /\ open' = open \cup {Fresh}
    /\ brokerOf' = [brokerOf EXCEPT ![Fresh] = Broker(s)]
    /\ sender' = [sender EXCEPT ![s].pc = "channel", ![s].conn = Fresh]
    /\ UNCHANGED <<pool, live, stray, lock, brokerVars, calls, result>>

OpenChannel(s) ==
    /\ At(s, "channel")
    /\ live' = live \cup {sender[s].conn}
    /\ pool' = [pool EXCEPT ![Broker(s)] = sender[s].conn]
    /\ lock' = [lock EXCEPT ![Transport(s)] = None]
    /\ Goto(s, "publish")
    /\ UNCHANGED <<open, stray, brokerOf, brokerVars, calls>>

(* One of them fails, and the connection is closed again. *)
ChannelFailsLeaving(s) ==
    /\ At(s, "channel")
    /\ lock' = [lock EXCEPT ![Transport(s)] = None]
    /\ Return(s, "transient", None)
    /\ UNCHANGED <<pool, open, live, stray, brokerOf, brokerVars, calls>>
ChannelFails(s) ==
    /\ At(s, "channel")
    /\ open' = open \ {sender[s].conn}
    /\ lock' = [lock EXCEPT ![Transport(s)] = None]
    /\ Return(s, "transient", None)
    /\ UNCHANGED <<pool, live, stray, brokerOf, brokerVars, calls>>

DialFailsLocked(s) ==
    /\ At(s, "dial")
    /\ Return(s, "transient", None)
    /\ UNCHANGED <<poolVars, brokerVars, calls>>
DialFails(s) ==
    /\ At(s, "dial")
    /\ lock' = [lock EXCEPT ![Transport(s)] = None]
    /\ Return(s, "transient", None)
    /\ UNCHANGED <<pool, open, live, stray, brokerOf, brokerVars, calls>>

(* getOrConnect waits for Connect no longer than its timeout, and leaves   *)
(* the client alone: it may yet connect, outside the pool.                 *)
ConnectTimesOut(s) ==
    /\ At(s, "dial") /\ Transport(s) = "mqtt"
    /\ stray' = stray \cup {Fresh}
    /\ brokerOf' = [brokerOf EXCEPT ![Fresh] = Broker(s)]
    /\ lock' = [lock EXCEPT ![Transport(s)] = None]
    /\ Return(s, "transient", None)
    /\ UNCHANGED <<pool, open, live, brokerVars, calls>>

ConnectsLate(c) ==
    /\ c \in stray \ open
    /\ open' = open \cup {c}
    /\ UNCHANGED <<pool, live, stray, brokerOf, lock, brokerVars, sender, calls, result>>
-----------------------------------------------------------------------------
(***************************************************************************)
(* Publish, and wait for the broker's verdict.                             *)
(***************************************************************************)
Conn(s) == sender[s].conn
UsesConn(s, c) == sender[s].pc \in {"await", "drop", "close"} /\ Conn(s) = c

(* MQTT's QoS 0: nothing is confirmed. *)
Unconfirmed(s) == Transport(s) = "mqtt" /\ sender[s].url.qos = "0"

(* Everybody who waits on the connection ceases to be alone on it. *)
Publish(s) ==
    /\ At(s, "publish")
    /\ Conn(s) \in live
    /\ sent' = IF Unconfirmed(s) THEN sent
               ELSE [sent EXCEPT ![Conn(s)] = Append(@, Msg(s))]
    /\ LET others == {t \in Senders \ {s} : UsesConn(t, Conn(s))}
       IN  sender' = [t \in Senders |->
              IF t = s THEN [sender[s] EXCEPT !.pc = "await", !.alone = (others = {})]
              ELSE IF t \in others THEN [sender[t] EXCEPT !.alone = FALSE]
              ELSE sender[t]]
    /\ UNCHANGED <<poolVars, confirm, tokens, calls, result>>

PublishFails(s) ==
    /\ At(s, "publish")
    /\ Conn(s) \notin live
    /\ Goto(s, "drop")
    /\ UNCHANGED <<poolVars, brokerVars, calls>>

KindOf(verdict) == IF verdict.ack THEN "ok" ELSE "transient"

(* AMQP: whatever confirmation comes next, from whichever publication. *)
Confirmed(s) ==
    /\ At(s, "await") /\ Broker(s) \in Amqp
    /\ confirm[Conn(s)] # <<>>
    /\ confirm' = [confirm EXCEPT ![Conn(s)] = Tail(@)]
    /\ Return(s, KindOf(Head(confirm[Conn(s)])), Head(confirm[Conn(s)]).msg)
    /\ UNCHANGED <<poolVars, sent, tokens, calls>>

(* The library closes the confirmations with the channel, and fails the    *)
(* tokens with the client.                                                 *)
ConfirmClosed(s) ==
    /\ At(s, "await")
    /\ Conn(s) \notin live
    /\ confirm[Conn(s)] = <<>> /\ \A v \in tokens : v.msg # Msg(s)
    /\ Goto(s, "drop")
    /\ UNCHANGED <<poolVars, brokerVars, calls>>

(* MQTT: the token of this publication; an error drops the client. *)
TokenDoneAny(s) ==
    /\ At(s, "await") /\ Broker(s) \notin Amqp
    /\ \/ Unconfirmed(s) /\ Return(s, "ok", None) /\ UNCHANGED tokens
       \/ \E v \in tokens :
             /\ tokens' = tokens \ {v}
             /\ IF v.ack THEN Return(s, "ok", v.msg) ELSE Goto(s, "drop")
    /\ UNCHANGED <<poolVars, sent, confirm, calls>>
TokenDone(s) ==
    /\ At(s, "await")
    /\ \/ Unconfirmed(s) /\ Return(s, "ok", None) /\ UNCHANGED tokens
       \/ \E v \in tokens :
             /\ v.msg = Msg(s)
             /\ tokens' = tokens \ {v}
             /\ IF v.ack THEN Return(s, "ok", v.msg) ELSE Goto(s, "drop")
    /\ UNCHANGED <<poolVars, sent, confirm, calls>>

(* 30 seconds, or the context of the pool.  A token is forgotten with the  *)
(* call.                                                                   *)
TimeoutKeepsConn(s) ==
    /\ At(s, "await")
    /\ Return(s, "transient", None)
    /\ tokens' = {v \in tokens : v.msg # Msg(s)}
    /\ UNCHANGED <<poolVars, sent, confirm, calls>>
Timeout(s) ==
    /\ At(s, "await")
    /\ Goto(s, "drop")
    /\ tokens' = {v \in tokens : v.msg # Msg(s)}
    /\ UNCHANGED <<poolVars, sent, confirm, calls>>

(* What is not decided on a connection when it closes never will be. *)
Closing(conns) ==
    /\ live' = live \ conns
    /\ sent' = [c \in Conns |-> IF c \in conns THEN <<>> ELSE sent[c]]

(* dropConn, dropClient take the mutex and close whatever connection the   *)
(* pool now holds, if any.                                                 *)
NothingToDrop(s) ==
    /\ At(s, "drop")
    /\ lock[Transport(s)] = None
    /\ pool[Broker(s)] = None
    /\ Return(s, "transient", None)
    /\ UNCHANGED <<poolVars, brokerVars, calls>>

Drop(s) ==
    /\ At(s, "drop")
    /\ lock[Transport(s)] = None
    /\ pool[Broker(s)] # None
    /\ lock' = [lock EXCEPT ![Transport(s)] = s]
    /\ Goto(s, "close")
    /\ UNCHANGED <<pool, open, live, stray, brokerOf, brokerVars, calls>>

(* The reader of the connection holds a confirmation for which the channel *)
(* has no room, and reads nothing until somebody takes the one before it.  *)
Stuck(c) == c \in live /\ Len(confirm[c]) = 2

(* Close waits for an answer that the reader has to read.                  *)
CloseReturns(s) ==
    /\ At(s, "close")
    /\ ~Stuck(pool[Broker(s)])
    /\ pool' = [pool EXCEPT ![Broker(s)] = None]
    /\ open' = open \ {pool[Broker(s)]}
    /\ Closing({pool[Broker(s)]})
    /\ lock' = [lock EXCEPT ![Transport(s)] = None]
    /\ Return(s, "transient", None)
    /\ UNCHANGED <<stray, brokerOf, confirm, tokens, calls>>
-----------------------------------------------------------------------------
(***************************************************************************)
(* The brokers and their client libraries.                                 *)
(***************************************************************************)
Awaited(m) == \E s \in Senders : At(s, "await") /\ Msg(s) = m

Decide(c, ack) ==
    /\ c \in live /\ sent[c] # <<>>
    /\ sent' = [sent EXCEPT ![c] = Tail(@)]
    /\ LET verdict == [msg |-> Head(sent[c]), ack |-> ack]
       IN  IF brokerOf[c] \in Amqp
           THEN /\ ~Stuck(c)
                /\ confirm' = [confirm EXCEPT ![c] = Append(@, verdict)]
                /\ UNCHANGED tokens
           ELSE /\ tokens' = IF Awaited(verdict.msg) THEN tokens \cup {verdict} ELSE tokens
                /\ UNCHANGED confirm
    /\ UNCHANGED <<poolVars, sender, calls, result>>

(* The broker closes the AMQP channel, or the connection is lost; only the *)
(* latter shows while the reader is stuck.                                 *)
ChannelLost(c) ==
    /\ c \in live /\ brokerOf[c] \in Amqp
    /\ Closing({c})
    /\ open' \in IF Stuck(c) THEN {open \ {c}} ELSE {open, open \ {c}}
    /\ UNCHANGED <<pool, stray, brokerOf, lock, confirm, tokens, sender, calls, result>>

(* Manager.Stop, when the workers have ended: closeAll. *)
CloseAll ==
    /\ calls = MaxSends /\ \A s \in Senders : At(s, "idle")
    /\ \E b \in Brokers : pool[b] # None
    /\ open' = open \ {pool[b] : b \in Brokers}
    /\ Closing({pool[b] : b \in Brokers})
    /\ pool' = [b \in Brokers |-> None]
    /\ UNCHANGED <<stray, brokerOf, lock, confirm, tokens, sender, calls, result>>
-----------------------------------------------------------------------------
SendStep(s) ==
    \/ \E status \in {0, 200, 404, 503} : Post(s, status)
    \/ GetPooled(s) \/ Dial(s) \/ DialSucceeds(s) \/ DialFails(s)
    \/ ConnectSucceeds(s) \/ ConnectTimesOut(s) \/ OpenChannel(s) \/ ChannelFails(s)
    \/ Publish(s) \/ PublishFails(s)
    \/ Confirmed(s) \/ ConfirmClosed(s) \/ TokenDone(s) \/ Timeout(s)
    \/ NothingToDrop(s) \/ Drop(s) \/ CloseReturns(s)

Next ==
    \/ \E s \in Senders : SendStep(s) \/ \E u \in Targets : Call(s, u)
    \/ \E c \in Conns : ConnectsLate(c) \/ ChannelLost(c) \/ \E ack \in BOOLEAN : Decide(c, ack)
    \/ CloseAll

Spec == Init /\ [][Next]_vars

(* The sender is in a call of the AMQP library that has no timeout. *)
InUntimedCall(s) ==
    sender[s].pc \in {"channel", "publish", "close"} /\ Transport(s) = "amqp"

(* Senders run, dials and waits end by themselves or by their timeouts,    *)
(* and the mutex is handed on: SF, since others may take it in between.    *)
(* An untimed call need not ever return.                                   *)
Fairness ==
    \A s \in Senders :
       /\ WF_vars(SendStep(s) /\ ~InUntimedCall(s))
       /\ SF_vars(GetPooled(s) \/ Dial(s) \/ NothingToDrop(s) \/ Drop(s))

FairSpec == Spec /\ Fairness
-----------------------------------------------------------------------------
(* Every variable has its type. *)
TypeOK ==
    /\ pool \in [Brokers -> Conns \cup {None}]
    /\ stray \cup open \subseteq Conns
    /\ live \subseteq open
    /\ brokerOf \in [Conns -> Brokers \cup {None}]
    /\ sent \in [Conns -> Seq(Msgs)]
    /\ \A c \in Conns : confirm[c] \in Seq(Verdicts) /\ Len(confirm[c]) <= 2
    /\ tokens \subseteq Verdicts
    /\ lock \in [Transports -> Senders \cup {None}]
    /\ sender \in [Senders -> {Idle} \cup [pc : PCs, url : Urls, msg : Msgs,
                                           conn : Conns \cup {None}, alone : BOOLEAN]]
    /\ calls \in 0..MaxSends
    /\ result \in [Senders -> {None} \cup [url : Urls, kind : {"ok", "transient", "permanent"},
                                           msg : Msgs, of : Msgs \cup {None}, alone : BOOLEAN]]

(* "one Connection per tuple ... On any connection error the pool entry is *)
(* discarded": although a late timeout may discard a newer connection than *)
(* the one it waited on, no connection that a Send could use ever leaves   *)
(* the pool without being closed; outside it are only those that their     *)
(* dial is still setting up.                                               *)
OpenIsPooled ==
    \A c \in open \ stray :
        pool[brokerOf[c]] = c \/ \E s \in Senders : At(s, "channel") /\ Conn(s) = c

(* Confirmations are taken by whoever comes first, and calls that gave up  *)
(* leave theirs behind.  Still every waiting Send has a confirmation to    *)
(* come on its open connection, and what is left over on it belongs to     *)
(* calls that are about to close it.                                       *)
Waiting(c) == {s \in Senders : At(s, "await") /\ Conn(s) = c}
Leaving(c) == {s \in Senders : sender[s].pc \in {"drop", "close"} /\ Conn(s) = c}
EnoughConfirmations ==
    \A c \in live : brokerOf[c] \in Amqp =>
        LET due == Len(sent[c]) + Len(confirm[c])
        IN  /\ Cardinality(Waiting(c)) <= due
            /\ due <= Cardinality(Waiting(c)) + Cardinality(Leaving(c))

(* "Send waits for an ACK before returning OK", and "Successful PUBACK for *)
(* QoS 1/2 is required for DeliveryOK": always over MQTT, and over AMQP by *)
(* a Send that nobody overlapped on its connection.                        *)
OwnAck ==
    \A s \in Senders :
        LET r == result[s]
        IN  (/\ r # None /\ r.kind = "ok"
             /\ r.url.qos # "0"
             /\ r.url.scheme = "amqp" => r.alone) => r.of = r.msg

(* "we wait on it ... so a hung broker doesn't pin a worker": over HTTP    *)
(* and MQTT every Send returns, also when the broker never answers, when   *)
(* the connection is closed under it and when others keep the mutex busy.  *)
(* Over AMQP it does unless an untimed call never returns: its own, or     *)
(* that of the mutex's holder.                                             *)
HeldUp(s) == InUntimedCall(s) \/ \E t \in Senders : lock["amqp"] = t /\ InUntimedCall(t)
SendReturns ==
    \A s \in Senders :
        /\ (~At(s, "idle") /\ Transport(s) # "amqp") ~> At(s, "idle")
        /\ <>[]HeldUp(s) \/ (~At(s, "idle") ~> At(s, "idle"))
=============================================================================
