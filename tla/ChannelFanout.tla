--------------------------- MODULE ChannelFanout ---------------------------
(***************************************************************************)
(* One channel of internal/channels and everybody who uses it: the         *)
(* connections' handlers (join, part, msg), REST handlers that publish     *)
(* inbound events, and connections that close.  The registry creates the   *)
(* channel on first use with a double-checked lookup; a broadcast walks    *)
(* the members one by one under the channel's read lock, so broadcasts     *)
(* interleave and joins and parts wait for them; the history ring has a    *)
(* lock of its own.                                                        *)
(*                                                                         *)
(* A Channel struct is a cell of Objs, so that two of them for one channel *)
(* can be told apart.  What a member's queue drops is the subject of       *)
(* Connection: here inbox holds every frame Enqueue was called with.       *)
(***************************************************************************)
EXTENDS Integers, Sequences, FiniteSets

CONSTANTS
    Conns,      \* client connections
    Visibility, \* of the channel: "public" or "private"
    Role,       \* the ACL role of a connection's account, None without an entry
    Inbounds,   \* REST handlers that call PublishInbound
    Objs,       \* Channel structs the registry may allocate
    RingDepth,  \* defaultHistorySize
    MaxCalls,   \* bound: joins, parts and messages
    None

ASSUME FanoutAssumption ==
    /\ Visibility \in {"public", "private"}
    /\ Role \in [Conns -> {"owner", "admin", "channel_op", "member", "banned", None}]
    /\ Conns \cap Inbounds = {}
    /\ RingDepth \in Nat \ {0}
    /\ MaxCalls \in Nat
    /\ None \notin Objs
    /\ None \notin Nat

VARIABLES
    \* Registry and Channel
    registry,  \* the channel's entry in its shard, None before the first use
    members,   \* per struct: the connections in its members map
    hist,      \* per struct: the slots of the ring, None when unused
    histPos,   \* per struct: the next slot to write
    \* handlers
    joined,    \* Conn.joinedChannels has the channel
    proc,      \* a handler: [pc, frame, obj, todo]
    snap,      \* a handler's snapshot of the ring
    calls,     \* joins, parts and messages so far
    \* what the others see
    inbox,     \* the frames a connection's Enqueue was called with
    notified,  \* the events given to Manager.Notify, [n, ctx]
    \* history variables
    log,       \* per struct: every message put into the ring
    steady     \* the connections in the channel ever since a handler's call

vars == <<registry, members, hist, histPos, joined, proc, snap, calls, inbox, notified, log, steady>>
ringVars == <<hist, histPos, log>>
-----------------------------------------------------------------------------
Procs == Conns \cup Inbounds
Ns == 1..MaxCalls
Slots == 0..(RingDepth - 1)
Frames == [kind : {"join", "part", "msg"}, from : Procs, n : Ns]
PCs == {"idle", "lookup", "create", "add", "remove", "snapshot", "broadcast",
        "deliver", "append", "notify", "leave", "closed"}

Idle == [pc |-> "idle", frame |-> None, obj |-> None, todo |-> {}]

Init ==
    /\ registry = None
    /\ members = [o \in Objs |-> {}]
    /\ hist = [o \in Objs |-> [i \in Slots |-> None]]
    /\ histPos = [o \in Objs |-> 0]
    /\ joined = [c \in Conns |-> FALSE]
    /\ proc = [p \in Procs |-> Idle]
    /\ snap = [p \in Procs |-> <<>>]
    /\ calls = 0
    /\ inbox = [c \in Conns |-> <<>>]
    /\ notified = {}
    /\ log = [o \in Objs |-> <<>>]
    /\ steady = [p \in Procs |-> {}]

At(p, pc) == proc[p].pc = pc
Goto(p, pc) == proc' = [proc EXCEPT ![p].pc = pc]
Return(p) == proc' = [proc EXCEPT ![p] = Idle]

(* A handler found its channel: the next step is what its verb does. *)
Found(p, o) ==
    proc' = [proc EXCEPT ![p].obj = o,
                         ![p].pc = IF proc[p].frame.kind = "join" THEN "add" ELSE "snapshot"]

(* In the channel, as its own connection sees it. *)
Settled(c) == joined[c] /\ proc[c].pc \notin {"lookup", "create", "add", "leave", "closed"}

(* A frame is handled: its handler starts at pc with the struct o. *)
Begin(p, kind, pc, o) ==
    /\ At(p, "idle")
    /\ calls < MaxCalls
    /\ calls' = calls + 1
    /\ proc' = [proc EXCEPT ![p] = [Idle EXCEPT
           !.pc = pc, !.obj = o, !.frame = [kind |-> kind, from |-> p, n |-> calls + 1]]]

(* No broadcast holds the read lock of the struct. *)
Unlocked(o) == \A p \in Procs : ~(At(p, "deliver") /\ proc[p].obj = o)
-----------------------------------------------------------------------------
(* A public channel admits everybody, a private one the roles that may     *)
(* join.                                                                   *)
canJoin(c) ==
    Visibility = "public" \/ Role[c] \in {"owner", "admin", "channel_op", "member"}

(* handleJoin: canJoin admits the account, and the channel is remembered   *)
(* on the connection before it is looked up.                               *)
JoinCall(c) ==
    /\ canJoin(c)
    /\ Begin(c, "join", "lookup", None)
    /\ joined' = [joined EXCEPT ![c] = TRUE]
    /\ UNCHANGED <<snap, registry, members, ringVars, inbox, notified, steady>>

(* PublishInbound creates the channel when nobody has joined it yet. *)
InboundCall(i) ==
    /\ Begin(i, "msg", "lookup", None)
    /\ steady' = [steady EXCEPT ![i] = {c \in Conns : Settled(c)}]
    /\ UNCHANGED <<snap, registry, members, ringVars, joined, inbox, notified>>

(* GetOrCreate, the fast path under the read lock of the shard. *)
LookupFast(p) ==
    /\ At(p, "lookup")
    /\ IF registry = None THEN Goto(p, "create") ELSE Found(p, registry)
    /\ UNCHANGED <<snap, registry, members, ringVars, joined, calls, inbox, notified, steady>>

(* GetOrCreate, the slow path under the write lock: check again, insert. *)
CreateUnchecked(p) ==
    /\ At(p, "create")
    /\ \E o \in Objs \ {registry} : Found(p, o) /\ registry' = o
    /\ UNCHANGED <<snap, members, ringVars, joined, calls, inbox, notified, steady>>
Create(p) ==
    /\ At(p, "create")
    /\ \/ /\ registry # None
          /\ Found(p, registry)
          /\ UNCHANGED registry
       \/ /\ registry = None
          /\ \E o \in Objs : Found(p, o) /\ registry' = o
    /\ UNCHANGED <<snap, members, ringVars, joined, calls, inbox, notified, steady>>

(* AddMember; only a new member is announced. *)
AddMember(c) ==
    LET o == proc[c].obj IN
    /\ At(c, "add")
    /\ Unlocked(o)
    /\ members' = [members EXCEPT ![o] = @ \cup {c}]
    /\ IF c \in members[o] THEN Return(c) ELSE Goto(c, "broadcast")
    /\ UNCHANGED <<snap, registry, ringVars, joined, calls, inbox, notified, steady>>

(* handlePart.  Nothing removes a channel from the registry, so a joined   *)
(* channel is found.                                                       *)
PartCall(c) ==
    /\ joined[c]
    /\ Begin(c, "part", "remove", registry)
    /\ joined' = [joined EXCEPT ![c] = FALSE]
    /\ steady' = [p \in Procs |-> steady[p] \ {c}]
    /\ UNCHANGED <<snap, registry, members, ringVars, inbox, notified>>

RemoveMember(c) ==
    LET o == proc[c].obj IN
    /\ At(c, "remove")
    /\ Unlocked(o)
    /\ members' = [members EXCEPT ![o] = @ \ {c}]
    /\ IF c \in members[o] THEN Goto(c, "broadcast") ELSE Return(c)
    /\ UNCHANGED <<snap, registry, ringVars, joined, calls, inbox, notified, steady>>

(* handleMsg. *)
MsgCall(c) ==
    /\ joined[c]
    /\ Begin(c, "msg", "snapshot", registry)
    /\ steady' = [steady EXCEPT ![c] = {d \in Conns : Settled(d)}]
    /\ UNCHANGED <<snap, registry, members, ringVars, joined, inbox, notified>>
-----------------------------------------------------------------------------
(* RecentMessages walks back from the write position until it has n        *)
(* messages or meets an unused slot, and returns them oldest first.        *)
RecentFromPos(o, n) ==
    LET back(i) == hist[o][(histPos[o] - i + RingDepth) % RingDepth]
        depth == CHOOSE k \in 0..RingDepth :
                    /\ k <= n
                    /\ \A i \in 0..(k - 1) : back(i) # None
                    /\ k < n /\ k < RingDepth => back(k) = None
    IN  [j \in 1..depth |-> back(depth - j)]
RecentMessages(o, n) ==
    LET back(i) == hist[o][(histPos[o] - 1 - i + RingDepth) % RingDepth]
        depth == CHOOSE k \in 0..RingDepth :
                    /\ k <= n
                    /\ \A i \in 0..(k - 1) : back(i) # None
                    /\ k < n /\ k < RingDepth => back(k) = None
    IN  [j \in 1..depth |-> back(depth - j)]

(* The context of the event is taken before the message is in the ring. *)
Snapshot(p) ==
    /\ At(p, "snapshot")
    /\ snap' = [snap EXCEPT ![p] = RecentMessages(proc[p].obj, RingDepth)]
    /\ Goto(p, "broadcast")
    /\ UNCHANGED <<registry, members, ringVars, joined, calls, inbox, notified, steady>>

(* Broadcast takes the read lock and walks the members in any order. *)
BroadcastExceptSender(p) ==
    /\ At(p, "broadcast")
    /\ proc' = [proc EXCEPT ![p].pc = "deliver", ![p].todo = members[proc[p].obj] \ {p}]
    /\ UNCHANGED <<snap, registry, members, ringVars, joined, calls, inbox, notified, steady>>
BroadcastBegin(p) ==
    /\ At(p, "broadcast")
    /\ proc' = [proc EXCEPT ![p].pc = "deliver", ![p].todo = members[proc[p].obj]]
    /\ UNCHANGED <<snap, registry, members, ringVars, joined, calls, inbox, notified, steady>>

Deliver(p, c) ==
    /\ At(p, "deliver")
    /\ c \in proc[p].todo
    /\ inbox' = [inbox EXCEPT ![c] = Append(@, proc[p].frame)]
    /\ proc' = [proc EXCEPT ![p].todo = @ \ {c}]
    /\ UNCHANGED <<snap, registry, members, ringVars, joined, calls, notified, steady>>

BroadcastEnd(p) ==
    /\ At(p, "deliver")
    /\ proc[p].todo = {}
    /\ IF proc[p].frame.kind = "msg" THEN Goto(p, "append") ELSE Return(p)
    /\ UNCHANGED <<snap, registry, members, ringVars, joined, calls, inbox, notified, steady>>

AppendHistory(p) ==
    LET o == proc[p].obj IN
    /\ At(p, "append")
    /\ hist' = [hist EXCEPT ![o][histPos[o]] = proc[p].frame.n]
    /\ histPos' = [histPos EXCEPT ![o] = (@ + 1) % RingDepth]
    /\ log' = [log EXCEPT ![o] = Append(@, proc[p].frame.n)]
    /\ Goto(p, "notify")
    /\ UNCHANGED <<snap, registry, members, joined, calls, inbox, notified, steady>>

(* The durable history (HistoryWriter) and Notify (WebhookDelivery) take   *)
(* the event with the context as it was read.                              *)
NotifyAfresh(p) ==
    /\ At(p, "notify")
    /\ notified' = notified \cup
           {[n |-> proc[p].frame.n, ctx |-> RecentMessages(proc[p].obj, RingDepth)]}
    /\ Return(p)
    /\ UNCHANGED <<snap, registry, members, ringVars, joined, calls, inbox, steady>>
Notify(p) ==
    /\ At(p, "notify")
    /\ notified' = notified \cup {[n |-> proc[p].frame.n, ctx |-> snap[p]]}
    /\ Return(p)
    /\ UNCHANGED <<snap, registry, members, ringVars, joined, calls, inbox, steady>>
-----------------------------------------------------------------------------
(* The read loop has ended and close calls RemoveMemberFromAll, which      *)
(* takes the channels from the registry and leaves each.                   *)
Disconnect(c) ==
    /\ At(c, "idle")
    /\ proc' = [proc EXCEPT ![c] = [Idle EXCEPT
           !.pc = IF registry = None THEN "closed" ELSE "leave", !.obj = registry]]
    /\ steady' = [p \in Procs |-> steady[p] \ {c}]
    /\ UNCHANGED <<snap, registry, members, ringVars, joined, calls, inbox, notified>>

Leave(c) ==
    LET o == proc[c].obj IN
    /\ At(c, "leave")
    /\ Unlocked(o)
    /\ members' = [members EXCEPT ![o] = @ \ {c}]
    /\ proc' = [proc EXCEPT ![c] = [Idle EXCEPT !.pc = "closed"]]
    /\ UNCHANGED <<snap, registry, ringVars, joined, calls, inbox, notified, steady>>
-----------------------------------------------------------------------------
ConnStep(c) ==
    \/ JoinCall(c)
    \/ AddMember(c)
    \/ PartCall(c)
    \/ RemoveMember(c)
    \/ MsgCall(c)
    \/ Disconnect(c)
    \/ Leave(c)

PublishStep(p) ==
    \/ LookupFast(p)
    \/ Create(p)
    \/ Snapshot(p)
    \/ BroadcastBegin(p)
    \/ \E c \in Conns : Deliver(p, c)
    \/ BroadcastEnd(p)
    \/ AppendHistory(p)
    \/ Notify(p)

Next ==
    \/ \E c \in Conns : ConnStep(c)
    \/ \E i \in Inbounds : InboundCall(i)
    \/ \E p \in Procs : PublishStep(p)

Spec == Init /\ [][Next]_vars
-----------------------------------------------------------------------------
(* Every variable has its type. *)
TypeOK ==
    /\ registry \in Objs \cup {None}
    /\ members \in [Objs -> SUBSET Conns]
    /\ hist \in [Objs -> [Slots -> Ns \cup {None}]]
    /\ histPos \in [Objs -> Slots]
    /\ joined \in [Conns -> BOOLEAN]
    /\ proc \in [Procs -> [pc : PCs, frame : Frames \cup {None}, obj : Objs \cup {None},
                           todo : SUBSET Conns]]
    /\ snap \in [Procs -> Seq(Ns)]
    /\ calls \in 0..MaxCalls
    /\ inbox \in [Conns -> Seq(Frames)]
    /\ notified \subseteq [n : Ns, ctx : Seq(Ns)]
    /\ log \in [Objs -> Seq(Ns)]
    /\ steady \in [Procs -> SUBSET Conns]

(* channels.go, GetOrCreate and RemoveMemberFromAll with conn.go, handle-  *)
(* Join and handlePart: between two verbs a connection is a member of the  *)
(* channel everybody finds exactly when it believes so, and of no other    *)
(* struct; a closed connection is a member of none.                        *)
MembershipAgrees ==
    \A c \in Conns : \A o \in Objs :
        /\ At(c, "idle") => (c \in members[o] <=> (joined[c] /\ o = registry))
        /\ At(c, "closed") => c \notin members[o]

(* channels.go, Broadcast: a message has reached every connection that was *)
(* in the channel from the call of its handler to the end of its broad-    *)
(* cast, exactly once, however many joins, parts, closing connections and  *)
(* other broadcasts came in between.                                       *)
HeardOnce ==
    \A p \in Procs : proc[p].pc \in {"append", "notify"} =>
        \A c \in steady[p] :
            Cardinality({i \in DOMAIN inbox[c] : inbox[c][i] = proc[p].frame}) = 1

(* channels.go, AppendHistory and RecentMessages: for every n the ring     *)
(* gives the last n messages put into it, oldest first, or as many as it   *)
(* has or can hold, before and after the write position wraps around.      *)
RingKeepsTheLast ==
    \A o \in Objs : \A n \in 0..(RingDepth + 1) :
        LET have == Len(log[o])
            want == CHOOSE k \in {n, RingDepth, have} : \A x \in {n, RingDepth, have} : k <= x
        IN  RecentMessages(o, n) = SubSeq(log[o], have - want + 1, have)

(* conn.go, handleMsg: the snapshot is the "context preceding the matching *)
(* message": no event has itself in its context, and of two published at   *)
(* once at most one precedes the other.                                    *)
ContextPrecedes ==
    \A e, f \in notified :
        ~ /\ \E i \in DOMAIN e.ctx : e.ctx[i] = f.n
          /\ \E i \in DOMAIN f.ctx : f.ctx[i] = e.n

=============================================================================
