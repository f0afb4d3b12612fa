------------------------ MODULE ChannelFanoutProofs ------------------------
(***************************************************************************)
(* Between two verbs a connection is a member of the channel everybody     *)
(* finds exactly when it believes so, for any number of connections and    *)
(* inbound publishers.                                                     *)
(*                                                                         *)
(* MembershipAgrees is about idle connections only.  Inv follows the       *)
(* handlers: there is one struct, which every handler past its lookup      *)
(* holds (the double check of GetOrCreate), only joins look a channel up   *)
(* on behalf of a connection, and a handler past its change of membership  *)
(* already agrees with the members map.                                    *)
(*                                                                         *)
(* The rest is about messages, which a history variable numbers as they    *)
(* are published: what a publisher carries is its own and not yet logged,  *)
(* so the ring is the tail of the log (RingInv), a context is of earlier   *)
(* messages (ContextInv), and a member hears a message once (HeardInv).    *)
(***************************************************************************)
EXTENDS ChannelFanout, SequenceTheorems, FiniteSetTheorems, TLAPS

ProcStates == [pc : PCs, frame : Frames \cup {None}, obj : Objs \cup {None},
               todo : SUBSET Conns]

Shape ==
    /\ registry \in Objs \cup {None}
    /\ members \in [Objs -> SUBSET Conns]
    /\ joined \in [Conns -> BOOLEAN]
    /\ calls \in 0..MaxCalls
    /\ proc \in [Procs -> ProcStates]

Located == {"add", "remove", "snapshot", "broadcast", "deliver", "append", "notify", "leave"}
Agreed == {"idle", "snapshot", "broadcast", "deliver", "append", "notify"}

(* One struct: what is not in the registry is empty and nobody holds it. *)
OneStruct ==
    /\ \A o \in Objs : o # registry => members[o] = {}
    /\ \A p \in Procs : proc[p].pc \in Located => proc[p].obj = registry /\ registry # None

(* A handler that looks the channel up has a frame, a connection's a join. *)
Framed(p) ==
    /\ proc[p].pc \in {"lookup", "create"} => proc[p].frame \in Frames
    /\ (proc[p].pc \in {"lookup", "create"} /\ p \in Conns) => proc[p].frame.kind = "join"

(* What a connection believes at each step of a handler. *)
Believes(c) ==
    /\ proc[c].pc \in Agreed =>
          /\ joined[c] => registry # None
          /\ \A o \in Objs : o = registry => (c \in members[o] <=> joined[c])
    /\ proc[c].pc \in {"lookup", "create", "add"} => joined[c]
    /\ proc[c].pc = "remove" => ~joined[c]
    /\ proc[c].pc = "closed" => \A o \in Objs : c \notin members[o]

Inv ==
    /\ Shape
    /\ OneStruct
    /\ \A p \in Procs : Framed(p)
    /\ \A c \in Conns : Believes(c)

(* The idle handler has the type of a handler. *)
LEMMA IdleType == Idle \in ProcStates
BY DEF Idle, ProcStates, PCs

(* Nobody is in the channel at first. *)
LEMMA InitInv == Init => Inv
<1> SUFFICES ASSUME Init PROVE Inv
  OBVIOUS
<1>1. \A p \in Procs : proc[p] = Idle /\ proc[p].pc = "idle"
  BY DEF Init, Idle
<1>2. Shape
  BY IdleType, FanoutAssumption DEF Init, Shape
<1>3. OneStruct
  BY <1>1 DEF Init, OneStruct, Located
<1>4. \A p \in Procs : Framed(p)
  BY <1>1 DEF Framed
<1>5. \A c \in Conns : Believes(c)
  <2> SUFFICES ASSUME NEW c \in Conns PROVE Believes(c)
    OBVIOUS
  <2>1. proc[c].pc = "idle" /\ ~joined[c]
    BY <1>1 DEF Init, Procs
  <2>2. \A o \in Objs : c \notin members[o]
    BY DEF Init
  <2> QED
    BY <2>1, <2>2 DEF Believes
<1> QED
  BY <1>2, <1>3, <1>4, <1>5 DEF Inv

(* A frame handled at pc with the struct o: the types and the handler. *)
LEMMA BeginFacts ==
    ASSUME Inv, NEW p \in Procs, NEW kind \in {"join", "part", "msg"}, NEW pc \in PCs,
           NEW o \in Objs \cup {None}, Begin(p, kind, pc, o)
    PROVE  /\ proc' \in [Procs -> ProcStates]
           /\ calls' \in 0..MaxCalls
           /\ proc'[p].pc = pc /\ proc'[p].obj = o
           /\ proc'[p].frame \in Frames /\ proc'[p].frame.kind = kind
           /\ \A q \in Procs : q # p => proc'[q] = proc[q]
           /\ proc[p].pc = "idle"
<1> DEFINE f == [kind |-> kind, from |-> p, n |-> calls + 1]
           v == [Idle EXCEPT !.pc = pc, !.obj = o, !.frame = f]
<1>1. calls + 1 \in Ns /\ calls' \in 0..MaxCalls
  BY FanoutAssumption DEF Inv, Shape, Begin, Ns
<1>2. f \in Frames /\ f.kind = kind
  BY <1>1 DEF Frames
<1>3. proc' = [proc EXCEPT ![p] = v]
  BY DEF Begin
<1> HIDE DEF f
<1>4. v \in ProcStates
  BY <1>2 DEF Idle, ProcStates
<1>5. proc \in [Procs -> ProcStates]
  BY DEF Inv, Shape
<1>6. v.pc = pc /\ v.obj = o /\ v.frame = f
  BY DEF Idle
<1> HIDE DEF v
<1>7. proc' \in [Procs -> ProcStates]
  BY <1>3, <1>4, <1>5
<1>8. proc'[p] = v /\ \A q \in Procs : q # p => proc'[q] = proc[q]
  BY <1>3, <1>5
<1>9. proc[p].pc = "idle"
  BY DEF Begin, At
<1> QED
  BY <1>1, <1>2, <1>6, <1>7, <1>8, <1>9

(* The calls of a connection: JoinCall, PartCall, MsgCall. *)
LEMMA CallInv ==
    ASSUME Inv, NEW c \in Conns, JoinCall(c) \/ PartCall(c) \/ MsgCall(c)
    PROVE  Inv'
<1> c \in Procs
  BY DEF Procs
<1> USE DEF Inv
<1>1. CASE JoinCall(c)
  <2>1. Begin(c, "join", "lookup", None)
    BY <1>1 DEF JoinCall
  <2>2. /\ proc' \in [Procs -> ProcStates] /\ calls' \in 0..MaxCalls
        /\ proc'[c].pc = "lookup" /\ proc'[c].frame \in Frames /\ proc'[c].frame.kind = "join"
        /\ \A q \in Procs : q # c => proc'[q] = proc[q]
    BY <2>1, BeginFacts DEF PCs
  <2>3. joined' \in [Conns -> BOOLEAN] /\ joined'[c] /\ \A d \in Conns : d # c => joined'[d] = joined[d]
    BY <1>1 DEF JoinCall, Shape
  <2>4. UNCHANGED <<registry, members>>
    BY <1>1 DEF JoinCall
  <2>5. Shape'
    BY <2>2, <2>3, <2>4 DEF Shape
  <2>6. OneStruct'
    BY <2>2, <2>4 DEF OneStruct, Located
  <2>7. \A p \in Procs : Framed(p)'
    BY <2>2 DEF Framed
  <2>8. \A d \in Conns : Believes(d)'
    BY <2>2, <2>3, <2>4 DEF Believes, Agreed, Procs
  <2> QED
    BY <2>5, <2>6, <2>7, <2>8
<1>2. CASE PartCall(c)
  <2>1. Begin(c, "part", "remove", registry) /\ joined[c]
    BY <1>2 DEF PartCall
  <2>2. /\ proc' \in [Procs -> ProcStates] /\ calls' \in 0..MaxCalls
        /\ proc'[c].pc = "remove" /\ proc'[c].obj = registry
        /\ \A q \in Procs : q # c => proc'[q] = proc[q]
        /\ proc[c].pc = "idle"
    BY <2>1, BeginFacts DEF PCs, Shape
  <2>3. joined' \in [Conns -> BOOLEAN] /\ ~joined'[c] /\ \A d \in Conns : d # c => joined'[d] = joined[d]
    BY <1>2 DEF PartCall, Shape
  <2>4. UNCHANGED <<registry, members>>
    BY <1>2 DEF PartCall
  <2>5. registry # None
    BY <2>1, <2>2 DEF Believes, Agreed
  <2>6. Shape'
    BY <2>2, <2>3, <2>4 DEF Shape
  <2>7. OneStruct'
    BY <2>2, <2>4, <2>5 DEF OneStruct, Located
  <2>8. \A p \in Procs : Framed(p)'
    BY <2>2 DEF Framed
  <2>9. \A d \in Conns : Believes(d)'
    BY <2>2, <2>3, <2>4 DEF Believes, Agreed, Procs
  <2> QED
    BY <2>6, <2>7, <2>8, <2>9
<1>3. CASE MsgCall(c)
  <2>1. Begin(c, "msg", "snapshot", registry) /\ joined[c]
    BY <1>3 DEF MsgCall
  <2>2. /\ proc' \in [Procs -> ProcStates] /\ calls' \in 0..MaxCalls
        /\ proc'[c].pc = "snapshot" /\ proc'[c].obj = registry
        /\ \A q \in Procs : q # c => proc'[q] = proc[q]
        /\ proc[c].pc = "idle"
    BY <2>1, BeginFacts DEF PCs, Shape
  <2>3. UNCHANGED <<registry, members, joined>>
    BY <1>3 DEF MsgCall
  <2>4. registry # None
    BY <2>1, <2>2 DEF Believes, Agreed
  <2>5. Shape'
    BY <2>2, <2>3 DEF Shape
  <2>6. OneStruct'
    BY <2>2, <2>3, <2>4 DEF OneStruct, Located
  <2>7. \A p \in Procs : Framed(p)'
    BY <2>2 DEF Framed
  <2>8. \A d \in Conns : Believes(d)'
    BY <2>2, <2>3 DEF Believes, Agreed, Procs
  <2> QED
    BY <2>5, <2>6, <2>7, <2>8
<1> QED
  BY <1>1, <1>2, <1>3

(* An inbound handler starts. *)
LEMMA InboundInv ==
    ASSUME Inv, NEW i \in Inbounds, InboundCall(i)
    PROVE  Inv'
<1> i \in Procs /\ i \notin Conns
  BY FanoutAssumption DEF Procs
<1> USE DEF Inv
<1>1. Begin(i, "msg", "lookup", None)
  BY DEF InboundCall
<1>2. /\ proc' \in [Procs -> ProcStates] /\ calls' \in 0..MaxCalls
      /\ proc'[i].pc = "lookup" /\ proc'[i].frame \in Frames
      /\ \A q \in Procs : q # i => proc'[q] = proc[q]
  BY <1>1, BeginFacts DEF PCs
<1>3. UNCHANGED <<registry, members, joined>>
  BY DEF InboundCall
<1>4. Shape'
  BY <1>2, <1>3 DEF Shape
<1>5. OneStruct'
  BY <1>2, <1>3 DEF OneStruct, Located
<1>6. \A p \in Procs : Framed(p)'
  BY <1>2 DEF Framed
<1>7. \A d \in Conns : Believes(d)'
  BY <1>2, <1>3 DEF Believes, Procs
<1> QED
  BY <1>4, <1>5, <1>6, <1>7

(* A step of a handler that moves its pc and keeps the members: the        *)
(* lookups, the snapshot, the broadcast, the ring and Notify.              *)
LEMMA PublishInv ==
    ASSUME Inv, NEW p \in Procs, PublishStep(p)
    PROVE  Inv'
<1> USE DEF Inv
<1>1. proc \in [Procs -> ProcStates]
  BY DEF Shape
<1>2. UNCHANGED <<members, joined, calls>>
  BY DEF PublishStep, LookupFast, Create, Snapshot, BroadcastBegin, Deliver, BroadcastEnd,
         AppendHistory, Notify
<1>3. CASE LookupFast(p) \/ Create(p)
  <2>1. proc[p].pc \in {"lookup", "create"} /\ proc[p].frame \in Frames
        /\ (p \in Conns => proc[p].frame.kind = "join")
    BY <1>3 DEF LookupFast, Create, At, Framed
  <2>2. \/ Goto(p, "create") /\ UNCHANGED registry
        \/ \E o \in Objs : Found(p, o) /\ registry' = o /\ (registry = None \/ registry' = registry)
    BY <1>3 DEF LookupFast, Create, Shape
  <2>3. CASE Goto(p, "create") /\ UNCHANGED registry
    <3>1. proc' \in [Procs -> ProcStates] /\ proc'[p].pc = "create" /\ proc'[p].frame = proc[p].frame
          /\ \A q \in Procs : q # p => proc'[q] = proc[q]
      BY <1>1, <2>3 DEF Goto, ProcStates, PCs
    <3>2. Shape'
      BY <1>2, <2>3, <3>1 DEF Shape
    <3>3. OneStruct'
      BY <1>2, <2>3, <3>1 DEF OneStruct, Located
    <3>4. \A q \in Procs : Framed(q)'
      BY <2>1, <3>1 DEF Framed
    <3>5. \A d \in Conns : Believes(d)'
      BY <1>2, <2>1, <2>3, <3>1 DEF Believes, Agreed, Procs
    <3> QED
      BY <3>2, <3>3, <3>4, <3>5
  <2>4. CASE \E o \in Objs : Found(p, o) /\ registry' = o /\ (registry = None \/ registry' = registry)
    <3>1. PICK o \in Objs : Found(p, o) /\ registry' = o /\ (registry = None \/ registry' = registry)
      BY <2>4
    <3>2. o # None
      BY FanoutAssumption
    <3>3. /\ proc' \in [Procs -> ProcStates]
          /\ proc'[p].pc \in {"add", "snapshot"}
          /\ p \in Conns => proc'[p].pc = "add"
          /\ proc'[p].obj = o
          /\ \A q \in Procs : q # p => proc'[q] = proc[q]
      BY <1>1, <2>1, <3>1 DEF Found, ProcStates, PCs
    <3>4. Shape'
      BY <1>2, <3>1, <3>3 DEF Shape
    <3>5. OneStruct'
      <4>1. \A x \in Objs : x # registry' => members'[x] = {}
        BY <1>2, <3>1, FanoutAssumption DEF OneStruct
      <4>2. \A q \in Procs : proc'[q].pc \in Located => proc'[q].obj = registry' /\ registry' # None
        BY <3>1, <3>2, <3>3 DEF OneStruct
      <4> QED
        BY <4>1, <4>2 DEF OneStruct
    <3>6. \A q \in Procs : Framed(q)'
      BY <3>3 DEF Framed
    <3>7. ASSUME NEW d \in Conns PROVE Believes(d)'
      <4>1. CASE d = p
        BY <1>2, <2>1, <3>3, <4>1 DEF Believes, Agreed
      <4>2. CASE d # p
        <5>1. proc'[d] = proc[d] /\ joined'[d] = joined[d] /\ members' = members
          BY <1>2, <3>3, <4>2 DEF Procs
        <5>2. CASE registry' = registry
          BY <5>1, <5>2 DEF Believes
        <5>3. CASE registry = None
          <6>1. \A x \in Objs : members[x] = {}
            BY <5>3, FanoutAssumption DEF OneStruct
          <6> QED
            BY <5>1, <5>3, <6>1, <3>1, <3>2 DEF Believes, Shape
        <5> QED
          BY <3>1, <5>2, <5>3
      <4> QED
        BY <4>1, <4>2
    <3> QED
      BY <3>4, <3>5, <3>6, <3>7
  <2> QED
    BY <2>2, <2>3, <2>4
<1>4. CASE ~(LookupFast(p) \/ Create(p))
  <2>1. UNCHANGED registry
    BY <1>4 DEF PublishStep, Snapshot, BroadcastBegin, Deliver, BroadcastEnd, AppendHistory, Notify
  <2>2. proc[p].pc \in {"snapshot", "broadcast", "deliver", "append", "notify"}
    BY <1>4 DEF PublishStep, Snapshot, BroadcastBegin, Deliver, BroadcastEnd, AppendHistory,
                Notify, At
  <2>3. proc[p].obj = registry /\ registry # None
    BY <2>2 DEF OneStruct, Located
  <2>4. /\ proc' \in [Procs -> ProcStates]
        /\ proc'[p].pc \in {"idle", "broadcast", "deliver", "append", "notify"}
        /\ proc'[p].pc = "idle" \/ proc'[p].obj = proc[p].obj
        /\ \A q \in Procs : q # p => proc'[q] = proc[q]
    <3>1. CASE Snapshot(p)
      BY <1>1, <3>1 DEF Snapshot, Goto, ProcStates, PCs
    <3>2. CASE BroadcastBegin(p)
      <4>1. members[proc[p].obj] \in SUBSET Conns
        BY <2>3 DEF Shape
      <4> QED
        BY ZenonT(60), <1>1, <3>2, <4>1 DEF BroadcastBegin, ProcStates, PCs
    <3>3. CASE \E c \in Conns : Deliver(p, c)
      BY <1>1, <2>2, <3>3 DEF Deliver, At, ProcStates, PCs
    <3>4. CASE BroadcastEnd(p)
      <4>1. CASE Goto(p, "append")
        BY <1>1, <4>1 DEF Goto, ProcStates, PCs
      <4>2. CASE Return(p)
        BY <1>1, <4>2, IdleType DEF Return, Idle
      <4> QED
        BY <3>4, <4>1, <4>2 DEF BroadcastEnd
    <3>5. CASE AppendHistory(p)
      BY <1>1, <3>5 DEF AppendHistory, Goto, ProcStates, PCs
    <3>6. CASE Notify(p)
      BY <1>1, <3>6, IdleType DEF Notify, Return, Idle
    <3> QED
      BY <1>4, <3>1, <3>2, <3>3, <3>4, <3>5, <3>6 DEF PublishStep
  <2>5. Shape'
    BY <1>2, <2>1, <2>4 DEF Shape
  <2>6. OneStruct'
    BY <1>2, <2>1, <2>3, <2>4 DEF OneStruct, Located
  <2>7. \A q \in Procs : Framed(q)'
    BY <2>4 DEF Framed
  <2>8. \A d \in Conns : Believes(d)'
    BY <1>2, <2>1, <2>2, <2>4 DEF Believes, Agreed, Procs
  <2> QED
    BY <2>5, <2>6, <2>7, <2>8
<1> QED
  BY <1>3, <1>4

(* The members map changes: AddMember, RemoveMember, and a connection that *)
(* closes.                                                                 *)
LEMMA MemberInv ==
    ASSUME Inv, NEW c \in Conns, AddMember(c) \/ RemoveMember(c) \/ Leave(c) \/ Disconnect(c)
    PROVE  Inv'
<1> c \in Procs
  BY DEF Procs
<1> USE DEF Inv
<1>1. proc \in [Procs -> ProcStates]
  BY DEF Shape
<1>2. UNCHANGED <<registry, joined, calls>>
  BY DEF AddMember, RemoveMember, Leave, Disconnect
<1>3. CASE AddMember(c) \/ RemoveMember(c) \/ Leave(c)
  <2>1. proc[c].pc \in {"add", "remove", "leave"} /\ proc[c].obj = registry /\ registry \in Objs
    BY <1>3 DEF AddMember, RemoveMember, Leave, At, OneStruct, Located, Shape
  <2>2. /\ members' \in [Objs -> SUBSET Conns]
        /\ \A o \in Objs : o # registry => members'[o] = members[o]
        /\ \A d \in Conns : d # c => (d \in members'[registry] <=> d \in members[registry])
        /\ proc[c].pc = "add" => c \in members'[registry]
        /\ proc[c].pc # "add" => c \notin members'[registry]
    <3>1. CASE AddMember(c)
      BY <2>1, <3>1 DEF AddMember, At, Shape
    <3>2. CASE RemoveMember(c)
      BY <2>1, <3>2 DEF RemoveMember, At, Shape
    <3>3. CASE Leave(c)
      BY <2>1, <3>3 DEF Leave, At, Shape
    <3> QED
      BY <1>3, <3>1, <3>2, <3>3
  <2>3. /\ proc' \in [Procs -> ProcStates]
        /\ \A q \in Procs : q # c => proc'[q] = proc[q]
        /\ proc[c].pc \in {"add", "remove"} =>
              \/ proc'[c].pc = "idle"
              \/ proc'[c].pc = "broadcast" /\ proc'[c].obj = registry
        /\ proc[c].pc = "leave" => proc'[c].pc = "closed"
    <3>1. CASE AddMember(c) \/ RemoveMember(c)
      <4>1. proc[c].pc \in {"add", "remove"} /\ (Return(c) \/ Goto(c, "broadcast"))
        BY <3>1 DEF AddMember, RemoveMember, At
      <4>2. CASE Return(c)
        BY <1>1, <4>1, <4>2, IdleType DEF Return, Idle
      <4>3. CASE Goto(c, "broadcast")
        BY <1>1, <2>1, <4>1, <4>3 DEF Goto, ProcStates, PCs
      <4> QED
        BY <4>1, <4>2, <4>3
    <3>2. CASE Leave(c)
      <4>1. [Idle EXCEPT !.pc = "closed"] \in ProcStates /\ [Idle EXCEPT !.pc = "closed"].pc = "closed"
        BY DEF Idle, ProcStates, PCs
      <4> QED
        BY <1>1, <3>2, <4>1 DEF Leave, At
    <3> QED
      BY <1>3, <3>1, <3>2
  <2>4. Shape'
    BY <1>2, <2>2, <2>3 DEF Shape
  <2>5. OneStruct'
    BY <1>2, <2>1, <2>2, <2>3, FanoutAssumption DEF OneStruct, Located
  <2>6. \A q \in Procs : Framed(q)'
    BY <2>1, <2>3 DEF Framed
  <2>7. ASSUME NEW d \in Conns PROVE Believes(d)'
    <3>1. CASE d = c
      BY <1>2, <2>1, <2>2, <2>3, <3>1, FanoutAssumption DEF Believes, Agreed, OneStruct
    <3>2. CASE d # c
      <4>1. proc'[d] = proc[d]
        BY <2>3, <3>2 DEF Procs
      <4>2. \A o \in Objs : d \in members'[o] <=> d \in members[o]
        BY <2>2, <3>2
      <4> QED
        BY <1>2, <4>1, <4>2 DEF Believes
    <3> QED
      BY <3>1, <3>2
  <2> QED
    BY <2>4, <2>5, <2>6, <2>7
<1>4. CASE Disconnect(c)
  <2> DEFINE v == [Idle EXCEPT !.pc = IF registry = None THEN "closed" ELSE "leave",
                               !.obj = registry]
  <2>1. v \in ProcStates /\ v.obj = registry /\ v.pc = IF registry = None THEN "closed" ELSE "leave"
    BY DEF Idle, ProcStates, PCs, Shape
  <2>2. proc' = [proc EXCEPT ![c] = v] /\ UNCHANGED members
    BY <1>4 DEF Disconnect
  <2> HIDE DEF v
  <2>3. proc' \in [Procs -> ProcStates] /\ proc'[c] = v
        /\ \A q \in Procs : q # c => proc'[q] = proc[q]
    BY <1>1, <2>1, <2>2
  <2>4. Shape'
    BY <1>2, <2>2, <2>3 DEF Shape
  <2>5. OneStruct'
    BY <1>2, <2>1, <2>2, <2>3 DEF OneStruct, Located
  <2>6. \A q \in Procs : Framed(q)'
    BY <2>1, <2>3 DEF Framed
  <2>7. registry = None => \A o \in Objs : c \notin members[o]
    BY FanoutAssumption DEF OneStruct
  <2>8. \A d \in Conns : Believes(d)'
    BY <1>2, <2>1, <2>2, <2>3, <2>7 DEF Believes, Agreed, Procs
  <2> QED
    BY <2>4, <2>5, <2>6, <2>8
<1> QED
  BY <1>3, <1>4

(* Every step keeps Inv. *)
LEMMA NextInv == Inv /\ [Next]_vars => Inv'
<1> SUFFICES ASSUME Inv, [Next]_vars PROVE Inv'
  OBVIOUS
<1>1. CASE UNCHANGED vars
  BY <1>1 DEF vars, Inv, Shape, OneStruct, Framed, Believes
<1>2. CASE \E c \in Conns : ConnStep(c)
  BY <1>2, CallInv, MemberInv DEF ConnStep
<1>3. CASE \E i \in Inbounds : InboundCall(i)
  BY <1>3, InboundInv
<1>4. CASE \E p \in Procs : PublishStep(p)
  BY <1>4, PublishInv
<1> QED
  BY <1>1, <1>2, <1>3, <1>4 DEF Next

(* Membership, as a connection believes it and as the registry has it,     *)
(* agrees between any two verbs, and a closed connection is nowhere a      *)
(* member (channels.go, GetOrCreate, RemoveMemberFromAll).                 *)
THEOREM MembershipHolds == Spec => []MembershipAgrees
<1>1. Inv => MembershipAgrees
  <2> SUFFICES ASSUME Inv, NEW c \in Conns, NEW o \in Objs
               PROVE  /\ At(c, "idle") => (c \in members[o] <=> (joined[c] /\ o = registry))
                      /\ At(c, "closed") => c \notin members[o]
    BY DEF MembershipAgrees
  <2>1. Believes(c) /\ (o # registry => members[o] = {})
    BY DEF Inv, OneStruct
  <2> QED
    BY <2>1 DEF Believes, Agreed, At
<1> QED
  BY InitInv, NextInv, <1>1, PTL DEF Spec
-----------------------------------------------------------------------------
(* The pcs of a handler that has a frame. *)
Active == {"lookup", "create", "add", "remove", "snapshot", "broadcast", "deliver",
           "append", "notify"}

(* Every frame has a number of its own, given by its call. *)
Numbered ==
    /\ \A p \in Procs : proc[p].pc \in Active =>
          proc[p].frame \in Frames /\ proc[p].frame.n \in 1..calls
    /\ \A p, q \in Procs : (p # q /\ proc[p].pc \in Active /\ proc[q].pc \in Active) =>
          proc[p].frame.n # proc[q].frame.n
    /\ \A p \in Procs : /\ proc[p].pc = "add" => proc[p].frame.kind = "join"
                        /\ proc[p].pc = "remove" => proc[p].frame.kind = "part"

(* What a step does to the handler that takes it: a call gives a frame a   *)
(* new number, the steps of the handler keep it, the return gives it up.   *)
Started(p) ==
    /\ proc[p].pc = "idle" /\ proc'[p].pc \in {"lookup", "remove", "snapshot"}
    /\ calls' = calls + 1 /\ calls' \in Ns
    /\ proc'[p].frame \in Frames /\ proc'[p].frame.n = calls'
    /\ proc'[p].pc = "remove" => proc'[p].frame.kind = "part"
    /\ UNCHANGED <<snap, hist, histPos, log, inbox, notified>>

Moved(p) ==
    /\ proc[p].pc \in Active /\ proc'[p].pc \in Active \ {"lookup", "remove"}
    /\ proc'[p].frame = proc[p].frame
    /\ proc'[p].pc = "add" => proc[p].frame.kind = "join"
    /\ calls' = calls

Ended(p) == proc'[p].pc \notin Active /\ calls' = calls

StepOf(p) ==
    /\ \A q \in Procs : q # p => proc'[q] = proc[q]
    /\ Started(p) \/ Moved(p) \/ Ended(p)

(* A call starts a handler. *)
LEMMA StartStep ==
    ASSUME Inv, NEW p \in Procs,
           \/ p \in Conns /\ (JoinCall(p) \/ PartCall(p) \/ MsgCall(p))
           \/ InboundCall(p)
    PROVE  StepOf(p) /\ Started(p)
<1>1. PICK kind \in {"join", "part", "msg"}, pc \in {"lookup", "remove", "snapshot"},
           o \in Objs \cup {None} :
        Begin(p, kind, pc, o) /\ (pc = "remove" => kind = "part")
  BY DEF JoinCall, PartCall, MsgCall, InboundCall, Inv, Shape
<1>2. /\ proc'[p].pc = pc
      /\ proc'[p].frame \in Frames /\ proc'[p].frame.kind = kind
      /\ \A q \in Procs : q # p => proc'[q] = proc[q]
      /\ proc[p].pc = "idle"
  <2>1. pc \in PCs
    BY DEF PCs
  <2> QED
    BY <1>1, <2>1, BeginFacts
<1>3. calls' = calls + 1 /\ calls' \in Ns
  BY <1>1, FanoutAssumption DEF Inv, Shape, Begin, Ns
<1>4. proc'[p].frame.n = calls'
  <2>1. proc' = [proc EXCEPT ![p] = [Idle EXCEPT
           !.pc = pc, !.obj = o, !.frame = [kind |-> kind, from |-> p, n |-> calls + 1]]]
    BY <1>1 DEF Begin
  <2> DEFINE f == [kind |-> kind, from |-> p, n |-> calls + 1]
             v == [Idle EXCEPT !.pc = pc, !.obj = o, !.frame = f]
  <2>2. v.frame = f /\ f.n = calls + 1
    BY DEF Idle
  <2>3. proc' = [proc EXCEPT ![p] = v]
    BY <2>1
  <2> HIDE DEF v
  <2>4. proc'[p] = v
    BY <2>3 DEF Inv, Shape
  <2> QED
    BY <1>3, <2>2, <2>4
<1>5. UNCHANGED <<snap, hist, histPos, log, inbox, notified>>
  BY DEF JoinCall, PartCall, MsgCall, InboundCall, ringVars
<1> QED
  BY <1>1, <1>2, <1>3, <1>4, <1>5 DEF StepOf, Started

(* A step of a handler that publishes moves it on or ends it. *)
LEMMA PublishStepOf ==
    ASSUME Inv, Numbered, NEW p \in Procs, PublishStep(p)
    PROVE  StepOf(p) /\ ~Started(p) /\ (Moved(p) \/ Ended(p))
<1>1. proc \in [Procs -> ProcStates]
  BY DEF Inv, Shape
<1>2. calls' = calls /\ calls \in Nat
  BY FanoutAssumption DEF Inv, Shape, PublishStep, LookupFast, Create, Snapshot, BroadcastBegin, Deliver,
     BroadcastEnd, AppendHistory, Notify
<1>3. CASE LookupFast(p) \/ Create(p)
  <2>1. proc[p].pc \in {"lookup", "create"}
    BY <1>3 DEF LookupFast, Create, At
  <2>2. Goto(p, "create") \/ \E o \in Objs : Found(p, o)
    BY <1>3 DEF LookupFast, Create, Inv, Shape
  <2>3. CASE Goto(p, "create")
    BY <1>1, <1>2, <2>1, <2>3 DEF Goto, StepOf, Started, Moved, Active, ProcStates
  <2>4. CASE \E o \in Objs : Found(p, o)
    <3>1. PICK o \in Objs : Found(p, o)
      BY <2>4
    <3>2. /\ proc'[p].pc = IF proc[p].frame.kind = "join" THEN "add" ELSE "snapshot"
          /\ proc'[p].frame = proc[p].frame
          /\ \A q \in Procs : q # p => proc'[q] = proc[q]
      BY <1>1, <3>1 DEF Found, ProcStates
    <3> QED
      BY <1>2, <2>1, <3>2 DEF StepOf, Started, Moved, Active
  <2> QED
    BY <2>2, <2>3, <2>4
<1>4. CASE Snapshot(p) \/ AppendHistory(p) \/ (BroadcastEnd(p) /\ Goto(p, "append"))
  <2>1. /\ proc[p].pc \in {"snapshot", "append", "deliver"}
        /\ \E pc \in {"broadcast", "notify", "append"} : Goto(p, pc)
    BY <1>4 DEF Snapshot, AppendHistory, BroadcastEnd, At
  <2>2. PICK pc \in {"broadcast", "notify", "append"} : Goto(p, pc)
    BY <2>1
  <2>3. /\ proc'[p].pc = pc /\ proc'[p].frame = proc[p].frame
        /\ \A q \in Procs : q # p => proc'[q] = proc[q]
    BY <1>1, <2>2 DEF Goto, ProcStates
  <2> QED
    BY <1>2, <2>1, <2>3 DEF StepOf, Started, Moved, Active
<1>5. CASE BroadcastBegin(p)
  BY <1>1, <1>2, <1>5 DEF BroadcastBegin, At, StepOf, Started, Moved, Active, ProcStates
<1>6. CASE \E c \in Conns : Deliver(p, c)
  BY <1>1, <1>2, <1>6 DEF Deliver, At, StepOf, Started, Moved, Active, ProcStates
<1>7. CASE Notify(p) \/ (BroadcastEnd(p) /\ Return(p))
  BY <1>1, <1>2, <1>7 DEF Notify, BroadcastEnd, Return, Idle, StepOf, Started, Ended, Active
<1> QED
  BY <1>3, <1>4, <1>5, <1>6, <1>7 DEF PublishStep, BroadcastEnd

(* A step that changes the members moves or ends its handler. *)
LEMMA MemberStepOf ==
    ASSUME Inv, Numbered, NEW c \in Conns,
           AddMember(c) \/ RemoveMember(c) \/ Leave(c) \/ Disconnect(c)
    PROVE  /\ StepOf(c)
           /\ \/ Moved(c) /\ proc[c].pc \in {"add", "remove"} /\ proc'[c].pc = "broadcast"
              \/ Ended(c)
           /\ UNCHANGED <<snap, hist, histPos, log, inbox, notified>>
<1> c \in Procs
  BY DEF Procs
<1>1. proc \in [Procs -> ProcStates]
  BY DEF Inv, Shape
<1>2. calls' = calls /\ UNCHANGED <<snap, hist, histPos, log, inbox, notified>>
  BY DEF AddMember, RemoveMember, Leave, Disconnect, ringVars
<1>3. CASE AddMember(c) \/ RemoveMember(c)
  <2>1. proc[c].pc \in {"add", "remove"} /\ (Return(c) \/ Goto(c, "broadcast"))
    BY <1>3 DEF AddMember, RemoveMember, At
  <2>2. CASE Return(c)
    BY <1>1, <1>2, <2>1, <2>2 DEF Return, Idle, StepOf, Ended, Active
  <2>3. CASE Goto(c, "broadcast")
    BY <1>1, <1>2, <2>1, <2>3 DEF Goto, StepOf, Moved, Active, ProcStates
  <2> QED
    BY <2>1, <2>2, <2>3
<1>4. CASE Leave(c) \/ Disconnect(c)
  <2>1. PICK v : proc' = [proc EXCEPT ![c] = v] /\ v.pc \in {"closed", "leave"}
    <3>1. CASE Leave(c)
      <4>1. [Idle EXCEPT !.pc = "closed"].pc = "closed"
        BY DEF Idle
      <4> QED
        BY <3>1, <4>1 DEF Leave
    <3>2. CASE Disconnect(c)
      <4> DEFINE v == [Idle EXCEPT !.pc = IF registry = None THEN "closed" ELSE "leave",
                                   !.obj = registry]
      <4>1. v.pc \in {"closed", "leave"}
        BY DEF Idle
      <4>2. proc' = [proc EXCEPT ![c] = v]
        BY <3>2 DEF Disconnect
      <4> HIDE DEF v
      <4> QED
        BY <4>1, <4>2
    <3> QED
      BY <1>4, <3>1, <3>2
  <2>2. proc'[c].pc \in {"closed", "leave"} /\ \A q \in Procs : q # c => proc'[q] = proc[q]
    BY <1>1, <2>1
  <2> QED
    BY <1>2, <2>2 DEF StepOf, Ended, Active
<1> QED
  BY <1>2, <1>3, <1>4

(* Every step is the step of one handler. *)
LEMMA SomeStep == Inv /\ Numbered /\ Next => \E p \in Procs : StepOf(p)
  BY StartStep, PublishStepOf, MemberStepOf DEF Next, ConnStep, Procs

(* The numbers stay distinct. *)
LEMMA NumberedStep == Inv /\ Numbered /\ [Next]_vars => Numbered'
<1> SUFFICES ASSUME Inv, Numbered, [Next]_vars PROVE Numbered'
  OBVIOUS
<1>1. CASE UNCHANGED vars
  BY <1>1 DEF vars, Numbered
<1>2. ASSUME NEW p \in Procs, StepOf(p) PROVE Numbered'
  <2>0. calls \in Nat /\ \A q \in Procs : q # p => proc'[q] = proc[q]
    BY <1>2, FanoutAssumption DEF Inv, Shape, StepOf
  <2>1. CASE Started(p)
    <3>1. 1..calls \subseteq 1..calls' /\ calls' \in 1..calls' /\ calls' \notin 1..calls
      BY <2>0, <2>1 DEF Started
    <3> QED
      BY <2>0, <2>1, <3>1 DEF Numbered, Started
  <2>2. CASE Moved(p)
    BY <2>0, <2>2 DEF Numbered, Moved
  <2>3. CASE Ended(p)
    BY <2>0, <2>3 DEF Numbered, Ended, Active
  <2> QED
    BY <1>2, <2>1, <2>2, <2>3 DEF StepOf
<1> QED
  BY <1>1, <1>2, SomeStep
-----------------------------------------------------------------------------
RingType ==
    /\ hist \in [Objs -> [Slots -> Ns \cup {None}]]
    /\ histPos \in [Objs -> Slots]
    /\ log \in [Objs -> Seq(Ns)]

(* The slot i places before the write position. *)
Back(pos, i) == IF i < pos THEN pos - 1 - i ELSE pos - 1 - i + RingDepth

(* Walking back from the write position one meets the log from its end,    *)
(* and then unused slots.                                                  *)
Mirrors(o) ==
    \A i \in Slots :
        hist[o][Back(histPos[o], i)] =
            IF i < Len(log[o]) THEN log[o][Len(log[o]) - i] ELSE None

RingInv == RingType /\ \A o \in Objs : Mirrors(o)

(* The arithmetic of the ring: the remainder the code computes is Back,    *)
(* and moving the write position on by one moves every slot one back.      *)
LEMMA BackIsRemainder ==
    ASSUME NEW pos \in Slots, NEW i \in Slots
    PROVE  Back(pos, i) \in Slots /\ (pos - 1 - i + RingDepth) % RingDepth = Back(pos, i)
<1> USE FanoutAssumption DEF Slots, Back
<1>1. CASE i < pos
  <2>1. \A x \in RingDepth..(2 * RingDepth - 1) : x % RingDepth = x - RingDepth
    OBVIOUS
  <2> QED
    BY <1>1, <2>1
<1>2. CASE ~(i < pos)
  <2>1. \A x \in 0..(RingDepth - 1) : x % RingDepth = x
    OBVIOUS
  <2> QED
    BY <1>2, <2>1
<1> QED
  BY <1>1, <1>2

(* The same for the write of AppendHistory. *)
LEMMA BackAfterWrite ==
    ASSUME NEW pos \in Slots
    PROVE  /\ (pos + 1) % RingDepth \in Slots
           /\ Back((pos + 1) % RingDepth, 0) = pos
           /\ \A i \in Slots : i # 0 => /\ i - 1 \in Slots
                                        /\ Back((pos + 1) % RingDepth, i) = Back(pos, i - 1)
                                        /\ Back(pos, i - 1) # pos
<1> USE FanoutAssumption DEF Slots, Back
<1>1. (pos + 1) % RingDepth = IF pos = RingDepth - 1 THEN 0 ELSE pos + 1
  <2>1. RingDepth % RingDepth = 0
    OBVIOUS
  <2>2. \A x \in 0..(RingDepth - 1) : x % RingDepth = x
    OBVIOUS
  <2>3. CASE pos = RingDepth - 1
    BY <2>1, <2>3
  <2>4. CASE pos # RingDepth - 1
    BY <2>2, <2>4
  <2> QED
    BY <2>3, <2>4
<1> QED
  BY <1>1

(* RecentMessages gives a piece of the log: the last n messages, or as     *)
(* many as there are or as fit the ring.                                   *)
LEMMA RecentIsLast ==
    ASSUME RingInv, NEW o \in Objs, NEW n \in Nat, NEW w \in {n, RingDepth, Len(log[o])},
           w <= n, w <= RingDepth, w <= Len(log[o])
    PROVE  RecentMessages(o, n) = SubSeq(log[o], Len(log[o]) - w + 1, Len(log[o]))
<1> DEFINE L == Len(log[o])
           back(i) == hist[o][(histPos[o] - 1 - i + RingDepth) % RingDepth]
           IsDepth(k) == /\ k <= n
                         /\ \A i \in 0..(k - 1) : back(i) # None
                         /\ k < n /\ k < RingDepth => back(k) = None
           depth == CHOOSE k \in 0..RingDepth : IsDepth(k)
<1>1. log[o] \in Seq(Ns) /\ L \in Nat /\ w \in Nat /\ w \in 0..RingDepth /\ histPos[o] \in Slots
  <2>1. log[o] \in Seq(Ns) /\ histPos[o] \in Slots
    BY DEF RingInv, RingType
  <2>2. L \in Nat
    BY <2>1, LenProperties
  <2> QED
    BY <2>1, <2>2, FanoutAssumption
<1>2. \A i \in Slots : back(i) = IF i < L THEN log[o][L - i] ELSE None
  BY <1>1, BackIsRemainder DEF RingInv, Mirrors
<1>3. \A j \in 1..L : log[o][j] \in Ns /\ log[o][j] # None
  <2>1. \A j \in 1..L : log[o][j] \in Ns
    BY <1>1, ElementOfSeq
  <2> QED
    BY <2>1, FanoutAssumption DEF Ns
<1>4. \A i \in Slots : (i < L) <=> (back(i) # None)
  <2>1. \A i \in Slots : i < L => L - i \in 1..L
    BY <1>1, FanoutAssumption DEF Slots
  <2> HIDE DEF back, L
  <2> QED
    BY <1>2, <1>3, <2>1
<1>5. IsDepth(w)
  <2>1. \A i \in 0..(w - 1) : i \in Slots /\ i < L
    BY <1>1, FanoutAssumption DEF Slots
  <2>2. w < n /\ w < RingDepth => w \in Slots /\ ~(w < L)
    BY <1>1, FanoutAssumption DEF Slots
  <2> HIDE DEF back, L
  <2> QED
    BY <1>4, <2>1, <2>2
<1>6. \A k \in 0..RingDepth : IsDepth(k) => k = w
  <2> SUFFICES ASSUME NEW k \in 0..RingDepth, IsDepth(k) PROVE k = w
    OBVIOUS
  <2>1. ~(w < k)
    <3> SUFFICES ASSUME w < k PROVE FALSE
      OBVIOUS
    <3>1. w \in 0..(k - 1) /\ w \in Slots /\ ~(w < L)
      BY <1>1, FanoutAssumption DEF Slots
    <3> HIDE DEF back, L
    <3> QED
      BY <1>4, <3>1
  <2>2. ~(k < w)
    <3> SUFFICES ASSUME k < w PROVE FALSE
      OBVIOUS
    <3>1. k < n /\ k < RingDepth /\ k \in Slots /\ k < L
      BY <1>1, FanoutAssumption DEF Slots
    <3> HIDE DEF back, L
    <3> QED
      BY <1>4, <3>1
  <2> QED
    BY <1>1, <2>1, <2>2
<1>7. depth = w
  <2> HIDE DEF IsDepth
  <2> QED
    BY <1>1, <1>5, <1>6
<1>8. RecentMessages(o, n) = [j \in 1..depth |-> back(depth - j)]
  BY DEF RecentMessages
<1>9. RecentMessages(o, n) = [j \in 1..w |-> log[o][L - w + j]]
  <2>1. \A j \in 1..w : w - j \in Slots /\ w - j < L /\ L - (w - j) = L - w + j
    BY <1>1, FanoutAssumption DEF Slots
  <2> HIDE DEF back, L, depth
  <2>2. \A j \in 1..w : back(w - j) = log[o][L - w + j]
    BY <1>2, <2>1
  <2> QED
    BY <1>7, <1>8, <2>2
<1>10. SubSeq(log[o], L - w + 1, L) = [j \in 1..w |-> log[o][L - w + j]]
  <2> DEFINE u == SubSeq(log[o], L - w + 1, L)
  <2>1. L - w + 1 \in 1..(L + 1) /\ L \in ((L - w + 1) - 1)..L
    BY <1>1
  <2>2. /\ u \in Seq(Ns) /\ Len(u) = L - (L - w + 1) + 1
        /\ \A j \in 1..(L - (L - w + 1) + 1) : u[j] = log[o][(L - w + 1) + j - 1]
    BY <1>1, <2>1, SubSeqProperties
  <2>3. L - (L - w + 1) + 1 = w /\ \A j \in 1..w : (L - w + 1) + j - 1 = L - w + j
    BY <1>1
  <2> HIDE DEF L, u
  <2>4. u \in [1..Len(u) -> Ns]
    BY <2>2, LenProperties
  <2>5. u = [j \in 1..w |-> log[o][L - w + j]]
    BY <2>2, <2>3, <2>4
  <2> QED
    BY <2>5 DEF u
<1> QED
  BY <1>9, <1>10

(* A handler past its lookup holds a struct of the registry. *)
LEMMA HoldsStruct ==
    ASSUME Inv, NEW p \in Procs, proc[p].pc \in Located
    PROVE  proc[p].obj = registry /\ registry \in Objs
  BY DEF Inv, OneStruct, Shape

(* What AppendHistory does to the log. *)
LEMMA AppendLog ==
    ASSUME Inv, Numbered, RingType, NEW p \in Procs, AppendHistory(p),
           NEW o \in Objs, o = proc[p].obj, NEW x, x = proc[p].frame.n
    PROVE  /\ proc[p].pc = "append" /\ x \in Ns /\ x \in 1..calls
           /\ log[o] \in Seq(Ns) /\ Len(log[o]) \in Nat
           /\ log' \in [Objs -> Seq(Ns)]
           /\ Len(log'[o]) = Len(log[o]) + 1
           /\ log'[o][Len(log[o]) + 1] = x
           /\ \A k \in 1..Len(log[o]) : log'[o][k] = log[o][k]
           /\ \A u \in Objs : u # o => log'[u] = log[u]
<1>1. proc[p].pc = "append"
  BY DEF AppendHistory, At
<1>2. x \in Ns /\ x \in 1..calls
  BY <1>1 DEF Numbered, Active, Frames
<1>3. log[o] \in Seq(Ns) /\ Len(log[o]) \in Nat
  <2>1. log[o] \in Seq(Ns)
    BY DEF RingType
  <2> QED
    BY <2>1, LenProperties
<1>4. log' = [log EXCEPT ![o] = Append(log[o], x)]
  BY DEF AppendHistory
<1>5. log'[o] = Append(log[o], x) /\ \A u \in Objs : u # o => log'[u] = log[u]
  BY <1>4 DEF RingType
<1>6. /\ Append(log[o], x) \in Seq(Ns)
      /\ Len(Append(log[o], x)) = Len(log[o]) + 1
      /\ Append(log[o], x)[Len(log[o]) + 1] = x
      /\ \A k \in 1..Len(log[o]) : Append(log[o], x)[k] = log[o][k]
  BY <1>2, <1>3, AppendProperties
<1>7. log' \in [Objs -> Seq(Ns)]
  BY <1>4, <1>6 DEF RingType
<1> QED
  BY <1>1, <1>2, <1>3, <1>5, <1>6, <1>7

(* AppendHistory keeps the ring a mirror of the log: the oldest slot is    *)
(* the one it overwrites.                                                  *)
LEMMA AppendRing ==
    ASSUME Inv, Numbered, RingInv, NEW p \in Procs, AppendHistory(p)
    PROVE  RingInv'
<1>0. proc[p].pc = "append"
  BY DEF AppendHistory, At
<1>1. PICK o \in Objs : o = proc[p].obj
  BY <1>0, HoldsStruct DEF Located
<1>2. PICK x : x = proc[p].frame.n
  OBVIOUS
<1>3. RingType
  BY DEF RingInv
<1>4. /\ x \in Ns
      /\ log[o] \in Seq(Ns) /\ Len(log[o]) \in Nat
      /\ log' \in [Objs -> Seq(Ns)]
      /\ Len(log'[o]) = Len(log[o]) + 1
      /\ log'[o][Len(log[o]) + 1] = x
      /\ \A k \in 1..Len(log[o]) : log'[o][k] = log[o][k]
      /\ \A u \in Objs : u # o => log'[u] = log[u]
  BY <1>1, <1>2, <1>3, AppendLog
<1>5. PICK pos \in Slots : pos = histPos[o]
  BY <1>3 DEF RingType
<1>6. hist[o] \in [Slots -> Ns \cup {None}]
  BY <1>3 DEF RingType
<1>7. /\ hist' = [hist EXCEPT ![o] = [hist[o] EXCEPT ![pos] = x]]
      /\ histPos' = [histPos EXCEPT ![o] = (pos + 1) % RingDepth]
  BY <1>1, <1>2, <1>3, <1>5 DEF AppendHistory, RingType
<1>8. /\ hist'[o][pos] = x
      /\ \A i \in Slots : i # pos => hist'[o][i] = hist[o][i]
      /\ \A u \in Objs : u # o => hist'[u] = hist[u] /\ histPos'[u] = histPos[u]
      /\ histPos'[o] = (pos + 1) % RingDepth
  BY <1>3, <1>6, <1>7 DEF RingType
<1>9. RingType'
  <2>1. [hist[o] EXCEPT ![pos] = x] \in [Slots -> Ns \cup {None}]
    BY <1>4, <1>6
  <2>2. (pos + 1) % RingDepth \in Slots
    BY BackAfterWrite
  <2> QED
    BY <1>3, <1>4, <1>7, <2>1, <2>2 DEF RingType
<1>10. Mirrors(o)'
  <2> SUFFICES ASSUME NEW i \in Slots
               PROVE  hist'[o][Back(histPos'[o], i)] =
                         IF i < Len(log'[o]) THEN log'[o][Len(log'[o]) - i] ELSE None
    BY DEF Mirrors, Back
  <2>1. CASE i = 0
    <3>1. Back(histPos'[o], i) = pos
      BY <1>8, <2>1, BackAfterWrite
    <3>2. i < Len(log'[o]) /\ Len(log'[o]) - i = Len(log[o]) + 1
      BY <1>4, <2>1
    <3> QED
      BY <1>4, <1>8, <3>1, <3>2
  <2>2. CASE i # 0
    <3>1. /\ i - 1 \in Slots /\ Back(histPos'[o], i) = Back(pos, i - 1)
          /\ Back(pos, i - 1) # pos /\ Back(pos, i - 1) \in Slots
      BY <1>8, <2>2, BackAfterWrite, BackIsRemainder
    <3>2. hist'[o][Back(histPos'[o], i)] = hist[o][Back(pos, i - 1)]
      BY <1>8, <3>1
    <3>3. hist[o][Back(pos, i - 1)] =
             IF i - 1 < Len(log[o]) THEN log[o][Len(log[o]) - (i - 1)] ELSE None
      BY <1>5, <3>1 DEF RingInv, Mirrors
    <3>4. CASE i - 1 < Len(log[o])
      <4>1. /\ i < Len(log'[o]) /\ Len(log'[o]) - i = Len(log[o]) - (i - 1)
            /\ Len(log'[o]) - i \in 1..Len(log[o])
        BY <1>4, <2>2, <3>4, FanoutAssumption DEF Slots
      <4> QED
        BY <1>4, <3>2, <3>3, <3>4, <4>1
    <3>5. CASE ~(i - 1 < Len(log[o]))
      <4>1. ~(i < Len(log'[o]))
        BY <1>4, <3>5, FanoutAssumption DEF Slots
      <4> QED
        BY <3>2, <3>3, <3>5, <4>1
    <3> QED
      BY <3>4, <3>5
  <2> QED
    BY <2>1, <2>2
<1>11. ASSUME NEW u \in Objs, u # o PROVE Mirrors(u)'
  <2>1. Mirrors(u) /\ hist'[u] = hist[u] /\ histPos'[u] = histPos[u] /\ log'[u] = log[u]
    BY <1>4, <1>8, <1>11 DEF RingInv
  <2> QED
    BY <2>1 DEF Mirrors, Back
<1> QED
  BY <1>9, <1>10, <1>11 DEF RingInv

(* Only AppendHistory touches the ring. *)
LEMMA RingStep == Inv /\ Numbered /\ RingInv /\ [Next]_vars => RingInv'
<1> SUFFICES ASSUME Inv, Numbered, RingInv, [Next]_vars PROVE RingInv'
  OBVIOUS
<1>1. UNCHANGED ringVars \/ \E p \in Procs : AppendHistory(p)
  BY DEF Next, ConnStep, PublishStep, JoinCall, AddMember, PartCall, RemoveMember, MsgCall, Disconnect,
     Leave, InboundCall, LookupFast, Create, Snapshot, BroadcastBegin, Deliver, BroadcastEnd, Notify,
     vars, ringVars
<1>2. CASE UNCHANGED ringVars
  BY <1>2 DEF ringVars, RingInv, RingType, Mirrors, Back
<1> QED
  BY <1>1, <1>2, AppendRing

(* The numbers and the ring at first. *)
LEMMA InitRing == Init => Numbered /\ RingInv
<1> SUFFICES ASSUME Init PROVE Numbered /\ RingInv
  OBVIOUS
<1>1. \A p \in Procs : proc[p].pc = "idle"
  BY DEF Init, Idle
<1>2. Numbered
  BY <1>1 DEF Numbered, Active
<1>3. RingType
  <2>1. 0 \in Slots /\ <<>> \in Seq(Ns)
    BY FanoutAssumption DEF Slots
  <2> QED
    BY <2>1 DEF Init, RingType
<1>4. ASSUME NEW o \in Objs, NEW i \in Slots
      PROVE  hist[o][Back(histPos[o], i)] = None /\ ~(i < Len(log[o]))
  <2>1. Back(histPos[o], i) \in Slots
    BY <1>3, BackIsRemainder DEF RingType
  <2>2. Len(log[o]) = 0
    BY DEF Init
  <2> QED
    BY <2>1, <2>2, FanoutAssumption DEF Init, Slots
<1> QED
  BY <1>2, <1>3, <1>4 DEF RingInv, Mirrors

(* channels.go, AppendHistory and RecentMessages: for every n the ring     *)
(* gives the last n messages put into it, oldest first, or as many as it   *)
(* has or can hold, for a ring of any depth and however often it wrapped.  *)
THEOREM RingIsTheTail == Spec => []RingKeepsTheLast
<1>1. RingInv => RingKeepsTheLast
  <2> SUFFICES ASSUME RingInv, NEW o \in Objs, NEW n \in 0..(RingDepth + 1)
               PROVE  LET have == Len(log[o])
                          want == CHOOSE k \in {n, RingDepth, have} :
                                     \A x \in {n, RingDepth, have} : k <= x
                      IN  RecentMessages(o, n) = SubSeq(log[o], have - want + 1, have)
    BY DEF RingKeepsTheLast
  <2> DEFINE S == {n, RingDepth, Len(log[o])}
             want == CHOOSE k \in S : \A x \in S : k <= x
  <2>1. log[o] \in Seq(Ns)
    BY DEF RingInv, RingType
  <2>2. Len(log[o]) \in Nat /\ n \in Nat /\ RingDepth \in Nat
    BY <2>1, LenProperties, FanoutAssumption
  <2>3. \E k \in S : \A x \in S : k <= x
    BY <2>2
  <2>4. want \in S /\ \A x \in S : want <= x
    BY <2>3
  <2>5. want <= n /\ want <= RingDepth /\ want <= Len(log[o])
    BY <2>4
  <2> HIDE DEF want
  <2>6. RecentMessages(o, n) = SubSeq(log[o], Len(log[o]) - want + 1, Len(log[o]))
    BY <2>2, <2>4, <2>5, RecentIsLast
  <2> QED
    BY <2>6 DEF want
<1> QED
  BY InitInv, InitRing, NextInv, NumberedStep, RingStep, <1>1, PTL DEF Spec
-----------------------------------------------------------------------------
(* Every message of ctx is in the log of o, before place k. *)
Before(o, k, ctx) ==
    \A i \in 1..Len(ctx) : \E j \in 1..(k - 1) : log[o][j] = ctx[i]

(* Message n is in a log, and every message of ctx is there before it. *)
Preceded(n, ctx) ==
    \E o \in Objs : \E k \in 1..Len(log[o]) : log[o][k] = n /\ Before(o, k, ctx)

(* A handler that is about to append the message it took a snapshot for. *)
Publishing(p) ==
    \/ proc[p].pc \in {"broadcast", "deliver"} /\ proc[p].frame.kind = "msg"
    \/ proc[p].pc = "append"

(* No message is in two places of the logs. *)
LoggedOnce ==
    \A o, u \in Objs : \A k \in 1..Len(log[o]), l \in 1..Len(log[u]) :
        log[o][k] = log[u][l] => o = u /\ k = l

(* What is in the log was sent, and is no message yet to be appended. *)
LoggedIsOld ==
    \A o \in Objs : \A k \in 1..Len(log[o]) :
        /\ log[o][k] \in 1..calls
        /\ \A p \in Procs : proc[p].pc \in Active \ {"notify"} => proc[p].frame.n # log[o][k]

ContextInv ==
    /\ snap \in [Procs -> Seq(Ns)]
    /\ notified \subseteq [n : Ns, ctx : Seq(Ns)]
    /\ LoggedOnce
    /\ LoggedIsOld
    /\ \A p \in Procs : Publishing(p) => Before(proc[p].obj, Len(log[proc[p].obj]) + 1, snap[p])
    /\ \A p \in Procs : proc[p].pc = "notify" => Preceded(proc[p].frame.n, snap[p])
    /\ \A e \in notified : Preceded(e.n, e.ctx)

(* A step of p that touches neither log nor snapshots nor events, and does *)
(* not bring p closer to its Notify than it was.                           *)
LEMMA ContextKept ==
    ASSUME Inv, ContextInv, NEW p \in Procs, StepOf(p), UNCHANGED <<log, snap, notified>>,
           proc'[p].pc # "notify",
           Publishing(p)' => Publishing(p) /\ proc'[p].obj = proc[p].obj,
           Moved(p) => proc[p].pc # "notify"
    PROVE  ContextInv'
<1>1. calls \in Nat /\ \A q \in Procs : q # p => proc'[q] = proc[q]
  BY FanoutAssumption DEF StepOf, Inv, Shape
<1>2. LoggedOnce'
  BY DEF ContextInv, LoggedOnce
<1>3. LoggedIsOld'
  <2> SUFFICES ASSUME NEW o \in Objs, NEW k \in 1..Len(log[o]), NEW q \in Procs
               PROVE  /\ log[o][k] \in 1..calls'
                      /\ proc'[q].pc \in Active \ {"notify"} => proc'[q].frame.n # log[o][k]
    BY DEF LoggedIsOld
  <2>1. /\ log[o][k] \in 1..calls
        /\ proc[q].pc \in Active \ {"notify"} => proc[q].frame.n # log[o][k]
    BY DEF ContextInv, LoggedIsOld
  <2>2. CASE Started(p)
    BY <1>1, <2>1, <2>2 DEF Started
  <2>3. CASE Moved(p)
    BY <1>1, <2>1, <2>3 DEF Moved
  <2>4. CASE Ended(p)
    BY <1>1, <2>1, <2>4 DEF Ended
  <2> QED
    BY <2>2, <2>3, <2>4 DEF StepOf
<1>4. (\A q \in Procs : Publishing(q) => Before(proc[q].obj, Len(log[proc[q].obj]) + 1, snap[q]))'
  <2> SUFFICES ASSUME NEW q \in Procs, Publishing(q)'
               PROVE  Before(proc'[q].obj, Len(log[proc'[q].obj]) + 1, snap[q])
    BY DEF Before
  <2>1. Publishing(q) /\ proc'[q].obj = proc[q].obj
    BY <1>1 DEF Publishing
  <2> QED
    BY <2>1 DEF ContextInv
<1>5. (\A q \in Procs : proc[q].pc = "notify" => Preceded(proc[q].frame.n, snap[q]))'
  <2> SUFFICES ASSUME NEW q \in Procs, proc'[q].pc = "notify"
               PROVE  Preceded(proc'[q].frame.n, snap[q])
    BY DEF Preceded, Before
  <2>1. proc'[q] = proc[q]
    BY <1>1
  <2> QED
    BY <2>1 DEF ContextInv
<1>6. (\A e \in notified : Preceded(e.n, e.ctx))'
  BY DEF ContextInv, Preceded, Before
<1> QED
  BY <1>2, <1>3, <1>4, <1>5, <1>6 DEF ContextInv

(* The ring of the handler's struct is read: the context is in the log. *)
LEMMA SnapshotContext ==
    ASSUME Inv, Numbered, RingInv, ContextInv, NEW p \in Procs, Snapshot(p)
    PROVE  ContextInv'
<1>0. proc[p].pc = "snapshot" /\ UNCHANGED <<log, notified>>
  BY DEF Snapshot, At, ringVars
<1>1. PICK o \in Objs : o = proc[p].obj
  BY <1>0, HoldsStruct DEF Located
<1>2. log[o] \in Seq(Ns) /\ Len(log[o]) \in Nat /\ RingDepth \in Nat
  <2>1. log[o] \in Seq(Ns)
    BY DEF RingInv, RingType
  <2> QED
    BY <2>1, LenProperties, FanoutAssumption
<1>w. PICK w \in {RingDepth, Len(log[o])} : w <= RingDepth /\ w <= Len(log[o])
  BY <1>2
<1>m. PICK m \in 1..(Len(log[o]) + 1) : m = Len(log[o]) - w + 1
  <2>1. Len(log[o]) - w + 1 \in 1..(Len(log[o]) + 1)
    BY <1>2, <1>w
  <2> QED
    BY <2>1
<1>3. RecentMessages(o, RingDepth) = SubSeq(log[o], m, Len(log[o]))
  <2>1. RecentMessages(o, RingDepth) = SubSeq(log[o], Len(log[o]) - w + 1, Len(log[o]))
    BY <1>2, <1>w, RecentIsLast
  <2> QED
    BY <1>m, <2>1
<1>4. PICK r : r = RecentMessages(o, RingDepth)
  OBVIOUS
<1>5. /\ r \in Seq(Ns)
      /\ \A i \in 1..Len(r) : i + m - 1 \in 1..Len(log[o]) /\ r[i] = log[o][i + m - 1]
  <2>1. \A i \in m..Len(log[o]) : log[o][i] \in Ns
    <3>1. \A i \in 1..Len(log[o]) : log[o][i] \in Ns
      BY <1>2, ElementOfSeq
    <3> QED
      BY <1>2, <3>1
  <2>2. /\ r \in Seq(Ns)
        /\ Len(r) = IF m <= Len(log[o]) THEN Len(log[o]) - m + 1 ELSE 0
        /\ \A i \in 1..(Len(log[o]) - m + 1) : r[i] = log[o][m + i - 1]
    BY <1>2, <1>3, <1>4, <2>1, SubSeqProperties
  <2>3. \A i \in 1..Len(r) : /\ i \in 1..(Len(log[o]) - m + 1)
                             /\ m + i - 1 = i + m - 1 /\ i + m - 1 \in 1..Len(log[o])
    BY <1>2, <2>2
  <2> QED
    BY <2>2, <2>3
<1>6. Before(o, Len(log[o]) + 1, r)
  <2>1. (Len(log[o]) + 1) - 1 = Len(log[o])
    BY <1>2
  <2> QED
    BY <1>5, <2>1 DEF Before
<1>7. snap' = [snap EXCEPT ![p] = r]
  BY <1>1, <1>4 DEF Snapshot
<1>8. snap' \in [Procs -> Seq(Ns)] /\ snap'[p] = r /\ \A q \in Procs : q # p => snap'[q] = snap[q]
  BY <1>5, <1>7 DEF ContextInv
<1>9. /\ proc'[p].pc = "broadcast" /\ proc'[p].frame = proc[p].frame /\ proc'[p].obj = o
      /\ \A q \in Procs : q # p => proc'[q] = proc[q]
      /\ calls' = calls
  BY <1>1 DEF Snapshot, Goto, Inv, Shape, ProcStates
<1>10. LoggedOnce'
  BY <1>0 DEF ContextInv, LoggedOnce
<1>11. LoggedIsOld'
  <2> SUFFICES ASSUME NEW u \in Objs, NEW k \in 1..Len(log[u]), NEW q \in Procs
               PROVE  /\ log[u][k] \in 1..calls
                      /\ proc'[q].pc \in Active \ {"notify"} => proc'[q].frame.n # log[u][k]
    BY <1>0, <1>9 DEF LoggedIsOld
  <2>1. /\ log[u][k] \in 1..calls
        /\ proc[q].pc \in Active \ {"notify"} => proc[q].frame.n # log[u][k]
    BY DEF ContextInv, LoggedIsOld
  <2>2. CASE q = p
    BY <1>0, <1>9, <2>1, <2>2 DEF Active
  <2> QED
    BY <1>9, <2>1, <2>2
<1>12. (\A q \in Procs : Publishing(q) => Before(proc[q].obj, Len(log[proc[q].obj]) + 1, snap[q]))'
  <2> SUFFICES ASSUME NEW q \in Procs, Publishing(q)'
               PROVE  Before(proc'[q].obj, Len(log[proc'[q].obj]) + 1, snap'[q])
    BY <1>0 DEF Before
  <2>1. CASE q = p
    BY <1>6, <1>8, <1>9, <2>1
  <2>2. CASE q # p
    <3>1. Publishing(q) /\ proc'[q] = proc[q] /\ snap'[q] = snap[q]
      BY <1>8, <1>9, <2>2 DEF Publishing
    <3> QED
      BY <3>1 DEF ContextInv
  <2> QED
    BY <2>1, <2>2
<1>13. (\A q \in Procs : proc[q].pc = "notify" => Preceded(proc[q].frame.n, snap[q]))'
  <2> SUFFICES ASSUME NEW q \in Procs, proc'[q].pc = "notify"
               PROVE  Preceded(proc'[q].frame.n, snap'[q])
    BY ZenonT(60), <1>0 DEF Preceded, Before
  <2>1. proc'[q] = proc[q] /\ snap'[q] = snap[q]
    BY <1>8, <1>9
  <2> QED
    BY <2>1 DEF ContextInv
<1>14. (\A e \in notified : Preceded(e.n, e.ctx))'
  <2>1. notified' = notified /\ log' = log
    BY <1>0
  <2>2. \A e \in notified : Preceded(e.n, e.ctx)
    BY DEF ContextInv
  <2> QED
    BY <2>1, <2>2 DEF Preceded, Before
<1>15. (notified \subseteq [n : Ns, ctx : Seq(Ns)])'
  BY <1>0 DEF ContextInv
<1> QED
  BY <1>8, <1>10, <1>11, <1>12, <1>13, <1>14, <1>15 DEF ContextInv

(* The message enters the log behind everything its snapshot can hold. *)
LEMMA AppendContext ==
    ASSUME Inv, Numbered, RingInv, ContextInv, NEW p \in Procs, AppendHistory(p)
    PROVE  ContextInv'
<1>0. proc[p].pc = "append" /\ UNCHANGED <<snap, notified, calls>>
  BY DEF AppendHistory, At
<1>1. PICK o \in Objs : o = proc[p].obj
  BY <1>0, HoldsStruct DEF Located
<1>2. PICK x : x = proc[p].frame.n
  OBVIOUS
<1>3. PICK L \in Nat : L = Len(log[o])
  <2>1. log[o] \in Seq(Ns)
    BY DEF RingInv, RingType
  <2> QED
    BY <2>1, LenProperties
<1>4. /\ x \in 1..calls /\ Len(log'[o]) = L + 1 /\ log'[o][L + 1] = x
      /\ \A k \in 1..L : log'[o][k] = log[o][k]
      /\ \A u \in Objs : u # o => log'[u] = log[u]
  <2>1. RingType
    BY DEF RingInv
  <2>2. /\ x \in Ns /\ log[o] \in Seq(Ns) /\ Len(log[o]) \in Nat
        /\ Len(log'[o]) = Len(log[o]) + 1 /\ log'[o][Len(log[o]) + 1] = x
        /\ \A k \in 1..Len(log[o]) : log'[o][k] = log[o][k]
        /\ \A u \in Objs : u # o => log'[u] = log[u]
    BY <1>1, <1>2, <2>1, AppendLog
  <2>3. x \in 1..calls
    BY <1>0, <1>2 DEF Numbered, Active
  <2> QED
    BY <1>3, <2>2, <2>3
<1>5. /\ proc'[p].pc = "notify" /\ proc'[p].frame = proc[p].frame
      /\ \A q \in Procs : q # p => proc'[q] = proc[q]
  BY DEF AppendHistory, Goto, Inv, Shape, ProcStates
<1>6. \A u \in Objs : \A k \in 1..Len(log'[u]) :
        \/ k \in 1..Len(log[u]) /\ log'[u][k] = log[u][k]
        \/ u = o /\ k = L + 1 /\ log'[u][k] = x
  BY <1>3, <1>4
<1>7. \A u \in Objs : \A k \in 1..Len(log[u]) : k \in 1..Len(log'[u]) /\ log'[u][k] = log[u][k]
  BY <1>3, <1>4
<1>8. \A u \in Objs : \A k \in 1..Len(log[u]) : log[u][k] # x
  BY <1>0, <1>2 DEF ContextInv, LoggedIsOld, Active
<1>9. LoggedOnce'
  <2> SUFFICES ASSUME NEW u \in Objs, NEW v \in Objs, NEW k \in 1..Len(log'[u]), NEW l \in 1..Len(log'[v]),
                      log'[u][k] = log'[v][l]
               PROVE  u = v /\ k = l
    BY DEF LoggedOnce
  <2>1. CASE k \in 1..Len(log[u]) /\ l \in 1..Len(log[v])
    BY <1>7, <2>1 DEF ContextInv, LoggedOnce
  <2>2. CASE k \notin 1..Len(log[u])
    <3>1. u = o /\ k = L + 1 /\ log'[v][l] = x
      BY <1>6, <2>2
    <3>2. l \notin 1..Len(log[v])
      BY <1>7, <1>8, <3>1
    <3> QED
      BY <1>6, <3>1, <3>2
  <2>3. CASE l \notin 1..Len(log[v])
    <3>1. v = o /\ l = L + 1 /\ log'[u][k] = x
      BY <1>6, <2>3
    <3>2. k \notin 1..Len(log[u])
      BY <1>7, <1>8, <3>1
    <3> QED
      BY <1>6, <3>1, <3>2
  <2> QED
    BY <2>1, <2>2, <2>3
<1>10. LoggedIsOld'
  <2> SUFFICES ASSUME NEW u \in Objs, NEW k \in 1..Len(log'[u]), NEW q \in Procs
               PROVE  /\ log'[u][k] \in 1..calls
                      /\ proc'[q].pc \in Active \ {"notify"} => proc'[q].frame.n # log'[u][k]
    BY <1>0 DEF LoggedIsOld
  <2>1. CASE k \in 1..Len(log[u])
    <3>1. /\ log[u][k] \in 1..calls
          /\ proc[q].pc \in Active \ {"notify"} => proc[q].frame.n # log[u][k]
      BY <2>1 DEF ContextInv, LoggedIsOld
    <3>2. log'[u][k] = log[u][k]
      BY <1>7, <2>1
    <3> QED
      BY <1>5, <3>1, <3>2
  <2>2. CASE k \notin 1..Len(log[u])
    <3>1. log'[u][k] = x
      BY <1>6, <2>2
    <3>2. proc'[q].pc \in Active \ {"notify"} => q # p /\ proc'[q] = proc[q]
      BY <1>5
    <3> QED
      BY <1>0, <1>2, <1>4, <3>1, <3>2 DEF Numbered, Active
  <2> QED
    BY <2>1, <2>2
<1>11. ASSUME NEW u \in Objs, NEW k \in Nat, k <= Len(log[u]) + 1, NEW ctx, Before(u, k, ctx)
       PROVE  Before(u, k, ctx)'
  <2>0. Len(log[u]) \in Nat
    <3>1. log[u] \in Seq(Ns)
      BY DEF RingInv, RingType
    <3> QED
      BY <3>1, LenProperties
  <2>1. \A j \in 1..(k - 1) : j \in 1..Len(log[u])
    BY <1>11, <2>0
  <2> QED
    BY <1>7, <1>11, <2>1 DEF Before
<1>12. ASSUME NEW n, NEW ctx, Preceded(n, ctx)
       PROVE  Preceded(n, ctx)'
  <2>0. PICK u \in Objs : \E k \in 1..Len(log[u]) : log[u][k] = n /\ Before(u, k, ctx)
    BY <1>12 DEF Preceded
  <2>1. PICK k \in 1..Len(log[u]) : log[u][k] = n /\ Before(u, k, ctx)
    BY <2>0
  <2>2. k \in Nat /\ k <= Len(log[u]) + 1
    <3>1. log[u] \in Seq(Ns)
      BY DEF RingInv, RingType
    <3>2. Len(log[u]) \in Nat
      BY <3>1, LenProperties
    <3> QED
      BY <3>2
  <2>3. Before(u, k, ctx)' /\ k \in 1..Len(log'[u]) /\ log'[u][k] = n
    BY <1>7, <1>11, <2>1, <2>2
  <2> QED
    BY <2>3 DEF Preceded
<1>13. (\A q \in Procs : Publishing(q) => Before(proc[q].obj, Len(log[proc[q].obj]) + 1, snap[q]))'
  <2> SUFFICES ASSUME NEW q \in Procs, Publishing(q)'
               PROVE  Before(proc[q].obj, Len(log[proc[q].obj]) + 1, snap[q])'
    OBVIOUS
  <2>1. q # p /\ proc'[q] = proc[q] /\ Publishing(q)
    BY <1>5 DEF Publishing
  <2>2. PICK u \in Objs : u = proc[q].obj
    BY <2>1, HoldsStruct DEF Publishing, Located
  <2>3. PICK K \in Nat : K = Len(log[u])
    <3>1. log[u] \in Seq(Ns)
      BY DEF RingInv, RingType
    <3> QED
      BY <3>1, LenProperties
  <2>4. Before(u, K + 1, snap[q])
    BY <2>1, <2>2, <2>3 DEF ContextInv
  <2>5. Before(u, K + 1, snap[q])'
    BY <1>0, <1>11, <2>3, <2>4
  <2>6. Len(log'[u]) \in {K, K + 1}
    BY <1>3, <1>4, <2>3
  <2> QED
    BY <2>1, <2>2, <2>3, <2>5, <2>6 DEF Before
<1>14. (\A q \in Procs : proc[q].pc = "notify" => Preceded(proc[q].frame.n, snap[q]))'
  <2> SUFFICES ASSUME NEW q \in Procs, proc'[q].pc = "notify"
               PROVE  Preceded(proc[q].frame.n, snap[q])'
    OBVIOUS
  <2>1. CASE q = p
    <3>1. Before(o, L + 1, snap[p])
      BY <1>0, <1>1, <1>3 DEF ContextInv, Publishing
    <3>2. Before(o, L + 1, snap[p])'
      BY <1>0, <1>3, <1>11, <3>1
    <3>3. L + 1 \in 1..Len(log'[o]) /\ log'[o][L + 1] = proc'[p].frame.n
      BY <1>2, <1>3, <1>4, <1>5
    <3> QED
      BY <2>1, <3>2, <3>3 DEF Preceded
  <2>2. CASE q # p
    <3>1. proc'[q] = proc[q] /\ Preceded(proc[q].frame.n, snap[q])
      BY <1>5, <2>2 DEF ContextInv
    <3>2. PICK n : n = proc[q].frame.n
      OBVIOUS
    <3>3. PICK ctx : ctx = snap[q]
      OBVIOUS
    <3>4. Preceded(n, ctx)'
      BY <1>12, <3>1, <3>2, <3>3
    <3> QED
      BY <1>0, <3>1, <3>2, <3>3, <3>4
  <2> QED
    BY <2>1, <2>2
<1>15. (\A e \in notified : Preceded(e.n, e.ctx))'
  BY <1>0, <1>12 DEF ContextInv
<1> QED
  BY <1>0, <1>9, <1>10, <1>13, <1>14, <1>15 DEF ContextInv

(* The event is given on with the snapshot. *)
LEMMA NotifyContext ==
    ASSUME Inv, Numbered, ContextInv, NEW p \in Procs, Notify(p)
    PROVE  ContextInv'
<1>0. proc[p].pc = "notify" /\ log' = log /\ snap' = snap /\ calls' = calls
  BY DEF Notify, At, ringVars
<1>1. proc'[p].pc = "idle" /\ \A q \in Procs : q # p => proc'[q] = proc[q]
  BY DEF Notify, Return, Idle, Inv, Shape
<1>2. PICK e : e = [n |-> proc[p].frame.n, ctx |-> snap[p]]
  OBVIOUS
<1>3. notified' = notified \cup {e}
  BY <1>2 DEF Notify
<1>4. e \in [n : Ns, ctx : Seq(Ns)]
  BY <1>0, <1>2 DEF ContextInv, Numbered, Active, Frames
<1>5. (snap \in [Procs -> Seq(Ns)])' /\ (notified \subseteq [n : Ns, ctx : Seq(Ns)])'
  BY <1>0, <1>3, <1>4 DEF ContextInv
<1>6. LoggedOnce'
  BY <1>0 DEF ContextInv, LoggedOnce
<1>7. LoggedIsOld'
  <2> SUFFICES ASSUME NEW u \in Objs, NEW k \in 1..Len(log[u]), NEW q \in Procs
               PROVE  /\ log[u][k] \in 1..calls
                      /\ proc'[q].pc \in Active \ {"notify"} => proc'[q].frame.n # log[u][k]
    BY <1>0 DEF LoggedIsOld
  <2>1. /\ log[u][k] \in 1..calls
        /\ proc[q].pc \in Active \ {"notify"} => proc[q].frame.n # log[u][k]
    BY DEF ContextInv, LoggedIsOld
  <2>2. CASE q = p
    BY <1>1, <2>1, <2>2 DEF Active
  <2> QED
    BY <1>1, <2>1, <2>2
<1>8. (\A q \in Procs : Publishing(q) => Before(proc[q].obj, Len(log[proc[q].obj]) + 1, snap[q]))'
  <2> SUFFICES ASSUME NEW q \in Procs, Publishing(q)'
               PROVE  Before(proc'[q].obj, Len(log[proc'[q].obj]) + 1, snap[q])
    BY <1>0 DEF Before
  <2>1. proc'[q] = proc[q] /\ Publishing(q)
    BY <1>1 DEF Publishing
  <2> QED
    BY <2>1 DEF ContextInv
<1>9. (\A q \in Procs : proc[q].pc = "notify" => Preceded(proc[q].frame.n, snap[q]))'
  <2> SUFFICES ASSUME NEW q \in Procs, proc'[q].pc = "notify"
               PROVE  Preceded(proc'[q].frame.n, snap[q])
    BY <1>0 DEF Preceded, Before
  <2>1. proc'[q] = proc[q]
    BY <1>1
  <2> QED
    BY <2>1 DEF ContextInv
<1>10. (\A f \in notified : Preceded(f.n, f.ctx))'
  <2> SUFFICES ASSUME NEW f \in notified' PROVE Preceded(f.n, f.ctx)
    BY <1>0 DEF Preceded, Before
  <2>1. CASE f \in notified
    BY <2>1 DEF ContextInv
  <2>2. CASE f = e
    <3>1. f.n = proc[p].frame.n /\ f.ctx = snap[p]
      BY <1>2, <2>2
    <3> QED
      BY <1>0, <3>1 DEF ContextInv
  <2> QED
    BY <1>3, <2>1, <2>2
<1> QED
  BY <1>5, <1>6, <1>7, <1>8, <1>9, <1>10 DEF ContextInv

(* Every step keeps ContextInv. *)
LEMMA ContextStep == Inv /\ Numbered /\ RingInv /\ ContextInv /\ [Next]_vars => ContextInv'
<1> SUFFICES ASSUME Inv, Numbered, RingInv, ContextInv, [Next]_vars PROVE ContextInv'
  OBVIOUS
<1>1. CASE UNCHANGED vars
  BY <1>1 DEF vars, ContextInv, LoggedOnce, LoggedIsOld, Publishing, Before, Preceded
<1>2. ASSUME NEW p \in Procs, StepOf(p), Started(p) PROVE ContextInv'
  <2>1. UNCHANGED <<log, snap, notified>> /\ proc'[p].pc \in {"lookup", "remove", "snapshot"}
    BY <1>2 DEF Started
  <2>2. ~Publishing(p)' /\ ~Moved(p)
    BY <1>2, <2>1 DEF Publishing, Moved, Started, Active
  <2> QED
    BY <1>2, <2>1, <2>2, ContextKept
<1>3. ASSUME NEW c \in Conns, AddMember(c) \/ RemoveMember(c) \/ Leave(c) \/ Disconnect(c)
      PROVE  ContextInv'
  <2> c \in Procs
    BY DEF Procs
  <2>1. /\ StepOf(c)
        /\ \/ Moved(c) /\ proc[c].pc \in {"add", "remove"} /\ proc'[c].pc = "broadcast"
           \/ Ended(c)
        /\ UNCHANGED <<snap, log, notified>>
    BY <1>3, MemberStepOf
  <2>2. ~Publishing(c)' /\ proc'[c].pc # "notify"
    <3>1. CASE Moved(c) /\ proc[c].pc \in {"add", "remove"} /\ proc'[c].pc = "broadcast"
      <4>1. proc[c].frame.kind \in {"join", "part"} /\ proc'[c].frame = proc[c].frame
        BY <3>1 DEF Moved, Numbered
      <4> QED
        BY <3>1, <4>1 DEF Publishing
    <3>2. CASE Ended(c)
      BY <3>2 DEF Ended, Active, Publishing
    <3> QED
      BY <2>1, <3>1, <3>2
  <2>3. Moved(c) => proc[c].pc # "notify"
    BY <2>1 DEF Moved, Ended
  <2> QED
    BY <2>1, <2>2, <2>3, ContextKept
<1>4. ASSUME NEW p \in Procs, LookupFast(p) \/ Create(p) PROVE ContextInv'
  <2>1. StepOf(p) /\ UNCHANGED <<snap, log, notified>>
    BY <1>4, PublishStepOf DEF PublishStep, LookupFast, Create, ringVars
  <2>2. proc'[p].pc \in {"create", "add", "snapshot"}
    BY ZenonT(60), <1>4 DEF LookupFast, Create, Goto, Found, Inv, Shape, ProcStates
  <2>3. proc[p].pc # "notify"
    BY <1>4 DEF LookupFast, Create, At
  <2>4. ~Publishing(p)'
    BY <2>2 DEF Publishing
  <2> QED
    BY <2>1, <2>2, <2>3, <2>4, ContextKept
<1>5. ASSUME NEW p \in Procs, BroadcastBegin(p) \/ (\E c \in Conns : Deliver(p, c)) \/ BroadcastEnd(p)
      PROVE  ContextInv'
  <2>1. StepOf(p) /\ UNCHANGED <<snap, log, notified>>
    BY <1>5, PublishStepOf DEF PublishStep, BroadcastBegin, Deliver, BroadcastEnd, ringVars
  <2>2. proc[p].pc \in {"broadcast", "deliver"}
    BY <1>5 DEF BroadcastBegin, Deliver, BroadcastEnd, At
  <2>3. /\ proc'[p].pc \in {"deliver", "append", "idle"}
        /\ proc'[p].pc # "idle" => proc'[p].obj = proc[p].obj /\ proc'[p].frame = proc[p].frame
        /\ proc'[p].pc = "append" => proc[p].frame.kind = "msg"
    <3>1. proc \in [Procs -> ProcStates]
      BY DEF Inv, Shape
    <3>2. CASE BroadcastBegin(p) \/ \E c \in Conns : Deliver(p, c)
      BY <2>2, <3>1, <3>2 DEF BroadcastBegin, Deliver, At, ProcStates
    <3>3. CASE BroadcastEnd(p)
      BY <3>1, <3>3 DEF BroadcastEnd, Goto, Return, Idle, ProcStates
    <3> QED
      BY <1>5, <3>2, <3>3
  <2>4. Publishing(p)' => Publishing(p) /\ proc'[p].obj = proc[p].obj
    BY <2>2, <2>3 DEF Publishing
  <2> QED
    BY <2>1, <2>2, <2>3, <2>4, ContextKept
<1>6. CASE \E c \in Conns : ConnStep(c)
  BY <1>2, <1>3, <1>6, StartStep DEF ConnStep, Procs
<1>7. CASE \E i \in Inbounds : InboundCall(i)
  BY <1>2, <1>7, StartStep DEF Procs
<1>8. CASE \E p \in Procs : PublishStep(p)
  BY <1>4, <1>5, <1>8, SnapshotContext, AppendContext, NotifyContext DEF PublishStep
<1> QED
  BY <1>1, <1>6, <1>7, <1>8 DEF Next

(* Nothing is logged at first. *)
LEMMA InitContext == Init => ContextInv
<1> SUFFICES ASSUME Init PROVE ContextInv
  OBVIOUS
<1>1. \A p \in Procs : proc[p].pc = "idle"
  BY DEF Init, Idle
<1>2. \A o \in Objs : Len(log[o]) = 0
  BY DEF Init
<1>3. LoggedOnce /\ LoggedIsOld
  BY <1>2 DEF LoggedOnce, LoggedIsOld
<1>4. snap \in [Procs -> Seq(Ns)] /\ notified = {}
  BY DEF Init
<1> QED
  BY <1>1, <1>3, <1>4 DEF ContextInv, Publishing

(* conn.go, handleMsg: the context of an event precedes its message; of    *)
(* any two events at most one is in the context of the other, and none in  *)
(* its own.                                                                *)
THEOREM ContextIsEarlier == Spec => []ContextPrecedes
<1>1. RingInv /\ ContextInv => ContextPrecedes
  <2> SUFFICES ASSUME RingInv, ContextInv, NEW e \in notified, NEW f \in notified,
                      \E i \in DOMAIN e.ctx : e.ctx[i] = f.n,
                      \E i \in DOMAIN f.ctx : f.ctx[i] = e.n
               PROVE  FALSE
    BY DEF ContextPrecedes
  <2>1. e.ctx \in Seq(Ns) /\ f.ctx \in Seq(Ns)
    BY DEF ContextInv
  <2>2. DOMAIN e.ctx = 1..Len(e.ctx) /\ DOMAIN f.ctx = 1..Len(f.ctx)
    BY <2>1, LenProperties
  <2>3. PICK a \in 1..Len(e.ctx) : e.ctx[a] = f.n
    BY <2>2
  <2>4. PICK b \in 1..Len(f.ctx) : f.ctx[b] = e.n
    BY <2>2
  <2>5. Preceded(e.n, e.ctx) /\ Preceded(f.n, f.ctx)
    BY DEF ContextInv
  <2>6. PICK o \in Objs : \E k \in 1..Len(log[o]) : log[o][k] = e.n /\ Before(o, k, e.ctx)
    BY <2>5 DEF Preceded
  <2>7. PICK u \in Objs : \E l \in 1..Len(log[u]) : log[u][l] = f.n /\ Before(u, l, f.ctx)
    BY <2>5 DEF Preceded
  <2>8. PICK k \in 1..Len(log[o]) : log[o][k] = e.n /\ Before(o, k, e.ctx)
    BY <2>6
  <2>9. PICK l \in 1..Len(log[u]) : log[u][l] = f.n /\ Before(u, l, f.ctx)
    BY <2>7
  <2>10. Len(log[o]) \in Nat /\ Len(log[u]) \in Nat
    <3>1. log[o] \in Seq(Ns) /\ log[u] \in Seq(Ns)
      BY DEF RingInv, RingType
    <3> QED
      BY <3>1, LenProperties
  <2>11. PICK i \in 1..(k - 1) : log[o][i] = f.n
    BY <2>3, <2>8 DEF Before
  <2>12. PICK j \in 1..(l - 1) : log[u][j] = e.n
    BY <2>4, <2>9 DEF Before
  <2>13. i \in 1..Len(log[o]) /\ j \in 1..Len(log[u])
    BY <2>10
  <2>14. o = u /\ i = l /\ j = k
    BY <2>8, <2>9, <2>11, <2>12, <2>13 DEF ContextInv, LoggedOnce
  <2> QED
    BY <2>10, <2>14
<1> QED
  BY InitInv, InitRing, InitContext, NextInv, NumberedStep, RingStep, ContextStep, <1>1, PTL DEF Spec
-----------------------------------------------------------------------------
(* The pcs of a handler that leaves the channel, and of one whose frame no *)
(* member has yet.                                                         *)
Gone == {"remove", "leave", "closed"}
Early == {"lookup", "create", "add", "remove", "snapshot", "broadcast"}

(* A connection in the channel, in its own eyes and in the members map. *)
In(c) ==
    /\ joined[c]
    /\ registry \in Objs /\ c \in members[registry]
    /\ proc[c].pc \notin Gone

SteadyIn == \A p \in Procs : \A c \in steady[p] : In(c)

(* No frame numbered n has come to c; the frame f has come exactly once. *)
Unheard(c, n) == \A i \in 1..Len(inbox[c]) : inbox[c][i].n # n
Heard(c, f) ==
    \E i \in 1..Len(inbox[c]) :
        inbox[c][i] = f /\ \A j \in 1..Len(inbox[c]) : inbox[c][j] = f => j = i

(* What has come was sent, by a handler that has begun its broadcast. *)
InboxIsOld ==
    \A c \in Conns :
        /\ \A i \in 1..Len(inbox[c]) : inbox[c][i].n \in 1..calls
        /\ \A p \in Procs : proc[p].pc \in Early => Unheard(c, proc[p].frame.n)

(* A broadcast in progress has yet to reach exactly its todo. *)
Reaches(p) ==
    /\ proc[p].pc = "deliver" =>
          /\ \A c \in proc[p].todo : Unheard(c, proc[p].frame.n)
          /\ \A c \in steady[p] : c \notin proc[p].todo => Heard(c, proc[p].frame)
    /\ proc[p].pc \in {"append", "notify"} => \A c \in steady[p] : Heard(c, proc[p].frame)

HeardInv ==
    /\ inbox \in [Conns -> Seq(Frames)]
    /\ steady \in [Procs -> SUBSET Conns]
    /\ SteadyIn
    /\ InboxIsOld
    /\ \A p \in Procs : Reaches(p)

(* A step of p that sends nothing.  What is left to show is that the       *)
(* connections in the channel still are, and that p's own broadcast, if    *)
(* it has one, is where it should be.                                      *)
LEMMA HeardKept ==
    ASSUME Inv, Numbered, HeardInv, NEW p \in Procs, StepOf(p), inbox' = inbox,
           steady' \in [Procs -> SUBSET Conns],
           \A q \in Procs : q # p => steady'[q] \subseteq steady[q],
           SteadyIn', Reaches(p)',
           proc'[p].pc \in Early => Started(p) \/ (proc[p].pc \in Early /\ Moved(p))
    PROVE  HeardInv'
<1>0. calls \in Nat /\ \A q \in Procs : q # p => proc'[q] = proc[q]
  BY FanoutAssumption DEF StepOf, Inv, Shape
<1>1. 1..calls \subseteq 1..calls'
  BY <1>0 DEF StepOf, Started, Moved, Ended
<1>2. InboxIsOld'
  <2> SUFFICES ASSUME NEW c \in Conns, NEW i \in 1..Len(inbox[c]), NEW q \in Procs
               PROVE  /\ inbox[c][i].n \in 1..calls'
                      /\ proc'[q].pc \in Early => inbox[c][i].n # proc'[q].frame.n
    BY DEF InboxIsOld, Unheard
  <2>1. inbox[c][i].n \in 1..calls
    BY DEF HeardInv, InboxIsOld
  <2>2. proc[q].pc \in Early => inbox[c][i].n # proc[q].frame.n
    BY DEF HeardInv, InboxIsOld, Unheard
  <2>3. CASE q = p /\ Started(p)
    BY <1>0, <2>1, <2>3 DEF Started
  <2>4. CASE q = p /\ ~Started(p)
    BY <1>1, <2>1, <2>2, <2>4 DEF Moved
  <2>5. CASE q # p
    BY <1>0, <1>1, <2>1, <2>2, <2>5
  <2> QED
    BY <2>3, <2>4, <2>5
<1>3. ASSUME NEW q \in Procs PROVE Reaches(q)'
  <2>1. CASE q = p
    BY <2>1
  <2>2. CASE q # p
    <3>1. Reaches(q) /\ proc'[q] = proc[q] /\ steady'[q] \subseteq steady[q]
      BY <1>0, <2>2 DEF HeardInv
    <3> QED
      BY <3>1 DEF Reaches, Heard, Unheard
  <2> QED
    BY <2>1, <2>2
<1> QED
  BY <1>2, <1>3 DEF HeardInv

(* The calls: who has left is no longer in the channel, and a message's    *)
(* handler begins with those who are in it.                                *)
LEMMA CallHeard ==
    ASSUME Inv, Numbered, HeardInv, NEW p \in Procs,
           \/ p \in Conns /\ (JoinCall(p) \/ PartCall(p) \/ MsgCall(p))
           \/ p \in Inbounds /\ InboundCall(p)
    PROVE  HeardInv'
<1>1. StepOf(p) /\ Started(p)
  BY StartStep
<1>2. /\ inbox' = inbox /\ proc[p].pc = "idle" /\ proc'[p].pc \in {"lookup", "remove", "snapshot"}
      /\ \A q \in Procs : q # p => proc'[q] = proc[q]
  BY <1>1 DEF StepOf, Started
<1>3. UNCHANGED <<registry, members>>
  BY DEF JoinCall, PartCall, MsgCall, InboundCall
<1>4. Reaches(p)'
  BY <1>2 DEF Reaches
<1>5. steady \in [Procs -> SUBSET Conns] /\ SteadyIn /\ Conns \subseteq Procs
  BY DEF HeardInv, Procs
<1>6. CASE p \in Conns /\ JoinCall(p)
  <2>1. steady' = steady /\ joined' = [joined EXCEPT ![p] = TRUE] /\ proc'[p].pc = "lookup"
    <3>1. steady' = steady /\ joined' = [joined EXCEPT ![p] = TRUE] /\ Begin(p, "join", "lookup", None)
      BY <1>6 DEF JoinCall
    <3>2. "lookup" \in PCs
      BY DEF PCs
    <3> QED
      BY <3>1, <3>2, BeginFacts
  <2>2. \A c \in Conns : joined[c] => joined'[c]
    BY <2>1 DEF Inv, Shape
  <2>3. SteadyIn'
    BY <1>2, <1>3, <1>5, <2>1, <2>2 DEF SteadyIn, In, Gone
  <2> QED
    BY <1>1, <1>2, <1>4, <1>5, <2>1, <2>3, HeardKept
<1>7. CASE p \in Conns /\ PartCall(p)
  <2>1. steady' = [q \in Procs |-> steady[q] \ {p}] /\ joined' = [joined EXCEPT ![p] = FALSE]
    BY <1>7 DEF PartCall
  <2>2. \A c \in Conns : c # p => joined'[c] = joined[c]
    BY <2>1 DEF Inv, Shape
  <2>3. steady' \in [Procs -> SUBSET Conns] /\ \A q \in Procs : steady'[q] = steady[q] \ {p}
    BY <1>5, <2>1
  <2>4. SteadyIn'
    BY <1>2, <1>3, <1>5, <2>2, <2>3 DEF SteadyIn, In
  <2> QED
    BY <1>1, <1>2, <1>4, <2>3, <2>4, HeardKept
<1>8. CASE (p \in Conns /\ MsgCall(p)) \/ (p \in Inbounds /\ InboundCall(p))
  <2>1. steady' = [steady EXCEPT ![p] = {c \in Conns : Settled(c)}] /\ UNCHANGED joined
    BY <1>8 DEF MsgCall, InboundCall
  <2>2. p \in Conns => proc'[p].pc = "snapshot"
    <3> SUFFICES ASSUME p \in Conns PROVE proc'[p].pc = "snapshot"
      OBVIOUS
    <3>1. Begin(p, "msg", "snapshot", registry)
      BY <1>8, FanoutAssumption DEF MsgCall
    <3>2. "snapshot" \in PCs /\ registry \in Objs \cup {None}
      BY DEF PCs, Inv, Shape
    <3> QED
      BY <3>1, <3>2, BeginFacts
  <2>3. \A c \in Conns : proc'[c].pc \in Gone => proc[c].pc \in Gone
    BY <1>2, <1>5, <2>2 DEF Gone
  <2>4. ASSUME NEW c \in Conns, Settled(c) PROVE In(c)
    <3>1. joined[c] /\ proc[c].pc \in Agreed \cup {"remove"}
      BY <1>5, <2>4 DEF Settled, Agreed, Inv, Shape, ProcStates, PCs
    <3>2. Believes(c)
      BY DEF Inv
    <3> QED
      BY <3>1, <3>2 DEF Believes, In, Gone, Agreed, Inv, Shape
  <2>5. /\ steady' \in [Procs -> SUBSET Conns] /\ steady'[p] = {c \in Conns : Settled(c)}
        /\ \A q \in Procs : q # p => steady'[q] = steady[q]
    BY <1>5, <2>1
  <2>6. ASSUME NEW q \in Procs, NEW c \in steady'[q] PROVE In(c)
    <3>1. CASE q = p
      BY <2>4, <2>5, <3>1
    <3>2. CASE q # p
      BY <1>5, <2>5, <3>2 DEF SteadyIn
    <3> QED
      BY <3>1, <3>2
  <2>7. SteadyIn'
    BY <1>3, <2>1, <2>3, <2>5, <2>6 DEF SteadyIn, In
  <2> QED
    BY <1>1, <1>2, <1>4, <2>5, <2>7, HeardKept
<1> QED
  BY <1>6, <1>7, <1>8

(* The steps that change the members: nobody who is in the channel is      *)
(* taken out of it by another.                                             *)
LEMMA MemberHeard ==
    ASSUME Inv, Numbered, HeardInv, NEW c \in Conns,
           AddMember(c) \/ RemoveMember(c) \/ Leave(c) \/ Disconnect(c)
    PROVE  HeardInv'
<1>0. Conns \subseteq Procs
  BY DEF Procs
<1>1. /\ StepOf(c) /\ inbox' = inbox
      /\ \/ Moved(c) /\ proc[c].pc \in {"add", "remove"} /\ proc'[c].pc = "broadcast"
         \/ Ended(c)
  BY MemberStepOf
<1>2. Reaches(c)' /\ (proc'[c].pc \in Early => proc[c].pc \in Early /\ Moved(c))
  BY <1>1 DEF Reaches, Ended, Active, Early
<1>3. \A q \in Procs : q # c => proc'[q] = proc[q]
  BY <1>1 DEF StepOf
<1>4. UNCHANGED <<registry, joined>>
  BY DEF AddMember, RemoveMember, Leave, Disconnect
<1>5. steady \in [Procs -> SUBSET Conns] /\ SteadyIn /\ members \in [Objs -> SUBSET Conns]
  BY DEF HeardInv, Inv, Shape
<1>6. CASE AddMember(c) \/ RemoveMember(c) \/ Leave(c)
  <2>1. steady' = steady /\ \A o \in Objs : members[o] \ {c} \subseteq members'[o]
    BY <1>5, <1>6 DEF AddMember, RemoveMember, Leave
  <2>2. proc[c].pc \in Gone \/ AddMember(c)
    BY <1>6 DEF RemoveMember, Leave, At, Gone
  <2>3. AddMember(c) => /\ \A o \in Objs : members[o] \subseteq members'[o]
                        /\ proc'[c].pc \notin Gone
    BY <1>0, <1>5 DEF AddMember, Goto, Return, Idle, Gone, Inv, Shape, ProcStates
  <2>4. ASSUME NEW d \in Conns, In(d) PROVE In(d)'
    <3>1. CASE d = c
      BY <1>4, <2>2, <2>3, <2>4, <3>1 DEF In
    <3>2. CASE d # c
      BY <1>0, <1>3, <1>4, <2>1, <2>4, <3>2 DEF In
    <3> QED
      BY <3>1, <3>2
  <2>5. SteadyIn'
    BY <1>5, <2>1, <2>4 DEF SteadyIn
  <2> QED
    BY <1>0, <1>1, <1>2, <1>5, <2>1, <2>5, HeardKept
<1>7. CASE Disconnect(c)
  <2>1. steady' = [q \in Procs |-> steady[q] \ {c}] /\ members' = members
    BY <1>7 DEF Disconnect
  <2>2. steady' \in [Procs -> SUBSET Conns] /\ \A q \in Procs : steady'[q] = steady[q] \ {c}
    BY <1>5, <2>1
  <2>3. SteadyIn'
    BY <1>0, <1>3, <1>4, <1>5, <2>1, <2>2 DEF SteadyIn, In
  <2> QED
    BY <1>0, <1>1, <1>2, <2>2, <2>3, HeardKept
<1> QED
  BY <1>6, <1>7

(* A publisher's step changes nobody's membership, nor the channel. *)
LEMMA PublishSteady ==
    ASSUME Inv, HeardInv, NEW p \in Procs, PublishStep(p)
    PROVE  steady' = steady /\ SteadyIn'
<1>1. steady' = steady /\ UNCHANGED <<members, joined>>
  BY DEF PublishStep, LookupFast, Create, Snapshot, BroadcastBegin, Deliver, BroadcastEnd,
         AppendHistory, Notify
<1>2. registry \in Objs => registry' = registry
  BY FanoutAssumption DEF PublishStep, LookupFast, Create, Snapshot, BroadcastBegin, Deliver,
         BroadcastEnd, AppendHistory, Notify
<1>3. proc'[p].pc \notin Gone /\ \A q \in Procs : q # p => proc'[q] = proc[q]
  <2>1. proc \in [Procs -> ProcStates]
    BY DEF Inv, Shape
  <2>2. CASE LookupFast(p) \/ Create(p)
    <3>1. Goto(p, "create") \/ \E o \in Objs : Found(p, o)
      BY <2>2 DEF LookupFast, Create, Inv, Shape
    <3> QED
      BY ZenonT(60), <2>1, <3>1 DEF Goto, Found, Gone, ProcStates
  <2>3. CASE Snapshot(p) \/ AppendHistory(p) \/ BroadcastEnd(p) \/ Notify(p)
    <3>1. (\E pc \in {"broadcast", "notify", "append"} : Goto(p, pc)) \/ Return(p)
      BY <2>3 DEF Snapshot, AppendHistory, BroadcastEnd, Notify
    <3> QED
      BY <2>1, <3>1 DEF Goto, Return, Idle, Gone, ProcStates
  <2>4. CASE BroadcastBegin(p) \/ \E c \in Conns : Deliver(p, c)
    BY <2>1, <2>4 DEF BroadcastBegin, Deliver, At, Gone, ProcStates
  <2> QED
    BY <2>2, <2>3, <2>4 DEF PublishStep
<1>4. ASSUME NEW q \in Procs, NEW c \in steady[q] PROVE In(c)'
  <2>1. In(c) /\ c \in Procs
    BY DEF HeardInv, SteadyIn, Procs
  <2>2. proc'[c].pc \notin Gone
    BY <1>3, <2>1 DEF In
  <2> QED
    BY <1>1, <1>2, <2>1, <2>2 DEF In
<1> QED
  BY <1>1, <1>4 DEF SteadyIn

(* Enqueue of the frame on one more member: it is the first copy, and the  *)
(* last, since the member leaves the todo.                                 *)
LEMMA DeliverHeard ==
    ASSUME Inv, Numbered, HeardInv, NEW p \in Procs, NEW c \in Conns, Deliver(p, c)
    PROVE  HeardInv'
<1>0. /\ proc[p].pc = "deliver" /\ c \in proc[p].todo /\ calls' = calls
      /\ proc \in [Procs -> ProcStates]
  BY DEF Deliver, At, Inv, Shape
<1>1. PICK f \in Frames : f = proc[p].frame /\ f.n \in 1..calls
  BY <1>0 DEF Numbered, Active
<1>2. /\ proc'[p].pc = "deliver" /\ proc'[p].frame = f /\ proc'[p].todo = proc[p].todo \ {c}
      /\ \A q \in Procs : q # p => proc'[q] = proc[q]
  BY <1>0, <1>1 DEF Deliver, ProcStates
<1>3. \A q \in Procs : /\ proc'[q].pc = proc[q].pc /\ proc'[q].frame = proc[q].frame
                       /\ proc'[q].todo \subseteq proc[q].todo
                       /\ q # p => proc'[q].todo = proc[q].todo
  BY <1>0, <1>1, <1>2
<1>4. steady' = steady /\ SteadyIn' /\ steady \in [Procs -> SUBSET Conns]
  BY PublishSteady DEF PublishStep, HeardInv
<1>5. PICK L \in Nat : L = Len(inbox[c]) /\ inbox[c] \in Seq(Frames)
  <2>1. inbox[c] \in Seq(Frames)
    BY DEF HeardInv
  <2> QED
    BY <2>1, LenProperties
<1>6. inbox' = [inbox EXCEPT ![c] = Append(inbox[c], f)]
  BY <1>1 DEF Deliver
<1>7. inbox'[c] = Append(inbox[c], f) /\ \A d \in Conns : d # c => inbox'[d] = inbox[d]
  BY <1>6 DEF HeardInv
<1>8. /\ Append(inbox[c], f) \in Seq(Frames)
      /\ Len(Append(inbox[c], f)) = Len(inbox[c]) + 1
      /\ Append(inbox[c], f)[Len(inbox[c]) + 1] = f
      /\ \A k \in 1..Len(inbox[c]) : Append(inbox[c], f)[k] = inbox[c][k]
  BY <1>5, AppendProperties
<1>9. inbox' \in [Conns -> Seq(Frames)]
  BY <1>6, <1>8 DEF HeardInv
<1>10. /\ Len(inbox'[c]) = L + 1 /\ inbox'[c][L + 1] = f
       /\ \A k \in 1..L : inbox'[c][k] = inbox[c][k]
  BY <1>5, <1>7, <1>8
<1>11. \A k \in 1..(L + 1) : k \in 1..L \/ k = L + 1
  BY <1>5
<1>12. ASSUME NEW d \in Conns, NEW n, Unheard(d, n), d = c => n # f.n
       PROVE  Unheard(d, n)'
  <2>1. CASE d = c
    BY <1>5, <1>10, <1>11, <1>12, <2>1 DEF Unheard
  <2>2. CASE d # c
    BY <1>7, <1>12, <2>2 DEF Unheard
  <2> QED
    BY <2>1, <2>2
<1>13. ASSUME NEW d \in Conns, NEW g, Heard(d, g), d = c => g # f
       PROVE  Heard(d, g)'
  <2>1. CASE d = c
    <3>1. PICK i \in 1..L : inbox[c][i] = g /\ \A j \in 1..L : inbox[c][j] = g => j = i
      BY <1>5, <1>13, <2>1 DEF Heard
    <3>2. i \in 1..(L + 1) /\ inbox'[c][i] = g
      BY <1>10, <3>1
    <3>3. \A j \in 1..(L + 1) : inbox'[c][j] = g => j = i
      BY <1>10, <1>11, <1>13, <2>1, <3>1
    <3> QED
      BY <1>10, <2>1, <3>2, <3>3 DEF Heard
  <2>2. CASE d # c
    BY <1>7, <1>13, <2>2 DEF Heard
  <2> QED
    BY <2>1, <2>2
<1>14. Heard(c, f)'
  <2>1. \A k \in 1..L : inbox[c][k].n # f.n
    BY <1>0, <1>1, <1>5 DEF HeardInv, Reaches, Unheard
  <2>2. \A k \in 1..L : inbox'[c][k] # f
    BY <1>10, <2>1
  <2>3. L + 1 \in 1..(L + 1)
    BY <1>5
  <2> QED
    BY <1>10, <1>11, <2>2, <2>3 DEF Heard
<1>15. \A q \in Procs : q # p /\ proc[q].pc \in Active =>
          proc[q].frame.n # f.n /\ proc[q].frame # f
  BY <1>0, <1>1 DEF Numbered, Active
<1>16. InboxIsOld'
  <2>1. ASSUME NEW d \in Conns, NEW i \in 1..Len(inbox'[d]) PROVE inbox'[d][i].n \in 1..calls'
    <3>1. CASE d = c /\ i = L + 1
      BY <1>0, <1>1, <1>10, <3>1
    <3>2. CASE ~(d = c /\ i = L + 1)
      <4>1. i \in 1..Len(inbox[d]) /\ inbox'[d][i] = inbox[d][i]
        BY <1>5, <1>7, <1>10, <1>11, <3>2
      <4> QED
        BY <1>0, <4>1 DEF HeardInv, InboxIsOld
    <3> QED
      BY <3>1, <3>2
  <2>2. ASSUME NEW d \in Conns, NEW q \in Procs, proc'[q].pc \in Early
        PROVE  Unheard(d, proc[q].frame.n)'
    <3>1. proc[q].pc \in Early /\ q # p /\ proc'[q].frame = proc[q].frame
      BY <1>0, <1>3, <2>2 DEF Early
    <3>2. PICK n : n = proc[q].frame.n
      OBVIOUS
    <3>3. Unheard(d, n) /\ n # f.n
      BY <1>15, <3>1, <3>2 DEF HeardInv, InboxIsOld, Early, Active
    <3>4. Unheard(d, n)'
      BY <1>12, <3>3
    <3> QED
      BY <3>1, <3>2, <3>4
  <2> QED
    BY <2>1, <2>2 DEF InboxIsOld
<1>17. ASSUME NEW q \in Procs PROVE Reaches(q)'
  <2>0. PICK g : g = proc[q].frame /\ proc'[q].frame = g
    BY <1>3
  <2>1. ASSUME proc'[q].pc = "deliver", NEW d \in proc'[q].todo PROVE Unheard(d, g.n)'
    <3>1. d \in Conns /\ d \in proc[q].todo /\ proc[q].pc = "deliver"
      BY <1>0, <1>3, <2>1 DEF ProcStates
    <3>2. d = c => q # p
      BY <1>2, <2>1
    <3>3. d = c => g.n # f.n
      BY <1>15, <2>0, <3>1, <3>2 DEF Active
    <3>4. PICK n : n = g.n
      OBVIOUS
    <3>5. Unheard(d, n)
      BY <2>0, <3>1, <3>4 DEF HeardInv, Reaches
    <3>6. Unheard(d, n)'
      BY <1>12, <3>1, <3>3, <3>4, <3>5
    <3> QED
      BY <3>4, <3>6
  <2>2. ASSUME NEW d \in steady[q], proc[q].pc \in Active, Heard(d, g) \/ (d = c /\ q = p)
        PROVE  Heard(d, g)'
    <3>1. CASE d = c /\ q = p
      BY <1>1, <1>14, <2>0, <3>1
    <3>2. CASE ~(d = c /\ q = p)
      <4>1. d \in Conns /\ (d = c => g # f)
        BY <1>4, <1>15, <2>0, <2>2, <3>2
      <4> QED
        BY <1>13, <2>2, <3>2, <4>1
    <3> QED
      BY <3>1, <3>2
  <2>3. ASSUME proc'[q].pc = "deliver", NEW d \in steady[q], d \notin proc'[q].todo
        PROVE  Heard(d, g)'
    <3>1. proc[q].pc = "deliver"
      BY <1>3, <2>3
    <3>2. d \notin proc[q].todo \/ (d = c /\ q = p)
      BY <1>2, <1>3, <2>3
    <3>3. Heard(d, g) \/ (d = c /\ q = p)
      BY <2>0, <3>1, <3>2 DEF HeardInv, Reaches
    <3> QED
      BY <2>2, <3>1, <3>3 DEF Active
  <2>4. ASSUME proc'[q].pc \in {"append", "notify"}, NEW d \in steady[q] PROVE Heard(d, g)'
    <3>1. proc[q].pc \in {"append", "notify"} /\ q # p
      BY <1>0, <1>3, <2>4
    <3>2. Heard(d, g)
      BY <2>0, <3>1 DEF HeardInv, Reaches
    <3> QED
      BY <2>2, <3>1, <3>2 DEF Active
  <2> QED
    BY <1>4, <2>0, <2>1, <2>3, <2>4 DEF Reaches
<1> QED
  BY <1>4, <1>9, <1>16, <1>17 DEF HeardInv

(* The other steps of a publisher. *)
LEMMA PublishHeard ==
    ASSUME Inv, Numbered, HeardInv, NEW p \in Procs, PublishStep(p)
    PROVE  HeardInv'
<1>1. CASE \E c \in Conns : Deliver(p, c)
  BY <1>1, DeliverHeard
<1>2. CASE ~ \E c \in Conns : Deliver(p, c)
  <2>1. inbox' = inbox
    BY <1>2 DEF PublishStep, LookupFast, Create, Snapshot, BroadcastBegin, BroadcastEnd,
           AppendHistory, Notify
  <2>2. steady' = steady /\ SteadyIn' /\ steady \in [Procs -> SUBSET Conns] /\ SteadyIn
    BY PublishSteady DEF HeardInv
  <2>3. StepOf(p) /\ (Moved(p) \/ Ended(p))
    BY PublishStepOf
  <2>4. proc \in [Procs -> ProcStates]
    BY DEF Inv, Shape
  <2>5. Reaches(p)' /\ (proc'[p].pc \in Early => proc[p].pc \in Early)
    <3>1. CASE LookupFast(p) \/ Create(p) \/ Snapshot(p)
      <4>1. proc[p].pc \in Early /\ (\/ Goto(p, "create")
                                     \/ Goto(p, "broadcast")
                                     \/ \E o \in Objs : Found(p, o))
        BY <3>1 DEF LookupFast, Create, Snapshot, At, Early, Inv, Shape
      <4>2. proc'[p].pc \in {"create", "broadcast", "add", "snapshot"}
        BY <2>4, <4>1 DEF Goto, Found, ProcStates
      <4> QED
        BY <4>1, <4>2 DEF Reaches
    <3>2. CASE BroadcastBegin(p)
      <4>1. proc[p].pc = "broadcast" /\ proc[p].obj = registry /\ registry \in Objs
        BY <3>2, HoldsStruct DEF BroadcastBegin, At, Located
      <4>2. /\ proc'[p].pc = "deliver" /\ proc'[p].todo = members[registry]
            /\ proc'[p].frame = proc[p].frame
        BY <2>4, <3>2, <4>1 DEF BroadcastBegin, ProcStates
      <4>3. \A c \in steady[p] : c \in members[registry]
        BY <2>2 DEF SteadyIn, In
      <4>4. \A c \in members[registry] : Unheard(c, proc[p].frame.n)
        BY <4>1 DEF HeardInv, InboxIsOld, Early, Inv, Shape
      <4> QED
        BY <2>1, <2>2, <4>1, <4>2, <4>3, <4>4 DEF Reaches, Unheard, Early
    <3>3. CASE BroadcastEnd(p)
      <4>1. proc[p].pc = "deliver" /\ proc[p].todo = {} /\ (Goto(p, "append") \/ Return(p))
        BY <3>3 DEF BroadcastEnd, At
      <4>2. \/ proc'[p].pc = "append" /\ proc'[p].frame = proc[p].frame
            \/ proc'[p].pc = "idle"
        BY <2>4, <4>1 DEF Goto, Return, Idle, ProcStates
      <4>3. \A c \in steady[p] : Heard(c, proc[p].frame)
        BY <4>1 DEF HeardInv, Reaches
      <4> QED
        BY <2>1, <2>2, <4>2, <4>3 DEF Reaches, Heard, Early
    <3>4. CASE AppendHistory(p)
      <4>1. proc[p].pc = "append" /\ proc'[p].pc = "notify" /\ proc'[p].frame = proc[p].frame
        BY <2>4, <3>4 DEF AppendHistory, At, Goto, ProcStates
      <4>2. \A c \in steady[p] : Heard(c, proc[p].frame)
        BY <4>1 DEF HeardInv, Reaches
      <4> QED
        BY <2>1, <2>2, <4>1, <4>2 DEF Reaches, Heard, Early
    <3>5. CASE Notify(p)
      <4>1. proc'[p].pc = "idle"
        BY <2>4, <3>5 DEF Notify, Return, Idle
      <4> QED
        BY <4>1 DEF Reaches, Early
    <3> QED
      BY <1>2, <3>1, <3>2, <3>3, <3>4, <3>5 DEF PublishStep
  <2>6. proc'[p].pc \in Early => proc[p].pc \in Early /\ Moved(p)
    BY <2>3, <2>5 DEF Ended, Early, Active
  <2> QED
    BY <2>1, <2>2, <2>3, <2>5, <2>6, HeardKept
<1> QED
  BY <1>1, <1>2

(* Every step keeps HeardInv. *)
LEMMA HeardStep == Inv /\ Numbered /\ HeardInv /\ [Next]_vars => HeardInv'
<1> SUFFICES ASSUME Inv, Numbered, HeardInv, [Next]_vars PROVE HeardInv'
  OBVIOUS
<1>1. CASE UNCHANGED vars
  BY <1>1 DEF vars, HeardInv, SteadyIn, In, InboxIsOld, Reaches, Heard, Unheard
<1>2. CASE \E c \in Conns : ConnStep(c)
  BY <1>2, CallHeard, MemberHeard DEF ConnStep, Procs
<1>3. CASE \E i \in Inbounds : InboundCall(i)
  BY <1>3, CallHeard DEF Procs
<1>4. CASE \E p \in Procs : PublishStep(p)
  BY <1>4, PublishHeard
<1> QED
  BY <1>1, <1>2, <1>3, <1>4 DEF Next

(* Nothing was heard at first. *)
LEMMA InitHeard == Init => HeardInv
<1> SUFFICES ASSUME Init PROVE HeardInv
  OBVIOUS
<1>1. \A p \in Procs : proc[p].pc = "idle" /\ steady[p] = {}
  BY DEF Init, Idle
<1>2. \A c \in Conns : Len(inbox[c]) = 0
  BY DEF Init
<1>3. inbox \in [Conns -> Seq(Frames)] /\ steady \in [Procs -> SUBSET Conns]
  BY DEF Init
<1>4. InboxIsOld
  BY <1>2 DEF InboxIsOld, Unheard
<1> QED
  BY <1>1, <1>3, <1>4 DEF HeardInv, SteadyIn, Reaches

(* channels.go, Broadcast: a message has reached every connection that was *)
(* in the channel from the call of its handler to the end of its broad-    *)
(* cast exactly once, for any number of connections and publishers.        *)
THEOREM BroadcastReaches == Spec => []HeardOnce
<1>1. HeardInv => HeardOnce
  <2> SUFFICES ASSUME HeardInv, NEW p \in Procs, proc[p].pc \in {"append", "notify"},
                      NEW c \in steady[p]
               PROVE  Cardinality({i \in DOMAIN inbox[c] : inbox[c][i] = proc[p].frame}) = 1
    BY DEF HeardOnce
  <2>1. Heard(c, proc[p].frame) /\ c \in Conns
    BY DEF HeardInv, Reaches
  <2>2. inbox[c] \in Seq(Frames)
    BY <2>1 DEF HeardInv
  <2>3. DOMAIN inbox[c] = 1..Len(inbox[c])
    BY <2>2, LenProperties
  <2>4. PICK i \in 1..Len(inbox[c]) : {k \in DOMAIN inbox[c] : inbox[c][k] = proc[p].frame} = {i}
    BY <2>1, <2>3 DEF Heard
  <2> QED
    BY <2>4, FS_Singleton
<1> QED
  BY InitInv, InitRing, InitHeard, NextInv, NumberedStep, HeardStep, <1>1, PTL DEF Spec

(* Every variable of the channel keeps its type: in particular no handler  *)
(* writes outside the ring, and a context holds message numbers only       *)
(* (channels.go, AppendHistory, RecentMessages).                           *)
THEOREM FanoutTypeCorrect == Spec => []TypeOK
<1>1. Inv /\ RingInv /\ ContextInv /\ HeardInv => TypeOK
  BY DEF Inv, Shape, RingInv, RingType, ContextInv, HeardInv, TypeOK, ProcStates
<1> QED
  BY InitInv, InitRing, InitContext, InitHeard, NextInv, NumberedStep, RingStep, ContextStep,
     HeardStep, <1>1, PTL DEF Spec
=============================================================================
