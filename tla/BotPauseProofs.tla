--------------------------- MODULE BotPauseProofs ---------------------------
(***************************************************************************)
(* An acknowledged pause stays in force until a resume is issued, the      *)
(* manager and the store agree on the pause whenever no verb is handled,   *)
(* and a success is visible in the channel: for any number of operators,   *)
(* verbs, crashes and failures of the store.                               *)
(*                                                                         *)
(* The properties speak of the end of a handler.  Inv follows it there: as *)
(* long as no resume was issued, every request under way is a pause, the   *)
(* row exists from the store's success on, and the manager knows of it     *)
(* from SetBotPaused on; a crash ends the requests, not the row.  AloneInv *)
(* follows it while the handlers do not overlap: then one request at most  *)
(* is under way, and the manager differs from the row only between that    *)
(* request's Persist and its SetBotPaused, when the row is what the        *)
(* request asks for.                                                       *)
(***************************************************************************)
EXTENDS BotPause, TLAPS

PastPersist == {"apply", "audit", "emit", "reply"}
PastApply == {"audit", "emit", "reply"}

Carried(c) ==
    /\ req[c].pc # "idle" => req[c].pause
    /\ req[c].pc \in PastPersist => row
    /\ req[c].pc \in PastApply => paused

(* A verb under way has its number. *)
Identified == \A c \in Conns : req[c].pc # "idle" => req[c].id \in Ids

Inv ==
    /\ TypeOK
    /\ Identified
    /\ ~resumes => /\ \A c \in Conns : Carried(c)
                   /\ acks # {} => row /\ paused

(* The idle request has the type of a request. *)
LEMMA IdleType == Idle \in [pc : PCs, id : Ids \cup {0}, pause : BOOLEAN]
BY DEF Idle, PCs, Ids

(* Nothing is paused at first. *)
LEMMA InitInv == Init => Inv
<1> SUFFICES ASSUME Init PROVE Inv
  OBVIOUS
<1>1. TypeOK
  <2>1. req \in [Conns -> [pc : PCs, id : Ids \cup {0}, pause : BOOLEAN]]
    BY IdleType DEF Init
  <2>2. 0 \in 0..MaxActions /\ 0 \in 0..MaxCrashes
    BY BotPauseAssumption
  <2> QED
    BY <2>1, <2>2 DEF Init, TypeOK
<1>2. \A c \in Conns : req[c].pc = "idle"
  BY DEF Init, Idle
<1> QED
  BY <1>1, <1>2 DEF Inv, Identified, Carried, PastPersist, PastApply, Init

(* Each step of a handler in chanop.go keeps the types. *)
LEMMA HandlerType ==
    ASSUME Inv, NEW c \in Conns, HandlerStep(c)
    PROVE  TypeOK'
<1> USE DEF Inv, TypeOK, Identified, At, Goto, Return
<1>1. CASE \E p \in BOOLEAN : Issue(c, p)
  <2>1. PICK p \in BOOLEAN : Issue(c, p)
    BY <1>1
  <2>2. issued + 1 \in Ids /\ issued' \in 0..MaxActions
    BY <2>1, BotPauseAssumption DEF Issue, Ids
  <2>3. [pc |-> "resolve", id |-> issued + 1, pause |-> p] \in [pc : PCs, id : Ids \cup {0}, pause : BOOLEAN]
    BY <2>2 DEF PCs
  <2> QED
    BY <2>1, <2>2, <2>3 DEF Issue
<1>2. CASE Resolve(c)
  BY <1>2 DEF Resolve, PCs
<1>3. CASE Refuse(c)
  BY <1>3, IdleType DEF Refuse
<1>4. CASE Persist(c)
  BY <1>4 DEF Persist, PCs
<1>5. CASE PersistFails(c)
  BY <1>5, IdleType DEF PersistFails
<1>6. CASE SetBotPaused(c)
  BY <1>6 DEF SetBotPaused, PCs
<1>7. CASE RecordAudit(c)
  BY <1>7 DEF RecordAudit, PCs
<1>8. CASE EmitSystemMsg(c)
  BY <1>8 DEF EmitSystemMsg, PCs
<1>9. CASE Reply(c)
  BY <1>9, IdleType DEF Reply
<1> QED
  BY <1>1, <1>2, <1>3, <1>4, <1>5, <1>6, <1>7, <1>8, <1>9 DEF HandlerStep

(* Each step of a handler keeps what Inv says of the requests and of the   *)
(* pause: only the handler's own request moves, and while no resume was    *)
(* issued the row and the pause set can only be set.                       *)
LEMMA HandlerInv ==
    ASSUME Inv, NEW c \in Conns, HandlerStep(c)
    PROVE  Inv'
<1>1. TypeOK'
  BY HandlerType
<1> USE DEF Inv, TypeOK, Identified, Carried, PastPersist, PastApply, At, Goto, Return, Idle
<1>2. CASE \E p \in BOOLEAN : Issue(c, p)
  <2>1. PICK p \in BOOLEAN : Issue(c, p)
    BY <1>2
  <2>2. issued + 1 \in Ids
    BY <2>1, BotPauseAssumption DEF Issue, Ids
  <2> QED
    BY <1>1, <2>1, <2>2 DEF Issue
<1>3. CASE Resolve(c)
  BY <1>1, <1>3 DEF Resolve
<1>4. CASE Refuse(c)
  BY <1>1, <1>4 DEF Refuse
<1>5. CASE Persist(c)
  BY <1>1, <1>5 DEF Persist
<1>6. CASE PersistFails(c)
  BY <1>1, <1>6 DEF PersistFails
<1>7. CASE SetBotPaused(c)
  BY <1>1, <1>7 DEF SetBotPaused
<1>8. CASE RecordAudit(c)
  BY <1>1, <1>8 DEF RecordAudit
<1>9. CASE EmitSystemMsg(c)
  BY <1>1, <1>9 DEF EmitSystemMsg
<1>10. CASE Reply(c)
  BY <1>1, <1>10 DEF Reply
<1> QED
  BY <1>2, <1>3, <1>4, <1>5, <1>6, <1>7, <1>8, <1>9, <1>10 DEF HandlerStep

(* A restart finds the row and rebuilds the pause set from it. *)
LEMMA RestartInv == Inv /\ Restart => Inv'
<1> SUFFICES ASSUME Inv, Restart PROVE Inv'
  OBVIOUS
<1>1. TypeOK'
  <2>1. req' \in [Conns -> [pc : PCs, id : Ids \cup {0}, pause : BOOLEAN]]
    BY IdleType DEF Restart
  <2>2. crashes' \in 0..MaxCrashes
    BY BotPauseAssumption DEF Inv, TypeOK, Restart
  <2> QED
    BY <2>1, <2>2, Zenon DEF Inv, TypeOK, Restart, Reloaded
<1>2. \A c \in Conns : req'[c].pc = "idle"
  BY DEF Restart, Idle
<1> QED
  BY <1>1, <1>2 DEF Inv, Identified, Carried, PastPersist, PastApply, Restart, Reloaded

(* Every step of the verbs, of a crash or of nobody keeps Inv. *)
LEMMA NextInv == Inv /\ [Next]_vars => Inv'
<1> SUFFICES ASSUME Inv, [Next]_vars PROVE Inv'
  OBVIOUS
<1>1. CASE UNCHANGED vars
  BY <1>1 DEF vars, Inv, TypeOK, Identified, Carried
<1> QED
  BY <1>1, HandlerInv, RestartInv DEF Next

(* The state of the handlers of chanop.go and of the pause keeps its       *)
(* types, for every number of operators, verbs and crashes.                *)
THEOREM TypeCorrect == Spec => []TypeOK
<1>1. Inv => TypeOK
  BY DEF Inv
<1> QED
  BY InitInv, NextInv, <1>1, PTL DEF Spec

(* A pause that was acknowledged holds in the store and in the manager     *)
(* until a resume is issued (chanop.go, handleChanopPauseBot).             *)
THEOREM PauseInForce == Spec => []AckedPauseHolds
<1>1. Inv => AckedPauseHolds
  BY DEF Inv, AckedPauseHolds
<1> QED
  BY InitInv, NextInv, <1>1, PTL DEF Spec
-----------------------------------------------------------------------------
(* One request at most is under way. *)
Alone == \A c, d \in Conns : c # d => req[c].pc = "idle" \/ req[d].pc = "idle"

(* Past the store the row is what the request asks for. *)
Stored(c) == req[c].pc = "apply" => (row <=> req[c].pause)

AloneInv ==
    ~overlap => /\ Alone
                /\ \A c \in Conns : Stored(c)
                /\ (paused <=> row) \/ \E c \in Conns : req[c].pc = "apply"

(* A step of a handler keeps AloneInv: Issue sets overlap when another     *)
(* request is under way, so Persist and SetBotPaused are of the only one.  *)
LEMMA HandlerAlone ==
    ASSUME Inv, AloneInv, NEW c \in Conns, HandlerStep(c)
    PROVE  AloneInv'
<1> SUFFICES ASSUME ~overlap'
             PROVE  /\ Alone'
                    /\ \A d \in Conns : Stored(d)'
                    /\ (paused' <=> row') \/ \E d \in Conns : req'[d].pc = "apply"
  BY DEF AloneInv
<1> USE DEF Inv, TypeOK, At, Goto, Return, Idle
<1>0. ~overlap
  BY DEF HandlerStep, Issue, Resolve, Refuse, Persist, PersistFails, SetBotPaused, RecordAudit, EmitSystemMsg, Reply
<1>1. /\ Alone
      /\ \A d \in Conns : Stored(d)
      /\ (paused <=> row) \/ \E d \in Conns : req[d].pc = "apply"
  BY <1>0 DEF AloneInv
<1> USE DEF Alone, Stored
<1>2. CASE \E p \in BOOLEAN : Issue(c, p)
  <2>1. PICK p \in BOOLEAN : Issue(c, p)
    BY <1>2
  <2>2. \A d \in Conns : req[d].pc = "idle"
    BY <2>1 DEF Issue
  <2> QED
    BY <1>1, <2>1, <2>2 DEF Issue
<1>3. CASE Resolve(c)
  BY <1>1, <1>3 DEF Resolve
<1>4. CASE Refuse(c)
  BY <1>1, <1>4 DEF Refuse
<1>5. CASE Persist(c)
  BY <1>1, <1>5 DEF Persist
<1>6. CASE PersistFails(c)
  BY <1>1, <1>6 DEF PersistFails
<1>7. CASE SetBotPaused(c)
  BY <1>1, <1>7 DEF SetBotPaused
<1>8. CASE RecordAudit(c)
  BY <1>1, <1>8 DEF RecordAudit
<1>9. CASE EmitSystemMsg(c)
  BY <1>1, <1>9 DEF EmitSystemMsg
<1>10. CASE Reply(c)
  BY <1>1, <1>10 DEF Reply
<1> QED
  BY <1>2, <1>3, <1>4, <1>5, <1>6, <1>7, <1>8, <1>9, <1>10 DEF HandlerStep

(* chanop.go and manager.go, SetBotPaused: when no verb is being handled,  *)
(* the manager suppresses the bot exactly when the row exists, unless two  *)
(* verbs were handled at once since the last start.                        *)
THEOREM ManagerAgrees == Spec => []PausesAgree
<1>1. Init => AloneInv
  BY DEF Init, AloneInv, Alone, Stored, Idle
<1>2. Inv /\ AloneInv /\ [Next]_vars => AloneInv'
  <2> SUFFICES ASSUME Inv, AloneInv, [Next]_vars PROVE AloneInv'
    OBVIOUS
  <2>1. CASE UNCHANGED vars
    BY <2>1 DEF vars, AloneInv, Alone, Stored
  <2>2. CASE Restart
    <3>1. \A c \in Conns : req'[c].pc = "idle"
      BY <2>2 DEF Restart, Idle
    <3>2. paused' = row /\ row' = row
      BY <2>2 DEF Restart, Reloaded
    <3> QED
      BY <3>1, <3>2 DEF AloneInv, Alone, Stored
  <2> QED
    BY <2>1, <2>2, HandlerAlone DEF Next
<1>3. AloneInv => PausesAgree
  BY DEF AloneInv, PausesAgree, Quiescent, At
<1> QED
  BY InitInv, NextInv, <1>1, <1>2, <1>3, PTL DEF Spec
-----------------------------------------------------------------------------
(* A request that comes to its reply had its message broadcast, or had     *)
(* none that fits a frame, and so had every request that was answered.     *)
VisibleInv ==
    /\ \A c \in Conns : req[c].pc = "reply" => req[c].id \in messages \cup unsent
    /\ SuccessIsVisible

(* A step of a handler keeps VisibleInv: EmitSystemMsg alone leads to the  *)
(* reply, and no message is taken back.                                    *)
LEMMA HandlerVisible ==
    ASSUME Inv, VisibleInv, NEW c \in Conns, HandlerStep(c)
    PROVE  VisibleInv'
<1> USE DEF Inv, TypeOK, VisibleInv, SuccessIsVisible, At, Goto, Return, Idle
<1>1. CASE \E p \in BOOLEAN : Issue(c, p)
  BY <1>1 DEF Issue
<1>2. CASE Resolve(c)
  BY <1>2 DEF Resolve
<1>3. CASE Refuse(c)
  BY <1>3 DEF Refuse
<1>4. CASE Persist(c)
  BY <1>4 DEF Persist
<1>5. CASE PersistFails(c)
  BY <1>5 DEF PersistFails
<1>6. CASE SetBotPaused(c)
  BY <1>6 DEF SetBotPaused
<1>7. CASE RecordAudit(c)
  BY <1>7 DEF RecordAudit
<1>8. CASE EmitSystemMsg(c)
  BY <1>8 DEF EmitSystemMsg
<1>9. CASE Reply(c)
  BY <1>9 DEF Reply
<1> QED
  BY <1>1, <1>2, <1>3, <1>4, <1>5, <1>6, <1>7, <1>8, <1>9 DEF HandlerStep

(* OPERATORS.md, chanop.go: no operator is told of a success whose system  *)
(* message was not broadcast, but for a message that fits no frame.        *)
THEOREM SuccessVisible == Spec => []SuccessIsVisible
<1>1. Init => VisibleInv
  BY DEF Init, VisibleInv, SuccessIsVisible, Idle
<1>2. Inv /\ VisibleInv /\ [Next]_vars => VisibleInv'
  <2> SUFFICES ASSUME Inv, VisibleInv, [Next]_vars PROVE VisibleInv'
    OBVIOUS
  <2>1. CASE UNCHANGED vars
    BY <2>1 DEF vars, VisibleInv, SuccessIsVisible
  <2>2. CASE Restart
    <3>1. \A c \in Conns : req'[c].pc = "idle"
      BY <2>2 DEF Restart, Idle
    <3> QED
      BY <3>1, <2>2 DEF VisibleInv, SuccessIsVisible, Restart
  <2> QED
    BY <2>1, <2>2, HandlerVisible DEF Next
<1>3. VisibleInv => SuccessIsVisible
  BY DEF VisibleInv
<1> QED
  BY InitInv, NextInv, <1>1, <1>2, <1>3, PTL DEF Spec

=============================================================================
