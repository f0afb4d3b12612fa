----------------------- MODULE WebhookDeliveryProofs -----------------------
(***************************************************************************)
(* Proofs about WebhookDelivery, for every value of its constants: the     *)
(* types and pointers (Shape), the gate of an object (WindowHasTimer and   *)
(* the dates behind FiresOfObjectSpaced), the one fate of a match, and the *)
(* fates MatchFates promises.                                              *)
(***************************************************************************)
EXTENDS WebhookDelivery, SequenceTheorems, FiniteSetTheorems, TLAPS

(* Every object something points at has been compiled: the cache, a Notify *)
(* snapshot, a task wherever it travels.                                   *)
Allocated(o) == o \in Objs /\ conf[o] \in LiveConfigs /\ conf[o] # None
PointersValid ==
    /\ \A s \in Subs : cached[s] # None => Allocated(cached[s])
    /\ \A n \in Notifiers : \A o \in notifier[n].todo : Allocated(o)
    /\ \A t \in flushed : Allocated(t.obj)
    /\ \A i \in 1..Len(tasks) : Allocated(tasks[i].obj)

(* What the program counter of a goroutine says about its other fields. *)
GoroutinesValid ==
    /\ \A n \in Notifiers :
         /\ notifier[n].pc # "idle" => notifier[n].msg \in Msgs
         /\ notifier[n].pc = "enqueue" =>
              notifier[n].task \in FireTask /\ Allocated(notifier[n].task.obj)
    /\ \A w \in Workers :
         /\ worker[w].pc \in {"send", "backoff", "record", "disable"} =>
              /\ worker[w].task \in FireTask
              /\ Allocated(worker[w].task.obj)
              /\ worker[w].attempt >= 1
         /\ worker[w].pc = "backoff" => worker[w].attempt < MaxRetries
         /\ worker[w].pc = "record" => worker[w].status # "none"

Shape == TypeOK /\ PointersValid /\ GoroutinesValid

(* The type of a suffix. *)
LEMMA LastNType ==
    ASSUME NEW S, NEW seq \in Seq(S), NEW k \in Nat
    PROVE  LastN(seq, k) \in Seq(S)
BY DEF LastN

(* The rest states of the goroutines are well typed. *)
LEMMA IdleTypes == IdleNotifier \in NotifierStates /\ IdleWorker \in WorkerStates
<1>1. 0 \in 0..MaxRetries /\ <<>> \in Seq(Msgs)
  BY ConstantsAssumption
<1> QED
  BY <1>1 DEF IdleNotifier, IdleWorker, NotifierStates, WorkerStates

(* NewManager and newWorkerPool build a well-formed pipeline. *)
LEMMA InitShape == Init => Shape
<1> SUFFICES ASSUME Init PROVE Shape
  OBVIOUS
<1>1. TypeOK
  <2>1. 1 \in 1..(MaxMsgs + 1) /\ 0 \in Nat
    BY ConstantsAssumption
  <2>2. /\ ring \in Seq(Msgs) /\ pending \in [Objs -> Seq(Msgs)]
        /\ pctx \in [Objs -> Seq(Msgs)] /\ tasks \in Seq(FireTask)
    BY DEF Init
  <2> QED
    BY <2>1, <2>2, IdleTypes DEF Init, TypeOK, TimerStates
<1>2. PointersValid
  BY DEF Init, PointersValid, IdleNotifier
<1>3. GoroutinesValid
  BY DEF Init, GoroutinesValid, IdleNotifier, IdleWorker
<1> QED
  BY <1>1, <1>2, <1>3 DEF Shape

(* Stopping a timer leaves it in one of its states. *)
LEMMA StopTimerOfType ==
    ASSUME NEW s \in Subs, TypeOK, StopTimerOf(s)
    PROVE  timer' \in [Objs -> TimerStates]
BY DEF StopTimerOf, StopTimer, TypeOK, TimerStates

(* AddOrUpdate compiles a fresh object and caches that object. *)
LEMMA AddOrUpdateShape ==
    ASSUME NEW s \in Subs, NEW c \in Configs, Shape, AddOrUpdate(s, c)
    PROVE  Shape'
<1>1. PICK o \in Objs :
         /\ conf[o] = None
         /\ conf' = [conf EXCEPT ![o] = compileSubscription(s, c)]
         /\ cached' = [cached EXCEPT ![s] = o]
  BY DEF AddOrUpdate
<1>2. c \in [debounce : Nat, cooldown : Nat, cap : Nat, ctxLines : Nat]
  BY ConstantsAssumption
<1>3. timer' \in [Objs -> TimerStates]
  BY StopTimerOfType DEF AddOrUpdate, Shape
<1>4. conf'[o] \in LiveConfigs /\ conf'[o] # None
  <2>1. compileSubscription(s, c) \in LiveConfigs
    BY <1>2 DEF compileSubscription, LiveConfigs
  <2> QED
    BY <1>1, <2>1, ConstantsAssumption DEF Shape, TypeOK
<1>5. TypeOK'
  BY <1>1, <1>3, <1>4 DEF AddOrUpdate, Shape, TypeOK, poolVars
<1> QED
  BY <1>1, <1>4, <1>5 DEF AddOrUpdate, Shape, TypeOK, PointersValid, GoroutinesValid, Allocated, poolVars

(* Remove only clears a cache entry. *)
LEMMA RemoveShape ==
    ASSUME NEW s \in Subs, Shape, Remove(s)
    PROVE  Shape'
<1>1. timer' \in [Objs -> TimerStates]
  BY StopTimerOfType DEF Remove, RemoveFromCache, Shape
<1> QED
  BY <1>1 DEF Remove, RemoveFromCache, Shape, TypeOK, PointersValid, GoroutinesValid,
              Allocated, poolVars

(* SetBotPaused only changes the pause set. *)
LEMMA SetBotPausedShape ==
    ASSUME NEW a \in Accounts, NEW p \in BOOLEAN, Shape, SetBotPaused(a, p)
    PROVE  Shape'
BY DEF SetBotPaused, Shape, TypeOK, PointersValid, GoroutinesValid, Allocated, objVars, poolVars

(* The steps of a notifier: its own state moves to v, the queue may grow,  *)
(* and no object is compiled, cached or flushed.                           *)
LEMMA NotifierMoveShape ==
    ASSUME NEW n \in Notifiers, NEW v \in NotifierStates, Shape, TypeOK',
           notifier' = [notifier EXCEPT ![n] = v],
           v.pc # "idle" => v.msg \in Msgs,
           v.pc = "enqueue" => v.task \in FireTask /\ Allocated(v.task.obj),
           \A o \in v.todo : Allocated(o),
           \A i \in 1..Len(tasks') : Allocated(tasks'[i].obj),
           UNCHANGED <<cached, conf, flushed, worker>>
    PROVE  Shape'
<1>1. ASSUME NEW m \in Notifiers
      PROVE  notifier'[m] = IF m = n THEN v ELSE notifier[m]
  BY DEF Shape, TypeOK
<1>2. PointersValid'
  <2>1. \A m \in Notifiers : \A o \in notifier'[m].todo : Allocated(o)
    BY <1>1 DEF Shape, PointersValid
  <2> QED
    BY <2>1 DEF Shape, PointersValid, Allocated
<1>3. GoroutinesValid'
  <2>1. \A m \in Notifiers :
          /\ notifier'[m].pc # "idle" => notifier'[m].msg \in Msgs
          /\ notifier'[m].pc = "enqueue" =>
               notifier'[m].task \in FireTask /\ Allocated(notifier'[m].task.obj)
    BY <1>1 DEF Shape, GoroutinesValid
  <2> QED
    BY <2>1 DEF Shape, GoroutinesValid, Allocated
<1> QED
  BY <1>2, <1>3 DEF Shape

(* handleMsg: a publisher takes the next message and its context. *)
LEMMA SnapshotHistoryShape ==
    ASSUME NEW n \in Notifiers, Shape, SnapshotHistory(n)
    PROVE  Shape'
<1> DEFINE v == [IdleNotifier EXCEPT !.pc = "append", !.msg = nextMsg, !.ctx = ring]
<1>1. nextMsg \in Msgs /\ nextMsg' \in 1..(MaxMsgs + 1)
  BY ConstantsAssumption DEF SnapshotHistory, Shape, TypeOK, Msgs
<1>2. v \in NotifierStates /\ v.pc = "append" /\ v.msg \in Msgs /\ v.todo = {}
  BY <1>1 DEF Shape, TypeOK, NotifierStates, IdleNotifier
<1>3. notifier' = [notifier EXCEPT ![n] = v]
  BY DEF SnapshotHistory
<1> HIDE DEF v
<1>4. TypeOK'
  BY <1>1, <1>2, <1>3 DEF SnapshotHistory, Shape, TypeOK, objVars, poolVars
<1> QED
  BY <1>2, <1>3, <1>4, NotifierMoveShape
  DEF SnapshotHistory, Shape, PointersValid, objVars, poolVars


(* AppendHistory keeps the ring a sequence of messages. *)
LEMMA AppendHistoryShape ==
    ASSUME NEW n \in Notifiers, Shape, AppendHistory(n)
    PROVE  Shape'
<1>1. notifier[n].msg \in Msgs
  BY DEF AppendHistory, Shape, GoroutinesValid
<1>2. ring' \in Seq(Msgs)
  <2>1. Append(ring, notifier[n].msg) \in Seq(Msgs)
    BY <1>1 DEF Shape, TypeOK
  <2> QED
    BY <2>1, LastNType, ConstantsAssumption DEF AppendHistory
<1>3. notifier' \in [Notifiers -> NotifierStates]
  <2>1. notifier \in [Notifiers -> NotifierStates]
    BY DEF Shape, TypeOK
  <2>2. [notifier[n] EXCEPT !.pc = "notify"] \in NotifierStates
    BY <2>1 DEF NotifierStates
  <2> QED
    BY <2>1, <2>2 DEF AppendHistory
<1>4. TypeOK'
  BY <1>2, <1>3 DEF AppendHistory, Shape, TypeOK, objVars, poolVars
<1>5. PointersValid'
  BY DEF AppendHistory, Shape, TypeOK, PointersValid, Allocated, NotifierStates, objVars, poolVars
<1>6. GoroutinesValid'
  BY <1>1 DEF AppendHistory, Shape, TypeOK, GoroutinesValid, Allocated, NotifierStates, objVars
<1> QED
  BY <1>4, <1>5, <1>6 DEF Shape

(* The snapshot of Notify holds compiled objects only. *)
LEMMA NotifySnapshotShape ==
    ASSUME NEW n \in Notifiers, Shape, NotifySnapshot(n)
    PROVE  Shape'
<1> DEFINE v == IF CachedObjs = {} THEN IdleNotifier
                ELSE [notifier[n] EXCEPT !.pc = "loop", !.todo = CachedObjs, !.psnap = paused]
<1>1. CachedObjs \subseteq Objs /\ \A o \in CachedObjs : Allocated(o)
  BY DEF CachedObjs, Shape, TypeOK, PointersValid
<1>2. notifier[n] \in NotifierStates /\ notifier[n].msg \in Msgs
  BY DEF NotifySnapshot, Shape, TypeOK, GoroutinesValid
<1>3. /\ v \in NotifierStates
      /\ v.pc \in {"idle", "loop"}
      /\ v.pc = "loop" => v.msg \in Msgs
      /\ \A o \in v.todo : Allocated(o)
  <2>1. CASE CachedObjs = {}
    BY <2>1, IdleTypes DEF IdleNotifier
  <2>2. CASE CachedObjs # {}
    <3>1. paused \subseteq Accounts
      BY DEF Shape, TypeOK
    <3> QED
      BY <2>2, <3>1, <1>1, <1>2 DEF NotifierStates
  <2> QED
    BY <2>1, <2>2
<1>4. notifier' = [notifier EXCEPT ![n] = v]
  BY DEF NotifySnapshot
<1> HIDE DEF v
<1>5. TypeOK'
  BY <1>3, <1>4 DEF NotifySnapshot, Shape, TypeOK, objVars, poolVars
<1> QED
  BY ZenonT(60), <1>3, <1>4, <1>5 DEF NotifySnapshot, Shape, TypeOK, PointersValid, GoroutinesValid,
                          Allocated, objVars, poolVars

(* A notifier that is done with an object keeps its message, and forgets   *)
(* nothing but the object.                                                 *)
LEMMA DoneWithType ==
    ASSUME NEW n \in Notifiers, NEW o \in Objs, Shape, notifier[n].pc # "idle"
    PROVE  /\ DoneWith(n, o) \in NotifierStates
           /\ DoneWith(n, o).pc \in {"idle", "loop"}
           /\ DoneWith(n, o).pc = "loop" => DoneWith(n, o).msg \in Msgs
           /\ \A p \in DoneWith(n, o).todo : Allocated(p)
<1>1. notifier[n] \in NotifierStates /\ notifier[n].msg \in Msgs
  BY DEF Shape, TypeOK, GoroutinesValid
<1>2. CASE notifier[n].todo = {o}
  BY <1>2, IdleTypes DEF DoneWith, IdleNotifier
<1>3. CASE notifier[n].todo # {o}
  <2>1. \A p \in notifier[n].todo : Allocated(p)
    BY DEF Shape, PointersValid
  <2> QED
    BY <1>1, <1>3, <2>1 DEF DoneWith, NotifierStates
<1> QED
  BY <1>2, <1>3

(* The steps that only move a notifier past an object, and may write a row *)
(* of subscription_fires.                                                  *)
LEMMA PassedOverShape ==
    ASSUME NEW n \in Notifiers, NEW o \in Objs, Shape,
           NoMatch(n, o) \/ MatchPaused(n, o) \/ MatchInCooldown(n, o) \/ MatchOverBudget(n, o)
    PROVE  Shape'
<1>1. /\ notifier[n].pc = "loop" /\ o \in notifier[n].todo
      /\ notifier' = [notifier EXCEPT ![n] = DoneWith(n, o)]
      /\ UNCHANGED <<now, nextMsg, ring, cached, paused, objVars, flushed, worker,
                     poolVars, stopped, ctxDone, fires>>
  BY DEF NoMatch, MatchPaused, MatchInCooldown, MatchOverBudget, Visiting
<1>2. skips' \subseteq SkipRows
  <2>1. conf[o].sub \in Subs /\ notifier[n].msg \in Msgs
    BY <1>1 DEF Shape, PointersValid, GoroutinesValid, Allocated, LiveConfigs
  <2> QED
    BY <2>1 DEF NoMatch, MatchPaused, MatchInCooldown, MatchOverBudget, RecordSkip, SkipRows,
                Shape, TypeOK
<1>3. TypeOK'
  BY <1>1, <1>2, DoneWithType DEF Shape, TypeOK, objVars, poolVars
<1> QED
  BY <1>1, <1>3, DoneWithType DEF Shape, TypeOK, PointersValid, GoroutinesValid, Allocated,
                                  objVars, poolVars


(* What the gate adds to a window. *)
LEMMA AcceptedType ==
    ASSUME NEW n \in Notifiers, NEW o \in Objs, Shape, Accepts(n, o)
    PROVE  /\ Allocated(o)
           /\ notifier[n].pc = "loop"
           /\ Accumulated(n, o) \in Seq(Msgs)
           /\ Accumulated(n, o) # <<>>
           /\ CapturedContext(n, o) \in Seq(Msgs)
<1>1. notifier[n].pc = "loop" /\ o \in notifier[n].todo
  BY DEF Accepts, Visiting
<1>2. Allocated(o) /\ notifier[n].msg \in Msgs
  BY <1>1 DEF Shape, PointersValid, GoroutinesValid
<1>3. pending[o] \in Seq(Msgs) /\ pctx[o] \in Seq(Msgs) /\ notifier[n].ctx \in Seq(Msgs)
  BY DEF Shape, TypeOK, NotifierStates
<1>4. CapturedContext(n, o) \in Seq(Msgs)
  <2>1. conf[o].ctxLines \in Nat
    BY <1>2 DEF Allocated, LiveConfigs
  <2> QED
    BY <1>3, <2>1, LastNType DEF CapturedContext
<1>5. Accumulated(n, o) \in Seq(Msgs) /\ Accumulated(n, o) # <<>>
  BY <1>2, <1>3 DEF Accumulated
<1> QED
  BY <1>1, <1>2, <1>4, <1>5

(* handleMatch: a match joins an open window. *)
LEMMA MatchJoinsWindowShape ==
    ASSUME NEW n \in Notifiers, NEW o \in Objs, Shape, MatchJoinsWindow(n, o)
    PROVE  Shape'
<1>1. Accepts(n, o)
  BY DEF MatchJoinsWindow
<1>2. TypeOK'
  BY <1>1, AcceptedType, DoneWithType DEF MatchJoinsWindow, Shape, TypeOK, poolVars
<1> QED
  BY ZenonT(60), <1>1, <1>2, AcceptedType, DoneWithType
  DEF MatchJoinsWindow, Shape, TypeOK, PointersValid, GoroutinesValid, Allocated, poolVars

(* handleMatch: a match opens a window and arms its timer. *)
LEMMA MatchOpensWindowShape ==
    ASSUME NEW n \in Notifiers, NEW o \in Objs, Shape, MatchOpensWindow(n, o)
    PROVE  Shape'
<1>1. Accepts(n, o)
  BY DEF MatchOpensWindow
<1>2. due' \in [Objs -> Nat]
  <2>1. conf[o].debounce \in Nat
    BY <1>1, AcceptedType DEF Allocated, LiveConfigs
  <2> QED
    BY <2>1 DEF MatchOpensWindow, Shape, TypeOK
<1>3. TypeOK'
  BY <1>1, <1>2, AcceptedType, DoneWithType
  DEF MatchOpensWindow, Shape, TypeOK, TimerStates, poolVars
<1>4. PointersValid'
  BY <1>1, AcceptedType, DoneWithType
  DEF MatchOpensWindow, Shape, TypeOK, PointersValid, Allocated, poolVars
<1>5. GoroutinesValid'
  BY <1>1, AcceptedType, DoneWithType
  DEF MatchOpensWindow, Shape, TypeOK, GoroutinesValid, Allocated
<1> QED
  BY <1>3, <1>4, <1>5 DEF Shape

(* drainPendingLocked resets the window within its types. *)
LEMMA DrainPendingType ==
    ASSUME NEW o \in Objs, TypeOK, DrainPending(o)
    PROVE  /\ pending' \in [Objs -> Seq(Msgs)]
           /\ pctx' \in [Objs -> Seq(Msgs)]
           /\ lastFire' \in [Objs -> Nat \cup {Never}]
BY DEF DrainPending, TypeOK

(* handleMatch without debounce: the batch becomes a task. *)
LEMMA MatchFiresShape ==
    ASSUME NEW n \in Notifiers, NEW o \in Objs, Shape, MatchFires(n, o)
    PROVE  Shape'
<1> DEFINE t == [obj |-> o, matches |-> Accumulated(n, o), ctx |-> CapturedContext(n, o)]
           v == [notifier[n] EXCEPT !.pc = "enqueue", !.task = t]
<1>1. Accepts(n, o)
  BY DEF MatchFires
<1>2. t \in FireTask /\ t.obj = o
  BY <1>1, AcceptedType DEF FireTask
<1>3. notifier[n] \in NotifierStates /\ notifier[n].msg \in Msgs
  BY <1>1, AcceptedType DEF Shape, TypeOK, GoroutinesValid
<1>4. /\ v \in NotifierStates /\ v.pc = "enqueue" /\ v.task = t
      /\ v.msg \in Msgs /\ v.todo = notifier[n].todo
  BY <1>2, <1>3 DEF NotifierStates
<1>5. notifier' = [notifier EXCEPT ![n] = v]
  BY <1>3 DEF MatchFires, Shape, TypeOK
<1> HIDE DEF t, v
<1>6. TypeOK'
  BY <1>1, <1>4, <1>5, DrainPendingType DEF MatchFires, Shape, TypeOK, poolVars
<1>7. \A p \in v.todo : Allocated(p)
  BY <1>4 DEF Shape, PointersValid
<1> QED
  BY <1>1, <1>2, <1>4, <1>5, <1>6, <1>7, AcceptedType, NotifierMoveShape
  DEF MatchFires, Shape, PointersValid, poolVars

(* pool.enqueue adds the task to the queue, counts it, or drops it. *)
LEMMA EnqueueShape ==
    ASSUME NEW t \in FireTask, Shape, Allocated(t.obj), Enqueue(t), UNCHANGED conf
    PROVE  /\ tasks' \in Seq(FireTask)
           /\ dropped' \subseteq FireTask
           /\ \A i \in 1..Len(tasks') : Allocated(tasks'[i].obj)
<1>1. CASE tasks' = tasks
  BY <1>1 DEF Enqueue, Shape, TypeOK, PointersValid, poolVars
<1>2. CASE tasks' = Append(tasks, t) /\ dropped' = dropped
  <2>1. tasks \in Seq(FireTask) /\ dropped \subseteq FireTask
    BY DEF Shape, TypeOK
  <2>2. ASSUME NEW i \in 1..Len(tasks') 
        PROVE  tasks'[i] = t \/ (i \in 1..Len(tasks) /\ tasks'[i] = tasks[i])
    BY <1>2, <2>1
  <2> QED
    BY <1>2, <2>1, <2>2 DEF Shape, PointersValid
<1> QED
  BY <1>1, <1>2 DEF Enqueue, poolVars

(* The notifier hands its task over and moves on. *)
LEMMA EnqueueInlineShape ==
    ASSUME NEW n \in Notifiers, Shape, EnqueueInline(n)
    PROVE  Shape'
<1> DEFINE t == notifier[n].task
<1>1. t \in FireTask /\ Allocated(t.obj) /\ t.obj \in Objs
  BY DEF EnqueueInline, Shape, GoroutinesValid, Allocated
<1>2. Enqueue(t) /\ conf' = conf
  BY DEF EnqueueInline, objVars
<1>3. notifier' = [notifier EXCEPT ![n] = DoneWith(n, t.obj)] /\ notifier[n].pc # "idle"
  BY DEF EnqueueInline
<1> HIDE DEF t
<1>4. TypeOK'
  BY ZenonT(60), <1>1, <1>2, <1>3, EnqueueShape, DoneWithType DEF EnqueueInline, Shape, TypeOK, objVars
<1>5. \A i \in 1..Len(tasks') : Allocated(tasks'[i].obj)
  BY <1>1, <1>2, EnqueueShape
<1>6. UNCHANGED <<cached, conf, flushed, worker>>
  BY DEF EnqueueInline, objVars
<1> DEFINE v == DoneWith(n, t.obj)
<1>7. /\ v \in NotifierStates /\ v.pc \in {"idle", "loop"}
      /\ v.pc = "loop" => v.msg \in Msgs
      /\ \A p \in v.todo : Allocated(p)
  BY <1>1, <1>3, DoneWithType
<1> HIDE DEF v
<1> QED
  BY <1>3, <1>4, <1>5, <1>6, <1>7, NotifierMoveShape DEF v

(* An expiry only changes the state of the timer. *)
LEMMA TimerExpiresShape ==
    ASSUME NEW o \in Objs, Shape, TimerExpires(o)
    PROVE  Shape'
BY DEF TimerExpires, Shape, TypeOK, TimerStates, PointersValid, GoroutinesValid, Allocated, poolVars

(* flushDebounced turns a window into a task of its object. *)
LEMMA FlushDebouncedShape ==
    ASSUME NEW o \in Objs, Shape, FlushDebounced(o), pending[o] # <<>>, Allocated(o)
    PROVE  Shape'
<1> DEFINE t == [obj |-> o, matches |-> pending[o], ctx |-> pctx[o]]
<1>1. t \in FireTask /\ t.obj = o
  BY DEF FireTask, Shape, TypeOK
<1>2. DrainPending(o) /\ flushed' = flushed \cup {t}
  BY DEF FlushDebounced
<1> HIDE DEF t
<1>3. TypeOK'
  BY <1>1, <1>2, DrainPendingType
  DEF FlushDebounced, ClearTimer, Shape, TypeOK, TimerStates, poolVars
<1> QED
  BY <1>1, <1>2, <1>3
  DEF FlushDebounced, Shape, TypeOK, PointersValid, GoroutinesValid, Allocated, poolVars

(* The timer goroutine hands its task over. *)
LEMMA EnqueueFlushedShape ==
    ASSUME NEW t \in flushed, Shape, EnqueueFlushed(t)
    PROVE  Shape'
<1>1. t \in FireTask /\ Allocated(t.obj) /\ Enqueue(t) /\ conf' = conf
  BY DEF EnqueueFlushed, Shape, TypeOK, PointersValid, objVars
<1>2. TypeOK'
  BY <1>1, EnqueueShape DEF EnqueueFlushed, Shape, TypeOK, objVars
<1>3. PointersValid'
  BY <1>1, EnqueueShape DEF EnqueueFlushed, Shape, PointersValid, Allocated, objVars
<1>4. GoroutinesValid'
  BY <1>1 DEF EnqueueFlushed, Shape, GoroutinesValid, Allocated
<1> QED
  BY <1>2, <1>3, <1>4 DEF Shape

(* A worker takes the head of the queue, a task of a compiled object. *)
LEMMA WorkerTakeShape ==
    ASSUME NEW w \in Workers, Shape, WorkerTake(w)
    PROVE  Shape'
<1> DEFINE v == [IdleWorker EXCEPT !.pc = "send", !.task = Head(tasks), !.attempt = 1]
<1>1. tasks \in Seq(FireTask) /\ tasks # <<>> /\ tasks' = Tail(tasks)
  BY DEF WorkerTake, Shape, TypeOK
<1>2. Head(tasks) \in FireTask /\ Allocated(Head(tasks).obj) /\ tasks' \in Seq(FireTask)
  BY <1>1 DEF Shape, PointersValid
<1>3. \A i \in 1..Len(tasks') : Allocated(tasks'[i].obj)
  <2>1. ASSUME NEW i \in 1..Len(tasks')
        PROVE  i + 1 \in 1..Len(tasks) /\ tasks'[i] = tasks[i + 1]
    BY <1>1
  <2> QED
    BY <2>1 DEF Shape, PointersValid
<1>4. /\ v \in WorkerStates /\ v.pc = "send" /\ v.task = Head(tasks) /\ v.attempt = 1
  <2>1. 1 \in 0..MaxRetries
    BY ConstantsAssumption
  <2> QED
    BY <1>2, <2>1 DEF WorkerStates, IdleWorker
<1>5. worker' = [worker EXCEPT ![w] = v]
  BY DEF WorkerTake
<1> HIDE DEF v
<1>6. TypeOK'
  BY <1>2, <1>4, <1>5 DEF WorkerTake, Shape, TypeOK, objVars
<1>7. PointersValid'
  BY <1>3 DEF WorkerTake, Shape, PointersValid, Allocated, objVars
<1>8. GoroutinesValid'
  BY <1>2, <1>4, <1>5 DEF WorkerTake, Shape, TypeOK, GoroutinesValid, Allocated, objVars
<1> QED
  BY <1>6, <1>7, <1>8 DEF Shape

(* The steps of a worker that change no more than its own state and the    *)
(* failure counter of an object.                                           *)
LEMMA WorkerMoveShape ==
    ASSUME NEW w \in Workers, NEW v \in WorkerStates, Shape,
           worker' = [worker EXCEPT ![w] = v],
           v.pc \in {"send", "backoff", "record", "disable"} =>
             /\ v.task \in FireTask /\ Allocated(v.task.obj) /\ v.attempt >= 1,
           v.pc = "backoff" => v.attempt < MaxRetries,
           v.pc = "record" => v.status # "none",
           consec4xx' \in [Objs -> Nat],
           fires' \subseteq FireRows,
           UNCHANGED <<now, nextMsg, ring, cached, paused, conf, timer, due, pending, pctx,
                       lastFire, notifier, flushed, poolVars, stopped, ctxDone, skips>>
    PROVE  Shape'
<1>1. TypeOK'
  BY DEF Shape, TypeOK, poolVars
<1>2. PointersValid'
  BY DEF Shape, PointersValid, Allocated, poolVars
<1>3. GoroutinesValid'
  BY DEF Shape, TypeOK, GoroutinesValid, Allocated
<1> QED
  BY <1>1, <1>2, <1>3 DEF Shape

(* What is known of a worker that is not idle. *)
LEMMA BusyWorker ==
    ASSUME NEW w \in Workers, Shape
    PROVE  /\ worker[w] \in WorkerStates
           /\ worker[w].pc \in {"send", "backoff", "record", "disable"} =>
                /\ worker[w].task \in FireTask
                /\ Allocated(worker[w].task.obj)
                /\ worker[w].task.obj \in Objs
                /\ worker[w].attempt \in 1..MaxRetries
                /\ worker[w].attempt >= 1
           /\ worker[w].pc = "backoff" => worker[w].attempt < MaxRetries
           /\ worker[w].pc = "record" => worker[w].status \in {"ok", "dropped_4xx", "failed"}
<1>1. worker[w] \in WorkerStates
  BY DEF Shape, TypeOK
<1> QED
  BY <1>1, ConstantsAssumption DEF Shape, GoroutinesValid, Allocated, WorkerStates

(* run returns: the worker leaves its loop empty-handed. *)
LEMMA WorkerExitShape ==
    ASSUME NEW w \in Workers, Shape, WorkerExit(w)
    PROVE  Shape'
<1> DEFINE v == [worker[w] EXCEPT !.pc = "exited"]
<1>1. v \in WorkerStates /\ v.pc = "exited"
  BY BusyWorker DEF WorkerStates
<1>2. worker' = [worker EXCEPT ![w] = v]
  BY DEF WorkerExit, Shape, TypeOK
<1>3. consec4xx' \in [Objs -> Nat] /\ fires' \subseteq FireRows
  BY DEF WorkerExit, Shape, TypeOK, objVars
<1> HIDE DEF v
<1> QED
  BY <1>1, <1>2, <1>3, WorkerMoveShape DEF WorkerExit, objVars

(* deliver: success resets the failure counter. *)
LEMMA SendOKShape ==
    ASSUME NEW w \in Workers, Shape, SendOK(w)
    PROVE  Shape'
<1> DEFINE v == [worker[w] EXCEPT !.pc = "record", !.status = "ok"]
<1>1. /\ v \in WorkerStates /\ v.pc = "record" /\ v.status = "ok"
      /\ v.task = worker[w].task /\ v.attempt = worker[w].attempt
  BY BusyWorker DEF WorkerStates
<1>2. worker' = [worker EXCEPT ![w] = v]
  BY DEF SendOK, Shape, TypeOK
<1>3. consec4xx' \in [Objs -> Nat] /\ fires' \subseteq FireRows
  BY BusyWorker DEF SendOK, Shape, TypeOK
<1>4. v.task \in FireTask /\ Allocated(v.task.obj) /\ v.attempt >= 1
  BY <1>1, BusyWorker DEF SendOK
<1> HIDE DEF v
<1> QED
  BY <1>1, <1>2, <1>3, <1>4, WorkerMoveShape DEF SendOK

(* deliver: a permanent failure is counted. *)
LEMMA SendPermanentShape ==
    ASSUME NEW w \in Workers, Shape, SendPermanent(w)
    PROVE  Shape'
<1> DEFINE o == worker[w].task.obj
           d == (consec4xx[o] + 1 >= AutoDisable4xx)
           v == [worker[w] EXCEPT !.pc = "record", !.status = "dropped_4xx", !.disable = d]
<1>1. worker[w].pc = "send" /\ o \in Objs
  BY BusyWorker DEF SendPermanent
<1>2. worker' = [worker EXCEPT ![w] = v] /\ consec4xx' = [consec4xx EXCEPT ![o] = @ + 1]
  BY DEF SendPermanent, Shape, TypeOK
<1>3. d \in BOOLEAN
  OBVIOUS
<1>4. consec4xx' \in [Objs -> Nat] /\ fires' \subseteq FireRows
  BY <1>1, <1>2 DEF SendPermanent, Shape, TypeOK
<1> HIDE DEF d, o
<1>5. /\ v \in WorkerStates /\ v.pc = "record" /\ v.status = "dropped_4xx"
      /\ v.task = worker[w].task /\ v.attempt = worker[w].attempt
  BY <1>3, BusyWorker DEF WorkerStates
<1> HIDE DEF v
<1>6. v.task \in FireTask /\ Allocated(v.task.obj) /\ v.attempt >= 1
  BY <1>1, <1>5, BusyWorker
<1> QED
  BY <1>2, <1>4, <1>5, <1>6, WorkerMoveShape DEF SendPermanent

(* deliver: a transient failure backs off or gives up. *)
LEMMA SendTransientShape ==
    ASSUME NEW w \in Workers, Shape, SendTransient(w)
    PROVE  Shape'
<1> DEFINE v == AfterTransient(worker[w])
<1>1. worker[w].pc = "send" /\ worker' = [worker EXCEPT ![w] = v]
  BY DEF SendTransient
<1>2. consec4xx' \in [Objs -> Nat] /\ fires' \subseteq FireRows
  BY DEF SendTransient, Shape, TypeOK, objVars
<1>3. /\ v \in WorkerStates /\ v.pc \in {"backoff", "record"}
      /\ v.task = worker[w].task /\ v.attempt = worker[w].attempt
      /\ v.pc = "backoff" => v.attempt < MaxRetries
      /\ v.pc = "record" => v.status = "failed"
  BY BusyWorker DEF WorkerStates, AfterTransient
<1> HIDE DEF v
<1>4. v.task \in FireTask /\ Allocated(v.task.obj) /\ v.attempt >= 1
  BY <1>1, <1>3, BusyWorker
<1> QED
  BY <1>1, <1>2, <1>3, <1>4, WorkerMoveShape DEF SendTransient, objVars


(* deliver: the attempt counter stays within MaxRetries. *)
LEMMA BackoffShape ==
    ASSUME NEW w \in Workers, Shape, BackoffElapsed(w) \/ BackoffCancelled(w)
    PROVE  Shape'
<1>1. worker[w].pc = "backoff"
  BY DEF BackoffElapsed, BackoffCancelled
<1>2. consec4xx' \in [Objs -> Nat] /\ fires' \subseteq FireRows
  BY DEF BackoffElapsed, BackoffCancelled, Shape, TypeOK, objVars
<1>3. CASE BackoffElapsed(w)
  <2> DEFINE v == [worker[w] EXCEPT !.pc = "send", !.attempt = @ + 1]
  <2>1. worker[w].attempt + 1 \in 1..MaxRetries /\ worker[w].attempt + 1 \in 0..MaxRetries
    BY <1>1, BusyWorker, ConstantsAssumption
  <2>2. /\ v \in WorkerStates /\ v.pc = "send"
        /\ v.task = worker[w].task /\ v.attempt = worker[w].attempt + 1
    BY <2>1, BusyWorker DEF WorkerStates
  <2>3. worker' = [worker EXCEPT ![w] = v]
    BY <1>3 DEF BackoffElapsed, Shape, TypeOK
  <2> HIDE DEF v
  <2>4. v.task \in FireTask /\ Allocated(v.task.obj) /\ v.attempt >= 1
    BY <1>1, <2>1, <2>2, BusyWorker
  <2> QED
    BY <1>2, <1>3, <2>2, <2>3, <2>4, WorkerMoveShape DEF BackoffElapsed, objVars
<1>4. CASE BackoffCancelled(w)
  <2> DEFINE v == [worker[w] EXCEPT !.pc = "record", !.status = "failed"]
  <2>1. /\ v \in WorkerStates /\ v.pc = "record" /\ v.status = "failed"
        /\ v.task = worker[w].task /\ v.attempt = worker[w].attempt
    BY BusyWorker DEF WorkerStates
  <2>2. worker' = [worker EXCEPT ![w] = v]
    BY <1>4 DEF BackoffCancelled, Shape, TypeOK
  <2> HIDE DEF v
  <2>3. v.task \in FireTask /\ Allocated(v.task.obj) /\ v.attempt >= 1
    BY <1>1, <2>1, BusyWorker
  <2> QED
    BY <1>2, <1>4, <2>1, <2>2, <2>3, WorkerMoveShape DEF BackoffCancelled, objVars
<1> QED
  BY <1>3, <1>4

(* recordFire writes a row with a final status. *)
LEMMA RecordFireShape ==
    ASSUME NEW w \in Workers, Shape, RecordFire(w)
    PROVE  Shape'
<1> DEFINE v == AfterRecord(worker[w])
           r(ok) == [task |-> worker[w].task, status |-> worker[w].status,
                     attempts |-> worker[w].attempt, day |-> Today, stored |-> ok]
<1>1. worker[w].pc = "record" /\ worker' = [worker EXCEPT ![w] = v]
  BY DEF RecordFire
<1>2. ASSUME NEW ok \in BOOLEAN PROVE r(ok) \in FireRows
  <2>1. Today \in Int
    BY ConstantsAssumption DEF Today, Shape, TypeOK
  <2> QED
    BY <1>1, <2>1, BusyWorker DEF FireRows
<1>3. consec4xx' \in [Objs -> Nat] /\ fires' \subseteq FireRows
  <2>1. PICK ok \in {TRUE, ~StoreMayFail} : fires' = fires \cup {r(ok)}
    BY DEF RecordFire
  <2>2. r(ok) \in FireRows
    BY <1>2, ConstantsAssumption, Zenon
  <2> QED
    BY <2>1, <2>2 DEF RecordFire, Shape, TypeOK, objVars
<1>4. /\ v \in WorkerStates /\ v.pc \in {"disable", "idle"}
      /\ v.pc = "disable" => v.task = worker[w].task /\ v.attempt = worker[w].attempt
  BY BusyWorker, IdleTypes DEF AfterRecord, WorkerStates, IdleWorker
<1> HIDE DEF v
<1>5. v.pc = "disable" => v.task \in FireTask /\ Allocated(v.task.obj) /\ v.attempt >= 1
  BY <1>1, <1>4, BusyWorker
<1> QED
  BY <1>1, <1>3, <1>4, <1>5, WorkerMoveShape DEF RecordFire, objVars

(* autoDisable clears the cache entry of the subscription. *)
LEMMA AutoDisableShape ==
    ASSUME NEW w \in Workers, Shape, AutoDisable(w)
    PROVE  Shape'
<1> DEFINE s == conf[worker[w].task.obj].sub
<1>1. s \in Subs /\ RemoveFromCache(s)
  BY BusyWorker DEF AutoDisable, Allocated, LiveConfigs
<1> HIDE DEF s
<1>2. timer' \in [Objs -> TimerStates]
  BY <1>1, StopTimerOfType DEF RemoveFromCache, Shape
<1>3. TypeOK'
  BY <1>1, <1>2, IdleTypes DEF AutoDisable, RemoveFromCache, Shape, TypeOK, poolVars
<1>4. PointersValid'
  BY <1>1 DEF AutoDisable, RemoveFromCache, Shape, TypeOK, PointersValid, Allocated, poolVars
<1>5. GoroutinesValid'
  BY IdleTypes DEF AutoDisable, Shape, TypeOK, GoroutinesValid, Allocated, IdleWorker
<1> QED
  BY <1>3, <1>4, <1>5 DEF Shape

(* The clock and the shutdown leave the pipeline well formed. *)
LEMMA EnvironmentShape ==
    ASSUME Shape, CancelContext \/ StopPool \/ Tick \/ UNCHANGED vars
    PROVE  Shape'
<1>1. TypeOK'
  <2>1. CASE CancelContext
    BY <2>1 DEF CancelContext, Shape, TypeOK, objVars, poolVars
  <2>2. CASE StopPool
    BY <2>2 DEF StopPool, Shape, TypeOK, objVars, poolVars
  <2>3. CASE Tick
    BY <2>3 DEF Tick, Shape, TypeOK, objVars, poolVars
  <2>4. CASE UNCHANGED vars
    BY <2>4 DEF vars, Shape, TypeOK, objVars, poolVars
  <2> QED
    BY <2>1, <2>2, <2>3, <2>4
<1>2. PointersValid'
  BY DEF CancelContext, StopPool, Tick, vars, Shape, PointersValid, Allocated, objVars, poolVars
<1>3. GoroutinesValid'
  BY DEF CancelContext, StopPool, Tick, vars, Shape, GoroutinesValid, Allocated, objVars, poolVars
<1> QED
  BY <1>1, <1>2, <1>3 DEF Shape

-----------------------------------------------------------------------------
(***************************************************************************)
(* The gate.  Beside WindowHasTimer the induction needs the dates: a fire  *)
(* lies in the past, a timer that fired was due, and the timer of an open  *)
(* window is due no earlier than cooldown + debounce after the last fire,  *)
(* because the match that armed it had passed the cooldown.                *)
(***************************************************************************)
Dated(o) ==
    /\ timer[o] # "nil" => Allocated(o)
    /\ lastFire[o] <= now
    /\ timer[o] = "fired" => due[o] <= now
    /\ (timer[o] # "nil" /\ lastFire[o] # Never) =>
         due[o] >= lastFire[o] + conf[o].cooldown + conf[o].debounce

Inv == Shape /\ WindowHasTimer /\ \A o \in Objs : Dated(o)

(* The invariant holds of an empty manager. *)
LEMMA InitInv == Init => Inv
BY InitShape DEF Init, Inv, WindowHasTimer, Dated, Never

(* Steps that leave the gate of every object alone. *)
LEMMA GateUntouched ==
    ASSUME Inv, Shape', UNCHANGED <<conf, timer, due, pending, lastFire>>, now' >= now
    PROVE  Inv'
<1>1. ASSUME NEW o \in Objs PROVE Dated(o)'
  <2>1. Dated(o) /\ now \in Nat /\ now' \in Nat /\ lastFire[o] \in Nat \cup {Never} /\ due[o] \in Nat
    BY DEF Inv, Shape, TypeOK
  <2> QED
    BY <2>1 DEF Dated, Allocated, Never
<1> QED
  BY <1>1 DEF Inv, WindowHasTimer

(* Stopping a timer keeps its window and its date. *)
LEMMA StopTimerGate ==
    ASSUME Inv, Shape', NEW s \in Subs, StopTimerOf(s),
           UNCHANGED <<now, due, pending, lastFire>>,
           \A o \in Objs : conf'[o] = conf[o] \/ conf[o] = None
    PROVE  Inv'
<1>1. ASSUME NEW o \in Objs
      PROVE  /\ timer'[o] = timer[o] \/ (timer[o] = "armed" /\ timer'[o] = "stopped")
             /\ timer'[o] \in TimerStates /\ timer[o] \in TimerStates
  BY DEF StopTimerOf, StopTimer, Inv, Shape, TypeOK
<1>2. WindowHasTimer'
  BY <1>1 DEF Inv, WindowHasTimer
<1>3. ASSUME NEW o \in Objs PROVE Dated(o)'
  <2>1. Dated(o)
    BY DEF Inv
  <2> QED
    BY <1>1, <2>1 DEF Dated, Allocated
<1> QED
  BY <1>2, <1>3 DEF Inv


(* The cells of the heap are numbers where the arithmetic needs them. *)
LEMMA GateTypes ==
    ASSUME Inv, NEW o \in Objs
    PROVE  /\ now \in Nat /\ due[o] \in Nat /\ lastFire[o] \in Int /\ lastFire[o] <= now
           /\ timer[o] \in TimerStates /\ pending[o] \in Seq(Msgs)
           /\ Allocated(o) => conf[o].debounce \in Nat /\ conf[o].cooldown \in Nat
BY DEF Inv, Shape, TypeOK, Never, Allocated, LiveConfigs, Dated

(* A match that joins a window finds the timer already there. *)
LEMMA JoinGate ==
    ASSUME NEW n \in Notifiers, NEW o \in Objs, Inv, MatchJoinsWindow(n, o)
    PROVE  Inv'
<1>1. Accepts(n, o) /\ Shape
  BY DEF MatchJoinsWindow, Inv
<1>2. Shape'
  BY <1>1, MatchJoinsWindowShape
<1>3. WindowHasTimer'
  BY <1>1, AcceptedType DEF MatchJoinsWindow, Inv, WindowHasTimer, Shape, TypeOK
<1>4. ASSUME NEW p \in Objs PROVE Dated(p)'
  BY DEF MatchJoinsWindow, Inv, Dated, Allocated
<1> QED
  BY <1>2, <1>3, <1>4 DEF Inv

(* A match that opens a window brings the timer, dated after the cooldown. *)
LEMMA OpenGate ==
    ASSUME NEW n \in Notifiers, NEW o \in Objs, Inv, MatchOpensWindow(n, o)
    PROVE  Inv'
<1>1. Accepts(n, o) /\ Shape
  BY DEF MatchOpensWindow, Inv
<1>2. Shape' /\ Allocated(o)
  BY <1>1, MatchOpensWindowShape, AcceptedType
<1>3. WindowHasTimer'
  BY <1>1, AcceptedType DEF MatchOpensWindow, Inv, WindowHasTimer, Shape, TypeOK
<1>4. lastFire[o] # Never => now >= lastFire[o] + conf[o].cooldown
  BY <1>1, <1>2, GateTypes DEF Accepts, CoolingDown
<1>5. Dated(o)'
  <2>1. /\ timer'[o] = "armed" /\ due'[o] = now + conf[o].debounce
        /\ now' = now /\ lastFire' = lastFire /\ conf' = conf
    BY DEF MatchOpensWindow, Inv, Shape, TypeOK
  <2> QED
    BY <1>2, <1>4, <2>1, GateTypes DEF Dated, Allocated
<1>6. ASSUME NEW p \in Objs, p # o PROVE Dated(p)'
  <2>1. timer'[p] = timer[p] /\ due'[p] = due[p]
    BY <1>6 DEF MatchOpensWindow, Inv, Shape, TypeOK
  <2> QED
    BY <2>1 DEF MatchOpensWindow, Inv, Dated, Allocated
<1> QED
  BY <1>2, <1>3, <1>5, <1>6 DEF Inv

(* A drain empties the window and dates the fire. *)
LEMMA DrainGate ==
    ASSUME NEW o \in Objs, Inv, Shape', DrainPending(o), timer'[o] = "nil",
           \A p \in Objs : p # o => timer'[p] = timer[p],
           UNCHANGED <<now, conf, due>>
    PROVE  Inv'
<1>1. /\ pending'[o] = <<>> /\ lastFire'[o] = now
      /\ \A p \in Objs : p # o => pending'[p] = pending[p] /\ lastFire'[p] = lastFire[p]
  BY DEF DrainPending, Inv, Shape, TypeOK
<1>2. WindowHasTimer'
  BY <1>1 DEF Inv, WindowHasTimer
<1>3. ASSUME NEW p \in Objs PROVE Dated(p)'
  BY <1>1, GateTypes DEF Inv, Dated, Allocated
<1> QED
  BY <1>2, <1>3 DEF Inv

(* A fire without debounce leaves the window as empty as it was. *)
LEMMA FireGate ==
    ASSUME NEW n \in Notifiers, NEW o \in Objs, Inv, MatchFires(n, o)
    PROVE  Inv'
<1>1. Shape'
  BY MatchFiresShape DEF Inv
<1> QED
  BY <1>1, DrainGate DEF MatchFires

(* flushDebounced clears the timer and the window together. *)
LEMMA FlushGate ==
    ASSUME NEW o \in Objs, Inv, FlushDebounced(o)
    PROVE  Inv'
<1>1. timer[o] = "fired" /\ pending[o] # <<>> /\ Allocated(o)
  BY DEF FlushDebounced, Inv, WindowHasTimer, Dated
<1>2. Shape'
  BY <1>1, FlushDebouncedShape DEF Inv
<1>3. /\ timer'[o] = "nil"
      /\ \A p \in Objs : p # o => timer'[p] = timer[p]
  BY DEF FlushDebounced, ClearTimer, Inv, Shape, TypeOK
<1> QED
  BY <1>1, <1>2, <1>3, DrainGate DEF FlushDebounced

(* An expired timer still stands for its window. *)
LEMMA ExpireGate ==
    ASSUME NEW o \in Objs, Inv, TimerExpires(o)
    PROVE  Inv'
<1>1. Shape'
  BY TimerExpiresShape DEF Inv
<1>2. /\ timer[o] = "armed" /\ timer'[o] = "fired" /\ now >= due[o]
      /\ \A p \in Objs : p # o => timer'[p] = timer[p]
      /\ UNCHANGED <<now, conf, due, pending, lastFire>>
  BY DEF TimerExpires, Inv, Shape, TypeOK
<1>3. WindowHasTimer'
  BY <1>2 DEF Inv, WindowHasTimer
<1>4. ASSUME NEW p \in Objs PROVE Dated(p)'
  BY <1>2, GateTypes DEF Inv, Dated, Allocated
<1> QED
  BY <1>1, <1>3, <1>4 DEF Inv

(* AddOrUpdate and Remove stop a timer and never clear it. *)
LEMMA CacheGate ==
    ASSUME NEW s \in Subs, Inv,
           \/ \E c \in Configs : AddOrUpdate(s, c)
           \/ Remove(s)
    PROVE  Inv'
<1>1. Shape'
  BY AddOrUpdateShape, RemoveShape DEF Inv
<1>2. StopTimerOf(s) /\ UNCHANGED <<now, due, pending, lastFire>>
  BY DEF AddOrUpdate, Remove, RemoveFromCache
<1>3. \A o \in Objs : conf'[o] = conf[o] \/ conf[o] = None
  BY DEF AddOrUpdate, Remove, Inv, Shape, TypeOK
<1> QED
  BY <1>1, <1>2, <1>3, StopTimerGate

(* So does autoDisable. *)
LEMMA AutoDisableGate ==
    ASSUME NEW w \in Workers, Inv, AutoDisable(w)
    PROVE  Inv'
<1> DEFINE s == conf[worker[w].task.obj].sub
<1>1. Shape'
  BY AutoDisableShape DEF Inv
<1>2. s \in Subs
  BY BusyWorker DEF AutoDisable, Inv, Allocated, LiveConfigs
<1>3. StopTimerOf(s) /\ UNCHANGED <<now, conf, due, pending, lastFire>>
  BY DEF AutoDisable, RemoveFromCache
<1> HIDE DEF s
<1> QED
  BY <1>1, <1>2, <1>3, StopTimerGate


(* Every step of a publishing goroutine keeps the invariant. *)
LEMMA NotifierStepInv ==
    ASSUME NEW n \in Notifiers, Inv, NotifierStep(n)
    PROVE  Inv'
<1> USE DEF objVars
<1>0. Shape /\ now \in Nat
  BY DEF Inv, Shape, TypeOK
<1>1. CASE SnapshotHistory(n) \/ AppendHistory(n) \/ NotifySnapshot(n) \/ EnqueueInline(n)
  <2>1. Shape'
    BY <1>0, <1>1, SnapshotHistoryShape, AppendHistoryShape, NotifySnapshotShape,
       EnqueueInlineShape
  <2>2. UNCHANGED <<now, conf, timer, due, pending, lastFire>>
    BY <1>1 DEF SnapshotHistory, AppendHistory, NotifySnapshot, EnqueueInline
  <2> QED
    BY <1>0, <2>1, <2>2, GateUntouched
<1>4. ASSUME NEW o \in Objs,
             NoMatch(n, o) \/ MatchPaused(n, o) \/ MatchInCooldown(n, o) \/ MatchOverBudget(n, o)
      PROVE  Inv'
  <2>1. Shape'
    BY <1>0, <1>4, PassedOverShape
  <2>2. UNCHANGED <<now, conf, timer, due, pending, lastFire>>
    BY <1>4 DEF NoMatch, MatchPaused, MatchInCooldown, MatchOverBudget
  <2> QED
    BY <1>0, <2>1, <2>2, GateUntouched
<1>5. ASSUME NEW o \in Objs,
             MatchJoinsWindow(n, o) \/ MatchOpensWindow(n, o) \/ MatchFires(n, o)
      PROVE  Inv'
  BY <1>5, JoinGate, OpenGate, FireGate
<1> QED
  BY <1>1, <1>4, <1>5 DEF NotifierStep, NotifierProgress

(* Every step of a worker keeps the invariant. *)
LEMMA WorkerStepInv ==
    ASSUME NEW w \in Workers, Inv, WorkerStep(w)
    PROVE  Inv'
<1>1. CASE AutoDisable(w)
  BY <1>1, AutoDisableGate
<1>2. CASE ~AutoDisable(w)
  <2>1. Shape /\ now \in Nat
    BY DEF Inv, Shape, TypeOK
  <2>2. Shape'
    BY <1>2, <2>1, WorkerTakeShape, WorkerExitShape, SendOKShape, SendPermanentShape,
       SendTransientShape, BackoffShape, RecordFireShape DEF WorkerStep
  <2>3. UNCHANGED <<now, conf, timer, due, pending, lastFire>>
    BY <1>2 DEF WorkerStep, WorkerTake, WorkerExit, SendOK, SendPermanent, SendTransient,
                BackoffElapsed, BackoffCancelled, RecordFire, objVars
  <2> QED
    BY <2>1, <2>2, <2>3, GateUntouched
<1> QED
  BY <1>1, <1>2

(* So do the clock and the shutdown. *)
LEMMA EnvironmentInv ==
    ASSUME Inv, CancelContext \/ StopPool \/ Tick \/ UNCHANGED vars
    PROVE  Inv'
<1>1. Shape' /\ now \in Nat
  BY EnvironmentShape DEF Inv, Shape, TypeOK
<1>2. UNCHANGED <<conf, timer, due, pending, lastFire>> /\ now' >= now
  BY <1>1 DEF CancelContext, StopPool, Tick, vars, objVars
<1> QED
  BY <1>1, <1>2, GateUntouched

(* The invariant is inductive. *)
LEMMA NextInv == Inv /\ [Next]_vars => Inv'
<1> SUFFICES ASSUME Inv, [Next]_vars PROVE Inv'
  OBVIOUS
<1>1. ASSUME NEW s \in Subs, NEW c \in Configs, AddOrUpdate(s, c) PROVE Inv'
  BY <1>1, CacheGate
<1>2. ASSUME NEW s \in Subs, Remove(s) PROVE Inv'
  BY <1>2, CacheGate
<1>3. ASSUME NEW a \in Accounts, NEW p \in BOOLEAN, SetBotPaused(a, p) PROVE Inv'
  <2>1. Shape' /\ now \in Nat
    BY <1>3, SetBotPausedShape DEF Inv, Shape, TypeOK
  <2> QED
    BY <1>3, <2>1, GateUntouched DEF SetBotPaused, objVars
<1>4. ASSUME NEW t \in flushed, EnqueueFlushed(t) PROVE Inv'
  <2>1. Shape' /\ now \in Nat
    BY <1>4, EnqueueFlushedShape DEF Inv, Shape, TypeOK
  <2> QED
    BY <1>4, <2>1, GateUntouched DEF EnqueueFlushed, objVars
<1>5. CASE TimerStep
  BY <1>4, <1>5, ExpireGate, FlushGate DEF TimerStep
<1>6. CASE Control
  BY <1>1, <1>2, <1>3, <1>6, EnvironmentInv DEF Control
<1>7. CASE (\E n \in Notifiers : NotifierStep(n)) \/ (\E w \in Workers : WorkerStep(w))
  BY <1>7, NotifierStepInv, WorkerStepInv
<1>8. CASE Tick \/ UNCHANGED vars
  BY <1>8, EnvironmentInv
<1> QED
  BY <1>5, <1>6, <1>7, <1>8 DEF Next

(* The strengthened invariant holds in every reachable state of the pipeline. *)
THEOREM InvHolds == Spec => []Inv
BY InitInv, NextInv, PTL DEF Spec

(* Every variable of the pipeline keeps its type, for any number of        *)
(* subscriptions, goroutines and queue slots.                              *)
THEOREM TypeCorrect == Spec => []TypeOK
<1>1. Inv => TypeOK
  BY DEF Inv, Shape
<1> QED
  BY InvHolds, <1>1, PTL

(* handleMatch and flushDebounced never park a match without a timer: a    *)
(* window with matches has a timer, be it one that an update stopped, and  *)
(* a timer has matches, in every interleaving.                             *)
THEOREM WindowsHaveTimers == Spec => []WindowHasTimer
<1>1. Inv => WindowHasTimer
  BY DEF Inv
<1> QED
  BY InvHolds, <1>1, PTL

(* An action that changes lastFire[o] is a drain of o.  It comes no        *)
(* earlier than cooldown + debounce after the previous one.                *)
LEMMA SpacedStep ==
    ASSUME Inv, [Next]_vars, NEW o \in Objs, lastFire'[o] # lastFire[o], lastFire[o] # Never
    PROVE  lastFire'[o] - lastFire[o] >= conf[o].cooldown + conf[o].debounce
<1>1. PICK p \in Objs : \/ \E n \in Notifiers : MatchFires(n, p)
                        \/ FlushDebounced(p) /\ pending[p] # <<>>
  <2>1. CASE Control \/ Tick \/ UNCHANGED vars
    BY <2>1 DEF Control, AddOrUpdate, Remove, SetBotPaused, CancelContext, StopPool, Tick,
                vars, objVars
  <2>2. ASSUME NEW n \in Notifiers, NotifierStep(n)
        PROVE  \E p \in Objs : MatchFires(n, p)
    BY <2>2 DEF NotifierStep, NotifierProgress, SnapshotHistory, AppendHistory, NotifySnapshot, NoMatch,
                MatchPaused, MatchInCooldown, MatchOverBudget, MatchJoinsWindow,
                MatchOpensWindow, EnqueueInline, objVars
  <2>3. CASE TimerStep
    BY <2>3 DEF TimerStep, TimerExpires, FlushDebounced, EnqueueFlushed, objVars
  <2>4. ASSUME NEW w \in Workers, WorkerStep(w)
        PROVE  FALSE
    BY <2>4 DEF WorkerStep, WorkerTake, WorkerExit, SendOK, SendPermanent, SendTransient,
                BackoffElapsed, BackoffCancelled, RecordFire, AutoDisable, objVars
  <2> QED
    BY <2>1, <2>2, <2>3, <2>4 DEF Next
<1>2. DrainPending(p)
  BY <1>1 DEF MatchFires, FlushDebounced
<1>3. p = o /\ lastFire'[o] = now
  BY <1>2 DEF DrainPending, Inv, Shape, TypeOK
<1>4. CASE \E n \in Notifiers : MatchFires(n, p)
  <2>1. PICK n \in Notifiers : MatchFires(n, o)
    BY <1>3, <1>4
  <2>2. Accepts(n, o) /\ conf[o].debounce = 0 /\ Allocated(o)
    BY <2>1, AcceptedType DEF MatchFires, Inv
  <2> QED
    BY <1>3, <2>2, GateTypes DEF Accepts, CoolingDown
<1>5. CASE FlushDebounced(p)
  <2>1. timer[o] = "fired" /\ Dated(o)
    BY <1>3, <1>5 DEF FlushDebounced, Inv
  <2> QED
    BY <1>3, <2>1, GateTypes DEF Dated
<1> QED
  BY <1>1, <1>4, <1>5

(* Two fires of one subscription object are at least cooldown + debounce   *)
(* apart.                                                                  *)
THEOREM FiresSpaced == Spec => FiresOfObjectSpaced
<1>1. Inv /\ [Next]_vars =>
        [\A o \in Objs : (lastFire'[o] # lastFire[o] /\ lastFire[o] # Never) =>
            lastFire'[o] - lastFire[o] >= conf[o].cooldown + conf[o].debounce]_vars
  BY SpacedStep
<1> QED
  BY InvHolds, <1>1, PTL DEF Spec, FiresOfObjectSpaced
-----------------------------------------------------------------------------
(***************************************************************************)
(* One fate.  A message has at most one place for a subscription because   *)
(* every step moves it from one place to another, or gives it its first    *)
(* one.  The first one is given by the handler that visits an object of    *)
(* the subscription, so the induction has to know that a handler visits    *)
(* one object per subscription and that its message has no place yet for   *)
(* those it has still to visit.                                            *)
(***************************************************************************)
AtPending(s, m) ==
    UNION {PlacesInWindow(o, m) : o \in {o \in Objs : conf[o] # None /\ conf[o].sub = s}}
AtNotifier(s, m) == {<<"notifier", n>> : n \in {n \in Notifiers :
            /\ notifier[n].pc = "enqueue"
            /\ SubOf(notifier[n].task) = s /\ Carries(notifier[n].task, m)}}
AtFlushed(s, m) == {<<"flushed", t>> : t \in {t \in flushed : SubOf(t) = s /\ Carries(t, m)}}
AtQueued(s, m) == {<<"queued", i>> : i \in {i \in DOMAIN tasks :
            SubOf(tasks[i]) = s /\ Carries(tasks[i], m)}}
AtWorker(s, m) == {<<"worker", w>> : w \in {w \in Workers :
            /\ Delivering(w)
            /\ SubOf(worker[w].task) = s /\ Carries(worker[w].task, m)}}
AtDropped(s, m) == {<<"dropped", t>> : t \in {t \in dropped : SubOf(t) = s /\ Carries(t, m)}}
AtFired(s, m) == {<<"fired", r>> : r \in {r \in fires : SubOf(r.task) = s /\ Carries(r.task, m)}}
AtSkipped(s, m) == {<<"skipped", k>> : k \in {k \in skips : k.sub = s /\ k.msg = m}}

(* The places, kind by kind. *)
LEMMA PlacesByKind ==
    ASSUME NEW s, NEW m
    PROVE  /\ Places(s, m) = AtPending(s, m) \cup AtNotifier(s, m) \cup AtFlushed(s, m)
                 \cup AtQueued(s, m) \cup AtWorker(s, m) \cup AtDropped(s, m)
                 \cup AtFired(s, m) \cup AtSkipped(s, m)
           /\ Places(s, m)' = AtPending(s, m)' \cup AtNotifier(s, m)' \cup AtFlushed(s, m)'
                 \cup AtQueued(s, m)' \cup AtWorker(s, m)' \cup AtDropped(s, m)'
                 \cup AtFired(s, m)' \cup AtSkipped(s, m)'
BY DEF Places, AtPending, AtNotifier, AtFlushed, AtQueued, AtWorker, AtDropped, AtFired, AtSkipped

(* A place tells its kind. *)
LEMMA KindsApart ==
    ASSUME NEW s, NEW m
    PROVE  /\ \A p \in AtPending(s, m) : p[1] = "pending"
           /\ \A p \in AtNotifier(s, m) : p[1] = "notifier"
           /\ \A p \in AtFlushed(s, m) : p[1] = "flushed"
           /\ \A p \in AtQueued(s, m) : p[1] = "queued"
           /\ \A p \in AtWorker(s, m) : p[1] = "worker"
           /\ \A p \in AtDropped(s, m) : p[1] = "dropped"
           /\ \A p \in AtFired(s, m) : p[1] = "fired"
           /\ \A p \in AtSkipped(s, m) : p[1] = "skipped"
BY DEF AtPending, PlacesInWindow, AtNotifier, AtFlushed, AtQueued, AtWorker, AtDropped, AtFired,
       AtSkipped

(* At most one place. *)
Alone(s, m) == \A a, b \in Places(s, m) : a = b

(* What the records point at has been compiled. *)
RecordsValid ==
    /\ \A t \in dropped : Allocated(t.obj)
    /\ \A r \in fires : Allocated(r.task.obj)

(* The cells in use keep their subscription. *)
SameConf == \A o \in Objs : Allocated(o) => conf'[o] = conf[o]

(* A place whose variable does not change stays, whatever is compiled. *)
LEMMA SamePending ==
    ASSUME Inv, SameConf, NEW s, NEW m, UNCHANGED pending
    PROVE  AtPending(s, m)' = AtPending(s, m)
<1>1. ASSUME NEW o \in Objs, pending[o] # <<>>
      PROVE  conf'[o] = conf[o] /\ conf[o] # None
  BY <1>1 DEF Inv, WindowHasTimer, Dated, SameConf, Allocated
<1>2. ASSUME NEW o \in Objs, NEW i \in DOMAIN pending[o] PROVE pending[o] # <<>>
  OBVIOUS
<1> QED
  BY <1>1, <1>2 DEF AtPending, PlacesInWindow

(* The same for the handlers that have a task in hand. *)
NotifierTasksKept ==
    \A n \in Notifiers : /\ notifier'[n].pc = "enqueue" <=> notifier[n].pc = "enqueue"
                         /\ notifier[n].pc = "enqueue" => notifier'[n].task = notifier[n].task
LEMMA SameNotifier ==
    ASSUME Inv, SameConf, NEW s, NEW m, NotifierTasksKept
    PROVE  AtNotifier(s, m)' = AtNotifier(s, m)
<1>1. \A n \in Notifiers : notifier[n].pc = "enqueue" =>
         conf'[notifier[n].task.obj] = conf[notifier[n].task.obj]
  BY DEF Inv, Shape, GoroutinesValid, SameConf, Allocated
<1> QED
  BY <1>1 DEF NotifierTasksKept, AtNotifier, SubOf, Carries

(* The same for the timers' goroutines and for the queue. *)
LEMMA SameFlushed ==
    ASSUME Inv, SameConf, NEW s, NEW m, UNCHANGED flushed
    PROVE  AtFlushed(s, m)' = AtFlushed(s, m)
<1>1. \A t \in flushed : conf'[t.obj] = conf[t.obj]
  BY DEF Inv, Shape, PointersValid, SameConf, Allocated
<1> QED
  BY <1>1 DEF AtFlushed, SubOf, Carries

(* The same for the queue. *)
LEMMA SameQueued ==
    ASSUME Inv, SameConf, NEW s, NEW m, UNCHANGED tasks
    PROVE  AtQueued(s, m)' = AtQueued(s, m)
<1>1. DOMAIN tasks = 1..Len(tasks)
  BY DEF Inv, Shape, TypeOK
<1>2. \A i \in DOMAIN tasks : conf'[tasks[i].obj] = conf[tasks[i].obj]
  BY <1>1 DEF Inv, Shape, PointersValid, SameConf, Allocated
<1> QED
  BY <1>2 DEF AtQueued, SubOf, Carries

(* The same for the workers. *)
WorkerTasksKept ==
    \A w \in Workers : /\ Delivering(w)' <=> Delivering(w)
                       /\ Delivering(w) => worker'[w].task = worker[w].task
LEMMA SameWorker ==
    ASSUME Inv, SameConf, NEW s, NEW m, WorkerTasksKept
    PROVE  AtWorker(s, m)' = AtWorker(s, m)
<1>1. \A w \in Workers : Delivering(w) => conf'[worker[w].task.obj] = conf[worker[w].task.obj]
  BY DEF Inv, Shape, GoroutinesValid, SameConf, Allocated, Delivering
<1> QED
  BY <1>1 DEF WorkerTasksKept, AtWorker, SubOf, Carries

(* The same for the records. *)
LEMMA SameDropped ==
    ASSUME RecordsValid, SameConf, NEW s, NEW m, UNCHANGED dropped
    PROVE  AtDropped(s, m)' = AtDropped(s, m)
<1>1. \A t \in dropped : conf'[t.obj] = conf[t.obj]
  BY DEF RecordsValid, SameConf, Allocated
<1> QED
  BY <1>1 DEF AtDropped, SubOf, Carries

(* The same for the outcomes. *)
LEMMA SameFired ==
    ASSUME RecordsValid, SameConf, NEW s, NEW m, UNCHANGED fires
    PROVE  AtFired(s, m)' = AtFired(s, m)
<1>1. \A r \in fires : conf'[r.task.obj] = conf[r.task.obj]
  BY DEF RecordsValid, SameConf, Allocated
<1> QED
  BY <1>1 DEF AtFired, SubOf, Carries

(* The same for the suppressed matches. *)
LEMMA SameSkipped ==
    ASSUME NEW s, NEW m, UNCHANGED skips
    PROVE  AtSkipped(s, m)' = AtSkipped(s, m)
BY DEF AtSkipped

(* All of them together. *)
LEMMA KindsKept ==
    ASSUME Inv, RecordsValid, SameConf, NEW s, NEW m
    PROVE  /\ UNCHANGED pending => AtPending(s, m)' = AtPending(s, m)
           /\ NotifierTasksKept => AtNotifier(s, m)' = AtNotifier(s, m)
           /\ UNCHANGED flushed => AtFlushed(s, m)' = AtFlushed(s, m)
           /\ UNCHANGED tasks => AtQueued(s, m)' = AtQueued(s, m)
           /\ WorkerTasksKept => AtWorker(s, m)' = AtWorker(s, m)
           /\ UNCHANGED dropped => AtDropped(s, m)' = AtDropped(s, m)
           /\ UNCHANGED fires => AtFired(s, m)' = AtFired(s, m)
           /\ UNCHANGED skips => AtSkipped(s, m)' = AtSkipped(s, m)
BY SamePending, SameNotifier, SameFlushed, SameQueued, SameWorker, SameDropped, SameFired, SameSkipped

(* What a handler of a message is and has seen: messages are numbered once,*)
(* the objects a handler visits are of different subscriptions, and the    *)
(* one whose task it has in hand is still among them.                      *)
Handler(n) ==
    notifier[n].pc # "idle" =>
        /\ notifier[n].msg < nextMsg
        /\ \A k \in Notifiers \ {n} :
              notifier[k].pc # "idle" => notifier[k].msg # notifier[n].msg
        /\ \A o, p \in notifier[n].todo : conf[o].sub = conf[p].sub => o = p
        /\ notifier[n].pc = "enqueue" => notifier[n].task.obj \in notifier[n].todo

CachedOwn == \A s \in Subs : cached[s] # None => conf[cached[s]].sub = s

HandlersInv ==
    /\ RecordsValid
    /\ CachedOwn
    /\ \A n \in Notifiers : Handler(n)

(* No message is in two places; one that is still to be published, or      *)
(* still to be brought to the subscription, is in none.                    *)
PlaceInv ==
    /\ \A s \in Subs, m \in Msgs : Alone(s, m)
    /\ \A s \in Subs, m \in Msgs : m >= nextMsg => Places(s, m) = {}
    /\ \A n \in Notifiers, s \in Subs, m \in Msgs :
         Ahead(n, s) /\ m = notifier[n].msg => Places(s, m) = {}

(* No handler has anything further ahead than before. *)
AheadShrinks ==
    \A n \in Notifiers, s \in Subs :
        Ahead(n, s)' => Ahead(n, s) /\ notifier'[n].msg = notifier[n].msg

(* Both hold of an empty manager. *)
LEMMA InitPlaces == Init => HandlersInv /\ PlaceInv
<1> SUFFICES ASSUME Init PROVE HandlersInv /\ PlaceInv
  OBVIOUS
<1>1. HandlersInv
  BY DEF Init, HandlersInv, RecordsValid, CachedOwn, Handler, IdleNotifier
<1>2. ASSUME NEW s, NEW m PROVE Places(s, m) = {}
  <2>1. /\ AtPending(s, m) = {} /\ AtNotifier(s, m) = {} /\ AtFlushed(s, m) = {}
        /\ AtQueued(s, m) = {} /\ AtWorker(s, m) = {} /\ AtDropped(s, m) = {}
        /\ AtFired(s, m) = {} /\ AtSkipped(s, m) = {}
    BY DEF Init, AtPending, AtNotifier, AtFlushed, AtQueued, AtWorker, AtDropped, AtFired, AtSkipped,
           IdleNotifier, IdleWorker, Delivering
  <2> QED
    BY <2>1, PlacesByKind
<1> QED
  BY <1>1, <1>2 DEF PlaceInv, Alone

(* Steps outside the handlers leave them what they have seen. *)
LEMMA OutsideHandlers ==
    ASSUME Inv, HandlersInv, SameConf, UNCHANGED <<notifier, nextMsg>>, RecordsValid', CachedOwn'
    PROVE  HandlersInv' /\ AheadShrinks
<1>1. \A n \in Notifiers : \A o \in notifier[n].todo : conf'[o] = conf[o]
  BY DEF Inv, Shape, PointersValid, SameConf, Allocated
<1>2. \A n \in Notifiers : Handler(n)'
  BY <1>1 DEF HandlersInv, Handler
<1>3. AheadShrinks
  BY <1>1 DEF AheadShrinks, Ahead
<1> QED
  BY <1>2, <1>3 DEF HandlersInv

(* A step of one handler: it ends, or goes on with the message it has. *)
Onward(n) ==
    notifier'[n].pc # "idle" =>
        /\ notifier[n].pc # "idle"
        /\ notifier'[n].msg = notifier[n].msg
        /\ \A o, p \in notifier'[n].todo : conf[o].sub = conf[p].sub => o = p
        /\ notifier'[n].pc = "enqueue" => notifier'[n].task.obj \in notifier'[n].todo

(* Such a step keeps what is known of all handlers. *)
LEMMA OneHandler ==
    ASSUME HandlersInv, NEW n \in Notifiers, \A k \in Notifiers \ {n} : notifier'[k] = notifier[k],
           UNCHANGED <<conf, cached, nextMsg>>, RecordsValid', Onward(n)
    PROVE  HandlersInv'
<1>1. CachedOwn'
  BY DEF HandlersInv, CachedOwn
<1>2. ASSUME NEW k \in Notifiers PROVE Handler(k)'
  <2> SUFFICES ASSUME notifier'[k].pc # "idle" PROVE Handler(k)'
    BY DEF Handler
  <2>1. \A j \in Notifiers : notifier'[j].pc # "idle" =>
          notifier[j].pc # "idle" /\ notifier'[j].msg = notifier[j].msg
    BY DEF Onward
  <2>2. Handler(k) /\ notifier[k].pc # "idle" /\ notifier'[k].msg = notifier[k].msg
    BY <2>1 DEF HandlersInv
  <2>3. /\ notifier'[k].msg < nextMsg
        /\ \A j \in Notifiers \ {k} : notifier'[j].pc # "idle" => notifier'[j].msg # notifier'[k].msg
    BY <2>1, <2>2 DEF Handler
  <2>4. /\ \A o, p \in notifier'[k].todo : conf[o].sub = conf[p].sub => o = p
        /\ notifier'[k].pc = "enqueue" => notifier'[k].task.obj \in notifier'[k].todo
    BY <2>2 DEF Handler, Onward
  <2> QED
    BY <2>3, <2>4 DEF Handler
<1> QED
  BY <1>1, <1>2 DEF HandlersInv

(* A handler that is done with an object goes on with the others. *)
OthersAhead(n, o) ==
    \A s \in Subs : Ahead(n, s)' =>
        /\ notifier'[n].msg = notifier[n].msg
        /\ \E p \in notifier[n].todo \ {o} : conf[p].sub = s
LEMMA DoneOnward ==
    ASSUME Inv, HandlersInv, NEW n \in Notifiers, NEW o \in Objs, notifier[n].pc # "idle",
           notifier' = [notifier EXCEPT ![n] = DoneWith(n, o)], UNCHANGED conf
    PROVE  /\ \A k \in Notifiers \ {n} : notifier'[k] = notifier[k]
           /\ Onward(n)
           /\ notifier'[n].pc # "enqueue"
           /\ OthersAhead(n, o)
<1>1. notifier \in [Notifiers -> NotifierStates] /\ notifier[n] \in NotifierStates
  BY DEF Inv, Shape, TypeOK
<1>2. notifier'[n] = DoneWith(n, o) /\ \A k \in Notifiers \ {n} : notifier'[k] = notifier[k]
  BY <1>1
<1>3. CASE notifier[n].todo = {o}
  BY <1>2, <1>3 DEF DoneWith, IdleNotifier, Onward, OthersAhead, Ahead
<1>4. CASE notifier[n].todo # {o}
  <2>1. /\ notifier'[n].pc = "loop" /\ notifier'[n].msg = notifier[n].msg
        /\ notifier'[n].todo = notifier[n].todo \ {o}
    BY <1>1, <1>2, <1>4 DEF DoneWith, NotifierStates
  <2>2. Handler(n)
    BY DEF HandlersInv
  <2> QED
    BY <1>2, <2>1, <2>2 DEF Handler, Onward, OthersAhead, Ahead
<1> QED
  BY <1>3, <1>4

(* A step that moves the message, if anything: where there was at most one *)
(* place there is at most one, and where there was none there is none.     *)
Kept(s, m) ==
    /\ Alone(s, m) => Alone(s, m)'
    /\ Places(s, m) = {} => Places(s, m)' = {}

(* No place is new. *)
LEMMA FewerKept ==
    ASSUME NEW s, NEW m, Places(s, m)' \subseteq Places(s, m)
    PROVE  Kept(s, m)
BY DEF Kept, Alone

(* One place is new, but another one is left. *)
LEMMA MovedKept ==
    ASSUME NEW s, NEW m, NEW from \in Places(s, m), NEW to,
           Places(s, m)' \subseteq Places(s, m) \cup {to}, from \notin Places(s, m)'
    PROVE  Kept(s, m)
BY DEF Kept, Alone

(* Steps that move messages keep the invariant. *)
LEMMA KeptPlaceInv ==
    ASSUME Inv, Inv', PlaceInv, AheadShrinks, nextMsg' >= nextMsg,
           \A s \in Subs, m \in Msgs : Kept(s, m)
    PROVE  PlaceInv'
<1>1. (\A s \in Subs, m \in Msgs : Alone(s, m))'
  BY DEF PlaceInv, Kept
<1>2. (\A s \in Subs, m \in Msgs : m >= nextMsg => Places(s, m) = {})'
  <2> SUFFICES ASSUME NEW s \in Subs, NEW m \in Msgs, m >= nextMsg' PROVE Places(s, m)' = {}
    OBVIOUS
  <2>1. m >= nextMsg
    BY ConstantsAssumption DEF Inv, Shape, TypeOK, Msgs
  <2> QED
    BY <2>1 DEF PlaceInv, Kept
<1>3. (\A n \in Notifiers, s \in Subs, m \in Msgs :
        Ahead(n, s) /\ m = notifier[n].msg => Places(s, m) = {})'
  <2> SUFFICES ASSUME NEW n \in Notifiers, NEW s \in Subs, NEW m \in Msgs, Ahead(n, s)',
                      m = notifier'[n].msg
               PROVE  Places(s, m)' = {}
    OBVIOUS
  <2>1. Ahead(n, s) /\ m = notifier[n].msg
    BY DEF AheadShrinks
  <2>2. Places(s, m) = {}
    BY <2>1 DEF PlaceInv
  <2> QED
    BY <2>2 DEF Kept
<1> QED
  BY <1>1, <1>2, <1>3 DEF PlaceInv

(* The step that gives a message its first place for a subscription: the   *)
(* handler had it ahead, and has not any more.                             *)
LEMMA AddsPlaceInv ==
    ASSUME Inv, Inv', HandlersInv, PlaceInv, AheadShrinks, UNCHANGED nextMsg,
           NEW n \in Notifiers, NEW s0 \in Subs, NEW m0, m0 = notifier[n].msg,
           Ahead(n, s0), ~Ahead(n, s0)',
           \A s \in Subs, m \in Msgs : s # s0 \/ m # m0 => Places(s, m)' \subseteq Places(s, m),
           NEW q, Places(s0, m0)' \subseteq Places(s0, m0) \cup {q}
    PROVE  PlaceInv'
<1>0. notifier[n].pc # "idle" /\ nextMsg \in Nat
  BY ConstantsAssumption DEF Ahead, Inv, Shape, TypeOK
<1>1. m0 \in Msgs /\ m0 < nextMsg /\ Places(s0, m0) = {}
  BY <1>0 DEF PlaceInv, HandlersInv, Handler, Inv, Shape, GoroutinesValid
<1>2. (\A s \in Subs, m \in Msgs : Alone(s, m))'
  BY <1>1 DEF PlaceInv, Alone
<1>3. (\A s \in Subs, m \in Msgs : m >= nextMsg => Places(s, m) = {})'
  <2> SUFFICES ASSUME NEW s \in Subs, NEW m \in Msgs, m >= nextMsg PROVE Places(s, m)' = {}
    OBVIOUS
  <2>1. m # m0
    BY <1>0, <1>1, ConstantsAssumption DEF Msgs
  <2> QED
    BY <2>1 DEF PlaceInv
<1>4. (\A k \in Notifiers, s \in Subs, m \in Msgs :
        Ahead(k, s) /\ m = notifier[k].msg => Places(s, m) = {})'
  <2> SUFFICES ASSUME NEW k \in Notifiers, NEW s \in Subs, NEW m \in Msgs, Ahead(k, s)',
                      m = notifier'[k].msg
               PROVE  Places(s, m)' = {}
    OBVIOUS
  <2>1. Ahead(k, s) /\ m = notifier[k].msg
    BY DEF AheadShrinks
  <2>2. notifier[k].pc # "idle"
    BY <2>1 DEF Ahead
  <2>3. Places(s, m) = {}
    BY <2>1 DEF PlaceInv
  <2>4. s # s0 \/ m # m0
    BY <1>0, <2>1, <2>2 DEF HandlersInv, Handler
  <2> QED
    BY <2>3, <2>4
<1> QED
  BY <1>2, <1>3, <1>4 DEF PlaceInv

(* Everything that could place a message stays as it is. *)
Quiet ==
    /\ SameConf /\ NotifierTasksKept /\ WorkerTasksKept
    /\ UNCHANGED <<pending, flushed, tasks, dropped, fires, skips>>

(* Then every message stays where it is. *)
LEMMA QuietPlaces ==
    ASSUME Inv, HandlersInv, Quiet, NEW s, NEW m
    PROVE  Places(s, m)' = Places(s, m) /\ Kept(s, m)
<1>1. Places(s, m)' = Places(s, m)
  BY KindsKept, PlacesByKind DEF Quiet, HandlersInv
<1> QED
  BY <1>1, FewerKept

(* What a step does to a message for a subscription: its records are for   *)
(* good, a suppression and a first place come to one that was ahead, an    *)
(* outcome or a drop to one that waited, and one that waited goes on       *)
(* waiting or has come to one, unless the pool has stopped.                *)
Waits(s, m) ==
    AtPending(s, m) \cup AtNotifier(s, m) \cup AtFlushed(s, m) \cup AtQueued(s, m) \cup AtWorker(s, m)
Follows(s, m) ==
    /\ Unseen(s, m)' => Unseen(s, m)
    /\ AtFired(s, m) \subseteq AtFired(s, m)'
    /\ AtDropped(s, m) \subseteq AtDropped(s, m)'
    /\ AtSkipped(s, m) \subseteq AtSkipped(s, m)'
    /\ AtFired(s, m)' # {} => AtFired(s, m) # {} \/ Waits(s, m) # {}
    /\ AtDropped(s, m)' # {} => AtDropped(s, m) # {} \/ Waits(s, m) # {}
    /\ AtSkipped(s, m)' # {} => AtSkipped(s, m) # {} \/ Unseen(s, m)
    /\ Waits(s, m)' # {} => Waits(s, m) # {} \/ Unseen(s, m)
    /\ Waits(s, m) # {} => \/ Waits(s, m)' # {} \/ AtFired(s, m)' # {} \/ AtDropped(s, m)' # {}
                           \/ stopped
AllFollow == \A s \in Subs, m \in Msgs : Follows(s, m)

(* What has been seen stays seen. *)
UnseenShrinks == \A s \in Subs, m \in Msgs : Unseen(s, m)' => Unseen(s, m)

(* It does when no handler gets further behind and no message is added. *)
LEMMA SeenStays ==
    ASSUME AheadShrinks, UNCHANGED nextMsg
    PROVE  UnseenShrinks
<1> SUFFICES ASSUME NEW s \in Subs, NEW m \in Msgs, Unseen(s, m)' PROVE Unseen(s, m)
  BY DEF UnseenShrinks
<1>1. CASE m >= nextMsg
  BY <1>1 DEF Unseen
<1>2. ASSUME NEW n \in Notifiers, Ahead(n, s)', notifier'[n].msg = m PROVE Unseen(s, m)
  BY <1>2 DEF AheadShrinks, Unseen
<1> QED
  BY <1>1, <1>2 DEF Unseen

(* Nothing happens to a message that stays where it is. *)
LEMMA QuietFollows ==
    ASSUME Inv, HandlersInv, Quiet, UnseenShrinks
    PROVE  AllFollow
<1> SUFFICES ASSUME NEW s \in Subs, NEW m \in Msgs PROVE Follows(s, m)
  BY DEF AllFollow
<1>1. Unseen(s, m)' => Unseen(s, m)
  BY DEF UnseenShrinks
<1>2. /\ AtPending(s, m)' = AtPending(s, m) /\ AtNotifier(s, m)' = AtNotifier(s, m)
      /\ AtFlushed(s, m)' = AtFlushed(s, m) /\ AtQueued(s, m)' = AtQueued(s, m)
      /\ AtWorker(s, m)' = AtWorker(s, m) /\ AtDropped(s, m)' = AtDropped(s, m)
      /\ AtFired(s, m)' = AtFired(s, m) /\ AtSkipped(s, m)' = AtSkipped(s, m)
  BY KindsKept DEF Quiet, HandlersInv
<1> QED
  BY <1>1, <1>2 DEF Follows, Waits

(* A cell that is compiled anew was not in use. *)
LEMMA SameConfHolds ==
    ASSUME Inv, (UNCHANGED conf) \/ \E s \in Subs, c \in Configs : AddOrUpdate(s, c)
    PROVE  SameConf
BY DEF SameConf, Allocated, AddOrUpdate, Inv, Shape, TypeOK

(* The tasks in hand do not move when the goroutines do not. *)
LEMMA TasksKept ==
    /\ UNCHANGED notifier => NotifierTasksKept
    /\ UNCHANGED worker => WorkerTasksKept
BY DEF NotifierTasksKept, WorkerTasksKept, Delivering

(* Updates and removals, pauses, the shutdown, the clock and a timer that  *)
(* expires.                                                                *)
LEMMA ControlPlaces ==
    ASSUME Inv, Inv', HandlersInv, PlaceInv,
           Control \/ Tick \/ UNCHANGED vars \/ \E o \in Objs : TimerExpires(o)
    PROVE  HandlersInv' /\ PlaceInv' /\ AllFollow
<1>1. UNCHANGED <<notifier, nextMsg, pending, worker, flushed, tasks, dropped, fires, skips>>
  BY DEF Control, AddOrUpdate, Remove, SetBotPaused, CancelContext, StopPool, Tick, vars, TimerExpires,
         objVars, poolVars
<1>2. SameConf
  BY SameConfHolds DEF Control, Remove, SetBotPaused, CancelContext, StopPool, Tick, vars,
                       TimerExpires, objVars
<1>3. RecordsValid'
  BY <1>1, <1>2 DEF HandlersInv, RecordsValid, SameConf, Allocated
<1>4. CachedOwn'
  <2>1. ASSUME NEW s \in Subs, NEW c \in Configs, AddOrUpdate(s, c) PROVE CachedOwn'
    <3>1. PICK o \in Objs : /\ conf[o] = None
                           /\ conf' = [conf EXCEPT ![o] = compileSubscription(s, c)]
                           /\ cached' = [cached EXCEPT ![s] = o]
      BY <2>1 DEF AddOrUpdate
    <3>2. conf'[o].sub = s
      BY <3>1 DEF Inv, Shape, TypeOK, compileSubscription
    <3>3. ASSUME NEW u \in Subs, cached'[u] # None, u # s PROVE conf'[cached'[u]].sub = u
      BY <1>2, <3>1, <3>3 DEF Inv, Shape, TypeOK, PointersValid, HandlersInv, CachedOwn, SameConf, Allocated
    <3>4. cached'[s] = o
      BY <3>1 DEF Inv, Shape, TypeOK
    <3> QED
      BY <3>2, <3>3, <3>4 DEF CachedOwn
  <2>2. ASSUME NEW s \in Subs, Remove(s) PROVE CachedOwn'
    BY <2>2 DEF Remove, RemoveFromCache, HandlersInv, CachedOwn, Inv, Shape, TypeOK
  <2>3. CASE UNCHANGED <<cached, conf>>
    BY <2>3 DEF HandlersInv, CachedOwn
  <2> QED
    BY <2>1, <2>2, <2>3 DEF Control, SetBotPaused, CancelContext, StopPool, Tick, vars, TimerExpires, objVars
<1>5. HandlersInv' /\ AheadShrinks
  BY <1>1, <1>2, <1>3, <1>4, OutsideHandlers
<1>6. Quiet
  BY <1>1, <1>2, TasksKept DEF Quiet
<1>7. nextMsg' >= nextMsg
  BY <1>1, ConstantsAssumption DEF Inv, Shape, TypeOK
<1>8. AllFollow
  BY <1>1, <1>5, <1>6, SeenStays, QuietFollows
<1> QED
  BY <1>5, <1>6, <1>7, <1>8, QuietPlaces, KeptPlaceInv

(* The steps of a worker that keep its task in hand, and those of a worker *)
(* that has none.                                                          *)
LEMMA WorkerQuietPlaces ==
    ASSUME Inv, Inv', HandlersInv, PlaceInv, NEW w \in Workers,
           \/ WorkerExit(w) \/ SendOK(w) \/ SendPermanent(w) \/ SendTransient(w)
           \/ BackoffElapsed(w) \/ BackoffCancelled(w) \/ AutoDisable(w)
    PROVE  HandlersInv' /\ PlaceInv' /\ AllFollow
<1>1. UNCHANGED <<notifier, nextMsg, conf, pending, flushed, tasks, dropped, fires, skips>>
  BY DEF WorkerExit, SendOK, SendPermanent, SendTransient, BackoffElapsed, BackoffCancelled, AutoDisable,
         objVars, poolVars
<1>2. SameConf /\ RecordsValid'
  BY <1>1, SameConfHolds DEF HandlersInv, RecordsValid, Allocated
<1>3. CachedOwn'
  <2>1. CASE AutoDisable(w)
    <3>1. conf[worker[w].task.obj].sub \in Subs
      BY <2>1 DEF AutoDisable, Inv, Shape, GoroutinesValid, Allocated, LiveConfigs
    <3> QED
      BY <1>1, <2>1, <3>1 DEF AutoDisable, RemoveFromCache, HandlersInv, CachedOwn, Inv, Shape, TypeOK
  <2>2. CASE ~AutoDisable(w)
    BY <2>2 DEF WorkerExit, SendOK, SendPermanent, SendTransient, BackoffElapsed, BackoffCancelled,
                HandlersInv, CachedOwn, objVars
  <2> QED
    BY <2>1, <2>2
<1>4. HandlersInv' /\ AheadShrinks
  BY <1>1, <1>2, <1>3, OutsideHandlers
<1>5. WorkerTasksKept
  <2>1. worker \in [Workers -> WorkerStates] /\ worker[w] \in WorkerStates
    BY DEF Inv, Shape, TypeOK
  <2>2. \A v \in Workers : v # w => worker'[v] = worker[v]
    BY <2>1 DEF WorkerExit, SendOK, SendPermanent, SendTransient, BackoffElapsed, BackoffCancelled, AutoDisable
  <2>3. /\ worker'[w].pc \in {"send", "backoff", "record"} <=> worker[w].pc \in {"send", "backoff", "record"}
        /\ worker[w].pc \in {"send", "backoff", "record"} => worker'[w].task = worker[w].task
    <3>1. CASE WorkerExit(w) \/ AutoDisable(w)
      BY <2>1, <3>1 DEF WorkerExit, AutoDisable, IdleWorker, WorkerStates
    <3>2. CASE SendOK(w) \/ BackoffElapsed(w) \/ BackoffCancelled(w)
      BY <2>1, <3>2 DEF SendOK, BackoffElapsed, BackoffCancelled, WorkerStates
    <3>3. CASE SendPermanent(w)
      BY <2>1, <3>3 DEF SendPermanent, WorkerStates
    <3>4. CASE SendTransient(w)
      BY <2>1, <3>4 DEF SendTransient, AfterTransient, WorkerStates
    <3> QED
      BY <3>1, <3>2, <3>3, <3>4
  <2> QED
    BY <2>2, <2>3 DEF WorkerTasksKept, Delivering
<1>6. Quiet
  BY <1>1, <1>2, <1>5, TasksKept DEF Quiet
<1>7. nextMsg' >= nextMsg
  BY <1>1, ConstantsAssumption DEF Inv, Shape, TypeOK
<1>8. AllFollow
  BY <1>1, <1>4, <1>6, SeenStays, QuietFollows
<1> QED
  BY <1>4, <1>6, <1>7, <1>8, QuietPlaces, KeptPlaceInv

(* Only one handler moves: the others have the same things ahead. *)
LEMMA OneAhead ==
    ASSUME NEW n \in Notifiers, \A k \in Notifiers \ {n} : notifier'[k] = notifier[k], UNCHANGED conf,
           \A s \in Subs : Ahead(n, s)' => Ahead(n, s) /\ notifier'[n].msg = notifier[n].msg
    PROVE  AheadShrinks
<1>1. ASSUME NEW k \in Notifiers \ {n}, NEW s \in Subs, Ahead(k, s)'
      PROVE  Ahead(k, s) /\ notifier'[k].msg = notifier[k].msg
  BY <1>1 DEF Ahead
<1> QED
  BY <1>1 DEF AheadShrinks

(* A handler that passes over an object, and places nothing. *)
LEMMA PassedOverPlaces ==
    ASSUME Inv, Inv', HandlersInv, PlaceInv, NEW n \in Notifiers, NEW o \in Objs,
           NoMatch(n, o) \/ MatchInCooldown(n, o)
    PROVE  HandlersInv' /\ PlaceInv' /\ AllFollow
<1>1. /\ notifier[n].pc = "loop" /\ o \in notifier[n].todo
      /\ notifier' = [notifier EXCEPT ![n] = DoneWith(n, o)]
      /\ UNCHANGED <<conf, cached, nextMsg, pending, worker, flushed, tasks, dropped, fires, skips>>
  BY DEF NoMatch, MatchInCooldown, Visiting, objVars, poolVars
<1>2. SameConf /\ RecordsValid'
  BY <1>1, SameConfHolds DEF HandlersInv, RecordsValid, Allocated
<1>3. /\ \A k \in Notifiers \ {n} : notifier'[k] = notifier[k]
      /\ Onward(n)
      /\ notifier'[n].pc # "enqueue"
      /\ OthersAhead(n, o)
  BY <1>1, DoneOnward
<1>4. HandlersInv'
  BY <1>1, <1>2, <1>3, OneHandler
<1>5. \A s \in Subs : Ahead(n, s)' => Ahead(n, s) /\ notifier'[n].msg = notifier[n].msg
  BY <1>1, <1>3 DEF OthersAhead, Ahead
<1>6. AheadShrinks
  BY <1>1, <1>3, <1>5, OneAhead
<1>7. Quiet
  <2>1. NotifierTasksKept
    BY <1>1, <1>3 DEF NotifierTasksKept
  <2> QED
    BY <1>1, <1>2, <2>1, TasksKept DEF Quiet
<1>8. nextMsg' >= nextMsg
  BY <1>1, ConstantsAssumption DEF Inv, Shape, TypeOK
<1>9. AllFollow
  BY <1>1, <1>6, <1>7, SeenStays, QuietFollows
<1> QED
  BY <1>4, <1>6, <1>7, <1>8, <1>9, QuietPlaces, KeptPlaceInv

(* The handler appends to the history, and takes the snapshot of Notify:   *)
(* one object per subscription, as the cache holds one.                    *)
LEMMA SnapshotPlaces ==
    ASSUME Inv, Inv', HandlersInv, PlaceInv, NEW n \in Notifiers,
           AppendHistory(n) \/ NotifySnapshot(n)
    PROVE  HandlersInv' /\ PlaceInv' /\ AllFollow
<1>0. notifier \in [Notifiers -> NotifierStates] /\ notifier[n] \in NotifierStates
  BY DEF Inv, Shape, TypeOK
<1>1. /\ notifier[n].pc \in {"append", "notify"}
      /\ \A k \in Notifiers \ {n} : notifier'[k] = notifier[k]
      /\ UNCHANGED <<conf, cached, nextMsg, pending, worker, flushed, tasks, dropped, fires, skips>>
  BY <1>0 DEF AppendHistory, NotifySnapshot, objVars, poolVars
<1>2. SameConf /\ RecordsValid'
  BY <1>1, SameConfHolds DEF HandlersInv, RecordsValid, Allocated
<1>3. \A o, p \in CachedObjs : conf[o].sub = conf[p].sub => o = p
  BY DEF CachedObjs, HandlersInv, CachedOwn
<1>4. /\ notifier'[n].pc # "enqueue"
      /\ notifier'[n].pc # "idle" =>
           /\ notifier'[n].msg = notifier[n].msg
           /\ notifier'[n].todo = notifier[n].todo \/ notifier'[n].todo = CachedObjs
  <2>1. CASE AppendHistory(n)
    BY <1>0, <2>1 DEF AppendHistory, NotifierStates
  <2>2. CASE NotifySnapshot(n)
    BY <1>0, <2>2 DEF NotifySnapshot, IdleNotifier, NotifierStates
  <2> QED
    BY <2>1, <2>2
<1>5. Onward(n)
  BY <1>1, <1>3, <1>4 DEF Onward, HandlersInv, Handler
<1>6. HandlersInv'
  BY <1>1, <1>2, <1>5, OneHandler
<1>7. AheadShrinks
  <2>1. \A s \in Subs : Ahead(n, s)' => Ahead(n, s) /\ notifier'[n].msg = notifier[n].msg
    BY <1>1, <1>4 DEF Ahead
  <2> QED
    BY <1>1, <2>1, OneAhead
<1>8. Quiet
  <2>1. NotifierTasksKept
    BY <1>1, <1>4 DEF NotifierTasksKept
  <2> QED
    BY <1>1, <1>2, <2>1, TasksKept DEF Quiet
<1>9. nextMsg' >= nextMsg
  BY <1>1, ConstantsAssumption DEF Inv, Shape, TypeOK
<1>10. AllFollow
  BY <1>1, <1>7, <1>8, SeenStays, QuietFollows
<1> QED
  BY <1>6, <1>7, <1>8, <1>9, <1>10, QuietPlaces, KeptPlaceInv

(* A new handler has a message nobody has placed. *)
LEMMA PublishPlaces ==
    ASSUME Inv, Inv', HandlersInv, PlaceInv, NEW n \in Notifiers, SnapshotHistory(n)
    PROVE  HandlersInv' /\ PlaceInv' /\ AllFollow
<1>0. notifier \in [Notifiers -> NotifierStates] /\ notifier[n] \in NotifierStates /\ nextMsg \in Nat
  BY ConstantsAssumption DEF Inv, Shape, TypeOK
<1>1. /\ notifier[n].pc = "idle" /\ nextMsg' = nextMsg + 1
      /\ \A k \in Notifiers \ {n} : notifier'[k] = notifier[k]
      /\ notifier'[n].pc = "append" /\ notifier'[n].msg = nextMsg /\ notifier'[n].todo = {}
      /\ UNCHANGED <<conf, cached, pending, worker, flushed, tasks, dropped, fires, skips>>
  BY <1>0 DEF SnapshotHistory, objVars, poolVars, IdleNotifier
<1>2. SameConf /\ RecordsValid' /\ CachedOwn'
  BY <1>1, SameConfHolds DEF HandlersInv, RecordsValid, Allocated, CachedOwn
<1>3. \A k \in Notifiers \ {n} : notifier[k].pc # "idle" => notifier[k].msg \in Nat /\ notifier[k].msg < nextMsg
  BY ConstantsAssumption DEF HandlersInv, Handler, Inv, Shape, GoroutinesValid, Msgs
<1>4. ASSUME NEW k \in Notifiers PROVE Handler(k)'
  <2>1. CASE k = n
    BY <1>0, <1>1, <1>3, <2>1 DEF Handler
  <2>2. CASE k # n
    <3>1. Handler(k)
      BY DEF HandlersInv
    <3> QED
      BY <1>0, <1>1, <1>3, <2>2, <3>1 DEF Handler
  <2> QED
    BY <2>1, <2>2
<1>5. HandlersInv'
  BY <1>2, <1>4 DEF HandlersInv
<1>6. Quiet
  <2>1. NotifierTasksKept
    BY <1>1 DEF NotifierTasksKept
  <2> QED
    BY <1>1, <1>2, <2>1, TasksKept DEF Quiet
<1>7. \A s \in Subs, m \in Msgs : Places(s, m)' = Places(s, m) /\ Kept(s, m)
  BY <1>6, QuietPlaces
<1>8. (\A s \in Subs, m \in Msgs : m >= nextMsg => Places(s, m) = {})'
  <2> SUFFICES ASSUME NEW s \in Subs, NEW m \in Msgs, m >= nextMsg' PROVE Places(s, m)' = {}
    OBVIOUS
  <2>1. m >= nextMsg
    BY <1>0, <1>1, ConstantsAssumption DEF Msgs
  <2> QED
    BY <1>7, <2>1 DEF PlaceInv
<1>9. (\A k \in Notifiers, s \in Subs, m \in Msgs :
         Ahead(k, s) /\ m = notifier[k].msg => Places(s, m) = {})'
  <2> SUFFICES ASSUME NEW k \in Notifiers, NEW s \in Subs, NEW m \in Msgs, Ahead(k, s)',
                      m = notifier'[k].msg
               PROVE  Places(s, m) = {}
    BY <1>7
  <2>1. CASE k = n
    BY <1>0, <1>1, <2>1 DEF PlaceInv
  <2>2. CASE k # n
    <3>1. Ahead(k, s) /\ m = notifier[k].msg
      BY <1>1, <2>2 DEF Ahead
    <3> QED
      BY <3>1 DEF PlaceInv
  <2> QED
    BY <2>1, <2>2
<1>10. UnseenShrinks
  <2> SUFFICES ASSUME NEW s \in Subs, NEW m \in Msgs, Unseen(s, m)' PROVE Unseen(s, m)
    BY DEF UnseenShrinks
  <2>1. CASE m >= nextMsg'
    <3>1. m >= nextMsg
      BY <1>0, <1>1, <2>1, ConstantsAssumption DEF Msgs
    <3> QED
      BY <3>1 DEF Unseen
  <2>2. ASSUME NEW k \in Notifiers, Ahead(k, s)', notifier'[k].msg = m PROVE Unseen(s, m)
    <3>1. CASE k = n
      BY <1>0, <1>1, <2>2, <3>1 DEF Unseen
    <3>2. CASE k # n
      <4>1. Ahead(k, s) /\ m = notifier[k].msg
        BY <1>1, <2>2, <3>2 DEF Ahead
      <4> QED
        BY <4>1 DEF Unseen
    <3> QED
      BY <3>1, <3>2
  <2> QED
    BY <2>1, <2>2 DEF Unseen
<1>11. AllFollow
  BY <1>6, <1>10, QuietFollows
<1> QED
  BY <1>5, <1>7, <1>8, <1>9, <1>11 DEF PlaceInv, Kept

(* What a handler that visits an object brings it. *)
LEMMA VisitTypes ==
    ASSUME Inv, NEW n \in Notifiers, NEW o \in Objs, Visiting(n, o)
    PROVE  /\ conf[o].sub \in Subs /\ conf[o] # None /\ notifier[n].msg \in Msgs
           /\ Ahead(n, conf[o].sub)
           /\ notifier[n] \in NotifierStates /\ notifier \in [Notifiers -> NotifierStates]
<1>1. notifier[n].pc = "loop" /\ o \in notifier[n].todo
  BY DEF Visiting
<1> QED
  BY <1>1 DEF Inv, Shape, TypeOK, PointersValid, GoroutinesValid, Allocated, LiveConfigs, Ahead

(* Once done with the object, the handler has nothing ahead for its        *)
(* subscription: the other objects are of other ones.                      *)
LEMMA NotAheadAnyMore ==
    ASSUME Inv, HandlersInv, NEW n \in Notifiers, NEW o \in Objs, Visiting(n, o),
           NEW s0, s0 = conf[o].sub, OthersAhead(n, o)
    PROVE  ~Ahead(n, s0)' /\ \A s \in Subs : Ahead(n, s)' => Ahead(n, s) /\ notifier'[n].msg = notifier[n].msg
<1>1. notifier[n].pc = "loop" /\ o \in notifier[n].todo /\ s0 \in Subs
  BY VisitTypes DEF Visiting
<1>2. \A p \in notifier[n].todo \ {o} : conf[p].sub # s0
  BY <1>1 DEF HandlersInv, Handler
<1>3. ~Ahead(n, s0)'
  BY <1>1, <1>2 DEF OthersAhead
<1>4. \A s \in Subs : Ahead(n, s)' => Ahead(n, s) /\ notifier'[n].msg = notifier[n].msg
  BY <1>1 DEF OthersAhead, Ahead
<1> QED
  BY <1>3, <1>4

(* A suppressed match gets a row. *)
LEMMA SuppressedPlaces ==
    ASSUME Inv, Inv', HandlersInv, PlaceInv, NEW n \in Notifiers, NEW o \in Objs,
           MatchPaused(n, o) \/ MatchOverBudget(n, o)
    PROVE  HandlersInv' /\ PlaceInv' /\ AllFollow
<1> DEFINE s0 == conf[o].sub
           m0 == notifier[n].msg
<1>1. /\ Visiting(n, o) /\ notifier[n].pc = "loop"
      /\ notifier' = [notifier EXCEPT ![n] = DoneWith(n, o)]
      /\ UNCHANGED <<conf, cached, nextMsg, pending, worker, flushed, tasks, dropped, fires>>
  BY DEF MatchPaused, MatchOverBudget, Visiting, objVars, poolVars
<1>2. PICK k : k.sub = s0 /\ k.msg = m0 /\ skips \subseteq skips' /\ skips' \subseteq skips \cup {k}
  <2>1. ASSUME NEW status, RecordSkip(o, m0, status)
        PROVE  \E k : /\ k.sub = s0 /\ k.msg = m0
                      /\ skips \subseteq skips' /\ skips' \subseteq skips \cup {k}
    <3> DEFINE k == [sub |-> s0, msg |-> m0, status |-> status]
    <3>1. k.sub = s0 /\ k.msg = m0 /\ skips \subseteq skips' /\ skips' \subseteq skips \cup {k}
      BY <2>1 DEF RecordSkip
    <3> QED
      BY <3>1
  <2> QED
    BY <2>1 DEF MatchPaused, MatchOverBudget
<1>3. SameConf /\ RecordsValid'
  BY <1>1, SameConfHolds DEF HandlersInv, RecordsValid, Allocated
<1>4. /\ \A j \in Notifiers \ {n} : notifier'[j] = notifier[j]
      /\ Onward(n)
      /\ notifier'[n].pc # "enqueue"
      /\ OthersAhead(n, o)
  BY <1>1, DoneOnward
<1>5. HandlersInv'
  BY <1>1, <1>3, <1>4, OneHandler
<1>6. s0 \in Subs /\ m0 \in Msgs /\ Ahead(n, s0)
  BY <1>1, VisitTypes
<1>7. PICK s1, m1 : s1 = s0 /\ m1 = m0
  OBVIOUS
<1>8. ~Ahead(n, s1)' /\ AheadShrinks
  BY <1>1, <1>4, <1>7, NotAheadAnyMore, OneAhead
<1>9. NotifierTasksKept /\ WorkerTasksKept
  BY <1>1, <1>4, TasksKept DEF NotifierTasksKept
<1>10. ASSUME NEW s, NEW m
       PROVE  /\ Places(s, m)' \subseteq Places(s, m) \cup {<<"skipped", k>>}
              /\ s # s1 \/ m # m1 => Places(s, m)' \subseteq Places(s, m)
              /\ s \in Subs /\ m \in Msgs => Follows(s, m)
  <2>1. /\ AtSkipped(s, m)' \subseteq AtSkipped(s, m) \cup {<<"skipped", k>>}
        /\ s # s1 \/ m # m1 => AtSkipped(s, m)' \subseteq AtSkipped(s, m)
        /\ AtSkipped(s, m) \subseteq AtSkipped(s, m)'
    BY <1>2, <1>7 DEF AtSkipped
  <2>2. /\ AtPending(s, m)' = AtPending(s, m) /\ AtNotifier(s, m)' = AtNotifier(s, m)
        /\ AtFlushed(s, m)' = AtFlushed(s, m) /\ AtQueued(s, m)' = AtQueued(s, m)
        /\ AtWorker(s, m)' = AtWorker(s, m) /\ AtDropped(s, m)' = AtDropped(s, m)
        /\ AtFired(s, m)' = AtFired(s, m)
    BY <1>1, <1>3, <1>9, KindsKept DEF HandlersInv
  <2>3. Unseen(s1, m1)
    BY <1>6, <1>7 DEF Unseen
  <2>4. s \in Subs /\ m \in Msgs => Follows(s, m)
    BY <1>1, <1>8, <2>1, <2>2, <2>3, SeenStays DEF UnseenShrinks, Follows, Waits
  <2> QED
    BY <2>1, <2>2, <2>4, PlacesByKind
<1>11. AllFollow
  BY <1>10 DEF AllFollow
<1> QED
  BY <1>1, <1>5, <1>6, <1>7, <1>8, <1>10, <1>11, AddsPlaceInv

(* A match that goes to a window is appended to it. *)
LEMMA WindowPlaces ==
    ASSUME Inv, Inv', HandlersInv, PlaceInv, NEW n \in Notifiers, NEW o \in Objs,
           MatchJoinsWindow(n, o) \/ MatchOpensWindow(n, o)
    PROVE  HandlersInv' /\ PlaceInv' /\ AllFollow
<1> DEFINE q == <<"pending", <<o, Len(pending[o]) + 1>>>>
<1>1. /\ Visiting(n, o) /\ notifier[n].pc = "loop"
      /\ notifier' = [notifier EXCEPT ![n] = DoneWith(n, o)]
      /\ pending' = [pending EXCEPT ![o] = Append(pending[o], notifier[n].msg)]
      /\ UNCHANGED <<conf, cached, nextMsg, worker, flushed, tasks, dropped, fires, skips>>
  BY DEF MatchJoinsWindow, MatchOpensWindow, Accepts, Visiting, Accumulated, poolVars
<1>2. PICK s1, m1 : s1 = conf[o].sub /\ m1 = notifier[n].msg
  OBVIOUS
<1>3. SameConf /\ RecordsValid'
  BY <1>1, SameConfHolds DEF HandlersInv, RecordsValid, Allocated
<1>4. /\ \A j \in Notifiers \ {n} : notifier'[j] = notifier[j]
      /\ Onward(n)
      /\ notifier'[n].pc # "enqueue"
      /\ OthersAhead(n, o)
  BY <1>1, DoneOnward
<1>5. HandlersInv'
  BY <1>1, <1>3, <1>4, OneHandler
<1>6. s1 \in Subs /\ m1 \in Msgs /\ Ahead(n, s1)
  BY <1>1, <1>2, VisitTypes
<1>7. ~Ahead(n, s1)' /\ AheadShrinks
  BY <1>1, <1>2, <1>4, NotAheadAnyMore, OneAhead
<1>8. NotifierTasksKept /\ WorkerTasksKept
  BY <1>1, <1>4, TasksKept DEF NotifierTasksKept
<1>9. /\ \A p \in Objs \ {o} : pending'[p] = pending[p]
      /\ DOMAIN pending'[o] = 1..(Len(pending[o]) + 1) /\ DOMAIN pending[o] = 1..Len(pending[o])
      /\ Len(pending[o]) \in Nat
      /\ \A i \in 1..Len(pending[o]) : pending'[o][i] = pending[o][i]
      /\ pending'[o][Len(pending[o]) + 1] = m1
  <2>1. pending \in [Objs -> Seq(Msgs)] /\ pending[o] \in Seq(Msgs)
    BY DEF Inv, Shape, TypeOK
  <2>2. pending'[o] = Append(pending[o], m1) /\ \A p \in Objs \ {o} : pending'[p] = pending[p]
    BY <1>1, <1>2, <2>1
  <2> QED
    BY <1>6, <2>1, <2>2
<1>10. ASSUME NEW s, NEW m
       PROVE  /\ Places(s, m)' \subseteq Places(s, m) \cup {q}
              /\ s # s1 \/ m # m1 => Places(s, m)' \subseteq Places(s, m)
              /\ s \in Subs /\ m \in Msgs => Follows(s, m)
  <2>1. ASSUME NEW a \in AtPending(s, m)'
        PROVE  a \in AtPending(s, m) \/ (a = q /\ s = s1 /\ m = m1)
    <3>1. PICK p \in Objs : conf[p] # None /\ conf[p].sub = s /\ a \in PlacesInWindow(p, m)'
      BY <1>1, <2>1 DEF AtPending
    <3>2. PICK i \in DOMAIN pending'[p] : pending'[p][i] = m /\ a = <<"pending", <<p, i>>>>
      BY <3>1 DEF PlacesInWindow
    <3>3. CASE p # o \/ i \in 1..Len(pending[o])
      <4>1. i \in DOMAIN pending[p] /\ pending[p][i] = m
        BY <1>9, <3>2, <3>3
      <4> QED
        BY <3>1, <3>2, <4>1 DEF AtPending, PlacesInWindow
    <3>4. CASE p = o /\ i = Len(pending[o]) + 1
      BY <1>2, <1>9, <3>1, <3>2, <3>4
    <3> QED
      BY <1>9, <3>3, <3>4
  <2> HIDE DEF q
  <2>2. /\ AtPending(s, m)' \subseteq AtPending(s, m) \cup {q}
        /\ s # s1 \/ m # m1 => AtPending(s, m)' \subseteq AtPending(s, m)
    BY <2>1
  <2>3. /\ AtNotifier(s, m)' = AtNotifier(s, m) /\ AtFlushed(s, m)' = AtFlushed(s, m)
        /\ AtQueued(s, m)' = AtQueued(s, m) /\ AtWorker(s, m)' = AtWorker(s, m)
        /\ AtDropped(s, m)' = AtDropped(s, m) /\ AtFired(s, m)' = AtFired(s, m)
        /\ AtSkipped(s, m)' = AtSkipped(s, m)
    BY <1>1, <1>3, <1>8, KindsKept DEF HandlersInv
  <2>4. AtPending(s, m) \subseteq AtPending(s, m)'
    <3>1. \A p \in Objs : \A i \in DOMAIN pending[p] : i \in DOMAIN pending'[p] /\ pending'[p][i] = pending[p][i]
      BY <1>9
    <3> QED
      BY <1>1, <3>1 DEF AtPending, PlacesInWindow
  <2>5. Unseen(s1, m1)
    BY <1>2, <1>6 DEF Unseen
  <2>6. s \in Subs /\ m \in Msgs => Follows(s, m)
    BY <1>1, <1>7, <2>2, <2>3, <2>4, <2>5, SeenStays DEF UnseenShrinks, Follows, Waits
  <2> QED
    BY <2>2, <2>3, <2>6, PlacesByKind
<1>11. AllFollow
  BY <1>10 DEF AllFollow
<1> HIDE DEF q
<1> QED
  BY <1>1, <1>2, <1>5, <1>6, <1>7, <1>10, <1>11, AddsPlaceInv

(* Without debounce the handler takes the match in hand. *)
LEMMA FiresPlaces ==
    ASSUME Inv, Inv', HandlersInv, PlaceInv, NEW n \in Notifiers, NEW o \in Objs, MatchFires(n, o)
    PROVE  HandlersInv' /\ PlaceInv' /\ AllFollow
<1> DEFINE q == <<"notifier", n>>
<1>1. /\ Visiting(n, o) /\ notifier[n].pc = "loop" /\ o \in notifier[n].todo /\ timer[o] = "nil"
      /\ UNCHANGED <<conf, cached, nextMsg, worker, flushed, tasks, dropped, fires, skips>>
  BY DEF MatchFires, Accepts, Visiting, poolVars
<1>2. PICK s1, m1 : s1 = conf[o].sub /\ m1 = notifier[n].msg
  OBVIOUS
<1>3. SameConf /\ RecordsValid'
  BY <1>1, SameConfHolds DEF HandlersInv, RecordsValid, Allocated
<1>4. s1 \in Subs /\ m1 \in Msgs /\ Ahead(n, s1) /\ notifier \in [Notifiers -> NotifierStates]
      /\ notifier[n] \in NotifierStates
  BY <1>1, <1>2, VisitTypes
<1>5. pending[o] = <<>> /\ pending' = pending
  BY <1>1 DEF Inv, WindowHasTimer, Shape, TypeOK, MatchFires, DrainPending
<1>6. /\ \A k \in Notifiers \ {n} : notifier'[k] = notifier[k]
      /\ notifier'[n].pc = "enqueue" /\ notifier'[n].msg = m1
      /\ notifier'[n].todo = notifier[n].todo
      /\ notifier'[n].task = [obj |-> o, matches |-> <<m1>>, ctx |-> CapturedContext(n, o)]
  <2>1. Accumulated(n, o) = <<m1>>
    BY <1>2, <1>4, <1>5 DEF Accumulated
  <2> QED
    BY <1>2, <1>4, <2>1 DEF MatchFires, NotifierStates
<1>7. notifier'[n].task.obj = o /\ \A m : Carries(notifier'[n].task, m) <=> m = m1
  BY <1>6 DEF Carries
<1>8. \A x, y \in notifier[n].todo : conf[x].sub = conf[y].sub => x = y
  BY <1>1 DEF HandlersInv, Handler
<1>9. HandlersInv'
  <2>1. Onward(n)
    BY <1>1, <1>2, <1>6, <1>7, <1>8 DEF Onward
  <2> QED
    BY <1>1, <1>3, <1>6, <2>1, OneHandler
<1>10. ~Ahead(n, s1)' /\ AheadShrinks
  <2>1. ~Ahead(n, s1)'
    BY <1>1, <1>2, <1>6, <1>7, <1>8 DEF Ahead
  <2>2. \A s \in Subs : Ahead(n, s)' => Ahead(n, s) /\ notifier'[n].msg = notifier[n].msg
    BY <1>1, <1>2, <1>6 DEF Ahead
  <2> QED
    BY <1>1, <1>6, <2>1, <2>2, OneAhead
<1>11. ASSUME NEW s, NEW m
       PROVE  /\ Places(s, m)' \subseteq Places(s, m) \cup {q}
              /\ s # s1 \/ m # m1 => Places(s, m)' \subseteq Places(s, m)
              /\ s \in Subs /\ m \in Msgs => Follows(s, m)
  <2>1. /\ AtNotifier(s, m)' \subseteq AtNotifier(s, m) \cup {q}
        /\ s # s1 \/ m # m1 => AtNotifier(s, m)' \subseteq AtNotifier(s, m)
        /\ AtNotifier(s, m) \subseteq AtNotifier(s, m)'
    BY <1>1, <1>2, <1>6, <1>7 DEF AtNotifier, SubOf, Carries
  <2> HIDE DEF q
  <2>2. /\ AtPending(s, m)' = AtPending(s, m) /\ AtFlushed(s, m)' = AtFlushed(s, m)
        /\ AtQueued(s, m)' = AtQueued(s, m) /\ AtWorker(s, m)' = AtWorker(s, m)
        /\ AtDropped(s, m)' = AtDropped(s, m) /\ AtFired(s, m)' = AtFired(s, m)
        /\ AtSkipped(s, m)' = AtSkipped(s, m)
    BY <1>1, <1>3, <1>5, KindsKept, TasksKept DEF HandlersInv
  <2>3. Unseen(s1, m1)
    BY <1>2, <1>4 DEF Unseen
  <2>4. s \in Subs /\ m \in Msgs => Follows(s, m)
    BY <1>1, <1>10, <2>1, <2>2, <2>3, SeenStays DEF UnseenShrinks, Follows, Waits
  <2> QED
    BY <2>1, <2>2, <2>4, PlacesByKind
<1>12. AllFollow
  BY <1>11 DEF AllFollow
<1> HIDE DEF q
<1> QED
  BY <1>1, <1>2, <1>4, <1>9, <1>10, <1>11, <1>12, AddsPlaceInv

(* enqueue gives the task a place, in the queue or among the dropped, and  *)
(* none when the pool has stopped; it moves nothing else.                  *)
Lands(t, s, m, to) ==
    /\ to[1] \in {"queued", "dropped"}
    /\ AtQueued(s, m)' \subseteq AtQueued(s, m) \cup {to}
    /\ AtDropped(s, m)' \subseteq AtDropped(s, m) \cup {to}
    /\ ~For(t, s, m) => /\ AtQueued(s, m)' \subseteq AtQueued(s, m)
                        /\ AtDropped(s, m)' \subseteq AtDropped(s, m)
    /\ AtQueued(s, m) \subseteq AtQueued(s, m)' /\ AtDropped(s, m) \subseteq AtDropped(s, m)'
    /\ For(t, s, m) => to \in AtQueued(s, m)' \cup AtDropped(s, m)' \/ stopped
LEMMA EnqueuePlaces ==
    ASSUME Inv, UNCHANGED conf, NEW t \in FireTask, Enqueue(t), NEW s, NEW m
    PROVE  \E to : Lands(t, s, m, to)
<1>0. tasks \in Seq(FireTask)
  BY DEF Inv, Shape, TypeOK
<1>1. CASE stopped /\ UNCHANGED poolVars
  <2>1. AtQueued(s, m)' = AtQueued(s, m) /\ AtDropped(s, m)' = AtDropped(s, m)
    BY <1>1 DEF poolVars, AtQueued, AtDropped, SubOf, Carries
  <2> DEFINE to == <<"queued", 0>>
  <2>2. to[1] = "queued"
    OBVIOUS
  <2> HIDE DEF to
  <2>3. Lands(t, s, m, to)
    BY <1>1, <2>1, <2>2 DEF Lands
  <2> QED
    BY <2>3
<1>2. CASE tasks' = Append(tasks, t) /\ UNCHANGED dropped
  <2> DEFINE to == <<"queued", Len(tasks) + 1>>
  <2>1. AtDropped(s, m)' = AtDropped(s, m)
    BY <1>2 DEF AtDropped, SubOf, Carries
  <2>2. /\ DOMAIN tasks' = 1..(Len(tasks) + 1) /\ DOMAIN tasks = 1..Len(tasks) /\ Len(tasks) \in Nat
        /\ \A i \in 1..Len(tasks) : tasks'[i] = tasks[i]
        /\ tasks'[Len(tasks) + 1] = t
    BY <1>0, <1>2
  <2>3. ASSUME NEW a \in AtQueued(s, m)'
        PROVE  a \in AtQueued(s, m) \/ (a = to /\ For(t, s, m))
    <3>1. PICK i \in DOMAIN tasks' : For(tasks'[i], s, m) /\ a = <<"queued", i>>
      BY <2>3 DEF AtQueued, For, SubOf, Carries
    <3>2. CASE i \in 1..Len(tasks)
      BY <2>2, <3>1, <3>2 DEF AtQueued, For
    <3>3. CASE i = Len(tasks) + 1
      BY <2>2, <3>1, <3>3
    <3> QED
      BY <2>2, <3>2, <3>3
  <2>4. to[1] = "queued"
    OBVIOUS
  <2>5. AtQueued(s, m) \subseteq AtQueued(s, m)' /\ (For(t, s, m) => to \in AtQueued(s, m)')
    BY <2>2 DEF AtQueued, For, SubOf, Carries
  <2> HIDE DEF to
  <2> QED
    BY <2>1, <2>3, <2>4, <2>5 DEF Lands
<1>3. CASE dropped' = dropped \cup {t} /\ UNCHANGED tasks
  <2> DEFINE to == <<"dropped", t>>
  <2>1. AtQueued(s, m)' = AtQueued(s, m)
    BY <1>3 DEF AtQueued, SubOf, Carries
  <2>2. ASSUME NEW a \in AtDropped(s, m)'
        PROVE  a \in AtDropped(s, m) \/ (a = to /\ For(t, s, m))
    BY <1>3, <2>2 DEF AtDropped, For, SubOf, Carries
  <2>3. to[1] = "dropped"
    OBVIOUS
  <2>4. AtDropped(s, m) \subseteq AtDropped(s, m)' /\ (For(t, s, m) => to \in AtDropped(s, m)')
    BY <1>3 DEF AtDropped, For, SubOf, Carries
  <2> HIDE DEF to
  <2> QED
    BY <2>1, <2>2, <2>3, <2>4 DEF Lands
<1> QED
  BY <1>1, <1>2, <1>3 DEF Enqueue

(* The records point at compiled objects after a task of one is enqueued. *)
LEMMA EnqueueRecords ==
    ASSUME HandlersInv, UNCHANGED <<conf, fires>>, NEW t, Allocated(t.obj), Enqueue(t)
    PROVE  RecordsValid'
BY DEF HandlersInv, RecordsValid, Allocated, Enqueue, poolVars

(* The handler's task leaves it for the queue, or is dropped. *)
LEMMA EnqueueInlinePlaces ==
    ASSUME Inv, Inv', HandlersInv, PlaceInv, NEW n \in Notifiers, EnqueueInline(n)
    PROVE  HandlersInv' /\ PlaceInv' /\ AllFollow
<1>0. PICK t, o : t = notifier[n].task /\ o = t.obj
  OBVIOUS
<1>1. /\ notifier[n].pc = "enqueue" /\ Enqueue(t)
      /\ notifier' = [notifier EXCEPT ![n] = DoneWith(n, o)]
      /\ UNCHANGED <<conf, cached, nextMsg, pending, worker, flushed, fires, skips>>
  BY <1>0 DEF EnqueueInline, objVars
<1>2. t \in FireTask /\ Allocated(o) /\ o \in Objs /\ o \in notifier[n].todo
  BY <1>0, <1>1 DEF Inv, Shape, GoroutinesValid, Allocated, HandlersInv, Handler
<1>3. SameConf /\ RecordsValid'
  BY <1>0, <1>1, <1>2, SameConfHolds, EnqueueRecords
<1>4. /\ \A k \in Notifiers \ {n} : notifier'[k] = notifier[k]
      /\ Onward(n)
      /\ notifier'[n].pc # "enqueue"
      /\ OthersAhead(n, o)
  BY <1>1, <1>2, DoneOnward
<1>5. HandlersInv'
  BY <1>1, <1>3, <1>4, OneHandler
<1>6. AheadShrinks
  <2>1. \A s \in Subs : Ahead(n, s)' => Ahead(n, s) /\ notifier'[n].msg = notifier[n].msg
    BY <1>0, <1>1, <1>4 DEF OthersAhead, Ahead
  <2> QED
    BY <1>1, <1>4, <2>1, OneAhead
<1>7. ASSUME NEW s \in Subs, NEW m \in Msgs PROVE Kept(s, m) /\ Follows(s, m)
  <2> DEFINE from == <<"notifier", n>>
  <2>1. PICK to : Lands(t, s, m, to)
    BY <1>1, <1>2, EnqueuePlaces
  <2>2. /\ AtNotifier(s, m)' \subseteq AtNotifier(s, m)
        /\ from \notin AtNotifier(s, m)'
        /\ For(t, s, m) => from \in AtNotifier(s, m)
        /\ AtNotifier(s, m) \subseteq AtNotifier(s, m)' \cup {from}
        /\ from \in AtNotifier(s, m) => For(t, s, m)
    <3>1. \A k \in Notifiers : notifier'[k].pc = "enqueue" => k # n /\ notifier'[k] = notifier[k]
      BY <1>4
    <3>2. AtNotifier(s, m)' \subseteq AtNotifier(s, m)
      BY <1>1, <3>1 DEF AtNotifier, SubOf, Carries
    <3>3. from \notin AtNotifier(s, m)'
      BY <3>1 DEF AtNotifier
    <3>4. For(t, s, m) => from \in AtNotifier(s, m)
      BY <1>0, <1>1 DEF AtNotifier, For
    <3>5. AtNotifier(s, m) \subseteq AtNotifier(s, m)' \cup {from}
      <4>1. \A k \in Notifiers \ {n} : notifier'[k] = notifier[k]
        BY <1>4
      <4> QED
        BY <1>1, <4>1 DEF AtNotifier, SubOf, Carries
    <3>6. from \in AtNotifier(s, m) => For(t, s, m)
      BY <1>0 DEF AtNotifier, For
    <3> QED
      BY <3>2, <3>3, <3>4, <3>5, <3>6
  <2>3. /\ AtPending(s, m)' = AtPending(s, m) /\ AtFlushed(s, m)' = AtFlushed(s, m)
        /\ AtWorker(s, m)' = AtWorker(s, m) /\ AtFired(s, m)' = AtFired(s, m)
        /\ AtSkipped(s, m)' = AtSkipped(s, m)
    BY <1>1, <1>3, KindsKept, TasksKept DEF HandlersInv
  <2>4. /\ Places(s, m)' \subseteq Places(s, m) \cup {to}
        /\ ~For(t, s, m) => Places(s, m)' \subseteq Places(s, m)
        /\ For(t, s, m) => from \in Places(s, m)
    BY <2>1, <2>2, <2>3, PlacesByKind DEF Lands
  <2>5. from \notin Places(s, m)'
    <3>1. from[1] = "notifier"
      OBVIOUS
    <3> HIDE DEF from
    <3> QED
      BY <2>1, <2>2, <2>3, <3>1, KindsApart, PlacesByKind DEF Lands
  <2> HIDE DEF from
  <2>6. Unseen(s, m)' => Unseen(s, m)
    BY <1>1, <1>6, SeenStays DEF UnseenShrinks
  <2>7. Follows(s, m)
    BY <2>1, <2>2, <2>3, <2>6 DEF Lands, Follows, Waits
  <2> QED
    BY <2>4, <2>5, <2>7, FewerKept, MovedKept
<1>8. nextMsg' >= nextMsg
  BY <1>1, ConstantsAssumption DEF Inv, Shape, TypeOK
<1>9. AllFollow
  BY <1>7 DEF AllFollow
<1> QED
  BY <1>5, <1>6, <1>7, <1>8, <1>9, KeptPlaceInv

(* A timer's goroutine passes its task on in the same way. *)
LEMMA EnqueueFlushedPlaces ==
    ASSUME Inv, Inv', HandlersInv, PlaceInv, NEW t \in flushed, EnqueueFlushed(t)
    PROVE  HandlersInv' /\ PlaceInv' /\ AllFollow
<1>1. /\ Enqueue(t) /\ flushed' = flushed \ {t}
      /\ UNCHANGED <<conf, cached, notifier, nextMsg, pending, worker, fires, skips>>
  BY DEF EnqueueFlushed, objVars
<1>2. t \in FireTask /\ Allocated(t.obj)
  BY DEF Inv, Shape, TypeOK, PointersValid
<1>3. SameConf /\ RecordsValid' /\ CachedOwn'
  BY <1>1, <1>2, SameConfHolds, EnqueueRecords DEF HandlersInv, CachedOwn
<1>4. HandlersInv' /\ AheadShrinks
  BY <1>1, <1>3, OutsideHandlers
<1>5. ASSUME NEW s \in Subs, NEW m \in Msgs PROVE Kept(s, m) /\ Follows(s, m)
  <2> DEFINE from == <<"flushed", t>>
  <2>1. PICK to : Lands(t, s, m, to)
    BY <1>1, <1>2, EnqueuePlaces
  <2>2. /\ AtFlushed(s, m)' \subseteq AtFlushed(s, m)
        /\ from \notin AtFlushed(s, m)'
        /\ For(t, s, m) => from \in AtFlushed(s, m)
        /\ AtFlushed(s, m) \subseteq AtFlushed(s, m)' \cup {from}
        /\ from \in AtFlushed(s, m) => For(t, s, m)
    BY <1>1 DEF AtFlushed, For, SubOf, Carries
  <2>3. /\ AtPending(s, m)' = AtPending(s, m) /\ AtNotifier(s, m)' = AtNotifier(s, m)
        /\ AtWorker(s, m)' = AtWorker(s, m) /\ AtFired(s, m)' = AtFired(s, m)
        /\ AtSkipped(s, m)' = AtSkipped(s, m)
    BY <1>1, <1>3, KindsKept, TasksKept DEF HandlersInv
  <2>4. /\ Places(s, m)' \subseteq Places(s, m) \cup {to}
        /\ ~For(t, s, m) => Places(s, m)' \subseteq Places(s, m)
        /\ For(t, s, m) => from \in Places(s, m)
    BY <2>1, <2>2, <2>3, PlacesByKind DEF Lands
  <2>5. from \notin Places(s, m)'
    <3>1. from[1] = "flushed"
      OBVIOUS
    <3> HIDE DEF from
    <3> QED
      BY <2>1, <2>2, <2>3, <3>1, KindsApart, PlacesByKind DEF Lands
  <2> HIDE DEF from
  <2>6. Unseen(s, m)' => Unseen(s, m)
    BY <1>1, <1>4, SeenStays DEF UnseenShrinks
  <2>7. Follows(s, m)
    BY <2>1, <2>2, <2>3, <2>6 DEF Lands, Follows, Waits
  <2> QED
    BY <2>4, <2>5, <2>7, FewerKept, MovedKept
<1>6. nextMsg' >= nextMsg
  BY <1>1, ConstantsAssumption DEF Inv, Shape, TypeOK
<1>7. AllFollow
  BY <1>5 DEF AllFollow
<1> QED
  BY <1>4, <1>5, <1>6, <1>7, KeptPlaceInv

(* flushDebounced takes a window's matches, all of them, to one task. *)
LEMMA FlushPlaces ==
    ASSUME Inv, Inv', HandlersInv, PlaceInv, NEW o \in Objs, FlushDebounced(o)
    PROVE  HandlersInv' /\ PlaceInv' /\ AllFollow
<1>0. PICK t : t = [obj |-> o, matches |-> pending[o], ctx |-> pctx[o]]
  OBVIOUS
<1>1. /\ pending[o] # <<>> /\ pending' = [pending EXCEPT ![o] = <<>>]
      /\ flushed' = flushed \cup {t}
      /\ UNCHANGED <<conf, cached, notifier, nextMsg, worker, tasks, dropped, fires, skips>>
  BY <1>0 DEF FlushDebounced, DrainPending, Inv, WindowHasTimer, poolVars
<1>2. Allocated(o) /\ pending \in [Objs -> Seq(Msgs)]
  BY <1>1 DEF Inv, WindowHasTimer, Dated, Shape, TypeOK
<1>3. SameConf /\ RecordsValid' /\ CachedOwn'
  BY <1>1, SameConfHolds DEF HandlersInv, CachedOwn, RecordsValid, Allocated
<1>4. HandlersInv' /\ AheadShrinks
  BY <1>1, <1>3, OutsideHandlers
<1>5. ASSUME NEW s \in Subs, NEW m \in Msgs PROVE Kept(s, m) /\ Follows(s, m)
  <2> DEFINE to == <<"flushed", t>>
  <2>1. /\ AtFlushed(s, m)' \subseteq AtFlushed(s, m) \cup {to}
        /\ ~For(t, s, m) => AtFlushed(s, m)' \subseteq AtFlushed(s, m)
        /\ AtFlushed(s, m) \subseteq AtFlushed(s, m)'
        /\ For(t, s, m) => to \in AtFlushed(s, m)'
    BY <1>1 DEF AtFlushed, For, SubOf, Carries
  <2>2. /\ AtPending(s, m)' \subseteq AtPending(s, m)
        /\ \A i : <<"pending", <<o, i>>>> \notin AtPending(s, m)'
    <3>1. \A p \in Objs : pending'[p] = IF p = o THEN <<>> ELSE pending[p]
      BY <1>1, <1>2
    <3>2. DOMAIN <<>> = {}
      OBVIOUS
    <3> QED
      BY <1>1, <3>1, <3>2 DEF AtPending, PlacesInWindow
  <2>3. /\ AtNotifier(s, m)' = AtNotifier(s, m) /\ AtQueued(s, m)' = AtQueued(s, m)
        /\ AtWorker(s, m)' = AtWorker(s, m) /\ AtDropped(s, m)' = AtDropped(s, m)
        /\ AtFired(s, m)' = AtFired(s, m) /\ AtSkipped(s, m)' = AtSkipped(s, m)
    BY <1>1, <1>3, KindsKept, TasksKept DEF HandlersInv
  <2>4. /\ Places(s, m)' \subseteq Places(s, m) \cup {to}
        /\ ~For(t, s, m) => Places(s, m)' \subseteq Places(s, m)
    BY <2>1, <2>2, <2>3, PlacesByKind
  <2>5. ASSUME For(t, s, m)
        PROVE  /\ \E from \in Places(s, m) : from \notin Places(s, m)'
               /\ AtPending(s, m) # {}
    <3>1. PICK i \in DOMAIN pending[o] : pending[o][i] = m /\ conf[o].sub = s
      BY <1>0, <2>5 DEF For, SubOf, Carries
    <3> DEFINE from == <<"pending", <<o, i>>>>
    <3>2. from \in AtPending(s, m)
      BY <1>2, <3>1 DEF AtPending, PlacesInWindow, Allocated
    <3>3. from \notin AtPending(s, m)' /\ from[1] = "pending" /\ to[1] = "flushed"
      BY <2>2
    <3> HIDE DEF from, to
    <3>4. from \notin Places(s, m)'
      BY <2>1, <2>3, <3>3, KindsApart, PlacesByKind
    <3> QED
      BY <3>2, <3>4, PlacesByKind
  <2>6. ASSUME NEW a \in AtPending(s, m) PROVE a \in AtPending(s, m)' \/ For(t, s, m)
    <3>1. PICK p \in Objs : conf[p] # None /\ conf[p].sub = s /\ a \in PlacesInWindow(p, m)
      BY <2>6 DEF AtPending
    <3>2. CASE p = o
      BY <1>0, <3>1, <3>2 DEF PlacesInWindow, For, SubOf, Carries
    <3>3. CASE p # o
      <4>1. pending'[p] = pending[p]
        BY <1>1, <1>2, <3>3
      <4> QED
        BY <1>1, <3>1, <4>1 DEF AtPending, PlacesInWindow
    <3> QED
      BY <3>2, <3>3
  <2>7. Unseen(s, m)' => Unseen(s, m)
    BY <1>1, <1>4, SeenStays DEF UnseenShrinks
  <2> HIDE DEF to
  <2>8. Follows(s, m)
    BY <2>1, <2>2, <2>3, <2>5, <2>6, <2>7 DEF Follows, Waits
  <2> QED
    BY <2>4, <2>5, <2>8, FewerKept, MovedKept
<1>6. nextMsg' >= nextMsg
  BY <1>1, ConstantsAssumption DEF Inv, Shape, TypeOK
<1>7. AllFollow
  BY <1>5 DEF AllFollow
<1> QED
  BY <1>4, <1>5, <1>6, <1>7, KeptPlaceInv

(* recordFire: the worker's task leaves it for its outcome. *)
LEMMA RecordPlaces ==
    ASSUME Inv, Inv', HandlersInv, PlaceInv, NEW w \in Workers, RecordFire(w)
    PROVE  HandlersInv' /\ PlaceInv' /\ AllFollow
<1>1. /\ worker[w].pc = "record"
      /\ worker' = [worker EXCEPT ![w] = AfterRecord(worker[w])]
      /\ UNCHANGED <<conf, cached, notifier, nextMsg, pending, flushed, tasks, dropped, skips>>
  BY DEF RecordFire, objVars, poolVars
<1>2. PICK r : r.task = worker[w].task /\ fires' = fires \cup {r}
  <2>1. PICK ok : fires' = fires \cup {[task |-> worker[w].task, status |-> worker[w].status,
                         attempts |-> worker[w].attempt, day |-> Today, stored |-> ok]}
    BY DEF RecordFire
  <2> QED
    BY <2>1
<1>3. PICK t : t = worker[w].task
  OBVIOUS
<1>4. Allocated(t.obj)
  BY <1>1, <1>3 DEF Inv, Shape, GoroutinesValid
<1>5. SameConf /\ RecordsValid' /\ CachedOwn'
  BY <1>1, <1>2, <1>3, <1>4, SameConfHolds DEF HandlersInv, CachedOwn, RecordsValid, Allocated
<1>6. HandlersInv' /\ AheadShrinks
  BY <1>1, <1>5, OutsideHandlers
<1>7. Delivering(w) /\ ~Delivering(w)' /\ \A v \in Workers \ {w} : worker'[v] = worker[v]
  <2>1. worker \in [Workers -> WorkerStates] /\ worker[w] \in WorkerStates
    BY DEF Inv, Shape, TypeOK
  <2>2. worker'[w] = AfterRecord(worker[w]) /\ \A v \in Workers \ {w} : worker'[v] = worker[v]
    BY <1>1, <2>1
  <2>3. worker'[w].pc \in {"disable", "idle"}
    BY <2>1, <2>2 DEF AfterRecord, IdleWorker, WorkerStates
  <2> QED
    BY <1>1, <2>2, <2>3 DEF Delivering
<1>8. ASSUME NEW s \in Subs, NEW m \in Msgs PROVE Kept(s, m) /\ Follows(s, m)
  <2> DEFINE from == <<"worker", w>>
             to == <<"fired", r>>
  <2>1. /\ AtFired(s, m)' \subseteq AtFired(s, m) \cup {to}
        /\ ~For(t, s, m) => AtFired(s, m)' \subseteq AtFired(s, m)
        /\ AtFired(s, m) \subseteq AtFired(s, m)'
        /\ For(t, s, m) => to \in AtFired(s, m)'
    BY <1>1, <1>2, <1>3 DEF AtFired, For, SubOf, Carries
  <2>2. /\ AtWorker(s, m)' \subseteq AtWorker(s, m)
        /\ from \notin AtWorker(s, m)'
        /\ For(t, s, m) => from \in AtWorker(s, m)
        /\ AtWorker(s, m) \subseteq AtWorker(s, m)' \cup {from}
        /\ from \in AtWorker(s, m) => For(t, s, m)
    BY <1>1, <1>3, <1>7 DEF AtWorker, For, SubOf, Carries, Delivering
  <2>3. /\ AtPending(s, m)' = AtPending(s, m) /\ AtNotifier(s, m)' = AtNotifier(s, m)
        /\ AtFlushed(s, m)' = AtFlushed(s, m) /\ AtQueued(s, m)' = AtQueued(s, m)
        /\ AtDropped(s, m)' = AtDropped(s, m) /\ AtSkipped(s, m)' = AtSkipped(s, m)
    BY <1>1, <1>5, KindsKept, TasksKept DEF HandlersInv
  <2>4. /\ Places(s, m)' \subseteq Places(s, m) \cup {to}
        /\ ~For(t, s, m) => Places(s, m)' \subseteq Places(s, m)
        /\ For(t, s, m) => from \in Places(s, m)
    BY <2>1, <2>2, <2>3, PlacesByKind
  <2>5. from \notin Places(s, m)'
    <3>1. from[1] = "worker" /\ to[1] = "fired"
      OBVIOUS
    <3> HIDE DEF from, to
    <3> QED
      BY <2>1, <2>2, <2>3, <3>1, KindsApart, PlacesByKind
  <2>6. Unseen(s, m)' => Unseen(s, m)
    BY <1>1, <1>6, SeenStays DEF UnseenShrinks
  <2> HIDE DEF from, to
  <2>7. Follows(s, m)
    BY <2>1, <2>2, <2>3, <2>6 DEF Follows, Waits
  <2> QED
    BY <2>4, <2>5, <2>7, FewerKept, MovedKept
<1>9. nextMsg' >= nextMsg
  BY <1>1, ConstantsAssumption DEF Inv, Shape, TypeOK
<1>10. AllFollow
  BY <1>8 DEF AllFollow
<1> QED
  BY <1>6, <1>8, <1>9, <1>10, KeptPlaceInv

(* A worker takes the head of the queue: every other task moves up by one, *)
(* so places move, but no two of them to the same one.                     *)
LEMMA TakePlaces ==
    ASSUME Inv, Inv', HandlersInv, PlaceInv, NEW w \in Workers, WorkerTake(w)
    PROVE  HandlersInv' /\ PlaceInv' /\ AllFollow
<1>1. /\ worker[w].pc = "idle" /\ tasks # <<>> /\ tasks' = Tail(tasks)
      /\ UNCHANGED <<conf, cached, notifier, nextMsg, pending, flushed, dropped, fires, skips>>
  BY DEF WorkerTake, objVars
<1>2. SameConf /\ RecordsValid' /\ CachedOwn'
  BY <1>1, SameConfHolds DEF HandlersInv, CachedOwn, RecordsValid, Allocated
<1>3. HandlersInv' /\ AheadShrinks
  BY <1>1, <1>2, OutsideHandlers
<1>4. /\ Len(tasks) \in Nat /\ Len(tasks) >= 1 /\ DOMAIN tasks = 1..Len(tasks)
      /\ DOMAIN tasks' = 1..(Len(tasks) - 1)
      /\ \A i \in 1..(Len(tasks) - 1) : tasks'[i] = tasks[i + 1]
  <2>1. tasks \in Seq(FireTask)
    BY DEF Inv, Shape, TypeOK
  <2> QED
    BY <1>1, <2>1
<1>5. /\ ~Delivering(w) /\ Delivering(w)' /\ worker'[w].task = tasks[1]
      /\ \A v \in Workers \ {w} : worker'[v] = worker[v]
  <2>1. worker \in [Workers -> WorkerStates] /\ Head(tasks) = tasks[1]
    BY <1>1 DEF Inv, Shape, TypeOK
  <2> QED
    BY <1>1, <2>1 DEF WorkerTake, IdleWorker, Delivering
<1>6. ASSUME NEW s \in Subs, NEW m \in Msgs PROVE Kept(s, m) /\ Follows(s, m)
  <2> DEFINE Origin(p) == IF p[1] = "queued" THEN <<"queued", p[2] + 1>>
                          ELSE IF p = <<"worker", w>> THEN <<"queued", 1>> ELSE p
  <2>1. /\ AtPending(s, m)' = AtPending(s, m) /\ AtNotifier(s, m)' = AtNotifier(s, m)
        /\ AtFlushed(s, m)' = AtFlushed(s, m) /\ AtDropped(s, m)' = AtDropped(s, m)
        /\ AtFired(s, m)' = AtFired(s, m) /\ AtSkipped(s, m)' = AtSkipped(s, m)
    BY <1>1, <1>2, KindsKept, TasksKept DEF HandlersInv
  <2>2. ASSUME NEW p \in AtQueued(s, m)'
        PROVE  /\ p[1] = "queued" /\ p[2] \in 1..(Len(tasks) - 1) /\ p = <<"queued", p[2]>>
               /\ <<"queued", p[2] + 1>> \in AtQueued(s, m)
    <3>1. PICK i \in DOMAIN tasks' : For(tasks'[i], s, m) /\ p = <<"queued", i>>
      BY <1>1, <2>2 DEF AtQueued, For, SubOf, Carries
    <3>2. p[1] = "queued" /\ p[2] = i /\ i + 1 \in DOMAIN tasks /\ For(tasks[i + 1], s, m)
      BY <1>4, <3>1
    <3> QED
      BY <1>4, <3>1, <3>2 DEF AtQueued, For
  <2>3. ASSUME NEW p \in AtWorker(s, m)'
        PROVE  /\ p[1] = "worker"
               /\ IF p = <<"worker", w>> THEN <<"queued", 1>> \in AtQueued(s, m)
                                         ELSE p \in AtWorker(s, m)
    <3>1. PICK v \in Workers : Delivering(v)' /\ For(worker'[v].task, s, m) /\ p = <<"worker", v>>
      BY <1>1, <2>3 DEF AtWorker, For, SubOf, Carries
    <3>2. CASE v = w
      BY <1>4, <1>5, <3>1, <3>2 DEF AtQueued, For
    <3>3. CASE v # w
      BY <1>5, <3>1, <3>3 DEF AtWorker, For, Delivering
    <3> QED
      BY <3>1, <3>2, <3>3
  <2>4. ASSUME NEW p \in Places(s, m)'
        PROVE  \/ p \in AtQueued(s, m)'
               \/ p \in AtWorker(s, m)'
               \/ p \in Places(s, m) /\ p[1] # "queued" /\ p[1] # "worker"
    <3>1. p \in AtQueued(s, m)' \/ p \in AtWorker(s, m)'
          \/ p \in AtPending(s, m) \cup AtNotifier(s, m) \cup AtFlushed(s, m)
                 \cup AtDropped(s, m) \cup AtFired(s, m) \cup AtSkipped(s, m)
      BY <2>1, PlacesByKind
    <3> QED
      BY <3>1, KindsApart, PlacesByKind
  <2>5. ASSUME NEW p \in Places(s, m)'
        PROVE  /\ p[1] = "queued" => p \in AtQueued(s, m)'
               /\ p[1] = "worker" => p \in AtWorker(s, m)'
               /\ p[1] # "queued" /\ p[1] # "worker" => p \in Places(s, m)
    BY <2>2, <2>3, <2>4
  <2>6. ASSUME NEW p \in Places(s, m)' PROVE Origin(p) \in Places(s, m)
    <3>1. CASE p[1] = "queued"
      BY <2>2, <2>5, <3>1, PlacesByKind
    <3>2. CASE p[1] = "worker"
      BY <2>3, <2>5, <3>2, PlacesByKind
    <3>3. CASE p[1] # "queued" /\ p[1] # "worker"
      BY <2>5, <3>3
    <3> QED
      BY <3>1, <3>2, <3>3
  <2>7. ASSUME NEW a \in Places(s, m)', NEW b \in Places(s, m)', Origin(a) = Origin(b)
        PROVE  a = b
    <3>1. CASE a[1] = "queued" /\ b[1] = "queued"
      <4>1. /\ a[2] \in 1..(Len(tasks) - 1) /\ a = <<"queued", a[2]>>
            /\ b[2] \in 1..(Len(tasks) - 1) /\ b = <<"queued", b[2]>>
        BY <2>2, <2>5, <3>1
      <4>2. a[2] + 1 = b[2] + 1
        BY <2>7, <3>1
      <4>3. a[2] = b[2]
        BY <1>4, <4>1, <4>2
      <4> QED
        BY <4>1, <4>3
    <3>2. CASE a[1] = "queued" /\ b[1] # "queued"
      BY <1>4, <2>2, <2>5, <2>7, <3>2
    <3>3. CASE a[1] # "queued" /\ b[1] = "queued"
      BY <1>4, <2>2, <2>5, <2>7, <3>3
    <3>4. CASE a[1] # "queued" /\ b[1] # "queued"
      BY <2>7, <3>4
    <3> QED
      BY <3>1, <3>2, <3>3, <3>4
  <2> HIDE DEF Origin
  <2>8. ASSUME NEW p \in AtQueued(s, m) PROVE AtQueued(s, m)' # {} \/ AtWorker(s, m)' # {}
    <3>1. PICK i \in DOMAIN tasks : For(tasks[i], s, m)
      BY <2>8 DEF AtQueued, For
    <3>2. CASE i = 1
      <4>1. <<"worker", w>> \in AtWorker(s, m)'
        BY <1>1, <1>5, <3>1, <3>2 DEF AtWorker, For, SubOf, Carries
      <4> QED
        BY <4>1
    <3>3. CASE i # 1
      <4>1. i - 1 \in DOMAIN tasks' /\ tasks'[i - 1] = tasks[i]
        BY <1>4, <3>3
      <4>2. <<"queued", i - 1>> \in AtQueued(s, m)'
        BY <1>1, <3>1, <4>1 DEF AtQueued, For, SubOf, Carries
      <4> QED
        BY <4>2
    <3> QED
      BY <3>2, <3>3
  <2>9. AtWorker(s, m) \subseteq AtWorker(s, m)'
    BY <1>1, <1>5 DEF AtWorker, Delivering, SubOf, Carries
  <2>10. Unseen(s, m)' => Unseen(s, m)
    BY <1>1, <1>3, SeenStays DEF UnseenShrinks
  <2>11. Follows(s, m)
    BY <2>1, <2>2, <2>3, <2>8, <2>9, <2>10 DEF Follows, Waits
  <2> QED
    BY <2>6, <2>7, <2>11 DEF Kept, Alone
<1>7. nextMsg' >= nextMsg
  BY <1>1, ConstantsAssumption DEF Inv, Shape, TypeOK
<1>8. AllFollow
  BY <1>6 DEF AllFollow
<1> QED
  BY <1>3, <1>6, <1>7, <1>8, KeptPlaceInv

(* The two invariants are inductive, and every step does to a message what *)
(* it may.                                                                 *)
LEMMA NextPlaces ==
    Inv /\ HandlersInv /\ PlaceInv /\ [Next]_vars => HandlersInv' /\ PlaceInv' /\ AllFollow
<1> SUFFICES ASSUME Inv, HandlersInv, PlaceInv, [Next]_vars PROVE HandlersInv' /\ PlaceInv' /\ AllFollow
  OBVIOUS
<1>1. Inv'
  BY NextInv
<1>2. CASE Control \/ Tick \/ UNCHANGED vars
  BY <1>1, <1>2, ControlPlaces
<1>3. CASE TimerStep
  BY <1>1, <1>3, ControlPlaces, FlushPlaces, EnqueueFlushedPlaces DEF TimerStep
<1>4. ASSUME NEW n \in Notifiers, NotifierStep(n) PROVE HandlersInv' /\ PlaceInv' /\ AllFollow
  <2>1. CASE SnapshotHistory(n) \/ AppendHistory(n) \/ NotifySnapshot(n) \/ EnqueueInline(n)
    BY <1>1, <2>1, PublishPlaces, SnapshotPlaces, EnqueueInlinePlaces
  <2>2. ASSUME NEW o \in Objs,
               \/ NoMatch(n, o) \/ MatchPaused(n, o) \/ MatchInCooldown(n, o)
               \/ MatchOverBudget(n, o) \/ MatchJoinsWindow(n, o) \/ MatchOpensWindow(n, o)
               \/ MatchFires(n, o)
        PROVE  HandlersInv' /\ PlaceInv' /\ AllFollow
    BY <1>1, <2>2, PassedOverPlaces, SuppressedPlaces, WindowPlaces, FiresPlaces
  <2> QED
    BY <1>4, <2>1, <2>2 DEF NotifierStep, NotifierProgress
<1>5. ASSUME NEW w \in Workers, WorkerStep(w) PROVE HandlersInv' /\ PlaceInv' /\ AllFollow
  BY <1>1, <1>5, TakePlaces, RecordPlaces, WorkerQuietPlaces DEF WorkerStep
<1> QED
  BY <1>2, <1>3, <1>4, <1>5 DEF Next

(* A message has at most one fate for a subscription, for any number of    *)
(* subscriptions, publishers, workers and updates of the subscription      *)
(* under a running Notify.                                                 *)
THEOREM OneFate == Spec => []OneFatePerMatch
<1>1. PlaceInv => OneFatePerMatch
  <2> SUFFICES ASSUME PlaceInv, NEW s \in Subs, NEW m \in Msgs PROVE Cardinality(Places(s, m)) <= 1
    BY DEF OneFatePerMatch
  <2>1. Alone(s, m)
    BY DEF PlaceInv
  <2>2. CASE Places(s, m) = {}
    BY <2>2, FS_EmptySet
  <2>3. CASE Places(s, m) # {}
    <3>1. PICK a : Places(s, m) = {a}
      BY <2>1, <2>3 DEF Alone
    <3> QED
      BY <3>1, FS_Singleton
  <2> QED
    BY <2>2, <2>3
<1> QED
  BY <1>1, InitPlaces, NextPlaces, InvHolds, PTL DEF Spec
-----------------------------------------------------------------------------
(***************************************************************************)
(* No match is lost.  The fate of a match is read off the kinds of its     *)
(* places, and what NextPlaces says of a step is what MatchFates allows.   *)
(***************************************************************************)

(* The kinds of the places there are. *)
LEMMA KindsPresent ==
    ASSUME NEW s, NEW m
    PROVE  /\ Waits(s, m) # {} <=> Travelling(s, m) \/ \E o \in Objs : Parked(o, s, m)
           /\ AtFired(s, m) # {} <=> Fired(s, m)
           /\ AtDropped(s, m) # {} <=> Dropped(s, m)
           /\ AtSkipped(s, m) # {} <=> Suppressed(s, m)
<1>0. \A o : PlacesInWindow(o, m) # {} <=> \E i \in DOMAIN pending[o] : pending[o][i] = m
  BY DEF PlacesInWindow
<1>1. AtPending(s, m) # {} <=> \E o \in Objs : Parked(o, s, m)
  BY <1>0 DEF AtPending, Parked
<1>2. (AtNotifier(s, m) # {} \/ AtFlushed(s, m) # {} \/ AtQueued(s, m) # {} \/ AtWorker(s, m) # {})
      <=> Travelling(s, m)
  BY DEF AtNotifier, AtFlushed, AtQueued, AtWorker, Travelling, For
<1>3. /\ AtFired(s, m) # {} <=> Fired(s, m)
      /\ AtDropped(s, m) # {} <=> Dropped(s, m)
      /\ AtSkipped(s, m) # {} <=> Suppressed(s, m)
  BY DEF AtFired, AtDropped, AtSkipped, Fired, Dropped, Suppressed, For
<1> QED
  BY <1>1, <1>2, <1>3 DEF Waits

(* The fate that goes with them. *)
FateCases(s, m) ==
    /\ Unseen(s, m) => FateOf(s, m) = "ahead"
    /\ ~Unseen(s, m) /\ Waits(s, m) # {} => FateOf(s, m) = "waiting"
    /\ ~Unseen(s, m) /\ Waits(s, m) = {} =>
         /\ AtFired(s, m) # {} => FateOf(s, m) = "fired"
         /\ AtFired(s, m) = {} /\ AtDropped(s, m) # {} => FateOf(s, m) = "dropped"
         /\ AtFired(s, m) = {} /\ AtDropped(s, m) = {} =>
              FateOf(s, m) = IF AtSkipped(s, m) # {} THEN "suppressed" ELSE "gone"
LEMMA FateByKind ==
    ASSUME NEW s, NEW m
    PROVE  FateCases(s, m)
BY KindsPresent DEF FateOf, FateCases

(* A message that is ahead has no place yet. *)
LEMMA UnseenNowhere ==
    ASSUME PlaceInv, NEW s \in Subs, NEW m \in Msgs, Unseen(s, m)
    PROVE  Places(s, m) = {}
BY DEF PlaceInv, Unseen

(* A step moves a match as MatchFates says. *)
LEMMA FateStep ==
    ASSUME PlaceInv, NEW s \in Subs, NEW m \in Msgs, Follows(s, m), FateCases(s, m), FateCases(s, m)',
           NEW f, f = FateOf(s, m), NEW g, g = FateOf(s, m)'
    PROVE  \/ <<f, g>> \in Promise!Moves \cup Promise!Stays
           \/ stopped /\ <<f, g>> = Promise!Vanishes
<1>0. Places(s, m) = Waits(s, m) \cup AtDropped(s, m) \cup AtFired(s, m) \cup AtSkipped(s, m)
  BY PlacesByKind DEF Waits
<1>1. CASE Unseen(s, m)
  <2>1. AtFired(s, m)' = {} /\ AtDropped(s, m)' = {} /\ f = "ahead"
    BY <1>0, <1>1, UnseenNowhere DEF Follows, FateCases
  <2>2. g \in {"ahead", "waiting", "suppressed", "gone"}
    BY <2>1 DEF FateCases
  <2> QED
    BY <2>1, <2>2 DEF Promise!Moves, Promise!Stays, Promise!Fates
<1>2. CASE ~Unseen(s, m) /\ Waits(s, m) # {}
  <2>1. AtSkipped(s, m) = {}
    <3>1. Alone(s, m)
      BY DEF PlaceInv
    <3>2. \A p \in Waits(s, m) : p[1] # "skipped"
      BY KindsApart DEF Waits
    <3> QED
      BY <1>0, <1>2, <3>1, <3>2, KindsApart DEF Alone
  <2>2. f = "waiting" /\ ~Unseen(s, m)' /\ AtSkipped(s, m)' = {}
    BY <1>2, <2>1 DEF Follows, FateCases
  <2>3. g \in {"waiting", "fired", "dropped"} \/ (stopped /\ g = "gone")
    BY <1>2, <2>2 DEF Follows, FateCases
  <2> QED
    BY <2>2, <2>3 DEF Promise!Moves, Promise!Stays, Promise!Fates, Promise!Vanishes
<1>3. CASE ~Unseen(s, m) /\ Waits(s, m) = {}
  <2>1. ~Unseen(s, m)' /\ Waits(s, m)' = {}
    BY <1>3 DEF Follows
  <2>2. /\ AtFired(s, m)' # {} <=> AtFired(s, m) # {}
        /\ AtDropped(s, m)' # {} <=> AtDropped(s, m) # {}
        /\ AtSkipped(s, m)' # {} <=> AtSkipped(s, m) # {}
    BY <1>3 DEF Follows
  <2>3. f = g /\ f \in {"fired", "dropped", "suppressed", "gone"}
    BY <1>3, <2>1, <2>2 DEF FateCases
  <2> QED
    BY <2>3 DEF Promise!Stays, Promise!Fates
<1> QED
  BY <1>1, <1>2, <1>3

(* The fates of a state, and of the next. *)
LEMMA FateMapApply ==
    ASSUME NEW s \in Subs, NEW m \in Msgs
    PROVE  FateMap[<<s, m>>] = FateOf(s, m) /\ FateMap'[<<s, m>>] = FateOf(s, m)'
BY DEF FateMap

(* The fates are read off the places in every state. *)
FatesRead == \A s \in Subs, m \in Msgs : FateCases(s, m)
LEMMA FatesReadHolds == FatesRead
BY FateByKind DEF FatesRead

(* To stop the pool is to close it. *)
LEMMA StopIsClose == StopPool => Promise!Close
<1> SUFFICES ASSUME StopPool PROVE Promise!Close
  OBVIOUS
<1>1. ~stopped /\ stopped' = TRUE
  BY DEF StopPool
<1>2. UNCHANGED FateMap
  <2>1. UNCHANGED <<nextMsg, conf, pending, notifier, flushed, worker, tasks, dropped, fires, skips>>
    BY DEF StopPool, objVars, poolVars
  <2> QED
    BY <2>1 DEF FateMap, FateOf, Unseen, Ahead, Travelling, Parked, Fired, Dropped, Suppressed, For,
                SubOf, Carries, Delivering
<1> QED
  BY <1>1, <1>2 DEF Promise!Close

(* Every other step is one that moves matches. *)
LEMMA FollowIsProgress ==
    ASSUME PlaceInv, FatesRead, FatesRead', AllFollow, UNCHANGED stopped
    PROVE  Promise!Progress
<1>1. ASSUME NEW s \in Subs, NEW m \in Msgs
      PROVE  /\ \/ <<FateMap[<<s, m>>], FateMap'[<<s, m>>]>> \in Promise!Moves \cup Promise!Stays
                \/ stopped /\ <<FateMap[<<s, m>>], FateMap'[<<s, m>>]>> = Promise!Vanishes
             /\ FateMap'[<<s, m>>] \in Promise!Fates
  <2>1. Follows(s, m) /\ FateCases(s, m) /\ FateCases(s, m)'
    BY DEF AllFollow, FatesRead
  <2>2. PICK f, g : f = FateOf(s, m) /\ g = FateOf(s, m)'
    OBVIOUS
  <2>3. \/ <<f, g>> \in Promise!Moves \cup Promise!Stays
        \/ stopped /\ <<f, g>> = Promise!Vanishes
    BY <2>1, <2>2, FateStep
  <2>4. g \in Promise!Fates
    BY <2>1, <2>2 DEF FateCases, Promise!Fates
  <2>5. FateMap[<<s, m>>] = f /\ FateMap'[<<s, m>>] = g
    BY <2>2, FateMapApply
  <2> QED
    BY <2>3, <2>4, <2>5
<1>2. \A x \in Subs \X Msgs : \E s \in Subs, m \in Msgs : x = <<s, m>>
  OBVIOUS
<1>3. FateMap' = [x \in Subs \X Msgs |-> FateMap'[x]]
  BY DEF FateMap
<1>4. FateMap' \in [Subs \X Msgs -> Promise!Fates]
  BY <1>1, <1>2, <1>3
<1> QED
  BY <1>1, <1>2, <1>4 DEF Promise!Progress, Promise!Matches

(* A step of the pipeline is a step of MatchFates. *)
LEMMA StepIsFate ==
    /\ Inv /\ HandlersInv /\ PlaceInv /\ FatesRead /\ FatesRead' /\ [Next]_vars
    => [Promise!Next]_(Promise!vars)
<1> SUFFICES ASSUME Inv, HandlersInv, PlaceInv, FatesRead, FatesRead', [Next]_vars
             PROVE  Promise!Next
  OBVIOUS
<1>1. CASE StopPool
  BY <1>1, StopIsClose DEF Promise!Next
<1>2. CASE ~StopPool
  <2>1. UNCHANGED stopped
    <3>1. CASE Control \/ Tick \/ UNCHANGED vars
      BY <1>2, <3>1 DEF Control, AddOrUpdate, Remove, SetBotPaused, CancelContext, Tick, vars
    <3>2. CASE TimerStep
      BY <3>2 DEF TimerStep, TimerExpires, FlushDebounced, EnqueueFlushed
    <3>3. ASSUME NEW n \in Notifiers, NotifierStep(n) PROVE UNCHANGED stopped
      BY <3>3 DEF NotifierStep, NotifierProgress, SnapshotHistory, AppendHistory, NotifySnapshot,
                  NoMatch, MatchPaused, MatchInCooldown, MatchOverBudget, MatchJoinsWindow,
                  MatchOpensWindow, MatchFires, EnqueueInline
    <3>4. ASSUME NEW w \in Workers, WorkerStep(w) PROVE UNCHANGED stopped
      BY <3>4 DEF WorkerStep, WorkerTake, WorkerExit, SendOK, SendPermanent, SendTransient,
                  BackoffElapsed, BackoffCancelled, RecordFire, AutoDisable
    <3> QED
      BY <3>1, <3>2, <3>3, <3>4 DEF Next
  <2>2. AllFollow
    BY NextPlaces
  <2> QED
    BY <2>1, <2>2, FollowIsProgress DEF Promise!Next
<1> QED
  BY <1>1, <1>2

(* At the start everything is ahead. *)
LEMMA InitIsFate == Init /\ Inv => Promise!Init
<1> SUFFICES ASSUME Init, Inv PROVE Promise!Init
  OBVIOUS
<1>1. ASSUME NEW s \in Subs, NEW m \in Msgs PROVE FateOf(s, m) = "ahead"
  <2>1. m >= nextMsg
    BY ConstantsAssumption DEF Init, Msgs
  <2> QED
    BY <2>1 DEF FateOf, Unseen
<1>2. FateMap = [x \in Subs \X Msgs |-> "ahead"]
  BY <1>1 DEF FateMap
<1> QED
  BY <1>2 DEF Init, Promise!Init, Promise!Matches

(* manager.go and worker.go: no match is lost or comes back, for any       *)
(* number of publishers, workers, updates, store failures and retries.     *)
(* From the gate on a match waits until it is fired or counted as dropped, *)
(* and only a stopped pool swallows it.                                    *)
THEOREM ImplementsMatchFates == Spec => IsMatchFates
<1>1. Spec => [](HandlersInv /\ PlaceInv)
  BY InitPlaces, NextPlaces, InvHolds, PTL DEF Spec
<1>2. Init => Promise!Init
  BY InitInv, InitIsFate
<1> QED
  BY <1>1, <1>2, InvHolds, FatesReadHolds, StepIsFate, PTL DEF Spec, IsMatchFates, Promise!Spec
=============================================================================
