-------------------------- MODULE WebhookDelivery --------------------------
(***************************************************************************)
(* The webhook pipeline of internal/webhook: the path of a channel message *)
(* from the sender's goroutine through Manager.Notify, the per-subscription*)
(* gate (cooldown, daily budget, debounce), the bounded task queue and the *)
(* worker pool to a row of subscription_fires.                             *)
(*                                                                         *)
(* The model is of one channel.  A Subscription object is a heap cell: an  *)
(* update installs a NEW object for the same subscription id, while timers,*)
(* queued tasks and Notify snapshots keep pointing at the old one.         *)
(*                                                                         *)
(* Atomicity: one action is one critical section of Manager.mu, of an      *)
(* object's own mutex, of the channel's history lock, or one operation on  *)
(* the task channel or on the store.                                       *)
(***************************************************************************)
EXTENDS Integers, Sequences, FiniteSets

CONSTANTS
    Subs,            \* subscription ids on the channel
    Accounts,        \* bot accounts
    Owner,           \* Owner[s]: the bot account that owns subscription s
    Configs,         \* [debounce, cooldown, cap, ctxLines] an owner may store
    Objs,            \* heap cells for Subscription objects (bounds updates)
    Notifiers,       \* goroutines that publish messages to the channel
    Workers,         \* Config.Workers
    QueueDepth,      \* Config.QueueDepth
    MaxRetries,      \* Config.MaxRetries
    AutoDisable4xx,  \* Config.AutoDisable4xx
    RingDepth,       \* depth of the channel's history ring
    DayLength,       \* clock ticks in a UTC day
    MaxMsgs,         \* bound: messages published
    MaxTime,         \* bound: clock
    StoreMayFail,    \* whether calls of the store may return an error
    None

(* compileSubscription: the runtime form of a stored subscription. *)
compileSubscription(s, c) ==
    [sub |-> s, debounce |-> c.debounce, cooldown |-> c.cooldown, cap |-> c.cap,
     ctxLines |-> c.ctxLines]

ASSUME ConstantsAssumption ==
    /\ Owner \in [Subs -> Accounts]
    /\ Configs \subseteq [debounce : Nat, cooldown : Nat, cap : Nat, ctxLines : Nat]
    /\ QueueDepth \in Nat \ {0}
    /\ MaxRetries \in Nat \ {0}
    /\ AutoDisable4xx \in Nat \ {0}
    /\ RingDepth \in Nat \ {0}
    /\ DayLength \in Nat \ {0}
    /\ MaxMsgs \in Nat
    /\ MaxTime \in Nat
    /\ StoreMayFail \in BOOLEAN
    /\ None \notin Objs
    /\ \A s \in Subs, c \in Configs : compileSubscription(s, c) # None

VARIABLES
    now,        \* the process clock
    nextMsg,    \* next message to be published
    ring,       \* the channel's history ring, oldest first
    \* Manager
    cached,     \* subs: subscription id -> object, None when not cached
    paused,     \* pauses: accounts suspended on the channel
    \* Subscription objects
    conf,       \* [sub, debounce, cooldown, cap, ctxLines], None: cell unused
    timer,      \* debounceTimer: nil, armed, fired (its goroutine is running), stopped
    due,        \* when an armed timer expires
    pending,    \* pendingMatches
    pctx,       \* pendingContext
    lastFire,   \* lastFire, Never when zero
    consec4xx,  \* consec4xx
    \* goroutines
    notifier,   \* a publishing goroutine: [pc, msg, ctx, todo, psnap, task]
    flushed,    \* tasks drained by a timer goroutine and not yet enqueued
    worker,     \* a pool worker: [pc, task, attempt, status, disable]
    \* worker pool and store
    tasks,      \* the task channel
    dropped,    \* tasks dropped because the channel was full
    stopped,    \* pool.stop is closed
    ctxDone,    \* the context given to Start is cancelled
    fires,      \* outcomes of deliveries: rows of subscription_fires, where stored
    skips       \* subscription_fires rows written by Notify

objVars == <<conf, timer, due, pending, pctx, lastFire, consec4xx>>
poolVars == <<tasks, dropped>>
vars == <<now, nextMsg, ring, cached, paused, objVars, notifier, flushed,
          worker, poolVars, stopped, ctxDone, fires, skips>>
-----------------------------------------------------------------------------
Msgs == 1..MaxMsgs
Never == -1
TimerStates == {"nil", "armed", "fired", "stopped"}

LiveConfigs == [sub : Subs, debounce : Nat, cooldown : Nat, cap : Nat, ctxLines : Nat]
FireTask == [obj : Objs, matches : Seq(Msgs), ctx : Seq(Msgs)]

NotifierStates ==
    [pc : {"idle", "append", "notify", "loop", "enqueue"}, msg : Msgs \cup {None},
     ctx : Seq(Msgs), todo : SUBSET Objs, psnap : SUBSET Accounts,
     task : FireTask \cup {None}]

WorkerStates ==
    [pc : {"idle", "send", "backoff", "record", "disable", "exited"},
     task : FireTask \cup {None}, attempt : 0..MaxRetries,
     status : {"none", "ok", "dropped_4xx", "failed"}, disable : BOOLEAN]

FireRows == [task : FireTask, status : {"ok", "dropped_4xx", "failed"},
             attempts : 1..MaxRetries, day : Int, stored : BOOLEAN]
SkipRows == [sub : Subs, msg : Msgs, status : {"paused", "budget_exhausted"}]

IdleNotifier == [pc |-> "idle", msg |-> None, ctx |-> <<>>, todo |-> {},
                 psnap |-> {}, task |-> None]
IdleWorker == [pc |-> "idle", task |-> None, attempt |-> 0, status |-> "none",
               disable |-> FALSE]

(* The last k elements of a sequence. *)
LastN(seq, k) == IF Len(seq) <= k THEN seq
                 ELSE SubSeq(seq, Len(seq) - k + 1, Len(seq))

Today == now \div DayLength

Init ==
    /\ now = 0
    /\ nextMsg = 1
    /\ ring = <<>>
    /\ cached = [s \in Subs |-> None]
    /\ paused = {}
    /\ conf = [o \in Objs |-> None]
    /\ timer = [o \in Objs |-> "nil"]
    /\ due = [o \in Objs |-> 0]
    /\ pending = [o \in Objs |-> <<>>]
    /\ pctx = [o \in Objs |-> <<>>]
    /\ lastFire = [o \in Objs |-> Never]
    /\ consec4xx = [o \in Objs |-> 0]
    /\ notifier = [n \in Notifiers |-> IdleNotifier]
    /\ flushed = {}
    /\ worker = [w \in Workers |-> IdleWorker]
    /\ tasks = <<>>
    /\ dropped = {}
    /\ stopped = FALSE
    /\ ctxDone = FALSE
    /\ fires = {}
    /\ skips = {}
-----------------------------------------------------------------------------
(***************************************************************************)
(* Manager: the cache of compiled subscriptions and the pause set.         *)
(***************************************************************************)

(* time.Timer.Stop on the object's timer, when it has one.  The pointer is *)
(* left in place, and a timer whose goroutine already runs is unaffected.  *)
StopTimer(o) ==
    timer' = [timer EXCEPT ![o] = IF @ = "armed" THEN "stopped" ELSE @]

StopTimerOf(s) ==
    IF cached[s] = None THEN UNCHANGED timer ELSE StopTimer(cached[s])

(* AddOrUpdate: compile into a fresh object, stop the timer of the version *)
(* it replaces, install the new one.  The gate's state starts empty.       *)
AddOrUpdate(s, c) ==
    /\ \E o \in Objs :
         /\ conf[o] = None
         /\ conf' = [conf EXCEPT ![o] = compileSubscription(s, c)]
         /\ cached' = [cached EXCEPT ![s] = o]
    /\ StopTimerOf(s)
    /\ UNCHANGED <<now, nextMsg, ring, paused, due, pending, pctx, lastFire, consec4xx,
                   notifier, flushed, worker, poolVars, stopped, ctxDone, fires, skips>>

(* Remove's effect on the cache. *)
RemoveFromCache(s) ==
    /\ cached' = [cached EXCEPT ![s] = None]
    /\ StopTimerOf(s)

Remove(s) ==
    /\ cached[s] # None
    /\ RemoveFromCache(s)
    /\ UNCHANGED <<now, nextMsg, ring, paused, conf, due, pending, pctx, lastFire,
                   consec4xx, notifier, flushed, worker, poolVars, stopped, ctxDone,
                   fires, skips>>

SetBotPaused(a, p) ==
    /\ paused' = IF p THEN paused \cup {a} ELSE paused \ {a}
    /\ UNCHANGED <<now, nextMsg, ring, cached, objVars, notifier, flushed, worker,
                   poolVars, stopped, ctxDone, fires, skips>>
-----------------------------------------------------------------------------
(***************************************************************************)
(* The publishing goroutine.                                               *)
(***************************************************************************)

(* RecentMessages before the broadcast: the context of this message. *)
SnapshotHistory(n) ==
    /\ notifier[n].pc = "idle"
    /\ nextMsg <= MaxMsgs
    /\ nextMsg' = nextMsg + 1
    /\ notifier' = [notifier EXCEPT ![n] =
                       [IdleNotifier EXCEPT !.pc = "append", !.msg = nextMsg, !.ctx = ring]]
    /\ UNCHANGED <<now, ring, cached, paused, objVars, flushed, worker, poolVars,
                   stopped, ctxDone, fires, skips>>

(* AppendHistory after the broadcast. *)
AppendHistory(n) ==
    /\ notifier[n].pc = "append"
    /\ ring' = LastN(Append(ring, notifier[n].msg), RingDepth)
    /\ notifier' = [notifier EXCEPT ![n].pc = "notify"]
    /\ UNCHANGED <<now, nextMsg, cached, paused, objVars, flushed, worker, poolVars,
                   stopped, ctxDone, fires, skips>>

CachedObjs == {cached[s] : s \in Subs} \ {None}

(* Notify under the read lock: the objects and the paused accounts. *)
NotifySnapshot(n) ==
    /\ notifier[n].pc = "notify"
    /\ notifier' = [notifier EXCEPT ![n] =
                       IF CachedObjs = {} THEN IdleNotifier
                       ELSE [@ EXCEPT !.pc = "loop", !.todo = CachedObjs, !.psnap = paused]]
    /\ UNCHANGED <<now, nextMsg, ring, cached, paused, objVars, flushed, worker,
                   poolVars, stopped, ctxDone, fires, skips>>

(* The notifier that is done with object o. *)
DoneWith(n, o) ==
    IF notifier[n].todo = {o} THEN IdleNotifier
    ELSE [notifier[n] EXCEPT !.pc = "loop", !.todo = @ \ {o}, !.task = None]

Visiting(n, o) ==
    /\ notifier[n].pc = "loop"
    /\ o \in notifier[n].todo

(* The matcher rejects the message. *)
NoMatch(n, o) ==
    /\ Visiting(n, o)
    /\ notifier' = [notifier EXCEPT ![n] = DoneWith(n, o)]
    /\ UNCHANGED <<now, nextMsg, ring, cached, paused, objVars, flushed, worker,
                   poolVars, stopped, ctxDone, fires, skips>>

PausedAtSnapshot(n, o) == Owner[conf[o].sub] \in notifier[n].psnap

(* A row of Notify is written, or the store fails and it is only logged. *)
RecordSkip(o, m, status) ==
    \/ skips' = skips \cup {[sub |-> conf[o].sub, msg |-> m, status |-> status]}
    \/ StoreMayFail /\ UNCHANGED skips

MatchPaused(n, o) ==
    /\ Visiting(n, o)
    /\ PausedAtSnapshot(n, o)
    /\ RecordSkip(o, notifier[n].msg, "paused")
    /\ notifier' = [notifier EXCEPT ![n] = DoneWith(n, o)]
    /\ UNCHANGED <<now, nextMsg, ring, cached, paused, objVars, flushed, worker,
                   poolVars, stopped, ctxDone, fires>>
-----------------------------------------------------------------------------
(***************************************************************************)
(* handleMatch: the gate of one object, under the object's mutex.          *)
(***************************************************************************)
CoolingDownNever(o) == FALSE
CoolingDown(o) ==
    /\ conf[o].cooldown > 0
    /\ lastFire[o] # Never
    /\ now - lastFire[o] < conf[o].cooldown

(* CountSubscriptionFiresSince(start of the day) counts the "ok" rows. *)
FiresToday(s) ==
    Cardinality({r \in fires : /\ r.stored /\ r.status = "ok" /\ r.day = Today
                               /\ conf[r.task.obj].sub = s})

OverBudget(o) ==
    /\ conf[o].cap > 0
    /\ FiresToday(conf[o].sub) >= conf[o].cap

MatchInCooldown(n, o) ==
    /\ Visiting(n, o)
    /\ ~PausedAtSnapshot(n, o)
    /\ CoolingDown(o)
    /\ notifier' = [notifier EXCEPT ![n] = DoneWith(n, o)]
    /\ UNCHANGED <<now, nextMsg, ring, cached, paused, objVars, flushed, worker,
                   poolVars, stopped, ctxDone, fires, skips>>

MatchOverBudget(n, o) ==
    /\ Visiting(n, o)
    /\ ~PausedAtSnapshot(n, o)
    /\ ~CoolingDown(o)
    /\ OverBudget(o)
    /\ RecordSkip(o, notifier[n].msg, "budget_exhausted")
    /\ notifier' = [notifier EXCEPT ![n] = DoneWith(n, o)]
    /\ UNCHANGED <<now, nextMsg, ring, cached, paused, objVars, flushed, worker,
                   poolVars, stopped, ctxDone, fires>>

(* The gate lets the match through.  A count that fails is ignored. *)
Accepts(n, o) ==
    /\ Visiting(n, o)
    /\ ~PausedAtSnapshot(n, o)
    /\ ~CoolingDown(o)
    /\ OverBudget(o) => StoreMayFail

Accumulated(n, o) == Append(pending[o], notifier[n].msg)

(* The context kept for the window: captured once, and only from a         *)
(* non-empty snapshot.                                                     *)
CapturedContext(n, o) ==
    IF pctx[o] = <<>> /\ conf[o].ctxLines > 0
    THEN LastN(notifier[n].ctx, conf[o].ctxLines)
    ELSE pctx[o]

(* A debounce window is open: its timer will take the match along. *)
MatchJoinsWindow(n, o) ==
    /\ Accepts(n, o)
    /\ timer[o] # "nil"
    /\ pending' = [pending EXCEPT ![o] = Accumulated(n, o)]
    /\ pctx' = [pctx EXCEPT ![o] = CapturedContext(n, o)]
    /\ notifier' = [notifier EXCEPT ![n] = DoneWith(n, o)]
    /\ UNCHANGED <<now, nextMsg, ring, cached, paused, conf, timer, due, lastFire,
                   consec4xx, flushed, worker, poolVars, stopped, ctxDone, fires, skips>>

(* The first match of a window arms the timer. *)
MatchOpensWindow(n, o) ==
    /\ Accepts(n, o)
    /\ timer[o] = "nil"
    /\ conf[o].debounce > 0
    /\ pending' = [pending EXCEPT ![o] = Accumulated(n, o)]
    /\ pctx' = [pctx EXCEPT ![o] = CapturedContext(n, o)]
    /\ timer' = [timer EXCEPT ![o] = "armed"]
    /\ due' = [due EXCEPT ![o] = now + conf[o].debounce]
    /\ notifier' = [notifier EXCEPT ![n] = DoneWith(n, o)]
    /\ UNCHANGED <<now, nextMsg, ring, cached, paused, conf, lastFire, consec4xx,
                   flushed, worker, poolVars, stopped, ctxDone, fires, skips>>

(* drainPendingLocked: the window's state is reset and the fire is dated. *)
DrainKeepingMatches(o) ==
    /\ UNCHANGED pending
    /\ pctx' = [pctx EXCEPT ![o] = <<>>]
    /\ lastFire' = [lastFire EXCEPT ![o] = now]
DrainPending(o) ==
    /\ pending' = [pending EXCEPT ![o] = <<>>]
    /\ pctx' = [pctx EXCEPT ![o] = <<>>]
    /\ lastFire' = [lastFire EXCEPT ![o] = now]

(* Without debounce the batch of one leaves at once, in the notifier. *)
MatchFires(n, o) ==
    /\ Accepts(n, o)
    /\ timer[o] = "nil"
    /\ conf[o].debounce = 0
    /\ DrainPending(o)
    /\ notifier' = [notifier EXCEPT
                       ![n].pc = "enqueue",
                       ![n].task = [obj |-> o, matches |-> Accumulated(n, o),
                                    ctx |-> CapturedContext(n, o)]]
    /\ UNCHANGED <<now, nextMsg, ring, cached, paused, conf, timer, due, consec4xx,
                   flushed, worker, poolVars, stopped, ctxDone, fires, skips>>

(* pool.enqueue never blocks: a closed pool swallows the task, a full      *)
(* queue drops it.  A stop that lands between the two selects of enqueue   *)
(* leaves the task in a queue nobody reads: here, enqueued then stopped.   *)
EnqueueUncounted(t) ==
    IF stopped \/ Len(tasks) >= QueueDepth THEN UNCHANGED poolVars
    ELSE tasks' = Append(tasks, t) /\ UNCHANGED dropped
Enqueue(t) ==
    \/ /\ stopped
       /\ UNCHANGED poolVars
    \/ /\ ~stopped
       /\ Len(tasks) < QueueDepth
       /\ tasks' = Append(tasks, t)
       /\ UNCHANGED dropped
    \/ /\ ~stopped
       /\ Len(tasks) >= QueueDepth
       /\ dropped' = dropped \cup {t}
       /\ UNCHANGED tasks

EnqueueInline(n) ==
    /\ notifier[n].pc = "enqueue"
    /\ Enqueue(notifier[n].task)
    /\ notifier' = [notifier EXCEPT ![n] = DoneWith(n, notifier[n].task.obj)]
    /\ UNCHANGED <<now, nextMsg, ring, cached, paused, objVars, flushed, worker,
                   stopped, ctxDone, fires, skips>>
-----------------------------------------------------------------------------
(***************************************************************************)
(* The debounce timer.                                                     *)
(***************************************************************************)

(* The runtime starts the timer's goroutine; Stop comes too late now. *)
TimerExpires(o) ==
    /\ timer[o] = "armed"
    /\ now >= due[o]
    /\ timer' = [timer EXCEPT ![o] = "fired"]
    /\ UNCHANGED <<now, nextMsg, ring, cached, paused, conf, due, pending, pctx,
                   lastFire, consec4xx, notifier, flushed, worker, poolVars, stopped,
                   ctxDone, fires, skips>>

(* flushDebounced under the object's mutex. *)
ClearTimerForgotten(o) == UNCHANGED timer
ClearTimer(o) == timer' = [timer EXCEPT ![o] = "nil"]
FlushDebounced(o) ==
    /\ timer[o] = "fired"
    /\ ClearTimer(o)
    /\ IF pending[o] = <<>>
       THEN UNCHANGED <<pending, pctx, lastFire, flushed>>
       ELSE /\ DrainPending(o)
            /\ flushed' = flushed \cup
                  {[obj |-> o, matches |-> pending[o], ctx |-> pctx[o]]}
    /\ UNCHANGED <<now, nextMsg, ring, cached, paused, conf, due, consec4xx, notifier,
                   worker, poolVars, stopped, ctxDone, fires, skips>>

EnqueueFlushed(t) ==
    /\ t \in flushed
    /\ flushed' = flushed \ {t}
    /\ Enqueue(t)
    /\ UNCHANGED <<now, nextMsg, ring, cached, paused, objVars, notifier, worker,
                   stopped, ctxDone, fires, skips>>
-----------------------------------------------------------------------------
(***************************************************************************)
(* The worker pool.                                                        *)
(***************************************************************************)

(* run's select may take a task even when stop is closed as well. *)
WorkerTake(w) ==
    /\ worker[w].pc = "idle"
    /\ tasks # <<>>
    /\ tasks' = Tail(tasks)
    /\ worker' = [worker EXCEPT ![w] =
                     [IdleWorker EXCEPT !.pc = "send", !.task = Head(tasks), !.attempt = 1]]
    /\ UNCHANGED <<now, nextMsg, ring, cached, paused, objVars, notifier, flushed,
                   dropped, stopped, ctxDone, fires, skips>>

WorkerExit(w) ==
    /\ worker[w].pc = "idle"
    /\ stopped \/ ctxDone
    /\ worker' = [worker EXCEPT ![w].pc = "exited"]
    /\ UNCHANGED <<now, nextMsg, ring, cached, paused, objVars, notifier, flushed,
                   poolVars, stopped, ctxDone, fires, skips>>

(* Transport.Send returns DeliveryOK. *)
SendOK(w) ==
    /\ worker[w].pc = "send"
    /\ consec4xx' = [consec4xx EXCEPT ![worker[w].task.obj] = 0]
    /\ worker' = [worker EXCEPT ![w].pc = "record", ![w].status = "ok"]
    /\ UNCHANGED <<now, nextMsg, ring, cached, paused, conf, timer, due, pending, pctx,
                   lastFire, notifier, flushed, poolVars, stopped, ctxDone, fires, skips>>

(* DeliveryPermanent: counted on the object, never retried. *)
SendPermanent(w) ==
    LET o == worker[w].task.obj IN
    /\ worker[w].pc = "send"
    /\ consec4xx' = [consec4xx EXCEPT ![o] = @ + 1]
    /\ worker' = [worker EXCEPT ![w].pc = "record", ![w].status = "dropped_4xx",
                                ![w].disable = (consec4xx[o] + 1 >= AutoDisable4xx)]
    /\ UNCHANGED <<now, nextMsg, ring, cached, paused, conf, timer, due, pending, pctx,
                   lastFire, notifier, flushed, poolVars, stopped, ctxDone, fires, skips>>

(* DeliveryTransient: back off and retry, or give up after MaxRetries. *)
AfterTransient(wk) ==
    IF wk.attempt < MaxRetries
    THEN [wk EXCEPT !.pc = "backoff"]
    ELSE [wk EXCEPT !.pc = "record", !.status = "failed"]

SendTransient(w) ==
    /\ worker[w].pc = "send"
    /\ worker' = [worker EXCEPT ![w] = AfterTransient(worker[w])]
    /\ UNCHANGED <<now, nextMsg, ring, cached, paused, objVars, notifier, flushed,
                   poolVars, stopped, ctxDone, fires, skips>>

BackoffElapsedUncounted(w) ==
    /\ worker[w].pc = "backoff"
    /\ worker' = [worker EXCEPT ![w].pc = "send"]
    /\ UNCHANGED <<now, nextMsg, ring, cached, paused, objVars, notifier, flushed,
                   poolVars, stopped, ctxDone, fires, skips>>
BackoffElapsed(w) ==
    /\ worker[w].pc = "backoff"
    /\ worker' = [worker EXCEPT ![w].pc = "send", ![w].attempt = @ + 1]
    /\ UNCHANGED <<now, nextMsg, ring, cached, paused, objVars, notifier, flushed,
                   poolVars, stopped, ctxDone, fires, skips>>

BackoffCancelled(w) ==
    /\ worker[w].pc = "backoff"
    /\ ctxDone
    /\ worker' = [worker EXCEPT ![w].pc = "record", ![w].status = "failed"]
    /\ UNCHANGED <<now, nextMsg, ring, cached, paused, objVars, notifier, flushed,
                   poolVars, stopped, ctxDone, fires, skips>>

AfterRecord(wk) ==
    IF wk.disable THEN [wk EXCEPT !.pc = "disable"] ELSE IdleWorker

(* recordFire, on a context of its own: also after a shutdown.  When the   *)
(* store fails the outcome is only logged.                                 *)
RecordFire(w) ==
    LET wk == worker[w] IN
    /\ wk.pc = "record"
    /\ \E ok \in {TRUE, ~StoreMayFail} :
          fires' = fires \cup {[task |-> wk.task, status |-> wk.status,
                               attempts |-> wk.attempt, day |-> Today, stored |-> ok]}
    /\ worker' = [worker EXCEPT ![w] = AfterRecord(wk)]
    /\ UNCHANGED <<now, nextMsg, ring, cached, paused, objVars, notifier, flushed,
                   poolVars, stopped, ctxDone, skips>>

(* autoDisable ends in Manager.Remove of the subscription's ID, whichever  *)
(* object is cached by then.  The stored row's read-modify-write is        *)
(* modelled step by step in SubscriptionLifecycle.                         *)
AutoDisable(w) ==
    /\ worker[w].pc = "disable"
    /\ RemoveFromCache(conf[worker[w].task.obj].sub)
    /\ worker' = [worker EXCEPT ![w] = IdleWorker]
    /\ UNCHANGED <<now, nextMsg, ring, paused, conf, due, pending, pctx, lastFire,
                   consec4xx, notifier, flushed, poolVars, stopped, ctxDone, fires, skips>>

(* Shutdown: the serve context is cancelled, later the pool is stopped. *)
CancelContext ==
    /\ ~ctxDone
    /\ ctxDone' = TRUE
    /\ UNCHANGED <<now, nextMsg, ring, cached, paused, objVars, notifier, flushed,
                   worker, poolVars, stopped, fires, skips>>

StopPool ==
    /\ ~stopped
    /\ stopped' = TRUE
    /\ UNCHANGED <<now, nextMsg, ring, cached, paused, objVars, notifier, flushed,
                   worker, poolVars, ctxDone, fires, skips>>

Tick ==
    /\ now < MaxTime
    /\ now' = now + 1
    /\ UNCHANGED <<nextMsg, ring, cached, paused, objVars, notifier, flushed, worker,
                   poolVars, stopped, ctxDone, fires, skips>>
-----------------------------------------------------------------------------
Control ==
    \/ \E s \in Subs, c \in Configs : AddOrUpdate(s, c)
    \/ \E s \in Subs : Remove(s)
    \/ \E a \in Accounts, p \in BOOLEAN : SetBotPaused(a, p)
    \/ CancelContext
    \/ StopPool

NotifierProgress(n) ==
    \/ AppendHistory(n)
    \/ NotifySnapshot(n)
    \/ \E o \in Objs :
         \/ NoMatch(n, o)
         \/ MatchPaused(n, o)
         \/ MatchInCooldown(n, o)
         \/ MatchOverBudget(n, o)
         \/ MatchJoinsWindow(n, o)
         \/ MatchOpensWindow(n, o)
         \/ MatchFires(n, o)
    \/ EnqueueInline(n)

NotifierStep(n) == SnapshotHistory(n) \/ NotifierProgress(n)

TimerStep ==
    \/ \E o \in Objs : TimerExpires(o) \/ FlushDebounced(o)
    \/ \E t \in flushed : EnqueueFlushed(t)

WorkerStep(w) ==
    \/ WorkerTake(w)
    \/ WorkerExit(w)
    \/ SendOK(w)
    \/ SendPermanent(w)
    \/ SendTransient(w)
    \/ BackoffElapsed(w)
    \/ BackoffCancelled(w)
    \/ RecordFire(w)
    \/ AutoDisable(w)

Next ==
    \/ Control
    \/ \E n \in Notifiers : NotifierStep(n)
    \/ TimerStep
    \/ \E w \in Workers : WorkerStep(w)
    \/ Tick

Spec == Init /\ [][Next]_vars

(* Fairness: goroutines that can run do run (Go's scheduler), the clock    *)
(* advances, and every Send returns: SendReturns of BrokerPool, which over *)
(* AMQP rests on brokers that answer.  Nobody is obliged to publish, to    *)
(* reconfigure or to shut down.                                            *)
Fairness ==
    /\ WF_vars(Tick)
    /\ \A o \in Objs : WF_vars(TimerExpires(o) \/ FlushDebounced(o))
    /\ WF_vars(\E t \in flushed : EnqueueFlushed(t))
    /\ \A n \in Notifiers : WF_vars(NotifierProgress(n))
    /\ \A w \in Workers : WF_vars(WorkerStep(w))

FairSpec == Spec /\ Fairness
-----------------------------------------------------------------------------
(***************************************************************************)
(* Properties.                                                             *)
(***************************************************************************)

(* Every variable has its type. *)
TypeOK ==
    /\ now \in Nat
    /\ nextMsg \in 1..(MaxMsgs + 1)
    /\ ring \in Seq(Msgs)
    /\ cached \in [Subs -> Objs \cup {None}]
    /\ paused \subseteq Accounts
    /\ conf \in [Objs -> LiveConfigs \cup {None}]
    /\ timer \in [Objs -> TimerStates]
    /\ due \in [Objs -> Nat]
    /\ pending \in [Objs -> Seq(Msgs)]
    /\ pctx \in [Objs -> Seq(Msgs)]
    /\ lastFire \in [Objs -> Nat \cup {Never}]
    /\ consec4xx \in [Objs -> Nat]
    /\ notifier \in [Notifiers -> NotifierStates]
    /\ flushed \subseteq FireTask
    /\ worker \in [Workers -> WorkerStates]
    /\ tasks \in Seq(FireTask)
    /\ dropped \subseteq FireTask
    /\ stopped \in BOOLEAN
    /\ ctxDone \in BOOLEAN
    /\ fires \subseteq FireRows
    /\ skips \subseteq SkipRows

(* manager.go, handleMatch and flushDebounced: a match is never parked     *)
(* without a timer that stands for its window, and a timer never stands    *)
(* for an empty window, whatever notifiers, timer goroutines and updates   *)
(* of the subscription interleave.  A timer that an update stopped counts: *)
(* matches that join a replaced object's window wait in vain.              *)
WindowHasTimer == \A o \in Objs : pending[o] # <<>> <=> timer[o] # "nil"

(* manager.go, handleMatch and drainPendingLocked: two fires of one object *)
(* are at least cooldown + debounce apart, although the cooldown is tested *)
(* when a match arrives and the fire is dated when the window is flushed.  *)
FiresOfObjectSpaced ==
    [][\A o \in Objs : (lastFire'[o] # lastFire[o] /\ lastFire[o] # Never) =>
          lastFire'[o] - lastFire[o] >= conf[o].cooldown + conf[o].debounce]_vars

(* Where message m is for subscription s: parked, travelling, or recorded. *)
SubOf(t) == conf[t.obj].sub
Carries(t, m) == \E i \in DOMAIN t.matches : t.matches[i] = m
Delivering(w) == worker[w].pc \in {"send", "backoff", "record"}
PlacesInWindow(o, m) ==
    {<<"pending", <<o, i>>>> : i \in {i \in DOMAIN pending[o] : pending[o][i] = m}}
Places(s, m) ==
    (UNION {PlacesInWindow(o, m) : o \in {o \in Objs : conf[o] # None /\ conf[o].sub = s}})
    \cup {<<"notifier", n>> : n \in {n \in Notifiers :
            /\ notifier[n].pc = "enqueue"
            /\ SubOf(notifier[n].task) = s /\ Carries(notifier[n].task, m)}}
    \cup {<<"flushed", t>> : t \in {t \in flushed : SubOf(t) = s /\ Carries(t, m)}}
    \cup {<<"queued", i>> : i \in {i \in DOMAIN tasks :
            SubOf(tasks[i]) = s /\ Carries(tasks[i], m)}}
    \cup {<<"worker", w>> : w \in {w \in Workers :
            /\ Delivering(w)
            /\ SubOf(worker[w].task) = s /\ Carries(worker[w].task, m)}}
    \cup {<<"dropped", t>> : t \in {t \in dropped : SubOf(t) = s /\ Carries(t, m)}}
    \cup {<<"fired", r>> : r \in {r \in fires : SubOf(r.task) = s /\ Carries(r.task, m)}}
    \cup {<<"skipped", k>> : k \in {k \in skips : k.sub = s /\ k.msg = m}}

(* manager.go and worker.go: a message has at most one fate for a          *)
(* subscription.  It is never in two batches, never both suppressed and    *)
(* delivered, and never has two rows of subscription_fires, even when the  *)
(* subscription is updated under a running Notify.                         *)
OneFatePerMatch == \A s \in Subs, m \in Msgs : Cardinality(Places(s, m)) <= 1

(* The same, kind by kind: in a window, on its way, and with its records. *)
For(t, s, m) == SubOf(t) = s /\ Carries(t, m)
Parked(o, s, m) ==
    /\ conf[o] # None /\ conf[o].sub = s
    /\ \E i \in DOMAIN pending[o] : pending[o][i] = m
Travelling(s, m) ==
    \/ \E n \in Notifiers : notifier[n].pc = "enqueue" /\ For(notifier[n].task, s, m)
    \/ \E t \in flushed : For(t, s, m)
    \/ \E i \in DOMAIN tasks : For(tasks[i], s, m)
    \/ \E w \in Workers : Delivering(w) /\ For(worker[w].task, s, m)
Fired(s, m) == \E r \in fires : For(r.task, s, m)
Dropped(s, m) == \E t \in dropped : For(t, s, m)
Suppressed(s, m) == \E k \in skips : k.sub = s /\ k.msg = m

(* worker.go, deliver: what the pool has room for is delivered or recorded *)
(* as failed.  An accepted match ends in an outcome or in the drop counter,*)
(* unless its window was cancelled by an update or the pool shut down.     *)
InPipeline(s, m) ==
    \/ \E o \in Objs : Parked(o, s, m) /\ due[o] <= MaxTime
    \/ Travelling(s, m)
Settled(s, m) ==
    \/ Fired(s, m) \/ Dropped(s, m)
    \/ \E o \in Objs : Parked(o, s, m) /\ timer[o] = "stopped"
    \/ stopped
    \/ ctxDone
EveryMatchSettles == \A s \in Subs, m \in Msgs : InPipeline(s, m) ~> Settled(s, m)

(* The subscriptions a handler has still to bring its message to: all of   *)
(* them before the snapshot of Notify, then those of the objects it has    *)
(* still to visit.                                                         *)
Ahead(n, s) ==
    \/ notifier[n].pc \in {"append", "notify"}
    \/ /\ notifier[n].pc \in {"loop", "enqueue"}
       /\ \E o \in notifier[n].todo :
             /\ conf[o].sub = s
             /\ notifier[n].pc = "enqueue" => o # notifier[n].task.obj
Unseen(s, m) == m >= nextMsg \/ \E n \in Notifiers : Ahead(n, s) /\ notifier[n].msg = m

(* manager.go and worker.go: no match is lost on the way.  From the moment *)
(* handleMatch has accepted it, a match waits somewhere until it has an    *)
(* outcome or is counted as dropped, and only a stopped pool swallows one; *)
(* what was passed over, suppressed, fired or dropped is so for good.      *)
FateOf(s, m) ==
    IF Unseen(s, m) THEN "ahead"
    ELSE IF Travelling(s, m) \/ \E o \in Objs : Parked(o, s, m) THEN "waiting"
    ELSE IF Fired(s, m) THEN "fired"
    ELSE IF Dropped(s, m) THEN "dropped"
    ELSE IF Suppressed(s, m) THEN "suppressed"
    ELSE "gone"
FateMap == [x \in Subs \X Msgs |-> FateOf(x[1], x[2])]
Promise == INSTANCE MatchFates WITH fate <- FateMap, closed <- stopped
IsMatchFates == Promise!Spec
=============================================================================
