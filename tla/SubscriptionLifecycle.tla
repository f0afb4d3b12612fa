----------------------- MODULE SubscriptionLifecycle -----------------------
(***************************************************************************)
(* The life of one subscription: its row in the subscriptions table, its   *)
(* entry in the webhook manager's cache, and everybody who changes both.   *)
(* Owners call Create, Update and Delete of internal/subops from REST and  *)
(* from realtime connections at the same time; workers auto-disable the    *)
(* subscription after repeated permanent failures; the process crashes and *)
(* restarts with Manager.Reload.                                           *)
(*                                                                         *)
(* Nothing spans the store and the cache: every store call and every call  *)
(* of the manager is an action of its own.                                 *)
(***************************************************************************)
EXTENDS Integers, FiniteSets

CONSTANTS
    Callers,       \* goroutines serving requests about the subscription
    Owners,        \* the callers authenticated as the owning bot account
    Workers,       \* delivery workers
    URLs,          \* target URLs
    MaxPatches,    \* bound: Update calls
    MaxCrashes,    \* bound: crashes of the process
    StoreMayFail,  \* whether a call of the store may return an error
    None

ASSUME LifecycleAssumption ==
    /\ Owners \subseteq Callers
    /\ MaxPatches \in Nat
    /\ MaxCrashes \in Nat
    /\ StoreMayFail \in BOOLEAN
    /\ None \notin URLs

(* What an owner may store.  The budget is kept as raw JSON; compileSub-   *)
(* scription fails when it is not a Budget object ("bad").                 *)
Rows == [url : URLs, budget : {"good", "bad"}, enabled : BOOLEAN]

ASSUME NoneIsNoRow == None \notin Rows

VARIABLES
    row,      \* the stored row, None when there is none
    deleted,  \* the row has existed and is gone
    cache,    \* Manager.subs: the row the cached version was compiled from
    caller,   \* a request: [pc, sub, patch]
    worker,   \* a worker: [pc, sub]
    patches,  \* Update calls so far
    crashes,  \* crashes so far
    stored,   \* history: every row the store has accepted
    drift     \* history: since the last start two changes overlapped, or an
              \* auto-disable did not reach the store

vars == <<row, deleted, cache, caller, worker, patches, crashes, stored, drift>>
-----------------------------------------------------------------------------
(* UpdateInput: None means "no change". *)
Patches == [url : URLs \cup {None}, budget : {"good", "bad", None},
            enabled : BOOLEAN \cup {None}]

IdleCaller == [pc |-> "idle", sub |-> None, patch |-> None]
IdleWorker == [pc |-> "idle", sub |-> None]

CallerPCs == {"idle", "create_cache", "update_get", "update_write", "update_cache",
              "delete_get", "delete_write", "delete_cache"}
WorkerPCs == {"idle", "deliver", "get", "write", "remove"}

compiles(r) == r.budget = "good"
Active(r) == r # None /\ r.enabled

Init ==
    /\ row = None
    /\ deleted = FALSE
    /\ cache = None
    /\ caller = [c \in Callers |-> IdleCaller]
    /\ worker = [w \in Workers |-> IdleWorker]
    /\ patches = 0
    /\ crashes = 0
    /\ stored = {}
    /\ drift = FALSE
-----------------------------------------------------------------------------
(* Manager.AddOrUpdate: a row that does not compile leaves the version     *)
(* cached before in place; the callers ignore the error.                   *)
AddOrUpdate(r) == cache' = IF compiles(r) THEN r ELSE cache

Remove == cache' = None

(* UpdateSubscription: one UPDATE statement over every mutable column. *)
UpdateSubscription(r) ==
    /\ row' = r
    /\ stored' = stored \cup {r}

(* Whether somebody is changing the subscription when another starts to. *)
Changing ==
    \/ \E c \in Callers : caller[c].pc # "idle"
    \/ \E w \in Workers : worker[w].pc \notin {"idle", "deliver"}
NoteOverlap == drift' = (drift \/ Changing)

Goto(c, pc) == caller' = [caller EXCEPT ![c].pc = pc]
Return(c) == caller' = [caller EXCEPT ![c] = IdleCaller]

(* Create: the fresh row is inserted, enabled, under a new id. *)
CreateInsert(c) ==
    /\ caller[c].pc = "idle"
    /\ NoteOverlap
    /\ c \in Owners
    /\ row = None /\ ~deleted
    /\ \E u \in URLs, b \in {"good", "bad"} :
         LET r == [url |-> u, budget |-> b, enabled |-> TRUE] IN
         /\ row' = r
         /\ stored' = stored \cup {r}
         /\ caller' = [caller EXCEPT ![c].pc = "create_cache", ![c].sub = r]
    /\ UNCHANGED <<deleted, cache, worker, patches, crashes>>

CreateCache(c) ==
    /\ caller[c].pc = "create_cache"
    /\ AddOrUpdate(caller[c].sub)
    /\ Return(c)
    /\ UNCHANGED <<row, deleted, worker, patches, crashes, stored, drift>>

UpdateCall(c) ==
    /\ caller[c].pc = "idle"
    /\ NoteOverlap
    /\ patches < MaxPatches
    /\ row # None \/ deleted
    /\ patches' = patches + 1
    /\ \E p \in Patches :
         caller' = [caller EXCEPT ![c].pc = "update_get", ![c].patch = p]
    /\ UNCHANGED <<row, deleted, cache, worker, crashes, stored>>

DeleteCall(c) ==
    /\ caller[c].pc = "idle"
    /\ NoteOverlap
    /\ row # None \/ deleted
    /\ Goto(c, "delete_get")
    /\ UNCHANGED <<row, deleted, cache, worker, patches, crashes, stored>>

(* subops.Get: a missing row, a failing store and a caller that is not the *)
(* owner end the request.                                                  *)
GetRefuses(c) ==
    /\ caller[c].pc \in {"update_get", "delete_get"}
    /\ row = None \/ c \notin Owners \/ StoreMayFail
    /\ Return(c)
    /\ UNCHANGED <<row, deleted, cache, worker, patches, crashes, stored, drift>>

(* The patch is applied to the row as read. *)
Keep(new, old) == IF new = None THEN old ELSE new
Patched(r, p) ==
    [url |-> Keep(p.url, r.url), budget |-> Keep(p.budget, r.budget),
     enabled |-> Keep(p.enabled, r.enabled)]

UpdateGet(c) ==
    /\ caller[c].pc = "update_get"
    /\ row # None
    /\ c \in Owners
    /\ caller' = [caller EXCEPT ![c].pc = "update_write",
                                ![c].sub = Patched(row, caller[c].patch)]
    /\ UNCHANGED <<row, deleted, cache, worker, patches, crashes, stored, drift>>

UpdateWriteUnchecked(c) ==
    /\ caller[c].pc = "update_write"
    /\ UpdateSubscription(caller[c].sub)
    /\ Goto(c, "update_cache")
    /\ UNCHANGED <<deleted, cache, worker, patches, crashes, drift>>
UpdateWriteCachesFirst(c) ==
    /\ caller[c].pc = "update_write"
    /\ AddOrUpdate(caller[c].sub)
    /\ Goto(c, "update_cache")
    /\ UNCHANGED <<row, deleted, worker, patches, crashes, stored, drift>>
UpdateWrite(c) ==
    /\ caller[c].pc = "update_write"
    /\ row # None
    /\ UpdateSubscription(caller[c].sub)
    /\ Goto(c, "update_cache")
    /\ UNCHANGED <<deleted, cache, worker, patches, crashes, drift>>

(* No row was affected, or the statement failed. *)
WriteFails(c) ==
    /\ caller[c].pc \in {"update_write", "delete_write"}
    /\ row = None \/ StoreMayFail
    /\ Return(c)
    /\ UNCHANGED <<row, deleted, cache, worker, patches, crashes, stored, drift>>

UpdateCacheOnlyAdds(c) ==
    /\ caller[c].pc = "update_cache"
    /\ IF caller[c].sub.enabled THEN AddOrUpdate(caller[c].sub) ELSE UNCHANGED cache
    /\ Return(c)
    /\ UNCHANGED <<row, deleted, worker, patches, crashes, stored, drift>>
UpdateCache(c) ==
    /\ caller[c].pc = "update_cache"
    /\ IF caller[c].sub.enabled THEN AddOrUpdate(caller[c].sub) ELSE Remove
    /\ Return(c)
    /\ UNCHANGED <<row, deleted, worker, patches, crashes, stored, drift>>

DeleteGet(c) ==
    /\ caller[c].pc = "delete_get"
    /\ row # None
    /\ c \in Owners
    /\ Goto(c, "delete_write")
    /\ UNCHANGED <<row, deleted, cache, worker, patches, crashes, stored, drift>>

DeleteWrite(c) ==
    /\ caller[c].pc = "delete_write"
    /\ row # None
    /\ row' = None
    /\ deleted' = TRUE
    /\ Goto(c, "delete_cache")
    /\ UNCHANGED <<cache, worker, patches, crashes, stored, drift>>

DeleteCache(c) ==
    /\ caller[c].pc = "delete_cache"
    /\ Remove
    /\ Return(c)
    /\ UNCHANGED <<row, deleted, worker, patches, crashes, stored, drift>>
-----------------------------------------------------------------------------
(* A task of the cached version is taken by a worker (matching and queue:  *)
(* see WebhookDelivery); it outlives any change of the subscription.       *)
WorkerTake(w) ==
    /\ worker[w].pc = "idle"
    /\ cache # None
    /\ worker' = [worker EXCEPT ![w].pc = "deliver"]
    /\ UNCHANGED <<row, deleted, cache, caller, patches, crashes, stored, drift>>

(* The delivery ends short of the limit of permanent failures. *)
DeliveryEnds(w) ==
    /\ worker[w].pc = "deliver"
    /\ worker' = [worker EXCEPT ![w] = IdleWorker]
    /\ UNCHANGED <<row, deleted, cache, caller, patches, crashes, stored, drift>>

(* The limit is reached: autoDisable. *)
LimitReached(w) ==
    /\ worker[w].pc = "deliver"
    /\ NoteOverlap
    /\ worker' = [worker EXCEPT ![w].pc = "get"]
    /\ UNCHANGED <<row, deleted, cache, caller, patches, crashes, stored>>

(* The row is read; a row that is gone or already disabled, or a failing   *)
(* store, leaves only the cache to be cleared.                             *)
DisableGet(w) ==
    /\ worker[w].pc = "get"
    /\ \/ /\ Active(row)
          /\ worker' = [worker EXCEPT ![w].pc = "write",
                                      ![w].sub = [row EXCEPT !.enabled = FALSE]]
          /\ UNCHANGED drift
       \/ /\ ~Active(row) \/ StoreMayFail
          /\ drift' = (drift \/ Active(row))
          /\ worker' = [worker EXCEPT ![w].pc = "remove"]
    /\ UNCHANGED <<row, deleted, cache, caller, patches, crashes, stored>>

(* The write's failure is only logged. *)
DisableWrite(w) ==
    /\ worker[w].pc = "write"
    /\ \/ row # None /\ UpdateSubscription(worker[w].sub) /\ UNCHANGED drift
       \/ /\ row = None \/ StoreMayFail
          /\ drift' = (drift \/ Active(row))
          /\ UNCHANGED <<row, stored>>
    /\ worker' = [worker EXCEPT ![w].pc = "remove"]
    /\ UNCHANGED <<deleted, cache, caller, patches, crashes>>

DisableRemove(w) ==
    /\ worker[w].pc = "remove"
    /\ Remove
    /\ worker' = [worker EXCEPT ![w] = IdleWorker]
    /\ UNCHANGED <<row, deleted, caller, patches, crashes, stored, drift>>
-----------------------------------------------------------------------------
(* The cache Reload builds: the enabled rows that compile. *)
Reloaded ==
    IF Active(row) /\ compiles(row) THEN row ELSE None

(* The process dies between any two steps and starts again with Reload,    *)
(* before it serves anybody.                                               *)
Restart ==
    /\ crashes < MaxCrashes
    /\ crashes' = crashes + 1
    /\ cache' = Reloaded
    /\ caller' = [c \in Callers |-> IdleCaller]
    /\ worker' = [w \in Workers |-> IdleWorker]
    /\ drift' = FALSE
    /\ UNCHANGED <<row, deleted, patches, stored>>
-----------------------------------------------------------------------------
CallerStep(c) ==
    \/ CreateInsert(c)
    \/ CreateCache(c)
    \/ UpdateCall(c)
    \/ DeleteCall(c)
    \/ GetRefuses(c)
    \/ UpdateGet(c)
    \/ UpdateWrite(c)
    \/ WriteFails(c)
    \/ UpdateCache(c)
    \/ DeleteGet(c)
    \/ DeleteWrite(c)
    \/ DeleteCache(c)

WorkerStep(w) ==
    \/ WorkerTake(w)
    \/ DeliveryEnds(w)
    \/ LimitReached(w)
    \/ DisableGet(w)
    \/ DisableWrite(w)
    \/ DisableRemove(w)

Next ==
    \/ \E c \in Callers : CallerStep(c)
    \/ \E w \in Workers : WorkerStep(w)
    \/ Restart

Spec == Init /\ [][Next]_vars
-----------------------------------------------------------------------------
(* Every variable has its type. *)
TypeOK ==
    /\ row \in Rows \cup {None}
    /\ deleted \in BOOLEAN
    /\ cache \in Rows \cup {None}
    /\ caller \in [Callers -> [pc : CallerPCs, sub : Rows \cup {None},
                               patch : Patches \cup {None}]]
    /\ worker \in [Workers -> [pc : WorkerPCs, sub : Rows \cup {None}]]
    /\ patches \in 0..MaxPatches
    /\ crashes \in 0..MaxCrashes
    /\ stored \subseteq Rows
    /\ drift \in BOOLEAN

(* sqlite.go, UpdateSubscription and subops.go, Update: a deleted row is   *)
(* never resurrected, neither by an Update that read it before the Delete  *)
(* nor by a worker that was about to disable it.                           *)
DeletedStaysDeleted == deleted => row = None

(* subops.go, Create and Update: whatever the manager delivers with was    *)
(* committed to the store first, as an enabled row, so that a failed write *)
(* or a crash never leaves deliveries going to an unaccepted version.      *)
CacheWasStored == cache # None => cache \in stored /\ cache.enabled

Quiescent ==
    /\ \A c \in Callers : caller[c].pc = "idle"
    /\ \A w \in Workers : worker[w].pc \in {"idle", "deliver"}

(* subops.go and manager.go: when every request has returned, the manager  *)
(* delivers with exactly the enabled row that compiles, and with nothing   *)
(* when the row is gone or disabled, through failures of the store and     *)
(* crashes between any two steps, as long as no two changes were under way *)
(* at once and no auto-disable failed to reach the store since the start.  *)
CacheMatchesStore ==
    (Quiescent /\ ~drift) =>
        /\ cache # None => Active(row)
        /\ (Active(row) /\ compiles(row)) => cache = row

(* WEBHOOKS.md, DELETE: "Permanent delete": once the request has returned, *)
(* nothing is delivered for the subscription any more.                     *)
DeletedIsSilent == (Quiescent /\ deleted) => cache = None

=============================================================================
