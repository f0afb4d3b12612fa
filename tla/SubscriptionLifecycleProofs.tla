-------------------- MODULE SubscriptionLifecycleProofs --------------------
(***************************************************************************)
(* The store and the cache of one subscription, for any number of callers, *)
(* workers, URLs and crashes.                                              *)
(*                                                                         *)
(* Neither DeletedStaysDeleted nor CacheWasStored is inductive: what a     *)
(* request installs in the cache it read and wrote several steps earlier.  *)
(* Inv adds that a request about to touch the cache carries a row the      *)
(* store has accepted, and that one about to write carries a row at all.   *)
(*                                                                         *)
(* CacheMatchesStore holds when nobody is changing the subscription.       *)
(* MatchInv follows the one change under way to that point: it says by how *)
(* much the cache may be behind the row while the change is between its    *)
(* write and its call of the manager.                                      *)
(***************************************************************************)
EXTENDS SubscriptionLifecycle, TLAPS

(* The pending writes and cache updates of requests and workers. *)
RequestsCarryRows ==
    \A c \in Callers :
        /\ caller[c].pc = "update_get" => caller[c].patch \in Patches
        /\ caller[c].pc = "update_write" => caller[c].sub \in Rows
        /\ caller[c].pc \in {"create_cache", "update_cache"} => caller[c].sub \in stored
        /\ caller[c].pc = "create_cache" => caller[c].sub.enabled

WorkersCarryRows == \A w \in Workers : worker[w].pc = "write" => worker[w].sub \in Rows

RowWasStored == row # None => row \in stored

Inv ==
    /\ TypeOK
    /\ DeletedStaysDeleted
    /\ CacheWasStored
    /\ RowWasStored
    /\ RequestsCarryRows
    /\ WorkersCarryRows

(* Applying a patch to a row gives a row (subops.go, Update). *)
LEMMA PatchedIsRow ==
    ASSUME NEW r \in Rows, NEW p \in Patches
    PROVE  Patched(r, p) \in Rows
<1>1. Keep(p.url, r.url) \in URLs
  BY LifecycleAssumption DEF Keep, Rows, Patches
<1>2. Keep(p.budget, r.budget) \in {"good", "bad"}
  BY DEF Keep, Rows, Patches
<1>3. Keep(p.enabled, r.enabled) \in BOOLEAN
  BY DEF Keep, Rows, Patches
<1> QED
  BY <1>1, <1>2, <1>3 DEF Patched, Rows

(* The invariant holds before the subscription is created. *)
LEMMA InitInv == Init => Inv
<1> SUFFICES ASSUME Init PROVE Inv
  OBVIOUS
<1>1. IdleCaller \in [pc : CallerPCs, sub : Rows \cup {None}, patch : Patches \cup {None}]
  BY DEF IdleCaller, CallerPCs
<1>2. IdleWorker \in [pc : WorkerPCs, sub : Rows \cup {None}]
  BY DEF IdleWorker, WorkerPCs
<1>3. TypeOK
  <2>1. 0 \in 0..MaxPatches /\ 0 \in 0..MaxCrashes
    BY LifecycleAssumption
  <2> QED
    BY <1>1, <1>2, <2>1 DEF Init, TypeOK
<1>4. /\ DeletedStaysDeleted /\ CacheWasStored /\ RowWasStored
      /\ RequestsCarryRows /\ WorkersCarryRows
  BY DEF Init, DeletedStaysDeleted, CacheWasStored, RowWasStored, RequestsCarryRows,
         WorkersCarryRows, IdleCaller, IdleWorker
<1> QED
  BY <1>3, <1>4 DEF Inv

(* Every step of a request, of a worker and of a restart keeps it. *)
LEMMA NextInv == Inv /\ [Next]_vars => Inv'
<1> SUFFICES ASSUME Inv, [Next]_vars PROVE Inv'
  OBVIOUS
<1> USE LifecycleAssumption, NoneIsNoRow
<1> DEFINE CallerType == [pc : CallerPCs, sub : Rows \cup {None}, patch : Patches \cup {None}]
<1>i1. IdleCaller \in CallerType /\ IdleCaller.pc = "idle"
  BY DEF IdleCaller, CallerPCs
<1>i2. IdleWorker \in [pc : WorkerPCs, sub : Rows \cup {None}] /\ IdleWorker.pc = "idle"
  BY DEF IdleWorker, WorkerPCs
<1>i3. \A r \in Rows : r.enabled \in BOOLEAN /\ [r EXCEPT !.enabled = FALSE] \in Rows
  BY DEF Rows
<1>i4. NoteOverlap => drift' \in BOOLEAN
  BY Zenon DEF NoteOverlap
<1>1. ASSUME NEW c \in Callers, CreateInsert(c) PROVE Inv'
  <2>1. PICK u \in URLs, b \in {"good", "bad"} :
          LET r == [url |-> u, budget |-> b, enabled |-> TRUE] IN
          /\ row' = r
          /\ stored' = stored \cup {r}
          /\ caller' = [caller EXCEPT ![c].pc = "create_cache", ![c].sub = r]
    BY <1>1 DEF CreateInsert
  <2> DEFINE r == [url |-> u, budget |-> b, enabled |-> TRUE]
  <2>2. r \in Rows /\ r.enabled
    BY DEF Rows
  <2>3. /\ row' = r
        /\ stored' = stored \cup {r}
        /\ caller' = [caller EXCEPT ![c].pc = "create_cache", ![c].sub = r]
    BY <2>1
  <2> HIDE DEF r
  <2>4. /\ caller[c].pc = "idle" /\ ~deleted
        /\ drift' \in BOOLEAN
        /\ UNCHANGED <<deleted, cache, worker, patches, crashes>>
    BY <1>1, <1>i4 DEF CreateInsert
  <2> QED
    BY ZenonT(60), <2>2, <2>3, <2>4 DEF Inv, TypeOK, DeletedStaysDeleted, CacheWasStored, RowWasStored,
       RequestsCarryRows, WorkersCarryRows, CallerPCs
<1>2. ASSUME NEW c \in Callers, CreateCache(c) PROVE Inv'
  BY <1>2, <1>i1 DEF Inv, TypeOK, DeletedStaysDeleted, CacheWasStored, RowWasStored,
     RequestsCarryRows, WorkersCarryRows, CreateCache, AddOrUpdate, Return, CallerPCs
<1>3. ASSUME NEW c \in Callers, UpdateCall(c) PROVE Inv'
  <2>1. PICK p \in Patches :
          caller' = [caller EXCEPT ![c].pc = "update_get", ![c].patch = p]
    BY <1>3 DEF UpdateCall
  <2>2. /\ patches < MaxPatches /\ patches' = patches + 1
        /\ drift' \in BOOLEAN
        /\ UNCHANGED <<row, deleted, cache, worker, crashes, stored>>
    BY <1>3, <1>i4 DEF UpdateCall
  <2>3. patches' \in 0..MaxPatches
    BY <2>2 DEF Inv, TypeOK
  <2>4. /\ caller' \in [Callers -> CallerType]
        /\ RequestsCarryRows'
    <3>1. caller' \in [Callers -> CallerType]
      <4> HIDE DEF CallerType
      <4>1. caller \in [Callers -> CallerType]
        BY DEF Inv, TypeOK, CallerType
      <4>2. [caller[c] EXCEPT !.pc = "update_get", !.patch = p] \in CallerType
        BY <4>1 DEF CallerType, CallerPCs
      <4>3. caller' = [caller EXCEPT ![c] = [caller[c] EXCEPT !.pc = "update_get", !.patch = p]]
        BY <2>1, <4>1
      <4> QED
        BY <4>1, <4>2, <4>3
    <3>2. /\ caller'[c].pc = "update_get" /\ caller'[c].patch \in Patches
          /\ \A d \in Callers \ {c} : caller'[d] = caller[d]
      BY <2>1 DEF Inv, TypeOK
    <3>3. RequestsCarryRows'
      BY <2>2, <3>2 DEF Inv, RequestsCarryRows
    <3> QED
      BY <3>1, <3>3
  <2>5. TypeOK'
    BY <2>2, <2>3, <2>4 DEF Inv, TypeOK
  <2> QED
    BY <2>2, <2>4, <2>5 DEF Inv, DeletedStaysDeleted, CacheWasStored, RowWasStored,
       WorkersCarryRows
<1>4. ASSUME NEW c \in Callers, DeleteCall(c) PROVE Inv'
  BY <1>4, <1>i4 DEF Inv, TypeOK, DeletedStaysDeleted, CacheWasStored, RowWasStored,
     RequestsCarryRows, WorkersCarryRows, DeleteCall, Goto, CallerPCs
<1>5. ASSUME NEW c \in Callers, GetRefuses(c) PROVE Inv'
  BY <1>5, <1>i1 DEF Inv, TypeOK, DeletedStaysDeleted, CacheWasStored, RowWasStored,
     RequestsCarryRows, WorkersCarryRows, GetRefuses, Return, CallerPCs
<1>6. ASSUME NEW c \in Callers, UpdateGet(c) PROVE Inv'
  <2>1. Patched(row, caller[c].patch) \in Rows
    BY <1>6, PatchedIsRow DEF UpdateGet, Inv, TypeOK, RequestsCarryRows
  <2> QED
    BY ZenonT(60), <1>6, <2>1 DEF Inv, TypeOK, DeletedStaysDeleted, CacheWasStored, RowWasStored,
       RequestsCarryRows, WorkersCarryRows, UpdateGet, CallerPCs
<1>7. ASSUME NEW c \in Callers, UpdateWrite(c) PROVE Inv'
  BY <1>7 DEF Inv, TypeOK, DeletedStaysDeleted, CacheWasStored, RowWasStored,
     RequestsCarryRows, WorkersCarryRows, UpdateWrite, UpdateSubscription, Goto, CallerPCs
<1>8. ASSUME NEW c \in Callers, WriteFails(c) PROVE Inv'
  BY <1>8, <1>i1 DEF Inv, TypeOK, DeletedStaysDeleted, CacheWasStored, RowWasStored,
     RequestsCarryRows, WorkersCarryRows, WriteFails, Return, CallerPCs
<1>9. ASSUME NEW c \in Callers, UpdateCache(c) PROVE Inv'
  BY <1>9, <1>i1 DEF Inv, TypeOK, DeletedStaysDeleted, CacheWasStored, RowWasStored,
     RequestsCarryRows, WorkersCarryRows, UpdateCache, AddOrUpdate, Remove, Return, CallerPCs
<1>10. ASSUME NEW c \in Callers, DeleteGet(c) PROVE Inv'
  BY <1>10 DEF Inv, TypeOK, DeletedStaysDeleted, CacheWasStored, RowWasStored,
     RequestsCarryRows, WorkersCarryRows, DeleteGet, Goto, CallerPCs
<1>11. ASSUME NEW c \in Callers, DeleteWrite(c) PROVE Inv'
  BY <1>11 DEF Inv, TypeOK, DeletedStaysDeleted, CacheWasStored, RowWasStored,
     RequestsCarryRows, WorkersCarryRows, DeleteWrite, Goto, CallerPCs
<1>12. ASSUME NEW c \in Callers, DeleteCache(c) PROVE Inv'
  BY <1>12, <1>i1 DEF Inv, TypeOK, DeletedStaysDeleted, CacheWasStored, RowWasStored,
     RequestsCarryRows, WorkersCarryRows, DeleteCache, Remove, Return, CallerPCs
<1>13. ASSUME NEW w \in Workers, WorkerTake(w) \/ DeliveryEnds(w) \/ LimitReached(w)
       PROVE  Inv'
  BY <1>13, <1>i2, <1>i4 DEF Inv, TypeOK, DeletedStaysDeleted, CacheWasStored, RowWasStored,
     RequestsCarryRows, WorkersCarryRows, WorkerTake, DeliveryEnds, LimitReached, WorkerPCs
<1>14. ASSUME NEW w \in Workers, DisableGet(w) PROVE Inv'
  <2>1. drift' \in BOOLEAN
    BY <1>14, Zenon DEF DisableGet, Inv, TypeOK
  <2> QED
    BY SMTT(60), <1>14, <2>1, <1>i3 DEF Inv, TypeOK, DeletedStaysDeleted, CacheWasStored, RowWasStored,
       RequestsCarryRows, WorkersCarryRows, DisableGet, Active, WorkerPCs
<1>15. ASSUME NEW w \in Workers, DisableWrite(w) PROVE Inv'
  <2>1. drift' \in BOOLEAN
    BY <1>15, Zenon DEF DisableWrite, Inv, TypeOK
  <2> QED
    BY <1>15, <2>1 DEF Inv, TypeOK, DeletedStaysDeleted, CacheWasStored, RowWasStored,
       RequestsCarryRows, WorkersCarryRows, DisableWrite, UpdateSubscription, WorkerPCs
<1>16. ASSUME NEW w \in Workers, DisableRemove(w) PROVE Inv'
  BY <1>16, <1>i2 DEF Inv, TypeOK, DeletedStaysDeleted, CacheWasStored, RowWasStored,
     RequestsCarryRows, WorkersCarryRows, DisableRemove, Remove, WorkerPCs
<1>17. ASSUME Restart PROVE Inv'
  <2>1. /\ cache' \in Rows \cup {None}
        /\ cache' # None => cache' = row /\ row.enabled
    BY <1>17 DEF Inv, TypeOK, Restart, Reloaded, Active
  <2>2. /\ caller' \in [Callers -> CallerType]
        /\ worker' \in [Workers -> [pc : WorkerPCs, sub : Rows \cup {None}]]
        /\ \A c \in Callers : caller'[c].pc = "idle"
        /\ \A w \in Workers : worker'[w].pc = "idle"
    BY <1>17, <1>i1, <1>i2 DEF Restart
  <2>3. crashes' \in 0..MaxCrashes
    BY <1>17 DEF Inv, TypeOK, Restart
  <2>4. drift' \in BOOLEAN
    BY <1>17, Zenon DEF Restart
  <2>5. UNCHANGED <<row, deleted, patches, stored>>
    BY <1>17 DEF Restart
  <2>6. TypeOK'
    BY <2>1, <2>2, <2>3, <2>5, <2>4 DEF Inv, TypeOK
  <2> QED
    BY <2>1, <2>2, <2>5, <2>6 DEF Inv, DeletedStaysDeleted, CacheWasStored, RowWasStored,
       RequestsCarryRows, WorkersCarryRows
<1>18. ASSUME UNCHANGED vars PROVE Inv'
  BY <1>18 DEF vars, Inv, TypeOK, DeletedStaysDeleted, CacheWasStored, RowWasStored,
     RequestsCarryRows, WorkersCarryRows
<1> QED
  BY <1>1, <1>2, <1>3, <1>4, <1>5, <1>6, <1>7, <1>8, <1>9, <1>10, <1>11, <1>12, <1>13,
     <1>14, <1>15, <1>16, <1>17, <1>18 DEF Next, CallerStep, WorkerStep

(* The strengthened invariant holds in every reachable state. *)
THEOREM LifecycleInv == Spec => []Inv
  BY InitInv, NextInv, PTL DEF Spec

(* Rows, requests and workers keep their types through every interleaving  *)
(* of requests, failures, crashes and automatic disabling.                 *)
THEOREM LifecycleTypeCorrect == Spec => []TypeOK
<1>1. Inv => TypeOK
  BY DEF Inv
<1> QED
  BY <1>1, LifecycleInv, PTL

(* subops.go and sqlite.go: no interleaving of Create, Update, Delete,     *)
(* autoDisable and crashes brings a deleted row back.                      *)
THEOREM NoResurrection == Spec => []DeletedStaysDeleted
<1>1. Inv => DeletedStaysDeleted
  BY DEF Inv
<1> QED
  BY <1>1, LifecycleInv, PTL

(* subops.go: the manager only ever delivers with a version the store      *)
(* accepted as enabled, whatever fails or crashes half way.                *)
THEOREM CommittedBeforeCached == Spec => []CacheWasStored
<1>1. Inv => CacheWasStored
  BY DEF Inv
<1> QED
  BY <1>1, LifecycleInv, PTL
-----------------------------------------------------------------------------
(* The requests past their write whose call of the manager is to come. *)
AboutToCache == {"create_cache", "update_cache"}
Disabling == {"get", "write", "remove"}

(* One request or one automatic disabling is under way, at most. *)
OneChange ==
    /\ \A c, d \in Callers : c # d => caller[c].pc = "idle" \/ caller[d].pc = "idle"
    /\ \A v, w \in Workers : v # w => worker[v].pc \notin Disabling \/ worker[w].pc \notin Disabling
    /\ \A c \in Callers, w \in Workers : caller[c].pc = "idle" \/ worker[w].pc \notin Disabling

(* What the change under way knows of the row. *)
ChangeKnowsRow ==
    /\ \A c \in Callers : /\ caller[c].pc \in AboutToCache => row = caller[c].sub
                          /\ caller[c].pc = "delete_cache" => row = None
    /\ \A w \in Workers : /\ worker[w].pc = "write" => ~worker[w].sub.enabled
                          /\ worker[w].pc = "remove" => ~Active(row)

(* The cache has an entry for an inactive row only until the change takes  *)
(* it away.                                                                *)
NoStaleEntry ==
    cache # None => \/ Active(row)
                    \/ \E c \in Callers : caller[c].pc \in {"update_cache", "delete_cache"}
                    \/ \E w \in Workers : worker[w].pc = "remove"

(* It lacks the row only until the change brings it. *)
NoMissingEntry ==
    (Active(row) /\ compiles(row)) =>
        \/ cache = row
        \/ \E c \in Callers : caller[c].pc \in AboutToCache

MatchInv == ~drift => OneChange /\ ChangeKnowsRow /\ NoStaleEntry /\ NoMissingEntry

(* A change starts when nobody is changing the subscription, or it drifts. *)
LEMMA StartsAlone ==
    ASSUME NoteOverlap, ~drift', TypeOK
    PROVE  Quiescent /\ ~drift
  BY DEF NoteOverlap, Changing, Quiescent, TypeOK

(* Each step of Create, Update and Delete (subops.go) keeps MatchInv. *)
LEMMA CallerMatch ==
    ASSUME Inv, MatchInv, NEW c \in Callers, CallerStep(c)
    PROVE  MatchInv'
<1> SUFFICES ASSUME ~drift'
             PROVE  (OneChange /\ ChangeKnowsRow /\ NoStaleEntry /\ NoMissingEntry)'
  BY DEF MatchInv
<1>t. TypeOK
  BY DEF Inv
<1>0. ~drift
  BY StartsAlone, <1>t DEF CallerStep, CreateInsert, CreateCache, UpdateCall, DeleteCall, GetRefuses,
     UpdateGet, UpdateWrite, WriteFails, UpdateCache, DeleteGet, DeleteWrite, DeleteCache
<1>1. OneChange /\ ChangeKnowsRow /\ NoStaleEntry /\ NoMissingEntry
  BY <1>0 DEF MatchInv
<1> USE NoneIsNoRow DEF TypeOK, OneChange, ChangeKnowsRow, NoStaleEntry, NoMissingEntry,
        AboutToCache, Disabling, Active, IdleCaller
<1>2. CASE CreateInsert(c)
  <2>1. Quiescent
    BY <1>2, <1>t, StartsAlone DEF CreateInsert
  <2>2. PICK r \in Rows : /\ row' = r
                          /\ caller' = [caller EXCEPT ![c].pc = "create_cache", ![c].sub = r]
    <3>1. PICK u \in URLs, b \in {"good", "bad"} :
            LET r == [url |-> u, budget |-> b, enabled |-> TRUE] IN
            /\ row' = r
            /\ caller' = [caller EXCEPT ![c].pc = "create_cache", ![c].sub = r]
      BY <1>2 DEF CreateInsert
    <3>2. [url |-> u, budget |-> b, enabled |-> TRUE] \in Rows
      BY DEF Rows
    <3> QED
      BY <3>1, <3>2
  <2>3. row = None /\ UNCHANGED <<cache, worker>>
    BY <1>2 DEF CreateInsert
  <2>4. cache = None
    BY <1>1, <2>1, <2>3 DEF Quiescent
  <2>5. /\ caller'[c].pc = "create_cache" /\ caller'[c].sub = r
        /\ \A d \in Callers \ {c} : caller'[d] = caller[d]
    BY <1>t, <2>2
  <2>6. OneChange'
    BY <2>1, <2>3, <2>5 DEF Quiescent
  <2>7. ChangeKnowsRow'
    BY <2>1, <2>2, <2>3, <2>5 DEF Quiescent
  <2>8. NoStaleEntry' /\ NoMissingEntry'
    BY <2>3, <2>4, <2>5
  <2> QED
    BY <2>6, <2>7, <2>8
<1>3. CASE CreateCache(c)
  <2>1. caller[c].sub.enabled
    BY <1>3 DEF CreateCache, Inv, RequestsCarryRows
  <2> QED
    BY <1>t, <1>1, <1>3, <2>1 DEF CreateCache, AddOrUpdate, Return
<1>4. CASE UpdateCall(c) \/ DeleteCall(c)
  <2>1. Quiescent
    BY <1>4, <1>t, StartsAlone DEF UpdateCall, DeleteCall
  <2>2. UNCHANGED <<row, cache, worker>>
    BY <1>4 DEF UpdateCall, DeleteCall
  <2>3. /\ caller'[c].pc \in {"update_get", "delete_get"}
        /\ \A d \in Callers \ {c} : caller'[d] = caller[d]
    BY <1>4, <1>t DEF UpdateCall, DeleteCall, Goto
  <2> QED
    BY <1>1, <2>1, <2>2, <2>3 DEF Quiescent
<1>5. CASE GetRefuses(c)
  BY <1>t, <1>1, <1>5 DEF GetRefuses, Return
<1>6. CASE UpdateGet(c)
  <2>1. UNCHANGED <<row, cache, worker>> /\ caller[c].pc = "update_get"
    BY <1>6 DEF UpdateGet
  <2>2. /\ caller'[c].pc = "update_write"
        /\ \A d \in Callers \ {c} : caller'[d] = caller[d]
    BY <1>6, <1>t DEF UpdateGet
  <2> QED
    BY <1>1, <2>1, <2>2
<1>7. CASE UpdateWrite(c)
  BY <1>t, <1>1, <1>7 DEF UpdateWrite, UpdateSubscription, Goto
<1>8. CASE WriteFails(c)
  BY <1>t, <1>1, <1>8 DEF WriteFails, Return
<1>9. CASE UpdateCache(c)
  <2>1. caller[c].pc = "update_cache" /\ UNCHANGED <<row, worker>>
    BY <1>9 DEF UpdateCache
  <2>2. row = caller[c].sub /\ row # None
    BY <1>t, <1>1, <2>1 DEF Inv, RequestsCarryRows
  <2>3. /\ caller'[c].pc = "idle"
        /\ \A d \in Callers \ {c} : caller'[d] = caller[d]
    BY <1>9, <1>t DEF UpdateCache, Return
  <2>4. cache' = IF ~Active(row) THEN None ELSE IF compiles(row) THEN row ELSE cache
    BY <1>9, <2>2 DEF UpdateCache, AddOrUpdate, Remove
  <2> QED
    BY <1>1, <2>1, <2>2, <2>3, <2>4
<1>10. CASE DeleteGet(c)
  BY <1>t, <1>1, <1>10 DEF DeleteGet, Goto
<1>11. CASE DeleteWrite(c)
  BY <1>t, <1>1, <1>11 DEF DeleteWrite, Goto
<1>12. CASE DeleteCache(c)
  BY <1>t, <1>1, <1>12 DEF DeleteCache, Remove, Return
<1> QED
  BY <1>2, <1>3, <1>4, <1>5, <1>6, <1>7, <1>8, <1>9, <1>10, <1>11, <1>12 DEF CallerStep

(* Each step of a worker that may disable the subscription (worker.go,     *)
(* autoDisable) keeps it: a disabling that does not reach the store is a   *)
(* drift.                                                                  *)
LEMMA WorkerMatch ==
    ASSUME Inv, MatchInv, NEW w \in Workers, WorkerStep(w)
    PROVE  MatchInv'
<1> SUFFICES ASSUME ~drift'
             PROVE  (OneChange /\ ChangeKnowsRow /\ NoStaleEntry /\ NoMissingEntry)'
  BY DEF MatchInv
<1>t. TypeOK
  BY DEF Inv
<1>0. ~drift
  BY StartsAlone, <1>t DEF WorkerStep, WorkerTake, DeliveryEnds, LimitReached, DisableGet,
     DisableWrite, DisableRemove
<1>1. OneChange /\ ChangeKnowsRow /\ NoStaleEntry /\ NoMissingEntry
  BY <1>0 DEF MatchInv
<1> USE NoneIsNoRow DEF TypeOK, OneChange, ChangeKnowsRow, NoStaleEntry, NoMissingEntry,
        AboutToCache, Disabling, Active, IdleWorker
<1>2. CASE WorkerTake(w) \/ DeliveryEnds(w)
  BY <1>t, <1>1, <1>2 DEF WorkerTake, DeliveryEnds
<1>3. CASE LimitReached(w)
  <2>1. Quiescent
    BY <1>3, <1>t, StartsAlone DEF LimitReached
  <2> QED
    BY <1>t, <1>1, <1>3, <2>1 DEF LimitReached, Quiescent
<1>4. CASE DisableGet(w)
  <2>1. UNCHANGED <<row, cache, caller>> /\ worker[w].pc = "get"
    BY <1>4 DEF DisableGet
  <2>2. CASE /\ Active(row)
             /\ worker' = [worker EXCEPT ![w].pc = "write", ![w].sub = [row EXCEPT !.enabled = FALSE]]
    <3>1. row \in Rows
      BY <1>t, <2>2
    <3>2. [row EXCEPT !.enabled = FALSE].enabled = FALSE
      BY <3>1 DEF Rows
    <3>3. /\ worker'[w].pc = "write" /\ worker'[w].sub.enabled = FALSE
          /\ \A v \in Workers \ {w} : worker'[v] = worker[v]
      BY <1>t, <2>2, <3>2
    <3> QED
      BY <1>1, <2>1, <3>3
  <2>3. CASE drift' = (drift \/ Active(row)) /\ worker' = [worker EXCEPT ![w].pc = "remove"]
    BY ZenonT(60), <1>t, <1>1, <2>1, <2>3
  <2> QED
    BY <1>4, <2>2, <2>3 DEF DisableGet
<1>5. CASE DisableWrite(w)
  <2>1. UNCHANGED <<cache, caller>> /\ worker[w].pc = "write" /\ worker' = [worker EXCEPT ![w].pc = "remove"]
    BY <1>5 DEF DisableWrite
  <2>2. CASE row # None /\ UpdateSubscription(worker[w].sub)
    BY <1>t, <1>1, <2>1, <2>2 DEF UpdateSubscription
  <2>3. CASE drift' = (drift \/ Active(row)) /\ UNCHANGED row
    BY ZenonT(60), <1>t, <1>1, <2>1, <2>3
  <2> QED
    BY <1>5, <2>2, <2>3 DEF DisableWrite
<1>6. CASE DisableRemove(w)
  BY <1>t, <1>1, <1>6 DEF DisableRemove, Remove
<1> QED
  BY <1>2, <1>3, <1>4, <1>5, <1>6 DEF WorkerStep

(* subops.go and manager.go: between changes the manager delivers with     *)
(* exactly the enabled row that compiles, and with nothing when the row is *)
(* gone or disabled, through failures of the store and crashes anywhere,   *)
(* unless two changes overlapped or a disabling did not reach the store.   *)
THEOREM CacheFollowsStore == Spec => []CacheMatchesStore
<1>1. Init => MatchInv
  BY NoneIsNoRow DEF Init, MatchInv, OneChange, ChangeKnowsRow, NoStaleEntry, NoMissingEntry, AboutToCache,
     Disabling, Active, IdleCaller, IdleWorker
<1>2. Inv /\ MatchInv /\ [Next]_vars => MatchInv'
  <2> SUFFICES ASSUME Inv, MatchInv, [Next]_vars PROVE MatchInv'
    OBVIOUS
  <2>1. CASE Restart
    <3>1. /\ \A c \in Callers : caller'[c].pc = "idle"
          /\ \A w \in Workers : worker'[w].pc = "idle"
      BY <2>1 DEF Restart, IdleCaller, IdleWorker
    <3>2. UNCHANGED row /\ cache' = IF Active(row) /\ compiles(row) THEN row ELSE None
      BY <2>1 DEF Restart, Reloaded
    <3> QED
      BY <3>1, <3>2 DEF MatchInv, OneChange, ChangeKnowsRow, NoStaleEntry, NoMissingEntry, AboutToCache,
         Disabling
  <2>2. CASE UNCHANGED vars
    BY <2>2 DEF vars, MatchInv, OneChange, ChangeKnowsRow, NoStaleEntry, NoMissingEntry
  <2> QED
    BY <2>1, <2>2, CallerMatch, WorkerMatch DEF Next
<1>3. MatchInv => CacheMatchesStore
  BY DEF MatchInv, NoStaleEntry, NoMissingEntry, AboutToCache, CacheMatchesStore, Quiescent
<1> QED
  BY InitInv, NextInv, <1>1, <1>2, <1>3, PTL DEF Spec
=============================================================================
