----------------------------- MODULE TenantIds -----------------------------
(***************************************************************************)
(* The ids of a tenant's store and authorization model, as several callers  *)
(* of one OpenFGA client look them up: ModelId and StoreId of fga/client.   *)
(* One tenant is modelled.  Its two cache entries may vanish at any time:   *)
(* nobody asked for them for their time to live.  The server may hold no    *)
(* store for the tenant yet, or make a new one after the old one was        *)
(* deleted; it may get a new model at any time and keeps the older ones.    *)
(***************************************************************************)
EXTENDS Integers

CONSTANTS
  Callers,    \* concurrent calls, all with the same client
  MaxChanges, \* bound on the changes of store and model
  MaxFaults   \* bound on failing requests

ASSUME IdsAssumption == MaxChanges \in Nat /\ MaxFaults \in Nat

VARIABLES
  store,   \* id of the tenant's store, 0 if there is none
  model,   \* number of its latest model, 0 if there is none
  changes, \* changes of store and model so far
  faults,  \* failed requests so far
  cache,   \* the cached ids of store and model
  pc,      \* pc[p]: where caller p is
  back,    \* back[p]: where p goes on when StoreId returns
  found,   \* found[p]: the id that p's last StoreId returned
  sid,     \* sid[p]: the store id p will make its request with
  mid      \* mid[p]: the model id p will make its request with

serverIds == <<store, model, changes>>
idVars == <<serverIds, faults, cache, pc, back, found, sid, mid>>

\* A model id belongs to one store.  NoModel stands for no model id.
Model(s, m) == [store |-> s, num |-> m]
NoModel == Model(0, 0)

Ids == 0..(MaxChanges + 1)
Models == [store : Ids, num : Ids]

InitIds ==
  /\ store \in {0, 1} /\ model \in {0, store}
  /\ changes = 0 /\ faults = 0
  /\ cache = [store |-> 0, model |-> NoModel]
  /\ pc = [p \in Callers |-> "idle"] /\ back = [p \in Callers |-> "modelGet"]
  /\ found = [p \in Callers |-> 0] /\ sid = [p \in Callers |-> 0]
  /\ mid = [p \in Callers |-> NoModel]

Goto(p, where) == pc' = [pc EXCEPT ![p] = where]

\* StoreId is called, and the call goes on at next.
CallStoreId(p, next) ==
  /\ Goto(p, "storeGet")
  /\ back' = [back EXCEPT ![p] = next]

\* StoreId returns s: to ModelId, or to the call that makes the request.
StoreIdReturns(p, s) ==
  /\ Goto(p, back[p])
  /\ found' = [found EXCEPT ![p] = s]
  /\ sid' = IF back[p] = "readModels" THEN sid ELSE [sid EXCEPT ![p] = s]

-----------------------------------------------------------------------------
StoreCached(p) ==
  /\ pc[p] = "storeGet" /\ cache.store # 0
  /\ StoreIdReturns(p, cache.store)
  /\ UNCHANGED <<serverIds, faults, cache, back, mid>>

StoreNotCached(p) ==
  /\ pc[p] = "storeGet" /\ cache.store = 0
  /\ Goto(p, "list")
  /\ UNCHANGED <<serverIds, faults, cache, back, found, sid, mid>>

\* ListStores, and the search for the store with the tenant's name.
ListStores(p) ==
  /\ pc[p] = "list"
  /\ IF store # 0
     THEN Goto(p, "storeSet") /\ found' = [found EXCEPT ![p] = store]
     ELSE Goto(p, "error") /\ UNCHANGED found
  /\ UNCHANGED <<serverIds, faults, cache, back, sid, mid>>

StoreSet(p) ==
  /\ pc[p] = "storeSet"
  /\ cache' = [cache EXCEPT !.store = found[p]]
  /\ StoreIdReturns(p, found[p])
  /\ UNCHANGED <<serverIds, faults, back, mid>>

\* ModelId looks into the cache, and asks for the store if nothing is there.
ModelCached(p) ==
  /\ pc[p] = "modelGet" /\ cache.model # NoModel
  /\ mid' = [mid EXCEPT ![p] = cache.model]
  /\ Goto(p, "request")
  /\ UNCHANGED <<serverIds, faults, cache, back, found, sid>>

ModelNotCached(p) ==
  /\ pc[p] = "modelGet" /\ cache.model = NoModel
  /\ CallStoreId(p, "readModels")
  /\ UNCHANGED <<serverIds, faults, cache, found, sid, mid>>

\* ReadAuthorizationModels: the latest model comes first.
ReadModels(p) ==
  /\ pc[p] = "readModels" /\ found[p] = store
  /\ IF model # 0
     THEN Goto(p, "modelSet") /\ mid' = [mid EXCEPT ![p] = Model(store, model)]
     ELSE Goto(p, "error") /\ UNCHANGED mid
  /\ UNCHANGED <<serverIds, faults, cache, back, found, sid>>

\* The models of a deleted store may be there still.
ReadOldModels(p) ==
  /\ pc[p] = "readModels" /\ found[p] # store
  /\ \E n \in 1..changes : mid' = [mid EXCEPT ![p] = Model(found[p], n)]
  /\ Goto(p, "modelSet")
  /\ UNCHANGED <<serverIds, faults, cache, back, found, sid>>

ModelSet(p) ==
  /\ pc[p] = "modelSet"
  /\ cache' = [cache EXCEPT !.model = mid[p]]
  /\ Goto(p, "request")
  /\ UNCHANGED <<serverIds, faults, back, found, sid, mid>>

LookUp(p) == \/ StoreCached(p) \/ StoreNotCached(p) \/ ListStores(p) \/ StoreSet(p)
             \/ ModelCached(p) \/ ModelNotCached(p) \/ ModelSet(p)
             \/ ReadModels(p) \/ ReadOldModels(p)

-----------------------------------------------------------------------------
\* An entry expires, or the other tenants' entries push it out.
Expire ==
  /\ \/ cache.store # 0 /\ cache' = [cache EXCEPT !.store = 0]
     \/ cache.model # NoModel /\ cache' = [cache EXCEPT !.model = NoModel]
  /\ UNCHANGED <<serverIds, faults, pc, back, found, sid, mid>>

\* Whoever administers the server creates and deletes the tenant's store and
\* writes models.
ServerChanges ==
  /\ changes < MaxChanges /\ changes' = changes + 1
  /\ \/ store = 0 /\ store' = changes' + 1 /\ UNCHANGED model
     \/ store # 0 /\ store' = 0 /\ model' = 0
     \/ store # 0 /\ model' = changes' + 1 /\ UNCHANGED store
  /\ UNCHANGED <<faults, cache, pc, back, found, sid, mid>>

\* The tenant has a store with a model, and the cache knows no other store.
Settled ==
  /\ store # 0 /\ model # 0
  /\ cache.store \in {0, store} /\ cache.model.store \in {0, store}
=============================================================================
