---------------------------- MODULE TenantStores ----------------------------
(***************************************************************************)
(* GetStoreIDForTenant and GetModelIDForTenant of fga/helpers, which        *)
(* fga/store repeats: the ids of the tenants' stores and authorization      *)
(* models, of all tenants in one cache of few entries.  An entry expires a  *)
(* fixed time after it was put, however often it is read.  Several requests *)
(* look ids up at once, while stores and models come and go on the server.  *)
(***************************************************************************)
EXTENDS Lru

CONSTANTS
  Tenants,
  Requests,   \* the requests that are served at once
  Onboarded,  \* the tenants that have a store at first: sets of tenants
  CacheSize,  \* entries of the cache, ten in the code
  MaxChanges  \* bound on what changes outside of this process

ASSUME StoresAssumption ==
  /\ Onboarded \subseteq SUBSET Tenants
  /\ CacheSize \in Nat \ {0} /\ MaxChanges \in Nat

VARIABLES
  store,   \* store[t]: number of t's store, 0 if there is none
  model,   \* model[t]: number of its latest model, 0 if there is none
  changes, \* changes so far
  cache,   \* the cache of both kinds of ids
  old,     \* the keys whose entries are close to the end of their time
  pc,      \* pc[p]: where request p is
  tenant,  \* tenant[p]: the tenant in p's context, or None
  back,    \* back[p]: where p goes on when GetStoreIDForTenant returns
  found,   \* found[p]: what the server last told p, not yet in the cache
  sid,     \* sid[p]: the store id of p's check
  mid      \* mid[p]: the model id of p's check

serverIds == <<store, model>>
cacheVars == <<cache, old>>
localIds == <<back, found, sid, mid>>
storeVars == <<serverIds, changes, cacheVars, pc, tenant, localIds>>

None == "none"

\* A store belongs to a tenant, and a model to a store; NoStore and NoModel
\* stand for no id.
Store(t, n) == [tenant |-> t, num |-> n]
Model(s, n) == [store |-> s, num |-> n]
NoStore == Store(None, 0)
NoModel == Model(NoStore, 0)
CurrentStore(t) == Store(t, store[t])
CurrentModel(t) == Model(CurrentStore(t), model[t])

Numbers == 0..(MaxChanges + 1)
StoreIds == [tenant : Tenants, num : Numbers] \cup {NoStore}
ModelIds == [store : StoreIds, num : Numbers]
CacheKeys == {"tenant-", "model-"} \X Tenants

InitStores ==
  /\ \E ready \in Onboarded : store = [t \in Tenants |-> IF t \in ready THEN 1 ELSE 0]
  /\ model = store
  /\ changes = 0
  /\ cache = <<>> /\ old = {}
  /\ pc = [p \in Requests |-> "idle"]
  /\ tenant = [p \in Requests |-> None]
  /\ back = [p \in Requests |-> "modelGet"]
  /\ found = [p \in Requests |-> NoStore]
  /\ sid = [p \in Requests |-> NoStore] /\ mid = [p \in Requests |-> NoModel]

Goto(p, where) == pc' = [pc EXCEPT ![p] = where]

\* The call of p ends; what it knew is gone.
Return(p, how) ==
  /\ Goto(p, how)
  /\ tenant' = [tenant EXCEPT ![p] = None]
  /\ back' = [back EXCEPT ![p] = "modelGet"]
  /\ found' = [found EXCEPT ![p] = NoStore]
  /\ sid' = [sid EXCEPT ![p] = NoStore] /\ mid' = [mid EXCEPT ![p] = NoModel]

\* GetStoreIDForTenant is called, and the call goes on at next.
CallStoreId(p, next) ==
  /\ Goto(p, "storeGet")
  /\ back' = [back EXCEPT ![p] = next]

\* It returns s: the id of the check if the directive called it, and the store
\* whose models are read if GetModelIDForTenant did.
StoreIdReturns(p, s) ==
  /\ Goto(p, back[p])
  /\ sid' = IF back[p] = "modelGet" THEN [sid EXCEPT ![p] = s] ELSE sid
  /\ found' = [found EXCEPT ![p] = IF back[p] = "modelGet" THEN NoStore ELSE s]

StoreKey(p) == <<"tenant-", tenant[p]>>
ModelKey(p) == <<"model-", tenant[p]>>

\* A mutation of Hit: reading an entry gives it time again.
HitRenews(k) == /\ k \in Keys(cache)
                /\ cache' = Used(cache, k) /\ old' = old \ {k}

\* cache.Get finds k; what is returned is Val(cache, k).
Hit(k) == /\ k \in Keys(cache)
          /\ cache' = Used(cache, k) /\ UNCHANGED old

\* A mutation of Put: the entry that is pushed out is still expected to expire.
PutKeepsOld(k, id) ==
  /\ cache' = Added(cache, k, id, CacheSize)
  /\ old' = old \ {k}

\* cache.Add, with its time to live; an entry may be pushed out.
Put(k, id) ==
  /\ cache' = Added(cache, k, id, CacheSize)
  /\ old' = (old \ {k}) \cap Keys(cache')

-----------------------------------------------------------------------------
StoreCached(p) ==
  /\ pc[p] = "storeGet" /\ Hit(StoreKey(p))
  /\ StoreIdReturns(p, Val(cache, StoreKey(p)))
  /\ UNCHANGED <<serverIds, changes, tenant, back, mid>>

StoreNotCached(p) ==
  /\ pc[p] = "storeGet" /\ StoreKey(p) \notin Keys(cache)
  /\ Goto(p, "list")
  /\ UNCHANGED <<serverIds, changes, cacheVars, tenant, localIds>>

\* ListStores, and the search for the store that has the tenant's name.
ListStores(p) ==
  /\ pc[p] = "list"
  /\ IF store[tenant[p]] # 0
     THEN /\ Goto(p, "storeAdd") /\ found' = [found EXCEPT ![p] = CurrentStore(tenant[p])]
          /\ UNCHANGED <<tenant, back, sid, mid>>
     ELSE Return(p, "error")
  /\ UNCHANGED <<serverIds, changes, cacheVars>>

StoreAdd(p) ==
  /\ pc[p] = "storeAdd"
  /\ Put(StoreKey(p), found[p])
  /\ StoreIdReturns(p, found[p])
  /\ UNCHANGED <<serverIds, changes, tenant, back, mid>>

\* GetModelIDForTenant looks into the cache, and asks for the store again if
\* no model is there.
ModelCached(p) ==
  /\ pc[p] = "modelGet" /\ Hit(ModelKey(p))
  /\ mid' = [mid EXCEPT ![p] = Val(cache, ModelKey(p))]
  /\ Goto(p, "check")
  /\ UNCHANGED <<serverIds, changes, tenant, back, found, sid>>

ModelNotCached(p) ==
  /\ pc[p] = "modelGet" /\ ModelKey(p) \notin Keys(cache)
  /\ CallStoreId(p, "readModels")
  /\ UNCHANGED <<serverIds, changes, cacheVars, tenant, found, sid, mid>>

\* ReadAuthorizationModels: the latest model comes first.  The models of a
\* deleted store may be there still.
ReadModels(p) ==
  /\ pc[p] = "readModels"
  /\ LET own == found[p] = CurrentStore(tenant[p])
     IN  \/ /\ ~own \/ model[tenant[p]] # 0
            /\ Goto(p, "modelAdd")
            /\ mid' = [mid EXCEPT ![p] = IF own THEN CurrentModel(tenant[p])
                                               ELSE Model(found[p], found[p].num)]
            /\ found' = [found EXCEPT ![p] = NoStore]
            /\ UNCHANGED <<tenant, back, sid>>
         \/ (~own \/ model[tenant[p]] = 0) /\ Return(p, "error")
  /\ UNCHANGED <<serverIds, changes, cacheVars>>

ModelAdd(p) ==
  /\ pc[p] = "modelAdd"
  /\ Put(ModelKey(p), mid[p])
  /\ Goto(p, "check")
  /\ UNCHANGED <<serverIds, changes, tenant, back, found, sid, mid>>

LookUp(p) == \/ StoreCached(p) \/ StoreNotCached(p) \/ ListStores(p) \/ StoreAdd(p)
             \/ ModelCached(p) \/ ModelNotCached(p) \/ ReadModels(p) \/ ModelAdd(p)

-----------------------------------------------------------------------------
\* The time to live of an entry: it gets old, and expires.
Age(k) ==
  /\ k \in Keys(cache) \ old
  /\ old' = old \cup {k}
  /\ UNCHANGED <<serverIds, changes, cache, pc, tenant, localIds>>

Expire(k) ==
  /\ k \in old
  /\ old' = old \ {k} /\ cache' = Without(cache, k)
  /\ UNCHANGED <<serverIds, changes, pc, tenant, localIds>>

\* Whoever administers the server deletes the store of a tenant, makes one with
\* or without a model, perhaps in the place of another, or writes a new model.
ServerChanges ==
  /\ changes < MaxChanges /\ changes' = changes + 1
  /\ \E t \in Tenants :
       \/ /\ store' \in {[store EXCEPT ![t] = n] : n \in {0, changes' + 1} \ {store[t]}}
          /\ model' \in {[model EXCEPT ![t] = m] : m \in {0, store'[t]}}
       \/ /\ store[t] # 0
          /\ model' = [model EXCEPT ![t] = changes' + 1] /\ UNCHANGED store
  /\ UNCHANGED <<cacheVars, pc, tenant, localIds>>

\* The cache knows of no other store than the tenant's own.
Settled(t) ==
  /\ store[t] # 0
  /\ <<"tenant-", t>> \in Keys(cache) => Val(cache, <<"tenant-", t>>) = CurrentStore(t)
  /\ <<"model-", t>> \in Keys(cache) =>
       Val(cache, <<"model-", t>>).store = CurrentStore(t)

StoresTypeOK ==
  /\ store \in [Tenants -> Numbers] /\ model \in [Tenants -> Numbers]
  /\ changes \in 0..MaxChanges
  /\ cache \in Seq(CacheKeys \X (StoreIds \cup ModelIds)) /\ Len(cache) <= CacheSize
  /\ old \subseteq Keys(cache)
  /\ tenant \in [Requests -> Tenants \cup {None}]
  /\ back \in [Requests -> {"modelGet", "readModels"}]
  /\ found \in [Requests -> StoreIds] /\ sid \in [Requests -> StoreIds]
  /\ mid \in [Requests -> ModelIds]
=============================================================================
