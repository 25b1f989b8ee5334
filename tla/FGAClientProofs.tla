-------------------------- MODULE FGAClientProofs --------------------------
(* What the calls of FGAClient promise, for any callers, batches, tuples and *)
(* bounds.                                                                   *)
EXTENDS FGAClient, TLAPS

\* Where in a call its caller is: in StoreId, and in the loop over the batch.
Looking(p) == pc[p] \in {"storeGet", "list", "storeSet"}
InLoop(p) == pc[p] = "exists" \/ (Looking(p) /\ back[p] = "exists")

\* The outer StoreId of the call has returned.
HasStore(p) == \/ pc[p] \in {"exists", "modelGet", "readModels", "modelSet", "request"}
               \/ Looking(p) /\ back[p] = "readModels"

\* The loop has looked at the positions before pos; afterwards something is to
\* be done.
PosOK(p) ==
  /\ InLoop(p) => job[p].ifNeeded /\ pos[p] <= Len(Batch(p))
  /\ ~Rests(p) /\ ~job[p].ifNeeded => todo[p] = DOMAIN Batch(p)
  /\ ~Rests(p) /\ job[p].ifNeeded =>
       /\ todo[p] \subseteq 1..(pos[p] - 1)
       /\ ~InLoop(p) => pos[p] = Len(Batch(p)) + 1 /\ todo[p] # {}

\* No lookup comes back empty-handed.
FoundOK(p) ==
  /\ pc[p] \in {"storeSet", "readModels"} => found[p] # 0
  /\ pc[p] = "modelSet" => mid[p].store # 0
  /\ HasStore(p) => sid[p] # 0

CacheOK == cache.model.store = 0 => cache.model = NoModel

\* While the store is settled, a call works with that store and its models.
IdsOK(p) ==
  ~Rests(p) /\ luck[p] # "moved" =>
    /\ Settled
    /\ pc[p] \in {"storeSet", "readModels"} => found[p] = store
    /\ HasStore(p) => sid[p] = store
    /\ pc[p] \in {"modelSet", "request"} => mid[p].store = store

\* What was looked at was as wanted, or will be changed and, without a rival,
\* still needs it.
WorkOK(p) ==
  ~Rests(p) /\ luck[p] # "moved" /\ job[p].ifNeeded =>
    \A i \in 1..(pos[p] - 1) :
      /\ i \notin todo[p] => Batch(p)[i] \in seen[p]
      /\ i \in todo[p] /\ luck[p] = "good" => Needs(p, store, Batch(p)[i])

EndOK(p) ==
  /\ pc[p] = "ok" /\ job[p].ifNeeded /\ luck[p] # "moved"
       => Elements(Batch(p)) \subseteq seen[p]
  /\ pc[p] = "error" /\ luck[p] = "good"
       => \/ ~Distinct(Batch(p))
          \/ job[p].kind # "check" /\ ~job[p].ifNeeded /\ (Batch(p) = <<>> \/ seen[p] # {})

-----------------------------------------------------------------------------
\* The types of all but the histories.
Typed ==
  /\ store \in Ids /\ model \in Ids
  /\ changes \in 0..MaxChanges /\ faults \in 0..MaxFaults
  /\ cache \in [store : Ids, model : Models]
  /\ pc \in [Callers -> {"idle", "storeGet", "list", "storeSet", "modelGet", "readModels",
                         "modelSet", "exists", "request", "ok", "error"}]
  /\ back \in [Callers -> {"exists", "modelGet", "readModels"}]
  /\ found \in [Callers -> Ids] /\ sid \in [Callers -> Ids]
  /\ mid \in [Callers -> Models]
  /\ tuples \subseteq Stores \X Tuples
  /\ job \in [Callers -> Calls]
  /\ pos \in [Callers -> Nat] /\ todo \in [Callers -> SUBSET Nat]

Place(p) ==
  /\ pos[p] \in 1..(Len(Batch(p)) + 1) /\ todo[p] \subseteq DOMAIN Batch(p)
  /\ PosOK(p) /\ FoundOK(p)

Places == Typed /\ CacheOK /\ \A p \in Callers : Place(p)

\* A step of p that leaves the other callers where they are.
Frame(p) ==
  /\ job' = job
  /\ \A q \in Callers \ {p} :
       /\ pc'[q] = pc[q] /\ back'[q] = back[q] /\ found'[q] = found[q]
       /\ sid'[q] = sid[q] /\ mid'[q] = mid[q] /\ pos'[q] = pos[q] /\ todo'[q] = todo[q]

LEMMA OneCaller ==
  ASSUME Places, NEW p \in Callers, Frame(p), Typed', CacheOK', Place(p)'
  PROVE  Places'
  <1>1. \A q \in Callers \ {p} : Place(q)'
    BY DEF Places, Frame, Place, PosOK, FoundOK, InLoop, HasStore, Looking, Rests, Batch
  <1> QED
    BY <1>1 DEF Places

LEMMA LookUpFrame ==
  ASSUME Typed, NEW p \in Callers, LookUp(p), UNCHANGED batchVars
  PROVE  Frame(p) /\ Typed'
  <1> USE DEF Typed, Frame, Goto, serverIds, batchVars
  <1>1. CASE StoreCached(p)
    BY <1>1 DEF StoreCached, StoreIdReturns
  <1>2. CASE StoreNotCached(p)
    BY <1>2 DEF StoreNotCached
  <1>3. CASE ListStores(p)
    BY <1>3 DEF ListStores
  <1>4. CASE StoreSet(p)
    BY <1>4 DEF StoreSet, StoreIdReturns
  <1>5. CASE ModelCached(p)
    BY <1>5 DEF ModelCached
  <1>6. CASE ModelNotCached(p)
    BY <1>6 DEF ModelNotCached, CallStoreId
  <1>7. CASE ReadModels(p)
    <2>1. Model(store, model) \in Models
      BY DEF Models, Model
    <2>2. \/ Goto(p, "modelSet") /\ mid' = [mid EXCEPT ![p] = Model(store, model)]
          \/ Goto(p, "error") /\ UNCHANGED mid
      BY <1>7 DEF ReadModels
    <2>3. UNCHANGED <<serverIds, faults, cache, back, found, sid>>
      BY <1>7 DEF ReadModels
    <2> QED
      BY <2>1, <2>2, <2>3
  <1>8. CASE ReadOldModels(p)
    <2>1. PICK n \in 1..changes : mid' = [mid EXCEPT ![p] = Model(found[p], n)]
      BY <1>8 DEF ReadOldModels
    <2>2. Model(found[p], n) \in Models
      BY IdsAssumption DEF Models, Model, Ids
    <2> QED
      BY <1>8, <2>1, <2>2 DEF ReadOldModels
  <1>9. CASE ModelSet(p)
    BY <1>9 DEF ModelSet
  <1> QED
    BY <1>1, <1>2, <1>3, <1>4, <1>5, <1>6, <1>7, <1>8, <1>9 DEF LookUp

LEMMA LookUpPlaces ==
  ASSUME Places, NEW p \in Callers, LookUp(p), UNCHANGED batchVars
  PROVE  Places'
  <1>0. Frame(p) /\ Typed'
    BY LookUpFrame DEF Places
  <1>a. Place(p) /\ CacheOK /\ Typed
    BY DEF Places
  <1> SUFFICES Place(p)' /\ CacheOK'
    BY <1>0, OneCaller
  <1> USE <1>a DEF Place, Typed, Goto, serverIds, batchVars, PosOK, FoundOK, CacheOK,
              InLoop, HasStore, Looking, Rests, Batch
  <1>1. CASE StoreCached(p)
    BY <1>1 DEF StoreCached, StoreIdReturns
  <1>2. CASE StoreNotCached(p)
    BY <1>2 DEF StoreNotCached
  <1>3. CASE ListStores(p)
    BY <1>3 DEF ListStores
  <1>4. CASE StoreSet(p)
    BY <1>4 DEF StoreSet, StoreIdReturns
  <1>5. CASE ModelCached(p)
    BY <1>5 DEF ModelCached, Models, NoModel, Model
  <1>6. CASE ModelNotCached(p)
    BY <1>6 DEF ModelNotCached, CallStoreId
  <1>7. CASE ReadModels(p)
    BY <1>7 DEF ReadModels, Models, Model
  <1>8. CASE ReadOldModels(p)
    BY <1>8 DEF ReadOldModels, Models, Model
  <1>9. CASE ModelSet(p)
    BY <1>9 DEF ModelSet, Models
  <1> QED
    BY <1>1, <1>2, <1>3, <1>4, <1>5, <1>6, <1>7, <1>8, <1>9 DEF LookUp

\* What the loop has to do is in the batch.
LEMMA ExaminedFacts ==
  ASSUME Places, NEW p \in Callers, pc[p] = "exists"
  PROVE  /\ Examined(p) \subseteq 1..pos[p] /\ todo[p] \subseteq 1..(pos[p] - 1)
         /\ pos[p] <= Len(Batch(p)) /\ job[p].ifNeeded
         /\ DOMAIN Batch(p) = 1..Len(Batch(p)) /\ Len(Batch(p)) \in Nat
  <1>1. Batch(p) \in Seq(Tuples)
    BY DEF Places, Typed, Calls, Batch
  <1>2. DOMAIN Batch(p) = 1..Len(Batch(p)) /\ Len(Batch(p)) \in Nat
    BY <1>1
  <1>3. InLoop(p) /\ ~Rests(p) /\ pos[p] \in Nat
    <2>1. InLoop(p) /\ ~Rests(p)
      BY DEF InLoop, Looking, Rests
    <2>2. pos[p] \in Nat
      BY DEF Places, Typed
    <2> QED
      BY <2>1, <2>2
  <1>4. PosOK(p) /\ pos[p] \in 1..(Len(Batch(p)) + 1)
    BY DEF Places, Place
  <1>5. todo[p] \subseteq 1..(pos[p] - 1) /\ pos[p] <= Len(Batch(p)) /\ job[p].ifNeeded
    BY <1>3, <1>4 DEF PosOK
  <1> QED
    BY <1>2, <1>3, <1>4, <1>5 DEF Examined

\* A request names tuples of the batch in a store there may be.
LEMMA RequestTuples ==
  ASSUME Places, NEW p \in Callers, pc[p] = "request"
  PROVE  Applied(p) \subseteq Stores \X Tuples
  <1>1. Batch(p) \in Seq(Tuples)
    BY DEF Places, Typed, Calls, Batch
  <1>2. sid[p] \in Stores
    BY IdsAssumption DEF Places, Place, FoundOK, HasStore, Typed, Ids, Stores
  <1>3. Named(p) \subseteq Stores \X Tuples
    BY <1>1, <1>2 DEF Named, Places, Place
  <1>4. job[p].kind \in {"check", "write", "delete"}
    BY DEF Places, Typed, Calls
  <1> QED
    BY <1>3, <1>4 DEF Applied, Places, Typed

LEMMA CallFrame ==
  ASSUME Places, NEW p \in Callers,
         \/ Start(p) \/ Exists(p) \/ RequestServed(p) \/ RequestRefused(p)
         \/ Fault(p) \/ StoreGone(p)
  PROVE  Frame(p) /\ Typed'
  <1>0. Typed
    BY DEF Places
  <1> USE <1>0 DEF Typed, Frame, Goto, CallStoreId, serverIds, batchVars
  <1>1. CASE Start(p)
    <2>1. DOMAIN Batch(p) \subseteq Nat
      BY DEF Calls, Batch
    <2>2. NoModel \in Models /\ 0 \in Ids
      BY IdsAssumption DEF NoModel, Model, Models, Ids
    <2> QED
      BY <1>1, <2>1, <2>2 DEF Start
  <1>2. CASE Exists(p)
    <2>1. Examined(p) \in SUBSET Nat /\ pos[p] + 1 \in Nat
      BY <1>2, ExaminedFacts DEF Exists
    <2>2. \/ Goto(p, "storeGet") /\ back' = [back EXCEPT ![p] = "exists"]
          \/ Goto(p, "storeGet") /\ back' = [back EXCEPT ![p] = "modelGet"]
          \/ Goto(p, "ok") /\ UNCHANGED back
      BY <1>2 DEF Exists
    <2>3. UNCHANGED <<serverIds, faults, cache, found, sid, mid, tuples, job>>
          /\ pos' = [pos EXCEPT ![p] = @ + 1] /\ todo' = [todo EXCEPT ![p] = Examined(p)]
      BY <1>2 DEF Exists
    <2> QED
      BY <2>1, <2>2, <2>3
  <1>3. CASE RequestServed(p)
    <2>1. tuples' \subseteq Stores \X Tuples
      BY <1>3, RequestTuples DEF RequestServed
    <2>2. faults' \in 0..MaxFaults
      BY <1>3, IdsAssumption DEF RequestServed
    <2>3. Goto(p, "ok") \/ Goto(p, "error")
      BY <1>3 DEF RequestServed
    <2>4. UNCHANGED <<serverIds, cache, back, found, sid, mid, job, pos, todo>>
      BY <1>3 DEF RequestServed
    <2> QED
      BY <2>1, <2>2, <2>3, <2>4
  <1>4. CASE RequestRefused(p) \/ Fault(p) \/ StoreGone(p)
    <2>1. faults' \in 0..MaxFaults
      BY <1>4, IdsAssumption DEF RequestRefused, Fault, StoreGone
    <2>2. Goto(p, "error") /\ UNCHANGED <<serverIds, cache, back, found, sid, mid, batchVars>>
      BY <1>4 DEF RequestRefused, Fault, StoreGone
    <2> QED
      BY <2>1, <2>2
  <1> QED
    BY <1>1, <1>2, <1>3, <1>4

LEMMA CallPlaces ==
  ASSUME Places, NEW p \in Callers,
         \/ Start(p) \/ Exists(p) \/ RequestServed(p) \/ RequestRefused(p)
         \/ Fault(p) \/ StoreGone(p)
  PROVE  Places'
  <1>0. Frame(p) /\ Typed'
    BY CallFrame
  <1>a. Place(p) /\ CacheOK /\ Typed /\ Batch(p) \in Seq(Tuples)
    BY DEF Places, Typed, Calls, Batch
  <1>b. Batch(p)' = Batch(p)
    BY <1>0 DEF Frame, Batch
  <1> SUFFICES Place(p)' /\ CacheOK'
    BY <1>0, OneCaller
  <1> USE <1>a, <1>b DEF Place, Typed, Goto, CallStoreId, serverIds, batchVars, PosOK, FoundOK,
              CacheOK, InLoop, HasStore, Looking, Rests
  <1>1. CASE Start(p)
    <2>1. Batch(p) # <<>> => Len(Batch(p)) >= 1
      BY <1>a
    <2> QED
      BY <1>1, <2>1 DEF Start, Resting
  <1>2. CASE Exists(p)
    BY <1>2, ExaminedFacts DEF Exists
  <1>3. CASE RequestServed(p)
    BY <1>3 DEF RequestServed
  <1>4. CASE RequestRefused(p) \/ Fault(p) \/ StoreGone(p)
    BY <1>4, IdsAssumption DEF RequestRefused, Fault, StoreGone
  <1> QED
    BY <1>1, <1>2, <1>3, <1>4

LEMMA WorldPlaces ==
  ASSUME Places, World
  PROVE  Places'
  <1>1. UNCHANGED <<faults, pc, back, found, sid, mid, batchVars>>
    BY DEF World, Expire, ServerChanges
  <1>2. \A p \in Callers : Place(p)'
    BY <1>1 DEF batchVars, Places, Place, PosOK, FoundOK, InLoop, HasStore, Looking, Rests, Batch
  <1>3. CASE Expire
    <2>1. 0 \in Ids /\ NoModel \in Models
      BY IdsAssumption DEF Ids, Models, NoModel, Model
    <2>2. \/ cache' = [cache EXCEPT !.store = 0]
          \/ cache' = [cache EXCEPT !.model = NoModel]
      BY <1>3 DEF Expire
    <2>3. UNCHANGED serverIds
      BY <1>3 DEF Expire
    <2> QED
      BY <1>1, <1>2, <2>1, <2>2, <2>3 DEF Places, Typed, CacheOK, serverIds, batchVars
  <1>4. CASE ServerChanges
    <2>1. store' \in Ids /\ model' \in Ids /\ changes' \in 0..MaxChanges /\ cache' = cache
      BY <1>4, IdsAssumption DEF ServerChanges, Places, Typed, Ids
    <2> QED
      BY <1>1, <1>2, <2>1 DEF Places, Typed, CacheOK, batchVars
  <1> QED
    BY <1>3, <1>4 DEF World

LEMMA StepPlaces ==
  ASSUME Places, [Next]_vars
  PROVE  Places'
  <1>1. CASE UNCHANGED vars
    BY <1>1 DEF vars, callVars, idVars, serverIds, batchVars, Places, Typed, CacheOK, Place, PosOK,
                FoundOK, InLoop, HasStore, Looking, Rests, Batch
  <1>2. CASE \E p \in Callers : Step(p)
    BY <1>2, LookUpPlaces, CallPlaces DEF Step
  <1>3. CASE World
    BY <1>3, WorldPlaces
  <1> QED
    BY <1>1, <1>2, <1>3 DEF Next

-----------------------------------------------------------------------------
\* A call with luck has worked on a settled store all the time.
LEMMA LuckFacts ==
  ASSUME Track, NEW q \in Callers, pc'[q] # pc[q] \/ ~Rests(q),
         luck[q] \in {"good", "bad", "moved"}
  PROVE  /\ luck'[q] # "moved" => Settled' /\ (~Rests(q) => luck[q] # "moved")
         /\ luck'[q] = "good" => /\ ~Rests(q) => luck[q] = "good"
                                 /\ ~Rivals(q)
                                 /\ pc'[q] # pc[q] => faults' = faults
         /\ luck'[q] # "moved" => Wanted(q)' \subseteq seen'[q]
         /\ luck'[q] # "moved" /\ ~Rests(q) => seen[q] \subseteq seen'[q]
  <1>1. luck'[q] = Luck(q)
    BY DEF Track
  <1>2. Luck(q) # "moved" =>
          seen'[q] = (IF Rests(q) THEN {} ELSE seen[q]) \cup Wanted(q)'
    BY DEF Track
  <1>3. Luck(q) # "moved" => Settled' /\ (~Rests(q) => luck[q] # "moved")
    BY DEF Luck
  <1>4. Luck(q) = "good" => /\ ~Rests(q) => luck[q] # "moved" /\ luck[q] # "bad"
                            /\ ~Rivals(q)
                            /\ pc'[q] # pc[q] => faults' = faults
    BY DEF Luck
  <1> QED
    BY <1>1, <1>2, <1>3, <1>4 DEF Luck

LEMMA StoreStays ==
  ASSUME [Next]_vars, Settled, Settled'
  PROVE  store' = store
  <1>1. \A p \in Callers : LookUp(p) => UNCHANGED serverIds
    BY DEF LookUp, StoreCached, StoreNotCached, ListStores, StoreSet, ModelCached, ModelNotCached,
           ModelSet, ReadModels, ReadOldModels
  <1>2. \A p \in Callers : Step(p) => UNCHANGED serverIds
    BY <1>1 DEF Step, Start, Exists, RequestServed, RequestRefused, Fault, StoreGone
  <1>3. World => store' = store
    BY DEF World, Expire, ServerChanges, Settled, serverIds
  <1> QED
    BY <1>2, <1>3 DEF Next, vars, callVars, idVars, serverIds

Calling(p) == IdsOK(p) /\ WorkOK(p) /\ EndOK(p)

\* A caller that stands still while something else happens.
LEMMA StandsStill ==
  ASSUME Places, Places', Track, [Next]_vars, NEW q \in Callers, Calling(q),
         luck[q] \in {"good", "bad", "moved"}, job' = job,
         pc'[q] = pc[q], back'[q] = back[q], found'[q] = found[q], sid'[q] = sid[q],
         mid'[q] = mid[q], pos'[q] = pos[q], todo'[q] = todo[q]
  PROVE  Calling(q)'
  <1>0. Rests(q)' = Rests(q) /\ Batch(q)' = Batch(q)
    BY DEF Rests, Batch
  <1>1. CASE Rests(q)
    <2>1. luck'[q] = luck[q] /\ seen'[q] = seen[q]
      BY <1>1 DEF Track
    <2> QED
      BY <1>0, <1>1, <2>1 DEF Calling, IdsOK, WorkOK, EndOK
  <1>2. CASE ~Rests(q)
    <2>1. EndOK(q)'
      BY <1>0, <1>2 DEF EndOK, Rests
    <2> SUFFICES ASSUME luck'[q] # "moved" PROVE (IdsOK(q) /\ WorkOK(q))'
      BY <1>0, <2>1 DEF Calling, IdsOK, WorkOK
    <2>2. luck[q] # "moved" /\ Settled' /\ seen[q] \subseteq seen'[q]
          /\ (luck'[q] = "good" => luck[q] = "good" /\ ~Rivals(q))
      BY <1>2, LuckFacts
    <2>3. Settled /\ store' = store
      BY <1>2, <2>2, StoreStays DEF Calling, IdsOK
    <2>4. IdsOK(q)'
      BY <1>2, <2>2, <2>3 DEF Calling, IdsOK, HasStore, Looking
    <2>5. ASSUME luck'[q] = "good", NEW i \in 1..(pos[q] - 1), i \in todo[q],
                 Needs(q, store, Batch(q)[i])
          PROVE  Needs(q, store, Batch(q)[i])'
      <3>1. Batch(q)[i] \in Elements(Batch(q)) /\ store \in Stores
        BY <2>3, <2>5, IdsAssumption DEF Elements, Places, Typed, Place, Settled, Ids, Stores
      <3>2. (<<store, Batch(q)[i]>> \in tuples) = (<<store, Batch(q)[i]>> \in tuples')
        BY <2>2, <2>5, <3>1 DEF Rivals
      <3> QED
        BY <1>0, <2>3, <2>5, <3>2 DEF Needs
    <2>6. WorkOK(q)'
      BY <1>0, <1>2, <2>2, <2>3, <2>5 DEF Calling, WorkOK
    <2> QED
      BY <2>4, <2>6
  <1> QED
    BY <1>1, <1>2

\* StoreId and ModelId bring the ids of the settled store.
LEMMA LookUpIds ==
  ASSUME Places, Track, [Next]_vars, NEW p \in Callers, LookUp(p), UNCHANGED batchVars,
         IdsOK(p), luck[p] \in {"good", "bad", "moved"}
  PROVE  IdsOK(p)' /\ (pc'[p] = "error" => luck'[p] = "moved") /\ pc'[p] # "ok"
  <1>0. ~Rests(p) /\ UNCHANGED <<serverIds, tuples>> /\ pc'[p] # pc[p]
        /\ pc[p] \in {"storeGet", "list", "storeSet", "modelGet", "readModels", "modelSet"}
    BY DEF LookUp, StoreCached, StoreNotCached, ListStores, StoreSet, ModelCached, ModelNotCached,
           ModelSet, ReadModels, ReadOldModels, Rests, batchVars, StoreIdReturns, Goto, CallStoreId,
           Places, Typed
  <1>1. luck'[p] # "moved" => Settled' /\ luck[p] # "moved"
    BY <1>0, LuckFacts
  <1>2. pc'[p] = "error" => ~Settled'
    BY DEF LookUp, StoreCached, StoreNotCached, ListStores, StoreSet, ModelCached, ModelNotCached,
           ModelSet, ReadModels, ReadOldModels, StoreIdReturns, Goto, CallStoreId,
           Places, Typed, Settled, serverIds
  <1>3. pc'[p] # "ok"
    BY DEF LookUp, StoreCached, StoreNotCached, ListStores, StoreSet, ModelCached, ModelNotCached,
           ModelSet, ReadModels, ReadOldModels, StoreIdReturns, Goto, CallStoreId, Places, Typed
  <1>4. ASSUME luck'[p] # "moved" PROVE IdsOK(p)'
    <2>0. Settled /\ Settled' /\ luck[p] # "moved" /\ store' = store /\ CacheOK
      BY <1>0, <1>1, <1>4 DEF IdsOK, serverIds, Places
    <2>a. IdsOK(p) /\ Typed
      BY DEF Places
    <2> USE <1>0, <2>0, <2>a DEF IdsOK, Typed, HasStore, Looking, Goto, serverIds
    <2>1. CASE StoreCached(p)
      BY <2>1 DEF StoreCached, StoreIdReturns, Settled
    <2>2. CASE StoreNotCached(p)
      BY <2>2 DEF StoreNotCached
    <2>3. CASE ListStores(p)
      BY <2>3 DEF ListStores
    <2>4. CASE StoreSet(p)
      BY <2>4 DEF StoreSet, StoreIdReturns
    <2>5. CASE ModelCached(p)
      BY <2>5 DEF ModelCached, Settled, CacheOK
    <2>6. CASE ModelNotCached(p)
      BY <2>6 DEF ModelNotCached, CallStoreId
    <2>7. CASE ReadModels(p)
      <3>1. Model(store, model).store = store
        BY DEF Model
      <3> QED
        BY <2>7, <3>1 DEF ReadModels
    <2>8. CASE ReadOldModels(p)
      BY <2>8 DEF ReadOldModels, Rests
    <2>9. CASE ModelSet(p)
      BY <2>9 DEF ModelSet
    <2> QED
      BY <2>1, <2>2, <2>3, <2>4, <2>5, <2>6, <2>7, <2>8, <2>9 DEF LookUp
  <1> QED
    BY <1>1, <1>2, <1>3, <1>4, LuckFacts, <1>0 DEF IdsOK

LEMMA LookUpKeeps ==
  ASSUME Places, Track, [Next]_vars, NEW p \in Callers, LookUp(p), UNCHANGED batchVars,
         Calling(p), luck[p] \in {"good", "bad", "moved"}
  PROVE  Calling(p)'
  <1>1. IdsOK(p)' /\ (pc'[p] = "error" => luck'[p] = "moved") /\ pc'[p] # "ok"
    BY LookUpIds DEF Calling
  <1>2. EndOK(p)'
    BY <1>1 DEF EndOK
  <1>3. ~Rests(p) /\ UNCHANGED <<tuples, job, pos, todo, store>>
    BY DEF LookUp, StoreCached, StoreNotCached, ListStores, StoreSet, ModelCached, ModelNotCached,
           ModelSet, ReadModels, ReadOldModels, Rests, batchVars, serverIds
  <1>4. luck'[p] # "moved" => /\ luck[p] # "moved" /\ seen[p] \subseteq seen'[p]
                              /\ luck'[p] = "good" => luck[p] = "good"
    BY <1>3, LuckFacts
  <1>5. WorkOK(p)'
    BY <1>3, <1>4 DEF Calling, WorkOK, Needs, Batch
  <1> QED
    BY <1>1, <1>2, <1>5 DEF Calling

LEMMA StartKeeps ==
  ASSUME Places, Track, [Next]_vars, NEW p \in Callers, Start(p),
         luck[p] \in {"good", "bad", "moved"}
  PROVE  Calling(p)'
  <1>0. Typed /\ Batch(p)' = Batch(p) /\ job' = job
    BY DEF Places, Start, Batch
  <1>1. pc'[p] # pc[p] /\ Rests(p)
    BY <1>0 DEF Start, Resting, Rests, Goto, CallStoreId, Typed
  <1>2. luck'[p] # "moved" => Settled'
    BY <1>1, LuckFacts
  <1>3. \/ pc'[p] = "storeGet" /\ back'[p] \in {"exists", "modelGet"}
        \/ pc'[p] = "ok" /\ Batch(p) = <<>>
    BY <1>0 DEF Start, Goto, CallStoreId, Typed
  <1>4. IdsOK(p)'
    BY <1>2, <1>3 DEF IdsOK, HasStore, Looking, Rests
  <1>5. pos'[p] = 1
    BY <1>0 DEF Start, Typed
  <1>6. WorkOK(p)'
    BY <1>5 DEF WorkOK
  <1>7. EndOK(p)'
    BY <1>0, <1>3 DEF EndOK, Elements
  <1> QED
    BY <1>4, <1>6, <1>7 DEF Calling

LEMMA ExistsKeeps ==
  ASSUME Places, Track, [Next]_vars, NEW p \in Callers, Exists(p),
         Calling(p), luck[p] \in {"good", "bad", "moved"}
  PROVE  Calling(p)'
  <1> DEFINE t == Batch(p)[pos[p]]
  <1>0. Typed /\ Batch(p)' = Batch(p) /\ job' = job /\ pc[p] = "exists" /\ ~Rests(p)
        /\ UNCHANGED <<store, tuples, sid, mid, found, cache, model>>
    BY DEF Places, Exists, Batch, Rests, serverIds
  <1>1. \/ pc'[p] = "storeGet" /\ back'[p] \in {"exists", "modelGet"}
        \/ pc'[p] = "ok" /\ Examined(p) = {} /\ pos[p] >= Len(Batch(p))
    BY <1>0, ExaminedFacts DEF Exists, Goto, CallStoreId, Typed
  <1>2. pos'[p] = pos[p] + 1 /\ todo'[p] = Examined(p) /\ pos[p] \in Nat
    BY <1>0 DEF Exists, Typed
  <1>3. ASSUME luck'[p] # "moved"
        PROVE  /\ luck[p] # "moved" /\ Settled' /\ seen[p] \subseteq seen'[p]
               /\ luck'[p] = "good" => luck[p] = "good"
               /\ Wanted(p)' \subseteq seen'[p] /\ sid[p] = store /\ store # 0
    <2>1. pc'[p] # pc[p]
      BY <1>0, <1>1
    <2>2. /\ luck[p] # "moved" /\ Settled' /\ seen[p] \subseteq seen'[p]
          /\ luck'[p] = "good" => luck[p] = "good"
          /\ Wanted(p)' \subseteq seen'[p]
      BY <1>0, <1>3, <2>1, LuckFacts
    <2>3. sid[p] = store /\ Settled
      BY <1>0, <2>2 DEF Calling, IdsOK, HasStore
    <2> QED
      BY <2>2, <2>3 DEF Settled
  <1>4. IdsOK(p)'
    BY <1>1, <1>3 DEF IdsOK, HasStore, Looking, Rests
  <1>5. ASSUME luck'[p] # "moved", ~Needs(p, sid[p], t) PROVE t \in seen'[p]
    <2>1. t \in Elements(Batch(p))
      BY <1>0, <1>2, ExaminedFacts DEF Elements, Places, Place
    <2>2. t \in Wanted(p)'
      BY <1>0, <1>3, <1>5, <2>1 DEF Wanted, Needs
    <2> QED
      BY <1>3, <1>5, <2>2
  <1>6. ASSUME luck'[p] # "moved", NEW i \in 1..pos[p]
        PROVE  /\ i \notin Examined(p) => Batch(p)[i] \in seen'[p]
               /\ i \in Examined(p) /\ luck'[p] = "good" => Needs(p, store, Batch(p)[i])
    <2>1. job[p].ifNeeded
      BY <1>0, ExaminedFacts
    <2>2. CASE i = pos[p]
      <3>1. pos[p] \notin todo[p]
        BY <1>0, <1>2, ExaminedFacts
      <3> QED
        BY <1>3, <1>5, <1>6, <2>2, <3>1 DEF Examined
    <2>3. CASE i \in 1..(pos[p] - 1)
      <3>1. /\ i \notin todo[p] => Batch(p)[i] \in seen[p]
            /\ i \in todo[p] /\ luck[p] = "good" => Needs(p, store, Batch(p)[i])
        BY <1>0, <1>3, <1>6, <2>1, <2>3 DEF Calling, WorkOK
      <3>2. i # pos[p]
        BY <1>2, <2>3
      <3> QED
        BY <1>3, <1>6, <3>1, <3>2 DEF Examined
    <2> QED
      BY <1>2, <2>2, <2>3
  <1>7. WorkOK(p)'
    <2>1. \A i : Needs(p, store, Batch(p)[i])' = Needs(p, store, Batch(p)[i])
      BY <1>0 DEF Needs
    <2> QED
      BY <1>0, <1>2, <1>6, <2>1 DEF WorkOK
  <1>8. EndOK(p)'
    <2>1. Elements(Batch(p)) = {Batch(p)[i] : i \in 1..Len(Batch(p))}
      BY <1>0, ExaminedFacts DEF Elements
    <2>2. pos[p] = Len(Batch(p)) \/ pc'[p] # "ok"
      BY <1>0, <1>1, <1>2, ExaminedFacts
    <2>3. pc'[p] = "ok" /\ luck'[p] # "moved" => Elements(Batch(p)) \subseteq seen'[p]
      BY <1>1, <1>6, <2>1, <2>2
    <2> QED
      BY <1>0, <1>1, <2>3 DEF EndOK
  <1> QED
    BY <1>4, <1>7, <1>8 DEF Calling

\* A refused request named a tuple that did not need the change, or one twice.
LEMMA RefusedKeeps ==
  ASSUME Places, Track, [Next]_vars, NEW p \in Callers, RequestRefused(p),
         Calling(p), luck[p] \in {"good", "bad", "moved"}
  PROVE  EndOK(p)'
  <1>0. Typed /\ Batch(p)' = Batch(p) /\ job' = job /\ pc[p] = "request" /\ ~Rests(p)
        /\ UNCHANGED <<store, tuples, todo>> /\ pc'[p] = "error" /\ ~Acceptable(p)
    BY DEF Places, RequestRefused, Batch, Rests, serverIds, batchVars, Goto, Typed
  <1> SUFFICES ASSUME luck'[p] = "good", Distinct(Batch(p))
               PROVE  job[p].kind # "check" /\ ~job[p].ifNeeded
                      /\ (Batch(p) = <<>> \/ seen'[p] # {})
    BY <1>0 DEF EndOK
  <1>1. luck[p] = "good" /\ Wanted(p)' \subseteq seen'[p]
    BY <1>0, LuckFacts
  <1>2. Settled /\ sid[p] = store /\ mid[p].store = store
    BY <1>0, <1>1 DEF Calling, IdsOK, HasStore
  <1>3. /\ PosOK(p) /\ ~InLoop(p) /\ todo[p] \subseteq DOMAIN Batch(p)
        /\ Batch(p) \in Seq(Tuples)
    BY <1>0 DEF Places, Place, InLoop, Looking, Typed, Calls, Batch
  <1>4. DOMAIN Batch(p) = 1..Len(Batch(p)) /\ Len(Batch(p)) \in Nat
    BY <1>3
  <1>5. \A i, k \in todo[p] : Batch(p)[i] = Batch(p)[k] => i = k
    BY <1>3 DEF Distinct
  <1>6. /\ job[p].kind # "check"
        /\ todo[p] = {} \/ \E i \in todo[p] : ~Needs(p, store, Batch(p)[i])
    BY <1>0, <1>2, <1>5 DEF Acceptable
  <1>7. ~job[p].ifNeeded
    <2> SUFFICES ASSUME job[p].ifNeeded PROVE FALSE
      OBVIOUS
    <2>1. pos[p] = Len(Batch(p)) + 1 /\ todo[p] # {}
      BY <1>0, <1>3 DEF PosOK
    <2>2. \A i \in todo[p] : Needs(p, store, Batch(p)[i])
      BY <1>0, <1>1, <1>3, <1>4, <2>1 DEF Calling, WorkOK
    <2> QED
      BY <1>6, <2>1, <2>2
  <1>8. todo[p] = DOMAIN Batch(p)
    BY <1>0, <1>3, <1>7 DEF PosOK
  <1>9. CASE todo[p] = {}
    <2>1. Len(Batch(p)) = 0
      BY <1>4, <1>8, <1>9
    <2>2. Batch(p) = <<>>
      BY <1>3, <2>1
    <2> QED
      BY <1>6, <1>7, <2>2
  <1>10. CASE \E i \in todo[p] : ~Needs(p, store, Batch(p)[i])
    <2>1. PICK i \in DOMAIN Batch(p) : ~Needs(p, store, Batch(p)[i])
      BY <1>8, <1>10
    <2>2. Batch(p)[i] \in Wanted(p)'
      BY <1>0, <1>2, <2>1 DEF Wanted, Elements, Settled, Needs
    <2> QED
      BY <1>1, <1>6, <1>7, <2>2
  <1> QED
    BY <1>6, <1>9, <1>10

\* A served request makes its tuples as wanted.
LEMMA ServedKeeps ==
  ASSUME Places, Track, [Next]_vars, NEW p \in Callers, RequestServed(p),
         Calling(p), luck[p] \in {"good", "bad", "moved"}
  PROVE  EndOK(p)'
  <1>0. Typed /\ Batch(p)' = Batch(p) /\ job' = job /\ pc[p] = "request" /\ ~Rests(p)
        /\ UNCHANGED <<store, todo>> /\ tuples' = Applied(p)
        /\ (pc'[p] = "ok" \/ (pc'[p] = "error" /\ faults' # faults))
    BY DEF Places, RequestServed, Batch, Rests, serverIds, Goto, Typed
  <1>1. luck'[p] = "good" => pc'[p] # "error"
    BY <1>0, LuckFacts
  <1>2. ASSUME pc'[p] = "ok", job[p].ifNeeded, luck'[p] # "moved", NEW i \in DOMAIN Batch(p)
        PROVE  Batch(p)[i] \in seen'[p]
    <2>1. luck[p] # "moved" /\ seen[p] \subseteq seen'[p] /\ Wanted(p)' \subseteq seen'[p]
      BY <1>0, <1>2, LuckFacts
    <2>2. Settled /\ sid[p] = store
      BY <1>0, <2>1 DEF Calling, IdsOK, HasStore
    <2>3. CASE i \in todo[p]
      <3>1. <<store, Batch(p)[i]>> \in Named(p)
        BY <2>2, <2>3 DEF Named
      <3>2. job[p].kind \in {"write", "delete"}
        <4>1. job[p].kind \in {"check", "write", "delete"}
          BY <1>0 DEF Typed, Calls
        <4>2. job[p].kind # "check"
          BY <1>0, <1>2 DEF Places, Typed, Calls
        <4> QED
          BY <4>1, <4>2
      <3>3. ~Needs(p, store, Batch(p)[i])'
        BY <1>0, <3>1, <3>2 DEF Needs, Applied
      <3>4. Batch(p)[i] \in Wanted(p)'
        BY <1>0, <1>2, <2>2, <3>3 DEF Wanted, Elements, Settled, Needs
      <3> QED
        BY <2>1, <3>4
    <2>4. CASE i \notin todo[p]
      <3>1. PosOK(p) /\ ~InLoop(p) /\ Batch(p) \in Seq(Tuples)
        BY <1>0 DEF Places, Place, InLoop, Looking, Typed, Calls, Batch
      <3>2. pos[p] = Len(Batch(p)) + 1 /\ DOMAIN Batch(p) = 1..Len(Batch(p))
            /\ Len(Batch(p)) \in Nat
        BY <1>0, <1>2, <3>1 DEF PosOK
      <3>3. i \in 1..(pos[p] - 1)
        BY <3>2
      <3> QED
        BY <1>0, <1>2, <2>1, <2>4, <3>3 DEF Calling, WorkOK
    <2> QED
      BY <2>3, <2>4
  <1>3. pc'[p] = "ok" /\ job[p].ifNeeded /\ luck'[p] # "moved"
          => Elements(Batch(p)) \subseteq seen'[p]
    BY <1>2 DEF Elements
  <1> QED
    BY <1>0, <1>1, <1>3 DEF EndOK

\* A call that ends in this way ends without luck.
LEMMA FailedKeeps ==
  ASSUME Places, Track, [Next]_vars, NEW p \in Callers, Fault(p) \/ StoreGone(p),
         Calling(p), luck[p] \in {"good", "bad", "moved"}
  PROVE  EndOK(p)'
  <1>0. Typed /\ pc[p] \in {"list", "readModels", "exists", "request"}
        /\ ~Rests(p) /\ pc'[p] = "error"
    BY DEF Places, Fault, StoreGone, Rests, Goto, Typed
  <1> SUFFICES luck'[p] # "good"
    BY <1>0 DEF EndOK
  <1>1. CASE Fault(p)
    <2>1. faults' # faults
      BY <1>0, <1>1 DEF Fault, Typed
    <2> QED
      BY <1>0, <2>1, LuckFacts
  <1>2. CASE StoreGone(p)
    <2>1. luck[p] = "moved"
      BY <1>0, <1>2 DEF StoreGone, Calling, IdsOK, HasStore
    <2> QED
      BY <1>0, <2>1, LuckFacts
  <1> QED
    BY <1>1, <1>2

LEMMA ActorKeeps ==
  ASSUME Places, Places', Track, [Next]_vars, NEW p \in Callers, Step(p),
         Calling(p), luck[p] \in {"good", "bad", "moved"}
  PROVE  Calling(p)'
  <1>1. CASE LookUp(p) /\ UNCHANGED batchVars
    BY <1>1, LookUpKeeps
  <1>2. CASE Start(p)
    BY <1>2, StartKeeps
  <1>3. CASE Exists(p)
    BY <1>3, ExistsKeeps
  <1>4. CASE RequestServed(p) \/ RequestRefused(p) \/ Fault(p) \/ StoreGone(p)
    <2>1. EndOK(p)'
      BY <1>4, ServedKeeps, RefusedKeeps, FailedKeeps
    <2>2. pc'[p] \in {"ok", "error"}
      BY <1>4 DEF RequestServed, RequestRefused, Fault, StoreGone, Goto, Places, Typed
    <2> QED
      BY <2>1, <2>2 DEF Calling, IdsOK, WorkOK, Rests
  <1> QED
    BY <1>1, <1>2, <1>3, <1>4 DEF Step

\* The inductive invariant.
Histories ==
  /\ luck \in [Callers -> {"good", "bad", "moved"}]
  /\ seen \in [Callers -> SUBSET Tuples]

CallInv == Places /\ Histories /\ \A p \in Callers : Calling(p)

LEMMA HistoryTypes ==
  ASSUME Places, Places', Histories, Track, job' = job
  PROVE  Histories'
  <1>1. \A p \in Callers : Luck(p) \in {"good", "bad", "moved"}
    BY DEF Luck
  <1>2. \A p \in Callers : Elements(Batch(p))' \subseteq Tuples
    <2> SUFFICES ASSUME NEW p \in Callers PROVE Elements(Batch(p)') \subseteq Tuples
      BY DEF Elements
    <2>1. Batch(p)' \in Seq(Tuples)
      BY DEF Places, Typed, Calls, Batch
    <2> QED
      BY <2>1 DEF Elements
  <1>3. \A p \in Callers : Wanted(p)' \subseteq Tuples
    BY <1>2 DEF Wanted
  <1>4. luck' \in [Callers -> {"good", "bad", "moved"}]
    BY <1>1 DEF Track, Histories
  <1>5. seen' \in [Callers -> SUBSET Tuples]
    BY <1>3 DEF Track, Histories
  <1> QED
    BY <1>4, <1>5 DEF Histories

LEMMA CallInit == Init => CallInv
  <1> SUFFICES ASSUME Init PROVE CallInv
    OBVIOUS
  <1>1. Typed
    <2>1. store \in Ids /\ model \in Ids /\ changes \in 0..MaxChanges /\ faults \in 0..MaxFaults
      BY IdsAssumption DEF Init, InitIds, Ids
    <2>2. cache \in [store : Ids, model : Models] /\ NoModel \in Models
      BY IdsAssumption DEF Init, InitIds, Ids, Models, NoModel, Model
    <2>3. job \in [Callers -> Calls]
      BY JobsAssumption DEF Init
    <2>4. tuples \subseteq Stores \X Tuples
      BY DEF Init
    <2> QED
      BY <2>1, <2>2, <2>3, <2>4, IdsAssumption DEF Init, InitIds, Typed, Ids
  <1>2. CacheOK
    BY DEF CacheOK, Init, InitIds
  <1>3. \A p \in Callers : Place(p)
    <2> SUFFICES ASSUME NEW p \in Callers PROVE Place(p)
      OBVIOUS
    <2>1. Batch(p) \in Seq(Tuples)
      BY <1>1 DEF Typed, Calls, Batch
    <2>2. Len(Batch(p)) \in Nat
      BY <2>1
    <2>3. pc[p] = "idle" /\ pos[p] = 1 /\ todo[p] = {}
      BY DEF Init, InitIds
    <2> QED
      BY <2>2, <2>3 DEF Place, PosOK, FoundOK, InLoop, HasStore, Looking, Rests
  <1>4. Histories
    BY DEF Histories, Init
  <1>5. \A p \in Callers : Calling(p)
    BY DEF Calling, IdsOK, WorkOK, EndOK, Rests, Init, InitIds
  <1> QED
    BY <1>1, <1>2, <1>3, <1>4, <1>5 DEF CallInv, Places

LEMMA CallInductive == Spec => []CallInv
  <1>1. CallInv /\ [Next]_vars => CallInv'
    <2> SUFFICES ASSUME CallInv, [Next]_vars PROVE CallInv'
      OBVIOUS
    <2>1. Places'
      BY StepPlaces DEF CallInv
    <2>2. CASE UNCHANGED vars
      BY <2>1, <2>2 DEF CallInv, Histories, Calling, IdsOK, WorkOK, EndOK, Rests, HasStore, Looking,
                        Needs, Batch, Settled, vars, callVars, idVars, serverIds, batchVars
    <2>3. ASSUME NEW p \in Callers, Step(p), Track PROVE CallInv'
      <3>1. Frame(p)
        BY <2>3, LookUpFrame, CallFrame DEF CallInv, Places, Step
      <3>2. Histories'
        BY <2>1, <2>3, <3>1, HistoryTypes DEF CallInv, Frame
      <3>3. Calling(p)'
        BY <2>1, <2>3, ActorKeeps DEF CallInv, Histories
      <3>4. ASSUME NEW q \in Callers \ {p} PROVE Calling(q)'
        <4>1. Calling(q) /\ luck[q] \in {"good", "bad", "moved"} /\ Places
          BY DEF CallInv, Histories
        <4>2. /\ job' = job
              /\ pc'[q] = pc[q] /\ back'[q] = back[q] /\ found'[q] = found[q]
              /\ sid'[q] = sid[q] /\ mid'[q] = mid[q] /\ pos'[q] = pos[q] /\ todo'[q] = todo[q]
          BY <3>1 DEF Frame
        <4> QED
          BY <2>1, <2>3, <4>1, <4>2, StandsStill
      <3> QED
        BY <2>1, <3>2, <3>3, <3>4 DEF CallInv
    <2>4. CASE World /\ Track
      <3>1. UNCHANGED <<pc, back, found, sid, mid, pos, todo, job>>
        BY <2>4 DEF World, Expire, ServerChanges, batchVars
      <3>2. Histories'
        BY <2>1, <2>4, <3>1, HistoryTypes DEF CallInv
      <3>3. ASSUME NEW q \in Callers PROVE Calling(q)'
        <4>1. Calling(q) /\ luck[q] \in {"good", "bad", "moved"} /\ Places
          BY DEF CallInv, Histories
        <4> QED
          BY <2>1, <2>4, <3>1, <4>1, StandsStill
      <3> QED
        BY <2>1, <3>2, <3>3 DEF CallInv
    <2> QED
      BY <2>2, <2>3, <2>4 DEF Next
  <1> QED
    BY <1>1, CallInit, PTL DEF Spec

\* WriteIfNeeded and DeleteIfNeeded that return no error, while the tenant keeps
\* its store, found each tuple of the batch as wanted or made it so.
THEOREM BatchesEnsured == Spec => []Ensured
  <1>1. CallInv => Ensured
    BY DEF CallInv, Calling, EndOK, Ensured
  <1> QED
    BY <1>1, CallInductive, PTL

\* Check, Writes and the calls on batches fail only by a failed request, a
\* rival, an unsettled store or their own batch.
THEOREM FailuresAreExplained == Spec => []FailuresExplained
  <1>1. CallInv => FailuresExplained
    BY DEF CallInv, Calling, EndOK, FailuresExplained
  <1> QED
    BY <1>1, CallInductive, PTL

\* The variables of the client and the server keep their types, and the loop
\* over a batch never looks behind its end.
THEOREM ClientTypes == Spec => []TypeOK
  <1>1. CallInv => TypeOK
    BY DEF CallInv, Histories, Places, Typed, Place, PosOK, InLoop, TypeOK
  <1> QED
    BY <1>1, CallInductive, PTL
=============================================================================
