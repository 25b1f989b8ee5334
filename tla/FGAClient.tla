----------------------------- MODULE FGAClient -----------------------------
(***************************************************************************)
(* The calls of OpenFGAClient: Check, Writes (with Write and Delete), and   *)
(* WriteIfNeeded and DeleteIfNeeded, which ask for each tuple whether it is *)
(* there and then write or delete, in one request, those that need it.  A   *)
(* call that returned an error is made again, as a reconciler does.         *)
(***************************************************************************)
EXTENDS TenantIds, Sequences

CONSTANTS
  Tuples, \* relationship tuples
  Jobs    \* the calls callers make: ways to give each caller one

Calls == {c \in [kind : {"check", "write", "delete"}, ifNeeded : BOOLEAN, batch : Seq(Tuples)] :
            c.kind = "check" => ~c.ifNeeded}

ASSUME JobsAssumption == Jobs \subseteq [Callers -> Calls]

VARIABLES
  tuples, \* the tuples of every store, as pairs
  job,    \* job[p]: the call p makes
  pos,    \* pos[p]: the position in the batch that is looked at next
  todo,   \* todo[p]: the positions of the tuples to write or delete
  luck,   \* luck[p]: what befell p's call so far (history)
  seen    \* seen[p]: tuples that were as p wants them in the tenant's store at
          \* some time of the call, unless the store moved (history)

batchVars == <<tuples, job, pos, todo>>
callVars == <<idVars, batchVars>>
vars == <<callVars, luck, seen>>

Stores == 1..(MaxChanges + 1)
Batch(p) == job[p].batch
Elements(b) == {b[i] : i \in DOMAIN b}

\* Whether tuple t of store s is not as caller p wants it.
Needs(p, s, t) == (<<s, t>> \in tuples) = (job[p].kind = "delete")

Init ==
  /\ InitIds
  /\ tuples \in SUBSET (({store} \cap Stores) \X Tuples)
  /\ job \in Jobs
  /\ pos = [p \in Callers |-> 1] /\ todo = [p \in Callers |-> {}]
  /\ luck = [p \in Callers |-> "good"] /\ seen = [p \in Callers |-> {}]

-----------------------------------------------------------------------------
Resting == {"idle", "error"}

\* A mutation of Start: what the last try wanted to change is kept.
StartWithRest(p) ==
  /\ pc[p] \in Resting
  /\ pos' = [pos EXCEPT ![p] = 1]
  /\ todo' = [todo EXCEPT ![p] = IF job[p].ifNeeded THEN @ ELSE DOMAIN Batch(p)]
  /\ IF ~job[p].ifNeeded THEN CallStoreId(p, "modelGet")
     ELSE IF Batch(p) = <<>> THEN Goto(p, "ok") /\ UNCHANGED back
     ELSE CallStoreId(p, "exists")
  /\ found' = [found EXCEPT ![p] = 0] /\ sid' = [sid EXCEPT ![p] = 0]
  /\ mid' = [mid EXCEPT ![p] = NoModel]
  /\ UNCHANGED <<serverIds, faults, cache, tuples, job>>

\* Check and Writes start with the ids; the others with the first tuple, and
\* return if there is none.  The ids are local to a call.
Start(p) ==
  /\ pc[p] \in Resting
  /\ pos' = [pos EXCEPT ![p] = 1]
  /\ todo' = [todo EXCEPT ![p] = IF job[p].ifNeeded THEN {} ELSE DOMAIN Batch(p)]
  /\ IF ~job[p].ifNeeded THEN CallStoreId(p, "modelGet")
     ELSE IF Batch(p) = <<>> THEN Goto(p, "ok") /\ UNCHANGED back
     ELSE CallStoreId(p, "exists")
  /\ found' = [found EXCEPT ![p] = 0] /\ sid' = [sid EXCEPT ![p] = 0]
  /\ mid' = [mid EXCEPT ![p] = NoModel]
  /\ UNCHANGED <<serverIds, faults, cache, tuples, job>>

\* Two mutations of Examined: what needs no change is taken as well, and only
\* the latest tuple is kept.
ExaminedInVain(p) == todo[p] \cup {pos[p]}
ExaminedLast(p) ==
  IF Needs(p, sid[p], Batch(p)[pos[p]]) THEN {pos[p]} ELSE todo[p]

\* The tuples to write or delete, after the answer for the next one.
Examined(p) == IF Needs(p, sid[p], Batch(p)[pos[p]]) THEN todo[p] \cup {pos[p]} ELSE todo[p]

\* A mutation of Exists: the loop goes on behind the last tuple.
ExistsOneMore(p) ==
  /\ pc[p] = "exists"
  /\ todo' = [todo EXCEPT ![p] = Examined(p)]
  /\ pos' = [pos EXCEPT ![p] = @ + 1]
  /\ IF pos[p] <= Len(Batch(p)) THEN CallStoreId(p, "exists")
     ELSE IF Examined(p) = {} THEN Goto(p, "ok") /\ UNCHANGED back
     ELSE CallStoreId(p, "modelGet")
  /\ UNCHANGED <<serverIds, faults, cache, found, sid, mid, tuples, job>>

\* Exists, for the next tuple of the batch; after the last one Writes.
Exists(p) ==
  /\ pc[p] = "exists"
  /\ todo' = [todo EXCEPT ![p] = Examined(p)]
  /\ pos' = [pos EXCEPT ![p] = @ + 1]
  /\ IF pos[p] < Len(Batch(p)) THEN CallStoreId(p, "exists")
     ELSE IF Examined(p) = {} THEN Goto(p, "ok") /\ UNCHANGED back
     ELSE CallStoreId(p, "modelGet")
  /\ UNCHANGED <<serverIds, faults, cache, found, sid, mid, tuples, job>>

\* The server takes a request as a whole or not at all: the model must be one of
\* the store, no tuple may be named twice, and each must need the change.
Acceptable(p) ==
  /\ mid[p].store = sid[p]
  /\ job[p].kind # "check" =>
       /\ todo[p] # {}
       /\ \A i, k \in todo[p] : Batch(p)[i] = Batch(p)[k] => i = k
       /\ \A i \in todo[p] : Needs(p, sid[p], Batch(p)[i])

\* The tuples that the request names, in the store that it names.
Named(p) == {<<sid[p], Batch(p)[i]>> : i \in todo[p]}

Applied(p) == CASE job[p].kind = "write"  -> tuples \cup Named(p)
                [] job[p].kind = "delete" -> tuples \ Named(p)
                [] job[p].kind = "check"  -> tuples

RequestServed(p) ==
  /\ pc[p] = "request" /\ Acceptable(p)
  /\ tuples' = Applied(p)
  /\ \/ Goto(p, "ok") /\ UNCHANGED faults
     \/ faults < MaxFaults /\ faults' = faults + 1 /\ Goto(p, "error")
  /\ UNCHANGED <<serverIds, cache, back, found, sid, mid, job, pos, todo>>

RequestRefused(p) ==
  /\ pc[p] = "request" /\ ~Acceptable(p)
  /\ Goto(p, "error")
  /\ UNCHANGED <<serverIds, faults, cache, back, found, sid, mid, batchVars>>

\* A request fails on the way to the server.
Fault(p) ==
  /\ pc[p] \in {"list", "readModels", "exists", "request"}
  /\ faults < MaxFaults /\ faults' = faults + 1
  /\ Goto(p, "error")
  /\ UNCHANGED <<serverIds, cache, back, found, sid, mid, batchVars>>

\* The server may serve what was left of a deleted store, or refuse it.
StoreGone(p) ==
  /\ \/ pc[p] = "readModels" /\ found[p] # store
     \/ pc[p] \in {"exists", "request"} /\ sid[p] # store
  /\ Goto(p, "error")
  /\ UNCHANGED <<serverIds, faults, cache, back, found, sid, mid, batchVars>>

Step(p) == \/ LookUp(p) /\ UNCHANGED batchVars
           \/ Start(p) \/ Exists(p) \/ RequestServed(p) \/ RequestRefused(p)
           \/ Fault(p) \/ StoreGone(p)

-----------------------------------------------------------------------------
\* The tuples of p's batch that are as p wants them in the tenant's store.
Wanted(p) == {t \in Elements(Batch(p)) : store # 0 /\ ~Needs(p, store, t)}

\* Something is written that p's batch names, and not by p.
Rivals(p) == /\ pc'[p] = pc[p]
             /\ \E t \in Elements(Batch(p)), s \in Stores :
                  (<<s, t>> \in tuples) # (<<s, t>> \in tuples')

Rests(p) == pc[p] \in {"idle", "error", "ok"}

\* What befalls p's call in this step, and has so far: the tenant's store is
\* not settled, or a request failed or a rival came.
Luck(p) ==
  IF ~Settled' \/ (~Rests(p) /\ luck[p] = "moved") THEN "moved"
  ELSE IF \/ faults' # faults /\ pc'[p] # pc[p]
          \/ Rivals(p)
          \/ ~Rests(p) /\ luck[p] = "bad"
       THEN "bad" ELSE "good"

\* The histories follow every call from its start to its end.
Track ==
  /\ luck' = [p \in Callers |-> IF Rests(p) /\ pc'[p] = pc[p] THEN luck[p] ELSE Luck(p)]
  /\ seen' = [p \in Callers |->
                IF Rests(p) /\ pc'[p] = pc[p] THEN seen[p]
                ELSE IF Luck(p) = "moved" THEN {}
                ELSE (IF Rests(p) THEN {} ELSE seen[p]) \cup Wanted(p)']

World == (Expire \/ ServerChanges) /\ UNCHANGED batchVars

Next == \/ \E p \in Callers : Step(p) /\ Track
        \/ World /\ Track

\* The goroutine of a call is scheduled, and a call that failed is made again.
Fairness == \A p \in Callers : WF_callVars(Step(p))

Spec == Init /\ [][Next]_vars /\ Fairness

-----------------------------------------------------------------------------
TypeOK ==
  /\ store \in Ids /\ model \in Ids
  /\ changes \in 0..MaxChanges /\ faults \in 0..MaxFaults
  /\ cache \in [store : Ids, model : Models]
  /\ pc \in [Callers -> {"idle", "storeGet", "list", "storeSet", "modelGet", "readModels",
                         "modelSet", "exists", "request", "ok", "error"}]
  /\ back \in [Callers -> {"exists", "modelGet", "readModels"}]
  /\ found \in [Callers -> Ids] /\ sid \in [Callers -> Ids]
  /\ mid \in [Callers -> Models]
  /\ tuples \subseteq Stores \X Tuples
  /\ job \in [Callers -> Calls]
  /\ pos \in [Callers -> Nat] /\ todo \in [Callers -> SUBSET Nat]
  /\ \A p \in Callers :
       /\ pos[p] \in 1..(Len(Batch(p)) + 1) /\ todo[p] \subseteq DOMAIN Batch(p)
       /\ pc[p] = "exists" => pos[p] <= Len(Batch(p))
  /\ luck \in [Callers -> {"good", "bad", "moved"}] /\ seen \in [Callers -> SUBSET Tuples]

Distinct(b) == \A i, k \in DOMAIN b : b[i] = b[k] => i = k

\* WriteIfNeeded and DeleteIfNeeded that return no error, on a tenant whose
\* store stayed the same, found each tuple of the batch as wanted at some time
\* of the call, or made it so.
Ensured ==
  \A p \in Callers :
    pc[p] = "ok" /\ job[p].ifNeeded /\ luck[p] # "moved"
      => Elements(Batch(p)) \subseteq seen[p]

\* A call fails only if a request failed, another caller changed one of its
\* tuples between question and request, or the tenant's store was not settled;
\* otherwise it named a tuple twice, or wrote blindly what was there.
FailuresExplained ==
  \A p \in Callers :
    pc[p] = "error" /\ luck[p] = "good"
      => \/ ~Distinct(Batch(p))
         \/ job[p].kind # "check" /\ ~job[p].ifNeeded /\ (Batch(p) = <<>> \/ seen[p] # {})

\* Repeated calls succeed once the tenant's store is settled for good, unless
\* the batch names a tuple twice or is written blindly.
Converges ==
  \A p \in Callers :
    <>[]Settled => <>\/ pc[p] = "ok" \/ ~Distinct(Batch(p))
                     \/ job[p].kind # "check" /\ ~job[p].ifNeeded
=============================================================================
