--------------------------- MODULE LifecycleTypes ---------------------------
(* Type correctness of Lifecycle, for every number of subroutines and all     *)
(* bounds, with the facts about its data and client calls other proofs use.  *)
EXTENDS Lifecycle, TLAPS

-----------------------------------------------------------------------------
(* The data: what the helper operators return.                              *)

LEMMA ConstantFacts ==
  /\ \A s \in Subs : Finalizers[s] \subseteq OwnFinalizers
  /\ Delays \subseteq 1..(2 * HalfDelay)
  /\ Never \in Nat /\ MaxTime < Never
  /\ \A t \in 0..MaxTime, d \in Delays : t + d \in 0..Never
  /\ \E d \in Delays : TRUE
PROOF
  <1>1. \A s \in Subs : Finalizers[s] \subseteq OwnFinalizers
    BY DEF OwnFinalizers
  <1>2. \A d \in Delays : d \in 1..(2 * HalfDelay - 1)
    BY LifecycleAssumption DEF Delays
  <1>3. HalfDelay + 0 \in Delays
    BY LifecycleAssumption DEF Delays
  <1> QED
    BY <1>1, <1>2, <1>3, LifecycleAssumption DEF Never

LEMMA SetCondType ==
  ASSUME NEW conds \in Conditions, NEW c \in CondNames,
         NEW st \in CondStates, NEW g \in 0..(MaxEdits + 2)
  PROVE  SetCond(conds, c, st, g) \in Conditions
BY DEF SetCond, Conditions

LEMMA CondOfType ==
  ASSUME NEW s \in Subs, NEW b \in BOOLEAN
  PROVE  CondOf(s, b) \in CondNames
BY DEF CondOf, CondNames

LEMMA SetUnknownType ==
  ASSUME NEW conds \in Conditions, NEW c \in CondNames, NEW g \in 0..(MaxEdits + 2)
  PROVE  SetUnknownIfNotSet(conds, c, g) \in Conditions
BY SetCondType DEF SetUnknownIfNotSet, CondStates

LEMMA NoConditionsType == NoConditions \in Conditions
BY LifecycleAssumption DEF NoConditions, Conditions, CondStates

LEMMA NewObjectType == NewObject \in Objects
BY LifecycleAssumption, NoConditionsType, ConstantFacts
   DEF NewObject, Objects, Generations

LEMMA ReapedType ==
  ASSUME NEW o \in Objects PROVE Reaped(o) \in Objects
BY DEF Reaped, Objects

LEMMA MarkedType ==
  ASSUME NEW o \in Objects, NEW d \in Delays, now \in 0..MaxTime
  PROVE  Marked(o, d) \in Objects
<1>1. now + d \in 0..Never
  BY ConstantFacts
<1>2. o.gen \in 0..(MaxEdits + 2)
  BY LifecycleAssumption DEF Objects, Generations
<1> QED
  BY <1>1, <1>2 DEF Marked, Objects

-----------------------------------------------------------------------------
(* Type correctness, one lemma per group of actions.                        *)

LEMMA WriteKeepsType ==
  ASSUME TypeOK, NEW o \in Objects, Write(o)
  PROVE  obj' \in Objects /\ cache' \in Objects /\ synced' \in BOOLEAN
BY ReapedType DEF Write, TypeOK

\* A client call, answered or not, keeps the API side typed.
LEMMA CallKeepsType ==
  ASSUME TypeOK, NEW o \in Objects, NEW ok, CallSucceeds(ok, o) \/ CallFails(ok, o)
  PROVE  /\ obj' \in Objects /\ cache' \in Objects /\ synced' \in BOOLEAN
         /\ faults' \in 0..MaxFaults
BY WriteKeepsType, LifecycleAssumption
   DEF CallSucceeds, CallFails, Fault, apiVars, TypeOK

\* What the worker writes is an object.
LEMMA PatchTypes ==
  ASSUME TypeOK
  PROVE  /\ \A l \in SUBSET (OwnFinalizers \cup Foreign) :
               /\ [obj EXCEPT !.fins = l] \in Objects
               /\ [inst EXCEPT !.fins = l] \in Objects
         /\ \A c : [obj EXCEPT !.terms = inst.terms \ {c}] \in Objects
         /\ \A c : [obj EXCEPT !.inits = inst.inits \ {c}] \in Objects
         /\ StatusWritten \in Objects
         /\ [obj EXCEPT !.refresh = FALSE] \in Objects
BY DEF TypeOK, Objects, StatusWritten

\* The values a pass starts from and is reset to.
LEMMA ResetTypes ==
  /\ NewObject \in Objects /\ NoConditions \in Conditions
  /\ [s \in Subs |-> 0] \in [Subs -> 0..(MaxEdits + 2)]
  /\ [s \in Subs |-> FALSE] \in [Subs -> BOOLEAN]
  /\ \A e \in BOOLEAN : [err |-> e, after |-> Never] \in [err : BOOLEAN, after : 0..Never]
  /\ 1 \in 1..(N + 1) /\ Never \in 0..Never
  /\ 0 \in 0..MaxTime /\ 0 \in 0..MaxFaults /\ 0 \in 0..MaxEdits
BY NewObjectType, NoConditionsType, ConstantFacts, LifecycleAssumption

LEMMA FaultType == TypeOK /\ Fault => faults' \in 0..MaxFaults
BY LifecycleAssumption DEF TypeOK, Fault

LEMMA ReturnType ==
  ASSUME NEW e \in BOOLEAN, NEW t \in 0..Never, Return(e, t)
  PROVE  pc' = "return" /\ ret' \in [err : BOOLEAN, after : 0..Never]
BY DEF Return

LEMMA TypeInit == Init => TypeOK
BY ResetTypes DEF Init, TypeOK

LEMMA TypeReset ==
  ASSUME TypeOK,
         inst' = NewObject, orig' = NewObject, fresh' = FALSE,
         condArr' = NoConditions, pos' = 1, requeue' = FALSE,
         ran' = [s \in Subs |-> 0], pc' = "idle",
         ret' = [err |-> FALSE, after |-> Never],
         obj' \in Objects, cache' \in Objects, synced' \in BOOLEAN,
         queued' \in BOOLEAN, wake' \in 0..Never, faults' \in 0..MaxFaults,
         UNCHANGED <<now, edits, res, full, gaveUp, owed, dropped, flipped>>
  PROVE  TypeOK'
BY ResetTypes DEF TypeOK

LEMMA TypeStart ==
  ASSUME TypeOK, Begin \/ SkipReconcile \/ AddFinalizers \/ PrepareContext
  PROVE  TypeOK'
<1>1. CASE Begin
  <2>1. /\ ReadCopy \in Objects /\ ReadCopy.conds \in Conditions
        /\ [s \in Subs |-> 0] \in [Subs -> 0..(MaxEdits + 2)]
    BY LifecycleAssumption DEF ReadCopy, TypeOK, Objects
  <2> QED
    BY <1>1, <2>1, ResetTypes, FaultType, ReturnType
       DEF Begin, TypeOK, apiVars, passVars
<1>2. CASE SkipReconcile
  BY <1>2, ConstantFacts
     DEF SkipReconcile, Return, TypeOK, apiVars, queueVars, bounds, passVars,
         ghosts, Objects
<1>3. CASE AddFinalizers
  <2> DEFINE list == inst.fins \cup OwnFinalizers
             new  == [obj EXCEPT !.fins = list]
             ok   == FinalizersAccepted(list)
  <2>1. list \in SUBSET (OwnFinalizers \cup Foreign) /\ new \in Objects
    BY PatchTypes DEF TypeOK, Objects
  <2>2. obj' \in Objects => obj'.conds \in Conditions
    BY DEF Objects
  <2>3. CASE ReadOnly \/ inst.deleting \/ list = inst.fins
    BY <1>3, <2>3 DEF AddFinalizers, TypeOK, apiVars, passVars, queueVars
  <2>4. CASE /\ CallSucceeds(ok, new)
             /\ inst' = obj' /\ fresh' = TRUE /\ condArr' = obj'.conds
             /\ pc' = "prepare"
             /\ flipped' = (flipped \/ inst'.deleting)
             /\ UNCHANGED <<orig, pos, requeue, ret>>
    <3>1. obj' \in Objects /\ cache' \in Objects /\ synced' \in BOOLEAN /\ faults' \in 0..MaxFaults
      BY <2>1, <2>4, CallKeepsType
    <3>2. flipped' \in BOOLEAN
      BY <2>4
    <3> QED
      BY <1>3, <2>2, <2>4, <3>1, <3>2
         DEF AddFinalizers, TypeOK, queueVars, passVars
  <2>5. CASE CallFails(ok, new) /\ Return(TRUE, Never) /\ UNCHANGED <<passVars, flipped>>
    <3>1. obj' \in Objects /\ cache' \in Objects /\ synced' \in BOOLEAN /\ faults' \in 0..MaxFaults
      BY <2>1, <2>5, CallKeepsType
    <3> QED
      BY <1>3, <2>5, <3>1, ResetTypes, ReturnType
         DEF AddFinalizers, TypeOK, queueVars, passVars
  <2> QED
    BY <1>3, <2>3, <2>4, <2>5 DEF AddFinalizers
<1>4. CASE PrepareContext
  <2>1. ReadyCond \in CondNames /\ inst.gen \in 0..(MaxEdits + 2) /\ inst.gen \in Generations
    BY LifecycleAssumption DEF CondNames, TypeOK, Objects, Generations
  <2>2. SetUnknownIfNotSet(condArr, ReadyCond, inst.gen) \in Conditions
    BY <2>1, SetUnknownType DEF TypeOK
  <2> QED
    BY <1>4, <2>1, <2>2, ResetTypes, FaultType, ReturnType
       DEF PrepareContext, DropAll, TypeOK, apiVars, queueVars
<1> QED
  BY <1>1, <1>2, <1>3, <1>4

\* The subroutine at work and the conditions it is given.
LEMMA CurrentTypes ==
  ASSUME TypeOK, pos <= N
  PROVE  /\ Current \in Subs
         /\ CondOf(Current, orig.deleting) \in CondNames
         /\ inst.gen \in 0..(MaxEdits + 2) /\ inst.gen \in Generations
         /\ CondsOf(Current) \in Conditions
         /\ ReadyCond \in CondNames
<1>1. Current \in Subs
  BY LifecycleAssumption DEF Current, Subs, TypeOK
<1>2. CondOf(Current, orig.deleting) \in CondNames
  BY <1>1, CondOfType DEF TypeOK, Objects
<1>3. inst.gen \in 0..(MaxEdits + 2) /\ inst.gen \in Generations
  BY LifecycleAssumption DEF TypeOK, Objects, Generations
<1>4. CondsOf(Current) \in Conditions
  BY <1>2, <1>3, SetUnknownType DEF CondsOf, TypeOK
<1> QED
  BY <1>1, <1>2, <1>3, <1>4 DEF CondNames

LEMMA FailType ==
  ASSUME TypeOK, pos <= N, NEW conds \in Conditions, NEW final \in BOOLEAN,
         FailSubroutine(Current, conds, final)
  PROVE  condArr' \in Conditions /\ pc' \in {"retryError", "finalError"}
<1>1. SetCond(conds, CondOf(Current, orig.deleting), "False", inst.gen) \in Conditions
  BY CurrentTypes, SetCondType DEF CondStates
<1>2. condArr' \in Conditions
  BY <1>1, CurrentTypes, SetCondType DEF CondStates, FailSubroutine
<1> QED
  BY <1>2 DEF FailSubroutine

LEMMA PassType ==
  ASSUME TypeOK, pos <= N, NEW conds \in Conditions, NEW g \in 0..(MaxEdits + 2),
         PassSubroutine(Current, conds, g)
  PROVE  /\ condArr' \in Conditions /\ pc' = "subroutine" /\ pos' \in 1..(N + 1)
         /\ ran' \in [Subs -> 0..(MaxEdits + 2)]
         /\ owed' \subseteq Subs /\ dropped' \subseteq owed'
<1>1. condArr' \in Conditions
  BY CurrentTypes, SetCondType DEF CondStates, PassSubroutine
<1>2. pos' \in 1..(N + 1)
  BY LifecycleAssumption DEF PassSubroutine, TypeOK
<1>3. ran' \in [Subs -> 0..(MaxEdits + 2)]
  BY CurrentTypes DEF PassSubroutine, TypeOK
<1> QED
  BY <1>1, <1>2, <1>3 DEF PassSubroutine, TypeOK

LEMMA ResTypes ==
  ASSUME TypeOK, NEW s \in Subs
  PROVE  ResIfOk(s) \in [Subs -> BOOLEAN] /\ ResIfNot(s) \in [Subs -> BOOLEAN]
BY DEF ResIfOk, ResIfNot, TypeOK

LEMMA TypeRun ==
  ASSUME TypeOK, RunSubroutine
  PROVE  TypeOK'
<1> USE DEF RunSubroutine
<1>1. pos <= N /\ Current \in Subs /\ CondsOf(Current) \in Conditions
      /\ inst.gen \in 0..(MaxEdits + 2) /\ inst.gen \in Generations
  BY CurrentTypes
<1>2. ResIfOk(Current) \in [Subs -> BOOLEAN] /\ ResIfNot(Current) \in [Subs -> BOOLEAN]
  BY <1>1, ResTypes
<1>3. CASE Succeed(Current)
  <2>1. PassSubroutine(Current, CondsOf(Current), inst.gen)
    BY <1>3 DEF Succeed
  <2> QED
    BY <1>1, <1>2, <1>3, <2>1, PassType DEF Succeed, TypeOK, apiVars, queueVars
<1>4. CASE Finalized(Current)
  <2>1. pos' \in Subs
    BY <1>1, <1>4, LifecycleAssumption DEF Finalized, TypeOK, Subs
  <2> QED
    BY <1>1, <1>2, <1>4, <2>1 DEF Finalized, TypeOK, apiVars, queueVars
<1>5. CASE AskForRequeue(Current)
  <2>1. pos' \in 1..(N + 1)
    BY <1>1, <1>5, LifecycleAssumption DEF AskForRequeue, TypeOK
  <2> QED
    BY <1>1, <1>2, <1>5, <2>1, FaultType DEF AskForRequeue, Ask, TypeOK, apiVars, queueVars
<1>6. CASE FailForNow(Current)
  BY <1>1, <1>2, <1>6, FailType, FaultType DEF FailForNow, Ask, TypeOK, apiVars, queueVars
<1>7. CASE FailForGood(Current)
  <2>1. inst' \in Objects
    BY <1>7, MarkedType DEF FailForGood, TypeOK
  <2> QED
    BY <1>1, <1>2, <1>7, <2>1, FailType DEF FailForGood, DropAll, TypeOK, apiVars, queueVars
<1> QED
  BY <1>3, <1>4, <1>5, <1>6, <1>7

LEMMA TypeUnfinalize ==
  ASSUME TypeOK, RemoveFinalizers
  PROVE  TypeOK'
<1> DEFINE s == Current
           list == FinalizersLeft(s)
           new  == [obj EXCEPT !.fins = list]
           ok   == FinalizersAccepted(list)
<1>1. pos <= N
  BY LifecycleAssumption DEF RemoveFinalizers, TypeOK, Subs
<1>2. list \in SUBSET (OwnFinalizers \cup Foreign)
  BY DEF FinalizersLeft, TypeOK, Objects
<1>3. new \in Objects /\ [inst EXCEPT !.fins = list] \in Objects
  BY <1>2, PatchTypes
<1>4. obj' \in Objects /\ cache' \in Objects /\ synced' \in BOOLEAN /\ faults' \in 0..MaxFaults
  BY <1>3, CallKeepsType DEF RemoveFinalizers
<1>5. CASE /\ inst' = obj' /\ fresh' = TRUE
           /\ PassSubroutine(s, Decoded(obj'.conds), obj'.gen)
  <2>1. Decoded(obj'.conds) \in Conditions
    BY <1>4 DEF Decoded, TypeOK, Objects
  <2>2. obj'.gen \in 0..(MaxEdits + 2)
    BY <1>4, LifecycleAssumption DEF Objects, Generations
  <2>3. /\ condArr' \in Conditions /\ pc' = "subroutine" /\ pos' \in 1..(N + 1)
        /\ ran' \in [Subs -> 0..(MaxEdits + 2)]
         /\ owed' \subseteq Subs /\ dropped' \subseteq owed'
    BY <1>1, <1>5, <2>1, <2>2, PassType
  <2> QED
    BY <1>4, <1>5, <2>3 DEF RemoveFinalizers, TypeOK, queueVars
<1>6. CASE /\ inst' = [inst EXCEPT !.fins = list] /\ fresh' = (fresh /\ obj' = obj)
           /\ FailSubroutine(s, condArr, FALSE)
           /\ Ask(s)
           /\ UNCHANGED <<pos, ran>>
  <2>1. condArr' \in Conditions /\ pc' \in {"retryError", "finalError"} /\ s \in Subs
    BY <1>1, <1>6, FailType, CurrentTypes DEF TypeOK
  <2>2. fresh' \in BOOLEAN
    BY <1>6
  <2> QED
    BY <1>3, <1>4, <1>6, <2>1, <2>2 DEF RemoveFinalizers, Ask, TypeOK, queueVars
<1> QED
  BY <1>5, <1>6 DEF RemoveFinalizers

\* After the loop: the status, the claims and the refresh label.
LEMMA FinishType ==
  ASSUME TypeOK, Finish
  PROVE  pc' = "return" /\ ret' \in [err : BOOLEAN, after : 0..Never]
<1>1. now \in 0..Never
  BY ConstantFacts, LifecycleAssumption DEF TypeOK
<1> QED
  BY <1>1, ResetTypes DEF Finish, Return

LEMMA AfterStatusType ==
  ASSUME TypeOK, NEW o, AfterStatus(o)
  PROVE  pc' \in {"label", "return"} /\ ret' \in [err : BOOLEAN, after : 0..Never]
BY FinishType DEF AfterStatus, TypeOK

LEMMA TypeClaim ==
  ASSUME TypeOK, NEW claim, NEW claims, NEW o \in Objects,
         RemoveClaim(claim, claims, o)
  PROVE  TypeOK'
<1>1. CASE UNCHANGED <<apiVars, faults, inst, fresh, ret>> /\ pc' = "status"
  BY <1>1 DEF RemoveClaim, TypeOK, apiVars, queueVars, ghosts
<1>2. CASE /\ CallSucceeds(obj.exists, o)
           /\ inst' = obj' /\ fresh' = TRUE /\ pc' = "status" /\ UNCHANGED ret
  <2>1. obj' \in Objects /\ cache' \in Objects /\ synced' \in BOOLEAN /\ faults' \in 0..MaxFaults
    BY <1>2, CallKeepsType
  <2> QED
    BY <1>2, <2>1 DEF RemoveClaim, TypeOK, queueVars, ghosts
<1>3. CASE CallFails(obj.exists, o) /\ Return(TRUE, Never) /\ UNCHANGED <<inst, fresh>>
  <2>1. obj' \in Objects /\ cache' \in Objects /\ synced' \in BOOLEAN /\ faults' \in 0..MaxFaults
    BY <1>3, CallKeepsType
  <2> QED
    BY <1>3, <2>1, ReturnType, ResetTypes DEF RemoveClaim, TypeOK, queueVars, ghosts
<1> QED
  BY <1>1, <1>2, <1>3 DEF RemoveClaim

LEMMA TypeEnd ==
  ASSUME TypeOK,
         \/ UpdateStatusAfterError \/ Conclude \/ RemoveTerminator
         \/ RemoveInitializer \/ UpdateStatus \/ RemoveRefreshLabel
  PROVE  TypeOK'
<1>1. CASE UpdateStatusAfterError
  <2>1. obj' \in Objects /\ cache' \in Objects /\ synced' \in BOOLEAN /\ faults' \in 0..MaxFaults
    BY <1>1, CallKeepsType, PatchTypes DEF UpdateStatusAfterError, TypeOK, apiVars
  <2> QED
    BY <1>1, <2>1, ReturnType, ResetTypes
       DEF UpdateStatusAfterError, TypeOK, queueVars, passVars, ghosts
<1>2. CASE Conclude
  <2>1. ReadyCond \in CondNames /\ inst.gen \in 0..(MaxEdits + 2) /\ inst.gen \in Generations
    BY LifecycleAssumption DEF CondNames, TypeOK, Objects, Generations
  <2>2. condArr' \in Conditions
    <3>1. \A st \in CondStates : SetCond(condArr, ReadyCond, st, inst.gen) \in Conditions
      BY <2>1, SetCondType DEF TypeOK
    <3>2. MarkedReady(condArr, "True", inst.gen) \in Conditions
      BY <3>1 DEF MarkedReady, CondStates, TypeOK
    <3> QED
      BY <1>2, <3>1, <3>2 DEF Conclude, CondStates
  <2>3. inst' \in Objects
    BY <1>2, MarkedType DEF Conclude, TypeOK
  <2>4. full' \subseteq Generations
    BY <1>2, <2>1 DEF Conclude, TypeOK
  <2>5. pc' \in {"terminator", "initializer", "status"}
    BY <1>2 DEF Conclude
  <2> QED
    BY <1>2, <2>2, <2>3, <2>4, <2>5 DEF Conclude, TypeOK, apiVars, queueVars, bounds
<1>3. CASE RemoveTerminator
  BY <1>3, TypeClaim, PatchTypes DEF RemoveTerminator
<1>4. CASE RemoveInitializer
  BY <1>4, TypeClaim, PatchTypes DEF RemoveInitializer
<1>5. CASE UpdateStatus
  <2>1. CASE AfterStatus(inst) /\ UNCHANGED <<apiVars, faults, inst>>
    BY <1>5, <2>1, AfterStatusType DEF UpdateStatus, TypeOK, apiVars, queueVars, ghosts
  <2>2. CASE /\ CallSucceeds(obj.exists /\ fresh, StatusWritten)
             /\ inst' = obj' /\ AfterStatus(inst')
    <3>1. obj' \in Objects /\ cache' \in Objects /\ synced' \in BOOLEAN /\ faults' \in 0..MaxFaults
      BY <2>2, CallKeepsType, PatchTypes
    <3> QED
      BY <1>5, <2>2, <3>1, AfterStatusType DEF UpdateStatus, TypeOK, queueVars, ghosts
  <2>3. CASE /\ CallFails(obj.exists /\ fresh, StatusWritten)
             /\ Return(TRUE, Never) /\ UNCHANGED inst
    <3>1. obj' \in Objects /\ cache' \in Objects /\ synced' \in BOOLEAN /\ faults' \in 0..MaxFaults
      BY <2>3, CallKeepsType, PatchTypes
    <3> QED
      BY <1>5, <2>3, <3>1, ReturnType, ResetTypes DEF UpdateStatus, TypeOK, queueVars, ghosts
  <2> QED
    BY <1>5, <2>1, <2>2, <2>3 DEF UpdateStatus
<1>6. CASE RemoveRefreshLabel
  <2>1. obj' \in Objects /\ cache' \in Objects /\ synced' \in BOOLEAN /\ faults' \in 0..MaxFaults
    BY <1>6, CallKeepsType, PatchTypes DEF RemoveRefreshLabel
  <2>2. pc' = "return" /\ ret' \in [err : BOOLEAN, after : 0..Never]
    BY <1>6, FinishType, ReturnType, ResetTypes DEF RemoveRefreshLabel
  <2> QED
    BY <1>6, <2>1, <2>2 DEF RemoveRefreshLabel, TypeOK, queueVars, passVars, ghosts
<1> QED
  BY <1>1, <1>2, <1>3, <1>4, <1>5, <1>6

\* Only the other actors touch the generation and the deletion timestamp, and
\* each time they do it is paid for.
GenOK == obj.gen <= edits + (IF obj.deleting THEN 2 ELSE 1)

LEMMA WriteKeepsSpec ==
  ASSUME TypeOK, NEW o \in Objects, o.gen = obj.gen, o.deleting = obj.deleting,
         NEW ok, CallSucceeds(ok, o) \/ CallFails(ok, o)
  PROVE  obj'.gen = obj.gen /\ obj'.deleting = obj.deleting
BY DEF CallSucceeds, CallFails, Write, Reaped, apiVars, Objects, TypeOK

LEMMA WorkerKeepsSpec ==
  ASSUME TypeOK, Worker \/ FireTimer \/ Notify \/ Restart \/ Tick
  PROVE  obj'.gen = obj.gen /\ obj'.deleting = obj.deleting /\ edits' = edits
<1>1. \A l : [obj EXCEPT !.fins = l].gen = obj.gen /\ [obj EXCEPT !.fins = l].deleting = obj.deleting
  BY DEF TypeOK, Objects
<1>2. CASE AddFinalizers
  <2> DEFINE list == inst.fins \cup OwnFinalizers
  <2>1. [obj EXCEPT !.fins = list] \in Objects
    BY PatchTypes DEF TypeOK, Objects
  <2> QED
    BY <1>1, <1>2, <2>1, WriteKeepsSpec DEF AddFinalizers, apiVars
<1>3. CASE RemoveFinalizers
  <2> DEFINE list == FinalizersLeft(Current)
  <2>1. [obj EXCEPT !.fins = list] \in Objects
    BY PatchTypes DEF FinalizersLeft, TypeOK, Objects
  <2> QED
    BY <1>1, <1>3, <2>1, WriteKeepsSpec DEF RemoveFinalizers
<1>4. CASE UpdateStatus \/ UpdateStatusAfterError
  <2>1. StatusWritten \in Objects /\ StatusWritten.gen = obj.gen /\ StatusWritten.deleting = obj.deleting
    BY PatchTypes DEF StatusWritten, TypeOK, Objects
  <2> QED
    BY <1>4, <2>1, WriteKeepsSpec DEF UpdateStatus, UpdateStatusAfterError, apiVars
<1>5. CASE RemoveTerminator \/ RemoveInitializer
  <2>1. \A c : /\ [obj EXCEPT !.terms = inst.terms \ {c}].gen = obj.gen
               /\ [obj EXCEPT !.terms = inst.terms \ {c}].deleting = obj.deleting
               /\ [obj EXCEPT !.inits = inst.inits \ {c}].gen = obj.gen
               /\ [obj EXCEPT !.inits = inst.inits \ {c}].deleting = obj.deleting
    BY DEF TypeOK, Objects
  <2> QED
    BY <1>5, <2>1, PatchTypes, WriteKeepsSpec
       DEF RemoveTerminator, RemoveInitializer, RemoveClaim, apiVars
<1>6. CASE RemoveRefreshLabel
  <2>1. /\ [obj EXCEPT !.refresh = FALSE].gen = obj.gen
        /\ [obj EXCEPT !.refresh = FALSE].deleting = obj.deleting
    BY DEF TypeOK, Objects
  <2> QED
    BY <1>6, <2>1, PatchTypes, WriteKeepsSpec DEF RemoveRefreshLabel
<1>7. CASE \/ Begin \/ SkipReconcile \/ PrepareContext \/ RunSubroutine \/ Conclude
           \/ HandleResult \/ FireTimer \/ Notify \/ Restart \/ Tick
  BY <1>7 DEF Begin, SkipReconcile, PrepareContext, RunSubroutine, Conclude,
              HandleResult, FireTimer, Notify, Restart, Tick, apiVars, bounds
<1>8. edits' = edits
  BY DEF Worker, Begin, SkipReconcile, AddFinalizers, PrepareContext, RunSubroutine,
         RemoveFinalizers, UpdateStatusAfterError, Conclude, RemoveTerminator,
         RemoveInitializer, RemoveClaim, UpdateStatus, RemoveRefreshLabel,
         HandleResult, FireTimer, Notify, Restart, Tick, bounds
<1> QED
  BY <1>2, <1>3, <1>4, <1>5, <1>6, <1>7, <1>8 DEF Worker

\* The queue, the watch, a restart and the other actors.
LEMMA EditKeepsType ==
  ASSUME TypeOK, NEW o \in Objects, Edit(o), edits' \in 0..MaxEdits
  PROVE  TypeOK'
BY ReapedType DEF Edit, TypeOK, queueVars, ghosts

LEMMA TypeAround ==
  ASSUME TypeOK, GenOK,
         HandleResult \/ FireTimer \/ Notify \/ Restart \/ Others \/ Tick
  PROVE  TypeOK'
<1>1. CASE HandleResult
  <2>1. wake' \in 0..Never
    BY <1>1, ConstantFacts, LifecycleAssumption DEF HandleResult, Earlier, TypeOK
  <2> QED
    BY <1>1, <2>1, TypeReset DEF HandleResult, TypeOK, apiVars, bounds
<1>2. CASE FireTimer
  BY <1>2, ResetTypes DEF FireTimer, TypeOK, apiVars, bounds, passVars, ghosts
<1>3. CASE Notify
  BY <1>3 DEF Notify, TypeOK, bounds, passVars, ghosts
<1>4. CASE Restart
  BY <1>4, TypeReset, FaultType, ResetTypes DEF Restart, TypeOK, Objects
<1>5. CASE Others
  <2>1. Budgeted => edits' \in 0..MaxEdits
    BY LifecycleAssumption DEF Budgeted, TypeOK
  <2>2. CASE ChangeSpec
    <3>1. [obj EXCEPT !.gen = @ + 1] \in Objects
      BY <2>2, LifecycleAssumption
         DEF ChangeSpec, Budgeted, GenOK, TypeOK, Objects, Generations
    <3> QED
      BY <2>1, <2>2, <3>1, EditKeepsType DEF ChangeSpec
  <2>3. CASE RequestRefresh
    BY <2>1, <2>3, EditKeepsType DEF RequestRefresh, TypeOK, Objects
  <2>4. CASE Delete
    <3>0. obj.gen + 1 \in Generations
      BY <2>4, LifecycleAssumption DEF Delete, GenOK, TypeOK, Objects, Generations
    <3>1. [obj EXCEPT !.deleting = TRUE, !.gen = @ + 1] \in Objects
      BY <3>0 DEF TypeOK, Objects
    <3>2. edits' \in 0..MaxEdits
      BY <2>4 DEF Delete, TypeOK
    <3> QED
      BY <2>4, <3>1, <3>2, EditKeepsType DEF Delete
  <2>5. CASE HoldForeign
    BY <2>1, <2>5, EditKeepsType DEF HoldForeign, TypeOK, Objects
  <2>6. CASE ReleaseForeign
    BY <2>6, EditKeepsType DEF ReleaseForeign, TypeOK, Objects
  <2>7. CASE ReleaseClaim
    BY <2>7, EditKeepsType DEF ReleaseClaim, TypeOK, Objects
  <2> QED
    BY <1>5, <2>2, <2>3, <2>4, <2>5, <2>6, <2>7 DEF Others
<1>6. CASE Tick
  BY <1>6, LifecycleAssumption DEF Tick, TypeOK, apiVars, queueVars, passVars, ghosts
<1> QED
  BY <1>1, <1>2, <1>3, <1>4, <1>5, <1>6

LEMMA GenStep ==
  ASSUME TypeOK, GenOK, [Next]_vars
  PROVE  GenOK'
<1>1. CASE Worker \/ FireTimer \/ Notify \/ Restart \/ Tick
  BY <1>1, WorkerKeepsSpec DEF GenOK
<1>2. CASE Others
  <2> USE DEF Edit, Budgeted, Reaped, GenOK, TypeOK, Objects
  <2>1. edits \in Nat /\ obj.gen \in Nat /\ obj.deleting \in BOOLEAN
    BY LifecycleAssumption DEF Generations
  <2>2. CASE ChangeSpec
    BY <2>1, <2>2 DEF ChangeSpec
  <2>3. CASE RequestRefresh
    BY <2>1, <2>3 DEF RequestRefresh
  <2>4. CASE Delete
    <3>1. /\ [obj EXCEPT !.deleting = TRUE, !.gen = @ + 1].gen = obj.gen + 1
          /\ [obj EXCEPT !.deleting = TRUE, !.gen = @ + 1].deleting = TRUE
      OBVIOUS
    <3>2. obj'.gen = obj.gen + 1 /\ obj'.deleting = TRUE
      BY <2>4, <3>1 DEF Delete
    <3> QED
      BY <2>1, <2>4, <3>2 DEF Delete
  <2>5. CASE HoldForeign
    BY <2>1, <2>5 DEF HoldForeign
  <2>6. CASE ReleaseForeign
    BY <2>1, <2>6 DEF ReleaseForeign
  <2>7. CASE ReleaseClaim
    BY <2>1, <2>7 DEF ReleaseClaim
  <2> QED
    BY <1>2, <2>2, <2>3, <2>4, <2>5, <2>6, <2>7 DEF Others
<1>3. CASE UNCHANGED vars
  BY <1>3 DEF vars, apiVars, bounds, GenOK
<1> QED
  BY <1>1, <1>2, <1>3 DEF Next

LEMMA TypeStep ==
  ASSUME TypeOK, GenOK, [Next]_vars
  PROVE  TypeOK' /\ GenOK'
<1>1. CASE UNCHANGED vars
  BY <1>1, GenStep DEF vars, apiVars, queueVars, bounds, passVars, ghosts, TypeOK
<1>2. CASE Next
  BY <1>2, GenStep, TypeStart, TypeRun, TypeUnfinalize, TypeEnd, TypeAround
     DEF Next, Worker
<1> QED
  BY <1>1, <1>2

\* Type correctness: every variable keeps its type, the generation stays within
\* the bound the edits set, and the loop index names a subroutine whenever
\* removeFinalizerIfNeeded runs.
THEOREM TypeCorrect == Spec => [](TypeOK /\ GenOK)
<1>1. Init => TypeOK /\ GenOK
  BY TypeInit DEF Init, NewObject, GenOK
<1>2. TypeOK /\ GenOK /\ [Next]_vars => TypeOK' /\ GenOK'
  BY TypeStep
<1> QED
  BY <1>1, <1>2, PTL DEF Spec
=============================================================================
