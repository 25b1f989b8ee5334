--------------------------- MODULE LifecycleSafety ---------------------------
(* What an observed generation of Lifecycle and its Ready condition stand     *)
(* for, and when a workspace may leave initialization and termination.        *)
EXTENDS LifecycleTypes

-----------------------------------------------------------------------------
(* Deletion is final, and no copy of the object knows of it first.           *)

DeletionOK == cache.deleting \/ inst.deleting \/ orig.deleting => obj.deleting

LEMMA OthersKeepDeletion ==
  ASSUME TypeOK, Others
  PROVE  /\ obj.deleting => obj'.deleting
         /\ UNCHANGED <<cache, pc, inst, orig, condArr, pos, requeue, ghosts>>
<1> USE DEF Edit, Reaped, TypeOK, Objects
<1>1. CASE ChangeSpec
  BY <1>1 DEF ChangeSpec
<1>2. CASE RequestRefresh
  BY <1>2 DEF RequestRefresh
<1>3. CASE Delete
  BY <1>3 DEF Delete
<1>4. CASE HoldForeign
  BY <1>4 DEF HoldForeign
<1>5. CASE ReleaseForeign
  BY <1>5 DEF ReleaseForeign
<1>6. CASE ReleaseClaim
  BY <1>6 DEF ReleaseClaim
<1> QED
  BY <1>1, <1>2, <1>3, <1>4, <1>5, <1>6 DEF Others

LEMMA StepKeepsDeletion ==
  ASSUME TypeOK, [Next]_vars
  PROVE  obj.deleting => obj'.deleting
BY OthersKeepDeletion, WorkerKeepsSpec DEF Next, vars, apiVars

\* The copies the worker and the cache hold come from the API server.
LEMMA CopiesCome ==
  ASSUME TypeOK, [Next]_vars
  PROVE  /\ cache' \in {cache, obj}
         /\ orig' \in {orig, cache, obj, NewObject}
         /\ \/ inst' \in {inst, obj', cache, NewObject}
            \/ \E d \in Delays : inst' = Marked(inst, d)
            \/ \E l : inst' = [inst EXCEPT !.fins = l]
<1> USE DEF apiVars, passVars, CallSucceeds, CallFails, Write
<1>1. CASE Begin \/ SkipReconcile \/ PrepareContext \/ HandleResult \/ FireTimer
           \/ Notify \/ Restart \/ Tick
  BY <1>1 DEF Begin, ReadCopy, SkipReconcile, PrepareContext, HandleResult, FireTimer,
              Notify, Restart, Tick
<1>2. CASE AddFinalizers
  BY <1>2 DEF AddFinalizers
<1>3. CASE RunSubroutine
  BY <1>3 DEF RunSubroutine, Succeed, Finalized, AskForRequeue, FailForNow, FailForGood
<1>4. CASE RemoveFinalizers
  BY <1>4 DEF RemoveFinalizers
<1>5. CASE Conclude \/ UpdateStatusAfterError \/ UpdateStatus \/ RemoveRefreshLabel
  BY <1>5 DEF Conclude, UpdateStatusAfterError, UpdateStatus, RemoveRefreshLabel
<1>6. CASE RemoveTerminator \/ RemoveInitializer
  BY <1>6 DEF RemoveTerminator, RemoveInitializer, RemoveClaim
<1>7. CASE Others
  BY <1>7, OthersKeepDeletion
<1>8. CASE UNCHANGED vars
  BY <1>8 DEF vars
<1> QED
  BY <1>1, <1>2, <1>3, <1>4, <1>5, <1>6, <1>7, <1>8 DEF Next, Worker

LEMMA DeletionStep ==
  ASSUME TypeOK, DeletionOK, [Next]_vars
  PROVE  DeletionOK'
<1>1. \A d : Marked(inst, d).deleting = inst.deleting
  BY DEF Marked, TypeOK, Objects
<1>2. \A l : [inst EXCEPT !.fins = l].deleting = inst.deleting
  BY DEF TypeOK, Objects
<1>3. ~NewObject.deleting
  BY DEF NewObject
<1>4. obj.deleting => obj'.deleting
  BY StepKeepsDeletion
<1>5. cache'.deleting => obj'.deleting
  <2>1. cache' = cache \/ cache' = obj
    BY CopiesCome
  <2> QED
    BY <2>1, <1>4 DEF DeletionOK
<1>6. orig'.deleting => obj'.deleting
  <2>1. orig' = orig \/ orig' = cache \/ orig' = obj \/ orig' = NewObject
    BY CopiesCome
  <2> QED
    BY <2>1, <1>3, <1>4 DEF DeletionOK
<1>7. inst'.deleting => obj'.deleting
  <2>1. \/ inst' = inst \/ inst' = obj' \/ inst' = cache \/ inst' = NewObject
        \/ \E d \in Delays : inst' = Marked(inst, d)
        \/ \E l : inst' = [inst EXCEPT !.fins = l]
    BY CopiesCome
  <2> QED
    BY <2>1, <1>1, <1>2, <1>3, <1>4 DEF DeletionOK
<1> QED
  BY <1>5, <1>6, <1>7 DEF DeletionOK

-----------------------------------------------------------------------------
(* What an observed generation stands for.                                   *)

Processed == {0} \cup full \cup gaveUp
ObsOK == obj.obs \in Processed /\ cache.obs \in Processed /\ inst.obs \in Processed

\* Until a subroutine asks for a requeue, those the loop has passed are done
\* for the generation the instance has: no patch moves it in the meantime.
Passed(s) == IF orig.deleting THEN s > N + 1 - pos ELSE s < pos
PassOK ==
  /\ pc \in {"finalizers", "prepare"} => pos = 1 /\ ~requeue
  /\ pc = "unfinalize" => inst.deleting
  /\ (pc = "subroutine" /\ ~requeue /\ ~inst.deleting) =>
       \A s \in Subs : Passed(s) => ran[s] = inst.gen

\* Steps that leave the control state of the pass alone, or leave the loop.
LEMMA PassKept ==
  ASSUME TypeOK, PassOK,
         \/ UNCHANGED <<pc, inst, orig, pos, requeue, ran>>
         \/ pc' \notin {"finalizers", "prepare", "subroutine", "unfinalize"}
  PROVE  PassOK'
BY DEF PassOK, Passed

LEMMA PassStart ==
  ASSUME TypeOK, PassOK, Begin \/ AddFinalizers \/ PrepareContext
  PROVE  PassOK'
<1>1. \A s \in Subs : s \in Nat /\ s >= 1 /\ s <= N
  BY LifecycleAssumption DEF Subs
<1>2. CASE Begin
  BY <1>2 DEF Begin, PassOK, Return
<1>3. CASE AddFinalizers
  BY <1>3 DEF AddFinalizers, PassOK, Return, passVars
<1>4. CASE PrepareContext
  BY <1>1, <1>4, LifecycleAssumption DEF PrepareContext, PassOK, Passed, Return
<1> QED
  BY <1>2, <1>3, <1>4

\* One more subroutine is done; the others are as they were.
LEMMA PassAdvance ==
  ASSUME TypeOK, PassOK, pc = "subroutine", pos <= N,
         PassSubroutine(Current, CondsOf(Current), inst.gen),
         UNCHANGED <<inst, orig, requeue>>
  PROVE  PassOK'
<1> SUFFICES ASSUME ~requeue, ~inst.deleting, NEW s \in Subs, Passed(s)'
             PROVE  ran'[s] = inst.gen
  BY DEF PassOK, PassSubroutine
<1>1. ran' = [ran EXCEPT ![Current] = inst.gen] /\ pos' = pos + 1
  BY DEF PassSubroutine
<1>2. s \in Nat /\ pos \in Nat /\ N \in Nat
  BY LifecycleAssumption DEF Subs, TypeOK
<1>3. s = Current \/ Passed(s)
  BY <1>1, <1>2 DEF Passed, Current
<1>4. ran \in [Subs -> 0..(MaxEdits + 2)]
  BY DEF TypeOK
<1> QED
  BY <1>1, <1>3, <1>4 DEF PassOK

LEMMA PassRun ==
  ASSUME TypeOK, DeletionOK, PassOK, RunSubroutine \/ RemoveFinalizers
  PROVE  PassOK'
<1>1. CASE RunSubroutine /\ Succeed(Current)
  BY <1>1, PassAdvance DEF RunSubroutine, Succeed
<1>2. CASE RunSubroutine /\ Finalized(Current)
  BY <1>2 DEF RunSubroutine, Finalized, PassOK, Branch
<1>3. CASE RunSubroutine /\ AskForRequeue(Current)
  BY <1>3 DEF RunSubroutine, AskForRequeue, PassOK
<1>4. CASE RunSubroutine /\ (FailForNow(Current) \/ FailForGood(Current))
  BY <1>4, PassKept DEF RunSubroutine, FailForNow, FailForGood, FailSubroutine
<1>5. CASE RemoveFinalizers
  <2>1. CASE pc' = "subroutine"
    <3>1. inst' = obj' /\ obj.deleting
      BY <1>5, <2>1 DEF RemoveFinalizers, FailSubroutine, PassOK, DeletionOK
    <3>2. obj'.deleting
      BY <1>5, <3>1, StepKeepsDeletion DEF Next, Worker
    <3> QED
      BY <2>1, <3>1, <3>2 DEF PassOK
  <2>2. CASE pc' # "subroutine"
    BY <1>5, <2>2, PassKept DEF RemoveFinalizers, PassSubroutine, FailSubroutine
  <2> QED
    BY <2>1, <2>2
<1> QED
  BY <1>1, <1>2, <1>3, <1>4, <1>5 DEF RunSubroutine

LEMMA PassStep ==
  ASSUME TypeOK, DeletionOK, PassOK, [Next]_vars
  PROVE  PassOK'
<1>1. CASE Begin \/ AddFinalizers \/ PrepareContext
  BY <1>1, PassStart
<1>2. CASE RunSubroutine \/ RemoveFinalizers
  BY <1>2, PassRun
<1>3. CASE SkipReconcile \/ UpdateStatusAfterError \/ RemoveRefreshLabel
  BY <1>3, PassKept DEF SkipReconcile, UpdateStatusAfterError, RemoveRefreshLabel,
                         Return, Finish
<1>4. CASE Conclude \/ UpdateStatus
  BY <1>4, PassKept DEF Conclude, UpdateStatus, AfterStatus, Return, Finish
<1>5. CASE RemoveTerminator \/ RemoveInitializer
  BY <1>5, PassKept DEF RemoveTerminator, RemoveInitializer, RemoveClaim, Return
<1>6. CASE HandleResult \/ Restart
  BY <1>6, PassKept DEF HandleResult, Restart
<1>7. CASE FireTimer \/ Notify \/ Tick \/ UNCHANGED vars
  BY <1>7, PassKept DEF FireTimer, Notify, Tick, vars, passVars, ghosts
<1>8. CASE Others
  BY <1>8, OthersKeepDeletion, PassKept DEF ghosts
<1> QED
  BY <1>1, <1>2, <1>3, <1>4, <1>5, <1>6, <1>7, <1>8 DEF Next, Worker

\* The API server's object takes its observed generation from a status update.
LEMMA ObsOfObj ==
  ASSUME TypeOK, [Next]_vars
  PROVE  obj'.obs \in {obj.obs, inst.obs}
<1> USE DEF apiVars, CallSucceeds, CallFails, Write, Reaped, Edit, TypeOK, Objects
<1>1. CASE Begin \/ SkipReconcile \/ PrepareContext \/ HandleResult \/ FireTimer
           \/ Notify \/ Restart \/ Tick \/ RunSubroutine \/ Conclude
  BY <1>1 DEF Begin, SkipReconcile, PrepareContext, HandleResult, FireTimer,
              Notify, Restart, Tick, RunSubroutine, Conclude
<1>2. CASE AddFinalizers
  BY <1>2 DEF AddFinalizers
<1>3. CASE RemoveFinalizers
  BY <1>3 DEF RemoveFinalizers
<1>4. CASE UpdateStatusAfterError \/ UpdateStatus
  BY <1>4 DEF UpdateStatusAfterError, UpdateStatus, StatusWritten
<1>5. CASE RemoveTerminator \/ RemoveInitializer \/ RemoveRefreshLabel
  BY <1>5 DEF RemoveTerminator, RemoveInitializer, RemoveClaim, RemoveRefreshLabel
<1>6. CASE ChangeSpec \/ RequestRefresh \/ Delete
  BY <1>6 DEF ChangeSpec, RequestRefresh, Delete
<1>7. CASE HoldForeign \/ ReleaseForeign \/ ReleaseClaim
  BY <1>7 DEF HoldForeign, ReleaseForeign, ReleaseClaim
<1>8. CASE UNCHANGED vars
  BY <1>8 DEF vars
<1> QED
  BY <1>1, <1>2, <1>3, <1>4, <1>5, <1>6, <1>7, <1>8 DEF Next, Worker, Others

LEMMA ProcessedGrows ==
  ASSUME TypeOK, [Next]_vars
  PROVE  full \subseteq full' /\ gaveUp \subseteq gaveUp'
<1>1. CASE RunSubroutine
  BY <1>1 DEF RunSubroutine, Succeed, Finalized, AskForRequeue, FailForNow, FailForGood
<1>2. CASE Begin \/ SkipReconcile \/ PrepareContext \/ HandleResult \/ FireTimer
           \/ Notify \/ Restart \/ Tick \/ Conclude
  BY <1>2 DEF Begin, SkipReconcile, PrepareContext, HandleResult, FireTimer,
              Notify, Restart, Tick, Conclude, ghosts
<1>3. CASE AddFinalizers \/ RemoveFinalizers \/ UpdateStatusAfterError \/ UpdateStatus
           \/ RemoveTerminator \/ RemoveInitializer \/ RemoveRefreshLabel
  BY <1>3 DEF AddFinalizers, RemoveFinalizers, UpdateStatusAfterError, UpdateStatus,
              RemoveTerminator, RemoveInitializer, RemoveClaim, RemoveRefreshLabel, ghosts
<1>4. CASE Others
  BY <1>4, OthersKeepDeletion DEF ghosts
<1>5. CASE UNCHANGED vars
  BY <1>5 DEF vars, ghosts
<1> QED
  BY <1>1, <1>2, <1>3, <1>4, <1>5 DEF Next, Worker

\* The instance is marked as observed by a pass that is done, or gave up.
LEMMA ObsOfInst ==
  ASSUME TypeOK, PassOK, [Next]_vars
  PROVE  inst'.obs \in {inst.obs, obj'.obs, cache.obs, 0} \cup full' \cup gaveUp'
<1>1. \A d : Marked(inst, d).obs \in {inst.obs, inst.gen}
  BY DEF Marked, TypeOK, Objects
<1>2. \A l : [inst EXCEPT !.fins = l].obs = inst.obs
  BY DEF TypeOK, Objects
<1>3. NewObject.obs = 0
  BY DEF NewObject
<1>4. CASE RunSubroutine
  <2>1. CASE FailForGood(Current)
    BY <1>1, <2>1 DEF FailForGood
  <2> QED
    BY <1>4, <2>1 DEF RunSubroutine, Succeed, Finalized, AskForRequeue, FailForNow
<1>5. CASE Conclude
  <2>1. CASE requeue \/ inst.deleting
    BY <1>5, <2>1 DEF Conclude, Marked
  <2>2. CASE ~requeue /\ ~inst.deleting
    <3>1. \A s \in Subs : Passed(s)
      <4>1. pos = N + 1
        BY <1>5 DEF Conclude
      <4> QED
        BY <4>1, LifecycleAssumption DEF Passed, Subs
    <3>2. \A s \in Subs : ran[s] = inst.gen
      BY <1>5, <2>2, <3>1 DEF PassOK, Conclude
    <3>3. inst.gen \in full'
      BY <1>5, <3>2 DEF Conclude
    <3>4. \E d \in Delays : inst' = Marked(inst, d)
      BY <1>5, <2>2 DEF Conclude
    <3> QED
      BY <1>1, <3>3, <3>4
  <2> QED
    BY <2>1, <2>2
<1>6. CASE ~RunSubroutine /\ ~Conclude
  <2> USE DEF apiVars, passVars
  <2>1. \/ inst' \in {inst, obj', cache, NewObject}
        \/ \E l : inst' = [inst EXCEPT !.fins = l]
    <3>1. CASE Begin \/ SkipReconcile \/ PrepareContext \/ HandleResult \/ FireTimer
               \/ Notify \/ Restart \/ Tick
      BY <3>1 DEF Begin, ReadCopy, SkipReconcile, PrepareContext, HandleResult,
                  FireTimer, Notify, Restart, Tick
    <3>2. CASE AddFinalizers \/ RemoveFinalizers
      BY <3>2 DEF AddFinalizers, RemoveFinalizers
    <3>3. CASE UpdateStatusAfterError \/ UpdateStatus \/ RemoveRefreshLabel
      BY <3>3 DEF UpdateStatusAfterError, UpdateStatus, RemoveRefreshLabel
    <3>4. CASE RemoveTerminator \/ RemoveInitializer
      BY <3>4 DEF RemoveTerminator, RemoveInitializer, RemoveClaim
    <3>5. CASE Others \/ UNCHANGED vars
      BY <3>5, OthersKeepDeletion DEF vars
    <3> QED
      BY <1>6, <3>1, <3>2, <3>3, <3>4, <3>5 DEF Next, Worker
  <2> QED
    BY <1>2, <1>3, <2>1
<1> QED
  BY <1>4, <1>5, <1>6

LEMMA ObsStep ==
  ASSUME TypeOK, PassOK, ObsOK, [Next]_vars
  PROVE  ObsOK'
<1>1. Processed \subseteq Processed' /\ full' \subseteq Processed'
      /\ gaveUp' \subseteq Processed' /\ 0 \in Processed'
  BY ProcessedGrows DEF Processed
<1>2. obj'.obs \in Processed'
  BY <1>1, ObsOfObj DEF ObsOK
<1>3. cache'.obs \in Processed'
  BY <1>1, CopiesCome DEF ObsOK
<1>4. inst'.obs \in Processed'
  BY <1>1, <1>2, ObsOfInst DEF ObsOK
<1> QED
  BY <1>2, <1>3, <1>4 DEF ObsOK

ObsInv == TypeOK /\ GenOK /\ DeletionOK /\ PassOK /\ ObsOK

\* The observed generation of the object is 0, one that all subroutines succeeded
\* on in a single pass, or one that a pass gave up on (spread.go:53-66 writes it,
\* lifecycle.go:117-147 decides when).
THEOREM ObservedIsProcessed == Spec => []ObservedMeansProcessed
<1>1. Init => ObsInv
  BY TypeInit
     DEF Init, ObsInv, GenOK, DeletionOK, PassOK, ObsOK, Processed, NewObject
<1>2. ObsInv /\ [Next]_vars => ObsInv'
  BY TypeStep, DeletionStep, PassStep, ObsStep DEF ObsInv
<1>3. ObsInv => ObservedMeansProcessed
  BY DEF ObsInv, ObsOK, Processed, ObservedMeansProcessed
<1> QED
  BY <1>1, <1>2, <1>3, PTL DEF Spec

-----------------------------------------------------------------------------
(* When the initializer may come off.                                        *)

MayRelease == full # {} \/ obj.deleting
HoldOK ==
  /\ Initializer \in Claims0 =>
       \A o \in {obj, cache, inst} : Initializer \in o.inits \/ MayRelease
  /\ pc = "initializer" => MayRelease

LEMMA MayReleaseStep ==
  ASSUME TypeOK, [Next]_vars
  PROVE  MayRelease => MayRelease'
BY ProcessedGrows, StepKeepsDeletion DEF MayRelease

\* Only removeInitializer takes the initializer off, and a status update that
\* carries a copy which never had it.
LEMMA InitsOfObj ==
  ASSUME TypeOK, [Next]_vars, pc # "initializer",
         Initializer \in obj.inits, Initializer \in inst.inits
  PROVE  Initializer \in obj'.inits
<1> USE DEF apiVars, CallSucceeds, CallFails, Write, Reaped, Edit, TypeOK, Objects
<1>1. CASE Begin \/ SkipReconcile \/ PrepareContext \/ HandleResult \/ FireTimer
           \/ Notify \/ Restart \/ Tick \/ RunSubroutine \/ Conclude
  BY <1>1 DEF Begin, SkipReconcile, PrepareContext, HandleResult, FireTimer,
              Notify, Restart, Tick, RunSubroutine, Conclude
<1>2. CASE AddFinalizers \/ RemoveFinalizers
  BY <1>2 DEF AddFinalizers, RemoveFinalizers
<1>3. CASE UpdateStatusAfterError \/ UpdateStatus
  BY <1>3 DEF UpdateStatusAfterError, UpdateStatus, StatusWritten
<1>4. CASE RemoveTerminator \/ RemoveInitializer \/ RemoveRefreshLabel
  BY <1>4 DEF RemoveTerminator, RemoveInitializer, RemoveClaim, RemoveRefreshLabel
<1>5. CASE ChangeSpec \/ RequestRefresh \/ Delete
  BY <1>5 DEF ChangeSpec, RequestRefresh, Delete
<1>6. CASE HoldForeign \/ ReleaseForeign
  BY <1>6 DEF HoldForeign, ReleaseForeign
<1>7. CASE ReleaseClaim
  <2>1. \/ \E c \in obj.inits \ {Initializer} : obj'.inits = obj.inits \ {c}
        \/ obj'.inits = obj.inits
    BY <1>7 DEF ReleaseClaim
  <2> QED
    BY <2>1
<1>8. CASE UNCHANGED vars
  BY <1>8 DEF vars
<1> QED
  BY <1>1, <1>2, <1>3, <1>4, <1>5, <1>6, <1>7, <1>8 DEF Next, Worker, Others

\* A pass that gets to removeInitializer is done, or was told of the deletion.
LEMMA InitializerReached ==
  ASSUME TypeOK, PassOK, DeletionOK, HoldOK, [Next]_vars, pc' = "initializer"
  PROVE  MayRelease'
<1>1. CASE pc = "initializer"
  BY <1>1, MayReleaseStep DEF HoldOK
<1>2. CASE pc # "initializer"
  <2>1. Conclude
    <3>1. CASE Begin \/ SkipReconcile \/ AddFinalizers \/ PrepareContext \/ RunSubroutine
      BY <1>2, <3>1 DEF Begin, SkipReconcile, AddFinalizers, PrepareContext, Return,
         RunSubroutine, Succeed, Finalized, AskForRequeue, FailForNow, FailForGood,
         FailSubroutine, PassSubroutine
    <3>2. CASE RemoveFinalizers \/ UpdateStatusAfterError \/ RemoveTerminator
               \/ RemoveInitializer \/ UpdateStatus \/ RemoveRefreshLabel
      BY <1>2, <3>2 DEF RemoveFinalizers, UpdateStatusAfterError, RemoveTerminator,
         RemoveInitializer, UpdateStatus, RemoveRefreshLabel, RemoveClaim, Return, Finish,
         AfterStatus, FailSubroutine, PassSubroutine
    <3>3. CASE HandleResult \/ FireTimer \/ Notify \/ Restart \/ Tick \/ UNCHANGED vars
      BY <1>2, <3>3 DEF HandleResult, FireTimer, Notify, Restart, Tick, vars
    <3>4. CASE Others
      BY <1>2, <3>4, OthersKeepDeletion
    <3> QED
      BY <3>1, <3>2, <3>3, <3>4 DEF Next, Worker
  <2>2. pc = "subroutine" /\ pos = N + 1 /\ ~requeue /\ obj' = obj
    BY <2>1 DEF Conclude, apiVars
  <2>3. CASE inst.deleting
    BY <2>2, <2>3 DEF DeletionOK, MayRelease
  <2>4. CASE ~inst.deleting
    <3>1. \A s \in Subs : Passed(s)
      BY <2>2, LifecycleAssumption DEF Passed, Subs
    <3>2. \A s \in Subs : ran[s] = inst.gen
      BY <2>2, <2>4, <3>1 DEF PassOK
    <3>3. inst.gen \in full'
      BY <2>1, <3>2 DEF Conclude
    <3> QED
      BY <3>3 DEF MayRelease
  <2> QED
    BY <2>3, <2>4
<1> QED
  BY <1>1, <1>2

LEMMA HoldStep ==
  ASSUME TypeOK, PassOK, DeletionOK, HoldOK, [Next]_vars
  PROVE  HoldOK'
<1>1. pc' = "initializer" => MayRelease'
  BY InitializerReached
<1>2. CASE MayRelease
  BY <1>1, <1>2, MayReleaseStep DEF HoldOK
<1>3. CASE ~MayRelease
  <2> SUFFICES ASSUME Initializer \in Claims0
               PROVE  Initializer \in obj'.inits /\ Initializer \in cache'.inits
                      /\ Initializer \in inst'.inits
    BY <1>1 DEF HoldOK
  <2>1. /\ Initializer \in obj.inits /\ Initializer \in cache.inits
        /\ Initializer \in inst.inits /\ pc # "initializer"
    BY <1>3 DEF HoldOK
  <2>2. Initializer \in obj'.inits
    BY <2>1, InitsOfObj
  <2>3. Initializer \in cache'.inits
    BY <2>1, CopiesCome
  <2>4. \A d : Initializer \in Marked(inst, d).inits
    BY <2>1 DEF Marked, TypeOK, Objects
  <2>5. \A l : Initializer \in [inst EXCEPT !.fins = l].inits
    BY <2>1 DEF TypeOK, Objects
  <2>6. Initializer \in NewObject.inits
    BY DEF NewObject
  <2>7. Initializer \in inst'.inits
    BY <2>1, <2>2, <2>4, <2>5, <2>6, CopiesCome
  <2> QED
    BY <2>2, <2>3, <2>7
<1> QED
  BY <1>2, <1>3

\* The workspace leaves initialization only after a pass in which every
\* subroutine succeeded, or in deletion (lifecycle.go:156-161): no status update
\* of a stale copy and no patch of a whole list takes the initializer off before.
THEOREM InitializerIsHeld == Spec => []InitializerHeld
<1>1. Init => ObsInv /\ HoldOK
  BY TypeInit
     DEF Init, ObsInv, GenOK, DeletionOK, PassOK, ObsOK, Processed, NewObject, HoldOK
<1>2. ObsInv /\ HoldOK /\ [Next]_vars => ObsInv' /\ HoldOK'
  BY TypeStep, DeletionStep, PassStep, ObsStep, HoldStep DEF ObsInv
<1>3. HoldOK => InitializerHeld
  BY DEF HoldOK, MayRelease, InitializerHeld
<1> QED
  BY <1>1, <1>2, <1>3, PTL DEF Spec

-----------------------------------------------------------------------------
(* When the terminator may come off.                                         *)

InLoop == pc \in {"finalizers", "prepare", "subroutine", "unfinalize"}

\* What the terminating subroutines made is gone, and nobody makes it again:
\* every read shows the deletion, and the pass under way has read it.
Torn == \A s \in Terminators : ~res[s]
TornForGood == /\ Torn /\ obj.deleting
               /\ Cached => cache.deleting
               /\ InLoop => orig.deleting

\* No copy of the object lacks the terminator.
TermsKept == \A o \in {obj, cache, inst} : Terminator \in o.terms

TornOK ==
  /\ orig.deleting => inst.deleting /\ (Cached => cache.deleting)
  /\ pc = "unfinalize" => Current \notin Terminators
  /\ (pc \in {"subroutine", "unfinalize"} /\ orig.deleting /\ ~requeue) =>
       \A s \in Terminators : Passed(s) => ~res[s]
  /\ pc = "terminator" => orig.deleting /\ Torn
  /\ (Terminator \in Claims0 /\ ~TermsKept) => TornForGood

\* Where the copies of a pass come from, taken together.
LEMMA PassCopies ==
  ASSUME TypeOK, [Next]_vars
  PROVE  \/ inst' = ReadCopy /\ orig' = ReadCopy /\ cache' = cache /\ Begin
         \/ inst' = NewObject /\ orig' = NewObject /\ ~InLoop'
         \/ /\ orig' = orig
            /\ \/ inst' \in {inst, obj'}
               \/ \E d \in Delays : inst' = Marked(inst, d)
               \/ \E l : inst' = [inst EXCEPT !.fins = l]
            /\ InLoop' => InLoop
<1> USE DEF apiVars, passVars, InLoop, Return
<1>1. CASE Begin
  BY <1>1 DEF Begin
<1>2. CASE SkipReconcile \/ PrepareContext \/ HandleResult \/ FireTimer
           \/ Notify \/ Restart \/ Tick
  BY <1>2 DEF SkipReconcile, PrepareContext, HandleResult, FireTimer, Notify, Restart, Tick
<1>3. CASE AddFinalizers
  BY <1>3 DEF AddFinalizers
<1>4. CASE RunSubroutine
  BY <1>4 DEF RunSubroutine, Succeed, Finalized, AskForRequeue, FailForNow, FailForGood
<1>5. CASE RemoveFinalizers
  BY <1>5 DEF RemoveFinalizers
<1>6. CASE Conclude \/ UpdateStatusAfterError \/ UpdateStatus \/ RemoveRefreshLabel
  BY <1>6 DEF Conclude, UpdateStatusAfterError, UpdateStatus, RemoveRefreshLabel,
              AfterStatus, Finish
<1>7. CASE RemoveTerminator \/ RemoveInitializer
  BY <1>7 DEF RemoveTerminator, RemoveInitializer, RemoveClaim
<1>8. CASE Others \/ UNCHANGED vars
  BY <1>8, OthersKeepDeletion DEF vars
<1> QED
  BY <1>1, <1>2, <1>3, <1>4, <1>5, <1>6, <1>7, <1>8 DEF Next, Worker

\* A pass that began in deletion goes on in it, and later ones read it too.
LEMMA DeletionRead ==
  ASSUME TypeOK, DeletionOK, TornOK, [Next]_vars
  PROVE  orig'.deleting => inst'.deleting /\ (Cached => cache'.deleting)
<1>1. \A d : Marked(inst, d).deleting = inst.deleting
  BY DEF Marked, TypeOK, Objects
<1>2. \A l : [inst EXCEPT !.fins = l].deleting = inst.deleting
  BY DEF TypeOK, Objects
<1>3. obj.deleting => obj'.deleting
  BY StepKeepsDeletion
<1>4. CASE inst' = ReadCopy /\ orig' = ReadCopy /\ cache' = cache
  BY <1>4 DEF ReadCopy
<1>5. CASE inst' = NewObject /\ orig' = NewObject
  BY <1>5 DEF NewObject
<1>6. CASE /\ orig' = orig
           /\ \/ inst' \in {inst, obj'}
              \/ \E d \in Delays : inst' = Marked(inst, d)
              \/ \E l : inst' = [inst EXCEPT !.fins = l]
  <2> SUFFICES ASSUME orig.deleting PROVE inst'.deleting /\ (Cached => cache'.deleting)
    BY <1>6
  <2>1. inst.deleting /\ obj.deleting /\ (Cached => cache.deleting)
    BY DEF TornOK, DeletionOK
  <2>2. inst'.deleting
    BY <1>1, <1>2, <1>3, <1>6, <2>1
  <2> QED
    BY <2>1, <2>2, CopiesCome
<1> QED
  BY <1>4, <1>5, <1>6, PassCopies

\* Only a subroutine changes what is left outside.
LEMMA ResChanges ==
  ASSUME [Next]_vars
  PROVE  RunSubroutine \/ res' = res
BY DEF Next, Worker, Begin, SkipReconcile, AddFinalizers, PrepareContext,
       RemoveFinalizers, UpdateStatusAfterError, Conclude, RemoveTerminator,
       RemoveInitializer, RemoveClaim, UpdateStatus, RemoveRefreshLabel, HandleResult,
       FireTimer, Notify, Restart, Tick, Others, ChangeSpec, RequestRefresh, Delete,
       HoldForeign, ReleaseForeign, ReleaseClaim, Edit, ghosts, vars

\* In deletion, a terminating subroutine makes nothing.
LEMMA TermRun ==
  ASSUME TypeOK, RunSubroutine, inst.deleting, NEW t \in Terminators
  PROVE  /\ res'[t] => res[t]
         /\ (t = Current /\ (Succeed(Current) \/ Finalized(Current))) => ~res'[t]
<1>1. t \in Subs /\ res \in [Subs -> BOOLEAN]
  BY LifecycleAssumption DEF TypeOK
<1>2. Current = t => Branch(Current) = "Terminate"
  BY DEF Branch
<1>3. res' \in {res, ResIfOk(Current), ResIfNot(Current)}
  BY DEF RunSubroutine, Succeed, Finalized, AskForRequeue, FailForNow, FailForGood
<1>4. Succeed(Current) \/ Finalized(Current) => res' = ResIfOk(Current)
  BY DEF Succeed, Finalized
<1> QED
  BY <1>1, <1>2, <1>3, <1>4 DEF ResIfOk, ResIfNot, Creating

\* What the subroutines that the loop has passed made is gone, for those that
\* terminate.
LEMMA TornInLoop ==
  ASSUME TypeOK, DeletionOK, PassOK, TornOK, [Next]_vars
  PROVE  /\ pc' = "unfinalize" => Current' \notin Terminators
         /\ (pc' \in {"subroutine", "unfinalize"} /\ orig'.deleting /\ ~requeue') =>
              \A s \in Terminators : Passed(s)' => ~res'[s]
<1> SUFFICES ASSUME pc' \in {"subroutine", "unfinalize"}
             PROVE  /\ pc' = "unfinalize" => Current' \notin Terminators
                    /\ (orig'.deleting /\ ~requeue') =>
                         \A s \in Terminators : Passed(s)' => ~res'[s]
  OBVIOUS
<1>1. /\ Terminators \subseteq Subs /\ Subs \subseteq Nat /\ N \in Nat
      /\ pos \in 1..(N + 1) /\ \A s \in Subs : s <= N
  BY LifecycleAssumption DEF TypeOK, Subs
<1>2. CASE PrepareContext
  BY <1>1, <1>2 DEF PrepareContext, PassOK, Passed, Return
<1>3. CASE RunSubroutine
  <2>0. orig' = orig /\ pc = "subroutine"
    BY <1>3 DEF RunSubroutine
  <2>1. orig.deleting => inst.deleting
    BY DEF TornOK
  <2>2. CASE Succeed(Current)
    <3>1. pos' = pos + 1 /\ requeue' = requeue /\ pc' = "subroutine"
      BY <2>2 DEF Succeed, PassSubroutine
    <3>2. \A s \in Terminators : orig.deleting /\ Passed(s)' => Passed(s) \/ s = Current
      BY <1>1, <2>0, <3>1 DEF Passed, Current
    <3> QED
      BY <1>3, <2>0, <2>1, <2>2, <3>1, <3>2, TermRun DEF TornOK
  <2>3. CASE Finalized(Current)
    <3>1. pos' = pos /\ requeue' = requeue /\ Current \notin Terminators
      BY <2>3 DEF Finalized, Branch
    <3>2. Current' = Current /\ \A s : Passed(s)' = Passed(s)
      BY <2>0, <3>1 DEF Passed, Current
    <3> QED
      BY <1>3, <2>0, <2>1, <3>1, <3>2, TermRun DEF TornOK
  <2>4. CASE AskForRequeue(Current)
    BY <2>0, <2>4 DEF AskForRequeue
  <2> QED
    BY <1>3, <2>2, <2>3, <2>4 DEF RunSubroutine, FailForNow, FailForGood, FailSubroutine
<1>4. CASE RemoveFinalizers
  <2>1. /\ pos' = pos + 1 /\ pc' = "subroutine" /\ orig' = orig /\ requeue' = requeue
        /\ res' = res /\ pc = "unfinalize"
    BY <1>4 DEF RemoveFinalizers, PassSubroutine, FailSubroutine
  <2>2. \A s \in Terminators : orig.deleting /\ Passed(s)' => Passed(s) \/ s = Current
    BY <1>1, <2>1 DEF Passed, Current
  <2> QED
    BY <2>1, <2>2 DEF TornOK
<1>5. CASE UNCHANGED <<pc, orig, pos, requeue, res>>
  BY <1>5 DEF TornOK, Passed, Current
<1>6. \/ PrepareContext \/ RunSubroutine \/ RemoveFinalizers
      \/ UNCHANGED <<pc, orig, pos, requeue, res>>
  <2>1. ~(\/ Begin \/ SkipReconcile \/ AddFinalizers \/ UpdateStatusAfterError
          \/ Conclude \/ RemoveTerminator \/ RemoveInitializer \/ UpdateStatus
          \/ RemoveRefreshLabel \/ HandleResult \/ Restart)
    BY DEF Begin, SkipReconcile, AddFinalizers, UpdateStatusAfterError, Conclude,
           RemoveTerminator, RemoveInitializer, RemoveClaim, UpdateStatus, AfterStatus,
           Finish, RemoveRefreshLabel, HandleResult, Restart, Return
  <2>2. FireTimer \/ Notify \/ Tick \/ UNCHANGED vars
          => UNCHANGED <<pc, orig, pos, requeue, res>>
    BY DEF FireTimer, Notify, Tick, vars, passVars, ghosts
  <2>3. Others => UNCHANGED <<pc, orig, pos, requeue, res>>
    BY OthersKeepDeletion DEF ghosts
  <2> QED
    BY <2>1, <2>2, <2>3 DEF Next, Worker
<1> QED
  BY <1>2, <1>3, <1>4, <1>5, <1>6

\* removeTerminator is reached in deletion, with everything torn down.
LEMMA TerminatorReached ==
  ASSUME TypeOK, TornOK, [Next]_vars, pc' = "terminator"
  PROVE  orig'.deleting /\ Torn'
<1>1. CASE Conclude
  <2>1. pc = "subroutine" /\ pos = N + 1 /\ ~requeue /\ orig.deleting
    BY <1>1 DEF Conclude
  <2>2. \A s \in Terminators : Passed(s)
    BY <2>1, LifecycleAssumption DEF Passed, Subs
  <2>3. orig' = orig /\ res' = res
    BY <1>1 DEF Conclude
  <2> QED
    BY <2>1, <2>2, <2>3 DEF TornOK, Torn
<1>2. CASE UNCHANGED <<pc, orig, res>>
  BY <1>2 DEF TornOK, Torn
<1>3. Conclude \/ UNCHANGED <<pc, orig, res>>
  <2>1. ~(Begin \/ SkipReconcile \/ AddFinalizers \/ PrepareContext)
    BY DEF Begin, SkipReconcile, AddFinalizers, PrepareContext, Return
  <2>2. ~RunSubroutine
    BY DEF RunSubroutine, Succeed, Finalized, AskForRequeue, FailForNow, FailForGood,
           FailSubroutine, PassSubroutine
  <2>3. ~(\/ RemoveFinalizers \/ UpdateStatusAfterError \/ RemoveTerminator
          \/ RemoveInitializer \/ UpdateStatus \/ RemoveRefreshLabel
          \/ HandleResult \/ Restart)
    BY DEF RemoveFinalizers, UpdateStatusAfterError, RemoveTerminator, RemoveInitializer,
           RemoveClaim, UpdateStatus, RemoveRefreshLabel, HandleResult, Restart, Return,
           Finish, AfterStatus, FailSubroutine, PassSubroutine
  <2>4. FireTimer \/ Notify \/ Tick \/ UNCHANGED vars => UNCHANGED <<pc, orig, res>>
    BY DEF FireTimer, Notify, Tick, vars, passVars, ghosts
  <2>5. Others => UNCHANGED <<pc, orig, res>>
    BY OthersKeepDeletion DEF ghosts
  <2> QED
    BY <2>1, <2>2, <2>3, <2>4, <2>5 DEF Next, Worker
<1> QED
  BY <1>1, <1>2, <1>3

\* Only removeTerminator takes the terminator off, and a status update that
\* carries a copy which never had it.
LEMMA TermsOfObj ==
  ASSUME TypeOK, [Next]_vars, pc # "terminator",
         Terminator \in obj.terms, Terminator \in inst.terms
  PROVE  Terminator \in obj'.terms
<1> USE DEF apiVars, CallSucceeds, CallFails, Write, Reaped, Edit, TypeOK, Objects
<1>1. CASE Begin \/ SkipReconcile \/ PrepareContext \/ HandleResult \/ FireTimer
           \/ Notify \/ Restart \/ Tick \/ RunSubroutine \/ Conclude
  BY <1>1 DEF Begin, SkipReconcile, PrepareContext, HandleResult, FireTimer,
              Notify, Restart, Tick, RunSubroutine, Conclude
<1>2. CASE AddFinalizers \/ RemoveFinalizers
  BY <1>2 DEF AddFinalizers, RemoveFinalizers
<1>3. CASE UpdateStatusAfterError \/ UpdateStatus
  BY <1>3 DEF UpdateStatusAfterError, UpdateStatus, StatusWritten
<1>4. CASE RemoveTerminator \/ RemoveInitializer \/ RemoveRefreshLabel
  BY <1>4 DEF RemoveTerminator, RemoveInitializer, RemoveClaim, RemoveRefreshLabel
<1>5. CASE ChangeSpec \/ RequestRefresh \/ Delete
  BY <1>5 DEF ChangeSpec, RequestRefresh, Delete
<1>6. CASE HoldForeign \/ ReleaseForeign
  BY <1>6 DEF HoldForeign, ReleaseForeign
<1>7. CASE ReleaseClaim
  <2>1. \/ \E c \in obj.terms \ {Terminator} : obj'.terms = obj.terms \ {c}
        \/ obj'.terms = obj.terms
    BY <1>7 DEF ReleaseClaim
  <2> QED
    BY <2>1
<1>8. CASE UNCHANGED vars
  BY <1>8 DEF vars
<1> QED
  BY <1>1, <1>2, <1>3, <1>4, <1>5, <1>6, <1>7, <1>8 DEF Next, Worker, Others

\* What is torn down for good stays so.
LEMMA TornStays ==
  ASSUME TypeOK, DeletionOK, TornOK, TornForGood, [Next]_vars
  PROVE  TornForGood'
<1>1. obj'.deleting /\ (Cached => cache'.deleting)
  BY StepKeepsDeletion, CopiesCome DEF TornForGood
<1>2. InLoop' => orig'.deleting
  BY PassCopies DEF TornForGood, ReadCopy
<1>3. Torn'
  <2>1. CASE RunSubroutine
    <3>1. inst.deleting
      BY <2>1 DEF TornForGood, TornOK, RunSubroutine, InLoop
    <3> QED
      BY <2>1, <3>1, TermRun DEF TornForGood, Torn
  <2>2. CASE res' = res
    BY <2>2 DEF TornForGood, Torn
  <2> QED
    BY <2>1, <2>2, ResChanges
<1> QED
  BY <1>1, <1>2, <1>3 DEF TornForGood

LEMMA TornStep ==
  ASSUME TypeOK, DeletionOK, PassOK, TornOK, [Next]_vars
  PROVE  TornOK'
<1>1. (Terminator \in Claims0 /\ ~TermsKept') => TornForGood'
  <2> SUFFICES ASSUME Terminator \in Claims0, ~TermsKept' PROVE TornForGood'
    OBVIOUS
  <2>1. CASE ~TermsKept
    BY <2>1, TornStays DEF TornOK
  <2>2. CASE pc = "terminator"
    <3>1. TornForGood
      BY <2>2 DEF TornOK, TornForGood, DeletionOK, InLoop
    <3> QED
      BY <3>1, TornStays
  <2>3. CASE TermsKept /\ pc # "terminator"
    <3>1. /\ Terminator \in obj.terms /\ Terminator \in cache.terms
          /\ Terminator \in inst.terms
      BY <2>3 DEF TermsKept
    <3>2. Terminator \in obj'.terms
      BY <2>3, <3>1, TermsOfObj
    <3>3. Terminator \in cache'.terms
      BY <3>1, CopiesCome
    <3>4. \A d : Terminator \in Marked(inst, d).terms
      BY <3>1 DEF Marked, TypeOK, Objects
    <3>5. \A l : Terminator \in [inst EXCEPT !.fins = l].terms
      BY <3>1 DEF TypeOK, Objects
    <3>6. Terminator \in NewObject.terms
      BY DEF NewObject
    <3>7. Terminator \in inst'.terms
      BY <3>1, <3>2, <3>4, <3>5, <3>6, CopiesCome
    <3> QED
      BY <3>2, <3>3, <3>7 DEF TermsKept
  <2> QED
    BY <2>1, <2>2, <2>3
<1> QED
  BY <1>1, DeletionRead, TornInLoop, TerminatorReached DEF TornOK

\* The terminator comes off only when the terminating subroutines have torn down
\* what they made (lifecycle.go:149-154), and no pass makes it again: not one
\* with a lagging cache, nor one after a restart or a lost response.
THEOREM TerminatorIsHeld == Spec => []TerminatorHeld
<1>1. Init => ObsInv /\ TornOK
  <2> SUFFICES ASSUME Init PROVE ObsInv /\ TornOK
    OBVIOUS
  <2>1. ObsInv
    BY TypeInit
       DEF Init, ObsInv, GenOK, DeletionOK, PassOK, ObsOK, Processed, NewObject
  <2>2. TornOK
    BY DEF Init, NewObject, TornOK, TermsKept
  <2> QED
    BY <2>1, <2>2
<1>2. ObsInv /\ TornOK /\ [Next]_vars => ObsInv' /\ TornOK'
  BY TypeStep, DeletionStep, PassStep, ObsStep, TornStep DEF ObsInv
<1>3. TornOK => TerminatorHeld
  BY DEF TornOK, TermsKept, TornForGood, Torn, TerminatorHeld
<1> QED
  BY <1>1, <1>2, <1>3, PTL DEF Spec

-----------------------------------------------------------------------------
(* What the Ready condition says.                                            *)

\* A condition list of an object that was never in deletion: Ready=True names a
\* generation that is done, and the subroutines' conditions agree with it.
Honest(conds, done) ==
  conds[ReadyCond].status = "True" =>
    /\ conds[ReadyCond].gen \in done
    /\ \A s \in Subs : conds[<<s, "Ready">>].status = "True"

HonestOK ==
  ~obj.deleting =>
    /\ Honest(obj.conds, full) /\ Honest(cache.conds, full) /\ Honest(condArr, full)
    /\ (pc = "subroutine" /\ ~requeue /\ HasConditions) =>
         \A s \in Subs : Passed(s) => condArr[<<s, "Ready">>].status = "True"

LEMMA CondNameFacts ==
  /\ ReadyCond \in CondNames
  /\ \A s \in Subs : <<s, "Ready">> \in CondNames /\ <<s, "Ready">> # ReadyCond
  /\ \A s \in Subs : CondOf(s, FALSE) = <<s, "Ready">>
<1>1. \A s \in Subs : s # 0
  BY LifecycleAssumption DEF Subs
<1> QED
  BY <1>1 DEF ReadyCond, CondNames, CondOf

\* What the helpers do to an honest list.
LEMMA HonestLists ==
  ASSUME NEW conds \in Conditions, NEW done, Honest(conds, done),
         NEW g \in 0..(MaxEdits + 2)
  PROVE  /\ \A c \in CondNames : Honest(SetUnknownIfNotSet(conds, c, g), done)
         /\ \A s \in Subs : Honest(SetCond(conds, <<s, "Ready">>, "True", g), done)
         /\ Honest(SetCond(conds, ReadyCond, "False", g), done)
         /\ \A s \in Subs :
              Honest(SetCond(SetCond(conds, <<s, "Ready">>, "False", g),
                             ReadyCond, "False", g), done)
<1> USE CondNameFacts DEF SetCond, Conditions
<1>1. \A c \in CondNames : Honest(SetUnknownIfNotSet(conds, c, g), done)
  BY DEF SetUnknownIfNotSet, Honest
<1>2. \A s \in Subs : Honest(SetCond(conds, <<s, "Ready">>, "True", g), done)
  BY DEF Honest
<1>3. Honest(SetCond(conds, ReadyCond, "False", g), done)
  BY DEF Honest
<1>4. \A s \in Subs :
        Honest(SetCond(SetCond(conds, <<s, "Ready">>, "False", g),
                       ReadyCond, "False", g), done)
  BY DEF Honest
<1> QED
  BY <1>1, <1>2, <1>3, <1>4

LEMMA HonestGrows ==
  ASSUME NEW conds, NEW done, NEW more, done \subseteq more, Honest(conds, done)
  PROVE  Honest(conds, more)
BY DEF Honest

\* The API server's object takes its conditions from a status update.
LEMMA CondsOfObj ==
  ASSUME TypeOK, [Next]_vars
  PROVE  obj'.conds \in {obj.conds, condArr}
<1> USE DEF apiVars, CallSucceeds, CallFails, Write, Reaped, Edit, TypeOK, Objects
<1>1. CASE Begin \/ SkipReconcile \/ PrepareContext \/ HandleResult \/ FireTimer
           \/ Notify \/ Restart \/ Tick \/ RunSubroutine \/ Conclude
  BY <1>1 DEF Begin, SkipReconcile, PrepareContext, HandleResult, FireTimer,
              Notify, Restart, Tick, RunSubroutine, Conclude
<1>2. CASE AddFinalizers
  BY <1>2 DEF AddFinalizers
<1>3. CASE RemoveFinalizers
  BY <1>3 DEF RemoveFinalizers
<1>4. CASE UpdateStatusAfterError \/ UpdateStatus
  BY <1>4 DEF UpdateStatusAfterError, UpdateStatus, StatusWritten
<1>5. CASE RemoveTerminator \/ RemoveInitializer \/ RemoveRefreshLabel
  BY <1>5 DEF RemoveTerminator, RemoveInitializer, RemoveClaim, RemoveRefreshLabel
<1>6. CASE ChangeSpec \/ RequestRefresh \/ Delete
  BY <1>6 DEF ChangeSpec, RequestRefresh, Delete
<1>7. CASE HoldForeign \/ ReleaseForeign \/ ReleaseClaim
  BY <1>7 DEF HoldForeign, ReleaseForeign, ReleaseClaim
<1>8. CASE UNCHANGED vars
  BY <1>8 DEF vars
<1> QED
  BY <1>1, <1>2, <1>3, <1>4, <1>5, <1>6, <1>7, <1>8 DEF Next, Worker, Others

\* Steps that keep, read or reset the condition list.
LEMMA ListKept ==
  ASSUME TypeOK, [Next]_vars,
         ~PrepareContext, ~RunSubroutine, ~RemoveFinalizers, ~Conclude
  PROVE  /\ condArr' \in {condArr, cache.conds, obj.conds, obj'.conds, NoConditions}
         /\ pc' = "subroutine" => UNCHANGED <<condArr, pc, orig, pos, requeue>>
<1> USE DEF apiVars, passVars, Return, Finish
<1>1. CASE Begin
  BY <1>1 DEF Begin, ReadCopy
<1>2. CASE SkipReconcile \/ HandleResult \/ FireTimer \/ Notify \/ Restart \/ Tick
  BY <1>2 DEF SkipReconcile, HandleResult, FireTimer, Notify, Restart, Tick
<1>3. CASE AddFinalizers
  BY <1>3 DEF AddFinalizers
<1>4. CASE UpdateStatusAfterError \/ UpdateStatus \/ RemoveRefreshLabel
  BY <1>4 DEF UpdateStatusAfterError, UpdateStatus, RemoveRefreshLabel, AfterStatus
<1>5. CASE RemoveTerminator \/ RemoveInitializer
  BY <1>5 DEF RemoveTerminator, RemoveInitializer, RemoveClaim
<1>6. CASE Others \/ UNCHANGED vars
  BY <1>6, OthersKeepDeletion DEF vars
<1> QED
  BY <1>1, <1>2, <1>3, <1>4, <1>5, <1>6 DEF Next, Worker

\* The list after the call of a subroutine, in a pass not in deletion.
LEMMA HonestRun ==
  ASSUME TypeOK, DeletionOK, HonestOK, RunSubroutine, ~obj.deleting
  PROVE  /\ Honest(condArr', full)
         /\ (pc' = "subroutine" /\ ~requeue' /\ HasConditions) =>
              \A s \in Subs : Passed(s)' => condArr'[<<s, "Ready">>].status = "True"
<1> DEFINE s == Current
           conds == CondsOf(s)
<1>1. ~inst.deleting /\ ~orig.deleting
  BY DEF DeletionOK
<1>2. s \in Subs /\ s = pos /\ pos \in 1..N
  BY <1>1, CurrentTypes DEF RunSubroutine, Current, Subs, TypeOK
<1>3. CondOf(s, orig.deleting) = <<s, "Ready">>
  BY <1>1 DEF CondOf
<1>4. inst.gen \in 0..(MaxEdits + 2)
  BY LifecycleAssumption DEF TypeOK, Objects, Generations
<1>5. condArr \in Conditions /\ conds \in Conditions
  BY <1>2, <1>3, <1>4, SetUnknownType, CondNameFacts DEF CondsOf, TypeOK
<1>6. Honest(conds, full)
  BY <1>2, <1>3, <1>4, <1>5, HonestLists, CondNameFacts DEF CondsOf, HonestOK
<1>7. \A t \in Subs : condArr[<<t, "Ready">>].status = "True" =>
                        conds[<<t, "Ready">>].status = "True"
  BY <1>2, <1>3, <1>5, CondNameFacts
     DEF CondsOf, SetUnknownIfNotSet, SetCond, Conditions
<1> HIDE DEF conds
<1>8. CASE Succeed(s)
  <2>1. condArr' = SetCond(conds, <<s, "Ready">>, "True", inst.gen)
        /\ pos' = pos + 1 /\ orig' = orig /\ requeue' = requeue
    BY <1>3, <1>8 DEF RunSubroutine, Succeed, PassSubroutine, conds
  <2>2. Honest(condArr', full)
    BY <1>2, <1>4, <1>5, <1>6, <2>1, HonestLists
  <2>3. ASSUME ~requeue, HasConditions, NEW t \in Subs, Passed(t)'
        PROVE  condArr'[<<t, "Ready">>].status = "True"
    <3>1. t = s \/ Passed(t)
      BY <1>1, <1>2, <2>1, <2>3, LifecycleAssumption DEF Passed, Subs
    <3>2. CASE t = s
      BY <1>5, <2>1, <2>3, <3>2, CondNameFacts DEF SetCond, Conditions
    <3>3. CASE t # s /\ Passed(t)
      <4>1. condArr[<<t, "Ready">>].status = "True"
        BY <2>3, <3>3 DEF HonestOK, RunSubroutine
      <4> QED
        BY <1>2, <1>5, <1>7, <2>1, <3>3, <4>1, CondNameFacts DEF SetCond, Conditions
    <3> QED
      BY <3>1, <3>2, <3>3
  <2> QED
    BY <2>1, <2>2, <2>3
<1>9. CASE Finalized(s)
  BY <1>1, <1>9 DEF Finalized, Branch
<1>10. CASE AskForRequeue(s)
  BY <1>6, <1>10 DEF AskForRequeue, conds
<1>11. CASE FailForNow(s) \/ FailForGood(s)
  BY <1>2, <1>3, <1>4, <1>5, <1>6, <1>11, HonestLists
     DEF FailForNow, FailForGood, FailSubroutine, conds
<1> QED
  BY <1>8, <1>9, <1>10, <1>11 DEF RunSubroutine

\* The pass concludes: Ready=True is written only when it holds.
LEMMA HonestEnd ==
  ASSUME TypeOK, DeletionOK, PassOK, HonestOK, Conclude, ~obj.deleting
  PROVE  Honest(condArr', full')
<1>1. ~inst.deleting /\ ~orig.deleting
  BY DEF DeletionOK
<1>2. inst.gen \in 0..(MaxEdits + 2)
  BY LifecycleAssumption DEF TypeOK, Objects, Generations
<1>3. condArr \in Conditions /\ Honest(condArr, full)
  BY DEF HonestOK, TypeOK
<1>4. full \subseteq full'
  BY DEF Conclude
<1>5. CASE requeue
  BY <1>2, <1>3, <1>4, <1>5, HonestLists, HonestGrows DEF Conclude
<1>6. CASE ~requeue /\ (condArr[ReadyCond].status = "absent" \/ ~HasConditions)
  <2>1. condArr' = condArr
    BY <1>6 DEF Conclude, MarkedReady, SetCond
  <2> QED
    BY <1>3, <1>4, <2>1, HonestGrows
<1>7. CASE ~requeue /\ condArr[ReadyCond].status # "absent" /\ HasConditions
  <2>1. \A s \in Subs : Passed(s)
    <3>1. pos = N + 1
      BY DEF Conclude
    <3> QED
      BY <3>1, LifecycleAssumption DEF Passed, Subs
  <2>2. \A s \in Subs : ran[s] = inst.gen
    BY <1>1, <1>7, <2>1 DEF PassOK, Conclude
  <2>3. inst.gen \in full'
    BY <2>2 DEF Conclude
  <2>4. \A s \in Subs : condArr[<<s, "Ready">>].status = "True"
    BY <1>7, <2>1 DEF HonestOK, Conclude
  <2>5. condArr' = [condArr EXCEPT ![ReadyCond] = [status |-> "True", gen |-> inst.gen]]
    BY <1>7 DEF Conclude, MarkedReady, SetCond
  <2> QED
    BY <1>3, <2>3, <2>4, <2>5, CondNameFacts DEF Honest, Conditions
<1> QED
  BY <1>5, <1>6, <1>7

LEMMA HonestStep ==
  ASSUME TypeOK, DeletionOK, PassOK, HonestOK, [Next]_vars
  PROVE  HonestOK'
<1> SUFFICES ASSUME ~obj'.deleting PROVE HonestOK'
  BY DEF HonestOK
<1>1. ~obj.deleting
  BY StepKeepsDeletion
<1>2. full \subseteq full'
  BY ProcessedGrows
<1>3. /\ Honest(obj.conds, full') /\ Honest(cache.conds, full')
      /\ Honest(condArr, full') /\ Honest(obj'.conds, full')
  BY <1>1, <1>2, HonestGrows, CondsOfObj DEF HonestOK
<1>4. Honest(cache'.conds, full')
  BY <1>3, CopiesCome
<1>5. Honest(NoConditions, full')
  BY CondNameFacts DEF NoConditions, Honest
<1>6. /\ Honest(condArr', full')
      /\ (pc' = "subroutine" /\ ~requeue' /\ HasConditions) =>
           \A s \in Subs : Passed(s)' => condArr'[<<s, "Ready">>].status = "True"
  <2>1. CASE PrepareContext
    <3>1. inst.gen \in 0..(MaxEdits + 2) /\ condArr \in Conditions
      BY LifecycleAssumption DEF TypeOK, Objects, Generations
    <3>2. Honest(condArr', full')
      BY <1>3, <2>1, <3>1, HonestLists, CondNameFacts DEF PrepareContext
    <3>3. \A s \in Subs : ~Passed(s)'
      BY <1>1, <2>1, LifecycleAssumption
         DEF PrepareContext, PassOK, DeletionOK, Passed, Subs
    <3> QED
      BY <3>2, <3>3
  <2>2. CASE RunSubroutine
    BY <1>1, <1>2, <2>2, HonestRun, HonestGrows
  <2>3. CASE RemoveFinalizers
    BY <1>1, <2>3 DEF RemoveFinalizers, PassOK, DeletionOK
  <2>4. CASE Conclude
    <3>1. pc' # "subroutine"
      BY <2>4 DEF Conclude
    <3> QED
      BY <1>1, <2>4, <3>1, HonestEnd
  <2>5. CASE ~PrepareContext /\ ~RunSubroutine /\ ~RemoveFinalizers /\ ~Conclude
    <3>1. Honest(condArr', full')
      BY <1>3, <1>5, <2>5, ListKept
    <3>2. pc' = "subroutine" => UNCHANGED <<condArr, pc, orig, pos, requeue>>
      BY <2>5, ListKept
    <3> QED
      BY <1>1, <3>1, <3>2 DEF HonestOK, Passed
  <2> QED
    BY <2>1, <2>2, <2>3, <2>4, <2>5
<1> QED
  BY <1>3, <1>4, <1>6 DEF HonestOK

\* Ready=True for a generation, on an object not in deletion, says that one pass
\* took every subroutine through that generation and that no subroutine's own
\* condition contradicts it (lifecycle.go:117-147, conditions.go:37-110 set them).
THEOREM ReadyTellsTheTruth == Spec => []ReadyIsHonest
<1>1. Init => ObsInv /\ HonestOK
  <2> SUFFICES ASSUME Init PROVE ObsInv /\ HonestOK
    OBVIOUS
  <2>1. ObsInv
    BY TypeInit
       DEF Init, ObsInv, GenOK, DeletionOK, PassOK, ObsOK, Processed, NewObject
  <2>2. Honest(NoConditions, full)
    BY CondNameFacts DEF NoConditions, Honest
  <2>3. HonestOK
    BY <2>2 DEF Init, NewObject, HonestOK
  <2> QED
    BY <2>1, <2>3
<1>2. ObsInv /\ HonestOK /\ [Next]_vars => ObsInv' /\ HonestOK'
  BY TypeStep, DeletionStep, PassStep, ObsStep, HonestStep DEF ObsInv
<1>3. HonestOK => ReadyIsHonest
  BY DEF HonestOK, Honest, ReadyIsHonest
<1> QED
  BY <1>1, <1>2, <1>3, PTL DEF Spec

=============================================================================
